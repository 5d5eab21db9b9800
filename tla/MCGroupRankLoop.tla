-------------------------- MODULE MCGroupRankLoop --------------------------
(* Six nodes in three domains of three, two and one; segments of two, and
   replacement groups of two: of the five nodes with a group, two belong to one
   group and three to another, so that a group completes in several ways; the
   sixth node has no group and stays a standby.  One node of each domain may come
   without an infrastructure rank: one that does puts all of them in descriptor
   order, whatever the ranks of the others. *)
EXTENDS GroupRankLoop

MCNodes == 1..6
MCDomain == [n \in MCNodes |-> CASE n \in {1, 3, 5} -> "rackA"
                                 [] n \in {2, 4}    -> "rackB"
                                 [] OTHER           -> "rackC"]
MCGroup == [n \in MCNodes |-> CASE n \in {1, 2}    -> "task0"
                                [] n \in {3, 4, 5} -> "task1"
                                [] OTHER           -> "none"]
MCInfra == [n \in MCNodes |-> IF n \in {1, 4, 6} THEN 0..5 \cup {-1} ELSE 0..5]
MCEntrants == UNION {{[node |-> n, addr |-> n, infra |-> k,
                       domain |-> MCDomain[n], group |-> MCGroup[n]] : k \in MCInfra[n]} :
                        n \in MCNodes}
MCWorldSizes == {2, 4}
=============================================================================
