---------------------------- MODULE GroupRankLoop ----------------------------
(***************************************************************************)
(* The loop of _assign_group_ranks, statement by statement, over a         *)
(* snapshot of participants that grows as nodes join.  Its result is       *)
(* compared with the closed form of RankAssignment, with the feasibility   *)
(* test that guards the call, and with what the ranks have to look like.   *)
(***************************************************************************)
EXTENDS RankAssignment, Sequences

CONSTANTS GroupSize,    \* replacement_group_size; 0 stands for None
          Entrants,     \* the participants that may join
          WorldSizes    \* the world sizes the ranks are computed for

ASSUME EntrantsAssumption ==
    GroupSize \in Nat /\ \A p \in Entrants : p.node \in Int /\ p.infra \in Int
ASSUME WorldSizesAssumption ==   \* the handler's constructor requires whole segments
    WorldSizes \subseteq Nat /\ \A ws \in WorldSizes : ws % SegmentLen = 0

VARIABLE joined         \* the participants the store host sees

-----------------------------------------------------------------------------
(* The loop *)

\* The elements of D from the smallest key to the largest.
Sorted(D, key) ==
    [i \in 1 .. Cardinality(D) |->
        CHOOSE p \in D : Cardinality({q \in D : key[q] < key[p]}) = i - 1]

\* Mutant: a domain comes where its last participant does.
SortedDomainsByLast(P, A) ==
    LET key == [p \in P |-> SortKey(P, p)]
        last == [d \in DomainsOf(A) |-> Max({key[p] : p \in d})]
        domains == Sorted(DomainsOf(A), last)
    IN  [i \in DOMAIN domains |-> Sorted(domains[i], key)]

\* defaultdict of domains, each a sequence of its participants in rank order,
\* themselves in the order of their first participant.
SortedDomains(P, A) ==
    LET key == [p \in P |-> SortKey(P, p)]
        first == [d \in DomainsOf(A) |-> Min({key[p] : p \in d})]
        domains == Sorted(DomainsOf(A), first)
    IN  [i \in DOMAIN domains |-> Sorted(domains[i], key)]

\* One pass of the loop body over domain d, from the locals of the pass before.
\* Mutant: the segments already taken are not counted.
WalkDomainForgetful(worldSize, st, d) ==
    LET take == (Len(d) \div SegmentLen) * SegmentLen
    IN  [rank |-> [p \in DOMAIN st.rank \cup {d[i] : i \in DOMAIN d} |->
                     IF p \in DOMAIN st.rank THEN st.rank[p]
                     ELSE LET i == CHOOSE i \in DOMAIN d : d[i] = p
                          IN  IF i <= take THEN st.active + i - 1
                              ELSE st.standby + (i - take) - 1],
         active |-> st.active + take,
         segments |-> st.segments + (take \div SegmentLen),
         standby |-> st.standby + (Len(d) - take)]

WalkDomain(worldSize, st, d) ==
    LET wanted == (worldSize \div SegmentLen) - st.segments
        has == Len(d) \div SegmentLen
        taken == IF wanted > 0 /\ has > 0
                 THEN IF has < wanted THEN has ELSE wanted
                 ELSE 0
        take == taken * SegmentLen
    IN  [rank |-> [p \in DOMAIN st.rank \cup {d[i] : i \in DOMAIN d} |->
                     IF p \in DOMAIN st.rank THEN st.rank[p]
                     ELSE LET i == CHOOSE i \in DOMAIN d : d[i] = p
                          IN  IF i <= take THEN st.active + i - 1
                              ELSE st.standby + (i - take) - 1],
         active |-> st.active + take,
         segments |-> st.segments + taken,
         standby |-> st.standby + (Len(d) - take)]

\* The locals after the loop over the domains.
LoopResult(A, S, worldSize) ==
    LET domains == SortedDomains(A \cup S, A)
        st[k \in 0 .. Len(domains)] ==
            IF k = 0
            THEN [rank |-> [p \in {} |-> UNASSIGNED],
                  active |-> 0, segments |-> 0, standby |-> worldSize]
            ELSE WalkDomain(worldSize, st[k - 1], domains[k])
    IN  st[Len(domains)]

\* The RuntimeError "Insufficient nodes".
Insufficient(A, S, worldSize) ==
    LoopResult(A, S, worldSize).segments < worldSize \div SegmentLen

\* The ranks after the last loop, over the standby-only participants.
LoopRanks(A, S, worldSize) ==
    LET st == LoopResult(A, S, worldSize)
        P == A \cup S
        last == Sorted(S, [p \in P |-> SortKey(P, p)])
    IN  [p \in P |-> IF p \in A THEN st.rank[p]
                     ELSE st.standby + (CHOOSE i \in DOMAIN last : last[i] = p) - 1]

-----------------------------------------------------------------------------
(* The participants join one at a time. *)

NobodyJoined == joined = {}

\* A node joins with an infrastructure rank no other node has, or with none.
Arrive(p) ==
    /\ \A q \in joined : q.node # p.node
    /\ p.infra = -1 \/ \A q \in joined : q.infra # p.infra
    /\ joined' = joined \cup {p}

Arriving == \E p \in Entrants : Arrive(p)

ArrivalSpec == NobodyJoined /\ [][Arriving]_joined

-----------------------------------------------------------------------------
Candidates == CompleteParticipants(joined, GroupSize)
Standbys == IncompleteParticipants(joined, GroupSize)
Feasible(worldSize) == CanMeetSegmentConstraint(Candidates, worldSize)

(* The feasibility test that _host_close_round makes before the call is
   exact: the loop raises "Insufficient nodes" if and only if the test
   fails, so a round that passes it never dies in the rank assignment. *)
FeasibilityIsExact ==
    \A ws \in WorldSizes : Feasible(ws) <=> ~Insufficient(Candidates, Standbys, ws)

(* The loop of _assign_group_ranks computes the closed form that the
   protocol's model uses. *)
LoopIsClosedForm ==
    \A ws \in WorldSizes :
        Feasible(ws) => LoopRanks(Candidates, Standbys, ws)
                          = AssignGroupRanks(Candidates, Standbys, ws)

(* The ranks are 0..n-1 without a gap or a repeat, every world rank goes to a
   member of a complete replacement group, and the active ranks of one
   segment stay in one domain (what the segment is for). *)
RanksAreDenseAndSegmented ==
    \A ws \in WorldSizes :
        Feasible(ws) =>
            LET rank == LoopRanks(Candidates, Standbys, ws)
            IN  /\ {rank[p] : p \in joined} = 0 .. (Cardinality(joined) - 1)
                /\ \A p, q \in joined :
                      /\ rank[p] < ws /\ rank[q] < ws
                      /\ rank[p] \div SegmentLen = rank[q] \div SegmentLen
                      => /\ Segment = 0 \/ p.domain = q.domain
                         /\ GroupSize > 0 =>
                              Cardinality({r \in joined : r.group = p.group}) >= GroupSize

LosesOnlyToEarlier ==
    \A ws \in WorldSizes :
        LET seats(A, S) == LET rank == LoopRanks(A, S, ws) IN {p \in A : rank[p] < ws}
            key(p) == SortKey(joined', p)
            start(p) == Min({key(q) : q \in {r \in Candidates' : SameDomain(p, r)}})
            earlier(r, q) == start(r) < start(q) \/ (SameDomain(r, q) /\ key(r) < key(q))
            before == seats(Candidates, Standbys)
            after == seats(Candidates', Standbys')
        IN  Feasible(ws) => \A q \in before \ after : \E r \in after \ before : earlier(r, q)

(* A node that joins late takes an active rank away from another node only for
   nodes that come before it in the rank order the join has led to: of a domain
   that starts earlier, or earlier in the same domain.  A hot spare at the end of
   the order displaces nobody. *)
RankLostOnlyToEarlier == [][LosesOnlyToEarlier]_joined
=============================================================================
