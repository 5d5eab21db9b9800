--------------------------- MODULE RankAssignment ---------------------------
(***************************************************************************)
(* How the store host of a rendezvous turns the participants of a round    *)
(* into group ranks (fault_tolerance/ft_rendezvous_barrier.py): the filter *)
(* on complete replacement groups, the segment constraint, and the ranks.  *)
(*                                                                         *)
(* A participant is a record [node, addr, infra, domain, group].  "node"   *)
(* is the node descriptor's place in the sort order of descriptors, so it  *)
(* also identifies the participant; "infra" is -1 when no infrastructure   *)
(* rank is known; "group" is NoGroup when no replacement group is set.     *)
(*                                                                         *)
(* The code walks the sorted domains in one loop.  Here each rank is given *)
(* in closed form, by counting the participants that come before, so that  *)
(* it can be reasoned about; GroupRankLoop translates the loop itself and  *)
(* TLC compares the two.                                                   *)
(***************************************************************************)
EXTENDS Integers, FiniteSets, FiniteSetsExt

CONSTANTS Segment,     \* nodes per segment; 0 stands for segment=None
          NoGroup      \* the group of a participant that has none

ASSUME SegmentAssumption == Segment \in Nat

UNASSIGNED == -1       \* GroupRankStatus.UNASSIGNED

SegmentLen == IF Segment = 0 THEN 1 ELSE Segment

-----------------------------------------------------------------------------
(* _split_by_complete_replacement_groups; group size 0 stands for None. *)

\* Mutant: every grouped participant counts as complete.
CompleteAnySize(P, groupSize) == {p \in P : groupSize = 0 \/ p.group # NoGroup}

CompleteParticipants(P, groupSize) ==
    {p \in P : \/ groupSize = 0
               \/ /\ p.group # NoGroup
                  /\ Cardinality({q \in P : q.group = p.group}) >= groupSize}

IncompleteParticipants(P, groupSize) == P \ CompleteParticipants(P, groupSize)

-----------------------------------------------------------------------------
(* _sort_rankable_participants: infrastructure ranks order the participants,
   unless one of them has none, which puts all of them in descriptor order. *)

HasUnassignedInfra(P) == \E p \in P : p.infra = -1

SortKey(P, p) == IF HasUnassignedInfra(P)
                 THEN Cardinality({q \in P : q.node < p.node})
                 ELSE p.infra

\* The RuntimeError of two participants with one infrastructure rank.
DuplicateInfra(P) ==
    ~HasUnassignedInfra(P) /\ \E p, q \in P : p # q /\ p.infra = q.infra

-----------------------------------------------------------------------------
(* _can_meet_segment_constraint *)

\* Without a segment every participant is a domain of its own.
SameDomain(p, q) == IF Segment = 0 THEN p = q ELSE p.domain = q.domain

DomainsOf(A) == {{q \in A : SameDomain(p, q)} : p \in A}

\* Mutant: segments that straddle two domains count.
CanMeetPooled(A, worldSize) == Cardinality(A) >= worldSize

CanMeetSegmentConstraint(A, worldSize) ==
    MapThenSumSet(LAMBDA d : Cardinality(d) \div SegmentLen, DomainsOf(A))
        >= worldSize \div SegmentLen

-----------------------------------------------------------------------------
(* _assign_group_ranks *)

\* All of P is in the rank order; A is the part that may become active.
EarlierInDomain(P, A, p) ==
    {q \in A : SameDomain(p, q) /\ SortKey(P, q) < SortKey(P, p)}

SegmentsOf(A, p) == Cardinality({q \in A : SameDomain(p, q)}) \div SegmentLen

\* Participants that fill a whole segment of their domain.
Seated(P, A) ==
    {p \in A : Cardinality(EarlierInDomain(P, A, p)) < SegmentsOf(A, p) * SegmentLen}

\* A domain's place is that of its first participant.
DomainKey(P, A, p) ==
    CHOOSE k \in {SortKey(P, q) : q \in {r \in A : SameDomain(p, r)}} :
        \A q \in A : SameDomain(p, q) => k <= SortKey(P, q)

\* The loop's visiting order: domain by domain, then by rank order.
Before(P, A, p, q) ==
    \/ DomainKey(P, A, p) < DomainKey(P, A, q)
    \/ SameDomain(p, q) /\ SortKey(P, p) < SortKey(P, q)

SeatedBefore(P, A, p) == {q \in Seated(P, A) : Before(P, A, q, p)}

ActiveSet(P, A, worldSize) ==
    {p \in Seated(P, A) : Cardinality(SeatedBefore(P, A, p)) < worldSize}

\* Ranks of the candidates A and the standby-only participants S.
AssignGroupRanks(A, S, worldSize) ==
    LET P == A \cup S
        active == ActiveSet(P, A, worldSize)
        spare == A \ active
    IN  [p \in P |->
            IF p \in active
            THEN Cardinality(SeatedBefore(P, A, p))
            ELSE IF p \in A
            THEN worldSize + Cardinality({q \in spare : Before(P, A, q, p)})
            ELSE worldSize + Cardinality(spare)
                 + Cardinality({q \in S : SortKey(P, q) < SortKey(P, p)})]
=============================================================================
