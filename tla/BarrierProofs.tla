--------------------------- MODULE BarrierProofs ---------------------------
(***************************************************************************)
(* Type correctness of the rendezvous barrier, the safety of its slot      *)
(* protocol, and that it implements RendezvousRounds, for every value of   *)
(* the constants.                                                          *)
(*                                                                         *)
(* Typing needs the shape of the join: the control process never joins,    *)
(* and a process that writes keys holds a slot (TInv).                     *)
(*                                                                         *)
(* The argument: a slot is what store.add returned, so it is above every   *)
(* slot handed out before in that round (SlotsCounted) and no launcher     *)
(* shares it with another (SlotsApart).  Hence a slot's keys carry the     *)
(* round of a launcher that holds the slot only once that launcher has     *)
(* written them (Unwritten): nobody else may write them, and the host only *)
(* writes rank keys of slots whose owners have finished writing            *)
(* (SnapshotOfWriters).                                                    *)
(*                                                                         *)
(* What the host's round has to do with those of the others is only sure   *)
(* while no closed round is opened again (ClosedStaysClosed): then nobody  *)
(* is ahead of the host (HostLeads).  That much holds with one opener, and *)
(* with any number of them when every launcher is needed in every round    *)
(* (NoSpares): then a closed round has all of them in it or past it.       *)
(*                                                                         *)
(* From there the keys of a round can be followed to whoever reads them.   *)
(* A launcher has data in one slot of a round (OneKey), and both keys of a *)
(* ranked slot are of one round (KeysTogether); so the ranks the host      *)
(* writes, which fill the world (RanksFillTheWorld), are a bijection       *)
(* between the members and the ranks, they are still in the keys for       *)
(* whoever finds them there of a closed round (WorldsKept), and a launcher *)
(* that has run in a round joins no more in it (Over, EnteredOnce).        *)
(*                                                                         *)
(* The facts about the ranks are those of RankProofs; the constants and    *)
(* the variable of GroupRankLoop that come with it are not used here.      *)
(***************************************************************************)
EXTENDS BarrierRefinement, RankProofs

RankWriters == {"rankGet", "rankSet"}
SlotWriters == RankWriters \cup {"slotGet", "slotSet"}
SlotHolders == SlotWriters \cup {"s3", "s3done", "s3rank"}
NoSlotYet == {"init", "initSet", "keyCheck", "keySet", "s0", "s0read",
              "count", "mark", "add", "open", "stop", "stopOpen"}
HostLabels == {"close", "probe", "fetch", "decide", "assign", "finish"}

\* The control process never joins.
ControlNeverJoins ==
    \A n \in Procs \ Launchers :
        slot[n] = 0 /\ pc[n] \notin SlotHolders \cup {"count", "mark", "add"}

\* A process on its way to join holds no slot; one that has joined holds one.
SlotWhenJoined ==
    \A n \in Procs : /\ pc[n] \in NoSlotYet => slot[n] = 0
                     /\ pc[n] \in SlotHolders => slot[n] # 0
                     /\ pc[n] \in HostLabels /\ n \in Launchers => slot[n] # 0

TInv == TypeOK /\ ControlNeverJoins /\ SlotWhenJoined

-----------------------------------------------------------------------------
(* Types *)

(* The participants of a snapshot are finitely many. *)
LEMMA FiniteParticipants == IsFiniteSet(CurrentParticipants)
<1> DEFINE N == {snapshot[k] : k \in Slots} \ {NoNode}
           D == [n \in N |-> Desc(n)]
<1>1. IsFiniteSet(Slots)
  BY FS_Interval, BoundsAssumption DEF Slots
<1>2. IsFiniteSet({snapshot[k] : k \in Slots})
  BY <1>1, FiniteImage
<1>3. IsFiniteSet(N)
  BY <1>2, FS_Subset
<1>4. IsFiniteSet({D[n] : n \in N})
  <2> HIDE DEF N, D
  <2> QED  BY <1>3, FiniteImage
<1>5. CurrentParticipants = {D[n] : n \in N}
  BY DEF CurrentParticipants
<1> QED
  BY <1>4, <1>5

(* assign_group_ranks gives every participant of its argument a number. *)
LEMMA RanksAreInts ==
  ASSUME NEW A, NEW S, IsFiniteSet(A), IsFiniteSet(S), NEW ws \in Int,
         NEW p \in A \cup S
  PROVE  AssignGroupRanks(A, S, ws)[p] \in Int
<1> DEFINE P == A \cup S
           active == ActiveSet(P, A, ws)
           spare == A \ active
<1>1. IsFiniteSet(SeatedBefore(P, A, p))
  <2>1. SeatedBefore(P, A, p) \subseteq A
    BY DEF SeatedBefore, Seated
  <2> QED  BY <2>1, FS_Subset
<1>2. IsFiniteSet(spare) /\ IsFiniteSet({q \in spare : Before(P, A, q, p)})
  BY FS_Subset
<1>3. IsFiniteSet({q \in S : SortKey(P, q) < SortKey(P, p)})
  BY FS_Subset
<1>4. /\ Cardinality(SeatedBefore(P, A, p)) \in Nat
      /\ Cardinality(spare) \in Nat
      /\ Cardinality({q \in spare : Before(P, A, q, p)}) \in Nat
      /\ Cardinality({q \in S : SortKey(P, q) < SortKey(P, p)}) \in Nat
  BY <1>1, <1>2, <1>3, FS_CardinalityType
<1> HIDE DEF active, spare
<1>5. AssignGroupRanks(A, S, ws)[p] =
        IF p \in active THEN Cardinality(SeatedBefore(P, A, p))
        ELSE IF p \in A THEN ws + Cardinality({q \in spare : Before(P, A, q, p)})
        ELSE ws + Cardinality(spare)
                + Cardinality({q \in S : SortKey(P, q) < SortKey(P, p)})
  BY DEF AssignGroupRanks, active, spare
<1> QED
  BY <1>4, <1>5

(* assign_group_ranks writes numbers, fenced with the host's round, to the slots
   of the snapshot, and remembers infrastructure ranks with their groups. *)
LEMMA AssignmentTypes ==
  ASSUME TypeOK, HostAssign
  PROVE  rank_key' \in [Slots -> RankValues] /\ previous_active' \subseteq Int \X Groups
<1> DEFINE A == CompleteParticipants(CurrentParticipants, HostGroupSize)
           S == IncompleteParticipants(CurrentParticipants, HostGroupSize)
           ranks == AssignGroupRanks(A, S, MinNodes)
<1> USE DEF TypeOK, StoreTypeOK, LocalTypeOK, HostTypeOK
<1>1. A \subseteq CurrentParticipants /\ S \subseteq CurrentParticipants
  BY DEF CompleteParticipants, IncompleteParticipants
<1>2. IsFiniteSet(A) /\ IsFiniteSet(S)
  BY <1>1, FiniteParticipants, FS_Subset
<1>3. MinNodes \in Int /\ Host \in Procs
  BY NodesAssumption DEF Procs
<1>4. \A p \in A \cup S : ranks[p] \in Int
  BY <1>2, <1>3, RanksAreInts
<1>5. DOMAIN ranks = A \cup S
  BY DEF AssignGroupRanks
<1>6. \/ UNCHANGED <<rank_key, previous_active>>
      \/ rank_key' = RanksWritten(ranks) /\ previous_active' = ActiveMembership(A, ranks)
  BY DEF HostAssign
<1> HIDE DEF A, S, ranks
<1>7. RanksWritten(ranks) \in [Slots -> RankValues]
  <2>1. SUFFICES ASSUME NEW k \in Slots
                 PROVE  (IF snapshot[k] # NoNode /\ Desc(snapshot[k]) \in DOMAIN ranks
                         THEN [round |-> round[Host], rank |-> ranks[Desc(snapshot[k])]]
                         ELSE rank_key[k]) \in RankValues
    BY DEF RanksWritten
  <2>2. round[Host] \in Rounds
    BY <1>3
  <2> QED
    BY <2>2, <1>4, <1>5 DEF RankValues
<1>8. ActiveMembership(A, ranks) \subseteq Int \X Groups
  <2>1. SUFFICES ASSUME NEW p \in A PROVE <<p.infra, p.group>> \in Int \X Groups
    BY DEF ActiveMembership
  <2>2. PICK k \in Slots : snapshot[k] # NoNode /\ p = Desc(snapshot[k])
    BY <1>1 DEF CurrentParticipants
  <2>3. snapshot[k] \in Launchers
    BY <2>2
  <2> QED
    BY <2>2, <2>3, AttributesAssumption DEF Desc, Groups
<1> QED
  BY <1>6, <1>7, <1>8

-----------------------------------------------------------------------------
(* The initial state has the types and shape of TInv. *)
LEMMA TInvInit == Init => TInv
<1> SUFFICES ASSUME Init PROVE TInv
  OBVIOUS
<1> USE BoundsAssumption, LaunchersAssumption DEF Init
<1>1. StoreTypeOK
  BY DEF StoreTypeOK, AbsentSlot, AbsentRank, SlotValues, RankValues, UNASSIGNED, NoNode,
         Rounds, Slots, Reasons
<1>2. LocalTypeOK
  BY DEF LocalTypeOK, Labels, Rounds, Slots, AbsentRank, RankValues, UNASSIGNED
<1>3. HostTypeOK
  BY DEF HostTypeOK, NoSnapshot, NoNode
<1>4. ControlNeverJoins
  BY DEF ControlNeverJoins, SlotHolders, SlotWriters, RankWriters
<1>5. SlotWhenJoined
  BY DEF SlotWhenJoined, SlotHolders, SlotWriters, RankWriters, HostLabels
<1> QED
  BY <1>1, <1>2, <1>3, <1>4, <1>5 DEF TInv, TypeOK

(* Every step leaves values of their kind in the store. *)
LEMMA StoreTypeNext == TInv /\ [Next]_vars => StoreTypeOK'
<1> SUFFICES ASSUME TInv, [Next]_vars PROVE StoreTypeOK'
  OBVIOUS
<1> USE BoundsAssumption DEF TInv, TypeOK, StoreTypeOK, Goto
<1>1. ASSUME NEW n \in Procs, InitSet(n) PROVE StoreTypeOK'
  BY <1>1 DEF InitSet, Rounds
<1>2. ASSUME InitShutdownSet PROVE StoreTypeOK'
  BY <1>2 DEF InitShutdownSet
<1>3. ASSUME HostCheck PROVE StoreTypeOK'
  BY <1>3 DEF HostCheck, Reasons
<1>4. ASSUME HostDecide PROVE StoreTypeOK'
  BY <1>4 DEF HostDecide, ShutdownWith, Reasons, IsShutdown
<1>5. ASSUME HostFinish PROVE StoreTypeOK'
  BY <1>5 DEF HostFinish
<1>6. ASSUME NEW n \in Procs, OpenNextRound(n) PROVE StoreTypeOK'
  BY <1>6 DEF OpenNextRound
<1>7. ASSUME NEW n \in Procs, SignalNoRestart(n) PROVE StoreTypeOK'
  BY <1>7 DEF SignalNoRestart, ShutdownWith, Reasons, IsShutdown
<1>8. ASSUME NEW n \in Procs, LeaveJob(n) PROVE StoreTypeOK'
  BY <1>8 DEF LeaveJob, ExitWith, ShutdownWith, Reasons, IsShutdown
<1>9. ASSUME NEW n \in Procs, ShutdownWorkload(n) PROVE StoreTypeOK'
  BY <1>9 DEF ShutdownWorkload, ShutdownWith, Reasons, IsShutdown
<1>10. ASSUME NEW n \in Procs, JoinTimeout(n) PROVE StoreTypeOK'
  BY <1>10 DEF JoinTimeout, ExitWith, ShutdownWith, Reasons, IsShutdown
<1>11. ASSUME NEW n \in Procs, FaultExit(n) PROVE StoreTypeOK'
  BY <1>11 DEF FaultExit, ExitWith, ShutdownWith, Reasons, IsShutdown
<1>12. ASSUME NEW n \in Procs, CountUnhealthy(n) PROVE StoreTypeOK'
  <2>1. unhealthy_count' \in Nat
    BY <1>12 DEF CountUnhealthy
  <2> QED
    BY <1>12, <2>1 DEF CountUnhealthy
<1>13. ASSUME NEW n \in Procs, MarkGroupUnhealthy(n) PROVE StoreTypeOK'
  <2>1. n \in Launchers
    BY <1>13 DEF MarkGroupUnhealthy, ControlNeverJoins
  <2>2. Group[n] \in Groups
    BY <2>1 DEF Groups
  <2>3. unhealthy_groups' \in [Rounds -> SUBSET Groups]
    BY <1>13, <2>2 DEF MarkGroupUnhealthy
  <2> QED
    BY <1>13, <2>3 DEF MarkGroupUnhealthy
<1>14. ASSUME NEW n \in Procs, Join(n) PROVE StoreTypeOK'
  <2>1. round[n] \in Rounds
    BY DEF LocalTypeOK
  <2>2. join_count[round[n]] + 1 \in 0 .. MaxSlots
    BY <1>14, <2>1 DEF Join
  <2>3. join_count' \in [Rounds -> 0 .. MaxSlots]
    BY <1>14, <2>2 DEF Join
  <2> QED
    BY <1>14, <2>3 DEF Join
<1>15. ASSUME NEW n \in Procs, WriteRankKey(n) PROVE StoreTypeOK'
  <2>1. MyRank(n) \in RankValues
    BY DEF LocalTypeOK, MyRank, RankValues, UNASSIGNED
  <2>2. rank_key' \in [Slots -> RankValues]
    BY <1>15, <2>1 DEF WriteRankKey
  <2> QED
    BY <1>15, <2>2 DEF WriteRankKey
<1>16. ASSUME NEW n \in Procs, WriteSlotKey(n) PROVE StoreTypeOK'
  <2>1. n \in Launchers
    BY <1>16 DEF WriteSlotKey, ControlNeverJoins, SlotHolders, SlotWriters
  <2>2. MySlot(n) \in SlotValues
    BY <2>1 DEF LocalTypeOK, MySlot, SlotValues
  <2>3. slot_key' \in [Slots -> SlotValues]
    BY <1>16, <2>2 DEF WriteSlotKey
  <2> QED
    BY <1>16, <2>3 DEF WriteSlotKey
<1>17. ASSUME HostAssign PROVE StoreTypeOK'
  BY <1>17, AssignmentTypes DEF HostAssign
<1>18. ASSUME UNCHANGED store PROVE StoreTypeOK'
  BY <1>18 DEF store
<1>19. ASSUME NEW n \in Procs,
               \/ InitCheck(n) \/ WaitCheckShutdown(n) \/ WaitReadRound(n) \/ ReadRankKey(n)
               \/ ReadSlotKey(n) \/ DoneCheckShutdown(n) \/ DoneReadRound(n) \/ DoneReadRank(n)
               \/ PeerOpenedRound(n) \/ SignalCheckNextRound(n) \/ WorkersFailed(n) \/ Crash(n)
        PROVE  UNCHANGED store
  BY <1>19 DEF InitCheck, WaitCheckShutdown, WaitReadRound, ReadRankKey, ReadSlotKey, DoneCheckShutdown,
           DoneReadRound, DoneReadRank, PeerOpenedRound, SignalCheckNextRound, WorkersFailed, Crash, FencedRead, store
<1>20. ASSUME 
               \/ InitShutdownCheck \/ HostProbe \/ HostFetch \/ LastCallExpires
        PROVE  UNCHANGED store
  BY <1>20 DEF InitShutdownCheck, HostProbe, HostFetch, LastCallExpires, store
<1>21. CASE UNCHANGED vars
  BY <1>21, <1>18 DEF vars
<1> HIDE DEF TInv, TypeOK, StoreTypeOK
<1> QED
  BY <1>1, <1>2, <1>3, <1>4, <1>5, <1>6, <1>7, <1>8, <1>9,
     <1>10, <1>11, <1>12, <1>13, <1>14, <1>15, <1>16, <1>17, <1>18,
     <1>19, <1>20, <1>21
     DEF Next, Joining, Monitoring, Events, Closing

(* Every step leaves values of their kind in the processes. *)
LEMMA LocalTypeNext == TInv /\ [Next]_vars => LocalTypeOK'
<1> SUFFICES ASSUME TInv, [Next]_vars PROVE LocalTypeOK'
  OBVIOUS
<1> USE BoundsAssumption DEF TInv, TypeOK, LocalTypeOK, Goto
<1>1. ASSUME NEW n \in Procs, InitCheck(n) PROVE LocalTypeOK'
  BY <1>1 DEF InitCheck, AfterRoundKey, Sync, Labels, Procs, UNASSIGNED, Slots, local
<1>2. ASSUME NEW n \in Procs, InitSet(n) PROVE LocalTypeOK'
  BY <1>2 DEF InitSet, AfterRoundKey, Sync, Labels, Procs, UNASSIGNED, Slots, local
<1>3. ASSUME NEW n \in Procs, WaitCheckShutdown(n) PROVE LocalTypeOK'
  BY <1>3 DEF WaitCheckShutdown, Labels, Procs, UNASSIGNED, Slots, local
<1>4. ASSUME NEW n \in Procs, WaitReadRound(n) PROVE LocalTypeOK'
  BY <1>4 DEF WaitReadRound, Sync, EnterCloseLoop, Labels, Procs, UNASSIGNED, Slots, local
<1>5. ASSUME NEW n \in Procs, CountUnhealthy(n) PROVE LocalTypeOK'
  BY <1>5 DEF CountUnhealthy, Labels, Procs, UNASSIGNED, Slots, local
<1>6. ASSUME NEW n \in Procs, MarkGroupUnhealthy(n) PROVE LocalTypeOK'
  BY <1>6 DEF MarkGroupUnhealthy, Labels, Procs, UNASSIGNED, Slots, local
<1>7. ASSUME NEW n \in Procs, Join(n) PROVE LocalTypeOK'
  BY <1>7 DEF Join, Labels, Procs, UNASSIGNED, Slots, local, StoreTypeOK
<1>8. ASSUME NEW n \in Procs, DoneCheckShutdown(n) PROVE LocalTypeOK'
  BY <1>8 DEF DoneCheckShutdown, Labels, Procs, UNASSIGNED, Slots, local
<1>9. ASSUME NEW n \in Procs, DoneReadRound(n) PROVE LocalTypeOK'
  BY <1>9 DEF DoneReadRound, Labels, Procs, UNASSIGNED, Slots, local
<1>10. ASSUME NEW n \in Procs, WorkersFailed(n) PROVE LocalTypeOK'
  BY <1>10 DEF WorkersFailed, LeaveWorld, NextRound, Labels, Procs, UNASSIGNED, Slots, local
<1>11. ASSUME NEW n \in Procs, OpenNextRound(n) PROVE LocalTypeOK'
  BY <1>11 DEF OpenNextRound, Labels, Procs, UNASSIGNED, Slots, local
<1>12. ASSUME NEW n \in Procs, PeerOpenedRound(n) PROVE LocalTypeOK'
  BY <1>12 DEF PeerOpenedRound, LeaveWorld, NextRound, Labels, Procs, UNASSIGNED, Slots, local
<1>13. ASSUME NEW n \in Procs, SignalNoRestart(n) PROVE LocalTypeOK'
  BY <1>13 DEF SignalNoRestart, LeaveWorld, MayStop, Labels, Procs, UNASSIGNED, Slots, local
<1>14. ASSUME NEW n \in Procs, SignalCheckNextRound(n) PROVE LocalTypeOK'
  BY <1>14 DEF SignalCheckNextRound, NextRound, Labels, Procs, UNASSIGNED, Slots, local
<1>15. ASSUME NEW n \in Procs, LeaveJob(n) PROVE LocalTypeOK'
  BY <1>15 DEF LeaveJob, LeaveWorld, ExitWith, Labels, Procs, UNASSIGNED, Slots, local
<1>16. ASSUME NEW n \in Procs, ShutdownWorkload(n) PROVE LocalTypeOK'
  BY <1>16 DEF ShutdownWorkload, Labels, Procs, UNASSIGNED, Slots, local
<1>17. ASSUME NEW n \in Procs, JoinTimeout(n) PROVE LocalTypeOK'
  BY <1>17 DEF JoinTimeout, ExitWith, Labels, Procs, UNASSIGNED, Slots, local
<1>18. ASSUME NEW n \in Procs, FaultExit(n) PROVE LocalTypeOK'
  BY <1>18 DEF FaultExit, ExitWith, Labels, Procs, UNASSIGNED, Slots, local
<1>19. ASSUME NEW n \in Procs, Crash(n) PROVE LocalTypeOK'
  BY <1>19 DEF Crash, LeaveWorld, Labels, Procs, UNASSIGNED, Slots, local
<1>20. ASSUME InitShutdownCheck PROVE LocalTypeOK'
  BY <1>20 DEF InitShutdownCheck, Sync, Labels, Procs, UNASSIGNED, Slots, local
<1>21. ASSUME InitShutdownSet PROVE LocalTypeOK'
  BY <1>21 DEF InitShutdownSet, Sync, Labels, Procs, UNASSIGNED, Slots, local
<1>22. ASSUME HostCheck PROVE LocalTypeOK'
  BY <1>22 DEF HostCheck, Labels, Procs, UNASSIGNED, Slots, local
<1>23. ASSUME HostProbe PROVE LocalTypeOK'
  BY <1>23 DEF HostProbe, Labels, Procs, UNASSIGNED, Slots, local
<1>24. ASSUME HostFetch PROVE LocalTypeOK'
  BY <1>24 DEF HostFetch, Labels, Procs, UNASSIGNED, Slots, local
<1>25. ASSUME HostDecide PROVE LocalTypeOK'
  BY <1>25 DEF HostDecide, Labels, Procs, UNASSIGNED, Slots, local
<1>26. ASSUME HostAssign PROVE LocalTypeOK'
  BY <1>26 DEF HostAssign, Labels, Procs, UNASSIGNED, Slots, local
<1>27. ASSUME HostFinish PROVE LocalTypeOK'
  BY <1>27 DEF HostFinish, Labels, Procs, UNASSIGNED, Slots, local
<1>28. ASSUME LastCallExpires PROVE LocalTypeOK'
  BY <1>28 DEF LastCallExpires, Labels, Procs, UNASSIGNED, Slots, local
<1>29. ASSUME NEW n \in Procs, ReadRankKey(n) PROVE LocalTypeOK'
  <2>1. rank_key[slot[n]] \in RankValues
    BY <1>29 DEF ReadRankKey, StoreTypeOK, SlotWhenJoined, SlotHolders, SlotWriters, RankWriters
  <2> QED
    BY <1>29, <2>1 DEF ReadRankKey, FencedRead, Labels, local
<1>30. ASSUME NEW n \in Procs, ReadSlotKey(n) PROVE LocalTypeOK'
  <2>1. slot_key[slot[n]] \in SlotValues
    BY <1>30 DEF ReadSlotKey, StoreTypeOK, SlotWhenJoined, SlotHolders, SlotWriters, RankWriters
  <2> QED
    BY <1>30, <2>1 DEF ReadSlotKey, FencedRead, Labels, local
<1>31. ASSUME NEW n \in Procs, DoneReadRank(n) PROVE LocalTypeOK'
  <2>1. rank_key[slot[n]].rank \in Int
    BY <1>31 DEF DoneReadRank, StoreTypeOK, SlotWhenJoined, SlotHolders, RankValues
  <2> QED
    BY <1>31, <2>1 DEF DoneReadRank, Labels, UNASSIGNED
<1>32. ASSUME NEW n \in Procs, WriteRankKey(n) PROVE LocalTypeOK'
  <2>1. AbsentRank \in RankValues
    BY DEF AbsentRank, RankValues, UNASSIGNED
  <2> QED
    BY <1>32, <2>1 DEF WriteRankKey, CasAfter, Labels
<1>33. ASSUME NEW n \in Procs, WriteSlotKey(n) PROVE LocalTypeOK'
  <2>1. AbsentRank \in RankValues
    BY DEF AbsentRank, RankValues, UNASSIGNED
  <2> QED
    BY <1>33, <2>1 DEF WriteSlotKey, CasAfter, Labels
<1>34. CASE UNCHANGED vars
  BY <1>34 DEF vars, local
<1> HIDE DEF TInv, TypeOK, LocalTypeOK
<1> QED
  BY <1>1, <1>2, <1>3, <1>4, <1>5, <1>6, <1>7, <1>8, <1>9,
     <1>10, <1>11, <1>12, <1>13, <1>14, <1>15, <1>16, <1>17, <1>18,
     <1>19, <1>20, <1>21, <1>22, <1>23, <1>24, <1>25, <1>26, <1>27,
     <1>28, <1>29, <1>30, <1>31, <1>32, <1>33, <1>34
     DEF Next, Joining, Monitoring, Events, Closing

(* Every step leaves values of their kind in the store host. *)
LEMMA HostTypeNext == TInv /\ [Next]_vars => HostTypeOK'
<1> SUFFICES ASSUME TInv, [Next]_vars PROVE HostTypeOK'
  OBVIOUS
<1> USE BoundsAssumption DEF TInv, TypeOK, HostTypeOK
<1>1. ASSUME NEW n \in Procs,
               \/ WaitReadRound(n) \/ WriteSlotKey(n)
        PROVE  HostTypeOK'
  BY <1>1 DEF WaitReadRound, WriteSlotKey, EnterCloseLoop, host
<1>2. ASSUME HostProbe PROVE HostTypeOK'
  <2>1. round[Host] \in Rounds
    BY DEF LocalTypeOK, Procs
  <2>2. join_count[round[Host]] \in 0 .. MaxSlots
    BY <2>1 DEF StoreTypeOK
  <2> QED
    BY <1>2, <2>2 DEF HostProbe, Slots
<1>3. ASSUME HostFetch PROVE HostTypeOK'
  <2>1. snapshot' \in [Slots -> Launchers \cup {NoNode}]
    BY <1>3 DEF HostFetch, StoreTypeOK, SlotValues
  <2> QED
    BY <1>3, <2>1 DEF HostFetch
<1>4. ASSUME HostDecide PROVE HostTypeOK'
  BY <1>4 DEF HostDecide, NoSnapshot
<1>5. ASSUME HostAssign PROVE HostTypeOK'
  BY <1>5, AssignmentTypes DEF HostAssign
<1>6. ASSUME HostFinish PROVE HostTypeOK'
  BY <1>6 DEF HostFinish, NoSnapshot
<1>7. ASSUME LastCallExpires PROVE HostTypeOK'
  BY <1>7 DEF LastCallExpires
<1>8. ASSUME UNCHANGED host PROVE HostTypeOK'
  BY <1>8 DEF host
<1>9. ASSUME NEW n \in Procs,
               \/ InitCheck(n) \/ InitSet(n) \/ WaitCheckShutdown(n) \/ CountUnhealthy(n)
               \/ MarkGroupUnhealthy(n) \/ Join(n) \/ ReadRankKey(n) \/ WriteRankKey(n)
               \/ ReadSlotKey(n) \/ DoneCheckShutdown(n) \/ DoneReadRound(n) \/ DoneReadRank(n)
               \/ OpenNextRound(n) \/ PeerOpenedRound(n) \/ SignalCheckNextRound(n) \/ FaultExit(n)
               \/ WorkersFailed(n) \/ SignalNoRestart(n) \/ LeaveJob(n) \/ ShutdownWorkload(n)
               \/ JoinTimeout(n) \/ Crash(n)
        PROVE  UNCHANGED host
  BY <1>9 DEF InitCheck, InitSet, WaitCheckShutdown, CountUnhealthy, MarkGroupUnhealthy, Join,
         ReadRankKey, WriteRankKey, ReadSlotKey, DoneCheckShutdown, DoneReadRound,
         DoneReadRank, OpenNextRound, PeerOpenedRound, SignalCheckNextRound, FaultExit,
         WorkersFailed, SignalNoRestart, LeaveJob, ShutdownWorkload, JoinTimeout, Crash, FencedRead, host
<1>10. ASSUME 
               \/ InitShutdownCheck \/ InitShutdownSet \/ HostCheck
        PROVE  UNCHANGED host
  BY <1>10 DEF InitShutdownCheck, InitShutdownSet, HostCheck, host
<1>11. CASE UNCHANGED vars
  BY <1>11, <1>8 DEF vars
<1> HIDE DEF TInv, TypeOK, HostTypeOK
<1> QED
  BY <1>1, <1>2, <1>3, <1>4, <1>5, <1>6, <1>7, <1>8, <1>9,
     <1>10, <1>11
     DEF Next, Joining, Monitoring, Events, Closing

(* Every step keeps the control process out of the joining steps, and a slot in
   the hands of those who have joined. *)
LEMMA ShapeNext == TInv /\ [Next]_vars => ControlNeverJoins' /\ SlotWhenJoined'
<1> DEFINE Shape == ControlNeverJoins /\ SlotWhenJoined
<1> SUFFICES ASSUME TInv, [Next]_vars PROVE Shape'
  OBVIOUS
<1> USE DEF TInv, TypeOK, LocalTypeOK, ControlNeverJoins, SlotWhenJoined, SlotHolders,
        SlotWriters, RankWriters, NoSlotYet, HostLabels, Goto, local
<1>1. ASSUME NEW n \in Procs, InitCheck(n) PROVE Shape'
  BY <1>1 DEF InitCheck, AfterRoundKey, Sync
<1>2. ASSUME NEW n \in Procs, InitSet(n) PROVE Shape'
  BY <1>2 DEF InitSet, AfterRoundKey, Sync
<1>3. ASSUME NEW n \in Procs, WaitCheckShutdown(n) PROVE Shape'
  BY <1>3 DEF WaitCheckShutdown
<1>4. ASSUME NEW n \in Procs, WaitReadRound(n) PROVE Shape'
  BY <1>4 DEF WaitReadRound, Sync, EnterCloseLoop
<1>5. ASSUME NEW n \in Procs, CountUnhealthy(n) PROVE Shape'
  BY <1>5 DEF CountUnhealthy
<1>6. ASSUME NEW n \in Procs, MarkGroupUnhealthy(n) PROVE Shape'
  BY <1>6 DEF MarkGroupUnhealthy
<1>7. ASSUME NEW n \in Procs, Join(n) PROVE Shape'
  BY <1>7 DEF Join, StoreTypeOK, Slots
<1>8. ASSUME NEW n \in Procs, ReadRankKey(n) PROVE Shape'
  BY <1>8 DEF ReadRankKey, FencedRead, MyRank
<1>9. ASSUME NEW n \in Procs, WriteRankKey(n) PROVE Shape'
  BY <1>9 DEF WriteRankKey, CasAfter, CasAccepted, MyRank, AbsentRank
<1>10. ASSUME NEW n \in Procs, ReadSlotKey(n) PROVE Shape'
  BY <1>10 DEF ReadSlotKey, FencedRead, MySlot
<1>11. ASSUME NEW n \in Procs, WriteSlotKey(n) PROVE Shape'
  BY <1>11 DEF WriteSlotKey, CasAfter, CasAccepted, MySlot, AbsentRank, Embedded
<1>12. ASSUME NEW n \in Procs, DoneCheckShutdown(n) PROVE Shape'
  BY <1>12 DEF DoneCheckShutdown
<1>13. ASSUME NEW n \in Procs, DoneReadRound(n) PROVE Shape'
  BY <1>13 DEF DoneReadRound
<1>14. ASSUME NEW n \in Procs, DoneReadRank(n) PROVE Shape'
  BY <1>14 DEF DoneReadRank, IsActive
<1>15. ASSUME NEW n \in Procs, OpenNextRound(n) PROVE Shape'
  BY <1>15 DEF OpenNextRound
<1>16. ASSUME NEW n \in Procs, PeerOpenedRound(n) PROVE Shape'
  BY <1>16 DEF PeerOpenedRound, LeaveWorld, NextRound
<1>17. ASSUME NEW n \in Procs, SignalCheckNextRound(n) PROVE Shape'
  BY <1>17 DEF SignalCheckNextRound, NextRound
<1>18. ASSUME NEW n \in Procs, FaultExit(n) PROVE Shape'
  BY <1>18 DEF FaultExit, ExitWith
<1>19. ASSUME NEW n \in Procs, WorkersFailed(n) PROVE Shape'
  BY <1>19 DEF WorkersFailed, LeaveWorld, NextRound
<1>20. ASSUME NEW n \in Procs, SignalNoRestart(n) PROVE Shape'
  BY <1>20 DEF SignalNoRestart, LeaveWorld, MayStop, Procs
<1>21. ASSUME NEW n \in Procs, LeaveJob(n) PROVE Shape'
  BY <1>21 DEF LeaveJob, LeaveWorld, ExitWith
<1>22. ASSUME NEW n \in Procs, ShutdownWorkload(n) PROVE Shape'
  BY <1>22 DEF ShutdownWorkload
<1>23. ASSUME NEW n \in Procs, JoinTimeout(n) PROVE Shape'
  BY <1>23 DEF JoinTimeout, ExitWith
<1>24. ASSUME NEW n \in Procs, Crash(n) PROVE Shape'
  BY <1>24 DEF Crash, LeaveWorld
<1>25. ASSUME InitShutdownCheck PROVE Shape'
  BY <1>25 DEF InitShutdownCheck, Sync
<1>26. ASSUME InitShutdownSet PROVE Shape'
  BY <1>26 DEF InitShutdownSet, Sync
<1>27. ASSUME HostCheck PROVE Shape'
  BY <1>27 DEF HostCheck
<1>28. ASSUME HostProbe PROVE Shape'
  BY <1>28 DEF HostProbe
<1>29. ASSUME HostFetch PROVE Shape'
  BY <1>29 DEF HostFetch
<1>30. ASSUME HostDecide PROVE Shape'
  BY <1>30 DEF HostDecide
<1>31. ASSUME HostAssign PROVE Shape'
  BY <1>31 DEF HostAssign
<1>32. ASSUME HostFinish PROVE Shape'
  BY <1>32 DEF HostFinish, Embedded, Procs
<1>33. ASSUME LastCallExpires PROVE Shape'
  BY <1>33 DEF LastCallExpires
<1>34. CASE UNCHANGED vars
  BY <1>34 DEF vars
<1> HIDE DEF TInv, Shape
<1> QED
  BY <1>1, <1>2, <1>3, <1>4, <1>5, <1>6, <1>7, <1>8, <1>9,
     <1>10, <1>11, <1>12, <1>13, <1>14, <1>15, <1>16, <1>17, <1>18,
     <1>19, <1>20, <1>21, <1>22, <1>23, <1>24, <1>25, <1>26, <1>27,
     <1>28, <1>29, <1>30, <1>31, <1>32, <1>33, <1>34
     DEF Next, Joining, Monitoring, Events, Closing

(* Every step keeps both. *)
LEMMA TInvNext == TInv /\ [Next]_vars => TInv'
BY StoreTypeNext, LocalTypeNext, HostTypeNext, ShapeNext DEF TInv, TypeOK

(* Every key and every variable holds a value of its kind, in every reachable
   state and for every value of the constants. *)
THEOREM Typing == Spec => []TypeOK
<1>1. Spec => []TInv
  BY TInvInit, TInvNext, PTL DEF Spec
<1>2. TInv => TypeOK
  BY DEF TInv
<1> QED
  BY <1>1, <1>2, PTL

-----------------------------------------------------------------------------
(* The slots *)

\* No slot, and no slot with a key of the round, is above the round's counter.
SlotsCounted == \A n \in Procs : slot[n] <= join_count[round[n]]
KeysCounted ==
    \A k \in Slots :
        /\ slot_key[k].round # -1 => k <= join_count[slot_key[k].round]
        /\ rank_key[k].round # -1 => k <= join_count[rank_key[k].round]

\* SlotExclusive over all processes: the control process holds no slot.
SlotsApart ==
    \A m, n \in Procs : m # n /\ round[m] = round[n] /\ slot[m] # 0 => slot[m] # slot[n]

\* Until a launcher has written a key of its slot, the key is of another round.
Unwritten ==
    \A n \in Procs :
        /\ pc[n] \in RankWriters => rank_key[slot[n]].round # round[n]
        /\ pc[n] \in SlotWriters => slot_key[slot[n]].round # round[n]

\* The value a fenced write has read is not of a newer round.
ExpectedNotNewer ==
    \A n \in Procs : pc[n] \in {"rankSet", "slotSet"} => expected[n].round <= round[n]

\* The host has a snapshot only while it decides, assigns and finishes, and every
\* slot in it belongs to a launcher that has finished writing its keys.
NoStaleSnapshot ==
    pc[Host] \notin {"decide", "assign", "finish", "fault", "gone"} => snapshot = NoSnapshot
SnapshotOfWriters ==
    \A k \in Slots : snapshot[k] # NoNode =>
        /\ k <= join_count[round[Host]]
        /\ \A n \in Procs : slot[n] = k /\ round[n] = round[Host] => pc[n] \notin SlotWriters

IInv == /\ SlotsCounted /\ KeysCounted /\ SlotsApart
        /\ Unwritten /\ ExpectedNotNewer
        /\ NoStaleSnapshot /\ SnapshotOfWriters
        /\ NoSameRoundConflict

\* A step of process n that writes no key of a slot, takes no slot and brings
\* nothing new into the snapshot.
Quiet(n) ==
    /\ UNCHANGED <<join_count, slot_key, rank_key>>
    /\ \A m \in Procs : m # n =>
          /\ pc'[m] = pc[m] /\ slot'[m] = slot[m]
          /\ round'[m] = round[m] /\ expected'[m] = expected[m]
    /\ pc'[n] \notin SlotWriters \cup {"conflict"}
    /\ slot'[n] = 0 \/ (slot'[n] = slot[n] /\ round'[n] = round[n])
    /\ \A k \in Slots : snapshot'[k] \in {snapshot[k], NoNode}
    /\ round'[Host] # round[Host] => snapshot' = NoSnapshot
    /\ pc'[Host] \notin {"decide", "assign", "finish", "fault", "gone"} => snapshot' = NoSnapshot

-----------------------------------------------------------------------------
(* A quiet step preserves the invariant: whatever it relates is unchanged, or
   the process has given up its slot. *)
LEMMA QuietPreserves ==
  ASSUME TInv, TInv', IInv, NEW n \in Procs, Quiet(n) PROVE IInv'
<1> USE DEF TInv, TypeOK, StoreTypeOK, LocalTypeOK, HostTypeOK, IInv, Quiet
<1> Host \in Procs
  BY DEF Procs
<1>1. SlotsCounted'
  <2>1. SUFFICES ASSUME NEW m \in Procs PROVE slot'[m] <= join_count'[round'[m]]
    BY DEF SlotsCounted
  <2>2. CASE m = n /\ slot'[n] = 0
    <3>1. join_count'[round'[n]] \in 0 .. MaxSlots
      OBVIOUS
    <3> QED
      BY <2>2, <3>1, BoundsAssumption
  <2>3. CASE m # n \/ slot'[n] # 0
    BY <2>3 DEF SlotsCounted
  <2> QED
    BY <2>2, <2>3
<1>2. KeysCounted'
  BY DEF KeysCounted
<1>3. SlotsApart'
  BY DEF SlotsApart
<1>4. Unwritten'
  BY DEF Unwritten, SlotWriters
<1>5. ExpectedNotNewer'
  BY DEF ExpectedNotNewer, SlotWriters, RankWriters
<1>6. NoStaleSnapshot'
  BY DEF NoStaleSnapshot
<1>7. SnapshotOfWriters'
  BY DEF SnapshotOfWriters, NoSnapshot, Slots
<1>8. NoSameRoundConflict'
  BY DEF NoSameRoundConflict
<1> QED
  BY <1>1, <1>2, <1>3, <1>4, <1>5, <1>6, <1>7, <1>8

(* The steps outside the joining protocol and the host's rank writes are quiet. *)
LEMMA QuietProcessSteps ==
  ASSUME TInv, IInv, NEW n \in Procs,
         \/ InitCheck(n) \/ InitSet(n) \/ WaitCheckShutdown(n) \/ WaitReadRound(n)
         \/ CountUnhealthy(n) \/ MarkGroupUnhealthy(n)
         \/ DoneCheckShutdown(n) \/ DoneReadRound(n) \/ DoneReadRank(n)
         \/ OpenNextRound(n) \/ PeerOpenedRound(n) \/ SignalCheckNextRound(n) \/ FaultExit(n)
         \/ WorkersFailed(n) \/ SignalNoRestart(n) \/ LeaveJob(n)
         \/ JoinTimeout(n) \/ Crash(n)
  PROVE  Quiet(n)
<1> USE DEF TInv, TypeOK, LocalTypeOK, HostTypeOK, IInv, NoStaleSnapshot, SlotWhenJoined, NoSlotYet,
        Quiet, Goto, SlotWriters, RankWriters, store, local, host
<1> Host \in Procs
  BY DEF Procs
<1>1. CASE InitCheck(n) \/ InitSet(n)
  BY <1>1 DEF InitCheck, InitSet, AfterRoundKey, Sync
<1>2. CASE WaitCheckShutdown(n) \/ WaitReadRound(n)
  BY <1>2 DEF WaitCheckShutdown, WaitReadRound, Sync, EnterCloseLoop
<1>3. CASE CountUnhealthy(n) \/ MarkGroupUnhealthy(n)
  BY <1>3 DEF CountUnhealthy, MarkGroupUnhealthy
<1>4. CASE DoneCheckShutdown(n) \/ DoneReadRound(n) \/ DoneReadRank(n)
  BY <1>4 DEF DoneCheckShutdown, DoneReadRound, DoneReadRank
<1>5. CASE WorkersFailed(n) \/ OpenNextRound(n) \/ PeerOpenedRound(n)
  BY <1>5 DEF WorkersFailed, OpenNextRound, PeerOpenedRound, LeaveWorld
<1>6. CASE SignalNoRestart(n) \/ SignalCheckNextRound(n)
  BY <1>6 DEF SignalNoRestart, SignalCheckNextRound, MayStop, LeaveWorld
<1>7. CASE LeaveJob(n) \/ JoinTimeout(n) \/ FaultExit(n)
  BY <1>7 DEF LeaveJob, JoinTimeout, FaultExit, ExitWith, LeaveWorld
<1>8. CASE Crash(n)
  BY <1>8, FaultsAssumption DEF Crash, LeaveWorld
<1> QED
  BY <1>1, <1>2, <1>3, <1>4, <1>5, <1>6, <1>7, <1>8

(* So are the host's steps other than its fetch and its rank writes. *)
LEMMA QuietHostSteps ==
  ASSUME TInv, IInv,
         \/ InitShutdownCheck \/ InitShutdownSet
         \/ HostCheck \/ HostProbe \/ HostDecide \/ HostFinish
  PROVE  Quiet(Host)
<1> USE DEF TInv, TypeOK, LocalTypeOK, HostTypeOK, IInv, NoStaleSnapshot, SlotWhenJoined, NoSlotYet,
        Quiet, Goto, SlotWriters, RankWriters, store, local, host
<1> Host \in Procs
  BY DEF Procs
<1>1. CASE InitShutdownCheck \/ InitShutdownSet
  BY <1>1 DEF InitShutdownCheck, InitShutdownSet, Sync
<1>2. CASE HostCheck \/ HostProbe
  BY <1>2 DEF HostCheck, HostProbe
<1>3. CASE HostDecide
  BY <1>3 DEF HostDecide, NoSnapshot
<1>4. CASE HostFinish
  BY <1>4 DEF HostFinish, NoSnapshot
<1> QED
  BY <1>1, <1>2, <1>3, <1>4

-----------------------------------------------------------------------------
(* store.add: the slot is new in its round, so neither key carries the round. *)
LEMMA JoinPreserves ==
  ASSUME TInv, IInv, NEW n \in Procs, Join(n) PROVE IInv'
<1> USE BoundsAssumption
    DEF TInv, TypeOK, StoreTypeOK, LocalTypeOK, HostTypeOK, IInv, Join, Goto, host
<1> DEFINE k == join_count[round[n]] + 1
<1>1. /\ round[n] \in Rounds /\ k \in Slots
      /\ join_count' = [join_count EXCEPT ![round[n]] = k]
      /\ slot' = [slot EXCEPT ![n] = k]
  BY DEF Slots
<1>2. /\ slot_key[k].round # round[n] /\ rank_key[k].round # round[n]
  <2>1. slot_key[k].round \in Rounds \cup {-1} /\ rank_key[k].round \in Rounds \cup {-1}
    BY <1>1 DEF SlotValues, RankValues
  <2>2. round[n] # -1 /\ ~(k <= join_count[round[n]])
    BY <1>1 DEF Rounds
  <2> QED
    BY <1>1, <2>1, <2>2 DEF KeysCounted
<1> HIDE DEF k
<1>3. \A r \in Rounds : join_count[r] \in Nat /\ join_count'[r] \in Nat /\ join_count[r] <= join_count'[r]
  BY <1>1 DEF k
<1>4. SlotsCounted'
  <2>1. SUFFICES ASSUME NEW m \in Procs PROVE slot'[m] <= join_count'[round[m]]
    BY DEF SlotsCounted
  <2>2. CASE m = n
    BY <1>1, <2>2 DEF Slots
  <2>3. CASE m # n
    <3>1. round[m] \in Rounds /\ slot[m] \in Int /\ slot'[m] = slot[m]
      BY <1>1, <2>3 DEF Slots
    <3>2. slot[m] <= join_count[round[m]]
      BY DEF SlotsCounted
    <3> QED
      BY <1>3, <3>1, <3>2
  <2> QED
    BY <2>2, <2>3
<1>5. KeysCounted'
  <2>1. SUFFICES ASSUME NEW j \in Slots
                 PROVE  /\ slot_key[j].round # -1 => j <= join_count'[slot_key[j].round]
                        /\ rank_key[j].round # -1 => j <= join_count'[rank_key[j].round]
    BY DEF KeysCounted
  <2>2. slot_key[j].round \in Rounds \cup {-1} /\ rank_key[j].round \in Rounds \cup {-1}
    BY DEF SlotValues, RankValues
  <2> QED
    BY <1>3, <2>2 DEF KeysCounted, Slots
<1>6. SlotsApart'
  <2>1. \A m \in Procs : round[m] = round[n] => slot[m] # k
    BY <1>1 DEF SlotsCounted, k, Slots
  <2> QED
    BY <1>1, <2>1 DEF SlotsApart
<1>7. Unwritten'
  BY <1>1, <1>2 DEF Unwritten
<1>8. ExpectedNotNewer'
  BY DEF ExpectedNotNewer
<1>9. NoStaleSnapshot'
  BY DEF NoStaleSnapshot
<1>10. SnapshotOfWriters'
  <2>1. round[Host] \in Rounds
    BY DEF Procs
  <2>2. \A j \in Slots : snapshot[j] # NoNode /\ round[n] = round[Host] => j # k
    BY <1>1, <2>1 DEF SnapshotOfWriters, k, Slots
  <2> QED
    BY <1>1, <1>3, <2>1, <2>2 DEF SnapshotOfWriters, Slots
<1>11. NoSameRoundConflict'
  BY DEF NoSameRoundConflict
<1> QED
  BY <1>4, <1>5, <1>6, <1>7, <1>8, <1>9, <1>10, <1>11

-----------------------------------------------------------------------------
(* The first half of a fenced write of the rank key: the launcher finds no value
   of its own round there. *)
LEMMA ReadRankPreserves ==
  ASSUME TInv, IInv, NEW n \in Procs, ReadRankKey(n) PROVE IInv'
<1> USE DEF TInv, TypeOK, StoreTypeOK, LocalTypeOK, HostTypeOK, IInv, Goto, SlotWriters, RankWriters,
        SlotHolders
<1>1. slot[n] \in Slots /\ rank_key[slot[n]].round # round[n]
  BY DEF ReadRankKey, Unwritten, SlotWhenJoined
<1>2. /\ UNCHANGED <<store, round, host>>
      /\ \/ /\ pc' = [pc EXCEPT ![n] = "s0"]
            /\ slot' = [slot EXCEPT ![n] = 0] /\ expected' = expected
         \/ /\ pc' = [pc EXCEPT ![n] = "rankSet"] /\ slot' = slot
            /\ expected' = [expected EXCEPT ![n] = rank_key[slot[n]]]
            /\ rank_key[slot[n]].round < round[n]
  BY <1>1 DEF ReadRankKey, FencedRead, MyRank
<1>3. CASE pc' = [pc EXCEPT ![n] = "s0"] /\ slot' = [slot EXCEPT ![n] = 0] /\ expected' = expected
  <2>1. Quiet(n)
    BY <1>2, <1>3 DEF Quiet, store, host, NoStaleSnapshot, Procs, ReadRankKey
  <2> QED
    BY <2>1, TInvNext, QuietPreserves DEF Next, Joining
<1>4. CASE /\ pc' = [pc EXCEPT ![n] = "rankSet"] /\ slot' = slot
           /\ expected' = [expected EXCEPT ![n] = rank_key[slot[n]]]
           /\ rank_key[slot[n]].round < round[n]
  <2> USE <1>2, <1>4 DEF ReadRankKey, store, host
  <2>1. SlotsCounted' /\ KeysCounted' /\ SlotsApart'
    BY DEF SlotsCounted, KeysCounted, SlotsApart
  <2>2. Unwritten'
    BY DEF Unwritten
  <2>3. ExpectedNotNewer'
    <3>1. rank_key[slot[n]].round \in Int /\ round[n] \in Int
      BY <1>1, BoundsAssumption DEF RankValues, Rounds
    <3> QED
      BY <3>1 DEF ExpectedNotNewer
  <2>4. NoStaleSnapshot' /\ SnapshotOfWriters'
    BY DEF NoStaleSnapshot, SnapshotOfWriters
  <2>5. NoSameRoundConflict'
    BY DEF NoSameRoundConflict
  <2> QED
    BY <2>1, <2>2, <2>3, <2>4, <2>5
<1> QED
  BY <1>2, <1>3, <1>4

(* The second half: only the launcher that holds the slot in this round can
   bring the round into the rank key. *)
LEMMA WriteRankPreserves ==
  ASSUME TInv, IInv, NEW n \in Procs, WriteRankKey(n) PROVE IInv'
<1> USE DEF TInv, TypeOK, StoreTypeOK, LocalTypeOK, HostTypeOK, IInv, Goto, SlotWriters, RankWriters,
        SlotHolders
<1>1. slot[n] \in Slots /\ slot[n] # 0 /\ round[n] \in Rounds /\ MyRank(n).round = round[n]
  BY DEF WriteRankKey, SlotWhenJoined, MyRank
<1>2. /\ UNCHANGED <<join_count, slot_key, round, snapshot>>
      /\ \/ /\ rank_key' = rank_key /\ slot' = [slot EXCEPT ![n] = 0]
            /\ pc' = [pc EXCEPT ![n] = "s0"]
         \/ /\ rank_key' = rank_key /\ slot' = slot
            /\ pc' = [pc EXCEPT ![n] = "fault"]
         \/ /\ rank_key' = [rank_key EXCEPT ![slot[n]] = MyRank(n)] /\ slot' = slot
            /\ pc' = [pc EXCEPT ![n] = "slotGet"]
      /\ expected' = [expected EXCEPT ![n] = AbsentRank]
      /\ pc[n] = "rankSet"
  BY DEF WriteRankKey, CasAfter, host
<1>3. ASSUME rank_key' = rank_key, slot'[n] \in {0, slot[n]}, pc'[n] \in {"s0", "fault"}
      PROVE  IInv'
  <2>1. Quiet(n)
    BY <1>2, <1>3 DEF Quiet, NoStaleSnapshot, Procs
  <2> QED
    BY <2>1, TInvNext, QuietPreserves DEF Next, Joining
<1>4. ASSUME rank_key' = [rank_key EXCEPT ![slot[n]] = MyRank(n)], slot' = slot,
             pc'[n] \notin {"s0", "fault"}
      PROVE  IInv'
  <2> USE <1>1, <1>2, <1>4
  <2>1. SlotsCounted' /\ SlotsApart'
    BY DEF SlotsCounted, SlotsApart
  <2>2. KeysCounted'
    BY DEF SlotsCounted, KeysCounted
  <2>3. Unwritten'
    BY DEF Unwritten, SlotsApart
  <2>4. ExpectedNotNewer'
    BY DEF ExpectedNotNewer
  <2>5. NoStaleSnapshot' /\ SnapshotOfWriters'
    <3>1. Host \in Procs
      BY DEF Procs
    <3>2. NoStaleSnapshot'
      BY <3>1 DEF NoStaleSnapshot
    <3>3. SnapshotOfWriters'
      BY <3>1 DEF SnapshotOfWriters
    <3> QED
      BY <3>2, <3>3
  <2>6. NoSameRoundConflict'
    BY DEF NoSameRoundConflict
  <2> QED
    BY <2>1, <2>2, <2>3, <2>4, <2>5, <2>6
<1> QED
  BY <1>2, <1>3, <1>4

(* The first half of a fenced write of the slot key: the launcher finds no value
   of its own round there. *)
LEMMA ReadSlotPreserves ==
  ASSUME TInv, IInv, NEW n \in Procs, ReadSlotKey(n) PROVE IInv'
<1> USE DEF TInv, TypeOK, StoreTypeOK, LocalTypeOK, HostTypeOK, IInv, Goto, SlotWriters, RankWriters,
        SlotHolders
<1>1. slot[n] \in Slots /\ slot_key[slot[n]].round # round[n]
  BY DEF ReadSlotKey, Unwritten, SlotWhenJoined
<1>2. /\ UNCHANGED <<store, round, host>>
      /\ \/ /\ pc' = [pc EXCEPT ![n] = "s0"]
            /\ slot' = [slot EXCEPT ![n] = 0] /\ expected' = expected
         \/ /\ pc' = [pc EXCEPT ![n] = "slotSet"] /\ slot' = slot
            /\ expected' = [expected EXCEPT ![n] = slot_key[slot[n]]]
            /\ slot_key[slot[n]].round < round[n]
  BY <1>1 DEF ReadSlotKey, FencedRead, MySlot
<1>3. CASE pc' = [pc EXCEPT ![n] = "s0"] /\ slot' = [slot EXCEPT ![n] = 0] /\ expected' = expected
  <2>1. Quiet(n)
    BY <1>2, <1>3 DEF Quiet, store, host, NoStaleSnapshot, Procs, ReadSlotKey
  <2> QED
    BY <2>1, TInvNext, QuietPreserves DEF Next, Joining
<1>4. CASE /\ pc' = [pc EXCEPT ![n] = "slotSet"] /\ slot' = slot
           /\ expected' = [expected EXCEPT ![n] = slot_key[slot[n]]]
           /\ slot_key[slot[n]].round < round[n]
  <2> USE <1>2, <1>4 DEF ReadSlotKey, store, host
  <2>1. SlotsCounted' /\ KeysCounted' /\ SlotsApart'
    BY DEF SlotsCounted, KeysCounted, SlotsApart
  <2>2. Unwritten'
    BY DEF Unwritten
  <2>3. ExpectedNotNewer'
    <3>1. slot_key[slot[n]].round \in Int /\ round[n] \in Int
      BY <1>1, BoundsAssumption DEF SlotValues, Rounds
    <3> QED
      BY <3>1 DEF ExpectedNotNewer
  <2>4. NoStaleSnapshot' /\ SnapshotOfWriters'
    BY DEF NoStaleSnapshot, SnapshotOfWriters
  <2>5. NoSameRoundConflict'
    BY DEF NoSameRoundConflict
  <2> QED
    BY <2>1, <2>2, <2>3, <2>4, <2>5
<1> QED
  BY <1>2, <1>3, <1>4

(* The second half: only the launcher that holds the slot in this round can
   bring the round into the slot key. *)
LEMMA WriteSlotPreserves ==
  ASSUME TInv, IInv, NEW n \in Procs, WriteSlotKey(n) PROVE IInv'
<1> USE DEF TInv, TypeOK, StoreTypeOK, LocalTypeOK, HostTypeOK, IInv, Goto, SlotWriters, RankWriters,
        SlotHolders
<1>1. slot[n] \in Slots /\ slot[n] # 0 /\ round[n] \in Rounds /\ MySlot(n).round = round[n]
  BY DEF WriteSlotKey, SlotWhenJoined, MySlot
<1>2. /\ UNCHANGED <<join_count, rank_key, round, snapshot>>
      /\ \/ /\ slot_key' = slot_key /\ slot' = [slot EXCEPT ![n] = 0]
            /\ pc' = [pc EXCEPT ![n] = "s0"]
         \/ /\ slot_key' = slot_key /\ slot' = slot
            /\ pc' = [pc EXCEPT ![n] = "fault"]
         \/ /\ slot_key' = [slot_key EXCEPT ![slot[n]] = MySlot(n)] /\ slot' = slot
            /\ pc' = [pc EXCEPT ![n] = IF n = Host THEN "close" ELSE "s3"]
      /\ expected' = [expected EXCEPT ![n] = AbsentRank]
      /\ pc[n] = "slotSet"
  BY DEF WriteSlotKey, CasAfter, host
<1>3. ASSUME slot_key' = slot_key, slot'[n] \in {0, slot[n]}, pc'[n] \in {"s0", "fault"}
      PROVE  IInv'
  <2>1. Quiet(n)
    BY <1>2, <1>3 DEF Quiet, NoStaleSnapshot, Procs
  <2> QED
    BY <2>1, TInvNext, QuietPreserves DEF Next, Joining
<1>4. ASSUME slot_key' = [slot_key EXCEPT ![slot[n]] = MySlot(n)], slot' = slot,
             pc'[n] \notin {"s0", "fault"}
      PROVE  IInv'
  <2> USE <1>1, <1>2, <1>4
  <2>1. SlotsCounted' /\ SlotsApart'
    BY DEF SlotsCounted, SlotsApart
  <2>2. KeysCounted'
    BY DEF SlotsCounted, KeysCounted
  <2>3. Unwritten'
    BY DEF Unwritten, SlotsApart
  <2>4. ExpectedNotNewer'
    BY DEF ExpectedNotNewer
  <2>5. NoStaleSnapshot' /\ SnapshotOfWriters'
    <3>1. Host \in Procs
      BY DEF Procs
    <3>2. NoStaleSnapshot'
      BY <3>1 DEF NoStaleSnapshot
    <3>3. SnapshotOfWriters'
      BY <3>1 DEF SnapshotOfWriters
    <3> QED
      BY <3>2, <3>3
  <2>6. NoSameRoundConflict'
    BY DEF NoSameRoundConflict
  <2> QED
    BY <2>1, <2>2, <2>3, <2>4, <2>5, <2>6
<1> QED
  BY <1>2, <1>3, <1>4

-----------------------------------------------------------------------------
(* The host takes into its snapshot only slots whose data is of its round, hence
   written: their owners have left the writing steps. *)
LEMMA HostFetchPreserves ==
  ASSUME TInv, IInv, HostFetch PROVE IInv'
<1> USE DEF TInv, TypeOK, StoreTypeOK, LocalTypeOK, HostTypeOK, IInv, HostFetch, Goto, store
<1>1. /\ Host \in Procs /\ round[Host] \in Rounds /\ round[Host] # -1
      /\ pc' = [pc EXCEPT ![Host] = pc'[Host]] /\ pc'[Host] \in {"close", "decide"}
      /\ \A k \in Slots : snapshot'[k] # NoNode =>
            snapshot[k] # NoNode \/ slot_key[k].round = round[Host]
  BY DEF Procs, Rounds
<1>2. SlotsCounted' /\ KeysCounted' /\ SlotsApart'
  BY DEF SlotsCounted, KeysCounted, SlotsApart
<1>3. Unwritten' /\ ExpectedNotNewer'
  BY <1>1 DEF Unwritten, ExpectedNotNewer, SlotWriters, RankWriters
<1>4. NoStaleSnapshot'
  BY <1>1 DEF NoStaleSnapshot
<1>5. SnapshotOfWriters'
  <2>1. SUFFICES ASSUME NEW k \in Slots, snapshot'[k] # NoNode
                 PROVE  /\ k <= join_count[round[Host]]
                        /\ \A n \in Procs : slot[n] = k /\ round[n] = round[Host] =>
                              pc'[n] \notin SlotWriters
    BY DEF SnapshotOfWriters
  <2>2. snapshot[k] = NoNode
    BY DEF NoStaleSnapshot, NoSnapshot
  <2>3. slot_key[k].round = round[Host]
    BY <1>1, <2>1, <2>2
  <2>4. \A n \in Procs : slot[n] = k /\ round[n] = round[Host] => pc[n] \notin SlotWriters
    BY <2>3 DEF Unwritten
  <2> QED
    BY <1>1, <2>3, <2>4 DEF KeysCounted, SlotWriters, RankWriters
<1>6. NoSameRoundConflict'
  BY <1>1 DEF NoSameRoundConflict
<1> QED
  BY <1>2, <1>3, <1>4, <1>5, <1>6

(* The host's multi_set is not fenced, yet it disturbs no launcher that is still
   writing: it writes slots of the snapshot only. *)
LEMMA HostAssignPreserves ==
  ASSUME TInv, IInv, HostAssign PROVE IInv'
<1> USE DEF TInv, TypeOK, StoreTypeOK, LocalTypeOK, HostTypeOK, IInv, Goto
<1>1. /\ Host \in Procs /\ round[Host] \in Rounds /\ round[Host] # -1
      /\ pc' = [pc EXCEPT ![Host] = pc'[Host]] /\ pc'[Host] \in {"fault", "finish"}
      /\ UNCHANGED <<join_count, slot_key, round, slot, expected, snapshot>>
  BY DEF HostAssign, Procs, Rounds
<1>2. \A k \in Slots :
         \/ rank_key'[k] = rank_key[k]
         \/ snapshot[k] # NoNode /\ rank_key'[k].round = round[Host]
  BY DEF HostAssign, RanksWritten
<1>3. SlotsCounted' /\ SlotsApart'
  BY <1>1 DEF SlotsCounted, SlotsApart
<1>4. KeysCounted'
  BY <1>1, <1>2 DEF KeysCounted, SnapshotOfWriters
<1>5. Unwritten'
  <2>1. SUFFICES ASSUME NEW n \in Procs, pc[n] \in RankWriters
                 PROVE  rank_key'[slot[n]].round # round[n]
    BY <1>1 DEF Unwritten, SlotWriters, RankWriters
  <2>2. slot[n] \in Slots
    BY <2>1 DEF SlotWhenJoined, SlotHolders, SlotWriters
  <2>3. CASE rank_key'[slot[n]] = rank_key[slot[n]]
    BY <2>1, <2>3 DEF Unwritten
  <2>4. CASE snapshot[slot[n]] # NoNode /\ rank_key'[slot[n]].round = round[Host]
    BY <2>1, <2>2, <2>4 DEF SnapshotOfWriters, SlotWriters
  <2> QED
    BY <1>2, <2>2, <2>3, <2>4
<1>6. ExpectedNotNewer' /\ NoStaleSnapshot'
  BY <1>1 DEF ExpectedNotNewer, NoStaleSnapshot
<1>7. SnapshotOfWriters'
  BY <1>1 DEF SnapshotOfWriters, SlotWriters, RankWriters
<1>8. NoSameRoundConflict'
  BY <1>1 DEF NoSameRoundConflict
<1> QED
  BY <1>3, <1>4, <1>5, <1>6, <1>7, <1>8

(* The last-call deadline, a workload shutdown asked for before the join, and a
   stuttering step touch nothing the invariant speaks of. *)
LEMMA UnrelatedPreserves ==
  ASSUME IInv, LastCallExpires \/ (\E n \in Procs : ShutdownWorkload(n)) \/ UNCHANGED vars
  PROVE  IInv'
<1>1. UNCHANGED <<join_count, slot_key, rank_key, local, snapshot>>
  BY DEF LastCallExpires, ShutdownWorkload, vars, store, host
<1>2. SlotsCounted' /\ KeysCounted' /\ SlotsApart'
  BY <1>1 DEF IInv, local, SlotsCounted, KeysCounted, SlotsApart
<1>3. Unwritten' /\ ExpectedNotNewer' /\ NoStaleSnapshot'
  BY <1>1 DEF IInv, local, Unwritten, ExpectedNotNewer, NoStaleSnapshot
<1>4. SnapshotOfWriters' /\ NoSameRoundConflict'
  BY <1>1 DEF IInv, local, SnapshotOfWriters, NoSameRoundConflict
<1> QED
  BY <1>2, <1>3, <1>4 DEF IInv

-----------------------------------------------------------------------------
(* The invariant holds before any launcher has run. *)
LEMMA IInvInit == Init => IInv
<1> SUFFICES ASSUME Init PROVE IInv
  OBVIOUS
<1> USE DEF Init
<1>1. SlotsCounted
  BY BoundsAssumption DEF SlotsCounted, Rounds
<1>2. KeysCounted
  BY DEF KeysCounted, AbsentSlot, AbsentRank
<1>3. SlotsApart /\ Unwritten /\ ExpectedNotNewer
  BY DEF SlotsApart, Unwritten, ExpectedNotNewer, SlotWriters, RankWriters
<1>4. NoStaleSnapshot /\ SnapshotOfWriters /\ NoSameRoundConflict
  BY DEF NoStaleSnapshot, SnapshotOfWriters, NoSnapshot, NoSameRoundConflict
<1> QED
  BY <1>1, <1>2, <1>3, <1>4 DEF IInv

(* Every step of every process preserves it. *)
LEMMA IInvNext == TInv /\ IInv /\ [Next]_vars => IInv'
<1> SUFFICES ASSUME TInv, IInv, [Next]_vars PROVE IInv'
  OBVIOUS
<1>1. TInv'
  BY TInvNext
<1>2. CASE UNCHANGED vars \/ LastCallExpires
  BY <1>2, UnrelatedPreserves
<1>3. CASE Closing
  <2>1. CASE HostFetch
    BY <2>1, HostFetchPreserves
  <2>2. CASE HostAssign
    BY <2>2, HostAssignPreserves
  <2>3. CASE InitShutdownCheck \/ InitShutdownSet \/ HostCheck \/ HostProbe
             \/ HostDecide \/ HostFinish
    <3>1. Host \in Procs
      BY DEF Procs
    <3>2. Quiet(Host)
      BY <2>3, QuietHostSteps
    <3> QED
      BY <1>1, <3>1, <3>2, QuietPreserves
  <2> QED
    BY <1>3, <2>1, <2>2, <2>3 DEF Closing
<1>4. ASSUME NEW n \in Procs, Joining(n) \/ Monitoring(n) \/ Events(n) PROVE IInv'
  <2>1. CASE Join(n)
    BY <2>1, JoinPreserves
  <2>2. CASE ReadRankKey(n)
    BY <2>2, ReadRankPreserves
  <2>3. CASE WriteRankKey(n)
    BY <2>3, WriteRankPreserves
  <2>4. CASE ReadSlotKey(n)
    BY <2>4, ReadSlotPreserves
  <2>5. CASE WriteSlotKey(n)
    BY <2>5, WriteSlotPreserves
  <2>6. CASE ShutdownWorkload(n)
    BY <2>6, UnrelatedPreserves
  <2>7. CASE \/ InitCheck(n) \/ InitSet(n) \/ WaitCheckShutdown(n) \/ WaitReadRound(n)
             \/ CountUnhealthy(n) \/ MarkGroupUnhealthy(n)
             \/ DoneCheckShutdown(n) \/ DoneReadRound(n) \/ DoneReadRank(n)
             \/ OpenNextRound(n) \/ PeerOpenedRound(n) \/ SignalCheckNextRound(n) \/ FaultExit(n)
             \/ WorkersFailed(n) \/ SignalNoRestart(n) \/ LeaveJob(n)
             \/ JoinTimeout(n) \/ Crash(n)
    <3>1. Quiet(n)
      BY <2>7, QuietProcessSteps
    <3> QED
      BY <1>1, <3>1, QuietPreserves
  <2> QED
    BY <1>4, <2>1, <2>2, <2>3, <2>4, <2>5, <2>6, <2>7 DEF Joining, Monitoring, Events
<1> QED
  BY <1>2, <1>3, <1>4 DEF Next

(* The invariant, with the types it rests on, holds in every reachable state. *)
LEMMA Invariance == Spec => [](TInv /\ IInv)
<1>1. Init => TInv /\ IInv
  BY TInvInit, IInvInit
<1>2. TInv /\ IInv /\ [Next]_vars => (TInv /\ IInv)'
  BY TInvNext, IInvNext
<1> QED
  BY <1>1, <1>2, PTL DEF Spec

-----------------------------------------------------------------------------
(* store.add hands out slots: two launchers never hold one slot in one round,
   however many launchers crash, time out or find a round reopened. *)
THEOREM ExclusiveSlots == Spec => []SlotExclusive
<1>1. IInv => SlotExclusive
  BY DEF IInv, SlotsApart, SlotExclusive, Procs
<1> QED
  BY <1>1, Invariance, PTL

(* "If an existing value has the same round and a different value,
   _round_fenced_compare_set raises": it never does. *)
THEOREM NoConflict == Spec => []NoSameRoundConflict
<1>1. IInv => NoSameRoundConflict
  BY DEF IInv
<1> QED
  BY <1>1, Invariance, PTL

(* The fence that the compare_set is there for: a slot's data is never replaced
   by data of an older round, although a launcher may sleep for any number of
   rounds between reading the key and writing it. *)
THEOREM SlotFence ==
  Spec => [][\A k \in Slots : slot_key'[k].round >= slot_key[k].round]_vars
<1> DEFINE Fence == \A k \in Slots : slot_key'[k].round >= slot_key[k].round
<1>1. TInv /\ IInv /\ [Next]_vars => [Fence]_vars
  <2> SUFFICES ASSUME TInv, IInv, [Next]_vars PROVE Fence
    OBVIOUS
  <2>1. SUFFICES ASSUME NEW k \in Slots PROVE slot_key'[k].round >= slot_key[k].round
    BY DEF Fence
  <2>2. slot_key[k].round \in Int
    BY DEF TInv, TypeOK, StoreTypeOK, SlotValues, Rounds
  <2>3. CASE \E n \in Procs : WriteSlotKey(n)
    <3>1. PICK n \in Procs : WriteSlotKey(n)
      BY <2>3
    <3>2. expected[n].round <= round[n] /\ MySlot(n).round = round[n] /\ pc[n] = "slotSet"
      BY <3>1 DEF WriteSlotKey, IInv, ExpectedNotNewer, MySlot
    <3>3. \/ slot_key'[k] = slot_key[k]
          \/ slot_key'[k] = MySlot(n) /\ (slot_key[k] = expected[n] \/ slot_key[k] = MySlot(n))
      BY <3>1 DEF WriteSlotKey, CasAccepted, TInv, TypeOK, StoreTypeOK
    <3>4. round[n] \in Int
      BY DEF TInv, TypeOK, LocalTypeOK, Rounds
    <3> QED
      BY <2>2, <3>2, <3>3, <3>4
  <2>4. CASE ~\E n \in Procs : WriteSlotKey(n)
    <3>1. slot_key' = slot_key
      <4>1. CASE UNCHANGED vars \/ LastCallExpires
        BY <4>1 DEF vars, store, LastCallExpires
      <4>2. CASE Closing
        BY <4>2 DEF Closing, InitShutdownCheck, InitShutdownSet, HostCheck, HostProbe,
                    HostFetch, HostDecide, HostAssign, HostFinish, store
      <4>3. ASSUME NEW n \in Procs, Joining(n) PROVE slot_key' = slot_key
        BY <2>4, <4>3
           DEF Joining, InitCheck, InitSet, WaitCheckShutdown, WaitReadRound, CountUnhealthy,
               MarkGroupUnhealthy, Join, ReadRankKey, WriteRankKey, ReadSlotKey, FencedRead,
               DoneCheckShutdown, DoneReadRound, DoneReadRank, store
      <4>4. ASSUME NEW n \in Procs, Monitoring(n) \/ Events(n) PROVE slot_key' = slot_key
        BY <4>4
           DEF Monitoring, OpenNextRound, PeerOpenedRound, SignalCheckNextRound, FaultExit,
               Events, WorkersFailed, SignalNoRestart, LeaveJob, ShutdownWorkload,
               JoinTimeout, Crash, store
      <4> QED
        BY <4>1, <4>2, <4>3, <4>4 DEF Next
    <3> QED
      BY <2>2, <3>1
  <2> QED
    BY <2>3, <2>4
<1> QED
  BY <1>1, Invariance, PTL DEF Spec

-----------------------------------------------------------------------------
(* Nobody is on the way to create a shutdown key that is there already. *)
KeyCreated == shutdown # "absent" /\ pc[Host] # "keySet"

(* On a store whose shutdown key exists, every write of the key keeps it in
   existence, and the host never decides to create it. *)
LEMMA KeyCreatedNext == TInv /\ KeyCreated /\ [Next]_vars => KeyCreated'
<1> SUFFICES ASSUME TInv, KeyCreated, [Next]_vars PROVE KeyCreated'
  OBVIOUS
<1> USE DEF TInv, TypeOK, StoreTypeOK, LocalTypeOK, KeyCreated, Goto, IsShutdown, ShutdownWith,
            Reasons, store, local
<1>1. Host \in Procs
  BY DEF Procs
<1>2. CASE UNCHANGED vars \/ LastCallExpires
  BY <1>2 DEF vars, LastCallExpires
<1>3. CASE Closing
  BY <1>1, <1>3 DEF Closing, InitShutdownCheck, InitShutdownSet, HostCheck, HostProbe,
                    HostFetch, HostDecide, HostAssign, HostFinish
<1>4. ASSUME NEW n \in Procs, Joining(n) PROVE KeyCreated'
  <2>1. shutdown' = shutdown
    BY <1>4 DEF Joining, InitCheck, InitSet, WaitCheckShutdown, WaitReadRound, CountUnhealthy,
            MarkGroupUnhealthy, Join, ReadRankKey, WriteRankKey, ReadSlotKey, WriteSlotKey,
            FencedRead, DoneCheckShutdown, DoneReadRound, DoneReadRank
  <2>2. \E label \in Labels \ {"keySet"} : pc' = [pc EXCEPT ![n] = label]
    <3> USE DEF Labels
    <3>1. CASE InitCheck(n) \/ InitSet(n)
      BY <3>1 DEF InitCheck, InitSet, AfterRoundKey
    <3>2. CASE WaitCheckShutdown(n) \/ WaitReadRound(n)
      BY <3>2 DEF WaitCheckShutdown, WaitReadRound, EnterCloseLoop
    <3>3. CASE CountUnhealthy(n) \/ MarkGroupUnhealthy(n) \/ Join(n)
      BY <3>3 DEF CountUnhealthy, MarkGroupUnhealthy, Join
    <3>4. CASE ReadRankKey(n) \/ ReadSlotKey(n)
      BY <3>4 DEF ReadRankKey, ReadSlotKey, FencedRead
    <3>5. CASE WriteRankKey(n) \/ WriteSlotKey(n)
      BY <3>5 DEF WriteRankKey, WriteSlotKey, CasAfter
    <3>6. CASE DoneCheckShutdown(n) \/ DoneReadRound(n) \/ DoneReadRank(n)
      BY <3>6 DEF DoneCheckShutdown, DoneReadRound, DoneReadRank
    <3> QED
      BY <1>4, <3>1, <3>2, <3>3, <3>4, <3>5, <3>6 DEF Joining
  <2> QED
    BY <1>1, <2>1, <2>2
<1>5. ASSUME NEW n \in Procs, Monitoring(n) \/ Events(n) PROVE KeyCreated'
  BY <1>1, <1>5
     DEF Monitoring, OpenNextRound, PeerOpenedRound, SignalCheckNextRound, FaultExit, ExitWith,
         Events, WorkersFailed, SignalNoRestart, LeaveJob, ShutdownWorkload, JoinTimeout, Crash
<1> QED
  BY <1>2, <1>3, <1>4, <1>5 DEF Next

(* A step that finds the key in existence replaces no reason in it. *)
LEMMA ReasonNext == KeyCreated /\ [Next]_vars => [IsShutdown => shutdown' = shutdown]_vars
<1> SUFFICES ASSUME KeyCreated, [Next]_vars, IsShutdown PROVE shutdown' = shutdown
  OBVIOUS
<1> USE DEF KeyCreated, ShutdownWith, store
<1>1. CASE UNCHANGED vars \/ LastCallExpires
  BY <1>1 DEF vars, LastCallExpires
<1>2. CASE Closing
  BY <1>2 DEF Closing, InitShutdownCheck, InitShutdownSet, HostCheck, HostProbe,
              HostFetch, HostDecide, HostAssign, HostFinish
<1>3. ASSUME NEW n \in Procs, Joining(n) PROVE shutdown' = shutdown
  BY <1>3 DEF Joining, InitCheck, InitSet, WaitCheckShutdown, WaitReadRound, CountUnhealthy,
          MarkGroupUnhealthy, Join, ReadRankKey, WriteRankKey, ReadSlotKey, WriteSlotKey,
          FencedRead, DoneCheckShutdown, DoneReadRound, DoneReadRank
<1>4. ASSUME NEW n \in Procs, Monitoring(n) \/ Events(n) PROVE shutdown' = shutdown
  BY <1>4
     DEF Monitoring, OpenNextRound, PeerOpenedRound, SignalCheckNextRound, FaultExit, ExitWith,
         Events, WorkersFailed, SignalNoRestart, LeaveJob, ShutdownWorkload, JoinTimeout, Crash
<1> QED
  BY <1>1, <1>2, <1>3, <1>4 DEF Next

(* set_shutdown is a compare_set from the open value, but the constructor of the
   store host creates that value with a check and a plain set.  On a store whose
   shutdown key exists before the launchers start, the first recorded reason
   stays, and every node that ends later maps it to the same exit code. *)
THEOREM FirstReason == ~ColdStart /\ Spec => FirstReasonStays
<1>1. ~ColdStart /\ Init => KeyCreated
  BY DEF Init, KeyCreated, Procs
<1>2. TInv /\ KeyCreated /\ [Next]_vars => KeyCreated'
  BY KeyCreatedNext
<1>3. KeyCreated /\ [Next]_vars => [IsShutdown => shutdown' = shutdown]_vars
  BY ReasonNext
<1>4. Spec => []TInv
  BY Invariance, PTL
<1> QED
  BY <1>1, <1>2, <1>3, <1>4, PTL DEF Spec, FirstReasonStays

-----------------------------------------------------------------------------
(* Rounds that stay closed *)

\* The processes that may open a next round.
Openers == Failing \cup Stopping
Opening == {"open", "stopOpen"}

\* From its look at the open round until it closes it, the host is busy with it.
HostBusy == SlotWriters \cup {"add"} \cup HostLabels

(* The steps that open a round, close one, or take a process to another one.  *)
RoundStep ==
    \/ UNCHANGED <<round_done, round>>
    \/ \E n \in Procs : /\ pc[n] \notin HostBusy /\ pc[n] # "initSet" /\ Sync(n)
                        /\ round_done' = round_done
    \/ \E n \in Procs : /\ pc[n] = "initSet"
                        /\ round_done' = [round_done EXCEPT ![0] = "open"]
                        /\ Sync(n) \/ round' = round
    \/ \E n \in Procs : /\ pc[n] \in Opening /\ pc'[n] \notin Opening
                        /\ round_done' = [round_done EXCEPT ![round[n] + 1] = "open"]
                        /\ round' = round
    \/ /\ pc[Host] = "finish" /\ pc'[Host] \notin HostBusy /\ round' = round
       /\ round_done' = [round_done EXCEPT ![round[Host]] = "closed"]

(* Every step is one of these. *)
LEMMA RoundSteps == TInv /\ [Next]_vars => RoundStep
<1> SUFFICES ASSUME TInv, [Next]_vars PROVE RoundStep
  OBVIOUS
<1> USE DEF TInv, TypeOK, StoreTypeOK, LocalTypeOK, store, local, Goto, HostBusy, SlotWriters,
        RankWriters, HostLabels
<1>1. Host \in Procs
  BY DEF Procs
<1>2. CASE UNCHANGED vars \/ LastCallExpires
  BY <1>2 DEF vars, LastCallExpires, RoundStep
<1>3. CASE Closing
  <2>1. CASE HostFinish
    BY <1>1, <2>1 DEF HostFinish, RoundStep
  <2>2. CASE InitShutdownCheck \/ InitShutdownSet
    BY <1>1, <2>2 DEF InitShutdownCheck, InitShutdownSet, RoundStep
  <2> QED
    BY <1>3, <2>1, <2>2 DEF Closing, HostCheck, HostProbe, HostFetch, HostDecide, HostAssign,
       RoundStep
<1>4. ASSUME NEW n \in Procs, Joining(n) PROVE RoundStep
  <2>1. CASE InitCheck(n)
    BY <2>1 DEF InitCheck, AfterRoundKey, RoundStep
  <2>2. CASE InitSet(n)
    BY <2>2 DEF InitSet, AfterRoundKey, RoundStep
  <2>3. CASE WaitReadRound(n)
    BY <2>3 DEF WaitReadRound, EnterCloseLoop, RoundStep
  <2> QED
    BY <1>4, <2>1, <2>2, <2>3
       DEF Joining, WaitCheckShutdown, CountUnhealthy, MarkGroupUnhealthy, Join, ReadRankKey,
           WriteRankKey, ReadSlotKey, WriteSlotKey, FencedRead, CasAfter, DoneCheckShutdown,
           DoneReadRound, DoneReadRank, RoundStep
<1>5. ASSUME NEW n \in Procs, Monitoring(n) \/ Events(n) PROVE RoundStep
  <2>1. CASE OpenNextRound(n)
    BY <2>1 DEF OpenNextRound, RoundStep, Opening
  <2> QED
    BY <1>5, <2>1
       DEF Monitoring, PeerOpenedRound, SignalCheckNextRound, FaultExit, Events, WorkersFailed,
           SignalNoRestart, LeaveJob, ShutdownWorkload, JoinTimeout, Crash, RoundStep
<1> QED
  BY <1>2, <1>3, <1>4, <1>5 DEF Next

(* How a process comes to a place: by its own step, and a place of the host's *)
(* close loop only from the look at an open round on.                         *)
PlaceStep ==
    /\ pc'[Host] \in HostBusy =>
          \/ pc[Host] \in HostBusy /\ round'[Host] = round[Host]
          \/ /\ pc[Host] = "s0read" /\ round_done[round[Host]] = "open"
             /\ round'[Host] = round[Host] /\ round_done' = round_done
    /\ pc[Host] = "finish" =>
          pc'[Host] = "finish" \/ round_done' = [round_done EXCEPT ![round[Host]] = "closed"]
    /\ \A n \in Procs :
          /\ pc'[n] \in Opening =>
                \/ pc[n] \in Opening /\ pc'[n] = pc[n] /\ round'[n] = round[n]
                \/ /\ n \in Failing \/ pc[n] = "stop"
                   /\ round_done[round[n] + 1] = "absent"
                   /\ UNCHANGED <<round_done, round>>
          /\ pc'[n] = "stop" => pc[n] = "stop" \/ n \in Stopping
          /\ pc'[n] = "initSet" => pc[n] = "initSet" \/ round_done[0] = "absent"

(* Every step comes to its places in this way. *)
LEMMA PlaceSteps == TInv /\ [Next]_vars => PlaceStep
<1> SUFFICES ASSUME TInv, [Next]_vars PROVE PlaceStep
  OBVIOUS
<1> USE DEF TInv, TypeOK, StoreTypeOK, LocalTypeOK, store, local, Goto, HostBusy, SlotWriters,
        RankWriters, HostLabels, Opening, PlaceStep
<1>1. Host \in Procs
  BY DEF Procs
<1>2. CASE UNCHANGED vars \/ LastCallExpires
  BY <1>2 DEF vars, LastCallExpires
<1>3. CASE Closing
  <2>1. CASE HostFinish
    BY <1>1, <2>1 DEF HostFinish
  <2>2. CASE InitShutdownCheck \/ InitShutdownSet
    BY <1>1, <2>2 DEF InitShutdownCheck, InitShutdownSet, Sync
  <2>3. CASE HostCheck \/ HostProbe \/ HostFetch
    BY <1>1, <2>3 DEF HostCheck, HostProbe, HostFetch
  <2>4. CASE HostDecide \/ HostAssign
    BY <1>1, <2>4 DEF HostDecide, HostAssign
  <2> QED
    BY <1>3, <2>1, <2>2, <2>3, <2>4 DEF Closing
<1>4. ASSUME NEW n \in Procs, Joining(n) PROVE PlaceStep
  <2>1. CASE InitCheck(n) \/ InitSet(n)
    BY <1>1, <2>1 DEF InitCheck, InitSet, AfterRoundKey, Sync
  <2>2. CASE WaitCheckShutdown(n) \/ WaitReadRound(n)
    BY <1>1, <2>2 DEF WaitCheckShutdown, WaitReadRound, EnterCloseLoop, Sync
  <2>3. CASE CountUnhealthy(n) \/ MarkGroupUnhealthy(n) \/ Join(n)
    BY <1>1, <2>3 DEF CountUnhealthy, MarkGroupUnhealthy, Join
  <2>4. CASE ReadRankKey(n) \/ ReadSlotKey(n)
    BY <1>1, <2>4 DEF ReadRankKey, ReadSlotKey, FencedRead
  <2>5. CASE WriteRankKey(n) \/ WriteSlotKey(n)
    BY <1>1, <2>5 DEF WriteRankKey, WriteSlotKey, CasAfter
  <2>6. CASE DoneCheckShutdown(n) \/ DoneReadRound(n) \/ DoneReadRank(n)
    BY <1>1, <2>6 DEF DoneCheckShutdown, DoneReadRound, DoneReadRank
  <2> QED
    BY <1>4, <2>1, <2>2, <2>3, <2>4, <2>5, <2>6 DEF Joining
<1>5. ASSUME NEW n \in Procs, Monitoring(n) \/ Events(n) PROVE PlaceStep
  <2>1. CASE OpenNextRound(n) \/ PeerOpenedRound(n) \/ WorkersFailed(n)
    BY <1>1, <2>1 DEF OpenNextRound, PeerOpenedRound, WorkersFailed, NextRound, LeaveWorld
  <2>2. CASE SignalNoRestart(n) \/ SignalCheckNextRound(n)
    BY <1>1, <2>2 DEF SignalNoRestart, SignalCheckNextRound, MayStop, NextRound, LeaveWorld
  <2>3. CASE LeaveJob(n) \/ JoinTimeout(n) \/ FaultExit(n) \/ ShutdownWorkload(n)
    BY <1>1, <2>3 DEF LeaveJob, JoinTimeout, FaultExit, ExitWith, LeaveWorld, ShutdownWorkload
  <2>4. CASE Crash(n)
    BY <1>1, <2>4, FaultsAssumption DEF Crash, LeaveWorld
  <2> QED
    BY <1>5, <2>1, <2>2, <2>3, <2>4 DEF Monitoring, Events
<1> QED
  BY <1>2, <1>3, <1>4, <1>5 DEF Next

-----------------------------------------------------------------------------
(* One opener *)

\* A next round that somebody is about to open is still absent; the round that the
\* host is busy with is not, nor is round 0, so that nobody is about to create it.
OpenerInv ==
    /\ \A n \in Procs :
          /\ pc[n] \in Opening => n \in Openers /\ round_done[round[n] + 1] = "absent"
          /\ pc[n] = "stop" => n \in Openers
          /\ pc[n] # "initSet"
    /\ round_done[0] # "absent"
    /\ pc[Host] \in HostBusy => round_done[round[Host]] # "absent"

\* At most one process fails, or stops the job; others may be killed or end.
OneOpener == \A m, n \in Openers : m = n

(* Only the one opener changes the key it has seen absent. *)
LEMMA OpenerInvNext == OneOpener /\ TInv /\ OpenerInv /\ [Next]_vars => OpenerInv'
<1> SUFFICES ASSUME OneOpener, TInv, OpenerInv, [Next]_vars PROVE OpenerInv'
  OBVIOUS
<1> USE DEF OpenerInv
<1>1. Host \in Procs /\ RoundStep /\ PlaceStep
  BY RoundSteps, PlaceSteps DEF Procs
<1>2. round_done \in [Rounds -> {"absent", "open", "closed"}] /\ round \in [Procs -> Rounds]
  BY DEF TInv, TypeOK, StoreTypeOK, LocalTypeOK
<1>3. \A r \in Rounds : round_done[r] # "absent" => round_done'[r] # "absent"
  BY <1>1, <1>2 DEF RoundStep
<1>4. 0 \in Rounds /\ Rounds \subseteq Nat
  BY BoundsAssumption DEF Rounds
<1>5. round_done'[0] # "absent" /\ \A n \in Procs : pc'[n] # "initSet"
  BY <1>1, <1>3, <1>4 DEF PlaceStep
<1>6. pc'[Host] \in HostBusy => round_done'[round'[Host]] # "absent"
  BY <1>1, <1>2, <1>3 DEF PlaceStep
<1>7. ASSUME NEW n \in Procs PROVE pc'[n] = "stop" => n \in Openers
  BY <1>1 DEF PlaceStep, Openers
<1>8. ASSUME NEW n \in Procs, pc'[n] \in Opening
      PROVE  n \in Openers /\ round_done'[round'[n] + 1] = "absent"
  <2>1. CASE n \in Openers /\ round_done[round[n] + 1] = "absent" /\ UNCHANGED <<round_done, round>>
    BY <2>1
  <2>2. CASE pc[n] \in Opening /\ pc'[n] = pc[n] /\ round'[n] = round[n]
    <3>1. n \in Openers /\ round_done[round[n] + 1] = "absent" /\ round[n] \in Rounds
      BY <1>2, <2>2
    <3>2. ASSUME NEW m \in Procs, pc[m] \in Opening, pc'[m] \notin Opening PROVE FALSE
      BY <3>1, <3>2, <1>8 DEF OneOpener
    <3>3. round_done'[round[n] + 1] = round_done[round[n] + 1]
      <4>1. CASE pc[Host] = "finish" /\ round_done' = [round_done EXCEPT ![round[Host]] = "closed"]
        <5>1. round[n] + 1 # round[Host]
          BY <3>1, <4>1 DEF HostBusy, HostLabels
        <5> QED
          BY <4>1, <5>1, <1>2
      <4>2. CASE round_done' = round_done
        BY <4>2
      <4> QED
        BY <4>1, <4>2, <3>2, <1>1 DEF RoundStep
    <3> QED
      BY <2>2, <3>1, <3>3
  <2>3. pc[n] = "stop" => n \in Openers
    OBVIOUS
  <2> QED
    BY <2>1, <2>2, <2>3, <1>1, <1>8 DEF PlaceStep, Openers
<1> QED
  BY <1>5, <1>6, <1>7, <1>8

(* open_rendezvous checks the key of the next round and then sets it: with one
   opener nobody else has made it, and closed it, in between. *)
THEOREM OneOpenerReopensNothing ==
  ~ColdStart /\ OneOpener => (Spec => ClosedStaysClosed)
<1> SUFFICES ASSUME ~ColdStart, OneOpener PROVE Spec => ClosedStaysClosed
  OBVIOUS
<1>1. Init => OpenerInv
  <2>1. 0 \in Rounds /\ Host \in Procs
    BY BoundsAssumption DEF Rounds, Procs
  <2> QED
    BY <2>1 DEF Init, OpenerInv, Opening, HostBusy, SlotWriters, RankWriters, HostLabels
<1>2. TInv /\ OpenerInv /\ [Next]_vars => OpenerInv'
  BY OpenerInvNext
<1>3. TInv /\ OpenerInv /\ [Next]_vars =>
        [\A r \in Rounds : round_done[r] = "closed" => round_done'[r] = "closed"]_vars
  <2> SUFFICES ASSUME TInv, OpenerInv, [Next]_vars, NEW r \in Rounds, round_done[r] = "closed"
               PROVE  round_done'[r] = "closed"
    OBVIOUS
  <2>1. RoundStep
    BY RoundSteps
  <2> QED
    BY <2>1 DEF RoundStep, OpenerInv, TInv, TypeOK, StoreTypeOK
<1>4. Spec => []TInv
  BY Invariance, PTL
<1> QED
  BY <1>1, <1>2, <1>3, <1>4, PTL DEF Spec, ClosedStaysClosed

-----------------------------------------------------------------------------
(* Nobody is ahead of the host *)

RoundsStay == \A r \in Rounds : round_done[r] = "closed" => round_done'[r] = "closed"

\* The round up to which processes may be: the host's, or the next one once the
\* host has closed its own.
Reach == round[Host] + (IF round_done[round[Host]] = "closed" THEN 1 ELSE 0)

\* The host closes rounds, so none beyond its own is closed, and no process, and
\* with it no key, is of a round that the host has not made possible.
HostLeads ==
    /\ \A r \in Rounds : r > round[Host] => round_done[r] # "closed"
    /\ \A n \in Procs : round[n] <= Reach
    /\ \A k \in Slots : slot_key[k].round <= Reach /\ rank_key[k].round <= Reach
    /\ pc[Host] \in HostBusy => round_done[round[Host]] # "closed"

\* Who goes on to another round comes to where the host is.
LEMMA SyncStaysInReach ==
  ASSUME TInv, HostLeads, NEW n \in Procs, Sync(n)
  PROVE  round'[n] <= Reach /\ (n = Host => round'[n] = Reach /\ round_done[Reach] # "closed")
<1>1. PICK N \in Rounds : /\ N >= round[n] /\ round_done[N] # "closed"
                          /\ \A M \in Rounds : round[n] <= M /\ M < N => round_done[M] = "closed"
                          /\ round' = [round EXCEPT ![n] = N]
  BY DEF Sync
<1>2. /\ round[n] \in Rounds /\ round[Host] \in Rounds /\ round'[n] = N
  BY <1>1 DEF TInv, TypeOK, LocalTypeOK, Procs
<1>3. \A r \in Rounds : r \in Int /\ \A i \in Int : 0 <= i /\ i <= r => i \in Rounds
  BY BoundsAssumption DEF Rounds
<1>4. Reach \in Int /\ 0 <= Reach /\ round[Host] <= Reach /\ round[n] <= Reach
  BY <1>2, BoundsAssumption DEF Reach, Rounds, HostLeads
<1>5. Reach \in Rounds => round_done[Reach] # "closed"
  <2>1. CASE round_done[round[Host]] = "closed"
    <3>1. Reach = round[Host] + 1
      BY <2>1 DEF Reach
    <3>2. Reach > round[Host]
      BY <3>1, <1>2, <1>3
    <3> QED
      BY <3>2 DEF HostLeads
  <2>2. CASE round_done[round[Host]] # "closed"
    <3>1. Reach = round[Host]
      BY <2>2, <1>2, <1>3 DEF Reach
    <3> QED
      BY <3>1, <2>2
  <2> QED
    BY <2>1, <2>2
<1>6. N <= Reach
  <2> SUFFICES ASSUME ~(N <= Reach) PROVE FALSE
    OBVIOUS
  <2>1. Reach < N /\ Reach \in Rounds
    BY <1>3, <1>4
  <2> QED
    BY <2>1, <1>1, <1>4, <1>5
<1>7. n = Host => N = Reach
  <2> SUFFICES ASSUME n = Host PROVE N = Reach
    OBVIOUS
  <2>1. CASE round_done[round[Host]] = "closed"
    <3>1. Reach = round[Host] + 1
      BY <2>1 DEF Reach
    <3>2. N # round[Host] /\ N >= round[Host]
      BY <1>1, <2>1
    <3> QED
      BY <3>1, <3>2, <1>2, <1>3, <1>6
  <2>2. CASE round_done[round[Host]] # "closed"
    <3>1. Reach = round[Host]
      BY <2>2, <1>2, <1>3 DEF Reach
    <3> QED
      BY <3>1, <1>1, <1>2, <1>3, <1>6
  <2> QED
    BY <2>1, <2>2
<1> QED
  BY <1>1, <1>2, <1>6, <1>7

(* No step brings the reach back.                                             *)
LEMMA ReachGrows ==
  ASSUME TInv, TInv', HostLeads, RoundsStay, RoundStep
  PROVE  /\ Reach \in Int /\ Reach' \in Int /\ Reach <= Reach'
         /\ \A n \in Procs : round'[n] <= Reach'
         /\ \A r \in Rounds : r > round'[Host] => round_done'[r] # "closed"
<1>1. /\ Host \in Procs /\ round \in [Procs -> Rounds] /\ round' \in [Procs -> Rounds]
      /\ round_done \in [Rounds -> {"absent", "open", "closed"}]
  BY DEF TInv, TypeOK, StoreTypeOK, LocalTypeOK, Procs
<1>2. Rounds \subseteq Nat /\ \A r \in Rounds : r \in Int
  BY BoundsAssumption DEF Rounds
<1>3. Reach \in Int /\ Reach' \in Int /\ \A n \in Procs : round[n] \in Int /\ round[n] <= Reach
  <2>1. \A n \in Procs : round[n] \in Int /\ round'[n] \in Int
    BY <1>1, <1>2
  <2>2. Reach \in Int /\ Reach' \in Int
    BY <2>1, <1>1 DEF Reach
  <2> QED
    BY <2>1, <2>2 DEF HostLeads
<1>4. /\ \A r \in Rounds : r > round[Host] => round_done[r] # "closed"
      /\ round[Host] \in Int /\ round'[Host] \in Int
  BY <1>1, <1>2 DEF HostLeads
<1>5. CASE UNCHANGED <<round_done, round>>
  BY <1>5, <1>3, <1>4 DEF Reach
<1>6. ASSUME round' = round,
             \A r \in Rounds : r # round[Host] => (round_done'[r] = "closed" => round_done[r] = "closed")
      PROVE  /\ Reach <= Reach' /\ \A n \in Procs : round'[n] <= Reach'
             /\ \A r \in Rounds : r > round'[Host] => round_done'[r] # "closed"
  <2>1. Reach <= Reach'
    <3>1. CASE round_done[round[Host]] = "closed"
      <4>1. round_done'[round'[Host]] = "closed"
        BY <3>1, <1>1, <1>6 DEF RoundsStay
      <4> QED
        BY <3>1, <4>1, <1>4, <1>6 DEF Reach
    <3>2. CASE round_done[round[Host]] # "closed"
      BY <3>2, <1>4, <1>6 DEF Reach
    <3> QED
      BY <3>1, <3>2
  <2>2. \A n \in Procs : round'[n] <= Reach'
    BY <2>1, <1>3, <1>6
  <2>3. \A r \in Rounds : r > round'[Host] => r # round[Host]
    BY <1>1, <1>2, <1>6
  <2> QED
    BY <2>1, <2>2, <2>3, <1>4, <1>6
<1>7. ASSUME NEW n \in Procs, Sync(n),
             \A r \in Rounds : round_done'[r] = "closed" <=> round_done[r] = "closed"
      PROVE  /\ Reach <= Reach' /\ \A m \in Procs : round'[m] <= Reach'
             /\ \A r \in Rounds : r > round'[Host] => round_done'[r] # "closed"
  <2>1. /\ round'[n] <= Reach
        /\ n = Host => round'[n] = Reach /\ round_done[Reach] # "closed"
    BY <1>7, SyncStaysInReach
  <2>2. \A m \in Procs : m # n => round'[m] = round[m]
    BY <1>7 DEF Sync
  <2>3. Reach' = Reach
    <3>1. CASE n = Host
      <4>1. round'[Host] = Reach /\ round_done'[round'[Host]] # "closed"
        BY <2>1, <3>1, <1>1, <1>7
      <4> QED
        BY <4>1, <1>3 DEF Reach
    <3>2. CASE n # Host
      BY <2>2, <3>2, <1>1, <1>7 DEF Reach
    <3> QED
      BY <3>1, <3>2
  <2>4. round'[Host] >= round[Host]
    <3>1. CASE n = Host
      BY <2>1, <3>1, <1>1, <1>2, <1>3
    <3>2. CASE n # Host
      BY <2>2, <3>2, <1>1, <1>4
    <3> QED
      BY <3>1, <3>2
  <2>5. \A m \in Procs : round'[m] <= Reach'
    BY <2>1, <2>2, <2>3, <1>3
  <2>6. ASSUME NEW r \in Rounds, r > round'[Host] PROVE round_done'[r] # "closed"
    <3>1. r > round[Host]
      BY <2>4, <2>6, <1>2, <1>4
    <3> QED
      BY <3>1, <1>4, <1>7
  <2> QED
    BY <2>3, <2>5, <2>6, <1>3
<1>8. CASE \E n \in Procs : Sync(n) /\ round_done' = round_done
  BY <1>8, <1>7, <1>3
<1>9. CASE \E n \in Procs : /\ round_done' = [round_done EXCEPT ![0] = "open"]
                            /\ Sync(n) \/ round' = round
  <2>1. \A r \in Rounds : round_done'[r] = "closed" <=> round_done[r] = "closed"
    BY <1>9, <1>1 DEF RoundsStay
  <2> QED
    BY <2>1, <1>9, <1>6, <1>7, <1>3
<1>10. CASE \E n \in Procs : /\ round_done' = [round_done EXCEPT ![round[n] + 1] = "open"]
                             /\ round' = round
  <2>1. \A r \in Rounds : round_done'[r] = "closed" => round_done[r] = "closed"
    BY <1>10, <1>1
  <2> QED
    BY <2>1, <1>10, <1>6, <1>3
<1>11. CASE /\ round' = round
            /\ round_done' = [round_done EXCEPT ![round[Host]] = "closed"]
  BY <1>11, <1>1, <1>6, <1>3
<1> QED
  BY <1>3, <1>5, <1>8, <1>9, <1>10, <1>11 DEF RoundStep

(* The steps that write a key, or take launchers into the snapshot.           *)
KeyStep ==
    \A k \in Slots :
       /\ \/ slot_key'[k] = slot_key[k]
          \/ \E n \in Procs : /\ pc[n] = "slotSet" /\ slot[n] = k
                              /\ slot_key'[k] = MySlot(n)
                              /\ slot_key[k] \in {expected[n], MySlot(n)}
                              /\ pc'[Host] \in {pc[Host], "close"}
       /\ \/ rank_key'[k] = rank_key[k]
          \/ \E n \in Procs : /\ pc[n] = "rankSet" /\ slot[n] = k
                              /\ rank_key'[k] = MyRank(n)
                              /\ rank_key[k] \in {expected[n], MyRank(n)}
          \/ /\ pc[Host] = "assign" /\ pc'[Host] = "finish" /\ UNCHANGED round
             /\ rank_key'[k].round = round[Host]
       /\ \/ snapshot'[k] \in {snapshot[k], NoNode}
          \/ /\ slot_key[k].round = round[Host] /\ slot_key[k].node = snapshot'[k]
             /\ UNCHANGED <<slot_key, round>>

(* Every step writes keys and takes snapshots in this way. *)
LEMMA KeySteps == TInv /\ [Next]_vars => KeyStep
<1> SUFFICES ASSUME TInv, [Next]_vars PROVE KeyStep
  OBVIOUS
<1> USE DEF TInv, TypeOK, StoreTypeOK, LocalTypeOK, HostTypeOK, store, local, host, Goto
<1>1. Host \in Procs
  BY DEF Procs
<1>2. ASSUME UNCHANGED <<slot_key, rank_key>>, snapshot' \in {snapshot, NoSnapshot} PROVE KeyStep
  BY <1>2 DEF KeyStep, NoSnapshot
<1>3. CASE UNCHANGED vars \/ LastCallExpires
  BY <1>2, <1>3 DEF vars, LastCallExpires
<1>4. CASE Closing
  <2>1. CASE InitShutdownCheck \/ InitShutdownSet \/ HostCheck \/ HostProbe \/ HostFinish
    BY <1>2, <2>1 DEF InitShutdownCheck, InitShutdownSet, HostCheck, HostProbe, HostFinish
  <2>2. CASE HostDecide
    <3>1. UNCHANGED <<slot_key, rank_key>> /\ \A k \in Slots : snapshot'[k] \in {snapshot[k], NoNode}
      BY <2>2 DEF HostDecide, NoSnapshot
    <3> QED
      BY <3>1 DEF KeyStep
  <2>3. CASE HostFetch
    <3>1. UNCHANGED <<slot_key, rank_key, round>>
      BY <2>3 DEF HostFetch
    <3>2. \A k \in Slots : \/ snapshot'[k] \in {snapshot[k], NoNode}
                           \/ slot_key[k].round = round[Host] /\ slot_key[k].node = snapshot'[k]
      <4>1. CASE snapshot' = snapshot
        BY <4>1
      <4>2. CASE snapshot' = [k \in Slots |->
                 IF k \in present /\ slot_key[k].round = round[Host] THEN slot_key[k].node ELSE NoNode]
        BY <4>2
      <4> QED
        BY <4>1, <4>2, <2>3 DEF HostFetch
    <3> QED
      BY <3>1, <3>2 DEF KeyStep
  <2>4. CASE HostAssign
    <3>1. UNCHANGED <<slot_key, snapshot, round>>
      BY <2>4 DEF HostAssign
    <3>2. \A k \in Slots : \/ rank_key'[k] = rank_key[k]
                           \/ /\ pc[Host] = "assign" /\ pc'[Host] = "finish"
                              /\ rank_key'[k].round = round[Host]
      BY <1>1, <2>4 DEF HostAssign, RanksWritten
    <3> QED
      BY <3>1, <3>2 DEF KeyStep
  <2> QED
    BY <1>4, <2>1, <2>2, <2>3, <2>4 DEF Closing
<1>5. ASSUME NEW n \in Procs, Joining(n) PROVE KeyStep
  <2>1. CASE WriteRankKey(n)
    <3>1. UNCHANGED <<slot_key, snapshot>> /\ pc[n] = "rankSet"
      BY <2>1 DEF WriteRankKey
    <3>2. \A k \in Slots : rank_key'[k] = rank_key[k] \/
              (slot[n] = k /\ rank_key'[k] = MyRank(n) /\ rank_key[k] \in {expected[n], MyRank(n)})
      BY <2>1 DEF WriteRankKey, CasAccepted
    <3> QED
      BY <3>1, <3>2 DEF KeyStep
  <2>2. CASE WriteSlotKey(n)
    <3>1. UNCHANGED <<rank_key, snapshot>> /\ pc[n] = "slotSet"
      BY <2>2 DEF WriteSlotKey
    <3>2. \A k \in Slots : slot_key'[k] = slot_key[k] \/
              (/\ slot[n] = k /\ slot_key'[k] = MySlot(n)
               /\ slot_key[k] \in {expected[n], MySlot(n)}
               /\ CasAccepted(n, slot_key[slot[n]], MySlot(n)))
      BY <2>2 DEF WriteSlotKey, CasAccepted
    <3>3. CasAccepted(n, slot_key[slot[n]], MySlot(n)) => pc'[Host] \in {pc[Host], "close"}
      BY <1>1, <2>2 DEF WriteSlotKey, CasAfter
    <3> QED
      BY <3>1, <3>2, <3>3 DEF KeyStep
  <2> QED
    BY <1>2, <1>5, <2>1, <2>2
       DEF Joining, InitCheck, InitSet, WaitCheckShutdown, WaitReadRound, CountUnhealthy,
           MarkGroupUnhealthy, Join, ReadRankKey, ReadSlotKey, FencedRead, DoneCheckShutdown,
           DoneReadRound, DoneReadRank
<1>6. ASSUME NEW n \in Procs, Monitoring(n) \/ Events(n) PROVE KeyStep
  BY <1>2, <1>6
     DEF Monitoring, OpenNextRound, PeerOpenedRound, SignalCheckNextRound, FaultExit, Events,
         WorkersFailed, SignalNoRestart, LeaveJob, ShutdownWorkload, JoinTimeout, Crash
<1> QED
  BY <1>3, <1>4, <1>5, <1>6 DEF Next

\* An assigned rank is of a closed round, or of the one the host is about to close.
RanksOfClosed ==
    \A k \in Slots : rank_key[k].rank # UNASSIGNED =>
        /\ rank_key[k].round \in Rounds
        /\ \/ round_done[rank_key[k].round] = "closed"
           \/ rank_key[k].round = round[Host] /\ pc[Host] = "finish"

\* While the host judges a snapshot, the slots in it are as it has read them.
SnapshotIsWritten ==
    \A k \in Slots : snapshot[k] # NoNode /\ pc[Host] \in {"decide", "assign", "finish"} =>
        slot_key[k] = [round |-> round[Host], node |-> snapshot[k]]

StayInv == HostLeads /\ RanksOfClosed /\ SnapshotIsWritten

(* A key is written with the round of its writer, and only the host closes. *)
LEMMA HostLeadsNext ==
  ASSUME TInv, TInv', IInv, HostLeads, RoundsStay, RoundStep, KeyStep, PlaceStep PROVE HostLeads'
<1>1. /\ Reach \in Int /\ Reach' \in Int /\ Reach <= Reach'
      /\ \A n \in Procs : round'[n] <= Reach'
      /\ \A r \in Rounds : r > round'[Host] => round_done'[r] # "closed"
  BY ReachGrows
<1>2. /\ Host \in Procs /\ round \in [Procs -> Rounds] /\ Rounds \subseteq Int
      /\ \A n \in Procs : round[n] <= Reach
      /\ round_done \in [Rounds -> {"absent", "open", "closed"}]
  BY BoundsAssumption DEF TInv, TypeOK, StoreTypeOK, LocalTypeOK, Procs, HostLeads, Rounds
<1>3. \A n \in Procs : round[n] \in Int /\ MySlot(n).round = round[n] /\ MyRank(n).round = round[n]
  BY <1>2 DEF MySlot, MyRank
<1>4. ASSUME NEW k \in Slots PROVE slot_key'[k].round <= Reach' /\ rank_key'[k].round <= Reach'
  <2>1. /\ slot_key[k].round \in Int /\ rank_key[k].round \in Int
        /\ slot_key[k].round <= Reach /\ rank_key[k].round <= Reach
    <3>1. slot_key[k] \in SlotValues /\ rank_key[k] \in RankValues
      BY DEF TInv, TypeOK, StoreTypeOK
    <3>2. slot_key[k].round \in Rounds \cup {-1} /\ rank_key[k].round \in Rounds \cup {-1}
      BY <3>1 DEF SlotValues, RankValues
    <3>3. slot_key[k].round <= Reach /\ rank_key[k].round <= Reach
      BY DEF HostLeads
    <3>4. Rounds \cup {-1} \subseteq Int
      BY BoundsAssumption DEF Rounds
    <3> QED
      BY <3>2, <3>3, <3>4
  <2>2. slot_key'[k].round <= Reach'
    <3>1. slot_key'[k].round = slot_key[k].round \/ \E n \in Procs : slot_key'[k].round = round[n]
      BY <1>3 DEF KeyStep
    <3> QED
      BY <3>1, <2>1, <1>1, <1>2, <1>3
  <2>3. rank_key'[k].round <= Reach'
    <3>1. rank_key'[k].round = rank_key[k].round \/ \E n \in Procs : rank_key'[k].round = round[n]
      BY <1>2, <1>3 DEF KeyStep
    <3> QED
      BY <3>1, <2>1, <1>1, <1>2, <1>3
  <2> QED
    BY <2>2, <2>3
<1>5. pc'[Host] \in HostBusy => round_done'[round'[Host]] # "closed"
  <2> SUFFICES ASSUME pc'[Host] \in HostBusy PROVE round_done'[round'[Host]] # "closed"
    OBVIOUS
  <2>1. round_done[round[Host]] # "closed" /\ round'[Host] = round[Host] /\ round[Host] \in Rounds
    BY <1>2 DEF PlaceStep, HostLeads
  <2> QED
    BY <2>1, <1>2 DEF RoundStep
<1> QED
  BY <1>1, <1>4, <1>5 DEF HostLeads

(* Ranks are written by the host in its last step before it closes its round. *)
LEMMA RanksOfClosedNext ==
  ASSUME TInv, TInv', HostLeads, RanksOfClosed, RoundsStay, RoundStep, KeyStep, PlaceStep
  PROVE  RanksOfClosed'
<1> SUFFICES ASSUME NEW k \in Slots, rank_key'[k].rank # UNASSIGNED
             PROVE  /\ rank_key'[k].round \in Rounds
                    /\ \/ round_done'[rank_key'[k].round] = "closed"
                       \/ rank_key'[k].round = round'[Host] /\ pc'[Host] = "finish"
  BY DEF RanksOfClosed
<1>1. /\ Host \in Procs /\ round \in [Procs -> Rounds]
      /\ round_done \in [Rounds -> {"absent", "open", "closed"}]
  BY DEF TInv, TypeOK, StoreTypeOK, LocalTypeOK, Procs
<1>2. CASE rank_key'[k] = rank_key[k]
  <2>1. /\ rank_key[k].round \in Rounds
        /\ \/ round_done[rank_key[k].round] = "closed"
           \/ rank_key[k].round = round[Host] /\ pc[Host] = "finish"
    BY <1>2 DEF RanksOfClosed
  <2>2. CASE round_done[rank_key[k].round] = "closed"
    BY <2>1, <2>2, <1>2 DEF RoundsStay
  <2>3. CASE rank_key[k].round = round[Host] /\ pc[Host] = "finish"
    <3>1. CASE round_done' = [round_done EXCEPT ![round[Host]] = "closed"]
      BY <3>1, <2>1, <2>3, <1>1, <1>2
    <3>2. CASE pc'[Host] = "finish"
      <4>1. round'[Host] = round[Host]
        BY <3>2, <2>3 DEF PlaceStep, HostBusy, HostLabels
      <4> QED
        BY <4>1, <3>2, <2>1, <2>3, <1>2
    <3> QED
      BY <3>1, <3>2, <2>3 DEF PlaceStep
  <2> QED
    BY <2>1, <2>2, <2>3
<1>3. CASE \E n \in Procs : rank_key'[k] = MyRank(n)
  BY <1>3 DEF MyRank
<1>4. CASE /\ pc'[Host] = "finish" /\ UNCHANGED round
           /\ rank_key'[k].round = round[Host]
  BY <1>4, <1>1
<1> QED
  BY <1>2, <1>3, <1>4 DEF KeyStep

(* Whoever may still write a slot of the snapshot is in an earlier round, and its
   compare_set fails. *)
LEMMA SnapshotIsWrittenNext ==
  ASSUME TInv, TInv', IInv, HostLeads, SnapshotIsWritten, KeyStep, PlaceStep
  PROVE  SnapshotIsWritten'
<1> DEFINE Judging == {"decide", "assign", "finish"}
<1> SUFFICES ASSUME NEW k \in Slots, snapshot'[k] # NoNode, pc'[Host] \in Judging
             PROVE  slot_key'[k] = [round |-> round'[Host], node |-> snapshot'[k]]
  BY DEF SnapshotIsWritten
<1>1. /\ Host \in Procs /\ round \in [Procs -> Rounds] /\ Rounds \subseteq Int
      /\ slot_key[k] \in SlotValues /\ slot_key'[k] \in SlotValues
      /\ expected \in [Procs -> SlotValues \cup RankValues]
  BY BoundsAssumption DEF TInv, TypeOK, StoreTypeOK, LocalTypeOK, Procs, Rounds
<1>2. /\ pc[Host] \in HostBusy \/ pc[Host] = "s0read"
      /\ round'[Host] = round[Host]
  BY DEF PlaceStep, HostBusy, HostLabels
<1>3. CASE /\ slot_key[k].round = round[Host] /\ slot_key[k].node = snapshot'[k]
           /\ UNCHANGED <<slot_key, round>>
  BY <1>1, <1>3 DEF SlotValues
<1>4. CASE snapshot'[k] \in {snapshot[k], NoNode}
  <2>1. snapshot'[k] = snapshot[k] /\ snapshot[k] # NoNode
    BY <1>4
  <2>2. pc[Host] \in Judging
    BY <2>1, <1>2 DEF IInv, NoStaleSnapshot, NoSnapshot, HostBusy, SlotWriters, RankWriters, HostLabels
  <2>3. slot_key[k] = [round |-> round[Host], node |-> snapshot[k]]
    BY <2>1, <2>2 DEF SnapshotIsWritten
  <2>4. CASE slot_key'[k] = slot_key[k]
    BY <2>1, <2>3, <2>4, <1>2
  <2>5. ASSUME NEW n \in Procs, pc[n] = "slotSet", slot[n] = k, slot_key'[k] = MySlot(n),
               slot_key[k] \in {expected[n], MySlot(n)}
        PROVE  FALSE
    <3>1. round[n] <= round[Host]
      <4>1. round_done[round[Host]] # "closed"
        BY <2>2 DEF HostLeads, HostBusy, HostLabels
      <4>2. round[Host] \in Int
        BY <1>1
      <4>3. Reach = round[Host]
        BY <4>1, <4>2 DEF Reach
      <4> QED
        BY <4>3 DEF HostLeads
    <3>2. slot_key[k].round = round[Host] /\ MySlot(n).round = round[n]
      BY <2>3 DEF MySlot
    <3>3. expected[n].round <= round[n]
      BY <2>5 DEF IInv, ExpectedNotNewer
    <3>4. round[n] = round[Host]
      <4>1. round[n] \in Int /\ round[Host] \in Int
        BY <1>1
      <4> QED
        BY <4>1, <3>1, <3>2, <3>3, <2>5
    <3> QED
      BY <3>4, <2>1, <2>5 DEF IInv, SnapshotOfWriters, SlotWriters
  <2> QED
    BY <2>4, <2>5 DEF KeyStep
<1> QED
  BY <1>3, <1>4 DEF KeyStep

(* While no round is opened again, nobody is ahead of the host, ranks are of
   closed rounds, and the host's snapshot is as it was read. *)
LEMMA StayInvariance == Spec /\ ClosedStaysClosed => [](TInv /\ IInv /\ StayInv)
<1>1. Init => StayInv
  <2> SUFFICES ASSUME Init PROVE StayInv
    OBVIOUS
  <2> USE BoundsAssumption DEF Init
  <2>1. /\ Host \in Procs /\ round[Host] = 0 /\ \A n \in Procs : round[n] = 0
        /\ 0 \in Rounds /\ \A r \in Rounds : round_done[r] # "closed"
    BY DEF Procs, Rounds
  <2>2. Reach = 0
    BY <2>1 DEF Reach
  <2>3. HostLeads
    BY <2>1, <2>2 DEF HostLeads, AbsentSlot, AbsentRank
  <2>4. RanksOfClosed /\ SnapshotIsWritten
    BY DEF RanksOfClosed, SnapshotIsWritten, AbsentRank, NoSnapshot
  <2> QED
    BY <2>3, <2>4 DEF StayInv
<1>2. TInv /\ IInv /\ StayInv /\ [Next]_vars /\ [RoundsStay]_vars =>
        (TInv /\ IInv /\ StayInv)'
  <2> SUFFICES ASSUME TInv, IInv, StayInv, [Next]_vars, [RoundsStay]_vars
               PROVE  (TInv /\ IInv /\ StayInv)'
    OBVIOUS
  <2>1. TInv' /\ IInv' /\ RoundStep /\ KeyStep /\ PlaceStep
    BY TInvNext, IInvNext, RoundSteps, KeySteps, PlaceSteps
  <2>2. RoundsStay
    BY DEF RoundsStay, vars, store
  <2>3. StayInv'
    BY <2>1, <2>2, HostLeadsNext, RanksOfClosedNext, SnapshotIsWrittenNext DEF StayInv
  <2> QED
    BY <2>1, <2>3
<1>3. Init => TInv /\ IInv
  BY TInvInit, IInvInit
<1> QED
  BY <1>1, <1>2, <1>3, PTL DEF Spec, ClosedStaysClosed, RoundsStay

(* When the host writes, nobody is in a later round.                          *)
LEMMA KeysNeverFall ==
  ASSUME TInv, IInv, StayInv, [Next]_vars, NEW k \in Slots
  PROVE  /\ slot_key'[k].round >= slot_key[k].round
         /\ rank_key'[k].round >= rank_key[k].round
<1>1. KeyStep
  BY KeySteps
<1>2. /\ slot_key[k].round \in Int /\ rank_key[k].round \in Int
      /\ \A n \in Procs : /\ round[n] \in Int
                          /\ MySlot(n).round = round[n] /\ MyRank(n).round = round[n]
  <2>1. slot_key[k] \in SlotValues /\ rank_key[k] \in RankValues /\ round \in [Procs -> Rounds]
    BY DEF TInv, TypeOK, StoreTypeOK, LocalTypeOK
  <2>2. slot_key[k].round \in Rounds \cup {-1} /\ rank_key[k].round \in Rounds \cup {-1}
    BY <2>1 DEF SlotValues, RankValues
  <2>3. Rounds \cup {-1} \subseteq Int
    BY BoundsAssumption DEF Rounds
  <2> QED
    BY <2>1, <2>2, <2>3 DEF MySlot, MyRank
<1>3. \A n \in Procs : pc[n] \in {"rankSet", "slotSet"} => expected[n].round <= round[n]
  BY DEF IInv, ExpectedNotNewer
<1>4. slot_key'[k].round >= slot_key[k].round
  <2>1. CASE slot_key'[k] = slot_key[k]
    BY <2>1, <1>2
  <2>2. ASSUME NEW n \in Procs, pc[n] = "slotSet", slot_key'[k] = MySlot(n),
               slot_key[k] \in {expected[n], MySlot(n)}
        PROVE  slot_key'[k].round >= slot_key[k].round
    BY <2>2, <1>2, <1>3
  <2> QED
    BY <2>1, <2>2, <1>1 DEF KeyStep
<1>5. rank_key'[k].round >= rank_key[k].round
  <2>1. CASE rank_key'[k] = rank_key[k]
    BY <2>1, <1>2
  <2>2. ASSUME NEW n \in Procs, pc[n] = "rankSet", rank_key'[k] = MyRank(n),
               rank_key[k] \in {expected[n], MyRank(n)}
        PROVE  rank_key'[k].round >= rank_key[k].round
    BY <2>2, <1>2, <1>3
  <2>3. CASE pc[Host] = "assign" /\ rank_key'[k].round = round[Host]
    <3>1. round_done[round[Host]] # "closed" /\ rank_key[k].round <= Reach
      BY <2>3 DEF StayInv, HostLeads, HostBusy, HostLabels
    <3>2. round[Host] \in Int
      BY <1>2 DEF Procs
    <3>3. Reach = round[Host]
      BY <3>1, <3>2 DEF Reach
    <3> QED
      BY <3>1, <3>2, <3>3, <2>3, <1>2
  <2> QED
    BY <2>1, <2>2, <2>3, <1>1 DEF KeyStep
<1> QED
  BY <1>4, <1>5

(* The fence of the reused keys holds for the rank keys too, although the host's
   multi_set is not fenced. *)
THEOREM Fences == Spec /\ ClosedStaysClosed => FenceMonotone
<1>1. TInv /\ IInv /\ StayInv /\ [Next]_vars =>
        [\A k \in Slots : /\ slot_key'[k].round >= slot_key[k].round
                          /\ rank_key'[k].round >= rank_key[k].round]_vars
  BY KeysNeverFall
<1> QED
  BY <1>1, StayInvariance, PTL DEF Spec, FenceMonotone

-----------------------------------------------------------------------------
(* Who is replaced *)

(* The host leaves its decision and its assignment by these steps only.       *)
LEMMA HostMoves ==
  ASSUME TInv, [Next]_vars, pc[Host] \in {"decide", "assign"}, pc'[Host] # pc[Host]
  PROVE  (pc[Host] = "decide" /\ HostDecide) \/ (pc[Host] = "assign" /\ HostAssign)
<1> USE DEF TInv, TypeOK, LocalTypeOK, local, Goto
<1>1. Host \in Procs
  BY DEF Procs
<1>2. CASE UNCHANGED vars \/ LastCallExpires
  BY <1>2 DEF vars, LastCallExpires
<1>3. CASE Closing
  BY <1>1, <1>3 DEF Closing, InitShutdownCheck, InitShutdownSet, HostCheck, HostProbe, HostFetch,
     HostDecide, HostAssign, HostFinish
<1>4. ASSUME NEW n \in Procs, Joining(n) PROVE FALSE
  <2>1. n = Host
    <3>1. \E label \in Labels : pc' = [pc EXCEPT ![n] = label]
      <4>1. CASE InitCheck(n) \/ InitSet(n) \/ WaitCheckShutdown(n) \/ WaitReadRound(n)
        BY <4>1 DEF InitCheck, InitSet, AfterRoundKey, WaitCheckShutdown, WaitReadRound,
           EnterCloseLoop, Labels
      <4>2. CASE CountUnhealthy(n) \/ MarkGroupUnhealthy(n) \/ Join(n)
        BY <4>2 DEF CountUnhealthy, MarkGroupUnhealthy, Join, Labels
      <4>3. CASE ReadRankKey(n) \/ ReadSlotKey(n)
        BY <4>3 DEF ReadRankKey, ReadSlotKey, FencedRead, Labels
      <4>4. CASE WriteRankKey(n) \/ WriteSlotKey(n)
        BY <4>4 DEF WriteRankKey, WriteSlotKey, CasAfter, Labels
      <4>5. CASE DoneCheckShutdown(n) \/ DoneReadRound(n) \/ DoneReadRank(n)
        BY <4>5 DEF DoneCheckShutdown, DoneReadRound, DoneReadRank, Labels
      <4> QED
        BY <1>4, <4>1, <4>2, <4>3, <4>4, <4>5 DEF Joining
    <3> QED
      BY <1>1, <3>1
  <2> QED
    BY <2>1, <1>4
       DEF Joining, InitCheck, InitSet, WaitCheckShutdown, WaitReadRound, CountUnhealthy,
           MarkGroupUnhealthy, Join, ReadRankKey, WriteRankKey, ReadSlotKey, WriteSlotKey,
           DoneCheckShutdown, DoneReadRound, DoneReadRank
<1>5. ASSUME NEW n \in Procs, Monitoring(n) \/ Events(n) PROVE FALSE
  BY <1>1, <1>5, FaultsAssumption
     DEF Monitoring, OpenNextRound, PeerOpenedRound, SignalCheckNextRound, FaultExit, ExitWith,
         Events, WorkersFailed, SignalNoRestart, MayStop, LeaveJob, ShutdownWorkload, JoinTimeout,
         Crash
<1> QED
  BY <1>2, <1>3, <1>4, <1>5 DEF Next

\* Only real replacement groups are marked.
OnlyGroupsMarked == \A r \in Rounds : NoGroup \notin unhealthy_groups[r]

(* A launcher without a replacement group marks none. *)
LEMMA OnlyGroupsMarkedNext == TInv /\ OnlyGroupsMarked /\ [Next]_vars => OnlyGroupsMarked'
<1> SUFFICES ASSUME TInv, OnlyGroupsMarked, [Next]_vars PROVE OnlyGroupsMarked'
  OBVIOUS
<1> USE DEF OnlyGroupsMarked, store
<1>1. CASE UNCHANGED vars \/ LastCallExpires
  BY <1>1 DEF vars, LastCallExpires
<1>2. CASE Closing
  BY <1>2 DEF Closing, InitShutdownCheck, InitShutdownSet, HostCheck, HostProbe, HostFetch,
     HostDecide, HostAssign, HostFinish
<1>3. ASSUME NEW n \in Procs, Joining(n) PROVE OnlyGroupsMarked'
  <2>1. CASE MarkGroupUnhealthy(n)
    BY <2>1 DEF MarkGroupUnhealthy, TInv, TypeOK, StoreTypeOK
  <2> QED
    BY <1>3, <2>1
       DEF Joining, InitCheck, InitSet, WaitCheckShutdown, WaitReadRound, CountUnhealthy,
           Join, ReadRankKey, WriteRankKey, ReadSlotKey, WriteSlotKey, FencedRead,
           DoneCheckShutdown, DoneReadRound, DoneReadRank
<1>4. ASSUME NEW n \in Procs, Monitoring(n) \/ Events(n) PROVE OnlyGroupsMarked'
  BY <1>4
     DEF Monitoring, OpenNextRound, PeerOpenedRound, SignalCheckNextRound, FaultExit, Events,
         WorkersFailed, SignalNoRestart, LeaveJob, ShutdownWorkload, JoinTimeout, Crash
<1> QED
  BY <1>1, <1>2, <1>3, <1>4 DEF Next

\* The launchers of a snapshot.
Kept(s) == {s[k] : k \in Slots} \ {NoNode}

(* The decision keeps the healthy participants of the snapshot, among them every
   previously active one of a healthy group, unless the last call has expired. *)
LEMMA DecisionKeepsTheHealthy ==
  ASSUME TInv, OnlyGroupsMarked, HostDecide, pc'[Host] = "assign"
  PROVE  /\ \A n \in Kept(snapshot') : Group[n] \notin unhealthy_groups[round[Host]]
         /\ GateEnabled /\ gate # "expired" =>
               \A a \in previous_active :
                  \/ a[2] \in unhealthy_groups[round[Host]]
                  \/ \E n \in Kept(snapshot') : Infra[n] = a[1]
<1>1. Host \in Procs /\ pc \in [Procs -> Labels] /\ snapshot \in [Slots -> Launchers \cup {NoNode}]
  BY DEF TInv, TypeOK, LocalTypeOK, HostTypeOK, Procs
<1>2. round[Host] \in Rounds
  BY <1>1 DEF TInv, TypeOK, LocalTypeOK
<1>3. /\ snapshot' = [k \in Slots |->
                IF snapshot[k] # NoNode /\ Desc(snapshot[k]) \in HealthyParticipants
                THEN snapshot[k] ELSE NoNode]
      /\ ~(MissingPreviousActive # {} /\ gate # "expired")
  BY <1>1 DEF HostDecide, Goto
<1>4. \A n \in Kept(snapshot') : Desc(n) \in HealthyParticipants
  BY <1>3 DEF Kept
<1>5. \A p \in HealthyParticipants : p.group \notin unhealthy_groups[round[Host]]
  BY <1>2 DEF HealthyParticipants, OnlyGroupsMarked
<1>6. \A n \in Kept(snapshot') : Group[n] \notin unhealthy_groups[round[Host]]
  BY <1>4, <1>5 DEF Desc
<1>7. ASSUME GateEnabled, gate # "expired", NEW a \in previous_active,
             a[2] \notin unhealthy_groups[round[Host]]
      PROVE  \E n \in Kept(snapshot') : Infra[n] = a[1]
  <2>1. PICK p \in HealthyParticipants : p.infra = a[1]
    BY <1>3, <1>7 DEF MissingPreviousActive
  <2>2. PICK k \in Slots : snapshot[k] # NoNode /\ p = Desc(snapshot[k])
    BY <2>1 DEF HealthyParticipants, CurrentParticipants
  <2>3. snapshot'[k] = snapshot[k]
    BY <1>3, <2>1, <2>2
  <2>4. snapshot[k] \in Kept(snapshot') /\ Infra[snapshot[k]] = a[1]
    BY <2>1, <2>2, <2>3 DEF Kept, Desc
  <2> QED
    BY <2>4
<1> QED
  BY <1>6, <1>7

(* An active rank of the host's round is always that of a launcher in its snapshot. *)
LEMMA AssignmentRanksTheKept ==
  ASSUME TInv, StayInv, HostAssign, pc'[Host] = "finish"
  PROVE  RankedActive(round[Host])' \subseteq Kept(snapshot)
<1>1. /\ Host \in Procs /\ pc[Host] = "assign"
      /\ UNCHANGED <<slot_key, snapshot, round>>
  BY DEF HostAssign, Procs
<1>2. \A k \in Slots : snapshot[k] = NoNode => rank_key'[k] = rank_key[k]
  BY <1>1 DEF HostAssign, RanksWritten, TInv, TypeOK, StoreTypeOK
<1> SUFFICES ASSUME NEW n \in Launchers, NEW k \in Slots,
                    slot_key'[k] = [round |-> round'[Host], node |-> n],
                    rank_key'[k].round = round'[Host], IsActive(rank_key'[k].rank)
             PROVE  n \in Kept(snapshot)
  BY DEF RankedActive
<1>3. CASE snapshot[k] # NoNode
  <2>1. slot_key[k] = [round |-> round[Host], node |-> snapshot[k]]
    BY <1>1, <1>3 DEF StayInv, SnapshotIsWritten
  <2>2. n = snapshot[k]
    BY <2>1, <1>1
  <2> QED
    BY <2>2, <1>3 DEF Kept
<1>4. CASE snapshot[k] = NoNode
  <2>1. rank_key[k].rank # UNASSIGNED /\ rank_key[k].round = round[Host]
    BY <1>1, <1>2, <1>4 DEF IsActive
  <2>2. round_done[round[Host]] # "closed"
    BY <1>1 DEF StayInv, HostLeads, HostBusy, HostLabels
  <2> QED
    BY <2>1, <2>2, <1>1 DEF StayInv, RanksOfClosed
<1> QED
  BY <1>3, <1>4

(* While no round is opened again, the host keeps no node of a group marked
   unhealthy, leaves out no previously active node before the last call has expired,
   and gives active ranks to no other node than those it kept. *)
THEOREM OnlyTheLostAreReplaced == Spec /\ ClosedStaysClosed => DecisionReplacesOnlyTheLost
<1>1. TInv /\ StayInv /\ OnlyGroupsMarked /\ [Next]_vars =>
        [LET r == round[Host]
             kept(s) == {s[k] : k \in Slots} \ {NoNode}
         IN
         /\ pc[Host] = "decide" /\ pc'[Host] = "assign" =>
               /\ \A n \in kept(snapshot') : Group[n] \notin unhealthy_groups[r]
               /\ GateEnabled /\ gate # "expired" =>
                     \A a \in previous_active :
                        a[2] \in unhealthy_groups[r] \/ \E n \in kept(snapshot') : Infra[n] = a[1]
         /\ pc[Host] = "assign" /\ pc'[Host] = "finish" =>
               RankedActive(r)' \subseteq kept(snapshot) ]_vars
  <2> SUFFICES ASSUME TInv, StayInv, OnlyGroupsMarked, [Next]_vars
               PROVE
         /\ pc[Host] = "decide" /\ pc'[Host] = "assign" =>
               /\ \A n \in Kept(snapshot') : Group[n] \notin unhealthy_groups[round[Host]]
               /\ GateEnabled /\ gate # "expired" =>
                     \A a \in previous_active :
                        \/ a[2] \in unhealthy_groups[round[Host]]
                        \/ \E n \in Kept(snapshot') : Infra[n] = a[1]
         /\ pc[Host] = "assign" /\ pc'[Host] = "finish" =>
               RankedActive(round[Host])' \subseteq Kept(snapshot)
    BY DEF Kept
  <2>1. ASSUME pc[Host] = "decide", pc'[Host] = "assign" PROVE HostDecide
    BY <2>1, HostMoves
  <2>2. ASSUME pc[Host] = "assign", pc'[Host] = "finish" PROVE HostAssign
    BY <2>2, HostMoves
  <2> QED
    BY <2>1, <2>2, DecisionKeepsTheHealthy, AssignmentRanksTheKept
<1>2. Init => OnlyGroupsMarked
  BY DEF Init, OnlyGroupsMarked
<1>3. TInv /\ OnlyGroupsMarked /\ [Next]_vars => OnlyGroupsMarked'
  BY OnlyGroupsMarkedNext
<1> QED
  BY <1>1, <1>2, <1>3, StayInvariance, PTL DEF Spec, DecisionReplacesOnlyTheLost

-----------------------------------------------------------------------------
(* Steps of one process *)

\* Whatever process n can do.
NextOf(n) == Joining(n) \/ Monitoring(n) \/ Events(n) \/ (n = Host /\ Closing)

\* A step of one process leaves the others where they are.
Own(n) ==
    \A m \in Procs : m # n =>
        /\ pc'[m] = pc[m] /\ round'[m] = round[m] /\ slot'[m] = slot[m]
        /\ expected'[m] = expected[m] /\ rank'[m] = rank[m]

(* Every step is that of one process, or the last-call deadline. *)
LEMMA StepOf ==
  ASSUME [Next]_vars
  PROVE  UNCHANGED <<store, local, snapshot>> \/ \E n \in Procs : NextOf(n)
<1>1. Host \in Procs
  BY DEF Procs
<1>2. CASE UNCHANGED vars \/ LastCallExpires
  BY <1>2 DEF vars, host, LastCallExpires
<1> QED
  BY <1>1, <1>2 DEF Next, NextOf

(* No step moves another process. *)
LEMMA OwnSteps ==
  ASSUME TInv, NEW n \in Procs, NextOf(n) PROVE Own(n)
<1> USE DEF TInv, TypeOK, StoreTypeOK, LocalTypeOK, store, local, Goto, Own
<1>1. CASE Joining(n)
  <2>1. CASE InitCheck(n) \/ InitSet(n)
    BY <2>1 DEF InitCheck, InitSet, AfterRoundKey, Sync
  <2>2. CASE WaitCheckShutdown(n) \/ WaitReadRound(n)
    BY <2>2 DEF WaitCheckShutdown, WaitReadRound, EnterCloseLoop, Sync
  <2>3. CASE CountUnhealthy(n) \/ MarkGroupUnhealthy(n) \/ Join(n)
    BY <2>3 DEF CountUnhealthy, MarkGroupUnhealthy, Join
  <2>4. CASE ReadRankKey(n) \/ ReadSlotKey(n)
    BY <2>4 DEF ReadRankKey, ReadSlotKey, FencedRead
  <2>5. CASE WriteRankKey(n) \/ WriteSlotKey(n)
    BY <2>5 DEF WriteRankKey, WriteSlotKey, CasAfter
  <2>6. CASE DoneCheckShutdown(n) \/ DoneReadRound(n) \/ DoneReadRank(n)
    BY <2>6 DEF DoneCheckShutdown, DoneReadRound, DoneReadRank
  <2> QED
    BY <1>1, <2>1, <2>2, <2>3, <2>4, <2>5, <2>6 DEF Joining
<1>2. CASE Monitoring(n) \/ Events(n)
  <2>1. CASE OpenNextRound(n) \/ PeerOpenedRound(n) \/ WorkersFailed(n)
    BY <2>1 DEF OpenNextRound, PeerOpenedRound, WorkersFailed, LeaveWorld
  <2>2. CASE SignalNoRestart(n) \/ SignalCheckNextRound(n)
    BY <2>2 DEF SignalNoRestart, SignalCheckNextRound, LeaveWorld
  <2>3. CASE LeaveJob(n) \/ JoinTimeout(n) \/ FaultExit(n) \/ ShutdownWorkload(n)
    BY <2>3 DEF LeaveJob, JoinTimeout, FaultExit, ExitWith, LeaveWorld, ShutdownWorkload
  <2>4. CASE Crash(n)
    BY <2>4 DEF Crash, LeaveWorld
  <2> QED
    BY <1>2, <2>1, <2>2, <2>3, <2>4 DEF Monitoring, Events
<1>3. CASE n = Host /\ Closing
  <2>1. CASE InitShutdownCheck \/ InitShutdownSet
    BY <1>3, <2>1 DEF InitShutdownCheck, InitShutdownSet, Sync
  <2>2. CASE HostCheck \/ HostProbe \/ HostFetch \/ HostDecide \/ HostAssign \/ HostFinish
    BY <1>3, <2>2 DEF HostCheck, HostProbe, HostFetch, HostDecide, HostAssign, HostFinish
  <2> QED
    BY <1>3, <2>1, <2>2 DEF Closing
<1> QED
  BY <1>1, <1>2, <1>3 DEF NextOf

(* Rounds only grow, and a process takes or keeps a slot only in the round it is in. *)
LEMMA SlotSteps ==
  ASSUME TInv, NEW n \in Procs, NextOf(n)
  PROVE  /\ round[n] \in Int /\ round'[n] \in Int /\ round[n] <= round'[n]
         /\ \/ slot'[n] = 0
            \/ slot'[n] = slot[n] /\ round'[n] = round[n]
            \/ Join(n)
<1>1. [Next]_vars
  BY DEF Next, NextOf
<1>2. Rounds \subseteq Int
  BY BoundsAssumption DEF Rounds
<1>3. TInv'
  BY <1>1, TInvNext
<1>4. round[n] \in Int /\ round'[n] \in Int
  BY <1>2, <1>3 DEF TInv, TypeOK, LocalTypeOK
<1>5. round[n] <= round'[n]
  <2>1. RoundStep
    BY <1>1, RoundSteps
  <2>2. round \in [Procs -> Rounds]
    BY DEF TInv, TypeOK, LocalTypeOK
  <2>3. ASSUME NEW m \in Procs, Sync(m) PROVE round[n] <= round'[n]
    <3>1. PICK N \in Rounds : N >= round[m] /\ round' = [round EXCEPT ![m] = N]
      BY <2>3 DEF Sync
    <3> QED
      BY <3>1, <2>2, <1>4
  <2> QED
    BY <1>4, <2>1, <2>3 DEF RoundStep
<1>6. \/ slot'[n] = 0
      \/ slot'[n] = slot[n] /\ round'[n] = round[n]
      \/ Join(n)
  <2> USE DEF TInv, TypeOK, StoreTypeOK, LocalTypeOK, store, local, Goto, SlotWhenJoined,
          NoSlotYet, SlotHolders, HostLabels
  <2>1. CASE Joining(n)
    <3>1. CASE InitCheck(n) \/ InitSet(n)
      BY <3>1 DEF InitCheck, InitSet, AfterRoundKey, Sync
    <3>2. CASE WaitCheckShutdown(n) \/ WaitReadRound(n)
      BY <3>2 DEF WaitCheckShutdown, WaitReadRound, EnterCloseLoop, Sync
    <3>3. CASE CountUnhealthy(n) \/ MarkGroupUnhealthy(n)
      BY <3>3 DEF CountUnhealthy, MarkGroupUnhealthy
    <3>4. CASE ReadRankKey(n) \/ ReadSlotKey(n)
      BY <3>4 DEF ReadRankKey, ReadSlotKey, FencedRead
    <3>5. CASE WriteRankKey(n) \/ WriteSlotKey(n)
      BY <3>5 DEF WriteRankKey, WriteSlotKey, CasAfter
    <3>6. CASE DoneCheckShutdown(n) \/ DoneReadRound(n) \/ DoneReadRank(n)
      BY <3>6 DEF DoneCheckShutdown, DoneReadRound, DoneReadRank
    <3> QED
      BY <2>1, <3>1, <3>2, <3>3, <3>4, <3>5, <3>6 DEF Joining
  <2>2. CASE Monitoring(n) \/ Events(n)
    <3>1. CASE OpenNextRound(n) \/ PeerOpenedRound(n) \/ WorkersFailed(n)
      BY <3>1 DEF OpenNextRound, PeerOpenedRound, WorkersFailed, LeaveWorld
    <3>2. CASE SignalNoRestart(n) \/ SignalCheckNextRound(n)
      BY <3>2 DEF SignalNoRestart, SignalCheckNextRound, LeaveWorld
    <3>3. CASE LeaveJob(n) \/ JoinTimeout(n) \/ FaultExit(n) \/ ShutdownWorkload(n)
      BY <3>3 DEF LeaveJob, JoinTimeout, FaultExit, ExitWith, LeaveWorld, ShutdownWorkload
    <3>4. CASE Crash(n)
      BY <3>4 DEF Crash, LeaveWorld
    <3> QED
      BY <2>2, <3>1, <3>2, <3>3, <3>4 DEF Monitoring, Events
  <2>3. CASE n = Host /\ Closing
    <3>1. CASE InitShutdownCheck \/ InitShutdownSet
      BY <2>3, <3>1 DEF InitShutdownCheck, InitShutdownSet, Sync
    <3>2. CASE HostCheck \/ HostProbe \/ HostFetch \/ HostDecide \/ HostAssign \/ HostFinish
      BY <2>3, <3>2 DEF HostCheck, HostProbe, HostFetch, HostDecide, HostAssign, HostFinish
    <3> QED
      BY <2>3, <3>1, <3>2 DEF Closing
  <2> QED
    BY <2>1, <2>2, <2>3 DEF NextOf
<1> QED
  BY <1>4, <1>5, <1>6

(* Slot keys are written in one place, rank keys in two. *)
LEMMA WriterSteps ==
  ASSUME TInv, NEW n \in Procs, NextOf(n)
  PROVE  /\ slot_key' = slot_key \/ WriteSlotKey(n)
         /\ rank_key' = rank_key \/ WriteRankKey(n) \/ (n = Host /\ HostAssign)
         /\ snapshot' = snapshot \/ (n = Host /\ (HostFetch \/ HostDecide \/ HostFinish))
<1> USE DEF store, host
<1>1. CASE Joining(n)
  BY <1>1 DEF Joining, InitCheck, InitSet, WaitCheckShutdown, WaitReadRound, EnterCloseLoop,
     CountUnhealthy, MarkGroupUnhealthy, Join, ReadRankKey, WriteRankKey, ReadSlotKey,
     WriteSlotKey, FencedRead, DoneCheckShutdown, DoneReadRound, DoneReadRank
<1>2. CASE Monitoring(n) \/ Events(n)
  BY <1>2 DEF Monitoring, OpenNextRound, PeerOpenedRound, SignalCheckNextRound, FaultExit,
     Events, WorkersFailed, SignalNoRestart, LeaveJob, ShutdownWorkload, JoinTimeout, Crash
<1>3. CASE n = Host /\ Closing
  <2>1. CASE InitShutdownCheck \/ InitShutdownSet \/ HostCheck \/ HostProbe
    BY <2>1 DEF InitShutdownCheck, InitShutdownSet, HostCheck, HostProbe
  <2>2. CASE HostFetch \/ HostDecide \/ HostFinish \/ HostAssign
    BY <1>3, <2>2 DEF HostFetch, HostDecide, HostFinish, HostAssign
  <2> QED
    BY <1>3, <2>1, <2>2 DEF Closing
<1> QED
  BY <1>1, <1>2, <1>3 DEF NextOf

-----------------------------------------------------------------------------
(* Over with a round *)

\* Process n is through with its round: it will join no more in it.
Over(n) ==
    \/ pc[n] \in {"active", "stop", "stopOpen", "gone", "fault", "conflict"}
    \/ pc[n] \in {"s0", "s0read", "open"} /\ round_done[round[n]] = "closed"

\* Who reads its rank, runs workers or opens the next round has seen its round closed.
SeenClosed ==
    \A n \in Procs :
        /\ pc[n] \in {"s3rank", "active", "open"} => round_done[round[n]] = "closed"
        /\ pc[n] = "active" => n \in Launchers /\ rank[n] # UNASSIGNED

(* A process comes there from a look at its round; the round stays closed. *)
LEMMA SeenClosedNext ==
  ASSUME TInv, TInv', SeenClosed, RoundsStay, [Next]_vars PROVE SeenClosed'
<1>1. CASE UNCHANGED <<store, local, snapshot>>
  BY <1>1 DEF SeenClosed, store, local
<1>2. ASSUME NEW n \in Procs, NextOf(n) PROVE SeenClosed'
  <2>1. /\ round \in [Procs -> Rounds] /\ round' \in [Procs -> Rounds]
        /\ Own(n)
    BY <1>2, OwnSteps DEF TInv, TypeOK, LocalTypeOK
  <2>2. ASSUME NEW m \in Procs, m # n
        PROVE  /\ pc'[m] \in {"s3rank", "active", "open"} => round_done'[round'[m]] = "closed"
               /\ pc'[m] = "active" => m \in Launchers /\ rank'[m] # UNASSIGNED
    BY <2>1, <2>2 DEF Own, SeenClosed, RoundsStay
  <2>3. pc'[n] \in {"s3rank", "active", "open"} =>
          /\ pc[n] \in {"s3rank", "active", "open", "s3done"} /\ round'[n] = round[n]
          /\ pc[n] = "s3done" => round_done[round[n]] = "closed"
          /\ pc'[n] = "active" => pc[n] \in {"s3rank", "active"} /\ rank'[n] # UNASSIGNED
    <3> USE DEF TInv, TypeOK, StoreTypeOK, LocalTypeOK, store, local, Goto
    <3>1. CASE Joining(n)
      <4>1. CASE InitCheck(n) \/ InitSet(n)
        BY <4>1 DEF InitCheck, InitSet, AfterRoundKey
      <4>2. CASE WaitCheckShutdown(n) \/ WaitReadRound(n)
        BY <4>2 DEF WaitCheckShutdown, WaitReadRound, EnterCloseLoop
      <4>3. CASE CountUnhealthy(n) \/ MarkGroupUnhealthy(n) \/ Join(n)
        BY <4>3 DEF CountUnhealthy, MarkGroupUnhealthy, Join
      <4>4. CASE ReadRankKey(n) \/ ReadSlotKey(n)
        BY <4>4 DEF ReadRankKey, ReadSlotKey, FencedRead
      <4>5. CASE WriteRankKey(n) \/ WriteSlotKey(n)
        BY <4>5 DEF WriteRankKey, WriteSlotKey, CasAfter
      <4>6. CASE DoneCheckShutdown(n) \/ DoneReadRound(n)
        BY <4>6 DEF DoneCheckShutdown, DoneReadRound
      <4>7. CASE DoneReadRank(n)
        BY <4>7 DEF DoneReadRank, IsActive
      <4> QED
        BY <3>1, <4>1, <4>2, <4>3, <4>4, <4>5, <4>6, <4>7 DEF Joining
    <3>2. CASE Monitoring(n) \/ Events(n)
      <4>1. CASE OpenNextRound(n) \/ PeerOpenedRound(n) \/ WorkersFailed(n)
        BY <4>1 DEF OpenNextRound, PeerOpenedRound, WorkersFailed
      <4>2. CASE SignalNoRestart(n) \/ SignalCheckNextRound(n)
        BY <4>2 DEF SignalNoRestart, SignalCheckNextRound
      <4>3. CASE LeaveJob(n) \/ JoinTimeout(n) \/ FaultExit(n)
        BY <4>3 DEF LeaveJob, JoinTimeout, FaultExit, ExitWith
      <4>4. CASE ShutdownWorkload(n)
        BY <4>4 DEF ShutdownWorkload
      <4>5. CASE Crash(n)
        BY <4>5 DEF Crash
      <4> QED
        BY <3>2, <4>1, <4>2, <4>3, <4>4, <4>5 DEF Monitoring, Events
    <3>3. CASE n = Host /\ Closing
      <4>1. CASE InitShutdownCheck \/ InitShutdownSet
        BY <3>3, <4>1 DEF InitShutdownCheck, InitShutdownSet
      <4>2. CASE HostCheck \/ HostProbe \/ HostFetch \/ HostDecide \/ HostAssign \/ HostFinish
        BY <3>3, <4>2 DEF HostCheck, HostProbe, HostFetch, HostDecide, HostAssign, HostFinish
      <4> QED
        BY <3>3, <4>1, <4>2 DEF Closing
    <3> QED
      BY <1>2, <3>1, <3>2, <3>3 DEF NextOf
  <2>4. pc[n] \in {"s3rank", "active"} => n \in Launchers
    BY DEF TInv, ControlNeverJoins, SlotHolders, SeenClosed
  <2>5. round_done[round[n]] = "closed" => round_done'[round[n]] = "closed"
    BY <2>1 DEF RoundsStay
  <2>6. /\ pc'[n] \in {"s3rank", "active", "open"} => round_done'[round'[n]] = "closed"
        /\ pc'[n] = "active" => n \in Launchers /\ rank'[n] # UNASSIGNED
    BY <2>3, <2>4, <2>5 DEF SeenClosed
  <2> QED
    BY <2>2, <2>6 DEF SeenClosed
<1> QED
  BY <1>1, <1>2, StepOf

(* Who is through with its round remains so until it goes on to a later one. *)
LEMMA OverStays ==
  ASSUME TInv, TInv', SeenClosed, RoundsStay, [Next]_vars, NEW n \in Procs, Over(n)
  PROVE  (round'[n] = round[n] /\ Over(n)') \/ round'[n] > round[n]
<1>1. /\ round \in [Procs -> Rounds] /\ round' \in [Procs -> Rounds] /\ Rounds \subseteq Int
      /\ round_done[round[n]] = "closed" => round_done'[round[n]] = "closed"
  BY BoundsAssumption DEF TInv, TypeOK, LocalTypeOK, Rounds, RoundsStay
<1>2. CASE UNCHANGED <<store, local, snapshot>>
  BY <1>2 DEF Over, store, local
<1>3. ASSUME NEW m \in Procs, m # n, NextOf(m)
      PROVE  (round'[n] = round[n] /\ Over(n)') \/ round'[n] > round[n]
  BY <1>1, <1>3, OwnSteps DEF Own, Over
<1>4. CASE NextOf(n)
  <2>1. pc[n] = "open" \/ pc[n] = "active" => round_done[round[n]] = "closed"
    BY DEF SeenClosed
  <2>2. \/ round'[n] = round[n] /\ pc'[n] \in {"active", "stop", "stopOpen", "gone", "fault",
                                                "conflict"}
        \/ /\ round'[n] = round[n] /\ pc'[n] \in {"s0", "s0read", "open"}
           /\ round_done[round[n]] = "closed"
        \/ pc[n] = "s0read" /\ Sync(n) /\ round_done[round[n]] = "closed"
    <3> USE DEF TInv, TypeOK, StoreTypeOK, LocalTypeOK, store, local, Goto, Over
    <3>1. CASE Joining(n)
      <4>1. CASE WaitCheckShutdown(n) \/ WaitReadRound(n)
        BY <4>1 DEF WaitCheckShutdown, WaitReadRound
      <4> QED
        BY <3>1, <4>1 DEF Joining, InitCheck, InitSet, CountUnhealthy, MarkGroupUnhealthy, Join,
           ReadRankKey, WriteRankKey, ReadSlotKey, WriteSlotKey, DoneCheckShutdown,
           DoneReadRound, DoneReadRank
    <3>2. CASE Monitoring(n) \/ Events(n)
      <4>1. CASE OpenNextRound(n) \/ PeerOpenedRound(n) \/ WorkersFailed(n)
        BY <2>1, <4>1 DEF OpenNextRound, PeerOpenedRound, WorkersFailed
      <4>2. CASE SignalNoRestart(n) \/ SignalCheckNextRound(n)
        BY <4>2 DEF SignalNoRestart, SignalCheckNextRound
      <4>3. CASE LeaveJob(n) \/ JoinTimeout(n) \/ FaultExit(n)
        BY <4>3 DEF LeaveJob, JoinTimeout, FaultExit, ExitWith
      <4>4. CASE ShutdownWorkload(n)
        BY <4>4 DEF ShutdownWorkload
      <4>5. CASE Crash(n)
        BY <4>5 DEF Crash
      <4> QED
        BY <3>2, <4>1, <4>2, <4>3, <4>4, <4>5 DEF Monitoring, Events
    <3>3. CASE n = Host /\ Closing
      BY <3>3 DEF Closing, InitShutdownCheck, InitShutdownSet, HostCheck, HostProbe, HostFetch,
         HostDecide, HostAssign, HostFinish
    <3> QED
      BY <1>4, <3>1, <3>2, <3>3 DEF NextOf
  <2>3. ASSUME Sync(n), round_done[round[n]] = "closed" PROVE round'[n] > round[n]
    <3>1. PICK N \in Rounds : /\ N >= round[n] /\ round_done[N] # "closed"
                              /\ round' = [round EXCEPT ![n] = N]
      BY <2>3 DEF Sync
    <3>2. N # round[n]
      BY <2>3, <3>1
    <3>3. N \in Int /\ round[n] \in Int /\ round'[n] = N
      BY <1>1, <3>1
    <3> QED
      BY <3>1, <3>2, <3>3
  <2> QED
    BY <1>1, <2>2, <2>3 DEF Over
<1> QED
  BY <1>2, <1>3, <1>4, StepOf

-----------------------------------------------------------------------------
(* Whose keys they are *)

\* A slot's data of its holder's round are the holder's.
OwnKey ==
    \A n \in Procs :
        slot[n] # 0 /\ slot_key[slot[n]].round = round[n] => slot_key[slot[n]].node = n

\* A launcher has data in at most one slot of a round, ...
OneKey ==
    \A j, k \in Slots : j # k /\ slot_key[j].round # -1 => slot_key[j] # slot_key[k]

\* ... of no later round than its own, and once it has given the slot up it is through
\* with the round.
KeysBehind ==
    \A n \in Launchers, k \in Slots :
        slot_key[k].node = n =>
            /\ slot_key[k].round <= round[n]
            /\ slot_key[k].round = round[n] /\ slot[n] # k => Over(n)

\* The rank key of a slot is written before the slot key, ...
RankFirst ==
    \A n \in Procs : pc[n] \in {"slotGet", "slotSet"} => rank_key[slot[n]].round >= round[n]

\* ... so that the data beside an assigned rank are those it was assigned to.
KeysTogether ==
    \A k \in Slots : rank_key[k].rank # UNASSIGNED => slot_key[k].round = rank_key[k].round

\* The invariant of the keys.
KeysInv == SeenClosed /\ OwnKey /\ OneKey /\ KeysBehind /\ RankFirst /\ KeysTogether

(* What a step can do to a slot key. *)
LEMMA SlotKeyWrites ==
  ASSUME TInv, NEW n \in Procs, WriteSlotKey(n)
  PROVE  /\ pc[n] = "slotSet" /\ n \in Launchers /\ slot[n] \in Slots
         /\ UNCHANGED <<round, rank_key>>
         /\ \/ slot_key' = slot_key
            \/ /\ slot_key' = [slot_key EXCEPT ![slot[n]] = MySlot(n)]
               /\ slot_key[slot[n]] \in {expected[n], MySlot(n)}
               /\ slot' = slot
         /\ pc'[n] \notin {"slotGet", "slotSet"}
<1> USE DEF TInv, TypeOK, StoreTypeOK, LocalTypeOK, Goto
<1>1. pc[n] = "slotSet" /\ n \in Launchers /\ slot[n] \in Slots
  BY DEF WriteSlotKey, ControlNeverJoins, SlotWhenJoined, SlotHolders, SlotWriters
<1>2. \/ slot_key' = slot_key
      \/ /\ slot_key' = [slot_key EXCEPT ![slot[n]] = MySlot(n)]
         /\ slot_key[slot[n]] \in {expected[n], MySlot(n)}
         /\ slot' = slot
  BY DEF WriteSlotKey, CasAfter, CasAccepted
<1>3. UNCHANGED <<round, rank_key>> /\ pc'[n] \notin {"slotGet", "slotSet"}
  BY DEF WriteSlotKey, CasAfter
<1> QED
  BY <1>1, <1>2, <1>3

(* ... and to a rank key in the hand of a launcher. *)
LEMMA RankKeyWrites ==
  ASSUME TInv, NEW n \in Procs, WriteRankKey(n)
  PROVE  /\ pc[n] = "rankSet" /\ n \in Launchers /\ slot[n] \in Slots
         /\ UNCHANGED <<round, slot_key>>
         /\ \/ rank_key' = rank_key /\ pc'[n] \notin {"slotGet", "slotSet"}
            \/ /\ rank_key' = [rank_key EXCEPT ![slot[n]] = MyRank(n)]
               /\ rank_key[slot[n]] \in {expected[n], MyRank(n)}
               /\ slot' = slot
<1> USE DEF TInv, TypeOK, StoreTypeOK, LocalTypeOK, Goto
<1>1. pc[n] = "rankSet" /\ n \in Launchers /\ slot[n] \in Slots
  BY DEF WriteRankKey, ControlNeverJoins, SlotWhenJoined, SlotHolders, SlotWriters, RankWriters
<1>2. \/ rank_key' = rank_key /\ pc'[n] \notin {"slotGet", "slotSet"}
      \/ /\ rank_key' = [rank_key EXCEPT ![slot[n]] = MyRank(n)]
         /\ rank_key[slot[n]] \in {expected[n], MyRank(n)}
         /\ slot' = slot
  BY DEF WriteRankKey, CasAfter, CasAccepted
<1>3. UNCHANGED <<round, slot_key>>
  BY DEF WriteRankKey, CasAfter
<1> QED
  BY <1>1, <1>2, <1>3

(* A slot is written by its holder only, and a new one has no data of the round. *)
LEMMA OwnKeyNext ==
  ASSUME TInv, TInv', IInv, OwnKey, NEW n \in Procs, NextOf(n) PROVE OwnKey'
<1> SUFFICES ASSUME NEW p \in Procs, slot'[p] # 0, slot_key'[slot'[p]].round = round'[p]
             PROVE  slot_key'[slot'[p]].node = p
  BY DEF OwnKey
<1>1. /\ slot_key \in [Slots -> SlotValues] /\ slot \in [Procs -> Slots \cup {0}]
      /\ slot' \in [Procs -> Slots \cup {0}] /\ round \in [Procs -> Rounds]
  BY DEF TInv, TypeOK, StoreTypeOK, LocalTypeOK
<1>6. join_count[round[n]] \in Nat /\ round[n] \in Rounds /\ round[n] # -1
  <2>1. join_count \in [Rounds -> 0 .. MaxSlots]
    BY DEF TInv, TypeOK, StoreTypeOK
  <2>2. join_count[round[n]] \in 0 .. MaxSlots /\ round[n] \in Rounds
    BY <1>1, <2>1
  <2>3. Rounds \subseteq Nat
    BY BoundsAssumption DEF Rounds
  <2> QED
    BY <2>2, <2>3, BoundsAssumption
<1>2. CASE slot'[p] = slot[p] /\ round'[p] = round[p]
  <2>1. slot[p] \in Slots /\ slot[p] # 0 /\ p \in Procs
    BY <1>1, <1>2 DEF Slots
  <2>2. CASE slot_key' = slot_key
    BY <1>2, <2>2 DEF OwnKey
  <2>3. ASSUME WriteSlotKey(n), slot_key' = [slot_key EXCEPT ![slot[n]] = MySlot(n)]
        PROVE  slot_key'[slot'[p]].node = p
    <3>1. slot[n] \in Slots
      BY <2>3, SlotKeyWrites
    <3>2. CASE slot[n] # slot[p]
      <4>1. slot_key'[slot[p]] = slot_key[slot[p]]
        BY <1>1, <2>1, <2>3, <3>2
      <4> QED
        BY <4>1, <1>2 DEF OwnKey
    <3>3. CASE slot[n] = slot[p]
      <4>1. slot_key'[slot[p]] = MySlot(n)
        BY <1>1, <2>1, <2>3, <3>3
      <4>2. round[n] = round[p]
        BY <4>1, <1>2 DEF MySlot
      <4>3. n = p
        BY <3>3, <4>2, <2>1 DEF IInv, SlotsApart
      <4> QED
        BY <4>1, <4>3, <1>2 DEF MySlot
    <3> QED
      BY <3>2, <3>3
  <2> QED
    BY <2>2, <2>3, WriterSteps, SlotKeyWrites
<1>3. CASE p = n /\ Join(n)
  <2>1. /\ slot_key' = slot_key /\ slot'[n] = join_count[round[n]] + 1 /\ round'[n] = round[n]
    BY <1>1, <1>3 DEF Join
  <2>2. slot'[n] \in Slots
    BY <1>1, <1>3
  <2>3. slot_key[slot'[n]].round = round[n] /\ round[n] # -1
    BY <1>3, <1>6, <2>1
  <2>4. slot'[n] <= join_count[round[n]]
    BY <2>2, <2>3 DEF IInv, KeysCounted
  <2> QED
    BY <1>6, <2>1, <2>4
<1>4. p # n => slot'[p] = slot[p] /\ round'[p] = round[p]
  BY OwnSteps DEF Own
<1>5. p = n => (slot'[p] = slot[p] /\ round'[p] = round[p]) \/ Join(n)
  BY SlotSteps
<1> QED
  BY <1>2, <1>3, <1>4, <1>5

(* Who writes its data is not through with its round, hence has none in it yet. *)
LEMMA OneKeyNext ==
  ASSUME TInv, OneKey, KeysBehind, NEW n \in Procs, NextOf(n) PROVE OneKey'
<1>1. slot_key \in [Slots -> SlotValues]
  BY DEF TInv, TypeOK, StoreTypeOK
<1>2. CASE slot_key' = slot_key
  BY <1>2 DEF OneKey
<1>3. ASSUME WriteSlotKey(n), slot_key' = [slot_key EXCEPT ![slot[n]] = MySlot(n)]
      PROVE  OneKey'
  <2>1. pc[n] = "slotSet" /\ n \in Launchers /\ slot[n] \in Slots
    BY <1>3, SlotKeyWrites
  <2>2. ~Over(n)
    BY <2>1 DEF Over
  <2>3. ASSUME NEW k \in Slots, k # slot[n], slot_key[k] = MySlot(n) PROVE FALSE
    BY <2>1, <2>2, <2>3 DEF KeysBehind, MySlot
  <2>4. \A k \in Slots : slot_key'[k] = IF k = slot[n] THEN MySlot(n) ELSE slot_key[k]
    BY <1>1, <1>3
  <2> QED
    BY <2>3, <2>4 DEF OneKey
<1> QED
  BY <1>2, <1>3, WriterSteps, SlotKeyWrites

(* A launcher gives up a slot it has written only when it is through with the round. *)
LEMMA GivesUpSlot ==
  ASSUME TInv, TInv', IInv, SeenClosed, RoundsStay, NEW n \in Procs, NextOf(n),
         slot[n] # 0, slot'[n] # slot[n], slot_key[slot[n]].round = round[n], round'[n] = round[n]
  PROVE  Over(n)'
<1> USE DEF TInv, TypeOK, StoreTypeOK, LocalTypeOK, store, local, Goto
<1>1. pc[n] \notin SlotWriters
  BY DEF IInv, Unwritten
<1>2. pc[n] \in {"s3rank", "active", "open"} => round_done'[round'[n]] = "closed"
  BY DEF SeenClosed, RoundsStay
<1>3. CASE Joining(n)
  <2>1. CASE DoneReadRank(n)
    BY <1>2, <2>1 DEF DoneReadRank, Over
  <2>2. CASE Join(n)
    BY <2>2 DEF Join, SlotWhenJoined, NoSlotYet
  <2>3. CASE ReadRankKey(n) \/ WriteRankKey(n) \/ ReadSlotKey(n) \/ WriteSlotKey(n)
    BY <1>1, <2>3 DEF ReadRankKey, WriteRankKey, ReadSlotKey, WriteSlotKey, SlotWriters, RankWriters
  <2> QED
    BY <1>3, <2>1, <2>2, <2>3
       DEF Joining, InitCheck, InitSet, AfterRoundKey, WaitCheckShutdown, WaitReadRound,
           CountUnhealthy, MarkGroupUnhealthy, DoneCheckShutdown, DoneReadRound
<1>4. CASE Monitoring(n) \/ Events(n)
  <2>1. CASE OpenNextRound(n) \/ PeerOpenedRound(n) \/ WorkersFailed(n)
    BY <1>2, <2>1 DEF OpenNextRound, PeerOpenedRound, WorkersFailed, Over
  <2>2. CASE SignalNoRestart(n) \/ SignalCheckNextRound(n)
    BY <2>2 DEF SignalNoRestart, SignalCheckNextRound, Over
  <2>3. CASE LeaveJob(n) \/ JoinTimeout(n) \/ FaultExit(n)
    BY <2>3 DEF LeaveJob, JoinTimeout, FaultExit, ExitWith, Over
  <2>4. CASE ShutdownWorkload(n)
    BY <2>4 DEF ShutdownWorkload
  <2>5. CASE Crash(n)
    BY <2>5 DEF Crash, Over
  <2> QED
    BY <1>4, <2>1, <2>2, <2>3, <2>4, <2>5 DEF Monitoring, Events
<1>5. CASE n = Host /\ Closing
  BY <1>5 DEF Closing, InitShutdownCheck, InitShutdownSet, HostCheck, HostProbe, HostFetch,
     HostDecide, HostAssign, HostFinish
<1> QED
  BY <1>3, <1>4, <1>5 DEF NextOf

(* A launcher that gives up its slot is through with its round; it comes back in a
   later one, and writes no key before it has a slot again. *)
LEMMA KeysBehindNext ==
  ASSUME TInv, TInv', IInv, SeenClosed, RoundsStay, KeysBehind, NEW n \in Procs, NextOf(n)
  PROVE  KeysBehind'
<1> SUFFICES ASSUME NEW p \in Launchers, NEW k \in Slots, slot_key'[k].node = p
             PROVE  /\ slot_key'[k].round <= round'[p]
                    /\ slot_key'[k].round = round'[p] /\ slot'[p] # k => Over(p)'
  BY DEF KeysBehind
<1>1. /\ slot_key \in [Slots -> SlotValues] /\ round \in [Procs -> Rounds]
      /\ p \in Procs
  BY DEF TInv, TypeOK, StoreTypeOK, LocalTypeOK, Procs
<1>6. k # 0 /\ Rounds \cup {-1} \subseteq Int
  BY BoundsAssumption DEF Rounds, Slots
<1>2. slot_key[k].round \in Int /\ round[p] \in Int /\ round'[p] \in Int
  <2>1. slot_key[k].round \in Rounds \cup {-1}
    BY <1>1 DEF SlotValues
  <2>2. round' \in [Procs -> Rounds]
    BY DEF TInv, TypeOK, LocalTypeOK
  <2> QED
    BY <1>1, <1>6, <2>1, <2>2
<1>3. round[p] <= round'[p]
  <2>1. CASE p = n
    BY <2>1, SlotSteps
  <2>2. CASE p # n
    <3>1. round'[p] = round[p]
      BY <1>1, <2>2, OwnSteps DEF Own
    <3> QED
      BY <1>2, <3>1
  <2> QED
    BY <2>1, <2>2
<1>4. CASE slot_key'[k] = slot_key[k]
  <2>1. slot_key[k].node = p
    BY <1>4
  <2>2. slot_key[k].round <= round[p]
    BY <2>1 DEF KeysBehind
  <2>3. slot_key'[k].round <= round'[p]
    BY <1>2, <1>3, <1>4, <2>2
  <2>4. ASSUME slot_key'[k].round = round'[p], slot'[p] # k PROVE Over(p)'
    <3>1. slot_key[k].round = round[p] /\ round'[p] = round[p]
      BY <1>2, <1>3, <1>4, <2>2, <2>4
    <3>2. CASE slot[p] # k
      <4>1. Over(p)
        BY <2>1, <3>1, <3>2 DEF KeysBehind
      <4>2. [Next]_vars
        BY DEF Next, NextOf
      <4>3. (round'[p] = round[p] /\ Over(p)') \/ round'[p] > round[p]
        BY <1>1, <4>1, <4>2, OverStays
      <4> QED
        BY <3>1, <4>3, <1>2
    <3>3. CASE slot[p] = k
      <4>1. p = n
        BY <1>1, <2>4, <3>3, OwnSteps DEF Own
      <4> QED
        BY <1>1, <1>6, <2>4, <3>1, <3>3, <4>1, GivesUpSlot
    <3> QED
      BY <3>2, <3>3
  <2> QED
    BY <2>3, <2>4
<1>5. CASE slot_key'[k] # slot_key[k]
  <2>1. /\ WriteSlotKey(n) /\ UNCHANGED round
        /\ slot_key' = [slot_key EXCEPT ![slot[n]] = MySlot(n)] /\ slot' = slot
    BY <1>5, WriterSteps, SlotKeyWrites
  <2>2. k = slot[n] /\ slot_key'[k] = MySlot(n)
    BY <1>1, <1>5, <2>1
  <2>3. p = n
    BY <2>2 DEF MySlot
  <2> QED
    BY <1>2, <2>1, <2>2, <2>3 DEF MySlot
<1> QED
  BY <1>4, <1>5

(* A launcher comes to its slot key by writing its rank key. *)
LEMMA RankFirstNext ==
  ASSUME TInv, TInv', IInv, StayInv, RankFirst, NEW n \in Procs, NextOf(n)
  PROVE  RankFirst'
<1> SUFFICES ASSUME NEW p \in Procs, pc'[p] \in {"slotGet", "slotSet"}
             PROVE  rank_key'[slot'[p]].round >= round'[p]
  BY DEF RankFirst
<1>1. [Next]_vars
  BY DEF Next, NextOf
<1>2. slot'[p] \in Slots
  <2>1. slot' \in [Procs -> Slots \cup {0}] /\ (pc'[p] \in SlotHolders => slot'[p] # 0)
    BY DEF TInv, TypeOK, LocalTypeOK, SlotWhenJoined
  <2> QED
    BY <2>1 DEF SlotHolders, SlotWriters
<1>3. /\ rank_key[slot'[p]].round \in Int /\ rank_key'[slot'[p]].round \in Int
      /\ round'[p] \in Int
  <2>1. /\ rank_key[slot'[p]] \in RankValues /\ rank_key'[slot'[p]] \in RankValues
        /\ round'[p] \in Rounds
    BY <1>2 DEF TInv, TypeOK, StoreTypeOK, LocalTypeOK
  <2>2. Rounds \cup {-1} \subseteq Int
    BY BoundsAssumption DEF Rounds
  <2> QED
    BY <2>1, <2>2 DEF RankValues
<1>4. ASSUME pc[p] \in {"slotGet", "slotSet"}, slot'[p] = slot[p], round'[p] = round[p]
      PROVE  rank_key'[slot'[p]].round >= round'[p]
  <2>1. rank_key[slot'[p]].round >= round'[p]
    BY <1>4 DEF RankFirst
  <2>2. rank_key'[slot'[p]].round >= rank_key[slot'[p]].round
    BY <1>1, <1>2, KeysNeverFall
  <2> QED
    BY <1>3, <2>1, <2>2
<1>5. CASE p # n
  BY <1>4, <1>5, OwnSteps DEF Own
<1>6. CASE p = n
  <2> USE DEF TInv, TypeOK, StoreTypeOK, LocalTypeOK, store, local, Goto
  <2>1. CASE Joining(n)
    <3>1. CASE WriteRankKey(n)
      <4>1. /\ rank_key' = [rank_key EXCEPT ![slot[n]] = MyRank(n)] /\ slot' = slot
            /\ round' = round
        BY <1>6, <3>1, RankKeyWrites
      <4>2. rank_key'[slot'[p]] = MyRank(n)
        BY <1>2, <1>6, <4>1
      <4>3. rank_key'[slot'[p]].round = round'[p]
        BY <1>6, <4>1, <4>2 DEF MyRank
      <4> QED
        BY <1>3, <4>3
    <3>2. CASE ReadSlotKey(n)
      <4>1. pc[n] = "slotGet" /\ slot'[n] = slot[n] /\ round'[n] = round[n]
        BY <1>6, <3>2 DEF ReadSlotKey, FencedRead
      <4> QED
        BY <1>4, <1>6, <4>1
    <3>3. CASE ReadRankKey(n) \/ WriteSlotKey(n)
      BY <1>6, <3>3 DEF ReadRankKey, FencedRead, WriteSlotKey, CasAfter
    <3>4. CASE InitCheck(n) \/ InitSet(n) \/ WaitCheckShutdown(n) \/ WaitReadRound(n)
      BY <1>6, <3>4 DEF InitCheck, InitSet, AfterRoundKey, WaitCheckShutdown, WaitReadRound,
         EnterCloseLoop
    <3>5. CASE CountUnhealthy(n) \/ MarkGroupUnhealthy(n) \/ Join(n)
      BY <1>6, <3>5 DEF CountUnhealthy, MarkGroupUnhealthy, Join
    <3>6. CASE DoneCheckShutdown(n) \/ DoneReadRound(n) \/ DoneReadRank(n)
      BY <1>6, <3>6 DEF DoneCheckShutdown, DoneReadRound, DoneReadRank
    <3> QED
      BY <2>1, <3>1, <3>2, <3>3, <3>4, <3>5, <3>6 DEF Joining
  <2>2. CASE Monitoring(n) \/ Events(n)
    <3>1. CASE OpenNextRound(n) \/ PeerOpenedRound(n) \/ WorkersFailed(n)
      BY <1>6, <3>1 DEF OpenNextRound, PeerOpenedRound, WorkersFailed
    <3>2. CASE SignalNoRestart(n) \/ SignalCheckNextRound(n)
      BY <1>6, <3>2 DEF SignalNoRestart, SignalCheckNextRound
    <3>3. CASE LeaveJob(n) \/ JoinTimeout(n) \/ FaultExit(n)
      BY <1>6, <3>3 DEF LeaveJob, JoinTimeout, FaultExit, ExitWith
    <3>4. CASE ShutdownWorkload(n)
      BY <1>6, <3>4 DEF ShutdownWorkload
    <3>5. CASE Crash(n)
      BY <1>6, <3>5 DEF Crash
    <3> QED
      BY <2>2, <3>1, <3>2, <3>3, <3>4, <3>5 DEF Monitoring, Events
  <2>3. CASE n = Host /\ Closing
    <3>1. CASE InitShutdownCheck \/ InitShutdownSet
      BY <1>6, <2>3, <3>1 DEF InitShutdownCheck, InitShutdownSet
    <3>2. CASE HostCheck \/ HostProbe \/ HostFetch \/ HostDecide \/ HostAssign \/ HostFinish
      BY <1>6, <2>3, <3>2 DEF HostCheck, HostProbe, HostFetch, HostDecide, HostAssign, HostFinish
    <3> QED
      BY <2>3, <3>1, <3>2 DEF Closing
  <2> QED
    BY <2>1, <2>2, <2>3 DEF NextOf
<1> QED
  BY <1>5, <1>6

(* The host ranks slots whose two keys are written; who writes in a later round starts
   with the rank key, and with no rank in it. *)
LEMMA KeysTogetherNext ==
  ASSUME TInv, IInv, StayInv, RankFirst, KeysTogether, NEW n \in Procs, NextOf(n)
  PROVE  KeysTogether'
<1> SUFFICES ASSUME NEW k \in Slots, rank_key'[k].rank # UNASSIGNED
             PROVE  slot_key'[k].round = rank_key'[k].round
  BY DEF KeysTogether
<1>1. slot_key \in [Slots -> SlotValues] /\ rank_key \in [Slots -> RankValues]
  BY DEF TInv, TypeOK, StoreTypeOK
<1>2. CASE slot_key' = slot_key /\ rank_key' = rank_key
  BY <1>2 DEF KeysTogether
<1>3. ASSUME WriteSlotKey(n), slot_key' # slot_key PROVE slot_key'[k].round = rank_key'[k].round
  <2>1. /\ pc[n] = "slotSet" /\ UNCHANGED rank_key
        /\ slot_key' = [slot_key EXCEPT ![slot[n]] = MySlot(n)]
        /\ slot_key[slot[n]] \in {expected[n], MySlot(n)}
    BY <1>3, SlotKeyWrites
  <2>2. slot_key[k].round = rank_key[k].round
    BY <2>1 DEF KeysTogether
  <2>3. CASE k # slot[n]
    BY <1>1, <2>1, <2>2, <2>3
  <2>4. CASE k = slot[n]
    <3>1. slot_key'[k].round = round[n]
      BY <1>1, <2>1, <2>4 DEF MySlot
    <3>2. round[n] \in Int /\ slot_key[k].round \in Int
      <4>1. round \in [Procs -> Rounds] /\ slot_key[k].round \in Rounds \cup {-1}
        BY <1>1 DEF TInv, TypeOK, LocalTypeOK, SlotValues
      <4>2. Rounds \cup {-1} \subseteq Int
        BY BoundsAssumption DEF Rounds
      <4> QED
        BY <4>1, <4>2
    <3>3. rank_key[k].round >= round[n]
      BY <2>1, <2>4 DEF RankFirst
    <3>4. expected[n].round <= round[n]
      BY <2>1 DEF IInv, ExpectedNotNewer
    <3>5. slot_key[k].round <= round[n]
      BY <2>1, <2>4, <3>2, <3>4 DEF MySlot
    <3> QED
      BY <2>1, <2>2, <3>1, <3>2, <3>3, <3>5
  <2> QED
    BY <2>3, <2>4
<1>4. ASSUME WriteRankKey(n), rank_key' # rank_key PROVE slot_key'[k].round = rank_key'[k].round
  <2>1. /\ rank_key' = [rank_key EXCEPT ![slot[n]] = MyRank(n)] /\ UNCHANGED slot_key
    BY <1>4, RankKeyWrites
  <2>2. k # slot[n]
    BY <1>1, <2>1 DEF MyRank
  <2> QED
    BY <1>1, <2>1, <2>2 DEF KeysTogether
<1>5. ASSUME HostAssign PROVE slot_key'[k].round = rank_key'[k].round
  <2>1. pc[Host] = "assign" /\ UNCHANGED slot_key
    BY <1>5 DEF HostAssign
  <2>2. \/ rank_key'[k] = rank_key[k]
        \/ snapshot[k] # NoNode /\ rank_key'[k].round = round[Host]
    BY <1>5 DEF HostAssign, RanksWritten
  <2>3. snapshot[k] # NoNode => slot_key[k].round = round[Host]
    <3>1. snapshot[k] # NoNode => slot_key[k] = [round |-> round[Host], node |-> snapshot[k]]
      BY <2>1 DEF StayInv, SnapshotIsWritten
    <3> QED
      BY <3>1
  <2> QED
    BY <2>1, <2>2, <2>3 DEF KeysTogether
<1>6. UNCHANGED <<slot_key, rank_key>> \/ WriteSlotKey(n) \/ WriteRankKey(n) \/ HostAssign
  BY WriterSteps DEF WriteSlotKey, WriteRankKey
<1>7. WriteSlotKey(n) => rank_key' = rank_key
  BY SlotKeyWrites
<1>8. WriteRankKey(n) => slot_key' = slot_key
  BY RankKeyWrites
<1> QED
  BY <1>2, <1>3, <1>4, <1>5, <1>6, <1>7, <1>8

(* The keys stay so through every step. *)
LEMMA KeysInvNext ==
  ASSUME TInv, TInv', IInv, StayInv, RoundsStay, KeysInv, [Next]_vars PROVE KeysInv'
<1>1. CASE UNCHANGED <<store, local, snapshot>>
  <2>1. /\ UNCHANGED <<round_done, slot_key, rank_key>>
        /\ UNCHANGED <<pc, round, slot, rank>>
    BY <1>1 DEF store, local
  <2>2. SeenClosed' /\ OwnKey' /\ OneKey'
    BY <2>1 DEF KeysInv, SeenClosed, OwnKey, OneKey
  <2>3. KeysBehind'
    BY <2>1 DEF KeysInv, KeysBehind, Over
  <2>4. RankFirst' /\ KeysTogether'
    BY <2>1 DEF KeysInv, RankFirst, KeysTogether
  <2> QED
    BY <2>2, <2>3, <2>4 DEF KeysInv
<1>2. ASSUME NEW n \in Procs, NextOf(n) PROVE KeysInv'
  BY <1>2, SeenClosedNext, OwnKeyNext, OneKeyNext, KeysBehindNext, RankFirstNext, KeysTogetherNext
     DEF KeysInv
<1> QED
  BY <1>1, <1>2, StepOf

-----------------------------------------------------------------------------
(* The world of a round *)

\* The host assigns ranks only to participants that can fill the world, ...
Assignable ==
    pc[Host] = "assign" =>
        CanMeetSegmentConstraint(CompleteParticipants(CurrentParticipants, HostGroupSize), MinNodes)

\* ... and when it closes the round, the slots of its snapshot, and no others of this
\* round, have ranks, each active one once.
Assigned ==
    pc[Host] = "finish" =>
        /\ \A k \in Slots : snapshot[k] # NoNode =>
              rank_key[k].round = round[Host] /\ rank_key[k].rank \in Nat
        /\ \A k \in Slots : rank_key[k].round = round[Host] /\ rank_key[k].rank # UNASSIGNED =>
              snapshot[k] # NoNode
        /\ \A j, k \in Slots :
              /\ snapshot[j] # NoNode /\ snapshot[k] # NoNode /\ j # k
              /\ rank_key[j].rank < MinNodes /\ rank_key[k].rank < MinNodes
              => rank_key[j].rank # rank_key[k].rank
        /\ \A i \in 0 .. MinNodes - 1 :
              \E k \in Slots : snapshot[k] # NoNode /\ rank_key[k].rank = i

(* The host comes to its assignment from its decision, and from there to the end. *)
LEMMA HostArrives ==
  ASSUME TInv, [Next]_vars, pc'[Host] \in {"assign", "finish"}
  PROVE  \/ pc[Host] = pc'[Host] /\ snapshot' = snapshot /\ round'[Host] = round[Host]
         \/ pc'[Host] = "assign" /\ HostDecide
         \/ pc'[Host] = "finish" /\ HostAssign
<1> USE DEF TInv, TypeOK, LocalTypeOK, store, local, host, Goto
<1>1. Host \in Procs
  BY DEF Procs
<1>2. CASE UNCHANGED vars \/ LastCallExpires
  BY <1>2 DEF vars, LastCallExpires
<1>3. CASE Closing
  <2>1. CASE InitShutdownCheck \/ InitShutdownSet
    BY <1>1, <2>1 DEF InitShutdownCheck, InitShutdownSet
  <2>2. CASE HostCheck \/ HostProbe \/ HostFetch \/ HostFinish
    BY <1>1, <2>2 DEF HostCheck, HostProbe, HostFetch, HostFinish
  <2>3. CASE HostDecide
    BY <1>1, <2>3 DEF HostDecide
  <2>4. CASE HostAssign
    BY <1>1, <2>4 DEF HostAssign
  <2> QED
    BY <1>3, <2>1, <2>2, <2>3, <2>4 DEF Closing
<1>4. ASSUME NEW n \in Procs, Joining(n) PROVE pc[Host] = pc'[Host] /\ snapshot' = snapshot /\ round'[Host] = round[Host]
  <2>1. CASE InitCheck(n) \/ InitSet(n)
    BY <1>1, <2>1 DEF InitCheck, InitSet, AfterRoundKey, Sync
  <2>2. CASE WaitCheckShutdown(n) \/ WaitReadRound(n)
    BY <1>1, <2>2 DEF WaitCheckShutdown, WaitReadRound, EnterCloseLoop, Sync
  <2>3. CASE CountUnhealthy(n) \/ MarkGroupUnhealthy(n) \/ Join(n)
    BY <1>1, <2>3 DEF CountUnhealthy, MarkGroupUnhealthy, Join
  <2>4. CASE ReadRankKey(n) \/ ReadSlotKey(n)
    BY <1>1, <2>4 DEF ReadRankKey, ReadSlotKey, FencedRead
  <2>5. CASE WriteRankKey(n) \/ WriteSlotKey(n)
    BY <1>1, <2>5 DEF WriteRankKey, WriteSlotKey, CasAfter
  <2>6. CASE DoneCheckShutdown(n) \/ DoneReadRound(n) \/ DoneReadRank(n)
    BY <1>1, <2>6 DEF DoneCheckShutdown, DoneReadRound, DoneReadRank
  <2> QED
    BY <1>4, <2>1, <2>2, <2>3, <2>4, <2>5, <2>6 DEF Joining
<1>5. ASSUME NEW n \in Procs, Monitoring(n) \/ Events(n)
      PROVE  pc[Host] = pc'[Host] /\ snapshot' = snapshot /\ round'[Host] = round[Host]
  <2>1. CASE OpenNextRound(n) \/ PeerOpenedRound(n) \/ WorkersFailed(n)
    BY <1>1, <2>1 DEF OpenNextRound, PeerOpenedRound, WorkersFailed
  <2>2. CASE SignalNoRestart(n) \/ SignalCheckNextRound(n)
    BY <1>1, <2>2 DEF SignalNoRestart, SignalCheckNextRound
  <2>3. CASE LeaveJob(n) \/ JoinTimeout(n) \/ FaultExit(n)
    BY <1>1, <2>3 DEF LeaveJob, JoinTimeout, FaultExit, ExitWith
  <2>4. CASE ShutdownWorkload(n)
    BY <2>4 DEF ShutdownWorkload
  <2>5. CASE Crash(n)
    BY <1>1, <2>5 DEF Crash
  <2> QED
    BY <1>5, <2>1, <2>2, <2>3, <2>4, <2>5 DEF Monitoring, Events
<1> QED
  BY <1>2, <1>3, <1>4, <1>5 DEF Next

(* The snapshot after the decision consists of the healthy participants. *)
LEMMA AssignableNext == 
  ASSUME TInv, Assignable, [Next]_vars PROVE Assignable'
<1> SUFFICES ASSUME pc'[Host] = "assign"
             PROVE  CanMeetSegmentConstraint(
                        CompleteParticipants(CurrentParticipants', HostGroupSize), MinNodes)
  BY DEF Assignable
<1>1. CASE pc[Host] = pc'[Host] /\ snapshot' = snapshot
  <2>1. CurrentParticipants' = CurrentParticipants
    BY <1>1 DEF CurrentParticipants
  <2> QED
    BY <1>1, <2>1 DEF Assignable
<1>2. CASE HostDecide
  <2>1. /\ CanMeetSegmentConstraint(CompleteParticipants(HealthyParticipants, HostGroupSize), MinNodes)
        /\ snapshot' = [k \in Slots |->
                IF snapshot[k] # NoNode /\ Desc(snapshot[k]) \in HealthyParticipants
                THEN snapshot[k] ELSE NoNode]
    BY <1>2 DEF HostDecide, Goto, TInv, TypeOK, LocalTypeOK, Procs
  <2>2. CurrentParticipants' = HealthyParticipants
    <3>1. ASSUME NEW p \in HealthyParticipants PROVE p \in CurrentParticipants'
      <4>1. PICK n \in {snapshot[k] : k \in Slots} \ {NoNode} : p = Desc(n)
        BY DEF HealthyParticipants, CurrentParticipants
      <4>2. PICK k \in Slots : n = snapshot[k]
        BY <4>1
      <4>3. snapshot'[k] = n
        BY <2>1, <3>1, <4>1, <4>2
      <4>4. n \in {snapshot'[i] : i \in Slots} \ {NoNode}
        BY <4>1, <4>3
      <4>5. CurrentParticipants' = {Desc(m) : m \in {snapshot'[i] : i \in Slots} \ {NoNode}}
        BY DEF CurrentParticipants, Desc
      <4> QED
        BY <4>1, <4>4, <4>5
    <3>2. ASSUME NEW p \in CurrentParticipants' PROVE p \in HealthyParticipants
      <4>1. CurrentParticipants' = {Desc(m) : m \in {snapshot'[i] : i \in Slots} \ {NoNode}}
        BY DEF CurrentParticipants, Desc
      <4>2. PICK n \in {snapshot'[i] : i \in Slots} \ {NoNode} : p = Desc(n)
        BY <4>1
      <4>3. PICK k \in Slots : n = snapshot'[k]
        BY <4>2
      <4> QED
        BY <2>1, <4>2, <4>3
    <3> QED
      BY <3>1, <3>2
  <2> QED
    BY <2>1, <2>2
<1> QED
  BY <1>1, <1>2, HostArrives

(* The participants of a snapshot can be ranked, unless two have one infrastructure rank. *)
LEMMA ParticipantsAreRankable ==
  ASSUME TInv, ~DuplicateInfra(CurrentParticipants) PROVE Rankable(CurrentParticipants)
<1>1. \A p \in CurrentParticipants : \E n \in Launchers : p = Desc(n)
  <2> SUFFICES ASSUME NEW p \in CurrentParticipants PROVE \E n \in Launchers : p = Desc(n)
    OBVIOUS
  <2>1. PICK k \in Slots : snapshot[k] # NoNode /\ p = Desc(snapshot[k])
    BY DEF CurrentParticipants
  <2>2. snapshot[k] \in Launchers
    BY <2>1 DEF TInv, TypeOK, HostTypeOK
  <2> QED
    BY <2>1, <2>2
<1>2. \A n \in Launchers : n \in Int /\ Infra[n] \in Int
  BY LaunchersAssumption, AttributesAssumption
<1>3. \A p \in CurrentParticipants : p.node \in Int /\ p.infra \in Int
  <2> SUFFICES ASSUME NEW p \in CurrentParticipants PROVE p.node \in Int /\ p.infra \in Int
    OBVIOUS
  <2>1. PICK n \in Launchers : p = Desc(n)
    BY <1>1
  <2>2. p.node = n /\ p.infra = Infra[n]
    BY <2>1 DEF Desc
  <2> QED
    BY <1>2, <2>2
<1>4. \A p, q \in CurrentParticipants : p # q => p.node # q.node
  <2> SUFFICES ASSUME NEW p \in CurrentParticipants, NEW q \in CurrentParticipants,
                      p.node = q.node
               PROVE  p = q
    OBVIOUS
  <2>1. PICK m \in Launchers : p = Desc(m)
    BY <1>1
  <2>2. PICK n \in Launchers : q = Desc(n)
    BY <1>1
  <2>3. p.node = m /\ q.node = n
    BY <2>1, <2>2 DEF Desc
  <2> QED
    BY <2>1, <2>2, <2>3
<1> QED
  BY <1>3, <1>4, FiniteParticipants DEF Rankable

(* The ranks the host writes are those of the world. *)
LEMMA AssignmentIsWorld ==
  ASSUME TInv, StayInv, OneKey, Assignable, HostAssign, pc'[Host] = "finish"
  PROVE  Assigned'
<1> DEFINE A == CompleteParticipants(CurrentParticipants, HostGroupSize)
           S == IncompleteParticipants(CurrentParticipants, HostGroupSize)
           ranks == AssignGroupRanks(A, S, MinNodes)
<1>1. /\ Host \in Procs /\ pc[Host] = "assign"
      /\ UNCHANGED <<round_done, slot_key, snapshot, round>>
      /\ pc \in [Procs -> Labels]
  BY DEF HostAssign, Procs, TInv, TypeOK, LocalTypeOK
<1>2. A \cup S = CurrentParticipants /\ A \subseteq CurrentParticipants
  BY DEF CompleteParticipants, IncompleteParticipants
<1>3. ~DuplicateInfra(A \cup S) /\ rank_key' = RanksWritten(ranks)
  BY <1>1 DEF HostAssign, Goto
<1>4. FillsTheWorld(A, S, ranks, MinNodes)
  <2>1. Rankable(A \cup S)
    BY <1>2, <1>3, ParticipantsAreRankable
  <2>2. CanMeetSegmentConstraint(A, MinNodes)
    BY <1>1 DEF Assignable
  <2>3. MinNodes \in Nat /\ MinNodes % SegmentLen = 0
    BY NodesAssumption, SegmentsAssumption
  <2> HIDE DEF A, S
  <2> QED
    BY <2>1, <2>2, <2>3, RanksFillTheWorld
<1>5. DOMAIN ranks = A \cup S
  BY DEF AssignGroupRanks
<1> HIDE DEF A, S, ranks
<1>6. ASSUME NEW k \in Slots, snapshot[k] # NoNode
      PROVE  /\ Desc(snapshot[k]) \in A \cup S
             /\ rank_key'[k].round = round[Host]
             /\ rank_key'[k].rank = ranks[Desc(snapshot[k])]
  <2>1. Desc(snapshot[k]) \in CurrentParticipants
    BY <1>6 DEF CurrentParticipants
  <2>2. Desc(snapshot[k]) \in DOMAIN ranks /\ Desc(snapshot[k]) \in A \cup S
    BY <1>2, <1>5, <2>1
  <2>3. rank_key'[k] = [round |-> round[Host], rank |-> ranks[Desc(snapshot[k])]]
    BY <1>3, <1>6, <2>2 DEF RanksWritten
  <2> QED
    BY <2>2, <2>3
<1>7. ASSUME NEW k \in Slots, snapshot[k] # NoNode
      PROVE  rank_key'[k].round = round[Host] /\ rank_key'[k].rank \in Nat
  <2>1. ranks[Desc(snapshot[k])] \in Nat
    BY <1>4, <1>6, <1>7 DEF FillsTheWorld
  <2> QED
    BY <1>6, <1>7, <2>1
<1>8. ASSUME NEW k \in Slots, snapshot[k] = NoNode, rank_key'[k].round = round[Host],
             rank_key'[k].rank # UNASSIGNED
      PROVE  FALSE
  <2>1. rank_key'[k] = rank_key[k]
    BY <1>3, <1>8 DEF RanksWritten
  <2>2. round_done[round[Host]] # "closed"
    BY <1>1 DEF StayInv, HostLeads, HostBusy, HostLabels
  <2> QED
    BY <1>1, <1>8, <2>1, <2>2 DEF StayInv, RanksOfClosed
<1>9. ASSUME NEW j \in Slots, NEW k \in Slots, j # k,
             snapshot[j] # NoNode, snapshot[k] # NoNode,
             rank_key'[j].rank < MinNodes, rank_key'[k].rank < MinNodes
      PROVE  rank_key'[j].rank # rank_key'[k].rank
  <2>1. /\ slot_key[j] = [round |-> round[Host], node |-> snapshot[j]]
        /\ slot_key[k] = [round |-> round[Host], node |-> snapshot[k]]
    BY <1>1, <1>9 DEF StayInv, SnapshotIsWritten
  <2>2. round[Host] # -1
    <3>1. round[Host] \in Rounds
      BY <1>1 DEF TInv, TypeOK, LocalTypeOK
    <3> QED
      BY <3>1, BoundsAssumption DEF Rounds
  <2>3. snapshot[j] # snapshot[k]
    BY <1>9, <2>1, <2>2 DEF OneKey
  <2>4. Desc(snapshot[j]) # Desc(snapshot[k])
    BY <2>3 DEF Desc
  <2> QED
    BY <1>4, <1>6, <1>9, <2>4 DEF FillsTheWorld
<1>10. ASSUME NEW i \in 0 .. MinNodes - 1
       PROVE  \E k \in Slots : snapshot[k] # NoNode /\ rank_key'[k].rank = i
  <2>1. PICK p \in A : ranks[p] = i
    <3>1. i \in Nat /\ i < MinNodes
      BY NodesAssumption
    <3> QED
      BY <1>4, <3>1 DEF FillsTheWorld
  <2>2. PICK k \in Slots : snapshot[k] # NoNode /\ p = Desc(snapshot[k])
    BY <1>2, <2>1 DEF CurrentParticipants
  <2> QED
    BY <1>6, <2>1, <2>2
<1> QED
  BY <1>1, <1>7, <1>8, <1>9, <1>10 DEF Assigned

(* A compare_set of a rank key of the snapshot fails until the round is closed. *)
LEMMA AssignedNext ==
  ASSUME TInv, IInv, StayInv, OneKey, Assignable, Assigned, [Next]_vars PROVE Assigned'
<1> SUFFICES ASSUME pc'[Host] = "finish" PROVE Assigned'
  BY DEF Assigned
<1>1. CASE HostAssign
  BY <1>1, AssignmentIsWorld
<1>2. CASE pc[Host] = "finish" /\ snapshot' = snapshot /\ round'[Host] = round[Host]
  <2>1. KeyStep
    BY KeySteps
  <2>2. Reach = round[Host] /\ round[Host] \in Int /\ \A n \in Procs : round[n] \in Int /\ round[n] <= Reach
    <3>1. round_done[round[Host]] # "closed" /\ \A n \in Procs : round[n] <= Reach
      BY <1>2 DEF StayInv, HostLeads, HostBusy, HostLabels
    <3>2. Host \in Procs /\ round \in [Procs -> Rounds] /\ Rounds \subseteq Int
      BY BoundsAssumption DEF Procs, Rounds, TInv, TypeOK, LocalTypeOK
    <3>3. round[Host] \in Int /\ \A n \in Procs : round[n] \in Int
      BY <3>2
    <3>4. Reach = round[Host]
      BY <3>1, <3>3 DEF Reach
    <3> QED
      BY <3>1, <3>3, <3>4
  <2>3. ASSUME NEW k \in Slots
        PROVE  rank_key'[k] = rank_key[k] \/ (snapshot[k] = NoNode /\ rank_key'[k].rank = UNASSIGNED)
    <3>1. ASSUME NEW n \in Procs, pc[n] = "rankSet", slot[n] = k, rank_key'[k] = MyRank(n),
                 rank_key[k] \in {expected[n], MyRank(n)}, snapshot[k] # NoNode
          PROVE  FALSE
      <4>1. rank_key[k].round = round[Host]
        BY <1>2, <3>1 DEF Assigned
      <4>2. rank_key[k].round <= round[n]
        <5>1. expected[n].round <= round[n]
          BY <3>1 DEF IInv, ExpectedNotNewer
        <5> QED
          BY <2>2, <3>1, <5>1 DEF MyRank
      <4>3. round[n] = round[Host]
        BY <2>2, <4>1, <4>2
      <4> QED
        BY <3>1, <4>3 DEF IInv, SnapshotOfWriters, SlotWriters, RankWriters
    <3>2. ASSUME NEW n \in Procs, rank_key'[k] = MyRank(n) PROVE rank_key'[k].rank = UNASSIGNED
      BY <3>2 DEF MyRank
    <3> QED
      BY <1>2, <2>1, <3>1, <3>2 DEF KeyStep
  <2>4. \A k \in Slots : snapshot[k] # NoNode => rank_key'[k] = rank_key[k]
    BY <2>3
  <2>5. \A k \in Slots : rank_key'[k].rank # UNASSIGNED => rank_key'[k] = rank_key[k]
    BY <2>3
  <2> QED
    BY <1>2, <2>4, <2>5 DEF Assigned
<1> QED
  BY <1>1, <1>2, HostArrives

-----------------------------------------------------------------------------
(* What a step shows of itself to the agents *)

\* Process n goes on running its workers under its rank, or goes on not running any.
RunsOn(n) == (pc'[n] = "active" <=> pc[n] = "active") /\ (pc[n] = "active" => rank'[n] = rank[n])

\* Either nothing but the shutdown key changes, ...
Silent == round_done' = round_done /\ \A n \in Procs : RunsOn(n)

\* ... or a round is opened or closed, or one launcher starts or stops its workers.
Opens(n) ==
    /\ pc[n] \in Opening /\ round_done' = [round_done EXCEPT ![round[n] + 1] = "open"]
    /\ shutdown' = shutdown /\ \A m \in Procs : RunsOn(m)
Closes ==
    /\ pc[Host] = "finish" /\ round_done' = [round_done EXCEPT ![round[Host]] = "closed"]
    /\ UNCHANGED <<shutdown, slot_key, rank_key>> /\ \A m \in Procs : RunsOn(m)
Starts(n) ==
    /\ DoneReadRank(n) /\ pc'[n] = "active"
    /\ \A m \in Procs : m # n => RunsOn(m)
Stops(n) ==
    /\ pc[n] = "active" /\ pc'[n] # "active" /\ round_done' = round_done
    /\ \A m \in Procs : m # n => RunsOn(m)

Effect(n) ==
    \/ Silent \/ Opens(n) \/ pc[n] = "initSet"
    \/ n = Host /\ Closes
    \/ Starts(n) \/ Stops(n)

(* Every step of a process has one of these effects. *)
LEMMA Effects ==
  ASSUME TInv, NEW n \in Procs, NextOf(n) PROVE Effect(n)
<1>1. \A m \in Procs : m # n => RunsOn(m)
  BY OwnSteps DEF Own, RunsOn
<1>2. ASSUME round_done' = round_done, RunsOn(n) PROVE Effect(n)
  BY <1>1, <1>2 DEF Effect, Silent
<1> USE DEF TInv, TypeOK, StoreTypeOK, LocalTypeOK, store, local, Goto
<1>3. CASE Joining(n)
  <2>1. CASE DoneReadRank(n)
    <3>1. CASE pc'[n] = "active"
      BY <1>1, <2>1, <3>1 DEF Effect, Starts
    <3>2. CASE pc'[n] # "active"
      BY <1>2, <2>1, <3>2 DEF DoneReadRank, RunsOn
    <3> QED
      BY <3>1, <3>2
  <2>2. CASE InitSet(n)
    BY <2>2 DEF InitSet, Effect
  <2>3. CASE InitCheck(n)
    BY <1>2, <2>3 DEF InitCheck, AfterRoundKey, RunsOn
  <2>4. CASE WaitCheckShutdown(n) \/ WaitReadRound(n)
    BY <1>2, <2>4 DEF WaitCheckShutdown, WaitReadRound, EnterCloseLoop, RunsOn
  <2>5. CASE CountUnhealthy(n) \/ MarkGroupUnhealthy(n) \/ Join(n)
    BY <1>2, <2>5 DEF CountUnhealthy, MarkGroupUnhealthy, Join, RunsOn
  <2>6. CASE ReadRankKey(n) \/ ReadSlotKey(n)
    BY <1>2, <2>6 DEF ReadRankKey, ReadSlotKey, FencedRead, RunsOn
  <2>7. CASE WriteRankKey(n) \/ WriteSlotKey(n)
    BY <1>2, <2>7 DEF WriteRankKey, WriteSlotKey, CasAfter, RunsOn
  <2>8. CASE DoneCheckShutdown(n) \/ DoneReadRound(n)
    BY <1>2, <2>8 DEF DoneCheckShutdown, DoneReadRound, RunsOn
  <2> QED
    BY <1>3, <2>1, <2>2, <2>3, <2>4, <2>5, <2>6, <2>7, <2>8 DEF Joining
<1>4. CASE Monitoring(n) \/ Events(n)
  <2>1. CASE OpenNextRound(n)
    <3>1. RunsOn(n)
      BY <2>1 DEF OpenNextRound, RunsOn
    <3> QED
      BY <1>1, <2>1, <3>1 DEF OpenNextRound, Effect, Opens, Opening
  <2>2. ASSUME pc[n] = "active", pc'[n] # "active", round_done' = round_done PROVE Effect(n)
    BY <1>1, <2>2 DEF Effect, Stops
  <2>3. CASE PeerOpenedRound(n) \/ WorkersFailed(n)
    BY <2>2, <2>3 DEF PeerOpenedRound, WorkersFailed
  <2>4. CASE SignalNoRestart(n)
    <3>1. round_done' = round_done /\ pc'[n] = "stop"
      BY <2>4 DEF SignalNoRestart
    <3> QED
      BY <1>2, <2>2, <3>1 DEF RunsOn
  <2>5. CASE SignalCheckNextRound(n)
    BY <1>2, <2>5 DEF SignalCheckNextRound, RunsOn
  <2>6. CASE LeaveJob(n)
    BY <2>2, <2>6 DEF LeaveJob, ExitWith
  <2>7. CASE JoinTimeout(n) \/ FaultExit(n)
    BY <1>2, <2>7 DEF JoinTimeout, FaultExit, ExitWith, RunsOn
  <2>8. CASE ShutdownWorkload(n)
    BY <1>2, <2>8 DEF ShutdownWorkload, RunsOn
  <2>9. CASE Crash(n)
    <3>1. round_done' = round_done /\ pc'[n] = "gone"
      BY <2>9 DEF Crash
    <3> QED
      BY <1>2, <2>2, <3>1 DEF RunsOn
  <2> QED
    BY <1>4, <2>1, <2>3, <2>4, <2>5, <2>6, <2>7, <2>8, <2>9 DEF Monitoring, Events
<1>5. CASE n = Host /\ Closing
  <2>1. CASE HostFinish
    <3>1. RunsOn(n)
      BY <1>5, <2>1 DEF HostFinish, RunsOn
    <3> QED
      BY <1>1, <1>5, <2>1, <3>1 DEF HostFinish, Effect, Closes
  <2>2. CASE InitShutdownCheck \/ InitShutdownSet
    BY <1>2, <1>5, <2>2 DEF InitShutdownCheck, InitShutdownSet, RunsOn
  <2>3. CASE HostCheck \/ HostProbe \/ HostFetch
    BY <1>2, <1>5, <2>3 DEF HostCheck, HostProbe, HostFetch, RunsOn
  <2>4. CASE HostDecide \/ HostAssign
    BY <1>2, <1>5, <2>4 DEF HostDecide, HostAssign, RunsOn
  <2> QED
    BY <1>5, <2>1, <2>2, <2>3, <2>4 DEF Closing
<1> QED
  BY <1>3, <1>4, <1>5 DEF NextOf

\* What follows from a store that exists before the launchers start: the first round
\* is there, and so is the shutdown key; who opens a round to end the job has recorded
\* the reason; and the round the host is busy with is open.
Begun ==
    /\ KeyCreated /\ round_done[0] # "absent"
    /\ \A n \in Procs : /\ pc[n] # "initSet"
                        /\ pc[n] \in {"stop", "stopOpen"} => IsShutdown
    /\ pc[Host] \in HostBusy => round_done[round[Host]] = "open"

(* Who ends the job records the reason first. *)
LEMMA StopSteps ==
  ASSUME TInv, NEW n \in Procs, NextOf(n), pc'[n] \in {"stop", "stopOpen"}
  PROVE  pc[n] \in {"stop", "stopOpen"} \/ IsShutdown'
<1> USE DEF TInv, TypeOK, StoreTypeOK, LocalTypeOK, store, local, Goto
<1>1. CASE Joining(n)
  <2>1. CASE InitCheck(n) \/ InitSet(n)
    BY <2>1 DEF InitCheck, InitSet, AfterRoundKey
  <2>2. CASE WaitCheckShutdown(n) \/ WaitReadRound(n)
    BY <2>2 DEF WaitCheckShutdown, WaitReadRound, EnterCloseLoop
  <2>3. CASE CountUnhealthy(n) \/ MarkGroupUnhealthy(n) \/ Join(n)
    BY <2>3 DEF CountUnhealthy, MarkGroupUnhealthy, Join
  <2>4. CASE ReadRankKey(n) \/ ReadSlotKey(n)
    BY <2>4 DEF ReadRankKey, ReadSlotKey, FencedRead
  <2>5. CASE WriteRankKey(n) \/ WriteSlotKey(n)
    BY <2>5 DEF WriteRankKey, WriteSlotKey, CasAfter
  <2>6. CASE DoneCheckShutdown(n) \/ DoneReadRound(n) \/ DoneReadRank(n)
    BY <2>6 DEF DoneCheckShutdown, DoneReadRound, DoneReadRank
  <2> QED
    BY <1>1, <2>1, <2>2, <2>3, <2>4, <2>5, <2>6 DEF Joining
<1>2. CASE Monitoring(n) \/ Events(n)
  <2>1. CASE OpenNextRound(n) \/ PeerOpenedRound(n) \/ WorkersFailed(n)
    BY <2>1 DEF OpenNextRound, PeerOpenedRound, WorkersFailed
  <2>2. CASE SignalNoRestart(n)
    BY <2>2 DEF SignalNoRestart, ShutdownWith, IsShutdown, Reasons
  <2>3. CASE SignalCheckNextRound(n)
    BY <2>3 DEF SignalCheckNextRound
  <2>4. CASE LeaveJob(n) \/ JoinTimeout(n) \/ FaultExit(n)
    BY <2>4 DEF LeaveJob, JoinTimeout, FaultExit, ExitWith
  <2>5. CASE ShutdownWorkload(n)
    BY <2>5 DEF ShutdownWorkload
  <2>6. CASE Crash(n)
    BY <2>6 DEF Crash
  <2> QED
    BY <1>2, <2>1, <2>2, <2>3, <2>4, <2>5, <2>6 DEF Monitoring, Events
<1>3. CASE n = Host /\ Closing
  <2>1. CASE InitShutdownCheck \/ InitShutdownSet
    BY <1>3, <2>1 DEF InitShutdownCheck, InitShutdownSet
  <2>2. CASE HostCheck \/ HostProbe \/ HostFetch \/ HostDecide \/ HostAssign \/ HostFinish
    BY <1>3, <2>2 DEF HostCheck, HostProbe, HostFetch, HostDecide, HostAssign, HostFinish
  <2> QED
    BY <1>3, <2>1, <2>2 DEF Closing
<1> QED
  BY <1>1, <1>2, <1>3 DEF NextOf

(* None of that is undone. *)
LEMMA BegunNext == TInv /\ Begun /\ [Next]_vars => Begun'
<1> SUFFICES ASSUME TInv, Begun, [Next]_vars PROVE Begun'
  OBVIOUS
<1>1. Host \in Procs /\ RoundStep /\ PlaceStep /\ KeyCreated'
  BY RoundSteps, PlaceSteps, KeyCreatedNext DEF Begun, Procs
<1>2. round_done \in [Rounds -> {"absent", "open", "closed"}] /\ round \in [Procs -> Rounds]
  BY DEF TInv, TypeOK, StoreTypeOK, LocalTypeOK
<1>3. 0 \in Rounds
  BY BoundsAssumption DEF Rounds
<1>4. round_done'[0] # "absent" /\ \A n \in Procs : pc'[n] # "initSet"
  <2>1. \A r \in Rounds : round_done[r] # "absent" => round_done'[r] # "absent"
    BY <1>1, <1>2 DEF RoundStep
  <2> QED
    BY <1>1, <1>3, <2>1 DEF Begun, PlaceStep
<1>5. pc'[Host] \in HostBusy => round_done'[round'[Host]] = "open"
  <2> SUFFICES ASSUME pc'[Host] \in HostBusy PROVE round_done'[round'[Host]] = "open"
    OBVIOUS
  <2>1. round_done[round[Host]] = "open" /\ round'[Host] = round[Host] /\ round[Host] \in Rounds
    BY <1>1, <1>2 DEF PlaceStep, Begun
  <2> QED
    BY <2>1, <1>1, <1>2 DEF RoundStep
<1>6. IsShutdown => IsShutdown'
  BY ReasonNext DEF Begun, IsShutdown, vars, store
<1>7. ASSUME NEW m \in Procs, pc'[m] \in {"stop", "stopOpen"} PROVE IsShutdown'
  <2>1. CASE UNCHANGED <<store, local, snapshot>>
    BY <1>6, <1>7, <2>1 DEF Begun, local
  <2>2. ASSUME NEW n \in Procs, NextOf(n) PROVE IsShutdown'
    <3>1. CASE m = n
      BY <1>6, <1>7, <2>2, <3>1, StopSteps DEF Begun
    <3>2. CASE m # n
      BY <1>6, <1>7, <2>2, <3>2, OwnSteps DEF Begun, Own
    <3> QED
      BY <3>1, <3>2
  <2> QED
    BY <2>1, <2>2, StepOf
<1> QED
  BY <1>1, <1>4, <1>5, <1>7 DEF Begun

-----------------------------------------------------------------------------
(* The world is kept *)

\* Whoever finds an active rank of a closed round beside its own data finds the rank
\* under which the round was closed, ...
WorldsKept ==
    \A k \in Slots :
        /\ IsActive(rank_key[k].rank) /\ rank_key[k].round \in Rounds
        /\ round_done[rank_key[k].round] = "closed"
        => /\ slot_key[k].node \in DOMAIN world_of[rank_key[k].round]
           /\ world_of[rank_key[k].round][slot_key[k].node] = rank_key[k].rank

\* ... and a launcher runs its workers once in a round.
EnteredOnce ==
    \A n \in Launchers :
        last_entered[n] <= round[n] /\ (last_entered[n] = round[n] => Over(n))

HistoryTypes ==
    /\ DOMAIN world_of = Rounds /\ world_of = [r \in Rounds |-> world_of[r]]
    /\ last_entered \in [Launchers -> Rounds \cup {-1}]

(* The world in the keys gives the launcher of each slot the rank of the slot. *)
LEMMA WorldOfSlot ==
  ASSUME TInv, OneKey, NEW r \in Rounds, NEW n \in Launchers, NEW k \in Slots,
         slot_key[k] = [round |-> r, node |-> n], rank_key[k].round = r,
         IsActive(rank_key[k].rank)
  PROVE  n \in RankedActive(r) /\ n \in DOMAIN WorldInKeys(r)
         /\ WorldInKeys(r)[n] = rank_key[k].rank
<1>1. n \in RankedActive(r)
  BY DEF RankedActive
<1>2. r # -1
  BY BoundsAssumption DEF Rounds
<1>3. slot_key[k].round # -1
  BY <1>2
<1>4. \A j \in Slots : slot_key[j] = [round |-> r, node |-> n] => j = k
  BY <1>3 DEF OneKey
<1>5. (CHOOSE j \in Slots : slot_key[j] = [round |-> r, node |-> n]) = k
  BY <1>4
<1>6. WorldInKeys(r)[n] = rank_key[CHOOSE j \in Slots : slot_key[j] = [round |-> r, node |-> n]].rank
  BY <1>1 DEF WorldInKeys
<1> QED
  BY <1>1, <1>5, <1>6 DEF WorldInKeys

(* The keys of the slots in the snapshot when the round is closed. *)
LEMMA ActiveSlots ==
  ASSUME TInv, StayInv, Assigned, pc[Host] = "finish", NEW k \in Slots,
         rank_key[k].round = round[Host], IsActive(rank_key[k].rank)
  PROVE  /\ snapshot[k] \in Launchers /\ rank_key[k].rank \in 0 .. MinNodes - 1
         /\ slot_key[k] = [round |-> round[Host], node |-> snapshot[k]]
<1>1. snapshot[k] # NoNode
  BY DEF Assigned, IsActive
<1>2. snapshot[k] \in Launchers
  BY <1>1 DEF TInv, TypeOK, HostTypeOK
<1>3. rank_key[k].rank \in Nat /\ rank_key[k].rank < MinNodes
  BY <1>1 DEF Assigned, IsActive
<1>4. rank_key[k].rank \in 0 .. MinNodes - 1
  BY <1>3, NodesAssumption
<1>5. slot_key[k] = [round |-> round[Host], node |-> snapshot[k]]
  BY <1>1 DEF StayInv, SnapshotIsWritten
<1> QED
  BY <1>2, <1>4, <1>5

(* The specification of rounds counts with the same operator. *)
LEMMA PromisedCardinality == \A V : Promised!Cardinality(V) = Cardinality(V)
  BY DEF Promised!Cardinality, Cardinality

(* A round is closed with a world: MinNodes launchers, each with a rank of its own. *)
LEMMA ClosedWithWorld ==
  ASSUME TInv, StayInv, OneKey, Assigned, pc[Host] = "finish"
  PROVE  WorldInKeys(round[Host]) \in Promised!Worlds
<1> DEFINE r == round[Host]
           W == RankedActive(r)
           f == WorldInKeys(r)
           T == 0 .. MinNodes - 1
<1>1. r \in Rounds /\ W \subseteq Launchers
  BY DEF TInv, TypeOK, LocalTypeOK, Procs, RankedActive
<1>2. ASSUME NEW n \in W
      PROVE  \E k \in Slots : /\ slot_key[k] = [round |-> r, node |-> n] /\ snapshot[k] = n
                              /\ rank_key[k].round = r /\ IsActive(rank_key[k].rank)
                              /\ f[n] = rank_key[k].rank /\ f[n] \in T
  <2>1. PICK k \in Slots : /\ slot_key[k] = [round |-> r, node |-> n]
                           /\ rank_key[k].round = r /\ IsActive(rank_key[k].rank)
    BY <1>2 DEF RankedActive
  <2>2. f[n] = rank_key[k].rank
    BY <1>1, <1>2, <2>1, WorldOfSlot
  <2>3. /\ rank_key[k].rank \in T
        /\ slot_key[k] = [round |-> r, node |-> snapshot[k]]
    BY <2>1, ActiveSlots
  <2>4. snapshot[k] = n
    BY <2>1, <2>3
  <2> QED
    BY <2>1, <2>2, <2>3, <2>4
<1>3. f \in [W -> T]
  <2>1. f = [n \in W |-> f[n]]
    BY DEF WorldInKeys
  <2>2. \A n \in W : f[n] \in T
    BY <1>2
  <2> HIDE DEF f, W, T
  <2> QED
    BY <2>1, <2>2
<1>4. ASSUME NEW m \in W, NEW n \in W, f[m] = f[n] PROVE m = n
  <2>1. PICK j \in Slots : /\ snapshot[j] = m /\ IsActive(rank_key[j].rank) /\ f[m] = rank_key[j].rank
                           /\ slot_key[j] = [round |-> r, node |-> m]
    BY <1>2
  <2>2. PICK k \in Slots : /\ snapshot[k] = n /\ IsActive(rank_key[k].rank) /\ f[n] = rank_key[k].rank
                           /\ slot_key[k] = [round |-> r, node |-> n]
    BY <1>2
  <2>3. m # NoNode /\ n # NoNode
    BY <1>1, LaunchersAssumption DEF NoNode
  <2>4. j = k
    BY <1>4, <2>1, <2>2, <2>3 DEF Assigned, IsActive
  <2> QED
    BY <2>1, <2>2, <2>4
<1>5. ASSUME NEW i \in T PROVE \E n \in W : f[n] = i
  <2>1. PICK k \in Slots : snapshot[k] # NoNode /\ rank_key[k].rank = i
    BY <1>5 DEF Assigned
  <2>2. rank_key[k].round = r /\ slot_key[k] = [round |-> r, node |-> snapshot[k]]
    BY <2>1 DEF Assigned, StayInv, SnapshotIsWritten
  <2>3. IsActive(rank_key[k].rank)
    <3>1. i < MinNodes /\ i # -1
      BY NodesAssumption
    <3> QED
      BY <2>1, <3>1 DEF IsActive, UNASSIGNED
  <2>4. snapshot[k] \in Launchers
    BY <2>1 DEF TInv, TypeOK, HostTypeOK
  <2> QED
    BY <1>1, <2>1, <2>2, <2>3, <2>4, WorldOfSlot
<1> HIDE DEF f, W, r, T
<1>6. f \in Bijection(W, T)
  <2>1. f \in Injection(W, T)
    BY <1>3, <1>4 DEF Injection, IsInjective
  <2>2. f \in Surjection(W, T)
    BY <1>3, <1>5 DEF Surjection
  <2> QED
    BY <2>1, <2>2 DEF Bijection
<1>7. Cardinality(W) = MinNodes
  <2>1. IsFiniteSet(W)
    BY <1>1, LaunchersAssumption, FS_Subset
  <2>2. ExistsBijection(W, T)
    BY <1>6 DEF ExistsBijection
  <2>3. Cardinality(T) = Cardinality(W)
    BY <2>1, <2>2, FS_Bijection
  <2>4. Cardinality(T) = MinNodes
    <3>1. 0 \in Int /\ MinNodes - 1 \in Int /\ ~(0 > MinNodes - 1) /\ (MinNodes - 1) - 0 + 1 = MinNodes
      BY NodesAssumption
    <3>2. Cardinality(0 .. MinNodes - 1) = (MinNodes - 1) - 0 + 1
      BY <3>1, FS_Interval
    <3> QED
      BY <3>1, <3>2 DEF T
  <2> QED
    BY <2>3, <2>4
<1>8. T = Promised!Ranks
  BY DEF T, Promised!Ranks
<1>9. f \in Promised!Bijection(W, Promised!Ranks)
  BY <1>6, <1>8 DEF Bijection, Injection, Surjection, IsInjective, Promised!Bijection,
     Promised!Injection, Promised!Surjection, Promised!IsInjective
<1>10. f \in Promised!Worlds
  <2>1. Promised!Cardinality(W) = MinNodes
    BY <1>7, PromisedCardinality
  <2>2. W \in {V \in SUBSET Launchers : Promised!Cardinality(V) = MinNodes}
    BY <1>1, <2>1
  <2> QED
    BY <1>9, <2>2 DEF Promised!Worlds
<1> QED
  BY <1>10 DEF f, r

\* A step of the barrier, or none, with what the history variables record of it.
StepWithHistory == [NextWithHistory]_<<vars, history>>

(* The history variables do not restrict the steps of the barrier. *)
LEMMA PlainStep == StepWithHistory => [Next]_vars
  BY DEF StepWithHistory, NextWithHistory

(* The history is kept for every round and every launcher. *)
LEMMA HistoryTypesNext == TInv /\ HistoryTypes /\ StepWithHistory => HistoryTypes'
<1> SUFFICES ASSUME TInv, HistoryTypes, StepWithHistory PROVE HistoryTypes'
  OBVIOUS
<1>1. CASE UNCHANGED history
  BY <1>1 DEF HistoryTypes, history
<1>2. CASE HistoryNext
  <2>1. DOMAIN world_of' = Rounds /\ world_of' = [r \in Rounds |-> world_of'[r]]
    BY <1>2 DEF HistoryNext
  <2>2. \A n \in Launchers : round[n] \in Rounds
    BY DEF TInv, TypeOK, LocalTypeOK, Procs
  <2>3. last_entered' \in [Launchers -> Rounds \cup {-1}]
    BY <1>2, <2>2 DEF HistoryNext, HistoryTypes
  <2> QED
    BY <2>1, <2>3 DEF HistoryTypes
<1> QED
  BY <1>1, <1>2 DEF StepWithHistory, NextWithHistory

(* Only a process that reads its rank starts workers. *)
LEMMA WhoStarts ==
  ASSUME TInv, Begun, [Next]_vars, NEW n \in Procs, pc[n] # "active", pc'[n] = "active"
  PROVE  Starts(n)
<1>1. ~UNCHANGED <<store, local, snapshot>>
  BY DEF local
<1>2. PICK p \in Procs : NextOf(p)
  BY <1>1, StepOf
<1>3. Effect(p) /\ pc[p] # "initSet"
  BY <1>2, Effects DEF Begun
<1>4. ~RunsOn(n)
  BY DEF RunsOn
<1>5. Starts(p) \/ Stops(p)
  BY <1>3, <1>4 DEF Effect, Silent, Opens, Closes
<1>6. p = n
  BY <1>4, <1>5 DEF Starts, Stops
<1> QED
  BY <1>5, <1>6 DEF Stops

(* A start is recorded with the round of the launcher, which is then through with it. *)
LEMMA EnteredOnceNext ==
  ASSUME TInv, TInv', SeenClosed, RoundsStay, Begun, HistoryTypes, EnteredOnce, StepWithHistory
  PROVE  EnteredOnce'
<1> SUFFICES ASSUME NEW n \in Launchers
             PROVE  last_entered'[n] <= round'[n] /\ (last_entered'[n] = round'[n] => Over(n)')
  BY DEF EnteredOnce
<1>1. n \in Procs /\ [Next]_vars
  BY PlainStep DEF Procs
<1>2. last_entered[n] \in Int /\ round[n] \in Int /\ round'[n] \in Int
  <2>1. last_entered[n] \in Rounds \cup {-1} /\ round[n] \in Rounds /\ round'[n] \in Rounds
    BY <1>1 DEF HistoryTypes, TInv, TypeOK, LocalTypeOK
  <2>2. Rounds \cup {-1} \subseteq Int
    BY BoundsAssumption DEF Rounds
  <2> QED
    BY <2>1, <2>2
<1>3. CASE pc[n] # "active" /\ pc'[n] = "active"
  <2>1. Starts(n)
    BY <1>1, <1>3, WhoStarts
  <2>2. round'[n] = round[n]
    BY <2>1 DEF Starts, DoneReadRank
  <2>3. last_entered'[n] \in {last_entered[n], round[n]}
    BY DEF StepWithHistory, NextWithHistory, HistoryNext, history
  <2> QED
    BY <1>2, <1>3, <2>2, <2>3 DEF EnteredOnce, Over
<1>4. CASE ~(pc[n] # "active" /\ pc'[n] = "active")
  <2>1. last_entered'[n] = last_entered[n]
    BY <1>4 DEF StepWithHistory, NextWithHistory, HistoryNext, history
  <2>2. round[n] <= round'[n]
    <3>1. CASE UNCHANGED <<store, local, snapshot>>
      BY <1>2, <3>1 DEF local
    <3>2. ASSUME NEW p \in Procs, NextOf(p) PROVE round[n] <= round'[n]
      <4>1. CASE p = n
        BY <3>2, <4>1, SlotSteps
      <4>2. CASE p # n
        BY <1>1, <1>2, <3>2, <4>2, OwnSteps DEF Own
      <4> QED
        BY <4>1, <4>2
    <3> QED
      BY <1>1, <3>1, <3>2, StepOf
  <2>3. last_entered[n] <= round[n] /\ (last_entered[n] = round[n] => Over(n))
    BY DEF EnteredOnce
  <2>4. last_entered[n] = round'[n] => Over(n)'
    <3>1. ASSUME last_entered[n] = round'[n] PROVE Over(n)'
      <4>1. round'[n] = round[n] /\ Over(n)
        BY <1>2, <2>2, <2>3, <3>1
      <4>2. (round'[n] = round[n] /\ Over(n)') \/ round'[n] > round[n]
        BY <1>1, <4>1, OverStays
      <4> QED
        BY <1>2, <4>1, <4>2
    <3> QED
      BY <3>1
  <2> QED
    BY <1>2, <2>1, <2>2, <2>3, <2>4
<1> QED
  BY <1>3, <1>4

(* Who writes data beside an assigned rank finds its own there. *)
LEMMA AssignedSlotsAreKept ==
  ASSUME TInv, IInv, KeysInv, [Next]_vars, NEW k \in Slots, rank_key[k].rank # UNASSIGNED
  PROVE  slot_key'[k] = slot_key[k]
<1>1. KeyStep
  BY KeySteps
<1>2. ASSUME NEW n \in Procs, pc[n] = "slotSet", slot[n] = k, slot_key[k] \in {expected[n], MySlot(n)}
      PROVE  FALSE
  <2>1. slot_key[k].round = rank_key[k].round
    BY DEF KeysInv, KeysTogether
  <2>2. rank_key[k].round >= round[n]
    BY <1>2 DEF KeysInv, RankFirst
  <2>3. round[n] \in Int /\ slot_key[k].round \in Int
    <3>1. round[n] \in Rounds /\ slot_key[k] \in SlotValues
      BY DEF TInv, TypeOK, StoreTypeOK, LocalTypeOK
    <3>2. Rounds \cup {-1} \subseteq Int
      BY BoundsAssumption DEF Rounds
    <3> QED
      BY <3>1, <3>2 DEF SlotValues
  <2>4. expected[n].round <= round[n]
    BY <1>2 DEF IInv, ExpectedNotNewer
  <2>5. slot_key[k].round <= round[n]
    BY <1>2, <2>3, <2>4 DEF MySlot
  <2>6. slot_key[k].round = round[n]
    BY <2>1, <2>2, <2>3, <2>5
  <2> QED
    BY <1>2, <2>6 DEF IInv, Unwritten, SlotWriters
<1> QED
  BY <1>1, <1>2 DEF KeyStep

(* Only the host closes a round. *)
LEMMA WhoCloses ==
  ASSUME TInv, [Next]_vars, NEW r \in Rounds, round_done[r] # "closed", round_done'[r] = "closed"
  PROVE  pc[Host] = "finish" /\ r = round[Host]
<1>1. RoundStep
  BY RoundSteps
<1>2. round_done \in [Rounds -> {"absent", "open", "closed"}]
  BY DEF TInv, TypeOK, StoreTypeOK
<1> QED
  BY <1>1, <1>2 DEF RoundStep

(* The world is recorded when the host closes the round; after that the slots with an
   active rank keep both their keys until the next round, where they have none. *)
LEMMA WorldsKeptNext ==
  ASSUME TInv, TInv', IInv, StayInv, KeysInv, Begun', Assigned, HistoryTypes, WorldsKept,
         StepWithHistory
  PROVE  WorldsKept'
<1> SUFFICES ASSUME NEW k \in Slots, IsActive(rank_key'[k].rank), rank_key'[k].round \in Rounds,
                    round_done'[rank_key'[k].round] = "closed"
             PROVE  /\ slot_key'[k].node \in DOMAIN world_of'[rank_key'[k].round]
                    /\ world_of'[rank_key'[k].round][slot_key'[k].node] = rank_key'[k].rank
  BY DEF WorldsKept, IsActive
<1>1. [Next]_vars /\ KeyStep
  BY PlainStep, KeySteps
<1>2. rank_key'[k] = rank_key[k]
  <2>1. ASSUME NEW n \in Procs, rank_key'[k] = MyRank(n) PROVE FALSE
    BY <2>1 DEF MyRank, IsActive
  <2>2. ASSUME pc'[Host] = "finish", UNCHANGED round, rank_key'[k].round = round[Host] PROVE FALSE
    BY <2>2 DEF Begun, HostBusy, HostLabels
  <2> QED
    BY <1>1, <2>1, <2>2 DEF KeyStep
<1>3. slot_key'[k] = slot_key[k]
  <2>1. rank_key[k].rank # UNASSIGNED
    BY <1>2 DEF IsActive
  <2> QED
    BY <1>1, <2>1, AssignedSlotsAreKept
<1> DEFINE r == rank_key[k].round
<1>4. CASE round_done[r] = "closed"
  <2>1. world_of'[r] = world_of[r]
    BY <1>2, <1>4 DEF StepWithHistory, NextWithHistory, HistoryNext, history
  <2>2. /\ slot_key[k].node \in DOMAIN world_of[r]
        /\ world_of[r][slot_key[k].node] = rank_key[k].rank
    BY <1>2, <1>4 DEF WorldsKept
  <2> QED
    BY <1>2, <1>3, <2>1, <2>2
<1>5. CASE round_done[r] # "closed"
  <2>1. pc[Host] = "finish" /\ r = round[Host] /\ r \in Rounds
    BY <1>1, <1>2, <1>5, WhoCloses
  <2>2. world_of'[r] = WorldInKeys(r)
    BY <1>2, <1>5, <2>1 DEF StepWithHistory, NextWithHistory, HistoryNext, vars, store
  <2>3. snapshot[k] \in Launchers /\ slot_key[k] = [round |-> r, node |-> snapshot[k]]
    BY <1>2, <2>1, ActiveSlots
  <2>4. /\ snapshot[k] \in DOMAIN WorldInKeys(r)
        /\ WorldInKeys(r)[snapshot[k]] = rank_key[k].rank
    BY <1>2, <2>1, <2>3, WorldOfSlot DEF KeysInv
  <2> QED
    BY <1>2, <1>3, <2>2, <2>3, <2>4
<1> QED
  BY <1>4, <1>5

-----------------------------------------------------------------------------
(* Every step is a step of RendezvousRounds *)

\* The variables of RendezvousRounds that the barrier has not under another name.
Running == [n \in Launchers |-> IF pc[n] = "active" THEN rank[n] ELSE -1]
Ended == IF IsShutdown THEN shutdown ELSE "none"

\* The invariant the refinement needs.
WorldInv == /\ KeysInv /\ Begun /\ Assignable /\ Assigned
            /\ HistoryTypes /\ WorldsKept /\ EnteredOnce

(* The first reason stays. *)
LEMMA EndedSteps ==
  ASSUME Begun, [Next]_vars PROVE Ended' = Ended \/ (Ended = "none" /\ Ended' \in Reasons)
<1>1. IsShutdown => shutdown' = shutdown
  BY ReasonNext DEF Begun, vars, store
<1>2. CASE IsShutdown
  BY <1>1, <1>2 DEF Ended, IsShutdown
<1>3. CASE ~IsShutdown
  BY <1>3 DEF Ended, IsShutdown
<1> QED
  BY <1>2, <1>3

\* No round is closed by the step.
NoneCloses == \A r \in Rounds : round_done'[r] = "closed" => round_done[r] = "closed"

(* Then no world is recorded. *)
LEMMA WorldsStay ==
  ASSUME HistoryTypes, StepWithHistory, NoneCloses PROVE world_of' = world_of
<1>1. CASE UNCHANGED history
  BY <1>1 DEF history
<1>2. CASE HistoryNext
  <2>1. \A r \in Rounds : ~(round_done[r] # "closed" /\ round_done'[r] = "closed")
    BY DEF NoneCloses
  <2>2. world_of' = [r \in Rounds |-> world_of[r]]
    BY <1>2, <2>1 DEF HistoryNext
  <2> QED
    BY <2>2 DEF HistoryTypes
<1> QED
  BY <1>1, <1>2 DEF StepWithHistory, NextWithHistory

(* Where nobody starts workers, no start is recorded. *)
LEMMA NobodyStarts ==
  ASSUME HistoryTypes, StepWithHistory, \A n \in Launchers : pc'[n] = "active" => pc[n] = "active"
  PROVE  last_entered' = last_entered
<1>1. CASE UNCHANGED history
  BY <1>1 DEF history
<1>2. CASE HistoryNext
  <2>1. last_entered' = [n \in Launchers |-> last_entered[n]]
    BY <1>2 DEF HistoryNext
  <2> QED
    BY <2>1 DEF HistoryTypes
<1> QED
  BY <1>1, <1>2 DEF StepWithHistory, NextWithHistory

(* Nor does it change who runs under which rank. *)
LEMMA RunningStays ==
  ASSUME \A n \in Launchers : RunsOn(n) PROVE Running' = Running
<1>1. \A n \in Launchers : (IF pc'[n] = "active" THEN rank'[n] ELSE -1)
                           = (IF pc[n] = "active" THEN rank[n] ELSE -1)
  BY DEF RunsOn
<1> QED
  BY <1>1 DEF Running

(* Opening a round maps to OpenRound, ... *)
LEMMA OpensIsOpenRound ==
  ASSUME TInv, RoundsStay, WorldInv, StepWithHistory, NEW n \in Procs, Opens(n)
  PROVE  \/ UNCHANGED <<round_done, world_of, last_entered, Running, Ended>>
         \/ \E r \in Rounds : Promised!OpenRound(r)
<1> DEFINE r == round[n] + 1
<1>1. round_done \in [Rounds -> {"absent", "open", "closed"}] /\ round_done' = [round_done EXCEPT ![r] = "open"]
  BY DEF TInv, TypeOK, StoreTypeOK, Opens
<1>2. NoneCloses
  BY <1>1 DEF NoneCloses
<1>3. \A m \in Launchers : RunsOn(m)
  BY DEF Opens, Procs
<1>4. UNCHANGED <<world_of, last_entered, Running, Ended>>
  <2>1. last_entered' = last_entered
    BY <1>3, NobodyStarts DEF WorldInv, RunsOn
  <2>2. Ended' = Ended
    BY DEF Opens, Ended, IsShutdown
  <2> QED
    BY <1>2, <1>3, <2>1, <2>2, WorldsStay, RunningStays DEF WorldInv
<1>5. CASE r \in Rounds /\ round_done[r] = "absent"
  <2>1. r - 1 = round[n]
    <3>1. round[n] \in Rounds /\ Rounds \subseteq Int
      BY BoundsAssumption DEF TInv, TypeOK, LocalTypeOK, Rounds
    <3>2. round[n] \in Int
      BY <3>1
    <3> QED
      BY <3>2
  <2>2. round_done[r - 1] = "closed" \/ Ended # "none"
    <3>1. CASE pc[n] = "open"
      BY <2>1, <3>1 DEF WorldInv, KeysInv, SeenClosed
    <3>2. CASE pc[n] = "stopOpen"
      BY <3>2 DEF WorldInv, Begun, Ended, IsShutdown, Reasons
    <3> QED
      BY <3>1, <3>2 DEF Opens, Opening
  <2>3. Promised!OpenRound(r)
    BY <1>1, <1>4, <1>5, <2>2 DEF Promised!OpenRound, Running, Ended
  <2> QED
    BY <1>5, <2>3
<1>6. CASE ~(r \in Rounds /\ round_done[r] = "absent")
  <2>1. r \in Rounds => round_done[r] = "open"
    <3>1. r \in Rounds => round_done'[r] = "open"
      BY <1>1
    <3> QED
      BY <1>1, <1>6, <3>1 DEF RoundsStay
  <2>2. round_done' = round_done
    BY <1>1, <2>1
  <2> QED
    BY <1>4, <2>2
<1> QED
  BY <1>5, <1>6

(* ... closing it to CloseRound, with the world the host has assigned, ... *)
LEMMA ClosesIsCloseRound ==
  ASSUME TInv, StayInv, WorldInv, StepWithHistory, Closes
  PROVE  \E r \in Rounds : Promised!CloseRound(r)
<1> DEFINE r == round[Host]
<1>1. /\ round_done \in [Rounds -> {"absent", "open", "closed"}]
      /\ round_done' = [round_done EXCEPT ![r] = "closed"] /\ r \in Rounds
      /\ pc[Host] = "finish"
  BY DEF TInv, TypeOK, StoreTypeOK, LocalTypeOK, Closes, Procs
<1>2. round_done[r] = "open"
  BY <1>1 DEF WorldInv, Begun, HostBusy, HostLabels
<1>3. \A m \in Launchers : RunsOn(m)
  BY DEF Closes, Procs
<1>4. last_entered' = last_entered /\ Running' = Running /\ Ended' = Ended
  <2>1. Ended' = Ended
    BY DEF Closes, Ended, IsShutdown
  <2> QED
    BY <1>3, <2>1, NobodyStarts, RunningStays DEF WorldInv, RunsOn
<1>5. WorldInKeys(r) \in Promised!Worlds
  BY <1>1, ClosedWithWorld DEF WorldInv, KeysInv
<1>6. world_of' = [world_of EXCEPT ![r] = WorldInKeys(r)]
  <2>1. HistoryNext
    <3>1. round_done' # round_done
      BY <1>1, <1>2
    <3> QED
      BY <3>1 DEF StepWithHistory, NextWithHistory, vars, store
  <2>2. world_of' = [q \in Rounds |-> IF q = r THEN WorldInKeys(r) ELSE world_of[q]]
    <3>1. \A q \in Rounds : (round_done[q] # "closed" /\ round_done'[q] = "closed") <=> q = r
      BY <1>1, <1>2
    <3>2. \A q \in Rounds : (IF round_done[q] # "closed" /\ round_done'[q] = "closed"
                             THEN WorldInKeys(q) ELSE world_of[q])
                            = (IF q = r THEN WorldInKeys(r) ELSE world_of[q])
      BY <3>1
    <3> HIDE DEF r
    <3> QED
      BY <2>1, <3>2 DEF HistoryNext
  <2>3. world_of = [q \in Rounds |-> world_of[q]]
    BY DEF WorldInv, HistoryTypes
  <2> HIDE DEF r
  <2> QED
    BY <2>2, <2>3
<1>7. Promised!CloseRound(r)
  <2>1. \E world \in Promised!Worlds : world_of' = [world_of EXCEPT ![r] = world]
    BY <1>5, <1>6
  <2> QED
    BY <1>1, <1>2, <1>4, <2>1 DEF Promised!CloseRound, Running, Ended
<1> QED
  BY <1>1, <1>7

(* A launcher starts its workers under the rank its round was closed with. *)
LEMMA StartsIsEnter ==
  ASSUME TInv, TInv', IInv, WorldInv, SeenClosed', StepWithHistory, NEW n \in Procs, Starts(n)
  PROVE  n \in Launchers /\ \E r \in Rounds : Promised!Enter(n, r)
<1> DEFINE k == slot[n]
<1>14. PICK r \in Rounds : r = round[n]
  BY DEF TInv, TypeOK, LocalTypeOK
<1>1. n \in Launchers
  BY DEF SeenClosed, Starts
<1>2. /\ pc[n] = "s3rank" /\ r \in Rounds /\ k \in Slots
      /\ rank_key[k].round = r /\ IsActive(rank_key[k].rank)
      /\ rank' = [rank EXCEPT ![n] = rank_key[k].rank]
      /\ UNCHANGED store
  <2>1. pc[n] = "s3rank" /\ k \in Slots
    BY DEF Starts, DoneReadRank, TInv, TypeOK, LocalTypeOK, SlotWhenJoined, SlotHolders, Slots
  <2>2. ~IsActive(UNASSIGNED)
    BY DEF IsActive
  <2> QED
    BY <1>14, <2>1, <2>2 DEF Starts, DoneReadRank, Goto, TInv, TypeOK, LocalTypeOK
<1>3. round_done[r] = "closed"
  BY <1>2, <1>14 DEF WorldInv, KeysInv, SeenClosed
<1>4. slot_key[k].node = n
  <2>1. slot_key[k].round = r
    BY <1>2 DEF WorldInv, KeysInv, KeysTogether, IsActive
  <2>2. k # 0
    BY <1>2 DEF Slots
  <2> QED
    BY <1>14, <2>1, <2>2 DEF WorldInv, KeysInv, OwnKey
<1>5. n \in DOMAIN world_of[r] /\ world_of[r][n] = rank_key[k].rank
  BY <1>2, <1>3, <1>4 DEF WorldInv, WorldsKept
<1>6. last_entered[n] < r
  <2>1. last_entered[n] <= r /\ last_entered[n] # r
    BY <1>1, <1>2, <1>14 DEF WorldInv, EnteredOnce, Over
  <2>2. last_entered[n] \in Rounds \cup {-1} /\ Rounds \cup {-1} \subseteq Int
    BY <1>1, BoundsAssumption DEF WorldInv, HistoryTypes, Rounds
  <2> QED
    BY <1>2, <2>1, <2>2
<1>7. \A m \in Launchers : m # n => RunsOn(m)
  BY DEF Starts, Procs
<1>8. HistoryNext
  <2>1. pc' # pc
    BY <1>2 DEF Starts
  <2> QED
    BY <2>1 DEF StepWithHistory, NextWithHistory, vars, local
<1>9. round_done' = round_done /\ world_of' = world_of /\ Ended' = Ended
  <2>1. round_done' = round_done /\ NoneCloses /\ Ended' = Ended
    BY <1>2 DEF NoneCloses, store, Ended, IsShutdown
  <2> QED
    BY <2>1, WorldsStay DEF WorldInv
<1>10. last_entered' = [last_entered EXCEPT ![n] = r]
  <2>1. \A m \in Launchers : (pc[m] # "active" /\ pc'[m] = "active") <=> m = n
    BY <1>1, <1>2, <1>7 DEF Starts, RunsOn
  <2>2. last_entered' = [m \in Launchers |-> IF m = n THEN r ELSE last_entered[m]]
    BY <1>8, <1>14, <2>1 DEF HistoryNext
  <2> QED
    BY <1>1, <2>2 DEF WorldInv, HistoryTypes
<1>11. Running' = [Running EXCEPT ![n] = world_of[r][n]]
  <2>1. rank'[n] = world_of[r][n]
    BY <1>2, <1>5 DEF TInv, TypeOK, LocalTypeOK
  <2>2. \A m \in Launchers : m # n => (IF pc'[m] = "active" THEN rank'[m] ELSE -1)
                                      = (IF pc[m] = "active" THEN rank[m] ELSE -1)
    BY <1>7 DEF RunsOn
  <2>3. Running' = [m \in Launchers |-> IF pc'[m] = "active" THEN rank'[m] ELSE -1]
    BY DEF Running
  <2>4. pc'[n] = "active"
    BY DEF Starts
  <2>5. Running' = [m \in Launchers |-> IF m = n THEN world_of[r][n] ELSE Running[m]]
    <3>1. \A m \in Launchers : (IF pc'[m] = "active" THEN rank'[m] ELSE -1)
                               = (IF m = n THEN world_of[r][n] ELSE Running[m])
      BY <2>1, <2>2, <2>4 DEF Running
    <3> QED
      BY <2>3, <3>1
  <2> QED
    BY <2>5 DEF Running
<1>12. Running[n] = -1
  BY <1>1, <1>2 DEF Running
<1>13. Promised!Enter(n, r)
  BY <1>3, <1>5, <1>6, <1>9, <1>10, <1>11, <1>12
     DEF Promised!Enter, Promised!Idle, Running, Ended
<1> QED
  BY <1>1, <1>13

(* ... and leaving the workers to Leave. *)
LEMMA StopsIsLeave ==
  ASSUME TInv, WorldInv, StepWithHistory, NEW n \in Procs, Stops(n)
  PROVE  n \in Launchers /\ Promised!Leave(n)
<1>1. n \in Launchers /\ pc[n] = "active" /\ rank[n] # UNASSIGNED
  BY DEF WorldInv, KeysInv, SeenClosed, Stops
<1>2. \A m \in Launchers : m # n => RunsOn(m)
  BY DEF Stops, Procs
<1>3. round_done' = round_done /\ world_of' = world_of /\ last_entered' = last_entered
  <2>1. round_done' = round_done /\ NoneCloses
    BY DEF Stops, NoneCloses
  <2>2. \A m \in Launchers : pc'[m] = "active" => pc[m] = "active"
    BY <1>1, <1>2 DEF RunsOn
  <2> QED
    BY <2>1, <2>2, WorldsStay, NobodyStarts DEF WorldInv
<1>4. Running' = [Running EXCEPT ![n] = -1]
  <2>1. \A m \in Launchers : (IF pc'[m] = "active" THEN rank'[m] ELSE -1)
                             = (IF m = n THEN -1 ELSE Running[m])
    BY <1>2 DEF RunsOn, Running, Stops
  <2>2. Running' = [m \in Launchers |-> IF pc'[m] = "active" THEN rank'[m] ELSE -1]
    BY DEF Running
  <2>3. Running' = [m \in Launchers |-> IF m = n THEN -1 ELSE Running[m]]
    BY <2>1, <2>2
  <2> QED
    BY <2>3 DEF Running
<1>5. Running[n] # -1
  BY <1>1 DEF Running, UNASSIGNED
<1>6. Ended' = Ended \/ (Ended = "none" /\ Ended' \in Reasons)
  BY PlainStep, EndedSteps DEF WorldInv
<1>7. Promised!Leave(n)
  BY <1>3, <1>4, <1>5, <1>6 DEF Promised!Leave, Promised!EndJob, Promised!Idle, Running, Ended
<1> QED
  BY <1>1, <1>7

(* The steps of the barrier are steps of RendezvousRounds, or none. *)
LEMMA RoundsStep ==
  ASSUME TInv, TInv', IInv, StayInv, WorldInv, SeenClosed', RoundsStay, StepWithHistory
  PROVE  [Promised!RoundsNext]_(Promised!rounds)
<1>1. ASSUME UNCHANGED <<round_done, world_of, last_entered, Running, Ended>>
      PROVE  UNCHANGED Promised!rounds
  BY <1>1 DEF Promised!rounds, Running, Ended
<1>2. ASSUME Silent PROVE UNCHANGED Promised!rounds \/ Promised!End
  <2>1. NoneCloses /\ \A m \in Launchers : RunsOn(m)
    BY <1>2 DEF Silent, NoneCloses, Procs
  <2>2. UNCHANGED <<round_done, world_of, last_entered, Running>>
    BY <1>2, <2>1, WorldsStay, NobodyStarts, RunningStays DEF WorldInv, RunsOn, Silent
  <2>3. Ended' = Ended \/ (Ended = "none" /\ Ended' \in Reasons)
    BY PlainStep, EndedSteps DEF WorldInv
  <2>4. CASE Ended' = Ended
    BY <1>1, <2>2, <2>4
  <2>5. CASE Ended = "none" /\ Ended' \in Reasons
    BY <2>2, <2>5 DEF Promised!End, Promised!EndJob, Running, Ended
  <2> QED
    BY <2>3, <2>4, <2>5
<1>3. CASE UNCHANGED <<store, local, snapshot>>
  <2>1. Silent
    BY <1>3 DEF Silent, RunsOn, store, local
  <2> QED
    BY <1>2, <2>1 DEF Promised!RoundsNext
<1>4. ASSUME NEW n \in Procs, NextOf(n) PROVE [Promised!RoundsNext]_(Promised!rounds)
  <2>1. Effect(n) /\ pc[n] # "initSet"
    BY <1>4, Effects DEF WorldInv, Begun
  <2>2. CASE Silent
    BY <1>2, <2>2 DEF Promised!RoundsNext
  <2>3. CASE Opens(n)
    BY <1>1, <2>3, OpensIsOpenRound DEF Promised!RoundsNext
  <2>4. CASE n = Host /\ Closes
    BY <2>4, ClosesIsCloseRound DEF Promised!RoundsNext
  <2>5. CASE Starts(n)
    BY <2>5, StartsIsEnter DEF Promised!RoundsNext
  <2>6. CASE Stops(n)
    BY <2>6, StopsIsLeave DEF Promised!RoundsNext
  <2> QED
    BY <2>1, <2>2, <2>3, <2>4, <2>5, <2>6 DEF Effect
<1> QED
  BY <1>3, <1>4, PlainStep, StepOf

(* On an existing store the job starts as RendezvousRounds does. *)
LEMMA WorldInvInit == ~ColdStart /\ InitWithHistory => WorldInv /\ Promised!RoundsInit
<1> SUFFICES ASSUME ~ColdStart, InitWithHistory PROVE WorldInv /\ Promised!RoundsInit
  OBVIOUS
<1>1. Init /\ HistoryInit
  BY DEF InitWithHistory
<1>2. /\ Host \in Procs /\ 0 \in Rounds /\ -1 \notin Rounds /\ Launchers \subseteq Procs
      /\ -1 \notin Launchers
  BY BoundsAssumption, LaunchersAssumption DEF Procs, Rounds
<1>3. /\ \A n \in Procs : pc[n] = "init" /\ round[n] = 0 /\ slot[n] = 0
      /\ \A k \in Slots : slot_key[k] = AbsentSlot /\ rank_key[k] = AbsentRank
      /\ round_done[0] = "open" /\ \A r \in Rounds : round_done[r] # "closed"
      /\ shutdown = "empty"
  BY <1>1, <1>2 DEF Init
<1>4. KeysInv
  <2>1. SeenClosed /\ OwnKey /\ RankFirst
    BY <1>3 DEF SeenClosed, OwnKey, RankFirst
  <2>2. OneKey /\ KeysTogether
    BY <1>3 DEF OneKey, KeysTogether, AbsentSlot, AbsentRank
  <2>3. KeysBehind
    BY <1>2, <1>3 DEF KeysBehind, AbsentSlot, NoNode
  <2> QED
    BY <2>1, <2>2, <2>3 DEF KeysInv
<1>5. Begun
  BY <1>2, <1>3 DEF Begun, KeyCreated, HostBusy, SlotWriters, RankWriters, HostLabels
<1>6. Assignable /\ Assigned
  BY <1>2, <1>3 DEF Assignable, Assigned
<1>7. HistoryTypes
  BY <1>1 DEF HistoryInit, HistoryTypes
<1>8. WorldsKept
  BY <1>3 DEF WorldsKept
<1>9. EnteredOnce
  BY <1>1, <1>2, <1>3 DEF HistoryInit, EnteredOnce
<1>10. Promised!RoundsInit
  <2>1. round_done \in [Rounds -> {"absent", "open"}] /\ \A r \in Rounds : round_done[r] = "open" => r = 0
    BY <1>1 DEF Init
  <2>2. world_of = [r \in Rounds |-> [n \in {} |-> -1]] /\ last_entered = [n \in Launchers |-> -1]
    BY <1>1 DEF HistoryInit
  <2>3. Running = [n \in Launchers |-> -1]
    BY <1>2, <1>3 DEF Running
  <2>4. Ended = "none"
    BY <1>3 DEF Ended, IsShutdown, Reasons
  <2> QED
    BY <2>1, <2>2, <2>3, <2>4
       DEF Promised!RoundsInit, Promised!NoWorld, Promised!Idle, Running, Ended
<1> QED
  BY <1>4, <1>5, <1>6, <1>7, <1>8, <1>9, <1>10 DEF WorldInv

(* The invariant is kept while no closed round is opened again. *)
LEMMA WorldInvNext ==
  ASSUME TInv, IInv, StayInv, WorldInv, RoundsStay, StepWithHistory
  PROVE  WorldInv'
<1>1. [Next]_vars
  BY PlainStep
<1>2. TInv'
  BY <1>1, TInvNext
<1>3. KeysInv'
  BY <1>1, <1>2, KeysInvNext DEF WorldInv
<1>4. Begun'
  BY <1>1, BegunNext DEF WorldInv
<1>5. Assignable'
  BY <1>1, AssignableNext DEF WorldInv
<1>6. Assigned'
  BY <1>1, AssignedNext DEF WorldInv, KeysInv
<1>7. HistoryTypes'
  BY HistoryTypesNext DEF WorldInv
<1>8. WorldsKept'
  BY <1>2, <1>4, WorldsKeptNext DEF WorldInv
<1>9. EnteredOnce'
  BY <1>2, EnteredOnceNext DEF WorldInv, KeysInv
<1> QED
  BY <1>3, <1>4, <1>5, <1>6, <1>7, <1>8, <1>9 DEF WorldInv

(* A behaviour with history is a behaviour of the barrier. *)
LEMMA PlainSpec == SpecWithHistory => Spec
<1>1. InitWithHistory => Init
  BY DEF InitWithHistory
<1>2. [NextWithHistory]_<<vars, history>> => [Next]_vars
  BY DEF NextWithHistory
<1> QED
  BY <1>1, <1>2, PTL DEF SpecWithHistory, Spec

(* On a store that exists before the launchers start, and while no round is opened
   again, the barrier implements RendezvousRounds. *)
THEOREM BarrierImplementsRounds ==
  ~ColdStart => (SpecWithHistory /\ ClosedStaysClosed => ImplementsRounds)
<1> SUFFICES ASSUME ~ColdStart PROVE SpecWithHistory /\ ClosedStaysClosed => ImplementsRounds
  OBVIOUS
<1>1. InitWithHistory => WorldInv /\ Promised!RoundsInit
  BY WorldInvInit
<1>2. TInv /\ IInv /\ StayInv /\ WorldInv /\ [NextWithHistory]_<<vars, history>>
      /\ [RoundsStay]_vars => WorldInv'
  <2> SUFFICES ASSUME TInv, IInv, StayInv, WorldInv, StepWithHistory, [RoundsStay]_vars
               PROVE  WorldInv'
    BY DEF StepWithHistory
  <2>1. RoundsStay
    BY DEF RoundsStay, vars, store
  <2> QED
    BY <2>1, WorldInvNext
<1>3. TInv /\ IInv /\ StayInv /\ WorldInv /\ [NextWithHistory]_<<vars, history>>
      /\ [RoundsStay]_vars => [Promised!RoundsNext]_(Promised!rounds)
  <2> SUFFICES ASSUME TInv, IInv, StayInv, WorldInv, StepWithHistory, [RoundsStay]_vars
               PROVE  [Promised!RoundsNext]_(Promised!rounds)
    BY DEF StepWithHistory
  <2>1. RoundsStay
    BY DEF RoundsStay, vars, store
  <2>2. TInv' /\ SeenClosed'
    BY <2>1, PlainStep, TInvNext, WorldInvNext DEF WorldInv, KeysInv
  <2> QED
    BY <2>1, <2>2, RoundsStep
<1>4. SpecWithHistory /\ ClosedStaysClosed => [](TInv /\ IInv /\ StayInv)
  BY PlainSpec, StayInvariance, PTL
<1> QED
  BY <1>1, <1>2, <1>3, <1>4, PTL
     DEF SpecWithHistory, ClosedStaysClosed, RoundsStay, ImplementsRounds, Promised!RoundsSpec

-----------------------------------------------------------------------------
(* When every launcher is needed *)

\* There are no spare launchers, and their infrastructure ranks, if they have any, differ.
NoSpares ==
    /\ Cardinality(Launchers) = MinNodes
    /\ \A m, n \in Launchers : m # n /\ Infra[m] = Infra[n] => Infra[m] = -1

\* Before it has looked for its round, or on the way to a slot's keys.
Fresh == {"init", "initSet"}
Unjoined == SlotWriters \cup Fresh \cup {"add"}

\* A round is only closed once every launcher has written its keys in it.
AllHaveJoined ==
    /\ \A n \in Launchers, r \in Rounds : round_done[r] = "closed" =>
          round[n] >= r /\ (round[n] = r => pc[n] \notin Unjoined)
    /\ \A n \in Procs : pc[n] \in Fresh => round[n] = 0
    /\ pc[Host] \in Fresh => \A r \in Rounds : round_done[r] # "closed"

\* Processes go on over closed rounds only.
BelowAreClosed == \A n \in Procs, r \in Rounds : r < round[n] => round_done[r] = "closed"

\* What a fenced write has read is still there.
ExpectedIsCurrent ==
    \A n \in Procs : /\ pc[n] = "rankSet" => expected[n] = rank_key[slot[n]]
                     /\ pc[n] = "slotSet" => expected[n] = slot_key[slot[n]]

\* Process n comes to its place with this step in the way the invariants suppose.
Arrives(n) ==
    /\ pc'[n] \in Unjoined =>
          \/ pc[n] \in Unjoined /\ round'[n] = round[n]
          \/ pc[n] = "s0read" /\ round_done[round[n]] = "open" /\ round'[n] = round[n]
    /\ pc'[n] \in Fresh => pc[n] \in Fresh
    /\ pc'[n] = "rankSet" => ReadRankKey(n)
    /\ pc'[n] = "slotSet" => ReadSlotKey(n)
    /\ pc'[n] = "fault" => WriteRankKey(n) \/ WriteSlotKey(n) \/ (n = Host /\ HostAssign)

(* A process comes to join a round from its look at the open round only, to a fenced
   write from its read, and to a fault from a write. *)
LEMMA ArriveSteps ==
  ASSUME TInv, NEW n \in Procs, NextOf(n) PROVE Arrives(n)
<1> USE DEF TInv, TypeOK, StoreTypeOK, LocalTypeOK, store, local, Goto, Unjoined, SlotWriters,
        RankWriters, Fresh, Arrives
<1>1. CASE Joining(n)
  <2>1. CASE InitCheck(n) \/ InitSet(n)
    BY <2>1 DEF InitCheck, InitSet, AfterRoundKey
  <2>2. CASE WaitCheckShutdown(n) \/ WaitReadRound(n)
    BY <2>2 DEF WaitCheckShutdown, WaitReadRound, EnterCloseLoop
  <2>3. CASE CountUnhealthy(n) \/ MarkGroupUnhealthy(n) \/ Join(n)
    BY <2>3 DEF CountUnhealthy, MarkGroupUnhealthy, Join
  <2>4. CASE ReadRankKey(n)
    BY <2>4 DEF ReadRankKey, FencedRead
  <2>5. CASE ReadSlotKey(n)
    BY <2>5 DEF ReadSlotKey, FencedRead
  <2>6. CASE WriteRankKey(n) \/ WriteSlotKey(n)
    BY <2>6 DEF WriteRankKey, WriteSlotKey, CasAfter
  <2>7. CASE DoneCheckShutdown(n) \/ DoneReadRound(n) \/ DoneReadRank(n)
    BY <2>7 DEF DoneCheckShutdown, DoneReadRound, DoneReadRank
  <2> QED
    BY <1>1, <2>1, <2>2, <2>3, <2>4, <2>5, <2>6, <2>7 DEF Joining
<1>2. CASE Monitoring(n) \/ Events(n)
  <2>1. CASE OpenNextRound(n) \/ PeerOpenedRound(n) \/ WorkersFailed(n)
    BY <2>1 DEF OpenNextRound, PeerOpenedRound, WorkersFailed
  <2>2. CASE SignalNoRestart(n) \/ SignalCheckNextRound(n)
    BY <2>2 DEF SignalNoRestart, SignalCheckNextRound
  <2>3. CASE LeaveJob(n) \/ JoinTimeout(n) \/ FaultExit(n)
    BY <2>3 DEF LeaveJob, JoinTimeout, FaultExit, ExitWith
  <2>4. CASE ShutdownWorkload(n)
    BY <2>4 DEF ShutdownWorkload
  <2>5. CASE Crash(n)
    BY <2>5 DEF Crash
  <2> QED
    BY <1>2, <2>1, <2>2, <2>3, <2>4, <2>5 DEF Monitoring, Events
<1>3. CASE n = Host /\ Closing
  <2>1. CASE InitShutdownCheck \/ InitShutdownSet
    BY <1>3, <2>1 DEF InitShutdownCheck, InitShutdownSet
  <2>2. CASE HostCheck \/ HostProbe \/ HostFetch \/ HostDecide \/ HostAssign \/ HostFinish
    BY <1>3, <2>2 DEF HostCheck, HostProbe, HostFetch, HostDecide, HostAssign, HostFinish
  <2> QED
    BY <1>3, <2>1, <2>2 DEF Closing
<1> QED
  BY <1>1, <1>2, <1>3 DEF NextOf

(* Nobody opens a closed round again: every launcher is in it or past it. *)
LEMMA ClosedStays ==
  ASSUME TInv, HostLeads, AllHaveJoined, [Next]_vars PROVE RoundsStay
<1> SUFFICES ASSUME NEW r \in Rounds, round_done[r] = "closed" PROVE round_done'[r] = "closed"
  BY DEF RoundsStay
<1>1. RoundStep
  BY RoundSteps
<1>2. /\ round_done \in [Rounds -> {"absent", "open", "closed"}] /\ round \in [Procs -> Rounds]
      /\ \A n \in Procs : n \in Launchers \/ n = Host
  BY DEF TInv, TypeOK, StoreTypeOK, LocalTypeOK, Procs
<1>3. Rounds \subseteq Int
  BY BoundsAssumption DEF Rounds
<1>4. ASSUME NEW n \in Procs, pc[n] = "initSet", r = 0 PROVE FALSE
  BY <1>2, <1>4 DEF AllHaveJoined, Unjoined, Fresh
<1>5. ASSUME NEW n \in Procs, r = round[n] + 1 PROVE FALSE
  <2>1. r > round[n] /\ r \in Int /\ round[n] \in Int
    <3>1. round[n] \in Int /\ r \in Int
      BY <1>2, <1>3
    <3> QED
      BY <1>5, <3>1
  <2>2. CASE n \in Launchers
    <3>1. round[n] >= r
      BY <2>2 DEF AllHaveJoined
    <3> QED
      BY <2>1, <3>1
  <2>3. CASE n = Host
    BY <2>1, <2>3 DEF HostLeads
  <2> QED
    BY <1>2, <2>2, <2>3
<1> QED
  BY <1>1, <1>2, <1>4, <1>5 DEF RoundStep

(* Without spares the world of a round is all the launchers. *)
LEMMA ClosedWithAll ==
  ASSUME NoSpares, TInv, StayInv, OneKey, Assigned, pc[Host] = "finish", NEW n \in Launchers
  PROVE  \E k \in Slots : slot_key[k] = [round |-> round[Host], node |-> n]
<1> DEFINE r == round[Host]
           W == RankedActive(r)
<1>1. WorldInKeys(r) \in Promised!Worlds
  BY ClosedWithWorld
<1>2. PICK V \in SUBSET Launchers : /\ Promised!Cardinality(V) = MinNodes
                                    /\ WorldInKeys(r) \in Promised!Bijection(V, Promised!Ranks)
  BY <1>1 DEF Promised!Worlds
<1>3. DOMAIN WorldInKeys(r) = V
  BY <1>2 DEF Promised!Bijection, Promised!Injection, Promised!Surjection
<1>4. DOMAIN WorldInKeys(r) = W
  BY DEF WorldInKeys
<1>5. Cardinality(W) = MinNodes /\ W \in SUBSET Launchers
  BY <1>2, <1>3, <1>4, PromisedCardinality
<1>6. W = Launchers
  <2> HIDE DEF W
  <2> QED
    BY <1>5, FS_Subset, LaunchersAssumption DEF NoSpares
<1> QED
  BY <1>6 DEF RankedActive

(* A launcher in a round that closes has written its keys in it. *)
LEMMA ClosedWithJoined ==
  ASSUME NoSpares, TInv, IInv, StayInv, KeysInv, Assigned, pc[Host] = "finish",
         NEW n \in Launchers
  PROVE  /\ round[n] >= round[Host]
         /\ round[n] = round[Host] /\ round_done[round[n]] # "closed" =>
               pc[n] \notin Unjoined /\ pc[n] # "s0read"
<1>1. PICK k \in Slots : slot_key[k] = [round |-> round[Host], node |-> n]
  BY ClosedWithAll DEF KeysInv
<1>2. /\ round[Host] <= round[n]
      /\ round[n] = round[Host] /\ slot[n] # k => Over(n)
  BY <1>1 DEF KeysInv, KeysBehind
<1>3. round[n] \in Int /\ round[Host] \in Int
  BY BoundsAssumption DEF TInv, TypeOK, LocalTypeOK, Procs, Rounds
<1>4. n \in Procs /\ 0 \notin Slots
  BY DEF Procs, Slots
<1>5. ASSUME round[n] = round[Host], round_done[round[n]] # "closed"
      PROVE  pc[n] \notin Unjoined /\ pc[n] # "s0read"
  <2>1. CASE slot[n] = k
    <3>1. pc[n] \notin SlotWriters
      BY <1>1, <1>4, <1>5, <2>1 DEF IInv, Unwritten
    <3>2. pc[n] \notin NoSlotYet
      BY <1>4, <2>1 DEF TInv, SlotWhenJoined
    <3> QED
      BY <3>1, <3>2 DEF Unjoined, Fresh, NoSlotYet
  <2>2. CASE slot[n] # k
    BY <1>2, <1>5, <2>2 DEF Over, Unjoined, Fresh, SlotWriters, RankWriters
  <2> QED
    BY <2>1, <2>2
<1> QED
  BY <1>2, <1>3, <1>5

(* Nobody comes to join a closed round, and the round that closes has been joined. *)
LEMMA AllHaveJoinedNext ==
  ASSUME NoSpares, TInv, IInv, StayInv, KeysInv, Assigned, RoundsStay, AllHaveJoined,
         [Next]_vars
  PROVE  AllHaveJoined'
<1>1. CASE UNCHANGED <<store, local, snapshot>>
  BY <1>1 DEF AllHaveJoined, store, local
<1>2. ASSUME NEW p \in Procs, NextOf(p) PROVE AllHaveJoined'
  <2>1. Own(p) /\ Arrives(p) /\ round[p] \in Int /\ round'[p] \in Int /\ round[p] <= round'[p]
    BY <1>2, OwnSteps, ArriveSteps, SlotSteps
  <2>2. /\ round \in [Procs -> Rounds] /\ Launchers \subseteq Procs /\ Host \in Procs
        /\ \A n \in Procs : round[n] \in Int
    BY BoundsAssumption DEF TInv, TypeOK, LocalTypeOK, Procs, Rounds
  <2>3. Rounds \subseteq Int
    BY BoundsAssumption DEF Rounds
  <2>4. ASSUME NEW n \in Launchers, NEW r \in Rounds, round_done'[r] = "closed"
        PROVE  round'[n] >= r /\ (round'[n] = r => pc'[n] \notin Unjoined)
    <3>1. round[n] >= r /\ (round[n] = r => /\ pc[n] \notin Unjoined
                                            /\ pc[n] = "s0read" => round_done[r] = "closed")
      <4>1. CASE round_done[r] = "closed"
        BY <4>1 DEF AllHaveJoined
      <4>2. CASE round_done[r] # "closed"
        <5>1. pc[Host] = "finish" /\ r = round[Host]
          BY <2>4, <4>2, WhoCloses
        <5> QED
          BY <4>2, <5>1, ClosedWithJoined
      <4> QED
        BY <4>1, <4>2
    <3>2. round'[n] >= round[n] /\ round'[n] \in Int
      <4>1. CASE n = p
        BY <4>1, <2>1
      <4>2. CASE n # p
        BY <4>2, <2>1, <2>2 DEF Own
      <4> QED
        BY <4>1, <4>2
    <3>3. round'[n] >= r /\ (round'[n] = r => round[n] = r)
      BY <3>1, <3>2, <2>2, <2>3
    <3>4. ASSUME round'[n] = r PROVE pc'[n] \notin Unjoined
      <4>1. CASE n = p
        BY <4>1, <2>1, <3>1, <3>3, <3>4 DEF Arrives
      <4>2. CASE n # p
        BY <4>2, <2>1, <2>2, <3>1, <3>3, <3>4 DEF Own
      <4> QED
        BY <4>1, <4>2
    <3> QED
      BY <3>3, <3>4
  <2>5. ASSUME NEW n \in Procs, pc'[n] \in Fresh PROVE pc[n] \in Fresh /\ round'[n] = 0
    <3>1. CASE n = p
      BY <3>1, <2>1, <2>5 DEF Arrives, AllHaveJoined, Unjoined, Fresh
    <3>2. CASE n # p
      BY <3>2, <2>1, <2>5 DEF Own, AllHaveJoined
    <3> QED
      BY <3>1, <3>2
  <2>6. ASSUME pc'[Host] \in Fresh, NEW r \in Rounds PROVE round_done'[r] # "closed"
    <3>1. pc[Host] \in Fresh
      BY <2>2, <2>5, <2>6
    <3> QED
      BY <2>6, <3>1, WhoCloses DEF AllHaveJoined, Fresh
  <2> QED
    BY <2>4, <2>5, <2>6 DEF AllHaveJoined
<1> QED
  BY <1>1, <1>2, StepOf

(* A sync passes closed rounds, and they stay closed. *)
LEMMA BelowAreClosedNext ==
  ASSUME TInv, RoundsStay, BelowAreClosed, [Next]_vars PROVE BelowAreClosed'
<1> SUFFICES ASSUME NEW n \in Procs, NEW r \in Rounds, r < round'[n]
             PROVE  round_done'[r] = "closed"
  BY DEF BelowAreClosed
<1>1. RoundStep
  BY RoundSteps
<1>2. round \in [Procs -> Rounds]
  BY DEF TInv, TypeOK, LocalTypeOK
<1>3. CASE r < round[n]
  BY <1>3 DEF BelowAreClosed, RoundsStay
<1>4. CASE ~(r < round[n])
  <2>1. round'[n] # round[n]
    BY <1>4
  <2>2. PICK m \in Procs : Sync(m)
    BY <1>1, <1>2, <2>1 DEF RoundStep
  <2>3. PICK N \in Rounds : /\ \A M \in Rounds : round[m] <= M /\ M < N => round_done[M] = "closed"
                            /\ round' = [round EXCEPT ![m] = N]
    BY <2>2 DEF Sync
  <2>4. m = n /\ round'[n] = N
    BY <1>2, <2>1, <2>3
  <2>5. round[n] <= r
    <3>1. round[n] \in Int /\ r \in Int
      BY <1>2, BoundsAssumption DEF Rounds
    <3> QED
      BY <1>4, <3>1
  <2> QED
    BY <2>3, <2>4, <2>5 DEF RoundsStay
<1> QED
  BY <1>3, <1>4

(* Of two writers in different rounds the one behind would be in a closed round. *)
LEMMA WritersTogether ==
  ASSUME TInv, AllHaveJoined, BelowAreClosed, NEW m \in Procs, NEW n \in Procs,
         pc[m] \in SlotWriters, round[m] < round[n]
  PROVE  FALSE
<1>1. m \in Launchers /\ round[m] \in Rounds
  BY DEF TInv, ControlNeverJoins, SlotHolders, TypeOK, LocalTypeOK
<1>2. round_done[round[m]] = "closed"
  BY <1>1 DEF BelowAreClosed
<1> QED
  BY <1>1, <1>2 DEF AllHaveJoined, Unjoined

(* So no two writers have one slot, whatever their rounds. *)
LEMMA WritersApart ==
  ASSUME TInv, IInv, AllHaveJoined, BelowAreClosed, NEW m \in Procs, NEW n \in Procs, m # n,
         pc[m] \in SlotWriters, pc[n] \in SlotWriters
  PROVE  slot[m] # slot[n]
<1>1. round[m] \in Int /\ round[n] \in Int
  BY BoundsAssumption DEF TInv, TypeOK, LocalTypeOK, Rounds
<1>2. ~(round[m] < round[n]) /\ ~(round[n] < round[m])
  BY WritersTogether
<1>3. round[m] = round[n]
  BY <1>1, <1>2
<1>4. slot[m] # 0
  BY DEF TInv, SlotWhenJoined, SlotHolders
<1> QED
  BY <1>3, <1>4 DEF IInv, SlotsApart

(* The host assigns no rank to a slot whose keys are being written. *)
LEMMA AssignedAreNoWriters ==
  ASSUME TInv, IInv, StayInv, AllHaveJoined, BelowAreClosed, NEW n \in Procs,
         pc[n] \in SlotWriters, pc[Host] = "assign"
  PROVE  snapshot[slot[n]] = NoNode
<1>1. slot[n] \in Slots /\ Host \in Procs
  BY DEF TInv, SlotWhenJoined, SlotHolders, TypeOK, LocalTypeOK, Procs
<1>2. round[n] \in Int /\ round[Host] \in Int
  BY <1>1, BoundsAssumption DEF TInv, TypeOK, LocalTypeOK, Rounds
<1>3. ~(round[n] < round[Host])
  BY <1>1, WritersTogether
<1>4. round[n] <= round[Host]
  <2>1. round_done[round[Host]] # "closed" /\ round[n] <= Reach
    BY DEF StayInv, HostLeads, HostBusy, HostLabels
  <2> QED
    BY <2>1, <1>2 DEF Reach
<1>5. round[n] = round[Host]
  BY <1>2, <1>3, <1>4
<1> QED
  BY <1>1, <1>5 DEF IInv, SnapshotOfWriters

(* So nobody writes a key between a launcher's read of it and its compare_set. *)
LEMMA ExpectedIsCurrentNext ==
  ASSUME TInv, IInv, StayInv, AllHaveJoined, BelowAreClosed, ExpectedIsCurrent, [Next]_vars
  PROVE  ExpectedIsCurrent'
<1>1. CASE UNCHANGED <<store, local, snapshot>>
  BY <1>1 DEF ExpectedIsCurrent, store, local
<1>2. ASSUME NEW p \in Procs, NextOf(p), NEW n \in Procs
      PROVE  /\ pc'[n] = "rankSet" => expected'[n] = rank_key'[slot'[n]]
             /\ pc'[n] = "slotSet" => expected'[n] = slot_key'[slot'[n]]
  <2>1. Own(p) /\ Arrives(p)
    BY <1>2, OwnSteps, ArriveSteps
  <2>2. CASE n = p
    <3>1. ASSUME ReadRankKey(n), pc'[n] = "rankSet"
          PROVE  expected'[n] = rank_key'[slot'[n]]
      BY <3>1 DEF ReadRankKey, FencedRead, Goto, store, TInv, TypeOK, LocalTypeOK
    <3>2. ASSUME ReadSlotKey(n), pc'[n] = "slotSet"
          PROVE  expected'[n] = slot_key'[slot'[n]]
      BY <3>2 DEF ReadSlotKey, FencedRead, Goto, store, TInv, TypeOK, LocalTypeOK
    <3> QED
      BY <2>1, <2>2, <3>1, <3>2 DEF Arrives
  <2>3. CASE n # p
    <3>1. pc'[n] = pc[n] /\ expected'[n] = expected[n] /\ slot'[n] = slot[n]
      BY <2>1, <2>3 DEF Own
    <3>2. ASSUME pc[n] = "rankSet" PROVE rank_key'[slot[n]] = rank_key[slot[n]]
      <4>1. pc[n] \in SlotWriters /\ slot[n] \in Slots
        BY <3>2 DEF SlotWriters, RankWriters, TInv, SlotWhenJoined, SlotHolders,
           TypeOK, LocalTypeOK
      <4>2. CASE rank_key' = rank_key
        BY <4>2
      <4>3. CASE WriteRankKey(p)
        <5>1. pc[p] = "rankSet" /\ (rank_key' = rank_key
                 \/ rank_key' = [rank_key EXCEPT ![slot[p]] = MyRank(p)])
          BY <4>3, RankKeyWrites
        <5>2. slot[p] # slot[n]
          BY <2>3, <4>1, <5>1, WritersApart DEF SlotWriters, RankWriters
        <5> QED
          BY <5>1, <5>2, <4>1 DEF TInv, TypeOK, StoreTypeOK
      <4>4. CASE p = Host /\ HostAssign
        <5>1. pc[Host] = "assign"
          BY <4>4 DEF HostAssign
        <5>2. snapshot[slot[n]] = NoNode
          BY <4>1, <5>1, AssignedAreNoWriters
        <5> QED
          BY <4>1, <4>4, <5>2 DEF HostAssign, RanksWritten
      <4> QED
        BY <1>2, <4>2, <4>3, <4>4, WriterSteps
    <3>3. ASSUME pc[n] = "slotSet" PROVE slot_key'[slot[n]] = slot_key[slot[n]]
      <4>1. pc[n] \in SlotWriters /\ slot[n] \in Slots
        BY <3>3 DEF SlotWriters, RankWriters, TInv, SlotWhenJoined, SlotHolders,
           TypeOK, LocalTypeOK
      <4>2. CASE slot_key' = slot_key
        BY <4>2
      <4>3. CASE WriteSlotKey(p)
        <5>1. pc[p] = "slotSet" /\ (slot_key' = slot_key
                 \/ slot_key' = [slot_key EXCEPT ![slot[p]] = MySlot(p)])
          BY <4>3, SlotKeyWrites
        <5>2. slot[p] # slot[n]
          BY <2>3, <4>1, <5>1, WritersApart DEF SlotWriters, RankWriters
        <5> QED
          BY <5>1, <5>2, <4>1 DEF TInv, TypeOK, StoreTypeOK
      <4> QED
        BY <1>2, <4>2, <4>3, WriterSteps
    <3> QED
      BY <3>1, <3>2, <3>3 DEF ExpectedIsCurrent
  <2> QED
    BY <2>2, <2>3
<1> QED
  BY <1>1, <1>2, StepOf DEF ExpectedIsCurrent

(* Hence no write fails, and the host finds no infrastructure rank twice. *)
LEMMA NoFaultNext ==
  ASSUME NoSpares, TInv, ExpectedIsCurrent, NoUnexpectedConflict, [Next]_vars
  PROVE  NoUnexpectedConflict'
<1>1. CASE UNCHANGED <<store, local, snapshot>>
  BY <1>1 DEF NoUnexpectedConflict, local
<1>2. ASSUME NEW p \in Procs, NextOf(p), NEW n \in Procs, pc'[n] = "fault" PROVE FALSE
  <2>1. n = p
    BY <1>2, OwnSteps DEF Own, NoUnexpectedConflict
  <2>2. Arrives(n)
    BY <1>2, <2>1, ArriveSteps
  <2>3. CASE WriteRankKey(n)
    <3>1. CasAccepted(n, rank_key[slot[n]], MyRank(n))
      BY <2>3 DEF WriteRankKey, CasAccepted, ExpectedIsCurrent
    <3> QED
      BY <1>2, <2>3, <3>1 DEF WriteRankKey, CasAfter, Goto, TInv, TypeOK, LocalTypeOK
  <2>4. CASE WriteSlotKey(n)
    <3>1. CasAccepted(n, slot_key[slot[n]], MySlot(n))
      BY <2>4 DEF WriteSlotKey, CasAccepted, ExpectedIsCurrent
    <3> QED
      BY <1>2, <2>4, <3>1 DEF WriteSlotKey, CasAfter, Goto, TInv, TypeOK, LocalTypeOK
  <2>5. CASE n = Host /\ HostAssign
    <3> DEFINE A == CompleteParticipants(CurrentParticipants, HostGroupSize)
               S == IncompleteParticipants(CurrentParticipants, HostGroupSize)
    <3>1. A \cup S = CurrentParticipants
      BY DEF CompleteParticipants, IncompleteParticipants
    <3>2. DuplicateInfra(A \cup S)
      BY <1>2, <2>5 DEF HostAssign, Goto, TInv, TypeOK, LocalTypeOK
    <3>3. ~DuplicateInfra(CurrentParticipants)
      <4> SUFFICES ASSUME NEW x \in CurrentParticipants, NEW y \in CurrentParticipants,
                          x # y, x.infra = y.infra
                   PROVE  HasUnassignedInfra(CurrentParticipants)
        BY DEF DuplicateInfra
      <4>1. \A z \in CurrentParticipants : \E l \in Launchers : z = Desc(l)
        <5> SUFFICES ASSUME NEW z \in CurrentParticipants PROVE \E l \in Launchers : z = Desc(l)
          OBVIOUS
        <5>1. PICK k \in Slots : snapshot[k] # NoNode /\ z = Desc(snapshot[k])
          BY DEF CurrentParticipants
        <5> QED
          BY <5>1 DEF TInv, TypeOK, HostTypeOK
      <4>2. PICK l \in Launchers : x = Desc(l)
        BY <4>1
      <4>3. PICK m \in Launchers : y = Desc(m)
        BY <4>1
      <4>4. l # m /\ Infra[l] = Infra[m]
        BY <4>2, <4>3 DEF Desc
      <4>5. x.infra = -1
        BY <4>2, <4>4 DEF NoSpares, Desc
      <4> QED
        BY <4>5 DEF HasUnassignedInfra
    <3> QED
      BY <3>1, <3>2, <3>3
  <2> QED
    BY <1>2, <2>1, <2>2, <2>3, <2>4, <2>5 DEF Arrives
<1> QED
  BY <1>1, <1>2, StepOf DEF NoUnexpectedConflict

\* What holds of the barrier without spares.
NeedInv == /\ TInv /\ IInv /\ StayInv /\ KeysInv /\ Assignable /\ Assigned
           /\ AllHaveJoined /\ BelowAreClosed /\ ExpectedIsCurrent /\ NoUnexpectedConflict

(* It holds at first, of a new store and of an existing one, ... *)
LEMMA NeedInvInit == Init => NeedInv
<1> SUFFICES ASSUME Init PROVE NeedInv
  OBVIOUS
<1>1. /\ Host \in Procs /\ 0 \in Rounds /\ -1 \notin Rounds /\ Rounds \subseteq Nat
      /\ -1 \notin Launchers /\ Launchers \subseteq Procs
  BY BoundsAssumption, LaunchersAssumption DEF Procs, Rounds
<1>2. /\ \A n \in Procs : pc[n] = "init" /\ round[n] = 0 /\ slot[n] = 0
      /\ \A k \in Slots : slot_key[k] = AbsentSlot /\ rank_key[k] = AbsentRank
      /\ \A k \in Slots : snapshot[k] = NoNode
      /\ \A r \in Rounds : round_done[r] # "closed"
  BY DEF Init, NoSnapshot
<1>3. TInv /\ IInv
  BY TInvInit, IInvInit
<1>4. StayInv
  <2>1. Reach = 0
    BY <1>1, <1>2 DEF Reach
  <2>2. HostLeads
    BY <1>1, <1>2, <2>1 DEF HostLeads, AbsentSlot, AbsentRank
  <2> QED
    BY <1>2, <2>2 DEF StayInv, RanksOfClosed, SnapshotIsWritten, AbsentRank
<1>5. KeysInv
  <2>1. SeenClosed /\ OwnKey /\ RankFirst
    BY <1>2 DEF SeenClosed, OwnKey, RankFirst
  <2>2. OneKey /\ KeysTogether
    BY <1>2 DEF OneKey, KeysTogether, AbsentSlot, AbsentRank
  <2>3. KeysBehind
    BY <1>1, <1>2 DEF KeysBehind, AbsentSlot, NoNode
  <2> QED
    BY <2>1, <2>2, <2>3 DEF KeysInv
<1>6. Assignable /\ Assigned
  BY <1>1, <1>2 DEF Assignable, Assigned
<1>7. AllHaveJoined
  BY <1>1, <1>2 DEF AllHaveJoined
<1>8. BelowAreClosed
  <2> SUFFICES ASSUME NEW n \in Procs, NEW r \in Rounds, r < round[n] PROVE FALSE
    BY DEF BelowAreClosed
  <2>1. r \in Nat /\ round[n] = 0
    BY <1>1, <1>2
  <2> QED
    BY <2>1
<1>9. ExpectedIsCurrent /\ NoUnexpectedConflict
  BY <1>2 DEF ExpectedIsCurrent, NoUnexpectedConflict
<1> QED
  BY <1>3, <1>4, <1>5, <1>6, <1>7, <1>8, <1>9 DEF NeedInv

(* ... and is kept, which is also why no closed round is opened again. *)
LEMMA NeedInvNext == NoSpares /\ NeedInv /\ [Next]_vars => NeedInv' /\ RoundsStay
<1> SUFFICES ASSUME NoSpares, NeedInv, [Next]_vars PROVE NeedInv' /\ RoundsStay
  OBVIOUS
<1> USE DEF NeedInv
<1>1. RoundsStay
  BY ClosedStays DEF StayInv
<1>2. TInv' /\ IInv' /\ RoundStep /\ KeyStep /\ PlaceStep
  BY TInvNext, IInvNext, RoundSteps, KeySteps, PlaceSteps
<1>3. StayInv'
  BY <1>1, <1>2, HostLeadsNext, RanksOfClosedNext, SnapshotIsWrittenNext DEF StayInv
<1>4. KeysInv'
  BY <1>1, <1>2, KeysInvNext
<1>5. Assignable' /\ Assigned'
  BY AssignableNext, AssignedNext DEF KeysInv
<1>6. AllHaveJoined'
  BY <1>1, AllHaveJoinedNext
<1>7. BelowAreClosed'
  BY <1>1, BelowAreClosedNext
<1>8. ExpectedIsCurrent'
  BY ExpectedIsCurrentNext
<1>9. NoUnexpectedConflict'
  BY NoFaultNext
<1> QED
  BY <1>1, <1>2, <1>3, <1>4, <1>5, <1>6, <1>7, <1>8, <1>9

(* Without spares, and with different infrastructure ranks, no compare_set is lost to an
   older round and no rank is found twice: the RuntimeErrors of the rendezvous do not occur,
   whatever fails, crashes, times out or stops, on an existing store or on a new one. *)
THEOREM NothingUnexpected == NoSpares => (Spec => []NoUnexpectedConflict)
<1> SUFFICES ASSUME NoSpares PROVE Spec => []NoUnexpectedConflict
  OBVIOUS
<1>1. NeedInv /\ [Next]_vars => NeedInv'
  BY NeedInvNext
<1>2. NeedInv => NoUnexpectedConflict
  BY DEF NeedInv
<1> QED
  BY <1>1, <1>2, NeedInvInit, PTL DEF Spec

(* Nor is a closed round opened again, however many openers there are. *)
THEOREM NoSparesReopenNothing == NoSpares => (Spec => ClosedStaysClosed)
<1> SUFFICES ASSUME NoSpares PROVE Spec => ClosedStaysClosed
  OBVIOUS
<1>1. NeedInv /\ [Next]_vars => NeedInv'
  BY NeedInvNext
<1>2. NeedInv /\ [Next]_vars => [RoundsStay]_vars
  BY NeedInvNext
<1> QED
  BY <1>1, <1>2, NeedInvInit, PTL DEF Spec, ClosedStaysClosed, RoundsStay

(* So with one opener, or without spares, the barrier implements RendezvousRounds. *)
THEOREM SafeOpenersImplementRounds ==
  ~ColdStart /\ (OneOpener \/ NoSpares) => (SpecWithHistory => ImplementsRounds)
<1> SUFFICES ASSUME ~ColdStart, OneOpener \/ NoSpares PROVE SpecWithHistory => ImplementsRounds
  OBVIOUS
<1>1. Spec => ClosedStaysClosed
  BY OneOpenerReopensNothing, NoSparesReopenNothing
<1>2. SpecWithHistory /\ ClosedStaysClosed => ImplementsRounds
  BY BarrierImplementsRounds
<1> QED
  BY <1>1, <1>2, PlainSpec, PTL
=============================================================================
