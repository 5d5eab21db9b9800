------------------------- MODULE BarrierRendezvous -------------------------
(***************************************************************************)
(* The rendezvous barrier of fault_tolerance/ft_rendezvous_barrier.py:     *)
(* launchers that meet, round after round, through the keys of one         *)
(* TCPStore.  Every action is at most one effective store operation of one *)
(* process, with the local computation around it: a check() whose key is   *)
(* never deleted is merged with the get() that follows it, and a poll that *)
(* finds nothing new is no step at all.                                    *)
(*                                                                         *)
(* The store host closes rounds.  It is one of the launchers (embedded     *)
(* host), or a control process that never joins (control_plane.py).        *)
(***************************************************************************)
EXTENDS RankAssignment

CONSTANTS
    Launchers,      \* launcher processes; a replacement is another launcher
    ReplacementGroupSize, \* as configured for the rendezvous; 0 for None
    Host,           \* the store host: a launcher, or not (external control)
    MinNodes, MaxNodes,
    LastCall,       \* last_call_timeout > 0
    JobArray,       \* is_slurm_job_array(): no unhealthy counting
    Infra, Addr, Domain, Group,  \* what a launcher publishes about itself
    Failing,        \* launchers whose workers may fail
    Unhealthy,      \* launchers whose health check may fail
    Crashing,       \* launchers that may be killed
    Impatient,      \* processes whose join_timeout may expire
    Stopping,       \* launchers that may conclude the job must not restart
    Finishing,      \* launchers whose workers may finish, or exhaust the budget
    ColdStart,      \* TRUE: no launcher has touched the store yet
    MaxRound,       \* bound: no round above it is opened
    MaxSlots        \* bound: slots of one round

Procs == Launchers \cup {Host}
Embedded == Host \in Launchers
Rounds == 0 .. MaxRound + 1
Slots == 1 .. MaxSlots
NoNode == -1

\* Reasons of the shutdown key.  The two reasons of RDZV_NO_RESTART_REASONS are
\* one here: the protocol does not tell them apart.
Reasons == {"graceful", "failure", "no_restart"}

ASSUME LaunchersAssumption ==
    /\ IsFiniteSet(Launchers) /\ Launchers \subseteq Nat
    /\ Host \in Nat
ASSUME NodesAssumption ==
    MinNodes \in Nat /\ MaxNodes \in Nat /\ 1 <= MinNodes /\ MinNodes <= MaxNodes
ASSUME SegmentsAssumption ==   \* the handler's constructor requires it
    MinNodes % SegmentLen = 0
ASSUME AttributesAssumption ==
    /\ Infra \in [Launchers -> Int]
    /\ DOMAIN Addr = Launchers /\ DOMAIN Domain = Launchers /\ DOMAIN Group = Launchers
ASSUME BoundsAssumption ==
    MaxRound \in Nat /\ MaxSlots \in Nat /\ ReplacementGroupSize \in Nat
ASSUME FaultsAssumption ==
    /\ Failing \cup Unhealthy \cup Crashing \cup Finishing \subseteq Launchers
    /\ Impatient \cup Stopping \subseteq Procs
    \* The store lives in the host's process: without the host no step follows.
    /\ Host \notin Unhealthy \cup Crashing
    /\ {LastCall, JobArray, ColdStart} \subseteq BOOLEAN

VARIABLES
    \* the TCPStore
    round_done,       \* per round: "absent", "open" (0) or "closed" (1)
    join_count,       \* per round: slots claimed
    slot_key,         \* per slot: who joined, and the round that wrote it
    rank_key,         \* per slot: the rank, and the round that wrote it
    shutdown,         \* "absent", "empty" (open) or the recorded reason
    unhealthy_count,  \* unhealthy nodes of the whole job
    unhealthy_groups, \* per round: unhealthy replacement groups
    \* each process
    pc,               \* the next store operation
    round,            \* _round
    slot,             \* _slot
    expected,         \* the value a fenced write has read
    rank,             \* the assigned group rank
    \* the store host
    present,          \* slots found present by the last probe
    probed,           \* join_count at the last probe
    snapshot,         \* slot -> launcher, from the last fetch
    gate,             \* last-call deadline: "unset", "armed", "expired"
    previous_active   \* infra rank -> group of the last closed round, or None

store == <<round_done, join_count, slot_key, rank_key, shutdown,
           unhealthy_count, unhealthy_groups>>
local == <<pc, round, slot, expected, rank>>
host == <<present, probed, snapshot, gate, previous_active>>
vars == <<store, local, host>>

-----------------------------------------------------------------------------
AbsentSlot == [round |-> -1, node |-> NoNode]
AbsentRank == [round |-> -1, rank |-> UNASSIGNED]
NoSnapshot == [k \in Slots |-> NoNode]

\* The values a slot key or a rank key may hold.
SlotValues == [round : Rounds \cup {-1}, node : Launchers \cup {NoNode}]
RankValues == [round : Rounds \cup {-1}, rank : Int]

Desc(n) == [node |-> n, addr |-> Addr[n], infra |-> Infra[n],
            domain |-> Domain[n], group |-> Group[n]]

IsShutdown == shutdown \in Reasons

\* compare_set of the shutdown key: the first reason stays.
ShutdownWith(reason) == IF IsShutdown THEN shutdown ELSE reason

Goto(n, label) == pc' = [pc EXCEPT ![n] = label]

\* What a process does with an exception out of its rendezvous: the launcher
\* shuts the rendezvous down on its way out (launch_agent's finally), the
\* control process just stops.
ExitWith(n, reason) ==
    /\ shutdown' = IF n \in Launchers THEN ShutdownWith(reason) ELSE shutdown
    /\ Goto(n, "gone")

-----------------------------------------------------------------------------
(* __init__ and set_agent *)

\* _sync_from_per_round_state: on to the first round, from this one, not closed.
Sync(n) ==
    \E N \in Rounds :
        /\ N >= round[n] /\ round_done[N] # "closed"
        /\ \A M \in Rounds : round[n] <= M /\ M < N => round_done[M] = "closed"
        /\ round' = [round EXCEPT ![n] = N]

\* The constructor of the store host goes on with the shutdown key; a launcher's
\* agent syncs the round in set_agent, the control process has no agent.
AfterRoundKey(n) ==
    IF n = Host THEN Goto(n, "keyCheck") /\ UNCHANGED round
    ELSE Goto(n, "s0") /\ Sync(n)

\* The round-0 key is there, or this process is about to create it.
InitCheck(n) ==
    /\ pc[n] = "init"
    /\ IF round_done[0] = "absent"
       THEN Goto(n, "initSet") /\ UNCHANGED round
       ELSE AfterRoundKey(n)
    /\ UNCHANGED <<store, slot, expected, rank, host>>

InitSet(n) ==
    /\ pc[n] = "initSet"
    /\ round_done' = [round_done EXCEPT ![0] = "open"]
    /\ AfterRoundKey(n)
    /\ UNCHANGED <<join_count, slot_key, rank_key, shutdown, unhealthy_count,
                   unhealthy_groups, slot, expected, rank, host>>

\* The host creates the shutdown key with the open value b"" if it is not there:
\* a check, then an unconditional set.
InitShutdownCheck ==
    /\ pc[Host] = "keyCheck"
    /\ IF shutdown = "absent"
       THEN Goto(Host, "keySet") /\ UNCHANGED round
       ELSE /\ Goto(Host, "s0")
            /\ IF Embedded THEN Sync(Host) ELSE UNCHANGED round
    /\ UNCHANGED <<store, slot, expected, rank, host>>

InitShutdownSet ==
    /\ pc[Host] = "keySet"
    /\ shutdown' = "empty"
    /\ Goto(Host, "s0")
    /\ IF Embedded THEN Sync(Host) ELSE UNCHANGED round
    /\ UNCHANGED <<round_done, join_count, slot_key, rank_key, unhealthy_count,
                   unhealthy_groups, slot, expected, rank, host>>

-----------------------------------------------------------------------------
(* Step 0: _wait_for_rendezvous_open *)

WaitCheckShutdown(n) ==
    /\ pc[n] = "s0"
    /\ Goto(n, IF IsShutdown THEN "gone" ELSE "s0read")
    /\ UNCHANGED <<store, round, slot, expected, rank, host>>

\* The host's close loop starts with a fresh last-call gate.
EnterCloseLoop(n) == Goto(n, "close") /\ gate' = "unset"

\* An open round: join it, unless the health check fails.  A closed one: sync.
WaitReadRound(n) ==
    /\ pc[n] = "s0read"
    /\ \/ /\ round_done[round[n]] = "absent"
          /\ Goto(n, "s0") /\ UNCHANGED <<round, gate>>
       \/ /\ round_done[round[n]] = "closed"
          /\ Goto(n, "s0") /\ Sync(n) /\ UNCHANGED gate
       \/ /\ round_done[round[n]] = "open" /\ n \in Launchers
          /\ Goto(n, "add") \/ (n \in Unhealthy /\ Goto(n, "count"))
          /\ UNCHANGED <<round, gate>>
       \/ /\ round_done[round[n]] = "open" /\ n \notin Launchers
          /\ EnterCloseLoop(n) /\ UNCHANGED round
    /\ UNCHANGED <<store, slot, expected, rank, present, probed, snapshot, previous_active>>

\* ensure_node_is_healthy, or an exclude request, fails: count the node, then
\* mark its replacement group, then leave without shutting anything down.
CountUnhealthy(n) ==
    /\ pc[n] = "count"
    /\ unhealthy_count' = IF JobArray THEN unhealthy_count ELSE unhealthy_count + 1
    /\ Goto(n, "mark")
    /\ UNCHANGED <<round_done, join_count, slot_key, rank_key, shutdown,
                   unhealthy_groups, round, slot, expected, rank, host>>

MarkGroupUnhealthy(n) ==
    /\ pc[n] = "mark"
    /\ unhealthy_groups' =
          IF Group[n] = NoGroup THEN unhealthy_groups
          ELSE [unhealthy_groups EXCEPT ![round[n]] = @ \cup {Group[n]}]
    /\ Goto(n, "gone")
    /\ UNCHANGED <<round_done, join_count, slot_key, rank_key, shutdown,
                   unhealthy_count, round, slot, expected, rank, host>>

-----------------------------------------------------------------------------
(* Step 1: join *)

\* Mutant: the slot is the first one without data, not the counter's.
JoinFirstFree(n) ==
    LET k == Cardinality({i \in Slots : slot_key[i].round = round[n]}) + 1
    IN  /\ pc[n] = "add"
        /\ k \in Slots
        /\ join_count' = [join_count EXCEPT ![round[n]] = k]
        /\ slot' = [slot EXCEPT ![n] = k]
        /\ Goto(n, "rankGet")
        /\ UNCHANGED <<round_done, slot_key, rank_key, shutdown, unhealthy_count,
                       unhealthy_groups, round, expected, rank, host>>

Join(n) ==
    /\ pc[n] = "add"
    /\ join_count[round[n]] < MaxSlots
    /\ join_count' = [join_count EXCEPT ![round[n]] = @ + 1]
    /\ slot' = [slot EXCEPT ![n] = join_count[round[n]] + 1]
    /\ Goto(n, "rankGet")
    /\ UNCHANGED <<round_done, slot_key, rank_key, shutdown, unhealthy_count,
                   unhealthy_groups, round, expected, rank, host>>

(* _round_fenced_compare_set(key, mine): first the read, then the CAS.  A key
   of a newer round sends the launcher back to Step 0; a different value of
   the same round, or a CAS lost to a round that is not newer, is a
   RuntimeError. *)
FencedRead(n, cur, mine, next) ==
    /\ \/ /\ cur.round > mine.round
          /\ Goto(n, "s0") /\ slot' = [slot EXCEPT ![n] = 0] /\ UNCHANGED expected
       \/ /\ cur.round = mine.round /\ cur # mine
          /\ Goto(n, "conflict") /\ UNCHANGED <<slot, expected>>
       \/ /\ cur.round < mine.round \/ cur = mine
          /\ Goto(n, next) /\ expected' = [expected EXCEPT ![n] = cur] /\ UNCHANGED slot
    /\ UNCHANGED <<store, round, rank, host>>

\* Whether the CAS leaves the value of this round in the key, where the launcher
\* goes on at "next".
CasAccepted(n, cur, mine) == cur = expected[n] \/ cur = mine

CasAfter(n, cur, mine, next) ==
    /\ expected' = [expected EXCEPT ![n] = AbsentRank]
    /\ \/ CasAccepted(n, cur, mine) /\ Goto(n, next) /\ UNCHANGED slot
       \/ /\ ~CasAccepted(n, cur, mine) /\ cur.round > mine.round
          /\ Goto(n, "s0") /\ slot' = [slot EXCEPT ![n] = 0]
       \/ /\ ~CasAccepted(n, cur, mine) /\ cur.round <= mine.round
          /\ Goto(n, "fault") /\ UNCHANGED slot
    /\ UNCHANGED <<round, rank>>

MyRank(n) == [round |-> round[n], rank |-> UNASSIGNED]
MySlot(n) == [round |-> round[n], node |-> n]

ReadRankKey(n) ==
    pc[n] = "rankGet" /\ FencedRead(n, rank_key[slot[n]], MyRank(n), "rankSet")

\* Mutant: the write ignores what is in the key by now.
OverwriteRankKey(n) ==
    /\ pc[n] = "rankSet"
    /\ rank_key' = [rank_key EXCEPT ![slot[n]] = MyRank(n)]
    /\ expected' = [expected EXCEPT ![n] = AbsentRank]
    /\ Goto(n, "slotGet")
    /\ UNCHANGED <<round_done, join_count, slot_key, shutdown, unhealthy_count,
                   unhealthy_groups, round, slot, rank, host>>

WriteRankKey(n) ==
    LET cur == rank_key[slot[n]] IN
    /\ pc[n] = "rankSet"
    /\ rank_key' = IF CasAccepted(n, cur, MyRank(n))
                   THEN [rank_key EXCEPT ![slot[n]] = MyRank(n)] ELSE rank_key
    /\ CasAfter(n, cur, MyRank(n), "slotGet")
    /\ UNCHANGED <<round_done, join_count, slot_key, shutdown, unhealthy_count,
                   unhealthy_groups, host>>

ReadSlotKey(n) ==
    pc[n] = "slotGet" /\ FencedRead(n, slot_key[slot[n]], MySlot(n), "slotSet")

\* Non-hosts go on to Step 3, the embedded host to Step 2.
WriteSlotKey(n) ==
    LET cur == slot_key[slot[n]] IN
    /\ pc[n] = "slotSet"
    /\ slot_key' = IF CasAccepted(n, cur, MySlot(n))
                   THEN [slot_key EXCEPT ![slot[n]] = MySlot(n)] ELSE slot_key
    /\ CasAfter(n, cur, MySlot(n), IF n = Host THEN "close" ELSE "s3")
    /\ gate' = IF n = Host THEN "unset" ELSE gate
    /\ UNCHANGED <<round_done, join_count, rank_key, shutdown, unhealthy_count,
                   unhealthy_groups, present, probed, snapshot, previous_active>>

-----------------------------------------------------------------------------
(* Step 2: _host_close_round, by the store host alone *)

\* The control process builds its barrier state without replacement_group_size.
HostGroupSize == IF Embedded THEN ReplacementGroupSize ELSE 0

TooManyUnhealthy == unhealthy_count > MaxNodes - MinNodes

\* Head of the loop: shutdown, then the number of unhealthy nodes.
HostCheck ==
    /\ pc[Host] = "close"
    /\ \/ /\ IsShutdown
          /\ Goto(Host, "gone") /\ UNCHANGED shutdown
       \/ /\ ~IsShutdown /\ TooManyUnhealthy
          /\ shutdown' = "failure" /\ UNCHANGED pc
       \/ /\ ~IsShutdown /\ ~TooManyUnhealthy
          /\ Goto(Host, "probe") /\ UNCHANGED shutdown
    /\ UNCHANGED <<round_done, join_count, slot_key, rank_key, unhealthy_count,
                   unhealthy_groups, round, slot, expected, rank, host>>

\* Mutant: one claim more than needed.
HostProbeStrict ==
    /\ pc[Host] = "probe"
    /\ IF join_count[round[Host]] <= MinNodes
       THEN Goto(Host, "close") /\ UNCHANGED <<probed, present>>
       ELSE /\ probed' = join_count[round[Host]]
            /\ present' = {k \in 1 .. probed' : slot_key[k] # AbsentSlot}
            /\ Goto(Host, "fetch")
    /\ UNCHANGED <<store, round, slot, expected, rank, snapshot, gate, previous_active>>

\* With MinNodes claims, see which of the claimed slots have data.
HostProbe ==
    /\ pc[Host] = "probe"
    /\ IF join_count[round[Host]] < MinNodes
       THEN Goto(Host, "close") /\ UNCHANGED <<probed, present>>
       ELSE /\ probed' = join_count[round[Host]]
            /\ present' = {k \in 1 .. probed' : slot_key[k] # AbsentSlot}
            /\ Goto(Host, "fetch")
    /\ UNCHANGED <<store, round, slot, expected, rank, snapshot, gate, previous_active>>

\* multi_get of those slots; start over when somebody joined meanwhile.
HostFetch ==
    LET r == round[Host] IN
    /\ pc[Host] = "fetch"
    /\ \/ /\ join_count[r] # probed
          /\ Goto(Host, "close") /\ UNCHANGED snapshot
       \/ /\ join_count[r] = probed
          /\ snapshot' = [k \in Slots |-> IF k \in present /\ slot_key[k].round = r
                                          THEN slot_key[k].node ELSE NoNode]
          /\ Goto(Host, "decide")
    /\ probed' = 0 /\ present' = {}
    /\ UNCHANGED <<store, round, slot, expected, rank, gate, previous_active>>

CurrentParticipants ==
    {Desc(n) : n \in {snapshot[k] : k \in Slots} \ {NoNode}}

\* Mutant: participants of unhealthy replacement groups stay in.
ParticipantsUnfiltered == CurrentParticipants

\* Those in the snapshot, without the replacement groups marked unhealthy this round.
HealthyParticipants ==
    {p \in CurrentParticipants :
        p.group = NoGroup \/ p.group \notin unhealthy_groups[round[Host]]}

GateEnabled == round[Host] > 0 /\ MaxNodes > MinNodes /\ LastCall

\* Previously active nodes whose group is healthy and that are not back.
MissingPreviousActive ==
    IF ~GateEnabled THEN {}
    ELSE {a \in previous_active : a[2] \notin unhealthy_groups[round[Host]]}
         \ {a \in previous_active : \E p \in HealthyParticipants : p.infra = a[1]}

DuplicateAddr == \E p, q \in HealthyParticipants : p # q /\ p.addr = q.addr

\* _remember_previous_active_membership: None, here {}, unless MinNodes nodes are
\* active and each has a stable rank.
ActiveMembership(A, ranks) ==
    LET active == {p \in A : ranks[p] < MinNodes}
    IN  IF (\E p \in active : p.infra < 0) \/ Cardinality(active) # MinNodes THEN {}
        ELSE {<<p.infra, p.group>> : p \in active}

\* The rank keys after the host's multi_set, which is unconditional.
RanksWritten(ranks) ==
    [k \in Slots |->
        IF snapshot[k] # NoNode /\ Desc(snapshot[k]) \in DOMAIN ranks
        THEN [round |-> round[Host], rank |-> ranks[Desc(snapshot[k])]]
        ELSE rank_key[k]]

\* The unhealthy groups are read and the snapshot is judged: assign the ranks of
\* its healthy participants, go round the loop again, or stop.
HostDecide ==
    LET feasible == CanMeetSegmentConstraint(
                        CompleteParticipants(HealthyParticipants, HostGroupSize), MinNodes)
        lastCall == MissingPreviousActive # {} /\ gate # "expired"
        again == Goto(Host, "close") /\ snapshot' = NoSnapshot
    IN
    /\ pc[Host] = "decide"
    /\ \/ /\ ~feasible
          /\ again /\ UNCHANGED <<shutdown, gate>>
       \/ /\ feasible /\ lastCall
          /\ gate' = "armed"
          /\ again /\ UNCHANGED shutdown
       \/ /\ feasible /\ ~lastCall /\ DuplicateAddr
          /\ shutdown' = ShutdownWith("failure")
          /\ again /\ UNCHANGED gate
       \/ /\ feasible /\ ~lastCall /\ ~DuplicateAddr
          /\ snapshot' = [k \in Slots |->
                IF snapshot[k] # NoNode /\ Desc(snapshot[k]) \in HealthyParticipants
                THEN snapshot[k] ELSE NoNode]
          /\ Goto(Host, "assign")
          /\ UNCHANGED <<shutdown, gate>>
    /\ UNCHANGED <<round_done, join_count, slot_key, rank_key, unhealthy_count,
                   unhealthy_groups, round, slot, expected, rank, present, probed,
                   previous_active>>

\* assign_group_ranks: two equal infrastructure ranks are a RuntimeError.
HostAssign ==
    LET A == CompleteParticipants(CurrentParticipants, HostGroupSize)
        S == IncompleteParticipants(CurrentParticipants, HostGroupSize)
        ranks == AssignGroupRanks(A, S, MinNodes)
    IN
    /\ pc[Host] = "assign"
    /\ \/ /\ DuplicateInfra(A \cup S)
          /\ Goto(Host, "fault") /\ UNCHANGED <<rank_key, previous_active>>
       \/ /\ ~DuplicateInfra(A \cup S)
          /\ rank_key' = RanksWritten(ranks)
          /\ previous_active' = ActiveMembership(A, ranks)
          /\ Goto(Host, "finish")
    /\ UNCHANGED <<round_done, join_count, slot_key, shutdown, unhealthy_count,
                   unhealthy_groups, round, slot, expected, rank, present, probed,
                   snapshot, gate>>

\* The last-call deadline passes.
LastCallExpires ==
    /\ gate = "armed" /\ gate' = "expired"
    /\ UNCHANGED <<store, local, present, probed, snapshot, previous_active>>

\* Only now, with every rank written, the round is closed.  The embedded host
\* goes on to Step 3, the control process to the next round.
HostFinish ==
    /\ pc[Host] = "finish"
    /\ round_done' = [round_done EXCEPT ![round[Host]] = "closed"]
    /\ Goto(Host, IF Embedded THEN "s3" ELSE "s0")
    /\ snapshot' = NoSnapshot /\ gate' = "unset"
    /\ UNCHANGED <<join_count, slot_key, rank_key, shutdown, unhealthy_count,
                   unhealthy_groups, round, slot, expected, rank,
                   present, probed, previous_active>>

-----------------------------------------------------------------------------
(* Step 3: _wait_for_round_done, and the end of perform_rendezvous *)

DoneCheckShutdown(n) ==
    /\ pc[n] = "s3"
    /\ Goto(n, IF IsShutdown THEN "gone" ELSE "s3done")
    /\ UNCHANGED <<store, round, slot, expected, rank, host>>

DoneReadRound(n) ==
    /\ pc[n] = "s3done"
    /\ Goto(n, IF round_done[round[n]] = "closed" THEN "s3rank" ELSE "s3")
    /\ UNCHANGED <<store, round, slot, expected, rank, host>>

IsActive(k) == k # UNASSIGNED /\ k < MinNodes

\* Mutant: the rank is taken from the key whatever round wrote it.
DoneReadAnyRank(n) ==
    LET assigned == rank_key[slot[n]].rank IN
    /\ pc[n] = "s3rank"
    /\ IF IsActive(assigned)
       THEN Goto(n, "active") /\ rank' = [rank EXCEPT ![n] = assigned] /\ UNCHANGED slot
       ELSE Goto(n, "s0") /\ slot' = [slot EXCEPT ![n] = 0] /\ UNCHANGED rank
    /\ UNCHANGED <<store, round, expected, host>>

\* A rank of another round counts as unassigned; a late joiner and a standby
\* node go back to Step 0.
DoneReadRank(n) ==
    LET written == rank_key[slot[n]]
        assigned == IF written.round = round[n] THEN written.rank ELSE UNASSIGNED
    IN
    /\ pc[n] = "s3rank"
    /\ IF IsActive(assigned)
       THEN Goto(n, "active") /\ rank' = [rank EXCEPT ![n] = assigned] /\ UNCHANGED slot
       ELSE Goto(n, "s0") /\ slot' = [slot EXCEPT ![n] = 0] /\ UNCHANGED rank
    /\ UNCHANGED <<store, round, expected, host>>

-----------------------------------------------------------------------------
(* The agent's monitor loop around the rendezvous (launcher.py) *)

NextRound(n) == round_done[round[n] + 1]

LeaveWorld(n) ==
    rank' = [rank EXCEPT ![n] = UNASSIGNED] /\ slot' = [slot EXCEPT ![n] = 0]

\* Its workers failed: open the next round unless somebody has, and rejoin.
\* open_rendezvous() checks the key here and sets it in OpenNextRound.
WorkersFailed(n) ==
    /\ pc[n] = "active" /\ n \in Failing /\ round[n] < MaxRound
    /\ Goto(n, IF NextRound(n) = "absent" THEN "open" ELSE "s0")
    /\ LeaveWorld(n)
    /\ UNCHANGED <<store, round, expected, host>>

OpenNextRound(n) ==
    /\ pc[n] \in {"open", "stopOpen"}
    /\ round_done' = [round_done EXCEPT ![round[n] + 1] = "open"]
    /\ Goto(n, IF pc[n] = "open" THEN "s0" ELSE "gone")
    /\ UNCHANGED <<join_count, slot_key, rank_key, shutdown, unhealthy_count,
                   unhealthy_groups, round, slot, expected, rank, host>>

\* Its workers are fine but a peer opened the next round: rejoin, or end when
\* the round was opened to say that the job must not restart.
PeerOpenedRound(n) ==
    /\ pc[n] = "active" /\ NextRound(n) # "absent"
    /\ Goto(n, IF shutdown = "no_restart" THEN "gone" ELSE "s0")
    /\ LeaveWorld(n)
    /\ UNCHANGED <<store, round, expected, host>>

\* signal_no_restart: the reason first, then the next round is opened.  It comes
\* out of the monitor loop, or out of a wait of the host, which then leaves.
MayStop(n) ==
    /\ n \in Stopping /\ round[n] < MaxRound
    /\ pc[n] = "active" \/ (n = Host /\ pc[n] \in {"s0", "close"})

\* Mutant: a plain set, so that a later reason replaces the first.
SignalOverwrites(n) ==
    /\ MayStop(n)
    /\ shutdown' = "no_restart"
    /\ Goto(n, "stop")
    /\ LeaveWorld(n)
    /\ UNCHANGED <<round_done, join_count, slot_key, rank_key, unhealthy_count,
                   unhealthy_groups, round, expected, host>>

SignalNoRestart(n) ==
    /\ MayStop(n)
    /\ shutdown' = ShutdownWith("no_restart")
    /\ Goto(n, "stop")
    /\ LeaveWorld(n)
    /\ UNCHANGED <<round_done, join_count, slot_key, rank_key, unhealthy_count,
                   unhealthy_groups, round, expected, host>>

SignalCheckNextRound(n) ==
    /\ pc[n] = "stop"
    /\ Goto(n, IF NextRound(n) = "absent" THEN "stopOpen" ELSE "gone")
    /\ UNCHANGED <<store, round, slot, expected, rank, host>>

\* The workers finished, or failed with no restart left.
LeaveJob(n) ==
    /\ pc[n] = "active" /\ n \in Finishing
    /\ \E reason \in {"graceful", "failure"} : ExitWith(n, reason)
    /\ LeaveWorld(n)
    /\ UNCHANGED <<round_done, join_count, slot_key, rank_key, unhealthy_count,
                   unhealthy_groups, round, expected, host>>

\* A local rank, hence of an earlier round, asked for ShutdownWorkload; the
\* pre-join hook closes the rendezvous and the join goes on.
ShutdownWorkload(n) ==
    /\ pc[n] = "add" /\ n \in Finishing /\ round[n] > 0
    /\ shutdown' = ShutdownWith("graceful")
    /\ UNCHANGED <<round_done, join_count, slot_key, rank_key, unhealthy_count,
                   unhealthy_groups, local, host>>

\* RendezvousTimeoutError and RuntimeError end the process; a launcher's exit
\* path then shuts the rendezvous down with the reason "graceful".
JoinTimeout(n) ==
    /\ pc[n] \in {"s3", "close"} /\ n \in Impatient
    /\ ExitWith(n, "graceful")
    /\ UNCHANGED <<round_done, join_count, slot_key, rank_key, unhealthy_count,
                   unhealthy_groups, round, slot, expected, rank, host>>

FaultExit(n) ==
    /\ pc[n] \in {"fault", "conflict"}
    /\ ExitWith(n, "graceful")
    /\ UNCHANGED <<round_done, join_count, slot_key, rank_key, unhealthy_count,
                   unhealthy_groups, round, slot, expected, rank, host>>

\* The process is killed wherever it is.
Crash(n) ==
    /\ n \in Crashing /\ pc[n] # "gone"
    /\ Goto(n, "gone") /\ LeaveWorld(n)
    /\ UNCHANGED <<store, round, expected, host>>

-----------------------------------------------------------------------------
Init ==
    /\ round_done = [r \in Rounds |-> IF r = 0 /\ ~ColdStart THEN "open" ELSE "absent"]
    /\ join_count = [r \in Rounds |-> 0]
    /\ slot_key = [k \in Slots |-> AbsentSlot]
    /\ rank_key = [k \in Slots |-> AbsentRank]
    /\ shutdown = IF ColdStart THEN "absent" ELSE "empty"
    /\ unhealthy_count = 0
    /\ unhealthy_groups = [r \in Rounds |-> {}]
    /\ pc = [n \in Procs |-> "init"]
    /\ round = [n \in Procs |-> 0]
    /\ slot = [n \in Procs |-> 0]
    /\ expected = [n \in Procs |-> AbsentRank]
    /\ rank = [n \in Procs |-> UNASSIGNED]
    /\ present = {} /\ probed = 0 /\ snapshot = NoSnapshot
    /\ gate = "unset" /\ previous_active = {}

\* The steps a live process keeps taking.
Joining(n) ==
    \/ InitCheck(n) \/ InitSet(n) \/ WaitCheckShutdown(n) \/ WaitReadRound(n)
    \/ CountUnhealthy(n) \/ MarkGroupUnhealthy(n)
    \/ Join(n) \/ ReadRankKey(n) \/ WriteRankKey(n) \/ ReadSlotKey(n) \/ WriteSlotKey(n)
    \/ DoneCheckShutdown(n) \/ DoneReadRound(n) \/ DoneReadRank(n)

Monitoring(n) ==
    OpenNextRound(n) \/ PeerOpenedRound(n) \/ SignalCheckNextRound(n) \/ FaultExit(n)

Closing ==
    \/ InitShutdownCheck \/ InitShutdownSet
    \/ HostCheck \/ HostProbe \/ HostFetch \/ HostDecide \/ HostAssign \/ HostFinish


\* What may befall a process.
Events(n) ==
    \/ WorkersFailed(n) \/ SignalNoRestart(n) \/ LeaveJob(n) \/ ShutdownWorkload(n)
    \/ JoinTimeout(n) \/ Crash(n)

Next == Closing \/ LastCallExpires \/ \E n \in Procs : Joining(n) \/ Monitoring(n) \/ Events(n)

Spec == Init /\ [][Next]_vars

\* Every live process keeps polling, and the last-call deadline comes.
Fairness ==
    /\ \A n \in Procs : WF_vars(Joining(n) \/ Monitoring(n))
    /\ WF_vars(Closing)
    /\ WF_vars(LastCallExpires)

FairSpec == Spec /\ Fairness
=============================================================================
