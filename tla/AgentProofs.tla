----------------------------- MODULE AgentProofs -----------------------------
(* The restart budget and the ends of the job, for any number of launchers,   *)
(* rounds and restarts, and what the launchers have from their rendezvous.    *)
EXTENDS ElasticAgentProperties, FiniteSetTheorems, TLAPS

Labels == {"new", "waiting", "joined", "monitoring", "opening", "stopping",
           "failing", "exitBarrier", "exited"}

(* The variables the budget depends on hold values of their kind.             *)
Types ==
    /\ phase \in [Rounds -> {"absent", "open", "closed"}]
    /\ members \in [Rounds -> {NoWorld} \cup Worlds]
    /\ pc \in [Launchers -> Labels]
    /\ round \in [Launchers -> Rounds]
    /\ started \in [Launchers -> Rounds]
    /\ remaining \in [Launchers -> Int]

(* A round that is not closed has no world yet.                               *)
OpenHasNoWorld == \A r \in Rounds : phase[r] # "closed" => members[r] = NoWorld

(* A launcher is never behind the rounds it is a member of.                  *)
MembersHaveArrived ==
    \A n \in Launchers, r \in Rounds :
        n \in DOMAIN members[r] => pc[n] # "new" /\ r <= round[n]

Paid(n, bound) ==
    remaining[n] = MaxRestarts - started[n] - Cardinality(CyclesRun(n, bound))

(* The budget at every place where a launcher is between two cycles: before   *)
(* its round is closed the round does not count, once it has paid for the     *)
(* round it does.                                                             *)
BudgetOf(n) ==
    /\ started[n] <= round[n]
    /\ pc[n] \in {"joined", "monitoring"} => Paid(n, round[n])
    /\ pc[n] \in {"waiting", "opening"} => Paid(n, round[n] + 1)
    /\ pc[n] = "monitoring" => n \in DOMAIN members[round[n]]

AgentInv ==
    /\ Types
    /\ OpenHasNoWorld
    /\ MembersHaveArrived
    /\ \A n \in Launchers : BudgetOf(n)

-----------------------------------------------------------------------------
LEMMA RoundsAreNaturals == Rounds \subseteq Nat
  BY AgentAssumption, Zenon DEF AgentAssumption

LEMMA CyclesAreFinite ==
    ASSUME NEW n \in Launchers, NEW b \in Nat, Types
    PROVE  /\ IsFiniteSet(CyclesRun(n, b))
           /\ Cardinality(CyclesRun(n, b)) \in Nat
<1>1. CyclesRun(n, b) \in SUBSET (0 .. b)
  <2>1. \A r \in CyclesRun(n, b) : r \in Rounds /\ r < b
    BY SMT DEF CyclesRun
  <2>2. \A r \in CyclesRun(n, b) : r \in Nat
    BY <2>1, RoundsAreNaturals
  <2>3. \A r \in CyclesRun(n, b) : r \in 0 .. b
    BY <2>1, <2>2
  <2> QED BY <2>3
<1>2. IsFiniteSet(0 .. b)
  BY FS_Interval
<1>3. IsFiniteSet(CyclesRun(n, b))
  BY <1>1, <1>2, FS_Subset
<1> QED BY <1>3, FS_CardinalityType

-----------------------------------------------------------------------------
(* Most steps of a launcher leave the rounds it counts alone, or take it out  *)
(* of the part of its run the budget is about.                                *)
Beyond == {"stopping", "failing", "exitBarrier", "exited"}

QuietStep ==
    /\ UNCHANGED <<members, round, started>>
    /\ phase' \in [Rounds -> {"absent", "open", "closed"}]
    /\ \A r \in Rounds : phase'[r] # "closed" => phase[r] # "closed"
    /\ pc' \in [Launchers -> Labels]
    /\ \A n \in Launchers :
          pc'[n] \in Beyond \/ pc'[n] = pc[n]
    /\ UNCHANGED remaining

LEMMA QuietStepsKeepIt ==
    ASSUME AgentInv, QuietStep
    PROVE  AgentInv'
<1>1. Types'
  BY DEF AgentInv, Types, QuietStep
<1>2. OpenHasNoWorld'
  BY DEF AgentInv, OpenHasNoWorld, QuietStep
<1>3. MembersHaveArrived'
  BY DEF AgentInv, MembersHaveArrived, QuietStep, Beyond
<1>4. ASSUME NEW n \in Launchers PROVE BudgetOf(n)'
  BY DEF AgentInv, BudgetOf, Paid, CyclesRun, QuietStep, Beyond
<1> QED BY <1>1, <1>2, <1>3, <1>4 DEF AgentInv

(* All ways to end, to open a round, to save a checkpoint, and what befalls   *)
(* the workers, are such steps.                                               *)
LEMMA OpeningIsQuiet ==
    ASSUME Types, NEW n \in Launchers, OpenNextRound(n)
    PROVE  /\ members' = members
           /\ phase' \in [Rounds -> {"absent", "open", "closed"}]
           /\ \A r \in Rounds : phase'[r] # "closed" => phase[r] # "closed"
  BY DEF Types, OpenNextRound, OpenRound, rounds

LEMMA EndingsAreQuiet ==
    ASSUME AgentInv, NEW n \in Launchers,
           \/ RendezvousClosed(n) \/ JoinTimeout(n) \/ NodeUnhealthy(n)
           \/ PeerStops(n) \/ FailJob(n) \/ Succeed(n) \/ Lost(n)
           \/ AttributionStop(n) \/ WorkersSucceeded(n)
    PROVE  QuietStep
<1>1. UNCHANGED <<members, round, started, remaining, phase>>
  BY DEF RendezvousClosed, JoinTimeout, NodeUnhealthy, PeerStops, FailJob, Succeed,
         Lost, AttributionStop, WorkersSucceeded, Exit, Shutdown, Leave, End, rounds
<1>2. \E label \in Beyond : Goto(n, label)
  BY DEF RendezvousClosed, JoinTimeout, NodeUnhealthy, PeerStops, FailJob, Succeed,
         Lost, AttributionStop, WorkersSucceeded, Exit, Beyond
<1> QED BY <1>1, <1>2 DEF QuietStep, AgentInv, Types, Goto, Beyond, Labels

LEMMA FinishStopIsQuiet ==
    ASSUME AgentInv, NEW n \in Launchers, FinishStop(n)
    PROVE  QuietStep
<1>1. OpenNextRound(n) /\ UNCHANGED <<round, started, remaining>> /\ Goto(n, "exited")
  BY DEF FinishStop, Exit
<1>2. Types
  BY DEF AgentInv
<1> QED BY <1>1, <1>2, OpeningIsQuiet DEF QuietStep, Types, Goto, Beyond, Labels

LEMMA TheRestIsQuiet ==
    ASSUME AgentInv,
           \/ GiveUp \/ SaveCheckpoint \/ StopVerdict \/ UNCHANGED vars
           \/ \E n \in Launchers : \E how \in {"failed", "succeeded"} : WorkersEnd(n, how)
    PROVE  QuietStep
<1>1. UNCHANGED <<members, round, started, remaining, phase, pc>>
  BY DEF GiveUp, SaveCheckpoint, StopVerdict, WorkersEnd, vars, rounds, Shutdown, End
<1> QED BY <1>1 DEF QuietStep, AgentInv, Types

-----------------------------------------------------------------------------
(* The steps the budget is about.  A launcher that starts has run in no cycle *)
(* (run(): the cycles that are over count all the same).                      *)
LEMMA StartKeepsIt ==
    ASSUME AgentInv, NEW n \in Launchers, Start(n)
    PROVE  AgentInv'
<1> PICK r \in Rounds : /\ round' = [round EXCEPT ![n] = r]
                        /\ started' = [started EXCEPT ![n] = r]
                        /\ remaining' = [remaining EXCEPT ![n] = MaxRestarts - r]
  BY DEF Start, Synced
<1>1. UNCHANGED rounds /\ Goto(n, "waiting") /\ pc[n] = "new"
  BY DEF Start
<1>2. MaxRestarts \in Nat /\ r \in Nat
  BY AgentAssumption, RoundsAreNaturals DEF AgentAssumption
<1>3. Types'
  BY <1>1, <1>2 DEF AgentInv, Types, Goto, Labels, rounds
<1>4. \A q \in Rounds : n \notin DOMAIN members[q]
  BY <1>1 DEF AgentInv, MembersHaveArrived
<1>5. CyclesRun(n, r + 1)' = {}
  BY <1>1, <1>4 DEF CyclesRun, rounds
<1>6. BudgetOf(n)'
  <2>1. round'[n] = r /\ started'[n] = r /\ remaining'[n] = MaxRestarts - r
    BY DEF AgentInv, Types
  <2>2. Cardinality(CyclesRun(n, round[n] + 1)') = 0
    BY <1>5, <2>1, FS_EmptySet DEF CyclesRun
  <2>3. Paid(n, round[n] + 1)'
    BY <1>2, <2>1, <2>2 DEF Paid
  <2>4. pc'[n] = "waiting"
    BY <1>1 DEF Goto, AgentInv, Types
  <2> QED BY <1>2, <2>1, <2>3, <2>4 DEF BudgetOf
<1>7. ASSUME NEW m \in Launchers, m # n PROVE BudgetOf(m)'
  BY <1>1, <1>7 DEF AgentInv, Types, BudgetOf, Paid, CyclesRun, Goto, rounds
<1>8. OpenHasNoWorld' /\ MembersHaveArrived'
  BY <1>1, <1>4 DEF AgentInv, Types, OpenHasNoWorld, MembersHaveArrived, Goto, rounds
<1> QED BY <1>3, <1>6, <1>7, <1>8 DEF AgentInv

(* The rounds a launcher passes by while it waits have worlds without it.     *)
LEMMA SyncKeepsIt ==
    ASSUME AgentInv, NEW n \in Launchers, Sync(n)
    PROVE  AgentInv'
<1> PICK r \in Rounds : round' = [round EXCEPT ![n] = r] /\ r >= round[n]
  BY DEF Sync, Synced
<1>1. UNCHANGED <<members, phase, pc, started, remaining>> /\ pc[n] = "waiting"
  BY DEF Sync, rounds
<1>2. Types'
  BY <1>1 DEF AgentInv, Types
<1>3. r \in Nat /\ round[n] \in Nat /\ started[n] \in Nat
  BY RoundsAreNaturals DEF AgentInv, Types
<1>4. round'[n] = r
  BY DEF AgentInv, Types
<1>5. CyclesRun(n, round[n] + 1)' = CyclesRun(n, round[n] + 1)
  <2>1. \A q \in Rounds : n \in DOMAIN members[q] => q \in Nat /\ q <= round[n]
    BY RoundsAreNaturals DEF AgentInv, MembersHaveArrived
  <2>2. \A q \in Rounds : n \in DOMAIN members[q] => (q < r + 1 <=> q < round[n] + 1)
    BY <1>3, <2>1
  <2> QED BY <1>1, <1>4, <2>2 DEF CyclesRun
<1>6. BudgetOf(n)'
  BY <1>1, <1>3, <1>4, <1>5 DEF BudgetOf, Paid, AgentInv
<1>7. ASSUME NEW m \in Launchers, m # n PROVE BudgetOf(m)'
  BY <1>1, <1>7 DEF AgentInv, Types, BudgetOf, Paid, CyclesRun
<1>8. MembersHaveArrived'
  BY <1>1, <1>3, <1>4, RoundsAreNaturals DEF AgentInv, Types, MembersHaveArrived
<1>9. OpenHasNoWorld'
  BY <1>1 DEF AgentInv, OpenHasNoWorld
<1> QED BY <1>2, <1>6, <1>7, <1>8, <1>9 DEF AgentInv

(* A round that is open has no members that could have paid for it.           *)
LEMMA JoinKeepsIt ==
    ASSUME AgentInv, NEW n \in Launchers, Join(n)
    PROVE  AgentInv'
<1>1. /\ UNCHANGED <<members, phase, round, started, remaining>>
      /\ pc[n] = "waiting" /\ Goto(n, "joined") /\ phase[round[n]] = "open"
  BY DEF Join, rounds
<1>2. Types'
  BY <1>1 DEF AgentInv, Types, Goto, Labels
<1>3. round[n] \in Rounds /\ round[n] \in Nat
  BY RoundsAreNaturals DEF AgentInv, Types
<1>4. n \notin DOMAIN members[round[n]]
  BY <1>1, <1>3 DEF AgentInv, OpenHasNoWorld, NoWorld
<1>5. CyclesRun(n, round[n])' = CyclesRun(n, round[n] + 1)
  <2>1. \A q \in Rounds :
            n \in DOMAIN members[q] => (q < round[n] <=> q < round[n] + 1)
    BY <1>3, <1>4, RoundsAreNaturals
  <2> QED BY <1>1, <2>1 DEF CyclesRun
<1>6. BudgetOf(n)'
  BY <1>1, <1>5 DEF BudgetOf, Paid, AgentInv, Goto, Types
<1>7. ASSUME NEW m \in Launchers, m # n PROVE BudgetOf(m)'
  BY <1>1, <1>7 DEF AgentInv, Types, BudgetOf, Paid, CyclesRun, Goto
<1>8. MembersHaveArrived'
  BY <1>1 DEF AgentInv, Types, MembersHaveArrived, Goto
<1>9. OpenHasNoWorld'
  BY <1>1 DEF AgentInv, OpenHasNoWorld
<1> QED BY <1>2, <1>6, <1>7, <1>8, <1>9 DEF AgentInv

(* The world of a round is made of launchers that wait for it to close.       *)
LEMMA CloseKeepsIt ==
    ASSUME AgentInv, NEW q \in Rounds, Close(q)
    PROVE  AgentInv'
<1> PICK world \in Worlds : members' = [members EXCEPT ![q] = world]
  BY DEF Close, CloseRound
<1>1. /\ UNCHANGED <<pc, round, started, remaining>>
      /\ phase[q] = "open" /\ phase' = [phase EXCEPT ![q] = "closed"]
      /\ DOMAIN members'[q] \subseteq Joined(q)
  BY DEF Close, CloseRound
<1>2. Types'
  BY <1>1 DEF AgentInv, Types
<1>3. DOMAIN members[q] = {}
  BY <1>1 DEF AgentInv, Types, OpenHasNoWorld, NoWorld
<1>4. \A r \in Rounds : r # q => members'[r] = members[r]
  BY DEF AgentInv, Types
<1>5. OpenHasNoWorld'
  BY <1>1, <1>4 DEF AgentInv, Types, OpenHasNoWorld
<1>6. \A n \in DOMAIN members'[q] : n \in Launchers /\ pc[n] = "joined" /\ round[n] = q
  BY <1>1 DEF Joined
<1>7. MembersHaveArrived'
  BY <1>1, <1>4, <1>6, RoundsAreNaturals DEF AgentInv, MembersHaveArrived
<1>8. ASSUME NEW n \in Launchers PROVE BudgetOf(n)'
  <2>1. CASE n \in DOMAIN members'[q]
    <3>1. pc[n] = "joined" /\ round[n] = q
      BY <1>6, <2>1
    <3>2. \A r \in Rounds : r < q => members'[r] = members[r]
      BY <1>4, RoundsAreNaturals
    <3>3. CyclesRun(n, round[n])' = CyclesRun(n, round[n])
      BY <1>1, <3>1, <3>2 DEF CyclesRun
    <3> QED BY <1>1, <3>1, <3>3 DEF AgentInv, BudgetOf, Paid
  <2>2. CASE n \notin DOMAIN members'[q]
    <3>1. \A r \in Rounds : n \in DOMAIN members'[r] <=> n \in DOMAIN members[r]
      BY <1>3, <1>4, <2>2
    <3>2. /\ CyclesRun(n, round[n])' = CyclesRun(n, round[n])
          /\ CyclesRun(n, round[n] + 1)' = CyclesRun(n, round[n] + 1)
      BY <1>1, <3>1 DEF CyclesRun
    <3>3. round[n] \in Rounds
      BY DEF AgentInv, Types
    <3> QED BY <1>1, <3>1, <3>2, <3>3 DEF AgentInv, BudgetOf, Paid
  <2> QED BY <2>1, <2>2
<1> QED BY <1>2, <1>5, <1>7, <1>8 DEF AgentInv

LEMMA StartWorkersKeepsIt ==
    ASSUME AgentInv, NEW n \in Launchers, StartWorkers(n)
    PROVE  AgentInv'
<1>1. /\ UNCHANGED <<members, phase, round, started, remaining>>
      /\ pc[n] = "joined" /\ Goto(n, "monitoring") /\ n \in DOMAIN members[round[n]]
  BY DEF StartWorkers, Enter
<1>2. Types' /\ OpenHasNoWorld' /\ MembersHaveArrived'
  BY <1>1 DEF AgentInv, Types, OpenHasNoWorld, MembersHaveArrived, Goto, Labels
<1>3. ASSUME NEW m \in Launchers PROVE BudgetOf(m)'
  BY <1>1 DEF AgentInv, Types, BudgetOf, Paid, CyclesRun, Goto
<1> QED BY <1>2, <1>3 DEF AgentInv

(* A hot spare pays nothing for the round that closed without it.             *)
LEMMA StandByKeepsIt ==
    ASSUME AgentInv, NEW n \in Launchers, StandBy(n)
    PROVE  AgentInv'
<1>1. /\ UNCHANGED <<members, phase, round, started, remaining>>
      /\ pc[n] = "joined" /\ Goto(n, "waiting") /\ n \notin DOMAIN members[round[n]]
  BY DEF StandBy, rounds
<1>2. Types' /\ OpenHasNoWorld' /\ MembersHaveArrived'
  BY <1>1 DEF AgentInv, Types, OpenHasNoWorld, MembersHaveArrived, Goto, Labels
<1>3. CyclesRun(n, round[n] + 1)' = CyclesRun(n, round[n])
  <2>1. round[n] \in Nat
    BY RoundsAreNaturals DEF AgentInv, Types
  <2>2. \A q \in Rounds :
            n \in DOMAIN members[q] => (q < round[n] <=> q < round[n] + 1)
    BY <1>1, <2>1, RoundsAreNaturals
  <2> QED BY <1>1, <2>2 DEF CyclesRun
<1>4. BudgetOf(n)'
  BY <1>1, <1>3 DEF AgentInv, Types, BudgetOf, Paid, Goto
<1>5. ASSUME NEW m \in Launchers, m # n PROVE BudgetOf(m)'
  BY <1>1, <1>5 DEF AgentInv, Types, BudgetOf, Paid, CyclesRun, Goto
<1> QED BY <1>2, <1>4, <1>5 DEF AgentInv

LEMMA OpenForRestartKeepsIt ==
    ASSUME AgentInv, NEW n \in Launchers, OpenForRestart(n)
    PROVE  AgentInv'
<1>1. /\ OpenNextRound(n) /\ UNCHANGED <<round, started, remaining>>
      /\ pc[n] = "opening" /\ Goto(n, "waiting")
  BY DEF OpenForRestart
<1>2. /\ members' = members
      /\ phase' \in [Rounds -> {"absent", "open", "closed"}]
      /\ \A r \in Rounds : phase'[r] # "closed" => phase[r] # "closed"
  BY <1>1, OpeningIsQuiet DEF AgentInv
<1>3. Types' /\ OpenHasNoWorld' /\ MembersHaveArrived'
  BY <1>1, <1>2 DEF AgentInv, Types, OpenHasNoWorld, MembersHaveArrived, Goto, Labels
<1>4. ASSUME NEW m \in Launchers PROVE BudgetOf(m)'
  BY <1>1, <1>2 DEF AgentInv, Types, BudgetOf, Paid, CyclesRun, Goto
<1> QED BY <1>3, <1>4 DEF AgentInv

(* Whoever restarts, having noticed a failure or the round others opened, has *)
(* one cycle more behind it and pays for one.                                 *)
LEMMA RestartKeepsIt ==
    ASSUME AgentInv, NEW n \in Launchers, NEW opens \in BOOLEAN,
           pc[n] = "monitoring", HandleRestartDecision(n, opens)
    PROVE  AgentInv'
<1>1. UNCHANGED <<members, phase, round, started>>
  BY DEF HandleRestartDecision, Leave
<1>2. CASE UNCHANGED remaining
  <2>1. Goto(n, "stopping") \/ Goto(n, "failing")
    <3>1. remaining[n] \in Int
      BY DEF AgentInv, Types
    <3> QED BY <1>2, <3>1 DEF HandleRestartDecision, AgentInv, Types
  <2>2. QuietStep
    BY <1>1, <1>2, <2>1 DEF QuietStep, AgentInv, Types, Goto, Beyond, Labels
  <2> QED BY <2>2, QuietStepsKeepIt
<1>3. CASE /\ remaining' = [remaining EXCEPT ![n] = @ - 1]
           /\ Goto(n, "opening") \/ Goto(n, "waiting")
  <2>1. Types' /\ OpenHasNoWorld' /\ MembersHaveArrived'
    BY <1>1, <1>3 DEF AgentInv, Types, OpenHasNoWorld, MembersHaveArrived, Goto, Labels
  <2>2. /\ round[n] \in Rounds /\ round[n] \in Nat /\ started[n] \in Nat
        /\ remaining[n] \in Int /\ MaxRestarts \in Nat
    BY RoundsAreNaturals, AgentAssumption DEF AgentInv, Types, AgentAssumption
  <2>3. CyclesRun(n, round[n] + 1)' = CyclesRun(n, round[n]) \cup {round[n]}
    <3>1. n \in DOMAIN members[round[n]] /\ started[n] <= round[n]
      BY DEF AgentInv, BudgetOf
    <3>2. \A q \in Rounds : q < round[n] + 1 <=> q < round[n] \/ q = round[n]
      <4>1. \A k, q \in Nat : q < k + 1 <=> q < k \/ q = k
        OBVIOUS
      <4> QED BY <2>2, <4>1, RoundsAreNaturals
    <3> QED BY <1>1, <2>2, <3>1, <3>2 DEF CyclesRun
  <2>4. Cardinality(CyclesRun(n, round[n] + 1)') = Cardinality(CyclesRun(n, round[n])) + 1
    <3>1. IsFiniteSet(CyclesRun(n, round[n]))
      BY <2>2, CyclesAreFinite DEF AgentInv
    <3>2. round[n] \notin CyclesRun(n, round[n])
      BY <2>2 DEF CyclesRun
    <3> QED BY <2>3, <3>1, <3>2, FS_AddElement
  <2>5. Cardinality(CyclesRun(n, round[n])) \in Nat
    BY <2>2, CyclesAreFinite DEF AgentInv
  <2>6. remaining[n] = MaxRestarts - started[n] - Cardinality(CyclesRun(n, round[n]))
    BY DEF AgentInv, BudgetOf, Paid
  <2>7. Paid(n, round[n] + 1)'
    BY <1>1, <1>3, <2>2, <2>4, <2>5, <2>6 DEF Paid, AgentInv, Types
  <2>8. BudgetOf(n)'
    BY <1>1, <1>3, <2>7 DEF BudgetOf, AgentInv, Types, Goto
  <2>9. ASSUME NEW m \in Launchers, m # n PROVE BudgetOf(m)'
    BY <1>1, <1>3, <2>9 DEF AgentInv, Types, BudgetOf, Paid, CyclesRun, Goto
  <2> QED BY <2>1, <2>8, <2>9 DEF AgentInv
<1> QED BY <1>2, <1>3 DEF HandleRestartDecision

-----------------------------------------------------------------------------
LEMMA AgentInvInit == Init => AgentInv
<1> SUFFICES ASSUME Init PROVE AgentInv
  OBVIOUS
<1>1. 0 \in Rounds /\ MaxRestarts \in Nat /\ Rounds \subseteq Nat
  BY AgentAssumption, RoundsAreNaturals DEF AgentAssumption
<1>2. Types
  BY <1>1 DEF Init, RoundsInit, Types, Labels
<1>3. OpenHasNoWorld
  BY DEF Init, RoundsInit, OpenHasNoWorld
<1>4. \A r \in Rounds : DOMAIN members[r] = {}
  BY DEF Init, RoundsInit, NoWorld
<1>5. MembersHaveArrived
  BY <1>4 DEF MembersHaveArrived
<1>6. ASSUME NEW n \in Launchers PROVE BudgetOf(n)
  BY <1>1 DEF Init, BudgetOf
<1> QED BY <1>2, <1>3, <1>5, <1>6 DEF AgentInv

LEMMA AgentInvNext == AgentInv /\ [Next]_vars => AgentInv'
<1> SUFFICES ASSUME AgentInv, [Next]_vars PROVE AgentInv'
  OBVIOUS
<1>1. ASSUME NEW n \in Launchers, AgentStep(n) PROVE AgentInv'
  <2>1. CASE Start(n)
    BY <2>1, StartKeepsIt
  <2>2. CASE Sync(n)
    BY <2>2, SyncKeepsIt
  <2>3. CASE Join(n)
    BY <2>3, JoinKeepsIt
  <2>4. CASE StartWorkers(n)
    BY <2>4, StartWorkersKeepsIt
  <2>5. CASE StandBy(n)
    BY <2>5, StandByKeepsIt
  <2>6. CASE WorkersFailed(n) \/ PeerRestarts(n)
    BY <2>6, RestartKeepsIt DEF WorkersFailed, PeerRestarts
  <2>7. CASE OpenForRestart(n)
    BY <2>7, OpenForRestartKeepsIt
  <2>8. CASE FinishStop(n)
    BY <2>8, FinishStopIsQuiet, QuietStepsKeepIt
  <2>9. CASE \/ RendezvousClosed(n) \/ JoinTimeout(n) \/ NodeUnhealthy(n)
             \/ PeerStops(n) \/ FailJob(n) \/ Succeed(n) \/ Lost(n)
             \/ AttributionStop(n) \/ WorkersSucceeded(n)
    BY <2>9, EndingsAreQuiet, QuietStepsKeepIt
  <2> QED BY <1>1, <2>1, <2>2, <2>3, <2>4, <2>5, <2>6, <2>7, <2>8, <2>9 DEF AgentStep
<1>2. ASSUME NEW r \in Rounds, Close(r) PROVE AgentInv'
  BY <1>2, CloseKeepsIt
<1>3. ASSUME \/ GiveUp \/ SaveCheckpoint \/ StopVerdict \/ UNCHANGED vars
             \/ \E n \in Launchers : \E how \in {"failed", "succeeded"} : WorkersEnd(n, how)
      PROVE  AgentInv'
  BY <1>3, TheRestIsQuiet, QuietStepsKeepIt
<1> QED BY <1>1, <1>2, <1>3 DEF Next

(* BudgetIsPaidOnce for every number of launchers, rounds and restarts:       *)
(* _handle_restart_decision takes one restart off _remaining_restarts for     *)
(* each cycle of the launcher, whichever branch of the monitor loop got there *)
(* and however many launchers failed in it.                                   *)
THEOREM EveryCycleIsPaid == Spec => []BudgetIsPaidOnce
<1>1. AgentInv => BudgetIsPaidOnce
  BY DEF AgentInv, BudgetOf, Paid, BudgetIsPaidOnce
<1> QED BY <1>1, AgentInvInit, AgentInvNext, PTL DEF Spec

-----------------------------------------------------------------------------
(* What the tracker knows: last_restart_iteration is the latest iteration it  *)
(* read, and no_progress_count says how many readings before it in a row were *)
(* the same.                                                                  *)
TrackerOf(n) ==
    /\ last[n] <= checkpoint
    /\ count[n] < Len(readings[n])
    /\ readings[n][1] = last[n]
    /\ \A i \in 1 .. count[n] : readings[n][i] = readings[n][i + 1]
    /\ count[n] + 1 < Len(readings[n]) =>
          readings[n][count[n] + 1] # readings[n][count[n] + 2]
    /\ pc[n] = "new" => count[n] = 0

TrackerInv ==
    /\ checkpoint \in Nat
    /\ pc \in [Launchers -> Labels]
    /\ last \in [Launchers -> Nat]
    /\ count \in [Launchers -> Nat]
    /\ readings \in [Launchers -> Seq(Nat)]
    /\ \A n \in Launchers : TrackerOf(n)

(* Steps that neither score a cycle nor save a checkpoint.                    *)
LEMMA TrackerLeftAlone ==
    ASSUME TrackerInv, UNCHANGED <<tracker, checkpoint>>, pc' \in [Launchers -> Labels],
           \A n \in Launchers : pc'[n] = "new" => pc[n] = "new"
    PROVE  TrackerInv'
  BY DEF TrackerInv, TrackerOf, tracker

LEMMA MostLeaveTheTracker ==
    ASSUME TrackerInv,
           \/ GiveUp \/ StopVerdict \/ UNCHANGED vars \/ \E r \in Rounds : Close(r)
           \/ \E n \in Launchers :
                 \/ \E how \in {"failed", "succeeded"} : WorkersEnd(n, how)
                 \/ Sync(n) \/ Join(n) \/ StartWorkers(n) \/ StandBy(n)
                 \/ RendezvousClosed(n) \/ JoinTimeout(n) \/ NodeUnhealthy(n)
                 \/ AttributionStop(n) \/ PeerStops(n) \/ OpenForRestart(n)
                 \/ FinishStop(n) \/ FailJob(n) \/ WorkersSucceeded(n) \/ Succeed(n)
                 \/ Lost(n)
    PROVE  TrackerInv'
<1>1. UNCHANGED <<tracker, checkpoint>>
  BY DEF GiveUp, StopVerdict, vars, Close, WorkersEnd, Sync, Join, StartWorkers, StandBy,
         RendezvousClosed, JoinTimeout, NodeUnhealthy, AttributionStop, PeerStops,
         OpenForRestart, FinishStop, FailJob, WorkersSucceeded, Succeed, Lost, Exit
<1>2. UNCHANGED pc \/ \E n \in Launchers, label \in Labels \ {"new"} : Goto(n, label)
  BY DEF GiveUp, StopVerdict, vars, Close, WorkersEnd, Sync, Join, StartWorkers, StandBy,
         RendezvousClosed, JoinTimeout, NodeUnhealthy, AttributionStop, PeerStops,
         OpenForRestart, FinishStop, FailJob, WorkersSucceeded, Succeed, Lost, Exit, Labels
<1> QED BY <1>1, <1>2, TrackerLeftAlone DEF TrackerInv, Goto

LEMMA StartSetsTheBaseline ==
    ASSUME TrackerInv, NEW n \in Launchers, Start(n)
    PROVE  TrackerInv'
<1>1. /\ pc[n] = "new" /\ Goto(n, "waiting") /\ UNCHANGED <<count, checkpoint>>
      /\ \E it \in {checkpoint, 0} : last' = [last EXCEPT ![n] = it]
      /\ readings' = [readings EXCEPT ![n] = <<last'[n]>>]
  BY DEF Start
<1> PICK it \in {checkpoint, 0} : last' = [last EXCEPT ![n] = it]
  BY <1>1
<1>2. it \in Nat /\ it <= checkpoint /\ last'[n] = it
  BY DEF TrackerInv
<1>3. <<it>> \in Seq(Nat) /\ Len(<<it>>) = 1 /\ <<it>>[1] = it
  BY <1>2
<1>4. readings' = [readings EXCEPT ![n] = <<it>>]
  BY <1>1, <1>2
<1>5. TrackerOf(n)'
  BY <1>1, <1>2, <1>3, <1>4 DEF TrackerInv, TrackerOf, Goto
<1>6. ASSUME NEW m \in Launchers, m # n PROVE TrackerOf(m)'
  BY <1>1, <1>4, <1>6 DEF TrackerInv, TrackerOf, Goto
<1> QED BY <1>1, <1>2, <1>3, <1>4, <1>5, <1>6 DEF TrackerInv, Goto, Labels

LEMMA SavingIsProgress ==
    ASSUME TrackerInv, SaveCheckpoint
    PROVE  TrackerInv'
<1>1. UNCHANGED <<tracker, pc>> /\ checkpoint' = checkpoint + 1
  BY DEF SaveCheckpoint
<1> QED BY <1>1 DEF TrackerInv, TrackerOf, tracker

(* A cycle is scored against the reading before it, which is put in front.    *)
LEMMA ScoringIsExact ==
    ASSUME TrackerInv, NEW n \in Launchers, NEW opens \in BOOLEAN,
           HandleRestartDecision(n, opens)
    PROVE  TrackerInv'
<1>1. \E label \in Labels \ {"new"} : Goto(n, label)
  BY DEF HandleRestartDecision, Labels
<1>2. checkpoint' = checkpoint
  BY DEF HandleRestartDecision
<1>3. CASE UNCHANGED <<last, count, readings>>
  <2>1. pc' \in [Launchers -> Labels] /\ \A m \in Launchers : pc'[m] = "new" => pc[m] = "new"
    BY <1>1 DEF TrackerInv, Goto
  <2> QED BY <1>2, <1>3, <2>1 DEF TrackerInv, TrackerOf
<1>4. CASE /\ last' = [last EXCEPT ![n] = checkpoint]
           /\ count' = [count EXCEPT ![n] = IF checkpoint - last[n] >= 1 THEN 0 ELSE @ + 1]
           /\ readings' = [readings EXCEPT ![n] = <<checkpoint>> \o @]
  <2>1. /\ checkpoint \in Nat /\ last[n] \in Nat /\ count[n] \in Nat
        /\ readings[n] \in Seq(Nat)
    BY DEF TrackerInv
  <2> DEFINE now == <<checkpoint>> \o readings[n]
  <2>2. /\ now \in Seq(Nat) /\ Len(now) = Len(readings[n]) + 1 /\ now[1] = checkpoint
        /\ \A i \in 1 .. Len(readings[n]) : now[i + 1] = readings[n][i]
    BY <2>1
  <2>3. readings' = [readings EXCEPT ![n] = now]
    BY <1>4
  <2> HIDE DEF now
  <2>4. TrackerOf(n)'
    <3>1. /\ readings'[n] = now /\ last'[n] = checkpoint /\ pc'[n] # "new"
          /\ count'[n] = IF checkpoint - last[n] >= 1 THEN 0 ELSE count[n] + 1
      BY <1>1, <1>4, <2>3 DEF TrackerInv, Goto
    <3>2. /\ last[n] <= checkpoint /\ count[n] < Len(readings[n]) /\ readings[n][1] = last[n]
          /\ \A i \in 1 .. count[n] : readings[n][i] = readings[n][i + 1]
          /\ count[n] + 1 < Len(readings[n]) =>
                readings[n][count[n] + 1] # readings[n][count[n] + 2]
      BY DEF TrackerInv, TrackerOf
    <3>3. CASE checkpoint - last[n] >= 1
      <4>1. count'[n] = 0 /\ checkpoint # last[n] /\ 1 \in 1 .. Len(readings[n])
        BY <2>1, <3>1, <3>2, <3>3
      <4>2. now[1] # now[2]
        BY <2>2, <3>2, <4>1
      <4>3. 0 < Len(now)
        BY <2>1, <2>2
      <4> QED BY <1>2, <2>1, <2>2, <3>1, <4>1, <4>2, <4>3 DEF TrackerOf
    <3>4. CASE ~(checkpoint - last[n] >= 1)
      <4>1. checkpoint = last[n] /\ count'[n] = count[n] + 1
        BY <2>1, <3>1, <3>2, <3>4
      <4>2. ASSUME NEW i \in 1 .. count[n] + 1 PROVE now[i] = now[i + 1]
        <5>1. CASE i = 1
          BY <2>1, <2>2, <3>2, <4>1, <5>1
        <5>2. CASE i # 1
          <6>0. Len(readings[n]) \in Nat /\ count[n] \in Nat /\ count[n] < Len(readings[n])
            BY <2>1, <3>2
          <6>1. i - 1 \in 1 .. count[n] /\ i \in 1 .. Len(readings[n])
                /\ i - 1 \in 1 .. Len(readings[n]) /\ (i - 1) + 1 = i
            BY <5>2, <6>0
          <6>2. now[(i - 1) + 1] = readings[n][i - 1] /\ now[i + 1] = readings[n][i]
            BY <2>2, <6>1
          <6>3. readings[n][i - 1] = readings[n][(i - 1) + 1]
            BY <3>2, <6>1
          <6> QED BY <6>1, <6>2, <6>3
        <5> QED BY <5>1, <5>2
      <4>3. \A i \in 1 .. count'[n] : readings'[n][i] = readings'[n][i + 1]
        BY <3>1, <4>1, <4>2
      <4>4. count'[n] < Len(readings'[n])
        BY <2>1, <2>2, <3>1, <3>2, <4>1
      <4>5. last'[n] <= checkpoint' /\ readings'[n][1] = last'[n] /\ pc'[n] # "new"
        BY <1>2, <2>1, <2>2, <3>1
      <4>6. ASSUME count[n] + 2 < Len(now) PROVE now[count[n] + 2] # now[count[n] + 3]
        <5>1. /\ count[n] + 1 \in 1 .. Len(readings[n]) /\ count[n] + 2 \in 1 .. Len(readings[n])
              /\ (count[n] + 1) + 1 = count[n] + 2 /\ (count[n] + 2) + 1 = count[n] + 3
          <6>1. Len(readings[n]) \in Nat /\ count[n] \in Nat /\ Len(now) = Len(readings[n]) + 1
            BY <2>1, <2>2
          <6>2. count[n] + 2 < Len(readings[n]) + 1
            BY <4>6, <6>1
          <6> HIDE <4>6
          <6> QED BY <6>1, <6>2
        <5>2. readings[n][count[n] + 1] # readings[n][count[n] + 2]
          BY <2>1, <2>2, <3>2, <4>6
        <5>3. /\ now[(count[n] + 1) + 1] = readings[n][count[n] + 1]
              /\ now[(count[n] + 2) + 1] = readings[n][count[n] + 2]
          BY <2>2, <5>1
        <5> QED BY <5>1, <5>2, <5>3
      <4>7. count'[n] + 1 = count[n] + 2 /\ count'[n] + 2 = count[n] + 3
        BY <2>1, <4>1
      <4> QED BY <3>1, <4>3, <4>4, <4>5, <4>6, <4>7 DEF TrackerOf
    <3> QED BY <3>3, <3>4
  <2>5. ASSUME NEW m \in Launchers, m # n PROVE TrackerOf(m)'
    BY <1>1, <1>2, <1>4, <2>3, <2>5 DEF TrackerInv, TrackerOf, Goto
  <2>6. checkpoint' \in Nat /\ pc' \in [Launchers -> Labels]
    BY <1>1, <1>2 DEF TrackerInv, Goto
  <2>7. last' \in [Launchers -> Nat]
    BY <1>4, <2>1 DEF TrackerInv
  <2>8. readings' \in [Launchers -> Seq(Nat)]
    BY <2>2, <2>3 DEF TrackerInv
  <2>9. count' \in [Launchers -> Nat]
    <3>1. (IF checkpoint - last[n] >= 1 THEN 0 ELSE count[n] + 1) \in Nat
      BY <2>1
    <3> QED BY <1>4, <3>1 DEF TrackerInv
  <2> QED BY <2>4, <2>5, <2>6, <2>7, <2>8, <2>9 DEF TrackerInv
<1> QED BY <1>3, <1>4 DEF HandleRestartDecision, AnalyzePreviousCycle, Recorded

LEMMA TrackerInvInit == Init => TrackerInv
<1> SUFFICES ASSUME Init PROVE TrackerInv
  OBVIOUS
<1>1. <<0>> \in Seq(Nat) /\ Len(<<0>>) = 1 /\ <<0>>[1] = 0
  OBVIOUS
<1> QED BY <1>1 DEF Init, TrackerInv, TrackerOf, Labels

LEMMA TrackerInvNext == TrackerInv /\ [Next]_vars => TrackerInv'
<1> SUFFICES ASSUME TrackerInv, [Next]_vars PROVE TrackerInv'
  OBVIOUS
<1>1. ASSUME NEW n \in Launchers, Start(n) PROVE TrackerInv'
  BY <1>1, StartSetsTheBaseline
<1>2. ASSUME NEW n \in Launchers, WorkersFailed(n) \/ PeerRestarts(n) PROVE TrackerInv'
  BY <1>2, ScoringIsExact DEF WorkersFailed, PeerRestarts
<1>3. ASSUME SaveCheckpoint PROVE TrackerInv'
  BY <1>3, SavingIsProgress
<1> QED BY <1>1, <1>2, <1>3, MostLeaveTheTracker DEF Next, AgentStep

(* NoProgressIsReal for every limit, whatever checkpoint the job starts from  *)
(* and however often the file cannot be read                                  *)
(* (TrainingProgressTracker.analyze_previous_cycle).                          *)
THEOREM NoProgressIsCounted == Spec => []NoProgressIsReal
<1>1. TrackerInv => NoProgressIsReal
  <2> DEFINE Stuck(n) ==
        /\ Len(readings[n]) > MaxNoProgressCycles
        /\ \A i \in 1 .. MaxNoProgressCycles : readings[n][i] = readings[n][i + 1]
  <2> SUFFICES ASSUME TrackerInv, MaxNoProgressCycles > 0, NEW n \in Launchers
               PROVE  ShouldTerminateEarly(count[n]) <=> Stuck(n)
    BY DEF NoProgressIsReal
  <2>1. /\ MaxNoProgressCycles \in Nat /\ count[n] \in Nat
        /\ readings[n] \in Seq(Nat) /\ Len(readings[n]) \in Nat
    BY AgentAssumption DEF AgentAssumption, TrackerInv
  <2>2. /\ count[n] < Len(readings[n])
        /\ \A i \in 1 .. count[n] : readings[n][i] = readings[n][i + 1]
        /\ count[n] + 1 < Len(readings[n]) =>
              readings[n][count[n] + 1] # readings[n][count[n] + 2]
    BY DEF TrackerInv, TrackerOf
  <2>3. CASE count[n] >= MaxNoProgressCycles
    <3>1. 1 .. MaxNoProgressCycles \subseteq 1 .. count[n]
      BY <2>1, <2>3
    <3>2. Len(readings[n]) > MaxNoProgressCycles
      BY <2>1, <2>2, <2>3
    <3>3. \A i \in 1 .. MaxNoProgressCycles : readings[n][i] = readings[n][i + 1]
      BY <2>2, <3>1
    <3>4. ShouldTerminateEarly(count[n])
      BY <2>3 DEF ShouldTerminateEarly
    <3> QED BY <3>2, <3>3, <3>4
  <2>4. CASE ~(count[n] >= MaxNoProgressCycles)
    <3>1. ~ShouldTerminateEarly(count[n])
      BY <2>4 DEF ShouldTerminateEarly
    <3>2. count[n] + 1 \in 1 .. MaxNoProgressCycles /\ (count[n] + 1) + 1 = count[n] + 2
      BY <2>1, <2>4
    <3>3. ASSUME Stuck(n) PROVE FALSE
      <4>1. count[n] + 1 < Len(readings[n])
        BY <2>1, <3>2, <3>3
      <4>2. readings[n][count[n] + 1] = readings[n][(count[n] + 1) + 1]
        BY <3>2, <3>3
      <4> QED BY <2>2, <3>2, <4>1, <4>2
    <3> QED BY <3>1, <3>3
  <2> QED BY <2>3, <2>4
<1> QED BY <1>1, TrackerInvInit, TrackerInvNext, PTL DEF Spec

-----------------------------------------------------------------------------
(* The agents go through their rendezvous as RendezvousRounds has it, so that *)
(* what holds of every such rendezvous holds of theirs: every handler makes   *)
(* at most one of its steps (launcher.py calls next_rendezvous,               *)
(* open_rendezvous, set_shutdown and signal_no_restart one at a time).        *)
LEMMA OpenNextIsARoundsStep ==
    ASSUME Types, NEW n \in Launchers, OpenNextRound(n)
    PROVE  [RoundsNext]_rounds
<1>1. CASE UNCHANGED rounds
  BY <1>1
<1>2. CASE OpenRound(round[n] + 1) /\ round[n] + 1 \in Rounds
  BY <1>2 DEF RoundsNext
<1>3. CASE OpenRound(round[n] + 1) /\ round[n] + 1 \notin Rounds
  <2>1. phase' = phase
    BY <1>3 DEF OpenRound, Types
  <2> QED BY <1>3, <2>1 DEF OpenRound, rounds
<1> QED BY <1>1, <1>2, <1>3 DEF OpenNextRound

LEMMA AgentsMakeRoundsSteps == Types /\ [Next]_vars => [RoundsNext]_rounds
<1> SUFFICES ASSUME Types, [Next]_vars PROVE [RoundsNext]_rounds
  OBVIOUS
<1>1. ASSUME NEW n \in Launchers,
             \/ Start(n) \/ Sync(n) \/ Join(n) \/ StandBy(n) \/ RendezvousClosed(n)
             \/ NodeUnhealthy(n) \/ \E how \in {"failed", "succeeded"} : WorkersEnd(n, how)
      PROVE  UNCHANGED rounds
  BY <1>1 DEF Start, Sync, Join, StandBy, RendezvousClosed, NodeUnhealthy, WorkersEnd
<1>2. ASSUME NEW n \in Launchers,
             JoinTimeout(n) \/ FailJob(n) \/ Succeed(n)
      PROVE  End \/ UNCHANGED rounds
  BY <1>2 DEF JoinTimeout, FailJob, Succeed, Shutdown
<1>3. ASSUME NEW n \in Launchers,
             \/ AttributionStop(n) \/ WorkersFailed(n) \/ PeerRestarts(n) \/ PeerStops(n)
             \/ WorkersSucceeded(n) \/ Lost(n)
      PROVE  Leave(n) \/ End \/ UNCHANGED rounds
  BY <1>3 DEF AttributionStop, WorkersFailed, PeerRestarts, PeerStops, WorkersSucceeded,
         Lost, HandleRestartDecision
<1>4. ASSUME NEW n \in Launchers, OpenForRestart(n) \/ FinishStop(n)
      PROVE  OpenNextRound(n)
  BY <1>4 DEF OpenForRestart, FinishStop
<1>5. ASSUME NEW n \in Launchers, StartWorkers(n)
      PROVE  Enter(n, round[n]) /\ round[n] \in Rounds
  BY <1>5 DEF StartWorkers, Types
<1>6. ASSUME NEW r \in Rounds, Close(r) PROVE CloseRound(r)
  BY <1>6 DEF Close
<1>7. ASSUME SaveCheckpoint \/ StopVerdict \/ UNCHANGED vars PROVE UNCHANGED rounds
  BY <1>7 DEF SaveCheckpoint, StopVerdict, vars
<1>8. ASSUME GiveUp PROVE End \/ UNCHANGED rounds
  BY <1>8 DEF GiveUp, Shutdown
<1> QED
  BY <1>1, <1>2, <1>3, <1>4, <1>5, <1>6, <1>7, <1>8, OpenNextIsARoundsStep
     DEF Next, AgentStep, RoundsNext

THEOREM AgentsUseTheRendezvous == Spec => RoundsSpec
<1>1. Init => RoundsInit
  BY DEF Init
<1>2. AgentInv => Types
  BY DEF AgentInv
<1> QED
  BY <1>1, <1>2, AgentInvInit, AgentInvNext, AgentsMakeRoundsSteps, PTL
     DEF Spec, RoundsSpec

-----------------------------------------------------------------------------
(* A launcher runs its workers under the rank that the world of a closed      *)
(* round gives it, and worlds give every launcher a rank of its own.          *)
RankFromWorld(n) ==
    running[n] # Idle =>
        /\ entered[n] \in Rounds /\ phase[entered[n]] = "closed"
        /\ n \in DOMAIN members[entered[n]]
        /\ running[n] = members[entered[n]][n]

RoundsInv ==
    /\ phase \in [Rounds -> {"absent", "open", "closed"}]
    /\ DOMAIN members = Rounds /\ members = [r \in Rounds |-> members[r]]
    /\ \A r \in Rounds : IsInjective(members[r])
    /\ DOMAIN running = Launchers /\ running = [n \in Launchers |-> running[n]]
    /\ DOMAIN entered = Launchers /\ entered = [n \in Launchers |-> entered[n]]
    /\ \A n \in Launchers : RankFromWorld(n)

OneLauncherPerRank ==
    \A m, n \in Launchers :
        /\ running[m] # Idle /\ running[n] # Idle
        /\ entered[m] = entered[n] /\ running[m] = running[n]
        => m = n

LEMMA WorldsAreInjective == \A world \in Worlds \cup {NoWorld} : IsInjective(world)
<1>1. ASSUME NEW world \in Worlds PROVE IsInjective(world)
  BY DEF Worlds, Bijection, Injection
<1>2. IsInjective(NoWorld)
  BY DEF NoWorld, IsInjective
<1> QED BY <1>1, <1>2

LEMMA RoundsInvNext == RoundsInv /\ [RoundsNext]_rounds => RoundsInv'
<1> SUFFICES ASSUME RoundsInv, [RoundsNext]_rounds PROVE RoundsInv'
  OBVIOUS
<1>1. ASSUME NEW r \in Rounds, OpenRound(r) PROVE RoundsInv'
  BY <1>1 DEF OpenRound, RoundsInv, RankFromWorld
<1>2. ASSUME NEW r \in Rounds, CloseRound(r) PROVE RoundsInv'
  <2> PICK world \in Worlds : members' = [members EXCEPT ![r] = world]
    BY <1>2 DEF CloseRound
  <2>1. IsInjective(world)
    BY WorldsAreInjective
  <2>2. \A q \in Rounds : q # r => members'[q] = members[q]
    BY DEF RoundsInv
  <2>3. ASSUME NEW n \in Launchers PROVE RankFromWorld(n)'
    BY <1>2, <2>2 DEF CloseRound, RoundsInv, RankFromWorld
  <2>4. \A q \in Rounds : IsInjective(members'[q])
    BY <2>1, <2>2 DEF RoundsInv
  <2> QED BY <1>2, <2>3, <2>4 DEF CloseRound, RoundsInv
<1>3. ASSUME NEW n \in Launchers, NEW r \in Rounds, Enter(n, r) PROVE RoundsInv'
  <2>1. ASSUME NEW m \in Launchers PROVE RankFromWorld(m)'
    BY <1>3 DEF Enter, RoundsInv, RankFromWorld
  <2> QED BY <1>3, <2>1 DEF Enter, RoundsInv
<1>4. ASSUME NEW n \in Launchers, Leave(n) PROVE RoundsInv'
  <2>1. ASSUME NEW m \in Launchers PROVE RankFromWorld(m)'
    BY <1>4 DEF Leave, RoundsInv, RankFromWorld
  <2> QED BY <1>4, <2>1 DEF Leave, RoundsInv
<1>5. ASSUME End \/ UNCHANGED rounds PROVE RoundsInv'
  BY <1>5 DEF End, rounds, RoundsInv, RankFromWorld
<1> QED BY <1>1, <1>2, <1>3, <1>4, <1>5 DEF RoundsNext

(* No two launchers of a job run workers under one group rank in one round:   *)
(* of the agents because of what they have from their rendezvous, which       *)
(* ImplementsRounds of BarrierRefinement checks the store protocol to give.      *)
THEOREM RanksAreExclusive == Spec => []OneLauncherPerRank
<1>1. RoundsInit => RoundsInv
  BY WorldsAreInjective DEF RoundsInit, RoundsInv, RankFromWorld
<1>2. RoundsInv => OneLauncherPerRank
  BY DEF RoundsInv, RankFromWorld, OneLauncherPerRank, IsInjective
<1>3. RoundsSpec => []OneLauncherPerRank
  BY <1>1, <1>2, RoundsInvNext, PTL DEF RoundsSpec
<1> QED BY <1>3, AgentsUseTheRendezvous, PTL
=============================================================================
