---------------------------- MODULE ElasticAgent ----------------------------
(* The launcher's agent (fault_tolerance/launcher.py) with its restart budget *)
(* and its progress tracker (progress_tracker.py): what every launcher does   *)
(* between two rendezvous, which reason it ends the job with, and with which  *)
(* code it exits.  Launchers meet through the rendezvous that                 *)
(* RendezvousRounds promises and BarrierRendezvous implements: each step here *)
(* takes at most one of its actions.                                          *)
(*                                                                            *)
(* The store is taken to outlive the launchers: its host stays a few seconds  *)
(* for them to read the reason, and what they do without a store is left out. *)
EXTENDS RendezvousRounds, Sequences

CONSTANTS
    StoreHost,            \* the launcher that owns the store and attribution
    MaxNodes,
    MaxRestarts,          \* --max-restarts
    MaxNoProgressCycles,  \* --ft-max-no-progress-cycles, 0 to disable
    MaxCheckpoints,       \* bound: checkpoints saved, before the job or in it
    MaxLosses,            \* bound: launchers killed or found unhealthy
    MaxUnreadable         \* bound: failed reads of the checkpoint file

ASSUME AgentAssumption ==
    /\ StoreHost \in Launchers
    /\ {MinNodes, MaxNodes, MaxRestarts, MaxNoProgressCycles, MaxCheckpoints,
        MaxLosses, MaxUnreadable} \subseteq Nat
    /\ 1 <= MinNodes /\ MinNodes <= MaxNodes
    /\ 0 \in Rounds /\ \A r \in Rounds : r \in Nat /\ (r = 0 \/ r - 1 \in Rounds)

NoRestartReasons == {"no_progress", "attribution_stop"}

VARIABLES
    pc,          \* where each launcher is
    round,       \* _round of its rendezvous
    started,     \* the round at which run() fixed the restart budget
    remaining,   \* _remaining_restarts
    exit,        \* exit code: "none", "0", "1", "no_restart", or "lost"
    workers,     \* its worker group: "none", "healthy", "failed", "succeeded"
    last,        \* last_restart_iteration of the progress tracker
    count,       \* no_progress_count
    checkpoint,  \* the iteration in the checkpoint file, 0 if there is none
    readings,    \* history: what was known of the checkpoint when it started
                 \* and at the ends of its cycles, latest first
    stop,        \* the attribution poller has latched a STOP verdict
    unhealthy,   \* unhealthy_count of the job
    losses, unreadable

tracker == <<last, count, readings, unreadable>>
vars == <<rounds, pc, round, started, remaining, exit, workers, tracker,
          checkpoint, stop, unhealthy, losses>>

Goto(n, label) == pc' = [pc EXCEPT ![n] = label]

Init ==
    /\ RoundsInit /\ phase[0] = "open"
    /\ pc = [n \in Launchers |-> "new"]
    /\ round = [n \in Launchers |-> 0]
    /\ started = [n \in Launchers |-> 0]
    /\ remaining = [n \in Launchers |-> MaxRestarts]
    /\ exit = [n \in Launchers |-> "none"]
    /\ workers = [n \in Launchers |-> "none"]
    /\ last = [n \in Launchers |-> 0]
    /\ count = [n \in Launchers |-> 0]
    /\ readings = [n \in Launchers |-> <<0>>]
    /\ checkpoint \in 0 .. MaxCheckpoints /\ stop = FALSE
    /\ unhealthy = 0 /\ losses = 0 /\ unreadable = 0

-----------------------------------------------------------------------------
(* Ending *)

(* set_shutdown is a compare_set: the first reason stays.                     *)
FirstReason(reason) == IF ended = "none" THEN reason ELSE ended

Shutdown(reason) ==
    IF ended = "none" THEN ended' = reason /\ End ELSE UNCHANGED rounds

(* The end of launch_agent and of main.                                       *)
Exit(n, code) ==
    /\ Goto(n, "exited")
    /\ exit' = [exit EXCEPT ![n] = code]
    /\ workers' = [workers EXCEPT ![n] = "none"]
    /\ UNCHANGED <<round, started, remaining, tracker, checkpoint, stop>>

(* How run() maps a closed rendezvous: a launcher that waits for a round to   *)
(* open takes the graceful path, one that waits for it to close does not.     *)
ClosureCode(waits) ==
    CASE ended \in NoRestartReasons     -> "no_restart"
      [] waits /\ ended = "graceful"    -> "0"
      [] OTHER                          -> "1"

-----------------------------------------------------------------------------
(* set_agent, run: the round is synced, the budget fixed, and the progress    *)
(* tracker takes the checkpoint it starts from as its baseline.               *)

(* _sync_from_per_round_state: the rounds that are closed are passed by.      *)
Synced(n, r) ==
    /\ r >= round[n] /\ phase[r] # "closed"
    /\ \A q \in Rounds : round[n] <= q /\ q < r => phase[q] = "closed"

(* The file can be missing, half written or out of reach when it is read.     *)
FileReadable(readable) ==
    IF readable THEN UNCHANGED unreadable
    ELSE unreadable < MaxUnreadable /\ unreadable' = unreadable + 1

Start(n) ==
    /\ pc[n] = "new"
    /\ \E r \in Rounds :
          /\ Synced(n, r)
          /\ round' = [round EXCEPT ![n] = r]
          /\ started' = [started EXCEPT ![n] = r]
          /\ remaining' = [remaining EXCEPT ![n] = MaxRestarts - r]
    /\ \E readable \in BOOLEAN :
          /\ FileReadable(readable)
          /\ last' = [last EXCEPT ![n] = IF readable THEN checkpoint ELSE 0]
    /\ readings' = [readings EXCEPT ![n] = <<last'[n]>>]
    /\ Goto(n, "waiting")
    /\ UNCHANGED <<rounds, exit, workers, count, checkpoint, stop, unhealthy, losses>>

-----------------------------------------------------------------------------
(* The rendezvous, as a launcher goes through it.                             *)

Sync(n) ==
    /\ pc[n] = "waiting" /\ ended = "none" /\ phase[round[n]] = "closed"
    /\ \E r \in Rounds : Synced(n, r) /\ round' = [round EXCEPT ![n] = r]
    /\ UNCHANGED <<rounds, pc, started, remaining, exit, workers, tracker,
                   checkpoint, stop, unhealthy, losses>>

Join(n) ==
    /\ pc[n] = "waiting" /\ ended = "none" /\ phase[round[n]] = "open"
    /\ Goto(n, "joined")
    /\ UNCHANGED <<rounds, round, started, remaining, exit, workers, tracker,
                   checkpoint, stop, unhealthy, losses>>

(* UnhealthyNodeException: the node leaves without closing the rendezvous.    *)
NodeUnhealthy(n) ==
    /\ pc[n] = "waiting" /\ ended = "none" /\ phase[round[n]] = "open"
    /\ n # StoreHost /\ losses < MaxLosses
    /\ losses' = losses + 1
    /\ unhealthy' = unhealthy + 1
    /\ Exit(n, "1")
    /\ UNCHANGED rounds

Joined(r) == {n \in Launchers : pc[n] = "joined" /\ round[n] = r}

TooManyUnhealthy == unhealthy > MaxNodes - MinNodes

(* The store host, which joins as well, closes the round.                     *)
Close(r) ==
    /\ StoreHost \in Joined(r) /\ ended = "none" /\ ~TooManyUnhealthy
    /\ CloseRound(r)
    /\ DOMAIN members'[r] \subseteq Joined(r)
    /\ UNCHANGED <<pc, round, started, remaining, exit, workers, tracker,
                   checkpoint, stop, unhealthy, losses>>

GiveUp ==
    /\ pc[StoreHost] = "joined" /\ phase[round[StoreHost]] = "open"
    /\ ended = "none" /\ TooManyUnhealthy
    /\ Shutdown("failure")
    /\ UNCHANGED <<pc, round, started, remaining, exit, workers, tracker,
                   checkpoint, stop, unhealthy, losses>>

StartWorkers(n) ==
    /\ pc[n] = "joined"
    /\ Enter(n, round[n])
    /\ Goto(n, "monitoring")
    /\ workers' = [workers EXCEPT ![n] = "healthy"]
    /\ UNCHANGED <<round, started, remaining, exit, tracker, checkpoint, stop,
                   unhealthy, losses>>

StandBy(n) ==
    /\ pc[n] = "joined" /\ phase[round[n]] = "closed" /\ n \notin DOMAIN members[round[n]]
    /\ Goto(n, "waiting")
    /\ UNCHANGED <<rounds, round, started, remaining, exit, workers, tracker,
                   checkpoint, stop, unhealthy, losses>>

(* RendezvousGracefulExitError and RendezvousClosedError; on its way out the  *)
(* launcher closes the rendezvous again, which changes nothing.               *)
RendezvousClosed(n) ==
    /\ ended # "none"
    /\ pc[n] = "waiting" \/ (pc[n] = "joined" /\ phase[round[n]] = "open")
    /\ Exit(n, ClosureCode(pc[n] = "waiting"))
    /\ UNCHANGED <<rounds, unhealthy, losses>>

(* RendezvousTimeoutError: too few launchers have come to close the round.    *)
JoinTimeout(n) ==
    /\ pc[n] = "joined" /\ phase[round[n]] = "open" /\ ended = "none"
    /\ Cardinality(Joined(round[n])) < MinNodes
    /\ Shutdown("graceful")
    /\ Exit(n, "1")
    /\ UNCHANGED <<unhealthy, losses>>

-----------------------------------------------------------------------------
(* The workers of a cycle (external): they save checkpoints while they all    *)
(* run; they fail, in any cycle or because others of the world are gone.      *)

World(r) == {n \in DOMAIN members[r] : running[n] # Idle /\ entered[n] = r}

SaveCheckpoint ==
    /\ checkpoint < MaxCheckpoints
    /\ \E r \in Rounds :
          /\ phase[r] = "closed" /\ World(r) = DOMAIN members[r]
          /\ \A n \in World(r) : workers[n] = "healthy"
    /\ checkpoint' = checkpoint + 1
    /\ UNCHANGED <<rounds, pc, round, started, remaining, exit, workers, tracker,
                   stop, unhealthy, losses>>

WorkersEnd(n, how) ==
    /\ pc[n] = "monitoring" /\ workers[n] = "healthy"
    /\ workers' = [workers EXCEPT ![n] = how]
    /\ UNCHANGED <<rounds, pc, round, started, remaining, exit, tracker, checkpoint,
                   stop, unhealthy, losses>>

-----------------------------------------------------------------------------
(* Closing a round, the host asks for the analysis of the cycle before it;    *)
(* whenever the answer comes, its poller latches a STOP verdict.              *)
CycleAnalyzed ==
    \/ \E r \in Rounds : r > 0 /\ phase[r] = "closed"
    \/ pc[StoreHost] = "joined" /\ round[StoreHost] > 0

StopVerdict ==
    /\ ~stop /\ pc[StoreHost] # "exited" /\ CycleAnalyzed
    /\ stop' = TRUE
    /\ UNCHANGED <<rounds, pc, round, started, remaining, exit, workers, tracker,
                   checkpoint, unhealthy, losses>>

-----------------------------------------------------------------------------
(* analyze_previous_cycle *)

\* Mutant: an unknown iteration is scored, and kept, as iteration 0.
AnalyzeUnknownAsZero(n, readable) ==
    LET now == IF readable THEN checkpoint ELSE 0 IN
    IF last[n] = 0 /\ now = 0 THEN UNCHANGED <<last, count>>
    ELSE /\ last' = [last EXCEPT ![n] = now]
         /\ count' = [count EXCEPT ![n] = IF now - last[n] >= 1 THEN 0 ELSE @ + 1]

(* Before the first checkpoint there is no file to read.                      *)
Known(readable) == MaxNoProgressCycles > 0 /\ readable /\ checkpoint > 0

(* A cycle whose iteration is unknown is not scored.  min_progress_iterations *)
(* is 1.                                                                      *)
AnalyzePreviousCycle(n, readable) ==
    IF ~Known(readable) THEN UNCHANGED <<last, count>>
    ELSE /\ last' = [last EXCEPT ![n] = checkpoint]
         /\ count' = [count EXCEPT ![n] = IF checkpoint - last[n] >= 1 THEN 0 ELSE @ + 1]

(* The history of what the file told: no part of the tracker.                 *)
Recorded(n, readable) ==
    IF Known(readable) THEN [readings EXCEPT ![n] = <<checkpoint>> \o @] ELSE readings

ShouldTerminateEarly(c) == MaxNoProgressCycles > 0 /\ c >= MaxNoProgressCycles

NextRoundOpen(n) == phase[round[n] + 1] # "absent"

(* _handle_restart_decision: stop the job, restart, or give up.  In each case *)
(* the workers are stopped.                                                   *)
HandleRestartDecision(n, opens) ==
    /\ \E readable \in BOOLEAN :
          /\ FileReadable(readable)
          /\ AnalyzePreviousCycle(n, readable)
          /\ readings' = Recorded(n, readable)
    /\ workers' = [workers EXCEPT ![n] = "none"]
    /\ IF ShouldTerminateEarly(count'[n])
       THEN /\ ended' = FirstReason("no_progress")
            /\ Goto(n, "stopping")
            /\ UNCHANGED remaining
       ELSE /\ UNCHANGED ended
            /\ IF remaining[n] > 0
               THEN /\ remaining' = [remaining EXCEPT ![n] = @ - 1]
                    /\ Goto(n, IF opens THEN "opening" ELSE "waiting")
               ELSE /\ Goto(n, "failing")
                    /\ UNCHANGED remaining
    /\ Leave(n)
    /\ UNCHANGED <<round, started, exit, checkpoint, stop, unhealthy, losses>>

-----------------------------------------------------------------------------
(* The monitor loop.                                                          *)

StopsHere(n) == n = StoreHost /\ stop

(* A latched verdict preempts any restart decision, and is also consumed in   *)
(* the waits of the rendezvous.                                               *)
AttributionStop(n) ==
    /\ StopsHere(n)
    /\ ended' = FirstReason("attribution_stop")
    /\ \/ pc[n] = "monitoring" /\ workers[n] # "succeeded" /\ Leave(n)
       \/ /\ pc[n] = "waiting" \/ (pc[n] = "joined" /\ phase[round[n]] = "open")
          /\ ended = "none" /\ End
    /\ workers' = [workers EXCEPT ![n] = "none"]
    /\ Goto(n, "stopping")
    /\ UNCHANGED <<round, started, remaining, exit, tracker, checkpoint, stop,
                   unhealthy, losses>>

WorkersFailed(n) ==
    /\ pc[n] = "monitoring" /\ workers[n] = "failed" /\ ~StopsHere(n)
    /\ HandleRestartDecision(n, TRUE)

\* Mutant: only the launcher whose workers failed pays for the restart.
PeerRestartsFree(n) ==
    /\ pc[n] = "monitoring" /\ workers[n] = "healthy" /\ ~StopsHere(n)
    /\ NextRoundOpen(n) /\ ended \notin NoRestartReasons
    /\ UNCHANGED ended /\ Leave(n)
    /\ workers' = [workers EXCEPT ![n] = "none"]
    /\ Goto(n, "waiting")
    /\ UNCHANGED <<round, started, remaining, exit, tracker, checkpoint, stop,
                   unhealthy, losses>>

PeerRestarts(n) ==
    /\ pc[n] = "monitoring" /\ workers[n] = "healthy" /\ ~StopsHere(n)
    /\ NextRoundOpen(n) /\ ended \notin NoRestartReasons
    /\ HandleRestartDecision(n, FALSE)

PeerStops(n) ==
    /\ pc[n] = "monitoring" /\ workers[n] = "healthy" /\ ~StopsHere(n)
    /\ NextRoundOpen(n) /\ ended \in NoRestartReasons
    /\ UNCHANGED ended /\ Leave(n)
    /\ Exit(n, "no_restart")
    /\ UNCHANGED <<unhealthy, losses>>

(* open_rendezvous: the next round, unless somebody has opened it.            *)
OpenNextRound(n) ==
    IF NextRoundOpen(n) THEN UNCHANGED rounds ELSE OpenRound(round[n] + 1)

OpenForRestart(n) ==
    /\ pc[n] = "opening"
    /\ OpenNextRound(n)
    /\ Goto(n, "waiting")
    /\ UNCHANGED <<round, started, remaining, exit, workers, tracker, checkpoint,
                   stop, unhealthy, losses>>

(* The second write of signal_no_restart, then NoRestartRequested.            *)
FinishStop(n) ==
    /\ pc[n] = "stopping"
    /\ OpenNextRound(n)
    /\ Exit(n, "no_restart")
    /\ UNCHANGED <<unhealthy, losses>>

(* The budget is exhausted: ChildFailedError or TerminalWorkerGroupFailure.   *)
FailJob(n) ==
    /\ pc[n] = "failing"
    /\ Shutdown("failure")
    /\ Exit(n, "1")
    /\ UNCHANGED <<unhealthy, losses>>

(* The workers are done: the exit barrier, until all are there or it times    *)
(* out; nothing else is looked at meanwhile.                                  *)
WorkersSucceeded(n) ==
    /\ pc[n] = "monitoring" /\ workers[n] = "succeeded"
    /\ UNCHANGED ended /\ Leave(n)
    /\ Goto(n, "exitBarrier")
    /\ UNCHANGED <<round, started, remaining, exit, workers, tracker, checkpoint, stop,
                   unhealthy, losses>>

Succeed(n) ==
    /\ pc[n] = "exitBarrier"
    /\ Shutdown("graceful")
    /\ Exit(n, "0")
    /\ UNCHANGED <<unhealthy, losses>>

(* The launcher is killed, or a signal ends it: the rendezvous stays open.    *)
Lost(n) ==
    /\ pc[n] # "exited" /\ n # StoreHost /\ losses < MaxLosses
    /\ losses' = losses + 1
    /\ IF running[n] # Idle THEN UNCHANGED ended /\ Leave(n) ELSE UNCHANGED rounds
    /\ Exit(n, "lost")
    /\ UNCHANGED unhealthy

-----------------------------------------------------------------------------
AgentStep(n) ==
    \/ Start(n) \/ Sync(n) \/ Join(n) \/ StartWorkers(n) \/ StandBy(n)
    \/ RendezvousClosed(n) \/ JoinTimeout(n) \/ NodeUnhealthy(n)
    \/ AttributionStop(n) \/ WorkersFailed(n) \/ PeerRestarts(n) \/ PeerStops(n)
    \/ OpenForRestart(n) \/ FinishStop(n) \/ FailJob(n)
    \/ WorkersSucceeded(n) \/ Succeed(n) \/ Lost(n)

Next ==
    \/ \E n \in Launchers :
          AgentStep(n) \/ \E how \in {"failed", "succeeded"} : WorkersEnd(n, how)
    \/ GiveUp \/ \E r \in Rounds : Close(r)
    \/ SaveCheckpoint \/ StopVerdict

Spec == Init /\ [][Next]_vars
=============================================================================
