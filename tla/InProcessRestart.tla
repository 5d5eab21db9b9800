-------------------------- MODULE InProcessRestart --------------------------
(***************************************************************************)
(* The in-process wrapper (inprocess/): ranks that run a function again    *)
(* and again, in the same processes, until all of them finish it.          *)
(*                                                                         *)
(* Each rank has a main process, whose monitor thread interrupts the       *)
(* function when any rank is recorded as interrupted, and a monitor        *)
(* process, which speaks for the main process when it is dead or stuck.    *)
(* Monitor processes watch each other through heartbeats.  All of them     *)
(* meet in a store that has one set of keys per restart iteration.         *)
(*                                                                         *)
(* No barrier times out here: a rank that lives reaches it well within the *)
(* barrier timeouts, and leaves it well within the heartbeat timeout.      *)
(***************************************************************************)
EXTENDS Naturals, Integers, Sequences, FiniteSets

CONSTANTS
    World,         \* number of ranks when the wrapper is called
    MaxActive,     \* max_active_world_size: the others are a reserve
    MaxIterations, \* max_iterations of RetryController
    Critical,      \* ranks whose main process hosts the store
    Raising,       \* ranks whose function may raise an Exception
    Exiting,       \* ranks whose function may raise a BaseException
    Hanging,       \* ranks that may hang, where an exception reaches them
    Sticking,      \* ranks that may hang where none does
    Slow,          \* ranks whose hang may be a long step that ends after all
    Unhealthy,     \* ranks whose health check may fail before a restart
    Dying,         \* ranks whose main process may be killed
    DyingAt,       \* where: labels of the main process, or "start"
    Losing,        \* ranks whose node may be lost
    MaxFaults      \* bound: faults in a behaviour

Ranks == 0 .. World - 1
Iterations == 0 .. MaxIterations
NoOne == -1

ASSUME SizesAssumption ==
    /\ World \in Nat \ {0} /\ MaxActive \in Nat \ {0}
    /\ MaxIterations \in Nat \ {0} /\ MaxFaults \in Nat
\* Without the store nothing follows: its host is killed by nobody.
ASSUME FaultyAssumption ==
    /\ Raising \cup Exiting \cup Hanging \cup Sticking \cup Slow \subseteq Ranks
    /\ Unhealthy \subseteq Ranks
    /\ Critical \subseteq Ranks /\ Dying \cup Losing \cup Sticking \subseteq Ranks \ Critical

VARIABLES
    store,    \* per iteration, the keys of its PrefixStore
    ended,    \* who arrived at the termination barrier: initial ranks, and NoOne
              \* for what is not the number of a rank
    main,     \* per rank: where its main process is
    state,    \* per rank: its iteration, rank and world size
    monitor,  \* per rank: where its monitor process is
    view,     \* per rank: the state its monitor process was last told of
    watching, \* per rank: its SiblingMonitor runs
    queue,    \* per rank: messages to the monitor process
    faults    \* faults so far

vars == <<store, ended, main, state, monitor, view, watching, queue, faults>>

EmptyStore == [interrupted  |-> FALSE,  \* any_rank_interrupted
               completed    |-> FALSE,  \* any_rank_completed
               terminated   |-> {},     \* terminated_ranks
               owner        |-> [r \in Ranks |-> NoOne],  \* initial_rank_{rank}
               finished     |-> 0,      \* completion barrier: arrivals
               all_finished |-> FALSE,  \*                     last_worker_arrived
               arrived      |-> {},     \* iteration barrier: ranks
               released     |-> FALSE]  \*                     last_worker_arrived

NoView == [iteration |-> -1, rank |-> -1, world |-> 0]

Iter(i) == state[i].iteration
Here(i) == store[Iter(i)]        \* the keys the main process works with
There(i) == store[view[i].iteration]  \* those its monitor process works with

Goto(i, label) == main' = [main EXCEPT ![i] = label]
Fault == faults < MaxFaults /\ faults' = faults + 1

Start(s) == [kind |-> "start", state |-> s]
Disable == [kind |-> "disable"]
RecordInterrupted == [kind |-> "record"]

Send(i, messages) ==
    queue' = [queue EXCEPT ![i] = IF monitor[i] = "over" THEN << >> ELSE @ \o messages]

\* The keys after ranks are recorded as interrupted and terminated, and after
\* they arrive at the iteration barrier of a world.
Terminated(keys, ranks) ==
    [keys EXCEPT !.interrupted = TRUE, !.terminated = @ \cup ranks]
Arrived(keys, ranks, world) ==
    [keys EXCEPT !.arrived = @ \cup ranks,
                 !.released = @ \/ Cardinality(keys.arrived \cup ranks) = world]
Overflow(keys, ranks, world) == Cardinality(keys.arrived \cup ranks) > world

\* The termination barrier reads who arrived as numbers, and raises for everybody
\* once one is none.
Spoilt == NoOne \in ended

-----------------------------------------------------------------------------
(* The main process: CallWrapper.__call__ *)

\* MaxActiveWorldSize: the other ranks run reserve_fn.
Active(i) == state[i].rank < MaxActive

\* Mutant: the barrier is complete with the active ranks.
FnReturnsActiveOnly(i) ==
    LET count == Here(i).finished + 1 IN
    /\ main[i] = "run" \/ (main[i] = "hung" /\ i \in Slow)
    /\ Iter(i) < MaxIterations
    /\ Active(i) \/ Here(i).completed
    /\ store' = [store EXCEPT ![Iter(i)].completed = TRUE, ![Iter(i)].finished = count,
                              ![Iter(i)].all_finished = @ \/ count >= MaxActive]
    /\ Goto(i, "complete")
    /\ UNCHANGED <<ended, state, monitor, view, watching, queue, faults>>

\* fn returns and the rank arrives at the completion barrier; a reserve rank
\* follows once any rank has completed.
FnReturns(i) ==
    LET count == Here(i).finished + 1 IN
    /\ main[i] = "run" \/ (main[i] = "hung" /\ i \in Slow)
    /\ Iter(i) < MaxIterations
    /\ Active(i) \/ Here(i).completed
    /\ store' = [store EXCEPT ![Iter(i)].completed = TRUE, ![Iter(i)].finished = count,
                              ![Iter(i)].all_finished = @ \/ count = state[i].world]
    /\ Goto(i, "complete")
    /\ UNCHANGED <<ended, state, monitor, view, watching, queue, faults>>

\* Everybody has finished: the wrapped call returns.
Return(i) ==
    /\ main[i] = "complete" /\ Here(i).all_finished
    /\ Goto(i, "ending")
    /\ UNCHANGED <<store, ended, state, monitor, view, watching, queue, faults>>

\* fn, or a hook before it, raises: tell the monitor process, and wait for the
\* monitor thread.
Raise(i) ==
    /\ main[i] = "run" /\ i \in Raising /\ Iter(i) < MaxIterations /\ Fault
    /\ Goto(i, "raised") /\ Send(i, <<RecordInterrupted>>)
    /\ UNCHANGED <<store, ended, state, monitor, view, watching>>

Hang(i) ==
    /\ main[i] = "run" /\ Iter(i) < MaxIterations /\ Fault
    /\ \/ i \in Hanging /\ Goto(i, "hung")
       \/ i \in Sticking /\ Goto(i, "stuck")
    /\ UNCHANGED <<store, ended, state, monitor, view, watching, queue>>

\* MonitorThread: abort, then RankShouldRestart in the main thread, wherever it
\* is between the start of the iteration and the end of the completion barrier.
\* (Bound: in the last iteration RetryController always comes first.)
RankShouldRestart(i) ==
    /\ main[i] \in {"run", "raised", "hung", "complete"} /\ Here(i).interrupted
    /\ Iter(i) < MaxIterations
    /\ Goto(i, "restart")
    /\ UNCHANGED <<store, ended, state, monitor, view, watching, queue, faults>>

\* finalize and the health check passed: on to the iteration barrier.
ArriveAtBarrier(i) ==
    LET r == {state[i].rank} IN
    /\ main[i] = "restart"
    /\ store' = [store EXCEPT ![Iter(i)] = Arrived(@, r, state[i].world)]
    /\ Goto(i, IF Overflow(Here(i), r, state[i].world) THEN "exit" ELSE "barrier")
    /\ UNCHANGED <<ended, state, monitor, view, watching, queue, faults>>

\* The health check fails, fn raises a BaseException, or RetryController has had
\* enough: this rank is terminated.
GiveUp(i) ==
    /\ \/ main[i] = "restart" /\ i \in Unhealthy /\ Fault
       \/ main[i] = "run" /\ i \in Exiting /\ Iter(i) < MaxIterations /\ Fault
       \/ main[i] = "run" /\ Iter(i) = MaxIterations /\ UNCHANGED faults
    /\ Goto(i, "exit")
    /\ UNCHANGED <<store, ended, state, monitor, view, watching, queue>>

\* Mutant: the ranks keep their old numbers.
ShiftRanksKeep(s, gone) == [iteration |-> s.iteration + 1, rank |-> s.rank,
                            world |-> s.world - Cardinality(gone)]

\* ShiftRanks, then advance.
ShiftRanks(s, gone) == [iteration |-> s.iteration + 1,
                        rank |-> s.rank - Cardinality({t \in gone : s.rank > t}),
                        world |-> s.world - Cardinality(gone)]

\* Mutant: the barrier is not waited for.
RestartAtOnce(i) ==
    LET gone == Here(i).terminated
        next == ShiftRanks(state[i], gone)
    IN
    /\ main[i] = "barrier" /\ state[i].rank \notin gone
    /\ state' = [state EXCEPT ![i] = next]
    /\ store' = [store EXCEPT ![next.iteration].owner[next.rank] = i]
    /\ Goto(i, "run") /\ Send(i, <<Disable, Start(next)>>)
    /\ UNCHANGED <<ended, monitor, view, watching, faults>>

\* Past the iteration barrier: read the terminated ranks and start the next
\* iteration, unless this rank is one of them (RankDiscarded).
Restart(i) ==
    LET gone == Here(i).terminated
        next == ShiftRanks(state[i], gone)
    IN
    /\ main[i] = "barrier" /\ Here(i).released
    /\ IF state[i].rank \in gone
       THEN /\ Goto(i, "exit") /\ Send(i, <<Disable>>)
            /\ UNCHANGED <<state, store>>
       ELSE /\ state' = [state EXCEPT ![i] = next]
            /\ store' = [store EXCEPT ![next.iteration].owner[next.rank] = i]
            /\ Goto(i, "run") /\ Send(i, <<Disable, Start(next)>>)
    /\ UNCHANGED <<ended, monitor, view, watching, faults>>

\* The way out of a terminated rank, with the keys of its last iteration.
ExitRecords(i) ==
    /\ main[i] = "exit"
    /\ store' = [store EXCEPT ![Iter(i)] = Terminated(@, {state[i].rank})]
    /\ Goto(i, "recorded")
    /\ UNCHANGED <<ended, state, monitor, view, watching, queue, faults>>

ExitArrives(i) ==
    LET r == {state[i].rank} IN
    /\ main[i] = "recorded"
    /\ store' = [store EXCEPT ![Iter(i)] = Arrived(@, r, state[i].world)]
    /\ Goto(i, IF Overflow(Here(i), r, state[i].world) THEN "ending" ELSE "leaving")
    /\ UNCHANGED <<ended, state, monitor, view, watching, queue, faults>>

ExitLeaves(i) ==
    /\ main[i] = "leaving" /\ Here(i).released
    /\ Goto(i, "ending") /\ Send(i, <<Disable>>)
    /\ UNCHANGED <<store, ended, state, monitor, view, watching, faults>>

\* shutdown: the store host stays until everybody has arrived.  When the barrier
\* raises, neither the watchdog thread nor the monitor process is told to stop.
Shutdown(i) ==
    /\ main[i] = "ending"
    /\ ended' = IF Spoilt THEN ended ELSE ended \cup {i}
    /\ Goto(i, IF Spoilt THEN "failed" ELSE IF i \in Critical THEN "hosting" ELSE "gone")
    /\ UNCHANGED <<store, state, monitor, view, watching, queue, faults>>

HostLeaves(i) ==
    /\ main[i] = "hosting" /\ Ranks \subseteq ended
    /\ Goto(i, "gone")
    /\ UNCHANGED <<store, ended, state, monitor, view, watching, queue, faults>>

-----------------------------------------------------------------------------
(* Faults of processes *)

\* A rank that has just started an iteration, of which its monitor process does
\* not know yet, is at "start".
Where(i) ==
    IF main[i] \notin {"dead", "gone"} /\ view[i] # state[i] THEN "start" ELSE main[i]

\* The main process is killed; what its queue has not yet written is lost.
Die(i) ==
    /\ i \in Dying /\ Where(i) \in DyingAt /\ Fault
    /\ Goto(i, "dead")
    /\ \E n \in 0 .. Len(queue[i]) : queue' = [queue EXCEPT ![i] = SubSeq(@, 1, n)]
    /\ UNCHANGED <<store, ended, state, monitor, view, watching>>

\* Both processes are gone, together.
LoseNode(i) ==
    /\ i \in Losing /\ Where(i) \in DyingAt /\ Fault
    /\ Goto(i, "dead")
    /\ monitor' = [monitor EXCEPT ![i] = "over"]
    /\ watching' = [watching EXCEPT ![i] = FALSE]
    /\ queue' = [queue EXCEPT ![i] = << >>]
    /\ UNCHANGED <<store, ended, state, view>>

-----------------------------------------------------------------------------
(* The monitor process: MonitorProcess.run *)

\* After a message other than a start it looks at the main process at once.
Receive(i) ==
    LET m == Head(queue[i]) IN
    /\ monitor[i] = "on" /\ queue[i] # << >>
    /\ queue' = [queue EXCEPT ![i] = Tail(@)]
    /\ view' = IF m.kind = "start" THEN [view EXCEPT ![i] = m.state] ELSE view
    /\ watching' = [watching EXCEPT ![i] = m.kind = "start" \/ (@ /\ m.kind # "disable")]
    /\ store' = IF m.kind = "record"
                THEN [store EXCEPT ![view[i].iteration].interrupted = TRUE] ELSE store
    /\ monitor' = IF m.kind # "start" /\ main[i] = "dead"
                  THEN [monitor EXCEPT ![i] = "mourning"] ELSE monitor
    /\ UNCHANGED <<ended, main, state, faults>>

SoftTimeout(i) ==
    /\ monitor[i] = "on" /\ queue[i] = << >> /\ main[i] \in {"hung", "stuck"}
    /\ ~There(i).interrupted
    /\ store' = [store EXCEPT ![view[i].iteration].interrupted = TRUE]
    /\ UNCHANGED <<ended, main, state, monitor, view, watching, queue, faults>>

\* The soft timeout did not help: the main process is terminated.
HardTimeout(i) ==
    /\ monitor[i] = "on" /\ queue[i] = << >> /\ main[i] = "stuck" /\ There(i).interrupted
    /\ store' = [store EXCEPT ![view[i].iteration] = Terminated(@, {view[i].rank})]
    /\ Goto(i, "dead")
    /\ UNCHANGED <<ended, state, monitor, view, watching, queue, faults>>

\* shutdown has raised, and the process does not end before its watchdog thread: it
\* is terminated too, long after the others have left the completion barrier.  What
\* is recorded before that is recorded again in MournRecords.
HardTimeoutAtEnd(i) ==
    /\ monitor[i] = "on" /\ queue[i] = << >> /\ main[i] = "failed" /\ i \notin Critical
    /\ \A j \in Ranks : Iter(j) = Iter(i) => main[j] # "complete"
    /\ Goto(i, "dead")
    /\ UNCHANGED <<store, ended, state, monitor, view, watching, queue, faults>>

\* Mutant: the iteration is not interrupted.
MournQuietly(i) ==
    /\ monitor[i] = "mourning" \/ (monitor[i] = "on" /\ queue[i] = << >> /\ main[i] = "dead")
    /\ store' = IF view[i] = NoView THEN store
                ELSE [store EXCEPT ![view[i].iteration].terminated = @ \cup {view[i].rank}]
    /\ monitor' = [monitor EXCEPT ![i] = IF view[i] = NoView THEN "over" ELSE "recorded"]
    /\ UNCHANGED <<ended, main, state, view, watching, queue, faults>>

\* The main process is dead.  Without a start the monitor process has no store
\* to tell it to, and ends with an exception.
MournRecords(i) ==
    /\ monitor[i] = "mourning" \/ (monitor[i] = "on" /\ queue[i] = << >> /\ main[i] = "dead")
    /\ store' = IF view[i] = NoView THEN store
                ELSE [store EXCEPT ![view[i].iteration] = Terminated(@, {view[i].rank})]
    /\ monitor' = [monitor EXCEPT ![i] = IF view[i] = NoView THEN "over" ELSE "recorded"]
    /\ UNCHANGED <<ended, main, state, view, watching, queue, faults>>

MournArrives(i) ==
    LET r == {view[i].rank} IN
    /\ monitor[i] = "recorded"
    /\ store' = [store EXCEPT ![view[i].iteration] = Arrived(@, r, view[i].world)]
    /\ monitor' = [monitor EXCEPT ![i] =
                      IF Overflow(There(i), r, view[i].world) THEN "over" ELSE "leaving"]
    /\ UNCHANGED <<ended, main, state, view, watching, queue, faults>>

\* Mutant: the rank is forgotten at the termination barrier.
MournLeavesQuietly(i) ==
    /\ monitor[i] = "leaving" /\ There(i).released
    /\ monitor' = [monitor EXCEPT ![i] = "over"]
    /\ watching' = [watching EXCEPT ![i] = FALSE]
    /\ UNCHANGED <<store, ended, main, state, view, queue, faults>>

\* If the termination barrier raises, so it does for the exception handler.
MournLeaves(i) ==
    /\ monitor[i] = "leaving" /\ There(i).released
    /\ ended' = IF Spoilt THEN ended ELSE ended \cup {i}
    /\ monitor' = [monitor EXCEPT ![i] = "over"]
    /\ watching' = [watching EXCEPT ![i] = FALSE]
    /\ UNCHANGED <<store, main, state, view, queue, faults>>

\* The main process has ended and told it to stop.
Stop(i) ==
    /\ monitor[i] = "on" /\ main[i] = "gone"
    /\ monitor' = [monitor EXCEPT ![i] = "over"]
    /\ watching' = [watching EXCEPT ![i] = FALSE]
    /\ queue' = [queue EXCEPT ![i] = << >>]
    /\ UNCHANGED <<store, ended, main, state, view, faults>>

-----------------------------------------------------------------------------
(* SiblingMonitor *)

\* Mutant: heartbeats are looked up under the ranks of the first iteration.
SilentByFirstRank(k) == {r \in Ranks : monitor[r] = "over"}

\* Ranks of an iteration whose monitor process has sent its last heartbeat.
Silent(k) ==
    {r \in Ranks : store[k].owner[r] # NoOne /\ monitor[store[k].owner[r]] = "over"}

\* A rank is at the completion barrier of an iteration.
Completing(k) == \E j \in Ranks : Iter(j) = k /\ main[j] = "complete"

\* Mutant: only the sibling is looked at, and it is not interrupted.
WatchTerminatesOnly(i) ==
    LET k == view[i].iteration
        r == (view[i].rank + 1) % view[i].world
    IN
    /\ watching[i] /\ r \in Silent(k) /\ ~store[k].released
    /\ ~(store[k].all_finished /\ Completing(k))
    /\ r \notin store[k].arrived
    /\ store' = [store EXCEPT ![k].terminated = @ \cup {r}, ![k].arrived = @ \cup {r}]
    /\ UNCHANGED <<ended, main, state, monitor, view, watching, queue, faults>>

\* The next rank is silent: all the silent ranks are terminated, and arrive at the
\* iteration barrier.  The initial ranks are read as bytes: they spoil the
\* termination barrier, which raises, and the thread is over.
\* Ranks leave a barrier that is complete within the timeout.
TerminateSilent(i) ==
    LET k == view[i].iteration
        silent == Silent(k)
    IN
    /\ watching[i] /\ (view[i].rank + 1) % view[i].world \in silent
    /\ ~store[k].released /\ ~(store[k].all_finished /\ Completing(k))
    /\ ~(silent \subseteq store[k].arrived)
    /\ store' = [store EXCEPT ![k] = Arrived(Terminated(@, silent), silent, view[i].world)]
    /\ ended' = ended \cup {NoOne}
    /\ watching' = [watching EXCEPT ![i] = FALSE]
    /\ UNCHANGED <<main, state, monitor, view, queue, faults>>

-----------------------------------------------------------------------------
Init ==
    /\ store = [k \in Iterations |->
                   IF k = 0 THEN [EmptyStore EXCEPT !.owner = [r \in Ranks |-> r]]
                   ELSE EmptyStore]
    /\ ended = {}
    /\ main = [i \in Ranks |-> "run"]
    /\ state = [i \in Ranks |-> [iteration |-> 0, rank |-> i, world |-> World]]
    /\ monitor = [i \in Ranks |-> "on"]
    /\ view = [i \in Ranks |-> NoView]
    /\ watching = [i \in Ranks |-> FALSE]
    /\ queue = [i \in Ranks |-> <<Start(state[i])>>]
    /\ faults = 0

Main(i) ==
    \/ Return(i) \/ RankShouldRestart(i) \/ ArriveAtBarrier(i) \/ Restart(i)
    \/ ExitRecords(i) \/ ExitArrives(i) \/ ExitLeaves(i) \/ Shutdown(i) \/ HostLeaves(i)

Monitor(i) ==
    \/ Receive(i) \/ SoftTimeout(i) \/ HardTimeout(i) \/ HardTimeoutAtEnd(i)
    \/ TerminateSilent(i)
    \/ MournRecords(i) \/ MournArrives(i) \/ MournLeaves(i) \/ Stop(i)

Function(i) == FnReturns(i) \/ Raise(i) \/ Hang(i) \/ GiveUp(i)

Next == \E i \in Ranks :
    \/ Main(i) \/ Monitor(i) \/ Function(i)
    \/ Die(i) \/ LoseNode(i)

Spec == Init /\ [][Next]_vars

\* Live processes go on.  Nothing is assumed of the function, but that a retry too
\* many is refused.
Fairness == \A i \in Ranks :
    /\ WF_vars(Main(i)) /\ WF_vars(Monitor(i))
    /\ WF_vars(Iter(i) = MaxIterations /\ GiveUp(i))

FairSpec == Spec /\ Fairness
=============================================================================
