# NVIDIA Resiliency Extension: TLA+ models, checks and proofs

This directory holds TLA+ models of the coordination code of
`nvidia_resiliency_ext` (paths below are relative to
`src/src/nvidia_resiliency_ext/`), the TLC configurations that check them on small
instances, and proofs of their main safety properties for every size of the
system. `PROJECT.json` maps each definition to the lines of code it stands for.

1. [The system](#1-the-system)
2. [Modules](#2-modules)
3. [The group rank assignment](#3-the-group-rank-assignment)
4. [The rendezvous barrier](#4-the-rendezvous-barrier)
5. [The elastic agent](#5-the-elastic-agent)
6. [The rank monitor](#6-the-rank-monitor)
7. [The in-process wrapper](#7-the-in-process-wrapper)
8. [The topology tree](#8-the-topology-tree)
9. [Asynchronous checkpoints](#9-asynchronous-checkpoints)
10. [Local checkpoints](#10-local-checkpoints)
11. [The request coalescer](#11-the-request-coalescer)
12. [Disagreements between code and documentation](#12-disagreements-between-code-and-documentation)
13. [What is proved](#13-what-is-proved)
14. [What is not modelled](#14-what-is-not-modelled)
15. [Plan](#15-plan)
16. [Running the checks](#16-running-the-checks)

## 1. The system

The package keeps a distributed training job alive. Its parts, the state each
keeps, what it does, and what makes it correct:

| Part | State | Operations | Hard behaviour | Correct when |
|---|---|---|---|---|
| **Rendezvous barrier** `fault_tolerance/ft_rendezvous_barrier.py` | TCPStore keys: `round_done_N`, join counter, one key per slot for the participant and for its rank, shutdown key, unhealthy count and groups. Per launcher: round, slot | join, wait, close a round (store host), assign ranks, open the next round, signal no-restart, shut down | launchers interleave at every store operation; slot keys are reused by later rounds; check-then-set; crashes, timeouts, late joiners | slots are exclusive, a closed round has a whole assignment and stays closed, stale data never enters a round, an open round resolves |
| **Group rank assignment** same file, 757–1023 | none (pure) | segments within domains, replacement groups, standby nodes | boundaries between "enough" and "not enough" | feasible exactly when it does not fail; dense, distinct ranks; segments do not cross domains |
| **Control process** `fault_tolerance/control_plane.py` | its own barrier state | closes rounds without joining | as the store host | as the store host |
| **Elastic agent, launcher** `fault_tolerance/launcher.py` | restart budget, worker group, health state, progress tracker | polls workers and the next round; restarts; ends | several nodes fail at once; stop decisions race with restarts | every node ends or restarts together, with one reason |
| **Rank monitor** `fault_tolerance/rank_monitor_{server,client,state_machine}.py` | monitored rank, timers, open sections, iterations, connection lock, state machine | heartbeats, sections, timeouts, signalling a late rank | connections of successive workers overlap; messages run ahead | a hung rank is signalled, a new worker is always served |
| **Progress tracker** `fault_tolerance/progress_tracker.py` | last iteration, number of cycles without progress | score a cycle, decide whether to stop early | the checkpoint file cannot be read in between | counts only cycles that made no progress |
| **In-process wrapper** `inprocess/{wrap,store,monitor_process,monitor_thread,sibling_monitor,progress_watchdog}.py` | store keys per iteration: interrupted, terminated, completed, barriers; per rank: iteration, main thread, monitor thread, monitor process | run the function, interrupt all ranks, abort, reassign ranks, restart; the monitor process acts for a dead rank | three actors per rank; a rank may die at any point of the protocol | ranks restart together, completion means all finished, a failure is noticed |
| **In-process rank assignment** `inprocess/rank_assignment.py` | topology tree with active, spare and terminated leaves | `ShiftRanks`, `FillGaps`, `Tree`: terminate, replace, backfill, shift, filter | several terminations in one call, call after call; minima and maxima at every layer | ranks stay consecutive, spares are used, a repair moves nobody it need not move |
| **Asynchronous checkpoint calls** `checkpointing/async_ckpt/core.py` | queue of calls, persistent worker, its queues, caches of tensors on both sides, shared memory | schedule, poll, finalize, close, abort | worker dies; stale completions; ranks disagree on what is done; memory reused while it is written | what is published is complete and is what was saved; every save resolves |
| **Local checkpoints** `checkpointing/local/**` | shard files (and `.dirty` files) per rank, replication groups | save, replicate, finalize, clean up, find latest, load | crash in mid-save, lost nodes, clean-up in a thread | a save reported good stays loadable; ranks resume together |
| **Attribution** `attribution/**`, `services/**` | request cache, computations in flight, job table, logs | coalesce requests, analyse logs | concurrent requests, computations that hang, a file that changes under them | few computations per key, results that belong to the file, nobody waits for ever |
| **Shared utilities** `shared_utils/**` | log queues | log aggregation, health probes | I/O | — |

**Interactions.** A launcher runs one elastic agent and, for each local rank, one
rank monitor process and one worker process. Launchers meet only through the
barrier's store. A worker reports to its rank monitor over a Unix socket, the
monitor kills a late worker, the agent sees the death and opens the next round,
and its peers see that round in their polling loop and rejoin. The agent asks the
progress tracker and the attribution poller whether to restart at all, and its
decision ends every launcher through the shutdown key. The in-process
wrapper is an independent layer inside a worker: its restarts do not reach the
launcher unless the worker process dies. Checkpoints are calls of the training
code; asynchronous ones leave work to a process of their own, and both kinds meet
their peers in collectives, so that one rank that fails or is killed between two
of them leaves the others with a different state.

The hazards that follow from this (steps of two launchers between two store
operations, reused keys, stale snapshots, dropped connections, ...) are listed
one by one, at the lines where they bite, in `PROJECT.json` under `hazards`, each
with the properties that would catch it or the reason why none does.

## 2. Modules

| Module | Contents |
|---|---|
| `RankAssignment` | The decisions of `_assign_group_ranks` and of its feasibility test in closed form, over a set of participants |
| `GroupRankLoop` | The same loop statement by statement over a growing set of participants, with the properties of the result |
| `BarrierRendezvous`, `BarrierProperties` | The barrier protocol (launchers, store host or control process, agent loop) and its properties |
| `RendezvousRounds` | What a rendezvous promises: the abstract specification |
| `BarrierRefinement` | The history variables and the mapping under which the barrier implements `RendezvousRounds` |
| `ElasticAgent`, `ElasticAgentProperties` | The launchers' agents, with restart budget, progress tracker and exit codes, over `RendezvousRounds` |
| `RankMonitor`, `RankMonitorProperties` | One rank monitor and the workers it outlives |
| `InProcessRestart`, `InProcessProperties` | The in-process wrapper: ranks with their monitor processes over the store |
| `InProcessTree`, `InProcessTreeProperties` | The rank assignment that knows the topology |
| `AsyncCheckpoint`, `AsyncCheckpointProperties` | Asynchronous checkpoint calls, their workers and caches |
| `LocalCheckpoint`, `LocalCheckpointProperties` | Saving, cleaning, finding and loading local checkpoints |
| `RequestCoalescer`, `CoalescerProperties` | Concurrent requests for one analysis |
| `RankProofs`, `BarrierProofs`, `AgentProofs`, `RankMonitorProofs`, `CoalescerProofs`, `InProcessProofs`, `AsyncProofs`, `LocalProofs` | Theorems |
| `MC*` and `*.cfg` | Instances for TLC |

Composition: `BarrierRendezvous` EXTENDS `RankAssignment`, so that the host assigns
exactly the ranks that `GroupRankLoop` compares with the loop of the code. The
barrier implements `RendezvousRounds`, and `ElasticAgent` EXTENDS it: each step of
an agent conjoins what the agent does with the action of the abstract rendezvous
it causes. So the agents are checked against everything a rendezvous may do, of
which the barrier does a part, and no store key appears in their model.

An operator whose comment starts with "Mutant:" is a faulty variant of the
definition that follows it. No specification uses it: it is there to show that a
property notices the fault. Most property modules have a `TypeOK` that says what each
variable holds; it is true in the instances, and the runs leave it out to ask
for what is harder to get right.

## 3. The group rank assignment

`GroupRankLoop` starts from no participants and adds one at a time (`Arrive`), with
an infrastructure rank nobody else has or with none (for a duplicate the code raises, and
assigns nothing), so every reachable state is a snapshot the store host may
see. `LoopRanks` is the loop of `_assign_group_ranks`: domains in order of their
lowest rank, whole segments from each until there are enough, everybody else a
standby with a rank after the active ones.

`GroupRank.cfg`: six nodes in domains of three, two and one, segments and
replacement groups of two, world sizes 2 and 4. The sizes make a domain with a
remainder, one that fits exactly, one too small; a group that completes in several
ways and a node without a group. One node of each domain may come without an
infrastructure rank; which node does makes no difference to the order, since one puts all
participants in descriptor order.

* `FeasibilityIsExact`: the test that lets the host stop waiting says yes exactly
  when the assignment does not raise.
* `LoopIsClosedForm`: the loop computes what `RankAssignment` says; the protocol
  model uses the latter.
* `RanksAreDenseAndSegmented`: ranks are `0 .. n-1`, each once; a segment lies in
  one domain; active nodes come from complete replacement groups.
* `RankLostOnlyToEarlier`: when a participant joins and a node loses its active rank, a
  newly active node comes before it in the order the join has led to. Most joins keep that
  order; one without an infrastructure rank replaces it by the order of the descriptors.

All four are proved for every value of the constants (section 13).

## 4. The rendezvous barrier

### Model

Each process has a program counter `pc`, and an action is at most one effective
operation on the store together with the local computation around it. So the
launchers interleave between `check` and `set`, and between the read and the
`compare_set` of `_round_fenced_compare_set`. The labels follow the code:

| Labels | Code |
|---|---|
| `init`, `initSet`, `keyCheck`, `keySet` | `__init__`: creating the round 0 key and, on the host, the shutdown key |
| `s0`, `s0read` | Step 0, `_wait_for_rendezvous_open` |
| `count`, `mark` | a failed health check: count the node, mark its replacement group |
| `add`, `rankGet`, `rankSet`, `slotGet`, `slotSet` | Step 1, joining |
| `close`, `probe`, `fetch`, `decide`, `assign`, `finish` | Step 2, `_host_close_round` |
| `s3`, `s3done`, `s3rank` | Step 3, `_wait_for_round_done` |
| `active`, `open`, `stop`, `stopOpen` | the agent's monitor loop |
| `fault`, `conflict`, `gone` | RuntimeErrors, and the end of the process |

`Host` is the store host. If it is one of the `Launchers`, it joins and closes
rounds (embedded host); otherwise it is the control process.

Events are enabled by constants: workers fail (`Failing`), the health check fails
(`Unhealthy`), a launcher is killed (`Crashing`), a join times out (`Impatient`),
the job is stopped (`Stopping`), the workers finish or the budget is used up
(`Finishing`).

Abstractions: participants' descriptions are functions of the launcher; the
two no-restart reasons are one, the protocol does not tell them apart; a poll that
finds nothing new is no step; times are not modelled, so a deadline may pass at
any time after it is armed. `Host` does not crash: the store lives in its process,
and without it no operation of any launcher succeeds.

### The abstract rendezvous

`RendezvousRounds` says what the callers of `next_rendezvous` rely on: rounds open one
after the other, each is closed once and with a world of `MinNodes` launchers with
different ranks, a launcher runs workers under the rank the world of a closed
round gives it, in rounds that only grow, and the first reason to end the job is
the reason. In the store, the keys of one round are reused by the next, and the
ranks in them may be replaced at any time. So `BarrierRefinement` keeps two history variables
(`world_of`, the world the keys held when the round was closed, and `last_entered`)
and maps `phase` to the `round_done` keys, `running` to the rank a launcher has read
while its workers run, `ended` to the shutdown key. `ImplementsRounds` then fails on
anything that a launcher does with keys of the wrong round: it caught an unfenced
read of the rank, a host that takes participants of any round, and a round opened
out of order.

### Runs

* `Barrier_exact.cfg`: an external control process and two launchers, both needed,
  three rounds, cold start of the store. Both may fail, stop the job or finish. Checked:
  * `NoUnexpectedConflict`: no launcher ends with the RuntimeError of the fenced
    compare-and-set, which is meant for protocol violations.
  * `FirstReasonStays`: once a reason to shut down is recorded, it stays.
  * `OpenRoundResolves` (liveness): a round that is open gets closed, or the job is
    being shut down. Nobody crashes or times out in this instance.
* `Barrier_three.cfg`: the same properties and `SlotExclusive` with an embedded host and three
  launchers, all needed, over two rounds. It is no run of the project, for its time.
* `Barrier_spare.cfg`: an embedded host, three launchers for two or three places. Launcher 1,
  the host, fails, 2 is killed, 3 is unhealthy and may end the job, and all of them may time
  out. 2 and 3 are one replacement group, so 2 may have joined, and be in the host's
  snapshot, when 3 marks the group. Slot keys are reused, late joiners race with the host, and the last call decides about
  the previously active nodes. Checked:
  * `SlotExclusive`: no two launchers hold one slot in one round.
  * `ImplementsRounds`: the refinement above.
  * `FenceMonotone`: the round of the data in a key never decreases.
  * `DecisionReplacesOnlyTheLost`: the host keeps no node of a group that is marked
    unhealthy, although its keys may still be in the store; and until the last call has
    expired it leaves out no previously active node of a healthy group. The round over
    which 3 has marked the group stays open here, for want of a second healthy node; with
    `MinNodes = 1` the host closes it alone, and the property holds as well (933,497
    states). `OnlyTheLostAreReplaced` covers both.
* `Barrier_reopen.cfg`, `Barrier_control_groups.cfg`, `Barrier_stop.cfg`: see
  section 12.

`NoUnexpectedConflict` is false with a spare node: with `MinNodes = 2`, `MaxNodes = 3`
and `Failing = {1}` a slow joiner of round N writes between the read and the
`compare_set` of a joiner of round N+1, and the latter ends with that RuntimeError.
The fence works in one direction only. Its validity without a spare is not by accident: a
round then cannot close without each launcher, so whoever is still about to write
cannot be overtaken.

### Bounds

`MaxRound = 1`: rounds 0 and 1 are played and the key of round 2 exists. Two rounds
are enough for every way one round reaches into the next: stale slot data, a stale
rank, a lost compare-and-set, a second opener. The third of `Barrier_exact.cfg` lets a
launcher be two rounds late. `MaxSlots` is at least the number of launchers, so each joins a
round at least once; a launcher that goes back to Step 0 and would need one slot more
stays there. Three launchers give a host, a node that is overtaken and the node
that overtakes it.

### Fairness

`FairSpec` assumes weak fairness of each process's steps in joining, waiting and
polling, of the host's closing loop, and of the last-call deadline: these are loops
of live processes with a sleep, over a store that answers. No fairness is assumed
of the events (failures, stops, timeouts).

## 5. The elastic agent

### Model

Per launcher, `pc` follows `LocalElasticAgent` through `run`, the monitor loop, the
restart decision, the exit barrier and the exit code that `launch_agent` and its
callers make of the exception or result; `round` is the round of its rendezvous
handler, `remaining` the restart budget, and `last` and `count` the progress
tracker's. Events: workers fail or succeed, a checkpoint is saved, the
checkpoint file cannot be read, the attribution service latches a STOP, a node
is found unhealthy or is lost.

A launcher whose workers fail first asks the tracker (`HandleRestartDecision`, for
`_handle_restart_decision`); then it pays for a restart and opens the next round,
or records that there is no progress and opens a round to be noticed, or, its budget
used up, ends the job. A launcher that sees the next round open takes the same decision
and opens nothing. A latched STOP verdict comes before either. A hot spare waits for a
round that takes it in, and pays nothing. The exit barrier ends at any time, as
it does when all are there or its timeout has passed; while in it, a launcher
ignores the next round, as the code does (`launcher.py` 671–679).

`Leave` of the abstract rendezvous is taken together with the decision that stops
the workers. A launcher whose budget is used up ends without waking its healthy
peers, which see the end when they next ask the rendezvous.

### Run

`Agent.cfg`: three launchers for two or three places, two restarts, a stop after two cycles
without progress, two checkpoints, two losses, one unreadable file. The job starts anew or
from a checkpoint that is there.

* `BudgetIsPaidOnce`: a launcher that runs workers has paid one restart for every
  earlier cycle it ran them in, since it started: not two when it saw its own
  failure and a peer's round at once, and none for the cycles it stood by in.
* `NoProgressIsReal`: a launcher's tracker asks for a stop exactly when two cycles in
  a row have shown it the iteration it had known before. A cycle whose checkpoint cannot be read
  does not count and does not reset the count, nor does it become the baseline; progress
  in between does reset it. `readings` is a history variable: every iteration that was
  in the file when the launcher could read it, at its start and at the end of a
  cycle it decided about, recorded beside the tracker and not by it.

The rounds of `MCRounds` are enough to use the budget of each launcher up and to see
the round that announces the end. Two losses take away the spare and one more. Three
cycles with one unreadable file between two equal readings are the least in which "in a row" and
the reset differ from a plain count. The launchers other than the store host are
symmetric. One more bound: the host is in every world, under the first rank
(`HostInEveryWorld`, a constraint on the states explored); the proofs need none of this. There
is no fairness: whether agents end is not checked here, because a standby launcher
does wait for ever when the world is lost before a round takes it in.

What a launcher exits with is not checked either. The code does not keep
success apart: an exception or a join timeout closes the rendezvous as "graceful", and
who waits in it then exits with 0 (`SuccessIsEarned`, section 12).

## 6. The rank monitor

### Model

The server and its clients run in different processes and share a stream; the
server's handlers and its periodic task share one event loop, so a handler is
atomic between two awaits. Actions: `Accept`, `Acquire` (of the connection lock),
one action per message, `HandleEndOfStream`, `RefuseMessage` (the state machine
raises), `PeriodicCheck`, `HealthCheckFails`, `Signal`, and the worker's calls
(`StartWorker`, `SendHeartbeat`, `StartSection`, `EndSection`, `SetTimeouts`,
`Hang`, `Dies`, `ClientFails`).

Time is the age of each recorded moment, advanced by `Tick` and capped at `MaxAge`,
above every timeout, so the cap loses nothing. Answers to heartbeats and
sections are off, which is the default (`skip_section_response`): up to
`MaxInFlight` messages are under way. `end_all_sections` is no step, because the
client never sends its message: it names the section `None`, for which no timeout
is configured. The timeouts that `TimeoutsCalc` computes are one other set of
timeouts, which a client may set at any time.

### Runs

`RankMonitor.cfg`: two workers in turn, two sections and a warmup timeout; the second
worker may connect before the first one's stream is read to its end.

* `MonitoredIsConnected`: one connection is read at a time and the monitored rank is
  that of this connection.
* `WarmupCountsFromThisSession`: the warmup of a worker starts where this worker
  started.
* `SectionViewsAgree`: nothing is answered, and yet client and server agree on the
  open sections when all is read.
* `ConnectingIsAnswered`, `MonitoredHangIsDetected`: liveness.

Fairness: every handler and the periodic task of the event loop, and time.
Nothing is assumed of the worker, nor that it reports.

Two workers suffice for the handover from one session to the next; the run
`RankMonitor_reconnect.cfg` needs three, because the state machine counts losses.

## 7. The in-process wrapper

### Model

Per rank `InProcessRestart` has the main process (`main`, the label of where it is in
`CallWrapper.__call__`, and `state`, its iteration, rank and world size), its
monitor process (`monitor`, with `view`, the state it was last told of, and
`watching`, its sibling thread), and the message queue between the two, which the
main process writes and the monitor process reads at its own pace. `store` has one
record of keys for each iteration, as the code has one `PrefixStore`.

| Labels of `main` | Code |
|---|---|
| `run`, `hung`, `stuck` | in `fn` or `reserve_fn`; a hang that an exception ends, one that it does not |
| `raised` | the exception handler, waiting for the monitor thread |
| `complete` | the completion barrier |
| `restart`, `barrier` | `finalize` and the health check; the iteration barrier |
| `exit`, `recorded`, `leaving` | the handler of `BaseException`: record, arrive, leave |
| `ending`, `hosting`, `gone`, `failed`, `dead` | `shutdown`; the store host in it; ended; `shutdown` has raised; killed |

The monitor thread is `RankShouldRestart`: it interrupts the main thread anywhere
between the start of an iteration and the end of the completion barrier. `Restart`
reads the terminated ranks, applies `ShiftRanks` and starts the next iteration.
The monitor process reads a message (`Receive`), times out (`SoftTimeout`,
`HardTimeout`), speaks for a dead main process (`MournRecords`, `MournArrives`,
`MournLeaves`), and its sibling thread ends ranks whose monitor is silent
(`TerminateSilent`). That thread also arrives for them at the termination barrier, but
with what `get_initial_ranks` returns, a list of bytes (`sibling_monitor.py` 149–154, `store.py`
101–102): `str` makes `b'2'` of it, which `reentrant_barrier` appends to the arrivals and then cannot
convert to a number. The call raises and so does every later one (`Spoilt`): a rank that then
shuts down ends in `failed`, with its watchdog thread still running, so that its monitor
process may terminate it (`HardTimeoutAtEnd`). `MaxActiveWorldSize` keeps a reserve, `RetryController` bounds
the iterations.

Time is not modelled. Two assumptions stand for the timeouts of the defaults: no
barrier times out, and ranks leave a barrier that is complete before the heartbeat
timeout declares those that have left it silent. A hang is a step, after which
the soft and then the hard timeout may come; a rank that works is never timed out. So is the
store host never while it waits at the termination barrier, although its monitor process
may take a long wait for a hang.
The store host is not killed, and a monitor process dies only with its node.

### Runs

`InProcess.cfg`: three ranks, two active and one in reserve, up to two restarts, two
faults out of an exception, a hang that needs the hard timeout, a failed health check, a
killed main process and a lost node. (A BaseException of the function takes the way out
of a failed health check; with `Exiting = {0}` the run passes too and takes twice as long.)

* `RestartIsSynchronized`: no rank is at work in an iteration while another is still
  at work in an earlier one.
* `OneWorld`: ranks of one iteration agree on the world and have different ranks in it.
* `CompletionIsFinal`: once the completion barrier is complete, and nobody was
  terminated, nobody restarts.
* `OnlyTheFaultyAreTerminated`: the ranks recorded as terminated in any iteration
  belong to processes that are dead or have given up, although the monitor
  processes write them with the numbers of the iteration they know of.
* `FailureIsNoticed`, `BarrierReleases`, `HostIsReleased`: no rank stays in the function
  next to a failed one, at an iteration barrier, or in the host's unbounded wait at
  the termination barrier, the last unless a sibling has spoilt that barrier
  (section 12): what is left to claim is that ranks that return, give up, are killed
  or hang are all counted there, by themselves or by their monitor processes. Iterations and faults are bounded, so each is stated as
  "from some time on".

A main process is killed, or a node lost, while it is in the function, in its
exception handler, or between the interruption and the barrier (`DyingAt`), once its
monitor process knows the iteration (until then it is "start", whatever its label).
Death at the other places is where the
protocol has no answer: at the iteration barrier and right after it, it is
`InProcess_worlds.cfg`, and at the completion barrier some ranks return and the
others wait for them at the iteration barrier until that times out, as in
`InProcess_slow.cfg`.

Three ranks are the least with a victim, the sibling that watches it and a third
that learns of it only from the store. Two faults let the second one hit the
handling of the first; two restarts let the second iteration inherit a world that
has already shrunk.

### Fairness

Weak fairness of each main process outside the function, of each monitor process,
and of the retry limit. The function itself may run forever.

## 8. The topology tree

### Model

`Tree` keeps a copy of the topology in every rank and repairs it, in each restart,
from the set of terminated ranks. The repair is deterministic, and the ranks agree on
the set (section 7), so one tree stands for all copies. A leaf is named by its
place in depth-first order, a node by its layer and the leaves below it; the
pool of spares of any node is derived from the order of the root's. `FirstCall` is
the first call and `Restart` each later one: the whole of propagation of
terminations, replacement from reserve domains, backfilling, shifting and
the filter of the world size, in the order of the code.

Abstracted: the copying of a state's `iteration` and `fn_exception`, logging,
`RankDiscarded`, and how the tree is built from the keys of the launcher. Driving
the code through the same setups and terminations reaches as many states as TLC finds
of the model.

### Run

`Tree.cfg`: 53 topologies of six ranks: two hosts of three, leaves of their own, and
racks of hosts, each with minima, maxima, reserve and backfill flags in
different layers, and a world size that must be divisible. Every set of terminations, one
call after the other until nobody is left.

* `TreeIsSound`: after every call the active leaves have the active ranks
  `0 .. n-1`, the living ones the ranks `0 .. m-1`, the spares are the rest; and a node has no
  living leaf or at least its minimum, at every layer.
* `SparesAreUsed`: the active world shrinks only where the reserve domain has no spare
  left.
* `RepairIsLocal`: while the world keeps its size, survivors keep their ranks; when it
  shrinks, survivors outside the damaged backfill domains keep their order and only move
  down.

`RepairIsLocal` asks no more because the code does no more: backfilling the loss of
active ranks 0 and 3 among `0 .. 3` moves both survivors, where one move would do.

## 9. Asynchronous checkpoints

### Model

Every rank is a trainer with its persistent worker. A save is planned, prepared
(`PrepareWriteData`: send the tensors, or reuse what the worker has cached, or overwrite
the shared memory, which must first be drained), handed to the worker and waited for
until it is staged; a poll takes a completion, votes in the all-reduce, finalizes the head
of the queue and gathers the results, whereupon the coordinator publishes the metadata. The
trainers issue the same operations in one order, at their own pace
(`script`). A worker writes and may fail, or be killed; all ranks may abort and start
again in the same processes (`BeginRestart`, `Abort`, `EndRestart`).

A tensor is the save whose value it holds, and where it lives; so a file is good, torn
(it holds values of another save), partial or absent.

### Run

`AsyncCheckpoint.cfg`: two ranks; one with tensors over CUDA IPC, and both over shared memory;
four operations with three saves, one fault. `AllSetups` of the MC module adds both over
CUDA IPC and takes four times as long.

* `PublishedIsComplete`: metadata are published only when each rank's files are there
  with the values of that save, unless a restart has left calls or results behind. After any
  restart the files may, with shared memory, hold values of another save (`async_undrained`).
* `CreditIsForTheHead`: a completion held while others still write belongs to the
  oldest live call.
* `WrittenIsScheduled`: a worker writes the values of the save it was asked for, although
  it reads cached handles and reused memory, as long as the drain is registered.
* `EverySaveResolves` (liveness): without kills and restarts, the last close ends
  with each save published or raised.

Three saves let one be in preparation, one in the worker and one waiting for its
poll. Two ranks may disagree on what is done. Fairness: trainers, live workers and
complete collectives go on; nothing is asked of kills and restarts.

### Where the code gives no guarantee

These are left out of the properties, by their hypotheses, because the code does not
provide for them:

* A rank without tensors does not drain: with shared memory, its peers finalize
  a call on their own, and the collectives no longer pair up. The setup `OneShm` of
  the MC module, which no run uses, violates `EverySaveResolves`.
* A drain finalizes without asking the others, so finalize functions may run before
  all ranks have written. Without drains they do not: `FinalizedAfterAllWrote` is proved.
* After an abort, stale entries of `async_calls` count as done, and results of the earlier
  worker are taken for those of new calls (`core.py` 973–976).
* A worker that was killed is never noticed: its trainer waits for ever.

## 10. Local checkpoints

### Model

`files` is what each rank's directory holds: shards, each clean or dirty, with a
tag of the run that wrote it. A rank lists what it has and takes part in the collective of
`find_latest`, loads from its own directory or from its clique, trains, writes its
shard and, replicated, those of its clique (`OpenDirty`, `Rename`), and finalizes: removes
the outdated iterations or, if the gathered coverage is not complete, the failed one. With
asynchronous saving the clean-up is handed to a thread (`cleaning`). A process is killed at any
step, a write fails, a directory is lost (another node); then all ranks start again
(`RestartAfterFailure`).

### Run

`Local.cfg`: two ranks, three iterations, two faults; synchronous and asynchronous
saves with pairs of replicas, asynchronous without.

* `SavedIsRecoverable`: once a save was reported good, it or a newer one can be loaded at
  every later moment, through clean-ups, later saves that fail half way, and losses
  that replication tolerates.
* `ResumesTogether`: ranks go on from one iteration, not before the last good save.
* `LatestCanBeLoaded`: no rank finds that nobody holds its shard while others load.

Three iterations are a good save, the next one that outdates it, and one that
fails; two faults let a kill hit the aftermath of the first.

The set of ids is gathered by iteration and rank alone, so shards of two attempts at
one iteration may be loaded together, and a save may be reported good although a
replica is missing: `OneSaveIsLoaded` and `GoodIsReplicated`, which say otherwise, are
false with the constants of `Local.cfg`. A program whose training is deterministic does not
notice the first; the second is what `strategies.py` 208 says ("fully replicated").

## 11. The request coalescer

### Model

One key. Nothing is awaited under `_lock`, so a task is atomic between its awaits:
`Ask` is `get_or_compute` up to the computation or the wait, `Return`, `TimeOut` and
`Fail` end a computation, `Wake`, `StopWaiting` and `CancelWait` a wait; `Peek` is the
look at the cache that computes nothing, `Restart` an export and import. The file's
version stands for its mtime and size. Ages (of a computation, of a cache entry, of
the file) are classes, and time passes from one to the next.

### Run

`Coalescer.cfg`: three clients, three computations, two versions of the file.

* `StuckCostsOne`: a computation dropped as stuck allows one more to run beside it, and
  nothing else does, although the dropped one takes its successor's entry away when it
  ends.
* `InFlightIsComputed`: whoever finds a computation in flight waits for a future
  that a running computation will complete.
* `ValidEntryIsExact`: the result that a client is given without a computation is that of
  the file as it is, although the file changes before, during and after the analysis.
  Excepted are the two kinds of entries that the code serves whatever the file is: those whose
  metadata could not be read, and those in their grace period whose metadata are not the file's.
* `WaitersAreReleased` (liveness): a waiting client is answered or gives up, even if
  the computation hangs.

Fairness: time passes, and a wait that can end does. Of computations nothing is asked.
Three clients are the owner, a waiter, and one that comes after a clean-up.

## 12. Disagreements between code and documentation

Two runs must end with a counterexample:

| Run | Property | What happens |
|---|---|---|
| `async_undrained` | `NothingTorn` | `close()`, also by `abort_nvrx_checkpoint`, unregisters the drain of shared memory, which only `__init__` registers (`core.py` 1026). The queue is used on: the third save after an abort overwrites the tensors of the second, which the worker is still writing. That write counts as done like any other. |
| `local_dirty` | `SavesGetThrough` | A rank killed between creating the `.dirty` file and renaming it leaves the file, which nothing removes before the same iteration is saved again; that save opens it exclusively and raises, and so does the next attempt (`local_manager.py` 117). |

The following are no runs of the project, and can be reproduced with the configurations named:

| Configuration | Property | What happens |
|---|---|---|
| `Barrier_reopen` | `ClosedStaysClosed` | `open_rendezvous` checks the key and then sets it. Two nodes fail, both find the key absent, one opens the round, the host closes it, and the set of the other reopens it, although "the check() guard ensures only the first caller writes". |
| `Barrier_control_groups` | `WorldOfCompleteGroups` | `replacement_group_size` does not reach the control process, which closes the rounds. |
| `Barrier_stop` | `StopEndsEveryLauncher` | A stop signalled by a node still in round N after round N+1 has closed: the nodes in N+1 poll N+2, which nobody opens. |
| `Agent_ends` | `NoRestartReachesEveryPoll` | The other way round: a store host that already waits for round N+1 opens N+2, while launchers in N poll N+1 (`ft_rendezvous_barrier.py` 1407). |
| `Agent_ends`, with this property in its place | `RemainingFollowsTheCycle` | A hot spare pays nothing for the cycles it stands by in, so it keeps more than `max_restarts - cycle_number` (`launcher.py` 472–475). |
| the same | `OneExitCode` | A launcher whose budget is used up when another one records the no-restart decision exits with 1, not with the code that "every launcher in the job" exits with (`usage_guide.rst` 336). |
| `Agent`, with this property in its place | `SuccessIsEarned` | A launcher whose join times out, or that ends by an exception, closes the rendezvous as "graceful" (`launcher.py` 1746–1752), one of the two reasons that "describe how the job ended" (`utils.py` 39); a launcher that waits for a round to open finds that reason, returns None (`launcher.py` 548–562) and exits with 0, though no workers have succeeded. |
| `RankMonitor_reconnect` | `NoReportIsRefused` | A worker that dies before its first report leaves the state machine in a state in which every later report is refused. |
| `RankMonitor_sections` | `OpenTooLongIsDetected` | Only the section opened last decides; a hang is not seen while an inner section has no timeout. |
| `InProcess_worlds` | `OneWorld` | A rank dies after it has left the iteration barrier, before its monitor process has handled the new start, and is recorded in the old iteration. A rank that has read the terminated ranks and one that reads them now compute different worlds, and the new iteration has one rank missing or two ranks with one number. |
| `InProcess`, with `Spoilt` dropped from this property | `HostIsReleased` | A sibling counts the ranks it has terminated with bytes (section 7); the termination barrier then raises for everybody else, and the store host, if it waits there already, waits for ever. |
| `InProcess`, with `Losing = {1, 2}` and no other fault | `BarrierReleases` | The call that raises also ends the sibling thread, so the loss of a second node that it should have watched is noticed by nobody. |
| `InProcess_slow` | `CompletionIsFinal` | A rank exceeds the soft timeout; the ranks at the completion barrier are interrupted, but stay counted; the slow rank finishes before its own monitor thread interrupts it and completes the barrier. It may return, and the others wait for it at the iteration barrier. |
| `Tree`, with this property in its place | `MaxRanksHolds` | `replace_with_inactive` activates a spare without a look at `max_ranks` of the nodes above it (`rank_assignment.py` 271). |
| `AsyncCheckpoint`, likewise | `NoCacheMiss` | After an abort a save decides that the worker holds its tensors; the new worker's start then clears the caches, and the worker finds nothing (`filesystem_async.py` 531–543, `core.py` 514). |
| `Coalescer`, likewise | `SingleFlight` | "Only one LLM/analysis run per cache key at a time" (`coalescing/__init__.py` 6): one dropped as stuck still runs. |

## 13. What is proved

Everything below holds for every value of the constants under the named
assumptions of the modules: any number of launchers, rounds, slots, workers, messages, clients,
saves and ranks, and any choice of events.

### The group ranks (`RankProofs`)

The assumptions: nodes and infrastructure ranks are integers, segments have any length or
none, replacement groups any size or none, and a world is a whole number of segments.

| Theorem | States |
|---|---|
| `RanksFillTheWorld` | what `AssignGroupRanks` returns for participants that pass the feasibility test |
| `TheTestIsExact` | `ArrivalSpec => []FeasibilityIsExact` |
| `TheLoopIsClosed` | `ArrivalSpec => []LoopIsClosedForm` |
| `RanksAreDenseAndInSegments` | `ArrivalSpec => []RanksAreDenseAndSegmented` |
| `LostRanksGoToEarlier` | `ArrivalSpec => RankLostOnlyToEarlier` |

The closed form comes first. The rank order, and the order in which the domains are visited,
are strict (`RankOrderIsOrder`, `VisitingIsOrder`), and the counts along a finite strict order are a
bijection to `0 .. n-1` (`Numbering`). The feasibility test is a sum over the domains; it is
unfolded one domain at a time, and shown to be the number of seats over the segment length
(`SeatsAreSum`). An induction is not available, so such arguments take a least counterexample
(`LeastNatural`). A world must be a whole number of segments; otherwise the test, which rounds
down, admits too few participants.

Then the loop. `VisitsDomains` and `PlaceInDomain` say where sorting puts a domain and a member of
it. `LocalsAfter` gives the loop's locals after `k` domains in closed form: the ranks of those
visited, how many are active, how many segments that makes, and the next rank of a spare.
`OnePass` shows that the loop body leads from one to the next. Its hard part is the cut: a domain gives all
its whole segments or what the world still lacks (`DomainTakes`), and the rest of its members
continue the spares of the domains before (`DomainSpares`). `LoopIs` unfolds the recursion (`LoopUnfolds`)
with the closed form as its witness, and `ExactFeasibility` and `LoopComputesClosedForm` read off
the end.

The invariant of the loop's specification is `JoinedRankably` (`JoinedIsRankable`): arrivals keep nodes
and infrastructure ranks distinct, which is the precondition of the assignment.

`LostOnlyToEarlier` does not need the order to be the same before and after. A node that loses its
rank, with nobody newly active before it, either has a world of seats before it, all of whose holders were active
with it before, one too many; or has lost its seat, and then those seated in its domain were all
seated with it before, one more than its domain had seats for.

### The barrier (`BarrierProofs`)

The assumptions: launchers are a finite set of naturals, `1 <= MinNodes <= MaxNodes`,
`MinNodes` is a whole number of segments (the handler's constructor refuses anything else),
the events concern launchers, and the host is not killed.

| Theorem | States |
|---|---|
| `Typing` | `Spec => []TypeOK` |
| `ExclusiveSlots` | `Spec => []SlotExclusive` |
| `NoConflict` | `Spec => []NoSameRoundConflict` |
| `SlotFence` | the slot keys' rounds never decrease (the slot part of `FenceMonotone`) |
| `FirstReason` | `Spec => FirstReasonStays`, if the shutdown key exists at the start |
| `OneOpenerReopensNothing` | `Spec => ClosedStaysClosed`, on an existing store with one node that opens rounds |
| `NoSparesReopenNothing` | `Spec => ClosedStaysClosed`, without spare launchers |
| `NothingUnexpected` | `Spec => []NoUnexpectedConflict`, without spare launchers |
| `Fences` | `Spec /\ ClosedStaysClosed => FenceMonotone` |
| `OnlyTheLostAreReplaced` | `Spec /\ ClosedStaysClosed => DecisionReplacesOnlyTheLost` |
| `BarrierImplementsRounds` | `SpecWithHistory /\ ClosedStaysClosed => ImplementsRounds`, on an existing store |
| `SafeOpenersImplementRounds` | `SpecWithHistory => ImplementsRounds`, on an existing store, with one opener or without spares |

`TypeOK` is inductive. Its one hard case is `HostAssign`: the ranks that the host
writes come from `AssignGroupRanks`, whose domain must be shown to contain the
participants of the snapshot.

`SlotExclusive` is not inductive by itself: nothing in it says why the next value
of the counter is free. The argument is:

* `SlotsCounted`: a launcher's slot in its round is at most that round's join count.
  So the next value is nobody's, and `SlotsApart` (distinct slots in a round)
  is preserved by `Join`.
* `KeysCounted`: a slot key with data of round `r` is a slot at most `r`'s count;
  hence a slot fresh in its round has no data of it, which is `Unwritten`: a
  launcher that has a slot and has not written its key finds nothing of its own
  round there. This rules out the conflict in the slot key.
* For the rank key the other writer is the host. `SnapshotOfWriters` and
  `NoStaleSnapshot` say that the host's snapshot holds launchers that have written
  their slot key in the host's round, so their rank key is past its first write and
  the host's write cannot meet a launcher still before it.
* `ExpectedNotNewer`: the value remembered for the compare-and-set is not of a newer
  round than the launcher's. With it `SlotFence` follows: a successful
  compare-and-set replaces a value that is not newer.

The first reason is only kept on a store whose shutdown key exists. On a cold
start the host creates the key with a check and a plain set, and a launcher
cannot yet record a reason in between: `Barrier_exact.cfg` checks that case, and it
is not proved.

**Closed rounds.** `ClosedStaysClosed` is false in general (`Barrier_reopen.cfg`): of two
nodes that found the next round absent, the slower one resets it after the host has
closed it. This needs two openers and a spare node, and the theorems say so: with
one opener (`OneOpener`: `Failing \cup Stopping` has at most one member), the round it is about to
open is still absent when it does (`OpenerInv`); without spares (`NoSpares`), a round is only closed when all
launchers have written their keys in it, so nobody who could open it is behind it
(`AllHaveJoined`). The other theorems take `ClosedStaysClosed` as a hypothesis, since
what they state follows from it however it comes about.

Given that, nobody is ahead of the host by more than the round it has just closed
(`HostLeads`), an assigned rank is of a closed round, or of the one the host is about to close
(`RanksOfClosed`), and the host's snapshot is what the slot keys of its round hold
(`SnapshotIsWritten`). `Fences` follows: the host's `multi_set` is not fenced, but no key
is of a later round when it writes. So does `OnlyTheLostAreReplaced`.

**The ranks.** The host writes what `AssignGroupRanks` returns, and `RanksFillTheWorld` (below)
says that this is a bijection to the world. `RankProofs` is about `GroupRankLoop`, so its constants and
its variable are in scope of `BarrierProofs` too; nothing there refers to them.

**The refinement.** Keys are reused by later rounds, so a rank a launcher reads could be
anything. The invariant `KeysInv` follows the keys: data in a slot that carry its holder's
round are the holder's (`OwnKey`); a launcher has data in one slot of a round
(`OneKey`), of no round later than its own, and once it has given up the slot it is
through with the round (`KeysBehind`); the rank key is written first (`RankFirst`), so
beside an assigned rank the slot key is of the same round (`KeysTogether`). The host
assigns only to participants that pass the test (`Assignable`), so that the slots of its
snapshot hold a bijection to the world when it closes the round (`Assigned`,
`ClosedWithWorld`). From then on the keys give whoever reads them the rank of the history
variable (`WorldsKept`), until the next round overwrites them with no rank; and a launcher that has run in a
round joins no more in it (`EnteredOnce`). Each step then has one of six effects
(`Effects`), and each effect maps to a step of `RendezvousRounds` or to none.
On a cold start it is not proved: `__init__` may create the round-0 key late.

**Without spares.** A `compare_set` lost to an older round needs a second writer in the same
slot, in another round. The one behind would be in a round that others have passed, hence
closed (`BelowAreClosed`), hence one in which it has already written its keys
(`AllHaveJoined`). So what a launcher has read is still there when it writes
(`ExpectedIsCurrent`). This holds for new stores too.

### The agents (`AgentProofs`)

| Theorem | States |
|---|---|
| `EveryCycleIsPaid` | `Spec => []BudgetIsPaidOnce` |
| `NoProgressIsCounted` | `Spec => []NoProgressIsReal` |
| `AgentsUseTheRendezvous` | `Spec => RoundsSpec` |
| `RanksAreExclusive` | no two launchers of one world run under one rank |

The budget is a count over a set of rounds, `started .. round` without those stood by in,
so its invariant must say what the set is wherever `round` is about to change. `AgentInv`
has, besides types: a round that is not closed has no world (`OpenHasNoWorld`), so that entering the
next round adds nothing yet; the members of a world had arrived when it was closed
(`MembersHaveArrived`); and the balance for each place of the launcher, with or without the
cycle it is in (`BudgetOf`). Closing a round is the hard step: it changes the
set of every launcher at once, and is harmless because all its members are
at that round, which none of them counts yet.

`TrackerInv` says what tracker and history have in common: `last` is the latest reading, the
latest `count + 1` readings are equal, and the one before them, if there is one, is different
(`TrackerOf`). The last conjunct is what gives the equivalence its second direction.
`AgentsUseTheRendezvous` has one case per action;
with it, `RanksAreExclusive` is proved from the abstract rendezvous alone, which is what the
abstract specification is for: worlds are bijections, and a launcher that runs has the rank of
the world it entered.

### The rank monitor (`RankMonitorProofs`)

| Theorem | States |
|---|---|
| `OneConnectionIsRead` | `Spec => []MonitoredIsConnected` |
| `WarmupIsOfThisSession` | `Spec => []WarmupCountsFromThisSession` |
| `SectionsAreAgreed` | `Spec => []SectionViewsAgree` |
| `TimersStaySet` | `Spec => []TimersAreSet` |

`ConnectionInv`: while the lock is free no connection is read, at most one ever is, a
monitored rank is that one, and no worker beyond the newest has a connection.

What the server has recorded of the iterations lags behind what the worker has done,
by the messages in the stream. `IterationInv` says that they are in order: where the worker started
is not after the first iteration recorded, this one not after the last recorded, which
is not after any told in a message not yet read, these follow each other in order, and the last is
not after where the worker is. And nothing is recorded while no connection is
read, which is why a session does not inherit from the one before.

`SectionViewsAgree` speaks of an empty stream only; `SectionInv` says what holds while
messages are on their way. For each section the last message about it in the stream, if there
is one, is an opening exactly if the client has it open, and if there is none the server and
the client already agree (`Agreed`). Sending appends to the stream and reading takes its
head, so two lemmas (`AgreedSent`, `AgreedRead`) carry the proof; they need that
`open_sections` has one entry of a name, and that a client that runs does not say "init" again.
`TimersAreSet` uses the same entries: closing a section empties the dictionary exactly when its
only entry goes.

### The coalescer (`CoalescerProofs`)

| Theorem | States |
|---|---|
| `EntriesAreExact` | `Spec => []ValidEntryIsExact` |
| `FlightsHaveOwners` | `Spec => []InFlightIsComputed` |
| `OneFlightAtATime` | `Spec => []StuckCostsOne` |

The metadata of an entry are read before the computation only (`coalescer.py` 728–730), and the
file may be written to while it is analysed. So the content of an entry is of the recorded
version or of a later one, and of none later than the file (`EntryFollowsItsMetadata`); if the
recorded metadata are still those of the file, all three are one version. Reading them
afterwards would turn the first inequality round.
`InFlightIsComputed` is inductive given that computations have different numbers. For
`StuckCostsOne` the count must be sharper while a computation is registered
(`OneMoreInFlight`): those that run without being registered are at most as many as were dropped.

### The asynchronous checkpoints (`AsyncProofs`)

| Theorem | States |
|---|---|
| `Typing` | `Spec => []TypeOK` |
| `CompletionsAreInOrder` | `Spec => []CreditIsForTheHead` |
| `WritesAreOfTheirSave` | `Spec => WrittenIsScheduled` |
| `PublicationsAreComplete` | `Spec => []PublishedIsComplete` |
| `FinalizationsFollowWrites` | `Spec => []FinalizedAfterAllWrote` |

`AccountInv` keeps an account of each trainer's requests. Of its calls the first `d` are
settled: they are of an earlier life, or it is the one being finalized. The requests of the
others, and of the save in staging, lie in this order with the trainer (`cur_item`), in
`comp_q`, with the worker, and in its queue; while the worker lives they are all
there (`AllCounted`), and once it has died those behind it are missing. So a completion in
the hand is that of the first unsettled call. Each action moves one request one place on;
an abort settles all of them at once, which is why `WithoutWorker` says that nothing is on its
way without a worker. Typing needs the account too: a finalization must find its call.

`HandleInv` follows the tensors. Once the handle was sent, the one that the worker has cached is
the home of the tensors, or a new handle lies in the queue; and with shared memory the buffer holds the
value of the save that is staged, or being written while the drain is registered. The
overwriting of shared memory (`PrepareWriteData`) is where the drain is needed: it waits
until the worker has written, and by the account no request is then left.

`PublishedIsComplete` relates all ranks: the coordinator publishes save `s` because
each rank said that *its* oldest result was good, and nothing in a result says of which
save it is. `OrderInv` shows that they mean the same one:

* The saves of the script ascend and a close ends it (`ScriptInOrder`). The calls that a rank
  has queued are saves it has passed, oldest first, and the one it votes on is
  older than them (`CallsInOrder`).
* A save is pending at a rank if it is queued, being voted on, or still to come. All running
  ranks have the same saves pending (`SamePending`), although they may be at
  different operations of the script. A rank gets past a poll, or past a save that drains, only with
  nothing pending from before it (`InStep`); hence ranks that wait in one
  collective are at one operation (`AllAtOnePoint`) and vote for one save (`VotesAgree`).
* Whether shared memory must be drained is the same at all ranks that hold tensors
  (`SameDrain`, `Allocated`, `Drained`). This is where a rank without tensors would break it
  (section 9).

`ResultInv` adds that the results of a rank are those of its oldest calls, in order, and a good one
means that the files are written (`ResultsInOrder`); and that a published save is
pending nowhere (`PublishedIsOver`), so that nothing rewrites its files later. That they hold the
values of that save is `DrainInv`: the drain is unregistered by a close, after which a rank does
nothing more (`CloseEnds`, `Retired`), and by an abort; so until the first restart nothing
overwrites what is being written, and without shared memory nothing ever does. Both hold for ranks
that have not been aborted, while no restart has left calls or results behind, as the property
says.

`FinalizedAfterAllWrote` needs one more invariant, `WrittenInv`: a save voted on as done was
written by all who hold tensors. It excludes shared memory, where a drain finalizes without
asking the others. TLC has checked the property over all setups of the MC module, with four
operations, three saves and one fault; that run is not kept, as the theorem covers it.

### The in-process wrapper (`InProcessProofs`)

| Theorem | States |
|---|---|
| `RestartsTogether` | `DyingAt \subseteq KilledAt => (Spec => []RestartIsSynchronized)` |
| `WorldsAgree` | the same for `OneWorld` |
| `HealthyKeepTheirPlace` | the same for `OnlyTheFaultyAreTerminated` |
| `CompletionEnds` | `(DyingAt \subseteq KilledAt) /\ Slow = {} => (Spec => []CompletionIsFinal)` |

They hold for any number of ranks, reserve, restarts, faults and any faulty ranks.
`KilledAt` is every place of the main process, the ways out of a terminated rank and the
completion barrier among them, but three. At "start" and at "barrier" `OneWorld` is false: the
monitor process records the death in an iteration whose barrier others have already left,
which `InProcess_worlds.cfg` shows for the first (and, with `DyingAt = {"barrier"}`, for the second). A process in "hosting" is the store host, which
`FaultyAssumption` keeps alive. `Slow = {}` is needed for the last theorem only, and
`InProcess_slow.cfg` shows why. The instance of `InProcess.cfg` satisfies both.

The lemmas about ranks come first: with terminated ranks removed from a world, `ShiftRanks`
gives each rank that stays a place in the smaller one (`ShiftedFits`), and never the same to
two (`ShiftedDiffers`); these are arguments about cardinalities of intervals. None of the
properties is inductive. `WrapperInv` says:

* The world of an iteration is the number of ranks that arrived at the barrier before
  it, less the terminated (`WorldOf`). A rank has this world and owns its place in its
  iteration, and every barrier on its way there was released (`Placed`, `Owned`). It came to its
  place from one in the iteration before by `ShiftRanks` (`Came`); so two ranks with one
  place would have had one place before.
* Only owned places are marked, and a released barrier has all of its world (`Marked`, `Full`).
  Every step but `Restart` only marks ranks in one iteration (`Moves`), and a step that would
  mark one in an iteration some have left marks nobody new (`Permitted`): the set of
  terminated ranks that `Restart` reads is the same for all. This is what fails at "start".
* Who has arrived waits at the barrier or is terminated, and who is terminated does not
  come back (`Calm`).
* The monitor process of a live rank listens, its view and the starts in its queue are
  a run of the iterations the rank went through, up to the one it is in, and it knows the
  iteration of a rank that is dead (`Life`). So what it records goes to the right rank.

`CompletionInv` adds the account of the completion barrier: it counts no more ranks than have
left the function (`Count`), and whoever raised, hangs or is recorded as interrupted by a
message still under way leaves the count short (`Short`, `Behind`). A complete barrier is not
short, so nothing has interrupted its iteration, and nothing will.

All four are safety. A death at the completion barrier breaks none of them, but it leaves
ranks waiting for others (section 7), which is a matter of liveness.

### The local checkpoints (`LocalProofs`)

| Theorem | States |
|---|---|
| `SavedIsKept` | `Spec => []SavedIsRecoverable` |
| `RanksResumeTogether` | `Spec => []ResumesTogether` |
| `LatestIsLoadable` | `Spec => []LatestCanBeLoaded` |

The assumption is that the cliques divide the world (`parse_group_sequence` requires it); the
module first proves by division with remainder that `Clique` then partitions the ranks.
None of the three properties is inductive. `LocalInv` says:

* The collectives keep the ranks in one of five phases (`Phases`), and all ranks are at one
  iteration, which each knows in its own way (`Together`): as the one after `latest` while it
  loads, after the one it validated once that was good, and else as `iteration`. It lies after
  the last good save, and no iteration beyond it is complete on the disks (`GoesOn`). No
  step of one rank changes it; gathering does, for all.
* The last good save itself stays complete (`SavedStays`), and not only some later one. A
  clean-up that a thread has still to do is of iterations before it, or removes what
  a failed save left, which is after it (`Cleans`).
* What a rank has listed is what its directory holds, from the last good save on
  (`Lists`): older shards may vanish between listing and gathering. Therefore the
  gathered coverage is exact for the iterations that matter.
* With a shard of an iteration a directory has those of all lower ranks of its clique
  (`Prefixes`), because a rank writes them in order. The directory with the shard of the highest rank has
  them all, so each clique has one that is intact, and a loss of directories that spares
  one such (`Tolerated`) spares the checkpoint.

### Only model-checked

Liveness is outside the provers' reach. Checked and not proved: the property of the
topology tree. Of the in-process wrapper the
liveness properties remain, and of the local
checkpoints `TypeOK` is not proved: that a tag is always left for the next run is an
argument about cardinalities.

## 14. What is not modelled

* The death of the store with its host; a launcher that is restarted with the address it
  had; more launchers than slots; NCCL and TCPStore bootstrap of the workers;
  cycle info of the store host.
* In the agent: how worker processes are started, watched and stopped, signals,
  log files, what a launcher does without a store.
* In the rank monitor: how `TimeoutsCalc` computes timeouts; the launcher's
  cycle number; a socket inherited by a forked child of a worker (which
  alone makes the wait for the connection lock time out).
* In the in-process wrapper: barrier timeouts and what follows them, the hard timeout of the
  monitor process of a store host that waits at the termination barrier, the death of a
  monitor process alone and its exception path, the initial barrier, the text of
  interruption records, the hooks (`abort`, `finalize`, `completion`, `terminate`),
  and the rank assignments `FillGaps`, `ActiveWorldSizeDivisibleBy` and
  `FilterCountGroupedByKey`.
* In the asynchronous checkpoints: `TemporalAsyncCaller`, the split of tensors over
  buckets, threads and processes, plans that change from save to save, reading; the death
  of one child of the writer, for which its parent waits.
* In the local checkpoints: several saves of a clique in flight. The code's asynchronous `save`
  (`base_manager.py` 258–310) returns at once, and an `AsyncCallsQueue` keeps several requests
  (`core.py` 869, 976), so that the finalization of one save may run beside the writing of the
  next; `BeginSave` waits for the one before, and the branch for a save that is overtaken
  (295–299) is not reached. Nor a clean-up that is killed between two files:
  `local_manager.py` 140–144 and 153–156 unlink them one by one, `Clean` and `StartCleanup` all of a
  directory at once (the proof's `Prefixes` uses that). Also the exchange of tensors, a world
  or cliques that change from run to run, a writer process that survives its trainer.
* In the attribution service: the controller, tracked jobs and split logs.
* Logging, health probes, the attribution analyses, the HTTP and gRPC services:
  I/O, statistics and language model calls. They are the larger part of the lines of this
  repository: text analysis, prompts, report formats and probes, whose results are a choice
  for the protocols modelled here. That is why the map covers a small part of all lines and most of
  those of the coordination code.

## 15. Plan

Done: the group rank assignment, the barrier with its abstract rendezvous and the
refinement, the agent over it, the rank monitor, the in-process wrapper, the topology
tree, both kinds of checkpoints, the coalescer, and the proofs of section 13.

Left, the most important first:

1. A proof about the topology tree, whose fold over a sequence of layers needs one more
   layer of least-counterexample arguments.
2. `FilterCountGroupedByKey` with its two store barriers, `FillGaps`.
3. Barrier timeouts of the in-process wrapper, with the death of a monitor process.
4. The forwarding queue of the gRPC log funnel; the tracked jobs of the attribution
   service.

## 16. Running the checks

`tlc -config Barrier_exact.cfg MCBarrierRendezvous.tla` and so on; the module of
each configuration is the `MC` module of the component:

| Configurations | Module |
|---|---|
| `GroupRank` | `MCGroupRankLoop` |
| `Barrier_*` | `MCBarrierRendezvous` |
| `Agent`, `Agent_ends` | `MCElasticAgent` |
| `RankMonitor*` | `MCRankMonitor` |
| `InProcess*` | `MCInProcessRestart` |
| `Tree` | `MCInProcessTree` |
| `AsyncCheckpoint*` | `MCAsyncCheckpoint` |
| `Local*` | `MCLocalCheckpoint` |
| `Coalescer` | `MCRequestCoalescer` |

`tlapm BarrierProofs.tla` checks the proofs of a module. The largest run, `Agent.cfg` with
5.8 million states, takes between two and three minutes with two workers, the others a minute or less.
