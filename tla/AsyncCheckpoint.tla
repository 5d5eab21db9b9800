-------------------------- MODULE AsyncCheckpoint ---------------------------
(***************************************************************************)
(* Asynchronous distributed checkpoints (checkpointing/async_ckpt/).       *)
(*                                                                         *)
(* Each trainer hands its checkpoint requests to a worker process of its   *)
(* own and goes on training.  It polls the worker, agrees with the other   *)
(* trainers on which request is written everywhere, and then gathers the   *)
(* write results, from which the coordinator writes the metadata that      *)
(* makes the checkpoint valid.  To send a checkpoint's tensors only once,  *)
(* both sides cache them: by CUDA IPC handles, or in shared CPU memory.    *)
(* After a failure the trainers abort their workers and start again.       *)
(*                                                                         *)
(* The caller is the PersistentAsyncCaller, with cached data structures    *)
(* and one structure of the plan, so that there is one key to cache.       *)
(***************************************************************************)
EXTENDS Naturals, Sequences, FiniteSets

CONSTANTS
    Ranks,        \* the trainers
    Coordinator,  \* coordinator_rank of the save plan
    Setups,       \* shared memory or CUDA IPC, and the ranks that have tensors
    MaxOps,       \* bound: operations in a behaviour
    MaxSaves,     \* bound: saves in a behaviour
    MaxFaults     \* bound: failed writes, killed workers and restarts together

ASSUME CoordinatorAssumption == Coordinator \in Ranks
ASSUME SetupsAssumption ==
    Setups \subseteq [shm : BOOLEAN, holders : (SUBSET Ranks) \ {{}}]
ASSUME BoundsAssumption ==
    {MaxOps, MaxSaves, MaxFaults} \subseteq Nat

VARIABLES
    setup,      \* use_cpu_shm_for_gpu_tensors, and the ranks with has_data_to_write
    script,     \* what the trainers do, all of them in this order
    at,         \* per rank: where it is in the script
    pc,         \* per rank: where it is in that operation
    calls,      \* per rank: async_calls, and whether their caller still has a process
    cur_item,   \* per rank: cur_item of the persistent caller
    vote,       \* per rank: what it brings to a collective
    drain,      \* per rank: the callback of register_shm_drain_callback is there
    home,       \* per rank: where its tensors, or their shared memory, are allocated
    writer,     \* per rank: training-side caches of FileSystemWriterAsync
    buffer,     \* per rank and shared memory: the save whose values are in it
    data,       \* per rank: cached_tensor_data of the request in preparation
    worker,     \* per rank: its worker process
    queue,      \* per rank: requests for the worker
    comp_q,     \* per rank: requests the worker has completed
    results,    \* per rank: results_queue
    files,      \* per rank and save: what is in its files
    finalized,  \* per rank: saves whose finalize functions it has called
    published,  \* saves with metadata
    raised,     \* saves that ended in a CheckpointException
    ops, saves, failures, deaths, restarts,  \* counters, for the bounds
    restarting, \* a restart has begun
    leftover    \* a restart has left calls or results behind

plan      == <<setup, script, ops, saves>>
calling   == <<calls, cur_item, vote>>
staging   == <<drain, home, writer, buffer, data>>
writing   == <<worker, queue, comp_q, results, files>>
outcome   == <<finalized, published, raised>>
faults    == <<failures, deaths, restarts, restarting, leftover>>
vars == <<plan, at, pc, calling, staging, writing, outcome, faults>>

Saves == 1 .. MaxSaves
None == 0            \* no save, no data
Homes == {1, 2}

Save(s) == [kind |-> "save", id |-> s]
Operation(k) == [kind |-> k, id |-> None]

Op(r) == script[at[r]]
First(r) == Head(calls[r])

\* A fresh worker, and no worker: self.process is None.
Spawned == [state |-> "idle", cache |-> None, id |-> None, good |-> FALSE]
NoWorker == [Spawned EXCEPT !.state = "none"]

NoCache == [sent |-> FALSE, ptr |-> None, alloc |-> FALSE]
Nothing == [id |-> None, ok |-> TRUE]

MayFail == failures + deaths + restarts < MaxFaults

Goto(r, label) == pc' = [pc EXCEPT ![r] = label]
\* The operation returns, or is left by an exception, to the training loop.
Done(r) == Goto(r, "train") /\ at' = [at EXCEPT ![r] = @ + 1]

-----------------------------------------------------------------------------
(* The training loop *)

\* "This method must be called on all ranks": the operations come in one order.
Undertake(r, op) ==
    /\ pc[r] = "train"
    /\ \/ at[r] <= Len(script) /\ Op(r) = op /\ UNCHANGED <<script, ops, saves>>
       \/ /\ at[r] > Len(script) /\ ops < MaxOps
          /\ \A i \in DOMAIN script : script[i].kind # "close"
          /\ ops + 1 = MaxOps => op.kind = "close"
          /\ op.kind = "save" => op.id = saves + 1
          /\ script' = Append(script, op)
          /\ ops' = ops + 1
          /\ saves' = saves + (IF op.kind = "save" THEN 1 ELSE 0)

\* A save begins: the plan, the same for all ranks as long as the structure is.
BeginSave(r) ==
    /\ \E s \in Saves : Undertake(r, Save(s))
    /\ Goto(r, "prepare")
    /\ UNCHANGED <<setup, at, calling, staging, writing, outcome, faults>>

\* maybe_finalize_async_calls, at once or blocking, and close, which blocks first.
BeginPoll(r) ==
    /\ \E k \in {"poll", "wait", "close"} : Undertake(r, Operation(k))
    /\ Goto(r, "poll")
    /\ UNCHANGED <<setup, at, calling, staging, writing, outcome, faults>>

-----------------------------------------------------------------------------
(* A save, up to the point where training goes on *)

\* The shared memory of the last save is reused: what is in flight comes first.
MustDrain(r) == setup.shm /\ r \in setup.holders /\ writer[r].alloc /\ drain[r]

\* Data that the worker holds already is not sent again, unless it was moved.
Prepare(r) ==
    \E h \in Homes :
    /\ setup.shm => (writer[r].alloc <=> h = home[r])
    /\ home' = [home EXCEPT ![r] = h]
    /\ data' = [data EXCEPT ![r] =
         IF writer[r].sent /\ (setup.shm \/ writer[r].ptr = h) THEN None ELSE h]
    /\ writer' = [writer EXCEPT ![r] =
         [sent |-> TRUE, ptr |-> IF setup.shm THEN None ELSE h, alloc |-> setup.shm]]
    /\ buffer' = [buffer EXCEPT ![r][h] = IF setup.shm THEN Op(r).id ELSE @]

\* Mutant: the shared memory is overwritten at once.
PrepareUndrained(r) ==
    /\ pc[r] = "prepare" /\ r \in setup.holders
    /\ Prepare(r)
    /\ Goto(r, "schedule")
    /\ UNCHANGED <<plan, at, calling, drain, writing, outcome, faults>>

\* prepare_write_data
PrepareWriteData(r) ==
    /\ pc[r] = "prepare" /\ r \in setup.holders
    /\ MustDrain(r) => calls[r] = << >>
    /\ Prepare(r)
    /\ Goto(r, "schedule")
    /\ UNCHANGED <<plan, at, calling, drain, writing, outcome, faults>>

\* The request joins the calls in flight.
Enlist(r) == calls' = [calls EXCEPT ![r] = Append(@, [id |-> Op(r).id, live |-> TRUE])]

\* Without data async_fn is None: nothing for the worker, but a call all the same.
ScheduleNothing(r) ==
    /\ pc[r] = "prepare" /\ r \notin setup.holders
    /\ Enlist(r) /\ Done(r)
    /\ UNCHANGED <<plan, cur_item, vote, staging, writing, outcome, faults>>

\* The worker is started first if there is none; its start clears the caches.
ScheduleAsyncCall(r) ==
    /\ pc[r] = "schedule"
    /\ IF worker[r].state = "none"
       THEN /\ worker' = [worker EXCEPT ![r] = Spawned]
            /\ writer' = [writer EXCEPT ![r] = NoCache]
       ELSE UNCHANGED <<worker, writer>>
    /\ queue' = [queue EXCEPT ![r] = Append(@, [id |-> Op(r).id, data |-> data[r]])]
    /\ Goto(r, "staging")
    /\ UNCHANGED <<plan, at, calling, drain, home, buffer, data, comp_q, results, files,
                   outcome, faults>>

\* The worker has taken this request and finished its preload_fn.
Staged(r) ==
    /\ \A i \in DOMAIN queue[r] : queue[r][i].id # Op(r).id
    /\ ~(worker[r].state = "missed" /\ worker[r].id = Op(r).id)

\* preload_q.join() returns.
ReturnFromStaging(r) ==
    /\ pc[r] = "staging" /\ Staged(r)
    /\ Enlist(r) /\ Done(r)
    /\ UNCHANGED <<plan, cur_item, vote, staging, writing, outcome, faults>>

-----------------------------------------------------------------------------
(* The worker *)

\* preload_tensors.  Over CUDA IPC it copies what is at the cached address, and the
\* trainer waits for it; shared memory is read only as it is written out.
WorkerStage(r) ==
    LET item == Head(queue[r])
        held == IF item.data # None THEN item.data ELSE worker[r].cache
    IN /\ worker[r].state = "idle" /\ queue[r] # << >>
       /\ queue' = [queue EXCEPT ![r] = Tail(@)]
       /\ worker' = [worker EXCEPT ![r] =
            [state |-> IF held = None THEN "missed" ELSE "write",
             cache |-> held, id |-> item.id,
             good  |-> held = home[r] /\ pc[r] = "staging" /\ Op(r) = Save(item.id)]]
       /\ UNCHANGED <<plan, at, pc, calling, staging, comp_q, results, files,
                      outcome, faults>>

\* The files of this save are written with the values of this save.
IsGood(r) ==
    IF setup.shm THEN buffer[r][worker[r].cache] = worker[r].id ELSE worker[r].good

\* The write functions turn every exception of theirs into a result.
WorkerWrite(r) ==
    /\ worker[r].state = "write"
    /\ \E ok \in BOOLEAN :
         /\ ok \/ MayFail
         /\ failures' = failures + (IF ok THEN 0 ELSE 1)
         /\ results' = [results EXCEPT ![r] = Append(@, [id |-> worker[r].id, ok |-> ok])]
         /\ files' = [files EXCEPT ![r][worker[r].id] =
              IF ~ok THEN "partial" ELSE IF IsGood(r) THEN "good" ELSE "torn"]
    /\ comp_q' = [comp_q EXCEPT ![r] = Append(@, worker[r].id)]
    /\ worker' = [worker EXCEPT ![r].state = "idle"]
    /\ UNCHANGED <<plan, at, pc, calling, staging, queue, outcome,
                   deaths, restarts, restarting, leftover>>

\* The system kills the worker, or a child it waits for: self.process is still set.
WorkerDies(r) ==
    /\ worker[r].state \in {"idle", "write"} /\ MayFail
    /\ deaths' = deaths + 1
    /\ worker' = [worker EXCEPT ![r].state = "dead"]
    /\ UNCHANGED <<plan, at, pc, calling, staging, queue, comp_q, results, files,
                   outcome, failures, restarts, restarting, leftover>>

-----------------------------------------------------------------------------
(* maybe_finalize_async_calls *)

Blocking(r) == Op(r).kind # "poll"
\* shm_drain_callback is the one caller that asks for no_dist.
NoDist(r) == pc[r] = "prepare"
\* A queue without a persistent_caller is closed without a look at its calls.
HasCaller(r) == \E i \in 1 .. at[r] - 1 : script[i].kind = "save"
Polling(r) ==
    \/ pc[r] = "poll" /\ (Op(r).kind = "close" => HasCaller(r))
    \/ pc[r] = "prepare" /\ MustDrain(r)

\* is_current_async_call_done, up to the all_reduce: a completion is taken from comp_q
\* and kept until every rank has one.  A caller without a process has nothing to wait
\* for; one whose worker has died waits on.
Poll(r) ==
    LET waits == First(r).live /\ worker[r].state # "none"
                 /\ cur_item[r] = None /\ comp_q[r] = << >>
        takes == First(r).live /\ worker[r].state # "none"
                 /\ cur_item[r] = None /\ comp_q[r] # << >>
        item  == IF takes THEN Head(comp_q[r]) ELSE cur_item[r]
    IN /\ Polling(r) /\ calls[r] # << >>
       /\ ~(waits /\ Blocking(r))
       /\ comp_q' = [comp_q EXCEPT ![r] = IF takes THEN Tail(@) ELSE @]
       /\ IF NoDist(r)
          THEN /\ cur_item' = [cur_item EXCEPT ![r] = IF First(r).live THEN None ELSE item]
               /\ Goto(r, "finalize") /\ UNCHANGED vote
          ELSE /\ cur_item' = [cur_item EXCEPT ![r] = item]
               /\ vote' = [vote EXCEPT ![r] = [id |-> None, ok |-> ~waits]]
               /\ Goto(r, "reduce")
       /\ UNCHANGED <<plan, at, calls, staging, worker, queue, results, files,
                      outcome, faults>>

\* The all_reduce, and what it makes of the completions when the call is done or not.
Reduce(done, kept, dropped) ==
    /\ \A r \in Ranks : pc[r] = "reduce"
    /\ vote' = [r \in Ranks |-> Nothing]
    /\ cur_item' = IF done THEN dropped ELSE kept
    /\ pc' = [r \in Ranks |-> IF done THEN "finalize" ELSE "train"]
    /\ at' = [r \in Ranks |-> IF done THEN at[r] ELSE at[r] + 1]
    /\ UNCHANGED <<plan, calls, staging, writing, outcome, faults>>

AllDone == \A r \in Ranks : vote[r].ok
Dropped == [r \in Ranks |-> IF First(r).live THEN None ELSE cur_item[r]]

\* Mutants: the completion outlives its call; it is forgotten while others are still
\* writing.
AllReduceKeeping == Reduce(AllDone, cur_item, cur_item)
AllReduceForgetting == Reduce(AllDone, [r \in Ranks |-> None], Dropped)

\* sync_all_async_calls: the call is done when it is on every rank.  Only a poll that
\* does not block gives up here.
AllReduce == Reduce(AllDone, cur_item, Dropped)

\* Mutant: an exception of the worker is taken for its results.
RetrievedAnything(r) ==
    r \notin setup.holders \/ results[r] # << >>

\* retrieve_write_results: the oldest result, whichever save it is of.
Retrieved(r) ==
    r \notin setup.holders \/ (results[r] # << >> /\ Head(results[r]).ok)

\* The call leaves the queue, and its finalize functions run up to the gather.  An
\* exception of the worker makes the next save send its data again.
Finalize(r) ==
    LET failed == r \in setup.holders /\ results[r] # << >> /\ ~Head(results[r]).ok
    IN /\ pc[r] = "finalize"
       /\ calls' = [calls EXCEPT ![r] = Tail(@)]
       /\ results' = [results EXCEPT ![r] =
            IF r \in setup.holders /\ @ # << >> THEN Tail(@) ELSE @]
       /\ writer' = [writer EXCEPT ![r] =
            IF failed THEN [@ EXCEPT !.sent = FALSE, !.ptr = None] ELSE @]
       /\ vote' = [vote EXCEPT ![r] = [id |-> First(r).id, ok |-> Retrieved(r)]]
       /\ finalized' = [finalized EXCEPT ![r] = @ \union {First(r).id}]
       /\ Goto(r, "gather")
       /\ UNCHANGED <<plan, at, cur_item, drain, home, buffer, data, worker, queue, comp_q,
                      files, published, raised, faults>>

\* save_state_dict_async_finalize from the gather on: the coordinator writes the
\* metadata, or every rank raises.  The exception ends the operation, except that a
\* queue that was to be closed is closed again when it is deleted.
Gather ==
    /\ \A r \in Ranks : pc[r] = "gather"
    /\ vote' = [r \in Ranks |-> Nothing]
    /\ LET ok == \A r \in Ranks : vote[r].ok
           next(r) == IF Op(r).kind = "save" THEN IF ok THEN "prepare" ELSE "train"
                      ELSE IF ok \/ Op(r).kind = "close" THEN "poll" ELSE "train"
       IN /\ pc' = [r \in Ranks |-> next(r)]
          /\ at' = [r \in Ranks |-> IF next(r) = "train" THEN at[r] + 1 ELSE at[r]]
          /\ published' = published \union (IF ok THEN {vote[Coordinator].id} ELSE {})
          /\ raised' = raised \union (IF ok THEN {} ELSE
               (UNION {{vote[r].id, Op(r).id} : r \in Ranks}) \ {None})
    /\ UNCHANGED <<plan, calls, cur_item, staging, writing, finalized, faults>>

\* No call is left: the poll returns.
ReturnFromPoll(r) ==
    /\ pc[r] = "poll" /\ Op(r).kind # "close" /\ calls[r] = << >>
    /\ Done(r)
    /\ UNCHANGED <<plan, calling, staging, writing, outcome, faults>>

\* close: the worker gets DONE behind the requests, and its process is joined.
Close(r) ==
    /\ pc[r] = "poll" /\ Op(r).kind = "close" /\ (HasCaller(r) => calls[r] = << >>)
    /\ worker[r].state \in {"none", "idle"} /\ queue[r] = << >>
    /\ worker' = [worker EXCEPT ![r] = NoWorker]
    /\ cur_item' = [cur_item EXCEPT ![r] = None]
    /\ comp_q' = [comp_q EXCEPT ![r] = << >>]
    /\ drain' = [drain EXCEPT ![r] = FALSE]
    /\ Done(r)
    /\ UNCHANGED <<plan, calls, vote, home, writer, buffer, data, queue, results, files,
                   outcome, faults>>

-----------------------------------------------------------------------------
(* Restart in the same processes *)

BeginRestart ==
    /\ ~restarting /\ MayFail
    /\ restarting' = TRUE /\ restarts' = restarts + 1
    /\ UNCHANGED <<plan, at, pc, calling, staging, writing, outcome,
                   failures, deaths, leftover>>

\* abort_nvrx_checkpoint, from wherever the trainer is.  Worker and queues go; the
\* calls stay in the AsyncCallsQueue, the results in their queue, and the caches.
Abort(r) ==
    /\ restarting /\ pc[r] # "aborted"
    /\ worker' = [worker EXCEPT ![r] = NoWorker]
    /\ queue' = [queue EXCEPT ![r] = << >>]
    /\ comp_q' = [comp_q EXCEPT ![r] = << >>]
    /\ cur_item' = [cur_item EXCEPT ![r] = None]
    /\ calls' = [calls EXCEPT ![r] = [i \in DOMAIN @ |-> [@[i] EXCEPT !.live = FALSE]]]
    /\ drain' = [drain EXCEPT ![r] = FALSE]
    /\ Goto(r, "aborted")
    /\ UNCHANGED <<plan, at, vote, home, writer, buffer, data, results, files,
                   outcome, faults>>

\* Training begins anew, with the AsyncCallsQueue it had or with another.
EndRestart ==
    /\ restarting /\ \A r \in Ranks : pc[r] = "aborted"
    /\ \E another \in BOOLEAN :
         /\ calls' = IF another THEN [r \in Ranks |-> << >>] ELSE calls
         /\ drain' = [r \in Ranks |-> another /\ setup.shm]
    /\ restarting' = FALSE
    /\ leftover' = (leftover \/ \E r \in Ranks : calls'[r] # << >> \/ results[r] # << >>)
    /\ script' = << >>
    /\ at' = [r \in Ranks |-> 1]
    /\ pc' = [r \in Ranks |-> "train"]
    /\ vote' = [r \in Ranks |-> Nothing]
    /\ finalized' = [r \in Ranks |-> {}]
    /\ UNCHANGED <<setup, cur_item, home, writer, buffer, data, writing, published, raised,
                   ops, saves, failures, deaths, restarts>>

-----------------------------------------------------------------------------
Init ==
    /\ setup \in Setups
    /\ script = << >>
    /\ at = [r \in Ranks |-> 1]
    /\ pc = [r \in Ranks |-> "train"]
    /\ calls = [r \in Ranks |-> << >>]
    /\ cur_item = [r \in Ranks |-> None]
    /\ vote = [r \in Ranks |-> Nothing]
    /\ drain = [r \in Ranks |-> setup.shm]
    /\ home = [r \in Ranks |-> 1]
    /\ writer = [r \in Ranks |-> NoCache]
    /\ buffer = [r \in Ranks |-> [h \in Homes |-> None]]
    /\ data = [r \in Ranks |-> None]
    /\ worker = [r \in Ranks |-> NoWorker]
    /\ queue = [r \in Ranks |-> << >>]
    /\ comp_q = [r \in Ranks |-> << >>]
    /\ results = [r \in Ranks |-> << >>]
    /\ files = [r \in Ranks |-> [s \in Saves |-> "none"]]
    /\ finalized = [r \in Ranks |-> {}]
    /\ published = {} /\ raised = {}
    /\ ops = 0 /\ saves = 0 /\ failures = 0 /\ deaths = 0 /\ restarts = 0
    /\ restarting = FALSE /\ leftover = FALSE

Trainer(r) ==
    \/ BeginSave(r) \/ BeginPoll(r)
    \/ PrepareWriteData(r) \/ ScheduleNothing(r) \/ ScheduleAsyncCall(r)
    \/ ReturnFromStaging(r)
    \/ Poll(r) \/ Finalize(r) \/ ReturnFromPoll(r) \/ Close(r)

Worker(r) == WorkerStage(r) \/ WorkerWrite(r)

Restart == BeginRestart \/ EndRestart \/ \E r \in Ranks : Abort(r)

Next ==
    \/ \E r \in Ranks : Trainer(r) \/ Worker(r) \/ WorkerDies(r)
    \/ AllReduce \/ Gather
    \/ Restart

Spec == Init /\ [][Next]_vars

\* Training goes on, workers that are alive work, and collectives complete once every
\* rank has entered them.  Nothing is asked of the system that kills and restarts.
Fairness ==
    /\ \A r \in Ranks : WF_vars(Trainer(r)) /\ WF_vars(Worker(r))
    /\ WF_vars(AllReduce) /\ WF_vars(Gather)

FairSpec == Spec /\ Fairness
=============================================================================
