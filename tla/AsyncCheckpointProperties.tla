---------------------- MODULE AsyncCheckpointProperties ----------------------
(* What is to be true of asynchronous checkpoints; see AsyncCheckpoint. *)
EXTENDS AsyncCheckpoint

Calls == [id : Saves, live : BOOLEAN]
Items == [id : Saves, data : {None} \union Homes]
Results == [id : Saves, ok : BOOLEAN]
Operations == {Save(s) : s \in Saves} \union {Operation(k) : k \in {"poll", "wait", "close"}}
Labels == {"train", "prepare", "schedule", "staging", "poll", "reduce", "finalize",
           "gather", "aborted"}

\* Every variable holds a value of its kind: state of async_ckpt/core.py and
\* filesystem_async.py, and what is on disk.
TypeOK ==
    /\ setup \in Setups
    /\ script \in Seq(Operations)
    /\ at \in [Ranks -> Nat \ {0}]
    /\ pc \in [Ranks -> Labels]
    /\ calls \in [Ranks -> Seq(Calls)]
    /\ cur_item \in [Ranks -> {None} \union Saves]
    /\ vote \in [Ranks -> [id : {None} \union Saves, ok : BOOLEAN]]
    /\ drain \in [Ranks -> BOOLEAN]
    /\ home \in [Ranks -> Homes]
    /\ writer \in [Ranks -> [sent : BOOLEAN, ptr : {None} \union Homes, alloc : BOOLEAN]]
    /\ buffer \in [Ranks -> [Homes -> {None} \union Saves]]
    /\ data \in [Ranks -> {None} \union Homes]
    /\ worker \in [Ranks -> [state : {"none", "idle", "write", "missed", "dead"},
                             cache : {None} \union Homes,
                             id : {None} \union Saves, good : BOOLEAN]]
    /\ queue \in [Ranks -> Seq(Items)]
    /\ comp_q \in [Ranks -> Seq(Saves)]
    /\ results \in [Ranks -> Seq(Results)]
    /\ files \in [Ranks -> [Saves -> {"none", "good", "torn", "partial"}]]
    /\ finalized \in [Ranks -> SUBSET Saves]
    /\ published \subseteq Saves /\ raised \subseteq Saves
    /\ {ops, saves, failures, deaths, restarts} \subseteq Nat
    /\ {restarting, leftover} \subseteq BOOLEAN

\* A worker writes the values of the save it was asked for, although it reads them
\* through a cached handle, or from memory that the next save will overwrite
\* (prepare_write_data, preload_tensors), as long as the drain callback is registered.
WrittenIsScheduled ==
    [][\A r \in Ranks, s \in Saves :
          files'[r][s] = "torn" /\ files[r][s] # "torn" => setup.shm /\ ~drain[r]]_vars

\* The metadata that makes a checkpoint valid is written only when the files of every
\* rank are there and have the values of that save (save_state_dict_async_finalize),
\* unless a restart has left calls or results of an earlier life in the queues; values
\* of another save are found only after a restart, which unregisters the drain of
\* shared memory.
PublishedIsComplete ==
    ~leftover =>
        \A s \in published : \A r \in setup.holders :
            \/ files[r][s] = "good"
            \/ files[r][s] = "torn" /\ setup.shm /\ restarts > 0

\* Finalize functions run after the writes of all ranks (the docstring of AsyncRequest),
\* except where a rank drains on its own.
FinalizedAfterAllWrote ==
    ~leftover /\ ~setup.shm =>
        \A r \in Ranks : \A s \in finalized[r] :
            \A h \in setup.holders : files[h][s] # "none"

\* The completion that a rank holds while the others are still writing is that of the
\* call at the head of its queue (is_current_async_call_done).
CreditIsForTheHead ==
    \A r \in Ranks : cur_item[r] # None =>
        \E i \in DOMAIN calls[r] :
            /\ calls[r][i] = [id |-> cur_item[r], live |-> TRUE]
            /\ \A j \in 1 .. i - 1 : ~calls[r][j].live

\* The trainer has closed its queue.
Finished(r) ==
    /\ pc[r] = "train" /\ at[r] > Len(script)
    /\ \E i \in DOMAIN script : script[i].kind = "close"

\* Without kills and restarts the last close ends with every save published or raised:
\* polls, blocking waits, drains and failed writes in between do not lose one.
EverySaveResolves ==
    <>[](restarts = 0 /\ deaths = 0 =>
           /\ \A r \in Ranks : Finished(r)
           /\ 1 .. saves \subseteq published \union raised)

\* A worker is never asked to write from data it does not hold, which ends it, and
\* with it the trainer's wait for staging: cleanup_tensor_caches "forces the next
\* checkpoint to re-send" the data (filesystem_async.py:541).  After an abort the next
\* save has decided not to send it before the new worker's start clears the caches.
NoCacheMiss == \A r \in Ranks : worker[r].state # "missed"

\* What a worker writes is never overwritten under it: the drain is registered before
\* "any shm tensor is overwritten" (core.py:882).  A close or an abort takes the
\* callback away, and the queue that goes on being used does not register it again.
NothingTorn == \A r \in Ranks, s \in Saves : files[r][s] # "torn"
=============================================================================
