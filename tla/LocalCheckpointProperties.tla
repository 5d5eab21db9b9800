---------------------- MODULE LocalCheckpointProperties ---------------------
(* What the local checkpoint manager promises a job that restarts.            *)
EXTENDS LocalCheckpoint

(* Every variable stays in its range, whatever the faults.                    *)
TypeOK ==
    /\ setup \in Setups /\ run \in Runs
    /\ files \in [Ranks -> SUBSET Files]
    /\ pc \in [Ranks -> Modes]
    /\ iteration \in [Ranks -> 1 .. MaxIteration + 1]
    /\ latest \in [Ranks -> {NoIteration} \cup Iterations]
    /\ listed \in [Ranks -> SUBSET Ids]
    /\ arrived \subseteq Ranks
    /\ todo \in [Ranks -> SUBSET Ranks]
    /\ opened \in [Ranks -> BOOLEAN]
    /\ cleaning \in [Ranks -> SUBSET Tasks]
    /\ loaded \in [Ranks -> Runs]
    /\ saved \in {NoIteration} \cup Iterations
    /\ faults \in 0 .. MaxFaults

(* The shards of iteration i that a run could load now.                       *)
Retrievable(i) ==
    \A r \in Ranks : \E s \in Stores(r) : [iteration |-> i, rank |-> r] \in MyCkptIds(s)

(* Once finalize_fn has reported a save as good, that checkpoint or a newer   *)
(* one can be loaded at every later moment: through the cleanup of older      *)
(* ones, a later save that fails or is killed half way, the cleanup of that   *)
(* one, and the loss of directories replication tolerates.                    *)
SavedIsRecoverable ==
    saved # NoIteration =>
        \E i \in Iterations : i >= saved /\ Retrievable(i)

(* All ranks resume at the same iteration, after the last good save: a rank   *)
(* that trains has not gone back behind what find_latest had promised, and no *)
(* two ranks that train or write are on different sides of a load.            *)
ResumesTogether ==
    /\ \A r \in Ranks : pc[r] = "training" => iteration[r] > saved
    /\ \A q, r \in Ranks : pc[q] = "writing" /\ pc[r] = "writing"
                              => iteration[q] = iteration[r]

(* What find_latest found can be loaded: no rank is left without a replica    *)
(* (retrieve_plan raises NoReplicasAvailableError) while others load.         *)
LatestCanBeLoaded ==
    \A r \in Ranks : pc[r] = "loading" => Holders(r) # {} /\ Retrievable(latest[r])

(* A job that stops being killed gets past each of its saves: it "handles the *)
(* cleanup of broken or outdated checkpoints automatically" (index.rst:22).   *)
SavesGetThrough ==
    <>[](\A r \in Ranks : iteration[r] = MaxIteration + 1)

(* "Checkpoint shards are exchanged and fully replicated within each group"   *)
(* (strategies.py:208): a save that was reported good is in every directory   *)
(* of its cliques.                                                            *)
GoodIsReplicated ==
    [][saved' > saved => \A r \in Ranks, o \in Ranks :
          o \in Stores(r) => [iteration |-> saved', rank |-> o] \in MyCkptIds(r)]_vars

(* The ranks that have loaded a checkpoint loaded what one run saved.         *)
OneSaveIsLoaded ==
    \A q, r \in Ranks :
        pc[q] = "training" /\ pc[r] = "training" /\ iteration[q] = iteration[r]
            /\ loaded[q] # 0 /\ loaded[r] # 0
        => loaded[q] = loaded[r]
=============================================================================
