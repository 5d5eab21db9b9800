--------------------------- MODULE LocalCheckpoint --------------------------
(* Local checkpoints (checkpointing/local): every rank saves its shard, and   *)
(* with replication the shards of its clique, under its own directory on the  *)
(* node's disk.  A shard is written to a ".dirty" file, opened for exclusive  *)
(* creation, and renamed.  After a save all ranks look for the latest         *)
(* complete iteration and clean up; after a restart they look for it and load *)
(* it, each from its own directory or from one of its clique.                 *)
(*                                                                            *)
(* A process is killed at any step, a write fails, and a restart may find     *)
(* directories gone (another node).  What a job keeps in memory is lost with  *)
(* it, the files are not.                                                     *)
EXTENDS Integers, FiniteSets, FiniteSetsExt

CONSTANTS
    World,          \* world size
    Setups,         \* the configurations: [async, replicated, jump, factor]
    MaxIteration,   \* bound: iterations 1 .. MaxIteration are saved
    MaxFaults       \* bound: kills, failed writes and lost directories

Ranks == 0 .. World - 1
Iterations == 1 .. MaxIteration
NoIteration == -1

ASSUME ConstantsAssumption ==
    /\ World \in Nat \ {0} /\ MaxIteration \in Nat \ {0} /\ MaxFaults \in Nat
    /\ \A s \in Setups :
          /\ s.async \in BOOLEAN /\ s.replicated \in BOOLEAN
          /\ s.jump \in Nat \ {0} /\ s.factor \in Nat \ {0}
          /\ World % (s.jump * s.factor) = 0

(* Run tags tell apart what two runs of the job wrote for one iteration. They *)
(* are reused when no file carries them any longer.                           *)
Runs == 0 .. World * World * MaxIteration + 1

Ids   == [iteration : Iterations, rank : Ranks]
Files == [iteration : Iterations, rank : Ranks, dirty : BOOLEAN, run : Runs]
Tasks == [kind : {"outdated", "failed"}, iteration : Iterations]

VARIABLES
    setup,      \* the configuration of the job
    files,      \* files[r]: what the directory of rank r holds
    run,        \* tag of the current run
    pc,         \* where each rank is
    iteration,  \* the iteration each rank saves next, or is saving
    latest,     \* latest_iteration, the cached result of find_latest
    listed,     \* the ids each rank listed, {} before it did
    arrived,    \* the ranks that called the collective of find_latest
    todo,       \* shards of id_to_state_dict a rank has not written yet
    opened,     \* the rank has created the dirty file it is writing
    cleaning,   \* cleanups handed to a thread and not executed yet
    loaded,     \* the run whose shard each rank loaded
    saved,      \* history: the last iteration whose save was reported good
    faults

disk    == <<files, cleaning>>
finding == <<latest, listed, arrived>>
writing == <<todo, opened>>
history == <<loaded, saved>>
vars    == <<setup, run, disk, pc, iteration, finding, writing, history, faults>>

Modes == {"starting", "loading", "training", "writing", "written",
          "validating", "deciding", "failed"}

(* parse_group_sequence: every jump-th rank, cut into groups of factor ranks. *)
Clique(s, r) ==
    LET first == (r \div (s.jump * s.factor)) * (s.jump * s.factor) + (r % s.jump)
    IN  {first + k * s.jump : k \in 0 .. s.factor - 1}

(* The ranks whose shards this rank stores.                                   *)
Stores(r) == IF setup.replicated THEN Clique(setup, r) ELSE {r}

FileOf(i, o, dirty, tag) ==
    [iteration |-> i, rank |-> o, dirty |-> dirty, run |-> tag]

DirtyFile(i, o) == FileOf(i, o, TRUE, 0)

(* _my_ckpt_ids, and the filter find_latest applies without replication.      *)
MyCkptIds(r) ==
    {[iteration |-> f.iteration, rank |-> f.rank] :
        f \in {g \in files[r] : ~g.dirty /\ g.rank \in Stores(r)}}

Covered(i) == {id.rank : id \in {d \in UNION {listed[r] : r \in Ranks} : d.iteration = i}}

\* Mutant: an iteration counts as soon as one shard of it is found.
LatestCompleteOfAny ==
    Max({NoIteration} \cup {i \in Iterations : Covered(i) # {}})

LatestComplete ==
    Max({NoIteration} \cup {i \in Iterations : Covered(i) = Ranks})

Init ==
    /\ setup \in Setups
    /\ files = [r \in Ranks |-> {}]
    /\ run = 1
    /\ pc = [r \in Ranks |-> "starting"]
    /\ iteration = [r \in Ranks |-> 1]
    /\ latest = [r \in Ranks |-> NoIteration]
    /\ listed = [r \in Ranks |-> {}]
    /\ arrived = {}
    /\ todo = [r \in Ranks |-> {}]
    /\ opened = [r \in Ranks |-> FALSE]
    /\ cleaning = [r \in Ranks |-> {}]
    /\ loaded = [r \in Ranks |-> 0]
    /\ saved = NoIteration
    /\ faults = 0

-----------------------------------------------------------------------------
(* find_latest: list the own directory, then one all_gather of the lists.     *)

ListIds(r) ==
    /\ pc[r] \in {"starting", "validating"} /\ r \notin arrived
    /\ latest[r] = NoIteration
    /\ listed' = [listed EXCEPT ![r] = MyCkptIds(r)]
    /\ arrived' = arrived \cup {r}
    /\ UNCHANGED <<setup, run, disk, pc, iteration, latest, writing, history, faults>>

(* The result at the start of a run: train from scratch, or load.             *)
AfterStart(r) ==
    IF LatestComplete = NoIteration THEN "training" ELSE "loading"

GatherIds ==
    /\ arrived = Ranks
    /\ latest' = [r \in Ranks |-> LatestComplete]
    /\ pc' = [r \in Ranks |-> IF pc[r] = "starting" THEN AfterStart(r) ELSE "deciding"]
    /\ arrived' = {}
    /\ UNCHANGED <<setup, run, disk, iteration, listed, writing, history, faults>>

(* load: retrieve_plan prefers the own copy, else picks a holder of the       *)
(* clique; the sender reads the file when it executes the plan.               *)
Holders(r) == {s \in Stores(r) : [iteration |-> latest[r], rank |-> r] \in listed[s]}

Senders(r) == IF r \in Holders(r) THEN {r} ELSE Holders(r)

Load(r) ==
    /\ pc[r] = "loading"
    /\ IF Holders(r) = {}
       THEN \* NoReplicasAvailableError
            /\ pc' = [pc EXCEPT ![r] = "failed"]
            /\ UNCHANGED <<iteration, loaded>>
       ELSE /\ \E s \in Senders(r) : \E f \in files[s] :
                  /\ f.iteration = latest[r] /\ f.rank = r /\ ~f.dirty
                  /\ loaded' = [loaded EXCEPT ![r] = f.run]
            /\ iteration' = [iteration EXCEPT ![r] = latest[r] + 1]
            /\ pc' = [pc EXCEPT ![r] = "training"]
    /\ UNCHANGED <<setup, run, disk, finding, writing, saved, faults>>

-----------------------------------------------------------------------------
(* save: the ranks that exchange shards do it together; the rest is local.    *)

BeginSave(r) ==
    LET c == Stores(r) IN
    /\ \A m \in c :
          /\ pc[m] = "training"
          /\ iteration[m] \in Iterations
          /\ latest[m] < iteration[m]
    /\ latest' = [m \in Ranks |-> IF m \in c THEN NoIteration ELSE latest[m]]
    /\ todo' = [m \in Ranks |-> IF m \in c THEN c ELSE todo[m]]
    /\ pc' = [m \in Ranks |-> IF m \in c THEN "writing" ELSE pc[m]]
    /\ UNCHANGED <<setup, run, disk, iteration, listed, arrived, opened, history, faults>>

(* An exception of _save: it ends a synchronous save and the rank with it; in *)
(* the writer process of an asynchronous one it only ends the writer.         *)
Raise(r) ==
    /\ pc' = [pc EXCEPT ![r] = IF setup.async THEN "written" ELSE "failed"]
    /\ todo' = [todo EXCEPT ![r] = {}]
    /\ opened' = [opened EXCEPT ![r] = FALSE]

OpenDirty(r) ==
    LET f == DirtyFile(iteration[r], Min(todo[r])) IN
    /\ pc[r] = "writing" /\ ~opened[r]
    /\ IF f \in files[r]
       THEN Raise(r) /\ UNCHANGED files
       ELSE /\ files' = [files EXCEPT ![r] = @ \cup {f}]
            /\ opened' = [opened EXCEPT ![r] = TRUE]
            /\ UNCHANGED <<pc, todo>>
    /\ UNCHANGED <<setup, run, iteration, finding, cleaning, history, faults>>

Rename(r) ==
    LET i == iteration[r]
        o == Min(todo[r])
    IN
    /\ pc[r] = "writing" /\ opened[r]
    /\ files' = [files EXCEPT ![r] =
          {f \in @ : f.iteration # i \/ f.rank # o} \cup {FileOf(i, o, FALSE, run)}]
    /\ todo' = [todo EXCEPT ![r] = @ \ {o}]
    /\ opened' = [opened EXCEPT ![r] = FALSE]
    /\ pc' = [pc EXCEPT ![r] = IF todo'[r] = {} THEN "written" ELSE @]
    /\ UNCHANGED <<setup, run, iteration, finding, cleaning, history, faults>>

(* The disk is full, or the writer process is killed: the dirty file stays.   *)
WriteFails(r) ==
    /\ pc[r] = "writing" /\ opened[r] /\ faults < MaxFaults
    /\ faults' = faults + 1
    /\ Raise(r)
    /\ UNCHANGED <<setup, run, disk, iteration, finding, history>>

(* The barrier of a synchronous save; the queue's all_reduce over the writers *)
(* of an asynchronous one.                                                    *)
AllWritten ==
    /\ \A r \in Ranks : pc[r] = "written"
    /\ pc' = [r \in Ranks |-> "validating"]
    /\ listed' = [r \in Ranks |-> {}]
    /\ UNCHANGED <<setup, run, disk, iteration, latest, arrived, writing, history, faults>>

-----------------------------------------------------------------------------
(* finalize_fn *)

\* Mutant: the checkpoint just saved is removed with the outdated ones.
RemovesItself(task, f) ==
    IF task.kind = "outdated" THEN f.iteration <= task.iteration
                              ELSE f.iteration = task.iteration

Removes(task, f) ==
    IF task.kind = "outdated" THEN f.iteration < task.iteration
                              ELSE f.iteration = task.iteration

Remaining(r, task) == {f \in files[r] : ~Removes(task, f)}

(* A thread does it after an asynchronous save, the rank itself otherwise.    *)
StartCleanup(r, kind) ==
    LET task == [kind |-> kind, iteration |-> iteration[r]] IN
    IF setup.async
    THEN cleaning' = [cleaning EXCEPT ![r] = @ \cup {task}] /\ UNCHANGED files
    ELSE files' = [files EXCEPT ![r] = Remaining(r, task)] /\ UNCHANGED cleaning

\* Mutant: finalize_fn cleans up without looking at what it validated.
FinalizeUnchecked(r) ==
    /\ pc[r] = "deciding"
    /\ StartCleanup(r, "outdated")
    /\ saved' = Max({saved, iteration[r]})
    /\ iteration' = [iteration EXCEPT ![r] = @ + 1]
    /\ latest' = [latest EXCEPT ![r] = NoIteration]
    /\ pc' = [pc EXCEPT ![r] = "training"]
    /\ UNCHANGED <<setup, run, listed, arrived, writing, loaded, faults>>

Finalize(r) ==
    /\ pc[r] = "deciding"
    /\ latest' = [latest EXCEPT ![r] = NoIteration]
    /\ IF latest[r] < iteration[r]
       THEN /\ StartCleanup(r, "failed")
            /\ pc' = [pc EXCEPT ![r] = "failed"]
            /\ UNCHANGED <<iteration, saved>>
       ELSE /\ StartCleanup(r, "outdated")
            /\ saved' = Max({saved, iteration[r]})
            /\ iteration' = [iteration EXCEPT ![r] = @ + 1]
            /\ pc' = [pc EXCEPT ![r] = "training"]
    /\ UNCHANGED <<setup, run, listed, arrived, writing, loaded, faults>>

Clean(r) ==
    \E task \in cleaning[r] :
        /\ files' = [files EXCEPT ![r] = Remaining(r, task)]
        /\ cleaning' = [cleaning EXCEPT ![r] = @ \ {task}]
        /\ UNCHANGED <<setup, run, pc, iteration, finding, writing, history, faults>>

-----------------------------------------------------------------------------
(* A rank that raised, or was killed, takes the job down; the job starts      *)
(* again with the directories it finds.                                       *)

(* A directory that holds every shard of its clique for the last good save.   *)
Intact(r) ==
    \A o \in Stores(r) : [iteration |-> saved, rank |-> o] \in MyCkptIds(r)

(* What replication is for: every clique keeps one such directory.            *)
Tolerated(lost) ==
    saved # NoIteration =>
        \A r \in Ranks : (\E m \in Stores(r) : Intact(m)) =>
                         \E m \in Stores(r) \ lost : Intact(m)

Tags == {f.run : f \in UNION {files[r] : r \in Ranks}}

Restart(lost, cost) ==
    /\ faults + cost <= MaxFaults
    /\ faults' = faults + cost
    /\ files' = [r \in Ranks |-> IF r \in lost THEN {} ELSE files[r]]
    /\ run' = Min(1 .. Max(Runs) \ Tags)
    /\ pc' = [r \in Ranks |-> "starting"]
    /\ iteration' = [r \in Ranks |-> 1]
    /\ latest' = [r \in Ranks |-> NoIteration]
    /\ listed' = [r \in Ranks |-> {}]
    /\ arrived' = {}
    /\ todo' = [r \in Ranks |-> {}]
    /\ opened' = [r \in Ranks |-> FALSE]
    /\ cleaning' = [r \in Ranks |-> {}]
    /\ loaded' = [r \in Ranks |-> 0]
    /\ UNCHANGED <<setup, saved>>

RestartAfterFailure ==
    /\ \E r \in Ranks : pc[r] = "failed"
    /\ Restart({}, 0)

Killed(lost) ==
    /\ \A r \in Ranks : pc[r] # "failed"
    /\ Tolerated(lost)
    /\ Restart(lost, Max({1, Cardinality(lost)}))

RankStep(r) ==
    \/ ListIds(r) \/ Load(r) \/ BeginSave(r) \/ OpenDirty(r) \/ Rename(r)
    \/ Finalize(r) \/ Clean(r)

Next ==
    \/ \E r \in Ranks : RankStep(r) \/ WriteFails(r)
    \/ GatherIds \/ AllWritten
    \/ RestartAfterFailure
    \/ \E lost \in SUBSET Ranks : Killed(lost)

Spec == Init /\ [][Next]_vars

(* A job that is alive goes on, a failed one is started again.                *)
FairSpec ==
    /\ Spec
    /\ \A r \in Ranks : WF_vars(RankStep(r))
    /\ WF_vars(GatherIds) /\ WF_vars(AllWritten) /\ WF_vars(RestartAfterFailure)
=============================================================================
