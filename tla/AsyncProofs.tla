----------------------------- MODULE AsyncProofs -----------------------------
(* What the worker still owes the trainer, what it reads the tensors through, *)
(* and what the coordinator publishes, for any number of trainers,            *)
(* operations, saves and faults.                                              *)
EXTENDS AsyncCheckpointProperties, SequenceTheorems, TLAPS

(* Where each trainer is in the script, and in which operation.               *)
InScript(r) ==
    /\ at[r] <= Len(script) + 1
    /\ pc[r] \notin {"train", "aborted"} => at[r] <= Len(script)
    /\ pc[r] \in {"prepare", "schedule", "staging"} => Op(r).kind = "save"
    /\ pc[r] \in {"schedule", "staging"} => r \in setup.holders
    /\ pc[r] = "gather" => vote[r].id # None
    /\ worker[r].state = "write" => worker[r].id # None

(* Of the calls of rank r the first d are settled: they are of an earlier     *)
(* life, or it is the one being finalized.  The requests of the others, and   *)
(* of the save in staging, are with the trainer (cur_item), in comp_q, with   *)
(* the worker, and in its queue, in this order.                               *)
Staging(r) == IF pc[r] = "staging" THEN 1 ELSE 0
Held(r) == IF cur_item[r] = None THEN 0 ELSE 1
Busy(r) == IF worker[r].state = "write" THEN 1 ELSE 0
Due(r, k) == IF k <= Len(calls[r]) THEN calls[r][k].id ELSE Op(r).id

Settled(r, d) ==
    /\ \A i \in 1 .. d : calls[r][i].live => i = 1 /\ pc[r] = "finalize"
    /\ \A i \in d + 1 .. Len(calls[r]) : calls[r][i].live
    /\ pc[r] = "finalize" => d >= 1

HeldIsFirst(r, d) ==
    cur_item[r] # None => d = 0 /\ calls[r] # << >> /\ cur_item[r] = calls[r][1].id

CompletedInOrder(r, n) ==
    \A k \in 1 .. Len(comp_q[r]) :
        /\ n + k <= Len(calls[r]) + Staging(r)
        /\ comp_q[r][k] = Due(r, n + k)

WrittenNext(r, n) ==
    worker[r].state = "write" => worker[r].id = Due(r, n + Len(comp_q[r]) + 1)

AllCounted(r, n) ==
    worker[r].state \in {"idle", "write"} =>
        n + Len(comp_q[r]) + Busy(r) + Len(queue[r]) = Len(calls[r]) + Staging(r)

Accounts(r, d) ==
    /\ Settled(r, d) /\ HeldIsFirst(r, d)
    /\ \E n \in Nat : /\ n = d + Held(r)
                      /\ CompletedInOrder(r, n) /\ WrittenNext(r, n) /\ AllCounted(r, n)

(* The request in the queue is that of the save in staging.                   *)
QueueIsStaged(r) ==
    queue[r] # << >> => /\ pc[r] = "staging"
                        /\ Len(queue[r]) = 1
                        /\ queue[r][1].id = Op(r).id

(* Without a worker nothing is on its way, and no call waits for it.          *)
NothingDue(r) ==
    /\ pc[r] # "staging" /\ cur_item[r] = None /\ comp_q[r] = << >> /\ queue[r] = << >>
    /\ r \in setup.holders \/ pc[r] = "aborted" => \A i \in DOMAIN calls[r] : ~calls[r][i].live

WithoutWorker(r) ==
    /\ worker[r].state = "none" => NothingDue(r)
    /\ r \notin setup.holders \/ pc[r] = "aborted" => worker[r].state = "none"
    /\ (\E i \in DOMAIN calls[r] : calls[r][i].live) => HasCaller(r)

(* A rank that votes for its call has the completion in its hand.             *)
VoteIsCovered(r) ==
    /\ pc[r] \in {"reduce", "finalize"} => calls[r] # << >>
    /\ pc[r] = "reduce" /\ vote[r].ok /\ First(r).live /\ worker[r].state # "none"
         => cur_item[r] # None

Accounted(r) ==
    /\ InScript(r)
    /\ \E d \in 0 .. Len(calls[r]) : Accounts(r, d)
    /\ QueueIsStaged(r)
    /\ WithoutWorker(r)
    /\ VoteIsCovered(r)

AccountInv == \A r \in Ranks : Accounted(r)

(* The handle through which the worker reads.                                 *)
HandlesAgree(r) ==
    /\ writer[r].sent => IF setup.shm THEN writer[r].alloc ELSE writer[r].ptr = home[r]
    /\ pc[r] = "schedule" =>
          /\ data[r] \in {None, home[r]}
          /\ data[r] = None => worker[r].cache \in {None, home[r]}
          /\ setup.shm => buffer[r][home[r]] = Op(r).id
    /\ queue[r] # << >> =>
          /\ queue[r][1].data \in {None, home[r]}
          /\ queue[r][1].data = None => worker[r].cache \in {None, home[r]}
          /\ setup.shm => buffer[r][home[r]] = Op(r).id
    /\ pc[r] # "schedule" /\ queue[r] = << >> /\ writer[r].sent =>
          worker[r].cache \in {None, home[r]}
    /\ worker[r].state = "none" => worker[r].cache = None
    /\ worker[r].state = "write" =>
          IF setup.shm
          THEN drain[r] => /\ buffer[r][worker[r].cache] = worker[r].id
                           /\ ~writer[r].alloc => worker[r].cache = home[r]
          ELSE worker[r].good

HandleInv == \A r \in Ranks : HandlesAgree(r)

-----------------------------------------------------------------------------
(* Types.                                                                     *)

\* What the trainers do is a save, which has an id, or one of the polls.
LEMMA OperationTypes ==
    /\ \A s \in Saves : Save(s) \in Operations
    /\ \A k \in {"poll", "wait", "close"} : Operation(k) \in Operations
    /\ \A op \in Operations : /\ op.kind \in {"save", "poll", "wait", "close"}
                              /\ op.id \in {None} \cup Saves
                              /\ op.kind = "save" <=> op.id # None
                              /\ op.kind = "save" => op = Save(op.id)
BY DEF Operations, Save, Operation, None, Saves

Writers == [sent : BOOLEAN, ptr : {None} \cup Homes, alloc : BOOLEAN]
WorkerStates == [state : {"none", "idle", "write", "missed", "dead"}, cache : {None} \cup Homes,
                 id : {None} \cup Saves, good : BOOLEAN]
Votes == [id : {None} \cup Saves, ok : BOOLEAN]

\* TypeOK, variable by variable, as the steps below need it.
LEMMA RankTypes ==
    ASSUME TypeOK
    PROVE  /\ at \in [Ranks -> Nat \ {0}] /\ pc \in [Ranks -> Labels]
           /\ calls \in [Ranks -> Seq(Calls)] /\ cur_item \in [Ranks -> {None} \cup Saves]
           /\ vote \in [Ranks -> Votes] /\ home \in [Ranks -> Homes]
           /\ writer \in [Ranks -> Writers] /\ worker \in [Ranks -> WorkerStates]
           /\ queue \in [Ranks -> Seq(Items)] /\ comp_q \in [Ranks -> Seq(Saves)]
           /\ results \in [Ranks -> Seq(Results)] /\ finalized \in [Ranks -> SUBSET Saves]
           /\ setup.shm \in BOOLEAN /\ setup.holders \subseteq Ranks
<1>1. setup.shm \in BOOLEAN /\ setup.holders \subseteq Ranks
  BY SetupsAssumption DEF TypeOK
<1> QED BY <1>1 DEF TypeOK, Writers, WorkerStates, Votes

(* A variable of the ranks after one of them changes.                         *)
LEMMA Updated ==
    ASSUME NEW S, NEW f \in [Ranks -> S], NEW r \in Ranks, NEW v \in S
    PROVE  [f EXCEPT ![r] = v] \in [Ranks -> S]
OBVIOUS

\* The places a trainer can be at.
LEMMA LabelsAreKnown ==
    \A l \in {"train", "prepare", "schedule", "staging", "poll", "reduce", "finalize",
              "gather", "aborted"} : l \in Labels
BY DEF Labels

\* A trainer that is within its script is in an operation.
LEMMA OpType ==
    ASSUME TypeOK, NEW r \in Ranks, at[r] <= Len(script)
    PROVE  Op(r) \in Operations
BY DEF TypeOK, Op

(* A call or a request joins a queue, or the first one leaves it.             *)
LEMMA QueueTypes ==
    ASSUME NEW S, NEW q \in Seq(S)
    PROVE  /\ \A x \in S : Append(q, x) \in Seq(S)
           /\ q # << >> => Tail(q) \in Seq(S) /\ Head(q) \in S /\ q[1] = Head(q)
OBVIOUS

\* A queue of one request is empty without it.
LEMMA OnlyElement ==
    ASSUME NEW S, NEW q \in Seq(S), Len(q) = 1
    PROVE  Head(q) = q[1] /\ Tail(q) = << >>
<1>1. Tail(q) \in Seq(S) /\ Len(Tail(q)) = 0 /\ Head(q) = q[1]
  OBVIOUS
<1> QED BY <1>1, EmptySeq

\* Types, action by action: the training loop undertakes an operation.
LEMMA BeginKeepsTypes ==
    ASSUME TypeOK, NEW r \in Ranks, BeginSave(r) \/ BeginPoll(r)
    PROVE  TypeOK'
<1>1. PICK op \in Operations : Undertake(r, op)
  BY OperationTypes DEF BeginSave, BeginPoll
<1>2. script' \in Seq(Operations) /\ ops' \in Nat /\ saves' \in Nat
  <2>1. script \in Seq(Operations) /\ ops \in Nat /\ saves \in Nat
    BY DEF TypeOK
  <2>2. script' = script \/ script' = Append(script, op)
    BY <1>1 DEF Undertake
  <2>3. script' \in Seq(Operations)
    BY <2>1, <2>2
  <2> QED BY <1>1, <2>1, <2>3 DEF Undertake
<1>3. pc' \in [Ranks -> Labels]
  BY DEF BeginSave, BeginPoll, Goto, TypeOK, Labels
<1> QED
  BY <1>2, <1>3 DEF BeginSave, BeginPoll, TypeOK, calling, staging, writing, outcome, faults

\* prepare_write_data, schedule_async_call and the return from staging.
LEMMA SaveKeepsTypes ==
    ASSUME TypeOK, NEW r \in Ranks, at[r] <= Len(script),
           \/ PrepareWriteData(r)
           \/ Op(r).kind = "save" /\ (ScheduleNothing(r) \/ ReturnFromStaging(r))
           \/ Op(r).kind = "save" /\ ScheduleAsyncCall(r)
    PROVE  TypeOK'
<1> DEFINE op == Op(r)
<1>0. Op(r) \in Operations
  BY OpType
<1>1. CASE PrepareWriteData(r)
  <2>1. PICK h \in Homes : Prepare(r)!(h)
    BY <1>1 DEF PrepareWriteData, Prepare
  <2>2. home' \in [Ranks -> Homes]
    BY <2>1 DEF TypeOK
  <2>3. data' \in [Ranks -> {None} \cup Homes]
    BY <2>1 DEF TypeOK
  <2>4. writer' \in [Ranks -> [sent : BOOLEAN, ptr : {None} \cup Homes, alloc : BOOLEAN]]
    <3>1. setup.shm \in BOOLEAN
      BY SetupsAssumption DEF TypeOK
    <3> QED BY <2>1, <3>1 DEF TypeOK
  <2>5. buffer' \in [Ranks -> [Homes -> {None} \cup Saves]]
    <3>1. Op(r).id \in {None} \cup Saves
      BY <1>0, OperationTypes
    <3> QED BY <2>1, <3>1 DEF TypeOK
  <2>6. pc' \in [Ranks -> Labels]
    BY <1>1 DEF PrepareWriteData, Goto, TypeOK, Labels
  <2> QED
    BY <1>1, <2>2, <2>3, <2>4, <2>5, <2>6
    DEF PrepareWriteData, TypeOK, plan, calling, writing, outcome, faults
<1>2. CASE Op(r).kind = "save" /\ (ScheduleNothing(r) \/ ReturnFromStaging(r))
  <2>1. [id |-> Op(r).id, live |-> TRUE] \in Calls
    BY <1>0, <1>2, OperationTypes DEF Calls
  <2>2. calls' \in [Ranks -> Seq(Calls)]
    <3>1. calls' = [calls EXCEPT ![r] = Append(calls[r], [id |-> Op(r).id, live |-> TRUE])]
      BY <1>2 DEF ScheduleNothing, ReturnFromStaging, Enlist
    <3>2. Append(calls[r], [id |-> Op(r).id, live |-> TRUE]) \in Seq(Calls)
      BY <2>1, RankTypes
    <3> QED BY <3>1, <3>2, RankTypes, Updated
  <2>3. pc' \in [Ranks -> Labels] /\ at' \in [Ranks -> Nat \ {0}]
    <3>1. pc' = [pc EXCEPT ![r] = "train"] /\ at' = [at EXCEPT ![r] = at[r] + 1]
      BY <1>2 DEF ScheduleNothing, ReturnFromStaging, Done, Goto
    <3>2. at[r] + 1 \in Nat \ {0}
      BY RankTypes
    <3> QED BY <3>1, <3>2, RankTypes, Updated, LabelsAreKnown
  <2> QED
    BY <1>2, <2>2, <2>3
    DEF ScheduleNothing, ReturnFromStaging, TypeOK, plan, staging, writing, outcome, faults
<1>3. CASE Op(r).kind = "save" /\ ScheduleAsyncCall(r)
  <2>1. [id |-> Op(r).id, data |-> data[r]] \in Items
    BY <1>0, <1>3, OperationTypes DEF Items, TypeOK
  <2>2. queue' \in [Ranks -> Seq(Items)]
    <3>1. queue' = [queue EXCEPT ![r] = Append(queue[r], [id |-> Op(r).id, data |-> data[r]])]
      BY <1>3 DEF ScheduleAsyncCall
    <3>2. Append(queue[r], [id |-> Op(r).id, data |-> data[r]]) \in Seq(Items)
      BY <2>1, RankTypes
    <3> QED BY <3>1, <3>2, RankTypes, Updated
  <2>3. Spawned \in WorkerStates /\ NoCache \in Writers
    BY DEF Spawned, NoCache, WorkerStates, Writers
  <2>4. worker' \in [Ranks -> WorkerStates] /\ writer' \in [Ranks -> Writers]
    <3>1. \/ worker' = [worker EXCEPT ![r] = Spawned] /\ writer' = [writer EXCEPT ![r] = NoCache]
          \/ UNCHANGED <<worker, writer>>
      BY <1>3 DEF ScheduleAsyncCall
    <3>2. worker \in [Ranks -> WorkerStates] /\ writer \in [Ranks -> Writers]
      BY RankTypes
    <3>3. /\ [worker EXCEPT ![r] = Spawned] \in [Ranks -> WorkerStates]
          /\ [writer EXCEPT ![r] = NoCache] \in [Ranks -> Writers]
      BY <2>3, <3>2, Updated
    <3> QED BY <3>1, <3>2, <3>3
  <2>5. pc' \in [Ranks -> Labels]
    BY <1>3 DEF ScheduleAsyncCall, Goto, TypeOK, Labels
  <2> QED
    BY <1>3, <2>2, <2>4, <2>5
    DEF ScheduleAsyncCall, TypeOK, Writers, WorkerStates, plan, calling, outcome, faults
<1> QED BY <1>1, <1>2, <1>3

\* The worker stages and writes a request, or is killed.
LEMMA WorkerKeepsTypes ==
    ASSUME TypeOK, NEW r \in Ranks, InScript(r), Worker(r) \/ WorkerDies(r)
    PROVE  TypeOK'
<1>1. CASE WorkerStage(r)
  <2> DEFINE item == Head(queue[r])
             held == IF item.data # None THEN item.data ELSE worker[r].cache
             good == held = home[r] /\ pc[r] = "staging" /\ Op(r) = Save(item.id)
             next == [state |-> IF held = None THEN "missed" ELSE "write",
                      cache |-> held, id |-> item.id, good |-> good]
  <2>1. item \in Items /\ Tail(queue[r]) \in Seq(Items)
    BY <1>1, RankTypes DEF WorkerStage
  <2>2. item.id \in Saves /\ held \in {None} \cup Homes
    BY <2>1, RankTypes DEF Items, WorkerStates
  <2>3. worker' = [worker EXCEPT ![r] = next] /\ queue' = [queue EXCEPT ![r] = Tail(queue[r])]
    BY <1>1 DEF WorkerStage
  <2>4. next \in WorkerStates
    <3>1. good \in BOOLEAN
      OBVIOUS
    <3> HIDE DEF good, held, item
    <3> QED BY <2>2, <3>1 DEF WorkerStates
  <2> HIDE DEF next
  <2>5. worker' \in [Ranks -> WorkerStates] /\ queue' \in [Ranks -> Seq(Items)]
    BY <2>1, <2>3, <2>4, RankTypes, Updated
  <2> QED
    BY <1>1, <2>5 DEF WorkerStage, TypeOK, WorkerStates, plan, calling, staging, outcome, faults
<1>2. CASE WorkerWrite(r)
  <2>1. PICK ok \in BOOLEAN :
          /\ failures' = failures + (IF ok THEN 0 ELSE 1)
          /\ results' = [results EXCEPT ![r] = Append(results[r], [id |-> worker[r].id, ok |-> ok])]
          /\ files' = [files EXCEPT ![r][worker[r].id] =
               IF ~ok THEN "partial" ELSE IF IsGood(r) THEN "good" ELSE "torn"]
    BY <1>2 DEF WorkerWrite
  <2>2. worker[r].id \in Saves
    BY <1>2, RankTypes DEF InScript, WorkerWrite, WorkerStates
  <2>3. results' \in [Ranks -> Seq(Results)]
    <3>1. [id |-> worker[r].id, ok |-> ok] \in Results
      BY <2>2 DEF Results
    <3>2. Append(results[r], [id |-> worker[r].id, ok |-> ok]) \in Seq(Results)
      BY <3>1, RankTypes, QueueTypes
    <3> QED BY <2>1, <3>2, RankTypes, Updated
  <2>4. files' \in [Ranks -> [Saves -> {"none", "good", "torn", "partial"}]]
    BY <2>1, <2>2 DEF TypeOK
  <2>5. comp_q' \in [Ranks -> Seq(Saves)]
    <3>1. comp_q' = [comp_q EXCEPT ![r] = Append(comp_q[r], worker[r].id)]
      BY <1>2 DEF WorkerWrite
    <3>2. Append(comp_q[r], worker[r].id) \in Seq(Saves)
      BY <2>2, RankTypes, QueueTypes
    <3> QED BY <3>1, <3>2, RankTypes, Updated
  <2>6. worker' \in [Ranks -> WorkerStates]
    <3>1. worker' = [worker EXCEPT ![r].state = "idle"]
      BY <1>2 DEF WorkerWrite
    <3> QED BY <3>1, RankTypes DEF WorkerStates
  <2>7. failures' \in Nat
    BY <2>1 DEF TypeOK
  <2> QED
    BY <1>2, <2>3, <2>4, <2>5, <2>6, <2>7
    DEF WorkerWrite, TypeOK, WorkerStates, plan, calling, staging, outcome
<1>3. CASE WorkerDies(r)
  <2>1. worker' = [worker EXCEPT ![r].state = "dead"]
    BY <1>3 DEF WorkerDies
  <2>2. worker' \in [Ranks -> WorkerStates]
    BY <2>1, RankTypes DEF WorkerStates
  <2> QED BY <1>3, <2>2 DEF WorkerDies, TypeOK, WorkerStates, plan, calling, staging, outcome
<1> QED BY <1>1, <1>2, <1>3 DEF Worker

\* A poll takes a completion or returns, and close.
LEMMA PollKeepsTypes ==
    ASSUME TypeOK, NEW r \in Ranks, Poll(r) \/ ReturnFromPoll(r) \/ Close(r)
    PROVE  TypeOK'
<1>1. CASE Poll(r)
  <2> DEFINE waits == First(r).live /\ worker[r].state # "none"
                        /\ cur_item[r] = None /\ comp_q[r] = << >>
             takes == First(r).live /\ worker[r].state # "none"
                        /\ cur_item[r] = None /\ comp_q[r] # << >>
             item  == IF takes THEN Head(comp_q[r]) ELSE cur_item[r]
             left  == IF takes THEN Tail(comp_q[r]) ELSE comp_q[r]
  <2>1. left \in Seq(Saves) /\ item \in {None} \cup Saves
    BY RankTypes, QueueTypes
  <2>2. comp_q' \in [Ranks -> Seq(Saves)]
    <3>1. comp_q' = [comp_q EXCEPT ![r] = left]
      BY <1>1 DEF Poll
    <3> QED BY <2>1, <3>1, RankTypes, Updated
  <2>3. cur_item' \in [Ranks -> {None} \cup Saves]
    <3>1. \/ cur_item' = [cur_item EXCEPT ![r] = None]
          \/ cur_item' = [cur_item EXCEPT ![r] = item]
      BY <1>1 DEF Poll
    <3> HIDE DEF item
    <3> QED BY <2>1, <3>1, RankTypes, Updated
  <2>4. vote' \in [Ranks -> Votes]
    <3> DEFINE v == [id |-> None, ok |-> ~waits]
    <3>1. UNCHANGED vote \/ vote' = [vote EXCEPT ![r] = v]
      BY <1>1 DEF Poll
    <3>2. v \in Votes
      BY DEF Votes
    <3>3. vote \in [Ranks -> Votes]
      BY RankTypes
    <3> HIDE DEF v
    <3> QED BY <3>1, <3>2, <3>3, Updated
  <2>5. pc' \in [Ranks -> Labels]
    <3>1. PICK l \in {"finalize", "reduce"} : pc' = [pc EXCEPT ![r] = l]
      BY <1>1 DEF Poll, Goto
    <3>2. pc \in [Ranks -> Labels] /\ l \in Labels
      BY RankTypes, LabelsAreKnown
    <3> QED BY <3>1, <3>2, Updated
  <2>6. UNCHANGED <<plan, at, calls, staging, worker, queue, results, files, outcome, faults>>
    BY <1>1 DEF Poll
  <2> QED
    BY <2>2, <2>3, <2>4, <2>5, <2>6 DEF TypeOK, Votes, plan, staging, outcome, faults
<1>2. CASE ReturnFromPoll(r)
  <2>1. pc' = [pc EXCEPT ![r] = "train"] /\ at' = [at EXCEPT ![r] = at[r] + 1]
    BY <1>2 DEF ReturnFromPoll, Done, Goto
  <2>2. pc' \in [Ranks -> Labels] /\ at' \in [Ranks -> Nat \ {0}]
    BY <2>1, RankTypes, Updated, LabelsAreKnown
  <2> QED
    BY <1>2, <2>2 DEF ReturnFromPoll, TypeOK, plan, calling, staging, writing, outcome, faults
<1>3. CASE Close(r)
  <2>1. pc' = [pc EXCEPT ![r] = "train"] /\ at' = [at EXCEPT ![r] = at[r] + 1]
    BY <1>3 DEF Close, Done, Goto
  <2>2. pc' \in [Ranks -> Labels] /\ at' \in [Ranks -> Nat \ {0}]
    BY <2>1, RankTypes, Updated, LabelsAreKnown
  <2>3. worker' \in [Ranks -> WorkerStates]
    <3>1. NoWorker \in WorkerStates
      BY DEF NoWorker, Spawned, WorkerStates
    <3> QED BY <1>3, <3>1, RankTypes, Updated DEF Close
  <2>4. comp_q' \in [Ranks -> Seq(Saves)] /\ cur_item' \in [Ranks -> {None} \cup Saves]
    <3>1. << >> \in Seq(Saves)
      OBVIOUS
    <3> QED BY <1>3, <3>1, RankTypes, Updated DEF Close
  <2>5. drain' \in [Ranks -> BOOLEAN]
    BY <1>3, Updated DEF Close, TypeOK
  <2> QED
    BY <1>3, <2>2, <2>3, <2>4, <2>5 DEF Close, TypeOK, WorkerStates, plan, outcome, faults
<1> QED BY <1>1, <1>2, <1>3

\* The collectives; what they publish and raise are saves.
LEMMA CollectivesKeepTypes ==
    ASSUME TypeOK, \A r \in Ranks : InScript(r), AllReduce \/ Gather
    PROVE  TypeOK'
<1>1. CASE AllReduce
  <2>1. /\ vote' = [r \in Ranks |-> Nothing]
        /\ cur_item' = cur_item \/ cur_item' = Dropped
        /\ pc' = [r \in Ranks |-> IF AllDone THEN "finalize" ELSE "train"]
        /\ at' = [r \in Ranks |-> IF AllDone THEN at[r] ELSE at[r] + 1]
        /\ UNCHANGED <<plan, calls, staging, writing, outcome, faults>>
    BY <1>1 DEF AllReduce, Reduce
  <2>2. vote' \in [Ranks -> Votes]
    BY <2>1 DEF Nothing, Votes
  <2>3. cur_item' \in [Ranks -> {None} \cup Saves]
    BY <2>1, RankTypes DEF Dropped
  <2>4. pc' \in [Ranks -> Labels]
    BY <2>1, LabelsAreKnown
  <2>5. at' \in [Ranks -> Nat \ {0}]
    BY <2>1, RankTypes
  <2> QED
    BY <2>1, <2>2, <2>3, <2>4, <2>5 DEF TypeOK, Votes, plan, staging, writing, outcome, faults
<1>2. CASE Gather
  <2> DEFINE ok == \A r \in Ranks : vote[r].ok
             next(r) == IF Op(r).kind = "save" THEN IF ok THEN "prepare" ELSE "train"
                        ELSE IF ok \/ Op(r).kind = "close" THEN "poll" ELSE "train"
  <2>1. /\ vote' = [r \in Ranks |-> Nothing]
        /\ pc' = [r \in Ranks |-> next(r)]
        /\ at' = [r \in Ranks |-> IF next(r) = "train" THEN at[r] + 1 ELSE at[r]]
        /\ published' = published \union (IF ok THEN {vote[Coordinator].id} ELSE {})
        /\ raised' = raised \union (IF ok THEN {} ELSE
             (UNION {{vote[r].id, Op(r).id} : r \in Ranks}) \ {None})
        /\ UNCHANGED <<plan, calls, cur_item, staging, writing, finalized, faults>>
    BY <1>2 DEF Gather
  <2>2. ASSUME NEW r \in Ranks
        PROVE  /\ vote[r].id \in Saves
               /\ Op(r).id \in {None} \cup Saves
    <3>1. pc[r] = "gather"
      BY <1>2 DEF Gather
    <3>2. at[r] <= Len(script) /\ vote[r].id # None
      BY <3>1 DEF InScript
    <3> QED BY <3>2, RankTypes, OpType, OperationTypes DEF Votes
  <2>3. published' \subseteq Saves
    BY <2>1, <2>2, CoordinatorAssumption DEF TypeOK
  <2>4. raised' \subseteq Saves
    <3>1. (UNION {{vote[r].id, Op(r).id} : r \in Ranks}) \ {None} \subseteq Saves
      BY <2>2
    <3> QED BY <2>1, <3>1 DEF TypeOK
  <2>5. vote' \in [Ranks -> Votes]
    BY <2>1 DEF Nothing, Votes
  <2>6. pc' \in [Ranks -> Labels]
    BY <2>1, LabelsAreKnown
  <2>7. at' \in [Ranks -> Nat \ {0}]
    <3>1. \A r \in Ranks : at[r] \in Nat \ {0} /\ at[r] + 1 \in Nat \ {0}
      BY RankTypes
    <3> HIDE DEF next
    <3> QED BY <2>1, <3>1
  <2> QED
    BY <2>1, <2>3, <2>4, <2>5, <2>6, <2>7 DEF TypeOK, Votes, plan, staging, writing, faults
<1> QED BY <1>1, <1>2

\* Finalize: there is a call to take off the queue.
LEMMA FinalizeKeepsTypes ==
    ASSUME TypeOK, NEW r \in Ranks, VoteIsCovered(r), Finalize(r)
    PROVE  TypeOK'
<1>1. calls[r] # << >> /\ First(r) \in Calls /\ Tail(calls[r]) \in Seq(Calls)
  BY RankTypes, QueueTypes DEF VoteIsCovered, Finalize, First
<1>2. calls' \in [Ranks -> Seq(Calls)]
  <2>1. calls' = [calls EXCEPT ![r] = Tail(calls[r])]
    BY DEF Finalize
  <2> QED BY <1>1, <2>1, RankTypes, Updated
<1>3. results' \in [Ranks -> Seq(Results)]
  <2>1. \/ results' = [results EXCEPT ![r] = results[r]]
        \/ results[r] # << >> /\ results' = [results EXCEPT ![r] = Tail(results[r])]
    BY DEF Finalize
  <2>2. results[r] # << >> => Tail(results[r]) \in Seq(Results)
    BY RankTypes, QueueTypes
  <2>3. results[r] \in Seq(Results)
    BY RankTypes
  <2> QED BY <2>1, <2>2, <2>3, RankTypes, Updated
<1>4. writer' \in [Ranks -> Writers]
  <2>1. \/ writer' = [writer EXCEPT ![r] = writer[r]]
        \/ writer' = [writer EXCEPT ![r] = [writer[r] EXCEPT !.sent = FALSE, !.ptr = None]]
    BY DEF Finalize
  <2>2. writer \in [Ranks -> Writers] /\ writer[r] \in Writers
    BY RankTypes
  <2>3. [writer[r] EXCEPT !.sent = FALSE, !.ptr = None] \in Writers
    BY <2>2 DEF Writers
  <2> QED BY <2>1, <2>2, <2>3, Updated
<1>5. vote' \in [Ranks -> Votes]
  <2> DEFINE retrieved == Retrieved(r)
  <2>1. vote' = [vote EXCEPT ![r] = [id |-> First(r).id, ok |-> retrieved]]
    BY DEF Finalize
  <2>2. [id |-> First(r).id, ok |-> retrieved] \in Votes
    <3>1. retrieved \in BOOLEAN
      BY DEF Retrieved
    <3>2. First(r).id \in Saves
      BY <1>1 DEF Calls
    <3> HIDE DEF retrieved
    <3> QED BY <3>1, <3>2 DEF Votes
  <2> HIDE DEF retrieved
  <2> QED BY <2>1, <2>2, RankTypes, Updated
<1>6. finalized' \in [Ranks -> SUBSET Saves]
  <2>1. finalized' = [finalized EXCEPT ![r] = finalized[r] \union {First(r).id}]
    BY DEF Finalize
  <2>2. finalized[r] \union {First(r).id} \in SUBSET Saves
    BY <1>1, RankTypes DEF Calls
  <2> QED BY <2>1, <2>2, RankTypes, Updated
<1>7. pc' \in [Ranks -> Labels]
  BY RankTypes, Updated, LabelsAreKnown DEF Finalize, Goto
<1> QED
  BY <1>2, <1>3, <1>4, <1>5, <1>6, <1>7
  DEF Finalize, TypeOK, Writers, Votes, plan, faults

\* abort_nvrx_checkpoint and the new start.
LEMMA RestartKeepsTypes ==
    ASSUME TypeOK, Restart
    PROVE  TypeOK'
<1>1. CASE BeginRestart
  BY <1>1 DEF BeginRestart, TypeOK, plan, calling, staging, writing, outcome
<1>2. ASSUME NEW r \in Ranks, Abort(r) PROVE TypeOK'
  <2>1. worker' \in [Ranks -> WorkerStates]
    <3>1. NoWorker \in WorkerStates
      BY DEF NoWorker, Spawned, WorkerStates
    <3> QED BY <1>2, <3>1, RankTypes, Updated DEF Abort
  <2>2. /\ comp_q' \in [Ranks -> Seq(Saves)] /\ queue' \in [Ranks -> Seq(Items)]
        /\ cur_item' \in [Ranks -> {None} \cup Saves]
    <3>1. << >> \in Seq(Saves) /\ << >> \in Seq(Items)
      OBVIOUS
    <3> QED BY <1>2, <3>1, RankTypes, Updated DEF Abort
  <2>3. calls' \in [Ranks -> Seq(Calls)]
    <3> DEFINE cancelled == [i \in DOMAIN calls[r] |-> [calls[r][i] EXCEPT !.live = FALSE]]
    <3>1. cancelled \in Seq(Calls)
      <4>1. calls[r] \in Seq(Calls)
        BY RankTypes
      <4>2. DOMAIN calls[r] = 1 .. Len(calls[r]) /\ Len(calls[r]) \in Nat
        BY <4>1
      <4>3. ASSUME NEW i \in DOMAIN calls[r]
            PROVE  [calls[r][i] EXCEPT !.live = FALSE] \in Calls
        <5>1. calls[r][i] \in Calls
          BY <4>1, <4>3
        <5> QED BY <5>1 DEF Calls
      <4>4. cancelled \in [1 .. Len(calls[r]) -> Calls]
        BY <4>2, <4>3
      <4> HIDE DEF cancelled
      <4> QED BY <4>2, <4>4
    <3>2. calls' = [calls EXCEPT ![r] = cancelled]
      BY <1>2 DEF Abort
    <3> HIDE DEF cancelled
    <3> QED BY <3>1, <3>2, RankTypes, Updated
  <2>4. drain' \in [Ranks -> BOOLEAN] /\ pc' \in [Ranks -> Labels]
    BY <1>2, RankTypes, Updated, LabelsAreKnown DEF Abort, Goto, TypeOK
  <2> QED
    BY <1>2, <2>1, <2>2, <2>3, <2>4
    DEF Abort, TypeOK, WorkerStates, plan, outcome, faults
<1>3. CASE EndRestart
  <2>1. calls' \in [Ranks -> Seq(Calls)] /\ drain' \in [Ranks -> BOOLEAN]
    <3>1. PICK another \in BOOLEAN :
            /\ calls' = IF another THEN [r \in Ranks |-> << >>] ELSE calls
            /\ drain' = [r \in Ranks |-> another /\ setup.shm]
      BY <1>3 DEF EndRestart
    <3>2. calls' \in [Ranks -> Seq(Calls)]
      BY <3>1, RankTypes
    <3>3. drain' \in [Ranks -> BOOLEAN]
      BY <3>1
    <3> QED BY <3>2, <3>3
  <2>2. vote' \in [Ranks -> Votes] /\ finalized' \in [Ranks -> SUBSET Saves]
    BY <1>3 DEF EndRestart, Nothing, Votes
  <2>3. at' \in [Ranks -> Nat \ {0}] /\ script' \in Seq(Operations)
    BY <1>3 DEF EndRestart
  <2>4. pc' \in [Ranks -> Labels]
    BY <1>3, LabelsAreKnown DEF EndRestart
  <2>5. restarting' \in BOOLEAN /\ leftover' \in BOOLEAN
    BY <1>3 DEF EndRestart, TypeOK
  <2> QED
    BY <1>3, <2>1, <2>2, <2>3, <2>4, <2>5 DEF EndRestart, TypeOK, Votes, writing
<1> QED BY <1>1, <1>2, <1>3 DEF Restart

\* Types hold at the start.
LEMMA TypesInit == Init => TypeOK
<1> SUFFICES ASSUME Init PROVE TypeOK
  OBVIOUS
<1>1. NoCache \in Writers /\ NoWorker \in WorkerStates /\ Nothing \in Votes
  BY DEF NoCache, NoWorker, Spawned, Nothing, Writers, WorkerStates, Votes
<1>2. setup.shm \in BOOLEAN
  BY SetupsAssumption DEF Init
<1>3. /\ writer \in [Ranks -> Writers] /\ worker \in [Ranks -> WorkerStates]
      /\ vote \in [Ranks -> Votes] /\ pc \in [Ranks -> Labels]
      /\ drain \in [Ranks -> BOOLEAN]
  BY <1>1, <1>2, LabelsAreKnown DEF Init
<1>4. /\ home \in [Ranks -> Homes] /\ data \in [Ranks -> {None} \cup Homes]
      /\ buffer \in [Ranks -> [Homes -> {None} \cup Saves]]
      /\ cur_item \in [Ranks -> {None} \cup Saves]
  BY DEF Init, Homes
<1>5. /\ calls \in [Ranks -> Seq(Calls)] /\ queue \in [Ranks -> Seq(Items)]
      /\ comp_q \in [Ranks -> Seq(Saves)] /\ results \in [Ranks -> Seq(Results)]
      /\ script \in Seq(Operations) /\ at \in [Ranks -> Nat \ {0}]
  BY DEF Init
<1>6. /\ files \in [Ranks -> [Saves -> {"none", "good", "torn", "partial"}]]
      /\ finalized \in [Ranks -> SUBSET Saves]
      /\ published \subseteq Saves /\ raised \subseteq Saves
      /\ setup \in Setups
  BY DEF Init
<1>7. {ops, saves, failures, deaths, restarts} \subseteq Nat
  BY DEF Init
<1>8. {restarting, leftover} \subseteq BOOLEAN
  <2>1. restarting \in BOOLEAN /\ leftover \in BOOLEAN
    BY DEF Init
  <2> QED BY <2>1
<1> QED BY <1>3, <1>4, <1>5, <1>6, <1>7, <1>8 DEF TypeOK, Writers, WorkerStates, Votes

-----------------------------------------------------------------------------
(* The requests a trainer has given to its worker.                            *)

\* The acting rank leaves what another one has alone.
Untouched(q) ==
    /\ setup' = setup
    /\ script' = script \/ \E op \in Operations : script' = Append(script, op)
    /\ at'[q] = at[q] /\ pc'[q] = pc[q] /\ vote'[q] = vote[q]
    /\ calls'[q] = calls[q] /\ cur_item'[q] = cur_item[q]
    /\ worker'[q] = worker[q] /\ queue'[q] = queue[q] /\ comp_q'[q] = comp_q[q]

\* An operation joins the script behind those that are there.
LEMMA ScriptGrows ==
    ASSUME TypeOK, NEW op \in Operations, script' = Append(script, op)
    PROVE  /\ Len(script') = Len(script) + 1
           /\ \A i \in 1 .. Len(script) : script'[i] = script[i]
           /\ script'[Len(script) + 1] = op
BY DEF TypeOK

\* Another rank stays where it is in the script, in the same operation.
LEMMA BystanderInScript ==
    ASSUME TypeOK, NEW q \in Ranks, InScript(q), Untouched(q)
    PROVE  /\ InScript(q)'
           /\ at[q] <= Len(script) => Op(q)' = Op(q)
           /\ HasCaller(q)' = HasCaller(q)
<1>1. at[q] \in Nat \ {0} /\ Len(script) \in Nat /\ at[q] <= Len(script) + 1
  BY RankTypes DEF TypeOK, InScript
<1>2. /\ at[q] <= Len(script) => Op(q)' = Op(q)
      /\ Len(script) <= Len(script')
      /\ \A i \in 1 .. at[q] - 1 : script'[i] = script[i]
      /\ Len(script') \in Nat
  BY <1>1, ScriptGrows DEF Op, Untouched
<1>3. HasCaller(q)' = HasCaller(q)
  BY <1>1, <1>2 DEF HasCaller, Untouched
<1>4. InScript(q)'
  <2> HIDE DEF Op
  <2> QED BY <1>1, <1>2 DEF InScript, Untouched
<1> QED BY <1>2, <1>3, <1>4

\* The queues of a rank are sequences, of which staging and writing hold at most one more.
LEMMA SequencesOf ==
    ASSUME TypeOK, NEW r \in Ranks
    PROVE  /\ calls[r] \in Seq(Calls) /\ Len(calls[r]) \in Nat
           /\ comp_q[r] \in Seq(Saves) /\ Len(comp_q[r]) \in Nat
           /\ queue[r] \in Seq(Items) /\ Len(queue[r]) \in Nat
           /\ Staging(r) \in 0 .. 1 /\ Held(r) \in 0 .. 1 /\ Busy(r) \in 0 .. 1
BY RankTypes DEF Staging, Held, Busy

\* Sums of positions, which the provers want to be told.
LEMMA ShiftedSum ==
    \A n, m, s, c, k \in Nat : n = m + s /\ k = m + c + 1 => n + c + 1 = k + s
OBVIOUS

\* A position is not beyond the whole.
LEMMA PartOfASum == \A a, b, c, e \in Nat : a + b = c + e => a <= c + e
OBVIOUS

\* After s of them have left the queue, the other requests due are the same.
DuesKept(r, s) ==
    \A k \in Nat : k >= 1 /\ k + s <= Len(calls[r]) + Staging(r) => Due(r, k)' = Due(r, k + s)

\* Requests stay in their order as long as those in front of them do.
LEMMA OrderKept ==
    ASSUME TypeOK, NEW r \in Ranks, NEW n \in Nat, NEW m \in Nat, NEW s \in Nat, n = m + s,
           CompletedInOrder(r, n), WrittenNext(r, n), AllCounted(r, n),
           comp_q'[r] = comp_q[r], worker'[r] = worker[r],
           Len(calls[r]) + Staging(r) <= Len(calls'[r]) + Staging(r)' + s,
           Len(calls'[r]) \in Nat, Staging(r)' \in Nat,
           DuesKept(r, s)
    PROVE  CompletedInOrder(r, m)' /\ WrittenNext(r, m)'
<1>1. /\ Staging(r) \in Nat /\ Len(comp_q[r]) \in Nat
      /\ Len(queue[r]) \in Nat /\ Len(calls[r]) \in Nat
  BY SequencesOf
<1>2. CompletedInOrder(r, m)'
  <2>1. \A k \in 1 .. Len(comp_q[r]) :
          /\ m + k <= Len(calls'[r]) + Staging(r)'
          /\ comp_q[r][k] = Due(r, m + k)'
    <3> TAKE k \in 1 .. Len(comp_q[r])
    <3>1. n + k <= Len(calls[r]) + Staging(r) /\ comp_q[r][k] = Due(r, n + k)
      BY DEF CompletedInOrder
    <3>2. m + k \in Nat /\ m + k >= 1 /\ n + k = (m + k) + s
      <4>1. k \in Nat /\ k >= 1
        BY <1>1
      <4> QED BY <4>1
    <3>3. m + k <= Len(calls'[r]) + Staging(r)'
      <4>1. PICK a \in Nat, b \in Nat :
               a = Len(calls[r]) + Staging(r) /\ b = Len(calls'[r]) + Staging(r)'
        BY <1>1
      <4>2. a <= b + s
        BY <4>1
      <4>3. n + k <= a
        BY <3>1, <4>1
      <4> QED BY <3>2, <4>1, <4>2, <4>3
    <3>4. m + k \in Nat /\ m + k >= 1 /\ (m + k) + s <= Len(calls[r]) + Staging(r)
      BY <3>1, <3>2
    <3>5. Due(r, m + k)' = Due(r, (m + k) + s)
      BY <3>4 DEF DuesKept
    <3>6. comp_q[r][k] = Due(r, m + k)'
      BY <3>1, <3>2, <3>5
    <3> QED BY <3>3, <3>6
  <2> QED BY <2>1 DEF CompletedInOrder
<1>3. WrittenNext(r, m)'
  <2>1. PICK k \in Nat : k >= 1 /\ k = m + Len(comp_q[r]) + 1
    BY <1>1
  <2>2. ASSUME worker[r].state = "write" PROVE worker[r].id = Due(r, k)'
    <3>1. n + Len(comp_q[r]) + 1 + Len(queue[r]) = Len(calls[r]) + Staging(r)
      BY <1>1, <2>2 DEF AllCounted, Busy
    <3>2. worker[r].id = Due(r, n + Len(comp_q[r]) + 1)
      BY <2>2 DEF WrittenNext
    <3>3. n + Len(comp_q[r]) + 1 = k + s
      <4>1. PICK c \in Nat : c = Len(comp_q[r])
        BY <1>1
      <4>2. k = m + c + 1
        BY <2>1, <4>1
      <4>3. n + c + 1 = k + s
        BY <4>2, ShiftedSum
      <4> QED BY <4>1, <4>3
    <3>4. k + s <= Len(calls[r]) + Staging(r)
      <4>1. k + s \in Nat
        OBVIOUS
      <4>2. (k + s) + Len(queue[r]) = Len(calls[r]) + Staging(r)
        BY <3>1, <3>3
      <4> QED BY <1>1, <4>1, <4>2, PartOfASum
    <3> QED BY <2>1, <3>2, <3>3, <3>4 DEF DuesKept
  <2>3. k = m + Len(comp_q'[r]) + 1
    BY <2>1
  <2> QED BY <2>2, <2>3 DEF WrittenNext
<1> QED BY <1>2, <1>3

\* The accounts of a rank that takes no part in a step.
LEMMA Bystander ==
    ASSUME TypeOK, NEW q \in Ranks, Accounted(q), Untouched(q)
    PROVE  Accounted(q)'
<1>1. /\ InScript(q)' /\ HasCaller(q)' = HasCaller(q)
      /\ at[q] <= Len(script) => Op(q)' = Op(q)
  BY BystanderInScript DEF Accounted
<1>2. pc[q] = "staging" => at[q] <= Len(script)
  BY DEF Accounted, InScript
<1>3. PICK d \in 0 .. Len(calls[q]) : Accounts(q, d)
  BY DEF Accounted
<1>4. /\ Staging(q)' = Staging(q) /\ Held(q)' = Held(q) /\ Busy(q)' = Busy(q)
  BY DEF Untouched, Staging, Held, Busy
<1>5. DuesKept(q, 0)
  <2>1. CASE pc[q] = "staging"
    BY <1>1, <1>2, <2>1 DEF DuesKept, Due, Untouched
  <2>2. CASE pc[q] # "staging"
    BY <2>2, SequencesOf DEF DuesKept, Due, Untouched, Staging
  <2> QED BY <2>1, <2>2
<1>6. Accounts(q, d)'
  <2>1. PICK n \in Nat : /\ n = d + Held(q)
                         /\ CompletedInOrder(q, n) /\ WrittenNext(q, n) /\ AllCounted(q, n)
    BY <1>3 DEF Accounts
  <2>2. /\ Staging(q)' \in Nat /\ Len(calls'[q]) \in Nat
        /\ Len(calls[q]) + Staging(q) <= Len(calls'[q]) + Staging(q)' + 0
    BY <1>4, SequencesOf DEF Untouched
  <2>3. CompletedInOrder(q, n)' /\ WrittenNext(q, n)'
    BY <1>5, <2>1, <2>2, OrderKept DEF Untouched
  <2>4. Settled(q, d)' /\ HeldIsFirst(q, d)' /\ AllCounted(q, n)'
    BY <1>3, <1>4, <2>1 DEF Accounts, Settled, HeldIsFirst, AllCounted, Untouched
  <2> QED BY <1>4, <2>1, <2>3, <2>4 DEF Accounts
<1>7. QueueIsStaged(q)' /\ WithoutWorker(q)' /\ VoteIsCovered(q)'
  <2>1. QueueIsStaged(q)'
    BY <1>1, <1>2 DEF Accounted, QueueIsStaged, Untouched
  <2>2. NothingDue(q)' = NothingDue(q)
    BY DEF NothingDue, Untouched
  <2>3. WithoutWorker(q)'
    BY <1>1, <2>2 DEF Accounted, WithoutWorker, Untouched
  <2>4. VoteIsCovered(q)'
    BY DEF Accounted, VoteIsCovered, Untouched, First
  <2> QED BY <2>1, <2>3, <2>4
<1> QED BY <1>1, <1>3, <1>6, <1>7 DEF Accounted, Untouched

\* A step that moves no request: the trainer goes on to another point of the script.
LEMMA SameBooks ==
    ASSUME TypeOK, NEW r \in Ranks, Accounted(r), setup' = setup,
           calls'[r] = calls[r], cur_item'[r] = cur_item[r],
           worker'[r] = worker[r], queue'[r] = queue[r], comp_q'[r] = comp_q[r],
           pc[r] \notin {"staging", "finalize", "aborted"},
           pc'[r] \notin {"staging", "finalize", "aborted"},
           InScript(r)', HasCaller(r) => HasCaller(r)', VoteIsCovered(r)'
    PROVE  Accounted(r)'
<1>1. PICK d \in 0 .. Len(calls[r]) : Accounts(r, d)
  BY DEF Accounted
<1>2. /\ Staging(r)' = Staging(r) /\ Held(r)' = Held(r) /\ Busy(r)' = Busy(r)
      /\ Staging(r) = 0
  BY DEF Staging, Held, Busy
<1>3. DuesKept(r, 0)
  BY <1>2, SequencesOf DEF DuesKept, Due
<1>4. Accounts(r, d)'
  <2>1. PICK n \in Nat : /\ n = d + Held(r)
                         /\ CompletedInOrder(r, n) /\ WrittenNext(r, n) /\ AllCounted(r, n)
    BY <1>1 DEF Accounts
  <2>2. /\ Staging(r)' \in Nat /\ Len(calls'[r]) \in Nat
        /\ Len(calls[r]) + Staging(r) <= Len(calls'[r]) + Staging(r)' + 0
    BY <1>2, SequencesOf
  <2>3. CompletedInOrder(r, n)' /\ WrittenNext(r, n)'
    BY <1>3, <2>1, <2>2, OrderKept
  <2>4. Settled(r, d)' /\ HeldIsFirst(r, d)' /\ AllCounted(r, n)'
    BY <1>1, <1>2, <2>1 DEF Accounts, Settled, HeldIsFirst, AllCounted
  <2> QED BY <1>2, <2>1, <2>3, <2>4 DEF Accounts
<1>5. QueueIsStaged(r)' /\ WithoutWorker(r)'
  BY DEF Accounted, QueueIsStaged, WithoutWorker, NothingDue
<1> QED BY <1>1, <1>4, <1>5 DEF Accounted

\* The accounts of a rank from which nothing is on its way.
LEMMA NothingOwed ==
    ASSUME TypeOK', NEW r \in Ranks, InScript(r)', NothingDue(r)',
           \/ \A i \in DOMAIN calls'[r] : ~calls'[r][i].live
           \/ HasCaller(r)' /\ \E d \in 0 .. Len(calls'[r]) :
                 /\ \A i \in 1 .. d : ~calls'[r][i].live
                 /\ \A i \in d + 1 .. Len(calls'[r]) : calls'[r][i].live,
           worker'[r].state = "none",
           pc'[r] \notin {"finalize", "reduce"}
    PROVE  Accounted(r)'
<1>1. PICK d \in 0 .. Len(calls'[r]) :
        /\ \A i \in 1 .. d : ~calls'[r][i].live
        /\ \A i \in d + 1 .. Len(calls'[r]) : calls'[r][i].live
  <2>1. ASSUME \A i \in DOMAIN calls'[r] : ~calls'[r][i].live
        PROVE  \E d \in 0 .. Len(calls'[r]) :
                 /\ \A i \in 1 .. d : ~calls'[r][i].live
                 /\ \A i \in d + 1 .. Len(calls'[r]) : calls'[r][i].live
    <3>1. calls'[r] \in Seq(Calls)
      BY DEF TypeOK
    <3>2. Len(calls'[r]) \in 0 .. Len(calls'[r]) /\ DOMAIN calls'[r] = 1 .. Len(calls'[r])
      BY <3>1
    <3> QED BY <2>1, <3>2
  <2> QED BY <2>1
<1>2. Accounts(r, d)'
  <2>1. d \in Nat /\ Held(r)' = 0 /\ d = d + Held(r)'
    BY <1>1 DEF NothingDue, Held, TypeOK
  <2>2. Settled(r, d)' /\ HeldIsFirst(r, d)'
    BY <1>1 DEF Settled, HeldIsFirst, NothingDue
  <2>3. CompletedInOrder(r, d)' /\ WrittenNext(r, d)' /\ AllCounted(r, d)'
    BY DEF CompletedInOrder, WrittenNext, AllCounted, NothingDue
  <2> QED BY <2>1, <2>2, <2>3 DEF Accounts
<1>3. QueueIsStaged(r)' /\ VoteIsCovered(r)' /\ WithoutWorker(r)'
  BY DEF QueueIsStaged, VoteIsCovered, WithoutWorker, NothingDue
<1> QED BY <1>1, <1>2, <1>3 DEF Accounted

\* The steps of one rank leave the others alone.
LEMMA OthersUntouched ==
    ASSUME TypeOK, NEW r \in Ranks, NEW q \in Ranks, q # r,
           Trainer(r) \/ Worker(r) \/ WorkerDies(r) \/ Abort(r)
    PROVE  Untouched(q)
<1>1. CASE BeginSave(r) \/ BeginPoll(r)
  <2>1. PICK op \in Operations : Undertake(r, op)
    BY <1>1, OperationTypes DEF BeginSave, BeginPoll
  <2>2. script' = script \/ script' = Append(script, op)
    BY <2>1 DEF Undertake
  <2> QED
    BY <1>1, <2>2
    DEF Untouched, BeginSave, BeginPoll, Goto, TypeOK, calling, staging, writing
<1>2. CASE PrepareWriteData(r) \/ ScheduleNothing(r) \/ ScheduleAsyncCall(r) \/ ReturnFromStaging(r)
  <2>1. CASE PrepareWriteData(r)
    BY <2>1 DEF Untouched, PrepareWriteData, Goto, TypeOK, plan, calling, writing
  <2>2. CASE ScheduleNothing(r) \/ ReturnFromStaging(r)
    BY <2>2
    DEF Untouched, ScheduleNothing, ReturnFromStaging, Enlist, Done, Goto, TypeOK, plan,
        staging, writing
  <2>3. CASE ScheduleAsyncCall(r)
    BY <2>3 DEF Untouched, ScheduleAsyncCall, Goto, TypeOK, plan, calling
  <2> QED BY <1>2, <2>1, <2>2, <2>3
<1>3. CASE Poll(r)
  BY <1>3 DEF Untouched, Poll, Goto, TypeOK, plan, staging
<1>4. CASE Finalize(r)
  BY <1>4 DEF Untouched, Finalize, Goto, TypeOK, plan
<1>5. CASE ReturnFromPoll(r) \/ Close(r)
  BY <1>5 DEF Untouched, ReturnFromPoll, Close, Done, Goto, TypeOK, plan, calling, staging, writing
<1>6. CASE Worker(r) \/ WorkerDies(r)
  BY <1>6
  DEF Untouched, Worker, WorkerStage, WorkerWrite, WorkerDies, TypeOK, plan, calling, staging
<1>7. CASE Abort(r)
  BY <1>7 DEF Untouched, Abort, Goto, TypeOK, plan
<1> QED BY <1>1, <1>2, <1>3, <1>4, <1>5, <1>6, <1>7 DEF Trainer

\* The accounts, action by action: the training loop undertakes an operation.
LEMMA BeginKeepsBooks ==
    ASSUME TypeOK, NEW r \in Ranks, Accounted(r), BeginSave(r) \/ BeginPoll(r)
    PROVE  Accounted(r)'
<1>1. PICK op \in Operations : Undertake(r, op) /\ (BeginSave(r) => op.kind = "save")
  BY OperationTypes DEF BeginSave, BeginPoll, Save
<1>2. /\ pc[r] = "train" /\ at' = at
      /\ pc'[r] = IF BeginSave(r) THEN "prepare" ELSE "poll"
      /\ UNCHANGED <<setup, calls, cur_item, vote, worker, queue, comp_q>>
  <2>1. pc[r] = "train"
    BY <1>1 DEF Undertake
  <2>2. pc'[r] = IF BeginSave(r) THEN "prepare" ELSE "poll"
    <3>1. BeginSave(r) => pc'[r] = "prepare"
      BY RankTypes DEF BeginSave, Goto
    <3>2. ~BeginSave(r) => pc'[r] = "poll"
      BY RankTypes DEF BeginPoll, Goto
    <3> QED BY <3>1, <3>2
  <2> QED BY <2>1, <2>2 DEF BeginSave, BeginPoll, calling, writing
<1>3. at[r] \in Nat \ {0} /\ Len(script) \in Nat /\ at[r] <= Len(script) + 1
  BY RankTypes DEF TypeOK, Accounted, InScript
<1>4. /\ at[r] <= Len(script') /\ script'[at[r]] = op
      /\ \A i \in 1 .. at[r] - 1 : script'[i] = script[i]
  <2>1. CASE at[r] <= Len(script) /\ Op(r) = op /\ script' = script
    BY <1>3, <2>1 DEF Op
  <2>2. CASE at[r] > Len(script) /\ script' = Append(script, op)
    BY <1>3, <2>2, ScriptGrows
  <2> QED BY <1>1, <2>1, <2>2 DEF Undertake
<1>5. Len(script') \in Nat
  BY BeginKeepsTypes DEF TypeOK
<1>6. InScript(r)'
  BY <1>1, <1>2, <1>3, <1>4, <1>5 DEF Accounted, InScript, Op
<1>7. HasCaller(r) => HasCaller(r)'
  BY <1>2, <1>4 DEF HasCaller
<1>8. VoteIsCovered(r)'
  BY <1>2 DEF VoteIsCovered
<1> QED BY <1>2, <1>6, <1>7, <1>8, SameBooks

\* prepare_write_data moves no request.
LEMMA PrepareKeepsBooks ==
    ASSUME TypeOK, NEW r \in Ranks, Accounted(r), PrepareWriteData(r)
    PROVE  Accounted(r)'
<1>1. /\ pc[r] = "prepare" /\ r \in setup.holders /\ pc'[r] = "schedule"
      /\ UNCHANGED <<setup, script, at, calls, cur_item, vote, worker, queue, comp_q>>
  BY RankTypes DEF PrepareWriteData, Goto, plan, calling, writing
<1>2. InScript(r)'
  BY <1>1 DEF Accounted, InScript, Op
<1>3. HasCaller(r)' = HasCaller(r)
  BY <1>1 DEF HasCaller
<1>4. VoteIsCovered(r)'
  BY <1>1 DEF VoteIsCovered
<1> QED BY <1>1, <1>2, <1>3, <1>4, SameBooks

\* The operation of a save is over: its caller is known from then on.
LEMMA SaveIsOver ==
    ASSUME TypeOK, NEW r \in Ranks, InScript(r), pc[r] \in {"prepare", "staging"},
           Op(r).kind = "save", Done(r), script' = script, worker'[r] = worker[r]
    PROVE  InScript(r)' /\ HasCaller(r)' /\ pc'[r] = "train"
<1>1. pc'[r] = "train" /\ at'[r] = at[r] + 1
  BY RankTypes DEF Done, Goto
<1>2. at[r] \in Nat \ {0} /\ at[r] <= Len(script) /\ Len(script) \in Nat
  BY RankTypes DEF TypeOK, InScript
<1>3. at[r] \in 1 .. at'[r] - 1
  BY <1>1, <1>2
<1>4. script'[at[r]].kind = "save"
  BY DEF Op
<1>5. HasCaller(r)'
  BY <1>3, <1>4 DEF HasCaller
<1> QED BY <1>1, <1>2, <1>5 DEF InScript

\* A call joins the calls in flight, the last of them and alive.
LEMMA EnlistAppends ==
    ASSUME TypeOK, NEW r \in Ranks, Op(r).id \in Saves, Enlist(r)
    PROVE  /\ Len(calls'[r]) = Len(calls[r]) + 1
           /\ \A i \in 1 .. Len(calls[r]) : calls'[r][i] = calls[r][i]
           /\ calls'[r][Len(calls[r]) + 1] = [id |-> Op(r).id, live |-> TRUE]
           /\ DOMAIN calls'[r] = 1 .. Len(calls[r]) + 1
<1>1. calls[r] \in Seq(Calls) /\ [id |-> Op(r).id, live |-> TRUE] \in Calls
  BY RankTypes DEF Calls
<1>2. calls'[r] = Append(calls[r], [id |-> Op(r).id, live |-> TRUE])
  BY RankTypes DEF Enlist
<1> HIDE DEF Calls
<1> QED BY <1>1, <1>2

\* A rank without data has a call but no worker.
LEMMA ScheduleNothingKeepsBooks ==
    ASSUME TypeOK, NEW r \in Ranks, Accounted(r), ScheduleNothing(r)
    PROVE  Accounted(r)'
<1>1. /\ pc[r] = "prepare" /\ r \notin setup.holders /\ Enlist(r) /\ Done(r)
      /\ UNCHANGED <<setup, script, cur_item, vote, worker, queue, comp_q>>
  BY DEF ScheduleNothing, plan, writing
<1>2. at[r] <= Len(script) /\ Op(r).kind = "save" /\ Op(r).id \in Saves
  BY <1>1, OpType, OperationTypes DEF Accounted, InScript
<1>3. InScript(r)' /\ HasCaller(r)' /\ pc'[r] = "train"
  BY <1>1, <1>2, SaveIsOver DEF Accounted
<1>4. worker[r].state = "none" /\ NothingDue(r)
  BY <1>1 DEF Accounted, WithoutWorker
<1>5. NothingDue(r)'
  BY <1>1, <1>3, <1>4 DEF NothingDue
<1>6. PICK d \in 0 .. Len(calls[r]) : Accounts(r, d)
  BY DEF Accounted
<1>7. /\ d \in 0 .. Len(calls'[r])
      /\ \A i \in 1 .. d : ~calls'[r][i].live
      /\ \A i \in d + 1 .. Len(calls'[r]) : calls'[r][i].live
  <2>1. Len(calls[r]) \in Nat
    BY SequencesOf
  <2>2. /\ \A i \in 1 .. d : ~calls[r][i].live
        /\ \A i \in d + 1 .. Len(calls[r]) : calls[r][i].live
    BY <1>1, <1>6 DEF Accounts, Settled
  <2>3. /\ Len(calls'[r]) = Len(calls[r]) + 1
        /\ \A i \in 1 .. Len(calls[r]) : calls'[r][i] = calls[r][i]
        /\ calls'[r][Len(calls[r]) + 1].live
    <3>1. calls'[r][Len(calls[r]) + 1] = [id |-> Op(r).id, live |-> TRUE]
      BY <1>1, <1>2, EnlistAppends
    <3>2. calls'[r][Len(calls[r]) + 1].live
      BY <3>1
    <3>3. Len(calls'[r]) = Len(calls[r]) + 1
      BY <1>1, <1>2, EnlistAppends
    <3>4. \A i \in 1 .. Len(calls[r]) : calls'[r][i] = calls[r][i]
      BY <1>1, <1>2, EnlistAppends
    <3> QED BY <3>2, <3>3, <3>4
  <2>4. \A i \in d + 1 .. Len(calls'[r]) : calls'[r][i].live
    <3> TAKE i \in d + 1 .. Len(calls'[r])
    <3>1. i \in d + 1 .. Len(calls[r]) \/ i = Len(calls[r]) + 1
      BY <1>6, <2>1, <2>3
    <3>2. CASE i \in d + 1 .. Len(calls[r])
      <4>1. i \in 1 .. Len(calls[r])
        BY <2>1, <3>2
      <4>2. calls[r][i].live /\ calls'[r][i] = calls[r][i]
        BY <2>2, <2>3, <3>2, <4>1
      <4> QED BY <4>2
    <3>3. CASE i = Len(calls[r]) + 1
      BY <2>3, <3>3
    <3> QED BY <3>1, <3>2, <3>3
  <2>5. \A i \in 1 .. d : i \in 1 .. Len(calls[r])
    BY <1>6, <2>1
  <2>6. \A i \in 1 .. d : ~calls'[r][i].live
    <3> TAKE i \in 1 .. d
    <3>1. ~calls[r][i].live /\ calls'[r][i] = calls[r][i]
      BY <2>2, <2>3, <2>5
    <3> QED BY <3>1
  <2>7. PICK n \in Nat : n = Len(calls[r])
    BY <2>1
  <2>8. Len(calls'[r]) = n + 1 /\ d \in 0 .. n
    BY <1>6, <2>3, <2>7
  <2>9. d \in 0 .. Len(calls'[r])
    BY <2>8
  <2> QED BY <2>4, <2>6, <2>9
<1>8. TypeOK'
  BY <1>2, SaveKeepsTypes
<1> QED BY <1>1, <1>3, <1>4, <1>5, <1>7, <1>8, NothingOwed

\* The request in staging is the last one due; a new worker owes nothing else.
LEMMA ScheduleKeepsBooks ==
    ASSUME TypeOK, NEW r \in Ranks, Accounted(r), ScheduleAsyncCall(r)
    PROVE  Accounted(r)'
<1> DEFINE item == [id |-> Op(r).id, data |-> data[r]]
<1>1. /\ pc[r] = "schedule" /\ pc'[r] = "staging" /\ r \in setup.holders
      /\ at[r] <= Len(script) /\ Op(r).kind = "save" /\ Op(r).id \in Saves
      /\ UNCHANGED <<setup, script, at, calls, cur_item, vote, comp_q>>
      /\ queue'[r] = Append(queue[r], item)
      /\ worker'[r] = IF worker[r].state = "none" THEN Spawned ELSE worker[r]
  <2>1. pc[r] = "schedule" /\ pc'[r] = "staging"
    BY RankTypes DEF ScheduleAsyncCall, Goto
  <2>2. at[r] <= Len(script) /\ Op(r).kind = "save" /\ Op(r).id \in Saves /\ r \in setup.holders
    BY <2>1, OpType, OperationTypes DEF Accounted, InScript
  <2>3. /\ queue'[r] = Append(queue[r], item)
        /\ worker'[r] = IF worker[r].state = "none" THEN Spawned ELSE worker[r]
    BY RankTypes DEF ScheduleAsyncCall
  <2> QED BY <2>1, <2>2, <2>3 DEF ScheduleAsyncCall, plan, calling
<1>2. queue[r] = << >>
  BY <1>1 DEF Accounted, QueueIsStaged
<1>3. queue'[r] = <<item>>
  BY <1>1, <1>2
<1>4. Len(queue'[r]) = 1 /\ queue'[r][1].id = Op(r).id /\ Op(r)' = Op(r)
  BY <1>1, <1>3 DEF Op
<1>5. InScript(r)'
  BY <1>1, <1>4 DEF Accounted, InScript, Spawned
<1>6. /\ Staging(r) = 0 /\ Staging(r)' = 1 /\ Held(r)' = Held(r) /\ Len(queue[r]) = 0
      /\ worker[r].state # "none" => Busy(r)' = Busy(r)
      /\ worker[r].state = "none" => Busy(r)' = 0
  BY <1>1, <1>2 DEF Staging, Held, Busy, Spawned
<1>7. /\ Held(r) \in Nat /\ Len(comp_q[r]) \in Nat /\ Len(calls[r]) \in Nat /\ Busy(r) \in Nat
  BY SequencesOf
<1>8. \E d \in 0 .. Len(calls[r]) : Accounts(r, d)'
  <2>1. CASE worker[r].state = "none"
    <3>1. PICK d \in 0 .. Len(calls[r]) : d = Len(calls[r])
      BY <1>7
    <3>2. /\ \A i \in DOMAIN calls[r] : ~calls[r][i].live
          /\ cur_item[r] = None /\ comp_q[r] = << >>
      BY <1>1, <2>1 DEF Accounted, WithoutWorker, NothingDue
    <3>3. DOMAIN calls[r] = 1 .. d
      BY <3>1, SequencesOf
    <3>4. worker'[r].state = "idle"
      BY <1>1, <2>1 DEF Spawned
    <3>5. Held(r)' = 0 /\ Len(comp_q'[r]) = 0 /\ Busy(r)' = 0 /\ d = d + Held(r)'
      BY <1>1, <1>7, <3>1, <3>2, <3>4 DEF Held, Busy
    <3>6. Settled(r, d)' /\ HeldIsFirst(r, d)'
      BY <1>1, <1>7, <3>1, <3>2, <3>3 DEF Settled, HeldIsFirst
    <3>7. CompletedInOrder(r, d)' /\ WrittenNext(r, d)'
      BY <3>4, <3>5 DEF CompletedInOrder, WrittenNext
    <3>8. AllCounted(r, d)'
      BY <1>1, <1>4, <1>6, <1>7, <3>1, <3>5 DEF AllCounted
    <3> QED BY <3>1, <3>5, <3>6, <3>7, <3>8 DEF Accounts
  <2>2. CASE worker[r].state # "none"
    <3>1. PICK d \in 0 .. Len(calls[r]) : Accounts(r, d)
      BY DEF Accounted
    <3>2. PICK n \in Nat :
            /\ n = d + Held(r)
            /\ CompletedInOrder(r, n) /\ WrittenNext(r, n) /\ AllCounted(r, n)
      BY <3>1 DEF Accounts
    <3>3. DuesKept(r, 0)
      BY <1>1, <1>6, <1>7 DEF DuesKept, Due
    <3>4. worker'[r] = worker[r] /\ Busy(r)' = Busy(r)
      BY <1>1, <1>6, <2>2
    <3>5. /\ Staging(r)' \in Nat /\ Len(calls'[r]) \in Nat
          /\ Len(calls[r]) + Staging(r) <= Len(calls'[r]) + Staging(r)' + 0
      BY <1>1, <1>6, <1>7
    <3>6. CompletedInOrder(r, n)' /\ WrittenNext(r, n)'
      BY <1>1, <3>2, <3>3, <3>4, <3>5, OrderKept
    <3>7. Settled(r, d)' /\ HeldIsFirst(r, d)'
      BY <1>1, <3>1 DEF Accounts, Settled, HeldIsFirst
    <3>8. AllCounted(r, n)'
      <4>1. worker[r].state \in {"idle", "write"} =>
              n + Len(comp_q[r]) + Busy(r) + Len(queue[r]) = Len(calls[r]) + Staging(r)
        BY <3>2 DEF AllCounted
      <4> QED BY <1>1, <1>4, <1>6, <1>7, <3>4, <4>1 DEF AllCounted
    <3>9. n = d + Held(r)'
      BY <1>6, <3>2
    <3> QED BY <3>1, <3>2, <3>6, <3>7, <3>8, <3>9 DEF Accounts
  <2> QED BY <2>1, <2>2
<1>9. QueueIsStaged(r)' /\ VoteIsCovered(r)'
  BY <1>1, <1>4 DEF QueueIsStaged, VoteIsCovered
<1>10. HasCaller(r)' = HasCaller(r)
  BY <1>1 DEF HasCaller
<1>11. WithoutWorker(r)'
  <2>1. worker'[r].state # "none"
    BY <1>1 DEF Spawned
  <2> QED BY <1>1, <1>10, <2>1 DEF Accounted, WithoutWorker
<1> QED BY <1>1, <1>5, <1>8, <1>9, <1>11 DEF Accounted

\* The request staged is now that of the last call.
LEMMA ReturnFromStagingKeepsBooks ==
    ASSUME TypeOK, NEW r \in Ranks, Accounted(r), ReturnFromStaging(r)
    PROVE  Accounted(r)'
<1>1. /\ pc[r] = "staging" /\ Staged(r) /\ Enlist(r) /\ Done(r)
      /\ UNCHANGED <<setup, script, cur_item, vote, worker, queue, comp_q>>
  BY DEF ReturnFromStaging, plan, writing
<1>2. at[r] <= Len(script) /\ Op(r).kind = "save" /\ Op(r).id \in Saves /\ r \in setup.holders
  BY <1>1, OpType, OperationTypes DEF Accounted, InScript
<1>3. InScript(r)' /\ HasCaller(r)' /\ pc'[r] = "train"
  BY <1>1, <1>2, SaveIsOver DEF Accounted
<1>4. queue[r] = << >>
  <2> SUFFICES ASSUME queue[r] # << >> PROVE FALSE
    OBVIOUS
  <2>1. Len(queue[r]) = 1 /\ queue[r][1].id = Op(r).id
    BY DEF Accounted, QueueIsStaged
  <2>2. 1 \in DOMAIN queue[r]
    BY <2>1, SequencesOf
  <2> QED BY <1>1, <2>1, <2>2 DEF Staged
<1>5. worker[r].state # "none"
  BY <1>1 DEF Accounted, WithoutWorker, NothingDue
<1>6. PICK d \in 0 .. Len(calls[r]) : Accounts(r, d)
  BY DEF Accounted
<1>7. PICK n \in Nat : /\ n = d + Held(r)
                       /\ CompletedInOrder(r, n) /\ WrittenNext(r, n) /\ AllCounted(r, n)
  BY <1>6 DEF Accounts
<1>8. /\ Len(calls[r]) \in Nat /\ Staging(r) = 1 /\ Staging(r)' = 0
      /\ Held(r)' = Held(r) /\ Busy(r)' = Busy(r)
  BY <1>1, <1>3, SequencesOf DEF Staging, Held, Busy
<1>9. /\ Len(calls'[r]) = Len(calls[r]) + 1
      /\ \A i \in 1 .. Len(calls[r]) : calls'[r][i] = calls[r][i]
      /\ calls'[r][Len(calls[r]) + 1] = [id |-> Op(r).id, live |-> TRUE]
  BY <1>1, <1>2, EnlistAppends
<1>10. DuesKept(r, 0)
  <2> SUFFICES ASSUME NEW k \in Nat, k >= 1, k <= Len(calls[r]) + Staging(r)
               PROVE  Due(r, k)' = Due(r, k)
    BY DEF DuesKept
  <2>1. CASE k = Len(calls[r]) + 1
    BY <1>8, <1>9, <2>1 DEF Due
  <2>2. CASE k \in 1 .. Len(calls[r])
    <3>1. calls'[r][k] = calls[r][k]
      BY <1>9, <2>2
    <3> QED BY <1>8, <1>9, <2>2, <3>1 DEF Due
  <2> QED BY <1>8, <2>1, <2>2
<1>11. CompletedInOrder(r, n)' /\ WrittenNext(r, n)'
  <2>1. /\ Staging(r)' \in Nat /\ Len(calls'[r]) \in Nat
        /\ Len(calls[r]) + Staging(r) <= Len(calls'[r]) + Staging(r)' + 0
    BY <1>8, <1>9
  <2> QED BY <1>1, <1>7, <1>10, <2>1, OrderKept
<1>12. Settled(r, d)'
  <2>1. \A i \in 1 .. d : ~calls[r][i].live
    BY <1>1, <1>6 DEF Accounts, Settled
  <2>2. \A i \in d + 1 .. Len(calls[r]) : calls[r][i].live
    BY <1>6 DEF Accounts, Settled
  <2>3. \A i \in 1 .. d : ~calls'[r][i].live
    <3>1. \A i \in 1 .. d : i \in 1 .. Len(calls[r])
      BY <1>6, <1>8
    <3> QED BY <1>9, <2>1, <3>1
  <2>4. \A i \in d + 1 .. Len(calls'[r]) : calls'[r][i].live
    <3> TAKE i \in d + 1 .. Len(calls'[r])
    <3>1. CASE i \in d + 1 .. Len(calls[r])
      <4>1. i \in 1 .. Len(calls[r])
        BY <1>6, <1>8, <3>1
      <4> QED BY <1>9, <2>2, <3>1, <4>1
    <3>2. CASE i = Len(calls[r]) + 1
      <4>1. calls'[r][i] = [id |-> Op(r).id, live |-> TRUE]
        BY <1>9, <3>2
      <4> QED BY <4>1
    <3> QED BY <1>6, <1>8, <1>9, <3>1, <3>2
  <2> QED BY <1>3, <2>3, <2>4 DEF Settled
<1>13. HeldIsFirst(r, d)'
  <2>1. cur_item[r] # None => d = 0 /\ calls[r] # << >> /\ cur_item[r] = calls[r][1].id
    BY <1>6 DEF Accounts, HeldIsFirst
  <2>2. calls[r] # << >> => calls'[r][1] = calls[r][1]
    <3>1. calls[r] # << >> => 1 \in 1 .. Len(calls[r])
      BY SequencesOf
    <3> QED BY <1>9, <3>1
  <2>3. calls'[r] # << >>
    BY <1>8, <1>9
  <2> QED BY <1>1, <2>1, <2>2, <2>3 DEF HeldIsFirst
<1>14. AllCounted(r, n)'
  BY <1>1, <1>7, <1>8, <1>9 DEF AllCounted
<1>15. Accounts(r, d)' /\ d \in 0 .. Len(calls'[r])
  BY <1>6, <1>7, <1>8, <1>9, <1>11, <1>12, <1>13, <1>14 DEF Accounts
<1>16. QueueIsStaged(r)' /\ WithoutWorker(r)' /\ VoteIsCovered(r)'
  BY <1>1, <1>2, <1>3, <1>4, <1>5 DEF QueueIsStaged, WithoutWorker, VoteIsCovered
<1> QED BY <1>3, <1>15, <1>16 DEF Accounted

\* The worker takes the request in staging, the last one that is due.
LEMMA WorkerStageKeepsBooks ==
    ASSUME TypeOK, NEW r \in Ranks, Accounted(r), WorkerStage(r)
    PROVE  Accounted(r)'
<1>1. /\ worker[r].state = "idle" /\ queue[r] # << >>
      /\ UNCHANGED <<setup, script, at, pc, calls, cur_item, vote, comp_q>>
  BY DEF WorkerStage, plan, calling
<1>2. /\ pc[r] = "staging" /\ Len(queue[r]) = 1 /\ queue[r][1].id = Op(r).id
  BY <1>1 DEF Accounted, QueueIsStaged
<1>3. at[r] <= Len(script) /\ Op(r).id \in Saves /\ r \in setup.holders
  BY <1>2, OpType, OperationTypes DEF Accounted, InScript
<1>4. /\ queue'[r] = << >> /\ worker'[r].id = Op(r).id
      /\ worker'[r].state \in {"write", "missed"}
  <2>1. Head(queue[r]) = queue[r][1] /\ Tail(queue[r]) = << >>
    BY <1>2, SequencesOf, OnlyElement
  <2>2. queue'[r] = Tail(queue[r])
    BY RankTypes DEF WorkerStage
  <2>3. worker'[r].id = Head(queue[r]).id /\ worker'[r].state \in {"write", "missed"}
    BY RankTypes DEF WorkerStage
  <2> QED BY <1>2, <2>1, <2>2, <2>3
<1>5. InScript(r)' /\ HasCaller(r)' = HasCaller(r)
  BY <1>1, <1>3, <1>4 DEF Accounted, InScript, Op, HasCaller, None, Saves
<1>6. PICK d \in 0 .. Len(calls[r]) : Accounts(r, d)
  BY DEF Accounted
<1>7. PICK n \in Nat : /\ n = d + Held(r)
                       /\ CompletedInOrder(r, n) /\ WrittenNext(r, n) /\ AllCounted(r, n)
  BY <1>6 DEF Accounts
<1>8. /\ Len(calls[r]) \in Nat /\ Len(comp_q[r]) \in Nat
      /\ Staging(r) = 1 /\ Staging(r)' = 1
      /\ Held(r)' = Held(r) /\ Busy(r) = 0 /\ Len(queue[r]) = 1 /\ Len(queue'[r]) = 0
  BY <1>1, <1>2, <1>4, SequencesOf DEF Staging, Held, Busy
<1>9. n + Len(comp_q[r]) + 1 = Len(calls[r]) + 1
  BY <1>1, <1>7, <1>8 DEF AllCounted
<1>10. CompletedInOrder(r, n)'
  BY <1>1, <1>7, <1>8 DEF CompletedInOrder, Due, Op
<1>11. WrittenNext(r, n)'
  <2>1. ~(n + Len(comp_q[r]) + 1 <= Len(calls[r]))
    BY <1>8, <1>9
  <2> QED BY <1>1, <1>4, <2>1 DEF WrittenNext, Due, Op
<1>12. AllCounted(r, n)'
  <2>1. worker'[r].state = "write" => Busy(r)' = 1
    BY DEF Busy
  <2> QED BY <1>1, <1>4, <1>7, <1>8, <1>9, <2>1 DEF AllCounted
<1>13. Settled(r, d)' /\ HeldIsFirst(r, d)'
  BY <1>1, <1>6 DEF Accounts, Settled, HeldIsFirst
<1>14. Accounts(r, d)'
  BY <1>7, <1>8, <1>10, <1>11, <1>12, <1>13 DEF Accounts
<1>15. QueueIsStaged(r)' /\ WithoutWorker(r)' /\ VoteIsCovered(r)'
  BY <1>1, <1>2, <1>4, <1>5 DEF Accounted, QueueIsStaged, WithoutWorker, VoteIsCovered
<1> QED BY <1>1, <1>5, <1>6, <1>14, <1>15 DEF Accounted

\* The request written becomes the last completion.
LEMMA WorkerWriteKeepsBooks ==
    ASSUME TypeOK, NEW r \in Ranks, Accounted(r), WorkerWrite(r)
    PROVE  Accounted(r)'
<1>1. /\ worker[r].state = "write"
      /\ UNCHANGED <<setup, script, at, pc, calls, cur_item, vote, queue>>
  BY DEF WorkerWrite, plan, calling
<1>2. /\ comp_q'[r] = Append(comp_q[r], worker[r].id)
      /\ worker'[r].state = "idle"
  BY RankTypes DEF WorkerWrite, WorkerStates
<1>3. /\ Len(comp_q'[r]) = Len(comp_q[r]) + 1
      /\ \A k \in 1 .. Len(comp_q[r]) : comp_q'[r][k] = comp_q[r][k]
      /\ comp_q'[r][Len(comp_q[r]) + 1] = worker[r].id
  <2>1. comp_q[r] \in Seq(Saves) /\ worker[r].id \in Saves
    BY <1>1, RankTypes DEF Accounted, InScript, WorkerStates
  <2> QED BY <1>2, <2>1
<1>4. InScript(r)' /\ HasCaller(r)' = HasCaller(r)
  BY <1>1, <1>2 DEF Accounted, InScript, Op, HasCaller
<1>5. PICK d \in 0 .. Len(calls[r]) : Accounts(r, d)
  BY DEF Accounted
<1>6. PICK n \in Nat : /\ n = d + Held(r)
                       /\ CompletedInOrder(r, n) /\ WrittenNext(r, n) /\ AllCounted(r, n)
  BY <1>5 DEF Accounts
<1>7. /\ Len(calls[r]) \in Nat /\ Len(comp_q[r]) \in Nat /\ Len(queue[r]) \in Nat
      /\ Staging(r) \in Nat /\ Staging(r)' = Staging(r)
      /\ Held(r)' = Held(r) /\ Busy(r) = 1 /\ Busy(r)' = 0
  BY <1>1, <1>2, SequencesOf DEF Staging, Held, Busy
<1>8. n + Len(comp_q[r]) + 1 + Len(queue[r]) = Len(calls[r]) + Staging(r)
  BY <1>1, <1>6, <1>7 DEF AllCounted
<1>9. \A k \in Nat : Due(r, k)' = Due(r, k)
  BY <1>1 DEF Due, Op
<1>10. CompletedInOrder(r, n)'
  <2>1. \A k \in 1 .. Len(comp_q'[r]) :
          n + k <= Len(calls[r]) + Staging(r) /\ comp_q'[r][k] = Due(r, n + k)'
    <3> TAKE k \in 1 .. Len(comp_q'[r])
    <3>1. CASE k \in 1 .. Len(comp_q[r])
      <4>1. n + k <= Len(calls[r]) + Staging(r) /\ comp_q[r][k] = Due(r, n + k)
        BY <1>6, <3>1 DEF CompletedInOrder
      <4>2. n + k \in Nat
        OBVIOUS
      <4> QED BY <1>3, <1>9, <3>1, <4>1, <4>2
    <3>2. CASE k = Len(comp_q[r]) + 1
      <4>1. n + k = n + Len(comp_q[r]) + 1 /\ n + k \in Nat
        BY <1>7, <3>2
      <4>2. n + k <= Len(calls[r]) + Staging(r)
        <5>1. (n + k) + Len(queue[r]) = Len(calls[r]) + Staging(r)
          BY <1>8, <4>1
        <5> QED BY <1>7, <4>1, <5>1, PartOfASum
      <4>3. worker[r].id = Due(r, n + k)
        BY <1>1, <1>6, <4>1 DEF WrittenNext
      <4> QED BY <1>3, <1>9, <3>2, <4>1, <4>2, <4>3
    <3> QED BY <1>3, <1>7, <3>1, <3>2
  <2> QED BY <1>1, <1>7, <2>1 DEF CompletedInOrder
<1>11. WrittenNext(r, n)' /\ AllCounted(r, n)'
  <2>1. WrittenNext(r, n)'
    BY <1>2 DEF WrittenNext
  <2>2. n + Len(comp_q'[r]) + Busy(r)' + Len(queue[r]) = Len(calls[r]) + Staging(r)'
    <3>1. PICK c \in Nat : c = Len(comp_q[r])
      BY <1>7
    <3>2. PICK q \in Nat : q = Len(queue[r])
      BY <1>7
    <3>3. n + c + 1 + q = n + (c + 1) + 0 + q
      OBVIOUS
    <3> QED BY <1>3, <1>7, <1>8, <3>1, <3>2, <3>3
  <2> QED BY <1>1, <2>1, <2>2 DEF AllCounted
<1>12. Settled(r, d)' /\ HeldIsFirst(r, d)'
  BY <1>1, <1>5 DEF Accounts, Settled, HeldIsFirst
<1>13. Accounts(r, d)'
  BY <1>6, <1>7, <1>10, <1>11, <1>12 DEF Accounts
<1>14. QueueIsStaged(r)' /\ WithoutWorker(r)' /\ VoteIsCovered(r)'
  <2>1. worker[r].state # "none" /\ worker'[r].state # "none"
    BY <1>1, <1>2
  <2>2. QueueIsStaged(r)'
    BY <1>1 DEF Accounted, QueueIsStaged, Op
  <2>3. WithoutWorker(r)'
    BY <1>1, <1>4, <2>1 DEF Accounted, WithoutWorker
  <2>4. VoteIsCovered(r)'
    BY <1>1, <2>1 DEF Accounted, VoteIsCovered, First
  <2> QED BY <2>2, <2>3, <2>4
<1> QED BY <1>1, <1>4, <1>5, <1>13, <1>14 DEF Accounted

\* A killed worker leaves its completions, and what it did not write is not claimed.
LEMMA WorkerDiesKeepsBooks ==
    ASSUME TypeOK, NEW r \in Ranks, Accounted(r), WorkerDies(r)
    PROVE  Accounted(r)'
<1>1. /\ worker[r].state # "none" /\ worker'[r].state = "dead"
      /\ UNCHANGED <<setup, script, at, pc, calls, cur_item, vote, queue, comp_q>>
  BY RankTypes DEF WorkerDies, WorkerStates, plan, calling
<1>2. PICK d \in 0 .. Len(calls[r]) : Accounts(r, d)
  BY DEF Accounted
<1>3. Held(r)' = Held(r) /\ Staging(r)' = Staging(r)
  BY <1>1 DEF Held, Staging
<1>4. Settled(r, d)' /\ HeldIsFirst(r, d)'
  BY <1>1, <1>2 DEF Accounts, Settled, HeldIsFirst
<1>5. \A n \in Nat : WrittenNext(r, n)' /\ AllCounted(r, n)'
  BY <1>1 DEF WrittenNext, AllCounted
<1>6. \A n \in Nat : CompletedInOrder(r, n) => CompletedInOrder(r, n)'
  BY <1>1, <1>3 DEF CompletedInOrder, Due, Op
<1>7. Accounts(r, d)'
  BY <1>2, <1>3, <1>4, <1>5, <1>6 DEF Accounts
<1>8. InScript(r)' /\ HasCaller(r)' = HasCaller(r)
  BY <1>1 DEF Accounted, InScript, Op, HasCaller
<1>9. QueueIsStaged(r)' /\ WithoutWorker(r)' /\ VoteIsCovered(r)'
  <2>1. QueueIsStaged(r)'
    BY <1>1 DEF Accounted, QueueIsStaged, Op
  <2>2. WithoutWorker(r)'
    BY <1>1, <1>8 DEF Accounted, WithoutWorker
  <2>3. VoteIsCovered(r)'
    BY <1>1 DEF Accounted, VoteIsCovered, First
  <2> QED BY <2>1, <2>2, <2>3
<1> QED BY <1>1, <1>2, <1>7, <1>8, <1>9 DEF Accounted

\* The first call is alive exactly if none is settled, unless it is being finalized.
LEMMA FirstIsDue ==
    ASSUME TypeOK, NEW r \in Ranks, NEW d \in 0 .. Len(calls[r]), Accounts(r, d),
           calls[r] # << >>, pc[r] # "finalize"
    PROVE  First(r) = calls[r][1] /\ (First(r).live <=> d = 0)
<1>1. Len(calls[r]) \in Nat /\ 1 \in 1 .. Len(calls[r]) /\ First(r) = calls[r][1]
  BY SequencesOf DEF First
<1>2. d = 0 => calls[r][1].live
  BY <1>1 DEF Accounts, Settled
<1>3. d # 0 => ~calls[r][1].live
  <2>1. d # 0 => 1 \in 1 .. d
    BY <1>1
  <2> QED BY <2>1 DEF Accounts, Settled
<1> QED BY <1>1, <1>2, <1>3

\* The first call is settled: its completion, if it needs one, goes from the hand.
LEMMA CallIsSettled ==
    ASSUME TypeOK, NEW r \in Ranks, Accounted(r),
           UNCHANGED <<setup, script, worker, queue>>, at'[r] = at[r],
           calls'[r] = calls[r], comp_q'[r] = comp_q[r], calls[r] # << >>,
           cur_item'[r] = IF First(r).live THEN None ELSE cur_item[r],
           First(r).live /\ worker[r].state # "none" => cur_item[r] # None,
           pc[r] \in {"prepare", "reduce"}, pc'[r] = "finalize"
    PROVE  Accounted(r)'
<1>1. PICK d \in 0 .. Len(calls[r]) : Accounts(r, d)
  BY DEF Accounted
<1>2. PICK n \in Nat : /\ n = d + Held(r)
                       /\ CompletedInOrder(r, n) /\ WrittenNext(r, n) /\ AllCounted(r, n)
  BY <1>1 DEF Accounts
<1>3. First(r) = calls[r][1] /\ (First(r).live <=> d = 0)
  BY <1>1, FirstIsDue
<1>4. cur_item[r] # None => d = 0
  BY <1>1 DEF Accounts, HeldIsFirst
<1>5. cur_item'[r] = None /\ Held(r)' = 0
  BY <1>3, <1>4 DEF Held
<1>6. /\ Len(calls[r]) \in Nat /\ Len(calls[r]) # 0
      /\ Staging(r) = 0 /\ Staging(r)' = 0 /\ Busy(r)' = Busy(r)
  BY SequencesOf DEF Staging, Busy
<1>7. \A m \in Nat : AllCounted(r, m) => AllCounted(r, m)'
  BY <1>6 DEF AllCounted
<1>8. DuesKept(r, 0)
  BY <1>6 DEF DuesKept, Due
<1>9. CompletedInOrder(r, n)' /\ WrittenNext(r, n)' /\ AllCounted(r, n)'
  <2>1. /\ Staging(r)' \in Nat /\ Len(calls'[r]) \in Nat
        /\ Len(calls[r]) + Staging(r) <= Len(calls'[r]) + Staging(r)' + 0
    BY <1>6
  <2> QED BY <1>2, <1>7, <1>8, <2>1, OrderKept
<1>10. \E e \in 0 .. Len(calls'[r]) : Accounts(r, e)'
  <2>1. CASE d = 0
    <3>1. Settled(r, 1)' /\ HeldIsFirst(r, 1)'
      BY <1>1, <1>5, <1>6, <2>1 DEF Accounts, Settled, HeldIsFirst
    <3>2. CompletedInOrder(r, 1)' /\ WrittenNext(r, 1)' /\ AllCounted(r, 1)'
      <4>1. CASE worker[r].state # "none"
        <5>1. n = 1
          BY <1>2, <1>3, <2>1, <4>1 DEF Held
        <5> QED BY <1>9, <5>1
      <4>2. CASE worker[r].state = "none"
        <5>1. comp_q[r] = << >>
          BY <4>2 DEF Accounted, WithoutWorker, NothingDue
        <5> QED BY <4>2, <5>1 DEF CompletedInOrder, WrittenNext, AllCounted
      <4> QED BY <4>1, <4>2
    <3>3. 1 = 1 + Held(r)' /\ 1 \in 0 .. Len(calls'[r])
      BY <1>5, <1>6
    <3> QED BY <3>1, <3>2, <3>3 DEF Accounts
  <2>2. CASE d # 0
    <3>1. n = d + Held(r)'
      BY <1>2, <1>4, <1>5, <2>2 DEF Held
    <3>2. Settled(r, d)' /\ HeldIsFirst(r, d)'
      BY <1>1, <1>5, <1>6, <2>2 DEF Accounts, Settled, HeldIsFirst
    <3> QED BY <1>1, <1>9, <3>1, <3>2 DEF Accounts
  <2> QED BY <2>1, <2>2
<1>11. InScript(r)' /\ HasCaller(r)' = HasCaller(r)
  BY DEF Accounted, InScript, Op, HasCaller
<1>12. QueueIsStaged(r)' /\ WithoutWorker(r)' /\ VoteIsCovered(r)'
  BY <1>5, <1>11 DEF Accounted, QueueIsStaged, WithoutWorker, NothingDue, VoteIsCovered
<1> QED BY <1>10, <1>11, <1>12 DEF Accounted

\* The oldest completion is that of the first call: it is taken into the hand, or the
\* call is settled with it.
LEMMA CompletionIsTaken ==
    ASSUME TypeOK, NEW r \in Ranks, Accounted(r),
           UNCHANGED <<setup, script, worker, queue>>, at'[r] = at[r],
           calls'[r] = calls[r], calls[r] # << >>, First(r).live,
           worker[r].state # "none", cur_item[r] = None,
           comp_q[r] # << >>, comp_q'[r] = Tail(comp_q[r]),
           \/ cur_item'[r] = Head(comp_q[r]) /\ pc'[r] = "reduce"
           \/ cur_item'[r] = None /\ pc'[r] = "finalize",
           pc[r] \in {"prepare", "poll"}
    PROVE  Accounted(r)'
<1>1. PICK d \in 0 .. Len(calls[r]) : Accounts(r, d)
  BY DEF Accounted
<1>2. PICK n \in Nat : /\ n = d + Held(r)
                       /\ CompletedInOrder(r, n) /\ WrittenNext(r, n) /\ AllCounted(r, n)
  BY <1>1 DEF Accounts
<1>3. First(r) = calls[r][1] /\ d = 0 /\ n = 0
  BY <1>1, <1>2, FirstIsDue DEF Held
<1>4. /\ comp_q[r] \in Seq(Saves) /\ Len(comp_q[r]) \in Nat \ {0}
      /\ Len(comp_q'[r]) = Len(comp_q[r]) - 1
      /\ \A k \in 1 .. Len(comp_q[r]) - 1 : comp_q'[r][k] = comp_q[r][k + 1]
      /\ Head(comp_q[r]) = comp_q[r][1] /\ Head(comp_q[r]) \in Saves
  BY SequencesOf
<1>5. /\ Len(calls[r]) \in Nat /\ Len(calls[r]) # 0 /\ Len(queue[r]) \in Nat
      /\ Staging(r) = 0 /\ Staging(r)' = 0 /\ Busy(r)' = Busy(r) /\ Busy(r) \in Nat
  BY SequencesOf DEF Staging, Busy
<1>6. Head(comp_q[r]) = calls[r][1].id
  <2>1. 1 \in 1 .. Len(comp_q[r])
    BY <1>4
  <2>2. comp_q[r][1] = Due(r, 1)
    BY <1>2, <1>3, <2>1 DEF CompletedInOrder
  <2> QED BY <1>4, <1>5, <2>2 DEF Due
<1>7. \A k \in Nat : k <= Len(calls[r]) => Due(r, k)' = Due(r, k)
  BY DEF Due
<1>8. CompletedInOrder(r, 1)'
  <2>1. \A k \in 1 .. Len(comp_q'[r]) :
          1 + k <= Len(calls[r]) /\ comp_q'[r][k] = Due(r, 1 + k)'
    <3> TAKE k \in 1 .. Len(comp_q'[r])
    <3>1. k + 1 \in 1 .. Len(comp_q[r]) /\ k \in 1 .. Len(comp_q[r]) - 1
      BY <1>4
    <3>2. 0 + (k + 1) <= Len(calls[r]) + Staging(r) /\ comp_q[r][k + 1] = Due(r, 0 + (k + 1))
      BY <1>2, <1>3, <3>1 DEF CompletedInOrder
    <3>3. 1 + k = k + 1 /\ 0 + (k + 1) = k + 1 /\ k + 1 \in Nat
      BY <3>1
    <3> QED BY <1>4, <1>5, <1>7, <3>1, <3>2, <3>3
  <2> QED BY <1>5, <2>1 DEF CompletedInOrder
<1>9. WrittenNext(r, 1)'
  <2>1. PICK c \in Nat : c = Len(comp_q[r])
    BY <1>4
  <2>2. 0 + c + 1 = c + 1 /\ 1 + (c - 1) + 1 = c + 1 /\ c + 1 \in Nat
    OBVIOUS
  <2>3. ASSUME worker[r].state = "write"
        PROVE  worker[r].id = Due(r, c + 1) /\ c + 1 <= Len(calls[r])
    <3>1. worker[r].id = Due(r, c + 1)
      BY <1>2, <1>3, <2>1, <2>2, <2>3 DEF WrittenNext
    <3>2. PICK q \in Nat : q = Len(queue[r])
      BY <1>5
    <3>3. PICK t \in Nat : t = Len(calls[r])
      BY <1>5
    <3>4. 0 + c + 1 + q = t + 0
      BY <1>2, <1>3, <1>5, <2>1, <2>3, <3>2, <3>3 DEF AllCounted, Busy
    <3>5. c + 1 <= t
      BY <3>4
    <3> QED BY <3>1, <3>3, <3>5
  <2>4. Len(comp_q'[r]) = c - 1
    BY <1>4, <2>1
  <2> QED BY <1>7, <2>2, <2>3, <2>4 DEF WrittenNext
<1>10. AllCounted(r, 1)'
  <2>1. PICK c \in Nat : c = Len(comp_q[r])
    BY <1>4
  <2>2. 0 + c + Busy(r) + Len(queue[r]) = 1 + (c - 1) + Busy(r) + Len(queue[r])
    BY <1>5
  <2>3. Len(comp_q'[r]) = c - 1
    BY <1>4, <2>1
  <2> QED BY <1>2, <1>3, <1>5, <2>1, <2>2, <2>3 DEF AllCounted
<1>11. \E e \in 0 .. Len(calls'[r]) : Accounts(r, e)'
  <2>1. CASE cur_item'[r] = Head(comp_q[r]) /\ pc'[r] = "reduce"
    <3>1. Held(r)' = 1
      BY <1>4, <2>1 DEF Held, None, Saves
    <3>2. Settled(r, 0)' /\ HeldIsFirst(r, 0)'
      BY <1>1, <1>3, <1>6, <2>1 DEF Accounts, Settled, HeldIsFirst
    <3> QED BY <1>5, <1>8, <1>9, <1>10, <3>1, <3>2 DEF Accounts
  <2>2. CASE cur_item'[r] = None /\ pc'[r] = "finalize"
    <3>1. Held(r)' = 0
      BY <2>2 DEF Held
    <3>2. Settled(r, 1)' /\ HeldIsFirst(r, 1)'
      BY <1>1, <1>3, <1>5, <2>2 DEF Accounts, Settled, HeldIsFirst
    <3>3. 1 = 1 + Held(r)' /\ 1 \in 0 .. Len(calls'[r])
      BY <1>5, <3>1
    <3> QED BY <1>8, <1>9, <1>10, <3>2, <3>3 DEF Accounts
  <2> QED BY <2>1, <2>2
<1>12. InScript(r)' /\ HasCaller(r)' = HasCaller(r)
  BY DEF Accounted, InScript, Op, HasCaller
<1>13. QueueIsStaged(r)' /\ WithoutWorker(r)' /\ VoteIsCovered(r)'
  <2>1. QueueIsStaged(r)' /\ WithoutWorker(r)'
    BY <1>12 DEF Accounted, QueueIsStaged, WithoutWorker
  <2>2. VoteIsCovered(r)'
    BY <1>4 DEF VoteIsCovered, None, Saves
  <2> QED BY <2>1, <2>2
<1> QED BY <1>11, <1>12, <1>13 DEF Accounted

\* A poll takes a completion, keeps the one it has, or finds none.
LEMMA PollKeepsBooks ==
    ASSUME TypeOK, NEW r \in Ranks, Accounted(r), Poll(r)
    PROVE  Accounted(r)'
<1> DEFINE waits == First(r).live /\ worker[r].state # "none"
                      /\ cur_item[r] = None /\ comp_q[r] = << >>
           takes == First(r).live /\ worker[r].state # "none"
                      /\ cur_item[r] = None /\ comp_q[r] # << >>
           item  == IF takes THEN Head(comp_q[r]) ELSE cur_item[r]
<1>1. /\ calls[r] # << >> /\ pc[r] \in {"poll", "prepare"}
      /\ ~(waits /\ Blocking(r))
      /\ UNCHANGED <<setup, script, at, calls, worker, queue>>
      /\ comp_q'[r] = IF takes THEN Tail(comp_q[r]) ELSE comp_q[r]
  BY RankTypes DEF Poll, Polling, plan
<1>2. CASE pc[r] = "prepare"
  <2>1. /\ cur_item'[r] = IF First(r).live THEN None ELSE item
        /\ pc'[r] = "finalize" /\ vote' = vote
    BY <1>2, RankTypes DEF Poll, NoDist, Goto
  <2>2. ~waits
    BY <1>1, <1>2 DEF Accounted, InScript, Blocking
  <2>3. CASE takes
    BY <1>1, <1>2, <2>1, <2>3, CompletionIsTaken
  <2>4. CASE ~takes
    <3>1. /\ comp_q'[r] = comp_q[r]
          /\ cur_item'[r] = IF First(r).live THEN None ELSE cur_item[r]
          /\ First(r).live /\ worker[r].state # "none" => cur_item[r] # None
      BY <1>1, <2>1, <2>2, <2>4
    <3> QED BY <1>1, <1>2, <2>1, <3>1, CallIsSettled
  <2> QED BY <2>3, <2>4
<1>3. CASE pc[r] = "poll"
  <2>1. /\ cur_item'[r] = item
        /\ pc'[r] = "reduce" /\ vote'[r].ok = ~waits
    BY <1>3, RankTypes DEF Poll, NoDist, Goto
  <2>2. CASE takes
    BY <1>1, <1>3, <2>1, <2>2, CompletionIsTaken
  <2>3. CASE ~takes
    <3>1. comp_q'[r] = comp_q[r] /\ cur_item'[r] = cur_item[r]
      BY <1>1, <2>1, <2>3
    <3>2. vote'[r].ok /\ First(r).live /\ worker[r].state # "none" => cur_item[r] # None
      BY <2>1, <2>3
    <3>3. VoteIsCovered(r)'
      BY <1>1, <3>1, <3>2 DEF VoteIsCovered, First
    <3>4. InScript(r)' /\ HasCaller(r)' = HasCaller(r)
      BY <1>1, <1>3, <2>1 DEF Accounted, InScript, Op, HasCaller
    <3> QED BY <1>1, <1>3, <2>1, <3>1, <3>3, <3>4, SameBooks
  <2> QED BY <2>2, <2>3
<1> QED BY <1>1, <1>2, <1>3

\* The all_reduce settles the first call of every rank, or of none.
LEMMA ReduceKeepsBooks ==
    ASSUME TypeOK, AccountInv, AllReduce
    PROVE  AccountInv'
<1> SUFFICES ASSUME NEW r \in Ranks PROVE Accounted(r)'
  BY DEF AccountInv
<1>1. /\ Accounted(r) /\ pc[r] = "reduce"
      /\ UNCHANGED <<setup, script, calls, worker, queue, comp_q>>
  BY DEF AccountInv, AllReduce, Reduce, plan, writing
<1>2. calls[r] # << >>
  BY <1>1 DEF Accounted, VoteIsCovered
<1>3. CASE AllDone
  <2>1. /\ cur_item'[r] = IF First(r).live THEN None ELSE cur_item[r]
        /\ pc'[r] = "finalize" /\ at'[r] = at[r]
    BY <1>3 DEF AllReduce, Reduce, Dropped
  <2>2. First(r).live /\ worker[r].state # "none" => cur_item[r] # None
    BY <1>1, <1>3 DEF AllDone, Accounted, VoteIsCovered
  <2> QED BY <1>1, <1>2, <2>1, <2>2, CallIsSettled
<1>4. CASE ~AllDone
  <2>1. cur_item'[r] = cur_item[r] /\ pc'[r] = "train" /\ at'[r] = at[r] + 1
    BY <1>4 DEF AllReduce, Reduce
  <2>2. at[r] \in Nat \ {0} /\ Len(script) \in Nat /\ at[r] <= Len(script)
    BY <1>1, RankTypes DEF TypeOK, Accounted, InScript
  <2>3. InScript(r)'
    BY <1>1, <2>1, <2>2 DEF Accounted, InScript
  <2>4. HasCaller(r) => HasCaller(r)'
    BY <1>1, <2>1, <2>2 DEF HasCaller
  <2>5. VoteIsCovered(r)'
    BY <2>1 DEF VoteIsCovered
  <2> QED BY <1>1, <2>1, <2>3, <2>4, <2>5, SameBooks
<1> QED BY <1>3, <1>4

\* The settled call leaves the queue, and the others move up.
LEMMA FinalizeKeepsBooks ==
    ASSUME TypeOK, NEW r \in Ranks, Accounted(r), Finalize(r)
    PROVE  Accounted(r)'
<1>1. /\ pc[r] = "finalize" /\ calls[r] # << >> /\ pc'[r] = "gather"
      /\ UNCHANGED <<setup, script, at, cur_item, worker, queue, comp_q>>
      /\ calls'[r] = Tail(calls[r])
  <2>1. pc[r] = "finalize" /\ pc'[r] = "gather" /\ calls'[r] = Tail(calls[r])
    BY RankTypes DEF Finalize, Goto
  <2> QED BY <2>1 DEF Accounted, VoteIsCovered, Finalize, plan
<1>2. /\ calls[r] \in Seq(Calls) /\ Len(calls[r]) \in Nat \ {0} /\ First(r) \in Calls
      /\ Len(calls'[r]) = Len(calls[r]) - 1
      /\ \A k \in 1 .. Len(calls[r]) - 1 : calls'[r][k] = calls[r][k + 1]
      /\ DOMAIN calls'[r] = 1 .. Len(calls[r]) - 1
  BY <1>1, SequencesOf DEF First
<1>3. PICK d \in 0 .. Len(calls[r]) : Accounts(r, d)
  BY DEF Accounted
<1>4. PICK n \in Nat : /\ n = d + Held(r)
                       /\ CompletedInOrder(r, n) /\ WrittenNext(r, n) /\ AllCounted(r, n)
  BY <1>3 DEF Accounts
<1>5. d >= 1 /\ cur_item[r] = None /\ n = d /\ Held(r)' = 0
  <2>1. d >= 1
    BY <1>1, <1>3 DEF Accounts, Settled
  <2>2. cur_item[r] = None
    BY <1>3, <2>1 DEF Accounts, HeldIsFirst
  <2> QED BY <1>1, <1>4, <2>1, <2>2 DEF Held
<1>6. PICK m \in Nat : n = m + 1 /\ m = d - 1
  BY <1>5
<1>7. Staging(r) = 0 /\ Staging(r)' = 0 /\ Busy(r)' = Busy(r)
  BY <1>1 DEF Staging, Busy
<1>8. DuesKept(r, 1)
  <2> SUFFICES ASSUME NEW k \in Nat, k >= 1, k + 1 <= Len(calls[r])
               PROVE  Due(r, k)' = Due(r, k + 1)
    BY <1>7 DEF DuesKept
  <2>1. k \in 1 .. Len(calls[r]) - 1 /\ k <= Len(calls'[r])
    BY <1>2
  <2> QED BY <1>2, <2>1 DEF Due
<1>9. CompletedInOrder(r, m)' /\ WrittenNext(r, m)'
  <2>1. /\ Staging(r)' \in Nat /\ Len(calls'[r]) \in Nat
        /\ Len(calls[r]) + Staging(r) <= Len(calls'[r]) + Staging(r)' + 1
    BY <1>2, <1>7
  <2> QED BY <1>1, <1>4, <1>6, <1>8, <2>1, OrderKept
<1>10. AllCounted(r, m)'
  <2>1. PICK c \in Nat : c = Len(comp_q[r])
    BY SequencesOf
  <2>2. PICK q \in Nat : q = Len(queue[r])
    BY SequencesOf
  <2>3. PICK b \in Nat : b = Busy(r)
    BY SequencesOf
  <2>4. n + c + b + q = (m + c + b + q) + 1
    BY <1>6
  <2>5. worker[r].state \in {"idle", "write"} => n + c + b + q = Len(calls[r]) + 0
    BY <1>4, <1>7, <2>1, <2>2, <2>3 DEF AllCounted
  <2>6. worker[r].state \in {"idle", "write"} => m + c + b + q = Len(calls'[r]) + 0
    <3>1. PICK t \in Nat : t = m + c + b + q
      OBVIOUS
    <3>2. worker[r].state \in {"idle", "write"} => t + 1 = Len(calls[r])
      BY <1>2, <2>4, <2>5, <3>1
    <3>3. worker[r].state \in {"idle", "write"} => t = Len(calls'[r]) + 0
      BY <1>2, <3>2
    <3> QED BY <3>1, <3>3
  <2> QED BY <1>1, <1>7, <2>1, <2>2, <2>3, <2>6 DEF AllCounted
<1>11. Settled(r, m)'
  <2>1. \A i \in 1 .. m : ~calls'[r][i].live
    <3> TAKE i \in 1 .. m
    <3>1. i + 1 \in 1 .. d /\ i + 1 # 1 /\ i \in 1 .. Len(calls[r]) - 1
      BY <1>2, <1>5, <1>6
    <3>2. ~calls[r][i + 1].live
      BY <1>3, <3>1 DEF Accounts, Settled
    <3> QED BY <1>2, <3>1, <3>2
  <2>2. \A i \in m + 1 .. Len(calls'[r]) : calls'[r][i].live
    <3> TAKE i \in m + 1 .. Len(calls'[r])
    <3>1. i + 1 \in d + 1 .. Len(calls[r]) /\ i \in 1 .. Len(calls[r]) - 1
      BY <1>2, <1>5, <1>6
    <3>2. calls[r][i + 1].live
      BY <1>3, <3>1 DEF Accounts, Settled
    <3> QED BY <1>2, <3>1, <3>2
  <2> QED BY <1>1, <2>1, <2>2 DEF Settled
<1>12. HeldIsFirst(r, m)'
  BY <1>1, <1>5 DEF HeldIsFirst
<1>13. Accounts(r, m)' /\ m \in 0 .. Len(calls'[r])
  <2>1. m = m + Held(r)' /\ m \in 0 .. Len(calls'[r])
    BY <1>2, <1>5, <1>6
  <2> QED BY <1>9, <1>10, <1>11, <1>12, <2>1 DEF Accounts
<1>14. HasCaller(r)' = HasCaller(r)
  BY <1>1 DEF HasCaller
<1>15. InScript(r)'
  <2>1. vote'[r].id = First(r).id
    BY RankTypes DEF Finalize
  <2> QED BY <1>1, <1>2, <2>1 DEF Accounted, InScript, Calls, None, Saves
<1>16. WithoutWorker(r)'
  <2>1. ASSUME NEW i \in DOMAIN calls'[r], calls'[r][i].live
        PROVE  \E j \in DOMAIN calls[r] : calls[r][j].live
    <3>1. i + 1 \in DOMAIN calls[r] /\ calls'[r][i] = calls[r][i + 1]
      BY <1>2, <2>1
    <3> QED BY <2>1, <3>1
  <2>2. NothingDue(r) => NothingDue(r)'
    BY <1>1, <2>1 DEF NothingDue
  <2> QED BY <1>1, <1>14, <2>1, <2>2 DEF Accounted, WithoutWorker
<1>17. QueueIsStaged(r)' /\ VoteIsCovered(r)'
  BY <1>1 DEF Accounted, QueueIsStaged, VoteIsCovered
<1> QED BY <1>13, <1>15, <1>16, <1>17 DEF Accounted

\* The gather moves no request.
LEMMA GatherKeepsBooks ==
    ASSUME TypeOK, AccountInv, Gather
    PROVE  AccountInv'
<1> SUFFICES ASSUME NEW r \in Ranks PROVE Accounted(r)'
  BY DEF AccountInv
<1>1. /\ Accounted(r) /\ pc[r] = "gather"
      /\ UNCHANGED <<setup, script, calls, cur_item, worker, queue, comp_q>>
  BY DEF AccountInv, Gather, plan, writing
<1>2. /\ pc'[r] \in {"prepare", "train", "poll"}
      /\ pc'[r] = "prepare" => Op(r).kind = "save"
      /\ at'[r] = IF pc'[r] = "train" THEN at[r] + 1 ELSE at[r]
  BY DEF Gather
<1>3. at[r] \in Nat \ {0} /\ Len(script) \in Nat /\ at[r] <= Len(script)
  BY <1>1, RankTypes DEF TypeOK, Accounted, InScript
<1>4. InScript(r)'
  BY <1>1, <1>2, <1>3 DEF Accounted, InScript, Op
<1>5. HasCaller(r) => HasCaller(r)'
  BY <1>1, <1>2, <1>3 DEF HasCaller
<1>6. VoteIsCovered(r)'
  BY <1>2 DEF VoteIsCovered
<1> QED BY <1>1, <1>2, <1>4, <1>5, <1>6, SameBooks

\* A poll that returns moves no request.
LEMMA ReturnFromPollKeepsBooks ==
    ASSUME TypeOK, NEW r \in Ranks, Accounted(r), ReturnFromPoll(r)
    PROVE  Accounted(r)'
<1>1. /\ pc[r] = "poll" /\ pc'[r] = "train" /\ at'[r] = at[r] + 1
      /\ UNCHANGED <<setup, script, calls, cur_item, worker, queue, comp_q>>
  <2>1. pc[r] = "poll" /\ pc'[r] = "train" /\ at'[r] = at[r] + 1
    BY RankTypes DEF ReturnFromPoll, Done, Goto
  <2> QED BY <2>1 DEF ReturnFromPoll, plan, calling, writing
<1>2. at[r] \in Nat \ {0} /\ Len(script) \in Nat /\ at[r] <= Len(script)
  BY <1>1, RankTypes DEF TypeOK, Accounted, InScript
<1>3. InScript(r)'
  BY <1>1, <1>2 DEF Accounted, InScript
<1>4. HasCaller(r) => HasCaller(r)'
  BY <1>1, <1>2 DEF HasCaller
<1>5. VoteIsCovered(r)'
  BY <1>1 DEF VoteIsCovered
<1> QED BY <1>1, <1>3, <1>4, <1>5, SameBooks

\* close finds no live call, so that nothing is lost with the worker.
LEMMA CloseKeepsBooks ==
    ASSUME TypeOK, NEW r \in Ranks, Accounted(r), Close(r)
    PROVE  Accounted(r)'
<1>1. /\ pc[r] = "poll" /\ pc'[r] = "train" /\ at'[r] = at[r] + 1
      /\ worker'[r] = NoWorker /\ cur_item'[r] = None /\ comp_q'[r] = << >>
      /\ queue'[r] = << >>
      /\ HasCaller(r) => calls[r] = << >>
      /\ UNCHANGED <<setup, script, calls, vote>>
  <2>1. pc[r] = "poll" /\ pc'[r] = "train" /\ at'[r] = at[r] + 1
    BY RankTypes DEF Close, Done, Goto
  <2>2. worker'[r] = NoWorker /\ cur_item'[r] = None /\ comp_q'[r] = << >>
    BY RankTypes DEF Close
  <2> QED BY <2>1, <2>2 DEF Close, plan
<1>2. \A i \in DOMAIN calls[r] : ~calls[r][i].live
  <2>1. CASE HasCaller(r)
    <3>1. DOMAIN calls[r] = {}
      BY <1>1, <2>1
    <3> QED BY <3>1
  <2>2. CASE ~HasCaller(r)
    BY <2>2 DEF Accounted, WithoutWorker
  <2> QED BY <2>1, <2>2
<1>3. at[r] \in Nat \ {0} /\ Len(script) \in Nat /\ at[r] <= Len(script)
  BY <1>1, RankTypes DEF TypeOK, Accounted, InScript
<1>4. worker'[r].state = "none"
  BY <1>1 DEF NoWorker, Spawned
<1>5. InScript(r)'
  BY <1>1, <1>3, <1>4 DEF Accounted, InScript
<1>6. NothingDue(r)'
  BY <1>1, <1>2 DEF NothingDue
<1>7. TypeOK'
  BY PollKeepsTypes
<1> QED BY <1>1, <1>2, <1>4, <1>5, <1>6, <1>7, NothingOwed

\* An abort ends the life of every call.
LEMMA AbortKeepsBooks ==
    ASSUME TypeOK, NEW r \in Ranks, Accounted(r), Abort(r)
    PROVE  Accounted(r)'
<1>1. /\ pc'[r] = "aborted" /\ worker'[r] = NoWorker /\ cur_item'[r] = None
      /\ comp_q'[r] = << >> /\ queue'[r] = << >>
      /\ UNCHANGED <<setup, script, at, vote>>
  <2>1. pc'[r] = "aborted" /\ worker'[r] = NoWorker /\ cur_item'[r] = None
    BY RankTypes DEF Abort, Goto
  <2>2. comp_q'[r] = << >> /\ queue'[r] = << >>
    BY RankTypes DEF Abort
  <2> QED BY <2>1, <2>2 DEF Abort, plan
<1>2. \A i \in DOMAIN calls'[r] : ~calls'[r][i].live
  <2> DEFINE cancelled == [i \in DOMAIN calls[r] |-> [calls[r][i] EXCEPT !.live = FALSE]]
  <2>1. calls'[r] = cancelled
    BY RankTypes DEF Abort
  <2>2. \A i \in DOMAIN cancelled : ~cancelled[i].live
    <3> TAKE i \in DOMAIN cancelled
    <3>1. calls[r][i] \in Calls
      BY RankTypes
    <3> QED BY <3>1 DEF Calls
  <2> HIDE DEF cancelled
  <2> QED BY <2>1, <2>2
<1>3. worker'[r].state = "none"
  BY <1>1 DEF NoWorker, Spawned
<1>4. InScript(r)'
  BY <1>1, <1>3 DEF Accounted, InScript
<1>5. NothingDue(r)'
  BY <1>1, <1>2 DEF NothingDue
<1>6. TypeOK'
  BY RestartKeepsTypes DEF Restart
<1> QED BY <1>1, <1>2, <1>3, <1>4, <1>5, <1>6, NothingOwed

\* The new start finds dead calls only.
LEMMA EndRestartKeepsBooks ==
    ASSUME TypeOK, AccountInv, EndRestart
    PROVE  AccountInv'
<1> SUFFICES ASSUME NEW r \in Ranks PROVE Accounted(r)'
  BY DEF AccountInv
<1>1. /\ Accounted(r) /\ pc[r] = "aborted" /\ pc'[r] = "train"
      /\ calls'[r] = calls[r] \/ calls'[r] = << >>
      /\ script' = << >> /\ at'[r] = 1
      /\ UNCHANGED <<setup, cur_item, worker, queue, comp_q>>
  <2>1. pc[r] = "aborted" /\ pc'[r] = "train" /\ at'[r] = 1
    BY DEF EndRestart
  <2>2. calls'[r] = calls[r] \/ calls'[r] = << >>
    BY DEF EndRestart
  <2> QED BY <2>1, <2>2 DEF AccountInv, EndRestart, writing
<1>2. worker[r].state = "none" /\ NothingDue(r)
  BY <1>1 DEF Accounted, WithoutWorker
<1>3. \A i \in DOMAIN calls'[r] : ~calls'[r][i].live
  BY <1>1, <1>2 DEF NothingDue
<1>4. InScript(r)' /\ NothingDue(r)'
  BY <1>1, <1>2, <1>3 DEF InScript, NothingDue
<1>5. TypeOK'
  BY RestartKeepsTypes DEF Restart
<1> QED BY <1>1, <1>2, <1>3, <1>4, <1>5, NothingOwed

-----------------------------------------------------------------------------
(* All steps.                                                                 *)

\* Types are kept by every step.
LEMMA StepsKeepTypes ==
    ASSUME TypeOK, AccountInv, [Next]_vars
    PROVE  TypeOK'
<1>1. \A r \in Ranks : InScript(r) /\ VoteIsCovered(r)
  BY DEF AccountInv, Accounted
<1>2. ASSUME NEW r \in Ranks, Trainer(r) PROVE TypeOK'
  <2>1. CASE BeginSave(r) \/ BeginPoll(r)
    BY <2>1, BeginKeepsTypes
  <2>2. CASE PrepareWriteData(r) \/ ScheduleNothing(r)
             \/ ScheduleAsyncCall(r) \/ ReturnFromStaging(r)
    <3>1. at[r] <= Len(script) /\ Op(r).kind = "save"
      BY <1>1, <2>2
      DEF InScript, PrepareWriteData, ScheduleNothing, ScheduleAsyncCall, ReturnFromStaging
    <3> QED BY <2>2, <3>1, SaveKeepsTypes
  <2>3. CASE Poll(r) \/ ReturnFromPoll(r) \/ Close(r)
    BY <2>3, PollKeepsTypes
  <2>4. CASE Finalize(r)
    BY <1>1, <2>4, FinalizeKeepsTypes
  <2> QED BY <1>2, <2>1, <2>2, <2>3, <2>4 DEF Trainer
<1>3. ASSUME NEW r \in Ranks, Worker(r) \/ WorkerDies(r) PROVE TypeOK'
  BY <1>1, <1>3, WorkerKeepsTypes
<1>4. CASE AllReduce \/ Gather
  BY <1>1, <1>4, CollectivesKeepTypes
<1>5. CASE Restart
  BY <1>5, RestartKeepsTypes
<1>6. CASE UNCHANGED vars
  BY <1>6 DEF vars, TypeOK, plan, calling, staging, writing, outcome, faults
<1> QED BY <1>2, <1>3, <1>4, <1>5, <1>6 DEF Next

\* The accounts are kept by every step.
LEMMA StepsKeepBooks ==
    ASSUME TypeOK, AccountInv, [Next]_vars
    PROVE  AccountInv'
<1>1. ASSUME NEW r \in Ranks, Trainer(r) \/ Worker(r) \/ WorkerDies(r) \/ Abort(r)
      PROVE  AccountInv'
  <2>1. Accounted(r)
    BY DEF AccountInv
  <2>2. Accounted(r)'
    <3>1. CASE Trainer(r)
      BY <2>1, <3>1, BeginKeepsBooks, PrepareKeepsBooks, ScheduleNothingKeepsBooks,
         ScheduleKeepsBooks, ReturnFromStagingKeepsBooks, PollKeepsBooks,
         FinalizeKeepsBooks, ReturnFromPollKeepsBooks, CloseKeepsBooks DEF Trainer
    <3>2. CASE Worker(r) \/ WorkerDies(r)
      BY <2>1, <3>2, WorkerStageKeepsBooks, WorkerWriteKeepsBooks, WorkerDiesKeepsBooks
      DEF Worker
    <3>3. CASE Abort(r)
      BY <2>1, <3>3, AbortKeepsBooks
    <3> QED BY <1>1, <3>1, <3>2, <3>3
  <2>3. \A q \in Ranks : q # r => Accounted(q)'
    BY <1>1, OthersUntouched, Bystander DEF AccountInv
  <2> QED BY <2>2, <2>3 DEF AccountInv
<1>2. CASE AllReduce \/ Gather
  BY <1>2, ReduceKeepsBooks, GatherKeepsBooks
<1>3. CASE EndRestart
  BY <1>3, EndRestartKeepsBooks
<1>4. CASE BeginRestart \/ UNCHANGED vars
  <2>1. \A q \in Ranks : Untouched(q)
    BY <1>4 DEF BeginRestart, Untouched, vars, plan, calling, writing
  <2> QED BY <2>1, Bystander DEF AccountInv
<1> QED BY <1>1, <1>2, <1>3, <1>4 DEF Next, Restart

\* At the start nothing is due.
LEMMA BooksInit == Init => AccountInv
<1> SUFFICES ASSUME Init, NEW r \in Ranks PROVE Accounted(r)
  BY DEF AccountInv
<1>1. /\ calls[r] = << >> /\ comp_q[r] = << >> /\ queue[r] = << >> /\ cur_item[r] = None
      /\ pc[r] = "train" /\ at[r] = 1 /\ script = << >>
  BY DEF Init
<1>2. worker[r].state = "none"
  BY DEF Init, NoWorker, Spawned
<1>3. InScript(r) /\ NothingDue(r)
  BY <1>1, <1>2 DEF InScript, NothingDue
<1>4. Accounts(r, 0)
  BY <1>1, <1>2
  DEF Accounts, Settled, HeldIsFirst, CompletedInOrder, WrittenNext, AllCounted, Held
<1>5. QueueIsStaged(r) /\ WithoutWorker(r) /\ VoteIsCovered(r)
  BY <1>1, <1>2, <1>3 DEF QueueIsStaged, WithoutWorker, VoteIsCovered
<1> QED BY <1>1, <1>3, <1>4, <1>5 DEF Accounted

\* The completion in the hand is that of the first call.
LEMMA CreditFollows ==
    ASSUME TypeOK, AccountInv
    PROVE  CreditIsForTheHead
<1> SUFFICES ASSUME NEW r \in Ranks, cur_item[r] # None
             PROVE  \E i \in DOMAIN calls[r] :
                       /\ calls[r][i] = [id |-> cur_item[r], live |-> TRUE]
                       /\ \A j \in 1 .. i - 1 : ~calls[r][j].live
  BY DEF CreditIsForTheHead
<1>1. PICK d \in 0 .. Len(calls[r]) : Accounts(r, d)
  BY DEF AccountInv, Accounted
<1>2. d = 0 /\ calls[r] # << >> /\ cur_item[r] = calls[r][1].id
  BY <1>1 DEF Accounts, HeldIsFirst
<1>3. /\ 1 \in DOMAIN calls[r] /\ calls[r][1] \in Calls
      /\ 1 \in d + 1 .. Len(calls[r])
  BY <1>2, SequencesOf
<1>4. calls[r][1].live
  BY <1>1, <1>3 DEF Accounts, Settled
<1>5. calls[r][1] = [id |-> cur_item[r], live |-> TRUE]
  BY <1>2, <1>3, <1>4 DEF Calls
<1> QED BY <1>3, <1>5

\* Types and accounts always hold.
LEMMA BooksInductive == Spec => [](TypeOK /\ AccountInv)
<1>1. Init => TypeOK /\ AccountInv
  BY TypesInit, BooksInit
<1>2. TypeOK /\ AccountInv /\ [Next]_vars => (TypeOK /\ AccountInv)'
  BY StepsKeepTypes, StepsKeepBooks
<1> QED BY <1>1, <1>2, PTL DEF Spec

(* Every variable of a checkpoint keeps the type it has in the code; that     *)
(* finalize finds a call to take, and a write the save it is of, needs the    *)
(* accounts of the requests.                                                  *)
THEOREM Typing == Spec => []TypeOK
BY BooksInductive, PTL

(* A completion that a rank holds while others still write is that of the     *)
(* call at the head of its queue (is_current_async_call_done), whatever was   *)
(* aborted, closed or killed in between.                                      *)
THEOREM CompletionsAreInOrder == Spec => []CreditIsForTheHead
<1>1. TypeOK /\ AccountInv => CreditIsForTheHead
  BY CreditFollows
<1> QED BY <1>1, BooksInductive, PTL

-----------------------------------------------------------------------------
(* The handles of the tensors.                                                *)

\* Requests wait for the worker only while their trainer waits for staging.
LEMMA QueueOutsideStaging ==
    ASSUME NEW r \in Ranks, Accounted(r), pc[r] # "staging"
    PROVE  queue[r] = << >>
BY DEF Accounted, QueueIsStaged

\* The handles of another rank.
LEMMA BystanderHandles ==
    ASSUME TypeOK, NEW q \in Ranks, Accounted(q), HandlesAgree(q), Untouched(q),
           home'[q] = home[q], writer'[q] = writer[q], buffer'[q] = buffer[q],
           data'[q] = data[q], drain'[q] = drain[q]
    PROVE  HandlesAgree(q)'
<1>1. pc[q] = "schedule" \/ queue[q] # << >> => Op(q)' = Op(q)
  <2>1. pc[q] = "schedule" \/ queue[q] # << >> => at[q] <= Len(script)
    BY DEF Accounted, InScript, QueueIsStaged
  <2> QED BY <2>1, BystanderInScript DEF Accounted
<1> QED BY <1>1 DEF HandlesAgree, Untouched

\* A step outside schedule and staging that leaves the handles where they are; the
\* data may have to be sent again.
LEMMA SameHandles ==
    ASSUME NEW r \in Ranks, HandlesAgree(r), setup' = setup,
           home'[r] = home[r], buffer'[r] = buffer[r], drain'[r] = drain[r],
           writer'[r].alloc = writer[r].alloc,
           writer'[r].sent => writer'[r] = writer[r],
           worker'[r].cache = worker[r].cache,
           worker'[r].state = "write" => worker'[r] = worker[r],
           worker'[r].state = "none" => worker[r].state = "none",
           pc[r] # "schedule", pc'[r] # "schedule", queue[r] = << >>, queue'[r] = << >>
    PROVE  HandlesAgree(r)'
BY DEF HandlesAgree

\* Data is left out only if the worker holds it, and memory is reused only after the drain.
LEMMA PrepareKeepsHandles ==
    ASSUME TypeOK, NEW r \in Ranks, Accounted(r), HandlesAgree(r), PrepareWriteData(r)
    PROVE  HandlesAgree(r)'
<1>1. /\ pc[r] = "prepare" /\ r \in setup.holders /\ pc'[r] = "schedule"
      /\ MustDrain(r) => calls[r] = << >>
      /\ UNCHANGED <<setup, script, at, drain, worker, queue>>
  BY RankTypes DEF PrepareWriteData, Goto, plan, writing
<1>2. PICK h \in Homes :
        /\ setup.shm => (writer[r].alloc <=> h = home[r])
        /\ home'[r] = h
        /\ data'[r] = IF writer[r].sent /\ (setup.shm \/ writer[r].ptr = h) THEN None ELSE h
        /\ writer'[r] = [sent |-> TRUE, ptr |-> IF setup.shm THEN None ELSE h,
                         alloc |-> setup.shm]
        /\ buffer'[r] = [buffer[r] EXCEPT ![h] = IF setup.shm THEN Op(r).id ELSE buffer[r][h]]
  <2>1. PICK h \in Homes : Prepare(r)!(h)
    BY DEF PrepareWriteData, Prepare
  <2> QED BY <2>1 DEF TypeOK
<1>3. queue[r] = << >> /\ Op(r)' = Op(r) /\ buffer[r] \in [Homes -> {None} \cup Saves]
  BY <1>1, QueueOutsideStaging DEF Op, TypeOK
<1>4. data'[r] = None => worker[r].cache \in {None, home'[r]}
  BY <1>1, <1>2, <1>3 DEF HandlesAgree, Homes, None
<1>5. worker[r].state = "write" /\ setup.shm /\ drain[r] =>
        buffer'[r][worker[r].cache] = worker[r].id
  <2> SUFFICES ASSUME worker[r].state = "write", setup.shm, drain[r]
               PROVE  buffer'[r][worker[r].cache] = worker[r].id
    OBVIOUS
  <2>1. ~writer[r].alloc
    <3> SUFFICES ASSUME writer[r].alloc PROVE FALSE
      OBVIOUS
    <3>1. Len(calls[r]) = 0
      BY <1>1 DEF MustDrain
    <3>2. PICK d \in 0 .. Len(calls[r]) : Accounts(r, d)
      BY DEF Accounted
    <3>3. PICK n \in Nat : AllCounted(r, n)
      BY <3>2 DEF Accounts
    <3>4. PICK c \in Nat : c = Len(comp_q[r])
      BY SequencesOf
    <3>5. n + c + 1 + 0 = 0 + 0
      BY <1>1, <1>3, <3>1, <3>3, <3>4 DEF AllCounted, Busy, Staging
    <3> QED BY <3>5
  <2>2. /\ buffer[r][worker[r].cache] = worker[r].id /\ worker[r].cache = home[r]
        /\ home[r] \in Homes
    BY <2>1, RankTypes DEF HandlesAgree
  <2>3. worker[r].cache # h
    BY <1>2, <2>1, <2>2
  <2> QED BY <1>2, <1>3, <2>2, <2>3
<1>6. setup.shm => buffer'[r][home'[r]] = Op(r).id
  BY <1>2, <1>3
<1> QED BY <1>1, <1>2, <1>3, <1>4, <1>5, <1>6 DEF HandlesAgree

\* The request carries the handle, or the worker has it.
LEMMA ScheduleKeepsHandles ==
    ASSUME TypeOK, NEW r \in Ranks, Accounted(r), HandlesAgree(r), ScheduleAsyncCall(r)
    PROVE  HandlesAgree(r)'
<1> DEFINE item == [id |-> Op(r).id, data |-> data[r]]
<1>1. /\ pc[r] = "schedule" /\ pc'[r] = "staging"
      /\ UNCHANGED <<setup, script, at, drain, home, buffer, data>>
      /\ queue'[r] = Append(queue[r], item)
      /\ worker'[r] = IF worker[r].state = "none" THEN Spawned ELSE worker[r]
      /\ writer'[r] = IF worker[r].state = "none" THEN NoCache ELSE writer[r]
  <2>1. pc[r] = "schedule" /\ pc'[r] = "staging" /\ queue'[r] = Append(queue[r], item)
    BY RankTypes DEF ScheduleAsyncCall, Goto
  <2>2. /\ worker'[r] = IF worker[r].state = "none" THEN Spawned ELSE worker[r]
        /\ writer'[r] = IF worker[r].state = "none" THEN NoCache ELSE writer[r]
    BY RankTypes DEF ScheduleAsyncCall
  <2> QED BY <2>1, <2>2 DEF ScheduleAsyncCall, plan
<1>2. queue[r] = << >> /\ Op(r)' = Op(r)
  BY <1>1, QueueOutsideStaging DEF Op
<1>3. queue'[r] = <<item>>
  BY <1>1, <1>2
<1>4. queue'[r] # << >> /\ queue'[r][1] = item
  BY <1>3
<1>5. item.id = Op(r).id /\ item.data = data[r]
  OBVIOUS
<1> HIDE DEF item
<1> QED BY <1>1, <1>2, <1>4, <1>5 DEF HandlesAgree, Spawned, NoCache

\* The worker reads through the handle of this save.
LEMMA WorkerStageKeepsHandles ==
    ASSUME TypeOK, NEW r \in Ranks, Accounted(r), HandlesAgree(r), WorkerStage(r)
    PROVE  HandlesAgree(r)'
<1> DEFINE item == queue[r][1]
           held == IF item.data # None THEN item.data ELSE worker[r].cache
<1>1. /\ worker[r].state = "idle" /\ queue[r] # << >>
      /\ UNCHANGED <<setup, script, at, pc, home, writer, buffer, data, drain>>
  BY DEF WorkerStage, plan, staging
<1>2. pc[r] = "staging" /\ Len(queue[r]) = 1 /\ item.id = Op(r).id
  BY <1>1 DEF Accounted, QueueIsStaged
<1>3. Head(queue[r]) = item /\ Tail(queue[r]) = << >>
  BY <1>2, SequencesOf, OnlyElement
<1>4. Op(r) = Save(item.id)
  BY <1>2, OpType, OperationTypes DEF Accounted, InScript
<1>5. /\ queue'[r] = << >>
      /\ worker'[r] = [state |-> IF held = None THEN "missed" ELSE "write",
                       cache |-> held, id |-> item.id,
                       good  |-> held = home[r] /\ pc[r] = "staging" /\ Op(r) = Save(item.id)]
  BY <1>3, RankTypes DEF WorkerStage
<1>6. setup.shm => buffer[r][home[r]] = item.id
  BY <1>1, <1>2 DEF HandlesAgree
<1>7. held \in {None, home[r]}
  BY <1>1 DEF HandlesAgree
<1>8. /\ worker'[r].cache = held /\ worker'[r].id = item.id
      /\ worker'[r].state = IF held = None THEN "missed" ELSE "write"
      /\ held = home[r] => worker'[r].good
  <2> DEFINE good == held = home[r] /\ pc[r] = "staging" /\ Op(r) = Save(item.id)
  <2>1. held = home[r] => good
    BY <1>2, <1>4
  <2>2. /\ worker'[r].cache = held /\ worker'[r].id = item.id
        /\ worker'[r].state = IF held = None THEN "missed" ELSE "write"
        /\ worker'[r].good = good
    <3> HIDE DEF good, held, item
    <3> QED BY <1>5 DEF good
  <2> HIDE DEF good
  <2> QED BY <2>1, <2>2
<1> HIDE DEF held, item
<1> QED BY <1>1, <1>2, <1>5, <1>6, <1>7, <1>8 DEF HandlesAgree

\* Without a worker there is no handle.
LEMMA NoHandles ==
    ASSUME NEW r \in Ranks, HandlesAgree(r), setup' = setup,
           home'[r] = home[r], writer'[r] = writer[r],
           worker'[r].state = "none", worker'[r].cache = None,
           pc'[r] # "schedule", queue'[r] = << >>
    PROVE  HandlesAgree(r)'
BY DEF HandlesAgree

\* The steps that only let a trainer or a worker go on.
LEMMA OtherStepsKeepHandles ==
    ASSUME TypeOK, NEW r \in Ranks, Accounted(r), HandlesAgree(r),
           \/ BeginSave(r) \/ BeginPoll(r) \/ ScheduleNothing(r) \/ ReturnFromStaging(r)
           \/ Poll(r) \/ Finalize(r) \/ ReturnFromPoll(r)
           \/ WorkerWrite(r) \/ WorkerDies(r)
    PROVE  HandlesAgree(r)'
<1>1. CASE BeginSave(r) \/ BeginPoll(r) \/ ScheduleNothing(r) \/ Poll(r) \/ ReturnFromPoll(r)
  <2>1. /\ pc[r] \in {"train", "prepare", "poll"} /\ pc'[r] # "schedule"
        /\ UNCHANGED <<setup, home, writer, buffer, drain, worker, queue>>
    <3>1. pc[r] \in {"train", "prepare", "poll"}
      BY <1>1
      DEF BeginSave, BeginPoll, Undertake, ScheduleNothing, Poll, Polling, ReturnFromPoll
    <3>2. pc'[r] # "schedule"
      BY <1>1, RankTypes
      DEF BeginSave, BeginPoll, ScheduleNothing, Poll, ReturnFromPoll, Done, Goto
    <3>3. UNCHANGED <<setup, home, writer, buffer, drain, worker, queue>>
      BY <1>1
      DEF BeginSave, BeginPoll, ScheduleNothing, Poll, ReturnFromPoll, plan, staging, writing
    <3> QED BY <3>1, <3>2, <3>3
  <2> QED BY <2>1, QueueOutsideStaging, SameHandles
<1>2. CASE ReturnFromStaging(r)
  <2>1. /\ pc[r] = "staging" /\ pc'[r] = "train" /\ Staged(r)
        /\ UNCHANGED <<setup, home, writer, buffer, drain, worker, queue>>
    <3>1. pc'[r] = "train"
      BY <1>2, RankTypes DEF ReturnFromStaging, Done, Goto
    <3> QED BY <1>2, <3>1 DEF ReturnFromStaging, plan, staging, writing
  <2>2. queue[r] = << >>
    <3> SUFFICES ASSUME queue[r] # << >> PROVE FALSE
      OBVIOUS
    <3>1. Len(queue[r]) = 1 /\ queue[r][1].id = Op(r).id
      BY DEF Accounted, QueueIsStaged
    <3>2. 1 \in DOMAIN queue[r]
      BY <3>1, SequencesOf
    <3> QED BY <2>1, <3>1, <3>2 DEF Staged
  <2> QED BY <2>1, <2>2, SameHandles
<1>3. CASE Finalize(r)
  <2>1. /\ pc[r] = "finalize" /\ pc'[r] = "gather"
        /\ UNCHANGED <<setup, home, buffer, drain, worker, queue>>
    BY <1>3, RankTypes DEF Finalize, Goto, plan
  <2>2. \/ writer'[r] = writer[r]
        \/ writer'[r] = [writer[r] EXCEPT !.sent = FALSE, !.ptr = None]
    BY <1>3, RankTypes DEF Finalize
  <2>3. /\ writer'[r].alloc = writer[r].alloc
        /\ writer'[r].sent => writer'[r] = writer[r]
    <3>1. writer[r] \in Writers
      BY RankTypes
    <3>2. CASE writer'[r] = writer[r]
      BY <3>2
    <3>3. CASE writer'[r] = [writer[r] EXCEPT !.sent = FALSE, !.ptr = None]
      BY <3>1, <3>3 DEF Writers
    <3> QED BY <2>2, <3>2, <3>3
  <2> QED BY <2>1, <2>3, QueueOutsideStaging, SameHandles
<1>4. CASE WorkerWrite(r) \/ WorkerDies(r)
  <2>1. /\ UNCHANGED <<setup, script, at, pc, home, writer, buffer, data, drain, queue>>
        /\ worker'[r].cache = worker[r].cache
        /\ worker'[r].state \in {"idle", "dead"}
    <3>1. /\ worker'[r].cache = worker[r].cache
          /\ worker'[r].state \in {"idle", "dead"}
      BY <1>4, RankTypes DEF WorkerWrite, WorkerDies, WorkerStates
    <3> QED BY <1>4, <3>1 DEF WorkerWrite, WorkerDies, plan, staging
  <2>2. Op(r)' = Op(r)
    BY <2>1 DEF Op
  <2> QED BY <2>1, <2>2 DEF HandlesAgree
<1> QED BY <1>1, <1>2, <1>3, <1>4

\* The handles of the rank that takes the step.
LEMMA OwnStepKeepsHandles ==
    ASSUME TypeOK, NEW r \in Ranks, Accounted(r), HandlesAgree(r),
           Trainer(r) \/ Worker(r) \/ WorkerDies(r) \/ Abort(r)
    PROVE  HandlesAgree(r)'
<1>1. CASE Close(r) \/ Abort(r)
  <2>1. worker'[r] = NoWorker /\ pc'[r] # "schedule"
    BY <1>1, RankTypes DEF Close, Abort, Done, Goto
  <2>2. queue'[r] = << >>
    BY <1>1, RankTypes DEF Close, Abort
  <2>3. setup' = setup /\ home' = home /\ writer' = writer
    BY <1>1 DEF Close, Abort, plan
  <2>4. worker'[r].state = "none" /\ worker'[r].cache = None
    BY <2>1 DEF NoWorker, Spawned
  <2> QED BY <2>1, <2>2, <2>3, <2>4, NoHandles
<1>2. CASE PrepareWriteData(r) \/ ScheduleAsyncCall(r) \/ WorkerStage(r)
  BY <1>2, PrepareKeepsHandles, ScheduleKeepsHandles, WorkerStageKeepsHandles
<1> QED BY <1>1, <1>2, OtherStepsKeepHandles DEF Trainer, Worker

\* A rank leaves the handles of the others alone.
LEMMA OthersKeepHandles ==
    ASSUME TypeOK, NEW r \in Ranks, NEW q \in Ranks, q # r,
           Trainer(r) \/ Worker(r) \/ WorkerDies(r) \/ Abort(r)
    PROVE  /\ home'[q] = home[q] /\ writer'[q] = writer[q] /\ buffer'[q] = buffer[q]
           /\ data'[q] = data[q] /\ drain'[q] = drain[q]
<1>1. CASE BeginSave(r) \/ BeginPoll(r) \/ ScheduleNothing(r) \/ ReturnFromStaging(r)
  BY <1>1 DEF BeginSave, BeginPoll, ScheduleNothing, ReturnFromStaging, staging
<1>2. CASE PrepareWriteData(r) \/ ScheduleAsyncCall(r)
  <2>1. CASE PrepareWriteData(r)
    BY <2>1 DEF PrepareWriteData, Prepare, TypeOK
  <2>2. CASE ScheduleAsyncCall(r)
    BY <2>2 DEF ScheduleAsyncCall, TypeOK
  <2> QED BY <1>2, <2>1, <2>2
<1>3. CASE Poll(r) \/ Finalize(r) \/ ReturnFromPoll(r) \/ Close(r)
  BY <1>3 DEF Poll, Finalize, ReturnFromPoll, Close, TypeOK, staging
<1>4. CASE Worker(r) \/ WorkerDies(r) \/ Abort(r)
  BY <1>4 DEF Worker, WorkerStage, WorkerWrite, WorkerDies, Abort, TypeOK, staging
<1> QED BY <1>1, <1>2, <1>3, <1>4 DEF Trainer

\* The handles agree after every step.
LEMMA StepsKeepHandles ==
    ASSUME TypeOK, AccountInv, HandleInv, [Next]_vars
    PROVE  HandleInv'
<1> SUFFICES ASSUME NEW q \in Ranks PROVE HandlesAgree(q)'
  BY DEF HandleInv
<1>0. Accounted(q) /\ HandlesAgree(q)
  BY DEF AccountInv, HandleInv
<1>1. ASSUME NEW r \in Ranks, Trainer(r) \/ Worker(r) \/ WorkerDies(r) \/ Abort(r)
      PROVE  HandlesAgree(q)'
  <2>1. CASE q = r
    BY <1>0, <1>1, <2>1, OwnStepKeepsHandles
  <2>2. CASE q # r
    BY <1>0, <1>1, <2>2, OthersUntouched, OthersKeepHandles, BystanderHandles
  <2> QED BY <2>1, <2>2
<1>2. CASE AllReduce \/ Gather
  <2>1. /\ pc[q] \in {"reduce", "gather"} /\ pc'[q] # "schedule"
        /\ UNCHANGED <<setup, home, writer, buffer, drain, worker, queue>>
    BY <1>2 DEF AllReduce, Reduce, Gather, plan, staging, writing
  <2> QED BY <1>0, <2>1, QueueOutsideStaging, SameHandles
<1>3. CASE EndRestart
  <2>1. /\ pc[q] = "aborted" /\ pc'[q] = "train"
        /\ UNCHANGED <<setup, home, writer, buffer, worker, queue>>
    BY <1>3 DEF EndRestart, writing
  <2>2. worker[q].state = "none" /\ queue[q] = << >>
    BY <1>0, <2>1, QueueOutsideStaging DEF Accounted, WithoutWorker
  <2>3. worker[q].cache = None
    BY <1>0, <2>2 DEF HandlesAgree
  <2> QED BY <1>0, <2>1, <2>2, <2>3, NoHandles
<1>4. CASE BeginRestart \/ UNCHANGED vars
  <2>1. UNCHANGED <<script, at, pc, calling, staging, writing, setup>>
    BY <1>4 DEF BeginRestart, vars, plan
  <2> QED BY <1>0, <2>1, BystanderHandles DEF Untouched, calling, staging, writing
<1> QED BY <1>1, <1>2, <1>3, <1>4 DEF Next, Restart

\* At the start there is no handle.
LEMMA HandlesInit == Init => HandleInv
<1> SUFFICES ASSUME Init, NEW r \in Ranks PROVE HandlesAgree(r)
  BY DEF HandleInv
<1>1. writer[r] = NoCache /\ worker[r] = NoWorker /\ queue[r] = << >> /\ pc[r] = "train"
  BY DEF Init
<1>2. ~writer[r].sent /\ worker[r].state = "none" /\ worker[r].cache = None
  BY <1>1 DEF NoCache, NoWorker, Spawned
<1> QED BY <1>1, <1>2 DEF HandlesAgree

\* Only the end of a write changes the files of a rank, and only those of its save.
LEMMA FilesChange ==
    ASSUME TypeOK, [Next]_vars, NEW r \in Ranks, NEW s \in Saves, files'[r][s] # files[r][s]
    PROVE  /\ WorkerWrite(r) /\ s = worker[r].id
           /\ files'[r][s] = "torn" => ~IsGood(r)
<1>1. ~UNCHANGED files
  OBVIOUS
<1>2. PICK q \in Ranks : WorkerWrite(q)
  <2>1. ASSUME NEW q \in Ranks, Trainer(q) \/ WorkerStage(q) \/ WorkerDies(q) PROVE FALSE
    BY <1>1, <2>1
    DEF Trainer, BeginSave, BeginPoll, PrepareWriteData, ScheduleNothing, ScheduleAsyncCall,
        ReturnFromStaging, Poll, Finalize, ReturnFromPoll, Close, WorkerStage, WorkerDies, writing
  <2>2. ~(AllReduce \/ Gather \/ Restart)
    BY <1>1 DEF AllReduce, Reduce, Gather, Restart, BeginRestart, EndRestart, Abort, writing
  <2>3. ~UNCHANGED vars
    BY <1>1 DEF vars, writing
  <2> QED BY <2>1, <2>2, <2>3 DEF Next, Worker
<1>3. PICK ok \in BOOLEAN :
        files' = [files EXCEPT ![q][worker[q].id] =
          IF ~ok THEN "partial" ELSE IF IsGood(q) THEN "good" ELSE "torn"]
  BY <1>2 DEF WorkerWrite
<1>4. files \in [Ranks -> [Saves -> {"none", "good", "torn", "partial"}]]
  BY DEF TypeOK
<1>5. q = r /\ s = worker[q].id
  BY <1>3, <1>4
<1>6. files'[r][s] = IF ~ok THEN "partial" ELSE IF IsGood(q) THEN "good" ELSE "torn"
  BY <1>3, <1>4, <1>5
<1> QED BY <1>2, <1>5, <1>6

(* What a worker writes are the values of the save it was asked for, although *)
(* it reads them through a handle it was once sent, or from shared memory     *)
(* that later saves use again (prepare_write_data, preload_tensors), unless   *)
(* a close or an abort has taken the drain callback away.                     *)
THEOREM WritesAreOfTheirSave == Spec => WrittenIsScheduled
<1>1. Init => TypeOK /\ AccountInv /\ HandleInv
  BY TypesInit, BooksInit, HandlesInit
<1>2. TypeOK /\ AccountInv /\ HandleInv /\ [Next]_vars => (TypeOK /\ AccountInv /\ HandleInv)'
  BY StepsKeepTypes, StepsKeepBooks, StepsKeepHandles
<1>3. TypeOK /\ HandleInv /\ [Next]_vars =>
        [\A r \in Ranks, s \in Saves :
            files'[r][s] = "torn" /\ files[r][s] # "torn" => setup.shm /\ ~drain[r]]_vars
  <2> SUFFICES ASSUME TypeOK, HandleInv, [Next]_vars, NEW r \in Ranks, NEW s \in Saves,
                      files'[r][s] = "torn", files[r][s] # "torn"
               PROVE  setup.shm /\ ~drain[r]
    OBVIOUS
  <2>1. WorkerWrite(r) /\ ~IsGood(r)
    BY FilesChange
  <2>2. worker[r].state = "write" /\ HandlesAgree(r)
    BY <2>1 DEF WorkerWrite, HandleInv
  <2> QED BY <2>1, <2>2 DEF HandlesAgree, IsGood
<1> QED BY <1>1, <1>2, <1>3, PTL DEF Spec, WrittenIsScheduled

-----------------------------------------------------------------------------
(* What is published.  All of it is about one life of the trainers: it speaks *)
(* of ranks that are not aborted, as long as no restart has left anything.    *)

IsSave(k) == script[k].kind = "save"
SaveBefore(k) == \E i \in 1 .. k - 1 : IsSave(i)
TwoBefore(k) == \E j \in 1 .. k - 1 : IsSave(j) /\ SaveBefore(j)

(* The saves of the script have ascending ids, and a close ends it.           *)
ScriptInOrder ==
    /\ \A i, j \in 1 .. Len(script) :
          i < j /\ IsSave(i) /\ IsSave(j) => script[i].id < script[j].id
    /\ \A i \in 1 .. Len(script) : script[i].id <= saves
    /\ \A i \in 1 .. Len(script) : script[i].kind = "close" => i = Len(script)

(* The calls of a rank are saves it has passed in the script, in their order; *)
(* the one it is gathering for is older than those that wait.                 *)
Scheduled(r, s) == \E i \in 1 .. at[r] - 1 : script[i] = Save(s)
CallsInOrder(r) ==
    /\ \A i \in 1 .. Len(calls[r]) : calls[r][i].live /\ Scheduled(r, calls[r][i].id)
    /\ \A i, j \in 1 .. Len(calls[r]) : i < j => calls[r][i].id < calls[r][j].id
    /\ pc[r] = "gather" => /\ Scheduled(r, vote[r].id)
                           /\ \A i \in 1 .. Len(calls[r]) : vote[r].id < calls[r][i].id

(* The saves on which the ranks have not yet gathered, the ones to come       *)
(* included: every rank has the same.                                         *)
Waiting(r, s) == \E i \in 1 .. Len(calls[r]) : calls[r][i].id = s
ToCome(k, s) == \E i \in k .. Len(script) : script[i] = Save(s)
Pending(r, s) == (pc[r] = "gather" /\ vote[r].id = s) \/ Waiting(r, s) \/ ToCome(at[r], s)

Running(r) == pc[r] # "aborted"
SamePending ==
    \A r, q \in Ranks : Running(r) /\ Running(q) =>
        \A s \in Saves : Pending(r, s) => Pending(q, s)

(* Ranks that have passed an operation which another has not: if one of them  *)
(* passes it only when it has no calls, the saves before it are not pending.  *)
Empties(q, k, drains) ==
    ~IsSave(k) \/ (setup.shm /\ q \in setup.holders /\ drains /\ TwoBefore(k))
NothingBefore(r, k) == \A i \in 1 .. k - 1 : IsSave(i) => ~Pending(r, script[i].id)
InStep ==
    \A r, q \in Ranks : Running(r) /\ Running(q) =>
        \A k \in at[r] .. at[q] - 1 : Empties(q, k, drain[r]) => NothingBefore(r, k)

(* From the all_reduce to the gather all ranks are in the same operation.     *)
Collective(r) == pc[r] \in {"finalize", "gather"}
Together ==
    \A r, q \in Ranks : Running(r) /\ Collective(q) /\ Op(q).kind # "save" =>
        Collective(r) /\ at[r] = at[q]

(* In a save a rank takes part in a gather only to drain.                     *)
InOperation(r) ==
    /\ pc[r] \in {"poll", "reduce"} => Op(r).kind # "save"
    /\ Collective(r) /\ Op(r).kind = "save" => MustDrain(r)

(* Closed queues have lost the drain callback; the others agree on it.        *)
Closed(r) == at[r] > Len(script) /\ \E i \in 1 .. Len(script) : script[i].kind = "close"
SameDrain ==
    \A r, q \in Ranks : Running(r) /\ Running(q) /\ drain[r] => drain[q] \/ Closed(q)

(* The shared memory is allocated by the first save and again by the second,  *)
(* as the start of the worker clears the caches in between.                   *)
Allocated(r) ==
    /\ pc[r] = "schedule" => writer[r].alloc
    /\ pc[r] = "staging" => (writer[r].alloc <=> SaveBefore(at[r]))
    /\ pc[r] \notin {"schedule", "staging"} /\ SaveBefore(at[r]) =>
          (writer[r].alloc <=> TwoBefore(at[r]))
    /\ pc[r] # "staging" /\ ~SaveBefore(at[r]) => worker[r].state = "none"
    /\ SaveBefore(at[r]) => worker[r].state # "none" \/ Closed(r)
Drained(r) ==
    pc[r] \in {"schedule", "staging"} /\ drain[r] /\ TwoBefore(at[r]) => calls[r] = << >>

(* The results of a rank are those of its oldest calls, in their order.       *)
Whole(r, s) == files[r][s] \in {"good", "torn"}
Finalizing(r) == IF pc[r] = "finalize" THEN 1 ELSE 0
ResultsInOrder(r) ==
    /\ Len(results[r]) = Finalizing(r) + Held(r) + Len(comp_q[r])
    /\ \A i \in 1 .. Len(results[r]) :
          /\ results[r][i].id = Due(r, i)
          /\ results[r][i].ok => Whole(r, results[r][i].id)
    /\ pc[r] = "gather" /\ vote[r].ok => Whole(r, vote[r].id)

(* What is published is not written again.                                    *)
PublishedIsOver ==
    \A s \in published : s <= saves /\ \A r \in Ranks : Running(r) => ~Pending(r, s)

(* The order of things, for each rank and between them.                       *)
RankInOrder(r) ==
    /\ CallsInOrder(r) /\ InOperation(r)
    /\ setup.shm /\ r \in setup.holders => Allocated(r) /\ Drained(r)
RanksInOrder == \A r \in Ranks : Running(r) => RankInOrder(r)
BetweenRanks == SamePending /\ InStep /\ Together /\ SameDrain

OrderInv == ~leftover => ScriptInOrder /\ RanksInOrder /\ BetweenRanks

(* Results and publications.                                                  *)
ResultsHold ==
    /\ \A r \in setup.holders : Running(r) => ResultsInOrder(r)
    /\ PublishedIsOver
    /\ \A s \in published : \A r \in setup.holders : Whole(r, s)
ResultInv == ~leftover => ResultsHold

-----------------------------------------------------------------------------
(* The script.                                                                *)

\* The script is extended at its end, by an operation with a new id.
Grows ==
    \/ script' = script /\ saves' = saves
    \/ \E op \in Operations :
          /\ script' = Append(script, op)
          /\ \A i \in 1 .. Len(script) : script[i].kind # "close"
          /\ op.kind = "save" => op.id = saves + 1
          /\ saves' = saves + (IF op.kind = "save" THEN 1 ELSE 0)

New(s) == \E i \in Len(script) + 1 .. Len(script') : script'[i] = Save(s)

ScriptKept ==
    /\ Len(script) \in Nat /\ Len(script') \in Nat /\ Len(script) <= Len(script')
    /\ Len(script') <= Len(script) + 1
    /\ \A i \in 1 .. Len(script) : script'[i] = script[i]
    /\ \A s \in Saves : New(s) => s = saves + 1
    /\ saves \in Nat /\ saves' \in Nat /\ saves <= saves'

\* What the operations of the script are.
LEMMA ScriptTypes ==
    ASSUME TypeOK
    PROVE  /\ Len(script) \in Nat /\ saves \in Nat
           /\ \A i \in 1 .. Len(script) :
                 /\ script[i] \in Operations
                 /\ script[i].id \in {None} \cup Saves
                 /\ script[i].kind \in {"save", "poll", "wait", "close"}
                 /\ IsSave(i) => script[i].id \in Saves /\ script[i] = Save(script[i].id)
                 /\ ~IsSave(i) => script[i].id = None
                 /\ \A s \in Saves : script[i] = Save(s) => IsSave(i) /\ script[i].id = s
<1>1. script \in Seq(Operations) /\ Len(script) \in Nat /\ saves \in Nat
  BY DEF TypeOK
<1>2. \A i \in 1 .. Len(script) : script[i] \in Operations
  BY <1>1
<1>3. \A s \in Saves : s # None /\ Save(s).kind = "save" /\ Save(s).id = s
  BY DEF Save, None, Saves
<1> QED BY <1>1, <1>2, <1>3, OperationTypes DEF IsSave

\* A save is in the script only once.
LEMMA SavesApart ==
    ASSUME TypeOK, ScriptInOrder, NEW s \in Saves, NEW i \in 1 .. Len(script),
           NEW j \in 1 .. Len(script), script[i] = Save(s), script[j] = Save(s)
    PROVE  i = j
<1>1. IsSave(i) /\ IsSave(j) /\ script[i].id = s /\ script[j].id = s /\ s \in Nat
  BY ScriptTypes DEF Saves
<1>2. Len(script) \in Nat /\ i \in Nat /\ j \in Nat
  BY ScriptTypes
<1>3. i < j => s < s
  BY <1>1, <1>2 DEF ScriptInOrder
<1>4. j < i => s < s
  BY <1>1, <1>2 DEF ScriptInOrder
<1> QED BY <1>1, <1>2, <1>3, <1>4

\* What was in the script stays there, and what is new has the next id.
LEMMA GrowsKeeps ==
    ASSUME TypeOK, Grows
    PROVE  ScriptKept
<1>1. script \in Seq(Operations) /\ Len(script) \in Nat /\ saves \in Nat
  BY DEF TypeOK
<1>2. CASE script' = script /\ saves' = saves
  <2>1. \A s \in Saves : ~New(s)
    BY <1>1, <1>2 DEF New
  <2> QED BY <1>1, <1>2, <2>1 DEF ScriptKept
<1>3. ASSUME NEW op \in Operations, script' = Append(script, op),
             op.kind = "save" => op.id = saves + 1,
             saves' = saves + (IF op.kind = "save" THEN 1 ELSE 0)
      PROVE  ScriptKept
  <2>1. /\ Len(script') = Len(script) + 1
        /\ \A i \in 1 .. Len(script) : script'[i] = script[i]
        /\ script'[Len(script) + 1] = op
    BY <1>3, ScriptGrows
  <2>2. saves' \in Nat /\ saves <= saves'
    BY <1>1, <1>3
  <2>3. ASSUME NEW s \in Saves, New(s) PROVE s = saves + 1
    <3>1. PICK i \in Len(script) + 1 .. Len(script') : script'[i] = Save(s)
      BY <2>3 DEF New
    <3>2. i = Len(script) + 1
      BY <1>1, <2>1
    <3>3. op = Save(s)
      BY <2>1, <3>1, <3>2
    <3> QED BY <1>3, <3>3 DEF Save
  <2> QED BY <1>1, <2>1, <2>2, <2>3 DEF ScriptKept
<1> QED BY <1>2, <1>3 DEF Grows

\* The script stays in order.
LEMMA GrowsInOrder ==
    ASSUME TypeOK, TypeOK', ScriptInOrder, Grows
    PROVE  ScriptInOrder'
<1>1. CASE script' = script /\ saves' = saves
  BY <1>1 DEF ScriptInOrder, IsSave
<1>2. ASSUME NEW op \in Operations, script' = Append(script, op),
             \A i \in 1 .. Len(script) : script[i].kind # "close",
             op.kind = "save" => op.id = saves + 1,
             saves' = saves + (IF op.kind = "save" THEN 1 ELSE 0)
      PROVE  ScriptInOrder'
  <2>1. /\ Len(script') = Len(script) + 1 /\ Len(script) \in Nat /\ saves \in Nat
        /\ \A i \in 1 .. Len(script) : script'[i] = script[i]
        /\ script'[Len(script) + 1] = op
    BY <1>2, ScriptGrows, ScriptTypes
  <2>2. op.id \in Nat /\ op.id <= saves' /\ saves <= saves' /\ saves' \in Nat
    <3>1. op.kind # "save" => op.id = 0
      BY OperationTypes DEF None
    <3> QED BY <1>2, <2>1, <3>1
  <2>3. \A i \in 1 .. Len(script) : script[i].id \in Nat /\ script[i].id <= saves
    BY ScriptTypes DEF ScriptInOrder, None, Saves
  <2>4. \A i \in 1 .. Len(script') : i \in 1 .. Len(script) \/ i = Len(script) + 1
    BY <2>1
  <2>5. ASSUME NEW i \in 1 .. Len(script'), NEW j \in 1 .. Len(script'), i < j,
               script'[i].kind = "save", script'[j].kind = "save"
        PROVE  script'[i].id < script'[j].id
    <3>1. i \in 1 .. Len(script)
      BY <2>1, <2>5
    <3>2. CASE j \in 1 .. Len(script)
      BY <2>1, <2>5, <3>1, <3>2 DEF ScriptInOrder, IsSave
    <3>3. CASE j = Len(script) + 1
      BY <1>2, <2>1, <2>3, <2>5, <3>1, <3>3
    <3> QED BY <2>4, <3>2, <3>3
  <2>6. \A i \in 1 .. Len(script') : script'[i].id <= saves'
    <3> TAKE i \in 1 .. Len(script')
    <3>1. CASE i \in 1 .. Len(script)
      BY <2>1, <2>2, <2>3, <3>1
    <3>2. CASE i = Len(script) + 1
      BY <2>1, <2>2, <3>2
    <3> QED BY <2>4, <3>1, <3>2
  <2>7. \A i \in 1 .. Len(script') : script'[i].kind = "close" => i = Len(script')
    BY <1>2, <2>1, <2>4
  <2> QED BY <2>5, <2>6, <2>7 DEF ScriptInOrder, IsSave
<1> QED BY <1>1, <1>2 DEF Grows

\* What comes before a point of the script stays there.
LEMMA PrefixKept ==
    ASSUME ScriptKept, NEW k \in Nat, k <= Len(script) + 1
    PROVE  /\ SaveBefore(k)' = SaveBefore(k) /\ TwoBefore(k)' = TwoBefore(k)
           /\ k \in 1 .. Len(script) => IsSave(k)' = IsSave(k)
<1>1. \A i \in 1 .. Len(script) : IsSave(i)' = IsSave(i)
  BY DEF ScriptKept, IsSave
<1>2. \A i \in 1 .. k - 1 : i \in 1 .. Len(script)
  BY DEF ScriptKept
<1>3. ASSUME NEW j \in Nat, j <= k PROVE SaveBefore(j)' = SaveBefore(j)
  <2>1. \A i \in 1 .. j - 1 : i \in 1 .. k - 1
    BY <1>3
  <2> QED BY <1>1, <1>2, <2>1 DEF SaveBefore
<1>4. TwoBefore(k)' = TwoBefore(k)
  <2>1. \A j \in 1 .. k - 1 : j \in Nat /\ j <= k
    OBVIOUS
  <2> QED BY <1>1, <1>2, <1>3, <2>1 DEF TwoBefore
<1> QED BY <1>1, <1>3, <1>4

\* One operation further.
LEMMA NextPosition ==
    ASSUME NEW k \in Nat \ {0}
    PROVE  /\ SaveBefore(k + 1) <=> SaveBefore(k) \/ IsSave(k)
           /\ TwoBefore(k + 1) <=> TwoBefore(k) \/ (IsSave(k) /\ SaveBefore(k))
           /\ TwoBefore(k) => SaveBefore(k)
<1>1. \A i : i \in 1 .. (k + 1) - 1 <=> i \in 1 .. k - 1 \/ i = k
  OBVIOUS
<1>2. TwoBefore(k) => SaveBefore(k)
  BY DEF TwoBefore, SaveBefore
<1> QED BY <1>1, <1>2 DEF TwoBefore, SaveBefore

-----------------------------------------------------------------------------
(* What is pending.                                                           *)

\* The new operation, and nothing else, becomes pending.
PendingKept(r) == \A s \in Saves : Pending(r, s)' <=> Pending(r, s) \/ New(s)

\* What is to come, after the script has grown.
LEMMA ToComeGrows ==
    ASSUME ScriptKept, NEW k \in Nat \ {0}, k <= Len(script) + 1, NEW s
    PROVE  ToCome(k, s)' <=> ToCome(k, s) \/ New(s)
<1>1. \A i : i \in k .. Len(script') <=>
                i \in k .. Len(script) \/ i \in Len(script) + 1 .. Len(script')
  BY DEF ScriptKept
<1>2. \A i \in k .. Len(script) : script'[i] = script[i]
  BY DEF ScriptKept
<1> QED BY <1>1, <1>2 DEF ToCome, New

\* What is to come is the next operation, or comes after it.
LEMMA ToComeNext ==
    ASSUME NEW k \in Nat \ {0}, Len(script) \in Nat, k <= Len(script), NEW s
    PROVE  ToCome(k, s) <=> script[k] = Save(s) \/ ToCome(k + 1, s)
<1>1. \A i : i \in k .. Len(script) <=> i = k \/ i \in k + 1 .. Len(script)
  OBVIOUS
<1> QED BY <1>1 DEF ToCome

\* A save that a rank has passed is not to come.
LEMMA PassedIsOver ==
    ASSUME TypeOK, ScriptInOrder, NEW r \in Ranks, InScript(r), NEW s \in Saves, Scheduled(r, s)
    PROVE  ~ToCome(at[r], s)
<1>1. at[r] \in Nat \ {0} /\ Len(script) \in Nat /\ at[r] <= Len(script) + 1
  BY RankTypes, ScriptTypes DEF InScript
<1>2. PICK i \in 1 .. at[r] - 1 : script[i] = Save(s)
  BY DEF Scheduled
<1>3. ASSUME NEW j \in at[r] .. Len(script), script[j] = Save(s) PROVE FALSE
  <2>1. i \in 1 .. Len(script) /\ j \in 1 .. Len(script) /\ i # j
    BY <1>1
  <2> QED BY <1>2, <1>3, <2>1, SavesApart
<1> QED BY <1>3 DEF ToCome

\* A rank that neither schedules nor finalizes has the same saves pending.
LEMMA RestKeepsPending ==
    ASSUME TypeOK, ScriptKept, NEW r \in Ranks, InScript(r),
           at'[r] = at[r], calls'[r] = calls[r], pc'[r] = "gather" <=> pc[r] = "gather",
           pc[r] = "gather" => vote'[r] = vote[r]
    PROVE  PendingKept(r)
<1> SUFFICES ASSUME NEW s \in Saves PROVE Pending(r, s)' <=> Pending(r, s) \/ New(s)
  BY DEF PendingKept
<1>1. PICK k \in Nat \ {0} : k = at[r]
  BY RankTypes
<1>2. ToCome(k, s)' <=> ToCome(k, s) \/ New(s)
  BY <1>1, ToComeGrows DEF InScript
<1>3. Waiting(r, s)' <=> Waiting(r, s)
  BY DEF Waiting
<1>4. ToCome(at[r], s)' <=> ToCome(k, s)'
  BY <1>1 DEF ToCome
<1>5. Pending(r, s)' <=> (pc[r] = "gather" /\ vote[r].id = s) \/ Waiting(r, s) \/ ToCome(k, s)'
  BY <1>3, <1>4 DEF Pending
<1>6. Pending(r, s) <=> (pc[r] = "gather" /\ vote[r].id = s) \/ Waiting(r, s) \/ ToCome(k, s)
  BY <1>1 DEF Pending
<1> QED BY <1>2, <1>5, <1>6

\* A rank that passes a poll has the same saves pending, one that passes a save
\* without a call for it has not.
LEMMA PassingKeepsPending ==
    ASSUME TypeOK, NEW r \in Ranks, at[r] <= Len(script), script' = script,
           at'[r] = at[r] + 1, calls'[r] = calls[r], pc'[r] # "gather", pc[r] # "gather",
           Op(r).kind # "save"
    PROVE  PendingKept(r)
<1> SUFFICES ASSUME NEW s \in Saves PROVE Pending(r, s)' <=> Pending(r, s) \/ New(s)
  BY DEF PendingKept
<1>1. PICK k \in Nat \ {0} : k = at[r]
  BY RankTypes
<1>2. Len(script) \in Nat /\ ~New(s)
  BY ScriptTypes DEF New
<1>3. ToCome(k, s) <=> ToCome(k + 1, s)
  <2>1. script[k] # Save(s)
    BY <1>1 DEF Op, Save
  <2> QED BY <1>1, <1>2, <2>1, ToComeNext
<1>4. Pending(r, s)' <=> Waiting(r, s) \/ ToCome(k + 1, s)
  BY <1>1 DEF Pending, Waiting, ToCome
<1>5. Pending(r, s) <=> Waiting(r, s) \/ ToCome(k, s)
  BY <1>1 DEF Pending
<1> QED BY <1>2, <1>3, <1>4, <1>5

\* The save of the operation becomes a call.
LEMMA EnlistKeepsPending ==
    ASSUME TypeOK, ScriptInOrder, NEW r \in Ranks, at[r] <= Len(script), script' = script,
           Op(r).kind = "save", Enlist(r), at'[r] = at[r] + 1,
           pc'[r] # "gather", pc[r] # "gather", CallsInOrder(r)
    PROVE  PendingKept(r) /\ CallsInOrder(r)'
<1>1. PICK k \in Nat \ {0} : k = at[r]
  BY RankTypes
<1>2. Len(script) \in Nat /\ k \in 1 .. Len(script) /\ IsSave(k)
  BY <1>1, ScriptTypes DEF IsSave, Op
<1>3. PICK t \in Saves : t = Op(r).id /\ script[k] = Save(t)
  BY <1>1, <1>2, ScriptTypes DEF Op
<1>4. PICK n \in Nat : n = Len(calls[r])
  BY SequencesOf
<1>5. /\ Len(calls'[r]) = n + 1
      /\ \A i \in 1 .. n : calls'[r][i] = calls[r][i]
      /\ calls'[r][n + 1].id = t /\ calls'[r][n + 1].live
  <2>1. calls'[r][n + 1] = [id |-> Op(r).id, live |-> TRUE]
    BY <1>3, <1>4, EnlistAppends
  <2>2. calls'[r][n + 1].id = t /\ calls'[r][n + 1].live
    BY <1>3, <2>1
  <2> QED BY <1>3, <1>4, <2>2, EnlistAppends
<1>6. \A i : i \in 1 .. n + 1 <=> i \in 1 .. n \/ i = n + 1
  BY <1>4
<1>7. PendingKept(r)
  <2> SUFFICES ASSUME NEW s \in Saves PROVE Pending(r, s)' <=> Pending(r, s) \/ New(s)
    BY DEF PendingKept
  <2>1. ~New(s)
    BY <1>2 DEF New
  <2>2. ToCome(k, s) <=> s = t \/ ToCome(k + 1, s)
    <3>1. script[k] = Save(s) <=> s = t
      BY <1>2, <1>3, ScriptTypes
    <3> QED BY <1>2, <3>1, ToComeNext
  <2>3. Pending(r, s) <=> (\E i \in 1 .. n : calls[r][i].id = s) \/ ToCome(k, s)
    BY <1>1, <1>4 DEF Pending, Waiting
  <2>4. Pending(r, s)' <=> (\E i \in 1 .. n + 1 : calls'[r][i].id = s) \/ ToCome(k + 1, s)
    BY <1>1, <1>5 DEF Pending, Waiting, ToCome
  <2>5. (\E i \in 1 .. n + 1 : calls'[r][i].id = s) <=>
           (\E i \in 1 .. n : calls[r][i].id = s) \/ s = t
    BY <1>5, <1>6
  <2> QED BY <2>1, <2>2, <2>3, <2>4, <2>5
<1>8. CallsInOrder(r)'
  <2>1. \A s : Scheduled(r, s) => Scheduled(r, s)'
    BY <1>1 DEF Scheduled
  <2>2. Scheduled(r, t)'
    BY <1>1, <1>3 DEF Scheduled
  <2>3. \A i \in 1 .. n : calls[r][i].live /\ Scheduled(r, calls[r][i].id) /\ calls[r][i].id < t
    <3> TAKE i \in 1 .. n
    <3>1. calls[r][i].live /\ Scheduled(r, calls[r][i].id) /\ calls[r][i].id \in Saves
      <4>1. calls[r][i] \in Calls
        BY <1>4, SequencesOf
      <4>2. calls[r][i].live /\ Scheduled(r, calls[r][i].id)
        BY <1>4 DEF CallsInOrder
      <4> QED BY <4>1, <4>2 DEF Calls
    <3>2. PICK j \in 1 .. k - 1 : script[j] = Save(calls[r][i].id)
      BY <1>1, <3>1 DEF Scheduled
    <3>3. j \in 1 .. Len(script) /\ j < k
      BY <1>2, <3>2
    <3>4. IsSave(j) /\ script[j].id = calls[r][i].id /\ script[k].id = t
      BY <1>2, <1>3, <3>1, <3>2, <3>3, ScriptTypes
    <3>5. calls[r][i].id < t
      BY <1>2, <3>3, <3>4 DEF ScriptInOrder
    <3> QED BY <3>1, <3>5
  <2>4. \A i \in 1 .. n + 1 : calls'[r][i].live /\ Scheduled(r, calls[r][i].id)'
    <3> TAKE i \in 1 .. n + 1
    <3>1. CASE i \in 1 .. n
      <4>1. PICK c : c = calls[r][i].id
        OBVIOUS
      <4>2. calls'[r][i].id = c /\ calls'[r][i].live /\ Scheduled(r, c)
        BY <1>5, <2>3, <3>1, <4>1
      <4>3. Scheduled(r, c)'
        BY <2>1, <4>2
      <4> QED BY <4>2, <4>3
    <3>2. CASE i = n + 1
      BY <1>5, <2>2, <3>2
    <3> QED BY <1>6, <3>1, <3>2
  <2>5. \A i, j \in 1 .. n + 1 : i < j => calls'[r][i].id < calls'[r][j].id
    <3> SUFFICES ASSUME NEW i \in 1 .. n + 1, NEW j \in 1 .. n + 1, i < j
                 PROVE  calls'[r][i].id < calls'[r][j].id
      OBVIOUS
    <3>1. i \in 1 .. n
      BY <1>4
    <3>2. CASE j \in 1 .. n
      BY <1>4, <1>5, <3>1, <3>2 DEF CallsInOrder
    <3>3. CASE j = n + 1
      BY <1>5, <2>3, <3>1, <3>3
    <3> QED BY <1>6, <3>2, <3>3
  <2> QED BY <1>5, <2>4, <2>5 DEF CallsInOrder
<1> QED BY <1>7, <1>8

\* The call that is finalized is the oldest one, and pending until the gather.
LEMMA FinalizeKeepsPending ==
    ASSUME TypeOK, NEW r \in Ranks, calls[r] # << >>, script' = script, at'[r] = at[r],
           calls'[r] = Tail(calls[r]), pc[r] # "gather", pc'[r] = "gather",
           vote'[r].id = First(r).id, CallsInOrder(r)
    PROVE  PendingKept(r) /\ CallsInOrder(r)'
<1>1. PICK k \in Nat \ {0} : k = at[r]
  BY RankTypes
<1>2. PICK n \in Nat : Len(calls[r]) = n + 1
  <2>1. Len(calls[r]) \in Nat /\ Len(calls[r]) # 0
    BY SequencesOf
  <2>2. Len(calls[r]) - 1 \in Nat /\ Len(calls[r]) = (Len(calls[r]) - 1) + 1
    BY <2>1
  <2> QED BY <2>2
<1>3. /\ Len(calls'[r]) = n
      /\ \A i \in 1 .. n : calls'[r][i] = calls[r][i + 1]
      /\ First(r) = calls[r][1]
  BY <1>2, SequencesOf DEF First
<1>4. PendingKept(r)
  <2> SUFFICES ASSUME NEW s \in Saves PROVE Pending(r, s)' <=> Pending(r, s) \/ New(s)
    BY DEF PendingKept
  <2>1. ~New(s)
    BY ScriptTypes DEF New
  <2>2. Pending(r, s) <=> (\E i \in 1 .. n + 1 : calls[r][i].id = s) \/ ToCome(k, s)
    BY <1>1, <1>2 DEF Pending, Waiting
  <2>3. Pending(r, s)' <=>
          (calls[r][1].id = s \/ \E i \in 1 .. n : calls[r][i + 1].id = s) \/ ToCome(k, s)
    <3>1. Waiting(r, s)' <=> \E i \in 1 .. n : calls[r][i + 1].id = s
      BY <1>3 DEF Waiting
    <3>2. ToCome(at[r], s)' <=> ToCome(k, s)
      BY <1>1 DEF ToCome
    <3> QED BY <1>3, <3>1, <3>2 DEF Pending
  <2>4. (\E i \in 1 .. n + 1 : calls[r][i].id = s) <=>
           calls[r][1].id = s \/ \E i \in 1 .. n : calls[r][i + 1].id = s
    <3>1. \A i \in 1 .. n + 1 : i = 1 \/ (i - 1 \in 1 .. n /\ i = (i - 1) + 1)
      BY <1>2
    <3>2. \A i \in 1 .. n : i + 1 \in 1 .. n + 1
      BY <1>2
    <3> QED BY <1>2, <3>1, <3>2
  <2> QED BY <2>1, <2>2, <2>3, <2>4
<1>5. CallsInOrder(r)'
  <2>1. \A s : Scheduled(r, s)' = Scheduled(r, s)
    BY DEF Scheduled
  <2>2. \A i \in 1 .. n : i + 1 \in 1 .. Len(calls[r])
    BY <1>2
  <2>3. 1 \in 1 .. Len(calls[r]) /\ \A i \in 1 .. n : 1 < i + 1
    BY <1>2
  <2>4. \A i \in 1 .. n : calls'[r][i].live /\ Scheduled(r, calls[r][i].id)'
    BY <1>3, <2>1, <2>2 DEF CallsInOrder
  <2>5. \A i, j \in 1 .. n : i < j => calls'[r][i].id < calls'[r][j].id
    <3> TAKE i, j \in 1 .. n
    <3>1. i < j => i + 1 < j + 1
      OBVIOUS
    <3> QED BY <1>3, <2>2, <3>1 DEF CallsInOrder
  <2>6. Scheduled(r, vote[r].id)' /\ \A i \in 1 .. n : vote'[r].id < calls'[r][i].id
    BY <1>3, <2>1, <2>2, <2>3 DEF CallsInOrder
  <2> QED BY <1>3, <2>4, <2>5, <2>6 DEF CallsInOrder
<1> QED BY <1>4, <1>5

\* The order of the calls where none is added or finalized.
LEMMA RestKeepsOrder ==
    ASSUME TypeOK, ScriptKept, NEW r \in Ranks, InScript(r), CallsInOrder(r),
           at'[r] = at[r] \/ at'[r] = at[r] + 1, calls'[r] = calls[r],
           pc'[r] = "gather" => pc[r] = "gather" /\ vote'[r] = vote[r]
    PROVE  CallsInOrder(r)'
<1>1. PICK k \in Nat \ {0} : k = at[r] /\ k <= Len(script) + 1
  BY RankTypes DEF InScript
<1>2. ASSUME NEW s, Scheduled(r, s) PROVE Scheduled(r, s)'
  <2>1. PICK i \in 1 .. k - 1 : script[i] = Save(s)
    BY <1>1, <1>2 DEF Scheduled
  <2>2. i \in 1 .. Len(script) /\ i \in 1 .. at'[r] - 1
    BY <1>1 DEF ScriptKept
  <2> QED BY <2>1, <2>2 DEF Scheduled, ScriptKept
<1>3. \A i \in 1 .. Len(calls[r]) : calls[r][i].live /\ Scheduled(r, calls[r][i].id)'
  BY <1>2 DEF CallsInOrder
<1>4. pc'[r] = "gather" => Scheduled(r, vote[r].id)'
  BY <1>2 DEF CallsInOrder
<1> QED BY <1>3, <1>4 DEF CallsInOrder

-----------------------------------------------------------------------------
(* The steps of one rank.                                                     *)

Step(r) == Trainer(r) \/ Worker(r) \/ WorkerDies(r)

\* Without calls, or without a save before it, a rank has nothing pending before it.
LEMMA NothingIsBefore ==
    ASSUME TypeOK, ScriptInOrder, NEW r \in Ranks, InScript(r), pc[r] # "gather",
           calls[r] = << >> \/ ~SaveBefore(at[r])
    PROVE  NothingBefore(r, at[r])
<1>1. PICK k \in Nat \ {0} : k = at[r] /\ k <= Len(script) + 1
  BY RankTypes DEF InScript
<1>2. Len(script) \in Nat
  BY ScriptTypes
<1> SUFFICES ASSUME NEW i \in 1 .. k - 1, IsSave(i), Pending(r, script[i].id) PROVE FALSE
  BY <1>1 DEF NothingBefore
<1>3. i \in 1 .. Len(script)
  BY <1>1, <1>2
<1>4. PICK s \in Saves : s = script[i].id /\ script[i] = Save(s)
  BY <1>3, ScriptTypes
<1>5. ~ToCome(at[r], s)
  BY <1>1, <1>4, PassedIsOver DEF Scheduled
<1>6. SaveBefore(at[r])
  BY <1>1 DEF SaveBefore
<1>7. ~Waiting(r, s)
  <2>1. Len(calls[r]) = 0
    BY <1>6
  <2> QED BY <2>1 DEF Waiting
<1> QED BY <1>4, <1>5, <1>7 DEF Pending

\* With a call there is a save before a rank that is pending.
LEMMA SomethingIsBefore ==
    ASSUME TypeOK, NEW r \in Ranks, InScript(r), CallsInOrder(r),
           calls[r] # << >> \/ pc[r] = "gather"
    PROVE  SaveBefore(at[r]) /\ ~NothingBefore(r, at[r])
<1>1. PICK k \in Nat \ {0} : k = at[r] /\ k <= Len(script) + 1
  BY RankTypes DEF InScript
<1>2. PICK s \in Saves : Scheduled(r, s) /\ Pending(r, s)
  <2>1. CASE pc[r] = "gather"
    <3>1. vote[r].id \in Saves
      BY <2>1, RankTypes DEF InScript, Votes
    <3> QED BY <2>1, <3>1 DEF CallsInOrder, Pending
  <2>2. CASE calls[r] # << >>
    <3>1. 1 \in 1 .. Len(calls[r]) /\ calls[r][1] \in Calls
      BY <2>2, SequencesOf
    <3>2. calls[r][1].id \in Saves
      BY <3>1 DEF Calls
    <3> QED BY <3>1, <3>2 DEF CallsInOrder, Pending, Waiting
  <2> QED BY <2>1, <2>2
<1>3. PICK i \in 1 .. k - 1 : script[i] = Save(s)
  BY <1>1, <1>2 DEF Scheduled
<1>4. IsSave(i) /\ script[i].id = s
  <2>1. i \in 1 .. Len(script)
    BY <1>1, ScriptTypes
  <2> QED BY <1>3, <2>1, ScriptTypes
<1> QED BY <1>1, <1>2, <1>4 DEF SaveBefore, NothingBefore

\* What the step of a rank does to the order of things.
InTurn(r) ==
    /\ PendingKept(r) /\ CallsInOrder(r)' /\ InOperation(r)'
    /\ \/ at'[r] = at[r]
       \/ /\ at'[r] = at[r] + 1 /\ at[r] <= Len(script)
          /\ Empties(r, at[r], drain[r]) => NothingBefore(r, at[r])
    /\ drain'[r] = drain[r] \/ (~drain'[r] /\ Closed(r)')
    /\ Collective(r) => Collective(r)' /\ at'[r] = at[r]
    /\ Collective(r)' => Collective(r) \/ Op(r)'.kind = "save"

\* A rank that goes on in its operation.
LEMMA RestInTurn ==
    ASSUME TypeOK, ScriptKept, NEW r \in Ranks, InScript(r), CallsInOrder(r),
           at'[r] = at[r], calls'[r] = calls[r], drain'[r] = drain[r], InOperation(r)',
           pc'[r] = "gather" <=> pc[r] = "gather", vote'[r] = vote[r] \/ pc[r] # "gather",
           Collective(r) => Collective(r)',
           Collective(r)' => Collective(r) \/ Op(r)'.kind = "save"
    PROVE  InTurn(r)
<1>1. PendingKept(r)
  BY RestKeepsPending
<1>2. CallsInOrder(r)'
  BY RestKeepsOrder
<1> QED BY <1>1, <1>2 DEF InTurn

\* A poll or a save begins.
LEMMA BeginFacts ==
    ASSUME TypeOK, NEW r \in Ranks, InScript(r), BeginSave(r) \/ BeginPoll(r)
    PROVE  /\ Grows /\ pc[r] = "train"
           /\ UNCHANGED <<setup, at, calling, staging, writing, outcome, faults>>
           /\ \/ pc'[r] = "prepare" /\ Op(r)'.kind = "save"
              \/ pc'[r] = "poll" /\ Op(r)'.kind # "save"
<1>1. PICK op \in Operations :
        /\ Undertake(r, op)
        /\ BeginSave(r) => op.kind = "save"
        /\ ~BeginSave(r) => op.kind # "save"
  <2>1. CASE BeginSave(r)
    <3>1. PICK s \in Saves : Undertake(r, Save(s))
      BY <2>1 DEF BeginSave
    <3>2. Save(s) \in Operations /\ Save(s).kind = "save"
      BY OperationTypes DEF Save
    <3> QED BY <2>1, <3>1, <3>2
  <2>2. CASE ~BeginSave(r)
    <3>1. PICK k \in {"poll", "wait", "close"} : Undertake(r, Operation(k))
      BY <2>2 DEF BeginPoll
    <3>2. Operation(k) \in Operations /\ Operation(k).kind # "save"
      BY OperationTypes DEF Operation
    <3> QED BY <2>2, <3>1, <3>2
  <2> QED BY <2>1, <2>2
<1>2. Grows /\ pc[r] = "train"
  <2>1. \A i \in 1 .. Len(script) : i \in DOMAIN script
    BY DEF TypeOK
  <2> QED BY <1>1, <2>1 DEF Undertake, Grows
<1>3. Op(r)' = op
  <2>1. at'[r] = at[r] /\ at[r] \in Nat \ {0} /\ Len(script) \in Nat /\ at[r] <= Len(script) + 1
    BY RankTypes, ScriptTypes DEF BeginSave, BeginPoll, InScript
  <2>2. CASE at[r] <= Len(script) /\ Op(r) = op /\ script' = script
    BY <2>1, <2>2 DEF Op
  <2>3. CASE at[r] > Len(script) /\ script' = Append(script, op)
    BY <2>1, <2>3, ScriptGrows DEF Op
  <2> QED BY <1>1, <2>2, <2>3 DEF Undertake
<1>4. (BeginSave(r) => pc'[r] = "prepare") /\ (~BeginSave(r) => pc'[r] = "poll")
  BY RankTypes DEF BeginSave, BeginPoll, Goto
<1>5. UNCHANGED <<setup, at, calling, staging, writing, outcome, faults>>
  BY DEF BeginSave, BeginPoll
<1> QED BY <1>1, <1>2, <1>3, <1>4, <1>5

\* The script is as before in every other step of a rank.
LEMMA ScriptStays ==
    ASSUME TypeOK, script' = script, saves' = saves
    PROVE  Grows /\ ScriptKept
BY GrowsKeeps DEF Grows

\* The steps of a save.
LEMMA SaveInTurn ==
    ASSUME TypeOK, ScriptInOrder, NEW r \in Ranks, Accounted(r), CallsInOrder(r),
           setup.shm /\ r \in setup.holders => Drained(r),
           PrepareWriteData(r) \/ ScheduleNothing(r) \/ ScheduleAsyncCall(r) \/ ReturnFromStaging(r)
    PROVE  InTurn(r)
<1>1. InScript(r)
  BY DEF Accounted
<1>2. ScriptKept
  BY ScriptStays
  DEF PrepareWriteData, ScheduleNothing, ScheduleAsyncCall, ReturnFromStaging, plan
<1>3. CASE PrepareWriteData(r) \/ ScheduleAsyncCall(r)
  <2>1. /\ UNCHANGED <<at, calls, vote, drain>>
        /\ pc[r] \in {"prepare", "schedule"} /\ pc'[r] \in {"schedule", "staging"}
    BY <1>3, RankTypes DEF PrepareWriteData, ScheduleAsyncCall, Goto, calling
  <2>2. InOperation(r)' /\ ~Collective(r) /\ ~Collective(r)'
    BY <2>1 DEF InOperation, Collective
  <2> QED BY <1>1, <1>2, <2>1, <2>2, RestInTurn
<1>4. CASE ScheduleNothing(r) \/ ReturnFromStaging(r)
  <2>1. /\ Enlist(r) /\ at'[r] = at[r] + 1 /\ pc'[r] = "train"
        /\ pc[r] \in {"prepare", "staging"} /\ script' = script /\ drain' = drain
        /\ ScheduleNothing(r) => r \notin setup.holders
        /\ ~ScheduleNothing(r) => pc[r] = "staging"
    BY <1>4, RankTypes
    DEF ScheduleNothing, ReturnFromStaging, Done, Goto, plan, staging
  <2>2. at[r] <= Len(script) /\ Op(r).kind = "save"
    BY <1>1, <2>1 DEF InScript
  <2>3. PendingKept(r) /\ CallsInOrder(r)'
    BY <2>1, <2>2, EnlistKeepsPending
  <2>4. InOperation(r)' /\ ~Collective(r) /\ ~Collective(r)'
    BY <2>1 DEF InOperation, Collective
  <2>5. Empties(r, at[r], drain[r]) => NothingBefore(r, at[r])
    <3>1. IsSave(at[r])
      BY <2>2 DEF IsSave, Op
    <3>2. ASSUME setup.shm, r \in setup.holders, drain[r], TwoBefore(at[r])
          PROVE  NothingBefore(r, at[r])
      <4>1. pc[r] = "staging" /\ calls[r] = << >>
        BY <2>1, <3>2 DEF Drained
      <4> QED BY <1>1, <4>1, NothingIsBefore
    <3> QED BY <3>1, <3>2 DEF Empties
  <2> QED BY <2>1, <2>2, <2>3, <2>4, <2>5 DEF InTurn
<1> QED BY <1>3, <1>4

\* The steps of a poll, a drain and a close, except for the collectives.
LEMMA PollInTurn ==
    ASSUME TypeOK, ScriptInOrder, NEW r \in Ranks, Accounted(r), CallsInOrder(r), InOperation(r),
           Poll(r) \/ Finalize(r) \/ ReturnFromPoll(r) \/ Close(r)
    PROVE  InTurn(r)
<1>1. InScript(r)
  BY DEF Accounted
<1>2. script' = script /\ saves' = saves /\ setup' = setup
  BY DEF Poll, Finalize, ReturnFromPoll, Close, plan
<1>3. ScriptKept
  BY <1>2, ScriptStays
<1>4. CASE Poll(r)
  <2>1. /\ UNCHANGED <<at, calls, drain, writer>> /\ pc[r] \in {"poll", "prepare"}
        /\ pc[r] = "poll" => pc'[r] = "reduce"
        /\ pc[r] = "prepare" => pc'[r] = "finalize" /\ MustDrain(r)
    BY <1>4, RankTypes DEF Poll, Polling, NoDist, Goto, staging
  <2>2. Op(r)' = Op(r) /\ MustDrain(r)' = MustDrain(r)
    BY <1>2, <2>1 DEF Op, MustDrain
  <2>3. pc[r] = "prepare" => Op(r).kind = "save"
    BY <1>1 DEF InScript
  <2>4. InOperation(r)'
    BY <2>1, <2>2, <2>3 DEF InOperation, Collective
  <2>5. ~Collective(r) /\ (Collective(r)' => Op(r)'.kind = "save")
    BY <2>1, <2>2, <2>3 DEF Collective
  <2> QED BY <1>1, <1>3, <2>1, <2>4, <2>5, RestInTurn
<1>5. CASE Finalize(r)
  <2>1. /\ UNCHANGED <<at, drain>> /\ pc[r] = "finalize" /\ pc'[r] = "gather"
        /\ calls'[r] = Tail(calls[r]) /\ vote'[r].id = First(r).id
        /\ writer'[r].alloc = writer[r].alloc /\ calls[r] # << >>
    <3>1. /\ pc[r] = "finalize" /\ pc'[r] = "gather"
          /\ calls'[r] = Tail(calls[r])
      BY <1>5, RankTypes DEF Finalize, Goto
    <3>2. vote'[r].id = First(r).id
      BY <1>5, RankTypes DEF Finalize
    <3>3. \/ writer'[r] = writer[r]
          \/ writer'[r] = [writer[r] EXCEPT !.sent = FALSE, !.ptr = None]
      BY <1>5, RankTypes DEF Finalize
    <3>4. writer'[r].alloc = writer[r].alloc
      <4>1. writer[r] \in Writers
        BY RankTypes
      <4>2. [writer[r] EXCEPT !.sent = FALSE, !.ptr = None].alloc = writer[r].alloc
        BY <4>1 DEF Writers
      <4> QED BY <3>3, <4>2
    <3>5. calls[r] # << >>
      BY <3>1 DEF Accounted, VoteIsCovered
    <3> QED BY <1>5, <3>1, <3>2, <3>4, <3>5 DEF Finalize
  <2>2. PendingKept(r) /\ CallsInOrder(r)'
    BY <1>2, <2>1, FinalizeKeepsPending
  <2>3. InOperation(r)' /\ Collective(r) /\ Collective(r)'
    <3>1. Op(r)' = Op(r)
      BY <1>2, <2>1 DEF Op
    <3>2. Op(r).kind = "save" => MustDrain(r)'
      BY <1>2, <2>1 DEF InOperation, Collective, MustDrain
    <3> QED BY <2>1, <3>1, <3>2 DEF InOperation, Collective
  <2> QED BY <2>1, <2>2, <2>3 DEF InTurn
<1>6. CASE ReturnFromPoll(r) \/ Close(r)
  <2>1. /\ at'[r] = at[r] + 1 /\ pc[r] = "poll" /\ pc'[r] = "train" /\ calls' = calls
    BY <1>6, RankTypes DEF ReturnFromPoll, Close, Done, Goto, calling
  <2>2. at[r] <= Len(script) /\ Op(r).kind # "save"
    BY <1>1, <2>1 DEF InScript, InOperation
  <2>3. PendingKept(r)
    BY <1>2, <2>1, <2>2, PassingKeepsPending
  <2>4. CallsInOrder(r)'
    BY <1>1, <1>3, <2>1, RestKeepsOrder
  <2>5. InOperation(r)' /\ ~Collective(r) /\ ~Collective(r)'
    BY <2>1 DEF InOperation, Collective
  <2>6. NothingBefore(r, at[r])
    <3>1. ~HasCaller(r) => ~SaveBefore(at[r])
      BY DEF HasCaller, SaveBefore, IsSave
    <3>2. HasCaller(r) \/ ReturnFromPoll(r) => calls[r] = << >>
      BY <1>6 DEF ReturnFromPoll, Close
    <3> QED BY <1>1, <2>1, <3>1, <3>2, NothingIsBefore
  <2>7. drain'[r] = drain[r] \/ (~drain'[r] /\ Closed(r)')
    <3>1. CASE ReturnFromPoll(r)
      BY <3>1 DEF ReturnFromPoll, staging
    <3>2. CASE Close(r)
      <4>1. ~drain'[r] /\ Op(r).kind = "close"
        BY <3>2 DEF Close, TypeOK
      <4>2. at[r] \in 1 .. Len(script) /\ script[at[r]].kind = "close"
        BY <2>2, <4>1, RankTypes, ScriptTypes DEF Op
      <4>3. at'[r] > Len(script')
        BY <1>2, <2>1, <4>2, ScriptTypes DEF ScriptInOrder
      <4> QED BY <1>2, <4>1, <4>2, <4>3 DEF Closed
    <3> QED BY <1>6, <3>1, <3>2
  <2> QED BY <2>1, <2>2, <2>3, <2>4, <2>5, <2>6, <2>7 DEF InTurn
<1> QED BY <1>4, <1>5, <1>6

\* Every step of a rank.
LEMMA StepInTurn ==
    ASSUME TypeOK, ScriptInOrder, NEW r \in Ranks, Accounted(r), CallsInOrder(r), InOperation(r),
           setup.shm /\ r \in setup.holders => Drained(r), Step(r)
    PROVE  InTurn(r) /\ Grows /\ ScriptKept /\ setup' = setup
<1>1. InScript(r)
  BY DEF Accounted
<1>2. CASE BeginSave(r) \/ BeginPoll(r)
  <2>1. /\ Grows /\ pc[r] = "train" /\ UNCHANGED <<setup, at, calls, vote, drain>>
        /\ \/ pc'[r] = "prepare" /\ Op(r)'.kind = "save"
           \/ pc'[r] = "poll" /\ Op(r)'.kind # "save"
    BY <1>1, <1>2, BeginFacts DEF calling, staging
  <2>2. ScriptKept
    BY <2>1, GrowsKeeps
  <2>3. InOperation(r)' /\ ~Collective(r) /\ ~Collective(r)'
    BY <2>1 DEF InOperation, Collective
  <2> QED BY <1>1, <2>1, <2>2, <2>3, RestInTurn
<1>3. CASE PrepareWriteData(r) \/ ScheduleNothing(r) \/ ScheduleAsyncCall(r) \/ ReturnFromStaging(r)
  <2>1. Grows /\ ScriptKept /\ setup' = setup
    BY <1>3, ScriptStays
    DEF PrepareWriteData, ScheduleNothing, ScheduleAsyncCall, ReturnFromStaging, plan
  <2> QED BY <1>3, <2>1, SaveInTurn
<1>4. CASE Poll(r) \/ Finalize(r) \/ ReturnFromPoll(r) \/ Close(r)
  <2>1. Grows /\ ScriptKept /\ setup' = setup
    BY <1>4, ScriptStays DEF Poll, Finalize, ReturnFromPoll, Close, plan
  <2> QED BY <1>4, <2>1, PollInTurn
<1>5. CASE Worker(r) \/ WorkerDies(r)
  <2>1. UNCHANGED <<setup, script, saves, at, pc, calls, vote, drain, writer>>
    BY <1>5 DEF Worker, WorkerStage, WorkerWrite, WorkerDies, plan, calling, staging
  <2>2. Grows /\ ScriptKept
    BY <2>1, ScriptStays
  <2>3. InOperation(r)' /\ (Collective(r)' <=> Collective(r))
    BY <2>1 DEF InOperation, Collective, Op, MustDrain
  <2> QED BY <1>1, <2>1, <2>2, <2>3, RestInTurn
<1> QED BY <1>2, <1>3, <1>4, <1>5 DEF Step, Trainer

\* A rank that takes no part in a step.
LEMMA BystanderInTurn ==
    ASSUME TypeOK, ScriptKept, NEW q \in Ranks, Accounted(q), CallsInOrder(q), InOperation(q),
           Untouched(q), drain'[q] = drain[q], writer'[q] = writer[q]
    PROVE  InTurn(q)
<1>1. InScript(q) /\ (at[q] <= Len(script) => Op(q)' = Op(q))
  BY BystanderInScript DEF Accounted
<1>2. InOperation(q)' /\ (Collective(q)' <=> Collective(q))
  <2>1. pc[q] \in {"poll", "reduce", "finalize", "gather"} => Op(q)' = Op(q)
    BY <1>1 DEF InScript
  <2>2. MustDrain(q)' <=> MustDrain(q)
    BY DEF MustDrain, Untouched
  <2> QED BY <2>1, <2>2 DEF InOperation, Collective, Untouched
<1> QED BY <1>1, <1>2, RestInTurn DEF Untouched

\* The order of things between the ranks.
Moves == \A r \in Ranks : Running(r)' => Running(r) /\ InTurn(r)

\* A rank has nothing pending before a point; neither has it after a step.
LEMMA NothingBeforeKept ==
    ASSUME TypeOK, ScriptInOrder, ScriptKept, NEW r \in Ranks, PendingKept(r),
           NEW k \in Nat, k <= Len(script), NothingBefore(r, k)
    PROVE  NothingBefore(r, k)'
<1> SUFFICES ASSUME NEW i \in 1 .. k - 1, IsSave(i)'
             PROVE  ~Pending(r, script[i].id)'
  BY DEF NothingBefore
<1>1. i \in 1 .. Len(script) /\ script'[i] = script[i]
  BY DEF ScriptKept
<1>2. IsSave(i)
  BY <1>1 DEF IsSave
<1>3. PICK s \in Saves : s = script[i].id
  BY <1>1, <1>2, ScriptTypes
<1>4. ~Pending(r, s)
  BY <1>2, <1>3 DEF NothingBefore
<1>5. ~New(s)
  <2>1. s <= saves /\ s \in Nat /\ saves \in Nat
    BY <1>1, <1>3, ScriptTypes DEF ScriptInOrder, Saves
  <2>2. s # saves + 1
    BY <2>1
  <2> QED BY <2>2 DEF ScriptKept
<1>6. ~Pending(r, s)'
  BY <1>4, <1>5 DEF PendingKept
<1> QED BY <1>1, <1>3, <1>6

\* A closed queue stays closed.
LEMMA ClosedStays ==
    ASSUME TypeOK, Grows, NEW q \in Ranks, Closed(q), at'[q] \in Nat, at[q] <= at'[q]
    PROVE  Closed(q)'
<1>1. script' = script
  BY DEF Grows, Closed
<1>2. at[q] \in Nat /\ Len(script) \in Nat
  BY RankTypes, ScriptTypes
<1> QED BY <1>1, <1>2 DEF Closed

\* Each rank moves in turn: the order between them is kept.
LEMMA MovesKeepOrder ==
    ASSUME TypeOK, AccountInv, ScriptInOrder, BetweenRanks, Grows, ScriptKept, setup' = setup, Moves
    PROVE  BetweenRanks'
<1>1. \A r \in Ranks : InScript(r) /\ at[r] \in Nat \ {0} /\ at[r] <= Len(script) + 1
  BY RankTypes DEF AccountInv, Accounted, InScript
<1>2. Len(script) \in Nat
  BY ScriptTypes
<1>3. ASSUME NEW r \in Ranks, Running(r)'
      PROVE  /\ Running(r) /\ InTurn(r)
             /\ at'[r] \in Nat /\ at[r] <= at'[r]
             /\ drain'[r] => drain[r]
  <2>1. Running(r) /\ InTurn(r)
    BY <1>3 DEF Moves
  <2> QED BY <1>1, <2>1 DEF InTurn
<1>4. SamePending'
  BY <1>3 DEF SamePending, InTurn, PendingKept, BetweenRanks
<1>5. InStep'
  <2> SUFFICES ASSUME NEW r \in Ranks, NEW q \in Ranks, Running(r)', Running(q)',
                      NEW k \in at'[r] .. at'[q] - 1, Empties(q, k, drain[r])'
               PROVE  NothingBefore(r, k)'
    BY DEF InStep
  <2>1. Running(r) /\ Running(q) /\ InTurn(r) /\ InTurn(q) /\ (drain'[r] => drain[r])
    BY <1>3
  <2>2. k \in Nat /\ k \in at[r] .. Len(script) /\ k \in 1 .. Len(script)
    <3>1. at'[q] - 1 <= Len(script)
      BY <1>1, <1>2, <2>1 DEF InTurn
    <3>2. at'[q] \in Nat /\ at'[r] \in Nat /\ at[r] <= at'[r]
      BY <1>3
    <3> QED BY <1>1, <1>2, <3>1, <3>2
  <2>3. Empties(q, k, drain[r])
    <3>1. IsSave(k)' = IsSave(k) /\ TwoBefore(k)' = TwoBefore(k)
      BY <1>2, <2>2, PrefixKept
    <3> QED BY <2>1, <3>1 DEF Empties
  <2>4. NothingBefore(r, k)
    <3>1. CASE k \in at[r] .. at[q] - 1
      BY <2>1, <2>3, <3>1 DEF BetweenRanks, InStep
    <3>2. CASE k \notin at[r] .. at[q] - 1
      <4>1. k = at[q] /\ at'[q] = at[q] + 1 /\ at[q] <= Len(script)
        BY <1>1, <2>1, <2>2, <3>2 DEF InTurn
      <4>2. drain[r] => drain[q]
        BY <2>1, <4>1, <1>1, <1>2 DEF BetweenRanks, SameDrain, Closed
      <4>3. Empties(q, at[q], drain[q])
        BY <2>3, <4>1, <4>2 DEF Empties
      <4>4. NothingBefore(q, k)
        BY <1>1, <2>1, <4>1, <4>3 DEF InTurn
      <4>5. \A i \in 1 .. k - 1 : i \in 1 .. Len(script)
        BY <1>2, <2>2
      <4> QED BY <2>1, <4>4, <4>5, ScriptTypes DEF NothingBefore, BetweenRanks, SamePending
    <3> QED BY <3>1, <3>2
  <2> QED BY <2>1, <2>2, <2>4, NothingBeforeKept DEF InTurn
<1>6. Together'
  <2> SUFFICES ASSUME NEW r \in Ranks, NEW q \in Ranks, Running(r)', Collective(q)',
                      Op(q)'.kind # "save"
               PROVE  Collective(r)' /\ at'[r] = at'[q]
    BY DEF Together
  <2>1. Running(q)'
    BY DEF Collective, Running
  <2>2. InTurn(r) /\ InTurn(q) /\ Running(r)
    BY <1>3, <2>1
  <2>3. Collective(q) /\ at'[q] = at[q]
    BY <2>2 DEF InTurn
  <2>4. Op(q)' = Op(q)
    <3>1. at[q] \in 1 .. Len(script)
      BY <1>1, <1>2, <2>3 DEF Collective, InScript
    <3> QED BY <2>3, <3>1 DEF Op, ScriptKept
  <2>5. Collective(r) /\ at[r] = at[q]
    BY <2>2, <2>3, <2>4 DEF BetweenRanks, Together
  <2> QED BY <2>2, <2>3, <2>5 DEF InTurn
<1>7. SameDrain'
  <2> SUFFICES ASSUME NEW r \in Ranks, NEW q \in Ranks, Running(r)', Running(q)', drain'[r]
               PROVE  drain'[q] \/ Closed(q)'
    BY DEF SameDrain
  <2>1. Running(r) /\ Running(q) /\ InTurn(q) /\ drain[r]
    BY <1>3
  <2>2. drain[q] \/ Closed(q)
    BY <2>1 DEF BetweenRanks, SameDrain
  <2>3. Closed(q) => Closed(q)'
    BY <1>3, ClosedStays
  <2> QED BY <2>1, <2>2, <2>3 DEF InTurn
<1> QED BY <1>4, <1>5, <1>6, <1>7 DEF BetweenRanks

-----------------------------------------------------------------------------
(* The shared memory.                                                         *)

\* What is before a rank, where the step has brought it.
LEMMA AtPoint ==
    ASSUME ScriptKept, NEW r, NEW k \in Nat, at'[r] = k, k <= Len(script) + 1
    PROVE  SaveBefore(at[r])' = SaveBefore(k) /\ TwoBefore(at[r])' = TwoBefore(k)
<1>1. SaveBefore(at[r])' = SaveBefore(k)' /\ TwoBefore(at[r])' = TwoBefore(k)'
  BY DEF SaveBefore, TwoBefore
<1> QED BY <1>1, PrefixKept

\* A rank that stays in its operation, and does not allocate.
LEMMA SameAllocation ==
    ASSUME TypeOK, Grows, ScriptKept, NEW r \in Ranks, InScript(r), Allocated(r), Drained(r),
           at'[r] = at[r], writer'[r].alloc = writer[r].alloc, drain'[r] = drain[r],
           worker'[r].state = "none" <=> worker[r].state = "none",
           \/ pc'[r] = pc[r] /\ calls'[r] = calls[r]
           \/ pc[r] \notin {"schedule", "staging"} /\ pc'[r] \notin {"schedule", "staging"}
    PROVE  Allocated(r)' /\ Drained(r)'
<1>1. PICK k \in Nat : k = at[r] /\ k <= Len(script) + 1
  BY RankTypes DEF InScript
<1>2. SaveBefore(at[r])' = SaveBefore(at[r]) /\ TwoBefore(at[r])' = TwoBefore(at[r])
  BY <1>1, AtPoint
<1>3. Closed(r) => Closed(r)'
  BY <1>1, ClosedStays
<1>4. Allocated(r)'
  BY <1>2, <1>3 DEF Allocated
<1>5. Drained(r)'
  BY <1>2 DEF Drained
<1> QED BY <1>4, <1>5

\* The shared memory is drained before it is reused.
LEMMA PrepareKeepsAllocation ==
    ASSUME TypeOK, NEW r \in Ranks, InScript(r), Allocated(r), setup.shm, r \in setup.holders,
           PrepareWriteData(r)
    PROVE  Allocated(r)' /\ Drained(r)'
<1>1. /\ UNCHANGED <<at, script, saves, calls, drain, worker>>
      /\ pc[r] = "prepare" /\ pc'[r] = "schedule"
      /\ MustDrain(r) => calls[r] = << >>
  BY RankTypes DEF PrepareWriteData, Goto, plan, calling, writing
<1>2. writer'[r].alloc
  <2>1. PICK h \in Homes : Prepare(r)!(h)
    BY DEF PrepareWriteData, Prepare
  <2>2. writer'[r] = [sent |-> TRUE, ptr |-> IF setup.shm THEN None ELSE h, alloc |-> setup.shm]
    BY <2>1, RankTypes
  <2> QED BY <2>2
<1>3. PICK k \in Nat \ {0} : k = at[r] /\ k <= Len(script) + 1
  BY RankTypes DEF InScript
<1>4. Grows /\ ScriptKept
  BY <1>1, ScriptStays
<1>5. SaveBefore(at[r])' = SaveBefore(k) /\ TwoBefore(at[r])' = TwoBefore(k)
  BY <1>1, <1>3, <1>4, AtPoint
<1>6. Closed(r) => Closed(r)'
  BY <1>1 DEF Closed
<1>7. Allocated(r)'
  BY <1>1, <1>2, <1>3, <1>5, <1>6 DEF Allocated
<1>8. TwoBefore(k) => writer[r].alloc
  BY <1>1, <1>3, NextPosition DEF Allocated
<1>9. Drained(r)'
  BY <1>1, <1>3, <1>5, <1>8 DEF Drained, MustDrain
<1> QED BY <1>7, <1>9

\* The start of the worker clears the caches.
LEMMA ScheduleKeepsAllocation ==
    ASSUME TypeOK, NEW r \in Ranks, InScript(r), Allocated(r), Drained(r), ScheduleAsyncCall(r)
    PROVE  Allocated(r)' /\ Drained(r)'
<1>1. /\ UNCHANGED <<at, script, saves, calls, drain>>
      /\ pc[r] = "schedule" /\ pc'[r] = "staging"
  BY RankTypes DEF ScheduleAsyncCall, Goto, plan, calling
<1>2. /\ worker'[r] = IF worker[r].state = "none" THEN Spawned ELSE worker[r]
      /\ writer'[r] = IF worker[r].state = "none" THEN NoCache ELSE writer[r]
  BY RankTypes DEF ScheduleAsyncCall
<1>3. /\ worker'[r].state # "none"
      /\ writer'[r].alloc <=> worker[r].state # "none"
  BY <1>1, <1>2 DEF Spawned, NoCache, Allocated
<1>4. PICK k \in Nat \ {0} : k = at[r] /\ k <= Len(script) + 1
  BY RankTypes DEF InScript
<1>5. Grows /\ ScriptKept
  BY <1>1, ScriptStays
<1>6. SaveBefore(at[r])' = SaveBefore(k) /\ TwoBefore(at[r])' = TwoBefore(k)
  BY <1>1, <1>4, <1>5, AtPoint
<1>7. worker[r].state # "none" <=> SaveBefore(k)
  <2>1. k <= Len(script)
    BY <1>1, <1>4 DEF InScript
  <2>2. ~Closed(r)
    BY <1>4, <2>1, ScriptTypes DEF Closed
  <2> QED BY <1>1, <1>4, <2>2 DEF Allocated
<1>8. Allocated(r)'
  BY <1>1, <1>3, <1>6, <1>7 DEF Allocated
<1>9. Drained(r)'
  BY <1>1, <1>4, <1>6 DEF Drained
<1> QED BY <1>8, <1>9

\* A rank leaves its operation.
LEMMA LeavingKeepsAllocation ==
    ASSUME TypeOK, ScriptInOrder, NEW r \in Ranks, Accounted(r), InOperation(r),
           Allocated(r), Drained(r), r \in setup.holders,
           ScheduleNothing(r) \/ ReturnFromStaging(r) \/ ReturnFromPoll(r) \/ Close(r)
    PROVE  Allocated(r)' /\ Drained(r)'
<1>1. /\ UNCHANGED <<script, saves, writer>> /\ pc[r] \in {"staging", "poll"}
      /\ at'[r] = at[r] + 1 /\ pc'[r] = "train"
      /\ pc[r] = "staging" => ReturnFromStaging(r)
  BY RankTypes
  DEF ScheduleNothing, ReturnFromStaging, ReturnFromPoll, Close, Done, Goto, plan, staging
<1>2. at[r] <= Len(script) /\ (IsSave(at[r]) <=> pc[r] = "staging")
  BY <1>1 DEF Accounted, InScript, InOperation, IsSave, Op
<1>3. PICK k \in Nat \ {0} : k = at[r] /\ k <= Len(script) /\ Len(script) \in Nat
  BY <1>2, RankTypes, ScriptTypes
<1>4. Grows /\ ScriptKept
  BY <1>1, ScriptStays
<1>5. /\ SaveBefore(at[r])' = SaveBefore(k + 1) /\ TwoBefore(at[r])' = TwoBefore(k + 1)
  <2>1. k + 1 \in Nat /\ k + 1 <= Len(script) + 1 /\ at'[r] = k + 1
    BY <1>1, <1>3
  <2> QED BY <1>4, <2>1, AtPoint
<1>6. /\ SaveBefore(k + 1) <=> SaveBefore(k) \/ IsSave(k)
      /\ TwoBefore(k + 1) <=> TwoBefore(k) \/ (IsSave(k) /\ SaveBefore(k))
      /\ TwoBefore(k) => SaveBefore(k)
  BY NextPosition
<1>7. SaveBefore(k + 1) => (writer'[r].alloc <=> TwoBefore(k + 1))
  BY <1>1, <1>2, <1>3, <1>6 DEF Allocated
<1>8. ~SaveBefore(k + 1) => worker'[r].state = "none"
  <2>1. CASE Close(r)
    <3>1. worker'[r] = NoWorker
      BY <2>1, RankTypes DEF Close
    <3> QED BY <3>1 DEF NoWorker, Spawned
  <2>2. CASE ~Close(r)
    <3>1. worker' = worker
      BY <2>2 DEF ScheduleNothing, ReturnFromStaging, ReturnFromPoll, writing
    <3> QED BY <1>1, <1>2, <1>3, <1>6, <3>1 DEF Allocated
  <2> QED BY <2>1, <2>2
<1>9. SaveBefore(k + 1) => worker'[r].state # "none" \/ Closed(r)'
  <2>1. CASE Close(r)
    <3>1. k \in 1 .. Len(script) /\ script[k].kind = "close"
      BY <1>3, <2>1 DEF Close, Op
    <3>2. k = Len(script)
      BY <3>1 DEF ScriptInOrder
    <3> QED BY <1>1, <1>3, <3>1, <3>2 DEF Closed
  <2>2. CASE ~Close(r)
    <3>1. worker' = worker
      BY <2>2 DEF ScheduleNothing, ReturnFromStaging, ReturnFromPoll, writing
    <3>2. pc[r] = "staging" => worker[r].state # "none"
      BY DEF Accounted, WithoutWorker, NothingDue
    <3>3. ~Closed(r)
      BY <1>3 DEF Closed
    <3> QED BY <1>1, <1>2, <1>3, <1>6, <3>1, <3>2, <3>3 DEF Allocated
  <2> QED BY <2>1, <2>2
<1> QED BY <1>1, <1>5, <1>7, <1>8, <1>9 DEF Allocated, Drained

\* Every step of a rank.
LEMMA StepKeepsAllocation ==
    ASSUME TypeOK, ScriptInOrder, NEW r \in Ranks, Accounted(r), InOperation(r),
           Allocated(r), Drained(r), setup.shm, r \in setup.holders, Step(r), Grows, ScriptKept
    PROVE  Allocated(r)' /\ Drained(r)'
<1>1. InScript(r)
  BY DEF Accounted
<1>2. CASE BeginSave(r) \/ BeginPoll(r)
  <2>1. /\ UNCHANGED <<at, writer, drain, worker>> /\ pc[r] = "train"
        /\ pc'[r] \in {"prepare", "poll"}
    BY <1>1, <1>2, BeginFacts DEF staging, writing
  <2> QED BY <1>1, <2>1, SameAllocation
<1>3. CASE Poll(r) \/ Finalize(r)
  <2>1. /\ UNCHANGED <<at, drain, worker>>
        /\ pc[r] \in {"prepare", "poll", "finalize"} /\ pc'[r] \in {"reduce", "finalize", "gather"}
    BY <1>3, RankTypes DEF Poll, Polling, Finalize, Goto, staging
  <2>2. writer'[r].alloc = writer[r].alloc
    <3>1. \/ writer'[r] = writer[r]
          \/ writer'[r] = [writer[r] EXCEPT !.sent = FALSE, !.ptr = None]
      BY <1>3, RankTypes DEF Poll, Finalize, staging
    <3>2. writer[r] \in Writers
      BY RankTypes
    <3>3. [writer[r] EXCEPT !.sent = FALSE, !.ptr = None].alloc = writer[r].alloc
      BY <3>2 DEF Writers
    <3> QED BY <3>1, <3>3
  <2> QED BY <1>1, <2>1, <2>2, SameAllocation
<1>4. CASE Worker(r) \/ WorkerDies(r)
  <2>1. /\ UNCHANGED <<at, pc, writer, drain, calls>>
        /\ worker[r].state # "none"
    BY <1>4 DEF Worker, WorkerStage, WorkerWrite, WorkerDies, staging, calling
  <2>2. worker'[r].state # "none"
    <3>1. CASE WorkerStage(r)
      <4>1. PICK c, i, g : worker'[r] = [state |-> IF c = None THEN "missed" ELSE "write",
                                         cache |-> c, id |-> i, good |-> g]
        BY <3>1, RankTypes DEF WorkerStage
      <4> QED BY <4>1
    <3>2. CASE WorkerWrite(r) \/ WorkerDies(r)
      BY <3>2, RankTypes DEF WorkerWrite, WorkerDies, WorkerStates
    <3> QED BY <1>4, <3>1, <3>2 DEF Worker
  <2> QED BY <1>1, <2>1, <2>2, SameAllocation
<1> QED
  BY <1>1, <1>2, <1>3, <1>4, PrepareKeepsAllocation, ScheduleKeepsAllocation,
     LeavingKeepsAllocation DEF Step, Trainer

-----------------------------------------------------------------------------
(* The collectives and the restart.                                           *)

\* A collective is entered by all ranks in the same operation.
LEMMA AllAtOnePoint ==
    ASSUME TypeOK, AccountInv, ScriptInOrder, RanksInOrder, BetweenRanks,
           (\A r \in Ranks : pc[r] = "reduce") \/ (\A r \in Ranks : pc[r] = "gather")
    PROVE  \A r, q \in Ranks : at[r] = at[q]
<1>1. \A r \in Ranks : /\ InScript(r) /\ at[r] \in Nat \ {0} /\ at[r] <= Len(script)
                       /\ Running(r) /\ RankInOrder(r)
  BY RankTypes DEF AccountInv, Accounted, InScript, Running, RanksInOrder
<1>2. ASSUME NEW r \in Ranks, NEW q \in Ranks, at[r] < at[q] PROVE FALSE
  <2>1. SaveBefore(at[r]) /\ ~NothingBefore(r, at[r])
    <3>1. calls[r] # << >> \/ pc[r] = "gather"
      BY DEF AccountInv, Accounted, VoteIsCovered
    <3> QED BY <1>1, <3>1, SomethingIsBefore DEF RankInOrder
  <2>2. at[r] \in at[r] .. at[q] - 1
    BY <1>1, <1>2
  <2>3. ~Empties(q, at[r], drain[r])
    BY <1>1, <2>1, <2>2 DEF BetweenRanks, InStep
  <2>4. IsSave(at[r]) /\ Op(r).kind = "save"
    BY <2>3 DEF Empties, IsSave, Op
  <2>5. pc[r] = "gather" /\ pc[q] = "gather"
    BY <1>1, <2>4 DEF RankInOrder, InOperation
  <2>6. MustDrain(r)
    BY <1>1, <2>4, <2>5 DEF RankInOrder, InOperation, Collective
  <2>7. Op(q).kind = "save"
    BY <1>1, <1>2, <2>5 DEF BetweenRanks, Together, Collective
  <2>8. MustDrain(q)
    BY <1>1, <2>5, <2>7 DEF RankInOrder, InOperation, Collective
  <2>9. TwoBefore(at[r])
    BY <1>1, <2>1, <2>5, <2>6 DEF RankInOrder, Allocated, MustDrain
  <2> QED BY <2>3, <2>6, <2>8, <2>9 DEF Empties, MustDrain
<1>3. ASSUME NEW r \in Ranks, NEW q \in Ranks PROVE at[r] = at[q]
  <2>1. at[r] \in Nat /\ at[q] \in Nat /\ ~(at[r] < at[q]) /\ ~(at[q] < at[r])
    BY <1>1, <1>2
  <2> QED BY <2>1
<1> QED BY <1>3

\* Ranks that leave a collective in the same operation.
LEMMA AtOnePointAgain ==
    ASSUME TypeOK, AccountInv, SameDrain, script' = script, saves' = saves, drain' = drain,
           \A r \in Ranks : Running(r) /\ at'[r] \in Nat /\ at[r] <= at'[r],
           \A r, q \in Ranks : at'[r] = at'[q],
           (\A r \in Ranks : Collective(r)') \/ (\A r \in Ranks : ~Collective(r)'),
           SamePending'
    PROVE  BetweenRanks'
<1>1. InStep'
  BY DEF InStep
<1>2. Together'
  BY DEF Together
<1>3. SameDrain'
  <2>1. Grows
    BY DEF Grows
  <2>2. \A q \in Ranks : Closed(q) => Closed(q)'
    BY <2>1, ClosedStays
  <2> QED BY <2>2 DEF SameDrain
<1> QED BY <1>1, <1>2, <1>3 DEF BetweenRanks

\* A rank leaves a collective with its operation: a poll that found not all done, or a
\* drain, or a poll, that ends in an exception.
LEMMA CollectiveKeepsAllocation ==
    ASSUME TypeOK, ScriptInOrder, NEW r \in Ranks, Accounted(r), RankInOrder(r),
           setup.shm, r \in setup.holders,
           pc[r] \in {"reduce", "gather"}, pc'[r] \in {"train", "poll", "prepare", "finalize"},
           at'[r] = at[r] \/ at'[r] = at[r] + 1,
           UNCHANGED <<script, saves, writer, worker, drain>>
    PROVE  Allocated(r)' /\ Drained(r)'
<1>1. Grows /\ ScriptKept /\ Allocated(r) /\ Drained(r) /\ InScript(r)
  BY ScriptStays DEF RankInOrder, Accounted
<1>2. CASE at'[r] = at[r]
  BY <1>1, <1>2, SameAllocation
<1>3. CASE at'[r] = at[r] + 1
  <2>1. PICK k \in Nat \ {0} : k = at[r] /\ k <= Len(script) /\ Len(script) \in Nat
    BY <1>1, RankTypes, ScriptTypes DEF InScript
  <2>2. /\ SaveBefore(at[r])' = SaveBefore(k + 1) /\ TwoBefore(at[r])' = TwoBefore(k + 1)
    <3>1. k + 1 \in Nat /\ k + 1 <= Len(script) + 1 /\ at'[r] = k + 1
      BY <1>3, <2>1
    <3> QED BY <1>1, <3>1, AtPoint
  <2>3. /\ SaveBefore(k + 1) <=> SaveBefore(k) \/ IsSave(k)
        /\ TwoBefore(k + 1) <=> TwoBefore(k) \/ (IsSave(k) /\ SaveBefore(k))
        /\ TwoBefore(k) => SaveBefore(k)
    BY NextPosition
  <2>4. SaveBefore(k)
    <3>1. calls[r] # << >> \/ pc[r] = "gather"
      BY DEF Accounted, VoteIsCovered
    <3> QED BY <1>1, <2>1, <3>1, SomethingIsBefore DEF RankInOrder
  <2>5. IsSave(k) => writer[r].alloc
    BY <2>1 DEF RankInOrder, InOperation, Collective, MustDrain, IsSave, Op
  <2>6. writer[r].alloc <=> TwoBefore(k + 1)
    BY <1>1, <2>1, <2>3, <2>4, <2>5 DEF Allocated
  <2>7. worker[r].state # "none"
    BY <1>1, <2>1, <2>4 DEF Allocated, Closed
  <2> QED BY <2>2, <2>3, <2>4, <2>6, <2>7 DEF Allocated, Drained
<1> QED BY <1>2, <1>3

\* The all_reduce.
LEMMA ReduceKeepsOrder ==
    ASSUME TypeOK, AccountInv, ScriptInOrder, RanksInOrder, BetweenRanks, AllReduce
    PROVE  BetweenRanks' /\ RanksInOrder' /\ (\A r \in Ranks : PendingKept(r))
<1>1. /\ \A r \in Ranks : pc[r] = "reduce"
      /\ UNCHANGED <<setup, script, saves, calls, drain, writer, worker>>
      /\ \/ \A r \in Ranks : pc'[r] = "finalize" /\ at'[r] = at[r]
         \/ \A r \in Ranks : pc'[r] = "train" /\ at'[r] = at[r] + 1
  BY DEF AllReduce, Reduce, plan, staging, writing
<1>2. \A r, q \in Ranks : at[r] = at[q]
  BY <1>1, AllAtOnePoint
<1>3. Grows /\ ScriptKept
  BY <1>1, ScriptStays
<1>4. ASSUME NEW r \in Ranks
      PROVE  /\ InScript(r) /\ Accounted(r) /\ Running(r) /\ RankInOrder(r)
             /\ at[r] \in Nat \ {0} /\ at[r] <= Len(script)
             /\ Op(r).kind # "save"
  <2>1. Accounted(r) /\ Running(r) /\ RankInOrder(r)
    BY <1>1 DEF AccountInv, Running, RanksInOrder
  <2> QED BY <1>1, <2>1, RankTypes DEF Accounted, InScript, RankInOrder, InOperation
<1>5. ASSUME NEW r \in Ranks PROVE PendingKept(r) /\ CallsInOrder(r)'
  <2>1. PendingKept(r)
    <3>1. CASE at'[r] = at[r]
      BY <1>1, <1>3, <1>4, <3>1, RestKeepsPending
    <3>2. CASE at'[r] = at[r] + 1 /\ pc'[r] # "gather"
      BY <1>1, <1>4, <3>2, PassingKeepsPending
    <3> QED BY <1>1, <3>1, <3>2
  <2>2. CallsInOrder(r)'
    BY <1>1, <1>3, <1>4, RestKeepsOrder DEF RankInOrder
  <2> QED BY <2>1, <2>2
<1>6. SamePending'
  BY <1>4, <1>5 DEF SamePending, PendingKept, BetweenRanks
<1>7. BetweenRanks'
  <2>1. \A r \in Ranks : Running(r) /\ at'[r] \in Nat /\ at[r] <= at'[r]
    BY <1>1, <1>4
  <2>2. \A r, q \in Ranks : at'[r] = at'[q]
    BY <1>1, <1>2
  <2>3. (\A r \in Ranks : Collective(r)') \/ (\A r \in Ranks : ~Collective(r)')
    BY <1>1 DEF Collective
  <2> QED BY <1>1, <1>6, <2>1, <2>2, <2>3, AtOnePointAgain DEF BetweenRanks
<1>8. ASSUME NEW r \in Ranks PROVE RankInOrder(r)'
  <2>1. InOperation(r)'
    BY <1>1, <1>4 DEF InOperation, Collective, Op
  <2>2. setup.shm /\ r \in setup.holders => Allocated(r)' /\ Drained(r)'
    BY <1>1, <1>4, CollectiveKeepsAllocation
  <2> QED BY <1>1, <1>5, <2>1, <2>2 DEF RankInOrder
<1> QED BY <1>5, <1>7, <1>8 DEF RanksInOrder

\* Where the gather takes a rank.
LEMMA GatherFacts ==
    ASSUME TypeOK, AccountInv, Gather, NEW r \in Ranks
    PROVE  /\ pc[r] = "gather" /\ vote[r].id \in Saves
           /\ at[r] \in Nat \ {0} /\ at[r] <= Len(script) /\ Running(r) /\ InScript(r)
           /\ UNCHANGED <<setup, script, saves, calls, cur_item, drain, writer, worker, comp_q>>
           /\ UNCHANGED <<results, files, leftover>>
           /\ pc'[r] \in {"prepare", "train", "poll"}
           /\ pc'[r] = "prepare" => Op(r).kind = "save"
           /\ pc'[r] = "poll" => Op(r).kind # "save"
           /\ at'[r] = IF pc'[r] = "train" THEN at[r] + 1 ELSE at[r]
<1>1. pc[r] = "gather" /\ InScript(r)
  BY DEF Gather, AccountInv, Accounted
<1>2. vote[r].id \in Saves /\ at[r] \in Nat \ {0} /\ at[r] <= Len(script)
  BY <1>1, RankTypes DEF InScript, Votes
<1>3. /\ pc'[r] \in {"prepare", "train", "poll"}
      /\ pc'[r] = "prepare" => Op(r).kind = "save"
      /\ pc'[r] = "poll" => Op(r).kind # "save"
      /\ at'[r] = IF pc'[r] = "train" THEN at[r] + 1 ELSE at[r]
  BY DEF Gather
<1> QED BY <1>1, <1>2, <1>3 DEF Gather, Running, plan, staging, writing, faults

\* All ranks gather for the same save.
LEMMA VotesAgree ==
    ASSUME TypeOK, AccountInv, ScriptInOrder, RanksInOrder, BetweenRanks, Gather
    PROVE  \A r, q \in Ranks : vote[r].id = vote[q].id
<1>1. \A r, q \in Ranks : at[r] = at[q]
  <2>1. \A r \in Ranks : pc[r] = "gather"
    BY DEF Gather
  <2> QED BY <2>1, AllAtOnePoint
<1>2. ASSUME NEW r \in Ranks, NEW q \in Ranks PROVE vote[q].id <= vote[r].id
  <2>1. PICK s \in Saves : s = vote[r].id
    BY GatherFacts
  <2>2. PICK t \in Saves : t = vote[q].id
    BY GatherFacts
  <2>3. /\ pc[r] = "gather" /\ pc[q] = "gather" /\ Running(r) /\ Running(q)
        /\ CallsInOrder(r) /\ CallsInOrder(q) /\ InScript(r) /\ InScript(q)
    BY GatherFacts DEF RanksInOrder, RankInOrder
  <2>4. Pending(q, s)
    BY <2>1, <2>3 DEF Pending, BetweenRanks, SamePending
  <2>5. ~ToCome(at[q], s)
    <3>1. Scheduled(r, s)
      BY <2>1, <2>3 DEF CallsInOrder
    <3> QED BY <1>1, <2>3, <3>1, PassedIsOver
  <2>6. t = s \/ Waiting(q, s)
    BY <2>2, <2>4, <2>5 DEF Pending
  <2>7. Waiting(q, s) => t < s
    BY <2>2, <2>3 DEF Waiting, CallsInOrder
  <2>8. s \in Nat /\ t \in Nat
    BY DEF Saves
  <2>9. t <= s
    BY <2>6, <2>7, <2>8
  <2> QED BY <2>1, <2>2, <2>9
<1>3. ASSUME NEW r \in Ranks, NEW q \in Ranks PROVE vote[r].id = vote[q].id
  <2>1. vote[r].id \in Nat /\ vote[q].id \in Nat
    BY GatherFacts DEF Saves
  <2>2. vote[r].id <= vote[q].id /\ vote[q].id <= vote[r].id
    BY <1>2
  <2> QED BY <2>1, <2>2
<1> QED BY <1>3

\* The gather: its save, and the save of a drain that fails, are no longer pending.
LEMMA GatherKeepsOrder ==
    ASSUME TypeOK, AccountInv, ScriptInOrder, RanksInOrder, BetweenRanks, Gather
    PROVE  /\ BetweenRanks' /\ RanksInOrder'
           /\ \A r \in Ranks, s \in Saves :
                 Pending(r, s)' => Pending(r, s) /\ s # vote[Coordinator].id
<1>1. \A r \in Ranks :
        /\ pc[r] = "gather" /\ Running(r) /\ InScript(r) /\ Accounted(r) /\ RankInOrder(r)
        /\ at[r] \in Nat \ {0} /\ at[r] <= Len(script)
        /\ pc'[r] \in {"prepare", "train", "poll"}
        /\ at'[r] = at[r] \/ at'[r] = at[r] + 1
  BY GatherFacts DEF AccountInv, RanksInOrder
<1>2. \A r, q \in Ranks : at[r] = at[q]
  BY <1>1, AllAtOnePoint
<1>3. \A r, q \in Ranks : at'[r] = at'[q]
  <2>1. \A r, q \in Ranks : pc'[r] = pc'[q]
    BY <1>2 DEF Gather, Op
  <2> QED BY <1>2, <2>1, GatherFacts
<1>4. PICK v \in Saves : \A r \in Ranks : vote[r].id = v
  BY VotesAgree, GatherFacts, CoordinatorAssumption
<1>5. UNCHANGED <<setup, script, saves, calls, drain, writer, worker>>
  BY DEF Gather, plan, staging, writing
<1>6. ASSUME NEW r \in Ranks, NEW s \in Saves
      PROVE  /\ Pending(r, s)' <=> Waiting(r, s) \/ ToCome(at[r], s)'
             /\ ToCome(at[r], s)' => ToCome(at[r], s) /\ s # v
             /\ Waiting(r, s) => Scheduled(r, s) /\ s # v
  <2>1. Waiting(r, s)' <=> Waiting(r, s)
    BY <1>5 DEF Waiting
  <2>2. Pending(r, s)' <=> Waiting(r, s) \/ ToCome(at[r], s)'
    BY <1>1, <2>1 DEF Pending
  <2>3. ToCome(at[r], s)' => ToCome(at[r], s)
    <3>1. \A i : i \in at'[r] .. Len(script) => i \in at[r] .. Len(script)
      BY <1>1, ScriptTypes
    <3> QED BY <1>5, <3>1 DEF ToCome
  <2>4. ~ToCome(at[r], v)
    <3>1. Scheduled(r, v)
      BY <1>1, <1>4 DEF RankInOrder, CallsInOrder
    <3> QED BY <1>1, <3>1, PassedIsOver
  <2>5. Waiting(r, s) => Scheduled(r, s) /\ v < s
    BY <1>1, <1>4 DEF RankInOrder, CallsInOrder, Waiting
  <2>6. v < s => s # v
    BY DEF Saves
  <2> QED BY <2>2, <2>3, <2>4, <2>5, <2>6
<1>7. SamePending'
  <2> SUFFICES ASSUME NEW r \in Ranks, NEW q \in Ranks, NEW s \in Saves, Pending(r, s)'
               PROVE  Pending(q, s)'
    BY DEF SamePending
  <2>1. CASE Waiting(r, s)
    <3>1. Pending(q, s)
      BY <1>1, <2>1 DEF Pending, BetweenRanks, SamePending
    <3>2. Scheduled(r, s) /\ s # v
      BY <1>6, <2>1
    <3>3. ~ToCome(at[q], s)
      BY <1>1, <1>2, <3>2, PassedIsOver
    <3>4. Waiting(q, s)
      BY <1>1, <1>4, <3>1, <3>2, <3>3 DEF Pending
    <3> QED BY <1>6, <3>4
  <2>2. CASE ToCome(at[r], s)'
    <3>1. ToCome(at[q], s)'
      BY <1>3, <2>2 DEF ToCome
    <3> QED BY <1>6, <3>1
  <2> QED BY <1>6, <2>1, <2>2
<1>8. BetweenRanks'
  <2>1. \A r \in Ranks : Running(r) /\ at'[r] \in Nat /\ at[r] <= at'[r]
    BY <1>1
  <2>2. \A r \in Ranks : ~Collective(r)'
    BY <1>1 DEF Collective
  <2> QED BY <1>3, <1>5, <1>7, <2>1, <2>2, AtOnePointAgain DEF BetweenRanks
<1>9. ASSUME NEW r \in Ranks PROVE RankInOrder(r)'
  <2>1. CallsInOrder(r)'
    <3>1. ScriptKept
      BY <1>5, ScriptStays
    <3> QED BY <1>1, <1>5, <3>1, RestKeepsOrder DEF RankInOrder
  <2>2. InOperation(r)'
    BY <1>1, <1>5, GatherFacts DEF InOperation, Collective, Op
  <2>3. setup.shm /\ r \in setup.holders => Allocated(r)' /\ Drained(r)'
    BY <1>1, <1>5, CollectiveKeepsAllocation
  <2> QED BY <1>5, <2>1, <2>2, <2>3 DEF RankInOrder
<1>10. \A r \in Ranks, s \in Saves :
          Pending(r, s)' => Pending(r, s) /\ s # vote[Coordinator].id
  BY <1>4, <1>6, CoordinatorAssumption DEF Pending
<1> QED BY <1>8, <1>9, <1>10 DEF RanksInOrder

\* A restart that leaves nothing: the ranks begin another life.
LEMMA RestartInOrder ==
    ASSUME TypeOK, AccountInv, EndRestart, ~leftover'
    PROVE  /\ ScriptInOrder' /\ RanksInOrder' /\ BetweenRanks'
           /\ ~leftover /\ UNCHANGED <<setup, saves, files, published>>
           /\ \A r \in Ranks : /\ pc'[r] = "train" /\ results'[r] = << >>
                              /\ cur_item'[r] = None /\ comp_q'[r] = << >>
           /\ \A r \in Ranks : \A s : ~Pending(r, s)'
<1>1. PICK another \in BOOLEAN : drain' = [r \in Ranks |-> another /\ setup.shm]
  BY DEF EndRestart
<1>2. /\ script' = << >> /\ Len(script') = 0
      /\ \A r \in Ranks : pc'[r] = "train" /\ at'[r] = 1 /\ pc[r] = "aborted"
      /\ \A r, q \in Ranks : drain'[r] = drain'[q]
  BY <1>1 DEF EndRestart
<1>3. /\ ~leftover /\ \A r \in Ranks : calls'[r] = << >> /\ results[r] = << >>
      /\ UNCHANGED <<setup, saves, files, published, cur_item, comp_q, results, worker>>
  BY DEF EndRestart, writing
<1>4. ScriptInOrder'
  BY <1>2 DEF ScriptInOrder
<1>5. \A r \in Ranks : \A s : ~Pending(r, s)'
  <2>1. \A r \in Ranks : Len(calls'[r]) = 0
    BY <1>3
  <2> QED BY <1>2, <2>1 DEF Pending, Waiting, ToCome
<1>6. BetweenRanks'
  BY <1>2, <1>5 DEF BetweenRanks, SamePending, InStep, Together, SameDrain, Collective
<1>7. ASSUME NEW r \in Ranks
      PROVE  /\ worker[r].state = "none" /\ cur_item[r] = None /\ comp_q[r] = << >>
  BY <1>2 DEF AccountInv, Accounted, WithoutWorker, NothingDue
<1>8. ASSUME NEW r \in Ranks PROVE RankInOrder(r)'
  <2>1. CallsInOrder(r)'
    <3>1. Len(calls'[r]) = 0
      BY <1>3
    <3> QED BY <1>2, <3>1 DEF CallsInOrder
  <2>2. InOperation(r)' /\ Drained(r)'
    BY <1>2 DEF InOperation, Drained, Collective
  <2>3. ~SaveBefore(at[r])'
    BY <1>2 DEF SaveBefore
  <2>4. Allocated(r)'
    BY <1>2, <1>3, <1>7, <2>3 DEF Allocated
  <2> QED BY <2>1, <2>2, <2>4 DEF RankInOrder
<1> QED BY <1>2, <1>3, <1>4, <1>5, <1>6, <1>7, <1>8 DEF RanksInOrder

-----------------------------------------------------------------------------
(* All steps.                                                                 *)

\* What a step of one rank, or none, leaves as it is.
LEMMA StepFacts ==
    ASSUME TypeOK, NEW r \in Ranks, Step(r) \/ Abort(r)
    PROVE  /\ UNCHANGED <<setup, leftover, published>>
           /\ \A q \in Ranks : q # r => results'[q] = results[q] /\ files'[q] = files[q]
<1>1. CASE BeginSave(r) \/ BeginPoll(r)
  BY <1>1 DEF BeginSave, BeginPoll, writing, outcome, faults
<1>2. CASE PrepareWriteData(r) \/ ScheduleNothing(r) \/ ScheduleAsyncCall(r) \/ ReturnFromStaging(r)
  BY <1>2
  DEF PrepareWriteData, ScheduleNothing, ScheduleAsyncCall, ReturnFromStaging, plan, writing,
      outcome, faults
<1>3. CASE Poll(r) \/ ReturnFromPoll(r) \/ Close(r)
  BY <1>3 DEF Poll, ReturnFromPoll, Close, plan, writing, outcome, faults
<1>4. CASE Finalize(r)
  BY <1>4 DEF Finalize, TypeOK, plan, faults
<1>5. CASE WorkerStage(r) \/ WorkerDies(r) \/ Abort(r)
  BY <1>5 DEF WorkerStage, WorkerDies, Abort, plan, outcome, faults
<1>6. CASE WorkerWrite(r)
  BY <1>6 DEF WorkerWrite, TypeOK, plan, outcome
<1> QED BY <1>1, <1>2, <1>3, <1>4, <1>5, <1>6 DEF Step, Trainer, Worker

\* Only a rank that runs takes steps.
LEMMA OnlyRunning ==
    ASSUME TypeOK, NEW r \in Ranks, Accounted(r), Step(r)
    PROVE  Running(r)
<1>1. CASE Trainer(r)
  <2>1. pc[r] \in {"train", "prepare", "schedule", "staging", "poll", "finalize"}
    BY <1>1
    DEF Trainer, BeginSave, BeginPoll, Undertake, PrepareWriteData, ScheduleNothing,
        ScheduleAsyncCall, ReturnFromStaging, Poll, Polling, Finalize, ReturnFromPoll, Close
  <2> QED BY <2>1 DEF Running
<1>2. CASE Worker(r) \/ WorkerDies(r)
  <2>1. worker[r].state # "none"
    BY <1>2 DEF Worker, WorkerStage, WorkerWrite, WorkerDies
  <2> QED BY <2>1 DEF Accounted, WithoutWorker, Running
<1> QED BY <1>1, <1>2 DEF Step

\* The order that ranks keep among themselves if each of them moves in turn.
LEMMA MovesKeepRanks ==
    ASSUME TypeOK, TypeOK', AccountInv, ScriptInOrder, BetweenRanks,
           Grows, ScriptKept, setup' = setup, Moves,
           \A r \in Ranks : Running(r)' /\ setup.shm /\ r \in setup.holders =>
               Allocated(r)' /\ Drained(r)'
    PROVE  ScriptInOrder' /\ RanksInOrder' /\ BetweenRanks'
<1>1. ScriptInOrder'
  BY GrowsInOrder
<1>2. BetweenRanks'
  BY MovesKeepOrder
<1>3. ASSUME NEW r \in Ranks, Running(r)' PROVE RankInOrder(r)'
  <2>1. CallsInOrder(r)' /\ InOperation(r)'
    BY <1>3 DEF Moves, InTurn
  <2> QED BY <1>3, <2>1 DEF RankInOrder
<1> QED BY <1>1, <1>2, <1>3 DEF RanksInOrder

\* A rank that takes no part keeps its allocation.
LEMMA BystanderAllocation ==
    ASSUME TypeOK, Grows, ScriptKept, NEW q \in Ranks, Accounted(q), Allocated(q), Drained(q),
           Untouched(q), drain'[q] = drain[q], writer'[q] = writer[q]
    PROVE  Allocated(q)' /\ Drained(q)'
BY SameAllocation DEF Untouched, Accounted

\* A step of one rank.
LEMMA StepKeepsOrder ==
    ASSUME TypeOK, TypeOK', AccountInv, ScriptInOrder, RanksInOrder, BetweenRanks,
           NEW r \in Ranks, Step(r)
    PROVE  ScriptInOrder' /\ RanksInOrder' /\ BetweenRanks' /\ Moves /\ ScriptKept
<1>1. Accounted(r) /\ Running(r) /\ RankInOrder(r)
  BY OnlyRunning DEF AccountInv, RanksInOrder
<1>2. InTurn(r) /\ Grows /\ ScriptKept /\ setup' = setup
  BY <1>1, StepInTurn DEF RankInOrder
<1>3. ASSUME NEW q \in Ranks, q # r
      PROVE  /\ Accounted(q) /\ Untouched(q) /\ drain'[q] = drain[q] /\ writer'[q] = writer[q]
             /\ Running(q)' <=> Running(q)
             /\ Running(q) => RankInOrder(q)
  BY <1>3, OthersUntouched, OthersKeepHandles DEF Step, AccountInv, RanksInOrder, Running, Untouched
<1>4. Moves
  <2> SUFFICES ASSUME NEW q \in Ranks, Running(q)' PROVE Running(q) /\ InTurn(q)
    BY DEF Moves
  <2>1. CASE q # r
    BY <1>2, <1>3, <2>1, BystanderInTurn DEF RankInOrder
  <2> QED BY <1>1, <1>2, <2>1
<1>5. ASSUME NEW q \in Ranks, Running(q)', setup.shm, q \in setup.holders
      PROVE  Allocated(q)' /\ Drained(q)'
  <2>1. CASE q # r
    BY <1>2, <1>3, <1>5, <2>1, BystanderAllocation DEF RankInOrder
  <2>2. CASE q = r
    BY <1>1, <1>2, <1>5, <2>2, StepKeepsAllocation DEF RankInOrder
  <2> QED BY <2>1, <2>2
<1> QED BY <1>2, <1>4, <1>5, MovesKeepRanks

\* An abort, the beginning of a restart, and a step of nobody.
LEMMA AbortKeepsOrder ==
    ASSUME TypeOK, TypeOK', AccountInv, ScriptInOrder, RanksInOrder, BetweenRanks,
           (\E r \in Ranks : Abort(r)) \/ BeginRestart \/ UNCHANGED vars
    PROVE  ScriptInOrder' /\ RanksInOrder' /\ BetweenRanks' /\ Moves /\ ScriptKept
<1>1. UNCHANGED <<setup, script, saves>>
  BY DEF Abort, BeginRestart, vars, plan
<1>2. Grows /\ ScriptKept
  BY <1>1, ScriptStays
<1>3. ASSUME NEW q \in Ranks, Running(q)'
      PROVE  /\ Running(q) /\ Untouched(q) /\ drain'[q] = drain[q] /\ writer'[q] = writer[q]
  <2>1. ASSUME NEW r \in Ranks, Abort(r)
        PROVE  Running(q) /\ Untouched(q) /\ drain'[q] = drain[q] /\ writer'[q] = writer[q]
    <3>1. q # r
      BY <1>3, <2>1, RankTypes DEF Abort, Goto, Running
    <3>2. Untouched(q) /\ drain'[q] = drain[q] /\ writer'[q] = writer[q]
      BY <2>1, <3>1, OthersUntouched, OthersKeepHandles
    <3> QED BY <1>3, <3>2 DEF Running, Untouched
  <2>2. CASE BeginRestart \/ UNCHANGED vars
    BY <1>3, <2>2 DEF BeginRestart, Untouched, Running, vars, plan, calling, writing, staging
  <2> QED BY <2>1, <2>2
<1>4. \A q \in Ranks : Running(q) => Accounted(q) /\ RankInOrder(q)
  BY DEF AccountInv, RanksInOrder
<1>5. Moves
  BY <1>2, <1>3, <1>4, BystanderInTurn DEF Moves, RankInOrder
<1>6. \A q \in Ranks : Running(q)' /\ setup.shm /\ q \in setup.holders =>
         Allocated(q)' /\ Drained(q)'
  BY <1>2, <1>3, <1>4, BystanderAllocation DEF RankInOrder
<1> QED BY <1>1, <1>2, <1>5, <1>6, MovesKeepRanks

\* What restarts have left is still there after every step.
LEMMA LeftoverStays ==
    ASSUME [Next]_vars, ~leftover'
    PROVE  ~leftover
<1>1. ASSUME NEW r \in Ranks, Trainer(r) \/ Worker(r) \/ WorkerDies(r) \/ Abort(r)
      PROVE  leftover' = leftover
  BY <1>1
  DEF Trainer, BeginSave, BeginPoll, PrepareWriteData, ScheduleNothing, ScheduleAsyncCall,
      ReturnFromStaging, Poll, Finalize, ReturnFromPoll, Close, Worker, WorkerStage, WorkerWrite,
      WorkerDies, Abort, faults
<1>2. CASE AllReduce \/ Gather \/ BeginRestart \/ UNCHANGED vars
  BY <1>2 DEF AllReduce, Reduce, Gather, BeginRestart, vars, faults
<1>3. CASE EndRestart
  BY <1>3 DEF EndRestart
<1> QED BY <1>1, <1>2, <1>3 DEF Next, Restart

\* The order is kept by every step.
LEMMA StepsKeepOrder ==
    ASSUME TypeOK, AccountInv, OrderInv, [Next]_vars
    PROVE  OrderInv'
<1> SUFFICES ASSUME ~leftover' PROVE ScriptInOrder' /\ RanksInOrder' /\ BetweenRanks'
  BY DEF OrderInv
<1>1. ScriptInOrder /\ RanksInOrder /\ BetweenRanks
  BY LeftoverStays DEF OrderInv
<1>2. TypeOK'
  BY StepsKeepTypes
<1>3. CASE \E r \in Ranks : Step(r)
  BY <1>1, <1>2, <1>3, StepKeepsOrder
<1>4. CASE (\E r \in Ranks : Abort(r)) \/ BeginRestart \/ UNCHANGED vars
  BY <1>1, <1>2, <1>4, AbortKeepsOrder
<1>5. CASE AllReduce \/ Gather
  <2>1. script' = script /\ saves' = saves
    BY <1>5 DEF AllReduce, Reduce, Gather, plan
  <2>2. ScriptInOrder'
    BY <1>1, <2>1 DEF ScriptInOrder, IsSave
  <2> QED BY <1>1, <1>5, <2>2, ReduceKeepsOrder, GatherKeepsOrder
<1>6. CASE EndRestart
  BY <1>6, RestartInOrder
<1> QED BY <1>3, <1>4, <1>5, <1>6 DEF Next, Restart, Step

\* At the start nothing has begun.
LEMMA OrderInit == Init => OrderInv
<1> SUFFICES ASSUME Init PROVE ScriptInOrder /\ RanksInOrder /\ BetweenRanks
  BY DEF OrderInv
<1>1. script = << >> /\ Len(script) = 0
  BY DEF Init
<1>2. \A r \in Ranks : /\ pc[r] = "train" /\ at[r] = 1 /\ calls[r] = << >>
                       /\ drain[r] = setup.shm
  BY DEF Init
<1>3. ScriptInOrder
  BY <1>1 DEF ScriptInOrder
<1>4. \A r \in Ranks : \A s : ~Pending(r, s)
  <2>1. \A r \in Ranks : Len(calls[r]) = 0
    BY <1>2
  <2> QED BY <1>1, <1>2, <2>1 DEF Pending, Waiting, ToCome
<1>5. BetweenRanks
  BY <1>2, <1>4 DEF BetweenRanks, SamePending, InStep, Together, SameDrain, Collective
<1>6. ASSUME NEW r \in Ranks PROVE RankInOrder(r)
  <2>1. CallsInOrder(r)
    <3>1. Len(calls[r]) = 0
      BY <1>2
    <3> QED BY <1>2, <3>1 DEF CallsInOrder
  <2>2. InOperation(r) /\ Drained(r)
    BY <1>2 DEF InOperation, Drained, Collective
  <2>3. ~SaveBefore(at[r])
    BY <1>2 DEF SaveBefore
  <2>4. worker[r].state = "none"
    BY DEF Init, NoWorker, Spawned
  <2>5. Allocated(r)
    BY <1>2, <2>3, <2>4 DEF Allocated
  <2> QED BY <2>1, <2>2, <2>5 DEF RankInOrder
<1> QED BY <1>3, <1>5, <1>6 DEF RanksInOrder

-----------------------------------------------------------------------------
(* The results.                                                               *)

\* In one life every call is live: the accounts begin at the call being finalized.
LEMMA LifeBooks ==
    ASSUME TypeOK, NEW r \in Ranks, Accounted(r), CallsInOrder(r)
    PROVE  \E n \in Nat :
             /\ n = Finalizing(r) + Held(r) /\ n <= Len(calls[r])
             /\ CompletedInOrder(r, n) /\ WrittenNext(r, n) /\ AllCounted(r, n)
             /\ n = 1 => cur_item[r] = None \/ pc[r] # "finalize"
             /\ n <= 1
<1>1. PICK d \in 0 .. Len(calls[r]) : Accounts(r, d)
  BY DEF Accounted
<1>2. PICK n \in Nat : /\ n = d + Held(r)
                       /\ CompletedInOrder(r, n) /\ WrittenNext(r, n) /\ AllCounted(r, n)
  BY <1>1 DEF Accounts
<1>3. Len(calls[r]) \in Nat
  BY SequencesOf
<1>4. d = Finalizing(r)
  <2>1. \A i \in 1 .. d : i = 1 /\ pc[r] = "finalize"
    BY <1>1, <1>3 DEF CallsInOrder, Accounts, Settled
  <2>2. pc[r] = "finalize" => d >= 1
    BY <1>1 DEF Accounts, Settled
  <2>3. d >= 2 => 2 \in 1 .. d
    BY <1>3
  <2>4. d >= 1 => 1 \in 1 .. d
    BY <1>3
  <2> QED BY <1>3, <2>1, <2>2, <2>3, <2>4 DEF Finalizing
<1>5. cur_item[r] # None => d = 0 /\ calls[r] # << >>
  BY <1>1 DEF Accounts, HeldIsFirst
<1>6. n <= Len(calls[r]) /\ n <= 1 /\ (n = 1 => cur_item[r] = None \/ pc[r] # "finalize")
  <2>1. calls[r] # << >> => Len(calls[r]) # 0
    BY SequencesOf
  <2>2. CASE cur_item[r] = None
    BY <1>2, <1>3, <1>4, <2>2 DEF Held, Finalizing
  <2>3. CASE cur_item[r] # None
    BY <1>2, <1>3, <1>4, <1>5, <2>1, <2>3 DEF Held, Finalizing
  <2> QED BY <2>2, <2>3
<1> QED BY <1>2, <1>4, <1>6

\* There are no more results than requests, and the next one is of the next request.
LEMMA ResultsFit ==
    ASSUME TypeOK, NEW r \in Ranks, Accounted(r), CallsInOrder(r), ResultsInOrder(r)
    PROVE  /\ Len(results[r]) \in Nat
           /\ Len(results[r]) <= Len(calls[r]) + Staging(r)
           /\ worker[r].state = "write" =>
                 /\ worker[r].id = Due(r, Len(results[r]) + 1)
                 /\ Len(results[r]) + 1 <= Len(calls[r]) + Staging(r)
<1>1. PICK n \in Nat :
        /\ n = Finalizing(r) + Held(r) /\ n <= Len(calls[r])
        /\ CompletedInOrder(r, n) /\ WrittenNext(r, n) /\ AllCounted(r, n)
  BY LifeBooks
<1>2. /\ Len(calls[r]) \in Nat /\ Staging(r) \in Nat /\ Len(queue[r]) \in Nat
      /\ results[r] \in Seq(Results) /\ Len(results[r]) \in Nat
  <2>1. results[r] \in Seq(Results)
    BY RankTypes
  <2>2. Len(results[r]) \in Nat
    BY <2>1
  <2>3. Staging(r) \in Nat
    BY SequencesOf
  <2> QED BY <2>1, <2>2, <2>3, SequencesOf
<1>3. PICK c \in Nat : c = Len(comp_q[r])
  BY SequencesOf
<1>4. Len(results[r]) = n + c
  BY <1>1, <1>3 DEF ResultsInOrder
<1>5. n + c <= Len(calls[r]) + Staging(r)
  <2>1. CASE c = 0
    BY <1>1, <1>2, <2>1
  <2>2. CASE c # 0
    <3>1. c \in 1 .. Len(comp_q[r])
      BY <1>3, <2>2
    <3> QED BY <1>1, <3>1 DEF CompletedInOrder
  <2> QED BY <2>1, <2>2
<1>6. ASSUME worker[r].state = "write"
      PROVE  worker[r].id = Due(r, n + c + 1) /\ n + c + 1 <= Len(calls[r]) + Staging(r)
  <2>1. worker[r].id = Due(r, n + c + 1)
    BY <1>1, <1>3, <1>6 DEF WrittenNext
  <2>2. n + c + 1 + Len(queue[r]) = Len(calls[r]) + Staging(r)
    BY <1>1, <1>3, <1>6 DEF AllCounted, Busy
  <2> QED BY <1>2, <2>1, <2>2
<1> QED BY <1>2, <1>4, <1>5, <1>6

\* The saves that are due are pending, each is younger than those before it.
LEMMA DuesAscend ==
    ASSUME TypeOK, ScriptInOrder, NEW r \in Ranks, InScript(r), CallsInOrder(r),
           NEW j \in Nat \ {0}, j <= Len(calls[r]) + Staging(r)
    PROVE  /\ Due(r, j) \in Saves /\ Pending(r, Due(r, j))
           /\ \A i \in 1 .. j - 1 : Due(r, i) \in Saves /\ Due(r, i) < Due(r, j)
           /\ pc[r] = "gather" => vote[r].id < Due(r, j)
<1>1. PICK n \in Nat : n = Len(calls[r])
  BY SequencesOf
<1>2. ASSUME NEW i \in 1 .. n PROVE Due(r, i) = calls[r][i].id /\ calls[r][i].id \in Saves
  <2>1. calls[r][i] \in Calls
    BY <1>1, SequencesOf
  <2>2. Due(r, i) = calls[r][i].id
    BY <1>1 DEF Due
  <2> QED BY <2>1, <2>2 DEF Calls
<1>3. CASE j \in 1 .. n
  <2>1. \A i \in 1 .. j - 1 : i \in 1 .. n /\ i < j
    BY <1>3
  <2>2. Waiting(r, calls[r][j].id)
    BY <1>1, <1>3 DEF Waiting
  <2>3. \A i \in 1 .. j - 1 : calls[r][i].id < calls[r][j].id
    BY <1>1, <1>3, <2>1 DEF CallsInOrder
  <2>4. pc[r] = "gather" => vote[r].id < calls[r][j].id
    BY <1>1, <1>3 DEF CallsInOrder
  <2> QED BY <1>2, <1>3, <2>1, <2>2, <2>3, <2>4 DEF Pending
<1>4. CASE j \notin 1 .. n
  <2>1. pc[r] = "staging" /\ j = n + 1 /\ Due(r, j) = Op(r).id
    <3>1. ~(j <= n) /\ j <= n + Staging(r)
      BY <1>1, <1>4
    <3>2. pc[r] = "staging" /\ j = n + 1
      BY <3>1 DEF Staging
    <3> QED BY <1>1, <3>1, <3>2 DEF Due
  <2>2. PICK k \in Nat \ {0} : k = at[r] /\ k <= Len(script) /\ Len(script) \in Nat
    BY <2>1, RankTypes, ScriptTypes DEF InScript
  <2>3. k \in 1 .. Len(script) /\ IsSave(k)
    BY <2>1, <2>2 DEF InScript, Op, IsSave
  <2>4. PICK t \in Saves : t = Op(r).id /\ script[k] = Save(t)
    BY <2>2, <2>3, ScriptTypes DEF Op
  <2>5. Pending(r, t)
    <3>1. k \in k .. Len(script)
      BY <2>3
    <3> QED BY <2>2, <2>4, <3>1 DEF Pending, ToCome
  <2>6. ASSUME NEW i \in 1 .. j - 1 PROVE Due(r, i) \in Saves /\ Due(r, i) < t
    <3>1. i \in 1 .. n
      BY <2>1
    <3>2. PICK s \in Saves : s = calls[r][i].id /\ Due(r, i) = s
      BY <1>2, <3>1
    <3>3. PICK m \in 1 .. k - 1 : script[m] = Save(s)
      BY <1>1, <2>2, <3>1, <3>2 DEF CallsInOrder, Scheduled
    <3>4. m \in 1 .. Len(script) /\ m < k
      BY <2>2
    <3>5. IsSave(m) /\ script[m].id = s /\ script[k].id = t
      BY <2>2, <2>3, <2>4, <3>3, <3>4, ScriptTypes DEF Op
    <3>6. s < t
      BY <2>3, <3>4, <3>5 DEF ScriptInOrder
    <3> QED BY <3>2, <3>6
  <2> QED BY <2>1, <2>4, <2>5, <2>6
<1> QED BY <1>3, <1>4

\* Requests that are due stay due where no call leaves the queue.
LEMMA DuesStay ==
    ASSUME TypeOK, NEW r \in Ranks, calls'[r] = calls[r],
           pc[r] = "staging" => Op(r)' = Op(r)
    PROVE  \A i \in 1 .. Len(calls[r]) + Staging(r) : Due(r, i)' = Due(r, i)
<1>1. Len(calls[r]) \in Nat
  BY SequencesOf
<1>2. CASE pc[r] = "staging"
  BY <1>2 DEF Due
<1>3. CASE pc[r] # "staging"
  <2>1. \A i \in 1 .. Len(calls[r]) + Staging(r) : i <= Len(calls[r])
    BY <1>1, <1>3 DEF Staging
  <2> QED BY <2>1 DEF Due
<1> QED BY <1>2, <1>3

\* No result comes or goes.
LEMMA SameResults ==
    ASSUME TypeOK, NEW r \in Ranks, Accounted(r), CallsInOrder(r), ResultsInOrder(r),
           results'[r] = results[r], files'[r] = files[r],
           Finalizing(r)' + Held(r)' + Len(comp_q'[r]) = Finalizing(r) + Held(r) + Len(comp_q[r]),
           \A i \in 1 .. Len(calls[r]) + Staging(r) : Due(r, i)' = Due(r, i),
           pc'[r] = "gather" => pc[r] = "gather" /\ vote'[r] = vote[r]
    PROVE  ResultsInOrder(r)'
<1>1. PICK n \in Nat : n = Len(results[r]) /\ n <= Len(calls[r]) + Staging(r)
  BY ResultsFit
<1>2. \A i \in 1 .. n : i \in 1 .. Len(calls[r]) + Staging(r)
  BY <1>1, SequencesOf
<1>3. \A i \in 1 .. n : results[r][i].id = Due(r, i)'
  BY <1>1, <1>2 DEF ResultsInOrder
<1>4. \A s : Whole(r, s)' <=> Whole(r, s)
  BY DEF Whole
<1>5. \A i \in 1 .. n : results[r][i].ok => Whole(r, results[r][i].id)'
  BY <1>1, <1>4 DEF ResultsInOrder
<1>6. pc'[r] = "gather" /\ vote'[r].ok => Whole(r, vote[r].id)'
  BY <1>4 DEF ResultsInOrder
<1>7. n = Finalizing(r)' + Held(r)' + Len(comp_q'[r])
  BY <1>1 DEF ResultsInOrder
<1> QED BY <1>1, <1>3, <1>5, <1>6, <1>7 DEF ResultsInOrder

\* A rank that takes no part in a step.
LEMMA BystanderResults ==
    ASSUME TypeOK, NEW q \in Ranks, Accounted(q), CallsInOrder(q), ResultsInOrder(q),
           Untouched(q), results'[q] = results[q], files'[q] = files[q]
    PROVE  ResultsInOrder(q)'
<1>1. InScript(q) /\ (at[q] <= Len(script) => Op(q)' = Op(q))
  BY BystanderInScript DEF Accounted
<1>2. \A i \in 1 .. Len(calls[q]) + Staging(q) : Due(q, i)' = Due(q, i)
  <2>1. pc[q] = "staging" => Op(q)' = Op(q)
    BY <1>1 DEF InScript
  <2> QED BY <2>1, DuesStay DEF Untouched
<1>3. Finalizing(q)' = Finalizing(q) /\ Held(q)' = Held(q) /\ comp_q'[q] = comp_q[q]
  BY DEF Untouched, Finalizing, Held
<1> QED BY <1>2, <1>3, SameResults DEF Untouched

\* A rank that goes on to a point that is neither in a collective nor staging.
LEMMA MovingResults ==
    ASSUME TypeOK, NEW r \in Ranks, Accounted(r), CallsInOrder(r), ResultsInOrder(r),
           pc[r] \notin {"finalize", "staging"}, pc'[r] \notin {"finalize", "gather"},
           calls'[r] = calls[r], cur_item'[r] = cur_item[r], comp_q'[r] = comp_q[r],
           results'[r] = results[r], files'[r] = files[r]
    PROVE  ResultsInOrder(r)'
<1>1. \A i \in 1 .. Len(calls[r]) + Staging(r) : Due(r, i)' = Due(r, i)
  BY DuesStay
<1>2. Finalizing(r)' = Finalizing(r) /\ Held(r)' = Held(r)
  BY DEF Finalizing, Held
<1> QED BY <1>1, <1>2, SameResults

\* The request that was staged is a call now.
LEMMA EnlistResults ==
    ASSUME TypeOK, NEW r \in Ranks, Accounted(r), CallsInOrder(r), ResultsInOrder(r),
           ReturnFromStaging(r)
    PROVE  ResultsInOrder(r)'
<1>1. /\ Enlist(r) /\ pc[r] = "staging" /\ pc'[r] = "train"
      /\ UNCHANGED <<cur_item, comp_q, results, files>>
  BY RankTypes DEF ReturnFromStaging, Done, Goto, writing
<1>2. PICK n \in Nat : n = Len(calls[r])
  BY SequencesOf
<1>3. Op(r).id \in Saves
  <2>1. at[r] \in 1 .. Len(script) /\ Op(r).kind = "save"
    BY <1>1, RankTypes, ScriptTypes DEF Accounted, InScript
  <2> QED BY <2>1, ScriptTypes DEF Op, IsSave
<1>4. /\ Len(calls'[r]) = n + 1
      /\ \A i \in 1 .. n : calls'[r][i] = calls[r][i]
      /\ calls'[r][n + 1] = [id |-> Op(r).id, live |-> TRUE]
  BY <1>1, <1>2, <1>3, EnlistAppends
<1>5. \A i \in 1 .. Len(calls[r]) + Staging(r) : Due(r, i)' = Due(r, i)
  <2> TAKE i \in 1 .. Len(calls[r]) + Staging(r)
  <2>1. i \in 1 .. n \/ i = n + 1
    BY <1>1, <1>2 DEF Staging
  <2>2. CASE i \in 1 .. n
    BY <1>2, <1>4, <2>2 DEF Due
  <2>3. CASE i = n + 1
    <3>1. Due(r, i) = Op(r).id
      BY <1>2, <2>3 DEF Due
    <3>2. Due(r, i)' = calls'[r][i].id
      BY <1>2, <1>4, <2>3 DEF Due
    <3> QED BY <1>4, <2>3, <3>1, <3>2
  <2> QED BY <2>1, <2>2, <2>3
<1>6. Finalizing(r)' = Finalizing(r) /\ Held(r)' = Held(r)
  BY <1>1 DEF Finalizing, Held
<1> QED BY <1>1, <1>5, <1>6, SameResults

\* The worker adds a result, of the next request.
LEMMA WriteResults ==
    ASSUME TypeOK, ScriptInOrder, NEW r \in Ranks, Accounted(r), CallsInOrder(r),
           ResultsInOrder(r), WorkerWrite(r)
    PROVE  ResultsInOrder(r)'
<1>1. PICK ok \in BOOLEAN :
        /\ results' = [results EXCEPT ![r] = Append(@, [id |-> worker[r].id, ok |-> ok])]
        /\ files' = [files EXCEPT ![r][worker[r].id] =
             IF ~ok THEN "partial" ELSE IF IsGood(r) THEN "good" ELSE "torn"]
  BY DEF WorkerWrite
<1>2. /\ worker[r].state = "write"
      /\ UNCHANGED <<script, at, pc, calls, cur_item, vote>>
      /\ comp_q'[r] = Append(comp_q[r], worker[r].id)
  BY RankTypes DEF WorkerWrite, plan, calling
<1>3. PICK n \in Nat :
        /\ n = Len(results[r]) /\ n + 1 <= Len(calls[r]) + Staging(r)
        /\ worker[r].id = Due(r, n + 1)
  BY <1>2, ResultsFit
<1>4. PICK t \in Saves : t = worker[r].id
  BY <1>2, RankTypes DEF Accounted, InScript, WorkerStates
<1>5. /\ \A i \in 1 .. n : Due(r, i) \in Saves /\ Due(r, i) < t
      /\ pc[r] = "gather" => vote[r].id < t
  <2>1. n + 1 \in Nat \ {0} /\ (n + 1) - 1 = n
    BY <1>3
  <2> QED BY <1>3, <1>4, <2>1, DuesAscend DEF Accounted
<1>6. PICK e : e.id = t /\ e.ok = ok /\ e = [id |-> worker[r].id, ok |-> ok]
  BY <1>4
<1>7. /\ Len(results'[r]) = n + 1
      /\ \A i \in 1 .. n : results'[r][i] = results[r][i]
      /\ results'[r][n + 1] = e
  <2>1. results[r] \in Seq(Results) /\ results'[r] = Append(results[r], e)
    BY <1>1, <1>6, RankTypes
  <2>2. e \in Results
    BY <1>4, <1>6 DEF Results
  <2> HIDE DEF Results
  <2> QED BY <1>3, <2>1, <2>2
<1>8. Len(comp_q'[r]) = Len(comp_q[r]) + 1
  BY <1>2, <1>4, SequencesOf
<1>9. files[r] \in [Saves -> {"none", "good", "torn", "partial"}]
  BY DEF TypeOK
<1>10. files'[r] = [files[r] EXCEPT ![t] =
          IF ~ok THEN "partial" ELSE IF IsGood(r) THEN "good" ELSE "torn"]
  BY <1>1, <1>4 DEF TypeOK
<1>11. ok => Whole(r, t)'
  BY <1>9, <1>10 DEF Whole
<1>12. \A s \in Saves : s < t => (Whole(r, s)' <=> Whole(r, s))
  <2>1. \A s \in Saves : s < t => s # t
    BY DEF Saves
  <2> QED BY <1>9, <1>10, <2>1 DEF Whole
<1>13. \A i : Due(r, i)' = Due(r, i)
  BY <1>2 DEF Due, Op
<1>14. Len(results'[r]) = Finalizing(r)' + Held(r)' + Len(comp_q'[r])
  <2>1. n = Finalizing(r) + Held(r) + Len(comp_q[r])
    BY <1>3 DEF ResultsInOrder
  <2>2. Finalizing(r)' = Finalizing(r) /\ Held(r)' = Held(r)
    BY <1>2 DEF Finalizing, Held
  <2>3. Finalizing(r) \in Nat /\ Held(r) \in Nat /\ Len(comp_q[r]) \in Nat
    BY SequencesOf DEF Finalizing
  <2> QED BY <1>7, <1>8, <2>1, <2>2, <2>3
<1>15. ASSUME NEW i \in 1 .. n + 1
       PROVE  /\ results'[r][i].id = Due(r, i)
              /\ results'[r][i].ok => Whole(r, Due(r, i))'
  <2>1. CASE i \in 1 .. n
    <3>1. results[r][i].id = Due(r, i) /\ (results[r][i].ok => Whole(r, Due(r, i)))
      BY <1>3, <2>1 DEF ResultsInOrder
    <3>2. PICK s \in Saves : s = Due(r, i) /\ s < t
      BY <1>5, <2>1
    <3>3. Whole(r, s)' <=> Whole(r, s)
      BY <1>12, <3>2
    <3>4. Whole(r, Due(r, i))' <=> Whole(r, s)'
      BY <1>13, <3>2 DEF Whole
    <3> QED BY <1>7, <2>1, <3>1, <3>2, <3>3, <3>4
  <2>2. CASE i = n + 1
    <3>1. Whole(r, Due(r, i))' <=> Whole(r, t)'
      BY <1>3, <1>4, <1>13, <2>2 DEF Whole
    <3> QED BY <1>3, <1>4, <1>6, <1>7, <1>11, <2>2, <3>1
  <2> QED BY <2>1, <2>2
<1>16. ASSUME pc'[r] = "gather", vote'[r].ok PROVE Whole(r, vote[r].id)'
  <2>1. PICK s \in Saves : s = vote[r].id /\ s < t
    BY <1>2, <1>5, <1>16, RankTypes DEF Votes, Accounted, InScript
  <2>2. Whole(r, s)
    BY <1>2, <1>16, <2>1 DEF ResultsInOrder
  <2>3. Whole(r, s)'
    BY <1>12, <2>1, <2>2
  <2> QED BY <1>2, <2>1, <2>3 DEF Whole
<1>17. ASSUME NEW i \in 1 .. n + 1
       PROVE  /\ results'[r][i].id = Due(r, i)'
              /\ results'[r][i].ok => Whole(r, results[r][i].id)'
  <2>1. results'[r][i].id = Due(r, i)'
    BY <1>13, <1>15
  <2>2. Whole(r, results[r][i].id)' <=> Whole(r, Due(r, i))'
    BY <2>1 DEF Whole
  <2> QED BY <1>15, <2>1, <2>2
<1> QED BY <1>7, <1>14, <1>16, <1>17 DEF ResultsInOrder

\* The first call of a rank with data is live, and its worker is there.
LEMMA FirstIsLive ==
    ASSUME TypeOK, NEW r \in Ranks, r \in setup.holders, Accounted(r), CallsInOrder(r),
           calls[r] # << >>
    PROVE  First(r).live /\ worker[r].state # "none" /\ First(r) = calls[r][1]
<1>1. 1 \in 1 .. Len(calls[r]) /\ 1 \in DOMAIN calls[r] /\ First(r) = calls[r][1]
  BY SequencesOf DEF First
<1>2. calls[r][1].live
  BY <1>1 DEF CallsInOrder
<1>3. worker[r].state # "none"
  BY <1>1, <1>2 DEF Accounted, WithoutWorker, NothingDue
<1> QED BY <1>1, <1>2, <1>3

\* A completion goes from comp_q to the hand, and from there to the finalize functions.
LEMMA PollResults ==
    ASSUME TypeOK, NEW r \in Ranks, r \in setup.holders, Accounted(r), CallsInOrder(r),
           ResultsInOrder(r), Poll(r)
    PROVE  ResultsInOrder(r)'
<1> DEFINE waits == First(r).live /\ worker[r].state # "none"
                      /\ cur_item[r] = None /\ comp_q[r] = << >>
           takes == First(r).live /\ worker[r].state # "none"
                      /\ cur_item[r] = None /\ comp_q[r] # << >>
           item  == IF takes THEN Head(comp_q[r]) ELSE cur_item[r]
<1>1. /\ calls[r] # << >> /\ pc[r] \in {"poll", "prepare"}
      /\ ~(waits /\ Blocking(r))
      /\ UNCHANGED <<calls, results, files>>
      /\ comp_q'[r] = IF takes THEN Tail(comp_q[r]) ELSE comp_q[r]
  BY RankTypes DEF Poll, Polling, plan
<1>2. First(r).live /\ worker[r].state # "none"
  BY <1>1, FirstIsLive
<1>3. /\ comp_q[r] \in Seq(Saves) /\ Len(comp_q[r]) \in Nat
      /\ comp_q[r] # << >> => /\ Len(Tail(comp_q[r])) = Len(comp_q[r]) - 1
                              /\ Head(comp_q[r]) # None
  <2>1. comp_q[r] # << >> => Head(comp_q[r]) \in Saves
    BY SequencesOf
  <2> QED BY <2>1, SequencesOf DEF Saves, None
<1>4. Finalizing(r)' + Held(r)' + Len(comp_q'[r]) = Finalizing(r) + Held(r) + Len(comp_q[r])
  <2>1. CASE pc[r] = "prepare"
    <3>1. cur_item'[r] = None /\ pc'[r] = "finalize"
      BY <1>2, <2>1, RankTypes DEF Poll, NoDist, Goto
    <3>2. ~waits
      BY <1>1, <2>1 DEF Accounted, InScript, Blocking
    <3>3. Finalizing(r)' = 1 /\ Held(r)' = 0 /\ Finalizing(r) = 0
      BY <2>1, <3>1 DEF Finalizing, Held
    <3>4. CASE takes
      <4>1. Held(r) = 0 /\ Len(comp_q'[r]) = Len(comp_q[r]) - 1
        BY <1>1, <1>3, <3>4 DEF Held
      <4> QED BY <1>3, <3>3, <4>1
    <3>5. CASE ~takes
      <4>1. Held(r) = 1 /\ comp_q'[r] = comp_q[r]
        BY <1>1, <1>2, <3>2, <3>5 DEF Held
      <4> QED BY <1>3, <3>3, <4>1
    <3> QED BY <3>4, <3>5
  <2>2. CASE pc[r] = "poll"
    <3>1. cur_item'[r] = item /\ pc'[r] = "reduce"
      BY <2>2, RankTypes DEF Poll, NoDist, Goto
    <3>2. Finalizing(r)' = 0 /\ Finalizing(r) = 0
      BY <2>2, <3>1 DEF Finalizing
    <3>3. CASE takes
      <4>1. Held(r) = 0 /\ Held(r)' = 1 /\ Len(comp_q'[r]) = Len(comp_q[r]) - 1
        BY <1>1, <1>3, <3>1, <3>3 DEF Held
      <4> QED BY <1>3, <3>2, <4>1
    <3>4. CASE ~takes
      <4>1. Held(r)' = Held(r) /\ comp_q'[r] = comp_q[r]
        BY <1>1, <3>1, <3>4 DEF Held
      <4> QED BY <3>2, <4>1
    <3> QED BY <3>3, <3>4
  <2> QED BY <1>1, <2>1, <2>2
<1>5. \A i \in 1 .. Len(calls[r]) + Staging(r) : Due(r, i)' = Due(r, i)
  BY <1>1, DuesStay
<1>6. pc'[r] # "gather"
  BY <1>1, RankTypes DEF Poll, NoDist, Goto
<1> HIDE DEF waits, takes, item
<1> QED BY <1>1, <1>4, <1>5, <1>6, SameResults

\* The result that a rank takes is that of the call it finalizes.
LEMMA FinalizeResults ==
    ASSUME TypeOK, ScriptInOrder, NEW r \in Ranks, r \in setup.holders, Accounted(r),
           CallsInOrder(r), ResultsInOrder(r), Finalize(r)
    PROVE  ResultsInOrder(r)'
<1>1. /\ pc[r] = "finalize" /\ pc'[r] = "gather" /\ calls'[r] = Tail(calls[r])
      /\ UNCHANGED <<script, at, cur_item, comp_q, files>>
      /\ calls[r] # << >>
  <2>1. pc[r] = "finalize" /\ pc'[r] = "gather" /\ calls'[r] = Tail(calls[r])
    BY RankTypes DEF Finalize, Goto
  <2> QED BY <2>1 DEF Finalize, plan, Accounted, VoteIsCovered
<1>2. PICK n \in Nat, m \in Nat :
        /\ Len(results[r]) = n + 1 /\ Len(calls[r]) = m + 1 /\ n <= m
        /\ n = Len(comp_q[r]) /\ cur_item[r] = None
  <2>1. PICK k \in Nat : /\ k = Finalizing(r) + Held(r) /\ k <= 1
                         /\ k = 1 => cur_item[r] = None \/ pc[r] # "finalize"
    BY LifeBooks
  <2>2. Finalizing(r) = 1 /\ Held(r) = 0 /\ cur_item[r] = None
    BY <1>1, <2>1, SequencesOf DEF Finalizing, Held
  <2>3. PICK n \in Nat : n = Len(comp_q[r])
    BY SequencesOf
  <2>4. Len(results[r]) = n + 1
    BY <2>2, <2>3 DEF ResultsInOrder
  <2>5. Staging(r) = 0 /\ Len(results[r]) <= Len(calls[r]) + Staging(r)
    BY <1>1, ResultsFit DEF Staging
  <2>6. Len(calls[r]) \in Nat /\ n + 1 <= Len(calls[r])
    BY <2>4, <2>5, SequencesOf
  <2>7. Len(calls[r]) - 1 \in Nat /\ Len(calls[r]) = (Len(calls[r]) - 1) + 1
        /\ n <= Len(calls[r]) - 1
    BY <2>6
  <2> QED BY <2>2, <2>3, <2>4, <2>7
<1>3. /\ Len(calls'[r]) = m
      /\ \A i \in 1 .. m : calls'[r][i] = calls[r][i + 1]
      /\ First(r) = calls[r][1]
  <2>1. calls[r] \in Seq(Calls) /\ Len(calls[r]) = m + 1 /\ calls'[r] = Tail(calls[r])
    BY <1>1, <1>2, SequencesOf
  <2> HIDE DEF Calls
  <2> QED BY <2>1 DEF First
<1>4. results[r] # << >> /\ results[r] \in Seq(Results)
  <2>1. results[r] \in Seq(Results)
    BY RankTypes
  <2> QED BY <1>2, <2>1
<1>5. /\ Len(results'[r]) = n
      /\ \A i \in 1 .. n : results'[r][i] = results[r][i + 1]
      /\ Head(results[r]) = results[r][1]
  <2>1. results'[r] = Tail(results[r])
    BY <1>4, RankTypes DEF Finalize
  <2> QED BY <1>2, <1>4, <2>1
<1>6. \A i \in 1 .. n : Due(r, i)' = Due(r, i + 1)
  BY <1>2, <1>3 DEF Due
<1>7. \A s : Whole(r, s)' <=> Whole(r, s)
  BY <1>1 DEF Whole
<1>8. ASSUME NEW i \in 1 .. n
      PROVE  /\ results'[r][i].id = Due(r, i)'
             /\ results'[r][i].ok => Whole(r, results[r][i].id)'
  <2>1. i + 1 \in 1 .. Len(results[r])
    BY <1>2
  <2>2. /\ results[r][i + 1].id = Due(r, i + 1)
        /\ results[r][i + 1].ok => Whole(r, results[r][i + 1].id)
    BY <2>1 DEF ResultsInOrder
  <2> QED BY <1>5, <1>6, <1>7, <2>2
<1>9. vote'[r].ok => Whole(r, vote[r].id)'
  <2>1. vote'[r].id = First(r).id /\ (vote'[r].ok <=> Retrieved(r))
    BY RankTypes DEF Finalize
  <2>2. 1 \in 1 .. Len(results[r]) /\ 1 <= Len(calls[r])
    BY <1>2
  <2>3. results[r][1].id = First(r).id
    BY <1>3, <2>2 DEF ResultsInOrder, Due
  <2>4. Retrieved(r) => results[r][1].ok
    BY <1>5 DEF Retrieved
  <2>5. Retrieved(r) => Whole(r, First(r).id)
    BY <2>2, <2>3, <2>4 DEF ResultsInOrder
  <2> QED BY <1>7, <2>1, <2>5
<1>10. n = Finalizing(r)' + Held(r)' + Len(comp_q'[r])
  BY <1>1, <1>2 DEF Finalizing, Held
<1> QED BY <1>5, <1>8, <1>9, <1>10 DEF ResultsInOrder

\* A queue is closed when there is nothing in it.
LEMMA CloseResults ==
    ASSUME TypeOK, NEW r \in Ranks, Accounted(r), CallsInOrder(r), ResultsInOrder(r), Close(r)
    PROVE  ResultsInOrder(r)'
<1>1. /\ pc[r] = "poll" /\ pc'[r] = "train" /\ cur_item'[r] = None /\ comp_q'[r] = << >>
      /\ results' = results /\ (HasCaller(r) => calls[r] = << >>)
  BY RankTypes DEF Close, Done, Goto
<1>2. calls[r] = << >>
  <2>1. HasCaller(r) <=> SaveBefore(at[r])
    BY DEF HasCaller, SaveBefore, IsSave
  <2> QED BY <1>1, <2>1, SomethingIsBefore DEF Accounted
<1>3. Len(results[r]) = 0
  <2>1. Len(calls[r]) = 0 /\ Staging(r) = 0
    BY <1>1, <1>2 DEF Staging
  <2> QED BY <2>1, ResultsFit
<1> QED BY <1>1, <1>3 DEF ResultsInOrder, Finalizing, Held

\* The results after a step of the rank.
LEMMA StepResults ==
    ASSUME TypeOK, ScriptInOrder, NEW r \in Ranks, r \in setup.holders, Accounted(r),
           CallsInOrder(r), ResultsInOrder(r), Step(r)
    PROVE  ResultsInOrder(r)'
<1>1. InScript(r)
  BY DEF Accounted
<1>2. CASE BeginSave(r) \/ BeginPoll(r)
  <2>1. /\ pc[r] = "train" /\ pc'[r] \in {"prepare", "poll"}
        /\ UNCHANGED <<calls, cur_item, comp_q, results, files>>
    BY <1>1, <1>2, BeginFacts DEF calling, writing
  <2> QED BY <2>1, MovingResults
<1>3. CASE PrepareWriteData(r) \/ ScheduleAsyncCall(r)
  <2>1. /\ pc[r] \in {"prepare", "schedule"} /\ pc'[r] \in {"schedule", "staging"}
        /\ UNCHANGED <<calls, cur_item, comp_q, results, files>>
    BY <1>3, RankTypes DEF PrepareWriteData, ScheduleAsyncCall, Goto, calling, writing
  <2> QED BY <2>1, MovingResults
<1>4. CASE ScheduleNothing(r) \/ ReturnFromStaging(r)
  BY <1>4, EnlistResults DEF ScheduleNothing
<1>5. CASE Poll(r) \/ Finalize(r)
  BY <1>5, PollResults, FinalizeResults
<1>6. CASE Close(r)
  BY <1>6, CloseResults
<1>7. CASE ReturnFromPoll(r)
  <2>1. /\ pc[r] = "poll" /\ pc'[r] = "train"
        /\ UNCHANGED <<calls, cur_item, comp_q, results, files>>
    BY <1>7, RankTypes DEF ReturnFromPoll, Done, Goto, calling, writing
  <2> QED BY <2>1, MovingResults
<1>8. CASE WorkerStage(r) \/ WorkerDies(r)
  <2>1. UNCHANGED <<script, at, pc, calls, cur_item, vote, comp_q, results, files>>
    BY <1>8 DEF WorkerStage, WorkerDies, plan, calling
  <2>2. \A i \in 1 .. Len(calls[r]) + Staging(r) : Due(r, i)' = Due(r, i)
    BY <2>1, DuesStay DEF Op
  <2>3. Finalizing(r)' = Finalizing(r) /\ Held(r)' = Held(r)
    BY <2>1 DEF Finalizing, Held
  <2> QED BY <2>1, <2>2, <2>3, SameResults
<1>9. CASE WorkerWrite(r)
  BY <1>9, WriteResults
<1> QED BY <1>2, <1>3, <1>4, <1>5, <1>6, <1>7, <1>8, <1>9 DEF Step, Trainer, Worker

\* The results after the all_reduce: the completion in the hand goes to its call.
LEMMA ReduceResults ==
    ASSUME TypeOK, NEW r \in Ranks, r \in setup.holders, Accounted(r), CallsInOrder(r),
           ResultsInOrder(r), AllReduce
    PROVE  ResultsInOrder(r)'
<1>1. /\ pc[r] = "reduce" /\ UNCHANGED <<calls, comp_q, results, files>>
      /\ pc'[r] \in {"finalize", "train"}
  BY DEF AllReduce, Reduce, plan, writing
<1>2. calls[r] # << >>
  BY <1>1 DEF Accounted, VoteIsCovered
<1>3. First(r).live /\ worker[r].state # "none"
  BY <1>2, FirstIsLive
<1>4. \A i \in 1 .. Len(calls[r]) + Staging(r) : Due(r, i)' = Due(r, i)
  BY <1>1, DuesStay
<1>5. CASE AllDone
  <2>1. cur_item'[r] = None /\ pc'[r] = "finalize"
    BY <1>3, <1>5 DEF AllReduce, Reduce, Dropped
  <2>2. cur_item[r] # None
    BY <1>1, <1>3, <1>5 DEF AllDone, Accounted, VoteIsCovered
  <2>3. /\ Finalizing(r)' = 1 /\ Held(r)' = 0 /\ Finalizing(r) = 0 /\ Held(r) = 1
    BY <1>1, <2>1, <2>2 DEF Finalizing, Held
  <2> QED BY <1>1, <1>4, <2>3, SequencesOf, SameResults
<1>6. CASE ~AllDone
  <2>1. cur_item'[r] = cur_item[r] /\ pc'[r] = "train"
    BY <1>6 DEF AllReduce, Reduce
  <2> QED BY <1>1, <2>1, MovingResults
<1> QED BY <1>5, <1>6

\* The results after the gather.
LEMMA GatherResults ==
    ASSUME TypeOK, AccountInv, NEW r \in Ranks, CallsInOrder(r), ResultsInOrder(r), Gather
    PROVE  ResultsInOrder(r)'
<1>1. Accounted(r)
  BY DEF AccountInv
<1>2. /\ pc[r] = "gather" /\ pc'[r] \in {"prepare", "train", "poll"}
      /\ UNCHANGED <<calls, cur_item, comp_q, results, files>>
  BY GatherFacts
<1> QED BY <1>1, <1>2, MovingResults

-----------------------------------------------------------------------------
(* What is published.                                                         *)

\* What is written is still pending.
LEMMA WriteIsPending ==
    ASSUME TypeOK, ScriptInOrder, NEW r \in Ranks, Accounted(r), CallsInOrder(r),
           ResultsInOrder(r), WorkerWrite(r)
    PROVE  Pending(r, worker[r].id)
<1>1. worker[r].state = "write"
  BY DEF WorkerWrite
<1>2. PICK n \in Nat :
        /\ n = Len(results[r]) /\ n + 1 <= Len(calls[r]) + Staging(r)
        /\ worker[r].id = Due(r, n + 1)
  BY <1>1, ResultsFit
<1>3. n + 1 \in Nat \ {0}
  BY <1>2
<1> QED BY <1>2, <1>3, DuesAscend DEF Accounted

\* What is published is over as long as nothing but what is new becomes pending.
LEMMA PublishedStays ==
    ASSUME TypeOK, PublishedIsOver, published' = published, ScriptKept,
           \A q \in Ranks : Running(q)' => Running(q) /\ PendingKept(q)
    PROVE  PublishedIsOver'
<1> SUFFICES ASSUME NEW s \in published
             PROVE  s <= saves' /\ \A r \in Ranks : Running(r)' => ~Pending(r, s)'
  BY DEF PublishedIsOver
<1>1. s \in Saves /\ s \in Nat /\ s <= saves /\ saves \in Nat
  BY DEF PublishedIsOver, TypeOK, Saves
<1>2. s <= saves'
  BY <1>1 DEF ScriptKept
<1>3. ~New(s)
  <2>1. s # saves + 1
    BY <1>1
  <2> QED BY <1>1, <2>1 DEF ScriptKept
<1>4. ASSUME NEW r \in Ranks, Running(r)' PROVE ~Pending(r, s)'
  <2>1. ~Pending(r, s)
    BY <1>4 DEF PublishedIsOver
  <2> QED BY <1>1, <1>3, <1>4, <2>1 DEF PendingKept
<1> QED BY <1>2, <1>4

\* What is published is complete as long as no files change but those of pending saves.
LEMMA FilesStay ==
    ASSUME TypeOK, PublishedIsOver, \A s \in published : \A r \in setup.holders : Whole(r, s),
           [Next]_vars, AccountInv, ScriptInOrder, RanksInOrder,
           \A r \in setup.holders : Running(r) => ResultsInOrder(r), setup' = setup
    PROVE  \A s \in published : \A r \in setup'.holders : Whole(r, s)'
<1> SUFFICES ASSUME NEW s \in published, NEW r \in setup.holders PROVE Whole(r, s)'
  OBVIOUS
<1>1. r \in Ranks /\ s \in Saves /\ Whole(r, s)
  BY RankTypes DEF TypeOK
<1>2. CASE files'[r][s] = files[r][s]
  BY <1>1, <1>2 DEF Whole
<1>3. CASE files'[r][s] # files[r][s]
  <2>1. WorkerWrite(r) /\ s = worker[r].id
    BY <1>1, <1>3, FilesChange
  <2>2. Accounted(r) /\ Running(r)
    BY <1>1, <2>1, OnlyRunning DEF AccountInv, Step, Worker
  <2>3. Pending(r, s)
    BY <1>1, <2>1, <2>2, WriteIsPending DEF RanksInOrder, RankInOrder
  <2> QED BY <1>1, <2>2, <2>3 DEF PublishedIsOver
<1> QED BY <1>2, <1>3

\* The steps of one rank, and those that begin a restart.
LEMMA StepsKeepPublished ==
    ASSUME TypeOK, TypeOK', AccountInv, ScriptInOrder, RanksInOrder, BetweenRanks, ResultsHold,
           [Next]_vars,
           \/ \E r \in Ranks : Step(r) \/ Abort(r)
           \/ BeginRestart \/ UNCHANGED vars
    PROVE  ResultsHold'
<1>1. Moves /\ ScriptKept
  BY StepKeepsOrder, AbortKeepsOrder
<1>2. setup' = setup /\ published' = published
  <2>1. ASSUME NEW r \in Ranks, Step(r) \/ Abort(r) PROVE setup' = setup /\ published' = published
    BY <2>1, StepFacts
  <2>2. CASE BeginRestart \/ UNCHANGED vars
    BY <2>2 DEF BeginRestart, vars, plan, outcome
  <2> QED BY <2>1, <2>2
<1>3. PublishedIsOver'
  BY <1>1, <1>2, PublishedStays DEF ResultsHold, Moves, InTurn
<1>4. \A s \in published : \A r \in setup'.holders : Whole(r, s)'
  BY <1>2, FilesStay DEF ResultsHold
<1>5. ASSUME NEW q \in setup.holders, Running(q)' PROVE ResultsInOrder(q)'
  <2>1. q \in Ranks /\ Running(q) /\ Accounted(q) /\ CallsInOrder(q) /\ ResultsInOrder(q)
    BY <1>1, <1>5, RankTypes DEF Moves, AccountInv, RanksInOrder, RankInOrder, ResultsHold
  <2>2. ASSUME NEW r \in Ranks, Step(r) \/ Abort(r), r # q PROVE ResultsInOrder(q)'
    <3>1. Untouched(q) /\ results'[q] = results[q] /\ files'[q] = files[q]
      BY <2>1, <2>2, OthersUntouched, StepFacts DEF Step
    <3> QED BY <2>1, <3>1, BystanderResults
  <2>3. CASE Step(q)
    BY <2>1, <2>3, StepResults
  <2>4. ~Abort(q)
    BY <1>5, <2>1, RankTypes DEF Abort, Goto, Running
  <2>5. CASE BeginRestart \/ UNCHANGED vars
    <3>1. Untouched(q) /\ results'[q] = results[q] /\ files'[q] = files[q]
      BY <2>5 DEF BeginRestart, Untouched, vars, plan, calling, writing
    <3> QED BY <2>1, <3>1, BystanderResults
  <2> QED BY <2>2, <2>3, <2>4, <2>5
<1> QED BY <1>2, <1>3, <1>4, <1>5 DEF ResultsHold

\* The all_reduce.
LEMMA ReduceKeepsPublished ==
    ASSUME TypeOK, AccountInv, ScriptInOrder, RanksInOrder, BetweenRanks, ResultsHold, AllReduce
    PROVE  ResultsHold'
<1>1. UNCHANGED <<setup, script, saves, files, published>> /\ \A r \in Ranks : Running(r)
  BY DEF AllReduce, Reduce, plan, writing, outcome, Running
<1>2. ScriptKept
  BY <1>1, ScriptStays
<1>3. PublishedIsOver'
  BY <1>1, <1>2, ReduceKeepsOrder, PublishedStays DEF ResultsHold
<1>4. \A q \in setup.holders : ResultsInOrder(q)'
  BY <1>1, RankTypes, ReduceResults DEF AccountInv, RanksInOrder, RankInOrder, ResultsHold
<1>5. \A s \in published : \A r \in setup.holders : Whole(r, s)'
  BY <1>1 DEF ResultsHold, Whole
<1> QED BY <1>1, <1>3, <1>4, <1>5 DEF ResultsHold

\* The gather publishes the save that every rank has retrieved the results of.
LEMMA GatherKeepsPublished ==
    ASSUME TypeOK, AccountInv, ScriptInOrder, RanksInOrder, BetweenRanks, ResultsHold, Gather
    PROVE  ResultsHold'
<1>1. /\ UNCHANGED <<setup, script, saves, files>>
      /\ \A r \in Ranks : pc[r] = "gather" /\ Running(r) /\ RankInOrder(r)
  <2>1. \A r \in Ranks : pc[r] = "gather"
    BY DEF Gather
  <2> QED BY <2>1 DEF Gather, plan, writing, Running, RanksInOrder
<1>2. PICK v \in Saves : \A r \in Ranks : vote[r].id = v
  BY VotesAgree, GatherFacts, CoordinatorAssumption
<1>3. \/ published' = published
      \/ published' = published \cup {v} /\ \A r \in Ranks : vote[r].ok
  <2>1. vote[Coordinator].id = v
    BY <1>2, CoordinatorAssumption
  <2> QED BY <2>1 DEF Gather
<1>4. \A s \in published' : s \in published \/ (s = v /\ \A r \in Ranks : vote[r].ok)
  BY <1>3
<1>5. v <= saves
  <2>1. PICK i \in 1 .. at[Coordinator] - 1 : script[i] = Save(v)
    BY <1>1, <1>2, CoordinatorAssumption DEF RankInOrder, CallsInOrder, Scheduled
  <2>2. i \in 1 .. Len(script)
    BY CoordinatorAssumption, GatherFacts, ScriptTypes
  <2>3. script[i].id = v
    BY <2>1, <2>2, ScriptTypes
  <2> QED BY <2>2, <2>3 DEF ScriptInOrder
<1>6. PublishedIsOver'
  <2> SUFFICES ASSUME NEW s \in published'
               PROVE  s <= saves /\ \A r \in Ranks : ~Pending(r, s)'
    BY <1>1 DEF PublishedIsOver
  <2>1. s \in Saves /\ s <= saves
    BY <1>4, <1>5 DEF ResultsHold, PublishedIsOver, TypeOK
  <2>2. \A r \in Ranks : Pending(r, s)' => Pending(r, s) /\ s # v
    BY <1>2, <2>1, GatherKeepsOrder, CoordinatorAssumption
  <2> QED BY <1>1, <1>4, <2>1, <2>2 DEF ResultsHold, PublishedIsOver
<1>7. \A q \in setup.holders : ResultsInOrder(q)'
  BY <1>1, RankTypes, GatherResults DEF RankInOrder, ResultsHold
<1>8. \A s \in published' : \A r \in setup.holders : Whole(r, s)'
  <2> SUFFICES ASSUME NEW s \in published', NEW r \in setup.holders PROVE Whole(r, s)
    BY <1>1 DEF Whole
  <2>1. CASE s \in published
    BY <2>1 DEF ResultsHold
  <2>2. CASE s = v /\ vote[r].ok
    <3>1. r \in Ranks /\ ResultsInOrder(r)
      BY <1>1, RankTypes DEF ResultsHold
    <3> QED BY <1>1, <1>2, <2>2, <3>1 DEF ResultsInOrder
  <2> QED BY <1>4, <2>1, <2>2, RankTypes
<1> QED BY <1>1, <1>6, <1>7, <1>8 DEF ResultsHold

\* A restart that leaves nothing.
LEMMA RestartKeepsPublished ==
    ASSUME TypeOK, AccountInv, EndRestart, ~leftover', ResultsHold
    PROVE  ResultsHold'
<1>1. /\ UNCHANGED <<setup, saves, files, published>>
      /\ \A r \in Ranks : /\ pc'[r] = "train" /\ results'[r] = << >>
                         /\ cur_item'[r] = None /\ comp_q'[r] = << >>
      /\ \A r \in Ranks : \A s : ~Pending(r, s)'
  BY RestartInOrder
<1>2. ASSUME NEW r \in Ranks PROVE ResultsInOrder(r)'
  <2>1. Len(results'[r]) = 0 /\ Len(comp_q'[r]) = 0
    BY <1>1
  <2> QED BY <1>1, <2>1 DEF ResultsInOrder, Finalizing, Held
<1>3. PublishedIsOver'
  BY <1>1 DEF ResultsHold, PublishedIsOver
<1>4. \A s \in published' : \A r \in setup'.holders : Whole(r, s)'
  BY <1>1 DEF ResultsHold, Whole
<1> QED BY <1>1, <1>2, <1>3, <1>4, RankTypes DEF ResultsHold

\* Results and publications are kept by every step.
LEMMA StepsKeepResults ==
    ASSUME TypeOK, AccountInv, OrderInv, ResultInv, [Next]_vars
    PROVE  ResultInv'
<1> SUFFICES ASSUME ~leftover' PROVE ResultsHold'
  BY DEF ResultInv
<1>1. ScriptInOrder /\ RanksInOrder /\ BetweenRanks /\ ResultsHold
  BY LeftoverStays DEF OrderInv, ResultInv
<1>2. TypeOK'
  BY StepsKeepTypes
<1>3. CASE (\E r \in Ranks : Step(r) \/ Abort(r)) \/ BeginRestart \/ UNCHANGED vars
  BY <1>1, <1>2, <1>3, StepsKeepPublished
<1>4. CASE AllReduce \/ Gather
  BY <1>1, <1>4, ReduceKeepsPublished, GatherKeepsPublished
<1>5. CASE EndRestart
  BY <1>1, <1>5, RestartKeepsPublished
<1> QED BY <1>3, <1>4, <1>5 DEF Next, Restart, Step

\* At the start there are no results.
LEMMA ResultsInit == Init => ResultInv
<1> SUFFICES ASSUME Init PROVE ResultsHold
  BY DEF ResultInv
<1>1. \A r \in Ranks : /\ pc[r] = "train" /\ cur_item[r] = None
                       /\ Len(results[r]) = 0 /\ Len(comp_q[r]) = 0
  BY DEF Init
<1>2. published = {} /\ setup.holders \subseteq Ranks
  BY TypesInit, RankTypes DEF Init
<1>3. ASSUME NEW r \in Ranks PROVE ResultsInOrder(r)
  <2>1. Finalizing(r) = 0 /\ Held(r) = 0
    BY <1>1 DEF Finalizing, Held
  <2> QED BY <1>1, <2>1 DEF ResultsInOrder
<1> QED BY <1>2, <1>3 DEF ResultsHold, PublishedIsOver

(* The drain of shared memory is unregistered by close and abort only: after  *)
(* a close the trainer does nothing more, and abort is a restart.             *)
CloseEnds == \A i \in 1 .. Len(script) : script[i].kind = "close" => i = Len(script)
Retired(r) ==
    /\ pc[r] = "train" /\ worker[r].state = "none" /\ at[r] > Len(script)
    /\ \E i \in 1 .. Len(script) : script[i].kind = "close"
DrainInv ==
    /\ restarting => restarts > 0
    /\ CloseEnds
    /\ \A r \in Ranks : setup.shm /\ ~drain[r] => restarts > 0 \/ Retired(r)
    /\ \A r \in Ranks, s \in Saves : files[r][s] = "torn" => setup.shm /\ restarts > 0

\* Operations join a script without a close.
UndertakeOrNot ==
    \/ UNCHANGED script
    \/ \E op \in Operations :
          /\ script' = Append(script, op)
          /\ \A i \in DOMAIN script : script[i].kind # "close"

LEMMA UndertakingKeepsOrder ==
    ASSUME TypeOK, CloseEnds, UndertakeOrNot
    PROVE  CloseEnds'
<1>1. CASE UNCHANGED script
  BY <1>1 DEF CloseEnds
<1>2. ASSUME NEW op \in Operations, script' = Append(script, op),
             \A i \in DOMAIN script : script[i].kind # "close"
      PROVE  CloseEnds'
  <2>1. Len(script) \in Nat /\ DOMAIN script = 1 .. Len(script)
    BY DEF TypeOK
  <2>2. /\ Len(script') = Len(script) + 1
        /\ \A i \in 1 .. Len(script) : script'[i] = script[i]
    BY <1>2, ScriptGrows
  <2>3. ASSUME NEW i \in 1 .. Len(script'), script'[i].kind = "close" PROVE i = Len(script')
    <3>1. CASE i \in 1 .. Len(script)
      BY <1>2, <2>1, <2>2, <2>3, <3>1
    <3>2. CASE i \notin 1 .. Len(script)
      BY <2>1, <2>2, <3>2
    <3> QED BY <3>1, <3>2
  <2> QED BY <2>3 DEF CloseEnds
<1> QED BY <1>1, <1>2 DEF UndertakeOrNot

\* A step of rank r, other than its abort.
LEMMA StepsOfARank ==
    ASSUME TypeOK, NEW r \in Ranks, Trainer(r) \/ Worker(r) \/ WorkerDies(r)
    PROVE  /\ UNCHANGED <<setup, restarts, restarting>>
           /\ UndertakeOrNot
           /\ ~Retired(r)
           /\ UNCHANGED drain \/ Close(r)
           /\ \A q \in Ranks : q # r => pc'[q] = pc[q] /\ at'[q] = at[q] /\ worker'[q] = worker[q]
<1>1. CASE BeginSave(r) \/ BeginPoll(r)
  <2>1. PICK op \in Operations : Undertake(r, op)
    BY <1>1 DEF BeginSave, BeginPoll, Operations
  <2>2. DOMAIN script = 1 .. Len(script) /\ Len(script) \in Nat /\ at[r] \in Nat
    BY RankTypes DEF TypeOK
  <2>3. UndertakeOrNot
    BY <2>1 DEF Undertake, UndertakeOrNot
  <2>4. ~Retired(r)
    BY <2>1, <2>2 DEF Undertake, Retired
  <2>5. \A q \in Ranks : q # r => pc'[q] = pc[q] /\ at'[q] = at[q] /\ worker'[q] = worker[q]
    BY <1>1, RankTypes DEF BeginSave, BeginPoll, Goto, writing
  <2> QED BY <1>1, <2>3, <2>4, <2>5 DEF BeginSave, BeginPoll, staging, faults
<1>2. CASE \/ PrepareWriteData(r) \/ ScheduleNothing(r) \/ ScheduleAsyncCall(r)
           \/ ReturnFromStaging(r) \/ Poll(r) \/ Finalize(r) \/ ReturnFromPoll(r) \/ Close(r)
  <2>1. UNCHANGED <<setup, script, restarts, restarting>> /\ (UNCHANGED drain \/ Close(r))
    BY <1>2 DEF PrepareWriteData, ScheduleNothing, ScheduleAsyncCall, ReturnFromStaging, Poll,
                Finalize, ReturnFromPoll, plan, faults, staging, Close
  <2>2. pc[r] # "train"
    BY <1>2 DEF PrepareWriteData, ScheduleNothing, ScheduleAsyncCall, ReturnFromStaging, Poll,
                Polling, Finalize, ReturnFromPoll, Close
  <2>3. \A q \in Ranks : q # r => pc'[q] = pc[q] /\ at'[q] = at[q] /\ worker'[q] = worker[q]
    BY <1>2, RankTypes
    DEF PrepareWriteData, ScheduleNothing, ScheduleAsyncCall, ReturnFromStaging, Poll,
        Finalize, ReturnFromPoll, Close, Goto, Done, writing
  <2> QED BY <2>1, <2>2, <2>3 DEF Retired, UndertakeOrNot
<1>3. CASE Worker(r) \/ WorkerDies(r)
  <2>1. UNCHANGED <<setup, script, restarts, restarting, drain, pc, at>>
    BY <1>3 DEF Worker, WorkerStage, WorkerWrite, WorkerDies, plan, staging, faults
  <2>2. worker[r].state # "none"
    BY <1>3 DEF Worker, WorkerStage, WorkerWrite, WorkerDies
  <2>3. \A q \in Ranks : q # r => worker'[q] = worker[q]
    BY <1>3, RankTypes DEF Worker, WorkerStage, WorkerWrite, WorkerDies
  <2> QED BY <2>1, <2>2, <2>3 DEF Retired, UndertakeOrNot
<1> QED BY <1>1, <1>2, <1>3 DEF Trainer

\* Who has closed is at the end of the script.
LEMMA ClosingRetires ==
    ASSUME TypeOK, AccountInv, CloseEnds, NEW r \in Ranks, Close(r)
    PROVE  Retired(r)'
<1>1. at[r] \in Nat /\ Len(script) \in Nat /\ at[r] <= Len(script) /\ at[r] # 0
  <2>1. InScript(r) /\ pc[r] = "poll"
    BY DEF AccountInv, Accounted, Close
  <2>2. at[r] \in Nat \ {0} /\ Len(script) \in Nat
    BY RankTypes DEF TypeOK
  <2> QED BY <2>1, <2>2 DEF InScript
<1>2. script[at[r]].kind = "close" /\ at[r] \in 1 .. Len(script)
  BY <1>1 DEF Close, Op
<1>3. at[r] = Len(script)
  BY <1>2 DEF CloseEnds
<1>4. pc'[r] = "train" /\ at'[r] = at[r] + 1 /\ worker'[r] = NoWorker /\ UNCHANGED script
  BY RankTypes DEF Close, Done, Goto, plan
<1> QED BY <1>1, <1>2, <1>3, <1>4 DEF Retired, NoWorker, Spawned

LEMMA StepsKeepDrains ==
    ASSUME TypeOK, AccountInv, HandleInv, DrainInv, [Next]_vars
    PROVE  DrainInv'
<1> DEFINE Drains(r) == setup.shm /\ ~drain[r] => restarts > 0 \/ Retired(r)
           Torn(r, s) == files[r][s] = "torn" => setup.shm /\ restarts > 0
<1>0. restarts \in Nat
  BY DEF TypeOK
<1>1. /\ restarts' \in Nat /\ restarts <= restarts' /\ setup' = setup
      /\ restarting' => restarts' > 0
  <2>1. ASSUME NEW r \in Ranks, Trainer(r) \/ Worker(r) \/ WorkerDies(r)
        PROVE  UNCHANGED <<setup, restarts, restarting>>
    BY <2>1, StepsOfARank
  <2>2. ASSUME AllReduce \/ Gather \/ (\E r \in Ranks : Abort(r)) \/ UNCHANGED vars
        PROVE  UNCHANGED <<setup, restarts, restarting>>
    BY <2>2 DEF AllReduce, Reduce, Gather, Abort, vars, plan, faults
  <2>3. ASSUME BeginRestart \/ EndRestart
        PROVE  setup' = setup /\ (restarts' = restarts \/ restarts' = restarts + 1)
               /\ (restarting' => restarts' = restarts + 1)
    BY <2>3 DEF BeginRestart, EndRestart, plan
  <2> QED BY <1>0, <2>1, <2>2, <2>3 DEF Next, Restart, DrainInv
<1>2. CloseEnds'
  <2>1. ASSUME NEW r \in Ranks, Trainer(r) \/ Worker(r) \/ WorkerDies(r)
        PROVE  CloseEnds'
    BY <2>1, StepsOfARank, UndertakingKeepsOrder DEF DrainInv
  <2>2. ASSUME AllReduce \/ Gather \/ (\E r \in Ranks : Abort(r)) \/ BeginRestart \/ UNCHANGED vars
        PROVE  CloseEnds'
    BY <2>2 DEF AllReduce, Reduce, Gather, Abort, BeginRestart, vars, plan, DrainInv, CloseEnds
  <2>3. ASSUME EndRestart PROVE CloseEnds'
    BY <2>3 DEF EndRestart, CloseEnds
  <2> QED BY <2>1, <2>2, <2>3 DEF Next, Restart
<1>3. ASSUME NEW q \in Ranks PROVE Drains(q)'
  <2>1. CASE restarts > 0
    BY <1>0, <1>1, <2>1
  <2>2. CASE ~(restarts > 0)
    <3>1. ~restarting /\ (setup.shm /\ ~drain[q] => Retired(q)) /\ CloseEnds
      BY <2>2 DEF DrainInv
    <3>2. ASSUME NEW r \in Ranks, Trainer(r) \/ Worker(r) \/ WorkerDies(r)
          PROVE  Drains(q)'
      <4>1. /\ UndertakeOrNot /\ ~Retired(r) /\ (UNCHANGED drain \/ Close(r))
            /\ q # r => pc'[q] = pc[q] /\ at'[q] = at[q] /\ worker'[q] = worker[q]
        BY <3>2, StepsOfARank
      <4>2. CASE Close(r)
        <5>1. CASE q = r
          BY <3>1, <4>2, <5>1, ClosingRetires
        <5>2. CASE q # r
          <6>1. drain'[q] = drain[q] /\ UNCHANGED script
            BY <4>2, <5>2 DEF Close, plan, TypeOK
          <6> QED BY <1>1, <3>1, <4>1, <5>2, <6>1 DEF Retired
        <5> QED BY <5>1, <5>2
      <4>3. CASE UNCHANGED drain
        <5>1. ASSUME Retired(q) PROVE Retired(q)'
          <6>1. q # r
            BY <4>1, <5>1
          <6>2. UNCHANGED script
            BY <4>1, <5>1 DEF UndertakeOrNot, Retired, TypeOK
          <6> QED BY <4>1, <5>1, <6>1, <6>2 DEF Retired
        <5> QED BY <1>1, <3>1, <4>3, <5>1
      <4> QED BY <4>1, <4>2, <4>3
    <3>3. ASSUME AllReduce \/ Gather PROVE Drains(q)'
      <4>1. pc[q] # "train" /\ UNCHANGED drain
        BY <3>3 DEF AllReduce, Reduce, Gather, staging
      <4> QED BY <1>1, <3>1, <4>1 DEF Retired
    <3>4. ASSUME BeginRestart PROVE Drains(q)'
      BY <1>0, <3>4 DEF BeginRestart
    <3>5. ~EndRestart /\ ~(\E r \in Ranks : Abort(r))
      BY <3>1 DEF EndRestart, Abort
    <3>6. ASSUME UNCHANGED vars PROVE Drains(q)'
      BY <3>1, <3>6 DEF vars, plan, staging, writing, Retired
    <3> QED BY <3>2, <3>3, <3>4, <3>5, <3>6 DEF Next, Restart
  <2> QED BY <2>1, <2>2
<1>4. ASSUME NEW r \in Ranks, NEW s \in Saves PROVE Torn(r, s)'
  <2>1. CASE files'[r][s] = files[r][s]
    <3>1. files[r][s] = "torn" => setup.shm /\ restarts > 0
      BY DEF DrainInv
    <3> QED BY <1>0, <1>1, <2>1, <3>1
  <2>2. CASE files'[r][s] # files[r][s]
    <3> SUFFICES ASSUME files'[r][s] = "torn" PROVE setup.shm /\ restarts > 0
      BY <1>0, <1>1
    <3>1. WorkerWrite(r) /\ ~IsGood(r)
      BY <2>2, FilesChange
    <3>2. worker[r].state = "write" /\ HandlesAgree(r)
      BY <3>1 DEF WorkerWrite, HandleInv
    <3>3. setup.shm /\ ~drain[r]
      BY <3>1, <3>2 DEF HandlesAgree, IsGood
    <3> QED BY <3>2, <3>3 DEF DrainInv, Retired
  <2> QED BY <2>1, <2>2
<1> QED BY <1>1, <1>2, <1>3, <1>4 DEF DrainInv

LEMMA DrainsInit == Init => DrainInv
  BY DEF Init, DrainInv, CloseEnds

(* The metadata of a checkpoint is written only when the files of every rank  *)
(* are there and whole, and they stay so (save_state_dict_async_finalize),    *)
(* although a rank retrieves its oldest result whichever save it is of, and   *)
(* ranks finalize in polls, blocking waits and drains that each of them       *)
(* begins at its own time.  Not covered: states after a restart that left     *)
(* calls or results of an earlier life in the queues; and after any restart a *)
(* file written from shared memory may hold the values of another save.       *)
THEOREM PublicationsAreComplete == Spec => []PublishedIsComplete
<1>1. Init => TypeOK /\ AccountInv /\ OrderInv /\ ResultInv /\ HandleInv /\ DrainInv
  BY TypesInit, BooksInit, OrderInit, ResultsInit, HandlesInit, DrainsInit
<1>2. TypeOK /\ AccountInv /\ OrderInv /\ ResultInv /\ HandleInv /\ DrainInv /\ [Next]_vars =>
        (TypeOK /\ AccountInv /\ OrderInv /\ ResultInv /\ HandleInv /\ DrainInv)'
  BY StepsKeepTypes, StepsKeepBooks, StepsKeepOrder, StepsKeepResults, StepsKeepHandles,
     StepsKeepDrains
<1>3. TypeOK /\ ResultInv /\ DrainInv => PublishedIsComplete
  <2> SUFFICES ASSUME TypeOK, ResultInv, DrainInv, ~leftover,
                      NEW s \in published, NEW r \in setup.holders
               PROVE  files[r][s] = "good" \/ (files[r][s] = "torn" /\ setup.shm /\ restarts > 0)
    BY DEF PublishedIsComplete
  <2>1. Whole(r, s)
    BY DEF ResultInv, ResultsHold
  <2>2. r \in Ranks /\ s \in Saves
    BY RankTypes DEF TypeOK
  <2> QED BY <2>1, <2>2 DEF Whole, DrainInv
<1> QED BY <1>1, <1>2, <1>3, PTL DEF Spec

-----------------------------------------------------------------------------
(* What is finalized, where no rank drains on its own.                        *)

(* The results of a rank are of saves it has written; so has every rank, once *)
(* one of them finalizes.                                                     *)
Written(h, s) == files[h][s] # "none"
ResultsWritten(h) == \A i \in 1 .. Len(results[h]) : Written(h, results[h][i].id)
CallWritten(r) == pc[r] = "finalize" => \A h \in setup.holders : Written(h, First(r).id)
WrittenInv ==
    ~leftover /\ ~setup.shm =>
        /\ \A h \in setup.holders : ResultsWritten(h)
        /\ \A r \in Ranks : CallWritten(r)
        /\ \A r \in Ranks : \A s \in finalized[r] : \A h \in setup.holders : Written(h, s)

\* What is written stays written.
LEMMA WrittenStays ==
    ASSUME TypeOK, [Next]_vars, NEW h \in Ranks, NEW s \in Saves, Written(h, s)
    PROVE  Written(h, s)'
<1>1. CASE files'[h][s] = files[h][s]
  BY <1>1 DEF Written
<1>2. CASE files'[h][s] # files[h][s]
  <2>1. WorkerWrite(h) /\ s = worker[h].id
    BY <1>2, FilesChange
  <2>2. PICK ok \in BOOLEAN : files' = [files EXCEPT ![h][s] =
           IF ~ok THEN "partial" ELSE IF IsGood(h) THEN "good" ELSE "torn"]
    BY <2>1 DEF WorkerWrite
  <2> QED BY <2>2 DEF Written, TypeOK
<1> QED BY <1>1, <1>2

\* A result is added with the files it is of.
LEMMA StepsKeepResultsWritten ==
    ASSUME TypeOK, AccountInv, [Next]_vars, NEW h \in Ranks, ResultsWritten(h)
    PROVE  ResultsWritten(h)'
<1>1. results[h] \in Seq(Results) /\ \A i \in 1 .. Len(results[h]) : results[h][i].id \in Saves
  <2>1. results[h] \in Seq(Results)
    BY RankTypes
  <2>2. \A i \in 1 .. Len(results[h]) : results[h][i] \in Results
    BY <2>1
  <2> QED BY <2>1, <2>2 DEF Results
<1>2. CASE results'[h] = results[h]
  BY <1>1, <1>2, WrittenStays DEF ResultsWritten, Written
<1>3. CASE WorkerWrite(h)
  <2>1. PICK t \in Saves : t = worker[h].id
    BY <1>3, RankTypes DEF WorkerWrite, AccountInv, Accounted, InScript, WorkerStates
  <2>2. PICK ok \in BOOLEAN :
          /\ results' = [results EXCEPT ![h] = Append(@, [id |-> worker[h].id, ok |-> ok])]
          /\ files' = [files EXCEPT ![h][worker[h].id] =
               IF ~ok THEN "partial" ELSE IF IsGood(h) THEN "good" ELSE "torn"]
    BY <1>3 DEF WorkerWrite
  <2>3. files'[h][t] # "none"
    BY <2>1, <2>2 DEF TypeOK
  <2>4. PICK e \in Results : e = [id |-> t, ok |-> ok] /\ e.id = t
    <3>1. [id |-> t, ok |-> ok] \in Results
      BY DEF Results
    <3> QED BY <3>1
  <2>5. results'[h] = Append(results[h], e)
    BY <2>1, <2>2, <2>4, RankTypes
  <2>6. \A i \in 1 .. Len(results'[h]) :
          (i \in 1 .. Len(results[h]) /\ results'[h][i] = results[h][i]) \/ results'[h][i] = e
    <3> HIDE DEF Results
    <3> QED BY <1>1, <2>4, <2>5
  <2>7. \A i \in 1 .. Len(results[h]) : files'[h][results[h][i].id] # "none"
    BY <1>1, WrittenStays DEF ResultsWritten, Written
  <2> QED BY <2>3, <2>4, <2>6, <2>7 DEF ResultsWritten, Written
<1>4. CASE Finalize(h)
  <2>1. results'[h] = results[h] \/ (results[h] # << >> /\ results'[h] = Tail(results[h]))
    BY <1>4, RankTypes DEF Finalize
  <2>2. ASSUME results[h] # << >>, results'[h] = Tail(results[h]),
               NEW i \in 1 .. Len(results'[h])
        PROVE  i + 1 \in 1 .. Len(results[h]) /\ results'[h][i] = results[h][i + 1]
    <3>1. PICK q \in Seq(Results) : q = results[h]
      BY <1>1
    <3>2. q # << >> /\ i \in 1 .. Len(Tail(q))
      BY <2>2, <3>1
    <3>3. i + 1 \in 1 .. Len(q) /\ Tail(q)[i] = q[i + 1]
      <4> HIDE DEF Results
      <4> QED BY <3>1, <3>2
    <3> QED BY <2>2, <3>1, <3>3
  <2>3. \A i \in 1 .. Len(results[h]) : files'[h][results[h][i].id] # "none"
    BY <1>1, WrittenStays DEF ResultsWritten, Written
  <2> QED BY <1>2, <2>1, <2>2, <2>3 DEF ResultsWritten, Written
<1>5. results'[h] = results[h] \/ WorkerWrite(h) \/ Finalize(h)
  <2>1. ASSUME NEW r \in Ranks, Step(r) \/ Abort(r), r # h PROVE results'[h] = results[h]
    BY <2>1, StepFacts
  <2>2. CASE Step(h) \/ Abort(h)
    BY <2>2
    DEF Step, Trainer, Worker, BeginSave, BeginPoll, PrepareWriteData, ScheduleNothing,
        ScheduleAsyncCall, ReturnFromStaging, Poll, ReturnFromPoll, Close, WorkerStage,
        WorkerDies, Abort, writing
  <2>3. CASE AllReduce \/ Gather \/ BeginRestart \/ EndRestart \/ UNCHANGED vars
    BY <2>3 DEF AllReduce, Reduce, Gather, BeginRestart, EndRestart, vars, writing
  <2> QED BY <2>1, <2>2, <2>3 DEF Next, Restart, Step
<1> QED BY <1>2, <1>3, <1>4, <1>5

\* The ranks vote on the same call.
LEMMA FirstsAgree ==
    ASSUME TypeOK, AccountInv, ScriptInOrder, RanksInOrder, BetweenRanks, AllReduce
    PROVE  \A r, q \in Ranks : First(r).id = First(q).id
<1>1. \A r, q \in Ranks : at[r] = at[q]
  <2>1. \A r \in Ranks : pc[r] = "reduce"
    BY DEF AllReduce, Reduce
  <2> QED BY <2>1, AllAtOnePoint
<1>2. ASSUME NEW r \in Ranks
      PROVE  /\ pc[r] = "reduce" /\ Running(r) /\ CallsInOrder(r) /\ InScript(r)
             /\ First(r) = calls[r][1] /\ 1 \in 1 .. Len(calls[r]) /\ First(r).id \in Saves
  <2>1. pc[r] = "reduce" /\ Running(r) /\ CallsInOrder(r) /\ InScript(r)
    BY DEF AllReduce, Reduce, Running, RanksInOrder, RankInOrder, AccountInv, Accounted
  <2>2. calls[r] # << >>
    BY <2>1 DEF AccountInv, Accounted, VoteIsCovered
  <2>3. First(r) = calls[r][1] /\ 1 \in 1 .. Len(calls[r]) /\ calls[r][1] \in Calls
    BY <2>2, SequencesOf DEF First
  <2>4. calls[r][1].id \in Saves
    BY <2>3 DEF Calls
  <2> QED BY <2>1, <2>3, <2>4
<1>3. ASSUME NEW r \in Ranks, NEW q \in Ranks PROVE First(q).id <= First(r).id
  <2>1. PICK s \in Saves, t \in Saves : s = First(r).id /\ t = First(q).id
    BY <1>2
  <2>2. Scheduled(r, s) /\ Pending(r, s)
    BY <1>2, <2>1 DEF CallsInOrder, Pending, Waiting
  <2>3. Pending(q, s) /\ ~ToCome(at[q], s)
    <3>1. Pending(q, s)
      BY <1>2, <2>2 DEF BetweenRanks, SamePending
    <3>2. ~ToCome(at[r], s)
      BY <1>2, <2>2, PassedIsOver
    <3> QED BY <1>1, <3>1, <3>2
  <2>4. PICK i \in 1 .. Len(calls[q]) : calls[q][i].id = s
    BY <1>2, <2>3 DEF Pending, Waiting
  <2>5. i = 1 \/ 1 < i
    BY SequencesOf
  <2>6. 1 < i => t < s
    BY <1>2, <2>1, <2>4 DEF CallsInOrder
  <2>7. t <= s
    BY <1>2, <2>1, <2>4, <2>5, <2>6 DEF Saves
  <2> QED BY <2>1, <2>7
<1>4. ASSUME NEW r \in Ranks, NEW q \in Ranks PROVE First(r).id = First(q).id
  <2>1. First(r).id \in Nat /\ First(q).id \in Nat
    BY <1>2 DEF Saves
  <2>2. First(r).id <= First(q).id /\ First(q).id <= First(r).id
    BY <1>3
  <2> QED BY <2>1, <2>2
<1> QED BY <1>4

\* When all votes are for done, every rank with data has written the call.
LEMMA DoneIsWritten ==
    ASSUME TypeOK, AccountInv, ScriptInOrder, RanksInOrder, BetweenRanks, ResultsHold,
           AllReduce, AllDone, NEW r \in Ranks, NEW h \in setup.holders, ResultsWritten(h)
    PROVE  Written(h, First(r).id)
<1>1. /\ h \in Ranks /\ pc[h] = "reduce" /\ Accounted(h) /\ Running(h) /\ CallsInOrder(h)
      /\ ResultsInOrder(h)
  BY RankTypes DEF AllReduce, Reduce, AccountInv, Running, RanksInOrder, RankInOrder, ResultsHold
<1>2. calls[h] # << >>
  BY <1>1 DEF Accounted, VoteIsCovered
<1>3. First(h).live /\ worker[h].state # "none" /\ First(h) = calls[h][1]
  BY <1>1, <1>2, FirstIsLive
<1>4. Held(h) = 1
  BY <1>1, <1>3 DEF AllDone, Accounted, VoteIsCovered, Held
<1>5. 1 \in 1 .. Len(results[h]) /\ 1 <= Len(calls[h])
  <2>1. Len(results[h]) = Finalizing(h) + 1 + Len(comp_q[h])
    BY <1>1, <1>4 DEF ResultsInOrder
  <2>2. Finalizing(h) = 0 /\ Len(comp_q[h]) \in Nat /\ Len(calls[h]) \in Nat /\ Len(calls[h]) # 0
    BY <1>1, <1>2, SequencesOf DEF Finalizing
  <2> QED BY <2>1, <2>2
<1>6. results[h][1].id = First(h).id
  BY <1>1, <1>3, <1>5 DEF ResultsInOrder, Due
<1>7. First(h).id = First(r).id
  BY <1>1, FirstsAgree
<1> QED BY <1>5, <1>6, <1>7 DEF ResultsWritten

\* Where no rank drains, a rank begins to finalize in the all_reduce only.
LEMMA FinalizeBegins ==
    ASSUME TypeOK, AccountInv, [Next]_vars, ~setup.shm, NEW r \in Ranks, pc'[r] = "finalize"
    PROVE  \/ AllReduce /\ AllDone /\ calls'[r] = calls[r]
           \/ pc[r] = "finalize" /\ calls'[r] = calls[r]
<1>1. ASSUME NEW q \in Ranks, Step(q) \/ Abort(q), q # r PROVE pc'[r] = pc[r] /\ calls'[r] = calls[r]
  BY <1>1, OthersUntouched DEF Step, Untouched
<1>2. CASE Trainer(r)
  <2>1. CASE BeginSave(r) \/ BeginPoll(r)
    BY <2>1, BeginFacts DEF AccountInv, Accounted
  <2>2. CASE PrepareWriteData(r) \/ ScheduleNothing(r) \/ ScheduleAsyncCall(r)
             \/ ReturnFromStaging(r) \/ ReturnFromPoll(r) \/ Close(r) \/ Finalize(r)
    BY <2>2, RankTypes
    DEF PrepareWriteData, ScheduleNothing, ScheduleAsyncCall, ReturnFromStaging,
        ReturnFromPoll, Close, Finalize, Done, Goto
  <2>3. CASE Poll(r)
    <3>1. pc[r] = "poll"
      BY <2>3 DEF Poll, Polling, MustDrain
    <3> QED BY <2>3, <3>1, RankTypes DEF Poll, NoDist, Goto
  <2> QED BY <1>2, <2>1, <2>2, <2>3 DEF Trainer
<1>3. CASE Worker(r) \/ WorkerDies(r) \/ BeginRestart \/ UNCHANGED vars
  BY <1>3 DEF Worker, WorkerStage, WorkerWrite, WorkerDies, BeginRestart, vars, calling
<1>4. CASE Abort(r) \/ Gather \/ EndRestart
  BY <1>4, RankTypes DEF Abort, Goto, Gather, EndRestart
<1>5. CASE AllReduce
  BY <1>5 DEF AllReduce, Reduce
<1> QED BY <1>1, <1>2, <1>3, <1>4, <1>5 DEF Next, Restart, Step

\* What is finalized is the call of a rank in finalize.
LEMMA FinalizedGrows ==
    ASSUME TypeOK, [Next]_vars, NEW r \in Ranks, NEW s \in finalized'[r]
    PROVE  s \in finalized[r] \/ (pc[r] = "finalize" /\ s = First(r).id)
<1>1. ASSUME NEW q \in Ranks, Finalize(q) 
      PROVE  s \in finalized[r] \/ (pc[r] = "finalize" /\ s = First(r).id)
  <2>1. CASE q = r
    <3>1. pc[r] = "finalize" /\ finalized'[r] = finalized[r] \cup {First(r).id}
      BY <1>1, <2>1, RankTypes DEF Finalize
    <3> QED BY <3>1
  <2>2. CASE q # r
    BY <1>1, <2>2, RankTypes DEF Finalize
  <2> QED BY <2>1, <2>2
<1>2. CASE EndRestart
  BY <1>2 DEF EndRestart
<1>3. CASE finalized' = finalized
  BY <1>3
<1>4. finalized' = finalized \/ EndRestart \/ \E q \in Ranks : Finalize(q)
  <2>1. ASSUME NEW q \in Ranks, Trainer(q) \/ Worker(q) \/ WorkerDies(q) \/ Abort(q), ~Finalize(q)
        PROVE  finalized' = finalized
    BY <2>1
    DEF Trainer, Worker, BeginSave, BeginPoll, PrepareWriteData, ScheduleNothing,
        ScheduleAsyncCall, ReturnFromStaging, Poll, ReturnFromPoll, Close, WorkerStage,
        WorkerWrite, WorkerDies, Abort, outcome
  <2>2. CASE AllReduce \/ Gather \/ BeginRestart \/ UNCHANGED vars
    BY <2>2 DEF AllReduce, Reduce, Gather, BeginRestart, vars, outcome
  <2> QED BY <2>1, <2>2 DEF Next, Restart
<1> QED BY <1>1, <1>2, <1>3, <1>4

\* Every step keeps it.
LEMMA StepsKeepWritten ==
    ASSUME TypeOK, AccountInv, OrderInv, ResultInv, WrittenInv, [Next]_vars
    PROVE  WrittenInv'
<1>1. setup' = setup
  <2>1. ASSUME NEW r \in Ranks, Step(r) \/ Abort(r) PROVE setup' = setup
    BY <2>1, StepFacts
  <2>2. CASE AllReduce \/ Gather \/ BeginRestart \/ EndRestart \/ UNCHANGED vars
    BY <2>2 DEF AllReduce, Reduce, Gather, BeginRestart, EndRestart, vars, plan
  <2> QED BY <2>1, <2>2 DEF Next, Restart, Step
<1> SUFFICES ASSUME ~leftover', ~setup.shm
             PROVE  /\ \A h \in setup.holders : ResultsWritten(h)'
                    /\ \A r \in Ranks : CallWritten(r)'
                    /\ \A r \in Ranks : \A s \in finalized'[r] :
                          \A h \in setup.holders : Written(h, s)'
  BY <1>1 DEF WrittenInv, Written
<1>2. /\ \A h \in setup.holders : h \in Ranks /\ ResultsWritten(h)
      /\ \A r \in Ranks : CallWritten(r)
      /\ \A r \in Ranks : \A s \in finalized[r] : \A h \in setup.holders : Written(h, s)
      /\ ScriptInOrder /\ RanksInOrder /\ BetweenRanks /\ ResultsHold
  BY LeftoverStays, RankTypes DEF WrittenInv, OrderInv, ResultInv
<1>3. \A h \in setup.holders : ResultsWritten(h)'
  BY <1>2, StepsKeepResultsWritten
<1>4. ASSUME NEW r \in Ranks, pc[r] = "finalize" \/ AllReduce
      PROVE  First(r).id \in Saves /\ First(r) = Head(calls[r])
  <2>1. calls[r] # << >>
    BY <1>4 DEF AccountInv, Accounted, VoteIsCovered, AllReduce, Reduce
  <2>2. First(r) \in Calls
    BY <2>1, SequencesOf DEF First
  <2> QED BY <2>2 DEF Calls, First
<1>5. ASSUME NEW r \in Ranks, NEW h \in setup.holders, pc'[r] = "finalize"
      PROVE  Written(h, First(r).id)'
  <2>1. \/ AllReduce /\ AllDone /\ calls'[r] = calls[r]
        \/ pc[r] = "finalize" /\ calls'[r] = calls[r]
    BY <1>5, FinalizeBegins
  <2>2. PICK s \in Saves : s = First(r).id
    BY <1>4, <2>1
  <2>3. Written(h, s)
    BY <1>2, <2>1, <2>2, DoneIsWritten DEF CallWritten
  <2>4. Written(h, s)'
    BY <1>2, <2>3, WrittenStays
  <2>5. First(r)' = First(r)
    BY <2>1 DEF First
  <2> QED BY <2>2, <2>4, <2>5 DEF Written
<1>6. ASSUME NEW r \in Ranks, NEW s \in finalized'[r], NEW h \in setup.holders
      PROVE  Written(h, s)'
  <2>1. CASE s \in finalized[r]
    <3>1. s \in Saves /\ Written(h, s)
      BY <1>2, <2>1, RankTypes
    <3> QED BY <1>2, <3>1, WrittenStays
  <2>2. CASE pc[r] = "finalize" /\ s = First(r).id
    <3>1. s \in Saves /\ Written(h, s)
      BY <1>2, <1>4, <2>2 DEF CallWritten
    <3> QED BY <1>2, <3>1, WrittenStays
  <2> QED BY <2>1, <2>2, FinalizedGrows
<1>7. \A r \in Ranks : CallWritten(r)'
  BY <1>1, <1>5 DEF CallWritten
<1> QED BY <1>3, <1>6, <1>7

(* A rank calls the finalize functions of a save when the writes of all ranks *)
(* have ended (the docstring of AsyncRequest), whole or not, except where a   *)
(* rank drains on its own: the completions that the ranks hold in the         *)
(* all_reduce are of one save.                                                *)
THEOREM FinalizationsFollowWrites == Spec => []FinalizedAfterAllWrote
<1>1. Init => TypeOK /\ AccountInv /\ OrderInv /\ ResultInv
  BY TypesInit, BooksInit, OrderInit, ResultsInit
<1>2. Init => WrittenInv
  <2> SUFFICES ASSUME Init PROVE WrittenInv
    OBVIOUS
  <2>1. \A r \in Ranks : Len(results[r]) = 0 /\ pc[r] = "train" /\ finalized[r] = {}
    BY DEF Init
  <2>2. setup.holders \subseteq Ranks
    BY TypesInit, RankTypes
  <2> QED BY <2>1, <2>2 DEF WrittenInv, ResultsWritten, CallWritten
<1>3. TypeOK /\ AccountInv /\ OrderInv /\ ResultInv /\ WrittenInv /\ [Next]_vars =>
        (TypeOK /\ AccountInv /\ OrderInv /\ ResultInv /\ WrittenInv)'
  BY StepsKeepTypes, StepsKeepBooks, StepsKeepOrder, StepsKeepResults, StepsKeepWritten
<1>4. WrittenInv => FinalizedAfterAllWrote
  BY DEF WrittenInv, FinalizedAfterAllWrote, Written
<1> QED BY <1>1, <1>2, <1>3, <1>4, PTL DEF Spec
=============================================================================
