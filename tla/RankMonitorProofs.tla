------------------------- MODULE RankMonitorProofs --------------------------
(* Proofs of invariants of the rank monitor for any number of workers,        *)
(* sections, messages under way and iterations.                               *)
EXTENDS RankMonitorProperties, FiniteSetTheorems, TLAPS

-----------------------------------------------------------------------------
(* One connection is read at a time, and it is that of the monitored rank.    *)

Reading(w) == handler[w] = "reading"

(* What the lock and the handlers have to do with each other.                 *)
ConnectionInv ==
    /\ newest \in Nat /\ newest <= MaxWorkers
    /\ DOMAIN handler = Workers /\ handler = [w \in Workers |-> handler[w]]
    /\ \A w \in Workers : w > newest => handler[w] = "none"
    /\ ~locked => \A w \in Workers : ~Reading(w)
    /\ \A v, w \in Workers : Reading(v) /\ Reading(w) => v = w
    /\ rank_info # 0 => rank_info \in Workers /\ Reading(rank_info)

LEMMA ConnectionInit == Init => ConnectionInv
<1> SUFFICES ASSUME Init PROVE ConnectionInv
  OBVIOUS
<1>1. newest = 0 /\ rank_info = 0 /\ handler = [w \in Workers |-> "none"]
  BY DEF Init
<1> QED BY <1>1, BoundsAssumption DEF ConnectionInv, Reading, Workers

(* Most steps leave the connections alone.                                    *)
connections == <<newest, handler, locked, rank_info>>

LEMMA QuietConnections ==
    ASSUME ConnectionInv, UNCHANGED connections
    PROVE  ConnectionInv'
BY DEF ConnectionInv, Reading, connections

LEMMA ReadingChanges ==
    ASSUME ConnectionInv, NEW w \in Workers,
           Accept(w) \/ Acquire(w) \/ HandleInit(w)
    PROVE  ConnectionInv'
<1>1. CASE HandleInit(w)
  <2>1. rank_info' = w /\ Reading(w) /\ 0 \notin Workers /\ UNCHANGED <<newest, handler, locked>>
    BY <1>1, BoundsAssumption DEF HandleInit, Receive, Reading, Workers
  <2> QED BY <2>1 DEF ConnectionInv, Reading
<1>2. ASSUME handler[w] \in {"new", "waiting"},
             handler' = [handler EXCEPT ![w] = "reading"],
             ~locked, locked', UNCHANGED <<newest, rank_info>>
      PROVE ConnectionInv'
  <2>1. ~(w > newest)
    BY <1>2 DEF ConnectionInv
  <2>2. \A v \in Workers : handler'[v] = IF v = w THEN "reading" ELSE handler[v]
    BY <1>2 DEF ConnectionInv
  <2>3. DOMAIN handler' = Workers /\ handler' = [v \in Workers |-> handler'[v]]
    BY <1>2 DEF ConnectionInv
  <2> QED BY <1>2, <2>1, <2>2, <2>3 DEF ConnectionInv, Reading
<1>3. ASSUME handler[w] = "new", NEW label \in {"refused", "waiting"},
             handler' = [handler EXCEPT ![w] = label], UNCHANGED <<newest, rank_info, locked>>
      PROVE ConnectionInv'
  <2>1. ~(w > newest)
    BY <1>3 DEF ConnectionInv
  <2>2. \A v \in Workers : handler'[v] = IF v = w THEN label ELSE handler[v]
    BY <1>3 DEF ConnectionInv
  <2>3. DOMAIN handler' = Workers /\ handler' = [v \in Workers |-> handler'[v]]
    BY <1>3 DEF ConnectionInv
  <2> QED BY <1>3, <2>1, <2>2, <2>3 DEF ConnectionInv, Reading
<1>4. CASE Accept(w)
  BY <1>2, <1>3, <1>4 DEF Accept, monitored, client
<1>5. CASE Acquire(w)
  BY <1>2, <1>5 DEF Acquire, monitored, client
<1> QED BY <1>1, <1>4, <1>5

LEMMA ReadingEnds ==
    ASSUME ConnectionInv, NEW w \in Workers,
           HandleEndOfStream(w) \/ RefuseMessage(w)
    PROVE  ConnectionInv'
<1>1. PICK label \in {"done", "refused"} :
          handler[w] = "reading" /\ handler' = [handler EXCEPT ![w] = label]
  BY DEF HandleEndOfStream, RefuseMessage, Receive
<1>2. rank_info' = 0 /\ ~locked' /\ newest' = newest
  BY DEF HandleEndOfStream, RefuseMessage, ConnectionLost, client
<1>3. \A v \in Workers : handler'[v] = IF v = w THEN label ELSE handler[v]
  BY <1>1 DEF ConnectionInv
<1>4. DOMAIN handler' = Workers /\ handler' = [v \in Workers |-> handler'[v]]
  BY <1>1 DEF ConnectionInv
<1>5. \A v \in Workers : ~Reading(v)'
  BY <1>1, <1>3 DEF ConnectionInv, Reading
<1>6. ~(w > newest)
  BY <1>1 DEF ConnectionInv
<1> QED BY <1>1, <1>2, <1>3, <1>4, <1>5, <1>6 DEF ConnectionInv, Reading

LEMMA NewConnection ==
    ASSUME ConnectionInv, StartWorker
    PROVE  ConnectionInv'
<1>1. /\ newest' = newest + 1 /\ newest < MaxWorkers
      /\ handler' = [handler EXCEPT ![newest'] = "new"]
      /\ UNCHANGED <<locked, rank_info>>
  BY DEF StartWorker, monitored
<1>2. newest' \in Workers
  BY <1>1, BoundsAssumption DEF ConnectionInv, Workers
<1>3. \A v \in Workers : handler'[v] = IF v = newest' THEN "new" ELSE handler[v]
  BY <1>1 DEF ConnectionInv
<1>4. DOMAIN handler' = Workers /\ handler' = [v \in Workers |-> handler'[v]]
  BY <1>1 DEF ConnectionInv
<1>5. handler[newest'] = "none"
  BY <1>1, <1>2 DEF ConnectionInv
<1>6. \A v \in Workers : Reading(v)' => Reading(v) /\ v # newest'
  BY <1>3 DEF Reading
<1>7. rank_info # 0 => rank_info # newest'
  BY <1>5 DEF ConnectionInv, Reading
<1>8. newest' \in Nat /\ newest' <= MaxWorkers /\ \A v \in Workers : v > newest' => v > newest
  BY <1>1, BoundsAssumption DEF ConnectionInv, Workers
<1>9. \A v \in Workers : v > newest' => v # newest'
  BY <1>8
<1> QED BY <1>1, <1>3, <1>4, <1>6, <1>7, <1>8, <1>9 DEF ConnectionInv, Reading

LEMMA ConnectionNext ==
    ASSUME ConnectionInv, [Next]_vars
    PROVE  ConnectionInv'
<1>1. ASSUME NEW w \in Workers, Handle(w) PROVE ConnectionInv'
  <2>1. CASE Accept(w) \/ Acquire(w) \/ HandleInit(w)
    BY <2>1, ReadingChanges
  <2>2. CASE HandleEndOfStream(w) \/ RefuseMessage(w)
    BY <2>2, ReadingEnds
  <2>3. CASE HandleUpdateConfig(w) \/ HandleHeartbeat(w) \/ HandleOpen(w) \/ HandleClose(w)
    <3>1. UNCHANGED connections
      BY <2>3 DEF HandleUpdateConfig, HandleHeartbeat, HandleOpen, HandleClose, connections,
                  monitored
    <3> QED BY <3>1, QuietConnections
  <2> QED BY <1>1, <2>1, <2>2, <2>3 DEF Handle
<1>2. ASSUME StartWorker PROVE ConnectionInv'
  BY <1>2, NewConnection
<1>3. ASSUME Signal \/ Tick \/ UNCHANGED vars PROVE ConnectionInv'
  <2>1. UNCHANGED connections
    BY <1>3 DEF Signal, Tick, vars, server, client, monitored, connections
  <2> QED BY <2>1, QuietConnections
<1>4. ASSUME Dies \/ SetTimeouts \/ SendHeartbeat \/ Hang
             \/ (\E s \in Sections : StartSection(s) \/ EndSection(s))
      PROVE ConnectionInv'
  <2>1. UNCHANGED connections
    BY <1>4 DEF Dies, SetTimeouts, SendHeartbeat, Hang, StartSection, EndSection, server,
                monitored, connections
  <2> QED BY <2>1, QuietConnections
<1>5. ASSUME PeriodicCheck \/ HealthCheckFails \/ ClientFails PROVE Dies
  BY <1>5 DEF PeriodicCheck, HealthCheckFails, ClientFails
<1> QED BY <1>1, <1>2, <1>3, <1>4, <1>5 DEF Next, Worker

(* MonitoredIsConnected for any number of workers: the lock, the handlers and *)
(* the rank under monitoring (_handle_ipc_connection, _handle_init_msg,       *)
(* _handle_ipc_connection_lost) never disagree.                               *)
THEOREM OneConnectionIsRead == Spec => []MonitoredIsConnected
<1>1. ConnectionInv => MonitoredIsConnected
  BY DEF ConnectionInv, MonitoredIsConnected, Reading
<1> QED BY <1>1, ConnectionInit, ConnectionNext, PTL DEF Spec

-----------------------------------------------------------------------------
(* The iterations of a session.                                               *)

(* A message that tells the iteration.                                        *)
Tells(m) == m.kind \in {"open", "close"} /\ m.section = "step" /\ m.iteration # None

Tracked == iterations # NoIterations

IterationTypes ==
    /\ iteration \in 0 .. MaxIteration /\ first_iteration \in 0 .. MaxIteration
    /\ first_iteration <= iteration
    /\ sent \in [Workers -> Seq(Messages)]
    /\ iterations \in [initial : IterationOrNone, current : IterationOrNone]

(* What the newest worker has told and the server not yet read lies between   *)
(* where the worker started and where it is, in this order.                   *)
InOrder(s) ==
    \A i \in 1 .. Len(s) : Tells(s[i]) =>
        /\ first_iteration <= s[i].iteration
        /\ Alive => s[i].iteration <= iteration
        /\ \A j \in i .. Len(s) : Tells(s[j]) => s[i].iteration <= s[j].iteration

(* What the server has read of the newest worker comes before that.           *)
ReadBefore(s) ==
    /\ first_iteration <= iterations.initial /\ iterations.initial <= iterations.current
    /\ Alive => iterations.current <= iteration
    /\ \A i \in 1 .. Len(s) : Tells(s[i]) => iterations.current <= s[i].iteration

IterationInv ==
    /\ IterationTypes
    /\ (\A w \in Workers : ~Reading(w)) => ~Tracked
    /\ newest # 0 => InOrder(sent[newest])
    /\ newest # 0 /\ Tracked /\ Reading(newest) => ReadBefore(sent[newest])

LEMMA MessagesTell ==
    ASSUME NEW m \in Messages, Tells(m)
    PROVE  m.iteration \in 0 .. MaxIteration
BY DEF Messages, Tells, IterationOrNone

LEMMA MessageKinds ==
    /\ \A k \in {"init", "update", "heartbeat"} : [kind |-> k] \in Messages /\ ~Tells([kind |-> k])
    /\ \A k \in {"open", "close"}, s \in Sections, i \in IterationOrNone :
          [kind |-> k, section |-> s, iteration |-> i] \in Messages
BY DEF Messages, Tells

LEMMA IterationInit == Init => IterationInv
<1> SUFFICES ASSUME Init PROVE IterationInv
  OBVIOUS
<1>1. /\ iteration = 0 /\ first_iteration = 0 /\ newest = 0 /\ iterations = NoIterations
      /\ sent = [w \in Workers |-> << >>]
  BY DEF Init
<1>2. IterationTypes
  BY <1>1, BoundsAssumption DEF IterationTypes, NoIterations, IterationOrNone
<1> QED BY <1>1, <1>2 DEF IterationInv, Tracked

(* Steps that neither send nor read a message that tells an iteration.        *)
LEMMA SilentSteps ==
    ASSUME IterationInv, UNCHANGED <<iteration, first_iteration, sent, iterations, handler, newest>>,
           Alive' => Alive
    PROVE  IterationInv'
BY DEF IterationInv, IterationTypes, InOrder, ReadBefore, Tracked, Reading

LEMMA NewestIsWorker == ConnectionInv /\ newest # 0 => newest \in Workers
BY BoundsAssumption DEF ConnectionInv, Workers

(* A handler that takes or leaves the lock, with nothing tracked or nothing   *)
(* changed about who reads.                                                   *)
LEMMA HandlerSteps ==
    ASSUME ConnectionInv, IterationInv,
           UNCHANGED <<iteration, first_iteration, sent, iterations, newest, worker>>,
           ~Tracked \/ \A v \in Workers : Reading(v)' <=> Reading(v)
    PROVE  IterationInv'
<1>1. Alive' <=> Alive
  BY DEF Alive
<1>2. IterationTypes' /\ (Tracked' <=> Tracked) /\ (newest # 0 => InOrder(sent[newest]))'
  BY <1>1 DEF IterationInv, IterationTypes, InOrder, Tracked
<1>3. CASE ~Tracked
  BY <1>2, <1>3 DEF IterationInv
<1>4. CASE \A v \in Workers : Reading(v)' <=> Reading(v)
  <2>1. ASSUME newest # 0, Tracked, Reading(newest)' PROVE ReadBefore(sent[newest])'
    <3>1. Reading(newest)' <=> handler'[newest] = "reading"
      BY DEF Reading
    <3>2. Reading(newest)
      BY <1>4, <2>1, <3>1, NewestIsWorker DEF Reading
    <3> QED BY <1>1, <2>1, <3>2 DEF IterationInv, ReadBefore
  <2>2. (\A w \in Workers : ~Reading(w)') => ~Tracked
    BY <1>4 DEF IterationInv
  <2> QED BY <1>2, <2>1, <2>2 DEF IterationInv
<1> QED BY <1>3, <1>4

(* What is left of a connection's messages is still in order.                 *)
LEMMA RestInOrder ==
    ASSUME NEW s \in Seq(Messages), s # << >>
    PROVE  /\ Tail(s) \in Seq(Messages)
           /\ InOrder(s) => InOrder(Tail(s))
           /\ ReadBefore(s) => ReadBefore(Tail(s))
<1>1. Len(Tail(s)) = Len(s) - 1 /\ Len(s) \in Nat /\ Tail(s) \in Seq(Messages)
  OBVIOUS
<1>2. \A i \in 1 .. Len(Tail(s)) : Tail(s)[i] = s[i + 1] /\ i + 1 \in 1 .. Len(s)
  BY <1>1
<1>3. InOrder(s) => InOrder(Tail(s))
  <2> SUFFICES ASSUME InOrder(s), NEW i \in 1 .. Len(Tail(s)), Tells(s[i + 1])
               PROVE  /\ first_iteration <= s[i + 1].iteration
                      /\ Alive => s[i + 1].iteration <= iteration
                      /\ \A j \in i .. Len(Tail(s)) :
                            Tells(s[j + 1]) => s[i + 1].iteration <= s[j + 1].iteration
    BY <1>1, <1>2 DEF InOrder
  <2>1. \A j \in i .. Len(Tail(s)) : j + 1 \in i + 1 .. Len(s)
    BY <1>1
  <2> QED BY <1>2, <2>1 DEF InOrder
<1>4. ReadBefore(s) => ReadBefore(Tail(s))
  BY <1>2 DEF ReadBefore
<1> QED BY <1>1, <1>3, <1>4

(* A message is read that tells no iteration.                                 *)
LEMMA ReadingOn ==
    ASSUME ConnectionInv, IterationInv, NEW w \in Workers, sent[w] # << >>,
           sent' = [sent EXCEPT ![w] = Tail(@)], Alive' = Alive,
           UNCHANGED <<iteration, first_iteration, iterations, newest, handler>>
    PROVE  IterationInv'
<1>1. sent[w] \in Seq(Messages) /\ DOMAIN sent = Workers
  BY DEF IterationInv, IterationTypes
<1>2. IterationTypes'
  BY <1>1, RestInOrder DEF IterationInv, IterationTypes
<1>3. \A v \in Workers : sent'[v] = IF v = w THEN Tail(sent[w]) ELSE sent[v]
  BY <1>1
<1>4. newest # 0 => sent'[newest] = sent[newest] \/ (newest = w /\ sent'[newest] = Tail(sent[newest]))
  BY <1>3, NewestIsWorker
<1>5. newest # 0 => InOrder(sent'[newest])
  BY <1>1, <1>4, RestInOrder DEF IterationInv
<1>6. newest # 0 /\ Tracked /\ Reading(newest) => ReadBefore(sent'[newest])
  BY <1>1, <1>4, RestInOrder DEF IterationInv
<1>7. newest # 0 => InOrder(sent[newest])'
  BY <1>5 DEF InOrder
<1>8. newest # 0 /\ Tracked /\ Reading(newest) => ReadBefore(sent[newest])'
  BY <1>6 DEF ReadBefore
<1> QED BY <1>2, <1>7, <1>8 DEF IterationInv, Tracked, Reading

(* A message is read that may tell one: HandleOpen and HandleClose.           *)
LEMMA Tracking ==
    ASSUME ConnectionInv, IterationInv, NEW w \in Workers, Reading(w), sent[w] # << >>,
           Head(sent[w]).kind \in {"open", "close"}, TrackIteration(Head(sent[w])),
           sent' = [sent EXCEPT ![w] = Tail(@)], Alive' = Alive,
           UNCHANGED <<iteration, first_iteration, newest, handler>>
    PROVE  IterationInv'
<1> DEFINE m == Head(sent[w])
<1>1. CASE ~Tells(m)
  <2>1. UNCHANGED iterations
    BY <1>1 DEF TrackIteration, Tells
  <2> QED BY <2>1, ReadingOn
<1>2. CASE Tells(m)
  <2>1. sent[w] \in Seq(Messages) /\ DOMAIN sent = Workers
    BY DEF IterationInv, IterationTypes
  <2>2. m \in Messages /\ m = sent[w][1] /\ 1 \in 1 .. Len(sent[w])
    BY <2>1
  <2>3. m.iteration \in 0 .. MaxIteration
    BY <1>2, <2>2, MessagesTell
  <2>4. iterations' = [initial |-> IF Tracked THEN iterations.initial ELSE m.iteration,
                       current |-> m.iteration]
    BY <1>2 DEF TrackIteration, Tells, Tracked
  <2>5. IterationTypes'
    <3>1. iterations' \in [initial : IterationOrNone, current : IterationOrNone]
      BY <2>3, <2>4 DEF IterationInv, IterationTypes, IterationOrNone
    <3> QED BY <2>1, <3>1, RestInOrder DEF IterationInv, IterationTypes
  <2>6. \A v \in Workers : sent'[v] = IF v = w THEN Tail(sent[w]) ELSE sent[v]
    BY <2>1
  <2>7. newest # 0 => InOrder(sent[newest])'
    <3> SUFFICES ASSUME newest # 0 PROVE InOrder(sent[newest])'
      OBVIOUS
    <3>1. InOrder(sent'[newest])
      BY <2>1, <2>6, NewestIsWorker, RestInOrder DEF IterationInv
    <3> QED BY <3>1 DEF InOrder
  <2>8. ASSUME newest # 0, Reading(newest) PROVE ReadBefore(sent[newest])'
    <3>1. newest = w
      BY <2>8, NewestIsWorker DEF ConnectionInv
    <3>2. InOrder(sent[w]) /\ (Tracked => ReadBefore(sent[w]))
      BY <2>8, <3>1 DEF IterationInv
    <3>3. first_iteration <= m.iteration /\ (Alive => m.iteration <= iteration)
      BY <1>2, <2>2, <3>2 DEF InOrder
    <3>4. Tracked => first_iteration <= iterations.initial /\ iterations.initial <= m.iteration
      <4>1. Tracked => /\ first_iteration <= iterations.initial
                       /\ iterations.initial <= iterations.current
                       /\ iterations.current <= m.iteration
        BY <1>2, <2>2, <3>2 DEF ReadBefore
      <4>2. iterations.initial \in Int /\ iterations.current \in Int
        BY BoundsAssumption DEF IterationInv, IterationTypes, IterationOrNone, None
      <4> QED BY <2>3, <4>1, <4>2
    <3>5. iterations'.current = m.iteration
          /\ iterations'.initial = IF Tracked THEN iterations.initial ELSE m.iteration
      BY <2>4
    <3>6. \A i \in 1 .. Len(Tail(sent[w])) :
            Tells(Tail(sent[w])[i]) => m.iteration <= Tail(sent[w])[i].iteration
      <4>1. \A j \in 1 .. Len(sent[w]) : Tells(sent[w][j]) => m.iteration <= sent[w][j].iteration
        BY <1>2, <2>2, <3>2 DEF InOrder
      <4>2. \A i \in 1 .. Len(Tail(sent[w])) :
              i + 1 \in 1 .. Len(sent[w]) /\ Tail(sent[w])[i] = sent[w][i + 1]
        BY <2>1
      <4> QED BY <4>1, <4>2
    <3>7. sent'[newest] = Tail(sent[w])
      BY <2>6, <3>1
    <3>8. first_iteration <= iterations'.initial /\ iterations'.initial <= iterations'.current
      BY <2>3, <3>3, <3>4, <3>5
    <3>9. Alive' => iterations'.current <= iteration
      BY <3>3, <3>5
    <3>10. \A i \in 1 .. Len(sent'[newest]) :
             Tells(sent'[newest][i]) => iterations'.current <= sent'[newest][i].iteration
      BY <3>5, <3>6, <3>7
    <3> QED BY <3>8, <3>9, <3>10 DEF ReadBefore
  <2>9. Reading(w)'
    BY DEF Reading
  <2>10. newest # 0 /\ Reading(newest)' => Reading(newest)
    BY DEF Reading
  <2> QED BY <2>5, <2>7, <2>8, <2>9, <2>10 DEF IterationInv
<1> QED BY <1>1, <1>2

LEMMA ServerStepsKeepIterations ==
    ASSUME ConnectionInv, IterationInv, NEW w \in Workers, Handle(w)
    PROVE  IterationInv'
<1>1. CASE Accept(w) \/ Acquire(w)
  <2>1. UNCHANGED <<iteration, first_iteration, sent, iterations, newest, worker>>
    BY <1>1 DEF Accept, Acquire, monitored, client
  <2>2. CASE locked' /\ ~locked
    <3>1. ~Tracked
      BY <2>2 DEF ConnectionInv, IterationInv
    <3> QED BY <2>1, <3>1, HandlerSteps
  <2>3. CASE ~(locked' /\ ~locked)
    <3>1. \A v \in Workers : Reading(v)' <=> Reading(v)
      BY <1>1, <2>3 DEF Accept, Acquire, ConnectionInv, Reading
    <3> QED BY <2>1, <3>1, HandlerSteps
  <2> QED BY <2>2, <2>3
<1>2. CASE HandleInit(w) \/ HandleUpdateConfig(w) \/ HandleHeartbeat(w)
  <2>1. /\ sent[w] # << >> /\ sent' = [sent EXCEPT ![w] = Tail(@)]
        /\ UNCHANGED <<iteration, first_iteration, iterations, newest, handler>>
    BY <1>2 DEF HandleInit, HandleUpdateConfig, HandleHeartbeat, Receive, monitored
  <2>2. Alive' = Alive
    BY <1>2 DEF HandleInit, HandleUpdateConfig, HandleHeartbeat, Answered, Alive
  <2> QED BY <2>1, <2>2, ReadingOn
<1>3. CASE HandleOpen(w) \/ HandleClose(w)
  <2>1. /\ sent[w] # << >> /\ sent' = [sent EXCEPT ![w] = Tail(@)] /\ Reading(w)
        /\ Head(sent[w]).kind \in {"open", "close"} /\ TrackIteration(Head(sent[w]))
        /\ UNCHANGED <<iteration, first_iteration, newest, handler, worker>>
    BY <1>3 DEF HandleOpen, HandleClose, Receive, Reading
  <2>2. Alive' = Alive
    BY <2>1 DEF Alive
  <2> QED BY <2>1, <2>2, Tracking
<1>4. CASE HandleEndOfStream(w) \/ RefuseMessage(w)
  <2>1. iterations' = NoIterations /\ UNCHANGED <<iteration, first_iteration, newest, worker>>
    BY <1>4 DEF HandleEndOfStream, RefuseMessage, ConnectionLost, client
  <2>2. sent' = sent \/ (sent[w] # << >> /\ sent' = [sent EXCEPT ![w] = Tail(@)])
    BY <1>4 DEF HandleEndOfStream, RefuseMessage, Receive, client
  <2>3. sent[w] \in Seq(Messages) /\ DOMAIN sent = Workers
    BY DEF IterationInv, IterationTypes
  <2>4. IterationTypes'
    BY <2>1, <2>2, <2>3, RestInOrder
       DEF IterationInv, IterationTypes, NoIterations, IterationOrNone
  <2>5. ASSUME newest # 0 PROVE InOrder(sent[newest])'
    <3>1. sent'[newest] = sent[newest]
          \/ (sent[newest] # << >> /\ sent'[newest] = Tail(sent[newest]))
      BY <2>2, <2>3, <2>5, NewestIsWorker
    <3>2. InOrder(sent'[newest])
      BY <2>5, <3>1, RestInOrder, NewestIsWorker DEF IterationInv, IterationTypes
    <3>3. Alive' = Alive
      BY <2>1 DEF Alive
    <3> QED BY <2>1, <3>2, <3>3 DEF InOrder
  <2> QED BY <2>1, <2>4, <2>5 DEF IterationInv, Tracked
<1> QED BY <1>1, <1>2, <1>3, <1>4 DEF Handle

(* The worker tells where it is, and goes on from there.                      *)
LEMMA Sending ==
    ASSUME ConnectionInv, IterationInv, NEW m \in Messages, Send(m),
           Tells(m) => m.iteration = iteration,
           iteration' \in iteration .. MaxIteration, Alive' = Alive,
           UNCHANGED <<first_iteration, iterations, newest, handler>>
    PROVE  IterationInv'
<1> DEFINE s == sent[newest]
           t == Append(s, m)
<1>1. /\ iteration \in Nat /\ first_iteration \in Nat /\ first_iteration <= iteration
      /\ sent \in [Workers -> Seq(Messages)] /\ iteration <= iteration'
      /\ iteration' \in 0 .. MaxIteration
  BY BoundsAssumption DEF IterationInv, IterationTypes
<1>2. sent' = [sent EXCEPT ![newest] = t] /\ Alive
  BY DEF Send, Alive
<1>3. IterationTypes'
  <2>1. sent' = [w \in Workers |-> IF w = newest THEN t ELSE sent[w]]
    BY <1>1, <1>2
  <2>2. ASSUME NEW w \in Workers
        PROVE  (IF w = newest THEN t ELSE sent[w]) \in Seq(Messages)
    BY <1>1
  <2>3. sent' \in [Workers -> Seq(Messages)]
    BY <2>1, <2>2
  <2> QED BY <1>1, <2>3 DEF IterationInv, IterationTypes
<1>4. CASE newest = 0
  BY <1>3, <1>4 DEF IterationInv, Tracked, Reading
<1>5. CASE newest # 0
  <2>1. s \in Seq(Messages) /\ sent'[newest] = t
    BY <1>1, <1>2, <1>5, NewestIsWorker
  <2>2. /\ Len(t) = Len(s) + 1 /\ Len(s) \in Nat /\ t[Len(t)] = m
        /\ \A i \in 1 .. Len(s) : t[i] = s[i] /\ s[i] \in Messages
    BY <2>1
  <2> HIDE DEF s, t
  <2>3. InOrder(s)
    BY <1>5 DEF IterationInv, s
  <2>4. \A i \in 1 .. Len(t) : Tells(t[i]) =>
          first_iteration <= t[i].iteration /\ t[i].iteration <= iteration
    BY <1>1, <1>2, <2>2, <2>3 DEF InOrder
  <2>5. \A i \in 1 .. Len(t) : Tells(t[i]) => t[i].iteration \in Nat
    BY <1>1, <2>2, MessagesTell
  <2>6. ASSUME NEW i \in 1 .. Len(t), NEW j \in i .. Len(t), Tells(t[i]), Tells(t[j])
        PROVE  t[i].iteration <= t[j].iteration
    <3>1. CASE j = Len(t)
      BY <2>2, <2>4, <2>6, <3>1
    <3>2. CASE j # Len(t)
      <4>1. j \in 1 .. Len(s) /\ i \in 1 .. Len(s) /\ j \in i .. Len(s)
        BY <2>2, <2>6, <3>2
      <4> QED BY <2>2, <2>3, <2>6, <4>1 DEF InOrder
    <3> QED BY <3>1, <3>2
  <2>7. InOrder(sent[newest])'
    <3>1. \A i \in 1 .. Len(t) : Tells(t[i]) => t[i].iteration <= iteration'
      BY <1>1, <2>4, <2>5
    <3> QED BY <2>1, <2>4, <2>6, <3>1 DEF InOrder
  <2>8. ASSUME Tracked, Reading(newest) PROVE ReadBefore(sent[newest])'
    <3>1. ReadBefore(s)
      BY <1>5, <2>8 DEF IterationInv, s
    <3>2. iterations.current \in Int
      BY BoundsAssumption DEF IterationInv, IterationTypes, IterationOrNone, None
    <3>3. \A i \in 1 .. Len(t) : Tells(t[i]) => iterations.current <= t[i].iteration
      BY <1>2, <2>2, <3>1 DEF ReadBefore
    <3>4. iterations.current <= iteration'
      BY <1>1, <1>2, <3>1, <3>2 DEF ReadBefore
    <3> QED BY <2>1, <3>1, <3>3, <3>4 DEF ReadBefore
  <2> QED BY <1>3, <2>7, <2>8 DEF IterationInv, Tracked, Reading
<1> QED BY <1>4, <1>5

LEMMA WorkerStepsKeepIterations ==
    ASSUME ConnectionInv, IterationInv, Worker \/ PeriodicCheck \/ HealthCheckFails
    PROVE  IterationInv'
<1>1. ASSUME Dies PROVE IterationInv'
  <2>1. /\ iteration' = 0 /\ first_iteration' = 0 /\ ~Alive'
        /\ UNCHANGED <<sent, iterations, handler, newest>>
    BY <1>1 DEF Dies, Alive, server, monitored
  <2>2. IterationTypes'
    BY <2>1, BoundsAssumption DEF IterationInv, IterationTypes
  <2>3. ASSUME newest # 0 PROVE InOrder(sent[newest])'
    <3>1. InOrder(sent[newest]) /\ sent[newest] \in Seq(Messages)
      BY <2>3, NewestIsWorker DEF IterationInv, IterationTypes
    <3>2. \A i \in 1 .. Len(sent[newest]) :
            Tells(sent[newest][i]) => 0 <= sent[newest][i].iteration
      BY <3>1, MessagesTell
    <3> QED BY <2>1, <3>1, <3>2 DEF InOrder
  <2>4. ASSUME newest # 0, Tracked, Reading(newest) PROVE ReadBefore(sent[newest])'
    <3>1. ReadBefore(sent[newest]) /\ iterations.initial \in Int
          /\ first_iteration \in Nat
      BY <2>4, BoundsAssumption
         DEF IterationInv, IterationTypes, IterationOrNone, None
    <3>2. 0 <= iterations.initial
      BY <3>1 DEF ReadBefore
    <3> QED BY <2>1, <3>1, <3>2 DEF ReadBefore
  <2> QED BY <2>1, <2>2, <2>3, <2>4 DEF IterationInv, Tracked, Reading
<1>2. ASSUME StartWorker PROVE IterationInv'
  <2>1. /\ newest' = newest + 1 /\ newest < MaxWorkers
        /\ handler' = [handler EXCEPT ![newest'] = "new"]
        /\ sent' = [sent EXCEPT ![newest'] = <<[kind |-> "init"]>>]
        /\ iteration' \in 0 .. MaxIteration /\ first_iteration' = iteration'
        /\ UNCHANGED iterations
    BY <1>2 DEF StartWorker, monitored
  <2>2. newest' \in Workers /\ handler[newest'] = "none"
    BY <2>1, BoundsAssumption DEF ConnectionInv, Workers
  <2>3. /\ IterationTypes'
        /\ sent'[newest'] = <<[kind |-> "init"]>>
    <3>1. <<[kind |-> "init"]>> \in Seq(Messages)
      BY MessageKinds
    <3>2. first_iteration' <= iteration' /\ first_iteration' \in 0 .. MaxIteration
      BY <2>1, BoundsAssumption
    <3> QED BY <2>1, <2>2, <3>1, <3>2 DEF IterationInv, IterationTypes
  <2>4. InOrder(sent[newest])'
    <3>1. \A i \in 1 .. Len(<<[kind |-> "init"]>>) : ~Tells(<<[kind |-> "init"]>>[i])
      BY MessageKinds
    <3> QED BY <2>3, <3>1 DEF InOrder
  <2>5. \A v \in Workers : Reading(v)' <=> Reading(v) /\ v # newest'
    BY <2>1 DEF ConnectionInv, Reading
  <2>6. ~Reading(newest)'
    BY <2>1, <2>2 DEF ConnectionInv, Reading
  <2>7. (\A v \in Workers : ~Reading(v)') => ~Tracked
    BY <2>2, <2>5 DEF IterationInv, Reading
  <2> QED BY <2>1, <2>3, <2>4, <2>6, <2>7 DEF IterationInv, Tracked
<1>3. ASSUME SendHeartbeat \/ SetTimeouts PROVE IterationInv'
  <2>1. \E k \in {"heartbeat", "update"} : Send([kind |-> k])
    BY <1>3 DEF SendHeartbeat, SetTimeouts
  <2>2. UNCHANGED <<iteration, first_iteration, iterations, newest, handler>> /\ Alive' = Alive
    BY <1>3 DEF SendHeartbeat, SetTimeouts, Send, Alive, server, monitored
  <2>3. iteration \in iteration .. MaxIteration
    BY BoundsAssumption DEF IterationInv, IterationTypes
  <2> QED BY <2>1, <2>2, <2>3, MessageKinds, Sending
<1>4. ASSUME NEW s \in Sections, StartSection(s) \/ EndSection(s) PROVE IterationInv'
  <2>1. PICK k \in {"open", "close"} :
            Send([kind |-> k, section |-> s, iteration |-> CurrentIteration])
    BY <1>4 DEF StartSection, EndSection
  <2>2. /\ UNCHANGED <<first_iteration, iterations, newest, handler>> /\ Alive' = Alive
        /\ iteration' = iteration \/ (iteration < MaxIteration /\ iteration' = iteration + 1)
    BY <1>4 DEF StartSection, EndSection, Alive, server, monitored
  <2>3. iteration' \in iteration .. MaxIteration
    BY <2>2, BoundsAssumption DEF IterationInv, IterationTypes
  <2>4. CurrentIteration \in IterationOrNone
    BY DEF CurrentIteration, IterationOrNone, IterationInv, IterationTypes
  <2> DEFINE m == [kind |-> k, section |-> s, iteration |-> CurrentIteration]
  <2>5. m \in Messages
    BY <2>4, MessageKinds
  <2>6. Tells(m) => m.iteration = iteration
    BY DEF Tells, CurrentIteration
  <2> HIDE DEF m
  <2>7. Send(m)
    BY <2>1 DEF m
  <2> QED BY <2>2, <2>3, <2>5, <2>6, <2>7, Sending
<1>5. ASSUME Hang PROVE IterationInv'
  <2>1. UNCHANGED <<iteration, first_iteration, sent, iterations, handler, newest>> /\ Alive' = Alive
    BY <1>5 DEF Hang, Alive, server, monitored
  <2> QED BY <2>1, SilentSteps
<1>6. PeriodicCheck \/ HealthCheckFails \/ ClientFails => Dies
  BY DEF PeriodicCheck, HealthCheckFails, ClientFails
<1> QED BY <1>1, <1>2, <1>3, <1>4, <1>5, <1>6 DEF Worker

LEMMA IterationNext ==
    ASSUME ConnectionInv, IterationInv, [Next]_vars
    PROVE  IterationInv'
<1>1. ASSUME Signal \/ Tick \/ UNCHANGED vars PROVE IterationInv'
  <2>1. UNCHANGED <<iteration, first_iteration, sent, iterations, handler, newest, worker>>
    BY <1>1 DEF Signal, Tick, vars, server, client, monitored
  <2>2. Alive' = Alive
    BY <2>1 DEF Alive
  <2> QED BY <2>1, <2>2, SilentSteps
<1> QED BY <1>1, ServerStepsKeepIterations, WorkerStepsKeepIterations DEF Next

(* WarmupCountsFromThisSession for any number of workers and messages under   *)
(* way: what _track_iteration keeps is of the worker that is monitored, from  *)
(* the first iteration it told, because a connection is only read when the    *)
(* iterations of the one before have been dropped.                            *)
THEOREM WarmupIsOfThisSession == Spec => []WarmupCountsFromThisSession
<1>1. ConnectionInv /\ IterationInv => WarmupCountsFromThisSession
  <2> SUFFICES ASSUME ConnectionInv, IterationInv, rank_info = newest, newest # 0, Tracked
               PROVE  /\ iterations.initial >= first_iteration
                      /\ iterations.current >= iterations.initial
    BY DEF WarmupCountsFromThisSession, Tracked
  <2>1. ReadBefore(sent[newest])
    BY DEF ConnectionInv, IterationInv
  <2>2. {iterations.initial, iterations.current, first_iteration} \subseteq Int
    BY BoundsAssumption DEF IterationInv, IterationTypes, IterationOrNone, None
  <2> QED BY <2>1, <2>2 DEF ReadBefore
<1> QED BY <1>1, ConnectionInit, ConnectionNext, IterationInit, IterationNext, PTL DEF Spec

-----------------------------------------------------------------------------
(* The sections the client has open and those the server takes to be open.    *)

(* A message that opens or closes the section.                                *)
About(m, s) == m.kind \in {"open", "close"} /\ m.section = s

LastAbout(q, s, i) ==
    /\ About(q[i], s)
    /\ \A j \in i + 1 .. Len(q) : ~About(q[j], s)

(* Once q is read, the sections of names will be those of own: the last       *)
(* message about a section says what has become of it.                        *)
Agreed(names, own, q) ==
    \A s \in Sections :
        /\ (\A i \in 1 .. Len(q) : ~About(q[i], s)) => (s \in names <=> s \in own)
        /\ \A i \in 1 .. Len(q) : LastAbout(q, s, i) => (q[i].kind = "open" <=> s \in own)

Entries == [section : Sections, age : Ages]

(* open_sections is a dictionary: it has one entry of a name.                 *)
Distinct ==
    \A i, j \in 1 .. Len(open_sections) :
        open_sections[i].section = open_sections[j].section => i = j

Dictionary == open_sections \in Seq(Entries) /\ Distinct

(* A client that connects has said nothing but "init"; one that runs never    *)
(* says it again.                                                             *)
ClientInv ==
    /\ worker \in {"connecting", "running", "updating", "hung", "dead"}
    /\ client_open \subseteq Sections
    /\ sent \in [Workers -> Seq(Messages)]
    /\ worker = "dead" => client_open = {}
    /\ worker # "dead" => newest # 0
    /\ worker = "connecting" => client_open = {} /\ sent[newest] = <<[kind |-> "init"]>>
    /\ worker \in {"running", "updating"} =>
          \A i \in 1 .. Len(sent[newest]) : sent[newest][i].kind # "init"

Sees == worker \in {"running", "updating"} /\ rank_info = newest

SectionInv ==
    /\ Dictionary
    /\ ClientInv
    /\ Sees => Agreed(OpenNames, client_open, sent[newest])

(* A client sends a message, about a section or none.                         *)
LEMMA AgreedSent ==
    ASSUME NEW q \in Seq(Messages), NEW m \in Messages, NEW names, NEW own, NEW own2,
           Agreed(names, own, q),
           \A s \in Sections : IF About(m, s) THEN s \in own2 <=> m.kind = "open"
                                              ELSE s \in own2 <=> s \in own
    PROVE  Agreed(names, own2, Append(q, m))
<1> DEFINE t == Append(q, m)
<1>1. /\ Len(t) = Len(q) + 1 /\ Len(q) \in Nat /\ t[Len(q) + 1] = m
      /\ \A i \in 1 .. Len(q) : t[i] = q[i]
  OBVIOUS
<1> HIDE DEF t
<1> SUFFICES ASSUME NEW s \in Sections
             PROVE  /\ (\A i \in 1 .. Len(t) : ~About(t[i], s)) => (s \in names <=> s \in own2)
                    /\ \A i \in 1 .. Len(t) :
                          LastAbout(t, s, i) => (t[i].kind = "open" <=> s \in own2)
  BY DEF Agreed, t
<1>2. ASSUME \A i \in 1 .. Len(t) : ~About(t[i], s) PROVE s \in names <=> s \in own2
  <2>1. \A i \in 1 .. Len(q) : ~About(q[i], s)
    BY <1>1, <1>2
  <2>2. ~About(m, s)
    BY <1>1, <1>2
  <2> QED BY <2>1, <2>2 DEF Agreed
<1>3. ASSUME NEW i \in 1 .. Len(t), LastAbout(t, s, i) PROVE t[i].kind = "open" <=> s \in own2
  <2>1. CASE i = Len(q) + 1
    BY <1>1, <1>3, <2>1 DEF LastAbout
  <2>2. CASE i # Len(q) + 1
    <3>1. i \in 1 .. Len(q) /\ Len(q) + 1 \in i + 1 .. Len(t)
      BY <1>1, <2>2
    <3>2. ~About(m, s)
      BY <1>1, <1>3, <3>1 DEF LastAbout
    <3>3. \A j \in i + 1 .. Len(q) : j \in i + 1 .. Len(t) /\ t[j] = q[j]
      BY <1>1, <3>1
    <3>4. LastAbout(q, s, i)
      BY <1>1, <1>3, <3>1, <3>3 DEF LastAbout
    <3> QED BY <1>1, <3>1, <3>2, <3>4 DEF Agreed
  <2> QED BY <2>1, <2>2
<1> QED BY <1>2, <1>3

(* The server reads a message, about a section or none.                       *)
LEMMA AgreedRead ==
    ASSUME NEW q \in Seq(Messages), q # << >>, NEW names, NEW names2, NEW own,
           Agreed(names, own, q),
           \A s \in Sections : IF About(Head(q), s) THEN s \in names2 <=> Head(q).kind = "open"
                                                    ELSE s \in names2 <=> s \in names
    PROVE  Agreed(names2, own, Tail(q))
<1> DEFINE t == Tail(q)
           m == Head(q)
<1>1. /\ Len(q) = Len(t) + 1 /\ Len(t) \in Nat /\ q[1] = m
      /\ \A i \in 1 .. Len(t) : t[i] = q[i + 1]
  OBVIOUS
<1> HIDE DEF t, m
<1> SUFFICES ASSUME NEW s \in Sections
             PROVE  /\ (\A i \in 1 .. Len(t) : ~About(t[i], s)) => (s \in names2 <=> s \in own)
                    /\ \A i \in 1 .. Len(t) :
                          LastAbout(t, s, i) => (t[i].kind = "open" <=> s \in own)
  BY DEF Agreed, t
<1>2. ASSUME \A i \in 1 .. Len(t) : ~About(t[i], s) PROVE s \in names2 <=> s \in own
  <2>1. \A i \in 2 .. Len(q) : ~About(q[i], s)
    <3> TAKE i \in 2 .. Len(q)
    <3>1. i - 1 \in 1 .. Len(t) /\ (i - 1) + 1 = i
      BY <1>1
    <3> QED BY <1>1, <1>2, <3>1
  <2>2. CASE About(m, s)
    <3>1. LastAbout(q, s, 1) /\ 1 \in 1 .. Len(q)
      BY <1>1, <2>1, <2>2 DEF LastAbout
    <3> QED BY <1>1, <2>2, <3>1 DEF Agreed, m
  <2>3. CASE ~About(m, s)
    <3>1. \A i \in 1 .. Len(q) : i = 1 \/ i \in 2 .. Len(q)
      BY <1>1
    <3>2. \A i \in 1 .. Len(q) : ~About(q[i], s)
      BY <1>1, <2>1, <2>3, <3>1
    <3> QED BY <2>3, <3>2 DEF Agreed, m
  <2> QED BY <2>2, <2>3
<1>3. ASSUME NEW i \in 1 .. Len(t), LastAbout(t, s, i) PROVE t[i].kind = "open" <=> s \in own
  <2>1. i + 1 \in 1 .. Len(q) /\ About(q[i + 1], s)
    BY <1>1, <1>3 DEF LastAbout
  <2>2. \A j \in (i + 1) + 1 .. Len(q) : ~About(q[j], s)
    <3> TAKE j \in (i + 1) + 1 .. Len(q)
    <3>1. j - 1 \in i + 1 .. Len(t) /\ j - 1 \in 1 .. Len(t) /\ (j - 1) + 1 = j
      BY <1>1
    <3> QED BY <1>1, <1>3, <3>1 DEF LastAbout
  <2>3. LastAbout(q, s, i + 1)
    BY <2>1, <2>2 DEF LastAbout
  <2> QED BY <1>1, <2>1, <2>3 DEF Agreed
<1> QED BY <1>2, <1>3

(* What the three changes of open_sections do to the dictionary.              *)
LEMMA EntryAdded ==
    ASSUME Dictionary, NEW s \in Sections, s \notin OpenNames,
           open_sections' = Append(open_sections, [section |-> s, age |-> 0])
    PROVE  Dictionary' /\ OpenNames' = OpenNames \cup {s}
<1> DEFINE e == [section |-> s, age |-> 0]
<1>1. e \in Entries /\ e.section = s
  BY BoundsAssumption DEF Entries, Ages
<1> HIDE DEF e
<1>2. /\ open_sections' \in Seq(Entries) /\ Len(open_sections) \in Nat
      /\ Len(open_sections') = Len(open_sections) + 1
      /\ open_sections'[Len(open_sections) + 1] = e
      /\ \A i \in 1 .. Len(open_sections) : open_sections'[i] = open_sections[i]
  BY <1>1 DEF Dictionary, e
<1>3. \A i \in 1 .. Len(open_sections') :
          i \in 1 .. Len(open_sections) \/ i = Len(open_sections) + 1
  BY <1>2
<1>4. \A i \in 1 .. Len(open_sections) : open_sections[i].section # s
  BY DEF OpenNames
<1>5. Distinct'
  BY <1>1, <1>2, <1>3, <1>4 DEF Distinct, Dictionary
<1>6. \A n : n \in OpenNames' => n \in OpenNames \cup {s}
  BY <1>1, <1>2, <1>3 DEF OpenNames
<1>7. \A n : n \in OpenNames => n \in OpenNames'
  <2> TAKE n
  <2> HAVE n \in OpenNames
  <2>1. PICK i \in 1 .. Len(open_sections) : n = open_sections[i].section
    BY DEF OpenNames
  <2>2. i \in 1 .. Len(open_sections') /\ open_sections'[i].section = n
    BY <1>2, <2>1
  <2> QED BY <2>2 DEF OpenNames
<1>8. s \in OpenNames'
  <2>1. Len(open_sections) + 1 \in 1 .. Len(open_sections')
    BY <1>2
  <2>2. open_sections'[Len(open_sections) + 1].section = s
    BY <1>1, <1>2
  <2> QED BY <2>1, <2>2 DEF OpenNames
<1> QED BY <1>2, <1>5, <1>6, <1>7, <1>8 DEF Dictionary

LEMMA EntryRemoved ==
    ASSUME Dictionary, NEW k \in 1 .. Len(open_sections), open_sections' = Without(k)
    PROVE  Dictionary' /\ OpenNames' = OpenNames \ {open_sections[k].section}
<1> DEFINE From(j) == IF j < k THEN j ELSE j + 1
<1>1. PICK n \in Nat : n = Len(open_sections)
  BY DEF Dictionary
<1>2. /\ open_sections \in Seq(Entries) /\ k \in 1 .. n /\ n - 1 \in Nat
      /\ \A i \in 1 .. n : open_sections[i] \in Entries
  BY <1>1 DEF Dictionary
<1>3. open_sections' = [j \in 1 .. n - 1 |-> open_sections[From(j)]]
  BY <1>1 DEF Without
<1>4. \A j \in 1 .. n - 1 : From(j) \in 1 .. n /\ From(j) # k
  BY <1>2
<1>5. \A i, j \in 1 .. n - 1 : From(i) = From(j) => i = j
  BY <1>2
<1>6. \A i \in 1 .. n : i # k => \E j \in 1 .. n - 1 : From(j) = i
  <2> TAKE i \in 1 .. n
  <2> HAVE i # k
  <2>1. CASE i < k
    <3>1. i \in 1 .. n - 1 /\ From(i) = i
      BY <1>2, <2>1
    <3> QED BY <3>1
  <2>2. CASE i > k
    <3>1. i - 1 \in 1 .. n - 1 /\ From(i - 1) = i
      BY <1>2, <2>2
    <3> QED BY <3>1
  <2> QED BY <1>2, <2>1, <2>2
<1> HIDE DEF From
<1>7. \A j \in 1 .. n - 1 : open_sections[From(j)] \in Entries
  BY <1>2, <1>4
<1>8. open_sections' \in Seq(Entries) /\ Len(open_sections') = n - 1
  BY <1>2, <1>3, <1>7
<1>9. \A j \in 1 .. n - 1 : open_sections'[j] = open_sections[From(j)]
  BY <1>3
<1>10. Distinct'
  BY <1>1, <1>4, <1>5, <1>8, <1>9 DEF Distinct, Dictionary
<1>11. ASSUME NEW x, x \in OpenNames' PROVE x \in OpenNames /\ x # open_sections[k].section
  <2>1. PICK j \in 1 .. n - 1 : x = open_sections[From(j)].section
    BY <1>8, <1>9, <1>11 DEF OpenNames
  <2> QED BY <1>1, <1>2, <1>4, <2>1 DEF OpenNames, Dictionary, Distinct
<1>12. ASSUME NEW x \in OpenNames, x # open_sections[k].section PROVE x \in OpenNames'
  <2>1. PICK i \in 1 .. n : x = open_sections[i].section
    BY <1>1 DEF OpenNames
  <2>2. PICK j \in 1 .. n - 1 : From(j) = i
    BY <1>6, <1>12, <2>1
  <2> QED BY <1>8, <1>9, <2>1, <2>2 DEF OpenNames
<1> QED BY <1>8, <1>10, <1>11, <1>12 DEF Dictionary

LEMMA EntriesAge ==
    ASSUME Dictionary,
           open_sections' = [i \in 1 .. Len(open_sections) |->
                                [open_sections[i] EXCEPT !.age = Older(@)]]
    PROVE  Dictionary' /\ OpenNames' = OpenNames
<1>1. PICK n \in Nat : n = Len(open_sections)
  BY DEF Dictionary
<1>2. \A i \in 1 .. n : open_sections[i] \in Entries
  BY <1>1 DEF Dictionary
<1>3. \A i \in 1 .. n : /\ [open_sections[i] EXCEPT !.age = Older(@)] \in Entries
                        /\ [open_sections[i] EXCEPT !.age = Older(@)].section
                              = open_sections[i].section
  BY <1>2, BoundsAssumption DEF Entries, Ages, Older
<1>4. open_sections' \in Seq(Entries) /\ Len(open_sections') = n
  BY <1>1, <1>3
<1>5. \A i \in 1 .. n : open_sections'[i].section = open_sections[i].section
  BY <1>1, <1>3
<1>6. Distinct'
  BY <1>1, <1>4, <1>5 DEF Distinct, Dictionary
<1>7. OpenNames' = OpenNames
  BY <1>1, <1>4, <1>5 DEF OpenNames
<1> QED BY <1>4, <1>6, <1>7 DEF Dictionary

LEMMA NoEntry == open_sections = << >> => Dictionary /\ OpenNames = {}
BY DEF Dictionary, Distinct, OpenNames

LEMMA SectionInit == Init => SectionInv
<1> SUFFICES ASSUME Init PROVE SectionInv
  OBVIOUS
<1>1. /\ open_sections = << >> /\ client_open = {} /\ newest = 0 /\ worker = "dead"
      /\ sent = [w \in Workers |-> << >>]
  BY DEF Init
<1>2. ClientInv
  BY <1>1 DEF ClientInv
<1> QED BY <1>1, <1>2, NoEntry DEF SectionInv, Sees

(* Steps in which neither side learns anything.                               *)
LEMMA NothingSaid ==
    ASSUME SectionInv, Dictionary', OpenNames' = OpenNames,
           UNCHANGED <<client_open, sent, newest, rank_info, worker>>
    PROVE  SectionInv'
<1>1. ClientInv'
  BY DEF SectionInv, ClientInv
<1>2. Sees' => Sees
  BY DEF Sees
<1> QED BY <1>1, <1>2 DEF SectionInv, Agreed, LastAbout

(* The worker is gone, or hangs: nobody compares the views any longer.        *)
LEMMA Silenced ==
    ASSUME SectionInv, worker # "dead", worker' \in {"dead", "hung"},
           worker' = "dead" => client_open' = {},
           client_open' \in {client_open, {}},
           UNCHANGED <<open_sections, sent, newest>>
    PROVE  SectionInv'
<1>1. ClientInv'
  BY DEF SectionInv, ClientInv
<1>2. Dictionary' /\ ~Sees'
  BY DEF SectionInv, Dictionary, Distinct, Sees
<1> QED BY <1>1, <1>2 DEF SectionInv

(* The message a handler has taken off its connection was not "init".         *)
LEMMA ClientIsRead ==
    ASSUME ClientInv, NEW w \in Workers, sent[w] # << >>, Head(sent[w]).kind # "init",
           sent' = [sent EXCEPT ![w] = Tail(@)],
           UNCHANGED <<client_open, newest>>,
           worker' = worker \/ (worker = "updating" /\ worker' = "running")
    PROVE  /\ ClientInv'
           /\ \A v \in Workers : sent'[v] = IF v = w THEN Tail(sent[w]) ELSE sent[v]
<1>1. sent[w] \in Seq(Messages) /\ Tail(sent[w]) \in Seq(Messages)
  BY DEF ClientInv
<1>2. \A v \in Workers : sent'[v] = IF v = w THEN Tail(sent[w]) ELSE sent[v]
  BY DEF ClientInv
<1>3. sent' \in [Workers -> Seq(Messages)]
  BY <1>1 DEF ClientInv
<1>4. ASSUME worker' = "connecting" PROVE sent'[newest] = sent[newest]
  <2>1. sent[newest] = <<[kind |-> "init"]>> /\ sent \in [Workers -> Seq(Messages)]
    BY <1>4 DEF ClientInv
  <2>2. newest # w
    BY <2>1
  <2> QED BY <2>1, <2>2
<1>5. ASSUME worker' \in {"running", "updating"}
      PROVE  \A i \in 1 .. Len(sent'[newest]) : sent'[newest][i].kind # "init"
  <2>1. \A i \in 1 .. Len(sent[newest]) : sent[newest][i].kind # "init"
    BY <1>5 DEF ClientInv
  <2>2. CASE newest = w
    <3>1. \A i \in 1 .. Len(Tail(sent[w])) :
            i + 1 \in 1 .. Len(sent[w]) /\ Tail(sent[w])[i] = sent[w][i + 1]
      BY <1>1
    <3> QED BY <1>2, <2>1, <2>2, <3>1
  <2>3. CASE newest # w
    <3>1. sent'[newest] = sent[newest]
      BY <2>3 DEF ClientInv
    <3> QED BY <2>1, <3>1
  <2> QED BY <2>2, <2>3
<1> QED BY <1>2, <1>3, <1>4, <1>5 DEF ClientInv

LEMMA ReadKeepsViews ==
    ASSUME ConnectionInv, SectionInv, NEW w \in Workers, NEW kind,
           Receive(w, kind), kind # "init", UNCHANGED <<client_open, newest, rank_info>>,
           worker' = worker \/ (worker = "updating" /\ worker' = "running"),
           Dictionary',
           \A s \in Sections : IF About(Head(sent[w]), s) THEN s \in OpenNames' <=> kind = "open"
                                                          ELSE s \in OpenNames' <=> s \in OpenNames
    PROVE  SectionInv'
<1>1. /\ sent[w] # << >> /\ Head(sent[w]).kind = kind /\ Reading(w)
      /\ sent' = [sent EXCEPT ![w] = Tail(@)]
  BY DEF Receive, Reading
<1>2. /\ ClientInv'
      /\ \A v \in Workers : sent'[v] = IF v = w THEN Tail(sent[w]) ELSE sent[v]
  BY <1>1, ClientIsRead DEF SectionInv
<1>3. ASSUME Sees' PROVE Agreed(OpenNames', client_open, sent'[newest])
  <2>1. Sees /\ newest # 0
    BY <1>3 DEF Sees, SectionInv, ClientInv
  <2>2. newest = w
    BY <1>1, <2>1, NewestIsWorker DEF ConnectionInv, Sees
  <2>3. Agreed(OpenNames, client_open, sent[w]) /\ sent[w] \in Seq(Messages)
    BY <2>1, <2>2 DEF SectionInv, ClientInv
  <2>4. Agreed(OpenNames', client_open, Tail(sent[w]))
    BY <1>1, <2>3, AgreedRead
  <2> QED BY <1>2, <2>2, <2>4
<1>4. Sees' => Agreed(OpenNames, client_open, sent[newest])'
  BY <1>3 DEF Agreed, LastAbout
<1> QED BY <1>2, <1>4 DEF SectionInv

LEMMA ReadingSections ==
    ASSUME ConnectionInv, SectionInv, NEW w \in Workers, HandleOpen(w) \/ HandleClose(w)
    PROVE  SectionInv'
<1> DEFINE m == Head(sent[w])
<1>1. UNCHANGED <<client_open, newest, rank_info, worker>> /\ Dictionary
  BY DEF HandleOpen, HandleClose, SectionInv
<1>2. sent[w] # << >> /\ m.kind \in {"open", "close"} /\ Receive(w, m.kind)
  BY DEF HandleOpen, HandleClose, Receive
<1>3. m \in Messages
  BY <1>2 DEF SectionInv, ClientInv
<1>4. m.section \in Sections
  BY <1>2, <1>3 DEF Messages
<1>5. \A s \in Sections : About(m, s) <=> s = m.section
  BY <1>2 DEF About
<1>6. CASE HandleOpen(w)
  <2>1. m.kind = "open"
    BY <1>6 DEF HandleOpen, Receive
  <2>2. Dictionary' /\ OpenNames' = OpenNames \cup {m.section}
    <3>1. CASE m.section \in OpenNames
      <4>1. open_sections' = open_sections
        BY <1>6, <3>1 DEF HandleOpen
      <4> QED BY <1>1, <3>1, <4>1 DEF Dictionary, Distinct, OpenNames
    <3>2. CASE m.section \notin OpenNames
      <4>1. open_sections' = Append(open_sections, [section |-> m.section, age |-> 0])
        BY <1>6, <3>2 DEF HandleOpen
      <4> QED BY <1>1, <1>4, <3>2, <4>1, EntryAdded
    <3> QED BY <3>1, <3>2
  <2> QED BY <1>1, <1>2, <1>5, <2>1, <2>2, ReadKeepsViews
<1>7. CASE HandleClose(w)
  <2>1. m.kind = "close"
    BY <1>7 DEF HandleClose, Receive
  <2>2. Dictionary' /\ OpenNames' = OpenNames \ {m.section}
    <3>1. CASE m.section \in OpenNames
      <4>1. PICK i \in 1 .. Len(open_sections) :
               open_sections[i].section = m.section /\ open_sections' = Without(i)
        BY <1>7, <3>1 DEF HandleClose
      <4> QED BY <1>1, <4>1, EntryRemoved
    <3>2. CASE m.section \notin OpenNames
      <4>1. open_sections' = open_sections
        BY <1>7, <3>2 DEF HandleClose
      <4> QED BY <1>1, <3>2, <4>1 DEF Dictionary, Distinct, OpenNames
    <3> QED BY <3>1, <3>2
  <2> QED BY <1>1, <1>2, <1>5, <2>1, <2>2, ReadKeepsViews
<1> QED BY <1>6, <1>7

LEMMA InitKeepsViews ==
    ASSUME ConnectionInv, SectionInv, NEW w \in Workers, HandleInit(w)
    PROVE  SectionInv'
<1>1. /\ sent[w] # << >> /\ Head(sent[w]).kind = "init"
      /\ sent' = [sent EXCEPT ![w] = Tail(@)]
      /\ rank_info' = w /\ open_sections' = << >> /\ UNCHANGED <<client_open, newest>>
      /\ worker' = IF w = newest /\ worker = "connecting" THEN "running" ELSE worker
  BY DEF HandleInit, Receive, Answered
<1>2. ClientInv /\ sent[w] \in Seq(Messages) /\ Tail(sent[w]) \in Seq(Messages)
  BY <1>1 DEF SectionInv, ClientInv
<1>3. \A v \in Workers : sent'[v] = IF v = w THEN Tail(sent[w]) ELSE sent[v]
  BY <1>1 DEF SectionInv, ClientInv
<1>4. sent' \in [Workers -> Seq(Messages)]
  BY <1>1, <1>2 DEF ClientInv
<1>5. Dictionary' /\ OpenNames' = {}
  BY <1>1, NoEntry DEF Dictionary, Distinct, OpenNames
<1>6. CASE w = newest /\ worker = "connecting"
  <2>1. client_open' = {} /\ worker' = "running"
    BY <1>1, <1>2, <1>6 DEF ClientInv
  <2>2. sent'[newest] = << >>
    <3>1. sent[newest] = <<[kind |-> "init"]>>
      BY <1>2, <1>6 DEF ClientInv
    <3>2. sent'[newest] = Tail(sent[newest])
      BY <1>3, <1>6
    <3>3. Tail(<<[kind |-> "init"]>>) = << >>
      OBVIOUS
    <3> QED BY <3>1, <3>2, <3>3
  <2>3. ClientInv'
    BY <1>1, <1>2, <1>4, <2>1, <2>2 DEF ClientInv
  <2>4. Agreed(OpenNames, client_open, sent[newest])'
    <3>1. newest' = newest /\ sent'[newest'] = << >> /\ Len(<< >>) = 0
      BY <1>1, <2>2
    <3>2. \A s \in Sections : ~(s \in OpenNames') /\ ~(s \in client_open')
      BY <1>5, <2>1
    <3> QED BY <3>1, <3>2 DEF Agreed
  <2> QED BY <1>5, <2>3, <2>4 DEF SectionInv
<1>7. CASE ~(w = newest /\ worker = "connecting")
  <2>1. worker' = worker
    BY <1>1, <1>7
  <2>2. w = newest => worker \notin {"running", "updating"}
    <3>1. sent[w] \in Seq(Messages) /\ 1 \in 1 .. Len(sent[w]) /\ sent[w][1] = Head(sent[w])
      BY <1>1, <1>2
    <3> QED BY <1>1, <1>2, <3>1 DEF ClientInv
  <2>3. w # newest => sent'[newest] = sent[newest]
    BY <1>1, <1>2 DEF ClientInv
  <2>4. ClientInv'
    BY <1>1, <1>2, <1>4, <1>7, <2>1, <2>2, <2>3 DEF ClientInv
  <2>5. ~Sees'
    BY <1>1, <2>1, <2>2 DEF Sees
  <2> QED BY <1>5, <2>4, <2>5 DEF SectionInv
<1> QED BY <1>6, <1>7

LEMMA ServerStepsKeepViews ==
    ASSUME ConnectionInv, SectionInv, NEW w \in Workers, Handle(w)
    PROVE  SectionInv'
<1>1. CASE Accept(w) \/ Acquire(w)
  <2>1. UNCHANGED <<open_sections, client_open, sent, newest, rank_info, worker>>
    BY <1>1 DEF Accept, Acquire, monitored, client
  <2>2. Dictionary' /\ OpenNames' = OpenNames
    BY <2>1 DEF SectionInv, Dictionary, Distinct, OpenNames
  <2> QED BY <2>1, <2>2, NothingSaid
<1>2. CASE HandleUpdateConfig(w) \/ HandleHeartbeat(w)
  <2>1. PICK kind \in {"update", "heartbeat"} : Receive(w, kind)
    BY <1>2 DEF HandleUpdateConfig, HandleHeartbeat
  <2>2. /\ UNCHANGED <<open_sections, client_open, newest, rank_info>>
        /\ worker' = worker \/ (worker = "updating" /\ worker' = "running")
    BY <1>2 DEF HandleUpdateConfig, HandleHeartbeat, monitored, Answered
  <2>3. Dictionary' /\ OpenNames' = OpenNames
    BY <2>2 DEF SectionInv, Dictionary, Distinct, OpenNames
  <2>4. \A s \in Sections : ~About(Head(sent[w]), s)
    BY <2>1 DEF About, Receive
  <2> QED BY <2>1, <2>2, <2>3, <2>4, ReadKeepsViews
<1>3. CASE HandleEndOfStream(w) \/ RefuseMessage(w)
  <2>1. rank_info' = 0 /\ open_sections' = << >> /\ UNCHANGED <<client_open, newest, worker>>
    BY <1>3 DEF HandleEndOfStream, RefuseMessage, ConnectionLost, client
  <2>2. Dictionary'
    BY <2>1, NoEntry DEF Dictionary, Distinct
  <2>3. ClientInv'
    <3>1. CASE HandleEndOfStream(w)
      <4>1. UNCHANGED <<client_open, newest, worker, sent>>
        BY <3>1 DEF HandleEndOfStream, client
      <4> QED BY <4>1 DEF SectionInv, ClientInv
    <3>2. CASE RefuseMessage(w)
      <4>1. /\ sent[w] # << >> /\ Head(sent[w]).kind # "init"
            /\ sent' = [sent EXCEPT ![w] = Tail(@)]
        BY <3>2 DEF RefuseMessage, Receive
      <4> QED BY <2>1, <4>1, ClientIsRead DEF SectionInv
    <3> QED BY <1>3, <3>1, <3>2
  <2>4. ~Sees'
    BY <2>1 DEF Sees, SectionInv, ClientInv
  <2> QED BY <2>2, <2>3, <2>4 DEF SectionInv
<1> QED BY <1>1, <1>2, <1>3, InitKeepsViews, ReadingSections DEF Handle

(* The client sends a message; what it has open afterwards is what it says.   *)
LEMMA SendKeepsViews ==
    ASSUME ConnectionInv, SectionInv, NEW m \in Messages, m.kind # "init", Send(m),
           client_open' \subseteq Sections, worker' \in {"running", "updating"},
           \A s \in Sections : IF About(m, s) THEN s \in client_open' <=> m.kind = "open"
                                              ELSE s \in client_open' <=> s \in client_open,
           UNCHANGED <<open_sections, newest, rank_info>>
    PROVE  SectionInv'
<1>1. /\ worker = "running" /\ newest \in Workers
      /\ sent' = [sent EXCEPT ![newest] = Append(@, m)]
  BY NewestIsWorker DEF Send, SectionInv, ClientInv
<1>2. sent \in [Workers -> Seq(Messages)] /\ sent[newest] \in Seq(Messages)
  BY <1>1 DEF SectionInv, ClientInv
<1>3. sent'[newest] = Append(sent[newest], m) /\ sent' \in [Workers -> Seq(Messages)]
  BY <1>1, <1>2
<1>4. \A i \in 1 .. Len(sent'[newest]) : sent'[newest][i].kind # "init"
  <2>1. \A i \in 1 .. Len(sent[newest]) : sent[newest][i].kind # "init"
    BY <1>1 DEF SectionInv, ClientInv
  <2>2. \A i \in 1 .. Len(sent'[newest]) :
          sent'[newest][i] = m \/ (i \in 1 .. Len(sent[newest]) /\ sent'[newest][i] = sent[newest][i])
    BY <1>2, <1>3
  <2> QED BY <2>1, <2>2
<1>5. ClientInv'
  BY <1>1, <1>3, <1>4 DEF SectionInv, ClientInv
<1>6. ASSUME Sees' PROVE Agreed(OpenNames, client_open', sent'[newest])
  <2>1. Agreed(OpenNames, client_open, sent[newest])
    BY <1>1, <1>6 DEF Sees, SectionInv
  <2> QED BY <1>2, <1>3, <2>1, AgreedSent
<1>7. Dictionary' /\ OpenNames' = OpenNames
  BY DEF SectionInv, Dictionary, Distinct, OpenNames
<1>8. Sees' => Agreed(OpenNames, client_open, sent[newest])'
  BY <1>6, <1>7 DEF Agreed, LastAbout
<1> QED BY <1>5, <1>7, <1>8 DEF SectionInv

LEMMA WorkerStepsKeepViews ==
    ASSUME ConnectionInv, IterationInv, SectionInv, Worker \/ PeriodicCheck \/ HealthCheckFails
    PROVE  SectionInv'
<1>1. ASSUME Dies \/ Hang PROVE SectionInv'
  <2>1. /\ worker # "dead" /\ worker' \in {"dead", "hung"}
        /\ worker' = "dead" => client_open' = {}
        /\ client_open' \in {client_open, {}}
        /\ UNCHANGED <<open_sections, sent, newest>>
    BY <1>1 DEF Dies, Hang, Alive, server, monitored
  <2> QED BY <2>1, Silenced
<1>2. ASSUME StartWorker PROVE SectionInv'
  <2>1. /\ newest' = newest + 1 /\ newest < MaxWorkers /\ worker' = "connecting" /\ ~Alive
        /\ sent' = [sent EXCEPT ![newest'] = <<[kind |-> "init"]>>]
        /\ UNCHANGED <<open_sections, client_open>>
    BY <1>2 DEF StartWorker, monitored
  <2>2. newest' \in Workers /\ newest' # 0
    BY <2>1, BoundsAssumption DEF ConnectionInv, Workers
  <2>3. <<[kind |-> "init"]>> \in Seq(Messages)
    BY MessageKinds
  <2>4. sent' \in [Workers -> Seq(Messages)] /\ sent'[newest'] = <<[kind |-> "init"]>>
    BY <2>1, <2>2, <2>3 DEF SectionInv, ClientInv
  <2>5. worker = "dead"
    BY <1>2 DEF StartWorker, Alive, SectionInv, ClientInv
  <2>6. ClientInv'
    BY <2>1, <2>2, <2>4, <2>5 DEF SectionInv, ClientInv
  <2>7. Dictionary' /\ ~Sees'
    BY <2>1 DEF SectionInv, Dictionary, Distinct, Sees
  <2> QED BY <2>6, <2>7 DEF SectionInv
<1>3. ASSUME SendHeartbeat \/ SetTimeouts PROVE SectionInv'
  <2>1. PICK k \in {"heartbeat", "update"} : Send([kind |-> k])
    BY <1>3 DEF SendHeartbeat, SetTimeouts
  <2>2. /\ UNCHANGED <<open_sections, newest, rank_info, client_open>>
        /\ worker' \in {"running", "updating"}
    BY <1>3 DEF SendHeartbeat, SetTimeouts, Send, server, monitored
  <2> DEFINE m == [kind |-> k]
  <2>3. m \in Messages /\ m.kind # "init" /\ \A s \in Sections : ~About(m, s)
    BY MessageKinds DEF About
  <2> HIDE DEF m
  <2>4. Send(m) /\ client_open' \subseteq Sections
    BY <2>1, <2>2 DEF m, SectionInv, ClientInv
  <2> QED BY <2>2, <2>3, <2>4, SendKeepsViews
<1>4. ASSUME NEW s \in Sections, StartSection(s) \/ EndSection(s) PROVE SectionInv'
  <2>1. PICK k \in {"open", "close"} :
          /\ Send([kind |-> k, section |-> s, iteration |-> CurrentIteration])
          /\ client_open' = IF k = "open" THEN client_open \cup {s} ELSE client_open \ {s}
    BY <1>4 DEF StartSection, EndSection
  <2>2. UNCHANGED <<open_sections, newest, rank_info, worker>> /\ worker' = "running"
    BY <1>4 DEF StartSection, EndSection, Send, server, monitored
  <2>3. CurrentIteration \in IterationOrNone
    BY DEF CurrentIteration, IterationOrNone, IterationInv, IterationTypes
  <2> DEFINE m == [kind |-> k, section |-> s, iteration |-> CurrentIteration]
  <2>4. m \in Messages /\ m.kind = k /\ \A t \in Sections : About(m, t) <=> t = s
    BY <2>3, MessageKinds DEF About
  <2> HIDE DEF m
  <2>5. Send(m)
    BY <2>1 DEF m
  <2>6. client_open' \subseteq Sections
    BY <2>1 DEF SectionInv, ClientInv
  <2> QED BY <2>1, <2>2, <2>4, <2>5, <2>6, SendKeepsViews
<1>5. PeriodicCheck \/ HealthCheckFails \/ ClientFails => Dies
  BY DEF PeriodicCheck, HealthCheckFails, ClientFails
<1> QED BY <1>1, <1>2, <1>3, <1>4, <1>5 DEF Worker

LEMMA SectionNext ==
    ASSUME ConnectionInv, IterationInv, SectionInv, [Next]_vars
    PROVE  SectionInv'
<1>1. ASSUME Signal \/ UNCHANGED vars PROVE SectionInv'
  <2>1. UNCHANGED <<open_sections, client_open, sent, newest, rank_info, worker>>
    BY <1>1 DEF Signal, vars, server, client, monitored
  <2>2. Dictionary' /\ OpenNames' = OpenNames
    BY <2>1 DEF SectionInv, Dictionary, Distinct, OpenNames
  <2> QED BY <2>1, <2>2, NothingSaid
<1>2. ASSUME Tick PROVE SectionInv'
  <2>1. Dictionary' /\ OpenNames' = OpenNames
    BY <1>2, EntriesAge DEF Tick, SectionInv
  <2>2. UNCHANGED <<client_open, sent, newest, rank_info, worker>>
    BY <1>2 DEF Tick
  <2> QED BY <2>1, <2>2, NothingSaid
<1> QED BY <1>1, <1>2, ServerStepsKeepViews, WorkerStepsKeepViews DEF Next

LEMMA OneEntryPerName ==
    ASSUME Dictionary PROVE Len(open_sections) = Cardinality(OpenNames)
<1> DEFINE f == [i \in 1 .. Len(open_sections) |-> open_sections[i].section]
<1>1. Len(open_sections) \in Nat
  BY DEF Dictionary
<1>2. IsFiniteSet(1 .. Len(open_sections)) /\ Cardinality(1 .. Len(open_sections)) = Len(open_sections)
  <2>1. PICK n \in Nat : n = Len(open_sections)
    BY <1>1
  <2>2. IsFiniteSet(1 .. n) /\ Cardinality(1 .. n) = IF 1 > n THEN 0 ELSE n - 1 + 1
    BY FS_Interval
  <2>3. Cardinality(1 .. n) = n
    BY <2>2
  <2> QED BY <2>1, <2>2, <2>3
<1>3. f \in Surjection(1 .. Len(open_sections), OpenNames)
  <2>1. f \in [1 .. Len(open_sections) -> OpenNames]
    BY DEF OpenNames
  <2>2. \A x \in OpenNames : \E i \in 1 .. Len(open_sections) : f[i] = x
    BY DEF OpenNames
  <2> HIDE DEF f
  <2> QED BY <2>1, <2>2 DEF Surjection
<1>4. f \in Injection(1 .. Len(open_sections), OpenNames)
  <2>1. f \in [1 .. Len(open_sections) -> OpenNames]
    BY <1>3 DEF Surjection
  <2>2. \A i, j \in 1 .. Len(open_sections) : f[i] = f[j] => i = j
    BY DEF Dictionary, Distinct
  <2> HIDE DEF f
  <2> QED BY <2>1, <2>2 DEF Injection, IsInjective
<1> HIDE DEF f
<1> QED BY <1>2, <1>3, <1>4, FS_Surjection

(* SectionViewsAgree for any number of sections and of messages on their way: *)
(* the last message about a section tells what the client has made of it, and *)
(* _handle_section_msg does as it is told (open_sections, and the sections of *)
(* the client behind _send_section_msg_impl).                                 *)
THEOREM SectionsAreAgreed == Spec => []SectionViewsAgree
<1>1. SectionInv => SectionViewsAgree
  <2> SUFFICES ASSUME SectionInv, Sees, sent[newest] = << >>
               PROVE  OpenNames = client_open /\ Len(open_sections) = Cardinality(OpenNames)
    BY DEF SectionViewsAgree, Sees
  <2>1. Agreed(OpenNames, client_open, << >>)
    BY DEF SectionInv
  <2>2. \A s \in Sections : s \in OpenNames <=> s \in client_open
    BY <2>1 DEF Agreed
  <2>3. OpenNames \subseteq Sections
    <3>1. \A i \in 1 .. Len(open_sections) : open_sections[i] \in Entries
      BY DEF SectionInv, Dictionary
    <3>2. \A i \in 1 .. Len(open_sections) : open_sections[i].section \in Sections
      BY <3>1 DEF Entries
    <3> QED BY <3>2 DEF OpenNames
  <2>4. client_open \subseteq Sections
    BY DEF SectionInv, ClientInv
  <2> QED BY <2>2, <2>3, <2>4, OneEntryPerName DEF SectionInv
<1> QED BY <1>1, ConnectionInit, ConnectionNext, IterationInit, IterationNext, SectionInit,
           SectionNext, PTL DEF Spec

-----------------------------------------------------------------------------
(* The time out of sections is set when the periodic task reads it.           *)

TimersInv ==
    /\ out_age \in Nat \cup {None}
    /\ TimersAreSet

LEMMA TimersNext ==
    ASSUME SectionInv, TimersInv, [Next]_vars
    PROVE  TimersInv'
<1>1. /\ open_sections \in Seq(Entries) /\ Len(open_sections) \in Nat
      /\ open_sections = << >> <=> Len(open_sections) = 0
  BY DEF SectionInv, Dictionary
<1>2. ASSUME UNCHANGED <<rank_info, open_sections, out_age>> PROVE TimersInv'
  BY <1>2 DEF TimersInv, TimersAreSet
<1>3. ASSUME NEW w \in Workers, HandleInit(w) PROVE TimersInv'
  BY <1>3 DEF HandleInit, TimersInv, TimersAreSet, None
<1>4. ASSUME NEW w \in Workers, HandleOpen(w) PROVE TimersInv'
  <2>1. CASE Head(sent[w]).section \in OpenNames
    BY <1>2, <1>4, <2>1 DEF HandleOpen
  <2>2. CASE Head(sent[w]).section \notin OpenNames
    <3>1. open_sections' # << >> /\ out_age' = None
      BY <1>1, <1>4, <2>2 DEF HandleOpen
    <3> QED BY <3>1 DEF TimersInv, TimersAreSet
  <2> QED BY <2>1, <2>2
<1>5. ASSUME NEW w \in Workers, HandleClose(w) PROVE TimersInv'
  <2>1. CASE Head(sent[w]).section \notin OpenNames
    BY <1>2, <1>5, <2>1 DEF HandleClose
  <2>2. CASE Head(sent[w]).section \in OpenNames
    <3>1. PICK i \in 1 .. Len(open_sections) :
             /\ open_sections' = Without(i)
             /\ out_age' = IF Len(open_sections) = 1 THEN 0 ELSE out_age
      BY <1>5, <2>2 DEF HandleClose
    <3>2. PICK n \in Nat : n = Len(open_sections)
      BY <1>1
    <3>3. rank_info' = rank_info
      BY <1>5 DEF HandleClose
    <3>4. CASE n = 1
      <4>1. open_sections' = << >>
        BY <3>1, <3>2, <3>4 DEF Without
      <4>2. out_age' = 0
        BY <3>1, <3>2, <3>4
      <4> QED BY <4>1, <4>2 DEF TimersInv, TimersAreSet, None
    <3>5. CASE n # 1
      <4>1. n > 1 /\ open_sections # << >>
        BY <1>1, <3>1, <3>2, <3>5
      <4>2. 1 \in DOMAIN Without(i)
        BY <3>2, <4>1 DEF Without
      <4>3. DOMAIN << >> = {}
        OBVIOUS
      <4>4. open_sections' # << >>
        BY <3>1, <4>2, <4>3
      <4>5. out_age' = out_age
        BY <3>1, <3>2, <3>5
      <4> QED BY <3>3, <4>1, <4>4, <4>5 DEF TimersInv, TimersAreSet
    <3> QED BY <3>4, <3>5
  <2> QED BY <2>1, <2>2
<1>6. ASSUME NEW w \in Workers, HandleEndOfStream(w) \/ RefuseMessage(w) PROVE TimersInv'
  BY <1>6 DEF HandleEndOfStream, RefuseMessage, ConnectionLost, TimersInv, TimersAreSet
<1>7. ASSUME NEW w \in Workers,
             Accept(w) \/ Acquire(w) \/ HandleUpdateConfig(w) \/ HandleHeartbeat(w)
      PROVE  TimersInv'
  BY <1>2, <1>7 DEF Accept, Acquire, HandleUpdateConfig, HandleHeartbeat, monitored
<1>8. ASSUME Tick PROVE TimersInv'
  <2>1. Len(open_sections') = Len(open_sections) /\ open_sections' \in Seq(Entries)
    <3>1. Dictionary'
      BY <1>8, EntriesAge DEF Tick, SectionInv
    <3> QED BY <1>1, <1>8, <3>1 DEF Tick, Dictionary
  <2>2. open_sections' = << >> <=> open_sections = << >>
    BY <1>1, <2>1
  <2>3. out_age' \in Nat \cup {None} /\ (out_age' = None <=> out_age = None)
    BY <1>8 DEF Tick, Older, TimersInv, None
  <2>4. rank_info' = rank_info
    BY <1>8 DEF Tick
  <2> QED BY <2>2, <2>3, <2>4 DEF TimersInv, TimersAreSet
<1>9. ASSUME Dies \/ StartWorker \/ SendHeartbeat \/ SetTimeouts \/ Hang \/ Signal
             \/ (\E s \in Sections : StartSection(s) \/ EndSection(s)) \/ UNCHANGED vars
      PROVE  TimersInv'
  <2>1. UNCHANGED <<rank_info, open_sections, out_age>>
    BY <1>9 DEF Dies, StartWorker, SendHeartbeat, SetTimeouts, Hang, Signal, StartSection,
                EndSection, server, monitored, vars
  <2> QED BY <1>2, <2>1
<1>10. PeriodicCheck \/ HealthCheckFails \/ ClientFails => Dies
  BY DEF PeriodicCheck, HealthCheckFails, ClientFails
<1> QED BY <1>3, <1>4, <1>5, <1>6, <1>7, <1>8, <1>9, <1>10 DEF Next, Handle, Worker

(* The time out of sections is a number whenever the periodic task subtracts  *)
(* it (_is_section_timeout_elapsed): it is None only while a section is open  *)
(* or nobody is monitored.                                                    *)
THEOREM TimersStaySet == Spec => []TimersAreSet
<1>1. Init => TimersInv
  BY DEF Init, TimersInv, TimersAreSet
<1>2. TimersInv => TimersAreSet
  BY DEF TimersInv
<1> QED BY <1>1, <1>2, ConnectionInit, ConnectionNext, IterationInit, IterationNext,
           SectionInit, SectionNext, TimersNext, PTL DEF Spec
=============================================================================
