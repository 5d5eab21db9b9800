---------------------------- MODULE RankMonitor ----------------------------
(***************************************************************************)
(* The hang detector of one rank: RankMonitorServer, a process that        *)
(* outlives the rank's worker processes, and the RankMonitorClient of each *)
(* worker.  A worker reports through one connection, whose messages the    *)
(* server reads one at a time while it holds connection_lock; a periodic   *)
(* task of the same event loop compares the ages of what it has read with  *)
(* the timeouts and signals the worker.                                    *)
(*                                                                         *)
(* Time is the age of each recorded moment, advanced by Tick and capped.   *)
(* Answers to heartbeats and sections are off (skip_section_response, the  *)
(* default), so a client runs ahead of the server.                         *)
(***************************************************************************)
EXTENDS Naturals, Integers, Sequences, FiniteSets

CONSTANTS
    Sections,       \* section names that have an entry in the configuration
    Warmup,         \* BOOLEAN: "warmup" has an entry too
    Given,          \* the timeouts of the FT configuration
    Calculated,     \* the timeouts a client may calculate and set
    WarmupIters,    \* num_warmup_iterations
    Reported,       \* BOOLEAN: the training framework tells the iteration
    NoTimeout,      \* a timeout of None
    MaxWorkers,     \* bound: worker processes the launcher starts in turn
    MaxInFlight,    \* bound: messages of a connection not yet read
    MaxAge,         \* bound: an age stays there; above every timeout
    MaxIteration    \* bound: training iterations

Workers == 1 .. MaxWorkers
None == -1
NoIterations == [initial |-> None, current |-> None]
Ages == 0 .. MaxAge

ASSUME BoundsAssumption ==
    /\ MaxWorkers \in Nat /\ MaxInFlight \in Nat \ {0}
    /\ MaxAge \in Nat \ {0} /\ MaxIteration \in Nat /\ WarmupIters \in Nat
    /\ {Warmup, Reported} \subseteq BOOLEAN
ASSUME TimeoutsAssumption ==
    \A t \in {Given, Calculated} :
       /\ {t.initial, t.subsequent, t.out, t.warmup} \subseteq Nat \cup {NoTimeout}
       /\ t.section \in [Sections -> Nat \cup {NoTimeout}]

VARIABLES
    \* the server
    rank_info,      \* the worker it monitors, or 0
    hb_seen,        \* last_hb_time is set
    hb_age,         \* time since then, or since start_time
    out_age,        \* time since out_of_section_time, or None
    open_sections,  \* section and time since it was opened, oldest entry first
    iterations,     \* _initial_iteration and _current_iteration, or None
    step_seen,      \* _step_section_seen_this_cycle
    timeouts,       \* the timeouts of cfg: "given" or "calculated"
    locked,         \* connection_lock
    handler,        \* per connection: how far its _handle_ipc_connection is
    state,          \* of the RankMonitorStateMachine
    is_closing,
    \* the workers: only the newest may be alive
    sent,           \* per connection: messages sent and not yet read
    newest,         \* how many workers there have been
    worker,         \* what the newest does
    client_open,    \* sections it has open, by its own account
    iteration,      \* its training iteration
    first_iteration \* where it started

monitored == <<rank_info, hb_seen, hb_age, out_age, open_sections, iterations, step_seen>>
server == <<monitored, timeouts, locked, handler, state, is_closing>>
client == <<sent, newest, worker, client_open, iteration, first_iteration>>
vars == <<server, client>>

Alive == worker \in {"connecting", "running", "updating", "hung"}

\* The newest worker ends its session, dies, or is killed by the launcher or the
\* monitor; its end of the connection closes.
Dies ==
    /\ Alive /\ worker' = "dead"
    /\ client_open' = {} /\ iteration' = 0 /\ first_iteration' = 0
    /\ UNCHANGED <<server, sent, newest>>

-----------------------------------------------------------------------------
(* RankMonitorStateMachine *)

\* A heartbeat or a section message; in any other state it raises AssertionError.
AcceptsMessage == state \in {"uninitialized", "initialize", "handlingStart", "handlingCompleted"}

AfterMessage ==
    CASE state = "uninitialized" -> "initialize"
      [] state = "handlingStart" -> "handlingCompleted"
      [] OTHER -> state

AfterConnectionLost ==
    CASE state \in {"initialize", "handlingCompleted"} -> "handlingStart"
      [] state = "handlingStart" -> "aborted"
      [] OTHER -> state

AfterSignal ==
    CASE state = "handlingStart" -> "aborted"
      [] state = "uninitialized" -> state
      [] OTHER -> "finalized"

-----------------------------------------------------------------------------
(* Timeouts *)

Cfg == IF timeouts = "given" THEN Given ELSE Calculated

Exceeds(age, timeout) == timeout # NoTimeout /\ age > timeout

HeartbeatTimeoutElapsed ==
    Exceeds(hb_age, IF hb_seen THEN Cfg.subsequent ELSE Cfg.initial)

InWarmup ==
    /\ Warmup /\ iterations # NoIterations
    /\ iterations.current - iterations.initial < WarmupIters

SectionTimeout(s) ==
    IF s = "step" /\ InWarmup THEN Cfg.warmup ELSE Cfg.section[s]

\* The loop overwrites its result for each open section, so the one opened last
\* decides.  Without "warmup" the time out of sections counts from the first step.
SectionTimeoutElapsed ==
    IF open_sections # << >>
    THEN LET last == open_sections[Len(open_sections)]
         IN  Exceeds(last.age, SectionTimeout(last.section))
    ELSE /\ Sections = {} \/ Warmup \/ step_seen
         /\ Exceeds(out_age, Cfg.out)

\* Mutant: only the heartbeats are checked.
CheckHeartbeatsOnly ==
    /\ ~is_closing /\ rank_info # 0
    /\ HeartbeatTimeoutElapsed
    /\ rank_info = newest /\ Dies

\* _periodic_rank_check: a rank that is late is signalled if it is alive.
PeriodicCheck ==
    /\ ~is_closing /\ rank_info # 0
    /\ HeartbeatTimeoutElapsed \/ SectionTimeoutElapsed
    /\ rank_info = newest /\ Dies

\* A GPU or NIC health check fails.
HealthCheckFails ==
    /\ ~is_closing /\ rank_info # 0
    /\ rank_info = newest /\ Dies

-----------------------------------------------------------------------------
(* _handle_ipc_connection *)

ClosedByPeer(w) == w < newest \/ worker = "dead"

\* The handler of a new connection takes the lock, or waits for it.
Accept(w) ==
    /\ handler[w] = "new"
    /\ \/ is_closing /\ handler' = [handler EXCEPT ![w] = "refused"] /\ UNCHANGED locked
       \/ /\ ~is_closing
          /\ IF locked \/ (\E v \in Workers : handler[v] = "waiting")
             THEN handler' = [handler EXCEPT ![w] = "waiting"] /\ UNCHANGED locked
             ELSE handler' = [handler EXCEPT ![w] = "reading"] /\ locked' = TRUE
    /\ UNCHANGED <<monitored, timeouts, state, is_closing, client>>

\* Waiters get the lock in the order of their connections.
Acquire(w) ==
    /\ handler[w] = "waiting" /\ ~locked
    /\ \A v \in Workers : handler[v] = "waiting" => w <= v
    /\ handler' = [handler EXCEPT ![w] = "reading"] /\ locked' = TRUE
    /\ UNCHANGED <<monitored, timeouts, state, is_closing, client>>

\* The worker's next message, taken off its connection.
Receive(w, kind) ==
    /\ handler[w] = "reading" /\ sent[w] # << >> /\ Head(sent[w]).kind = kind
    /\ sent' = [sent EXCEPT ![w] = Tail(@)]

\* An answer reaches a client that still waits for it.
Answered(w, waiting) == w = newest /\ worker = waiting

\* A new session: the client waits for the answer, which brings the timeouts.
HandleInit(w) ==
    /\ Receive(w, "init")
    /\ rank_info' = w /\ hb_seen' = FALSE /\ hb_age' = 0
    /\ out_age' = 0 /\ open_sections' = << >>
    /\ worker' = IF Answered(w, "connecting") THEN "running" ELSE worker
    /\ UNCHANGED <<iterations, step_seen, timeouts, locked, handler, state, is_closing,
                   newest, client_open, iteration, first_iteration>>

HandleUpdateConfig(w) ==
    /\ Receive(w, "update")
    /\ timeouts' = "calculated"
    /\ worker' = IF Answered(w, "updating") THEN "running" ELSE worker
    /\ UNCHANGED <<monitored, locked, handler, state, is_closing,
                   newest, client_open, iteration, first_iteration>>

HandleHeartbeat(w) ==
    /\ AcceptsMessage /\ Receive(w, "heartbeat")
    /\ state' = AfterMessage
    /\ hb_seen' = TRUE /\ hb_age' = 0
    /\ UNCHANGED <<rank_info, out_age, open_sections, iterations, step_seen, timeouts, locked,
                   handler, is_closing, newest, worker, client_open, iteration,
                   first_iteration>>

\* "step" messages carry the iteration, unless the framework reports none.
TrackIteration(m) ==
    iterations' = IF m.section # "step" \/ m.iteration = None THEN iterations
                  ELSE [initial |-> IF iterations = NoIterations THEN m.iteration
                                    ELSE iterations.initial,
                        current |-> m.iteration]

OpenNames == {open_sections[i].section : i \in 1 .. Len(open_sections)}

HandleOpen(w) ==
    LET m == Head(sent[w]) IN
    /\ AcceptsMessage /\ Receive(w, "open")
    /\ state' = AfterMessage
    /\ TrackIteration(m)
    /\ IF m.section \in OpenNames
       THEN UNCHANGED <<open_sections, out_age, step_seen>>
       ELSE /\ open_sections' = Append(open_sections, [section |-> m.section, age |-> 0])
            /\ out_age' = None
            /\ step_seen' = (step_seen \/ m.section = "step")
    /\ UNCHANGED <<rank_info, hb_seen, hb_age, timeouts, locked, handler, is_closing,
                   newest, worker, client_open, iteration, first_iteration>>

\* The dictionary without its i-th entry.
Without(i) ==
    [j \in 1 .. Len(open_sections) - 1 |-> open_sections[IF j < i THEN j ELSE j + 1]]

\* Mutant: the section stays open.
CloseForgets(w) ==
    /\ AcceptsMessage /\ Receive(w, "close")
    /\ state' = AfterMessage
    /\ UNCHANGED <<monitored, timeouts, locked, handler, is_closing,
                   newest, worker, client_open, iteration, first_iteration>>

HandleClose(w) ==
    LET m == Head(sent[w]) IN
    /\ AcceptsMessage /\ Receive(w, "close")
    /\ state' = AfterMessage
    /\ TrackIteration(m)
    /\ IF m.section \in OpenNames
       THEN \E i \in 1 .. Len(open_sections) :
              /\ open_sections[i].section = m.section
              /\ open_sections' = Without(i)
              /\ out_age' = IF Len(open_sections) = 1 THEN 0 ELSE out_age
       ELSE UNCHANGED <<open_sections, out_age>>
    /\ UNCHANGED <<rank_info, hb_seen, hb_age, step_seen, timeouts, locked, handler, is_closing,
                   newest, worker, client_open, iteration, first_iteration>>

\* Mutant: the iterations of the old worker stay.
LostKeepsIterations ==
    /\ state' = AfterConnectionLost
    /\ rank_info' = 0 /\ hb_seen' = FALSE /\ hb_age' = 0 /\ out_age' = None
    /\ open_sections' = << >> /\ UNCHANGED iterations /\ step_seen' = FALSE
    /\ locked' = FALSE

\* Mutant: the lock is not released.
LostKeepsLock ==
    /\ state' = AfterConnectionLost
    /\ rank_info' = 0 /\ hb_seen' = FALSE /\ hb_age' = 0 /\ out_age' = None
    /\ open_sections' = << >> /\ iterations' = NoIterations /\ step_seen' = FALSE
    /\ UNCHANGED locked

\* Mutant: the rank stays the monitored one.
LostKeepsRank ==
    /\ state' = AfterConnectionLost
    /\ UNCHANGED rank_info /\ hb_seen' = FALSE /\ hb_age' = 0 /\ out_age' = None
    /\ open_sections' = << >> /\ iterations' = NoIterations /\ step_seen' = FALSE
    /\ locked' = FALSE

\* _handle_ipc_connection_lost, in the finally block of the handler.
ConnectionLost ==
    /\ state' = AfterConnectionLost
    /\ rank_info' = 0 /\ hb_seen' = FALSE /\ hb_age' = 0 /\ out_age' = None
    /\ open_sections' = << >> /\ iterations' = NoIterations /\ step_seen' = FALSE
    /\ locked' = FALSE

\* Everything is read and the other side is gone.
HandleEndOfStream(w) ==
    /\ handler[w] = "reading" /\ sent[w] = << >> /\ ClosedByPeer(w)
    /\ ConnectionLost
    /\ handler' = [handler EXCEPT ![w] = "done"]
    /\ UNCHANGED <<timeouts, is_closing, client>>

\* The state machine raises: the handler drops the connection.
RefuseMessage(w) ==
    /\ ~AcceptsMessage
    /\ Receive(w, "heartbeat") \/ Receive(w, "open") \/ Receive(w, "close")
    /\ ConnectionLost
    /\ handler' = [handler EXCEPT ![w] = "refused"]
    /\ UNCHANGED <<timeouts, is_closing, newest, worker, client_open, iteration,
                   first_iteration>>

\* A termination signal to the monitor process: no connection is accepted and no
\* check made after it.
Signal ==
    /\ ~is_closing /\ is_closing' = TRUE
    /\ state' = AfterSignal
    /\ UNCHANGED <<monitored, timeouts, locked, handler, client>>

-----------------------------------------------------------------------------
(* The worker and its RankMonitorClient *)

\* The launcher starts a worker once the previous one is gone; the client
\* connects and waits for the answer to its first message.
StartWorker ==
    /\ ~Alive /\ newest < MaxWorkers
    /\ newest' = newest + 1
    /\ worker' = "connecting"
    /\ handler' = [handler EXCEPT ![newest'] = "new"]
    /\ sent' = [sent EXCEPT ![newest'] = <<[kind |-> "init"]>>]
    /\ \E i \in 0 .. MaxIteration : iteration' = i /\ first_iteration' = i
    /\ UNCHANGED <<monitored, timeouts, locked, state, is_closing, client_open>>

\* A send fails once the server has dropped the connection.
Send(m) ==
    /\ worker = "running" /\ handler[newest] # "refused"
    /\ Len(sent[newest]) < MaxInFlight
    /\ sent' = [sent EXCEPT ![newest] = Append(@, m)]

SendHeartbeat ==
    /\ Send([kind |-> "heartbeat"])
    /\ UNCHANGED <<server, newest, worker, client_open, iteration, first_iteration>>

\* _get_current_iteration
CurrentIteration == IF Reported THEN iteration ELSE None

\* start_section and end_section, of a section that is not open or open.
\* end_all_sections is no step: it names the section None, which has no entry.
StartSection(s) ==
    /\ s \notin client_open
    /\ Send([kind |-> "open", section |-> s, iteration |-> CurrentIteration])
    /\ client_open' = client_open \cup {s}
    /\ UNCHANGED <<server, newest, worker, iteration, first_iteration>>

EndSection(s) ==
    /\ s \in client_open
    /\ Send([kind |-> "close", section |-> s, iteration |-> CurrentIteration])
    /\ client_open' = client_open \ {s}
    /\ iteration' = IF s = "step" /\ iteration < MaxIteration THEN iteration + 1 ELSE iteration
    /\ UNCHANGED <<server, newest, worker, first_iteration>>

\* calculate_and_set_*_timeouts, or timeouts restored by load_state_dict.
SetTimeouts ==
    /\ Send([kind |-> "update"])
    /\ worker' = "updating"
    /\ UNCHANGED <<server, newest, client_open, iteration, first_iteration>>

\* The client raises RankMonitorClientError into the workload.
ClientFails ==
    /\ worker \in {"connecting", "running", "updating"} /\ handler[newest] = "refused"
    /\ Dies

\* The workload hangs: it sends nothing any more.
Hang ==
    /\ worker = "running" /\ worker' = "hung"
    /\ UNCHANGED <<server, sent, newest, client_open, iteration, first_iteration>>

-----------------------------------------------------------------------------
Older(age) == IF age < MaxAge THEN age + 1 ELSE age

Tick ==
    /\ rank_info # 0
    /\ hb_age' = Older(hb_age)
    /\ out_age' = IF out_age = None THEN None ELSE Older(out_age)
    /\ open_sections' = [i \in 1 .. Len(open_sections) |->
                            [open_sections[i] EXCEPT !.age = Older(@)]]
    /\ UNCHANGED <<rank_info, hb_seen, iterations, step_seen, timeouts, locked, handler, state,
                   is_closing, sent, newest, worker, client_open, iteration, first_iteration>>

Init ==
    /\ rank_info = 0 /\ hb_seen = FALSE /\ hb_age = 0 /\ out_age = None
    /\ open_sections = << >> /\ iterations = NoIterations /\ step_seen = FALSE
    /\ timeouts = "given" /\ locked = FALSE
    /\ handler = [w \in Workers |-> "none"]
    /\ state = "uninitialized" /\ is_closing = FALSE
    /\ sent = [w \in Workers |-> << >>]
    /\ newest = 0 /\ worker = "dead" /\ client_open = {}
    /\ iteration = 0 /\ first_iteration = 0

Handle(w) ==
    \/ Accept(w) \/ Acquire(w)
    \/ HandleInit(w) \/ HandleUpdateConfig(w) \/ HandleHeartbeat(w)
    \/ HandleOpen(w) \/ HandleClose(w)
    \/ HandleEndOfStream(w) \/ RefuseMessage(w)

Worker ==
    \/ StartWorker \/ SendHeartbeat \/ SetTimeouts \/ ClientFails \/ Hang \/ Dies
    \/ \E s \in Sections : StartSection(s) \/ EndSection(s)

Next ==
    \/ \E w \in Workers : Handle(w)
    \/ PeriodicCheck \/ HealthCheckFails \/ Signal \/ Worker \/ Tick

Spec == Init /\ [][Next]_vars

\* The event loop runs every handler and the periodic task; time passes.
Fairness ==
    /\ \A w \in Workers : WF_vars(Handle(w))
    /\ WF_vars(PeriodicCheck) /\ WF_vars(Tick)

FairSpec == Spec /\ Fairness

=============================================================================
