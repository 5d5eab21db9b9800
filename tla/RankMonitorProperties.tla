----------------------- MODULE RankMonitorProperties -----------------------
(***************************************************************************)
(* What the rank monitor promises to the launcher and to the ranks.        *)
(***************************************************************************)
EXTENDS RankMonitor

IterationOrNone == 0 .. MaxIteration \cup {None}

Messages ==
    [kind : {"init", "update", "heartbeat"}]
    \cup [kind : {"open", "close"}, section : Sections, iteration : IterationOrNone]

(* Every variable holds a value of its kind. *)
TypeOK ==
    /\ rank_info \in Workers \cup {0}
    /\ hb_seen \in BOOLEAN /\ step_seen \in BOOLEAN
    /\ hb_age \in Ages /\ out_age \in Ages \cup {None}
    /\ open_sections \in Seq([section : Sections, age : Ages])
    /\ iterations \in [initial : IterationOrNone, current : IterationOrNone]
    /\ timeouts \in {"given", "calculated"}
    /\ locked \in BOOLEAN /\ is_closing \in BOOLEAN
    /\ handler \in [Workers -> {"none", "new", "waiting", "reading", "done", "refused"}]
    /\ state \in {"uninitialized", "initialize", "handlingStart", "handlingCompleted",
                  "finalized", "aborted"}
    /\ sent \in [Workers -> Seq(Messages)]
    /\ newest \in Workers \cup {0}
    /\ worker \in {"connecting", "running", "updating", "hung", "dead"}
    /\ client_open \subseteq Sections
    /\ iteration \in 0 .. MaxIteration /\ first_iteration \in 0 .. MaxIteration

(* The periodic task never subtracts None: out_of_section_time is set exactly
   while a monitored rank has no section open.  (An exception would end the task
   and with it the monitoring, silently.) *)
TimersAreSet ==
    rank_info # 0 => (open_sections = << >> <=> out_age # None)

(* The monitored rank is the one whose connection is being read, and only one
   connection is read at a time, however workers and connections overlap. *)
MonitoredIsConnected ==
    /\ rank_info # 0 => handler[rank_info] = "reading"
    /\ \A v, w \in Workers : handler[v] = "reading" /\ handler[w] = "reading" => v = w

(* Warmup iterations are counted from where this worker started, after a restart
   from an older checkpoint too. *)
WarmupCountsFromThisSession ==
    rank_info = newest /\ newest # 0 /\ iterations # NoIterations
        => iterations.initial >= first_iteration /\ iterations.current >= iterations.initial

(* When all that was sent is read, the server has the same sections open as the
   client: nothing is answered, so neither would ever find out otherwise. *)
SectionViewsAgree ==
    rank_info = newest /\ newest # 0 /\ worker = "running" /\ sent[newest] = << >>
        => /\ OpenNames = client_open
           /\ Len(open_sections) = Cardinality(OpenNames)

(* test_reconnect.py: "rank monitors should handle ranks re-connecting".  No
   report of a rank makes the server drop the connection. *)
NoReportIsRefused == is_closing \/ \A w \in Workers : handler[w] # "refused"

-----------------------------------------------------------------------------
(* A worker that connects gets its answer, whatever state the connections of its
   predecessors are in, unless it dies or the monitor is told to stop. *)
ConnectingIsAnswered ==
    worker = "connecting" ~> worker # "connecting" \/ is_closing

(* A rank that hangs while it is monitored is signalled, unless the monitor is
   told to stop, or the state machine has refused what the rank sent last. *)
MonitoredHangIsDetected ==
    worker = "hung" ~> \/ worker # "hung" \/ is_closing
                       \/ handler[newest] = "refused"

(* usage_guide.rst: "If any section is opened for too long, the workload is
   considered hung."  A hung rank, all of whose messages are read, with a section
   open beyond its timeout is signalled. *)
OpenTooLongIsDetected ==
    /\ worker = "hung" /\ rank_info = newest /\ sent[newest] = << >>
    /\ \E i \in 1 .. Len(open_sections) :
          Exceeds(open_sections[i].age, SectionTimeout(open_sections[i].section))
    ~> worker # "hung" \/ is_closing
=============================================================================
