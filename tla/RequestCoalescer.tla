-------------------------- MODULE RequestCoalescer --------------------------
(***************************************************************************)
(* RequestCoalescer (attribution/coalescing/coalescer.py), for one key:    *)
(* concurrent requests for the analysis of a log file share one            *)
(* computation, and its result is cached and validated against the file.   *)
(*                                                                         *)
(* The coalescer runs on an event loop.  Nothing is awaited while _lock is *)
(* held, so the lock is always free when a task asks for it, and a task    *)
(* runs undisturbed until it awaits the computation or a future: these are *)
(* the steps of the model.  A result is the version of the file that was   *)
(* analysed, and a version stands for the file's mtime and size.           *)
(***************************************************************************)
EXTENDS Naturals, FiniteSets

CONSTANTS
    Clients,      \* tasks that ask for the result, again and again
    MaxFlights,   \* bound: computations
    MaxVersion    \* bound: versions of the file

ASSUME ClientsAssumption == IsFiniteSet(Clients)
ASSUME BoundsAssumption == {MaxFlights, MaxVersion} \subseteq Nat

VARIABLES
    file,       \* version of the file, 0 before it is there
    aged,       \* versions up to this one are older than max_file_age
    cache,      \* entry of _cache
    in_flight,  \* entry of _in_flight: the number of a computation
    future,     \* per computation: its future, and how long it has been pending
    cleanup_due,\* the cleanup cadence has passed
    pc,         \* per client: what it awaits
    flight,     \* per client: the computation it runs or waits for
    seen,       \* per client: the file's version before its computation
    cleaned     \* computations dropped as stuck

vars == <<file, aged, cache, in_flight, future, cleanup_due, pc, flight, seen, cleaned>>

Flights == 1 .. MaxFlights
Versions == 1 .. MaxVersion
\* Pending, over compute_timeout, and over twice that.
Pending == {"young", "late", "stuck"}
None == 0                  \* no file, no metadata, no computation
NoEntry == [result |-> "none", content |-> None, mtime |-> None, size |-> None,
            young |-> FALSE]

\* _cache[key], young as long as the grace period lasts.
Entry(result, content, mtime, size) ==
    [result |-> result, content |-> content, mtime |-> mtime, size |-> size, young |-> TRUE]

-----------------------------------------------------------------------------
(* Cleanup, which the first request after its cadence runs before all else *)

\* Entries of files that are too old; an entry without mtime is never dropped.
Expired == cache # NoEntry /\ cache.mtime \in 1 .. aged
\* Stuck, or, if the future is done, leaked.
Overdue == in_flight # None /\ future[in_flight] \in {"stuck", "done"}

CachedAfterCleanup == IF cleanup_due /\ Expired THEN NoEntry ELSE cache
Stuck == cleanup_due /\ Overdue

Settled(f) == [future EXCEPT ![f] = "done"]
FutureAfterCleanup == IF Stuck THEN Settled(in_flight) ELSE future

-----------------------------------------------------------------------------
(* get_or_compute and peek *)

\* An entry without metadata counts as valid, and so does any in its grace period.
Hit(e) ==
    /\ e # NoEntry
    /\ \/ e.young
       \/ e.mtime = None
       \/ e.size # None /\ e.mtime = file

\* A cleanup, if one is due, and a cached result.
GetCached(c) ==
    /\ pc[c] = "idle" /\ Hit(CachedAfterCleanup)
    /\ cache' = CachedAfterCleanup
    /\ in_flight' = (IF Stuck THEN None ELSE in_flight)
    /\ future' = FutureAfterCleanup
    /\ cleaned' = (IF Stuck THEN cleaned + 1 ELSE cleaned)
    /\ cleanup_due' = FALSE
    /\ UNCHANGED <<file, aged, pc, flight, seen>>

\* Mutant: a computation in flight is not looked for.
StartComputeAlways(c) ==
    \E f \in Flights :
    /\ pc[c] = "idle" /\ ~Hit(CachedAfterCleanup)
    /\ future[f] = "none" /\ \A g \in Flights : future[g] = "none" => f <= g
    /\ cache' = NoEntry
    /\ in_flight' = f
    /\ future' = [future EXCEPT ![f] = "young"]
    /\ pc' = [pc EXCEPT ![c] = "computing"]
    /\ flight' = [flight EXCEPT ![c] = f]
    /\ seen' = [seen EXCEPT ![c] = file]
    /\ UNCHANGED <<file, aged, cleanup_due, cleaned>>

\* No result, and nobody computes one: the client becomes the owner of a computation.
\* It looks at the file before compute_fn does.
StartCompute(c) ==
    \E f \in Flights :
    /\ pc[c] = "idle" /\ ~Hit(CachedAfterCleanup)
    /\ in_flight = None \/ Stuck
    /\ future[f] = "none" /\ \A g \in Flights : future[g] = "none" => f <= g
    /\ cache' = NoEntry
    /\ in_flight' = f
    /\ future' = [FutureAfterCleanup EXCEPT ![f] = "young"]
    /\ cleaned' = (IF Stuck THEN cleaned + 1 ELSE cleaned)
    /\ cleanup_due' = FALSE
    /\ pc' = [pc EXCEPT ![c] = "computing"]
    /\ flight' = [flight EXCEPT ![c] = f]
    /\ seen' = [seen EXCEPT ![c] = file]
    /\ UNCHANGED <<file, aged>>

\* No result, but somebody computes one: its future is awaited.
JoinFlight(c) ==
    /\ pc[c] = "idle" /\ ~Hit(CachedAfterCleanup)
    /\ in_flight # None /\ ~Stuck
    /\ cache' = NoEntry
    /\ cleanup_due' = FALSE
    /\ pc' = [pc EXCEPT ![c] = "waiting"]
    /\ flight' = [flight EXCEPT ![c] = in_flight]
    /\ UNCHANGED <<file, aged, in_flight, future, seen, cleaned>>

\* A look, which drops an entry of a file that has changed.
Peek ==
    /\ cache # NoEntry
    /\ cache' = (IF Hit(cache) THEN cache ELSE NoEntry)
    /\ UNCHANGED <<file, aged, in_flight, future, cleanup_due, pc, flight, seen, cleaned>>

-----------------------------------------------------------------------------
(* _do_compute, after its await *)

Leave(c) ==
    /\ pc' = [pc EXCEPT ![c] = "idle"]
    /\ flight' = [flight EXCEPT ![c] = None]
    /\ seen' = [seen EXCEPT ![c] = None]

\* Mutant: the file is looked at when its analysis is done.
ReturnStatAfter(c) ==
    \E v \in Versions :
    /\ pc[c] = "computing" /\ seen[c] <= v /\ v <= file
    /\ cache' = Entry("result", v, file, file)
    /\ in_flight' = None
    /\ future' = Settled(flight[c])
    /\ Leave(c)
    /\ UNCHANGED <<file, aged, cleanup_due, cleaned>>

\* compute_fn returns what it found in the file at some time since it began.  The entry
\* of _in_flight goes, whose ever it is.
Return(c) ==
    \E v \in Versions :
    /\ pc[c] = "computing" /\ seen[c] <= v /\ v <= file
    /\ cache' = Entry("result", v, seen[c], seen[c])
    /\ in_flight' = None
    /\ future' = Settled(flight[c])
    /\ Leave(c)
    /\ UNCHANGED <<file, aged, cleanup_due, cleaned>>

\* wait_for gives up; a timeout result is cached without a size.
TimeOut(c) ==
    /\ pc[c] = "computing" /\ future[flight[c]] # "young"
    /\ cache' = Entry("timeout", None, seen[c], None)
    /\ in_flight' = None
    /\ future' = Settled(flight[c])
    /\ Leave(c)
    /\ UNCHANGED <<file, aged, cleanup_due, cleaned>>

\* Mutant: after an exception the entry of _in_flight stays.
FailLeaving(c) ==
    /\ pc[c] = "computing"
    /\ future' = Settled(flight[c])
    /\ Leave(c)
    /\ UNCHANGED <<file, aged, cache, in_flight, cleanup_due, cleaned>>

\* compute_fn raises, or the owner's task is cancelled.
Fail(c) ==
    /\ pc[c] = "computing"
    /\ in_flight' = None
    /\ future' = Settled(flight[c])
    /\ Leave(c)
    /\ UNCHANGED <<file, aged, cache, cleanup_due, cleaned>>

-----------------------------------------------------------------------------
(* _wait_for_result *)

\* The future is done.
Wake(c) ==
    /\ pc[c] = "waiting" /\ future[flight[c]] = "done"
    /\ Leave(c)
    /\ UNCHANGED <<file, aged, cache, in_flight, future, cleanup_due, cleaned>>

\* Mutant: the wait has no timeout of its own.
StopWaitingNever(c) == FALSE

\* The wait takes longer than the computation may.
StopWaiting(c) ==
    /\ pc[c] = "waiting" /\ future[flight[c]] # "young"
    /\ Leave(c)
    /\ UNCHANGED <<file, aged, cache, in_flight, future, cleanup_due, cleaned>>

\* The waiting task is cancelled; the future is shielded from that.
CancelWait(c) ==
    /\ pc[c] = "waiting"
    /\ Leave(c)
    /\ UNCHANGED <<file, aged, cache, in_flight, future, cleanup_due, cleaned>>

-----------------------------------------------------------------------------
(* Time, the file, and the service *)

GraceEnds ==
    /\ cache.young
    /\ cache' = [cache EXCEPT !.young = FALSE]
    /\ UNCHANGED <<file, aged, in_flight, future, cleanup_due, pc, flight,
                   seen, cleaned>>

FlightAges(f) ==
    /\ future[f] \in {"young", "late"}
    /\ future' = [future EXCEPT ![f] = IF @ = "young" THEN "late" ELSE "stuck"]
    /\ UNCHANGED <<file, aged, cache, in_flight, cleanup_due, pc, flight,
                   seen, cleaned>>

\* The cleanup cadence passes; submissions that are too old may go with it.
CleanupComesDue ==
    /\ ~cleanup_due
    /\ cleanup_due' = TRUE
    /\ UNCHANGED <<file, aged, cache, in_flight, future, pc, flight, seen, cleaned>>

FileChanges ==
    /\ file < MaxVersion
    /\ file' = file + 1
    /\ UNCHANGED <<aged, cache, in_flight, future, cleanup_due, pc, flight,
                   seen, cleaned>>

FileAges ==
    /\ aged < file
    /\ aged' = aged + 1
    /\ UNCHANGED <<file, cache, in_flight, future, cleanup_due, pc, flight,
                   seen, cleaned>>

\* The service stops, with export_cache, and comes back, with import_cache: what is
\* imported is of the file as it is, and in its grace period again.
Importable == cache.size # None /\ cache.mtime = file /\ cache.mtime > aged

Restart ==
    /\ cache' = (IF Importable THEN [cache EXCEPT !.young = TRUE] ELSE NoEntry)
    /\ in_flight' = None /\ cleanup_due' = FALSE
    /\ future' = [f \in Flights |-> IF future[f] \in Pending THEN "done" ELSE future[f]]
    /\ pc' = [c \in Clients |-> "idle"]
    /\ flight' = [c \in Clients |-> None]
    /\ seen' = [c \in Clients |-> None]
    /\ UNCHANGED <<file, aged, cleaned>>

-----------------------------------------------------------------------------
Init ==
    /\ file = None /\ aged = 0
    /\ cache = NoEntry
    /\ in_flight = None
    /\ future = [f \in Flights |-> "none"]
    /\ cleanup_due = FALSE
    /\ pc = [c \in Clients |-> "idle"]
    /\ flight = [c \in Clients |-> None]
    /\ seen = [c \in Clients |-> None]
    /\ cleaned = 0

Ask(c) == GetCached(c) \/ StartCompute(c) \/ JoinFlight(c)
Compute(c) == Return(c) \/ TimeOut(c) \/ Fail(c)
Wait(c) == Wake(c) \/ StopWaiting(c)
Time == GraceEnds \/ CleanupComesDue \/ FileAges \/ \E f \in Flights : FlightAges(f)

Next ==
    \/ \E c \in Clients : Ask(c) \/ Compute(c) \/ Wait(c) \/ CancelWait(c)
    \/ Peek
    \/ Time \/ FileChanges \/ Restart

Spec == Init /\ [][Next]_vars

\* Time passes, and a wait that can end does.  Of computations, which may hang, and of
\* further requests nothing is asked.
FairSpec ==
    /\ Spec
    /\ \A c \in Clients : WF_vars(Wait(c))
    /\ \A f \in Flights : WF_vars(FlightAges(f))
=============================================================================
