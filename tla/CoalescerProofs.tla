--------------------------- MODULE CoalescerProofs ---------------------------
(* The safety of the request coalescer, for any number of clients,           *)
(* computations and versions of the file.                                    *)
EXTENDS CoalescerProperties, FiniteSetTheorems, TLAPS

Metadata == Nat
CacheEntries ==
    [result : {"none", "result", "timeout"}, content : Metadata, mtime : Metadata,
     size : Metadata, young : BOOLEAN]

(* Every variable but the flag of the clean-up, which nothing computes with,   *)
(* holds a value of its kind.                                                 *)
TypeOK ==
    /\ file \in Nat /\ aged \in Nat /\ cleaned \in Nat
    /\ cache \in CacheEntries
    /\ in_flight \in {None} \cup Flights
    /\ future \in [Flights -> {"none", "done"} \cup Pending]
    /\ pc \in [Clients -> {"idle", "computing", "waiting"}]
    /\ flight \in [Clients -> {None} \cup Flights]
    /\ seen \in [Clients -> Nat]

-----------------------------------------------------------------------------
(* The types of all variables are preserved (RequestCoalescer.__init__ and    *)
(* every method that writes to the cache or to _in_flight).                   *)
LEMMA TypesInductive ==
    ASSUME TypeOK, [Next]_vars
    PROVE  TypeOK'
<1> USE DEF TypeOK, Pending
<1>0. NoEntry \in CacheEntries
  BY DEF NoEntry, CacheEntries, Metadata, None
<1>1. ASSUME NEW c \in Clients, Ask(c) PROVE TypeOK'
  <2>1. CachedAfterCleanup \in CacheEntries
    BY <1>0 DEF CachedAfterCleanup
  <2>2. FutureAfterCleanup \in [Flights -> {"none", "done"} \cup Pending]
    BY DEF FutureAfterCleanup, Settled
  <2>3. CASE GetCached(c)
    BY <2>1, <2>2, <2>3 DEF GetCached
  <2>4. CASE StartCompute(c)
    BY <1>0, <2>2, <2>4 DEF StartCompute
  <2>5. CASE JoinFlight(c)
    BY <1>0, <2>5 DEF JoinFlight
  <2> QED BY <1>1, <2>3, <2>4, <2>5 DEF Ask
<1>2. ASSUME NEW c \in Clients, Compute(c) PROVE TypeOK'
  <2>1. ASSUME NEW v \in Versions PROVE Entry("result", v, seen[c], seen[c]) \in CacheEntries
    BY BoundsAssumption DEF Entry, CacheEntries, Metadata, Versions
  <2>2. Entry("timeout", None, seen[c], None) \in CacheEntries
    BY DEF Entry, CacheEntries, Metadata, None
  <2>3. cache' \in CacheEntries
    BY <1>2, <2>1, <2>2 DEF Compute, Return, TimeOut, Fail
  <2> QED
    BY <1>2, <2>3 DEF Compute, Return, TimeOut, Fail, Leave, Settled, None
<1>3. ASSUME NEW c \in Clients, Wait(c) \/ CancelWait(c) PROVE TypeOK'
  BY <1>3 DEF Wait, Wake, StopWaiting, CancelWait, Leave, None
<1>4. ASSUME Peek \/ Restart PROVE TypeOK'
  <2>1. cache' \in CacheEntries
    BY <1>0, <1>4 DEF Peek, Restart, CacheEntries
  <2> QED BY <1>4, <2>1 DEF Peek, Restart, None
<1>5. ASSUME GraceEnds PROVE TypeOK'
  BY <1>5 DEF GraceEnds, CacheEntries
<1>6. ASSUME CleanupComesDue \/ FileAges \/ FileChanges \/ UNCHANGED vars PROVE TypeOK'
  BY <1>6, BoundsAssumption DEF CleanupComesDue, FileAges, FileChanges, vars
<1>7. ASSUME NEW f \in Flights, FlightAges(f) PROVE TypeOK'
  BY <1>7 DEF FlightAges
<1> QED
  BY <1>1, <1>2, <1>3, <1>4, <1>5, <1>6, <1>7 DEF Next, Time

LEMMA TypesInit == Init => TypeOK
  BY DEF Init, TypeOK, CacheEntries, Metadata, Flights, Pending, None, NoEntry

-----------------------------------------------------------------------------
(* A cached result is of a version between the one its metadata name and the  *)
(* present one: _do_compute stats the file before the analysis reads it.      *)
EntryFollowsItsMetadata ==
    cache.result = "result" => cache.mtime <= cache.content /\ cache.content <= file

(* That is kept by every step that replaces, drops or imports the entry.      *)
LEMMA EntryInductive ==
    ASSUME TypeOK, EntryFollowsItsMetadata, [Next]_vars
    PROVE  EntryFollowsItsMetadata'
<1> USE BoundsAssumption
<1> USE DEF TypeOK, CacheEntries, Metadata, Flights, Versions, Pending, None,
            EntryFollowsItsMetadata
<1>1. ASSUME NEW c \in Clients, Ask(c) PROVE EntryFollowsItsMetadata'
  BY <1>1 DEF Ask, GetCached, StartCompute, JoinFlight, CachedAfterCleanup, NoEntry
<1>2. ASSUME NEW c \in Clients, Compute(c) PROVE EntryFollowsItsMetadata'
  BY <1>2 DEF Compute, Return, TimeOut, Fail, Entry
<1>3. ASSUME NEW c \in Clients, Wait(c) \/ CancelWait(c) PROVE EntryFollowsItsMetadata'
  BY <1>3 DEF Wait, Wake, StopWaiting, CancelWait
<1>4. ASSUME Peek \/ GraceEnds \/ CleanupComesDue \/ FileAges \/ FileChanges
             \/ \E f \in Flights : FlightAges(f)
      PROVE  EntryFollowsItsMetadata'
  BY <1>4 DEF Peek, GraceEnds, CleanupComesDue, FileAges, FileChanges, FlightAges, NoEntry
<1>5. ASSUME Restart PROVE EntryFollowsItsMetadata'
  BY <1>5 DEF Restart, NoEntry
<1>6. ASSUME UNCHANGED vars PROVE EntryFollowsItsMetadata'
  BY <1>6 DEF vars
<1> QED
  BY <1>1, <1>2, <1>3, <1>4, <1>5, <1>6 DEF Next, Time

(* ValidEntryIsExact for every file that changes at any moment: a result that *)
(* _get_valid_cached_result_unsafe serves is of the file as it is, unless the *)
(* metadata could not be read before the analysis, or the entry is in its     *)
(* grace period and its metadata are not those of the file.                   *)
THEOREM EntriesAreExact == Spec => []ValidEntryIsExact
<1>1. Init => TypeOK /\ EntryFollowsItsMetadata
  BY TypesInit DEF Init, EntryFollowsItsMetadata, NoEntry
<1>2. TypeOK /\ EntryFollowsItsMetadata /\ [Next]_vars => (TypeOK /\ EntryFollowsItsMetadata)'
  BY TypesInductive, EntryInductive
<1>3. TypeOK /\ EntryFollowsItsMetadata => ValidEntryIsExact
  BY DEF TypeOK, CacheEntries, Metadata, EntryFollowsItsMetadata, ValidEntryIsExact, Hit
<1> QED
  BY <1>1, <1>2, <1>3, PTL DEF Spec

-----------------------------------------------------------------------------
(* Every way out of _do_compute pops the entry of _in_flight before it leaves *)
(* the future, and the clean-up pops it with the future it settles.           *)
LEMMA InFlightInductive ==
    ASSUME TypeOK, InFlightIsComputed, [Next]_vars
    PROVE  InFlightIsComputed'
<1> USE BoundsAssumption
<1> USE DEF TypeOK, Flights, Pending, None, InFlightIsComputed
<1>1. ASSUME NEW c \in Clients, Ask(c) PROVE InFlightIsComputed'
  <2>1. CASE GetCached(c)
    BY <2>1 DEF GetCached, FutureAfterCleanup
  <2>2. CASE StartCompute(c)
    BY <2>2 DEF StartCompute, FutureAfterCleanup, Settled, Stuck, Overdue
  <2>3. CASE JoinFlight(c)
    BY <2>3 DEF JoinFlight
  <2> QED BY <1>1, <2>1, <2>2, <2>3 DEF Ask
<1>2. ASSUME NEW c \in Clients, Compute(c) PROVE InFlightIsComputed'
  BY <1>2 DEF Compute, Return, TimeOut, Fail
<1>3. ASSUME NEW c \in Clients, Wait(c) \/ CancelWait(c) PROVE InFlightIsComputed'
  BY <1>3 DEF Wait, Wake, StopWaiting, CancelWait, Leave
<1>4. ASSUME Peek \/ GraceEnds \/ CleanupComesDue \/ FileAges \/ FileChanges
             \/ \E f \in Flights : FlightAges(f)
      PROVE  InFlightIsComputed'
  BY <1>4 DEF Peek, GraceEnds, CleanupComesDue, FileAges, FileChanges, FlightAges
<1>5. ASSUME Restart PROVE InFlightIsComputed'
  BY <1>5 DEF Restart
<1>6. ASSUME UNCHANGED vars PROVE InFlightIsComputed'
  BY <1>6 DEF vars
<1> QED
  BY <1>1, <1>2, <1>3, <1>4, <1>5, <1>6 DEF Next, Time

(* InFlightIsComputed for any number of clients and computations: whoever     *)
(* joins a computation in get_or_compute joins one that has an owner.         *)
THEOREM FlightsHaveOwners == Spec => []InFlightIsComputed
<1>1. Init => TypeOK /\ InFlightIsComputed
  BY TypesInit DEF Init, InFlightIsComputed
<1>2. TypeOK /\ InFlightIsComputed /\ [Next]_vars => (TypeOK /\ InFlightIsComputed)'
  BY TypesInductive, InFlightInductive
<1> QED
  BY <1>1, <1>2, PTL DEF Spec

-----------------------------------------------------------------------------
(* What get_or_compute counts on: the computations that run are those that    *)
(* were dropped as stuck and the one that _in_flight has an entry for.        *)
OneMoreInFlight ==
    Cardinality(Computing) <= cleaned + (IF in_flight = None THEN 0 ELSE 1)

LEMMA ComputingFinite == IsFiniteSet(Computing) /\ Cardinality(Computing) \in Nat
  BY ClientsAssumption, FS_Subset, FS_CardinalityType DEF Computing

(* Nobody but the owner of a computation begins or ends it.                   *)
LEMMA OneMoreInductive ==
    ASSUME TypeOK, OneMoreInFlight, [Next]_vars
    PROVE  OneMoreInFlight'
<1> USE BoundsAssumption
<1> USE DEF TypeOK, Flights, None, OneMoreInFlight
<1>0. IsFiniteSet(Computing) /\ Cardinality(Computing) \in Nat
  BY ComputingFinite
<1>1. ASSUME NEW c \in Clients, Ask(c) PROVE OneMoreInFlight'
  <2>1. CASE GetCached(c)
    <3>1. Computing' = Computing BY <2>1 DEF GetCached, Computing
    <3> QED BY <1>0, <2>1, <3>1 DEF GetCached, Stuck, Overdue
  <2>2. CASE StartCompute(c)
    <3>1. Computing' = Computing \cup {c} /\ c \notin Computing
      BY <2>2 DEF StartCompute, Computing
    <3>2. Cardinality(Computing') = Cardinality(Computing) + 1
      BY <1>0, <3>1, FS_AddElement
    <3>3. in_flight' \in Flights
      BY <2>2 DEF StartCompute
    <3> QED BY <1>0, <2>2, <3>2, <3>3 DEF StartCompute, Stuck, Overdue
  <2>3. CASE JoinFlight(c)
    <3>1. Computing' = Computing BY <2>3 DEF JoinFlight, Computing
    <3> QED BY <1>0, <2>3, <3>1 DEF JoinFlight
  <2> QED BY <1>1, <2>1, <2>2, <2>3 DEF Ask
<1>2. ASSUME NEW c \in Clients, Compute(c) PROVE OneMoreInFlight'
  <2>1. Computing' = Computing \ {c} /\ c \in Computing
    BY <1>2 DEF Compute, Return, TimeOut, Fail, Leave, Computing
  <2>2. Cardinality(Computing') = Cardinality(Computing) - 1
    BY <1>0, <2>1, FS_RemoveElement
  <2>3. in_flight' = None /\ UNCHANGED cleaned
    BY <1>2 DEF Compute, Return, TimeOut, Fail
  <2> QED BY <1>0, <2>2, <2>3
<1>3. ASSUME NEW c \in Clients, Wait(c) \/ CancelWait(c) PROVE OneMoreInFlight'
  <2>1. Computing' = Computing /\ UNCHANGED <<in_flight, cleaned>>
    BY <1>3 DEF Wait, Wake, StopWaiting, CancelWait, Leave, Computing
  <2> QED BY <2>1
<1>4. ASSUME Peek \/ Time \/ FileChanges \/ UNCHANGED vars PROVE OneMoreInFlight'
  <2>1. UNCHANGED <<pc, in_flight, cleaned>>
    BY <1>4 DEF Peek, Time, GraceEnds, CleanupComesDue, FileAges, FileChanges, FlightAges, vars
  <2> QED BY <2>1 DEF Computing
<1>5. ASSUME Restart PROVE OneMoreInFlight'
  <2>1. Computing' = {} /\ in_flight' = None /\ UNCHANGED cleaned
    BY <1>5 DEF Restart, Computing
  <2> QED BY <2>1, FS_EmptySet
<1> QED
  BY <1>1, <1>2, <1>3, <1>4, <1>5 DEF Next

(* StuckCostsOne for any number of clients and computations: get_or_compute   *)
(* and the clean-up let one computation run besides those dropped as stuck.   *)
THEOREM OneFlightAtATime == Spec => []StuckCostsOne
<1>1. Init => TypeOK /\ OneMoreInFlight
  <2> SUFFICES ASSUME Init PROVE OneMoreInFlight
    BY TypesInit
  <2>1. Computing = {} BY DEF Init, Computing
  <2> QED BY <2>1, FS_EmptySet DEF Init, OneMoreInFlight, None
<1>2. TypeOK /\ OneMoreInFlight /\ [Next]_vars => (TypeOK /\ OneMoreInFlight)'
  BY TypesInductive, OneMoreInductive
<1>3. TypeOK /\ OneMoreInFlight => StuckCostsOne
  BY ComputingFinite DEF TypeOK, OneMoreInFlight, StuckCostsOne, None
<1> QED
  BY <1>1, <1>2, <1>3, PTL DEF Spec
=============================================================================
