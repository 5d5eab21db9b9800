------------------------- MODULE CoalescerProperties -------------------------
(* What is to be true of the request coalescer; see RequestCoalescer. *)
EXTENDS RequestCoalescer

Computing == {c \in Clients : pc[c] = "computing"}

\* "Only one LLM/analysis run per cache key at a time" (coalescing/__init__.py:6).
SingleFlight == Cardinality(Computing) <= 1

\* Every computation that was dropped as stuck, but still runs, costs one more at the
\* same time and no more, although it takes its successor's entry of _in_flight away
\* when it ends (get_or_compute, _delete_expired_keys, _do_compute).
StuckCostsOne == Cardinality(Computing) <= 1 + cleaned

\* Whoever finds a computation in flight waits for one that has an owner: no exit of
\* _do_compute and no cleanup leaves an entry whose future nobody will complete, so
\* that nothing is ever cleaned up as leaked.
InFlightIsComputed ==
    in_flight # None =>
        /\ future[in_flight] \in Pending
        /\ \E c \in Clients : pc[c] = "computing" /\ flight[c] = in_flight

\* What a client is given without a computation is the analysis of the file as it is,
\* although the file may change before, during and after the analysis (_do_compute);
\* except an entry whose metadata could not be read, and one in its grace period whose
\* metadata are not those of the file (_get_valid_cached_result_unsafe).
ValidEntryIsExact ==
    cache.result = "result" /\ Hit(cache) =>
        \/ cache.content = file
        \/ cache.mtime = None
        \/ cache.young /\ cache.mtime # file

\* A waiting client is answered, or gives up, even if the computation hangs for ever
\* (_wait_for_result).
WaitersAreReleased ==
    \A c \in Clients : pc[c] = "waiting" ~> pc[c] # "waiting"
=============================================================================
