------------------------ MODULE InProcessProperties ------------------------
(***************************************************************************)
(* What the in-process wrapper promises to the function it restarts.       *)
(***************************************************************************)
EXTENDS InProcessRestart

States == [iteration : Iterations, rank : Ranks, world : 1 .. World]

InFunction == {"run", "hung", "stuck", "raised"}
\* Labels of a rank that is at work in its iteration.
Working == InFunction \cup {"complete", "restart"}

Messages == [kind : {"start"}, state : States] \cup [kind : {"disable", "record"}]

(* Every variable holds a value of its kind. *)
TypeOK ==
    /\ store \in [Iterations ->
         [interrupted : BOOLEAN, completed : BOOLEAN, terminated : SUBSET Ranks,
          owner : [Ranks -> Ranks \cup {NoOne}], finished : 0 .. World,
          all_finished : BOOLEAN, arrived : SUBSET Ranks, released : BOOLEAN]]
    /\ ended \subseteq Ranks \cup {NoOne}
    /\ main \in [Ranks -> Working \cup {"barrier", "exit", "recorded", "leaving", "ending",
                                        "hosting", "gone", "failed", "dead"}]
    /\ state \in [Ranks -> States]
    /\ monitor \in [Ranks -> {"on", "mourning", "recorded", "leaving", "over"}]
    /\ view \in [Ranks -> States \cup {NoView}]
    /\ watching \in [Ranks -> BOOLEAN]
    /\ queue \in [Ranks -> Seq(Messages)]
    /\ faults \in 0 .. MaxFaults

Discarded(i) == state[i].rank \in Here(i).terminated

(* wrap.py: "the wrapper ensures the function restarts simultaneously on all
   healthy ranks".  No rank runs an iteration while another, that is not being
   terminated, is still in the function of an earlier one. *)
RestartIsSynchronized ==
    \A i, j \in Ranks :
        main[i] \in Working /\ main[j] \in Working /\ Iter(j) < Iter(i) => Discarded(j)

(* usage_guide.rst: "restarted with a consecutive sequence of integer rank
   indices, from 0 to WORLD_SIZE - 1".  The ranks of one iteration agree on its
   world size, and have different ranks below it. *)
OneWorld ==
    \A i, j \in Ranks :
        main[i] \in Working /\ main[j] \in Working /\ Iter(i) = Iter(j) =>
            /\ state[i].rank < state[i].world /\ state[i].world = state[j].world
            /\ i # j => state[i].rank # state[j].rank

(* wrap.py: restarts continue "until all ranks complete execution successfully".
   When the completion barrier lets the ranks of an iteration go, and none of them
   was terminated, all have finished the function and none of them restarts. *)
CompletionIsFinal ==
    \A k \in Iterations : store[k].all_finished /\ store[k].terminated = {} =>
        \A i \in Ranks : /\ Iter(i) <= k
                         /\ Iter(i) = k => main[i] \notin InFunction \cup {"restart", "barrier"}

(* Only a rank that is dead or has given up is recorded as terminated: the faults of
   one rank cost nobody else its place, in whatever iteration they are recorded. *)
OnlyTheFaultyAreTerminated ==
    \A k \in Iterations : \A r \in store[k].terminated :
        LET i == store[k].owner[r] IN
        i # NoOne /\ main[i] \in {"dead", "recorded", "leaving", "ending", "hosting", "gone", "failed"}

-----------------------------------------------------------------------------
\* Restarts and faults are bounded, so that what always happens in the end is
\* stated as what holds from some time on.

(* A rank that raises, hangs, dies or disappears in an iteration is noticed by all
   the others: none of them stays in the function of that iteration. *)
FailureIsNoticed ==
    <>[] \A i, j \in Ranks :
        Iter(i) = Iter(j) /\ main[i] \in {"raised", "hung", "stuck", "dead"}
            => main[j] \notin InFunction

(* A rank that waits at an iteration barrier gets past it, without a timeout,
   whoever has died or returned: somebody arrives for every rank of that world. *)
BarrierReleases == <>[] \A i \in Ranks : main[i] \notin {"barrier", "leaving"}

(* The store host, waiting at the termination barrier without a timeout, is let go
   when no rank is at work any more: those that return, give up, are killed or hang
   are all counted there.  (Not so when a sibling has spoilt the barrier.) *)
HostIsReleased ==
    <>[] \A i \in Critical :
        main[i] = "hosting" => Spoilt \/ \E j \in Ranks : main[j] = "run"
=============================================================================
