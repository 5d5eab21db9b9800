----------------------- MODULE ElasticAgentProperties -----------------------
(* What the agents promise the job and its scheduler.                         *)
EXTENDS ElasticAgent

(* Every variable stays in its range.                                         *)
TypeOK ==
    /\ pc \in [Launchers -> {"new", "waiting", "joined", "monitoring", "opening",
                             "stopping", "failing", "exitBarrier", "exited"}]
    /\ round \in [Launchers -> Rounds] /\ started \in [Launchers -> Rounds]
    /\ remaining \in [Launchers -> -1 .. MaxRestarts]
    /\ exit \in [Launchers -> {"none", "0", "1", "no_restart", "lost"}]
    /\ workers \in [Launchers -> {"none", "healthy", "failed", "succeeded"}]
    /\ last \in [Launchers -> 0 .. MaxCheckpoints]
    /\ count \in [Launchers -> Nat]
    /\ checkpoint \in 0 .. MaxCheckpoints /\ stop \in BOOLEAN
    /\ unhealthy \in 0 .. MaxLosses /\ losses \in 0 .. MaxLosses

(* A launcher that runs workers has paid one restart for every earlier cycle  *)
(* it ran them in, whoever noticed the failure and however many launchers did *)
(* so at once; the cycles that were over when it started count, those it      *)
(* stood by in are free.                                                      *)
CyclesRun(n, bound) == {r \in Rounds : started[n] <= r /\ r < bound /\ n \in DOMAIN members[r]}

BudgetIsPaidOnce ==
    \A n \in Launchers :
        pc[n] = "monitoring" =>
            remaining[n] = MaxRestarts - started[n] - Cardinality(CyclesRun(n, round[n]))

(* launcher.py:472: _remaining_restarts is "how many more restarts are        *)
(* allowed after current cycle fails" and "equals max_restarts -              *)
(* cycle_number".                                                             *)
RemainingFollowsTheCycle ==
    \A n \in Launchers :
        pc[n] = "monitoring" => remaining[n] = MaxRestarts - round[n]

(* A launcher concludes that there is no progress exactly when, at the ends   *)
(* of so many cycles in a row, it found the iteration it had known before: a  *)
(* cycle after which the file could not be read neither adds to them nor      *)
(* hides them, now or by the next comparison, and progress in between does    *)
(* hide them (TrainingProgressTracker.analyze_previous_cycle).                *)
NoProgressIsReal ==
    MaxNoProgressCycles > 0 =>
        \A n \in Launchers :
            ShouldTerminateEarly(count[n]) <=>
                /\ Len(readings[n]) > MaxNoProgressCycles
                /\ \A i \in 1 .. MaxNoProgressCycles : readings[n][i] = readings[n][i + 1]

(* ft_rendezvous_barrier.py:1407: "opening the next round makes peers'        *)
(* existing is_next_round_open() poll fire, so no node needs a new            *)
(* steady-state poll to learn about the stop": once the decision has been     *)
(* broadcast, every launcher that runs workers polls a round that is open.    *)
NoRestartReachesEveryPoll ==
    ended \in NoRestartReasons /\ (\A m \in Launchers : pc[m] # "stopping")
        => \A n \in Launchers : pc[n] = "monitoring" => NextRoundOpen(n)

(* usage_guide.rst:336: "every launcher in the job exits with                 *)
(* --ft-no-restart-exit-code [...] instead of the generic failure code 1",    *)
(* here of the launchers that end after the decision was recorded.            *)
OneExitCode ==
    [][\A n \in Launchers :
          ended \in NoRestartReasons /\ exit[n] = "none" => exit'[n] # "1"]_vars

(* utils.py:39: "graceful" describes how the job ended.  A launcher reports    *)
(* success, as a spare that finds the job ended so does, only if the workers  *)
(* of some launcher have succeeded.                                           *)
SuccessIsEarned ==
    [][\A n \in Launchers :
          exit[n] = "none" /\ exit'[n] = "0" =>
             \E m \in Launchers : pc[m] = "exitBarrier" \/ exit[m] = "0"]_vars
=============================================================================
