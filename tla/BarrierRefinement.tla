------------------------- MODULE BarrierRefinement --------------------------
(* The barrier implements RendezvousRounds.  The keys of a round are reused   *)
(* by the next one, so two history variables keep what the mapping needs: the *)
(* world a round was closed with, and the round a launcher last ran in.       *)
EXTENDS BarrierProperties, Functions

VARIABLES world_of, last_entered

history == <<world_of, last_entered>>

(* The world the keys of round r hold: who has which active rank.             *)
WorldInKeys(r) ==
    [n \in RankedActive(r) |->
        rank_key[CHOOSE k \in Slots : slot_key[k] = [round |-> r, node |-> n]].rank]

HistoryInit ==
    /\ world_of = [r \in Rounds |-> [n \in {} |-> -1]]
    /\ last_entered = [n \in Launchers |-> -1]

HistoryNext ==
    /\ world_of' = [r \in Rounds |->
          IF round_done[r] # "closed" /\ round_done'[r] = "closed"
          THEN WorldInKeys(r) ELSE world_of[r]]
    /\ last_entered' = [n \in Launchers |->
          IF pc[n] # "active" /\ pc'[n] = "active" THEN round[n] ELSE last_entered[n]]

InitWithHistory == Init /\ HistoryInit
NextWithHistory == Next /\ HistoryNext

SpecWithHistory == InitWithHistory /\ [][NextWithHistory]_<<vars, history>>
FairSpecWithHistory == SpecWithHistory /\ Fairness

Promised == INSTANCE RendezvousRounds WITH
    phase   <- round_done,
    members <- world_of,
    entered <- last_entered,
    running <- [n \in Launchers |-> IF pc[n] = "active" THEN rank[n] ELSE -1],
    ended   <- IF IsShutdown THEN shutdown ELSE "none"

(* Every step of the barrier is a step of RendezvousRounds or none: no closed *)
(* round is opened again, a launcher runs under the rank its round was closed *)
(* with although the keys have been reused, it never runs in the same round   *)
(* twice, and the first reason stays.                                         *)
ImplementsRounds == Promised!RoundsSpec
=============================================================================
