-------------------------- MODULE RendezvousRounds --------------------------
(* What a rendezvous promises the agents that call it, with no store, no slot *)
(* and no host in sight: rounds are opened one after the other; each is       *)
(* closed once, with a world of MinNodes launchers that have different group  *)
(* ranks; a launcher runs workers under the rank the world of a closed round  *)
(* gives it, in rounds that only grow; and the first reason to end the job is *)
(* the reason.                                                                *)
EXTENDS Integers, FiniteSets, Functions

CONSTANTS Launchers, MinNodes, Rounds, Reasons

VARIABLES
    phase,     \* per round: "absent", "open", "closed"
    members,   \* per round: the world, launcher -> group rank
    entered,   \* the last round in which a launcher ran workers, or -1
    running,   \* the rank under which a launcher runs workers, or -1
    ended      \* the reason that ends the job, or "none"

rounds == <<phase, members, entered, running, ended>>

Idle == -1
Ranks == 0 .. MinNodes - 1
NoWorld == [n \in {} |-> Idle]

Worlds == UNION {Bijection(W, Ranks) : W \in {V \in SUBSET Launchers : Cardinality(V) = MinNodes}}

RoundsInit ==
    /\ phase \in [Rounds -> {"absent", "open"}]
    /\ \A r \in Rounds : phase[r] = "open" => r = 0
    /\ members = [r \in Rounds |-> NoWorld]
    /\ entered = [n \in Launchers |-> -1]
    /\ running = [n \in Launchers |-> Idle]
    /\ ended = "none"

(* A round follows a closed one; a job that ends may open one to say so.      *)
OpenRound(r) ==
    /\ phase[r] = "absent"
    /\ r = 0 \/ phase[r - 1] = "closed" \/ ended # "none"
    /\ phase' = [phase EXCEPT ![r] = "open"]
    /\ UNCHANGED <<members, entered, running, ended>>

CloseRound(r) ==
    /\ phase[r] = "open"
    /\ phase' = [phase EXCEPT ![r] = "closed"]
    /\ \E world \in Worlds : members' = [members EXCEPT ![r] = world]
    /\ UNCHANGED <<entered, running, ended>>

Enter(n, r) ==
    /\ phase[r] = "closed" /\ n \in DOMAIN members[r]
    /\ running[n] = Idle /\ entered[n] < r
    /\ running' = [running EXCEPT ![n] = members[r][n]]
    /\ entered' = [entered EXCEPT ![n] = r]
    /\ UNCHANGED <<phase, members, ended>>

EndJob == ended = "none" /\ ended' \in Reasons

(* Workers stop; what stops them may be what ends the job.                    *)
Leave(n) ==
    /\ running[n] # Idle
    /\ running' = [running EXCEPT ![n] = Idle]
    /\ EndJob \/ UNCHANGED ended
    /\ UNCHANGED <<phase, members, entered>>

End == EndJob /\ UNCHANGED <<phase, members, entered, running>>

RoundsNext ==
    \/ \E r \in Rounds : OpenRound(r) \/ CloseRound(r)
    \/ \E n \in Launchers : Leave(n) \/ \E r \in Rounds : Enter(n, r)
    \/ End

RoundsSpec == RoundsInit /\ [][RoundsNext]_rounds
=============================================================================
