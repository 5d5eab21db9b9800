--------------------------- MODULE MCElasticAgent ---------------------------
EXTENDS ElasticAgentProperties, TLC

MCRounds == 0 .. MaxRestarts + 2
MCReasons == {"graceful", "failure"} \cup NoRestartReasons

(* The launchers that do not host the store are alike.                        *)
MCSymmetry == Permutations(Launchers \ {StoreHost})

(* Bound: the store host takes part in every world, under the first rank.     *)
HostInEveryWorld ==
    \A r \in Rounds :
        phase[r] = "closed" => StoreHost \in DOMAIN members[r] /\ members[r][StoreHost] = 0
=============================================================================
