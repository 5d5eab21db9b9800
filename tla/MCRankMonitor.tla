--------------------------- MODULE MCRankMonitor ---------------------------
EXTENDS RankMonitorProperties
MCGiven == [initial |-> NoTimeout, subsequent |-> 1, out |-> 1, warmup |-> 1,
            section |-> [s \in Sections |-> 1]]
MCCalculated == [initial |-> 1, subsequent |-> 0, out |-> 0, warmup |-> 1,
                 section |-> [s \in Sections |-> 0]]
\* A section without a timeout of its own, and no use of heartbeats.
MCOpenEnded == [initial |-> NoTimeout, subsequent |-> NoTimeout, out |-> 1, warmup |-> NoTimeout,
                section |-> [s \in Sections |-> IF s = "step" THEN 1 ELSE NoTimeout]]
=============================================================================
