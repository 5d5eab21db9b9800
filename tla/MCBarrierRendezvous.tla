------------------------ MODULE MCBarrierRendezvous ------------------------
EXTENDS BarrierRefinement
MCInfra == [n \in Launchers |-> n]
MCAddr == [n \in Launchers |-> n]
MCDomain == [n \in Launchers |-> "rack"]
MCGroup == [n \in Launchers |-> IF n = 3 THEN "task1" ELSE "task0"]
\* An unhealthy launcher and one that may have joined with it are one group.
MCGroupOfTwo == [n \in Launchers |-> IF n = 1 THEN "task0" ELSE "task1"]
=============================================================================
