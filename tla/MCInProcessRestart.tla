------------------------- MODULE MCInProcessRestart -------------------------
EXTENDS InProcessProperties
=============================================================================
