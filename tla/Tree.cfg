CONSTANT Setups <- MCSetups
SPECIFICATION Spec
CHECK_DEADLOCK FALSE
INVARIANT TreeIsSound
PROPERTY SparesAreUsed
PROPERTY RepairIsLocal
