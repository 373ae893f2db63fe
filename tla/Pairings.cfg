SPECIFICATION Spec
INVARIANTS PairingIsBilinear LinesMeetPoints RefusedOnlyAtInfinity
CHECK_DEADLOCK FALSE
