CONSTANT Turn = {t1, t2, t3}
SPECIFICATION Spec
INVARIANTS TokenMatchesTurn OwnResult
PROPERTIES AdmittedTurnReturns ImplementsGate
CHECK_DEADLOCK FALSE
