CONSTANTS
  Turn = {t1, t2}
  MaxConns = 2
  None = none
  Closer = closer
SPECIFICATION Spec
INVARIANTS TypeOK OwnResult OneLiveChild
PROPERTY TurnReturns
CHECK_DEADLOCK FALSE
