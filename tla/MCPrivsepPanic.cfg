CONSTANTS
  Turn = {t1, t2}
  MaxConns = 2
  None = none
  Closer = closer
SPECIFICATION Spec
INVARIANT NeverPanics
CHECK_DEADLOCK FALSE
