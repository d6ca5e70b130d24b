CONSTANTS
  N = 3
  MaxFails = 2
  MayHang = TRUE
SPECIFICATION Spec
INVARIANTS LaterStoppedFirst
PROPERTIES SoulSurvives ShutdownEnds ImplementsDrain
CHECK_DEADLOCK FALSE
