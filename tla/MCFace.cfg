CONSTANTS
  DisplayCap = 2
  MaxBlinks = 4
SPECIFICATION Spec
INVARIANT ReopenSent
PROPERTIES EyesReopen DrainCompletes
CHECK_DEADLOCK FALSE
