CONSTANTS
  Key = {k1}
  Note = {n1}
  Ghost = {}
  MaxCount = 3
  Threshold = 2
  Window = 2
  MaxOps = 1
  MaxFacts = 2
  MaxCrashes = 1
  MaxStray = 1
  RevertFails = FALSE
SPECIFICATION Spec
INVARIANT PromotedIsDurable
CHECK_DEADLOCK FALSE
