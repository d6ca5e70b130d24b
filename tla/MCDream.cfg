CONSTANTS
  Key = {k1, k2}
  Note = {n1}
  Ghost = {g1}
  MaxCount = 3
  Threshold = 2
  Window = 2
  MaxOps = 2
  MaxFacts = 2
  MaxCrashes = 2
  MaxStray = 1
  RevertFails = TRUE
SPECIFICATION Spec
INVARIANTS TypeOK PromotedIffFact NoDuplicateFact
PROPERTIES RecurringOffered ImplementsLifecycle
CHECK_DEADLOCK FALSE
