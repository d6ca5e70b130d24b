CONSTANTS
  c1 = c1
  c2 = c2
  Convo = {c1, c2}
  N = 3
  MaxTurns = 3
  MaxClock = 2
  MaxSteps = 1
  MaxLosses = 1
SPECIFICATION WindowSpec
INVARIANTS WindowIsLatest NoGapWithinEra PromptPaired
CHECK_DEADLOCK FALSE
