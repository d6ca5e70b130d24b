CONSTANTS
  MoodMin <- MCMoodMin
  MoodMax = 2
  Step <- MCStep
  MaxClock = 1
  MaxBoots = 2
  WriteFails = TRUE
  ReadFails = TRUE
  SlowDrain = TRUE
SPECIFICATION Spec
INVARIANTS CleanExitDurable
PROPERTIES TouchKept MoodReachesDisk
CHECK_DEADLOCK FALSE
