CONSTANTS
  MaxMsg = 2
  MaxPing = 2
  MaxPanics = 2
  InCap = 1
  OutCap = 1
  Setups <- MCSetups
SPECIFICATION Spec
INVARIANTS TypeOK AnswersInOrder HistoryPaired WindowComplete
PROPERTIES EveryMessageAnswered ShutdownCompletes
CHECK_DEADLOCK FALSE
