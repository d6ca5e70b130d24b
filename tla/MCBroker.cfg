CONSTANTS
  Chain = 3
  MaxRetries = 2
  RetryDelay = 2
  ProviderTimeout = 3
  Deadline = 27
SPECIFICATION BrokerSpec
INVARIANTS WorstCase FallbackInTime
PROPERTIES EndsWithTurn WindsDown CallEnds
CHECK_DEADLOCK FALSE
