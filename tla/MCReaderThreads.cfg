SPECIFICATION FairReaderSpec
CONSTANTS
  MaxAttempts = 3
  AutoReconnect = TRUE
  MaxLosses = 3
  MaxCalls = 5
CHECK_DEADLOCK FALSE
INVARIANTS ReconnectingExact
PROPERTIES StopReturns ReconnectEnds
