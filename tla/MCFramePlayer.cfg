SPECIFICATION PlaybackSpec
CONSTANTS
  Records = 4
  Torn <- ThirdTorn
  MaxQueue = 3
  MaxCommands = 7
INVARIANTS OneLateFrame
PROPERTIES CloseReturns PlaysOn
CHECK_DEADLOCK FALSE
