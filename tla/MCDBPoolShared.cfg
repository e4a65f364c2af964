SPECIFICATION FairSpec
CONSTANTS
  t1 = t1  t2 = t2
  c1 = c1  c2 = c2  c3 = c3  c4 = c4  c5 = c5
  Threads <- TwoThreads
  Conns <- FiveConns
  MaxConnections = 2
  InitialConnections = 2
  CallDepth = 2
  HeldMayStay = FALSE
  MaxFaults = 1
  MaxThrows = 1
INVARIANTS TypeOK Exclusive NoWorkOnIdle InUseExact LimitWithoutFaults
PROPERTIES LeaseSpec AcquireReturns
