CONSTANTS
  p1 = p1
  p2 = p2
  p3 = p3
  Free = Free
  Proc <- TwoProcesses
  Host <- OneHost
  TTL = 2
  WaitTimeout = 1
  Faults = {"crash"}
  MaxClock = 4
  MaxCalls = 2
SPECIFICATION FairSpec
PROPERTIES AcquireReturns DeadOwnerIsReplaced
CHECK_DEADLOCK FALSE
