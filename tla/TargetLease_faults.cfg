CONSTANTS
  p1 = p1
  p2 = p2
  p3 = p3
  Free = Free
  Proc <- TwoProcesses
  Host <- OneHost
  TTL = 2
  WaitTimeout = 0
  Faults = {"io", "crash", "expiry", "lateHeartbeat"}
  MaxClock = 2
  MaxCalls = 3
SYMMETRY Symmetry
SPECIFICATION Spec
INVARIANTS ExclusionUnlessUsurped
CHECK_DEADLOCK FALSE
