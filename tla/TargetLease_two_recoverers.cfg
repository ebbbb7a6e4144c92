CONSTANTS
  p1 = p1
  p2 = p2
  p3 = p3
  Free = Free
  Proc <- ThreeProcesses
  Host <- OneHost
  TTL = 2
  WaitTimeout = 0
  Faults = {"crash"}
  MaxClock = 0
  MaxCalls = 1
SPECIFICATION Spec
INVARIANTS MutualExclusion
CHECK_DEADLOCK FALSE
