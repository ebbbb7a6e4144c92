CONSTANTS
  p1 = p1
  p2 = p2
  p3 = p3
  Free = Free
  Proc <- ThreeProcesses
  Host <- OneHost
  TTL = 2
  WaitTimeout = 1
  Faults = {"io"}
  MaxClock = 3
  MaxCalls = 1
SYMMETRY Symmetry
SPECIFICATION Spec
INVARIANTS HolderIsRecorded NeverUsurped
PROPERTIES RemovesOnlyOwnDirectory ImplementsExclusiveTarget
CHECK_DEADLOCK FALSE
