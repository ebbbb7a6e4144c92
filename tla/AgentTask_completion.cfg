CONSTANTS
  c1 = c1
  c2 = c2
  Client <- TwoClients
  MaxPolls = 1
  Faults = {}
  RunnerRequests <- NoRunner
SPECIFICATION MCSpec
PROPERTIES CompletionIsKept
CHECK_DEADLOCK FALSE
