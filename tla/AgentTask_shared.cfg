CONSTANTS
  c1 = c1
  c2 = c2
  Client <- TwoClients
  MaxPolls = 1
  Faults = {"disk", "kill", "crash", "late", "sleep"}
  RunnerRequests <- OneRequest
SPECIFICATION MCFairSpec
INVARIANTS TerminalMeansOver AskedToEndIsStruck
PROPERTIES SignalledStopEnds GoneIsNoticed
CHECK_DEADLOCK FALSE
