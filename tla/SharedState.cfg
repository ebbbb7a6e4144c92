SPECIFICATION Spec
CONSTANTS
  SetupFaults = {"look", "call", "undo", "crash"}
  Writers = {1, 2, 3, 4}
  Scope <- ScopeOf
  MaxServers = 2
  StateFaults = {"io", "crash", "garbage"}
  Sessions = {1, 2, 3}
  Past = {3}
  Project <- ProjectOf
  MaxSessions = 2
  MaxBytes = 3
  MaxTotalSessions = 2
  MaxTotalBytes = 5
  MaxAge = 4
  MaxEvents = 1
  MaxClock = 6
  StoreFaults = {"append", "io", "crash"}
  Transport = {usb, wifi}
  First = usb
  Port = {metro, api}
  Wanted = Wanted
  Foreign = Foreign
  Free = Free
  CleanupPorts = TRUE
  PortFaults = {"fail", "lateAdd", "lateRestore"}
  Others = {"add", "rebind", "remove", "replug"}
  MaxPortEvents = 4
INVARIANTS SetupIsAtomic FinishedIsComplete PruningKeepsUp NothingLeaks
PROPERTIES OthersAreKept OnlyLimitsRemove
CHECK_DEADLOCK FALSE
