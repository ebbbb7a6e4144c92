CONSTANTS
  Options <- MixedOptions
  Failures = {"adb", "hook", "readiness", "launch", "bridge", "cleanup"}
  Part = {"device"}
  Enabled = TRUE
  MaxAttempts = 2
  InitialDelay = 1
  MaxDelay = 2
  TotalTimeout = 2
  MaxChecks = 1
SPECIFICATION FairSpec
INVARIANTS HonestOutcome NothingLeftBehind SessionFollowsWatcher
PROPERTIES ReadyIsHonest SessionEnds
CHECK_DEADLOCK FALSE
