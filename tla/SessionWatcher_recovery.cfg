CONSTANTS
  Part = {"target", "ports"}
  Enabled = TRUE
  MaxAttempts = 3
  InitialDelay = 1
  MaxDelay = 2
  TotalTimeout = 6
  MaxChecks = 4
SPECIFICATION FairSpec
INVARIANTS NeverThrows ReadyIsVerified
PROPERTIES CancellationIsSilent EpisodeEnds ImplementsBoundedRepair
CHECK_DEADLOCK FALSE
