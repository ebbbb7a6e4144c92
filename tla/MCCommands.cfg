SPECIFICATION Spec
CONSTANTS
  None = None
  Faults = {"fail", "late", "lie", "signal"}
  Services <- MCServices
  MaxLines = 4
  ProviderFileLimit = 2
  Connection = {"m1", "m2"}
  Plans <- MCPlans
  Inventories <- MCInventories
  Advertised <- MCAdvertised
  Views = {"x", "y"}
  MaxSnapshots = 1
  MaxChanges = 2
  McpFaults = {"config", "fail", "busy"}
INVARIANTS DoneIsVerified ResultIsVerified InterruptionIsNotSuccess NoLogGap NothingTemporaryLeft MutationsAreExclusive ComparesLikeWithLike
PROPERTIES OnlyWhatWasAsked
CHECK_DEADLOCK FALSE
