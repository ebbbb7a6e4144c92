CONSTANTS
  Connection = {"m1", "m2"}
  Plans <- MCPlans
  Inventories <- MCInventories
  Advertised <- MCAdvertised
  Views = {"x", "y"}
  MaxSnapshots = 1
  MaxChanges = 2
  McpFaults = {}
SPECIFICATION McpSpec
PROPERTIES OnlySuccessBinds
CHECK_DEADLOCK FALSE
