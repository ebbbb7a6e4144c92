CONSTANTS
  other = other
  second = second
  avd = avd
  tablet = tablet
  phone = phone
  Nobody = Nobody
  N = 2
  Pools <- MCPools
  Others = {other, second}
  Avds = {avd, tablet}
  Ports = {5554}
  Phones = {phone}
  Wireless = {phone}
  Wants <- MCWants
  Faults = {"environment", "lease", "identity", "avd", "crash", "offline", "deploy", "verifier", "report", "signal"}
SPECIFICATION MCSpec
INVARIANTS SuccessIsVerified LeasedWork NothingSurvives
PROPERTIES NothingStartsAfterFailure StopsOnlyOwn
CHECK_DEADLOCK FALSE
