\* Three requests, one admitted per window, locked from the second attempt.
CONSTANTS
  c1 = c1
  c2 = c2
  c3 = c3
  Calls <- ThreeCalls
  Starts <- SomeStarts
  Max = 1
  LockAt = 2
  FailThreshold = 2
  RecoverPings = 2
  MaxTroubles = 1
  MaxWindows = 1
  MaxDeaths = 1
SPECIFICATION FairSpec
INVARIANTS
  AccountsTypeOK
PROPERTIES
  SignInIsGuarded
  GateOpensAfterPings
  GateSettles
CHECK_DEADLOCK FALSE
