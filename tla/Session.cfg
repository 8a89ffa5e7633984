SPECIFICATION FairSpec
CONSTANTS
  MaxAsks = 1
  MaxFaults = 2
  MaxRefreshes = 2
  MaxPolls = 2
  MaxRetries = 1
CHECK_DEADLOCK FALSE
INVARIANTS
  OneRefresh
  LogoutIsDeserved
  NoFalsePaywall
  PaidIsLetIn
PROPERTY
  SpinnerEnds
