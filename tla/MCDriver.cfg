SPECIFICATION FairSpec
CONSTANTS
  daemon = daemon
  ctl = ctl
  Procs = {daemon, ctl}
  Scenarios <- MCScenarios
  MaxOrders = 4
  MaxOps = 2
  Tokens = {1, 2, 3, 4, 5, 6}
CHECK_DEADLOCK FALSE
INVARIANT TypeOK
INVARIANT SettledTrue
PROPERTY KeepsPromise
PROPERTY Heals
