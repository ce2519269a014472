SPECIFICATION FairSpec
CONSTANTS
  s1 = s1
  s2 = s2
  dirA = dirA
  dirB = dirB
  Sups = {s1, s2}
  Daemons = {d1, d2}
  NoChild = NoChild
  Dirs = {dirA, dirB}
  Ports = {1, 2}
  Scenarios <- MCScenarios
  Stale = 2
  Grace = 2
  Hang = 2
  LoopWindow = 2
  LoopMax = 2
  HaltFor = 3
INVARIANT TypeOK
INVARIANT OneTrader
INVARIANT StartsBounded
PROPERTY HungKilled
PROPERTY HealthyKept
PROPERTY Restored
