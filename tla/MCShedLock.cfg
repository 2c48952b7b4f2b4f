SPECIFICATION LockSpec
CONSTANTS
  r1 = r1
  r2 = r2
  r3 = r3
  podA = podA
  podB = podB
  Runs <- MCRuns
  Hosts <- MCHosts
  Host <- MCHost
  AtMost = 3
  AtLeast = 2
  Overlapping = FALSE
  MaxTime = 7
  NoRow = NoRow
INVARIANTS
  TypeOK
  AtLeastHonoured
  LockRunsOut
PROPERTY
  LeaseSpec
CHECK_DEADLOCK FALSE
