SPECIFICATION FairSpec
CONSTANTS
  ds1 = ds1
  ds2 = ds2
  closer = closer
  c1 = c1
  c2 = c2
  c3 = c3
  DataSources = {ds1, ds2}
  Closers = {closer}
  Components <- MCComponents
  Order <- MCOrder
  Name <- MCName
  Hooks <- MCHooks
  Requests = {q1, q2}
  Callers = {test}
  MaxTasks = 2
  Nobody = Nobody
INVARIANTS
  DatabaseOutlivesUsers
  TeardownComplete
PROPERTY StopsOnSignal
CHECK_DEADLOCK FALSE
