SPECIFICATION FairSpec
CONSTANTS
  w1 = w1
  w2 = w2
  m1 = m1
  m2 = m2
  Workers = {w1, w2}
  Manuals = {m1, m2}
  MaxRetries = 2
  MaxFaults = 2
  Timely = TRUE
  Gone = Gone
INVARIANTS
  OneRetryAtATime
  RecoveredStaysRecovered
PROPERTY
  RetryEnds
CHECK_DEADLOCK FALSE
