SPECIFICATION KeysSpec
CONSTANTS
  t1 = t1
  t2 = t2
  Threads = {t1, t2}
  Tokens <- MCTokens
  Config <- MCConfig
  Kids = {"k1", "k2"}
  TTL = 3
  MinInterval = 1
  Timeout = 2
  MaxTime = 5
SYMMETRY MCSymmetry
PROPERTIES
  FetchesSpaced
  RevokedKeyExpires
CHECK_DEADLOCK FALSE
