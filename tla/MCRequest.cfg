SPECIFICATION FairSpec
CONSTANTS
  r1 = r1
  r2 = r2
  s1 = s1
  s2 = s2
  Requests = {r1, r2}
  States = {s1, s2}
  PublicPaths <- MCPublicPaths
  Programs <- MCPrograms
  Capacity = 1
  BatchSize = 2
  Nil = Nil
INVARIANTS
  Unwound
  OwnIdentity
  Answered
PROPERTY SpansAreFlushed
CHECK_DEADLOCK FALSE
