SPECIFICATION Spec
CONSTANTS
  r1 = r1
  r2 = r2
  r3 = r3
  v1 = v1
  v2 = v2
  v10 = v10
  base = base
  Replicas <- MCReplicas
  Names <- MCNames
  Parts <- MCParts
  Rank <- MCRank
  Coded <- MCCoded
  CodedDown = {}
  Files <- MCFiles
  Sum <- MCSum
  Baseline = base
  Existing = {v1}
  OutOfOrder = FALSE
  Timeout = 1
  MaxWait = 2
  MaxTime = 2
  MaxOps = 3
  MaxCrashes = 1
  MaxStalls = 1
  Nil = Nil
INVARIANTS
  OneMigrator
  SchemaMatchesRecords
CHECK_DEADLOCK FALSE
