SPECIFICATION FairSpec
CONSTANTS
  migrate = migrate
  warm = warm
  seed = seed
  sweep = sweep
  report = report
  StartupJobs <- MCStartupJobs
  Critical <- MCCritical
  Priority <- MCPriority
  Jobs = {sweep, report}
  Kind <- MCRestartKind
  Triggered = {report}
  Starters = {a1, a2}
  Stoppers = {s1, s2}
  MaxRuns = 1
  Nil = Nil
INVARIANTS
  CriticalFirst
  NeverPanics
  StoppedIsQuiet
  LoopJobsDoNotOverlap
PROPERTY
  StopReturns
CHECK_DEADLOCK FALSE
