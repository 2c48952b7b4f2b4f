SPECIFICATION FairSpec
CONSTANTS
  request = request
  nested = nested
  polled = polled
  Tasks <- MCTasks
  Publisher <- MCPublisher
  Workers = {w1}
  Pools = {p1}
  Stoppers = {s1, s2}
  Capacity = 1
  Policies = {"block", "fallback", "discard", "unknown"}
  External = External
  Poller = Poller
  NoPool = NoPool
  Idle = Idle
  Exited = Exited
INVARIANTS
  TypeOK
  NoSendOnClosedQueue
  DrainedWhenStopped
  DiscardsCounted
  OnlyDiscardDrops
PROPERTIES
  StopReturns
  QueuedTaskRuns
CHECK_DEADLOCK FALSE
