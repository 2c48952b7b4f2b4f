SPECIFICATION FairSpec
CONSTANTS
  publisher = publisher
  other = other
  Nodes <- MCNodes
  Home = publisher
  Listeners = {l1, l2}
  Slots = {d1}
  MaxFaults = 2
  Timely = TRUE
  Nil = Nil
INVARIANTS
  CompletedMeansHandled
  NoDoubleExecution
PROPERTIES
  CompletedIsFinal
  Delivered
CHECK_DEADLOCK FALSE
