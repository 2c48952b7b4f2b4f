SPECIFICATION Spec
CONSTANTS
  publisher = publisher
  other = other
  Nodes <- MCNodes
  Home = publisher
  Listeners = {l1, l2}
  Slots = {d1, d2}
  MaxFaults = 1
  Timely = FALSE
  Nil = Nil
INVARIANT
  NothingLost
CHECK_DEADLOCK FALSE
