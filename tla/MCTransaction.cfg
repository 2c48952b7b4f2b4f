SPECIFICATION TxSpec
CONSTANTS
  i1 = i1
  i2 = i2
  i3 = i3
  Items = {i1, i2, i3}
  MaxDepth = 4
SYMMETRY MCSymmetry
INVARIANTS
  TypeOK
  EventsMatchWrites
  FailedScopeLeavesNothing
PROPERTY
  DoomedNeverCommits
CHECK_DEADLOCK FALSE
