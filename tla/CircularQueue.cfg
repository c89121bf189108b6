SPECIFICATION Spec
CONSTANTS
  e1 = e1
  e2 = e2
  Capacities = {1, 2, 3}
  Entries = {e1, e2}
  Indices <- Positions
  MaxAllocated = 6
  Garbage = Garbage
  NULL = NULL
CHECK_DEADLOCK FALSE
PROPERTY FirstIsPopped
