SPECIFICATION Homework
CONSTANTS
  LinkedEntries <- Numbers
  Nodes = {n1, n2, n3, n4}
  NULL = NULL
  None = None
  Capacities = {1, 2, 3}
  MaxAllocated = 6
  Entries = {e1, e2}
  Indices <- Positions
  Garbage = Garbage
  LongPress = 3
  NumPeriods = 4
  MaxTimerPresses = 6
  nbr_tasks = 1
  CHUNK_IDS = 3
  MaxKeys = 4
  MaxPresses = 1
  MaxResets = 1
  LINK_CAPACITY = 3
  range = 30
  sqrt = 6
  BYTE = 256
  def_chunksize = 20
  ChunkStep = 10
  maxchunksize = 250
  SMALL_BYTE = 16
  DOUBLE = 2
  STARTUP_MSG_LEN = 3
CHECK_DEADLOCK FALSE
INVARIANTS
  WellLinked
  CellsDistinct
  OnlyWrappedAreLost
  PressCountsOnce
  BeliefEnds
  DistanceIsLeast
  BestIsPrinted
  PrintedIfFound
  FactorsRight
  ValueRight
  ChunksCover
  ReadAsSentOrRefused
PROPERTIES
  ImplementsOrderedQueue
