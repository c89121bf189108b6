SPECIFICATION FairSpec
CONSTANTS
  c1 = c1
  c2 = c2
  Zero = Zero
  Black = Black
  Cs = {c1}
  Keys <- JobKeys
  MaxKeys = 4
  EVENT_CAPACITY = 4
  def_W = 3
  def_H = 2
  SizeStep = 1
  MaxDim = 3
  def_c = c1
  def_N = 1
  minN = 0
  maxN = 2
  BYTE = 8
  def_chunksize = 2
  ChunkStep = 1
  maxchunksize = 4
  LINK_CAPACITY = 3
  MaxPresses = 1
  MaxResets = 0
CHECK_DEADLOCK FALSE
INVARIANTS
  ComputeFindsIdle
PROPERTIES
  SuccessIsWhole
  ImplementsChunkJob
  ImageCompletes
