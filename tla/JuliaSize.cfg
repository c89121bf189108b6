SPECIFICATION UserSpec
CONSTANTS
  c1 = c1
  c2 = c2
  Zero = Zero
  Black = Black
  Cs = {c1}
  Keys <- BothKeys
  MaxKeys = 7
  EVENT_CAPACITY = 3
  def_W = 3
  def_H = 1
  SizeStep = 2
  MaxDim = 7
  def_c = c1
  def_N = 1
  minN = 0
  maxN = 2
  BYTE = 4
  def_chunksize = 2
  ChunkStep = 1
  maxchunksize = 3
  LINK_CAPACITY = 2
  MaxPresses = 1
  MaxResets = 0
  MaxAborting = 5
  MaxResizing = 7
CHECK_DEADLOCK FALSE
INVARIANTS
  BufferFits
  PaintedInPlace
