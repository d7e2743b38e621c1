CONSTANTS
  Fanout = 3
  PoolSize = 7
  Frames = {}
  LoadPage = 2
  MapSet = {}
  UnmapSet = {}
  WordBits = 8
  IntBits = 4
  StartPage = 3
  PhysSize = 8
  VirtStart = 6
  VirtEnd = 11
  MaxPages = 4
  Counts = {1, 2, 4}
  AllocFlags = {{0}}
SPECIFICATION MemSpec
INVARIANT FramesApart
