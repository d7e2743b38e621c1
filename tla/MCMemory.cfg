CONSTANTS
  Fanout = 3
  PoolSize = 7
  Frames = {}
  LoadPage = 2
  MapSet = {}
  UnmapSet = {}
  WordBits = 8
  IntBits = 4
  StartPage = 3
  PhysSize = 16
  VirtStart = 6
  VirtEnd = 14
  MaxPages = 4
  Counts = {0, 1, 2, 4, 5}
  AllocFlags = {{0}}
SPECIFICATION MemSpec
INVARIANTS
  MemTypeOK
  BlocksMapped
  FramesOwn
PROPERTIES
  NoFrameTwice
  
  FailsOnlyWhenShared
