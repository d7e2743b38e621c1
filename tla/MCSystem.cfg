CONSTANTS
  Fanout = 4
  PoolSize = 8
  LoadPage = 2
  Frames = {}
  MapSet = {}
  UnmapSet = {}
  PageUnits = 4
  PoolUnit = 2
  LoaderPool = {0, 1, 2, 3, 4}
  StackPage = 7
  PaeEntries = 2
  Space32 = 32
  Byte = 4
  ModuleLists <- MCModuleLists
  Kernels <- MCKernels
  LoaderBytes <- MCLoaderBytes
  WordBits = 16
  IntBits = 8
  StartPage = 3
  PhysSize = 18
  VirtStart = 4
  VirtEnd = 17
  MaxPages = 3
  Counts = {0, 1, 3, 4}
  AllocFlags = {{0}}
  HeapPages = 2
SPECIFICATION SysSpec
INVARIANTS
  HandsOver
  KernelInPlace
  CodeStaysMapped
  HeapKeepsItsPages
  BitmapExact
  StackOutOfReach
  EnteredNeverStops
PROPERTIES
  KernelComesUp
  MemoryCallsReturn
