CONSTANTS
  Fanout = 3
  PoolSize = 7
  Frames = {5, 6}
  LoadPage = 2
  MapSet = {3, 4, 6, 9, 12}
  UnmapSet = {3, 9}
SPECIFICATION Spec
INVARIANTS
  TypeOK
  SoundUntilFreed

  
