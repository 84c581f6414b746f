SPECIFICATION Spec
CONSTANTS
  DataMin = 1024
  DataSub = 100
  HandleSize = 8
  WordBits = 64
  MaxSize = 4096
  Plugins = {l1, l2}
  NoPlugin = NoPlugin
  Sizes = {916, 917, 3988, 3989}
  Chunks = {c1, c2}
SYMMETRY Interchangeable
INVARIANTS
  TypeOK
  NothingLeftBehind
  PointersLive
  ChunksComeHome
  SmallestPoolServes
  RealtimeNeverSleeps
