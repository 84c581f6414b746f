SPECIFICATION Spec
CONSTANTS
  Ids = {i1, i2, i3}
  Names = {n1, n2}
  PChunks = {c1, c2}
  HChunks = {h1, h2}
  NoId = NoId
  NoChunk = NoChunk
  Env = {"removes", "sets", "rt"}
  MaxQueue = 2
SYMMETRY Interchangeable
INVARIANTS
  TypeOK
  LinkedOnce
  HeldIsCurrent
PROPERTIES
  LiveIsReached
CHECK_DEADLOCK FALSE
