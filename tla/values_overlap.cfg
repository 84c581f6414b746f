SPECIFICATION Spec
CONSTANTS
  Params = {p1, p2}
  Values = {v0, v1}
  Initial = v0
  NoParam = NoParam
  NoValue = NoValue
  Overlap = TRUE
  Restores = TRUE
  MaxQueue = 2
  MaxCount = 2
SYMMETRY Interchangeable
INVARIANTS
  TypeOK
  Agree
PROPERTIES
  CountsLostByOverwriting
  NoticesLostByClearing
CHECK_DEADLOCK FALSE
