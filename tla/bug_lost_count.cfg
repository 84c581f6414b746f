SPECIFICATION Spec
CONSTANTS
  Params = {p1, p2}
  Values = {v0, v1}
  Initial = v0
  NoParam = NoParam
  NoValue = NoValue
  Overlap = TRUE
  Restores = FALSE
  MaxQueue = 1
  MaxCount = 2
SYMMETRY Interchangeable
INVARIANTS
  NoticeScheduled
CHECK_DEADLOCK FALSE
