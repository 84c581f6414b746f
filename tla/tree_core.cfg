SPECIFICATION Spec
CONSTANTS
  Groups = {g0, g1, g2}
  Params = {p1, p2}
  Root = g0
  NoGroup = NoGroup
  Env = {"contexts", "hides", "late_groups", "removes", "removes_groups"}
  MaxCount = 3
SYMMETRY Interchangeable
INVARIANTS
  TypeOK
  CountCovers
  AssertsHold
  LiveShown
  ContextLifetime
CHECK_DEADLOCK FALSE
