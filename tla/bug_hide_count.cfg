SPECIFICATION Spec
CONSTANTS
  Groups = {g0, g1}
  Params = {p1}
  Root = g0
  NoGroup = NoGroup
  Env = {"hides", "late_groups"}
  MaxCount = 6
SYMMETRY Interchangeable
INVARIANTS
  DrainAssert
CHECK_DEADLOCK FALSE
