SPECIFICATION Spec
CONSTANTS
  Groups = {g0, g1}
  Params = {p1, p2}
  Root = g0
  Names = {n1, n2}
  Types = {t1, t2}
  Env = {"refuses_appear", "refuses_disappear"}
  MaxPending = 4
SYMMETRY Interchangeable
INVARIANTS
  TypeOK
  HostView
  HandlesInUse
  AssertsHold
  CounterAtMostOneShort
CHECK_DEADLOCK FALSE
