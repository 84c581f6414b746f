SPECIFICATION FairSpec
CONSTANTS
  Groups = {g0}
  Params = {p1, p2}
  Root = g0
  Names = {n1, n2}
  Types = {t1, t2}
  Env = {"refuses_appear"}
  MaxPending = 4
PROPERTIES
  RefusedIsRetried
CHECK_DEADLOCK FALSE
