SPECIFICATION FairSpec
CONSTANTS
  Groups = {g0, g1, g2}
  Params = {p1, p2}
  Root = g0
  NoGroup = NoGroup
  Env = {"removes", "late_groups"}
  MaxCount = 8
INVARIANTS
  CountExact
  ViewIsLive
PROPERTIES
  KeepsContract
  ScreenCatchesUp
CHECK_DEADLOCK FALSE
