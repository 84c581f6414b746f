SPECIFICATION FairSpec
CONSTANTS
  Params = {p1, p2}
  Values = {v0, v1}
  Initial = v0
  NoParam = NoParam
  NoValue = NoValue
  Overlap = FALSE
  Restores = FALSE
  MaxQueue = 2
  MaxCount = 3
INVARIANTS
  LastRequestWins
PROPERTIES
  ChangeReachesPlugin
  ChangeReachesScreen
