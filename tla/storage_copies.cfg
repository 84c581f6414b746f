SPECIFICATION Spec
CONSTANTS
  BlockCount = 7
  Holders = {h1, h2}
  Kinds = {"group", "host_param", "host_enum", "plugin_param", "plugin_enum", "hints_dup"}
  MaxItems = 2
SYMMETRY Interchangeable
INVARIANTS
  TypeOK
  NothingLost
  NothingDangles
  CopyIsWhole
CHECK_DEADLOCK FALSE
