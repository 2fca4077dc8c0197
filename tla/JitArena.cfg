SPECIFICATION Spec
CHECK_DEADLOCK FALSE
CONSTANTS
  ArenaSize = 9
  FixedSize = 1
  ArraySize = 2
  BlockSize = 2
  Bank = {1, 2}
  Area = {0, 1, 2}
  Pc = {1, 2}
  NoCode = NoCode
INVARIANTS
  AllocationsDisjoint
  CachedCodeIsLive
  NeverOutOfMemory
