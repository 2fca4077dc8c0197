SPECIFICATION Spec
CONSTANTS
  HramSize = 3
  Byte = {0, 1}
  InitByte = 0
  NoCode = NoCode
INVARIANTS
  LookupIsFresh
PROPERTY CompiledIsFound
