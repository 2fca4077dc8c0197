SPECIFICATION Spec
CONSTANTS
  BlockBytes = 24
  BlockCode = 400
  Programs <- MCPrograms
  Starts <- MCStarts
CHECK_DEADLOCK FALSE
INVARIANTS
  RegistersAgree
  MemoryAgrees
  NativeStackPointer
  CallsSeeExactTime
  ExitsAgree
