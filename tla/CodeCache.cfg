SPECIFICATION Spec
CONSTANTS
  NumPages = 6
  PageSize = 2
  MemPage = {"c", "d", "e", "f"}
  Mem4K <- MCMem4K
  HomePage <- MCHomePage
  Bank = {1, 2}
  NoBank = NoBank
  InitBank <- MCInitBank
  MapGroup <- MCMapGroup
  GroupBanks <- MCGroupBanks
  Block <- MCBlock
  StackPage = {1, 2}
  NoCode = NoCode
INVARIANTS
  CodeIsMarked
  CodePagesProtected
  WritesReachWhatIsRead
  SelfModificationNoticed
  WideningLoopAgrees
