SPECIFICATION FairSpec
CONSTANTS
  EvqSize = 3
  BufferSamples = 2
  AscChunk = 1
  MaxLead = 1
  Stall = 1
  MaxBank = 2
  Reg = {1}
  Value = {0, 1}
  InitValue = 0
  Advances = {1}
  MaxBehind = 3
INVARIANTS StampsOrdered 
PROPERTIES  WaitEnds QueueDrains
