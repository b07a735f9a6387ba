SPECIFICATION AnySpec
CONSTANTS
  N = 12
  L1Size = 2
  L2Size = 2
  RcMax = 3
  RcPerSector = 6
  Images <- MCImages
  MaxOps = 4
  MaxFaults = 2
  FaultFree = {}
  Values = {1, 2, 3}
  Files = {"a", "b", "c"}
  Length <- MCLength
  Content <- MCContent
  Slots = 1
  Present = {"a", "b"}
  Careful = TRUE
  Descriptors <- MCDescriptors
  CidOf <- MCCidOf
  Room = 200
INVARIANTS
  ViewKept
  RebasedExact
CHECK_DEADLOCK FALSE
