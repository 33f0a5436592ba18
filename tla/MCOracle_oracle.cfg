SPECIFICATION FairSpec
CONSTANTS
  ldr = ldr
  vld = vld
  Nodes <- MCNodes
  Power <- MCPower
  TotalPower = 3
  Leader = ldr
  LogBlocks <- MCLogBlocks
  StartHeights <- MCStartHeights
  MaxTip = 2
  Chunk = 1
  FaultKinds <- MCFaults
  MaxFaults = 1
INVARIANTS
  TypeOK
  GivenInOrder
  PointsWereObserved
  NoDecidedEventKept
  NoVoteForgotten
  NoHangWithoutFaults
PROPERTY AllGiven
CHECK_DEADLOCK FALSE
