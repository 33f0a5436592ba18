CONSTANTS
  Nodes = {n1, n2, n3, n4}
  Validators = {n1, n2, n3}
  Genesis = n1
  NoNode = NoNode
  NoBlock = NoBlock
  NoUpdate = NoUpdate
  NoCatchup = NoCatchup
  ClocksInSync = TRUE
  MaxHeight = 2
  MaxStamp = 3
  MaxProposals = 3
  MaxCrash = 1
  MaxLoss = 0
  MaxPromote = 0
  MaxCancel = 0
SPECIFICATION FairSpec
PROPERTY Progress
