CONSTANTS
  Nodes = {n1, n2, n3}
  Validators = {n1, n2, n3}
  Genesis = n1
  NoNode = NoNode
  NoBlock = NoBlock
  NoUpdate = NoUpdate
  NoCatchup = NoCatchup
  ClocksInSync = TRUE
  MaxHeight = 1
  MaxStamp = 1
  MaxProposals = 1
  MaxCrash = 1
  MaxLoss = 0
  MaxPromote = 2
  MaxCancel = 0
SPECIFICATION OfflineSpec
PROPERTY OfflineLeaderReplaced
