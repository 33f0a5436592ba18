CONSTANTS
  Nodes = {n1, n2}
  Validators = {n1, n2}
  Genesis = n1
  NoNode = NoNode
  NoBlock = NoBlock
  NoUpdate = NoUpdate
  NoCatchup = NoCatchup
  ClocksInSync = TRUE
  MaxHeight = 3
  MaxStamp = 5
  MaxProposals = 5
  MaxCrash = 0
  MaxLoss = 1
  MaxPromote = 2
  MaxCancel = 0
SPECIFICATION FairSpec
INVARIANT ForksTakeDoubleVotes
PROPERTY CatchupEnds
