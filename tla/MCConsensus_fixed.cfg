CONSTANTS
  Nodes = {n1, n2, n3}
  Validators = {n1, n2, n3}
  Genesis = n1
  NoNode = NoNode
  NoBlock = NoBlock
  NoUpdate = NoUpdate
  NoCatchup = NoCatchup
  ClocksInSync = FALSE
  MaxHeight = 2
  MaxStamp = 2
  MaxProposals = 3
  MaxCrash = 1
  MaxLoss = 0
  MaxPromote = 0
  MaxCancel = 1
SPECIFICATION Spec
SYMMETRY Symmetry
INVARIANTS TypeOK Agreement CertifiedCommits OneRound ProposalExtendsCommit
PROPERTY NoReproposal
