SPECIFICATION FairSpec
CONSTANTS
  acctA = acctA
  acctC = acctC
  q1 = q1
  q2 = q2
  loop = loop
  NoRow = NoRow
  Accts <- MCAccts
  Procs <- MCProcs
  Txs <- SmallTxs
  Admitters <- MCAdmitters
  Loop = loop
  Roles <- LeaderOnly
  Own = acctC
  Genesis <- MCGenesis
  GasEnabled = TRUE
  MaxTxSize = 1
  MaxPoolSize = 3
  MaxBlockSize = 1
  MaxSubmit = 2
  MaxBlocks = 2
  MaxUndo = 0
  MaxEvict = 0
PROPERTIES
  PriorityServed
CHECK_DEADLOCK FALSE
