SPECIFICATION Spec
CONSTANTS
  acctA = acctA
  acctC = acctC
  q1 = q1
  q2 = q2
  loop = loop
  NoRow = NoRow
  Accts <- MCAccts
  Procs <- MCProcs
  Txs <- MCTxs
  Admitters <- MCAdmitters
  Loop = loop
  Roles <- BothRoles
  Own = acctC
  Genesis <- MCGenesis
  GasEnabled = TRUE
  MaxTxSize = 2
  MaxPoolSize = 3
  MaxBlockSize = 3
  MaxSubmit = 2
  MaxBlocks = 2
  MaxUndo = 1
  MaxEvict = 1
SYMMETRY Symmetry
INVARIANTS
  TypeOK
  MutualExclusion
  CommitGoesFirst
  PoolContinuesNonces
  ChargedInOrder
  NoTokensCreated
  CacheCoherent
CHECK_DEADLOCK FALSE
