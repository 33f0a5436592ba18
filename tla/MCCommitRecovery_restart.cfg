CONSTANTS
  Versions = {1, 2}
  Roles = {"leader"}
  NoBlock = NoBlock
  MaxHeight = 2
  MaxCrash = 2
  MaxLoss = 0
  MaxRestore = 0
SPECIFICATION Spec
INVARIANT MismatchNotPossible
