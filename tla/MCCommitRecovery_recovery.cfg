CONSTANTS
  Versions = {1, 2}
  Roles = {"leader", "follower"}
  NoBlock = NoBlock
  MaxHeight = 3
  MaxCrash = 2
  MaxLoss = 1
  MaxRestore = 1
SPECIFICATION FairSpec
INVARIANTS TypeOK HashMatchesApp ServesWhatItApplied AlwaysStarts
PROPERTIES ImplementsLedger Recovers
