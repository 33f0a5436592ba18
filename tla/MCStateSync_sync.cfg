SPECIFICATION FairSpec
CONSTANTS
  pt = pt
  pu = pu
  Providers <- MCProviders
  TrustedProviders <- MCTrusted
  ChunkCount <- MCChunkCount
  DumpState <- MCDumpState
  MaxSnapshots <- MCMaxSnapshots
  StartHeight <- MCStartHeight
  EndHeight <- MCEndHeight
  MaxHeight = 3
  RecurringHeight = 1
  MaxRetries = 1
  MaxStops = 1
  MaxDeaths <- MCMaxDeaths
INVARIANTS
  TypeOK
  AcceptedIsWhole
  ResumesSameSnapshot
  ServesComplete
  FreshStartIsDeliberate
PROPERTY ComesUp
CHECK_DEADLOCK FALSE
