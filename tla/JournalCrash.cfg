SPECIFICATION FairSpec
CONSTANTS
  b1 = b1  b2 = b2  b3 = b3  b4 = b4  b5 = b5  b6 = b6  v0 = v0  v1 = v1  v2 = v2  torn = torn
  Blocks <- MCBlocks
  Vals <- MCVals
  InitVal = v0
  TornVal = torn
  Batches <- MCBatches
  MaxLen = 7
  MaxTags = 2
  CkptLag = 1
  MaxCommits = 4
  MaxCrashes = 2
  MaxErrors = 1
  ErrorSteps = {"body", "cblock", "cflush", "install", "settle"}
  ReopenUsedLog = FALSE
  PowerLossInRecovery = FALSE
INVARIANTS TypeOK ViewIsCommitted ReadsCommitted MountRestores AckedInLog LogTiled SuperNamesOldest HomeHoldsRest
PROPERTIES PipelineReturns ImplementsAtomicStore
CHECK_DEADLOCK FALSE
