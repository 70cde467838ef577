SPECIFICATION Spec
CONSTANTS
  b1 = b1  b2 = b2  b3 = b3  b4 = b4  b5 = b5  b6 = b6  v0 = v0  v1 = v1  v2 = v2  torn = torn
  Blocks <- MCBlocks
  Vals <- MCVals
  InitVal = v0
  TornVal = torn
  Batches <- MCBatches
  MaxLen = 7
  MaxTags = 2
  CkptLag = 1
  MaxCommits = 3
  MaxCrashes = 1
  MaxErrors = 0
  ErrorSteps = {}
  ReopenUsedLog = TRUE
  PowerLossInRecovery = FALSE
INVARIANT MountRestores
CHECK_DEADLOCK FALSE
