SPECIFICATION FairSpec
CONSTANTS
  b1 = b1  b2 = b2  b3 = b3  b4 = b4  b5 = b5  b6 = b6  v0 = v0  v1 = v1  v2 = v2  torn = torn
  Blocks <- MCBlocks6
  Vals <- MCVals
  InitVal = v0
  TornVal = torn
  Batches <- MCBatches6
  MaxLen = 6
  MaxTags = 5
  CkptLag = 2
  MaxCommits = 3
  MaxCrashes = 1
  MaxErrors = 2
  ErrorSteps = {"body", "cblock", "cflush", "jsuper", "jflush", "publish",
                "ckwrite", "cktail", "cktflush", "scan", "install", "settle"}
  ReopenUsedLog = FALSE
  PowerLossInRecovery = FALSE
INVARIANTS LogOrdered AckedInLog
PROPERTY PipelineReturns
CHECK_DEADLOCK FALSE
