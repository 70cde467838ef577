SPECIFICATION FairSpec
CONSTANTS
  c1 = c1  c2 = c2  m1 = m1  d1 = d1
  Clients <- Two
  Meta <- OneMeta
  Data <- OneData
  Modes = {"ordered", "writeback", "journal"}
  CkptLag = 1
  MaxOps = 2
  MaxSyncs = 1
  FsLock = FALSE
  Conditions = {"overlap", "idleSync", "busySync", "failure", "dirtyStop"}
INVARIANTS NoSplitOperation OrderedDataFirst CommittedRecoverable WritebackComplete
PROPERTIES CallsReturn StagedIsTaken QueueDrains
CHECK_DEADLOCK FALSE
