SPECIFICATION FairSpec
CONSTANTS
  c1 = c1  c2 = c2  m1 = m1  d1 = d1
  Clients <- Two
  Meta <- OneMeta
  Data <- OneData
  Modes = {"ordered", "journal"}
  CkptLag = 2
  MaxOps = 3
  MaxSyncs = 2
  FsLock = TRUE
  Conditions = {}
INVARIANTS TypeOK IdleReadsFresh SyncMeansDurable AssertionHolds UnmountComplete
PROPERTIES CallsReturn
CHECK_DEADLOCK FALSE
