SPECIFICATION Spec
CONSTANTS
  c1 = c1  c2 = c2  m1 = m1  d1 = d1
  Clients <- Two
  Meta <- OneMeta
  Data <- OneData
  Modes = {"ordered"}
  CkptLag = 1
  MaxOps = 3
  MaxSyncs = 0
  FsLock = TRUE
  Conditions = {"overlap"}
INVARIANT IdleReadsFresh
CHECK_DEADLOCK FALSE
