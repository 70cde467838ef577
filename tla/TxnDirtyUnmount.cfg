SPECIFICATION Spec
CONSTANTS
  c1 = c1  c2 = c2  m1 = m1  d1 = d1
  Clients <- Two
  Meta <- OneMeta
  Data <- OneData
  Modes = {"ordered"}
  CkptLag = 1
  MaxOps = 3
  MaxSyncs = 2
  FsLock = TRUE
  Conditions = {"dirtyStop"}
INVARIANT UnmountComplete
CHECK_DEADLOCK FALSE
