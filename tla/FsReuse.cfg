SPECIFICATION Spec
CONSTANTS
  n1 = n1  n2 = n2  n3 = n3  v1 = v1  zero = zero  junk = junk
  Paths <- MCPaths
  Vals <- OneVal
  Zero = zero
  Junk = junk
  TotalInodes = 3
  InodesPerBlock = 2
  NData = 5
  NDirBlocks = 2
  DirentsPerBlock = 2
  BlockUnits = 2
  Spans <- MCSpans
  Sizes = {1, 3}
  Modes = {"ordered"}
  MaxOpen = 1
  MaxOps = 4
  MaxOpsAfterCrash = 1
  MaxCommits = 2
  MaxCrashes = 1
  MaxErrors = 0
  MaxSteps = 5
  Conditions = {"reuse"}
INVARIANT BlockKinds
CHECK_DEADLOCK FALSE
