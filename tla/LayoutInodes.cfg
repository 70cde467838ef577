SPECIFICATION Spec
CONSTANTS
  Totals = {336, 340}
  JournalLens = {4}
  MaxFormats = 1
  MaxCrashes = 0
  Conditions = {}
INVARIANT InodesInTable
CHECK_DEADLOCK FALSE
