SPECIFICATION Spec
CONSTANTS
  Totals <- MCTotals
  JournalLens <- MCJournalLens
  MaxFormats = 2
  MaxCrashes = 1
  Conditions = {}
INVARIANTS TypeOK MountableIsComplete FormattedIsDurable
CHECK_DEADLOCK FALSE
