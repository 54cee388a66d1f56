SPECIFICATION LiveSpec
CONSTANTS
  MaxRuns = 2
  MaxVersion = 2
  MaxSyncs = 2
INVARIANTS OneRunPerSync RunSeesItsSync
PROPERTIES GoldNeverGoesBack EverySyncIsRun
CHECK_DEADLOCK FALSE
