SPECIFICATION LiveSpec
CONSTANTS
  None = None
  NineDigits = {"v1"}
  Box = {1, 2, 3}
  SOG_MAX = 1
  MAX_SKEW = 1
  EXCLUDE_NAMES = {"Port of Long Beach"}
  ALLOWED_OVERLAPS <- NestedPairs
  Surveys <- BaySurveys
  Kinds <- FiveReports
  MaxRecords = 3
  MaxCrashes = 2
INVARIANTS CommittedHasLanded QuarantineLeads TwinsStoredOnce ZonesAgree
PROPERTIES ReportsLand
CHECK_DEADLOCK FALSE
