SPECIFICATION Spec
CONSTANTS
  Kinds <- JsonAndTwoVersions
  MaxVersions = 2
  Readable <- FieldAdded
  MaxRecords = 4
  MaxCrashes = 3
INVARIANTS LogsAgree DecodedAsOne
PROPERTIES RefinesTable
CHECK_DEADLOCK FALSE
