SPECIFICATION LogSpec
CONSTANTS
  DEBOUNCE = 1
  DISCREPANCY_THRESHOLD = 20
  TIMEOUT_AFTER = 4
  WATERMARK = 0
  MaxAhead = 0
  MaxLate = 0
  MaxTime = 3
  None = None
  A1 = A1
  B1 = B1
  Zones = {A1, B1}
  ZoneType <- MCZoneType
  NavCodes <- NoCodes
  Vessels = {"v1"}
INVARIANTS BerthAfterDwell
