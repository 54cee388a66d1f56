SPECIFICATION LogSpec
CONSTANTS
  DEBOUNCE = 1
  DISCREPANCY_THRESHOLD = 1
  TIMEOUT_AFTER = 1
  WATERMARK = 0
  MaxAhead = 0
  MaxLate = 0
  MaxTime = 4
  None = None
  A1 = A1
  B1 = B1
  Zones = {A1}
  ZoneType <- MCZoneType
  NavCodes = {1}
  Vessels = {"v1"}
INVARIANTS ExpiredIsClosed
