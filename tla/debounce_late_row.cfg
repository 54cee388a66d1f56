SPECIFICATION Spec
CONSTANTS
  DEBOUNCE = 2
  DISCREPANCY_THRESHOLD = 20
  TIMEOUT_AFTER = 4
  WATERMARK = 3
  MaxAhead = 0
  MaxLate = 3
  MaxTime = 6
  None = None
  A1 = A1
  B1 = B1
  Zones = {A1}
  ZoneType <- MCZoneType
  NavCodes <- NoCodes
  Vessels = {"v1"}
PROPERTIES HeldContinuously
