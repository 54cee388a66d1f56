SPECIFICATION LiveSpec
CONSTANTS
  DEBOUNCE = 2
  DISCREPANCY_THRESHOLD = 20
  TIMEOUT_AFTER = 3
  WATERMARK = 2
  MaxAhead = 1
  MaxLate = 2
  MaxTime = 7
  None = None
  A1 = A1
  B1 = B1
  Zones = {A1}
  ZoneType <- MCZoneType
  NavCodes <- NoCodes
  Vessels = {"v1"}
INVARIANTS EventOrder
PROPERTIES ExpiryNeedsSilence LivesDoNotOverlap SilentVesselExpires
