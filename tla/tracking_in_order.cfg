SPECIFICATION Spec
CONSTANTS
  DEBOUNCE = 2
  DISCREPANCY_THRESHOLD = 2
  TIMEOUT_AFTER = 1
  WATERMARK = 1
  MaxAhead = 0
  MaxLate = 0
  MaxTime = 4
  None = None
  A1 = A1
  B1 = B1
  Zones = {A1, B1}
  ZoneType <- MCZoneType
  NavCodes <- OneCode
  Vessels = {"v1"}
INVARIANTS TypeOK DebounceExact ArrivalOrder
PROPERTIES HeldContinuously DisagreementSustained RefinesJourney
VIEW StateView
