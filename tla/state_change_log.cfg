SPECIFICATION MartSpec
CONSTANTS
  DEBOUNCE = 1
  DISCREPANCY_THRESHOLD = 1
  None = None
  A1 = A1
  B1 = B1
  Zones = {A1, B1}
  ZoneType <- MCZoneType
  Vessels = {"v1"}
  Times = {0, 1, 2, 3}
INVARIANTS OngoingIsCurrent IdsUnique SessionsCoverReports AsOfIsExact FlagsPairUp
PROPERTIES HistoryIsFinal
VIEW MartView
