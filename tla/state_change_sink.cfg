SPECIFICATION LiveSpec
CONSTANTS
  Kinds <- EventOrQuiet
  MaxRecords = 3
  MaxCrashes = 2
INVARIANTS TypeOK CommittedIsDurable CopiesBounded KafkaBeforeDelta KafkaInOrder
PROPERTIES EventsReachDelta RefinesTable
CHECK_DEADLOCK FALSE
