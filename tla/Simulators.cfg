SPECIFICATION Spec
CONSTANTS
  MaxQueue = 2
  MaxSeq = 3
  RicSends = 3
  NUM_SAMPLE = 2
  MaxMessages = 6
INVARIANTS TypeOK SerialIsExact OldStampOnlyInWindow CsvIsLatest
PROPERTIES ConcurEnds ReportsGoOn
CHECK_DEADLOCK FALSE
