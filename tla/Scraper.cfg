SPECIFICATION ScraperSpec
CONSTANTS
  BUFFER_LINE_COUNT = 9
  SYNC_MARKER_LEN = 1
  SYNC_MARKER_MARGIN = 1
  InitialRows = 2
  OtherRows = {3}
  AppHeights = {2}
  NewW10Builds = {TRUE, FALSE}
  MaxBurst = 2
  MaxLines = 10
  MaxOdd = 2
INVARIANTS
  ScraperTypeOK
  ScrollCountExact
  HistoryComplete
  WindowShown
  NeverAboveScreen
PROPERTIES
  ConsoleLeftAloneBeforeW10
CHECK_DEADLOCK FALSE
