SPECIFICATION ScraperSpec
CONSTANTS
  BUFFER_LINE_COUNT = 14
  SYNC_MARKER_LEN = 1
  SYNC_MARKER_MARGIN = 4
  InitialRows = 2
  OtherRows = {}
  AppHeights = {}
  NewW10Builds = {TRUE}
  MaxBurst = 6
  MaxLines = 15
  MaxOdd = 1
PROPERTY ConsoleLeftAlone
CHECK_DEADLOCK FALSE
