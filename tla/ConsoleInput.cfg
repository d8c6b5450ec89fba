SPECIFICATION InputFairSpec
CONSTANTS
  MaxKeys = 2
  MaxClicks = 3
  MaxAhead = 3
  Columns = {"1", "2"}
  Modes = {{"sgrMouse", "mouseInput"}, {"plain", "processedInput", "escapeInput"}, {"processedInput", "escapeInput", "mouseInput"}}
  ReplyRows = {"2"}
INVARIANTS
  InputTypeOK
  InputAsTyped
PROPERTIES
  EveryInputArrives
  DoubleClickGenuine
