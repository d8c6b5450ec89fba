SPECIFICATION InputSpec
CONSTANTS
  MaxKeys = 1
  MaxClicks = 0
  MaxAhead = 0
  Columns = {"1"}
  Modes = {{"processedInput"}}
  ReplyRows = {"1"}
INVARIANTS
  InputAsTyped
