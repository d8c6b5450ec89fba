SPECIFICATION TermSpec
CONSTANTS
  Widths = {1, 2}
  MaxWidth = 2
  NoColor = "unknown"
  Height = 2
  Glyphs = {"a"}
  Colors = {"grey", "blue"}
  Default = "grey"
  PlainModes = {FALSE, TRUE}
  ColorEscapes = FALSE
  MaxLine = 2
  MaxResizes = 2
INVARIANTS
  TermTypeOK
  
  
  CursorShownUntilReset
PROPERTIES
  CursorNeverOvershoots
  
