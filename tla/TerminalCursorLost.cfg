SPECIFICATION TermSpec
CONSTANTS
  Widths = {3}
  MaxWidth = 3
  NoColor = "unknown"
  Height = 2
  Glyphs = {"a"}
  Colors = {"grey"}
  Default = "grey"
  PlainModes = {FALSE}
  ColorEscapes = FALSE
  MaxLine = 2
  MaxResizes = 0
INVARIANT
  CursorShown
