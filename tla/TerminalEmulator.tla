-------------------------- MODULE TerminalEmulator --------------------------
(***************************************************************************)
(* The user's terminal, as far as what the Terminal object sends can tell: *)
(* rows of cells, a cursor that waits behind the last column before it     *)
(* goes on to the next row, a color, and a window that the user makes      *)
(* narrower and wider.  Rows and columns count from 0, the cells of a row  *)
(* from 1.  A cell is one narrow character.                                *)
(***************************************************************************)
EXTENDS ConsoleLine

CONSTANTS
  Widths, Height,    \* sizes of the console window and of the terminal
  MaxWidth,          \* the greatest width, at which the session starts
  Glyphs,            \* characters other than the space
  Colors, Default,   \* attributes of a cell, and those of "CSI 0m"
  NoColor            \* no attributes: none are known to be in force

ASSUME EmulatorAssumption ==
  /\ Widths \subseteq Nat \ {0} /\ MaxWidth \in Widths /\ \A w \in Widths : w <= MaxWidth
  /\ Height \in Nat \ {0}
  /\ Space \notin Glyphs /\ Default \in Colors /\ NoColor \notin Colors

Characters == Glyphs \union {Space}
Cell == [ch : Characters, color : Colors]

\* Rows have all their cells, also those that a narrow window hides.
BlankLine(color) == [i \in 1..MaxWidth |-> blankChar(color)]

Screen ==
  {e \in [rows : [0..(Height - 1) -> [1..MaxWidth -> Cell]], width : Widths,
          x : 0..(MaxWidth - 1), y : 0..(Height - 1), wrap : BOOLEAN, pen : Colors,
          visible : BOOLEAN, escapes : SUBSET {"color", "control"}] : e.x < e.width}

NewTerminal == [rows |-> [r \in 0..(Height - 1) |-> BlankLine(Default)],
                width |-> MaxWidth, x |-> 0, y |-> 0, wrap |-> FALSE, pen |-> Default,
                visible |-> TRUE, escapes |-> {}]

LineFeed(e) ==
  IF e.y + 1 < Height
  THEN [e EXCEPT !.y = @ + 1, !.wrap = FALSE]
  ELSE [e EXCEPT !.wrap = FALSE,
                 !.rows = [r \in 0..(Height - 1) |->
                             IF r + 1 < Height THEN @[r + 1] ELSE BlankLine(e.pen)]]

PutChar(e, ch) ==
  LET f == IF e.wrap THEN LineFeed([e EXCEPT !.x = 0]) ELSE e
      g == [f EXCEPT !.rows[f.y][f.x + 1] = [ch |-> ch, color |-> f.pen]]
  IN IF f.x + 1 = f.width THEN [g EXCEPT !.wrap = TRUE] ELSE [g EXCEPT !.x = @ + 1]

\* The columns are numbered from 1, and the last is as far as one gets.
ColumnOf(e, n) == IF n < 1 THEN 0 ELSE IF n <= e.width THEN n - 1 ELSE e.width - 1

\* The kind of escape sequence a command is.
Escapes(cmd) ==
  IF cmd[1] \in {"put", "cr", "lf"} THEN {}
  ELSE {IF cmd[1] = "sgr" THEN "color" ELSE "control"}

\* Erasing a line does not touch what is hidden (mintty and jediterm, says
\* ConsoleLine.cc); clearing the screen is taken to.
Effect(e, cmd) ==
  CASE cmd[1] = "put"  -> PutChar(e, cmd[2])
    [] cmd[1] = "cr"   -> [e EXCEPT !.x = 0, !.wrap = FALSE]
    [] cmd[1] = "lf"   -> LineFeed(e)
    [] cmd[1] = "up"   -> [e EXCEPT !.y = IF cmd[2] <= @ THEN @ - cmd[2] ELSE 0, !.wrap = FALSE]
    [] cmd[1] = "col"  -> [e EXCEPT !.x = ColumnOf(e, cmd[2]), !.wrap = FALSE]
    [] cmd[1] = "sgr"  -> [e EXCEPT !.pen = cmd[2]]
    [] cmd[1] = "el"   -> [e EXCEPT !.wrap = FALSE,
                             !.rows[e.y] = [i \in 1..MaxWidth |->
                               IF i \in (e.x + 1)..e.width THEN blankChar(e.pen) ELSE @[i]]]
    [] cmd[1] = "home" -> [e EXCEPT !.x = 0, !.y = 0, !.wrap = FALSE]
    [] cmd[1] = "ed"   -> [e EXCEPT !.wrap = FALSE,
                             !.rows = [r \in 0..(Height - 1) |-> BlankLine(e.pen)]]
    [] cmd[1] = "show" -> [e EXCEPT !.visible = TRUE]
    [] cmd[1] = "hide" -> [e EXCEPT !.visible = FALSE]

Emulate(e, cmd) == [Effect(e, cmd) EXCEPT !.escapes = @ \union Escapes(cmd)]

\* What the terminal makes of all that is sent.
Run(e, commands) ==
  LET after[i \in 0..Len(commands)] ==
        IF i = 0 THEN e ELSE Emulate(after[i - 1], commands[i])
  IN  after[Len(commands)]

\* The column of the cursor, which may be behind the last one.
Position(e) == IF e.wrap THEN e.width ELSE e.x

\* The user makes the window narrower or wider.  What a narrower one hides is
\* kept or lost; text that ended in the last column goes on after it, and a
\* cursor that would be hidden is put there.
Resized(e, width, keeps) ==
  [e EXCEPT !.width = width,
            !.x = IF Position(e) < width THEN Position(e) ELSE width - 1,
            !.wrap = Position(e) >= width,
            !.rows = [r \in 0..(Height - 1) |-> [i \in 1..MaxWidth |->
                        IF i <= width \/ keeps THEN e.rows[r][i] ELSE blankChar(Default)]]]
=============================================================================
