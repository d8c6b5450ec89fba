--------------------------- MODULE TerminalOutput ---------------------------
(***************************************************************************)
(* class Terminal: turns the lines the scraper sends it into text and      *)
(* escape sequences, and keeps just enough of what the user's terminal     *)
(* shows (m_remoteLine, m_remoteColumn, m_lineData, m_cursorHidden,        *)
(* m_remoteColor) to send as little as it can.  Every method is an         *)
(* operator from the object's state to the object's state; what it writes  *)
(* to the output pipe is applied, in order, to a terminal emulator.        *)
(*                                                                         *)
(* Lines are numbered as the scraper numbers them; columns count from 0,   *)
(* the cells of a line from 1.  A cell is one narrow character.            *)
(***************************************************************************)
EXTENDS TerminalEmulator

CONSTANTS
  PlainModes,        \* with and without VT7PTY_FLAG_PLAIN_OUTPUT
  ColorEscapes,      \* VT7PTY_FLAG_COLOR_ESCAPES, of use to plain output
  MaxLine,           \* bound: highest line number
  MaxResizes         \* bound: changes of the width between two resets

ASSUME TerminalAssumption ==
  /\ PlainModes \subseteq BOOLEAN /\ ColorEscapes \in BOOLEAN
  /\ MaxLine \in Nat /\ MaxResizes \in Nat /\ Height - 1 <= MaxLine

VARIABLES
  term,     \* the Terminal object, and what the call under way has written
  screen,   \* the emulator, as wide as the console
  direct,   \* m_directMode
  top,      \* first line of the console window
  dirty,    \* last line the scraper has found to be dirty
  cursor,   \* the console's cursor: line and column, or hidden or elsewhere
  todo,     \* lines the scraper has yet to look at in this scrape
  modified, \* sawModifiedLine
  phase,    \* "idle" or "scraping"
  buffer,   \* m_bufferData: of each line from the top, what was last seen
  fresh,    \* nothing has been scraped since the reset
  wasReset, \* a reset forgot that the cursor is hidden, or the line it is on
  astray,   \* a narrower window has moved the terminal's cursor: "cursor"
            \* until a column is chosen, "text" once something was written
  resizes   \* changes of the width since all was forgotten, from MaxWidth on

termVars == <<term, screen, direct, top, dirty, cursor, todo, modified, phase,
              buffer, fresh, wasReset, astray, resizes>>

----------------------------------------------------------------------------
(***************************************************************************)
(* The methods.                                                            *)
(***************************************************************************)
Write(t, commands) == [t EXCEPT !.out = @ \o commands]

NewLine == <<<<"cr">>, <<"lf">>>>

\* Nothing is known to be on the current line.
ForgetLine(t) == [t EXCEPT !.lineDataValid = TRUE, !.lineData = <<>>, !.remoteColumn = 0]

reset(t, sendClear, newLine) ==
  LET cleared == IF sendClear /\ ~t.plainMode
                 THEN Write(t, <<<<"sgr", Default>>, <<"home">>, <<"ed">>>>) ELSE t
  IN [cleared EXCEPT !.remoteLine = newLine, !.remoteColumn = 0, !.lineData = <<>>,
                     !.cursorHidden = FALSE, !.remoteColor = NoColor]

hideTerminalCursor(t) ==
  IF t.plainMode \/ t.cursorHidden THEN t
  ELSE [Write(t, <<<<"hide">>>>) EXCEPT !.cursorHidden = TRUE]

NewLines(n) == [i \in 1..(2 * n) |-> IF i % 2 = 1 THEN <<"cr">> ELSE <<"lf">>]

\* The way to a line below is through a newline for each; the way up is CUU,
\* which plain output does without.
StepsTo(t, line) ==
  CASE line > t.remoteLine -> NewLines(line - t.remoteLine)
    [] line < t.remoteLine /\ t.plainMode -> NewLine
    [] OTHER -> <<<<"cr">>, <<"up", t.remoteLine - line>>>>

moveTerminalToLine(t, line) ==
  IF line = t.remoteLine THEN t
  ELSE ForgetLine([Write(hideTerminalCursor(t), StepsTo(t, line))
                     EXCEPT !.remoteLine = line])

\* May what has been output of this line be kept, and the rest appended?
CanAppend(t, data) ==
  /\ t.lineDataValid
  /\ t.remoteColumn > 0 =>
       /\ IF t.plainMode THEN Len(t.lineData) <= Len(data) ELSE Len(t.lineData) < Len(data)
       /\ t.lineData = SubSeq(data, 1, Len(t.lineData))

\* Mutated form of RestartLine: plain output goes back to the first column too.
RestartLineInPlace(t) == ForgetLine(Write(hideTerminalCursor(t), <<<<"cr">>>>))

RestartLine(t) ==
  ForgetLine(Write(hideTerminalCursor(t), IF t.plainMode THEN NewLine ELSE <<<<"cr">>>>))

\* The color in force before cell i is output.
ColorBefore(t, data, i) == IF i = Len(t.lineData) + 1 THEN t.remoteColor ELSE data[i - 1].color

SetsColor(t, data, i) == t.outputColor /\ data[i].color # ColorBefore(t, data, i)

Remaining(t, data) == (Len(t.lineData) + 1)..Len(data)

\* Cells that are output: all up to the last one that is not a space, and all
\* before the last change of color.
trimmedCellCount(t, data) ==
  LET from == Len(t.lineData)
      count[k \in 0..(Len(data) - from)] ==
        IF k = 0 THEN from
        ELSE IF data[from + k].ch # Space THEN from + k
        ELSE IF SetsColor(t, data, from + k) THEN from + k - 1
        ELSE count[k - 1]
  IN  count[Len(data) - from]

ErasesEarly(t, data) == Remaining(t, data) # {} /\ data[Len(data)].ch # Space

ColorCommand(t, data, i) ==
  IF i \in Remaining(t, data) /\ SetsColor(t, data, i) THEN <<<<"sgr", data[i].color>>>> ELSE <<>>

\* Erasing to the end of the line comes before a character in the last column:
\* after it, it would erase that character.
CellCommands(t, data, i) ==
  ColorCommand(t, data, i)
    \o (IF i = Len(data) /\ ErasesEarly(t, data) /\ ~t.plainMode THEN <<<<"el">>>> ELSE <<>>)
    \o <<<<"put", data[i].ch>>>>

\* What is output of the first n of the remaining cells.
Cells(t, data, n) ==
  LET cells[k \in 0..(Len(data) - Len(t.lineData))] ==
        IF k = 0 THEN <<>> ELSE cells[k - 1] \o CellCommands(t, data, Len(t.lineData) + k)
  IN  cells[n]

LineCommands(t, data) ==
  LET to == trimmedCellCount(t, data)
  IN Cells(t, data, to - Len(t.lineData))
       \o ColorCommand(t, data, to + 1)
       \o (IF ErasesEarly(t, data) \/ t.plainMode THEN <<>> ELSE <<<<"el">>>>)

\* Mutated form of OverrunsCursor: off by one.
OverrunsCursorLate(count, cursorColumn) == cursorColumn # -1 /\ count > cursorColumn + 1

\* The line content would run past the cursor.
OverrunsCursor(count, cursorColumn) == cursorColumn # -1 /\ count > cursorColumn

\* Mutated form of RememberLine: m_lineData is appended to from the first cell.
RememberLineTwice(t, data, count) ==
  [t EXCEPT !.lineData = @ \o SubSeq(data, 1, count), !.remoteColumn = count]

RememberLine(t, data, count) ==
  [t EXCEPT !.lineData = SubSeq(data, 1, count), !.remoteColumn = count]

sendLine(t0, line, data, cursorColumn) ==
  LET moved == moveTerminalToLine(t0, line)
      t == IF CanAppend(moved, data) THEN moved ELSE RestartLine(moved)
      count == trimmedCellCount(t, data)
      u == IF OverrunsCursor(count, cursorColumn) THEN hideTerminalCursor(t) ELSE t
  IN [RememberLine(Write(u, LineCommands(t, data)), data, count) EXCEPT
        !.remoteColor = IF t.outputColor /\ Remaining(t, data) # {} THEN data[Len(data)].color ELSE @]

\* Mutated form of PlaceCursor: the first column is 0.
PlaceCursorFromZero(t, column) ==
  IF t.remoteColumn = column THEN t
  ELSE [Write(t, <<<<"col", column>>>>) EXCEPT
          !.lineDataValid = (column = 0), !.lineData = <<>>, !.remoteColumn = column]

PlaceCursor(t, column) ==
  IF t.remoteColumn = column THEN t
  ELSE [Write(t, <<<<"col", column + 1>>>>) EXCEPT
          !.lineDataValid = (column = 0), !.lineData = <<>>, !.remoteColumn = column]

\* Mutated form of showTerminalCursor: nothing is written when the column is right.
showTerminalCursorWhenMoved(t0, column, line) ==
  LET t == moveTerminalToLine(t0, line)
      placed == PlaceCursor(t, column)
  IN IF t.plainMode \/ t.remoteColumn = column THEN t
     ELSE IF placed.cursorHidden
          THEN [Write(placed, <<<<"show">>>>) EXCEPT !.cursorHidden = FALSE]
          ELSE placed

showTerminalCursor(t0, column, line) ==
  LET t == moveTerminalToLine(t0, line)
      placed == PlaceCursor(t, column)
  IN IF t.plainMode THEN t
     ELSE IF placed.cursorHidden
          THEN [Write(placed, <<<<"show">>>>) EXCEPT !.cursorHidden = FALSE]
          ELSE placed

----------------------------------------------------------------------------
(***************************************************************************)
(* The scraper's calls.  A scrape looks at the lines from the top of the   *)
(* last window to the last dirty one of this window, in order; from the    *)
(* first that has changed it sends them all (in direct mode only those     *)
(* that have), and then shows the cursor if it is in the window.           *)
(***************************************************************************)
NoCursor == [line |-> -1, column |-> -1]

Output(t) ==
  /\ term' = [t EXCEPT !.out = <<>>]
  /\ screen' = Run(screen, t.out)

Writes(t, commands) == \E i \in 1..Len(t.out) : t.out[i][1] \in commands

\* A column is chosen, if at all, before anything is written; plain output is
\* on a line of its own again once it has gone to the next.
Call(t) ==
  /\ Output(t)
  /\ wasReset' = (wasReset /\ ~Writes(t, {IF t.plainMode THEN "lf" ELSE "hide"}))
  /\ astray' = IF astray # "cursor" THEN astray
               ELSE IF Writes(t, {"cr", "col"}) THEN "no"
               ELSE IF Writes(t, {"put", "el"}) THEN "text" ELSE astray

Bottom(first) == first + Height - 1

\* All is dirty down to the cursor, and the whole of a window that has moved;
\* below that a line is once something is on it.
Dirty(newTop, newCursor, last) ==
  /\ dirty <= last /\ newCursor.line <= last /\ newTop - 1 <= last /\ last <= Bottom(newTop)
  /\ direct \/ (newTop > top /\ ~fresh) => last = Bottom(newTop)

BeginScrape(newTop, last, newCursor) ==
  /\ phase = "idle"
  /\ top <= newTop /\ Bottom(newTop) <= MaxLine
  /\ fresh \/ direct => newTop = top
  /\ newCursor # NoCursor =>
       newCursor.line \in newTop..Bottom(newTop) /\ newCursor.column < screen.width
  /\ Dirty(newTop, newCursor, last)
  /\ Call(IF newCursor = NoCursor THEN hideTerminalCursor(term) ELSE term)
  /\ top' = newTop /\ dirty' = last /\ todo' = top..last /\ cursor' = newCursor
  /\ modified' = FALSE /\ phase' = "scraping" /\ fresh' = FALSE
  /\ UNCHANGED <<direct, buffer, resizes>>

\* Lines above both windows are not looked at again.
Keep(lines) == [l \in {k \in DOMAIN lines : k >= top} |-> lines[l]]

\* A line after m_maxBufferedLine is one nothing is known of.
ScrapeLine(line, data) ==
  LET old == IF line \in DOMAIN buffer THEN buffer[line] ELSE NoLine
      column == IF cursor.line = line THEN cursor.column ELSE -1
  IN /\ phase = "scraping" /\ line \in todo /\ \A l \in todo : line <= l
     /\ IF modified \/ detectChange(old, data)
        THEN Call(sendLine(term, line, data, column)) /\ modified' = ~direct
        ELSE UNCHANGED <<term, screen, wasReset, astray, modified>>
     /\ todo' = todo \ {line}
     /\ buffer' = [l \in DOMAIN buffer \union {line} |->
                     IF l = line THEN setLine(old, data) ELSE buffer[l]]
     /\ UNCHANGED <<direct, top, dirty, cursor, phase, fresh, resizes>>

EndScrape ==
  /\ phase = "scraping" /\ todo = {}
  /\ IF cursor = NoCursor THEN UNCHANGED <<term, screen, wasReset, astray>>
     ELSE Call(showTerminalCursor(term, cursor.column, cursor.line))
  /\ phase' = "idle" /\ modified' = FALSE /\ buffer' = Keep(buffer)
  /\ UNCHANGED <<direct, top, dirty, cursor, todo, fresh, resizes>>

\* resetConsoleTracking, at the beginning of a scrape; direct mode begins and
\* ends with one.
Reset(newTop, newDirect) ==
  /\ phase = "idle" /\ Bottom(newTop) <= MaxLine
  /\ newDirect => newTop = 0
  /\ Output(reset(term, TRUE, newTop))
  /\ wasReset' = (wasReset \/ term.plainMode \/ term.cursorHidden)
  /\ astray' = "no"
  /\ direct' = newDirect /\ top' = newTop /\ dirty' = newTop - 1
  /\ buffer' = <<>> /\ fresh' = TRUE
  /\ resizes' = IF screen.width = MaxWidth THEN 0 ELSE 1
  /\ UNCHANGED <<cursor, todo, modified, phase>>

\* The console and the terminal change their width.  The console is scraped at
\* each width, since resizing it starts with a scrape.
Resize(width, keeps) ==
  /\ phase = "idle" /\ resizes < MaxResizes /\ width # screen.width
  /\ \A l \in DOMAIN buffer : buffer[l].length = screen.width
  /\ screen' = Resized(screen, width, keeps)
  /\ resizes' = resizes + 1
  /\ astray' = IF astray = "no" /\ Position(screen) > width THEN "cursor" ELSE astray
  /\ UNCHANGED <<term, direct, top, dirty, cursor, todo, modified, phase, buffer, fresh,
                 wasReset>>

NewObject(plain) ==
  [plainMode |-> plain, outputColor |-> ~plain \/ ColorEscapes,
   remoteLine |-> 0, remoteColumn |-> 0, lineDataValid |-> TRUE, lineData |-> <<>>,
   cursorHidden |-> FALSE, remoteColor |-> NoColor, out |-> <<>>]

TermInit ==
  /\ \E plain \in PlainModes : term = reset(NewObject(plain), FALSE, 0)
  /\ direct = FALSE /\ top = 0 /\ dirty = -1 /\ screen = NewTerminal
  /\ cursor = [line |-> 0, column |-> 0] /\ todo = {} /\ modified = FALSE
  /\ phase = "idle" /\ buffer = <<>> /\ fresh = TRUE /\ wasReset = FALSE
  /\ astray = "no" /\ resizes = 0

Cursors == [line : 0..MaxLine, column : 0..(MaxWidth - 1)] \union {NoCursor}

\* Without escapes a color does nothing but make a line another one: one
\* color will do (a bound).
LineData ==
  [1..screen.width -> [ch : Characters,
                       color : IF term.outputColor THEN Colors ELSE {Default}]]

TermNext ==
  \/ \E newTop \in 0..MaxLine, last \in -1..MaxLine, newCursor \in Cursors :
       BeginScrape(newTop, last, newCursor)
  \/ \E line \in todo, data \in LineData : ScrapeLine(line, data)
  \/ EndScrape
  \/ \E newTop \in 0..MaxLine, newDirect \in BOOLEAN : Reset(newTop, newDirect)
  \/ \E width \in Widths, keeps \in BOOLEAN : Resize(width, keeps)

TermSpec == TermInit /\ [][TermNext]_termVars

----------------------------------------------------------------------------
(***************************************************************************)
(* Properties.                                                             *)
(***************************************************************************)
(* Types, and the ASSERTs of sendLine and of ConsoleLine, across every way  *)
(* of moving about: m_lineData holds what was output up to m_remoteColumn, *)
(* or is not valid, and m_prevLength never exceeds m_prevData.             *)
TermTypeOK ==
  /\ term.lineDataValid => Len(term.lineData) = term.remoteColumn
  /\ term.remoteLine \in 0..MaxLine /\ term.remoteColumn \in 0..MaxWidth
  /\ term.lineDataValid \in BOOLEAN /\ term.cursorHidden \in BOOLEAN
  /\ term.lineData \in Seq(Cell) /\ term.out = <<>>
  /\ term.remoteColor \in Colors \union {NoColor}
  /\ screen \in Screen
  /\ top \in 0..MaxLine /\ dirty \in -1..MaxLine /\ cursor \in Cursors
  /\ todo \subseteq 0..MaxLine /\ phase \in {"idle", "scraping"}
  /\ {direct, modified, fresh, wasReset} \subseteq BOOLEAN 
  /\ astray \in {"no", "cursor", "text"} /\ resizes \in 0..MaxResizes
  /\ DOMAIN buffer \subseteq 0..MaxLine
  /\ \A l \in DOMAIN buffer : buffer[l].data \in Seq(Cell) /\ buffer[l].length \in 1..Len(buffer[l].data)

\* The row of the emulator on which a line is, if the object is right about
\* where the terminal's cursor is.
RowOf(line) == screen.y - (term.remoteLine - line)

\* Does a row show a line as it was last seen?  A terminal that was made wider
\* has cells of its own color where the console has blanks.
Shows(row, o) ==
  \A i \in 1..o.length : i <= screen.width =>
    \/ row[i] = o.data[i]
    \/ row[i].ch = Space /\ o.data[i].ch = Space /\ resizes > 0

(* Every line the scraper has seen and that is still on the screen is      *)
(* there as it was last seen, cell by cell with its colors, whether it was *)
(* sent or taken to be there already: appending to a line, erasing its     *)
(* end, moving up and down, scrolling, and hiding and uncovering columns   *)
(* never leave anything else on it.                                        *)
LinesShown ==
  ~term.plainMode /\ astray # "text" =>
    \A l \in DOMAIN buffer :
      RowOf(l) \in 0..(Height - 1) => Shows(screen.rows[RowOf(l)], buffer[l])

(* Between scrapes the terminal's cursor is where the console's is, though *)
(* the object only sends a column when it believes it to be another.       *)
CursorPlaced ==
  phase = "idle" /\ ~fresh /\ cursor # NoCursor /\ cursor.column < screen.width
      /\ ~term.plainMode /\ astray = "no" =>
    /\ RowOf(cursor.line) = screen.y
    /\ screen.x = cursor.column /\ ~screen.wrap

(* Between scrapes the terminal shows a cursor exactly when the console    *)
(* does.  FidelityTest.cc compares the two screens that way.               *)
CursorShown ==
  phase = "idle" /\ ~term.plainMode => (screen.visible <=> cursor # NoCursor)

(* The same, but for a hidden cursor that a reset forgot: the cursor that  *)
(* is hidden while lines are sent is shown again after each scrape.        *)
CursorShownUntilReset == ~wasReset => CursorShown

(* A visible cursor never runs past its place: the object hides it before  *)
(* it outputs what follows the cursor on its line.                         *)
CursorNeverOvershoots ==
  [][\A l \in todo \ todo' :
       l = cursor.line /\ screen' # screen /\ screen'.visible /\ ~term.plainMode =>
         screen'.x <= cursor.column /\ ~screen'.wrap]_termVars

(* Plain output is text and line breaks, and colors where asked for; and   *)
(* what it writes last of a line is the whole of it, in a row of its own,  *)
(* though a line that changes is repeated and one that grows is continued. *)
(* (A reset leaves the terminal in the middle of a line, and so does a     *)
(* window that was made too narrow for it, until the next newline.)        *)
PlainOutput ==
  [][term.plainMode =>
       /\ screen'.escapes \subseteq IF term.outputColor THEN {"color"} ELSE {}
       /\ screen' # screen /\ ~wasReset' /\ astray' = "no" =>
            \A l \in todo \ todo' : l \in DOMAIN buffer' =>
              \A i \in 1..buffer'[l].length :
                screen'.rows[screen'.y][i].ch = buffer'[l].data[i].ch]_termVars
============================================================================
