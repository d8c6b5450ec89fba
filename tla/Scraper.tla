------------------------------ MODULE Scraper ------------------------------
(***************************************************************************)
(* class Scraper: infers from polls of the console's screen buffer what    *)
(* scrolled and what changed, and keeps a terminal in step.  In scrolling  *)
(* mode lines get virtual numbers that go on growing when the buffer       *)
(* scrolls; a sync marker, text placed into the history above the window,  *)
(* shows by how much it did.  A scrape first tries to do without freezing  *)
(* the console (Windows 10), so the application runs between its reads.    *)
(*                                                                         *)
(* A row of the buffer holds a whole line of text or a piece of a marker.  *)
(* Widths, columns and attributes are left out.                            *)
(***************************************************************************)
EXTENDS Integers, Sequences, FiniteSets, FiniteSetsExt

CONSTANTS
  BUFFER_LINE_COUNT, SYNC_MARKER_LEN, SYNC_MARKER_MARGIN,
  InitialRows,       \* height of the window at first
  OtherRows,         \* heights it may be resized to
  AppHeights,        \* heights the application may give the buffer
  NewW10Builds,      \* what m_console.isNewW10() may be
  MaxBurst,          \* bound: lines written from one poll to the next
  MaxLines,          \* bound: lines written
  MaxOdd             \* bound: edits, clears, cursor moves, resizes

ASSUME ScraperAssumption ==
  /\ {BUFFER_LINE_COUNT, SYNC_MARKER_LEN, SYNC_MARKER_MARGIN, InitialRows} \subseteq Nat \ {0}
  /\ OtherRows \subseteq Nat \ {0} /\ AppHeights \subseteq Nat \ {0}
  /\ \A rows \in OtherRows \union {InitialRows} :
       rows + SYNC_MARKER_LEN + SYNC_MARKER_MARGIN < BUFFER_LINE_COUNT
  /\ NewW10Builds \subseteq BOOLEAN /\ {MaxBurst, MaxLines, MaxOdd} \subseteq Nat

VARIABLES
  con,   \* the console: rows of the buffer, window, cursor, frozen or not
  s,     \* the Scraper object
  t,     \* the user's terminal, line by line, and m_terminal's m_remoteLine
  pc,    \* what the agent does next
  info,  \* the ConsoleScreenBufferInfo of the scrape under way
  read,  \* m_readBuffer
  g      \* for the properties and the bounds; in virtual lines:
         \*   written, burst, odd: lines written, lines since the last poll, other acts
         \*   quiet: nothing has happened since the last poll began
         \*   scroll: lines the buffer has really scrolled by
         \*   log: every line as it was last seen on the console, from line base on
         \*   damaged: text vanished without scrolling
         \*   missed: something happened where the scraper cannot see it: see the application
         \*   erased, touched: lines a resize erased; of these, written to again

scraperVars == <<con, s, t, pc, info, read, g>>

Blank == <<"blank", 0, 0>>
Unset == <<"unset", 0, 0>>        \* a ConsoleLine that was reset
Garbage == <<"garbage", 0, 0>>    \* a cell that was never read
Text(n, v) == <<"text", n, v>>    \* line n of the application, version v
Marker(counter, j) == <<"marker", counter, j>>

At(f, i, default) == IF i \in DOMAIN f THEN f[i] ELSE default
Put(f, i, x) == [j \in DOMAIN f \union {i} |-> IF j = i THEN x ELSE f[j]]

----------------------------------------------------------------------------
(***************************************************************************)
(* The terminal: rows are numbered from the last clear, top is the first   *)
(* one on the screen.                                                      *)
(***************************************************************************)
NewTerminal == [rows |-> <<>>, y |-> 0, top |-> 0, height |-> InitialRows,
            remoteLine |-> 0, clamped |-> FALSE]

moveTerminalToLine(u, line) ==
  LET y == u.y + (line - u.remoteLine) IN
  [u EXCEPT !.y = Max({y, u.top}), !.top = Max({@, y - u.height + 1}),
            !.remoteLine = line, !.clamped = @ \/ y < u.top]

sendLine(u, line, text) ==
  LET moved == moveTerminalToLine(u, line)
  IN [moved EXCEPT !.rows = Put(@, moved.y, text)]

\* Terminal::reset(SendClear): what has left the screen is left alone.
clearTerminal(u, newLine) ==
  [u EXCEPT !.rows = <<>>, !.y = 0, !.top = 0, !.remoteLine = newLine, !.clamped = FALSE]

\* The host resizes its terminal once vt7pty_set_size has returned.  A lower one
\* keeps the cursor on its screen, a higher one shows again what left it.
ResizedTerminal(u, height) ==
  [u EXCEPT !.height = height,
            !.top = IF height < u.height THEN Max({@, u.y - height + 1})
                    ELSE Max({0, Min({@, Max(DOMAIN u.rows \union {u.y}) - height + 1})})]

\* What the terminal shows for a line.
ShownAt(line) == At(t.rows, t.y + (line - t.remoteLine), Blank)

----------------------------------------------------------------------------
(***************************************************************************)
(* The console.                                                            *)
(***************************************************************************)
BufferHeight(c) == Cardinality(DOMAIN c.buf)

Window(c) == c.top..(c.top + c.height - 1)

bufferInfo(c) == [top |-> c.top, height |-> c.height, cur |-> c.cur,
                  bufferHeight |-> BufferHeight(c)]

clearLines(c, row, count) ==
  [c EXCEPT !.buf = [r \in DOMAIN @ |-> IF r \in row..(row + count - 1) THEN Blank ELSE @[r]]]

moveWindow(c, top, height) ==
  IF top >= 0 /\ top + height <= BufferHeight(c)
  THEN [c EXCEPT !.top = top, !.height = height] ELSE c

\* SetConsoleScreenBufferSize fails if the window would not fit.
resizeBufferRange(c, height) ==
  IF height < c.height THEN c
  ELSE [c EXCEPT !.buf = [r \in 0..(height - 1) |-> At(@, r, Blank)],
                 !.top = Min({@, height - c.height}), !.cur = Min({@, height - 1})]

----------------------------------------------------------------------------
(***************************************************************************)
(* The scraper's helpers.                                                  *)
(***************************************************************************)
NewTracking(u, scrapedLineCount) ==
  [u EXCEPT !.data = [i \in 0..(BUFFER_LINE_COUNT - 1) |-> Unset],
            !.syncRow = -1, !.scrapedLineCount = scrapedLineCount, !.scrolledCount = 0,
            !.maxBufferedLine = -1, !.dirtyWindowTop = -1, !.dirtyLineCount = 0]

\* From here on lines are counted anew, and the history begins with line first.
NewHistory(h, c, first) ==
  [h EXCEPT !.scroll = 0, !.base = first, !.damaged = FALSE, !.missed = FALSE,
            !.erased = {}, !.touched = {}, !.log = [r \in {q \in DOMAIN c.buf : q >= first} |-> c.buf[r]]]

MarkerColumn(u, c, i) ==
  \A j \in 0..(SYNC_MARKER_LEN - 1) : At(c.buf, i + j, Garbage) = Marker(u.syncCounter, j)

\* The lowest row at or above the last one that the marker is on.  What lies
\* below the end of a buffer that has shrunk is not read: the array on the stack
\* may still hold the marker of the last call.
findSyncMarker(u, c) ==
  LET found == {i \in 0..u.syncRow : MarkerColumn(u, c, i)}
  IN {IF found = {} THEN -1 ELSE Max(found)}
       \union (IF u.syncRow + SYNC_MARKER_LEN > BufferHeight(c) THEN {u.syncRow} ELSE {})

\* The console after createSyncMarker(row).
WithMarker(u, c, row) ==
  LET cleared == clearLines(c, row - 1, SYNC_MARKER_LEN + 1)
  IN [cleared EXCEPT !.buf = [r \in DOMAIN @ |->
        IF r \in row..(row + SYNC_MARKER_LEN - 1)
        THEN Marker(u.syncCounter + 1, r - row) ELSE @[r]]]

MarkerCreated(u, row) ==
  [u EXCEPT !.syncCounter = @ + 1, !.syncRow = row, !.failed = @ \/ row < 1]

\* Mutated form: measured from the bottom of the window.
newSyncRowFromBottom(i) == i.top + i.height - SYNC_MARKER_LEN - SYNC_MARKER_MARGIN

newSyncRow(i) == i.top - SYNC_MARKER_LEN - SYNC_MARKER_MARGIN

shouldCreateSyncRow(u, i) ==
  newSyncRow(i) >= u.syncRow + SYNC_MARKER_LEN + SYNC_MARKER_MARGIN

\* Mutated form: m_syncRow keeps its value.
MarkerFoundStays(u, i, row) ==
  [u EXCEPT !.scrolledCount = @ + (u.syncRow - row), !.dirtyLineCount = Max({@, i.top + i.height})]

\* The marker was found further up: the buffer has scrolled.
MarkerFound(u, i, row) ==
  IF row = u.syncRow THEN u
  ELSE [u EXCEPT !.scrolledCount = @ + (u.syncRow - row), !.syncRow = row,
                 !.dirtyLineCount = Max({@, i.top + i.height})]

DirtyUpdated(u, i) ==
  [u EXCEPT !.dirtyWindowTop = i.top,
            !.dirtyLineCount =
               Max({@, i.cur + 1, i.top}
                     \union (IF u.dirtyWindowTop # -1 /\ i.top > u.dirtyWindowTop
                             THEN {i.top + i.height} ELSE {}))]

\* Mutated form: the window is expected to move down only.
WindowUpIgnored(u, i) == FALSE

WindowUp(u, i) == u.dirtyWindowTop # -1 /\ i.top < u.dirtyWindowTop

\* Mutated form: what left the window since the last scrape is skipped.
firstVirtLineOfWindow(u, i) == i.top + u.scrolledCount

firstVirtLine(u, i) == Min({u.scrapedLineCount, i.top + u.scrolledCount})

firstReadLine(u, i) == Min({firstVirtLine(u, i) - u.scrolledCount, u.dirtyLineCount - 1})
stopReadLine(u, i) == Max({i.top + i.height, u.dirtyLineCount})

\* An ASSERT fails if the lines to read begin above the buffer.
ReadPrepared(u, i) ==
  LET w == DirtyUpdated(u, i)
  IN [w EXCEPT !.failed = @ \/ firstReadLine(w, i) < 0]

largeConsoleRead(c, first, stop) ==
  [r \in first..(stop - 1) |-> At(c.buf, r, Garbage)]

\* Mutated form: the scan begins one line too low.
scanForDirtyLinesBelow(u, i, rows) ==
  [u EXCEPT !.dirtyLineCount =
     Max({@} \union {r + 1 : r \in {q \in (u.dirtyLineCount + 1)..(i.top + i.height - 1) :
                                      rows[q] # Blank}})]

scanForDirtyLines(u, i, rows) ==
  [u EXCEPT !.dirtyLineCount =
     Max({@} \union {r + 1 : r \in {q \in u.dirtyLineCount..(i.top + i.height - 1) :
                                      rows[q] # Blank}})]

SendIfModified(x, line, text) ==
  LET slot == line % BUFFER_LINE_COUNT
      modified == x.saw \/ line > x.u.maxBufferedLine \/ x.u.data[slot] # text
  IN [u   |-> [x.u EXCEPT !.maxBufferedLine = Max({@, line}), !.data[slot] = text],
      t   |-> IF modified THEN sendLine(x.t, line, text) ELSE x.t,
      saw |-> modified]

\* Lines first to first + count - 1.
SendLines(x, first, count, rows) ==
  LET sent[k \in 0..count] ==
        IF k = 0 THEN x
        ELSE SendIfModified(sent[k - 1], first + k - 1, rows[first + k - 1 - x.u.scrolledCount])
  IN sent[count]

\* The part of scrollingScrapeOutput that is finished with the console.
ScrollingOutput(u0, v, i, rows) ==
  LET u == scanForDirtyLines(u0, i, rows)
      first == firstVirtLine(u, i)
      stop == Min({u.dirtyLineCount, i.top + i.height}) + u.scrolledCount
      sent == SendLines([u |-> u, t |-> v, saw |-> FALSE], first, Max({0, stop - first}), rows)
  IN [u |-> [sent.u EXCEPT !.scrapedLineCount = i.top + u.scrolledCount],
      t |-> IF i.cur \in Window(i)
            THEN moveTerminalToLine(sent.t, i.cur + u.scrolledCount) ELSE sent.t]

----------------------------------------------------------------------------
(***************************************************************************)
(* A poll.                                                                 *)
(***************************************************************************)
\* syncConsoleContentAndSize, up to the first read of the console.
ReadInfo ==
  LET i == bufferInfo(con)
      \* Before there is a marker, only the window moving up gives a clear away.
      refilled == g.damaged /\ s.syncRow = -1 /\ s.dirtyWindowTop \in 1..i.top
      direct == i.bufferHeight # BUFFER_LINE_COUNT
      switch == direct # s.directMode
      first == IF direct THEN 0 ELSE i.top
      frozen == ~s.isNewW10 \/ s.resizing
      h == [g EXCEPT !.burst = 0, !.quiet = TRUE, !.missed = @ \/ refilled]
  IN /\ pc = "idle"
     /\ con' = [con EXCEPT !.frozen = frozen]
     /\ s' = [IF switch THEN NewTracking(s, first) ELSE s EXCEPT
                !.directMode = direct, !.resizing = @ \/ (switch /\ ~direct)]
     /\ t' = IF switch THEN clearTerminal(t, first) ELSE t
     /\ g' = IF switch THEN NewHistory(h, con, first) ELSE h
     /\ info' = i
     /\ pc' = IF direct THEN IF s.resizing THEN "resize" ELSE "direct"
              ELSE IF frozen \/ switch THEN "frozen" ELSE "tentative"
     /\ UNCHANGED read

\* A tentative scrape gives up; the console is frozen, info is kept.
Bail == pc' = "frozen" /\ UNCHANGED <<con, t, info, read, g>>

Freeze ==
  /\ pc = "frozen" /\ ~con.frozen
  /\ con' = [con EXCEPT !.frozen = TRUE]
  /\ UNCHANGED <<s, t, pc, info, read, g>>

MarkerRows == IF s.syncRow = -1 THEN {-1} ELSE findSyncMarker(s, con)

\* The tentative scrape looks for the marker and at how the window moved.
Tentative ==
  /\ pc = "tentative"
  /\ \E row \in MarkerRows :
       LET gone == s.syncRow # -1 /\ row = -1
           u == MarkerFound(s, info, row)
           giveUp == shouldCreateSyncRow(u, info) \/ WindowUp(u, info)
       IN \/ gone /\ Bail /\ UNCHANGED s
          \/ ~gone /\ giveUp /\ Bail /\ s' = u
          \/ /\ ~gone /\ ~giveUp
             /\ s' = ReadPrepared(u, info) /\ pc' = "read"
             /\ UNCHANGED <<con, t, info, read, g>>

ReadContent ==
  /\ pc = "read"
  /\ read' = largeConsoleRead(con, firstReadLine(s, info), stopReadLine(s, info))
  /\ pc' = "check"
  /\ UNCHANGED <<con, s, t, info, g>>

CheckInfo ==
  /\ pc = "check"
  /\ \/ bufferInfo(con) # info /\ Bail /\ UNCHANGED s
     \/ bufferInfo(con) = info /\ pc' = "checkMarker" /\ UNCHANGED <<con, s, t, info, read, g>>

CheckMarker ==
  /\ pc = "checkMarker"
  /\ \E row \in MarkerRows :
       \/ row # s.syncRow /\ Bail /\ UNCHANGED s
       \/ /\ row = s.syncRow
          /\ LET output == ScrollingOutput(s, t, info, read)
             IN s' = output.u /\ t' = output.t
          /\ pc' = "idle" /\ read' = <<>>
          /\ UNCHANGED <<con, info, g>>

\* The scrape of a frozen console, with the position it had when info was read.
FrozenScrape ==
  /\ pc = "frozen" /\ con.frozen
  /\ \E row \in MarkerRows :
       LET gone == s.syncRow # -1 /\ row = -1
           u1 == IF gone THEN NewTracking(s, info.top) ELSE MarkerFound(s, info, row)
           create == shouldCreateSyncRow(u1, info)
           anew == gone \/ WindowUp(u1, info)
           u2 == ReadPrepared(IF anew THEN NewTracking(u1, info.top) ELSE u1, info)
           rows == largeConsoleRead(con, firstReadLine(u2, info), stopReadLine(u2, info))
           output == ScrollingOutput(IF create THEN MarkerCreated(u2, newSyncRow(info)) ELSE u2,
                                     IF anew THEN clearTerminal(t, info.top) ELSE t, info, rows)
           c == IF create THEN WithMarker(u2, con, newSyncRow(info)) ELSE con
           h == IF anew THEN NewHistory(g, con, info.top) ELSE g
       IN /\ s' = output.u /\ t' = output.t
          /\ con' = [c EXCEPT !.frozen = s.resizing]
          /\ g' = [h EXCEPT !.damaged = @ \/ \E r \in DOMAIN c.buf :
                                              r >= con.top /\ c.buf[r] # con.buf[r]]
  /\ pc' = IF s.resizing THEN "resize" ELSE "idle"
  /\ read' = <<>> /\ UNCHANGED info

\* directScrapeOutput: the console may have changed since info was read.
SendIfDifferent(x, line, text) ==
  IF x.u.data[line] = text THEN x
  ELSE [u |-> [x.u EXCEPT !.data[line] = text], t |-> sendLine(x.t, line, text)]

SendRows(x, count, top, rows) ==
  LET sent[k \in 0..count] ==
        IF k = 0 THEN x ELSE SendIfDifferent(sent[k - 1], k - 1, rows[top + k - 1])
  IN sent[count]

DirectScrape ==
  LET h == Min({info.height, s.ptyRows, BUFFER_LINE_COUNT})
      rows == largeConsoleRead(con, info.top, info.top + h)
      sent == SendRows([u |-> s, t |-> t], h, info.top, rows)
  IN /\ pc = "direct"
     /\ s' = sent.u
     /\ t' = IF info.cur - info.top \in 0..(h - 1)
             THEN moveTerminalToLine(sent.t, info.cur - info.top) ELSE sent.t
     /\ con' = [con EXCEPT !.frozen = FALSE]
     /\ pc' = "idle"
     /\ UNCHANGED <<info, read, g>>

----------------------------------------------------------------------------
(***************************************************************************)
(* resizeImpl: the console is unfrozen around the changes of the font and  *)
(* of the buffer's size.                                                   *)
(***************************************************************************)
\* Mutated form: the number of a line is not wrapped.
clearBufferLinesUnwrapped(u, count) ==
  LET lines == {row + u.scrolledCount : row \in 0..(count - 1)}
  IN [u EXCEPT !.data = [k \in DOMAIN @ \union lines |-> IF k \in lines THEN Blank ELSE @[k]]]

clearBufferLines(u, count) ==
  [u EXCEPT !.maxBufferedLine = Max({@, count - 1 + u.scrolledCount}),
            !.data = [k \in DOMAIN @ |->
              IF \E row \in 0..(count - 1) : (row + u.scrolledCount) % BUFFER_LINE_COUNT = k
              THEN Blank ELSE @[k]]]

\* Nothing is left above the window but the marker.
ClearHistory ==
  LET row == Min({s.syncRow, BUFFER_LINE_COUNT - s.ptyRows - SYNC_MARKER_LEN - SYNC_MARKER_MARGIN})
      cleared == clearLines(con, 0, info.top)
      u == IF info.top > 0 THEN clearBufferLines(s, info.top) ELSE s
  IN /\ pc = "resize"
     /\ con' = [IF s.directMode THEN con
                ELSE IF s.syncRow = -1 THEN cleared
                ELSE WithMarker(s, cleared, row) EXCEPT !.frozen = FALSE]
     /\ s' = IF s.directMode
             THEN [s EXCEPT !.data = [i \in DOMAIN @ |-> Unset]]
             ELSE IF s.syncRow = -1 THEN u ELSE MarkerCreated(u, row)
     /\ g' = IF s.directMode THEN g
             ELSE [g EXCEPT !.quiet = FALSE,
                            !.erased = @ \union {r + s.scrolledCount : r \in 0..(info.top - 1)},
                            !.damaged = @ \/ \E r \in DOMAIN con.buf :
                                              r >= con.top /\ con'.buf[r] # con.buf[r]]
     /\ pc' = "shrinkWindow"
     /\ UNCHANGED <<t, info, read>>

ensureLineIncluded(top, height, line) ==
  CASE line < top           -> line
    [] line >= top + height -> line - height + 1
    [] OTHER                -> top

WithCursor(top, height) ==
  IF con.cur \in Window(con) THEN ensureLineIncluded(top, height, con.cur) ELSE top

ShrinkWindow ==
  LET height == Min({BufferHeight(con), s.ptyRows})
      top == Min({BufferHeight(con) - height, con.top})
  IN /\ pc = "shrinkWindow"
     /\ con' = moveWindow(con, WithCursor(top, height), height)
     /\ pc' = "resizeBuffer"
     /\ UNCHANGED <<s, t, info, read, g>>

ResizeBuffer ==
  /\ pc = "resizeBuffer"
  /\ con' = resizeBufferRange(con, IF info.height = info.bufferHeight THEN s.ptyRows
                                    ELSE Max({s.ptyRows, info.bufferHeight}))
  /\ pc' = "expandWindow"
  /\ UNCHANGED <<s, t, info, read, g>>

ExpandWindow ==
  LET rows == s.ptyRows
      top == Min({BufferHeight(con) - rows, con.top})
      dirtyTop == IF ~s.directMode /\ s.dirtyLineCount > top + rows
                  THEN s.dirtyLineCount - rows ELSE top
      finalTop == WithCursor(dirtyTop, rows)
  IN /\ pc = "expandWindow"
     /\ con' = [moveWindow(con, finalTop, rows) EXCEPT !.frozen = s.directMode]
     /\ s' = [s EXCEPT !.dirtyWindowTop = finalTop, !.resizing = FALSE]
     /\ pc' = IF s.directMode THEN "direct" ELSE "idle"
     /\ t' = ResizedTerminal(t, rows)
     /\ g' = [g EXCEPT !.quiet = FALSE]
     /\ UNCHANGED <<info, read>>

\* Scraper::resizeWindow.
resizeWindow(rows) ==
  /\ pc = "idle" /\ ~s.resizing /\ g.odd < MaxOdd
  /\ s' = [s EXCEPT !.ptyRows = rows, !.resizing = TRUE]
  /\ g' = [g EXCEPT !.odd = @ + 1]
  /\ UNCHANGED <<con, t, pc, info, read>>

----------------------------------------------------------------------------
(***************************************************************************)
(* The application, whenever the console is not frozen.                    *)
(***************************************************************************)
Logged(row, text) ==
  [g EXCEPT !.quiet = FALSE, !.log = Put(@, row + g.scroll, text),
            !.touched = @ \union ({row + g.scroll} \intersect g.erased)]

WriteLine ==
  LET text == Text(g.written + 1, 0)
      h == [Logged(con.cur, text) EXCEPT !.written = @ + 1, !.burst = @ + 1]
      last == BufferHeight(con) - 1
      buf == [con.buf EXCEPT ![con.cur] = text]
  IN /\ ~con.frozen /\ g.written < MaxLines /\ g.burst < MaxBurst
     /\ \/ /\ con.cur < last
           /\ con' = [con EXCEPT !.buf = buf, !.cur = @ + 1,
                                 !.top = Max({@, con.cur + 2 - con.height})]
           /\ g' = h
        \/ /\ con.cur = last
           /\ con' = [con EXCEPT !.buf = [r \in DOMAIN @ |->
                                            IF r < last THEN buf[r + 1] ELSE Blank]]
           /\ g' = [h EXCEPT !.scroll = @ + 1]
     /\ UNCHANGED <<s, t, pc, info, read>>

\* Between two steps of a resize the console is not frozen, and the scraper takes
\* what happens there for its own doing.
Resizing == pc \in {"shrinkWindow", "resizeBuffer", "expandWindow"}

Odd == ~con.frozen /\ g.odd < MaxOdd /\ UNCHANGED <<s, t, pc, info, read>>

Edit(row, blank) ==
  LET text == IF blank THEN Blank ELSE Text(g.written, g.odd + 1)
  IN /\ Odd
     /\ con' = [con EXCEPT !.buf[row] = text]
     /\ g' = [Logged(row, text) EXCEPT !.odd = @ + 1, !.missed = @ \/ Resizing]

MoveCursor(row) ==
  /\ Odd /\ row # con.cur
  /\ con' = [con EXCEPT !.cur = row]
  /\ g' = [g EXCEPT !.quiet = FALSE, !.odd = @ + 1, !.missed = @ \/ Resizing]

\* What was on the console is gone without having scrolled.  It goes unnoticed if
\* the poll under way has read the window's position already.
Rewritten(unseen) ==
  [g EXCEPT !.quiet = FALSE, !.odd = @ + 1, !.damaged = TRUE,
            !.missed = @ \/ unseen \/ pc \notin {"idle", "direct"},
            !.log = [l \in {k \in DOMAIN @ : k < g.scroll} |-> @[l]]]

\* CLS.
Clear ==
  /\ Odd
  /\ con' = [con EXCEPT !.buf = [r \in DOMAIN @ |-> Blank], !.top = 0, !.cur = 0]
  /\ g' = Rewritten(FALSE)

\* A full-screen application sets the height of the buffer, and restores it: if
\* it does both between two polls, nobody notices.
SetBufferHeight(rows) ==
  LET height == Min({con.height, rows}) IN
  /\ Odd /\ rows # BufferHeight(con)
  /\ con' = resizeBufferRange([con EXCEPT !.height = height], rows)
  /\ g' = Rewritten(rows = BUFFER_LINE_COUNT /\ ~s.directMode)

----------------------------------------------------------------------------
ScraperInit ==
  /\ con = [buf |-> [r \in 0..(BUFFER_LINE_COUNT - 1) |-> Blank], top |-> 0,
            height |-> InitialRows, cur |-> 0, frozen |-> FALSE]
  /\ \E newW10 \in NewW10Builds :
       s = NewTracking([isNewW10 |-> newW10,
                      syncCounter |-> 0, directMode |-> FALSE, ptyRows |-> InitialRows,
                      resizing |-> FALSE, failed |-> FALSE, data |-> <<>>, syncRow |-> -1,
                      scrapedLineCount |-> 0, scrolledCount |-> 0, maxBufferedLine |-> -1,
                      dirtyWindowTop |-> -1, dirtyLineCount |-> 0], 0)
  /\ t = NewTerminal /\ pc = "idle" /\ info = bufferInfo(con) /\ read = <<>>
  /\ g = [written |-> 0, burst |-> 0, odd |-> 0, quiet |-> FALSE, scroll |-> 0, base |-> 0,
          log |-> <<>>, damaged |-> FALSE, missed |-> FALSE, erased |-> {}, touched |-> {}]

AgentStep ==
  \/ ReadInfo \/ Tentative \/ ReadContent \/ CheckInfo \/ CheckMarker
  \/ Freeze \/ FrozenScrape \/ DirectScrape
  \/ ClearHistory \/ ShrinkWindow \/ ResizeBuffer \/ ExpandWindow

AppStep ==
  \/ WriteLine \/ Clear
  \/ \E row \in Window(con) : MoveCursor(row) \/ \E blank \in BOOLEAN : Edit(row, blank)
  \/ \E rows \in AppHeights \union {BUFFER_LINE_COUNT} : SetBufferHeight(rows)

ScraperNext ==
  /\ ~s.failed
  /\ AgentStep \/ AppStep \/ \E rows \in OtherRows \union {InitialRows} : resizeWindow(rows)

ScraperSpec == ScraperInit /\ [][ScraperNext]_scraperVars

----------------------------------------------------------------------------
(***************************************************************************)
(* Properties.                                                             *)
(***************************************************************************)
(* Window and cursor are inside the buffer, the line buffer keeps its size,*)
(* the marker lies inside the scrolling buffer, a direct-mode scrape has   *)
(* none, the terminal's cursor is on its screen.  No ASSERT on rows or on  *)
(* the offset into the line buffer has failed, and the window is expected  *)
(* on a row of the buffer, unless the application set or restored a height *)
(* unnoticed: that may move the marker to row 0, or leave less than the    *)
(* window needs.                                                           *)
ScraperTypeOK ==
  /\ DOMAIN con.buf = 0..(BufferHeight(con) - 1)
  /\ Window(con) \subseteq DOMAIN con.buf /\ con.cur \in DOMAIN con.buf
  /\ DOMAIN s.data = 0..(BUFFER_LINE_COUNT - 1)
  /\ s.syncRow \in -1..(BUFFER_LINE_COUNT - SYNC_MARKER_LEN)
  /\ s.directMode => s.syncRow = -1
  /\ s.scrolledCount \in Nat /\ s.scrapedLineCount \in Nat
  /\ s.dirtyLineCount \in 0..BUFFER_LINE_COUNT /\ s.dirtyWindowTop <= BUFFER_LINE_COUNT
  /\ t.y \in t.top..(t.top + t.height - 1)
  /\ g.missed \/ (~s.failed /\ s.dirtyWindowTop >= -1)

\* The console is as it was when the last poll began.
Settled == pc = "idle" /\ g.quiet

(* The marker, moved, recreated and lost, gives the number of lines that   *)
(* really scrolled.                                                        *)
ScrollCountExact ==
  Settled /\ ~s.directMode /\ ~g.damaged => s.scrolledCount = g.scroll

(* Whatever has left the window is in the terminal's history, once, in     *)
(* order, with the text it had last, if nothing was missed.                *)
HistoryComplete ==
  pc = "idle" /\ ~s.directMode /\ ~g.damaged /\ ~g.missed =>
    \A line \in (g.base..(s.scrapedLineCount - 1)) \ g.touched :
      ShownAt(line) = At(g.log, line, Blank)

(* After a poll during which nothing happened, the terminal shows the      *)
(* window, row by row, though only lines believed to be modified are sent. *)
(* Lines erased by a resize may come back blank: they are not sent again.  *)
WindowShown ==
  Settled /\ ~g.missed =>
    \A r \in Window(con) :
      IF s.directMode THEN ShownAt(r - con.top) = con.buf[r]
      ELSE \/ ShownAt(r + s.scrolledCount) = con.buf[r]
           \/ con.buf[r] = Blank /\ (r + s.scrolledCount) \in g.erased

(* No line is sent that has already left the terminal's screen: it would   *)
(* land on the first row instead.  Of what is missed this is not true, nor *)
(* in direct mode, where a lower terminal may not hold the last scrape.    *)
NeverAboveScreen == ~g.missed /\ ~s.directMode => ~t.clamped

LeavesWindow ==
  pc \in {"frozen", "resize"} /\ con.frozen =>
    \A r \in Window(con) : con'.buf[r] = con.buf[r]

(* A sync marker is placed into the history: what the application has in   *)
(* the window is never overwritten.                                        *)
ConsoleLeftAlone == [][LeavesWindow]_scraperVars

(* So it is where the console is frozen before the position is read.       *)
ConsoleLeftAloneBeforeW10 == [][s.isNewW10 \/ g.missed \/ LeavesWindow]_scraperVars

=============================================================================
