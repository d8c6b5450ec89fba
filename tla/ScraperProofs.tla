--------------------------- MODULE ScraperProofs ---------------------------
(***************************************************************************)
(* Theorems about the scraper, for any size of the buffer, of the marker   *)
(* and its margin, any heights and any amount of output: its numbers stay  *)
(* where they belong, where the console is frozen before its position is   *)
(* read the sync marker is never written over the program's window, where  *)
(* a marker is found tells how much the buffer has scrolled, and no ASSERT *)
(* on rows fails.                                                          *)
(***************************************************************************)
EXTENDS Scraper, FiniteSetTheorems, RecursionTheorems

----------------------------------------------------------------------------
(***************************************************************************)
(* The largest and the least number of a set.                              *)
(***************************************************************************)
LEMMA MaxOfBounded ==
  ASSUME NEW n \in Nat, NEW S \in SUBSET (0..n), S # {}
  PROVE  Max(S) \in S /\ \A y \in S : Max(S) >= y
  BY GreatestExists DEF Max

LEMMA MaxOfTwo ==
  ASSUME NEW a \in Int, NEW b \in Int
  PROVE  Max({a, b}) = IF a >= b THEN a ELSE b
<1>1. CASE a >= b
  BY <1>1 DEF Max
<1>2. CASE ~(a >= b)
  BY <1>2 DEF Max
<1> QED BY <1>1, <1>2

LEMMA MinOfTwo ==
  ASSUME NEW a \in Int, NEW b \in Int
  PROVE  Min({a, b}) = IF a <= b THEN a ELSE b
<1>1. CASE a <= b
  BY <1>1 DEF Min
<1>2. CASE ~(a <= b)
  BY <1>2 DEF Min
<1> QED BY <1>1, <1>2

LEMMA LeastOfThree ==
  ASSUME NEW a \in Int, NEW b \in Int, NEW c \in Int
  PROVE  LET m == Min({a, b, c}) IN m \in {a, b, c} /\ m <= a /\ m <= b /\ m <= c
<1>1. \E x \in {a, b, c} : \A y \in {a, b, c} : x =< y
  <2>1. CASE a <= b /\ a <= c
    BY <2>1
  <2>2. CASE b <= a /\ b <= c
    BY <2>2
  <2>3. CASE c <= a /\ c <= b
    BY <2>3
  <2> QED BY <2>1, <2>2, <2>3
<1> QED BY <1>1 DEF Min

----------------------------------------------------------------------------
(***************************************************************************)
(* Types.                                                                  *)
(***************************************************************************)
Rows == OtherRows \union {InitialRows}

Row == {"blank", "unset", "garbage", "text", "marker"} \X Nat \X Nat

Buffers == UNION {[0..(h - 1) -> Row] : h \in Nat}

\* The window and the cursor are inside the buffer.
Consoles ==
  {c \in [buf: Buffers, top: Nat, height: Nat \ {0}, cur: Nat, frozen: BOOLEAN] :
     /\ DOMAIN c.buf = 0..(BufferHeight(c) - 1)
     /\ c.top + c.height <= BufferHeight(c) /\ c.cur < BufferHeight(c)
     /\ c.height < BUFFER_LINE_COUNT}

Infos ==
  {i \in [top: Nat, height: Nat \ {0}, cur: Nat, bufferHeight: Nat] :
     /\ i.top + i.height <= i.bufferHeight /\ i.cur < i.bufferHeight
     /\ i.height < BUFFER_LINE_COUNT}

Scrapers ==
  [isNewW10: BOOLEAN, syncCounter: Nat, directMode: BOOLEAN, ptyRows: Rows,
   resizing: BOOLEAN, failed: BOOLEAN, data: [0..(BUFFER_LINE_COUNT - 1) -> Row],
   syncRow: -1..(BUFFER_LINE_COUNT - SYNC_MARKER_LEN),
   scrapedLineCount: Nat, scrolledCount: Nat, maxBufferedLine: Int,
   dirtyWindowTop: Int, dirtyLineCount: 0..BUFFER_LINE_COUNT]

TerminalRows == UNION {[D -> Row] : D \in {E \in SUBSET Nat : \E n \in Nat : E \subseteq 0..n}}

\* The cursor is on the screen.
Terminals ==
  {u \in [rows: TerminalRows, y: Nat, top: Nat, height: Nat \ {0},
          remoteLine: Int, clamped: BOOLEAN] : u.y \in u.top..(u.top + u.height - 1)}

LEMMA Sizes ==
  /\ BUFFER_LINE_COUNT \in Nat \ {0} /\ SYNC_MARKER_LEN \in Nat \ {0}
  /\ SYNC_MARKER_MARGIN \in Nat \ {0} /\ InitialRows \in Rows
  /\ Rows \subseteq Nat \ {0} /\ AppHeights \subseteq Nat \ {0}
  /\ \A rows \in Rows : rows + SYNC_MARKER_LEN + SYNC_MARKER_MARGIN < BUFFER_LINE_COUNT
  BY ScraperAssumption DEF Rows

LEMMA RowKinds ==
  /\ Blank \in Row /\ Unset \in Row /\ Garbage \in Row
  /\ \A n \in Nat, v \in Nat : Text(n, v) \in Row /\ Marker(n, v) \in Row
  BY DEF Blank, Unset, Garbage, Text, Marker, Row

LEMMA HeightOf ==
  ASSUME NEW h \in Nat, NEW c, DOMAIN c.buf = 0..(h - 1)
  PROVE  BufferHeight(c) = h
<1>1. Cardinality(0..(h - 1)) = IF 0 > h - 1 THEN 0 ELSE (h - 1) - 0 + 1
  BY FS_Interval
<1> QED BY <1>1 DEF BufferHeight

----------------------------------------------------------------------------
(***************************************************************************)
(* The console.                                                            *)
(***************************************************************************)
LEMMA ConsoleFacts ==
  ASSUME NEW c \in Consoles
  PROVE  /\ BufferHeight(c) \in Nat \ {0} /\ DOMAIN c.buf = 0..(BufferHeight(c) - 1)
         /\ c.buf \in [0..(BufferHeight(c) - 1) -> Row]
         /\ c.top \in Nat /\ c.height \in Nat \ {0} /\ c.cur \in Nat /\ c.frozen \in BOOLEAN
         /\ c.top + c.height <= BufferHeight(c) /\ c.cur < BufferHeight(c)
         /\ c.height < BUFFER_LINE_COUNT
<1>1. PICK h \in Nat : c.buf \in [0..(h - 1) -> Row]
  BY DEF Consoles, Buffers
<1>2. BufferHeight(c) = h
  BY <1>1, HeightOf
<1> QED BY <1>1, <1>2, Sizes DEF Consoles

ConsoleRecords == [buf: Buffers, top: Nat, height: Nat \ {0}, cur: Nat, frozen: BOOLEAN]

\* A buffer and a window and a cursor that fit into it make a console.
LEMMA ConsoleFits ==
  ASSUME NEW d \in ConsoleRecords, NEW h \in Nat, d.buf \in [0..(h - 1) -> Row],
         d.top + d.height <= h, d.cur < h, d.height < BUFFER_LINE_COUNT
  PROVE  d \in Consoles /\ BufferHeight(d) = h
<1>1. BufferHeight(d) = h
  BY HeightOf
<1> QED BY <1>1 DEF Consoles, ConsoleRecords

LEMMA ConsoleIsRecord ==
  ASSUME NEW c \in Consoles
  PROVE  c \in ConsoleRecords
  BY DEF Consoles, ConsoleRecords

\* d is c with another contents of its rows.
Refilled(c, d) ==
  /\ d \in Consoles /\ BufferHeight(d) = BufferHeight(c)
  /\ d.top = c.top /\ d.height = c.height /\ d.cur = c.cur /\ d.frozen = c.frozen

LEMMA BufRefilled ==
  ASSUME NEW c \in Consoles, NEW buf \in [0..(BufferHeight(c) - 1) -> Row]
  PROVE  Refilled(c, [c EXCEPT !.buf = buf]) /\ [c EXCEPT !.buf = buf].buf = buf
<1> DEFINE d == [c EXCEPT !.buf = buf]
<1>1. c \in ConsoleRecords /\ buf \in Buffers
  BY ConsoleFacts, ConsoleIsRecord DEF Buffers
<1>2. /\ d \in ConsoleRecords /\ d.buf = buf
      /\ d.top = c.top /\ d.height = c.height /\ d.cur = c.cur /\ d.frozen = c.frozen
  BY <1>1 DEF ConsoleRecords
<1> HIDE DEF d
<1>3. d \in Consoles /\ BufferHeight(d) = BufferHeight(c)
  BY <1>2, ConsoleFacts, ConsoleFits
<1> QED BY <1>2, <1>3 DEF Refilled, d

LEMMA LinesCleared ==
  ASSUME NEW c \in Consoles, NEW row \in Int, NEW count \in Int
  PROVE  /\ Refilled(c, clearLines(c, row, count))
         /\ \A r \in DOMAIN c.buf : r \notin row..(row + count - 1) =>
              clearLines(c, row, count).buf[r] = c.buf[r]
         /\ \A r \in DOMAIN c.buf : clearLines(c, row, count).buf[r] \in {Blank, c.buf[r]}
<1> DEFINE buf == [r \in DOMAIN c.buf |-> IF r \in row..(row + count - 1) THEN Blank ELSE c.buf[r]]
<1>1. clearLines(c, row, count) = [c EXCEPT !.buf = buf]
  BY DEF clearLines
<1>2. buf \in [0..(BufferHeight(c) - 1) -> Row]
  BY ConsoleFacts, RowKinds
<1>3. /\ \A r \in DOMAIN c.buf : r \notin row..(row + count - 1) => buf[r] = c.buf[r]
      /\ \A r \in DOMAIN c.buf : buf[r] \in {Blank, c.buf[r]}
  OBVIOUS
<1> HIDE DEF buf
<1> QED BY <1>1, <1>2, <1>3, BufRefilled

LEMMA MarkerWritten ==
  ASSUME NEW u \in Scrapers, NEW c \in Consoles, NEW row \in Int
  PROVE  /\ Refilled(c, WithMarker(u, c, row))
         /\ \A r \in DOMAIN c.buf : r >= row + SYNC_MARKER_LEN =>
              WithMarker(u, c, row).buf[r] = c.buf[r]
         /\ \A r \in DOMAIN c.buf :
              \/ /\ r \in row..(row + SYNC_MARKER_LEN - 1)
                 /\ WithMarker(u, c, row).buf[r] = Marker(u.syncCounter + 1, r - row)
              \/ WithMarker(u, c, row).buf[r] \in {Blank, c.buf[r]}
<1> DEFINE e == clearLines(c, row - 1, SYNC_MARKER_LEN + 1)
           buf == [r \in DOMAIN e.buf |-> IF r \in row..(row + SYNC_MARKER_LEN - 1)
                                          THEN Marker(u.syncCounter + 1, r - row) ELSE e.buf[r]]
<1>1. WithMarker(u, c, row) = [e EXCEPT !.buf = buf]
  BY DEF WithMarker
<1>2. /\ Refilled(c, e)
      /\ \A r \in DOMAIN c.buf : r \notin (row - 1)..((row - 1) + (SYNC_MARKER_LEN + 1) - 1) =>
           e.buf[r] = c.buf[r]
      /\ \A r \in DOMAIN c.buf : e.buf[r] \in {Blank, c.buf[r]}
  BY Sizes, LinesCleared
<1> HIDE DEF e
<1>3. e \in Consoles /\ DOMAIN e.buf = DOMAIN c.buf /\ \A r \in DOMAIN c.buf : r \in Int
  BY <1>2, ConsoleFacts DEF Refilled
<1>4. buf \in [0..(BufferHeight(e) - 1) -> Row]
  <2>1. u.syncCounter + 1 \in Nat
    BY DEF Scrapers
  <2>2. \A r \in Int : r \in row..(row + SYNC_MARKER_LEN - 1) =>
          Marker(u.syncCounter + 1, r - row) \in Row
    BY <2>1, Sizes, RowKinds
  <2>3. \A r \in DOMAIN e.buf : e.buf[r] \in Row
    BY <1>3, ConsoleFacts
  <2> QED BY <1>3, <2>2, <2>3, ConsoleFacts
<1>5. \A r \in DOMAIN c.buf : r >= row + SYNC_MARKER_LEN => buf[r] = c.buf[r]
  BY <1>2, <1>3, Sizes
<1>7. \A r \in DOMAIN c.buf :
        \/ r \in row..(row + SYNC_MARKER_LEN - 1) /\ buf[r] = Marker(u.syncCounter + 1, r - row)
        \/ buf[r] \in {Blank, c.buf[r]}
  BY <1>2, <1>3
<1> HIDE DEF buf
<1>6. Refilled(e, [e EXCEPT !.buf = buf]) /\ [e EXCEPT !.buf = buf].buf = buf
  BY <1>3, <1>4, BufRefilled
<1> QED BY <1>1, <1>2, <1>5, <1>6, <1>7 DEF Refilled

LEMMA WindowMoved ==
  ASSUME NEW c \in Consoles, NEW top \in Int, NEW height \in Nat \ {0}, height < BUFFER_LINE_COUNT
  PROVE  LET d == moveWindow(c, top, height)
         IN /\ d \in Consoles /\ BufferHeight(d) = BufferHeight(c) /\ d.cur = c.cur
            /\ d.frozen = c.frozen /\ d.buf = c.buf
            /\ IF top >= 0 /\ top + height <= BufferHeight(c)
               THEN d.top = top /\ d.height = height ELSE d = c
<1> DEFINE d == [c EXCEPT !.top = top, !.height = height]
<1>1. CASE top >= 0 /\ top + height <= BufferHeight(c)
  <2>1. c \in ConsoleRecords /\ top \in Nat
    BY <1>1, ConsoleIsRecord
  <2>2. /\ d \in ConsoleRecords /\ d.buf = c.buf
        /\ d.top = top /\ d.height = height /\ d.cur = c.cur /\ d.frozen = c.frozen
    BY <2>1 DEF ConsoleRecords
  <2>3. moveWindow(c, top, height) = d
    BY <1>1 DEF moveWindow
  <2> HIDE DEF d
  <2>4. d \in Consoles /\ BufferHeight(d) = BufferHeight(c)
    BY <1>1, <2>2, ConsoleFacts, ConsoleFits
  <2> QED BY <1>1, <2>2, <2>3, <2>4
<1>2. CASE ~(top >= 0 /\ top + height <= BufferHeight(c))
  BY <1>2 DEF moveWindow
<1> QED BY <1>1, <1>2

LEMMA BufferResized ==
  ASSUME NEW c \in Consoles, NEW height \in Nat \ {0}
  PROVE  LET d == resizeBufferRange(c, height)
         IN /\ d \in Consoles /\ d.frozen = c.frozen /\ d.height = c.height
            /\ height = BufferHeight(c) => BufferHeight(d) = height /\ d.top = c.top
            /\ IF height < c.height THEN d = c
               ELSE /\ BufferHeight(d) = height
                    /\ d.top = IF c.top <= height - c.height THEN c.top ELSE height - c.height
                    /\ d.cur = IF c.cur <= height - 1 THEN c.cur ELSE height - 1
                    /\ d.buf = [r \in 0..(height - 1) |-> At(c.buf, r, Blank)]
<1> DEFINE buf == [r \in 0..(height - 1) |-> At(c.buf, r, Blank)]
           top == Min({c.top, height - c.height})
           cur == Min({c.cur, height - 1})
           d == [c EXCEPT !.buf = buf, !.top = top, !.cur = cur]
<1>1. CASE height < c.height
  BY <1>1, ConsoleFacts DEF resizeBufferRange
<1>2. CASE ~(height < c.height)
  <2>1. resizeBufferRange(c, height) = d
    BY <1>2 DEF resizeBufferRange
  <2>2. buf \in [0..(height - 1) -> Row] /\ buf \in Buffers
    <3>1. \A r \in 0..(height - 1) : At(c.buf, r, Blank) \in Row
      BY ConsoleFacts, RowKinds DEF At
    <3>2. buf \in [0..(height - 1) -> Row]
      BY <3>1
    <3> QED BY <3>2 DEF Buffers
  <2>3. /\ top = IF c.top <= height - c.height THEN c.top ELSE height - c.height
        /\ cur = IF c.cur <= height - 1 THEN c.cur ELSE height - 1
    BY ConsoleFacts, MinOfTwo
  <2> HIDE DEF buf, top, cur
  <2>4. top \in Nat /\ cur \in Nat /\ top + c.height <= height /\ cur < height
    BY <1>2, <2>3, ConsoleFacts
  <2>5. c \in ConsoleRecords
    BY ConsoleIsRecord
  <2>6. /\ d \in ConsoleRecords /\ d.buf = buf
        /\ d.top = top /\ d.height = c.height /\ d.cur = cur /\ d.frozen = c.frozen
    BY <2>2, <2>4, <2>5 DEF ConsoleRecords
  <2> HIDE DEF d
  <2>7. d \in Consoles /\ BufferHeight(d) = height
    BY <2>2, <2>4, <2>6, ConsoleFacts, ConsoleFits
  <2> QED BY <1>2, <2>1, <2>3, <2>6, <2>7, ConsoleFacts DEF buf
<1> QED BY <1>1, <1>2

LEMMA InfoOf ==
  ASSUME NEW c \in Consoles
  PROVE  bufferInfo(c) \in Infos
  BY ConsoleFacts DEF bufferInfo, Infos

----------------------------------------------------------------------------
(***************************************************************************)
(* The terminal.                                                           *)
(***************************************************************************)
TerminalRecords == [rows: TerminalRows, y: Nat, top: Nat, height: Nat \ {0},
                    remoteLine: Int, clamped: BOOLEAN]

LEMMA TerminalFacts ==
  ASSUME NEW u
  PROVE  u \in Terminals <=> u \in TerminalRecords /\ u.top <= u.y /\ u.y < u.top + u.height
<1>1. u \in TerminalRecords =>
        (u.y \in u.top..(u.top + u.height - 1) <=> u.top <= u.y /\ u.y < u.top + u.height)
  BY DEF TerminalRecords
<1> QED BY <1>1 DEF Terminals, TerminalRecords

LEMMA RowPut ==
  ASSUME NEW rows \in TerminalRows, NEW y \in Nat, NEW text \in Row
  PROVE  Put(rows, y, text) \in TerminalRows
<1>1. PICK D \in SUBSET Nat, n \in Nat : D \subseteq 0..n /\ rows \in [D -> Row]
  BY DEF TerminalRows
<1> DEFINE E == D \union {y}
           m == IF y <= n THEN n ELSE y
<1>2. E \in SUBSET Nat /\ m \in Nat /\ E \subseteq 0..m
  BY <1>1
<1>3. Put(rows, y, text) \in [E -> Row]
  BY <1>1 DEF Put
<1> HIDE DEF E, m
<1> QED BY <1>2, <1>3 DEF TerminalRows

LEMMA TerminalMoved ==
  ASSUME NEW u \in Terminals, NEW line \in Int
  PROVE  moveTerminalToLine(u, line) \in Terminals
<1> DEFINE y == u.y + (line - u.remoteLine)
           yIn == Max({y, u.top})
           topIn == Max({u.top, y - u.height + 1})
           d == [u EXCEPT !.y = yIn, !.top = topIn, !.remoteLine = line,
                          !.clamped = u.clamped \/ y < u.top]
<1>1. u \in TerminalRecords /\ u.top \in Nat /\ u.height \in Nat \ {0} /\ y \in Int
      /\ u.clamped \in BOOLEAN
  BY TerminalFacts DEF TerminalRecords
<1>2. moveTerminalToLine(u, line) = d
  BY DEF moveTerminalToLine
<1>3. /\ yIn = IF y >= u.top THEN y ELSE u.top
      /\ topIn = IF u.top >= y - u.height + 1 THEN u.top ELSE y - u.height + 1
  BY <1>1, MaxOfTwo
<1> HIDE DEF y, yIn, topIn
<1>4. yIn \in Nat /\ topIn \in Nat /\ topIn <= yIn /\ yIn < topIn + u.height
  BY <1>1, <1>3
<1>5. (u.clamped \/ y < u.top) \in BOOLEAN
  OBVIOUS
<1>6. d \in TerminalRecords /\ d.y = yIn /\ d.top = topIn /\ d.height = u.height
  BY <1>1, <1>4, <1>5 DEF TerminalRecords
<1> HIDE DEF d
<1> QED BY <1>2, <1>4, <1>6, TerminalFacts

LEMMA TerminalSent ==
  ASSUME NEW u \in Terminals, NEW line \in Int, NEW text \in Row
  PROVE  sendLine(u, line, text) \in Terminals
<1> DEFINE m == moveTerminalToLine(u, line)
           d == [m EXCEPT !.rows = Put(m.rows, m.y, text)]
<1>1. sendLine(u, line, text) = d
  BY DEF sendLine
<1>2. m \in Terminals
  BY TerminalMoved
<1> HIDE DEF m
<1>3. m \in TerminalRecords /\ m.top <= m.y /\ m.y < m.top + m.height
  BY <1>2, TerminalFacts
<1>4. Put(m.rows, m.y, text) \in TerminalRows
  BY <1>3, RowPut DEF TerminalRecords
<1>5. d \in TerminalRecords /\ d.y = m.y /\ d.top = m.top /\ d.height = m.height
  BY <1>3, <1>4 DEF TerminalRecords
<1> HIDE DEF d
<1> QED BY <1>1, <1>3, <1>5, TerminalFacts

LEMMA NoRows == <<>> \in TerminalRows
<1>1. {} \in SUBSET Nat /\ {} \subseteq 0..0 /\ <<>> \in [{} -> Row]
  OBVIOUS
<1> QED BY <1>1 DEF TerminalRows

LEMMA TerminalCleared ==
  ASSUME NEW u \in Terminals, NEW line \in Int
  PROVE  clearTerminal(u, line) \in Terminals
<1> DEFINE d == clearTerminal(u, line)
<1>1. u \in TerminalRecords
  BY TerminalFacts
<1>2. d \in TerminalRecords /\ d.y = 0 /\ d.top = 0 /\ d.height \in Nat \ {0}
  BY <1>1, NoRows DEF clearTerminal, TerminalRecords
<1> HIDE DEF d
<1>3. d.top <= d.y /\ d.y < d.top + d.height
  BY <1>2
<1> QED BY <1>2, <1>3, TerminalFacts DEF d

LEMMA TerminalResized ==
  ASSUME NEW u \in Terminals, NEW height \in Nat \ {0}
  PROVE  ResizedTerminal(u, height) \in Terminals
<1> DEFINE S == DOMAIN u.rows \union {u.y}
           last == Max(S)
           least == Min({u.top, last - height + 1})
           top == IF height < u.height THEN Max({u.top, u.y - height + 1}) ELSE Max({0, least})
           d == [u EXCEPT !.height = height, !.top = top]
<1>1. /\ u \in TerminalRecords /\ u.y \in Nat /\ u.top \in Nat /\ u.height \in Nat
      /\ u.top <= u.y /\ u.y < u.top + u.height
  BY TerminalFacts DEF TerminalRecords
<1>2. last \in Nat /\ last >= u.y
  <2>1. PICK n \in Nat : DOMAIN u.rows \subseteq 0..n
    BY <1>1 DEF TerminalRecords, TerminalRows
  <2> DEFINE m == IF u.y <= n THEN n ELSE u.y
  <2>2. m \in Nat /\ S \in SUBSET (0..m) /\ S # {} /\ u.y \in S
    BY <1>1, <2>1
  <2> HIDE DEF S, m
  <2>3. Max(S) \in S /\ \A y \in S : Max(S) >= y
    BY <2>2, MaxOfBounded
  <2>4. Max(S) \in 0..m /\ Max(S) >= u.y
    BY <2>2, <2>3
  <2>5. Max(S) \in Nat
    BY <2>2, <2>4
  <2> QED BY <2>4, <2>5
<1>3. ResizedTerminal(u, height) = d
  BY DEF ResizedTerminal
<1> HIDE DEF last, S
<1>4. least = IF u.top <= last - height + 1 THEN u.top ELSE last - height + 1
  BY <1>1, <1>2, MinOfTwo
<1> HIDE DEF least
<1>5. /\ Max({u.top, u.y - height + 1})
           = IF u.top >= u.y - height + 1 THEN u.top ELSE u.y - height + 1
      /\ Max({0, least}) = IF 0 >= least THEN 0 ELSE least
  BY <1>1, <1>2, <1>4, MaxOfTwo
<1>6. top \in Nat /\ top <= u.y /\ u.y < top + height
  BY <1>1, <1>2, <1>4, <1>5
<1> HIDE DEF top
<1>7. d \in TerminalRecords /\ d.y = u.y /\ d.top = top /\ d.height = height
  BY <1>1, <1>6 DEF TerminalRecords
<1> HIDE DEF d
<1> QED BY <1>3, <1>6, <1>7, TerminalFacts

----------------------------------------------------------------------------
(***************************************************************************)
(* The lines of a scrape, one after the other.                             *)
(***************************************************************************)
\* w is u with other lines in the buffer of the lines that were sent.
SamePosition(u, w) ==
  /\ w.isNewW10 = u.isNewW10 /\ w.directMode = u.directMode /\ w.ptyRows = u.ptyRows
  /\ w.resizing = u.resizing /\ w.syncRow = u.syncRow /\ w.syncCounter = u.syncCounter
  /\ w.scrapedLineCount = u.scrapedLineCount /\ w.scrolledCount = u.scrolledCount
  /\ w.dirtyWindowTop = u.dirtyWindowTop /\ w.dirtyLineCount = u.dirtyLineCount
  /\ w.failed = u.failed

Passes(u) ==
  {x \in [u: Scrapers, t: Terminals, saw: BOOLEAN] : SamePosition(u, x.u)}

LEMMA SlotOf ==
  ASSUME NEW line \in Int
  PROVE  line % BUFFER_LINE_COUNT \in 0..(BUFFER_LINE_COUNT - 1)
  BY Sizes

LEMMA LineSent ==
  ASSUME NEW u, NEW x \in Passes(u), NEW line \in Nat, NEW text \in Row
  PROVE  SendIfModified(x, line, text) \in Passes(u)
<1> DEFINE slot == line % BUFFER_LINE_COUNT
           modified == x.saw \/ line > x.u.maxBufferedLine \/ x.u.data[slot] # text
           data == [x.u.data EXCEPT ![slot] = text]
           last == Max({x.u.maxBufferedLine, line})
           w == [x.u EXCEPT !.maxBufferedLine = last, !.data = data]
           v == IF modified THEN sendLine(x.t, line, text) ELSE x.t
<1>1. SendIfModified(x, line, text) = [u |-> w, t |-> v, saw |-> modified]
  BY Zenon DEF SendIfModified
<1>2. x.u \in Scrapers /\ x.t \in Terminals /\ x.saw \in BOOLEAN /\ SamePosition(u, x.u)
  BY DEF Passes
<1>3. data \in [0..(BUFFER_LINE_COUNT - 1) -> Row]
  <2>1. slot \in 0..(BUFFER_LINE_COUNT - 1)
    BY SlotOf
  <2> HIDE DEF slot
  <2> QED BY <1>2, <2>1 DEF Scrapers
<1>4. last \in Int
  BY <1>2, MaxOfTwo DEF Scrapers
<1>5. modified \in BOOLEAN
  BY <1>2
<1>6. v \in Terminals
  BY <1>2, TerminalSent
<1> HIDE DEF data, last, modified, v
<1>7. w \in Scrapers /\ SamePosition(u, w)
  BY <1>2, <1>3, <1>4 DEF Scrapers, SamePosition
<1> HIDE DEF w
<1> QED BY <1>1, <1>5, <1>6, <1>7 DEF Passes

LEMMA LinesSent ==
  ASSUME NEW u, NEW x \in Passes(u), NEW first \in Nat, NEW count \in Nat, NEW rows,
         \A k \in 1..count : rows[first + k - 1 - x.u.scrolledCount] \in Row
  PROVE  SendLines(x, first, count, rows) \in Passes(u)
<1> DEFINE Row1(k) == rows[first + k - 1 - x.u.scrolledCount]
           G(h) == [k \in 0..count |-> IF k = 0 THEN x
                                       ELSE SendIfModified(h[k - 1], first + k - 1, Row1(k))]
           F == [y \in Passes(u) \X (1..count) |->
                   SendIfModified(y[1], first + y[2] - 1, Row1(y[2]))]
           sent == CHOOSE h : h = G(h)
<1>1. ASSUME NEW k \in 1..count, NEW y \in Passes(u)
      PROVE  SendIfModified(y, first + k - 1, Row1(k)) \in Passes(u)
  <2>1. first + k - 1 \in Nat /\ Row1(k) \in Row
    OBVIOUS
  <2> HIDE DEF Row1
  <2> QED BY <2>1, LineSent
<1> HIDE DEF Row1
<1>2. F \in [Passes(u) \X (1..count) -> Passes(u)]
  BY <1>1
<1>3. PICK f \in [0..count -> Passes(u)] : Recurs(f, count, x, F)
  <2> HIDE DEF F
  <2> QED BY <1>2, RecursExists
<1>4. f = G(f)
  <2>1. f[0] = x
    BY <1>3 DEF Recurs
  <2>2. ASSUME NEW k \in 1..count
        PROVE  f[k] = SendIfModified(f[k - 1], first + k - 1, Row1(k))
    <3>1. f[k] = F[<<f[k - 1], k>>] /\ f[k - 1] \in Passes(u)
      <4> HIDE DEF F
      <4>1. k - 1 \in 0..count
        OBVIOUS
      <4> QED BY <1>3, <4>1 DEF Recurs
    <3> QED BY <3>1
  <2>3. \A k \in 0..count : k = 0 \/ k \in 1..count
    OBVIOUS
  <2> QED BY <2>1, <2>2, <2>3
<1>5. sent = G(sent)
  BY <1>4, Zenon
<1>6. SendLines(x, first, count, rows) = sent[count]
  BY DEF SendLines, Row1
<1> HIDE DEF sent
<1> DEFINE S == {k \in 0..count : sent[k] \in Passes(u)}
<1>7. 0 \in S
  BY <1>5
<1>8. ASSUME NEW k \in 1..count, k - 1 \in S PROVE k \in S
  <2>1. k \in 0..count /\ k # 0 /\ sent[k - 1] \in Passes(u)
    BY <1>8
  <2>2. sent[k] = SendIfModified(sent[k - 1], first + k - 1, Row1(k))
    BY <1>5, <2>1
  <2> QED BY <1>1, <2>1, <2>2
<1> HIDE DEF G
<1>9. 0..count \subseteq S
  <2> HIDE DEF S
  <2> QED BY <1>7, <1>8, IntervalInduction
<1> QED BY <1>6, <1>9

Pairs(u) == {x \in [u: Scrapers, t: Terminals] : SamePosition(u, x.u)}

LEMMA RowSent ==
  ASSUME NEW u, NEW x \in Pairs(u), NEW line \in 0..(BUFFER_LINE_COUNT - 1), NEW text \in Row
  PROVE  SendIfDifferent(x, line, text) \in Pairs(u)
<1> DEFINE data == [x.u.data EXCEPT ![line] = text]
           w == [x.u EXCEPT !.data = data]
           v == sendLine(x.t, line, text)
<1>1. SendIfDifferent(x, line, text) \in {x, [u |-> w, t |-> v]}
  BY DEF SendIfDifferent
<1>2. x.u \in Scrapers /\ x.t \in Terminals /\ SamePosition(u, x.u)
  BY DEF Pairs
<1>3. data \in [0..(BUFFER_LINE_COUNT - 1) -> Row]
  BY <1>2 DEF Scrapers
<1>4. v \in Terminals
  BY <1>2, TerminalSent
<1> HIDE DEF data, v
<1>5. w \in Scrapers /\ SamePosition(u, w)
  BY <1>2, <1>3 DEF Scrapers, SamePosition
<1> HIDE DEF w
<1> QED BY <1>1, <1>4, <1>5 DEF Pairs

LEMMA RowsSent ==
  ASSUME NEW u, NEW x \in Pairs(u), NEW count \in 0..BUFFER_LINE_COUNT, NEW top \in Int,
         NEW rows, \A k \in 1..count : rows[top + k - 1] \in Row
  PROVE  SendRows(x, count, top, rows) \in Pairs(u)
<1> DEFINE G(h) == [k \in 0..count |-> IF k = 0 THEN x
                                       ELSE SendIfDifferent(h[k - 1], k - 1, rows[top + k - 1])]
           F == [y \in Pairs(u) \X (1..count) |->
                   SendIfDifferent(y[1], y[2] - 1, rows[top + y[2] - 1])]
           sent == CHOOSE h : h = G(h)
<1>1. ASSUME NEW k \in 1..count, NEW y \in Pairs(u)
      PROVE  SendIfDifferent(y, k - 1, rows[top + k - 1]) \in Pairs(u)
  BY Sizes, RowSent
<1>2. F \in [Pairs(u) \X (1..count) -> Pairs(u)] /\ count \in Nat
  BY <1>1, Sizes
<1>3. PICK f \in [0..count -> Pairs(u)] : Recurs(f, count, x, F)
  <2> HIDE DEF F
  <2> QED BY <1>2, RecursExists
<1>4. f = G(f)
  <2>1. f[0] = x
    BY <1>3 DEF Recurs
  <2>2. ASSUME NEW k \in 1..count
        PROVE  f[k] = SendIfDifferent(f[k - 1], k - 1, rows[top + k - 1])
    <3>1. f[k] = F[<<f[k - 1], k>>] /\ f[k - 1] \in Pairs(u)
      <4> HIDE DEF F
      <4>1. k - 1 \in 0..count
        BY <1>2
      <4> QED BY <1>3, <4>1 DEF Recurs
    <3> QED BY <3>1
  <2>3. \A k \in 0..count : k = 0 \/ k \in 1..count
    BY <1>2
  <2> QED BY <2>1, <2>2, <2>3
<1>5. sent = G(sent)
  BY <1>4, Zenon
<1>6. SendRows(x, count, top, rows) = sent[count]
  BY DEF SendRows
<1> HIDE DEF sent
<1> DEFINE S == {k \in 0..count : sent[k] \in Pairs(u)}
<1>7. 0 \in S
  BY <1>2, <1>5
<1>8. ASSUME NEW k \in 1..count, k - 1 \in S PROVE k \in S
  <2>1. k \in 0..count /\ k # 0 /\ sent[k - 1] \in Pairs(u)
    BY <1>2, <1>8
  <2>2. sent[k] = SendIfDifferent(sent[k - 1], k - 1, rows[top + k - 1])
    BY <1>5, <2>1
  <2> QED BY <1>1, <2>1, <2>2
<1> HIDE DEF G
<1>9. 0..count \subseteq S
  <2> HIDE DEF S
  <2> QED BY <1>2, <1>7, <1>8, IntervalInduction
<1> QED BY <1>2, <1>6, <1>9

----------------------------------------------------------------------------
(***************************************************************************)
(* The scraper's helpers.                                                  *)
(***************************************************************************)
SameFlags(u, w) ==
  /\ w.isNewW10 = u.isNewW10 /\ w.directMode = u.directMode
  /\ w.ptyRows = u.ptyRows /\ w.resizing = u.resizing

ScrollingInfos == {i \in Infos : i.bufferHeight = BUFFER_LINE_COUNT}

LEMMA InfoFacts ==
  ASSUME NEW i \in ScrollingInfos
  PROVE  /\ i.top \in 0..BUFFER_LINE_COUNT /\ i.height \in Nat \ {0} /\ i.top \in Nat
         /\ i.cur \in 0..(BUFFER_LINE_COUNT - 1) /\ i.cur \in Nat
         /\ i.top + i.height <= BUFFER_LINE_COUNT
  BY Sizes DEF ScrollingInfos, Infos

LEMMA ScraperFacts ==
  ASSUME NEW u \in Scrapers
  PROVE  /\ u.syncRow \in Int /\ u.scrolledCount \in Nat /\ u.scrapedLineCount \in Nat
         /\ u.dirtyWindowTop \in Int /\ u.dirtyLineCount \in 0..BUFFER_LINE_COUNT
         /\ u.dirtyLineCount \in Nat /\ u.syncRow >= -1
         /\ u.syncRow + SYNC_MARKER_LEN <= BUFFER_LINE_COUNT
         /\ u.ptyRows \in Rows /\ u.ptyRows \in Nat \ {0} /\ u.syncCounter \in Nat
         /\ u.isNewW10 \in BOOLEAN /\ u.directMode \in BOOLEAN /\ u.resizing \in BOOLEAN
         /\ u.failed \in BOOLEAN /\ u.data \in [0..(BUFFER_LINE_COUNT - 1) -> Row]
<1>1. /\ u.syncRow \in -1..(BUFFER_LINE_COUNT - SYNC_MARKER_LEN)
      /\ u.scrolledCount \in Nat /\ u.scrapedLineCount \in Nat
      /\ u.dirtyWindowTop \in Int /\ u.dirtyLineCount \in 0..BUFFER_LINE_COUNT
      /\ u.ptyRows \in Rows /\ u.syncCounter \in Nat
      /\ u.isNewW10 \in BOOLEAN /\ u.directMode \in BOOLEAN /\ u.resizing \in BOOLEAN
      /\ u.failed \in BOOLEAN /\ u.data \in [0..(BUFFER_LINE_COUNT - 1) -> Row]
  BY DEF Scrapers
<1>2. u.ptyRows \in Nat \ {0}
  BY <1>1, Sizes
<1>3. /\ u.syncRow \in Int /\ u.syncRow >= -1 /\ u.dirtyLineCount \in Nat
      /\ u.syncRow + SYNC_MARKER_LEN <= BUFFER_LINE_COUNT
  BY <1>1, Sizes
<1> QED BY <1>1, <1>2, <1>3

LEMMA ConsoleReadTyped ==
  ASSUME NEW c \in Consoles, NEW first \in Int, NEW stop \in Int
  PROVE  largeConsoleRead(c, first, stop) \in [first..(stop - 1) -> Row]
<1>1. \A r \in first..(stop - 1) : At(c.buf, r, Garbage) \in Row
  BY ConsoleFacts, RowKinds DEF At
<1> QED BY <1>1 DEF largeConsoleRead

LEMMA TrackingIsNew ==
  ASSUME NEW u \in Scrapers, NEW n \in Nat
  PROVE  LET w == NewTracking(u, n)
         IN /\ w \in Scrapers /\ SameFlags(u, w) /\ w.syncRow = -1 /\ w.dirtyWindowTop = -1
            /\ w.scrolledCount = 0 /\ w.dirtyLineCount = 0 /\ w.syncCounter = u.syncCounter
            /\ w.scrapedLineCount = n /\ w.failed = u.failed
<1> DEFINE data == [i \in 0..(BUFFER_LINE_COUNT - 1) |-> Unset]
<1>1. data \in [0..(BUFFER_LINE_COUNT - 1) -> Row]
  BY RowKinds
<1>2. NewTracking(u, n) = [u EXCEPT !.data = data,
        !.syncRow = -1, !.scrapedLineCount = n, !.scrolledCount = 0,
        !.maxBufferedLine = -1, !.dirtyWindowTop = -1, !.dirtyLineCount = 0]
  BY DEF NewTracking
<1> HIDE DEF data
<1>3. -1 \in -1..(BUFFER_LINE_COUNT - SYNC_MARKER_LEN) /\ 0 \in 0..BUFFER_LINE_COUNT
  BY Sizes
<1> DEFINE w == NewTracking(u, n)
<1>4. /\ w.data = data /\ w.syncRow = -1 /\ w.scrapedLineCount = n /\ w.scrolledCount = 0
      /\ w.maxBufferedLine = -1 /\ w.dirtyWindowTop = -1 /\ w.dirtyLineCount = 0
      /\ w.syncCounter = u.syncCounter /\ w.failed = u.failed /\ SameFlags(u, w)
  BY <1>2 DEF Scrapers, SameFlags
<1>5. w \in Scrapers
  <2> DEFINE e == [u EXCEPT !.data = data, !.syncRow = -1, !.scrapedLineCount = n,
                            !.scrolledCount = 0]
  <2>1. e \in Scrapers
    BY <1>1, <1>3 DEF Scrapers
  <2>2. w = [e EXCEPT !.maxBufferedLine = -1, !.dirtyWindowTop = -1, !.dirtyLineCount = 0]
    BY <1>2
  <2> HIDE DEF e
  <2>3. -1 \in Int
    OBVIOUS
  <2>4. [e EXCEPT !.maxBufferedLine = -1, !.dirtyWindowTop = -1, !.dirtyLineCount = 0] \in Scrapers
    BY <1>3, <2>1, <2>3 DEF Scrapers
  <2> QED BY <2>2, <2>4
<1> QED BY <1>4, <1>5

LEMMA SyncMarkerFound ==
  ASSUME NEW u \in Scrapers, u.syncRow # -1, NEW c, NEW row \in findSyncMarker(u, c)
  PROVE  row \in -1..u.syncRow
<1> DEFINE found == {i \in 0..u.syncRow : MarkerColumn(u, c, i)}
<1>1. u.syncRow \in Nat
  BY ScraperFacts
<1>2. found # {} => Max(found) \in found
  BY <1>1, MaxOfBounded
<1>3. row \in {IF found = {} THEN -1 ELSE Max(found), u.syncRow}
  BY Zenon DEF findSyncMarker
<1>4. found \subseteq 0..u.syncRow
  OBVIOUS
<1> HIDE DEF found
<1> QED BY <1>1, <1>2, <1>3, <1>4

LEMMA MarkerFollowed ==
  ASSUME NEW u \in Scrapers, NEW i \in ScrollingInfos, NEW row \in -1..u.syncRow,
         row = -1 => u.syncRow = -1
  PROVE  LET w == MarkerFound(u, i, row)
         IN /\ w \in Scrapers /\ SameFlags(u, w) /\ w.syncRow = row
            /\ w.dirtyWindowTop = u.dirtyWindowTop /\ w.syncCounter = u.syncCounter
            /\ w.scrolledCount = u.scrolledCount + (u.syncRow - row)
            /\ w.scrapedLineCount = u.scrapedLineCount /\ w.failed = u.failed
            /\ w.dirtyLineCount \in {u.dirtyLineCount, i.top + i.height}
            /\ row = u.syncRow => w = u
<1> DEFINE S == {u.dirtyLineCount, i.top + i.height}
           w == [u EXCEPT !.scrolledCount = u.scrolledCount + (u.syncRow - row), !.syncRow = row,
                          !.dirtyLineCount = Max(S)]
<1>1. S \in SUBSET (0..BUFFER_LINE_COUNT) /\ S # {}
  BY InfoFacts, ScraperFacts
<1> HIDE DEF S
<1>2. Max(S) \in 0..BUFFER_LINE_COUNT
  BY <1>1, MaxOfBounded, Sizes
<1>3. row \in -1..(BUFFER_LINE_COUNT - SYNC_MARKER_LEN)
      /\ u.scrolledCount + (u.syncRow - row) \in Nat
  BY ScraperFacts, Sizes
<1>8. Max(S) \in {u.dirtyLineCount, i.top + i.height}
  BY <1>1, MaxOfBounded, Sizes DEF S
<1>4. /\ w \in Scrapers /\ SameFlags(u, w) /\ w.syncRow = row
      /\ w.dirtyWindowTop = u.dirtyWindowTop /\ w.syncCounter = u.syncCounter
      /\ w.scrolledCount = u.scrolledCount + (u.syncRow - row)
      /\ w.scrapedLineCount = u.scrapedLineCount /\ w.failed = u.failed
      /\ w.dirtyLineCount = Max(S)
  BY <1>2, <1>3 DEF Scrapers, SameFlags
<1>5. row = u.syncRow \/ MarkerFound(u, i, row) = w
  BY Zenon DEF MarkerFound, S
<1>6. row = u.syncRow => MarkerFound(u, i, row) = u
  BY DEF MarkerFound
<1>7. u.scrolledCount \in Int /\ u.syncRow \in Int
  BY ScraperFacts
<1> HIDE DEF w
<1> QED BY <1>4, <1>5, <1>6, <1>7, <1>8 DEF SameFlags

LEMMA DirtyIsUpdated ==
  ASSUME NEW u \in Scrapers, NEW i \in ScrollingInfos
  PROVE  LET w == DirtyUpdated(u, i)
         IN /\ w \in Scrapers /\ SameFlags(u, w) /\ w.syncRow = u.syncRow
            /\ w.dirtyWindowTop = i.top /\ w.scrolledCount = u.scrolledCount
            /\ w.syncCounter = u.syncCounter
            /\ w.scrapedLineCount = u.scrapedLineCount /\ w.failed = u.failed
            /\ i.cur < w.dirtyLineCount
            /\ \A n \in Int : u.dirtyLineCount <= n /\ i.cur < n /\ i.top + i.height <= n
                               => w.dirtyLineCount <= n
<1> DEFINE T == IF u.dirtyWindowTop # -1 /\ i.top > u.dirtyWindowTop
                THEN {i.top + i.height} ELSE {}
           S == {u.dirtyLineCount, i.cur + 1, i.top} \union T
           w == [u EXCEPT !.dirtyWindowTop = i.top, !.dirtyLineCount = Max(S)]
<1>1. DirtyUpdated(u, i) = w
  BY DEF DirtyUpdated
<1>5. ASSUME NEW n \in Int, u.dirtyLineCount <= n, i.cur < n, i.top + i.height <= n
      PROVE  \A y \in S : y <= n
  BY <1>5, InfoFacts
<1>2. S \in SUBSET (0..BUFFER_LINE_COUNT) /\ S # {}
  <2>1. u.dirtyLineCount \in 0..BUFFER_LINE_COUNT
    BY ScraperFacts
  <2>2. i.cur + 1 \in 0..BUFFER_LINE_COUNT /\ i.top \in 0..BUFFER_LINE_COUNT
        /\ i.top + i.height \in 0..BUFFER_LINE_COUNT
    BY InfoFacts, Sizes
  <2>3. T \subseteq 0..BUFFER_LINE_COUNT
    BY <2>2
  <2> HIDE DEF T
  <2> QED BY <2>1, <2>2, <2>3
<1> HIDE DEF S, T
<1>3. Max(S) \in 0..BUFFER_LINE_COUNT /\ Max(S) \in S
  BY <1>2, MaxOfBounded, Sizes
<1>4. i.top \in Int
  BY InfoFacts
<1>7. i.cur < Max(S)
  <2>1. i.cur + 1 \in S /\ i.cur \in Int
    BY InfoFacts DEF S
  <2>2. i.cur + 1 <= Max(S)
    BY <1>2, <2>1, MaxOfBounded, Sizes
  <2> QED BY <1>3, <2>1, <2>2
<1>6. /\ w \in Scrapers /\ SameFlags(u, w) /\ w.syncRow = u.syncRow
      /\ w.dirtyWindowTop = i.top /\ w.scrolledCount = u.scrolledCount
      /\ w.syncCounter = u.syncCounter /\ w.dirtyLineCount = Max(S)
      /\ w.scrapedLineCount = u.scrapedLineCount /\ w.failed = u.failed
  BY <1>3, <1>4 DEF Scrapers, SameFlags
<1> HIDE DEF w
<1> QED BY <1>1, <1>3, <1>5, <1>6, <1>7

LEMMA DirtyLinesScanned ==
  ASSUME NEW u \in Scrapers, NEW i \in ScrollingInfos, NEW rows
  PROVE  \E n \in 0..BUFFER_LINE_COUNT :
           /\ scanForDirtyLines(u, i, rows) = [u EXCEPT !.dirtyLineCount = n]
           /\ n = u.dirtyLineCount \/ n <= i.top + i.height
<1> DEFINE Q == {q \in u.dirtyLineCount..(i.top + i.height - 1) : rows[q] # Blank}
           S == {u.dirtyLineCount} \union {r + 1 : r \in Q}
<1>1. scanForDirtyLines(u, i, rows) = [u EXCEPT !.dirtyLineCount = Max(S)]
  BY DEF scanForDirtyLines
<1>2. S \in SUBSET (0..BUFFER_LINE_COUNT) /\ S # {}
  <2>1. \A q \in Q : q + 1 \in 0..BUFFER_LINE_COUNT
    BY InfoFacts, ScraperFacts, Sizes
  <2> HIDE DEF Q
  <2> QED BY <2>1, ScraperFacts
<1>3. \A y \in S : y = u.dirtyLineCount \/ y <= i.top + i.height
  <2>1. \A q \in Q : q + 1 <= i.top + i.height
    BY InfoFacts, ScraperFacts
  <2> HIDE DEF Q
  <2> QED BY <2>1
<1> HIDE DEF S
<1>4. Max(S) \in S /\ Max(S) \in 0..BUFFER_LINE_COUNT
  BY <1>2, MaxOfBounded, Sizes
<1> QED BY <1>1, <1>3, <1>4

ReadTyped(u, i, rows) ==
  rows \in [firstReadLine(u, i)..(stopReadLine(u, i) - 1) -> Row]

LEMMA ReadBounds ==
  ASSUME NEW u \in Scrapers, NEW i \in ScrollingInfos
  PROVE  /\ firstVirtLine(u, i) \in Nat
         /\ firstReadLine(u, i) \in Int /\ stopReadLine(u, i) \in Int
         /\ firstReadLine(u, i) <= firstVirtLine(u, i) - u.scrolledCount
         /\ i.top + i.height <= stopReadLine(u, i)
         /\ u.scrolledCount <= u.scrapedLineCount /\ 0 < u.dirtyLineCount
              => firstReadLine(u, i) >= 0
<1> DEFINE top == i.top
           bottom == i.top + i.height
           scrolled == u.scrolledCount
           scraped == u.scrapedLineCount
           dirty == u.dirtyLineCount
<1>1. top \in Nat /\ bottom \in Nat
  BY InfoFacts
<1>2. scrolled \in Nat /\ scraped \in Nat /\ dirty \in Nat
  BY ScraperFacts
<1>3. /\ firstVirtLine(u, i) = Min({scraped, top + scrolled})
      /\ firstReadLine(u, i) = Min({firstVirtLine(u, i) - scrolled, dirty - 1})
      /\ stopReadLine(u, i) = Max({bottom, dirty})
  BY DEF firstVirtLine, firstReadLine, stopReadLine
<1> DEFINE first == firstVirtLine(u, i)
           read1 == firstReadLine(u, i)
           stop == stopReadLine(u, i)
<1> HIDE DEF top, bottom, scrolled, scraped, dirty, first, read1, stop
<1>4. Min({scraped, top + scrolled}) \in Nat
  BY <1>1, <1>2, MinOfTwo
<1>5. first \in Nat
  BY <1>3, <1>4 DEF first
<1>6. Min({first - scrolled, dirty - 1}) \in Int /\ Min({first - scrolled, dirty - 1}) <= first - scrolled
  BY <1>2, <1>5, MinOfTwo
<1>7. Max({bottom, dirty}) \in Int /\ bottom <= Max({bottom, dirty})
  BY <1>1, <1>2, MaxOfTwo
<1>8. ASSUME scrolled <= scraped, 0 < dirty PROVE read1 >= 0
  <2>1. first >= scrolled
    <3>1. Min({scraped, top + scrolled}) >= scrolled
      BY <1>1, <1>2, <1>8, MinOfTwo
    <3> QED BY <1>3, <3>1 DEF first
  <2>2. first - scrolled \in Int /\ first - scrolled >= 0 /\ dirty - 1 >= 0 /\ dirty - 1 \in Int
    BY <1>2, <1>5, <1>8, <2>1
  <2>3. Min({first - scrolled, dirty - 1}) >= 0
    BY <2>2, MinOfTwo
  <2> QED BY <1>3, <2>3 DEF read1, first
<1> QED BY <1>3, <1>5, <1>6, <1>7, <1>8 DEF first, scrolled, scraped, dirty, bottom, read1

LEMMA ReadIsPrepared ==
  ASSUME NEW u \in Scrapers, NEW i \in ScrollingInfos
  PROVE  LET w == ReadPrepared(u, i)
         IN /\ w \in Scrapers /\ SameFlags(u, w) /\ w.syncRow = u.syncRow
            /\ w.dirtyWindowTop = i.top /\ w.scrolledCount = u.scrolledCount
            /\ w.syncCounter = u.syncCounter
            /\ w.scrapedLineCount = u.scrapedLineCount
            /\ u.scrolledCount <= u.scrapedLineCount => w.failed = u.failed
            /\ i.cur < w.dirtyLineCount
            /\ \A n \in Int : u.dirtyLineCount <= n /\ i.cur < n /\ i.top + i.height <= n
                               => w.dirtyLineCount <= n
<1> DEFINE v == DirtyUpdated(u, i)
           failed == v.failed \/ firstReadLine(v, i) < 0
           w == [v EXCEPT !.failed = failed]
<1>1. ReadPrepared(u, i) = w
  BY DEF ReadPrepared
<1>2. /\ v \in Scrapers /\ SameFlags(u, v) /\ v.syncRow = u.syncRow
      /\ v.dirtyWindowTop = i.top /\ v.scrolledCount = u.scrolledCount
      /\ v.syncCounter = u.syncCounter
      /\ v.scrapedLineCount = u.scrapedLineCount /\ v.failed = u.failed
      /\ i.cur < v.dirtyLineCount
      /\ \A n \in Int : u.dirtyLineCount <= n /\ i.cur < n /\ i.top + i.height <= n
                         => v.dirtyLineCount <= n
  BY DirtyIsUpdated
<1> HIDE DEF v
<1>3. /\ failed \in BOOLEAN
      /\ u.scrolledCount <= u.scrapedLineCount => failed = u.failed
  <2>1. i.cur \in Nat /\ v.dirtyLineCount \in Nat /\ v.failed \in BOOLEAN
    BY <1>2, InfoFacts, ScraperFacts
  <2>2. ASSUME u.scrolledCount <= u.scrapedLineCount PROVE ~(firstReadLine(v, i) < 0)
    <3>1. 0 < v.dirtyLineCount
      BY <1>2, <2>1
    <3>2. firstReadLine(v, i) \in Int /\ firstReadLine(v, i) >= 0
      BY <1>2, <2>2, <3>1, ReadBounds
    <3> QED BY <3>2
  <2> QED BY <1>2, <2>1, <2>2
<1> HIDE DEF failed
<1>4. /\ w \in Scrapers /\ SameFlags(v, w) /\ w.syncRow = v.syncRow
      /\ w.dirtyWindowTop = v.dirtyWindowTop /\ w.scrolledCount = v.scrolledCount
      /\ w.syncCounter = v.syncCounter /\ w.scrapedLineCount = v.scrapedLineCount
      /\ w.dirtyLineCount = v.dirtyLineCount /\ w.failed = failed
  BY <1>2, <1>3 DEF Scrapers, SameFlags
<1> HIDE DEF w
<1> QED BY <1>1, <1>2, <1>3, <1>4 DEF SameFlags

LEMMA OutputScrolled ==
  ASSUME NEW u0 \in Scrapers, NEW v \in Terminals, NEW i \in ScrollingInfos, NEW rows,
         ReadTyped(u0, i, rows)
  PROVE  LET out == ScrollingOutput(u0, v, i, rows)
         IN /\ out.u \in Scrapers /\ out.t \in Terminals /\ SameFlags(u0, out.u)
            /\ out.u.syncRow = u0.syncRow /\ out.u.dirtyWindowTop = u0.dirtyWindowTop
            /\ out.u.scrolledCount = u0.scrolledCount /\ out.u.syncCounter = u0.syncCounter
            /\ out.u.scrapedLineCount = i.top + u0.scrolledCount /\ out.u.failed = u0.failed
            /\ \/ out.u.dirtyLineCount = u0.dirtyLineCount
               \/ out.u.dirtyLineCount <= i.top + i.height
<1> DEFINE u == scanForDirtyLines(u0, i, rows)
           first == firstVirtLine(u, i)
           least == Min({u.dirtyLineCount, i.top + i.height})
           stop == least + u.scrolledCount
           count == Max({0, stop - first})
           x == [u |-> u, t |-> v, saw |-> FALSE]
           sent == SendLines(x, first, count, rows)
           line == i.cur + u.scrolledCount
<1>1. /\ u \in Scrapers /\ SameFlags(u0, u) /\ u.scrolledCount = u0.scrolledCount
      /\ u.scrapedLineCount = u0.scrapedLineCount
      /\ u.syncRow = u0.syncRow /\ u.dirtyWindowTop = u0.dirtyWindowTop
      /\ u.syncCounter = u0.syncCounter /\ u.failed = u0.failed
      /\ u.dirtyLineCount = u0.dirtyLineCount \/ u.dirtyLineCount <= i.top + i.height
  <2>1. PICK n \in 0..BUFFER_LINE_COUNT :
          /\ u = [u0 EXCEPT !.dirtyLineCount = n]
          /\ n = u0.dirtyLineCount \/ n <= i.top + i.height
    BY DirtyLinesScanned
  <2> HIDE DEF u
  <2> QED BY <2>1 DEF Scrapers, SameFlags
<1>2. ScrollingOutput(u0, v, i, rows) =
        [u |-> [sent.u EXCEPT !.scrapedLineCount = i.top + u.scrolledCount],
         t |-> IF i.cur \in Window(i) THEN moveTerminalToLine(sent.t, line) ELSE sent.t]
  BY DEF ScrollingOutput
<1>3. first = firstVirtLine(u0, i)
  BY <1>1 DEF firstVirtLine
<1> HIDE DEF u
<1>4. first \in Nat /\ firstReadLine(u0, i) <= first - u.scrolledCount
      /\ firstReadLine(u0, i) \in Int /\ stopReadLine(u0, i) \in Int
      /\ i.top + i.height <= stopReadLine(u0, i)
  BY <1>1, <1>3, ReadBounds
<1> HIDE DEF first
<1> DEFINE bottom == i.top + i.height
           scrolled == u.scrolledCount
<1>0. bottom \in Nat /\ u.dirtyLineCount \in Nat /\ scrolled \in Nat
  <2>1. i.top \in Nat /\ i.height \in Nat
    BY InfoFacts
  <2> QED BY <1>1, <2>1, ScraperFacts
<1> HIDE DEF bottom, scrolled
<1>5. least \in Int /\ least <= bottom
  BY <1>0, MinOfTwo DEF bottom
<1> HIDE DEF least
<1>6. count \in Nat /\ (count > 0 => count = stop - first)
  <2>1. stop - first \in Int
    BY <1>0, <1>4, <1>5 DEF scrolled
  <2> QED BY <2>1, MaxOfTwo
<1> HIDE DEF count
<1>7. \A k \in 1..count : rows[first + k - 1 - x.u.scrolledCount] \in Row
  <2> SUFFICES ASSUME NEW k \in 1..count PROVE rows[first + k - 1 - u.scrolledCount] \in Row
    OBVIOUS
  <2> DEFINE row == first + k - 1 - u.scrolledCount
  <2>1. row \in firstReadLine(u0, i)..(stopReadLine(u0, i) - 1)
    BY <1>0, <1>4, <1>5, <1>6 DEF bottom, scrolled
  <2> HIDE DEF row
  <2>2. rows[row] \in Row
    BY <2>1 DEF ReadTyped
  <2> QED BY <2>2 DEF row
<1>8. x \in Passes(u)
  BY <1>1 DEF Passes, SamePosition
<1> HIDE DEF x
<1>9. sent \in Passes(u)
  BY <1>4, <1>6, <1>7, <1>8, LinesSent
<1> HIDE DEF sent
<1>10. /\ sent.u \in Scrapers /\ sent.t \in Terminals /\ SameFlags(u, sent.u)
       /\ sent.u.syncRow = u.syncRow /\ sent.u.dirtyWindowTop = u.dirtyWindowTop
       /\ sent.u.scrolledCount = u.scrolledCount /\ sent.u.syncCounter = u.syncCounter
       /\ sent.u.dirtyLineCount = u.dirtyLineCount /\ sent.u.failed = u.failed
  BY <1>9 DEF Passes, SamePosition, SameFlags
<1>11. line \in Int /\ i.top + u.scrolledCount \in Nat
  BY <1>1, ScraperFacts, InfoFacts
<1>12. moveTerminalToLine(sent.t, line) \in Terminals
  BY <1>10, <1>11, TerminalMoved
<1> DEFINE w == [sent.u EXCEPT !.scrapedLineCount = i.top + u.scrolledCount]
<1>13. /\ w \in Scrapers /\ SameFlags(sent.u, w)
       /\ w.syncRow = sent.u.syncRow /\ w.dirtyWindowTop = sent.u.dirtyWindowTop
       /\ w.scrolledCount = sent.u.scrolledCount /\ w.syncCounter = sent.u.syncCounter
       /\ w.dirtyLineCount = sent.u.dirtyLineCount /\ w.failed = sent.u.failed
       /\ w.scrapedLineCount = i.top + u.scrolledCount
  BY <1>10, <1>11 DEF Scrapers, SameFlags
<1> HIDE DEF w
<1>14. ScrollingOutput(u0, v, i, rows).u = w
  BY <1>2 DEF w
<1>15. ScrollingOutput(u0, v, i, rows).t \in Terminals
  BY <1>2, <1>10, <1>12
<1> QED BY <1>1, <1>10, <1>13, <1>14, <1>15 DEF SameFlags

----------------------------------------------------------------------------
(***************************************************************************)
(* The invariant.                                                          *)
(***************************************************************************)
Phases == {"idle", "tentative", "read", "check", "checkMarker", "frozen", "direct",
           "resize", "shrinkWindow", "resizeBuffer", "expandWindow"}

TentativePhases == {"tentative", "read", "check", "checkMarker"}

HistoryFields == {"written", "burst", "odd", "quiet", "scroll", "base", "log", "damaged",
                  "missed", "erased", "touched"}

\* The window and the cursor are inside the buffer, the marker is inside the
\* scrolling buffer, and the terminal's cursor is on its screen.
ScraperTypes ==
  /\ con \in Consoles /\ s \in Scrapers /\ t \in Terminals /\ info \in Infos /\ pc \in Phases
  /\ s.directMode => s.syncRow = -1
  /\ DOMAIN g = HistoryFields /\ g.written \in Nat /\ g.odd \in Nat

\* The mode is the one that the height of the buffer, when it was read, calls for.
ModeFitsInfo ==
  /\ pc # "idle" => (s.directMode <=> info.bufferHeight # BUFFER_LINE_COUNT)
  /\ pc \in TentativePhases \union {"frozen"} => ~s.directMode
  /\ pc = "direct" => s.directMode

\* What has been read are the rows that will be looked at.
ReadFits == pc \in {"check", "checkMarker"} => ReadTyped(s, info, read)

\* Where the console is frozen first, it stays as it was when info was read.
InfoCurrent ==
  ~s.isNewW10 => /\ pc \notin TentativePhases
                 /\ pc \in {"frozen", "resize"} => con.frozen /\ info = bufferInfo(con)

\* The marker lies above the window: the one of the last scrape, or, while the
\* window is being resized, the one that there is.
MarkerAbove ==
  \/ s.isNewW10 \/ g.missed \/ s.syncRow = -1
  \/ /\ Resizing
     /\ s.syncRow + SYNC_MARKER_LEN <= con.top
     /\ s.syncRow + SYNC_MARKER_LEN <= BUFFER_LINE_COUNT - s.ptyRows
     /\ BufferHeight(con) = BUFFER_LINE_COUNT
  \/ /\ ~Resizing
     /\ 0 <= s.dirtyWindowTop /\ s.syncRow + SYNC_MARKER_LEN <= s.dirtyWindowTop
     /\ pc = "resize" => s.syncRow + SYNC_MARKER_LEN <= info.top

ScraperInv == ScraperTypes /\ ModeFitsInfo /\ ReadFits /\ InfoCurrent /\ MarkerAbove

WindowKept == s.isNewW10 \/ g.missed \/ LeavesWindow

LEMMA InitInv == ScraperInit => ScraperInv
<1> SUFFICES ASSUME ScraperInit PROVE ScraperInv
  OBVIOUS
<1>1. con \in Consoles
  <2> DEFINE h == BUFFER_LINE_COUNT
             buf == [r \in 0..(h - 1) |-> Blank]
  <2>1. buf \in [0..(h - 1) -> Row] /\ h \in Nat /\ buf \in Buffers
    <3>1. buf \in [0..(h - 1) -> Row] /\ h \in Nat
      BY RowKinds, Sizes
    <3> QED BY <3>1 DEF Buffers
  <2>2. con = [buf |-> buf, top |-> 0, height |-> InitialRows, cur |-> 0, frozen |-> FALSE]
    BY DEF ScraperInit
  <2> HIDE DEF buf
  <2>3. InitialRows \in Nat \ {0} /\ InitialRows < h /\ 0 < h
    BY Sizes
  <2>4. con \in ConsoleRecords
    BY <2>1, <2>2, <2>3 DEF ConsoleRecords
  <2>5. con.buf \in [0..(h - 1) -> Row] /\ con.top + con.height <= h /\ con.cur < h /\ con.height < h
    BY <2>1, <2>2, <2>3
  <2> QED BY <2>1, <2>4, <2>5, ConsoleFits
<1>2. s \in Scrapers /\ s.syncRow = -1
  <2>1. PICK newW10 \in BOOLEAN :
          s = NewTracking([isNewW10 |-> newW10,
                syncCounter |-> 0, directMode |-> FALSE, ptyRows |-> InitialRows,
                resizing |-> FALSE, failed |-> FALSE, data |-> <<>>, syncRow |-> -1,
                scrapedLineCount |-> 0, scrolledCount |-> 0, maxBufferedLine |-> -1,
                dirtyWindowTop |-> -1, dirtyLineCount |-> 0], 0)
    BY ScraperAssumption DEF ScraperInit
  <2> DEFINE data == [i \in 0..(BUFFER_LINE_COUNT - 1) |-> Unset]
             w == [isNewW10 |-> newW10,
                   syncCounter |-> 0, directMode |-> FALSE, ptyRows |-> InitialRows,
                   resizing |-> FALSE, failed |-> FALSE, data |-> data, syncRow |-> -1,
                   scrapedLineCount |-> 0, scrolledCount |-> 0, maxBufferedLine |-> -1,
                   dirtyWindowTop |-> -1, dirtyLineCount |-> 0]
  <2>2. s = w
    BY <2>1 DEF NewTracking
  <2>3. data \in [0..(BUFFER_LINE_COUNT - 1) -> Row]
    BY RowKinds
  <2>4. -1 \in -1..(BUFFER_LINE_COUNT - SYNC_MARKER_LEN) /\ 0 \in 0..BUFFER_LINE_COUNT
        /\ InitialRows \in Rows /\ -1 \in Int
    BY Sizes
  <2> HIDE DEF data
  <2>5. w \in Scrapers
    BY <2>3, <2>4 DEF Scrapers
  <2> QED BY <2>2, <2>5
<1>3. t \in Terminals
  <2>1. t \in TerminalRecords /\ t.y = 0 /\ t.top = 0 /\ t.height \in Nat \ {0}
    BY NoRows, Sizes DEF ScraperInit, NewTerminal, TerminalRecords
  <2>2. t.top <= t.y /\ t.y < t.top + t.height
    BY <2>1
  <2> QED BY <2>1, <2>2, TerminalFacts
<1>4. info \in Infos
  BY <1>1, InfoOf DEF ScraperInit
<1>5. DOMAIN g = HistoryFields /\ g.written \in Nat /\ g.odd \in Nat
  BY DEF ScraperInit, HistoryFields
<1>6. pc = "idle"
  BY DEF ScraperInit
<1> QED BY <1>1, <1>2, <1>3, <1>4, <1>5, <1>6
        DEF ScraperInv, ScraperTypes, ModeFitsInfo, ReadFits, InfoCurrent, MarkerAbove, Phases,
            TentativePhases, Resizing

----------------------------------------------------------------------------
(***************************************************************************)
(* The agent's steps.                                                      *)
(***************************************************************************)
LEMMA FrozenSet ==
  ASSUME NEW c \in Consoles, NEW b \in BOOLEAN
  PROVE  LET d == [c EXCEPT !.frozen = b]
         IN /\ d \in Consoles /\ d.frozen = b /\ d.buf = c.buf /\ d.top = c.top
            /\ d.height = c.height /\ d.cur = c.cur
            /\ BufferHeight(d) = BufferHeight(c) /\ bufferInfo(d) = bufferInfo(c)
<1> DEFINE d == [c EXCEPT !.frozen = b]
<1>1. /\ d \in ConsoleRecords /\ d.frozen = b /\ d.buf = c.buf /\ d.top = c.top
      /\ d.height = c.height /\ d.cur = c.cur
  BY ConsoleIsRecord DEF ConsoleRecords
<1> HIDE DEF d
<1>2. d \in Consoles /\ BufferHeight(d) = BufferHeight(c)
  BY <1>1, ConsoleFacts, ConsoleFits
<1>3. bufferInfo(d) = bufferInfo(c)
  BY <1>1, <1>2 DEF bufferInfo
<1> QED BY <1>1, <1>2, <1>3 DEF d

LEMMA ReadInfoStep ==
  ASSUME ScraperInv, ReadInfo
  PROVE  ScraperInv'
<1> DEFINE i == bufferInfo(con)
           direct == i.bufferHeight # BUFFER_LINE_COUNT
           switch == direct # s.directMode
           first == IF direct THEN 0 ELSE i.top
           frozen == ~s.isNewW10 \/ s.resizing
           u == IF switch THEN NewTracking(s, first) ELSE s
           resizing == u.resizing \/ (switch /\ ~direct)
<1>1. /\ con \in Consoles /\ s \in Scrapers /\ t \in Terminals /\ pc = "idle"
      /\ s.directMode => s.syncRow = -1
      /\ DOMAIN g = HistoryFields /\ g.written \in Nat /\ g.odd \in Nat
  BY DEF ScraperInv, ScraperTypes, ReadInfo
<1>2. /\ con' = [con EXCEPT !.frozen = frozen]
      /\ s' = [u EXCEPT !.directMode = direct, !.resizing = resizing]
      /\ t' = IF switch THEN clearTerminal(t, first) ELSE t
      /\ info' = i
      /\ pc' = IF direct THEN IF s.resizing THEN "resize" ELSE "direct"
               ELSE IF frozen \/ switch THEN "frozen" ELSE "tentative"
  BY DEF ReadInfo
<1>3. i \in Infos /\ i.top \in Nat
  BY <1>1, InfoOf DEF Infos
<1>4. DOMAIN g' = HistoryFields /\ g'.written \in Nat /\ g'.odd \in Nat
      /\ (~switch /\ g.missed => g'.missed)
  BY <1>1 DEF ReadInfo, NewHistory, HistoryFields
<1>5. /\ u \in Scrapers /\ SameFlags(s, u)
      /\ IF switch THEN u.syncRow = -1 ELSE u = s
  <2>1. CASE switch
    <3>1. first \in Nat
      BY <1>3
    <3> QED BY <1>1, <2>1, <3>1, TrackingIsNew
  <2>2. CASE ~switch
    BY <1>1, <2>2 DEF SameFlags
  <2> QED BY <2>1, <2>2
<1>6. first \in Int /\ frozen \in BOOLEAN /\ direct \in BOOLEAN /\ switch \in BOOLEAN
  BY <1>3
<1>7. t' \in Terminals
  BY <1>1, <1>2, <1>6, TerminalCleared
<1>8. con' \in Consoles /\ con'.frozen = frozen /\ bufferInfo(con') = i
  BY <1>1, <1>2, <1>6, FrozenSet
<1> HIDE DEF u, i
<1>9. resizing \in BOOLEAN
  BY <1>5 DEF Scrapers
<1>10. /\ s' \in Scrapers /\ s'.isNewW10 = s.isNewW10 /\ s'.directMode = direct
       /\ s'.syncRow = u.syncRow /\ s'.dirtyWindowTop = u.dirtyWindowTop
  BY <1>2, <1>5, <1>6, <1>9 DEF Scrapers, SameFlags
<1> HIDE DEF resizing
<1>11. ScraperTypes'
  BY <1>1, <1>2, <1>3, <1>4, <1>5, <1>7, <1>8, <1>10 DEF ScraperTypes, Phases
<1>12. ModeFitsInfo'
  BY <1>2, <1>10 DEF ModeFitsInfo, TentativePhases
<1>13. ReadFits'
  BY <1>2 DEF ReadFits
<1>14. InfoCurrent'
  BY <1>1, <1>2, <1>8, <1>10 DEF InfoCurrent, TentativePhases
<1>15. MarkerAbove'
  <2>1. s.isNewW10 \/ g.missed \/ s.syncRow = -1
        \/ (0 <= s.dirtyWindowTop /\ s.syncRow + SYNC_MARKER_LEN <= s.dirtyWindowTop)
    BY <1>1 DEF ScraperInv, MarkerAbove, Resizing
  <2>2. pc' = "resize" => s'.syncRow = -1
    BY <1>1, <1>2, <1>5, <1>10
  <2>3. ~Resizing'
    BY <1>2 DEF Resizing
  <2> QED BY <1>4, <1>5, <1>10, <2>1, <2>2, <2>3 DEF MarkerAbove
<1> QED BY <1>11, <1>12, <1>13, <1>14, <1>15 DEF ScraperInv

LEMMA FreezeStep ==
  ASSUME ScraperInv, Freeze
  PROVE  ScraperInv'
<1>1. con \in Consoles /\ s.isNewW10
  BY DEF ScraperInv, ScraperTypes, InfoCurrent, Freeze, Scrapers
<1>2. con' \in Consoles
  BY <1>1, FrozenSet DEF Freeze
<1>3. UNCHANGED <<s, t, pc, info, read, g>>
  BY DEF Freeze
<1> QED BY <1>1, <1>2, <1>3 DEF ScraperInv, ScraperTypes, ModeFitsInfo, ReadFits, ReadTyped,
      firstReadLine, stopReadLine, firstVirtLine, InfoCurrent, MarkerAbove, TentativePhases

\* Where the marker may be found.
LEMMA MarkerRowFound ==
  ASSUME s \in Scrapers, NEW row \in MarkerRows
  PROVE  row \in -1..s.syncRow
<1>1. CASE s.syncRow = -1
  BY <1>1 DEF MarkerRows
<1>2. CASE s.syncRow # -1
  <2>1. row \in findSyncMarker(s, con)
    BY <1>2 DEF MarkerRows
  <2> QED BY <1>2, <2>1, SyncMarkerFound
<1> QED BY <1>1, <1>2

LEMMA TentativeStep ==
  ASSUME ScraperInv, Tentative
  PROVE  ScraperInv'
<1>1. /\ s \in Scrapers /\ pc = "tentative" /\ s.isNewW10 /\ ~s.directMode
      /\ info \in ScrollingInfos
  BY DEF ScraperInv, ScraperTypes, ModeFitsInfo, InfoCurrent, Tentative, TentativePhases,
         ScrollingInfos, Scrapers
<1>2. UNCHANGED <<con, t, info, read, g>> /\ pc' \in {"frozen", "read"}
  BY DEF Tentative, Bail
<1>3. s' \in Scrapers /\ SameFlags(s, s')
  <2> PICK row \in MarkerRows :
       LET gone == s.syncRow # -1 /\ row = -1
           u == MarkerFound(s, info, row)
       IN \/ gone /\ s' = s
          \/ ~gone /\ s' \in {u, ReadPrepared(u, info)}
    BY DEF Tentative, Bail
  <2> DEFINE u == MarkerFound(s, info, row)
  <2>1. CASE s' = s
    BY <1>1, <2>1 DEF SameFlags
  <2>2. CASE ~(s.syncRow # -1 /\ row = -1) /\ s' \in {u, ReadPrepared(u, info)}
    <3>1. row \in -1..s.syncRow
      BY <1>1, MarkerRowFound
    <3>2. row = -1 => s.syncRow = -1
      BY <2>2
    <3>3. u \in Scrapers /\ SameFlags(s, u)
      BY <1>1, <3>1, <3>2, MarkerFollowed
    <3> HIDE DEF u
    <3>4. ReadPrepared(u, info) \in Scrapers /\ SameFlags(u, ReadPrepared(u, info))
      BY <1>1, <3>3, ReadIsPrepared
    <3> QED BY <2>2, <3>3, <3>4 DEF SameFlags
  <2> QED BY <2>1, <2>2
<1> QED BY <1>1, <1>2, <1>3 DEF ScraperInv, ScraperTypes, ModeFitsInfo, ReadFits, InfoCurrent,
      MarkerAbove, TentativePhases, SameFlags, Phases

LEMMA ReadContentStep ==
  ASSUME ScraperInv, ReadContent
  PROVE  ScraperInv'
<1>1. /\ con \in Consoles /\ s \in Scrapers /\ pc = "read" /\ s.isNewW10
      /\ info \in ScrollingInfos
  BY DEF ScraperInv, ScraperTypes, ModeFitsInfo, InfoCurrent, ReadContent, TentativePhases,
         ScrollingInfos, Scrapers
<1>2. firstReadLine(s, info) \in Int /\ stopReadLine(s, info) \in Int
  BY <1>1, ReadBounds
<1>3. ReadTyped(s, info, read')
  BY <1>1, <1>2, ConsoleReadTyped DEF ReadContent, ReadTyped
<1>4. UNCHANGED <<con, s, t, info, g>> /\ pc' = "check"
  BY DEF ReadContent
<1>5. ReadFits'
  BY <1>3, <1>4 DEF ReadFits, ReadTyped, firstReadLine, stopReadLine, firstVirtLine
<1> QED BY <1>1, <1>4, <1>5 DEF ScraperInv, ScraperTypes, ModeFitsInfo, InfoCurrent,
      MarkerAbove, TentativePhases, Phases

LEMMA CheckInfoStep ==
  ASSUME ScraperInv, CheckInfo
  PROVE  ScraperInv'
<1>1. /\ pc = "check" /\ s.isNewW10
      /\ UNCHANGED <<con, s, t, info, read, g>> /\ pc' \in {"frozen", "checkMarker"}
  BY DEF ScraperInv, ScraperTypes, InfoCurrent, CheckInfo, TentativePhases, Scrapers, Bail
<1>2. ReadFits'
  BY <1>1 DEF ScraperInv, ReadFits, ReadTyped, firstReadLine, stopReadLine, firstVirtLine
<1> QED BY <1>1, <1>2 DEF ScraperInv, ScraperTypes, ModeFitsInfo, InfoCurrent,
      MarkerAbove, TentativePhases, Phases

LEMMA CheckMarkerStep ==
  ASSUME ScraperInv, CheckMarker
  PROVE  ScraperInv'
<1>1. /\ s \in Scrapers /\ t \in Terminals /\ pc = "checkMarker" /\ s.isNewW10 /\ ~s.directMode
      /\ info \in ScrollingInfos /\ ReadTyped(s, info, read)
  BY DEF ScraperInv, ScraperTypes, ModeFitsInfo, InfoCurrent, ReadFits, CheckMarker,
         TentativePhases, ScrollingInfos, Scrapers
<1> DEFINE output == ScrollingOutput(s, t, info, read)
<1>2. /\ UNCHANGED <<con, info, g>> /\ pc' \in {"frozen", "idle"}
      /\ (s' = s /\ t' = t) \/ (s' = output.u /\ t' = output.t)
  BY DEF CheckMarker, Bail
<1>3. output.u \in Scrapers /\ output.t \in Terminals /\ SameFlags(s, output.u)
  BY <1>1, OutputScrolled
<1> HIDE DEF output
<1>4. s' \in Scrapers /\ t' \in Terminals /\ s'.isNewW10 = s.isNewW10 /\ ~s'.directMode
  BY <1>1, <1>2, <1>3 DEF SameFlags
<1>5. ScraperTypes'
  BY <1>2, <1>4 DEF ScraperInv, ScraperTypes, Phases
<1>6. ModeFitsInfo' /\ ReadFits'
  BY <1>1, <1>2, <1>4 DEF ModeFitsInfo, ReadFits, TentativePhases, ScrollingInfos
<1>7. InfoCurrent' /\ MarkerAbove'
  BY <1>1, <1>4 DEF InfoCurrent, MarkerAbove
<1> QED BY <1>5, <1>6, <1>7 DEF ScraperInv

LEMMA FrozenScrapeStep ==
  ASSUME ScraperInv, FrozenScrape
  PROVE  ScraperInv' /\ WindowKept
<1>1. /\ con \in Consoles /\ s \in Scrapers /\ t \in Terminals /\ pc = "frozen"
      /\ ~s.directMode /\ info \in ScrollingInfos /\ info \in Infos /\ con.frozen
      /\ DOMAIN g = HistoryFields /\ g.written \in Nat /\ g.odd \in Nat
      /\ ~s.isNewW10 => info = bufferInfo(con)
      /\ \/ s.isNewW10 \/ g.missed \/ s.syncRow = -1
         \/ 0 <= s.dirtyWindowTop /\ s.syncRow + SYNC_MARKER_LEN <= s.dirtyWindowTop
  BY DEF ScraperInv, ScraperTypes, ModeFitsInfo, InfoCurrent, MarkerAbove, Resizing,
         FrozenScrape, TentativePhases, ScrollingInfos
<1>p. PICK row \in MarkerRows :
       LET gone == s.syncRow # -1 /\ row = -1
           u1 == IF gone THEN NewTracking(s, info.top) ELSE MarkerFound(s, info, row)
           create == shouldCreateSyncRow(u1, info)
           anew == gone \/ WindowUp(u1, info)
           u2 == ReadPrepared(IF anew THEN NewTracking(u1, info.top) ELSE u1, info)
           rows == largeConsoleRead(con, firstReadLine(u2, info), stopReadLine(u2, info))
           output == ScrollingOutput(IF create THEN MarkerCreated(u2, newSyncRow(info)) ELSE u2,
                                     IF anew THEN clearTerminal(t, info.top) ELSE t, info, rows)
           c == IF create THEN WithMarker(u2, con, newSyncRow(info)) ELSE con
           h == IF anew THEN NewHistory(g, con, info.top) ELSE g
       IN /\ s' = output.u /\ t' = output.t
          /\ con' = [c EXCEPT !.frozen = s.resizing]
          /\ g' = [h EXCEPT !.damaged = @ \/ \E r \in DOMAIN c.buf :
                                              r >= con.top /\ c.buf[r] # con.buf[r]]
  BY DEF FrozenScrape
<1> DEFINE gone == s.syncRow # -1 /\ row = -1
           u1 == IF gone THEN NewTracking(s, info.top) ELSE MarkerFound(s, info, row)
           create == shouldCreateSyncRow(u1, info)
           anew == gone \/ WindowUp(u1, info)
           v1 == IF anew THEN NewTracking(u1, info.top) ELSE u1
           u2 == ReadPrepared(v1, info)
           rows == largeConsoleRead(con, firstReadLine(u2, info), stopReadLine(u2, info))
           u4 == IF create THEN MarkerCreated(u2, newSyncRow(info)) ELSE u2
           v == IF anew THEN clearTerminal(t, info.top) ELSE t
           output == ScrollingOutput(u4, v, info, rows)
           c == IF create THEN WithMarker(u2, con, newSyncRow(info)) ELSE con
           h == IF anew THEN NewHistory(g, con, info.top) ELSE g
<1>2. /\ s' = output.u /\ t' = output.t /\ con' = [c EXCEPT !.frozen = s.resizing]
      /\ g' = [h EXCEPT !.damaged = h.damaged \/ \E r \in DOMAIN c.buf :
                                              r >= con.top /\ c.buf[r] # con.buf[r]]
  BY <1>p
<1>3. pc' = (IF s.resizing THEN "resize" ELSE "idle") /\ info' = info /\ read' = <<>>
  BY DEF FrozenScrape
<1>4. info.top \in Nat
  BY <1>1, InfoFacts
<1>5. /\ u1 \in Scrapers /\ SameFlags(s, u1)
      /\ u1.syncRow = -1 \/ (u1.syncRow <= s.syncRow /\ u1.dirtyWindowTop = s.dirtyWindowTop)
      /\ gone => u1.syncRow = -1
  <2>1. CASE gone
    BY <1>1, <1>4, <2>1, TrackingIsNew
  <2>2. CASE ~gone
    <3>1. row \in -1..s.syncRow
      BY <1>1, MarkerRowFound
    <3>2. row = -1 => s.syncRow = -1
      BY <2>2
    <3>3. /\ u1 \in Scrapers /\ SameFlags(s, u1) /\ u1.syncRow = row
          /\ u1.dirtyWindowTop = s.dirtyWindowTop
      BY <1>1, <2>2, <3>1, <3>2, MarkerFollowed
    <3>4. row <= s.syncRow
      BY <1>1, <3>1, ScraperFacts
    <3> QED BY <2>2, <3>3, <3>4
  <2> QED BY <2>1, <2>2
<1> HIDE DEF u1, gone
<1>6. /\ v1 \in Scrapers /\ SameFlags(u1, v1)
      /\ IF anew THEN v1.syncRow = -1 ELSE v1.syncRow = u1.syncRow
  BY <1>4, <1>5, TrackingIsNew DEF SameFlags
<1> HIDE DEF v1
<1>7. /\ u2 \in Scrapers /\ SameFlags(v1, u2) /\ u2.syncRow = v1.syncRow
      /\ u2.dirtyWindowTop = info.top
  BY <1>1, <1>6, ReadIsPrepared
<1>8. s.isNewW10 \/ (~anew /\ g.missed) \/ u2.syncRow + SYNC_MARKER_LEN <= info.top
      \/ u2.syncRow = -1
  <2> SUFFICES ASSUME ~s.isNewW10, ~anew, ~g.missed, u2.syncRow # -1
               PROVE  u2.syncRow + SYNC_MARKER_LEN <= info.top
    BY <1>6, <1>7
  <2>1. u1.syncRow # -1 /\ u2.syncRow = u1.syncRow
    BY <1>6, <1>7
  <2>2. u1.syncRow <= s.syncRow /\ u1.dirtyWindowTop = s.dirtyWindowTop
    BY <1>5, <2>1
  <2>3. u1.syncRow \in Int /\ s.syncRow \in Int /\ u1.syncRow >= -1 /\ s.dirtyWindowTop \in Int
    BY <1>1, <1>5, ScraperFacts
  <2>4. 0 <= s.dirtyWindowTop /\ s.syncRow + SYNC_MARKER_LEN <= s.dirtyWindowTop
    BY <1>1, <2>1, <2>2, <2>3
  <2>5. ~(u1.dirtyWindowTop # -1 /\ info.top < u1.dirtyWindowTop)
    BY DEF WindowUp
  <2>6. s.dirtyWindowTop <= info.top
    BY <1>4, <2>2, <2>3, <2>4, <2>5
  <2> QED BY <1>4, <2>1, <2>2, <2>3, <2>4, <2>6, Sizes
<1> HIDE DEF u2
<1>9. firstReadLine(u2, info) \in Int /\ stopReadLine(u2, info) \in Int
  BY <1>1, <1>7, ReadBounds
<1>10. ReadTyped(u2, info, rows)
  BY <1>1, <1>9, ConsoleReadTyped DEF ReadTyped
<1> HIDE DEF rows
<1>12. create => /\ newSyncRow(info) \in Nat \ {0}
                 /\ newSyncRow(info) + SYNC_MARKER_LEN < info.top
  <2>1. u1.syncRow \in Int /\ u1.syncRow >= -1
    BY <1>5, ScraperFacts
  <2>2. newSyncRow(info) = info.top - SYNC_MARKER_LEN - SYNC_MARKER_MARGIN
    BY DEF newSyncRow
  <2>3. create <=> newSyncRow(info) >= u1.syncRow + SYNC_MARKER_LEN + SYNC_MARKER_MARGIN
    BY DEF shouldCreateSyncRow
  <2>4. SYNC_MARKER_LEN \in Nat \ {0} /\ SYNC_MARKER_MARGIN \in Nat \ {0}
    BY Sizes
  <2> SUFFICES ASSUME create
               PROVE  /\ newSyncRow(info) \in Nat \ {0}
                      /\ newSyncRow(info) + SYNC_MARKER_LEN < info.top
    OBVIOUS
  <2> HIDE DEF create
  <2>5. newSyncRow(info) \in Int
    BY <1>4, <2>2, <2>4
  <2>6. newSyncRow(info) >= u1.syncRow + SYNC_MARKER_LEN + SYNC_MARKER_MARGIN
    BY <2>3
  <2>7. newSyncRow(info) > 0
    BY <2>1, <2>4, <2>5, <2>6
  <2>8. newSyncRow(info) + SYNC_MARKER_LEN < info.top
    BY <1>4, <2>2, <2>4
  <2> QED BY <2>5, <2>7, <2>8
<1> HIDE DEF create
<1>13. /\ u4 \in Scrapers /\ SameFlags(u2, u4) /\ u4.dirtyWindowTop = u2.dirtyWindowTop
       /\ u4.scrolledCount = u2.scrolledCount /\ u4.scrapedLineCount = u2.scrapedLineCount
       /\ u4.dirtyLineCount = u2.dirtyLineCount
       /\ u4.syncRow = IF create THEN newSyncRow(info) ELSE u2.syncRow
  <2>1. CASE create
    <3> DEFINE n == newSyncRow(info)
               failed == u2.failed \/ n < 1
    <3>1. u4 = [u2 EXCEPT !.syncCounter = u2.syncCounter + 1, !.syncRow = n, !.failed = failed]
      BY <2>1 DEF MarkerCreated
    <3>2. n \in Nat /\ n + SYNC_MARKER_LEN < info.top
      BY <1>12, <2>1
    <3> HIDE DEF n
    <3>3. n \in -1..(BUFFER_LINE_COUNT - SYNC_MARKER_LEN)
      BY <1>1, <3>2, InfoFacts, Sizes
    <3>4. u2.syncCounter + 1 \in Nat /\ failed \in BOOLEAN
      BY <1>7, ScraperFacts
    <3> HIDE DEF failed
    <3>5. /\ u4 \in Scrapers /\ SameFlags(u2, u4) /\ u4.dirtyWindowTop = u2.dirtyWindowTop
          /\ u4.scrolledCount = u2.scrolledCount /\ u4.scrapedLineCount = u2.scrapedLineCount
          /\ u4.dirtyLineCount = u2.dirtyLineCount /\ u4.syncRow = n
      BY <1>7, <3>1, <3>3, <3>4 DEF Scrapers, SameFlags
    <3> QED BY <2>1, <3>5 DEF n
  <2>2. CASE ~create
    BY <1>7, <2>2 DEF SameFlags
  <2> QED BY <2>1, <2>2
<1> HIDE DEF u4
<1>14. ReadTyped(u4, info, rows)
  BY <1>10, <1>13 DEF ReadTyped, firstReadLine, stopReadLine, firstVirtLine
<1>15. v \in Terminals
  BY <1>1, <1>4, TerminalCleared
<1> HIDE DEF v
<1>16. /\ s' \in Scrapers /\ t' \in Terminals /\ SameFlags(u4, s')
       /\ s'.syncRow = u4.syncRow /\ s'.dirtyWindowTop = u4.dirtyWindowTop
  <2>1. /\ output.u \in Scrapers /\ output.t \in Terminals /\ SameFlags(u4, output.u)
        /\ output.u.syncRow = u4.syncRow /\ output.u.dirtyWindowTop = u4.dirtyWindowTop
    BY <1>1, <1>13, <1>14, <1>15, OutputScrolled
  <2> HIDE DEF output
  <2> QED BY <1>2, <2>1
<1> HIDE DEF output
<1>17. /\ s'.isNewW10 = s.isNewW10 /\ s'.directMode = s.directMode /\ s'.resizing = s.resizing
       /\ s'.dirtyWindowTop = info.top
  BY <1>5, <1>6, <1>7, <1>13, <1>16 DEF SameFlags
<1>18. /\ Refilled(con, c)
       /\ create => \A r \in DOMAIN con.buf :
            r >= newSyncRow(info) + SYNC_MARKER_LEN => c.buf[r] = con.buf[r]
       /\ ~create => c = con
  <2>1. CASE create
    <3>1. newSyncRow(info) \in Int
      BY <1>12, <2>1
    <3> QED BY <1>1, <1>7, <2>1, <3>1, MarkerWritten
  <2>2. CASE ~create
    BY <1>1, <2>2 DEF Refilled
  <2> QED BY <2>1, <2>2
<1> HIDE DEF c
<1>19. s.resizing \in BOOLEAN
  BY <1>1, ScraperFacts
<1>20. /\ con' \in Consoles /\ con'.frozen = s.resizing /\ con'.buf = c.buf
       /\ bufferInfo(con') = bufferInfo(con)
  <2>1. /\ con' \in Consoles /\ con'.frozen = s.resizing /\ con'.buf = c.buf
        /\ bufferInfo(con') = bufferInfo(c)
    <3>1. c \in Consoles
      BY <1>18 DEF Refilled
    <3> DEFINE b == s.resizing
               d == [c EXCEPT !.frozen = b]
    <3>2. b \in BOOLEAN /\ con' = d
      BY <1>2, <1>19
    <3> HIDE DEF b
    <3>3. d \in Consoles /\ d.frozen = b /\ d.buf = c.buf /\ bufferInfo(d) = bufferInfo(c)
      BY <3>1, <3>2, FrozenSet
    <3> HIDE DEF d
    <3>4. con' \in Consoles /\ con'.frozen = b /\ con'.buf = c.buf
      BY <3>2, <3>3
    <3>5. bufferInfo(con') = bufferInfo(d)
      BY <3>2
    <3> QED BY <3>3, <3>4, <3>5 DEF b
  <2>2. bufferInfo(c) = bufferInfo(con)
    BY <1>18 DEF Refilled, bufferInfo
  <2> QED BY <2>1, <2>2
<1>21. /\ DOMAIN h = HistoryFields /\ h.written = g.written /\ h.odd = g.odd
       /\ ~anew => h.missed = g.missed
  BY <1>1 DEF NewHistory, HistoryFields
<1> HIDE DEF h, anew
<1>22. /\ DOMAIN g' = HistoryFields /\ g'.written \in Nat /\ g'.odd \in Nat
       /\ ~anew => g'.missed = g.missed
  BY <1>1, <1>2, <1>21 DEF HistoryFields
<1>23. ScraperTypes'
  BY <1>1, <1>3, <1>16, <1>17, <1>20, <1>22 DEF ScraperTypes, Phases
<1>24. ModeFitsInfo' /\ ReadFits'
  BY <1>1, <1>3, <1>17 DEF ModeFitsInfo, ReadFits, TentativePhases, ScrollingInfos
<1>25. InfoCurrent'
  BY <1>1, <1>3, <1>17, <1>19, <1>20 DEF InfoCurrent, TentativePhases
<1>26. MarkerAbove'
  <2>1. s'.isNewW10 \/ g'.missed \/ s'.syncRow = -1 \/ s'.syncRow + SYNC_MARKER_LEN <= info.top
    <3>1. CASE create
      <4>1. s'.syncRow = newSyncRow(info)
        BY <1>13, <1>16, <3>1
      <4>2. newSyncRow(info) + SYNC_MARKER_LEN < info.top /\ newSyncRow(info) \in Int
        BY <1>12, <3>1
      <4>3. SYNC_MARKER_LEN \in Int
        BY Sizes
      <4>4. newSyncRow(info) + SYNC_MARKER_LEN <= info.top
        BY <1>4, <4>2, <4>3
      <4>5. s'.syncRow + SYNC_MARKER_LEN <= info.top
        BY <4>1, <4>4
      <4> QED BY <4>5, Zenon
    <3>2. CASE ~create
      BY <1>8, <1>13, <1>16, <1>17, <1>22, <3>2
    <3> QED BY <3>1, <3>2
  <2>2. ~Resizing' /\ info' = info /\ 0 <= info.top
    BY <1>3, <1>4 DEF Resizing
  <2> QED BY <1>17, <2>1, <2>2 DEF MarkerAbove
<1>27. WindowKept
  <2> SUFFICES ASSUME ~s.isNewW10, NEW r \in Window(con) PROVE con'.buf[r] = con.buf[r]
    BY DEF WindowKept, LeavesWindow
  <2>1. info.top = con.top
    BY <1>1 DEF bufferInfo
  <2>2. r \in DOMAIN con.buf /\ r >= con.top /\ r \in Int
    BY <1>1, ConsoleFacts DEF Window
  <2>3. create => r >= newSyncRow(info) + SYNC_MARKER_LEN
    BY <1>4, <1>12, <2>1, <2>2, Sizes
  <2> QED BY <1>18, <1>20, <2>2, <2>3
<1> QED BY <1>23, <1>24, <1>25, <1>26, <1>27 DEF ScraperInv

LEMMA DirectScrapeStep ==
  ASSUME ScraperInv, DirectScrape
  PROVE  ScraperInv'
<1> DEFINE h == Min({info.height, s.ptyRows, BUFFER_LINE_COUNT})
           rows == largeConsoleRead(con, info.top, info.top + h)
           sent == SendRows([u |-> s, t |-> t], h, info.top, rows)
<1>1. /\ con \in Consoles /\ s \in Scrapers /\ t \in Terminals /\ info \in Infos /\ pc = "direct"
      /\ s.directMode /\ s.syncRow = -1
  BY DEF ScraperInv, ScraperTypes, ModeFitsInfo, DirectScrape
<1>2. /\ s' = sent.u
      /\ t' = IF info.cur - info.top \in 0..(h - 1)
             THEN moveTerminalToLine(sent.t, info.cur - info.top) ELSE sent.t
      /\ con' = [con EXCEPT !.frozen = FALSE] /\ pc' = "idle" /\ UNCHANGED <<info, read, g>>
  BY DEF DirectScrape
<1>3. info.top \in Nat /\ info.height \in Nat \ {0} /\ info.cur \in Nat
  BY <1>1 DEF Infos
<1>4. h \in 0..BUFFER_LINE_COUNT
  <2>1. s.ptyRows \in Nat \ {0}
    BY <1>1, ScraperFacts
  <2> DEFINE a == info.height
             b == s.ptyRows
             c == BUFFER_LINE_COUNT
  <2>2. a \in Nat /\ b \in Nat /\ c \in Nat /\ a \in Int /\ b \in Int /\ c \in Int
    BY <1>3, <2>1, Sizes
  <2> HIDE DEF a, b, c
  <2>3. Min({a, b, c}) \in {a, b, c} /\ Min({a, b, c}) <= c
    BY <2>2, LeastOfThree, Zenon
  <2>4. Min({a, b, c}) \in 0..c
    BY <2>2, <2>3
  <2> QED BY <2>4 DEF a, b, c
<1> HIDE DEF h
<1>5. h \in Int
  BY <1>4, Sizes
<1>6. rows \in [info.top..(info.top + h - 1) -> Row]
  BY <1>1, <1>3, <1>5, ConsoleReadTyped
<1>7. \A k \in 1..h : rows[info.top + k - 1] \in Row
  BY <1>3, <1>5, <1>6
<1> HIDE DEF rows
<1>8. sent \in Pairs(s)
  <2> DEFINE x == [u |-> s, t |-> t]
  <2>1. x \in Pairs(s)
    BY <1>1 DEF Pairs, SamePosition
  <2> HIDE DEF x
  <2>2. SendRows(x, h, info.top, rows) \in Pairs(s)
    <3>1. info.top \in Int
      BY <1>3
    <3> QED BY <1>4, <1>7, <2>1, <3>1, RowsSent
  <2> QED BY <2>2 DEF x
<1> HIDE DEF sent
<1>9. /\ s' \in Scrapers /\ sent.t \in Terminals /\ s'.isNewW10 = s.isNewW10
      /\ s'.directMode = s.directMode /\ s'.syncRow = s.syncRow
  BY <1>2, <1>8 DEF Pairs, SamePosition
<1>10. t' \in Terminals
  BY <1>2, <1>3, <1>9, TerminalMoved
<1>11. con' \in Consoles
  BY <1>1, <1>2, FrozenSet
<1> QED BY <1>1, <1>2, <1>9, <1>10, <1>11 DEF ScraperInv, ScraperTypes, ModeFitsInfo, ReadFits,
      InfoCurrent, MarkerAbove, TentativePhases, Phases

----------------------------------------------------------------------------
(***************************************************************************)
(* The steps of a resize.                                                  *)
(***************************************************************************)
LEMMA BufferLinesCleared ==
  ASSUME NEW u \in Scrapers, NEW n \in Nat
  PROVE  LET w == clearBufferLines(u, n)
         IN /\ w \in Scrapers /\ SameFlags(u, w) /\ w.syncRow = u.syncRow
            /\ w.syncCounter = u.syncCounter /\ w.scrolledCount = u.scrolledCount
            /\ w.dirtyWindowTop = u.dirtyWindowTop /\ w.dirtyLineCount = u.dirtyLineCount
            /\ w.scrapedLineCount = u.scrapedLineCount /\ w.failed = u.failed
<1> DEFINE last == Max({u.maxBufferedLine, n - 1 + u.scrolledCount})
           data == [k \in DOMAIN u.data |->
                      IF \E row \in 0..(n - 1) : (row + u.scrolledCount) % BUFFER_LINE_COUNT = k
                      THEN Blank ELSE u.data[k]]
           w == [u EXCEPT !.maxBufferedLine = last, !.data = data]
<1>1. clearBufferLines(u, n) = w
  BY DEF clearBufferLines
<1>2. last \in Int
  <2>1. u.maxBufferedLine \in Int /\ n - 1 + u.scrolledCount \in Int
    BY DEF Scrapers
  <2> QED BY <2>1, MaxOfTwo
<1>3. data \in [0..(BUFFER_LINE_COUNT - 1) -> Row]
  <2>1. u.data \in [0..(BUFFER_LINE_COUNT - 1) -> Row]
    BY ScraperFacts
  <2> QED BY <2>1, RowKinds
<1> HIDE DEF last, data
<1>4. /\ w \in Scrapers /\ SameFlags(u, w) /\ w.syncRow = u.syncRow
      /\ w.syncCounter = u.syncCounter /\ w.scrolledCount = u.scrolledCount
      /\ w.dirtyWindowTop = u.dirtyWindowTop /\ w.dirtyLineCount = u.dirtyLineCount
      /\ w.scrapedLineCount = u.scrapedLineCount /\ w.failed = u.failed
  BY <1>2, <1>3 DEF Scrapers, SameFlags
<1> QED BY <1>1, <1>4

LEMMA ClearHistoryStep ==
  ASSUME ScraperInv, ClearHistory
  PROVE  ScraperInv' /\ WindowKept
<1> DEFINE limit == BUFFER_LINE_COUNT - s.ptyRows - SYNC_MARKER_LEN - SYNC_MARKER_MARGIN
           row == Min({s.syncRow, limit})
           cleared == clearLines(con, 0, info.top)
           u == IF info.top > 0 THEN clearBufferLines(s, info.top) ELSE s
           c == IF s.directMode THEN con
                ELSE IF s.syncRow = -1 THEN cleared ELSE WithMarker(s, cleared, row)
           blank == [s EXCEPT !.data = [i \in DOMAIN s.data |-> Unset]]
           w == IF s.directMode THEN blank
                ELSE IF s.syncRow = -1 THEN u ELSE MarkerCreated(u, row)
<1>1. /\ con \in Consoles /\ s \in Scrapers /\ t \in Terminals /\ info \in Infos /\ pc = "resize"
      /\ DOMAIN g = HistoryFields /\ g.written \in Nat /\ g.odd \in Nat
      /\ s.directMode => s.syncRow = -1
      /\ s.directMode <=> info.bufferHeight # BUFFER_LINE_COUNT
      /\ ~s.isNewW10 => con.frozen /\ info = bufferInfo(con)
      /\ \/ s.isNewW10 \/ g.missed \/ s.syncRow = -1
         \/ s.syncRow + SYNC_MARKER_LEN <= info.top
  BY DEF ScraperInv, ScraperTypes, ModeFitsInfo, InfoCurrent, MarkerAbove, Resizing, ClearHistory
<1>2. /\ con' = [c EXCEPT !.frozen = FALSE] /\ s' = w /\ pc' = "shrinkWindow"
      /\ UNCHANGED <<t, info, read>>
  BY DEF ClearHistory
<1>3. /\ DOMAIN g' = HistoryFields /\ g'.written \in Nat /\ g'.odd \in Nat
      /\ g'.missed = g.missed
  BY <1>1 DEF ClearHistory, HistoryFields
<1>4. info.top \in Nat
  BY <1>1 DEF Infos
<1>5. /\ s.syncRow \in Int /\ s.syncRow >= -1 /\ limit \in Nat \ {0}
      /\ s.syncRow + SYNC_MARKER_LEN <= BUFFER_LINE_COUNT
      /\ limit + SYNC_MARKER_LEN <= BUFFER_LINE_COUNT - s.ptyRows
  BY <1>1, ScraperFacts, Sizes
<1> HIDE DEF limit
<1>6. row \in Int /\ row <= s.syncRow /\ row <= limit /\ row >= -1
      /\ (s.syncRow # -1 => row >= 0)
  BY <1>5, MinOfTwo
<1> HIDE DEF row
<1>7. u \in Scrapers /\ SameFlags(s, u) /\ u.syncRow = s.syncRow
  BY <1>1, <1>4, BufferLinesCleared DEF SameFlags
<1> HIDE DEF u
<1>8. /\ w \in Scrapers /\ SameFlags(s, w)
      /\ w.syncRow = IF s.directMode \/ s.syncRow = -1 THEN s.syncRow ELSE row
  <2>1. CASE s.directMode
    <3> DEFINE data == [i \in DOMAIN s.data |-> Unset]
    <3>1. data \in [0..(BUFFER_LINE_COUNT - 1) -> Row]
      BY <1>1, ScraperFacts, RowKinds
    <3> HIDE DEF data
    <3>2. [s EXCEPT !.data = data] \in Scrapers /\ SameFlags(s, [s EXCEPT !.data = data])
          /\ [s EXCEPT !.data = data].syncRow = s.syncRow
      BY <1>1, <3>1 DEF Scrapers, SameFlags
    <3> QED BY <2>1, <3>2 DEF data
  <2>2. CASE ~s.directMode /\ s.syncRow = -1
    BY <1>7, <2>2
  <2>3. CASE ~s.directMode /\ s.syncRow # -1
    <3> DEFINE failed == u.failed \/ row < 1
    <3>1. w = [u EXCEPT !.syncCounter = u.syncCounter + 1, !.syncRow = row, !.failed = failed]
      BY <2>3 DEF MarkerCreated
    <3>2. row \in -1..(BUFFER_LINE_COUNT - SYNC_MARKER_LEN)
      BY <1>5, <1>6, Sizes
    <3>3. u.syncCounter + 1 \in Nat /\ failed \in BOOLEAN
      BY <1>7, ScraperFacts
    <3> HIDE DEF failed, w
    <3>4. w \in Scrapers /\ SameFlags(u, w) /\ w.syncRow = row
      BY <1>7, <3>1, <3>2, <3>3 DEF Scrapers, SameFlags
    <3> QED BY <1>7, <2>3, <3>4 DEF SameFlags
  <2> QED BY <2>1, <2>2, <2>3
<1> HIDE DEF w
<1>9. Refilled(con, cleared)
      /\ \A r \in DOMAIN con.buf : r >= info.top => cleared.buf[r] = con.buf[r]
  <2>1. /\ Refilled(con, cleared)
        /\ \A r \in DOMAIN con.buf : r \notin 0..(0 + info.top - 1) => cleared.buf[r] = con.buf[r]
    BY <1>1, <1>4, LinesCleared
  <2>2. \A r \in DOMAIN con.buf : r \in Int
    BY <1>1, ConsoleFacts
  <2> HIDE DEF cleared
  <2> QED BY <1>4, <2>1, <2>2
<1> HIDE DEF cleared
<1>10. cleared \in Consoles /\ DOMAIN cleared.buf = DOMAIN con.buf
  BY <1>1, <1>9, ConsoleFacts DEF Refilled
<1>11. /\ Refilled(con, c)
       /\ \A r \in DOMAIN con.buf : r >= info.top /\ (s.syncRow # -1 => r >= row + SYNC_MARKER_LEN)
            => c.buf[r] = con.buf[r]
  <2>1. CASE s.directMode
    BY <1>1, <2>1 DEF Refilled
  <2>2. CASE ~s.directMode /\ s.syncRow = -1
    BY <1>9, <2>2
  <2>3. CASE ~s.directMode /\ s.syncRow # -1
    <3> DEFINE d == WithMarker(s, cleared, row)
    <3>1. /\ Refilled(cleared, d)
          /\ \A r \in DOMAIN cleared.buf : r >= row + SYNC_MARKER_LEN => d.buf[r] = cleared.buf[r]
      BY <1>1, <1>6, <1>10, MarkerWritten
    <3> HIDE DEF d
    <3>2. Refilled(con, d)
      BY <1>9, <3>1 DEF Refilled
    <3>3. c = d
      BY <2>3 DEF d
    <3> QED BY <1>9, <1>10, <2>3, <3>1, <3>2, <3>3
  <2> QED BY <2>1, <2>2, <2>3
<1> HIDE DEF c
<1>12. /\ con' \in Consoles /\ con'.buf = c.buf /\ con'.top = con.top
       /\ BufferHeight(con') = BufferHeight(con)
  <2>1. c \in Consoles
    BY <1>11 DEF Refilled
  <2>2. /\ con' \in Consoles /\ con'.buf = c.buf /\ con'.top = c.top
        /\ BufferHeight(con') = BufferHeight(c)
    BY <1>2, <2>1, FrozenSet
  <2> QED BY <1>11, <2>2 DEF Refilled
<1>13. s'.isNewW10 = s.isNewW10 /\ s'.directMode = s.directMode /\ s'.ptyRows = s.ptyRows
  BY <1>2, <1>8 DEF SameFlags
<1>14. ScraperTypes'
  BY <1>1, <1>2, <1>3, <1>8, <1>12, <1>13 DEF ScraperTypes, Phases
<1>15. ModeFitsInfo' /\ ReadFits' /\ InfoCurrent'
  BY <1>1, <1>2, <1>13 DEF ModeFitsInfo, ReadFits, InfoCurrent, TentativePhases
\* What the marker's row is below.
<1>16. \/ s.isNewW10 \/ g.missed \/ s.syncRow = -1
       \/ /\ ~s.directMode /\ info = bufferInfo(con) /\ info.bufferHeight = BUFFER_LINE_COUNT
          /\ info.top = con.top /\ row + SYNC_MARKER_LEN <= con.top
  <2> SUFFICES ASSUME ~s.isNewW10, ~g.missed, s.syncRow # -1
               PROVE  /\ ~s.directMode /\ info = bufferInfo(con)
                      /\ info.bufferHeight = BUFFER_LINE_COUNT
                      /\ info.top = con.top /\ row + SYNC_MARKER_LEN <= con.top
    OBVIOUS
  <2>1. ~s.directMode /\ info = bufferInfo(con) /\ info.bufferHeight = BUFFER_LINE_COUNT
    BY <1>1
  <2>2. info.top = con.top
    BY <2>1 DEF bufferInfo
  <2>3. s.syncRow + SYNC_MARKER_LEN <= info.top /\ SYNC_MARKER_LEN \in Int
    BY <1>1, Sizes
  <2> QED BY <1>4, <1>5, <1>6, <2>1, <2>2, <2>3
<1>17. MarkerAbove'
  <2> SUFFICES ASSUME ~s.isNewW10, ~g.missed, s'.syncRow # -1
               PROVE  /\ s'.syncRow + SYNC_MARKER_LEN <= con'.top
                      /\ s'.syncRow + SYNC_MARKER_LEN <= BUFFER_LINE_COUNT - s'.ptyRows
                      /\ BufferHeight(con') = BUFFER_LINE_COUNT
    BY <1>2, <1>3, <1>13 DEF MarkerAbove, Resizing
  <2>1. s.syncRow # -1
    BY <1>1, <1>2, <1>8
  <2>2. s'.syncRow = row
    BY <1>2, <1>8, <1>16, <2>1
  <2>3. BufferHeight(con) = BUFFER_LINE_COUNT
    BY <1>16, <2>1 DEF bufferInfo
  <2>4. SYNC_MARKER_LEN \in Int /\ BUFFER_LINE_COUNT \in Int /\ s.ptyRows \in Int
    BY <1>1, ScraperFacts, Sizes
  <2>5. row + SYNC_MARKER_LEN <= BUFFER_LINE_COUNT - s.ptyRows
    BY <1>5, <1>6, <2>4
  <2> QED BY <1>12, <1>13, <1>16, <2>1, <2>2, <2>3, <2>5
<1>18. WindowKept
  <2> SUFFICES ASSUME ~s.isNewW10, ~g.missed, NEW r \in Window(con)
               PROVE  con'.buf[r] = con.buf[r]
    BY DEF WindowKept, LeavesWindow
  <2>1. r \in DOMAIN con.buf /\ r >= con.top /\ r \in Int /\ con.top \in Int
    BY <1>1, ConsoleFacts DEF Window
  <2>2. info.top = con.top
    BY <1>1 DEF bufferInfo
  <2>3. s.syncRow # -1 => r >= row + SYNC_MARKER_LEN
    BY <1>6, <1>16, <2>1, Sizes
  <2> QED BY <1>11, <1>12, <2>1, <2>2, <2>3
<1> QED BY <1>14, <1>15, <1>17, <1>18 DEF ScraperInv

\* Making room for the cursor never moves the window up beyond where the cursor
\* was in the window.
LEMMA CursorIncluded ==
  ASSUME con \in Consoles, NEW top \in Int, NEW height \in Nat \ {0}
  PROVE  /\ WithCursor(top, height) \in Int
         /\ WithCursor(top, height) >= top \/ WithCursor(top, height) >= con.top
<1> DEFINE cur == con.cur
<1>1. cur \in Nat /\ con.top \in Nat /\ (cur \in Window(con) => cur >= con.top)
  BY ConsoleFacts DEF Window
<1>2. CASE con.cur \in Window(con)
  <2>1. WithCursor(top, height) = ensureLineIncluded(top, height, cur)
    BY <1>2 DEF WithCursor
  <2>2. cur >= con.top
    BY <1>1, <1>2
  <2> HIDE DEF cur
  <2>3. CASE cur < top
    <3>1. ~(cur >= top + height)
      BY <1>1, <2>3
    <3>2. ensureLineIncluded(top, height, cur) = cur
      BY <2>3, <3>1 DEF ensureLineIncluded
    <3> QED BY <1>1, <2>1, <2>2, <3>2
  <2>4. CASE cur >= top + height
    <3>1. ~(cur < top)
      BY <1>1, <2>4
    <3>2. ensureLineIncluded(top, height, cur) = cur - height + 1
      BY <2>4, <3>1 DEF ensureLineIncluded
    <3> QED BY <1>1, <2>1, <2>4, <3>2
  <2>5. CASE ~(cur < top) /\ ~(cur >= top + height)
    <3>1. ensureLineIncluded(top, height, cur) = top
      BY <2>5 DEF ensureLineIncluded
    <3> QED BY <2>1, <3>1
  <2> QED BY <2>3, <2>4, <2>5
<1>3. CASE con.cur \notin Window(con)
  BY <1>3 DEF WithCursor
<1> QED BY <1>2, <1>3

LEMMA ShrinkWindowStep ==
  ASSUME ScraperInv, ShrinkWindow
  PROVE  ScraperInv'
<1> DEFINE bottom == BufferHeight(con)
           rows == s.ptyRows
           height == Min({bottom, rows})
           top == Min({bottom - height, con.top})
           finalTop == WithCursor(top, height)
<1>1. /\ con \in Consoles /\ s \in Scrapers /\ pc = "shrinkWindow"
      /\ con' = moveWindow(con, finalTop, height)
      /\ pc' = "resizeBuffer" /\ UNCHANGED <<s, t, info, read, g>>
  BY DEF ScraperInv, ScraperTypes, ShrinkWindow
<1>2. /\ bottom \in Nat \ {0} /\ rows \in Nat \ {0} /\ con.top \in Nat
      /\ rows < BUFFER_LINE_COUNT /\ BUFFER_LINE_COUNT \in Nat
  BY <1>1, ConsoleFacts, ScraperFacts, Sizes
<1> HIDE DEF bottom, rows
<1>3. height \in Nat \ {0} /\ height <= rows /\ height < BUFFER_LINE_COUNT
  BY <1>2, MinOfTwo
<1> HIDE DEF height
<1>4. top \in Int /\ (top = con.top \/ top = bottom - height)
  BY <1>2, <1>3, MinOfTwo
<1> HIDE DEF top
<1>5. finalTop \in Int /\ (finalTop >= top \/ finalTop >= con.top)
  BY <1>1, <1>3, <1>4, CursorIncluded
<1> HIDE DEF finalTop
<1>6. /\ con' \in Consoles /\ BufferHeight(con') = BufferHeight(con)
      /\ con'.top = con.top \/ con'.top = finalTop
  BY <1>1, <1>3, <1>5, WindowMoved
<1>7. ScraperTypes'
  BY <1>1, <1>6 DEF ScraperInv, ScraperTypes, Phases
<1>8. ModeFitsInfo' /\ ReadFits' /\ InfoCurrent'
  BY <1>1 DEF ScraperInv, ModeFitsInfo, ReadFits, InfoCurrent, TentativePhases
<1>9. MarkerAbove'
  <2> SUFFICES ASSUME ~s.isNewW10, ~g.missed, s.syncRow # -1
               PROVE  /\ s.syncRow + SYNC_MARKER_LEN <= con'.top
                      /\ s.syncRow + SYNC_MARKER_LEN <= BUFFER_LINE_COUNT - s.ptyRows
                      /\ BufferHeight(con') = BUFFER_LINE_COUNT
    BY <1>1 DEF MarkerAbove, Resizing
  <2>1. /\ s.syncRow + SYNC_MARKER_LEN <= con.top
        /\ s.syncRow + SYNC_MARKER_LEN <= BUFFER_LINE_COUNT - s.ptyRows
        /\ BufferHeight(con) = BUFFER_LINE_COUNT
    BY <1>1 DEF ScraperInv, MarkerAbove, Resizing
  <2>2. bottom = BUFFER_LINE_COUNT
    BY <2>1 DEF bottom
  <2>3. s.syncRow \in Int /\ SYNC_MARKER_LEN \in Int
    BY <1>1, ScraperFacts, Sizes
  <2>4. s.syncRow + SYNC_MARKER_LEN <= bottom - height
    BY <1>2, <1>3, <2>1, <2>2, <2>3 DEF rows
  <2>5. s.syncRow + SYNC_MARKER_LEN <= finalTop
    BY <1>2, <1>3, <1>4, <1>5, <2>1, <2>3, <2>4
  <2> QED BY <1>6, <2>1, <2>5
<1> QED BY <1>7, <1>8, <1>9 DEF ScraperInv

LEMMA ResizeBufferStep ==
  ASSUME ScraperInv, ResizeBuffer
  PROVE  ScraperInv'
<1> DEFINE larger == Max({s.ptyRows, info.bufferHeight})
           height == IF info.height = info.bufferHeight THEN s.ptyRows ELSE larger
<1>1. /\ con \in Consoles /\ s \in Scrapers /\ info \in Infos /\ pc = "resizeBuffer"
      /\ s.directMode => s.syncRow = -1
      /\ s.directMode <=> info.bufferHeight # BUFFER_LINE_COUNT
      /\ con' = resizeBufferRange(con, height)
      /\ pc' = "expandWindow" /\ UNCHANGED <<s, t, info, read, g>>
  BY DEF ScraperInv, ScraperTypes, ModeFitsInfo, ResizeBuffer
<1>2. /\ s.ptyRows \in Nat \ {0} /\ s.ptyRows < BUFFER_LINE_COUNT
      /\ BUFFER_LINE_COUNT \in Nat
  BY <1>1, ScraperFacts, Sizes
<1>3. info.bufferHeight \in Nat /\ info.height \in Nat /\ info.height < BUFFER_LINE_COUNT
  BY <1>1 DEF Infos
<1>4. larger = IF s.ptyRows >= info.bufferHeight THEN s.ptyRows ELSE info.bufferHeight
  BY <1>2, <1>3, MaxOfTwo
<1> HIDE DEF larger
<1>5. /\ height \in Nat \ {0}
      /\ ~s.directMode => height = BUFFER_LINE_COUNT
  BY <1>1, <1>2, <1>3, <1>4
<1> HIDE DEF height
<1>6. /\ con' \in Consoles
      /\ height = BufferHeight(con) => BufferHeight(con') = height /\ con'.top = con.top
  BY <1>1, <1>5, BufferResized
<1>7. ScraperTypes'
  BY <1>1, <1>6 DEF ScraperInv, ScraperTypes, Phases
<1>8. ModeFitsInfo' /\ ReadFits' /\ InfoCurrent'
  BY <1>1 DEF ScraperInv, ModeFitsInfo, ReadFits, InfoCurrent, TentativePhases
<1>9. MarkerAbove'
  BY <1>1, <1>5, <1>6 DEF ScraperInv, MarkerAbove, Resizing
<1> QED BY <1>7, <1>8, <1>9 DEF ScraperInv

LEMMA ExpandWindowStep ==
  ASSUME ScraperInv, ExpandWindow
  PROVE  ScraperInv'
<1> DEFINE bottom == BufferHeight(con)
           rows == s.ptyRows
           dirty == s.dirtyLineCount
           top == Min({bottom - rows, con.top})
           dirtyTop == IF ~s.directMode /\ dirty > top + rows THEN dirty - rows ELSE top
           finalTop == WithCursor(dirtyTop, rows)
           c == moveWindow(con, finalTop, rows)
<1>1. /\ con \in Consoles /\ s \in Scrapers /\ t \in Terminals /\ pc = "expandWindow"
      /\ con' = [c EXCEPT !.frozen = s.directMode]
      /\ s' = [s EXCEPT !.dirtyWindowTop = finalTop, !.resizing = FALSE]
      /\ pc' = IF s.directMode THEN "direct" ELSE "idle"
      /\ t' = ResizedTerminal(t, rows) /\ UNCHANGED <<info, read>>
      /\ s.directMode => s.syncRow = -1
      /\ s.directMode <=> info.bufferHeight # BUFFER_LINE_COUNT
  BY DEF ScraperInv, ScraperTypes, ModeFitsInfo, ExpandWindow
<1>2. /\ DOMAIN g' = HistoryFields /\ g'.written \in Nat /\ g'.odd \in Nat
      /\ g'.missed = g.missed
  BY DEF ScraperInv, ScraperTypes, ExpandWindow, HistoryFields
<1>3. /\ bottom \in Nat \ {0} /\ rows \in Nat \ {0} /\ con.top \in Nat /\ dirty \in Nat
      /\ rows < BUFFER_LINE_COUNT /\ BUFFER_LINE_COUNT \in Nat
  BY <1>1, ConsoleFacts, ScraperFacts, Sizes
<1>4. t' \in Terminals
  BY <1>1, <1>3, TerminalResized
<1> HIDE DEF bottom, rows, dirty
<1>5. top \in Int /\ (top = con.top \/ top = bottom - rows)
  BY <1>3, MinOfTwo
<1> HIDE DEF top
<1>6. dirtyTop \in Int /\ dirtyTop >= top
  BY <1>3, <1>5
<1> HIDE DEF dirtyTop
<1>7. finalTop \in Int /\ (finalTop >= dirtyTop \/ finalTop >= con.top)
  BY <1>1, <1>3, <1>6, CursorIncluded
<1> HIDE DEF finalTop
<1>8. c \in Consoles
  BY <1>1, <1>3, <1>7, WindowMoved
<1> HIDE DEF c
<1>9. con' \in Consoles
  <2>1. s.directMode \in BOOLEAN
    BY <1>1, ScraperFacts
  <2> QED BY <1>1, <1>8, <2>1, FrozenSet
<1>10. /\ s' \in Scrapers /\ s'.isNewW10 = s.isNewW10 /\ s'.directMode = s.directMode
       /\ s'.syncRow = s.syncRow /\ s'.dirtyWindowTop = finalTop
  BY <1>1, <1>7 DEF Scrapers
<1>11. ScraperTypes'
  BY <1>1, <1>2, <1>4, <1>9, <1>10 DEF ScraperInv, ScraperTypes, Phases
<1>12. ModeFitsInfo' /\ ReadFits' /\ InfoCurrent'
  BY <1>1, <1>10 DEF ModeFitsInfo, ReadFits, InfoCurrent, TentativePhases
<1>13. MarkerAbove'
  <2> SUFFICES ASSUME ~s.isNewW10, ~g.missed, s.syncRow # -1
               PROVE  0 <= finalTop /\ s.syncRow + SYNC_MARKER_LEN <= finalTop
    BY <1>1, <1>2, <1>10 DEF MarkerAbove, Resizing
  <2>1. /\ s.syncRow + SYNC_MARKER_LEN <= con.top
        /\ s.syncRow + SYNC_MARKER_LEN <= BUFFER_LINE_COUNT - s.ptyRows
        /\ BufferHeight(con) = BUFFER_LINE_COUNT
    BY <1>1 DEF ScraperInv, MarkerAbove, Resizing
  <2>2. s.syncRow \in Int /\ s.syncRow >= -1 /\ SYNC_MARKER_LEN \in Nat \ {0}
    BY <1>1, ScraperFacts, Sizes
  <2>3. s.syncRow + SYNC_MARKER_LEN <= bottom - rows
    BY <2>1 DEF bottom, rows
  <2>4. s.syncRow + SYNC_MARKER_LEN <= finalTop
    BY <1>3, <1>5, <1>6, <1>7, <2>1, <2>2, <2>3
  <2> QED BY <1>7, <2>2, <2>4
<1> QED BY <1>11, <1>12, <1>13 DEF ScraperInv

LEMMA ResizeWindowStep ==
  ASSUME ScraperInv, NEW rows \in Rows, resizeWindow(rows)
  PROVE  ScraperInv'
<1>1. /\ s \in Scrapers /\ pc = "idle" /\ DOMAIN g = HistoryFields /\ g.odd \in Nat
      /\ s' = [s EXCEPT !.ptyRows = rows, !.resizing = TRUE]
      /\ g' = [g EXCEPT !.odd = g.odd + 1]
      /\ UNCHANGED <<con, t, pc, info, read>>
  BY DEF ScraperInv, ScraperTypes, resizeWindow
<1>2. /\ s' \in Scrapers /\ s'.isNewW10 = s.isNewW10 /\ s'.directMode = s.directMode
      /\ s'.syncRow = s.syncRow /\ s'.dirtyWindowTop = s.dirtyWindowTop
  BY <1>1 DEF Scrapers
<1>3. /\ DOMAIN g' = HistoryFields /\ g'.written = g.written /\ g'.odd \in Nat
      /\ g'.missed = g.missed
  BY <1>1 DEF HistoryFields
<1> QED BY <1>1, <1>2, <1>3 DEF ScraperInv, ScraperTypes, ModeFitsInfo, ReadFits, InfoCurrent,
      MarkerAbove, Resizing, TentativePhases

----------------------------------------------------------------------------
(***************************************************************************)
(* The application's steps: the console is not frozen.                     *)
(***************************************************************************)
LEMMA AppStepKeeps ==
  ASSUME ScraperInv, ~con.frozen, UNCHANGED <<s, t, pc, info, read>>, con' \in Consoles,
         DOMAIN g' = HistoryFields, g'.written \in Nat, g'.odd \in Nat,
         g.missed => g'.missed,
         Resizing => \/ g'.missed
                     \/ con'.top >= con.top /\ BufferHeight(con') = BufferHeight(con)
  PROVE  ScraperInv'
<1>1. ScraperTypes' /\ ModeFitsInfo' /\ ReadFits'
  BY DEF ScraperInv, ScraperTypes, ModeFitsInfo, ReadFits, ReadTyped,
         firstReadLine, stopReadLine, firstVirtLine
<1>2. InfoCurrent'
  BY DEF ScraperInv, InfoCurrent
<1>3. MarkerAbove'
  <2>1. CASE Resizing
    <3> SUFFICES ASSUME ~s.isNewW10, ~g'.missed, s.syncRow # -1
                 PROVE  /\ s.syncRow + SYNC_MARKER_LEN <= con'.top
                        /\ s.syncRow + SYNC_MARKER_LEN <= BUFFER_LINE_COUNT - s.ptyRows
                        /\ BufferHeight(con') = BUFFER_LINE_COUNT
      BY <2>1 DEF MarkerAbove, Resizing
    <3>1. /\ s.syncRow + SYNC_MARKER_LEN <= con.top
          /\ s.syncRow + SYNC_MARKER_LEN <= BUFFER_LINE_COUNT - s.ptyRows
          /\ BufferHeight(con) = BUFFER_LINE_COUNT
      BY <2>1 DEF ScraperInv, MarkerAbove
    <3>2. s.syncRow \in Int /\ SYNC_MARKER_LEN \in Int /\ con.top \in Int /\ con'.top \in Int
      BY ScraperFacts, Sizes, ConsoleFacts DEF ScraperInv, ScraperTypes
    <3> QED BY <2>1, <3>1, <3>2
  <2>2. CASE ~Resizing
    BY <2>2 DEF ScraperInv, MarkerAbove, Resizing
  <2> QED BY <2>1, <2>2
<1> QED BY <1>1, <1>2, <1>3 DEF ScraperInv

LEMMA RowWritten ==
  ASSUME con \in Consoles, NEW row \in DOMAIN con.buf, NEW text \in Row
  PROVE  [con.buf EXCEPT ![row] = text] \in [0..(BufferHeight(con) - 1) -> Row]
  BY ConsoleFacts

LEMMA LoggedKeeps ==
  ASSUME DOMAIN g = HistoryFields, NEW row, NEW text
  PROVE  /\ DOMAIN Logged(row, text) = HistoryFields
         /\ Logged(row, text).written = g.written /\ Logged(row, text).odd = g.odd
         /\ Logged(row, text).missed = g.missed
<1> DEFINE log == Put(g.log, row + g.scroll, text)
           touched == g.touched \union ({row + g.scroll} \intersect g.erased)
<1>1. Logged(row, text) = [g EXCEPT !.quiet = FALSE, !.log = log, !.touched = touched]
  BY DEF Logged
<1> HIDE DEF log, touched
<1> QED BY <1>1 DEF HistoryFields

LEMMA WriteLineStep ==
  ASSUME ScraperInv, WriteLine
  PROVE  ScraperInv'
<1> DEFINE text == Text(g.written + 1, 0)
           last == BufferHeight(con) - 1
           buf == [con.buf EXCEPT ![con.cur] = text]
           shifted == [r \in DOMAIN con.buf |-> IF r < last THEN buf[r + 1] ELSE Blank]
           top == Max({con.top, con.cur + 2 - con.height})
           down == [con EXCEPT !.buf = buf, !.cur = con.cur + 1, !.top = top]
<1>1. /\ con \in Consoles /\ ~con.frozen /\ UNCHANGED <<s, t, pc, info, read>>
      /\ DOMAIN g = HistoryFields /\ g.written \in Nat /\ g.odd \in Nat
  BY DEF ScraperInv, ScraperTypes, WriteLine
<1>2. \/ con.cur < last /\ con' = down
      \/ con.cur = last /\ con' = [con EXCEPT !.buf = shifted]
  BY DEF WriteLine
<1>3. /\ DOMAIN g' = HistoryFields /\ g'.written \in Nat /\ g'.odd \in Nat
      /\ g'.missed = g.missed
  <2> DEFINE l == Logged(con.cur, text)
             h == [l EXCEPT !.written = l.written + 1, !.burst = l.burst + 1]
  <2>1. g' \in {h, [h EXCEPT !.scroll = h.scroll + 1]}
    BY DEF WriteLine
  <2>2. /\ DOMAIN l = HistoryFields /\ l.written = g.written /\ l.odd = g.odd
        /\ l.missed = g.missed
    BY <1>1, LoggedKeeps
  <2> HIDE DEF l
  <2>3. /\ DOMAIN h = HistoryFields /\ h.written = l.written + 1 /\ h.odd = l.odd
        /\ h.missed = l.missed
    BY <2>2 DEF HistoryFields
  <2> HIDE DEF h
  <2>4. /\ DOMAIN g' = HistoryFields /\ g'.written = h.written /\ g'.odd = h.odd
        /\ g'.missed = h.missed
    BY <2>1, <2>3 DEF HistoryFields
  <2> QED BY <1>1, <2>2, <2>3, <2>4
<1>4. /\ BufferHeight(con) \in Nat \ {0} /\ DOMAIN con.buf = 0..last
      /\ con.top \in Nat /\ con.height \in Nat \ {0} /\ con.cur \in Nat
      /\ con.cur \in DOMAIN con.buf /\ con.top + con.height <= BufferHeight(con)
      /\ con.height < BUFFER_LINE_COUNT
  BY <1>1, ConsoleFacts
<1>5. text \in Row
  BY <1>1, RowKinds
<1> HIDE DEF text
<1>6. buf \in [0..last -> Row]
  BY <1>1, <1>4, <1>5, RowWritten
<1> HIDE DEF buf
<1>7. /\ con' \in Consoles /\ con'.top >= con.top
      /\ BufferHeight(con') = BufferHeight(con)
  <2>1. CASE con.cur < last /\ con' = down
    <3>1. top = IF con.top >= con.cur + 2 - con.height THEN con.top ELSE con.cur + 2 - con.height
      BY <1>4, MaxOfTwo
    <3> HIDE DEF top
    <3>2. /\ top \in Nat /\ con.cur + 1 \in Nat /\ con.cur + 1 < BufferHeight(con)
          /\ top + con.height <= BufferHeight(con) /\ top >= con.top
      BY <1>4, <2>1, <3>1
    <3>3. con \in ConsoleRecords /\ buf \in Buffers
      BY <1>1, <1>4, <1>6, ConsoleIsRecord DEF Buffers
    <3>4. /\ down \in ConsoleRecords /\ down.buf = buf /\ down.top = top
          /\ down.height = con.height /\ down.cur = con.cur + 1
      BY <3>2, <3>3 DEF ConsoleRecords
    <3> HIDE DEF down
    <3>5. down \in Consoles /\ BufferHeight(down) = BufferHeight(con)
      BY <1>4, <1>6, <3>2, <3>4, ConsoleFits
    <3> QED BY <2>1, <3>2, <3>4, <3>5
  <2>2. CASE con.cur = last /\ con' = [con EXCEPT !.buf = shifted]
    <3>1. shifted \in [0..(BufferHeight(con) - 1) -> Row]
      <4>1. \A r \in 0..last : (IF r < last THEN buf[r + 1] ELSE Blank) \in Row
        BY <1>4, <1>6, RowKinds
      <4> QED BY <1>4, <4>1
    <3> HIDE DEF shifted
    <3>2. Refilled(con, con')
      BY <1>1, <2>2, <3>1, BufRefilled
    <3> QED BY <1>4, <3>2 DEF Refilled
  <2> QED BY <1>2, <2>1, <2>2
<1> QED BY <1>1, <1>3, <1>7, AppStepKeeps

LEMMA EditStep ==
  ASSUME ScraperInv, NEW row \in Window(con), NEW blank \in BOOLEAN, Edit(row, blank)
  PROVE  ScraperInv'
<1> DEFINE text == IF blank THEN Blank ELSE Text(g.written, g.odd + 1)
           buf == [con.buf EXCEPT ![row] = text]
<1>1. /\ con \in Consoles /\ ~con.frozen /\ UNCHANGED <<s, t, pc, info, read>>
      /\ DOMAIN g = HistoryFields /\ g.written \in Nat /\ g.odd \in Nat
      /\ con' = [con EXCEPT !.buf = buf]
  BY DEF ScraperInv, ScraperTypes, Edit, Odd
<1>2. /\ DOMAIN g' = HistoryFields /\ g'.written \in Nat /\ g'.odd \in Nat
      /\ g.missed => g'.missed
  <2> DEFINE l == Logged(row, text)
  <2>1. g' = [l EXCEPT !.odd = l.odd + 1, !.missed = l.missed \/ Resizing]
    BY DEF Edit
  <2>2. /\ DOMAIN l = HistoryFields /\ l.written = g.written /\ l.odd = g.odd
        /\ l.missed = g.missed
    BY <1>1, LoggedKeeps
  <2> HIDE DEF l
  <2>3. /\ DOMAIN g' = HistoryFields /\ g'.written = l.written /\ g'.odd = l.odd + 1
        /\ g'.missed = (l.missed \/ Resizing)
    BY <2>1, <2>2 DEF HistoryFields
  <2>4. g'.written \in Nat /\ g'.odd \in Nat
    BY <1>1, <2>2, <2>3
  <2>5. g.missed => g'.missed
    BY <2>2, <2>3, Zenon
  <2> QED BY <2>3, <2>4, <2>5
<1>3. row \in DOMAIN con.buf
  BY <1>1, ConsoleFacts DEF Window
<1>4. text \in Row
  BY <1>1, RowKinds
<1> HIDE DEF text
<1>5. buf \in [0..(BufferHeight(con) - 1) -> Row]
  BY <1>1, <1>3, <1>4, RowWritten
<1> HIDE DEF buf
<1>6. Refilled(con, con')
  BY <1>1, <1>5, BufRefilled
<1>7. con' \in Consoles /\ con'.top >= con.top /\ BufferHeight(con') = BufferHeight(con)
  BY <1>1, <1>6, ConsoleFacts DEF Refilled
<1> QED BY <1>1, <1>2, <1>7, AppStepKeeps

LEMMA MoveCursorStep ==
  ASSUME ScraperInv, NEW row \in Window(con), MoveCursor(row)
  PROVE  ScraperInv'
<1>1. /\ con \in Consoles /\ ~con.frozen /\ UNCHANGED <<s, t, pc, info, read>>
      /\ DOMAIN g = HistoryFields /\ g.written \in Nat /\ g.odd \in Nat
      /\ con' = [con EXCEPT !.cur = row]
  BY DEF ScraperInv, ScraperTypes, MoveCursor, Odd
<1>2. /\ DOMAIN g' = HistoryFields /\ g'.written \in Nat /\ g'.odd \in Nat
      /\ g.missed => g'.missed
  <2>1. g' = [g EXCEPT !.quiet = FALSE, !.odd = g.odd + 1, !.missed = g.missed \/ Resizing]
    BY DEF MoveCursor
  <2>2. /\ DOMAIN g' = HistoryFields /\ g'.written = g.written /\ g'.odd = g.odd + 1
        /\ g'.missed = (g.missed \/ Resizing)
    BY <1>1, <2>1 DEF HistoryFields
  <2>3. g'.written \in Nat /\ g'.odd \in Nat
    BY <1>1, <2>2
  <2>4. g.missed => g'.missed
    BY <2>2, Zenon
  <2> QED BY <2>2, <2>3, <2>4
<1>3. con \in ConsoleRecords /\ row \in Nat /\ row < BufferHeight(con)
  BY <1>1, ConsoleFacts, ConsoleIsRecord DEF Window
<1>4. /\ con' \in ConsoleRecords /\ con'.buf = con.buf /\ con'.top = con.top
      /\ con'.height = con.height /\ con'.cur = row
  BY <1>1, <1>3 DEF ConsoleRecords
<1>5. con' \in Consoles /\ BufferHeight(con') = BufferHeight(con)
  BY <1>1, <1>3, <1>4, ConsoleFacts, ConsoleFits
<1>6. con'.top >= con.top
  BY <1>1, <1>4, ConsoleFacts
<1> QED BY <1>1, <1>2, <1>5, <1>6, AppStepKeeps

\* A clear or another height while the window is being resized is missed.
LEMMA RewrittenKeeps ==
  ASSUME ScraperInv, Odd, con' \in Consoles, NEW unseen \in BOOLEAN, g' = Rewritten(unseen)
  PROVE  ScraperInv'
<1>1. /\ ~con.frozen /\ UNCHANGED <<s, t, pc, info, read>>
      /\ DOMAIN g = HistoryFields /\ g.written \in Nat /\ g.odd \in Nat
  BY DEF ScraperInv, ScraperTypes, Odd
<1>2. /\ DOMAIN g' = HistoryFields /\ g'.written \in Nat /\ g'.odd \in Nat
      /\ g'.missed = (g.missed \/ unseen \/ pc \notin {"idle", "direct"})
  BY <1>1 DEF Rewritten, HistoryFields
<1>3. (g.missed => g'.missed) /\ (Resizing => g'.missed)
  BY <1>2 DEF Resizing
<1> QED BY <1>1, <1>2, <1>3, AppStepKeeps

LEMMA ClearStep ==
  ASSUME ScraperInv, Clear
  PROVE  ScraperInv'
<1> DEFINE buf == [r \in DOMAIN con.buf |-> Blank]
<1>1. /\ con \in Consoles /\ Odd /\ g' = Rewritten(FALSE)
      /\ con' = [con EXCEPT !.buf = buf, !.top = 0, !.cur = 0]
  BY DEF ScraperInv, ScraperTypes, Clear
<1>2. /\ BufferHeight(con) \in Nat \ {0} /\ con.height <= BufferHeight(con)
      /\ con.height < BUFFER_LINE_COUNT
  BY <1>1, ConsoleFacts
<1>3. buf \in [0..(BufferHeight(con) - 1) -> Row]
  BY <1>1, ConsoleFacts, RowKinds
<1> HIDE DEF buf
<1>4. con \in ConsoleRecords /\ buf \in Buffers
  BY <1>1, <1>2, <1>3, ConsoleIsRecord DEF Buffers
<1>5. /\ con' \in ConsoleRecords /\ con'.buf = buf /\ con'.top = 0
      /\ con'.height = con.height /\ con'.cur = 0
  BY <1>1, <1>4 DEF ConsoleRecords
<1>6. con.height \in Nat
  BY <1>1, ConsoleFacts
<1>7. con' \in Consoles
  BY <1>2, <1>3, <1>5, <1>6, ConsoleFits
<1> QED BY <1>1, <1>7, RewrittenKeeps

LEMMA SetBufferHeightStep ==
  ASSUME ScraperInv, NEW rows \in Nat \ {0}, SetBufferHeight(rows)
  PROVE  ScraperInv'
<1> DEFINE height == Min({con.height, rows})
           c == [con EXCEPT !.height = height]
           unseen == rows = BUFFER_LINE_COUNT /\ ~s.directMode
<1>1. /\ con \in Consoles /\ Odd /\ g' = Rewritten(unseen)
      /\ con' = resizeBufferRange(c, rows)
  BY DEF ScraperInv, ScraperTypes, SetBufferHeight
<1>2. con.height \in Nat \ {0} /\ con \in ConsoleRecords
  BY <1>1, ConsoleFacts, ConsoleIsRecord
<1>3. height = IF con.height <= rows THEN con.height ELSE rows
  BY <1>2, MinOfTwo
<1> HIDE DEF height
<1>4. height \in Nat \ {0} /\ height <= con.height
  BY <1>2, <1>3
<1>5. /\ c \in ConsoleRecords /\ c.buf = con.buf /\ c.top = con.top
      /\ c.height = height /\ c.cur = con.cur
  BY <1>2, <1>4 DEF ConsoleRecords
<1> HIDE DEF c
<1>6. c \in Consoles
  <2>1. con.top + height <= BufferHeight(con) /\ height < BUFFER_LINE_COUNT
    BY <1>1, <1>4, ConsoleFacts, Sizes
  <2> QED BY <1>1, <1>5, <2>1, ConsoleFacts, ConsoleFits
<1>7. con' \in Consoles
  BY <1>1, <1>6, BufferResized
<1> QED BY <1>1, <1>7, RewrittenKeeps

----------------------------------------------------------------------------
(***************************************************************************)
(* How much the buffer has scrolled.  The count is exact as long as there  *)
(* is a marker before the buffer scrolls for the first time.  So the       *)
(* window must not get from where it may be without one to the end of the  *)
(* buffer in one poll.  Tallest is the largest height of a window or of a  *)
(* buffer in direct mode for which it cannot.                              *)
(***************************************************************************)
Tallest ==
  ((BUFFER_LINE_COUNT - 2 * (SYNC_MARKER_LEN + SYNC_MARKER_MARGIN)) \div 3) - MaxBurst

\* The heights, and what is written between two polls, are small for the buffer.
HistoryFits ==
  \A rows \in Rows \union AppHeights :
    2 * (SYNC_MARKER_LEN + SYNC_MARKER_MARGIN) + 3 * (rows + MaxBurst) <= BUFFER_LINE_COUNT

\* A scrape of a window that ends below this line leaves a marker behind.
MarkedFrom == 2 * (SYNC_MARKER_LEN + SYNC_MARKER_MARGIN) + 2 * Tallest + MaxBurst

LEMMA HeightsFit ==
  ASSUME HistoryFits
  PROVE  /\ Tallest \in Nat \ {0} /\ MarkedFrom \in Nat /\ MaxBurst \in Nat
         /\ \A rows \in Rows \union AppHeights : rows \in Nat /\ rows <= Tallest
         /\ MarkedFrom + Tallest + 2 * MaxBurst <= BUFFER_LINE_COUNT
         /\ 2 * Tallest + MaxBurst <= MarkedFrom
         /\ \A n \in Int : n < 2 * (SYNC_MARKER_LEN + SYNC_MARKER_MARGIN)
                           => n + Tallest <= MarkedFrom
<1> DEFINE M == 2 * (SYNC_MARKER_LEN + SYNC_MARKER_MARGIN)
           B == BUFFER_LINE_COUNT
           S == Rows \union AppHeights
<1>1. M \in Nat /\ B \in Nat /\ MaxBurst \in Nat /\ InitialRows \in S /\ S \subseteq Nat \ {0}
  BY Sizes, ScraperAssumption
<1>2. \A rows \in S : M + 3 * (rows + MaxBurst) <= B
  BY DEF HistoryFits
<1>3. Tallest = ((B - M) \div 3) - MaxBurst /\ MarkedFrom = M + 2 * Tallest + MaxBurst
  BY DEF Tallest, MarkedFrom
<1> HIDE DEF M, B, S
<1>4. PICK q \in Int : q = (B - M) \div 3 /\ 3 * q <= B - M /\ B - M < 3 * q + 3
  BY <1>1
<1>5. \A rows \in S : rows + MaxBurst <= q
  BY <1>1, <1>2, <1>4
<1>6. Tallest = q - MaxBurst
  BY <1>3, <1>4
<1>7. Tallest \in Nat \ {0} /\ \A rows \in S : rows \in Nat /\ rows <= Tallest
  BY <1>1, <1>4, <1>5, <1>6
<1>8. 3 * (Tallest + MaxBurst) <= B - M
  BY <1>1, <1>4, <1>6
<1>9. MarkedFrom \in Nat /\ MarkedFrom + Tallest + 2 * MaxBurst <= B
      /\ 2 * Tallest + MaxBurst <= MarkedFrom
      /\ \A n \in Int : n < M => n + Tallest <= MarkedFrom
  BY <1>1, <1>3, <1>7, <1>8
<1> QED BY <1>1, <1>7, <1>9 DEF M, B, S

Scraping == TentativePhases \union {"frozen"}

Bottom(c) == c.top + c.height

Low == Bottom(con) <= Tallest + g.burst

\* The heights are those of the window or of a buffer in direct mode, and the
\* cursor is in the window.
HeightsOK ==
  /\ g.burst \in 0..MaxBurst
  /\ con.height <= Tallest /\ con.cur \in Window(con)
  /\ BufferHeight(con) <= Tallest \/ BufferHeight(con) = BUFFER_LINE_COUNT
  /\ info.height <= Tallest /\ info.cur \in Window(info)
  /\ info.bufferHeight <= Tallest \/ info.bufferHeight = BUFFER_LINE_COUNT

\* In direct mode the buffer is low, or was when it was last looked at.
DirectLow ==
  s.directMode => /\ Bottom(con) <= 2 * Tallest + g.burst
                  /\ pc \in {"resize", "shrinkWindow", "expandWindow"} => Low

\* While a scrape or a resize is under way the window follows the lines written.
NotFarDown ==
  /\ pc \in {"resizeBuffer", "expandWindow"} => con.height <= s.ptyRows
  /\ ~s.directMode =>
       /\ pc \in Scraping \union {"resize", "shrinkWindow"} => con.top <= info.top + g.burst
       /\ pc \in {"resizeBuffer", "expandWindow"} =>
            con.top + s.ptyRows <= info.top + Tallest + g.burst

\* A window that has moved up is near the top of the buffer.
NotUp ==
  ~s.directMode =>
    /\ pc = "idle" => con.top >= s.dirtyWindowTop \/ Low
    /\ pc \in Scraping =>
         /\ con.top >= info.top \/ Low
         /\ info.top >= s.dirtyWindowTop \/ Bottom(info) <= Tallest + MaxBurst
         /\ pc \in {"read", "check", "checkMarker"} => s.dirtyWindowTop = info.top

\* How far down the window may be while there is no marker.
UnmarkedHigh ==
  s.syncRow = -1 =>
    /\ s.scrolledCount = 0 /\ s.dirtyLineCount <= MarkedFrom
    /\ ~s.directMode =>
         /\ pc = "idle" => Bottom(con) <= MarkedFrom + g.burst
         /\ pc \in {"tentative", "frozen"} => info.top <= MarkedFrom + MaxBurst
         /\ pc \notin {"idle", "tentative", "frozen"} => info.top + Tallest <= MarkedFrom

PositionInv == HeightsOK /\ DirectLow /\ NotFarDown /\ NotUp /\ UnmarkedHigh

\* Where making room for the cursor moves the window.
LEMMA CursorKept ==
  ASSUME con \in Consoles, con.cur \in Window(con), NEW top \in Int, NEW height \in Nat \ {0}
  PROVE  LET w == WithCursor(top, height)
         IN /\ w \in Int /\ w <= con.cur /\ con.cur <= w + height - 1
            /\ \/ w = top
               \/ w = con.cur /\ con.cur < top
               \/ w = con.cur - height + 1 /\ con.cur >= top + height
<1> DEFINE cur == con.cur
<1>1. cur \in Nat /\ WithCursor(top, height) = ensureLineIncluded(top, height, cur)
  BY ConsoleFacts DEF WithCursor
<1> HIDE DEF cur
<1>2. CASE cur < top
  <2>1. ensureLineIncluded(top, height, cur) = cur
    BY <1>1, <1>2 DEF ensureLineIncluded
  <2> QED BY <1>1, <1>2, <2>1 DEF cur
<1>3. CASE cur >= top + height
  <2>1. ~(cur < top)
    BY <1>1, <1>3
  <2>2. ensureLineIncluded(top, height, cur) = cur - height + 1
    BY <1>3, <2>1 DEF ensureLineIncluded
  <2> QED BY <1>1, <1>3, <2>2 DEF cur
<1>4. CASE ~(cur < top) /\ ~(cur >= top + height)
  <2>1. ensureLineIncluded(top, height, cur) = top
    BY <1>4 DEF ensureLineIncluded
  <2> QED BY <1>1, <1>4, <2>1 DEF cur
<1> QED BY <1>2, <1>3, <1>4

\* The numbers that the invariant relates.
LEMMA Numbers ==
  ASSUME ScraperTypes, HeightsOK
  PROVE  /\ con.top \in Nat /\ con.height \in Nat \ {0} /\ con.cur \in Nat
         /\ BufferHeight(con) \in Nat \ {0} /\ con.cur < BufferHeight(con)
         /\ con.top + con.height <= BufferHeight(con)
         /\ con.top <= con.cur /\ con.cur < con.top + con.height
         /\ info.top \in Nat /\ info.height \in Nat \ {0} /\ info.cur \in Nat
         /\ info.bufferHeight \in Nat /\ info.top + info.height <= info.bufferHeight
         /\ info.top <= info.cur /\ info.cur < info.top + info.height
         /\ s.syncRow \in Int /\ s.syncRow >= -1 /\ s.scrolledCount \in Nat
         /\ s.dirtyWindowTop \in Int /\ s.dirtyLineCount \in Nat /\ s.ptyRows \in Nat \ {0}
         /\ s.ptyRows \in Rows /\ s.directMode \in BOOLEAN /\ s.resizing \in BOOLEAN
         /\ g.burst \in Nat
<1>1. con \in Consoles /\ info \in Infos /\ s \in Scrapers
  BY DEF ScraperTypes
<1>2. /\ con.top \in Nat /\ con.height \in Nat \ {0} /\ con.cur \in Nat
      /\ BufferHeight(con) \in Nat \ {0} /\ con.cur < BufferHeight(con)
      /\ con.top + con.height <= BufferHeight(con)
  BY <1>1, ConsoleFacts
<1>3. con.top <= con.cur /\ con.cur < con.top + con.height
  BY <1>2 DEF HeightsOK, Window
<1>4. /\ info.top \in Nat /\ info.height \in Nat \ {0} /\ info.cur \in Nat
      /\ info.bufferHeight \in Nat /\ info.top + info.height <= info.bufferHeight
  BY <1>1 DEF Infos
<1>5. info.top <= info.cur /\ info.cur < info.top + info.height
  BY <1>4 DEF HeightsOK, Window
<1>6. g.burst \in Nat
  BY ScraperAssumption DEF HeightsOK
<1> QED BY <1>1, <1>2, <1>3, <1>4, <1>5, <1>6, ScraperFacts

LEMMA InitPosition ==
  ASSUME HistoryFits, ScraperInit
  PROVE  PositionInv
<1>1. ScraperInv
  BY InitInv
<1>2. /\ con.top = 0 /\ con.height = InitialRows /\ con.cur = 0
      /\ DOMAIN con.buf = 0..(BUFFER_LINE_COUNT - 1)
      /\ pc = "idle" /\ info = bufferInfo(con) /\ g.burst = 0
  BY DEF ScraperInit
<1>3. BufferHeight(con) = BUFFER_LINE_COUNT
  BY <1>2, HeightOf, Sizes
<1>4. info.top = 0 /\ info.height = InitialRows /\ info.cur = 0
      /\ info.bufferHeight = BUFFER_LINE_COUNT
  BY <1>2, <1>3 DEF bufferInfo
<1>5. InitialRows \in Nat \ {0} /\ InitialRows <= Tallest /\ 0 \in 0..(0 + InitialRows - 1)
  BY HeightsFit, Sizes
<1>6. ~s.directMode /\ s.syncRow = -1 /\ s.scrolledCount = 0 /\ s.dirtyLineCount = 0
      /\ s.dirtyWindowTop = -1
  BY DEF ScraperInit, NewTracking
<1>7. HeightsOK
  BY <1>2, <1>3, <1>4, <1>5, HeightsFit DEF HeightsOK, Window
<1>8. Bottom(con) = InitialRows
  BY <1>2, <1>5 DEF Bottom
<1> QED BY <1>2, <1>5, <1>6, <1>7, <1>8, HeightsFit
        DEF PositionInv, DirectLow, NotFarDown, NotUp, UnmarkedHigh, Scraping, TentativePhases

----------------------------------------------------------------------------
(***************************************************************************)
(* How the steps of a scrape keep the positions.                           *)
(***************************************************************************)

LEMMA ReadInfoDoes ==
  ASSUME ScraperInv, ReadInfo
  PROVE  \E direct \in BOOLEAN, switch \in BOOLEAN :
         /\ direct = (BufferHeight(con) # BUFFER_LINE_COUNT) /\ switch = (direct # s.directMode)
         /\ pc = "idle"
         /\ con'.buf = con.buf /\ con'.top = con.top /\ con'.height = con.height
         /\ con'.cur = con.cur /\ BufferHeight(con') = BufferHeight(con)
         /\ con'.frozen = (~s.isNewW10 \/ s.resizing)
         /\ bufferInfo(con') = bufferInfo(con)
         /\ info' = bufferInfo(con)
         /\ pc' = (IF direct THEN IF s.resizing THEN "resize" ELSE "direct"
                   ELSE IF con'.frozen \/ switch THEN "frozen" ELSE "tentative")
         /\ s'.directMode = direct /\ s'.resizing = (s.resizing \/ (switch /\ ~direct))
         /\ s'.ptyRows = s.ptyRows /\ s'.syncCounter = s.syncCounter
         /\ IF switch
            THEN /\ s'.syncRow = -1 /\ s'.dirtyWindowTop = -1 /\ s'.scrolledCount = 0
                 /\ s'.dirtyLineCount = 0
            ELSE /\ s'.syncRow = s.syncRow /\ s'.dirtyWindowTop = s.dirtyWindowTop
                 /\ s'.scrolledCount = s.scrolledCount /\ s'.dirtyLineCount = s.dirtyLineCount
                 /\ s'.scrapedLineCount = s.scrapedLineCount
         /\ s'.failed = s.failed
         /\ g'.burst = 0
         /\ IF switch THEN g'.scroll = 0 /\ g'.damaged = FALSE
            ELSE g'.scroll = g.scroll /\ g'.damaged = g.damaged /\ (g.missed => g'.missed)
<1> DEFINE i == bufferInfo(con)
           refilled == g.damaged /\ s.syncRow = -1 /\ s.dirtyWindowTop \in 1..i.top
           direct == i.bufferHeight # BUFFER_LINE_COUNT
           switch == direct # s.directMode
           first == IF direct THEN 0 ELSE i.top
           frozen == ~s.isNewW10 \/ s.resizing
           u == IF switch THEN NewTracking(s, first) ELSE s
           resizing == u.resizing \/ (switch /\ ~direct)
           missed == g.missed \/ refilled
           h == [g EXCEPT !.burst = 0, !.quiet = TRUE, !.missed = missed]
<1>1. con \in Consoles /\ s \in Scrapers /\ pc = "idle" /\ DOMAIN g = HistoryFields
  BY DEF ScraperInv, ScraperTypes, ReadInfo
<1>2. /\ con' = [con EXCEPT !.frozen = frozen]
      /\ s' = [u EXCEPT !.directMode = direct, !.resizing = resizing]
      /\ info' = i
      /\ pc' = IF direct THEN IF s.resizing THEN "resize" ELSE "direct"
               ELSE IF frozen \/ switch THEN "frozen" ELSE "tentative"
      /\ g' = IF switch THEN NewHistory(h, con, first) ELSE h
  BY DEF ReadInfo
<1>3. first \in Nat /\ direct \in BOOLEAN /\ switch \in BOOLEAN /\ frozen \in BOOLEAN
  <2>1. i.top \in Nat
    BY <1>1, InfoOf DEF Infos
  <2> QED BY <1>1, <2>1, ScraperFacts
<1>4. direct = (BufferHeight(con) # BUFFER_LINE_COUNT)
  BY DEF bufferInfo
<1>5. /\ u \in Scrapers /\ SameFlags(s, u) /\ u.syncCounter = s.syncCounter
      /\ u.failed = s.failed
      /\ IF switch
         THEN /\ u.syncRow = -1 /\ u.dirtyWindowTop = -1 /\ u.scrolledCount = 0
              /\ u.dirtyLineCount = 0
         ELSE u = s
  <2>1. CASE switch
    BY <1>1, <1>3, <2>1, TrackingIsNew
  <2>2. CASE ~switch
    BY <1>1, <2>2 DEF SameFlags
  <2> QED BY <2>1, <2>2
<1>6. /\ con'.buf = con.buf /\ con'.top = con.top /\ con'.height = con.height
      /\ con'.cur = con.cur /\ BufferHeight(con') = BufferHeight(con)
      /\ con'.frozen = frozen /\ bufferInfo(con') = i
  BY <1>1, <1>2, <1>3, FrozenSet
<1>7. /\ g'.burst = 0
      /\ IF switch THEN g'.scroll = 0 /\ g'.damaged = FALSE
         ELSE g'.scroll = g.scroll /\ g'.damaged = g.damaged /\ (g.missed => g'.missed)
  <2>4. g.missed => missed
    OBVIOUS
  <2> HIDE DEF missed
  <2>1. /\ DOMAIN h = HistoryFields /\ h.burst = 0 /\ h.scroll = g.scroll
        /\ h.damaged = g.damaged /\ h.missed = missed
    BY <1>1 DEF HistoryFields
  <2> HIDE DEF h
  <2>2. CASE switch
    <3>1. g' = NewHistory(h, con, first)
      BY <1>2, <2>2
    <3> QED BY <2>1, <2>2, <3>1 DEF NewHistory, HistoryFields
  <2>3. CASE ~switch
    <3>1. g' = h
      BY <1>2, <2>3
    <3>2. g.missed => g'.missed
      BY <2>1, <2>4, <3>1, Zenon
    <3> QED BY <2>1, <2>3, <3>1, <3>2
  <2> QED BY <2>2, <2>3
<1> HIDE DEF u
<1>8. /\ s'.directMode = direct /\ s'.resizing = resizing /\ s'.ptyRows = u.ptyRows
      /\ s'.syncCounter = u.syncCounter /\ s'.syncRow = u.syncRow
      /\ s'.dirtyWindowTop = u.dirtyWindowTop /\ s'.scrolledCount = u.scrolledCount
      /\ s'.dirtyLineCount = u.dirtyLineCount /\ s'.scrapedLineCount = u.scrapedLineCount
      /\ s'.failed = u.failed
  BY <1>2, <1>5 DEF Scrapers
<1>9. u.resizing = s.resizing /\ u.ptyRows = s.ptyRows
  BY <1>5 DEF SameFlags
<1> HIDE DEF direct, switch, frozen
<1>10. pc' = (IF direct THEN IF s.resizing THEN "resize" ELSE "direct"
              ELSE IF con'.frozen \/ switch THEN "frozen" ELSE "tentative")
  BY <1>2, <1>6
<1>11. con'.frozen = (~s.isNewW10 \/ s.resizing) /\ switch = (direct # s.directMode)
  BY <1>6 DEF frozen, switch
<1> WITNESS direct \in BOOLEAN, switch \in BOOLEAN
<1> QED BY <1>1, <1>2, <1>4, <1>5, <1>6, <1>7, <1>8, <1>9, <1>10, <1>11

LEMMA ReadInfoPosition ==
  ASSUME HistoryFits, ScraperInv, ScraperInv', PositionInv, ReadInfo
  PROVE  PositionInv'
<1>1. PICK direct \in BOOLEAN, switch \in BOOLEAN :
         /\ direct = (BufferHeight(con) # BUFFER_LINE_COUNT) /\ switch = (direct # s.directMode)
         /\ pc = "idle"
         /\ con'.top = con.top /\ con'.height = con.height
         /\ con'.cur = con.cur /\ BufferHeight(con') = BufferHeight(con)
         /\ info' = bufferInfo(con)
         /\ pc' = (IF direct THEN IF s.resizing THEN "resize" ELSE "direct"
                   ELSE IF con'.frozen \/ switch THEN "frozen" ELSE "tentative")
         /\ s'.directMode = direct
         /\ IF switch
            THEN /\ s'.syncRow = -1 /\ s'.dirtyWindowTop = -1 /\ s'.scrolledCount = 0
                 /\ s'.dirtyLineCount = 0
            ELSE /\ s'.syncRow = s.syncRow /\ s'.dirtyWindowTop = s.dirtyWindowTop
                 /\ s'.scrolledCount = s.scrolledCount /\ s'.dirtyLineCount = s.dirtyLineCount
         /\ g'.burst = 0
  BY ReadInfoDoes
<1>2. /\ con.top \in Nat /\ con.height \in Nat \ {0} /\ con.cur \in Nat
      /\ BufferHeight(con) \in Nat /\ con.top + con.height <= BufferHeight(con)
      /\ s.directMode \in BOOLEAN /\ s.dirtyWindowTop \in Int /\ g.burst \in Nat
      /\ s.dirtyLineCount \in Nat /\ s.syncRow \in Int
  BY Numbers DEF ScraperInv, PositionInv
<1>3. /\ info'.top = con.top /\ info'.height = con.height /\ info'.cur = con.cur
      /\ info'.bufferHeight = BufferHeight(con)
  BY <1>1 DEF bufferInfo
<1>4. /\ Tallest \in Nat \ {0} /\ MarkedFrom \in Nat /\ MaxBurst \in Nat
      /\ 2 * Tallest + MaxBurst <= MarkedFrom
  BY HeightsFit
<1>5. /\ g.burst <= MaxBurst /\ con.height <= Tallest
      /\ BufferHeight(con) <= Tallest \/ BufferHeight(con) = BUFFER_LINE_COUNT
  BY <1>2, <1>4 DEF PositionInv, HeightsOK
<1>6. HeightsOK'
  BY <1>1, <1>3, <1>4 DEF PositionInv, HeightsOK, Window
<1>7. pc' \in Scraping \union {"resize", "direct"} /\ (~direct => pc' \in {"frozen", "tentative"})
  BY <1>1 DEF Scraping, TentativePhases
<1>8. DirectLow'
  <2> SUFFICES ASSUME direct PROVE Bottom(con)' <= Tallest + g'.burst
    BY <1>1, <1>2, <1>4, <1>5 DEF DirectLow, Low, Bottom
  <2>1. BufferHeight(con) <= Tallest
    <3>1. BufferHeight(con) # BUFFER_LINE_COUNT
      BY <1>1, Zenon
    <3> QED BY <1>5, <3>1
  <2>2. con.top + con.height <= Tallest
    BY <1>2, <1>4, <2>1
  <2> QED BY <1>1, <1>2, <1>4, <2>2 DEF Bottom
<1>9. NotFarDown'
  BY <1>1, <1>2, <1>3, <1>7 DEF NotFarDown, Scraping, TentativePhases
<1>10. NotUp'
  <2> SUFFICES ASSUME ~direct
               PROVE  info'.top >= s'.dirtyWindowTop \/ Bottom(info)' <= Tallest + MaxBurst
    BY <1>1, <1>2, <1>3, <1>7 DEF NotUp, Scraping
  <2>1. CASE switch
    BY <1>1, <1>2, <1>3, <2>1
  <2>2. CASE ~switch
    <3>1. con.top >= s.dirtyWindowTop \/ con.top + con.height <= Tallest + g.burst
      BY <1>1, <2>2 DEF PositionInv, NotUp, Low, Bottom
    <3> QED BY <1>1, <1>2, <1>3, <1>4, <1>5, <2>2, <3>1 DEF Bottom
  <2> QED BY <2>1, <2>2
<1>11. UnmarkedHigh'
  <2> SUFFICES ASSUME s'.syncRow = -1
               PROVE  /\ s'.scrolledCount = 0 /\ s'.dirtyLineCount <= MarkedFrom
                      /\ ~direct => con.top <= MarkedFrom + MaxBurst
    BY <1>1, <1>3, <1>7 DEF UnmarkedHigh
  <2>1. CASE switch
    <3>1. ~direct => s.directMode
      BY <1>1, <1>2, <2>1
    <3>2. ~direct => con.top + con.height <= 2 * Tallest + g.burst
      BY <3>1 DEF PositionInv, DirectLow, Bottom
    <3> QED BY <1>1, <1>2, <1>4, <1>5, <2>1, <3>2
  <2>2. CASE ~switch
    <3>1. /\ s.scrolledCount = 0 /\ s.dirtyLineCount <= MarkedFrom
          /\ ~direct => con.top + con.height <= MarkedFrom + g.burst
      BY <1>1, <2>2 DEF PositionInv, UnmarkedHigh, Bottom
    <3> QED BY <1>1, <1>2, <1>4, <1>5, <2>2, <3>1
  <2> QED BY <2>1, <2>2
<1> QED BY <1>6, <1>8, <1>9, <1>10, <1>11 DEF PositionInv

LEMMA FreezePosition ==
  ASSUME HistoryFits, ScraperInv, PositionInv, Freeze
  PROVE  PositionInv'
<1>1. con \in Consoles /\ con' = [con EXCEPT !.frozen = TRUE] /\ UNCHANGED <<s, t, pc, info, read, g>>
  BY DEF ScraperInv, ScraperTypes, Freeze
<1>2. /\ con'.top = con.top /\ con'.height = con.height /\ con'.cur = con.cur
      /\ BufferHeight(con') = BufferHeight(con)
  BY <1>1, FrozenSet
<1> QED BY <1>1, <1>2 DEF PositionInv, HeightsOK, DirectLow, NotFarDown, NotUp, UnmarkedHigh,
        Low, Bottom, Window

LEMMA CheckPosition ==
  ASSUME HistoryFits, ScraperInv, PositionInv, ReadContent \/ CheckInfo
  PROVE  PositionInv'
<1>1. /\ UNCHANGED <<con, s, info, g>> /\ pc \in {"read", "check"}
      /\ pc' \in {"check", "checkMarker", "frozen"}
  BY DEF ReadContent, CheckInfo, Bail
<1>2. BufferHeight(con)' = BufferHeight(con)
  BY <1>1
<1>3. Tallest \in Nat /\ MarkedFrom \in Nat /\ MaxBurst \in Nat /\ info.top \in Nat
  BY HeightsFit, Numbers DEF ScraperInv, PositionInv
<1>4. UnmarkedHigh'
  BY <1>1, <1>3 DEF PositionInv, UnmarkedHigh
<1> QED BY <1>1, <1>2, <1>4 DEF PositionInv, HeightsOK, DirectLow, NotFarDown, NotUp, 
        Low, Bottom, Window, Scraping, TentativePhases

\* A scrape goes on without a marker only where the window is high.
LEMMA NoMarkerNeeded ==
  ASSUME HistoryFits, NEW i \in ScrollingInfos, NEW u, u.syncRow = -1, ~shouldCreateSyncRow(u, i)
  PROVE  i.top + Tallest <= MarkedFrom
<1>1. SYNC_MARKER_LEN \in Nat /\ SYNC_MARKER_MARGIN \in Nat /\ i.top \in Int
  BY Sizes, InfoFacts
<1>2. i.top < 2 * (SYNC_MARKER_LEN + SYNC_MARKER_MARGIN)
  BY <1>1 DEF shouldCreateSyncRow, newSyncRow
<1> QED BY <1>1, <1>2, HeightsFit

LEMMA TentativePosition ==
  ASSUME HistoryFits, ScraperInv, PositionInv, Tentative
  PROVE  PositionInv'
<1>1. /\ s \in Scrapers /\ pc = "tentative" /\ ~s.directMode /\ info \in ScrollingInfos
  BY DEF ScraperInv, ScraperTypes, ModeFitsInfo, Tentative, TentativePhases, ScrollingInfos
<1>2. UNCHANGED <<con, info, g>> /\ BufferHeight(con)' = BufferHeight(con)
  BY DEF Tentative, Bail
<1>3. PICK row \in MarkerRows :
        LET gone == s.syncRow # -1 /\ row = -1
            u == MarkerFound(s, info, row)
        IN \/ gone /\ s' = s /\ pc' = "frozen"
           \/ ~gone /\ s' = u /\ pc' = "frozen"
           \/ /\ ~gone /\ ~shouldCreateSyncRow(u, info)
              /\ s' = ReadPrepared(u, info) /\ pc' = "read"
  BY DEF Tentative, Bail
<1> DEFINE gone == s.syncRow # -1 /\ row = -1
           u == MarkerFound(s, info, row)
<1>4. /\ Tallest \in Nat \ {0} /\ MarkedFrom \in Nat /\ MaxBurst \in Nat
      /\ info.top \in Nat /\ info.height \in Nat /\ info.cur \in Nat
      /\ info.cur < info.top + info.height /\ info.height <= Tallest
      /\ s.syncRow \in Int /\ s.dirtyLineCount \in Int
  BY HeightsFit, Numbers DEF ScraperInv, PositionInv, HeightsOK
<1>5. ~gone => /\ u \in Scrapers /\ SameFlags(s, u) /\ u.syncRow = row
               /\ u.dirtyWindowTop = s.dirtyWindowTop
               /\ row = s.syncRow => u = s
  <2> SUFFICES ASSUME ~gone
               PROVE  /\ u \in Scrapers /\ SameFlags(s, u) /\ u.syncRow = row
                      /\ u.dirtyWindowTop = s.dirtyWindowTop
                      /\ row = s.syncRow => u = s
    OBVIOUS
  <2>1. row \in -1..s.syncRow
    BY <1>1, MarkerRowFound
  <2>2. row = -1 => s.syncRow = -1
    OBVIOUS
  <2> QED BY <1>1, <2>1, <2>2, MarkerFollowed
<1> HIDE DEF u, gone
<1>6. ~gone => (u.syncRow = -1 => u = s)
  BY <1>5 DEF gone
<1>7. u \in Scrapers =>
        /\ ReadPrepared(u, info) \in Scrapers /\ SameFlags(u, ReadPrepared(u, info))
        /\ ReadPrepared(u, info).syncRow = u.syncRow /\ ReadPrepared(u, info).dirtyWindowTop = info.top
        /\ ReadPrepared(u, info).scrolledCount = u.scrolledCount
        /\ u.dirtyLineCount <= MarkedFrom /\ info.top + info.height <= MarkedFrom
             => ReadPrepared(u, info).dirtyLineCount <= MarkedFrom
  BY <1>1, <1>4, ReadIsPrepared
<1>8. UnmarkedHigh
  BY DEF PositionInv
<1>9. /\ SameFlags(s, s') /\ pc' \in {"frozen", "read"}
      /\ s'.dirtyWindowTop \in {s.dirtyWindowTop, info.top}
      /\ pc' = "read" => s'.dirtyWindowTop = info.top
      /\ UnmarkedHigh'
  <2>1. CASE gone /\ s' = s /\ pc' = "frozen"
    BY <1>1, <1>2, <1>8, <2>1 DEF UnmarkedHigh, SameFlags
  <2>2. CASE ~gone /\ s' = u /\ pc' = "frozen"
    BY <1>1, <1>2, <1>5, <1>6, <1>8, <2>2 DEF UnmarkedHigh, SameFlags
  <2>3. CASE ~gone /\ ~shouldCreateSyncRow(u, info) /\ s' = ReadPrepared(u, info) /\ pc' = "read"
    <3> DEFINE w == ReadPrepared(u, info)
    <3>1. /\ SameFlags(u, w) /\ w.syncRow = u.syncRow /\ w.dirtyWindowTop = info.top
          /\ w.scrolledCount = u.scrolledCount
          /\ u.dirtyLineCount <= MarkedFrom /\ info.top + info.height <= MarkedFrom
             => w.dirtyLineCount <= MarkedFrom
      BY <1>5, <1>7, <2>3
    <3> HIDE DEF w
    <3>2. SameFlags(s, s') /\ s'.dirtyWindowTop = info.top
      BY <1>5, <2>3, <3>1 DEF SameFlags, w
    <3>3. ASSUME s'.syncRow = -1
          PROVE  /\ s'.scrolledCount = 0 /\ s'.dirtyLineCount <= MarkedFrom
                 /\ info.top + Tallest <= MarkedFrom
      <4>1. u.syncRow = -1 /\ u = s
        BY <1>6, <2>3, <3>1, <3>3 DEF w
      <4>2. info.top + Tallest <= MarkedFrom
        BY <1>1, <2>3, <4>1, NoMarkerNeeded
      <4>3. info.top + info.height <= MarkedFrom
        BY <1>4, <4>2
      <4> QED BY <1>8, <2>3, <3>1, <4>1, <4>2, <4>3 DEF UnmarkedHigh, w
    <3> QED BY <1>2, <2>3, <3>2, <3>3 DEF UnmarkedHigh
  <2> QED BY <1>3, <2>1, <2>2, <2>3 DEF gone, u
<1>10. NotUp'
  BY <1>1, <1>2, <1>4, <1>9 DEF PositionInv, NotUp, Scraping, TentativePhases, SameFlags, Low, Bottom
<1> QED BY <1>1, <1>2, <1>9, <1>10 DEF PositionInv, HeightsOK, DirectLow, NotFarDown,
        Low, Bottom, Window, Scraping, TentativePhases, SameFlags

LEMMA CheckMarkerDoes ==
  ASSUME ScraperInv, CheckMarker
  PROVE  /\ pc = "checkMarker" /\ ~s.directMode /\ UNCHANGED <<con, info, g>> /\ SameFlags(s, s')
         /\ s'.syncRow = s.syncRow /\ s'.dirtyWindowTop = s.dirtyWindowTop
         /\ s'.scrolledCount = s.scrolledCount /\ s'.syncCounter = s.syncCounter
         /\ s'.dirtyLineCount = s.dirtyLineCount \/ s'.dirtyLineCount <= info.top + info.height
         /\ s'.failed = s.failed
         /\ \/ pc' = "frozen" /\ s'.scrapedLineCount = s.scrapedLineCount
               /\ s'.dirtyLineCount = s.dirtyLineCount
            \/ pc' = "idle" /\ s.syncRow \in MarkerRows
               /\ s'.scrapedLineCount = info.top + s.scrolledCount
<1>1. /\ s \in Scrapers /\ t \in Terminals /\ pc = "checkMarker" /\ ~s.directMode
      /\ info \in ScrollingInfos /\ ReadTyped(s, info, read)
  BY DEF ScraperInv, ScraperTypes, ModeFitsInfo, ReadFits, CheckMarker, TentativePhases,
         ScrollingInfos
<1> DEFINE output == ScrollingOutput(s, t, info, read)
<1>2. /\ UNCHANGED <<con, info, g>>
      /\ \/ pc' = "frozen" /\ s' = s
         \/ pc' = "idle" /\ s.syncRow \in MarkerRows /\ s' = output.u
  BY DEF CheckMarker, Bail
<1>3. /\ SameFlags(s, output.u)
      /\ output.u.syncRow = s.syncRow /\ output.u.dirtyWindowTop = s.dirtyWindowTop
      /\ output.u.scrolledCount = s.scrolledCount /\ output.u.syncCounter = s.syncCounter
      /\ output.u.scrapedLineCount = info.top + s.scrolledCount /\ output.u.failed = s.failed
      /\ \/ output.u.dirtyLineCount = s.dirtyLineCount
         \/ output.u.dirtyLineCount <= info.top + info.height
  BY <1>1, OutputScrolled
<1> HIDE DEF output
<1> QED BY <1>1, <1>2, <1>3 DEF SameFlags

LEMMA CheckMarkerPosition ==
  ASSUME HistoryFits, ScraperInv, PositionInv, CheckMarker
  PROVE  PositionInv'
<1>1. /\ pc = "checkMarker" /\ ~s.directMode /\ UNCHANGED <<con, info, g>> /\ ~s'.directMode
      /\ s'.ptyRows = s.ptyRows
      /\ s'.syncRow = s.syncRow /\ s'.dirtyWindowTop = s.dirtyWindowTop
      /\ s'.scrolledCount = s.scrolledCount
      /\ s'.dirtyLineCount = s.dirtyLineCount \/ s'.dirtyLineCount <= info.top + info.height
      /\ pc' \in {"frozen", "idle"}
  BY CheckMarkerDoes DEF SameFlags
<1>2. BufferHeight(con)' = BufferHeight(con)
  BY <1>1
<1>3. /\ Tallest \in Nat \ {0} /\ MarkedFrom \in Nat /\ MaxBurst \in Nat
      /\ info.top \in Nat /\ info.height \in Nat /\ info.height <= Tallest
      /\ con.top \in Nat /\ con.height \in Nat /\ con.height <= Tallest
      /\ s.dirtyLineCount \in Int /\ s.dirtyWindowTop \in Int /\ g.burst \in Nat
  BY HeightsFit, Numbers DEF ScraperInv, PositionInv, HeightsOK
<1>4. s'.dirtyLineCount \in Int
  <2>1. s' \in Scrapers
    BY CheckMarkerStep DEF ScraperInv, ScraperTypes
  <2> QED BY <2>1, ScraperFacts
<1>5. con.top <= info.top + g.burst
  BY <1>1 DEF PositionInv, NotFarDown, Scraping, TentativePhases
<1>6. /\ con.top >= info.top \/ Low
      /\ s.dirtyWindowTop = info.top
  BY <1>1 DEF PositionInv, NotUp, Scraping, TentativePhases
<1>7. NotUp'
  BY <1>1, <1>3, <1>6 DEF NotUp, Scraping, TentativePhases, Low, Bottom
<1>8. UnmarkedHigh'
  <2> SUFFICES ASSUME s.syncRow = -1
               PROVE  /\ s'.scrolledCount = 0 /\ s'.dirtyLineCount <= MarkedFrom
                      /\ Bottom(con)' <= MarkedFrom + g.burst
                      /\ info.top <= MarkedFrom + MaxBurst
    BY <1>1 DEF UnmarkedHigh
  <2>1. /\ s.scrolledCount = 0 /\ s.dirtyLineCount <= MarkedFrom
        /\ info.top + Tallest <= MarkedFrom
    BY <1>1 DEF PositionInv, UnmarkedHigh
  <2> QED BY <1>1, <1>3, <1>4, <1>5, <2>1 DEF Bottom
<1> QED BY <1>1, <1>2, <1>7, <1>8 DEF PositionInv, HeightsOK, DirectLow, NotFarDown,
        Low, Bottom, Window, Scraping, TentativePhases

\* What a scrape of a frozen console changes.  The marker is on row, if at all;
\* create says whether there will be a new one, anew whether lines are counted anew.
FrozenEffect(row, create, anew) ==
  /\ pc = "frozen" /\ ~s.directMode /\ con.frozen /\ info \in ScrollingInfos
  /\ row \in -1..s.syncRow
  /\ create <=> newSyncRow(info) >= row + SYNC_MARKER_LEN + SYNC_MARKER_MARGIN
  /\ s.syncRow # -1 /\ row = -1 => anew
  /\ anew => \/ s.syncRow # -1 /\ row = -1
             \/ info.top < s.dirtyWindowTop /\ s.dirtyWindowTop # -1
  /\ anew \/ s.dirtyWindowTop = -1 \/ info.top >= s.dirtyWindowTop
  /\ pc' = (IF s.resizing THEN "resize" ELSE "idle") /\ info' = info
  /\ SameFlags(s, s') /\ s'.dirtyWindowTop = info.top
  /\ s'.syncRow = IF create THEN newSyncRow(info) ELSE IF anew THEN -1 ELSE row
  /\ s'.scrolledCount = IF anew THEN 0 ELSE s.scrolledCount + (s.syncRow - row)
  /\ s'.syncCounter = IF create THEN s.syncCounter + 1 ELSE s.syncCounter
  /\ s'.syncRow = -1 /\ (anew \/ s.dirtyLineCount <= MarkedFrom)
       /\ info.top + Tallest <= MarkedFrom => s'.dirtyLineCount <= MarkedFrom
  /\ anew \/ s.dirtyLineCount <= info.top + Tallest => s'.dirtyLineCount <= info.top + Tallest
  /\ s'.scrapedLineCount = info.top + s'.scrolledCount
  /\ anew \/ s.scrolledCount + (s.syncRow - row) <= s.scrapedLineCount => s'.failed = s.failed
  /\ con'.top = con.top /\ con'.height = con.height /\ con'.cur = con.cur
  /\ con'.frozen = s.resizing /\ BufferHeight(con') = BufferHeight(con)
  /\ DOMAIN con'.buf = DOMAIN con.buf /\ bufferInfo(con') = bufferInfo(con)
  /\ IF create
     THEN \A r \in DOMAIN con.buf :
            \/ /\ r \in newSyncRow(info)..(newSyncRow(info) + SYNC_MARKER_LEN - 1)
               /\ con'.buf[r] = Marker(s.syncCounter + 1, r - newSyncRow(info))
            \/ con'.buf[r] \in {Blank, con.buf[r]}
     ELSE con'.buf = con.buf
  /\ g'.burst = g.burst /\ g'.quiet = g.quiet
  /\ IF anew THEN g'.scroll = 0
     ELSE g'.scroll = g.scroll /\ (g.damaged => g'.damaged) /\ (g.missed => g'.missed)

LEMMA FrozenScrapeDoes ==
  ASSUME HistoryFits, ScraperInv, PositionInv, FrozenScrape
  PROVE  \E row \in MarkerRows, create \in BOOLEAN, anew \in BOOLEAN :
           FrozenEffect(row, create, anew)
<1>1. /\ con \in Consoles /\ s \in Scrapers /\ t \in Terminals /\ pc = "frozen"
      /\ ~s.directMode /\ info \in ScrollingInfos /\ info \in Infos /\ con.frozen
      /\ DOMAIN g = HistoryFields
  BY DEF ScraperInv, ScraperTypes, ModeFitsInfo, FrozenScrape, TentativePhases, ScrollingInfos
<1>p. PICK row \in MarkerRows :
       LET gone == s.syncRow # -1 /\ row = -1
           u1 == IF gone THEN NewTracking(s, info.top) ELSE MarkerFound(s, info, row)
           create == shouldCreateSyncRow(u1, info)
           anew == gone \/ WindowUp(u1, info)
           u2 == ReadPrepared(IF anew THEN NewTracking(u1, info.top) ELSE u1, info)
           rows == largeConsoleRead(con, firstReadLine(u2, info), stopReadLine(u2, info))
           output == ScrollingOutput(IF create THEN MarkerCreated(u2, newSyncRow(info)) ELSE u2,
                                     IF anew THEN clearTerminal(t, info.top) ELSE t, info, rows)
           c == IF create THEN WithMarker(u2, con, newSyncRow(info)) ELSE con
           h == IF anew THEN NewHistory(g, con, info.top) ELSE g
       IN /\ s' = output.u /\ t' = output.t
          /\ con' = [c EXCEPT !.frozen = s.resizing]
          /\ g' = [h EXCEPT !.damaged = @ \/ \E r \in DOMAIN c.buf :
                                              r >= con.top /\ c.buf[r] # con.buf[r]]
  BY DEF FrozenScrape
<1> DEFINE gone == s.syncRow # -1 /\ row = -1
           u1 == IF gone THEN NewTracking(s, info.top) ELSE MarkerFound(s, info, row)
           create == shouldCreateSyncRow(u1, info)
           anew == gone \/ WindowUp(u1, info)
           v1 == IF anew THEN NewTracking(u1, info.top) ELSE u1
           u2 == ReadPrepared(v1, info)
           rows == largeConsoleRead(con, firstReadLine(u2, info), stopReadLine(u2, info))
           n == newSyncRow(info)
           u4 == IF create THEN MarkerCreated(u2, n) ELSE u2
           v == IF anew THEN clearTerminal(t, info.top) ELSE t
           output == ScrollingOutput(u4, v, info, rows)
           c == IF create THEN WithMarker(u2, con, n) ELSE con
           h == IF anew THEN NewHistory(g, con, info.top) ELSE g
           covered == \E r \in DOMAIN c.buf : r >= con.top /\ c.buf[r] # con.buf[r]
<1>2. /\ s' = output.u /\ con' = [c EXCEPT !.frozen = s.resizing]
      /\ g' = [h EXCEPT !.damaged = h.damaged \/ covered]
  BY <1>p
<1>3. pc' = (IF s.resizing THEN "resize" ELSE "idle") /\ info' = info
  BY DEF FrozenScrape
<1> HIDE <1>p
<1>4. info.top \in Nat
  BY <1>1, InfoFacts
<1>5. row \in -1..s.syncRow /\ (gone <=> s.syncRow # -1 /\ row = -1)
  BY <1>1, MarkerRowFound
<1>6. /\ u1 \in Scrapers /\ SameFlags(s, u1) /\ u1.syncRow = row
      /\ u1.syncCounter = s.syncCounter /\ u1.failed = s.failed
      /\ gone => u1.dirtyWindowTop = -1
      /\ ~gone => /\ u1.dirtyWindowTop = s.dirtyWindowTop
                  /\ u1.scrolledCount = s.scrolledCount + (s.syncRow - row)
                  /\ u1.scrapedLineCount = s.scrapedLineCount
                  /\ u1.dirtyLineCount \in {s.dirtyLineCount, info.top + info.height}
                  /\ row = s.syncRow => u1 = s
  <2>1. CASE gone
    BY <1>1, <1>4, <2>1, TrackingIsNew
  <2>2. CASE ~gone
    <3>1. row = -1 => s.syncRow = -1
      BY <2>2
    <3> QED BY <1>1, <1>5, <2>2, <3>1, MarkerFollowed
  <2> QED BY <2>1, <2>2
<1>7. gone => anew
  OBVIOUS
<1>8. anew <=> gone \/ (u1.dirtyWindowTop # -1 /\ info.top < u1.dirtyWindowTop)
  BY DEF WindowUp
<1>9. create <=> n >= row + SYNC_MARKER_LEN + SYNC_MARKER_MARGIN
  BY <1>6 DEF shouldCreateSyncRow
<1> HIDE DEF u1, gone
<1>10. /\ v1 \in Scrapers /\ SameFlags(u1, v1) /\ v1.syncCounter = u1.syncCounter
       /\ v1.failed = u1.failed
       /\ anew => /\ v1.syncRow = -1 /\ v1.scrolledCount = 0 /\ v1.dirtyLineCount = 0
                  /\ v1.scrapedLineCount = info.top
       /\ ~anew => v1 = u1
  <2>1. CASE anew
    BY <1>4, <1>6, <2>1, TrackingIsNew
  <2>2. CASE ~anew
    BY <1>6, <2>2 DEF SameFlags
  <2> QED BY <2>1, <2>2
<1> HIDE DEF v1
<1>11. /\ u2 \in Scrapers /\ SameFlags(v1, u2) /\ u2.syncRow = v1.syncRow
       /\ u2.dirtyWindowTop = info.top /\ u2.scrolledCount = v1.scrolledCount
       /\ u2.syncCounter = v1.syncCounter
       /\ v1.scrolledCount <= v1.scrapedLineCount => u2.failed = v1.failed
       /\ u2.scrapedLineCount = v1.scrapedLineCount /\ info.cur < u2.dirtyLineCount
       /\ \A m \in Int : v1.dirtyLineCount <= m /\ info.cur < m /\ info.top + info.height <= m
                          => u2.dirtyLineCount <= m
  BY <1>1, <1>10, ReadIsPrepared
<1> HIDE DEF u2
<1>12. firstReadLine(u2, info) \in Int /\ stopReadLine(u2, info) \in Int
  BY <1>1, <1>11, ReadBounds
<1>13. ReadTyped(u2, info, rows)
  BY <1>1, <1>12, ConsoleReadTyped DEF ReadTyped
<1> HIDE DEF rows
<1>16. n = info.top - SYNC_MARKER_LEN - SYNC_MARKER_MARGIN
  BY DEF newSyncRow
<1>17. row \in Int /\ row >= -1
  BY <1>1, <1>5, ScraperFacts
<1>18. n \in Int /\ (create => n \in Nat \ {0} /\ n + SYNC_MARKER_LEN < info.top)
  <2>1. SYNC_MARKER_LEN \in Nat \ {0} /\ SYNC_MARKER_MARGIN \in Nat \ {0}
    BY Sizes
  <2> HIDE DEF create, n
  <2> QED BY <1>4, <1>9, <1>16, <1>17, <2>1
<1> HIDE DEF create, n
<1>19. /\ u4 \in Scrapers /\ SameFlags(u2, u4) /\ u4.dirtyWindowTop = u2.dirtyWindowTop
       /\ u4.scrolledCount = u2.scrolledCount /\ u4.scrapedLineCount = u2.scrapedLineCount
       /\ u4.dirtyLineCount = u2.dirtyLineCount
       /\ u4.syncRow = IF create THEN n ELSE u2.syncRow
       /\ u4.syncCounter = IF create THEN u2.syncCounter + 1 ELSE u2.syncCounter
       /\ u4.failed = u2.failed
  <2>1. CASE create
    <3> DEFINE failed4 == u2.failed \/ n < 1
    <3>1. u4 = [u2 EXCEPT !.syncCounter = u2.syncCounter + 1, !.syncRow = n, !.failed = failed4]
      BY <2>1 DEF MarkerCreated
    <3>2. n \in -1..(BUFFER_LINE_COUNT - SYNC_MARKER_LEN)
      BY <1>1, <1>18, <2>1, InfoFacts, Sizes
    <3>3. u2.syncCounter + 1 \in Nat /\ failed4 \in BOOLEAN /\ failed4 = u2.failed
      BY <1>11, <1>18, <2>1, ScraperFacts
    <3> HIDE DEF failed4
    <3> QED BY <1>11, <2>1, <3>1, <3>2, <3>3 DEF Scrapers, SameFlags
  <2>2. CASE ~create
    BY <1>11, <2>2 DEF SameFlags
  <2> QED BY <2>1, <2>2
<1> HIDE DEF u4
<1>20. ReadTyped(u4, info, rows)
  BY <1>11, <1>13, <1>19 DEF ReadTyped, firstReadLine, stopReadLine, firstVirtLine
<1>21. v \in Terminals
  BY <1>1, <1>4, TerminalCleared
<1> HIDE DEF v
<1>22. /\ SameFlags(u4, s') /\ s'.syncRow = u4.syncRow /\ s'.dirtyWindowTop = u4.dirtyWindowTop
       /\ s'.scrolledCount = u4.scrolledCount /\ s'.syncCounter = u4.syncCounter
       /\ s'.scrapedLineCount = info.top + u4.scrolledCount /\ s'.failed = u4.failed
       /\ \/ s'.dirtyLineCount = u4.dirtyLineCount
          \/ s'.dirtyLineCount <= info.top + info.height
       /\ s' \in Scrapers
  BY <1>1, <1>2, <1>19, <1>20, <1>21, OutputScrolled
<1> HIDE DEF output
<1>23. SameFlags(s, s')
  BY <1>6, <1>10, <1>11, <1>19, <1>22 DEF SameFlags
<1>24. /\ s'.dirtyWindowTop = info.top
       /\ s'.syncRow = IF create THEN n ELSE IF anew THEN -1 ELSE row
       /\ s'.scrolledCount = IF anew THEN 0 ELSE s.scrolledCount + (s.syncRow - row)
       /\ s'.syncCounter = IF create THEN s.syncCounter + 1 ELSE s.syncCounter
  BY <1>6, <1>7, <1>10, <1>11, <1>19, <1>22
<1>25. s'.syncRow = -1 /\ (anew \/ s.dirtyLineCount <= MarkedFrom)
         /\ info.top + Tallest <= MarkedFrom => s'.dirtyLineCount <= MarkedFrom
  <2> SUFFICES ASSUME s'.syncRow = -1, anew \/ s.dirtyLineCount <= MarkedFrom,
                      info.top + Tallest <= MarkedFrom
               PROVE  s'.dirtyLineCount <= MarkedFrom
    OBVIOUS
  <2>1. /\ MarkedFrom \in Nat /\ Tallest \in Nat /\ info.height \in Nat /\ info.cur \in Nat
        /\ info.height <= Tallest /\ info.cur < info.top + info.height /\ s.syncRow \in Int
    BY HeightsFit, Numbers DEF ScraperInv, PositionInv, HeightsOK
  <2>2. info.cur < MarkedFrom /\ info.top + info.height <= MarkedFrom
    BY <1>4, <2>1
  <2>3. ~create
    BY <1>18, <1>24
  <2>4. v1.dirtyLineCount <= MarkedFrom
    <3>1. CASE anew
      BY <1>10, <2>1, <3>1
    <3>2. CASE ~anew
      <4>1. ~gone
        BY <1>7, <3>2
      <4>2. row = -1
        BY <1>24, <2>3, <3>2
      <4>3. u1 = s
        BY <1>5, <1>6, <4>1, <4>2
      <4> QED BY <1>10, <3>2, <4>3
    <3> QED BY <3>1, <3>2
  <2>5. u4.dirtyLineCount <= MarkedFrom
    BY <1>11, <1>19, <2>1, <2>2, <2>4
  <2>6. s'.dirtyLineCount \in Int
    BY <1>22, ScraperFacts
  <2> QED BY <1>4, <1>22, <2>1, <2>2, <2>5, <2>6
<1>36. ASSUME anew \/ s.dirtyLineCount <= info.top + Tallest
       PROVE  s'.dirtyLineCount <= info.top + Tallest
  <2>1. /\ Tallest \in Nat /\ info.height \in Nat /\ info.cur \in Nat
        /\ info.height <= Tallest /\ info.cur < info.top + info.height
    BY HeightsFit, Numbers DEF ScraperInv, PositionInv, HeightsOK
  <2> DEFINE m == info.top + Tallest
  <2>2. m \in Int /\ info.cur < m /\ info.top + info.height <= m /\ 0 <= m
    BY <1>4, <2>1
  <2>3. v1.dirtyLineCount <= m
    <3>1. CASE anew
      BY <1>10, <2>2, <3>1
    <3>2. CASE ~anew
      <4>1. v1 = u1 /\ u1.dirtyLineCount \in {s.dirtyLineCount, info.top + info.height}
        BY <1>6, <1>7, <1>10, <3>2
      <4> QED BY <1>36, <2>2, <3>2, <4>1
    <3> QED BY <3>1, <3>2
  <2>4. u4.dirtyLineCount <= m
    BY <1>11, <1>19, <2>2, <2>3
  <2>5. s'.dirtyLineCount \in Int
    BY <1>22, ScraperFacts
  <2> QED BY <1>4, <1>22, <2>1, <2>2, <2>4, <2>5
<1>37. ASSUME anew \/ s.scrolledCount + (s.syncRow - row) <= s.scrapedLineCount
       PROVE  s'.failed = s.failed
  <2>1. v1.scrolledCount <= v1.scrapedLineCount
    <3>1. CASE anew
      BY <1>4, <1>10, <1>11, <3>1
    <3>2. CASE ~anew
      BY <1>6, <1>7, <1>10, <1>11, <1>37, <3>2
    <3> QED BY <3>1, <3>2
  <2> QED BY <1>6, <1>10, <1>11, <1>19, <1>22, <2>1
<1>38. s'.scrapedLineCount = info.top + s'.scrolledCount
  BY <1>22
<1>26. u2.syncCounter = s.syncCounter
  BY <1>6, <1>10, <1>11
<1>27. /\ c \in Consoles /\ Refilled(con, c)
       /\ IF create
          THEN \A r \in DOMAIN con.buf :
                 \/ /\ r \in n..(n + SYNC_MARKER_LEN - 1)
                    /\ c.buf[r] = Marker(s.syncCounter + 1, r - n)
                 \/ c.buf[r] \in {Blank, con.buf[r]}
          ELSE c.buf = con.buf
  <2>1. CASE create
    <3> DEFINE d == WithMarker(u2, con, n)
    <3>1. /\ Refilled(con, d)
          /\ \A r \in DOMAIN con.buf :
               \/ /\ r \in n..(n + SYNC_MARKER_LEN - 1)
                  /\ d.buf[r] = Marker(u2.syncCounter + 1, r - n)
               \/ d.buf[r] \in {Blank, con.buf[r]}
      BY <1>1, <1>11, <1>18, MarkerWritten
    <3>2. c = d
      BY <2>1
    <3> HIDE DEF d, c
    <3>3. d \in Consoles
      BY <3>1 DEF Refilled
    <3> QED BY <1>26, <2>1, <3>1, <3>2, <3>3
  <2>2. CASE ~create
    BY <1>1, <2>2 DEF Refilled
  <2> QED BY <2>1, <2>2
<1> HIDE DEF c
<1>28. s.resizing \in BOOLEAN
  BY <1>1, ScraperFacts
<1>29. /\ con' \in Consoles /\ con'.frozen = s.resizing /\ con'.buf = c.buf
       /\ con'.top = c.top /\ con'.height = c.height /\ con'.cur = c.cur
       /\ BufferHeight(con') = BufferHeight(c)
  <2> DEFINE b == s.resizing
             d == [c EXCEPT !.frozen = b]
  <2>1. b \in BOOLEAN /\ con' = d
    BY <1>2, <1>28
  <2> HIDE DEF b
  <2>2. /\ d \in Consoles /\ d.frozen = b /\ d.buf = c.buf
        /\ d.top = c.top /\ d.height = c.height /\ d.cur = c.cur
        /\ BufferHeight(d) = BufferHeight(c)
    BY <1>27, <2>1, FrozenSet
  <2> HIDE DEF d
  <2>3. BufferHeight(con') = BufferHeight(d)
    BY <2>1
  <2> QED BY <2>1, <2>2, <2>3 DEF b
<1>30. /\ con'.top = con.top /\ con'.height = con.height /\ con'.cur = con.cur
       /\ BufferHeight(con') = BufferHeight(con)
  BY <1>27, <1>29 DEF Refilled
<1>31. DOMAIN con'.buf = DOMAIN con.buf /\ bufferInfo(con') = bufferInfo(con)
  <2>1. DOMAIN con'.buf = 0..(BufferHeight(con') - 1) /\ DOMAIN con.buf = 0..(BufferHeight(con) - 1)
    BY <1>1, <1>29, ConsoleFacts
  <2> QED BY <1>30, <2>1 DEF bufferInfo
<1>32. /\ g'.burst = g.burst /\ g'.quiet = g.quiet
       /\ IF anew THEN g'.scroll = 0
          ELSE g'.scroll = g.scroll /\ (g.damaged => g'.damaged) /\ (g.missed => g'.missed)
  <2> HIDE DEF covered
  <2>1. /\ DOMAIN h = HistoryFields /\ h.burst = g.burst /\ h.quiet = g.quiet
        /\ IF anew THEN h.scroll = 0 ELSE h = g
    BY <1>1 DEF NewHistory, HistoryFields
  <2> HIDE DEF h
  <2>2. /\ g'.burst = h.burst /\ g'.quiet = h.quiet /\ g'.scroll = h.scroll
        /\ g'.damaged = (h.damaged \/ covered) /\ g'.missed = h.missed
    BY <1>2, <2>1 DEF HistoryFields
  <2>3. h.damaged => g'.damaged
    BY <2>2, Zenon
  <2> QED BY <2>1, <2>2, <2>3
<1>33. create \in BOOLEAN /\ anew \in BOOLEAN
  BY <1>8 DEF create, shouldCreateSyncRow
<1>34. /\ s.syncRow # -1 /\ row = -1 => anew
       /\ anew => \/ s.syncRow # -1 /\ row = -1
                  \/ info.top < s.dirtyWindowTop /\ s.dirtyWindowTop # -1
  BY <1>5, <1>6, <1>7, <1>8
<1>39. anew \/ s.dirtyWindowTop = -1 \/ info.top >= s.dirtyWindowTop
  <2>1. s.dirtyWindowTop \in Int
    BY <1>1, ScraperFacts
  <2> QED BY <1>4, <1>6, <1>7, <1>8, <2>1
<1> HIDE DEF anew
<1>35. FrozenEffect(row, create, anew)
  BY <1>1, <1>3, <1>5, <1>9, <1>23, <1>24, <1>25, <1>27, <1>29, <1>30, <1>31, <1>32, <1>34,
     <1>36, <1>37, <1>38, <1>39
     DEF FrozenEffect, n
<1> QED BY <1>33, <1>35

LEMMA FrozenScrapePosition ==
  ASSUME HistoryFits, ScraperInv, PositionInv, FrozenScrape
  PROVE  PositionInv'
<1>1. PICK row \in MarkerRows, create \in BOOLEAN, anew \in BOOLEAN :
        FrozenEffect(row, create, anew)
  BY FrozenScrapeDoes
<1>2. /\ pc = "frozen" /\ ~s.directMode /\ ~s'.directMode /\ info \in ScrollingInfos
      /\ row \in -1..s.syncRow /\ pc' \in {"resize", "idle"} /\ info' = info
      /\ s'.dirtyWindowTop = info.top
      /\ con'.top = con.top /\ con'.height = con.height /\ con'.cur = con.cur
      /\ BufferHeight(con') = BufferHeight(con) /\ g'.burst = g.burst
  BY <1>1 DEF FrozenEffect, SameFlags
<1>3. /\ Tallest \in Nat \ {0} /\ MarkedFrom \in Nat /\ MaxBurst \in Nat
      /\ info.top \in Nat /\ info.height \in Nat \ {0} /\ info.height <= Tallest
      /\ con.top \in Nat /\ con.height \in Nat /\ con.height <= Tallest /\ g.burst \in Nat
      /\ s.dirtyLineCount \in Int /\ s.dirtyWindowTop \in Int /\ s.syncRow \in Int
      /\ 2 * Tallest + MaxBurst <= MarkedFrom
  BY HeightsFit, Numbers DEF ScraperInv, PositionInv, HeightsOK
<1>4. con.top <= info.top + g.burst
  BY <1>2 DEF PositionInv, NotFarDown, Scraping
<1>5. /\ con.top >= info.top \/ Low
      /\ info.top >= s.dirtyWindowTop \/ Bottom(info) <= Tallest + MaxBurst
  BY <1>2 DEF PositionInv, NotUp, Scraping
<1>6. HeightsOK'
  BY <1>2 DEF PositionInv, HeightsOK, Window
<1>7. DirectLow' /\ NotFarDown' /\ NotUp'
  BY <1>2, <1>3, <1>4, <1>5 DEF DirectLow, NotFarDown, NotUp, Low, Bottom, Scraping, TentativePhases
<1>8. UnmarkedHigh'
  <2> SUFFICES ASSUME s'.syncRow = -1
               PROVE  /\ s'.scrolledCount = 0 /\ s'.dirtyLineCount <= MarkedFrom
                      /\ info.top + Tallest <= MarkedFrom
    BY <1>2, <1>3, <1>4 DEF UnmarkedHigh, Bottom
  <2>1. /\ s'.syncRow = IF create THEN newSyncRow(info) ELSE IF anew THEN -1 ELSE row
        /\ create <=> newSyncRow(info) >= row + SYNC_MARKER_LEN + SYNC_MARKER_MARGIN
        /\ s.syncRow # -1 /\ row = -1 => anew
        /\ anew => \/ s.syncRow # -1 /\ row = -1
                   \/ info.top < s.dirtyWindowTop /\ s.dirtyWindowTop # -1
        /\ s'.scrolledCount = IF anew THEN 0 ELSE s.scrolledCount + (s.syncRow - row)
        /\ s'.syncRow = -1 /\ (anew \/ s.dirtyLineCount <= MarkedFrom)
             /\ info.top + Tallest <= MarkedFrom => s'.dirtyLineCount <= MarkedFrom
    BY <1>1 DEF FrozenEffect
  <2>2. row \in Int /\ row >= -1
    BY <1>2, <1>3
  <2>3. ~create
    <3>1. SYNC_MARKER_LEN \in Nat \ {0} /\ SYNC_MARKER_MARGIN \in Nat \ {0}
      BY Sizes
    <3>2. newSyncRow(info) \in Int
      BY <1>3, <3>1 DEF newSyncRow
    <3> QED BY <2>1, <2>2, <3>1, <3>2
  <2>4. info.top + Tallest <= MarkedFrom
    <3>1. CASE row = -1
      <4>1. info.top < 2 * (SYNC_MARKER_LEN + SYNC_MARKER_MARGIN)
        BY <1>3, <2>1, <2>3, <3>1, Sizes DEF newSyncRow
      <4> QED BY <1>3, <4>1, HeightsFit
    <3>2. CASE row # -1
      <4>1. info.top < s.dirtyWindowTop
        BY <2>1, <2>3, <3>2
      <4>2. info.top + info.height <= Tallest + MaxBurst
        BY <1>3, <1>5, <4>1 DEF Bottom
      <4> QED BY <1>3, <4>2
    <3> QED BY <3>1, <3>2
  <2>5. ~anew => row = -1 /\ s.syncRow = -1
    BY <2>1, <2>3
  <2>6. ~anew => s.scrolledCount = 0 /\ s.dirtyLineCount <= MarkedFrom
    BY <2>5 DEF PositionInv, UnmarkedHigh
  <2>7. s'.scrolledCount = 0
    BY <2>1, <2>5, <2>6
  <2> QED BY <2>1, <2>4, <2>6, <2>7
<1> QED BY <1>6, <1>7, <1>8 DEF PositionInv

LEMMA DirectScrapeDoes ==
  ASSUME ScraperInv, DirectScrape
  PROVE  /\ pc = "direct" /\ s.directMode /\ SamePosition(s, s') /\ pc' = "idle"
         /\ UNCHANGED <<info, g>>
         /\ con'.buf = con.buf /\ con'.top = con.top /\ con'.height = con.height
         /\ con'.cur = con.cur /\ BufferHeight(con') = BufferHeight(con)
<1> DEFINE h == Min({info.height, s.ptyRows, BUFFER_LINE_COUNT})
           rows == largeConsoleRead(con, info.top, info.top + h)
           sent == SendRows([u |-> s, t |-> t], h, info.top, rows)
<1>1. /\ con \in Consoles /\ s \in Scrapers /\ t \in Terminals /\ info \in Infos /\ pc = "direct"
      /\ s.directMode
  BY DEF ScraperInv, ScraperTypes, ModeFitsInfo, DirectScrape
<1>2. /\ s' = sent.u
      /\ con' = [con EXCEPT !.frozen = FALSE] /\ pc' = "idle" /\ UNCHANGED <<info, g>>
  BY DEF DirectScrape
<1>3. info.top \in Nat /\ info.height \in Nat \ {0}
  BY <1>1 DEF Infos
<1>4. h \in 0..BUFFER_LINE_COUNT
  <2> DEFINE a == info.height
             b == s.ptyRows
             c == BUFFER_LINE_COUNT
  <2>1. a \in Nat /\ b \in Nat /\ c \in Nat /\ a \in Int /\ b \in Int /\ c \in Int
    BY <1>1, <1>3, ScraperFacts, Sizes
  <2> HIDE DEF a, b, c
  <2>2. Min({a, b, c}) \in {a, b, c} /\ Min({a, b, c}) <= c
    BY <2>1, LeastOfThree, Zenon
  <2>3. Min({a, b, c}) \in 0..c
    BY <2>1, <2>2
  <2> QED BY <2>3 DEF a, b, c
<1> HIDE DEF h
<1>5. h \in Int
  BY <1>4, Sizes
<1>6. rows \in [info.top..(info.top + h - 1) -> Row]
  BY <1>1, <1>3, <1>5, ConsoleReadTyped
<1>7. \A k \in 1..h : rows[info.top + k - 1] \in Row
  BY <1>3, <1>5, <1>6
<1> HIDE DEF rows
<1>8. sent \in Pairs(s)
  <2> DEFINE x == [u |-> s, t |-> t]
  <2>1. x \in Pairs(s)
    BY <1>1 DEF Pairs, SamePosition
  <2> HIDE DEF x
  <2>2. SendRows(x, h, info.top, rows) \in Pairs(s)
    <3>1. info.top \in Int
      BY <1>3
    <3> QED BY <1>4, <1>7, <2>1, <3>1, RowsSent
  <2> QED BY <2>2 DEF x
<1> HIDE DEF sent
<1>9. SamePosition(s, s')
  BY <1>2, <1>8 DEF Pairs
<1>10. /\ con'.buf = con.buf /\ con'.top = con.top /\ con'.height = con.height
       /\ con'.cur = con.cur /\ BufferHeight(con') = BufferHeight(con)
  BY <1>1, <1>2, FrozenSet
<1> QED BY <1>1, <1>2, <1>9, <1>10

LEMMA DirectScrapePosition ==
  ASSUME HistoryFits, ScraperInv, PositionInv, DirectScrape
  PROVE  PositionInv'
  BY DirectScrapeDoes DEF PositionInv, HeightsOK, DirectLow, NotFarDown, NotUp, UnmarkedHigh,
     Low, Bottom, Window, SamePosition

LEMMA ResizeWindowPosition ==
  ASSUME HistoryFits, ScraperInv, PositionInv, NEW rows \in Rows, resizeWindow(rows)
  PROVE  PositionInv'
<1> DEFINE h == [g EXCEPT !.odd = @ + 1]
<1>1. s \in Scrapers /\ DOMAIN g = HistoryFields
  BY DEF ScraperInv, ScraperTypes
<1>2. /\ pc = "idle" /\ UNCHANGED <<con, t, pc, info, read>>
      /\ s' = [s EXCEPT !.ptyRows = rows, !.resizing = TRUE] /\ g' = h
  BY DEF resizeWindow
<1>3. g'.burst = g.burst
  BY <1>1, <1>2 DEF HistoryFields
<1>4. /\ s'.directMode = s.directMode /\ s'.syncRow = s.syncRow
      /\ s'.dirtyWindowTop = s.dirtyWindowTop /\ s'.scrolledCount = s.scrolledCount
      /\ s'.dirtyLineCount = s.dirtyLineCount
  BY <1>1, <1>2 DEF Scrapers
<1>5. BufferHeight(con)' = BufferHeight(con)
  BY <1>2
<1> QED BY <1>2, <1>3, <1>4, <1>5 DEF PositionInv, HeightsOK, DirectLow, NotFarDown, NotUp,
     UnmarkedHigh, Low, Bottom, Window, Scraping, TentativePhases

----------------------------------------------------------------------------
(***************************************************************************)
(* How the steps of a resize keep the positions.                           *)
(***************************************************************************)

\* What clearing the history changes in the scrolling mode.  The marker is on no
\* row (-1), or is created anew on row.
ClearedEffect(row) ==
  /\ row \in Int /\ row >= -1 /\ (row = -1 <=> s.syncRow = -1)
  /\ s'.syncRow = row
  /\ s'.syncCounter = IF row = -1 THEN s.syncCounter ELSE s.syncCounter + 1
  /\ row \in {s.syncRow, BUFFER_LINE_COUNT - s.ptyRows - SYNC_MARKER_LEN - SYNC_MARKER_MARGIN}
  /\ row = -1 \/ row >= 1 => s'.failed = s.failed
  /\ g'.quiet = FALSE
  /\ \A r \in DOMAIN con.buf :
       \/ /\ row # -1 /\ r \in row..(row + SYNC_MARKER_LEN - 1)
          /\ con'.buf[r] = Marker(s.syncCounter + 1, r - row)
       \/ con'.buf[r] \in {Blank, con.buf[r]}

LEMMA ClearHistoryDoes ==
  ASSUME ScraperInv, ClearHistory
  PROVE  /\ pc = "resize" /\ pc' = "shrinkWindow" /\ info' = info
         /\ SameFlags(s, s') /\ s'.dirtyWindowTop = s.dirtyWindowTop
         /\ s'.scrolledCount = s.scrolledCount /\ s'.dirtyLineCount = s.dirtyLineCount
         /\ con'.top = con.top /\ con'.height = con.height /\ con'.cur = con.cur
         /\ BufferHeight(con') = BufferHeight(con) /\ DOMAIN con'.buf = DOMAIN con.buf
         /\ s'.scrapedLineCount = s.scrapedLineCount /\ (g.missed => g'.missed)
         /\ g'.burst = g.burst /\ g'.scroll = g.scroll /\ (g.damaged => g'.damaged)
         /\ IF s.directMode
            THEN /\ con'.buf = con.buf /\ s'.syncRow = s.syncRow
                 /\ s'.syncCounter = s.syncCounter /\ g'.quiet = g.quiet
                 /\ s'.failed = s.failed
            ELSE \E row \in Int : ClearedEffect(row)
<1> DEFINE limit == BUFFER_LINE_COUNT - s.ptyRows - SYNC_MARKER_LEN - SYNC_MARKER_MARGIN
           row == Min({s.syncRow, limit})
           cleared == clearLines(con, 0, info.top)
           u == IF info.top > 0 THEN clearBufferLines(s, info.top) ELSE s
           c == IF s.directMode THEN con
                ELSE IF s.syncRow = -1 THEN cleared ELSE WithMarker(s, cleared, row)
           blank == [s EXCEPT !.data = [i \in DOMAIN s.data |-> Unset]]
           w == IF s.directMode THEN blank
                ELSE IF s.syncRow = -1 THEN u ELSE MarkerCreated(u, row)
           erased == {r + s.scrolledCount : r \in 0..(info.top - 1)}
           covered == \E r \in DOMAIN con.buf : r >= con.top /\ con'.buf[r] # con.buf[r]
<1>1. /\ con \in Consoles /\ s \in Scrapers /\ info \in Infos /\ pc = "resize"
      /\ DOMAIN g = HistoryFields
  BY DEF ScraperInv, ScraperTypes, ClearHistory
<1>2. /\ con' = [c EXCEPT !.frozen = FALSE] /\ s' = w /\ pc' = "shrinkWindow" /\ info' = info
      /\ g' = IF s.directMode THEN g
              ELSE [g EXCEPT !.quiet = FALSE, !.erased = g.erased \union erased,
                             !.damaged = g.damaged \/ covered]
  BY DEF ClearHistory
<1>3. info.top \in Nat
  BY <1>1 DEF Infos
<1>4. s.syncRow \in Int /\ s.syncRow >= -1 /\ limit \in Nat \ {0}
  BY <1>1, ScraperFacts, Sizes
<1> HIDE DEF limit
<1>5. row \in Int /\ row >= -1
      /\ (row = -1 <=> s.syncRow = -1)
      /\ row <= s.syncRow /\ row <= limit /\ row \in {s.syncRow, limit}
  BY <1>4, MinOfTwo
<1> HIDE DEF row
<1>6. /\ u \in Scrapers /\ SameFlags(s, u) /\ u.syncRow = s.syncRow
      /\ u.syncCounter = s.syncCounter /\ u.scrolledCount = s.scrolledCount
      /\ u.dirtyWindowTop = s.dirtyWindowTop /\ u.dirtyLineCount = s.dirtyLineCount
      /\ u.scrapedLineCount = s.scrapedLineCount /\ u.failed = s.failed
  BY <1>1, <1>3, BufferLinesCleared DEF SameFlags
<1> HIDE DEF u
<1>7. /\ SameFlags(s, w) /\ w.dirtyWindowTop = s.dirtyWindowTop
      /\ w.scrolledCount = s.scrolledCount /\ w.dirtyLineCount = s.dirtyLineCount
      /\ w.scrapedLineCount = s.scrapedLineCount
      /\ s.directMode \/ row = -1 \/ row >= 1 => w.failed = s.failed
      /\ IF s.directMode THEN w.syncRow = s.syncRow /\ w.syncCounter = s.syncCounter
         ELSE /\ w.syncRow = row
              /\ w.syncCounter = IF row = -1 THEN s.syncCounter ELSE s.syncCounter + 1
  <2>1. CASE s.directMode
    <3> DEFINE data == [i \in DOMAIN s.data |-> Unset]
               d == [s EXCEPT !.data = data]
    <3> HIDE DEF data
    <3>1. /\ SameFlags(s, d) /\ d.syncRow = s.syncRow /\ d.syncCounter = s.syncCounter
          /\ d.dirtyWindowTop = s.dirtyWindowTop /\ d.scrolledCount = s.scrolledCount
          /\ d.dirtyLineCount = s.dirtyLineCount /\ d.scrapedLineCount = s.scrapedLineCount
          /\ d.failed = s.failed
      BY <1>1 DEF Scrapers, SameFlags
    <3> QED BY <2>1, <3>1 DEF data
  <2>2. CASE ~s.directMode /\ s.syncRow = -1
    BY <1>5, <1>6, <2>2
  <2>3. CASE ~s.directMode /\ s.syncRow # -1
    <3> DEFINE failed == u.failed \/ row < 1
               d == [u EXCEPT !.syncCounter = u.syncCounter + 1, !.syncRow = row,
                              !.failed = failed]
    <3>1. w = d
      BY <2>3 DEF MarkerCreated
    <3>3. row # -1 /\ (row >= 1 => ~(row < 1))
      BY <1>5, <2>3
    <3>5. u.failed \in BOOLEAN
      BY <1>6 DEF Scrapers
    <3>6. row >= 1 => failed = u.failed
      BY <3>3, <3>5, Zenon
    <3>7. failed \in BOOLEAN
      BY <3>5, Zenon
    <3> HIDE DEF failed, w
    <3>2. /\ SameFlags(u, d) /\ d.syncRow = row /\ d.syncCounter = u.syncCounter + 1
          /\ d.dirtyWindowTop = u.dirtyWindowTop /\ d.scrolledCount = u.scrolledCount
          /\ d.dirtyLineCount = u.dirtyLineCount /\ d.scrapedLineCount = u.scrapedLineCount
          /\ d.failed = failed
      BY <1>6, <3>7 DEF Scrapers, SameFlags
    <3> HIDE DEF d
    <3>4. row >= 1 => d.failed = s.failed
      BY <1>6, <3>2, <3>6
    <3> QED BY <1>5, <1>6, <2>3, <3>1, <3>2, <3>3, <3>4 DEF SameFlags
  <2> QED BY <2>1, <2>2, <2>3
<1> HIDE DEF w
<1>8. /\ Refilled(con, cleared)
      /\ \A r \in DOMAIN con.buf : cleared.buf[r] \in {Blank, con.buf[r]}
  BY <1>1, <1>3, LinesCleared
<1> HIDE DEF cleared
<1>9. cleared \in Consoles /\ DOMAIN cleared.buf = DOMAIN con.buf
  BY <1>1, <1>8, ConsoleFacts DEF Refilled
<1>10. /\ Refilled(con, c)
       /\ s.directMode => c.buf = con.buf
       /\ ~s.directMode =>
            \A r \in DOMAIN con.buf :
              \/ /\ row # -1 /\ r \in row..(row + SYNC_MARKER_LEN - 1)
                 /\ c.buf[r] = Marker(s.syncCounter + 1, r - row)
              \/ c.buf[r] \in {Blank, con.buf[r]}
  <2>1. CASE s.directMode
    BY <1>1, <2>1 DEF Refilled
  <2>2. CASE ~s.directMode /\ s.syncRow = -1
    BY <1>8, <2>2
  <2>3. CASE ~s.directMode /\ s.syncRow # -1
    <3> DEFINE d == WithMarker(s, cleared, row)
    <3>1. /\ Refilled(cleared, d)
          /\ \A r \in DOMAIN cleared.buf :
               \/ /\ r \in row..(row + SYNC_MARKER_LEN - 1)
                  /\ d.buf[r] = Marker(s.syncCounter + 1, r - row)
               \/ d.buf[r] \in {Blank, cleared.buf[r]}
      BY <1>1, <1>5, <1>9, MarkerWritten
    <3> HIDE DEF d
    <3>2. Refilled(con, d)
      BY <1>8, <3>1 DEF Refilled
    <3>3. c = d
      BY <2>3 DEF d
    <3> QED BY <1>5, <1>8, <1>9, <2>3, <3>1, <3>2, <3>3
  <2> QED BY <2>1, <2>2, <2>3
<1> HIDE DEF c
<1>11. /\ con' \in Consoles /\ con'.buf = c.buf /\ con'.top = con.top /\ con'.height = con.height
       /\ con'.cur = con.cur /\ BufferHeight(con') = BufferHeight(con)
  <2>1. c \in Consoles
    BY <1>10 DEF Refilled
  <2>2. /\ con' \in Consoles /\ con'.buf = c.buf /\ con'.top = c.top /\ con'.height = c.height
        /\ con'.cur = c.cur /\ BufferHeight(con') = BufferHeight(c)
    BY <1>2, <2>1, FrozenSet
  <2> QED BY <1>10, <2>2 DEF Refilled
<1>12. DOMAIN con'.buf = DOMAIN con.buf
  <2>1. DOMAIN con'.buf = 0..(BufferHeight(con') - 1) /\ DOMAIN con.buf = 0..(BufferHeight(con) - 1)
    BY <1>1, <1>11, ConsoleFacts
  <2> QED BY <1>11, <2>1
<1>13. /\ g'.burst = g.burst /\ g'.scroll = g.scroll /\ (g.damaged => g'.damaged)
       /\ (g.missed => g'.missed)
       /\ g'.quiet = IF s.directMode THEN g.quiet ELSE FALSE
  <2> HIDE DEF covered, erased
  <2>1. CASE s.directMode
    BY <1>2, <2>1
  <2>2. CASE ~s.directMode
    <3>1. /\ g'.burst = g.burst /\ g'.scroll = g.scroll /\ g'.quiet = FALSE
          /\ g'.damaged = (g.damaged \/ covered) /\ g'.missed = g.missed
      BY <1>1, <1>2, <2>2 DEF HistoryFields
    <3>2. g.damaged => g'.damaged
      BY <3>1, Zenon
    <3> QED BY <2>2, <3>1, <3>2
  <2> QED BY <2>1, <2>2
<1>14. ASSUME ~s.directMode PROVE ClearedEffect(row)
  BY <1>2, <1>5, <1>7, <1>10, <1>11, <1>13, <1>14 DEF ClearedEffect, limit
<1>15. s.directMode => /\ con'.buf = con.buf /\ s'.syncRow = s.syncRow
                       /\ s'.syncCounter = s.syncCounter /\ g'.quiet = g.quiet
                       /\ s'.failed = s.failed
  BY <1>2, <1>7, <1>10, <1>11, <1>13
<1>16. ~s.directMode => \E n \in Int : ClearedEffect(n)
  BY <1>5, <1>14
<1>17. SameFlags(s, s') /\ s'.dirtyWindowTop = s.dirtyWindowTop
       /\ s'.scrolledCount = s.scrolledCount /\ s'.dirtyLineCount = s.dirtyLineCount
       /\ s'.scrapedLineCount = s.scrapedLineCount
  BY <1>2, <1>7
<1> QED BY <1>1, <1>2, <1>11, <1>12, <1>13, <1>15, <1>16, <1>17

LEMMA ClearHistoryPosition ==
  ASSUME HistoryFits, ScraperInv, PositionInv, ClearHistory
  PROVE  PositionInv'
<1>1. /\ pc = "resize" /\ pc' = "shrinkWindow" /\ info' = info
      /\ s'.directMode = s.directMode /\ s'.ptyRows = s.ptyRows
      /\ s'.scrolledCount = s.scrolledCount /\ s'.dirtyLineCount = s.dirtyLineCount
      /\ con'.top = con.top /\ con'.height = con.height /\ con'.cur = con.cur
      /\ BufferHeight(con') = BufferHeight(con) /\ g'.burst = g.burst
      /\ s'.syncRow = -1 => s.syncRow = -1
  BY ClearHistoryDoes DEF SameFlags, ClearedEffect
<1> QED BY <1>1 DEF PositionInv, HeightsOK, DirectLow, NotFarDown, NotUp, UnmarkedHigh, Low,
     Bottom, Window, Scraping, TentativePhases

\* The window gets the height asked for, unless the buffer has less.
LEMMA ShrinkWindowDoes ==
  ASSUME ScraperInv, ShrinkWindow, con.cur \in Window(con)
  PROVE  \E height \in Nat \ {0}, top \in Nat, finalTop \in Int :
           /\ height = IF BufferHeight(con) <= s.ptyRows THEN BufferHeight(con) ELSE s.ptyRows
           /\ top <= con.top /\ top + height <= BufferHeight(con)
           /\ top = con.top \/ top + height = BufferHeight(con)
           /\ finalTop <= con.cur /\ con.cur <= finalTop + height - 1
           /\ \/ finalTop = top
              \/ finalTop = con.cur /\ con.cur < top
              \/ finalTop = con.cur - height + 1 /\ con.cur >= top + height
           /\ pc = "shrinkWindow" /\ pc' = "resizeBuffer" /\ UNCHANGED <<s, info, g>>
           /\ con'.top = finalTop /\ con'.height = height /\ con'.cur = con.cur
           /\ con'.buf = con.buf /\ BufferHeight(con') = BufferHeight(con)
<1> DEFINE bottom == BufferHeight(con)
           rows == s.ptyRows
           height == Min({bottom, rows})
           top == Min({bottom - height, con.top})
           finalTop == WithCursor(top, height)
<1>1. /\ con \in Consoles /\ s \in Scrapers /\ pc = "shrinkWindow"
      /\ con' = moveWindow(con, finalTop, height)
      /\ pc' = "resizeBuffer" /\ UNCHANGED <<s, info, g>>
  BY DEF ScraperInv, ScraperTypes, ShrinkWindow
<1>2. /\ bottom \in Nat \ {0} /\ rows \in Nat \ {0} /\ con.top \in Nat /\ con.cur \in Nat
      /\ con.height \in Nat /\ con.top + con.height <= bottom /\ con.cur < bottom
      /\ rows < BUFFER_LINE_COUNT /\ BUFFER_LINE_COUNT \in Nat
  BY <1>1, ConsoleFacts, ScraperFacts, Sizes
<1> HIDE DEF bottom, rows
<1>3. height \in Nat \ {0} /\ height = IF bottom <= rows THEN bottom ELSE rows
  BY <1>2, MinOfTwo
<1> HIDE DEF height
<1>4. top \in Nat /\ top <= con.top /\ top + height <= bottom
      /\ (top = con.top \/ top + height = bottom)
  BY <1>2, <1>3, MinOfTwo
<1> HIDE DEF top
<1>5. /\ finalTop \in Int /\ finalTop <= con.cur /\ con.cur <= finalTop + height - 1
      /\ \/ finalTop = top
         \/ finalTop = con.cur /\ con.cur < top
         \/ finalTop = con.cur - height + 1 /\ con.cur >= top + height
  <2>1. con.cur \in Window(con) /\ con \in Consoles
    BY <1>1
  <2>2. top \in Int /\ height \in Nat \ {0}
    BY <1>3, <1>4
  <2>3. /\ finalTop \in Int /\ finalTop <= con.cur /\ con.cur <= finalTop + height - 1
        /\ \/ finalTop = top
           \/ finalTop = con.cur /\ con.cur < top
           \/ finalTop = con.cur - height + 1 /\ con.cur >= top + height
    BY <2>1, <2>2, CursorKept
  <2> QED BY <2>3
<1> HIDE DEF finalTop
<1>6. finalTop >= 0 /\ finalTop + height <= bottom /\ height < BUFFER_LINE_COUNT
  BY <1>2, <1>3, <1>4, <1>5
<1>7. /\ con'.top = finalTop /\ con'.height = height /\ con'.cur = con.cur
      /\ con'.buf = con.buf /\ BufferHeight(con') = BufferHeight(con)
  BY <1>1, <1>3, <1>5, <1>6, WindowMoved DEF bottom
<1> QED BY <1>1, <1>3, <1>4, <1>5, <1>7 DEF bottom, rows

LEMMA ShrinkWindowPosition ==
  ASSUME HistoryFits, ScraperInv, PositionInv, ShrinkWindow
  PROVE  PositionInv'
<1> DEFINE bottom == BufferHeight(con)
           rows == s.ptyRows
<1>0. con.cur \in Window(con)
  BY DEF PositionInv, HeightsOK
<1>1. PICK height \in Nat \ {0}, top \in Nat, finalTop \in Int :
        /\ height = IF bottom <= rows THEN bottom ELSE rows
        /\ top <= con.top /\ top + height <= bottom
        /\ finalTop <= con.cur /\ con.cur <= finalTop + height - 1
        /\ \/ finalTop = top
           \/ finalTop = con.cur /\ con.cur < top
           \/ finalTop = con.cur - height + 1 /\ con.cur >= top + height
        /\ pc = "shrinkWindow" /\ pc' = "resizeBuffer" /\ UNCHANGED <<s, info, g>>
        /\ con'.top = finalTop /\ con'.height = height /\ con'.cur = con.cur
        /\ BufferHeight(con') = BufferHeight(con)
  BY <1>0, ShrinkWindowDoes
<1>2. /\ bottom \in Nat \ {0} /\ rows \in Nat \ {0} /\ con.top \in Nat /\ con.cur \in Nat
      /\ con.height \in Nat /\ con.height <= Tallest /\ con.top + con.height <= bottom
      /\ con.top <= con.cur /\ con.cur < con.top + con.height
      /\ info.top \in Nat /\ g.burst \in Nat /\ rows \in Rows
  BY Numbers DEF ScraperInv, PositionInv, HeightsOK
<1>3. Tallest \in Nat /\ rows <= Tallest /\ rows < BUFFER_LINE_COUNT /\ BUFFER_LINE_COUNT \in Nat
  BY <1>2, HeightsFit, Sizes
<1>4. /\ s.directMode => con.top + con.height <= Tallest + g.burst
      /\ ~s.directMode => con.top <= info.top + g.burst
  BY <1>1 DEF PositionInv, DirectLow, NotFarDown, Low, Bottom
<1> HIDE DEF bottom, rows
<1>9. height < BUFFER_LINE_COUNT /\ height <= rows /\ height <= Tallest
  BY <1>1, <1>2, <1>3
<1>11. HeightsOK'
  BY <1>1, <1>2, <1>9 DEF PositionInv, HeightsOK, Window
<1>12. DirectLow'
  <2>1. s.directMode => finalTop + height <= 2 * Tallest + g.burst
    BY <1>1, <1>2, <1>3, <1>4, <1>9
  <2> QED BY <1>1, <2>1 DEF DirectLow, Bottom
<1>13. NotFarDown'
  <2>1. ~s.directMode => finalTop + rows <= info.top + Tallest + g.burst
    BY <1>1, <1>2, <1>3, <1>4, <1>9
  <2> QED BY <1>1, <1>9, <2>1 DEF NotFarDown, Scraping, TentativePhases, rows
<1>14. NotUp' /\ UnmarkedHigh'
  BY <1>1 DEF PositionInv, NotUp, UnmarkedHigh, Scraping, TentativePhases
<1> QED BY <1>11, <1>12, <1>13, <1>14 DEF PositionInv

\* The height that the buffer gets.
LEMMA ResizeBufferDoes ==
  ASSUME ScraperInv, ResizeBuffer, con.height <= s.ptyRows
  PROVE  \E height \in Nat \ {0} :
           /\ height >= s.ptyRows
           /\ IF s.directMode THEN height \in {s.ptyRows, info.bufferHeight}
              ELSE height = BUFFER_LINE_COUNT
           /\ pc = "resizeBuffer" /\ pc' = "expandWindow" /\ UNCHANGED <<s, info, g>>
           /\ BufferHeight(con') = height /\ con'.height = con.height
           /\ con'.frozen = con.frozen
           /\ con'.top = IF con.top <= height - con.height THEN con.top ELSE height - con.height
           /\ con'.cur = IF con.cur <= height - 1 THEN con.cur ELSE height - 1
           /\ con'.buf = [r \in 0..(height - 1) |-> At(con.buf, r, Blank)]
<1> DEFINE larger == Max({s.ptyRows, info.bufferHeight})
           height == IF info.height = info.bufferHeight THEN s.ptyRows ELSE larger
<1>1. /\ con \in Consoles /\ s \in Scrapers /\ info \in Infos /\ pc = "resizeBuffer"
      /\ s.directMode <=> info.bufferHeight # BUFFER_LINE_COUNT
      /\ con' = resizeBufferRange(con, height)
      /\ pc' = "expandWindow" /\ UNCHANGED <<s, info, g>>
  BY DEF ScraperInv, ScraperTypes, ModeFitsInfo, ResizeBuffer
<1>2. /\ s.ptyRows \in Nat \ {0} /\ s.ptyRows < BUFFER_LINE_COUNT
      /\ BUFFER_LINE_COUNT \in Nat /\ con.height \in Nat
  BY <1>1, ScraperFacts, Sizes, ConsoleFacts
<1>3. /\ info.bufferHeight \in Nat /\ info.height \in Nat /\ info.height < BUFFER_LINE_COUNT
      /\ info.height <= info.bufferHeight
  BY <1>1 DEF Infos
<1>4. larger = IF s.ptyRows >= info.bufferHeight THEN s.ptyRows ELSE info.bufferHeight
  BY <1>2, <1>3, MaxOfTwo
<1> HIDE DEF larger
<1>5. /\ height \in Nat \ {0} /\ height >= s.ptyRows
      /\ IF s.directMode THEN height \in {s.ptyRows, info.bufferHeight}
         ELSE height = BUFFER_LINE_COUNT
  BY <1>1, <1>2, <1>3, <1>4
<1> HIDE DEF height
<1>6. ~(height < con.height)
  BY <1>2, <1>5
<1>7. /\ BufferHeight(con') = height /\ con'.height = con.height
      /\ con'.frozen = con.frozen
      /\ con'.top = IF con.top <= height - con.height THEN con.top ELSE height - con.height
      /\ con'.cur = IF con.cur <= height - 1 THEN con.cur ELSE height - 1
      /\ con'.buf = [r \in 0..(height - 1) |-> At(con.buf, r, Blank)]
  BY <1>1, <1>5, <1>6, BufferResized
<1> QED BY <1>1, <1>5, <1>7

LEMMA ResizeBufferPosition ==
  ASSUME HistoryFits, ScraperInv, PositionInv, ResizeBuffer
  PROVE  PositionInv'
<1>1. con.height <= s.ptyRows /\ pc = "resizeBuffer"
  BY DEF PositionInv, NotFarDown, ResizeBuffer
<1>2. PICK height \in Nat \ {0} :
        /\ height >= s.ptyRows
        /\ IF s.directMode THEN height \in {s.ptyRows, info.bufferHeight}
           ELSE height = BUFFER_LINE_COUNT
        /\ pc' = "expandWindow" /\ UNCHANGED <<s, info, g>>
        /\ BufferHeight(con') = height /\ con'.height = con.height
        /\ con'.top = IF con.top <= height - con.height THEN con.top ELSE height - con.height
        /\ con'.cur = IF con.cur <= height - 1 THEN con.cur ELSE height - 1
  BY <1>1, ResizeBufferDoes
<1>3. /\ con.top \in Nat /\ con.cur \in Nat /\ con.height \in Nat \ {0} /\ con.height <= Tallest
      /\ con.top <= con.cur /\ con.cur < con.top + con.height
      /\ info.top \in Nat /\ g.burst \in Nat /\ s.ptyRows \in Rows /\ s.ptyRows \in Nat
      /\ info.bufferHeight \in Nat
      /\ info.bufferHeight <= Tallest \/ info.bufferHeight = BUFFER_LINE_COUNT
  BY Numbers DEF ScraperInv, PositionInv, HeightsOK
<1>4. Tallest \in Nat /\ s.ptyRows <= Tallest /\ BUFFER_LINE_COUNT \in Nat
  BY <1>3, HeightsFit, Sizes
<1>5. s.directMode => info.bufferHeight # BUFFER_LINE_COUNT
  BY <1>1 DEF ScraperInv, ModeFitsInfo
<1>6. height <= Tallest \/ (~s.directMode /\ height = BUFFER_LINE_COUNT)
  BY <1>2, <1>3, <1>4, <1>5
<1>7. /\ con'.top \in Int /\ con'.top <= con.top /\ con'.top + con.height <= height
      /\ con'.top <= con'.cur /\ con'.cur < con'.top + con.height /\ con'.cur \in Int
  BY <1>1, <1>2, <1>3, <1>4
<1>8. HeightsOK'
  BY <1>2, <1>3, <1>6, <1>7 DEF PositionInv, HeightsOK, Window
<1>9. DirectLow'
  <2>1. s.directMode => con'.top + con.height <= Tallest + g.burst
    BY <1>2, <1>3, <1>4, <1>6, <1>7
  <2> QED BY <1>2, <1>3, <1>4, <2>1 DEF DirectLow, Low, Bottom
<1>10. NotFarDown'
  <2>1. ~s.directMode => con.top + s.ptyRows <= info.top + Tallest + g.burst
    BY <1>1 DEF PositionInv, NotFarDown
  <2>2. ~s.directMode => con'.top + s.ptyRows <= info.top + Tallest + g.burst
    BY <1>3, <1>4, <1>7, <2>1
  <2> QED BY <1>1, <1>2, <2>2 DEF NotFarDown, Scraping, TentativePhases
<1>11. NotUp' /\ UnmarkedHigh'
  BY <1>1, <1>2 DEF PositionInv, NotUp, UnmarkedHigh, Scraping, TentativePhases
<1> QED BY <1>8, <1>9, <1>10, <1>11 DEF PositionInv

LEMMA ExpandWindowDoes ==
  ASSUME ScraperInv, ExpandWindow, con.cur \in Window(con)
  PROVE  \E top \in Int, dirtyTop \in Int, finalTop \in Int :
           /\ pc = "expandWindow" /\ pc' = IF s.directMode THEN "direct" ELSE "idle"
           /\ top <= con.top /\ top + s.ptyRows <= BufferHeight(con)
           /\ top = con.top \/ top + s.ptyRows = BufferHeight(con)
           /\ \/ dirtyTop = top
              \/ ~s.directMode /\ dirtyTop = s.dirtyLineCount - s.ptyRows
           /\ ~s.directMode => dirtyTop >= s.dirtyLineCount - s.ptyRows
           /\ dirtyTop >= top
           /\ finalTop <= con.cur /\ con.cur <= finalTop + s.ptyRows - 1
           /\ \/ finalTop = dirtyTop
              \/ finalTop = con.cur /\ con.cur < dirtyTop
              \/ finalTop = con.cur - s.ptyRows + 1 /\ con.cur >= dirtyTop + s.ptyRows
           /\ con'.buf = con.buf /\ con'.cur = con.cur /\ BufferHeight(con') = BufferHeight(con)
           /\ IF finalTop >= 0 /\ finalTop + s.ptyRows <= BufferHeight(con)
              THEN con'.top = finalTop /\ con'.height = s.ptyRows
              ELSE con'.top = con.top /\ con'.height = con.height
           /\ s'.directMode = s.directMode /\ s'.syncRow = s.syncRow
           /\ s'.syncCounter = s.syncCounter /\ s'.scrolledCount = s.scrolledCount
           /\ s'.dirtyLineCount = s.dirtyLineCount /\ s'.dirtyWindowTop = finalTop
           /\ s'.resizing = FALSE /\ s'.scrapedLineCount = s.scrapedLineCount
           /\ s'.failed = s.failed /\ g'.missed = g.missed
           /\ info' = info /\ g'.burst = g.burst /\ g'.scroll = g.scroll
           /\ g'.damaged = g.damaged /\ g'.quiet = FALSE
<1> DEFINE bottom == BufferHeight(con)
           rows == s.ptyRows
           dirty == s.dirtyLineCount
           top == Min({bottom - rows, con.top})
           dirtyTop == IF ~s.directMode /\ dirty > top + rows THEN dirty - rows ELSE top
           finalTop == WithCursor(dirtyTop, rows)
           c == moveWindow(con, finalTop, rows)
<1>1. /\ con \in Consoles /\ s \in Scrapers /\ pc = "expandWindow"
      /\ con' = [c EXCEPT !.frozen = s.directMode]
      /\ s' = [s EXCEPT !.dirtyWindowTop = finalTop, !.resizing = FALSE]
      /\ pc' = IF s.directMode THEN "direct" ELSE "idle"
      /\ g' = [g EXCEPT !.quiet = FALSE]
      /\ info' = info /\ DOMAIN g = HistoryFields
  BY DEF ScraperInv, ScraperTypes, ExpandWindow
<1>2. /\ bottom \in Nat \ {0} /\ rows \in Nat \ {0} /\ con.top \in Nat /\ dirty \in Nat
      /\ rows < BUFFER_LINE_COUNT
  BY <1>1, ConsoleFacts, ScraperFacts, Sizes
<1>3. /\ g'.burst = g.burst /\ g'.scroll = g.scroll /\ g'.damaged = g.damaged /\ g'.quiet = FALSE
      /\ g'.missed = g.missed
  BY <1>1 DEF HistoryFields
<1> HIDE DEF bottom, rows, dirty
<1>4. /\ top \in Int /\ top <= con.top /\ top + rows <= bottom
      /\ top = con.top \/ top + rows = bottom
  BY <1>2, MinOfTwo
<1> HIDE DEF top
<1>5. /\ dirtyTop \in Int /\ (dirtyTop = top \/ (~s.directMode /\ dirtyTop = dirty - rows))
      /\ dirtyTop >= top /\ (~s.directMode => dirtyTop >= dirty - rows)
  BY <1>2, <1>4
<1> HIDE DEF dirtyTop
<1>6. /\ finalTop \in Int /\ finalTop <= con.cur /\ con.cur <= finalTop + rows - 1
      /\ \/ finalTop = dirtyTop
         \/ finalTop = con.cur /\ con.cur < dirtyTop
         \/ finalTop = con.cur - rows + 1 /\ con.cur >= dirtyTop + rows
  BY <1>1, <1>2, <1>5, CursorKept
<1> HIDE DEF finalTop
<1>7. /\ c \in Consoles /\ BufferHeight(c) = bottom /\ c.cur = con.cur /\ c.buf = con.buf
      /\ IF finalTop >= 0 /\ finalTop + rows <= bottom
         THEN c.top = finalTop /\ c.height = rows
         ELSE c.top = con.top /\ c.height = con.height
  <2>1. /\ c \in Consoles /\ BufferHeight(c) = BufferHeight(con) /\ c.cur = con.cur
        /\ c.buf = con.buf
        /\ IF finalTop >= 0 /\ finalTop + rows <= BufferHeight(con)
           THEN c.top = finalTop /\ c.height = rows ELSE c = con
    BY <1>1, <1>2, <1>6, WindowMoved
  <2> QED BY <2>1 DEF bottom
<1> HIDE DEF c
<1>8. /\ con'.buf = c.buf /\ con'.top = c.top /\ con'.height = c.height /\ con'.cur = c.cur
      /\ BufferHeight(con') = BufferHeight(c)
  <2>1. s.directMode \in BOOLEAN
    BY <1>1, ScraperFacts
  <2> QED BY <1>1, <1>7, <2>1, FrozenSet
<1>9. /\ s'.directMode = s.directMode /\ s'.syncRow = s.syncRow
      /\ s'.syncCounter = s.syncCounter /\ s'.scrolledCount = s.scrolledCount
      /\ s'.dirtyLineCount = s.dirtyLineCount /\ s'.dirtyWindowTop = finalTop
      /\ s'.resizing = FALSE /\ s'.scrapedLineCount = s.scrapedLineCount
      /\ s'.failed = s.failed
  BY <1>1 DEF Scrapers
<1> QED BY <1>1, <1>3, <1>4, <1>5, <1>6, <1>7, <1>8, <1>9 DEF bottom, rows, dirty

LEMMA ExpandWindowPosition ==
  ASSUME HistoryFits, ScraperInv, PositionInv, ExpandWindow
  PROVE  PositionInv'
<1>0. con.cur \in Window(con)
  BY DEF PositionInv, HeightsOK
<1>1. PICK top \in Int, dirtyTop \in Int, finalTop \in Int :
        /\ pc = "expandWindow" /\ pc' = IF s.directMode THEN "direct" ELSE "idle"
        /\ top <= con.top /\ top + s.ptyRows <= BufferHeight(con)
        /\ \/ dirtyTop = top
           \/ ~s.directMode /\ dirtyTop = s.dirtyLineCount - s.ptyRows
        /\ finalTop <= con.cur /\ con.cur <= finalTop + s.ptyRows - 1
        /\ \/ finalTop = dirtyTop
           \/ finalTop = con.cur /\ con.cur < dirtyTop
           \/ finalTop = con.cur - s.ptyRows + 1 /\ con.cur >= dirtyTop + s.ptyRows
        /\ con'.cur = con.cur /\ BufferHeight(con') = BufferHeight(con)
        /\ IF finalTop >= 0 /\ finalTop + s.ptyRows <= BufferHeight(con)
           THEN con'.top = finalTop /\ con'.height = s.ptyRows
           ELSE con'.top = con.top /\ con'.height = con.height
        /\ s'.directMode = s.directMode /\ s'.syncRow = s.syncRow
        /\ s'.scrolledCount = s.scrolledCount
        /\ s'.dirtyLineCount = s.dirtyLineCount /\ s'.dirtyWindowTop = finalTop
        /\ info' = info /\ g'.burst = g.burst
  BY <1>0, ExpandWindowDoes
<1>2. /\ con.top \in Nat /\ con.cur \in Nat /\ con.height \in Nat \ {0} /\ con.height <= Tallest
      /\ con.top <= con.cur /\ con.cur < con.top + con.height
      /\ BufferHeight(con) \in Nat /\ con.top + con.height <= BufferHeight(con)
      /\ BufferHeight(con) <= Tallest \/ BufferHeight(con) = BUFFER_LINE_COUNT
      /\ info.top \in Nat /\ g.burst \in Nat /\ s.ptyRows \in Rows /\ s.ptyRows \in Nat
      /\ con.cur < BufferHeight(con)
  BY Numbers DEF ScraperInv, PositionInv, HeightsOK
<1>3. /\ Tallest \in Nat /\ s.ptyRows <= Tallest /\ BUFFER_LINE_COUNT \in Nat
      /\ MarkedFrom \in Nat
  BY <1>2, HeightsFit, Sizes
<1>4. s.dirtyLineCount \in Nat /\ s.dirtyLineCount <= BUFFER_LINE_COUNT
  BY <1>3, ScraperFacts DEF ScraperInv, ScraperTypes
<1> DEFINE bottom == BufferHeight(con)
           moved == finalTop >= 0 /\ finalTop + s.ptyRows <= bottom
<1>5. HeightsOK'
  <2>1. con'.height <= Tallest /\ con'.top <= con'.cur /\ con'.cur <= con'.top + con'.height - 1
        /\ con'.top \in Int /\ con'.height \in Int /\ con'.cur \in Int
    BY <1>1, <1>2, <1>3
  <2> QED BY <1>1, <2>1 DEF PositionInv, HeightsOK, Window
<1>6. DirectLow'
  <2>1. ASSUME s.directMode PROVE con'.top + con'.height <= 2 * Tallest + g.burst
    <3>1. con.top + con.height <= Tallest + g.burst
      BY <1>1, <2>1 DEF PositionInv, DirectLow, Low, Bottom
    <3> QED BY <1>1, <1>2, <1>3, <2>1, <3>1
  <2> QED BY <1>1, <2>1 DEF DirectLow, Bottom
<1>7. NotFarDown'
  BY <1>1 DEF NotFarDown, Scraping, TentativePhases
<1>8. NotUp'
  <2>1. ASSUME ~s.directMode
        PROVE  con'.top >= finalTop \/ con'.top + con'.height <= Tallest + g.burst
    <3>1. finalTop + s.ptyRows <= bottom \/ bottom <= Tallest
      BY <1>1, <1>2, <1>3, <1>4
    <3> QED BY <1>1, <1>2, <1>3, <3>1
  <2> QED BY <1>1, <2>1 DEF NotUp, Low, Bottom, Scraping, TentativePhases
<1>9. UnmarkedHigh'
  <2> SUFFICES ASSUME s.syncRow = -1
               PROVE  /\ s.scrolledCount = 0 /\ s.dirtyLineCount <= MarkedFrom
                      /\ ~s.directMode => con'.top + con'.height <= MarkedFrom + g.burst
    BY <1>1 DEF UnmarkedHigh, Bottom
  <2>1. /\ s.scrolledCount = 0 /\ s.dirtyLineCount <= MarkedFrom
        /\ ~s.directMode => info.top + Tallest <= MarkedFrom
    BY <1>1 DEF PositionInv, UnmarkedHigh
  <2>2. /\ con.height <= s.ptyRows
        /\ ~s.directMode => con.top + s.ptyRows <= info.top + Tallest + g.burst
    BY <1>1 DEF PositionInv, NotFarDown
  <2> QED BY <1>1, <1>2, <1>3, <1>4, <2>1, <2>2
<1> QED BY <1>5, <1>6, <1>7, <1>8, <1>9 DEF PositionInv

----------------------------------------------------------------------------
(***************************************************************************)
(* What the application's steps do to the positions and to the markers.    *)
(***************************************************************************)

\* The markers of d were on c, k rows further down.
MarkersKept(c, d, k) ==
  \A r \in DOMAIN d.buf : \A n \in Nat, j \in Nat :
    d.buf[r] = Marker(n, j) => r + k \in DOMAIN c.buf /\ c.buf[r + k] = Marker(n, j)

\* Unless the scraper misses what the application does, the window moves up, or the
\* height of the buffer changes, where the next poll sees it.
AppSeen ==
  \/ g'.missed
  \/ BufferHeight(con') = BufferHeight(con) /\ con'.top >= con.top
  \/ /\ s.directMode
     /\ BufferHeight(con') = BufferHeight(con) \/ pc \in {"idle", "direct"}
  \/ /\ ~s.directMode /\ pc = "idle"
     /\ \/ BufferHeight(con') # BUFFER_LINE_COUNT
        \/ \A r \in DOMAIN con'.buf : con'.buf[r] = Blank

\* A step of the application: the window follows the lines it writes, or gets
\* near the top of the buffer; k lines scroll out of the buffer.
AppEffect(k) ==
  /\ ~con.frozen /\ UNCHANGED <<s, pc, info>> /\ con' \in Consoles
  /\ g'.burst \in {g.burst, g.burst + 1} /\ g'.burst <= MaxBurst
  /\ con'.height <= con.height /\ con'.cur \in Window(con')
  /\ BufferHeight(con') <= Tallest \/ BufferHeight(con') = BUFFER_LINE_COUNT
  /\ con'.top + k <= con.top + (g'.burst - g.burst)
  /\ \/ con'.top >= con.top
     \/ con'.top + con'.height <= Tallest
  /\ MarkersKept(con, con', k)
  /\ (g.missed => g'.missed) /\ AppSeen
  /\ k = 1 => con.cur = BufferHeight(con) - 1 /\ g.burst < MaxBurst
  /\ g'.quiet = FALSE /\ g'.scroll = g.scroll + k /\ (g.damaged => g'.damaged)
  /\ BufferHeight(con') = BufferHeight(con) \/ g'.damaged

LEMMA AppStepPosition ==
  ASSUME HistoryFits, ScraperInv, PositionInv, NEW k \in {0, 1}, AppEffect(k)
  PROVE  PositionInv'
<1>1. /\ UNCHANGED <<s, pc, info>> /\ con' \in Consoles
      /\ g'.burst \in {g.burst, g.burst + 1} /\ g'.burst <= MaxBurst
      /\ con'.height <= con.height /\ con'.cur \in Window(con')
      /\ BufferHeight(con') <= Tallest \/ BufferHeight(con') = BUFFER_LINE_COUNT
      /\ con'.top + k <= con.top + (g'.burst - g.burst)
      /\ \/ con'.top >= con.top
         \/ con'.top + con'.height <= Tallest
  BY DEF AppEffect
<1>2. /\ con.top \in Nat /\ con.height \in Nat /\ con.height <= Tallest
      /\ g.burst \in Nat /\ info.top \in Nat /\ s.ptyRows \in Nat
      /\ s.dirtyWindowTop \in Int
  BY Numbers DEF ScraperInv, PositionInv, HeightsOK
<1>3. /\ Tallest \in Nat /\ MarkedFrom \in Nat /\ MaxBurst \in Nat
      /\ 2 * Tallest + MaxBurst <= MarkedFrom
  BY HeightsFit
<1>4. con'.top \in Nat /\ con'.height \in Nat
  BY <1>1, ConsoleFacts
<1>5. HeightsOK'
  <2>1. (BufferHeight(con) <= Tallest \/ BufferHeight(con) = BUFFER_LINE_COUNT)'
    BY <1>1
  <2> QED BY <1>1, <1>2, <1>3, <1>4, <2>1 DEF PositionInv, HeightsOK, Window
<1>6. /\ con'.top + con'.height <= Tallest
         \/ con'.top + con'.height <= con.top + con.height + (g'.burst - g.burst)
      /\ Low => Low'
  BY <1>1, <1>2, <1>3, <1>4 DEF Low, Bottom
<1>7. DirectLow'
  BY <1>1, <1>2, <1>3, <1>4, <1>6 DEF PositionInv, DirectLow, Bottom
<1>8. NotFarDown'
  BY <1>1, <1>2, <1>3, <1>4 DEF PositionInv, NotFarDown
<1>9. NotUp'
  <2>1. con'.top >= con.top \/ Low'
    BY <1>1, <1>2, <1>3, <1>4 DEF Low, Bottom
  <2>2. \A n \in Int : con.top >= n \/ Low => con'.top >= n \/ Low'
    BY <1>2, <1>4, <1>6, <2>1
  <2> QED BY <1>1, <1>2, <2>2 DEF PositionInv, NotUp, Bottom
<1>10. UnmarkedHigh'
  BY <1>1, <1>2, <1>3, <1>4, <1>6 DEF PositionInv, UnmarkedHigh, Bottom
<1> QED BY <1>5, <1>7, <1>8, <1>9, <1>10 DEF PositionInv

LEMMA MarkersDiffer ==
  /\ \A n \in Nat, j \in Nat, m \in Nat, v \in Nat :
       /\ Marker(n, j) = Marker(m, v) => n = m /\ j = v
       /\ Marker(n, j) # Text(m, v)
  /\ \A n \in Nat, j \in Nat : Marker(n, j) # Blank /\ Marker(n, j) # Garbage
  BY DEF Marker, Text, Blank, Garbage

\* Another row of the buffer is written by the application.
LEMMA MarkersKeptByText ==
  ASSUME con \in Consoles, NEW d, NEW row \in DOMAIN con.buf, NEW text,
         \A n \in Nat, j \in Nat : text # Marker(n, j),
         d.buf = [con.buf EXCEPT ![row] = text]
  PROVE  MarkersKept(con, d, 0)
<1>1. DOMAIN con.buf = 0..(BufferHeight(con) - 1) /\ BufferHeight(con) \in Nat
  BY ConsoleFacts
<1>2. \A r \in DOMAIN con.buf : r + 0 = r
  BY <1>1
<1> QED BY <1>1, <1>2 DEF MarkersKept

LEMMA MarkersKeptByRows ==
  ASSUME con \in Consoles, NEW d,
         \A r \in DOMAIN d.buf : d.buf[r] = At(con.buf, r, Blank) \/ d.buf[r] = Blank
  PROVE  MarkersKept(con, d, 0)
<1>1. DOMAIN con.buf = 0..(BufferHeight(con) - 1) /\ BufferHeight(con) \in Nat
  BY ConsoleFacts
<1> SUFFICES ASSUME NEW r \in DOMAIN d.buf, NEW n \in Nat, NEW j \in Nat,
                    d.buf[r] = Marker(n, j)
             PROVE  r + 0 \in DOMAIN con.buf /\ con.buf[r + 0] = Marker(n, j)
  BY DEF MarkersKept
<1>2. At(con.buf, r, Blank) # Blank
  BY MarkersDiffer
<1>3. r \in DOMAIN con.buf
  BY <1>2 DEF At
<1>4. r + 0 = r
  BY <1>1, <1>3
<1> QED BY <1>3, <1>4, MarkersDiffer DEF At

LEMMA WriteLineDoes ==
  ASSUME HistoryFits, ScraperInv, PositionInv, g.scroll \in Nat, WriteLine
  PROVE  \E k \in {0, 1} : AppEffect(k)
<1> DEFINE text == Text(g.written + 1, 0)
           last == BufferHeight(con) - 1
           buf == [con.buf EXCEPT ![con.cur] = text]
           shifted == [r \in DOMAIN con.buf |-> IF r < last THEN buf[r + 1] ELSE Blank]
           top == Max({con.top, con.cur + 2 - con.height})
           down == [con EXCEPT !.buf = buf, !.cur = con.cur + 1, !.top = top]
           l == Logged(con.cur, text)
           h == [l EXCEPT !.written = l.written + 1, !.burst = l.burst + 1]
<1>1. /\ con \in Consoles /\ ~con.frozen /\ UNCHANGED <<s, pc, info>>
      /\ DOMAIN g = HistoryFields /\ g.written \in Nat /\ g.burst < MaxBurst
  BY DEF ScraperInv, ScraperTypes, WriteLine
<1>2. \/ con.cur < last /\ con' = down /\ g' = h
      \/ con.cur = last /\ con' = [con EXCEPT !.buf = shifted]
         /\ g' = [h EXCEPT !.scroll = h.scroll + 1]
  BY DEF WriteLine
<1>3. /\ con.top \in Nat /\ con.height \in Nat \ {0} /\ con.cur \in Nat
      /\ BufferHeight(con) \in Nat \ {0} /\ con.cur < BufferHeight(con)
      /\ con.top + con.height <= BufferHeight(con)
      /\ con.top <= con.cur /\ con.cur < con.top + con.height /\ g.burst \in Nat
  BY Numbers DEF ScraperInv, PositionInv
<1>4. MaxBurst \in Nat /\ con.height < BUFFER_LINE_COUNT /\ DOMAIN con.buf = 0..last
      /\ con.cur \in DOMAIN con.buf
  BY <1>1, HeightsFit, ConsoleFacts
<1>5. /\ DOMAIN h = HistoryFields /\ h.burst = g.burst + 1 /\ h.scroll = g.scroll
      /\ h.quiet = FALSE /\ h.damaged = g.damaged /\ h.missed = g.missed
  <2>1. /\ DOMAIN l = HistoryFields /\ l.burst = g.burst /\ l.scroll = g.scroll
        /\ l.quiet = FALSE /\ l.damaged = g.damaged /\ l.missed = g.missed
    BY <1>1 DEF Logged, HistoryFields
  <2> HIDE DEF l
  <2> QED BY <2>1 DEF HistoryFields
<1>6. text \in Row /\ \A n \in Nat, j \in Nat : text # Marker(n, j)
  BY <1>1, RowKinds, MarkersDiffer
<1> HIDE DEF h, l
<1>7. buf \in [0..last -> Row]
  BY <1>1, <1>4, <1>6, RowWritten
<1>8. con' \in Consoles
  BY WriteLineStep DEF ScraperInv, ScraperTypes
<1>9. BufferHeight(con) <= Tallest \/ BufferHeight(con) = BUFFER_LINE_COUNT
  BY DEF PositionInv, HeightsOK
<1>10. CASE con.cur < last /\ con' = down /\ g' = h
  <2>1. top = IF con.top >= con.cur + 2 - con.height THEN con.top ELSE con.cur + 2 - con.height
    BY <1>3, MaxOfTwo
  <2> HIDE DEF top, last, text
  <2>2. con \in ConsoleRecords
    BY <1>1, ConsoleIsRecord
  <2>3. con'.buf = buf /\ con'.top = top /\ con'.height = con.height /\ con'.cur = con.cur + 1
    BY <1>10, <2>2 DEF ConsoleRecords
  <2> HIDE DEF buf, down
  <2>4. con'.buf \in [0..last -> Row] /\ last \in Int
    BY <1>3, <1>7, <2>3 DEF last
  <2>5. BufferHeight(con') = BufferHeight(con)
    BY <1>3, <2>4, HeightOf DEF last
  <2>6. /\ con'.top <= con.top + 1 /\ con'.top >= con.top /\ con'.cur \in Window(con')
    BY <1>3, <2>1, <2>3 DEF Window
  <2>7. MarkersKept(con, con', 0)
    <3>1. con'.buf = [con.buf EXCEPT ![con.cur] = text]
      BY <2>3 DEF buf
    <3>2. con \in Consoles /\ con.cur \in DOMAIN con.buf
      BY <1>1, <1>4
    <3>3. \A n \in Nat, j \in Nat : text # Marker(n, j)
      BY <1>6
    <3> QED BY <3>1, <3>2, <3>3, MarkersKeptByText
  <2>8. /\ g'.burst = g.burst + 1 /\ g'.scroll = g.scroll /\ g'.quiet = FALSE
        /\ g'.damaged = g.damaged /\ g'.missed = g.missed
    BY <1>5, <1>10
  <2>9. g'.scroll = g.scroll + 0
    BY <1>5, <1>10
  <2>10. /\ ~con.frozen /\ UNCHANGED <<s, pc, info>> /\ con' \in Consoles
         /\ con'.height <= con.height /\ con'.cur \in Window(con')
    BY <1>1, <1>3, <1>8, <2>3, <2>6
  <2>11. BufferHeight(con') <= Tallest \/ BufferHeight(con') = BUFFER_LINE_COUNT
    BY <1>9, <2>5
  <2>12. /\ g'.burst \in {g.burst, g.burst + 1} /\ g'.burst <= MaxBurst
         /\ con'.top + 0 <= con.top + (g'.burst - g.burst)
    <3>1. con'.top \in Nat
      BY <1>8, ConsoleFacts
    <3> QED BY <1>1, <1>3, <1>4, <2>6, <2>8, <3>1
  <2>13. AppSeen
    BY <2>5, <2>6 DEF AppSeen
  <2> QED BY <2>5, <2>6, <2>7, <2>8, <2>9, <2>10, <2>11, <2>12, <2>13 DEF AppEffect
<1>11. CASE con.cur = last /\ con' = [con EXCEPT !.buf = shifted]
            /\ g' = [h EXCEPT !.scroll = h.scroll + 1]
  <2>1. shifted \in [0..(BufferHeight(con) - 1) -> Row]
    <3>1. \A r \in 0..last : (IF r < last THEN buf[r + 1] ELSE Blank) \in Row
      BY <1>3, <1>7, RowKinds
    <3> QED BY <1>4, <3>1
  <2>2. MarkersKept(con, [con EXCEPT !.buf = shifted], 1)
    <3> SUFFICES ASSUME NEW r \in DOMAIN shifted, NEW n \in Nat, NEW j \in Nat,
                        shifted[r] = Marker(n, j)
                 PROVE  r + 1 \in DOMAIN con.buf /\ con.buf[r + 1] = Marker(n, j)
      BY <1>1, ConsoleIsRecord DEF MarkersKept, ConsoleRecords
    <3>1. r \in 0..last /\ shifted[r] = IF r < last THEN buf[r + 1] ELSE Blank
      BY <1>4
    <3> HIDE DEF shifted
    <3>2. r < last /\ buf[r + 1] = Marker(n, j)
      BY <3>1, MarkersDiffer
    <3>3. r + 1 \in DOMAIN con.buf
      BY <1>3, <1>4, <3>1, <3>2
    <3>4. buf[r + 1] = IF r + 1 = con.cur THEN text ELSE con.buf[r + 1]
      BY <3>3
    <3> QED BY <1>6, <3>2, <3>3, <3>4
  <2> HIDE DEF shifted, buf, text
  <2>3. Refilled(con, con')
    BY <1>1, <1>11, <2>1, BufRefilled
  <2>4. /\ con'.top = con.top /\ con'.height = con.height /\ con'.cur = con.cur
        /\ BufferHeight(con') = BufferHeight(con)
    BY <2>3 DEF Refilled
  <2>5. con'.cur \in Window(con')
    BY <1>3, <2>4 DEF Window
  <2>6. /\ g'.burst = g.burst + 1 /\ g'.scroll = g.scroll + 1 /\ g'.quiet = FALSE
        /\ g'.damaged = g.damaged /\ g'.missed = g.missed
    BY <1>5, <1>11 DEF HistoryFields
  <2>7. MarkersKept(con, con', 1)
    BY <1>11, <2>2
  <2>8. con.cur = BufferHeight(con) - 1
    BY <1>11
  <2> HIDE DEF last
  <2>9. AppSeen
    BY <1>3, <2>4 DEF AppSeen
  <2> QED BY <1>1, <1>3, <1>4, <1>8, <1>9, <2>4, <2>5, <2>6, <2>7, <2>8, <2>9 DEF AppEffect
<1> QED BY <1>2, <1>10, <1>11

LEMMA EditDoes ==
  ASSUME HistoryFits, ScraperInv, PositionInv, g.scroll \in Nat,
         NEW row \in Window(con), NEW blank \in BOOLEAN, Edit(row, blank)
  PROVE  AppEffect(0)
<1> DEFINE text == IF blank THEN Blank ELSE Text(g.written, g.odd + 1)
           buf == [con.buf EXCEPT ![row] = text]
           l == Logged(row, text)
           missed == l.missed \/ Resizing
<1>1. /\ con \in Consoles /\ ~con.frozen /\ UNCHANGED <<s, pc, info>>
      /\ DOMAIN g = HistoryFields /\ g.written \in Nat /\ g.odd \in Nat
      /\ con' = [con EXCEPT !.buf = buf]
      /\ g' = [l EXCEPT !.odd = l.odd + 1, !.missed = missed]
  BY DEF ScraperInv, ScraperTypes, Edit, Odd
<1>2. /\ g'.burst = g.burst /\ g'.scroll = g.scroll /\ g'.quiet = FALSE
      /\ g'.damaged = g.damaged /\ (g.missed => g'.missed)
  <2>2. l.missed => missed
    OBVIOUS
  <2> HIDE DEF missed
  <2>1. /\ DOMAIN l = HistoryFields /\ l.burst = g.burst /\ l.scroll = g.scroll
        /\ l.quiet = FALSE /\ l.damaged = g.damaged /\ l.missed = g.missed
    BY <1>1 DEF Logged, HistoryFields
  <2> HIDE DEF l
  <2>3. /\ g'.burst = g.burst /\ g'.scroll = g.scroll /\ g'.quiet = FALSE
        /\ g'.damaged = g.damaged /\ g'.missed = missed
    BY <1>1, <2>1 DEF HistoryFields
  <2>4. g.missed => g'.missed
    BY <2>1, <2>2, <2>3, Zenon
  <2> QED BY <2>3, <2>4
<1>3. row \in DOMAIN con.buf
  BY <1>1, ConsoleFacts DEF Window
<1>4. text \in Row /\ \A n \in Nat, j \in Nat : text # Marker(n, j)
  BY <1>1, RowKinds, MarkersDiffer
<1> HIDE DEF text, l, missed
<1>5. buf \in [0..(BufferHeight(con) - 1) -> Row]
  BY <1>1, <1>3, <1>4, RowWritten
<1>6. Refilled(con, con') /\ con'.buf = [con.buf EXCEPT ![row] = text]
  BY <1>1, <1>5, BufRefilled
<1> HIDE DEF buf
<1>7. /\ con' \in Consoles /\ con'.top = con.top /\ con'.height = con.height
      /\ con'.cur = con.cur /\ BufferHeight(con') = BufferHeight(con)
  BY <1>6 DEF Refilled
<1>8. MarkersKept(con, con', 0)
  <2>1. con'.buf = [con.buf EXCEPT ![row] = text]
    BY <1>6
  <2>2. con \in Consoles /\ row \in DOMAIN con.buf
    BY <1>1, <1>3
  <2>3. \A n \in Nat, j \in Nat : text # Marker(n, j)
    BY <1>4
  <2> QED BY <2>1, <2>2, <2>3, MarkersKeptByText
<1>9. /\ con.cur \in Window(con) /\ g.burst \in 0..MaxBurst /\ MaxBurst \in Nat
      /\ BufferHeight(con) <= Tallest \/ BufferHeight(con) = BUFFER_LINE_COUNT
      /\ con.top \in Nat /\ con.height \in Nat
  BY <1>1, HeightsFit, ConsoleFacts DEF PositionInv, HeightsOK
<1>10. con'.cur \in Window(con')
  BY <1>7, <1>9 DEF Window
<1>11. g'.scroll = g.scroll + 0 /\ con'.top + 0 <= con.top + (g'.burst - g.burst)
  BY <1>2, <1>7, <1>9
<1>12. AppSeen
  BY <1>7, <1>9 DEF AppSeen
<1> QED BY <1>1, <1>2, <1>7, <1>8, <1>9, <1>10, <1>11, <1>12 DEF AppEffect

LEMMA MoveCursorDoes ==
  ASSUME HistoryFits, ScraperInv, PositionInv, g.scroll \in Nat,
         NEW row \in Window(con), MoveCursor(row)
  PROVE  AppEffect(0)
<1> DEFINE missed == g.missed \/ Resizing
<1>1. /\ con \in Consoles /\ ~con.frozen /\ UNCHANGED <<s, pc, info>>
      /\ DOMAIN g = HistoryFields
      /\ con' = [con EXCEPT !.cur = row]
      /\ g' = [g EXCEPT !.quiet = FALSE, !.odd = g.odd + 1, !.missed = missed]
  BY DEF ScraperInv, ScraperTypes, MoveCursor, Odd
<1>11. g.missed => missed
  OBVIOUS
<1> HIDE DEF missed
<1>2. /\ g'.burst = g.burst /\ g'.scroll = g.scroll /\ g'.quiet = FALSE
      /\ g'.damaged = g.damaged /\ g'.missed = missed
  BY <1>1 DEF HistoryFields
<1>12. g.missed => g'.missed
  BY <1>2, <1>11, Zenon
<1>3. con \in ConsoleRecords /\ row \in Nat
  BY <1>1, ConsoleFacts, ConsoleIsRecord DEF Window
<1>4. /\ con'.buf = con.buf /\ con'.top = con.top
      /\ con'.height = con.height /\ con'.cur = row
  BY <1>1, <1>3 DEF ConsoleRecords
<1>5. con' \in Consoles
  BY MoveCursorStep DEF ScraperInv, ScraperTypes
<1>6. BufferHeight(con') = BufferHeight(con)
  BY <1>4 DEF BufferHeight
<1>7. MarkersKept(con, con', 0)
  <2>1. \A r \in DOMAIN con'.buf : con'.buf[r] = At(con.buf, r, Blank)
    BY <1>4 DEF At
  <2> QED BY <1>1, <2>1, MarkersKeptByRows
<1>8. /\ g.burst \in 0..MaxBurst /\ MaxBurst \in Nat
      /\ BufferHeight(con) <= Tallest \/ BufferHeight(con) = BUFFER_LINE_COUNT
      /\ con.top \in Nat /\ con.height \in Nat
  BY <1>1, HeightsFit, ConsoleFacts DEF PositionInv, HeightsOK
<1>9. con'.cur \in Window(con')
  BY <1>4 DEF Window
<1>10. g'.scroll = g.scroll + 0 /\ con'.top + 0 <= con.top + (g'.burst - g.burst)
  BY <1>2, <1>4, <1>8
<1>13. AppSeen
  BY <1>4, <1>6, <1>8 DEF AppSeen
<1> QED BY <1>1, <1>2, <1>4, <1>5, <1>6, <1>7, <1>8, <1>9, <1>10, <1>12, <1>13 DEF AppEffect

LEMMA RewrittenDoes ==
  ASSUME ScraperInv, NEW unseen \in BOOLEAN, g' = Rewritten(unseen), g.scroll \in Nat
  PROVE  /\ g'.burst = g.burst /\ g'.scroll = g.scroll + 0 /\ g'.quiet = FALSE
         /\ g'.damaged
         /\ (g.missed => g'.missed)
         /\ unseen \/ pc \notin {"idle", "direct"} => g'.missed
<1> DEFINE missed == g.missed \/ unseen \/ pc \notin {"idle", "direct"}
<1>1. DOMAIN g = HistoryFields
  BY DEF ScraperInv, ScraperTypes
<1>2. /\ g'.burst = g.burst /\ g'.scroll = g.scroll /\ g'.quiet = FALSE
      /\ g'.damaged /\ g'.missed = missed
  BY <1>1 DEF Rewritten, HistoryFields
<1>3. (g.missed => g'.missed) /\ (unseen \/ pc \notin {"idle", "direct"} => g'.missed)
  BY <1>2, Zenon
<1> QED BY <1>2, <1>3

LEMMA ClearDoes ==
  ASSUME HistoryFits, ScraperInv, PositionInv, g.scroll \in Nat, Clear
  PROVE  AppEffect(0)
<1> DEFINE buf == [r \in DOMAIN con.buf |-> Blank]
<1>1. /\ con \in Consoles /\ ~con.frozen /\ UNCHANGED <<s, pc, info>> /\ g' = Rewritten(FALSE)
      /\ con' = [con EXCEPT !.buf = buf, !.top = 0, !.cur = 0]
  BY DEF ScraperInv, ScraperTypes, Clear, Odd
<1>2. /\ con.height \in Nat \ {0} /\ con.height <= Tallest /\ con.top \in Nat
      /\ BufferHeight(con) \in Nat \ {0}
      /\ BufferHeight(con) <= Tallest \/ BufferHeight(con) = BUFFER_LINE_COUNT
      /\ g.burst \in Nat /\ g.burst <= MaxBurst /\ Tallest \in Nat
  BY Numbers, HeightsFit DEF ScraperInv, PositionInv, HeightsOK
<1>3. con \in ConsoleRecords /\ DOMAIN con.buf = DOMAIN buf
  BY <1>1, ConsoleIsRecord
<1>4. /\ con'.buf = buf /\ con'.top = 0
      /\ con'.height = con.height /\ con'.cur = 0
  BY <1>1, <1>3 DEF ConsoleRecords
<1>5. BufferHeight(con') = BufferHeight(con)
  BY <1>3, <1>4 DEF BufferHeight
<1>6. con' \in Consoles
  BY ClearStep DEF ScraperInv, ScraperTypes
<1>7. MarkersKept(con, con', 0)
  <2>1. \A r \in DOMAIN con'.buf : con'.buf[r] = Blank
    BY <1>4
  <2> QED BY <1>1, <2>1, MarkersKeptByRows
<1>8. con'.cur \in Window(con')
  BY <1>2, <1>4 DEF Window
<1>9. /\ g'.burst = g.burst /\ g'.scroll = g.scroll + 0 /\ g'.quiet = FALSE
      /\ g'.damaged /\ (g.missed => g'.missed)
      /\ pc \notin {"idle", "direct"} => g'.missed
  BY <1>1, RewrittenDoes
<1>13. \A r \in DOMAIN con'.buf : con'.buf[r] = Blank
  BY <1>4
<1> HIDE DEF buf
<1>14. pc = "direct" => s.directMode
  BY DEF ScraperInv, ModeFitsInfo
<1>15. AppSeen
  <2>1. s.directMode \in BOOLEAN
    BY Numbers DEF ScraperInv, PositionInv
  <2> QED BY <1>5, <1>9, <1>13, <1>14, <2>1, Zenon DEF AppSeen
<1>10. /\ con'.top + 0 <= con.top + (g'.burst - g.burst) /\ con'.top + con'.height <= Tallest
       /\ con'.height <= con.height /\ g'.burst <= MaxBurst
  BY <1>2, <1>4, <1>9
<1>11. BufferHeight(con') <= Tallest \/ BufferHeight(con') = BUFFER_LINE_COUNT
  BY <1>2, <1>5
<1>12. ~con.frozen /\ UNCHANGED <<s, pc, info>>
  BY <1>1
<1> QED BY <1>5, <1>6, <1>7, <1>8, <1>9, <1>10, <1>11, <1>12, <1>15 DEF AppEffect

LEMMA SetBufferHeightDoes ==
  ASSUME HistoryFits, ScraperInv, PositionInv, g.scroll \in Nat,
         NEW rows \in AppHeights \union {BUFFER_LINE_COUNT}, SetBufferHeight(rows)
  PROVE  AppEffect(0)
<1> DEFINE height == Min({con.height, rows})
           c == [con EXCEPT !.height = height]
           unseen == rows = BUFFER_LINE_COUNT /\ ~s.directMode
<1>1. /\ con \in Consoles /\ ~con.frozen /\ UNCHANGED <<s, pc, info>> /\ g' = Rewritten(unseen)
      /\ con' = resizeBufferRange(c, rows) /\ rows # BufferHeight(con)
  BY DEF ScraperInv, ScraperTypes, SetBufferHeight, Odd
<1>2. /\ con.height \in Nat \ {0} /\ con.height <= Tallest /\ con.top \in Nat /\ con.cur \in Nat
      /\ BufferHeight(con) \in Nat \ {0} /\ con.top + con.height <= BufferHeight(con)
      /\ con.top <= con.cur /\ con.cur < con.top + con.height
      /\ BufferHeight(con) <= Tallest \/ BufferHeight(con) = BUFFER_LINE_COUNT
      /\ g.burst \in Nat /\ g.burst <= MaxBurst /\ Tallest \in Nat
  BY Numbers, HeightsFit DEF ScraperInv, PositionInv, HeightsOK
<1>3. /\ rows \in Nat \ {0} /\ BUFFER_LINE_COUNT \in Nat
      /\ rows <= Tallest \/ rows = BUFFER_LINE_COUNT
      /\ con.height < BUFFER_LINE_COUNT /\ con \in ConsoleRecords
  <2>1. rows <= Tallest \/ rows = BUFFER_LINE_COUNT
    BY HeightsFit
  <2> QED BY <1>1, <2>1, Sizes, ConsoleFacts, ConsoleIsRecord
<1>4. height = IF con.height <= rows THEN con.height ELSE rows
  BY <1>2, <1>3, MinOfTwo
<1> HIDE DEF height
<1>5. height \in Nat \ {0} /\ height <= con.height /\ height <= rows
  BY <1>2, <1>3, <1>4
<1>6. /\ c \in ConsoleRecords /\ c.buf = con.buf /\ c.top = con.top
      /\ c.height = height /\ c.cur = con.cur
  BY <1>3, <1>5 DEF ConsoleRecords
<1> HIDE DEF c
<1>7. c \in Consoles
  <2>1. con.top + height <= BufferHeight(con) /\ height < BUFFER_LINE_COUNT
    BY <1>2, <1>3, <1>5
  <2> QED BY <1>1, <1>6, <2>1, ConsoleFacts, ConsoleFits
<1>8. /\ con' \in Consoles /\ BufferHeight(con') = rows /\ con'.height = height
      /\ con'.top = IF con.top <= rows - height THEN con.top ELSE rows - height
      /\ con'.cur = IF con.cur <= rows - 1 THEN con.cur ELSE rows - 1
      /\ con'.buf = [r \in 0..(rows - 1) |-> At(con.buf, r, Blank)]
  <2>1. ~(rows < c.height)
    BY <1>3, <1>5, <1>6
  <2> QED BY <1>1, <1>3, <1>6, <1>7, <2>1, BufferResized
<1>9. MarkersKept(con, con', 0)
  <2>1. \A r \in DOMAIN con'.buf : con'.buf[r] = At(con.buf, r, Blank)
    BY <1>8
  <2> QED BY <1>1, <2>1, MarkersKeptByRows
<1>10. con'.cur \in Window(con')
  <2>1. /\ con'.top \in Int /\ con'.cur \in Int /\ con'.height \in Int
        /\ con'.top <= con'.cur /\ con'.cur <= con'.top + con'.height - 1
    <3>1. CASE con.height <= rows
      <4>1. height = con.height
        BY <1>4, <3>1
      <4>2. CASE con.top <= rows - con.height
        <5>1. con'.top = con.top /\ con'.height = con.height /\ con'.cur = con.cur
          BY <1>2, <1>3, <1>8, <4>1, <4>2
        <5> QED BY <1>2, <5>1
      <4>3. CASE ~(con.top <= rows - con.height)
        <5>1. con'.top = rows - con.height /\ con'.height = con.height
          BY <1>8, <4>1, <4>3
        <5>2. con'.cur \in Int /\ con'.cur <= rows - 1 /\ con'.cur >= rows - con.height
          BY <1>2, <1>3, <1>8, <3>1, <4>3
        <5> QED BY <1>2, <1>3, <5>1, <5>2
      <4> QED BY <4>2, <4>3
    <3>2. CASE ~(con.height <= rows)
      <4>1. con'.height = rows /\ con'.top = 0
        BY <1>2, <1>3, <1>4, <1>8, <3>2
      <4> QED BY <1>2, <1>3, <1>8, <4>1
    <3> QED BY <3>1, <3>2
  <2> QED BY <2>1 DEF Window
<1>11. con'.top <= con.top /\ con'.top + con'.height <= Tallest /\ con'.height <= con.height
  <2>1. /\ con'.top \in Nat /\ con'.top <= con.top /\ con'.height = height
        /\ con'.top + con'.height <= rows /\ con'.top + con'.height <= con.top + con.height
    BY <1>2, <1>3, <1>5, <1>8
  <2>2. CASE rows <= Tallest
    BY <1>2, <1>3, <1>5, <2>1, <2>2
  <2>3. CASE rows = BUFFER_LINE_COUNT
    <3>1. con.top + con.height <= Tallest
      BY <1>1, <1>2, <2>3
    <3> QED BY <1>2, <1>5, <2>1, <3>1
  <2> QED BY <1>3, <2>2, <2>3
<1>12. /\ g'.burst = g.burst /\ g'.scroll = g.scroll + 0 /\ g'.quiet = FALSE
       /\ g'.damaged /\ (g.missed => g'.missed)
       /\ unseen \/ pc \notin {"idle", "direct"} => g'.missed
  <2>1. unseen \in BOOLEAN
    BY Numbers DEF ScraperInv, PositionInv
  <2> HIDE DEF unseen
  <2> QED BY <1>1, <2>1, RewrittenDoes
<1>17. AppSeen
  <2>1. pc = "direct" => s.directMode
    BY DEF ScraperInv, ModeFitsInfo
  <2>2. s.directMode \in BOOLEAN
    BY Numbers DEF ScraperInv, PositionInv
  <2>3. BufferHeight(con') = rows
    BY <1>8
  <2> QED BY <1>12, <2>1, <2>2, <2>3, Zenon DEF AppSeen
<1>13. BufferHeight(con') <= Tallest \/ BufferHeight(con') = BUFFER_LINE_COUNT
  BY <1>3, <1>8
<1>14. ~con.frozen /\ UNCHANGED <<s, pc, info>>
  BY <1>1
<1>15. g'.burst <= MaxBurst /\ con'.top + 0 <= con.top + (g'.burst - g.burst)
  <2>1. con'.top \in Nat
    BY <1>8, ConsoleFacts
  <2> QED BY <1>2, <1>11, <1>12, <2>1
<1>16. con' \in Consoles
  BY <1>8
<1> QED BY <1>9, <1>10, <1>11, <1>12, <1>13, <1>14, <1>15, <1>16, <1>17 DEF AppEffect

LEMMA AppStepDoes ==
  ASSUME HistoryFits, ScraperInv, PositionInv, g.scroll \in Nat, AppStep
  PROVE  \E k \in {0, 1} : AppEffect(k)
<1>1. CASE WriteLine
  BY <1>1, WriteLineDoes
<1>2. CASE Clear
  BY <1>2, ClearDoes
<1>3. CASE \E row \in Window(con) : MoveCursor(row)
  BY <1>3, MoveCursorDoes
<1>4. CASE \E row \in Window(con) : \E blank \in BOOLEAN : Edit(row, blank)
  BY <1>4, EditDoes
<1>5. CASE \E rows \in AppHeights \union {BUFFER_LINE_COUNT} : SetBufferHeight(rows)
  BY <1>5, SetBufferHeightDoes
<1> QED BY <1>1, <1>2, <1>3, <1>4, <1>5 DEF AppStep

----------------------------------------------------------------------------
(***************************************************************************)
(* The count.                                                              *)
(***************************************************************************)

\* While lines are counted the buffer has its full height.
HeightKept ==
  /\ pc \in TentativePhases => ~s.resizing
  /\ pc = "resize" => con.frozen
  /\ ~s.directMode =>
       /\ (pc # "idle" /\ ~g.damaged) \/ g.quiet => BufferHeight(con) = BUFFER_LINE_COUNT
       /\ pc = "frozen" /\ s.resizing =>
            \/ con.frozen /\ BufferHeight(con) = BUFFER_LINE_COUNT
            \/ s.syncRow = -1 /\ s.dirtyWindowTop = -1

\* A marker with another counter is newer than every one in the buffer.
Counters ==
  \A r \in DOMAIN con.buf : \A n \in Nat, j \in Nat :
    con.buf[r] = Marker(n, j) => n <= s.syncCounter

Sound == ~s.directMode /\ ~g.damaged /\ BufferHeight(con) = BUFFER_LINE_COUNT

\* Wherever the marker is found, it has moved by the lines not yet counted.
MarkerTells ==
  /\ s.syncRow = -1 => g.scroll = 0
  /\ s.syncRow # -1 =>
       \A i \in DOMAIN con.buf :
         MarkerColumn(s, con, i) => s.syncRow - i = g.scroll - s.scrolledCount

ScrollInv ==
  /\ g.scroll \in Nat /\ HeightKept /\ Counters
  /\ Sound => /\ MarkerTells
              /\ Settled \/ pc = "resize" => g.scroll = s.scrolledCount

LEMMA ColumnStarts ==
  ASSUME NEW u \in Scrapers, NEW c \in Consoles, NEW i \in Int, MarkerColumn(u, c, i)
  PROVE  \A j \in 0..(SYNC_MARKER_LEN - 1) :
           i + j \in DOMAIN c.buf /\ c.buf[i + j] = Marker(u.syncCounter, j)
<1> SUFFICES ASSUME NEW j \in 0..(SYNC_MARKER_LEN - 1)
             PROVE  i + j \in DOMAIN c.buf /\ c.buf[i + j] = Marker(u.syncCounter, j)
  OBVIOUS
<1>1. u.syncCounter \in Nat /\ j \in Nat
  BY ScraperFacts, Sizes
<1>2. At(c.buf, i + j, Garbage) = Marker(u.syncCounter, j)
  BY DEF MarkerColumn
<1>3. At(c.buf, i + j, Garbage) # Garbage
  BY <1>1, <1>2, MarkersDiffer
<1> QED BY <1>2, <1>3 DEF At

\* Where the markers have been kept, a column of one of them was one before.
LEMMA ColumnKept ==
  ASSUME ScraperInv, ScraperInv', NEW k \in {0, 1}, MarkersKept(con, con', k),
         s'.syncCounter = s.syncCounter, NEW i \in DOMAIN con'.buf, MarkerColumn(s', con', i)
  PROVE  i + k \in DOMAIN con.buf /\ MarkerColumn(s, con, i + k)
<1>1. /\ con \in Consoles /\ s \in Scrapers /\ con' \in Consoles /\ s' \in Scrapers
  BY DEF ScraperInv, ScraperTypes
<1>2. i \in Int /\ SYNC_MARKER_LEN \in Nat \ {0} /\ s.syncCounter \in Nat
  <2>1. DOMAIN con'.buf = 0..(BufferHeight(con') - 1)
    BY <1>1, ConsoleFacts
  <2> QED BY <1>1, <2>1, ScraperFacts, Sizes
<1>3. \A j \in 0..(SYNC_MARKER_LEN - 1) :
        i + j \in DOMAIN con'.buf /\ con'.buf[i + j] = Marker(s.syncCounter, j)
  <2> DEFINE d == con'
             u == s'
  <2>1. d \in Consoles /\ u \in Scrapers /\ MarkerColumn(u, d, i) /\ u.syncCounter = s.syncCounter
    BY <1>1
  <2> HIDE DEF d, u
  <2>2. \A j \in 0..(SYNC_MARKER_LEN - 1) :
          i + j \in DOMAIN d.buf /\ d.buf[i + j] = Marker(u.syncCounter, j)
    BY <1>2, <2>1, ColumnStarts
  <2>3. \A j \in 0..(SYNC_MARKER_LEN - 1) :
          i + j \in DOMAIN d.buf /\ d.buf[i + j] = Marker(s.syncCounter, j)
    BY <2>1, <2>2
  <2> QED BY <2>3 DEF d
<1>4. ASSUME NEW j \in 0..(SYNC_MARKER_LEN - 1)
      PROVE  (i + k) + j \in DOMAIN con.buf /\ con.buf[(i + k) + j] = Marker(s.syncCounter, j)
  <2>1. i + j \in DOMAIN con'.buf /\ con'.buf[i + j] = Marker(s.syncCounter, j)
    BY <1>3
  <2>2. j \in Nat /\ (i + j) + k = (i + k) + j
    BY <1>2
  <2>3. (i + j) + k \in DOMAIN con.buf /\ con.buf[(i + j) + k] = Marker(s.syncCounter, j)
    BY <1>2, <2>1, <2>2 DEF MarkersKept
  <2> QED BY <2>2, <2>3
<1>5. MarkerColumn(s, con, i + k)
  BY <1>4 DEF MarkerColumn, At
<1>6. i + k \in DOMAIN con.buf
  <2>1. 0 \in 0..(SYNC_MARKER_LEN - 1) /\ (i + k) + 0 = i + k
    BY <1>2
  <2> QED BY <1>4, <2>1
<1> QED BY <1>5, <1>6

\* A step after which the markers tell as much as before.
LEMMA MarkerStillTells ==
  ASSUME ScraperInv, ScraperInv', ScrollInv, NEW k \in {0, 1}, MarkersKept(con, con', k),
         s'.syncCounter = s.syncCounter, g'.scroll = g.scroll + k,
         Sound' => Sound,
         Sound' /\ s.syncRow = -1 => k = 0,
         s'.syncRow = -1 <=> s.syncRow = -1,
         s'.scrolledCount + s'.syncRow = s.scrolledCount + s.syncRow
  PROVE  g'.scroll \in Nat /\ Counters' /\ (Sound' => MarkerTells')
<1>1. /\ s \in Scrapers /\ s' \in Scrapers /\ g.scroll \in Nat /\ con \in Consoles
      /\ con' \in Consoles
  BY DEF ScraperInv, ScraperTypes, ScrollInv
<1>2. /\ s.syncRow \in Int /\ s.scrolledCount \in Int
      /\ s'.syncRow \in Int /\ s'.scrolledCount \in Int
  BY <1>1, ScraperFacts
<1>3. g'.scroll \in Nat
  BY <1>1
<1>4. Counters'
  BY DEF ScrollInv, Counters, MarkersKept
<1>5. ASSUME Sound' PROVE MarkerTells'
  <2>1. MarkerTells
    BY <1>5 DEF ScrollInv
  <2>2. CASE s.syncRow = -1
    BY <1>1, <1>5, <2>1, <2>2 DEF MarkerTells
  <2>3. CASE s.syncRow # -1
    <3> SUFFICES ASSUME NEW i \in DOMAIN con'.buf, MarkerColumn(s', con', i)
                 PROVE  s'.syncRow - i = g'.scroll - s'.scrolledCount
      BY <2>3 DEF MarkerTells
    <3>1. i + k \in DOMAIN con.buf /\ MarkerColumn(s, con, i + k)
      BY ColumnKept
    <3>2. s.syncRow - (i + k) = g.scroll - s.scrolledCount
      BY <2>1, <2>3, <3>1 DEF MarkerTells
    <3>3. i \in Int
      <4>1. DOMAIN con'.buf = 0..(BufferHeight(con') - 1)
        BY <1>1, ConsoleFacts
      <4> QED BY <4>1
    <3> DEFINE a == s'.scrolledCount
               b == s'.syncRow
               c == s.scrolledCount
               d == s.syncRow
               e == g.scroll
    <3>4. /\ a \in Int /\ b \in Int /\ c \in Int /\ d \in Int /\ e \in Int /\ k \in Int
          /\ a + b = c + d /\ d - (i + k) = e - c /\ g'.scroll = e + k
      BY <1>1, <1>2, <3>2
    <3> HIDE DEF a, b, c, d, e
    <3>5. b - i = g'.scroll - a
      BY <3>3, <3>4
    <3> QED BY <3>5 DEF a, b
  <2> QED BY <2>2, <2>3
<1> QED BY <1>3, <1>4, <1>5

\* A new marker is on one row only.
LEMMA MarkerIsNew ==
  ASSUME ScraperInv, ScraperInv', Counters, NEW row \in Int, DOMAIN con'.buf = DOMAIN con.buf,
         s'.syncCounter = s.syncCounter + 1,
         \A r \in DOMAIN con.buf :
           \/ /\ r \in row..(row + SYNC_MARKER_LEN - 1)
              /\ con'.buf[r] = Marker(s.syncCounter + 1, r - row)
           \/ con'.buf[r] \in {Blank, con.buf[r]}
  PROVE  /\ Counters'
         /\ \A i \in DOMAIN con'.buf : MarkerColumn(s', con', i) => i = row
<1>1. /\ s.syncCounter \in Nat /\ \A r \in DOMAIN con.buf : r \in Int
      /\ SYNC_MARKER_LEN \in Nat \ {0}
  <2>1. DOMAIN con.buf = 0..(BufferHeight(con) - 1)
    BY ConsoleFacts DEF ScraperInv, ScraperTypes
  <2> QED BY <2>1, ScraperFacts, Sizes DEF ScraperInv, ScraperTypes
<1>2. \A r \in DOMAIN con.buf : \A n \in Nat, j \in Nat :
        con'.buf[r] = Marker(n, j) =>
          \/ n = s.syncCounter + 1 /\ j = r - row
          \/ n <= s.syncCounter
  <2> SUFFICES ASSUME NEW r \in DOMAIN con.buf, NEW n \in Nat, NEW j \in Nat,
                      con'.buf[r] = Marker(n, j)
               PROVE  \/ n = s.syncCounter + 1 /\ j = r - row
                      \/ n <= s.syncCounter
    OBVIOUS
  <2>1. CASE /\ r \in row..(row + SYNC_MARKER_LEN - 1)
             /\ con'.buf[r] = Marker(s.syncCounter + 1, r - row)
    <3>1. r - row \in Nat /\ s.syncCounter + 1 \in Nat
      BY <1>1, <2>1
    <3>2. Marker(n, j) = Marker(s.syncCounter + 1, r - row)
      BY <2>1
    <3> QED BY <3>1, <3>2, MarkersDiffer
  <2>2. CASE con'.buf[r] \in {Blank, con.buf[r]}
    BY <2>2, MarkersDiffer DEF Counters
  <2> QED BY <2>1, <2>2
<1>3. Counters'
  BY <1>1, <1>2 DEF Counters
<1>4. ASSUME NEW i \in DOMAIN con'.buf, MarkerColumn(s', con', i)
      PROVE  i = row
  <2>1. i + 0 = i /\ 0 \in 0..(SYNC_MARKER_LEN - 1)
    BY <1>1
  <2>2. At(con'.buf, i + 0, Garbage) = Marker(s'.syncCounter, 0)
    BY <1>4, <2>1 DEF MarkerColumn
  <2>3. con'.buf[i] = Marker(s.syncCounter + 1, 0)
    BY <2>1, <2>2 DEF At
  <2>4. s.syncCounter + 1 \in Nat /\ ~(s.syncCounter + 1 <= s.syncCounter)
    BY <1>1
  <2>5. 0 = i - row
    BY <1>2, <2>3, <2>4
  <2> QED BY <1>1, <2>5
<1> QED BY <1>3, <1>4

\* Where the buffer has its full height, the marker is where it is found.
LEMMA MarkerRowTells ==
  ASSUME ScraperInv, BufferHeight(con) = BUFFER_LINE_COUNT, s.syncRow # -1,
         NEW row \in MarkerRows, row # -1
  PROVE  row \in DOMAIN con.buf /\ MarkerColumn(s, con, row)
<1> DEFINE found == {i \in 0..s.syncRow : MarkerColumn(s, con, i)}
<1>1. s \in Scrapers /\ con \in Consoles
  BY DEF ScraperInv, ScraperTypes
<1>2. s.syncRow \in Nat /\ ~(s.syncRow + SYNC_MARKER_LEN > BufferHeight(con))
  BY <1>1, ScraperFacts, Sizes
<1>3. row = IF found = {} THEN -1 ELSE Max(found)
  BY <1>2, Zenon DEF MarkerRows, findSyncMarker
<1>4. found # {} /\ row = Max(found)
  BY <1>3
<1>5. found \in SUBSET (0..s.syncRow)
  OBVIOUS
<1>6. row \in found
  <2> HIDE DEF found
  <2> QED BY <1>2, <1>4, <1>5, MaxOfBounded
<1>7. row \in 0..s.syncRow
  BY <1>6
<1>8. DOMAIN con.buf = 0..(BUFFER_LINE_COUNT - 1)
  BY <1>1, ConsoleFacts
<1>9. row \in DOMAIN con.buf
  BY <1>2, <1>7, <1>8, Sizes
<1> QED BY <1>6, <1>9

LEMMA InitScroll ==
  ASSUME ScraperInit
  PROVE  ScrollInv
<1>1. con.buf = [r \in 0..(BUFFER_LINE_COUNT - 1) |-> Blank] /\ pc = "idle"
      /\ g.scroll = 0 /\ g.quiet = FALSE
  BY DEF ScraperInit
<1>2. s.syncRow = -1
  BY DEF ScraperInit, NewTracking
<1>3. Counters
  BY <1>1, MarkersDiffer DEF Counters
<1>4. HeightKept
  BY <1>1 DEF HeightKept, TentativePhases, ScraperInit
<1>5. MarkerTells
  BY <1>1, <1>2 DEF MarkerTells
<1> QED BY <1>1, <1>3, <1>4, <1>5 DEF ScrollInv, Settled

----------------------------------------------------------------------------
(***************************************************************************)
(* How the steps of a scrape keep the count.                               *)
(***************************************************************************)

LEMMA BufKept ==
  ASSUME con \in Consoles, NEW d, d.buf = con.buf
  PROVE  MarkersKept(con, d, 0)
<1>1. \A r \in DOMAIN d.buf : d.buf[r] = At(con.buf, r, Blank)
  BY DEF At
<1> QED BY <1>1, MarkersKeptByRows

LEMMA ReadInfoScroll ==
  ASSUME ScraperInv, ScraperInv', ScrollInv, ReadInfo
  PROVE  ScrollInv'
<1>1. PICK direct \in BOOLEAN, switch \in BOOLEAN :
         /\ direct = (BufferHeight(con) # BUFFER_LINE_COUNT) /\ switch = (direct # s.directMode)
         /\ pc = "idle"
         /\ con'.buf = con.buf /\ BufferHeight(con') = BufferHeight(con)
         /\ con'.frozen = (~s.isNewW10 \/ s.resizing)
         /\ pc' = (IF direct THEN IF s.resizing THEN "resize" ELSE "direct"
                   ELSE IF con'.frozen \/ switch THEN "frozen" ELSE "tentative")
         /\ s'.directMode = direct /\ s'.resizing = (s.resizing \/ (switch /\ ~direct))
         /\ s'.syncCounter = s.syncCounter
         /\ IF switch
            THEN /\ s'.syncRow = -1 /\ s'.dirtyWindowTop = -1 /\ s'.scrolledCount = 0
                 /\ s'.dirtyLineCount = 0
            ELSE /\ s'.syncRow = s.syncRow /\ s'.dirtyWindowTop = s.dirtyWindowTop
                 /\ s'.scrolledCount = s.scrolledCount /\ s'.dirtyLineCount = s.dirtyLineCount
         /\ IF switch THEN g'.scroll = 0 /\ g'.damaged = FALSE
            ELSE g'.scroll = g.scroll /\ g'.damaged = g.damaged
  BY ReadInfoDoes
<1>2. /\ s \in Scrapers /\ con \in Consoles /\ s.resizing \in BOOLEAN /\ s.isNewW10 \in BOOLEAN
  BY ScraperFacts DEF ScraperInv, ScraperTypes, Scrapers
<1>3. ~direct => BufferHeight(con) = BUFFER_LINE_COUNT
  BY <1>1, Zenon
<1>4. s.resizing => con'.frozen
  BY <1>1, Zenon
<1>5. HeightKept'
  <2>1. pc' = "tentative" => ~s'.resizing
    <3> SUFFICES ASSUME pc' = "tentative" PROVE ~s'.resizing
      OBVIOUS
    <3>1. ~con'.frozen /\ ~switch
      BY <1>1
    <3>2. ~s.resizing
      BY <1>4, <3>1
    <3> QED BY <1>1, <3>1, <3>2, Zenon
  <2>2. pc' = "resize" => con'.frozen
    BY <1>1, <1>4
  <2>3. pc' = "frozen" /\ s'.resizing => con'.frozen \/ (s'.syncRow = -1 /\ s'.dirtyWindowTop = -1)
    <3>1. switch => s'.syncRow = -1 /\ s'.dirtyWindowTop = -1
      BY <1>1
    <3>2. s'.resizing => s.resizing \/ switch
      BY <1>1, Zenon
    <3> QED BY <1>4, <3>1, <3>2
  <2>4. pc' \notin {"read", "check", "checkMarker"}
    BY <1>1
  <2>5. ~s'.directMode => BufferHeight(con') = BUFFER_LINE_COUNT
    BY <1>1, <1>3
  <2> QED BY <2>1, <2>2, <2>3, <2>4, <2>5 DEF HeightKept, TentativePhases
<1>6. MarkersKept(con, con', 0)
  BY <1>1, <1>2, BufKept
<1>7. Counters'
  BY <1>1, <1>6 DEF ScrollInv, Counters, MarkersKept
<1>8. Sound' => ~direct /\ pc' \in {"frozen", "tentative"}
  BY <1>1 DEF Sound
<1>9. CASE switch
  BY <1>1, <1>5, <1>7, <1>8, <1>9 DEF ScrollInv, MarkerTells, Settled
<1>10. CASE ~switch
  <2>1. s'.directMode <=> s.directMode
    BY <1>1, <1>10, Zenon
  <2>2. Sound' => Sound
    BY <1>1, <1>10, <2>1 DEF Sound
  <2>3. g'.scroll = g.scroll + 0
    BY <1>1, <1>10 DEF ScrollInv
  <2>4. g'.scroll \in Nat /\ (Sound' => MarkerTells')
    BY <1>1, <1>6, <1>10, <2>2, <2>3, MarkerStillTells
  <2> QED BY <1>5, <1>7, <1>8, <2>4 DEF ScrollInv, Settled
<1> QED BY <1>9, <1>10

LEMMA TentativeDoes ==
  ASSUME ScraperInv, Tentative
  PROVE  /\ pc = "tentative" /\ pc' \in {"frozen", "read"} /\ UNCHANGED <<con, info, g>>
         /\ SameFlags(s, s') /\ s'.syncCounter = s.syncCounter
         /\ s'.syncRow = -1 <=> s.syncRow = -1
         /\ s'.scrolledCount + s'.syncRow = s.scrolledCount + s.syncRow
<1>1. /\ s \in Scrapers /\ pc = "tentative" /\ ~s.directMode /\ info \in ScrollingInfos
  BY DEF ScraperInv, ScraperTypes, ModeFitsInfo, Tentative, TentativePhases, ScrollingInfos
<1>2. UNCHANGED <<con, info, g>>
  BY DEF Tentative, Bail
<1>3. PICK row \in MarkerRows :
        LET gone == s.syncRow # -1 /\ row = -1
            u == MarkerFound(s, info, row)
        IN \/ gone /\ s' = s /\ pc' = "frozen"
           \/ ~gone /\ s' = u /\ pc' = "frozen"
           \/ ~gone /\ s' = ReadPrepared(u, info) /\ pc' = "read"
  BY DEF Tentative, Bail
<1> DEFINE gone == s.syncRow # -1 /\ row = -1
           u == MarkerFound(s, info, row)
           w == ReadPrepared(u, info)
<1>4. row \in -1..s.syncRow /\ s.syncRow \in Int /\ s.scrolledCount \in Int
  BY <1>1, MarkerRowFound, ScraperFacts
<1>5. ~gone => /\ u \in Scrapers /\ SameFlags(s, u) /\ u.syncCounter = s.syncCounter
               /\ u.syncRow = row /\ u.scrolledCount = s.scrolledCount + (s.syncRow - row)
  <2>1. ~gone => (row = -1 => s.syncRow = -1)
    OBVIOUS
  <2> QED BY <1>1, <1>4, <2>1, MarkerFollowed
<1> HIDE DEF u
<1>6. u \in Scrapers => /\ SameFlags(u, w) /\ w.syncRow = u.syncRow
                        /\ w.scrolledCount = u.scrolledCount /\ w.syncCounter = u.syncCounter
  BY <1>1, ReadIsPrepared
<1> HIDE DEF w
<1>7. ~gone => /\ u.syncRow = -1 <=> s.syncRow = -1
               /\ u.scrolledCount + u.syncRow = s.scrolledCount + s.syncRow
  BY <1>4, <1>5
<1>8. \/ s' = s /\ pc' = "frozen"
      \/ ~gone /\ s' = u /\ pc' = "frozen"
      \/ ~gone /\ s' = w /\ pc' = "read"
  BY <1>3 DEF u, w
<1> HIDE DEF gone
<1>9. CASE s' = s /\ pc' = "frozen"
  BY <1>1, <1>2, <1>9 DEF SameFlags
<1>10. CASE ~gone /\ s' = u /\ pc' = "frozen"
  BY <1>1, <1>2, <1>5, <1>7, <1>10
<1>11. CASE ~gone /\ s' = w /\ pc' = "read"
  BY <1>1, <1>2, <1>5, <1>6, <1>7, <1>11 DEF SameFlags
<1> QED BY <1>8, <1>9, <1>10, <1>11

\* A scrape of a console that is not frozen: only its end counts the lines.
LEMMA TentativeScroll ==
  ASSUME ScraperInv, ScraperInv', ScrollInv, UNCHANGED <<con, g>>,
         pc \in TentativePhases, pc' \in TentativePhases \union {"frozen", "idle"},
         SameFlags(s, s'), s'.syncCounter = s.syncCounter,
         s'.syncRow = -1 <=> s.syncRow = -1,
         s'.scrolledCount + s'.syncRow = s.scrolledCount + s.syncRow,
         Sound /\ pc' = "idle" => g.scroll = s'.scrolledCount
  PROVE  ScrollInv'
<1>1. con \in Consoles /\ con' = con /\ g' = g /\ BufferHeight(con') = BufferHeight(con)
  BY DEF ScraperInv, ScraperTypes
<1>2. MarkersKept(con, con', 0)
  BY <1>1, BufKept
<1>3. s'.directMode = s.directMode /\ s'.resizing = s.resizing
  BY DEF SameFlags
<1>4. Sound' => Sound
  BY <1>1, <1>3 DEF Sound
<1>5. g'.scroll = g.scroll + 0
  BY <1>1 DEF ScrollInv
<1>6. g'.scroll \in Nat /\ Counters' /\ (Sound' => MarkerTells')
  BY <1>2, <1>4, <1>5, MarkerStillTells
<1>7. HeightKept'
  BY <1>1, <1>3 DEF ScrollInv, HeightKept, TentativePhases
<1>8. Sound' => (Settled' \/ pc' = "resize" => g'.scroll = s'.scrolledCount)
  BY <1>1, <1>4 DEF Settled, TentativePhases
<1> QED BY <1>6, <1>7, <1>8 DEF ScrollInv

LEMMA TentativeStepsScroll ==
  ASSUME ScraperInv, ScraperInv', PositionInv, ScrollInv,
         Tentative \/ ReadContent \/ CheckInfo \/ CheckMarker
  PROVE  ScrollInv'
<1>1. CASE Tentative
  <2>1. /\ pc = "tentative" /\ pc' \in {"frozen", "read"} /\ UNCHANGED <<con, info, g>>
        /\ SameFlags(s, s') /\ s'.syncCounter = s.syncCounter
        /\ s'.syncRow = -1 <=> s.syncRow = -1
        /\ s'.scrolledCount + s'.syncRow = s.scrolledCount + s.syncRow
    BY <1>1, TentativeDoes
  <2>2. pc \in TentativePhases /\ pc' \in TentativePhases \union {"frozen", "idle"} /\ pc' # "idle"
    BY <2>1 DEF TentativePhases
  <2> QED BY <2>1, <2>2, TentativeScroll
<1>2. CASE ReadContent \/ CheckInfo
  <2>1. /\ pc \in {"read", "check"} /\ pc' \in {"check", "checkMarker", "frozen"}
        /\ UNCHANGED <<con, s, g>>
    BY <1>2 DEF ReadContent, CheckInfo, Bail
  <2>2. /\ pc \in TentativePhases /\ pc' \in TentativePhases \union {"frozen", "idle"} /\ pc' # "idle"
        /\ SameFlags(s, s')
    BY <2>1 DEF TentativePhases, SameFlags
  <2> QED BY <2>1, <2>2, TentativeScroll
<1>3. CASE CheckMarker
  <2>1. /\ pc = "checkMarker" /\ UNCHANGED <<con, info, g>> /\ SameFlags(s, s')
        /\ s'.syncRow = s.syncRow
        /\ s'.scrolledCount = s.scrolledCount /\ s'.syncCounter = s.syncCounter
        /\ pc' = "frozen" \/ (pc' = "idle" /\ s.syncRow \in MarkerRows)
    BY <1>3, CheckMarkerDoes
  <2>2. pc \in TentativePhases /\ pc' \in TentativePhases \union {"frozen", "idle"}
    BY <2>1 DEF TentativePhases
  <2>3. ASSUME Sound, pc' = "idle" PROVE g.scroll = s.scrolledCount
    <3>1. MarkerTells /\ s.syncRow \in MarkerRows /\ BufferHeight(con) = BUFFER_LINE_COUNT
      BY <2>1, <2>3 DEF ScrollInv, Sound
    <3>2. CASE s.syncRow = -1
      BY <3>1, <3>2 DEF MarkerTells, PositionInv, UnmarkedHigh
    <3>3. CASE s.syncRow # -1
      <4>1. s.syncRow \in DOMAIN con.buf /\ MarkerColumn(s, con, s.syncRow)
        BY <3>1, <3>3, MarkerRowTells
      <4>2. s.syncRow - s.syncRow = g.scroll - s.scrolledCount
        BY <3>1, <3>3, <4>1 DEF MarkerTells
      <4>3. s.syncRow \in Int /\ s.scrolledCount \in Int /\ g.scroll \in Int
        BY ScraperFacts DEF ScraperInv, ScraperTypes, ScrollInv
      <4> QED BY <4>2, <4>3
    <3> QED BY <3>2, <3>3
  <2> QED BY <2>1, <2>2, <2>3, TentativeScroll
<1> QED BY <1>1, <1>2, <1>3

LEMMA FreezeScroll ==
  ASSUME ScraperInv, ScraperInv', ScrollInv, Freeze
  PROVE  ScrollInv'
<1>1. /\ con \in Consoles /\ con' = [con EXCEPT !.frozen = TRUE] /\ pc = "frozen"
      /\ UNCHANGED <<s, pc, g>>
  BY DEF ScraperInv, ScraperTypes, Freeze
<1>2. con'.buf = con.buf /\ con'.frozen /\ BufferHeight(con') = BufferHeight(con)
  BY <1>1, FrozenSet
<1>3. MarkersKept(con, con', 0)
  BY <1>1, <1>2, BufKept
<1>4. Sound' => Sound
  BY <1>1, <1>2 DEF Sound
<1>5. g'.scroll = g.scroll + 0
  BY <1>1 DEF ScrollInv
<1>6. g'.scroll \in Nat /\ Counters' /\ (Sound' => MarkerTells')
  BY <1>1, <1>3, <1>4, <1>5, MarkerStillTells
<1>7. HeightKept'
  BY <1>1, <1>2 DEF ScrollInv, HeightKept
<1> QED BY <1>1, <1>6, <1>7 DEF ScrollInv, Settled

LEMMA FrozenScrapeScroll ==
  ASSUME HistoryFits, ScraperInv, ScraperInv', PositionInv, ScrollInv, FrozenScrape
  PROVE  ScrollInv'
<1>1. PICK row \in MarkerRows, create \in BOOLEAN, anew \in BOOLEAN :
        FrozenEffect(row, create, anew)
  BY FrozenScrapeDoes
<1> DEFINE n == newSyncRow(info)
<1>2. /\ pc = "frozen" /\ ~s.directMode /\ con.frozen /\ info \in ScrollingInfos
      /\ row \in -1..s.syncRow
      /\ s.syncRow # -1 /\ row = -1 => anew
      /\ anew => \/ s.syncRow # -1 /\ row = -1
                 \/ info.top < s.dirtyWindowTop /\ s.dirtyWindowTop # -1
      /\ pc' = (IF s.resizing THEN "resize" ELSE "idle")
      /\ SameFlags(s, s')
      /\ s'.syncRow = IF create THEN n ELSE IF anew THEN -1 ELSE row
      /\ s'.scrolledCount = IF anew THEN 0 ELSE s.scrolledCount + (s.syncRow - row)
      /\ s'.syncCounter = IF create THEN s.syncCounter + 1 ELSE s.syncCounter
      /\ con'.frozen = s.resizing /\ BufferHeight(con') = BufferHeight(con)
      /\ DOMAIN con'.buf = DOMAIN con.buf
      /\ g'.quiet = g.quiet
      /\ IF anew THEN g'.scroll = 0
         ELSE g'.scroll = g.scroll /\ (g.damaged => g'.damaged)
  BY <1>1 DEF FrozenEffect
<1>3. IF create
      THEN \A r \in DOMAIN con.buf :
             \/ /\ r \in n..(n + SYNC_MARKER_LEN - 1)
                /\ con'.buf[r] = Marker(s.syncCounter + 1, r - n)
             \/ con'.buf[r] \in {Blank, con.buf[r]}
      ELSE con'.buf = con.buf
  BY <1>1 DEF FrozenEffect
<1>4. create => n >= row + SYNC_MARKER_LEN + SYNC_MARKER_MARGIN
  BY <1>1 DEF FrozenEffect
<1>5. /\ con \in Consoles /\ s \in Scrapers /\ s.resizing \in BOOLEAN
      /\ s.syncRow \in Int /\ s.syncRow >= -1 /\ s.scrolledCount \in Int /\ g.scroll \in Nat
      /\ row \in Int /\ row >= -1 /\ s' \in Scrapers /\ s'.syncRow \in Int
  BY <1>2, ScraperFacts DEF ScraperInv, ScraperTypes, ScrollInv
<1>6. n \in Int /\ (create => n # -1)
  <2>1. n \in Int
    BY <1>2, InfoFacts, Sizes DEF newSyncRow
  <2> HIDE DEF n
  <2> QED BY <1>4, <1>5, <2>1, Sizes
<1> HIDE DEF n
<1>7. s'.directMode = s.directMode /\ s'.resizing = s.resizing
  BY <1>2 DEF SameFlags
<1>8. HeightKept'
  <2>1. pc' = "resize" => s.resizing
    BY <1>2
  <2>2. ASSUME s.resizing, ~g'.damaged
        PROVE  BufferHeight(con) = BUFFER_LINE_COUNT
    <3>1. \/ BufferHeight(con) = BUFFER_LINE_COUNT
          \/ s.syncRow = -1 /\ s.dirtyWindowTop = -1
      BY <1>2, <2>2 DEF ScrollInv, HeightKept
    <3>2. CASE s.syncRow = -1 /\ s.dirtyWindowTop = -1
      <4>1. ~anew
        BY <1>2, <3>2
      <4>2. ~g.damaged
        BY <1>2, <2>2, <4>1
      <4> QED BY <1>2, <4>2 DEF ScrollInv, HeightKept
    <3> QED BY <3>1, <3>2
  <2>3. g.quiet => BufferHeight(con) = BUFFER_LINE_COUNT
    BY <1>2 DEF ScrollInv, HeightKept
  <2> QED BY <1>2, <1>5, <2>1, <2>2, <2>3 DEF HeightKept, TentativePhases
<1>9. g'.scroll \in Nat
  BY <1>2, <1>5
\* What the scrape counts.
<1>10. ASSUME Sound' PROVE g'.scroll = s'.scrolledCount
  <2>1. BufferHeight(con) = BUFFER_LINE_COUNT /\ ~g'.damaged
    BY <1>2, <1>10 DEF Sound
  <2>2. CASE anew
    BY <1>2, <2>2
  <2>3. CASE ~anew
    <3>1. MarkerTells
      BY <1>2, <2>1, <2>3 DEF ScrollInv, Sound
    <3>2. CASE s.syncRow = -1
      <4>1. g.scroll = 0 /\ s.scrolledCount = 0 /\ row = -1
        BY <1>2, <1>5, <3>1, <3>2 DEF MarkerTells, PositionInv, UnmarkedHigh
      <4> QED BY <1>2, <2>3, <3>2, <4>1
    <3>3. CASE s.syncRow # -1
      <4>1. row # -1
        BY <1>2, <2>3, <3>3
      <4>2. s.syncRow - row = g.scroll - s.scrolledCount
        BY <2>1, <3>1, <3>3, <4>1, MarkerRowTells DEF MarkerTells
      <4> QED BY <1>2, <1>5, <2>3, <4>2
    <3> QED BY <3>2, <3>3
  <2> QED BY <2>2, <2>3
<1>11. Counters' /\ (Sound' => MarkerTells')
  <2>1. CASE create
    <3>1. s'.syncCounter = s.syncCounter + 1 /\ s'.syncRow = n /\ n # -1
      BY <1>2, <1>6, <2>1
    <3>2. \A r \in DOMAIN con.buf :
             \/ /\ r \in n..(n + SYNC_MARKER_LEN - 1)
                /\ con'.buf[r] = Marker(s.syncCounter + 1, r - n)
             \/ con'.buf[r] \in {Blank, con.buf[r]}
      BY <1>3, <2>1
    <3>3. Counters
      BY DEF ScrollInv
    <3>4. Counters' /\ \A i \in DOMAIN con'.buf : MarkerColumn(s', con', i) => i = n
      BY <1>2, <1>6, <3>1, <3>2, <3>3, MarkerIsNew
    <3>5. ASSUME Sound', NEW i \in DOMAIN con'.buf, MarkerColumn(s', con', i)
          PROVE  s'.syncRow - i = g'.scroll - s'.scrolledCount
      <4>1. i = s'.syncRow /\ g'.scroll = s'.scrolledCount
        BY <1>10, <3>1, <3>4, <3>5
      <4> QED BY <1>5, <1>9, <4>1
    <3> QED BY <3>1, <3>4, <3>5 DEF MarkerTells
  <2>2. CASE ~create /\ anew
    <3>1. MarkersKept(con, con', 0)
      BY <1>3, <1>5, <2>2, BufKept
    <3>2. s'.syncRow = -1 /\ g'.scroll = 0 /\ s'.syncCounter = s.syncCounter
      BY <1>2, <2>2
    <3>3. Counters'
      BY <3>1, <3>2 DEF ScrollInv, Counters, MarkersKept
    <3> QED BY <3>2, <3>3 DEF MarkerTells
  <2>3. CASE ~create /\ ~anew
    <3>1. MarkersKept(con, con', 0)
      BY <1>3, <1>5, <2>3, BufKept
    <3>2. /\ s'.syncRow = row /\ g'.scroll = g.scroll + 0 /\ s'.syncCounter = s.syncCounter
          /\ s'.syncRow = -1 <=> s.syncRow = -1
          /\ s'.scrolledCount + s'.syncRow = s.scrolledCount + s.syncRow
      BY <1>2, <1>5, <2>3
    <3>3. Sound' => Sound
      BY <1>2, <1>7, <2>3 DEF Sound
    <3> QED BY <3>1, <3>2, <3>3, MarkerStillTells
  <2> QED BY <2>1, <2>2, <2>3
<1> QED BY <1>8, <1>9, <1>10, <1>11 DEF ScrollInv

LEMMA DirectScrapeScroll ==
  ASSUME ScraperInv, ScraperInv', ScrollInv, DirectScrape
  PROVE  ScrollInv'
<1>1. /\ pc = "direct" /\ s.directMode /\ SamePosition(s, s') /\ pc' = "idle" /\ UNCHANGED g
      /\ con'.buf = con.buf
  BY DirectScrapeDoes
<1>2. s'.directMode /\ s'.syncCounter = s.syncCounter
  BY <1>1 DEF SamePosition
<1>3. HeightKept' /\ ~Sound'
  BY <1>1, <1>2 DEF HeightKept, Sound, TentativePhases
<1>4. Counters'
  BY <1>1, <1>2 DEF ScrollInv, Counters
<1> QED BY <1>1, <1>3, <1>4 DEF ScrollInv

LEMMA ClearHistoryScroll ==
  ASSUME ScraperInv, ScraperInv', ScrollInv, ClearHistory
  PROVE  ScrollInv'
<1>1. /\ pc = "resize" /\ pc' = "shrinkWindow"
      /\ SameFlags(s, s') /\ s'.scrolledCount = s.scrolledCount
      /\ BufferHeight(con') = BufferHeight(con) /\ DOMAIN con'.buf = DOMAIN con.buf
      /\ g'.scroll = g.scroll /\ (g.damaged => g'.damaged)
      /\ IF s.directMode
         THEN /\ con'.buf = con.buf /\ s'.syncRow = s.syncRow
              /\ s'.syncCounter = s.syncCounter /\ g'.quiet = g.quiet
         ELSE \E row \in Int : ClearedEffect(row)
  BY ClearHistoryDoes
<1>2. /\ s'.directMode = s.directMode /\ con \in Consoles
      /\ g.scroll \in Nat /\ s.scrolledCount \in Int /\ s.syncRow \in Int
  BY <1>1, ScraperFacts DEF SameFlags, ScraperInv, ScraperTypes, ScrollInv
<1>3. CASE s.directMode
  <2>1. HeightKept' /\ ~Sound'
    BY <1>1, <1>2, <1>3 DEF HeightKept, Sound, TentativePhases
  <2>2. Counters'
    BY <1>1, <1>3 DEF ScrollInv, Counters
  <2> QED BY <1>1, <1>2, <2>1, <2>2 DEF ScrollInv
<1>4. CASE ~s.directMode
  <2>1. PICK row \in Int : ClearedEffect(row)
    BY <1>1, <1>4
  <2>2. /\ row >= -1 /\ (row = -1 <=> s.syncRow = -1)
        /\ s'.syncRow = row
        /\ s'.syncCounter = IF row = -1 THEN s.syncCounter ELSE s.syncCounter + 1
        /\ g'.quiet = FALSE
        /\ \A r \in DOMAIN con.buf :
             \/ /\ row # -1 /\ r \in row..(row + SYNC_MARKER_LEN - 1)
                /\ con'.buf[r] = Marker(s.syncCounter + 1, r - row)
             \/ con'.buf[r] \in {Blank, con.buf[r]}
    BY <2>1 DEF ClearedEffect
  <2>3. HeightKept'
    BY <1>1, <1>2, <2>2 DEF ScrollInv, HeightKept, TentativePhases
  <2>4. Sound' => Sound
    BY <1>1, <1>2 DEF Sound
  <2>5. Counters' /\ (Sound' => MarkerTells')
    <3>1. CASE row = -1
      <4>1. \A r \in DOMAIN con'.buf : con'.buf[r] = At(con.buf, r, Blank) \/ con'.buf[r] = Blank
        BY <1>1, <2>2, <3>1 DEF At
      <4>2. MarkersKept(con, con', 0)
        BY <1>2, <4>1, MarkersKeptByRows
      <4>3. /\ s'.syncCounter = s.syncCounter /\ g'.scroll = g.scroll + 0
            /\ s'.syncRow = -1 <=> s.syncRow = -1
            /\ s'.scrolledCount + s'.syncRow = s.scrolledCount + s.syncRow
        BY <1>1, <1>2, <2>2, <3>1
      <4> QED BY <2>4, <4>2, <4>3, MarkerStillTells
    <3>2. CASE row # -1
      <4>1. /\ s'.syncCounter = s.syncCounter + 1
            /\ \A r \in DOMAIN con.buf :
                 \/ /\ r \in row..(row + SYNC_MARKER_LEN - 1)
                    /\ con'.buf[r] = Marker(s.syncCounter + 1, r - row)
                 \/ con'.buf[r] \in {Blank, con.buf[r]}
        BY <2>2, <3>2
      <4>2. Counters
        BY DEF ScrollInv
      <4>3. Counters' /\ \A i \in DOMAIN con'.buf : MarkerColumn(s', con', i) => i = row
        BY <1>1, <4>1, <4>2, MarkerIsNew
      <4>4. ASSUME Sound', NEW i \in DOMAIN con'.buf, MarkerColumn(s', con', i)
            PROVE  s'.syncRow - i = g'.scroll - s'.scrolledCount
        <5>1. g.scroll = s.scrolledCount
          BY <1>1, <2>4, <4>4 DEF ScrollInv
        <5>2. i = row
          BY <4>3, <4>4
        <5> QED BY <1>1, <1>2, <2>2, <5>1, <5>2
      <4> QED BY <2>2, <3>2, <4>3, <4>4 DEF MarkerTells
    <3> QED BY <3>1, <3>2
  <2> QED BY <1>1, <1>2, <2>2, <2>3, <2>5 DEF ScrollInv, Settled
<1> QED BY <1>3, <1>4

----------------------------------------------------------------------------
(***************************************************************************)
(* How the steps of a resize and the application's keep the count.         *)
(***************************************************************************)

LEMMA ShrinkWindowScroll ==
  ASSUME ScraperInv, ScraperInv', PositionInv, ScrollInv, ShrinkWindow
  PROVE  ScrollInv'
<1>0. con.cur \in Window(con)
  BY DEF PositionInv, HeightsOK
<1>1. /\ con \in Consoles /\ pc = "shrinkWindow" /\ pc' = "resizeBuffer" /\ UNCHANGED <<s, info, g>>
      /\ con'.buf = con.buf /\ BufferHeight(con') = BufferHeight(con)
  BY <1>0, ShrinkWindowDoes DEF ScraperInv, ScraperTypes
<1>2. g.scroll \in Nat /\ s.syncRow \in Int /\ s.scrolledCount \in Int
  BY Numbers DEF ScraperInv, PositionInv, ScrollInv
<1>7. MarkersKept(con, con', 0)
  BY <1>1, BufKept
<1>8. HeightKept'
  BY <1>1 DEF ScrollInv, HeightKept, TentativePhases
<1>9. g'.scroll \in Nat /\ Counters' /\ (Sound' => MarkerTells')
  <2>1. Sound' => Sound
    BY <1>1 DEF Sound
  <2>2. /\ s'.syncCounter = s.syncCounter /\ g'.scroll = g.scroll + 0
        /\ s'.syncRow = -1 <=> s.syncRow = -1
        /\ s'.scrolledCount + s'.syncRow = s.scrolledCount + s.syncRow
    BY <1>1, <1>2
  <2> QED BY <1>7, <2>1, <2>2, MarkerStillTells
<1> QED BY <1>1, <1>8, <1>9 DEF ScrollInv, Settled

LEMMA ResizeBufferScroll ==
  ASSUME ScraperInv, ScraperInv', PositionInv, ScrollInv, ResizeBuffer
  PROVE  ScrollInv'
<1>1. con.height <= s.ptyRows /\ pc = "resizeBuffer"
  BY DEF PositionInv, NotFarDown, ResizeBuffer
<1>2. PICK height \in Nat \ {0} :
        /\ IF s.directMode THEN TRUE ELSE height = BUFFER_LINE_COUNT
        /\ pc' = "expandWindow" /\ UNCHANGED <<s, info, g>>
        /\ BufferHeight(con') = height
        /\ con'.buf = [r \in 0..(height - 1) |-> At(con.buf, r, Blank)]
  BY <1>1, ResizeBufferDoes
<1>3. /\ con \in Consoles /\ g.scroll \in Nat /\ s.syncRow \in Int /\ s.scrolledCount \in Int
  BY Numbers DEF ScraperInv, ScraperTypes, PositionInv, ScrollInv
<1>4. ~s.directMode => BufferHeight(con') = BUFFER_LINE_COUNT
  BY <1>2
<1>5. MarkersKept(con, con', 0)
  <2>1. \A r \in DOMAIN con'.buf : con'.buf[r] = At(con.buf, r, Blank)
    BY <1>2
  <2> QED BY <1>3, <2>1, MarkersKeptByRows
<1>6. HeightKept'
  BY <1>2, <1>4 DEF HeightKept, TentativePhases
<1>7. Sound' => Sound
  BY <1>1, <1>2 DEF Sound, ScrollInv, HeightKept
<1>8. g'.scroll \in Nat /\ Counters' /\ (Sound' => MarkerTells')
  <2>1. /\ s'.syncCounter = s.syncCounter /\ g'.scroll = g.scroll + 0
        /\ s'.syncRow = -1 <=> s.syncRow = -1
        /\ s'.scrolledCount + s'.syncRow = s.scrolledCount + s.syncRow
    BY <1>2, <1>3
  <2> QED BY <1>5, <1>7, <2>1, MarkerStillTells
<1> QED BY <1>2, <1>6, <1>8 DEF ScrollInv, Settled

LEMMA ExpandWindowScroll ==
  ASSUME ScraperInv, ScraperInv', PositionInv, ScrollInv, ExpandWindow
  PROVE  ScrollInv'
<1>0. con.cur \in Window(con)
  BY DEF PositionInv, HeightsOK
<1>1. /\ pc = "expandWindow" /\ pc' = IF s.directMode THEN "direct" ELSE "idle"
      /\ con'.buf = con.buf /\ BufferHeight(con') = BufferHeight(con)
      /\ s'.directMode = s.directMode /\ s'.syncRow = s.syncRow
      /\ s'.syncCounter = s.syncCounter /\ s'.scrolledCount = s.scrolledCount
      /\ s'.resizing = FALSE
      /\ g'.scroll = g.scroll /\ g'.damaged = g.damaged /\ g'.quiet = FALSE
  BY <1>0, ExpandWindowDoes
<1>2. con \in Consoles /\ g.scroll \in Nat /\ s.syncRow \in Int /\ s.scrolledCount \in Int
  BY Numbers DEF ScraperInv, ScraperTypes, PositionInv, ScrollInv
<1>3. MarkersKept(con, con', 0)
  BY <1>1, <1>2, BufKept
<1>4. HeightKept'
  <2>1. pc' # "resize" /\ pc' # "frozen" /\ pc' \notin TentativePhases
    BY <1>1 DEF TentativePhases
  <2>2. ~s'.directMode => pc' = "idle"
    BY <1>1
  <2> QED BY <1>1, <2>1, <2>2 DEF HeightKept
<1>5. g'.scroll \in Nat /\ Counters' /\ (Sound' => MarkerTells')
  <2>1. Sound' => Sound
    BY <1>1 DEF Sound
  <2>2. /\ s'.syncCounter = s.syncCounter /\ g'.scroll = g.scroll + 0
        /\ s'.syncRow = -1 <=> s.syncRow = -1
        /\ s'.scrolledCount + s'.syncRow = s.scrolledCount + s.syncRow
    BY <1>1, <1>2
  <2> QED BY <1>3, <2>1, <2>2, MarkerStillTells
<1>6. ~Settled' /\ pc' # "resize"
  BY <1>1 DEF Settled
<1> QED BY <1>4, <1>5, <1>6 DEF ScrollInv

LEMMA ResizeWindowScroll ==
  ASSUME ScraperInv, ScraperInv', PositionInv, ScrollInv, NEW rows \in Rows, resizeWindow(rows)
  PROVE  ScrollInv'
<1> DEFINE h == [g EXCEPT !.odd = @ + 1]
<1>1. s \in Scrapers /\ DOMAIN g = HistoryFields
  BY DEF ScraperInv, ScraperTypes
<1>2. /\ pc = "idle" /\ UNCHANGED <<con, t, pc, info, read>>
      /\ s' = [s EXCEPT !.ptyRows = rows, !.resizing = TRUE] /\ g' = h
  BY DEF resizeWindow
<1>3. g'.scroll = g.scroll /\ g'.damaged = g.damaged /\ g'.quiet = g.quiet
  BY <1>1, <1>2 DEF HistoryFields
<1>4. /\ s'.directMode = s.directMode /\ s'.syncRow = s.syncRow
      /\ s'.syncCounter = s.syncCounter /\ s'.scrolledCount = s.scrolledCount
  BY <1>1, <1>2 DEF Scrapers
<1>5. BufferHeight(con') = BufferHeight(con) /\ con'.buf = con.buf
  BY <1>2
<1>6. con \in Consoles /\ g.scroll \in Nat /\ s.syncRow \in Int /\ s.scrolledCount \in Int
  BY Numbers DEF ScraperInv, ScraperTypes, PositionInv, ScrollInv
<1>7. MarkersKept(con, con', 0)
  BY <1>5, <1>6, BufKept
<1>8. HeightKept'
  BY <1>2, <1>3, <1>4, <1>5 DEF ScrollInv, HeightKept, TentativePhases
<1>9. Sound' => Sound
  BY <1>3, <1>4, <1>5 DEF Sound
<1>10. g'.scroll \in Nat /\ Counters' /\ (Sound' => MarkerTells')
  <2>1. /\ s'.syncCounter = s.syncCounter /\ g'.scroll = g.scroll + 0
        /\ s'.syncRow = -1 <=> s.syncRow = -1
        /\ s'.scrolledCount + s'.syncRow = s.scrolledCount + s.syncRow
    BY <1>3, <1>4, <1>6
  <2> QED BY <1>7, <1>9, <2>1, MarkerStillTells
<1> QED BY <1>2, <1>3, <1>4, <1>8, <1>9, <1>10 DEF ScrollInv, Settled

\* While there is no marker the window is not at the end of the buffer, so
\* what the application writes does not scroll it.
LEMMA UnmarkedStays ==
  ASSUME HistoryFits, ScraperInv, PositionInv, s.syncRow = -1, ~s.directMode, g.burst < MaxBurst
  PROVE  con.cur < BUFFER_LINE_COUNT - 1
<1>1. /\ con.top \in Nat /\ con.height \in Nat \ {0} /\ con.height <= Tallest
      /\ con.cur \in Nat /\ con.cur < con.top + con.height
      /\ info.top \in Nat /\ g.burst \in Nat /\ s.ptyRows \in Nat
  BY Numbers DEF ScraperInv, PositionInv, HeightsOK
<1>2. /\ Tallest \in Nat \ {0} /\ MarkedFrom \in Nat /\ MaxBurst \in Nat
      /\ BUFFER_LINE_COUNT \in Nat
      /\ MarkedFrom + Tallest + 2 * MaxBurst <= BUFFER_LINE_COUNT
  BY HeightsFit, Sizes
<1>3. CASE pc = "idle"
  <2>1. con.top + con.height <= MarkedFrom + g.burst
    BY <1>3 DEF PositionInv, UnmarkedHigh, Bottom
  <2> QED BY <1>1, <1>2, <2>1
<1>4. CASE pc \in {"tentative", "frozen"}
  <2>1. info.top <= MarkedFrom + MaxBurst /\ con.top <= info.top + g.burst
    BY <1>4 DEF PositionInv, UnmarkedHigh, NotFarDown, Scraping, TentativePhases
  <2> QED BY <1>1, <1>2, <2>1
<1>5. CASE pc \in {"read", "check", "checkMarker", "resize", "shrinkWindow"}
  <2>1. info.top + Tallest <= MarkedFrom /\ con.top <= info.top + g.burst
    BY <1>5 DEF PositionInv, UnmarkedHigh, NotFarDown, Scraping, TentativePhases
  <2> QED BY <1>1, <1>2, <2>1
<1>6. CASE pc \in {"resizeBuffer", "expandWindow"}
  <2>1. /\ info.top + Tallest <= MarkedFrom /\ con.height <= s.ptyRows
        /\ con.top + s.ptyRows <= info.top + Tallest + g.burst
    BY <1>6 DEF PositionInv, UnmarkedHigh, NotFarDown
  <2> QED BY <1>1, <1>2, <2>1
<1>7. pc # "direct" /\ pc \in Phases
  BY DEF ScraperInv, ScraperTypes, ModeFitsInfo
<1> QED BY <1>3, <1>4, <1>5, <1>6, <1>7 DEF Phases, TentativePhases

LEMMA AppStepScroll ==
  ASSUME HistoryFits, ScraperInv, ScraperInv', PositionInv, ScrollInv,
         NEW k \in {0, 1}, AppEffect(k)
  PROVE  ScrollInv'
<1>1. /\ ~con.frozen /\ UNCHANGED <<s, pc, info>> /\ MarkersKept(con, con', k)
      /\ k = 1 => con.cur = BufferHeight(con) - 1 /\ g.burst < MaxBurst
      /\ g'.quiet = FALSE /\ g'.scroll = g.scroll + k
      /\ g.damaged => g'.damaged
      /\ BufferHeight(con') = BufferHeight(con) \/ g'.damaged
  BY DEF AppEffect
<1>2. con.cur \in Nat /\ g.scroll \in Nat /\ s.syncRow \in Int /\ s.scrolledCount \in Int
      /\ BUFFER_LINE_COUNT \in Nat
  BY Numbers, Sizes DEF ScraperInv, PositionInv, ScrollInv
<1>3. pc # "resize"
  BY <1>1 DEF ScrollInv, HeightKept
<1>4. HeightKept'
  BY <1>1, <1>3 DEF ScrollInv, HeightKept
<1>5. Sound' => Sound
  BY <1>1 DEF Sound
<1>6. ASSUME Sound', s.syncRow = -1 PROVE k = 0
  <2> SUFFICES ASSUME k = 1 PROVE FALSE
    OBVIOUS
  <2>1. ~s.directMode /\ con.cur = BUFFER_LINE_COUNT - 1 /\ g.burst < MaxBurst
    BY <1>1, <1>5, <1>6 DEF Sound
  <2>2. con.cur < BUFFER_LINE_COUNT - 1
    BY <1>6, <2>1, UnmarkedStays
  <2> QED BY <1>2, <2>1, <2>2
<1>7. g'.scroll \in Nat /\ Counters' /\ (Sound' => MarkerTells')
  <2>1. /\ s'.syncCounter = s.syncCounter /\ g'.scroll = g.scroll + k
        /\ s'.syncRow = -1 <=> s.syncRow = -1
        /\ s'.scrolledCount + s'.syncRow = s.scrolledCount + s.syncRow
    BY <1>1, <1>2
  <2>2. Sound' /\ s.syncRow = -1 => k = 0
    BY <1>6
  <2> QED BY <1>1, <1>5, <2>1, <2>2, MarkerStillTells
<1>8. ~Settled' /\ pc' # "resize"
  BY <1>1, <1>3 DEF Settled
<1> QED BY <1>4, <1>7, <1>8 DEF ScrollInv

----------------------------------------------------------------------------
(***************************************************************************)
(* No ASSERT fails.                                                        *)
(***************************************************************************)

\* Nothing has happened where the scraper could not see it.
Seen == ~g.missed /\ ~s.directMode

\* As far below the last marker a scrape places a new one.
MarkerReach == 2 * (SYNC_MARKER_LEN + SYNC_MARKER_MARGIN)

MarkerColumns == {i \in DOMAIN con.buf : MarkerColumn(s, con, i)}

\* How far below the marker the lines not yet scraped begin.
Ahead == s.scrapedLineCount - s.scrolledCount - s.syncRow

\* Only between two polls may the height of the buffer be another one.
FullHeight == Seen /\ pc # "idle" => BufferHeight(con) = BUFFER_LINE_COUNT

\* During a resize the window has not moved up from where it was read, or is at the
\* end of the buffer.
PlaceKept ==
  /\ Seen /\ (pc = "resize" \/ Resizing) =>
       con.top >= info.top \/ con.top >= BUFFER_LINE_COUNT - Tallest
  /\ ~s.directMode /\ pc = "frozen" /\ s.resizing =>
       \/ con.frozen /\ con.top = info.top /\ BufferHeight(con) = BUFFER_LINE_COUNT
       \/ s.syncRow = -1 /\ s.dirtyWindowTop = -1 /\ (~g.missed => con.top >= info.top)

\* The dirty lines end in or above the window they were counted in.
DirtyNear ==
  Seen =>
    /\ pc = "idle" => s.dirtyLineCount <= s.dirtyWindowTop + Tallest
                      \/ s.dirtyLineCount <= Tallest
    /\ pc \in {"tentative", "frozen"} =>
         s.dirtyLineCount <= s.dirtyWindowTop + Tallest
         \/ s.dirtyLineCount <= info.top + Tallest
    /\ pc \in {"read", "check", "checkMarker", "resize"} \/ Resizing =>
         s.dirtyLineCount <= info.top + Tallest

\* The scraped lines end in the buffer, and the marker is below its first row.
MarkerPlaced ==
  Seen =>
    /\ s.scrapedLineCount >= s.scrolledCount
    /\ s.syncRow # -1 =>
         /\ s.syncRow >= 1
         /\ pc \in {"read", "check", "checkMarker", "resize"} =>
              info.top < s.syncRow + MarkerReach
         /\ pc = "resize" => s.scrapedLineCount = s.scrolledCount + info.top

\* The window is, or the steps of a resize put it, at line n at the most.
Near(n) ==
  /\ pc = "idle" => con.top <= n
  /\ pc \in Scraping => con.top - MaxBurst <= n
  /\ pc = "shrinkWindow" =>
       con.top + con.height <= n /\ (con.top + s.ptyRows <= n \/ BUFFER_LINE_COUNT <= n)
  /\ pc \in {"resizeBuffer", "expandWindow"} => con.top + s.ptyRows <= n
  /\ Resizing => s.dirtyLineCount - s.ptyRows <= n

\* The marker is in one place, from which it moves only while the window is at the
\* end of the buffer; the window is not far below it, nor below the lines scraped.
MarkerClose ==
  Seen /\ BufferHeight(con) = BUFFER_LINE_COUNT /\ s.syncRow # -1 =>
    \A i \in MarkerColumns :
      /\ \A j \in MarkerColumns : i = j
      /\ i <= s.syncRow
      /\ i = s.syncRow \/ con.top >= BUFFER_LINE_COUNT - Tallest
      /\ Near(i + MarkerReach + Tallest + g.burst) /\ Near(i + Ahead + Tallest + g.burst)

\* The window is expected on a row of the buffer, and fits into it after a resize.
TopExpected ==
  /\ s.dirtyWindowTop <= BUFFER_LINE_COUNT /\ (g.missed \/ s.dirtyWindowTop >= -1)
  /\ pc = "expandWindow" => g.missed \/ BufferHeight(con) >= s.ptyRows

AssertInv ==
  FullHeight /\ PlaceKept /\ DirtyNear /\ MarkerPlaced /\ MarkerClose /\ TopExpected

NoAssertFails == g.missed \/ ~s.failed

\* All the numbers at once.
LEMMA AllNumbers ==
  ASSUME HistoryFits, ScraperInv, PositionInv
  PROVE  /\ con.top \in Nat /\ con.height \in Nat \ {0} /\ con.cur \in Nat
         /\ BufferHeight(con) \in Nat \ {0} /\ con.height <= Tallest
         /\ con.top + con.height <= BufferHeight(con)
         /\ con.top <= con.cur /\ con.cur < con.top + con.height
         /\ info.top \in Nat /\ info.height \in Nat \ {0} /\ info.height <= Tallest
         /\ s.syncRow \in Int /\ s.syncRow >= -1 /\ s.scrolledCount \in Nat
         /\ s.scrapedLineCount \in Nat /\ s.dirtyWindowTop \in Int
         /\ s.dirtyLineCount \in Nat /\ s.dirtyLineCount <= BUFFER_LINE_COUNT
         /\ s.ptyRows \in Nat \ {0} /\ s.ptyRows <= Tallest
         /\ s.directMode \in BOOLEAN /\ s.resizing \in BOOLEAN
         /\ g.burst \in Nat /\ g.burst <= MaxBurst
         /\ Tallest \in Nat \ {0} /\ MaxBurst \in Nat /\ BUFFER_LINE_COUNT \in Nat \ {0}
         /\ MarkerReach \in Nat /\ MarkerReach >= 4 /\ Ahead \in Int
         /\ MarkerReach + 3 * Tallest + 3 * MaxBurst <= BUFFER_LINE_COUNT
         /\ \A i \in MarkerColumns : i \in Int
<1>1. /\ con.top \in Nat /\ con.height \in Nat \ {0} /\ con.cur \in Nat
      /\ BufferHeight(con) \in Nat \ {0}
      /\ con.top + con.height <= BufferHeight(con)
      /\ con.top <= con.cur /\ con.cur < con.top + con.height
      /\ info.top \in Nat /\ info.height \in Nat \ {0}
      /\ s.syncRow \in Int /\ s.syncRow >= -1 /\ s.scrolledCount \in Nat
      /\ s.dirtyWindowTop \in Int
      /\ s.dirtyLineCount \in Nat
      /\ s.ptyRows \in Nat \ {0} /\ s.ptyRows \in Rows
      /\ s.directMode \in BOOLEAN /\ s.resizing \in BOOLEAN
  BY Numbers DEF ScraperInv, PositionInv
<1>2. con.height <= Tallest /\ info.height <= Tallest /\ g.burst \in 0..MaxBurst
  BY DEF PositionInv, HeightsOK
<1>3. s.scrapedLineCount \in Nat /\ s.dirtyLineCount \in 0..BUFFER_LINE_COUNT
  BY ScraperFacts DEF ScraperInv, ScraperTypes
<1>4. /\ Tallest \in Nat \ {0} /\ MaxBurst \in Nat /\ s.ptyRows <= Tallest
      /\ MarkedFrom + Tallest + 2 * MaxBurst <= BUFFER_LINE_COUNT
  BY <1>1, HeightsFit
<1>5. /\ MarkerReach \in Nat /\ MarkerReach >= 4 /\ BUFFER_LINE_COUNT \in Nat \ {0}
      /\ MarkedFrom = MarkerReach + 2 * Tallest + MaxBurst
  BY Sizes DEF MarkerReach, MarkedFrom
<1>6. MarkerReach + 3 * Tallest + 3 * MaxBurst <= BUFFER_LINE_COUNT
  BY <1>4, <1>5
<1>7. Ahead \in Int
  BY <1>1, <1>3 DEF Ahead
<1>8. \A i \in MarkerColumns : i \in Int
  <2>1. DOMAIN con.buf = 0..(BufferHeight(con) - 1)
    BY ConsoleFacts DEF ScraperInv, ScraperTypes
  <2> QED BY <1>1, <2>1 DEF MarkerColumns
<1> QED BY <1>1, <1>2, <1>3, <1>4, <1>5, <1>6, <1>7, <1>8

\* A step that keeps the markers where they are, or scrolls them by a line.
LEMMA MarkerCloseKept ==
  ASSUME HistoryFits, ScraperInv, ScraperInv', PositionInv, PositionInv', MarkerClose,
         NEW k \in {0, 1}, MarkersKept(con, con', k), s'.syncCounter = s.syncCounter,
         Seen' => Seen,
         Seen' /\ BufferHeight(con') = BUFFER_LINE_COUNT =>
           /\ BufferHeight(con) = BUFFER_LINE_COUNT
           /\ k = 1 => con.top >= BUFFER_LINE_COUNT - Tallest
           /\ con.top >= BUFFER_LINE_COUNT - Tallest => con'.top >= BUFFER_LINE_COUNT - Tallest,
         s'.syncRow = -1 <=> s.syncRow = -1,
         s'.syncRow = s.syncRow \/ (k = 0 /\ s'.syncRow \in MarkerColumns),
         s'.scrolledCount + s'.syncRow = s.scrolledCount + s.syncRow,
         s'.scrapedLineCount = s.scrapedLineCount,
         NEW d \in Int, d = g'.burst - g.burst - k,
         Seen' => \A n \in Int : Near(n) => Near(n + d)'
  PROVE  MarkerClose'
<1> SUFFICES ASSUME Seen', BufferHeight(con') = BUFFER_LINE_COUNT, s'.syncRow # -1,
                    NEW i \in MarkerColumns'
             PROVE  /\ \A j \in MarkerColumns' : i = j
                    /\ i <= s'.syncRow
                    /\ i = s'.syncRow \/ con'.top >= BUFFER_LINE_COUNT - Tallest
                    /\ Near(i + MarkerReach + Tallest + g.burst)'
                    /\ Near(i + Ahead + Tallest + g.burst)'
  BY DEF MarkerClose
<1>1. \A j \in MarkerColumns' : j + k \in MarkerColumns
  <2> SUFFICES ASSUME NEW j \in DOMAIN con'.buf, MarkerColumn(s', con', j)
               PROVE  j + k \in MarkerColumns
    BY DEF MarkerColumns
  <2> QED BY ColumnKept DEF MarkerColumns
<1>2. \A j \in MarkerColumns' : j \in Int
  <2>1. DOMAIN con'.buf = 0..(BufferHeight(con') - 1)
    BY ConsoleFacts DEF ScraperInv, ScraperTypes
  <2>2. BufferHeight(con') \in Int
    BY Sizes
  <2> QED BY <2>1, <2>2 DEF MarkerColumns
<1>3. /\ s.syncRow \in Int /\ s.scrolledCount \in Int /\ s.scrapedLineCount \in Int
      /\ Tallest \in Int /\ g.burst \in Int /\ MarkerReach \in Int /\ Ahead \in Int
      /\ BUFFER_LINE_COUNT \in Int /\ con.top \in Int
  BY AllNumbers
<1>4. /\ s'.syncRow \in Int /\ s'.scrolledCount \in Int /\ s'.scrapedLineCount \in Int
      /\ g'.burst \in Int
  <2>1. s' \in Scrapers /\ g'.burst \in 0..MaxBurst
    BY DEF ScraperInv, ScraperTypes, PositionInv, HeightsOK
  <2> QED BY <2>1, ScraperFacts, HeightsFit
<1>5. /\ \A j \in MarkerColumns : i + k = j
      /\ i + k <= s.syncRow
      /\ i + k = s.syncRow \/ con.top >= BUFFER_LINE_COUNT - Tallest
      /\ Near((i + k) + MarkerReach + Tallest + g.burst)
      /\ Near((i + k) + Ahead + Tallest + g.burst)
  <2>1. i + k \in MarkerColumns
    BY <1>1
  <2>2. Seen /\ BufferHeight(con) = BUFFER_LINE_COUNT /\ s.syncRow # -1
    OBVIOUS
  <2>3. \A m \in MarkerColumns :
          /\ \A j \in MarkerColumns : m = j
          /\ m <= s.syncRow
          /\ m = s.syncRow \/ con.top >= BUFFER_LINE_COUNT - Tallest
          /\ Near(m + MarkerReach + Tallest + g.burst)
          /\ Near(m + Ahead + Tallest + g.burst)
    BY <2>2 DEF MarkerClose
  <2> QED BY <2>1, <2>3
<1>6. \A j \in MarkerColumns' : i = j
  BY <1>1, <1>2, <1>5
<1>7. s'.syncRow # s.syncRow => i = s'.syncRow
  BY <1>2, <1>4, <1>5
<1>8. i <= s'.syncRow
  BY <1>2, <1>3, <1>5, <1>7
<1>9. i = s'.syncRow \/ con'.top >= BUFFER_LINE_COUNT - Tallest
  BY <1>2, <1>3, <1>5, <1>7
<1>10. Ahead' = Ahead
  <2>1. Ahead = s.scrapedLineCount - s.scrolledCount - s.syncRow
        /\ Ahead' = s'.scrapedLineCount - s'.scrolledCount - s'.syncRow
    BY DEF Ahead
  <2> QED BY <1>3, <1>4, <2>1
<1>11. Near(i + MarkerReach + Tallest + g.burst)'
  <2>1. PICK n \in Int : n = (i + k) + MarkerReach + Tallest + g.burst
    BY <1>2, <1>3
  <2>2. n + d = i + MarkerReach + Tallest + g'.burst
    BY <1>2, <1>3, <1>4, <2>1
  <2>3. Near(n)
    BY <1>5, <2>1
  <2>4. Near(n + d)'
    BY <2>3
  <2> QED BY <2>2, <2>4 DEF Near
<1>12. Near(i + Ahead + Tallest + g.burst)'
  <2>1. PICK n \in Int : n = (i + k) + Ahead + Tallest + g.burst
    BY <1>2, <1>3
  <2>2. n + d = i + Ahead' + Tallest + g'.burst
    BY <1>2, <1>3, <1>4, <1>10, <2>1
  <2>3. Near(n)
    BY <1>5, <2>1
  <2>4. Near(n + d)'
    BY <2>3
  <2> QED BY <2>2, <2>4 DEF Near
<1> QED BY <1>6, <1>8, <1>9, <1>11, <1>12

LEMMA InitAssert ==
  ASSUME HistoryFits, ScraperInit
  PROVE  AssertInv /\ NoAssertFails
<1>1. /\ ScraperInv /\ PositionInv /\ pc = "idle" /\ con.top = 0
  BY InitInv, InitPosition DEF ScraperInit
<1>2. /\ s.syncRow = -1 /\ s.scrapedLineCount = 0 /\ s.scrolledCount = 0
      /\ s.dirtyLineCount = 0 /\ s.dirtyWindowTop = -1 /\ s.failed = FALSE
  BY DEF ScraperInit, NewTracking
<1>3. Tallest \in Nat \ {0} /\ BUFFER_LINE_COUNT \in Nat
  BY <1>1, AllNumbers
<1> QED BY <1>1, <1>2, <1>3 DEF AssertInv, NoAssertFails, FullHeight, PlaceKept, DirtyNear,
        MarkerPlaced, MarkerClose, TopExpected, Resizing

LEMMA CheckAssert ==
  ASSUME HistoryFits, ScraperInv, ScraperInv', PositionInv, PositionInv', HeightKept, AssertInv,
         ReadContent \/ CheckInfo
  PROVE  AssertInv' /\ s'.failed = s.failed
<1>1. /\ UNCHANGED <<con, s, info, g>> /\ pc \in {"read", "check"}
      /\ pc' \in {"check", "checkMarker", "frozen"}
  BY DEF ReadContent, CheckInfo, Bail
<1>2. ~s.resizing /\ con \in Consoles
  BY <1>1 DEF HeightKept, TentativePhases, ScraperInv, ScraperTypes
<1>3. BufferHeight(con') = BufferHeight(con) /\ MarkersKept(con, con', 0)
  BY <1>1, <1>2, BufKept
<1>4. FullHeight' /\ PlaceKept' /\ DirtyNear' /\ MarkerPlaced' /\ TopExpected'
  BY <1>1, <1>2, <1>3 DEF AssertInv, FullHeight, PlaceKept, DirtyNear, MarkerPlaced, TopExpected,
     Seen, Resizing
<1>5. MarkerClose'
  <2>1. ASSUME NEW n \in Int, Near(n) PROVE Near(n + 0)'
    <3>1. n + 0 = n
      OBVIOUS
    <3>2. con.top - MaxBurst <= n
      BY <1>1, <2>1 DEF Near, Scraping, TentativePhases
    <3> QED BY <1>1, <3>1, <3>2 DEF Near, Resizing
  <2>2. Seen' => Seen
    BY <1>1 DEF Seen
  <2>3. 0 = g'.burst - g.burst - 0
    BY <1>1, AllNumbers
  <2>4. /\ s'.syncCounter = s.syncCounter /\ s'.syncRow = s.syncRow
        /\ s'.scrolledCount = s.scrolledCount /\ s'.scrapedLineCount = s.scrapedLineCount
        /\ con'.top = con.top
    BY <1>1
  <2> QED BY <1>3, <2>1, <2>2, <2>3, <2>4, MarkerCloseKept DEF AssertInv
<1> QED BY <1>1, <1>4, <1>5 DEF AssertInv

LEMMA FreezeAssert ==
  ASSUME HistoryFits, ScraperInv, ScraperInv', PositionInv, PositionInv', AssertInv, Freeze
  PROVE  AssertInv' /\ s'.failed = s.failed
<1>1. /\ con \in Consoles /\ con' = [con EXCEPT !.frozen = TRUE] /\ UNCHANGED <<s, pc, info, g>>
      /\ pc = "frozen" /\ ~con.frozen
  BY DEF ScraperInv, ScraperTypes, Freeze
<1>2. /\ con'.top = con.top /\ con'.height = con.height /\ con'.buf = con.buf
      /\ BufferHeight(con') = BufferHeight(con)
  BY <1>1, FrozenSet
<1>3. MarkersKept(con, con', 0)
  BY <1>1, <1>2, BufKept
<1>4. FullHeight' /\ PlaceKept' /\ DirtyNear' /\ MarkerPlaced' /\ TopExpected'
  BY <1>1, <1>2 DEF AssertInv, FullHeight, PlaceKept, DirtyNear, MarkerPlaced, TopExpected,
     Seen, Resizing
<1>5. MarkerClose'
  <2>1. ASSUME NEW n \in Int, Near(n) PROVE Near(n + 0)'
    BY <1>1, <1>2, <2>1 DEF Near, Resizing
  <2>2. Seen' => Seen
    BY <1>1 DEF Seen
  <2>3. 0 = g'.burst - g.burst - 0
    BY <1>1, AllNumbers
  <2>4. /\ s'.syncCounter = s.syncCounter /\ s'.syncRow = s.syncRow
        /\ s'.scrolledCount = s.scrolledCount /\ s'.scrapedLineCount = s.scrapedLineCount
    BY <1>1
  <2> QED BY <1>2, <1>3, <2>1, <2>2, <2>3, <2>4, MarkerCloseKept DEF AssertInv
<1> QED BY <1>1, <1>4, <1>5 DEF AssertInv

LEMMA DirectScrapeAssert ==
  ASSUME ScraperInv, AssertInv, DirectScrape
  PROVE  AssertInv' /\ s'.failed = s.failed
<1>1. /\ s.directMode /\ SamePosition(s, s') /\ pc' = "idle" /\ g' = g
  BY DirectScrapeDoes
<1>2. ~Seen'
  BY <1>1 DEF Seen, SamePosition
<1>3. PlaceKept' /\ TopExpected'
  BY <1>1, <1>2 DEF AssertInv, PlaceKept, TopExpected, SamePosition
<1> QED BY <1>1, <1>2, <1>3 DEF AssertInv, FullHeight, DirtyNear, MarkerPlaced, MarkerClose,
        SamePosition

LEMMA ResizeWindowAssert ==
  ASSUME HistoryFits, ScraperInv, ScraperInv', PositionInv, PositionInv', AssertInv,
         NEW rows \in Rows, resizeWindow(rows)
  PROVE  AssertInv' /\ s'.failed = s.failed
<1> DEFINE h == [g EXCEPT !.odd = @ + 1]
<1>1. s \in Scrapers /\ DOMAIN g = HistoryFields /\ con \in Consoles
  BY DEF ScraperInv, ScraperTypes
<1>2. /\ pc = "idle" /\ UNCHANGED <<con, pc, info>>
      /\ s' = [s EXCEPT !.ptyRows = rows, !.resizing = TRUE] /\ g' = h
  BY DEF resizeWindow
<1>3. g'.burst = g.burst /\ g'.missed = g.missed
  BY <1>1, <1>2 DEF HistoryFields
<1>4. /\ s'.directMode = s.directMode /\ s'.syncRow = s.syncRow
      /\ s'.dirtyWindowTop = s.dirtyWindowTop /\ s'.scrolledCount = s.scrolledCount
      /\ s'.dirtyLineCount = s.dirtyLineCount /\ s'.scrapedLineCount = s.scrapedLineCount
      /\ s'.syncCounter = s.syncCounter /\ s'.failed = s.failed
  BY <1>1, <1>2 DEF Scrapers
<1>5. BufferHeight(con') = BufferHeight(con) /\ MarkersKept(con, con', 0)
  BY <1>1, <1>2, BufKept
<1>6. Seen' <=> Seen
  BY <1>3, <1>4 DEF Seen
<1>7. FullHeight' /\ PlaceKept' /\ DirtyNear' /\ MarkerPlaced' /\ TopExpected'
  BY <1>2, <1>3, <1>4, <1>5, <1>6
     DEF AssertInv, FullHeight, PlaceKept, DirtyNear, MarkerPlaced, TopExpected, Resizing
<1>8. MarkerClose'
  <2>1. ASSUME NEW n \in Int, Near(n) PROVE Near(n + 0)'
    BY <1>2, <2>1 DEF Near, Resizing, Scraping, TentativePhases
  <2>3. 0 = g'.burst - g.burst - 0
    BY <1>3, AllNumbers
  <2>4. con'.top = con.top
    BY <1>2
  <2> QED BY <1>4, <1>5, <1>6, <2>1, <2>3, <2>4, MarkerCloseKept DEF AssertInv
<1> QED BY <1>4, <1>7, <1>8 DEF AssertInv

LEMMA ReadInfoAssert ==
  ASSUME HistoryFits, ScraperInv, ScraperInv', PositionInv, PositionInv', AssertInv, ReadInfo
  PROVE  AssertInv' /\ s'.failed = s.failed
<1>1. PICK direct \in BOOLEAN, switch \in BOOLEAN :
         /\ direct = (BufferHeight(con) # BUFFER_LINE_COUNT) /\ switch = (direct # s.directMode)
         /\ pc = "idle"
         /\ con'.buf = con.buf /\ con'.top = con.top /\ con'.height = con.height
         /\ BufferHeight(con') = BufferHeight(con)
         /\ con'.frozen = (~s.isNewW10 \/ s.resizing)
         /\ info' = bufferInfo(con)
         /\ pc' = (IF direct THEN IF s.resizing THEN "resize" ELSE "direct"
                   ELSE IF con'.frozen \/ switch THEN "frozen" ELSE "tentative")
         /\ s'.directMode = direct /\ s'.resizing = (s.resizing \/ (switch /\ ~direct))
         /\ s'.syncCounter = s.syncCounter
         /\ IF switch
            THEN /\ s'.syncRow = -1 /\ s'.dirtyWindowTop = -1 /\ s'.scrolledCount = 0
                 /\ s'.dirtyLineCount = 0
            ELSE /\ s'.syncRow = s.syncRow /\ s'.dirtyWindowTop = s.dirtyWindowTop
                 /\ s'.scrolledCount = s.scrolledCount /\ s'.dirtyLineCount = s.dirtyLineCount
                 /\ s'.scrapedLineCount = s.scrapedLineCount
         /\ s'.failed = s.failed
         /\ g'.burst = 0
         /\ switch \/ (g.missed => g'.missed)
  BY ReadInfoDoes
<1>2. /\ con.top \in Nat /\ BufferHeight(con) \in Nat /\ s.resizing \in BOOLEAN
      /\ s.directMode \in BOOLEAN /\ s.dirtyWindowTop \in Int /\ g.burst \in Nat
      /\ g.burst <= MaxBurst /\ MaxBurst \in Nat
      /\ s.dirtyLineCount \in Nat /\ s.syncRow \in Int /\ Tallest \in Nat \ {0}
      /\ BUFFER_LINE_COUNT \in Nat
  BY AllNumbers
<1>3. info'.top = con.top
  BY <1>1 DEF bufferInfo
<1>4. /\ pc' \in Scraping \union {"resize", "direct"} /\ pc' \in {"frozen", "tentative", "resize", "direct"}
      /\ ~direct => pc' \in {"frozen", "tentative"}
  BY <1>1 DEF Scraping, TentativePhases
<1>5. ~direct => BufferHeight(con) = BUFFER_LINE_COUNT
  BY <1>1, Zenon
<1>6. s.resizing => con'.frozen
  BY <1>1, Zenon
<1>7. s'.resizing => con'.frozen \/ switch
  BY <1>1, <1>6, Zenon
<1>8. FullHeight' /\ PlaceKept' /\ ~Resizing'
  BY <1>1, <1>2, <1>3, <1>4, <1>5, <1>7 DEF FullHeight, PlaceKept, Seen, Resizing
<1>9. CASE switch
  <2>1. DirtyNear' /\ MarkerClose' /\ TopExpected'
    BY <1>1, <1>2, <1>3, <1>4, <1>9 DEF DirtyNear, MarkerClose, TopExpected, Resizing
  <2>2. s'.scrapedLineCount \in Nat
    BY ScraperFacts DEF ScraperInv, ScraperTypes
  <2>3. MarkerPlaced'
    BY <1>1, <1>9, <2>2 DEF MarkerPlaced
  <2> QED BY <1>1, <1>8, <2>1, <2>3 DEF AssertInv
<1>10. CASE ~switch
  <2>1. s'.directMode <=> s.directMode
    BY <1>1, <1>10, Zenon
  <2>2. Seen' => Seen
    BY <1>1, <1>10, <2>1 DEF Seen
  <2>3. DirtyNear' /\ MarkerPlaced' /\ TopExpected'
    <3>1. DirtyNear'
      <4> SUFFICES ASSUME Seen'
                   PROVE  /\ pc' \in {"frozen", "tentative"}
                          /\ \/ s'.dirtyLineCount <= s'.dirtyWindowTop + Tallest
                             \/ s'.dirtyLineCount <= info'.top + Tallest
        BY <1>8 DEF DirtyNear
      <4>1. \/ s.dirtyLineCount <= s.dirtyWindowTop + Tallest
            \/ s.dirtyLineCount <= Tallest
        BY <1>1, <2>2 DEF AssertInv, DirtyNear
      <4>2. pc' \in {"frozen", "tentative"}
        BY <1>1, <1>4 DEF Seen
      <4>3. /\ s'.dirtyWindowTop = s.dirtyWindowTop /\ s'.dirtyLineCount = s.dirtyLineCount
            /\ info'.top = con.top
        BY <1>1, <1>3, <1>10
      <4> QED BY <1>2, <4>1, <4>2, <4>3
    <3>2. MarkerPlaced'
      <4>1. Seen' => pc' \in {"frozen", "tentative"}
        BY <1>1, <1>4 DEF Seen
      <4> QED BY <1>1, <1>10, <2>2, <4>1 DEF AssertInv, MarkerPlaced
    <3>3. TopExpected'
      BY <1>1, <1>4, <1>10 DEF AssertInv, TopExpected
    <3> QED BY <3>1, <3>2, <3>3
  <2>4. MarkerClose'
    <3>1. PICK d \in Int : d = 0 - g.burst - 0
      BY <1>2
    <3>2. ASSUME Seen', NEW n \in Int, Near(n) PROVE Near(n + d)'
      <4>1. con.top <= n
        BY <1>1, <3>2 DEF Near
      <4>2. con'.top - MaxBurst <= n + d
        BY <1>1, <1>2, <3>1, <4>1
      <4>3. pc' \in {"frozen", "tentative"}
        BY <1>1, <1>4, <3>2 DEF Seen
      <4> QED BY <4>2, <4>3 DEF Near, Resizing
    <3>3. MarkersKept(con, con', 0)
      BY <1>1, BufKept DEF ScraperInv, ScraperTypes
    <3>4. d = g'.burst - g.burst - 0
      BY <1>1, <3>1
    <3>5. /\ s'.syncCounter = s.syncCounter /\ s'.syncRow = s.syncRow
          /\ s'.scrolledCount = s.scrolledCount /\ s'.scrapedLineCount = s.scrapedLineCount
          /\ con'.top = con.top /\ BufferHeight(con') = BufferHeight(con)
      BY <1>1, <1>10
    <3> QED BY <2>2, <3>2, <3>3, <3>4, <3>5, MarkerCloseKept DEF AssertInv
  <2> QED BY <1>1, <1>8, <2>3, <2>4 DEF AssertInv
<1> QED BY <1>9, <1>10

\* The row a scrape finds the marker on is the one it is on.
LEMMA MarkerFoundClose ==
  ASSUME HistoryFits, ScraperInv, PositionInv, AssertInv, Seen, pc \in Scraping, s.syncRow # -1,
         NEW row \in MarkerRows, row # -1
  PROVE  /\ row \in Int /\ row \in MarkerColumns /\ \A i \in MarkerColumns : i = row
         /\ 1 <= row /\ row <= s.syncRow
         /\ s.scrolledCount + (s.syncRow - row) <= s.scrapedLineCount
<1>1. BufferHeight(con) = BUFFER_LINE_COUNT
  BY DEF AssertInv, FullHeight, Scraping, TentativePhases
<1>2. row \in MarkerColumns
  BY <1>1, MarkerRowTells DEF MarkerColumns
<1>3. /\ \A i \in MarkerColumns : i = row
      /\ row <= s.syncRow
      /\ row = s.syncRow \/ con.top >= BUFFER_LINE_COUNT - Tallest
      /\ Near(row + MarkerReach + Tallest + g.burst) /\ Near(row + Ahead + Tallest + g.burst)
  BY <1>1, <1>2 DEF AssertInv, MarkerClose
<1>4. /\ row \in Int /\ con.top \in Nat /\ s.syncRow \in Int /\ s.scrolledCount \in Nat
      /\ s.scrapedLineCount \in Nat /\ g.burst \in Nat /\ g.burst <= MaxBurst
      /\ Tallest \in Nat \ {0} /\ MaxBurst \in Nat /\ BUFFER_LINE_COUNT \in Nat
      /\ MarkerReach \in Nat /\ Ahead \in Int
      /\ MarkerReach + 3 * Tallest + 3 * MaxBurst <= BUFFER_LINE_COUNT
  BY <1>2, AllNumbers
<1>5. s.scrapedLineCount >= s.scrolledCount /\ s.syncRow >= 1
  BY DEF AssertInv, MarkerPlaced
<1>6. Ahead = s.scrapedLineCount - s.scrolledCount - s.syncRow
  BY DEF Ahead
<1>7. CASE row = s.syncRow
  BY <1>2, <1>3, <1>4, <1>5, <1>7
<1>8. CASE con.top >= BUFFER_LINE_COUNT - Tallest
  <2>1. /\ con.top - MaxBurst <= row + MarkerReach + Tallest + g.burst
        /\ con.top - MaxBurst <= row + Ahead + Tallest + g.burst
    BY <1>3 DEF Near
  <2>2. 1 <= row
    BY <1>4, <1>8, <2>1
  <2>3. row + Ahead >= 0
    BY <1>4, <1>8, <2>1
  <2> QED BY <1>2, <1>3, <1>4, <1>6, <2>2, <2>3
<1> QED BY <1>3, <1>7, <1>8

LEMMA TentativeFollows ==
  ASSUME HistoryFits, ScraperInv, PositionInv, Tentative
  PROVE  \E row \in MarkerRows :
           \/ s' = s /\ pc' = "frozen"
           \/ /\ s.syncRow = -1 \/ row # -1
              /\ s'.syncRow = row /\ s'.scrolledCount = s.scrolledCount + (s.syncRow - row)
              /\ s'.scrapedLineCount = s.scrapedLineCount
              /\ s'.scrolledCount <= s.scrapedLineCount => s'.failed = s.failed
              /\ s'.dirtyLineCount <= s.dirtyLineCount
                 \/ s'.dirtyLineCount <= info.top + Tallest
              /\ \/ pc' = "frozen" /\ s'.dirtyWindowTop = s.dirtyWindowTop
                 \/ /\ pc' = "read" /\ s'.dirtyWindowTop = info.top
                    /\ info.top < row + MarkerReach
                    /\ s.dirtyWindowTop = -1 \/ info.top >= s.dirtyWindowTop
<1>1. /\ s \in Scrapers /\ info \in ScrollingInfos
  BY DEF ScraperInv, ScraperTypes, ModeFitsInfo, Tentative, TentativePhases, ScrollingInfos
<1>2. PICK row \in MarkerRows :
        LET gone == s.syncRow # -1 /\ row = -1
            u == MarkerFound(s, info, row)
        IN \/ gone /\ s' = s /\ pc' = "frozen"
           \/ ~gone /\ s' = u /\ pc' = "frozen"
           \/ /\ ~gone /\ ~shouldCreateSyncRow(u, info) /\ ~WindowUp(u, info)
              /\ s' = ReadPrepared(u, info) /\ pc' = "read"
  BY DEF Tentative, Bail
<1> DEFINE gone == s.syncRow # -1 /\ row = -1
           u == MarkerFound(s, info, row)
           w == ReadPrepared(u, info)
<1>3. CASE gone
  BY <1>2, <1>3
<1>4. CASE ~gone
  <2>1. row \in -1..s.syncRow /\ s.syncRow \in Int
    BY <1>1, MarkerRowFound, ScraperFacts
  <2>2. row = -1 => s.syncRow = -1
    BY <1>4
  <2>3. /\ u \in Scrapers /\ u.syncRow = row /\ u.dirtyWindowTop = s.dirtyWindowTop
        /\ u.scrolledCount = s.scrolledCount + (s.syncRow - row)
        /\ u.scrapedLineCount = s.scrapedLineCount /\ u.failed = s.failed
        /\ u.dirtyLineCount \in {s.dirtyLineCount, info.top + info.height}
    BY <1>1, <2>1, <2>2, MarkerFollowed
  <2>4. /\ info.top \in Nat /\ info.height \in Nat /\ info.height <= Tallest
        /\ info.cur \in Nat /\ info.cur < info.top + info.height
        /\ Tallest \in Nat /\ s.dirtyLineCount \in Nat /\ s.dirtyWindowTop \in Int
    <3>1. info.cur \in Nat /\ info.cur < info.top + info.height
      BY Numbers DEF ScraperInv, PositionInv
    <3> QED BY <3>1, AllNumbers
  <2>5. \/ s' = u /\ pc' = "frozen"
        \/ /\ ~shouldCreateSyncRow(u, info) /\ ~WindowUp(u, info)
           /\ s' = w /\ pc' = "read"
    BY <1>2, <1>4
  <2>6. s.syncRow = -1 \/ row # -1
    BY <2>2
  <2> HIDE DEF u, gone
  <2>7. CASE s' = u /\ pc' = "frozen"
    BY <2>3, <2>4, <2>6, <2>7
  <2>8. CASE ~shouldCreateSyncRow(u, info) /\ ~WindowUp(u, info) /\ s' = w /\ pc' = "read"
    <3>1. /\ w.syncRow = u.syncRow /\ w.dirtyWindowTop = info.top
          /\ w.scrolledCount = u.scrolledCount /\ w.dirtyLineCount \in Nat
          /\ w.scrapedLineCount = u.scrapedLineCount
          /\ u.scrolledCount <= u.scrapedLineCount => w.failed = u.failed
          /\ \A n \in Int : u.dirtyLineCount <= n /\ info.cur < n /\ info.top + info.height <= n
                             => w.dirtyLineCount <= n
      BY <1>1, <2>3, ReadIsPrepared, ScraperFacts
    <3> HIDE DEF w
    <3>2. w.dirtyLineCount <= s.dirtyLineCount \/ w.dirtyLineCount <= info.top + Tallest
      <4>1. u.dirtyLineCount \in Nat
        BY <2>3, <2>4
      <4>2. CASE s.dirtyLineCount <= info.top + Tallest
        <5>1. u.dirtyLineCount <= info.top + Tallest /\ info.top + Tallest \in Int
          BY <2>3, <2>4, <4>2
        <5> QED BY <2>4, <3>1, <5>1
      <4>3. CASE ~(s.dirtyLineCount <= info.top + Tallest)
        <5>1. u.dirtyLineCount <= s.dirtyLineCount
          BY <2>3, <2>4, <4>3
        <5> QED BY <2>4, <3>1, <4>3, <5>1
      <4> QED BY <4>2, <4>3
    <3>3. info.top < row + MarkerReach
      <4>1. /\ SYNC_MARKER_LEN \in Nat /\ SYNC_MARKER_MARGIN \in Nat
        BY Sizes
      <4>2. ~(newSyncRow(info) >= row + SYNC_MARKER_LEN + SYNC_MARKER_MARGIN)
        BY <2>3, <2>8 DEF shouldCreateSyncRow
      <4> QED BY <2>1, <2>4, <4>1, <4>2 DEF newSyncRow, MarkerReach
    <3>4. s.dirtyWindowTop = -1 \/ info.top >= s.dirtyWindowTop
      BY <2>3, <2>4, <2>8 DEF WindowUp
    <3> QED BY <2>3, <2>6, <2>8, <3>1, <3>2, <3>3, <3>4
  <2> QED BY <2>5, <2>7, <2>8
<1> QED BY <1>3, <1>4

LEMMA TentativeAssert ==
  ASSUME HistoryFits, ScraperInv, ScraperInv', PositionInv, PositionInv', HeightKept, AssertInv,
         Tentative
  PROVE  AssertInv' /\ (g'.missed \/ s'.failed = s.failed)
<1>1. /\ pc = "tentative" /\ pc' \in {"frozen", "read"} /\ UNCHANGED <<con, info, g>>
      /\ SameFlags(s, s') /\ s'.syncCounter = s.syncCounter
      /\ s'.syncRow = -1 <=> s.syncRow = -1
      /\ s'.scrolledCount + s'.syncRow = s.scrolledCount + s.syncRow
  BY TentativeDoes
<1>2. PICK row \in MarkerRows :
           \/ s' = s /\ pc' = "frozen"
           \/ /\ s.syncRow = -1 \/ row # -1
              /\ s'.syncRow = row /\ s'.scrolledCount = s.scrolledCount + (s.syncRow - row)
              /\ s'.scrapedLineCount = s.scrapedLineCount
              /\ s'.scrolledCount <= s.scrapedLineCount => s'.failed = s.failed
              /\ s'.dirtyLineCount <= s.dirtyLineCount
                 \/ s'.dirtyLineCount <= info.top + Tallest
              /\ \/ pc' = "frozen" /\ s'.dirtyWindowTop = s.dirtyWindowTop
                 \/ /\ pc' = "read" /\ s'.dirtyWindowTop = info.top
                    /\ info.top < row + MarkerReach
                    /\ s.dirtyWindowTop = -1 \/ info.top >= s.dirtyWindowTop
  BY TentativeFollows
<1>3. /\ ~s.resizing /\ con \in Consoles /\ s'.directMode = s.directMode
      /\ s'.resizing = s.resizing
  BY <1>1 DEF HeightKept, TentativePhases, ScraperInv, ScraperTypes, SameFlags
<1>4. Seen' <=> Seen
  BY <1>1, <1>3 DEF Seen
<1>5. /\ info.top \in Nat /\ s.dirtyWindowTop \in Int /\ s.dirtyLineCount \in Nat
      /\ Tallest \in Nat \ {0} /\ s.syncRow \in Int /\ s.scrolledCount \in Nat
      /\ s.scrapedLineCount \in Nat /\ info.top <= BUFFER_LINE_COUNT
      /\ BUFFER_LINE_COUNT \in Nat
  <2>1. info \in ScrollingInfos
    BY <1>1 DEF ScraperInv, ScraperTypes, ModeFitsInfo, TentativePhases, ScrollingInfos
  <2> QED BY <2>1, InfoFacts, AllNumbers
<1>6. s'.dirtyLineCount \in Nat /\ row \in -1..s.syncRow
  BY ScraperFacts, MarkerRowFound DEF ScraperInv, ScraperTypes
<1>7. FullHeight' /\ PlaceKept'
  BY <1>1, <1>3, <1>4 DEF AssertInv, FullHeight, PlaceKept, Resizing
<1>8. DirtyNear'
  <2> SUFFICES ASSUME Seen'
               PROVE  /\ pc' = "frozen" => \/ s'.dirtyLineCount <= s'.dirtyWindowTop + Tallest
                                           \/ s'.dirtyLineCount <= info.top + Tallest
                      /\ pc' = "read" => s'.dirtyLineCount <= info.top + Tallest
    BY <1>1 DEF DirtyNear, Resizing
  <2>1. \/ s.dirtyLineCount <= s.dirtyWindowTop + Tallest
        \/ s.dirtyLineCount <= info.top + Tallest
    BY <1>1, <1>4 DEF AssertInv, DirtyNear
  <2> QED BY <1>2, <1>5, <1>6, <2>1
<1>9. MarkerPlaced'
  <2> SUFFICES ASSUME Seen'
               PROVE  /\ s'.scrapedLineCount >= s'.scrolledCount
                      /\ s'.syncRow # -1 =>
                           s'.syncRow >= 1 /\ (pc' = "read" => info.top < s'.syncRow + MarkerReach)
    BY <1>1 DEF MarkerPlaced
  <2>1. s.scrapedLineCount >= s.scrolledCount /\ (s.syncRow # -1 => s.syncRow >= 1)
    BY <1>4 DEF AssertInv, MarkerPlaced
  <2>2. CASE s' = s /\ pc' = "frozen"
    BY <2>1, <2>2
  <2>3. CASE s.syncRow = -1
    BY <1>1, <1>2, <1>5, <2>1, <2>3
  <2>4. CASE s.syncRow # -1 /\ ~(s' = s /\ pc' = "frozen")
    <3>1. row # -1 /\ s'.syncRow = row
      BY <1>2, <2>4
    <3>2. 1 <= row /\ row \in Int /\ s.scrolledCount + (s.syncRow - row) <= s.scrapedLineCount
      BY <1>1, <1>4, <2>4, <3>1, MarkerFoundClose DEF Scraping, TentativePhases
    <3> QED BY <1>2, <1>5, <2>4, <3>1, <3>2
  <2> QED BY <1>2, <2>2, <2>3, <2>4
<1>10. MarkerClose'
  <2>1. ASSUME NEW n \in Int, Near(n) PROVE Near(n + 0)'
    <3>1. n + 0 = n
      OBVIOUS
    <3>2. con.top - MaxBurst <= n
      BY <1>1, <2>1 DEF Near, Scraping, TentativePhases
    <3> QED BY <1>1, <3>1, <3>2 DEF Near, Resizing
  <2>2. 0 = g'.burst - g.burst - 0
    BY <1>1, AllNumbers
  <2>3. BufferHeight(con') = BufferHeight(con) /\ con'.top = con.top /\ MarkersKept(con, con', 0)
    BY <1>1, <1>3, BufKept
  <2>4. s'.scrapedLineCount = s.scrapedLineCount
    BY <1>2
  <2>5. Seen => s'.syncRow = s.syncRow \/ s'.syncRow \in MarkerColumns
    <3> SUFFICES ASSUME Seen, s'.syncRow # s.syncRow PROVE s'.syncRow \in MarkerColumns
      OBVIOUS
    <3>1. s.syncRow # -1 /\ row # -1 /\ s'.syncRow = row
      BY <1>1, <1>2
    <3> QED BY <1>1, <3>1, MarkerFoundClose DEF Scraping, TentativePhases
  <2>6. CASE Seen
    BY <1>1, <1>4, <2>1, <2>2, <2>3, <2>4, <2>5, <2>6, MarkerCloseKept DEF AssertInv
  <2>7. CASE ~Seen
    BY <1>4, <2>7 DEF MarkerClose
  <2> QED BY <2>6, <2>7
<1>11. TopExpected'
  BY <1>1, <1>2, <1>5 DEF AssertInv, TopExpected
<1>12. g'.missed \/ s'.failed = s.failed
  <2>0. ~s.directMode
    BY <1>1 DEF ScraperInv, ModeFitsInfo, TentativePhases
  <2> SUFFICES ASSUME Seen, s' # s PROVE s'.failed = s.failed
    BY <1>1, <2>0 DEF Seen
  <2>1. s.scrolledCount <= s.scrapedLineCount
    BY DEF AssertInv, MarkerPlaced
  <2>2. CASE s.syncRow = -1
    BY <1>2, <1>5, <1>6, <2>1, <2>2
  <2>3. CASE s.syncRow # -1
    <3>1. row # -1
      BY <1>2, <2>3
    <3>2. s.scrolledCount + (s.syncRow - row) <= s.scrapedLineCount
      BY <1>1, <2>3, <3>1, MarkerFoundClose DEF Scraping, TentativePhases
    <3> QED BY <1>2, <3>2
  <2> QED BY <2>2, <2>3
<1> QED BY <1>7, <1>8, <1>9, <1>10, <1>11, <1>12 DEF AssertInv

\* A scrape leaves the marker where it was found, and has scraped up to the window.
LEMMA MarkerCloseScraped ==
  ASSUME HistoryFits, ScraperInv', PositionInv', pc' \in {"idle", "resize"}, NEW top \in Nat,
         con'.top <= top + g'.burst,
         s'.scrapedLineCount = s'.scrolledCount + top,
         Seen' /\ s'.syncRow # -1 => /\ top < s'.syncRow + MarkerReach
                                     /\ \A i \in MarkerColumns' : i = s'.syncRow
  PROVE  MarkerClose'
<1> SUFFICES ASSUME Seen', s'.syncRow # -1, NEW i \in MarkerColumns'
             PROVE  /\ \A j \in MarkerColumns' : i = j
                    /\ i <= s'.syncRow
                    /\ i = s'.syncRow \/ con'.top >= BUFFER_LINE_COUNT - Tallest
                    /\ Near(i + MarkerReach + Tallest + g.burst)'
                    /\ Near(i + Ahead + Tallest + g.burst)'
  BY DEF MarkerClose
<1>1. /\ s' \in Scrapers /\ con' \in Consoles /\ g'.burst \in 0..MaxBurst
  BY DEF ScraperInv, ScraperTypes, PositionInv, HeightsOK
<1>2. /\ s'.syncRow \in Int /\ s'.scrolledCount \in Nat /\ con'.top \in Nat /\ g'.burst \in Nat
      /\ Tallest \in Nat \ {0} /\ MarkerReach \in Nat
  BY <1>1, ScraperFacts, ConsoleFacts, HeightsFit, Sizes DEF MarkerReach
<1>3. i = s'.syncRow /\ top < s'.syncRow + MarkerReach /\ \A j \in MarkerColumns' : i = j
  OBVIOUS
<1>4. pc' \notin Scraping /\ ~Resizing' /\ pc' \notin {"shrinkWindow", "resizeBuffer", "expandWindow"}
  BY DEF Scraping, TentativePhases, Resizing
<1>5. Ahead' = s'.scrapedLineCount - s'.scrolledCount - s'.syncRow
  BY DEF Ahead
<1>6. con'.top <= i + MarkerReach + Tallest + g'.burst
  BY <1>2, <1>3
<1>7. con'.top <= i + Ahead' + Tallest + g'.burst
  <2>1. i + Ahead' = top
    BY <1>2, <1>3, <1>5
  <2>2. con'.top <= top + Tallest + g'.burst
    BY <1>2
  <2> QED BY <2>1, <2>2
<1>8. Near(i + MarkerReach + Tallest + g.burst)'
  BY <1>4, <1>6 DEF Near
<1>9. Near(i + Ahead + Tallest + g.burst)'
  BY <1>4, <1>7 DEF Near
<1> QED BY <1>2, <1>3, <1>8, <1>9

LEMMA CheckMarkerAssert ==
  ASSUME HistoryFits, ScraperInv, ScraperInv', PositionInv, PositionInv', HeightKept, AssertInv,
         CheckMarker
  PROVE  AssertInv' /\ s'.failed = s.failed
<1>1. /\ pc = "checkMarker" /\ ~s.directMode /\ UNCHANGED <<con, info, g>> /\ SameFlags(s, s')
      /\ s'.syncRow = s.syncRow /\ s'.dirtyWindowTop = s.dirtyWindowTop
      /\ s'.scrolledCount = s.scrolledCount /\ s'.syncCounter = s.syncCounter
      /\ s'.dirtyLineCount = s.dirtyLineCount \/ s'.dirtyLineCount <= info.top + info.height
      /\ s'.failed = s.failed
      /\ \/ pc' = "frozen" /\ s'.scrapedLineCount = s.scrapedLineCount
            /\ s'.dirtyLineCount = s.dirtyLineCount
         \/ pc' = "idle" /\ s.syncRow \in MarkerRows
            /\ s'.scrapedLineCount = info.top + s.scrolledCount
  BY CheckMarkerDoes
<1>2. /\ ~s.resizing /\ con \in Consoles /\ s'.directMode = s.directMode
      /\ s'.resizing = s.resizing
  BY <1>1 DEF HeightKept, TentativePhases, ScraperInv, ScraperTypes, SameFlags
<1>3. Seen' <=> Seen
  BY <1>1, <1>2 DEF Seen
<1>4. /\ info.top \in Nat /\ info.height \in Nat /\ info.height <= Tallest
      /\ s.dirtyLineCount \in Nat /\ con.top \in Nat /\ g.burst \in Nat
      /\ Tallest \in Nat \ {0} /\ s.syncRow \in Int /\ s.scrolledCount \in Nat
      /\ s.scrapedLineCount \in Nat
  BY AllNumbers
<1>5. s'.dirtyLineCount \in Nat /\ BufferHeight(con') = BufferHeight(con)
  BY <1>1, ScraperFacts DEF ScraperInv, ScraperTypes
<1>6. s.dirtyWindowTop = info.top /\ con.top <= info.top + g.burst
  BY <1>1 DEF PositionInv, NotUp, NotFarDown, Scraping, TentativePhases
<1>7. Seen => s'.dirtyLineCount <= info.top + Tallest
  <2>1. Seen => s.dirtyLineCount <= info.top + Tallest
    BY <1>1 DEF AssertInv, DirtyNear
  <2> QED BY <1>1, <1>4, <1>5, <2>1
<1>8. FullHeight' /\ PlaceKept' /\ DirtyNear' /\ TopExpected'
  BY <1>1, <1>2, <1>3, <1>5, <1>6, <1>7
     DEF AssertInv, FullHeight, PlaceKept, DirtyNear, TopExpected, Resizing
<1>9. MarkerPlaced'
  BY <1>1, <1>3, <1>4 DEF AssertInv, MarkerPlaced
<1>10. CASE pc' = "frozen"
  <2>1. ASSUME NEW n \in Int, Near(n) PROVE Near(n + 0)'
    <3>1. n + 0 = n
      OBVIOUS
    <3>2. con.top - MaxBurst <= n
      BY <1>1, <2>1 DEF Near, Scraping, TentativePhases
    <3> QED BY <1>1, <1>10, <3>1, <3>2 DEF Near, Resizing
  <2>2. 0 = g'.burst - g.burst - 0
    BY <1>1, <1>4
  <2>3. con'.top = con.top /\ MarkersKept(con, con', 0)
    BY <1>1, <1>2, BufKept
  <2>4. s'.scrapedLineCount = s.scrapedLineCount
    BY <1>1, <1>10
  <2>5. MarkerClose'
    BY <1>1, <1>3, <1>5, <2>1, <2>2, <2>3, <2>4, MarkerCloseKept DEF AssertInv
  <2> QED BY <1>1, <1>8, <1>9, <2>5 DEF AssertInv
<1>11. CASE pc' = "idle"
  <2>1. Seen' /\ s'.syncRow # -1 => /\ info.top < s'.syncRow + MarkerReach
                                    /\ \A i \in MarkerColumns' : i = s'.syncRow
    <3> SUFFICES ASSUME Seen', s'.syncRow # -1
                 PROVE  /\ info.top < s.syncRow + MarkerReach
                        /\ \A i \in MarkerColumns' : i = s.syncRow
      BY <1>1
    <3>1. info.top < s.syncRow + MarkerReach
      BY <1>1, <1>3 DEF AssertInv, MarkerPlaced
    <3>2. s.syncRow \in MarkerRows
      BY <1>1, <1>11
    <3>3. \A i \in MarkerColumns : i = s.syncRow
      BY <1>1, <1>3, <3>2, MarkerFoundClose DEF Scraping, TentativePhases
    <3>4. MarkerColumns' = MarkerColumns
      BY <1>1 DEF MarkerColumns, MarkerColumn
    <3> QED BY <3>1, <3>3, <3>4
  <2>2. con'.top <= info.top + g'.burst /\ s'.scrapedLineCount = s'.scrolledCount + info.top
    BY <1>1, <1>4, <1>6, <1>11
  <2>3. MarkerClose'
    BY <1>4, <1>11, <2>1, <2>2, MarkerCloseScraped
  <2> QED BY <1>1, <1>8, <1>9, <2>3 DEF AssertInv
<1> QED BY <1>1, <1>10, <1>11

LEMMA FrozenScrapeAssert ==
  ASSUME HistoryFits, ScraperInv, ScraperInv', PositionInv, PositionInv', Counters, AssertInv,
         FrozenScrape
  PROVE  AssertInv' /\ (g'.missed \/ s'.failed = s.failed)
<1>1. PICK row \in MarkerRows, create \in BOOLEAN, anew \in BOOLEAN :
        FrozenEffect(row, create, anew)
  BY FrozenScrapeDoes
<1>2. /\ pc = "frozen" /\ ~s.directMode /\ con.frozen /\ info \in ScrollingInfos
      /\ row \in -1..s.syncRow
      /\ create <=> newSyncRow(info) >= row + SYNC_MARKER_LEN + SYNC_MARKER_MARGIN
      /\ s.syncRow # -1 /\ row = -1 => anew
      /\ anew => \/ s.syncRow # -1 /\ row = -1
                 \/ info.top < s.dirtyWindowTop /\ s.dirtyWindowTop # -1
      /\ anew \/ s.dirtyWindowTop = -1 \/ info.top >= s.dirtyWindowTop
      /\ pc' = (IF s.resizing THEN "resize" ELSE "idle") /\ info' = info
      /\ SameFlags(s, s') /\ s'.dirtyWindowTop = info.top
      /\ s'.syncRow = IF create THEN newSyncRow(info) ELSE IF anew THEN -1 ELSE row
      /\ s'.scrolledCount = IF anew THEN 0 ELSE s.scrolledCount + (s.syncRow - row)
      /\ s'.syncCounter = IF create THEN s.syncCounter + 1 ELSE s.syncCounter
      /\ anew \/ s.dirtyLineCount <= info.top + Tallest => s'.dirtyLineCount <= info.top + Tallest
      /\ s'.scrapedLineCount = info.top + s'.scrolledCount
      /\ anew \/ s.scrolledCount + (s.syncRow - row) <= s.scrapedLineCount => s'.failed = s.failed
      /\ con'.top = con.top /\ BufferHeight(con') = BufferHeight(con)
      /\ DOMAIN con'.buf = DOMAIN con.buf
      /\ g'.burst = g.burst
      /\ anew \/ (g.missed => g'.missed)
  BY <1>1 DEF FrozenEffect
<1>3. IF create
      THEN \A r \in DOMAIN con.buf :
             \/ /\ r \in newSyncRow(info)..(newSyncRow(info) + SYNC_MARKER_LEN - 1)
                /\ con'.buf[r] = Marker(s.syncCounter + 1, r - newSyncRow(info))
             \/ con'.buf[r] \in {Blank, con.buf[r]}
      ELSE con'.buf = con.buf
  BY <1>1 DEF FrozenEffect
<1>4. /\ info.top \in Nat /\ info.top <= BUFFER_LINE_COUNT /\ BUFFER_LINE_COUNT \in Nat
      /\ s.dirtyLineCount \in Nat /\ con.top \in Nat /\ g.burst \in Nat
      /\ Tallest \in Nat \ {0} /\ s.syncRow \in Int /\ s.syncRow >= -1
      /\ s.scrolledCount \in Nat /\ s.scrapedLineCount \in Nat /\ s.dirtyWindowTop \in Int
      /\ SYNC_MARKER_LEN \in Nat \ {0} /\ SYNC_MARKER_MARGIN \in Nat \ {0}
      /\ row \in Int /\ row >= -1 /\ row <= s.syncRow
  BY <1>2, AllNumbers, InfoFacts, Sizes
<1>5. /\ newSyncRow(info) \in Int
      /\ newSyncRow(info) = info.top - SYNC_MARKER_LEN - SYNC_MARKER_MARGIN
      /\ MarkerReach = 2 * (SYNC_MARKER_LEN + SYNC_MARKER_MARGIN)
  BY <1>4 DEF newSyncRow, MarkerReach
<1>6. Seen' => anew \/ Seen
  BY <1>2 DEF Seen
<1>7. ASSUME Seen, ~anew, s.syncRow # -1
      PROVE  /\ row # -1 /\ row >= 1 /\ \A i \in MarkerColumns : i = row
             /\ s.scrolledCount + (s.syncRow - row) <= s.scrapedLineCount
  <2>1. row # -1
    BY <1>2, <1>7
  <2> QED BY <1>2, <1>7, <2>1, MarkerFoundClose DEF Scraping
<1>8. g'.missed \/ s'.failed = s.failed
  <2>1. CASE anew
    BY <1>2, <2>1
  <2>2. CASE ~anew /\ ~g'.missed
    <3>1. Seen
      BY <1>2, <2>2 DEF Seen
    <3>2. s.scrapedLineCount >= s.scrolledCount
      BY <3>1 DEF AssertInv, MarkerPlaced
    <3>3. s.scrolledCount + (s.syncRow - row) <= s.scrapedLineCount
      BY <1>4, <1>7, <2>2, <3>1, <3>2
    <3> QED BY <1>2, <3>3
  <2> QED BY <2>1, <2>2
<1>9. FullHeight' /\ PlaceKept'
  <2> SUFFICES ASSUME Seen', s.resizing
               PROVE  /\ BufferHeight(con) = BUFFER_LINE_COUNT
                      /\ con.top >= info.top
    BY <1>2 DEF FullHeight, PlaceKept, Resizing
  <2>1. \/ con.frozen /\ con.top = info.top /\ BufferHeight(con) = BUFFER_LINE_COUNT
        \/ s.syncRow = -1 /\ s.dirtyWindowTop = -1 /\ (~g.missed => con.top >= info.top)
    BY <1>2 DEF AssertInv, PlaceKept
  <2>2. CASE con.top = info.top /\ BufferHeight(con) = BUFFER_LINE_COUNT
    BY <1>4, <2>2
  <2>3. CASE s.syncRow = -1 /\ s.dirtyWindowTop = -1 /\ (~g.missed => con.top >= info.top)
    <3>1. ~anew
      BY <1>2, <2>3
    <3>2. Seen
      BY <1>6, <3>1
    <3>3. BufferHeight(con) = BUFFER_LINE_COUNT
      BY <1>2, <3>2 DEF AssertInv, FullHeight
    <3> QED BY <2>3, <3>2, <3>3 DEF Seen
  <2> QED BY <2>1, <2>2, <2>3
<1>10. Seen' => s'.dirtyLineCount <= info.top + Tallest
  <2> SUFFICES ASSUME Seen' PROVE anew \/ s.dirtyLineCount <= info.top + Tallest
    BY <1>2
  <2>1. Seen => \/ s.dirtyLineCount <= s.dirtyWindowTop + Tallest
                \/ s.dirtyLineCount <= info.top + Tallest
    BY <1>2 DEF AssertInv, DirtyNear
  <2> QED BY <1>2, <1>4, <1>6, <2>1
<1>11. DirtyNear' /\ TopExpected'
  <2>1. pc' \in {"idle", "resize"}
    BY <1>2
  <2> QED BY <1>2, <1>4, <1>10, <2>1 DEF DirtyNear, TopExpected, Resizing
<1>12. Seen' /\ s'.syncRow # -1 => s'.syncRow >= 1 /\ info.top < s'.syncRow + MarkerReach
  <2> SUFFICES ASSUME Seen', s'.syncRow # -1
               PROVE  s'.syncRow >= 1 /\ info.top < s'.syncRow + MarkerReach
    OBVIOUS
  <2>1. CASE create
    BY <1>2, <1>4, <1>5, <2>1
  <2>2. CASE ~create
    <3>1. ~anew /\ s'.syncRow = row /\ row # -1
      BY <1>2, <2>2
    <3>2. row >= 1
      BY <1>4, <1>6, <1>7, <3>1
    <3>3. info.top < row + MarkerReach
      BY <1>2, <1>4, <1>5, <2>2
    <3> QED BY <3>1, <3>2, <3>3
  <2> QED BY <2>1, <2>2
<1>13. MarkerPlaced'
  <2>1. s'.scrolledCount \in Nat
    BY ScraperFacts DEF ScraperInv, ScraperTypes
  <2>2. s'.scrapedLineCount >= s'.scrolledCount /\ s'.scrapedLineCount = s'.scrolledCount + info.top
    BY <1>2, <1>4, <2>1
  <2> QED BY <1>2, <1>12, <2>2 DEF MarkerPlaced
<1>14. Seen' /\ s'.syncRow # -1 => \A i \in MarkerColumns' : i = s'.syncRow
  <2> SUFFICES ASSUME Seen', s'.syncRow # -1 PROVE \A i \in MarkerColumns' : i = s'.syncRow
    OBVIOUS
  <2>1. CASE create
    <3> DEFINE place == newSyncRow(info)
    <3>1. /\ place \in Int /\ s'.syncRow = place /\ s'.syncCounter = s.syncCounter + 1
          /\ \A r \in DOMAIN con.buf :
               \/ /\ r \in place..(place + SYNC_MARKER_LEN - 1)
                  /\ con'.buf[r] = Marker(s.syncCounter + 1, r - place)
               \/ con'.buf[r] \in {Blank, con.buf[r]}
      BY <1>2, <1>3, <1>5, <2>1
    <3> HIDE DEF place
    <3>2. \A i \in DOMAIN con'.buf : MarkerColumn(s', con', i) => i = place
      BY <1>2, <3>1, MarkerIsNew
    <3> QED BY <3>1, <3>2 DEF MarkerColumns
  <2>2. CASE ~create
    <3>1. ~anew /\ s'.syncRow = row /\ row # -1
      BY <1>2, <2>2
    <3>2. \A i \in MarkerColumns : i = row
      BY <1>4, <1>6, <1>7, <3>1
    <3>3. MarkerColumns' = MarkerColumns
      BY <1>2, <1>3, <2>2 DEF MarkerColumns, MarkerColumn
    <3> QED BY <3>1, <3>2, <3>3
  <2> QED BY <2>1, <2>2
<1>15. MarkerClose'
  <2>1. con'.top <= info.top + g'.burst
    BY <1>2 DEF PositionInv, NotFarDown, Scraping
  <2>2. s'.scrapedLineCount = s'.scrolledCount + info.top /\ pc' \in {"idle", "resize"}
    <3>1. s'.scrolledCount \in Nat
      BY ScraperFacts DEF ScraperInv, ScraperTypes
    <3> QED BY <1>2, <1>4, <3>1
  <2> QED BY <1>4, <1>12, <1>14, <2>1, <2>2, MarkerCloseScraped
<1> QED BY <1>8, <1>9, <1>11, <1>13, <1>15 DEF AssertInv

LEMMA ClearHistoryAssert ==
  ASSUME HistoryFits, ScraperInv, ScraperInv', PositionInv, PositionInv', Counters, AssertInv,
         ClearHistory
  PROVE  AssertInv' /\ (g'.missed \/ s'.failed = s.failed)
<1>1. /\ pc = "resize" /\ pc' = "shrinkWindow" /\ info' = info
      /\ s'.directMode = s.directMode /\ s'.ptyRows = s.ptyRows
      /\ s'.dirtyWindowTop = s.dirtyWindowTop
      /\ s'.scrolledCount = s.scrolledCount /\ s'.dirtyLineCount = s.dirtyLineCount
      /\ con'.top = con.top /\ con'.height = con.height
      /\ BufferHeight(con') = BufferHeight(con) /\ DOMAIN con'.buf = DOMAIN con.buf
      /\ s'.scrapedLineCount = s.scrapedLineCount /\ (g.missed => g'.missed)
      /\ g'.burst = g.burst
      /\ s.directMode => s'.failed = s.failed
      /\ ~s.directMode => \E row \in Int : ClearedEffect(row)
  BY ClearHistoryDoes DEF SameFlags
<1>2. Seen' => Seen
  BY <1>1 DEF Seen
<1>3. FullHeight' /\ PlaceKept' /\ DirtyNear' /\ TopExpected'
  BY <1>1, <1>2 DEF AssertInv, FullHeight, PlaceKept, DirtyNear, TopExpected, Resizing
<1>4. CASE s.directMode
  <2>1. ~Seen'
    BY <1>1, <1>4 DEF Seen
  <2> QED BY <1>1, <1>3, <1>4, <2>1 DEF AssertInv, MarkerPlaced, MarkerClose
<1>5. CASE ~s.directMode
  <2> DEFINE limit == BUFFER_LINE_COUNT - s.ptyRows - SYNC_MARKER_LEN - SYNC_MARKER_MARGIN
  <2>1. PICK row \in Int : ClearedEffect(row)
    BY <1>1, <1>5
  <2>2. /\ (row = -1 <=> s.syncRow = -1) /\ s'.syncRow = row /\ row \in {s.syncRow, limit}
        /\ row # -1 => s'.syncCounter = s.syncCounter + 1
        /\ row = -1 \/ row >= 1 => s'.failed = s.failed
        /\ \A r \in DOMAIN con.buf :
             \/ /\ row # -1 /\ r \in row..(row + SYNC_MARKER_LEN - 1)
                /\ con'.buf[r] = Marker(s.syncCounter + 1, r - row)
             \/ con'.buf[r] \in {Blank, con.buf[r]}
    BY <2>1 DEF ClearedEffect
  <2>3. /\ con.top \in Nat /\ con.height \in Nat /\ con.height <= Tallest
        /\ con.top + con.height <= BufferHeight(con) /\ BufferHeight(con) \in Nat
        /\ info.top \in Nat /\ s.scrolledCount \in Nat /\ s.scrapedLineCount \in Nat
        /\ s.dirtyLineCount \in Nat /\ s.dirtyLineCount <= BUFFER_LINE_COUNT
        /\ s.ptyRows \in Nat \ {0} /\ s.ptyRows <= Tallest /\ g.burst \in Nat
        /\ Tallest \in Nat /\ BUFFER_LINE_COUNT \in Nat /\ MarkerReach \in Nat
    BY AllNumbers
  <2>4. /\ MarkerReach = 2 * (SYNC_MARKER_LEN + SYNC_MARKER_MARGIN)
        /\ SYNC_MARKER_LEN \in Nat \ {0} /\ SYNC_MARKER_MARGIN \in Nat \ {0}
    BY Sizes DEF MarkerReach
  <2>5. limit >= 1 /\ limit \in Int
    <3>1. MarkerReach + 3 * Tallest <= BUFFER_LINE_COUNT
      BY AllNumbers
    <3> QED BY <2>3, <2>4, <3>1
  <2> HIDE DEF limit
  <2>6. Seen' => row = -1 \/ row >= 1
    BY <1>2, <2>2, <2>5 DEF AssertInv, MarkerPlaced
  <2>7. MarkerPlaced'
    BY <1>1, <1>2, <2>2, <2>6 DEF AssertInv, MarkerPlaced
  <2>8. g'.missed \/ s'.failed = s.failed
    BY <1>1, <1>5, <2>2, <2>6 DEF Seen
  <2>9. MarkerClose'
    <3> SUFFICES ASSUME Seen', BufferHeight(con') = BUFFER_LINE_COUNT, row # -1,
                        NEW i \in MarkerColumns'
                 PROVE  /\ \A j \in MarkerColumns' : i = j
                        /\ i <= s'.syncRow
                        /\ i = s'.syncRow \/ con'.top >= BUFFER_LINE_COUNT - Tallest
                        /\ Near(i + MarkerReach + Tallest + g.burst)'
                        /\ Near(i + Ahead + Tallest + g.burst)'
      BY <2>2 DEF MarkerClose
    <3>1. \A j \in DOMAIN con'.buf : MarkerColumn(s', con', j) => j = row
      <4>1. /\ s'.syncCounter = s.syncCounter + 1
            /\ \A r \in DOMAIN con.buf :
                 \/ /\ r \in row..(row + SYNC_MARKER_LEN - 1)
                    /\ con'.buf[r] = Marker(s.syncCounter + 1, r - row)
                 \/ con'.buf[r] \in {Blank, con.buf[r]}
        BY <2>2
      <4> QED BY <1>1, <4>1, MarkerIsNew
    <3>2. \A j \in MarkerColumns' : j = row
      BY <3>1 DEF MarkerColumns
    <3>3. i = row
      BY <3>2
    <3>4. /\ info.top < s.syncRow + MarkerReach /\ s.syncRow \in Int
          /\ s.scrapedLineCount = s.scrolledCount + info.top
          /\ con.top <= info.top + g.burst /\ s.dirtyLineCount <= info.top + Tallest
      BY <1>1, <1>2, <1>5, <2>2, AllNumbers
         DEF AssertInv, MarkerPlaced, DirtyNear, PositionInv, NotFarDown
    <3>5. Ahead' = s.scrapedLineCount - s.scrolledCount - row
      BY <1>1, <2>2 DEF Ahead
    <3>6. ASSUME NEW n \in Int, info.top + Tallest + g.burst <= n \/ BUFFER_LINE_COUNT <= n
          PROVE  Near(n)'
      <4>1. /\ con.top + con.height <= n /\ (con.top + s.ptyRows <= n \/ BUFFER_LINE_COUNT <= n)
            /\ s.dirtyLineCount - s.ptyRows <= n
        BY <1>1, <2>3, <3>4, <3>6
      <4> QED BY <1>1, <4>1 DEF Near, Resizing, Scraping, TentativePhases
    <3>7. Near(i + MarkerReach + Tallest + g.burst)'
      <4>1. PICK n \in Int : n = row + MarkerReach + Tallest + g.burst
        BY <2>3
      <4>2. info.top + Tallest + g.burst <= n \/ BUFFER_LINE_COUNT <= n
        <5>1. CASE row = s.syncRow
          BY <2>3, <3>4, <4>1, <5>1
        <5>2. CASE row = limit
          BY <2>3, <2>4, <4>1, <5>2 DEF limit
        <5> QED BY <2>2, <5>1, <5>2
      <4>3. Near(n)'
        BY <3>6, <4>2
      <4> QED BY <1>1, <3>3, <4>1, <4>3 DEF Near
    <3>8. Near(i + Ahead + Tallest + g.burst)'
      <4>1. PICK n \in Int : n = info.top + Tallest + g.burst
        BY <2>3
      <4>2. n = i + Ahead' + Tallest + g'.burst
        BY <1>1, <2>3, <3>3, <3>4, <3>5, <4>1
      <4>3. Near(n)'
        BY <2>3, <3>6, <4>1
      <4> QED BY <4>2, <4>3 DEF Near
    <3> QED BY <2>2, <3>2, <3>3, <3>7, <3>8
  <2> QED BY <1>3, <2>7, <2>8, <2>9 DEF AssertInv
<1> QED BY <1>4, <1>5

LEMMA ShrinkWindowAssert ==
  ASSUME HistoryFits, ScraperInv, ScraperInv', PositionInv, PositionInv', AssertInv, ShrinkWindow
  PROVE  AssertInv' /\ s'.failed = s.failed
<1>0. con.cur \in Window(con)
  BY DEF PositionInv, HeightsOK
<1>1. PICK height \in Nat \ {0}, top \in Nat, finalTop \in Int :
           /\ height = IF BufferHeight(con) <= s.ptyRows THEN BufferHeight(con) ELSE s.ptyRows
           /\ top <= con.top /\ top + height <= BufferHeight(con)
           /\ top = con.top \/ top + height = BufferHeight(con)
           /\ finalTop <= con.cur /\ con.cur <= finalTop + height - 1
           /\ \/ finalTop = top
              \/ finalTop = con.cur /\ con.cur < top
              \/ finalTop = con.cur - height + 1 /\ con.cur >= top + height
           /\ pc = "shrinkWindow" /\ pc' = "resizeBuffer" /\ UNCHANGED <<s, info, g>>
           /\ con'.top = finalTop
           /\ con'.buf = con.buf /\ BufferHeight(con') = BufferHeight(con)
  BY <1>0, ShrinkWindowDoes
<1>2. /\ con.top \in Nat /\ con.height \in Nat /\ con.cur \in Nat /\ BufferHeight(con) \in Nat
      /\ con.top <= con.cur /\ con.cur < con.top + con.height
      /\ con.top + con.height <= BufferHeight(con) /\ info.top \in Nat
      /\ s.ptyRows \in Nat \ {0} /\ s.ptyRows <= Tallest /\ g.burst \in Nat
      /\ Tallest \in Nat /\ BUFFER_LINE_COUNT \in Nat /\ Tallest < BUFFER_LINE_COUNT
  BY AllNumbers
<1>3. Seen' <=> Seen
  BY <1>1 DEF Seen
<1>4. Seen => BufferHeight(con) = BUFFER_LINE_COUNT /\ height = s.ptyRows
  <2>1. Seen => BufferHeight(con) = BUFFER_LINE_COUNT
    BY <1>1 DEF AssertInv, FullHeight
  <2> QED BY <1>1, <1>2, <2>1
<1>5. Seen => con'.top >= con.top \/ con'.top >= BUFFER_LINE_COUNT - Tallest
  <2> SUFFICES ASSUME Seen PROVE finalTop >= con.top \/ finalTop >= BUFFER_LINE_COUNT - Tallest
    BY <1>1
  <2>1. top = con.top \/ top >= BUFFER_LINE_COUNT - Tallest
    BY <1>1, <1>2, <1>4
  <2> QED BY <1>1, <1>2, <2>1
<1>6. PlaceKept'
  <2>1. Seen => con.top >= info.top \/ con.top >= BUFFER_LINE_COUNT - Tallest
    BY <1>1 DEF AssertInv, PlaceKept, Resizing
  <2>2. Seen => con'.top >= info.top \/ con'.top >= BUFFER_LINE_COUNT - Tallest
    BY <1>1, <1>2, <1>5, <2>1
  <2> QED BY <1>1, <1>3, <2>2 DEF PlaceKept, Resizing
<1>7. FullHeight' /\ DirtyNear' /\ MarkerPlaced' /\ TopExpected'
  BY <1>1, <1>3 DEF AssertInv, FullHeight, DirtyNear, MarkerPlaced, TopExpected, Resizing
<1>8. MarkerClose'
  <2>1. ASSUME Seen, NEW n \in Int, Near(n) PROVE Near(n + 0)'
    <3>1. /\ con.top + con.height <= n /\ (con.top + s.ptyRows <= n \/ BUFFER_LINE_COUNT <= n)
          /\ s.dirtyLineCount - s.ptyRows <= n
      BY <1>1, <2>1 DEF Near, Resizing
    <3>2. finalTop + s.ptyRows <= n
      BY <1>1, <1>2, <1>4, <2>1, <3>1
    <3>3. con'.top + s'.ptyRows <= n + 0 /\ s'.dirtyLineCount - s'.ptyRows <= n + 0
      BY <1>1, <3>1, <3>2
    <3> QED BY <1>1, <3>3 DEF Near, Scraping, TentativePhases
  <2>2. 0 = g'.burst - g.burst - 0
    BY <1>1, <1>2
  <2>3. MarkersKept(con, con', 0)
    BY <1>1, BufKept DEF ScraperInv, ScraperTypes
  <2>4. /\ s'.syncCounter = s.syncCounter /\ s'.syncRow = s.syncRow
        /\ s'.scrolledCount = s.scrolledCount /\ s'.scrapedLineCount = s.scrapedLineCount
    BY <1>1
  <2>5. Seen => (con.top >= BUFFER_LINE_COUNT - Tallest => con'.top >= BUFFER_LINE_COUNT - Tallest)
    BY <1>1, <1>2, <1>5
  <2> QED BY <1>1, <1>3, <2>1, <2>2, <2>3, <2>4, <2>5, MarkerCloseKept DEF AssertInv
<1> QED BY <1>1, <1>6, <1>7, <1>8 DEF AssertInv

LEMMA ResizeBufferAssert ==
  ASSUME HistoryFits, ScraperInv, ScraperInv', PositionInv, PositionInv', AssertInv, ResizeBuffer
  PROVE  AssertInv' /\ s'.failed = s.failed
<1>1. con.height <= s.ptyRows /\ pc = "resizeBuffer"
  BY DEF PositionInv, NotFarDown, ResizeBuffer
<1>2. PICK height \in Nat \ {0} :
        /\ height >= s.ptyRows
        /\ IF s.directMode THEN TRUE ELSE height = BUFFER_LINE_COUNT
        /\ pc' = "expandWindow" /\ UNCHANGED <<s, info, g>>
        /\ BufferHeight(con') = height
        /\ con'.top = IF con.top <= height - con.height THEN con.top ELSE height - con.height
        /\ con'.buf = [r \in 0..(height - 1) |-> At(con.buf, r, Blank)]
  BY <1>1, ResizeBufferDoes
<1>3. /\ con.top \in Nat /\ con.height \in Nat /\ BufferHeight(con) \in Nat
      /\ con.top + con.height <= BufferHeight(con) /\ s.ptyRows \in Nat /\ g.burst \in Nat
      /\ Tallest \in Nat /\ BUFFER_LINE_COUNT \in Nat
  BY AllNumbers
<1>4. Seen' <=> Seen
  BY <1>2 DEF Seen
<1>5. Seen => BufferHeight(con) = BUFFER_LINE_COUNT /\ BufferHeight(con') = BUFFER_LINE_COUNT
  BY <1>1, <1>2 DEF AssertInv, FullHeight, Seen
<1>6. Seen => con'.top = con.top
  <2> SUFFICES ASSUME Seen PROVE con.top <= height - con.height
    BY <1>2
  <2> QED BY <1>2, <1>3, <1>5
<1>7. FullHeight' /\ PlaceKept' /\ DirtyNear' /\ MarkerPlaced' /\ TopExpected'
  BY <1>1, <1>2, <1>4, <1>5, <1>6
     DEF AssertInv, FullHeight, PlaceKept, DirtyNear, MarkerPlaced, TopExpected, Resizing
<1>8. MarkerClose'
  <2>1. ASSUME Seen, NEW n \in Int, Near(n) PROVE Near(n + 0)'
    <3>1. n + 0 = n /\ con'.top = con.top
      BY <1>6, <2>1
    <3>2. con.top + s.ptyRows <= n /\ s.dirtyLineCount - s.ptyRows <= n
      BY <1>1, <2>1 DEF Near, Resizing
    <3> QED BY <1>2, <3>1, <3>2 DEF Near, Scraping, TentativePhases
  <2>2. 0 = g'.burst - g.burst - 0
    BY <1>2, <1>3
  <2>3. MarkersKept(con, con', 0)
    <3>1. \A r \in DOMAIN con'.buf : con'.buf[r] = At(con.buf, r, Blank)
      BY <1>2
    <3> QED BY <3>1, MarkersKeptByRows DEF ScraperInv, ScraperTypes
  <2>4. /\ s'.syncCounter = s.syncCounter /\ s'.syncRow = s.syncRow
        /\ s'.scrolledCount = s.scrolledCount /\ s'.scrapedLineCount = s.scrapedLineCount
    BY <1>2
  <2> QED BY <1>4, <1>5, <1>6, <2>1, <2>2, <2>3, <2>4, MarkerCloseKept DEF AssertInv
<1> QED BY <1>2, <1>7, <1>8 DEF AssertInv

LEMMA ExpandWindowAssert ==
  ASSUME HistoryFits, ScraperInv, ScraperInv', PositionInv, PositionInv', AssertInv, ExpandWindow
  PROVE  AssertInv' /\ s'.failed = s.failed
<1>0. con.cur \in Window(con)
  BY DEF PositionInv, HeightsOK
<1>1. PICK top \in Int, dirtyTop \in Int, finalTop \in Int :
           /\ pc = "expandWindow" /\ pc' = IF s.directMode THEN "direct" ELSE "idle"
           /\ top <= con.top
           /\ top = con.top \/ top + s.ptyRows = BufferHeight(con)
           /\ \/ dirtyTop = top
              \/ ~s.directMode /\ dirtyTop = s.dirtyLineCount - s.ptyRows
           /\ ~s.directMode => dirtyTop >= s.dirtyLineCount - s.ptyRows
           /\ dirtyTop >= top
           /\ finalTop <= con.cur
           /\ \/ finalTop = dirtyTop
              \/ finalTop = con.cur /\ con.cur < dirtyTop
              \/ finalTop = con.cur - s.ptyRows + 1 /\ con.cur >= dirtyTop + s.ptyRows
           /\ con'.buf = con.buf /\ BufferHeight(con') = BufferHeight(con)
           /\ con'.top \in {finalTop, con.top}
           /\ s'.directMode = s.directMode /\ s'.syncRow = s.syncRow
           /\ s'.syncCounter = s.syncCounter /\ s'.scrolledCount = s.scrolledCount
           /\ s'.dirtyLineCount = s.dirtyLineCount /\ s'.dirtyWindowTop = finalTop
           /\ s'.scrapedLineCount = s.scrapedLineCount
           /\ s'.failed = s.failed /\ g'.missed = g.missed
           /\ g'.burst = g.burst
  <2>1. PICK top \in Int, dirtyTop \in Int, finalTop \in Int :
           /\ pc = "expandWindow" /\ pc' = IF s.directMode THEN "direct" ELSE "idle"
           /\ top <= con.top
           /\ top = con.top \/ top + s.ptyRows = BufferHeight(con)
           /\ \/ dirtyTop = top
              \/ ~s.directMode /\ dirtyTop = s.dirtyLineCount - s.ptyRows
           /\ ~s.directMode => dirtyTop >= s.dirtyLineCount - s.ptyRows
           /\ dirtyTop >= top
           /\ finalTop <= con.cur
           /\ \/ finalTop = dirtyTop
              \/ finalTop = con.cur /\ con.cur < dirtyTop
              \/ finalTop = con.cur - s.ptyRows + 1 /\ con.cur >= dirtyTop + s.ptyRows
           /\ con'.buf = con.buf /\ BufferHeight(con') = BufferHeight(con)
           /\ IF finalTop >= 0 /\ finalTop + s.ptyRows <= BufferHeight(con)
              THEN con'.top = finalTop /\ con'.height = s.ptyRows
              ELSE con'.top = con.top /\ con'.height = con.height
           /\ s'.directMode = s.directMode /\ s'.syncRow = s.syncRow
           /\ s'.syncCounter = s.syncCounter /\ s'.scrolledCount = s.scrolledCount
           /\ s'.dirtyLineCount = s.dirtyLineCount /\ s'.dirtyWindowTop = finalTop
           /\ s'.scrapedLineCount = s.scrapedLineCount
           /\ s'.failed = s.failed /\ g'.missed = g.missed
           /\ g'.burst = g.burst
    BY <1>0, ExpandWindowDoes
  <2>2. con'.top \in {finalTop, con.top}
    BY <2>1
  <2> QED BY <2>1, <2>2
<1>2. /\ con.top \in Nat /\ con.height \in Nat /\ con.cur \in Nat /\ BufferHeight(con) \in Nat
      /\ con.top <= con.cur /\ con.cur < con.top + con.height
      /\ con.top + con.height <= BufferHeight(con) /\ info.top \in Nat
      /\ s.dirtyLineCount \in Nat /\ s.dirtyLineCount <= BUFFER_LINE_COUNT
      /\ s.ptyRows \in Nat \ {0} /\ s.ptyRows <= Tallest /\ g.burst \in Nat
      /\ Tallest \in Nat /\ BUFFER_LINE_COUNT \in Nat /\ Tallest < BUFFER_LINE_COUNT
  BY AllNumbers
<1>3. Seen' <=> Seen
  BY <1>1 DEF Seen
<1>4. Seen => /\ BufferHeight(con) = BUFFER_LINE_COUNT
              /\ s.dirtyLineCount <= info.top + Tallest
              /\ con.top >= info.top \/ con.top >= BUFFER_LINE_COUNT - Tallest
  BY <1>1 DEF AssertInv, FullHeight, DirtyNear, PlaceKept, Resizing
<1>5. Seen => pc' = "idle" /\ ~s.directMode
  BY <1>1 DEF Seen
<1>6. TopExpected'
  <2>1. finalTop <= BUFFER_LINE_COUNT
    <3>1. BufferHeight(con) <= BUFFER_LINE_COUNT
      BY <1>2 DEF PositionInv, HeightsOK
    <3> QED BY <1>1, <1>2, <3>1
  <2>2. g.missed \/ finalTop >= -1
    <3>1. g.missed \/ BufferHeight(con) >= s.ptyRows
      BY <1>1 DEF AssertInv, TopExpected
    <3>2. BufferHeight(con) >= s.ptyRows => finalTop >= -1
      BY <1>1, <1>2
    <3> QED BY <3>1, <3>2
  <2>3. pc' # "expandWindow"
    BY <1>1
  <2> QED BY <1>1, <2>1, <2>2, <2>3 DEF TopExpected
<1>7. DirtyNear'
  <2>1. Seen => s.dirtyLineCount <= finalTop + Tallest
    BY <1>1, <1>2, <1>4, <1>5
  <2> QED BY <1>1, <1>3, <1>5, <2>1 DEF DirtyNear, Resizing
<1>8. FullHeight' /\ PlaceKept' /\ MarkerPlaced'
  BY <1>1, <1>3, <1>5 DEF AssertInv, FullHeight, PlaceKept, MarkerPlaced, Resizing
<1>9. MarkerClose'
  <2>1. ASSUME Seen, NEW n \in Int, Near(n) PROVE Near(n + 0)'
    <3>1. con.top + s.ptyRows <= n /\ s.dirtyLineCount - s.ptyRows <= n
      BY <1>1, <2>1 DEF Near, Resizing
    <3>2. con.height <= s.ptyRows
      BY <1>1 DEF PositionInv, NotFarDown
    <3>3. con'.top <= n + 0
      BY <1>1, <1>2, <3>1, <3>2
    <3> QED BY <1>5, <2>1, <3>3 DEF Near, Scraping, TentativePhases, Resizing
  <2>2. 0 = g'.burst - g.burst - 0
    BY <1>1, <1>2
  <2>3. MarkersKept(con, con', 0)
    BY <1>1, BufKept DEF ScraperInv, ScraperTypes
  <2>4. Seen => (con.top >= BUFFER_LINE_COUNT - Tallest => con'.top >= BUFFER_LINE_COUNT - Tallest)
    BY <1>1, <1>2, <1>4
  <2> QED BY <1>1, <1>3, <2>1, <2>2, <2>3, <2>4, MarkerCloseKept DEF AssertInv
<1> QED BY <1>1, <1>6, <1>7, <1>8, <1>9 DEF AssertInv

LEMMA AppStepAssert ==
  ASSUME HistoryFits, ScraperInv, ScraperInv', PositionInv, PositionInv', HeightKept, AssertInv,
         NEW k \in {0, 1}, AppEffect(k)
  PROVE  AssertInv' /\ s'.failed = s.failed
<1>1. /\ ~con.frozen /\ UNCHANGED <<s, pc, info>>
      /\ g'.burst \in {g.burst, g.burst + 1}
      /\ con'.height <= con.height /\ con'.top + k <= con.top + (g'.burst - g.burst)
      /\ MarkersKept(con, con', k) /\ (g.missed => g'.missed) /\ AppSeen
      /\ k = 1 => con.cur = BufferHeight(con) - 1
  BY DEF AppEffect
<1>2. /\ con.top \in Nat /\ con.height \in Nat /\ con.height <= Tallest /\ con.cur \in Nat
      /\ con.cur < con.top + con.height /\ info.top \in Nat /\ g.burst \in Nat
      /\ s.ptyRows \in Nat /\ s.dirtyLineCount \in Nat /\ BufferHeight(con) \in Nat
      /\ Tallest \in Nat /\ MaxBurst \in Nat /\ BUFFER_LINE_COUNT \in Nat
  BY AllNumbers
<1>3. con'.top \in Nat /\ con'.height \in Nat
  BY ConsoleFacts DEF ScraperInv, ScraperTypes
<1>4. Seen' => Seen
  BY <1>1 DEF Seen
<1>5. pc # "resize"
  BY <1>1 DEF HeightKept
<1>6. Seen' /\ pc # "idle" => BufferHeight(con') = BufferHeight(con) /\ con'.top >= con.top
  BY <1>1 DEF AppSeen, Seen
<1>7. FullHeight' /\ DirtyNear' /\ MarkerPlaced'
  BY <1>1, <1>4, <1>6 DEF AssertInv, FullHeight, DirtyNear, MarkerPlaced, Resizing
<1>8. PlaceKept'
  <2>1. Seen' /\ Resizing => con'.top >= info.top \/ con'.top >= BUFFER_LINE_COUNT - Tallest
    <3> SUFFICES ASSUME Seen', Resizing
                 PROVE  con'.top >= info.top \/ con'.top >= BUFFER_LINE_COUNT - Tallest
      OBVIOUS
    <3>1. con.top >= info.top \/ con.top >= BUFFER_LINE_COUNT - Tallest
      BY <1>4 DEF AssertInv, PlaceKept
    <3>2. con'.top >= con.top
      BY <1>6 DEF Resizing
    <3> QED BY <1>2, <1>3, <3>1, <3>2
  <2>2. ~s.directMode /\ pc = "frozen" /\ s.resizing =>
          s.syncRow = -1 /\ s.dirtyWindowTop = -1 /\ (~g'.missed => con'.top >= info.top)
    <3> SUFFICES ASSUME ~s.directMode, pc = "frozen", s.resizing
                 PROVE  s.syncRow = -1 /\ s.dirtyWindowTop = -1
                        /\ (~g'.missed => con'.top >= info.top)
      OBVIOUS
    <3>1. s.syncRow = -1 /\ s.dirtyWindowTop = -1 /\ (~g.missed => con.top >= info.top)
      BY <1>1 DEF AssertInv, PlaceKept
    <3>2. ~g'.missed => Seen'
      BY <1>1 DEF Seen
    <3>3. ~g'.missed => con'.top >= con.top /\ con.top >= info.top
      BY <1>1, <1>6, <3>1, <3>2
    <3> QED BY <1>2, <1>3, <3>1, <3>3
  <2> QED BY <1>1, <1>5, <2>1, <2>2 DEF PlaceKept, Resizing
<1>9. TopExpected'
  <2>1. pc = "expandWindow" => g'.missed \/ BufferHeight(con') = BufferHeight(con)
    BY <1>1 DEF AppSeen
  <2> QED BY <1>1, <2>1 DEF AssertInv, TopExpected
<1>10. MarkerClose'
  <2>1. CASE \A r \in DOMAIN con'.buf : con'.buf[r] = Blank
    <3>1. s'.syncCounter \in Nat /\ con' \in Consoles /\ s' \in Scrapers
      BY ScraperFacts DEF ScraperInv, ScraperTypes
    <3>2. \A i \in Int : ~MarkerColumn(s', con', i)
      <4> SUFFICES ASSUME NEW i \in Int, MarkerColumn(s', con', i) PROVE FALSE
        OBVIOUS
      <4>1. 0 \in 0..(SYNC_MARKER_LEN - 1)
        BY Sizes
      <4>2. con'.buf[i + 0] = Marker(s'.syncCounter, 0) /\ i + 0 \in DOMAIN con'.buf
        BY <3>1, <4>1, ColumnStarts
      <4> QED BY <2>1, <3>1, <4>2, MarkersDiffer
    <3>3. DOMAIN con'.buf = 0..(BufferHeight(con') - 1)
      BY <3>1, ConsoleFacts
    <3>4. MarkerColumns' = {}
      BY <3>2, <3>3 DEF MarkerColumns
    <3> QED BY <3>4 DEF MarkerClose
  <2>2. CASE ~(BufferHeight(con') = BufferHeight(con) /\ con'.top >= con.top)
             /\ ~(\A r \in DOMAIN con'.buf : con'.buf[r] = Blank)
    <3>1. ~Seen' \/ BufferHeight(con') # BUFFER_LINE_COUNT
      BY <1>1, <2>2 DEF AppSeen, Seen
    <3> QED BY <3>1 DEF MarkerClose
  <2>3. CASE BufferHeight(con') = BufferHeight(con) /\ con'.top >= con.top
    <3>1. PICK d \in Int : d = g'.burst - g.burst - k
      BY <1>1, <1>2
    <3>2. con'.top <= con.top + d /\ 0 <= d
      BY <1>1, <1>2, <1>3, <2>3, <3>1
    <3>3. ASSUME NEW n \in Int, Near(n) PROVE Near(n + d)'
      <4>1. pc = "idle" => con'.top <= n + d
        BY <1>2, <1>3, <3>2, <3>3 DEF Near
      <4>2. pc \in Scraping => con'.top - MaxBurst <= n + d
        BY <1>2, <1>3, <3>2, <3>3 DEF Near
      <4>3. pc = "shrinkWindow" =>
              con'.top + con'.height <= n + d
              /\ (con'.top + s.ptyRows <= n + d \/ BUFFER_LINE_COUNT <= n + d)
        BY <1>1, <1>2, <1>3, <3>2, <3>3 DEF Near
      <4>4. pc \in {"resizeBuffer", "expandWindow"} => con'.top + s.ptyRows <= n + d
        BY <1>2, <1>3, <3>2, <3>3 DEF Near
      <4>5. Resizing => s.dirtyLineCount - s.ptyRows <= n + d
        BY <1>2, <3>2, <3>3 DEF Near
      <4> QED BY <1>1, <4>1, <4>2, <4>3, <4>4, <4>5 DEF Near, Resizing
    <3>4. BufferHeight(con') = BUFFER_LINE_COUNT /\ k = 1 => con.top >= BUFFER_LINE_COUNT - Tallest
      BY <1>1, <1>2, <2>3
    <3>5. con.top >= BUFFER_LINE_COUNT - Tallest => con'.top >= BUFFER_LINE_COUNT - Tallest
      BY <1>2, <1>3, <2>3
    <3>6. /\ s'.syncCounter = s.syncCounter /\ s'.syncRow = s.syncRow
          /\ s'.scrolledCount = s.scrolledCount /\ s'.scrapedLineCount = s.scrapedLineCount
      BY <1>1
    <3> QED BY <1>1, <1>4, <2>3, <3>1, <3>3, <3>4, <3>5, <3>6, MarkerCloseKept DEF AssertInv
  <2> QED BY <2>1, <2>2, <2>3
<1> QED BY <1>1, <1>7, <1>8, <1>9, <1>10 DEF AssertInv

----------------------------------------------------------------------------
(***************************************************************************)
(* The theorems.                                                           *)
(***************************************************************************)
LEMMA AppStepInv ==
  ASSUME ScraperInv, AppStep
  PROVE  ScraperInv' /\ ~con.frozen
<1>1. CASE WriteLine
  BY <1>1, WriteLineStep DEF WriteLine
<1>2. CASE Clear
  BY <1>2, ClearStep DEF Clear, Odd
<1>3. CASE \E row \in Window(con) : MoveCursor(row)
  BY <1>3, MoveCursorStep DEF MoveCursor, Odd
<1>4. CASE \E row \in Window(con) : \E blank \in BOOLEAN : Edit(row, blank)
  BY <1>4, EditStep DEF Edit, Odd
<1>5. CASE \E rows \in AppHeights \union {BUFFER_LINE_COUNT} : SetBufferHeight(rows)
  <2>1. PICK rows \in AppHeights \union {BUFFER_LINE_COUNT} : SetBufferHeight(rows)
    BY <1>5
  <2>2. rows \in Nat \ {0}
    BY Sizes
  <2> QED BY <2>1, <2>2, SetBufferHeightStep DEF SetBufferHeight, Odd
<1> QED BY <1>1, <1>2, <1>3, <1>4, <1>5 DEF AppStep

LEMMA ScraperStep ==
  ASSUME ScraperInv, [ScraperNext]_scraperVars
  PROVE  ScraperInv' /\ WindowKept
<1>1. CASE AgentStep
  <2>1. CASE FrozenScrape
    BY <2>1, FrozenScrapeStep
  <2>2. CASE ClearHistory
    BY <2>2, ClearHistoryStep
  <2>3. CASE ReadInfo
    BY <2>3, ReadInfoStep DEF WindowKept, LeavesWindow, ReadInfo
  <2>4. CASE Tentative
    BY <2>4, TentativeStep DEF WindowKept, LeavesWindow, Tentative
  <2>5. CASE ReadContent
    BY <2>5, ReadContentStep DEF WindowKept, LeavesWindow, ReadContent
  <2>6. CASE CheckInfo
    BY <2>6, CheckInfoStep DEF WindowKept, LeavesWindow, CheckInfo
  <2>7. CASE CheckMarker
    BY <2>7, CheckMarkerStep DEF WindowKept, LeavesWindow, CheckMarker
  <2>8. CASE Freeze
    BY <2>8, FreezeStep DEF WindowKept, LeavesWindow, Freeze
  <2>9. CASE DirectScrape
    BY <2>9, DirectScrapeStep DEF WindowKept, LeavesWindow, DirectScrape
  <2>10. CASE ShrinkWindow
    BY <2>10, ShrinkWindowStep DEF WindowKept, LeavesWindow, ShrinkWindow
  <2>11. CASE ResizeBuffer
    BY <2>11, ResizeBufferStep DEF WindowKept, LeavesWindow, ResizeBuffer
  <2>12. CASE ExpandWindow
    BY <2>12, ExpandWindowStep DEF WindowKept, LeavesWindow, ExpandWindow
  <2> QED BY <1>1, <2>1, <2>2, <2>3, <2>4, <2>5, <2>6, <2>7, <2>8, <2>9, <2>10, <2>11, <2>12
          DEF AgentStep
<1>2. CASE AppStep
  BY <1>2, AppStepInv DEF WindowKept, LeavesWindow
<1>3. CASE \E rows \in OtherRows \union {InitialRows} : resizeWindow(rows)
  <2>1. PICK rows \in Rows : resizeWindow(rows)
    BY <1>3 DEF Rows
  <2> QED BY <2>1, ResizeWindowStep DEF WindowKept, LeavesWindow, resizeWindow
<1>4. CASE UNCHANGED scraperVars
  BY <1>4 DEF scraperVars, ScraperInv, ScraperTypes, ModeFitsInfo, ReadFits, ReadTyped,
     firstReadLine, stopReadLine, firstVirtLine, InfoCurrent, MarkerAbove, Resizing,
     WindowKept, LeavesWindow
<1> QED BY <1>1, <1>2, <1>3, <1>4 DEF ScraperNext

LEMMA ScraperInvAlways == ScraperSpec => []ScraperInv
<1>1. ScraperInv /\ [ScraperNext]_scraperVars => ScraperInv'
  BY ScraperStep
<1> QED BY InitInv, <1>1, PTL DEF ScraperSpec

LEMMA ScrollStep ==
  ASSUME HistoryFits, ScraperInv, PositionInv, ScrollInv, [ScraperNext]_scraperVars
  PROVE  PositionInv' /\ ScrollInv'
<1>0. ScraperInv'
  BY ScraperStep
<1>1. CASE AgentStep
  <2>1. CASE ReadInfo
    BY <1>0, <2>1, ReadInfoPosition, ReadInfoScroll
  <2>2. CASE Tentative \/ ReadContent \/ CheckInfo \/ CheckMarker
    BY <1>0, <2>2, TentativePosition, CheckPosition, CheckMarkerPosition, TentativeStepsScroll
  <2>3. CASE Freeze
    BY <1>0, <2>3, FreezePosition, FreezeScroll
  <2>4. CASE FrozenScrape
    BY <1>0, <2>4, FrozenScrapePosition, FrozenScrapeScroll
  <2>5. CASE DirectScrape
    BY <1>0, <2>5, DirectScrapePosition, DirectScrapeScroll
  <2>6. CASE ClearHistory
    BY <1>0, <2>6, ClearHistoryPosition, ClearHistoryScroll
  <2>7. CASE ShrinkWindow
    BY <1>0, <2>7, ShrinkWindowPosition, ShrinkWindowScroll
  <2>8. CASE ResizeBuffer
    BY <1>0, <2>8, ResizeBufferPosition, ResizeBufferScroll
  <2>9. CASE ExpandWindow
    BY <1>0, <2>9, ExpandWindowPosition, ExpandWindowScroll
  <2> QED BY <1>1, <2>1, <2>2, <2>3, <2>4, <2>5, <2>6, <2>7, <2>8, <2>9 DEF AgentStep
<1>2. CASE AppStep
  <2>1. PICK k \in {0, 1} : AppEffect(k)
    BY <1>2, AppStepDoes DEF ScrollInv
  <2> QED BY <1>0, <2>1, AppStepPosition, AppStepScroll
<1>3. CASE \E rows \in OtherRows \union {InitialRows} : resizeWindow(rows)
  <2>1. PICK rows \in Rows : resizeWindow(rows)
    BY <1>3 DEF Rows
  <2> QED BY <1>0, <2>1, ResizeWindowPosition, ResizeWindowScroll
<1>4. CASE UNCHANGED scraperVars
  <2>1. UNCHANGED <<con, s, pc, info, g>>
    BY <1>4 DEF scraperVars
  <2>2. PositionInv'
    BY <2>1 DEF PositionInv, HeightsOK, DirectLow, NotFarDown, NotUp, UnmarkedHigh, Low, Bottom,
       Window, BufferHeight
  <2>3. ScrollInv'
    BY <2>1 DEF ScrollInv, HeightKept, Counters, Sound, MarkerTells, Settled, MarkerColumn,
       BufferHeight
  <2> QED BY <2>2, <2>3
<1> QED BY <1>1, <1>2, <1>3, <1>4 DEF ScraperNext

LEMMA AssertStep ==
  ASSUME HistoryFits, ScraperInv, PositionInv, ScrollInv, AssertInv, NoAssertFails,
         [ScraperNext]_scraperVars
  PROVE  AssertInv' /\ NoAssertFails'
<1>0. ScraperInv' /\ PositionInv' /\ HeightKept /\ Counters
  BY ScraperStep, ScrollStep DEF ScrollInv
<1>1. CASE ScraperNext
  <2>1. ~s.failed /\ (AgentStep \/ AppStep \/ \E rows \in Rows : resizeWindow(rows))
    BY <1>1 DEF ScraperNext, Rows
  <2>2. AssertInv' /\ (g'.missed \/ s'.failed = s.failed)
    <3>1. CASE ReadInfo \/ Tentative \/ ReadContent \/ CheckInfo \/ CheckMarker \/ Freeze
      BY <1>0, <3>1, ReadInfoAssert, TentativeAssert, CheckAssert, CheckMarkerAssert, FreezeAssert
    <3>2. CASE FrozenScrape
      BY <1>0, <3>2, FrozenScrapeAssert
    <3>3. CASE DirectScrape
      BY <3>3, DirectScrapeAssert
    <3>4. CASE ClearHistory
      BY <1>0, <3>4, ClearHistoryAssert
    <3>5. CASE ShrinkWindow \/ ResizeBuffer \/ ExpandWindow
      BY <1>0, <3>5, ShrinkWindowAssert, ResizeBufferAssert, ExpandWindowAssert
    <3>6. CASE AppStep
      <4>1. PICK k \in {0, 1} : AppEffect(k)
        BY <3>6, AppStepDoes DEF ScrollInv
      <4> QED BY <1>0, <4>1, AppStepAssert
    <3>7. CASE \E rows \in Rows : resizeWindow(rows)
      BY <1>0, <3>7, ResizeWindowAssert
    <3> QED BY <2>1, <3>1, <3>2, <3>3, <3>4, <3>5, <3>6, <3>7 DEF AgentStep
  <2> QED BY <2>1, <2>2 DEF NoAssertFails
<1>2. CASE UNCHANGED scraperVars
  <2>1. UNCHANGED <<con, s, pc, info, g>>
    BY <1>2 DEF scraperVars
  <2>2. FullHeight' /\ PlaceKept' /\ DirtyNear' /\ MarkerPlaced' /\ TopExpected' /\ NoAssertFails'
    BY <2>1 DEF AssertInv, FullHeight, PlaceKept, DirtyNear, MarkerPlaced, TopExpected, Seen,
       Resizing, BufferHeight, NoAssertFails
  <2>3. MarkerClose'
    BY <2>1 DEF AssertInv, MarkerClose, Seen, MarkerColumns, MarkerColumn, Near, Ahead, Resizing,
       BufferHeight
  <2> QED BY <2>2, <2>3 DEF AssertInv
<1> QED BY <1>1, <1>2

\* What the invariants say, in the words of the property.
LEMMA PositionsAreTyped ==
  ASSUME ScraperInv, TopExpected, NoAssertFails
  PROVE  ScraperTypeOK
<1>1. con \in Consoles /\ s \in Scrapers /\ t \in Terminals /\ (s.directMode => s.syncRow = -1)
  BY DEF ScraperInv, ScraperTypes
<1>2. /\ DOMAIN con.buf = 0..(BufferHeight(con) - 1)
      /\ Window(con) \subseteq DOMAIN con.buf /\ con.cur \in DOMAIN con.buf
  <2>1. /\ DOMAIN con.buf = 0..(BufferHeight(con) - 1) /\ BufferHeight(con) \in Nat
        /\ con.top \in Nat /\ con.height \in Nat /\ con.cur \in Nat
        /\ con.cur < BufferHeight(con) /\ con.top + con.height <= BufferHeight(con)
    BY <1>1, ConsoleFacts
  <2>2. \A r \in Window(con) : r \in 0..(BufferHeight(con) - 1)
    BY <2>1 DEF Window
  <2>3. con.cur \in 0..(BufferHeight(con) - 1)
    BY <2>1
  <2> QED BY <2>1, <2>2, <2>3
<1>3. /\ DOMAIN s.data = 0..(BUFFER_LINE_COUNT - 1)
      /\ s.syncRow \in -1..(BUFFER_LINE_COUNT - SYNC_MARKER_LEN)
      /\ s.scrolledCount \in Nat /\ s.scrapedLineCount \in Nat
      /\ s.dirtyLineCount \in 0..BUFFER_LINE_COUNT
  BY <1>1 DEF Scrapers
<1>4. t.y \in t.top..(t.top + t.height - 1)
  BY <1>1 DEF Terminals
<1>5. s.dirtyWindowTop <= BUFFER_LINE_COUNT /\ (g.missed \/ s.dirtyWindowTop >= -1)
  BY DEF TopExpected
<1> QED BY <1>1, <1>2, <1>3, <1>4, <1>5 DEF ScraperTypeOK, NoAssertFails

(* Whatever the application and the host do, the rows, line numbers and    *)
(* positions the scraper works with stay inside the buffer, the line       *)
(* buffer and the terminal's screen (Scraper.h:93, Scraper.cc:325).        *)
THEOREM PositionsStayInside == ScraperSpec => []ScraperTypes
<1>1. ScraperInv => ScraperTypes
  BY DEF ScraperInv
<1> QED BY ScraperInvAlways, <1>1, PTL

(* Where the console is frozen before its position is read, a sync marker  *)
(* is never written over the program's window, neither by a scrape nor by  *)
(* a resize (Scraper.cc:490, 213).                                         *)
THEOREM MarkerLeavesWindowAlone == ScraperSpec => ConsoleLeftAloneBeforeW10
<1>1. ScraperInv /\ [ScraperNext]_scraperVars =>
        [s.isNewW10 \/ g.missed \/ LeavesWindow]_scraperVars
  BY ScraperStep DEF WindowKept
<1> QED BY ScraperInvAlways, <1>1, PTL DEF ScraperSpec, ConsoleLeftAloneBeforeW10

(* The sync marker, followed, written anew or lost, tells how many lines    *)
(* have scrolled out of the buffer, whatever the application and the host   *)
(* do, as long as the heights and the lines written between two polls are   *)
(* small for the buffer: with 3000 rows and a marker of 16 with a margin of *)
(* 200 (Scraper.h:44) they may be 856 rows together (Scraper.cc:492, 602).  *)
THEOREM ScrollIsCounted == ASSUME HistoryFits PROVE ScraperSpec => []ScrollCountExact
<1> DEFINE IInv == ScraperInv /\ PositionInv /\ ScrollInv
<1>1. ScraperInit => IInv
  BY InitInv, InitPosition, InitScroll
<1>2. IInv /\ [ScraperNext]_scraperVars => IInv'
  BY ScraperStep, ScrollStep
<1>3. IInv => ScrollCountExact
  <2> SUFFICES ASSUME ScrollInv, Settled, ~s.directMode, ~g.damaged
               PROVE  s.scrolledCount = g.scroll
    BY DEF ScrollCountExact
  <2>1. Sound
    BY DEF ScrollInv, HeightKept, Sound, Settled
  <2> QED BY <2>1 DEF ScrollInv
<1> QED BY <1>1, <1>2, <1>3, PTL DEF ScraperSpec

(* Under the same condition no ASSERT on rows fails: the lines to read     *)
(* never begin above the buffer and no sync marker is placed above row 1,  *)
(* wherever the last one has moved to and however the window is resized    *)
(* (Scraper.cc:572, 697), unless the application set or restored a height, *)
(* or moved things about, where the scraper cannot see it.                 *)
THEOREM NoAssertionFails == ASSUME HistoryFits PROVE ScraperSpec => []ScraperTypeOK
<1> DEFINE IInv == ScraperInv /\ PositionInv /\ ScrollInv /\ AssertInv /\ NoAssertFails
<1>1. ScraperInit => IInv
  BY InitInv, InitPosition, InitScroll, InitAssert
<1>2. IInv /\ [ScraperNext]_scraperVars => IInv'
  BY ScraperStep, ScrollStep, AssertStep
<1>3. IInv => ScraperTypeOK
  BY PositionsAreTyped DEF AssertInv
<1> QED BY <1>1, <1>2, <1>3, PTL DEF ScraperSpec
=============================================================================
