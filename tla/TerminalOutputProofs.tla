------------------------ MODULE TerminalOutputProofs ------------------------
(***************************************************************************)
(* Proofs about TerminalOutput, for every size of the window, every width  *)
(* it is given, any characters and colors, and scrapes of any lines.       *)
(*                                                                         *)
(* First the emulator: what each command makes of a screen, that a screen  *)
(* stays one whatever is sent, and that what is sent in two parts does what*)
(* the parts do one after the other.  Then what each method makes of the   *)
(* object and of the terminal its commands are sent to; then four inductive*)
(* invariants, each of which uses those before it: types; where the        *)
(* terminal's cursor is; whether it is seen; and what the rows of the      *)
(* terminal show.  A fifth says what plain output, which has no escape     *)
(* sequences to go back with, leaves on the terminal.                      *)
(***************************************************************************)
EXTENDS TerminalOutput, RecursionTheorems

----------------------------------------------------------------------------
(***************************************************************************)
(* The emulator.                                                           *)
(***************************************************************************)
Command ==
  {<<"cr">>, <<"lf">>, <<"el">>, <<"home">>, <<"ed">>, <<"show">>, <<"hide">>}
    \union ({"put"} \X Characters) \union ({"sgr"} \X Colors) \union ({"up", "col"} \X Nat)

\* A screen, field by field.
MadeOf(e, rows, width, x, y, wrap, pen, visible, escapes) ==
  e = [rows |-> rows, width |-> width, x |-> x, y |-> y, wrap |-> wrap,
       pen |-> pen, visible |-> visible, escapes |-> escapes]

Rows == [0..(Height - 1) -> [1..MaxWidth -> Cell]]

\* The fields of a screen.
LEMMA ScreenFields ==
  ASSUME NEW e \in Screen
  PROVE  /\ e.rows \in Rows /\ e.width \in Widths /\ e.x \in 0..(MaxWidth - 1)
         /\ e.y \in 0..(Height - 1) /\ e.wrap \in BOOLEAN /\ e.pen \in Colors
         /\ e.visible \in BOOLEAN /\ e.escapes \subseteq {"color", "control"} /\ e.x < e.width
         /\ MadeOf(e, e.rows, e.width, e.x, e.y, e.wrap, e.pen, e.visible, e.escapes)
<1>1. e \in [rows : Rows, width : Widths,
             x : 0..(MaxWidth - 1), y : 0..(Height - 1), wrap : BOOLEAN, pen : Colors,
             visible : BOOLEAN, escapes : SUBSET {"color", "control"}]
  BY DEF Screen, Rows
<1>2. e.x < e.width
  BY DEF Screen
<1>3. MadeOf(e, e.rows, e.width, e.x, e.y, e.wrap, e.pen, e.visible, e.escapes)
  BY <1>1 DEF MadeOf
<1> QED BY <1>1, <1>2, <1>3

\* The sizes are numbers.
LEMMA ScreenNumbers ==
  /\ MaxWidth \in Nat /\ MaxWidth > 0 /\ Height \in Nat /\ Height > 0
  /\ \A w \in Widths : w \in Nat /\ w > 0 /\ w <= MaxWidth
<1>1. \A w \in Widths : w \in Nat \ {0}
  BY EmulatorAssumption
<1>2. Height \in Nat \ {0} /\ MaxWidth \in Widths /\ \A w \in Widths : w <= MaxWidth
  BY EmulatorAssumption
<1> QED BY <1>1, <1>2

\* What is made of the right fields is a screen.
LEMMA ScreenMade ==
  ASSUME NEW e, NEW rows \in Rows, NEW width \in Widths, NEW x \in Nat, x < width,
         NEW y \in 0..(Height - 1), NEW wrap \in BOOLEAN, NEW pen \in Colors,
         NEW visible \in BOOLEAN, NEW escapes \in SUBSET {"color", "control"},
         MadeOf(e, rows, width, x, y, wrap, pen, visible, escapes)
  PROVE  /\ e \in Screen
         /\ e.rows = rows /\ e.width = width /\ e.x = x /\ e.y = y /\ e.wrap = wrap
         /\ e.pen = pen /\ e.visible = visible /\ e.escapes = escapes
<1>1. x \in 0..(MaxWidth - 1)
  BY ScreenNumbers
<1> QED BY <1>1 DEF Screen, MadeOf, Rows

\* A blank line is a row of cells.
LEMMA BlankRow ==
  ASSUME NEW c \in Colors
  PROVE  /\ blankChar(c) \in Cell /\ blankChar(c).ch = Space /\ blankChar(c).color = c
         /\ BlankLine(c) \in [1..MaxWidth -> Cell]
BY DEF blankChar, BlankLine, Cell, Characters

\* The kinds of the escape sequences there have been after another command.
Noted(e, cmd) == e.escapes \union Escapes(cmd)

\* The escape sequences there have been are of the two kinds.
LEMMA EscapesNoted ==
  ASSUME NEW e, NEW cmd, NEW r, NEW w, NEW x, NEW y, NEW b, NEW p, NEW v, NEW s,
         MadeOf(Effect(e, cmd), r, w, x, y, b, p, v, s)
  PROVE  MadeOf(Emulate(e, cmd), r, w, x, y, b, p, v, s \union Escapes(cmd))
<1> DEFINE f == Effect(e, cmd)
           t == f.escapes \union Escapes(cmd)
<1>1. t = s \union Escapes(cmd)
  BY DEF MadeOf
<1>2. Emulate(e, cmd) = [f EXCEPT !.escapes = t]
  BY DEF Emulate
<1> HIDE DEF f, t
<1>3. MadeOf(f, r, w, x, y, b, p, v, s)
  BY DEF f
<1>4. MadeOf([f EXCEPT !.escapes = t], r, w, x, y, b, p, v, t)
  BY <1>3 DEF MadeOf
<1> QED BY <1>1, <1>2, <1>4

\* What each command makes of a screen, field by field.
LEMMA EmulateHide ==
  ASSUME NEW e \in Screen
  PROVE  MadeOf(Emulate(e, <<"hide">>),
                e.rows, e.width, e.x, e.y, e.wrap, e.pen, FALSE, Noted(e, <<"hide">>))
<1>1. Effect(e, <<"hide">>) = [e EXCEPT !.visible = FALSE]
  BY DEF Effect
<1>3. PICK r, w, x, y, b, p, v, s : MadeOf(e, r, w, x, y, b, p, v, s)
  BY ScreenFields
<1>4. MadeOf(Effect(e, <<"hide">>), r, w, x, y, b, p, FALSE, s)
  BY <1>1, <1>3 DEF MadeOf
<1>5. MadeOf(Emulate(e, <<"hide">>), r, w, x, y, b, p, FALSE, s \union Escapes(<<"hide">>))
  BY <1>4, EscapesNoted
<1>6. /\ r = e.rows /\ w = e.width /\ x = e.x /\ y = e.y
      /\ b = e.wrap /\ p = e.pen /\ v = e.visible /\ s = e.escapes
  BY <1>3 DEF MadeOf
<1> QED BY <1>5, <1>6 DEF Noted

LEMMA EmulateShow ==
  ASSUME NEW e \in Screen
  PROVE  MadeOf(Emulate(e, <<"show">>),
                e.rows, e.width, e.x, e.y, e.wrap, e.pen, TRUE, Noted(e, <<"show">>))
<1>1. Effect(e, <<"show">>) = [e EXCEPT !.visible = TRUE]
  BY DEF Effect
<1>3. PICK r, w, x, y, b, p, v, s : MadeOf(e, r, w, x, y, b, p, v, s)
  BY ScreenFields
<1>4. MadeOf(Effect(e, <<"show">>), r, w, x, y, b, p, TRUE, s)
  BY <1>1, <1>3 DEF MadeOf
<1>5. MadeOf(Emulate(e, <<"show">>), r, w, x, y, b, p, TRUE, s \union Escapes(<<"show">>))
  BY <1>4, EscapesNoted
<1>6. /\ r = e.rows /\ w = e.width /\ x = e.x /\ y = e.y
      /\ b = e.wrap /\ p = e.pen /\ v = e.visible /\ s = e.escapes
  BY <1>3 DEF MadeOf
<1> QED BY <1>5, <1>6 DEF Noted

LEMMA EmulateReturn ==
  ASSUME NEW e \in Screen
  PROVE  MadeOf(Emulate(e, <<"cr">>),
                e.rows, e.width, 0, e.y, FALSE, e.pen, e.visible, Noted(e, <<"cr">>))
<1>1. Effect(e, <<"cr">>) = [e EXCEPT !.x = 0, !.wrap = FALSE]
  BY DEF Effect
<1>3. PICK r, w, x, y, b, p, v, s : MadeOf(e, r, w, x, y, b, p, v, s)
  BY ScreenFields
<1>4. MadeOf(Effect(e, <<"cr">>), r, w, 0, y, FALSE, p, v, s)
  BY <1>1, <1>3 DEF MadeOf
<1>5. MadeOf(Emulate(e, <<"cr">>), r, w, 0, y, FALSE, p, v, s \union Escapes(<<"cr">>))
  BY <1>4, EscapesNoted
<1>6. /\ r = e.rows /\ w = e.width /\ x = e.x /\ y = e.y
      /\ b = e.wrap /\ p = e.pen /\ v = e.visible /\ s = e.escapes
  BY <1>3 DEF MadeOf
<1> QED BY <1>5, <1>6 DEF Noted

LEMMA EmulatePen ==
  ASSUME NEW e \in Screen, NEW c \in Colors
  PROVE  MadeOf(Emulate(e, <<"sgr", c>>),
                e.rows, e.width, e.x, e.y, e.wrap, c, e.visible, Noted(e, <<"sgr", c>>))
<1>1. Effect(e, <<"sgr", c>>) = [e EXCEPT !.pen = c]
  BY DEF Effect
<1>3. PICK r, w, x, y, b, p, v, s : MadeOf(e, r, w, x, y, b, p, v, s)
  BY ScreenFields
<1>4. MadeOf(Effect(e, <<"sgr", c>>), r, w, x, y, b, c, v, s)
  BY <1>1, <1>3 DEF MadeOf
<1>5. MadeOf(Emulate(e, <<"sgr", c>>), r, w, x, y, b, c, v, s \union Escapes(<<"sgr", c>>))
  BY <1>4, EscapesNoted
<1>6. /\ r = e.rows /\ w = e.width /\ x = e.x /\ y = e.y
      /\ b = e.wrap /\ p = e.pen /\ v = e.visible /\ s = e.escapes
  BY <1>3 DEF MadeOf
<1> QED BY <1>5, <1>6 DEF Noted

LEMMA EmulateUp ==
  ASSUME NEW e \in Screen, NEW n \in Nat
  PROVE  MadeOf(Emulate(e, <<"up", n>>),
                e.rows, e.width, e.x, (IF n <= e.y THEN e.y - n ELSE 0), FALSE, e.pen, e.visible, Noted(e, <<"up", n>>))
<1>1. Effect(e, <<"up", n>>) = [e EXCEPT !.y = IF n <= @ THEN @ - n ELSE 0, !.wrap = FALSE]
  BY DEF Effect
<1>3. PICK r, w, x, y, b, p, v, s : MadeOf(e, r, w, x, y, b, p, v, s)
  BY ScreenFields
<1>4. MadeOf(Effect(e, <<"up", n>>), r, w, x, (IF n <= e.y THEN e.y - n ELSE 0), FALSE, p, v, s)
  BY <1>1, <1>3 DEF MadeOf
<1>5. MadeOf(Emulate(e, <<"up", n>>), r, w, x, (IF n <= e.y THEN e.y - n ELSE 0), FALSE, p, v, s \union Escapes(<<"up", n>>))
  BY <1>4, EscapesNoted
<1>6. /\ r = e.rows /\ w = e.width /\ x = e.x /\ y = e.y
      /\ b = e.wrap /\ p = e.pen /\ v = e.visible /\ s = e.escapes
  BY <1>3 DEF MadeOf
<1> QED BY <1>5, <1>6 DEF Noted

LEMMA EmulateColumn ==
  ASSUME NEW e \in Screen, NEW n \in Nat
  PROVE  MadeOf(Emulate(e, <<"col", n>>),
                e.rows, e.width, ColumnOf(e, n), e.y, FALSE, e.pen, e.visible, Noted(e, <<"col", n>>))
<1>1. Effect(e, <<"col", n>>) = [e EXCEPT !.x = ColumnOf(e, n), !.wrap = FALSE]
  BY DEF Effect
<1>3. PICK r, w, x, y, b, p, v, s : MadeOf(e, r, w, x, y, b, p, v, s)
  BY ScreenFields
<1>4. MadeOf(Effect(e, <<"col", n>>), r, w, ColumnOf(e, n), y, FALSE, p, v, s)
  BY <1>1, <1>3 DEF MadeOf
<1>5. MadeOf(Emulate(e, <<"col", n>>), r, w, ColumnOf(e, n), y, FALSE, p, v, s \union Escapes(<<"col", n>>))
  BY <1>4, EscapesNoted
<1>6. /\ r = e.rows /\ w = e.width /\ x = e.x /\ y = e.y
      /\ b = e.wrap /\ p = e.pen /\ v = e.visible /\ s = e.escapes
  BY <1>3 DEF MadeOf
<1> QED BY <1>5, <1>6 DEF Noted

LEMMA EmulateHome ==
  ASSUME NEW e \in Screen
  PROVE  MadeOf(Emulate(e, <<"home">>),
                e.rows, e.width, 0, 0, FALSE, e.pen, e.visible, Noted(e, <<"home">>))
<1>1. Effect(e, <<"home">>) = [e EXCEPT !.x = 0, !.y = 0, !.wrap = FALSE]
  BY DEF Effect
<1>3. PICK r, w, x, y, b, p, v, s : MadeOf(e, r, w, x, y, b, p, v, s)
  BY ScreenFields
<1>4. MadeOf(Effect(e, <<"home">>), r, w, 0, 0, FALSE, p, v, s)
  BY <1>1, <1>3 DEF MadeOf
<1>5. MadeOf(Emulate(e, <<"home">>), r, w, 0, 0, FALSE, p, v, s \union Escapes(<<"home">>))
  BY <1>4, EscapesNoted
<1>6. /\ r = e.rows /\ w = e.width /\ x = e.x /\ y = e.y
      /\ b = e.wrap /\ p = e.pen /\ v = e.visible /\ s = e.escapes
  BY <1>3 DEF MadeOf
<1> QED BY <1>5, <1>6 DEF Noted

LEMMA EmulateErase ==
  ASSUME NEW e \in Screen
  PROVE  MadeOf(Emulate(e, <<"ed">>),
                [k \in 0..(Height - 1) |-> BlankLine(e.pen)], e.width, e.x, e.y, FALSE, e.pen, e.visible, Noted(e, <<"ed">>))
<1>1. Effect(e, <<"ed">>) = [e EXCEPT !.wrap = FALSE, !.rows = [k \in 0..(Height - 1) |-> BlankLine(e.pen)]]
  BY DEF Effect
<1>3. PICK r, w, x, y, b, p, v, s : MadeOf(e, r, w, x, y, b, p, v, s)
  BY ScreenFields
<1>4. MadeOf(Effect(e, <<"ed">>), [k \in 0..(Height - 1) |-> BlankLine(e.pen)], w, x, y, FALSE, p, v, s)
  BY <1>1, <1>3 DEF MadeOf
<1>5. MadeOf(Emulate(e, <<"ed">>), [k \in 0..(Height - 1) |-> BlankLine(e.pen)], w, x, y, FALSE, p, v, s \union Escapes(<<"ed">>))
  BY <1>4, EscapesNoted
<1>6. /\ r = e.rows /\ w = e.width /\ x = e.x /\ y = e.y
      /\ b = e.wrap /\ p = e.pen /\ v = e.visible /\ s = e.escapes
  BY <1>3 DEF MadeOf
<1> QED BY <1>5, <1>6 DEF Noted

\* The row of the cursor, with a blank in each of the columns from the cursor on.
ErasedRow(e) ==
  [i \in 1..MaxWidth |-> IF i \in (e.x + 1)..e.width THEN blankChar(e.pen) ELSE e.rows[e.y][i]]

LEMMA EmulateEraseLine ==
  ASSUME NEW e \in Screen
  PROVE  MadeOf(Emulate(e, <<"el">>),
                [e.rows EXCEPT ![e.y] = ErasedRow(e)], e.width, e.x, e.y, FALSE, e.pen, e.visible, Noted(e, <<"el">>))
<1>1. Effect(e, <<"el">>) = [e EXCEPT !.wrap = FALSE, !.rows[e.y] = ErasedRow(e)]
  BY DEF Effect, ErasedRow
<1>3. PICK r, w, x, y, b, p, v, s : MadeOf(e, r, w, x, y, b, p, v, s)
  BY ScreenFields
<1>4. MadeOf(Effect(e, <<"el">>), [e.rows EXCEPT ![e.y] = ErasedRow(e)], w, x, y, FALSE, p, v, s)
  BY <1>1, <1>3 DEF MadeOf
<1>5. MadeOf(Emulate(e, <<"el">>), [e.rows EXCEPT ![e.y] = ErasedRow(e)], w, x, y, FALSE, p, v, s \union Escapes(<<"el">>))
  BY <1>4, EscapesNoted
<1>6. /\ r = e.rows /\ w = e.width /\ x = e.x /\ y = e.y
      /\ b = e.wrap /\ p = e.pen /\ v = e.visible /\ s = e.escapes
  BY <1>3 DEF MadeOf
<1> QED BY <1>5, <1>6 DEF Noted

\* The rows after a line feed in the last one.
Scrolled(e) ==
  [r \in 0..(Height - 1) |-> IF r + 1 < Height THEN e.rows[r + 1] ELSE BlankLine(e.pen)]

\* A line feed goes down, or scrolls.
LEMMA LineFed ==
  ASSUME NEW e \in Screen
  PROVE  /\ e.y + 1 < Height =>
              MadeOf(LineFeed(e), e.rows, e.width, e.x, e.y + 1, FALSE, e.pen, e.visible, e.escapes)
         /\ ~(e.y + 1 < Height) =>
              MadeOf(LineFeed(e), Scrolled(e), e.width, e.x, e.y, FALSE, e.pen, e.visible, e.escapes)
<1>2. e.y + 1 < Height => LineFeed(e) = [e EXCEPT !.y = @ + 1, !.wrap = FALSE]
  BY DEF LineFeed
<1>3. ~(e.y + 1 < Height) => LineFeed(e) = [e EXCEPT !.wrap = FALSE, !.rows = Scrolled(e)]
  BY DEF LineFeed, Scrolled
<1>4. PICK r, w, x, y, b, p, v, s : MadeOf(e, r, w, x, y, b, p, v, s)
  BY ScreenFields
<1>5. /\ r = e.rows /\ w = e.width /\ x = e.x /\ y = e.y
      /\ b = e.wrap /\ p = e.pen /\ v = e.visible /\ s = e.escapes
  BY <1>4 DEF MadeOf
<1>6. CASE e.y + 1 < Height
  <2>1. MadeOf(LineFeed(e), r, w, x, y + 1, FALSE, p, v, s)
    BY <1>2, <1>4, <1>6 DEF MadeOf
  <2> QED BY <1>5, <1>6, <2>1
<1>7. CASE ~(e.y + 1 < Height)
  <2>1. MadeOf(LineFeed(e), Scrolled(e), w, x, y, FALSE, p, v, s)
    BY <1>3, <1>4, <1>7 DEF MadeOf
  <2> QED BY <1>5, <1>7, <2>1
<1> QED BY <1>6, <1>7

LEMMA EmulateLineFeed ==
  ASSUME NEW e \in Screen
  PROVE  /\ e.y + 1 < Height =>
              MadeOf(Emulate(e, <<"lf">>), e.rows, e.width, e.x, e.y + 1, FALSE, e.pen,
                     e.visible, Noted(e, <<"lf">>))
         /\ ~(e.y + 1 < Height) =>
              MadeOf(Emulate(e, <<"lf">>), Scrolled(e), e.width, e.x, e.y, FALSE, e.pen,
                     e.visible, Noted(e, <<"lf">>))
<1>1. Effect(e, <<"lf">>) = LineFeed(e)
  BY DEF Effect
<1> QED BY <1>1, LineFed, EscapesNoted DEF Noted

\* The rows with another cell at the cursor.
PutRows(e, ch) ==
  [e.rows EXCEPT ![e.y] = [@ EXCEPT ![e.x + 1] = [ch |-> ch, color |-> e.pen]]]

LEMMA EmulatePut ==
  ASSUME NEW e \in Screen, NEW ch \in Characters, ~e.wrap
  PROVE  /\ e.x + 1 = e.width =>
              MadeOf(Emulate(e, <<"put", ch>>), PutRows(e, ch), e.width, e.x, e.y, TRUE,
                     e.pen, e.visible, Noted(e, <<"put", ch>>))
         /\ e.x + 1 # e.width =>
              MadeOf(Emulate(e, <<"put", ch>>), PutRows(e, ch), e.width, e.x + 1, e.y, e.wrap,
                     e.pen, e.visible, Noted(e, <<"put", ch>>))
<1>1. Effect(e, <<"put", ch>>) = PutChar(e, ch)
  BY DEF Effect
<1>2. PICK r, w, x, y, b, p, v, s : MadeOf(e, r, w, x, y, b, p, v, s)
  BY ScreenFields
<1>3. /\ r = e.rows /\ w = e.width /\ x = e.x /\ y = e.y
      /\ b = e.wrap /\ p = e.pen /\ v = e.visible /\ s = e.escapes
  BY <1>2 DEF MadeOf
<1> DEFINE g == [e EXCEPT !.rows = PutRows(e, ch)]
<1>4. MadeOf(g, PutRows(e, ch), w, x, y, b, p, v, s)
  BY <1>2 DEF MadeOf
<1>5. PutChar(e, ch) = IF e.x + 1 = e.width THEN [g EXCEPT !.wrap = TRUE] ELSE [g EXCEPT !.x = @ + 1]
  BY DEF PutChar, PutRows
<1> HIDE DEF g
<1>6. CASE e.x + 1 = e.width
  <2>1. MadeOf(Effect(e, <<"put", ch>>), PutRows(e, ch), w, x, y, TRUE, p, v, s)
    BY <1>1, <1>4, <1>5, <1>6 DEF MadeOf
  <2>2. MadeOf(Emulate(e, <<"put", ch>>), PutRows(e, ch), w, x, y, TRUE, p, v,
               s \union Escapes(<<"put", ch>>))
    BY <2>1, EscapesNoted
  <2> QED BY <1>3, <1>6, <2>2 DEF Noted
<1>7. CASE e.x + 1 # e.width
  <2>1. MadeOf(Effect(e, <<"put", ch>>), PutRows(e, ch), w, x + 1, y, b, p, v, s)
    BY <1>1, <1>4, <1>5, <1>7 DEF MadeOf
  <2>2. MadeOf(Emulate(e, <<"put", ch>>), PutRows(e, ch), w, x + 1, y, b, p, v,
               s \union Escapes(<<"put", ch>>))
    BY <2>1, EscapesNoted
  <2> QED BY <1>3, <1>7, <2>2 DEF Noted
<1> QED BY <1>6, <1>7

----------------------------------------------------------------------------
(***************************************************************************)
(* The same, as a screen is looked at: what it is made of, but for the     *)
(* kinds of the escape sequences it has had.                               *)
(***************************************************************************)
Becomes(f, rows, width, x, y, wrap, pen, visible) ==
  /\ f \in Screen /\ f.rows = rows /\ f.width = width /\ f.x = x /\ f.y = y
  /\ f.wrap = wrap /\ f.pen = pen /\ f.visible = visible

\* What is known of the fields of a screen.
LEMMA ScreenParts ==
  ASSUME NEW e \in Screen
  PROVE  /\ e.rows \in Rows /\ e.width \in Widths /\ e.x \in Nat /\ e.x < e.width
         /\ e.y \in 0..(Height - 1) /\ e.y \in Nat /\ e.wrap \in BOOLEAN /\ e.pen \in Colors
         /\ e.visible \in BOOLEAN /\ TRUE \in BOOLEAN /\ FALSE \in BOOLEAN
BY ScreenFields

\* From the one way of saying it to the other.
LEMMA MadeBecomes ==
  ASSUME NEW f, NEW rows \in Rows, NEW width \in Widths, NEW x \in Nat, x < width,
         NEW y \in 0..(Height - 1), NEW wrap \in BOOLEAN, NEW pen \in Colors,
         NEW visible \in BOOLEAN, NEW escapes \in SUBSET {"color", "control"},
         MadeOf(f, rows, width, x, y, wrap, pen, visible, escapes)
  PROVE  Becomes(f, rows, width, x, y, wrap, pen, visible)
BY ScreenMade DEF Becomes

LEMMA BecomesMade ==
  ASSUME NEW e \in Screen, NEW cmd, NEW f, NEW rows \in Rows, NEW x \in Nat, x < e.width,
         NEW y \in 0..(Height - 1), NEW wrap \in BOOLEAN, NEW pen \in Colors, NEW visible \in BOOLEAN,
         MadeOf(f, rows, e.width, x, y, wrap, pen, visible, Noted(e, cmd))
  PROVE  Becomes(f, rows, e.width, x, y, wrap, pen, visible)
<1>1. Escapes(cmd) \in SUBSET {"color", "control"}
  BY DEF Escapes
<1>2. Noted(e, cmd) \in SUBSET {"color", "control"} /\ e.width \in Widths
  BY <1>1, ScreenFields DEF Noted
<1> QED BY <1>2, MadeBecomes

LEMMA Hides ==
  ASSUME NEW e \in Screen
  PROVE  Becomes(Emulate(e, <<"hide">>), e.rows, e.width, e.x, e.y, e.wrap, e.pen, FALSE)
<1>9. /\ e.rows \in Rows /\ e.width \in Widths /\ e.x \in Nat /\ e.x < e.width
      /\ e.y \in 0..(Height - 1) /\ e.wrap \in BOOLEAN /\ e.pen \in Colors
      /\ e.visible \in BOOLEAN /\ TRUE \in BOOLEAN /\ FALSE \in BOOLEAN
  BY ScreenParts
<1>8. MadeOf(Emulate(e, <<"hide">>), e.rows, e.width, e.x, e.y, e.wrap, e.pen, FALSE, Noted(e, <<"hide">>))
  BY EmulateHide
<1> QED BY <1>8, <1>9, BecomesMade

LEMMA ShowsCursor ==
  ASSUME NEW e \in Screen
  PROVE  Becomes(Emulate(e, <<"show">>), e.rows, e.width, e.x, e.y, e.wrap, e.pen, TRUE)
<1>9. /\ e.rows \in Rows /\ e.width \in Widths /\ e.x \in Nat /\ e.x < e.width
      /\ e.y \in 0..(Height - 1) /\ e.wrap \in BOOLEAN /\ e.pen \in Colors
      /\ e.visible \in BOOLEAN /\ TRUE \in BOOLEAN /\ FALSE \in BOOLEAN
  BY ScreenParts
<1>8. MadeOf(Emulate(e, <<"show">>), e.rows, e.width, e.x, e.y, e.wrap, e.pen, TRUE, Noted(e, <<"show">>))
  BY EmulateShow
<1> QED BY <1>8, <1>9, BecomesMade

LEMMA Returns ==
  ASSUME NEW e \in Screen
  PROVE  Becomes(Emulate(e, <<"cr">>), e.rows, e.width, 0, e.y, FALSE, e.pen, e.visible)
<1>1. 0 \in Nat /\ 0 < e.width
  BY ScreenParts, ScreenNumbers
<1>9. /\ e.rows \in Rows /\ e.width \in Widths /\ e.x \in Nat /\ e.x < e.width
      /\ e.y \in 0..(Height - 1) /\ e.wrap \in BOOLEAN /\ e.pen \in Colors
      /\ e.visible \in BOOLEAN /\ TRUE \in BOOLEAN /\ FALSE \in BOOLEAN
  BY ScreenParts
<1>8. MadeOf(Emulate(e, <<"cr">>), e.rows, e.width, 0, e.y, FALSE, e.pen, e.visible, Noted(e, <<"cr">>))
  BY EmulateReturn
<1> QED BY <1>1, <1>8, <1>9, BecomesMade

LEMMA TakesPen ==
  ASSUME NEW e \in Screen, NEW c \in Colors
  PROVE  Becomes(Emulate(e, <<"sgr", c>>), e.rows, e.width, e.x, e.y, e.wrap, c, e.visible)
<1>9. /\ e.rows \in Rows /\ e.width \in Widths /\ e.x \in Nat /\ e.x < e.width
      /\ e.y \in 0..(Height - 1) /\ e.wrap \in BOOLEAN /\ e.pen \in Colors
      /\ e.visible \in BOOLEAN /\ TRUE \in BOOLEAN /\ FALSE \in BOOLEAN
  BY ScreenParts
<1>8. MadeOf(Emulate(e, <<"sgr", c>>), e.rows, e.width, e.x, e.y, e.wrap, c, e.visible, Noted(e, <<"sgr", c>>))
  BY EmulatePen
<1> QED BY <1>8, <1>9, BecomesMade

LEMMA GoesUp ==
  ASSUME NEW e \in Screen, NEW n \in Nat
  PROVE  Becomes(Emulate(e, <<"up", n>>), e.rows, e.width, e.x,
                 IF n <= e.y THEN e.y - n ELSE 0, FALSE, e.pen, e.visible)
<1> DEFINE y == IF n <= e.y THEN e.y - n ELSE 0
<1>1. y \in 0..(Height - 1)
  BY ScreenParts, ScreenNumbers
<1>2. MadeOf(Emulate(e, <<"up", n>>), e.rows, e.width, e.x, y, FALSE, e.pen, e.visible,
             Noted(e, <<"up", n>>))
  BY EmulateUp
<1> HIDE DEF y
<1>9. /\ e.rows \in Rows /\ e.width \in Widths /\ e.x \in Nat /\ e.x < e.width
      /\ e.y \in 0..(Height - 1) /\ e.wrap \in BOOLEAN /\ e.pen \in Colors
      /\ e.visible \in BOOLEAN /\ TRUE \in BOOLEAN /\ FALSE \in BOOLEAN
  BY ScreenParts
<1>3. Becomes(Emulate(e, <<"up", n>>), e.rows, e.width, e.x, y, FALSE, e.pen, e.visible)
  BY <1>1, <1>2, <1>9, BecomesMade
<1> QED BY <1>3 DEF y

LEMMA TakesColumn ==
  ASSUME NEW e \in Screen, NEW n \in Nat
  PROVE  Becomes(Emulate(e, <<"col", n>>), e.rows, e.width, ColumnOf(e, n), e.y, FALSE, e.pen, e.visible)
<1>1. ColumnOf(e, n) \in Nat /\ ColumnOf(e, n) < e.width
  BY ScreenParts, ScreenNumbers DEF ColumnOf
<1>9. /\ e.rows \in Rows /\ e.width \in Widths /\ e.x \in Nat /\ e.x < e.width
      /\ e.y \in 0..(Height - 1) /\ e.wrap \in BOOLEAN /\ e.pen \in Colors
      /\ e.visible \in BOOLEAN /\ TRUE \in BOOLEAN /\ FALSE \in BOOLEAN
  BY ScreenParts
<1>8. MadeOf(Emulate(e, <<"col", n>>), e.rows, e.width, ColumnOf(e, n), e.y, FALSE, e.pen, e.visible, Noted(e, <<"col", n>>))
  BY EmulateColumn
<1> QED BY <1>1, <1>8, <1>9, BecomesMade

LEMMA GoesHome ==
  ASSUME NEW e \in Screen
  PROVE  Becomes(Emulate(e, <<"home">>), e.rows, e.width, 0, 0, FALSE, e.pen, e.visible)
<1>1. 0 \in Nat /\ 0 < e.width /\ 0 \in 0..(Height - 1)
  BY ScreenParts, ScreenNumbers
<1>9. /\ e.rows \in Rows /\ e.width \in Widths /\ e.x \in Nat /\ e.x < e.width
      /\ e.y \in 0..(Height - 1) /\ e.wrap \in BOOLEAN /\ e.pen \in Colors
      /\ e.visible \in BOOLEAN /\ TRUE \in BOOLEAN /\ FALSE \in BOOLEAN
  BY ScreenParts
<1>8. MadeOf(Emulate(e, <<"home">>), e.rows, e.width, 0, 0, FALSE, e.pen, e.visible, Noted(e, <<"home">>))
  BY EmulateHome
<1> QED BY <1>1, <1>8, <1>9, BecomesMade

LEMMA Erases ==
  ASSUME NEW e \in Screen
  PROVE  Becomes(Emulate(e, <<"ed">>), [k \in 0..(Height - 1) |-> BlankLine(e.pen)], e.width,
                 e.x, e.y, FALSE, e.pen, e.visible)
<1> DEFINE rows == [k \in 0..(Height - 1) |-> BlankLine(e.pen)]
<1>1. rows \in Rows
  BY ScreenParts, BlankRow DEF Rows
<1>9. /\ e.rows \in Rows /\ e.width \in Widths /\ e.x \in Nat /\ e.x < e.width
      /\ e.y \in 0..(Height - 1) /\ e.wrap \in BOOLEAN /\ e.pen \in Colors
      /\ e.visible \in BOOLEAN /\ TRUE \in BOOLEAN /\ FALSE \in BOOLEAN
  BY ScreenParts
<1>2. MadeOf(Emulate(e, <<"ed">>), rows, e.width, e.x, e.y, FALSE, e.pen, e.visible,
             Noted(e, <<"ed">>))
  BY EmulateErase
<1> HIDE DEF rows
<1>3. Becomes(Emulate(e, <<"ed">>), rows, e.width, e.x, e.y, FALSE, e.pen, e.visible)
  BY <1>1, <1>2, <1>9, BecomesMade
<1> QED BY <1>3 DEF rows

\* A screen with another row.
LEMMA RowReplaced ==
  ASSUME NEW rows \in Rows, NEW y \in 0..(Height - 1), NEW row \in [1..MaxWidth -> Cell]
  PROVE  [rows EXCEPT ![y] = row] \in Rows
BY DEF Rows

LEMMA ErasesLine ==
  ASSUME NEW e \in Screen
  PROVE  Becomes(Emulate(e, <<"el">>), [e.rows EXCEPT ![e.y] = ErasedRow(e)], e.width,
                 e.x, e.y, FALSE, e.pen, e.visible)
<1>1. e.rows[e.y] \in [1..MaxWidth -> Cell] /\ blankChar(e.pen) \in Cell
  BY ScreenParts, BlankRow DEF Rows
<1>2. ErasedRow(e) \in [1..MaxWidth -> Cell]
  BY <1>1 DEF ErasedRow
<1> DEFINE rows == [e.rows EXCEPT ![e.y] = ErasedRow(e)]
<1>3. rows \in Rows
  BY <1>2, RowReplaced, ScreenParts
<1>4. MadeOf(Emulate(e, <<"el">>), rows, e.width, e.x, e.y, FALSE, e.pen, e.visible,
             Noted(e, <<"el">>))
  BY EmulateEraseLine
<1> HIDE DEF rows
<1>9. /\ e.rows \in Rows /\ e.width \in Widths /\ e.x \in Nat /\ e.x < e.width
      /\ e.y \in 0..(Height - 1) /\ e.wrap \in BOOLEAN /\ e.pen \in Colors
      /\ e.visible \in BOOLEAN /\ TRUE \in BOOLEAN /\ FALSE \in BOOLEAN
  BY ScreenParts
<1>5. Becomes(Emulate(e, <<"el">>), rows, e.width, e.x, e.y, FALSE, e.pen, e.visible)
  BY <1>3, <1>4, <1>9, BecomesMade
<1> QED BY <1>5 DEF rows

\* A screen that has scrolled.
LEMMA ScrolledRows ==
  ASSUME NEW e \in Screen
  PROVE  Scrolled(e) \in Rows
<1>1. \A r \in 0..(Height - 1) :
        (IF r + 1 < Height THEN e.rows[r + 1] ELSE BlankLine(e.pen)) \in [1..MaxWidth -> Cell]
  <2>1. e.rows \in [0..(Height - 1) -> [1..MaxWidth -> Cell]] /\ e.pen \in Colors
    BY ScreenParts DEF Rows
  <2>2. BlankLine(e.pen) \in [1..MaxWidth -> Cell]
    BY <2>1, BlankRow
  <2>3. \A r \in 0..(Height - 1) : r + 1 < Height => r + 1 \in 0..(Height - 1)
    BY ScreenNumbers
  <2> QED BY <2>1, <2>2, <2>3
<1> QED BY <1>1 DEF Scrolled, Rows

LEMMA FeedsLine ==
  ASSUME NEW e \in Screen
  PROVE  /\ e.y + 1 < Height =>
              Becomes(Emulate(e, <<"lf">>), e.rows, e.width, e.x, e.y + 1, FALSE, e.pen, e.visible)
         /\ ~(e.y + 1 < Height) =>
              Becomes(Emulate(e, <<"lf">>), Scrolled(e), e.width, e.x, e.y, FALSE, e.pen, e.visible)
<1>1. e.y + 1 < Height => e.y + 1 \in 0..(Height - 1)
  BY ScreenParts, ScreenNumbers
<1>9. /\ e.rows \in Rows /\ e.width \in Widths /\ e.x \in Nat /\ e.x < e.width
      /\ e.y \in 0..(Height - 1) /\ e.wrap \in BOOLEAN /\ e.pen \in Colors
      /\ e.visible \in BOOLEAN /\ TRUE \in BOOLEAN /\ FALSE \in BOOLEAN
  BY ScreenParts
<1>2. CASE e.y + 1 < Height
  <2> DEFINE y == e.y + 1
  <2>1. MadeOf(Emulate(e, <<"lf">>), e.rows, e.width, e.x, y, FALSE, e.pen, e.visible,
               Noted(e, <<"lf">>))
    BY <1>2, EmulateLineFeed
  <2>2. y \in 0..(Height - 1)
    BY <1>1, <1>2
  <2> HIDE DEF y
  <2>3. Becomes(Emulate(e, <<"lf">>), e.rows, e.width, e.x, y, FALSE, e.pen, e.visible)
    BY <1>9, <2>1, <2>2, BecomesMade
  <2> QED BY <1>2, <2>3 DEF y
<1>3. CASE ~(e.y + 1 < Height)
  <2>1. MadeOf(Emulate(e, <<"lf">>), Scrolled(e), e.width, e.x, e.y, FALSE, e.pen, e.visible,
               Noted(e, <<"lf">>))
    BY <1>3, EmulateLineFeed
  <2>2. Becomes(Emulate(e, <<"lf">>), Scrolled(e), e.width, e.x, e.y, FALSE, e.pen, e.visible)
    BY <1>9, <2>1, ScrolledRows, BecomesMade
  <2> QED BY <1>3, <2>2
<1> QED BY <1>2, <1>3

\* A screen with another cell.
LEMMA PutRowsType ==
  ASSUME NEW e \in Screen, NEW ch \in Characters
  PROVE  /\ PutRows(e, ch) \in Rows
         /\ PutRows(e, ch)[e.y][e.x + 1] = [ch |-> ch, color |-> e.pen]
         /\ \A i \in (1..MaxWidth) \ {e.x + 1} : PutRows(e, ch)[e.y][i] = e.rows[e.y][i]
         /\ \A r \in (0..(Height - 1)) \ {e.y} : PutRows(e, ch)[r] = e.rows[r]
<1>1. e.x + 1 \in 1..MaxWidth /\ e.rows[e.y] \in [1..MaxWidth -> Cell] /\ e.y \in 0..(Height - 1)
      /\ e.rows \in Rows
  BY ScreenParts, ScreenNumbers DEF Rows
<1>2. [ch |-> ch, color |-> e.pen] \in Cell
  BY ScreenParts DEF Cell
<1> DEFINE row == [e.rows[e.y] EXCEPT ![e.x + 1] = [ch |-> ch, color |-> e.pen]]
<1>3. row \in [1..MaxWidth -> Cell]
  BY <1>1, <1>2
<1>4. PutRows(e, ch) = [e.rows EXCEPT ![e.y] = row]
  BY DEF PutRows
<1>5. /\ row[e.x + 1] = [ch |-> ch, color |-> e.pen]
      /\ \A i \in (1..MaxWidth) \ {e.x + 1} : row[i] = e.rows[e.y][i]
  BY <1>1
<1> HIDE DEF row
<1>6. PutRows(e, ch) \in Rows
  BY <1>1, <1>3, <1>4, RowReplaced
<1>7. PutRows(e, ch)[e.y] = row /\ \A r \in (0..(Height - 1)) \ {e.y} : PutRows(e, ch)[r] = e.rows[r]
  BY <1>1, <1>4 DEF Rows
<1> QED BY <1>5, <1>6, <1>7

LEMMA Puts ==
  ASSUME NEW e \in Screen, NEW ch \in Characters, ~e.wrap
  PROVE  /\ e.x + 1 = e.width =>
              Becomes(Emulate(e, <<"put", ch>>), PutRows(e, ch), e.width, e.x, e.y, TRUE, e.pen, e.visible)
         /\ e.x + 1 # e.width =>
              Becomes(Emulate(e, <<"put", ch>>), PutRows(e, ch), e.width, e.x + 1, e.y, FALSE, e.pen, e.visible)
<1>1. e.x \in Nat /\ (e.x + 1 # e.width => e.x + 1 \in Nat /\ e.x + 1 < e.width) /\ e.wrap = FALSE
  BY ScreenParts, ScreenNumbers
<1>4. /\ e.rows \in Rows /\ e.width \in Widths /\ e.x \in Nat /\ e.x < e.width
      /\ e.y \in 0..(Height - 1) /\ e.pen \in Colors
      /\ e.visible \in BOOLEAN /\ TRUE \in BOOLEAN /\ FALSE \in BOOLEAN
  BY ScreenParts
<1>5. PutRows(e, ch) \in Rows
  BY PutRowsType
<1>2. CASE e.x + 1 = e.width
  <2>1. MadeOf(Emulate(e, <<"put", ch>>), PutRows(e, ch), e.width, e.x, e.y, TRUE, e.pen,
               e.visible, Noted(e, <<"put", ch>>))
    BY <1>2, EmulatePut
  <2>2. Becomes(Emulate(e, <<"put", ch>>), PutRows(e, ch), e.width, e.x, e.y, TRUE, e.pen, e.visible)
    BY <1>4, <1>5, <2>1, BecomesMade
  <2> QED BY <1>2, <2>2
<1>3. CASE e.x + 1 # e.width
  <2> DEFINE x == e.x + 1
  <2>1. MadeOf(Emulate(e, <<"put", ch>>), PutRows(e, ch), e.width, x, e.y, FALSE, e.pen,
               e.visible, Noted(e, <<"put", ch>>))
    BY <1>1, <1>3, EmulatePut
  <2>2. x \in Nat /\ x < e.width
    BY <1>1, <1>3
  <2> HIDE DEF x
  <2>3. Becomes(Emulate(e, <<"put", ch>>), PutRows(e, ch), e.width, x, e.y, FALSE, e.pen, e.visible)
    BY <1>4, <1>5, <2>1, <2>2, BecomesMade
  <2> QED BY <1>3, <2>3 DEF x
<1> QED BY <1>2, <1>3

\* The next line is begun before anything is put behind the last column.
LEMMA LineFedType ==
  ASSUME NEW e \in Screen
  PROVE  LineFeed(e) \in Screen /\ LineFeed(e).wrap = FALSE /\ LineFeed(e).width = e.width
<1>1. PICK t \in SUBSET {"color", "control"} : t = e.escapes
  BY ScreenFields
<1>4. /\ e.rows \in Rows /\ e.width \in Widths /\ e.x \in Nat /\ e.x < e.width
      /\ e.y \in 0..(Height - 1) /\ e.pen \in Colors
      /\ e.visible \in BOOLEAN /\ TRUE \in BOOLEAN /\ FALSE \in BOOLEAN
  BY ScreenParts
<1>5. Scrolled(e) \in Rows
  BY ScrolledRows
<1>2. CASE e.y + 1 < Height
  <2> DEFINE y == e.y + 1
  <2>1. MadeOf(LineFeed(e), e.rows, e.width, e.x, y, FALSE, e.pen, e.visible, t)
    BY <1>2, <1>1, LineFed
  <2>2. y \in 0..(Height - 1)
    BY <1>2, ScreenParts, ScreenNumbers
  <2> HIDE DEF y
  <2>3. LineFeed(e).wrap = FALSE
    BY <2>1 DEF MadeOf
  <2>4. Becomes(LineFeed(e), e.rows, e.width, e.x, y, FALSE, e.pen, e.visible)
    BY <1>4, <2>1, <2>2, MadeBecomes
  <2> QED BY <2>3, <2>4 DEF Becomes
<1>3. CASE ~(e.y + 1 < Height)
  <2>1. MadeOf(LineFeed(e), Scrolled(e), e.width, e.x, e.y, FALSE, e.pen, e.visible, t)
    BY <1>3, <1>1, LineFed
  <2>3. LineFeed(e).wrap = FALSE
    BY <2>1 DEF MadeOf
  <2>4. Becomes(LineFeed(e), Scrolled(e), e.width, e.x, e.y, FALSE, e.pen, e.visible)
    BY <1>4, <1>5, <2>1, MadeBecomes
  <2> QED BY <2>3, <2>4 DEF Becomes
<1> QED BY <1>2, <1>3

\* A screen with the cursor in the first column.
LEMMA FirstColumnType ==
  ASSUME NEW e \in Screen
  PROVE  [e EXCEPT !.x = 0] \in Screen /\ [e EXCEPT !.x = 0].width = e.width
<1>1. PICK r, w, x, y, b, p, v, s : MadeOf(e, r, w, x, y, b, p, v, s)
  BY ScreenFields
<1>2. /\ r = e.rows /\ w = e.width /\ x = e.x /\ y = e.y
      /\ b = e.wrap /\ p = e.pen /\ v = e.visible /\ s = e.escapes
  BY <1>1 DEF MadeOf
<1>3. MadeOf([e EXCEPT !.x = 0], r, w, 0, y, b, p, v, s)
  BY <1>1 DEF MadeOf
<1>4. s \in SUBSET {"color", "control"} /\ 0 \in Nat /\ 0 < w
  BY <1>2, ScreenFields, ScreenNumbers
<1>5. /\ r \in Rows /\ w \in Widths /\ y \in 0..(Height - 1) /\ b \in BOOLEAN
      /\ p \in Colors /\ v \in BOOLEAN
  BY <1>2, ScreenParts
<1> QED BY <1>2, <1>3, <1>4, <1>5, ScreenMade

\* Behind the last column, a character goes to the row below.
LEMMA PutsWrapped ==
  ASSUME NEW e \in Screen, NEW ch \in Characters, e.wrap
  PROVE  \E f \in Screen : /\ ~f.wrap /\ f.width = e.width
                          /\ Emulate(e, <<"put", ch>>) = Emulate(f, <<"put", ch>>)
<1> DEFINE f == LineFeed([e EXCEPT !.x = 0])
<1>1. f \in Screen /\ f.wrap = FALSE /\ f.width = e.width
  BY LineFedType, FirstColumnType
<1>2. PutChar(e, ch) = PutChar(f, ch)
  BY <1>1 DEF PutChar
<1>3. Effect(e, <<"put", ch>>) = PutChar(e, ch) /\ Effect(f, <<"put", ch>>) = PutChar(f, ch)
  BY DEF Effect
<1>4. Emulate(e, <<"put", ch>>) = Emulate(f, <<"put", ch>>)
  BY <1>2, <1>3 DEF Emulate
<1> QED BY <1>1, <1>4

(***************************************************************************)
(* A screen stays one, whatever is sent.                                   *)
(***************************************************************************)
LEMMA EmulateType ==
  ASSUME NEW e \in Screen, NEW cmd \in Command
  PROVE  Emulate(e, cmd) \in Screen
<1>1. \A f, rows, width, x, y, wrap, pen, visible :
        Becomes(f, rows, width, x, y, wrap, pen, visible) => f \in Screen
  BY DEF Becomes
<1>2. CASE cmd = <<"cr">>
  BY <1>1, <1>2, Returns
<1>3. CASE cmd = <<"lf">>
  BY <1>1, <1>3, FeedsLine
<1>4. CASE cmd = <<"el">>
  BY <1>1, <1>4, ErasesLine
<1>5. CASE cmd = <<"home">>
  BY <1>1, <1>5, GoesHome
<1>6. CASE cmd = <<"ed">>
  BY <1>1, <1>6, Erases
<1>7. CASE cmd = <<"show">>
  BY <1>1, <1>7, ShowsCursor
<1>8. CASE cmd = <<"hide">>
  BY <1>1, <1>8, Hides
<1>9. CASE cmd \in {"put"} \X Characters
  <2>1. PICK ch \in Characters : cmd = <<"put", ch>>
    BY <1>9
  <2>2. \A f \in Screen : ~f.wrap => Emulate(f, <<"put", ch>>) \in Screen
    BY <1>1, <2>1, Puts
  <2> QED BY <2>1, <2>2, PutsWrapped
<1>10. CASE cmd \in {"sgr"} \X Colors
  <2>1. PICK c \in Colors : cmd = <<"sgr", c>>
    BY <1>10
  <2> QED BY <1>1, <2>1, TakesPen
<1>11. CASE cmd \in {"up", "col"} \X Nat
  <2>1. PICK n \in Nat : cmd = <<"up", n>> \/ cmd = <<"col", n>>
    BY <1>11
  <2> QED BY <1>1, <2>1, GoesUp, TakesColumn
<1> QED BY <1>2, <1>3, <1>4, <1>5, <1>6, <1>7, <1>8, <1>9, <1>10, <1>11 DEF Command

----------------------------------------------------------------------------
(***************************************************************************)
(* What is sent, as a fold: nothing, a command, one thing after another.   *)
(***************************************************************************)
EmulateFunction == [z \in Screen \X Command |-> Emulate(z[1], z[2])]

\* A command takes a screen to a screen, as RecursionTheorems has it.
LEMMA EmulateCombines ==
  /\ Combines(EmulateFunction, Screen, Command)
  /\ \A e \in Screen, c \in Command : EmulateFunction[<<e, c>>] = Emulate(e, c)
<1>1. ASSUME NEW z \in Screen \X Command PROVE Emulate(z[1], z[2]) \in Screen
  BY EmulateType
<1>2. EmulateFunction \in [Screen \X Command -> Screen]
  BY <1>1 DEF EmulateFunction
<1>3. \A e \in Screen, c \in Command : EmulateFunction[<<e, c>>] = Emulate(e, c)
  BY DEF EmulateFunction
<1> QED BY <1>2, <1>3 DEF Combines

\* What is sent is the fold of its commands.
LEMMA RunFolded ==
  ASSUME NEW e \in Screen, NEW s \in Seq(Command)
  PROVE  Run(e, s) = Folded(EmulateFunction, e, s)
<1> DEFINE G(h) == [i \in 0..Len(s) |-> IF i = 0 THEN e ELSE Emulate(h[i - 1], s[i])]
           u == CHOOSE h : h = G(h)
<1>1. Len(s) \in Nat
  OBVIOUS
<1>2. PICK f \in [0..Len(s) -> Screen] :
        Folding(f, EmulateFunction, e, s) /\ DefinesFold(f, EmulateFunction, e, s)
  BY EmulateCombines, FoldingExists
<1>3. ASSUME NEW i \in 1..Len(s)
      PROVE  f[i] = Emulate(f[i - 1], s[i])
  <2>1. s[i] \in Command /\ i - 1 \in 0..Len(s)
    OBVIOUS
  <2>2. f[i - 1] \in Screen /\ f[i] = EmulateFunction[<<f[i - 1], s[i]>>]
    BY <1>2, <2>1 DEF Folding
  <2> QED BY <2>1, <2>2, EmulateCombines
<1>4. f = G(f)
  <2>1. \A i \in 0..Len(s) : i = 0 \/ i \in 1..Len(s)
    BY <1>1
  <2>2. f[0] = e
    BY <1>2 DEF Folding
  <2> QED BY <1>2, <1>3, <2>1, <2>2
<1>5. u = G(u)
  BY <1>4, Zenon
<1> DEFINE S == {i \in 0..Len(s) : u[i] = f[i]}
<1>6. 0 \in S
  <2>1. G(u)[0] = e /\ 0 \in 0..Len(s)
    BY <1>1
  <2> HIDE DEF G, u
  <2> QED BY <1>2, <1>5, <2>1 DEF Folding
<1>7. ASSUME NEW i \in 1..Len(s), i - 1 \in S PROVE i \in S
  <2>1. i \in 0..Len(s) /\ i # 0 /\ u[i - 1] = f[i - 1]
    BY <1>7
  <2>2. G(u)[i] = Emulate(u[i - 1], s[i])
    BY <2>1
  <2> HIDE DEF G, u
  <2>3. u[i] = f[i]
    BY <1>3, <1>5, <2>1, <2>2
  <2> QED BY <2>1, <2>3
<1>8. 0..Len(s) \subseteq S
  <2> HIDE DEF S
  <2> QED BY <1>1, <1>6, <1>7, IntervalInduction
<1>9. u[Len(s)] = f[Len(s)]
  <2>1. Len(s) \in S
    <3> HIDE DEF S
    <3>1. Len(s) \in 0..Len(s)
      BY <1>1
    <3> QED BY <1>8, <3>1
  <2> HIDE DEF u, G
  <2> QED BY <2>1
<1>10. Run(e, s) = u[Len(s)]
  BY DEF Run
<1> HIDE DEF u
<1> QED BY <1>2, <1>9, <1>10, EmulateCombines, FoldedIs

\* Nothing, one command, and one thing after another.
LEMMA RunFacts ==
  /\ \A e \in Screen : Run(e, <<>>) = e
  /\ \A e \in Screen, s \in Seq(Command) : Run(e, s) \in Screen
  /\ \A e \in Screen, c \in Command : Run(e, <<c>>) = Emulate(e, c)
  /\ \A e \in Screen, s \in Seq(Command), t \in Seq(Command) : Run(e, s \o t) = Run(Run(e, s), t)
<1>1. <<>> \in Seq(Command)
  OBVIOUS
<1>2. ASSUME NEW e \in Screen PROVE Run(e, <<>>) = e
  <2>1. Folded(EmulateFunction, e, <<>>) = e
    BY EmulateCombines, FoldedEmpty
  <2> QED BY <1>1, <2>1, RunFolded
<1>3. ASSUME NEW e \in Screen, NEW s \in Seq(Command) PROVE Run(e, s) \in Screen
  <2>1. Folded(EmulateFunction, e, s) \in Screen
    BY ONLY EmulateCombines, e \in Screen, s \in Seq(Command), FoldedType
  <2> QED BY <2>1, RunFolded
<1>4. ASSUME NEW e \in Screen, NEW c \in Command PROVE Run(e, <<c>>) = Emulate(e, c)
  <2>1. PICK s \in Seq(Command) : s = <<>>
    BY <1>1
  <2>2. Append(s, c) \in Seq(Command) /\ Append(s, c) = <<c>>
    BY <2>1
  <2>3. Combines(EmulateFunction, Screen, Command)
    BY EmulateCombines
  <2>4. Folded(EmulateFunction, e, Append(s, c)) = EmulateFunction[<<Folded(EmulateFunction, e, s), c>>]
    BY ONLY <2>3, e \in Screen, s \in Seq(Command), c \in Command, FoldedAppend
  <2>5. Folded(EmulateFunction, e, s) = e
    BY <2>1, <2>3, FoldedEmpty
  <2> QED BY <2>2, <2>4, <2>5, RunFolded, EmulateCombines
<1>5. ASSUME NEW e \in Screen, NEW s \in Seq(Command), NEW t \in Seq(Command)
      PROVE  Run(e, s \o t) = Run(Run(e, s), t)
  <2>1. s \o t \in Seq(Command)
    OBVIOUS
  <2>2. Folded(EmulateFunction, e, s \o t) =
          Folded(EmulateFunction, Folded(EmulateFunction, e, s), t)
    BY EmulateCombines, FoldedConcat
  <2> QED BY <1>3, <2>1, <2>2, RunFolded
<1> QED BY <1>2, <1>3, <1>4, <1>5
(***************************************************************************)
(* No command changes the width of the terminal.                           *)
(***************************************************************************)
LEMMA EmulateWidth ==
  ASSUME NEW e \in Screen, NEW cmd \in Command
  PROVE  Emulate(e, cmd).width = e.width
<1>1. \A f, rows, width, x, y, wrap, pen, visible :
        Becomes(f, rows, width, x, y, wrap, pen, visible) => f.width = width
  BY DEF Becomes
<1>2. CASE cmd = <<"cr">>
  BY <1>1, <1>2, Returns
<1>3. CASE cmd = <<"lf">>
  BY <1>1, <1>3, FeedsLine
<1>4. CASE cmd = <<"el">>
  BY <1>1, <1>4, ErasesLine
<1>5. CASE cmd = <<"home">>
  BY <1>1, <1>5, GoesHome
<1>6. CASE cmd = <<"ed">>
  BY <1>1, <1>6, Erases
<1>7. CASE cmd = <<"show">>
  BY <1>1, <1>7, ShowsCursor
<1>8. CASE cmd = <<"hide">>
  BY <1>1, <1>8, Hides
<1>9. CASE cmd \in {"put"} \X Characters
  <2>1. PICK ch \in Characters : cmd = <<"put", ch>>
    BY <1>9
  <2>2. ASSUME NEW f \in Screen, ~f.wrap PROVE Emulate(f, <<"put", ch>>).width = f.width
    BY <1>1, <2>1, <2>2, Puts
  <2>3. CASE ~e.wrap
    BY <2>1, <2>2, <2>3
  <2>4. CASE e.wrap
    <3>1. PICK f \in Screen : ~f.wrap /\ f.width = e.width /\ Emulate(e, <<"put", ch>>) = Emulate(f, <<"put", ch>>)
      BY <2>4, PutsWrapped
    <3> QED BY <2>1, <2>2, <3>1
  <2> QED BY <2>3, <2>4
<1>10. CASE cmd \in {"sgr"} \X Colors
  <2>1. PICK c \in Colors : cmd = <<"sgr", c>>
    BY <1>10
  <2> QED BY <1>1, <2>1, TakesPen
<1>11. CASE cmd \in {"up", "col"} \X Nat
  <2>1. PICK n \in Nat : cmd = <<"up", n>> \/ cmd = <<"col", n>>
    BY <1>11
  <2> QED BY <1>1, <2>1, GoesUp, TakesColumn
<1> QED BY <1>2, <1>3, <1>4, <1>5, <1>6, <1>7, <1>8, <1>9, <1>10, <1>11 DEF Command

\* Screens that every one of some commands keeps of a kind stay of that kind
\* whatever is sent of those commands.
LEMMA RunKeeps ==
  ASSUME NEW P \in SUBSET Screen, NEW C \in SUBSET Command,
         \A f \in P, c \in C : Emulate(f, c) \in P, NEW e \in P
  PROVE  \A s \in Seq(C) : Run(e, s) \in P
<1>0. e \in Screen /\ Seq(C) \subseteq Seq(Command)
  OBVIOUS
<1> DEFINE S == {n \in Nat : \A s \in Seq(C) : Len(s) = n => Run(e, s) \in P}
<1>1. 0 \in S
  <2>1. ASSUME NEW s \in Seq(C), Len(s) = 0 PROVE Run(e, s) \in P
    <3>1. s = <<>>
      BY <2>1
    <3> QED BY <1>0, <3>1, RunFacts
  <2> QED BY <2>1
<1>2. ASSUME NEW n \in Nat, n \in S PROVE n + 1 \in S
  <2>1. ASSUME NEW s \in Seq(C), Len(s) = n + 1 PROVE Run(e, s) \in P
    <3>1. SubSeq(s, 1, n) \in Seq(C) /\ Len(SubSeq(s, 1, n)) = n /\ s[n + 1] \in C
          /\ \A i \in 1..n : SubSeq(s, 1, n)[i] = s[i]
      BY <2>1
    <3>2. PICK a \in Seq(C), c \in C : a = SubSeq(s, 1, n) /\ c = s[n + 1]
      BY <3>1
    <3>3. Len(a) = n /\ \A i \in 1..n : a[i] = s[i]
      BY <3>1, <3>2
    <3>4. PICK b \in Seq(C) : b = <<c>>
      <4>1. <<c>> \in Seq(C)
        OBVIOUS
      <4> QED BY <4>1
    <3>5. Len(b) = 1 /\ b[1] = c
      BY <3>4
    <3>6. a \o b \in Seq(C) /\ Len(a \o b) = n + 1
          /\ \A i \in 1..n : (a \o b)[i] = a[i]
          /\ (a \o b)[n + 1] = b[1]
      <4>1. /\ a \o b \in Seq(C) /\ Len(a \o b) = Len(a) + Len(b)
            /\ \A i \in 1..Len(a) : (a \o b)[i] = a[i]
            /\ \A i \in 1..Len(b) : (a \o b)[Len(a) + i] = b[i]
        OBVIOUS
      <4>2. 1 \in 1..Len(b)
        BY <3>5
      <4> QED BY <3>3, <3>5, <4>1, <4>2
    <3>7. \A i \in 1..(n + 1) : i \in 1..n \/ i = n + 1
      OBVIOUS
    <3>8. s = a \o b
      <4>1. \A i \in 1..Len(s) : s[i] = (a \o b)[i]
        BY <2>1, <3>2, <3>3, <3>5, <3>6, <3>7
      <4> QED BY <2>1, <3>6, <4>1, SeqEqual
    <3>9. Run(e, a \o b) = Run(Run(e, a), b) /\ Run(e, a) \in Screen
      BY <1>0, RunFacts
    <3>10. Run(e, a) \in P
      BY <1>2, <3>3
    <3>11. Run(Run(e, a), b) = Emulate(Run(e, a), c)
      BY <3>4, <3>9, RunFacts
    <3> QED BY <3>8, <3>9, <3>10, <3>11
  <2> QED BY <2>1
<1>3. Nat \subseteq S
  <2> HIDE DEF S
  <2> QED BY <1>1, <1>2, SetInduction
<1>4. ASSUME NEW s \in Seq(C) PROVE Run(e, s) \in P
  <2>1. Len(s) \in Nat
    OBVIOUS
  <2> QED BY <1>3, <2>1
<1> QED BY <1>4

\* Nor does what is sent.
LEMMA RunWidth ==
  ASSUME NEW e \in Screen
  PROVE  \A s \in Seq(Command) : Run(e, s).width = e.width
<1> DEFINE P == {f \in Screen : f.width = e.width}
<1>1. P \in SUBSET Screen /\ e \in P /\ \A f \in P, c \in Command : Emulate(f, c) \in P
  BY EmulateType, EmulateWidth
<1>2. \A s \in Seq(Command) : Run(e, s) \in P
  <2> HIDE DEF P
  <2> QED BY <1>1, RunKeeps
<1> QED BY <1>2

----------------------------------------------------------------------------
(***************************************************************************)
(* The Terminal object and the terminal.                                   *)
(***************************************************************************)
\* The Terminal object.
Object ==
  [plainMode : BOOLEAN, outputColor : BOOLEAN, remoteLine : Int, remoteColumn : Nat,
   lineDataValid : BOOLEAN, lineData : Seq(Cell), cursorHidden : BOOLEAN,
   remoteColor : Colors \union {NoColor}, out : Seq(Command)]

\* The commands, one by one.
LEMMA Commands ==
  /\ <<"cr">> \in Command /\ <<"lf">> \in Command /\ <<"el">> \in Command /\ <<"home">> \in Command
  /\ <<"ed">> \in Command /\ <<"show">> \in Command /\ <<"hide">> \in Command
  /\ \A ch \in Characters : <<"put", ch>> \in Command
  /\ \A c \in Colors : <<"sgr", c>> \in Command
  /\ \A n \in Nat : <<"up", n>> \in Command /\ <<"col", n>> \in Command
BY DEF Command

\* A command is something that can be sent.
LEMMA OneCommand ==
  ASSUME NEW c \in Command
  PROVE  <<c>> \in Seq(Command) /\ Len(<<c>>) = 1
OBVIOUS

\* Writing changes nothing of an object but what it has written.
LEMMA WriteFacts ==
  ASSUME NEW t \in Object, NEW c \in Seq(Command)
  PROVE  /\ Write(t, c) \in Object /\ Write(t, c).out = t.out \o c
         /\ Write(t, c).plainMode = t.plainMode /\ Write(t, c).outputColor = t.outputColor
         /\ Write(t, c).remoteLine = t.remoteLine /\ Write(t, c).remoteColumn = t.remoteColumn
         /\ Write(t, c).lineDataValid = t.lineDataValid /\ Write(t, c).lineData = t.lineData
         /\ Write(t, c).cursorHidden = t.cursorHidden /\ Write(t, c).remoteColor = t.remoteColor
<1>1. t.out \o c \in Seq(Command)
  BY DEF Object
<1> QED BY <1>1 DEF Write, Object

\* What the terminal is like once it has been sent what the object has written.
At(e, t) == Run(e, t.out)

\* What is written later is sent to what was made of what was written before.
LEMMA AtWritten ==
  ASSUME NEW e \in Screen, NEW t \in Object, NEW u, NEW c \in Seq(Command), u.out = t.out \o c
  PROVE  At(e, t) \in Screen /\ At(e, u) = Run(At(e, t), c) /\ At(e, u) \in Screen
<1>1. t.out \in Seq(Command)
  BY DEF Object
<1> QED BY <1>1, RunFacts DEF At

----------------------------------------------------------------------------
\* The commands of a line, and the kinds of commands in what is written.
LineCommand == {<<"el">>} \union ({"put"} \X Characters) \union ({"sgr"} \X Colors)

KindsOf(commands) == {commands[i][1] : i \in 1..Len(commands)}

\* The kinds of commands in two parts.
LEMMA KindsConcat ==
  /\ KindsOf(<<>>) = {}
  /\ \A c \in Command : KindsOf(<<c>>) = {c[1]}
  /\ \A s \in Seq(Command), t \in Seq(Command) : KindsOf(s \o t) = KindsOf(s) \union KindsOf(t)
<1>1. KindsOf(<<>>) = {}
  BY DEF KindsOf
<1>2. ASSUME NEW c \in Command PROVE KindsOf(<<c>>) = {c[1]}
  BY DEF KindsOf
<1>3. ASSUME NEW s \in Seq(Command), NEW t \in Seq(Command)
      PROVE  KindsOf(s \o t) = KindsOf(s) \union KindsOf(t)
  <2>1. /\ Len(s) \in Nat /\ Len(t) \in Nat /\ Len(s \o t) = Len(s) + Len(t)
        /\ \A i \in 1..Len(s) : (s \o t)[i] = s[i]
        /\ \A i \in 1..Len(t) : (s \o t)[Len(s) + i] = t[i]
    OBVIOUS
  <2> DEFINE u == s \o t
             n == Len(s)
             m == Len(t)
  <2>2. /\ n \in Nat /\ m \in Nat /\ Len(u) = n + m
        /\ \A i \in 1..n : u[i] = s[i]
        /\ \A i \in 1..m : u[n + i] = t[i]
    BY <2>1
  <2> HIDE DEF u
  <2>3. ASSUME NEW i \in 1..(n + m) PROVE u[i][1] \in KindsOf(s) \union KindsOf(t)
    <3>1. CASE i <= n
      <4>1. i \in 1..n
        BY <2>2, <3>1
      <4> QED BY <2>2, <4>1 DEF KindsOf
    <3>2. CASE i > n
      <4>1. i - n \in 1..m /\ n + (i - n) = i
        BY <2>2, <3>2
      <4>2. u[i] = t[i - n]
        BY <2>2, <4>1
      <4> QED BY <4>1, <4>2 DEF KindsOf
    <3> QED BY <2>2, <3>1, <3>2
  <2>4. ASSUME NEW i \in 1..n PROVE s[i][1] \in KindsOf(u)
    <3>1. i \in 1..(n + m)
      BY <2>2
    <3> QED BY <2>2, <3>1 DEF KindsOf
  <2>5. ASSUME NEW i \in 1..m PROVE t[i][1] \in KindsOf(u)
    <3>1. n + i \in 1..(n + m)
      BY <2>2
    <3> QED BY <2>2, <3>1 DEF KindsOf
  <2>6. KindsOf(u) \subseteq KindsOf(s) \union KindsOf(t)
    BY <2>2, <2>3 DEF KindsOf
  <2>7. KindsOf(s) \subseteq KindsOf(u) /\ KindsOf(t) \subseteq KindsOf(u)
    BY <2>4, <2>5 DEF KindsOf
  <2> QED BY <2>6, <2>7 DEF u
<1> QED BY <1>1, <1>2, <1>3

\* Writes, in terms of the kinds of commands.
LEMMA WritesKinds ==
  ASSUME NEW t, NEW K
  PROVE  Writes(t, K) <=> KindsOf(t.out) \intersect K # {}
BY DEF Writes, KindsOf

\* A line is output with characters, colors and erasing to its end.
LEMMA LineCommandFacts ==
  /\ Seq(LineCommand) \subseteq Seq(Command)
  /\ <<"el">> \in LineCommand
  /\ \A ch \in Characters : <<"put", ch>> \in LineCommand
  /\ \A c \in Colors : <<"sgr", c>> \in LineCommand
  /\ \A s \in Seq(LineCommand) : KindsOf(s) \subseteq {"el", "put", "sgr"}
<1>1. LineCommand \subseteq Command
  BY DEF LineCommand, Command
<1>2. \A c \in LineCommand : c[1] \in {"el", "put", "sgr"}
  BY DEF LineCommand
<1>3. ASSUME NEW s \in Seq(LineCommand) PROVE KindsOf(s) \subseteq {"el", "put", "sgr"}
  BY <1>2 DEF KindsOf
<1>4. ASSUME NEW s \in Seq(LineCommand) PROVE s \in Seq(Command)
  BY <1>1
<1> QED BY <1>3, <1>4 DEF LineCommand
----------------------------------------------------------------------------
\* What is left of a line to output is well formed: the object and the line.
Rest(t, data) == t \in Object /\ data \in Seq(Cell) /\ Len(t.lineData) <= Len(data)

\* The numbers of what is left.
LEMMA RestFacts ==
  ASSUME NEW t, NEW data, Rest(t, data)
  PROVE  /\ Len(t.lineData) \in Nat /\ Len(data) \in Nat /\ Len(data) - Len(t.lineData) \in Nat
         /\ Len(t.lineData) <= Len(data) /\ t.lineData \in Seq(Cell)
         /\ \A i \in 1..Len(data) : data[i] \in Cell /\ data[i].ch \in Characters /\ data[i].color \in Colors
<1>1. t.lineData \in Seq(Cell) /\ data \in Seq(Cell) /\ Len(t.lineData) <= Len(data)
  BY DEF Rest, Object
<1>2. \A i \in 1..Len(data) : data[i] \in Cell
  BY <1>1
<1> QED BY <1>1, <1>2 DEF Cell

\* The first c of k cells are what has to be output of them.
Trimmed(t, data, k, c) ==
  /\ c \in Len(t.lineData)..k /\ (c = k /\ c > Len(t.lineData) => data[k].ch # Space)
  /\ \A i \in (c + 1)..k : data[i].ch = Space
  /\ \A i \in (c + 2)..k : ~SetsColor(t, data, i)

(* What trimmedCellCount leaves out: spaces, of the color before them but  *)
(* for the first.                                                          *)
LEMMA TrimmedFacts ==
  ASSUME NEW t, NEW data, Rest(t, data)
  PROVE  Trimmed(t, data, Len(data), trimmedCellCount(t, data))
<1> DEFINE from == Len(t.lineData)
           m == Len(data) - from
           G(h) == [k \in 0..m |->
                      IF k = 0 THEN from
                      ELSE IF data[from + k].ch # Space THEN from + k
                      ELSE IF SetsColor(t, data, from + k) THEN from + k - 1
                      ELSE h[k - 1]]
           H == [z \in Int \X (1..m) |->
                   IF data[from + z[2]].ch # Space THEN from + z[2]
                   ELSE IF SetsColor(t, data, from + z[2]) THEN from + z[2] - 1
                   ELSE z[1]]
           u == CHOOSE h : h = G(h)
<1>2. trimmedCellCount(t, data) = u[m]
  BY DEF trimmedCellCount
<1> HIDE DEF from, m
<1>1. from \in Nat /\ m \in Nat /\ from \in Int /\ Len(data) = from + m /\ Len(t.lineData) = from
  BY RestFacts DEF from, m
<1>3. H \in [Int \X (1..m) -> Int]
  <2>2. \A z \in Int \X (1..m) : z[1] \in Int /\ z[2] \in Nat
    OBVIOUS
  <2>1. ASSUME NEW z \in Int \X (1..m)
        PROVE  (IF data[from + z[2]].ch # Space THEN from + z[2]
                ELSE IF SetsColor(t, data, from + z[2]) THEN from + z[2] - 1
                ELSE z[1]) \in Int
    BY <1>1, <2>2
  <2> QED BY <2>1
<1>4. PICK f \in [0..m -> Int] : Recurs(f, m, from, H)
  <2> DEFINE V == Int
  <2>1. m \in Nat /\ from \in V /\ H \in [V \X (1..m) -> V]
    BY <1>1, <1>3
  <2> HIDE DEF H, V
  <2>2. \E f \in [0..m -> V] : Recurs(f, m, from, H)
    BY ONLY <2>1, RecursExists
  <2> QED BY <2>2 DEF V
<1>5. f = G(f)
  <2>1. ASSUME NEW i \in 0..m
        PROVE  f[i] = IF i = 0 THEN from
                      ELSE IF data[from + i].ch # Space THEN from + i
                      ELSE IF SetsColor(t, data, from + i) THEN from + i - 1
                      ELSE f[i - 1]
    <3>1. CASE i = 0
      BY <1>4, <3>1 DEF Recurs
    <3>2. CASE i # 0
      <4>1. <<f[i - 1], i>> \in Int \X (1..m) /\ i \in 1..m
        BY <1>1, <3>2
      <4>2. f[i] = H[<<f[i - 1], i>>]
        <5> HIDE DEF H
        <5> QED BY <1>4, <4>1 DEF Recurs
      <4> QED BY <3>2, <4>1, <4>2
    <3> QED BY <3>1, <3>2
  <2> QED BY <1>4, <2>1
<1>6. u = G(u)
  <2> HIDE DEF G
  <2> QED BY <1>5, Zenon
<1>7. /\ u[0] = from
      /\ \A k \in 1..m : u[k] = IF data[from + k].ch # Space THEN from + k
                                ELSE IF SetsColor(t, data, from + k) THEN from + k - 1
                                ELSE u[k - 1]
  <2> HIDE DEF u
  <2>1. ASSUME NEW k \in 0..m
        PROVE  u[k] = IF k = 0 THEN from
                      ELSE IF data[from + k].ch # Space THEN from + k
                      ELSE IF SetsColor(t, data, from + k) THEN from + k - 1
                      ELSE u[k - 1]
    <3>1. u[k] = G(u)[k]
      BY <1>6
    <3> QED BY <3>1
  <2>2. 0 \in 0..m /\ \A k \in 1..m : k \in 0..m /\ k # 0
    BY <1>1
  <2> QED BY <2>1, <2>2
<1> HIDE DEF u, G, H
<1> DEFINE S == {k \in 0..m : Trimmed(t, data, from + k, u[k])}
<1>8. 0 \in S
  <2>1. from + 0 = from /\ u[0] = from /\ 0 \in 0..m
    BY <1>1, <1>7
  <2>2. Trimmed(t, data, from, from)
    BY <1>1 DEF Trimmed
  <2> QED BY <2>1, <2>2
<1>9. ASSUME NEW k \in 1..m, k - 1 \in S PROVE k \in S
  <2> DEFINE n == from + k
             b == u[k - 1]
  <2>1. k \in 0..m /\ Trimmed(t, data, n - 1, b) /\ n \in Nat /\ n > from
    <3>1. Trimmed(t, data, from + (k - 1), u[k - 1]) /\ from + (k - 1) = n - 1
      BY <1>1, <1>9
    <3> QED BY <1>1, <3>1
  <2>5. u[k] = IF data[n].ch # Space THEN n ELSE IF SetsColor(t, data, n) THEN n - 1 ELSE b
    <3>1. from + k - 1 = n - 1
      BY <1>1
    <3> QED BY <1>7, <3>1
  <2> HIDE DEF n, b
  <2>2. CASE data[n].ch # Space
    <3>1. u[k] = n
      BY <2>2, <2>5
    <3>2. Trimmed(t, data, n, n)
      BY <1>1, <2>1, <2>2 DEF Trimmed
    <3> QED BY <2>1, <3>1, <3>2 DEF n
  <2>3. CASE data[n].ch = Space /\ SetsColor(t, data, n)
    <3>1. u[k] = n - 1
      BY <2>3, <2>5
    <3>2. \A i \in ((n - 1) + 1)..n : i = n
      BY <2>1
    <3>3. Trimmed(t, data, n, n - 1)
      BY <1>1, <2>1, <2>3, <3>2 DEF Trimmed
    <3> QED BY <2>1, <3>1, <3>3 DEF n
  <2>4. CASE data[n].ch = Space /\ ~SetsColor(t, data, n)
    <3>1. u[k] = b
      BY <2>4, <2>5
    <3>2. b \in from..(n - 1) /\ b \in Int
      BY <1>1, <2>1 DEF Trimmed
    <3>3. \A i \in Int : i <= n => i <= n - 1 \/ i = n
      BY <2>1
    <3>4. Trimmed(t, data, n, b)
      BY <1>1, <2>1, <2>4, <3>2, <3>3 DEF Trimmed
    <3> QED BY <2>1, <3>1, <3>4 DEF n
  <2> QED BY <2>2, <2>3, <2>4
<1>10. 0..m \subseteq S
  <2> HIDE DEF S
  <2> QED BY <1>1, <1>8, <1>9, IntervalInduction
<1>11. Trimmed(t, data, from + m, u[m])
  <2>1. m \in S
    <3> HIDE DEF S
    <3> QED BY <1>1, <1>10
  <2> QED BY <2>1
<1> QED BY <1>1, <1>2, <1>11

\* What is output of a cell.
LEMMA CommandsOfCell ==
  ASSUME NEW t, NEW data, Rest(t, data)
  PROVE  /\ \A i \in Int : ColorCommand(t, data, i) \in Seq(LineCommand)
         /\ \A i \in 1..Len(data) : CellCommands(t, data, i) \in Seq(LineCommand)
<1>1. <<>> \in Seq(LineCommand)
  OBVIOUS
<1>2. \A c \in LineCommand : <<c>> \in Seq(LineCommand)
  OBVIOUS
<1>3. ASSUME NEW i \in Int PROVE ColorCommand(t, data, i) \in Seq(LineCommand)
  <2>1. CASE i \in Remaining(t, data)
    <3>1. i \in 1..Len(data)
      BY <2>1, RestFacts DEF Remaining
    <3>2. <<"sgr", data[i].color>> \in LineCommand
      BY <3>1, RestFacts, LineCommandFacts
    <3> QED BY <1>1, <1>2, <3>2 DEF ColorCommand
  <2>2. CASE i \notin Remaining(t, data)
    BY <1>1, <2>2 DEF ColorCommand
  <2> QED BY <2>1, <2>2
<1>4. ASSUME NEW i \in 1..Len(data) PROVE CellCommands(t, data, i) \in Seq(LineCommand)
  <2>1. <<"put", data[i].ch>> \in LineCommand
    BY RestFacts, LineCommandFacts
  <2> DEFINE el == IF i = Len(data) /\ ErasesEarly(t, data) /\ ~t.plainMode THEN <<<<"el">>>> ELSE <<>>
             c == ColorCommand(t, data, i)
             p == <<"put", data[i].ch>>
  <2>2. el \in Seq(LineCommand)
    BY <1>1, <1>2, LineCommandFacts
  <2>3. c \in Seq(LineCommand)
    BY <1>3
  <2>4. <<p>> \in Seq(LineCommand)
    BY <1>2, <2>1
  <2>5. CellCommands(t, data, i) = c \o el \o <<p>>
    BY DEF CellCommands
  <2> HIDE DEF el, c, p
  <2> QED BY <2>2, <2>3, <2>4, <2>5
<1> QED BY <1>3, <1>4

\* The output of the cells, one cell after another.
LEMMA CellsFacts ==
  ASSUME NEW t, NEW data, Rest(t, data)
  PROVE  /\ Cells(t, data, 0) = <<>>
         /\ \A k \in 0..(Len(data) - Len(t.lineData)) : Cells(t, data, k) \in Seq(LineCommand)
         /\ \A k \in 1..(Len(data) - Len(t.lineData)) :
              Cells(t, data, k) = Cells(t, data, k - 1) \o CellCommands(t, data, Len(t.lineData) + k)
<1> DEFINE from == Len(t.lineData)
           m == Len(data) - from
           C(i) == CellCommands(t, data, i)
           V == Seq(LineCommand)
           G(h) == [k \in 0..m |-> IF k = 0 THEN <<>> ELSE h[k - 1] \o C(from + k)]
           H == [z \in V \X (1..m) |-> z[1] \o C(from + z[2])]
           u == CHOOSE h : h = G(h)
<1>2. \A k : Cells(t, data, k) = u[k]
  BY DEF Cells
<1> HIDE DEF from, m
<1>1. from \in Nat /\ m \in Nat /\ Len(data) = from + m /\ Len(t.lineData) = from
      /\ Len(data) - Len(t.lineData) = m
  BY RestFacts DEF from, m
<1>3. \A k \in 1..m : C(from + k) \in V
  <2>1. \A k \in 1..m : from + k \in 1..Len(data)
    BY <1>1
  <2> QED BY <2>1, CommandsOfCell
<1> HIDE DEF C
<1>4. H \in [V \X (1..m) -> V]
  <2>1. ASSUME NEW z \in V \X (1..m) PROVE z[1] \o C(from + z[2]) \in V
    <3>1. z[1] \in V /\ C(from + z[2]) \in V
      BY <1>3
    <3> QED BY <3>1
  <2> QED BY <2>1
<1>5. \A v \in V, k \in 1..m : H[<<v, k>>] = v \o C(from + k)
  OBVIOUS
<1>6. <<>> \in V
  OBVIOUS
<1>7. PICK f \in [0..m -> V] : Recurs(f, m, <<>>, H)
  <2> HIDE DEF H, V
  <2>1. PICK a \in V : a = <<>>
    BY <1>6
  <2>2. \E f \in [0..m -> V] : Recurs(f, m, a, H)
    BY ONLY <1>1, <1>4, a \in V, RecursExists
  <2> QED BY <2>1, <2>2
<1> HIDE DEF H
<1>8. f[0] = <<>> /\ \A k \in 1..m : f[k] = f[k - 1] \o C(from + k)
  <2>1. ASSUME NEW k \in 1..m PROVE f[k] = f[k - 1] \o C(from + k)
    <3> HIDE DEF V
    <3>1. k - 1 \in 0..m
      BY <1>1
    <3>2. f[k - 1] \in V
      BY <3>1
    <3> QED BY <1>5, <1>7, <3>2 DEF Recurs
  <2> QED BY <1>7, <2>1 DEF Recurs
<1> HIDE DEF V
<1>9. f = G(f)
  <2>1. ASSUME NEW k \in 0..m PROVE f[k] = IF k = 0 THEN <<>> ELSE f[k - 1] \o C(from + k)
    <3>1. k = 0 \/ k \in 1..m
      BY <1>1
    <3> QED BY <1>8, <3>1
  <2> QED BY <2>1
<1>10. u = G(u)
  <2> HIDE DEF G
  <2> QED BY <1>9, Zenon
<1>11. u[0] = <<>> /\ \A k \in 1..m : u[k] = u[k - 1] \o C(from + k)
  <2> HIDE DEF u
  <2>1. ASSUME NEW k \in 0..m PROVE u[k] = IF k = 0 THEN <<>> ELSE u[k - 1] \o C(from + k)
    <3>1. u[k] = G(u)[k]
      BY <1>10
    <3> QED BY <3>1
  <2>2. 0 \in 0..m /\ \A k \in 1..m : k \in 0..m /\ k # 0
    BY <1>1
  <2> QED BY <2>1, <2>2
<1> HIDE DEF u, G
<1> DEFINE S == {k \in 0..m : u[k] \in V}
<1>12. 0 \in S
  BY <1>1, <1>6, <1>11
<1>13. ASSUME NEW k \in 1..m, k - 1 \in S PROVE k \in S
  <2>1. k \in 0..m /\ u[k - 1] \in V /\ C(from + k) \in V
    BY <1>1, <1>3, <1>13
  <2>2. u[k - 1] \o C(from + k) \in V
    BY <2>1 DEF V
  <2> QED BY <1>11, <2>1, <2>2
<1>14. 0..m \subseteq S
  <2> HIDE DEF S
  <2> QED BY <1>1, <1>12, <1>13, IntervalInduction
<1>15. \A k \in 0..m : u[k] \in V
  BY <1>14
<1> QED BY <1>1, <1>2, <1>11, <1>15 DEF C, V

\* What is output of a line, in three parts.
LEMMA CommandsOfLine ==
  ASSUME NEW t, NEW data, Rest(t, data)
  PROVE  /\ LineCommands(t, data) \in Seq(LineCommand)
         /\ LineCommands(t, data) \in Seq(Command)
         /\ ~t.plainMode => KindsOf(LineCommands(t, data)) \intersect {"put", "el"} # {}
<1> DEFINE to == trimmedCellCount(t, data)
           n == Len(data)
           from == Len(t.lineData)
           cells == Cells(t, data, to - from)
           color == ColorCommand(t, data, to + 1)
           el == IF ErasesEarly(t, data) \/ t.plainMode THEN <<>> ELSE <<<<"el">>>>
<1>2. LineCommands(t, data) = cells \o color \o el
  BY DEF LineCommands
<1> HIDE DEF to, n, from, cells, color, el
<1>1. /\ from \in Nat /\ n \in Nat /\ to \in from..n /\ to \in Nat /\ to + 1 \in Int
      /\ \A i \in (to + 1)..n : data[i].ch = Space
      /\ n = Len(data) /\ from = Len(t.lineData) /\ to - from \in 0..(n - from)
  <2>1. Trimmed(t, data, n, to) /\ from \in Nat /\ n \in Nat
    BY TrimmedFacts, RestFacts DEF from, n, to
  <2> QED BY <2>1 DEF Trimmed, from, n
<1>3. cells \in Seq(LineCommand)
  <2>1. Cells(t, data, to - from) \in Seq(LineCommand)
    BY <1>1, CellsFacts
  <2> QED BY <2>1 DEF cells
<1>4. color \in Seq(LineCommand)
  BY <1>1, CommandsOfCell DEF color
<1>5. el \in Seq(LineCommand)
  BY LineCommandFacts DEF el
<1>6. cells \o color \o el \in Seq(LineCommand)
  BY <1>3, <1>4, <1>5
<1>7. ASSUME ~t.plainMode PROVE KindsOf(cells \o color \o el) \intersect {"put", "el"} # {}
  <2>1. cells \in Seq(Command) /\ color \in Seq(Command) /\ el \in Seq(Command)
        /\ cells \o color \in Seq(Command)
    <3>1. cells \in Seq(Command) /\ color \in Seq(Command) /\ el \in Seq(Command)
      BY <1>3, <1>4, <1>5, LineCommandFacts
    <3>2. cells \o color \in Seq(Command)
      BY <3>1
    <3> QED BY <3>1, <3>2
  <2>2. KindsOf(cells \o color \o el) = KindsOf(cells) \union KindsOf(color) \union KindsOf(el)
    BY <2>1, KindsConcat
  <2>3. CASE ~ErasesEarly(t, data)
    <3>1. el = <<<<"el">>>>
      BY <1>7, <2>3 DEF el
    <3>2. KindsOf(el) = {"el"}
      BY <3>1, Commands, KindsConcat
    <3> QED BY <2>2, <3>2
  <2>4. CASE ErasesEarly(t, data)
    <3>1. from < n /\ data[n].ch # Space
      BY <1>1, <2>4 DEF ErasesEarly, Remaining
    <3>2. to = n
      <4>1. to < n => n \in (to + 1)..n
        BY <1>1
      <4> QED BY <1>1, <3>1, <4>1
    <3>3. to - from \in 1..(n - from) /\ from + (to - from) = n /\ (to - from) - 1 \in 0..(n - from)
      BY <1>1, <3>1, <3>2
    <3> DEFINE p == Cells(t, data, (to - from) - 1)
               c == ColorCommand(t, data, n)
               d == IF n = Len(data) /\ ErasesEarly(t, data) /\ ~t.plainMode THEN <<<<"el">>>> ELSE <<>>
               put == <<"put", data[n].ch>>
    <3>4. cells = p \o CellCommands(t, data, n)
      <4>1. Cells(t, data, to - from) =
              Cells(t, data, (to - from) - 1) \o CellCommands(t, data, from + (to - from))
        BY <1>1, <3>3, CellsFacts
      <4> QED BY <3>3, <4>1 DEF cells
    <3>5. CellCommands(t, data, n) = c \o d \o <<put>>
      BY <1>1 DEF CellCommands
    <3>6. put \in Command /\ n \in 1..Len(data) /\ n \in Int
      <4>1. n \in 1..Len(data)
        BY <1>1, <3>1
      <4> QED BY <1>1, <4>1, RestFacts, Commands
    <3>7. p \in Seq(Command)
      BY <1>1, <3>3, CellsFacts, LineCommandFacts
    <3>8. c \in Seq(Command)
      BY <3>6, CommandsOfCell, LineCommandFacts
    <3>9. d \in Seq(Command)
      BY Commands
    <3>10. CellCommands(t, data, n) \in Seq(Command)
      BY <3>6, CommandsOfCell, LineCommandFacts
    <3>11. put[1] = "put"
      OBVIOUS
    <3> HIDE DEF p, c, d, put
    <3>16. <<put>> \in Seq(Command) /\ c \o d \in Seq(Command)
      BY <3>6, <3>8, <3>9
    <3>12. PICK b \in Seq(Command), q \in Seq(Command) : b = c \o d /\ q = <<put>>
      BY <3>16
    <3>13. KindsOf(q) = {"put"}
      BY <3>6, <3>11, <3>12, KindsConcat
    <3>14. "put" \in KindsOf(CellCommands(t, data, n))
      <4>1. KindsOf(b \o q) = KindsOf(b) \union KindsOf(q)
        BY KindsConcat
      <4> QED BY <3>5, <3>12, <3>13, <4>1
    <3>15. "put" \in KindsOf(cells)
      BY <3>4, <3>7, <3>10, <3>14, KindsConcat
    <3> QED BY <2>2, <3>15
  <2> QED BY <2>3, <2>4
<1> QED BY <1>2, <1>6, <1>7, LineCommandFacts

----------------------------------------------------------------------------
(***************************************************************************)
(* What a line does to the terminal.                                       *)
(***************************************************************************)
\* The terminal has the color the object takes it to have.
PenKnown(f, t) == t.remoteColor # NoColor => f.pen = t.remoteColor

\* Before a cell is output the terminal has its color.
LEMMA ColorIsSet ==
  ASSUME NEW t, NEW data, Rest(t, data), NEW f \in Screen, NEW i \in Int
  PROVE  \E pen \in Colors :
           /\ Becomes(Run(f, ColorCommand(t, data, i)), f.rows, f.width, f.x, f.y, f.wrap, pen, f.visible)
           /\ i \notin Remaining(t, data) => pen = f.pen
           /\ i \in Remaining(t, data) /\ t.outputColor => 
                \/ SetsColor(t, data, i) /\ pen = data[i].color
                \/ data[i].color = ColorBefore(t, data, i) /\ pen = f.pen
<1>1. CASE i \in Remaining(t, data) /\ SetsColor(t, data, i)
  <2>1. i \in 1..Len(data)
    BY <1>1, RestFacts DEF Remaining
  <2>2. data[i].color \in Colors
    BY <2>1, RestFacts
  <2>3. ColorCommand(t, data, i) = <<<<"sgr", data[i].color>>>>
    BY <1>1 DEF ColorCommand
  <2>4. Run(f, ColorCommand(t, data, i)) = Emulate(f, <<"sgr", data[i].color>>)
    BY <2>2, <2>3, Commands, RunFacts
  <2>5. Becomes(Emulate(f, <<"sgr", data[i].color>>), f.rows, f.width, f.x, f.y, f.wrap,
                data[i].color, f.visible)
    BY <2>2, TakesPen
  <2> QED BY <1>1, <2>2, <2>4, <2>5
<1>2. CASE ~(i \in Remaining(t, data) /\ SetsColor(t, data, i))
  <2>1. ColorCommand(t, data, i) = <<>>
    BY <1>2 DEF ColorCommand
  <2>2. Run(f, ColorCommand(t, data, i)) = f
    BY <2>1, RunFacts
  <2>3. Becomes(f, f.rows, f.width, f.x, f.y, f.wrap, f.pen, f.visible) /\ f.pen \in Colors
    BY ScreenParts DEF Becomes
  <2>4. i \in Remaining(t, data) /\ t.outputColor => data[i].color = ColorBefore(t, data, i)
    BY <1>2 DEF SetsColor
  <2> QED BY <2>2, <2>3, <2>4
<1> QED BY <1>1, <1>2

\* The terminal has the color of what was output last.
PenFollows(f, t, data, i) ==
  IF i = Len(t.lineData) + 1 THEN PenKnown(f, t) ELSE f.pen = data[i - 1].color

\* And it has it still before the next one.
LEMMA ColorFollows ==
  ASSUME NEW t, NEW data, Rest(t, data), t.outputColor, NEW f \in Screen,
         NEW i \in Remaining(t, data), PenFollows(f, t, data, i)
  PROVE  Becomes(Run(f, ColorCommand(t, data, i)), f.rows, f.width, f.x, f.y, f.wrap,
                 data[i].color, f.visible)
<1>1. i \in Int /\ i \in 1..Len(data)
  BY RestFacts DEF Remaining
<1>2. PICK pen \in Colors :
        /\ Becomes(Run(f, ColorCommand(t, data, i)), f.rows, f.width, f.x, f.y, f.wrap, pen, f.visible)
        /\ \/ SetsColor(t, data, i) /\ pen = data[i].color
           \/ data[i].color = ColorBefore(t, data, i) /\ pen = f.pen
  BY <1>1, ColorIsSet
<1>3. data[i].color \in Colors
  BY <1>1, RestFacts
<1>4. data[i].color = ColorBefore(t, data, i) => f.pen = data[i].color
  <2>1. NoColor \notin Colors
    BY EmulatorAssumption
  <2> QED BY <1>3, <2>1 DEF ColorBefore, PenFollows, PenKnown
<1> QED BY <1>2, <1>4

\* Erasing what is right of the cursor, if anything.
LEMMA ErasedRight ==
  ASSUME NEW f \in Screen, ~f.wrap, NEW c \in {<<>>, <<<<"el">>>>}
  PROVE  \E rows \in Rows :
           /\ Becomes(Run(f, c), rows, f.width, f.x, f.y, FALSE, f.pen, f.visible)
           /\ \A r \in (0..(Height - 1)) \ {f.y} : rows[r] = f.rows[r]
           /\ \A j \in 1..MaxWidth :
                rows[f.y][j] = IF c # <<>> /\ j > f.x /\ j <= f.width THEN blankChar(f.pen)
                               ELSE f.rows[f.y][j]
<1>1. CASE c = <<>>
  <2>1. Run(f, c) = f
    BY <1>1, RunFacts
  <2>2. Becomes(f, f.rows, f.width, f.x, f.y, FALSE, f.pen, f.visible) /\ f.rows \in Rows
    BY ScreenParts DEF Becomes
  <2> QED BY <1>1, <2>1, <2>2
<1>2. CASE c = <<<<"el">>>>
  <2> DEFINE rows == [f.rows EXCEPT ![f.y] = ErasedRow(f)]
  <2>1. Run(f, c) = Emulate(f, <<"el">>)
    BY <1>2, Commands, RunFacts
  <2>2. Becomes(Run(f, c), rows, f.width, f.x, f.y, FALSE, f.pen, f.visible)
    BY <2>1, ErasesLine
  <2>3. rows \in Rows
    BY <2>2, ScreenParts DEF Becomes
  <2>4. f.rows \in Rows /\ f.y \in 0..(Height - 1) /\ f.width \in Nat /\ f.x \in Nat
    BY ScreenParts, ScreenNumbers
  <2>5. rows[f.y] = ErasedRow(f) /\ \A r \in (0..(Height - 1)) \ {f.y} : rows[r] = f.rows[r]
    BY <2>4 DEF Rows
  <2>6. \A j \in 1..MaxWidth : (j \in (f.x + 1)..f.width) <=> (j > f.x /\ j <= f.width)
    BY <2>4, ScreenNumbers
  <2>7. \A j \in 1..MaxWidth :
          ErasedRow(f)[j] = IF j > f.x /\ j <= f.width THEN blankChar(f.pen) ELSE f.rows[f.y][j]
    BY <2>6 DEF ErasedRow
  <2>8. c # <<>>
    BY <1>2
  <2> HIDE DEF rows
  <2>9. \A j \in 1..MaxWidth :
          rows[f.y][j] = IF c # <<>> /\ j > f.x /\ j <= f.width THEN blankChar(f.pen)
                         ELSE f.rows[f.y][j]
    BY <2>5, <2>7, <2>8
  <2> QED BY <2>2, <2>3, <2>5, <2>9
<1> QED BY <1>1, <1>2

\* Where a cell leaves the cursor, and the cells of the row.
CellSent(f, g, cell) ==
  /\ g \in Screen /\ g.width = f.width /\ g.y = f.y /\ g.visible = f.visible
  /\ Position(g) = f.x + 1 /\ (g.wrap => f.x + 1 = f.width) /\ g.pen = cell.color
  /\ \A r \in (0..(Height - 1)) \ {f.y} : g.rows[r] = f.rows[r]
  /\ g.rows[f.y][f.x + 1] = cell
  /\ \A j \in 1..MaxWidth : j <= f.x \/ j > f.width => g.rows[f.y][j] = f.rows[f.y][j]

\* A character goes where the cursor is, in the color there is.
LEMMA PutCell ==
  ASSUME NEW f \in Screen, ~f.wrap, NEW cell \in Cell, f.pen = cell.color
  PROVE  CellSent(f, Emulate(f, <<"put", cell.ch>>), cell)
<1> DEFINE g == Emulate(f, <<"put", cell.ch>>)
           rows == PutRows(f, cell.ch)
<1>1. cell.ch \in Characters /\ cell = [ch |-> cell.ch, color |-> cell.color]
  BY DEF Cell
<1>2. /\ f.x + 1 = f.width => Becomes(g, rows, f.width, f.x, f.y, TRUE, f.pen, f.visible)
      /\ f.x + 1 # f.width => Becomes(g, rows, f.width, f.x + 1, f.y, FALSE, f.pen, f.visible)
  BY <1>1, Puts
<1>3. /\ rows[f.y][f.x + 1] = cell
      /\ \A j \in (1..MaxWidth) \ {f.x + 1} : rows[f.y][j] = f.rows[f.y][j]
      /\ \A r \in (0..(Height - 1)) \ {f.y} : rows[r] = f.rows[r]
  BY <1>1, PutRowsType
<1>4. f.x \in Nat /\ f.width \in Nat /\ f.x < f.width
  BY ScreenParts, ScreenNumbers
<1> HIDE DEF g, rows
<1>5. \A j \in 1..MaxWidth : j <= f.x \/ j > f.width => rows[f.y][j] = f.rows[f.y][j]
  <2>1. \A j \in 1..MaxWidth : j <= f.x \/ j > f.width => j \in (1..MaxWidth) \ {f.x + 1}
    BY <1>4, ScreenNumbers
  <2> QED BY <1>3, <2>1
<1>6. CASE f.x + 1 = f.width
  <2>1. Becomes(g, rows, f.width, f.x, f.y, TRUE, f.pen, f.visible)
    BY <1>2, <1>6
  <2>2. Position(g) = f.x + 1
    BY <1>6, <2>1 DEF Becomes, Position
  <2>3. CellSent(f, g, cell)
    BY <1>3, <1>5, <1>6, <2>1, <2>2 DEF Becomes, CellSent
  <2> QED BY <2>3 DEF g
<1>7. CASE f.x + 1 # f.width
  <2>1. Becomes(g, rows, f.width, f.x + 1, f.y, FALSE, f.pen, f.visible)
    BY <1>2, <1>7
  <2>2. Position(g) = f.x + 1
    BY <2>1 DEF Becomes, Position
  <2>3. CellSent(f, g, cell)
    BY <1>3, <1>5, <2>1, <2>2 DEF Becomes, CellSent
  <2> QED BY <2>3 DEF g
<1> QED BY <1>6, <1>7

\* One cell more is on the row.
LEMMA CellIsSent ==
  ASSUME NEW t, NEW data, Rest(t, data), t.outputColor, NEW f \in Screen, ~f.wrap,
         NEW i \in Remaining(t, data), PenFollows(f, t, data, i)
  PROVE  CellSent(f, Run(f, CellCommands(t, data, i)), data[i])
<1> DEFINE c == ColorCommand(t, data, i)
           d == IF i = Len(data) /\ ErasesEarly(t, data) /\ ~t.plainMode THEN <<<<"el">>>> ELSE <<>>
           put == <<"put", data[i].ch>>
           g == Run(f, c)
           h == Run(g, d)
<1>1. i \in Int /\ i \in 1..Len(data) /\ data[i] \in Cell
  BY RestFacts DEF Remaining
<1>2. c \in Seq(Command)
  BY <1>1, CommandsOfCell, LineCommandFacts
<1>3. d \in {<<>>, <<<<"el">>>>} /\ d \in Seq(Command)
  BY Commands
<1>4. put \in Command
  BY <1>1, RestFacts, Commands
<1>5. Becomes(g, f.rows, f.width, f.x, f.y, f.wrap, data[i].color, f.visible)
  BY ColorFollows
<1>6. CellCommands(t, data, i) = c \o d \o <<put>>
  BY DEF CellCommands
<1>7. Run(f, CellCommands(t, data, i)) = Emulate(h, put)
  <2> HIDE DEF c, d, put
  <2>1. c \o d \in Seq(Command) /\ <<put>> \in Seq(Command)
    BY <1>2, <1>3, <1>4
  <2>2. PICK b \in Seq(Command), q \in Seq(Command) : b = c \o d /\ q = <<put>>
    BY <2>1
  <2>3. Run(f, b \o q) = Run(Run(f, b), q)
    BY RunFacts
  <2>4. Run(f, b) = h
    BY <1>2, <1>3, <2>2, RunFacts
  <2>5. g \in Screen /\ h \in Screen
    BY <1>2, <1>3, RunFacts
  <2>6. Run(h, q) = Emulate(h, put)
    BY <1>4, <2>2, <2>5, RunFacts
  <2> QED BY <1>6, <2>2, <2>3, <2>4, <2>6
<1> HIDE DEF c, d, g
<1>8. /\ g \in Screen /\ g.rows = f.rows /\ g.width = f.width /\ g.x = f.x /\ g.y = f.y
      /\ ~g.wrap /\ g.pen = data[i].color /\ g.visible = f.visible
  BY <1>5 DEF Becomes
<1>9. PICK rows \in Rows :
        /\ Becomes(h, rows, g.width, g.x, g.y, FALSE, g.pen, g.visible)
        /\ \A r \in (0..(Height - 1)) \ {g.y} : rows[r] = g.rows[r]
        /\ \A j \in 1..MaxWidth :
             rows[g.y][j] = IF d # <<>> /\ j > g.x /\ j <= g.width THEN blankChar(g.pen)
                            ELSE g.rows[g.y][j]
  BY <1>3, <1>8, ErasedRight
<1> HIDE DEF h
<1>10. /\ h \in Screen /\ h.rows = rows /\ h.width = f.width /\ h.x = f.x /\ h.y = f.y
       /\ ~h.wrap /\ h.pen = data[i].color /\ h.visible = f.visible
  BY <1>8, <1>9 DEF Becomes
<1>11. CellSent(h, Emulate(h, put), data[i])
  BY <1>1, <1>10, PutCell
<1>12. \A r \in (0..(Height - 1)) \ {f.y} : h.rows[r] = f.rows[r]
  BY <1>8, <1>9, <1>10
<1>13. \A j \in 1..MaxWidth : j <= f.x \/ j > f.width => h.rows[f.y][j] = f.rows[f.y][j]
  <2>1. f.x \in Nat /\ f.width \in Nat
    BY ScreenParts, ScreenNumbers
  <2>2. ASSUME NEW j \in 1..MaxWidth, j <= f.x \/ j > f.width
        PROVE  h.rows[f.y][j] = f.rows[f.y][j]
    <3>1. ~(j > f.x /\ j <= f.width)
      BY <2>1, <2>2, ScreenNumbers
    <3> QED BY <1>8, <1>9, <1>10, <3>1
  <2> QED BY <2>2
<1> HIDE DEF put
<1>14. CellSent(f, Emulate(h, put), data[i])
  BY <1>10, <1>11, <1>12, <1>13 DEF CellSent
<1> QED BY <1>7, <1>14

\* Where the first k cells of what remains of a line leave the cursor, and the
\* cells of the row.  (They go from the cursor on, wherever it is.)
CellsSent(e, f, t, data, k) ==
  /\ f \in Screen /\ f.width = e.width /\ f.y = e.y /\ f.visible = e.visible
  /\ Position(f) = e.x + k /\ (f.wrap => e.x + k = e.width)
  /\ PenFollows(f, t, data, Len(t.lineData) + k + 1)
  /\ \A r \in (0..(Height - 1)) \ {e.y} : f.rows[r] = e.rows[r]
  /\ \A j \in 1..MaxWidth : j <= e.x \/ j > e.width => f.rows[e.y][j] = e.rows[e.y][j]
  /\ \A j \in 1..k : f.rows[e.y][e.x + j] = data[Len(t.lineData) + j]

\* So are all that are output, by induction.
LEMMA CellsAreSent ==
  ASSUME NEW t, NEW data, Rest(t, data), t.outputColor, NEW e \in Screen, ~e.wrap,
         e.x <= Len(t.lineData), e.width = Len(data), PenKnown(e, t)
  PROVE  \A k \in 0..(Len(data) - Len(t.lineData)) :
           CellsSent(e, Run(e, Cells(t, data, k)), t, data, k)
<1> DEFINE from == Len(t.lineData)
           m == Len(data) - from
           F(k) == Run(e, Cells(t, data, k))
           S == {k \in 0..m : CellsSent(e, F(k), t, data, k)}
<1> HIDE DEF from, m
<1>1. /\ from \in Nat /\ m \in Nat /\ Len(data) = from + m /\ Len(t.lineData) = from
      /\ Len(data) - Len(t.lineData) = m /\ e.x <= from /\ e.width = from + m
  BY RestFacts DEF from, m
<1>2. e.x \in Nat /\ e.width \in Nat /\ e.y \in 0..(Height - 1)
  BY ScreenParts, ScreenNumbers
<1>3. 0 \in S
  <2>1. F(0) = e
    BY CellsFacts, RunFacts
  <2>2. from + 0 + 1 = from + 1 /\ e.x + 0 = e.x /\ 0 \in 0..m
    BY <1>1, <1>2
  <2>3. PenFollows(e, t, data, from + 1)
    BY <1>1 DEF PenFollows
  <2>4. Position(e) = e.x
    BY DEF Position
  <2>5. CellsSent(e, e, t, data, 0)
    BY <1>1, <2>2, <2>3, <2>4 DEF CellsSent
  <2> QED BY <2>1, <2>2, <2>5
<1>4. ASSUME NEW k \in 1..m, k - 1 \in S PROVE k \in S
  <2> DEFINE f == F(k - 1)
             i == from + k
             g == F(k)
  <2>1. CellsSent(e, f, t, data, k - 1) /\ k \in 0..m /\ k \in Nat /\ k - 1 \in Nat
    BY <1>1, <1>4
  <2>2. g = Run(f, CellCommands(t, data, i))
    <3>1. Cells(t, data, k) = Cells(t, data, k - 1) \o CellCommands(t, data, i)
      BY <1>1, CellsFacts
    <3>2. k - 1 \in 0..m /\ i \in 1..Len(data)
      BY <1>1
    <3>3. Cells(t, data, k - 1) \in Seq(Command) /\ CellCommands(t, data, i) \in Seq(Command)
      BY <1>1, <3>2, CellsFacts, CommandsOfCell, LineCommandFacts
    <3> QED BY <3>1, <3>3, RunFacts
  <2>3. i \in Nat /\ from + (k - 1) + 1 = i /\ e.x + (k - 1) < e.width /\ i # from + 1 - 1
        /\ i \in Remaining(t, data)
    BY <1>1, <1>2 DEF Remaining
  <2> HIDE DEF F
  <2>4. f \in Screen /\ ~f.wrap /\ f.x = e.x + (k - 1) /\ f.x + 1 = e.x + k
    <3>1. ~f.wrap
      BY <2>1, <2>3, <1>2 DEF CellsSent
    <3> QED BY <1>2, <2>1, <3>1 DEF CellsSent, Position
  <2>5. PenFollows(f, t, data, i)
    BY <1>1, <2>1, <2>3 DEF CellsSent
  <2> HIDE DEF f, g
  <2>6. CellSent(f, g, data[i])
    BY <2>2, <2>3, <2>4, <2>5, CellIsSent
  <2>7. PenFollows(g, t, data, from + k + 1)
    <3>1. (i + 1) - 1 = i /\ i + 1 # from + 1 /\ from + k + 1 = i + 1
      BY <1>1, <2>3
    <3>2. g.pen = data[i].color
      BY <2>6 DEF CellSent
    <3> QED BY <1>1, <3>1, <3>2 DEF PenFollows
  <2>8. \A r \in (0..(Height - 1)) \ {e.y} : g.rows[r] = e.rows[r]
    BY <2>1, <2>6 DEF CellsSent, CellSent
  <2>9. ASSUME NEW j \in 1..MaxWidth, j <= e.x \/ j > e.width
        PROVE  g.rows[e.y][j] = e.rows[e.y][j]
    <3>1. j <= f.x \/ j > f.width
      <4>1. j <= e.x => j <= e.x + (k - 1)
        BY <1>2, <2>1, ScreenNumbers
      <4>2. f.width = e.width
        BY <2>1 DEF CellsSent
      <4> QED BY <2>4, <2>9, <4>1, <4>2
    <3>2. g.rows[e.y][j] = f.rows[e.y][j]
      BY <2>1, <2>6, <3>1 DEF CellsSent, CellSent
    <3> QED BY <2>1, <2>9, <3>2 DEF CellsSent
  <2>10. ASSUME NEW j \in 1..k PROVE g.rows[e.y][e.x + j] = data[from + j]
    <3>1. CASE j = k
      BY <2>1, <2>4, <2>6, <3>1 DEF CellsSent, CellSent
    <3>2. CASE j # k
      <4>1. j \in 1..(k - 1) /\ e.x + j \in 1..MaxWidth /\ e.x + j <= f.x
        <5>1. e.width <= MaxWidth
          BY ScreenParts, ScreenNumbers
        <5> QED BY <1>1, <1>2, <2>1, <2>3, <2>4, <3>2, <5>1, ScreenNumbers
      <4>2. g.rows[e.y][e.x + j] = f.rows[e.y][e.x + j]
        BY <2>1, <2>6, <4>1 DEF CellsSent, CellSent
      <4> QED BY <1>1, <2>1, <4>1, <4>2 DEF CellsSent
    <3> QED BY <3>1, <3>2
  <2>11. CellsSent(e, g, t, data, k)
    <3>1. /\ g \in Screen /\ g.width = e.width /\ g.y = e.y /\ g.visible = e.visible
          /\ Position(g) = e.x + k /\ (g.wrap => e.x + k = e.width)
      BY <2>1, <2>4, <2>6 DEF CellsSent, CellSent
    <3> QED BY <1>1, <2>7, <2>8, <2>9, <2>10, <3>1 DEF CellsSent
  <2> QED BY <2>1, <2>11 DEF g
<1>5. 0..m \subseteq S
  <2> HIDE DEF S
  <2> QED BY <1>1, <1>3, <1>4, IntervalInduction
<1> QED BY <1>1, <1>5

\* What is trimmed are blanks of one color.
LEMMA TrimmedBlank ==
  ASSUME NEW t, NEW data, Rest(t, data), t.outputColor, NEW c,
         Trimmed(t, data, Len(data), c), c < Len(data)
  PROVE  \A j \in (c + 1)..Len(data) : data[j] = blankChar(data[c + 1].color)
<1> DEFINE from == Len(t.lineData)
           n == Len(data)
           m == n - (c + 1)
           S == {p \in 0..m : data[c + 1 + p].color = data[c + 1].color}
<1> HIDE DEF from, n, m
<1>1. /\ from \in Nat /\ n \in Nat /\ n = Len(data) /\ from = Len(t.lineData) /\ c \in Nat
      /\ from <= c /\ c < n /\ m \in Nat /\ c + 1 + m = n
  <2>1. c \in from..n /\ from \in Nat /\ n \in Nat /\ c < n
    BY RestFacts DEF Trimmed, from, n
  <2> QED BY <2>1 DEF from, n, m
<1>2. 0 \in S
  <2>1. c + 1 + 0 = c + 1 /\ 0 \in 0..m
    BY <1>1
  <2> QED BY <2>1
<1>3. ASSUME NEW p \in 1..m, p - 1 \in S PROVE p \in S
  <2> DEFINE j == c + 1 + p
  <2>1. p \in 0..m /\ c + 1 + (p - 1) = j - 1 /\ j \in (c + 2)..n /\ j # from + 1
    BY <1>1
  <2>2. ~SetsColor(t, data, j)
    BY <1>1, <2>1 DEF Trimmed
  <2> HIDE DEF j
  <2>3. data[j].color = data[j - 1].color
    BY <1>1, <2>1, <2>2 DEF SetsColor, ColorBefore
  <2>4. data[j - 1].color = data[c + 1].color
    BY <1>3, <2>1
  <2> QED BY <2>1, <2>3, <2>4 DEF j
<1>4. 0..m \subseteq S
  <2> HIDE DEF S
  <2> QED BY <1>1, <1>2, <1>3, IntervalInduction
<1>5. ASSUME NEW j \in (c + 1)..n PROVE data[j] = blankChar(data[c + 1].color)
  <2>1. j - (c + 1) \in 0..m /\ c + 1 + (j - (c + 1)) = j /\ j \in 1..n
    BY <1>1
  <2>2. data[j].color = data[c + 1].color
    BY <1>4, <2>1
  <2>3. data[j].ch = Space
    BY <1>1 DEF Trimmed
  <2>4. data[j] \in Cell
    BY <1>1, <2>1, RestFacts
  <2> QED BY <2>2, <2>3, <2>4 DEF Cell, blankChar
<1> QED BY <1>1, <1>5

\* Where a line leaves the cursor, and the cells of its row.
LineSent(e, f, t, data) ==
  /\ f \in Screen /\ f.width = e.width /\ f.y = e.y /\ f.visible = e.visible
  /\ Position(f) = e.x + (trimmedCellCount(t, data) - Len(t.lineData))
  /\ f.pen = data[Len(data)].color
  /\ \A r \in (0..(Height - 1)) \ {e.y} : f.rows[r] = e.rows[r]
  /\ \A j \in 1..MaxWidth : j <= e.x \/ j > e.width => f.rows[e.y][j] = e.rows[e.y][j]
  /\ e.x = Len(t.lineData) =>
       \A j \in (Len(t.lineData) + 1)..Len(data) : f.rows[e.y][j] = data[j]

\* And the rest of the line is blank.
LEMMA LineIsSent ==
  ASSUME NEW t, NEW data, Rest(t, data), t.outputColor, ~t.plainMode, NEW e \in Screen, ~e.wrap,
         e.x <= Len(t.lineData), Len(t.lineData) < Len(data), e.width = Len(data), PenKnown(e, t)
  PROVE  LineSent(e, Run(e, LineCommands(t, data)), t, data)
<1> DEFINE c == trimmedCellCount(t, data)
           n == Len(data)
           from == Len(t.lineData)
           cells == Cells(t, data, c - from)
           color == ColorCommand(t, data, c + 1)
           el == IF ErasesEarly(t, data) \/ t.plainMode THEN <<>> ELSE <<<<"el">>>>
           f == Run(e, cells)
           g == Run(f, color)
           h == Run(g, el)
<1>2. LineCommands(t, data) = cells \o color \o el
  BY DEF LineCommands
<1> HIDE DEF c, n, from, cells, color, el
<1>1. /\ from \in Nat /\ n \in Nat /\ c \in from..n /\ c \in Nat /\ c + 1 \in Int /\ from < n
      /\ n = Len(data) /\ from = Len(t.lineData) /\ c - from \in 0..(n - from) /\ c - from \in Nat
      /\ from + (c - from) + 1 = c + 1
  <2>1. Trimmed(t, data, n, c) /\ from \in Nat /\ n \in Nat /\ from < n
    BY TrimmedFacts, RestFacts DEF from, n, c
  <2> QED BY <2>1 DEF Trimmed, from, n
<1>3. Trimmed(t, data, n, c)
  BY TrimmedFacts DEF n, c
<1>4. e.x \in Nat /\ e.width \in Nat /\ e.y \in 0..(Height - 1) /\ e.x <= from /\ e.width = n
  BY <1>1, ScreenParts, ScreenNumbers
<1>5. cells \in Seq(Command) /\ color \in Seq(Command) /\ el \in Seq(Command)
      /\ el \in {<<>>, <<<<"el">>>>}
  <2>1. cells \in Seq(Command)
    BY <1>1, CellsFacts, LineCommandFacts DEF cells
  <2>2. color \in Seq(Command)
    BY <1>1, CommandsOfCell, LineCommandFacts DEF color
  <2> QED BY <2>1, <2>2, Commands DEF el
<1>6. Run(e, LineCommands(t, data)) = h
  <2>1. cells \o color \in Seq(Command)
    BY <1>5
  <2>2. PICK b \in Seq(Command) : b = cells \o color
    BY <2>1
  <2>3. Run(e, b \o el) = Run(Run(e, b), el)
    BY <1>5, RunFacts
  <2>4. Run(e, b) = Run(Run(e, cells), color)
    BY <1>5, <2>2, RunFacts
  <2> QED BY <1>2, <2>2, <2>3, <2>4
<1>7. CellsSent(e, f, t, data, c - from)
  BY <1>1, CellsAreSent DEF cells
<1> HIDE DEF f
<1>8. f \in Screen
  BY <1>7 DEF CellsSent
<1>9. CASE c = n
  <2>1. ErasesEarly(t, data)
    BY <1>1, <1>3, <1>9 DEF ErasesEarly, Remaining, Trimmed
  <2>2. el = <<>>
    BY <2>1 DEF el
  <2>3. color = <<>>
    BY <1>1, <1>9 DEF color, ColorCommand, Remaining
  <2>4. h = f
    BY <1>8, <2>2, <2>3, RunFacts
  <2>5. f.pen = data[n].color
    <3>1. (c + 1) - 1 = n /\ c + 1 # from + 1
      BY <1>1, <1>9
    <3> QED BY <1>1, <1>7, <3>1 DEF CellsSent, PenFollows
  <2>6. ASSUME e.x = from, NEW j \in (from + 1)..n PROVE f.rows[e.y][j] = data[j]
    <3>1. j - from \in 1..(c - from) /\ from + (j - from) = j
      BY <1>1, <1>9
    <3> QED BY <1>1, <1>7, <2>6, <3>1 DEF CellsSent
  <2>7. LineSent(e, f, t, data)
    BY <1>1, <1>7, <2>5, <2>6 DEF LineSent, CellsSent, c
  <2> QED BY <1>6, <2>4, <2>7
<1>10. CASE c < n
  <2>1. c + 1 \in Remaining(t, data) /\ c + 1 \in Int
    BY <1>1, <1>10 DEF Remaining
  <2>2. ~ErasesEarly(t, data)
    BY <1>1, <1>3, <1>10 DEF ErasesEarly, Remaining, Trimmed
  <2>3. el = <<<<"el">>>> /\ el # <<>>
    BY <2>2 DEF el
  <2>4. PenFollows(f, t, data, c + 1)
    BY <1>1, <1>7 DEF CellsSent
  <2>5. Becomes(g, f.rows, f.width, f.x, f.y, f.wrap, data[c + 1].color, f.visible)
    BY <1>8, <2>1, <2>4, ColorFollows DEF color
  <2> HIDE DEF g
  <2>6. ~f.wrap
    BY <1>1, <1>4, <1>7, <1>10 DEF CellsSent
  <2>7. f.x = e.x + (c - from)
    BY <1>7, <2>6 DEF CellsSent, Position
  <2>8. /\ g \in Screen /\ g.rows = f.rows /\ g.width = f.width /\ g.x = f.x /\ g.y = f.y
        /\ ~g.wrap /\ g.pen = data[c + 1].color /\ g.visible = f.visible
    BY <2>5, <2>6 DEF Becomes
  <2>9. PICK rows \in Rows :
          /\ Becomes(h, rows, g.width, g.x, g.y, FALSE, g.pen, g.visible)
          /\ \A r \in (0..(Height - 1)) \ {g.y} : rows[r] = g.rows[r]
          /\ \A j \in 1..MaxWidth :
               rows[g.y][j] = IF el # <<>> /\ j > g.x /\ j <= g.width THEN blankChar(g.pen)
                              ELSE g.rows[g.y][j]
    BY <1>5, <2>8, ErasedRight
  <2> HIDE DEF h
  <2>10. /\ h \in Screen /\ h.rows = rows /\ h.width = e.width /\ h.x = e.x + (c - from)
         /\ h.y = e.y /\ ~h.wrap /\ h.pen = data[c + 1].color /\ h.visible = e.visible
    BY <1>7, <2>7, <2>8, <2>9 DEF Becomes, CellsSent
  <2>11. \A j \in (c + 1)..n : data[j] = blankChar(data[c + 1].color)
    BY <1>1, <1>3, <1>10, TrimmedBlank
  <2>12. h.pen = data[n].color
    <3>1. n \in (c + 1)..n /\ c + 1 \in (c + 1)..n
      BY <1>1, <1>10
    <3>2. data[n] = data[c + 1]
      BY <2>11, <3>1
    <3> QED BY <2>10, <3>2
  <2>13. \A r \in (0..(Height - 1)) \ {e.y} : h.rows[r] = e.rows[r]
    BY <1>7, <2>8, <2>9, <2>10 DEF CellsSent
  <2>14. ASSUME NEW j \in 1..MaxWidth, j <= e.x \/ j > e.width
         PROVE  h.rows[e.y][j] = e.rows[e.y][j]
    <3>1. ~(j > g.x /\ j <= g.width)
      BY <1>1, <1>4, <1>7, <2>7, <2>8, <2>14, ScreenNumbers DEF CellsSent
    <3>2. h.rows[e.y][j] = f.rows[e.y][j]
      BY <1>7, <2>8, <2>9, <2>10, <3>1 DEF CellsSent
    <3> QED BY <1>7, <2>14, <3>2 DEF CellsSent
  <2>15. ASSUME e.x = from, NEW j \in (from + 1)..n PROVE h.rows[e.y][j] = data[j]
    <3>1. j \in 1..MaxWidth /\ j \in Nat /\ g.x = c /\ g.width = n /\ g.y = e.y
      <4>1. n <= MaxWidth
        BY <1>4, ScreenParts, ScreenNumbers
      <4> QED BY <1>1, <1>4, <1>7, <2>7, <2>8, <2>15, <4>1, ScreenNumbers DEF CellsSent
    <3>2. CASE j > c
      <4>1. h.rows[e.y][j] = blankChar(data[c + 1].color)
        BY <1>1, <2>3, <2>8, <2>9, <2>10, <3>1, <3>2
      <4> QED BY <1>1, <2>11, <3>1, <3>2, <4>1
    <3>3. CASE j <= c
      <4>1. h.rows[e.y][j] = f.rows[e.y][j]
        BY <1>1, <2>8, <2>9, <2>10, <3>1, <3>3
      <4>2. j - from \in 1..(c - from) /\ from + (j - from) = j
        BY <1>1, <3>3
      <4> QED BY <1>1, <1>7, <2>15, <4>1, <4>2 DEF CellsSent
    <3> QED BY <1>1, <3>1, <3>2, <3>3
  <2>16. Position(h) = e.x + (c - from)
    BY <2>10 DEF Position
  <2>17. LineSent(e, h, t, data)
    BY <1>1, <2>10, <2>12, <2>13, <2>14, <2>15, <2>16 DEF LineSent, c
  <2> QED BY <1>6, <2>17
<1> QED BY <1>1, <1>9, <1>10
\* What a number of newlines makes of the terminal.
Fed(f, g, n) ==
  /\ g \in Screen /\ g.width = f.width /\ g.pen = f.pen /\ g.visible = f.visible
  /\ n > 0 => g.x = 0 /\ ~g.wrap
  /\ g.y = IF f.y + n < Height THEN f.y + n ELSE Height - 1
  /\ \A r \in 0..(Height - 1) :
       g.rows[r] = IF r + (f.y + n - g.y) < Height THEN f.rows[r + (f.y + n - g.y)]
                   ELSE BlankLine(f.pen)

\* A newline more.
LEMMA NewLinesFacts ==
  /\ NewLine \in Seq(Command)
  /\ NewLines(0) = <<>>
  /\ \A n \in Nat : NewLines(n) \in Seq(Command) /\ NewLines(n + 1) = NewLines(n) \o NewLine
  /\ \A n \in Nat : n > 0 => "cr" \in KindsOf(NewLines(n))
  /\ \A n \in Nat : KindsOf(NewLines(n)) \subseteq {"cr", "lf"}
<1>1. <<"cr">> \in Command /\ <<"lf">> \in Command
  BY Commands
<1>2. NewLine \in Seq(Command) /\ Len(NewLine) = 2 /\ NewLine[1] = <<"cr">> /\ NewLine[2] = <<"lf">>
  BY <1>1 DEF NewLine
<1>3. NewLines(0) = <<>>
  BY DEF NewLines
<1>4. ASSUME NEW n \in Nat
      PROVE  NewLines(n) \in Seq(Command) /\ Len(NewLines(n)) = 2 * n
             /\ \A i \in 1..(2 * n) : NewLines(n)[i] = IF i % 2 = 1 THEN <<"cr">> ELSE <<"lf">>
  <2>1. 2 * n \in Nat
    OBVIOUS
  <2>2. \A i \in 1..(2 * n) : (IF i % 2 = 1 THEN <<"cr">> ELSE <<"lf">>) \in Command
    BY <1>1
  <2> QED BY <2>1, <2>2 DEF NewLines
<1>5. ASSUME NEW n \in Nat PROVE NewLines(n + 1) = NewLines(n) \o NewLine
  <2> DEFINE m == 2 * n
             a == NewLines(n + 1)
             b == NewLines(n)
             c == NewLine
  <2>1. 2 * (n + 1) = m + 2 /\ n + 1 \in Nat /\ m \in Nat /\ (m + 1) % 2 = 1 /\ (m + 2) % 2 = 0
    OBVIOUS
  <2> HIDE DEF m
  <2>2. a \in Seq(Command) /\ Len(a) = m + 2
        /\ \A i \in 1..(m + 2) : a[i] = IF i % 2 = 1 THEN <<"cr">> ELSE <<"lf">>
    BY <1>4, <2>1
  <2>3. b \in Seq(Command) /\ Len(b) = m
        /\ \A i \in 1..m : b[i] = IF i % 2 = 1 THEN <<"cr">> ELSE <<"lf">>
    BY <1>4 DEF m
  <2>4. c \in Seq(Command) /\ Len(c) = 2 /\ c[1] = <<"cr">> /\ c[2] = <<"lf">>
    BY <1>2
  <2> HIDE DEF a, b, c
  <2>5. b \o c \in Seq(Command) /\ Len(b \o c) = m + 2
        /\ (\A i \in 1..m : (b \o c)[i] = b[i]) /\ (b \o c)[m + 1] = c[1] /\ (b \o c)[m + 2] = c[2]
    <3>1. PICK x \in Seq(Command), y \in Seq(Command) : x = b /\ y = c
      BY <2>3, <2>4
    <3>2. /\ x \o y \in Seq(Command) /\ Len(x \o y) = Len(x) + Len(y)
          /\ \A i \in 1..Len(x) : (x \o y)[i] = x[i]
          /\ \A i \in 1..Len(y) : (x \o y)[Len(x) + i] = y[i]
      OBVIOUS
    <3>3. Len(x) = m /\ Len(y) = 2 /\ 1 \in 1..2 /\ 2 \in 1..2
      BY <2>3, <2>4, <3>1
    <3>4. (x \o y)[m + 1] = y[1] /\ (x \o y)[m + 2] = y[2]
      BY <3>2, <3>3
    <3> QED BY <3>1, <3>2, <3>3, <3>4
  <2>6. PICK d \in Seq(Command) : d = b \o c
    BY <2>5
  <2>7. a[m + 1] = <<"cr">> /\ a[m + 2] = <<"lf">>
    <3>1. m + 1 \in 1..(m + 2) /\ m + 2 \in 1..(m + 2) /\ ~(0 = 1)
      BY <2>1
    <3> QED BY <2>1, <2>2, <3>1
  <2>8. \A i \in 1..m : i \in 1..(m + 2)
    BY <2>1
  <2>9. \A i \in 1..m : a[i] = d[i]
    BY <2>2, <2>3, <2>5, <2>6, <2>8
  <2>10. \A i \in 1..(m + 2) : i \in 1..m \/ i = m + 1 \/ i = m + 2
    BY <2>1
  <2>11. \A i \in 1..(m + 2) : a[i] = d[i]
    BY <2>4, <2>5, <2>6, <2>7, <2>9, <2>10
  <2>12. a = d
    <3>1. Len(a) = Len(d) /\ \A i \in 1..Len(a) : a[i] = d[i]
      BY <2>2, <2>5, <2>6, <2>11
    <3> QED BY <2>2, <3>1, SeqEqual
  <2> QED BY <2>6, <2>12 DEF a, b, c
<1>6. ASSUME NEW n \in Nat, n > 0 PROVE "cr" \in KindsOf(NewLines(n))
  <2>1. 1 \in 1..(2 * n) /\ 1 % 2 = 1
    BY <1>6
  <2>2. NewLines(n)[1] = <<"cr">>
    BY <1>4, <2>1
  <2>3. NewLines(n)[1][1] = "cr"
    BY <2>2
  <2> QED BY <1>4, <2>1, <2>3 DEF KindsOf
<1>7. ASSUME NEW n \in Nat PROVE KindsOf(NewLines(n)) \subseteq {"cr", "lf"}
  <2>1. ASSUME NEW i \in 1..(2 * n) PROVE NewLines(n)[i][1] \in {"cr", "lf"}
    <3>1. NewLines(n)[i] = <<"cr">> \/ NewLines(n)[i] = <<"lf">>
      BY <1>4
    <3> QED BY <3>1
  <2> QED BY <1>4, <2>1 DEF KindsOf
<1> QED BY <1>2, <1>3, <1>4, <1>5, <1>6, <1>7

\* A newline moves the cursor down or scrolls.
LEMMA FeedOne ==
  ASSUME NEW f \in Screen, NEW g \in Screen, NEW n \in Nat, Fed(f, g, n)
  PROVE  Fed(f, Run(g, NewLine), n + 1)
<1> DEFINE c == Emulate(g, <<"cr">>)
           h == Emulate(c, <<"lf">>)
           s == f.y + n - g.y
<1>1. Becomes(c, g.rows, g.width, 0, g.y, FALSE, g.pen, g.visible)
  BY Returns
<1> HIDE DEF c
<1>2. c \in Screen /\ c.rows = g.rows /\ c.width = g.width /\ c.x = 0 /\ c.y = g.y /\ ~c.wrap
      /\ c.pen = g.pen /\ c.visible = g.visible
  BY <1>1 DEF Becomes
<1>3. Run(g, NewLine) = h
  <2>5. <<<<"cr">>>> \in Seq(Command) /\ <<<<"lf">>>> \in Seq(Command)
    BY Commands
  <2>1. PICK a \in Seq(Command), b \in Seq(Command) : a = <<<<"cr">>>> /\ b = <<<<"lf">>>>
    BY <2>5
  <2>2. NewLine = a \o b
    BY <2>1 DEF NewLine
  <2>3. Run(g, a \o b) = Run(Run(g, a), b)
    BY RunFacts
  <2>4. Run(g, a) = c
    BY <2>1, Commands, RunFacts DEF c
  <2> QED BY <1>2, <2>1, <2>2, <2>3, <2>4, Commands, RunFacts
<1>4. /\ f.y \in Nat /\ f.y < Height /\ g.y \in Nat /\ g.y < Height /\ Height \in Nat /\ Height > 0
      /\ f.pen \in Colors
  BY ScreenParts, ScreenNumbers
<1>5. CASE g.y + 1 < Height
  <2>1. Becomes(h, c.rows, c.width, c.x, c.y + 1, FALSE, c.pen, c.visible)
    BY <1>2, <1>5, FeedsLine
  <2> HIDE DEF h
  <2>2. /\ h \in Screen /\ h.rows = g.rows /\ h.width = f.width /\ h.x = 0 /\ h.y = g.y + 1 /\ ~h.wrap
        /\ h.pen = f.pen /\ h.visible = f.visible
    BY <1>2, <2>1 DEF Becomes, Fed
  <2>7. g.y = IF f.y + n < Height THEN f.y + n ELSE Height - 1
    BY DEF Fed
  <2>3. g.y = f.y + n /\ h.y = f.y + (n + 1) /\ f.y + (n + 1) < Height /\ f.y + n - g.y = 0
        /\ f.y + (n + 1) - h.y = 0
    BY <1>4, <1>5, <2>2, <2>7
  <2>5. \A r \in 0..(Height - 1) : r + 0 < Height /\ r + 0 = r
    BY <1>4
  <2>4. \A r \in 0..(Height - 1) : g.rows[r] = f.rows[r]
    BY <2>3, <2>5 DEF Fed
  <2>6. Fed(f, h, n + 1)
    BY <2>2, <2>3, <2>4, <2>5 DEF Fed
  <2> QED BY <1>3, <2>6
<1>6. CASE ~(g.y + 1 < Height)
  <2>1. Becomes(h, Scrolled(c), c.width, c.x, c.y, FALSE, c.pen, c.visible)
    BY <1>2, <1>6, FeedsLine
  <2> HIDE DEF h
  <2>2. /\ h \in Screen /\ h.rows = Scrolled(c) /\ h.width = f.width /\ h.x = 0 /\ h.y = g.y /\ ~h.wrap
        /\ h.pen = f.pen /\ h.visible = f.visible /\ c.pen = f.pen
    BY <1>2, <2>1 DEF Becomes, Fed
  <2>8. g.y = IF f.y + n < Height THEN f.y + n ELSE Height - 1
    BY DEF Fed
  <2>3. g.y = Height - 1 /\ s \in Nat /\ f.y + (n + 1) - h.y = s + 1
        /\ ~(f.y + (n + 1) < Height)
    BY <1>4, <1>6, <2>2, <2>8
  <2>4. \A r \in 0..(Height - 1) :
          h.rows[r] = IF r + 1 < Height THEN g.rows[r + 1] ELSE BlankLine(f.pen)
    BY <1>2, <2>2 DEF Scrolled
  <2>5. \A r \in 0..(Height - 1) :
          g.rows[r] = IF r + s < Height THEN f.rows[r + s] ELSE BlankLine(f.pen)
    BY DEF Fed
  <2> HIDE DEF s
  <2>6. ASSUME NEW r \in 0..(Height - 1)
        PROVE  h.rows[r] = IF r + (s + 1) < Height THEN f.rows[r + (s + 1)] ELSE BlankLine(f.pen)
    <3>1. CASE r + 1 < Height
      <4>1. r + 1 \in 0..(Height - 1) /\ (r + 1) + s = r + (s + 1)
        BY <1>4, <2>3, <3>1
      <4> QED BY <2>4, <2>5, <3>1, <4>1
    <3>2. CASE ~(r + 1 < Height)
      <4>1. ~(r + (s + 1) < Height)
        BY <1>4, <2>3, <3>2
      <4> QED BY <2>4, <3>2, <4>1
    <3> QED BY <3>1, <3>2
  <2>7. Fed(f, h, n + 1)
    BY <2>2, <2>3, <2>6 DEF Fed
  <2> QED BY <1>3, <2>7
<1> QED BY <1>5, <1>6

\* And so do several, by induction.
LEMMA FedByNewLines ==
  ASSUME NEW f \in Screen, NEW n \in Nat
  PROVE  Fed(f, Run(f, NewLines(n)), n)
<1> DEFINE S == {k \in Nat : Fed(f, Run(f, NewLines(k)), k)}
<1>1. 0 \in S
  <2>1. Run(f, NewLines(0)) = f
    BY NewLinesFacts, RunFacts
  <2>2. f.y \in Nat /\ f.y < Height /\ Height \in Nat /\ f.y + 0 = f.y /\ f.y + 0 - f.y = 0
    BY ScreenParts, ScreenNumbers
  <2>3. \A r \in 0..(Height - 1) : r + 0 < Height /\ r + 0 = r
    BY <2>2
  <2>4. Fed(f, f, 0)
    BY <2>2, <2>3 DEF Fed
  <2> QED BY <2>1, <2>4
<1>2. ASSUME NEW k \in Nat, k \in S PROVE k + 1 \in S
  <2>1. Fed(f, Run(f, NewLines(k)), k)
    BY <1>2
  <2>2. Run(f, NewLines(k)) \in Screen
    BY NewLinesFacts, RunFacts
  <2>3. Run(f, NewLines(k + 1)) = Run(Run(f, NewLines(k)), NewLine)
    <3>1. PICK a \in Seq(Command), b \in Seq(Command) : a = NewLines(k) /\ b = NewLine
      BY NewLinesFacts
    <3>2. NewLines(k + 1) = a \o b
      BY <3>1, NewLinesFacts
    <3>3. Run(f, a \o b) = Run(Run(f, a), b)
      BY RunFacts
    <3> QED BY <3>1, <3>2, <3>3
  <2> QED BY <2>1, <2>2, <2>3, FeedOne
<1>3. Nat \subseteq S
  <2> HIDE DEF S
  <2> QED BY <1>1, <1>2, SetInduction
<1> QED BY <1>3

----------------------------------------------------------------------------
(***************************************************************************)
(* The methods: what they make of the object, and of the terminal.         *)
(***************************************************************************)
\* A hidden cursor is one the terminal does not show, and a shown one it does,
\* but for what a reset forgot.
Seen(e, t, w) ==
  /\ t.cursorHidden => ~At(e, t).visible
  /\ ~t.cursorHidden /\ ~At(e, t).visible => w /\ "hide" \notin KindsOf(t.out)

SameScreen(f, g) ==
  /\ g \in Screen /\ g.rows = f.rows /\ g.width = f.width /\ g.x = f.x /\ g.y = f.y
  /\ g.wrap = f.wrap /\ g.pen = f.pen

\* The modes of an object are those it was made with, and it does not take back
\* what it has written.
SameModes(t, u) ==
  /\ u \in Object /\ u.plainMode = t.plainMode /\ u.outputColor = t.outputColor
  /\ KindsOf(t.out) \subseteq KindsOf(u.out)

\* The fields of the object.
LEMMA ObjectParts ==
  ASSUME NEW t \in Object
  PROVE  /\ t.plainMode \in BOOLEAN /\ t.outputColor \in BOOLEAN /\ t.remoteLine \in Int
         /\ t.remoteColumn \in Nat /\ t.lineDataValid \in BOOLEAN /\ t.lineData \in Seq(Cell)
         /\ t.cursorHidden \in BOOLEAN /\ t.remoteColor \in Colors \union {NoColor}
         /\ t.out \in Seq(Command)
BY DEF Object

Hid(t, u) ==
  /\ SameModes(t, u) /\ u.remoteLine = t.remoteLine /\ u.remoteColumn = t.remoteColumn
  /\ u.lineDataValid = t.lineDataValid /\ u.lineData = t.lineData /\ u.remoteColor = t.remoteColor
  /\ KindsOf(u.out) \subseteq KindsOf(t.out) \union {"hide"}
  /\ (~t.plainMode => u.cursorHidden)

\* Hiding the cursor changes nothing else.
LEMMA HideFacts ==
  ASSUME NEW t \in Object
  PROVE  /\ Hid(t, hideTerminalCursor(t))
         /\ \A e \in Screen : SameScreen(At(e, t), At(e, hideTerminalCursor(t)))
         /\ ~t.plainMode => \A e \in Screen, w \in BOOLEAN :
                              Seen(e, t, w) => Seen(e, hideTerminalCursor(t), w)
<1>1. CASE t.plainMode \/ t.cursorHidden
  <2>1. hideTerminalCursor(t) = t
    BY <1>1 DEF hideTerminalCursor
  <2>2. \A e \in Screen : At(e, t) \in Screen
    BY RunFacts, ObjectParts DEF At
  <2>3. \A e \in Screen : SameScreen(At(e, t), At(e, t))
    BY <2>2 DEF SameScreen
  <2>4. Hid(t, t)
    BY <1>1 DEF Hid, SameModes
  <2> QED BY <2>1, <2>3, <2>4
<1>2. CASE ~(t.plainMode \/ t.cursorHidden)
  <2> DEFINE v == Write(t, <<<<"hide">>>>)
             u == hideTerminalCursor(t)
  <2>1. u = [v EXCEPT !.cursorHidden = TRUE]
    BY <1>2 DEF hideTerminalCursor
  <2>2. PICK c \in Seq(Command) : c = <<<<"hide">>>>
    <3>1. <<<<"hide">>>> \in Seq(Command)
      BY Commands
    <3> QED BY <3>1
  <2>3. v = Write(t, c)
    BY <2>2
  <2> HIDE DEF v, u
  <2>4. /\ v \in Object /\ v.out = t.out \o c
        /\ v.plainMode = t.plainMode /\ v.outputColor = t.outputColor
        /\ v.remoteLine = t.remoteLine /\ v.remoteColumn = t.remoteColumn
        /\ v.lineDataValid = t.lineDataValid /\ v.lineData = t.lineData
        /\ v.remoteColor = t.remoteColor
    BY <2>3, WriteFacts
  <2>5. /\ u \in Object /\ u.out = v.out /\ u.cursorHidden = TRUE
        /\ u.plainMode = v.plainMode /\ u.outputColor = v.outputColor
        /\ u.remoteLine = v.remoteLine /\ u.remoteColumn = v.remoteColumn
        /\ u.lineDataValid = v.lineDataValid /\ u.lineData = v.lineData
        /\ u.remoteColor = v.remoteColor
    BY <2>1, <2>4 DEF Object
  <2>6. KindsOf(u.out) = KindsOf(t.out) \union {"hide"}
    <3>1. KindsOf(t.out \o c) = KindsOf(t.out) \union KindsOf(c)
      BY KindsConcat, ObjectParts
    <3>2. KindsOf(c) = {"hide"}
      BY <2>2, Commands, KindsConcat
    <3> QED BY <2>4, <2>5, <3>1, <3>2
  <2>7. ASSUME NEW e \in Screen
        PROVE  SameScreen(At(e, t), At(e, u)) /\ At(e, u).visible = FALSE
    <3>3. u.out = t.out \o c
      BY <2>4, <2>5
    <3>1. At(e, t) \in Screen /\ At(e, u) = Run(At(e, t), c)
      BY <3>3, AtWritten
    <3>2. At(e, u) = Emulate(At(e, t), <<"hide">>)
      BY <2>2, <3>1, Commands, RunFacts
    <3> QED BY <3>1, <3>2, Hides DEF Becomes, SameScreen
  <2>8. Hid(t, u)
    BY <2>4, <2>5, <2>6 DEF Hid, SameModes
  <2>9. \A e \in Screen, w \in BOOLEAN : Seen(e, u, w)
    BY <2>5, <2>7 DEF Seen
  <2> QED BY <2>7, <2>8, <2>9 DEF u
<1> QED BY <1>1, <1>2

\* Forgetting the line the cursor is on.
LEMMA ForgetLineFacts ==
  ASSUME NEW t \in Object
  PROVE  /\ ForgetLine(t) \in Object /\ ForgetLine(t).out = t.out
         /\ ForgetLine(t).plainMode = t.plainMode /\ ForgetLine(t).outputColor = t.outputColor
         /\ ForgetLine(t).remoteLine = t.remoteLine /\ ForgetLine(t).remoteColumn = 0
         /\ ForgetLine(t).lineDataValid = TRUE /\ ForgetLine(t).lineData = <<>>
         /\ ForgetLine(t).cursorHidden = t.cursorHidden /\ ForgetLine(t).remoteColor = t.remoteColor
<1>1. <<>> \in Seq(Cell) /\ 0 \in Nat /\ TRUE \in BOOLEAN
  OBVIOUS
<1> QED BY <1>1 DEF ForgetLine, Object

\* Lines further down, of which the first is on the row of the cursor, have taken
\* the place of lines above them.
Scrolls(f, g, from, to) ==
  /\ g \in Screen /\ g.width = f.width /\ g.pen = f.pen /\ g.x = 0 /\ ~g.wrap
  /\ from - f.y <= to - g.y
  /\ to - g.y = from - f.y \/ g.y = Height - 1
  /\ \A r \in 0..(Height - 1) :
       g.rows[r] = IF r + ((to - g.y) - (from - f.y)) < Height
                   THEN f.rows[r + ((to - g.y) - (from - f.y))] ELSE BlankLine(f.pen)

\* Newlines go to a line below.
LEMMA ScrollsDown ==
  ASSUME NEW f \in Screen, NEW from \in Int, NEW to \in Int, from < to
  PROVE  /\ Scrolls(f, Run(f, NewLines(to - from)), from, to)
         /\ Run(f, NewLines(to - from)).visible = f.visible
<1> DEFINE n == to - from
           g == Run(f, NewLines(n))
<1>1. n \in Nat /\ n > 0 /\ to = from + n
  OBVIOUS
<1>2. Fed(f, g, n)
  BY <1>1, FedByNewLines
<1>3. /\ f.y \in Nat /\ g.y \in Nat /\ f.y < Height /\ g.y < Height /\ Height \in Nat
  <2>1. g \in Screen
    BY <1>2 DEF Fed
  <2> HIDE DEF g
  <2> QED BY <2>1, ScreenParts, ScreenNumbers
<1> HIDE DEF n, g
<1>4. (to - g.y) - (from - f.y) = f.y + n - g.y
  BY <1>1, <1>3
<1>5. g.y = IF f.y + n < Height THEN f.y + n ELSE Height - 1
  BY <1>2 DEF Fed
<1>6. from - f.y <= to - g.y /\ (to - g.y = from - f.y \/ g.y = Height - 1)
  BY <1>1, <1>3, <1>5
<1>7. g.x = 0 /\ ~g.wrap /\ g \in Screen /\ g.width = f.width /\ g.pen = f.pen /\ g.visible = f.visible
  BY <1>1, <1>2 DEF Fed
<1>8. Scrolls(f, g, from, to)
  BY <1>2, <1>4, <1>6, <1>7 DEF Fed, Scrolls
<1> QED BY <1>7, <1>8 DEF g, n

\* Two commands, one after the other.
LEMMA TwoCommands ==
  ASSUME NEW c \in Command, NEW d \in Command
  PROVE  <<c, d>> = <<c>> \o <<d>>
<1>1. <<c>> \in Seq(Command) /\ <<d>> \in Seq(Command) /\ <<c, d>> \in Seq(Command)
      /\ Len(<<c>>) = 1 /\ Len(<<d>>) = 1 /\ Len(<<c, d>>) = 2
      /\ <<c>>[1] = c /\ <<d>>[1] = d /\ <<c, d>>[1] = c /\ <<c, d>>[2] = d
  OBVIOUS
<1>2. PICK a \in Seq(Command), b \in Seq(Command), e \in Seq(Command) :
        a = <<c>> /\ b = <<d>> /\ e = <<c, d>>
  BY <1>1
<1>3. /\ a \o b \in Seq(Command) /\ Len(a \o b) = Len(a) + Len(b)
      /\ \A i \in 1..Len(a) : (a \o b)[i] = a[i]
      /\ \A i \in 1..Len(b) : (a \o b)[Len(a) + i] = b[i]
  OBVIOUS
<1>4. Len(a) = 1 /\ Len(b) = 1 /\ Len(e) = 2 /\ a[1] = c /\ b[1] = d /\ e[1] = c /\ e[2] = d
  BY <1>1, <1>2
<1>5. Len(a \o b) = 2 /\ (a \o b)[1] = c /\ (a \o b)[2] = d
  BY <1>3, <1>4
<1>6. \A i \in 1..Len(e) : i = 1 \/ i = 2
  BY <1>4
<1>7. e = a \o b
  BY <1>3, <1>4, <1>5, <1>6, SeqEqual
<1> QED BY <1>2, <1>7

\* CUU goes to a line above that is still on the screen.
LEMMA ScrollsUp ==
  ASSUME NEW f \in Screen, NEW from \in Int, NEW to \in Int, to < from, from - f.y <= to
  PROVE  /\ Scrolls(f, Run(f, <<<<"cr">>, <<"up", from - to>>>>), from, to)
         /\ Run(f, <<<<"cr">>, <<"up", from - to>>>>).visible = f.visible
<1> DEFINE n == from - to
           up == <<"up", n>>
           h == Run(f, <<<<"cr">>>>)
           g == Run(f, <<<<"cr">>, up>>)
<1>1. n \in Nat /\ n <= f.y /\ to = from - n /\ f.y \in Nat
  BY ScreenParts
<1> HIDE DEF n
<1>2. <<"cr">> \in Command /\ up \in Command
  BY <1>1, Commands
<1>3. <<<<"cr">>>> \in Seq(Command) /\ <<up>> \in Seq(Command)
  BY <1>2
<1>4. g = Emulate(h, up) /\ h = Emulate(f, <<"cr">>)
  <2>1. PICK a \in Seq(Command), b \in Seq(Command) : a = <<<<"cr">>>> /\ b = <<up>>
    BY <1>3
  <2>3. Run(f, a \o b) = Run(Run(f, a), b) /\ Run(f, a) \in Screen
    BY RunFacts
  <2> HIDE DEF up
  <2>2. a \o b = <<<<"cr">>, up>>
    BY <1>2, <2>1, TwoCommands
  <2>4. Run(f, a) = h
    BY <2>1
  <2>5. Run(h, b) = Emulate(h, up)
    BY <1>2, <2>1, <2>3, <2>4, RunFacts
  <2>6. h = Emulate(f, <<"cr">>)
    BY <1>2, RunFacts
  <2> QED BY <2>2, <2>3, <2>4, <2>5, <2>6
<1>5. Becomes(h, f.rows, f.width, 0, f.y, FALSE, f.pen, f.visible)
  BY <1>4, Returns
<1> HIDE DEF h
<1>6. h \in Screen /\ h.rows = f.rows /\ h.width = f.width /\ h.x = 0 /\ h.y = f.y /\ ~h.wrap
      /\ h.pen = f.pen /\ h.visible = f.visible
  BY <1>5 DEF Becomes
<1>7. Becomes(Emulate(h, up), h.rows, h.width, h.x, IF n <= h.y THEN h.y - n ELSE 0, FALSE, h.pen, h.visible)
  BY <1>1, <1>6, GoesUp
<1> HIDE DEF g, up
<1>8. g \in Screen /\ g.rows = f.rows /\ g.width = f.width /\ g.x = 0 /\ g.y = f.y - n /\ ~g.wrap
      /\ g.pen = f.pen /\ g.visible = f.visible
  BY <1>1, <1>4, <1>6, <1>7 DEF Becomes
<1>9. (to - g.y) - (from - f.y) = 0 /\ to - g.y = from - f.y
  BY <1>1, <1>8
<1>10. \A r \in 0..(Height - 1) :
         g.rows[r] = IF r + ((to - g.y) - (from - f.y)) < Height
                     THEN f.rows[r + ((to - g.y) - (from - f.y))] ELSE BlankLine(f.pen)
  <2>1. \A r \in 0..(Height - 1) : r + 0 = r /\ r < Height
    BY ScreenNumbers
  <2> QED BY <1>8, <1>9, <2>1
<1>12. from - f.y <= to - g.y
  BY <1>1, <1>8
<1>11. Scrolls(f, g, from, to)
  BY <1>8, <1>9, <1>10, <1>12 DEF Scrolls
<1> QED BY <1>8, <1>11 DEF g, up, n

\* Nothing is known of the line the object is on, and the cursor is at its start.
AtStart(t, u) ==
  /\ SameModes(t, u) /\ u.remoteColor = t.remoteColor
  /\ u.remoteColumn = 0 /\ u.lineDataValid = TRUE /\ u.lineData = <<>>
  /\ "cr" \in KindsOf(u.out)
  /\ (~t.plainMode => u.cursorHidden)

\* What is written to go to another line.
LEMMA StepsFacts ==
  ASSUME NEW t \in Object, NEW line \in Int, line # t.remoteLine
  PROVE  /\ StepsTo(t, line) \in Seq(Command)
         /\ "cr" \in KindsOf(StepsTo(t, line))
         /\ KindsOf(StepsTo(t, line)) \subseteq {"cr", "lf", "up"}
         /\ \A f \in Screen : ~t.plainMode /\ t.remoteLine - f.y <= line =>
              /\ Scrolls(f, Run(f, StepsTo(t, line)), t.remoteLine, line)
              /\ Run(f, StepsTo(t, line)).visible = f.visible
<1>1. t.remoteLine \in Int
  BY ObjectParts
<1>2. CASE line > t.remoteLine
  <2>1. StepsTo(t, line) = NewLines(line - t.remoteLine)
    <3>1. ~(line < t.remoteLine)
      BY <1>1, <1>2
    <3> QED BY <1>2, <3>1 DEF StepsTo
  <2> DEFINE n == line - t.remoteLine
  <2>2. n \in Nat /\ n > 0
    BY <1>1, <1>2
  <2> HIDE DEF n
  <2>3. /\ NewLines(n) \in Seq(Command) /\ "cr" \in KindsOf(NewLines(n))
        /\ KindsOf(NewLines(n)) \subseteq {"cr", "lf"}
    BY <2>2, NewLinesFacts
  <2>4. \A f \in Screen : /\ Scrolls(f, Run(f, NewLines(line - t.remoteLine)), t.remoteLine, line)
                          /\ Run(f, NewLines(line - t.remoteLine)).visible = f.visible
    BY <1>1, <1>2, ScrollsDown
  <2> QED BY <2>1, <2>3, <2>4 DEF n
<1>3. CASE line < t.remoteLine /\ t.plainMode
  <2>1. StepsTo(t, line) = NewLine
    BY <1>1, <1>3 DEF StepsTo
  <2>2. NewLine \in Seq(Command)
    BY NewLinesFacts
  <2>3. <<"cr">> \in Command /\ <<"lf">> \in Command
    BY Commands
  <2>4. PICK a \in Seq(Command), b \in Seq(Command) : a = <<<<"cr">>>> /\ b = <<<<"lf">>>>
    <3>1. <<<<"cr">>>> \in Seq(Command) /\ <<<<"lf">>>> \in Seq(Command)
      BY <2>3
    <3> QED BY <3>1
  <2>5. NewLine = a \o b
    BY <2>3, <2>4, TwoCommands DEF NewLine
  <2>6. KindsOf(a) = {"cr"} /\ KindsOf(b) = {"lf"}
    BY <2>3, <2>4, KindsConcat
  <2>7. KindsOf(a \o b) = {"cr", "lf"}
    BY <2>6, KindsConcat
  <2> QED BY <1>3, <2>1, <2>2, <2>5, <2>7
<1>4. CASE line < t.remoteLine /\ ~t.plainMode
  <2> DEFINE up == <<"up", t.remoteLine - line>>
  <2>1. StepsTo(t, line) = <<<<"cr">>, up>>
    BY <1>1, <1>4 DEF StepsTo
  <2>2. t.remoteLine - line \in Nat
    BY <1>1, <1>4
  <2>3. <<"cr">> \in Command /\ up \in Command
    BY <2>2, Commands
  <2>4. up[1] = "up"
    OBVIOUS
  <2>5. \A f \in Screen : t.remoteLine - f.y <= line =>
          /\ Scrolls(f, Run(f, <<<<"cr">>, up>>), t.remoteLine, line)
          /\ Run(f, <<<<"cr">>, up>>).visible = f.visible
    BY <1>1, <1>4, ScrollsUp
  <2> HIDE DEF up
  <2>6. <<<<"cr">>, up>> = <<<<"cr">>>> \o <<up>> /\ <<<<"cr">>, up>> \in Seq(Command)
        /\ <<<<"cr">>>> \in Seq(Command) /\ <<up>> \in Seq(Command)
    BY <2>3, TwoCommands
  <2>7. PICK a \in Seq(Command), b \in Seq(Command) : a = <<<<"cr">>>> /\ b = <<up>>
    BY <2>6
  <2>8. KindsOf(a) = {"cr"} /\ KindsOf(b) = {"up"}
    BY <2>3, <2>4, <2>7, KindsConcat
  <2>9. KindsOf(a \o b) = {"cr", "up"}
    BY <2>8, KindsConcat
  <2>10. StepsTo(t, line) = a \o b
    BY <2>1, <2>6, <2>7
  <2>11. StepsTo(t, line) \in Seq(Command) /\ KindsOf(StepsTo(t, line)) = {"cr", "up"}
    BY <2>1, <2>6, <2>9, <2>10
  <2>12. \A f \in Screen : t.remoteLine - f.y <= line =>
          /\ Scrolls(f, Run(f, StepsTo(t, line)), t.remoteLine, line)
          /\ Run(f, StepsTo(t, line)).visible = f.visible
    BY <2>1, <2>5
  <2> QED BY <2>11, <2>12
<1> QED BY <1>1, <1>2, <1>3, <1>4

\* Going to another line: the object and the terminal.
LEMMA MoveFacts ==
  ASSUME NEW t \in Object, NEW line \in Int, line # t.remoteLine
  PROVE  /\ AtStart(t, moveTerminalToLine(t, line))
         /\ moveTerminalToLine(t, line).remoteLine = line
         /\ KindsOf(moveTerminalToLine(t, line).out)
              \subseteq KindsOf(t.out) \union {"hide", "cr", "lf", "up"}
         /\ ~t.plainMode => \A e \in Screen :
              t.remoteLine - At(e, t).y <= line =>
                /\ Scrolls(At(e, t), At(e, moveTerminalToLine(t, line)), t.remoteLine, line)
                /\ \A w \in BOOLEAN : Seen(e, t, w) => Seen(e, moveTerminalToLine(t, line), w)
<1> DEFINE h == hideTerminalCursor(t)
           v == Write(h, StepsTo(t, line))
           u == [v EXCEPT !.remoteLine = line]
           m == ForgetLine(u)
<1>1. moveTerminalToLine(t, line) = m
  BY DEF moveTerminalToLine
<1>2. Hid(t, h)
  BY HideFacts
<1>3. PICK c \in Seq(Command) : c = StepsTo(t, line)
  BY StepsFacts
<1> HIDE DEF h, v, u, m
<1>4. h \in Object
  BY <1>2 DEF Hid, SameModes
<1>5. v = Write(h, c)
  BY <1>3 DEF v
<1>6. /\ v \in Object /\ v.out = h.out \o c
      /\ v.plainMode = h.plainMode /\ v.outputColor = h.outputColor
      /\ v.cursorHidden = h.cursorHidden /\ v.remoteColor = h.remoteColor
  BY <1>4, <1>5, WriteFacts
<1>7. /\ u \in Object /\ u.out = v.out /\ u.remoteLine = line
      /\ u.plainMode = v.plainMode /\ u.outputColor = v.outputColor
      /\ u.cursorHidden = v.cursorHidden /\ u.remoteColor = v.remoteColor
  BY <1>6 DEF u, Object
<1>8. /\ m \in Object /\ m.out = u.out /\ m.remoteLine = u.remoteLine
      /\ m.plainMode = u.plainMode /\ m.outputColor = u.outputColor
      /\ m.cursorHidden = u.cursorHidden /\ m.remoteColor = u.remoteColor
      /\ m.remoteColumn = 0 /\ m.lineDataValid = TRUE /\ m.lineData = <<>>
  BY <1>7, ForgetLineFacts DEF m
<1>9. KindsOf(m.out) = KindsOf(h.out) \union KindsOf(c) /\ "cr" \in KindsOf(c)
  <2>1. h.out \in Seq(Command)
    BY <1>4, ObjectParts
  <2>2. KindsOf(h.out \o c) = KindsOf(h.out) \union KindsOf(c)
    BY <2>1, KindsConcat
  <2> QED BY <1>3, <1>6, <1>7, <1>8, <2>2, StepsFacts
<1>10. AtStart(t, m)
  BY <1>2, <1>6, <1>7, <1>8, <1>9 DEF AtStart, Hid, SameModes
<1>11. ASSUME ~t.plainMode, NEW e \in Screen, t.remoteLine - At(e, t).y <= line
       PROVE  /\ Scrolls(At(e, t), At(e, m), t.remoteLine, line)
              /\ \A w \in BOOLEAN : Seen(e, t, w) => Seen(e, m, w)
  <2> DEFINE f == At(e, t)
             g == At(e, h)
             k == At(e, m)
  <2>1. SameScreen(f, g) /\ \A w \in BOOLEAN : Seen(e, t, w) => Seen(e, h, w)
    BY <1>11, HideFacts DEF h
  <2>2. m.out = h.out \o c
    BY <1>6, <1>7, <1>8
  <2>3. g \in Screen /\ k = Run(g, c)
    <3> HIDE DEF f, g, k
    <3>2. PICK o \in Object : o = h
      BY <1>4
    <3>1. At(e, o) \in Screen /\ At(e, m) = Run(At(e, o), c)
      <4>1. o.out \in Seq(Command) /\ m.out = o.out \o c
        BY <2>2, <3>2, ObjectParts
      <4>2. Run(e, o.out \o c) = Run(Run(e, o.out), c) /\ Run(e, o.out) \in Screen
        BY <4>1, RunFacts
      <4> QED BY <4>1, <4>2 DEF At
    <3> QED BY <3>1, <3>2 DEF g, k
  <2> HIDE DEF f, g, k
  <2>4. t.remoteLine - g.y <= line
    BY <1>11, <2>1 DEF SameScreen, f
  <2>5. Scrolls(g, k, t.remoteLine, line) /\ k.visible = g.visible
    BY <1>3, <1>11, <2>3, <2>4, StepsFacts
  <2>6. Scrolls(f, k, t.remoteLine, line)
    BY <2>1, <2>5 DEF SameScreen, Scrolls
  <2>7. ASSUME NEW w \in BOOLEAN, Seen(e, t, w) PROVE Seen(e, m, w)
    <3>1. Seen(e, h, w)
      BY <2>1, <2>7
    <3>2. h.cursorHidden /\ m.cursorHidden = h.cursorHidden
      BY <1>2, <1>6, <1>7, <1>8, <1>11 DEF Hid
    <3>3. ~g.visible
      BY <3>1, <3>2 DEF Seen, g
    <3> QED BY <2>5, <3>2, <3>3 DEF Seen, k
  <2> QED BY <2>6, <2>7 DEF f, k
<1>12. KindsOf(m.out) \subseteq KindsOf(t.out) \union {"hide", "cr", "lf", "up"}
  <2>1. KindsOf(c) \subseteq {"cr", "lf", "up"}
    BY <1>3, StepsFacts
  <2>2. KindsOf(h.out) \subseteq KindsOf(t.out) \union {"hide"}
    BY <1>2 DEF Hid
  <2> QED BY <1>9, <2>1, <2>2
<1> QED BY <1>1, <1>7, <1>8, <1>10, <1>11, <1>12

\* Going back to the first column.
LEMMA RestartFacts ==
  ASSUME NEW t \in Object
  PROVE  /\ AtStart(t, RestartLine(t)) /\ RestartLine(t).remoteLine = t.remoteLine
         /\ ~t.plainMode => \A e \in Screen :
              /\ Becomes(At(e, RestartLine(t)), At(e, t).rows, At(e, t).width, 0, At(e, t).y, FALSE,
                         At(e, t).pen, At(e, RestartLine(t)).visible)
              /\ \A w \in BOOLEAN : Seen(e, t, w) => Seen(e, RestartLine(t), w)
<1> DEFINE h == hideTerminalCursor(t)
           s == IF t.plainMode THEN NewLine ELSE <<<<"cr">>>>
           v == Write(h, s)
           m == ForgetLine(v)
<1>1. RestartLine(t) = m
  BY DEF RestartLine
<1>2. Hid(t, h)
  BY HideFacts
<1>3. s \in Seq(Command) /\ "cr" \in KindsOf(s)
  <2>1. <<"cr">> \in Command /\ <<"lf">> \in Command /\ <<<<"cr">>>> \in Seq(Command)
        /\ <<<<"lf">>>> \in Seq(Command)
    BY Commands
  <2>2. PICK a \in Seq(Command), b \in Seq(Command) : a = <<<<"cr">>>> /\ b = <<<<"lf">>>>
    BY <2>1
  <2>3. NewLine = a \o b
    BY <2>1, <2>2, TwoCommands DEF NewLine
  <2>4. KindsOf(a) = {"cr"}
    BY <2>1, <2>2, KindsConcat
  <2>5. KindsOf(a \o b) = KindsOf(a) \union KindsOf(b)
    BY KindsConcat
  <2> QED BY <2>2, <2>3, <2>4, <2>5, NewLinesFacts
<1>11. PICK c \in Seq(Command) : c = s
  BY <1>3
<1>12. ~t.plainMode => c = <<<<"cr">>>>
  BY <1>11
<1> HIDE DEF h, s, v, m
<1>4. h \in Object
  BY <1>2 DEF Hid, SameModes
<1>5. v = Write(h, c)
  BY <1>11 DEF v
<1>6. /\ v \in Object /\ v.out = h.out \o c /\ v.remoteLine = h.remoteLine
      /\ v.plainMode = h.plainMode /\ v.outputColor = h.outputColor
      /\ v.cursorHidden = h.cursorHidden /\ v.remoteColor = h.remoteColor
  BY <1>4, <1>5, WriteFacts
<1>8. /\ m \in Object /\ m.out = v.out /\ m.remoteLine = v.remoteLine
      /\ m.plainMode = v.plainMode /\ m.outputColor = v.outputColor
      /\ m.cursorHidden = v.cursorHidden /\ m.remoteColor = v.remoteColor
      /\ m.remoteColumn = 0 /\ m.lineDataValid = TRUE /\ m.lineData = <<>>
  BY <1>6, ForgetLineFacts DEF m
<1>9. KindsOf(m.out) = KindsOf(h.out) \union KindsOf(c) /\ "cr" \in KindsOf(c)
  <2>1. h.out \in Seq(Command)
    BY <1>4, ObjectParts
  <2>2. KindsOf(h.out \o c) = KindsOf(h.out) \union KindsOf(c)
    BY <2>1, KindsConcat
  <2> QED BY <1>3, <1>6, <1>8, <1>11, <2>2
<1>10. AtStart(t, m) /\ m.remoteLine = t.remoteLine
  BY <1>2, <1>6, <1>8, <1>9 DEF AtStart, Hid, SameModes
<1>13. ASSUME ~t.plainMode, NEW e \in Screen
       PROVE  /\ Becomes(At(e, m), At(e, t).rows, At(e, t).width, 0, At(e, t).y, FALSE,
                         At(e, t).pen, At(e, m).visible)
              /\ \A w \in BOOLEAN : Seen(e, t, w) => Seen(e, m, w)
  <2> DEFINE f == At(e, t)
             g == At(e, h)
             k == At(e, m)
  <2>1. SameScreen(f, g) /\ \A w \in BOOLEAN : Seen(e, t, w) => Seen(e, h, w)
    BY <1>13, HideFacts DEF h
  <2>2. m.out = h.out \o c
    BY <1>6, <1>8
  <2>3. g \in Screen /\ k = Run(g, c)
    <3> HIDE DEF f, g, k
    <3>2. PICK o \in Object : o = h
      BY <1>4
    <3>1. At(e, o) \in Screen /\ At(e, m) = Run(At(e, o), c)
      <4>1. o.out \in Seq(Command) /\ m.out = o.out \o c
        BY <2>2, <3>2, ObjectParts
      <4>2. Run(e, o.out \o c) = Run(Run(e, o.out), c) /\ Run(e, o.out) \in Screen
        BY <4>1, RunFacts
      <4> QED BY <4>1, <4>2 DEF At
    <3> QED BY <3>1, <3>2 DEF g, k
  <2> HIDE DEF f, g, k
  <2>4. k = Emulate(g, <<"cr">>)
    BY <1>12, <1>13, <2>3, Commands, RunFacts
  <2>5. Becomes(k, g.rows, g.width, 0, g.y, FALSE, g.pen, g.visible)
    BY <2>3, <2>4, Returns
  <2>6. Becomes(k, f.rows, f.width, 0, f.y, FALSE, f.pen, k.visible) /\ k.visible = g.visible
    BY <2>1, <2>5 DEF SameScreen, Becomes
  <2>7. ASSUME NEW w \in BOOLEAN, Seen(e, t, w) PROVE Seen(e, m, w)
    <3>1. Seen(e, h, w)
      BY <2>1, <2>7
    <3>2. h.cursorHidden /\ m.cursorHidden = h.cursorHidden
      BY <1>2, <1>6, <1>8, <1>13 DEF Hid
    <3>3. ~g.visible
      BY <3>1, <3>2 DEF Seen, g
    <3> QED BY <2>6, <3>2, <3>3 DEF Seen, k
  <2> QED BY <2>6, <2>7 DEF f, k
<1> QED BY <1>1, <1>10, <1>13

\* What sendLine does once the object is where it outputs the line from.
SentFrom(t, data, cursorColumn) ==
  LET count == trimmedCellCount(t, data)
      u == IF OverrunsCursor(count, cursorColumn) THEN hideTerminalCursor(t) ELSE t
  IN [RememberLine(Write(u, LineCommands(t, data)), data, count) EXCEPT
        !.remoteColor = IF t.outputColor /\ Remaining(t, data) # {} THEN data[Len(data)].color ELSE @]

\* What it makes of the object.
Remembers(t, u, data, column) ==
  /\ SameModes(t, u) /\ u.remoteLine = t.remoteLine /\ u.lineDataValid = TRUE
  /\ u.remoteColumn = trimmedCellCount(t, data) /\ u.remoteColumn <= Len(data)
  /\ Len(u.lineData) = u.remoteColumn
  /\ \A i \in 1..u.remoteColumn : u.lineData[i] = data[i]
  /\ KindsOf(u.out) \subseteq KindsOf(t.out) \union {"hide", "put", "el", "sgr"}
  /\ ~t.plainMode => KindsOf(u.out) \intersect {"put", "el"} # {}
  /\ ~t.plainMode /\ column # -1 /\ u.remoteColumn > column => u.cursorHidden
  /\ ~t.plainMode /\ t.cursorHidden => u.cursorHidden
  /\ ~t.plainMode /\ t.outputColor /\ Len(t.lineData) < Len(data) =>
       u.remoteColor = data[Len(data)].color
  /\ t.plainMode => u.out = t.out \o LineCommands(t, data)

\* Output of what is left of a line: the object and the terminal.
LEMMA SentFromFacts ==
  ASSUME NEW t \in Object, NEW data, Rest(t, data), t.lineDataValid = TRUE, NEW column \in Int
  PROVE  /\ Remembers(t, SentFrom(t, data, column), data, column)
         /\ \A e \in Screen :
              ~t.plainMode /\ t.outputColor /\ ~At(e, t).wrap /\ At(e, t).x <= Len(t.lineData)
              /\ Len(t.lineData) < Len(data) /\ At(e, t).width = Len(data) /\ PenKnown(At(e, t), t) =>
                /\ \E g \in Screen : /\ SameScreen(At(e, t), g)
                                     /\ LineSent(g, At(e, SentFrom(t, data, column)), t, data)
                /\ \A w \in BOOLEAN : Seen(e, t, w) => Seen(e, SentFrom(t, data, column), w)
<1> DEFINE n == trimmedCellCount(t, data)
           h == IF OverrunsCursor(n, column) THEN hideTerminalCursor(t) ELSE t
           v == Write(h, LineCommands(t, data))
           r == RememberLine(v, data, n)
           color == IF t.outputColor /\ Remaining(t, data) # {} THEN data[Len(data)].color
                    ELSE r.remoteColor
           u == [r EXCEPT !.remoteColor = color]
<1>1. SentFrom(t, data, column) = u
  BY DEF SentFrom
<1>2. /\ n \in Nat /\ n <= Len(data) /\ Len(data) \in Nat /\ data \in Seq(Cell)
  <2>1. n \in Len(t.lineData)..Len(data)
    BY TrimmedFacts DEF Trimmed
  <2> HIDE DEF n
  <2> QED BY <2>1, RestFacts DEF Rest
<1>3. Hid(t, hideTerminalCursor(t))
  BY HideFacts
<1>4. /\ SameModes(t, h) /\ h.remoteLine = t.remoteLine /\ h.lineDataValid = TRUE
      /\ h.remoteColor = t.remoteColor
      /\ KindsOf(h.out) \subseteq KindsOf(t.out) \union {"hide"}
      /\ (~t.plainMode /\ column # -1 /\ n > column => h.cursorHidden)
      /\ (~t.plainMode /\ t.cursorHidden => h.cursorHidden)
  <2>1. SameModes(t, t) /\ KindsOf(t.out) \subseteq KindsOf(t.out) \union {"hide"}
    BY DEF SameModes
  <2>2. CASE OverrunsCursor(n, column)
    BY <1>3, <2>2 DEF Hid
  <2>3. CASE ~OverrunsCursor(n, column)
    BY <2>1, <2>3 DEF OverrunsCursor
  <2> QED BY <2>2, <2>3
<1>5. PICK c \in Seq(Command) : c = LineCommands(t, data)
  BY CommandsOfLine
<1>6. h \in Object /\ v = Write(h, c)
  BY <1>4, <1>5 DEF SameModes
<1> HIDE DEF n, h, v
<1>7. /\ v \in Object /\ v.out = h.out \o c /\ v.remoteLine = h.remoteLine
      /\ v.plainMode = h.plainMode /\ v.outputColor = h.outputColor
      /\ v.lineDataValid = h.lineDataValid
      /\ v.cursorHidden = h.cursorHidden /\ v.remoteColor = h.remoteColor
  BY <1>6, WriteFacts
<1>8. /\ SubSeq(data, 1, n) \in Seq(Cell) /\ Len(SubSeq(data, 1, n)) = n
      /\ \A i \in 1..n : SubSeq(data, 1, n)[i] = data[i]
  BY <1>2
<1>9. PICK line \in Seq(Cell) : line = SubSeq(data, 1, n)
  BY <1>8
<1>10. r = [v EXCEPT !.lineData = line, !.remoteColumn = n]
  BY <1>9 DEF RememberLine
<1>11. /\ r \in Object /\ r.out = v.out /\ r.remoteLine = v.remoteLine
       /\ r.plainMode = v.plainMode /\ r.outputColor = v.outputColor
       /\ r.lineDataValid = v.lineDataValid /\ r.lineData = line /\ r.remoteColumn = n
       /\ r.cursorHidden = v.cursorHidden /\ r.remoteColor = v.remoteColor
  BY <1>2, <1>7, <1>10 DEF Object
<1> HIDE DEF r
<1>12. color \in Colors \union {NoColor}
  <2>1. r.remoteColor \in Colors \union {NoColor}
    BY <1>11, ObjectParts
  <2>2. ASSUME Remaining(t, data) # {} PROVE data[Len(data)].color \in Colors
    <3>1. Len(data) \in 1..Len(data)
      BY <1>2, <2>2, RestFacts DEF Remaining
    <3> QED BY <3>1, RestFacts
  <2> QED BY <2>1, <2>2
<1> HIDE DEF color
<1>13. /\ u \in Object /\ u.out = r.out /\ u.remoteLine = r.remoteLine
       /\ u.plainMode = r.plainMode /\ u.outputColor = r.outputColor
       /\ u.lineDataValid = r.lineDataValid /\ u.lineData = r.lineData
       /\ u.remoteColumn = r.remoteColumn
       /\ u.cursorHidden = r.cursorHidden /\ u.remoteColor = color
  BY <1>11, <1>12 DEF Object
<1> HIDE DEF u
<1>14. KindsOf(u.out) = KindsOf(h.out) \union KindsOf(c)
  <2>1. KindsOf(h.out \o c) = KindsOf(h.out) \union KindsOf(c)
    BY <1>6, KindsConcat, ObjectParts
  <2> QED BY <1>7, <1>11, <1>13, <2>1
<1>15. /\ KindsOf(c) \subseteq {"el", "put", "sgr"}
       /\ (~t.plainMode => KindsOf(c) \intersect {"put", "el"} # {})
  BY <1>5, CommandsOfLine, LineCommandFacts
<1>16. Remembers(t, u, data, column)
  <2>1. u.lineData = line /\ u.remoteColumn = n /\ Len(line) = n /\ \A i \in 1..n : line[i] = data[i]
    BY <1>8, <1>9, <1>11, <1>13
  <2>2. SameModes(t, u)
    BY <1>4, <1>7, <1>11, <1>13, <1>14 DEF SameModes
  <2>3. Len(t.lineData) < Len(data) => Remaining(t, data) # {}
    BY RestFacts DEF Remaining
  <2>4. t.outputColor /\ Len(t.lineData) < Len(data) => u.remoteColor = data[Len(data)].color
    BY <1>13, <2>3 DEF color
  <2>5. u.remoteLine = t.remoteLine /\ u.lineDataValid = TRUE
    BY <1>4, <1>7, <1>11, <1>13
  <2>6. /\ ~t.plainMode /\ column # -1 /\ u.remoteColumn > column => u.cursorHidden
        /\ ~t.plainMode /\ t.cursorHidden => u.cursorHidden
    BY <1>4, <1>7, <1>11, <1>13, <2>1
  <2>7. /\ KindsOf(u.out) \subseteq KindsOf(t.out) \union {"hide", "put", "el", "sgr"}
        /\ ~t.plainMode => KindsOf(u.out) \intersect {"put", "el"} # {}
    BY <1>4, <1>14, <1>15
  <2>8. t.plainMode => u.out = t.out \o LineCommands(t, data)
    <3>1. t.plainMode => h = t
      BY DEF h, hideTerminalCursor
    <3> QED BY <1>5, <1>7, <1>11, <1>13, <3>1
  <2> QED BY <1>2, <2>1, <2>2, <2>4, <2>5, <2>6, <2>7, <2>8 DEF Remembers, n
<1>17. ASSUME NEW e \in Screen, ~t.plainMode, t.outputColor, ~At(e, t).wrap,
              At(e, t).x <= Len(t.lineData), Len(t.lineData) < Len(data),
              At(e, t).width = Len(data), PenKnown(At(e, t), t)
       PROVE  /\ \E g \in Screen : SameScreen(At(e, t), g) /\ LineSent(g, At(e, u), t, data)
              /\ \A w \in BOOLEAN : Seen(e, t, w) => Seen(e, u, w)
  <2> DEFINE f == At(e, t)
             g == At(e, h)
             k == At(e, u)
  <2>1. f \in Screen
    BY ObjectParts, RunFacts DEF At
  <2>2. SameScreen(f, g) /\ \A w \in BOOLEAN : Seen(e, t, w) => Seen(e, h, w)
    <3>1. SameScreen(f, f)
      BY <2>1 DEF SameScreen
    <3>2. CASE OverrunsCursor(n, column)
      BY <1>17, <3>2, HideFacts DEF h
    <3>3. CASE ~OverrunsCursor(n, column)
      BY <3>1, <3>3 DEF h
    <3> QED BY <3>2, <3>3
  <2>3. g \in Screen /\ k = Run(g, c)
    <3>1. h.out \in Seq(Command) /\ u.out = h.out \o c
      BY <1>6, <1>7, <1>11, <1>13, ObjectParts
    <3>2. Run(e, h.out \o c) = Run(Run(e, h.out), c) /\ Run(e, h.out) \in Screen
      BY <3>1, RunFacts
    <3> QED BY <3>1, <3>2 DEF At
  <2> HIDE DEF f, g, k
  <2>4. ~g.wrap /\ g.x <= Len(t.lineData) /\ g.width = Len(data) /\ PenKnown(g, t)
    BY <1>17, <2>2 DEF SameScreen, PenKnown, f
  <2>5. LineSent(g, k, t, data)
    <3>1. LineSent(g, Run(g, LineCommands(t, data)), t, data)
      BY <1>17, <2>3, <2>4, LineIsSent
    <3> QED BY <1>5, <2>3, <3>1
  <2>6. k.visible = g.visible
    BY <2>5 DEF LineSent
  <2>7. ASSUME NEW w \in BOOLEAN, Seen(e, t, w) PROVE Seen(e, u, w)
    <3>1. Seen(e, h, w)
      BY <2>2, <2>7
    <3>2. u.cursorHidden = h.cursorHidden
      BY <1>7, <1>11, <1>13
    <3>3. "hide" \in KindsOf(u.out) => "hide" \in KindsOf(h.out)
      BY <1>14, <1>15
    <3> QED BY <2>6, <3>1, <3>2, <3>3 DEF Seen, g, k
  <2> QED BY <2>2, <2>3, <2>5, <2>7 DEF f, k
<1> QED BY <1>1, <1>16, <1>17

\* m_lineData holds what was output up to m_remoteColumn, or is not valid.
LineKept(t) == t.lineDataValid => Len(t.lineData) = t.remoteColumn

\* The object goes on with the line it is on.
GoesOn(t, line, data) ==
  /\ line = t.remoteLine /\ t.lineDataValid = TRUE /\ Len(t.lineData) = t.remoteColumn
  /\ ~t.plainMode => Len(t.lineData) < Len(data)
  /\ \A i \in 1..Len(t.lineData) : t.lineData[i] = data[i]

\* It starts the line it is on again, or it goes to another one.
BeginsAnew(t, s, line) ==
  (s = moveTerminalToLine(t, line) /\ line # t.remoteLine) \/ s = RestartLine(t)

StartsLine(t, s, line) ==
  /\ AtStart(t, s) /\ BeginsAnew(t, s, line)
  /\ \A e \in Screen : ~t.plainMode /\ t.remoteLine - At(e, t).y <= line =>
       /\ Scrolls(At(e, t), At(e, s), t.remoteLine, line)
       /\ \A w \in BOOLEAN : Seen(e, t, w) => Seen(e, s, w)

\* A line is appended to, or is started again.
LEMMA LineStarts ==
  ASSUME NEW t \in Object, LineKept(t), NEW line \in Int, NEW data \in Seq(Cell), Len(data) > 0,
         NEW column
  PROVE  \E s \in Object :
           /\ sendLine(t, line, data, column) = SentFrom(s, data, column)
           /\ Rest(s, data) /\ s.lineDataValid = TRUE /\ s.remoteLine = line
           /\ (s = t /\ GoesOn(t, line, data)) \/ StartsLine(t, s, line)
<1> DEFINE m == moveTerminalToLine(t, line)
           s == IF CanAppend(m, data) THEN m ELSE RestartLine(m)
<1>1. sendLine(t, line, data, column) = SentFrom(s, data, column)
  BY DEF sendLine, SentFrom
<1>2. ASSUME NEW u \in Object, AtStart(t, u) PROVE Rest(u, data)
  <2>1. Len(u.lineData) = 0 /\ Len(data) \in Nat
    BY <1>2 DEF AtStart
  <2> QED BY <2>1 DEF Rest
<1>3. CASE line # t.remoteLine
  <2>1. /\ AtStart(t, m) /\ m.remoteLine = line
        /\ ~t.plainMode => \A e \in Screen :
              t.remoteLine - At(e, t).y <= line =>
                /\ Scrolls(At(e, t), At(e, m), t.remoteLine, line)
                /\ \A w \in BOOLEAN : Seen(e, t, w) => Seen(e, m, w)
    BY <1>3, MoveFacts
  <2> HIDE DEF m
  <2>2. s = m
    BY <2>1 DEF AtStart, CanAppend
  <2>3. m \in Object /\ m.lineDataValid = TRUE
    BY <2>1 DEF AtStart, SameModes
  <2>4. BeginsAnew(t, m, line)
    BY <1>3 DEF m, BeginsAnew
  <2>5. StartsLine(t, m, line)
    BY <2>1, <2>4 DEF StartsLine
  <2> HIDE DEF s
  <2>6. Rest(m, data)
    BY <1>2, <2>1, <2>3
  <2> QED BY <1>1, <2>1, <2>2, <2>3, <2>5, <2>6
<1>4. CASE line = t.remoteLine /\ CanAppend(t, data)
  <2>1. s = t
    BY <1>4 DEF moveTerminalToLine
  <2> HIDE DEF s, m
  <2>2. t.lineData \in Seq(Cell) /\ t.remoteColumn \in Nat /\ t.lineDataValid \in BOOLEAN
    BY ObjectParts
  <2>3. t.lineDataValid = TRUE /\ Len(t.lineData) = t.remoteColumn /\ Len(t.lineData) \in Nat /\ Len(data) \in Nat
    BY <1>4, <2>2 DEF CanAppend, LineKept
  <2>4. /\ Len(t.lineData) <= Len(data) /\ (~t.plainMode => Len(t.lineData) < Len(data))
        /\ \A i \in 1..Len(t.lineData) : t.lineData[i] = data[i]
    <3>1. CASE t.remoteColumn = 0
      BY <2>3, <3>1
    <3>2. CASE t.remoteColumn > 0
      <4>1. /\ Len(t.lineData) <= Len(data) /\ (~t.plainMode => Len(t.lineData) < Len(data))
            /\ t.lineData = SubSeq(data, 1, Len(t.lineData))
        BY <1>4, <2>3, <3>2 DEF CanAppend
      <4>2. \A i \in 1..Len(t.lineData) : SubSeq(data, 1, Len(t.lineData))[i] = data[i]
        BY <2>3, <4>1
      <4> QED BY <4>1, <4>2
    <3> QED BY <2>2, <3>1, <3>2
  <2>5. GoesOn(t, line, data)
    BY <1>4, <2>3, <2>4 DEF GoesOn
  <2>6. Rest(t, data)
    BY <2>4 DEF Rest
  <2> QED BY <1>1, <1>4, <2>1, <2>3, <2>5, <2>6
<1>5. CASE line = t.remoteLine /\ ~CanAppend(t, data)
  <2> DEFINE u == RestartLine(t)
  <2>1. s = u
    BY <1>5 DEF moveTerminalToLine
  <2>2. /\ AtStart(t, u) /\ u.remoteLine = t.remoteLine
        /\ ~t.plainMode => \A e \in Screen :
              /\ Becomes(At(e, u), At(e, t).rows, At(e, t).width, 0, At(e, t).y, FALSE,
                         At(e, t).pen, At(e, u).visible)
              /\ \A w \in BOOLEAN : Seen(e, t, w) => Seen(e, u, w)
    BY RestartFacts
  <2> HIDE DEF s, m, u
  <2>3. u \in Object /\ u.lineDataValid = TRUE
    BY <2>2 DEF AtStart, SameModes
  <2>4. ASSUME NEW e \in Screen, ~t.plainMode
        PROVE  Scrolls(At(e, t), At(e, u), t.remoteLine, line)
    <3> DEFINE f == At(e, t)
               g == At(e, u)
    <3>1. Becomes(g, f.rows, f.width, 0, f.y, FALSE, f.pen, g.visible)
      BY <2>2, <2>4
    <3>5. f \in Screen
      BY ObjectParts, RunFacts DEF At
    <3> HIDE DEF f, g
    <3>2. g \in Screen /\ g.rows = f.rows /\ g.width = f.width /\ g.x = 0 /\ g.y = f.y
          /\ ~g.wrap /\ g.pen = f.pen
      BY <3>1 DEF Becomes
    <3>6. f.y \in Nat /\ t.remoteLine \in Int
      BY <3>5, ScreenParts, ObjectParts
    <3>3. line - g.y = t.remoteLine - f.y /\ (line - g.y) - (t.remoteLine - f.y) = 0
          /\ t.remoteLine - f.y <= line - g.y
      BY <1>5, <3>2, <3>6
    <3>4. \A r \in 0..(Height - 1) : r + 0 = r /\ r < Height
      BY ScreenNumbers
    <3>7. Scrolls(f, g, t.remoteLine, line)
      BY <3>2, <3>3, <3>4 DEF Scrolls
    <3> QED BY <3>7 DEF f, g
  <2>5. BeginsAnew(t, u, line)
    BY DEF u, BeginsAnew
  <2>6. StartsLine(t, u, line)
    BY <2>2, <2>4, <2>5 DEF StartsLine
  <2>7. Rest(u, data)
    BY <1>2, <2>2, <2>3
  <2> QED BY <1>1, <1>5, <2>1, <2>2, <2>3, <2>6, <2>7
<1> QED BY <1>3, <1>4, <1>5

\* The rows after lines have scrolled off the screen.
Rolled(e, shift) ==
  [r \in 0..(Height - 1) |-> IF r + shift < Height THEN e.rows[r + shift] ELSE BlankLine(e.pen)]

\* How far the lines on the screen are from where they were.
Shift(t, u, e, g) == (u.remoteLine - g.y) - (t.remoteLine - e.y)

\* What the object knows of the terminal's cursor and of its line is so.
Known(t, e) ==
  /\ Position(e) = t.remoteColumn
  /\ t.lineDataValid => \A i \in 1..t.remoteColumn : e.rows[e.y][i] = t.lineData[i]

\* The terminal after sendLine.
LineShown(t, u, e, g, data) ==
  /\ g \in Screen /\ g.width = e.width /\ Position(g) <= u.remoteColumn /\ g.pen = u.remoteColor
  /\ Shift(t, u, e, g) \in Nat /\ (Shift(t, u, e, g) = 0 \/ g.y = Height - 1)
  /\ \A r \in (0..(Height - 1)) \ {g.y} : g.rows[r] = Rolled(e, Shift(t, u, e, g))[r]
  /\ \A j \in 1..MaxWidth : j > e.width => g.rows[g.y][j] = Rolled(e, Shift(t, u, e, g))[g.y][j]
  /\ Known(t, e) \/ KindsOf(u.out) \intersect {"cr", "col"} # {} =>
       Position(g) = u.remoteColumn /\ \A j \in 1..e.width : g.rows[g.y][j] = data[j]

\* A line is output of the object's own, from where the cursor is.
LEMMA GoesOnShown ==
  ASSUME NEW t \in Object, NEW line \in Int, NEW data, Rest(t, data), GoesOn(t, line, data),
         ~t.plainMode, t.outputColor, t.out = <<>>, NEW column \in Int, NEW e \in Screen,
         e.width = Len(data), PenKnown(e, t), Position(e) <= t.remoteColumn,
         NEW u, u = SentFrom(t, data, column)
  PROVE  /\ LineShown(t, u, e, At(e, u), data)
         /\ \A w \in BOOLEAN : Seen(e, t, w) => Seen(e, u, w)
<1> DEFINE g == At(e, u)
           n == trimmedCellCount(t, data)
<1>1. At(e, t) = e
  BY RunFacts DEF At
<1>2. /\ e.x \in Nat /\ e.x < e.width /\ e.width \in Nat /\ e.y \in Nat /\ e.y < Height
      /\ Height \in Nat /\ e.rows \in Rows
  BY ScreenParts, ScreenNumbers
<1>3. Len(t.lineData) \in Nat /\ Len(t.lineData) = t.remoteColumn /\ Len(t.lineData) < e.width
      /\ t.remoteLine \in Int /\ line = t.remoteLine /\ t.lineDataValid = TRUE
  BY RestFacts, ObjectParts DEF GoesOn
<1>4. ~e.wrap /\ Position(e) = e.x /\ e.x <= Len(t.lineData)
  BY <1>2, <1>3 DEF Position
<1>5. Remembers(t, u, data, column)
  BY <1>3, SentFromFacts
<1>6. PICK f \in Screen : SameScreen(e, f) /\ LineSent(f, g, t, data)
  BY <1>1, <1>3, <1>4, SentFromFacts
<1>7. \A w \in BOOLEAN : Seen(e, t, w) => Seen(e, u, w)
  BY <1>1, <1>3, <1>4, SentFromFacts
<1> HIDE DEF g, n
<1>8. /\ g \in Screen /\ g.width = e.width /\ g.y = e.y
      /\ Position(g) = e.x + (n - Len(t.lineData))
      /\ g.pen = data[Len(data)].color
      /\ \A r \in (0..(Height - 1)) \ {e.y} : g.rows[r] = e.rows[r]
      /\ \A j \in 1..MaxWidth : j <= e.x \/ j > e.width => g.rows[e.y][j] = e.rows[e.y][j]
      /\ e.x = Len(t.lineData) =>
           \A j \in (Len(t.lineData) + 1)..Len(data) : g.rows[e.y][j] = data[j]
  BY <1>6 DEF SameScreen, LineSent, n
<1>9. /\ u.remoteLine = t.remoteLine /\ u.remoteColumn = n /\ u.remoteColumn \in Nat
      /\ KindsOf(u.out) \subseteq {"hide", "put", "el", "sgr"}
      /\ u.remoteColor = data[Len(data)].color
  <2>1. u \in Object
    BY <1>5 DEF Remembers, SameModes
  <2>2. KindsOf(t.out) = {}
    BY KindsConcat
  <2> QED BY <1>3, <1>5, <2>1, <2>2, ObjectParts DEF Remembers, n
<1>10. Shift(t, u, e, g) = 0
  BY <1>2, <1>3, <1>8, <1>9 DEF Shift
<1>11. \A r \in 0..(Height - 1) : Rolled(e, 0)[r] = e.rows[r]
  <2>1. \A r \in 0..(Height - 1) : r + 0 = r /\ r < Height
    BY <1>2
  <2> QED BY <2>1 DEF Rolled
<1>12. e.y \in 0..(Height - 1)
  BY <1>2
<1>13. ASSUME Known(t, e)
       PROVE  Position(g) = u.remoteColumn /\ \A j \in 1..e.width : g.rows[g.y][j] = data[j]
  <2>1. e.x = Len(t.lineData) /\ \A i \in 1..e.x : e.rows[e.y][i] = t.lineData[i]
    BY <1>3, <1>4, <1>13 DEF Known
  <2>2. Position(g) = u.remoteColumn
    BY <1>2, <1>3, <1>8, <1>9, <2>1
  <2>3. ASSUME NEW j \in 1..e.width PROVE g.rows[g.y][j] = data[j]
    <3>1. CASE j <= e.x
      <4>1. j \in 1..e.x /\ j \in 1..MaxWidth /\ j \in 1..Len(t.lineData)
        BY <1>2, <2>1, <3>1, ScreenParts, ScreenNumbers
      <4>2. t.lineData[j] = data[j]
        BY <4>1 DEF GoesOn
      <4> QED BY <1>8, <2>1, <3>1, <4>1, <4>2
    <3>2. CASE j > e.x
      <4>1. j \in (Len(t.lineData) + 1)..Len(data)
        BY <1>2, <1>3, <2>1, <3>2
      <4> QED BY <1>8, <2>1, <4>1
    <3> QED BY <1>2, <3>1, <3>2
  <2> QED BY <2>2, <2>3
<1>14. Position(g) <= u.remoteColumn
  BY <1>2, <1>3, <1>4, <1>8, <1>9
<1>15. /\ \A r \in (0..(Height - 1)) \ {g.y} : g.rows[r] = Rolled(e, 0)[r]
       /\ \A j \in 1..MaxWidth : j > e.width => g.rows[g.y][j] = Rolled(e, 0)[g.y][j]
  BY <1>8, <1>11, <1>12
<1>16. KindsOf(u.out) \intersect {"cr", "col"} = {}
  BY <1>9
<1>17. LineShown(t, u, e, g, data)
  <2>1. PICK shift \in Nat : shift = Shift(t, u, e, g) /\ shift = 0
    BY <1>10
  <2>2. /\ \A r \in (0..(Height - 1)) \ {g.y} : g.rows[r] = Rolled(e, shift)[r]
        /\ \A j \in 1..MaxWidth : j > e.width => g.rows[g.y][j] = Rolled(e, shift)[g.y][j]
    BY <1>15, <2>1
  <2>3. g \in Screen /\ g.width = e.width /\ g.pen = u.remoteColor
    BY <1>8, <1>9
  <2> QED BY <1>13, <1>14, <1>16, <2>1, <2>2, <2>3 DEF LineShown
<1> QED BY <1>7, <1>17 DEF g

\* A line that is started again is shown.
LEMMA StartedShown ==
  ASSUME NEW t \in Object, NEW s \in Object, NEW line \in Int, NEW data, Rest(s, data), Len(data) > 0,
         StartsLine(t, s, line), s.remoteLine = line,
         ~t.plainMode, t.outputColor, t.out = <<>>, NEW column \in Int, NEW e \in Screen,
         e.width = Len(data), PenKnown(e, t), t.remoteLine - e.y <= line,
         NEW u, u = SentFrom(s, data, column)
  PROVE  /\ LineShown(t, u, e, At(e, u), data)
         /\ \A w \in BOOLEAN : Seen(e, t, w) => Seen(e, u, w)
<1> DEFINE f == At(e, s)
           g == At(e, u)
           n == trimmedCellCount(s, data)
           d == (line - f.y) - (t.remoteLine - e.y)
<1>1. At(e, t) = e
  BY RunFacts DEF At
<1>2. /\ AtStart(t, s) /\ Scrolls(e, f, t.remoteLine, line)
      /\ \A w \in BOOLEAN : Seen(e, t, w) => Seen(e, s, w)
  BY <1>1 DEF StartsLine
<1>3. /\ s.plainMode = t.plainMode /\ s.outputColor = t.outputColor /\ s.remoteColor = t.remoteColor
      /\ s.remoteColumn = 0 /\ s.lineDataValid = TRUE /\ s.lineData = <<>> /\ "cr" \in KindsOf(s.out)
      /\ Len(s.lineData) = 0
  BY <1>2 DEF AtStart, SameModes
<1> HIDE DEF f
<1>4. /\ f \in Screen /\ f.width = e.width /\ f.pen = e.pen /\ f.x = 0 /\ ~f.wrap
      /\ t.remoteLine - e.y <= line - f.y /\ (line - f.y = t.remoteLine - e.y \/ f.y = Height - 1)
      /\ \A r \in 0..(Height - 1) : f.rows[r] = Rolled(e, d)[r]
  BY <1>2 DEF Scrolls, Rolled
<1>5. PenKnown(f, s) /\ f.x <= Len(s.lineData) /\ Len(s.lineData) < Len(data)
  BY <1>3, <1>4 DEF PenKnown
<1>6. Remembers(s, u, data, column)
  BY <1>3, SentFromFacts
<1>7. PICK h \in Screen : SameScreen(f, h) /\ LineSent(h, g, s, data)
  BY <1>3, <1>4, <1>5, SentFromFacts DEF f
<1>8. \A w \in BOOLEAN : Seen(e, s, w) => Seen(e, u, w)
  BY <1>3, <1>4, <1>5, SentFromFacts DEF f
<1> HIDE DEF g, n, d
<1>9. /\ g \in Screen /\ g.width = e.width /\ g.y = f.y /\ Position(g) = 0 + (n - 0)
      /\ g.pen = data[Len(data)].color
      /\ \A r \in (0..(Height - 1)) \ {f.y} : g.rows[r] = f.rows[r]
      /\ \A j \in 1..MaxWidth : j > e.width => g.rows[f.y][j] = f.rows[f.y][j]
      /\ \A j \in (0 + 1)..Len(data) : g.rows[f.y][j] = data[j]
  BY <1>3, <1>4, <1>7 DEF SameScreen, LineSent, n
<1>10. /\ u.remoteLine = line /\ u.remoteColumn = n /\ n \in Nat
       /\ u.remoteColor = data[Len(data)].color
  <2>1. u \in Object
    BY <1>6 DEF Remembers, SameModes
  <2> QED BY <1>3, <1>5, <1>6, <2>1, ObjectParts DEF Remembers, n
<1>11. f.y \in 0..(Height - 1) /\ f.y \in Nat /\ e.y \in Nat /\ t.remoteLine \in Int
  BY <1>4, ScreenParts, ObjectParts
<1>12. Shift(t, u, e, g) = d /\ d \in Nat /\ (d = 0 \/ g.y = Height - 1)
  <2>1. PICK a \in Int, b \in Int : a = line - f.y /\ b = t.remoteLine - e.y
    BY <1>11
  <2>2. d = a - b
    BY <2>1 DEF d
  <2>3. Shift(t, u, e, g) = a - b
    BY <1>9, <1>10, <2>1 DEF Shift
  <2>4. b <= a /\ (a = b \/ g.y = Height - 1)
    BY <1>4, <1>9, <2>1
  <2> QED BY <2>1, <2>2, <2>3, <2>4
<1>13. Position(g) = u.remoteColumn
  BY <1>9, <1>10
<1>14. \A j \in 1..e.width : g.rows[g.y][j] = data[j]
  BY <1>9
<1>15. /\ \A r \in (0..(Height - 1)) \ {g.y} : g.rows[r] = Rolled(e, d)[r]
       /\ \A j \in 1..MaxWidth : j > e.width => g.rows[g.y][j] = Rolled(e, d)[g.y][j]
  BY <1>4, <1>9, <1>11
<1>16. Position(g) <= u.remoteColumn
  BY <1>10, <1>13
<1>17. LineShown(t, u, e, g, data)
  BY <1>9, <1>10, <1>12, <1>13, <1>14, <1>15, <1>16 DEF LineShown
<1> QED BY <1>2, <1>8, <1>17 DEF g

\* The object after sendLine.
LineRemembered(t, u, line, data, column) ==
  /\ SameModes(t, u) /\ u.remoteLine = line /\ u.lineDataValid = TRUE
  /\ u.remoteColumn <= Len(data) /\ Len(u.lineData) = u.remoteColumn
  /\ \A i \in 1..u.remoteColumn : u.lineData[i] = data[i]
  /\ ~t.plainMode => KindsOf(u.out) \intersect {"put", "el"} # {}
  /\ ~t.plainMode /\ column # -1 /\ u.remoteColumn > column => u.cursorHidden
  /\ ~t.plainMode /\ t.cursorHidden => u.cursorHidden

\* sendLine: what the object remembers is what the terminal shows.
LEMMA SendLineFacts ==
  ASSUME NEW t \in Object, LineKept(t), t.out = <<>>, NEW line \in Int,
         NEW data \in Seq(Cell), Len(data) > 0, NEW column \in Int,
         NEW u, u = sendLine(t, line, data, column)
  PROVE  /\ LineRemembered(t, u, line, data, column)
         /\ \A e \in Screen :
              ~t.plainMode /\ t.outputColor /\ e.width = Len(data) /\ PenKnown(e, t)
              /\ t.remoteLine - e.y <= line /\ Position(e) <= t.remoteColumn =>
                /\ LineShown(t, u, e, At(e, u), data)
                /\ \A w \in BOOLEAN : Seen(e, t, w) => Seen(e, u, w)
<1>1. PICK s \in Object :
        /\ u = SentFrom(s, data, column)
        /\ Rest(s, data) /\ s.lineDataValid = TRUE /\ s.remoteLine = line
        /\ (s = t /\ GoesOn(t, line, data)) \/ StartsLine(t, s, line)
  BY LineStarts
<1>2. SameModes(t, s)
  <2>1. CASE s = t
    BY <2>1 DEF SameModes
  <2>2. CASE StartsLine(t, s, line)
    BY <2>2 DEF StartsLine, AtStart
  <2> QED BY <1>1, <2>1, <2>2
<1>3. Remembers(s, u, data, column)
  BY <1>1, SentFromFacts
<1>4. LineRemembered(t, u, line, data, column)
  <2>1. ~t.plainMode /\ t.cursorHidden => s.cursorHidden
    BY <1>1 DEF StartsLine, AtStart
  <2> QED BY <1>1, <1>2, <1>3, <2>1 DEF Remembers, SameModes, LineRemembered
<1>5. ASSUME NEW e \in Screen, ~t.plainMode, t.outputColor, e.width = Len(data), PenKnown(e, t),
             t.remoteLine - e.y <= line, Position(e) <= t.remoteColumn
      PROVE  /\ LineShown(t, u, e, At(e, u), data)
             /\ \A w \in BOOLEAN : Seen(e, t, w) => Seen(e, u, w)
  <2>1. CASE s = t /\ GoesOn(t, line, data)
    <3>1. u = SentFrom(t, data, column) /\ Rest(t, data) /\ GoesOn(t, line, data)
      BY <1>1, <2>1
    <3> QED BY <1>5, <3>1, GoesOnShown
  <2>2. CASE StartsLine(t, s, line)
    BY <1>1, <1>5, <2>2, StartedShown
  <2> QED BY <1>1, <2>1, <2>2
<1> QED BY <1>4, <1>5

\* The object after the cursor has been placed, and the terminal.
LEMMA PlaceFacts ==
  ASSUME NEW t \in Object, LineKept(t), NEW column \in Nat, NEW u, u = PlaceCursor(t, column)
  PROVE  /\ SameModes(t, u) /\ u.remoteLine = t.remoteLine /\ u.remoteColumn = column
         /\ LineKept(u) /\ u.cursorHidden = t.cursorHidden /\ u.remoteColor = t.remoteColor
         /\ KindsOf(u.out) \subseteq KindsOf(t.out) \union {"col"}
         /\ (u = t \/ ("col" \in KindsOf(u.out) /\ (u.lineDataValid => column = 0)))
         /\ \A e \in Screen :
              column < At(e, t).width =>
                u = t \/ Becomes(At(e, u), At(e, t).rows, At(e, t).width, column, At(e, t).y, FALSE,
                                 At(e, t).pen, At(e, t).visible)
<1>1. CASE t.remoteColumn = column
  <2>1. u = t
    BY <1>1 DEF PlaceCursor
  <2>2. SameModes(t, t) /\ KindsOf(t.out) \subseteq KindsOf(t.out) \union {"col"}
    BY DEF SameModes
  <2>3. u.remoteLine = t.remoteLine /\ u.remoteColumn = column /\ LineKept(u)
        /\ u.cursorHidden = t.cursorHidden /\ u.remoteColor = t.remoteColor
    BY <1>1, <2>1
  <2>4. SameModes(t, u) /\ KindsOf(u.out) \subseteq KindsOf(t.out) \union {"col"}
    BY <2>1, <2>2
  <2> QED BY <2>1, <2>3, <2>4
<1>2. CASE t.remoteColumn # column
  <2> DEFINE v == Write(t, <<<<"col", column + 1>>>>)
  <2>1. u = [v EXCEPT !.lineDataValid = (column = 0), !.lineData = <<>>, !.remoteColumn = column]
    BY <1>2 DEF PlaceCursor
  <2>2. column + 1 \in Nat
    OBVIOUS
  <2> DEFINE col == <<"col", column + 1>>
  <2>11. col \in Command /\ col[1] = "col"
    BY <2>2, Commands
  <2>3. PICK c \in Seq(Command) : c = <<col>>
    <3> HIDE DEF col
    <3>1. <<col>> \in Seq(Command)
      BY <2>11
    <3> QED BY <3>1
  <2>4. v = Write(t, c)
    BY <2>3
  <2> HIDE DEF v
  <2>5. /\ v \in Object /\ v.out = t.out \o c
        /\ v.plainMode = t.plainMode /\ v.outputColor = t.outputColor
        /\ v.remoteLine = t.remoteLine
        /\ v.cursorHidden = t.cursorHidden /\ v.remoteColor = t.remoteColor
    BY <2>4, WriteFacts
  <2>6. <<>> \in Seq(Cell) /\ (column = 0) \in BOOLEAN /\ Len(<<>>) = 0
    OBVIOUS
  <2>7. /\ u \in Object /\ u.out = v.out /\ u.remoteLine = v.remoteLine
        /\ u.plainMode = v.plainMode /\ u.outputColor = v.outputColor
        /\ u.cursorHidden = v.cursorHidden /\ u.remoteColor = v.remoteColor
        /\ u.lineDataValid = (column = 0) /\ u.lineData = <<>> /\ u.remoteColumn = column
    BY <2>1, <2>5, <2>6 DEF Object
  <2>8. KindsOf(u.out) = KindsOf(t.out) \union {"col"}
    <3>1. KindsOf(t.out \o c) = KindsOf(t.out) \union KindsOf(c)
      BY KindsConcat, ObjectParts
    <3>2. KindsOf(c) = {"col"}
      <4> HIDE DEF col
      <4> QED BY <2>3, <2>11, KindsConcat
    <3> QED BY <2>5, <2>7, <3>1, <3>2
  <2>9. ASSUME NEW e \in Screen, column < At(e, t).width
        PROVE  Becomes(At(e, u), At(e, t).rows, At(e, t).width, column, At(e, t).y, FALSE,
                       At(e, t).pen, At(e, t).visible)
    <3> DEFINE f == At(e, t)
    <3>1. f \in Screen
      BY ObjectParts, RunFacts DEF At
    <3>2. At(e, u) = Run(f, c)
      <4>1. u.out = t.out \o c /\ t.out \in Seq(Command)
        BY <2>5, <2>7, ObjectParts
      <4>2. Run(e, t.out \o c) = Run(Run(e, t.out), c)
        BY <4>1, RunFacts
      <4> QED BY <4>1, <4>2 DEF At
    <3>5. column < f.width
      BY <2>9
    <3> HIDE DEF f
    <3>3. Run(f, c) = Emulate(f, col)
      <4> HIDE DEF col
      <4> QED BY <2>3, <2>11, <3>1, RunFacts
    <3>4. Becomes(Emulate(f, col), f.rows, f.width, ColumnOf(f, column + 1), f.y, FALSE, f.pen, f.visible)
      BY <2>2, <3>1, TakesColumn
    <3>6. ColumnOf(f, column + 1) = column
      <4>1. f.width \in Nat
        BY <3>1, ScreenParts, ScreenNumbers
      <4> QED BY <3>5, <4>1 DEF ColumnOf
    <3>7. Becomes(At(e, u), f.rows, f.width, column, f.y, FALSE, f.pen, f.visible)
      BY <3>2, <3>3, <3>4, <3>6
    <3> QED BY <3>7 DEF f
  <2>10. SameModes(t, u)
    BY <2>5, <2>7, <2>8 DEF SameModes
  <2> QED BY <2>5, <2>6, <2>7, <2>8, <2>9, <2>10 DEF LineKept
<1> QED BY <1>1, <1>2

\* The cursor is shown after what has been written.
ShowCursor(t) ==
  IF t.cursorHidden THEN [Write(t, <<<<"show">>>>) EXCEPT !.cursorHidden = FALSE] ELSE t

\* Showing the cursor changes nothing else.
LEMMA ShowFacts ==
  ASSUME NEW t \in Object, NEW u, u = ShowCursor(t)
  PROVE  /\ SameModes(t, u) /\ u.remoteLine = t.remoteLine /\ u.remoteColumn = t.remoteColumn
         /\ u.lineDataValid = t.lineDataValid /\ u.lineData = t.lineData
         /\ u.remoteColor = t.remoteColor /\ u.cursorHidden = FALSE
         /\ KindsOf(u.out) \subseteq KindsOf(t.out) \union {"show"}
         /\ \A e \in Screen : /\ SameScreen(At(e, t), At(e, u))
                              /\ \A w \in BOOLEAN : Seen(e, t, w) => Seen(e, u, w)
<1>1. CASE ~t.cursorHidden
  <2>1. u = t
    BY <1>1 DEF ShowCursor
  <2>2. \A e \in Screen : At(e, t) \in Screen
    BY RunFacts, ObjectParts DEF At
  <2>3. \A e \in Screen : SameScreen(At(e, t), At(e, t))
    BY <2>2 DEF SameScreen
  <2>4. SameModes(t, t) /\ KindsOf(t.out) \subseteq KindsOf(t.out) \union {"show"}
    BY DEF SameModes
  <2>5. t.cursorHidden = FALSE
    BY <1>1, ObjectParts
  <2> QED BY <2>1, <2>3, <2>4, <2>5
<1>2. CASE t.cursorHidden
  <2> DEFINE v == Write(t, <<<<"show">>>>)
  <2>1. u = [v EXCEPT !.cursorHidden = FALSE]
    BY <1>2 DEF ShowCursor
  <2>2. PICK c \in Seq(Command) : c = <<<<"show">>>>
    <3>1. <<<<"show">>>> \in Seq(Command)
      BY Commands
    <3> QED BY <3>1
  <2>3. v = Write(t, c)
    BY <2>2
  <2> HIDE DEF v
  <2>4. /\ v \in Object /\ v.out = t.out \o c
        /\ v.plainMode = t.plainMode /\ v.outputColor = t.outputColor
        /\ v.remoteLine = t.remoteLine /\ v.remoteColumn = t.remoteColumn
        /\ v.lineDataValid = t.lineDataValid /\ v.lineData = t.lineData
        /\ v.remoteColor = t.remoteColor
    BY <2>3, WriteFacts
  <2>5. /\ u \in Object /\ u.out = v.out /\ u.cursorHidden = FALSE
        /\ u.plainMode = v.plainMode /\ u.outputColor = v.outputColor
        /\ u.remoteLine = v.remoteLine /\ u.remoteColumn = v.remoteColumn
        /\ u.lineDataValid = v.lineDataValid /\ u.lineData = v.lineData
        /\ u.remoteColor = v.remoteColor
    BY <2>1, <2>4 DEF Object
  <2>6. KindsOf(u.out) = KindsOf(t.out) \union {"show"}
    <3>1. KindsOf(t.out \o c) = KindsOf(t.out) \union KindsOf(c)
      BY KindsConcat, ObjectParts
    <3>2. KindsOf(c) = {"show"}
      BY <2>2, Commands, KindsConcat
    <3> QED BY <2>4, <2>5, <3>1, <3>2
  <2>7. ASSUME NEW e \in Screen
        PROVE  SameScreen(At(e, t), At(e, u)) /\ At(e, u).visible = TRUE
    <3>1. u.out = t.out \o c /\ t.out \in Seq(Command)
      BY <2>4, <2>5, ObjectParts
    <3>2. Run(e, t.out \o c) = Run(Run(e, t.out), c) /\ Run(e, t.out) \in Screen
      BY <3>1, RunFacts
    <3>3. At(e, u) = Emulate(At(e, t), <<"show">>) /\ At(e, t) \in Screen
      BY <2>2, <3>1, <3>2, Commands, RunFacts DEF At
    <3> QED BY <3>3, ShowsCursor DEF Becomes, SameScreen
  <2>8. SameModes(t, u)
    BY <2>4, <2>5, <2>6 DEF SameModes
  <2>9. \A e \in Screen, w \in BOOLEAN : Seen(e, u, w)
    BY <2>5, <2>7 DEF Seen
  <2> QED BY <2>4, <2>5, <2>6, <2>7, <2>8, <2>9
<1> QED BY <1>1, <1>2

\* The terminal after the cursor has been placed on another line, or on this one.
CursorMoved(t, u, e, g) ==
  /\ g \in Screen /\ g.width = e.width /\ g.pen = e.pen /\ Position(g) <= u.remoteColumn
  /\ Shift(t, u, e, g) \in Nat /\ (Shift(t, u, e, g) = 0 \/ g.y = Height - 1)
  /\ \A r \in 0..(Height - 1) : g.rows[r] = Rolled(e, Shift(t, u, e, g))[r]
  /\ Known(t, e) \/ KindsOf(u.out) \intersect {"cr", "col"} # {} => Known(u, g)

\* The object after that.
CursorKept(t, u, line) ==
  /\ SameModes(t, u) /\ u.remoteLine = line /\ u.remoteColor = t.remoteColor /\ LineKept(u)
  /\ KindsOf(u.out) \intersect {"put", "el"} = {}

\* What has not scrolled is where it was.
LEMMA RolledNot ==
  ASSUME NEW e \in Screen
  PROVE  \A r \in 0..(Height - 1) : Rolled(e, 0)[r] = e.rows[r]
<1>1. \A r \in 0..(Height - 1) : r + 0 = r /\ r < Height
  BY ScreenNumbers
<1> QED BY <1>1 DEF Rolled

\* Going to a line, which may be the one it is on.
LEMMA MoveTo ==
  ASSUME NEW t \in Object, LineKept(t), t.out = <<>>, NEW line \in Int,
         NEW u, u = moveTerminalToLine(t, line)
  PROVE  /\ CursorKept(t, u, line) /\ (u.remoteColumn = t.remoteColumn \/ u.remoteColumn = 0)
         /\ \A e \in Screen :
              ~t.plainMode /\ t.remoteLine - e.y <= line /\ Position(e) <= t.remoteColumn =>
                /\ CursorMoved(t, u, e, At(e, u))
                /\ \A w \in BOOLEAN : Seen(e, t, w) => Seen(e, u, w)
<1>1. \A e \in Screen : At(e, t) = e
  BY RunFacts DEF At
<1>2. CASE line = t.remoteLine
  <2>1. u = t
    BY <1>2 DEF moveTerminalToLine
  <2>2. KindsOf(t.out) = {}
    BY KindsConcat
  <2>3. CursorKept(t, t, line)
    BY <1>2, <2>2 DEF CursorKept, SameModes
  <2>4. ASSUME NEW e \in Screen, Position(e) <= t.remoteColumn
        PROVE  CursorMoved(t, t, e, e)
    <3>1. Shift(t, t, e, e) = 0
      <4>1. e.y \in Nat /\ t.remoteLine \in Int
        BY ScreenParts, ObjectParts
      <4> QED BY <4>1 DEF Shift
    <3> QED BY <2>2, <2>4, <3>1, RolledNot DEF CursorMoved
  <2>5. u.remoteColumn = t.remoteColumn
    BY <2>1
  <2> QED BY <1>1, <2>1, <2>3, <2>4, <2>5
<1>3. CASE line # t.remoteLine
  <2>1. /\ AtStart(t, u) /\ u.remoteLine = line
        /\ ~t.plainMode => \A e \in Screen :
              t.remoteLine - At(e, t).y <= line =>
                /\ Scrolls(At(e, t), At(e, u), t.remoteLine, line)
                /\ \A w \in BOOLEAN : Seen(e, t, w) => Seen(e, u, w)
    BY <1>3, MoveFacts
  <2>2. /\ SameModes(t, u) /\ u.remoteColor = t.remoteColor /\ u.remoteColumn = 0 /\ Len(u.lineData) = 0
    BY <2>1 DEF AtStart
  <2>3. CursorKept(t, u, line)
    <3>1. KindsOf(u.out) \subseteq KindsOf(t.out) \union {"hide", "cr", "lf", "up"}
      BY <1>3, MoveFacts
    <3>2. KindsOf(t.out) = {}
      BY KindsConcat
    <3> QED BY <2>1, <2>2, <3>1, <3>2 DEF CursorKept, LineKept
  <2>4. ASSUME NEW e \in Screen, ~t.plainMode, t.remoteLine - e.y <= line
        PROVE  CursorMoved(t, u, e, At(e, u)) /\ \A w \in BOOLEAN : Seen(e, t, w) => Seen(e, u, w)
    <3> DEFINE g == At(e, u)
    <3>1. Scrolls(e, g, t.remoteLine, line) /\ \A w \in BOOLEAN : Seen(e, t, w) => Seen(e, u, w)
      BY <1>1, <2>1, <2>4
    <3> HIDE DEF g
    <3>2. /\ g \in Screen /\ g.width = e.width /\ g.pen = e.pen /\ g.x = 0 /\ ~g.wrap
          /\ t.remoteLine - e.y <= line - g.y
          /\ (line - g.y = t.remoteLine - e.y \/ g.y = Height - 1)
          /\ \A r \in 0..(Height - 1) :
               g.rows[r] = Rolled(e, (line - g.y) - (t.remoteLine - e.y))[r]
      BY <3>1 DEF Scrolls, Rolled
    <3>3. g.y \in Nat /\ e.y \in Nat /\ t.remoteLine \in Int
      BY <3>2, ScreenParts, ObjectParts
    <3> DEFINE d == (line - g.y) - (t.remoteLine - e.y)
    <3>4. d \in Nat /\ (d = 0 \/ g.y = Height - 1)
      BY <3>2, <3>3
    <3>5. Shift(t, u, e, g) = d
      BY <2>1 DEF Shift
    <3>6. Position(g) = 0
      BY <3>2 DEF Position
    <3>7. Known(u, g) /\ Position(g) <= u.remoteColumn
      BY <2>2, <3>6 DEF Known
    <3>8. \A r \in 0..(Height - 1) : g.rows[r] = Rolled(e, d)[r]
      BY <3>2
    <3> HIDE DEF d
    <3>9. CursorMoved(t, u, e, g)
      BY <3>2, <3>4, <3>5, <3>7, <3>8 DEF CursorMoved
    <3> QED BY <3>1, <3>9 DEF g
  <2> QED BY <2>2, <2>3, <2>4
<1> QED BY <1>2, <1>3

\* The object after showTerminalCursor.
CursorSet(t, u, line, column) ==
  /\ CursorKept(t, u, line)
  /\ t.plainMode => u.remoteColumn = t.remoteColumn \/ u.remoteColumn = 0
  /\ ~t.plainMode => u.remoteColumn = column /\ u.cursorHidden = FALSE

\* showTerminalCursor: the object and the terminal.
LEMMA ShowCursorFacts ==
  ASSUME NEW t \in Object, LineKept(t), t.out = <<>>, NEW line \in Int, NEW column \in Nat,
         NEW u, u = showTerminalCursor(t, column, line)
  PROVE  /\ CursorSet(t, u, line, column)
         /\ \A e \in Screen :
              ~t.plainMode /\ t.remoteLine - e.y <= line /\ Position(e) <= t.remoteColumn
              /\ column < e.width =>
                /\ CursorMoved(t, u, e, At(e, u))
                /\ \A w \in BOOLEAN : Seen(e, t, w) => Seen(e, u, w)
<1> DEFINE m == moveTerminalToLine(t, line)
           p == PlaceCursor(m, column)
           z == ShowCursor(p)
<1>1. u = IF t.plainMode THEN m ELSE z
  <2>1. m.plainMode = t.plainMode
    BY MoveTo DEF CursorKept, SameModes
  <2> QED BY <2>1 DEF showTerminalCursor, ShowCursor
<1>2. /\ CursorKept(t, m, line) /\ (m.remoteColumn = t.remoteColumn \/ m.remoteColumn = 0)
      /\ \A e \in Screen :
              ~t.plainMode /\ t.remoteLine - e.y <= line /\ Position(e) <= t.remoteColumn =>
                /\ CursorMoved(t, m, e, At(e, m))
                /\ \A w \in BOOLEAN : Seen(e, t, w) => Seen(e, m, w)
  BY MoveTo
<1> HIDE DEF m
<1>3. m \in Object /\ LineKept(m)
  BY <1>2 DEF CursorKept, SameModes
<1>4. /\ SameModes(m, p) /\ p.remoteLine = m.remoteLine /\ p.remoteColumn = column
      /\ LineKept(p) /\ p.cursorHidden = m.cursorHidden /\ p.remoteColor = m.remoteColor
      /\ KindsOf(p.out) \subseteq KindsOf(m.out) \union {"col"}
      /\ (p = m \/ ("col" \in KindsOf(p.out) /\ (p.lineDataValid => column = 0)))
      /\ \A e \in Screen :
           column < At(e, m).width =>
             p = m \/ Becomes(At(e, p), At(e, m).rows, At(e, m).width, column, At(e, m).y, FALSE,
                              At(e, m).pen, At(e, m).visible)
  BY <1>3, PlaceFacts
<1> HIDE DEF p
<1>5. p \in Object
  BY <1>4 DEF SameModes
<1>6. /\ SameModes(p, z) /\ z.remoteLine = p.remoteLine /\ z.remoteColumn = p.remoteColumn
      /\ z.lineDataValid = p.lineDataValid /\ z.lineData = p.lineData
      /\ z.remoteColor = p.remoteColor /\ z.cursorHidden = FALSE
      /\ KindsOf(z.out) \subseteq KindsOf(p.out) \union {"show"}
      /\ \A e \in Screen : /\ SameScreen(At(e, p), At(e, z))
                           /\ \A w \in BOOLEAN : Seen(e, p, w) => Seen(e, z, w)
  BY <1>5, ShowFacts
<1> HIDE DEF z
<1>7. CASE t.plainMode
  <2>1. CursorSet(t, u, line, column)
    BY <1>1, <1>2, <1>7 DEF CursorSet
  <2> QED BY <1>7, <2>1
<1>8. CASE ~t.plainMode
  <2>1. u = z
    BY <1>1, <1>8
  <2>2. CursorKept(t, z, line)
    <3>1. SameModes(t, z)
      BY <1>2, <1>4, <1>6 DEF CursorKept, SameModes
    <3>2. KindsOf(z.out) \intersect {"put", "el"} = {}
      BY <1>2, <1>4, <1>6 DEF CursorKept
    <3>3. LineKept(z)
      BY <1>4, <1>6 DEF LineKept
    <3> QED BY <1>2, <1>4, <1>6, <3>1, <3>2, <3>3 DEF CursorKept
  <2>3. ASSUME NEW e \in Screen, t.remoteLine - e.y <= line, Position(e) <= t.remoteColumn,
               column < e.width
        PROVE  CursorMoved(t, z, e, At(e, z)) /\ \A w \in BOOLEAN : Seen(e, t, w) => Seen(e, z, w)
    <3> DEFINE f == At(e, m)
               g == At(e, p)
               h == At(e, z)
    <3>1. CursorMoved(t, m, e, f) /\ \A w \in BOOLEAN : Seen(e, t, w) => Seen(e, m, w)
      BY <1>2, <1>8, <2>3
    <3>2. column < f.width
      BY <2>3, <3>1 DEF CursorMoved
    <3>3. p = m \/ Becomes(g, f.rows, f.width, column, f.y, FALSE, f.pen, f.visible)
      BY <1>4, <3>2
    <3>4. p = m => g = f
      OBVIOUS
    <3>5. SameScreen(g, h) /\ \A w \in BOOLEAN : Seen(e, p, w) => Seen(e, z, w)
      BY <1>6
    <3>6. \A w \in BOOLEAN : Seen(e, m, w) => Seen(e, p, w)
      <4>1. g.visible = f.visible
        <5> HIDE DEF f, g
        <5> QED BY <3>3, <3>4 DEF Becomes
      <4>2. p.cursorHidden = m.cursorHidden
        BY <1>4
      <4>3. "hide" \in KindsOf(p.out) => "hide" \in KindsOf(m.out)
        BY <1>4
      <4> QED BY <4>1, <4>2, <4>3 DEF Seen
    <3> HIDE DEF f, g, h
    <3>7. CASE p = m
      <4>1. /\ h \in Screen /\ h.rows = f.rows /\ h.width = f.width /\ h.x = f.x /\ h.y = f.y
            /\ h.wrap = f.wrap /\ h.pen = f.pen
        BY <3>4, <3>5, <3>7 DEF SameScreen
      <4>2. Position(h) = Position(f) /\ Shift(t, z, e, h) = Shift(t, m, e, f)
        BY <1>4, <1>6, <4>1 DEF Position, Shift
      <4>3. Known(m, f) => Known(z, h)
        BY <1>4, <1>6, <3>7, <4>1, <4>2 DEF Known
      <4>4. KindsOf(z.out) \intersect {"cr", "col"} # {} => KindsOf(m.out) \intersect {"cr", "col"} # {}
        BY <1>6, <3>7
      <4>5. z.remoteColumn = m.remoteColumn
        BY <1>6, <3>7
      <4>6. CursorMoved(t, z, e, h)
        BY <3>1, <4>1, <4>2, <4>3, <4>4, <4>5 DEF CursorMoved
      <4> QED BY <3>1, <3>5, <3>6, <4>6 DEF h
    <3>8. CASE p # m
      <4>1. /\ h \in Screen /\ h.rows = f.rows /\ h.width = f.width /\ h.x = column /\ h.y = f.y
            /\ ~h.wrap /\ h.pen = f.pen
        BY <3>3, <3>5, <3>8 DEF SameScreen, Becomes
      <4>2. Position(h) = column /\ Shift(t, z, e, h) = Shift(t, m, e, f)
        BY <1>4, <1>6, <4>1 DEF Position, Shift
      <4>3. z.remoteColumn = column /\ (z.lineDataValid => column = 0)
        BY <1>4, <1>6, <3>8
      <4>4. Known(z, h)
        BY <4>2, <4>3 DEF Known
      <4>6. CursorMoved(t, z, e, h)
        BY <3>1, <4>1, <4>2, <4>3, <4>4 DEF CursorMoved
      <4> QED BY <3>1, <3>5, <3>6, <4>6 DEF h
    <3> QED BY <3>7, <3>8
  <2>4. CursorSet(t, u, line, column)
    BY <1>4, <1>6, <1>8, <2>1, <2>2 DEF CursorSet
  <2> QED BY <2>1, <2>3, <2>4
<1> QED BY <1>7, <1>8

\* The object after a reset, and the terminal.

\* What a reset leaves of an object, and of the terminal.
Forgotten(t, u, line) ==
  /\ u \in Object /\ u.plainMode = t.plainMode /\ u.outputColor = t.outputColor
  /\ u.remoteLine = line /\ u.remoteColumn = 0 /\ u.lineData = <<>> /\ u.cursorHidden = FALSE
  /\ u.remoteColor = NoColor /\ u.lineDataValid = t.lineDataValid
  /\ \A e \in Screen : ~t.plainMode =>
       Becomes(Run(e, u.out), [r \in 0..(Height - 1) |-> BlankLine(Default)], e.width, 0, 0,
               FALSE, Default, e.visible)

\* reset clears the screen.
LEMMA ResetFacts ==
  ASSUME NEW t \in Object, t.out = <<>>, NEW line \in Int, NEW u, u = reset(t, TRUE, line)
  PROVE  Forgotten(t, u, line)
<1> DEFINE v == IF TRUE /\ ~t.plainMode THEN Write(t, <<<<"sgr", Default>>, <<"home">>, <<"ed">>>>) ELSE t
           sgr == <<"sgr", Default>>
           home == <<"home">>
           ed == <<"ed">>
<1>1. u = [v EXCEPT !.remoteLine = line, !.remoteColumn = 0, !.lineData = <<>>,
                    !.cursorHidden = FALSE, !.remoteColor = NoColor]
  BY DEF reset
<1>2. sgr \in Command /\ home \in Command /\ ed \in Command /\ Default \in Colors
  BY EmulatorAssumption, Commands
<1>3. v \in Object /\ v.plainMode = t.plainMode /\ v.outputColor = t.outputColor
      /\ v.lineDataValid = t.lineDataValid
      /\ (~t.plainMode => v.out = <<sgr, home, ed>>)
  <2>1. CASE t.plainMode
    BY <2>1
  <2>2. CASE ~t.plainMode
    <3>1. v = Write(t, <<sgr, home, ed>>)
      BY <2>2
    <3> HIDE DEF v, sgr, home, ed
    <3>2. <<sgr, home, ed>> \in Seq(Command)
      BY <1>2
    <3>3. PICK c \in Seq(Command) : c = <<sgr, home, ed>>
      BY <3>2
    <3>4. v \in Object /\ v.out = t.out \o c /\ v.plainMode = t.plainMode
          /\ v.outputColor = t.outputColor /\ v.lineDataValid = t.lineDataValid
      BY <3>1, <3>3, WriteFacts
    <3>5. t.out \o c = c
      BY ObjectParts
    <3> QED BY <3>3, <3>4, <3>5
  <2> QED BY <2>1, <2>2
<1> HIDE DEF v
<1>4. <<>> \in Seq(Cell) /\ 0 \in Nat /\ FALSE \in BOOLEAN
  OBVIOUS
<1>5. /\ u \in Object /\ u.plainMode = t.plainMode /\ u.outputColor = t.outputColor
      /\ u.remoteLine = line /\ u.remoteColumn = 0 /\ u.lineData = <<>> /\ u.cursorHidden = FALSE
      /\ u.remoteColor = NoColor /\ u.lineDataValid = t.lineDataValid /\ u.out = v.out
  BY <1>1, <1>3, <1>4 DEF Object
<1>6. ASSUME NEW e \in Screen, ~t.plainMode
      PROVE  Becomes(Run(e, u.out), [r \in 0..(Height - 1) |-> BlankLine(Default)], e.width, 0, 0,
                     FALSE, Default, e.visible)
  <2>1. u.out = <<sgr, home, ed>>
    BY <1>3, <1>5, <1>6
  <2> DEFINE f == Emulate(e, sgr)
             g == Emulate(f, home)
             h == Emulate(g, ed)
  <2>2. Becomes(f, e.rows, e.width, e.x, e.y, e.wrap, Default, e.visible)
    BY <1>2, TakesPen
  <2>3. f \in Screen /\ f.pen = Default /\ f.width = e.width /\ f.visible = e.visible
    BY <2>2 DEF Becomes
  <2>10. e.visible \in BOOLEAN
    BY ScreenParts
  <2> HIDE DEF f
  <2>4. Becomes(g, f.rows, f.width, 0, 0, FALSE, f.pen, f.visible)
    BY <2>3, GoesHome
  <2>5. g \in Screen /\ g.pen = Default /\ g.width = e.width /\ g.visible = e.visible /\ g.x = 0 /\ g.y = 0
    BY <2>3, <2>4 DEF Becomes
  <2> HIDE DEF g
  <2>6. Becomes(h, [r \in 0..(Height - 1) |-> BlankLine(g.pen)], g.width, g.x, g.y, FALSE, g.pen, g.visible)
    BY <2>5, Erases
  <2>7. Run(e, u.out) = h
    <3> HIDE DEF sgr, home, ed, h
    <3>1. <<sgr>> \in Seq(Command) /\ <<home>> \in Seq(Command) /\ <<ed>> \in Seq(Command)
          /\ <<sgr, home>> \in Seq(Command) /\ <<sgr, home, ed>> \in Seq(Command)
      BY <1>2
    <3>2. PICK a \in Seq(Command), b \in Seq(Command), c \in Seq(Command), d \in Seq(Command) :
            a = <<sgr>> /\ b = <<home>> /\ c = <<ed>> /\ d = <<sgr, home>>
      BY <3>1
    <3>3. d = a \o b
      BY <1>2, <3>2, TwoCommands
    <3>4. <<sgr, home, ed>> = d \o c
      BY <1>2, <3>2
    <3>5. Run(e, d \o c) = Run(Run(e, d), c) /\ Run(e, d) = Run(Run(e, a), b)
      BY <3>3, RunFacts
    <3>6. Run(e, a) = f /\ Run(f, b) = g /\ Run(g, c) = h
      BY <1>2, <2>3, <2>5, <3>2, RunFacts DEF f, g, h
    <3> QED BY <2>1, <3>4, <3>5, <3>6
  <2>8. Becomes(h, [r \in 0..(Height - 1) |-> BlankLine(Default)], e.width, 0, 0, FALSE, Default, e.visible)
    BY <2>5, <2>6
  <2> QED BY <2>7, <2>8
<1> QED BY <1>5, <1>6 DEF Forgotten

----------------------------------------------------------------------------
(***************************************************************************)
(* Types.                                                                  *)
(***************************************************************************)
ObjectInv ==
  /\ term \in Object /\ term.out = <<>> /\ LineKept(term)
  /\ term.remoteLine \in 0..MaxLine /\ term.remoteColumn <= MaxWidth
  /\ term.outputColor = (~term.plainMode \/ ColorEscapes)

StateInv ==
  /\ screen \in Screen
  /\ top \in 0..MaxLine /\ dirty \in -1..MaxLine /\ cursor \in Cursors
  /\ todo \subseteq 0..MaxLine /\ phase \in {"idle", "scraping"}
  /\ direct \in BOOLEAN /\ modified \in BOOLEAN /\ fresh \in BOOLEAN /\ wasReset \in BOOLEAN
  /\ astray \in {"no", "cursor", "text"} /\ resizes \in 0..MaxResizes
  /\ resizes = 0 => screen.width = MaxWidth

\* What is remembered of a line.
Remembered == {o \in [length : Nat, data : Seq(Cell)] :
                 o.length > 0 /\ o.length <= Len(o.data) /\ Len(o.data) <= MaxWidth}

BufferInv == \A l \in DOMAIN buffer : l \in 0..MaxLine /\ buffer[l] \in Remembered

\* A scrape looks at the lines of its window, and of the last one.
ScrapeInv ==
  /\ Bottom(top) <= MaxLine /\ \A l \in todo : l <= Bottom(top)
  /\ phase = "scraping" /\ cursor # NoCursor =>
       cursor.column < screen.width /\ cursor.line \in top..Bottom(top)
  /\ phase = "idle" => todo = {}
  /\ fresh => DOMAIN buffer = {} /\ phase = "idle"

Types == ObjectInv /\ StateInv /\ BufferInv /\ ScrapeInv

\* A line of the console.
LEMMA LineDataFacts ==
  ASSUME screen \in Screen, NEW data \in LineData
  PROVE  data \in Seq(Cell) /\ Len(data) = screen.width /\ Len(data) \in 1..MaxWidth
<1>1. screen.width \in Nat /\ screen.width > 0 /\ screen.width <= MaxWidth /\ MaxWidth \in Nat
  BY ScreenParts, ScreenNumbers
<1>2. data \in [1..screen.width -> Cell]
  <2>1. Default \in Colors
    BY EmulatorAssumption
  <2> QED BY <2>1 DEF LineData, Cell
<1>3. data \in Seq(Cell) /\ Len(data) = screen.width
  BY <1>1, <1>2
<1> QED BY <1>1, <1>3

\* What a line becomes when it has been scraped.
LEMMA SetLineFacts ==
  ASSUME NEW o, o = NoLine \/ o \in Remembered, NEW data \in Seq(Cell), Len(data) \in 1..MaxWidth
  PROVE  /\ setLine(o, data) \in Remembered /\ setLine(o, data).length = Len(data)
         /\ Len(setLine(o, data).data) = IF Len(o.data) < Len(data) THEN Len(data) ELSE Len(o.data)
         /\ \A i \in 1..Len(data) : setLine(o, data).data[i] = data[i]
         /\ \A i \in (Len(data) + 1)..Len(o.data) : setLine(o, data).data[i] = o.data[i]
<1> DEFINE size == IF Len(o.data) < Len(data) THEN Len(data) ELSE Len(o.data)
           cells == [i \in 1..size |-> IF i <= Len(data) THEN data[i] ELSE o.data[i]]
<1>1. o.data \in Seq(Cell) /\ Len(o.data) \in Nat /\ Len(o.data) <= MaxWidth
  <2>1. CASE o = NoLine
    <3>1. o.data = <<>> /\ <<>> \in Seq(Cell) /\ Len(<<>>) = 0
      BY <2>1 DEF NoLine
    <3>2. 0 <= MaxWidth
      BY ScreenNumbers
    <3> QED BY <3>1, <3>2
  <2>2. CASE o \in Remembered
    BY <2>2 DEF Remembered
  <2> QED BY <2>1, <2>2
<1>2. Len(data) \in Nat /\ Len(data) > 0 /\ Len(data) <= MaxWidth
  BY ScreenNumbers
<1>3. size \in Nat /\ size <= MaxWidth /\ size >= Len(data) /\ size >= Len(o.data)
  BY <1>1, <1>2
<1>4. setLine(o, data) = [length |-> Len(data), data |-> cells]
  BY DEF setLine
<1>5. \A i \in 1..size : (IF i <= Len(data) THEN data[i] ELSE o.data[i]) \in Cell
  <2>1. ASSUME NEW i \in 1..size PROVE (IF i <= Len(data) THEN data[i] ELSE o.data[i]) \in Cell
    <3>1. CASE i <= Len(data)
      <4>1. i \in 1..Len(data)
        BY <1>2, <1>3, <3>1
      <4> QED BY <3>1, <4>1
    <3>2. CASE ~(i <= Len(data))
      <4>1. i \in 1..Len(o.data)
        BY <1>1, <1>2, <1>3, <3>2
      <4> QED BY <1>1, <3>2, <4>1
    <3> QED BY <3>1, <3>2
  <2> QED BY <2>1
<1>6. cells \in Seq(Cell) /\ Len(cells) = size
  <2>1. cells \in [1..size -> Cell]
    BY <1>5
  <2> HIDE DEF cells, size
  <2> QED BY <1>3, <2>1
<1>7. \A i \in 1..size : cells[i] = IF i <= Len(data) THEN data[i] ELSE o.data[i]
  OBVIOUS
<1>8. \A i \in 1..Len(data) : i \in 1..size /\ i <= Len(data)
  BY <1>2, <1>3
<1>9. \A i \in (Len(data) + 1)..Len(o.data) : i \in 1..size /\ ~(i <= Len(data))
  BY <1>1, <1>2, <1>3
<1>11. size = IF Len(o.data) < Len(data) THEN Len(data) ELSE Len(o.data)
  OBVIOUS
<1> HIDE DEF cells, size
<1>10. [length |-> Len(data), data |-> cells] \in Remembered
  BY <1>2, <1>3, <1>6 DEF Remembered
<1> QED BY <1>4, <1>6, <1>7, <1>8, <1>9, <1>10, <1>11

\* A call of the object, that writes to the terminal.
LEMMA CallFacts ==
  ASSUME ObjectInv, screen \in Screen, NEW u \in Object, Output(u)
  PROVE  /\ term' \in Object /\ term'.out = <<>> /\ screen' = At(screen, u) /\ screen' \in Screen
         /\ term'.plainMode = u.plainMode /\ term'.outputColor = u.outputColor
         /\ term'.remoteLine = u.remoteLine /\ term'.remoteColumn = u.remoteColumn
         /\ term'.lineDataValid = u.lineDataValid /\ term'.lineData = u.lineData
         /\ term'.cursorHidden = u.cursorHidden /\ term'.remoteColor = u.remoteColor
         /\ screen'.width = screen.width
<1>1. <<>> \in Seq(Command)
  OBVIOUS
<1>2. term' = [u EXCEPT !.out = <<>>] /\ screen' = Run(screen, u.out)
  BY DEF Output
<1>3. screen' \in Screen /\ screen' = At(screen, u) /\ screen'.width = screen.width
  BY <1>2, ObjectParts, RunFacts, RunWidth DEF At
<1> QED BY <1>1, <1>2, <1>3 DEF Object

\* The terminal there is at first.
LEMMA NewTerminalType == NewTerminal \in Screen
<1>1. Default \in Colors
  BY EmulatorAssumption
<1> DEFINE rows == [r \in 0..(Height - 1) |-> BlankLine(Default)]
<1>2. rows \in Rows
  <2>1. BlankLine(Default) \in [1..MaxWidth -> Cell]
    BY <1>1, BlankRow
  <2> QED BY <2>1 DEF Rows
<1>3. MaxWidth \in Widths /\ 0 \in Nat /\ 0 < MaxWidth /\ 0 \in 0..(Height - 1)
      /\ FALSE \in BOOLEAN /\ TRUE \in BOOLEAN /\ {} \in SUBSET {"color", "control"}
  BY EmulatorAssumption, ScreenNumbers
<1>4. MadeOf(NewTerminal, rows, MaxWidth, 0, 0, FALSE, Default, TRUE, {})
  BY DEF NewTerminal, MadeOf
<1> HIDE DEF rows
<1> QED BY <1>1, <1>2, <1>3, <1>4, ScreenMade

\* A terminal of another width.
LEMMA ResizedFacts ==
  ASSUME NEW e \in Screen, NEW width \in Widths, NEW keeps \in BOOLEAN,
         NEW g, g = Resized(e, width, keeps)
  PROVE  /\ g \in Screen /\ g.width = width /\ g.y = e.y /\ g.pen = e.pen /\ g.visible = e.visible
         /\ Position(g) = IF Position(e) < width THEN Position(e) ELSE width
         /\ \A r \in 0..(Height - 1), i \in 1..MaxWidth :
              g.rows[r][i] = IF i <= width \/ keeps THEN e.rows[r][i] ELSE blankChar(Default)
<1> DEFINE x == IF Position(e) < width THEN Position(e) ELSE width - 1
           wrap == Position(e) >= width
           rows == [r \in 0..(Height - 1) |-> [i \in 1..MaxWidth |->
                      IF i <= width \/ keeps THEN e.rows[r][i] ELSE blankChar(Default)]]
<1>1. Position(e) \in Nat /\ width \in Nat /\ width > 0
  BY ScreenParts, ScreenNumbers DEF Position
<1>2. x \in Nat /\ x < width /\ wrap \in BOOLEAN
  BY <1>1
<1>3. rows \in Rows
  <2>1. ASSUME NEW r \in 0..(Height - 1), NEW i \in 1..MaxWidth
        PROVE  (IF i <= width \/ keeps THEN e.rows[r][i] ELSE blankChar(Default)) \in Cell
    <3>1. e.rows[r][i] \in Cell
      BY ScreenParts DEF Rows
    <3>2. blankChar(Default) \in Cell
      BY BlankRow, EmulatorAssumption
    <3> QED BY <3>1, <3>2
  <2> QED BY <2>1 DEF Rows
<1>4. /\ e.y \in 0..(Height - 1) /\ e.pen \in Colors /\ e.visible \in BOOLEAN
      /\ e.escapes \in SUBSET {"color", "control"}
      /\ MadeOf(e, e.rows, e.width, e.x, e.y, e.wrap, e.pen, e.visible, e.escapes)
  BY ScreenFields
<1>5. g = [e EXCEPT !.width = width, !.x = x, !.wrap = wrap, !.rows = rows]
  BY DEF Resized
<1>6. \A r \in 0..(Height - 1), i \in 1..MaxWidth :
        rows[r][i] = IF i <= width \/ keeps THEN e.rows[r][i] ELSE blankChar(Default)
  OBVIOUS
<1>7. /\ Position(e) < width => x = Position(e) /\ ~wrap
      /\ ~(Position(e) < width) => wrap
  BY <1>1
<1> HIDE DEF x, wrap, rows
<1>8. MadeOf(g, rows, width, x, e.y, wrap, e.pen, e.visible, e.escapes)
  BY <1>4, <1>5 DEF MadeOf
<1>9. /\ g \in Screen /\ g.rows = rows /\ g.width = width /\ g.x = x /\ g.y = e.y /\ g.wrap = wrap
      /\ g.pen = e.pen /\ g.visible = e.visible
  BY <1>2, <1>3, <1>4, <1>8, ScreenMade
<1>10. Position(g) = IF Position(e) < width THEN Position(e) ELSE width
  <2>1. CASE Position(e) < width
    <3>1. ~wrap /\ x = Position(e)
      BY <1>1, <1>7, <2>1
    <3>2. Position(g) = x
      BY <1>9, <3>1 DEF Position
    <3> QED BY <2>1, <3>1, <3>2
  <2>2. CASE ~(Position(e) < width)
    <3>1. wrap
      BY <1>1, <1>7, <2>2
    <3>2. Position(g) = width
      BY <1>9, <3>1 DEF Position
    <3> QED BY <2>2, <3>2
  <2> QED BY <2>1, <2>2
<1> QED BY <1>6, <1>9, <1>10

\* The numbers the invariants compare.
LEMMA Numbers ==
  ASSUME Types
  PROVE  /\ top \in Nat /\ top <= MaxLine /\ MaxLine \in Nat /\ Height \in Nat /\ Height > 0
         /\ screen.y \in Nat /\ screen.y < Height /\ screen.width \in Nat /\ screen.width > 0
         /\ screen.width <= MaxWidth /\ MaxWidth \in Nat /\ screen.x \in Nat
         /\ screen.x < screen.width /\ term.remoteLine \in Nat /\ term.remoteColumn \in Nat
         /\ term \in Object /\ screen \in Screen /\ resizes \in Nat
         /\ \A l \in todo : l \in Nat
         /\ \A l \in DOMAIN buffer : l \in Nat
         /\ cursor # NoCursor => cursor.line \in Nat /\ cursor.column \in Nat /\ cursor.column < MaxWidth
<1>1. MaxLine \in Nat /\ MaxResizes \in Nat
  BY TerminalAssumption
<1>2. cursor # NoCursor => cursor.line \in Nat /\ cursor.column \in Nat /\ cursor.column < MaxWidth
  BY <1>1, ScreenNumbers DEF Types, StateInv, Cursors
<1>3. \A l \in DOMAIN buffer : l \in Nat
  BY <1>1 DEF Types, BufferInv
<1>4. screen \in Screen
  BY DEF Types, StateInv
<1>5. /\ top \in Nat /\ top <= MaxLine /\ resizes \in Nat /\ \A l \in todo : l \in Nat
  BY <1>1 DEF Types, StateInv
<1>6. term \in Object /\ term.remoteLine \in Nat /\ term.remoteColumn \in Nat
  BY <1>1, ObjectParts DEF Types, ObjectInv
<1> QED BY <1>1, <1>2, <1>3, <1>4, <1>5, <1>6, ScreenNumbers, ScreenParts


\* A call of the object leaves it one, and the terminal.
LEMMA CallTypes ==
  ASSUME Types, NEW u \in Object, Output(u), LineKept(u), u.plainMode = term.plainMode,
         u.outputColor = term.outputColor, u.remoteLine \in 0..MaxLine, u.remoteColumn <= MaxWidth
  PROVE  ObjectInv' /\ screen' \in Screen /\ screen'.width = screen.width
<1>1. ObjectInv /\ screen \in Screen
  BY DEF Types, StateInv
<1> QED BY <1>1, CallFacts DEF ObjectInv, LineKept

\* The history variables keep their types.
LEMMA CallAstray ==
  ASSUME Types, NEW u, Call(u)
  PROVE  Output(u) /\ wasReset' \in BOOLEAN /\ astray' \in {"no", "cursor", "text"}
<1>1. wasReset' = (wasReset /\ ~Writes(u, {IF u.plainMode THEN "lf" ELSE "hide"})) /\ Output(u)
  BY DEF Call
<1>2. astray' \in {astray, "no", "text"}
  BY DEF Call
<1> QED BY <1>1, <1>2 DEF Types, StateInv

\* At the beginning of a scrape.
LEMMA TypesBegin ==
  ASSUME Types, NEW newTop \in 0..MaxLine, NEW last \in -1..MaxLine, NEW newCursor \in Cursors,
         BeginScrape(newTop, last, newCursor)
  PROVE  Types'
<1> DEFINE u == IF newCursor = NoCursor THEN hideTerminalCursor(term) ELSE term
<1>1. Hid(term, u) \/ u = term
  BY Numbers, HideFacts
<1>2. Call(u)
  BY DEF BeginScrape
<1> HIDE DEF u
<1>3. ObjectInv /\ screen \in Screen /\ term \in Object
  BY DEF Types, StateInv, ObjectInv
<1>4. /\ u \in Object /\ u.plainMode = term.plainMode /\ u.outputColor = term.outputColor
      /\ u.remoteLine \in 0..MaxLine /\ u.remoteColumn <= MaxWidth /\ LineKept(u)
  BY <1>1, <1>3 DEF Hid, SameModes, LineKept, ObjectInv
<1>5. ObjectInv' /\ screen' \in Screen /\ screen'.width = screen.width
  BY <1>2, <1>4, CallAstray, CallTypes
<1>6. wasReset' \in BOOLEAN /\ astray' \in {"no", "cursor", "text"}
  BY <1>2, CallAstray
<1>7. /\ phase = "idle" /\ top <= newTop /\ Bottom(newTop) <= MaxLine
      /\ newCursor # NoCursor =>
           newCursor.line \in newTop..Bottom(newTop) /\ newCursor.column < screen.width
      /\ last <= Bottom(newTop)
      /\ top' = newTop /\ dirty' = last /\ todo' = top..last /\ cursor' = newCursor
      /\ modified' = FALSE /\ phase' = "scraping" /\ fresh' = FALSE
      /\ direct' = direct /\ buffer' = buffer /\ resizes' = resizes
  BY DEF BeginScrape, Dirty
<1>8. top..last \subseteq 0..MaxLine /\ \A l \in top..last : l <= Bottom(newTop)
  <2>1. top \in Nat /\ MaxLine \in Nat /\ Height \in Nat /\ last \in Int /\ newTop \in Nat
    BY Numbers
  <2>2. Bottom(newTop) \in Int /\ last <= Bottom(newTop) /\ Bottom(newTop) <= MaxLine
    BY <1>7, <2>1 DEF Bottom
  <2> QED BY <2>1, <2>2
<1>9. StateInv'
  <2>1. /\ direct \in BOOLEAN /\ resizes \in 0..MaxResizes
        /\ resizes = 0 => screen.width = MaxWidth
    BY DEF Types, StateInv
  <2>2. top' \in 0..MaxLine /\ dirty' \in -1..MaxLine /\ cursor' \in Cursors /\ todo' \subseteq 0..MaxLine
    BY <1>7, <1>8
  <2>3. phase' \in {"idle", "scraping"} /\ modified' \in BOOLEAN /\ fresh' \in BOOLEAN
    BY <1>7
  <2> QED BY <1>5, <1>6, <1>7, <2>1, <2>2, <2>3 DEF StateInv
<1>10. BufferInv'
  BY <1>7 DEF Types, BufferInv
<1>11. ScrapeInv'
  BY <1>5, <1>7, <1>8 DEF ScrapeInv, Bottom
<1> QED BY <1>5, <1>9, <1>10, <1>11 DEF Types

\* At its end.
LEMMA TypesEnd ==
  ASSUME Types, EndScrape
  PROVE  Types'
<1>1. term \in Object /\ LineKept(term) /\ term.out = <<>> /\ ObjectInv /\ screen \in Screen
  BY DEF Types, ObjectInv, StateInv
<1>2. /\ ObjectInv' /\ screen' \in Screen /\ screen'.width = screen.width
      /\ wasReset' \in BOOLEAN /\ astray' \in {"no", "cursor", "text"}
  <2>1. CASE cursor = NoCursor
    <3>1. term' = term /\ screen' = screen /\ wasReset' = wasReset /\ astray' = astray
      BY <2>1 DEF EndScrape
    <3> QED BY <1>1, <3>1 DEF Types, StateInv, ObjectInv, LineKept
  <2>2. CASE cursor # NoCursor
    <3> DEFINE u == showTerminalCursor(term, cursor.column, cursor.line)
    <3>1. Call(u)
      BY <2>2 DEF EndScrape
    <3>2. cursor.line \in 0..MaxLine /\ cursor.line \in Int /\ cursor.column \in Nat
          /\ cursor.column <= MaxWidth
      <4>1. cursor.line \in top..Bottom(top) /\ Bottom(top) <= MaxLine
        BY <2>2 DEF EndScrape, Types, ScrapeInv
      <4> QED BY <2>2, <4>1, Numbers DEF Bottom
    <3>7. PICK line \in Int, column \in Nat : line = cursor.line /\ column = cursor.column
      BY <3>2
    <3>9. u = showTerminalCursor(term, column, line)
      BY <3>7
    <3> HIDE DEF u
    <3>8. CursorSet(term, u, line, column)
      BY <1>1, <3>9, ShowCursorFacts
    <3>13. u.remoteColumn = term.remoteColumn \/ u.remoteColumn = 0 \/ u.remoteColumn = column
      BY <1>1, <3>8, ObjectParts DEF CursorSet
    <3>3. /\ CursorKept(term, u, cursor.line)
          /\ (u.remoteColumn = term.remoteColumn \/ u.remoteColumn = 0 \/ u.remoteColumn = cursor.column)
      BY <3>7, <3>8, <3>13 DEF CursorSet
    <3>4. /\ u \in Object /\ LineKept(u) /\ u.plainMode = term.plainMode
          /\ u.outputColor = term.outputColor /\ u.remoteLine \in 0..MaxLine
      BY <3>2, <3>3 DEF CursorKept, SameModes
    <3>5. u.remoteColumn <= MaxWidth
      BY <1>1, <3>2, <3>3, ScreenNumbers DEF ObjectInv
    <3>6. Output(u)
      BY <3>1, CallAstray
    <3> QED BY <3>1, <3>4, <3>5, <3>6, CallAstray, CallTypes
  <2> QED BY <2>1, <2>2
<1>3. /\ phase' = "idle" /\ modified' = FALSE /\ buffer' = Keep(buffer) /\ todo = {}
      /\ direct' = direct /\ top' = top /\ dirty' = dirty /\ cursor' = cursor /\ todo' = todo
      /\ fresh' = fresh /\ resizes' = resizes
  BY DEF EndScrape
<1>4. StateInv'
  BY <1>2, <1>3 DEF Types, StateInv
<1>5. BufferInv' /\ (DOMAIN buffer = {} => DOMAIN buffer' = {})
  BY <1>3 DEF Types, BufferInv, Keep
<1>6. ScrapeInv'
  BY <1>3, <1>5 DEF Types, ScrapeInv, Bottom
<1> QED BY <1>2, <1>4, <1>5, <1>6 DEF Types

\* The line it scrapes, and what is remembered of it then.
Old(line) == IF line \in DOMAIN buffer THEN buffer[line] ELSE NoLine

CursorOn(line) == IF cursor.line = line THEN cursor.column ELSE -1

\* What a step that scrapes a line does.
Scraped(line, data) ==
  /\ phase = "scraping" /\ line \in todo /\ \A l \in todo : line <= l
  /\ \/ /\ Call(sendLine(term, line, data, CursorOn(line))) /\ modified' = ~direct
     \/ /\ ~detectChange(Old(line), data)
        /\ term' = term /\ screen' = screen /\ wasReset' = wasReset /\ astray' = astray
        /\ modified' = modified
  /\ todo' = todo \ {line}
  /\ DOMAIN buffer' = DOMAIN buffer \union {line}
  /\ buffer'[line] = setLine(Old(line), data)
  /\ \A l \in DOMAIN buffer : l # line => buffer'[l] = buffer[l]
  /\ direct' = direct /\ top' = top /\ dirty' = dirty /\ cursor' = cursor /\ phase' = phase
  /\ fresh' = fresh /\ resizes' = resizes

\* A step of the scrape, as said above.
LEMMA ScrapeLineFacts ==
  ASSUME NEW line, NEW data, ScrapeLine(line, data)
  PROVE  Scraped(line, data)
<1> DEFINE old == IF line \in DOMAIN buffer THEN buffer[line] ELSE NoLine
           column == IF cursor.line = line THEN cursor.column ELSE -1
<1>1. /\ phase = "scraping" /\ line \in todo /\ \A l \in todo : line <= l
      /\ IF modified \/ detectChange(old, data)
         THEN Call(sendLine(term, line, data, column)) /\ modified' = ~direct
         ELSE UNCHANGED <<term, screen, wasReset, astray, modified>>
      /\ todo' = todo \ {line}
      /\ buffer' = [l \in DOMAIN buffer \union {line} |->
                      IF l = line THEN setLine(old, data) ELSE buffer[l]]
      /\ UNCHANGED <<direct, top, dirty, cursor, phase, fresh, resizes>>
  BY DEF ScrapeLine
<1>2. old = Old(line) /\ column = CursorOn(line)
  BY DEF Old, CursorOn
<1> HIDE DEF old, column
<1>3. \/ Call(sendLine(term, line, data, CursorOn(line))) /\ modified' = ~direct
      \/ /\ ~detectChange(Old(line), data)
         /\ term' = term /\ screen' = screen /\ wasReset' = wasReset /\ astray' = astray
         /\ modified' = modified
  BY <1>1, <1>2
<1>4. /\ DOMAIN buffer' = DOMAIN buffer \union {line}
      /\ buffer'[line] = setLine(Old(line), data)
      /\ \A l \in DOMAIN buffer : l # line => buffer'[l] = buffer[l]
  BY <1>1, <1>2
<1>5. /\ direct' = direct /\ top' = top /\ dirty' = dirty /\ cursor' = cursor /\ phase' = phase
      /\ fresh' = fresh /\ resizes' = resizes
  BY <1>1
<1> QED BY <1>1, <1>3, <1>4, <1>5 DEF Scraped

\* While lines are scraped.
LEMMA TypesScrape ==
  ASSUME Types, NEW line \in todo, NEW data \in LineData, Scraped(line, data)
  PROVE  Types'
<1>1. term \in Object /\ LineKept(term) /\ term.out = <<>> /\ ObjectInv /\ screen \in Screen
  BY DEF Types, ObjectInv, StateInv
<1>2. data \in Seq(Cell) /\ Len(data) \in 1..MaxWidth /\ Len(data) \in Nat /\ Len(data) > 0
      /\ Len(data) <= MaxWidth
  BY <1>1, LineDataFacts, ScreenNumbers
<1>3. line \in 0..MaxLine /\ line \in Int
  BY Numbers DEF Types, StateInv
<1>4. CursorOn(line) \in Int
  <2>1. cursor = NoCursor => cursor.column = -1
    BY DEF NoCursor
  <2> QED BY <2>1, Numbers DEF CursorOn
<1>5. /\ ObjectInv' /\ screen' \in Screen /\ screen'.width = screen.width
      /\ wasReset' \in BOOLEAN /\ astray' \in {"no", "cursor", "text"} /\ modified' \in BOOLEAN
  <2>1. CASE term' = term /\ screen' = screen /\ wasReset' = wasReset /\ astray' = astray
             /\ modified' = modified
    BY <1>1, <2>1 DEF Types, StateInv, ObjectInv, LineKept
  <2>2. CASE Call(sendLine(term, line, data, CursorOn(line))) /\ modified' = ~direct
    <3>1. PICK u : u = sendLine(term, line, data, CursorOn(line))
      OBVIOUS
    <3>2. LineRemembered(term, u, line, data, CursorOn(line))
      BY <1>1, <1>2, <1>3, <1>4, <3>1, SendLineFacts
    <3>3. /\ u \in Object /\ LineKept(u) /\ u.plainMode = term.plainMode
          /\ u.outputColor = term.outputColor /\ u.remoteLine \in 0..MaxLine
      BY <1>3, <3>2 DEF LineRemembered, SameModes, LineKept
    <3>4. u.remoteColumn <= MaxWidth
      <4>1. u.remoteColumn \in Nat /\ u.remoteColumn <= Len(data)
        BY <3>2, <3>3, ObjectParts DEF LineRemembered
      <4> QED BY <1>2, <4>1, ScreenNumbers
    <3>5. Call(u)
      BY <2>2, <3>1
    <3>6. Output(u) /\ wasReset' \in BOOLEAN /\ astray' \in {"no", "cursor", "text"}
      BY <3>5, CallAstray
    <3> QED BY <2>2, <3>3, <3>4, <3>6, CallTypes
  <2> QED BY <2>1, <2>2 DEF Scraped
<1>6. /\ phase = "scraping" /\ line \in todo /\ todo' = todo \ {line}
      /\ DOMAIN buffer' = DOMAIN buffer \union {line}
      /\ buffer'[line] = setLine(Old(line), data)
      /\ \A l \in DOMAIN buffer : l # line => buffer'[l] = buffer[l]
      /\ direct' = direct /\ top' = top /\ dirty' = dirty /\ cursor' = cursor /\ phase' = phase
      /\ fresh' = fresh /\ resizes' = resizes
  BY DEF Scraped
<1>7. StateInv'
  BY <1>5, <1>6 DEF Types, StateInv
<1>8. BufferInv'
  <2>1. Old(line) = NoLine \/ Old(line) \in Remembered
    BY DEF Old, Types, BufferInv
  <2>2. setLine(Old(line), data) \in Remembered
    BY <1>2, <2>1, SetLineFacts
  <2> QED BY <1>3, <1>6, <2>2 DEF Types, BufferInv
<1>9. fresh = FALSE
  BY <1>6 DEF Types, StateInv, ScrapeInv
<1>10. ScrapeInv'
  BY <1>5, <1>6, <1>9 DEF Types, ScrapeInv, Bottom
<1> QED BY <1>5, <1>7, <1>8, <1>10 DEF Types

\* When all is forgotten.
LEMMA TypesReset ==
  ASSUME Types, NEW newTop \in 0..MaxLine, NEW newDirect \in BOOLEAN, Reset(newTop, newDirect)
  PROVE  Types'
<1>1. term \in Object /\ term.out = <<>> /\ ObjectInv /\ screen \in Screen
  BY DEF Types, ObjectInv, StateInv
<1>2. PICK u : u = reset(term, TRUE, newTop)
  OBVIOUS
<1>3. newTop \in Int
  OBVIOUS
<1>12. Forgotten(term, u, newTop)
  BY <1>1, <1>2, <1>3, ResetFacts
<1>4. /\ u \in Object /\ u.plainMode = term.plainMode /\ u.outputColor = term.outputColor
      /\ u.remoteLine = newTop /\ u.remoteColumn = 0 /\ u.lineData = <<>>
  BY <1>12 DEF Forgotten
<1>5. /\ phase = "idle" /\ Bottom(newTop) <= MaxLine /\ Output(u)
      /\ wasReset' = (wasReset \/ term.plainMode \/ term.cursorHidden)
      /\ astray' = "no" /\ direct' = newDirect /\ top' = newTop /\ dirty' = newTop - 1
      /\ buffer' = <<>> /\ fresh' = TRUE
      /\ resizes' = IF screen.width = MaxWidth THEN 0 ELSE 1
      /\ cursor' = cursor /\ todo' = todo /\ modified' = modified /\ phase' = phase
  BY <1>2 DEF Reset
<1>6. u.remoteLine \in 0..MaxLine /\ u.remoteColumn <= MaxWidth /\ LineKept(u)
  BY <1>4, ScreenNumbers DEF LineKept
<1>7. ObjectInv' /\ screen' \in Screen /\ screen'.width = screen.width
  BY <1>4, <1>5, <1>6, CallTypes
<1>8. resizes' \in 0..MaxResizes /\ (resizes' = 0 => screen'.width = MaxWidth)
  <2>1. resizes \in 0..MaxResizes /\ (resizes = 0 => screen.width = MaxWidth) /\ MaxResizes \in Nat
    BY TerminalAssumption DEF Types, StateInv
  <2> QED BY <1>5, <1>7, <2>1
<1>9. StateInv'
  <2>1. dirty' \in -1..MaxLine
    BY <1>5, TerminalAssumption
  <2>2. wasReset' \in BOOLEAN
    BY <1>5
  <2> QED BY <1>5, <1>7, <1>8, <2>1, <2>2 DEF Types, StateInv
<1>10. BufferInv'
  BY <1>5 DEF BufferInv
<1>11. ScrapeInv'
  BY <1>5 DEF Types, ScrapeInv, Bottom
<1> QED BY <1>7, <1>9, <1>10, <1>11 DEF Types

\* When the window is made narrower or wider.
LEMMA TypesResize ==
  ASSUME Types, NEW width \in Widths, NEW keeps \in BOOLEAN, Resize(width, keeps)
  PROVE  Types'
<1>1. /\ phase = "idle" /\ resizes < MaxResizes
      /\ screen' = Resized(screen, width, keeps) /\ resizes' = resizes + 1
      /\ astray' = IF astray = "no" /\ Position(screen) > width THEN "cursor" ELSE astray
      /\ term' = term /\ direct' = direct /\ top' = top /\ dirty' = dirty /\ cursor' = cursor
      /\ todo' = todo /\ modified' = modified /\ phase' = phase /\ buffer' = buffer
      /\ fresh' = fresh /\ wasReset' = wasReset
  BY DEF Resize
<1>2. screen' \in Screen
  BY <1>1, ResizedFacts, Numbers
<1>3. resizes' \in 0..MaxResizes /\ resizes' # 0
  BY <1>1, TerminalAssumption DEF Types, StateInv
<1>4. astray' \in {"no", "cursor", "text"}
  BY <1>1 DEF Types, StateInv
<1>5. ObjectInv'
  BY <1>1 DEF Types, ObjectInv, LineKept
<1>6. StateInv'
  BY <1>1, <1>2, <1>3, <1>4 DEF Types, StateInv
<1>7. BufferInv' /\ ScrapeInv'
  BY <1>1 DEF Types, BufferInv, ScrapeInv, Bottom
<1> QED BY <1>5, <1>6, <1>7 DEF Types

\* When the session starts.
LEMMA TypesInit == TermInit => Types
<1> SUFFICES ASSUME TermInit PROVE Types
  OBVIOUS
<1>1. PICK plain \in BOOLEAN : term = reset(NewObject(plain), FALSE, 0)
  BY TerminalAssumption DEF TermInit
<1>2. /\ direct = FALSE /\ top = 0 /\ dirty = -1 /\ screen = NewTerminal
      /\ cursor = [line |-> 0, column |-> 0] /\ todo = {} /\ modified = FALSE
      /\ phase = "idle" /\ buffer = <<>> /\ fresh = TRUE /\ wasReset = FALSE
      /\ astray = "no" /\ resizes = 0
  BY DEF TermInit
<1>3. MaxLine \in Nat /\ MaxResizes \in Nat /\ ColorEscapes \in BOOLEAN
  BY TerminalAssumption
<1>4. term = [plainMode |-> plain, outputColor |-> ~plain \/ ColorEscapes,
              remoteLine |-> 0, remoteColumn |-> 0, lineDataValid |-> TRUE, lineData |-> <<>>,
              cursorHidden |-> FALSE, remoteColor |-> NoColor, out |-> <<>>]
  BY <1>1 DEF reset, NewObject
<1>5. <<>> \in Seq(Cell) /\ <<>> \in Seq(Command) /\ Len(<<>>) = 0
  OBVIOUS
<1>6. term \in Object /\ LineKept(term)
  BY <1>3, <1>4, <1>5 DEF Object, LineKept
<1>7. ObjectInv
  BY <1>3, <1>4, <1>6, ScreenNumbers DEF ObjectInv
<1>8. screen \in Screen /\ screen.width = MaxWidth
  BY <1>2, NewTerminalType DEF NewTerminal
<1>9. cursor \in Cursors
  BY <1>2, <1>3, ScreenNumbers DEF Cursors
<1>10. StateInv
  <2>1. top \in 0..MaxLine /\ dirty \in -1..MaxLine /\ resizes \in 0..MaxResizes
    BY <1>2, <1>3
  <2>2. todo \subseteq 0..MaxLine /\ phase \in {"idle", "scraping"} /\ direct \in BOOLEAN
        /\ modified \in BOOLEAN /\ fresh \in BOOLEAN /\ wasReset \in BOOLEAN
        /\ astray \in {"no", "cursor", "text"}
    BY <1>2
  <2> QED BY <1>8, <1>9, <2>1, <2>2 DEF StateInv
<1>11. BufferInv
  BY <1>2 DEF BufferInv
<1>12. ScrapeInv
  <2>1. Bottom(top) <= MaxLine
    BY <1>2, <1>3, TerminalAssumption, ScreenNumbers DEF Bottom
  <2>2. (phase = "idle" => todo = {}) /\ (fresh => DOMAIN buffer = {} /\ phase = "idle")
        /\ (phase # "scraping") /\ \A l \in todo : l <= Bottom(top)
    BY <1>2
  <2> QED BY <2>1, <2>2 DEF ScrapeInv
<1> QED BY <1>7, <1>10, <1>11, <1>12 DEF Types

\* When nothing happens.
LEMMA TypesStutter == Types /\ UNCHANGED termVars => Types'
BY DEF Types, termVars, ObjectInv, LineKept, StateInv, BufferInv, ScrapeInv

\* Every step keeps the types.
LEMMA TypesStep == Types /\ [TermNext]_termVars => Types'
<1> SUFFICES ASSUME Types, TermNext PROVE Types'
  BY TypesStutter
<1>1. ASSUME NEW newTop \in 0..MaxLine, NEW last \in -1..MaxLine, NEW newCursor \in Cursors,
             BeginScrape(newTop, last, newCursor)
      PROVE  Types'
  BY <1>1, TypesBegin
<1>2. ASSUME NEW line \in todo, NEW data \in LineData, ScrapeLine(line, data) PROVE Types'
  <2>1. Scraped(line, data)
    BY <1>2, ScrapeLineFacts
  <2> QED BY <1>2, <2>1, TypesScrape
<1>3. ASSUME EndScrape PROVE Types'
  BY <1>3, TypesEnd
<1>4. ASSUME NEW newTop \in 0..MaxLine, NEW newDirect \in BOOLEAN, Reset(newTop, newDirect)
      PROVE  Types'
  BY <1>4, TypesReset
<1>5. ASSUME NEW width \in Widths, NEW keeps \in BOOLEAN, Resize(width, keeps) PROVE Types'
  BY <1>5, TypesResize
<1> QED BY <1>1, <1>2, <1>3, <1>4, <1>5 DEF TermNext

\* The types hold throughout.
LEMMA TypesAlways == TermSpec => []Types
BY TypesInit, TypesStep, PTL DEF TermSpec

(* The object, the terminal, the line buffer and the scrape under way are  *)
(* what TermTypeOK says, m_lineData as long as m_remoteColumn included.    *)
THEOREM TerminalTypes == TermSpec => []TermTypeOK
<1>1. Types => TermTypeOK
  <2> SUFFICES ASSUME Types PROVE TermTypeOK
    OBVIOUS
  <2>1. /\ term.lineDataValid => Len(term.lineData) = term.remoteColumn
        /\ term.remoteLine \in 0..MaxLine /\ term.remoteColumn \in 0..MaxWidth
        /\ term.lineDataValid \in BOOLEAN /\ term.cursorHidden \in BOOLEAN
        /\ term.lineData \in Seq(Cell) /\ term.out = <<>>
        /\ term.remoteColor \in Colors \union {NoColor}
    BY Numbers, ObjectParts DEF Types, ObjectInv, LineKept
  <2>2. /\ screen \in Screen
        /\ top \in 0..MaxLine /\ dirty \in -1..MaxLine /\ cursor \in Cursors
        /\ todo \subseteq 0..MaxLine /\ phase \in {"idle", "scraping"}
        /\ {direct, modified, fresh, wasReset} \subseteq BOOLEAN 
        /\ astray \in {"no", "cursor", "text"} /\ resizes \in 0..MaxResizes
    BY DEF Types, StateInv
  <2>3. /\ DOMAIN buffer \subseteq 0..MaxLine
        /\ \A l \in DOMAIN buffer : buffer[l].data \in Seq(Cell) /\ buffer[l].length \in 1..Len(buffer[l].data)
    BY DEF Types, BufferInv, Remembered
  <2> QED BY <2>1, <2>2, <2>3 DEF TermTypeOK
<1> QED BY <1>1, TypesAlways, PTL

----------------------------------------------------------------------------
(***************************************************************************)
(* Where the terminal's cursor is.                                         *)
(***************************************************************************)
\* The line that the first row of the terminal shows.
First(t, e) == t.remoteLine - e.y

\* No line that may still be sent has gone off the top of the screen, and
\* nothing has been sent of a line below it.
InReach ==
  /\ First(term, screen) <= top /\ \A l \in todo : First(term, screen) <= l
  /\ \A l \in DOMAIN buffer : l < First(term, screen) + Height

\* Between scrapes the object has the cursor where the console has it.
AtCursor ==
  phase = "idle" /\ ~fresh /\ cursor # NoCursor =>
    term.remoteLine = cursor.line /\ term.remoteColumn = cursor.column

\* The terminal's cursor is where the object believes it to be, or left of
\* that in a window that was made narrower.
Placed ==
  ~term.plainMode =>
    /\ Position(screen) <= term.remoteColumn
    /\ astray = "no" => Known(term, screen)
    /\ InReach
    /\ PenKnown(screen, term)
    /\ AtCursor

\* What a call leaves of the history variables.
LEMMA CallHistory ==
  ASSUME NEW u, Call(u)
  PROVE  /\ wasReset' => wasReset
         /\ wasReset /\ ~u.plainMode /\ "hide" \notin KindsOf(u.out) => wasReset'
         /\ astray' = "no" => astray = "no" \/ KindsOf(u.out) \intersect {"cr", "col"} # {}
         /\ astray = "no" => astray' = "no"
         /\ astray = "text" => astray' = "text"
         /\ astray = "cursor" /\ KindsOf(u.out) \intersect {"put", "el"} # {} /\ astray' # "text" =>
              KindsOf(u.out) \intersect {"cr", "col"} # {}
<1>1. wasReset' = (wasReset /\ ~Writes(u, {IF u.plainMode THEN "lf" ELSE "hide"}))
  BY DEF Call
<1>2. astray' = IF astray # "cursor" THEN astray
                ELSE IF Writes(u, {"cr", "col"}) THEN "no"
                ELSE IF Writes(u, {"put", "el"}) THEN "text" ELSE astray
  BY DEF Call
<1>3. /\ Writes(u, {"hide"}) <=> KindsOf(u.out) \intersect {"hide"} # {}
      /\ Writes(u, {"cr", "col"}) <=> KindsOf(u.out) \intersect {"cr", "col"} # {}
      /\ Writes(u, {"put", "el"}) <=> KindsOf(u.out) \intersect {"put", "el"} # {}
  BY WritesKinds
<1>4. KindsOf(u.out) \intersect {"hide"} # {} <=> "hide" \in KindsOf(u.out)
  OBVIOUS
<1> HIDE DEF Writes, KindsOf
<1> QED BY <1>1, <1>2, <1>3, <1>4

\* How far the screen has scrolled tells what its first line is.
LEMMA ShiftFirst ==
  ASSUME NEW t \in Object, NEW u \in Object, NEW e \in Screen, NEW g \in Screen,
         Shift(t, u, e, g) \in Nat, Shift(t, u, e, g) = 0 \/ g.y = Height - 1
  PROVE  /\ First(u, g) = First(t, e) + Shift(t, u, e, g) /\ First(t, e) <= First(u, g)
         /\ First(t, e) \in Int /\ First(u, g) \in Int
         /\ First(u, g) = First(t, e) \/ First(u, g) = u.remoteLine - (Height - 1)
         /\ First(u, g) <= u.remoteLine /\ u.remoteLine < First(u, g) + Height
<1>1. /\ t.remoteLine \in Int /\ u.remoteLine \in Int /\ e.y \in Nat /\ g.y \in Nat /\ g.y < Height
      /\ Height \in Nat
  BY ObjectParts, ScreenParts, ScreenNumbers
<1> QED BY <1>1 DEF First, Shift

\* An object and a terminal of which all is known that there was before a call.
LEMMA OutputIs ==
  ASSUME Types, NEW u \in Object, Output(u), NEW e, NEW g
  PROVE  /\ At(screen, u) = screen' /\ First(term', screen') = First(u, screen')
         /\ Known(term', g) <=> Known(u, g)
         /\ PenKnown(g, term') <=> PenKnown(g, u)
         /\ Shift(term, term', e, g) = Shift(term, u, e, g)
         /\ term'.remoteColumn = u.remoteColumn /\ term'.remoteLine = u.remoteLine
         /\ term'.plainMode = u.plainMode /\ term'.cursorHidden = u.cursorHidden
<1>1. ObjectInv /\ screen \in Screen
  BY DEF Types, StateInv
<1> QED BY <1>1, CallFacts DEF First, Known, PenKnown, Shift

\* Nothing has been sent yet.
LEMMA AtNothing ==
  ASSUME NEW t \in Object, t.out = <<>>, NEW e \in Screen
  PROVE  At(e, t) = e
BY RunFacts DEF At

\* What is written at the beginning of a scrape: hiding the cursor moves nothing.
Begins(u, newCursor) ==
  /\ Call(u) /\ (Hid(term, u) \/ u = term)
  /\ newCursor = NoCursor => Hid(term, u)
  /\ newCursor # NoCursor => u = term
  /\ SameScreen(screen, screen')
  /\ u.plainMode = term.plainMode /\ u.remoteColor = term.remoteColor
  /\ KindsOf(u.out) \subseteq {"hide"}
  /\ u.remoteLine = term.remoteLine /\ u.remoteColumn = term.remoteColumn
  /\ u.lineDataValid = term.lineDataValid /\ u.lineData = term.lineData
  /\ ~term.plainMode => \A w \in BOOLEAN : Seen(screen, term, w) => Seen(screen, u, w)

\* What the beginning of a scrape writes.
LEMMA BeginHides ==
  ASSUME Types, NEW newTop, NEW last, NEW newCursor, BeginScrape(newTop, last, newCursor)
  PROVE  \E u \in Object : Begins(u, newCursor)
<1>1. term \in Object /\ term.out = <<>> /\ screen \in Screen /\ At(screen, term) = screen
  BY AtNothing DEF Types, ObjectInv, StateInv
<1>2. PICK u : u = IF newCursor = NoCursor THEN hideTerminalCursor(term) ELSE term
  OBVIOUS
<1>3. Call(u)
  BY <1>2 DEF BeginScrape
<1>4. KindsOf(term.out) = {} /\ SameScreen(screen, screen)
  BY <1>1 DEF KindsOf, SameScreen
<1>5. CASE newCursor = NoCursor
  <2>1. u = hideTerminalCursor(term)
    BY <1>2, <1>5
  <2>2. /\ Hid(term, u) /\ SameScreen(At(screen, term), At(screen, u))
        /\ ~term.plainMode => \A w \in BOOLEAN : Seen(screen, term, w) => Seen(screen, u, w)
    BY <1>1, <2>1, HideFacts
  <2>3. u \in Object
    BY <2>2 DEF Hid, SameModes
  <2>4. At(screen, u) = screen'
    BY <1>3, <2>3, OutputIs DEF Call
  <2> QED BY <1>1, <1>3, <1>4, <1>5, <2>2, <2>3, <2>4 DEF Begins, Hid, SameModes
<1>6. CASE newCursor # NoCursor
  <2>1. u = term
    BY <1>2, <1>6
  <2>2. At(screen, u) = screen'
    BY <1>1, <1>3, <2>1, OutputIs DEF Call
  <2> QED BY <1>1, <1>3, <1>4, <1>6, <2>1, <2>2 DEF Begins
<1> QED BY <1>5, <1>6

\* What is known of a screen is known of the same screen.
LEMMA KnownSame ==
  ASSUME NEW t, NEW u, NEW e, NEW g, SameScreen(e, g), u.remoteColumn = t.remoteColumn,
         u.lineDataValid = t.lineDataValid, u.lineData = t.lineData
  PROVE  (Known(t, e) <=> Known(u, g)) /\ Position(g) = Position(e)
BY DEF SameScreen, Known, Position

\* At the beginning of a scrape.
LEMMA PlacedBegin ==
  ASSUME Types, Placed, NEW newTop \in 0..MaxLine, NEW last \in -1..MaxLine,
         NEW newCursor \in Cursors, BeginScrape(newTop, last, newCursor)
  PROVE  Placed'
<1> SUFFICES ASSUME ~term'.plainMode PROVE Placed'
  BY DEF Placed
<1>12. PICK u \in Object : Begins(u, newCursor)
  BY BeginHides
<1>1. /\ Call(u) /\ SameScreen(screen, screen')
      /\ u.plainMode = term.plainMode /\ u.remoteColor = term.remoteColor
      /\ KindsOf(u.out) \subseteq {"hide"}
      /\ u.remoteLine = term.remoteLine /\ u.remoteColumn = term.remoteColumn
      /\ u.lineDataValid = term.lineDataValid /\ u.lineData = term.lineData
  BY <1>12 DEF Begins
<1>2. Output(u) /\ (astray' = "no" => astray = "no")
  BY <1>1, CallHistory DEF Call
<1>3. /\ term'.plainMode = u.plainMode /\ term'.remoteLine = u.remoteLine
      /\ term'.remoteColumn = u.remoteColumn
      /\ (Known(term', screen') <=> Known(u, screen'))
      /\ (PenKnown(screen', term') <=> PenKnown(screen', u))
  BY <1>2, OutputIs
<1>4. /\ top <= newTop /\ top' = newTop /\ todo' = top..last /\ phase' = "scraping" /\ buffer' = buffer
  BY DEF BeginScrape
<1>5. ~term.plainMode /\ InReach /\ Position(screen) <= term.remoteColumn /\ PenKnown(screen, term)
      /\ (astray = "no" => Known(term, screen))
  BY <1>1, <1>3 DEF Placed
<1>6. (Known(term, screen) <=> Known(u, screen')) /\ Position(screen') = Position(screen)
  BY <1>1, KnownSame
<1>7. PenKnown(screen', u)
  BY <1>1, <1>5 DEF PenKnown, SameScreen
<1>8. First(term', screen') = First(term, screen)
  BY <1>1, <1>3 DEF First, SameScreen
<1>9. First(term, screen) \in Int /\ top \in Int /\ newTop \in Int /\ last \in Int
  BY Numbers DEF First
<1>10. InReach'
  BY <1>4, <1>5, <1>8, <1>9 DEF InReach
<1>11. AtCursor'
  BY <1>4 DEF AtCursor
<1> QED BY <1>1, <1>2, <1>3, <1>5, <1>6, <1>7, <1>10, <1>11 DEF Placed

\* The object, the terminal and the cursor when the cursor is shown.
LEMMA EndShows ==
  ASSUME Types, Placed, EndScrape, cursor # NoCursor
  PROVE  \E u \in Object :
           /\ Call(u) /\ CursorSet(term, u, cursor.line, cursor.column)
           /\ ~term.plainMode =>
                /\ CursorMoved(term, u, screen, screen')
                /\ \A w \in BOOLEAN : Seen(screen, term, w) => Seen(screen, u, w)
<1>1. term \in Object /\ LineKept(term) /\ term.out = <<>> /\ screen \in Screen
  BY DEF Types, ObjectInv, StateInv
<1>2. /\ Call(showTerminalCursor(term, cursor.column, cursor.line)) /\ phase = "scraping"
  BY DEF EndScrape
<1>3. cursor.line \in Int /\ cursor.column \in Nat
  BY Numbers
<1>4. PICK line \in Int, column \in Nat : line = cursor.line /\ column = cursor.column
  BY <1>3
<1>5. PICK u : u = showTerminalCursor(term, column, line)
  OBVIOUS
<1>6. /\ CursorSet(term, u, line, column)
      /\ \A e \in Screen :
           ~term.plainMode /\ term.remoteLine - e.y <= line /\ Position(e) <= term.remoteColumn
           /\ column < e.width =>
             /\ CursorMoved(term, u, e, At(e, u))
             /\ \A w \in BOOLEAN : Seen(e, term, w) => Seen(e, u, w)
  BY <1>1, <1>5, ShowCursorFacts
<1>7. Call(u) /\ u \in Object
  BY <1>2, <1>4, <1>5, <1>6 DEF CursorSet, CursorKept, SameModes
<1>8. At(screen, u) = screen'
  BY <1>7, OutputIs DEF Call
<1>9. ASSUME ~term.plainMode
      PROVE  term.remoteLine - screen.y <= line /\ Position(screen) <= term.remoteColumn
             /\ column < screen.width
  <2>1. top <= line /\ column < screen.width
    BY <1>2, <1>4, Numbers DEF Types, ScrapeInv
  <2>2. First(term, screen) <= top /\ Position(screen) <= term.remoteColumn
    BY <1>9 DEF Placed, InReach
  <2>3. First(term, screen) <= line
    BY <2>1, <2>2, Numbers DEF First
  <2> QED BY <2>1, <2>2, <2>3 DEF First
<1>10. ~term.plainMode =>
         /\ CursorMoved(term, u, screen, screen')
         /\ \A w \in BOOLEAN : Seen(screen, term, w) => Seen(screen, u, w)
  BY <1>1, <1>6, <1>8, <1>9
<1> QED BY <1>4, <1>6, <1>7, <1>10

\* At its end.
LEMMA PlacedEnd ==
  ASSUME Types, Placed, EndScrape
  PROVE  Placed'
<1> SUFFICES ASSUME ~term'.plainMode PROVE Placed'
  BY DEF Placed
<1>1. /\ phase' = "idle" /\ phase = "scraping" /\ todo = {} /\ buffer' = Keep(buffer)
      /\ todo' = todo /\ cursor' = cursor /\ top' = top
  BY DEF EndScrape
<1>2. \A l \in DOMAIN buffer' : l \in DOMAIN buffer
  BY <1>1 DEF Keep
<1>3. CASE cursor = NoCursor
  <2>1. term' = term /\ screen' = screen /\ astray' = astray
    BY <1>3 DEF EndScrape
  <2>2. ~term.plainMode /\ InReach /\ Position(screen) <= term.remoteColumn /\ PenKnown(screen, term)
      /\ (astray = "no" => Known(term, screen))
    BY <2>1 DEF Placed
  <2>3. InReach'
    BY <1>1, <1>2, <2>1, <2>2 DEF InReach
  <2>4. AtCursor'
    BY <1>1, <1>3 DEF AtCursor
  <2> QED BY <2>1, <2>2, <2>3, <2>4 DEF Placed
<1>4. CASE cursor # NoCursor
  <2>1. PICK u \in Object :
          /\ Call(u) /\ CursorSet(term, u, cursor.line, cursor.column)
          /\ ~term.plainMode => CursorMoved(term, u, screen, screen')
    BY <1>4, EndShows
  <2>2. Output(u) /\ (astray' = "no" => astray = "no" \/ KindsOf(u.out) \intersect {"cr", "col"} # {})
    BY <2>1, CallHistory DEF Call
  <2>3. /\ term'.plainMode = u.plainMode /\ term'.remoteLine = u.remoteLine
        /\ term'.remoteColumn = u.remoteColumn /\ First(term', screen') = First(u, screen')
        /\ (Known(term', screen') <=> Known(u, screen'))
        /\ (PenKnown(screen', term') <=> PenKnown(screen', u))
    BY <2>2, OutputIs
  <2>4. ~term.plainMode /\ CursorMoved(term, u, screen, screen')
        /\ u.remoteLine = cursor.line /\ u.remoteColumn = cursor.column /\ u.remoteColor = term.remoteColor
    BY <2>1, <2>3 DEF CursorSet, CursorKept, SameModes
  <2>5. InReach /\ PenKnown(screen, term) /\ (astray = "no" => Known(term, screen))
    BY <2>4 DEF Placed
  <2>6. /\ screen' \in Screen /\ screen'.pen = screen.pen /\ Position(screen') <= u.remoteColumn
        /\ Shift(term, u, screen, screen') \in Nat
        /\ (Shift(term, u, screen, screen') = 0 \/ screen'.y = Height - 1)
        /\ (Known(term, screen) \/ KindsOf(u.out) \intersect {"cr", "col"} # {} => Known(u, screen'))
    BY <2>4 DEF CursorMoved
  <2>7. /\ First(term, screen) <= First(u, screen') /\ First(term, screen) \in Int
        /\ First(u, screen') \in Int
        /\ (First(u, screen') = First(term, screen) \/ First(u, screen') = cursor.line - (Height - 1))
    BY <2>4, <2>6, Numbers, ShiftFirst
  <2>8. cursor.line \in top..Bottom(top) /\ cursor.line \in Int /\ top \in Int /\ Height \in Int
        /\ \A l \in DOMAIN buffer : l \in Int
    BY <1>1, <1>4, Numbers DEF Types, ScrapeInv
  <2>9. InReach'
    BY <1>1, <1>2, <2>3, <2>5, <2>7, <2>8 DEF InReach, Bottom
  <2>10. AtCursor'
    BY <1>1, <2>3, <2>4 DEF AtCursor
  <2>11. PenKnown(screen', u)
    BY <2>4, <2>5, <2>6 DEF PenKnown
  <2> QED BY <2>2, <2>3, <2>5, <2>6, <2>9, <2>10, <2>11 DEF Placed
<1> QED BY <1>3, <1>4

\* What is written when a line is sent.
Sends(u, line, data) ==
  /\ Call(u) /\ LineRemembered(term, u, line, data, CursorOn(line))
  /\ ~term.plainMode =>
       /\ LineShown(term, u, screen, screen', data)
       /\ \A w \in BOOLEAN : Seen(screen, term, w) => Seen(screen, u, w)

\* Or nothing is.
Leaves(line, data) ==
  /\ ~detectChange(Old(line), data)
  /\ term' = term /\ screen' = screen /\ wasReset' = wasReset /\ astray' = astray

\* A line of which nothing is remembered has changed.
LEMMA NothingRemembered ==
  ASSUME NEW data, Len(data) \in Nat, Len(data) > 0
  PROVE  detectChange(NoLine, data)
<1>1. NoLine.length = 0 /\ ~(0 = Len(data)) /\ ~(0 > Len(data))
  BY DEF NoLine
<1> QED BY <1>1 DEF detectChange

\* A line that is scraped is sent, or left as it is.
LEMMA ScrapeSends ==
  ASSUME Types, Placed, NEW line \in todo, NEW data \in LineData, Scraped(line, data)
  PROVE  Leaves(line, data) \/ \E u \in Object : Sends(u, line, data)
<1>1. term \in Object /\ LineKept(term) /\ term.out = <<>> /\ ObjectInv /\ screen \in Screen
  BY DEF Types, ObjectInv, StateInv
<1>2. data \in Seq(Cell) /\ Len(data) > 0 /\ Len(data) = screen.width
  BY <1>1, LineDataFacts, ScreenNumbers
<1>3. line \in Int /\ CursorOn(line) \in Int
  <2>1. cursor = NoCursor => cursor.column = -1
    BY DEF NoCursor
  <2> QED BY <2>1, Numbers DEF CursorOn
<1>4. CASE Call(sendLine(term, line, data, CursorOn(line)))
  <2>1. PICK column \in Int : column = CursorOn(line)
    BY <1>3
  <2>2. PICK u : u = sendLine(term, line, data, column)
    OBVIOUS
  <2>3. /\ LineRemembered(term, u, line, data, column)
        /\ \A e \in Screen :
              ~term.plainMode /\ term.outputColor /\ e.width = Len(data) /\ PenKnown(e, term)
              /\ term.remoteLine - e.y <= line /\ Position(e) <= term.remoteColumn =>
                /\ LineShown(term, u, e, At(e, u), data)
                /\ \A w \in BOOLEAN : Seen(e, term, w) => Seen(e, u, w)
    BY <1>1, <1>2, <1>3, <2>2, SendLineFacts
  <2>4. Call(u) /\ u \in Object /\ Output(u)
    BY <1>4, <2>1, <2>2, <2>3 DEF LineRemembered, SameModes, Call
  <2>5. At(screen, u) = screen'
    BY <2>4, OutputIs
  <2>6. ASSUME ~term.plainMode
        PROVE  term.outputColor /\ PenKnown(screen, term)
               /\ term.remoteLine - screen.y <= line /\ Position(screen) <= term.remoteColumn
    <3>1. First(term, screen) <= line /\ PenKnown(screen, term) /\ Position(screen) <= term.remoteColumn
      BY <2>6 DEF Placed, InReach
    <3>2. term.outputColor
      BY <1>1, <2>6 DEF ObjectInv
    <3> QED BY <3>1, <3>2 DEF First
  <2>7. ~term.plainMode =>
          /\ LineShown(term, u, screen, screen', data)
          /\ \A w \in BOOLEAN : Seen(screen, term, w) => Seen(screen, u, w)
    BY <1>1, <1>2, <2>3, <2>5, <2>6
  <2> QED BY <2>1, <2>3, <2>4, <2>7 DEF Sends
<1>5. CASE Leaves(line, data)
  BY <1>5
<1> QED BY <1>4, <1>5 DEF Scraped, Leaves

\* While lines are scraped.
LEMMA PlacedScrape ==
  ASSUME Types, Placed, NEW line \in todo, NEW data \in LineData, Scraped(line, data)
  PROVE  Placed'
<1> SUFFICES ASSUME ~term'.plainMode PROVE Placed'
  BY DEF Placed
<1>1. /\ phase' = "scraping" /\ todo' = todo \ {line} /\ DOMAIN buffer' = DOMAIN buffer \union {line}
      /\ top' = top /\ \A l \in todo : line <= l
  BY DEF Scraped
<1>2. AtCursor'
  BY <1>1 DEF AtCursor
<1>3. CASE Leaves(line, data)
  <2>1. term' = term /\ screen' = screen /\ astray' = astray
    BY <1>3 DEF Leaves
  <2>2. ~term.plainMode /\ InReach /\ Position(screen) <= term.remoteColumn /\ PenKnown(screen, term)
      /\ (astray = "no" => Known(term, screen))
    BY <2>1 DEF Placed
  <2>3. First(term, screen) \in Int /\ top \in Int /\ line \in Int /\ Height \in Int /\ line <= top + Height - 1
    BY Numbers DEF First, Types, ScrapeInv, Bottom
  <2>4. line < First(term, screen) + Height
    <3>1. ~detectChange(Old(line), data)
      BY <1>3 DEF Leaves
    <3>3. Len(data) \in Nat /\ Len(data) > 0
      BY Numbers, LineDataFacts
    <3>2. line \in DOMAIN buffer
      BY <3>1, <3>3, NothingRemembered DEF Old
    <3> QED BY <2>2, <3>2 DEF InReach
  <2>5. InReach'
    BY <1>1, <2>1, <2>2, <2>3, <2>4 DEF InReach
  <2> QED BY <1>2, <2>1, <2>2, <2>5 DEF Placed
<1>4. ASSUME NEW u \in Object, Sends(u, line, data) PROVE Placed'
  <2>2. Output(u) /\ (astray' = "no" => astray = "no" \/ KindsOf(u.out) \intersect {"cr", "col"} # {})
    BY <1>4, CallHistory DEF Call, Sends
  <2>3. /\ term'.plainMode = u.plainMode /\ term'.remoteLine = u.remoteLine
        /\ term'.remoteColumn = u.remoteColumn /\ First(term', screen') = First(u, screen')
        /\ (Known(term', screen') <=> Known(u, screen'))
        /\ (PenKnown(screen', term') <=> PenKnown(screen', u))
    BY <2>2, OutputIs
  <2>4. ~term.plainMode /\ LineShown(term, u, screen, screen', data) /\ u.remoteLine = line
        /\ u.remoteColumn <= Len(data) /\ \A i \in 1..u.remoteColumn : u.lineData[i] = data[i]
    BY <1>4, <2>3 DEF Sends, LineRemembered, SameModes
  <2>5. InReach /\ PenKnown(screen, term) /\ (astray = "no" => Known(term, screen))
    BY <2>4 DEF Placed
  <2>6. /\ screen' \in Screen /\ screen'.pen = u.remoteColor /\ Position(screen') <= u.remoteColumn
        /\ Shift(term, u, screen, screen') \in Nat
        /\ (Shift(term, u, screen, screen') = 0 \/ screen'.y = Height - 1)
        /\ (Known(term, screen) \/ KindsOf(u.out) \intersect {"cr", "col"} # {} =>
              Position(screen') = u.remoteColumn
              /\ \A j \in 1..screen.width : screen'.rows[screen'.y][j] = data[j])
    BY <2>4 DEF LineShown
  <2>7. /\ First(term, screen) <= First(u, screen') /\ First(term, screen) \in Int
        /\ First(u, screen') \in Int /\ First(u, screen') <= u.remoteLine
        /\ u.remoteLine < First(u, screen') + Height
        /\ (First(u, screen') = First(term, screen) \/ First(u, screen') = u.remoteLine - (Height - 1))
    BY <2>6, Numbers, ShiftFirst
  <2>8. /\ line \in Int /\ top \in Int /\ Height \in Int /\ line <= top + Height - 1
        /\ \A l \in DOMAIN buffer : l \in Int
        /\ \A l \in todo : l \in Int
    BY Numbers DEF Types, ScrapeInv, Bottom
  <2>9. InReach'
    BY <1>1, <2>3, <2>4, <2>5, <2>7, <2>8 DEF InReach
  <2>10. astray' = "no" => Known(u, screen')
    <3>1. Len(data) = screen.width /\ screen.width \in Nat /\ u.remoteColumn \in Nat
      BY LineDataFacts, Numbers, ObjectParts
    <3>2. \A i \in 1..u.remoteColumn : i \in 1..screen.width
      BY <2>4, <3>1
    <3> QED BY <2>2, <2>4, <2>5, <2>6, <3>2 DEF Known
  <2>11. PenKnown(screen', u)
    BY <2>6 DEF PenKnown
  <2> QED BY <1>2, <2>2, <2>3, <2>6, <2>9, <2>10, <2>11 DEF Placed
<1> QED BY <1>3, <1>4, ScrapeSends

\* When all is forgotten.
LEMMA PlacedReset ==
  ASSUME Types, NEW newTop \in 0..MaxLine, NEW newDirect \in BOOLEAN, Reset(newTop, newDirect)
  PROVE  Placed'
<1> SUFFICES ASSUME ~term'.plainMode PROVE Placed'
  BY DEF Placed
<1>1. term \in Object /\ term.out = <<>> /\ screen \in Screen /\ newTop \in Int
  BY DEF Types, ObjectInv, StateInv
<1>2. PICK u : u = reset(term, TRUE, newTop)
  OBVIOUS
<1>3. Forgotten(term, u, newTop)
  BY <1>1, <1>2, ResetFacts
<1>4. /\ phase = "idle" /\ Output(u) /\ top' = newTop /\ buffer' = <<>> /\ fresh' = TRUE
      /\ todo' = todo
  BY <1>2 DEF Reset
<1>5. /\ u \in Object /\ u.plainMode = term.plainMode /\ u.remoteLine = newTop
      /\ u.remoteColumn = 0 /\ u.remoteColor = NoColor
      /\ \A e \in Screen : ~term.plainMode =>
           Becomes(Run(e, u.out), [r \in 0..(Height - 1) |-> BlankLine(Default)], e.width, 0, 0,
                   FALSE, Default, e.visible)
  BY <1>3 DEF Forgotten
<1>6. /\ term'.plainMode = u.plainMode /\ term'.remoteLine = u.remoteLine
      /\ term'.remoteColumn = u.remoteColumn /\ At(screen, u) = screen'
      /\ (Known(term', screen') <=> Known(u, screen'))
      /\ (PenKnown(screen', term') <=> PenKnown(screen', u))
  BY <1>4, <1>5, OutputIs
<1>7. ~term.plainMode
  BY <1>5, <1>6
<1>8. screen'.x = 0 /\ screen'.y = 0 /\ screen'.wrap = FALSE
  BY <1>1, <1>5, <1>6, <1>7 DEF Becomes, At
<1>9. Position(screen') = 0
  BY <1>8 DEF Position
<1>10. Known(u, screen')
  BY <1>5, <1>9 DEF Known
<1>11. First(term', screen') = newTop
  BY <1>1, <1>5, <1>6, <1>8 DEF First
<1>12. todo' = {} /\ DOMAIN buffer' = {}
  BY <1>4 DEF Types, ScrapeInv
<1>13. InReach'
  BY <1>1, <1>4, <1>11, <1>12 DEF InReach
<1>14. AtCursor'
  BY <1>4 DEF AtCursor
<1>15. PenKnown(screen', u)
  BY <1>5 DEF PenKnown
<1> QED BY <1>5, <1>6, <1>9, <1>10, <1>13, <1>14, <1>15 DEF Placed

\* When the window is made narrower or wider.
LEMMA PlacedResize ==
  ASSUME Types, Placed, NEW width \in Widths, NEW keeps \in BOOLEAN, Resize(width, keeps)
  PROVE  Placed'
<1> SUFFICES ASSUME ~term'.plainMode PROVE Placed'
  BY DEF Placed
<1>1. /\ screen' = Resized(screen, width, keeps)
      /\ astray' = IF astray = "no" /\ Position(screen) > width THEN "cursor" ELSE astray
      /\ term' = term /\ top' = top /\ cursor' = cursor /\ todo' = todo /\ phase' = phase
      /\ buffer' = buffer /\ fresh' = fresh
  BY DEF Resize
<1>2. /\ ~term.plainMode /\ InReach /\ Position(screen) <= term.remoteColumn /\ PenKnown(screen, term)
      /\ AtCursor
      /\ (astray = "no" => Known(term, screen))
  BY <1>1 DEF Placed
<1>3. screen \in Screen /\ Position(screen) \in Nat /\ width \in Nat /\ term.remoteColumn \in Nat
      /\ screen.y \in 0..(Height - 1) /\ width <= MaxWidth /\ MaxWidth \in Nat
  <2>1. \A w \in Widths : w \in Nat /\ w <= MaxWidth
    BY ScreenNumbers
  <2> QED BY <2>1, Numbers, ScreenParts DEF Position
<1>4. PICK g : g = Resized(screen, width, keeps)
  OBVIOUS
<1>5. /\ g.y = screen.y /\ g.pen = screen.pen
      /\ Position(g) = IF Position(screen) < width THEN Position(screen) ELSE width
      /\ \A r \in 0..(Height - 1), i \in 1..MaxWidth :
           g.rows[r][i] = IF i <= width \/ keeps THEN screen.rows[r][i] ELSE blankChar(Default)
  BY <1>3, <1>4, ResizedFacts
<1>6. screen' = g
  BY <1>1, <1>4
<1>7. Position(screen') <= term'.remoteColumn
  BY <1>1, <1>2, <1>3, <1>5, <1>6
<1>8. astray' = "no" => Known(term', screen')
  <2>1. SUFFICES ASSUME astray' = "no" PROVE Known(term, g)
    BY <1>1, <1>6
  <2>2. Known(term, screen) /\ Position(screen) <= width
    BY <1>1, <1>2, <1>3, <2>1
  <2>3. Position(g) = term.remoteColumn /\ term.remoteColumn <= width
    BY <1>3, <1>5, <2>2 DEF Known
  <2>4. \A i \in 1..term.remoteColumn : i <= width /\ i \in 1..MaxWidth
    BY <1>3, <2>3
  <2> QED BY <1>3, <1>5, <2>2, <2>3, <2>4 DEF Known
<1>9. InReach' /\ AtCursor'
  BY <1>1, <1>2, <1>5, <1>6 DEF InReach, AtCursor, First
<1>10. PenKnown(screen', term')
  BY <1>1, <1>2, <1>5, <1>6 DEF PenKnown
<1> QED BY <1>7, <1>8, <1>9, <1>10 DEF Placed

\* When the session starts.
LEMMA PlacedInit == TermInit => Placed
<1> SUFFICES ASSUME TermInit PROVE Placed
  OBVIOUS
<1>1. PICK plain \in BOOLEAN : term = reset(NewObject(plain), FALSE, 0)
  BY TerminalAssumption DEF TermInit
<1>2. /\ top = 0 /\ screen = NewTerminal /\ todo = {} /\ buffer = <<>> /\ fresh = TRUE
  BY DEF TermInit
<1>3. /\ term.remoteLine = 0 /\ term.remoteColumn = 0 /\ term.remoteColor = NoColor
  BY <1>1 DEF reset, NewObject
<1>4. screen.x = 0 /\ screen.y = 0 /\ screen.wrap = FALSE
  BY <1>2 DEF NewTerminal
<1>5. Position(screen) = 0 /\ First(term, screen) = 0
  BY <1>3, <1>4 DEF Position, First
<1>6. Known(term, screen) /\ PenKnown(screen, term)
  BY <1>3, <1>5 DEF Known, PenKnown
<1>7. InReach /\ AtCursor
  BY <1>2, <1>5 DEF InReach, AtCursor
<1> QED BY <1>3, <1>5, <1>6, <1>7 DEF Placed

\* When nothing happens.
LEMMA PlacedStutter == Placed /\ UNCHANGED termVars => Placed'
BY DEF Placed, termVars, Known, InReach, First, PenKnown, AtCursor

\* Every step keeps it so.
LEMMA PlacedStep == Types /\ Placed /\ [TermNext]_termVars => Placed'
<1> SUFFICES ASSUME Types, Placed, TermNext PROVE Placed'
  BY PlacedStutter
<1>1. ASSUME NEW newTop \in 0..MaxLine, NEW last \in -1..MaxLine, NEW newCursor \in Cursors,
             BeginScrape(newTop, last, newCursor)
      PROVE  Placed'
  BY <1>1, PlacedBegin
<1>2. ASSUME NEW line \in todo, NEW data \in LineData, ScrapeLine(line, data) PROVE Placed'
  <2>1. Scraped(line, data)
    BY <1>2, ScrapeLineFacts
  <2> QED BY <1>2, <2>1, PlacedScrape
<1>3. ASSUME EndScrape PROVE Placed'
  BY <1>3, PlacedEnd
<1>4. ASSUME NEW newTop \in 0..MaxLine, NEW newDirect \in BOOLEAN, Reset(newTop, newDirect)
      PROVE  Placed'
  BY <1>4, PlacedReset
<1>5. ASSUME NEW width \in Widths, NEW keeps \in BOOLEAN, Resize(width, keeps) PROVE Placed'
  BY <1>5, PlacedResize
<1> QED BY <1>1, <1>2, <1>3, <1>4, <1>5 DEF TermNext

\* It holds throughout.
LEMMA PlacedAlways == TermSpec => [](Types /\ Placed)
BY TypesInit, TypesStep, PlacedInit, PlacedStep, PTL DEF TermSpec

\* Between scrapes the terminal's cursor is where the console's is.
THEOREM CursorStaysPlaced == TermSpec => []CursorPlaced
<1>1. Types /\ Placed => CursorPlaced
  <2> SUFFICES ASSUME Types, Placed, phase = "idle", ~fresh, cursor # NoCursor,
                      cursor.column < screen.width, ~term.plainMode, astray = "no"
               PROVE  RowOf(cursor.line) = screen.y /\ screen.x = cursor.column /\ ~screen.wrap
    BY DEF CursorPlaced
  <2>1. Known(term, screen) /\ term.remoteLine = cursor.line /\ term.remoteColumn = cursor.column
    BY DEF Placed, AtCursor
  <2>2. RowOf(cursor.line) = screen.y
    BY <2>1, Numbers DEF RowOf
  <2>3. Position(screen) = cursor.column /\ cursor.column < screen.width
    BY <2>1 DEF Known
  <2>4. ~screen.wrap
    BY <2>3, Numbers DEF Position
  <2> QED BY <2>2, <2>3, <2>4 DEF Position
<1> QED BY <1>1, PlacedAlways, PTL

----------------------------------------------------------------------------
(***************************************************************************)
(* Whether the terminal's cursor is seen.                                  *)
(***************************************************************************)
\* What the object has hidden is hidden, and unless a reset forgot it the
\* other way round; and it hides the cursor when the console does.
Hiding ==
  ~term.plainMode =>
    /\ term.cursorHidden => ~screen.visible
    /\ ~term.cursorHidden /\ ~screen.visible => wasReset
    /\ phase = "idle" /\ ~wasReset => (term.cursorHidden <=> cursor = NoCursor)
    /\ phase = "scraping" /\ cursor = NoCursor => term.cursorHidden

\* A call keeps what is known of it.
LEMMA HidingCall ==
  ASSUME Types, Hiding, ~term.plainMode, NEW u \in Object, Call(u), u.plainMode = term.plainMode,
         \A w \in BOOLEAN : Seen(screen, term, w) => Seen(screen, u, w)
  PROVE  /\ ~term'.plainMode /\ term'.cursorHidden = u.cursorHidden
         /\ term'.cursorHidden => ~screen'.visible
         /\ ~term'.cursorHidden /\ ~screen'.visible => wasReset'
<1>1. Output(u) /\ (wasReset /\ "hide" \notin KindsOf(u.out) => wasReset') /\ wasReset \in BOOLEAN
  <2>1. ~u.plainMode
    OBVIOUS
  <2> QED BY <2>1, CallHistory DEF Call, Types, StateInv
<1>2. At(screen, u) = screen' /\ term'.cursorHidden = u.cursorHidden /\ ~term'.plainMode
  BY <1>1, OutputIs
<1>3. At(screen, term) = screen /\ KindsOf(term.out) = {}
  <2>1. term \in Object /\ term.out = <<>> /\ screen \in Screen
    BY DEF Types, ObjectInv, StateInv
  <2> QED BY <2>1, AtNothing DEF KindsOf
<1>4. Seen(screen, term, wasReset)
  BY <1>3 DEF Hiding, Seen
<1>5. Seen(screen, u, wasReset)
  BY <1>1, <1>4
<1> QED BY <1>1, <1>2, <1>5 DEF Seen

\* At the beginning of a scrape.
LEMMA HidingBegin ==
  ASSUME Types, Hiding, NEW newTop \in 0..MaxLine, NEW last \in -1..MaxLine,
         NEW newCursor \in Cursors, BeginScrape(newTop, last, newCursor)
  PROVE  Hiding'
<1> SUFFICES ASSUME ~term'.plainMode PROVE Hiding'
  BY DEF Hiding
<1>1. PICK u \in Object : Begins(u, newCursor)
  BY BeginHides
<1>2. /\ Call(u) /\ u.plainMode = term.plainMode
      /\ newCursor = NoCursor => Hid(term, u)
      /\ ~term.plainMode => \A w \in BOOLEAN : Seen(screen, term, w) => Seen(screen, u, w)
  BY <1>1 DEF Begins
<1>3. ~term.plainMode
  BY <1>2, OutputIs DEF Call
<1>4. /\ term'.cursorHidden = u.cursorHidden
      /\ term'.cursorHidden => ~screen'.visible
      /\ ~term'.cursorHidden /\ ~screen'.visible => wasReset'
  BY <1>2, <1>3, HidingCall
<1>5. phase' = "scraping" /\ cursor' = newCursor
  BY DEF BeginScrape
<1> QED BY <1>2, <1>3, <1>4, <1>5 DEF Hiding, Hid

\* While lines are scraped.
LEMMA HidingScrape ==
  ASSUME Types, Placed, Hiding, NEW line \in todo, NEW data \in LineData, Scraped(line, data)
  PROVE  Hiding'
<1> SUFFICES ASSUME ~term'.plainMode PROVE Hiding'
  BY DEF Hiding
<1>1. phase = "scraping" /\ phase' = phase /\ cursor' = cursor
  BY DEF Scraped
<1>2. CASE Leaves(line, data)
  <2>1. term' = term /\ screen' = screen /\ wasReset' = wasReset
    BY <1>2 DEF Leaves
  <2> QED BY <1>1, <2>1 DEF Hiding
<1>3. ASSUME NEW u \in Object, Sends(u, line, data) PROVE Hiding'
  <2>1. /\ Call(u) /\ u.plainMode = term.plainMode
        /\ ~term.plainMode /\ term.cursorHidden => u.cursorHidden
        /\ ~term.plainMode => \A w \in BOOLEAN : Seen(screen, term, w) => Seen(screen, u, w)
    BY <1>3 DEF Sends, LineRemembered, SameModes
  <2>2. ~term.plainMode
    BY <2>1, OutputIs DEF Call
  <2>3. /\ term'.cursorHidden = u.cursorHidden
        /\ term'.cursorHidden => ~screen'.visible
        /\ ~term'.cursorHidden /\ ~screen'.visible => wasReset'
    BY <2>1, <2>2, HidingCall
  <2> QED BY <1>1, <2>1, <2>2, <2>3 DEF Hiding
<1> QED BY <1>2, <1>3, ScrapeSends

\* At its end.
LEMMA HidingEnd ==
  ASSUME Types, Placed, Hiding, EndScrape
  PROVE  Hiding'
<1> SUFFICES ASSUME ~term'.plainMode PROVE Hiding'
  BY DEF Hiding
<1>1. phase = "scraping" /\ phase' = "idle" /\ cursor' = cursor
  BY DEF EndScrape
<1>2. CASE cursor = NoCursor
  <2>1. term' = term /\ screen' = screen /\ wasReset' = wasReset
    BY <1>2 DEF EndScrape
  <2> QED BY <1>1, <1>2, <2>1 DEF Hiding
<1>3. CASE cursor # NoCursor
  <2>1. PICK u \in Object :
          /\ Call(u) /\ CursorSet(term, u, cursor.line, cursor.column)
          /\ ~term.plainMode => \A w \in BOOLEAN : Seen(screen, term, w) => Seen(screen, u, w)
    BY <1>3, EndShows
  <2>2. u.plainMode = term.plainMode /\ (~term.plainMode => u.cursorHidden = FALSE)
    BY <2>1 DEF CursorSet, CursorKept, SameModes
  <2>3. ~term.plainMode
    BY <2>1, <2>2, OutputIs DEF Call
  <2>4. /\ term'.cursorHidden = u.cursorHidden
        /\ term'.cursorHidden => ~screen'.visible
        /\ ~term'.cursorHidden /\ ~screen'.visible => wasReset'
    BY <2>1, <2>2, <2>3, HidingCall
  <2> QED BY <1>1, <1>3, <2>2, <2>3, <2>4 DEF Hiding
<1> QED BY <1>2, <1>3

\* When all is forgotten.
LEMMA HidingReset ==
  ASSUME Types, Hiding, NEW newTop \in 0..MaxLine, NEW newDirect \in BOOLEAN, Reset(newTop, newDirect)
  PROVE  Hiding'
<1> SUFFICES ASSUME ~term'.plainMode PROVE Hiding'
  BY DEF Hiding
<1>1. term \in Object /\ term.out = <<>> /\ screen \in Screen /\ newTop \in Int
  BY DEF Types, ObjectInv, StateInv
<1>2. PICK u : u = reset(term, TRUE, newTop)
  OBVIOUS
<1>3. Forgotten(term, u, newTop)
  BY <1>1, <1>2, ResetFacts
<1>4. /\ phase = "idle" /\ Output(u) /\ phase' = phase /\ cursor' = cursor
      /\ wasReset' = (wasReset \/ term.plainMode \/ term.cursorHidden)
  BY <1>2 DEF Reset
<1>5. /\ u \in Object /\ u.plainMode = term.plainMode /\ u.cursorHidden = FALSE
      /\ \A e \in Screen : ~term.plainMode =>
           Becomes(Run(e, u.out), [r \in 0..(Height - 1) |-> BlankLine(Default)], e.width, 0, 0,
                   FALSE, Default, e.visible)
  BY <1>3 DEF Forgotten
<1>6. term'.plainMode = u.plainMode /\ term'.cursorHidden = u.cursorHidden /\ At(screen, u) = screen'
  BY <1>4, <1>5, OutputIs
<1>7. ~term.plainMode /\ screen'.visible = screen.visible
  BY <1>1, <1>5, <1>6 DEF Becomes, At
<1>8. (wasReset => wasReset') /\ (term.cursorHidden => wasReset')
  BY <1>4
<1> QED BY <1>4, <1>5, <1>6, <1>7, <1>8 DEF Hiding

\* When the window is made narrower or wider.
LEMMA HidingResize ==
  ASSUME Types, Hiding, NEW width \in Widths, NEW keeps \in BOOLEAN, Resize(width, keeps)
  PROVE  Hiding'
<1>1. /\ screen' = Resized(screen, width, keeps) /\ term' = term /\ cursor' = cursor
      /\ phase' = phase /\ wasReset' = wasReset
  BY DEF Resize
<1>2. screen'.visible = screen.visible
  BY <1>1, Numbers, ResizedFacts
<1> QED BY <1>1, <1>2 DEF Hiding

\* When the session starts.
LEMMA HidingInit == TermInit => Hiding
<1> SUFFICES ASSUME TermInit PROVE Hiding
  OBVIOUS
<1>1. PICK plain \in BOOLEAN : term = reset(NewObject(plain), FALSE, 0)
  BY TerminalAssumption DEF TermInit
<1>2. screen = NewTerminal /\ cursor = [line |-> 0, column |-> 0] /\ phase = "idle"
  BY DEF TermInit
<1>3. term.cursorHidden = FALSE
  BY <1>1 DEF reset, NewObject
<1>4. screen.visible = TRUE /\ cursor # NoCursor
  <2>1. cursor.line = 0 /\ NoCursor.line = -1
    BY <1>2 DEF NoCursor
  <2>2. screen.visible = TRUE
    BY <1>2 DEF NewTerminal
  <2> QED BY <2>1, <2>2
<1> QED BY <1>2, <1>3, <1>4 DEF Hiding

\* When nothing happens.
LEMMA HidingStutter == Hiding /\ UNCHANGED termVars => Hiding'
BY DEF Hiding, termVars

\* Every step keeps it so.
LEMMA HidingStep == Types /\ Placed /\ Hiding /\ [TermNext]_termVars => Hiding'
<1> SUFFICES ASSUME Types, Placed, Hiding, TermNext PROVE Hiding'
  BY HidingStutter
<1>1. ASSUME NEW newTop \in 0..MaxLine, NEW last \in -1..MaxLine, NEW newCursor \in Cursors,
             BeginScrape(newTop, last, newCursor)
      PROVE  Hiding'
  BY <1>1, HidingBegin
<1>2. ASSUME NEW line \in todo, NEW data \in LineData, ScrapeLine(line, data) PROVE Hiding'
  <2>1. Scraped(line, data)
    BY <1>2, ScrapeLineFacts
  <2> QED BY <1>2, <2>1, HidingScrape
<1>3. ASSUME EndScrape PROVE Hiding'
  BY <1>3, HidingEnd
<1>4. ASSUME NEW newTop \in 0..MaxLine, NEW newDirect \in BOOLEAN, Reset(newTop, newDirect)
      PROVE  Hiding'
  BY <1>4, HidingReset
<1>5. ASSUME NEW width \in Widths, NEW keeps \in BOOLEAN, Resize(width, keeps) PROVE Hiding'
  BY <1>5, HidingResize
<1> QED BY <1>1, <1>2, <1>3, <1>4, <1>5 DEF TermNext

\* It holds throughout.
LEMMA HidingAlways == TermSpec => [](Types /\ Placed /\ Hiding)
BY TypesInit, TypesStep, PlacedInit, PlacedStep, HidingInit, HidingStep, PTL DEF TermSpec

\* Between scrapes the terminal shows a cursor exactly when the console does,
\* unless a reset forgot that it was hidden.
THEOREM CursorIsShown == TermSpec => []CursorShownUntilReset
<1>1. Types /\ Hiding => CursorShownUntilReset
  BY DEF Types, StateInv, Hiding, CursorShownUntilReset, CursorShown
<1> QED BY <1>1, HidingAlways, PTL

\* While a line is sent past the place of the cursor, the cursor is hidden.
THEOREM CursorStaysBehind == TermSpec => CursorNeverOvershoots
<1> DEFINE Behind == \A l \in todo \ todo' :
                       l = cursor.line /\ screen' # screen /\ screen'.visible /\ ~term.plainMode =>
                         screen'.x <= cursor.column /\ ~screen'.wrap
<1>1. Types /\ Placed /\ Hiding /\ (Types /\ Placed /\ Hiding)' /\ [TermNext]_termVars => Behind
  <2> SUFFICES ASSUME Types, Placed, Hiding', [TermNext]_termVars,
                      NEW l \in todo \ todo', l = cursor.line, screen' # screen,
                      screen'.visible, ~term.plainMode
               PROVE  screen'.x <= cursor.column /\ ~screen'.wrap
    OBVIOUS
  <2>1. PICK line \in todo, data \in LineData : ScrapeLine(line, data)
    <3>1. todo' # todo /\ todo # {}
      OBVIOUS
    <3>2. phase = "scraping"
      BY <3>1 DEF Types, StateInv, ScrapeInv
    <3>3. TermNext
      BY <3>1 DEF termVars
    <3> QED BY <3>1, <3>2, <3>3 DEF TermNext, BeginScrape, EndScrape, Reset, Resize
  <2>2. Scraped(line, data)
    BY <2>1, ScrapeLineFacts
  <2>3. line = l /\ cursor.line = line /\ phase = "scraping"
    BY <2>2 DEF Scraped
  <2>4. CursorOn(line) = cursor.column /\ cursor.column \in Nat /\ cursor.column < screen.width
    <3>1. cursor # NoCursor
      <4>1. cursor.line # -1
        BY <2>3, Numbers
      <4> QED BY <4>1 DEF NoCursor
    <3> QED BY <2>3, <3>1, Numbers DEF CursorOn, Types, ScrapeInv
  <2>5. PICK u \in Object : Sends(u, line, data)
    BY <2>2, ScrapeSends DEF Leaves
  <2>6. /\ Call(u) /\ u.plainMode = term.plainMode
        /\ (cursor.column # -1 /\ u.remoteColumn > cursor.column => u.cursorHidden)
        /\ screen' \in Screen /\ screen'.width = screen.width /\ Position(screen') <= u.remoteColumn
    BY <2>4, <2>5 DEF Sends, LineRemembered, SameModes, LineShown
  <2>7. ~u.cursorHidden
    BY <2>6, OutputIs DEF Call, Hiding
  <2>8. u.remoteColumn <= cursor.column /\ u.remoteColumn \in Nat
    BY <2>4, <2>6, <2>7, ObjectParts
  <2>9. Position(screen') <= cursor.column /\ cursor.column < screen'.width
        /\ screen'.x \in Nat /\ screen'.width \in Nat
    <3>1. screen'.x \in Nat /\ screen'.width \in Nat
      BY <2>6, ScreenParts, ScreenNumbers
    <3>2. Position(screen') \in Nat
      BY <3>1 DEF Position
    <3> QED BY <2>4, <2>6, <2>8, <3>1, <3>2
  <2> QED BY <2>4, <2>9 DEF Position
<1>2. TermSpec => [][Behind]_termVars
  BY <1>1, HidingAlways, PTL DEF TermSpec
<1> QED BY <1>2 DEF CursorNeverOvershoots

----------------------------------------------------------------------------
(***************************************************************************)
(* What the terminal shows.                                                *)
(***************************************************************************)
OnScreen(t, e, l) == First(t, e) <= l /\ l < First(t, e) + Height

RowAt(t, e, l) == e.rows[l - First(t, e)]

Empty(row) == \A i \in 1..MaxWidth : row[i].ch = Space

\* A row shows what is remembered of a line, with the columns that a narrower
\* window hid; once the window was made narrower or wider, blanks may have
\* another color, and may have come in place of what was hidden.
AgreesTo(row, o, width, n) ==
  \A i \in 1..MaxWidth :
    IF i > Len(o.data) THEN row[i].ch = Space
    ELSE \/ row[i] = o.data[i]
         \/ /\ row[i].ch = Space /\ n > 0
            /\ o.data[i].ch = Space \/ i > o.length \/ i > width

\* A line that is remembered is on its row, and there is nothing on that of a
\* line of which nothing was seen.
LineSeen(l) ==
  /\ l \in DOMAIN buffer => AgreesTo(RowAt(term, screen, l), buffer[l], screen.width, resizes)
  /\ (l >= top \/ l \in todo) /\ l \notin DOMAIN buffer => Empty(RowAt(term, screen, l))

Shown ==
  ~term.plainMode /\ astray # "text" =>
    \A l \in Int : OnScreen(term, screen, l) => LineSeen(l)

FullLength == resizes = 0 => \A l \in DOMAIN buffer : buffer[l].length = MaxWidth

\* There is nothing on a blank line.
LEMMA BlankIsEmpty == \A color : Empty(BlankLine(color))
BY DEF Empty, BlankLine, blankChar

(* detectChangeAndSetLine answers FALSE only if the row shows the line: a  *)
(* line that is not sent need not be sent.                                 *)
THEOREM UnsentLineIsShown ==
  ASSUME NEW o \in Remembered, NEW data \in Seq(Cell), Len(data) \in 1..MaxWidth, ~detectChange(o, data),
         NEW n \in Nat, n = 0 => o.length = MaxWidth, NEW row, AgreesTo(row, o, Len(data), n)
  PROVE  AgreesTo(row, setLine(o, data), Len(data), n)
<1> DEFINE p == setLine(o, data)
<1>1. /\ p.length = Len(data)
      /\ Len(p.data) = IF Len(o.data) < Len(data) THEN Len(data) ELSE Len(o.data)
      /\ \A i \in 1..Len(data) : p.data[i] = data[i]
      /\ \A i \in (Len(data) + 1)..Len(o.data) : p.data[i] = o.data[i]
  BY SetLineFacts
<1>2. /\ o.length \in Nat /\ o.length > 0 /\ o.length <= Len(o.data) /\ Len(o.data) \in Nat
      /\ Len(data) \in Nat /\ Len(data) > 0 /\ Len(data) <= MaxWidth /\ MaxWidth \in Nat
  BY ScreenNumbers DEF Remembered
<1> HIDE DEF p
<1>3. \A i \in 1..MaxWidth : IF i > Len(o.data) THEN row[i].ch = Space
        ELSE \/ row[i] = o.data[i]
             \/ /\ row[i].ch = Space /\ n > 0
                /\ o.data[i].ch = Space \/ i > o.length \/ i > Len(data)
  BY DEF AgreesTo
<1>4. ASSUME NEW i \in 1..MaxWidth, i <= Len(data), i <= o.length => data[i] = o.data[i],
             o.length < i => data[i].ch = Space /\ (i <= Len(o.data) => data[i] = o.data[i]),
             o.length < Len(data) \/ Len(data) <= o.length
      PROVE  row[i] = p.data[i] \/ (row[i].ch = Space /\ n > 0 /\ p.data[i].ch = Space)
  <2>1. i \in 1..Len(data) /\ p.data[i] = data[i]
    BY <1>1, <1>2, <1>4
  <2>2. CASE i <= o.length
    BY <1>2, <1>3, <1>4, <2>1, <2>2
  <2>3. CASE ~(i <= o.length) /\ i <= Len(o.data)
    BY <1>2, <1>3, <1>4, <2>1, <2>3
  <2>4. CASE i > Len(o.data)
    <3>1. o.length < Len(data) /\ n > 0
      BY <1>2, <1>4, <2>4
    <3> QED BY <1>2, <1>3, <1>4, <2>1, <2>4, <3>1
  <2> QED BY <1>2, <2>2, <2>3, <2>4
<1>5. ASSUME NEW i \in 1..MaxWidth, i <= Len(data)
      PROVE  /\ i <= o.length => data[i] = o.data[i]
             /\ o.length < i => data[i].ch = Space /\ (i <= Len(o.data) => data[i] = o.data[i])
  <2>1. CASE o.length = Len(data)
    <3>1. areLinesEqual(o.data, data, Len(data))
      BY <1>2, <2>1 DEF detectChange
    <3> QED BY <1>2, <1>5, <2>1, <3>1 DEF areLinesEqual
  <2>2. CASE o.length > Len(data)
    <3>1. SameShorter(o, data)
      BY <1>2, <2>2 DEF detectChange
    <3> QED BY <1>2, <1>5, <2>2, <3>1 DEF SameShorter, areLinesEqual
  <2>3. CASE o.length < Len(data)
    <3>1. ~(o.length = 0) /\ ~(o.length = Len(data)) /\ ~(o.length > Len(data))
      BY <1>2, <2>3
    <3>2. SameLonger(o, data)
      BY <3>1 DEF detectChange
    <3>3. PICK color : /\ areLinesEqual(o.data, data, o.length)
                       /\ isLineBlank(o.data, o.length + 1, Reexposed(o, Len(data)), color)
                       /\ isLineBlank(data, o.length + 1, Len(data), color)
      BY <3>2 DEF SameLonger
    <3>4. i <= o.length => data[i] = o.data[i]
      BY <1>2, <3>3 DEF areLinesEqual
    <3>5. o.length < i => data[i] = blankChar(color)
      BY <1>2, <1>5, <3>3 DEF isLineBlank
    <3>6. o.length < i /\ i <= Len(o.data) => o.data[i] = blankChar(color)
      BY <1>2, <1>5, <3>3 DEF isLineBlank, Reexposed
    <3> QED BY <3>4, <3>5, <3>6 DEF blankChar
  <2> QED BY <1>2, <2>1, <2>2, <2>3
<1>6. ASSUME NEW i \in 1..MaxWidth
      PROVE  IF i > Len(p.data) THEN row[i].ch = Space
             ELSE \/ row[i] = p.data[i]
                  \/ /\ row[i].ch = Space /\ n > 0
                     /\ p.data[i].ch = Space \/ i > p.length \/ i > Len(data)
  <2>1. CASE i <= Len(data)
    <3>1. row[i] = p.data[i] \/ (row[i].ch = Space /\ n > 0 /\ p.data[i].ch = Space)
      BY <1>2, <1>4, <1>5, <2>1
    <3>2. ~(i > Len(p.data))
      BY <1>1, <1>2, <2>1
    <3> QED BY <3>1, <3>2
  <2>2. CASE i > Len(data) /\ i <= Len(o.data)
    <3>1. p.data[i] = o.data[i] /\ ~(i > Len(p.data))
      BY <1>1, <1>2, <2>2
    <3> QED BY <1>2, <1>3, <2>2, <3>1
  <2>3. CASE i > Len(data) /\ i > Len(o.data)
    <3>1. i > Len(p.data)
      BY <1>1, <1>2, <2>3
    <3> QED BY <1>3, <2>3, <3>1
  <2> QED BY <1>2, <2>1, <2>2, <2>3
<1> QED BY <1>6 DEF AgreesTo, p

(* A line that is sent is on the row it was sent to, and what the window   *)
(* hides is as it was (sendLine erases no further than it can be seen).    *)
THEOREM SentLineIsShown ==
  ASSUME NEW o, o = NoLine \/ o \in Remembered, NEW data \in Seq(Cell), Len(data) \in 1..MaxWidth,
         NEW n \in Nat, NEW row, AgreesTo(row, o, Len(data), n), NEW new,
         \A i \in 1..Len(data) : new[i] = data[i],
         \A i \in 1..MaxWidth : i > Len(data) => new[i] = row[i]
  PROVE  AgreesTo(new, setLine(o, data), Len(data), n)
<1> DEFINE p == setLine(o, data)
<1>1. /\ p.length = Len(data)
      /\ Len(p.data) = IF Len(o.data) < Len(data) THEN Len(data) ELSE Len(o.data)
      /\ \A i \in 1..Len(data) : p.data[i] = data[i]
      /\ \A i \in (Len(data) + 1)..Len(o.data) : p.data[i] = o.data[i]
  BY SetLineFacts
<1>2. Len(o.data) \in Nat /\ Len(data) \in Nat
  BY DEF Remembered, NoLine
<1> HIDE DEF p
<1>3. \A i \in 1..MaxWidth : IF i > Len(o.data) THEN row[i].ch = Space
        ELSE \/ row[i] = o.data[i]
             \/ /\ row[i].ch = Space /\ n > 0
                /\ o.data[i].ch = Space \/ i > o.length \/ i > Len(data)
  BY DEF AgreesTo
<1>4. ASSUME NEW i \in 1..MaxWidth
      PROVE  IF i > Len(p.data) THEN new[i].ch = Space
             ELSE \/ new[i] = p.data[i]
                  \/ /\ new[i].ch = Space /\ n > 0
                     /\ p.data[i].ch = Space \/ i > p.length \/ i > Len(data)
  <2>0. i \in Nat /\ i > 0
    BY ScreenNumbers
  <2>1. CASE i <= Len(data)
    <3>1. i \in 1..Len(data) /\ ~(i > Len(p.data))
      BY <1>1, <1>2, <2>0, <2>1
    <3> QED BY <1>1, <3>1
  <2>2. CASE i > Len(data) /\ i <= Len(o.data)
    <3>1. p.data[i] = o.data[i] /\ ~(i > Len(p.data)) /\ new[i] = row[i]
      BY <1>1, <1>2, <2>0, <2>2
    <3> QED BY <1>2, <1>3, <2>0, <2>2, <3>1
  <2>3. CASE i > Len(data) /\ i > Len(o.data)
    <3>1. i > Len(p.data) /\ new[i] = row[i]
      BY <1>1, <1>2, <2>3
    <3> QED BY <1>3, <2>3, <3>1
  <2> QED BY <1>2, <2>0, <2>1, <2>2, <2>3
<1> QED BY <1>4 DEF AgreesTo, p

(* Once the line was seen at the width the terminal had, the terminal may  *)
(* be given another: what a narrower one hides it may keep or lose.        *)
THEOREM HiddenColumns ==
  ASSUME NEW o \in Remembered, NEW n \in Nat, NEW row, NEW new, NEW width \in Nat,
         NEW keeps \in BOOLEAN, NEW blank, blank.ch = Space, AgreesTo(row, o, o.length, n),
         \A i \in 1..MaxWidth : new[i] = IF i <= width \/ keeps THEN row[i] ELSE blank
  PROVE  AgreesTo(new, o, width, n + 1)
<1>1. Len(o.data) \in Nat /\ n + 1 > 0 /\ MaxWidth \in Nat
  BY ScreenNumbers DEF Remembered
<1>2. ASSUME NEW i \in 1..MaxWidth
      PROVE  IF i > Len(o.data) THEN new[i].ch = Space
             ELSE \/ new[i] = o.data[i]
                  \/ /\ new[i].ch = Space /\ n + 1 > 0
                     /\ o.data[i].ch = Space \/ i > o.length \/ i > width
  <2>1. i \in Nat
    BY <1>1
  <2>2. IF i > Len(o.data) THEN row[i].ch = Space
        ELSE \/ row[i] = o.data[i]
             \/ /\ row[i].ch = Space
                /\ o.data[i].ch = Space \/ i > o.length
    BY DEF AgreesTo
  <2>3. CASE i <= width \/ keeps
    <3>1. new[i] = row[i]
      BY <2>3
    <3> QED BY <1>1, <2>2, <3>1
  <2>4. CASE ~(i <= width) /\ ~keeps
    <3>1. new[i].ch = Space /\ i > width
      BY <2>1, <2>4
    <3> QED BY <1>1, <3>1
  <2> QED BY <2>3, <2>4
<1> QED BY <1>2 DEF AgreesTo

\* A line of which nothing is remembered agrees to an empty row.
LEMMA EmptyAgrees ==
  ASSUME NEW row, Empty(row), NEW width, NEW n
  PROVE  AgreesTo(row, NoLine, width, n)
<1>1. Len(NoLine.data) = 0
  BY DEF NoLine
<1>2. \A i \in 1..MaxWidth : i > Len(NoLine.data)
  BY <1>1, ScreenNumbers
<1> QED BY <1>2 DEF AgreesTo, Empty

\* The row on which a line is found after the screen has scrolled.
LEMMA RolledRow ==
  ASSUME NEW t \in Object, NEW u \in Object, NEW e \in Screen, NEW g \in Screen,
         Shift(t, u, e, g) \in Nat, Shift(t, u, e, g) = 0 \/ g.y = Height - 1,
         NEW l \in Int, OnScreen(u, g, l)
  PROVE  /\ l - First(u, g) \in 0..(Height - 1)
         /\ l < First(t, e) + Height =>
              /\ OnScreen(t, e, l)
              /\ Rolled(e, Shift(t, u, e, g))[l - First(u, g)] = RowAt(t, e, l)
         /\ ~(l < First(t, e) + Height) =>
              Rolled(e, Shift(t, u, e, g))[l - First(u, g)] = BlankLine(e.pen)
<1>1. /\ First(u, g) = First(t, e) + Shift(t, u, e, g) /\ First(t, e) <= First(u, g)
      /\ First(t, e) \in Int /\ First(u, g) \in Int /\ Height \in Nat
  BY ShiftFirst, ScreenNumbers
<1> DEFINE r == l - First(u, g)
           shift == Shift(t, u, e, g)
<1>2. r \in 0..(Height - 1) /\ r + shift = l - First(t, e)
  BY <1>1 DEF OnScreen
<1>3. Rolled(e, shift)[r] = IF r + shift < Height THEN e.rows[r + shift] ELSE BlankLine(e.pen)
  BY <1>2 DEF Rolled
<1> HIDE DEF r, shift
<1>4. r + shift < Height <=> l < First(t, e) + Height
  BY <1>1, <1>2
<1>5. l < First(t, e) + Height => OnScreen(t, e, l)
  BY <1>1 DEF OnScreen
<1>6. r + shift < Height => Rolled(e, shift)[r] = RowAt(t, e, l)
  BY <1>2, <1>3 DEF RowAt
<1> QED BY <1>2, <1>3, <1>4, <1>5, <1>6 DEF r, shift

\* At the beginning of a scrape.
LEMMA ShownBegin ==
  ASSUME Types, Shown, NEW newTop \in 0..MaxLine, NEW last \in -1..MaxLine,
         NEW newCursor \in Cursors, BeginScrape(newTop, last, newCursor)
  PROVE  Shown'
<1> SUFFICES ASSUME ~term'.plainMode, astray' # "text", NEW l \in Int, OnScreen(term', screen', l)
             PROVE  LineSeen(l)'
  BY DEF Shown
<1>1. PICK u \in Object : Begins(u, newCursor)
  BY BeginHides
<1>2. /\ Call(u) /\ SameScreen(screen, screen') /\ u.plainMode = term.plainMode
      /\ u.remoteLine = term.remoteLine
  BY <1>1 DEF Begins
<1>3. term'.plainMode = u.plainMode /\ term'.remoteLine = u.remoteLine
  BY <1>2, OutputIs DEF Call
<1>4. ~term.plainMode /\ astray # "text"
  BY <1>2, <1>3, CallHistory
<1>5. /\ top' = newTop /\ top <= newTop /\ todo' = top..last /\ buffer' = buffer /\ resizes' = resizes
  BY DEF BeginScrape
<1>6. OnScreen(term, screen, l) /\ RowAt(term', screen', l) = RowAt(term, screen, l)
      /\ screen'.width = screen.width
  BY <1>2, <1>3 DEF OnScreen, RowAt, First, SameScreen
<1>7. LineSeen(l)
  BY <1>4, <1>6 DEF Shown
<1>8. l >= top' \/ l \in todo' => l >= top
  BY <1>5, Numbers
<1> QED BY <1>5, <1>6, <1>7, <1>8 DEF LineSeen

\* At its end.
LEMMA ShownEnd ==
  ASSUME Types, Placed, Shown, EndScrape
  PROVE  Shown'
<1> SUFFICES ASSUME ~term'.plainMode, astray' # "text", NEW l \in Int, OnScreen(term', screen', l)
             PROVE  LineSeen(l)'
  BY DEF Shown
<1>1. /\ buffer' = Keep(buffer) /\ todo' = todo /\ todo = {} /\ top' = top /\ resizes' = resizes
  BY DEF EndScrape
<1>2. \A k : /\ k \in DOMAIN buffer' => k \in DOMAIN buffer /\ buffer'[k] = buffer[k]
             /\ k \in DOMAIN buffer /\ k >= top => k \in DOMAIN buffer'
  BY <1>1 DEF Keep
<1>3. CASE cursor = NoCursor
  <2>1. term' = term /\ screen' = screen /\ astray' = astray
    BY <1>3 DEF EndScrape
  <2>2. LineSeen(l)
    BY <2>1 DEF Shown
  <2> QED BY <1>1, <1>2, <2>1, <2>2 DEF LineSeen
<1>4. CASE cursor # NoCursor
  <2>1. PICK u \in Object :
          /\ Call(u) /\ CursorSet(term, u, cursor.line, cursor.column)
          /\ ~term.plainMode => CursorMoved(term, u, screen, screen')
    BY <1>4, EndShows
  <2>2. u.plainMode = term.plainMode
    BY <2>1 DEF CursorSet, CursorKept, SameModes
  <2>3. term'.plainMode = u.plainMode /\ First(term', screen') = First(u, screen')
    BY <2>1, OutputIs DEF Call
  <2>4. /\ ~term.plainMode /\ astray # "text" /\ OnScreen(u, screen', l)
        /\ RowAt(term', screen', l) = RowAt(u, screen', l)
    BY <2>1, <2>2, <2>3, CallHistory DEF OnScreen, RowAt
  <2>5. /\ screen' \in Screen /\ screen'.width = screen.width
        /\ Shift(term, u, screen, screen') \in Nat
        /\ (Shift(term, u, screen, screen') = 0 \/ screen'.y = Height - 1)
        /\ \A r \in 0..(Height - 1) : screen'.rows[r] = Rolled(screen, Shift(term, u, screen, screen'))[r]
    BY <2>1, <2>4 DEF CursorMoved
  <2>6. /\ l < First(term, screen) + Height =>
             /\ OnScreen(term, screen, l)
             /\ RowAt(u, screen', l) = RowAt(term, screen, l)
        /\ ~(l < First(term, screen) + Height) => RowAt(u, screen', l) = BlankLine(screen.pen)
    BY <2>4, <2>5, Numbers, RolledRow DEF RowAt
  <2>7. CASE l < First(term, screen) + Height
    <3>1. LineSeen(l)
      BY <2>4, <2>6, <2>7 DEF Shown
    <3> QED BY <1>1, <1>2, <2>4, <2>5, <2>6, <2>7, <3>1 DEF LineSeen
  <2>8. CASE ~(l < First(term, screen) + Height)
    <3>1. l \notin DOMAIN buffer
      BY <2>4, <2>8 DEF Placed, InReach
    <3> QED BY <1>2, <2>4, <2>6, <2>8, <3>1, BlankIsEmpty DEF LineSeen
  <2> QED BY <2>7, <2>8
<1> QED BY <1>3, <1>4

\* The line that is scraped, when it is taken to be on the terminal already.
LEMMA ShownLeft ==
  ASSUME Types, Placed, Shown, FullLength, NEW line \in todo, NEW data \in LineData,
         Scraped(line, data), Leaves(line, data)
  PROVE  Shown'
<1> SUFFICES ASSUME ~term'.plainMode, astray' # "text", NEW l \in Int, OnScreen(term', screen', l)
             PROVE  LineSeen(l)'
  BY DEF Shown
<1>1. /\ todo' = todo \ {line} /\ DOMAIN buffer' = DOMAIN buffer \union {line}
      /\ buffer'[line] = setLine(Old(line), data)
      /\ \A k \in DOMAIN buffer : k # line => buffer'[k] = buffer[k]
      /\ top' = top /\ resizes' = resizes
  BY DEF Scraped
<1>2. term' = term /\ screen' = screen /\ astray' = astray /\ ~detectChange(Old(line), data)
  BY DEF Leaves
<1>3. LineSeen(l)
  BY <1>2 DEF Shown
<1>4. data \in Seq(Cell) /\ Len(data) = screen.width /\ Len(data) \in 1..MaxWidth
      /\ Len(data) \in Nat /\ Len(data) > 0
  BY Numbers, LineDataFacts
<1>5. line \in DOMAIN buffer /\ Old(line) = buffer[line]
  BY <1>2, <1>4, NothingRemembered DEF Old
<1>6. CASE l = line
  <2>1. PICK o : o = buffer[line]
    OBVIOUS
  <2>2. o \in Remembered /\ resizes \in Nat /\ (resizes = 0 => o.length = MaxWidth)
    BY <1>5, <2>1, Numbers DEF Types, BufferInv, FullLength
  <2>3. PICK row : row = RowAt(term, screen, l)
    OBVIOUS
  <2>4. AgreesTo(row, o, Len(data), resizes)
    BY <1>3, <1>4, <1>5, <1>6, <2>1, <2>3 DEF LineSeen
  <2>5. ~detectChange(o, data)
    BY <1>2, <1>5, <2>1
  <2>6. AgreesTo(row, setLine(o, data), Len(data), resizes)
    BY <1>4, <2>2, <2>4, <2>5, UnsentLineIsShown
  <2> QED BY <1>1, <1>2, <1>4, <1>5, <1>6, <2>1, <2>3, <2>6 DEF LineSeen
<1>7. CASE l # line
  BY <1>1, <1>2, <1>3, <1>7 DEF LineSeen
<1> QED BY <1>6, <1>7

\* When it is sent.
LEMMA ShownSent ==
  ASSUME Types, Placed, Shown, NEW line \in todo, NEW data \in LineData,
         Scraped(line, data), NEW u \in Object, Sends(u, line, data)
  PROVE  Shown'
<1> SUFFICES ASSUME ~term'.plainMode, astray' # "text", NEW l \in Int, OnScreen(term', screen', l)
             PROVE  LineSeen(l)'
  BY DEF Shown
<1>1. /\ todo' = todo \ {line} /\ DOMAIN buffer' = DOMAIN buffer \union {line}
      /\ buffer'[line] = setLine(Old(line), data)
      /\ \A k \in DOMAIN buffer : k # line => buffer'[k] = buffer[k]
      /\ top' = top /\ resizes' = resizes
  BY DEF Scraped
<1>2. /\ Call(u) /\ u.plainMode = term.plainMode /\ u.remoteLine = line
      /\ ~term.plainMode => /\ KindsOf(u.out) \intersect {"put", "el"} # {}
                            /\ LineShown(term, u, screen, screen', data)
  BY DEF Sends, LineRemembered, SameModes
<1>3. term'.plainMode = u.plainMode /\ First(term', screen') = First(u, screen')
  BY <1>2, OutputIs DEF Call
<1>4. /\ ~term.plainMode /\ astray # "text" /\ OnScreen(u, screen', l)
      /\ RowAt(term', screen', l) = RowAt(u, screen', l)
  BY <1>2, <1>3, CallHistory DEF OnScreen, RowAt
<1>5. Known(term, screen) \/ KindsOf(u.out) \intersect {"cr", "col"} # {}
  <2>1. astray \in {"no", "cursor", "text"}
    BY DEF Types, StateInv
  <2>2. CASE astray = "no"
    BY <1>4, <2>2 DEF Placed
  <2>3. CASE astray = "cursor"
    BY <1>2, <1>4, <2>3, CallHistory
  <2> QED BY <1>4, <2>1, <2>2, <2>3
<1> DEFINE S == Shift(term, u, screen, screen')
<1>6. /\ screen' \in Screen /\ screen'.width = screen.width
      /\ S \in Nat /\ (S = 0 \/ screen'.y = Height - 1)
      /\ \A r \in (0..(Height - 1)) \ {screen'.y} : screen'.rows[r] = Rolled(screen, S)[r]
      /\ \A j \in 1..MaxWidth : j > screen.width =>
           screen'.rows[screen'.y][j] = Rolled(screen, S)[screen'.y][j]
      /\ \A j \in 1..screen.width : screen'.rows[screen'.y][j] = data[j]
  BY <1>2, <1>4, <1>5 DEF LineShown
<1>7. /\ l - First(u, screen') \in 0..(Height - 1)
      /\ l < First(term, screen) + Height =>
           /\ OnScreen(term, screen, l)
           /\ Rolled(screen, S)[l - First(u, screen')] = RowAt(term, screen, l)
      /\ ~(l < First(term, screen) + Height) =>
           Rolled(screen, S)[l - First(u, screen')] = BlankLine(screen.pen)
  BY <1>4, <1>6, Numbers, RolledRow
<1> HIDE DEF S
<1>8. l - First(u, screen') = screen'.y <=> l = line
  <2>1. screen'.y \in Int /\ line \in Int
    BY <1>6, Numbers, ScreenParts, ScreenNumbers
  <2>2. First(u, screen') = line - screen'.y
    BY <1>2 DEF First
  <2> QED BY <2>1, <2>2
<1>9. l < First(term, screen) + Height => LineSeen(l)
  BY <1>4, <1>7 DEF Shown
<1>10. ~(l < First(term, screen) + Height) => l \notin DOMAIN buffer
  BY <1>4 DEF Placed, InReach
<1>11. CASE l # line
  <2>1. RowAt(u, screen', l) = Rolled(screen, S)[l - First(u, screen')]
    BY <1>6, <1>7, <1>8, <1>11 DEF RowAt
  <2>2. CASE l < First(term, screen) + Height
    BY <1>1, <1>4, <1>6, <1>7, <1>9, <1>11, <2>1, <2>2 DEF LineSeen
  <2>3. CASE ~(l < First(term, screen) + Height)
    <3>1. Empty(BlankLine(screen.pen))
      BY BlankIsEmpty
    <3> QED BY <1>1, <1>4, <1>7, <1>10, <1>11, <2>1, <2>3, <3>1 DEF LineSeen
  <2> QED BY <2>2, <2>3
<1>12. CASE l = line
  <2>1. data \in Seq(Cell) /\ Len(data) = screen.width /\ Len(data) \in 1..MaxWidth /\ resizes \in Nat
    BY Numbers, LineDataFacts
  <2>2. PICK row : row = Rolled(screen, S)[screen'.y]
    OBVIOUS
  <2>3. PICK o : o = Old(line)
    OBVIOUS
  <2>4. o = NoLine \/ o \in Remembered
    BY <2>3 DEF Old, Types, BufferInv
  <2>5. AgreesTo(row, o, Len(data), resizes)
    <3>1. CASE line \in DOMAIN buffer
      <4>1. l < First(term, screen) + Height /\ o = buffer[line]
        BY <1>10, <1>12, <2>3, <3>1 DEF Old
      <4>2. row = RowAt(term, screen, l)
        BY <1>7, <1>8, <1>12, <2>2, <4>1
      <4> QED BY <1>9, <1>12, <2>1, <3>1, <4>1, <4>2 DEF LineSeen
    <3>2. CASE line \notin DOMAIN buffer
      <4>1. o = NoLine
        BY <2>3, <3>2 DEF Old
      <4>2. Empty(row)
        <5>1. CASE l < First(term, screen) + Height
          BY <1>7, <1>8, <1>9, <1>12, <2>2, <3>2, <5>1 DEF LineSeen
        <5>2. CASE ~(l < First(term, screen) + Height)
          BY <1>7, <1>8, <1>12, <2>2, <5>2, BlankIsEmpty
        <5> QED BY <5>1, <5>2
      <4> QED BY <4>1, <4>2, EmptyAgrees
    <3> QED BY <3>1, <3>2
  <2>6. PICK new : new = RowAt(u, screen', l)
    OBVIOUS
  <2>7. /\ \A i \in 1..Len(data) : new[i] = data[i]
        /\ \A i \in 1..MaxWidth : i > Len(data) => new[i] = row[i]
    BY <1>6, <1>8, <1>12, <2>1, <2>2, <2>6 DEF RowAt
  <2>8. AgreesTo(new, setLine(o, data), Len(data), resizes)
    BY <2>1, <2>4, <2>5, <2>7, SentLineIsShown
  <2> QED BY <1>1, <1>4, <1>6, <1>12, <2>1, <2>3, <2>6, <2>8 DEF LineSeen
<1> QED BY <1>11, <1>12

\* While lines are scraped.
LEMMA ShownScrape ==
  ASSUME Types, Placed, Shown, FullLength, NEW line \in todo, NEW data \in LineData,
         Scraped(line, data)
  PROVE  Shown'
BY ScrapeSends, ShownLeft, ShownSent

\* When all is forgotten.
LEMMA ShownReset ==
  ASSUME Types, NEW newTop \in 0..MaxLine, NEW newDirect \in BOOLEAN, Reset(newTop, newDirect)
  PROVE  Shown'
<1> SUFFICES ASSUME ~term'.plainMode, NEW l \in Int, OnScreen(term', screen', l)
             PROVE  LineSeen(l)'
  BY DEF Shown
<1>1. term \in Object /\ term.out = <<>> /\ screen \in Screen /\ newTop \in Int
  BY DEF Types, ObjectInv, StateInv
<1>2. PICK u : u = reset(term, TRUE, newTop)
  OBVIOUS
<1>3. Forgotten(term, u, newTop)
  BY <1>1, <1>2, ResetFacts
<1>4. Output(u) /\ buffer' = <<>>
  BY <1>2 DEF Reset
<1>5. /\ u \in Object /\ u.plainMode = term.plainMode /\ u.remoteLine = newTop
      /\ \A e \in Screen : ~term.plainMode =>
           Becomes(Run(e, u.out), [r \in 0..(Height - 1) |-> BlankLine(Default)], e.width, 0, 0,
                   FALSE, Default, e.visible)
  BY <1>3 DEF Forgotten
<1>6. term'.plainMode = u.plainMode /\ term'.remoteLine = u.remoteLine /\ At(screen, u) = screen'
  BY <1>4, <1>5, OutputIs
<1>7. /\ screen'.rows = [r \in 0..(Height - 1) |-> BlankLine(Default)] /\ screen'.y = 0
  BY <1>1, <1>5, <1>6 DEF Becomes, At
<1>8. l - First(term', screen') \in 0..(Height - 1)
  BY <1>1, <1>5, <1>6, <1>7, ScreenNumbers DEF First, OnScreen
<1>9. RowAt(term', screen', l) = BlankLine(Default)
  BY <1>7, <1>8 DEF RowAt
<1>10. DOMAIN buffer' = {}
  BY <1>4
<1> QED BY <1>9, <1>10, BlankIsEmpty DEF LineSeen

\* When the window is made narrower or wider.
LEMMA ShownResize ==
  ASSUME Types, Shown, NEW width \in Widths, NEW keeps \in BOOLEAN, Resize(width, keeps)
  PROVE  Shown'
<1> SUFFICES ASSUME ~term'.plainMode, astray' # "text", NEW l \in Int, OnScreen(term', screen', l)
             PROVE  LineSeen(l)'
  BY DEF Shown
<1>1. /\ screen' = Resized(screen, width, keeps) /\ term' = term /\ top' = top
      /\ todo' = todo /\ buffer' = buffer /\ resizes' = resizes + 1
      /\ astray' = IF astray = "no" /\ Position(screen) > width THEN "cursor" ELSE astray
      /\ \A k \in DOMAIN buffer : buffer[k].length = screen.width
  BY DEF Resize
<1>2. ~term.plainMode /\ astray # "text"
  BY <1>1
<1>3. screen \in Screen /\ width \in Nat /\ resizes \in Nat /\ screen.width \in Nat
  <2>1. \A w \in Widths : w \in Nat
    BY ScreenNumbers
  <2> QED BY <2>1, Numbers
<1>4. /\ screen'.y = screen.y /\ screen'.width = width
      /\ \A r \in 0..(Height - 1), i \in 1..MaxWidth :
           screen'.rows[r][i] = IF i <= width \/ keeps THEN screen.rows[r][i] ELSE blankChar(Default)
  BY <1>1, <1>3, ResizedFacts
<1>5. First(term', screen') = First(term, screen)
  BY <1>1, <1>4 DEF First
<1>6. OnScreen(term, screen, l) /\ l - First(term, screen) \in 0..(Height - 1)
  <2>1. First(term, screen) \in Int /\ Height \in Int
    BY Numbers DEF First
  <2> QED BY <1>5, <2>1 DEF OnScreen
<1>7. LineSeen(l)
  BY <1>2, <1>6 DEF Shown
<1> DEFINE row == RowAt(term, screen, l)
           new == RowAt(term', screen', l)
<1>8. \A i \in 1..MaxWidth : new[i] = IF i <= width \/ keeps THEN row[i] ELSE blankChar(Default)
  BY <1>4, <1>5, <1>6 DEF RowAt
<1>9. blankChar(Default).ch = Space
  BY DEF blankChar
<1> HIDE DEF row, new
<1>10. Empty(row) => Empty(new)
  BY <1>8, <1>9 DEF Empty
<1>11. ASSUME l \in DOMAIN buffer PROVE AgreesTo(new, buffer[l], width, resizes')
  <2>1. PICK o : o = buffer[l]
    OBVIOUS
  <2>2. o.length = screen.width /\ AgreesTo(row, o, o.length, resizes) /\ o \in Remembered
    BY <1>1, <1>7, <1>11, <2>1 DEF LineSeen, row, Types, BufferInv
  <2>3. AgreesTo(new, o, width, resizes + 1)
    BY <1>3, <1>8, <1>9, <2>2, HiddenColumns
  <2> QED BY <1>1, <2>1, <2>3
<1> QED BY <1>1, <1>4, <1>7, <1>10, <1>11 DEF LineSeen, row, new

\* When the session starts.
LEMMA ShownInit == TermInit => Shown /\ FullLength
<1> SUFFICES ASSUME TermInit PROVE Shown /\ FullLength
  OBVIOUS
<1>1. PICK plain \in BOOLEAN : term = reset(NewObject(plain), FALSE, 0)
  BY TerminalAssumption DEF TermInit
<1>2. screen = NewTerminal /\ buffer = <<>>
  BY DEF TermInit
<1>3. /\ screen.rows = [r \in 0..(Height - 1) |-> BlankLine(Default)] /\ screen.y = 0
      /\ term.remoteLine = 0 /\ DOMAIN buffer = {}
  BY <1>1, <1>2 DEF reset, NewObject, NewTerminal
<1>4. ASSUME NEW l \in Int, OnScreen(term, screen, l) PROVE LineSeen(l)
  <2>1. l - First(term, screen) \in 0..(Height - 1)
    BY <1>3, <1>4, ScreenNumbers DEF First, OnScreen
  <2>2. RowAt(term, screen, l) = BlankLine(Default)
    BY <1>3, <2>1 DEF RowAt
  <2> QED BY <1>3, <2>2, BlankIsEmpty DEF LineSeen
<1> QED BY <1>3, <1>4 DEF Shown, FullLength

\* As long as the window is as wide as it was at first, so are all the lines.
LEMMA FullStep == Types /\ FullLength /\ [TermNext]_termVars => FullLength'
<1> SUFFICES ASSUME Types, FullLength, [TermNext]_termVars PROVE FullLength'
  OBVIOUS
<1>1. ASSUME NEW newTop \in 0..MaxLine, NEW last \in -1..MaxLine, NEW newCursor \in Cursors,
             BeginScrape(newTop, last, newCursor)
      PROVE  FullLength'
  BY <1>1 DEF BeginScrape, FullLength
<1>2. ASSUME NEW line \in todo, NEW data \in LineData, ScrapeLine(line, data) PROVE FullLength'
  <2>1. Scraped(line, data)
    BY <1>2, ScrapeLineFacts
  <2>2. /\ DOMAIN buffer' = DOMAIN buffer \union {line}
        /\ buffer'[line] = setLine(Old(line), data)
        /\ \A l \in DOMAIN buffer : l # line => buffer'[l] = buffer[l]
        /\ resizes' = resizes
    BY <2>1 DEF Scraped
  <2>3. data \in Seq(Cell) /\ Len(data) = screen.width /\ Len(data) \in 1..MaxWidth
    BY Numbers, LineDataFacts
  <2>4. Old(line) = NoLine \/ Old(line) \in Remembered
    BY DEF Old, Types, BufferInv
  <2>5. setLine(Old(line), data).length = screen.width
    BY <2>3, <2>4, SetLineFacts
  <2>6. resizes = 0 => screen.width = MaxWidth
    BY DEF Types, StateInv
  <2> QED BY <2>2, <2>5, <2>6 DEF FullLength
<1>3. ASSUME EndScrape PROVE FullLength'
  <2>1. buffer' = Keep(buffer) /\ resizes' = resizes
    BY <1>3 DEF EndScrape
  <2> QED BY <2>1 DEF FullLength, Keep
<1>4. ASSUME NEW newTop \in 0..MaxLine, NEW newDirect \in BOOLEAN, Reset(newTop, newDirect)
      PROVE  FullLength'
  <2>1. buffer' = <<>>
    BY <1>4 DEF Reset
  <2> QED BY <2>1 DEF FullLength
<1>5. ASSUME NEW width \in Widths, NEW keeps \in BOOLEAN, Resize(width, keeps) PROVE FullLength'
  <2>1. resizes' = resizes + 1 /\ resizes \in Nat
    BY <1>5, Numbers DEF Resize
  <2> QED BY <2>1 DEF FullLength
<1>6. CASE UNCHANGED termVars
  BY <1>6 DEF FullLength, termVars
<1> QED BY <1>1, <1>2, <1>3, <1>4, <1>5, <1>6 DEF TermNext

\* When nothing happens.
LEMMA ShownStutter == Shown /\ UNCHANGED termVars => Shown'
BY DEF Shown, termVars, OnScreen, RowAt, First, LineSeen

\* Every step keeps it so.
LEMMA ShownStep == Types /\ Placed /\ Shown /\ FullLength /\ [TermNext]_termVars => Shown'
<1> SUFFICES ASSUME Types, Placed, Shown, FullLength, TermNext PROVE Shown'
  BY ShownStutter
<1>1. ASSUME NEW newTop \in 0..MaxLine, NEW last \in -1..MaxLine, NEW newCursor \in Cursors,
             BeginScrape(newTop, last, newCursor)
      PROVE  Shown'
  BY <1>1, ShownBegin
<1>2. ASSUME NEW line \in todo, NEW data \in LineData, ScrapeLine(line, data) PROVE Shown'
  <2>1. Scraped(line, data)
    BY <1>2, ScrapeLineFacts
  <2> QED BY <1>2, <2>1, ShownScrape
<1>3. ASSUME EndScrape PROVE Shown'
  BY <1>3, ShownEnd
<1>4. ASSUME NEW newTop \in 0..MaxLine, NEW newDirect \in BOOLEAN, Reset(newTop, newDirect)
      PROVE  Shown'
  BY <1>4, ShownReset
<1>5. ASSUME NEW width \in Widths, NEW keeps \in BOOLEAN, Resize(width, keeps) PROVE Shown'
  BY <1>5, ShownResize
<1> QED BY <1>1, <1>2, <1>3, <1>4, <1>5 DEF TermNext

\* It holds throughout.
LEMMA ShownAlways == TermSpec => [](Types /\ Placed /\ Shown /\ FullLength)
BY TypesInit, TypesStep, PlacedInit, PlacedStep, ShownInit, ShownStep, FullStep, PTL DEF TermSpec

\* Every line the scraper has seen is on the terminal as it was last seen.
THEOREM LinesStayShown == TermSpec => []LinesShown
<1>1. Types /\ Placed /\ Shown => LinesShown
  <2> SUFFICES ASSUME Types, Shown, ~term.plainMode, astray # "text", NEW l \in DOMAIN buffer,
                      RowOf(l) \in 0..(Height - 1)
               PROVE  Shows(screen.rows[RowOf(l)], buffer[l])
    BY DEF LinesShown
  <2>1. l \in Int /\ First(term, screen) \in Int /\ RowOf(l) = l - First(term, screen) /\ Height \in Int
    BY Numbers DEF RowOf, First
  <2>2. OnScreen(term, screen, l)
    BY <2>1 DEF OnScreen
  <2>3. PICK o : o = buffer[l]
    OBVIOUS
  <2>4. PICK row : row = screen.rows[RowOf(l)]
    OBVIOUS
  <2>5. AgreesTo(row, o, screen.width, resizes)
    BY <2>1, <2>2, <2>3, <2>4 DEF Shown, LineSeen, RowAt
  <2>6. o.length \in Nat /\ o.length <= Len(o.data) /\ Len(o.data) \in Nat /\ Len(o.data) <= MaxWidth
        /\ MaxWidth \in Nat /\ screen.width \in Nat
    BY <2>3, Numbers DEF Types, BufferInv, Remembered
  <2>7. \A i \in 1..o.length : i \in 1..MaxWidth /\ ~(i > Len(o.data)) /\ ~(i > o.length)
    BY <2>6
  <2>8. \A i \in 1..o.length : i <= screen.width => ~(i > screen.width)
    BY <2>6
  <2>9. Shows(row, o)
    BY <2>5, <2>7, <2>8 DEF Shows, AgreesTo
  <2> QED BY <2>3, <2>4, <2>9
<1> QED BY <1>1, ShownAlways, PTL

----------------------------------------------------------------------------
(***************************************************************************)
(* Plain output.                                                           *)
(***************************************************************************)
\* Escape sequences that plain output may have.
Allowed(t) == IF t.outputColor THEN {"color"} ELSE {}

\* Text and line breaks, and colors where they are asked for.
PlainCommand(allowed) ==
  {<<"cr">>, <<"lf">>} \union ({"put"} \X Characters)
    \union ({"sgr"} \X {c \in Colors : "color" \in allowed})

NothingBelow(rows, y) == \A r \in 0..(Height - 1) : r > y => Empty(rows[r])

\* Nothing else was sent to a screen, and there is nothing below the cursor.
Plain(allowed) ==
  {e \in Screen : e.escapes \subseteq allowed /\ NothingBelow(e.rows, e.y)}

\* Some fields of a screen.
LEMMA MadeFields ==
  ASSUME NEW f, NEW r, NEW w, NEW x, NEW y, NEW b, NEW p, NEW v, NEW s,
         MadeOf(f, r, w, x, y, b, p, v, s)
  PROVE  f.rows = r /\ f.y = y /\ f.escapes = s
BY DEF MadeOf

\* A line feed.
LEMMA FedPlain ==
  ASSUME NEW allowed, NEW e \in Plain(allowed)
  PROVE  LineFeed(e) \in Plain(allowed)
<1> DEFINE f == LineFeed(e)
<1>1. e \in Screen /\ NothingBelow(e.rows, e.y) /\ e.y \in Nat /\ Height \in Nat
      /\ e.escapes \subseteq allowed /\ e.y < Height
  BY ScreenParts, ScreenNumbers DEF Plain
<1>2. f \in Screen
  BY <1>1, LineFedType
<1>3. CASE e.y + 1 < Height
  <2>1. f.rows = e.rows /\ f.y = e.y + 1 /\ f.escapes = e.escapes
    BY <1>1, <1>3, LineFed DEF MadeOf
  <2>2. \A r \in 0..(Height - 1) : r > e.y + 1 => r > e.y
    BY <1>1
  <2>3. NothingBelow(e.rows, e.y + 1)
    BY <1>1, <2>2 DEF NothingBelow
  <2> HIDE DEF f
  <2>4. f \in Plain(allowed)
    BY <1>1, <1>2, <2>1, <2>3 DEF Plain
  <2> QED BY <2>4 DEF f
<1>4. CASE ~(e.y + 1 < Height)
  <2>1. f.y = e.y /\ f.escapes = e.escapes
    BY <1>1, <1>4, LineFed DEF MadeOf
  <2>2. \A r \in 0..(Height - 1) : ~(r > e.y)
    BY <1>1, <1>4
  <2> HIDE DEF f
  <2>3. NothingBelow(f.rows, f.y)
    BY <2>1, <2>2 DEF NothingBelow
  <2>4. f \in Plain(allowed)
    BY <1>1, <1>2, <2>1, <2>3 DEF Plain
  <2> QED BY <2>4 DEF f
<1> QED BY <1>3, <1>4

\* A character, before the last column is passed.
LEMMA PutPlain ==
  ASSUME NEW allowed, NEW e \in Plain(allowed), NEW ch \in Characters, ~e.wrap
  PROVE  Emulate(e, <<"put", ch>>) \in Plain(allowed)
<1> DEFINE f == Emulate(e, <<"put", ch>>)
<1>1. e \in Screen /\ NothingBelow(e.rows, e.y) /\ e.y \in Nat /\ Height \in Nat
      /\ e.escapes \subseteq allowed
  BY ScreenParts, ScreenNumbers DEF Plain
<1>2. f \in Screen
  BY <1>1, Commands, EmulateType
<1>3. f.rows = PutRows(e, ch) /\ f.y = e.y /\ f.escapes = Noted(e, <<"put", ch>>)
  <2>1. \E x, b : MadeOf(f, PutRows(e, ch), e.width, x, e.y, b, e.pen, e.visible,
                        Noted(e, <<"put", ch>>))
    BY <1>1, EmulatePut
  <2> QED BY <2>1, MadeFields
<1>4. Noted(e, <<"put", ch>>) = e.escapes
  BY DEF Noted, Escapes
<1>5. \A r \in 0..(Height - 1) : r > e.y => PutRows(e, ch)[r] = e.rows[r]
  <2>1. \A r \in (0..(Height - 1)) \ {e.y} : PutRows(e, ch)[r] = e.rows[r]
    BY <1>1, PutRowsType
  <2> QED BY <1>1, <2>1
<1> HIDE DEF f
<1>6. NothingBelow(f.rows, f.y)
  BY <1>1, <1>3, <1>5 DEF NothingBelow
<1>7. f \in Plain(allowed)
  BY <1>1, <1>2, <1>3, <1>4, <1>6 DEF Plain
<1> QED BY <1>7 DEF f

\* The first column.
LEMMA FirstColumnPlain ==
  ASSUME NEW allowed, NEW e \in Plain(allowed)
  PROVE  [e EXCEPT !.x = 0] \in Plain(allowed)
<1> DEFINE f == [e EXCEPT !.x = 0]
<1>1. e \in Screen
  BY DEF Plain
<1>2. f \in Screen
  BY <1>1, FirstColumnType
<1>3. f.rows = e.rows /\ f.y = e.y /\ f.escapes = e.escapes
  BY <1>1, ScreenFields DEF MadeOf
<1> HIDE DEF f
<1>4. f \in Plain(allowed)
  BY <1>2, <1>3 DEF Plain
<1> QED BY <1>4 DEF f

\* What plain output consists of keeps a screen plain.
LEMMA EmulatePlain ==
  ASSUME NEW allowed
  PROVE  \A e \in Plain(allowed), cmd \in PlainCommand(allowed) : Emulate(e, cmd) \in Plain(allowed)
<1> SUFFICES ASSUME NEW e \in Plain(allowed), NEW cmd \in PlainCommand(allowed)
             PROVE  Emulate(e, cmd) \in Plain(allowed)
  OBVIOUS
<1> DEFINE f == Emulate(e, cmd)
<1>1. e \in Screen /\ NothingBelow(e.rows, e.y) /\ e.escapes \subseteq allowed
  BY DEF Plain
<1>2. CASE cmd = <<"cr">>
  <2>1. f \in Screen
    BY <1>1, <1>2, Commands, EmulateType
  <2>2. f.rows = e.rows /\ f.y = e.y /\ f.escapes = Noted(e, cmd)
    BY <1>1, <1>2, EmulateReturn, MadeFields
  <2>3. Noted(e, cmd) = e.escapes
    BY <1>2 DEF Noted, Escapes
  <2> HIDE DEF f
  <2>4. f \in Plain(allowed)
    BY <1>1, <2>1, <2>2, <2>3 DEF Plain
  <2> QED BY <2>4 DEF f
<1>3. CASE cmd = <<"lf">>
  <2>1. f \in Screen
    BY <1>1, <1>3, Commands, EmulateType
  <2>2. LineFeed(e) \in Plain(allowed)
    BY FedPlain
  <2>3. f.rows = LineFeed(e).rows /\ f.y = LineFeed(e).y /\ f.escapes = Noted(e, cmd)
    <3>1. PICK r, y : /\ MadeOf(f, r, e.width, e.x, y, FALSE, e.pen, e.visible, Noted(e, cmd))
                      /\ MadeOf(LineFeed(e), r, e.width, e.x, y, FALSE, e.pen, e.visible, e.escapes)
      BY <1>1, <1>3, EmulateLineFeed, LineFed
    <3>4. \E w, x, b, p, v : MadeOf(f, r, w, x, y, b, p, v, Noted(e, cmd))
      BY <3>1
    <3>2. f.rows = r /\ f.y = y /\ f.escapes = Noted(e, cmd)
      <4> HIDE DEF f
      <4> QED BY <3>4, MadeFields
    <3>3. LineFeed(e).rows = r /\ LineFeed(e).y = y
      BY <3>1, MadeFields
    <3> QED BY <3>2, <3>3
  <2>4. Noted(e, cmd) = e.escapes
    BY <1>3 DEF Noted, Escapes
  <2> HIDE DEF f
  <2>5. f \in Plain(allowed)
    BY <1>1, <2>1, <2>2, <2>3, <2>4 DEF Plain
  <2> QED BY <2>5 DEF f
<1>4. CASE cmd \in {"put"} \X Characters
  <2>1. PICK ch \in Characters : cmd = <<"put", ch>>
    BY <1>4
  <2>2. CASE ~e.wrap
    BY <2>1, <2>2, PutPlain
  <2>3. CASE e.wrap
    <3> DEFINE g == LineFeed([e EXCEPT !.x = 0])
    <3>1. g \in Plain(allowed)
      BY FirstColumnPlain, FedPlain
    <3>2. ~g.wrap
      BY <1>1, LineFedType, FirstColumnType
    <3>3. Emulate(g, <<"put", ch>>) \in Plain(allowed)
      <4> HIDE DEF g
      <4> QED BY <3>1, <3>2, PutPlain
    <3>4. PutChar(e, ch) = PutChar(g, ch)
      BY <2>3, <3>2 DEF PutChar
    <3>5. Effect(e, <<"put", ch>>) = PutChar(e, ch) /\ Effect(g, <<"put", ch>>) = PutChar(g, ch)
      BY DEF Effect
    <3>6. Emulate(e, <<"put", ch>>) = Emulate(g, <<"put", ch>>)
      BY <3>4, <3>5 DEF Emulate
    <3> QED BY <2>1, <3>3, <3>6
  <2> QED BY <2>2, <2>3
<1>5. CASE cmd \in {"sgr"} \X {c \in Colors : "color" \in allowed}
  <2>1. PICK c \in Colors : cmd = <<"sgr", c>> /\ "color" \in allowed
    BY <1>5
  <2>2. f \in Screen
    BY <1>1, <2>1, Commands, EmulateType
  <2>3. f.rows = e.rows /\ f.y = e.y /\ f.escapes = Noted(e, cmd)
    BY <1>1, <2>1, EmulatePen, MadeFields
  <2>4. Noted(e, cmd) = e.escapes \union {"color"}
    BY <2>1 DEF Noted, Escapes
  <2> HIDE DEF f
  <2>5. f \in Plain(allowed)
    BY <1>1, <2>1, <2>2, <2>3, <2>4 DEF Plain
  <2> QED BY <2>5 DEF f
<1> QED BY <1>2, <1>3, <1>4, <1>5 DEF PlainCommand

\* So does all that is written of it.
LEMMA RunPlain ==
  ASSUME NEW allowed, NEW e \in Plain(allowed), NEW s \in Seq(PlainCommand(allowed))
  PROVE  Run(e, s) \in Plain(allowed) /\ s \in Seq(Command)
<1>1. Plain(allowed) \in SUBSET Screen
  BY DEF Plain
<1>2. PlainCommand(allowed) \in SUBSET Command
  BY Commands DEF PlainCommand, Command
<1> QED BY <1>1, <1>2, EmulatePlain, RunKeeps

\* A line is text, and colors where they are asked for.
LEMMA LineIsPlain ==
  ASSUME NEW t, NEW data, Rest(t, data), t.plainMode = TRUE
  PROVE  /\ LineCommands(t, data) \in Seq(PlainCommand(Allowed(t)))
         /\ LineCommands(t, data) = Cells(t, data, trimmedCellCount(t, data) - Len(t.lineData))
                                      \o ColorCommand(t, data, trimmedCellCount(t, data) + 1)
         /\ \A i \in 1..Len(data) :
              CellCommands(t, data, i) = ColorCommand(t, data, i) \o <<<<"put", data[i].ch>>>>
<1> DEFINE P == PlainCommand(Allowed(t))
           V == Seq(P)
           from == Len(t.lineData)
           m == Len(data) - from
           count == trimmedCellCount(t, data)
<1>1. /\ from \in Nat /\ m \in Nat /\ Len(data) = from + m /\ Len(t.lineData) = from
      /\ Len(data) - Len(t.lineData) = m /\ Len(data) \in Nat
  BY RestFacts DEF from, m
<1>2. count \in from..Len(data)
  BY TrimmedFacts DEF Trimmed
<1>3. <<>> \in V /\ \A c \in P : <<c>> \in V
  OBVIOUS
<1>4. /\ \A ch \in Characters : <<"put", ch>> \in P
      /\ t.outputColor => \A c \in Colors : <<"sgr", c>> \in P
  BY DEF PlainCommand, Allowed
<1> HIDE DEF P
<1>5. ASSUME NEW i \in Int PROVE ColorCommand(t, data, i) \in V
  <2>1. CASE i \in Remaining(t, data) /\ SetsColor(t, data, i)
    <3>1. i \in 1..Len(data) /\ t.outputColor
      BY <2>1, <1>1 DEF Remaining, SetsColor
    <3>2. data[i].color \in Colors
      BY <3>1, RestFacts
    <3>3. <<"sgr", data[i].color>> \in P
      BY <1>4, <3>1, <3>2
    <3> HIDE DEF V
    <3> QED BY <1>3, <2>1, <3>3 DEF ColorCommand
  <2>2. CASE ~(i \in Remaining(t, data) /\ SetsColor(t, data, i))
    <3> HIDE DEF V
    <3> QED BY <1>3, <2>2 DEF ColorCommand
  <2> QED BY <2>1, <2>2
<1>6. ASSUME NEW i \in 1..Len(data)
      PROVE  /\ CellCommands(t, data, i) = ColorCommand(t, data, i) \o <<<<"put", data[i].ch>>>>
             /\ CellCommands(t, data, i) \in V
  <2> DEFINE c == ColorCommand(t, data, i)
             put == <<<<"put", data[i].ch>>>>
  <2>1. CellCommands(t, data, i) = c \o <<>> \o put
    BY DEF CellCommands
  <2>2. c \in V
    BY <1>5
  <2>3. data[i].ch \in Characters
    BY RestFacts
  <2>4. put \in V
    <3>1. <<"put", data[i].ch>> \in P
      BY <1>4, <2>3
    <3> HIDE DEF V
    <3> QED BY <1>3, <3>1
  <2> HIDE DEF c, put
  <2>5. c \o <<>> = c /\ c \o put \in V
    BY <2>2, <2>4
  <2>6. CellCommands(t, data, i) = c \o put
    BY <2>1, <2>5
  <2> QED BY <2>5, <2>6 DEF c, put
<1> DEFINE S == {k \in 0..m : Cells(t, data, k) \in V}
<1> HIDE DEF from, m, count, V
<1>7. 0 \in S
  BY <1>1, <1>3, CellsFacts
<1>8. ASSUME NEW k \in 1..m, k - 1 \in S PROVE k \in S
  <2>1. k \in 0..m /\ Cells(t, data, k - 1) \in V /\ from + k \in 1..Len(data)
    BY <1>1, <1>8
  <2>2. CellCommands(t, data, from + k) \in V
    BY <1>6, <2>1
  <2>3. Cells(t, data, k - 1) \o CellCommands(t, data, from + k) \in V
    BY <2>1, <2>2 DEF V
  <2>4. Cells(t, data, k) = Cells(t, data, k - 1) \o CellCommands(t, data, from + k)
    BY <1>1, CellsFacts
  <2> QED BY <2>1, <2>3, <2>4
<1>9. 0..m \subseteq S
  <2> HIDE DEF S
  <2> QED BY <1>1, <1>7, <1>8, IntervalInduction
<1>10. count - from \in 0..m /\ count + 1 \in Int
  BY <1>1, <1>2
<1> DEFINE cells == Cells(t, data, count - from)
           color == ColorCommand(t, data, count + 1)
<1>11. cells \in V /\ color \in V
  BY <1>5, <1>9, <1>10
<1>12. LineCommands(t, data) = cells \o color \o <<>>
  BY DEF LineCommands, count, from
<1> HIDE DEF cells, color
<1>13. cells \o color \in V /\ cells \o color \o <<>> = cells \o color
  BY <1>11 DEF V
<1>14. LineCommands(t, data) = cells \o color
  BY <1>12, <1>13
<1> QED BY <1>6, <1>13, <1>14 DEF V, P, cells, color, count, from

\* The row of the cursor has the first k cells of a line and nothing else, and
\* the cursor is behind them.
Written(e, data, k) ==
  /\ e \in Screen /\ Position(e) = k
  /\ \A i \in 1..MaxWidth : e.rows[e.y][i].ch = IF i <= k THEN data[i].ch ELSE Space

\* A color is not seen there.
LEMMA ColorWritten ==
  ASSUME NEW t, NEW data, Rest(t, data), NEW k, NEW e \in Screen, Written(e, data, k), NEW i \in Int
  PROVE  LET f == Run(e, ColorCommand(t, data, i)) IN Written(f, data, k) /\ f.width = e.width
<1> DEFINE f == Run(e, ColorCommand(t, data, i))
<1>1. PICK pen \in Colors : Becomes(f, e.rows, e.width, e.x, e.y, e.wrap, pen, e.visible)
  BY ColorIsSet
<1> HIDE DEF f
<1>2. f \in Screen /\ f.rows = e.rows /\ f.y = e.y /\ f.width = e.width /\ Position(f) = Position(e)
  BY <1>1 DEF Becomes, Position
<1>3. Written(f, data, k)
  BY <1>2 DEF Written
<1> QED BY <1>2, <1>3 DEF f

\* One cell more is on the row.
LEMMA CellWritten ==
  ASSUME NEW t, NEW data, Rest(t, data), t.plainMode = TRUE, NEW e \in Screen,
         NEW i \in 1..Len(data), Written(e, data, i - 1), i <= e.width
  PROVE  LET f == Run(e, CellCommands(t, data, i)) IN Written(f, data, i) /\ f.width = e.width
<1> DEFINE c == ColorCommand(t, data, i)
           put == <<"put", data[i].ch>>
           g == Run(e, c)
           h == Emulate(g, put)
           rows == PutRows(g, data[i].ch)
<1>1. i \in Int /\ data[i].ch \in Characters /\ i \in Nat /\ i > 0
  <2>1. Len(data) \in Nat
    BY RestFacts
  <2> QED BY <2>1, RestFacts
<1>2. Written(g, data, i - 1) /\ g.width = e.width /\ g \in Screen
  <2>1. Written(g, data, i - 1) /\ g.width = e.width
    BY <1>1, ColorWritten
  <2> QED BY <2>1 DEF Written
<1>3. Run(e, CellCommands(t, data, i)) = h
  <2>1. c \in Seq(Command) /\ put \in Command
    BY <1>1, CommandsOfCell, LineCommandFacts, Commands
  <2> HIDE DEF c, put
  <2>2. PICK q \in Seq(Command) : q = <<put>>
    <3>1. <<put>> \in Seq(Command)
      BY <2>1
    <3> QED BY <3>1
  <2>3. Run(e, c \o q) = Run(Run(e, c), q) /\ Run(e, c) \in Screen
    BY <2>1, RunFacts
  <2>4. CellCommands(t, data, i) = c \o <<put>>
    BY LineIsPlain DEF c, put
  <2> QED BY <2>1, <2>2, <2>3, <2>4, RunFacts
<1> HIDE DEF g
<1>4. g.x \in Nat /\ g.width \in Nat /\ g.x < g.width /\ g.width <= MaxWidth /\ MaxWidth \in Nat
      /\ g.wrap \in BOOLEAN /\ g.y \in 0..(Height - 1)
  BY <1>2, ScreenParts, ScreenNumbers
<1>5. ~g.wrap /\ g.x = i - 1
  BY <1>1, <1>2, <1>4 DEF Written, Position
<1>6. /\ g.x + 1 = g.width => Becomes(h, rows, g.width, g.x, g.y, TRUE, g.pen, g.visible)
      /\ g.x + 1 # g.width => Becomes(h, rows, g.width, g.x + 1, g.y, FALSE, g.pen, g.visible)
  BY <1>1, <1>2, <1>5, Puts
<1>7. /\ rows[g.y][g.x + 1].ch = data[i].ch
      /\ \A j \in (1..MaxWidth) \ {g.x + 1} : rows[g.y][j] = g.rows[g.y][j]
  <2>1. /\ rows[g.y][g.x + 1] = [ch |-> data[i].ch, color |-> g.pen]
        /\ \A j \in (1..MaxWidth) \ {g.x + 1} : rows[g.y][j] = g.rows[g.y][j]
    BY <1>1, <1>2, PutRowsType
  <2> QED BY <2>1
<1> HIDE DEF h, rows
<1>8. h \in Screen /\ h.rows = rows /\ h.y = g.y /\ h.width = g.width /\ Position(h) = i
  <2>1. CASE g.x + 1 = g.width
    BY <1>1, <1>5, <1>6, <2>1 DEF Becomes, Position
  <2>2. CASE g.x + 1 # g.width
    BY <1>1, <1>5, <1>6, <2>2 DEF Becomes, Position
  <2> QED BY <2>1, <2>2
<1>9. ASSUME NEW j \in 1..MaxWidth
      PROVE  h.rows[h.y][j].ch = IF j <= i THEN data[j].ch ELSE Space
  <2>1. CASE j = i
    BY <1>1, <1>5, <1>7, <1>8, <2>1
  <2>2. CASE j # i
    <3>1. j \in (1..MaxWidth) \ {g.x + 1} /\ (j <= i <=> j <= i - 1)
      BY <1>1, <1>4, <1>5, <2>2
    <3>2. g.rows[g.y][j].ch = IF j <= i - 1 THEN data[j].ch ELSE Space
      BY <1>2 DEF Written
    <3> QED BY <1>7, <1>8, <3>1, <3>2
  <2> QED BY <2>1, <2>2
<1>10. Written(h, data, i) /\ h.width = e.width
  BY <1>2, <1>8, <1>9 DEF Written
<1> QED BY <1>3, <1>10

\* What is written of a line is on its row, and nothing else is.
LEMMA LineWritten ==
  ASSUME NEW t, NEW data, Rest(t, data), t.plainMode = TRUE, NEW e \in Screen, e.width = Len(data),
         Written(e, data, Len(t.lineData))
  PROVE  Written(Run(e, LineCommands(t, data)), data, trimmedCellCount(t, data))
<1> DEFINE from == Len(t.lineData)
           m == Len(data) - from
           count == trimmedCellCount(t, data)
           F(k) == Run(e, Cells(t, data, k))
           S == {k \in 0..m : Written(F(k), data, from + k) /\ F(k).width = e.width}
<1>1. /\ from \in Nat /\ m \in Nat /\ Len(data) = from + m /\ Len(t.lineData) = from
      /\ Len(data) - Len(t.lineData) = m /\ Len(data) \in Nat
  BY RestFacts DEF from, m
<1>2. count \in from..Len(data)
  BY TrimmedFacts DEF Trimmed
<1> HIDE DEF from, m, count
<1>3. 0 \in S
  <2>1. F(0) = e
    BY CellsFacts, RunFacts
  <2>2. from + 0 = from /\ 0 \in 0..m
    BY <1>1
  <2> HIDE DEF F
  <2> QED BY <1>1, <2>1, <2>2
<1>4. ASSUME NEW k \in 1..m, k - 1 \in S PROVE k \in S
  <2> DEFINE f == F(k - 1)
             i == from + k
             g == F(k)
  <2>1. /\ Written(f, data, i - 1) /\ f.width = e.width /\ k \in 0..m
        /\ i \in 1..Len(data) /\ k - 1 \in 0..m /\ i <= e.width
    <3>1. from + (k - 1) = i - 1
      BY <1>1
    <3> QED BY <1>1, <1>4, <3>1
  <2>2. g = Run(f, CellCommands(t, data, i))
    <3>1. Cells(t, data, k) = Cells(t, data, k - 1) \o CellCommands(t, data, i)
      BY <1>1, CellsFacts
    <3>2. Cells(t, data, k - 1) \in Seq(Command) /\ CellCommands(t, data, i) \in Seq(Command)
      BY <1>1, <2>1, CellsFacts, CommandsOfCell, LineCommandFacts
    <3> QED BY <3>1, <3>2, RunFacts
  <2> HIDE DEF F, f, g
  <2>3. f \in Screen
    BY <2>1 DEF Written
  <2>4. i <= f.width
    BY <2>1
  <2> HIDE DEF i
  <2>5. Written(g, data, i) /\ g.width = f.width
    BY <2>1, <2>2, <2>3, <2>4, CellWritten
  <2> QED BY <2>1, <2>5 DEF f, g, i
<1>5. 0..m \subseteq S
  <2> HIDE DEF S
  <2> QED BY <1>1, <1>3, <1>4, IntervalInduction
<1>6. count - from \in 0..m /\ from + (count - from) = count /\ count + 1 \in Int
  BY <1>1, <1>2
<1> DEFINE cells == Cells(t, data, count - from)
           color == ColorCommand(t, data, count + 1)
<1>7. Written(F(count - from), data, count) /\ F(count - from) = Run(e, cells)
  BY <1>5, <1>6
<1>8. cells \in Seq(Command)
  BY <1>1, <1>6, CellsFacts, LineCommandFacts
<1>9. color \in Seq(Command)
  BY <1>6, CommandsOfCell, LineCommandFacts
<1>10. LineCommands(t, data) = cells \o color
  BY LineIsPlain DEF count, from
<1> HIDE DEF F
<1>11. Run(e, cells) \in Screen /\ Written(Run(e, cells), data, count)
  BY <1>7 DEF Written
<1>12. Written(Run(Run(e, cells), color), data, count)
  <2> HIDE DEF cells
  <2> QED BY <1>6, <1>11, ColorWritten
<1>13. Run(e, LineCommands(t, data)) = Run(Run(e, cells), color)
  <2> HIDE DEF cells, color
  <2> QED BY <1>8, <1>9, <1>10, RunFacts
<1> QED BY <1>12, <1>13 DEF count

\* The row the cursor is on has what the object says it has output there.
OwnRow(t, e) ==
  /\ t.lineDataValid = TRUE /\ Len(t.lineData) = t.remoteColumn
  /\ Written(e, t.lineData, t.remoteColumn)

\* That row is the line's, or a call goes to another one.
Freed(t, e, u) == OwnRow(t, e) \/ KindsOf(u.out) \intersect {"cr", "lf", "col"} # {}

\* A whole line is there.
HasLine(e, data) == \A i \in 1..Len(data) : e.rows[e.y][i].ch = data[i].ch

\* Newlines lead to a row that nothing is on.
LEMMA NewLinesWritten ==
  ASSUME NEW allowed, NEW e \in Plain(allowed), NEW n \in Nat
  PROVE  /\ NewLines(n) \in Seq(PlainCommand(allowed))
         /\ Run(e, NewLines(n)) \in Plain(allowed)
         /\ Run(e, NewLines(n)).width = e.width
         /\ n > 0 => \A data : Written(Run(e, NewLines(n)), data, 0)
<1> DEFINE g == Run(e, NewLines(n))
<1>1. e \in Screen /\ NothingBelow(e.rows, e.y) /\ e.y \in Nat /\ Height \in Nat /\ e.y < Height
  BY ScreenParts, ScreenNumbers DEF Plain
<1>2. NewLines(n) \in Seq(PlainCommand(allowed))
  <2>1. <<"cr">> \in PlainCommand(allowed) /\ <<"lf">> \in PlainCommand(allowed)
    BY DEF PlainCommand
  <2>2. 2 * n \in Nat
    OBVIOUS
  <2>3. \A i \in 1..(2 * n) : (IF i % 2 = 1 THEN <<"cr">> ELSE <<"lf">>) \in PlainCommand(allowed)
    BY <2>1
  <2> QED BY <2>2, <2>3 DEF NewLines
<1>3. g \in Plain(allowed)
  BY <1>2, RunPlain
<1>4. Fed(e, g, n) /\ g.width = e.width
  <2>1. Fed(e, g, n)
    BY <1>1, FedByNewLines
  <2> HIDE DEF g
  <2> QED BY <2>1 DEF Fed
<1> HIDE DEF g
<1>5. ASSUME n > 0, NEW data PROVE Written(g, data, 0)
  <2>1. g \in Screen /\ g.x = 0 /\ ~g.wrap /\ g.y \in 0..(Height - 1)
    BY <1>1, <1>4, <1>5 DEF Fed
  <2>2. Empty(g.rows[g.y])
    <3>1. CASE e.y + n < Height
      <4>1. g.y = e.y + n
        BY <1>4, <3>1 DEF Fed
      <4>2. e.y + n - g.y = 0 /\ g.y + 0 = g.y /\ g.y > e.y /\ g.y < Height
        BY <1>1, <1>5, <2>1, <3>1, <4>1
      <4>3. g.rows[g.y] = e.rows[g.y]
        BY <1>4, <2>1, <4>2 DEF Fed
      <4> QED BY <1>1, <2>1, <4>2, <4>3 DEF NothingBelow
    <3>2. CASE ~(e.y + n < Height)
      <4>1. g.y = Height - 1
        BY <1>4, <3>2 DEF Fed
      <4>2. \/ g.y + (e.y + n - g.y) >= Height
            \/ g.y + (e.y + n - g.y) = e.y + n
        BY <1>1, <3>2, <4>1
      <4>3. ~(g.y + (e.y + n - g.y) < Height)
        BY <1>1, <3>2, <4>1
      <4>4. g.rows[g.y] = BlankLine(e.pen)
        BY <1>4, <2>1, <4>3 DEF Fed
      <4> QED BY <4>4, BlankIsEmpty
    <3> QED BY <3>1, <3>2
  <2>3. \A i \in 1..MaxWidth : ~(i <= 0)
    BY ScreenNumbers
  <2>4. Position(g) = 0
    BY <2>1 DEF Position
  <2> QED BY <2>1, <2>2, <2>3, <2>4 DEF Written, Empty
<1> QED BY <1>2, <1>3, <1>4, <1>5 DEF g

\* Going to another line in plain output.
LEMMA MovesPlain ==
  ASSUME NEW t \in Object, t.plainMode = TRUE, t.out = <<>>, NEW line \in Int, line # t.remoteLine
  PROVE  \E n \in Nat : n > 0 /\ moveTerminalToLine(t, line).out = NewLines(n)
<1> DEFINE n == IF line > t.remoteLine THEN line - t.remoteLine ELSE 1
           v == Write(t, StepsTo(t, line))
           u == [v EXCEPT !.remoteLine = line]
<1>1. n \in Nat /\ n > 0 /\ t.remoteLine \in Int
  BY ObjectParts
<1>2. StepsTo(t, line) = NewLines(n)
  <2>1. NewLines(1) = NewLine
    <3>1. NewLines(0 + 1) = NewLines(0) \o NewLine /\ NewLines(0) = <<>> /\ NewLine \in Seq(Command)
      BY NewLinesFacts
    <3> QED BY <3>1
  <2>2. CASE line > t.remoteLine
    <3>1. n = line - t.remoteLine
      BY <2>2
    <3> HIDE DEF n
    <3> QED BY <1>1, <2>2, <3>1 DEF StepsTo
  <2>3. CASE ~(line > t.remoteLine)
    <3>1. line < t.remoteLine
      BY <1>1, <2>3
    <3> QED BY <1>1, <2>1, <2>3, <3>1 DEF StepsTo
  <2> QED BY <2>2, <2>3
<1>3. moveTerminalToLine(t, line) = ForgetLine(u)
  <2>1. hideTerminalCursor(t) = t
    BY DEF hideTerminalCursor
  <2> QED BY <2>1 DEF moveTerminalToLine
<1>4. PICK c \in Seq(Command) : c = StepsTo(t, line)
  BY StepsFacts
<1>5. v \in Object /\ v.out = t.out \o c
  BY <1>4, WriteFacts
<1>6. t.out \o c = c
  BY <1>4
<1> HIDE DEF v, n
<1>7. u \in Object /\ u.out = v.out
  BY <1>5 DEF Object
<1> HIDE DEF u
<1>8. ForgetLine(u).out = NewLines(n)
  BY <1>2, <1>4, <1>5, <1>6, <1>7, ForgetLineFacts
<1> QED BY <1>1, <1>3, <1>8

\* Repeating a line does so too.
LEMMA RestartsPlain ==
  ASSUME NEW t \in Object, t.plainMode = TRUE, t.out = <<>>
  PROVE  RestartLine(t).out = NewLines(1)
<1>1. RestartLine(t) = ForgetLine(Write(t, NewLine))
  <2>1. hideTerminalCursor(t) = t
    BY DEF hideTerminalCursor
  <2> QED BY <2>1 DEF RestartLine
<1>2. NewLines(0 + 1) = NewLines(0) \o NewLine /\ NewLines(0) = <<>> /\ NewLine \in Seq(Command)
  BY NewLinesFacts
<1>3. PICK c \in Seq(Command) : c = NewLine
  BY <1>2
<1>4. Write(t, c) \in Object /\ Write(t, c).out = t.out \o c
  BY WriteFacts
<1>5. ForgetLine(Write(t, c)).out = t.out \o c
  BY <1>4, ForgetLineFacts
<1>6. t.out \o c = c /\ NewLines(1) = c
  BY <1>2, <1>3
<1> QED BY <1>1, <1>3, <1>5, <1>6

\* What output of a line makes of the terminal.
LEMMA SendLinePlain ==
  ASSUME NEW t \in Object, LineKept(t), t.plainMode = TRUE, t.out = <<>>, NEW line \in Int,
         NEW data \in Seq(Cell), Len(data) > 0, NEW column \in Int,
         NEW u, u = sendLine(t, line, data, column),
         NEW e \in Plain(Allowed(t)), e.width = Len(data)
  PROVE  /\ At(e, u) \in Plain(Allowed(t))
         /\ Freed(t, e, u) => OwnRow(u, At(e, u)) /\ HasLine(At(e, u), data)
<1>1. PICK s \in Object :
        /\ u = SentFrom(s, data, column)
        /\ Rest(s, data) /\ s.lineDataValid = TRUE /\ s.remoteLine = line
        /\ (s = t /\ GoesOn(t, line, data)) \/ StartsLine(t, s, line)
  BY LineStarts
<1>2. SameModes(t, s) /\ s.plainMode = TRUE /\ Allowed(s) = Allowed(t)
  <2>1. CASE s = t
    BY <2>1 DEF SameModes
  <2>2. CASE StartsLine(t, s, line)
    BY <2>2 DEF StartsLine, AtStart, SameModes, Allowed
  <2> QED BY <1>1, <2>1, <2>2
<1>3. Remembers(s, u, data, column)
  BY <1>1, SentFromFacts
<1>4. PICK n \in Nat : /\ s.out = NewLines(n) /\ (n = 0 => s = t /\ GoesOn(t, line, data))
                      /\ (n > 0 => AtStart(t, s))
  <2>1. CASE s = t /\ GoesOn(t, line, data)
    <3>1. s.out = NewLines(0) /\ 0 \in Nat
      BY <2>1, NewLinesFacts
    <3> QED BY <2>1, <3>1
  <2>2. CASE ~(s = t /\ GoesOn(t, line, data))
    <3>1. AtStart(t, s) /\ BeginsAnew(t, s, line)
      BY <1>1, <2>2 DEF StartsLine
    <3>2. \E n \in Nat : n > 0 /\ s.out = NewLines(n)
      <4>1. CASE s = moveTerminalToLine(t, line) /\ line # t.remoteLine
        BY <4>1, MovesPlain
      <4>2. CASE s = RestartLine(t)
        <5>1. s.out = NewLines(1)
          BY <4>2, RestartsPlain
        <5> QED BY <5>1
      <4> QED BY <3>1, <4>1, <4>2 DEF BeginsAnew
    <3> QED BY <3>1, <3>2
  <2> QED BY <2>1, <2>2
<1> DEFINE c == LineCommands(s, data)
           f == Run(e, NewLines(n))
           g == Run(f, c)
           k == trimmedCellCount(s, data)
<1>5. c \in Seq(PlainCommand(Allowed(t))) /\ c \in Seq(Command)
      /\ KindsOf(c) \subseteq {"el", "put", "sgr"}
  BY <1>1, <1>2, LineIsPlain, CommandsOfLine, LineCommandFacts
<1>6. u.out = NewLines(n) \o c
  BY <1>2, <1>3, <1>4 DEF Remembers
<1>7. e \in Screen /\ NewLines(n) \in Seq(Command)
  BY NewLinesFacts DEF Plain
<1>8. At(e, u) = g
  <2> HIDE DEF c
  <2> QED BY <1>5, <1>6, <1>7, RunFacts DEF At
<1>9. /\ f \in Plain(Allowed(t)) /\ f \in Screen /\ f.width = Len(data)
      /\ n > 0 => Written(f, data, 0)
  <2>1. f \in Plain(Allowed(t)) /\ f.width = e.width /\ (n > 0 => \A d : Written(f, d, 0))
    BY NewLinesWritten
  <2> HIDE DEF f
  <2> QED BY <2>1 DEF Plain
<1>10. g \in Plain(Allowed(t))
  <2> HIDE DEF f, c
  <2> QED BY <1>5, <1>9, RunPlain
<1>11. ASSUME Freed(t, e, u) PROVE OwnRow(u, g) /\ HasLine(g, data)
  <2>1. Written(f, data, Len(s.lineData))
    <3>1. CASE n = 0
      <4>1. f = e
        BY <1>7, <3>1, NewLinesFacts, RunFacts
      <4>2. KindsOf(u.out) \subseteq {"el", "put", "sgr"}
        <5>1. KindsOf(NewLines(n) \o c) = KindsOf(NewLines(n)) \union KindsOf(c)
          BY <1>5, <1>7, KindsConcat
        <5>2. KindsOf(NewLines(n)) = {}
          BY <3>1, NewLinesFacts, KindsConcat
        <5> QED BY <1>5, <1>6, <5>1, <5>2
      <4>3. OwnRow(t, e)
        BY <1>11, <4>2 DEF Freed
      <4>4. /\ s = t /\ Len(t.lineData) = t.remoteColumn
            /\ \A i \in 1..Len(t.lineData) : t.lineData[i] = data[i]
            /\ Len(t.lineData) \in Nat
        BY <1>1, <1>4, <3>1, RestFacts DEF GoesOn
      <4>5. Written(e, data, Len(t.lineData))
        <5>1. \A i \in 1..MaxWidth : i <= Len(t.lineData) => i \in 1..Len(t.lineData)
          BY <4>4, ScreenNumbers
        <5> QED BY <4>3, <4>4, <5>1 DEF OwnRow, Written
      <4> QED BY <4>1, <4>4, <4>5
    <3>2. CASE n > 0
      <4>1. Len(s.lineData) = 0
        BY <1>4, <3>2 DEF AtStart
      <4> QED BY <1>9, <3>2, <4>1
    <3> QED BY <3>1, <3>2
  <2> HIDE DEF f, c
  <2>2. Written(g, data, k)
    <3>1. Written(Run(f, LineCommands(s, data)), data, k)
      BY <1>1, <1>2, <1>9, <2>1, LineWritten
    <3> QED BY <3>1 DEF c
  <2>3. /\ k \in Nat /\ k <= Len(data) /\ Len(data) \in Nat
        /\ \A i \in (k + 1)..Len(data) : data[i].ch = Space
    <3>1. Trimmed(s, data, Len(data), k) /\ Len(s.lineData) \in Nat /\ Len(data) \in Nat
      BY <1>1, TrimmedFacts, RestFacts
    <3> HIDE DEF k
    <3> QED BY <3>1 DEF Trimmed
  <2>4. /\ u.lineDataValid = TRUE /\ Len(u.lineData) = u.remoteColumn /\ u.remoteColumn = k
        /\ \A i \in 1..k : u.lineData[i] = data[i]
    BY <1>3 DEF Remembers
  <2> HIDE DEF g, k
  <2>5. Written(g, u.lineData, k)
    <3>1. \A i \in 1..MaxWidth : i <= k => i \in 1..k
      BY <2>3, ScreenNumbers
    <3> QED BY <2>2, <2>4, <3>1 DEF Written
  <2>6. ASSUME NEW i \in 1..Len(data) PROVE g.rows[g.y][i].ch = data[i].ch
    <3>1. Len(data) <= MaxWidth
      BY <1>9, ScreenParts, ScreenNumbers
    <3>2. i \in 1..MaxWidth /\ (i <= k \/ i \in (k + 1)..Len(data))
      BY <2>3, <3>1, ScreenNumbers
    <3> QED BY <2>2, <2>3, <3>2 DEF Written
  <2> QED BY <2>4, <2>5, <2>6 DEF OwnRow, HasLine
<1> QED BY <1>8, <1>10, <1>11

\* What showing the cursor makes of it: plain output only goes to its line.
LEMMA ShowPlain ==
  ASSUME NEW t \in Object, t.plainMode = TRUE, t.out = <<>>, NEW line \in Int, NEW column \in Nat,
         NEW u, u = showTerminalCursor(t, column, line), NEW e \in Plain(Allowed(t))
  PROVE  /\ At(e, u) \in Plain(Allowed(t))
         /\ Freed(t, e, u) => OwnRow(u, At(e, u))
<1>1. u = moveTerminalToLine(t, line)
  <2>1. moveTerminalToLine(t, line).plainMode = TRUE
    BY MoveFacts DEF moveTerminalToLine, AtStart, SameModes
  <2> QED BY <2>1 DEF showTerminalCursor
<1>2. e \in Screen
  BY DEF Plain
<1>3. CASE line = t.remoteLine
  <2>1. u = t
    BY <1>1, <1>3 DEF moveTerminalToLine
  <2>2. At(e, u) = e
    BY <1>2, <2>1, AtNothing
  <2>3. KindsOf(u.out) = {}
    BY <2>1, KindsConcat
  <2> QED BY <2>1, <2>2, <2>3 DEF Freed
<1>4. CASE line # t.remoteLine
  <2>1. PICK n \in Nat : n > 0 /\ u.out = NewLines(n)
    BY <1>1, <1>4, MovesPlain
  <2>2. AtStart(t, u)
    BY <1>1, <1>4, MoveFacts
  <2> DEFINE g == At(e, u)
  <2>3. g \in Plain(Allowed(t)) /\ Written(g, u.lineData, 0)
    BY <2>1, NewLinesWritten DEF At
  <2> HIDE DEF g
  <2>4. u.lineDataValid = TRUE /\ u.remoteColumn = 0 /\ Len(u.lineData) = 0
    BY <2>2 DEF AtStart
  <2>5. OwnRow(u, g)
    BY <2>3, <2>4 DEF OwnRow
  <2> QED BY <2>3, <2>5 DEF g
<1> QED BY <1>3, <1>4

\* Plain output is all that was sent, and the row of the cursor is that of the
\* line being output, but for a reset and a window made too narrow.
PlainShown ==
  term.plainMode =>
    /\ screen \in Plain(Allowed(term))
    /\ ~wasReset /\ astray = "no" => OwnRow(term, screen)

ModesKept == term'.plainMode = term.plainMode /\ term'.outputColor = term.outputColor

\* A call that keeps it so chooses a row, if there was none.
LEMMA FreedByCall ==
  ASSUME PlainShown, term.plainMode = TRUE, NEW u, u.plainMode = TRUE, Call(u),
         ~wasReset', astray' = "no"
  PROVE  Freed(term, screen, u)
<1>1. wasReset' = (wasReset /\ ~Writes(u, {"lf"}))
  BY DEF Call
<1>2. astray = "no" \/ KindsOf(u.out) \intersect {"cr", "col"} # {}
  BY CallHistory
<1>3. Writes(u, {"lf"}) <=> KindsOf(u.out) \intersect {"lf"} # {}
  BY WritesKinds
<1> HIDE DEF KindsOf, Writes
<1>4. CASE wasReset \/ astray # "no"
  <2>1. KindsOf(u.out) \intersect {"lf"} # {} \/ KindsOf(u.out) \intersect {"cr", "col"} # {}
    BY <1>1, <1>2, <1>3, <1>4
  <2> QED BY <2>1 DEF Freed
<1>5. CASE ~(wasReset \/ astray # "no")
  BY <1>5 DEF PlainShown, Freed
<1> QED BY <1>4, <1>5

\* What the object is after a call.
LEMMA ModesOfCall ==
  ASSUME Types, NEW u \in Object, u.plainMode = term.plainMode, u.outputColor = term.outputColor,
         Call(u)
  PROVE  /\ ModesKept /\ Allowed(term') = Allowed(term) /\ At(screen, u) = screen'
         /\ OwnRow(term', screen') <=> OwnRow(u, screen')
<1>1. ObjectInv /\ screen \in Screen /\ Output(u)
  BY DEF Types, StateInv, Call
<1>2. /\ term'.plainMode = u.plainMode /\ term'.outputColor = u.outputColor
      /\ screen' = At(screen, u) /\ term'.remoteColumn = u.remoteColumn
      /\ term'.lineDataValid = u.lineDataValid /\ term'.lineData = u.lineData
  BY <1>1, CallFacts
<1>3. ModesKept
  BY <1>2 DEF ModesKept
<1>4. Allowed(term') = Allowed(term)
  BY <1>2 DEF Allowed
<1>5. OwnRow(term', screen') <=> OwnRow(u, screen')
  BY <1>2 DEF OwnRow
<1> QED BY <1>2, <1>3, <1>4, <1>5

\* A call that keeps the screen plain, and has a row for the line if there was
\* one or it went to another.
LEMMA PlainCall ==
  ASSUME Types, PlainShown, NEW u \in Object, u.plainMode = term.plainMode,
         u.outputColor = term.outputColor, Call(u),
         term.plainMode => /\ screen' \in Plain(Allowed(term))
                           /\ Freed(term, screen, u) => OwnRow(u, screen')
  PROVE  ModesKept /\ PlainShown'
<1>1. /\ ModesKept /\ Allowed(term') = Allowed(term)
      /\ OwnRow(term', screen') <=> OwnRow(u, screen')
  BY ModesOfCall
<1>2. term.plainMode \in BOOLEAN
  BY ObjectParts DEF Types, ObjectInv
<1>3. SUFFICES ASSUME term'.plainMode PROVE PlainShown'
  BY <1>1 DEF PlainShown
<1>4. term.plainMode = TRUE
  BY <1>1, <1>2, <1>3 DEF ModesKept
<1>5. screen' \in Plain(Allowed(term'))
  BY <1>1, <1>4
<1>6. ASSUME ~wasReset', astray' = "no" PROVE OwnRow(term', screen')
  <2>1. Freed(term, screen, u)
    BY <1>4, <1>6, FreedByCall
  <2> QED BY <1>1, <1>4, <2>1
<1> QED BY <1>5, <1>6 DEF PlainShown

\* At the beginning of a scrape nothing is written.
LEMMA PlainBegin ==
  ASSUME Types, PlainShown, NEW newTop, NEW last, NEW newCursor, BeginScrape(newTop, last, newCursor)
  PROVE  ModesKept /\ PlainShown'
<1>1. term \in Object /\ term.out = <<>> /\ screen \in Screen
  BY DEF Types, ObjectInv, StateInv
<1>2. PICK u \in Object : Begins(u, newCursor)
  BY BeginHides
<1>3. CASE term.plainMode
  <2>1. hideTerminalCursor(term) = term
    BY <1>3 DEF hideTerminalCursor
  <2>2. Call(term)
    BY <2>1 DEF BeginScrape
  <2>3. At(screen, term) = screen'
    BY <1>1, <2>2, ModesOfCall
  <2>4. screen' = screen
    BY <1>1, <2>3, AtNothing
  <2>5. KindsOf(term.out) = {}
    BY <1>1, KindsConcat
  <2>6. Freed(term, screen, term) => OwnRow(term, screen')
    BY <2>4, <2>5 DEF Freed
  <2>7. term.plainMode => screen' \in Plain(Allowed(term))
    BY <2>4 DEF PlainShown
  <2> QED BY <1>1, <2>2, <2>6, <2>7, PlainCall
<1>4. CASE ~term.plainMode
  <2>1. Call(u) /\ u.plainMode = term.plainMode /\ u.outputColor = term.outputColor
    <3>1. Hid(term, u) \/ u = term
      BY <1>2 DEF Begins
    <3> QED BY <1>2, <3>1 DEF Begins, Hid, SameModes
  <2> QED BY <1>4, <2>1, PlainCall
<1> QED BY <1>3, <1>4

\* While lines are scraped: a line that is sent is all there is on its row.
LEMMA PlainScrape ==
  ASSUME Types, PlainShown, NEW line \in todo, NEW data \in LineData, Scraped(line, data)
  PROVE  /\ ModesKept /\ PlainShown'
         /\ term.plainMode /\ screen' # screen /\ ~wasReset' /\ astray' = "no" =>
              HasLine(screen', data)
<1>1. term \in Object /\ LineKept(term) /\ term.out = <<>> /\ ObjectInv /\ screen \in Screen
  BY DEF Types, ObjectInv, StateInv
<1>2. data \in Seq(Cell) /\ Len(data) > 0 /\ Len(data) = screen.width
  BY <1>1, LineDataFacts, ScreenNumbers
<1>3. line \in Int /\ CursorOn(line) \in Int
  <2>1. cursor = NoCursor => cursor.column = -1
    BY DEF NoCursor
  <2> QED BY <2>1, Numbers DEF CursorOn
<1>4. CASE Call(sendLine(term, line, data, CursorOn(line)))
  <2>1. PICK column \in Int : column = CursorOn(line)
    BY <1>3
  <2>2. PICK u : u = sendLine(term, line, data, column)
    OBVIOUS
  <2>3. LineRemembered(term, u, line, data, column)
    BY <1>1, <1>2, <1>3, <2>2, SendLineFacts
  <2>4. Call(u) /\ u \in Object /\ u.plainMode = term.plainMode /\ u.outputColor = term.outputColor
    BY <1>4, <2>1, <2>2, <2>3 DEF LineRemembered, SameModes
  <2>5. At(screen, u) = screen'
    BY <2>4, ModesOfCall
  <2>6. ASSUME term.plainMode
        PROVE  /\ screen' \in Plain(Allowed(term))
               /\ Freed(term, screen, u) => OwnRow(u, screen') /\ HasLine(screen', data)
    <3>1. term.plainMode = TRUE /\ screen \in Plain(Allowed(term))
      BY <1>1, <2>6, ObjectParts DEF PlainShown
    <3>2. screen.width = Len(data) /\ column \in Int
      BY <1>2
    <3>3. /\ At(screen, u) \in Plain(Allowed(term))
          /\ Freed(term, screen, u) => OwnRow(u, At(screen, u)) /\ HasLine(At(screen, u), data)
      BY <1>1, <1>2, <1>3, <2>2, <3>1, <3>2, SendLinePlain
    <3> QED BY <2>5, <3>3
  <2>7. ModesKept /\ PlainShown'
    BY <2>4, <2>6, PlainCall
  <2>8. ASSUME term.plainMode, ~wasReset', astray' = "no" PROVE Freed(term, screen, u)
    <3>1. term.plainMode = TRUE
      BY <1>1, <2>8, ObjectParts
    <3> QED BY <2>4, <2>8, <3>1, FreedByCall
  <2> QED BY <2>6, <2>7, <2>8
<1>5. CASE Leaves(line, data)
  <2>1. term' = term /\ screen' = screen /\ wasReset' = wasReset /\ astray' = astray
    BY <1>5 DEF Leaves
  <2> QED BY <2>1 DEF ModesKept, PlainShown
<1> QED BY <1>4, <1>5 DEF Scraped, Leaves

\* At its end.
LEMMA PlainEnd ==
  ASSUME Types, PlainShown, EndScrape
  PROVE  ModesKept /\ PlainShown'
<1>1. term \in Object /\ LineKept(term) /\ term.out = <<>> /\ screen \in Screen
  BY DEF Types, ObjectInv, StateInv
<1>2. CASE cursor = NoCursor
  <2>1. term' = term /\ screen' = screen /\ wasReset' = wasReset /\ astray' = astray
    BY <1>2 DEF EndScrape
  <2> QED BY <2>1 DEF ModesKept, PlainShown
<1>3. CASE cursor # NoCursor
  <2>1. Call(showTerminalCursor(term, cursor.column, cursor.line))
    BY <1>3 DEF EndScrape
  <2>2. PICK line \in Int, column \in Nat : line = cursor.line /\ column = cursor.column
    BY <1>3, Numbers
  <2>3. PICK u : u = showTerminalCursor(term, column, line)
    OBVIOUS
  <2>4. CursorSet(term, u, line, column)
    BY <1>1, <2>3, ShowCursorFacts
  <2>5. Call(u) /\ u \in Object /\ u.plainMode = term.plainMode /\ u.outputColor = term.outputColor
    BY <2>1, <2>2, <2>3, <2>4 DEF CursorSet, CursorKept, SameModes
  <2>6. At(screen, u) = screen'
    BY <2>5, ModesOfCall
  <2>7. ASSUME term.plainMode
        PROVE  screen' \in Plain(Allowed(term)) /\ (Freed(term, screen, u) => OwnRow(u, screen'))
    <3>1. term.plainMode = TRUE /\ screen \in Plain(Allowed(term))
      BY <1>1, <2>7, ObjectParts DEF PlainShown
    <3> QED BY <1>1, <2>3, <2>6, <3>1, ShowPlain
  <2> QED BY <2>5, <2>7, PlainCall
<1> QED BY <1>2, <1>3

\* When all is forgotten plain output writes nothing, and stays where it is.
LEMMA PlainReset ==
  ASSUME Types, PlainShown, NEW newTop \in 0..MaxLine, NEW newDirect \in BOOLEAN, Reset(newTop, newDirect)
  PROVE  ModesKept /\ PlainShown'
<1>1. term \in Object /\ term.out = <<>> /\ ObjectInv /\ screen \in Screen /\ newTop \in Int
  BY DEF Types, ObjectInv, StateInv
<1>2. PICK u : u = reset(term, TRUE, newTop)
  OBVIOUS
<1>3. Output(u) /\ wasReset' = (wasReset \/ term.plainMode \/ term.cursorHidden)
  BY <1>2 DEF Reset
<1>4. u \in Object /\ u.plainMode = term.plainMode /\ u.outputColor = term.outputColor
  <2>1. Forgotten(term, u, newTop)
    BY <1>1, <1>2, ResetFacts
  <2> QED BY <2>1 DEF Forgotten
<1>5. term'.plainMode = u.plainMode /\ term'.outputColor = u.outputColor /\ screen' = At(screen, u)
  BY <1>1, <1>3, <1>4, CallFacts
<1>6. ModesKept
  BY <1>4, <1>5 DEF ModesKept
<1>7. ASSUME term.plainMode PROVE screen' = screen /\ wasReset'
  <2>1. u.out = <<>>
    BY <1>1, <1>2, <1>7 DEF reset
  <2> QED BY <1>1, <1>3, <1>4, <1>5, <1>7, <2>1, AtNothing
<1>8. ASSUME term'.plainMode PROVE screen' \in Plain(Allowed(term')) /\ wasReset'
  <2>1. term.plainMode
    BY <1>4, <1>5, <1>8
  <2>2. Allowed(term') = Allowed(term)
    BY <1>4, <1>5 DEF Allowed
  <2> QED BY <1>7, <2>1, <2>2 DEF PlainShown
<1> QED BY <1>6, <1>8 DEF PlainShown

\* When the window is made narrower or wider.
LEMMA PlainResize ==
  ASSUME Types, PlainShown, NEW width \in Widths, NEW keeps \in BOOLEAN, Resize(width, keeps)
  PROVE  ModesKept /\ PlainShown'
<1>1. /\ screen' = Resized(screen, width, keeps)
      /\ astray' = IF astray = "no" /\ Position(screen) > width THEN "cursor" ELSE astray
      /\ term' = term /\ wasReset' = wasReset
  BY DEF Resize
<1>2. screen \in Screen /\ Position(screen) \in Nat /\ width \in Nat
      /\ screen.y \in 0..(Height - 1) /\ width <= MaxWidth /\ MaxWidth \in Nat
  <2>1. \A w \in Widths : w \in Nat /\ w <= MaxWidth
    BY ScreenNumbers
  <2> QED BY <2>1, Numbers, ScreenParts DEF Position
<1>3. PICK g : g = Resized(screen, width, keeps)
  OBVIOUS
<1>4. /\ g \in Screen /\ g.y = screen.y
      /\ Position(g) = IF Position(screen) < width THEN Position(screen) ELSE width
      /\ \A r \in 0..(Height - 1), i \in 1..MaxWidth :
           g.rows[r][i] = IF i <= width \/ keeps THEN screen.rows[r][i] ELSE blankChar(Default)
  BY <1>2, <1>3, ResizedFacts
<1>5. g.escapes = screen.escapes /\ screen' = g
  BY <1>1, <1>2, <1>3, ScreenFields DEF Resized, MadeOf
<1>6. blankChar(Default).ch = Space
  BY DEF blankChar
<1>7. SUFFICES ASSUME term.plainMode
               PROVE  /\ g \in Plain(Allowed(term))
                      /\ ~wasReset /\ astray' = "no" => OwnRow(term, g)
  BY <1>1, <1>5 DEF PlainShown, ModesKept
<1>8. /\ screen \in Plain(Allowed(term))
      /\ ~wasReset /\ astray = "no" => OwnRow(term, screen)
  BY <1>7 DEF PlainShown
<1>9. NothingBelow(g.rows, g.y)
  <2>1. SUFFICES ASSUME NEW r \in 0..(Height - 1), r > g.y, NEW i \in 1..MaxWidth
                 PROVE  g.rows[r][i].ch = Space
    BY DEF NothingBelow, Empty
  <2>2. screen.rows[r][i].ch = Space
    BY <1>4, <1>8, <2>1 DEF Plain, NothingBelow, Empty
  <2> QED BY <1>4, <1>6, <2>2
<1>10. g \in Plain(Allowed(term))
  BY <1>4, <1>5, <1>8, <1>9 DEF Plain
<1>11. ASSUME ~wasReset, astray' = "no" PROVE OwnRow(term, g)
  <2>1. astray = "no" /\ Position(screen) <= width
    BY <1>1, <1>2, <1>11
  <2>2. OwnRow(term, screen)
    BY <1>8, <1>11, <2>1
  <2>3. /\ term.lineDataValid = TRUE /\ Len(term.lineData) = term.remoteColumn
        /\ Position(screen) = term.remoteColumn
        /\ \A i \in 1..MaxWidth : screen.rows[screen.y][i].ch =
             IF i <= term.remoteColumn THEN term.lineData[i].ch ELSE Space
    BY <2>2 DEF OwnRow, Written
  <2>4. Position(g) = term.remoteColumn /\ term.remoteColumn <= width
    BY <1>2, <1>4, <2>1, <2>3
  <2>5. ASSUME NEW i \in 1..MaxWidth
        PROVE  g.rows[g.y][i].ch = IF i <= term.remoteColumn THEN term.lineData[i].ch ELSE Space
    <3>1. g.rows[g.y][i] = IF i <= width \/ keeps THEN screen.rows[g.y][i] ELSE blankChar(Default)
      BY <1>2, <1>4
    <3>2. CASE i <= width \/ keeps
      BY <1>4, <2>3, <3>1, <3>2
    <3>3. CASE ~(i <= width \/ keeps)
      <4>1. ~(i <= term.remoteColumn)
        BY <1>2, <2>3, <2>4, <3>3
      <4> QED BY <1>6, <3>1, <3>3, <4>1
    <3> QED BY <3>2, <3>3
  <2>6. Written(g, term.lineData, term.remoteColumn)
    BY <1>4, <2>4, <2>5 DEF Written
  <2> QED BY <2>3, <2>6 DEF OwnRow
<1> QED BY <1>10, <1>11

\* When the session starts.
LEMMA PlainInit == TermInit => PlainShown
<1> SUFFICES ASSUME TermInit PROVE PlainShown
  OBVIOUS
<1>1. PICK plain \in BOOLEAN : term = reset(NewObject(plain), FALSE, 0)
  BY TerminalAssumption DEF TermInit
<1>2. screen = NewTerminal /\ screen \in Screen
  BY NewTerminalType DEF TermInit
<1>3. term.remoteColumn = 0 /\ term.lineData = <<>> /\ term.lineDataValid = TRUE
  BY <1>1 DEF reset, NewObject
<1>4. /\ screen.x = 0 /\ screen.y = 0 /\ screen.wrap = FALSE /\ screen.escapes = {}
      /\ screen.rows = [r \in 0..(Height - 1) |-> BlankLine(Default)]
  BY <1>2 DEF NewTerminal
<1>5. Position(screen) = 0
  BY <1>4 DEF Position
<1>6. \A r \in 0..(Height - 1) : Empty(screen.rows[r])
  BY <1>4, BlankIsEmpty
<1>7. screen \in Plain(Allowed(term))
  BY <1>2, <1>4, <1>6 DEF Plain, NothingBelow
<1>8. OwnRow(term, screen)
  <2>1. 0 \in 0..(Height - 1)
    BY ScreenNumbers
  <2>2. \A i \in 1..MaxWidth : screen.rows[screen.y][i].ch = Space /\ ~(i <= 0)
    BY <1>4, <1>6, <2>1, ScreenNumbers DEF Empty
  <2>3. Written(screen, term.lineData, 0)
    BY <1>2, <1>5, <2>2 DEF Written
  <2> QED BY <1>3, <2>3 DEF OwnRow
<1> QED BY <1>7, <1>8 DEF PlainShown

\* When nothing happens.
LEMMA PlainStutter == PlainShown /\ UNCHANGED termVars => ModesKept /\ PlainShown'
BY DEF PlainShown, ModesKept, termVars

\* Every step keeps it so.
LEMMA PlainStep == Types /\ PlainShown /\ [TermNext]_termVars => ModesKept /\ PlainShown'
<1> SUFFICES ASSUME Types, PlainShown, TermNext PROVE ModesKept /\ PlainShown'
  BY PlainStutter
<1>1. ASSUME NEW newTop \in 0..MaxLine, NEW last \in -1..MaxLine, NEW newCursor \in Cursors,
             BeginScrape(newTop, last, newCursor)
      PROVE  ModesKept /\ PlainShown'
  BY <1>1, PlainBegin
<1>2. ASSUME NEW line \in todo, NEW data \in LineData, ScrapeLine(line, data)
      PROVE  ModesKept /\ PlainShown'
  <2>1. Scraped(line, data)
    BY <1>2, ScrapeLineFacts
  <2> QED BY <1>2, <2>1, PlainScrape
<1>3. ASSUME EndScrape PROVE ModesKept /\ PlainShown'
  BY <1>3, PlainEnd
<1>4. ASSUME NEW newTop \in 0..MaxLine, NEW newDirect \in BOOLEAN, Reset(newTop, newDirect)
      PROVE  ModesKept /\ PlainShown'
  BY <1>4, PlainReset
<1>5. ASSUME NEW width \in Widths, NEW keeps \in BOOLEAN, Resize(width, keeps)
      PROVE  ModesKept /\ PlainShown'
  BY <1>5, PlainResize
<1> QED BY <1>1, <1>2, <1>3, <1>4, <1>5 DEF TermNext

\* It holds throughout.
LEMMA PlainAlways == TermSpec => [](Types /\ PlainShown)
BY TypesInit, TypesStep, PlainInit, PlainStep, PTL DEF TermSpec

(* Plain output is text and line breaks, with colors where they are asked  *)
(* for, and what sendLine writes last is the whole of its line in a row of *)
(* its own, whether the line was repeated or continued.                    *)
THEOREM PlainOutputIsPlain == TermSpec => PlainOutput
<1> DEFINE Last == term.plainMode =>
             /\ screen'.escapes \subseteq IF term.outputColor THEN {"color"} ELSE {}
             /\ screen' # screen /\ ~wasReset' /\ astray' = "no" =>
                  \A l \in todo \ todo' : l \in DOMAIN buffer' =>
                    \A i \in 1..buffer'[l].length :
                      screen'.rows[screen'.y][i].ch = buffer'[l].data[i].ch
<1>1. Types /\ PlainShown /\ (Types /\ PlainShown)' /\ [TermNext]_termVars => Last
  <2> SUFFICES ASSUME Types, PlainShown, [TermNext]_termVars, term.plainMode
               PROVE  Last
    OBVIOUS
  <2>1. screen'.escapes \subseteq IF term.outputColor THEN {"color"} ELSE {}
    <3>1. ModesKept /\ PlainShown'
      BY PlainStep
    <3>2. screen' \in Plain(Allowed(term')) /\ Allowed(term') = Allowed(term)
      BY <3>1 DEF PlainShown, ModesKept, Allowed
    <3> QED BY <3>2 DEF Plain, Allowed
  <2>2. ASSUME screen' # screen, ~wasReset', astray' = "no", NEW l \in todo \ todo',
               NEW i \in 1..buffer'[l].length
        PROVE  screen'.rows[screen'.y][i].ch = buffer'[l].data[i].ch
    <3>1. PICK line \in todo, data \in LineData : ScrapeLine(line, data)
      <4>1. todo' # todo /\ todo # {}
        BY <2>2
      <4>2. phase = "scraping"
        BY <4>1 DEF Types, StateInv, ScrapeInv
      <4>3. TermNext
        BY <4>1 DEF termVars
      <4> QED BY <4>1, <4>2, <4>3 DEF TermNext, BeginScrape, EndScrape, Reset, Resize
    <3>2. Scraped(line, data)
      BY <3>1, ScrapeLineFacts
    <3>3. line = l /\ buffer'[l] = setLine(Old(l), data)
      BY <2>2, <3>2 DEF Scraped
    <3>4. data \in Seq(Cell) /\ Len(data) \in 1..MaxWidth
      BY LineDataFacts DEF Types, StateInv
    <3>5. buffer'[l].length = Len(data) /\ \A j \in 1..Len(data) : buffer'[l].data[j] = data[j]
      <4>1. Old(l) = NoLine \/ Old(l) \in Remembered
        BY DEF Old, Types, BufferInv
      <4>2. PICK o : o = Old(l)
        OBVIOUS
      <4>3. setLine(o, data).length = Len(data) /\ \A j \in 1..Len(data) : setLine(o, data).data[j] = data[j]
        BY <3>4, <4>1, <4>2, SetLineFacts
      <4> QED BY <3>3, <4>2, <4>3
    <3>6. \A j \in 1..Len(data) : screen'.rows[screen'.y][j].ch = data[j].ch
      BY <2>2, <3>2, PlainScrape DEF HasLine
    <3> QED BY <2>2, <3>5, <3>6
  <2> QED BY <2>1, <2>2
<1>2. TermSpec => [][Last]_termVars
  BY <1>1, PlainAlways, PTL DEF TermSpec
<1> QED BY <1>2 DEF PlainOutput
=============================================================================
