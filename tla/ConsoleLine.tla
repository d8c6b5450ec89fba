----------------------------- MODULE ConsoleLine -----------------------------
(***************************************************************************)
(* class ConsoleLine: what the scraper remembers of a line it has sent, to *)
(* tell at the next scrape whether it has to be sent again.  The console   *)
(* and the terminal may have been made narrower or wider in between.  A    *)
(* terminal may keep the cells a narrower window hides and show them again *)
(* when it is made wider, so m_prevData keeps the cells beyond             *)
(* m_prevLength as well: those that were last known to be there.           *)
(*                                                                         *)
(* A line is a sequence of cells, and a cell has a character, ch, and      *)
(* attributes, color.                                                      *)
(***************************************************************************)
EXTENDS Integers, Sequences

Space == " "

blankChar(color) == [ch |-> Space, color |-> color]

\* m_prevData is empty and m_prevLength zero: the constructor, and reset.
NoLine == [length |-> 0, data |-> <<>>]

isLineBlank(cells, first, last, color) ==
  \A i \in first..last : cells[i] = blankChar(color)

areLinesEqual(cells, line, length) == \A i \in 1..length : cells[i] = line[i]

setLine(o, line) ==
  LET size == IF Len(o.data) < Len(line) THEN Len(line) ELSE Len(o.data)
  IN [length |-> Len(line),
      data |-> [i \in 1..size |-> IF i <= Len(line) THEN line[i] ELSE o.data[i]]]

\* The part of m_prevData that a line of this length shows again.
Reexposed(o, length) == IF Len(o.data) < length THEN Len(o.data) ELSE length

\* Mutated form of SameLonger: only what the line was at the last scrape counts.
SameLongerUnlessHidden(o, line) ==
  LET color == o.data[o.length].color
  IN /\ areLinesEqual(o.data, line, o.length)
     /\ isLineBlank(line, o.length + 1, Len(line), color)

\* The line has become longer.
SameLonger(o, line) ==
  LET color == o.data[o.length].color
  IN /\ areLinesEqual(o.data, line, o.length)
     /\ isLineBlank(o.data, o.length + 1, Reexposed(o, Len(line)), color)
     /\ isLineBlank(line, o.length + 1, Len(line), color)

\* The line has become shorter.
SameShorter(o, line) ==
  /\ areLinesEqual(o.data, line, Len(line))
  /\ isLineBlank(o.data, Len(line) + 1, o.length, line[Len(line)].color)

detectChange(o, line) ==
  CASE o.length = 0 -> TRUE
    [] o.length = Len(line) -> ~areLinesEqual(o.data, line, Len(line))
    [] o.length > Len(line) -> ~SameShorter(o, line)
    [] OTHER -> ~SameLonger(o, line)
==============================================================================
