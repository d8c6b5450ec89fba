------------------------------- MODULE Unicode -------------------------------
(***************************************************************************)
(* How characters are converted on their way through the agent: UTF-8 from *)
(* and to the terminal, UTF-16 to and from the console, whose cells hold   *)
(* one code unit each.  ConsoleInput and TerminalOutput give characters    *)
(* names; here they are numbers.                                           *)
(*                                                                         *)
(* Shifts and masks are divisions and remainders, and `|' of numbers that  *)
(* have no bit in common is a sum.                                         *)
(***************************************************************************)
EXTENDS Integers, Sequences

Byte == {byte \in Nat : byte < \h100}
Unit == {unit \in Nat : unit < \h10000}

IsSurrogate(unit) == unit >= \hD800 /\ unit <= \hDFFF
ScalarValue == {code \in Nat : code < \h110000 /\ ~IsSurrogate(code)}

Invalid == -1

----------------------------------------------------------------------------
(***************************************************************************)
(* UTF-8.                                                                  *)
(***************************************************************************)
Shift6(code)  == code \div \h40
Shift12(code) == Shift6(Shift6(code))
Shift18(code) == Shift6(Shift12(code))

Continuation(bits) == \h80 + (bits % \h40)

\* The bytes; there are none for what is not a scalar value.
encodeUtf8(code) ==
  IF code < \h80 THEN <<code>>
  ELSE IF code < \h800 THEN <<\hC0 + (Shift6(code) % \h20), Continuation(code)>>
  ELSE IF IsSurrogate(code) THEN <<>>
  ELSE IF code < \h10000
       THEN <<\hE0 + (Shift12(code) % \h10), Continuation(Shift6(code)), Continuation(code)>>
  ELSE IF code < \h110000
       THEN <<\hF0 + (Shift18(code) % 8), Continuation(Shift12(code)),
              Continuation(Shift6(code)), Continuation(code)>>
  ELSE <<>>

utf8CharLength(firstByte) ==
  IF firstByte < \h80 THEN 1
  ELSE IF firstByte \div \h20 = 6 THEN 2
  ELSE IF firstByte \div \h10 = 14 THEN 3
  ELSE IF firstByte \div 8 = 30 THEN 4
  ELSE 0

IsContinuation(byte) == byte \div \h40 = 2

\* The bits of a character of two, three or four bytes.
Bits2(in) == \h40 * (in[1] % \h20) + (in[2] % \h40)
Bits3(in) == \h40 * (\h40 * (in[1] % \h10) + (in[2] % \h40)) + (in[3] % \h40)
Bits4(in) ==
  \h40 * (\h40 * (\h40 * (in[1] % 8) + (in[2] % \h40)) + (in[3] % \h40)) + (in[4] % \h40)

\* in: as many bytes as the first one says.
decodeUtf8(in) ==
  LET length == utf8CharLength(in[1])
  IN IF length = 1 THEN in[1]
     ELSE IF length = 0 \/ ~\A n \in 2..length : IsContinuation(in[n]) THEN Invalid
     ELSE IF length = 2 THEN IF Bits2(in) < \h80 THEN Invalid ELSE Bits2(in)
     ELSE IF length = 3
          THEN IF Bits3(in) < \h800 \/ IsSurrogate(Bits3(in)) THEN Invalid ELSE Bits3(in)
     ELSE IF Bits4(in) < \h10000 \/ Bits4(in) >= \h110000 THEN Invalid ELSE Bits4(in)

----------------------------------------------------------------------------
(***************************************************************************)
(* UTF-16.                                                                 *)
(***************************************************************************)
encodeUtf16(code) ==
  IF IsSurrogate(code) THEN <<>>
  ELSE IF code < \h10000 THEN <<code>>
  ELSE IF code < \h110000
       THEN <<\hD800 + ((code - \h10000) \div \h400), \hDC00 + ((code - \h10000) % \h400)>>
  ELSE <<>>

decodeSurrogatePair(ch1, ch2) == \h400 * (ch1 - \hD800) + (ch2 - \hDC00) + \h10000

IsLeading(unit)  == unit \div \h400 = \h36
IsTrailing(unit) == unit \div \h400 = \h37

----------------------------------------------------------------------------
(***************************************************************************)
(* The cells of a console line: a code unit each, and whether the cell is  *)
(* the first (leading) or the second half (trailing) of a full-width       *)
(* character.                                                              *)
(***************************************************************************)
Cell == [unit : Unit, leading : BOOLEAN, trailing : BOOLEAN]

\* At cell i of a line.
isFullWidthCharacter(data, i) ==
  /\ i < Len(data)
  /\ data[i].leading /\ data[i + 1].trailing
  /\ data[i].unit = data[i + 1].unit

CellsAt(data, i) == IF isFullWidthCharacter(data, i) THEN 2 ELSE 1

QuestionMark == \h3F
Escape == \h1B

\* The character that begins at cell i, and how many cells it takes.
scanUnicodeScalarValue(data, i) ==
  LET c1   == data[i].unit
      next == i + CellsAt(data, i)
  IN IF ~IsLeading(c1) /\ ~IsTrailing(c1)
     THEN [cellCount |-> CellsAt(data, i), charValue |-> c1]
     ELSE IF IsLeading(c1) /\ next <= Len(data) /\ IsTrailing(data[next].unit)
     THEN [cellCount |-> CellsAt(data, i) + CellsAt(data, next),
           charValue |-> decodeSurrogatePair(c1, data[next].unit)]
     ELSE [cellCount |-> CellsAt(data, i), charValue |-> QuestionMark]

\* The box drawings of the console's popup windows, and an escape character.
fixSpecialCharacters(ch) ==
  CASE ch = 1 -> \h2554
    [] ch = 2 -> \h2557
    [] ch = 3 -> \h255A
    [] ch = 4 -> \h255D
    [] ch = 5 -> \h2551
    [] ch = 6 -> \h2550
    [] ch = Escape -> QuestionMark
    [] OTHER -> ch

\* What sendLine appends for the character at cell i, if it is not a space.
SentFor(data, i) ==
  LET enc == encodeUtf8(fixSpecialCharacters(scanUnicodeScalarValue(data, i).charValue))
  IN IF enc = <<>> THEN <<QuestionMark>> ELSE enc
=============================================================================
