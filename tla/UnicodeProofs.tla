---------------------------- MODULE UnicodeProofs ----------------------------
(***************************************************************************)
(* The conversions lose nothing, accept no character in two forms, and     *)
(* never make an escape sequence out of a cell.                            *)
(***************************************************************************)
EXTENDS Unicode, TLAPS

(* A character that is encoded in UTF-8 has as many bytes as its first one *)
(* says and decodes to itself, whatever it is (UnicodeEncoding.h:28, 100). *)
THEOREM Utf8RoundTrip ==
  ASSUME NEW code \in ScalarValue
  PROVE  /\ encodeUtf8(code) # <<>>
         /\ Len(encodeUtf8(code)) = utf8CharLength(encodeUtf8(code)[1])
         /\ decodeUtf8(encodeUtf8(code)) = code
<1> USE DEF ScalarValue, IsSurrogate, Continuation, Shift6, Shift12, Shift18
<1>1. CASE code < \h80
  BY <1>1, SMT DEF encodeUtf8, utf8CharLength, decodeUtf8
<1>2. CASE code >= \h80 /\ code < \h800
  <2> DEFINE b1 == \hC0 + (Shift6(code) % \h20)
             b2 == Continuation(code)
  <2>1. encodeUtf8(code) = <<b1, b2>>
    BY <1>2, SMT DEF encodeUtf8
  <2>2. utf8CharLength(b1) = 2 /\ IsContinuation(b2)
    BY <1>2, SMT DEF utf8CharLength, IsContinuation
  <2>3. Bits2(<<b1, b2>>) = code
    BY <1>2, SMT DEF Bits2
  <2> HIDE DEF b1, b2
  <2> QED BY <1>2, <2>1, <2>2, <2>3, SMT DEF decodeUtf8
<1>3. CASE code >= \h800 /\ code < \h10000
  <2> DEFINE b1 == \hE0 + (Shift12(code) % \h10)
             b2 == Continuation(Shift6(code))
             b3 == Continuation(code)
  <2>1. encodeUtf8(code) = <<b1, b2, b3>>
    BY <1>3, SMT DEF encodeUtf8
  <2>2. utf8CharLength(b1) = 3 /\ IsContinuation(b2) /\ IsContinuation(b3)
    BY <1>3, SMT DEF utf8CharLength, IsContinuation
  <2>3. Bits3(<<b1, b2, b3>>) = code
    BY <1>3, SMT DEF Bits3
  <2> HIDE DEF b1, b2, b3
  <2> QED BY <1>3, <2>1, <2>2, <2>3, SMT DEF decodeUtf8
<1>4. CASE code >= \h10000
  <2> DEFINE b1 == \hF0 + (Shift18(code) % 8)
             b2 == Continuation(Shift12(code))
             b3 == Continuation(Shift6(code))
             b4 == Continuation(code)
  <2>1. encodeUtf8(code) = <<b1, b2, b3, b4>>
    BY <1>4, SMT DEF encodeUtf8
  <2>2. /\ utf8CharLength(b1) = 4
        /\ IsContinuation(b2) /\ IsContinuation(b3) /\ IsContinuation(b4)
    BY <1>4, SMT DEF utf8CharLength, IsContinuation
  <2>3. Bits4(<<b1, b2, b3, b4>>) = code
    BY <1>4, SMT DEF Bits4
  <2> HIDE DEF b1, b2, b3, b4
  <2> QED BY <1>4, <2>1, <2>2, <2>3, SMT DEF decodeUtf8
<1> QED BY <1>1, <1>2, <1>3, <1>4, SMT

(***************************************************************************)
(* The bits of bytes that decodeUtf8 accepts are those encodeUtf8 puts     *)
(* there.                                                                  *)
(***************************************************************************)
LEMMA TwoBytes ==
  ASSUME NEW b1 \in Nat, NEW b2 \in Nat, b1 \div \h20 = 6, b2 \div \h40 = 2,
         NEW code, code = \h40 * (b1 % \h20) + (b2 % \h40)
  PROVE  /\ code \in Nat /\ code < \h800
         /\ b1 = \hC0 + (Shift6(code) % \h20) /\ b2 = Continuation(code)
BY SMT DEF Shift6, Continuation

LEMMA ThreeBytes ==
  ASSUME NEW b1 \in Nat, NEW b2 \in Nat, NEW b3 \in Nat,
         b1 \div \h10 = 14, b2 \div \h40 = 2, b3 \div \h40 = 2,
         NEW code, code = \h40 * (\h40 * (b1 % \h10) + (b2 % \h40)) + (b3 % \h40)
  PROVE  /\ code \in Nat /\ code < \h10000
         /\ b1 = \hE0 + (Shift12(code) % \h10)
         /\ b2 = Continuation(Shift6(code)) /\ b3 = Continuation(code)
BY SMT DEF Shift6, Shift12, Continuation

LEMMA FourBytes ==
  ASSUME NEW b1 \in Nat, NEW b2 \in Nat, NEW b3 \in Nat, NEW b4 \in Nat,
         b1 \div 8 = 30, b2 \div \h40 = 2, b3 \div \h40 = 2, b4 \div \h40 = 2,
         NEW code,
         code = \h40 * (\h40 * (\h40 * (b1 % 8) + (b2 % \h40)) + (b3 % \h40)) + (b4 % \h40)
  PROVE  /\ code \in Nat
         /\ b1 = \hF0 + (Shift18(code) % 8)
         /\ b2 = Continuation(Shift12(code))
         /\ b3 = Continuation(Shift6(code)) /\ b4 = Continuation(code)
BY SMT DEF Shift6, Shift12, Shift18, Continuation

(* No character is accepted in two forms: bytes that decode to anything    *)
(* decode to a scalar value, and are the very bytes it is encoded in, so   *)
(* neither overlong forms nor encoded surrogates get through.              *)
THEOREM Utf8Canonical ==
  ASSUME NEW in \in Seq(Byte), in # <<>>, Len(in) = utf8CharLength(in[1]),
         decodeUtf8(in) # Invalid
  PROVE  decodeUtf8(in) \in ScalarValue /\ encodeUtf8(decodeUtf8(in)) = in
<1> DEFINE length == utf8CharLength(in[1])
<1>1. \A n \in 1..Len(in) : in[n] \in Nat
  BY SMT DEF Byte
<1>2. Len(in) = length /\ length \in 1..4
  BY SMT DEF utf8CharLength
<1>3. \A n \in 2..length : IsContinuation(in[n])
  BY <1>2, SMT DEF decodeUtf8
<1>4. CASE length = 1
  <2>1. in = <<in[1]>> /\ in[1] < \h80 /\ in[1] \in Nat
    BY <1>1, <1>2, <1>4, SMT DEF utf8CharLength
  <2> QED BY <1>4, <2>1, SMT DEF decodeUtf8, encodeUtf8, ScalarValue, IsSurrogate
<1>5. CASE length = 2
  <2> DEFINE code == Bits2(in)
  <2>1. in = <<in[1], in[2]>> /\ in[1] \in Nat /\ in[2] \in Nat
    BY <1>1, <1>2, <1>5, SMT
  <2>2. in[1] \div \h20 = 6 /\ in[2] \div \h40 = 2
    <3>1. IsContinuation(in[2])
      BY <1>3, <1>5
    <3> QED BY <1>5, <2>1, <3>1, SMT DEF utf8CharLength, IsContinuation
  <2>3. decodeUtf8(in) = code /\ ~(code < \h80)
    BY <1>3, <1>5, SMT DEF decodeUtf8
  <2>4. /\ code \in Nat /\ code < \h800
        /\ in[1] = \hC0 + (Shift6(code) % \h20) /\ in[2] = Continuation(code)
    BY <2>1, <2>2, TwoBytes, SMT DEF Bits2
  <2> HIDE DEF code
  <2>5. encodeUtf8(code) = <<in[1], in[2]>>
    BY <2>3, <2>4, SMT DEF encodeUtf8
  <2>6. code \in ScalarValue
    BY <2>4, SMT DEF ScalarValue, IsSurrogate
  <2>7. encodeUtf8(code) = in
    BY <2>1, <2>5, Zenon
  <2> QED BY <2>3, <2>6, <2>7, Zenon
<1>6. CASE length = 3
  <2> DEFINE code == Bits3(in)
  <2>1. in = <<in[1], in[2], in[3]>> /\ in[1] \in Nat /\ in[2] \in Nat /\ in[3] \in Nat
    BY <1>1, <1>2, <1>6, SMT
  <2>2. in[1] \div \h10 = 14 /\ in[2] \div \h40 = 2 /\ in[3] \div \h40 = 2
    <3>1. IsContinuation(in[2]) /\ IsContinuation(in[3])
      BY <1>3, <1>6
    <3> QED BY <1>6, <2>1, <3>1, SMT DEF utf8CharLength, IsContinuation
  <2>3. decodeUtf8(in) = code /\ ~(code < \h800) /\ ~IsSurrogate(code)
    BY <1>3, <1>6, SMT DEF decodeUtf8
  <2>4. /\ code \in Nat /\ code < \h10000
        /\ in[1] = \hE0 + (Shift12(code) % \h10)
        /\ in[2] = Continuation(Shift6(code)) /\ in[3] = Continuation(code)
    BY <2>1, <2>2, ThreeBytes, SMT DEF Bits3
  <2> HIDE DEF code
  <2>5. encodeUtf8(code) = <<in[1], in[2], in[3]>>
    BY <2>3, <2>4, SMT DEF encodeUtf8
  <2>6. code \in ScalarValue
    BY <2>3, <2>4, SMT DEF ScalarValue
  <2>7. encodeUtf8(code) = in
    BY <2>1, <2>5, Zenon
  <2>8. decodeUtf8(in) = code
    BY <2>3, SMT
  <2> QED BY <2>6, <2>7, <2>8, Zenon
<1>7. CASE length = 4
  <2> DEFINE code == Bits4(in)
  <2>1. /\ in = <<in[1], in[2], in[3], in[4]>>
        /\ in[1] \in Nat /\ in[2] \in Nat /\ in[3] \in Nat /\ in[4] \in Nat
    BY <1>1, <1>2, <1>7, SMT
  <2>2. in[1] \div 8 = 30 /\ in[2] \div \h40 = 2 /\ in[3] \div \h40 = 2 /\ in[4] \div \h40 = 2
    <3>1. IsContinuation(in[2]) /\ IsContinuation(in[3]) /\ IsContinuation(in[4])
      BY <1>3, <1>7
    <3> QED BY <1>7, <2>1, <3>1, SMT DEF utf8CharLength, IsContinuation
  <2>3. decodeUtf8(in) = code /\ ~(code < \h10000) /\ ~(code >= \h110000)
    BY <1>3, <1>7, SMT DEF decodeUtf8
  <2>4. /\ code \in Nat /\ in[1] = \hF0 + (Shift18(code) % 8)
        /\ in[2] = Continuation(Shift12(code))
        /\ in[3] = Continuation(Shift6(code)) /\ in[4] = Continuation(code)
    BY <2>1, <2>2, FourBytes, SMT DEF Bits4
  <2> HIDE DEF code
  <2>5. encodeUtf8(code) = <<in[1], in[2], in[3], in[4]>>
    BY <2>3, <2>4, SMT DEF encodeUtf8, IsSurrogate
  <2>6. code \in ScalarValue
    BY <2>3, <2>4, SMT DEF ScalarValue, IsSurrogate
  <2>7. encodeUtf8(code) = in
    BY <2>1, <2>5, Zenon
  <2>8. decodeUtf8(in) = code
    BY <2>3, SMT
  <2> QED BY <2>6, <2>7, <2>8, Zenon
<1> QED BY <1>2, <1>4, <1>5, <1>6, <1>7

(* What is given to the console's input records, a unit or a pair of them, *)
(* is the character that was typed (UnicodeEncoding.h:60, 153).            *)
THEOREM Utf16RoundTrip ==
  ASSUME NEW code \in ScalarValue
  PROVE  \/ /\ encodeUtf16(code) = <<code>>
            /\ code \in Unit /\ ~IsLeading(code) /\ ~IsTrailing(code)
         \/ \E ch1, ch2 \in Unit :
              /\ encodeUtf16(code) = <<ch1, ch2>>
              /\ IsLeading(ch1) /\ IsTrailing(ch2)
              /\ decodeSurrogatePair(ch1, ch2) = code
<1> USE DEF ScalarValue, IsSurrogate, Unit, IsLeading, IsTrailing
<1>1. CASE code < \h10000
  BY <1>1, SMT DEF encodeUtf16
<1>2. CASE code >= \h10000
  <2> DEFINE ch1 == \hD800 + ((code - \h10000) \div \h400)
             ch2 == \hDC00 + ((code - \h10000) % \h400)
  <2>1. encodeUtf16(code) = <<ch1, ch2>>
    BY <1>2, SMT DEF encodeUtf16
  <2>2. ch1 \in Unit /\ ch2 \in Unit /\ IsLeading(ch1) /\ IsTrailing(ch2)
    BY <1>2, SMT
  <2>3. decodeSurrogatePair(ch1, ch2) = code
    BY <1>2, SMT DEF decodeSurrogatePair
  <2> QED BY <2>1, <2>2, <2>3, SMT
<1> QED BY <1>1, <1>2, SMT

(* Two halves of a pair, whichever they are, make a character above those  *)
(* of one unit and below the end of Unicode (UnicodeEncoding.h:153).       *)
LEMMA PairIsScalar ==
  ASSUME NEW ch1 \in Unit, NEW ch2 \in Unit, IsLeading(ch1), IsTrailing(ch2)
  PROVE  decodeSurrogatePair(ch1, ch2) \in ScalarValue
<1>1. ch1 >= \hD800 /\ ch1 < \hDC00 /\ ch1 \in Nat
  BY SMT DEF Unit, IsLeading
<1>2. ch2 >= \hDC00 /\ ch2 < \hE000 /\ ch2 \in Nat
  BY SMT DEF Unit, IsTrailing
<1> QED BY <1>1, <1>2, SMT DEF decodeSurrogatePair, ScalarValue, IsSurrogate

(* Whatever the cells of a line hold, halves of surrogate pairs and of     *)
(* full-width characters included: the character found takes at least one  *)
(* cell and none beyond the line, so sendLine goes on and ends at the last *)
(* one (Terminal.cc:364), and it is a scalar value.                        *)
THEOREM ScanStaysInLine ==
  ASSUME NEW data \in Seq(Cell), NEW i \in 1..Len(data)
  PROVE  /\ scanUnicodeScalarValue(data, i).cellCount \in 1..(Len(data) + 1 - i)
         /\ scanUnicodeScalarValue(data, i).charValue \in ScalarValue
<1>1. \A j \in 1..Len(data) : data[j].unit \in Unit /\ CellsAt(data, j) \in 1..(Len(data) + 1 - j)
  <2> SUFFICES ASSUME NEW j \in 1..Len(data)
               PROVE  data[j].unit \in Unit /\ CellsAt(data, j) \in 1..(Len(data) + 1 - j)
    OBVIOUS
  <2>1. data[j] \in Cell
    OBVIOUS
  <2>2. CellsAt(data, j) \in {1, 2} /\ (CellsAt(data, j) = 2 => j < Len(data))
    BY DEF CellsAt, isFullWidthCharacter
  <2> QED BY <2>1, <2>2, SMT DEF Cell
<1> DEFINE c1   == data[i].unit
           next == i + CellsAt(data, i)
           scan == scanUnicodeScalarValue(data, i)
<1>2. c1 \in Unit /\ CellsAt(data, i) \in 1..(Len(data) + 1 - i)
  BY <1>1, SMT
<1>3. CASE ~IsLeading(c1) /\ ~IsTrailing(c1)
  <2>1. scan = [cellCount |-> CellsAt(data, i), charValue |-> c1]
    BY <1>3, SMT DEF scanUnicodeScalarValue
  <2>2. c1 \in ScalarValue
    BY <1>2, <1>3, SMT DEF Unit, ScalarValue, IsSurrogate, IsLeading, IsTrailing
  <2> QED BY <1>2, <2>1, <2>2, SMT
<1>4. CASE IsLeading(c1) /\ next <= Len(data) /\ IsTrailing(data[next].unit)
  <2> DEFINE c2 == data[next].unit
  <2>1. scan = [cellCount |-> CellsAt(data, i) + CellsAt(data, next),
                charValue |-> decodeSurrogatePair(c1, c2)]
    BY <1>2, <1>4, SMT DEF scanUnicodeScalarValue, IsLeading, IsTrailing, Unit
  <2>2. next \in 1..Len(data)
    BY <1>2, <1>4, SMT
  <2>3. c2 \in Unit /\ CellsAt(data, next) \in 1..(Len(data) + 1 - next)
    BY <1>1, <2>2, SMT
  <2>4. decodeSurrogatePair(c1, c2) \in ScalarValue
    BY <1>2, <1>4, <2>3, PairIsScalar
  <2>5. CellsAt(data, i) + CellsAt(data, next) \in 1..(Len(data) + 1 - i)
    <3>1. \A len, at, k1, k2 \in Int : /\ k1 \in 1..(len + 1 - at)
                                      /\ k2 \in 1..(len + 1 - (at + k1))
                                      => k1 + k2 \in 1..(len + 1 - at)
      OBVIOUS
    <3>2. Len(data) \in Int /\ i \in Int
      OBVIOUS
    <3>3. CellsAt(data, i) \in Int /\ CellsAt(data, next) \in Int
      BY <1>2, <2>3, <3>2, SMT
    <3> QED BY <1>2, <2>3, <3>1, <3>2, <3>3, Zenon
  <2> QED BY <2>1, <2>4, <2>5, SMT
<1>5. CASE /\ IsLeading(c1) \/ IsTrailing(c1)
           /\ ~(IsLeading(c1) /\ next <= Len(data) /\ IsTrailing(data[next].unit))
  <2>1. scan = [cellCount |-> CellsAt(data, i), charValue |-> QuestionMark]
    BY <1>5, SMT DEF scanUnicodeScalarValue
  <2>2. QuestionMark \in ScalarValue
    BY SMT DEF QuestionMark, ScalarValue, IsSurrogate
  <2> QED BY <1>2, <2>1, <2>2, SMT
<1> QED BY <1>3, <1>4, <1>5, SMT

(* No cell becomes the beginning of an escape sequence: what is sent for   *)
(* it is the encoding of a character, which sendLine's fallback for what   *)
(* cannot be encoded is never needed for, and no byte of it is an ESC      *)
(* (Terminal.cc:397).                                                      *)
THEOREM NoEscapeFromCells ==
  ASSUME NEW data \in Seq(Cell), NEW i \in 1..Len(data)
  PROVE  /\ decodeUtf8(SentFor(data, i)) =
              fixSpecialCharacters(scanUnicodeScalarValue(data, i).charValue)
         /\ \A n \in 1..Len(SentFor(data, i)) : SentFor(data, i)[n] # Escape
<1> DEFINE v  == scanUnicodeScalarValue(data, i).charValue
           ch == fixSpecialCharacters(v)
<1>1. v \in ScalarValue
  BY ScanStaysInLine
<1> HIDE DEF v
<1>2. ch \in ScalarValue /\ ch # Escape
  BY <1>1, SMT DEF fixSpecialCharacters, ScalarValue, IsSurrogate, Escape, QuestionMark
<1> HIDE DEF ch
<1>3. encodeUtf8(ch) # <<>> /\ decodeUtf8(encodeUtf8(ch)) = ch
  BY <1>2, Utf8RoundTrip
<1>4. SentFor(data, i) = encodeUtf8(ch)
  BY <1>3, SMT DEF SentFor, ch, v
<1>5. \A n \in 1..Len(encodeUtf8(ch)) : encodeUtf8(ch)[n] # Escape
  <2> USE DEF ScalarValue, Shift6, Shift12, Shift18, Continuation, Escape
  <2>1. CASE ch < \h80
    BY <1>2, <2>1, SMT DEF encodeUtf8
  <2>2. CASE ch >= \h80 /\ ch < \h800
    BY <1>2, <2>2, SMT DEF encodeUtf8
  <2>3. CASE ch >= \h800 /\ ch < \h10000
    BY <1>2, <2>3, SMT DEF encodeUtf8
  <2>4. CASE ch >= \h10000
    BY <1>2, <2>4, SMT DEF encodeUtf8
  <2> QED BY <1>2, <2>1, <2>2, <2>3, <2>4, SMT
<1> QED BY <1>3, <1>4, <1>5, SMT DEF ch, v
=============================================================================
