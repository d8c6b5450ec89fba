------------------------------ MODULE KeyPress ------------------------------
(***************************************************************************)
(* The console input records of one key press, as ConsoleInput makes them: *)
(* the modifier keys go down, the key goes down and up, and the modifier   *)
(* keys go up in reverse.  In escape-input mode the key that goes down is  *)
(* replaced by the characters a terminal would send for it.                *)
(*                                                                         *)
(* A virtual key is named by what is on it, a character and a UTF-16 code  *)
(* unit by a symbol, and dwControlKeyState is a set.                       *)
(***************************************************************************)
EXTENDS Integers, SequencesExt

NoChar == "nul"
NoKey == "none"

Modifiers == {"Ctrl", "Alt", "AltGr", "Shift"}

\* The two Alt keys are one key, and the right one is marked.
ModifierKey(m) ==
  IF m = "Ctrl" THEN "CONTROL" ELSE IF m = "Shift" THEN "SHIFT" ELSE "MENU"

Marked(m) == IF m = "AltGr" THEN {"Enhanced"} ELSE {}

appendInputRecord(keyDown, key, char, state) ==
  [kind |-> "key", down |-> keyDown, key |-> key, char |-> char, state |-> state]

\* Outside the BMP a character is two code units; each has a record.
encodeUtf16(char) == IF char = "clef" THEN <<"clef-hi", "clef-lo">> ELSE <<char>>

appendCPInputRecords(keyDown, key, char, state) ==
  LET units == encodeUtf16(char)
  IN [i \in DOMAIN units |-> appendInputRecord(keyDown, key, units[i], state)]

outch(char) == appendInputRecord(TRUE, NoKey, char, {})

Characters(chars) == [i \in DOMAIN chars |-> outch(chars[i])]

\* Of the keys that have a sequence: an arrow and two that have a number.
EscapedKeys ==
  [Up     |-> [numeric |-> FALSE, content |-> "A"],
   Insert |-> [numeric |-> TRUE, content |-> "2"],
   F3     |-> [numeric |-> TRUE, content |-> "13"]]

Digits == <<"1", "2", "3", "4", "5", "6", "7", "8">>

Flags(state) ==
  (IF "Shift" \in state THEN 1 ELSE 0) + (IF "Alt" \in state THEN 2 ELSE 0)
    + (IF "Ctrl" \in state THEN 4 ELSE 0)

reencodeEscapedKeyPress(key, char, state) ==
  LET flags    == Flags(state)
      modifier == IF flags = 0 THEN <<>> ELSE <<";", Digits[1 + flags]>>
      alt      == IF "Alt" \in state THEN <<outch("ESC")>> ELSE <<>>
  IN IF key \in DOMAIN EscapedKeys
     THEN LET e == EscapedKeys[key] IN
          Characters(<<"ESC", "[">>
            \o (IF e.numeric THEN <<e.content>> ELSE IF flags # 0 THEN <<"1">> ELSE <<>>)
            \o modifier \o <<IF e.numeric THEN "~" ELSE e.content>>)
     ELSE IF key = "Back" THEN alt \o Characters(<<"DEL">>)
     ELSE IF key = "Tab" /\ "Shift" \in state THEN Characters(<<"ESC", "[", "Z">>)
     ELSE IF char = NoChar THEN <<>>
     ELSE alt \o appendCPInputRecords(TRUE, NoKey, char, {})

\* press: the key; the characters of its going down and up and its modifiers in
\* the console's terms; its character and modifiers in the terminal's.  `held` has
\* the modifiers in the order in which they are pressed.
KeyRecords(press, escapeInput) ==
  LET one(m)    == IF m \in press.state THEN <<m>> ELSE <<>>
      held      == one("Ctrl") \o one("Alt") \o one("AltGr") \o one("Shift")
      first(n)  == ToSet(SubSeq(held, 1, n))
      modifier(down, i, n) ==
        appendInputRecord(down, ModifierKey(held[i]), NoChar, first(n) \union Marked(held[i]))
      all       == ToSet(held) \union (press.state \intersect {"Enhanced"})
  IN [i \in DOMAIN held |-> modifier(TRUE, i, i)]
     \o (IF escapeInput
         THEN reencodeEscapedKeyPress(press.key, press.vtChar, press.vtState)
         ELSE appendCPInputRecords(TRUE, press.key, press.down, all))
     \o appendCPInputRecords(FALSE, press.key, press.up, all)
     \o Reverse([i \in DOMAIN held |-> modifier(FALSE, i, i - 1)])
=============================================================================
