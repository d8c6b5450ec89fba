---------------------------- MODULE ConsoleInput ----------------------------
(***************************************************************************)
(* Class ConsoleInput of the agent: the bytes that arrive on CONIN become  *)
(* console input records.  Bytes arrive in chunks split anywhere, and a    *)
(* chunk may end in what could be a key or the beginning of another one    *)
(* (ESC).  The object then asks the terminal for a Device Status Report,   *)
(* whose reply follows the ambiguous bytes, and takes them as they are     *)
(* when no more has come for a second.                                     *)
(*                                                                         *)
(* A byte is a symbol; a decimal number counts as one.  The character "e'" *)
(* takes two bytes, and a clef takes four.  The terminal sends keys and    *)
(* mouse reports whole, and the replies between them.                      *)
(***************************************************************************)
EXTENDS KeyPress

CONSTANTS
  MaxKeys,     \* the number of inputs when keys are among them
  MaxClicks,   \* the number of inputs when all are mouse reports
  MaxAhead,    \* how many bytes may wait in CONIN when more are typed
  Columns,     \* where the mouse is used, in the first row
  Modes,       \* sets of what is on: "plain" (the agent's plain mode),
               \* "sgrMouse" (1006 instead of 1015), and the console modes
               \* "processedInput", "escapeInput", "mouseInput" (and no quick edit)
  ReplyRows    \* the rows the cursor may be in when the terminal replies

ASSUME InputAssumption == {MaxKeys, MaxClicks, MaxAhead} \subseteq Nat /\ ReplyRows # {}

VARIABLES
  byteQueue, \* m_byteQueue: bytes read but not taken
  in,        \* the object's other members
  console,   \* what a program has read from it, and which keys it believes down
  mode,      \* one of Modes
  wire,      \* CONIN: [byte, last], last for the last byte of an input
  mid,       \* the agent has read a part of an input or of a reply
  asked,     \* DSR requests that the terminal has not answered
  typed,     \* what the user did: what the console should be given
  unread,    \* DSR requests of which the agent has not seen the reply
  torn       \* history: a second passed in the middle of an input

inputVars == <<byteQueue, in, console, mode, wire, mid, asked, typed, unread, torn>>

----------------------------------------------------------------------------
(***************************************************************************)
(* What the object recognises.                                             *)
(***************************************************************************)
Number == {"0", "1", "2", "3", "4", "32", "35", "64"}
Symbol ==
  Number \union {"ESC", "[", "<", ";", "A", "M", "O", "R", "Z", "a", "m", "~", "^C", "DEL",
                 "e'1", "e'2", "clef1", "clef2", "clef3", "clef4"}

ASSUME NumbersAssumption == Columns \union ReplyRows \subseteq Number

\* Each matcher checks one symbol after the other.
DsrPattern == <<{"ESC"}, {"["}, Number, {";"}, Number, {"R"}>>
Mouse1006Pattern ==
  <<{"ESC"}, {"["}, {"<"}, Number, {";"}, Number, {";"}, Number, {"M", "m"}>>
Mouse1015Pattern == <<{"ESC"}, {"["}, Number, {";"}, Number, {";"}, Number, {"M"}>>
MouseDefaultPattern == <<{"ESC"}, {"["}, {"M"}, Symbol, Symbol, Symbol>>

Incomplete == -1

\* Its length if the pattern matches, 0 if it does not, or Incomplete.
matchPattern(pattern, input) ==
  IF \E i \in DOMAIN pattern \intersect DOMAIN input : input[i] \notin pattern[i] THEN 0
  ELSE IF Len(input) < Len(pattern) THEN Incomplete ELSE Len(pattern)

\* An entry of the map: a virtual key, its character and its state.
Key(bytes, key, char, state) == [bytes |-> bytes, key |-> key, char |-> char, state |-> state]

Encoding(prefix, number, final, modifiers, press) ==
  [prefix |-> prefix, number |-> number, final |-> final, modifiers |-> modifiers,
   press |-> press]

\* A selection of the table: keys that differ in the first byte only, that
\* begin alike, that look like a report, or that have a character.
Encodings ==
  {Encoding("[", <<>>, "A", {"alt", "bare", "bareMod", "semiMod"}, Key(<<>>, "Up", NoChar, {})),
   Encoding("O", <<>>, "A", {"alt", "bare"}, Key(<<>>, "Up", NoChar, {})),
   Encoding("[", <<>>, "R", {"alt", "semiMod"}, Key(<<>>, "F3", NoChar, {})),
   Encoding("[", <<>>, "Z", {"bare"}, Key(<<>>, "Tab", "HT", {"Shift"})),
   Encoding("[", <<"2">>, "~", {"alt", "bare", "semiMod"}, Key(<<>>, "Insert", NoChar, {}))}

keyStateForMod(mod) ==
  (IF (mod - 1) % 2 = 1 THEN {"Shift"} ELSE {})
    \union (IF (mod - 1) \div 2 % 2 = 1 THEN {"Alt"} ELSE {})
    \union (IF mod - 1 >= 4 THEN {"Ctrl"} ELSE {})

useEnhancedForVirtualKey(key) == IF key \in {"Up", "Insert"} THEN {"Enhanced"} ELSE {}

\* Of the modifiers 2 to 8, those without Ctrl.
expandEncodingAfterAltPrefix(e, extra) ==
  LET entry(bytes, state) ==
        [e.press EXCEPT !.bytes = <<"ESC", e.prefix>> \o bytes,
                        !.state = @ \union state \union extra
                          \union useEnhancedForVirtualKey(e.press.key)]
      number == IF e.number = <<>> THEN <<"1">> ELSE e.number
      with(modifier, entries) == IF modifier \in e.modifiers THEN entries ELSE {}
  IN with("bare", {entry(e.number \o <<e.final>>, {})}) \union
     with("bareMod", {entry(<<Digits[m], e.final>>, keyStateForMod(m)) : m \in 2..4}) \union
     with("semiMod", {entry(number \o <<";", Digits[m], e.final>>, keyStateForMod(m)) : m \in 2..4})

\* With an ESC in front, each of them is the same key with Alt, where that is
\* allowed.
expandEncoding(e) ==
  expandEncodingAfterAltPrefix(e, {}) \union
  IF "alt" \notin e.modifiers THEN {}
  ELSE {[k EXCEPT !.bytes = <<"ESC">> \o @] : k \in expandEncodingAfterAltPrefix(e, {"Alt"})}

SimpleEntries ==
  {Key(<<"DEL">>, "Back", "BS", {}), Key(<<"ESC", "DEL">>, "Back", "BS", {"Alt"}),
   Key(<<"^C">>, "C", "^C", {"Ctrl"})}

InputMap == SimpleEntries \union UNION {expandEncoding(e) : e \in Encodings}

\* The tree of the map: its nodes are the beginnings of keys.
Nodes == UNION {{SubSeq(k.bytes, 1, n) : n \in 0..Len(k.bytes)} : k \in InputMap}
KeysAt == [node \in Nodes |-> {k \in InputMap : k.bytes = node}]
HaveChildren == {Front(node) : node \in Nodes \ {<<>>}}

\* The longest key the input begins with, and whether it may become another.
lookupKey(input, isEof) ==
  LET path  == {n \in 0..Len(input) : SubSeq(input, 1, n) \in Nodes}
      found == {n \in path : KeysAt[SubSeq(input, 1, n)] # {}}
  IN [incomplete |-> ~isEof /\ input \in HaveChildren,
      matches |-> IF found = {} THEN {} ELSE KeysAt[SubSeq(input, 1, Max(found))]]

utf8CharLength(byte) ==
  CASE byte = "e'1" -> 2
    [] byte = "clef1" -> 4
    [] byte \in {"e'2", "clef2", "clef3", "clef4"} -> 0
    [] OTHER -> 1

\* The character whose bytes these are, or NoChar if they are of none.
decodeUtf8(bytes) ==
  CASE bytes = <<"e'1", "e'2">> -> "e'"
    [] bytes = <<"clef1", "clef2", "clef3", "clef4">> -> "clef"
    [] Len(bytes) = 1 -> Head(bytes)
    [] OTHER -> NoChar

\* The key of a character and what is held for it: of a layout with e' on AltGr
\* and E.  The clef is on no key.
VkKeyScan(char) ==
  CASE char = "clef" -> [key |-> NoKey, held |-> {}]
    [] char = "e'" -> [key |-> "E", held |-> {"Ctrl", "AltGr"}]
    [] char = "^C" -> [key |-> "C", held |-> {"Ctrl"}]
    [] char \in {"A", "M", "O", "R"} -> [key |-> char, held |-> {"Shift"}]
    [] OTHER -> [key |-> char, held |-> {}]

----------------------------------------------------------------------------
(***************************************************************************)
(* doWrite works on `o`: the bytes not scanned yet, the records collected, *)
(* what was given to the console, and the members of the object.           *)
(***************************************************************************)
NoClick == [button |-> "none", at |-> <<>>, recent |-> FALSE]

Take(o, n) == [o EXCEPT !.data = SubSeq(@, n + 1, Len(@))]
Stop(o) == [o EXCEPT !.stop = TRUE]
Push(o, records) == [o EXCEPT !.records = @ \o records]

flushInputRecords(o) == [o EXCEPT !.given = @ \o o.records, !.records = <<>>]

\* GenerateConsoleCtrlEvent and SendMessage do not wait for WriteConsoleInput.
GiveNow(o, what) ==
  [flushInputRecords(o) EXCEPT !.given = Append(@, [kind |-> "message", what |-> what])]

appendKeyPress(o, press) ==
  IF "escapeInput" \in mode /\ press.key = "Up"
       /\ press.state \intersect Modifiers = {}
  THEN GiveNow(o, press.key)
  ELSE Push(o, KeyRecords(press, "escapeInput" \in mode))

\* A key of the map: with Ctrl and Alt, or going up with Alt, it has no character.
MapKey(k) ==
  LET down == IF {"Ctrl", "Alt"} \subseteq k.state THEN NoChar ELSE k.char IN
  [key |-> k.key, down |-> down, up |-> IF "Alt" \in k.state THEN NoChar ELSE down,
   state |-> k.state, vtChar |-> k.char, vtState |-> k.state]

\* The character in these bytes, unless they are malformed.
appendUtf8Char(o, bytes, altEscape) ==
  LET char == decodeUtf8(bytes)
      scan == VkKeyScan(char)
      alt  == IF altEscape THEN {"Alt"} ELSE {}
      down == IF altEscape /\ "Ctrl" \in scan.held THEN NoChar ELSE char
  IN IF char = NoChar THEN o
     ELSE appendKeyPress(o,
            [key |-> scan.key, down |-> down, up |-> IF altEscape THEN NoChar ELSE down,
             state |-> scan.held \union alt, vtChar |-> char, vtState |-> alt])

Minus32(flags) == CASE flags = "32" -> "0" [] flags = "35" -> "3" [] OTHER -> "64"

\* What a mouse report says.  1015 has no release of its own: flags of 3 mean
\* that no button is pressed.
MouseRecord(input) ==
  IF input[3] = "<"
  THEN [flags |-> input[4], at |-> <<input[6], input[8]>>, release |-> Last(input) = "m"]
  ELSE IF input[3] = "M"
  THEN [flags |-> Minus32(input[4]), at |-> <<input[5], input[6]>>, release |-> FALSE]
  ELSE [flags |-> Minus32(input[3]), at |-> <<input[5], input[7]>>, release |-> FALSE]

\* Mutated form of IsDoubleClick: the place does not matter.
IsDoubleClickAnywhere(click, record) == click.button = record.flags /\ click.recent

IsDoubleClick(click, record) ==
  click.button = record.flags /\ click.at = record.at /\ click.recent

NewlyPressed(o, record) ==
  record.flags \notin {"3", "64"} \union o.buttons /\ ~record.release

\* The pressed buttons and the click that a second one may complete, after an
\* ordinary report.  (`released` is not kept: nothing reads it.)
MouseButton(o, record) ==
  LET button == record.flags IN
  IF button = "3" THEN [o EXCEPT !.buttons = {}]
  ELSE IF record.release
       THEN [o EXCEPT !.buttons = @ \ {button},
                      !.click = IF button = @.button THEN @ ELSE NoClick]
  ELSE IF NewlyPressed(o, record)
       THEN [o EXCEPT !.buttons = @ \union {button},
                      !.click = IF IsDoubleClick(@, record) THEN NoClick
                                ELSE [button |-> button, at |-> record.at, recent |-> TRUE]]
  ELSE o

scanMouseInput(o, record) ==
  LET wheel == record.flags = "64"
      after == IF wheel THEN o ELSE MouseButton(o, record)
      double == NewlyPressed(o, record) /\ IsDoubleClick(o.click, record)
  IN IF "mouseInput" \in mode
     THEN Push(after, <<[kind |-> IF wheel THEN "wheel" ELSE "mouse", at |-> record.at,
                         buttons |-> after.buttons, double |-> double]>>)
     ELSE after

\* The first of them that matches or might.
matchMouseRecord(input) ==
  LET lens  == <<matchPattern(Mouse1006Pattern, input), matchPattern(Mouse1015Pattern, input),
                 matchPattern(MouseDefaultPattern, input)>>
      found == {i \in DOMAIN lens : lens[i] # 0}
  IN IF found = {} THEN 0 ELSE lens[Min(found)]

\* Mutated form of scanInput's look for a reply: an incomplete one is not awaited.
IncompleteReportNow(len, isEof) == FALSE

IncompleteReport(len, isEof) == len = Incomplete /\ ~isEof

\* The first of these that fits: Ctrl-C, a DSR reply, a mouse report, a key of
\* the map, Alt and a character, a character.
scanInput(o, isEof) ==
  LET input   == o.data
      dsr     == matchPattern(DsrPattern, input)
      mouse   == matchMouseRecord(input)
      key     == lookupKey(input, isEof)
      escaped == Head(input) = "ESC" /\ Len(input) >= 2 /\ input[2] # "ESC"
      altLen  == IF escaped THEN utf8CharLength(input[2]) ELSE 0
      len     == utf8CharLength(Head(input))
  IN IF Head(input) = "^C" /\ "processedInput" \in mode
     THEN Take(GiveNow(o, "^C"), 1)
     ELSE IF dsr > 0 THEN Take([o EXCEPT !.dsrSent = FALSE, !.replies = @ + 1], dsr)
     ELSE IF IncompleteReport(dsr, isEof) THEN Stop(o)
     ELSE IF mouse > 0
          THEN Take(scanMouseInput(o, MouseRecord(SubSeq(input, 1, mouse))), mouse)
     ELSE IF IncompleteReport(mouse, isEof) \/ key.incomplete THEN Stop(o)
     ELSE IF key.matches # {}
          THEN LET k == CHOOSE k \in key.matches : TRUE
               IN Take(appendKeyPress(o, MapKey(k)), Len(k.bytes))
     ELSE IF altLen > 0
          THEN IF 1 + altLen > Len(input) THEN Stop(o)
               ELSE Take(appendUtf8Char(o, SubSeq(input, 2, 1 + altLen), TRUE), 1 + altLen)
     ELSE IF len = 0 THEN Take(o, 1)
     ELSE IF len > Len(input) THEN Stop(o)
     ELSE Take(appendUtf8Char(o, SubSeq(input, 1, len), FALSE), len)

doWrite(data, isEof) ==
  LET start == [data |-> data, records |-> <<>>, given |-> <<>>, stop |-> FALSE, replies |-> 0,
                dsrSent |-> in.dsrSent, buttons |-> in.buttons, click |-> in.click]
      scan[i \in 0..Len(data)] ==
        IF i = 0 THEN start
        ELSE CHOOSE next \in {IF o.stop \/ o.data = <<>> THEN o ELSE scanInput(o, isEof) :
                               o \in {scan[i - 1]}} : TRUE
  IN flushInputRecords(scan[Len(data)])

----------------------------------------------------------------------------
(***************************************************************************)
(* A program that reads the console's records as they come.                *)
(***************************************************************************)
Event(kind, what, held) == [kind |-> kind, what |-> <<what>>, held |-> held]

\* What an entry of the map is meant to be: ^C is a character, Ctrl included.
Meant(k) == Event("key", IF k.char = NoChar THEN k.key ELSE k.char,
                  (k.state \ {"Enhanced"}) \ (IF k.char = "^C" THEN {"Ctrl"} ELSE {}))

\* A key that goes down with a character is that character, whatever it takes to
\* type it; without one it is the key, or what the layout has there.
KeyOf(r) ==
  LET held == r.state \ {"Enhanced"}
      here == {c \in {"e'", "O"} : VkKeyScan(c).key = r.key /\ VkKeyScan(c).held \subseteq held}
      what == IF r.char # NoChar THEN r.char ELSE IF here # {} THEN CHOOSE c \in here : TRUE
              ELSE r.key
  IN Event("key", what, held \ VkKeyScan(what).held)

\* Characters that come without a key are text, in which ESC may mean Alt.
TextOf(chars, held) ==
  LET text == IF IsSuffix(encodeUtf16("clef"), chars)
              THEN Append(Front(Front(chars)), "clef") ELSE chars
  IN IF text \in Nodes /\ KeysAt[text] # {} THEN Meant(CHOOSE k \in KeysAt[text] : TRUE)
     ELSE IF Len(text) = 2 /\ text[1] = "ESC" THEN Event("key", text[2], {"Alt"})
     ELSE Event("key", Last(text), held)

ModifierOf(r) ==
  CASE r.key = "CONTROL" -> "Ctrl"
    [] r.key = "SHIFT" -> "Shift"
    [] OTHER -> IF "Enhanced" \in r.state THEN "AltGr" ELSE "Alt"

Unread == [seen |-> <<>>, held |-> {}, keys |-> <<>>, inStep |-> TRUE]

See(c, event, double) ==
  [c EXCEPT !.seen = Append(@, [event |-> event, double |-> double, old |-> FALSE])]

ReadModifier(c, r) ==
  LET held == IF r.down THEN c.held \union {ModifierOf(r)} ELSE c.held \ {ModifierOf(r)}
  IN [c EXCEPT !.held = held, !.inStep = @ /\ r.state \ {"Enhanced"} = held]

ReadKeyUp(c, r) ==
  LET read  == [c EXCEPT !.keys = <<>>, !.inStep = @ /\ r.state \ {"Enhanced"} = c.held]
      chars == [i \in DOMAIN c.keys |-> c.keys[i].char]
  IN IF c.keys = <<>> THEN read
     ELSE See(read, IF c.keys[1].key = NoKey THEN TextOf(chars, c.keys[1].state)
                    ELSE KeyOf(c.keys[1]), FALSE)

ReadKey(c, r) ==
  IF r.key \in {"CONTROL", "MENU", "SHIFT"} THEN ReadModifier(c, r)
  ELSE IF r.down THEN [c EXCEPT !.keys = Append(@, r)] ELSE ReadKeyUp(c, r)

ReadRecord(c, r) ==
  CASE r.kind = "message" -> See(c, Event("key", r.what, {}), FALSE)
    [] r.kind \in {"mouse", "wheel"} ->
         See(c, [kind |-> r.kind, what |-> r.at, held |-> r.buttons], r.double)
    [] r.kind = "key" -> ReadKey(c, r)

Reads(records) ==
  LET read[i \in 0..Len(records)] ==
        IF i = 0 THEN console
        ELSE CHOOSE next \in {ReadRecord(c, records[i]) : c \in {read[i - 1]}} : TRUE
  IN read[Len(records)]

\* What a call leaves behind in the object, the console, and the history.
Written(o, rest, dsrSent) ==
  /\ byteQueue' = rest
  /\ in' = [dsrSent |-> dsrSent, late |-> FALSE, buttons |-> o.buttons, click |-> o.click]
  /\ console' = Reads(o.given)

----------------------------------------------------------------------------
(***************************************************************************)
(* Actions of the agent.                                                   *)
(***************************************************************************)
\* Mutated form of SendDsr: every incomplete input asks again.
SendDsrAlways(o) == o.data # <<>>

SendDsr(o) == o.data # <<>> /\ ~o.dsrSent

\* writeInput with the next chunk from CONIN.
pollConinPipe ==
  \E n \in 1..Len(wire) :
  \E o \in {doWrite(byteQueue \o [i \in 1..n |-> wire[i].byte], FALSE)} :
    LET sent == IF SendDsr(o) /\ "plain" \notin mode THEN 1 ELSE 0
    IN /\ Written(o, o.data, o.dsrSent \/ SendDsr(o))
       /\ wire' = SubSeq(wire, n + 1, Len(wire))
       /\ mid' = ~wire[n].last
       /\ asked' = asked + sent
       /\ unread' = unread + sent - o.replies
       /\ UNCHANGED <<mode, typed, torn>>

\* Mutated form of WaitedLongEnough: not before the terminal has replied.
WaitedLongEnoughOrAnswered == byteQueue # <<>> /\ in.late /\ ~in.dsrSent

WaitedLongEnough == byteQueue # <<>> /\ in.late

\* Called at every poll: what has waited for a second is not waited for.
flushIncompleteEscapeCode ==
  /\ WaitedLongEnough
  /\ \E o \in {doWrite(byteQueue, TRUE)} :
       Written(o, <<>>, o.dsrSent) /\ unread' = unread - o.replies
  /\ torn' = (torn \/ mid)
  /\ UNCHANGED <<mode, wire, mid, asked, typed>>

----------------------------------------------------------------------------
(***************************************************************************)
(* The user, the terminal, and time.                                       *)
(***************************************************************************)
Typed(bytes, what, held) == [bytes |-> bytes, event |-> Event("key", what, held)]

\* Terminals put Alt into an ESC or into the modifier, never into both.
UserKeys ==
  {[bytes |-> k.bytes, event |-> Meant(k)] :
     k \in {l \in InputMap : l.key # "F3" /\ ToSet(l.bytes) \intersect {"3", "4"} = {}}} \union
  {Typed(<<"a">>, "a", {}), Typed(<<"ESC">>, "ESC", {}),
   Typed(<<"e'1", "e'2">>, "e'", {}), Typed(<<"clef1", "clef2", "clef3", "clef4">>, "clef", {}),
   Typed(<<"ESC", "a">>, "a", {"Alt"}), Typed(<<"ESC", "e'1", "e'2">>, "e'", {"Alt"}),
   Typed(<<"ESC", "[">>, "[", {"Alt"}), Typed(<<"ESC", "O">>, "O", {"Alt"})}

Mouse(events) == SelectSeq(events, LAMBDA e : e.kind \in {"mouse", "wheel"})

\* The buttons that the user holds.
Held ==
  LET mouse == {i \in DOMAIN typed : typed[i].kind # "key"}
  IN IF mouse = {} THEN {} ELSE typed[Max(mouse)].held

Report(bytes, kind, at, held) ==
  [bytes |-> bytes, event |-> [kind |-> kind, what |-> at, held |-> held]]

Report1006(flags, at, end) == <<"ESC", "[", "<", flags, ";", at[1], ";", at[2], end>>
Report1015(flags, at) == <<"ESC", "[", flags, ";", at[1], ";", at[2], "M">>

\* In the form the terminal uses.
MouseReports(at, held) ==
  IF "sgrMouse" \in mode
  THEN {Report(Report1006(b, at, "M"), "mouse", at, held \union {b}) :
          b \in {"0", "2"} \ held} \union
       {Report(Report1006(b, at, "m"), "mouse", at, held \ {b}) : b \in held} \union
       {Report(Report1006("64", at, "M"), "wheel", at, held)}
  ELSE {Report(Report1015("32", at), "mouse", at, {"0"}) : b \in {"0"} \ held} \union
       {Report(Report1015("35", at), "mouse", at, {}) : b \in held}

\* What could be the beginning of another key: the user waits for it to show.
Ambiguous(event) ==
  event.what = <<"ESC">> \/ (event.what \in {<<"[">>, <<"O">>} /\ event.held = {"Alt"})

Send(bytes) ==
  wire' = wire \o [i \in DOMAIN bytes |-> [byte |-> bytes[i], last |-> i = Len(bytes)]]

Type ==
  /\ typed # <<>> /\ Ambiguous(Last(typed)) => byteQueue = <<>> /\ wire = <<>>
  /\ Len(wire) <= MaxAhead /\ ~torn
  /\ \E k \in UserKeys \union UNION {MouseReports(<<x, "1">>, Held) : x \in Columns} :
       /\ Len(typed) < IF Mouse(Append(typed, k.event)) = Append(typed, k.event)
                       THEN MaxClicks ELSE MaxKeys
       /\ typed' = Append(typed, k.event)
       /\ Send(k.bytes)
  /\ UNCHANGED <<byteQueue, in, console, mode, mid, asked, unread, torn>>

\* The terminal answers a request, or never does.
TerminalReplies ==
  /\ asked > 0
  /\ asked' = asked - 1
  /\ \E row \in ReplyRows : Send(<<"ESC", "[", row, ";", "2", "R">>)
  /\ UNCHANGED <<byteQueue, in, console, mode, mid, typed, unread, torn>>

\* More than the double click time passes, and perhaps more than a second.
TimePasses(second) ==
  /\ in' = [in EXCEPT !.click.recent = FALSE, !.late = @ \/ (second /\ byteQueue # <<>>)]
  /\ LET aged(e) == [e EXCEPT !.old = @ \/ e.event.kind # "key"] IN
     console' = [console EXCEPT !.seen = [i \in DOMAIN @ |-> aged(@[i])]]
  /\ UNCHANGED <<byteQueue, mode, wire, mid, asked, typed, unread, torn>>

InputInit ==
  /\ byteQueue = <<>>
  /\ in = [dsrSent |-> FALSE, late |-> FALSE, buttons |-> {}, click |-> NoClick]
  /\ mode \in Modes
  /\ console = Unread /\ wire = <<>> /\ typed = <<>>
  /\ mid = FALSE /\ torn = FALSE /\ asked = 0 /\ unread = 0

InputNext ==
  \/ pollConinPipe \/ flushIncompleteEscapeCode
  \/ Type \/ TerminalReplies \/ \E second \in BOOLEAN : TimePasses(second)

InputSpec == InputInit /\ [][InputNext]_inputVars

\* A chunk is taken from CONIN: what pollConinPipe, and nothing else, does.
ChunkRead == \E n \in 1..Len(wire) : wire' = SubSeq(wire, n + 1, Len(wire))

\* What has waited is not waited for: what flushIncompleteEscapeCode does.
GivesUp == WaitedLongEnough /\ byteQueue' = <<>> /\ UNCHANGED wire

\* The agent polls and reads, and time passes.  The terminal need not reply.
InputFairSpec ==
  /\ InputSpec
  /\ WF_wire(ChunkRead) /\ WF_byteQueue(GivesUp)
  /\ WF_inputVars(TimePasses(TRUE))

----------------------------------------------------------------------------
(***************************************************************************)
(* Properties.                                                             *)
(***************************************************************************)
\* What the console should be given for what the user did.
Expected == IF "mouseInput" \in mode THEN typed ELSE SelectSeq(typed, LAMBDA e : e.kind = "key")

Given == [i \in DOMAIN console.seen |-> console.seen[i].event]

(* Types; and at most one DSR request is outstanding, with m_dsrSent set   *)
(* for as long as its reply has not been read, and no longer.              *)
InputTypeOK ==
  /\ byteQueue \in Seq(Symbol) /\ in.late \in BOOLEAN
  /\ in.buttons \subseteq {"0", "1", "2"}
  /\ \A i \in DOMAIN wire : wire[i].byte \in Symbol
  /\ asked \in 0..1 /\ unread \in asked..1
  /\ "plain" \notin mode => (in.dsrSent <=> unread = 1)

(* However the bytes are split into chunks, whether, when and between which*)
(* inputs the terminal replies, and whenever a poll gives up waiting: the  *)
(* console is given what the user did, in order, none of it lost, doubled  *)
(* or taken for something else, and no part of a reply.  (Except when a    *)
(* second passes in the middle of an input.)  A program reads this from    *)
(* the records, with or without escape-input mode; each record has the     *)
(* state of the modifier keys, and all keys are up after each input.       *)
(* Agent.cc:230: "Presumably, the DSR reply will not split a keypress      *)
(* escape sequence, so it should be safe to assume that the bytes before it*)
(* are complete keypresses."                                               *)
InputAsTyped ==
  /\ console.inStep /\ console.held = {} /\ console.keys = <<>>
  /\ ~torn => /\ IsPrefix(Given, Expected)
              /\ byteQueue = <<>> /\ wire = <<>> => Given = Expected

(* Every input reaches the console, though the terminal may never reply    *)
(* and the last bytes could always be the beginning of something longer.   *)
EveryInputArrives ==
  Len(console.seen) < Len(Expected) ~> torn \/ Len(console.seen) >= Len(Expected)

\* The buttons that are held before event i of `seen`.
HeldBefore(seen, i) ==
  LET mouse == {j \in 1..(i - 1) : seen[j].event.kind # "key"}
  IN IF mouse = {} THEN {} ELSE seen[Max(mouse)].event.held

\* The button that event i of `seen` newly presses.
PressedBy(seen, i) ==
  IF seen[i].event.kind = "mouse" THEN seen[i].event.held \ HeldBefore(seen, i) ELSE {}

(* A double click is the second press of a button at one place, with no    *)
(* other press in between, within the double click time, and a press is the*)
(* first or the second of a double click, never both.                      *)
DoubleClickGenuine ==
  [][LET seen == console'.seen IN
     \A i \in DOMAIN seen \ DOMAIN console.seen : seen[i].double =>
       \E j \in 1..(i - 1) :
         /\ PressedBy(seen, j) = PressedBy(seen, i) /\ PressedBy(seen, i) # {}
         /\ seen[j].event.what = seen[i].event.what
         /\ ~seen[j].double /\ ~seen[j].old
         /\ \A k \in (j + 1)..(i - 1) : PressedBy(seen, k) = {}]_inputVars
=============================================================================
