-------------------------- MODULE ConsoleInputProofs --------------------------
(***************************************************************************)
(* Proofs about ConsoleInput: that a double click is always genuine, and   *)
(* that at most one DSR request is outstanding, as m_dsrSent says.         *)
(*                                                                         *)
(* The first argument follows the mouse events from the bytes to the program     *)
(* that reads them.  The mouse events the program has seen say which       *)
(* buttons the object believes to be held, and a click that may still      *)
(* become a double one is among them (ClickSeen); every record that is     *)
(* read keeps this, with what the object believes after it (ReadsInv), and *)
(* so does every step of the scan (ScanInv).                               *)
(*                                                                         *)
(* The second follows the bytes.  Those that wait to be read or taken hold *)
(* a reply, or what would be taken for one, only if the terminal has       *)
(* answered a request of which the agent has not seen the reply, and never *)
(* two (TypesInv).                                                         *)
(***************************************************************************)
EXTENDS ConsoleInput, RecursionTheorems

----------------------------------------------------------------------------
(***************************************************************************)
(* The largest and the least number of a set.                              *)
(***************************************************************************)
LEMMA MaxOfInterval ==
  ASSUME NEW n \in Nat, NEW S \in SUBSET (0..n), S # {}
  PROVE  Max(S) \in S /\ \A y \in S : Max(S) >= y
  BY GreatestExists DEF Max

LEMMA MinOfThree ==
  ASSUME NEW S \in SUBSET {1, 2, 3}, S # {}
  PROVE  Min(S) \in S
<1>1. \E x \in S : \A y \in S : x =< y
  <2>1. CASE 1 \in S
    BY <2>1
  <2>2. CASE 1 \notin S /\ 2 \in S
    BY <2>2
  <2>3. CASE 1 \notin S /\ 2 \notin S
    <3>1. 3 \in S /\ \A y \in S : y = 3
      BY <2>3
    <3> QED BY <3>1
  <2> QED BY <2>1, <2>2, <2>3
<1> QED BY <1>1 DEF Min

----------------------------------------------------------------------------
(***************************************************************************)
(* What the program has seen.                                              *)
(***************************************************************************)
\* A sequence of what See appends.
IsSeen(seen) ==
  \E S : seen \in Seq(S) /\ \A e \in S : e = [event |-> e.event, double |-> e.double, old |-> e.old]

LEMMA SeenAppended ==
  ASSUME NEW seen, IsSeen(seen), NEW event, NEW double,
         NEW e, e = [event |-> event, double |-> double, old |-> FALSE]
  PROVE  /\ IsSeen(Append(seen, e)) /\ Len(seen) \in Nat
         /\ Len(Append(seen, e)) = Len(seen) + 1
         /\ Append(seen, e)[Len(seen) + 1] = e
         /\ \A i \in 1..Len(seen) : Append(seen, e)[i] = seen[i]
<1>1. PICK S : seen \in Seq(S)
                 /\ \A x \in S : x = [event |-> x.event, double |-> x.double, old |-> x.old]
  BY DEF IsSeen
<1> DEFINE R == S \union {e}
<1>2. seen \in Seq(R) /\ e \in R
  BY <1>1
<1>3. Append(seen, e) \in Seq(R) /\ \A x \in R : x = [event |-> x.event, double |-> x.double, old |-> x.old]
  <2>1. e = [event |-> e.event, double |-> e.double, old |-> e.old]
    OBVIOUS
  <2> QED BY <1>1, <1>2, <2>1
<1> HIDE DEF R
<1> QED BY <1>2, <1>3 DEF IsSeen

(* Who holds what, and who presses what, depends on the events before.     *)
LEMMA HeldKept ==
  ASSUME NEW s, NEW t, NEW n \in Nat, \A i \in 1..n : t[i].event = s[i].event
  PROVE  \A i \in 1..(n + 1) : HeldBefore(t, i) = HeldBefore(s, i)
<1> SUFFICES ASSUME NEW i \in 1..(n + 1) PROVE HeldBefore(t, i) = HeldBefore(s, i)
  OBVIOUS
<1> DEFINE S == {j \in 1..(i - 1) : s[j].event.kind # "key"}
           T == {j \in 1..(i - 1) : t[j].event.kind # "key"}
<1>1. S = T
  <2>1. \A j \in 1..(i - 1) : j \in 1..n
    OBVIOUS
  <2> QED BY <2>1
<1>2. ASSUME S # {} PROVE Max(S) \in 1..n
  <2>1. S \in SUBSET (0..n)
    OBVIOUS
  <2>2. Max(S) \in S
    BY <1>2, <2>1, MaxOfInterval
  <2> QED BY <2>2
<1> HIDE DEF S, T
<1>3. /\ HeldBefore(s, i) = IF S = {} THEN {} ELSE s[Max(S)].event.held
      /\ HeldBefore(t, i) = IF T = {} THEN {} ELSE t[Max(T)].event.held
  BY DEF HeldBefore, S, T
<1> QED BY <1>1, <1>2, <1>3

LEMMA PressedKept ==
  ASSUME NEW s, NEW t, NEW n \in Nat, \A i \in 1..n : t[i].event = s[i].event
  PROVE  \A i \in 1..n : PressedBy(t, i) = PressedBy(s, i)
<1>1. \A i \in 1..n : i \in 1..(n + 1) /\ t[i].event = s[i].event
  OBVIOUS
<1> QED BY <1>1, HeldKept DEF PressedBy

(* After the last of n + 1 events the buttons are held that it says, if it *)
(* is one of the mouse.                                                    *)
LEMMA HeldAfter ==
  ASSUME NEW t, NEW n \in Nat
  PROVE  HeldBefore(t, n + 2) = IF t[n + 1].event.kind = "key" THEN HeldBefore(t, n + 1)
                                ELSE t[n + 1].event.held
<1> DEFINE S == {j \in 1..((n + 1) - 1) : t[j].event.kind # "key"}
           T == {j \in 1..((n + 2) - 1) : t[j].event.kind # "key"}
<1>1. CASE t[n + 1].event.kind = "key"
  <2>1. \A j \in 1..((n + 2) - 1) : j = n + 1 \/ j \in 1..((n + 1) - 1)
    OBVIOUS
  <2>2. S = T
    BY <1>1, <2>1
  <2> QED BY <1>1, <2>2 DEF HeldBefore
<1>2. CASE t[n + 1].event.kind # "key"
  <2>1. n + 1 \in T /\ T \in SUBSET (0..(n + 1)) /\ n + 1 \in Nat
    BY <1>2
  <2> HIDE DEF T
  <2>2. Max(T) = n + 1
    <3> T # {}
      BY <2>1
    <3>1. Max(T) \in T /\ \A y \in T : Max(T) >= y
      BY <2>1, MaxOfInterval, Zenon
    <3>2. Max(T) \in 0..(n + 1) /\ Max(T) >= n + 1
      BY <2>1, <3>1
    <3> QED BY <3>2
  <2>3. HeldBefore(t, n + 2) = IF T = {} THEN {} ELSE t[Max(T)].event.held
    BY DEF HeldBefore, T
  <2> QED BY <1>2, <2>1, <2>2, <2>3
<1> QED BY <1>1, <1>2

----------------------------------------------------------------------------
(***************************************************************************)
(* The invariant: what the mouse events seen say of the object's members.  *)
(***************************************************************************)
\* Event j is a press that a second one at this place would make a double click.
FirstClick(seen, j, button, at) ==
  /\ PressedBy(seen, j) = {button} /\ seen[j].event.what = at
  /\ ~seen[j].double /\ ~seen[j].old
  /\ \A k \in (j + 1)..Len(seen) : PressedBy(seen, k) = {}

ClickSeen(seen, buttons, click) ==
  /\ HeldBefore(seen, Len(seen) + 1) = buttons
  /\ click.recent => \E j \in 1..Len(seen) : FirstClick(seen, j, click.button, click.at)

\* Without mouse input the program sees no click at all.
MouseSeen(seen, buttons, click) ==
  /\ IsSeen(seen)
  /\ IF "mouseInput" \in mode THEN ClickSeen(seen, buttons, click)
     ELSE \A i \in 1..Len(seen) : ~seen[i].double

IsConsole(c) ==
  \E seen, held, keys, inStep :
    c = [seen |-> seen, held |-> held, keys |-> keys, inStep |-> inStep]

LEMMA Updated ==
  ASSUME NEW c, IsConsole(c), NEW x
  PROVE  IsConsole([c EXCEPT !.seen = x]) /\ [c EXCEPT !.seen = x].seen = x
<1>1. PICK seen, held, keys, inStep :
        c = [seen |-> seen, held |-> held, keys |-> keys, inStep |-> inStep]
  BY DEF IsConsole
<1> DEFINE d == [c EXCEPT !.seen = x]
<1>2. d = [seen |-> x, held |-> held, keys |-> keys, inStep |-> inStep]
  BY <1>1
<1> HIDE DEF d
<1>3. IsConsole(d) /\ d.seen = x
  BY <1>2 DEF IsConsole
<1> QED BY <1>3 DEF d

\* The double click of event i is one.
Genuine(seen, i) ==
  seen[i].double =>
    \E j \in 1..(i - 1) :
      /\ PressedBy(seen, j) = PressedBy(seen, i) /\ PressedBy(seen, i) # {}
      /\ seen[j].event.what = seen[i].event.what
      /\ ~seen[j].double /\ ~seen[j].old
      /\ \A k \in (j + 1)..(i - 1) : PressedBy(seen, k) = {}

\* What a program has become that reads what the object gives it.
ReadsInv(c, buttons, click) ==
  /\ IsConsole(c) /\ MouseSeen(c.seen, buttons, click)
  /\ Len(c.seen) >= Len(console.seen)
  /\ \A i \in (Len(console.seen) + 1)..Len(c.seen) : Genuine(c.seen, i)

LEMMA GenuineKept ==
  ASSUME NEW s, NEW t, NEW n \in Nat, NEW i \in 1..n,
         \A j \in 1..n : t[j] = s[j], Genuine(s, i)
  PROVE  Genuine(t, i)
<1>1. \A j \in 1..n : PressedBy(t, j) = PressedBy(s, j)
  BY PressedKept
<1>2. SUFFICES ASSUME t[i].double PROVE Genuine(t, i)
  BY DEF Genuine
<1>3. s[i].double
  BY <1>2
<1>4. PICK j \in 1..(i - 1) :
        /\ PressedBy(s, j) = PressedBy(s, i) /\ PressedBy(s, i) # {}
        /\ s[j].event.what = s[i].event.what
        /\ ~s[j].double /\ ~s[j].old
        /\ \A k \in (j + 1)..(i - 1) : PressedBy(s, k) = {}
  BY <1>3 DEF Genuine
<1>5. i \in 1..n /\ j \in 1..n /\ \A k \in (j + 1)..(i - 1) : k \in 1..n
  BY <1>4
<1>6. /\ PressedBy(t, j) = PressedBy(t, i) /\ PressedBy(t, i) # {}
      /\ t[j].event.what = t[i].event.what
      /\ ~t[j].double /\ ~t[j].old
  BY <1>1, <1>4, <1>5
<1>7. \A k \in (j + 1)..(i - 1) : PressedBy(t, k) = {}
  BY <1>1, <1>4, <1>5
<1> QED BY <1>4, <1>6, <1>7 DEF Genuine

(* A key or a message changes nothing of it.                               *)
LEMMA SeeKey ==
  ASSUME NEW c, NEW buttons, NEW click, ReadsInv(c, buttons, click), IsSeen(console.seen),
         NEW event, event.kind = "key"
  PROVE  ReadsInv(See(c, event, FALSE), buttons, click)
<1> DEFINE e == [event |-> event, double |-> FALSE, old |-> FALSE]
           s == c.seen
           t == Append(s, e)
           n == Len(s)
           d == See(c, event, FALSE)
<1>1. IsSeen(s)
  BY DEF ReadsInv, MouseSeen
<1>2. /\ IsSeen(t) /\ n \in Nat /\ Len(t) = n + 1 /\ t[n + 1] = e
      /\ \A i \in 1..n : t[i] = s[i]
  <2>1. e = [event |-> event, double |-> FALSE, old |-> FALSE]
    OBVIOUS
  <2> HIDE DEF e, s
  <2>2. /\ IsSeen(t) /\ n \in Nat /\ Len(t) = n + 1 /\ t[n + 1] = e
        /\ \A i \in 1..n : t[i] = s[i]
    BY <1>1, <2>1, SeenAppended
  <2> QED BY <2>1, <2>2
<1>3. d.seen = t /\ IsConsole(d)
  <2>1. IsConsole(c)
    BY DEF ReadsInv
  <2>2. d = [c EXCEPT !.seen = t]
    BY DEF See
  <2> HIDE DEF t
  <2>3. IsConsole([c EXCEPT !.seen = t]) /\ [c EXCEPT !.seen = t].seen = t
    BY <2>1, Updated
  <2> HIDE DEF d
  <2> QED BY <2>2, <2>3, Zenon
<1> HIDE DEF d, t, s
<1>4. PressedBy(t, n + 1) = {} /\ ~t[n + 1].double
  BY <1>2 DEF PressedBy
<1>5. \A i \in 1..n : PressedBy(t, i) = PressedBy(s, i)
  BY <1>2, PressedKept
<1>6. HeldBefore(t, n + 2) = HeldBefore(s, n + 1)
  <2>1. HeldBefore(t, n + 2) = HeldBefore(t, n + 1)
    BY <1>2, HeldAfter
  <2>2. n + 1 \in 1..(n + 1)
    BY <1>2
  <2> QED BY <1>2, <2>1, <2>2, HeldKept
<1>7. MouseSeen(t, buttons, click)
  <2>1. CASE "mouseInput" \in mode
    <3>1. ClickSeen(s, buttons, click)
      BY <2>1 DEF ReadsInv, MouseSeen, s
    <3>2. ASSUME click.recent
          PROVE  \E j \in 1..Len(t) : FirstClick(t, j, click.button, click.at)
      <4>1. PICK j \in 1..n : FirstClick(s, j, click.button, click.at)
        BY <3>1, <3>2 DEF ClickSeen
      <4>2. j \in 1..Len(t) /\ t[j] = s[j] /\ PressedBy(t, j) = PressedBy(s, j)
        BY <1>2, <1>5
      <4>3. \A k \in (j + 1)..Len(t) : PressedBy(t, k) = {}
        <5>1. \A k \in (j + 1)..(n + 1) : k = n + 1 \/ (k \in (j + 1)..n /\ k \in 1..n)
          BY <1>2
        <5> QED BY <1>2, <1>4, <1>5, <4>1, <5>1 DEF FirstClick
      <4> QED BY <4>1, <4>2, <4>3 DEF FirstClick
    <3> QED BY <1>2, <1>6, <2>1, <3>1, <3>2 DEF MouseSeen, ClickSeen
  <2>2. CASE "mouseInput" \notin mode
    <3>1. \A i \in 1..n : ~s[i].double
      BY <2>2 DEF ReadsInv, MouseSeen, s
    <3>2. \A i \in 1..(n + 1) : i = n + 1 \/ i \in 1..n
      BY <1>2
    <3> QED BY <1>2, <1>4, <2>2, <3>1, <3>2 DEF MouseSeen
  <2> QED BY <2>1, <2>2
<1>8. Len(console.seen) \in Nat
  BY SeenAppended
<1>9. \A i \in (Len(console.seen) + 1)..Len(t) : Genuine(t, i)
  <2>1. SUFFICES ASSUME NEW i \in (Len(console.seen) + 1)..(n + 1) PROVE Genuine(t, i)
    BY <1>2
  <2>2. CASE i = n + 1
    BY <1>4, <2>2 DEF Genuine
  <2>3. CASE i # n + 1
    <3>1. i \in (Len(console.seen) + 1)..n /\ i \in 1..n
      BY <1>2, <1>8, <2>3
    <3>2. Genuine(s, i)
      BY <3>1 DEF ReadsInv, s
    <3> QED BY <1>2, <3>1, <3>2, GenuineKept
  <2> QED BY <2>2, <2>3
<1>10. Len(t) >= Len(console.seen)
  <2>1. n >= Len(console.seen)
    BY DEF ReadsInv, s
  <2> QED BY <1>2, <1>8, <2>1
<1> QED BY <1>3, <1>7, <1>9, <1>10 DEF ReadsInv, d

(* What does not touch `seen` changes nothing of it either.                *)
LEMMA NothingSeen ==
  ASSUME NEW c, NEW d, NEW buttons, NEW click, ReadsInv(c, buttons, click),
         IsConsole(d), d.seen = c.seen
  PROVE  ReadsInv(d, buttons, click)
BY DEF ReadsInv

KeyKinds == {"key", "message"}

LEMMA ReadsKey ==
  ASSUME NEW c, NEW buttons, NEW click, ReadsInv(c, buttons, click), IsSeen(console.seen),
         NEW r, r.kind = "key"
  PROVE  ReadsInv(ReadKey(c, r), buttons, click)
<1>1. PICK seen, held, keys, inStep :
        c = [seen |-> seen, held |-> held, keys |-> keys, inStep |-> inStep]
  BY DEF ReadsInv, IsConsole
<1>2. CASE r.key \in {"CONTROL", "MENU", "SHIFT"}
  <2> DEFINE now == IF r.down THEN c.held \union {ModifierOf(r)} ELSE c.held \ {ModifierOf(r)}
             step == c.inStep /\ r.state \ {"Enhanced"} = now
  <2>1. ReadKey(c, r) = [c EXCEPT !.held = now, !.inStep = step]
    BY <1>2 DEF ReadKey, ReadModifier
  <2> HIDE DEF now, step
  <2>2. IsConsole(ReadKey(c, r)) /\ ReadKey(c, r).seen = c.seen
    BY <1>1, <2>1 DEF IsConsole
  <2> QED BY <2>2, NothingSeen
<1>3. CASE r.key \notin {"CONTROL", "MENU", "SHIFT"} /\ r.down
  <2>1. ReadKey(c, r) = [c EXCEPT !.keys = Append(c.keys, r)]
    BY <1>3 DEF ReadKey
  <2>2. IsConsole(ReadKey(c, r)) /\ ReadKey(c, r).seen = c.seen
    BY <1>1, <2>1 DEF IsConsole
  <2> QED BY <2>2, NothingSeen
<1>4. CASE r.key \notin {"CONTROL", "MENU", "SHIFT"} /\ ~r.down
  <2> DEFINE step == c.inStep /\ r.state \ {"Enhanced"} = c.held
             read == [c EXCEPT !.keys = <<>>, !.inStep = step]
             chars == [i \in DOMAIN c.keys |-> c.keys[i].char]
             event == IF c.keys[1].key = NoKey THEN TextOf(chars, c.keys[1].state)
                      ELSE KeyOf(c.keys[1])
  <2>1. ReadKey(c, r) = IF c.keys = <<>> THEN read ELSE See(read, event, FALSE)
    BY <1>4 DEF ReadKey, ReadKeyUp
  <2>2. IsConsole(read) /\ read.seen = c.seen
    <3> HIDE DEF step
    <3>1. PICK now : now = [c EXCEPT !.keys = <<>>, !.inStep = step]
      OBVIOUS
    <3>2. IsConsole(now) /\ now.seen = c.seen
      BY <1>1, <3>1 DEF IsConsole
    <3> QED BY <3>1, <3>2
  <2>3. event.kind = "key"
    <3>1. KeyOf(c.keys[1]).kind = "key"
      BY DEF KeyOf, Event
    <3> HIDE DEF chars
    <3>2. TextOf(chars, c.keys[1].state).kind = "key"
      BY DEF TextOf, Meant, Event
    <3> QED BY <3>1, <3>2
  <2> HIDE DEF read, event
  <2>4. ReadsInv(read, buttons, click)
    BY <2>2, NothingSeen
  <2>5. ReadsInv(See(read, event, FALSE), buttons, click)
    BY <2>3, <2>4, SeeKey
  <2> QED BY <2>1, <2>4, <2>5
<1> QED BY <1>2, <1>3, <1>4

LEMMA ReadsOther ==
  ASSUME NEW c, NEW buttons, NEW click, ReadsInv(c, buttons, click), IsSeen(console.seen),
         NEW r, r.kind \in KeyKinds
  PROVE  ReadsInv(ReadRecord(c, r), buttons, click)
<1>1. CASE r.kind = "message"
  <2>1. Event("key", r.what, {}).kind = "key"
    BY DEF Event
  <2>2. ReadRecord(c, r) = See(c, Event("key", r.what, {}), FALSE)
    BY <1>1 DEF ReadRecord
  <2> QED BY <2>1, <2>2, SeeKey
<1>2. CASE r.kind = "key"
  <2>1. ReadRecord(c, r) = ReadKey(c, r)
    BY <1>2 DEF ReadRecord
  <2> QED BY <1>2, <2>1, ReadsKey
<1> QED BY <1>1, <1>2 DEF KeyKinds

(***************************************************************************)
(* A mouse record, with what the object believes after the report.         *)
(***************************************************************************)
LEMMA SeeMouse ==
  ASSUME NEW c, NEW buttons, NEW click, ReadsInv(c, buttons, click), IsSeen(console.seen),
         "mouseInput" \in mode,
         NEW event, event.kind # "key", NEW double, NEW after, event.held = after,
         NEW next, 
         LET t == Append(c.seen, [event |-> event, double |-> double, old |-> FALSE])
             n == Len(c.seen)
         IN  /\ double => Genuine(t, n + 1)
             /\ next.recent => \E j \in 1..(n + 1) : FirstClick(t, j, next.button, next.at)
  PROVE  ReadsInv(See(c, event, double), after, next)
<1> DEFINE e == [event |-> event, double |-> double, old |-> FALSE]
           s == c.seen
           t == Append(s, e)
           n == Len(s)
           d == See(c, event, double)
<1>1. /\ IsSeen(t) /\ n \in Nat /\ Len(t) = n + 1 /\ t[n + 1] = e
      /\ \A i \in 1..n : t[i] = s[i]
  <2>1. e = [event |-> event, double |-> double, old |-> FALSE] /\ IsSeen(s)
    BY DEF ReadsInv, MouseSeen
  <2> HIDE DEF e, s
  <2>2. /\ IsSeen(t) /\ n \in Nat /\ Len(t) = n + 1 /\ t[n + 1] = e
        /\ \A i \in 1..n : t[i] = s[i]
    BY <2>1, SeenAppended
  <2> QED BY <2>1, <2>2
<1>2. d.seen = t /\ IsConsole(d)
  <2>1. IsConsole(c) /\ d = [c EXCEPT !.seen = t]
    BY DEF ReadsInv, See
  <2> HIDE DEF d, t
  <2> QED BY <2>1, Updated
<1>3. /\ double => Genuine(t, n + 1)
      /\ next.recent => \E j \in 1..(n + 1) : FirstClick(t, j, next.button, next.at)
  OBVIOUS
<1> HIDE DEF d, t, s
<1>4. HeldBefore(t, Len(t) + 1) = after
  <2>1. t[n + 1].event.kind # "key" /\ t[n + 1].event.held = after
    BY <1>1
  <2>2. HeldBefore(t, n + 2) = after
    BY <1>1, <2>1, HeldAfter
  <2>3. Len(t) + 1 = n + 2
    BY <1>1
  <2> QED BY <2>2, <2>3
<1>5. MouseSeen(t, after, next)
  BY <1>1, <1>3, <1>4 DEF MouseSeen, ClickSeen
<1>6. Len(console.seen) \in Nat /\ n >= Len(console.seen)
  BY SeenAppended DEF ReadsInv, s
<1>7. \A i \in (Len(console.seen) + 1)..Len(t) : Genuine(t, i)
  <2>1. SUFFICES ASSUME NEW i \in (Len(console.seen) + 1)..(n + 1) PROVE Genuine(t, i)
    BY <1>1
  <2>2. CASE i = n + 1
    BY <1>1, <1>3, <2>2 DEF Genuine
  <2>3. CASE i # n + 1
    <3>1. i \in (Len(console.seen) + 1)..n /\ i \in 1..n
      BY <1>1, <1>6, <2>3
    <3>2. Genuine(s, i)
      BY <3>1 DEF ReadsInv, s
    <3> QED BY <1>1, <3>1, <3>2, GenuineKept
  <2> QED BY <2>2, <2>3
<1> QED BY <1>1, <1>2, <1>5, <1>6, <1>7 DEF ReadsInv, d

(* No button is newly pressed: the wheel, a release, a button held already.*)
LEMMA NotPressed ==
  ASSUME NEW c, NEW buttons, NEW click, ReadsInv(c, buttons, click), IsSeen(console.seen),
         "mouseInput" \in mode,
         NEW event, event.kind # "key",
         event.kind = "mouse" => event.held \subseteq buttons,
         NEW next, next.recent => next = click
  PROVE  ReadsInv(See(c, event, FALSE), event.held, next)
<1> DEFINE e == [event |-> event, double |-> FALSE, old |-> FALSE]
           s == c.seen
           t == Append(s, e)
           n == Len(s)
<1>1. /\ IsSeen(t) /\ n \in Nat /\ Len(t) = n + 1 /\ t[n + 1] = e
      /\ \A i \in 1..n : t[i] = s[i]
  <2>1. e = [event |-> event, double |-> FALSE, old |-> FALSE] /\ IsSeen(s)
    BY DEF ReadsInv, MouseSeen
  <2> HIDE DEF e, s
  <2>2. /\ IsSeen(t) /\ n \in Nat /\ Len(t) = n + 1 /\ t[n + 1] = e
        /\ \A i \in 1..n : t[i] = s[i]
    BY <2>1, SeenAppended
  <2> QED BY <2>1, <2>2
<1>2. ClickSeen(s, buttons, click)
  BY DEF ReadsInv, MouseSeen
<1> HIDE DEF t, s
<1>3. PressedBy(t, n + 1) = {}
  <2>1. HeldBefore(t, n + 1) = HeldBefore(s, n + 1)
    <3>1. n + 1 \in 1..(n + 1) /\ \A i \in 1..n : t[i].event = s[i].event
      BY <1>1
    <3> QED BY <1>1, <3>1, HeldKept
  <2>2. HeldBefore(s, n + 1) = buttons
    BY <1>2 DEF ClickSeen
  <2> QED BY <1>1, <2>1, <2>2 DEF PressedBy
<1>4. \A i \in 1..n : PressedBy(t, i) = PressedBy(s, i)
  <2>1. \A i \in 1..n : t[i].event = s[i].event
    BY <1>1
  <2> QED BY <1>1, <2>1, PressedKept
<1>5. ASSUME next.recent
      PROVE  \E j \in 1..(n + 1) : FirstClick(t, j, next.button, next.at)
  <2>1. PICK j \in 1..n : FirstClick(s, j, next.button, next.at)
    BY <1>2, <1>5 DEF ClickSeen
  <2>2. j \in 1..(n + 1) /\ t[j] = s[j] /\ PressedBy(t, j) = PressedBy(s, j)
    BY <1>1, <1>4
  <2>3. \A k \in (j + 1)..Len(t) : PressedBy(t, k) = {}
    <3>1. \A k \in (j + 1)..(n + 1) : k = n + 1 \/ (k \in (j + 1)..n /\ k \in 1..n)
      BY <1>1
    <3> QED BY <1>1, <1>3, <1>4, <2>1, <3>1 DEF FirstClick
  <2> QED BY <2>1, <2>2, <2>3 DEF FirstClick
<1> QED BY <1>5, SeeMouse DEF t, s

(* A button is newly pressed, and may complete a double click.             *)
LEMMA Pressed ==
  ASSUME NEW c, NEW buttons, NEW click, ReadsInv(c, buttons, click), IsSeen(console.seen),
         "mouseInput" \in mode,
         NEW record, record.flags \notin buttons,
         NEW event, event = [kind |-> "mouse", what |-> record.at,
                             held |-> buttons \union {record.flags}],
         NEW double, double = IsDoubleClick(click, record),
         NEW next, next = IF double THEN NoClick
                          ELSE [button |-> record.flags, at |-> record.at, recent |-> TRUE]
  PROVE  ReadsInv(See(c, event, double), event.held, next)
<1> DEFINE e == [event |-> event, double |-> double, old |-> FALSE]
           s == c.seen
           t == Append(s, e)
           n == Len(s)
<1>1. /\ IsSeen(t) /\ n \in Nat /\ Len(t) = n + 1 /\ t[n + 1] = e
      /\ \A i \in 1..n : t[i] = s[i]
  <2>1. e = [event |-> event, double |-> double, old |-> FALSE] /\ IsSeen(s)
    BY DEF ReadsInv, MouseSeen
  <2> HIDE DEF e, s
  <2>2. /\ IsSeen(t) /\ n \in Nat /\ Len(t) = n + 1 /\ t[n + 1] = e
        /\ \A i \in 1..n : t[i] = s[i]
    BY <2>1, SeenAppended
  <2> QED BY <2>1, <2>2
<1>2. ClickSeen(s, buttons, click)
  BY DEF ReadsInv, MouseSeen
<1> HIDE DEF t, s
<1>3. PressedBy(t, n + 1) = {record.flags}
  <2>1. HeldBefore(t, n + 1) = HeldBefore(s, n + 1)
    <3>1. n + 1 \in 1..(n + 1) /\ \A i \in 1..n : t[i].event = s[i].event
      BY <1>1
    <3> QED BY <1>1, <3>1, HeldKept
  <2>2. HeldBefore(s, n + 1) = buttons
    BY <1>2 DEF ClickSeen
  <2> QED BY <1>1, <2>1, <2>2 DEF PressedBy
<1>4. \A i \in 1..n : PressedBy(t, i) = PressedBy(s, i)
  <2>1. \A i \in 1..n : t[i].event = s[i].event
    BY <1>1
  <2> QED BY <1>1, <2>1, PressedKept
<1>5. ASSUME double PROVE Genuine(t, n + 1)
  <2>1. click.button = record.flags /\ click.at = record.at /\ click.recent
    BY <1>5 DEF IsDoubleClick
  <2>2. PICK j \in 1..n : FirstClick(s, j, record.flags, record.at)
    BY <1>2, <2>1 DEF ClickSeen
  <2>3. j \in 1..((n + 1) - 1) /\ t[j] = s[j] /\ PressedBy(t, j) = PressedBy(s, j)
    BY <1>1, <1>4
  <2>4. \A k \in (j + 1)..((n + 1) - 1) : PressedBy(t, k) = {}
    <3>1. \A k \in (j + 1)..((n + 1) - 1) : k \in (j + 1)..n /\ k \in 1..n
      BY <1>1
    <3> QED BY <1>4, <2>2, <3>1 DEF FirstClick, s
  <2>5. /\ PressedBy(t, j) = PressedBy(t, n + 1) /\ PressedBy(t, n + 1) # {}
        /\ t[j].event.what = t[n + 1].event.what
        /\ ~t[j].double /\ ~t[j].old
    BY <1>1, <1>3, <2>2, <2>3 DEF FirstClick
  <2> QED BY <2>3, <2>4, <2>5 DEF Genuine
<1>6. ASSUME next.recent
      PROVE  \E j \in 1..(n + 1) : FirstClick(t, j, next.button, next.at)
  <2>1. ~double /\ next = [button |-> record.flags, at |-> record.at, recent |-> TRUE]
    BY <1>6 DEF NoClick
  <2>2. \A k \in ((n + 1) + 1)..Len(t) : PressedBy(t, k) = {}
    BY <1>1
  <2>3. FirstClick(t, n + 1, next.button, next.at)
    BY <1>1, <1>3, <2>1, <2>2 DEF FirstClick
  <2>4. n + 1 \in 1..(n + 1)
    BY <1>1
  <2> QED BY <2>3, <2>4
<1> QED BY <1>5, <1>6, SeeMouse DEF t, s

----------------------------------------------------------------------------
(***************************************************************************)
(* A program that reads one record after the other.                        *)
(***************************************************************************)
\* What the program has become after each of the records.
Steps(f, records) ==
  f[0] = console /\ \A i \in 1..Len(records) : f[i] = ReadRecord(f[i - 1], records[i])

\* f is the function of the definition of Reads, up to record n.
DefinesReads(f, records, n) ==
  f = [i \in 0..n |->
        IF i = 0 THEN console
        ELSE CHOOSE next \in {ReadRecord(c, records[i]) : c \in {f[i - 1]}} : TRUE]

LEMMA ReadsExists ==
  ASSUME NEW records, NEW n \in Nat
  PROVE  \E f : DefinesReads(f, records, n)
<1> DEFINE S == {k \in Nat : \E f : DefinesReads(f, records, k)}
           H(c, i) == CHOOSE next \in {ReadRecord(x, records[i]) : x \in {c}} : TRUE
<1>1. 0 \in S
  <2> DEFINE f == [i \in 0..0 |-> console]
  <2>1. f = [i \in 0..0 |-> IF i = 0 THEN console ELSE H(f[i - 1], i)]
    OBVIOUS
  <2> HIDE DEF f
  <2> QED BY <2>1 DEF DefinesReads
<1>2. ASSUME NEW k \in Nat, k \in S PROVE k + 1 \in S
  <2>1. PICK f : DefinesReads(f, records, k)
    BY <1>2
  <2> DEFINE g == [i \in 0..(k + 1) |-> IF i \in 0..k THEN f[i] ELSE H(f[k], k + 1)]
  <2>2. f = [i \in 0..k |-> IF i = 0 THEN console ELSE H(f[i - 1], i)]
    BY <2>1 DEF DefinesReads
  <2> HIDE DEF H
  <2>3. \A i \in 0..k : i \in 0..(k + 1) /\ g[i] = f[i]
    OBVIOUS
  <2>4. g[k + 1] = H(f[k], k + 1)
    OBVIOUS
  <2>5. ASSUME NEW i \in 0..(k + 1)
        PROVE  g[i] = IF i = 0 THEN console ELSE H(g[i - 1], i)
    <3>1. CASE i \in 0..k
      <4>1. g[i] = IF i = 0 THEN console ELSE H(f[i - 1], i)
        BY <2>2, <2>3, <3>1
      <4>2. i # 0 => i - 1 \in 0..k
        BY <3>1
      <4>3. i # 0 => g[i - 1] = f[i - 1]
        BY <2>3, <4>2
      <4> HIDE DEF g
      <4> QED BY <4>1, <4>3
    <3>2. CASE i \notin 0..k
      <4>1. i = k + 1 /\ i # 0 /\ i - 1 = k /\ k \in 0..k
        BY <3>2
      <4>2. g[i - 1] = f[k]
        BY <2>3, <4>1
      <4> HIDE DEF g
      <4> QED BY <2>4, <4>1, <4>2
    <3> QED BY <3>1, <3>2
  <2>6. g = [i \in 0..(k + 1) |-> g[i]]
    OBVIOUS
  <2> HIDE DEF g
  <2>7. g = [i \in 0..(k + 1) |-> IF i = 0 THEN console ELSE H(g[i - 1], i)]
    BY <2>5, <2>6
  <2>8. DefinesReads(g, records, k + 1)
    BY <2>7 DEF DefinesReads, H
  <2> QED BY <2>8
<1> HIDE DEF S
<1>3. n \in S
  BY <1>1, <1>2, SetInduction
<1> QED BY <1>3 DEF S

LEMMA ReadsSteps ==
  ASSUME NEW C, NEW records \in Seq(C)
  PROVE  \E f : Steps(f, records) /\ Reads(records) = f[Len(records)]
<1> DEFINE n == Len(records)
           f == CHOOSE g : DefinesReads(g, records, n)
<1>1. n \in Nat
  OBVIOUS
<1>2. DefinesReads(f, records, n)
  BY <1>1, ReadsExists, Zenon
<1>3. Reads(records) = f[n]
  BY DEF Reads, DefinesReads
<1> HIDE DEF f
<1>4. f[0] = console
  BY <1>1, <1>2 DEF DefinesReads
<1>5. ASSUME NEW i \in 1..n PROVE f[i] = ReadRecord(f[i - 1], records[i])
  <2>1. i \in 0..n /\ i # 0
    BY <1>1
  <2>2. f[i] = CHOOSE next \in {ReadRecord(c, records[i]) : c \in {f[i - 1]}} : TRUE
    BY <1>2, <2>1 DEF DefinesReads
  <2>3. {ReadRecord(c, records[i]) : c \in {f[i - 1]}} = {ReadRecord(f[i - 1], records[i])}
    OBVIOUS
  <2> QED BY <2>2, <2>3
<1> QED BY <1>3, <1>4, <1>5 DEF Steps

LEMMA StepsUnique ==
  ASSUME NEW C, NEW s \in Seq(C), NEW u \in Seq(C), Len(s) <= Len(u),
         \A i \in 1..Len(s) : u[i] = s[i],
         NEW f, NEW g, Steps(f, u), Steps(g, s)
  PROVE  \A i \in 0..Len(s) : f[i] = g[i]
<1> DEFINE n == Len(s)
<1> DEFINE S == {i \in 0..n : f[i] = g[i]}
<1>1. 0 \in S
  BY DEF Steps
<1>2. ASSUME NEW i \in 1..n, i - 1 \in S PROVE i \in S
  <2>1. i \in 0..n /\ f[i - 1] = g[i - 1]
    BY <1>2
  <2>2. f[i] = ReadRecord(f[i - 1], u[i]) /\ g[i] = ReadRecord(g[i - 1], s[i])
    <3>1. i \in 1..Len(s) /\ i \in 1..Len(u)
      OBVIOUS
    <3> QED BY <3>1 DEF Steps
  <2>3. u[i] = s[i]
    OBVIOUS
  <2>4. f[i] = g[i]
    BY <2>1, <2>2, <2>3, Zenon
  <2> QED BY <2>1, <2>4
<1> HIDE DEF S
<1>3. 0..n \subseteq S
  <2>1. n \in Nat
    OBVIOUS
  <2> HIDE DEF n
  <2> QED BY <1>1, <1>2, <2>1, IntervalInduction
<1> QED BY <1>3 DEF S

LEMMA ReadsNothing == Reads(<<>>) = console
<1>1. <<>> \in Seq({}) /\ Len(<<>>) = 0
  OBVIOUS
<1>2. PICK f : Steps(f, <<>>) /\ Reads(<<>>) = f[Len(<<>>)]
  BY <1>1, ReadsSteps
<1> QED BY <1>1, <1>2 DEF Steps

LEMMA ReadsOneMore ==
  ASSUME NEW C, NEW s \in Seq(C), NEW r \in C
  PROVE  Reads(Append(s, r)) = ReadRecord(Reads(s), r)
<1> DEFINE n == Len(s)
           u == Append(s, r)
<1>1. /\ n \in Nat /\ u \in Seq(C) /\ Len(u) = n + 1 /\ u[n + 1] = r
      /\ n <= Len(u) /\ \A i \in 1..n : u[i] = s[i]
  OBVIOUS
<1> HIDE DEF u
<1>2. PICK f : Steps(f, u) /\ Reads(u) = f[n + 1]
  BY <1>1, ReadsSteps
<1>3. PICK g : Steps(g, s) /\ Reads(s) = g[n]
  BY ReadsSteps
<1>4. f[n] = g[n]
  <2>1. \A i \in 0..n : f[i] = g[i]
    BY <1>1, <1>2, <1>3, StepsUnique
  <2> QED BY <1>1, <2>1
<1>5. f[n + 1] = ReadRecord(f[n], r)
  <2>1. n + 1 \in 1..Len(u) /\ (n + 1) - 1 = n
    BY <1>1
  <2>2. f[n + 1] = ReadRecord(f[(n + 1) - 1], u[n + 1])
    BY <1>2, <2>1 DEF Steps
  <2> QED BY <1>1, <2>1, <2>2
<1>6. ReadRecord(f[n], r) = ReadRecord(g[n], r)
  BY <1>4, Zenon
<1> QED BY <1>2, <1>3, <1>5, <1>6 DEF u

(* Records of keys and messages leave what is known of the mouse.          *)
LEMMA ReadsKeys ==
  ASSUME NEW C, NEW s \in Seq(C), NEW t \in Seq(C),
         \A i \in 1..Len(t) : t[i].kind \in KeyKinds,
         NEW buttons, NEW click, ReadsInv(Reads(s), buttons, click), IsSeen(console.seen)
  PROVE  ReadsInv(Reads(s \o t), buttons, click)
<1> DEFINE n == Len(s)
           m == Len(t)
<1>u. PICK u : u = s \o t
  OBVIOUS
<1>1. /\ n \in Nat /\ m \in Nat /\ u \in Seq(C) /\ Len(u) = n + m
      /\ n <= Len(u) /\ \A i \in 1..n : u[i] = s[i]
      /\ \A i \in 1..m : u[n + i] = t[i]
  BY <1>u
<1>2. PICK f : Steps(f, u) /\ Reads(u) = f[n + m]
  BY <1>1, ReadsSteps
<1>3. PICK g : Steps(g, s) /\ Reads(s) = g[n]
  BY ReadsSteps
<1>4. f[n] = g[n]
  <2>1. \A i \in 0..n : f[i] = g[i]
    BY <1>1, <1>2, <1>3, StepsUnique
  <2> QED BY <1>1, <2>1
<1> DEFINE S == {i \in 0..m : ReadsInv(f[n + i], buttons, click)}
<1>5. 0 \in S
  <2>1. n + 0 = n /\ 0 \in 0..m
    BY <1>1
  <2>2. ReadsInv(f[n], buttons, click)
    BY <1>3, <1>4
  <2> QED BY <2>1, <2>2
<1>6. ASSUME NEW i \in 1..m, i - 1 \in S PROVE i \in S
  <2>1. ReadsInv(f[n + (i - 1)], buttons, click)
    BY <1>6
  <2>2. n + i \in 1..Len(u) /\ (n + i) - 1 = n + (i - 1) /\ i \in 0..m
    BY <1>1
  <2>3. f[n + i] = ReadRecord(f[n + (i - 1)], u[n + i])
    <3>1. f[n + i] = ReadRecord(f[(n + i) - 1], u[n + i])
      BY <1>2, <2>2 DEF Steps
    <3> QED BY <2>2, <3>1
  <2>4. u[n + i].kind \in KeyKinds
    BY <1>1
  <2>5. ReadsInv(ReadRecord(f[n + (i - 1)], u[n + i]), buttons, click)
    BY <2>1, <2>4, ReadsOther
  <2> QED BY <2>2, <2>3, <2>5
<1> HIDE DEF S
<1>7. m \in S
  <2>1. 0..m \subseteq S
    BY <1>1, <1>5, <1>6, IntervalInduction
  <2> QED BY <1>1, <2>1
<1> QED BY <1>u, <1>2, <1>7 DEF S

----------------------------------------------------------------------------
(***************************************************************************)
(* The records of a key press are records of keys.                         *)
(***************************************************************************)
AllKeys(s) == \E C : s \in Seq(C) /\ \A x \in C : x.kind \in KeyKinds

LEMMA KeysFrom ==
  ASSUME NEW n \in Nat, NEW f, f = [i \in 1..n |-> f[i]], \A i \in 1..n : f[i].kind \in KeyKinds
  PROVE  AllKeys(f)
<1> DEFINE C == {f[i] : i \in 1..n}
<1>1. f \in Seq(C) /\ \A x \in C : x.kind \in KeyKinds
  OBVIOUS
<1> HIDE DEF C
<1> QED BY <1>1 DEF AllKeys

LEMMA KeysConcat ==
  ASSUME NEW s, NEW t, AllKeys(s), AllKeys(t)
  PROVE  AllKeys(s \o t)
<1>1. PICK C : s \in Seq(C) /\ \A x \in C : x.kind \in KeyKinds
  BY DEF AllKeys
<1>2. PICK D : t \in Seq(D) /\ \A x \in D : x.kind \in KeyKinds
  BY DEF AllKeys
<1> DEFINE E == C \union D
<1>3. s \in Seq(E) /\ t \in Seq(E) /\ \A x \in E : x.kind \in KeyKinds
  BY <1>1, <1>2
<1> HIDE DEF E
<1>4. s \o t \in Seq(E)
  BY <1>3
<1> QED BY <1>3, <1>4 DEF AllKeys

LEMMA KeyRecord ==
  ASSUME NEW down, NEW key, NEW char, NEW state
  PROVE  appendInputRecord(down, key, char, state).kind \in KeyKinds
BY DEF appendInputRecord, KeyKinds

LEMMA CPRecords ==
  ASSUME NEW down, NEW key, NEW char, NEW state
  PROVE  AllKeys(appendCPInputRecords(down, key, char, state))
<1> DEFINE units == encodeUtf16(char)
           f == appendCPInputRecords(down, key, char, state)
<1>1. PICK n \in Nat : DOMAIN units = 1..n
  <2>1. DOMAIN <<"clef-hi", "clef-lo">> = 1..2 /\ DOMAIN <<char>> = 1..1
    OBVIOUS
  <2> QED BY <2>1 DEF encodeUtf16
<1> HIDE DEF units
<1>2. f = [i \in 1..n |-> appendInputRecord(down, key, units[i], state)]
  BY <1>1 DEF appendCPInputRecords, units
<1> HIDE DEF f
<1>3. f = [i \in 1..n |-> f[i]] /\ \A i \in 1..n : f[i].kind \in KeyKinds
  BY <1>2, KeyRecord
<1>4. AllKeys(f)
  BY <1>3, KeysFrom
<1> QED BY <1>4 DEF f

LEMMA CharacterRecords ==
  ASSUME NEW C, NEW chars \in Seq(C)
  PROVE  AllKeys(Characters(chars))
<1> DEFINE f == Characters(chars)
           n == Len(chars)
<1>1. n \in Nat /\ f = [i \in 1..n |-> outch(chars[i])]
  BY DEF Characters
<1> HIDE DEF f, n
<1>2. f = [i \in 1..n |-> f[i]] /\ \A i \in 1..n : f[i].kind \in KeyKinds
  BY <1>1, KeyRecord DEF outch
<1>3. AllKeys(f)
  BY <1>1, <1>2, KeysFrom
<1> QED BY <1>3 DEF f

LEMMA KeysIn ==
  ASSUME NEW C, NEW s \in Seq(C), \A x \in C : x.kind \in KeyKinds
  PROVE  AllKeys(s)
BY DEF AllKeys

LEMMA NoRecords == AllKeys(<<>>)
<1> DEFINE C == {}
<1>1. <<>> \in Seq(C) /\ \A x \in C : x.kind \in KeyKinds
  OBVIOUS
<1> HIDE DEF C
<1> QED BY <1>1, KeysIn

LEMMA OneRecord ==
  ASSUME NEW r, r.kind \in KeyKinds
  PROVE  AllKeys(<<r>>)
<1> DEFINE C == {r}
<1>1. <<r>> \in Seq(C) /\ \A x \in C : x.kind \in KeyKinds
  OBVIOUS
<1> HIDE DEF C
<1> QED BY <1>1, KeysIn

LEMMA ShortSequences ==
  ASSUME NEW C, NEW a \in C, NEW b \in C
  PROVE  <<>> \in Seq(C) /\ <<a>> \in Seq(C) /\ <<a, b>> \in Seq(C)
OBVIOUS

LEMMA ReencodedRecords ==
  ASSUME NEW key, NEW char, NEW state
  PROVE  AllKeys(reencodeEscapedKeyPress(key, char, state))
<1> DEFINE flags == Flags(state)
           modifier == IF flags = 0 THEN <<>> ELSE <<";", Digits[1 + flags]>>
           alt == IF "Alt" \in state THEN <<outch("ESC")>> ELSE <<>>
           e == EscapedKeys[key]
           C == {"ESC", "[", "1", "~", ";", "DEL", "Z", e.content, Digits[1 + flags]}
           number == IF e.numeric THEN <<e.content>> ELSE IF flags # 0 THEN <<"1">> ELSE <<>>
           final == IF e.numeric THEN "~" ELSE e.content
           escaped == <<"ESC", "[">> \o number \o modifier \o <<final>>
<1>1. AllKeys(Characters(escaped))
  <2>1. /\ <<"ESC", "[">> \in Seq(C) /\ number \in Seq(C) /\ modifier \in Seq(C)
        /\ <<final>> \in Seq(C)
    <3> HIDE DEF e, flags
    <3> DEFINE d == Digits[1 + flags]
               c == e.content
    <3>1. {"ESC", "[", "1", "~", ";", c, d} \subseteq C
      OBVIOUS
    <3>2. number = <<c>> \/ number = <<"1">> \/ number = <<>>
      OBVIOUS
    <3>3. modifier = <<>> \/ modifier = <<";", d>>
      OBVIOUS
    <3>4. final \in C
      BY <3>1
    <3> HIDE DEF C, d, c, number, modifier, final
    <3>5. "ESC" \in C /\ "[" \in C /\ "1" \in C /\ ";" \in C /\ c \in C /\ d \in C
      BY <3>1
    <3>6. number \in Seq(C)
      BY <3>2, <3>5, ShortSequences
    <3>7. modifier \in Seq(C)
      BY <3>3, <3>5, ShortSequences
    <3>8. <<"ESC", "[">> \in Seq(C)
      BY <3>5, ShortSequences
    <3>9. <<final>> \in Seq(C)
      BY <3>4
    <3> QED BY <3>6, <3>7, <3>8, <3>9
  <2> HIDE DEF number, modifier, final, C
  <2>2. escaped \in Seq(C)
    BY <2>1
  <2> HIDE DEF escaped
  <2> QED BY <2>2, CharacterRecords
<1>2. AllKeys(alt)
  BY OneRecord, NoRecords, KeyRecord DEF outch
<1>3. AllKeys(Characters(<<"DEL">>)) /\ AllKeys(Characters(<<"ESC", "[", "Z">>))
  <2>1. <<"DEL">> \in Seq({"DEL", "ESC", "[", "Z"}) /\ <<"ESC", "[", "Z">> \in Seq({"DEL", "ESC", "[", "Z"})
    OBVIOUS
  <2> QED BY <2>1, CharacterRecords
<1>4. AllKeys(appendCPInputRecords(TRUE, NoKey, char, {}))
  BY CPRecords
<1>5. reencodeEscapedKeyPress(key, char, state) =
        IF key \in DOMAIN EscapedKeys THEN Characters(escaped)
        ELSE IF key = "Back" THEN alt \o Characters(<<"DEL">>)
        ELSE IF key = "Tab" /\ "Shift" \in state THEN Characters(<<"ESC", "[", "Z">>)
        ELSE IF char = NoChar THEN <<>>
        ELSE alt \o appendCPInputRecords(TRUE, NoKey, char, {})
  BY DEF reencodeEscapedKeyPress
<1> HIDE DEF escaped, alt
<1>6. AllKeys(alt \o Characters(<<"DEL">>)) /\ AllKeys(alt \o appendCPInputRecords(TRUE, NoKey, char, {}))
  BY <1>2, <1>3, <1>4, KeysConcat
<1> QED BY <1>1, <1>3, <1>5, <1>6, NoRecords

LEMMA PressRecords ==
  ASSUME NEW press, NEW escapeInput
  PROVE  AllKeys(KeyRecords(press, escapeInput))
<1> DEFINE one(m) == IF m \in press.state THEN <<m>> ELSE <<>>
           held == one("Ctrl") \o one("Alt") \o one("AltGr") \o one("Shift")
           first(n) == ToSet(SubSeq(held, 1, n))
           modifier(down, i, n) ==
             appendInputRecord(down, ModifierKey(held[i]), NoChar, first(n) \union Marked(held[i]))
           all == ToSet(held) \union (press.state \intersect {"Enhanced"})
           downs == [i \in DOMAIN held |-> modifier(TRUE, i, i)]
           ups == [i \in DOMAIN held |-> modifier(FALSE, i, i - 1)]
           n == Len(held)
           char == IF escapeInput
                   THEN reencodeEscapedKeyPress(press.key, press.vtChar, press.vtState)
                   ELSE appendCPInputRecords(TRUE, press.key, press.down, all)
           up == appendCPInputRecords(FALSE, press.key, press.up, all)
<1>1. held \in Seq({"Ctrl", "Alt", "AltGr", "Shift"})
  <2> DEFINE M == {"Ctrl", "Alt", "AltGr", "Shift"}
  <2>1. ASSUME NEW m \in M
        PROVE  one(m) \in Seq(M)
    <3>1. CASE m \in press.state
      BY <3>1
    <3>2. CASE m \notin press.state
      BY <3>2
    <3> QED BY <3>1, <3>2
  <2>2. "Ctrl" \in M /\ "Alt" \in M /\ "AltGr" \in M /\ "Shift" \in M
    OBVIOUS
  <2> HIDE DEF one, M
  <2>3. held \in Seq(M)
    BY <2>1, <2>2
  <2> QED BY <2>3 DEF M
<1>2. KeyRecords(press, escapeInput) = downs \o char \o up \o Reverse(ups)
  BY DEF KeyRecords
<1> HIDE DEF held, first, all
<1>3. n \in Nat /\ DOMAIN held = 1..n
  BY <1>1
<1>4. AllKeys(downs)
  <2>1. \A i \in 1..n : modifier(TRUE, i, i).kind \in KeyKinds
    BY KeyRecord
  <2> HIDE DEF modifier
  <2>2. downs = [i \in 1..n |-> downs[i]] /\ \A i \in 1..n : downs[i].kind \in KeyKinds
    BY <1>3, <2>1
  <2> HIDE DEF downs, n
  <2> QED BY <1>3, <2>2, KeysFrom
<1>5. AllKeys(Reverse(ups))
  <2>1. \A i \in 1..n : modifier(FALSE, i, i - 1).kind \in KeyKinds
    BY KeyRecord
  <2> HIDE DEF modifier
  <2>2. ups = [i \in 1..n |-> modifier(FALSE, i, i - 1)]
    BY <1>3
  <2>7. DOMAIN ups = 1..n /\ Len(ups) = n
    BY <1>3, <2>2
  <2>3. \A i \in 1..n : ups[i].kind \in KeyKinds
    BY <2>1, <2>2
  <2> DEFINE f == Reverse(ups)
  <2> HIDE DEF ups, n
  <2>4. f = [i \in 1..n |-> ups[(n - i) + 1]]
    BY <2>7 DEF Reverse
  <2> HIDE DEF f
  <2>5. f = [i \in 1..n |-> f[i]] /\ \A i \in 1..n : f[i].kind \in KeyKinds
    <3>1. \A i \in 1..n : (n - i) + 1 \in 1..n
      BY <1>3
    <3> QED BY <2>3, <2>4, <3>1
  <2>6. AllKeys(f)
    BY <1>3, <2>5, KeysFrom
  <2> QED BY <2>6 DEF f
<1>6. AllKeys(char) /\ AllKeys(up)
  BY CPRecords, ReencodedRecords
<1> HIDE DEF downs, ups, char, up
<1>7. AllKeys(downs \o char)
  BY <1>4, <1>6, KeysConcat
<1>8. AllKeys((downs \o char) \o up)
  BY <1>6, <1>7, KeysConcat
<1>9. AllKeys(((downs \o char) \o up) \o Reverse(ups))
  BY <1>5, <1>8, KeysConcat
<1> QED BY <1>2, <1>9

----------------------------------------------------------------------------
(***************************************************************************)
(* The object in doWrite: what it has collected tells the program of its   *)
(* buttons and its click.                                                  *)
(***************************************************************************)
IsSequence(s) == \E S : s \in Seq(S)

IsClick(click) ==
  \E button, at, recent : click = [button |-> button, at |-> at, recent |-> recent]

IsObject(o) ==
  \E data, records, given, stop, replies, dsrSent, buttons, click :
    /\ IsClick(click)
    /\ o = [data |-> data, records |-> records, given |-> given, stop |-> stop,
            replies |-> replies, dsrSent |-> dsrSent, buttons |-> buttons, click |-> click]

ScanInv(o) ==
  /\ IsObject(o) /\ IsSequence(o.data) /\ IsSequence(o.given) /\ IsSequence(o.records)
  /\ ReadsInv(Reads(o.given \o o.records), o.buttons, o.click)

SetData(o, x) == [o EXCEPT !.data = x]
Replied(o) == [o EXCEPT !.dsrSent = FALSE, !.replies = @ + 1]
SetCollected(o, g, r) == [o EXCEPT !.given = g, !.records = r]
SetRecords(o, r) == [o EXCEPT !.records = r]
SetGiven(o, g) == [o EXCEPT !.given = g]
SetButtons(o, b) == [o EXCEPT !.buttons = b]
SetMouse(o, b, k) == [o EXCEPT !.buttons = b, !.click = k]

\* d has the same DSR request outstanding, and has read as many replies.
SameDsr(o, d) == d.dsrSent = o.dsrSent /\ d.replies = o.replies

LEMMA DataSet ==
  ASSUME NEW o, IsObject(o), NEW x
  PROVE  LET d == SetData(o, x) IN
         /\ IsObject(d) /\ d.data = x /\ d.given = o.given /\ d.records = o.records
         /\ d.buttons = o.buttons /\ d.click = o.click
         /\ SameDsr(o, d)
<1>1. PICK data, records, given, stop, replies, dsrSent, buttons, click :
        /\ IsClick(click)
        /\ o = [data |-> data, records |-> records, given |-> given, stop |-> stop,
                replies |-> replies, dsrSent |-> dsrSent, buttons |-> buttons, click |-> click]
  BY DEF IsObject
<1>d. PICK d : d = [o EXCEPT !.data = x]
  OBVIOUS
<1>2. d = [data |-> x, records |-> records, given |-> given, stop |-> stop,
           replies |-> replies, dsrSent |-> dsrSent, buttons |-> buttons, click |-> click]
  BY <1>1, <1>d
<1>3. IsObject(d)
  BY <1>1, <1>2 DEF IsObject
<1>4. /\ d.data = x /\ d.given = o.given /\ d.records = o.records
      /\ d.buttons = o.buttons /\ d.click = o.click
      /\ SameDsr(o, d)
  BY <1>1, <1>2 DEF SameDsr
<1> QED BY <1>d, <1>3, <1>4 DEF SetData

LEMMA StopSet ==
  ASSUME NEW o, IsObject(o)
  PROVE  LET d == Stop(o) IN
         /\ IsObject(d) /\ d.data = o.data /\ d.given = o.given /\ d.records = o.records
         /\ d.buttons = o.buttons /\ d.click = o.click
         /\ SameDsr(o, d)
<1>1. PICK data, records, given, stop, replies, dsrSent, buttons, click :
        /\ IsClick(click)
        /\ o = [data |-> data, records |-> records, given |-> given, stop |-> stop,
                replies |-> replies, dsrSent |-> dsrSent, buttons |-> buttons, click |-> click]
  BY DEF IsObject
<1>d. PICK d : d = [o EXCEPT !.stop = TRUE]
  OBVIOUS
<1>2. d = [data |-> data, records |-> records, given |-> given, stop |-> TRUE,
           replies |-> replies, dsrSent |-> dsrSent, buttons |-> buttons, click |-> click]
  BY <1>1, <1>d
<1>3. IsObject(d)
  BY <1>1, <1>2 DEF IsObject
<1>4. /\ d.data = o.data /\ d.given = o.given /\ d.records = o.records
      /\ d.buttons = o.buttons /\ d.click = o.click
      /\ SameDsr(o, d)
  BY <1>1, <1>2 DEF SameDsr
<1> QED BY <1>d, <1>3, <1>4 DEF Stop

LEMMA ReplySet ==
  ASSUME NEW o, IsObject(o)
  PROVE  LET d == Replied(o) IN
         /\ IsObject(d) /\ d.data = o.data /\ d.given = o.given /\ d.records = o.records
         /\ d.buttons = o.buttons /\ d.click = o.click
         /\ d.dsrSent = FALSE /\ d.replies = o.replies + 1
<1>1. PICK data, records, given, stop, replies, dsrSent, buttons, click :
        /\ IsClick(click)
        /\ o = [data |-> data, records |-> records, given |-> given, stop |-> stop,
                replies |-> replies, dsrSent |-> dsrSent, buttons |-> buttons, click |-> click]
  BY DEF IsObject
<1>d. PICK d : d = [o EXCEPT !.dsrSent = FALSE, !.replies = @ + 1]
  OBVIOUS
<1>2. d = [data |-> data, records |-> records, given |-> given, stop |-> stop,
           replies |-> replies + 1, dsrSent |-> FALSE, buttons |-> buttons, click |-> click]
  BY <1>1, <1>d
<1>3. IsObject(d)
  BY <1>1, <1>2 DEF IsObject
<1>4. /\ d.data = o.data /\ d.given = o.given /\ d.records = o.records
      /\ d.buttons = o.buttons /\ d.click = o.click
      /\ d.dsrSent = FALSE /\ d.replies = o.replies + 1
  BY <1>1, <1>2
<1> QED BY <1>d, <1>3, <1>4 DEF Replied

LEMMA GivenSet ==
  ASSUME NEW o, IsObject(o), NEW g, NEW r
  PROVE  LET d == SetCollected(o, g, r) IN
         /\ IsObject(d) /\ d.data = o.data /\ d.given = g /\ d.records = r
         /\ d.buttons = o.buttons /\ d.click = o.click
         /\ SameDsr(o, d)
<1>1. PICK data, records, given, stop, replies, dsrSent, buttons, click :
        /\ IsClick(click)
        /\ o = [data |-> data, records |-> records, given |-> given, stop |-> stop,
                replies |-> replies, dsrSent |-> dsrSent, buttons |-> buttons, click |-> click]
  BY DEF IsObject
<1>d. PICK d : d = [o EXCEPT !.given = g, !.records = r]
  OBVIOUS
<1>2. d = [data |-> data, records |-> r, given |-> g, stop |-> stop,
           replies |-> replies, dsrSent |-> dsrSent, buttons |-> buttons, click |-> click]
  BY <1>1, <1>d
<1>3. IsObject(d)
  BY <1>1, <1>2 DEF IsObject
<1>4. /\ d.data = o.data /\ d.given = g /\ d.records = r
      /\ d.buttons = o.buttons /\ d.click = o.click
      /\ SameDsr(o, d)
  BY <1>1, <1>2 DEF SameDsr
<1> QED BY <1>d, <1>3, <1>4 DEF SetCollected

LEMMA RecordsSet ==
  ASSUME NEW o, IsObject(o), NEW r
  PROVE  LET d == SetRecords(o, r) IN
         /\ IsObject(d) /\ d.data = o.data /\ d.given = o.given /\ d.records = r
         /\ d.buttons = o.buttons /\ d.click = o.click
         /\ SameDsr(o, d)
<1>1. PICK data, records, given, stop, replies, dsrSent, buttons, click :
        /\ IsClick(click)
        /\ o = [data |-> data, records |-> records, given |-> given, stop |-> stop,
                replies |-> replies, dsrSent |-> dsrSent, buttons |-> buttons, click |-> click]
  BY DEF IsObject
<1>d. PICK d : d = [o EXCEPT !.records = r]
  OBVIOUS
<1>2. d = [data |-> data, records |-> r, given |-> given, stop |-> stop,
           replies |-> replies, dsrSent |-> dsrSent, buttons |-> buttons, click |-> click]
  BY <1>1, <1>d
<1>3. IsObject(d)
  BY <1>1, <1>2 DEF IsObject
<1>4. /\ d.data = o.data /\ d.given = o.given /\ d.records = r
      /\ d.buttons = o.buttons /\ d.click = o.click
      /\ SameDsr(o, d)
  BY <1>1, <1>2 DEF SameDsr
<1> QED BY <1>d, <1>3, <1>4 DEF SetRecords

LEMMA OnlyGivenSet ==
  ASSUME NEW o, IsObject(o), NEW g
  PROVE  LET d == SetGiven(o, g) IN
         /\ IsObject(d) /\ d.data = o.data /\ d.given = g /\ d.records = o.records
         /\ d.buttons = o.buttons /\ d.click = o.click
         /\ SameDsr(o, d)
<1>1. PICK data, records, given, stop, replies, dsrSent, buttons, click :
        /\ IsClick(click)
        /\ o = [data |-> data, records |-> records, given |-> given, stop |-> stop,
                replies |-> replies, dsrSent |-> dsrSent, buttons |-> buttons, click |-> click]
  BY DEF IsObject
<1>d. PICK d : d = [o EXCEPT !.given = g]
  OBVIOUS
<1>2. d = [data |-> data, records |-> records, given |-> g, stop |-> stop,
           replies |-> replies, dsrSent |-> dsrSent, buttons |-> buttons, click |-> click]
  BY <1>1, <1>d
<1>3. IsObject(d)
  BY <1>1, <1>2 DEF IsObject
<1>4. /\ d.data = o.data /\ d.given = g /\ d.records = o.records
      /\ d.buttons = o.buttons /\ d.click = o.click
      /\ SameDsr(o, d)
  BY <1>1, <1>2 DEF SameDsr
<1> QED BY <1>d, <1>3, <1>4 DEF SetGiven

LEMMA MouseSet ==
  ASSUME NEW o, IsObject(o), NEW b, NEW k, IsClick(k)
  PROVE  LET d == SetMouse(o, b, k) IN
         /\ IsObject(d) /\ d.data = o.data /\ d.given = o.given /\ d.records = o.records
         /\ d.buttons = b /\ d.click = k
         /\ SameDsr(o, d)
<1>1. PICK data, records, given, stop, replies, dsrSent, buttons, click :
        /\ IsClick(click)
        /\ o = [data |-> data, records |-> records, given |-> given, stop |-> stop,
                replies |-> replies, dsrSent |-> dsrSent, buttons |-> buttons, click |-> click]
  BY DEF IsObject
<1>d. PICK d : d = [o EXCEPT !.buttons = b, !.click = k]
  OBVIOUS
<1>2. d = [data |-> data, records |-> records, given |-> given, stop |-> stop,
           replies |-> replies, dsrSent |-> dsrSent, buttons |-> b, click |-> k]
  BY <1>1, <1>d
<1>3. IsObject(d)
  BY <1>1, <1>2 DEF IsObject
<1>4. /\ d.data = o.data /\ d.given = o.given /\ d.records = o.records
      /\ d.buttons = b /\ d.click = k
      /\ SameDsr(o, d)
  BY <1>1, <1>2 DEF SameDsr
<1> QED BY <1>d, <1>3, <1>4 DEF SetMouse

LEMMA ButtonsSet ==
  ASSUME NEW o, IsObject(o), NEW b
  PROVE  LET d == SetButtons(o, b) IN
         /\ IsObject(d) /\ d.data = o.data /\ d.given = o.given /\ d.records = o.records
         /\ d.buttons = b /\ d.click = o.click
         /\ SameDsr(o, d)
<1>1. PICK data, records, given, stop, replies, dsrSent, buttons, click :
        /\ IsClick(click)
        /\ o = [data |-> data, records |-> records, given |-> given, stop |-> stop,
                replies |-> replies, dsrSent |-> dsrSent, buttons |-> buttons, click |-> click]
  BY DEF IsObject
<1>d. PICK d : d = [o EXCEPT !.buttons = b]
  OBVIOUS
<1>2. d = [data |-> data, records |-> records, given |-> given, stop |-> stop,
           replies |-> replies, dsrSent |-> dsrSent, buttons |-> b, click |-> click]
  BY <1>1, <1>d
<1>3. IsObject(d)
  BY <1>1, <1>2 DEF IsObject
<1>4. /\ d.data = o.data /\ d.given = o.given /\ d.records = o.records
      /\ d.buttons = b /\ d.click = o.click
      /\ SameDsr(o, d)
  BY <1>1, <1>2 DEF SameDsr
<1> QED BY <1>d, <1>3, <1>4 DEF SetButtons

(* One more record, or records of keys, after those collected.             *)
LEMMA Concatenated ==
  ASSUME NEW s, IsSequence(s), NEW t, IsSequence(t)
  PROVE  IsSequence(s \o t)
<1>1. PICK S : s \in Seq(S)
  BY DEF IsSequence
<1>2. PICK T : t \in Seq(T)
  BY DEF IsSequence
<1> DEFINE U == S \union T
<1>3. s \in Seq(U) /\ t \in Seq(U)
  BY <1>1, <1>2
<1> HIDE DEF U
<1>4. s \o t \in Seq(U)
  BY <1>3
<1> QED BY <1>4 DEF IsSequence

LEMMA OneSetOfThree ==
  ASSUME NEW s, IsSequence(s), NEW t, IsSequence(t), NEW u, IsSequence(u)
  PROVE  \E V : s \in Seq(V) /\ t \in Seq(V) /\ u \in Seq(V)
<1>1. PICK S : s \in Seq(S)
  BY DEF IsSequence
<1>2. PICK T : t \in Seq(T)
  BY DEF IsSequence
<1>3. PICK U : u \in Seq(U)
  BY DEF IsSequence
<1> DEFINE V == S \union T \union U
<1>4. s \in Seq(V) /\ t \in Seq(V) /\ u \in Seq(V)
  BY <1>1, <1>2, <1>3
<1> HIDE DEF V
<1> QED BY <1>4

LEMMA NothingAppended ==
  ASSUME NEW s, IsSequence(s)
  PROVE  s \o <<>> = s /\ IsSequence(<<>>)
<1>1. PICK S : s \in Seq(S)
  BY DEF IsSequence
<1>2. <<>> \in Seq(S)
  OBVIOUS
<1>3. s \o <<>> = s
  BY <1>1
<1> QED BY <1>2, <1>3 DEF IsSequence

LEMMA CutOff ==
  ASSUME NEW s, IsSequence(s), NEW n \in Nat
  PROVE  IsSequence(SubSeq(s, n + 1, Len(s)))
<1>1. PICK S : s \in Seq(S)
  BY DEF IsSequence
<1>2. SubSeq(s, n + 1, Len(s)) \in Seq(S)
  BY <1>1
<1> QED BY <1>2 DEF IsSequence

LEMMA KeysAreSequence ==
  ASSUME NEW t, AllKeys(t)
  PROVE  IsSequence(t)
BY DEF AllKeys, IsSequence

LEMMA KeysRead ==
  ASSUME NEW s, IsSequence(s), NEW t, AllKeys(t), IsSeen(console.seen),
         NEW buttons, NEW click, ReadsInv(Reads(s), buttons, click)
  PROVE  ReadsInv(Reads(s \o t), buttons, click)
<1>1. PICK S : s \in Seq(S)
  BY DEF IsSequence
<1>2. PICK C : t \in Seq(C) /\ \A x \in C : x.kind \in KeyKinds
  BY DEF AllKeys
<1> DEFINE U == S \union C
<1>3. s \in Seq(U) /\ t \in Seq(U) /\ \A i \in 1..Len(t) : t[i].kind \in KeyKinds
  BY <1>1, <1>2
<1> HIDE DEF U
<1> QED BY <1>3, ReadsKeys

LEMMA OneRead ==
  ASSUME NEW s, IsSequence(s), NEW r
  PROVE  Reads(s \o <<r>>) = ReadRecord(Reads(s), r) /\ IsSequence(s \o <<r>>)
<1>1. PICK S : s \in Seq(S)
  BY DEF IsSequence
<1> DEFINE U == S \union {r}
<1>2. s \in Seq(U) /\ r \in U
  BY <1>1
<1> HIDE DEF U
<1>3. s \o <<r>> = Append(s, r) /\ s \o <<r>> \in Seq(U)
  BY <1>2
<1>4. Reads(Append(s, r)) = ReadRecord(Reads(s), r)
  BY <1>2, ReadsOneMore
<1> QED BY <1>3, <1>4 DEF IsSequence

(* What leaves the object's records, or adds records of keys to them.      *)
LEMMA ScanKept ==
  ASSUME NEW o, ScanInv(o), NEW d, IsObject(d), IsSequence(d.data),
         d.given = o.given, d.records = o.records, d.buttons = o.buttons, d.click = o.click
  PROVE  ScanInv(d)
BY DEF ScanInv

LEMMA TakeKept ==
  ASSUME NEW o, ScanInv(o), NEW n \in Nat
  PROVE  ScanInv(Take(o, n))
<1>1. IsObject(o) /\ IsSequence(SubSeq(o.data, n + 1, Len(o.data)))
  BY CutOff DEF ScanInv
<1>2. Take(o, n) = SetData(o, SubSeq(o.data, n + 1, Len(o.data)))
  BY DEF Take, SetData
<1> QED BY <1>1, <1>2, DataSet, ScanKept

LEMMA StopKept ==
  ASSUME NEW o, ScanInv(o)
  PROVE  ScanInv(Stop(o))
BY StopSet, ScanKept DEF ScanInv

LEMMA ReplyKept ==
  ASSUME NEW o, ScanInv(o)
  PROVE  ScanInv(Replied(o))
BY ReplySet, ScanKept DEF ScanInv

LEMMA FlushKept ==
  ASSUME NEW o, ScanInv(o)
  PROVE  ScanInv(flushInputRecords(o)) /\ flushInputRecords(o).records = <<>>
<1> DEFINE d == flushInputRecords(o)
<1>1. d = SetCollected(o, o.given \o o.records, <<>>)
  BY DEF flushInputRecords, SetCollected
<1>2. /\ IsObject(d) /\ d.data = o.data /\ d.given = o.given \o o.records /\ d.records = <<>>
      /\ d.buttons = o.buttons /\ d.click = o.click
  <2>1. IsObject(o)
    BY DEF ScanInv
  <2> HIDE DEF d
  <2>2. PICK g, e : g = o.given \o o.records /\ e = <<>>
    OBVIOUS
  <2>3. d = SetCollected(o, g, e)
    BY <1>1, <2>2
  <2>4. /\ IsObject(d) /\ d.data = o.data /\ d.given = g /\ d.records = e
        /\ d.buttons = o.buttons /\ d.click = o.click
    BY <2>1, <2>3, GivenSet
  <2> QED BY <2>2, <2>4
<1>3. IsSequence(o.given) /\ IsSequence(o.records) /\ IsSequence(o.data)
  BY DEF ScanInv
<1>4. IsSequence(o.given \o o.records)
  BY <1>3, Concatenated
<1>5. (o.given \o o.records) \o <<>> = o.given \o o.records /\ IsSequence(<<>>)
  BY <1>4, NothingAppended
<1> HIDE DEF d
<1>6. ScanInv(d)
  BY <1>2, <1>3, <1>4, <1>5 DEF ScanInv
<1> QED BY <1>2, <1>6 DEF d

LEMMA PushKept ==
  ASSUME NEW o, ScanInv(o), NEW records, AllKeys(records), IsSeen(console.seen)
  PROVE  ScanInv(Push(o, records))
<1> DEFINE d == Push(o, records)
<1>1. /\ IsSequence(o.given) /\ IsSequence(o.records) /\ IsSequence(o.data) /\ IsObject(o)
      /\ IsSequence(records) /\ ReadsInv(Reads(o.given \o o.records), o.buttons, o.click)
  BY KeysAreSequence DEF ScanInv
<1>2. /\ IsSequence(o.given \o o.records) /\ IsSequence(o.records \o records)
      /\ o.given \o (o.records \o records) = (o.given \o o.records) \o records
  <2>1. IsSequence(o.given \o o.records)
    BY <1>1, Concatenated
  <2>2. IsSequence(o.records \o records)
    BY <1>1, Concatenated
  <2>3. o.given \o (o.records \o records) = (o.given \o o.records) \o records
    <3>1. PICK g, r : g = o.given /\ r = o.records
      OBVIOUS
    <3>2. PICK V : g \in Seq(V) /\ r \in Seq(V) /\ records \in Seq(V)
      BY <1>1, <3>1, OneSetOfThree
    <3>3. g \o (r \o records) = (g \o r) \o records
      BY <3>2
    <3> QED BY <3>1, <3>3
  <2> QED BY <2>1, <2>2, <2>3
<1>3. ReadsInv(Reads((o.given \o o.records) \o records), o.buttons, o.click)
  BY <1>1, <1>2, KeysRead
<1>4. d = SetRecords(o, o.records \o records)
  BY DEF Push, SetRecords
<1>5. /\ IsObject(d) /\ d.data = o.data /\ d.given = o.given /\ d.records = o.records \o records
      /\ d.buttons = o.buttons /\ d.click = o.click
  <2> HIDE DEF d
  <2> QED BY <1>1, <1>4, RecordsSet, Zenon
<1> HIDE DEF d
<1>6. ScanInv(d)
  BY <1>1, <1>2, <1>3, <1>5 DEF ScanInv
<1> QED BY <1>6 DEF d

LEMMA GiveNowKept ==
  ASSUME NEW o, ScanInv(o), NEW what, IsSeen(console.seen)
  PROVE  ScanInv(GiveNow(o, what))
<1> DEFINE f == flushInputRecords(o)
           m == [kind |-> "message", what |-> what]
           d == SetGiven(f, Append(f.given, m))
<1>1. ScanInv(f) /\ f.records = <<>>
  BY FlushKept
<1>2. m.kind \in KeyKinds
  BY DEF KeyKinds
<1> HIDE DEF f, m
<1>3. /\ IsObject(f) /\ IsSequence(f.given) /\ IsSequence(f.data)
      /\ ReadsInv(Reads(f.given), f.buttons, f.click)
  BY <1>1, NothingAppended DEF ScanInv
<1>4. AllKeys(<<m>>)
  BY <1>2, OneRecord
<1>5. ReadsInv(Reads(f.given \o <<m>>), f.buttons, f.click) /\ IsSequence(f.given \o <<m>>)
  BY <1>3, <1>4, KeysRead, KeysAreSequence, Concatenated
<1>6. f.given \o <<m>> = Append(f.given, m)
  <2>1. PICK S : f.given \in Seq(S)
    BY <1>3 DEF IsSequence
  <2> QED BY <2>1
<1>7. /\ IsObject(d) /\ d.data = f.data /\ d.given = f.given \o <<m>> /\ d.records = f.records
      /\ d.buttons = f.buttons /\ d.click = f.click
  BY <1>3, <1>6, OnlyGivenSet
<1>8. (f.given \o <<m>>) \o <<>> = f.given \o <<m>> /\ IsSequence(<<>>)
  BY <1>5, NothingAppended
<1> HIDE DEF d
<1>9. ScanInv(d)
  BY <1>1, <1>3, <1>5, <1>7, <1>8 DEF ScanInv
<1> QED BY <1>9 DEF d, f, m, GiveNow, SetGiven

LEMMA KeyPressKept ==
  ASSUME NEW o, ScanInv(o), NEW press, IsSeen(console.seen)
  PROVE  ScanInv(appendKeyPress(o, press))
<1>1. ScanInv(GiveNow(o, press.key))
  BY GiveNowKept
<1> DEFINE escape == "escapeInput" \in mode
           records == KeyRecords(press, escape)
<1>2. AllKeys(records)
  BY PressRecords
<1> HIDE DEF records
<1>3. ScanInv(Push(o, records))
  BY <1>2, PushKept
<1> QED BY <1>1, <1>3 DEF appendKeyPress, records

LEMMA CharKept ==
  ASSUME NEW o, ScanInv(o), NEW bytes, NEW altEscape, IsSeen(console.seen)
  PROVE  ScanInv(appendUtf8Char(o, bytes, altEscape))
<1> DEFINE char == decodeUtf8(bytes)
           scan == VkKeyScan(char)
           alt  == IF altEscape THEN {"Alt"} ELSE {}
           down == IF altEscape /\ "Ctrl" \in scan.held THEN NoChar ELSE char
           press == [key |-> scan.key, down |-> down, up |-> IF altEscape THEN NoChar ELSE down,
                     state |-> scan.held \union alt, vtChar |-> char, vtState |-> alt]
<1>1. appendUtf8Char(o, bytes, altEscape) =
        IF char = NoChar THEN o ELSE appendKeyPress(o, press)
  BY DEF appendUtf8Char
<1> HIDE DEF press, char
<1>2. ScanInv(appendKeyPress(o, press))
  BY KeyPressKept
<1> QED BY <1>1, <1>2

(* What MouseButton makes of the buttons and the click.                    *)
LEMMA MouseButtonIs ==
  ASSUME NEW o, IsObject(o), NEW record
  PROVE  LET d == MouseButton(o, record)
             button == record.flags
         IN  /\ IsObject(d) /\ d.data = o.data /\ d.given = o.given /\ d.records = o.records
             /\ button = "3" => d.buttons = {} /\ d.click = o.click
             /\ button # "3" /\ record.release =>
                  /\ d.buttons = o.buttons \ {button}
                  /\ d.click = o.click \/ d.click = NoClick
             /\ button # "3" /\ ~record.release /\ NewlyPressed(o, record) =>
                  /\ d.buttons = o.buttons \union {button}
                  /\ d.click = IF IsDoubleClick(o.click, record) THEN NoClick
                               ELSE [button |-> button, at |-> record.at, recent |-> TRUE]
             /\ button # "3" /\ ~record.release /\ ~NewlyPressed(o, record) =>
                  d.buttons = o.buttons /\ d.click = o.click
<1> DEFINE button == record.flags
           d == MouseButton(o, record)
           left == IF button = o.click.button THEN o.click ELSE NoClick
           next == IF IsDoubleClick(o.click, record) THEN NoClick
                   ELSE [button |-> button, at |-> record.at, recent |-> TRUE]
           less == o.buttons \ {button}
           more == o.buttons \union {button}
<1>1. d = IF button = "3" THEN SetButtons(o, {})
          ELSE IF record.release THEN SetMouse(o, less, left)
          ELSE IF NewlyPressed(o, record) THEN SetMouse(o, more, next) ELSE o
  BY DEF MouseButton, SetButtons, SetMouse
<1>2. /\ left = o.click \/ left = NoClick
      /\ IsClick(left) /\ IsClick(next)
  <2>1. IsClick(NoClick)
    BY DEF NoClick, IsClick
  <2>2. IsClick(o.click)
    BY DEF IsObject
  <2>3. IsClick([button |-> button, at |-> record.at, recent |-> TRUE])
    BY DEF IsClick
  <2> QED BY <2>1, <2>2, <2>3
<1> HIDE DEF d, left, next, less, more
<1>3. CASE button = "3"
  <2>1. d = SetButtons(o, {})
    BY <1>1, <1>3
  <2>2. PICK b : b = {}
    OBVIOUS
  <2>3. /\ IsObject(d) /\ d.data = o.data /\ d.given = o.given /\ d.records = o.records
        /\ d.buttons = b /\ d.click = o.click
    BY <2>1, <2>2, ButtonsSet
  <2> QED BY <1>3, <2>2, <2>3 DEF d
<1>4. CASE button # "3" /\ record.release
  <2>1. d = SetMouse(o, less, left)
    BY <1>1, <1>4
  <2>2. /\ IsObject(d) /\ d.data = o.data /\ d.given = o.given /\ d.records = o.records
        /\ d.buttons = less /\ d.click = left
    BY <1>2, <2>1, MouseSet
  <2> QED BY <1>2, <1>4, <2>2 DEF d, less
<1>5. CASE button # "3" /\ ~record.release /\ NewlyPressed(o, record)
  <2>1. d = SetMouse(o, more, next)
    BY <1>1, <1>5
  <2>2. /\ IsObject(d) /\ d.data = o.data /\ d.given = o.given /\ d.records = o.records
        /\ d.buttons = more /\ d.click = next
    BY <1>2, <2>1, MouseSet
  <2> QED BY <1>5, <2>2 DEF d, more, next
<1>6. CASE button # "3" /\ ~record.release /\ ~NewlyPressed(o, record)
  <2>1. d = o
    BY <1>1, <1>6
  <2> QED BY <1>6, <2>1 DEF d
<1> QED BY <1>3, <1>4, <1>5, <1>6

(* Without mouse input only the buttons and the click change, which no     *)
(* program is told of.                                                     *)
LEMMA MouseIgnored ==
  ASSUME NEW o, ScanInv(o), NEW d, IsObject(d), "mouseInput" \notin mode,
         d.data = o.data, d.given = o.given, d.records = o.records
  PROVE  ScanInv(d)
BY DEF ScanInv, ReadsInv, MouseSeen

(* A record of the mouse that tells the program what is true after it.     *)
LEMMA MousePushed ==
  ASSUME NEW o, ScanInv(o), NEW a, IsObject(a),
         a.data = o.data, a.given = o.given, a.records = o.records,
         NEW kind, kind \in {"mouse", "wheel"}, NEW at, NEW double,
         ReadsInv(See(Reads(o.given \o o.records), [kind |-> kind, what |-> at, held |-> a.buttons],
                      double),
                  a.buttons, a.click)
  PROVE  ScanInv(Push(a, <<[kind |-> kind, at |-> at, buttons |-> a.buttons, double |-> double]>>))
<1>r. PICK r : r = [kind |-> kind, at |-> at, buttons |-> a.buttons, double |-> double]
  OBVIOUS
<1> DEFINE d == Push(a, <<r>>)
           c == Reads(o.given \o o.records)
           event == [kind |-> kind, what |-> at, held |-> a.buttons]
<1>1. /\ IsSequence(o.given) /\ IsSequence(o.records) /\ IsSequence(o.data)
      /\ IsSequence(o.given \o o.records)
  BY Concatenated DEF ScanInv
<1>2. ReadRecord(c, r) = See(c, event, double)
  <2>1. /\ r.kind # "message" /\ r.kind \in {"mouse", "wheel"} /\ r.kind = kind /\ r.at = at
        /\ r.kind # "key" /\ r.buttons = a.buttons
    BY <1>r
  <2>2. r.double = double
    BY <1>r, Zenon
  <2> HIDE DEF c
  <2>3. ReadRecord(c, r) = See(c, [kind |-> r.kind, what |-> r.at, held |-> r.buttons], r.double)
    BY <2>1 DEF ReadRecord
  <2> QED BY <2>1, <2>2, <2>3
<1>3. Reads((o.given \o o.records) \o <<r>>) = See(c, event, double)
  BY <1>1, <1>2, OneRead
<1> HIDE DEF c, event
<1>4. IsSequence(o.records \o <<r>>)
  BY <1>1, OneRead
<1>5. o.given \o (o.records \o <<r>>) = (o.given \o o.records) \o <<r>>
  <2>1. PICK g, s, t : g = o.given /\ s = o.records /\ t = <<r>>
    OBVIOUS
  <2>2. IsSequence(t)
    <3>1. t \in Seq({r})
      BY <2>1
    <3> QED BY <3>1 DEF IsSequence
  <2>3. PICK V : g \in Seq(V) /\ s \in Seq(V) /\ t \in Seq(V)
    BY <1>1, <2>1, <2>2, OneSetOfThree
  <2>4. g \o (s \o t) = (g \o s) \o t
    BY <2>3
  <2> QED BY <2>1, <2>4
<1>6. d = SetRecords(a, a.records \o <<r>>)
  BY DEF Push, SetRecords
<1>7. /\ IsObject(d) /\ d.data = a.data /\ d.given = a.given /\ d.records = a.records \o <<r>>
      /\ d.buttons = a.buttons /\ d.click = a.click
  <2> HIDE DEF d
  <2> QED BY <1>6, RecordsSet, Zenon
<1> HIDE DEF d
<1>8. ReadsInv(See(c, event, double), a.buttons, a.click)
  BY DEF c, event
<1>9. ScanInv(d)
  BY <1>1, <1>3, <1>4, <1>5, <1>7, <1>8 DEF ScanInv
<1> QED BY <1>r, <1>9 DEF d

LEMMA MouseKept ==
  ASSUME NEW o, ScanInv(o), NEW record, IsSeen(console.seen)
  PROVE  ScanInv(scanMouseInput(o, record))
<1> DEFINE wheel == record.flags = "64"
           m == MouseButton(o, record)
           after == IF wheel THEN o ELSE m
           kind == IF wheel THEN "wheel" ELSE "mouse"
           double == NewlyPressed(o, record) /\ IsDoubleClick(o.click, record)
           event == [kind |-> kind, what |-> record.at, held |-> after.buttons]
           c == Reads(o.given \o o.records)
           button == record.flags
<1>1. scanMouseInput(o, record) =
        IF "mouseInput" \in mode
        THEN Push(after, <<[kind |-> kind, at |-> record.at, buttons |-> after.buttons,
                            double |-> double]>>)
        ELSE after
  BY DEF scanMouseInput
<1>2. IsObject(o) /\ ReadsInv(c, o.buttons, o.click)
  BY DEF ScanInv
<1>3. /\ IsObject(m) /\ m.data = o.data /\ m.given = o.given /\ m.records = o.records
      /\ button = "3" => m.buttons = {} /\ m.click = o.click
      /\ button # "3" /\ record.release =>
           /\ m.buttons = o.buttons \ {button}
           /\ m.click = o.click \/ m.click = NoClick
      /\ button # "3" /\ ~record.release /\ NewlyPressed(o, record) =>
           /\ m.buttons = o.buttons \union {button}
           /\ m.click = IF IsDoubleClick(o.click, record) THEN NoClick
                        ELSE [button |-> button, at |-> record.at, recent |-> TRUE]
      /\ button # "3" /\ ~record.release /\ ~NewlyPressed(o, record) =>
           m.buttons = o.buttons /\ m.click = o.click
  BY <1>2, MouseButtonIs
<1> HIDE DEF m
<1>4. IsObject(after) /\ after.data = o.data /\ after.given = o.given /\ after.records = o.records
  BY <1>2, <1>3
<1>5. kind \in {"mouse", "wheel"} /\ (wheel => kind = "wheel") /\ (~wheel => kind = "mouse")
  OBVIOUS
<1>6. CASE "mouseInput" \notin mode
  <2>1. scanMouseInput(o, record) = after
    BY <1>1, <1>6
  <2> HIDE DEF after
  <2> QED BY <1>4, <1>6, <2>1, MouseIgnored
<1>7. CASE "mouseInput" \in mode
  <2>1. ReadsInv(See(c, event, double), after.buttons, after.click)
    <3>1. /\ event.kind = kind /\ event.kind # "key" /\ event.what = record.at
          /\ event.held = after.buttons
      BY <1>5
    <3>2. ASSUME ~NewlyPressed(o, record),
                 kind = "mouse" => after.buttons \subseteq o.buttons,
                 after.click.recent => after.click = o.click
          PROVE  ReadsInv(See(c, event, double), after.buttons, after.click)
      <4>1. double = FALSE
        BY <3>2
      <4> HIDE DEF c, event, double, after, kind
      <4>2. ReadsInv(See(c, event, FALSE), event.held, after.click)
        BY <1>2, <1>7, <3>1, <3>2, NotPressed
      <4> QED BY <3>1, <4>1, <4>2
    <3>3. NoClick.recent = FALSE
      BY DEF NoClick
    <3>4. CASE wheel
      <4>1. after = o /\ kind = "wheel" /\ ~NewlyPressed(o, record)
        BY <3>4 DEF NewlyPressed
      <4> HIDE DEF after, kind
      <4> QED BY <3>2, <4>1
    <3>5. CASE ~wheel /\ button = "3"
      <4>1. after = m /\ ~NewlyPressed(o, record)
        BY <3>5 DEF NewlyPressed
      <4> HIDE DEF after, event
      <4> QED BY <1>3, <3>2, <3>5, <4>1
    <3>6. CASE ~wheel /\ button # "3" /\ record.release
      <4>1. after = m /\ ~NewlyPressed(o, record)
        BY <3>6 DEF NewlyPressed
      <4> HIDE DEF after, event
      <4> QED BY <1>3, <3>2, <3>3, <3>6, <4>1
    <3>7. CASE ~wheel /\ button # "3" /\ ~record.release /\ ~NewlyPressed(o, record)
      <4>1. after = m
        BY <3>7
      <4> HIDE DEF after, event
      <4> QED BY <1>3, <3>2, <3>7, <4>1
    <3>8. CASE ~wheel /\ button # "3" /\ ~record.release /\ NewlyPressed(o, record)
      <4>1. after = m /\ kind = "mouse" /\ button \notin o.buttons
        BY <3>8 DEF NewlyPressed
      <4>2. event = [kind |-> "mouse", what |-> record.at, held |-> o.buttons \union {record.flags}]
        BY <1>3, <3>8, <4>1
      <4>3. double = IsDoubleClick(o.click, record)
        BY <3>8 DEF IsDoubleClick
      <4> DEFINE next == IF double THEN NoClick
                         ELSE [button |-> record.flags, at |-> record.at, recent |-> TRUE]
      <4>4. after.click = next
        BY <1>3, <3>8, <4>1, <4>3
      <4> HIDE DEF c, event, double, after
      <4>5. ReadsInv(See(c, event, double), event.held, next)
        BY <1>2, <1>7, <4>1, <4>2, <4>3, Pressed
      <4> HIDE DEF next
      <4> QED BY <3>1, <4>4, <4>5
    <3> QED BY <3>4, <3>5, <3>6, <3>7, <3>8
  <2> HIDE DEF after, kind, double
  <2>2. ScanInv(Push(after, <<[kind |-> kind, at |-> record.at, buttons |-> after.buttons,
                               double |-> double]>>))
    BY <1>4, <1>5, <2>1, MousePushed
  <2> QED BY <1>1, <1>7, <2>2 DEF after, kind, double
<1> QED BY <1>6, <1>7

----------------------------------------------------------------------------
(***************************************************************************)
(* The scan: what a step of it takes are so many bytes.                    *)
(***************************************************************************)
LEMMA PatternLengths ==
  ASSUME NEW input
  PROVE  /\ matchPattern(DsrPattern, input) \in Int
         /\ matchPattern(Mouse1006Pattern, input) \in Int
         /\ matchPattern(Mouse1015Pattern, input) \in Int
         /\ matchPattern(MouseDefaultPattern, input) \in Int
<1>1. ASSUME NEW pattern, Len(pattern) \in Int
      PROVE  matchPattern(pattern, input) \in Int
  <2> DEFINE e == \E i \in DOMAIN pattern \intersect DOMAIN input : input[i] \notin pattern[i]
             n == Len(pattern)
             less == Len(input) < n
  <2>1. matchPattern(pattern, input) = IF e THEN 0 ELSE IF less THEN Incomplete ELSE n
    BY DEF matchPattern
  <2>2. n \in Int /\ Incomplete \in Int
    BY <1>1 DEF Incomplete
  <2> HIDE DEF e, n, less
  <2> QED BY <2>1, <2>2
<1>2. Len(DsrPattern) \in Int
  BY DEF DsrPattern
<1>3. Len(Mouse1006Pattern) \in Int
  BY DEF Mouse1006Pattern
<1>4. Len(Mouse1015Pattern) \in Int
  BY DEF Mouse1015Pattern
<1>5. Len(MouseDefaultPattern) \in Int
  BY DEF MouseDefaultPattern
<1> QED BY <1>1, <1>2, <1>3, <1>4, <1>5

LEMMA MouseLength ==
  ASSUME NEW input
  PROVE  matchMouseRecord(input) \in Int
<1> DEFINE a == matchPattern(Mouse1006Pattern, input)
           b == matchPattern(Mouse1015Pattern, input)
           c == matchPattern(MouseDefaultPattern, input)
           lens == <<a, b, c>>
           found == {i \in DOMAIN lens : lens[i] # 0}
<1>1. a \in Int /\ b \in Int /\ c \in Int
  BY PatternLengths
<1>2. matchMouseRecord(input) = IF found = {} THEN 0 ELSE lens[Min(found)]
  BY DEF matchMouseRecord
<1> HIDE DEF a, b, c
<1>3. DOMAIN lens = {1, 2, 3} /\ \A i \in {1, 2, 3} : lens[i] \in Int
  BY <1>1
<1>4. found \in SUBSET {1, 2, 3}
  BY <1>3
<1> HIDE DEF lens, found
<1>5. found # {} => Min(found) \in {1, 2, 3}
  BY <1>4, MinOfThree
<1> QED BY <1>2, <1>3, <1>5

LEMMA CharLength ==
  ASSUME NEW byte
  PROVE  utf8CharLength(byte) \in Nat
<1>1. byte = "e'1" => utf8CharLength(byte) = 2
  BY DEF utf8CharLength
<1>2. byte = "clef1" => utf8CharLength(byte) = 4
  BY DEF utf8CharLength
<1>3. byte \in {"e'2", "clef2", "clef3", "clef4"} => utf8CharLength(byte) = 0
  BY DEF utf8CharLength
<1>4. byte \notin {"e'1", "clef1", "e'2", "clef2", "clef3", "clef4"} => utf8CharLength(byte) = 1
  BY DEF utf8CharLength
<1> QED BY <1>1, <1>2, <1>3, <1>4

\* A key that was found is one of the input's beginnings.
LEMMA KeyLength ==
  ASSUME NEW input, IsSequence(input), NEW isEof, NEW k \in lookupKey(input, isEof).matches
  PROVE  Len(k.bytes) \in Nat
<1> DEFINE path  == {n \in 0..Len(input) : SubSeq(input, 1, n) \in Nodes}
           found == {n \in path : KeysAt[SubSeq(input, 1, n)] # {}}
           matches == IF found = {} THEN {} ELSE KeysAt[SubSeq(input, 1, Max(found))]
           incomplete == ~isEof /\ input \in HaveChildren
<1>1. PICK C : input \in Seq(C)
  BY DEF IsSequence
<1>2. lookupKey(input, isEof).matches = matches
  <2>1. lookupKey(input, isEof) = [incomplete |-> incomplete, matches |-> matches]
    BY DEF lookupKey
  <2> HIDE DEF matches, incomplete
  <2> QED BY <2>1
<1>3. Len(input) \in Nat /\ found \in SUBSET (0..Len(input))
  BY <1>1
<1>4. found # {}
  BY <1>2
<1>5. Max(found) \in found
  <2> HIDE DEF found
  <2> QED BY <1>3, <1>4, MaxOfInterval
<1>6. PICK m : m = Max(found)
  OBVIOUS
<1>7. m \in 0..Len(input) /\ SubSeq(input, 1, m) \in Nodes /\ k \in KeysAt[SubSeq(input, 1, m)]
  BY <1>2, <1>4, <1>5, <1>6
<1>8. PICK s : s = SubSeq(input, 1, m)
  OBVIOUS
<1>9. k.bytes = s
  BY <1>7, <1>8 DEF KeysAt
<1>10. Len(s) \in Nat
  BY <1>1, <1>7, <1>8
<1> QED BY <1>9, <1>10

LEMMA ScanInputKept ==
  ASSUME NEW o, ScanInv(o), NEW isEof, IsSeen(console.seen)
  PROVE  ScanInv(scanInput(o, isEof))
<1> DEFINE input   == o.data
           dsr     == matchPattern(DsrPattern, input)
           mouse   == matchMouseRecord(input)
           key     == lookupKey(input, isEof)
           escaped == Head(input) = "ESC" /\ Len(input) >= 2 /\ input[2] # "ESC"
           altLen  == IF escaped THEN utf8CharLength(input[2]) ELSE 0
           len     == utf8CharLength(Head(input))
           ctrlC   == Head(input) = "^C" /\ "processedInput" \in mode
           k       == CHOOSE l \in key.matches : TRUE
           report  == MouseRecord(SubSeq(input, 1, mouse))
           wait    == IncompleteReport(dsr, isEof)
           wait2   == IncompleteReport(mouse, isEof) \/ key.incomplete
           short   == 1 + altLen > Len(input)
           short2  == len > Len(input)
           altChar == SubSeq(input, 2, 1 + altLen)
           char    == SubSeq(input, 1, len)
           press   == MapKey(k)
<1>1. scanInput(o, isEof) =
        IF ctrlC THEN Take(GiveNow(o, "^C"), 1)
        ELSE IF dsr > 0 THEN Take(Replied(o), dsr)
        ELSE IF wait THEN Stop(o)
        ELSE IF mouse > 0 THEN Take(scanMouseInput(o, report), mouse)
        ELSE IF wait2 THEN Stop(o)
        ELSE IF key.matches # {} THEN Take(appendKeyPress(o, press), Len(k.bytes))
        ELSE IF altLen > 0
             THEN IF short THEN Stop(o)
                  ELSE Take(appendUtf8Char(o, altChar, TRUE), 1 + altLen)
        ELSE IF len = 0 THEN Take(o, 1)
        ELSE IF short2 THEN Stop(o)
        ELSE Take(appendUtf8Char(o, char, FALSE), len)
  BY DEF scanInput, Replied
<1>2. /\ dsr \in Int /\ mouse \in Int /\ altLen \in Nat /\ len \in Nat
      /\ key.matches # {} => Len(k.bytes) \in Nat
  <2>1. dsr \in Int /\ mouse \in Int
    BY PatternLengths, MouseLength
  <2>2. altLen \in Nat /\ len \in Nat
    BY CharLength
  <2>3. key.matches # {} => Len(k.bytes) \in Nat
    <3>1. IsSequence(input)
      BY DEF ScanInv
    <3>2. key.matches # {} => k \in key.matches
      <4> DEFINE M == key.matches
      <4> HIDE DEF M
      <4>1. M # {} => (CHOOSE l \in M : TRUE) \in M
        OBVIOUS
      <4> QED BY <4>1 DEF M
    <3> HIDE DEF input, k
    <3> QED BY <3>1, <3>2, KeyLength
  <2> QED BY <2>1, <2>2, <2>3
<1> HIDE DEF dsr, mouse, altLen, len, k, ctrlC, report, wait, wait2, short, short2, altChar,
             char, press, key
<1>3. ScanInv(Take(GiveNow(o, "^C"), 1))
  BY GiveNowKept, TakeKept
<1>4. dsr > 0 => ScanInv(Take(Replied(o), dsr))
  <2>1. ScanInv(Replied(o))
    BY ReplyKept
  <2> QED BY <1>2, <2>1, TakeKept
<1>5. ScanInv(Stop(o))
  BY StopKept
<1>6. mouse > 0 => ScanInv(Take(scanMouseInput(o, report), mouse))
  BY <1>2, MouseKept, TakeKept
<1>7. key.matches # {} => ScanInv(Take(appendKeyPress(o, press), Len(k.bytes)))
  BY <1>2, KeyPressKept, TakeKept
<1>8. ScanInv(Take(appendUtf8Char(o, altChar, TRUE), 1 + altLen))
  <2>1. 1 + altLen \in Nat
    BY <1>2
  <2>2. ScanInv(appendUtf8Char(o, altChar, TRUE))
    BY CharKept
  <2> QED BY <2>1, <2>2, TakeKept
<1>9. ScanInv(Take(appendUtf8Char(o, char, FALSE), len)) /\ ScanInv(Take(o, 1))
  BY <1>2, CharKept, TakeKept
<1> QED BY <1>1, <1>3, <1>4, <1>5, <1>6, <1>7, <1>8, <1>9

----------------------------------------------------------------------------
(***************************************************************************)
(* doWrite scans as long as there is something to take.                    *)
(***************************************************************************)
\* f is the function of the definition of doWrite, up to step n.
DefinesScan(f, start, isEof, n) ==
  f = [i \in 0..n |->
        IF i = 0 THEN start
        ELSE CHOOSE next \in {IF o.stop \/ o.data = <<>> THEN o ELSE scanInput(o, isEof) :
                               o \in {f[i - 1]}} : TRUE]

LEMMA ScanExists ==
  ASSUME NEW start, NEW isEof, NEW n \in Nat
  PROVE  \E f : DefinesScan(f, start, isEof, n)
<1> DEFINE S == {k \in Nat : \E f : DefinesScan(f, start, isEof, k)}
           H(c) == CHOOSE next \in {IF o.stop \/ o.data = <<>> THEN o ELSE scanInput(o, isEof) :
                                     o \in {c}} : TRUE
<1>1. 0 \in S
  <2> DEFINE f == [i \in 0..0 |-> start]
  <2>1. f = [i \in 0..0 |-> IF i = 0 THEN start ELSE H(f[i - 1])]
    OBVIOUS
  <2> HIDE DEF f
  <2> QED BY <2>1 DEF DefinesScan
<1>2. ASSUME NEW k \in Nat, k \in S PROVE k + 1 \in S
  <2>1. PICK f : DefinesScan(f, start, isEof, k)
    BY <1>2
  <2> DEFINE g == [i \in 0..(k + 1) |-> IF i \in 0..k THEN f[i] ELSE H(f[k])]
  <2>2. f = [i \in 0..k |-> IF i = 0 THEN start ELSE H(f[i - 1])]
    BY <2>1 DEF DefinesScan
  <2> HIDE DEF H
  <2>3. \A i \in 0..k : i \in 0..(k + 1) /\ g[i] = f[i]
    OBVIOUS
  <2>4. g[k + 1] = H(f[k])
    OBVIOUS
  <2>5. ASSUME NEW i \in 0..(k + 1)
        PROVE  g[i] = IF i = 0 THEN start ELSE H(g[i - 1])
    <3>1. CASE i \in 0..k
      <4>1. g[i] = IF i = 0 THEN start ELSE H(f[i - 1])
        BY <2>2, <2>3, <3>1
      <4>2. i # 0 => i - 1 \in 0..k
        BY <3>1
      <4>3. i # 0 => g[i - 1] = f[i - 1]
        BY <2>3, <4>2
      <4> HIDE DEF g
      <4> QED BY <4>1, <4>3
    <3>2. CASE i \notin 0..k
      <4>1. i = k + 1 /\ i # 0 /\ i - 1 = k /\ k \in 0..k
        BY <3>2
      <4>2. g[i - 1] = f[k]
        BY <2>3, <4>1
      <4> HIDE DEF g
      <4> QED BY <2>4, <4>1, <4>2
    <3> QED BY <3>1, <3>2
  <2>6. g = [i \in 0..(k + 1) |-> g[i]]
    OBVIOUS
  <2> HIDE DEF g
  <2>7. g = [i \in 0..(k + 1) |-> IF i = 0 THEN start ELSE H(g[i - 1])]
    BY <2>5, <2>6
  <2>8. DefinesScan(g, start, isEof, k + 1)
    BY <2>7 DEF DefinesScan, H
  <2> QED BY <2>8
<1> HIDE DEF S
<1>3. n \in S
  BY <1>1, <1>2, SetInduction
<1> QED BY <1>3 DEF S

LEMMA DoWriteKeeps ==
  ASSUME NEW data, IsSequence(data), NEW isEof,
         IsClick(in.click), ReadsInv(console, in.buttons, in.click)
  PROVE  LET o == doWrite(data, isEof) IN
         /\ ScanInv(o) /\ o.records = <<>>
         /\ ReadsInv(Reads(o.given), o.buttons, o.click)
<1> DEFINE start == [data |-> data, records |-> <<>>, given |-> <<>>, stop |-> FALSE,
                     replies |-> 0, dsrSent |-> in.dsrSent, buttons |-> in.buttons,
                     click |-> in.click]
           n == Len(data)
           f == CHOOSE g : DefinesScan(g, start, isEof, n)
<1>1. n \in Nat
  BY DEF IsSequence
<1>2. IsSeen(console.seen)
  BY DEF ReadsInv, MouseSeen
<1>3. ScanInv(start)
  <2>1. IsObject(start)
    BY DEF IsObject
  <2>2. PICK e : e = <<>>
    OBVIOUS
  <2>3. /\ start.data = data /\ start.given = e /\ start.records = e
        /\ start.buttons = in.buttons /\ start.click = in.click
    BY <2>2
  <2>4. IsSequence(e) /\ e \o e = e
    <3>1. e \in Seq({})
      BY <2>2
    <3>2. IsSequence(e)
      BY <3>1 DEF IsSequence
    <3>3. e \o e = e
      BY <2>2, <3>2, NothingAppended
    <3> QED BY <3>2, <3>3
  <2>5. Reads(e) = console
    BY <2>2, ReadsNothing
  <2> HIDE DEF start
  <2> QED BY <2>1, <2>3, <2>4, <2>5 DEF ScanInv
<1>4. doWrite(data, isEof) = flushInputRecords(f[n])
  BY DEF doWrite, DefinesScan
<1> HIDE DEF start, n
<1>5. DefinesScan(f, start, isEof, n)
  BY <1>1, ScanExists, Zenon
<1> HIDE DEF f
<1> DEFINE S == {i \in 0..n : ScanInv(f[i])}
<1>6. 0 \in S
  <2>1. f[0] = start /\ 0 \in 0..n
    BY <1>1, <1>5 DEF DefinesScan
  <2> QED BY <1>3, <2>1
<1>7. ASSUME NEW i \in 1..n, i - 1 \in S PROVE i \in S
  <2>1. i \in 0..n /\ i # 0 /\ ScanInv(f[i - 1])
    BY <1>1, <1>7
  <2> DEFINE stopped == f[i - 1].stop \/ f[i - 1].data = <<>>
             next == IF stopped THEN f[i - 1] ELSE scanInput(f[i - 1], isEof)
  <2>2. f[i] = CHOOSE x \in {IF o.stop \/ o.data = <<>> THEN o ELSE scanInput(o, isEof) :
                              o \in {f[i - 1]}} : TRUE
    BY <1>5, <2>1 DEF DefinesScan
  <2>3. {IF o.stop \/ o.data = <<>> THEN o ELSE scanInput(o, isEof) : o \in {f[i - 1]}} = {next}
    OBVIOUS
  <2> HIDE DEF next
  <2>4. f[i] = next
    BY <2>2, <2>3
  <2>5. ScanInv(scanInput(f[i - 1], isEof))
    BY <1>2, <2>1, ScanInputKept
  <2>6. ScanInv(next)
    BY <2>1, <2>5 DEF next
  <2> QED BY <2>1, <2>4, <2>6
<1> HIDE DEF S
<1>8. ScanInv(f[n])
  <2>1. 0..n \subseteq S
    BY <1>1, <1>6, <1>7, IntervalInduction
  <2> QED BY <1>1, <2>1 DEF S
<1> DEFINE o == doWrite(data, isEof)
<1>9. ScanInv(o) /\ o.records = <<>>
  BY <1>4, <1>8, FlushKept
<1> HIDE DEF o
<1>10. ReadsInv(Reads(o.given), o.buttons, o.click)
  BY <1>9, NothingAppended DEF ScanInv
<1> QED BY <1>9, <1>10 DEF o

----------------------------------------------------------------------------
(***************************************************************************)
(* What is typed, and what the terminal sends, are sequences of bytes.     *)
(***************************************************************************)
\* Keys are typed without the symbol that ends a reply, F3 excepted, and without
\* the one that announces a report of the form 1006.
KeySymbol == Symbol \ {"R", "<"}

KeyBytes(bytes, key) == IsSequence(bytes) /\ (key # "F3" => bytes \in Seq(KeySymbol))

IsKey(k) ==
  \E bytes, key, char, state :
    /\ KeyBytes(bytes, key)
    /\ k = [bytes |-> bytes, key |-> key, char |-> char, state |-> state]

LEMMA KeyIs ==
  ASSUME NEW bytes, NEW key, KeyBytes(bytes, key), NEW char, NEW state
  PROVE  IsKey(Key(bytes, key, char, state))
BY DEF IsKey, Key

LEMMA KeySymbols ==
  {"ESC", "[", "O", "A", "Z", "~", ";", "1", "2", "3", "4", "DEL", "^C"} \subseteq KeySymbol
BY DEF KeySymbol, Symbol, Number

LEMMA KeyTuples ==
  ASSUME NEW S, NEW a \in S, NEW b \in S, NEW c \in S
  PROVE  <<>> \in Seq(S) /\ <<a>> \in Seq(S) /\ <<a, b>> \in Seq(S) /\ <<a, b, c>> \in Seq(S)
OBVIOUS

LEMMA MoreKeyBytes ==
  ASSUME NEW a \in Seq(KeySymbol), NEW b, NEW key, KeyBytes(b, key)
  PROVE  KeyBytes(a \o b, key)
<1>1. IsSequence(a) /\ IsSequence(b)
  BY DEF IsSequence, KeyBytes
<1>2. IsSequence(a \o b)
  BY <1>1, Concatenated
<1>3. b \in Seq(KeySymbol) => a \o b \in Seq(KeySymbol)
  <2>1. PICK S : S = KeySymbol
    OBVIOUS
  <2> QED BY <2>1
<1> QED BY <1>2, <1>3 DEF KeyBytes

LEMMA TupleSequences ==
  ASSUME NEW a, NEW b, NEW c, NEW d, NEW e, NEW f
  PROVE  /\ IsSequence(<<>>) /\ IsSequence(<<a>>) /\ IsSequence(<<a, b>>)
         /\ IsSequence(<<a, b, c>>) /\ IsSequence(<<a, b, c, d>>)
         /\ IsSequence(<<a, b, c, d, e, f>>)
<1> DEFINE S == {a, b, c, d, e, f}
<1>1. a \in S /\ b \in S /\ c \in S /\ d \in S /\ e \in S /\ f \in S
  OBVIOUS
<1> HIDE DEF S
<1>2. /\ <<>> \in Seq(S) /\ <<a>> \in Seq(S) /\ <<a, b>> \in Seq(S)
      /\ <<a, b, c>> \in Seq(S) /\ <<a, b, c, d>> \in Seq(S)
      /\ <<a, b, c, d, e, f>> \in Seq(S)
  BY <1>1
<1> QED BY <1>2 DEF IsSequence

LEMMA EncodingKeys ==
  ASSUME NEW e \in Encodings
  PROVE  /\ IsKey(e.press) /\ e.number \in Seq(KeySymbol) /\ e.prefix \in KeySymbol
         /\ e.press.key # "F3" => e.final \in KeySymbol
<1>1. <<>> \in Seq(KeySymbol) /\ <<"2">> \in Seq(KeySymbol)
  BY KeySymbols, KeyTuples
<1>2. PICK x, y : x = <<>> /\ y = <<"2">>
  OBVIOUS
<1>3. \A key : KeyBytes(x, key)
  BY <1>1, <1>2 DEF KeyBytes, IsSequence
<1>4. /\ IsKey(Key(x, "Up", NoChar, {})) /\ IsKey(Key(x, "F3", NoChar, {}))
      /\ IsKey(Key(x, "Tab", "HT", {"Shift"})) /\ IsKey(Key(x, "Insert", NoChar, {}))
  BY <1>3, KeyIs
<1>5. /\ e.number \in {x, y} /\ e.prefix \in {"[", "O"}
      /\ e.final = "R" => e.press.key = "F3"
      /\ e.final \in {"A", "R", "Z", "~"}
  BY <1>2 DEF Encodings, Encoding, Key
<1>6. e.press \in {Key(x, "Up", NoChar, {}), Key(x, "F3", NoChar, {}),
                   Key(x, "Tab", "HT", {"Shift"}), Key(x, "Insert", NoChar, {})}
  BY <1>2 DEF Encodings, Encoding
<1> QED BY <1>1, <1>2, <1>4, <1>5, <1>6, KeySymbols

LEMMA EntryKey ==
  ASSUME NEW k, IsKey(k), NEW b, KeyBytes(b, k.key), NEW s
  PROVE  /\ IsKey([k EXCEPT !.bytes = b, !.state = s]) /\ IsKey([k EXCEPT !.bytes = b])
         /\ [k EXCEPT !.bytes = b, !.state = s].key = k.key
<1>1. PICK bytes, key, char, state :
        k = [bytes |-> bytes, key |-> key, char |-> char, state |-> state]
  BY DEF IsKey
<1>2. PICK d, f : d = [k EXCEPT !.bytes = b, !.state = s] /\ f = [k EXCEPT !.bytes = b]
  OBVIOUS
<1>3. d = [bytes |-> b, key |-> key, char |-> char, state |-> s]
  BY <1>1, <1>2
<1>4. f = [bytes |-> b, key |-> key, char |-> char, state |-> state]
  BY <1>1, <1>2
<1>5. KeyBytes(b, key)
  BY <1>1
<1>6. IsKey(d) /\ IsKey(f) /\ d.key = k.key
  BY <1>1, <1>3, <1>4, <1>5 DEF IsKey
<1> QED BY <1>2, <1>6

LEMMA ExpandedKeys ==
  ASSUME NEW e \in Encodings, NEW extra, NEW k \in expandEncodingAfterAltPrefix(e, extra)
  PROVE  IsKey(k)
<1> DEFINE more == useEnhancedForVirtualKey(e.press.key)
           entry(bytes, state) ==
             [e.press EXCEPT !.bytes = <<"ESC", e.prefix>> \o bytes,
                             !.state = @ \union state \union extra \union more]
           number == IF e.number = <<>> THEN <<"1">> ELSE e.number
           bare == e.number \o <<e.final>>
           mod(m) == <<Digits[m], e.final>>
           semi(m) == number \o <<";", Digits[m], e.final>>
<1>1. \/ k = entry(bare, {})
      \/ \E m \in 2..4 : k = entry(mod(m), keyStateForMod(m))
      \/ \E m \in 2..4 : k = entry(semi(m), keyStateForMod(m))
  <2> DEFINE A == {entry(bare, {})}
             B == {entry(mod(m), keyStateForMod(m)) : m \in 2..4}
             C == {entry(semi(m), keyStateForMod(m)) : m \in 2..4}
  <2>1. k \in (IF "bare" \in e.modifiers THEN A ELSE {}) \union
              (IF "bareMod" \in e.modifiers THEN B ELSE {}) \union
              (IF "semiMod" \in e.modifiers THEN C ELSE {})
    BY DEF expandEncodingAfterAltPrefix
  <2> HIDE DEF A, B, C
  <2>2. k \in A \/ k \in B \/ k \in C
    BY <2>1
  <2> HIDE DEF entry, mod, semi, bare
  <2> QED BY <2>2 DEF A, B, C
<1>2. /\ IsKey(e.press) /\ e.number \in Seq(KeySymbol) /\ e.prefix \in KeySymbol
      /\ e.press.key # "F3" => e.final \in KeySymbol
  BY EncodingKeys
<1>3. PICK key : key = e.press.key
  OBVIOUS
<1>4. /\ KeyBytes(bare, key)
      /\ \A m \in 2..4 : KeyBytes(mod(m), key) /\ KeyBytes(semi(m), key)
  <2>1. number \in Seq(KeySymbol)
    BY <1>2, KeySymbols, KeyTuples
  <2> HIDE DEF number
  <2>2. KeyBytes(<<e.final>>, key)
    <3>1. IsSequence(<<e.final>>)
      BY TupleSequences
    <3> QED BY <1>2, <1>3, <3>1, KeyTuples DEF KeyBytes
  <2>3. KeyBytes(bare, key)
    BY <1>2, <2>2, MoreKeyBytes
  <2>4. ASSUME NEW m \in 2..4 PROVE KeyBytes(mod(m), key) /\ KeyBytes(semi(m), key)
    <3>1. Digits[m] \in KeySymbol
      <4>1. m = 2 \/ m = 3 \/ m = 4
        OBVIOUS
      <4>2. Digits[2] = "2" /\ Digits[3] = "3" /\ Digits[4] = "4"
        BY DEF Digits
      <4> QED BY <4>1, <4>2, KeySymbols
    <3>2. IsSequence(mod(m)) /\ IsSequence(<<";", Digits[m], e.final>>)
      BY TupleSequences
    <3>3. KeyBytes(mod(m), key)
      BY <1>2, <1>3, <3>1, <3>2, KeyTuples DEF KeyBytes
    <3>4. KeyBytes(<<";", Digits[m], e.final>>, key)
      BY <1>2, <1>3, <3>1, <3>2, KeySymbols, KeyTuples DEF KeyBytes
    <3> QED BY <2>1, <3>3, <3>4, MoreKeyBytes
  <2> QED BY <2>3, <2>4
<1> HIDE DEF bare, mod, semi
<1>5. ASSUME NEW b, KeyBytes(b, key), NEW s
      PROVE  IsKey(entry(b, s))
  <2>1. <<"ESC", e.prefix>> \in Seq(KeySymbol)
    BY <1>2, KeySymbols, KeyTuples
  <2>2. KeyBytes(<<"ESC", e.prefix>> \o b, e.press.key)
    BY <1>3, <1>5, <2>1, MoreKeyBytes
  <2> QED BY <1>2, <2>2, EntryKey
<1> HIDE DEF entry
<1> QED BY <1>1, <1>4, <1>5

LEMMA MapKeys ==
  ASSUME NEW k \in InputMap
  PROVE  IsKey(k)
<1>1. CASE k \in SimpleEntries
  <2>1. /\ <<"DEL">> \in Seq(KeySymbol) /\ <<"ESC", "DEL">> \in Seq(KeySymbol)
        /\ <<"^C">> \in Seq(KeySymbol)
    BY KeySymbols, KeyTuples
  <2>2. /\ KeyBytes(<<"DEL">>, "Back") /\ KeyBytes(<<"ESC", "DEL">>, "Back")
        /\ KeyBytes(<<"^C">>, "C")
    BY <2>1 DEF KeyBytes, IsSequence
  <2>3. /\ IsKey(Key(<<"DEL">>, "Back", "BS", {}))
        /\ IsKey(Key(<<"ESC", "DEL">>, "Back", "BS", {"Alt"}))
        /\ IsKey(Key(<<"^C">>, "C", "^C", {"Ctrl"}))
    BY <2>2, KeyIs
  <2> QED BY <1>1, <2>3 DEF SimpleEntries
<1>2. ASSUME NEW e \in Encodings, k \in expandEncoding(e)
      PROVE  IsKey(k)
  <2>1. \/ k \in expandEncodingAfterAltPrefix(e, {})
        \/ \E l \in expandEncodingAfterAltPrefix(e, {"Alt"}) :
             k = [l EXCEPT !.bytes = <<"ESC">> \o l.bytes]
    BY <1>2 DEF expandEncoding
  <2>2. CASE k \in expandEncodingAfterAltPrefix(e, {})
    BY <2>2, ExpandedKeys
  <2>3. ASSUME NEW l \in expandEncodingAfterAltPrefix(e, {"Alt"}),
               k = [l EXCEPT !.bytes = <<"ESC">> \o l.bytes]
        PROVE  IsKey(k)
    <3>1. IsKey(l)
      BY ExpandedKeys
    <3>2. KeyBytes(<<"ESC">> \o l.bytes, l.key)
      <4>1. KeyBytes(l.bytes, l.key)
        BY <3>1 DEF IsKey
      <4>2. <<"ESC">> \in Seq(KeySymbol)
        BY KeySymbols, KeyTuples
      <4> QED BY <4>1, <4>2, MoreKeyBytes
    <3> QED BY <2>3, <3>1, <3>2, EntryKey
  <2> QED BY <2>1, <2>2, <2>3
<1> QED BY <1>1, <1>2 DEF InputMap

LEMMA ReportBytes ==
  ASSUME NEW at, NEW held, NEW k \in MouseReports(at, held)
  PROVE  IsSequence(k.bytes)
<1>1. ASSUME NEW flags, NEW end
      PROVE  IsSequence(Report1006(flags, at, end)) /\ IsSequence(Report1015(flags, at))
  <2> DEFINE x == at[1]
             y == at[2]
  <2>1. PICK a, b, c, d : a = "ESC" /\ b = "[" /\ c = "<" /\ d = ";"
    OBVIOUS
  <2>2. PICK m : m = "M"
    OBVIOUS
  <2> DEFINE S == {a, b, c, d, m, x, y, flags, end}
  <2>3. {a, b, c, d, m, x, y, flags, end} \subseteq S
    OBVIOUS
  <2> HIDE DEF S, x, y
  <2>4. /\ <<a, b, c, flags, d, x, d, y, end>> \in Seq(S)
        /\ <<a, b, flags, d, x, d, y, m>> \in Seq(S)
    BY <2>3
  <2> QED BY <2>1, <2>2, <2>4 DEF IsSequence, Report1006, Report1015, x, y
<1>2. k.bytes \in {Report1006(b, at, e) : b \in {"0", "2", "64"} \union held, e \in {"M", "m"}}
                   \union {Report1015(b, at) : b \in {"32", "35"}}
  <2>1. CASE "sgrMouse" \in mode
    <3>1. \/ \E b \in {"0", "2"} \ held :
               k = Report(Report1006(b, at, "M"), "mouse", at, held \union {b})
          \/ \E b \in held : k = Report(Report1006(b, at, "m"), "mouse", at, held \ {b})
          \/ k = Report(Report1006("64", at, "M"), "wheel", at, held)
      BY <2>1 DEF MouseReports
    <3> QED BY <3>1 DEF Report
  <2>2. CASE "sgrMouse" \notin mode
    <3>1. \/ k = Report(Report1015("32", at), "mouse", at, {"0"})
          \/ k = Report(Report1015("35", at), "mouse", at, {})
      BY <2>2 DEF MouseReports
    <3> QED BY <3>1 DEF Report
  <2> QED BY <2>1, <2>2
<1> QED BY <1>1, <1>2

LEMMA InputBytes ==
  ASSUME NEW k \in UserKeys \union UNION {MouseReports(<<x, "1">>, Held) : x \in Columns}
  PROVE  IsSequence(k.bytes)
<1>1. CASE k \in UserKeys
  <2>1. \/ \E l \in InputMap : k = [bytes |-> l.bytes, event |-> Meant(l)]
        \/ k \in {Typed(<<"a">>, "a", {}), Typed(<<"ESC">>, "ESC", {}),
                  Typed(<<"e'1", "e'2">>, "e'", {}),
                  Typed(<<"clef1", "clef2", "clef3", "clef4">>, "clef", {}),
                  Typed(<<"ESC", "a">>, "a", {"Alt"}),
                  Typed(<<"ESC", "e'1", "e'2">>, "e'", {"Alt"}),
                  Typed(<<"ESC", "[">>, "[", {"Alt"}), Typed(<<"ESC", "O">>, "O", {"Alt"})}
    <3> HIDE DEF InputMap
    <3> QED BY <1>1 DEF UserKeys
  <2>2. ASSUME NEW l \in InputMap, k = [bytes |-> l.bytes, event |-> Meant(l)]
        PROVE  IsSequence(k.bytes)
    <3>1. IsSequence(l.bytes)
      BY MapKeys DEF IsKey, KeyBytes
    <3> QED BY <2>2, <3>1
  <2>3. CASE k \in {Typed(<<"a">>, "a", {}), Typed(<<"ESC">>, "ESC", {}),
                    Typed(<<"e'1", "e'2">>, "e'", {}),
                    Typed(<<"clef1", "clef2", "clef3", "clef4">>, "clef", {}),
                    Typed(<<"ESC", "a">>, "a", {"Alt"}),
                    Typed(<<"ESC", "e'1", "e'2">>, "e'", {"Alt"}),
                    Typed(<<"ESC", "[">>, "[", {"Alt"}), Typed(<<"ESC", "O">>, "O", {"Alt"})}
    <3>1. /\ IsSequence(<<"a">>) /\ IsSequence(<<"ESC">>) /\ IsSequence(<<"e'1", "e'2">>)
          /\ IsSequence(<<"clef1", "clef2", "clef3", "clef4">>)
          /\ IsSequence(<<"ESC", "a">>) /\ IsSequence(<<"ESC", "e'1", "e'2">>)
          /\ IsSequence(<<"ESC", "[">>) /\ IsSequence(<<"ESC", "O">>)
      BY TupleSequences
    <3>2. \A b, w, h : Typed(b, w, h).bytes = b
      BY DEF Typed
    <3> QED BY <2>3, <3>1, <3>2
  <2> QED BY <2>1, <2>2, <2>3
<1>2. CASE k \in UNION {MouseReports(<<x, "1">>, Held) : x \in Columns}
  BY <1>2, ReportBytes
<1> QED BY <1>1, <1>2

LEMMA FunctionIsSequence ==
  ASSUME NEW n \in Nat, NEW f, f = [i \in 1..n |-> f[i]]
  PROVE  IsSequence(f)
<1> DEFINE S == {f[i] : i \in 1..n}
<1>1. \A i \in 1..n : f[i] \in S
  OBVIOUS
<1> HIDE DEF S
<1>2. f \in Seq(S)
  BY <1>1
<1> QED BY <1>2 DEF IsSequence

LEMMA SentBytes ==
  ASSUME NEW bytes, IsSequence(bytes), IsSequence(wire), Send(bytes)
  PROVE  IsSequence(wire')
<1>1. Len(bytes) \in Nat /\ DOMAIN bytes = 1..Len(bytes)
  BY DEF IsSequence
<1> DEFINE n == Len(bytes)
           f == [i \in DOMAIN bytes |-> [byte |-> bytes[i], last |-> i = Len(bytes)]]
<1>2. f = [i \in 1..n |-> f[i]]
  BY <1>1
<1>3. wire' = wire \o f
  BY DEF Send
<1> HIDE DEF f, n
<1>4. IsSequence(f)
  BY <1>1, <1>2, FunctionIsSequence DEF n
<1> QED BY <1>3, <1>4, Concatenated

----------------------------------------------------------------------------
(***************************************************************************)
(* The invariant, and the theorem.                                         *)
(***************************************************************************)
IsMembers(m) ==
  \E dsrSent, late, buttons, click :
    /\ IsClick(click)
    /\ m = [dsrSent |-> dsrSent, late |-> late, buttons |-> buttons, click |-> click]

InputInv ==
  /\ IsSequence(byteQueue) /\ IsSequence(wire)
  /\ IsMembers(in) /\ IsConsole(console)
  /\ MouseSeen(console.seen, in.buttons, in.click)

LEMMA InputInvInit == InputInit => InputInv
<1> SUFFICES ASSUME InputInit PROVE InputInv
  OBVIOUS
<1>1. IsSequence(byteQueue) /\ IsSequence(wire)
  BY TupleSequences DEF InputInit
<1>2. IsMembers(in) /\ in.buttons = {} /\ in.click = NoClick
  <2>1. IsClick(NoClick)
    BY DEF NoClick, IsClick
  <2>2. in = [dsrSent |-> FALSE, late |-> FALSE, buttons |-> {}, click |-> NoClick]
    BY DEF InputInit
  <2> QED BY <2>1, <2>2 DEF IsMembers
<1>3. IsConsole(console) /\ console.seen = <<>>
  BY DEF InputInit, Unread, IsConsole
<1>4. PICK seen : seen = <<>>
  OBVIOUS
<1>5. IsSeen(seen) /\ Len(seen) = 0
  <2>1. PICK S : S = {}
    OBVIOUS
  <2>2. seen \in Seq(S)
    BY <1>4
  <2>3. \A e \in S : e = [event |-> e.event, double |-> e.double, old |-> e.old]
    BY <2>1
  <2> QED BY <1>4, <2>2, <2>3 DEF IsSeen
<1>6. MouseSeen(seen, {}, NoClick)
  <2>1. HeldBefore(seen, Len(seen) + 1) = {}
    <3>1. {j \in 1..((Len(seen) + 1) - 1) : seen[j].event.kind # "key"} = {}
      BY <1>5
    <3> QED BY <3>1 DEF HeldBefore
  <2>2. NoClick.recent = FALSE
    BY DEF NoClick
  <2> QED BY <1>5, <2>1, <2>2 DEF MouseSeen, ClickSeen
<1> QED BY <1>1, <1>2, <1>3, <1>4, <1>6 DEF InputInv

\* Nothing new has been seen when a call begins.
LEMMA NothingNew ==
  ASSUME InputInv
  PROVE  IsClick(in.click) /\ ReadsInv(console, in.buttons, in.click)
<1>1. IsClick(in.click)
  BY DEF InputInv, IsMembers
<1>2. Len(console.seen) \in Nat
  BY DEF InputInv, MouseSeen, IsSeen
<1>3. /\ Len(console.seen) >= Len(console.seen)
      /\ (Len(console.seen) + 1)..Len(console.seen) = {}
  BY <1>2
<1> QED BY <1>1, <1>3 DEF InputInv, ReadsInv

LEMMA WrittenKeeps ==
  ASSUME InputInv, NEW data, IsSequence(data), NEW isEof, NEW o, o = doWrite(data, isEof),
         NEW rest, NEW dsrSent, Written(o, rest, dsrSent), mode' = mode
  PROVE  /\ IsMembers(in)' /\ IsConsole(console)' /\ MouseSeen(console.seen, in.buttons, in.click)'
         /\ \A i \in DOMAIN console'.seen \ DOMAIN console.seen : Genuine(console'.seen, i)
<1>1. ScanInv(o) /\ ReadsInv(Reads(o.given), o.buttons, o.click)
  BY NothingNew, DoWriteKeeps
<1>2. IsClick(o.click)
  BY <1>1 DEF ScanInv, IsObject
<1>3. in' = [dsrSent |-> dsrSent, late |-> FALSE, buttons |-> o.buttons, click |-> o.click]
  BY DEF Written
<1>4. IsMembers(in') /\ in'.buttons = o.buttons /\ in'.click = o.click
  BY <1>2, <1>3 DEF IsMembers
<1>5. ReadsInv(console', in'.buttons, in'.click)
  BY <1>1, <1>4 DEF Written
<1>6. IsConsole(console') /\ MouseSeen(console'.seen, in'.buttons, in'.click)
  BY <1>5 DEF ReadsInv
<1>7. ASSUME NEW i \in DOMAIN console'.seen \ DOMAIN console.seen
      PROVE  Genuine(console'.seen, i)
  <2>1. IsSeen(console.seen) /\ IsSeen(console'.seen)
    BY <1>6 DEF InputInv, MouseSeen
  <2>2. /\ DOMAIN console.seen = 1..Len(console.seen) /\ Len(console.seen) \in Nat
        /\ DOMAIN console'.seen = 1..Len(console'.seen) /\ Len(console'.seen) \in Nat
    BY <2>1 DEF IsSeen
  <2>3. i \in (Len(console.seen) + 1)..Len(console'.seen)
    BY <2>2
  <2> QED BY <1>5, <2>3 DEF ReadsInv
<1>8. IsMembers(in)' /\ IsConsole(console)'
  BY <1>4, <1>6 DEF IsMembers, IsConsole, IsClick
<1>9. MouseSeen(console.seen, in.buttons, in.click)'
  BY <1>6 DEF MouseSeen, ClickSeen, IsSeen, FirstClick, PressedBy, HeldBefore
<1> QED BY <1>7, <1>8, <1>9

LEMMA TimeKeeps ==
  ASSUME InputInv, NEW second \in BOOLEAN, TimePasses(second)
  PROVE  InputInv' /\ DOMAIN console'.seen = DOMAIN console.seen
<1> DEFINE seen == console.seen
           n == Len(seen)
           t == [i \in DOMAIN seen |->
                  [seen[i] EXCEPT !.old = @ \/ seen[i].event.kind # "key"]]
<1>1. /\ byteQueue' = byteQueue /\ wire' = wire /\ mode' = mode
      /\ console' = [console EXCEPT !.seen = t]
      /\ in' = [in EXCEPT !.click.recent = FALSE, !.late = @ \/ (second /\ byteQueue # <<>>)]
  <2>1. byteQueue' = byteQueue /\ wire' = wire /\ mode' = mode
    BY DEF TimePasses
  <2>2. console' = [console EXCEPT !.seen = t]
    BY Zenon DEF TimePasses
  <2>3. in' = [in EXCEPT !.click.recent = FALSE, !.late = @ \/ (second /\ byteQueue # <<>>)]
    BY Zenon DEF TimePasses
  <2> HIDE DEF t
  <2> QED BY <2>1, <2>2, <2>3, Zenon
<1>2. IsSeen(seen) /\ IsConsole(console)
  BY DEF InputInv, MouseSeen
<1>3. PICK S : seen \in Seq(S) /\ \A e \in S : e = [event |-> e.event, double |-> e.double, old |-> e.old]
  BY <1>2 DEF IsSeen
<1>4. n \in Nat /\ DOMAIN seen = 1..n
  BY <1>3
<1> HIDE DEF seen, n
<1>5. ASSUME NEW i \in 1..n
      PROVE  /\ t[i] = [event |-> t[i].event, double |-> t[i].double, old |-> t[i].old]
             /\ t[i].event = seen[i].event /\ t[i].double = seen[i].double
  <2>1. PICK e, f : e = seen[i] /\ f = [e EXCEPT !.old = @ \/ e.event.kind # "key"]
    OBVIOUS
  <2>2. t[i] = f
    BY <1>4, <2>1
  <2>3. e \in S
    BY <1>3, <1>4, <2>1 DEF n
  <2>4. PICK a, b, c : e = [event |-> a, double |-> b, old |-> c]
    BY <1>3, <2>3
  <2>5. PICK d : d = (e.old \/ e.event.kind # "key")
    OBVIOUS
  <2>10. f = [e EXCEPT !.old = d]
    BY <2>1, <2>5, Zenon
  <2>6. f = [event |-> a, double |-> b, old |-> d]
    BY <2>4, <2>10
  <2>7. f = [event |-> f.event, double |-> f.double, old |-> f.old]
    BY <2>6
  <2>8. f.event = e.event
    BY <2>4, <2>6
  <2>9. f.double = e.double
    BY <2>4, <2>6
  <2> HIDE DEF t
  <2> QED BY <2>1, <2>2, <2>7, <2>8, <2>9, Zenon
<1>6. IsSeen(t) /\ Len(t) = n /\ DOMAIN t = 1..n
  <2>1. t = [i \in 1..n |-> t[i]]
    BY <1>4
  <2> HIDE DEF t
  <2> DEFINE T == {t[i] : i \in 1..n}
  <2>2. \A i \in 1..n : t[i] \in T
    OBVIOUS
  <2>3. \A e \in T : e = [event |-> e.event, double |-> e.double, old |-> e.old]
    BY <1>5
  <2> HIDE DEF T
  <2>4. t \in Seq(T) /\ Len(t) = n /\ DOMAIN t = 1..n
    BY <1>4, <2>1, <2>2
  <2> QED BY <2>3, <2>4 DEF IsSeen
<1> HIDE DEF t
<1>7. HeldBefore(t, Len(t) + 1) = HeldBefore(seen, n + 1)
  <2> DEFINE A == {j \in 1..((n + 1) - 1) : t[j].event.kind # "key"}
             B == {j \in 1..((n + 1) - 1) : seen[j].event.kind # "key"}
  <2>1. A = B /\ A \in SUBSET (1..n) /\ A \in SUBSET (0..n)
    <3>1. \A i \in 1..n : t[i].event = seen[i].event
      BY <1>5
    <3>2. (n + 1) - 1 = n
      BY <1>4
    <3> QED BY <1>4, <3>1, <3>2
  <2>2. A # {} => Max(A) \in 1..n
    <3> HIDE DEF A
    <3> QED BY <1>4, <2>1, MaxOfInterval
  <2>3. A # {} => t[Max(A)].event.held = seen[Max(A)].event.held
    BY <1>5, <2>2
  <2>4. HeldBefore(t, n + 1) = IF A = {} THEN {} ELSE t[Max(A)].event.held
    BY DEF HeldBefore
  <2>5. HeldBefore(seen, n + 1) = IF B = {} THEN {} ELSE seen[Max(B)].event.held
    BY DEF HeldBefore
  <2> HIDE DEF A, B
  <2> QED BY <1>6, <2>1, <2>3, <2>4, <2>5
<1>8. IsMembers(in') /\ in'.buttons = in.buttons /\ in'.click.recent = FALSE
  <2>1. PICK dsrSent, late, buttons, click :
          /\ IsClick(click)
          /\ in = [dsrSent |-> dsrSent, late |-> late, buttons |-> buttons, click |-> click]
    BY DEF InputInv, IsMembers
  <2>2. PICK button, at, recent : click = [button |-> button, at |-> at, recent |-> recent]
    BY <2>1 DEF IsClick
  <2>3. PICK c : c = [click EXCEPT !.recent = FALSE]
    OBVIOUS
  <2>4. c = [button |-> button, at |-> at, recent |-> FALSE]
    BY <2>2, <2>3
  <2>5. PICK l : l = (late \/ (second /\ byteQueue # <<>>))
    OBVIOUS
  <2>6. in' = [dsrSent |-> dsrSent, late |-> l, buttons |-> buttons, click |-> c]
    BY <1>1, <2>1, <2>3, <2>5
  <2> QED BY <2>1, <2>4, <2>6 DEF IsMembers, IsClick
<1>9. IsConsole(console') /\ console'.seen = t
  BY <1>1, <1>2, Updated
<1>10. MouseSeen(console'.seen, in'.buttons, in'.click)
  <2>1. MouseSeen(seen, in.buttons, in.click)
    BY DEF InputInv, seen
  <2>2. CASE "mouseInput" \in mode
    BY <1>6, <1>7, <1>8, <1>9, <2>1, <2>2 DEF MouseSeen, ClickSeen, n
  <2>3. CASE "mouseInput" \notin mode
    BY <1>5, <1>6, <1>9, <2>1, <2>3 DEF MouseSeen, n
  <2> QED BY <2>2, <2>3
<1>11. MouseSeen(console.seen, in.buttons, in.click)'
  BY <1>1, <1>10 DEF MouseSeen, ClickSeen, IsSeen, FirstClick, PressedBy, HeldBefore
<1>12. IsSequence(byteQueue)' /\ IsSequence(wire)' /\ IsMembers(in)' /\ IsConsole(console)'
  BY <1>1, <1>8, <1>9 DEF InputInv, IsSequence, IsMembers, IsConsole, IsClick
<1>13. DOMAIN console'.seen = DOMAIN console.seen
  BY <1>4, <1>6, <1>9 DEF seen
<1> QED BY <1>11, <1>12, <1>13 DEF InputInv

\* Every new event is a genuine double click, or not a double click.
NewGenuine ==
  \A i \in DOMAIN console'.seen \ DOMAIN console.seen : Genuine(console'.seen, i)

LEMMA InputStep ==
  ASSUME InputInv, [InputNext]_inputVars
  PROVE  InputInv' /\ NewGenuine
<1>1. IsSequence(byteQueue) /\ IsSequence(wire)
  BY DEF InputInv
<1>2. CASE pollConinPipe
  <2>1. PICK n \in 1..Len(wire) :
          \E o \in {doWrite(byteQueue \o [i \in 1..n |-> wire[i].byte], FALSE)} :
            /\ Written(o, o.data, o.dsrSent \/ SendDsr(o))
            /\ wire' = SubSeq(wire, n + 1, Len(wire))
            /\ mode' = mode
    BY <1>2 DEF pollConinPipe
  <2> DEFINE f == [i \in 1..n |-> wire[i].byte]
             data == byteQueue \o f
  <2>2. n \in Nat /\ Len(wire) \in Nat
    BY <1>1 DEF IsSequence
  <2>3. IsSequence(data)
    <3>1. f = [i \in 1..n |-> f[i]]
      OBVIOUS
    <3> HIDE DEF f
    <3>2. IsSequence(f)
      BY <2>2, <3>1, FunctionIsSequence
    <3> QED BY <1>1, <3>2, Concatenated
  <2>4. PICK o : /\ o = doWrite(data, FALSE)
                 /\ Written(o, o.data, o.dsrSent \/ SendDsr(o))
    BY <2>1
  <2> HIDE DEF data
  <2>5. /\ IsMembers(in)' /\ IsConsole(console)' /\ MouseSeen(console.seen, in.buttons, in.click)'
        /\ NewGenuine
    BY <2>1, <2>3, <2>4, WrittenKeeps DEF NewGenuine
  <2>6. IsSequence(byteQueue')
    <3>1. IsSequence(o.data)
      BY <2>3, <2>4, NothingNew, DoWriteKeeps DEF ScanInv
    <3> QED BY <2>4, <3>1 DEF Written
  <2>7. IsSequence(wire')
    BY <1>1, <2>1, <2>2, CutOff
  <2> QED BY <2>5, <2>6, <2>7 DEF InputInv, IsSequence
<1>3. CASE flushIncompleteEscapeCode
  <2>1. PICK o \in {doWrite(byteQueue, TRUE)} : Written(o, <<>>, o.dsrSent)
    BY <1>3 DEF flushIncompleteEscapeCode
  <2>2. mode' = mode /\ wire' = wire
    BY <1>3 DEF flushIncompleteEscapeCode
  <2>3. /\ IsMembers(in)' /\ IsConsole(console)' /\ MouseSeen(console.seen, in.buttons, in.click)'
        /\ NewGenuine
    BY <1>1, <2>1, <2>2, WrittenKeeps DEF NewGenuine
  <2>4. IsSequence(byteQueue')
    BY <2>1, TupleSequences DEF Written
  <2> QED BY <1>1, <2>2, <2>3, <2>4 DEF InputInv, IsSequence
<1>4. ASSUME IsSequence(wire'), UNCHANGED <<byteQueue, in, console, mode>>
      PROVE  InputInv' /\ NewGenuine
  <2>1. IsSequence(byteQueue)' /\ IsSequence(wire)'
    BY <1>1, <1>4 DEF IsSequence
  <2>2. IsMembers(in)' /\ IsConsole(console)'
    BY <1>4 DEF InputInv, IsMembers, IsClick, IsConsole
  <2>3. MouseSeen(console.seen, in.buttons, in.click)'
    <3>1. MouseSeen(console'.seen, in'.buttons, in'.click)
      BY <1>4 DEF InputInv
    <3> QED BY <1>4, <3>1 DEF MouseSeen, ClickSeen, IsSeen, FirstClick, PressedBy, HeldBefore
  <2>4. NewGenuine
    BY <1>4 DEF NewGenuine
  <2> QED BY <2>1, <2>2, <2>3, <2>4 DEF InputInv
<1>5. CASE Type
  <2>1. PICK k \in UserKeys \union UNION {MouseReports(<<x, "1">>, Held) : x \in Columns} :
          Send(k.bytes)
    BY <1>5 DEF Type
  <2>2. IsSequence(wire')
    BY <1>1, <2>1, InputBytes, SentBytes
  <2> QED BY <1>4, <1>5, <2>2 DEF Type
<1>6. CASE TerminalReplies
  <2>1. PICK row \in ReplyRows : Send(<<"ESC", "[", row, ";", "2", "R">>)
    BY <1>6 DEF TerminalReplies
  <2>2. IsSequence(<<"ESC", "[", row, ";", "2", "R">>)
    BY TupleSequences
  <2>3. IsSequence(wire')
    BY <1>1, <2>1, <2>2, SentBytes
  <2> QED BY <1>4, <1>6, <2>3 DEF TerminalReplies
<1>7. ASSUME NEW second \in BOOLEAN, TimePasses(second)
      PROVE  InputInv' /\ NewGenuine
  BY <1>7, TimeKeeps DEF NewGenuine
<1>8. CASE UNCHANGED inputVars
  BY <1>1, <1>4, <1>8 DEF inputVars, IsSequence
<1> QED BY <1>2, <1>3, <1>5, <1>6, <1>7, <1>8 DEF InputNext

(* A record that says "double click" is the second press of a button at    *)
(* one place, nothing else being pressed in between, within the double     *)
(* click time of a first press that was not itself a double click: however *)
(* the reports are split into chunks, whatever else arrives among them,    *)
(* and whichever of the three forms they have.                             *)
THEOREM DoubleClicksAreGenuine == InputSpec => DoubleClickGenuine
<1>1. InputInit => InputInv
  BY InputInvInit
<1>2. InputInv /\ [InputNext]_inputVars => InputInv'
  BY InputStep
<1>3. InputInv /\ [InputNext]_inputVars =>
        [LET seen == console'.seen IN
         \A i \in DOMAIN seen \ DOMAIN console.seen : seen[i].double =>
           \E j \in 1..(i - 1) :
             /\ PressedBy(seen, j) = PressedBy(seen, i) /\ PressedBy(seen, i) # {}
             /\ seen[j].event.what = seen[i].event.what
             /\ ~seen[j].double /\ ~seen[j].old
             /\ \A k \in (j + 1)..(i - 1) : PressedBy(seen, k) = {}]_inputVars
  BY InputStep DEF NewGenuine, Genuine
<1> QED BY <1>1, <1>2, <1>3, PTL DEF InputSpec, DoubleClickGenuine

----------------------------------------------------------------------------
(***************************************************************************)
(* The scan again: what is left is an end of what there was, and a reply   *)
(* is read where there is one.                                             *)
(***************************************************************************)
\* There is a reply, or what is taken for one, at i.
DsrAt(s, i) ==
  /\ i \in 1..Len(s) /\ i + 5 <= Len(s)
  /\ s[i] = "ESC" /\ s[i + 1] = "[" /\ s[i + 2] \in Number /\ s[i + 3] = ";"
  /\ s[i + 4] \in Number /\ s[i + 5] = "R"

OneReply(s) == \A i, j \in 1..Len(s) : DsrAt(s, i) /\ DsrAt(s, j) => i = j

ButtonFlags == {"0", "1", "2", "64"}

\* In a report of the form 1006 there are a button's flags.
FlaggedIn(s) == \A i \in 1..(Len(s) - 1) : s[i] = "<" => s[i + 1] \in ButtonFlags

Scanned(o, data) ==
  /\ IsObject(o) /\ o.buttons \subseteq {"0", "1", "2"}
  /\ \E m \in 0..Len(data) :
       /\ o.data = SubSeq(data, m + 1, Len(data))
       /\ \/ o.replies = 0 /\ o.dsrSent = in.dsrSent
          \/ o.replies = 1 /\ o.dsrSent = FALSE /\ \E i \in 1..m : DsrAt(data, i)

Untouched(o, d) ==
  IsObject(d) /\ d.data = o.data /\ d.buttons = o.buttons /\ SameDsr(o, d)

LEMMA UntouchedTwice ==
  ASSUME NEW o, NEW d, NEW e, Untouched(o, d), Untouched(d, e)
  PROVE  Untouched(o, e)
BY DEF Untouched, SameDsr

LEMMA FlushUntouched ==
  ASSUME NEW o, IsObject(o)
  PROVE  Untouched(o, flushInputRecords(o))
<1>1. flushInputRecords(o) = SetCollected(o, o.given \o o.records, <<>>)
  BY DEF flushInputRecords, SetCollected
<1> QED BY <1>1, GivenSet DEF Untouched

LEMMA PushUntouched ==
  ASSUME NEW o, IsObject(o), NEW records
  PROVE  Untouched(o, Push(o, records))
<1>1. Push(o, records) = SetRecords(o, o.records \o records)
  BY DEF Push, SetRecords
<1> QED BY <1>1, RecordsSet DEF Untouched

LEMMA GiveNowUntouched ==
  ASSUME NEW o, IsObject(o), NEW what
  PROVE  Untouched(o, GiveNow(o, what))
<1> DEFINE f == flushInputRecords(o)
           g == Append(f.given, [kind |-> "message", what |-> what])
<1>1. Untouched(o, f)
  BY FlushUntouched
<1>2. GiveNow(o, what) = SetGiven(f, g)
  BY DEF GiveNow, SetGiven
<1> HIDE DEF f, g
<1>3. Untouched(f, SetGiven(f, g))
  BY <1>1, OnlyGivenSet DEF Untouched
<1> QED BY <1>1, <1>2, <1>3, UntouchedTwice

LEMMA KeyPressUntouched ==
  ASSUME NEW o, IsObject(o), NEW press
  PROVE  Untouched(o, appendKeyPress(o, press))
BY GiveNowUntouched, PushUntouched DEF appendKeyPress

LEMMA CharUntouched ==
  ASSUME NEW o, IsObject(o), NEW bytes, NEW altEscape
  PROVE  Untouched(o, appendUtf8Char(o, bytes, altEscape))
<1> DEFINE char == decodeUtf8(bytes)
           scan == VkKeyScan(char)
           alt  == IF altEscape THEN {"Alt"} ELSE {}
           down == IF altEscape /\ "Ctrl" \in scan.held THEN NoChar ELSE char
           press == [key |-> scan.key, down |-> down, up |-> IF altEscape THEN NoChar ELSE down,
                     state |-> scan.held \union alt, vtChar |-> char, vtState |-> alt]
<1>1. appendUtf8Char(o, bytes, altEscape) =
        IF char = NoChar THEN o ELSE appendKeyPress(o, press)
  BY DEF appendUtf8Char
<1> HIDE DEF press, char
<1>2. Untouched(o, appendKeyPress(o, press)) /\ Untouched(o, o)
  BY KeyPressUntouched DEF Untouched, SameDsr
<1> QED BY <1>1, <1>2

LEMMA UntouchedScanned ==
  ASSUME NEW o, NEW data, Scanned(o, data), NEW d, Untouched(o, d)
  PROVE  Scanned(d, data)
BY DEF Scanned, Untouched, SameDsr

(* Of a report the button is one of three, whatever its form.              *)
LEMMA MouseScanned ==
  ASSUME NEW o, NEW data, Scanned(o, data), NEW record,
         record.flags \in {"0", "1", "2", "3", "64"}
  PROVE  Scanned(scanMouseInput(o, record), data)
<1> DEFINE d == MouseButton(o, record)
           after == IF record.flags = "64" THEN o ELSE d
           records == <<[kind |-> IF record.flags = "64" THEN "wheel" ELSE "mouse",
                         at |-> record.at, buttons |-> after.buttons,
                         double |-> NewlyPressed(o, record) /\ IsDoubleClick(o.click, record)]>>
<1>1. IsObject(o) /\ o.buttons \subseteq {"0", "1", "2"}
  BY DEF Scanned
<1>2. /\ IsObject(d) /\ d.data = o.data /\ SameDsr(o, d) /\ d.buttons \subseteq {"0", "1", "2"}
  <2> DEFINE button == record.flags
             left == IF button = o.click.button THEN o.click ELSE NoClick
             next == IF IsDoubleClick(o.click, record) THEN NoClick
                     ELSE [button |-> button, at |-> record.at, recent |-> TRUE]
             less == o.buttons \ {button}
             more == o.buttons \union {button}
  <2>1. d = IF button = "3" THEN SetButtons(o, {})
            ELSE IF record.release THEN SetMouse(o, less, left)
            ELSE IF NewlyPressed(o, record) THEN SetMouse(o, more, next) ELSE o
    BY DEF MouseButton, SetButtons, SetMouse
  <2>2. IsClick(left) /\ IsClick(next)
    <3>1. IsClick(NoClick)
      BY DEF NoClick, IsClick
    <3>2. IsClick(o.click)
      BY <1>1 DEF IsObject
    <3>3. IsClick([button |-> button, at |-> record.at, recent |-> TRUE])
      BY DEF IsClick
    <3> QED BY <3>1, <3>2, <3>3
  <2>3. /\ less \subseteq {"0", "1", "2"}
        /\ NewlyPressed(o, record) => more \subseteq {"0", "1", "2"}
    BY <1>1 DEF NewlyPressed
  <2> HIDE DEF d, left, next, less, more
  <2>4. CASE button = "3"
    <3>1. PICK b : b = {}
      OBVIOUS
    <3>2. d = SetButtons(o, b)
      BY <2>1, <2>4, <3>1
    <3>3. IsObject(d) /\ d.data = o.data /\ SameDsr(o, d) /\ d.buttons = b
      BY <1>1, <3>2, ButtonsSet
    <3> QED BY <3>1, <3>3
  <2>5. CASE button # "3" /\ record.release
    <3>1. d = SetMouse(o, less, left)
      BY <2>1, <2>5
    <3>2. IsObject(d) /\ d.data = o.data /\ SameDsr(o, d) /\ d.buttons = less
      BY <1>1, <2>2, <3>1, MouseSet
    <3> QED BY <2>3, <3>2
  <2>6. CASE button # "3" /\ ~record.release /\ NewlyPressed(o, record)
    <3>1. d = SetMouse(o, more, next)
      BY <2>1, <2>6
    <3>2. IsObject(d) /\ d.data = o.data /\ SameDsr(o, d) /\ d.buttons = more
      BY <1>1, <2>2, <3>1, MouseSet
    <3> QED BY <2>3, <2>6, <3>2
  <2>7. CASE button # "3" /\ ~record.release /\ ~NewlyPressed(o, record)
    <3>1. d = o
      BY <2>1, <2>7
    <3> QED BY <1>1, <3>1 DEF SameDsr
  <2> QED BY <2>4, <2>5, <2>6, <2>7
<1> HIDE DEF d
<1>3. Scanned(after, data)
  BY <1>2 DEF Scanned, SameDsr
<1>4. scanMouseInput(o, record) = IF "mouseInput" \in mode THEN Push(after, records) ELSE after
  BY DEF scanMouseInput, d
<1> HIDE DEF records, after
<1>5. Untouched(after, Push(after, records))
  BY <1>3, PushUntouched DEF Scanned
<1> QED BY <1>3, <1>4, <1>5, UntouchedScanned

----------------------------------------------------------------------------
LEMMA SuffixOfSuffix ==
  ASSUME NEW S, NEW s \in Seq(S), NEW m \in 0..Len(s), NEW n \in Nat
  PROVE  LET t == SubSeq(s, m + 1, Len(s)) IN
         \E k \in m..Len(s) :
           /\ SubSeq(t, n + 1, Len(t)) = SubSeq(s, k + 1, Len(s))
           /\ n <= Len(t) => k = m + n
<1> DEFINE t == SubSeq(s, m + 1, Len(s))
           k == IF m + n <= Len(s) THEN m + n ELSE Len(s)
<1>1. t \in Seq(S) /\ Len(t) = Len(s) - m /\ \A i \in 1..Len(t) : t[i] = s[m + i]
  OBVIOUS
<1>2. k \in m..Len(s) /\ (n <= Len(t) => k = m + n) /\ (~(n <= Len(t)) => k = Len(s))
  BY <1>1
<1> HIDE DEF t, k
<1> DEFINE u == SubSeq(t, n + 1, Len(t))
           v == SubSeq(s, k + 1, Len(s))
<1>3. v \in Seq(S) /\ Len(v) = Len(s) - k /\ \A i \in 1..Len(v) : v[i] = s[k + i]
  BY <1>2
<1>4. u \in Seq(S) /\ Len(u) = Len(v) /\ \A i \in 1..Len(u) : u[i] = t[n + i]
  <2>1. CASE n <= Len(t)
    <3>1. u \in Seq(S) /\ Len(u) = Len(t) - n /\ \A i \in 1..Len(u) : u[i] = t[n + i]
      BY <1>1, <2>1
    <3> HIDE DEF u, v
    <3> QED BY <1>1, <1>2, <1>3, <2>1, <3>1
  <2>2. CASE ~(n <= Len(t))
    <3>1. u \in Seq(S) /\ Len(u) = 0
      BY <1>1, <2>2
    <3> HIDE DEF u, v
    <3> QED BY <1>2, <1>3, <2>2, <3>1
  <2> QED BY <2>1, <2>2
<1> HIDE DEF u, v
<1>5. ASSUME NEW i \in 1..Len(u) PROVE u[i] = v[i]
  <2>1. n <= Len(t) /\ k = m + n /\ n + i \in 1..Len(t)
    BY <1>1, <1>2, <1>3, <1>4
  <2>2. u[i] = s[m + (n + i)] /\ v[i] = s[k + i] /\ m + (n + i) = k + i
    BY <1>1, <1>3, <1>4, <2>1
  <2> QED BY <2>2
<1>6. u = v
  <2>1. DOMAIN u = 1..Len(u) /\ DOMAIN v = 1..Len(v)
    BY <1>3, <1>4
  <2> QED BY <1>3, <1>4, <1>5, <2>1
<1> QED BY <1>2, <1>6 DEF t, u, v

LEMMA TakeScanned ==
  ASSUME NEW S, NEW data \in Seq(S), NEW o, Scanned(o, data), NEW n \in Nat
  PROVE  Scanned(Take(o, n), data)
<1> DEFINE d == Take(o, n)
<1>1. PICK m \in 0..Len(data) :
        /\ o.data = SubSeq(data, m + 1, Len(data))
        /\ \/ o.replies = 0 /\ o.dsrSent = in.dsrSent
           \/ o.replies = 1 /\ o.dsrSent = FALSE /\ \E i \in 1..m : DsrAt(data, i)
  BY DEF Scanned
<1>2. PICK k \in m..Len(data) :
        LET t == SubSeq(data, m + 1, Len(data)) IN
        SubSeq(t, n + 1, Len(t)) = SubSeq(data, k + 1, Len(data))
  BY SuffixOfSuffix
<1> DEFINE x == SubSeq(data, k + 1, Len(data))
<1>3. d = SetData(o, x)
  <2>1. SubSeq(o.data, n + 1, Len(o.data)) = x
    BY <1>1, <1>2
  <2>2. d = SetData(o, SubSeq(o.data, n + 1, Len(o.data)))
    BY DEF Take, SetData
  <2> QED BY <2>1, <2>2
<1>4. IsObject(d) /\ d.data = x /\ d.buttons = o.buttons /\ SameDsr(o, d)
  <2>1. IsObject(o)
    BY DEF Scanned
  <2> HIDE DEF x, d
  <2> QED BY <1>3, <2>1, DataSet
<1> HIDE DEF d
<1>5. k \in 0..Len(data) /\ \A i \in 1..m : i \in 1..k
  BY <1>1, <1>2
<1> QED BY <1>1, <1>4, <1>5 DEF Scanned, SameDsr, d

----------------------------------------------------------------------------
(* What the patterns match.                                                *)
LEMMA PatternMatched ==
  ASSUME NEW p, Len(p) \in Nat, NEW S, NEW input \in Seq(S), matchPattern(p, input) > 0
  PROVE  /\ matchPattern(p, input) = Len(p) /\ Len(p) <= Len(input)
         /\ \A i \in DOMAIN p \intersect DOMAIN input : input[i] \in p[i]
<1> DEFINE e == \E i \in DOMAIN p \intersect DOMAIN input : input[i] \notin p[i]
           n == Len(p)
           l == Len(input)
           x == matchPattern(p, input)
<1>1. x = IF e THEN 0 ELSE IF l < n THEN -1 ELSE n
  BY DEF matchPattern, Incomplete
<1>2. n \in Nat /\ l \in Nat /\ x > 0
  OBVIOUS
<1> HIDE DEF n, l, x, e
<1>3. ~e /\ x = n /\ n <= l
  BY <1>1, <1>2
<1> QED BY <1>3 DEF e, n, l, x

LEMMA DsrMatched ==
  ASSUME NEW S, NEW input \in Seq(S), matchPattern(DsrPattern, input) > 0
  PROVE  matchPattern(DsrPattern, input) = 6 /\ DsrAt(input, 1)
<1>1. PICK a, b, n, c, d : a = {"ESC"} /\ b = {"["} /\ n = Number /\ c = {";"} /\ d = {"R"}
  OBVIOUS
<1>2. PICK p : p = DsrPattern
  OBVIOUS
<1>3. p = <<a, b, n, c, n, d>>
  BY <1>1, <1>2 DEF DsrPattern
<1>4. /\ Len(p) = 6 /\ DOMAIN p = 1..6
      /\ p[1] = a /\ p[2] = b /\ p[3] = n /\ p[4] = c /\ p[5] = n /\ p[6] = d
  BY <1>3
<1>5. Len(p) \in Nat /\ matchPattern(p, input) > 0
  BY <1>2, <1>4
<1>6. /\ matchPattern(p, input) = Len(p) /\ Len(p) <= Len(input)
      /\ \A i \in DOMAIN p \intersect DOMAIN input : input[i] \in p[i]
  BY <1>5, PatternMatched
<1>7. Len(input) \in Nat /\ 6 <= Len(input) /\ \A i \in 1..6 : i \in DOMAIN input /\ i \in DOMAIN p
  BY <1>4, <1>6
<1>8. /\ input[1] \in a /\ input[2] \in b /\ input[3] \in n /\ input[4] \in c
      /\ input[5] \in n /\ input[6] \in d
  BY <1>4, <1>6, <1>7
<1>9. DsrAt(input, 1)
  <2>1. 1 \in 1..Len(input) /\ 1 + 5 <= Len(input)
    BY <1>7
  <2>2. 1 + 1 = 2 /\ 1 + 2 = 3 /\ 1 + 3 = 4 /\ 1 + 4 = 5 /\ 1 + 5 = 6
    OBVIOUS
  <2> QED BY <1>1, <1>8, <2>1, <2>2 DEF DsrAt
<1> QED BY <1>2, <1>4, <1>6, <1>9

LEMMA MouseMatched ==
  ASSUME NEW S, NEW input \in Seq(S), matchMouseRecord(input) > 0
  PROVE  matchMouseRecord(input) \in 6..Len(input)
<1> DEFINE a == matchPattern(Mouse1006Pattern, input)
           b == matchPattern(Mouse1015Pattern, input)
           c == matchPattern(MouseDefaultPattern, input)
           lens == <<a, b, c>>
           found == {i \in DOMAIN lens : lens[i] # 0}
<1>1. matchMouseRecord(input) = IF found = {} THEN 0 ELSE lens[Min(found)]
  BY DEF matchMouseRecord
<1>2. PICK p, q, r : p = Mouse1006Pattern /\ q = Mouse1015Pattern /\ r = MouseDefaultPattern
  OBVIOUS
<1>3. Len(p) = 9 /\ Len(q) = 8 /\ Len(r) = 6
  BY <1>2 DEF Mouse1006Pattern, Mouse1015Pattern, MouseDefaultPattern
<1>4. /\ a > 0 => a = 9 /\ 9 <= Len(input)
      /\ b > 0 => b = 8 /\ 8 <= Len(input)
      /\ c > 0 => c = 6 /\ 6 <= Len(input)
  <2>1. ASSUME NEW w, Len(w) \in Nat, matchPattern(w, input) > 0
        PROVE  matchPattern(w, input) = Len(w) /\ Len(w) <= Len(input)
    BY <2>1, PatternMatched
  <2>2. Len(p) \in Nat /\ Len(q) \in Nat /\ Len(r) \in Nat
    BY <1>3
  <2> QED BY <1>2, <1>3, <2>1, <2>2
<1> HIDE DEF a, b, c
<1>5. DOMAIN lens = {1, 2, 3} /\ lens[1] = a /\ lens[2] = b /\ lens[3] = c
  OBVIOUS
<1>6. found \in SUBSET {1, 2, 3} /\ (found # {} => Min(found) \in {1, 2, 3})
  <2>1. found \in SUBSET {1, 2, 3}
    BY <1>5
  <2> HIDE DEF found
  <2>2. found # {} => Min(found) \in {1, 2, 3}
    BY <2>1, MinOfThree
  <2> QED BY <2>1, <2>2
<1>7. found # {}
  BY <1>1
<1> HIDE DEF lens, found
<1>8. \/ matchMouseRecord(input) = a
      \/ matchMouseRecord(input) = b
      \/ matchMouseRecord(input) = c
  BY <1>1, <1>5, <1>6, <1>7
<1>9. Len(input) \in Nat
  OBVIOUS
<1> QED BY <1>4, <1>8, <1>9

(* A report's button is one of three, whatever its form.                   *)
LEMMA RecordFlags ==
  ASSUME NEW S, NEW input \in Seq(S), FlaggedIn(input), NEW n \in 6..Len(input)
  PROVE  MouseRecord(SubSeq(input, 1, n)).flags \in {"0", "1", "2", "3", "64"}
<1> DEFINE s == SubSeq(input, 1, n)
<1>1. s[3] = input[3] /\ s[4] = input[4] /\ Len(input) \in Nat /\ 3 \in 1..(Len(input) - 1)
  OBVIOUS
<1> HIDE DEF s
<1>2. s[3] = "<" => s[4] \in ButtonFlags
  <2>1. input[3] = "<" => input[3 + 1] \in ButtonFlags
    BY <1>1 DEF FlaggedIn
  <2>2. 3 + 1 = 4
    OBVIOUS
  <2> QED BY <1>1, <2>1, <2>2
<1>3. \A flags : Minus32(flags) \in {"0", "3", "64"}
  BY DEF Minus32
<1>4. CASE s[3] = "<"
  <2>1. MouseRecord(s).flags = s[4]
    BY <1>4 DEF MouseRecord
  <2> QED BY <1>2, <1>4, <2>1 DEF ButtonFlags, s
<1>5. CASE s[3] # "<" /\ s[3] = "M"
  <2>1. MouseRecord(s).flags = Minus32(s[4])
    BY <1>5 DEF MouseRecord
  <2> QED BY <1>3, <2>1 DEF s
<1>6. CASE s[3] # "<" /\ s[3] # "M"
  <2>1. MouseRecord(s).flags = Minus32(s[3])
    BY <1>6 DEF MouseRecord
  <2> QED BY <1>3, <2>1 DEF s
<1> QED BY <1>4, <1>5, <1>6

LEMMA DsrShifted ==
  ASSUME NEW S, NEW s \in Seq(S), NEW m \in 0..Len(s), NEW i,
         DsrAt(SubSeq(s, m + 1, Len(s)), i)
  PROVE  DsrAt(s, m + i)
<1> DEFINE t == SubSeq(s, m + 1, Len(s))
<1>1. Len(s) \in Nat /\ Len(t) = Len(s) - m /\ \A j \in 1..Len(t) : t[j] = s[m + j]
  OBVIOUS
<1> HIDE DEF t
<1>2. /\ i \in 1..Len(t) /\ i + 5 <= Len(t)
      /\ t[i] = "ESC" /\ t[i + 1] = "[" /\ t[i + 2] \in Number /\ t[i + 3] = ";"
      /\ t[i + 4] \in Number /\ t[i + 5] = "R"
  BY DEF DsrAt, t
<1>3. \A j \in 0..5 : i + j \in 1..Len(t) /\ m + (i + j) = (m + i) + j
  <2>1. PICK l, n : l = Len(t) /\ n = Len(s)
    OBVIOUS
  <2>2. n \in Nat /\ l = n - m /\ i \in 1..l /\ i + 5 <= l /\ m \in 0..n
    BY <1>1, <1>2, <2>1
  <2>3. \A j \in 0..5 : i + j \in 1..l /\ m + (i + j) = (m + i) + j
    BY <2>2
  <2> QED BY <2>1, <2>3
<1>4. \A j \in 0..5 : t[i + j] = s[(m + i) + j]
  BY <1>1, <1>3
<1>5. i + 0 = i /\ (m + i) + 0 = m + i
  <2>1. PICK l, n : l = Len(t) /\ n = Len(s)
    OBVIOUS
  <2>2. n \in Nat /\ l = n - m /\ i \in 1..l /\ m \in 0..n
    BY <1>1, <1>2, <2>1
  <2> QED BY <2>2
<1>6. /\ s[m + i] = "ESC" /\ s[(m + i) + 1] = "[" /\ s[(m + i) + 2] \in Number
      /\ s[(m + i) + 3] = ";" /\ s[(m + i) + 4] \in Number /\ s[(m + i) + 5] = "R"
  <2>1. \A j \in {1, 2, 3, 4, 5} : t[i + j] = s[(m + i) + j]
    BY <1>4
  <2>2. t[i] = s[m + i]
    BY <1>4, <1>5
  <2> QED BY <1>2, <2>1, <2>2
<1>7. m + i \in 1..Len(s) /\ (m + i) + 5 <= Len(s)
  <2>1. PICK l, n : l = Len(t) /\ n = Len(s)
    OBVIOUS
  <2>2. n \in Nat /\ l = n - m /\ i \in 1..l /\ i + 5 <= l /\ m \in 0..n
    BY <1>1, <1>2, <2>1
  <2>3. m + i \in 1..n /\ (m + i) + 5 <= n
    BY <2>2
  <2> QED BY <2>1, <2>3
<1> QED BY <1>6, <1>7 DEF DsrAt

\* The reply that was awaited.
LEMMA ReplyScanned ==
  ASSUME NEW S, NEW data \in Seq(S), OneReply(data), NEW o, Scanned(o, data),
         matchPattern(DsrPattern, o.data) > 0
  PROVE  Scanned(Take(Replied(o), matchPattern(DsrPattern, o.data)), data)
<1>1. PICK m \in 0..Len(data) :
        /\ o.data = SubSeq(data, m + 1, Len(data))
        /\ \/ o.replies = 0 /\ o.dsrSent = in.dsrSent
           \/ o.replies = 1 /\ o.dsrSent = FALSE /\ \E i \in 1..m : DsrAt(data, i)
  BY DEF Scanned
<1> DEFINE t == SubSeq(data, m + 1, Len(data))
<1>2. t \in Seq(S) /\ o.data = t /\ Len(data) \in Nat
  BY <1>1
<1>3. matchPattern(DsrPattern, o.data) = 6 /\ DsrAt(t, 1)
  BY <1>2, DsrMatched
<1>4. DsrAt(data, m + 1) /\ m + 1 \in 1..Len(data)
  <2>1. DsrAt(data, m + 1)
    BY <1>3, DsrShifted
  <2> QED BY <2>1 DEF DsrAt
<1>5. o.replies = 0
  <2>1. ASSUME NEW i \in 1..m, DsrAt(data, i) PROVE FALSE
    <3>1. i \in 1..Len(data) /\ i # m + 1
      BY <1>2
    <3> QED BY <1>4, <2>1, <3>1 DEF OneReply
  <2> QED BY <1>1, <2>1
<1> DEFINE r == Replied(o)
           x == SubSeq(data, (m + 6) + 1, Len(data))
<1>6. /\ IsObject(r) /\ r.data = o.data /\ r.buttons = o.buttons
      /\ r.dsrSent = FALSE /\ r.replies = 1
  <2>1. IsObject(o)
    BY DEF Scanned
  <2>2. /\ IsObject(r) /\ r.data = o.data /\ r.buttons = o.buttons
        /\ r.dsrSent = FALSE /\ r.replies = o.replies + 1
    BY <2>1, ReplySet
  <2> HIDE DEF r
  <2> QED BY <1>5, <2>2
<1> HIDE DEF r
<1>7. SubSeq(o.data, 6 + 1, Len(o.data)) = x
  <2>1. PICK k \in m..Len(data) :
          /\ SubSeq(t, 6 + 1, Len(t)) = SubSeq(data, k + 1, Len(data))
          /\ 6 <= Len(t) => k = m + 6
    BY SuffixOfSuffix
  <2>2. Len(t) \in Nat /\ 1 + 5 <= Len(t)
    <3>1. Len(t) \in Nat
      BY <1>2
    <3> HIDE DEF t
    <3> QED BY <1>3, <3>1 DEF DsrAt
  <2> HIDE DEF t
  <2>3. k = m + 6
    BY <2>1, <2>2
  <2> QED BY <1>2, <2>1, <2>3
<1> DEFINE d == Take(r, 6)
<1>8. d = SetData(r, x)
  <2>1. d = SetData(r, SubSeq(r.data, 6 + 1, Len(r.data)))
    BY DEF Take, SetData
  <2> HIDE DEF d, x
  <2> QED BY <1>6, <1>7, <2>1
<1>9. /\ IsObject(d) /\ d.data = x /\ d.buttons = o.buttons
      /\ d.dsrSent = FALSE /\ d.replies = 1
  <2> HIDE DEF x, d
  <2>1. IsObject(d) /\ d.data = x /\ d.buttons = r.buttons /\ SameDsr(r, d)
    BY <1>6, <1>8, DataSet
  <2> QED BY <1>6, <2>1 DEF SameDsr
<1>10. m + 6 \in 0..Len(data) /\ m + 1 \in 1..(m + 6)
  <2>1. (m + 1) + 5 <= Len(data)
    BY <1>4 DEF DsrAt
  <2> QED BY <1>2, <2>1
<1> HIDE DEF d, x
<1>11. Scanned(d, data)
  <2>1. d.buttons \subseteq {"0", "1", "2"}
    BY <1>9 DEF Scanned
  <2> QED BY <1>4, <1>9, <1>10, <2>1 DEF Scanned, x
<1> QED BY <1>3, <1>11 DEF d, r

LEMMA ScanStep ==
  ASSUME NEW S, NEW data \in Seq(S), OneReply(data), FlaggedIn(data),
         NEW o, Scanned(o, data), NEW isEof
  PROVE  Scanned(scanInput(o, isEof), data)
<1> DEFINE input   == o.data
           dsr     == matchPattern(DsrPattern, input)
           mouse   == matchMouseRecord(input)
           key     == lookupKey(input, isEof)
           escaped == Head(input) = "ESC" /\ Len(input) >= 2 /\ input[2] # "ESC"
           altLen  == IF escaped THEN utf8CharLength(input[2]) ELSE 0
           len     == utf8CharLength(Head(input))
           ctrlC   == Head(input) = "^C" /\ "processedInput" \in mode
           k       == CHOOSE l \in key.matches : TRUE
           report  == MouseRecord(SubSeq(input, 1, mouse))
           wait    == IncompleteReport(dsr, isEof)
           wait2   == IncompleteReport(mouse, isEof) \/ key.incomplete
           short   == 1 + altLen > Len(input)
           short2  == len > Len(input)
           altChar == SubSeq(input, 2, 1 + altLen)
           char    == SubSeq(input, 1, len)
           press   == MapKey(k)
<1>1. scanInput(o, isEof) =
        IF ctrlC THEN Take(GiveNow(o, "^C"), 1)
        ELSE IF dsr > 0 THEN Take(Replied(o), dsr)
        ELSE IF wait THEN Stop(o)
        ELSE IF mouse > 0 THEN Take(scanMouseInput(o, report), mouse)
        ELSE IF wait2 THEN Stop(o)
        ELSE IF key.matches # {} THEN Take(appendKeyPress(o, press), Len(k.bytes))
        ELSE IF altLen > 0
             THEN IF short THEN Stop(o)
                  ELSE Take(appendUtf8Char(o, altChar, TRUE), 1 + altLen)
        ELSE IF len = 0 THEN Take(o, 1)
        ELSE IF short2 THEN Stop(o)
        ELSE Take(appendUtf8Char(o, char, FALSE), len)
  BY DEF scanInput, Replied
<1>2. PICK m \in 0..Len(data) : input = SubSeq(data, m + 1, Len(data))
  BY DEF Scanned
<1>3. input \in Seq(S) /\ FlaggedIn(input)
  <2> DEFINE t == SubSeq(data, m + 1, Len(data))
  <2>1. t \in Seq(S) /\ Len(t) = Len(data) - m /\ \A i \in 1..Len(t) : t[i] = data[m + i]
    OBVIOUS
  <2>2. Len(data) \in Nat
    OBVIOUS
  <2> HIDE DEF t
  <2>3. ASSUME NEW i \in 1..(Len(t) - 1), t[i] = "<" PROVE t[i + 1] \in ButtonFlags
    <3>1. i \in 1..Len(t) /\ i + 1 \in 1..Len(t) /\ m + i \in 1..(Len(data) - 1)
      BY <2>1, <2>2
    <3>2. data[m + i] = "<" /\ t[i + 1] = data[m + (i + 1)] /\ m + (i + 1) = (m + i) + 1
      BY <2>1, <2>3, <3>1
    <3> QED BY <3>1, <3>2 DEF FlaggedIn
  <2>4. FlaggedIn(t)
    BY <2>3 DEF FlaggedIn
  <2> QED BY <1>2, <2>1, <2>4 DEF t
<1>4. /\ mouse \in Int /\ altLen \in Nat /\ len \in Nat
      /\ key.matches # {} => Len(k.bytes) \in Nat
  <2>1. mouse \in Int
    BY MouseLength
  <2>2. altLen \in Nat /\ len \in Nat
    BY CharLength
  <2>3. key.matches # {} => Len(k.bytes) \in Nat
    <3>1. IsSequence(input)
      BY <1>3 DEF IsSequence
    <3>2. key.matches # {} => k \in key.matches
      <4> DEFINE M == key.matches
      <4> HIDE DEF M
      <4>1. M # {} => (CHOOSE l \in M : TRUE) \in M
        OBVIOUS
      <4> QED BY <4>1 DEF M
    <3> HIDE DEF input, k
    <3> QED BY <3>1, <3>2, KeyLength
  <2> QED BY <2>1, <2>2, <2>3
<1>5. mouse > 0 => report.flags \in {"0", "1", "2", "3", "64"} /\ mouse \in Nat
  <2>1. mouse > 0 => mouse \in 6..Len(input)
    BY <1>3, MouseMatched
  <2> HIDE DEF mouse
  <2> QED BY <1>3, <1>4, <2>1, RecordFlags
<1>6. dsr > 0 => Scanned(Take(Replied(o), dsr), data)
  BY ReplyScanned
<1> HIDE DEF dsr, mouse, altLen, len, k, ctrlC, report, wait, wait2, short, short2, altChar,
             char, press, key, input
<1>7. IsObject(o)
  BY DEF Scanned
<1>8. Scanned(Take(GiveNow(o, "^C"), 1), data)
  BY <1>7, GiveNowUntouched, UntouchedScanned, TakeScanned
<1>9. Scanned(Stop(o), data)
  <2>1. Untouched(o, Stop(o))
    BY <1>7, StopSet DEF Untouched
  <2> QED BY <2>1, UntouchedScanned
<1>10. mouse > 0 => Scanned(Take(scanMouseInput(o, report), mouse), data)
  BY <1>5, MouseScanned, TakeScanned
<1>11. key.matches # {} => Scanned(Take(appendKeyPress(o, press), Len(k.bytes)), data)
  BY <1>4, <1>7, KeyPressUntouched, UntouchedScanned, TakeScanned
<1>12. Scanned(Take(appendUtf8Char(o, altChar, TRUE), 1 + altLen), data)
  <2>1. 1 + altLen \in Nat
    BY <1>4
  <2>2. Scanned(appendUtf8Char(o, altChar, TRUE), data)
    BY <1>7, CharUntouched, UntouchedScanned
  <2> QED BY <2>1, <2>2, TakeScanned
<1>13. Scanned(Take(appendUtf8Char(o, char, FALSE), len), data) /\ Scanned(Take(o, 1), data)
  BY <1>4, <1>7, CharUntouched, UntouchedScanned, TakeScanned
<1> QED BY <1>1, <1>6, <1>8, <1>9, <1>10, <1>11, <1>12, <1>13

LEMMA DoWriteScans ==
  ASSUME NEW S, NEW data \in Seq(S), OneReply(data), FlaggedIn(data), NEW isEof,
         IsClick(in.click), in.buttons \subseteq {"0", "1", "2"}
  PROVE  Scanned(doWrite(data, isEof), data)
<1> DEFINE start == [data |-> data, records |-> <<>>, given |-> <<>>, stop |-> FALSE,
                     replies |-> 0, dsrSent |-> in.dsrSent, buttons |-> in.buttons,
                     click |-> in.click]
           n == Len(data)
           f == CHOOSE g : DefinesScan(g, start, isEof, n)
<1>1. n \in Nat
  OBVIOUS
<1>2. Scanned(start, data)
  <2>1. IsObject(start)
    BY DEF IsObject
  <2>2. /\ start.data = data /\ start.buttons = in.buttons /\ start.replies = 0
        /\ start.dsrSent = in.dsrSent
    OBVIOUS
  <2> HIDE DEF start
  <2>3. 0 \in 0..Len(data) /\ data = SubSeq(data, 0 + 1, Len(data))
    OBVIOUS
  <2> QED BY <2>1, <2>2, <2>3 DEF Scanned
<1>3. doWrite(data, isEof) = flushInputRecords(f[n])
  BY DEF doWrite, DefinesScan
<1> HIDE DEF start, n
<1>4. DefinesScan(f, start, isEof, n)
  BY <1>1, ScanExists, Zenon
<1> HIDE DEF f
<1> DEFINE T == {i \in 0..n : Scanned(f[i], data)}
<1>5. 0 \in T
  <2>1. f[0] = start /\ 0 \in 0..n
    BY <1>1, <1>4 DEF DefinesScan
  <2> QED BY <1>2, <2>1
<1>6. ASSUME NEW i \in 1..n, i - 1 \in T PROVE i \in T
  <2>1. i \in 0..n /\ i # 0 /\ Scanned(f[i - 1], data)
    BY <1>1, <1>6
  <2> DEFINE stopped == f[i - 1].stop \/ f[i - 1].data = <<>>
             next == IF stopped THEN f[i - 1] ELSE scanInput(f[i - 1], isEof)
  <2>2. f[i] = CHOOSE x \in {IF o.stop \/ o.data = <<>> THEN o ELSE scanInput(o, isEof) :
                              o \in {f[i - 1]}} : TRUE
    BY <1>4, <2>1 DEF DefinesScan
  <2>3. {IF o.stop \/ o.data = <<>> THEN o ELSE scanInput(o, isEof) : o \in {f[i - 1]}} = {next}
    OBVIOUS
  <2> HIDE DEF next
  <2>4. f[i] = next
    BY <2>2, <2>3
  <2>5. Scanned(scanInput(f[i - 1], isEof), data)
    BY <2>1, ScanStep
  <2>6. Scanned(next, data)
    BY <2>1, <2>5 DEF next
  <2> QED BY <2>1, <2>4, <2>6
<1> HIDE DEF T
<1>7. Scanned(f[n], data)
  <2>1. 0..n \subseteq T
    BY <1>1, <1>5, <1>6, IntervalInduction
  <2> QED BY <1>1, <2>1 DEF T
<1>8. Untouched(f[n], flushInputRecords(f[n]))
  BY <1>7, FlushUntouched DEF Scanned
<1> QED BY <1>3, <1>7, <1>8, UntouchedScanned

----------------------------------------------------------------------------
(* What is typed ends no reply, and a report has a button's flags.         *)
Flagged(s) ==
  \A i \in 1..Len(s) : s[i] = "<" => i < Len(s) /\ s[i + 1] \in ButtonFlags

\* A mouse event of the history.
IsTyped(e) == e.kind # "key" => e.held \subseteq {"0", "2"}

LEMMA ReportSymbols ==
  ASSUME NEW x \in Columns, NEW held \in SUBSET {"0", "2"},
         NEW k \in MouseReports(<<x, "1">>, held)
  PROVE  k.bytes \in Seq(Symbol \ {"R"}) /\ Flagged(k.bytes) /\ IsTyped(k.event)
<1> DEFINE at == <<x, "1">>
<1>1. PICK S : S = Symbol \ {"R"}
  OBVIOUS
<1>2. {"ESC", "[", "<", ";", "M", "m", "0", "1", "2", "64", "32", "35"} \subseteq S /\ x \in S
  BY <1>1, NumbersAssumption DEF Symbol, Number
<1>3. at[1] = x /\ at[2] = "1"
  OBVIOUS
<1> HIDE DEF at
<1>4. ASSUME NEW flags \in {"0", "2", "64"}, NEW end \in {"M", "m"}
      PROVE  Report1006(flags, at, end) \in Seq(S) /\ Flagged(Report1006(flags, at, end))
  <2>1. PICK s : s = Report1006(flags, at, end)
    OBVIOUS
  <2>2. s = <<"ESC", "[", "<", flags, ";", x, ";", "1", end>>
    BY <1>3, <2>1 DEF Report1006
  <2>3. flags \in S /\ end \in S
    BY <1>2
  <2>4. s \in Seq(S)
    <3>1. PICK a, b, c, d, y : a = "ESC" /\ b = "[" /\ c = "<" /\ d = ";" /\ y = "1"
      OBVIOUS
    <3>2. a \in S /\ b \in S /\ c \in S /\ d \in S /\ y \in S /\ x \in S
      BY <1>2, <3>1
    <3>3. s = <<a, b, c, flags, d, x, d, y, end>>
      BY <2>2, <3>1
    <3> QED BY <2>3, <3>2, <3>3
  <2>5. /\ Len(s) = 9 /\ s[1] = "ESC" /\ s[2] = "[" /\ s[4] = flags /\ s[5] = ";"
        /\ s[6] = x /\ s[7] = ";" /\ s[8] = "1" /\ s[9] = end
    BY <2>2
  <2>6. x # "<"
    BY NumbersAssumption DEF Number
  <2>7. ASSUME NEW i \in 1..9, s[i] = "<" PROVE i = 3
    <3>1. i \in {1, 2, 3, 4, 5, 6, 7, 8, 9}
      OBVIOUS
    <3>2. /\ "<" # s[1] /\ "<" # s[2] /\ "<" # s[4] /\ "<" # s[5] /\ "<" # s[6]
          /\ "<" # s[7] /\ "<" # s[8] /\ "<" # s[9]
      BY <2>5, <2>6
    <3> QED BY <2>7, <3>1, <3>2
  <2>8. flags \in ButtonFlags /\ 3 + 1 = 4 /\ 3 < 9
    BY DEF ButtonFlags
  <2>9. Flagged(s)
    BY <2>5, <2>7, <2>8 DEF Flagged
  <2> QED BY <2>1, <2>4, <2>9
<1>5. ASSUME NEW flags \in {"32", "35"}
      PROVE  Report1015(flags, at) \in Seq(S) /\ Flagged(Report1015(flags, at))
  <2>1. PICK s : s = Report1015(flags, at)
    OBVIOUS
  <2>2. s = <<"ESC", "[", flags, ";", x, ";", "1", "M">>
    BY <1>3, <2>1 DEF Report1015
  <2>3. s \in Seq(S)
    <3>1. PICK a, b, d, y, m : a = "ESC" /\ b = "[" /\ d = ";" /\ y = "1" /\ m = "M"
      OBVIOUS
    <3>2. a \in S /\ b \in S /\ d \in S /\ y \in S /\ m \in S /\ x \in S /\ flags \in S
      BY <1>2, <3>1
    <3>3. s = <<a, b, flags, d, x, d, y, m>>
      BY <2>2, <3>1
    <3> QED BY <3>2, <3>3
  <2>4. /\ Len(s) = 8 /\ s[1] = "ESC" /\ s[2] = "[" /\ s[3] = flags /\ s[4] = ";"
        /\ s[5] = x /\ s[6] = ";" /\ s[7] = "1" /\ s[8] = "M"
    BY <2>2
  <2>5. x # "<"
    BY NumbersAssumption DEF Number
  <2>6. ASSUME NEW i \in 1..8 PROVE s[i] # "<"
    <3>1. i \in {1, 2, 3, 4, 5, 6, 7, 8}
      OBVIOUS
    <3>2. /\ "<" # s[1] /\ "<" # s[2] /\ "<" # s[3] /\ "<" # s[4] /\ "<" # s[5] /\ "<" # s[6]
          /\ "<" # s[7] /\ "<" # s[8]
      BY <2>4, <2>5
    <3> QED BY <3>1, <3>2
  <2>7. Flagged(s)
    BY <2>4, <2>6 DEF Flagged
  <2> QED BY <2>1, <2>3, <2>7
<1>6. \E bytes, kind, h :
        /\ k = Report(bytes, kind, at, h) /\ h \subseteq {"0", "2"}
        /\ \/ \E flags \in {"0", "2", "64"}, end \in {"M", "m"} :
                bytes = Report1006(flags, at, end)
           \/ \E flags \in {"32", "35"} : bytes = Report1015(flags, at)
  <2>1. CASE "sgrMouse" \in mode
    <3>1. \/ \E b \in {"0", "2"} \ held :
               k = Report(Report1006(b, at, "M"), "mouse", at, held \union {b})
          \/ \E b \in held : k = Report(Report1006(b, at, "m"), "mouse", at, held \ {b})
          \/ k = Report(Report1006("64", at, "M"), "wheel", at, held)
      BY <2>1 DEF MouseReports, at
    <3>2. ASSUME NEW b \in {"0", "2"} \ held
          PROVE  b \in {"0", "2", "64"} /\ held \union {b} \subseteq {"0", "2"}
      OBVIOUS
    <3>3. ASSUME NEW b \in held PROVE b \in {"0", "2", "64"} /\ held \ {b} \subseteq {"0", "2"}
      OBVIOUS
    <3> QED BY <3>1, <3>2, <3>3
  <2>2. CASE "sgrMouse" \notin mode
    <3>1. \/ k = Report(Report1015("32", at), "mouse", at, {"0"})
          \/ k = Report(Report1015("35", at), "mouse", at, {})
      BY <2>2 DEF MouseReports, at
    <3> QED BY <3>1
  <2> QED BY <2>1, <2>2
<1>7. PICK bytes, kind, h :
        /\ k = Report(bytes, kind, at, h) /\ h \subseteq {"0", "2"}
        /\ bytes \in Seq(S) /\ Flagged(bytes)
  BY <1>4, <1>5, <1>6
<1>8. k.bytes = bytes /\ k.event.held = h
  BY <1>7 DEF Report
<1> QED BY <1>1, <1>7, <1>8 DEF IsTyped

LEMMA InputSymbols ==
  ASSUME Held \subseteq {"0", "2"},
         NEW k \in UserKeys \union UNION {MouseReports(<<x, "1">>, Held) : x \in Columns}
  PROVE  k.bytes \in Seq(Symbol \ {"R"}) /\ Flagged(k.bytes) /\ IsTyped(k.event)
<1>1. CASE k \in UNION {MouseReports(<<x, "1">>, Held) : x \in Columns}
  BY <1>1, ReportSymbols
<1>2. ASSUME k.bytes \in Seq(KeySymbol), k.event.kind = "key"
      PROVE  k.bytes \in Seq(Symbol \ {"R"}) /\ Flagged(k.bytes) /\ IsTyped(k.event)
  <2>1. KeySymbol \subseteq Symbol \ {"R"} /\ "<" \notin KeySymbol
    BY DEF KeySymbol
  <2>2. PICK s, A, B : s = k.bytes /\ A = KeySymbol /\ B = Symbol \ {"R"}
    OBVIOUS
  <2>3. s \in Seq(B) /\ \A i \in 1..Len(s) : s[i] \in A
    BY <1>2, <2>1, <2>2
  <2>4. Flagged(s)
    BY <2>1, <2>2, <2>3 DEF Flagged
  <2> QED BY <1>2, <2>2, <2>3, <2>4 DEF IsTyped
<1>3. CASE k \in UserKeys
  <2>1. \/ \E l \in InputMap : k = [bytes |-> l.bytes, event |-> Meant(l)] /\ l.key # "F3"
        \/ k \in {Typed(<<"a">>, "a", {}), Typed(<<"ESC">>, "ESC", {}),
                  Typed(<<"e'1", "e'2">>, "e'", {}),
                  Typed(<<"clef1", "clef2", "clef3", "clef4">>, "clef", {}),
                  Typed(<<"ESC", "a">>, "a", {"Alt"}),
                  Typed(<<"ESC", "e'1", "e'2">>, "e'", {"Alt"}),
                  Typed(<<"ESC", "[">>, "[", {"Alt"}), Typed(<<"ESC", "O">>, "O", {"Alt"})}
    <3> HIDE DEF InputMap
    <3> QED BY <1>3 DEF UserKeys
  <2>2. ASSUME NEW l \in InputMap, k = [bytes |-> l.bytes, event |-> Meant(l)], l.key # "F3"
        PROVE  k.bytes \in Seq(KeySymbol) /\ k.event.kind = "key"
    <3>1. l.bytes \in Seq(KeySymbol)
      <4>1. IsKey(l)
        BY MapKeys
      <4> QED BY <2>2, <4>1 DEF IsKey, KeyBytes
    <3>2. Meant(l).kind = "key"
      BY DEF Meant, Event
    <3> QED BY <2>2, <3>1, <3>2
  <2>3. CASE k \in {Typed(<<"a">>, "a", {}), Typed(<<"ESC">>, "ESC", {}),
                    Typed(<<"e'1", "e'2">>, "e'", {}),
                    Typed(<<"clef1", "clef2", "clef3", "clef4">>, "clef", {}),
                    Typed(<<"ESC", "a">>, "a", {"Alt"}),
                    Typed(<<"ESC", "e'1", "e'2">>, "e'", {"Alt"}),
                    Typed(<<"ESC", "[">>, "[", {"Alt"}), Typed(<<"ESC", "O">>, "O", {"Alt"})}
    <3>1. {"a", "ESC", "e'1", "e'2", "clef1", "clef2", "clef3", "clef4", "[", "O"}
            \subseteq KeySymbol
      BY DEF KeySymbol, Symbol, Number
    <3>2. /\ <<"a">> \in Seq(KeySymbol) /\ <<"ESC">> \in Seq(KeySymbol)
          /\ <<"e'1", "e'2">> \in Seq(KeySymbol)
          /\ <<"ESC", "a">> \in Seq(KeySymbol) /\ <<"ESC", "e'1", "e'2">> \in Seq(KeySymbol)
          /\ <<"ESC", "[">> \in Seq(KeySymbol) /\ <<"ESC", "O">> \in Seq(KeySymbol)
      BY <3>1, KeyTuples
    <3>3. <<"clef1", "clef2", "clef3", "clef4">> \in Seq(KeySymbol)
      <4>1. PICK S, a, b, c, d : /\ S = KeySymbol /\ a = "clef1" /\ b = "clef2"
                                 /\ c = "clef3" /\ d = "clef4"
        OBVIOUS
      <4>2. a \in S /\ b \in S /\ c \in S /\ d \in S
        BY <3>1, <4>1
      <4>3. <<a, b, c, d>> \in Seq(S)
        BY <4>2
      <4> QED BY <4>1, <4>3
    <3>5. PICK b, w, h :
            /\ k = Typed(b, w, h)
            /\ b \in {<<"a">>, <<"ESC">>, <<"e'1", "e'2">>,
                      <<"clef1", "clef2", "clef3", "clef4">>, <<"ESC", "a">>,
                      <<"ESC", "e'1", "e'2">>, <<"ESC", "[">>, <<"ESC", "O">>}
      BY <2>3, Zenon
    <3>6. b \in Seq(KeySymbol)
      BY <3>2, <3>3, <3>5
    <3>4. k.bytes = b /\ k.event.kind = "key"
      <4>1. k = Typed(b, w, h)
        BY <3>5
      <4> QED BY <4>1 DEF Typed, Event
    <3> QED BY <1>2, <3>4, <3>6
  <2> QED BY <1>2, <2>1, <2>2, <2>3
<1> QED BY <1>1, <1>3

\* The user holds what the last mouse event says.
LEMMA HeldButtons ==
  ASSUME NEW S, typed \in Seq(S), \A i \in 1..Len(typed) : IsTyped(typed[i])
  PROVE  Held \subseteq {"0", "2"}
<1> DEFINE mouse == {i \in DOMAIN typed : typed[i].kind # "key"}
<1>1. Held = IF mouse = {} THEN {} ELSE typed[Max(mouse)].held
  BY DEF Held
<1>2. Len(typed) \in Nat /\ mouse \in SUBSET (0..Len(typed)) /\ DOMAIN typed = 1..Len(typed)
  OBVIOUS
<1>3. mouse # {} => Max(mouse) \in mouse
  <2> HIDE DEF mouse
  <2> QED BY <1>2, MaxOfInterval
<1>4. CASE mouse # {}
  <2>1. PICK i \in 1..Len(typed) : i = Max(mouse) /\ typed[i].kind # "key"
    BY <1>2, <1>3, <1>4
  <2> QED BY <1>1, <1>4, <2>1 DEF IsTyped
<1> QED BY <1>1, <1>4

----------------------------------------------------------------------------
(***************************************************************************)
(* The bytes between the terminal and the keys: those that wait to be taken*)
(* and those that wait to be read.  Taking some from the front loses what  *)
(* is in them, and adds nothing.                                           *)
(***************************************************************************)
\* t is s without its first m symbols.
Cut(s, t, m) == m \in 0..Len(s) /\ Len(t) = Len(s) - m /\ \A i \in 1..Len(t) : t[i] = s[m + i]

LEMMA DsrInCut ==
  ASSUME NEW S, NEW s \in Seq(S), NEW t \in Seq(S), NEW m, Cut(s, t, m), NEW i, DsrAt(t, i)
  PROVE  DsrAt(s, m + i)
<1>1. Len(t) \in Nat /\ Len(s) \in Nat /\ m \in 0..Len(s) /\ Len(t) = Len(s) - m
  BY DEF Cut
<1>2. DOMAIN t = 1..Len(t)
  OBVIOUS
<1> DEFINE u == SubSeq(s, m + 1, Len(s))
<1>3. u \in Seq(S) /\ Len(u) = Len(s) - m /\ \A j \in 1..Len(u) : u[j] = s[m + j]
  BY <1>1
<1>4. DOMAIN u = 1..Len(u)
  BY <1>3
<1> HIDE DEF u
<1>5. \A j \in 1..Len(t) : t[j] = u[j]
  BY <1>1, <1>3 DEF Cut
<1>6. t = u
  BY <1>1, <1>2, <1>3, <1>4, <1>5
<1> QED BY <1>1, <1>6, DsrShifted DEF u

LEMMA CutKept ==
  ASSUME NEW S, NEW s \in Seq(S), NEW t \in Seq(S), NEW m, Cut(s, t, m),
         Flagged(s), OneReply(s)
  PROVE  /\ Flagged(t) /\ OneReply(t)
         /\ (\A i \in 1..Len(s) : ~DsrAt(s, i)) => \A i \in 1..Len(t) : ~DsrAt(t, i)
         /\ (\E i \in 1..m : DsrAt(s, i)) => \A i \in 1..Len(t) : ~DsrAt(t, i)
<1>1. PICK l, n : l = Len(t) /\ n = Len(s)
  OBVIOUS
<1>2. n \in Nat /\ m \in 0..n /\ l = n - m
  BY <1>1 DEF Cut
<1>3. \A i \in 1..l : m + i \in 1..n /\ t[i] = s[m + i]
  BY <1>1, <1>2 DEF Cut
<1>4. ASSUME NEW i \in 1..l, t[i] = "<"
      PROVE  i < l /\ t[i + 1] \in ButtonFlags
  <2>1. m + i < n /\ s[(m + i) + 1] \in ButtonFlags
    BY <1>1, <1>3, <1>4 DEF Flagged
  <2>2. i < l /\ i + 1 \in 1..l /\ m + (i + 1) = (m + i) + 1
    BY <1>2, <2>1
  <2> QED BY <1>3, <2>1, <2>2
<1>5. Flagged(t)
  BY <1>1, <1>4 DEF Flagged
<1>6. ASSUME NEW i, DsrAt(t, i)
      PROVE  DsrAt(s, m + i) /\ m + i \in 1..n /\ i \in 1..l
  <2>1. DsrAt(s, m + i)
    BY <1>6, DsrInCut
  <2>2. m + i \in 1..Len(s) /\ i \in 1..Len(t)
    BY <1>6, <2>1 DEF DsrAt
  <2> QED BY <1>1, <2>1, <2>2
<1>7. ASSUME NEW i \in 1..l, NEW j \in 1..l, DsrAt(t, i), DsrAt(t, j)
      PROVE  i = j
  <2>1. m + i = m + j
    BY <1>1, <1>6, <1>7 DEF OneReply
  <2> QED BY <1>2, <2>1
<1>8. OneReply(t)
  BY <1>1, <1>7 DEF OneReply
<1>9. (\A i \in 1..n : ~DsrAt(s, i)) => \A i \in 1..l : ~DsrAt(t, i)
  BY <1>6
<1>10. ASSUME NEW i \in 1..m, DsrAt(s, i), NEW j \in 1..l, DsrAt(t, j)
       PROVE  FALSE
  <2>1. i \in 1..n /\ m + j # i
    BY <1>2, <1>10
  <2> QED BY <1>1, <1>6, <1>10, <2>1 DEF OneReply
<1> QED BY <1>1, <1>5, <1>8, <1>9, <1>10

\* The front of it, in which the end of a report may be missing.
LEMMA FrontKept ==
  ASSUME NEW S, NEW s \in Seq(S), NEW p \in Seq(S), Len(p) <= Len(s),
         \A i \in 1..Len(p) : p[i] = s[i], Flagged(s), OneReply(s)
  PROVE  /\ FlaggedIn(p) /\ OneReply(p)
         /\ \A i : DsrAt(p, i) => DsrAt(s, i)
<1>1. PICK l, n : l = Len(p) /\ n = Len(s)
  OBVIOUS
<1>2. l \in Nat /\ n \in Nat /\ l <= n /\ \A i \in 1..l : i \in 1..n /\ p[i] = s[i]
  BY <1>1
<1>3. FlaggedIn(p)
  <2>1. ASSUME NEW i \in 1..(l - 1), p[i] = "<" PROVE p[i + 1] \in ButtonFlags
    <3>1. i \in 1..l /\ i + 1 \in 1..l
      BY <1>2
    <3>2. s[i + 1] \in ButtonFlags
      BY <1>1, <1>2, <2>1, <3>1 DEF Flagged
    <3> QED BY <1>2, <3>1, <3>2
  <2> QED BY <1>1, <2>1 DEF FlaggedIn
<1>4. ASSUME NEW i, DsrAt(p, i) PROVE DsrAt(s, i) /\ i \in 1..n /\ i \in 1..l
  <2>1. i \in 1..l /\ i + 5 <= l
    BY <1>1, <1>4 DEF DsrAt
  <2>2. i + 5 <= n /\ \A j \in {0, 1, 2, 3, 4, 5} : i + j \in 1..l
    BY <1>2, <2>1
  <2>3. \A j \in {0, 1, 2, 3, 4, 5} : p[i + j] = s[i + j]
    BY <1>2, <2>2
  <2>4. p[i] = s[i]
    BY <1>2, <2>1
  <2> QED BY <1>1, <1>2, <1>4, <2>1, <2>2, <2>3, <2>4 DEF DsrAt
<1>5. OneReply(p)
  BY <1>1, <1>4 DEF OneReply
<1> QED BY <1>3, <1>4, <1>5

\* More is typed.
LEMMA Typing ==
  ASSUME NEW s \in Seq(Symbol), NEW b \in Seq(Symbol), Flagged(s), Flagged(b)
  PROVE  /\ Flagged(s \o b)
         /\ \A i : DsrAt(s \o b, i) =>
                     DsrAt(s, i) \/ (\E j \in 1..Len(b) : b[j] = "R" /\ i + 5 = Len(s) + j)
<1>1. PICK l, n, r : l = Len(s) /\ n = Len(b) /\ r = s \o b
  OBVIOUS
<1>2. /\ l \in Nat /\ n \in Nat /\ Len(r) = l + n
      /\ \A i \in 1..l : r[i] = s[i]
      /\ \A i \in 1..n : r[l + i] = b[i]
  BY <1>1
<1>3. \A i \in 1..(l + n) : i \in 1..l \/ (i - l \in 1..n /\ i = l + (i - l) /\ r[i] = b[i - l])
  <2>1. ASSUME NEW i \in 1..(l + n), i \notin 1..l PROVE i - l \in 1..n /\ i = l + (i - l)
    BY <1>2, <2>1
  <2> QED BY <1>2, <2>1
<1>4. ASSUME NEW i \in 1..(l + n), r[i] = "<"
      PROVE  i < l + n /\ r[i + 1] \in ButtonFlags
  <2>1. CASE i \in 1..l
    <3>1. i < l /\ s[i + 1] \in ButtonFlags
      BY <1>1, <1>2, <1>4, <2>1 DEF Flagged
    <3>2. i + 1 \in 1..l /\ i < l + n
      BY <1>2, <2>1, <3>1
    <3> QED BY <1>2, <3>1, <3>2
  <2>2. CASE i \notin 1..l
    <3>1. i - l \in 1..n /\ i = l + (i - l) /\ r[i] = b[i - l]
      BY <1>3, <2>2
    <3>2. PICK k : k = i - l
      OBVIOUS
    <3>3. k < n /\ b[k + 1] \in ButtonFlags
      BY <1>1, <1>4, <3>1, <3>2 DEF Flagged
    <3>4. k + 1 \in 1..n /\ i + 1 = l + (k + 1) /\ i < l + n
      BY <1>2, <3>1, <3>2, <3>3
    <3> QED BY <1>2, <3>3, <3>4
  <2> QED BY <2>1, <2>2
<1>5. Flagged(r)
  BY <1>2, <1>4 DEF Flagged
<1>6. ASSUME NEW i, DsrAt(r, i), ~DsrAt(s, i)
      PROVE  \E j \in 1..n : b[j] = "R" /\ i + 5 = l + j
  <2>1. i \in 1..(l + n) /\ i + 5 <= l + n /\ r[i + 5] = "R"
    BY <1>2, <1>6 DEF DsrAt
  <2>2. ASSUME i + 5 <= l PROVE FALSE
    <3>1. i \in 1..l /\ \A j \in {0, 1, 2, 3, 4, 5} : i + j \in 1..l
      BY <1>2, <2>1, <2>2
    <3>2. \A j \in {0, 1, 2, 3, 4, 5} : r[i + j] = s[i + j]
      BY <1>2, <3>1
    <3>3. r[i] = s[i]
      BY <1>2, <3>1
    <3> QED BY <1>1, <1>6, <2>2, <3>1, <3>2, <3>3 DEF DsrAt
  <2>3. (i + 5) - l \in 1..n /\ i + 5 = l + ((i + 5) - l)
    BY <1>2, <2>1, <2>2
  <2> QED BY <1>2, <2>1, <2>3
<1> QED BY <1>1, <1>5, <1>6

----------------------------------------------------------------------------
Bytes(w) == [i \in 1..Len(w) |-> w[i].byte]

Stream == byteQueue \o Bytes(wire)

TypesInv ==
  /\ byteQueue \in Seq(Symbol) /\ Bytes(wire) \in Seq(Symbol)
  /\ Flagged(Stream) /\ OneReply(Stream)
  /\ asked \in 0..1 /\ unread \in asked..1
  /\ unread = asked => \A i \in 1..Len(Stream) : ~DsrAt(Stream, i)
  /\ in.late \in BOOLEAN /\ in.dsrSent \in BOOLEAN /\ in.buttons \subseteq {"0", "1", "2"}
  /\ IF "plain" \in mode THEN unread = 0 ELSE in.dsrSent <=> unread = 1
  /\ IsSequence(typed) /\ \A i \in 1..Len(typed) : IsTyped(typed[i])

LEMMA Joined ==
  ASSUME NEW S, NEW a \in Seq(S), NEW b \in Seq(S)
  PROVE  /\ a \o b \in Seq(S) /\ Len(a \o b) = Len(a) + Len(b)
         /\ \A i \in 1..Len(a) : (a \o b)[i] = a[i]
         /\ \A i \in 1..Len(b) : (a \o b)[Len(a) + i] = b[i]
OBVIOUS

LEMMA EndOf ==
  ASSUME NEW S, NEW s \in Seq(S), NEW m \in 0..Len(s)
  PROVE  LET t == SubSeq(s, m + 1, Len(s)) IN
         t \in Seq(S) /\ Len(t) = Len(s) - m /\ \A i \in 1..Len(t) : t[i] = s[m + i]
OBVIOUS

\* What a call of doWrite does to the stream when it takes m bytes, and n were read.
LEMMA StreamCut ==
  ASSUME NEW a \in Seq(Symbol), NEW w \in Seq(Symbol), NEW n \in 0..Len(w),
         NEW m \in 0..(Len(a) + n)
  PROVE  LET data == a \o SubSeq(w, 1, n)
             x    == SubSeq(data, m + 1, Len(data))
             rest == SubSeq(w, n + 1, Len(w))
         IN /\ data \in Seq(Symbol) /\ Len(data) = Len(a) + n /\ Len(data) <= Len(a \o w)
            /\ \A i \in 1..Len(data) : data[i] = (a \o w)[i]
            /\ x \in Seq(Symbol) /\ rest \in Seq(Symbol)
            /\ Cut(a \o w, x \o rest, m)
<1>1. PICK S : S = Symbol
  OBVIOUS
<1>2. PICK f : f = SubSeq(w, 1, n)
  OBVIOUS
<1>3. f \in Seq(S) /\ Len(f) = n /\ \A i \in 1..n : f[i] = w[i]
  BY <1>1, <1>2
<1>4. PICK data : data = a \o f
  OBVIOUS
<1>5. PICK la, lw, s : la = Len(a) /\ lw = Len(w) /\ s = a \o w
  OBVIOUS
<1>6. /\ la \in Nat /\ lw \in Nat /\ n \in 0..lw /\ m \in 0..(la + n)
      /\ s \in Seq(S) /\ Len(s) = la + lw
      /\ \A i \in 1..la : s[i] = a[i]
      /\ \A i \in 1..lw : s[la + i] = w[i]
  BY <1>1, <1>5
<1>7. /\ data \in Seq(S) /\ Len(data) = la + n
      /\ \A i \in 1..la : data[i] = a[i]
      /\ \A i \in 1..n : data[la + i] = f[i]
  <2>1. a \in Seq(S)
    BY <1>1
  <2>2. /\ data \in Seq(S) /\ Len(data) = Len(a) + Len(f)
        /\ \A i \in 1..Len(a) : data[i] = a[i]
        /\ \A i \in 1..Len(f) : data[Len(a) + i] = f[i]
    <3>1. f \in Seq(S)
      BY <1>3
    <3>2. /\ a \o f \in Seq(S) /\ Len(a \o f) = Len(a) + Len(f)
          /\ \A i \in 1..Len(a) : (a \o f)[i] = a[i]
          /\ \A i \in 1..Len(f) : (a \o f)[Len(a) + i] = f[i]
      BY <2>1, <3>1, Joined
    <3> QED BY <1>4, <3>2
  <2> QED BY <1>3, <1>5, <2>2
<1>8. ASSUME NEW i \in 1..(la + n) PROVE data[i] = s[i]
  <2>1. CASE i \in 1..la
    BY <1>6, <1>7, <2>1
  <2>2. CASE i \notin 1..la
    <3>1. PICK j : j = i - la
      OBVIOUS
    <3>2. j \in 1..n /\ j \in 1..lw /\ i = la + j
      BY <1>6, <2>2, <3>1
    <3> QED BY <1>3, <1>6, <1>7, <3>2
  <2> QED BY <2>1, <2>2
<1>9. PICK x, rest : x = SubSeq(data, m + 1, Len(data)) /\ rest = SubSeq(w, n + 1, Len(w))
  OBVIOUS
<1>10. x \in Seq(S) /\ Len(x) = (la + n) - m /\ \A i \in 1..Len(x) : x[i] = data[m + i]
  BY <1>6, <1>7, <1>9
<1>11. rest \in Seq(S) /\ Len(rest) = lw - n /\ \A i \in 1..Len(rest) : rest[i] = w[n + i]
  <2>1. w \in Seq(S) /\ n \in 0..Len(w)
    BY <1>1
  <2>2. rest \in Seq(S) /\ Len(rest) = Len(w) - n /\ \A i \in 1..Len(rest) : rest[i] = w[n + i]
    BY <1>9, <2>1, EndOf
  <2> QED BY <1>5, <2>2
<1>12. PICK t, lx : t = x \o rest /\ lx = Len(x)
  OBVIOUS
<1>13. /\ Len(t) = (la + lw) - m /\ lx = (la + n) - m
       /\ \A i \in 1..lx : t[i] = x[i]
       /\ \A i \in 1..(lw - n) : t[lx + i] = rest[i]
  <2>1. /\ Len(t) = Len(x) + Len(rest) /\ \A i \in 1..Len(x) : t[i] = x[i]
        /\ \A i \in 1..Len(rest) : t[Len(x) + i] = rest[i]
    <3>1. x \in Seq(S) /\ rest \in Seq(S)
      BY <1>10, <1>11
    <3>2. /\ Len(x \o rest) = Len(x) + Len(rest)
          /\ \A i \in 1..Len(x) : (x \o rest)[i] = x[i]
          /\ \A i \in 1..Len(rest) : (x \o rest)[Len(x) + i] = rest[i]
      BY <3>1, Joined
    <3> QED BY <1>12, <3>2
  <2>2. PICK lr : lr = Len(rest)
    OBVIOUS
  <2>3. lx = (la + n) - m /\ lr = lw - n
    BY <1>10, <1>11, <1>12, <2>2
  <2>4. lx + lr = (la + lw) - m
    BY <1>6, <2>3
  <2> QED BY <1>12, <2>1, <2>2, <2>3, <2>4
<1>14. ASSUME NEW i \in 1..((la + lw) - m) PROVE t[i] = s[m + i]
  <2>1. CASE i \in 1..lx
    <3>1. m + i \in 1..(la + n)
      BY <1>6, <1>13, <2>1
    <3> QED BY <1>8, <1>10, <1>12, <1>13, <2>1, <3>1
  <2>2. CASE i \notin 1..lx
    <3>1. PICK j : j = i - lx
      OBVIOUS
    <3>2. /\ j \in 1..(lw - n) /\ i = lx + j
          /\ n + j \in 1..lw /\ m + i = la + (n + j)
      <4>1. /\ la \in Nat /\ lw \in Nat /\ n \in 0..lw /\ m \in 0..(la + n)
            /\ lx = (la + n) - m
        BY <1>6, <1>13
      <4> QED BY <2>2, <3>1, <4>1
    <3> QED BY <1>6, <1>11, <1>13, <3>2
  <2> QED BY <2>1, <2>2
<1>15. Cut(s, t, m)
  <2>1. m \in 0..Len(s) /\ Len(t) = Len(s) - m
    BY <1>6, <1>13
  <2> QED BY <1>13, <1>14, <2>1 DEF Cut
<1>16. Len(data) = Len(a) + n /\ Len(data) <= Len(s)
  BY <1>5, <1>6, <1>7
<1>17. \A i \in 1..Len(data) : data[i] = s[i]
  BY <1>7, <1>8
<1> QED BY <1>1, <1>2, <1>4, <1>5, <1>7, <1>9, <1>10, <1>11, <1>12, <1>15, <1>16, <1>17

LEMMA BytesOf ==
  ASSUME IsSequence(wire), NEW n \in 0..Len(wire)
  PROVE  /\ Len(Bytes(wire)) = Len(wire) /\ Len(wire) \in Nat
         /\ [i \in 1..n |-> wire[i].byte] = SubSeq(Bytes(wire), 1, n)
         /\ Bytes(SubSeq(wire, n + 1, Len(wire))) = SubSeq(Bytes(wire), n + 1, Len(Bytes(wire)))
<1>1. PICK C : wire \in Seq(C)
  BY DEF IsSequence
<1>2. PICK l : l = Len(wire)
  OBVIOUS
<1>3. l \in Nat /\ n \in 0..l
  BY <1>1, <1>2
<1>4. PICK B : B = {wire[i].byte : i \in 1..l}
  OBVIOUS
<1>5. PICK w : w = Bytes(wire)
  OBVIOUS
<1>6. w = [i \in 1..l |-> wire[i].byte]
  BY <1>2, <1>5 DEF Bytes
<1>7. w \in Seq(B) /\ Len(w) = l /\ \A i \in 1..l : w[i] = wire[i].byte
  BY <1>3, <1>4, <1>6
<1>8. [i \in 1..n |-> wire[i].byte] = SubSeq(w, 1, n)
  <2>1. SubSeq(w, 1, n) = [i \in 1..n |-> w[i]]
    BY <1>3, <1>7
  <2>2. \A i \in 1..n : w[i] = wire[i].byte
    BY <1>3, <1>7
  <2> QED BY <2>1, <2>2
<1>9. PICK r : r = SubSeq(wire, n + 1, l)
  OBVIOUS
<1>10. Len(r) = l - n /\ \A i \in 1..(l - n) : r[i] = wire[n + i]
  BY <1>1, <1>2, <1>3, <1>9
<1>11. Bytes(r) = SubSeq(w, n + 1, l)
  <2>1. SubSeq(w, n + 1, l) = [i \in 1..(l - n) |-> w[n + i]]
    <3>1. PICK t : t = SubSeq(w, n + 1, l)
      OBVIOUS
    <3>2. t \in Seq(B) /\ Len(t) = l - n /\ \A i \in 1..Len(t) : t[i] = w[n + i]
      BY <1>3, <1>7, <3>1, EndOf
    <3>3. t = [i \in 1..Len(t) |-> t[i]]
      BY <3>2
    <3> QED BY <3>1, <3>2, <3>3
  <2>2. \A i \in 1..(l - n) : w[n + i] = wire[n + i].byte
    <3>1. \A i \in 1..(l - n) : n + i \in 1..l
      BY <1>3
    <3> QED BY <1>7, <3>1
  <2>3. Bytes(r) = [i \in 1..(l - n) |-> wire[n + i].byte]
    <3>1. Bytes(r) = [i \in 1..(l - n) |-> r[i].byte]
      BY <1>10 DEF Bytes
    <3> QED BY <1>10, <3>1
  <2> QED BY <2>1, <2>2, <2>3
<1> QED BY <1>2, <1>3, <1>5, <1>7, <1>8, <1>9, <1>11

LEMMA PollTypes ==
  ASSUME InputInv, TypesInv, pollConinPipe
  PROVE  TypesInv'
<1>1. IsSequence(wire) /\ IsClick(in.click)
  BY DEF InputInv, IsMembers
<1>2. PICK n \in 1..Len(wire) :
      \E o \in {doWrite(byteQueue \o [i \in 1..n |-> wire[i].byte], FALSE)} :
        LET sent == IF SendDsr(o) /\ "plain" \notin mode THEN 1 ELSE 0
        IN /\ Written(o, o.data, o.dsrSent \/ SendDsr(o))
           /\ wire' = SubSeq(wire, n + 1, Len(wire))
           /\ asked' = asked + sent
           /\ unread' = unread + sent - o.replies
           /\ UNCHANGED <<mode, typed>>
  BY DEF pollConinPipe
<1>3. PICK w : w = Bytes(wire)
  OBVIOUS
<1>4. PICK data : data = byteQueue \o [i \in 1..n |-> wire[i].byte]
  OBVIOUS
<1>5. PICK o : /\ o = doWrite(data, FALSE)
               /\ Written(o, o.data, o.dsrSent \/ SendDsr(o))
               /\ LET sent == IF SendDsr(o) /\ "plain" \notin mode THEN 1 ELSE 0
                  IN /\ asked' = asked + sent
                     /\ unread' = unread + sent - o.replies
  BY <1>2, <1>4
<1>6. /\ n \in 0..Len(w) /\ data = byteQueue \o SubSeq(w, 1, n)
      /\ Bytes(wire') = SubSeq(w, n + 1, Len(w))
  <2>1. Len(wire) \in Nat
    BY <1>1 DEF IsSequence
  <2>2. n \in 0..Len(wire)
    BY <2>1
  <2>3. wire' = SubSeq(wire, n + 1, Len(wire))
    BY <1>2
  <2> QED BY <1>1, <1>3, <1>4, <2>2, <2>3, BytesOf
<1>7. byteQueue \in Seq(Symbol) /\ w \in Seq(Symbol) /\ Stream = byteQueue \o w
  BY <1>3 DEF TypesInv, Stream
<1>8. PICK s : s = Stream
  OBVIOUS
<1>9. s \in Seq(Symbol) /\ Flagged(s) /\ OneReply(s)
  BY <1>7, <1>8 DEF TypesInv
<1>10. ASSUME NEW m \in 0..(Len(byteQueue) + n)
       PROVE  /\ data \in Seq(Symbol) /\ Len(data) = Len(byteQueue) + n /\ Len(data) <= Len(s)
              /\ \A i \in 1..Len(data) : data[i] = s[i]
              /\ SubSeq(data, m + 1, Len(data)) \in Seq(Symbol) /\ Bytes(wire') \in Seq(Symbol)
              /\ Cut(s, SubSeq(data, m + 1, Len(data)) \o Bytes(wire'), m)
  BY <1>6, <1>7, <1>8, <1>10, StreamCut
<1>11. /\ data \in Seq(Symbol) /\ Len(data) = Len(byteQueue) + n /\ Len(data) <= Len(s)
       /\ \A i \in 1..Len(data) : data[i] = s[i]
  <2>1. 0 \in 0..(Len(byteQueue) + n)
    BY <1>6, <1>7
  <2> QED BY <1>10, <2>1
<1>12. FlaggedIn(data) /\ OneReply(data) /\ \A i : DsrAt(data, i) => DsrAt(s, i)
  BY <1>9, <1>11, FrontKept
<1>13. Scanned(o, data)
  BY <1>1, <1>5, <1>11, <1>12, DoWriteScans DEF TypesInv
<1>14. PICK m \in 0..Len(data) :
         /\ o.data = SubSeq(data, m + 1, Len(data))
         /\ \/ o.replies = 0 /\ o.dsrSent = in.dsrSent
            \/ o.replies = 1 /\ o.dsrSent = FALSE /\ \E i \in 1..m : DsrAt(data, i)
  BY <1>13 DEF Scanned
<1>15. byteQueue' = o.data /\ in' = [dsrSent |-> o.dsrSent \/ SendDsr(o), late |-> FALSE,
                                     buttons |-> o.buttons, click |-> o.click]
  BY <1>5 DEF Written
<1>16. /\ byteQueue' \in Seq(Symbol) /\ Bytes(wire') \in Seq(Symbol)
       /\ Cut(s, byteQueue' \o Bytes(wire'), m)
  BY <1>10, <1>11, <1>14, <1>15
<1>17. PICK t : t = byteQueue' \o Bytes(wire')
  OBVIOUS
<1>18. t \in Seq(Symbol) /\ Cut(s, t, m)
  BY <1>16, <1>17, Joined
<1>19. /\ Flagged(t) /\ OneReply(t)
       /\ (\A i \in 1..Len(s) : ~DsrAt(s, i)) => \A i \in 1..Len(t) : ~DsrAt(t, i)
       /\ (\E i \in 1..m : DsrAt(s, i)) => \A i \in 1..Len(t) : ~DsrAt(t, i)
  BY <1>9, <1>18, CutKept
<1>20. /\ asked \in 0..1 /\ unread \in asked..1
       /\ unread = asked => \A i \in 1..Len(s) : ~DsrAt(s, i)
       /\ in.dsrSent \in BOOLEAN
       /\ IF "plain" \in mode THEN unread = 0 ELSE in.dsrSent <=> unread = 1
  BY <1>8 DEF TypesInv
<1>21. PICK sent \in 0..1 :
         /\ sent = 1 <=> SendDsr(o) /\ "plain" \notin mode
         /\ asked' = asked + sent /\ unread' = unread + sent - o.replies
  <2>1. PICK sends : sends = (SendDsr(o) /\ "plain" \notin mode)
    OBVIOUS
  <2>2. PICK sent : sent = IF sends THEN 1 ELSE 0
    OBVIOUS
  <2>3. asked' = asked + sent /\ unread' = unread + sent - o.replies
    BY <1>5, <2>1, <2>2
  <2>4. sent \in 0..1 /\ (sent = 1 <=> sends)
    BY <2>2
  <2> QED BY <2>1, <2>3, <2>4
<1>22. in'.dsrSent = (o.dsrSent \/ SendDsr(o)) /\ in'.late = FALSE /\ in'.buttons = o.buttons
  BY <1>15
<1>23. SendDsr(o) \in BOOLEAN /\ (SendDsr(o) => ~o.dsrSent)
  BY DEF SendDsr
<1>24. /\ asked' \in 0..1 /\ unread' \in asked'..1
       /\ unread' = asked' => \A i \in 1..Len(t) : ~DsrAt(t, i)
       /\ in'.dsrSent \in BOOLEAN
       /\ IF "plain" \in mode THEN unread' = 0 ELSE in'.dsrSent <=> unread' = 1
  <2>1. CASE o.replies = 0 /\ o.dsrSent = in.dsrSent
    <3>1. sent = 1 => unread = 0 /\ asked = 0
      BY <1>20, <1>21, <1>23, <2>1
    <3>2. unread' = unread + sent /\ (unread' = asked' => unread = asked)
      BY <1>20, <1>21, <2>1
    <3> QED BY <1>19, <1>20, <1>21, <1>22, <1>23, <2>1, <3>1, <3>2
  <2>2. CASE o.replies = 1 /\ o.dsrSent = FALSE /\ \E i \in 1..m : DsrAt(data, i)
    <3>1. PICK i \in 1..m : DsrAt(data, i) /\ DsrAt(s, i)
      BY <1>12, <2>2
    <3>2. i \in 1..Len(s)
      BY <3>1 DEF DsrAt
    <3>3. unread = 1 /\ asked = 0 /\ "plain" \notin mode
      BY <1>20, <3>1, <3>2
    <3>4. unread' = sent /\ asked' = sent
      BY <1>21, <2>2, <3>3
    <3>5. \A j \in 1..Len(t) : ~DsrAt(t, j)
      BY <1>19, <3>1
    <3> QED BY <1>21, <1>22, <1>23, <2>2, <3>3, <3>4, <3>5
  <2> QED BY <1>14, <2>1, <2>2
<1>25. in'.late \in BOOLEAN /\ in'.buttons \subseteq {"0", "1", "2"}
  BY <1>13, <1>22 DEF Scanned
<1>26. mode' = mode /\ typed' = typed
  BY <1>2
<1>27. IsSequence(typed') /\ \A i \in 1..Len(typed') : IsTyped(typed'[i])
  BY <1>26 DEF TypesInv
<1>28. Stream' = t
  BY <1>17 DEF Stream
<1> QED BY <1>16, <1>19, <1>24, <1>25, <1>26, <1>27, <1>28 DEF TypesInv, IsSequence

LEMMA FlushTypes ==
  ASSUME InputInv, TypesInv, flushIncompleteEscapeCode
  PROVE  TypesInv'
<1>1. IsClick(in.click)
  BY DEF InputInv, IsMembers
<1>2. PICK o : /\ o = doWrite(byteQueue, TRUE) /\ Written(o, <<>>, o.dsrSent)
               /\ unread' = unread - o.replies
  BY DEF flushIncompleteEscapeCode
<1>3. wire' = wire /\ mode' = mode /\ typed' = typed /\ asked' = asked
  BY DEF flushIncompleteEscapeCode
<1>4. PICK w : w = Bytes(wire)
  OBVIOUS
<1>5. PICK e : e = <<>>
  OBVIOUS
<1>6. /\ byteQueue' = e
      /\ in' = [dsrSent |-> o.dsrSent, late |-> FALSE, buttons |-> o.buttons, click |-> o.click]
  BY <1>2, <1>5 DEF Written
<1>7. byteQueue \in Seq(Symbol) /\ w \in Seq(Symbol) /\ Stream = byteQueue \o w
  BY <1>4 DEF TypesInv, Stream
<1>8. PICK s : s = Stream
  OBVIOUS
<1>9. s \in Seq(Symbol) /\ Flagged(s) /\ OneReply(s)
  BY <1>7, <1>8 DEF TypesInv
<1>10. /\ Len(byteQueue) \in Nat /\ Len(byteQueue) <= Len(s) /\ Len(s) = Len(byteQueue) + Len(w)
       /\ \A i \in 1..Len(byteQueue) : byteQueue[i] = s[i]
       /\ \A i \in 1..Len(w) : s[Len(byteQueue) + i] = w[i]
  <2>1. /\ Len(s) = Len(byteQueue) + Len(w)
        /\ \A i \in 1..Len(byteQueue) : byteQueue[i] = s[i]
        /\ \A i \in 1..Len(w) : s[Len(byteQueue) + i] = w[i]
    BY <1>7, <1>8, Joined
  <2>2. Len(byteQueue) \in Nat /\ Len(w) \in Nat
    BY <1>7
  <2> QED BY <2>1, <2>2
<1>11. FlaggedIn(byteQueue) /\ OneReply(byteQueue) /\ \A i : DsrAt(byteQueue, i) => DsrAt(s, i)
  BY <1>7, <1>9, <1>10, FrontKept
<1>12. Scanned(o, byteQueue)
  BY <1>1, <1>2, <1>7, <1>11, DoWriteScans DEF TypesInv
<1>13. \/ o.replies = 0 /\ o.dsrSent = in.dsrSent
       \/ /\ o.replies = 1 /\ o.dsrSent = FALSE
          /\ \E i \in 1..Len(byteQueue) : DsrAt(byteQueue, i)
  <2>1. PICK m \in 0..Len(byteQueue) :
          \/ o.replies = 0 /\ o.dsrSent = in.dsrSent
          \/ o.replies = 1 /\ o.dsrSent = FALSE /\ \E i \in 1..m : DsrAt(byteQueue, i)
    BY <1>12 DEF Scanned
  <2>2. \A i \in 1..m : i \in 1..Len(byteQueue)
    BY <1>10
  <2> QED BY <2>1, <2>2
<1>14. PICK t : t = w
  OBVIOUS
<1>15. t \in Seq(Symbol) /\ Cut(s, t, Len(byteQueue))
  <2>1. Len(byteQueue) \in 0..Len(s) /\ Len(t) = Len(s) - Len(byteQueue)
    <3>1. PICK a, b, c : a = Len(s) /\ b = Len(byteQueue) /\ c = Len(w)
      OBVIOUS
    <3>2. b \in Nat /\ c \in Nat /\ a = b + c
      BY <1>7, <1>10, <3>1
    <3>3. b \in 0..a /\ c = a - b
      BY <3>2
    <3> QED BY <1>14, <3>1, <3>3
  <2> QED BY <1>7, <1>10, <1>14, <2>1 DEF Cut
<1>16. /\ Flagged(t) /\ OneReply(t)
       /\ (\A i \in 1..Len(s) : ~DsrAt(s, i)) => \A i \in 1..Len(t) : ~DsrAt(t, i)
       /\ (\E i \in 1..Len(byteQueue) : DsrAt(s, i)) => \A i \in 1..Len(t) : ~DsrAt(t, i)
  BY <1>9, <1>15, CutKept
<1>17. /\ asked \in 0..1 /\ unread \in asked..1
       /\ unread = asked => \A i \in 1..Len(s) : ~DsrAt(s, i)
       /\ in.dsrSent \in BOOLEAN
       /\ IF "plain" \in mode THEN unread = 0 ELSE in.dsrSent <=> unread = 1
  BY <1>8 DEF TypesInv
<1>18. in'.dsrSent = o.dsrSent /\ in'.late = FALSE /\ in'.buttons = o.buttons
  BY <1>6
<1>19. /\ unread' \in asked'..1
       /\ unread' = asked' => \A i \in 1..Len(t) : ~DsrAt(t, i)
       /\ in'.dsrSent \in BOOLEAN
       /\ IF "plain" \in mode THEN unread' = 0 ELSE in'.dsrSent <=> unread' = 1
  <2>1. CASE o.replies = 0 /\ o.dsrSent = in.dsrSent
    <3>1. unread' = unread
      <4>1. unread' = unread - 0
        BY <1>2, <2>1
      <4>2. unread \in Int
        BY <1>17
      <4> QED BY <4>1, <4>2
    <3> QED BY <1>3, <1>16, <1>17, <1>18, <2>1, <3>1
  <2>2. CASE /\ o.replies = 1 /\ o.dsrSent = FALSE
             /\ \E i \in 1..Len(byteQueue) : DsrAt(byteQueue, i)
    <3>1. PICK i \in 1..Len(byteQueue) : DsrAt(s, i)
      BY <1>11, <2>2
    <3>2. i \in 1..Len(s)
      BY <3>1 DEF DsrAt
    <3>3. unread = 1 /\ asked = 0 /\ "plain" \notin mode
      BY <1>17, <3>1, <3>2
    <3>4. unread' = 0 /\ asked' = 0
      <4>1. unread' = 1 - 1
        BY <1>2, <2>2, <3>3
      <4> QED BY <1>3, <3>3, <4>1
    <3>5. \A j \in 1..Len(t) : ~DsrAt(t, j)
      BY <1>16, <3>1
    <3>6. in'.dsrSent = FALSE
      BY <1>18, <2>2
    <3>7. unread' \in asked'..1 /\ unread' # 1
      BY <3>4
    <3> QED BY <3>3, <3>5, <3>6, <3>7
  <2> QED BY <1>13, <2>1, <2>2
<1>20. in'.late \in BOOLEAN /\ in'.buttons \subseteq {"0", "1", "2"}
  BY <1>12, <1>18 DEF Scanned
<1>21. IsSequence(typed') /\ \A i \in 1..Len(typed') : IsTyped(typed'[i])
  BY <1>3 DEF TypesInv
<1>22. /\ byteQueue' \in Seq(Symbol) /\ Bytes(wire') = w /\ Bytes(wire') \in Seq(Symbol)
  BY <1>3, <1>4, <1>5, <1>6, <1>7
<1>23. Stream' = t
  <2>1. Stream' = byteQueue' \o Bytes(wire')
    BY DEF Stream
  <2>2. <<>> \o w = w
    BY <1>7
  <2> QED BY <1>5, <1>6, <1>14, <1>22, <2>1, <2>2
<1>24. asked' \in 0..1
  BY <1>3, <1>17
<1> QED BY <1>3, <1>16, <1>19, <1>20, <1>21, <1>22, <1>23, <1>24 DEF TypesInv, IsSequence

\* More comes in.
LEMMA StreamGrows ==
  ASSUME InputInv, TypesInv, NEW b \in Seq(Symbol), Send(b), byteQueue' = byteQueue
  PROVE  Bytes(wire') \in Seq(Symbol) /\ Stream' = Stream \o b
<1>1. PICK C : wire \in Seq(C)
  BY DEF InputInv, IsSequence
<1>2. PICK l, n, w : l = Len(wire) /\ n = Len(b) /\ w = Bytes(wire)
  OBVIOUS
<1>3. l \in Nat /\ n \in Nat /\ w \in Seq(Symbol) /\ byteQueue \in Seq(Symbol)
  BY <1>1, <1>2 DEF TypesInv
<1>4. w = [i \in 1..l |-> wire[i].byte]
  BY <1>2 DEF Bytes
<1>5. Len(w) = l
  BY <1>3, <1>4
<1>6. PICK f : f = [i \in 1..n |-> [byte |-> b[i], last |-> i = n]]
  OBVIOUS
<1>7. wire' = wire \o f
  <2>1. DOMAIN b = 1..n
    BY <1>2
  <2> QED BY <1>2, <1>6, <2>1 DEF Send
<1>8. PICK E : f \in Seq(E)
  <2>1. f = [i \in 1..n |-> f[i]]
    BY <1>6
  <2> QED BY <1>3, <2>1, FunctionIsSequence DEF IsSequence
<1>9. f \in Seq(C \union E) /\ wire \in Seq(C \union E) /\ Len(f) = n
  <2>1. Len(f) = n
    BY <1>3, <1>6
  <2>2. C \subseteq C \union E /\ E \subseteq C \union E
    OBVIOUS
  <2> QED BY <1>1, <1>8, <2>1, <2>2
<1>10. PICK u : u = wire'
  OBVIOUS
<1>11. /\ Len(u) = l + n /\ \A i \in 1..l : u[i] = wire[i]
       /\ \A i \in 1..n : u[l + i] = f[i]
  <2>1. /\ Len(wire \o f) = Len(wire) + Len(f) /\ \A i \in 1..Len(wire) : (wire \o f)[i] = wire[i]
        /\ \A i \in 1..Len(f) : (wire \o f)[Len(wire) + i] = f[i]
    <3>1. PICK D : D = C \union E
      OBVIOUS
    <3>2. f \in Seq(D) /\ wire \in Seq(D)
      BY <1>9, <3>1
    <3> QED BY <3>2, Joined
  <2> QED BY <1>2, <1>7, <1>9, <1>10, <2>1
<1>12. PICK x : x = w \o b
  OBVIOUS
<1>13. /\ x \in Seq(Symbol) /\ Len(x) = l + n /\ \A i \in 1..l : x[i] = w[i]
       /\ \A i \in 1..n : x[l + i] = b[i]
  <2>1. /\ w \o b \in Seq(Symbol) /\ Len(w \o b) = Len(w) + Len(b)
        /\ \A i \in 1..Len(w) : (w \o b)[i] = w[i]
        /\ \A i \in 1..Len(b) : (w \o b)[Len(w) + i] = b[i]
    BY <1>3, Joined
  <2> QED BY <1>2, <1>5, <1>12, <2>1
<1>14. ASSUME NEW i \in 1..(l + n) PROVE u[i].byte = x[i]
  <2>1. CASE i \in 1..l
    BY <1>4, <1>11, <1>13, <2>1
  <2>2. CASE i \notin 1..l
    <3>1. PICK j : j = i - l
      OBVIOUS
    <3>2. j \in 1..n /\ i = l + j
      BY <1>3, <2>2, <3>1
    <3>3. u[i] = f[j] /\ x[i] = b[j] /\ f[j].byte = b[j]
      BY <1>6, <1>11, <1>13, <3>2
    <3> QED BY <3>3
  <2> QED BY <2>1, <2>2
<1>15. Bytes(u) = x
  <2>1. Bytes(u) = [i \in 1..(l + n) |-> u[i].byte]
    BY <1>11 DEF Bytes
  <2>2. x = [i \in 1..(l + n) |-> x[i]]
    BY <1>13
  <2> QED BY <1>14, <2>1, <2>2
<1>16. byteQueue \o x = (byteQueue \o w) \o b
  <2>1. PICK S, q, p : S = Symbol /\ q = byteQueue /\ p = b
    OBVIOUS
  <2>2. q \in Seq(S) /\ w \in Seq(S) /\ p \in Seq(S)
    BY <1>3, <2>1
  <2>3. q \o (w \o p) = (q \o w) \o p
    BY <2>2
  <2> QED BY <1>12, <2>1, <2>3
<1>17. Stream' = byteQueue' \o Bytes(wire') /\ Stream = byteQueue \o w
  BY <1>2 DEF Stream
<1> QED BY <1>10, <1>13, <1>15, <1>16, <1>17

LEMMA GrownTypes ==
  ASSUME InputInv, TypesInv, NEW b \in Seq(Symbol), Send(b), Flagged(b),
         byteQueue' = byteQueue, in' = in, mode' = mode, unread' = unread,
         \/ asked' = asked /\ \A j \in 1..Len(b) : b[j] # "R"
         \/ asked = 1 /\ asked' = 0 /\ \E n \in Nat : \A j \in 1..Len(b) : b[j] = "R" => j = n,
         IsSequence(typed'), \A i \in 1..Len(typed') : IsTyped(typed'[i])
  PROVE  TypesInv'
<1>1. PICK s, t : s = Stream /\ t = Stream'
  OBVIOUS
<1>2. s \in Seq(Symbol) /\ Flagged(s) /\ OneReply(s)
  BY <1>1, Joined DEF TypesInv, Stream
<1>3. Bytes(wire') \in Seq(Symbol) /\ t = s \o b
  BY <1>1, StreamGrows
<1>4. /\ Flagged(t)
      /\ \A i : DsrAt(t, i) =>
                  DsrAt(s, i) \/ (\E j \in 1..Len(b) : b[j] = "R" /\ i + 5 = Len(s) + j)
  BY <1>2, <1>3, Typing
<1>5. /\ asked \in 0..1 /\ unread \in asked..1
      /\ unread = asked => \A i \in 1..Len(s) : ~DsrAt(s, i)
  BY <1>1 DEF TypesInv
<1>6. \A i : DsrAt(s, i) => i \in 1..Len(s)
  BY DEF DsrAt
<1>7. OneReply(t) /\ asked' \in 0..1 /\ unread' \in asked'..1
      /\ (unread' = asked' => \A i \in 1..Len(t) : ~DsrAt(t, i))
  <2>1. CASE asked' = asked /\ \A j \in 1..Len(b) : b[j] # "R"
    <3>1. \A i : DsrAt(t, i) => DsrAt(s, i)
      BY <1>4, <2>1
    <3>2. OneReply(t)
      BY <1>2, <1>6, <3>1 DEF OneReply
    <3> QED BY <1>5, <1>6, <2>1, <3>1, <3>2
  <2>2. CASE asked = 1 /\ asked' = 0 /\ \E n \in Nat : \A j \in 1..Len(b) : b[j] = "R" => j = n
    <3>1. PICK n \in Nat : \A j \in 1..Len(b) : b[j] = "R" => j = n
      BY <2>2
    <3>2. unread = 1 /\ unread' = 1
      BY <1>5, <2>2
    <3>3. \A i : ~DsrAt(s, i)
      BY <1>5, <1>6, <2>2, <3>2
    <3>4. \A i : DsrAt(t, i) => i + 5 = Len(s) + n
      BY <1>4, <3>1, <3>3
    <3>5. OneReply(t)
      <4>1. ASSUME NEW i \in 1..Len(t), NEW j \in 1..Len(t), DsrAt(t, i), DsrAt(t, j)
            PROVE  i = j
        <5>1. i + 5 = j + 5
          BY <3>4, <4>1
        <5> QED BY <5>1
      <4> QED BY <4>1 DEF OneReply
    <3> QED BY <2>2, <3>2, <3>5
  <2> QED BY <2>1, <2>2
<1>8. byteQueue' \in Seq(Symbol)
  BY DEF TypesInv
<1>9. /\ in'.late \in BOOLEAN /\ in'.dsrSent \in BOOLEAN /\ in'.buttons \subseteq {"0", "1", "2"}
      /\ IF "plain" \in mode' THEN unread' = 0 ELSE in'.dsrSent <=> unread' = 1
  BY DEF TypesInv
<1> QED BY <1>1, <1>3, <1>4, <1>7, <1>8, <1>9 DEF TypesInv, IsSequence

LEMMA TypesInit == InputInit => TypesInv
<1> SUFFICES ASSUME InputInit PROVE TypesInv
  OBVIOUS
<1>1. PICK e : e = <<>>
  OBVIOUS
<1>2. /\ byteQueue = e /\ wire = e /\ typed = e /\ asked = 0 /\ unread = 0
      /\ in.dsrSent = FALSE /\ in.late = FALSE /\ in.buttons = {}
  BY <1>1 DEF InputInit
<1>3. e \in Seq(Symbol) /\ Len(e) = 0 /\ IsSequence(e)
  <2>1. PICK S : S = Symbol
    OBVIOUS
  <2>2. e \in Seq(S) /\ Len(e) = 0
    BY <1>1
  <2> QED BY <2>1, <2>2 DEF IsSequence
<1>4. Bytes(e) = e
  <2>1. Bytes(e) = [i \in 1..0 |-> e[i].byte]
    BY <1>3 DEF Bytes
  <2> QED BY <1>1, <2>1
<1>5. PICK s : s = Stream
  OBVIOUS
<1>6. Len(s) = 0
  BY <1>2, <1>3, <1>4, <1>5, Joined DEF Stream
<1>7. Flagged(s) /\ OneReply(s) /\ \A i \in 1..Len(s) : ~DsrAt(s, i)
  <2>1. 1..Len(s) = {}
    BY <1>6
  <2> QED BY <2>1 DEF Flagged, OneReply
<1>8. /\ asked \in 0..1 /\ unread \in asked..1
      /\ IF "plain" \in mode THEN unread = 0 ELSE in.dsrSent <=> unread = 1
  BY <1>2
<1>9. \A i \in 1..Len(typed) : IsTyped(typed[i])
  BY <1>2, <1>3
<1> QED BY <1>2, <1>3, <1>4, <1>5, <1>7, <1>8, <1>9 DEF TypesInv

LEMMA TypeTypes ==
  ASSUME InputInv, TypesInv, Type
  PROVE  TypesInv'
<1>1. PICK k \in UserKeys \union UNION {MouseReports(<<x, "1">>, Held) : x \in Columns} :
        typed' = Append(typed, k.event) /\ Send(k.bytes)
  BY DEF Type
<1>2. PICK S : typed \in Seq(S)
  BY DEF TypesInv, IsSequence
<1>3. \A i \in 1..Len(typed) : IsTyped(typed[i])
  BY DEF TypesInv
<1>4. Held \subseteq {"0", "2"}
  BY <1>2, <1>3, HeldButtons
<1>5. PICK b, e : b = k.bytes /\ e = k.event
  OBVIOUS
<1>6. b \in Seq(Symbol \ {"R"}) /\ Flagged(b) /\ IsTyped(e)
  BY <1>1, <1>4, <1>5, InputSymbols
<1>7. b \in Seq(Symbol) /\ \A j \in 1..Len(b) : b[j] # "R"
  <2>1. PICK A, B : A = Symbol \ {"R"} /\ B = Symbol
    OBVIOUS
  <2>2. A \subseteq B /\ "R" \notin A /\ b \in Seq(A)
    BY <1>6, <2>1
  <2>3. b \in Seq(B) /\ \A j \in 1..Len(b) : b[j] \in A
    BY <2>2
  <2> QED BY <2>1, <2>2, <2>3
<1>8. IsSequence(typed') /\ \A i \in 1..Len(typed') : IsTyped(typed'[i])
  <2>1. typed \in Seq(S \union {e}) /\ typed' = Append(typed, e)
    <3>1. S \subseteq S \union {e}
      OBVIOUS
    <3> QED BY <1>1, <1>2, <1>5, <3>1
  <2>2. PICK T : T = S \union {e}
    OBVIOUS
  <2>3. /\ typed' \in Seq(T) /\ Len(typed') = Len(typed) + 1 /\ Len(typed) \in Nat
        /\ \A i \in 1..Len(typed) : typed'[i] = typed[i]
        /\ typed'[Len(typed) + 1] = e
    BY <2>1, <2>2
  <2>4. \A i \in 1..Len(typed') : i \in 1..Len(typed) \/ i = Len(typed) + 1
    BY <2>3
  <2>5. \A i \in 1..Len(typed') : IsTyped(typed'[i])
    BY <1>3, <1>6, <2>3, <2>4
  <2> QED BY <2>3, <2>5 DEF IsSequence
<1>9. UNCHANGED <<byteQueue, in, mode, asked, unread>>
  BY DEF Type
<1>10. Send(b)
  BY <1>1, <1>5
<1> QED BY <1>6, <1>7, <1>8, <1>9, <1>10, GrownTypes

LEMMA ReplyTypes ==
  ASSUME InputInv, TypesInv, TerminalReplies
  PROVE  TypesInv'
<1>1. PICK row \in ReplyRows : Send(<<"ESC", "[", row, ";", "2", "R">>)
  BY DEF TerminalReplies
<1>2. PICK b : b = <<"ESC", "[", row, ";", "2", "R">>
  OBVIOUS
<1>3. row \in Number
  BY NumbersAssumption
<1>4. row # "<" /\ row # "R" /\ row \in Symbol
  BY <1>3 DEF Number, Symbol
<1>5. b \in Seq(Symbol)
  <2>1. {"ESC", "[", ";", "2", "R"} \subseteq Symbol
    BY DEF Symbol, Number
  <2>2. PICK S, a, c, d, e, f : /\ S = Symbol /\ a = "ESC" /\ c = "[" /\ d = ";"
                                /\ e = "2" /\ f = "R"
    OBVIOUS
  <2>3. b = <<a, c, row, d, e, f>>
    BY <1>2, <2>2
  <2>4. a \in S /\ c \in S /\ d \in S /\ e \in S /\ f \in S /\ row \in S
    BY <1>4, <2>1, <2>2
  <2>5. b \in Seq(S)
    BY <2>3, <2>4
  <2> QED BY <2>2, <2>5
<1>6. Len(b) = 6 /\ \A j \in 1..6 : b[j] # "<" /\ (b[j] = "R" => j = 6)
  <2>1. /\ Len(b) = 6 /\ b[1] = "ESC" /\ b[2] = "[" /\ b[3] = row /\ b[4] = ";" /\ b[5] = "2"
        /\ b[6] = "R"
    BY <1>2
  <2>2. ASSUME NEW j \in 1..6 PROVE b[j] # "<" /\ (b[j] = "R" => j = 6)
    <3>1. j \in {1, 2, 3, 4, 5, 6}
      OBVIOUS
    <3>2. \A x \in {"ESC", "[", row, ";", "2"} : x # "<" /\ x # "R"
      BY <1>4
    <3>3. b[j] \in {"ESC", "[", row, ";", "2"} \/ (j = 6 /\ b[j] = "R")
      BY <2>1, <3>1
    <3> QED BY <3>2, <3>3
  <2> QED BY <2>1, <2>2
<1>7. Flagged(b) /\ \E n \in Nat : \A j \in 1..Len(b) : b[j] = "R" => j = n
  BY <1>6 DEF Flagged
<1>8. UNCHANGED <<byteQueue, in, mode, typed, unread>> /\ asked = 1 /\ asked' = 0
  <2>1. asked > 0 /\ asked' = asked - 1 /\ UNCHANGED <<byteQueue, in, mode, typed, unread>>
    BY DEF TerminalReplies
  <2>2. asked \in 0..1
    BY DEF TypesInv
  <2>3. asked = 1 /\ asked' = 0
    BY <2>1, <2>2
  <2> QED BY <2>1, <2>3
<1>9. IsSequence(typed') /\ \A i \in 1..Len(typed') : IsTyped(typed'[i])
  BY <1>8 DEF TypesInv
<1>10. Send(b)
  BY <1>1, <1>2
<1> QED BY <1>5, <1>7, <1>8, <1>9, <1>10, GrownTypes

LEMMA TypesStep ==
  ASSUME InputInv, TypesInv, [InputNext]_inputVars
  PROVE  TypesInv'
<1>1. ASSUME NEW second \in BOOLEAN, TimePasses(second)
      PROVE  TypesInv'
  <2>1. UNCHANGED <<byteQueue, mode, wire, asked, typed, unread>>
    BY <1>1 DEF TimePasses
  <2>2. PICK d, l, b, c : in = [dsrSent |-> d, late |-> l, buttons |-> b, click |-> c]
    BY DEF InputInv, IsMembers
  <2>3. in' = [in EXCEPT !.click.recent = FALSE, !.late = @ \/ (second /\ byteQueue # <<>>)]
    BY <1>1 DEF TimePasses
  <2>4. /\ in'.dsrSent = in.dsrSent /\ in'.buttons = in.buttons
        /\ in'.late = (in.late \/ (second /\ byteQueue # <<>>))
    BY <2>2, <2>3
  <2>5. in'.late \in BOOLEAN
    BY <1>1, <2>4 DEF TypesInv
  <2>6. Stream' = Stream /\ Bytes(wire') = Bytes(wire)
    BY <2>1 DEF Stream
  <2> QED BY <2>1, <2>4, <2>5, <2>6 DEF TypesInv, IsSequence
<1>2. CASE UNCHANGED inputVars
  <2>1. UNCHANGED <<byteQueue, in, mode, wire, asked, typed, unread>>
    BY <1>2 DEF inputVars
  <2>2. Stream' = Stream /\ Bytes(wire') = Bytes(wire)
    BY <2>1 DEF Stream
  <2> QED BY <2>1, <2>2 DEF TypesInv, IsSequence
<1> QED BY <1>1, <1>2, PollTypes, FlushTypes, TypeTypes, ReplyTypes DEF InputNext

(* At most one request for a report is outstanding, and m_dsrSent says so: *)
(* a reply, or what could be taken for one, is in the stream only when the *)
(* terminal owes it, there is never a second one, and nothing that a user  *)
(* types, however it is split and whatever is dropped, makes another.      *)
THEOREM RequestsMatchReplies == InputSpec => []InputTypeOK
<1>1. InputInit => InputInv /\ TypesInv
  BY InputInvInit, TypesInit
<1>2. (InputInv /\ TypesInv) /\ [InputNext]_inputVars => (InputInv /\ TypesInv)'
  BY InputStep, TypesStep
<1>3. InputInv /\ TypesInv => InputTypeOK
  <2> SUFFICES ASSUME InputInv, TypesInv PROVE InputTypeOK
    OBVIOUS
  <2>1. \A i \in DOMAIN wire : wire[i].byte \in Symbol
    <3>1. PICK C : wire \in Seq(C)
      BY DEF InputInv, IsSequence
    <3>2. PICK w : w = Bytes(wire)
      OBVIOUS
    <3>3. w = [i \in 1..Len(wire) |-> wire[i].byte] /\ w \in Seq(Symbol)
      BY <3>2 DEF Bytes, TypesInv
    <3>4. Len(wire) \in Nat /\ DOMAIN wire = 1..Len(wire)
      BY <3>1
    <3>5. Len(w) = Len(wire)
      BY <3>3, <3>4
    <3>6. \A i \in 1..Len(wire) : w[i] \in Symbol /\ w[i] = wire[i].byte
      BY <3>3, <3>5
    <3> QED BY <3>4, <3>6
  <2> QED BY <2>1 DEF TypesInv, InputTypeOK
<1> QED BY <1>1, <1>2, <1>3, PTL DEF InputSpec
=============================================================================
