------------------------- MODULE ControlPipeProofs -------------------------
(***************************************************************************)
(* Proofs about the control pipe, for every timeout, every number of reads *)
(* and every size of header, packet, read and buffer.  First the packets:  *)
(* the inductive invariant of PacketStream says where they lie in the      *)
(* stream (Framed), that the agent stands at the beginning of one          *)
(* (AtBoundary), and that a worker without a read under way has room for   *)
(* one (Room).  Then vt7pty_open: the startup's invariants, and that the   *)
(* composition is one of AgentStartup and of PacketStream, so that what is *)
(* proved of either holds of it.                                           *)
(***************************************************************************)
EXTENDS ControlPipe, TLAPS


\* The packets lie one after the other, none shorter than its size field.
Framed ==
  /\ \A i \in DOMAIN sent :
       /\ sent[i].first + HeaderSize - 1 <= sent[i].last
       /\ sent[i].size >= HeaderSize => sent[i].last = sent[i].first + sent[i].size - 1
       /\ 1 <= sent[i].first /\ sent[i].last <= Written
       /\ i = 1 => sent[i].first = 1
       /\ i + 1 \in DOMAIN sent => sent[i + 1].first = sent[i].last + 1
  /\ \A i, j \in DOMAIN sent : i < j => sent[i].last < sent[j].first

AtBoundary ==
  consumed = IF handled = <<>> THEN 0 ELSE sent[Len(handled)].last

Largest == IF InitialBuffer < MaxPacket THEN MaxPacket ELSE InitialBuffer

Room ==
  /\ HeaderSize <= readBufferSize /\ readBufferSize <= Largest
  /\ consumed <= received /\ received <= Written
  /\ QueueSize < readBufferSize + IoSize
  /\ pending => HasRoom
  /\ phase = "service" /\ ~pending /\ ~progress => HasRoom
  /\ KeepsReading

StreamInv == StreamTypeOK /\ Framed /\ PacketsInOrder /\ AtBoundary /\ Room

USE StreamAssumption

----------------------------------------------------------------------------
(* How much has been written is a number, and grows with each packet.      *)
LEMMA WrittenNat ==
  ASSUME StreamTypeOK
  PROVE  Written \in Nat
<1>1. sent # <<>> => sent[Len(sent)] \in Packet
  BY DEF StreamTypeOK
<1> QED BY <1>1 DEF Written, Packet

(* The queue that holds a size field holds that of the next packet, and    *)
(* nothing else starts there.                                              *)
LEMMA NextPacketHere ==
  ASSUME StreamInv, QueueSize >= HeaderSize
  PROVE  LET n == Len(handled) + 1 IN
         /\ n \in DOMAIN sent
         /\ sent[n].first = consumed + 1
         /\ \A i \in DOMAIN sent : sent[i].first = consumed + 1 => i = n
<1> DEFINE n == Len(handled) + 1
<1> USE DEF StreamInv
<1>1. consumed < Written
  BY WrittenNat DEF Room, QueueSize, StreamTypeOK
<1>2. n \in DOMAIN sent
  <2>1. Len(handled) <= Len(sent) /\ Len(handled) \in Nat /\ Len(sent) \in Nat
    BY DEF PacketsInOrder, StreamTypeOK
  <2>2. CASE Len(handled) = Len(sent)
    <3>1. sent # <<>>
      BY <1>1, <2>2 DEF AtBoundary, Written, StreamTypeOK
    <3>2. consumed = Written
      BY <2>2, <3>1 DEF AtBoundary, Written, StreamTypeOK
    <3> QED BY <1>1, <3>2, WrittenNat
  <2>3. CASE Len(handled) # Len(sent)
    BY <2>1, <2>3 DEF StreamTypeOK
  <2> QED BY <2>2, <2>3
<1>3. sent[n].first = consumed + 1
  <2>1. CASE handled = <<>>
    BY <2>1, <1>2 DEF Framed, AtBoundary
  <2>2. CASE handled # <<>>
    <3>1. Len(handled) \in DOMAIN sent
      BY <2>2, <1>2 DEF StreamTypeOK
    <3> QED BY <2>2, <3>1, <1>2 DEF Framed, AtBoundary
  <2> QED BY <2>1, <2>2
<1>4. ASSUME NEW i \in DOMAIN sent, sent[i].first = consumed + 1
      PROVE  i = n
  <2>1. i < n => sent[i].last < sent[n].first
    BY <1>2 DEF Framed
  <2>2. n < i => sent[n].last < sent[i].first
    BY <1>2 DEF Framed
  <2>3. sent[i] \in Packet /\ sent[n] \in Packet
    BY <1>2 DEF StreamTypeOK
  <2>4. sent[i].first <= sent[i].last /\ sent[n].first <= sent[n].last
    BY <1>2, <2>3 DEF Framed, Packet
  <2>5. i \in Nat /\ n \in Nat
    BY <1>2 DEF StreamTypeOK
  <2> QED BY <2>1, <2>2, <2>3, <2>4, <2>5, <1>3, <1>4 DEF Packet
<1> QED BY <1>2, <1>3, <1>4

LEMMA StreamInitInv == StreamInit => StreamInv
<1> SUFFICES ASSUME StreamInit PROVE StreamInv
  OBVIOUS
<1>1. StreamTypeOK
  <2>1. sent \in Seq(Packet) /\ handled \in Seq(Nat \X Nat)
    BY DEF StreamInit
  <2> QED BY <2>1 DEF StreamInit, StreamTypeOK
<1>2. Framed /\ PacketsInOrder /\ AtBoundary
  BY DEF StreamInit, Framed, PacketsInOrder, AtBoundary
<1>3. Room
  BY DEF StreamInit, Room, Largest, QueueSize, Written, HasRoom, KeepsReading
<1> QED BY <1>1, <1>2, <1>3 DEF StreamInv

(* A packet more does not move those that are there.                       *)
LEMMA WriteInv ==
  ASSUME StreamInv, NEW size \in Sizes, NEW ok \in Contents, writePacket(size, ok)
  PROVE  StreamInv'
<1> DEFINE length == IF size < HeaderSize THEN HeaderSize ELSE size
           p == [first |-> Written + 1, last |-> Written + length, size |-> size, ok |-> ok]
<1> USE DEF StreamInv
<1>1. Written \in Nat /\ size \in Nat /\ ok \in BOOLEAN /\ length \in Nat /\ length >= HeaderSize
  BY WrittenNat
<1>2. p \in Packet /\ sent \in Seq(Packet)
  BY <1>1 DEF Packet, StreamTypeOK
<1>3. sent' = Append(sent, p) /\ UNCHANGED <<hungUp, received, consumed, readBufferSize,
                                            pending, progress, phase, handled>>
  BY DEF writePacket
<1>4. /\ Len(sent') = Len(sent) + 1 /\ DOMAIN sent' = 1..(Len(sent) + 1)
      /\ sent' \in Seq(Packet) /\ sent' # <<>>
      /\ \A i \in DOMAIN sent : sent'[i] = sent[i]
      /\ sent'[Len(sent) + 1] = p
  <2> HIDE DEF p
  <2> QED BY <1>2, <1>3
<1>5. Written' = Written + length
  BY <1>4 DEF Written
<1>6. StreamTypeOK'
  BY <1>3, <1>4 DEF StreamTypeOK
<1>7. Framed'
  <2>1. ASSUME NEW i \in DOMAIN sent'
        PROVE  /\ sent'[i].first + HeaderSize - 1 <= sent'[i].last
               /\ sent'[i].size >= HeaderSize
                    => sent'[i].last = sent'[i].first + sent'[i].size - 1
               /\ 1 <= sent'[i].first /\ sent'[i].last <= Written'
               /\ i = 1 => sent'[i].first = 1
               /\ i + 1 \in DOMAIN sent' => sent'[i + 1].first = sent'[i].last + 1
    <3>1. CASE i \in DOMAIN sent
      <4>1. sent[i] \in Packet
        BY <3>1, <1>2
      <4>2. i + 1 \in DOMAIN sent' => sent'[i + 1].first = sent'[i].last + 1
        <5>1. CASE i + 1 \in DOMAIN sent
          BY <3>1, <5>1, <1>4 DEF Framed
        <5>2. CASE i = Len(sent)
          BY <3>1, <5>2, <1>2, <1>4 DEF Written
        <5> QED BY <3>1, <5>1, <5>2, <1>2, <1>4
      <4>3. /\ sent[i].first + HeaderSize - 1 <= sent[i].last
            /\ sent[i].size >= HeaderSize
                 => sent[i].last = sent[i].first + sent[i].size - 1
            /\ 1 <= sent[i].first /\ sent[i].last <= Written
            /\ i = 1 => sent[i].first = 1
        BY <3>1 DEF Framed
      <4>4. sent[i].last <= Written'
        BY <4>1, <4>3, <1>1, <1>5 DEF Packet
      <4> QED BY <3>1, <4>2, <4>3, <4>4, <1>4
    <3>2. CASE i = Len(sent) + 1
      <4>1. i = 1 => Written = 0
        BY <3>2, <1>2 DEF Written
      <4>2. i + 1 \notin DOMAIN sent' /\ sent'[i] = p
        BY <3>2, <1>2, <1>4
      <4>3. /\ p.first + HeaderSize - 1 <= p.last
            /\ p.size >= HeaderSize => p.last = p.first + p.size - 1
            /\ 1 <= p.first /\ p.last <= Written'
        BY ONLY <1>1, <1>5, StreamAssumption
      <4>4. i = 1 => p.first = 1
        BY ONLY <4>1
      <4> QED BY <4>2, <4>3, <4>4
    <3> QED BY <3>1, <3>2, <1>2, <1>4
  <2>2. ASSUME NEW i \in DOMAIN sent', NEW j \in DOMAIN sent', i < j
        PROVE  sent'[i].last < sent'[j].first
    <3>1. i \in DOMAIN sent
      BY <2>2, <1>2, <1>4
    <3>2. sent[i] \in Packet
      BY <3>1, <1>2
    <3>3. CASE j \in DOMAIN sent
      BY <2>2, <3>1, <3>3, <1>4 DEF Framed
    <3>4. CASE j = Len(sent) + 1
      <4>1. sent[i].last <= Written
        BY <3>1 DEF Framed
      <4> QED BY <3>1, <3>2, <3>4, <4>1, <1>1, <1>4 DEF Packet
    <3> QED BY <3>3, <3>4, <1>2, <1>4
  <2> QED BY <2>1, <2>2 DEF Framed
<1>8. PacketsInOrder'
  BY <1>2, <1>3, <1>4 DEF PacketsInOrder, StreamTypeOK
<1>9. AtBoundary'
  BY <1>2, <1>3, <1>4 DEF AtBoundary, PacketsInOrder, StreamTypeOK
<1>10. Room'
  BY <1>1, <1>3, <1>5 DEF Room, Largest, QueueSize, HasRoom, KeepsReading, StreamTypeOK
<1> QED BY <1>6, <1>7, <1>8, <1>9, <1>10

(* A packet that is complete is the next one, whole.                       *)
LEMMA HandleInv ==
  ASSUME StreamInv, handlePacket
  PROVE  StreamInv'
<1> DEFINE n == Len(handled) + 1
<1> USE DEF StreamInv
<1>1. QueueSize >= HeaderSize
  BY DEF handlePacket
<1>2. /\ n \in DOMAIN sent /\ sent[n].first = consumed + 1
      /\ \A i \in DOMAIN sent : sent[i].first = consumed + 1 => i = n
  BY <1>1, NextPacketHere
<1>3. SizeFields = {sent[n].size}
  BY <1>2 DEF SizeFields
<1>4. PICK size \in SizeFields :
        SizeAccepted(size) /\ size <= QueueSize /\ TakePacket(size)
  BY DEF handlePacket
<1>5. size = sent[n].size /\ sent[n] \in Packet
  BY <1>2, <1>3, <1>4 DEF StreamTypeOK
<1>6. sent[n].last = consumed + size
  <2>1. sent[n].size >= HeaderSize => sent[n].last = sent[n].first + sent[n].size - 1
    BY <1>2 DEF Framed
  <2>2. HeaderSize <= size
    BY <1>4 DEF SizeAccepted
  <2>3. sent[n].last = (consumed + 1) + size - 1
    BY <1>2, <1>5, <2>1, <2>2 DEF Packet
  <2>4. consumed \in Nat /\ size \in Nat
    BY <1>5 DEF StreamTypeOK, Packet
  <2> QED BY ONLY <2>3, <2>4
<1>7. /\ consumed' = sent[n].last
      /\ handled' = Append(handled, <<sent[n].first, sent[n].last>>)
      /\ UNCHANGED <<sent, hungUp, received, readBufferSize, pending, progress, phase>>
  BY <1>2, <1>4, <1>6 DEF TakePacket, handlePacket
<1>8. StreamTypeOK'
  BY <1>5, <1>7 DEF StreamTypeOK, Packet
<1>9. Framed'
  BY <1>7 DEF Framed, Written
<1>10. PacketsInOrder'
  <2> DEFINE interval == <<sent[n].first, sent[n].last>>
  <2>1. /\ handled \in Seq(Nat \X Nat) /\ interval \in Nat \X Nat
        /\ handled' = Append(handled, interval) /\ sent' = sent
    BY <1>5, <1>7 DEF StreamTypeOK, Packet
  <2>2. /\ Len(handled') = n
        /\ \A i \in DOMAIN handled' : handled'[i] = IF i = n THEN interval ELSE handled[i]
        /\ \A i \in DOMAIN handled' : i # n => i \in DOMAIN handled
    <3> HIDE DEF interval
    <3> QED BY <2>1
  <2>3. n <= Len(sent) /\ \A i \in DOMAIN handled : handled[i] = <<sent[i].first, sent[i].last>>
    BY <1>2 DEF PacketsInOrder, StreamTypeOK
  <2> QED BY <2>1, <2>2, <2>3 DEF PacketsInOrder
<1>11. AtBoundary'
  BY <1>2, <1>5, <1>7 DEF AtBoundary, StreamTypeOK, Packet
<1>12. Room'
  <2>1. consumed' \in Nat /\ consumed <= consumed' /\ consumed' <= received
    <3>1. consumed' = consumed + size /\ size \in Nat
      BY <1>5, <1>6, <1>7 DEF Packet
    <3>2. size <= received - consumed
      BY <1>4 DEF QueueSize
    <3>3. consumed \in Nat /\ received \in Nat
      BY DEF StreamTypeOK
    <3> QED BY ONLY <3>1, <3>2, <3>3
  <2>2. Written' = Written
    BY <1>7 DEF Written
  <2>3. /\ consumed \in Nat /\ received \in Nat /\ readBufferSize \in Nat
        /\ received' = received /\ readBufferSize' = readBufferSize
        /\ IoSize \in Nat /\ size \in Nat /\ consumed' = consumed + size
    BY <1>5, <1>6, <1>7, StreamAssumption DEF StreamTypeOK, StreamAssumption, Packet
  <2>4. HasRoom => HasRoom'
    BY ONLY <2>3 DEF QueueSize, HasRoom
  <2>5. QueueSize < readBufferSize + IoSize => QueueSize' < readBufferSize' + IoSize
    BY ONLY <2>3 DEF QueueSize
  <2>6. phase = "poll"
    BY DEF handlePacket
  <2>7. phase' = "poll" /\ KeepsReading'
    BY <1>7, <2>6 DEF KeepsReading
  <2> QED BY ONLY Room, <1>7, <2>1, <2>2, <2>4, <2>5, <2>7 DEF Room
<1> QED BY <1>8, <1>9, <1>10, <1>11, <1>12

(* The worker's steps: only how much has been received changes.            *)
LEMMA ServiceInv ==
  ASSUME StreamInv, CompleteRead \/ StillPending \/ IssueRead \/ NoRoom \/ ReadFails
                    \/ StartPass \/ HangUp
  PROVE  StreamInv'
<1> USE DEF StreamInv
<1>1. UNCHANGED <<sent, consumed, readBufferSize, handled>>
  BY DEF CompleteRead, StillPending, IssueRead, NoRoom, ReadFails, StartPass, HangUp
<1>2. Framed' /\ PacketsInOrder' /\ AtBoundary' /\ Written' = Written
  BY <1>1 DEF Framed, PacketsInOrder, AtBoundary, Written
<1>3. Written \in Nat
  BY WrittenNat
<1>4. CASE CompleteRead
  <2>1. PICK n \in 1..IoSize : n <= Unread /\ received' = received + n
    BY <1>4 DEF CompleteRead, Receive
  <2>2. StreamTypeOK'
    <3>1. received' \in Nat
      BY <2>1 DEF StreamTypeOK
    <3> QED BY <1>1, <1>4, <3>1 DEF CompleteRead, StreamTypeOK
  <2>3. Room'
    BY <1>1, <1>2, <1>3, <1>4, <2>1 DEF CompleteRead, Unread, StreamTypeOK, Room, QueueSize,
         HasRoom, KeepsReading, Largest
  <2> QED BY <1>2, <2>2, <2>3
<1>5. CASE IssueRead
  <2>1. CASE Receive /\ progress' = TRUE /\ UNCHANGED <<pending, phase>>
    <3>1. PICK n \in 1..IoSize : n <= Unread /\ received' = received + n
      BY <2>1 DEF Receive
    <3>2. StreamTypeOK'
      BY <1>1, <1>5, <2>1, <3>1 DEF IssueRead, StreamTypeOK
    <3>3. Room'
      BY <1>1, <1>2, <1>3, <1>5, <2>1, <3>1 DEF IssueRead, Unread, StreamTypeOK, Room,
           QueueSize, HasRoom, KeepsReading, Largest
    <3> QED BY <1>2, <3>2, <3>3
  <2>2. CASE pending' = TRUE /\ phase' = AfterService /\ UNCHANGED <<received, progress>>
    BY <1>1, <1>2, <1>3, <1>5, <2>2 DEF IssueRead, AfterService, StreamTypeOK, Room,
         QueueSize, HasRoom, KeepsReading, Largest
  <2> QED BY <1>5, <2>1, <2>2 DEF IssueRead
<1>6. CASE StillPending \/ NoRoom \/ ReadFails \/ StartPass \/ HangUp
  <2>1. received' = received /\ pending' = pending
    BY <1>6 DEF StillPending, NoRoom, ReadFails, StartPass, HangUp
  <2>2. StreamTypeOK'
    BY <1>1, <1>6, <2>1 DEF StillPending, NoRoom, ReadFails, StartPass, HangUp, AfterService,
         StreamTypeOK
  <2>3. Room'
    BY <1>1, <1>2, <1>6, <2>1 DEF StillPending, NoRoom, ReadFails, StartPass, HangUp,
         AfterService, Room, QueueSize, HasRoom, KeepsReading, Largest, StreamTypeOK
  <2> QED BY <1>2, <2>2, <2>3
<1> QED BY <1>4, <1>5, <1>6

(* A larger buffer still has the room a smaller one had.                   *)
LEMMA MoreRoom ==
  \A q, small, large, io \in Int : q < small + io /\ small <= large => q < large + io
OBVIOUS

(* A poll that ends leaves room for what is missing of the packet.         *)
LEMMA PollInv ==
  ASSUME StreamInv, Incomplete \/ Reject
  PROVE  StreamInv'
<1> USE DEF StreamInv
<1>1. UNCHANGED <<sent, consumed, received, pending, handled>>
  BY DEF Incomplete, Reject
<1>2. Framed' /\ PacketsInOrder' /\ AtBoundary' /\ Written' = Written /\ QueueSize' = QueueSize
  BY <1>1 DEF Framed, PacketsInOrder, AtBoundary, Written, QueueSize
<1>3. CASE Reject
  BY <1>1, <1>2, <1>3 DEF Reject, StreamTypeOK, Room, HasRoom, KeepsReading, Largest
<1>4. CASE Incomplete
  <2>1. CASE QueueSize < HeaderSize /\ UNCHANGED readBufferSize
    <3>1. StreamTypeOK'
      BY <1>1, <1>4, <2>1 DEF Incomplete, NextPass, StreamTypeOK
    <3>2. Room'
      BY <1>1, <1>2, <1>4, <2>1 DEF Incomplete, NextPass, StreamTypeOK, Room, HasRoom,
           KeepsReading, Largest, QueueSize
    <3> QED BY <1>2, <3>1, <3>2
  <2>2. ASSUME QueueSize >= HeaderSize, NEW size \in SizeFields,
               SizeAccepted(size), QueueSize < size, readBufferSize' = BufferFor(size)
        PROVE  StreamInv'
    <3>1. size \in Nat
      <4>1. ASSUME NEW i \in DOMAIN sent PROVE sent[i].size \in Nat
        <5>1. sent[i] \in Packet
          BY DEF StreamTypeOK
        <5> QED BY <5>1 DEF Packet
      <4> QED BY <4>1 DEF SizeFields
    <3>2. /\ readBufferSize' \in Nat /\ readBufferSize <= readBufferSize'
          /\ size <= readBufferSize' /\ readBufferSize' <= Largest
      BY <2>2, <3>1 DEF BufferFor, SizeAccepted, Room, Largest, StreamTypeOK
    <3>3. StreamTypeOK'
      BY <1>1, <1>4, <3>2 DEF Incomplete, NextPass, StreamTypeOK
    <3>4. Room'
      <4>1. QueueSize \in Int /\ HasRoom'
        BY <1>2, <2>2, <3>1, <3>2 DEF HasRoom, QueueSize, StreamTypeOK
      <4>2. phase' = "service" /\ progress' = FALSE
        BY <1>4 DEF Incomplete, NextPass
      <4>3. QueueSize' < readBufferSize' + IoSize
        <5>1. QueueSize < readBufferSize + IoSize
          BY DEF Room
        <5>2. /\ readBufferSize \in Int /\ readBufferSize' \in Int /\ IoSize \in Int
          BY <3>2 DEF StreamTypeOK
        <5>3. QueueSize' = QueueSize /\ QueueSize \in Int /\ readBufferSize <= readBufferSize'
          BY <1>2, <3>2, <4>1
        <5> QED BY <5>1, <5>2, <5>3, MoreRoom
      <4>4. consumed' <= received' /\ received' <= Written'
        BY <1>1, <1>2 DEF Room
      <4>5. HeaderSize <= readBufferSize' /\ readBufferSize' <= Largest'
        BY <3>2 DEF Room, Largest, StreamTypeOK
      <4> QED BY <4>1, <4>2, <4>3, <4>4, <4>5 DEF Room, KeepsReading
    <3> QED BY <1>2, <3>3, <3>4
  <2> QED BY <1>4, <2>1, <2>2 DEF Incomplete
<1> QED BY <1>3, <1>4

LEMMA StreamStutterInv ==
  ASSUME StreamInv, UNCHANGED streamVars
  PROVE  StreamInv'
BY DEF streamVars, StreamInv, StreamTypeOK, Framed, PacketsInOrder, AtBoundary, Room,
       Largest, QueueSize, Written, HasRoom, KeepsReading

LEMMA StreamStepInv == StreamInv /\ [StreamNext]_streamVars => StreamInv'
<1> SUFFICES ASSUME StreamInv, [StreamNext]_streamVars PROVE StreamInv'
  OBVIOUS
<1>1. CASE StreamClientStep
  BY <1>1, WriteInv, ServiceInv DEF StreamClientStep
<1>2. CASE StreamAgentStep \/ StartPass
  BY <1>2, ServiceInv, PollInv, HandleInv DEF StreamAgentStep
<1>3. CASE UNCHANGED streamVars
  BY <1>3, StreamStutterInv
<1> QED BY <1>1, <1>2, <1>3 DEF StreamNext

(* The inductive invariant holds in every reachable state.                 *)
THEOREM StreamInvariant == StreamSpec => []StreamInv
BY StreamInitInv, StreamStepInv, PTL DEF StreamSpec

----------------------------------------------------------------------------
(* Whatever the sizes: handlePacket is given the packets that were sent,   *)
(* whole, in order, once each.                                             *)
THEOREM PacketsKeepOrder == StreamSpec => []PacketsInOrder
<1>1. StreamInv => PacketsInOrder
  BY DEF StreamInv
<1> QED BY <1>1, StreamInvariant, PTL

(* Whatever the sizes: m_inQueue is bounded by the largest packet and one  *)
(* read.                                                                   *)
THEOREM QueueStaysBounded == StreamSpec => []QueueBounded
<1>1. StreamInv => QueueBounded
  BY DEF StreamInv, StreamTypeOK, Room, QueueBounded, QueueSize, Largest
<1> QED BY <1>1, StreamInvariant, PTL

(* Whatever the sizes: the loop never sleeps without a read under way.     *)
THEOREM ReadingGoesOn == StreamSpec => []KeepsReading
<1>1. StreamInv => KeepsReading
  BY DEF StreamInv, Room
<1> QED BY <1>1, StreamInvariant, PTL

----------------------------------------------------------------------------

\* An agent that is not in its loop has sent nothing.
NothingSentEarly ==
  agent \in {"none", "starting", "connected", "hung"} =>
    parts = 0 /\ wire = <<>> /\ outQueue = <<>>

\* The setup packet's parts are under way in order and none twice.
InSequence ==
  /\ parts + Len(wire) + Len(outQueue) <= Chunks + 1
  /\ \A i \in DOMAIN wire : wire[i] = parts + i - 1
  /\ pipe = "open" => \A i \in DOMAIN outQueue : outQueue[i] = parts + Len(wire) + i - 1

\* What the library has established by the time it gets somewhere.
Established ==
  /\ lib = "start" => agent = "none"
  /\ lib \in {"read", "decode", "opened"} => peer = "agent"
  /\ build = "badSize" => parts = 0
  /\ lib \in {"decode", "opened"} => parts = Chunks + 1
  /\ lib = "opened" => names = KindSet /\ build = "ours"

PipesFirst == agent = "running" => dataPipes = KindSet

StartupInv ==
  StartupTypeOK /\ NothingSentEarly /\ InSequence /\ Established /\ PipesFirst

USE AgentStartupAssumption

----------------------------------------------------------------------------
LEMMA KindsFixed == UNCHANGED inputs => KindSet' = KindSet
BY DEF inputs, KindSet, Kinds

LEMMA StartupInitInv == StartupInit => StartupInv
<1> SUFFICES ASSUME StartupInit PROVE StartupInv
  OBVIOUS
<1>1. StartupTypeOK
  <2>1. outQueue \in Seq(SetupPacket) /\ wire \in Seq(SetupPacket)
    BY DEF StartupInit
  <2>2. parts \in 0..(Chunks + 1) /\ waited \in 0..Timeout
    BY DEF StartupInit
  <2> QED BY <2>1, <2>2 DEF StartupInit, StartupTypeOK
<1> QED BY <1>1 DEF StartupInit, StartupInv, NothingSentEarly, InSequence, Established,
              PipesFirst

(* The library gives up: nothing of its own matters any more.              *)
LEMMA FailInv ==
  ASSUME StartupInv, NEW e \in {"agentCreationFailed", "agentDied", "lostConnection",
                                "agentTimeout", "agentIncompatible", "unspecified"},
         Fail(e)
  PROVE  StartupInv'
<1> USE DEF StartupInv
<1>1. StartupTypeOK'
  <2>1. wire' \in Seq(SetupPacket) /\ KindSet' = KindSet
    BY DEF Fail, inputs, KindSet, Kinds
  <2> QED BY <2>1 DEF Fail, StartupTypeOK, inputs, agentVars, SetupPacket
<1>2. NothingSentEarly' /\ PipesFirst' /\ Established'
  BY DEF Fail, NothingSentEarly, PipesFirst, Established, inputs, agentVars, KindSet, Kinds
<1>3. InSequence'
  BY DEF Fail, InSequence, StartupTypeOK, agentVars
<1> QED BY <1>1, <1>2, <1>3

(* The agent ends: what it had queued is gone, what it had sent stays.     *)
LEMMA ExitInv ==
  ASSUME StartupInv, Exit, agent # "none"
  PROVE  StartupInv'
<1> USE DEF StartupInv
<1>1. StartupTypeOK'
  <2>1. outQueue' \in Seq(SetupPacket) /\ KindSet' = KindSet
    BY DEF Exit, inputs, KindSet, Kinds
  <2> QED BY <2>1 DEF Exit, StartupTypeOK, inputs, libVars, SetupPacket
<1>2. NothingSentEarly' /\ PipesFirst' /\ Established'
  BY DEF Exit, NothingSentEarly, PipesFirst, Established, inputs, libVars, KindSet, Kinds
<1>3. InSequence'
  BY DEF Exit, InSequence, StartupTypeOK, libVars
<1> QED BY <1>1, <1>2, <1>3

(* Steps of the library that leave the pipe's contents alone.              *)
LEMMA LibraryInv ==
  ASSUME StartupInv,
         startAgentProcess \/ connectControlPipe \/ verifyPipeClientPid \/ AcceptSetup
         \/ AgentGone \/ WaitTimesOut \/ Tick \/ vt7pty_free
  PROVE  StartupInv'
<1> USE DEF StartupInv
<1>1. CASE startAgentProcess
  <2>1. CASE Fail("agentCreationFailed")
    BY <2>1, FailInv
  <2>2. CASE ~Fail("agentCreationFailed")
    <3>1. KindSet' = KindSet
      BY <1>1, <2>2, KindsFixed DEF startAgentProcess
    <3>2. StartupTypeOK'
      BY <1>1, <2>2, <3>1 DEF startAgentProcess, StartupTypeOK, inputs
    <3>3. parts = 0 /\ wire = <<>> /\ outQueue = <<>>
      BY <1>1 DEF startAgentProcess, Established, NothingSentEarly
    <3>4. NothingSentEarly' /\ Established' /\ PipesFirst' /\ InSequence'
      BY <1>1, <2>2, <3>1, <3>3 DEF startAgentProcess, NothingSentEarly, Established,
           PipesFirst, InSequence, inputs
    <3> QED BY <3>2, <3>4
  <2> QED BY <2>1, <2>2
<1>2. CASE connectControlPipe
  <2>1. KindSet' = KindSet /\ waited' \in 0..Timeout
    BY <1>2, KindsFixed DEF connectControlPipe
  <2>2. StartupTypeOK'
    BY <1>2, <2>1 DEF connectControlPipe, StartupTypeOK, inputs, agentVars
  <2>3. NothingSentEarly' /\ Established' /\ PipesFirst' /\ InSequence'
    BY <1>2, <2>1 DEF connectControlPipe, NothingSentEarly, Established, PipesFirst,
         InSequence, inputs, agentVars
  <2> QED BY <2>2, <2>3
<1>3. CASE verifyPipeClientPid
  <2>1. CASE Fail("unspecified")
    BY <2>1, FailInv
  <2>2. CASE ~Fail("unspecified")
    <3>1. KindSet' = KindSet
      BY <1>3, <2>2, KindsFixed DEF verifyPipeClientPid
    <3>2. StartupTypeOK'
      BY <1>3, <2>2, <3>1 DEF verifyPipeClientPid, StartupTypeOK, inputs, agentVars
    <3>3. NothingSentEarly' /\ Established' /\ PipesFirst' /\ InSequence'
      BY <1>3, <2>2, <3>1 DEF verifyPipeClientPid, NothingSentEarly, Established, PipesFirst,
           InSequence, inputs, agentVars
    <3> QED BY <3>2, <3>3
  <2> QED BY <2>1, <2>2
<1>4. CASE AcceptSetup
  <2>1. CASE Fail("agentIncompatible")
    BY <2>1, FailInv
  <2>2. CASE ~Fail("agentIncompatible")
    <3>1. /\ lib = "decode" /\ lib' = "opened" /\ names' = KindSet
          /\ UNCHANGED <<inputs, error, pipe, parts, waited, peer, agentVars, wire>>
          /\ build # "malformed" /\ classifyAgentHandshake = "Compatible"
      BY <1>4, <2>2 DEF AcceptSetup
    <3>2. build = "ours"
      <4>1. build \in {"ours", "otherVersion", "otherIdentity", "malformed", "badSize"}
        BY DEF StartupTypeOK
      <4>2. build # "badSize"
        BY <3>1 DEF Established
      <4> QED BY <3>1, <4>1, <4>2 DEF classifyAgentHandshake
    <3> QED BY <3>1, <3>2 DEF StartupTypeOK, NothingSentEarly, InSequence, Established,
              PipesFirst, inputs, agentVars, KindSet, Kinds, SetupPacket
  <2> QED BY <2>1, <2>2
<1>5. CASE AgentGone \/ WaitTimesOut
  BY <1>5, FailInv DEF AgentGone, WaitTimesOut
<1>6. CASE Tick
  <2>1. waited' \in 0..Timeout
    BY <1>6 DEF Tick, StartupTypeOK
  <2>2. KindSet' = KindSet
    BY <1>6, KindsFixed DEF Tick
  <2>3. StartupTypeOK'
    BY <1>6, <2>1, <2>2 DEF Tick, StartupTypeOK, inputs, agentVars
  <2>4. NothingSentEarly' /\ Established' /\ PipesFirst' /\ InSequence'
    BY <1>6, <2>2 DEF Tick, NothingSentEarly, Established, PipesFirst, InSequence, inputs,
         agentVars
  <2> QED BY <2>3, <2>4
<1>7. CASE vt7pty_free
  BY <1>7 DEF vt7pty_free, StartupTypeOK, NothingSentEarly, InSequence, Established,
       PipesFirst, inputs, agentVars, KindSet, Kinds, SetupPacket
<1> QED BY <1>1, <1>2, <1>3, <1>4, <1>5, <1>6, <1>7

(* The part that is read is the next one; the last one ends the reading.   *)
LEMMA ReadInv ==
  ASSUME StartupInv, readPacket
  PROVE  StartupInv'
<1> USE DEF StartupInv
<1>1. CASE Fail("unspecified")
  BY <1>1, FailInv
<1>2. CASE ~Fail("unspecified")
  <2>1. /\ wire # <<>> /\ wire \in Seq(SetupPacket) /\ parts \in Nat /\ Len(wire) \in Nat
        /\ outQueue \in Seq(SetupPacket) /\ Len(outQueue) \in Nat
    BY DEF readPacket, StartupTypeOK
  <2>2. /\ parts' = parts + 1 /\ wire' = Tail(wire) /\ waited' = 0 /\ lib = "read"
        /\ lib' = IF Head(wire) = Chunks THEN "decode" ELSE "read"
        /\ ~(Head(wire) = 0 /\ build = "badSize")
        /\ UNCHANGED <<inputs, error, pipe, names, peer, agentVars>>
    BY <1>2 DEF readPacket
  <2>3. /\ Len(wire) > 0 /\ Head(wire) = parts
        /\ wire' \in Seq(SetupPacket) /\ Len(wire') = Len(wire) - 1
        /\ \A i \in DOMAIN wire' : wire'[i] = wire[i + 1] /\ i + 1 \in DOMAIN wire
    BY <2>1, <2>2 DEF InSequence
  <2>4. parts' \in 0..(Chunks + 1)
    BY <2>1, <2>2, <2>3 DEF InSequence
  <2>5. StartupTypeOK'
    <3>1. KindSet' = KindSet /\ waited' \in 0..Timeout
      BY <2>2, KindsFixed
    <3> QED BY <2>2, <2>3, <2>4, <3>1 DEF StartupTypeOK, inputs, agentVars
  <2>6. NothingSentEarly' /\ PipesFirst'
    BY <2>1, <2>2 DEF NothingSentEarly, PipesFirst, inputs, agentVars, KindSet, Kinds
  <2>7. InSequence'
    <3>1. \A i \in DOMAIN wire' : wire'[i] = parts' + i - 1
      BY <2>1, <2>2, <2>3 DEF InSequence
    <3>2. parts' + Len(wire') + Len(outQueue') <= Chunks + 1
      BY <2>1, <2>2, <2>3 DEF InSequence, agentVars
    <3>3. parts' + Len(wire') = parts + Len(wire)
      BY <2>1, <2>2, <2>3
    <3>4. pipe' = "open" =>
            \A i \in DOMAIN outQueue' : outQueue'[i] = parts' + Len(wire') + i - 1
      BY <2>2, <3>3 DEF InSequence, agentVars
    <3> QED BY <3>1, <3>2, <3>4 DEF InSequence
  <2>8. Established'
    <3>1. build # "badSize"
      BY <2>2, <2>3 DEF Established
    <3> QED BY <2>1, <2>2, <2>3, <3>1 DEF Established, inputs, KindSet, Kinds
  <2> QED BY <2>5, <2>6, <2>7, <2>8
<1> QED BY <1>1, <1>2

(* The agent's own steps.                                                  *)
LEMMA AgentInv ==
  ASSUME StartupInv, AgentStep \/ Crash \/ Hang \/ OtherConnects
  PROVE  StartupInv'
<1> USE DEF StartupInv
<1>1. CASE connectToControlPipe
  <2>1. CASE Exit
    BY <1>1, <2>1, ExitInv DEF connectToControlPipe
  <2>2. CASE ~Exit
    <3>1. /\ peer = "nobody" /\ peer' = "agent" /\ agent' = "connected"
          /\ UNCHANGED <<inputs, libVars, dataPipes, outQueue, wire>>
      BY <1>1, <2>2 DEF connectToControlPipe
    <3>2. KindSet' = KindSet
      BY <3>1, KindsFixed
    <3>3. StartupTypeOK'
      BY <3>1, <3>2 DEF StartupTypeOK, inputs, libVars
    <3>4. NothingSentEarly' /\ InSequence'
      BY <1>1, <3>1 DEF NothingSentEarly, InSequence, connectToControlPipe, libVars
    <3>5. Established'
      BY <1>1, <3>1, <3>2 DEF Established, connectToControlPipe, inputs, libVars
    <3>6. PipesFirst'
      BY <3>1 DEF PipesFirst
    <3> QED BY <3>3, <3>4, <3>5, <3>6
  <2> QED BY <2>1, <2>2
<1>2. CASE createDataServerPipe
  <2>1. PICK i \in DOMAIN Kinds : dataPipes' = dataPipes \union {Kinds[i]}
    BY <1>2 DEF createDataServerPipe
  <2>2. dataPipes' \subseteq KindSet
    BY <2>1 DEF StartupTypeOK, KindSet
  <2> QED BY <1>2, <2>2 DEF createDataServerPipe, StartupTypeOK, NothingSentEarly, InSequence,
            Established, PipesFirst, inputs, libVars, KindSet, Kinds, SetupPacket
<1>3. CASE SendSetup
  <2>1. /\ outQueue' = [i \in 1..(Chunks + 1) |-> i - 1]
        /\ parts = 0 /\ wire = <<>> /\ agent' = "running" /\ dataPipes = KindSet
        /\ UNCHANGED <<inputs, libVars, peer, dataPipes, wire>>
    BY <1>3 DEF SendSetup, NothingSentEarly
  <2>2. outQueue' \in Seq(SetupPacket) /\ Len(outQueue') = Chunks + 1
    BY <2>1 DEF SetupPacket
  <2>3. StartupTypeOK'
    BY <2>1, <2>2 DEF StartupTypeOK, inputs, libVars, KindSet, Kinds, SetupPacket
  <2>4. InSequence'
    <3>1. parts' = 0 /\ Len(wire') = 0 /\ DOMAIN wire' = {}
      BY <2>1 DEF libVars
    <3>2. \A i \in DOMAIN outQueue' : outQueue'[i] = i - 1 /\ i \in Nat
      BY <2>1
    <3> QED BY <2>2, <3>1, <3>2 DEF InSequence
  <2>5. NothingSentEarly' /\ Established' /\ PipesFirst'
    <3>1. KindSet' = KindSet
      BY <2>1, KindsFixed
    <3>2. agent' = "running" /\ lib # "start"
      BY <1>3, <2>1 DEF Established, SendSetup
    <3> QED BY <2>1, <3>1, <3>2 DEF NothingSentEarly, Established, PipesFirst, inputs, libVars
  <2> QED BY <2>3, <2>4, <2>5
<1>4. CASE FlushSetup
  <2>1. /\ agent = "running" /\ pipe = "open" /\ outQueue # <<>>
        /\ wire' = Append(wire, Head(outQueue)) /\ outQueue' = Tail(outQueue)
        /\ UNCHANGED <<inputs, libVars, peer, agent, dataPipes>>
    BY <1>4 DEF FlushSetup
  <2>2. /\ wire \in Seq(SetupPacket) /\ outQueue \in Seq(SetupPacket)
        /\ Len(wire) \in Nat /\ Len(outQueue) \in Nat /\ Len(outQueue) > 0 /\ parts \in Nat
    BY <2>1 DEF StartupTypeOK
  <2>3. /\ Head(outQueue) = outQueue[1] /\ outQueue[1] \in SetupPacket
        /\ outQueue[1] = parts + Len(wire)
    BY <2>1, <2>2 DEF InSequence
  <2>4. /\ outQueue' \in Seq(SetupPacket) /\ Len(outQueue') = Len(outQueue) - 1
        /\ \A i \in DOMAIN outQueue' : outQueue'[i] = outQueue[i + 1] /\ i + 1 \in DOMAIN outQueue
    BY <2>1, <2>2
  <2>5. /\ wire' \in Seq(SetupPacket) /\ Len(wire') = Len(wire) + 1
        /\ \A i \in DOMAIN wire' : i \in DOMAIN wire \/ i = Len(wire) + 1
        /\ \A i \in DOMAIN wire : wire'[i] = wire[i]
        /\ wire'[Len(wire) + 1] = parts + Len(wire)
    BY <2>1, <2>2, <2>3
  <2>6. StartupTypeOK'
    <3>1. KindSet' = KindSet
      BY <2>1, KindsFixed
    <3> QED BY <2>1, <2>4, <2>5, <3>1 DEF StartupTypeOK, inputs, libVars
  <2>7. InSequence'
    <3>1. parts' = parts
      BY <2>1 DEF libVars
    <3>2. \A i \in DOMAIN wire' : wire'[i] = parts' + i - 1
      <4>1. ASSUME NEW i \in DOMAIN wire PROVE wire'[i] = parts' + i - 1
        BY <2>5, <3>1 DEF InSequence
      <4>2. wire'[Len(wire) + 1] = parts' + (Len(wire) + 1) - 1
        BY <2>2, <2>5, <3>1
      <4> QED BY <2>5, <4>1, <4>2
    <3>3. \A i \in DOMAIN outQueue' : outQueue'[i] = parts' + Len(wire') + i - 1
      BY <2>1, <2>2, <2>4, <2>5, <3>1 DEF InSequence
    <3>4. parts' + Len(wire') + Len(outQueue') <= Chunks + 1
      BY <2>2, <2>4, <2>5, <3>1 DEF InSequence
    <3> QED BY <3>2, <3>3, <3>4 DEF InSequence
  <2>8. NothingSentEarly' /\ Established' /\ PipesFirst'
    <3>1. KindSet' = KindSet
      BY <2>1, KindsFixed
    <3>2. agent' = "running" /\ lib # "start"
      BY <2>1 DEF Established
    <3> QED BY <2>1, <3>1, <3>2 DEF NothingSentEarly, Established, PipesFirst, inputs, libVars
  <2> QED BY <2>6, <2>7, <2>8
<1>5. CASE ControlPipeLost \/ Crash
  BY <1>5, ExitInv DEF ControlPipeLost, Crash
<1>6. CASE Hang
  BY <1>6 DEF Hang, StartupTypeOK, NothingSentEarly, InSequence, Established, PipesFirst,
       inputs, libVars, KindSet, Kinds, SetupPacket
<1>7. CASE OtherConnects
  <2>1. /\ peer = "nobody" /\ peer' = "other"
        /\ UNCHANGED <<inputs, libVars, agentVars, wire>>
    BY <1>7 DEF OtherConnects
  <2>2. KindSet' = KindSet
    BY <2>1, KindsFixed
  <2>3. StartupTypeOK'
    BY <2>1, <2>2 DEF StartupTypeOK, inputs, libVars, agentVars
  <2>4. NothingSentEarly' /\ InSequence' /\ PipesFirst'
    BY <2>1, <2>2 DEF NothingSentEarly, InSequence, PipesFirst, libVars, agentVars
  <2>5. Established'
    BY <2>1, <2>2 DEF Established, inputs, libVars, agentVars
  <2> QED BY <2>3, <2>4, <2>5
<1> QED BY <1>1, <1>2, <1>3, <1>4, <1>5, <1>6, <1>7 DEF AgentStep, AgentWrites

LEMMA StartupStutterInv ==
  ASSUME StartupInv, UNCHANGED startupVars
  PROVE  StartupInv'
<1>1. KindSet' = KindSet
  BY KindsFixed DEF startupVars
<1>2. StartupTypeOK'
  BY <1>1 DEF startupVars, inputs, libVars, agentVars, StartupInv, StartupTypeOK
<1>3. NothingSentEarly' /\ InSequence' /\ Established' /\ PipesFirst'
  BY <1>1 DEF startupVars, inputs, libVars, agentVars, StartupInv, NothingSentEarly,
     InSequence, Established, PipesFirst
<1> QED BY <1>2, <1>3 DEF StartupInv

LEMMA StartupStepInv == StartupInv /\ [StartupNext]_startupVars => StartupInv'
BY LibraryInv, ReadInv, AgentInv, StartupStutterInv DEF StartupNext, LibraryNext, LibraryStep,
   Finished

(* The inductive invariant of vt7pty_open.                                 *)
THEOREM StartupInvariant == StartupSpec => []StartupInv
BY StartupInitInv, StartupStepInv, PTL DEF StartupSpec

----------------------------------------------------------------------------
(* The composition takes no step that one of its parts would not take.     *)
THEOREM ImplementsStartup == ControlSpec => StartupSpec
<1>1. ControlInit => StartupInit
  BY DEF ControlInit
<1>2. ASSUME [ControlNext]_controlVars
      PROVE  [StartupNext]_startupVars
  <2>1. CASE Library
    BY <2>1 DEF Library, StartupNext
  <2>2. CASE Requests
    BY <2>2 DEF Requests
  <2>3. CASE WriteSide
    BY <2>3 DEF WriteSide, StartupNext, AgentStep
  <2>4. CASE ReadSide
    <3>1. CASE phase' = "exited"
      BY <2>4, <3>1 DEF ReadSide, StartupNext, Crash
    <3>2. CASE phase' # "exited"
      BY <2>4, <3>2 DEF ReadSide
    <3> QED BY <3>1, <3>2
  <2>5. CASE Fault \/ Others \/ Idle
    BY <2>5 DEF Fault, Others, Idle, StartupNext
  <2>6. CASE UNCHANGED controlVars
    BY <2>6 DEF controlVars
  <2> QED BY <1>2, <2>1, <2>2, <2>3, <2>4, <2>5, <2>6 DEF ControlNext
<1> QED BY <1>1, <1>2, PTL DEF ControlSpec, StartupSpec

(* Likewise the packets: what the startup's steps do to them is nothing,   *)
(* or hanging up.                                                          *)
THEOREM ImplementsStream == ControlSpec => StreamSpec
<1>1. ControlInit => StreamInit
  BY DEF ControlInit
<1>2. ASSUME [ControlNext]_controlVars
      PROVE  [StreamNext]_streamVars
  <2>1. CASE Library
    BY <2>1 DEF Library, LetsGo, StreamNext, StreamClientStep
  <2>2. CASE Requests
    BY <2>2 DEF Requests, StreamNext, StreamClientStep
  <2>3. CASE ReadSide
    BY <2>3 DEF ReadSide, StreamNext
  <2>4. CASE WriteSide \/ Fault \/ Others \/ Idle
    BY <2>4 DEF WriteSide, Fault, Others, Idle
  <2>5. CASE UNCHANGED controlVars
    BY <2>5 DEF controlVars
  <2> QED BY <1>2, <2>1, <2>2, <2>3, <2>4, <2>5 DEF ControlNext
<1> QED BY <1>1, <1>2, PTL DEF ControlSpec, StreamSpec

(* The types of the startup's state, in the composition.                   *)
THEOREM StartupTypes == ControlSpec => []StartupTypeOK
<1>1. StartupInv => StartupTypeOK
  BY DEF StartupInv
<1> QED BY <1>1, StartupInvariant, ImplementsStartup, PTL

(* vt7pty_open succeeds only with the agent it started, of its own build.  *)
THEOREM OpensOurAgent == ControlSpec => []OpenedWithOurAgent
<1>1. StartupInv => OpenedWithOurAgent
  BY DEF StartupInv, Established, OpenedWithOurAgent
<1> QED BY <1>1, StartupInvariant, ImplementsStartup, PTL

(* The names it hands out are those of the pipes the agent has created.    *)
THEOREM NamesAreOfPipes == ControlSpec => []NamesCanBeOpened
<1>1. StartupInv => NamesCanBeOpened
  <2> SUFFICES ASSUME StartupInv, lib = "opened", agent # "dead"
               PROVE  KindSet = dataPipes /\ names = dataPipes
    BY DEF NamesCanBeOpened
  <2>1. names = KindSet /\ parts = Chunks + 1
    BY DEF StartupInv, Established
  <2>2. agent = "running"
    BY <2>1 DEF StartupInv, NothingSentEarly, StartupTypeOK
  <2> QED BY <2>1, <2>2 DEF StartupInv, PipesFirst
<1> QED BY <1>1, StartupInvariant, ImplementsStartup, PTL

(* The packets of a session are handled whole, in order, once each.        *)
THEOREM SessionPacketsInOrder == ControlSpec => []PacketsInOrder
BY PacketsKeepOrder, ImplementsStream, PTL

(* m_inQueue is bounded, and the agent's loop never sleeps without a read. *)
THEOREM SessionKeepsReading == ControlSpec => [](QueueBounded /\ KeepsReading)
BY QueueStaysBounded, ReadingGoesOn, ImplementsStream, PTL
============================================================================
