------------------------ MODULE AgentSessionProofs ------------------------
(***************************************************************************)
(* Theorems about the session: whatever the bounds, the chunk size and the *)
(* kernel's buffer, and with or without CONERR; before them, about the     *)
(* output pipes, for any number of pipes and any items; and after them,    *)
(* that the session implements OutputPromise.                              *)
(***************************************************************************)
EXTENDS MCAgentSession, RecursionTheorems

(***************************************************************************)
(* The output pipes (NamedPipe).                                           *)
(***************************************************************************)
LEMMA Reassociate ==
  ASSUME NEW S, NEW x \in Seq(S), NEW y \in Seq(S), NEW z \in Seq(S)
  PROVE  (x \o y) \o z = x \o (y \o z)
BY ConcatAssociative

(***************************************************************************)
(* A chunk cut from the front of z and moved to the back of y is not lost. *)
(***************************************************************************)
LEMMA ChunkCut ==
  ASSUME NEW S, NEW z \in Seq(S), NEW n \in 0..Len(z)
  PROVE  /\ SubSeq(z, 1, n) \in Seq(S)
         /\ SubSeq(z, n + 1, Len(z)) \in Seq(S)
         /\ SubSeq(z, 1, n) \o SubSeq(z, n + 1, Len(z)) = z
<1>1. Len(z) \in Nat /\ \A i \in 1..Len(z) : z[i] \in S
  BY LenProperties, ElementOfSeq
<1>2. SubSeq(z, 1, n) \in Seq(S) /\ SubSeq(z, n + 1, Len(z)) \in Seq(S)
  BY <1>1, SubSeqProperties
<1>3. 1 \in 1..Len(z) + 1 /\ n \in 1 - 1..Len(z) /\ Len(z) \in n..Len(z)
  BY <1>1
<1>4. SubSeq(z, 1, n) \o SubSeq(z, n + 1, Len(z)) = SubSeq(z, 1, Len(z))
  BY ONLY <1>3, z \in Seq(S), ConcatAdjacentSubSeq
<1> QED BY <1>2, <1>4, SubSeqFull

(***************************************************************************)
(* Reading one unit moves it from the front of y to the back of x.         *)
(***************************************************************************)
LEMMA UnitRead ==
  ASSUME NEW S, NEW x \in Seq(S), NEW y \in Seq(S), y # <<>>
  PROVE  /\ Append(x, Head(y)) \in Seq(S)
         /\ Tail(y) \in Seq(S)
         /\ Append(x, Head(y)) \o Tail(y) = x \o y
<1> DEFINE h == <<Head(y)>>
           v == Tail(y)
<1>1. Head(y) \in S /\ v \in Seq(S) /\ Head(y) = y[1]
  BY HeadTailProperties
<1>2. Append(x, Head(y)) = x \o h /\ Append(x, Head(y)) \in Seq(S)
  BY <1>1, AppendIsConcat, AppendProperties
<1>3. h \in Seq(S)
  BY <1>1
<1>4. h \o v = y
  <2>1. Len(y) \in Nat \ {0}
    BY EmptySeq
  <2>2. SubSeq(y, 1, Len(y)) = <<y[1]>> \o SubSeq(y, 1 + 1, Len(y))
    BY <2>1, SubSeqRecursiveFirst
  <2> QED BY <1>1, <2>1, <2>2, SubSeqFull, TailIsSubSeq
<1> HIDE DEF h, v
<1>5. (x \o h) \o v = x \o (h \o v)
  BY <1>1, <1>3, Reassociate
<1> QED BY <1>1, <1>2, <1>4, <1>5 DEF v

----------------------------------------------------------------------------
(***************************************************************************)
(* StreamIntact is not inductive by itself: a failed write drops a chunk,  *)
(* so it has to be known that it can only fail when data has already been  *)
(* given up by the client's closing of its handle.                         *)
(***************************************************************************)
CloseGivesUp ==
  \A p \in OutPipes : client[p] = "closed" /\ ~broken[p] => status[p] = "closed"

PipeInv == PipeTypeOK /\ StreamIntact /\ CloseGivesUp

LEMMA PipeInitInv == PipeInit => PipeInv
<1> SUFFICES ASSUME PipeInit PROVE PipeInv
  OBVIOUS
<1>1. PipeTypeOK
  BY NamedPipeAssumption DEF PipeInit, PipeTypeOK
<1>2. StreamIntact
  BY ConcatEmptySeq, EmptySeq DEF PipeInit, StreamIntact
<1>3. CloseGivesUp
  BY DEF PipeInit, CloseGivesUp
<1> QED BY <1>1, <1>2, <1>3 DEF PipeInv

LEMMA WriteSizeRange ==
  ASSUME PipeTypeOK, NEW p \in OutPipes
  PROVE  /\ WriteSize(p) \in 0..Len(outQueue[p])
         /\ WriteSize(p) \in 0..IoSize
<1>1. outQueue[p] \in Seq(Item) /\ Len(outQueue[p]) \in Nat
  BY LenProperties DEF PipeTypeOK
<1> QED BY <1>1, NamedPipeAssumption DEF WriteSize

LEMMA ClientStepInv ==
  ASSUME PipeInv, NEW p \in OutPipes, ClientStep(p)
  PROVE  PipeInv'
<1> USE DEF PipeInv
<1>1. CASE ClientOpen(p)
  <2>1. PipeTypeOK'
    BY <1>1 DEF PipeTypeOK, ClientOpen
  <2>2. StreamIntact'
    BY <1>1 DEF StreamIntact, ClientOpen
  <2>3. CloseGivesUp'
    BY <1>1 DEF CloseGivesUp, ClientOpen, PipeTypeOK
  <2> QED BY <2>1, <2>2, <2>3
<1>2. CASE ClientRead(p)
  <2>1. /\ received[p] \in Seq(Item) /\ wire[p] \in Seq(Item)
        /\ wire[p] # <<>>
    BY <1>2 DEF PipeTypeOK, ClientRead
  <2>2. /\ Append(received[p], Head(wire[p])) \in Seq(Item)
        /\ Tail(wire[p]) \in Seq(Item)
        /\ Append(received[p], Head(wire[p])) \o Tail(wire[p]) = received[p] \o wire[p]
    BY <2>1, UnitRead
  <2>3. PipeTypeOK'
    BY <1>2, <2>2 DEF PipeTypeOK, ClientRead
  <2>4. StreamIntact'
    BY <1>2, <2>2 DEF StreamIntact, ClientRead, PipeTypeOK
  <2>5. CloseGivesUp'
    BY <1>2 DEF CloseGivesUp, ClientRead
  <2> QED BY <2>3, <2>4, <2>5
<1>3. CASE ClientClose(p)
  <2>1. PipeTypeOK'
    BY <1>3, EmptySeq DEF PipeTypeOK, ClientClose
  <2>2. StreamIntact'
    BY <1>3 DEF StreamIntact, ClientClose, PipeTypeOK, AtEof
  <2>3. CloseGivesUp'
    BY <1>3 DEF CloseGivesUp, ClientClose, PipeTypeOK, AtEof
  <2> QED BY <2>1, <2>2, <2>3
<1> QED BY <1>1, <1>2, <1>3 DEF ClientStep

LEMMA ServiceStepInv ==
  ASSUME PipeInv, NEW p \in OutPipes, ServiceStep(p)
  PROVE  PipeInv'
<1> USE DEF PipeInv
<1>1. CASE FinishConnect(p)
  <2>1. PipeTypeOK'
    BY <1>1 DEF PipeTypeOK, FinishConnect
  <2>2. StreamIntact'
    BY <1>1 DEF StreamIntact, FinishConnect
  <2>3. CloseGivesUp'
    BY <1>1 DEF CloseGivesUp, FinishConnect, PipeTypeOK
  <2> QED BY <2>1, <2>2, <2>3
<1>2. CASE IssueWrite(p)
  <2> DEFINE n == WriteSize(p)
             chunk == SubSeq(outQueue[p], 1, n)
             rest == SubSeq(outQueue[p], n + 1, Len(outQueue[p]))
  <2>1. n \in 0..Len(outQueue[p]) /\ n \in 0..IoSize
    BY WriteSizeRange
  <2>2. /\ rest \in Seq(Item)
        /\ wire[p] \o chunk \in Seq(Item)
        /\ received[p] \o (wire[p] \o chunk) \o rest
             = received[p] \o wire[p] \o outQueue[p]
    <3> DEFINE x == received[p]
               y == wire[p]
               u == x \o y
    <3>1. x \in Seq(Item) /\ y \in Seq(Item) /\ outQueue[p] \in Seq(Item)
      BY DEF PipeTypeOK
    <3> HIDE DEF n
    <3>2. chunk \in Seq(Item) /\ rest \in Seq(Item) /\ chunk \o rest = outQueue[p]
      BY <2>1, <3>1, ChunkCut
    <3> HIDE DEF x, y, chunk, rest
    <3>3. u \in Seq(Item) /\ y \o chunk \in Seq(Item)
      BY <3>1, <3>2, ConcatProperties
    <3>4. u \o chunk = x \o (y \o chunk)
      <4>1. x \in Seq(Item) /\ y \in Seq(Item) /\ chunk \in Seq(Item)
        BY <3>1, <3>2
      <4> QED BY ONLY <4>1, Reassociate DEF u
    <3> HIDE DEF u
    <3>5. (u \o chunk) \o rest = u \o (chunk \o rest)
      <4>1. u \in Seq(Item) /\ chunk \in Seq(Item) /\ rest \in Seq(Item)
        BY <3>2, <3>3
      <4> QED BY ONLY <4>1, Reassociate
    <3> QED BY <3>2, <3>3, <3>4, <3>5 DEF x, y, u
  <2>3. /\ outQueue' = [outQueue EXCEPT ![p] = rest]
        /\ wire' = [wire EXCEPT ![p] = wire[p] \o chunk]
        /\ UNCHANGED <<status, client, received, sent, broken>>
    BY <1>2 DEF IssueWrite
  <2>4. pending' \in [OutPipes -> 0..IoSize]
    BY <1>2, <2>1, NamedPipeAssumption DEF IssueWrite, PipeTypeOK
  <2> HIDE DEF n, chunk, rest
  <2>5. PipeTypeOK'
    BY <2>2, <2>3, <2>4 DEF PipeTypeOK
  <2>6. StreamIntact'
    BY <2>2, <2>3 DEF StreamIntact, PipeTypeOK
  <2>7. CloseGivesUp'
    BY <2>3 DEF CloseGivesUp
  <2> QED BY <2>5, <2>6, <2>7
<1>3. CASE CompleteWrite(p)
  <2>1. PipeTypeOK'
    BY <1>3, NamedPipeAssumption DEF PipeTypeOK, CompleteWrite
  <2>2. StreamIntact'
    BY <1>3 DEF StreamIntact, CompleteWrite
  <2>3. CloseGivesUp'
    BY <1>3 DEF CloseGivesUp, CompleteWrite
  <2> QED BY <2>1, <2>2, <2>3
<1>4. CASE PipeError(p)
  <2>1. broken[p]
    BY <1>4 DEF PipeError, CloseGivesUp, isConnected
  <2>2. SubSeq(outQueue[p], WriteSize(p) + 1, Len(outQueue[p])) \in Seq(Item)
    BY WriteSizeRange, ChunkCut DEF PipeTypeOK
  <2>3. PipeTypeOK'
    BY <1>4, <2>2, NamedPipeAssumption DEF PipeTypeOK, PipeError
  <2>4. StreamIntact'
    BY <1>4, <2>1 DEF StreamIntact, PipeError, PipeTypeOK
  <2>5. CloseGivesUp'
    BY <1>4 DEF CloseGivesUp, PipeError, PipeTypeOK
  <2> QED BY <2>3, <2>4, <2>5
<1> QED BY <1>1, <1>2, <1>3, <1>4 DEF ServiceStep

(***************************************************************************)
(* What the rest of the agent does to the pipes keeps the invariant too:   *)
(* it may write any items at any time and close any pipes at any time.     *)
(***************************************************************************)
LEMMA WriteAllInv ==
  ASSUME PipeInv, NEW b, b \in [OutPipes -> Seq(Item)], WriteAll(b)
  PROVE  PipeInv'
<1> USE DEF PipeInv
<1>1. \A p \in OutPipes : /\ outQueue[p] \o b[p] \in Seq(Item)
                          /\ sent[p] \o b[p] \in Seq(Item)
  BY ConcatProperties DEF PipeTypeOK
<1>2. PipeTypeOK'
  BY <1>1 DEF PipeTypeOK, WriteAll
<1>3. StreamIntact'
  <2> SUFFICES ASSUME NEW p \in OutPipes, ~broken[p]
               PROVE  sent'[p] = received[p] \o wire[p] \o outQueue'[p]
    BY DEF StreamIntact, WriteAll
  <2>1. /\ received[p] \o wire[p] \in Seq(Item)
        /\ outQueue[p] \in Seq(Item) /\ b[p] \in Seq(Item)
    BY ConcatProperties DEF PipeTypeOK
  <2>2. sent[p] = received[p] \o wire[p] \o outQueue[p]
    BY DEF StreamIntact
  <2>3. (received[p] \o wire[p] \o outQueue[p]) \o b[p]
          = received[p] \o wire[p] \o (outQueue[p] \o b[p])
    <3> DEFINE x == received[p] \o wire[p]
               y == outQueue[p]
               z == b[p]
    <3> HIDE DEF x, y, z
    <3>1. x \in Seq(Item) /\ y \in Seq(Item) /\ z \in Seq(Item)
      BY <2>1 DEF x, y, z
    <3>2. (x \o y) \o z = x \o (y \o z)
      BY <3>1, Reassociate
    <3> QED BY <3>2 DEF x, y, z
  <2> QED BY <2>2, <2>3 DEF WriteAll
<1>4. CloseGivesUp'
  BY DEF CloseGivesUp, WriteAll
<1> QED BY <1>2, <1>3, <1>4

LEMMA closePipesInv ==
  ASSUME PipeInv, NEW C, closePipes(C)
  PROVE  PipeInv'
<1> USE DEF PipeInv
<1>1. \A p \in OutPipes : WireLeft(p) \in Seq(Item)
  <2> SUFFICES ASSUME NEW p \in OutPipes PROVE WireLeft(p) \in Seq(Item)
    OBVIOUS
  <2>1. wire[p] \in Seq(Item) /\ Len(wire[p]) \in Nat
    BY LenProperties DEF PipeTypeOK
  <2>2. CASE Len(wire[p]) > Quota
    <3>1. Quota \in 0..Len(wire[p])
      BY <2>1, <2>2, NamedPipeAssumption
    <3>2. SubSeq(wire[p], 1, Quota) \in Seq(Item)
      BY <2>1, <3>1, ChunkCut
    <3> QED BY <2>1, <3>2 DEF WireLeft
  <2>3. CASE ~(Len(wire[p]) > Quota)
    BY <2>1, <2>3 DEF WireLeft
  <2> QED BY <2>2, <2>3
<1>2. PipeTypeOK'
  BY <1>1, NamedPipeAssumption DEF PipeTypeOK, closePipes
<1>3. StreamIntact'
  BY NamedPipeAssumption DEF StreamIntact, closePipes, WireLeft, PipeTypeOK
<1>4. CloseGivesUp'
  BY DEF CloseGivesUp, closePipes
<1> QED BY <1>2, <1>3, <1>4

LEMMA PipeStutterInv ==
  ASSUME PipeInv, UNCHANGED pipeVars
  PROVE  PipeInv'
BY DEF PipeInv, pipeVars, PipeTypeOK, StreamIntact, CloseGivesUp

LEMMA PipeNextInv == PipeInv /\ [PipeNext]_pipeVars => PipeInv'
<1> SUFFICES ASSUME PipeInv, [PipeNext]_pipeVars PROVE PipeInv'
  OBVIOUS
<1>1. ASSUME NEW p \in OutPipes, ServiceStep(p) PROVE PipeInv'
  BY <1>1, ServiceStepInv
<1>2. ASSUME NEW p \in OutPipes, ClientStep(p) PROVE PipeInv'
  BY <1>2, ClientStepInv
<1>3. ASSUME NEW b \in [OutPipes -> Batches], WriteAll(b) PROVE PipeInv'
  <2>1. b \in [OutPipes -> Seq(Item)]
    BY NamedPipeAssumption
  <2> QED BY <1>3, <2>1, WriteAllInv
<1>4. ASSUME NEW C \in SUBSET OutPipes, closePipes(C) PROVE PipeInv'
  BY <1>4, closePipesInv
<1>5. CASE UNCHANGED pipeVars
  BY <1>5, PipeStutterInv
<1> QED BY <1>1, <1>2, <1>3, <1>4, <1>5 DEF PipeNext, OwnerStep

LEMMA PipeInvAlways == PipeSpec => []PipeInv
<1> QED BY PipeInitInv, PipeNextInv, PTL DEF PipeSpec

(***************************************************************************)
(* Every variable of the pipes keeps its type; in particular a write in    *)
(* flight never exceeds kIoSize (the size of m_buffer, NamedPipe.cc).      *)
(***************************************************************************)
THEOREM PipeTypeCorrect == PipeSpec => []PipeTypeOK
<1>1. PipeInv => PipeTypeOK
  BY DEF PipeInv
<1> QED BY <1>1, PipeInvAlways, PTL

(***************************************************************************)
(* Nothing is lost, duplicated or reordered between NamedPipe::write and   *)
(* the client's reads, whatever the agent writes and closes and whenever   *)
(* the client connects, reads and closes.                                  *)
(***************************************************************************)
THEOREM PipeStreamIntact == PipeSpec => []StreamIntact
<1>1. PipeInv => StreamIntact
  BY DEF PipeInv
<1> QED BY <1>1, PipeInvAlways, PTL

----------------------------------------------------------------------------
(***************************************************************************)
(* The session (AgentSession).                                             *)
(***************************************************************************)
(***************************************************************************)
(* What the agent writes consists of items.                                *)
(***************************************************************************)
LEMMA ItemsTyped ==
  /\ \A n \in 0..MaxOutput : Out(n) \in Item
  /\ \A b \in BOOLEAN : Mouse(b) \in Item
  /\ Title \in Item /\ Dsr \in Item
<1>1. \A n \in 0..MaxOutput : Out(n) \in SessionItem
  BY AgentSessionAssumption DEF Out, SessionItem
<1>2. \A b \in BOOLEAN : Mouse(b) \in SessionItem
  BY AgentSessionAssumption DEF Mouse, SessionItem
<1>3. Title \in SessionItem /\ Dsr \in SessionItem
  BY AgentSessionAssumption DEF Title, Dsr, SessionItem
<1> QED BY <1>1, <1>2, <1>3, SessionItemAssumption

LEMMA OnlyTyped ==
  ASSUME NEW p, NEW s \in Seq(Item)
  PROVE  Only(p, s) \in [OutPipes -> Seq(Item)]
BY EmptySeq DEF Only

ScrapedInOrder ==
  \A p \in OutPipes : scraped[p] <= produced[p] /\ childTotal[p] <= produced[p]

LEMMA UnscrapedTyped ==
  ASSUME TypeOK, ScrapedInOrder, NEW p \in OutPipes
  PROVE  /\ Unscraped(p) \in Seq(Item)
         /\ Len(Unscraped(p)) = produced[p] - scraped[p]
         /\ \A i \in 1..(produced[p] - scraped[p]) : Unscraped(p)[i] = Out(scraped[p] + i)
<1> DEFINE k == produced[p] - scraped[p]
<1>1. k \in Nat /\ \A i \in 1..k : scraped[p] + i \in 0..MaxOutput
  BY AgentSessionAssumption DEF TypeOK, ScrapedInOrder
<1>2. \A i \in 1..k : Out(scraped[p] + i) \in Item
  BY <1>1, ItemsTyped
<1>3. Unscraped(p) \in [1..k -> Item]
  BY <1>2 DEF Unscraped
<1>4. Unscraped(p) \in Seq(Item)
  BY <1>1, <1>3, SeqDef
<1>5. Len(Unscraped(p)) = k
  BY <1>1, <1>3, <1>4, LenProperties DEF Unscraped
<1> QED BY <1>4, <1>5 DEF Unscraped

LEMMA BatchesTyped ==
  ASSUME TypeOK, ScrapedInOrder
  PROVE  /\ [p \in OutPipes |-> Unscraped(p)] \in [OutPipes -> Seq(Item)]
         /\ [p \in OutPipes |-> Only("conout", TitleUpdate)[p] \o Unscraped(p)]
              \in [OutPipes -> Seq(Item)]
<1>1. \A p \in OutPipes : Unscraped(p) \in Seq(Item)
  BY UnscrapedTyped
<1>2. TitleUpdate \in Seq(Item)
  BY ItemsTyped, EmptySeq DEF TitleUpdate
<1>3. Only("conout", TitleUpdate) \in [OutPipes -> Seq(Item)]
  BY <1>2, OnlyTyped
<1>4. \A p \in OutPipes : Only("conout", TitleUpdate)[p] \o Unscraped(p) \in Seq(Item)
  BY <1>1, <1>3, ConcatProperties
<1> QED BY <1>1, <1>4

(***************************************************************************)
(* What a step of the session is for its output pipes: a step of one of    *)
(* them, a write of items to each, a close, or none.                       *)
(***************************************************************************)
LEMMA OneItem ==
  ASSUME NEW S, NEW x \in S
  PROVE  <<x>> \in Seq(S) /\ Len(<<x>>) = 1 /\ <<x>>[1] = x
OBVIOUS

LEMMA StepShapes ==
  ASSUME TypeOK, ScrapedInOrder, [Next]_vars
  PROVE  \/ UNCHANGED <<pipeVars, drained>>
         \/ /\ UNCHANGED drained
            /\ \E p \in OutPipes : ServiceStep(p) \/ ClientStep(p)
         \/ /\ UNCHANGED drained
            /\ \/ \E b \in [OutPipes -> Seq(Item)] : WriteAll(b)
               \/ closePipes(OutPipes)
         \/ /\ autoClosePipesForShutdown
            /\ pc \notin {"scrape", "mouse"}
<1>1. CASE ControlIdle \/ ControlLost \/ RejectPacket \/ handleStartProcessPacket
  BY <1>1 DEF ControlIdle, ControlLost, RejectPacket, handleStartProcessPacket
<1>2. CASE handleSetSizePacket \/ pollConinPipe \/ enableMouseMode
  <2>1. UNCHANGED drained
    BY <1>2 DEF handleSetSizePacket, pollConinPipe, enableMouseMode
  <2>2. CASE handleSetSizePacket
    BY <2>2, BatchesTyped DEF handleSetSizePacket, resizeWindow
  <2>3. ASSUME NEW s \in Seq(Item), WriteAll(Only("conout", s))
        PROVE  \E b \in [OutPipes -> Seq(Item)] : WriteAll(b)
    BY <2>3, OnlyTyped
  <2>4. CASE pollConinPipe
    <3>1. <<>> \in Seq(Item) /\ <<Dsr>> \in Seq(Item)
      BY ItemsTyped, OneItem, EmptySeq
    <3> QED BY <2>3, <2>4, <3>1 DEF pollConinPipe
  <2>5. CASE enableMouseMode
    <3>1. MouseTarget \in BOOLEAN
      BY DEF TypeOK, MouseTarget
    <3>2. Mouse(MouseTarget) \in Item
      BY <3>1, ItemsTyped
    <3> DEFINE s == IF mouseMode = MouseTarget THEN <<>> ELSE <<Mouse(MouseTarget)>>
    <3>3. s \in Seq(Item)
      BY <3>2, OneItem, EmptySeq
    <3>4. WriteAll(Only("conout", s))
      BY <2>5 DEF enableMouseMode
    <3> DEFINE b == Only("conout", s)
    <3>5. b \in [OutPipes -> Seq(Item)] /\ WriteAll(b)
      BY <3>3, <3>4, OnlyTyped
    <3> HIDE DEF b, s
    <3> QED BY <2>1, <3>5
  <2> QED BY <1>2, <2>1, <2>2, <2>4, <2>5
<1>3. ASSUME NEW p \in OutPipes,
             ServiceCompletion(p) \/ ServiceIssue(p) \/ ServiceError(p)
      PROVE  ServiceStep(p) /\ UNCHANGED drained
  BY <1>3 DEF ServiceCompletion, ServiceIssue, ServiceError, ServiceStep, serviceUnchanged
<1>4. ASSUME NEW p \in OutPipes, ServiceEnd(p)
      PROVE  \/ UNCHANGED <<pipeVars, drained>>
             \/ /\ autoClosePipesForShutdown
                /\ pc \notin {"scrape", "mouse"}
  <2>1. pc \notin {"scrape", "mouse"}
    BY <1>4, AgentSessionAssumption DEF ServiceEnd
  <2> QED BY <1>4, <2>1 DEF ServiceEnd
<1>5. CASE SkipPoll \/ StartPoll \/ CheckChildExit
  BY <1>5 DEF SkipPoll, StartPoll, CheckChildExit
<1>6. CASE ScrapeContent
  <2>1. UNCHANGED drained
    BY <1>6 DEF ScrapeContent
  <2>2. UNCHANGED pipeVars \/ \E b \in [OutPipes -> Seq(Item)] : WriteAll(b)
    BY <1>6, BatchesTyped DEF ScrapeContent, scrapeBuffers
  <2> QED BY <2>1, <2>2
<1>7. CASE PollEnd
  BY <1>7 DEF PollEnd
<1>8. CASE DestroyAgent
  BY <1>8 DEF DestroyAgent
<1>9. ASSUME NEW p \in OutPipes, Client(p)
      PROVE  ClientStep(p) /\ UNCHANGED drained
  BY <1>9 DEF Client, loopVars
<1>10. ASSUME NEW p \in OutPipes, ConsoleWrite(p)
       PROVE  UNCHANGED <<pipeVars, drained>>
  BY <1>10 DEF ConsoleWrite, loopVars
<1>11. ASSUME NEW r \in Request, ClientRequest(r)
       PROVE  UNCHANGED <<pipeVars, drained>>
  BY <1>11 DEF ClientRequest, loopVars
<1>12. CASE ClientFree \/ ClientInput \/ ConsoleModeOrTitle \/ ChildExit
  BY <1>12 DEF ClientFree, ClientInput, ConsoleModeOrTitle, ChildExit, loopVars
<1>13. CASE UNCHANGED vars
  BY <1>13 DEF vars, loopVars
<1> QED
  BY <1>1, <1>2, <1>3, <1>4, <1>5, <1>6, <1>7, <1>8, <1>9, <1>10, <1>11, <1>12, <1>13
  DEF Next, AgentStep, Environment, Terminated

(***************************************************************************)
(* So the pipes' invariant holds in the session.                           *)
(***************************************************************************)
LEMMA NextPipes ==
  ASSUME TypeOK, PipeInv, ScrapedInOrder, [Next]_vars
  PROVE  PipeInv'
<1>1. CASE UNCHANGED pipeVars
  BY <1>1, PipeStutterInv
<1>2. ASSUME NEW p \in OutPipes, ServiceStep(p) \/ ClientStep(p) PROVE PipeInv'
  BY <1>2, ServiceStepInv, ClientStepInv
<1>3. ASSUME NEW b \in [OutPipes -> Seq(Item)], WriteAll(b) PROVE PipeInv'
  BY <1>3, WriteAllInv
<1>4. ASSUME NEW C, closePipes(C) PROVE PipeInv'
  BY <1>4, closePipesInv
<1> QED BY <1>1, <1>2, <1>3, <1>4, StepShapes DEF autoClosePipesForShutdown

(***************************************************************************)
(* Types of the session's own variables.                                   *)
(***************************************************************************)
LEMMA AfterPipeTyped ==
  ASSUME NEW p \in OutPipes
  PROVE  AfterPipe(p) \in OutPipes \union {"poll"}
BY AgentSessionAssumption DEF AfterPipe

LEMMA NextTypes ==
  ASSUME TypeOK, PipeTypeOK', [Next]_vars
  PROVE  TypeOK'
<1> USE DEF TypeOK
<1>1. CASE ControlIdle \/ ControlLost
  BY <1>1 DEF ControlIdle, ControlLost, shutVars, pollVars, consoleVars, inputVars, rpcVars
<1>2. CASE RejectPacket
  BY <1>2 DEF RejectPacket, HandlePacket, shutVars, pollVars, consoleVars, inputVars
<1>3. CASE handleStartProcessPacket
  <2>1. request.auto \in BOOLEAN /\ request.exit \in BOOLEAN
    <3>1. CASE request = NoRequest
      BY ONLY <3>1, Zenon DEF NoRequest
    <3>2. CASE request = Resize
      BY ONLY <3>2, Zenon DEF Resize
    <3>3. ASSUME NEW a \in BOOLEAN, NEW e \in BOOLEAN, request = Spawn(a, e)
          PROVE  request.auto \in BOOLEAN /\ request.exit \in BOOLEAN
      BY <3>3 DEF Spawn
    <3> QED BY <3>1, <3>2, <3>3 DEF Request
  <2> QED BY <1>3, <2>1 DEF handleStartProcessPacket, HandlePacket, pollVars,
          consoleVars, inputVars
<1>4. CASE handleSetSizePacket
  BY <1>4 DEF handleSetSizePacket, resizeWindow, HandlePacket, shutVars, pollVars, inputVars
<1>5. CASE pollConinPipe
  BY <1>5, AgentSessionAssumption
  DEF pollConinPipe, FirstPipe, shutVars, pollVars, consoleVars, rpcVars
<1>6. ASSUME NEW p \in OutPipes,
             ServiceCompletion(p) \/ ServiceIssue(p) \/ ServiceError(p)
      PROVE  TypeOK'
  BY <1>6 DEF ServiceCompletion, ServiceIssue, ServiceError, serviceUnchanged,
     shutVars, pollVars, consoleVars, inputVars, rpcVars
<1>7. ASSUME NEW p \in OutPipes, ServiceEnd(p) PROVE TypeOK'
  <2>1. PipesToClose \in SUBSET OutPipes /\ ExitsAfter(PipesToClose) \in BOOLEAN
    BY DEF PipesToClose, ExitsAfter
  <2>2. drained' \in SUBSET OutPipes /\ exiting' \in BOOLEAN
    BY <1>7, <2>1 DEF ServiceEnd, autoClosePipesForShutdown
  <2>3. pc' \in OutPipes \union {"poll"}
    BY <1>7, AfterPipeTyped DEF ServiceEnd
  <2> QED BY <1>7, <2>2, <2>3 DEF ServiceEnd, shutVars, pollVars, consoleVars,
          inputVars, rpcVars
<1>8. CASE SkipPoll
  BY <1>8 DEF SkipPoll, PassEnd, shutVars, pollVars, consoleVars, inputVars, rpcVars
<1>9. CASE StartPoll
  BY <1>9 DEF StartPoll, shouldActivateTerminalMouse, shutVars, consoleVars, inputVars, rpcVars
<1>10. CASE CheckChildExit
  BY <1>10 DEF CheckChildExit, pollVars, consoleVars, inputVars, rpcVars
<1>11. CASE ScrapeContent
  BY <1>11 DEF ScrapeContent, scrapeBuffers, shutVars, pollVars, inputVars, rpcVars
<1>12. CASE enableMouseMode
  BY <1>12 DEF enableMouseMode, MouseTarget, shutVars, consoleVars, inputVars, rpcVars
<1>13. CASE PollEnd
  <2>1. PipesToClose \in SUBSET OutPipes /\ ExitsAfter(PipesToClose) \in BOOLEAN
    BY DEF PipesToClose, ExitsAfter
  <2>2. drained' \in SUBSET OutPipes /\ exiting' \in BOOLEAN
    BY <1>13, <2>1 DEF PollEnd, autoClosePipesForShutdown
  <2> QED BY <1>13, <2>2 DEF PollEnd, PassEnd, shutVars, pollVars, consoleVars,
          inputVars, rpcVars
<1>14. CASE DestroyAgent
  BY <1>14 DEF DestroyAgent, shutVars, pollVars, consoleVars, inputVars, rpcVars
<1>15. ASSUME NEW p \in OutPipes, Client(p) PROVE TypeOK'
  BY <1>15 DEF Client, loopVars, shutVars, pollVars, consoleVars, inputVars, rpcVars
<1>16. ASSUME NEW p \in OutPipes, ConsoleWrite(p) PROVE TypeOK'
  <2>1. produced' \in [OutPipes -> 0..MaxOutput]
    BY <1>16, AgentSessionAssumption DEF ConsoleWrite
  <2> QED BY <1>16, <2>1 DEF ConsoleWrite, loopVars, shutVars, pollVars, inputVars, rpcVars
<1>17. ASSUME NEW r \in Request, ClientRequest(r) PROVE TypeOK'
  BY <1>17 DEF ClientRequest, loopVars, shutVars, pollVars, consoleVars, inputVars
<1>18. CASE ClientFree \/ ClientInput
  BY <1>18 DEF ClientFree, ClientInput, loopVars, shutVars, pollVars, consoleVars,
     inputVars, rpcVars
<1>19. CASE ConsoleModeOrTitle
  <2>1. /\ mouseWanted' = ~mouseWanted \/ mouseWanted' = mouseWanted
        /\ titleNew' = TRUE \/ titleNew' = titleNew
    BY <1>19, Zenon DEF ConsoleModeOrTitle
  <2>2. mouseWanted \in BOOLEAN /\ titleNew \in BOOLEAN
    OBVIOUS
  <2>3. mouseWanted' \in BOOLEAN /\ titleNew' \in BOOLEAN
    BY ONLY <2>1, <2>2, Zenon
  <2>4. events' \in Nat
    BY <1>19 DEF ConsoleModeOrTitle
  <2> QED BY <1>19, <2>3, <2>4 DEF ConsoleModeOrTitle, loopVars, shutVars, pollVars, rpcVars
<1>20. CASE ChildExit
  BY <1>20 DEF ChildExit, loopVars, pollVars, consoleVars, inputVars, rpcVars
<1>21. CASE UNCHANGED vars
  BY <1>21 DEF vars, loopVars, shutVars, pollVars, consoleVars, inputVars, rpcVars
<1> QED
  BY <1>1, <1>2, <1>3, <1>4, <1>5, <1>6, <1>7, <1>8, <1>9, <1>10, <1>11, <1>12,
     <1>13, <1>14, <1>15, <1>16, <1>17, <1>18, <1>19, <1>20, <1>21
  DEF Next, AgentStep, Environment, Terminated

----------------------------------------------------------------------------
(***************************************************************************)
(* Order of the shutdown.  The child's output up to its exit has been      *)
(* scraped whenever the agent is closing, except between the check that    *)
(* finds the child gone and the scrape that follows it in the same poll:   *)
(* StartPoll decided, before the check, that this scrape takes place.      *)
(***************************************************************************)
FinalScrapeDone ==
  closing /\ ~(pc = "scrape" /\ scrapeNow) =>
    \A p \in OutPipes : childTotal[p] <= scraped[p]

ShutdownOrder ==
  /\ closing <=> child = "reaped"
  /\ pc = "exitCheck" => scrapeNow = ~closing
  /\ FinalScrapeDone
  /\ \A p \in drained : closing /\ status[p] = "closed"

LEMMA NextScrapedInOrder ==
  ASSUME TypeOK, ScrapedInOrder, [Next]_vars
  PROVE  ScrapedInOrder'
<1>1. ASSUME UNCHANGED <<produced, scraped, childTotal>> PROVE ScrapedInOrder'
  BY <1>1 DEF ScrapedInOrder
<1>2. ASSUME scraped' = produced, UNCHANGED <<produced, childTotal>>
      PROVE  ScrapedInOrder'
  BY <1>2 DEF ScrapedInOrder, TypeOK
<1>3. CASE ControlIdle \/ ControlLost \/ RejectPacket \/ handleStartProcessPacket
  BY <1>1, <1>3 DEF ControlIdle, ControlLost, RejectPacket,
     handleStartProcessPacket, shutVars, consoleVars
<1>4. CASE handleSetSizePacket
  BY <1>2, <1>4 DEF handleSetSizePacket, resizeWindow, shutVars
<1>5. CASE pollConinPipe
  BY <1>1, <1>5 DEF pollConinPipe, shutVars, consoleVars
<1>6. ASSUME NEW p \in OutPipes,
             ServiceCompletion(p) \/ ServiceIssue(p) \/ ServiceError(p) \/ ServiceEnd(p)
      PROVE  ScrapedInOrder'
  BY <1>1, <1>6 DEF ServiceCompletion, ServiceIssue, ServiceError, ServiceEnd,
     serviceUnchanged, shutVars, consoleVars
<1>7. CASE SkipPoll \/ StartPoll \/ CheckChildExit
  BY <1>1, <1>7 DEF SkipPoll, StartPoll, shouldActivateTerminalMouse, CheckChildExit, shutVars, consoleVars
<1>8. CASE ScrapeContent
  BY <1>1, <1>2, <1>8 DEF ScrapeContent, scrapeBuffers, shutVars
<1>9. CASE enableMouseMode \/ PollEnd \/ DestroyAgent
  BY <1>1, <1>9 DEF enableMouseMode, PollEnd, DestroyAgent, shutVars, consoleVars
<1>10. ASSUME NEW p \in OutPipes, Client(p) PROVE ScrapedInOrder'
  BY <1>1, <1>10 DEF Client, shutVars, consoleVars
<1>11. ASSUME NEW p \in OutPipes, ConsoleWrite(p) PROVE ScrapedInOrder'
  BY <1>11 DEF ConsoleWrite, shutVars, ScrapedInOrder, TypeOK
<1>12. ASSUME NEW r \in Request, ClientRequest(r) PROVE ScrapedInOrder'
  BY <1>1, <1>12 DEF ClientRequest, shutVars, consoleVars
<1>13. CASE ClientFree \/ ClientInput \/ ConsoleModeOrTitle
  BY <1>1, <1>13 DEF ClientFree, ClientInput, ConsoleModeOrTitle, shutVars, consoleVars
<1>14. CASE ChildExit
  BY <1>14 DEF ChildExit, consoleVars, ScrapedInOrder, TypeOK
<1>15. CASE UNCHANGED vars
  BY <1>1, <1>15 DEF vars, shutVars, consoleVars
<1> QED
  BY <1>3, <1>4, <1>5, <1>6, <1>7, <1>8, <1>9, <1>10, <1>11, <1>12, <1>13, <1>14, <1>15
  DEF Next, AgentStep, Environment, Terminated

LEMMA NextShutdownOrder ==
  ASSUME TypeOK, ScrapedInOrder, ShutdownOrder, [Next]_vars
  PROVE  ShutdownOrder'
<1> USE DEF ShutdownOrder, FinalScrapeDone
<1>1. ASSUME UNCHANGED <<closing, child, pc, scrapeNow, scraped, childTotal, drained, status>>
      PROVE  ShutdownOrder'
  BY <1>1
<1>2. ASSUME pc \notin {"scrape", "exitCheck"}, pc' \notin {"scrape", "exitCheck"},
             UNCHANGED <<closing, child, scrapeNow, scraped, childTotal, drained, status>>
      PROVE  ShutdownOrder'
  BY <1>2
<1>3. CASE ControlIdle \/ ControlLost \/ RejectPacket
  BY <1>2, <1>3 DEF ControlIdle, ControlLost, RejectPacket, HandlePacket,
     shutVars, pollVars, consoleVars, pipeVars
<1>4. CASE handleStartProcessPacket
  BY <1>4 DEF handleStartProcessPacket, HandlePacket, SpawnAllowed, pollVars,
     consoleVars, pipeVars
<1>5. CASE handleSetSizePacket
  BY <1>5 DEF handleSetSizePacket, resizeWindow, HandlePacket, WriteAll, ScrapedInOrder,
     shutVars, pollVars
<1>6. CASE pollConinPipe
  BY <1>2, <1>6 DEF pollConinPipe, FirstPipe, WriteAll, shutVars, pollVars, consoleVars
<1>7. ASSUME NEW p \in OutPipes,
             ServiceCompletion(p) \/ ServiceIssue(p) \/ ServiceError(p)
      PROVE  ShutdownOrder'
  <2>1. ServiceStep(p) /\ UNCHANGED pc /\ serviceUnchanged
    BY <1>7 DEF ServiceCompletion, ServiceIssue, ServiceError, ServiceStep
  <2>2. \A q \in OutPipes : status[q] = "closed" => status'[q] = "closed"
    BY <2>1 DEF ServiceStep, FinishConnect, IssueWrite, CompleteWrite, PipeError,
       TypeOK, PipeTypeOK
  <2>3. UNCHANGED <<closing, child, pc, scrapeNow, scraped, childTotal, drained>>
    BY <2>1 DEF serviceUnchanged, shutVars, pollVars, consoleVars
  <2> QED BY <2>2, <2>3 DEF TypeOK
<1>8. ASSUME NEW C \in SUBSET OutPipes, closePipes(C), drained' = drained \union C,
             C # {} => closing, pc \notin {"scrape", "exitCheck"},
             pc' \notin {"scrape", "exitCheck"},
             UNCHANGED <<closing, child, scrapeNow, scraped, childTotal>>
      PROVE  ShutdownOrder'
  BY <1>8 DEF closePipes, TypeOK
<1>9. PipesToClose \in SUBSET OutPipes /\ (PipesToClose # {} => closing)
  BY DEF PipesToClose
<1>10. ASSUME NEW p \in OutPipes, ServiceEnd(p) PROVE ShutdownOrder'
  <2>1. pc \notin {"scrape", "exitCheck"} /\ pc' \notin {"scrape", "exitCheck"}
    BY <1>10, AfterPipeTyped, AgentSessionAssumption DEF ServiceEnd
  <2>2. UNCHANGED <<closing, child, scrapeNow, scraped, childTotal>>
    BY <1>10 DEF ServiceEnd, shutVars, pollVars, consoleVars
  <2>3. CASE progress
    BY <1>8, <1>9, <1>10, <2>1, <2>2, <2>3 DEF ServiceEnd, autoClosePipesForShutdown
  <2>4. CASE ~progress
    BY <1>2, <1>10, <2>1, <2>2, <2>4 DEF ServiceEnd, pipeVars
  <2> QED BY <2>3, <2>4
<1>11. CASE SkipPoll
  BY <1>2, <1>11 DEF SkipPoll, PassEnd, shutVars, pollVars, consoleVars, pipeVars
<1>12. CASE StartPoll
  BY <1>12 DEF StartPoll, shouldActivateTerminalMouse, shutVars, consoleVars, pipeVars
<1>13. CASE CheckChildExit
  <2>1. scrapeNow \in BOOLEAN /\ closing \in BOOLEAN
    BY DEF TypeOK
  <2> QED BY <1>13, <2>1 DEF CheckChildExit, pollVars, consoleVars, pipeVars
<1>14. CASE ScrapeContent
  BY <1>14 DEF ScrapeContent, scrapeBuffers, WriteAll, ScrapedInOrder, shutVars, pollVars, pipeVars
<1>15. CASE enableMouseMode
  BY <1>15 DEF enableMouseMode, WriteAll, shutVars, consoleVars
<1>16. CASE PollEnd
  <2>1. pc \notin {"scrape", "exitCheck"} /\ pc' \notin {"scrape", "exitCheck"}
    BY <1>16 DEF PollEnd, PassEnd
  <2>2. UNCHANGED <<closing, child, scrapeNow, scraped, childTotal>>
    BY <1>16 DEF PollEnd, shutVars, pollVars, consoleVars
  <2> QED BY <1>8, <1>9, <1>16, <2>1, <2>2 DEF PollEnd, autoClosePipesForShutdown
<1>17. CASE DestroyAgent
  BY <1>17 DEF DestroyAgent, closePipes, shutVars, pollVars, consoleVars, TypeOK
<1>18. ASSUME NEW p \in OutPipes, Client(p) PROVE ShutdownOrder'
  BY <1>1, <1>18 DEF Client, ClientStep, ClientOpen, ClientRead, ClientClose,
     loopVars, shutVars, pollVars, consoleVars
<1>19. ASSUME NEW p \in OutPipes, ConsoleWrite(p) PROVE ShutdownOrder'
  BY <1>1, <1>19 DEF ConsoleWrite, loopVars, shutVars, pollVars, pipeVars
<1>20. ASSUME NEW r \in Request, ClientRequest(r) PROVE ShutdownOrder'
  BY <1>1, <1>20 DEF ClientRequest, loopVars, shutVars, pollVars, consoleVars, pipeVars
<1>21. CASE ClientFree \/ ClientInput \/ ConsoleModeOrTitle
  BY <1>1, <1>21 DEF ClientFree, ClientInput, ConsoleModeOrTitle, loopVars,
     shutVars, pollVars, consoleVars, pipeVars
<1>22. CASE ChildExit
  BY <1>22 DEF ChildExit, loopVars, pollVars, consoleVars, pipeVars
<1>23. CASE UNCHANGED vars
  BY <1>1, <1>23 DEF vars, loopVars, shutVars, pollVars, consoleVars, pipeVars
<1> QED
  BY <1>3, <1>4, <1>5, <1>6, <1>7, <1>10, <1>11, <1>12, <1>13, <1>14, <1>15, <1>16,
     <1>17, <1>18, <1>19, <1>20, <1>21, <1>22, <1>23
  DEF Next, AgentStep, Environment, Terminated

----------------------------------------------------------------------------
(***************************************************************************)
(* Every unit that has been scraped was written to the pipe, and what the  *)
(* client of an orderly closed pipe has read and can still read contains   *)
(* all of the child's output.                                              *)
(***************************************************************************)
Occurs(x, s) == \E i \in 1..Len(s) : s[i] = x

SentCovers ==
  \A p \in OutPipes : \A n \in 1..scraped[p] : Occurs(Out(n), sent[p])

DrainedCovers ==
  \A p \in drained : ~broken[p] =>
    \A n \in 1..childTotal[p] : Occurs(Out(n), received[p] \o wire[p])

LEMMA OccursInConcat ==
  ASSUME NEW S, NEW s \in Seq(S), NEW t \in Seq(S), NEW x,
         Occurs(x, s) \/ Occurs(x, t)
  PROVE  Occurs(x, s \o t)
<1>1. Len(s) \in Nat /\ Len(t) \in Nat
  BY LenProperties
<1>2. Len(s \o t) = Len(s) + Len(t)
  BY ConcatProperties
<1>3. \A i \in 1..Len(s) : (s \o t)[i] = s[i]
  BY <1>1, ConcatProperties
<1>4. \A i \in 1..Len(t) : (s \o t)[Len(s) + i] = t[i]
  BY <1>1, ConcatProperties
<1>5. CASE Occurs(x, s)
  <2>1. PICK i \in 1..Len(s) : s[i] = x
    BY <1>5 DEF Occurs
  <2>2. i \in 1..Len(s \o t)
    BY <1>1, <1>2
  <2> QED BY <1>3, <2>1, <2>2 DEF Occurs
<1>6. CASE Occurs(x, t)
  <2>1. PICK i \in 1..Len(t) : t[i] = x
    BY <1>6 DEF Occurs
  <2>2. Len(s) + i \in 1..Len(s \o t)
    BY <1>1, <1>2
  <2> QED BY <1>4, <2>1, <2>2 DEF Occurs
<1> QED BY <1>5, <1>6

(***************************************************************************)
(* A write keeps what was covered; one that contains all unscraped units   *)
(* covers everything produced.                                             *)
(***************************************************************************)
LEMMA WriteKeepsCover ==
  ASSUME PipeTypeOK, SentCovers, NEW b, b \in [OutPipes -> Seq(Item)], WriteAll(b),
         UNCHANGED scraped
  PROVE  SentCovers'
<1> SUFFICES ASSUME NEW p \in OutPipes, NEW n \in 1..scraped[p]
             PROVE  Occurs(Out(n), sent'[p])
  BY DEF SentCovers, Occurs, Out
<1>1. sent[p] \in Seq(Item) /\ b[p] \in Seq(Item) /\ Occurs(Out(n), sent[p])
  BY DEF PipeTypeOK, SentCovers
<1>2. Occurs(Out(n), sent[p] \o b[p])
  BY <1>1, OccursInConcat
<1> QED BY <1>2 DEF WriteAll

LEMMA ScrapeExtendsCover ==
  ASSUME TypeOK, ScrapedInOrder, SentCovers,
         NEW b, b \in [OutPipes -> Seq(Item)], WriteAll(b), scraped' = produced,
         \A p \in OutPipes : \A x : Occurs(x, Unscraped(p)) => Occurs(x, b[p])
  PROVE  SentCovers'
<1> SUFFICES ASSUME NEW p \in OutPipes, NEW n \in 1..produced[p]
             PROVE  Occurs(Out(n), sent'[p])
  BY DEF SentCovers, Occurs, Out
<1>1. sent[p] \in Seq(Item) /\ b[p] \in Seq(Item)
  BY DEF TypeOK, PipeTypeOK
<1>2. scraped[p] \in Nat /\ produced[p] \in Nat
  BY AgentSessionAssumption DEF TypeOK
<1>3. CASE n <= scraped[p]
  <2>1. Occurs(Out(n), sent[p])
    BY <1>2, <1>3 DEF SentCovers
  <2>2. Occurs(Out(n), sent[p] \o b[p])
    BY <1>1, <2>1, OccursInConcat
  <2> QED BY <2>2 DEF WriteAll
<1>4. CASE n > scraped[p]
  <2> DEFINE i == n - scraped[p]
  <2>1. i \in 1..(produced[p] - scraped[p])
    BY <1>2, <1>4
  <2>2. Unscraped(p)[i] = Out(scraped[p] + i) /\ i \in 1..Len(Unscraped(p))
    BY <2>1, UnscrapedTyped
  <2>3. scraped[p] + i = n
    BY <1>2
  <2>4. Occurs(Out(n), Unscraped(p))
    BY <2>2, <2>3 DEF Occurs
  <2>5. Occurs(Out(n), b[p])
    BY <2>4
  <2>6. Occurs(Out(n), sent[p] \o b[p])
    BY <1>1, <2>5, OccursInConcat
  <2> QED BY <2>6 DEF WriteAll
<1> QED BY <1>2, <1>3, <1>4

LEMMA NextSentCovers ==
  ASSUME TypeOK, ScrapedInOrder, SentCovers, [Next]_vars
  PROVE  SentCovers'
<1>1. ASSUME UNCHANGED <<sent, scraped>> PROVE SentCovers'
  BY <1>1 DEF SentCovers, Occurs, Out
<1>2. PipeTypeOK
  BY DEF TypeOK
<1>3. CASE ControlIdle \/ ControlLost \/ RejectPacket \/ handleStartProcessPacket
  BY <1>1, <1>3 DEF ControlIdle, ControlLost, RejectPacket,
     handleStartProcessPacket, pipeVars, consoleVars
<1>4. CASE handleSetSizePacket
  <2> DEFINE b == [p \in OutPipes |-> Unscraped(p)]
  <2>1. b \in [OutPipes -> Seq(Item)]
    BY BatchesTyped
  <2>2. WriteAll(b) /\ scraped' = produced
    BY <1>4 DEF handleSetSizePacket, resizeWindow
  <2>3. \A p \in OutPipes : b[p] = Unscraped(p)
    OBVIOUS
  <2> HIDE DEF b
  <2> QED BY <2>1, <2>2, <2>3, ScrapeExtendsCover
<1>5. CASE pollConinPipe
  <2>1. /\ Only("conout", <<>>) \in [OutPipes -> Seq(Item)]
        /\ Only("conout", <<Dsr>>) \in [OutPipes -> Seq(Item)]
    <3>1. <<>> \in Seq(Item) /\ <<Dsr>> \in Seq(Item)
      BY ItemsTyped, EmptySeq
    <3> QED BY <3>1, OnlyTyped
  <2> QED BY <1>2, <1>5, <2>1, WriteKeepsCover DEF pollConinPipe, consoleVars
<1>6. ASSUME NEW C, closePipes(C), UNCHANGED scraped PROVE SentCovers'
  BY <1>1, <1>6 DEF closePipes
<1>7. ASSUME NEW p \in OutPipes,
             ServiceCompletion(p) \/ ServiceIssue(p) \/ ServiceError(p)
      PROVE  SentCovers'
  BY <1>1, <1>7 DEF ServiceCompletion, ServiceIssue, ServiceError, FinishConnect,
     CompleteWrite, IssueWrite, PipeError, serviceUnchanged, consoleVars
<1>8. ASSUME NEW p \in OutPipes, ServiceEnd(p) PROVE SentCovers'
  BY <1>1, <1>6, <1>8 DEF ServiceEnd, autoClosePipesForShutdown, pipeVars, consoleVars
<1>9. CASE SkipPoll \/ StartPoll \/ CheckChildExit
  BY <1>1, <1>9 DEF SkipPoll, StartPoll, shouldActivateTerminalMouse, CheckChildExit, pipeVars, consoleVars
<1>10. CASE ScrapeContent
  <2>1. CASE ~scrapeNow
    BY <1>1, <1>10, <2>1 DEF ScrapeContent, scrapeBuffers, pipeVars
  <2>2. CASE scrapeNow
    <3> DEFINE b == [p \in OutPipes |-> Only("conout", TitleUpdate)[p] \o Unscraped(p)]
    <3>1. b \in [OutPipes -> Seq(Item)]
      BY BatchesTyped
    <3>2. WriteAll(b) /\ scraped' = produced
      BY <1>10, <2>2 DEF ScrapeContent, scrapeBuffers
    <3>3. ASSUME NEW p \in OutPipes, NEW x, Occurs(x, Unscraped(p))
          PROVE  Occurs(x, b[p])
      <4> DEFINE t == Only("conout", TitleUpdate)
      <4>1. TitleUpdate \in Seq(Item)
        BY ItemsTyped, EmptySeq DEF TitleUpdate
      <4>2. t \in [OutPipes -> Seq(Item)]
        BY <4>1, OnlyTyped
      <4>3. t[p] \in Seq(Item) /\ Unscraped(p) \in Seq(Item)
        BY <4>2, UnscrapedTyped
      <4> HIDE DEF t
      <4>4. Occurs(x, t[p] \o Unscraped(p))
        BY <3>3, <4>3, OccursInConcat
      <4> QED BY <4>4 DEF t
    <3> HIDE DEF b
    <3> QED BY <3>1, <3>2, <3>3, ScrapeExtendsCover
  <2> QED BY <2>1, <2>2
<1>11. CASE enableMouseMode
  <2> DEFINE s == IF mouseMode = MouseTarget THEN <<>> ELSE <<Mouse(MouseTarget)>>
  <2>1. MouseTarget \in BOOLEAN
    BY DEF TypeOK, MouseTarget
  <2>2. Mouse(MouseTarget) \in Item
    BY <2>1, ItemsTyped
  <2>3. s \in Seq(Item)
    BY <2>2, EmptySeq
  <2>4. Only("conout", s) \in [OutPipes -> Seq(Item)]
    BY <2>3, OnlyTyped
  <2>5. WriteAll(Only("conout", s)) /\ UNCHANGED scraped
    BY <1>11 DEF enableMouseMode, consoleVars
  <2> QED BY <1>2, <2>4, <2>5, WriteKeepsCover
<1>12. CASE PollEnd \/ DestroyAgent
  BY <1>6, <1>12 DEF PollEnd, DestroyAgent, autoClosePipesForShutdown, consoleVars
<1>13. ASSUME NEW p \in OutPipes, Client(p) PROVE SentCovers'
  BY <1>1, <1>13 DEF Client, ClientStep, ClientOpen, ClientRead, ClientClose, consoleVars
<1>14. ASSUME NEW p \in OutPipes, ConsoleWrite(p) PROVE SentCovers'
  BY <1>1, <1>14 DEF ConsoleWrite, pipeVars
<1>15. ASSUME NEW r \in Request, ClientRequest(r) PROVE SentCovers'
  BY <1>1, <1>15 DEF ClientRequest, pipeVars, consoleVars
<1>16. CASE ClientFree \/ ClientInput \/ ConsoleModeOrTitle \/ ChildExit
  BY <1>1, <1>16 DEF ClientFree, ClientInput, ConsoleModeOrTitle, ChildExit,
     pipeVars, consoleVars
<1>17. CASE UNCHANGED vars
  BY <1>1, <1>17 DEF vars, pipeVars, consoleVars
<1> QED
  BY <1>3, <1>4, <1>5, <1>7, <1>8, <1>9, <1>10, <1>11, <1>12, <1>13, <1>14, <1>15,
     <1>16, <1>17
  DEF Next, AgentStep, Environment, Terminated

(***************************************************************************)
(* What a close at the end of a poll finds: the pipe has nothing to send,  *)
(* so everything written to it is with the client or in the kernel's pipe. *)
(***************************************************************************)
LEMMA OrderlyCloseCovers ==
  ASSUME TypeOK, PipeInv, ShutdownOrder, SentCovers, DrainedCovers,
         ~(pc = "scrape" /\ scrapeNow), autoClosePipesForShutdown, UNCHANGED childTotal
  PROVE  DrainedCovers'
<1> DEFINE C == PipesToClose
<1>1. closePipes(C) /\ drained' = drained \union C
  BY DEF autoClosePipesForShutdown
<1>2. \A p \in C : closing /\ p \in OutPipes /\ isConnected(p) /\ bytesToSend(p) = 0
  BY DEF PipesToClose
<1>3. ASSUME NEW p \in drained, ~broken'[p], NEW n \in 1..childTotal[p]
      PROVE  Occurs(Out(n), received'[p] \o wire'[p])
  <2>1. p \in OutPipes /\ p \notin C
    BY <1>2, <1>3 DEF TypeOK, ShutdownOrder, isConnected
  <2> HIDE DEF C
  <2>2. ~broken[p] /\ received'[p] = received[p] /\ wire'[p] = wire[p]
    BY <1>1, <1>3, <2>1 DEF closePipes
  <2> QED BY <1>3, <2>2 DEF DrainedCovers
<1>4. ASSUME NEW p \in C, ~broken'[p], NEW n \in 1..childTotal[p]
      PROVE  Occurs(Out(n), received'[p] \o wire'[p])
  <2>1. p \in OutPipes /\ closing /\ Len(outQueue[p]) + pending[p] = 0
    BY <1>2 DEF bytesToSend
  <2>2. outQueue[p] \in Seq(Item) /\ Len(outQueue[p]) \in Nat /\ pending[p] \in Nat
    BY <2>1, LenProperties, NamedPipeAssumption DEF TypeOK, PipeTypeOK
  <2>3. outQueue[p] = <<>> /\ pending[p] = 0
    BY <2>1, <2>2, EmptySeq
  <2> HIDE DEF C
  <2>4. ~broken[p] /\ received'[p] = received[p] /\ wire'[p] = wire[p]
    BY <1>1, <1>4, <2>1, <2>3 DEF closePipes, WireLeft
  <2>5. received[p] \in Seq(Item) /\ wire[p] \in Seq(Item)
    BY <2>1 DEF TypeOK, PipeTypeOK
  <2>6. sent[p] = received[p] \o wire[p]
    <3>1. sent[p] = received[p] \o wire[p] \o <<>>
      BY <2>1, <2>3, <2>4 DEF PipeInv, StreamIntact
    <3>2. received[p] \o wire[p] \in Seq(Item)
      BY <2>5, ConcatProperties
    <3> QED BY <3>1, <3>2, ConcatEmptySeq
  <2>7. n \in 1..scraped[p]
    <3>1. childTotal[p] <= scraped[p]
      BY <2>1 DEF ShutdownOrder, FinalScrapeDone
    <3>2. childTotal[p] \in Nat /\ scraped[p] \in Nat
      BY <2>1, AgentSessionAssumption DEF TypeOK
    <3> QED BY <3>1, <3>2
  <2>8. Occurs(Out(n), sent[p])
    BY <2>1, <2>7 DEF SentCovers
  <2> QED BY <2>4, <2>6, <2>8
<1> HIDE DEF C
<1>5. \A p \in drained' : ~broken'[p] =>
        \A n \in 1..childTotal[p] : Occurs(Out(n), received'[p] \o wire'[p])
  BY <1>1, <1>3, <1>4
<1> QED BY <1>5 DEF DrainedCovers, Occurs, Out

LEMMA DrainedKept ==
  ASSUME DrainedCovers, UNCHANGED <<drained, childTotal>>,
         \A p \in drained : ~broken'[p] =>
           ~broken[p] /\ received'[p] \o wire'[p] = received[p] \o wire[p]
  PROVE  DrainedCovers'
<1>1. ASSUME NEW p \in drained, ~broken'[p], NEW n \in 1..childTotal[p]
      PROVE  Occurs(Out(n), received'[p] \o wire'[p])
  <2>1. Occurs(Out(n), received[p] \o wire[p])
    BY <1>1 DEF DrainedCovers
  <2>2. received'[p] \o wire'[p] = received[p] \o wire[p]
    BY <1>1
  <2> QED BY <2>1, <2>2
<1>2. \A p \in drained' : ~broken'[p] =>
        \A n \in 1..childTotal'[p] : Occurs(Out(n), received'[p] \o wire'[p])
  BY <1>1
<1> QED BY <1>2 DEF DrainedCovers, Occurs, Out

LEMMA NextDrainedCovers ==
  ASSUME TypeOK, PipeInv, ShutdownOrder, SentCovers, DrainedCovers, [Next]_vars
  PROVE  DrainedCovers'
<1>1. ASSUME UNCHANGED <<drained, childTotal, received, wire, broken>>
      PROVE  DrainedCovers'
  BY <1>1, DrainedKept
<1>2. drained \subseteq OutPipes
  BY DEF TypeOK
<1>3. CASE ControlIdle \/ ControlLost \/ RejectPacket \/ handleStartProcessPacket
  BY <1>1, <1>3 DEF ControlIdle, ControlLost, RejectPacket,
     handleStartProcessPacket, pipeVars, shutVars
<1>4. CASE handleSetSizePacket \/ pollConinPipe \/ enableMouseMode
  BY <1>1, <1>4 DEF handleSetSizePacket, resizeWindow, pollConinPipe, enableMouseMode, WriteAll, shutVars
<1>5. CASE ScrapeContent
  BY <1>1, <1>5 DEF ScrapeContent, scrapeBuffers, WriteAll, pipeVars, shutVars
<1>6. ASSUME NEW p \in OutPipes,
             ServiceCompletion(p) \/ ServiceIssue(p) \/ ServiceError(p)
      PROVE  DrainedCovers'
  <2>1. ServiceStep(p) /\ serviceUnchanged
    BY <1>6 DEF ServiceCompletion, ServiceIssue, ServiceError, ServiceStep
  <2>2. status[p] # "closed"
    BY <2>1 DEF ServiceStep, FinishConnect, IssueWrite, CompleteWrite, PipeError, isConnected
  <2>3. p \notin drained
    BY <2>2 DEF ShutdownOrder
  <2>4. \A q \in OutPipes \ {p} :
          received'[q] = received[q] /\ wire'[q] = wire[q] /\ broken'[q] = broken[q]
    BY <2>1 DEF ServiceStep, FinishConnect, IssueWrite, CompleteWrite, PipeError,
       TypeOK, PipeTypeOK
  <2>5. UNCHANGED <<drained, childTotal>>
    BY <2>1 DEF serviceUnchanged, shutVars
  <2> QED BY <1>2, <2>3, <2>4, <2>5, DrainedKept
<1>7. ASSUME NEW p \in OutPipes, ServiceEnd(p) PROVE DrainedCovers'
  <2>1. CASE progress
    <3>1. pc # "scrape"
      BY <1>7, AgentSessionAssumption DEF ServiceEnd
    <3> QED BY <1>7, <2>1, <3>1, OrderlyCloseCovers DEF ServiceEnd, shutVars
  <2>2. CASE ~progress
    BY <1>1, <1>7, <2>2 DEF ServiceEnd, pipeVars, shutVars
  <2> QED BY <2>1, <2>2
<1>8. CASE SkipPoll \/ StartPoll \/ CheckChildExit
  BY <1>1, <1>8 DEF SkipPoll, StartPoll, shouldActivateTerminalMouse, CheckChildExit, pipeVars, shutVars
<1>9. CASE PollEnd
  <2>1. pc # "scrape"
    BY <1>9 DEF PollEnd
  <2> QED BY <1>9, <2>1, OrderlyCloseCovers DEF PollEnd, shutVars
<1>10. CASE DestroyAgent
  <2>1. UNCHANGED <<drained, childTotal, received>>
    BY <1>10 DEF DestroyAgent, closePipes, shutVars
  <2>2. \A p \in OutPipes : ~broken'[p] => ~broken[p] /\ wire'[p] = wire[p]
    BY <1>10, NamedPipeAssumption DEF DestroyAgent, closePipes, WireLeft, TypeOK, PipeTypeOK
  <2> QED BY <1>2, <2>1, <2>2, DrainedKept
<1>11. ASSUME NEW p \in OutPipes, Client(p) PROVE DrainedCovers'
  <2>1. ClientStep(p) /\ UNCHANGED <<drained, childTotal>>
    BY <1>11 DEF Client, loopVars, shutVars
  <2>2. received[p] \in Seq(Item) /\ wire[p] \in Seq(Item)
    BY DEF TypeOK, PipeTypeOK
  <2>3. \A q \in OutPipes : ~broken'[q] =>
          ~broken[q] /\ received'[q] \o wire'[q] = received[q] \o wire[q]
    <3>1. CASE ClientOpen(p)
      BY <3>1 DEF ClientOpen
    <3>2. CASE ClientRead(p)
      <4>1. wire[p] # <<>>
        BY <3>2 DEF ClientRead
      <4>2. Append(received[p], Head(wire[p])) \o Tail(wire[p]) = received[p] \o wire[p]
        BY <2>2, <4>1, UnitRead
      <4> QED BY <3>2, <4>2 DEF ClientRead, TypeOK, PipeTypeOK
    <3>3. CASE ClientClose(p)
      BY <3>3 DEF ClientClose, AtEof, TypeOK, PipeTypeOK
    <3> QED BY <2>1, <3>1, <3>2, <3>3 DEF ClientStep
  <2> QED BY <1>2, <2>1, <2>3, DrainedKept
<1>12. ASSUME NEW p \in OutPipes, ConsoleWrite(p) PROVE DrainedCovers'
  BY <1>1, <1>12 DEF ConsoleWrite, pipeVars, loopVars, shutVars
<1>13. ASSUME NEW r \in Request, ClientRequest(r) PROVE DrainedCovers'
  BY <1>1, <1>13 DEF ClientRequest, pipeVars, loopVars, shutVars
<1>14. CASE ClientFree \/ ClientInput \/ ConsoleModeOrTitle
  BY <1>1, <1>14 DEF ClientFree, ClientInput, ConsoleModeOrTitle, pipeVars,
     loopVars, shutVars
<1>15. CASE ChildExit
  <2>1. drained = {}
    BY <1>15 DEF ChildExit, ShutdownOrder
  <2> QED BY <1>15, <2>1 DEF ChildExit, loopVars, DrainedCovers
<1>16. CASE UNCHANGED vars
  BY <1>1, <1>16 DEF vars, pipeVars, loopVars, shutVars
<1> QED
  BY <1>3, <1>4, <1>5, <1>6, <1>7, <1>8, <1>9, <1>10, <1>11, <1>12, <1>13, <1>14,
     <1>15, <1>16
  DEF Next, AgentStep, Environment, Terminated

----------------------------------------------------------------------------
(***************************************************************************)
(* An orderly close finds the pipe opened, with no write in flight and, as *)
(* long as the client keeps its handle, nothing given up.                  *)
(***************************************************************************)
Opened(p) ==
  /\ status[p] = "connected" => client[p] # "none"
  /\ status[p] = "closed" => pending[p] = 0
  /\ status[p] # "closed" /\ client[p] # "closed" => ~broken[p]

OpenedInv == /\ \A p \in OutPipes : Opened(p)
             /\ OrderlyCloseKeepsOutput

LEMMA NextOpened ==
  ASSUME TypeOK, ScrapedInOrder, ShutdownOrder, OpenedInv, [Next]_vars
  PROVE  OpenedInv'
<1> USE DEF OpenedInv, Opened, OrderlyCloseKeepsOutput
<1>1. drained \subseteq OutPipes /\ \A p \in drained : status[p] = "closed"
  BY DEF TypeOK, ShutdownOrder
<1>2. CASE UNCHANGED <<pipeVars, drained>>
  BY <1>2 DEF pipeVars
<1>3. ASSUME NEW p \in OutPipes, ServiceStep(p), UNCHANGED drained
      PROVE  OpenedInv'
  <2>1. p \notin drained
    BY <1>1, <1>3 DEF ServiceStep, FinishConnect, IssueWrite, CompleteWrite, PipeError, isConnected
  <2>2. UNCHANGED client /\ UNCHANGED broken
    BY <1>3 DEF ServiceStep, FinishConnect, IssueWrite, CompleteWrite, PipeError
  <2>3. \A q \in OutPipes \ {p} : status'[q] = status[q] /\ pending'[q] = pending[q]
    BY <1>3 DEF ServiceStep, FinishConnect, IssueWrite, CompleteWrite, PipeError,
       TypeOK, PipeTypeOK
  <2>4. Opened(p)'
    BY <1>3 DEF ServiceStep, FinishConnect, IssueWrite, CompleteWrite, PipeError,
       isConnected, TypeOK, PipeTypeOK
  <2> QED BY <1>1, <1>3, <2>1, <2>2, <2>3, <2>4
<1>4. ASSUME NEW p \in OutPipes, ClientStep(p), UNCHANGED drained
      PROVE  OpenedInv'
  <2>1. CASE ClientOpen(p)
    BY <1>1, <1>4, <2>1 DEF ClientOpen, TypeOK, PipeTypeOK
  <2>2. CASE ClientRead(p)
    BY <1>1, <1>4, <2>2 DEF ClientRead, TypeOK, PipeTypeOK
  <2>3. CASE ClientClose(p)
    <3>1. /\ UNCHANGED <<status, pending>>
          /\ client'[p] = "closed"
          /\ \A q \in OutPipes \ {p} : client'[q] = client[q] /\ broken'[q] = broken[q]
      BY <1>4, <2>3 DEF ClientClose, TypeOK, PipeTypeOK
    <3>2. \A q \in OutPipes : Opened(q)'
      BY <3>1
    <3> QED BY <1>1, <1>4, <3>1, <3>2
  <2> QED BY <1>4, <2>1, <2>2, <2>3 DEF ClientStep
<1>5. ASSUME NEW b \in [OutPipes -> Seq(Item)], WriteAll(b), UNCHANGED drained
      PROVE  OpenedInv'
  BY <1>1, <1>5 DEF WriteAll
<1>6. CASE closePipes(OutPipes) /\ UNCHANGED drained
  BY <1>1, <1>6 DEF closePipes, TypeOK, PipeTypeOK
<1>7. CASE autoClosePipesForShutdown
  <2> DEFINE C == PipesToClose
  <2>1. closePipes(C) /\ drained' = drained \union C
    BY <1>7 DEF autoClosePipesForShutdown
  <2>2. ASSUME NEW p \in C
        PROVE  p \in OutPipes /\ status[p] = "connected" /\ pending[p] = 0
    <3>1. p \in OutPipes /\ status[p] = "connected" /\ Len(outQueue[p]) + pending[p] = 0
      BY DEF PipesToClose, isConnected, bytesToSend
    <3>2. Len(outQueue[p]) \in Nat /\ pending[p] \in Nat
      BY <3>1, LenProperties, NamedPipeAssumption DEF TypeOK, PipeTypeOK
    <3> QED BY <3>1, <3>2
  <2> HIDE DEF C
  <2>3. \A p \in OutPipes : broken'[p] = broken[p] /\ client'[p] = client[p]
    BY <2>1, <2>2 DEF closePipes, TypeOK, PipeTypeOK
  <2>4. \A p \in OutPipes : Opened(p)'
    BY <2>1, <2>2, <2>3 DEF closePipes
  <2>5. OrderlyCloseKeepsOutput'
    <3>1. \A p \in drained : client'[p] # "none" /\ (client'[p] = "open" => ~broken'[p])
      BY <1>1, <2>3
    <3>2. \A p \in C : client'[p] # "none" /\ (client'[p] = "open" => ~broken'[p])
      BY <2>2, <2>3
    <3> QED BY <2>1, <3>1, <3>2
  <2> QED BY <2>4, <2>5
<1> QED BY <1>2, <1>3, <1>4, <1>5, <1>6, <1>7, StepShapes

----------------------------------------------------------------------------
(***************************************************************************)
(* The stream of a pipe that an orderly close ends stays what it was then, *)
(* which is all that was written to it.                                    *)
(***************************************************************************)
LEMMA DrainedStep ==
  ASSUME TypeOK, PipeInv, ScrapedInOrder, ShutdownOrder, OpenedInv, [Next]_vars,
         NEW p \in drained', ~broken'[p]
  PROVE  \/ /\ p \in drained /\ ~broken[p]
            /\ received'[p] \o wire'[p] = received[p] \o wire[p]
         \/ /\ closing /\ pc \notin {"scrape", "mouse"}
            /\ received'[p] \o wire'[p] = sent[p]
<1>1. drained \subseteq OutPipes /\ \A q \in drained : status[q] = "closed"
  BY DEF TypeOK, ShutdownOrder
<1>2. CASE UNCHANGED <<pipeVars, drained>>
  BY <1>2 DEF pipeVars
<1>3. ASSUME NEW q \in OutPipes, ServiceStep(q), UNCHANGED drained
      PROVE  ~broken[p] /\ received'[p] = received[p] /\ wire'[p] = wire[p]
  <2>1. p # q
    BY <1>1, <1>3 DEF ServiceStep, FinishConnect, IssueWrite, CompleteWrite, PipeError, isConnected
  <2> QED BY <1>1, <1>3, <2>1 DEF ServiceStep, FinishConnect, IssueWrite, CompleteWrite,
          PipeError, TypeOK, PipeTypeOK
<1>4. ASSUME NEW q \in OutPipes, ClientStep(q), UNCHANGED drained
      PROVE  ~broken[p] /\ received'[p] \o wire'[p] = received[p] \o wire[p]
  <2>1. received[q] \in Seq(Item) /\ wire[q] \in Seq(Item)
    BY DEF TypeOK, PipeTypeOK
  <2>2. CASE ClientOpen(q)
    BY <2>2 DEF ClientOpen
  <2>3. CASE ClientRead(q)
    <3>1. wire[q] # <<>>
      BY <2>3 DEF ClientRead
    <3>2. Append(received[q], Head(wire[q])) \o Tail(wire[q]) = received[q] \o wire[q]
      BY <2>1, <3>1, UnitRead
    <3> QED BY <1>1, <1>4, <2>3, <3>2 DEF ClientRead, TypeOK, PipeTypeOK
  <2>4. CASE ClientClose(q)
    BY <1>1, <1>4, <2>4 DEF ClientClose, AtEof, TypeOK, PipeTypeOK
  <2> QED BY <1>4, <2>2, <2>3, <2>4 DEF ClientStep
<1>5. ASSUME NEW b \in [OutPipes -> Seq(Item)], WriteAll(b)
      PROVE  ~broken[p] /\ received'[p] = received[p] /\ wire'[p] = wire[p]
  BY <1>5 DEF WriteAll
<1>6. ASSUME closePipes(OutPipes), UNCHANGED drained
      PROVE  ~broken[p] /\ received'[p] = received[p] /\ wire'[p] = wire[p]
  <2>1. p \in OutPipes /\ pending[p] = 0
    BY <1>1, <1>6 DEF OpenedInv, Opened
  <2> QED BY <1>6, <2>1 DEF closePipes, WireLeft
<1>7. ASSUME autoClosePipesForShutdown, p \in drained
      PROVE  ~broken[p] /\ received'[p] = received[p] /\ wire'[p] = wire[p]
  <2>1. p \in OutPipes /\ p \notin PipesToClose
    BY <1>1, <1>7 DEF PipesToClose, isConnected
  <2> QED BY <1>7, <2>1 DEF autoClosePipesForShutdown, closePipes
<1>8. ASSUME autoClosePipesForShutdown, p \notin drained
      PROVE  closing /\ received'[p] \o wire'[p] = sent[p]
  <2>1. p \in PipesToClose
    BY <1>8 DEF autoClosePipesForShutdown
  <2>2. p \in OutPipes /\ closing /\ Len(outQueue[p]) + pending[p] = 0
    BY <2>1 DEF PipesToClose, bytesToSend
  <2>3. outQueue[p] \in Seq(Item) /\ received[p] \in Seq(Item) /\ wire[p] \in Seq(Item)
    BY <2>2 DEF TypeOK, PipeTypeOK
  <2>4. Len(outQueue[p]) \in Nat /\ pending[p] \in Nat
    BY <2>2, <2>3, LenProperties, NamedPipeAssumption DEF TypeOK, PipeTypeOK
  <2>5. outQueue[p] = <<>> /\ pending[p] = 0
    BY <2>2, <2>3, <2>4, EmptySeq
  <2>6. ~broken[p] /\ received'[p] = received[p] /\ wire'[p] = wire[p]
    BY <1>8, <2>1, <2>2, <2>5 DEF autoClosePipesForShutdown, closePipes, WireLeft
  <2>7. received[p] \o wire[p] \in Seq(Item)
    BY <2>3, ConcatProperties
  <2>8. sent[p] = (received[p] \o wire[p]) \o <<>>
    BY <2>2, <2>5, <2>6 DEF PipeInv, StreamIntact
  <2> QED BY <2>2, <2>6, <2>7, <2>8, ConcatEmptySeq
<1> QED BY <1>2, <1>3, <1>4, <1>5, <1>6, <1>7, <1>8, StepShapes

----------------------------------------------------------------------------
(***************************************************************************)
(* The mouse mode.  While the terminal is thought to be out of it, what    *)
(* was written to CONOUT ends it whenever it enables it; once the agent is *)
(* closing it is out of it, but for the rest of the poll that found the    *)
(* child gone.                                                             *)
(***************************************************************************)
EndsMouse(s) ==
  \A i \in 1..Len(s) : s[i] = Mouse(TRUE) =>
    \E j \in 1..Len(s) : j > i /\ s[j] = Mouse(FALSE)

MouseInv ==
  /\ ~mouseMode => EndsMouse(sent["conout"])
  /\ closing /\ pc \notin {"scrape", "mouse"} => ~mouseMode
  /\ "conout" \in drained /\ ~broken["conout"] =>
       EndsMouse(received["conout"] \o wire["conout"])

LEMMA EndsMouseConcat ==
  ASSUME NEW S, NEW s \in Seq(S), NEW t \in Seq(S), EndsMouse(s),
         \A i \in 1..Len(t) : t[i] # Mouse(TRUE)
  PROVE  EndsMouse(s \o t)
<1>1. Len(s) \in Nat /\ Len(t) \in Nat
  BY LenProperties
<1>2. Len(s \o t) = Len(s) + Len(t)
  BY ConcatProperties
<1>3. \A i \in 1..Len(s) : (s \o t)[i] = s[i]
  BY <1>1, ConcatProperties
<1>4. \A i \in 1..Len(t) : (s \o t)[Len(s) + i] = t[i]
  BY <1>1, ConcatProperties
<1>5. ASSUME NEW i \in 1..Len(s \o t), (s \o t)[i] = Mouse(TRUE)
      PROVE  \E j \in 1..Len(s \o t) : j > i /\ (s \o t)[j] = Mouse(FALSE)
  <2>1. CASE i > Len(s)
    <3> DEFINE k == i - Len(s)
    <3>1. k \in 1..Len(t) /\ i = Len(s) + k
      BY <1>1, <1>2, <2>1
    <3>2. t[k] # Mouse(TRUE)
      BY <3>1
    <3> QED BY <1>4, <1>5, <3>1, <3>2
  <2>2. CASE ~(i > Len(s))
    <3>1. i \in 1..Len(s)
      BY <1>1, <2>2
    <3>2. s[i] = Mouse(TRUE)
      BY <1>3, <1>5, <3>1
    <3>3. PICK j \in 1..Len(s) : j > i /\ s[j] = Mouse(FALSE)
      BY <3>1, <3>2 DEF EndsMouse
    <3>4. j \in 1..Len(s \o t)
      BY <1>1, <1>2
    <3>5. (s \o t)[j] = Mouse(FALSE)
      BY <1>3, <3>3
    <3> QED BY <3>3, <3>4, <3>5
  <2> QED BY <2>1, <2>2
<1> QED BY <1>5 DEF EndsMouse

LEMMA EndsMouseOff ==
  ASSUME NEW S, NEW s \in Seq(S), Mouse(FALSE) \in S
  PROVE  EndsMouse(s \o <<Mouse(FALSE)>>)
<1> DEFINE off == <<Mouse(FALSE)>>
<1>1. off \in Seq(S) /\ Len(off) = 1 /\ off[1] = Mouse(FALSE)
  BY OneItem
<1> HIDE DEF off
<1>2. Len(s) \in Nat /\ Len(s \o off) = Len(s) + 1
  <2>1. Len(s) \in Nat /\ Len(s \o off) = Len(s) + Len(off)
    BY <1>1, ConcatProperties, LenProperties
  <2> QED BY <1>1, <2>1
<1>5. (s \o off)[Len(s) + 1] = Mouse(FALSE)
  <2>1. 1 \in 1..Len(off) /\ \A i \in 1..Len(off) : (s \o off)[Len(s) + i] = off[i]
    BY <1>1, <1>2, ConcatProperties
  <2> QED BY <1>1, <2>1
<1>3. Mouse(TRUE) # Mouse(FALSE)
  BY DEF Mouse
<1>4. ASSUME NEW i \in 1..Len(s \o off), (s \o off)[i] = Mouse(TRUE)
      PROVE  \E j \in 1..Len(s \o off) : j > i /\ (s \o off)[j] = Mouse(FALSE)
  <2>1. i # Len(s) + 1
    BY <1>3, <1>4, <1>5
  <2>2. Len(s) + 1 > i /\ Len(s) + 1 \in 1..Len(s \o off)
    BY <1>2, <2>1
  <2> QED BY <1>5, <2>2
<1> QED BY <1>4 DEF EndsMouse, off

LEMMA QuietOutput ==
  ASSUME TypeOK, ScrapedInOrder
  PROVE  /\ Title # Mouse(TRUE) /\ Dsr # Mouse(TRUE)
         /\ \A i \in 1..Len(Unscraped("conout")) : Unscraped("conout")[i] # Mouse(TRUE)
         /\ LET b == Only("conout", TitleUpdate)["conout"] \o Unscraped("conout")
            IN  \A i \in 1..Len(b) : b[i] # Mouse(TRUE)
<1>1. Title # Mouse(TRUE) /\ Dsr # Mouse(TRUE) /\ \A n : Out(n) # Mouse(TRUE)
  BY DEF Title, Dsr, Mouse, Out
<1>2. "conout" \in OutPipes
  BY AgentSessionAssumption
<1> DEFINE u == Unscraped("conout")
           t == Only("conout", TitleUpdate)["conout"]
<1>3. u \in Seq(Item) /\ \A i \in 1..Len(u) : u[i] # Mouse(TRUE)
  BY <1>1, <1>2, UnscrapedTyped
<1>4. t \in Seq(Item) /\ \A i \in 1..Len(t) : t[i] # Mouse(TRUE)
  <2>1. t = TitleUpdate
    BY <1>2 DEF Only
  <2>2. TitleUpdate = <<>> \/ TitleUpdate = <<Title>>
    BY DEF TitleUpdate
  <2> HIDE DEF t
  <2>3. CASE TitleUpdate = <<>>
    BY <2>1, <2>3, EmptySeq
  <2>4. CASE TitleUpdate = <<Title>>
    <3>1. t \in Seq(Item) /\ Len(t) = 1 /\ t[1] = Title
      BY <2>1, <2>4, ItemsTyped, OneItem
    <3>2. \A i \in 1..1 : i = 1
      OBVIOUS
    <3>3. Title # Mouse(TRUE)
      BY <1>1
    <3> QED BY <3>1, <3>2, <3>3
  <2> QED BY <2>2, <2>3, <2>4
<1> HIDE DEF u, t
<1>5. Len(t \o u) = Len(t) + Len(u) /\ Len(t) \in Nat /\ Len(u) \in Nat
  BY <1>3, <1>4, ConcatProperties, LenProperties
<1>6. ASSUME NEW i \in 1..Len(t \o u) PROVE (t \o u)[i] # Mouse(TRUE)
  <2>1. CASE i <= Len(t)
    <3>1. i \in 1..Len(t)
      BY <1>5, <2>1
    <3>2. (t \o u)[i] = t[i]
      BY <1>3, <1>4, <1>5, <3>1, ConcatProperties
    <3> QED BY <1>4, <3>1, <3>2
  <2>2. CASE i > Len(t)
    <3>1. i - Len(t) \in 1..Len(u)
      BY <1>5, <2>2
    <3>2. (t \o u)[i] = u[i - Len(t)]
      BY <1>3, <1>4, <1>5, <2>2, ConcatProperties
    <3> QED BY <1>3, <3>1, <3>2
  <2>3. i \in Nat
    BY <1>5
  <2>4. i <= Len(t) \/ i > Len(t)
    BY <1>5, <2>3
  <2> QED BY <2>1, <2>2, <2>4
<1> QED BY <1>1, <1>3, <1>6 DEF u, t

MouseTracked == ~mouseMode => EndsMouse(sent["conout"])

LEMMA QuietWrite ==
  ASSUME TypeOK, MouseTracked, NEW b, b \in [OutPipes -> Seq(Item)], WriteAll(b),
         \A i \in 1..Len(b["conout"]) : b["conout"][i] # Mouse(TRUE), UNCHANGED mouseMode
  PROVE  MouseTracked'
<1>1. "conout" \in OutPipes
  BY AgentSessionAssumption
<1>2. sent["conout"] \in Seq(Item) /\ b["conout"] \in Seq(Item)
  BY <1>1 DEF TypeOK, PipeTypeOK
<1>3. ~mouseMode => EndsMouse(sent["conout"] \o b["conout"])
  BY <1>2, EndsMouseConcat DEF MouseTracked
<1>4. sent'["conout"] = sent["conout"] \o b["conout"]
  BY <1>1 DEF WriteAll
<1> QED BY <1>3, <1>4 DEF MouseTracked, EndsMouse, Mouse

LEMMA NextTracked ==
  ASSUME TypeOK, ScrapedInOrder, MouseTracked, [Next]_vars
  PROVE  MouseTracked'
<1>1. ASSUME UNCHANGED <<sent, mouseMode>> PROVE MouseTracked'
  BY <1>1 DEF MouseTracked, EndsMouse, Mouse
<1>2. "conout" \in OutPipes
  BY AgentSessionAssumption
<1>3. \A s \in Seq(Item) : Only("conout", s) \in [OutPipes -> Seq(Item)]
                          /\ Only("conout", s)["conout"] = s
  BY <1>2, OnlyTyped DEF Only
<1>4. CASE handleSetSizePacket
  <2> DEFINE b == [p \in OutPipes |-> Unscraped(p)]
  <2>1. b \in [OutPipes -> Seq(Item)] /\ b["conout"] = Unscraped("conout")
    BY <1>2, BatchesTyped
  <2>2. WriteAll(b) /\ UNCHANGED mouseMode
    BY <1>4 DEF handleSetSizePacket, resizeWindow, pollVars
  <2> HIDE DEF b
  <2> QED BY <2>1, <2>2, QuietOutput, QuietWrite
<1>5. CASE pollConinPipe
  <2>1. UNCHANGED mouseMode
    BY <1>5 DEF pollConinPipe, pollVars
  <2>2. PICK s \in {<<>>, <<Dsr>>} : WriteAll(Only("conout", s))
    BY <1>5 DEF pollConinPipe
  <2>3. s \in Seq(Item) /\ \A i \in 1..Len(s) : s[i] # Mouse(TRUE)
    <3>1. CASE s = <<>>
      BY <3>1, EmptySeq
    <3>2. CASE s = <<Dsr>>
      <4>1. s \in Seq(Item) /\ Len(s) = 1 /\ s[1] = Dsr
        BY <3>2, ItemsTyped, OneItem
      <4>2. \A i \in 1..1 : i = 1
        OBVIOUS
      <4>3. Dsr # Mouse(TRUE)
        BY QuietOutput
      <4> QED BY <4>1, <4>2, <4>3
    <3> QED BY <3>1, <3>2
  <2> DEFINE b == Only("conout", s)
  <2>4. b \in [OutPipes -> Seq(Item)] /\ b["conout"] = s
    BY <1>3, <2>3
  <2>5. WriteAll(b)
    BY <2>2
  <2> HIDE DEF b
  <2> QED BY <2>1, <2>3, <2>4, <2>5, QuietWrite
<1>6. CASE ScrapeContent
  <2>1. CASE ~scrapeNow
    BY <1>1, <1>6, <2>1 DEF ScrapeContent, pipeVars, pollVars
  <2>2. CASE scrapeNow
    <3> DEFINE b == [p \in OutPipes |-> Only("conout", TitleUpdate)[p] \o Unscraped(p)]
    <3>1. /\ b \in [OutPipes -> Seq(Item)]
          /\ b["conout"] = Only("conout", TitleUpdate)["conout"] \o Unscraped("conout")
      BY <1>2, BatchesTyped
    <3>2. WriteAll(b) /\ UNCHANGED mouseMode
      BY <1>6, <2>2 DEF ScrapeContent, scrapeBuffers, pollVars
    <3>3. \A i \in 1..Len(b["conout"]) : b["conout"][i] # Mouse(TRUE)
      BY <3>1, QuietOutput
    <3> HIDE DEF b
    <3> QED BY <3>1, <3>2, <3>3, QuietWrite
  <2> QED BY <2>1, <2>2
<1>7. CASE enableMouseMode
  <2>1. MouseTarget \in BOOLEAN /\ mouseMode \in BOOLEAN
    BY DEF TypeOK, MouseTarget
  <2>2. mouseMode' = MouseTarget
    BY <1>7 DEF enableMouseMode
  <2>3. CASE MouseTarget
    BY <2>2, <2>3 DEF MouseTracked
  <2>4. CASE ~MouseTarget /\ ~mouseMode
    <3>1. WriteAll(Only("conout", <<>>))
      <4>1. mouseMode = MouseTarget
        BY <2>1, <2>4
      <4> QED BY <1>7, <4>1 DEF enableMouseMode
    <3>2. UNCHANGED mouseMode
      BY <2>1, <2>2, <2>4
    <3> DEFINE b == Only("conout", <<>>)
    <3>3. b \in [OutPipes -> Seq(Item)] /\ b["conout"] = <<>>
      BY <1>3, EmptySeq
    <3>4. WriteAll(b)
      BY <3>1
    <3> HIDE DEF b
    <3>5. \A i \in 1..Len(b["conout"]) : b["conout"][i] # Mouse(TRUE)
      BY <3>3
    <3> QED BY <3>2, <3>3, <3>4, <3>5, QuietWrite
  <2>5. CASE ~MouseTarget /\ mouseMode
    <3> DEFINE off == <<Mouse(FALSE)>>
               b == Only("conout", off)
    <3>1. WriteAll(b)
      <4>1. mouseMode # MouseTarget /\ MouseTarget = FALSE
        BY <2>1, <2>5
      <4> QED BY <1>7, <4>1 DEF enableMouseMode
    <3>2. Mouse(FALSE) \in Item /\ off \in Seq(Item)
      BY ItemsTyped, OneItem
    <3>3. b["conout"] = off
      BY <1>2 DEF Only
    <3>4. sent'["conout"] = sent["conout"] \o off
      BY <1>2, <3>1, <3>3 DEF WriteAll
    <3>5. sent["conout"] \in Seq(Item)
      BY <1>2 DEF TypeOK, PipeTypeOK
    <3>6. EndsMouse(sent["conout"] \o off)
      BY <3>2, <3>5, EndsMouseOff
    <3> QED BY <3>4, <3>6 DEF MouseTracked, EndsMouse, Mouse
  <2> QED BY <2>1, <2>3, <2>4, <2>5
<1>8. ASSUME NEW C, closePipes(C), UNCHANGED mouseMode PROVE MouseTracked'
  BY <1>1, <1>8 DEF closePipes
<1>9. ASSUME NEW p \in OutPipes,
             ServiceCompletion(p) \/ ServiceIssue(p) \/ ServiceError(p)
      PROVE  MouseTracked'
  BY <1>1, <1>9 DEF ServiceCompletion, ServiceIssue, ServiceError, FinishConnect,
     CompleteWrite, IssueWrite, PipeError, serviceUnchanged, pollVars
<1>10. ASSUME NEW p \in OutPipes, ServiceEnd(p) PROVE MouseTracked'
  BY <1>1, <1>8, <1>10 DEF ServiceEnd, autoClosePipesForShutdown, pipeVars, pollVars
<1>11. CASE ControlIdle \/ ControlLost \/ RejectPacket \/ handleStartProcessPacket
  BY <1>1, <1>11 DEF ControlIdle, ControlLost, RejectPacket,
     handleStartProcessPacket, pipeVars, pollVars
<1>12. CASE SkipPoll \/ StartPoll \/ CheckChildExit
  BY <1>1, <1>12 DEF SkipPoll, StartPoll, CheckChildExit, pipeVars, pollVars
<1>13. CASE PollEnd \/ DestroyAgent
  BY <1>8, <1>13 DEF PollEnd, DestroyAgent, autoClosePipesForShutdown, pollVars
<1>14. ASSUME NEW p \in OutPipes, Client(p) PROVE MouseTracked'
  BY <1>1, <1>14 DEF Client, ClientStep, ClientOpen, ClientRead, ClientClose, pollVars
<1>15. ASSUME NEW p \in OutPipes, ConsoleWrite(p) PROVE MouseTracked'
  BY <1>1, <1>15 DEF ConsoleWrite, pipeVars, pollVars
<1>16. ASSUME NEW r \in Request, ClientRequest(r) PROVE MouseTracked'
  BY <1>1, <1>16 DEF ClientRequest, pipeVars, pollVars
<1>17. CASE ClientFree \/ ClientInput \/ ConsoleModeOrTitle \/ ChildExit
  BY <1>1, <1>17 DEF ClientFree, ClientInput, ConsoleModeOrTitle, ChildExit,
     pipeVars, pollVars
<1>18. CASE UNCHANGED vars
  BY <1>1, <1>18 DEF vars, pipeVars, pollVars
<1> QED
  BY <1>4, <1>5, <1>6, <1>7, <1>9, <1>10, <1>11, <1>12, <1>13, <1>14, <1>15, <1>16,
     <1>17, <1>18
  DEF Next, AgentStep, Environment, Terminated

LEMMA NextMouse ==
  ASSUME TypeOK, PipeInv, ScrapedInOrder, ShutdownOrder, OpenedInv, MouseInv, [Next]_vars
  PROVE  MouseInv'
<1> DEFINE off == closing /\ pc \notin {"scrape", "mouse"} => ~mouseMode
<1>1. off
  BY DEF MouseInv
<1>2. MouseTracked'
  BY NextTracked DEF MouseInv, MouseTracked
<1>3. off'
  <2>1. ASSUME UNCHANGED closing, UNCHANGED mouseMode, pc \notin {"scrape", "mouse"}
        PROVE  off'
    BY <1>1, <2>1
  <2>2. CASE CheckChildExit
    BY <2>2 DEF CheckChildExit
  <2>3. CASE ScrapeContent
    BY <2>3 DEF ScrapeContent
  <2>4. CASE enableMouseMode
    BY <2>4 DEF enableMouseMode, MouseTarget, shutVars
  <2>5. ASSUME NEW p \in OutPipes,
               ServiceCompletion(p) \/ ServiceIssue(p) \/ ServiceError(p) \/ ServiceEnd(p)
        PROVE  off'
    <3>1. pc \notin {"scrape", "mouse"}
      BY <2>5, AgentSessionAssumption
      DEF ServiceCompletion, ServiceIssue, ServiceError, ServiceEnd
    <3>2. UNCHANGED closing /\ UNCHANGED mouseMode
      BY <2>5 DEF ServiceCompletion, ServiceIssue, ServiceError, ServiceEnd,
         serviceUnchanged, shutVars, pollVars
    <3> QED BY <2>1, <3>1, <3>2
  <2>6. CASE \/ ControlIdle \/ ControlLost \/ RejectPacket
             \/ handleStartProcessPacket \/ handleSetSizePacket \/ pollConinPipe
    BY <2>1, <2>6 DEF ControlIdle, ControlLost, RejectPacket, HandlePacket,
       handleStartProcessPacket, handleSetSizePacket, pollConinPipe, shutVars, pollVars
  <2>7. CASE SkipPoll \/ StartPoll \/ PollEnd \/ DestroyAgent
    BY <2>1, <2>7 DEF SkipPoll, StartPoll, PollEnd, DestroyAgent, shutVars, pollVars
  <2>8. ASSUME UNCHANGED <<closing, mouseMode, pc>> PROVE off'
    BY <1>1, <2>8
  <2>9. CASE Environment
    BY <2>8, <2>9 DEF Environment, Client, ConsoleWrite, ClientRequest, ClientFree,
       ClientInput, ConsoleModeOrTitle, ChildExit, loopVars, shutVars, pollVars
  <2>10. CASE UNCHANGED vars
    BY <2>8, <2>10 DEF vars, loopVars, shutVars, pollVars
  <2> QED BY <2>2, <2>3, <2>4, <2>5, <2>6, <2>7, <2>9, <2>10 DEF Next, AgentStep, Terminated
<1>4. ASSUME "conout" \in drained', ~broken'["conout"]
      PROVE  EndsMouse(received'["conout"] \o wire'["conout"])
  <2> DEFINE before == received["conout"] \o wire["conout"]
             after  == received'["conout"] \o wire'["conout"]
  <2>1. \/ "conout" \in drained /\ ~broken["conout"] /\ after = before
        \/ closing /\ pc \notin {"scrape", "mouse"} /\ after = sent["conout"]
    BY <1>4, DrainedStep
  <2> HIDE DEF before, after
  <2>2. CASE "conout" \in drained /\ ~broken["conout"] /\ after = before
    <3>1. EndsMouse(before)
      BY <2>2 DEF MouseInv, before
    <3> QED BY <2>2, <3>1 DEF after
  <2>3. CASE closing /\ pc \notin {"scrape", "mouse"} /\ after = sent["conout"]
    <3>1. EndsMouse(sent["conout"])
      BY <2>3 DEF MouseInv
    <3> QED BY <2>3, <3>1 DEF after
  <2> QED BY <2>1, <2>2, <2>3
<1>5. ("conout" \in drained /\ ~broken["conout"] =>
         EndsMouse(received["conout"] \o wire["conout"]))'
  BY <1>4 DEF EndsMouse, Mouse
<1> QED BY <1>2, <1>3, <1>5 DEF MouseInv, MouseTracked

----------------------------------------------------------------------------
SessionInv ==
  /\ TypeOK
  /\ PipeInv
  /\ ScrapedInOrder
  /\ ShutdownOrder
  /\ SentCovers
  /\ DrainedCovers
  /\ OpenedInv
  /\ MouseInv

LEMMA InitInv == Init => SessionInv
<1> SUFFICES ASSUME Init PROVE SessionInv
  OBVIOUS
<1>1. PipeInv
  BY PipeInitInv DEF Init
<1>2. TypeOK
  <2>1. PipeTypeOK
    BY <1>1 DEF PipeInv
  <2>2. [p \in OutPipes |-> 0] \in [OutPipes -> 0..MaxOutput]
    BY AgentSessionAssumption
  <2> QED BY <2>1, <2>2, AgentSessionAssumption DEF Init, TypeOK
<1>3. ScrapedInOrder /\ ShutdownOrder /\ SentCovers /\ DrainedCovers
  BY DEF Init, ScrapedInOrder, ShutdownOrder, FinalScrapeDone, SentCovers, DrainedCovers
<1>4. OpenedInv
  BY DEF Init, PipeInit, OpenedInv, Opened, OrderlyCloseKeepsOutput
<1>5. MouseInv
  <2>1. sent["conout"] = <<>>
    BY AgentSessionAssumption DEF Init, PipeInit
  <2> QED BY <2>1 DEF Init, MouseInv, EndsMouse
<1> QED BY <1>1, <1>2, <1>3, <1>4, <1>5 DEF SessionInv

LEMMA NextInv == SessionInv /\ [Next]_vars => SessionInv'
<1> SUFFICES ASSUME SessionInv, [Next]_vars PROVE SessionInv'
  OBVIOUS
<1> USE DEF SessionInv
<1>1. PipeInv'
  BY NextPipes
<1>2. TypeOK'
  BY <1>1, NextTypes DEF PipeInv
<1> QED BY <1>1, <1>2, NextScrapedInOrder, NextShutdownOrder, NextSentCovers,
        NextDrainedCovers, NextOpened, NextMouse

LEMMA SessionInvAlways == Spec => []SessionInv
<1> QED BY InitInv, NextInv, PTL DEF Spec

(***************************************************************************)
(* Every variable of the session keeps its type; in particular the loop is *)
(* never at a pipe the session does not have.                              *)
(***************************************************************************)
THEOREM SessionTypeCorrect == Spec => []TypeOK
<1>1. SessionInv => TypeOK
  BY DEF SessionInv
<1> QED BY <1>1, SessionInvAlways, PTL

(***************************************************************************)
(* The stream of each pipe is intact whatever the agent writes to it, with *)
(* polls, resizes, shutdown and the client's own steps interleaved.        *)
(***************************************************************************)
THEOREM SessionStreamIntact == Spec => []StreamIntact
<1>1. SessionInv => StreamIntact
  BY DEF SessionInv, PipeInv
<1> QED BY <1>1, SessionInvAlways, PTL

(***************************************************************************)
(* End of file means the child's output is complete, for any amount of     *)
(* output and any interleaving of its writes with the agent and client.    *)
(***************************************************************************)
THEOREM FinalOutputAlwaysDelivered == Spec => []FinalOutputDelivered
<1>1. SessionInv => FinalOutputDelivered
  <2> SUFFICES ASSUME SessionInv, NEW p \in OutPipes, Complete(p),
                      NEW n \in 1..childTotal[p]
               PROVE  Out(n) \in Received(p)
    BY DEF FinalOutputDelivered
  <2>1. Occurs(Out(n), received[p] \o wire[p])
    BY DEF SessionInv, DrainedCovers, Complete
  <2>2. received[p] \in Seq(Item) /\ wire[p] = <<>>
    BY DEF SessionInv, TypeOK, PipeTypeOK, Complete
  <2>3. received[p] \o wire[p] = received[p]
    BY <2>2, ConcatEmptySeq
  <2>4. DOMAIN received[p] = 1..Len(received[p])
    BY <2>2, LenProperties
  <2> QED BY <2>1, <2>3, <2>4 DEF Occurs, Received
<1> QED BY <1>1, SessionInvAlways, PTL

(***************************************************************************)
(* Auto-shutdown closes no pipe a client has yet to open, and gives up     *)
(* nothing while the client keeps its handle (Agent.cc:541).               *)
(***************************************************************************)
THEOREM OrderlyCloseAlwaysKeeps == Spec => []OrderlyCloseKeepsOutput
<1>1. SessionInv => OrderlyCloseKeepsOutput
  BY DEF SessionInv, OpenedInv
<1> QED BY <1>1, SessionInvAlways, PTL

(***************************************************************************)
(* At the end of CONOUT the terminal is out of mouse mode, whatever input  *)
(* mode the program has left behind, and whenever (Agent.cc:530).          *)
(***************************************************************************)
THEOREM MouseAlwaysOffAtEof == Spec => []MouseOffAtEof
<1>1. SessionInv => MouseOffAtEof
  <2> SUFFICES ASSUME SessionInv, Complete("conout") PROVE MouseOffAtEof
    BY DEF MouseOffAtEof
  <2>1. "conout" \in OutPipes
    BY AgentSessionAssumption
  <2>2. received["conout"] \in Seq(Item) /\ wire["conout"] = <<>>
    BY <2>1 DEF SessionInv, TypeOK, PipeTypeOK, Complete
  <2>3. EndsMouse(received["conout"] \o wire["conout"])
    BY DEF SessionInv, MouseInv, Complete
  <2>4. received["conout"] \o wire["conout"] = received["conout"]
    BY <2>2, ConcatEmptySeq
  <2>5. EndsMouse(received["conout"])
    BY <2>3, <2>4
  <2>6. DOMAIN received["conout"] = 1..Len(received["conout"])
    BY <2>2, LenProperties
  <2> QED BY <2>5, <2>6 DEF EndsMouse, MouseOffAtEof
<1> QED BY <1>1, SessionInvAlways, PTL

(***************************************************************************)
(* The agent starts one child: no step makes the child run that had been   *)
(* started before, not even when it has been reaped (Agent.cc:364).        *)
(***************************************************************************)
THEOREM OnlyOneChild == Spec => OneChild
<1>1. SessionInv /\ [Next]_vars =>
        [child' = "running" => child \in {"none", "running"}]_vars
  <2> SUFFICES ASSUME SessionInv, [Next]_vars, child' = "running"
               PROVE  child \in {"none", "running"}
    OBVIOUS
  <2>1. child \in {"none", "running", "exited", "reaped"} /\ (closing <=> child = "reaped")
    BY DEF SessionInv, TypeOK, ShutdownOrder
  <2>2. CASE handleStartProcessPacket
    BY <2>1, <2>2 DEF handleStartProcessPacket, SpawnAllowed
  <2>3. CASE CheckChildExit
    BY <2>3 DEF CheckChildExit
  <2>4. CASE ChildExit
    BY <2>4 DEF ChildExit
  <2>5. ASSUME UNCHANGED child PROVE child \in {"none", "running"}
    BY <2>5
  <2>6. CASE \/ ControlIdle \/ ControlLost \/ RejectPacket \/ handleSetSizePacket
             \/ pollConinPipe \/ SkipPoll \/ StartPoll \/ ScrapeContent
             \/ enableMouseMode \/ PollEnd \/ DestroyAgent
    BY <2>5, <2>6 DEF ControlIdle, ControlLost, RejectPacket, handleSetSizePacket,
       pollConinPipe, SkipPoll, StartPoll, ScrapeContent, enableMouseMode, PollEnd,
       DestroyAgent, shutVars
  <2>7. ASSUME NEW p \in OutPipes,
               ServiceCompletion(p) \/ ServiceIssue(p) \/ ServiceError(p) \/ ServiceEnd(p)
        PROVE  child \in {"none", "running"}
    BY <2>5, <2>7 DEF ServiceCompletion, ServiceIssue, ServiceError, ServiceEnd,
       serviceUnchanged, shutVars
  <2>8. CASE Environment /\ ~ChildExit
    BY <2>5, <2>8 DEF Environment, Client, ConsoleWrite, ClientRequest, ClientFree,
       ClientInput, ConsoleModeOrTitle, shutVars
  <2>9. CASE UNCHANGED vars
    BY <2>5, <2>9 DEF vars, shutVars
  <2> QED BY <2>2, <2>3, <2>4, <2>6, <2>7, <2>8, <2>9
          DEF Next, AgentStep, Environment, Terminated
<1> QED BY <1>1, SessionInvAlways, PTL DEF Spec, OneChild

----------------------------------------------------------------------------
(***************************************************************************)
(* The session implements OutputPromise, for every amount of output, any   *)
(* chunk size and kernel buffer, with or without CONERR.  Two invariants   *)
(* carry it: what is written to a pipe has the units scraped so far, in    *)
(* order (UnitsInOrder); and what the client has read and can still read   *)
(* is a beginning of what was written (ReadsBeginning), also when data has *)
(* been given up, which StreamIntact says nothing about.                   *)
(***************************************************************************)

----------------------------------------------------------------------------
(***************************************************************************)
(* The units of output among items, as a fold: what the empty sequence,    *)
(* one more item and one sequence after another give.                      *)
(***************************************************************************)
UnitNumber == {x.n : x \in Item}

AddUnit == [y \in Seq(UnitNumber) \X Item |->
              IF y[2].kind = "out" THEN Append(y[1], y[2].n) ELSE y[1]]

LEMMA AddUnitCombines ==
  /\ Combines(AddUnit, Seq(UnitNumber), Item)
  /\ \A v \in Seq(UnitNumber), x \in Item :
       AddUnit[<<v, x>>] = IF x.kind = "out" THEN Append(v, x.n) ELSE v
<1>1. ASSUME NEW y \in Seq(UnitNumber) \X Item
      PROVE  (IF y[2].kind = "out" THEN Append(y[1], y[2].n) ELSE y[1]) \in Seq(UnitNumber)
  <2>1. y[1] \in Seq(UnitNumber) /\ y[2].n \in UnitNumber
    BY DEF UnitNumber
  <2>2. Append(y[1], y[2].n) \in Seq(UnitNumber)
    BY <2>1, AppendProperties
  <2> QED BY <2>1, <2>2
<1>2. AddUnit \in [Seq(UnitNumber) \X Item -> Seq(UnitNumber)]
  BY <1>1 DEF AddUnit
<1>3. \A v \in Seq(UnitNumber), x \in Item :
        AddUnit[<<v, x>>] = IF x.kind = "out" THEN Append(v, x.n) ELSE v
  BY DEF AddUnit
<1> QED BY <1>2, <1>3 DEF Combines

LEMMA UnitsFolded ==
  ASSUME NEW s \in Seq(Item)
  PROVE  Units(s) = Folded(AddUnit, <<>>, s)
<1> DEFINE V == Seq(UnitNumber)
           G(h) == [i \in 0..Len(s) |->
                      IF i = 0 THEN <<>>
                      ELSE IF s[i].kind = "out" THEN Append(h[i - 1], s[i].n) ELSE h[i - 1]]
           u == CHOOSE h : h = G(h)
<1>1. <<>> \in V /\ Len(s) \in Nat
  OBVIOUS
<1>2. PICK f \in [0..Len(s) -> V] : Folding(f, AddUnit, <<>>, s) /\ DefinesFold(f, AddUnit, <<>>, s)
  BY <1>1, AddUnitCombines, FoldingExists
<1>3. ASSUME NEW i \in 1..Len(s)
      PROVE  f[i] = IF s[i].kind = "out" THEN Append(f[i - 1], s[i].n) ELSE f[i - 1]
  <2>1. s[i] \in Item /\ i - 1 \in 0..Len(s)
    OBVIOUS
  <2>2. f[i - 1] \in V /\ f[i] = AddUnit[<<f[i - 1], s[i]>>]
    BY <1>2, <2>1 DEF Folding
  <2> QED BY <2>1, <2>2, AddUnitCombines
<1>4. f = G(f)
  <2>1. \A i \in 0..Len(s) : i = 0 \/ i \in 1..Len(s)
    BY <1>1
  <2>2. f[0] = <<>>
    BY <1>2 DEF Folding
  <2> QED BY <1>2, <1>3, <2>1, <2>2
<1>5. u = G(u)
  BY <1>4, Zenon
<1> DEFINE S == {i \in 0..Len(s) : u[i] = f[i]}
<1>6. 0 \in S
  <2>1. G(u)[0] = <<>> /\ 0 \in 0..Len(s)
    BY <1>1
  <2> HIDE DEF G, u
  <2> QED BY <1>2, <1>5, <2>1 DEF Folding
<1>7. ASSUME NEW i \in 1..Len(s), i - 1 \in S PROVE i \in S
  <2>1. i \in 0..Len(s) /\ i # 0 /\ u[i - 1] = f[i - 1]
    BY <1>7
  <2>2. G(u)[i] = IF s[i].kind = "out" THEN Append(u[i - 1], s[i].n) ELSE u[i - 1]
    BY <2>1
  <2> HIDE DEF G, u
  <2>3. u[i] = f[i]
    BY <1>3, <1>5, <2>1, <2>2
  <2> QED BY <2>1, <2>3
<1>8. 0..Len(s) \subseteq S
  <2> HIDE DEF S
  <2> QED BY <1>1, <1>6, <1>7, IntervalInduction
<1>9. u[Len(s)] = f[Len(s)]
  <2>1. Len(s) \in S
    <3> HIDE DEF S
    <3>1. Len(s) \in 0..Len(s)
      BY <1>1
    <3> QED BY <1>8, <3>1
  <2> HIDE DEF u, G
  <2> QED BY <2>1
<1>10. Units(s) = u[Len(s)]
  BY DEF Units
<1> HIDE DEF u
<1> QED BY <1>1, <1>2, <1>9, <1>10, AddUnitCombines, FoldedIs

LEMMA UnitsFacts ==
  /\ Units(<<>>) = <<>>
  /\ \A s \in Seq(Item) : Units(s) \in Seq(UnitNumber)
  /\ \A s \in Seq(Item), x \in Item :
       Units(Append(s, x)) = IF x.kind = "out" THEN Append(Units(s), x.n) ELSE Units(s)
<1> DEFINE V == Seq(UnitNumber)
<1>1. <<>> \in V /\ <<>> \in Seq(Item)
  OBVIOUS
<1>2. Combines(AddUnit, V, Item)
  BY AddUnitCombines
<1> HIDE DEF V
<1>3. Units(<<>>) = <<>>
  <2>1. Folded(AddUnit, <<>>, <<>>) = <<>>
    BY <1>1, <1>2, FoldedEmpty
  <2> QED BY <1>1, <2>1, UnitsFolded
<1>4. ASSUME NEW s \in Seq(Item) PROVE Units(s) \in V
  <2>1. Folded(AddUnit, <<>>, s) \in V
    BY ONLY <1>1, <1>2, s \in Seq(Item), FoldedType
  <2> QED BY <2>1, UnitsFolded
<1>5. ASSUME NEW s \in Seq(Item), NEW x \in Item
      PROVE  Units(Append(s, x)) = IF x.kind = "out" THEN Append(Units(s), x.n) ELSE Units(s)
  <2>1. Append(s, x) \in Seq(Item)
    OBVIOUS
  <2>2. Folded(AddUnit, <<>>, Append(s, x)) = AddUnit[<<Folded(AddUnit, <<>>, s), x>>]
    BY <1>1, <1>2, FoldedAppend
  <2>3. Units(Append(s, x)) = AddUnit[<<Units(s), x>>]
    BY <2>1, <2>2, UnitsFolded
  <2> QED BY <1>4, <2>3, AddUnitCombines DEF V
<1> QED BY <1>3, <1>4, <1>5 DEF V

LEMMA UnitsConcat ==
  ASSUME NEW s \in Seq(Item), NEW t \in Seq(Item)
  PROVE  Units(s \o t) = Units(s) \o Units(t)
<1> DEFINE S == {k \in 0..Len(t) : Units(s \o SubSeq(t, 1, k)) = Units(s) \o Units(SubSeq(t, 1, k))}
<1>1. Len(t) \in Nat /\ Units(s) \in Seq(UnitNumber)
  BY UnitsFacts
<1>2. 0 \in S
  <2>1. SubSeq(t, 1, 0) = <<>> /\ s \o <<>> = s /\ Units(s) \o <<>> = Units(s)
    BY <1>1, ConcatEmptySeq
  <2>2. Units(<<>>) = <<>> /\ 0 \in 0..Len(t)
    BY <1>1, UnitsFacts
  <2>3. Units(s \o SubSeq(t, 1, 0)) = Units(s) \o Units(SubSeq(t, 1, 0))
    BY ONLY <2>1, <2>2
  <2> QED BY <2>2, <2>3
<1>3. ASSUME NEW k \in 1..Len(t), k - 1 \in S PROVE k \in S
  <2> DEFINE r == SubSeq(t, 1, k - 1)
             x == t[k]
  <2>1. r \in Seq(Item) /\ x \in Item /\ SubSeq(t, 1, k) = Append(r, x) /\ k \in 0..Len(t)
    OBVIOUS
  <2>2. Units(s \o r) = Units(s) \o Units(r)
    BY <1>3
  <2> HIDE DEF r, x
  <2>3. s \o Append(r, x) = Append(s \o r, x) /\ s \o r \in Seq(Item)
    BY <2>1
  <2>4. Units(r) \in Seq(UnitNumber) /\ x.n \in UnitNumber
    BY <2>1, UnitsFacts DEF UnitNumber
  <2>5. Units(s) \o Append(Units(r), x.n) = Append(Units(s) \o Units(r), x.n)
    BY <1>1, <2>4
  <2>6. /\ Units(Append(r, x)) = IF x.kind = "out" THEN Append(Units(r), x.n) ELSE Units(r)
        /\ Units(Append(s \o r, x)) = IF x.kind = "out" THEN Append(Units(s \o r), x.n)
                                      ELSE Units(s \o r)
    BY <2>1, <2>3, UnitsFacts
  <2>7. Units(s \o Append(r, x)) = Units(s) \o Units(Append(r, x))
    BY <2>2, <2>3, <2>5, <2>6
  <2> QED BY <2>1, <2>7
<1> HIDE DEF S
<1>4. Len(t) \in S
  <2>1. 0..Len(t) \subseteq S
    BY <1>1, <1>2, <1>3, IntervalInduction
  <2> QED BY <1>1, <2>1
<1>5. SubSeq(t, 1, Len(t)) = t
  BY SubSeqFull
<1> QED BY <1>4, <1>5 DEF S

(***************************************************************************)
(* The units of a run of them, and of items that are not output.           *)
(***************************************************************************)
LEMMA UnitsOfRun ==
  ASSUME NEW s \in Seq(Item), NEW c \in Nat,
         \A i \in 1..Len(s) : s[i].kind = "out" /\ s[i].n = c + i
  PROVE  Units(s) = [i \in 1..Len(s) |-> c + i]
<1> DEFINE S == {k \in 0..Len(s) : Units(SubSeq(s, 1, k)) = [i \in 1..k |-> c + i]}
<1>1. Len(s) \in Nat
  OBVIOUS
<1>2. 0 \in S
  <2>1. SubSeq(s, 1, 0) = <<>> /\ [i \in 1..0 |-> c + i] = <<>>
    OBVIOUS
  <2>2. Units(<<>>) = <<>> /\ 0 \in 0..Len(s)
    BY <1>1, UnitsFacts
  <2>3. Units(SubSeq(s, 1, 0)) = [i \in 1..0 |-> c + i]
    BY ONLY <2>1, <2>2
  <2> QED BY <2>2, <2>3
<1>3. ASSUME NEW k \in 1..Len(s), k - 1 \in S PROVE k \in S
  <2> DEFINE r == SubSeq(s, 1, k - 1)
             u == [i \in 1..(k - 1) |-> c + i]
  <2>1. r \in Seq(Item) /\ s[k] \in Item /\ SubSeq(s, 1, k) = Append(r, s[k]) /\ k \in 0..Len(s)
    OBVIOUS
  <2>2. Units(r) = u
    BY <1>3
  <2>3. Append(u, c + k) = [i \in 1..k |-> c + i]
    OBVIOUS
  <2> HIDE DEF r, u
  <2>4. Units(Append(r, s[k])) = Append(Units(r), s[k].n)
    BY <2>1, UnitsFacts
  <2>5. s[k].n = c + k
    OBVIOUS
  <2> QED BY <2>1, <2>2, <2>3, <2>4, <2>5
<1> HIDE DEF S
<1>4. Len(s) \in S
  <2>1. 0..Len(s) \subseteq S
    BY <1>1, <1>2, <1>3, IntervalInduction
  <2> QED BY <1>1, <2>1
<1>5. SubSeq(s, 1, Len(s)) = s
  BY SubSeqFull
<1> QED BY <1>4, <1>5 DEF S

LEMMA UnitsOfOne ==
  ASSUME NEW x \in Item
  PROVE  Units(<<x>>) = IF x.kind = "out" THEN <<x.n>> ELSE <<>>
<1>1. <<x>> = Append(<<>>, x) /\ <<>> \in Seq(Item)
  OBVIOUS
<1>2. Units(<<x>>) = IF x.kind = "out" THEN Append(Units(<<>>), x.n) ELSE Units(<<>>)
  BY <1>1, UnitsFacts
<1> QED BY <1>2, UnitsFacts

----------------------------------------------------------------------------
(***************************************************************************)
(* The refinement of OutputPromise.  What has been written to a pipe has   *)
(* exactly the units scraped so far, in order; and what the client has     *)
(* read and can still read is a beginning of it, whatever was given up.    *)
(***************************************************************************)
CountTo(k) == [i \in 1..k |-> i]

UnitsInOrder == \A p \in OutPipes : Units(sent[p]) = CountTo(scraped[p])

BeginsWith(s, t) == \E rest \in Seq(Item) : s = t \o rest

ReadsBeginning == \A p \in OutPipes : BeginsWith(sent[p], received[p] \o wire[p])

LEMMA NoUnits ==
  /\ Units(<<>>) = <<>>
  /\ Units(<<Dsr>>) = <<>>
  /\ Units(TitleUpdate) = <<>>
  /\ \A b \in BOOLEAN : Units(<<Mouse(b)>>) = <<>>
<1>1. Dsr \in Item /\ Title \in Item /\ \A b \in BOOLEAN : Mouse(b) \in Item
  BY ItemsTyped
<1>2. Dsr.kind # "out" /\ Title.kind # "out" /\ \A b : Mouse(b).kind # "out"
  BY DEF Dsr, Title, Mouse
<1>3. Units(<<Dsr>>) = <<>> /\ Units(<<Title>>) = <<>> /\ \A b \in BOOLEAN : Units(<<Mouse(b)>>) = <<>>
  BY <1>1, <1>2, UnitsOfOne
<1> QED BY <1>3, UnitsFacts DEF TitleUpdate

LEMMA UnscrapedUnits ==
  ASSUME TypeOK, ScrapedInOrder, NEW p \in OutPipes
  PROVE  /\ Units(Unscraped(p)) = [i \in 1..(produced[p] - scraped[p]) |-> scraped[p] + i]
         /\ CountTo(scraped[p]) \o Units(Unscraped(p)) = CountTo(produced[p])
<1> DEFINE k == produced[p] - scraped[p]
           c == scraped[p]
           u == Unscraped(p)
<1>1. c \in Nat /\ k \in Nat /\ c + k = produced[p]
  BY AgentSessionAssumption DEF TypeOK, ScrapedInOrder
<1>2. u \in Seq(Item) /\ Len(u) = k /\ \A i \in 1..k : u[i] = Out(c + i)
  BY UnscrapedTyped
<1>3. \A i \in 1..k : u[i].kind = "out" /\ u[i].n = c + i
  BY <1>2 DEF Out
<1>4. produced[p] \in Nat
  BY <1>1
<1> HIDE DEF u, c, k
<1>5. Units(u) = [i \in 1..k |-> c + i]
  BY <1>1, <1>2, <1>3, UnitsOfRun
<1>6. [i \in 1..c |-> i] \o [i \in 1..k |-> c + i] = [i \in 1..(c + k) |-> i]
  BY ONLY <1>1
<1> QED BY <1>1, <1>5, <1>6 DEF CountTo, u, c, k

LEMMA QuietWriteUnits ==
  ASSUME TypeOK, UnitsInOrder, NEW b, b \in [OutPipes -> Seq(Item)], WriteAll(b),
         \A p \in OutPipes : Units(b[p]) = <<>>, UNCHANGED scraped
  PROVE  UnitsInOrder'
<1>1. ASSUME NEW p \in OutPipes PROVE Units(sent'[p]) = CountTo(scraped[p])
  <2>1. sent[p] \in Seq(Item) /\ b[p] \in Seq(Item) /\ sent'[p] = sent[p] \o b[p]
    BY DEF TypeOK, PipeTypeOK, WriteAll
  <2>2. Units(sent[p] \o b[p]) = Units(sent[p]) \o <<>>
    BY <2>1, UnitsConcat
  <2>3. Units(sent[p]) \in Seq(UnitNumber) /\ Units(sent[p]) = CountTo(scraped[p])
    BY <2>1, UnitsFacts DEF UnitsInOrder
  <2> QED BY <2>1, <2>2, <2>3, ConcatEmptySeq
<1> QED BY <1>1 DEF UnitsInOrder

LEMMA ScrapeUnits ==
  ASSUME TypeOK, ScrapedInOrder, UnitsInOrder,
         NEW b, b \in [OutPipes -> Seq(Item)], WriteAll(b), scraped' = produced,
         \A p \in OutPipes : Units(b[p]) = Units(Unscraped(p))
  PROVE  UnitsInOrder'
<1>1. ASSUME NEW p \in OutPipes PROVE Units(sent'[p]) = CountTo(produced[p])
  <2>1. sent[p] \in Seq(Item) /\ b[p] \in Seq(Item) /\ sent'[p] = sent[p] \o b[p]
    BY DEF TypeOK, PipeTypeOK, WriteAll
  <2>2. Units(sent[p] \o b[p]) = Units(sent[p]) \o Units(Unscraped(p))
    BY <2>1, UnitsConcat
  <2> QED BY <2>1, <2>2, UnscrapedUnits DEF UnitsInOrder
<1> QED BY <1>1 DEF UnitsInOrder

LEMMA NextUnitsInOrder ==
  ASSUME TypeOK, ScrapedInOrder, UnitsInOrder, [Next]_vars
  PROVE  UnitsInOrder'
<1>1. ASSUME UNCHANGED <<sent, scraped>> PROVE UnitsInOrder'
  BY <1>1 DEF UnitsInOrder
<1>2. ASSUME NEW s \in Seq(Item), Units(s) = <<>>, WriteAll(Only("conout", s)),
             UNCHANGED scraped
      PROVE  UnitsInOrder'
  <2> DEFINE b == Only("conout", s)
  <2>1. b \in [OutPipes -> Seq(Item)]
    BY <1>2, OnlyTyped
  <2>2. \A p \in OutPipes : b[p] = s \/ b[p] = <<>>
    BY DEF Only
  <2> HIDE DEF b
  <2>3. \A p \in OutPipes : Units(b[p]) = <<>>
    BY <1>2, <2>2, NoUnits
  <2>4. WriteAll(b)
    BY <1>2 DEF b
  <2> QED BY <1>2, <2>1, <2>3, <2>4, QuietWriteUnits
<1>3. CASE handleSetSizePacket
  <2> DEFINE b == [p \in OutPipes |-> Unscraped(p)]
  <2>1. b \in [OutPipes -> Seq(Item)]
    BY BatchesTyped
  <2>2. WriteAll(b) /\ scraped' = produced
    BY <1>3 DEF handleSetSizePacket, resizeWindow
  <2>3. \A p \in OutPipes : b[p] = Unscraped(p)
    OBVIOUS
  <2> HIDE DEF b
  <2> QED BY <2>1, <2>2, <2>3, ScrapeUnits
<1>4. CASE pollConinPipe
  <2>1. <<>> \in Seq(Item) /\ <<Dsr>> \in Seq(Item)
    BY ItemsTyped, OneItem
  <2>2. UNCHANGED scraped
    BY <1>4 DEF pollConinPipe, consoleVars
  <2>3. WriteAll(Only("conout", <<>>)) \/ WriteAll(Only("conout", <<Dsr>>))
    BY <1>4 DEF pollConinPipe
  <2> QED BY <1>2, <2>1, <2>2, <2>3, NoUnits
<1>5. CASE ScrapeContent
  <2>1. CASE ~scrapeNow
    BY <1>1, <1>5, <2>1 DEF ScrapeContent, pipeVars
  <2>2. CASE scrapeNow
    <3> DEFINE t == Only("conout", TitleUpdate)
               b == [p \in OutPipes |-> t[p] \o Unscraped(p)]
    <3>1. b \in [OutPipes -> Seq(Item)]
      BY BatchesTyped
    <3>2. WriteAll(b) /\ scraped' = produced
      BY <1>5, <2>2 DEF ScrapeContent, scrapeBuffers
    <3>3. ASSUME NEW p \in OutPipes PROVE Units(b[p]) = Units(Unscraped(p))
      <4>1. TitleUpdate \in Seq(Item)
        BY ItemsTyped, EmptySeq DEF TitleUpdate
      <4>2. t \in [OutPipes -> Seq(Item)]
        BY <4>1, OnlyTyped
      <4>3. t[p] \in Seq(Item) /\ Unscraped(p) \in Seq(Item)
        BY <4>2, UnscrapedTyped
      <4>4. t[p] = TitleUpdate \/ t[p] = <<>>
        BY DEF Only
      <4>5. b[p] = t[p] \o Unscraped(p)
        OBVIOUS
      <4> HIDE DEF t, b
      <4>6. Units(t[p]) = <<>>
        BY <4>4, NoUnits
      <4>7. Units(b[p]) = <<>> \o Units(Unscraped(p)) /\ Units(Unscraped(p)) \in Seq(UnitNumber)
        BY <4>3, <4>5, <4>6, UnitsConcat, UnitsFacts
      <4> QED BY <4>7, ConcatEmptySeq
    <3> HIDE DEF b
    <3> QED BY <3>1, <3>2, <3>3, ScrapeUnits
  <2> QED BY <2>1, <2>2
<1>6. CASE enableMouseMode
  <2> DEFINE s == IF mouseMode = MouseTarget THEN <<>> ELSE <<Mouse(MouseTarget)>>
  <2>1. MouseTarget \in BOOLEAN
    BY DEF TypeOK, MouseTarget
  <2>2. Mouse(MouseTarget) \in Item
    BY <2>1, ItemsTyped
  <2>3. s \in Seq(Item)
    BY <2>2, OneItem, EmptySeq
  <2>4. Units(s) = <<>>
    BY <2>1, NoUnits
  <2>5. WriteAll(Only("conout", s)) /\ UNCHANGED scraped
    BY <1>6 DEF enableMouseMode, consoleVars
  <2> HIDE DEF s
  <2> QED BY <1>2, <2>3, <2>4, <2>5
<1>7. ASSUME NEW C, closePipes(C), UNCHANGED scraped PROVE UnitsInOrder'
  BY <1>1, <1>7 DEF closePipes
<1>8. ASSUME NEW p \in OutPipes,
             ServiceCompletion(p) \/ ServiceIssue(p) \/ ServiceError(p)
      PROVE  UnitsInOrder'
  BY <1>1, <1>8 DEF ServiceCompletion, ServiceIssue, ServiceError, FinishConnect,
     CompleteWrite, IssueWrite, PipeError, serviceUnchanged, consoleVars
<1>9. ASSUME NEW p \in OutPipes, ServiceEnd(p) PROVE UnitsInOrder'
  BY <1>1, <1>7, <1>9 DEF ServiceEnd, autoClosePipesForShutdown, pipeVars, consoleVars
<1>10. CASE ControlIdle \/ ControlLost \/ RejectPacket \/ handleStartProcessPacket
  BY <1>1, <1>10 DEF ControlIdle, ControlLost, RejectPacket,
     handleStartProcessPacket, pipeVars, consoleVars
<1>11. CASE SkipPoll \/ StartPoll \/ CheckChildExit
  BY <1>1, <1>11 DEF SkipPoll, StartPoll, CheckChildExit, pipeVars, consoleVars
<1>12. CASE PollEnd \/ DestroyAgent
  BY <1>7, <1>12 DEF PollEnd, DestroyAgent, autoClosePipesForShutdown, consoleVars
<1>13. ASSUME NEW p \in OutPipes, Client(p) PROVE UnitsInOrder'
  BY <1>1, <1>13 DEF Client, ClientStep, ClientOpen, ClientRead, ClientClose, consoleVars
<1>14. ASSUME NEW p \in OutPipes, ConsoleWrite(p) PROVE UnitsInOrder'
  BY <1>1, <1>14 DEF ConsoleWrite, pipeVars
<1>15. ASSUME NEW r \in Request, ClientRequest(r) PROVE UnitsInOrder'
  BY <1>1, <1>15 DEF ClientRequest, pipeVars, consoleVars
<1>16. CASE ClientFree \/ ClientInput \/ ConsoleModeOrTitle \/ ChildExit
  BY <1>1, <1>16 DEF ClientFree, ClientInput, ConsoleModeOrTitle, ChildExit,
     pipeVars, consoleVars
<1>17. CASE UNCHANGED vars
  BY <1>1, <1>17 DEF vars, pipeVars, consoleVars
<1> QED
  BY <1>3, <1>4, <1>5, <1>6, <1>8, <1>9, <1>10, <1>11, <1>12, <1>13, <1>14, <1>15,
     <1>16, <1>17
  DEF Next, AgentStep, Environment, Terminated

(***************************************************************************)
(* While nothing has been given up the rest is what is queued; when        *)
(* something has, no write can be issued any more, and what is closed,     *)
(* canceled or discarded only makes the rest longer.                       *)
(***************************************************************************)
LEMMA ItemsReassociate ==
  ASSUME NEW x \in Seq(Item), NEW y \in Seq(Item), NEW z \in Seq(Item)
  PROVE  (x \o y) \o z = x \o (y \o z)
OBVIOUS

LEMMA BeginsWithCutOff ==
  ASSUME NEW g \in Seq(Item), NEW v \in Seq(Item), NEW u \in Seq(Item), NEW r \in Seq(Item)
  PROVE  BeginsWith((g \o (v \o u)) \o r, g \o v)
<1>1. u \o r \in Seq(Item)
  BY ConcatProperties
<1>2. (g \o v) \o u = g \o (v \o u)
  BY ItemsReassociate
<1> DEFINE x == g \o v
<1>3. x \in Seq(Item)
  BY ConcatProperties
<1> HIDE DEF x
<1>4. (x \o u) \o r = x \o (u \o r)
  BY <1>3, ItemsReassociate
<1>5. (g \o (v \o u)) \o r = x \o (u \o r)
  BY <1>2, <1>4 DEF x
<1>6. BeginsWith(x \o (u \o r), x)
  BY <1>1 DEF BeginsWith
<1> QED BY <1>5, <1>6 DEF x

LEMMA BeginsWithLess ==
  ASSUME NEW s \in Seq(Item), NEW g \in Seq(Item), NEW v \in Seq(Item),
         NEW u \in Seq(Item), BeginsWith(s, g \o (v \o u))
  PROVE  BeginsWith(s, g \o v)
<1>1. PICK r \in Seq(Item) : s = (g \o (v \o u)) \o r
  BY DEF BeginsWith
<1> QED BY <1>1, BeginsWithCutOff

LEMMA BeginsWithCut ==
  ASSUME NEW s \in Seq(Item), NEW g \in Seq(Item), NEW w \in Seq(Item),
         NEW n \in 0..Len(w), BeginsWith(s, g \o w)
  PROVE  BeginsWith(s, g \o SubSeq(w, 1, n))
<1> DEFINE v == SubSeq(w, 1, n)
           z == SubSeq(w, n + 1, Len(w))
<1>1. v \in Seq(Item) /\ z \in Seq(Item) /\ v \o z = w
  BY ChunkCut
<1> HIDE DEF v, z
<1>2. BeginsWith(s, g \o v)
  BY <1>1, BeginsWithLess
<1> QED BY <1>2 DEF v

LEMMA BeginsWithMore ==
  ASSUME NEW s \in Seq(Item), NEW g \in Seq(Item), NEW t \in Seq(Item), BeginsWith(s, g)
  PROVE  BeginsWith(s \o t, g)
<1>1. PICK r \in Seq(Item) : s = g \o r
  BY DEF BeginsWith
<1>2. r \o t \in Seq(Item) /\ (g \o r) \o t = g \o (r \o t)
  BY ConcatProperties, Reassociate
<1> QED BY <1>1, <1>2 DEF BeginsWith

LEMMA NextReadsBeginning ==
  ASSUME TypeOK, TypeOK', PipeInv, PipeInv', ScrapedInOrder, OpenedInv, ReadsBeginning,
         [Next]_vars
  PROVE  ReadsBeginning'
<1> SUFFICES ASSUME NEW p \in OutPipes
             PROVE  BeginsWith(sent'[p], received'[p] \o wire'[p])
  BY DEF ReadsBeginning, BeginsWith
<1> DEFINE Got == BeginsWith(sent'[p], received'[p] \o wire'[p])
<1>1. /\ sent[p] \in Seq(Item) /\ received[p] \in Seq(Item) /\ wire[p] \in Seq(Item)
      /\ outQueue'[p] \in Seq(Item)
      /\ BeginsWith(sent[p], received[p] \o wire[p])
  BY DEF TypeOK, PipeTypeOK, ReadsBeginning
<1>2. CASE ~broken'[p]
  BY <1>1, <1>2 DEF PipeInv, StreamIntact, BeginsWith
<1>3. ASSUME sent'[p] = sent[p], received'[p] \o wire'[p] = received[p] \o wire[p]
      PROVE  Got
  BY <1>1, <1>3
<1>4. ASSUME NEW n \in 0..Len(wire[p]), sent'[p] = sent[p], received'[p] = received[p],
             wire'[p] = SubSeq(wire[p], 1, n)
      PROVE  Got
  BY <1>1, <1>4, BeginsWithCut
<1>5. CASE UNCHANGED pipeVars
  BY <1>3, <1>5 DEF pipeVars
<1>6. ASSUME NEW q \in OutPipes, ServiceStep(q), broken'[p]
      PROVE  Got
  <2>1. UNCHANGED <<sent, received, broken, client>>
    BY <1>6 DEF ServiceStep, FinishConnect, IssueWrite, CompleteWrite, PipeError
  <2>2. CASE p = q /\ IssueWrite(q)
    <3>1. status[p] = "connected" /\ client[p] = "open"
      BY <2>2 DEF IssueWrite, isConnected
    <3>2. ~broken[p]
      BY <3>1 DEF OpenedInv, Opened
    <3> QED BY <1>6, <2>1, <3>2
  <2>3. CASE ~(p = q /\ IssueWrite(q))
    <3>1. wire'[p] = wire[p]
      BY <1>6, <2>3 DEF ServiceStep, FinishConnect, IssueWrite, CompleteWrite, PipeError,
         TypeOK, PipeTypeOK
    <3> QED BY <1>3, <2>1, <3>1
  <2> QED BY <2>2, <2>3
<1>7. ASSUME NEW q \in OutPipes, ClientStep(q)
      PROVE  Got
  <2>1. CASE ClientOpen(q)
    BY <1>3, <2>1 DEF ClientOpen
  <2>2. CASE ClientRead(q)
    <3>1. UNCHANGED sent
      BY <2>2 DEF ClientRead
    <3>2. CASE p = q
      <4>1. wire[p] # <<>>
        BY <2>2, <3>2 DEF ClientRead
      <4>2. Append(received[p], Head(wire[p])) \o Tail(wire[p]) = received[p] \o wire[p]
        BY <1>1, <4>1, UnitRead
      <4> QED BY <1>3, <2>2, <3>1, <3>2, <4>2 DEF ClientRead, TypeOK, PipeTypeOK
    <3>3. CASE p # q
      <4>1. received'[p] = received[p] /\ wire'[p] = wire[p]
        BY <2>2, <3>3 DEF ClientRead, TypeOK, PipeTypeOK
      <4> QED BY <1>3, <3>1, <4>1
    <3> QED BY <3>2, <3>3
  <2>3. CASE ClientClose(q)
    <3>1. sent'[p] = sent[p] /\ received'[p] = received[p]
      BY <2>3 DEF ClientClose
    <3>2. wire'[p] = <<>> \/ wire'[p] = wire[p]
      BY <2>3 DEF ClientClose, TypeOK, PipeTypeOK
    <3>3. SubSeq(wire[p], 1, 0) = <<>> /\ 0 \in 0..Len(wire[p])
      BY <1>1, LenProperties
    <3> QED BY <1>3, <1>4, <3>1, <3>2, <3>3
  <2> QED BY <1>7, <2>1, <2>2, <2>3 DEF ClientStep
<1>8. ASSUME NEW b \in [OutPipes -> Seq(Item)], WriteAll(b)
      PROVE  Got
  <2>1. received[p] \o wire[p] \in Seq(Item) /\ b[p] \in Seq(Item)
    BY <1>1, ConcatProperties
  <2>2. BeginsWith(sent[p] \o b[p], received[p] \o wire[p])
    BY <1>1, <2>1, BeginsWithMore
  <2> QED BY <1>8, <2>2 DEF WriteAll
<1>9. ASSUME NEW C, closePipes(C)
      PROVE  Got
  <2>1. sent'[p] = sent[p] /\ received'[p] = received[p]
    BY <1>9 DEF closePipes
  <2>2. wire'[p] = wire[p] \/ (Len(wire[p]) > Quota /\ wire'[p] = SubSeq(wire[p], 1, Quota))
    BY <1>9 DEF closePipes, WireLeft
  <2>3. CASE wire'[p] = wire[p]
    BY <1>3, <2>1, <2>3
  <2>4. CASE Len(wire[p]) > Quota /\ wire'[p] = SubSeq(wire[p], 1, Quota)
    <3>1. Quota \in 0..Len(wire[p])
      BY <1>1, <2>4, LenProperties, NamedPipeAssumption
    <3> QED BY <1>4, <2>1, <2>4, <3>1
  <2> QED BY <2>2, <2>3, <2>4
<1> QED BY <1>2, <1>5, <1>6, <1>7, <1>8, <1>9, StepShapes DEF autoClosePipesForShutdown

(***************************************************************************)
(* So the units the client has read are the first ones scraped, each once  *)
(* and in order.                                                           *)
(***************************************************************************)
LEMMA BeginningOfCount ==
  ASSUME NEW m \in Nat, NEW a \in Seq(UnitNumber), NEW c \in Seq(UnitNumber),
         a \o c = CountTo(m)
  PROVE  Len(a) \in 0..m /\ a = CountTo(Len(a))
<1>1. Len(a) \in Nat /\ Len(c) \in Nat /\ Len(a \o c) = Len(a) + Len(c)
  BY LenProperties, ConcatProperties
<1>2. CountTo(m) \in Seq(Nat) /\ Len(CountTo(m)) = m
  BY DEF CountTo
<1>3. Len(a) \in 0..m
  BY <1>1, <1>2
<1>4. \A i \in 1..Len(a) : a[i] = i
  <2>1. \A i \in 1..Len(a) : (a \o c)[i] = a[i]
    BY <1>1, ConcatProperties
  <2>2. \A i \in 1..m : CountTo(m)[i] = i
    BY DEF CountTo
  <2> QED BY <1>3, <2>1, <2>2
<1>5. a = [i \in 1..Len(a) |-> a[i]]
  OBVIOUS
<1> QED BY <1>3, <1>4, <1>5 DEF CountTo

LEMMA UnitsOfBeginning ==
  ASSUME TypeOK, UnitsInOrder, NEW p \in OutPipes, NEW g \in Seq(Item),
         BeginsWith(sent[p], g)
  PROVE  Len(Units(g)) \in 0..scraped[p] /\ Units(g) = CountTo(Len(Units(g)))
<1>1. PICK r \in Seq(Item) : sent[p] = g \o r
  BY DEF BeginsWith
<1>2. Units(g) \o Units(r) = CountTo(scraped[p])
  BY <1>1, UnitsConcat DEF UnitsInOrder
<1>3. Units(g) \in Seq(UnitNumber) /\ Units(r) \in Seq(UnitNumber) /\ scraped[p] \in Nat
  BY UnitsFacts, AgentSessionAssumption DEF TypeOK
<1> QED BY <1>2, <1>3, BeginningOfCount

LEMMA DeliveredInOrder ==
  ASSUME TypeOK, UnitsInOrder, ReadsBeginning, NEW p \in OutPipes
  PROVE  /\ Delivered(p) = CountTo(Len(Delivered(p)))
         /\ Len(Delivered(p)) \in 0..scraped[p]
<1>1. received[p] \in Seq(Item) /\ wire[p] \in Seq(Item)
  BY DEF TypeOK, PipeTypeOK
<1>2. BeginsWith(sent[p], received[p] \o SubSeq(wire[p], 1, 0))
  <2>1. 0 \in 0..Len(wire[p])
    BY <1>1, LenProperties
  <2>2. sent[p] \in Seq(Item) /\ BeginsWith(sent[p], received[p] \o wire[p])
    BY DEF TypeOK, PipeTypeOK, ReadsBeginning
  <2> QED BY <1>1, <2>1, <2>2, BeginsWithCut
<1>3. received[p] \o SubSeq(wire[p], 1, 0) = received[p]
  <2>1. SubSeq(wire[p], 1, 0) = <<>>
    BY <1>1
  <2> QED BY <1>1, <2>1, ConcatEmptySeq
<1> QED BY <1>1, <1>2, <1>3, UnitsOfBeginning DEF Delivered

(***************************************************************************)
(* The unit at the front of the pipe is the next one.                      *)
(***************************************************************************)
LEMMA NextDelivered ==
  ASSUME TypeOK, UnitsInOrder, ReadsBeginning, NEW p \in OutPipes,
         wire[p] # <<>>, Head(wire[p]).kind = "out"
  PROVE  /\ Head(wire[p]).n = Len(Delivered(p)) + 1
         /\ Len(Delivered(p)) + 1 <= scraped[p]
<1> DEFINE g == received[p]
           h == Head(wire[p])
           t == Tail(wire[p])
           k == Len(Delivered(p))
<1>1. g \in Seq(Item) /\ wire[p] \in Seq(Item) /\ sent[p] \in Seq(Item)
  BY DEF TypeOK, PipeTypeOK
<1>2. h \in Item /\ t \in Seq(Item) /\ Append(g, h) \in Seq(Item)
      /\ Append(g, h) \o t = g \o wire[p]
  <2>1. h \in Item
    BY <1>1, HeadTailProperties
  <2> QED BY <1>1, <2>1, UnitRead
<1>3. BeginsWith(sent[p], g \o wire[p])
  BY DEF ReadsBeginning
<1>4. k \in Nat /\ Units(g) = CountTo(k)
  BY DeliveredInOrder, AgentSessionAssumption DEF TypeOK, Delivered
<1>5. h.kind = "out"
  OBVIOUS
<1> HIDE DEF g, h, t, k
<1>6. BeginsWith(sent[p], Append(g, h))
  <2>1. BeginsWith(sent[p], Append(g, h) \o t)
    BY <1>2, <1>3
  <2>2. 0 \in 0..Len(t)
    BY <1>2, LenProperties
  <2>3. BeginsWith(sent[p], Append(g, h) \o SubSeq(t, 1, 0))
    BY <1>1, <1>2, <2>1, <2>2, BeginsWithCut
  <2>4. SubSeq(t, 1, 0) = <<>>
    BY <1>2
  <2>5. Append(g, h) \o SubSeq(t, 1, 0) = Append(g, h)
    BY <1>2, <2>4, ConcatEmptySeq
  <2> QED BY <2>3, <2>5
<1>7. Units(Append(g, h)) = Append(CountTo(k), h.n)
  BY <1>1, <1>2, <1>4, <1>5, UnitsFacts
<1>8. /\ Len(Append(CountTo(k), h.n)) \in 0..scraped[p]
      /\ Append(CountTo(k), h.n) = CountTo(Len(Append(CountTo(k), h.n)))
  BY <1>2, <1>6, <1>7, UnitsOfBeginning
<1>9. CountTo(k) \in Seq(Nat) /\ Len(CountTo(k)) = k
  BY <1>4 DEF CountTo
<1>10. Len(Append(CountTo(k), h.n)) = k + 1 /\ Append(CountTo(k), h.n)[k + 1] = h.n
  <2> DEFINE c == CountTo(k)
             x == h.n
  <2> HIDE DEF c, x
  <2>1. c \in Seq(Nat \union {x})
    BY <1>9 DEF c
  <2>2. Len(Append(c, x)) = Len(c) + 1 /\ Append(c, x)[Len(c) + 1] = x
    BY <2>1, AppendProperties
  <2> QED BY <1>9, <2>2 DEF c, x
<1>11. CountTo(k + 1)[k + 1] = k + 1
  BY <1>4 DEF CountTo
<1>12. h.n = k + 1 /\ k + 1 \in 0..scraped[p]
  BY <1>8, <1>10, <1>11
<1> QED BY <1>12 DEF h, k

(***************************************************************************)
(* A unit that occurs among items occurs among their units.                *)
(***************************************************************************)
LEMMA OccursInUnits ==
  ASSUME NEW s \in Seq(Item), NEW i \in 1..Len(s), s[i].kind = "out"
  PROVE  \E j \in 1..Len(Units(s)) : Units(s)[j] = s[i].n
<1> DEFINE a == SubSeq(s, 1, i - 1)
           x == s[i]
           c == SubSeq(s, i + 1, Len(s))
<1>1. a \in Seq(Item) /\ x \in Item /\ c \in Seq(Item)
  OBVIOUS
<1>2. s = Append(a, x) \o c
  <2>1. SubSeq(s, 1, i) = Append(a, x)
    OBVIOUS
  <2>2. i \in 0..Len(s)
    OBVIOUS
  <2>3. SubSeq(s, 1, i) \o SubSeq(s, i + 1, Len(s)) = s
    BY <2>2, ChunkCut
  <2> QED BY <2>1, <2>3
<1>3. x.kind = "out"
  OBVIOUS
<1> HIDE DEF a, x, c
<1>4. Append(a, x) \in Seq(Item)
  BY <1>1, AppendProperties
<1>5. Units(s) = Append(Units(a), x.n) \o Units(c)
  <2>1. Units(Append(a, x) \o c) = Units(Append(a, x)) \o Units(c)
    BY <1>1, <1>4, UnitsConcat
  <2> QED BY <1>1, <1>2, <1>3, <2>1, UnitsFacts
<1>6. Units(a) \in Seq(UnitNumber) /\ Units(c) \in Seq(UnitNumber) /\ x.n \in UnitNumber
  BY <1>1, UnitsFacts DEF UnitNumber
<1> DEFINE A == Units(a)
           C == Units(c)
           n == x.n
           j == Len(A) + 1
<1> HIDE DEF A, C, n
<1>7. A \in Seq(UnitNumber) /\ C \in Seq(UnitNumber) /\ n \in UnitNumber
  BY <1>6 DEF A, C, n
<1>8. j \in 1..Len(Append(A, n) \o C) /\ (Append(A, n) \o C)[j] = n
  BY <1>7
<1>9. Units(s) = Append(A, n) \o C
  BY <1>5 DEF A, C, n
<1> HIDE DEF j
<1>10. j \in 1..Len(Units(s)) /\ Units(s)[j] = n
  BY <1>8, <1>9
<1>11. n = s[i].n
  BY DEF n, x
<1> QED BY <1>10, <1>11

(***************************************************************************)
(* A complete stream has all the child produced before it exited.          *)
(***************************************************************************)
LEMMA CompleteOwed ==
  ASSUME SessionInv, UnitsInOrder, ReadsBeginning, NEW p \in OutPipes, Complete(p)
  PROVE  child \in {"exited", "reaped"} /\ Len(Delivered(p)) >= childTotal[p]
<1>1. child = "reaped"
  BY DEF SessionInv, ShutdownOrder, Complete
<1>2. received[p] \in Seq(Item) /\ wire[p] = <<>> /\ childTotal[p] \in Nat
  BY AgentSessionAssumption DEF SessionInv, TypeOK, PipeTypeOK, Complete
<1>3. Delivered(p) = CountTo(Len(Delivered(p))) /\ Len(Delivered(p)) \in Nat
  BY DeliveredInOrder, AgentSessionAssumption DEF SessionInv, TypeOK
<1>4. CASE childTotal[p] = 0
  BY <1>1, <1>3, <1>4
<1>5. CASE childTotal[p] # 0
  <2> DEFINE n == childTotal[p]
             k == Len(Delivered(p))
  <2>1. n \in 1..childTotal[p]
    BY <1>2, <1>5
  <2>2. Occurs(Out(n), received[p] \o wire[p])
    BY <2>1 DEF SessionInv, DrainedCovers, Complete
  <2>3. PICK i \in 1..Len(received[p]) : received[p][i] = Out(n)
    BY <1>2, <2>2, ConcatEmptySeq DEF Occurs
  <2>4. received[p][i].kind = "out" /\ received[p][i].n = n
    BY <2>3 DEF Out
  <2>5. PICK j \in 1..Len(Units(received[p])) : Units(received[p])[j] = n
    BY <1>2, <2>4, OccursInUnits
  <2>6. j \in 1..k /\ CountTo(k)[j] = n
    BY <1>3, <2>5 DEF Delivered
  <2>7. CountTo(k)[j] = j
    BY <2>6 DEF CountTo
  <2>8. n <= k
    BY <1>3, <2>6, <2>7
  <2> QED BY <1>1, <1>2, <1>3, <2>8
<1> QED BY <1>4, <1>5

----------------------------------------------------------------------------
(***************************************************************************)
(* What has ended stays as it ended: data given up is not recovered, no    *)
(* pipe is closed twice, and nothing is written to a closed one.           *)
(***************************************************************************)
Unordered(p) == status[p] = "closed" /\ p \notin drained

LEMMA EndsLast ==
  ASSUME SessionInv, [Next]_vars, NEW p \in OutPipes
  PROVE  /\ broken[p] => broken'[p]
         /\ Unordered(p) => Unordered(p)'
         /\ Complete(p) => Complete(p)'
<1> USE DEF Unordered, Complete
<1>1. TypeOK /\ ScrapedInOrder /\ (p \in drained => status[p] = "closed")
      /\ (status[p] = "closed" => pending[p] = 0)
  BY DEF SessionInv, ShutdownOrder, OpenedInv, Opened
<1>2. CASE UNCHANGED <<pipeVars, drained>>
  BY <1>2 DEF pipeVars
<1>3. ASSUME NEW q \in OutPipes, ServiceStep(q), UNCHANGED drained
      PROVE  /\ broken[p] => broken'[p]
             /\ Unordered(p) => Unordered(p)'
             /\ Complete(p) => Complete(p)'
  <2>1. UNCHANGED broken
    BY <1>3 DEF ServiceStep, FinishConnect, IssueWrite, CompleteWrite, PipeError
  <2>2. status[p] = "closed" => status'[p] = "closed" /\ wire'[p] = wire[p]
    BY <1>1, <1>3 DEF ServiceStep, FinishConnect, IssueWrite, CompleteWrite, PipeError,
       isConnected, TypeOK, PipeTypeOK
  <2> QED BY <1>1, <1>3, <2>1, <2>2
<1>4. ASSUME NEW q \in OutPipes, ClientStep(q), UNCHANGED drained
      PROVE  /\ broken[p] => broken'[p]
             /\ Unordered(p) => Unordered(p)'
             /\ Complete(p) => Complete(p)'
  <2>1. UNCHANGED status /\ (broken[p] => broken'[p])
    BY <1>1, <1>4 DEF ClientStep, ClientOpen, ClientRead, ClientClose, TypeOK, PipeTypeOK
  <2>2. Complete(p) => wire'[p] = <<>> /\ broken'[p] = broken[p]
    BY <1>1, <1>4 DEF ClientStep, ClientOpen, ClientRead, ClientClose, AtEof, TypeOK, PipeTypeOK
  <2> QED BY <1>4, <2>1, <2>2
<1>5. ASSUME NEW b \in [OutPipes -> Seq(Item)], WriteAll(b), UNCHANGED drained
      PROVE  /\ broken[p] => broken'[p]
             /\ Unordered(p) => Unordered(p)'
             /\ Complete(p) => Complete(p)'
  BY <1>5 DEF WriteAll
<1>6. CASE closePipes(OutPipes) /\ UNCHANGED drained
  BY <1>1, <1>6, NamedPipeAssumption DEF closePipes, WireLeft, TypeOK, PipeTypeOK
<1>7. CASE autoClosePipesForShutdown
  <2>1. status[p] = "closed" => p \notin PipesToClose
    BY DEF PipesToClose, isConnected
  <2>2. broken[p] => broken'[p]
    BY <1>7 DEF autoClosePipesForShutdown, closePipes
  <2>3. ASSUME status[p] = "closed"
        PROVE  /\ status'[p] = "closed" /\ wire'[p] = wire[p] /\ broken'[p] = broken[p]
               /\ p \in drained' <=> p \in drained
    BY <1>1, <1>7, <2>1, <2>3 DEF autoClosePipesForShutdown, closePipes, TypeOK, PipeTypeOK
  <2> QED BY <1>1, <2>2, <2>3
<1> QED BY <1>1, <1>2, <1>3, <1>4, <1>5, <1>6, <1>7, StepShapes

LEMMA OutcomeLasts ==
  ASSUME SessionInv, [Next]_vars, NEW p \in OutPipes, Outcome(p) # "flowing"
  PROVE  Outcome(p)' = Outcome(p)
<1>1. /\ broken[p] => broken'[p]
      /\ Unordered(p) => Unordered(p)'
      /\ Complete(p) => Complete(p)'
  BY EndsLast
<1>2. CASE Complete(p)
  BY <1>1, <1>2 DEF Outcome
<1>3. CASE ~Complete(p)
  <2>1. broken'[p] \/ Unordered(p)'
    BY <1>1, <1>3 DEF Outcome, Unordered
  <2>2. ~Complete(p)'
    BY <2>1 DEF Complete, Unordered
  <2> QED BY <1>3, <2>1, <2>2 DEF Outcome, Unordered
<1> QED BY <1>2, <1>3

----------------------------------------------------------------------------
(***************************************************************************)
(* Every step of the session is a step of OutputPromise: a program's write *)
(* is a Produce, the child's exit an Exit, a read of a unit of output a    *)
(* Deliver, and any other step an End of streams, or of none.              *)
(***************************************************************************)
SessionPromiseInv == SessionInv /\ UnitsInOrder /\ ReadsBeginning

Gone == child \in {"exited", "reaped"}

LEMMA NextPromiseInv == SessionPromiseInv /\ [Next]_vars => SessionPromiseInv'
<1> SUFFICES ASSUME SessionPromiseInv, [Next]_vars PROVE SessionPromiseInv'
  OBVIOUS
<1> USE DEF SessionPromiseInv
<1>1. SessionInv'
  BY NextInv
<1>2. TypeOK /\ ScrapedInOrder /\ PipeInv /\ OpenedInv /\ TypeOK' /\ PipeInv'
  BY <1>1 DEF SessionInv
<1>3. UnitsInOrder'
  BY <1>2, NextUnitsInOrder
<1>4. ReadsBeginning'
  BY <1>2, NextReadsBeginning
<1> QED BY <1>1, <1>3, <1>4

OwedWhenComplete ==
  \A p \in OutPipes : Complete(p) => Gone /\ Len(Delivered(p)) >= childTotal[p]

LEMMA CompleteHasOwed == SessionPromiseInv => OwedWhenComplete
BY CompleteOwed DEF SessionPromiseInv, OwedWhenComplete, Gone

LEMMA NextCompleteHasOwed == SessionPromiseInv /\ [Next]_vars => OwedWhenComplete'
BY NextPromiseInv, CompleteHasOwed, PTL

LEMMA SomeEnd ==
  ASSUME SessionPromiseInv, [Next]_vars, Gone' = Gone, UNCHANGED <<produced, childTotal>>,
         \A p \in OutPipes : Delivered(p)' = Delivered(p)
  PROVE  Promise!End
<1>1. OwedWhenComplete'
  BY NextCompleteHasOwed
<1>2. ASSUME NEW p \in OutPipes, Outcome(p) = "flowing", Outcome(p)' = "complete"
      PROVE  Gone /\ Len(Delivered(p)) >= childTotal[p]
  <2>1. Complete(p)'
    BY <1>2 DEF Outcome
  <2>2. Gone' /\ Len(Delivered(p)') >= childTotal'[p]
    BY <1>1, <2>1 DEF OwedWhenComplete
  <2> QED BY <2>2
<1>3. ASSUME NEW p \in OutPipes
      PROVE  /\ Outcome(p) \in {"flowing", "complete", "aborted"}
             /\ Outcome(p)' \in {"flowing", "complete", "aborted"}
             /\ Outcome(p) # "flowing" => Outcome(p)' = Outcome(p)
  BY OutcomeLasts DEF Outcome, SessionPromiseInv
<1> QED BY <1>2, <1>3 DEF Promise!End, Gone

LEMMA ReadIsDeliver ==
  ASSUME SessionPromiseInv, [Next]_vars, NEW p \in OutPipes, Client(p), ClientRead(p),
         Head(wire[p]).kind = "out"
  PROVE  Promise!Deliver(p)
<1> DEFINE n == Len(Delivered(p)) + 1
<1>1. OwedWhenComplete'
  BY NextCompleteHasOwed
<1>2. wire[p] # <<>> /\ received[p] \in Seq(Item) /\ wire[p] \in Seq(Item)
  BY DEF ClientRead, SessionPromiseInv, SessionInv, TypeOK, PipeTypeOK
<1>3. UNCHANGED <<child, produced, childTotal, drained, status, broken>>
  BY DEF Client, ClientRead, shutVars, consoleVars, loopVars
<1>4. n = Head(wire[p]).n /\ n <= scraped[p]
  BY <1>2, NextDelivered DEF SessionPromiseInv, SessionInv
<1>5. n <= produced[p]
  BY <1>4, DeliveredInOrder, AgentSessionAssumption
  DEF SessionPromiseInv, SessionInv, TypeOK, ScrapedInOrder
<1>6. Delivered(p)' = Append(Delivered(p), n)
  <2>1. received'[p] = Append(received[p], Head(wire[p]))
    BY DEF ClientRead, SessionPromiseInv, SessionInv, TypeOK, PipeTypeOK
  <2>2. Head(wire[p]) \in Item
    BY <1>2, HeadTailProperties
  <2>3. Units(received'[p]) = Append(Units(received[p]), Head(wire[p]).n)
    BY <1>2, <2>1, <2>2, UnitsFacts
  <2> QED BY <1>4, <2>3 DEF Delivered
<1>7. ASSUME NEW q \in OutPipes, q # p
      PROVE  Delivered(q)' = Delivered(q) /\ Outcome(q)' = Outcome(q)
  <2>1. received'[q] = received[q] /\ wire'[q] = wire[q]
    BY <1>7 DEF ClientRead, SessionPromiseInv, SessionInv, TypeOK, PipeTypeOK
  <2> QED BY <1>3, <2>1 DEF Delivered, Outcome, Complete
<1>8. Outcome(p) \in {"flowing", "aborted"}
  BY <1>2 DEF Outcome, Complete
<1>9. CASE Outcome(p)' = Outcome(p)
  <2>1. \A q \in OutPipes : Outcome(q)' = Outcome(q)
    BY <1>7, <1>9
  <2> HIDE DEF n
  <2> QED BY <1>3, <1>5, <1>6, <1>7, <1>8, <2>1 DEF Promise!Deliver, n
<1>10. CASE Outcome(p)' # Outcome(p)
  <2>1. Outcome(p) = "flowing"
    BY <1>10, OutcomeLasts DEF SessionPromiseInv
  <2>2. Outcome(p)' = "complete"
    BY <1>3, <1>10, <2>1 DEF Outcome
  <2>3. Complete(p)'
    BY <2>2 DEF Outcome
  <2>4. Gone' /\ Len(Delivered(p)') >= childTotal'[p]
    BY <1>1, <2>3 DEF OwedWhenComplete
  <2>5. Len(Append(Delivered(p), n)) = n
    BY <1>2, UnitsFacts DEF Delivered
  <2>6. Gone /\ n >= childTotal[p]
    BY <1>3, <1>6, <2>4, <2>5 DEF Gone
  <2> HIDE DEF n
  <2> QED BY <1>3, <1>5, <1>6, <1>7, <1>8, <2>1, <2>2, <2>6 DEF Promise!Deliver, Gone, n
<1> QED BY <1>9, <1>10

LEMMA SessionPromiseStep ==
  SessionPromiseInv /\ [Next]_vars => [Promise!PromiseNext]_(Promise!promiseVars)
<1> SUFFICES ASSUME SessionPromiseInv, [Next]_vars PROVE Promise!PromiseNext
  OBVIOUS
<1>1. ASSUME Gone' = Gone, UNCHANGED <<produced, childTotal, received>>
      PROVE  Promise!PromiseNext
  <2>1. \A p \in OutPipes : Delivered(p)' = Delivered(p)
    BY <1>1 DEF Delivered
  <2> QED BY <1>1, <2>1, SomeEnd DEF Promise!PromiseNext
<1>2. ASSUME NEW p \in OutPipes, Client(p)
      PROVE  Promise!PromiseNext
  <2>1. UNCHANGED <<child, produced, childTotal>>
    BY <1>2 DEF Client, shutVars, consoleVars
  <2>2. CASE ClientOpen(p) \/ ClientClose(p)
    BY <1>1, <2>1, <2>2 DEF ClientOpen, ClientClose, Gone
  <2>3. CASE ClientRead(p) /\ Head(wire[p]).kind = "out"
    BY <1>2, <2>3, ReadIsDeliver DEF Promise!PromiseNext
  <2>4. CASE ClientRead(p) /\ Head(wire[p]).kind # "out"
    <3>1. wire[p] # <<>> /\ received[p] \in Seq(Item) /\ wire[p] \in Seq(Item)
      BY <2>4 DEF ClientRead, SessionPromiseInv, SessionInv, TypeOK, PipeTypeOK
    <3>2. Head(wire[p]) \in Item
      BY <3>1, HeadTailProperties
    <3>3. received' = [received EXCEPT ![p] = Append(received[p], Head(wire[p]))]
      BY <2>4 DEF ClientRead
    <3>4. Units(Append(received[p], Head(wire[p]))) = Units(received[p])
      BY <2>4, <3>1, <3>2, UnitsFacts
    <3>5. \A q \in OutPipes : Units(received'[q]) = Units(received[q])
      BY <3>3, <3>4 DEF SessionPromiseInv, SessionInv, TypeOK, PipeTypeOK
    <3>6. \A q \in OutPipes : Delivered(q)' = Delivered(q)
      BY <3>5 DEF Delivered
    <3> QED BY <2>1, <3>6, SomeEnd DEF Gone, Promise!PromiseNext
  <2> QED BY <1>2, <2>2, <2>3, <2>4 DEF Client, ClientStep
<1>3. ASSUME NEW p \in OutPipes, ConsoleWrite(p)
      PROVE  Promise!PromiseNext
  <2>1. /\ produced' = [produced EXCEPT ![p] = @ + 1]
        /\ UNCHANGED <<child, childTotal, received, wire, broken, status, drained>>
    BY <1>3 DEF ConsoleWrite, pipeVars, loopVars, shutVars
  <2>2. \A q \in OutPipes : Delivered(q)' = Delivered(q) /\ Outcome(q)' = Outcome(q)
    BY <2>1 DEF Delivered, Outcome, Complete
  <2>3. Promise!Produce(p)
    BY <2>1, <2>2 DEF Promise!Produce
  <2> QED BY <2>3 DEF Promise!PromiseNext
<1>4. CASE ChildExit
  <2>1. /\ child = "running" /\ child' = "exited" /\ childTotal' = produced
        /\ UNCHANGED <<produced, received, wire, broken, status, drained>>
    BY <1>4 DEF ChildExit, pipeVars, loopVars, consoleVars
  <2>2. \A q \in OutPipes : Delivered(q)' = Delivered(q) /\ Outcome(q)' = Outcome(q)
    BY <2>1 DEF Delivered, Outcome, Complete
  <2>3. Promise!Exit
    BY <2>1, <2>2 DEF Promise!Exit
  <2> QED BY <2>3 DEF Promise!PromiseNext
<1>5. CASE handleStartProcessPacket
  <2>1. UNCHANGED <<produced, childTotal, received>>
    BY <1>5 DEF handleStartProcessPacket, pipeVars, consoleVars
  <2>2. child \notin {"exited", "reaped"} /\ child' \in {child, "running"}
    BY <1>5 DEF handleStartProcessPacket, SpawnAllowed, SessionPromiseInv, SessionInv, ShutdownOrder
  <2> QED BY <1>1, <2>1, <2>2 DEF Gone
<1>6. CASE CheckChildExit
  <2>1. UNCHANGED <<produced, childTotal, received>>
    BY <1>6 DEF CheckChildExit, pipeVars, consoleVars
  <2>2. child' = child \/ (child = "exited" /\ child' = "reaped")
    BY <1>6 DEF CheckChildExit
  <2> QED BY <1>1, <2>1, <2>2 DEF Gone
<1>7. ASSUME UNCHANGED shutVars, UNCHANGED <<produced, received>>
      PROVE  Promise!PromiseNext
  BY <1>1, <1>7 DEF shutVars, Gone
<1>8. CASE ControlIdle \/ ControlLost \/ RejectPacket \/ SkipPoll \/ StartPoll
  BY <1>7, <1>8 DEF ControlIdle, ControlLost, RejectPacket, SkipPoll, StartPoll,
     pipeVars, consoleVars
<1>9. CASE handleSetSizePacket \/ pollConinPipe \/ enableMouseMode
  BY <1>7, <1>9 DEF handleSetSizePacket, resizeWindow, pollConinPipe, enableMouseMode,
     WriteAll, consoleVars
<1>10. CASE ScrapeContent
  BY <1>7, <1>10 DEF ScrapeContent, scrapeBuffers, WriteAll, pipeVars
<1>11. ASSUME NEW p \in OutPipes,
              ServiceCompletion(p) \/ ServiceIssue(p) \/ ServiceError(p)
       PROVE  Promise!PromiseNext
  BY <1>7, <1>11 DEF ServiceCompletion, ServiceIssue, ServiceError, FinishConnect,
     CompleteWrite, IssueWrite, PipeError, serviceUnchanged, consoleVars
<1>12. ASSUME NEW p \in OutPipes, ServiceEnd(p) PROVE Promise!PromiseNext
  BY <1>7, <1>12 DEF ServiceEnd, autoClosePipesForShutdown, closePipes, pipeVars, consoleVars
<1>13. CASE PollEnd \/ DestroyAgent
  BY <1>7, <1>13 DEF PollEnd, DestroyAgent, autoClosePipesForShutdown, closePipes, consoleVars
<1>14. ASSUME NEW r \in Request, ClientRequest(r) PROVE Promise!PromiseNext
  BY <1>7, <1>14 DEF ClientRequest, pipeVars, consoleVars
<1>15. CASE ClientFree \/ ClientInput \/ ConsoleModeOrTitle
  BY <1>7, <1>15 DEF ClientFree, ClientInput, ConsoleModeOrTitle, pipeVars, consoleVars
<1>16. CASE UNCHANGED vars
  BY <1>7, <1>16 DEF vars, pipeVars, consoleVars
<1> QED
  BY <1>2, <1>3, <1>4, <1>5, <1>6, <1>8, <1>9, <1>10, <1>11, <1>12, <1>13, <1>14,
     <1>15, <1>16
  DEF Next, AgentStep, Environment, Terminated

LEMMA InitPromise == Init => SessionPromiseInv /\ Promise!PromiseInit
<1> SUFFICES ASSUME Init PROVE SessionPromiseInv /\ Promise!PromiseInit
  OBVIOUS
<1>1. /\ \A p \in OutPipes : /\ sent[p] = <<>> /\ received[p] = <<>> /\ wire[p] = <<>>
                             /\ status[p] = "connecting" /\ ~broken[p]
                             /\ scraped[p] = 0
      /\ drained = {} /\ child = "none"
      /\ produced = [p \in OutPipes |-> 0] /\ childTotal = [p \in OutPipes |-> 0]
  BY DEF Init, PipeInit
<1>2. UnitsInOrder
  <2>1. CountTo(0) = <<>>
    BY DEF CountTo
  <2> QED BY <1>1, <2>1, UnitsFacts DEF UnitsInOrder
<1>3. ReadsBeginning
  <2>1. <<>> = (<<>> \o <<>>) \o <<>> /\ <<>> \in Seq(Item)
    BY ConcatEmptySeq
  <2> QED BY <1>1, <2>1 DEF ReadsBeginning, BeginsWith
<1>4. \A p \in OutPipes : Delivered(p) = <<>> /\ Outcome(p) = "flowing"
  BY <1>1, UnitsFacts DEF Delivered, Outcome, Complete
<1>5. Promise!PromiseInit
  BY <1>1, <1>4 DEF Promise!PromiseInit
<1> QED BY <1>2, <1>3, <1>5, InitInv DEF SessionPromiseInv

(***************************************************************************)
(* The session implements OutputPromise, for any amount of output, any     *)
(* chunk size and kernel buffer, with or without CONERR: the client gets   *)
(* every unit once and in order, an end of file it sees on a pipe that the *)
(* agent closed in an orderly way means that it has all of the child's     *)
(* output, and a stream that has ended so, or in another way, stays ended. *)
(***************************************************************************)
THEOREM SessionImplementsPromise == Spec => ImplementsPromise
<1>1. Spec => []SessionPromiseInv
  BY InitPromise, NextPromiseInv, PTL DEF Spec
<1> QED BY <1>1, InitPromise, SessionPromiseStep, PTL
        DEF Spec, ImplementsPromise, Promise!PromiseSpec
=============================================================================
