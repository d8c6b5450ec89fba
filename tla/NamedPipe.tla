----------------------------- MODULE NamedPipe -----------------------------
(***************************************************************************)
(* The output data pipes of the agent (CONOUT and, optionally, CONERR):    *)
(* the server end the agent owns (NamedPipe and its OutputWorker), the     *)
(* kernel's pipe between the two processes, and the client's read handle.  *)
(*                                                                         *)
(* The agent never blocks on a pipe.  Terminal output is appended to       *)
(* m_outQueue; the event loop later moves a chunk of at most kIoSize units *)
(* out of the queue and into one overlapped WriteFile.  While that write   *)
(* is pending its bytes are in neither the queue nor, for the client, all  *)
(* in the pipe, so whoever closes the pipe has to count both.              *)
(*                                                                         *)
(* The client opens the pipe once, reads, and may close its handle at any  *)
(* time.  sent, received and broken are history variables.                 *)
(***************************************************************************)
EXTENDS Integers, Sequences, SequencesExt

CONSTANTS
  OutPipes,   \* names of the output pipes
  Item,       \* units of output that may be written
  Batches,    \* sequences of items the owner may write in one go
  IoSize,     \* kIoSize: most units one WriteFile takes
  Quota       \* units the kernel buffers before a write stays pending

ASSUME NamedPipeAssumption ==
  /\ IoSize \in Nat \ {0}
  /\ Quota \in Nat
  /\ Batches \subseteq Seq(Item)

VARIABLES
  status,     \* server end: "connecting" (isConnecting), "connected", "closed"
  outQueue,   \* m_outQueue
  pending,    \* m_currentIoSize of the write in flight, 0 when !m_pending
  wire,       \* units in the kernel's pipe, not yet read by the client
  client,     \* client's handle: "none" (not opened yet), "open", "closed"
  received,   \* units the client has read
  sent,       \* units passed to NamedPipe::write
  broken      \* data was given up: the client went away or a write was canceled

pipeVars == <<status, outQueue, pending, wire, client, received, sent, broken>>

(***************************************************************************)
(* bytesToSend(): what the agent still owes the kernel.                    *)
(***************************************************************************)
bytesToSend(p) == Len(outQueue[p]) + pending[p]

isConnected(p) == status[p] = "connected"

PipeInit ==
  /\ status   = [p \in OutPipes |-> "connecting"]
  /\ outQueue = [p \in OutPipes |-> <<>>]
  /\ pending  = [p \in OutPipes |-> 0]
  /\ wire     = [p \in OutPipes |-> <<>>]
  /\ client   = [p \in OutPipes |-> "none"]
  /\ received = [p \in OutPipes |-> <<>>]
  /\ sent     = [p \in OutPipes |-> <<>>]
  /\ broken   = [p \in OutPipes |-> FALSE]

----------------------------------------------------------------------------
(***************************************************************************)
(* The client's side.                                                      *)
(***************************************************************************)

\* CreateFile on the pipe's name: it fails at once when the server is gone
\* or the only instance is taken.
ClientOpen(p) ==
  /\ client[p] = "none"
  /\ status[p] = "connecting"
  /\ client' = [client EXCEPT ![p] = "open"]
  /\ UNCHANGED <<status, outQueue, pending, wire, received, sent, broken>>

ClientRead(p) ==
  /\ client[p] = "open"
  /\ wire[p] # <<>>
  /\ received' = [received EXCEPT ![p] = Append(@, Head(wire[p]))]
  /\ wire' = [wire EXCEPT ![p] = Tail(@)]
  /\ UNCHANGED <<status, outQueue, pending, client, sent, broken>>

\* A read returns end of file: the server end is gone and the pipe is empty.
AtEof(p) == status[p] = "closed" /\ wire[p] = <<>>

\* Closing the handle gives up data unless everything has been read.
ClientClose(p) ==
  /\ client[p] = "open"
  /\ client' = [client EXCEPT ![p] = "closed"]
  /\ wire' = [wire EXCEPT ![p] = <<>>]
  /\ broken' = [broken EXCEPT ![p] = @ \/ ~AtEof(p)]
  /\ UNCHANGED <<status, outQueue, pending, received, sent>>

----------------------------------------------------------------------------
(***************************************************************************)
(* The agent's side, one action per system call serviceIo makes.           *)
(***************************************************************************)

\* serviceIo finds the pended ConnectNamedPipe complete.
FinishConnect(p) ==
  /\ status[p] = "connecting"
  /\ client[p] # "none"
  /\ status' = [status EXCEPT ![p] = "connected"]
  /\ UNCHANGED <<outQueue, pending, wire, client, received, sent, broken>>

\* The number of units the next WriteFile takes.
WriteSize(p) == IF Len(outQueue[p]) < IoSize THEN Len(outQueue[p]) ELSE IoSize

\* Mutated form of IssueWrite: a write that stays pending is left in the queue.
IssueWriteKeepsPending(p) ==
  LET fits == Len(wire[p]) + WriteSize(p) <= Quota IN
  /\ isConnected(p)
  /\ pending[p] = 0
  /\ outQueue[p] # <<>>
  /\ client[p] = "open"
  /\ outQueue' = [outQueue EXCEPT
                    ![p] = IF fits THEN SubSeq(@, WriteSize(p) + 1, Len(@)) ELSE @]
  /\ wire' = [wire EXCEPT ![p] = @ \o SubSeq(outQueue[p], 1, WriteSize(p))]
  /\ pending' = [pending EXCEPT ![p] = IF fits THEN 0 ELSE WriteSize(p)]
  /\ UNCHANGED <<status, client, received, sent, broken>>

\* shouldIssueIo erases the chunk from the queue before WriteFile gets it.
\* The call returns ERROR_IO_PENDING when the kernel cannot buffer it all.
IssueWrite(p) ==
  /\ isConnected(p)
  /\ pending[p] = 0
  /\ outQueue[p] # <<>>
  /\ client[p] = "open"
  /\ outQueue' = [outQueue EXCEPT
                    ![p] = SubSeq(@, WriteSize(p) + 1, Len(@))]
  /\ wire' = [wire EXCEPT ![p] = @ \o SubSeq(outQueue[p], 1, WriteSize(p))]
  /\ pending' = [pending EXCEPT
                   ![p] = IF Len(wire[p]) + WriteSize(p) > Quota
                          THEN WriteSize(p) ELSE 0]
  /\ UNCHANGED <<status, client, received, sent, broken>>

\* GetOverlappedResult reports the write in flight finished.
WriteDone(p) == pending[p] > 0 /\ client[p] = "open" /\ Len(wire[p]) <= Quota

CompleteWrite(p) ==
  /\ isConnected(p)
  /\ WriteDone(p)
  /\ pending' = [pending EXCEPT ![p] = 0]
  /\ UNCHANGED <<status, outQueue, wire, client, received, sent, broken>>

\* The client is gone: a new write or the one in flight fails, and serviceIo
\* closes the pipe.  The chunk of a new write has already left the queue.
PipeError(p) ==
  /\ isConnected(p)
  /\ client[p] = "closed"
  /\ bytesToSend(p) > 0
  /\ status' = [status EXCEPT ![p] = "closed"]
  /\ outQueue' = [outQueue EXCEPT
                    ![p] = IF pending[p] > 0 THEN @
                           ELSE SubSeq(@, WriteSize(p) + 1, Len(@))]
  /\ pending' = [pending EXCEPT ![p] = 0]
  /\ UNCHANGED <<wire, client, received, sent, broken>>

----------------------------------------------------------------------------
(***************************************************************************)
(* What the agent's other code does to the pipes: write() appends a batch  *)
(* b[p] to every queue, closePipe() closes those in C.  Closing cancels a  *)
(* write in flight: what the kernel had not buffered of it is gone.        *)
(***************************************************************************)
WriteAll(b) ==
  /\ outQueue' = [p \in OutPipes |-> outQueue[p] \o b[p]]
  /\ sent' = [p \in OutPipes |-> sent[p] \o b[p]]
  /\ UNCHANGED <<status, pending, wire, client, received, broken>>

WireLeft(p) ==
  IF pending[p] > 0 /\ Len(wire[p]) > Quota
  THEN SubSeq(wire[p], 1, Quota) ELSE wire[p]

closePipes(C) ==
  /\ status' = [p \in OutPipes |-> IF p \in C THEN "closed" ELSE status[p]]
  /\ broken' = [p \in OutPipes |-> broken[p] \/ (p \in C /\ pending[p] > 0)]
  /\ wire' = [p \in OutPipes |-> IF p \in C THEN WireLeft(p) ELSE wire[p]]
  /\ pending' = [p \in OutPipes |-> IF p \in C THEN 0 ELSE pending[p]]
  /\ UNCHANGED <<outQueue, client, received, sent>>

----------------------------------------------------------------------------
ServiceStep(p) ==
  FinishConnect(p) \/ IssueWrite(p) \/ CompleteWrite(p) \/ PipeError(p)

ClientStep(p) == ClientOpen(p) \/ ClientRead(p) \/ ClientClose(p)

OwnerStep ==
  \/ \E b \in [OutPipes -> Batches] : WriteAll(b)
  \/ \E C \in SUBSET OutPipes : closePipes(C)

PipeNext ==
  \/ \E p \in OutPipes : ServiceStep(p) \/ ClientStep(p)
  \/ OwnerStep

PipeSpec == PipeInit /\ [][PipeNext]_pipeVars

----------------------------------------------------------------------------
PipeTypeOK ==
  /\ status   \in [OutPipes -> {"connecting", "connected", "closed"}]
  /\ outQueue \in [OutPipes -> Seq(Item)]
  /\ pending  \in [OutPipes -> 0..IoSize]
  /\ wire     \in [OutPipes -> Seq(Item)]
  /\ client   \in [OutPipes -> {"none", "open", "closed"}]
  /\ received \in [OutPipes -> Seq(Item)]
  /\ sent     \in [OutPipes -> Seq(Item)]
  /\ broken   \in [OutPipes -> BOOLEAN]

(***************************************************************************)
(* Nothing is lost, duplicated or reordered between NamedPipe::write and   *)
(* the client's reads, wherever the chunks are: until data is deliberately *)
(* given up, what was written is what the client has read, then what the   *)
(* kernel holds, then what is still queued.                                *)
(***************************************************************************)
StreamIntact ==
  \A p \in OutPipes :
    ~broken[p] => sent[p] = received[p] \o wire[p] \o outQueue[p]
============================================================================
