---------------------------- MODULE PacketStream ----------------------------
(***************************************************************************)
(* Control packets on their way to the agent.  The library writes a packet *)
(* whole, its size first; the pipe is a stream of bytes, and the agent     *)
(* reads it in pieces of the kernel's choosing.  NamedPipe's InputWorker   *)
(* stops issuing reads while m_inQueue holds readBufferSize() bytes, and   *)
(* pollControlPipe takes complete packets off m_inQueue and raises         *)
(* readBufferSize() for a packet larger than that: reading goes on only    *)
(* because the two agree.                                                  *)
(*                                                                         *)
(* Bytes are numbered from 1 in the order they are written, so the queue   *)
(* and the pipe are intervals: m_inQueue is consumed+1..received, what is  *)
(* still in the pipe is received+1..Written.                               *)
(***************************************************************************)
EXTENDS Integers, Sequences

CONSTANTS
  HeaderSize,      \* sizeof(packetSize)
  MaxPacket,       \* VT7PTY_MAX_CONTROL_PACKET_BYTES
  IoSize,          \* kIoSize, the most one ReadFile returns
  InitialBuffer,   \* m_readBufferSize at first
  Sizes,           \* sizes packets announce
  Contents,        \* may handlePacket find a packet well formed, or malformed?
  Ahead,           \* packets sent before the first of them is answered
  MaxPackets       \* bound: packets sent

ASSUME StreamAssumption ==
  /\ HeaderSize \in Nat \ {0} /\ MaxPacket \in Nat /\ MaxPacket >= HeaderSize
  /\ IoSize \in Nat \ {0}
  /\ InitialBuffer \in Nat /\ InitialBuffer >= HeaderSize
  /\ Sizes \subseteq Nat /\ Contents \subseteq BOOLEAN
  /\ Ahead \in Nat /\ MaxPackets \in Nat

VARIABLES
  sent,             \* the packets written: the bytes first..last, the size
                    \* announced, and whether the content is well formed
  hungUp,           \* the client's end is closed
  received,         \* bytes that ReadFile has returned
  consumed,         \* bytes that were taken off m_inQueue
  readBufferSize,   \* m_readBufferSize
  pending,          \* m_pending: a ReadFile has not completed
  progress,         \* service() has made progress
  phase,            \* the loop: "service", "poll", "idle", "exited"
  handled           \* bytes given to handlePacket, one interval per packet

streamVars == <<sent, hungUp, received, consumed, readBufferSize, pending,
                progress, phase, handled>>

Packet == [first : Nat, last : Nat, size : Nat, ok : BOOLEAN]

Written == IF sent = <<>> THEN 0 ELSE sent[Len(sent)].last

Unread == Written - received

QueueSize == received - consumed

StreamInit ==
  /\ sent = <<>> /\ hungUp = FALSE
  /\ received = 0 /\ consumed = 0 /\ readBufferSize = InitialBuffer
  /\ pending = FALSE /\ progress = FALSE /\ phase = "service"
  /\ handled = <<>>

----------------------------------------------------------------------------
(***************************************************************************)
(* The client.  The library sends no packet above the limit and waits for  *)
(* each reply; the agent copes with other clients as well.                 *)
(***************************************************************************)
writePacket(size, ok) ==
  LET length == IF size < HeaderSize THEN HeaderSize ELSE size IN
  /\ ~hungUp
  /\ Len(sent) < MaxPackets /\ Len(sent) - Len(handled) < Ahead
  /\ sent' = Append(sent, [first |-> Written + 1, last |-> Written + length,
                           size |-> size, ok |-> ok])
  /\ UNCHANGED <<hungUp, received, consumed, readBufferSize, pending, progress,
                 phase, handled>>

HangUp ==
  /\ ~hungUp /\ hungUp' = TRUE
  /\ UNCHANGED <<sent, received, consumed, readBufferSize, pending, progress,
                 phase, handled>>

----------------------------------------------------------------------------
(***************************************************************************)
(* InputWorker, called from serviceIo once in each pass of the loop.       *)
(***************************************************************************)
\* shouldIssueIo
HasRoom == QueueSize < readBufferSize

\* ReadFile returns some of what is there; completeIo appends it.
Receive ==
  \E n \in 1..IoSize :
    /\ n <= Unread
    /\ received' = received + n

\* Where service() leaves the pass: poll if it made progress, wait otherwise.
AfterService == IF progress THEN "poll" ELSE "idle"

CompleteRead ==
  /\ phase = "service" /\ pending
  /\ Receive
  /\ pending' = FALSE /\ progress' = TRUE
  /\ UNCHANGED <<sent, hungUp, consumed, readBufferSize, phase, handled>>

StillPending ==
  /\ phase = "service" /\ pending /\ Unread = 0 /\ ~hungUp
  /\ phase' = AfterService
  /\ UNCHANGED <<sent, hungUp, received, consumed, readBufferSize, pending,
                 progress, handled>>

IssueRead ==
  /\ phase = "service" /\ ~pending /\ HasRoom
  /\ \/ /\ Receive /\ progress' = TRUE
        /\ UNCHANGED <<pending, phase>>
     \/ /\ Unread = 0 /\ ~hungUp
        /\ pending' = TRUE /\ phase' = AfterService
        /\ UNCHANGED <<received, progress>>
  /\ UNCHANGED <<sent, hungUp, consumed, readBufferSize, handled>>

NoRoom ==
  /\ phase = "service" /\ ~pending /\ ~HasRoom
  /\ phase' = AfterService
  /\ UNCHANGED <<sent, hungUp, received, consumed, readBufferSize, pending,
                 progress, handled>>

\* Mutated form of ReadFails: a read that was under way is forgotten.
ReadFailsWhenIssued ==
  /\ phase = "service" /\ ~pending /\ HasRoom
  /\ hungUp /\ Unread = 0
  /\ phase' = "exited"
  /\ UNCHANGED <<sent, hungUp, received, consumed, readBufferSize, pending,
                 progress, handled>>

\* Pipe error: closePipe, and pollControlPipe ends the agent, though the same
\* call of service() may have read complete packets.
ReadFails ==
  /\ phase = "service" /\ (pending \/ HasRoom)
  /\ hungUp /\ Unread = 0
  /\ phase' = "exited"
  /\ UNCHANGED <<sent, hungUp, received, consumed, readBufferSize, pending,
                 progress, handled>>

\* The loop waits for the read; other pipes and the poll interval, if any,
\* start a pass as well.
ReadReady == pending /\ (Unread > 0 \/ hungUp)

StartPass ==
  /\ phase = "idle"
  /\ phase' = "service" /\ progress' = FALSE
  /\ UNCHANGED <<sent, hungUp, received, consumed, readBufferSize, pending,
                 handled>>

----------------------------------------------------------------------------
(***************************************************************************)
(* pollControlPipe, one pass of its loop at a time.                        *)
(***************************************************************************)
\* What the first bytes of m_inQueue say: the size of the packet that starts
\* there, or anything if none does.
SizeFields ==
  LET here == {i \in DOMAIN sent : sent[i].first = consumed + 1}
  IN IF here = {} THEN Sizes ELSE {sent[i].size : i \in here}

WellFormed == \A i \in DOMAIN sent : sent[i].first = consumed + 1 => sent[i].ok

SizeAccepted(size) == HeaderSize <= size /\ size <= MaxPacket

\* Mutated form of BufferFor: the buffer is never raised.
BufferForFixed(size) == readBufferSize

BufferFor(size) == IF readBufferSize < size THEN size ELSE readBufferSize

\* Mutated form of NextPass: the loop waits although it did something.
NextPassIdle == phase' = "idle" /\ progress' = FALSE

\* onPipeIo counts as something done: the next pass begins at once.
NextPass == phase' = "service" /\ progress' = FALSE

\* Not even the size, or not all of the packet is there.
Incomplete ==
  /\ phase = "poll"
  /\ \/ /\ QueueSize < HeaderSize
        /\ UNCHANGED readBufferSize
     \/ /\ QueueSize >= HeaderSize
        /\ \E size \in SizeFields :
             /\ SizeAccepted(size) /\ QueueSize < size
             /\ readBufferSize' = BufferFor(size)
  /\ NextPass
  /\ UNCHANGED <<sent, hungUp, received, consumed, pending, handled>>

\* Mutated form of TakePacket: the size is not taken off the queue.
TakePacketWithoutSize(size) ==
  /\ handled' = Append(handled, <<consumed + 1, consumed + size>>)
  /\ consumed' = consumed + size - HeaderSize

TakePacket(size) ==
  /\ handled' = Append(handled, <<consumed + 1, consumed + size>>)
  /\ consumed' = consumed + size

handlePacket ==
  /\ phase = "poll" /\ QueueSize >= HeaderSize
  /\ \E size \in SizeFields :
       SizeAccepted(size) /\ size <= QueueSize /\ TakePacket(size)
  /\ WellFormed
  /\ UNCHANGED <<sent, hungUp, received, readBufferSize, pending, progress, phase>>

\* A size that is not accepted, or a DecodeError: closePipe and shutdown.
Reject ==
  /\ phase = "poll" /\ QueueSize >= HeaderSize
  /\ \E size \in SizeFields :
       \/ ~SizeAccepted(size)
       \/ size <= QueueSize /\ ~WellFormed
  /\ phase' = "exited"
  /\ UNCHANGED <<sent, hungUp, received, consumed, readBufferSize, pending,
                 progress, handled>>

----------------------------------------------------------------------------
\* What the agent does of itself once the loop runs.
StreamAgentStep ==
  \/ CompleteRead \/ StillPending \/ IssueRead \/ NoRoom \/ ReadFails
  \/ Incomplete \/ handlePacket \/ Reject
  \/ StartPass /\ ReadReady

StreamClientStep ==
  \/ \E size \in Sizes, ok \in Contents : writePacket(size, ok)
  \/ HangUp

StreamNext == StreamAgentStep \/ StartPass \/ StreamClientStep

StreamSpec == StreamInit /\ [][StreamNext]_streamVars

----------------------------------------------------------------------------
(***************************************************************************)
(* Properties.                                                             *)
(***************************************************************************)
StreamTypeOK ==
  /\ sent \in Seq(Packet) /\ hungUp \in BOOLEAN
  /\ received \in Nat /\ consumed \in Nat /\ readBufferSize \in Nat
  /\ pending \in BOOLEAN /\ progress \in BOOLEAN
  /\ phase \in {"service", "poll", "idle", "exited"}
  /\ handled \in Seq(Nat \X Nat)

(* handlePacket is given the packets that were sent, in order, each one    *)
(* once and with its own bytes, however the stream was cut into reads and  *)
(* whatever the agent had to put off until more of a packet had arrived.   *)
PacketsInOrder ==
  /\ Len(handled) <= Len(sent)
  /\ \A i \in DOMAIN handled : handled[i] = <<sent[i].first, sent[i].last>>

(* m_inQueue never takes more than a packet of the largest size accepted   *)
(* and one more read (or the buffer it started with and one more read).    *)
QueueBounded ==
  /\ 0 <= QueueSize
  /\ QueueSize < (IF InitialBuffer < MaxPacket THEN MaxPacket ELSE InitialBuffer) + IoSize

(* The loop never goes to sleep without a read under way, which is what    *)
(* wakes it: the queue is never full of a packet that cannot complete.     *)
KeepsReading == phase = "idle" => pending
============================================================================
