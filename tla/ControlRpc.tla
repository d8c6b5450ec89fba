----------------------------- MODULE ControlRpc -----------------------------
(***************************************************************************)
(* RPCs over the control pipe: the library's side (vt7pty.cc), on several  *)
(* threads of the client, against an agent that answers, is slow, hangs or *)
(* dies.                                                                   *)
(*                                                                         *)
(* A call takes the mutex, then performs one WriteFile and several         *)
(* ReadFiles (the size, then the payload, which may arrive in parts), each *)
(* an overlapped operation waited for together with the agent's process    *)
(* handle for at most agentTimeoutMs.  ~RpcOperation closes the control    *)
(* pipe unless the call called success(): a late reply must not be taken   *)
(* for the reply to the next request.  A successful spawn moves the        *)
(* handles the agent has duplicated into the client's process.             *)
(*                                                                         *)
(* ids, calls, invoked, executed, returned, failed and matched are history  *)
(* variables.                                                              *)
(***************************************************************************)
EXTENDS Integers, Sequences, FiniteSets

CONSTANTS
  Thread,      \* threads of the client
  NoThread,    \* nobody holds the mutex
  MaxCalls,    \* bound: calls made
  Timeout,     \* agentTimeoutMs, in ticks
  MayDie       \* may the agent die of its own?

ASSUME ControlRpcAssumption ==
  /\ NoThread \notin Thread
  /\ MaxCalls \in Nat
  /\ Timeout \in Nat \ {0}
  /\ MayDie \in BOOLEAN

Handles == {"process", "thread"}

\* The RPCs, with what of their arguments matters: the handles the caller
\* asked for, and whether its array is large enough for the process list.
Op == [kind : {"spawn"}, wants : {{}, {"process"}, Handles}, fits : {TRUE}]
        \union [kind : {"size"}, wants : {{}}, fits : {TRUE}]
        \union [kind : {"list"}, wants : {{}}, fits : BOOLEAN]

\* A request in the pipe; none when id = 0.
NoRequest == [id |-> 0, op |-> [kind |-> "size", wants |-> {}, fits |-> TRUE]]

\* ReadFiles a reply takes: the size, then the payload (none for "size").
Parts(kind) == CASE kind = "size" -> 1 [] kind = "spawn" -> 2 [] kind = "list" -> 3

VARIABLES
  pipe,          \* vt7pty_t::controlPipe: "open", "closed"
  freed,         \* vt7pty_free has been called
  mutex,         \* holder of vt7pty_t::mutex, or NoThread
  at,            \* per thread: where its call is
  op,            \* per thread: the call's RPC
  ids,           \* per thread: number of its call
  result,        \* per thread: how its last call ended
  given,         \* per thread: handles the last call has given to the caller
  local,         \* localProcess and localThread of the spawn in progress
  reply,         \* parts of the reply read so far
  waited,        \* ticks the pending operation has been waited for
  calls,         \* calls made
  agent,         \* "running", "dead"
  child,         \* the agent has a child process
  agentHandles,  \* handles duplicated for the client, in the agent's process
  inbox,         \* the request in the pipe
  outQueue,      \* m_outQueue of the agent's end: parts of replies
  wire,          \* parts of replies in the pipe
  invoked, executed, returned, failed,   \* of RpcPromise
  matched        \* every success so far used the reply to its own request

libVars     == <<pipe, freed, mutex, at, op, ids, result, given, local, reply>>
timeVars    == <<waited>>
agentVars   == <<agent, child, agentHandles, inbox, outQueue, wire>>
historyVars == <<calls, invoked, executed, returned, failed, matched>>
rpcVars     == <<libVars, timeVars, agentVars, historyVars>>

RpcInit ==
  /\ pipe = "open" /\ freed = FALSE /\ mutex = NoThread
  /\ at = [t \in Thread |-> "idle"]
  /\ op = [t \in Thread |-> NoRequest.op]
  /\ ids = [t \in Thread |-> 0]
  /\ result = [t \in Thread |-> "none"]
  /\ given = [t \in Thread |-> {}]
  /\ local = {} /\ reply = <<>>
  /\ waited = 0 /\ calls = 0
  /\ agent = "running" /\ child = FALSE /\ agentHandles = {}
  /\ inbox = NoRequest /\ outQueue = <<>> /\ wire = <<>>
  /\ invoked = {} /\ executed = {} /\ returned = {}
  /\ failed = FALSE /\ matched = TRUE

----------------------------------------------------------------------------
(***************************************************************************)
(* Ends of a call.  Leaving the function releases the mutex.               *)
(***************************************************************************)
Leave(t, r) ==
  /\ at' = [at EXCEPT ![t] = "idle"]
  /\ result' = [result EXCEPT ![t] = r]
  /\ mutex' = NoThread
  /\ local' = {}
  /\ reply' = <<>>
  /\ returned' = returned \union {ids[t]}
  /\ UNCHANGED <<freed, op, ids, calls, invoked, executed>>

\* rpc.success().
Succeed(t, r) ==
  /\ Leave(t, r)
  /\ matched' = (matched /\ \A i \in DOMAIN reply : reply[i].id = ids[t])
  /\ UNCHANGED <<pipe, timeVars, failed>>

\* Mutated form of Fail: the control pipe is left open.
FailKeepsPipe(t, r) ==
  /\ Leave(t, r)
  /\ failed' = TRUE
  /\ UNCHANGED <<pipe, given, timeVars, agentVars, matched>>

\* An exception leaves the call: ~RpcOperation closes the control pipe, and
\* with it goes what the pipe holds.  A request the agent's pending ReadFile
\* has already taken stays in inbox.
Fail(t, r) ==
  /\ Leave(t, r)
  /\ pipe' = "closed"
  /\ wire' = <<>>
  /\ failed' = TRUE
  /\ UNCHANGED <<given, timeVars, agent, child, agentHandles, inbox, outQueue,
                 matched>>

----------------------------------------------------------------------------
(***************************************************************************)
(* A call.                                                                 *)
(***************************************************************************)
StartCall(t, o) ==
  /\ at[t] = "idle" /\ ~freed
  /\ calls < MaxCalls
  /\ calls' = calls + 1
  /\ at' = [at EXCEPT ![t] = "lock"]
  /\ op' = [op EXCEPT ![t] = o]
  /\ ids' = [ids EXCEPT ![t] = calls + 1]
  /\ given' = [given EXCEPT ![t] = {}]
  /\ invoked' = invoked \union {calls + 1}
  /\ UNCHANGED <<pipe, freed, mutex, result, local, reply, timeVars, agentVars,
                 executed, returned, failed, matched>>

\* Mutated form of Acquire: RpcOperation does not take the mutex.
AcquireUnlocked(t) ==
  /\ at[t] = "lock"
  /\ \/ /\ pipe = "closed"
        /\ Leave(t, "shutDown")
        /\ failed' = TRUE
        /\ UNCHANGED <<pipe, given, timeVars, agentVars, matched>>
     \/ /\ pipe = "open"
        /\ mutex' = t
        /\ at' = [at EXCEPT ![t] = "write"]
        /\ UNCHANGED <<pipe, freed, op, ids, result, given, local, reply, waited,
                       agentVars, historyVars>>

\* lock_guard and the constructor of RpcOperation.
Acquire(t) ==
  /\ at[t] = "lock" /\ mutex = NoThread
  /\ \/ /\ pipe = "closed"
        /\ Leave(t, "shutDown")
        /\ failed' = TRUE
        /\ UNCHANGED <<pipe, given, timeVars, agentVars, matched>>
     \/ /\ pipe = "open"
        /\ mutex' = t
        /\ at' = [at EXCEPT ![t] = "write"]
        /\ UNCHANGED <<pipe, freed, op, ids, result, given, local, reply, waited,
                       agentVars, historyVars>>

\* writePacket: WriteFile completes at once, or pends until the agent reads
\* (a long spawn request does not fit the kernel's 256 bytes).
WriteRequest(t) ==
  /\ at[t] = "write"
  /\ agent = "running"
  /\ inbox' = [id |-> ids[t], op |-> op[t]]
  /\ waited' = 0
  /\ at' = [at EXCEPT ![t] = IF op[t].kind = "spawn" THEN "writing" ELSE "reading"]
  /\ UNCHANGED <<pipe, freed, mutex, op, ids, result, given, local, reply,
                 agent, child, agentHandles, outQueue, wire, historyVars>>

WriteDone(t) ==
  /\ at[t] = "writing"
  /\ inbox = NoRequest
  /\ waited' = 0
  /\ at' = [at EXCEPT ![t] = "reading"]
  /\ UNCHANGED <<pipe, freed, mutex, op, ids, result, given, local, reply,
                 agentVars, historyVars>>

\* readData: one ReadFile; readAll and readPacket go on until the packet is
\* complete.
ReadPart(t) ==
  /\ at[t] = "reading"
  /\ wire # <<>>
  /\ reply' = Append(reply, Head(wire))
  /\ wire' = Tail(wire)
  /\ waited' = 0
  /\ at' = [at EXCEPT ![t] = IF Head(wire).last THEN "decode" ELSE "reading"]
  /\ UNCHANGED <<pipe, freed, mutex, op, ids, result, given, local,
                 agent, child, agentHandles, inbox, outQueue, historyVars>>

\* The operation cannot complete: what is pending has not been taken or has
\* not arrived.
Blocked(t) ==
  \/ at[t] = "writing" /\ inbox # NoRequest
  \/ at[t] = "reading" /\ wire = <<>>

\* WaitForMultipleObjects reports the process handle, or an operation issued
\* after the agent's death fails.
AgentGone(t) ==
  /\ agent = "dead"
  /\ at[t] = "write" \/ Blocked(t)
  /\ \E r \in {"agentDied", "lostConnection"} : Fail(t, r)

\* Mutated form of WaitTimesOut: the process handle and the event are waited
\* for without a limit.
WaitTimesOutNever(t) == at[t] = "noTimeout" /\ UNCHANGED rpcVars

\* WAIT_TIMEOUT; the operation may still complete before CancelIo.
WaitTimesOut(t) ==
  /\ Blocked(t)
  /\ waited = Timeout
  /\ at' = [at EXCEPT ![t] = "cancel"]
  /\ UNCHANGED <<pipe, freed, mutex, op, ids, result, given, local, reply, timeVars,
                 agentVars, historyVars>>

CancelTimedOut(t) == at[t] = "cancel" /\ Fail(t, "timedOut")

\* Mutated form of Tick: the wait goes on past the timeout.
TickUnbounded ==
  /\ \E t \in Thread : Blocked(t)
  /\ waited' = waited + 1
  /\ UNCHANGED <<libVars, agentVars, historyVars>>

Tick ==
  /\ \E t \in Thread : Blocked(t)
  /\ waited < Timeout
  /\ waited' = waited + 1
  /\ UNCHANGED <<libVars, agentVars, historyVars>>

----------------------------------------------------------------------------
(***************************************************************************)
(* What the call does with the reply: decode it and, for a spawn, steal    *)
(* the handles.                                                            *)
(***************************************************************************)
Answer == reply[Len(reply)]

DecodeSize(t) ==
  /\ at[t] = "decode" /\ op[t].kind = "size"
  /\ Succeed(t, "ok")
  /\ UNCHANGED <<given, agentVars>>

\* A list longer than the caller's array is not read, so assertEof throws.
DecodeList(t) ==
  /\ at[t] = "decode" /\ op[t].kind = "list"
  /\ IF op[t].fits
     THEN Succeed(t, "ok") /\ UNCHANGED <<given, agentVars>>
     ELSE Fail(t, "badPacket")

DecodeSpawn(t) ==
  /\ at[t] = "decode" /\ op[t].kind = "spawn"
  /\ IF Answer.created
     THEN /\ at' = [at EXCEPT ![t] = "steal"]
          /\ UNCHANGED <<pipe, freed, mutex, op, ids, result, given, local, reply,
                         timeVars, agentVars, historyVars>>
     ELSE Succeed(t, "createProcessFailed") /\ UNCHANGED <<given, agentVars>>

\* localProcess first, then localThread.
NextHandle(t) ==
  IF "process" \in op[t].wants \ local THEN "process" ELSE "thread"

\* Mutated form of stealHandle: without DUPLICATE_CLOSE_SOURCE.
stealHandleCopies(t) ==
  /\ at[t] = "steal" /\ op[t].wants \ local # {}
  /\ IF agent = "running"
     THEN /\ local' = local \union {NextHandle(t)}
          /\ UNCHANGED <<pipe, freed, mutex, at, op, ids, result, given, reply,
                         timeVars, agentVars, historyVars>>
     ELSE Fail(t, "osError")

stealHandle(t) ==
  /\ at[t] = "steal" /\ op[t].wants \ local # {}
  /\ IF agent = "running"
     THEN /\ local' = local \union {NextHandle(t)}
          /\ agentHandles' = agentHandles \ {NextHandle(t)}
          /\ UNCHANGED <<pipe, freed, mutex, at, op, ids, result, given, reply,
                         timeVars, agent, child, inbox, outQueue, wire, historyVars>>
     ELSE Fail(t, "osError")

\* Mutated form of ReleaseHandles: only what has been stolen first is released.
ReleaseHandlesEarly(t) ==
  /\ at[t] = "steal" /\ (local # {} \/ op[t].wants = {})
  /\ given' = [given EXCEPT ![t] = local]
  /\ Succeed(t, "ok")
  /\ UNCHANGED agentVars

\* *process_handle and *thread_handle are assigned when both are here.
ReleaseHandles(t) ==
  /\ at[t] = "steal" /\ op[t].wants \ local = {}
  /\ given' = [given EXCEPT ![t] = local]
  /\ Succeed(t, "ok")
  /\ UNCHANGED agentVars

vt7pty_free ==
  /\ ~freed /\ \A t \in Thread : at[t] = "idle"
  /\ freed' = TRUE
  /\ pipe' = "closed"
  /\ wire' = <<>>
  /\ UNCHANGED <<mutex, at, op, ids, result, given, local, reply, timeVars, agent,
                 child, agentHandles, inbox, outQueue, historyVars>>

----------------------------------------------------------------------------
(***************************************************************************)
(* The agent.                                                              *)
(***************************************************************************)
\* The parts of the reply to request q, of which only the last one matters.
ReplyTo(q, created) ==
  LET n == Parts(q.op.kind)
  IN  [i \in 1..n |-> [id |-> q.id, last |-> i = n, created |-> created]]

\* The agent's process ends; the kernel closes its handles and what its end
\* of the pipe still had to write is lost, what is in the pipe is not.
Die ==
  /\ agent' = "dead"
  /\ agentHandles' = {}
  /\ outQueue' = <<>>

\* Mutated form of handleStartProcessPacket: the child's handles are duplicated
\* for a client that did not ask for them.
handleStartProcessPacketAlwaysDuplicates(q) ==
  /\ ~child
  /\ child' = TRUE /\ agentHandles' = Handles
  /\ outQueue' = outQueue \o ReplyTo(q, TRUE)

handleStartProcessPacket(q) ==
  /\ ~child
  /\ \/ child' = TRUE /\ agentHandles' = q.op.wants
        /\ outQueue' = outQueue \o ReplyTo(q, TRUE)
     \/ outQueue' = outQueue \o ReplyTo(q, FALSE)    \* CreateProcessW fails
        /\ UNCHANGED <<child, agentHandles>>

handleSetSizePacket(q) ==
  /\ q.op.kind = "size"
  /\ outQueue' = outQueue \o ReplyTo(q, FALSE)
  /\ UNCHANGED <<child, agentHandles>>

\* The agent's own list grows until the console's processes fit.
handleGetConsoleProcessListPacket(q) ==
  /\ q.op.kind = "list"
  /\ outQueue' = outQueue \o ReplyTo(q, FALSE)
  /\ UNCHANGED <<child, agentHandles>>

\* The agent reads a request and handles it, which it also does when the
\* client has given it up and closed the pipe since.  A second spawn is rejected: the
\* agent closes the control pipe and exits.
HandleRequest ==
  /\ agent = "running" /\ inbox # NoRequest
  /\ inbox' = NoRequest
  /\ \/ /\ inbox.op.kind = "spawn"
        /\ handleStartProcessPacket(inbox)
        /\ UNCHANGED agent
        /\ executed' = executed \union {inbox.id}
     \/ /\ inbox.op.kind = "spawn" /\ child
        /\ Die /\ UNCHANGED <<child, executed>>
     \/ /\ handleSetSizePacket(inbox) \/ handleGetConsoleProcessListPacket(inbox)
        /\ UNCHANGED agent
        /\ executed' = executed \union {inbox.id}
  /\ UNCHANGED <<libVars, timeVars, wire, calls, invoked, returned, failed, matched>>

FlushReply ==
  /\ agent = "running" /\ outQueue # <<>> /\ pipe = "open"
  /\ wire' = Append(wire, Head(outQueue))
  /\ outQueue' = Tail(outQueue)
  /\ UNCHANGED <<libVars, timeVars, agent, child, agentHandles, inbox, historyVars>>

\* The agent exits when its control pipe is closed, or crashes.
AgentExit ==
  /\ agent = "running"
  /\ pipe = "closed" \/ MayDie
  /\ Die
  /\ UNCHANGED <<libVars, timeVars, child, inbox, wire, historyVars>>

----------------------------------------------------------------------------
CallStep(t) ==
  \/ Acquire(t) \/ WriteRequest(t) \/ WriteDone(t) \/ ReadPart(t)
  \/ AgentGone(t) \/ WaitTimesOut(t) \/ CancelTimedOut(t)
  \/ DecodeSize(t) \/ DecodeList(t) \/ DecodeSpawn(t)
  \/ stealHandle(t) \/ ReleaseHandles(t)

\* The client needs no more calls.
Done == (\A t \in Thread : at[t] = "idle") /\ UNCHANGED rpcVars

RpcNext ==
  \/ \E t \in Thread : CallStep(t) \/ \E o \in Op : StartCall(t, o)
  \/ vt7pty_free \/ Tick
  \/ HandleRequest \/ FlushReply \/ AgentExit
  \/ Done

RpcSpec == RpcInit /\ [][RpcNext]_rpcVars

(***************************************************************************)
(* The client's threads run and time passes.  Nothing is assumed of the    *)
(* agent: it may hang at any point.                                        *)
(***************************************************************************)
RpcFairness == WF_rpcVars(Tick) /\ \A t \in Thread : WF_rpcVars(CallStep(t))

RpcFairSpec == RpcSpec /\ RpcFairness

----------------------------------------------------------------------------
CallState == {"idle", "lock", "write", "writing", "reading", "cancel", "decode", "steal"}

Result == {"none", "ok", "createProcessFailed", "shutDown", "agentDied",
           "lostConnection", "timedOut", "badPacket", "osError"}

ReplyPart == [id : 1..MaxCalls, last : BOOLEAN, created : BOOLEAN]

RpcTypeOK ==
  /\ pipe \in {"open", "closed"} /\ freed \in BOOLEAN
  /\ mutex \in Thread \union {NoThread}
  /\ at \in [Thread -> CallState] /\ result \in [Thread -> Result]
  /\ op \in [Thread -> Op] /\ ids \in [Thread -> 0..MaxCalls]
  /\ given \in [Thread -> SUBSET Handles] /\ local \subseteq Handles
  /\ waited \in 0..Timeout /\ calls \in 0..MaxCalls
  /\ agent \in {"running", "dead"} /\ child \in BOOLEAN
  /\ agentHandles \subseteq Handles
  /\ inbox \in [id : 0..MaxCalls, op : Op]
  /\ reply \in Seq(ReplyPart) /\ outQueue \in Seq(ReplyPart) /\ wire \in Seq(ReplyPart)
  /\ failed \in BOOLEAN /\ matched \in BOOLEAN

(***************************************************************************)
(* A call never takes the reply to another request for its own, however    *)
(* late the agent answers one that was given up.                           *)
(***************************************************************************)
ReplyMatchesRequest == matched

(***************************************************************************)
(* Whenever the control pipe is open and no call is in progress the two    *)
(* sides are in step: no request and no part of a reply is under way, and  *)
(* every handle the agent duplicated has moved to the client.              *)
(***************************************************************************)
NothingLeftBehind ==
  pipe = "open" /\ mutex = NoThread =>
    inbox = NoRequest /\ outQueue = <<>> /\ wire = <<>> /\ agentHandles = {}

(***************************************************************************)
(* A spawn hands over all the handles the caller asked for or none, though *)
(* the agent may die between the two DuplicateHandle calls.                *)
(***************************************************************************)
HandlesAllOrNone ==
  \A t \in Thread : at[t] = "idle" /\ op[t].kind = "spawn" =>
    given[t] = IF result[t] = "ok" THEN op[t].wants ELSE {}

(***************************************************************************)
(* Every call returns, even if the agent never answers.                    *)
(***************************************************************************)
EveryCallReturns == \A t \in Thread : at[t] # "idle" ~> at[t] = "idle"

(***************************************************************************)
(* A process list the agent has sent in full is returned to the caller as  *)
(* a count, as the test of the process list expects ("processCount <= 16"  *)
(* is something to be checked): it does not end the session.               *)
(***************************************************************************)
LongListReported == \A t \in Thread : result[t] # "badPacket"
============================================================================
