-------------------------- MODULE ControlRpcProofs --------------------------
(***************************************************************************)
(* Proofs about ControlRpc, for any number of threads and calls and any    *)
(* timeout, with an agent that may die anywhere: its invariants, and that  *)
(* it implements RpcPromise.                                               *)
(*                                                                         *)
(* The inductive invariant says that only the holder of the mutex is past  *)
(* RpcOperation (Locked), which calls have been carried out and which have *)
(* returned (Counted), and above all what the two processes have under way *)
(* at each point of an exchange (InStep): the request or parts of its      *)
(* reply, never both, and nothing of an earlier call, because a call that  *)
(* fails in the middle closes the pipe.                                    *)
(***************************************************************************)
EXTENDS MCControlRpc, TLAPS

Locked ==
  /\ \A t \in Thread : at[t] \in {"idle", "lock"} <=> mutex # t
  /\ mutex # NoThread => pipe = "open"
  /\ pipe = "open" => ~failed

Counted ==
  /\ invoked = 1..calls /\ executed \subseteq invoked /\ returned \subseteq invoked
  /\ failed \in BOOLEAN /\ matched
  /\ \A t \in Thread : at[t] # "idle" => ids[t] \in invoked /\ ids[t] \notin returned
  /\ \A t, u \in Thread : t # u /\ at[t] # "idle" /\ at[u] # "idle" => ids[t] # ids[u]
  /\ \A t \in Thread : at[t] \in {"lock", "write"} => ids[t] \notin executed
  /\ \A c \in executed : c \in returned \/ (mutex # NoThread /\ c = ids[mutex])
  /\ inbox # NoRequest =>
       /\ inbox.id \in invoked /\ inbox.id \notin executed
       /\ inbox.id \in returned \/ (mutex # NoThread /\ inbox.id = ids[mutex])

\* Nothing is under way between the two processes.
Quiet == inbox = NoRequest /\ outQueue = <<>> /\ wire = <<>> /\ agentHandles = {}

\* The parts s of the reply to t, of which some have been before.
PartsOf(t, s, before) ==
  \A i \in DOMAIN s :
    /\ s[i].id = ids[t]
    /\ s[i].last <=> before + i = Parts(op[t].kind)
    /\ s[i].created \/ agentHandles = {}

Exchange(t) ==
  /\ inbox = NoRequest \/ inbox = [id |-> ids[t], op |-> op[t]]
  /\ PartsOf(t, reply, 0)
  /\ PartsOf(t, wire, Len(reply))
  /\ PartsOf(t, outQueue, Len(reply) + Len(wire))
  /\ Len(reply) + Len(wire) + Len(outQueue) <= Parts(op[t].kind)
  /\ inbox # NoRequest =>
       reply = <<>> /\ wire = <<>> /\ outQueue = <<>> /\ agentHandles = {}
  /\ reply # <<>> \/ wire # <<>> \/ outQueue # <<>> => ids[t] \in executed
  /\ agentHandles \subseteq op[t].wants \ local
  /\ local \subseteq op[t].wants
  /\ at[t] # "steal" => local = {}
  /\ at[t] = "steal" => op[t].kind = "spawn"
  /\ at[t] \in {"decode", "steal"} => Len(reply) = Parts(op[t].kind)

InStep ==
  /\ mutex = NoThread => reply = <<>> /\ local = {}
  /\ pipe = "open" /\ mutex = NoThread => Quiet
  /\ \A t \in Thread : at[t] = "write" => Quiet /\ reply = <<>> /\ local = {}
  /\ \A t \in Thread : at[t] \notin {"idle", "lock", "write"} => Exchange(t)

Handed ==
  /\ HandlesAllOrNone
  /\ \A t \in Thread : at[t] # "idle" => given[t] = {}

RpcInv == RpcTypeOK /\ Locked /\ Counted /\ InStep /\ Handed

USE ControlRpcAssumption

----------------------------------------------------------------------------
LEMMA OpFacts ==
  /\ \A o \in Op : /\ Parts(o.kind) \in 1..3
                   /\ o.kind \in {"spawn", "size", "list"}
                   /\ o.wants \subseteq Handles
                   /\ o.kind # "spawn" => o.wants = {}
  /\ NoRequest.op \in Op /\ NoRequest.id = 0 /\ NoRequest.op.kind = "size"
<1> DEFINE Good(o) == /\ Parts(o.kind) \in 1..3
                      /\ o.kind \in {"spawn", "size", "list"}
                      /\ o.wants \subseteq Handles
                      /\ o.kind # "spawn" => o.wants = {}
<1>1. ASSUME NEW o \in Op PROVE Good(o)
  <2>1. CASE o \in [kind : {"spawn"}, wants : {{}, {"process"}, Handles}, fits : {TRUE}]
    <3>1. o.kind = "spawn" /\ o.wants \in {{}, {"process"}, Handles}
      BY <2>1
    <3> QED BY <3>1 DEF Parts, Handles
  <2>2. CASE o \in [kind : {"size"}, wants : {{}}, fits : {TRUE}]
    <3>1. o.kind = "size" /\ o.wants = {}
      BY <2>2
    <3> QED BY <3>1 DEF Parts
  <2>3. CASE o \in [kind : {"list"}, wants : {{}}, fits : BOOLEAN]
    <3>1. o.kind = "list" /\ o.wants = {}
      BY <2>3
    <3> QED BY <3>1 DEF Parts
  <2> QED BY <1>1, <2>1, <2>2, <2>3 DEF Op
<1>2. NoRequest.op \in Op /\ NoRequest.id = 0 /\ NoRequest.op.kind = "size"
  BY DEF Op, NoRequest
<1> QED BY <1>1, <1>2

LEMMA RpcInitInv == RpcInit => RpcInv
<1> SUFFICES ASSUME RpcInit PROVE RpcInv
  OBVIOUS
<1>1. RpcTypeOK
  <2>1. inbox \in [id : 0..MaxCalls, op : Op] /\ op \in [Thread -> Op]
    BY OpFacts DEF RpcInit, NoRequest
  <2>2. reply \in Seq(ReplyPart) /\ outQueue \in Seq(ReplyPart) /\ wire \in Seq(ReplyPart)
    BY DEF RpcInit
  <2>3. at \in [Thread -> CallState] /\ result \in [Thread -> Result]
    BY DEF RpcInit, CallState, Result
  <2>4. ids \in [Thread -> 0..MaxCalls] /\ given \in [Thread -> SUBSET Handles]
    BY DEF RpcInit
  <2>5. /\ pipe = "open" /\ freed = FALSE /\ mutex = NoThread /\ local = {} /\ waited = 0
        /\ calls = 0 /\ agent = "running" /\ child = FALSE /\ agentHandles = {}
        /\ failed = FALSE /\ matched = TRUE
    BY DEF RpcInit
  <2>6. mutex \in Thread \union {NoThread} /\ waited \in 0..Timeout /\ calls \in 0..MaxCalls
    BY <2>5
  <2>7. local \subseteq Handles /\ agentHandles \subseteq Handles
    BY <2>5
  <2>8. /\ pipe \in {"open", "closed"} /\ freed \in BOOLEAN /\ agent \in {"running", "dead"}
        /\ child \in BOOLEAN /\ failed \in BOOLEAN /\ matched \in BOOLEAN
    BY <2>5
  <2> QED BY <2>1, <2>2, <2>3, <2>4, <2>6, <2>7, <2>8 DEF RpcTypeOK
<1>2. Locked
  BY DEF RpcInit, Locked
<1>3. Counted
  <2>1. invoked = 1..calls
    BY DEF RpcInit
  <2> QED BY <2>1 DEF RpcInit, Counted
<1>4. InStep
  BY DEF RpcInit, InStep, Quiet
<1>5. Handed
  BY OpFacts DEF RpcInit, Handed, HandlesAllOrNone
<1> QED BY <1>1, <1>2, <1>3, <1>4, <1>5 DEF RpcInv

(* The holder of the mutex is in the middle of an exchange.                *)
LEMMA HolderFacts ==
  ASSUME RpcInv, NEW t \in Thread, at[t] \notin {"idle", "lock"}
  PROVE  /\ mutex = t /\ mutex # NoThread /\ pipe = "open" /\ ~failed
         /\ op[t] \in Op /\ Parts(op[t].kind) \in 1..3
         /\ ids[t] \in invoked /\ ids[t] \notin returned /\ ids[t] \in 1..MaxCalls
         /\ given[t] = {}
         /\ \A u \in Thread \ {t} : at[u] \in {"idle", "lock"}
<1> USE DEF RpcInv
<1>1. mutex = t /\ mutex # NoThread /\ pipe = "open" /\ ~failed
  BY DEF Locked
<1>2. op[t] \in Op /\ Parts(op[t].kind) \in 1..3
  BY OpFacts DEF RpcTypeOK
<1>3. ids[t] \in invoked /\ ids[t] \notin returned
  BY DEF Counted
<1>4. ids[t] \in 1..MaxCalls
  BY <1>3 DEF Counted, RpcTypeOK
<1>5. given[t] = {} /\ \A u \in Thread \ {t} : at[u] \in {"idle", "lock"}
  BY <1>1 DEF Handed, Locked
<1> QED BY <1>1, <1>2, <1>3, <1>4, <1>5

(* Leaving a call: what this does to the lock and to the calls.            *)
LEMMA LeaveFacts ==
  ASSUME RpcInv, NEW t \in Thread, at[t] # "idle", mutex \in {t, NoThread},
         NEW r \in Result, Leave(t, r)
  PROVE  /\ at' = [at EXCEPT ![t] = "idle"] /\ at' \in [Thread -> CallState]
         /\ result' \in [Thread -> Result] /\ mutex' = NoThread
         /\ reply' = <<>> /\ local' = {}
         /\ \A u \in Thread : at'[u] \in {"idle", "lock"}
         /\ \A u \in Thread : at'[u] # "idle" => u # t /\ at[u] = at'[u]
<1> USE DEF RpcInv
<1>1. at' = [at EXCEPT ![t] = "idle"] /\ at \in [Thread -> CallState]
  BY DEF Leave, RpcTypeOK
<1>2. result' \in [Thread -> Result]
  BY DEF Leave, RpcTypeOK, Result
<1>3. \A u \in Thread \ {t} : at[u] \in {"idle", "lock"}
  BY DEF Locked
<1> QED BY <1>1, <1>2, <1>3 DEF Leave, CallState

LEMMA LeaveCounted ==
  ASSUME RpcInv, NEW t \in Thread, at[t] # "idle", mutex \in {t, NoThread},
         NEW r \in Result, Leave(t, r), failed' \in BOOLEAN, matched', inbox' = inbox
  PROVE  Counted'
<1> USE DEF RpcInv
<1>1. /\ returned' = returned \union {ids[t]} /\ ids[t] \in invoked
      /\ UNCHANGED <<ids, calls, invoked, executed>>
  BY DEF Leave, Counted
<1>2. \A u \in Thread : at'[u] # "idle" => u # t /\ at[u] = at'[u]
  BY LeaveFacts
<1>3. \A u \in Thread : at'[u] # "idle" => ids[u] # ids[t]
  BY <1>2 DEF Counted
<1>4. \A c \in executed' : c \in returned'
  BY <1>1 DEF Counted
<1>5. inbox' # NoRequest => inbox'.id \in invoked' /\ inbox'.id \notin executed' /\ inbox'.id \in returned'
  BY <1>1 DEF Counted
<1>6. \A u \in Thread : at'[u] # "idle" => ids'[u] \in invoked' /\ ids'[u] \notin returned'
  BY <1>1, <1>2, <1>3 DEF Counted
<1>7. \A u, w \in Thread : u # w /\ at'[u] # "idle" /\ at'[w] # "idle" => ids'[u] # ids'[w]
  BY <1>1, <1>2 DEF Counted
<1>8. \A u \in Thread : at'[u] \in {"lock", "write"} => ids'[u] \notin executed'
  BY <1>1, <1>2 DEF Counted
<1>9. invoked' = 1..calls' /\ executed' \subseteq invoked' /\ returned' \subseteq invoked'
  BY <1>1 DEF Counted
<1> QED BY <1>4, <1>5, <1>6, <1>7, <1>8, <1>9 DEF Counted

(* A call that fails closes the pipe, and with it all that is under way.   *)
LEMMA FailInv ==
  ASSUME RpcInv, NEW t \in Thread, at[t] \notin {"idle", "lock"},
         NEW r \in Result \ {"ok"}, Fail(t, r)
  PROVE  RpcInv'
<1> USE DEF RpcInv
<1>1. Leave(t, r) /\ pipe' = "closed" /\ wire' = <<>> /\ failed' = TRUE
      /\ UNCHANGED <<given, timeVars, agent, child, agentHandles, inbox, outQueue, matched>>
  BY DEF Fail
<1>2. mutex = t /\ given[t] = {}
  BY HolderFacts
<1>3. /\ at' = [at EXCEPT ![t] = "idle"] /\ mutex' = NoThread /\ reply' = <<>> /\ local' = {}
      /\ result' \in [Thread -> Result]
      /\ at' \in [Thread -> CallState]
      /\ \A u \in Thread : at'[u] \in {"idle", "lock"}
      /\ \A u \in Thread : at'[u] # "idle" => u # t /\ at[u] = at'[u]
  BY <1>1, <1>2, LeaveFacts
<1>4. UNCHANGED <<freed, op, ids, calls>> /\ result' = [result EXCEPT ![t] = r]
  BY <1>1 DEF Leave
<1>5. RpcTypeOK'
  <2>1. wire' \in Seq(ReplyPart) /\ reply' \in Seq(ReplyPart)
    BY <1>1, <1>3
  <2> QED BY <1>1, <1>3, <1>4, <2>1 DEF RpcTypeOK, Result, ReplyPart, timeVars
<1>6. Locked'
  BY <1>1, <1>3 DEF Locked
<1>7. Counted'
  BY <1>1, <1>2, LeaveCounted DEF Counted
<1>8. InStep'
  BY <1>1, <1>3 DEF InStep
<1>9. Handed'
  BY <1>1, <1>2, <1>3, <1>4 DEF Handed, HandlesAllOrNone, RpcTypeOK
<1> QED BY <1>5, <1>6, <1>7, <1>8, <1>9

(* A call that succeeds has read its own reply to the end, and leaves      *)
(* nothing behind.                                                         *)
LEMMA SucceedInv ==
  ASSUME RpcInv, NEW t \in Thread, at[t] \in {"decode", "steal"},
         NEW r \in {"ok", "createProcessFailed"}, Succeed(t, r), UNCHANGED agentVars,
         agentHandles = {},
         \/ given' = given /\ (op[t].kind # "spawn" \/ r # "ok")
         \/ given' = [given EXCEPT ![t] = local] /\ local = op[t].wants /\ r = "ok"
  PROVE  RpcInv'
<1> USE DEF RpcInv
<1>1. /\ Leave(t, r) /\ UNCHANGED <<pipe, timeVars, failed, agentVars>>
      /\ matched' = (matched /\ \A i \in DOMAIN reply : reply[i].id = ids[t])
  BY DEF Succeed
<1>2. /\ mutex = t /\ given[t] = {} /\ pipe = "open" /\ ~failed
      /\ op[t] \in Op /\ Parts(op[t].kind) \in 1..3
  BY HolderFacts
<1>3. /\ at' = [at EXCEPT ![t] = "idle"] /\ mutex' = NoThread /\ reply' = <<>> /\ local' = {}
      /\ result' \in [Thread -> Result]
      /\ at' \in [Thread -> CallState]
      /\ \A u \in Thread : at'[u] \in {"idle", "lock"}
      /\ \A u \in Thread : at'[u] # "idle" => u # t /\ at[u] = at'[u]
  BY <1>1, <1>2, LeaveFacts DEF Result
<1>4. UNCHANGED <<freed, op, ids, calls>> /\ result' = [result EXCEPT ![t] = r]
  BY <1>1 DEF Leave
<1>5. Exchange(t)
  BY DEF InStep
<1>6. matched'
  BY <1>1, <1>5 DEF Exchange, PartsOf, Counted
<1>7. Quiet
  <2>1. reply \in Seq(ReplyPart) /\ wire \in Seq(ReplyPart) /\ outQueue \in Seq(ReplyPart)
    BY DEF RpcTypeOK, ReplyPart
  <2>2. Len(reply) = Parts(op[t].kind)
        /\ Len(reply) + Len(wire) + Len(outQueue) <= Parts(op[t].kind)
    BY <1>5 DEF Exchange
  <2>3. wire = <<>> /\ outQueue = <<>> /\ reply # <<>>
    BY <1>2, <2>1, <2>2
  <2>4. inbox = NoRequest
    BY <1>5, <2>3 DEF Exchange
  <2> QED BY <2>3, <2>4 DEF Quiet
<1>8. RpcTypeOK'
  <2>1. reply' \in Seq(ReplyPart)
    BY <1>3
  <2>2. given' \in [Thread -> SUBSET Handles]
    BY DEF RpcTypeOK
  <2> QED BY <1>1, <1>3, <1>4, <1>6, <2>1, <2>2 DEF RpcTypeOK, Result, ReplyPart, timeVars,
            agentVars
<1>9. Locked'
  BY <1>1, <1>2, <1>3 DEF Locked
<1>10. Counted'
  BY <1>1, <1>2, <1>6, LeaveCounted DEF Counted, agentVars, Result
<1>11. InStep'
  BY <1>1, <1>3, <1>7 DEF InStep, Quiet, agentVars
<1>12. Handed'
  <2>1. /\ \A u \in Thread \ {t} : given'[u] = given[u]
        /\ given'[t] = IF op[t].kind = "spawn" /\ r = "ok" THEN op[t].wants ELSE {}
    <3>1. CASE given' = given /\ (op[t].kind # "spawn" \/ r # "ok")
      BY <1>2, <3>1
    <3>2. CASE given' = [given EXCEPT ![t] = local] /\ local = op[t].wants /\ r = "ok"
      <4>1. op[t].kind # "spawn" => op[t].wants = {}
        BY <1>2, OpFacts
      <4> QED BY <3>2, <4>1 DEF RpcTypeOK
    <3> QED BY <3>1, <3>2
  <2>2. \A u \in Thread : at'[u] # "idle" => given'[u] = {}
    BY <1>3, <2>1 DEF Handed
  <2>3. ASSUME op[t].kind = "spawn"
        PROVE  given'[t] = IF r = "ok" THEN op[t].wants ELSE {}
    BY <1>2, <2>1, <2>3
  <2>4. \A u \in Thread \ {t} : at'[u] = at[u] /\ result'[u] = result[u] /\ given'[u] = given[u]
    BY <1>3, <1>4, <2>1 DEF RpcTypeOK
  <2>5. result'[t] = r
    BY <1>4 DEF RpcTypeOK
  <2>6. HandlesAllOrNone'
    BY <1>4, <2>3, <2>4, <2>5 DEF Handed, HandlesAllOrNone
  <2> QED BY <2>2, <2>6 DEF Handed
<1> QED BY <1>8, <1>9, <1>10, <1>11, <1>12

----------------------------------------------------------------------------
(* The steps of a call that keep the lock: only the place of the holder    *)
(* and what the two processes have under way change.                       *)
LEMMA HolderInv ==
  ASSUME RpcInv, RpcTypeOK', NEW t \in Thread, at[t] \notin {"idle", "lock"},
         NEW p \in CallState \ {"idle", "lock", "write"}, at' = [at EXCEPT ![t] = p],
         UNCHANGED <<pipe, freed, mutex, op, ids, result, given, historyVars>>,
         inbox' \in {inbox, NoRequest, [id |-> ids[t], op |-> op[t]]},
         at[t] = "write" \/ inbox' \in {inbox, NoRequest},
         Exchange(t)'
  PROVE  RpcInv'
<1> USE DEF RpcInv, historyVars
<1>1. /\ mutex = t /\ mutex # NoThread /\ pipe = "open" /\ ~failed
      /\ ids[t] \in invoked /\ ids[t] \notin returned
      /\ given[t] = {}
      /\ \A u \in Thread \ {t} : at[u] \in {"idle", "lock"}
  BY HolderFacts
<1>2. at'[t] = p /\ \A u \in Thread \ {t} : at'[u] = at[u]
  BY DEF RpcTypeOK
<1>3. Locked'
  BY <1>1, <1>2 DEF Locked
<1>4. Counted'
  <2>1. \A u \in Thread : (at'[u] # "idle" <=> at[u] # "idle") /\ (at'[u] = "lock" => at[u] = "lock")
        /\ at'[u] # "write"
    BY <1>1, <1>2
  <2>2. at[t] = "write" => ids[t] \notin executed
    BY DEF Counted
  <2>3. inbox' # NoRequest =>
          /\ inbox'.id \in invoked' /\ inbox'.id \notin executed'
          /\ inbox'.id \in returned' \/ (mutex' # NoThread /\ inbox'.id = ids'[mutex'])
    <3>1. CASE inbox' \in {inbox, NoRequest}
      BY <3>1 DEF Counted
    <3>2. CASE inbox' = [id |-> ids[t], op |-> op[t]] /\ at[t] = "write"
      BY <1>1, <2>2, <3>2
    <3> QED BY <3>1, <3>2
  <2>4. \A u \in Thread : at'[u] # "idle" => ids'[u] \in invoked' /\ ids'[u] \notin returned'
    BY <2>1 DEF Counted
  <2>5. \A u, w \in Thread : u # w /\ at'[u] # "idle" /\ at'[w] # "idle" => ids'[u] # ids'[w]
    BY <2>1 DEF Counted
  <2>6. \A u \in Thread : at'[u] \in {"lock", "write"} => ids'[u] \notin executed'
    BY <2>1 DEF Counted
  <2> QED BY <2>3, <2>4, <2>5, <2>6 DEF Counted
<1>5. InStep'
  BY <1>1, <1>2 DEF InStep
<1>6. Handed'
  BY <1>1, <1>2 DEF Handed, HandlesAllOrNone
<1> QED BY <1>3, <1>4, <1>5, <1>6

LEMMA StartCallInv ==
  ASSUME RpcInv, NEW t \in Thread, NEW o \in Op, StartCall(t, o)
  PROVE  RpcInv'
<1> USE DEF RpcInv
<1>1. /\ at[t] = "idle" /\ calls < MaxCalls /\ calls' = calls + 1
      /\ at' = [at EXCEPT ![t] = "lock"] /\ op' = [op EXCEPT ![t] = o]
      /\ ids' = [ids EXCEPT ![t] = calls + 1] /\ given' = [given EXCEPT ![t] = {}]
      /\ invoked' = invoked \union {calls + 1}
      /\ UNCHANGED <<pipe, freed, mutex, result, local, reply, waited, agent, child,
                     agentHandles, inbox, outQueue, wire, executed, returned, failed, matched>>
  BY DEF StartCall, timeVars, agentVars
<1>2. /\ at'[t] = "lock" /\ op'[t] = o /\ ids'[t] = calls + 1 /\ given'[t] = {}
      /\ \A u \in Thread \ {t} : /\ at'[u] = at[u] /\ op'[u] = op[u] /\ ids'[u] = ids[u]
                                 /\ given'[u] = given[u]
  BY <1>1 DEF RpcTypeOK
<1>3. calls \in Nat /\ calls + 1 \in 1..MaxCalls /\ invoked = 1..calls /\ invoked' = 1..calls'
  BY <1>1 DEF RpcTypeOK, Counted
<1>4. RpcTypeOK'
  <2>1. at' \in [Thread -> CallState] /\ op' \in [Thread -> Op]
    BY <1>1 DEF RpcTypeOK, CallState
  <2>2. ids' \in [Thread -> 0..MaxCalls] /\ calls' \in 0..MaxCalls
    BY <1>1, <1>3 DEF RpcTypeOK
  <2>3. given' \in [Thread -> SUBSET Handles]
    BY <1>1 DEF RpcTypeOK
  <2> QED BY <1>1, <2>1, <2>2, <2>3 DEF RpcTypeOK
<1>5. Locked'
  BY <1>1, <1>2 DEF Locked
<1>6. Counted'
  <2>1. calls + 1 \notin invoked /\ calls + 1 \notin executed /\ calls + 1 \notin returned
    BY <1>3 DEF Counted
  <2>2. \A u \in Thread : at'[u] # "idle" =>
          IF u = t THEN ids'[u] = calls + 1
                   ELSE ids'[u] = ids[u] /\ ids[u] \in invoked /\ ids[u] \notin returned
    BY <1>2 DEF Counted
  <2>3. \A u \in Thread : at'[u] # "idle" => ids'[u] \in invoked' /\ ids'[u] \notin returned'
    BY <1>1, <2>1, <2>2
  <2>4. \A u, w \in Thread : u # w /\ at'[u] # "idle" /\ at'[w] # "idle" => ids'[u] # ids'[w]
    BY <1>2, <2>1, <2>2 DEF Counted
  <2>5. \A u \in Thread : at'[u] \in {"lock", "write"} => ids'[u] \notin executed'
    BY <1>1, <1>2, <2>1 DEF Counted
  <2>6. mutex # t
    BY <1>1 DEF Locked
  <2>7. mutex # NoThread => mutex \in Thread /\ ids'[mutex'] = ids[mutex]
    BY <1>1, <1>2, <2>6 DEF RpcTypeOK
  <2>8. \A c \in executed' : c \in returned' \/ (mutex' # NoThread /\ c = ids'[mutex'])
    BY <1>1, <2>7 DEF Counted
  <2>9. inbox' # NoRequest =>
          /\ inbox'.id \in invoked' /\ inbox'.id \notin executed'
          /\ inbox'.id \in returned' \/ (mutex' # NoThread /\ inbox'.id = ids'[mutex'])
    BY <1>1, <2>7 DEF Counted
  <2>10. executed' \subseteq invoked' /\ returned' \subseteq invoked'
    BY <1>1 DEF Counted
  <2> QED BY <1>1, <1>3, <2>3, <2>4, <2>5, <2>8, <2>9, <2>10 DEF Counted
<1>7. InStep'
  <2>1. ASSUME NEW u \in Thread, at'[u] \notin {"idle", "lock", "write"} PROVE Exchange(u)'
    <3>1. u # t /\ at[u] = at'[u] /\ Exchange(u)
      BY <1>2, <2>1 DEF InStep
    <3>2. op'[u] = op[u] /\ ids'[u] = ids[u]
      BY <1>2, <3>1
    <3> QED BY <1>1, <3>1, <3>2 DEF Exchange, PartsOf
  <2>2. \A u \in Thread : at'[u] = "write" => at[u] = "write"
    BY <1>2
  <2> QED BY <1>1, <2>1, <2>2 DEF InStep, Quiet
<1>8. Handed'
  BY <1>1, <1>2 DEF Handed, HandlesAllOrNone
<1> QED BY <1>4, <1>5, <1>6, <1>7, <1>8

LEMMA AcquireInv ==
  ASSUME RpcInv, NEW t \in Thread, Acquire(t)
  PROVE  RpcInv'
<1> USE DEF RpcInv
<1>1. at[t] = "lock" /\ mutex = NoThread /\ given[t] = {} /\ reply = <<>> /\ local = {}
  BY DEF Acquire, Handed, InStep
<1>2. ASSUME pipe = "closed", Leave(t, "shutDown"), failed' = TRUE,
             UNCHANGED <<pipe, given, timeVars, agentVars, matched>>
      PROVE  RpcInv'
  <2>1. "shutDown" \in Result
    BY DEF Result
  <2>2. /\ at' = [at EXCEPT ![t] = "idle"] /\ mutex' = NoThread /\ reply' = <<>> /\ local' = {}
        /\ result' \in [Thread -> Result] /\ at' \in [Thread -> CallState]
        /\ \A u \in Thread : at'[u] \in {"idle", "lock"}
        /\ \A u \in Thread : at'[u] # "idle" => u # t /\ at[u] = at'[u]
    BY <1>1, <1>2, <2>1, LeaveFacts
  <2>3. UNCHANGED <<freed, op, ids, calls>> /\ result' = [result EXCEPT ![t] = "shutDown"]
    BY <1>2 DEF Leave
  <2>4. RpcTypeOK'
    <3>1. reply' \in Seq(ReplyPart)
      BY <2>2
    <3> QED BY <1>2, <2>2, <2>3, <3>1 DEF RpcTypeOK, timeVars, agentVars
  <2>5. Locked'
    BY <1>2, <2>2 DEF Locked
  <2>6. Counted'
    BY <1>1, <1>2, <2>1, LeaveCounted DEF Counted, agentVars
  <2>7. InStep'
    BY <1>2, <2>2 DEF InStep
  <2>8. Handed'
    BY <1>1, <1>2, <2>2, <2>3 DEF Handed, HandlesAllOrNone, RpcTypeOK
  <2> QED BY <2>4, <2>5, <2>6, <2>7, <2>8
<1>3. ASSUME pipe = "open", mutex' = t, at' = [at EXCEPT ![t] = "write"],
             UNCHANGED <<pipe, freed, op, ids, result, given, local, reply, waited, agentVars,
                         historyVars>>
      PROVE  RpcInv'
  <2>1. at'[t] = "write" /\ \A u \in Thread \ {t} : at'[u] = at[u] /\ at[u] \in {"idle", "lock"}
    BY <1>1, <1>3 DEF RpcTypeOK, Locked
  <2>2. t # NoThread
    OBVIOUS
  <2>3. RpcTypeOK'
    <3>1. at' \in [Thread -> CallState]
      BY <1>3 DEF RpcTypeOK, CallState
    <3> QED BY <1>3, <3>1 DEF RpcTypeOK, agentVars, historyVars
  <2>4. Locked'
    BY <1>3, <2>1, <2>2 DEF Locked, historyVars
  <2>5. Counted'
    <3>1. \A u \in Thread : (at'[u] # "idle" <=> at[u] # "idle")
                            /\ (at'[u] \in {"lock", "write"} => at[u] = "lock")
      BY <1>1, <2>1
    <3> QED BY <1>1, <1>3, <3>1 DEF Counted, agentVars, historyVars
  <2>6. InStep'
    BY <1>1, <1>3, <2>1, <2>2 DEF InStep, Quiet, agentVars
  <2>7. Handed'
    BY <1>1, <1>3, <2>1 DEF Handed, HandlesAllOrNone
  <2> QED BY <2>3, <2>4, <2>5, <2>6, <2>7
<1> QED BY <1>2, <1>3 DEF Acquire

LEMMA WriteRequestInv ==
  ASSUME RpcInv, NEW t \in Thread, WriteRequest(t)
  PROVE  RpcInv'
<1> USE DEF RpcInv
<1> DEFINE p == IF op[t].kind = "spawn" THEN "writing" ELSE "reading"
<1>1. /\ at[t] = "write" /\ at' = [at EXCEPT ![t] = p] /\ waited' = 0
      /\ inbox' = [id |-> ids[t], op |-> op[t]]
      /\ UNCHANGED <<pipe, freed, mutex, op, ids, result, given, local, reply,
                     agent, child, agentHandles, outQueue, wire, historyVars>>
  BY DEF WriteRequest
<1>2. p \in CallState \ {"idle", "lock", "write", "decode", "steal"}
  BY DEF CallState
<1>3. Quiet /\ reply = <<>> /\ local = {}
  BY <1>1 DEF InStep
<1>4. op[t] \in Op /\ ids[t] \in 1..MaxCalls /\ Parts(op[t].kind) \in 1..3
  BY <1>1, HolderFacts
<1>5. RpcTypeOK'
  <2>1. at' \in [Thread -> CallState]
    BY <1>1, <1>2 DEF RpcTypeOK
  <2>2. inbox' \in [id : 0..MaxCalls, op : Op]
    BY <1>1, <1>4
  <2> QED BY <1>1, <2>1, <2>2 DEF RpcTypeOK, historyVars
<1>6. at'[t] = p
  BY <1>1 DEF RpcTypeOK
<1> HIDE DEF p
<1>7. Exchange(t)'
  BY <1>1, <1>2, <1>3, <1>4, <1>6 DEF Exchange, PartsOf, Quiet
<1> QED BY <1>1, <1>2, <1>5, <1>7, HolderInv

LEMMA WriteDoneInv ==
  ASSUME RpcInv, NEW t \in Thread, WriteDone(t)
  PROVE  RpcInv'
<1> USE DEF RpcInv
<1>1. /\ at[t] = "writing" /\ at' = [at EXCEPT ![t] = "reading"] /\ waited' = 0
      /\ UNCHANGED <<pipe, freed, mutex, op, ids, result, given, local, reply,
                     agentVars, historyVars>>
  BY DEF WriteDone
<1>2. RpcTypeOK'
  <2>1. at' \in [Thread -> CallState]
    BY <1>1 DEF RpcTypeOK, CallState
  <2> QED BY <1>1, <2>1 DEF RpcTypeOK, historyVars, agentVars
<1>3. Exchange(t) /\ at'[t] = "reading"
  BY <1>1 DEF InStep, RpcTypeOK
<1>4. Exchange(t)'
  BY <1>1, <1>3 DEF Exchange, PartsOf, agentVars, historyVars
<1>5. "reading" \in CallState \ {"idle", "lock", "write"}
  BY DEF CallState
<1> QED BY <1>1, <1>2, <1>4, <1>5, HolderInv DEF agentVars

LEMMA WaitTimesOutInv ==
  ASSUME RpcInv, NEW t \in Thread, WaitTimesOut(t)
  PROVE  RpcInv'
<1> USE DEF RpcInv
<1>1. /\ at[t] \in {"writing", "reading"} /\ at' = [at EXCEPT ![t] = "cancel"]
      /\ UNCHANGED <<pipe, freed, mutex, op, ids, result, given, local, reply, timeVars,
                     agentVars, historyVars>>
  BY DEF WaitTimesOut, Blocked
<1>2. RpcTypeOK'
  <2>1. at' \in [Thread -> CallState]
    BY <1>1 DEF RpcTypeOK, CallState
  <2> QED BY <1>1, <2>1 DEF RpcTypeOK, historyVars, agentVars, timeVars
<1>3. Exchange(t) /\ at'[t] = "cancel"
  BY <1>1 DEF InStep, RpcTypeOK
<1>4. Exchange(t)'
  BY <1>1, <1>3 DEF Exchange, PartsOf, agentVars, historyVars
<1>5. "cancel" \in CallState \ {"idle", "lock", "write"}
  BY DEF CallState
<1> QED BY <1>1, <1>2, <1>4, <1>5, HolderInv DEF agentVars

LEMMA AppendHead ==
  ASSUME NEW S, NEW r \in Seq(S), NEW w \in Seq(S), w # <<>>
  PROVE  /\ Append(r, Head(w)) \in Seq(S) /\ Tail(w) \in Seq(S) /\ Head(w) = w[1]
         /\ Len(Append(r, Head(w))) = Len(r) + 1 /\ Len(Tail(w)) = Len(w) - 1
         /\ Len(r) \in Nat /\ Len(w) \in Nat \ {0}
         /\ \A i \in DOMAIN Append(r, Head(w)) :
              Append(r, Head(w))[i] = IF i = Len(r) + 1 THEN w[1] ELSE r[i]
         /\ \A i \in DOMAIN Append(r, Head(w)) : i # Len(r) + 1 => i \in DOMAIN r
         /\ \A i \in DOMAIN Tail(w) : i + 1 \in DOMAIN w /\ Tail(w)[i] = w[i + 1]
         /\ 1 \in DOMAIN w
<1>1. Len(w) # 0
  OBVIOUS
<1> QED BY <1>1

LEMMA ReadPartInv ==
  ASSUME RpcInv, NEW t \in Thread, ReadPart(t)
  PROVE  RpcInv'
<1> USE DEF RpcInv
<1> DEFINE p == IF Head(wire).last THEN "decode" ELSE "reading"
<1>1. /\ at[t] = "reading" /\ at' = [at EXCEPT ![t] = p] /\ waited' = 0 /\ wire # <<>>
      /\ reply' = Append(reply, Head(wire)) /\ wire' = Tail(wire)
      /\ UNCHANGED <<pipe, freed, mutex, op, ids, result, given, local,
                     agent, child, agentHandles, inbox, outQueue, historyVars>>
  BY DEF ReadPart
<1>2. p \in CallState \ {"idle", "lock", "write", "steal"}
  BY DEF CallState
<1>3. reply \in Seq(ReplyPart) /\ wire \in Seq(ReplyPart) /\ outQueue \in Seq(ReplyPart)
  BY DEF RpcTypeOK
<1>4. /\ reply' \in Seq(ReplyPart) /\ wire' \in Seq(ReplyPart) /\ Head(wire) = wire[1]
      /\ Len(reply') = Len(reply) + 1 /\ Len(wire') = Len(wire) - 1
      /\ Len(reply) \in Nat /\ Len(wire) \in Nat \ {0}
      /\ \A i \in DOMAIN reply' : reply'[i] = IF i = Len(reply) + 1 THEN wire[1] ELSE reply[i]
      /\ \A i \in DOMAIN reply' : i # Len(reply) + 1 => i \in DOMAIN reply
      /\ \A i \in DOMAIN wire' : i + 1 \in DOMAIN wire /\ wire'[i] = wire[i + 1]
      /\ 1 \in DOMAIN wire
  BY <1>1, <1>3, AppendHead
<1>5. at'[t] = p /\ Exchange(t)
  BY <1>1 DEF InStep, RpcTypeOK
<1>6. /\ wire[1].id = ids[t]
      /\ wire[1].created \/ agentHandles = {}
      /\ wire[1].last <=> Len(reply) + 1 = Parts(op[t].kind)
  BY <1>4, <1>5 DEF Exchange, PartsOf
<1>7. Parts(op[t].kind) \in 1..3
  BY <1>1, HolderFacts
<1>8. p = "decode" => Len(reply') = Parts(op[t].kind)
  BY <1>4, <1>6
<1> HIDE DEF p
<1>9. RpcTypeOK'
  <2>1. at' \in [Thread -> CallState]
    BY <1>1, <1>2 DEF RpcTypeOK
  <2> QED BY <1>1, <1>4, <2>1 DEF RpcTypeOK, historyVars
<1>10. Exchange(t)'
  <2>1. PartsOf(t, reply, 0)'
    <3>1. \A i \in DOMAIN reply' : reply'[i].last <=> 0 + i = Parts(op'[t].kind)
      BY <1>1, <1>4, <1>5, <1>6 DEF Exchange, PartsOf
    <3>2. \A i \in DOMAIN reply' : reply'[i].id = ids'[t] /\ (reply'[i].created \/ agentHandles' = {})
      BY <1>1, <1>4, <1>5, <1>6 DEF Exchange, PartsOf
    <3> QED BY <3>1, <3>2 DEF PartsOf
  <2>2. PartsOf(t, wire, Len(reply))'
    <3>1. ASSUME NEW i \in DOMAIN wire'
          PROVE  /\ wire'[i].id = ids'[t] /\ (wire'[i].created \/ agentHandles' = {})
                 /\ wire'[i].last <=> Len(reply') + i = Parts(op'[t].kind)
      <4>1. i \in Int
        BY <1>4
      <4>2. \A n, m \in Int : n + (m + 1) = (n + 1) + m
        OBVIOUS
      <4>3. Len(reply) + (i + 1) = Len(reply') + i
        BY <1>4, <4>1, <4>2
      <4> QED BY <1>1, <1>4, <1>5, <4>3 DEF Exchange, PartsOf
    <3> QED BY <3>1 DEF PartsOf
  <2>3. PartsOf(t, outQueue, Len(reply) + Len(wire))'
    <3>1. Len(reply') + Len(wire') = Len(reply) + Len(wire)
      BY <1>4
    <3> QED BY <1>1, <1>5, <3>1 DEF Exchange, PartsOf
  <2>4. Len(reply') + Len(wire') + Len(outQueue') <= Parts(op'[t].kind)
    BY <1>1, <1>3, <1>4, <1>5, <1>7 DEF Exchange
  <2>5. inbox' = NoRequest
    BY <1>1, <1>5 DEF Exchange
  <2>6. ids'[t] \in executed'
    BY <1>1, <1>5 DEF Exchange, historyVars
  <2>7. local' = {} /\ agentHandles' \subseteq op'[t].wants
    BY <1>1, <1>5 DEF Exchange
  <2> QED BY <1>1, <1>2, <1>5, <1>8, <2>1, <2>2, <2>3, <2>4, <2>5, <2>6, <2>7 DEF Exchange
<1> QED BY <1>1, <1>2, <1>9, <1>10, HolderInv

(* What the agent duplicated for the call is still to be stolen.           *)
LEMMA DecodeFacts ==
  ASSUME RpcInv, NEW t \in Thread, at[t] = "decode"
  PROVE  /\ op[t].kind # "spawn" => agentHandles = {}
         /\ ~Answer.created => agentHandles = {}
         /\ Exchange(t)
<1> USE DEF RpcInv
<1>1. Exchange(t) /\ op[t] \in Op /\ Parts(op[t].kind) \in 1..3 /\ reply \in Seq(ReplyPart)
  BY HolderFacts DEF InStep, RpcTypeOK
<1>2. Len(reply) \in DOMAIN reply
  BY <1>1 DEF Exchange
<1>3. op[t].kind # "spawn" => agentHandles = {}
  BY <1>1, OpFacts DEF Exchange
<1>4. ~Answer.created => agentHandles = {}
  BY <1>1, <1>2 DEF Exchange, PartsOf, Answer
<1> QED BY <1>1, <1>3, <1>4

LEMMA DecodeInv ==
  ASSUME RpcInv, NEW t \in Thread, DecodeSize(t) \/ DecodeList(t) \/ DecodeSpawn(t)
  PROVE  RpcInv'
<1>1. CASE DecodeSize(t)
  <2>1. at[t] = "decode" /\ op[t].kind # "spawn" /\ Succeed(t, "ok")
        /\ UNCHANGED <<given, agentVars>>
    BY <1>1 DEF DecodeSize
  <2>2. agentHandles = {}
    BY <2>1, DecodeFacts
  <2> QED BY <2>1, <2>2, SucceedInv
<1>2. CASE DecodeList(t)
  <2>1. at[t] = "decode" /\ op[t].kind # "spawn"
    BY <1>2 DEF DecodeList
  <2>2. agentHandles = {}
    BY <2>1, DecodeFacts
  <2>3. "badPacket" \in Result \ {"ok"}
    BY DEF Result
  <2>4. CASE Succeed(t, "ok") /\ UNCHANGED <<given, agentVars>>
    BY <2>1, <2>2, <2>4, SucceedInv
  <2>5. CASE Fail(t, "badPacket")
    BY <2>1, <2>3, <2>5, FailInv
  <2> QED BY <1>2, <2>4, <2>5 DEF DecodeList
<1>3. CASE DecodeSpawn(t)
  <2>1. at[t] = "decode" /\ op[t].kind = "spawn"
    BY <1>3 DEF DecodeSpawn
  <2>2. CASE ~Answer.created /\ Succeed(t, "createProcessFailed") /\ UNCHANGED <<given, agentVars>>
    <3>1. agentHandles = {}
      BY <2>1, <2>2, DecodeFacts
    <3> QED BY <2>1, <2>2, <3>1, SucceedInv
  <2>3. CASE /\ at' = [at EXCEPT ![t] = "steal"]
             /\ UNCHANGED <<pipe, freed, mutex, op, ids, result, given, local, reply,
                            timeVars, agentVars, historyVars>>
    <3>1. "steal" \in CallState \ {"idle", "lock", "write"}
      BY DEF CallState
    <3>2. RpcTypeOK'
      <4>1. at' \in [Thread -> CallState]
        BY <2>3, <3>1 DEF RpcInv, RpcTypeOK
      <4> QED BY <2>3, <4>1 DEF RpcInv, RpcTypeOK, timeVars, agentVars, historyVars
    <3>3. Exchange(t) /\ at'[t] = "steal"
      BY <2>1, <2>3, DecodeFacts DEF RpcInv, RpcTypeOK
    <3>4. Exchange(t)'
      BY <2>1, <2>3, <3>3 DEF Exchange, PartsOf, agentVars, historyVars
    <3> QED BY <2>1, <2>3, <3>1, <3>2, <3>4, HolderInv DEF agentVars
  <2> QED BY <1>3, <2>2, <2>3 DEF DecodeSpawn
<1> QED BY <1>1, <1>2, <1>3

LEMMA stealHandleInv ==
  ASSUME RpcInv, NEW t \in Thread, stealHandle(t)
  PROVE  RpcInv'
<1>1. at[t] = "steal" /\ op[t].wants \ local # {}
  BY DEF stealHandle
<1>2. CASE /\ local' = local \union {NextHandle(t)}
           /\ agentHandles' = agentHandles \ {NextHandle(t)}
           /\ UNCHANGED <<pipe, freed, mutex, at, op, ids, result, given, reply,
                          timeVars, agent, child, inbox, outQueue, wire, historyVars>>
  <2>1. Exchange(t) /\ op[t] \in Op /\ op[t].wants \subseteq Handles
    BY <1>1, HolderFacts, OpFacts DEF RpcInv, InStep
  <2>2. NextHandle(t) \in op[t].wants \ local
    BY <1>1, <2>1 DEF NextHandle, Handles
  <2>3. RpcTypeOK'
    <3>1. local' \subseteq Handles /\ agentHandles' \subseteq Handles
      BY <1>2, <2>1, <2>2 DEF RpcInv, RpcTypeOK
    <3> QED BY <1>2, <3>1 DEF RpcInv, RpcTypeOK, timeVars, historyVars
  <2>4. at' = [at EXCEPT ![t] = "steal"]
    BY <1>1, <1>2 DEF RpcInv, RpcTypeOK
  <2>5. Exchange(t)'
    <3>1. PartsOf(t, reply, 0)' /\ PartsOf(t, wire, Len(reply))'
          /\ PartsOf(t, outQueue, Len(reply) + Len(wire))'
      BY <1>2, <2>1 DEF Exchange, PartsOf
    <3>2. local' \subseteq op'[t].wants /\ agentHandles' \subseteq op'[t].wants \ local'
      BY <1>2, <2>1, <2>2 DEF Exchange
    <3>3. inbox' # NoRequest =>
            reply' = <<>> /\ wire' = <<>> /\ outQueue' = <<>> /\ agentHandles' = {}
      BY <1>2, <2>1 DEF Exchange
    <3> QED BY <1>1, <1>2, <2>1, <3>1, <3>2, <3>3 DEF Exchange, historyVars
  <2>6. "steal" \in CallState \ {"idle", "lock", "write"}
    BY DEF CallState
  <2> QED BY <1>1, <1>2, <2>3, <2>4, <2>5, <2>6, HolderInv
<1>3. CASE Fail(t, "osError")
  <2>1. "osError" \in Result \ {"ok"}
    BY DEF Result
  <2> QED BY <1>1, <1>3, <2>1, FailInv
<1> QED BY <1>2, <1>3 DEF stealHandle

LEMMA ReleaseHandlesInv ==
  ASSUME RpcInv, NEW t \in Thread, ReleaseHandles(t)
  PROVE  RpcInv'
<1>1. /\ at[t] = "steal" /\ op[t].wants \ local = {} /\ given' = [given EXCEPT ![t] = local]
      /\ Succeed(t, "ok") /\ UNCHANGED agentVars
  BY DEF ReleaseHandles
<1>2. Exchange(t)
  BY <1>1 DEF RpcInv, InStep
<1>3. local = op[t].wants /\ agentHandles = {}
  BY <1>1, <1>2 DEF Exchange
<1> QED BY <1>1, <1>3, SucceedInv

LEMMA FailedInv ==
  ASSUME RpcInv, NEW t \in Thread, AgentGone(t) \/ CancelTimedOut(t)
  PROVE  RpcInv'
<1>1. \E r \in Result \ {"ok"} : at[t] \notin {"idle", "lock"} /\ Fail(t, r)
  BY DEF AgentGone, Blocked, CancelTimedOut, Result
<1> QED BY <1>1, FailInv

LEMMA FreeInv ==
  ASSUME RpcInv, vt7pty_free
  PROVE  RpcInv'
<1> USE DEF RpcInv
<1>1. /\ \A t \in Thread : at[t] = "idle"
      /\ freed' = TRUE /\ pipe' = "closed" /\ wire' = <<>>
      /\ UNCHANGED <<mutex, at, op, ids, result, given, local, reply, timeVars, agent,
                     child, agentHandles, inbox, outQueue, historyVars>>
  BY DEF vt7pty_free
<1>2. mutex = NoThread
  BY <1>1 DEF Locked, RpcTypeOK
<1>3. RpcTypeOK'
  <2>1. wire' \in Seq(ReplyPart)
    BY <1>1
  <2> QED BY <1>1, <2>1 DEF RpcTypeOK, timeVars, historyVars
<1>4. Locked'
  BY <1>1, <1>2 DEF Locked
<1>5. Counted'
  BY <1>1 DEF Counted, historyVars
<1>6. InStep'
  BY <1>1, <1>2 DEF InStep
<1>7. Handed'
  BY <1>1 DEF Handed, HandlesAllOrNone
<1> QED BY <1>3, <1>4, <1>5, <1>6, <1>7

----------------------------------------------------------------------------
(* The agent's steps leave the library alone.                              *)
LEMMA AgentInv ==
  ASSUME RpcInv, RpcTypeOK', UNCHANGED <<libVars, historyVars, inbox>>, Quiet => Quiet',
         \A t \in Thread : at[t] \notin {"idle", "lock", "write"} /\ Exchange(t) => Exchange(t)'
  PROVE  RpcInv'
<1> USE DEF RpcInv, libVars, historyVars
<1>1. Locked'
  BY DEF Locked
<1>2. Counted'
  BY DEF Counted
<1>3. InStep'
  BY DEF InStep
<1>4. Handed'
  BY DEF Handed, HandlesAllOrNone
<1> QED BY <1>1, <1>2, <1>3, <1>4

LEMMA FlushReplyInv ==
  ASSUME RpcInv, FlushReply
  PROVE  RpcInv'
<1> USE DEF RpcInv
<1>1. /\ outQueue # <<>> /\ wire' = Append(wire, Head(outQueue)) /\ outQueue' = Tail(outQueue)
      /\ UNCHANGED <<libVars, timeVars, agent, child, agentHandles, inbox, historyVars>>
  BY DEF FlushReply
<1>2. reply \in Seq(ReplyPart) /\ wire \in Seq(ReplyPart) /\ outQueue \in Seq(ReplyPart)
  BY DEF RpcTypeOK
<1>3. /\ wire' \in Seq(ReplyPart) /\ outQueue' \in Seq(ReplyPart)
      /\ Len(wire') = Len(wire) + 1 /\ Len(outQueue') = Len(outQueue) - 1
      /\ Len(wire) \in Nat /\ Len(outQueue) \in Nat \ {0}
      /\ \A i \in DOMAIN wire' : wire'[i] = IF i = Len(wire) + 1 THEN outQueue[1] ELSE wire[i]
      /\ \A i \in DOMAIN wire' : i # Len(wire) + 1 => i \in DOMAIN wire
      /\ \A i \in DOMAIN outQueue' : i + 1 \in DOMAIN outQueue /\ outQueue'[i] = outQueue[i + 1]
      /\ 1 \in DOMAIN outQueue
  BY <1>1, <1>2, AppendHead
<1>4. RpcTypeOK'
  BY <1>1, <1>3 DEF RpcTypeOK, libVars, timeVars, historyVars
<1>5. ASSUME NEW t \in Thread, Exchange(t) PROVE Exchange(t)'
  <2>1. UNCHANGED <<at, op, ids, reply, local, agentHandles, inbox, executed>>
    BY <1>1 DEF libVars, historyVars
  <2>2. Len(reply) \in Nat
    BY <1>2
  <2>3. PartsOf(t, wire, Len(reply))'
    <3>1. ASSUME NEW i \in DOMAIN wire'
          PROVE  /\ wire'[i].id = ids'[t] /\ (wire'[i].created \/ agentHandles' = {})
                 /\ wire'[i].last <=> Len(reply') + i = Parts(op'[t].kind)
      <4>1. CASE i = Len(wire) + 1
        <5>1. Len(reply) + Len(wire) + 1 = Len(reply') + i
          BY <1>3, <2>1, <2>2, <4>1
        <5>2. /\ outQueue[1].id = ids[t] /\ (outQueue[1].created \/ agentHandles = {})
              /\ outQueue[1].last <=> Len(reply) + Len(wire) + 1 = Parts(op[t].kind)
          BY <1>3, <1>5 DEF Exchange, PartsOf
        <5>3. wire'[i] = outQueue[1]
          BY <1>3, <4>1
        <5> QED BY <2>1, <5>1, <5>2, <5>3
      <4>2. CASE i # Len(wire) + 1
        BY <1>3, <1>5, <2>1, <4>2 DEF Exchange, PartsOf
      <4> QED BY <4>1, <4>2
    <3> QED BY <3>1 DEF PartsOf
  <2>4. PartsOf(t, outQueue, Len(reply) + Len(wire))'
    <3>1. ASSUME NEW i \in DOMAIN outQueue'
          PROVE  /\ outQueue'[i].id = ids'[t] /\ (outQueue'[i].created \/ agentHandles' = {})
                 /\ outQueue'[i].last <=> Len(reply') + Len(wire') + i = Parts(op'[t].kind)
      <4>1. i \in Int
        BY <1>3
      <4>2. \A k, n, m \in Int : k + n + (m + 1) = k + (n + 1) + m
        OBVIOUS
      <4>3. Len(reply) + Len(wire) + (i + 1) = Len(reply) + (Len(wire) + 1) + i
        BY <1>3, <2>2, <4>1, <4>2
      <4>4. Len(reply') + Len(wire') = Len(reply) + (Len(wire) + 1)
        BY <1>3, <2>1
      <4>5. i + 1 \in DOMAIN outQueue /\ outQueue'[i] = outQueue[i + 1]
        BY <1>3
      <4>6. /\ outQueue[i + 1].id = ids[t] /\ (outQueue[i + 1].created \/ agentHandles = {})
            /\ outQueue[i + 1].last <=> Len(reply) + Len(wire) + (i + 1) = Parts(op[t].kind)
        BY <1>5, <4>5 DEF Exchange, PartsOf
      <4> QED BY <2>1, <4>3, <4>4, <4>5, <4>6
    <3> QED BY <3>1 DEF PartsOf
  <2>5. Len(reply') + Len(wire') + Len(outQueue') = Len(reply) + Len(wire) + Len(outQueue)
    BY <1>3, <2>1, <2>2
  <2>6. inbox' = NoRequest
    BY <1>1, <1>5, <2>1 DEF Exchange
  <2> QED BY <1>1, <1>5, <2>1, <2>3, <2>4, <2>5, <2>6 DEF Exchange, PartsOf
<1>6. ~Quiet
  BY <1>1 DEF Quiet
<1> QED BY <1>1, <1>4, <1>5, <1>6, AgentInv

LEMMA AgentExitInv ==
  ASSUME RpcInv, AgentExit
  PROVE  RpcInv'
<1> USE DEF RpcInv
<1>1. /\ agent' = "dead" /\ agentHandles' = {} /\ outQueue' = <<>>
      /\ UNCHANGED <<libVars, timeVars, child, inbox, wire, historyVars>>
  BY DEF AgentExit, Die
<1>2. RpcTypeOK'
  <2>1. outQueue' \in Seq(ReplyPart)
    BY <1>1
  <2> QED BY <1>1, <2>1 DEF RpcTypeOK, libVars, timeVars, historyVars
<1>3. ASSUME NEW t \in Thread, Exchange(t), at[t] \notin {"idle", "lock", "write"}
      PROVE  Exchange(t)'
  <2>1. UNCHANGED <<at, op, ids, reply, local, inbox, executed, wire>>
    BY <1>1 DEF libVars, historyVars
  <2>2. reply \in Seq(ReplyPart) /\ wire \in Seq(ReplyPart) /\ outQueue \in Seq(ReplyPart)
    BY DEF RpcTypeOK
  <2>3. Parts(op[t].kind) \in 1..3
    BY <1>3, HolderFacts
  <2>4. Len(reply') + Len(wire') + Len(outQueue') <= Parts(op'[t].kind)
    BY <1>1, <1>3, <2>1, <2>2, <2>3 DEF Exchange
  <2>5. PartsOf(t, reply, 0)' /\ PartsOf(t, wire, Len(reply))'
    BY <1>1, <1>3, <2>1 DEF Exchange, PartsOf
  <2>6. PartsOf(t, outQueue, Len(reply) + Len(wire))'
    BY <1>1 DEF PartsOf
  <2> QED BY <1>1, <1>3, <2>1, <2>4, <2>5, <2>6 DEF Exchange
<1>4. Quiet => Quiet'
  BY <1>1 DEF Quiet
<1> QED BY <1>1, <1>2, <1>3, <1>4, AgentInv

LEMMA ReplyFacts ==
  ASSUME NEW q \in [id : 1..MaxCalls, op : Op], NEW created \in BOOLEAN
  PROVE  /\ ReplyTo(q, created) \in Seq(ReplyPart)
         /\ Len(ReplyTo(q, created)) = Parts(q.op.kind)
         /\ \A i \in DOMAIN ReplyTo(q, created) :
              /\ ReplyTo(q, created)[i].id = q.id
              /\ ReplyTo(q, created)[i].last <=> i = Parts(q.op.kind)
              /\ ReplyTo(q, created)[i].created = created
<1> DEFINE n == Parts(q.op.kind)
           s == [i \in 1..n |-> [id |-> q.id, last |-> i = n, created |-> created]]
<1>1. n \in 1..3 /\ q.id \in 1..MaxCalls
  BY OpFacts
<1> HIDE DEF n
<1>2. \A i \in 1..n : [id |-> q.id, last |-> i = n, created |-> created] \in ReplyPart
  BY <1>1 DEF ReplyPart
<1>3. s \in Seq(ReplyPart) /\ Len(s) = n /\ DOMAIN s = 1..n
  BY <1>1, <1>2
<1>4. \A i \in 1..n : s[i].id = q.id /\ (s[i].last <=> i = n) /\ s[i].created = created
  OBVIOUS
<1>5. ReplyTo(q, created) = s
  BY DEF ReplyTo, n
<1> HIDE DEF s
<1> QED BY <1>3, <1>4, <1>5 DEF n

LEMMA HandleRequestInv ==
  ASSUME RpcInv, HandleRequest
  PROVE  RpcInv'
<1> USE DEF RpcInv
<1>1. /\ inbox # NoRequest /\ inbox' = NoRequest /\ agent = "running"
      /\ UNCHANGED <<libVars, timeVars, wire, calls, invoked, returned, failed, matched>>
  BY DEF HandleRequest
<1>2. inbox \in [id : 1..MaxCalls, op : Op] /\ inbox.id \in invoked \ executed
  <2>1. inbox.id \in invoked /\ inbox.id \notin executed
    BY <1>1 DEF Counted
  <2>2. inbox.id \in 1..MaxCalls /\ inbox \in [id : 0..MaxCalls, op : Op]
    BY <2>1 DEF Counted, RpcTypeOK
  <2> QED BY <2>1, <2>2
<1> DEFINE Replied(created) ==
             /\ agent' = agent /\ executed' = executed \union {inbox.id}
             /\ outQueue' = outQueue \o ReplyTo(inbox, created)
             /\ agentHandles' = IF created THEN inbox.op.wants ELSE agentHandles
             /\ child' \in BOOLEAN
           Rejected == /\ agent' = "dead" /\ executed' = executed
                       /\ outQueue' = <<>> /\ agentHandles' = {} /\ child' = child
<1>3. (\E created \in BOOLEAN : Replied(created)) \/ Rejected
  BY DEF HandleRequest, handleStartProcessPacket, handleSetSizePacket,
     handleGetConsoleProcessListPacket, Die, RpcTypeOK
<1>4. RpcTypeOK'
  <2>1. inbox' \in [id : 0..MaxCalls, op : Op]
    BY <1>1, OpFacts DEF NoRequest
  <2>2. CASE Rejected
    <3>1. outQueue' \in Seq(ReplyPart)
      BY <2>2
    <3> QED BY <1>1, <2>1, <2>2, <3>1 DEF RpcTypeOK, libVars, timeVars
  <2>3. ASSUME NEW created \in BOOLEAN, Replied(created) PROVE RpcTypeOK'
    <3>1. outQueue \in Seq(ReplyPart) /\ ReplyTo(inbox, created) \in Seq(ReplyPart)
      BY <1>2, ReplyFacts DEF RpcTypeOK
    <3>2. outQueue' \in Seq(ReplyPart)
      BY <2>3, <3>1
    <3>3. agentHandles' \subseteq Handles
      BY <1>2, <2>3, OpFacts DEF RpcTypeOK
    <3> QED BY <1>1, <2>1, <2>3, <3>2, <3>3 DEF RpcTypeOK, libVars, timeVars
  <2> QED BY <1>3, <2>2, <2>3
<1>5. Locked'
  BY <1>1 DEF Locked, libVars
<1>6. ASSUME mutex # NoThread
      PROVE  /\ at[mutex] \in {"writing", "reading", "cancel"} /\ mutex \in Thread
             /\ Exchange(mutex) /\ inbox = [id |-> ids[mutex], op |-> op[mutex]]
             /\ reply = <<>> /\ wire = <<>> /\ outQueue = <<>> /\ agentHandles = {}
  <2>1. mutex \in Thread /\ at[mutex] \in CallState \ {"idle", "lock"}
    BY <1>6 DEF Locked, RpcTypeOK
  <2>2. at[mutex] # "write"
    BY <1>1, <2>1 DEF InStep, Quiet
  <2>3. Exchange(mutex)
    BY <2>1, <2>2 DEF InStep
  <2>4. inbox = [id |-> ids[mutex], op |-> op[mutex]]
        /\ reply = <<>> /\ wire = <<>> /\ outQueue = <<>> /\ agentHandles = {}
    BY <1>1, <2>3 DEF Exchange
  <2>5. Parts(op[mutex].kind) \in 1..3
    BY <2>1, HolderFacts
  <2>6. at[mutex] \notin {"decode", "steal"}
    BY <2>3, <2>4, <2>5 DEF Exchange
  <2> QED BY <2>1, <2>2, <2>3, <2>4, <2>6 DEF CallState
<1>7. Counted'
  <2>1. executed' \in {executed, executed \union {inbox.id}}
    BY <1>3
  <2>2. UNCHANGED <<invoked, returned, mutex, ids, at, calls, failed, matched>>
    BY <1>1 DEF libVars
  <2>3. inbox.id \in returned \/ (mutex # NoThread /\ inbox.id = ids[mutex])
    BY <1>1 DEF Counted
  <2>4. ASSUME NEW t \in Thread, at[t] \in {"lock", "write"} PROVE ids[t] # inbox.id
    <3>1. ids[t] \notin returned
      BY <2>4 DEF Counted
    <3>2. CASE mutex # NoThread
      BY <1>6, <2>3, <2>4, <3>1, <3>2 DEF Counted
    <3> QED BY <2>3, <3>1, <3>2
  <2>5. \A c \in executed' : c \in returned' \/ (mutex' # NoThread /\ c = ids'[mutex'])
    BY <2>1, <2>2, <2>3 DEF Counted
  <2>6. \A t \in Thread : at'[t] \in {"lock", "write"} => ids'[t] \notin executed'
    BY <2>1, <2>2, <2>4 DEF Counted
  <2>7. executed' \subseteq invoked'
    BY <1>2, <2>1, <2>2 DEF Counted
  <2> QED BY <1>1, <2>2, <2>5, <2>6, <2>7 DEF Counted
<1>8. InStep'
  <2>1. UNCHANGED <<pipe, mutex, at, op, ids, reply, local, wire>>
    BY <1>1 DEF libVars
  <2>2. mutex = NoThread => pipe # "open"
    BY <1>1 DEF InStep, Quiet
  <2>3. \A t \in Thread : at[t] # "write"
    BY <1>1 DEF InStep, Quiet
  <2>4. ASSUME NEW t \in Thread, at[t] \notin {"idle", "lock", "write"} PROVE Exchange(t)'
    <3>1. mutex = t /\ mutex # NoThread
      BY <2>4, HolderFacts
    <3>2. /\ at[t] \in {"writing", "reading", "cancel"}
          /\ Exchange(t) /\ inbox = [id |-> ids[t], op |-> op[t]]
          /\ reply = <<>> /\ wire = <<>> /\ outQueue = <<>> /\ agentHandles = {}
      BY <1>6, <3>1
    <3>3. inbox' = NoRequest /\ reply' = <<>> /\ wire' = <<>> /\ local' = {}
      BY <1>1, <2>1, <3>2 DEF Exchange
    <3>4. Parts(op[t].kind) \in 1..3 /\ op[t] \in Op
      BY <2>4, HolderFacts
    <3>5. CASE Rejected
      BY <2>1, <3>2, <3>3, <3>4, <3>5 DEF Exchange, PartsOf
    <3>6. ASSUME NEW created \in BOOLEAN, Replied(created) PROVE Exchange(t)'
      <4>1. /\ ReplyTo(inbox, created) \in Seq(ReplyPart)
            /\ Len(ReplyTo(inbox, created)) = Parts(op[t].kind)
            /\ \A i \in DOMAIN ReplyTo(inbox, created) :
                 /\ ReplyTo(inbox, created)[i].id = ids[t]
                 /\ ReplyTo(inbox, created)[i].last <=> i = Parts(op[t].kind)
                 /\ ReplyTo(inbox, created)[i].created = created
        BY <1>2, <3>2, ReplyFacts
      <4>2. outQueue' = ReplyTo(inbox, created)
        BY <3>2, <3>6, <4>1
      <4>3. Len(outQueue') = Parts(op[t].kind) /\ DOMAIN outQueue' \subseteq Int
        BY <4>1, <4>2
      <4>4. created \/ agentHandles' = {}
        BY <3>2, <3>6
      <4>5. PartsOf(t, outQueue, Len(reply) + Len(wire))'
        <5>1. Len(reply') + Len(wire') = 0 /\ \A i \in Int : 0 + i = i
          BY <3>3
        <5> QED BY <2>1, <4>1, <4>2, <4>3, <4>4, <5>1 DEF PartsOf
      <4>6. PartsOf(t, reply, 0)' /\ PartsOf(t, wire, Len(reply))'
        BY <3>3 DEF PartsOf
      <4>7. Len(reply') + Len(wire') + Len(outQueue') <= Parts(op'[t].kind)
        BY <2>1, <3>3, <3>4, <4>3
      <4>8. ids'[t] \in executed'
        BY <2>1, <3>2, <3>6
      <4>9. agentHandles' \subseteq op'[t].wants
        BY <2>1, <3>2, <3>6
      <4> QED BY <2>1, <3>2, <3>3, <4>5, <4>6, <4>7, <4>8, <4>9 DEF Exchange
    <3> QED BY <1>3, <3>5, <3>6
  <2> QED BY <2>1, <2>2, <2>3, <2>4 DEF InStep
<1>9. Handed'
  BY <1>1 DEF Handed, HandlesAllOrNone, libVars
<1> QED BY <1>4, <1>5, <1>7, <1>8, <1>9

LEMMA RpcStepInv == RpcInv /\ [RpcNext]_rpcVars => RpcInv'
<1> SUFFICES ASSUME RpcInv, [RpcNext]_rpcVars PROVE RpcInv'
  OBVIOUS
<1>1. ASSUME NEW t \in Thread, CallStep(t) PROVE RpcInv'
  BY <1>1, AcquireInv, WriteRequestInv, WriteDoneInv, ReadPartInv, FailedInv, WaitTimesOutInv,
     DecodeInv, stealHandleInv, ReleaseHandlesInv DEF CallStep
<1>2. ASSUME NEW t \in Thread, NEW o \in Op, StartCall(t, o) PROVE RpcInv'
  BY <1>2, StartCallInv
<1>3. CASE Tick
  <2>1. UNCHANGED <<libVars, agentVars, historyVars>> /\ waited' \in 0..Timeout
    BY <1>3 DEF Tick, RpcInv, RpcTypeOK
  <2>2. RpcTypeOK'
    BY <2>1 DEF RpcInv, RpcTypeOK, libVars, agentVars, historyVars
  <2>3. \A t \in Thread : Exchange(t) => Exchange(t)'
    BY <2>1 DEF Exchange, PartsOf, libVars, agentVars, historyVars
  <2>4. Quiet => Quiet'
    BY <2>1 DEF Quiet, agentVars
  <2> QED BY <2>1, <2>2, <2>3, <2>4, AgentInv DEF agentVars
<1>4. CASE UNCHANGED rpcVars
  <2>1. UNCHANGED <<libVars, waited, agentVars, historyVars>>
    BY <1>4 DEF rpcVars, timeVars
  <2>2. RpcTypeOK'
    BY <2>1 DEF RpcInv, RpcTypeOK, libVars, agentVars, historyVars
  <2>3. \A t \in Thread : Exchange(t) => Exchange(t)'
    BY <2>1 DEF Exchange, PartsOf, libVars, agentVars, historyVars
  <2>4. Quiet => Quiet'
    BY <2>1 DEF Quiet, agentVars
  <2> QED BY <2>1, <2>2, <2>3, <2>4, AgentInv DEF agentVars
<1> QED BY <1>1, <1>2, <1>3, <1>4, FreeInv, HandleRequestInv, FlushReplyInv, AgentExitInv
        DEF RpcNext, Done

THEOREM RpcInvariant == RpcSpec => []RpcInv
<1> QED BY RpcInitInv, RpcStepInv, PTL DEF RpcSpec

(* The types hold, for any number of threads.                              *)
THEOREM RpcTypes == RpcSpec => []RpcTypeOK
<1>1. RpcInv => RpcTypeOK
  BY DEF RpcInv
<1> QED BY <1>1, RpcInvariant, PTL

(* No call ever takes the reply to another one (RpcOperation, readPacket). *)
THEOREM OwnReplies == RpcSpec => []ReplyMatchesRequest
<1>1. RpcInv => ReplyMatchesRequest
  BY DEF RpcInv, Counted, ReplyMatchesRequest
<1> QED BY <1>1, RpcInvariant, PTL

(* Between calls an open pipe is in step (~RpcOperation closes it else).   *)
THEOREM BothSidesInStep == RpcSpec => []NothingLeftBehind
<1>1. RpcInv => NothingLeftBehind
  BY DEF RpcInv, InStep, Quiet, NothingLeftBehind
<1> QED BY <1>1, RpcInvariant, PTL

(* vt7pty_spawn hands over all the handles it was asked for or none.       *)
THEOREM AllHandlesOrNone == RpcSpec => []HandlesAllOrNone
<1>1. RpcInv => HandlesAllOrNone
  BY DEF RpcInv, Handed
<1> QED BY <1>1, RpcInvariant, PTL

----------------------------------------------------------------------------
(* Every step of the library and of the agent is a step of RpcPromise: a   *)
(* request that is handled is an Execute, the end of a call is a Succeed   *)
(* or a Fail, and the rest is not visible.                                 *)
LEMMA LeavePromise ==
  ASSUME RpcInv, NEW t \in Thread, at[t] # "idle", NEW r \in Result
  PROVE  /\ Fail(t, r) => AtomicCalls!Fail(ids[t])
         /\ Succeed(t, r) /\ at[t] \in {"decode", "steal"} => AtomicCalls!Succeed(ids[t])
<1>1. ids[t] \in invoked \ returned
  BY DEF RpcInv, Counted
<1>2. Fail(t, r) => AtomicCalls!Fail(ids[t])
  BY <1>1 DEF Fail, Leave, AtomicCalls!Fail
<1>3. ASSUME at[t] \in {"decode", "steal"}
      PROVE  ~failed /\ ids[t] \in executed
  <2>1. ~failed /\ Parts(op[t].kind) \in 1..3
    BY <1>3, HolderFacts
  <2>2. Exchange(t) /\ reply # <<>>
    BY <1>3, <2>1 DEF RpcInv, InStep, Exchange
  <2> QED BY <2>1, <2>2 DEF Exchange
<1>4. Succeed(t, r) /\ at[t] \in {"decode", "steal"} => AtomicCalls!Succeed(ids[t])
  BY <1>1, <1>3 DEF Succeed, Leave, AtomicCalls!Succeed
<1> QED BY <1>2, <1>4

LEMMA PromiseStep ==
  RpcInv /\ [RpcNext]_rpcVars => [AtomicCalls!RpcPromiseNext]_(AtomicCalls!rpcPromiseVars)
<1> SUFFICES ASSUME RpcInv, [RpcNext]_rpcVars
             PROVE  AtomicCalls!RpcPromiseNext \/ UNCHANGED <<invoked, executed, returned, failed>>
  BY DEF AtomicCalls!rpcPromiseVars
<1> DEFINE Same == UNCHANGED <<invoked, executed, returned, failed>>
<1>1. \A t \in Thread : at[t] # "idle" => ids[t] \in 1..MaxCalls
  BY DEF RpcInv, Counted, RpcTypeOK
<1>2. ASSUME NEW t \in Thread, CallStep(t) PROVE AtomicCalls!RpcPromiseNext \/ Same
  <2>1. ASSUME NEW r \in Result, at[t] # "idle", Fail(t, r) PROVE AtomicCalls!RpcPromiseNext
    BY <1>1, <2>1, LeavePromise DEF AtomicCalls!RpcPromiseNext
  <2>2. ASSUME NEW r \in Result, at[t] \in {"decode", "steal"}, Succeed(t, r)
        PROVE  AtomicCalls!RpcPromiseNext
    BY <1>1, <2>2, LeavePromise DEF AtomicCalls!RpcPromiseNext
  <2>3. CASE Acquire(t)
    <3>1. ids[t] \in invoked \ returned /\ ids[t] \in 1..MaxCalls
      BY <1>1, <2>3 DEF RpcInv, Counted, Acquire
    <3>2. CASE Leave(t, "shutDown") /\ failed' = TRUE
      BY <3>1, <3>2 DEF Leave, AtomicCalls!Fail, AtomicCalls!RpcPromiseNext
    <3> QED BY <2>3, <3>2 DEF Acquire, historyVars
  <2>4. CASE WriteRequest(t) \/ WriteDone(t) \/ ReadPart(t) \/ WaitTimesOut(t)
    BY <2>4 DEF WriteRequest, WriteDone, ReadPart, WaitTimesOut, historyVars
  <2>5. CASE AgentGone(t) \/ CancelTimedOut(t)
    <3>1. \E r \in Result : at[t] # "idle" /\ Fail(t, r)
      BY <2>5 DEF AgentGone, Blocked, CancelTimedOut, Result
    <3> QED BY <2>1, <3>1
  <2>6. CASE DecodeSize(t) \/ DecodeList(t) \/ DecodeSpawn(t)
    BY <2>1, <2>2, <2>6 DEF DecodeSize, DecodeList, DecodeSpawn, Result, historyVars
  <2>7. CASE stealHandle(t)
    BY <2>1, <2>7 DEF stealHandle, Result, historyVars
  <2>8. CASE ReleaseHandles(t)
    BY <2>2, <2>8 DEF ReleaseHandles, Result
  <2> QED BY <1>2, <2>3, <2>4, <2>5, <2>6, <2>7, <2>8 DEF CallStep
<1>3. ASSUME NEW t \in Thread, NEW o \in Op, StartCall(t, o) PROVE AtomicCalls!RpcPromiseNext
  <2>1. calls + 1 \in 1..MaxCalls /\ calls + 1 \notin invoked
    BY <1>3 DEF StartCall, RpcInv, RpcTypeOK, Counted
  <2>2. AtomicCalls!Invoke(calls + 1)
    BY <1>3, <2>1 DEF StartCall, AtomicCalls!Invoke
  <2> QED BY <2>1, <2>2 DEF AtomicCalls!RpcPromiseNext
<1>4. CASE HandleRequest
  <2>1. inbox # NoRequest /\ UNCHANGED <<invoked, returned, failed>>
        /\ executed' \in {executed, executed \union {inbox.id}}
    BY <1>4 DEF HandleRequest
  <2>2. inbox.id \in invoked \ executed /\ inbox.id \in 1..MaxCalls
    BY <2>1 DEF RpcInv, Counted, RpcTypeOK
  <2>3. executed \subseteq returned
    <3>1. ASSUME mutex # NoThread PROVE inbox.id = ids[mutex]
      <4>1. mutex \in Thread /\ at[mutex] \notin {"idle", "lock"}
        BY <3>1 DEF RpcInv, Locked, RpcTypeOK
      <4>2. at[mutex] # "write"
        BY <2>1, <4>1 DEF RpcInv, InStep, Quiet
      <4>3. Exchange(mutex)
        BY <4>1, <4>2 DEF RpcInv, InStep
      <4> QED BY <2>1, <4>3 DEF Exchange
    <3> QED BY <2>2, <3>1 DEF RpcInv, Counted
  <2>4. CASE executed' = executed \union {inbox.id}
    BY <2>1, <2>2, <2>3, <2>4 DEF AtomicCalls!Execute, AtomicCalls!RpcPromiseNext
  <2> QED BY <2>1, <2>4
<1>5. CASE vt7pty_free \/ Tick \/ FlushReply \/ AgentExit \/ Done \/ UNCHANGED rpcVars
  BY <1>5 DEF vt7pty_free, Tick, FlushReply, AgentExit, Done, rpcVars, historyVars
<1> QED BY <1>2, <1>3, <1>4, <1>5 DEF RpcNext

(* The library and the agent implement RpcPromise, whatever the agent does *)
(* and however late it answers.                                            *)
THEOREM RpcImplementsPromise == RpcSpec => ImplementsRpcPromise
<1>1. RpcInit => AtomicCalls!RpcPromiseInit
  BY DEF RpcInit, AtomicCalls!RpcPromiseInit
<1> QED BY <1>1, PromiseStep, RpcInvariant, PTL
        DEF RpcSpec, ImplementsRpcPromise, AtomicCalls!RpcPromiseSpec
============================================================================
