----------------------------- MODULE RpcPromise -----------------------------
(***************************************************************************)
(* What a client of the library may rely on when its threads make RPCs,    *)
(* without locks, pipes, packets or timeouts: a call is carried out at     *)
(* most once; one that succeeds has been carried out; calls take effect    *)
(* one after the other, in the order the successes are returned; and after *)
(* a failure (of the connection, not of CreateProcess) nothing succeeds.   *)
(***************************************************************************)
CONSTANT Call

VARIABLES
  invoked,    \* calls made
  executed,   \* calls the agent has carried out
  returned,   \* calls that have returned
  failed      \* some call has failed

rpcPromiseVars == <<invoked, executed, returned, failed>>

RpcPromiseInit ==
  /\ invoked = {} /\ executed = {} /\ returned = {}
  /\ failed = FALSE

Invoke(c) ==
  /\ c \notin invoked
  /\ invoked' = invoked \union {c}
  /\ UNCHANGED <<executed, returned, failed>>

\* The effect may come after a failed return (the client timed out), but no
\* call is carried out while another one is still to be answered.
Execute(c) ==
  /\ c \in invoked \ executed
  /\ executed \subseteq returned
  /\ executed' = executed \union {c}
  /\ UNCHANGED <<invoked, returned, failed>>

Succeed(c) ==
  /\ c \in executed \ returned
  /\ ~failed
  /\ returned' = returned \union {c}
  /\ UNCHANGED <<invoked, executed, failed>>

Fail(c) ==
  /\ c \in invoked \ returned
  /\ returned' = returned \union {c}
  /\ failed' = TRUE
  /\ UNCHANGED <<invoked, executed>>

RpcPromiseNext ==
  \E c \in Call : Invoke(c) \/ Execute(c) \/ Succeed(c) \/ Fail(c)

RpcPromiseSpec == RpcPromiseInit /\ [][RpcPromiseNext]_rpcPromiseVars
============================================================================
