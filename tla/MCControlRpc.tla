---------------------------- MODULE MCControlRpc ----------------------------
EXTENDS ControlRpc

\* The calls RpcPromise is about are numbered.
AtomicCalls == INSTANCE RpcPromise WITH Call <- 1..MaxCalls

ImplementsRpcPromise == AtomicCalls!RpcPromiseSpec
============================================================================
