--------------------------- MODULE OutputPromise ---------------------------
(***************************************************************************)
(* What a client of an auto-shutdown session may rely on, without pipes,   *)
(* polls or queues: programs on the console produce numbered units of      *)
(* output for each output pipe; the client gets them once each and in      *)
(* order; a stream either completes, and then it contains all the child    *)
(* produced before it exited, or it is aborted.                            *)
(***************************************************************************)
EXTENDS Integers, Sequences

CONSTANT OutPipes

VARIABLES
  produced,    \* units produced for each pipe
  exited,      \* the child has exited
  owed,        \* units produced by then
  delivered,   \* units the client has got, in the order it got them
  outcome      \* "flowing", "complete" or "aborted"

promiseVars == <<produced, exited, owed, delivered, outcome>>

PromiseInit ==
  /\ produced = [p \in OutPipes |-> 0]
  /\ exited = FALSE
  /\ owed = [p \in OutPipes |-> 0]
  /\ delivered = [p \in OutPipes |-> <<>>]
  /\ outcome = [p \in OutPipes |-> "flowing"]

Produce(p) ==
  /\ produced' = [produced EXCEPT ![p] = @ + 1]
  /\ UNCHANGED <<exited, owed, delivered, outcome>>

Exit ==
  /\ ~exited
  /\ exited' = TRUE
  /\ owed' = produced
  /\ UNCHANGED <<produced, delivered, outcome>>

\* The next unit reaches the client, which may be the last one it waits for.
Deliver(p) ==
  LET n == Len(delivered[p]) + 1 IN
  /\ outcome[p] # "complete"
  /\ n <= produced[p]
  /\ delivered' = [delivered EXCEPT ![p] = Append(@, n)]
  /\ \/ UNCHANGED outcome
     \/ /\ outcome[p] = "flowing" /\ exited /\ n >= owed[p]
        /\ outcome' = [outcome EXCEPT ![p] = "complete"]
  /\ UNCHANGED <<produced, exited, owed>>

\* One or more streams end.
End ==
  /\ outcome' \in [OutPipes -> {"flowing", "complete", "aborted"}]
  /\ \A p \in OutPipes :
       \/ outcome'[p] = outcome[p]
       \/ outcome[p] = "flowing" /\ outcome'[p] = "aborted"
       \/ /\ outcome[p] = "flowing" /\ outcome'[p] = "complete"
          /\ exited /\ Len(delivered[p]) >= owed[p]
  /\ UNCHANGED <<produced, exited, owed, delivered>>

PromiseNext ==
  \/ \E p \in OutPipes : Produce(p) \/ Deliver(p)
  \/ Exit
  \/ End

PromiseSpec == PromiseInit /\ [][PromiseNext]_promiseVars
============================================================================
