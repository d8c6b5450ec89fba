--------------------------- MODULE MCAgentSession ---------------------------
EXTENDS AgentSession

MCItem == SessionItem
MCRuns == UNION {{[i \in 1..n |-> Out(f + i)] : n \in 0..(MaxOutput - f)} :
                  f \in 0..MaxOutput}
MCBatches == {<<>>, <<Title>>, <<Dsr>>, <<Mouse(TRUE)>>, <<Mouse(FALSE)>>}
               \union MCRuns \union {<<Title>> \o r : r \in MCRuns}

(***************************************************************************)
(* The session implements OutputPromise: the units among what the client   *)
(* has read are what is delivered, an orderly closed pipe that has been    *)
(* read to its end is complete, one closed otherwise is aborted.           *)
(***************************************************************************)
Units(s) ==
  LET u[i \in 0..Len(s)] ==
        IF i = 0 THEN <<>>
        ELSE IF s[i].kind = "out" THEN Append(u[i - 1], s[i].n) ELSE u[i - 1]
  IN  u[Len(s)]

Delivered(p) == Units(received[p])

Outcome(p) ==
  IF Complete(p) THEN "complete"
  ELSE IF broken[p] \/ (status[p] = "closed" /\ p \notin drained) THEN "aborted"
  ELSE "flowing"

Promise == INSTANCE OutputPromise WITH
  exited    <- child \in {"exited", "reaped"},
  owed      <- childTotal,
  delivered <- [p \in OutPipes |-> Delivered(p)],
  outcome   <- [p \in OutPipes |-> Outcome(p)]

ImplementsPromise == Promise!PromiseSpec
============================================================================
