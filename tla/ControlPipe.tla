---------------------------- MODULE ControlPipe ----------------------------
(***************************************************************************)
(* The control pipe from vt7pty_open to vt7pty_free: AgentStartup composed *)
(* with PacketStream.  Packets are sent once vt7pty_open has returned, the *)
(* agent's loop reads them once its constructor is done, and the two sides *)
(* agree on when the pipe is gone.                                         *)
(***************************************************************************)
EXTENDS AgentStartup, PacketStream

controlVars == <<startupVars, streamVars>>

ControlInit == StartupInit /\ StreamInit

\* The library lets go of the pipe, if there was one.
LetsGo == IF pipe = "open" /\ pipe' = "closed" THEN HangUp ELSE UNCHANGED streamVars

Library == LibraryNext /\ LetsGo

\* RPCs; one that fails because the agent is gone sends nothing.
Requests ==
  /\ lib = "opened" /\ agent # "dead"
  /\ \E size \in Sizes, ok \in Contents : writePacket(size, ok)
  /\ UNCHANGED startupVars

\* What the agent does before its loop, and the output side of the loop.
WriteSide == AgentWrites /\ UNCHANGED streamVars

Fault == (Crash \/ Hang) /\ UNCHANGED streamVars

\* The input side of the loop; it ends with the agent.  That the read fails is
\* how pollControlPipe comes to find the pipe closed (ControlPipeLost).
ReadSide ==
  /\ agent = "running"
  /\ StreamAgentStep \/ StartPass
  /\ IF phase' = "exited" THEN Exit ELSE UNCHANGED startupVars

Others == OtherConnects /\ UNCHANGED streamVars

Idle == Finished /\ UNCHANGED streamVars

ControlNext ==
  Library \/ Requests \/ WriteSide \/ ReadSide \/ Fault \/ Others \/ Idle

\* The caller's thread runs and time passes; of the agent nothing is assumed
\* here, the properties that need it to run say so.
ControlSpec ==
  /\ ControlInit /\ [][ControlNext]_controlVars
  /\ WF_controlVars(LibraryStep /\ LetsGo) /\ WF_controlVars(Tick /\ LetsGo)

----------------------------------------------------------------------------
(* Neither a failed vt7pty_open nor vt7pty_free leaves an agent behind:    *)
(* provided the agent runs, one that had not connected yet, was creating   *)
(* pipes, had answered too late or was reading requests goes away, unless  *)
(* it hangs.                                                               *)
NoOrphanAgent ==
  WF_controlVars(WriteSide) /\ WF_controlVars(ReadSide /\ StreamAgentStep) =>
    (lib \in {"failed", "freed"} ~> agent \in {"none", "dead", "hung"})

(* Every packet that was sent is handled, unless the client hangs up or    *)
(* the agent ends: a packet that arrives in pieces or does not fit in the  *)
(* buffer never leaves the two waiting for each other.                     *)
PacketsHandled ==
  WF_controlVars(ReadSide /\ StreamAgentStep) =>
    \A n \in 1..MaxPackets :
      Len(sent) >= n ~> Len(handled) >= n \/ agent = "dead" \/ hungUp
============================================================================
