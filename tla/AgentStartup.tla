---------------------------- MODULE AgentStartup ----------------------------
(***************************************************************************)
(* vt7pty_open: the library creates the control pipe, starts the agent,    *)
(* waits until somebody connects, checks that it is the agent it started,  *)
(* reads the setup packet and checks the handshake in it.  The agent, on   *)
(* its side, connects, creates the data pipes and only then sends their    *)
(* names.  Each wait of the library ends after agentTimeoutMs or with the  *)
(* agent's process; the agent may be of another build, may hang, or may    *)
(* die anywhere.                                                           *)
(***************************************************************************)
EXTENDS Integers, Sequences

CONSTANTS
  Builds,       \* builds of the agent found beside the library
  Timeout,      \* agentTimeoutMs, in ticks
  MayHang,      \* may the agent stop making progress before its event loop?
  Chunks        \* ReadFiles the payload of the setup packet takes

ASSUME AgentStartupAssumption ==
  /\ Builds \subseteq {"ours", "otherVersion", "otherIdentity", "malformed", "badSize"}
  /\ Builds # {}
  /\ Timeout \in Nat \ {0}
  /\ MayHang \in BOOLEAN
  /\ Chunks \in Nat \ {0}

VARIABLES
  useConerr,   \* VT7PTY_FLAG_CONERR, given to both sides
  build,       \* build of the agent that is started
  lib,         \* where vt7pty_open is
  error,       \* the error it reports
  pipe,        \* the server end: "none", "open", "closed"
  peer,        \* process connected to it: "nobody", "agent", "other"
  parts,       \* parts of the setup packet read so far
  names,       \* data pipes whose names the library has
  waited,      \* ticks the pending operation has been waited for
  agent,       \* "none", "starting", "connected", "hung", "running", "dead"
  dataPipes,   \* data pipes the agent has created
  outQueue,    \* parts of the setup packet in the agent's m_outQueue
  wire         \* parts of the setup packet in the pipe

inputs    == <<useConerr, build>>
libVars   == <<lib, error, pipe, parts, names, waited>>
agentVars == <<agent, dataPipes, outQueue>>
startupVars == <<inputs, libVars, peer, agentVars, wire>>

\* The data pipes of a session, in the order the agent creates them.
Kinds == IF useConerr THEN <<"conin", "conout", "conerr">> ELSE <<"conin", "conout">>

KindSet == {Kinds[i] : i \in DOMAIN Kinds}

\* The size of the setup packet, then its payload.
SetupPacket == 0..Chunks

StartupInit ==
  /\ useConerr \in BOOLEAN /\ build \in Builds
  /\ lib = "start" /\ error = "none" /\ pipe = "none" /\ peer = "nobody"
  /\ parts = 0 /\ names = {} /\ waited = 0
  /\ agent = "none" /\ dataPipes = {} /\ outQueue = <<>> /\ wire = <<>>

----------------------------------------------------------------------------
(***************************************************************************)
(* The library.  An exception destroys the vt7pty_t, which closes the pipe.*)
(***************************************************************************)
Fail(e) ==
  /\ lib' = "failed" /\ error' = e
  /\ pipe' = "closed" /\ wire' = <<>>
  /\ UNCHANGED <<inputs, parts, names, waited, peer, agentVars>>

\* createControlPipe and startAgentProcess, which may fail.
startAgentProcess ==
  /\ lib = "start"
  /\ \/ Fail("agentCreationFailed")
     \/ /\ lib' = "connect" /\ pipe' = "open" /\ agent' = "starting"
        /\ UNCHANGED <<inputs, error, parts, names, waited, peer, dataPipes,
                       outQueue, wire>>

\* connectControlPipe: ConnectNamedPipe finds or awaits a connection.
connectControlPipe ==
  /\ lib = "connect" /\ peer # "nobody"
  /\ lib' = "verify" /\ waited' = 0
  /\ UNCHANGED <<inputs, error, pipe, parts, names, peer, agentVars, wire>>

verifyPipeClientPid ==
  /\ lib = "verify"
  /\ \/ /\ peer = "agent"
        /\ lib' = "read"
        /\ UNCHANGED <<inputs, error, pipe, parts, names, waited, peer, agentVars,
                       wire>>
     \/ peer # "agent" /\ Fail("unspecified")

\* One ReadFile of readPacket; the size is checked as soon as it is complete.
readPacket ==
  /\ lib = "read" /\ wire # <<>>
  /\ IF Head(wire) = 0 /\ build = "badSize"
     THEN Fail("unspecified")
     ELSE /\ parts' = parts + 1 /\ wire' = Tail(wire) /\ waited' = 0
          /\ lib' = IF Head(wire) = Chunks THEN "decode" ELSE "read"
          /\ UNCHANGED <<inputs, error, pipe, names, peer, agentVars>>

\* Mutated form of classifyAgentHandshake: the version is not compared.
classifyAgentHandshakeIdentityOnly ==
  IF build = "otherIdentity" THEN "WrongIdentity" ELSE "Compatible"

classifyAgentHandshake ==
  CASE build = "otherIdentity" -> "WrongIdentity"
    [] build = "otherVersion" -> "UnsupportedVersion"
    [] OTHER -> "Compatible"

\* The handshake, then the names, then assertEof.
AcceptSetup ==
  /\ lib = "decode"
  /\ IF build = "malformed" \/ classifyAgentHandshake # "Compatible"
     THEN Fail("agentIncompatible")
     ELSE /\ lib' = "opened" /\ names' = KindSet
          /\ UNCHANGED <<inputs, error, pipe, parts, waited, peer, agentVars, wire>>

\* The client ends the session: the handle of the control pipe is closed.
vt7pty_free ==
  /\ lib = "opened"
  /\ lib' = "freed" /\ pipe' = "closed"
  /\ UNCHANGED <<inputs, error, parts, names, waited, peer, agentVars, wire>>

\* The pending operation cannot complete.
Blocked ==
  \/ lib = "connect" /\ peer = "nobody"
  \/ lib = "read" /\ wire = <<>>

AgentGone ==
  /\ agent = "dead"
  /\ \/ Blocked /\ \E e \in {"agentDied", "lostConnection"} : Fail(e)
     \/ lib = "connect" /\ peer = "agent" /\ Fail("unspecified")  \* ERROR_NO_DATA

\* Mutated form of WaitTimesOut: only the agent's process ends a wait.
WaitTimesOutNever == lib = "noTimeout" /\ Fail("agentTimeout")

WaitTimesOut == Blocked /\ waited = Timeout /\ Fail("agentTimeout")

\* Mutated form of Tick: the wait goes on past the timeout.
TickUnbounded ==
  /\ Blocked
  /\ waited' = waited + 1
  /\ UNCHANGED <<inputs, lib, error, pipe, parts, names, peer, agentVars, wire>>

Tick ==
  /\ Blocked /\ waited < Timeout
  /\ waited' = waited + 1
  /\ UNCHANGED <<inputs, lib, error, pipe, parts, names, peer, agentVars, wire>>

----------------------------------------------------------------------------
(***************************************************************************)
(* The agent's constructor, and the part of its loop that matters here.    *)
(***************************************************************************)
\* The process ends, by an assertion, shutdown() or a crash.
Exit ==
  /\ agent' = "dead" /\ dataPipes' = {} /\ outQueue' = <<>>
  /\ UNCHANGED <<inputs, libVars, peer, wire>>

\* connectToControlPipe: CreateFileW fails when the pipe is gone or its only
\* instance is taken, and the assertion ends the agent.
connectToControlPipe ==
  /\ agent = "starting"
  /\ IF pipe = "open" /\ peer = "nobody"
     THEN /\ peer' = "agent" /\ agent' = "connected"
          /\ UNCHANGED <<inputs, libVars, dataPipes, outQueue, wire>>
     ELSE Exit

createDataServerPipe ==
  /\ agent = "connected"
  /\ \E i \in DOMAIN Kinds :
       /\ Kinds[i] \notin dataPipes
       /\ \A j \in 1..(i - 1) : Kinds[j] \in dataPipes
       /\ dataPipes' = dataPipes \union {Kinds[i]}
  /\ UNCHANGED <<inputs, libVars, peer, agent, outQueue, wire>>

\* Mutated form of SendSetup: the names are sent before every pipe exists.
SendSetupEarly ==
  /\ agent = "connected"
  /\ outQueue' = [i \in 1..(Chunks + 1) |-> i - 1]
  /\ agent' = "running"
  /\ UNCHANGED <<inputs, libVars, peer, dataPipes, wire>>

\* The rest of the constructor: the packet is queued, run() is entered.
SendSetup ==
  /\ agent = "connected" /\ dataPipes = KindSet
  /\ outQueue' = [i \in 1..(Chunks + 1) |-> i - 1]
  /\ agent' = "running"
  /\ UNCHANGED <<inputs, libVars, peer, dataPipes, wire>>

FlushSetup ==
  /\ agent = "running" /\ pipe = "open" /\ outQueue # <<>>
  /\ wire' = Append(wire, Head(outQueue)) /\ outQueue' = Tail(outQueue)
  /\ UNCHANGED <<inputs, libVars, peer, agent, dataPipes>>

\* pollControlPipe finds the pipe closed.
ControlPipeLost == agent = "running" /\ pipe = "closed" /\ Exit

Crash == agent \in {"starting", "connected", "running"} /\ Exit

Hang ==
  /\ MayHang /\ agent \in {"starting", "connected"}
  /\ agent' = "hung"
  /\ UNCHANGED <<inputs, libVars, peer, dataPipes, outQueue, wire>>

\* Another process of the same user opens the pipe first.
OtherConnects ==
  /\ pipe = "open" /\ peer = "nobody"
  /\ peer' = "other"
  /\ UNCHANGED <<inputs, libVars, agentVars, wire>>

----------------------------------------------------------------------------
LibraryStep ==
  \/ startAgentProcess \/ connectControlPipe \/ verifyPipeClientPid
  \/ readPacket \/ AcceptSetup \/ AgentGone \/ WaitTimesOut

AgentWrites ==
  \/ connectToControlPipe \/ createDataServerPipe \/ SendSetup \/ FlushSetup

AgentStep == AgentWrites \/ ControlPipeLost

Finished == lib \in {"opened", "failed", "freed"} /\ UNCHANGED startupVars

\* The library's side, and the client that calls it.
LibraryNext == LibraryStep \/ Tick \/ vt7pty_free

StartupNext ==
  LibraryNext \/ AgentStep \/ Crash \/ Hang \/ OtherConnects \/ Finished

StartupSpec == StartupInit /\ [][StartupNext]_startupVars

----------------------------------------------------------------------------
StartupTypeOK ==
  /\ useConerr \in BOOLEAN /\ build \in Builds
  /\ lib \in {"start", "connect", "verify", "read", "decode", "opened", "failed",
             "freed"}
  /\ error \in {"none", "agentCreationFailed", "agentDied", "lostConnection",
                "agentTimeout", "agentIncompatible", "unspecified"}
  /\ pipe \in {"none", "open", "closed"} /\ peer \in {"nobody", "agent", "other"}
  /\ parts \in 0..(Chunks + 1) /\ waited \in 0..Timeout
  /\ names \subseteq KindSet /\ dataPipes \subseteq KindSet
  /\ agent \in {"none", "starting", "connected", "hung", "running", "dead"}
  /\ outQueue \in Seq(SetupPacket) /\ wire \in Seq(SetupPacket)

(***************************************************************************)
(* vt7pty_open succeeds only with the agent it started at the other end,   *)
(* of a build that speaks this protocol.                                   *)
(***************************************************************************)
OpenedWithOurAgent == lib = "opened" => peer = "agent" /\ build = "ours"

(***************************************************************************)
(* The names vt7pty_open hands out are those of pipes that exist: as long  *)
(* as the agent lives the client can open every one of them.               *)
(***************************************************************************)
NamesCanBeOpened ==
  lib = "opened" /\ agent # "dead" => KindSet = dataPipes /\ names = dataPipes

(***************************************************************************)
(* vt7pty_open returns, whatever the agent does or fails to do.            *)
(***************************************************************************)
OpenReturns == lib = "connect" ~> lib \in {"opened", "failed"}
============================================================================
