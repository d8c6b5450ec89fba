---------------------------- MODULE AgentSession ----------------------------
(***************************************************************************)
(* The agent's event loop and the end of a session (EventLoop.cc,          *)
(* Agent.cc).  One single-threaded loop services the control pipe, CONIN   *)
(* and the output pipes in that order, then, when the 25 ms interval has   *)
(* elapsed, polls the console: it samples the input mode, looks whether    *)
(* the child has exited, scrapes the screen and, once the child is gone,   *)
(* closes every output pipe that is connected and drained.                 *)
(*                                                                         *)
(* Each action of the agent is the code between two points where another   *)
(* process can matter: the client reads, writes and disappears, and the    *)
(* child and its descendants write to the console, at any moment.          *)
(*                                                                         *)
(* The screen's content is abstracted to units of output: the scraper      *)
(* sends, in order, what has been written to a screen buffer since the     *)
(* previous scrape.                                                        *)
(***************************************************************************)
EXTENDS NamedPipe, FiniteSets

CONSTANTS
  MaxOutput,    \* bound: units written to one screen buffer
  MaxEvents,    \* bound: input batches, mode changes, title changes
  MaxRequests,  \* bound: RPC requests
  Background,   \* do descendants of the child also write to the console?
  MouseAtStart  \* what mouseWanted may be when the session starts

ASSUME AgentSessionAssumption ==
  /\ "conout" \in OutPipes
  /\ OutPipes \subseteq {"conout", "conerr"}
  /\ MaxOutput \in Nat
  /\ MaxEvents \in Nat
  /\ MaxRequests \in Nat
  /\ Background \in BOOLEAN
  /\ MouseAtStart \subseteq BOOLEAN

VARIABLES
  pc,           \* where the loop is
  progress,     \* serviceIo has made progress on the pipe being serviced
  stage,        \* IoWorker::service: "begin", "issue" (the loop), "end"
  exiting,      \* EventLoop::m_exiting
  closing,      \* m_closingOutputPipes
  autoShutdown, \* m_autoShutdown
  exitAfter,    \* m_exitAfterShutdown
  drained,      \* pipes autoClosePipesForShutdown has closed (history)
  child,        \* the child: "none", "running", "exited", "reaped"
  scrapeNow,    \* shouldScrapeContent, local to onPollTimeout
  mouseNow,     \* enableMouseMode, local to onPollTimeout
  mouseMode,    \* Terminal::m_mouseModeEnabled
  produced,     \* units written to each screen buffer
  scraped,      \* units of them the scraper has sent
  childTotal,   \* units written when the child exited
  conin,        \* input batches waiting in the CONIN pipe
  mouseWanted,  \* the console's input mode asks for mouse input: it is on,
                \* quick edit is off, and the extended flags are in use
  titleNew,     \* the console's title differs from m_currentTitle
  control,      \* the client's end of the control pipe: "open", "closed"
  request,      \* the RPC request in the control pipe
  reply,        \* the reply in the control pipe's m_outQueue
  events,       \* used up part of MaxEvents
  requests      \* used up part of MaxRequests

loopVars    == <<pc, progress, stage, exiting, drained>>
shutVars    == <<closing, autoShutdown, exitAfter, child, childTotal>>
pollVars    == <<scrapeNow, mouseNow, mouseMode>>
consoleVars == <<produced, scraped, mouseWanted, titleNew>>
inputVars   == <<conin, events>>
rpcVars     == <<control, request, reply, requests>>
vars == <<pipeVars, loopVars, shutVars, pollVars, consoleVars, inputVars, rpcVars>>

----------------------------------------------------------------------------
(***************************************************************************)
(* Units of output.                                                        *)
(***************************************************************************)
Out(n)   == [kind |-> "out", n |-> n]          \* the n-th unit of a screen
Mouse(b) == [kind |-> "mouse", n |-> IF b THEN 1 ELSE 0]
Title    == [kind |-> "title", n |-> 0]
Dsr      == [kind |-> "dsr", n |-> 0]

SessionItem == [kind : {"out", "mouse", "title", "dsr"}, n : 0..MaxOutput + 1]

ASSUME SessionItemAssumption == SessionItem \subseteq Item

NoRequest == [op |-> "none", auto |-> FALSE, exit |-> FALSE]
Spawn(a, e) == [op |-> "spawn", auto |-> a, exit |-> e]
Resize == [op |-> "resize", auto |-> FALSE, exit |-> FALSE]
Request == {Spawn(a, e) : a, e \in BOOLEAN} \union {Resize}

\* Nothing is written to any pipe except s to p.
Only(p, s) == [q \in OutPipes |-> IF q = p THEN s ELSE <<>>]

\* What a scrape of both buffers sends.
Unscraped(p) == [i \in 1..(produced[p] - scraped[p]) |-> Out(scraped[p] + i)]

----------------------------------------------------------------------------
Init ==
  /\ PipeInit
  /\ pc = "control" /\ progress = FALSE /\ stage = "begin" /\ exiting = FALSE
  /\ closing = FALSE /\ autoShutdown = FALSE /\ exitAfter = FALSE
  /\ child = "none" /\ drained = {}
  /\ scrapeNow = FALSE /\ mouseNow = FALSE /\ mouseMode = FALSE
  /\ produced = [p \in OutPipes |-> 0]
  /\ scraped = [p \in OutPipes |-> 0]
  /\ childTotal = [p \in OutPipes |-> 0]
  /\ conin = 0 /\ mouseWanted \in MouseAtStart /\ titleNew = FALSE
  /\ control = "open" /\ request = NoRequest /\ reply = FALSE
  /\ events = 0 /\ requests = 0

----------------------------------------------------------------------------
(***************************************************************************)
(* The client, the child and its descendants.                              *)
(***************************************************************************)
Client(p) ==
  /\ ClientStep(p)
  /\ UNCHANGED <<loopVars, shutVars, pollVars, consoleVars, inputVars, rpcVars>>

\* The library's mutex keeps RPCs apart: one request at a time.
ClientRequest(r) ==
  /\ control = "open" /\ pc # "exited"
  /\ request = NoRequest /\ ~reply
  /\ requests < MaxRequests
  /\ request' = r
  /\ requests' = requests + 1
  /\ UNCHANGED <<pipeVars, loopVars, shutVars, pollVars, consoleVars,
                 inputVars, control, reply>>

\* vt7pty_free, a failed RPC or the client's death.
ClientFree ==
  /\ control = "open"
  /\ control' = "closed"
  /\ UNCHANGED <<pipeVars, loopVars, shutVars, pollVars, consoleVars,
                 inputVars, request, reply, requests>>

ClientInput ==
  /\ events < MaxEvents
  /\ conin' = conin + 1
  /\ events' = events + 1
  /\ UNCHANGED <<pipeVars, loopVars, shutVars, pollVars, consoleVars, rpcVars>>

Attached == child = "running" \/ (Background /\ child \in {"exited", "reaped"})

ConsoleWrite(p) ==
  /\ Attached /\ pc # "exited"
  /\ produced[p] < MaxOutput
  /\ produced' = [produced EXCEPT ![p] = @ + 1]
  /\ UNCHANGED <<pipeVars, loopVars, shutVars, pollVars, scraped, mouseWanted,
                 titleNew, inputVars, rpcVars>>

ConsoleModeOrTitle ==
  /\ Attached /\ pc # "exited"
  /\ events < MaxEvents
  /\ events' = events + 1
  /\ \/ mouseWanted' = ~mouseWanted /\ UNCHANGED titleNew
     \/ titleNew' = TRUE /\ UNCHANGED mouseWanted
  /\ UNCHANGED <<pipeVars, loopVars, shutVars, pollVars, produced, scraped,
                 conin, rpcVars>>

ChildExit ==
  /\ child = "running"
  /\ child' = "exited"
  /\ childTotal' = produced
  /\ UNCHANGED <<pipeVars, loopVars, closing, autoShutdown, exitAfter,
                 pollVars, consoleVars, inputVars, rpcVars>>

----------------------------------------------------------------------------
(***************************************************************************)
(* Order of the loop.                                                      *)
(***************************************************************************)
FirstPipe == "conout"

\* Mutated form: CONERR is serviced even when it was not asked for.
AfterPipeAlwaysConerr(p) == IF p = "conout" THEN "conerr" ELSE "poll"

AfterPipe(p) == IF p = "conout" /\ "conerr" \in OutPipes THEN "conerr" ELSE "poll"

\* Where a pass ends: `while (!m_exiting)'.
PassEnd(ex) == IF ex THEN "destroy" ELSE "control"

----------------------------------------------------------------------------
(***************************************************************************)
(* autoClosePipesForShutdown, as the set of pipes it closes and whether it *)
(* then ends the loop.                                                     *)
(***************************************************************************)
\* Mutated form: a pipe is closed without counting the write in flight.
PipesToCloseQueueEmpty ==
  {p \in OutPipes : closing /\ isConnected(p) /\ outQueue[p] = <<>>}

PipesToClose == {p \in OutPipes : closing /\ isConnected(p) /\ bytesToSend(p) = 0}

\* Mutated form: a pipe closed earlier, by an error, is not counted.
ExitsAfterOwnClose(C) == closing /\ exitAfter /\ \A p \in OutPipes : p \in C

ExitsAfter(C) ==
  closing /\ exitAfter /\ \A p \in OutPipes : p \in C \/ status[p] = "closed"

autoClosePipesForShutdown ==
  /\ closePipes(PipesToClose)
  /\ drained' = drained \union PipesToClose
  /\ exiting' = (exiting \/ ExitsAfter(PipesToClose))

----------------------------------------------------------------------------
(***************************************************************************)
(* Servicing the control pipe: serviceIo flushes a queued reply and reads, *)
(* then onPipeIo handles the packet that arrived.                          *)
(***************************************************************************)
\* Nothing happened on the control pipe, or only a reply left the queue.
ControlIdle ==
  /\ pc = "control"
  /\ control = "open" /\ request = NoRequest
  /\ reply' = FALSE
  /\ pc' = "conin"
  /\ UNCHANGED <<pipeVars, progress, stage, exiting, drained, shutVars, pollVars,
                 consoleVars, inputVars, control, request, requests>>

\* Mutated form: the loop outlives its control pipe.
ControlLostIgnored ==
  /\ pc = "control"
  /\ control = "closed"
  /\ pc' = "conin"
  /\ UNCHANGED <<pipeVars, progress, stage, exiting, drained, shutVars, pollVars,
                 consoleVars, inputVars, rpcVars>>

\* The pipe broke: it is closed and whatever it still held is not handled.
ControlLost ==
  /\ pc = "control"
  /\ control = "closed"
  /\ exiting' = TRUE
  /\ pc' = "conin"
  /\ UNCHANGED <<pipeVars, progress, stage, drained, shutVars, pollVars, consoleVars,
                 inputVars, rpcVars>>

HandlePacket(op) ==
  /\ pc = "control"
  /\ control = "open" /\ request.op = op
  /\ request' = NoRequest
  /\ pc' = "conin"

\* Mutated form of SpawnAllowed: the flag that outlives m_childProcess is
\* not looked at.
SpawnAllowedByChildOnly == child \notin {"running", "exited"}

SpawnAllowed == child \notin {"running", "exited"} /\ ~closing

handleStartProcessPacket ==
  /\ HandlePacket("spawn")
  /\ SpawnAllowed
  /\ reply' = TRUE
  /\ \/ /\ child' = "running"
        /\ autoShutdown' = request.auto
        /\ exitAfter' = request.exit
     \/ UNCHANGED <<child, autoShutdown, exitAfter>>    \* CreateProcessW fails
  /\ UNCHANGED <<pipeVars, progress, stage, exiting, drained, closing, childTotal,
                 pollVars, consoleVars, inputVars, control, requests>>

\* DecodeError: pollControlPipe closes the control pipe and ends the loop.
RejectPacket ==
  /\ HandlePacket("spawn")
  /\ ~SpawnAllowed
  /\ control' = "closed"
  /\ exiting' = TRUE
  /\ UNCHANGED <<pipeVars, progress, stage, drained, shutVars, pollVars, consoleVars,
                 inputVars, reply, requests>>

\* Mutated form: what the resize has sent is sent again by the next scrape.
handleSetSizePacketResends ==
  /\ HandlePacket("resize")
  /\ reply' = TRUE
  /\ WriteAll([p \in OutPipes |-> Unscraped(p)])
  /\ UNCHANGED <<progress, stage, exiting, drained, shutVars, pollVars,
                 consoleVars, inputVars, control, requests>>

\* Syncs the screen content, whether or not output has been shut down.
resizeWindow ==
  /\ WriteAll([p \in OutPipes |-> Unscraped(p)])
  /\ scraped' = produced

handleSetSizePacket ==
  /\ HandlePacket("resize")
  /\ reply' = TRUE
  /\ resizeWindow
  /\ UNCHANGED <<progress, stage, exiting, drained, shutVars, pollVars, produced,
                 mouseWanted, titleNew, inputVars, control, requests>>

\* Input of any kind arrives; a DSR may be sent when it ends in the middle of
\* an escape sequence.
pollConinPipe ==
  /\ pc = "conin"
  /\ conin' = 0
  /\ \/ WriteAll(Only("conout", <<>>))
     \/ /\ conin > 0 /\ status["conout"] # "closed"
        /\ WriteAll(Only("conout", <<Dsr>>))
  /\ pc' = FirstPipe
  /\ UNCHANGED <<progress, stage, exiting, drained, shutVars, pollVars, consoleVars,
                 events, rpcVars>>

----------------------------------------------------------------------------
(***************************************************************************)
(* Servicing an output pipe: serviceIo, then onPipeIo when it returns TRUE. *)
(***************************************************************************)
serviceUnchanged ==
  UNCHANGED <<exiting, drained, shutVars, pollVars, consoleVars, inputVars, rpcVars>>

\* The pended ConnectNamedPipe, or the write in flight, has completed.
ServiceCompletion(p) ==
  /\ pc = p /\ stage = "begin"
  /\ FinishConnect(p) \/ CompleteWrite(p)
  /\ progress' = TRUE /\ stage' = "issue"
  /\ UNCHANGED pc /\ serviceUnchanged

\* The stage loop goes on for as long as the writes complete at once.
ServiceIssue(p) ==
  /\ pc = p /\ stage \in {"begin", "issue"}
  /\ IssueWrite(p)
  /\ IF pending'[p] = 0
     THEN stage' = "issue" /\ progress' = TRUE
     ELSE stage' = "end" /\ UNCHANGED progress
  /\ UNCHANGED pc /\ serviceUnchanged

ServiceError(p) ==
  /\ pc = p /\ stage \in {"begin", "issue"}
  /\ PipeError(p)
  /\ stage' = "end" /\ progress' = TRUE
  /\ UNCHANGED pc /\ serviceUnchanged

\* Nothing is left to do on this pipe in this pass.
Serviced(p) ==
  \/ stage = "end"
  \/ status[p] = "closed"
  \/ status[p] = "connecting" /\ client[p] = "none"
  \/ isConnected(p) /\ bytesToSend(p) = 0
  \/ isConnected(p) /\ pending[p] > 0 /\ client[p] = "open" /\ ~WriteDone(p)

ServiceEnd(p) ==
  /\ pc = p
  /\ Serviced(p)
  /\ IF progress THEN autoClosePipesForShutdown
     ELSE UNCHANGED <<pipeVars, exiting, drained>>
  /\ progress' = FALSE /\ stage' = "begin"
  /\ pc' = AfterPipe(p)
  /\ UNCHANGED <<shutVars, pollVars, consoleVars, inputVars, rpcVars>>

----------------------------------------------------------------------------
(***************************************************************************)
(* onPollTimeout.                                                          *)
(***************************************************************************)
\* Less than m_pollInterval has elapsed.
SkipPoll ==
  /\ pc = "poll"
  /\ pc' = PassEnd(exiting)
  /\ UNCHANGED <<pipeVars, progress, stage, exiting, drained, shutVars, pollVars,
                 consoleVars, inputVars, rpcVars>>

\* With VT7PTY_MOUSE_MODE_AUTO; the other modes are a mouse mode that is
\* wanted, or not wanted, all the time.
shouldActivateTerminalMouse == mouseWanted

\* What flushIncompleteEscapeCode does at this place is in ConsoleInput.
StartPoll ==
  /\ pc = "poll"
  /\ mouseNow' = shouldActivateTerminalMouse
  /\ scrapeNow' = ~closing
  /\ pc' = "exitCheck"
  /\ UNCHANGED <<pipeVars, progress, stage, exiting, drained, shutVars, mouseMode,
                 consoleVars, inputVars, rpcVars>>

\* Mutated forms: whether to scrape is decided after the exit check, and the
\* exit check does not start the shutdown.
CheckChildExitThenDecide ==
  /\ pc = "exitCheck"
  /\ IF autoShutdown /\ child = "exited"
     THEN child' = "reaped" /\ closing' = TRUE
     ELSE UNCHANGED <<child, closing>>
  /\ scrapeNow' = ~closing'
  /\ pc' = "scrape"
  /\ UNCHANGED <<pipeVars, progress, stage, exiting, drained, autoShutdown,
                 exitAfter, childTotal, mouseNow, mouseMode, consoleVars,
                 inputVars, rpcVars>>
CheckChildExitOnlyReaps ==
  /\ pc = "exitCheck"
  /\ child' = IF autoShutdown /\ child = "exited" THEN "reaped" ELSE child
  /\ pc' = "scrape"
  /\ UNCHANGED <<pipeVars, progress, stage, exiting, drained, closing,
                 autoShutdown, exitAfter, childTotal, pollVars, consoleVars,
                 inputVars, rpcVars>>

CheckChildExit ==
  /\ pc = "exitCheck"
  /\ IF autoShutdown /\ child = "exited"
     THEN child' = "reaped" /\ closing' = TRUE
     ELSE UNCHANGED <<child, closing>>
  /\ pc' = "scrape"
  /\ UNCHANGED <<pipeVars, progress, stage, exiting, drained, autoShutdown, exitAfter,
                 childTotal, pollVars, consoleVars, inputVars, rpcVars>>

\* What syncConsoleTitle sends.
TitleUpdate ==
  IF titleNew /\ status["conout"] # "closed" THEN <<Title>> ELSE <<>>

\* After what is in the queues, and what is sent before it.
scrapeBuffers(before) ==
  /\ WriteAll([p \in OutPipes |-> before[p] \o Unscraped(p)])
  /\ scraped' = produced

ScrapeContent ==
  /\ pc = "scrape"
  /\ IF scrapeNow
     THEN scrapeBuffers(Only("conout", TitleUpdate)) /\ titleNew' = FALSE
     ELSE UNCHANGED <<pipeVars, scraped, titleNew>>
  /\ pc' = "mouse"
  /\ UNCHANGED <<progress, stage, exiting, drained, shutVars, pollVars, produced,
                 mouseWanted, inputVars, rpcVars>>

\* Mutated form: the mouse mode follows the console after the child has gone.
MouseTargetIgnoringShutdown == mouseNow

MouseTarget == mouseNow /\ ~closing

\* Terminal::enableMouseMode.
enableMouseMode ==
  /\ pc = "mouse"
  /\ mouseMode' = MouseTarget
  /\ WriteAll(Only("conout",
        IF mouseMode = MouseTarget THEN <<>> ELSE <<Mouse(MouseTarget)>>))
  /\ pc' = "autoClose"
  /\ UNCHANGED <<progress, stage, exiting, drained, shutVars, scrapeNow, mouseNow,
                 consoleVars, inputVars, rpcVars>>

PollEnd ==
  /\ pc = "autoClose"
  /\ autoClosePipesForShutdown
  /\ pc' = PassEnd(exiting')
  /\ UNCHANGED <<progress, stage, shutVars, pollVars, consoleVars, inputVars,
                 rpcVars>>

\* run() returns; ~Agent and ~EventLoop close every pipe.
DestroyAgent ==
  /\ pc = "destroy"
  /\ closePipes(OutPipes)
  /\ pc' = "exited"
  /\ UNCHANGED <<progress, stage, exiting, drained, shutVars, pollVars, consoleVars,
                 inputVars, rpcVars>>

----------------------------------------------------------------------------
AgentStep ==
  \/ ControlIdle \/ ControlLost \/ RejectPacket
  \/ handleStartProcessPacket \/ handleSetSizePacket
  \/ pollConinPipe
  \/ \E p \in OutPipes : \/ ServiceCompletion(p) \/ ServiceIssue(p)
                         \/ ServiceError(p) \/ ServiceEnd(p)
  \/ SkipPoll \/ StartPoll \/ CheckChildExit \/ ScrapeContent
  \/ enableMouseMode \/ PollEnd \/ DestroyAgent

Environment ==
  \/ \E p \in OutPipes : Client(p) \/ ConsoleWrite(p)
  \/ \E r \in Request : ClientRequest(r)
  \/ ClientFree \/ ClientInput \/ ConsoleModeOrTitle \/ ChildExit

\* The agent is gone; the client may do nothing more.
Terminated == pc = "exited" /\ UNCHANGED vars

Next == AgentStep \/ Environment \/ Terminated

Spec == Init /\ [][Next]_vars

(***************************************************************************)
(* The loop keeps running, and time passes, so a pass that finds 25 ms     *)
(* elapsed comes again and again (SF).  The client opens its pipes and     *)
(* keeps reading; nothing obliges it to ask for anything, and nothing      *)
(* obliges the child to exit.                                              *)
(***************************************************************************)
Fairness ==
  /\ WF_vars(AgentStep)
  /\ SF_vars(StartPoll)
  /\ \A p \in OutPipes :
       WF_vars(Client(p) /\ (ClientOpen(p) \/ ClientRead(p)))

FairSpec == Spec /\ Fairness

----------------------------------------------------------------------------
TypeOK ==
  /\ PipeTypeOK
  /\ pc \in OutPipes \union {"control", "conin", "poll", "exitCheck", "scrape",
                            "mouse", "autoClose", "destroy", "exited"}
  /\ stage \in {"begin", "issue", "end"}
  /\ drained \in SUBSET OutPipes
  /\ {progress, exiting, closing, autoShutdown, exitAfter, scrapeNow, mouseNow,
      mouseMode, mouseWanted, titleNew, reply} \subseteq BOOLEAN
  /\ child \in {"none", "running", "exited", "reaped"}
  /\ {produced, scraped, childTotal} \subseteq [OutPipes -> 0..MaxOutput]
  /\ conin \in Nat /\ events \in Nat /\ requests \in Nat
  /\ control \in {"open", "closed"}
  /\ request \in Request \union {NoRequest}

(***************************************************************************)
(* The client has the whole stream of pipe p: the agent closed it in an    *)
(* orderly way, nothing was given up and nothing is left to read.          *)
(***************************************************************************)
Complete(p) == p \in drained /\ wire[p] = <<>> /\ ~broken[p]

Received(p) == {received[p][i] : i \in DOMAIN received[p]}

(***************************************************************************)
(* End of file means the output is complete: when the agent's auto-shutdown *)
(* has closed a pipe and the client has read it to the end, it has read    *)
(* every unit the child had written before it exited ("If you want to      *)
(* gather all of the child's output ..."), however writes, polls, the      *)
(* late connection of the pipe and the exit interleave.                    *)
(***************************************************************************)
FinalOutputDelivered ==
  \A p \in OutPipes : Complete(p) =>
    \A n \in 1..childTotal[p] : Out(n) \in Received(p)

(***************************************************************************)
(* The orderly close itself gives nothing up: only the client's own        *)
(* closing can make a drained stream incomplete, and a client that has yet *)
(* to open the pipe of a short-lived program still finds it.               *)
(***************************************************************************)
OrderlyCloseKeepsOutput ==
  \A p \in drained : client[p] # "none" /\ (client[p] = "open" => ~broken[p])

(***************************************************************************)
(* The terminal is not left in mouse mode: at the end of CONOUT every      *)
(* sequence that enabled it is followed by one that disables it.           *)
(***************************************************************************)
MouseOffAtEof ==
  Complete("conout") =>
    \A i \in DOMAIN received["conout"] :
      received["conout"][i] = Mouse(TRUE) =>
        \E j \in DOMAIN received["conout"] :
          j > i /\ received["conout"][j] = Mouse(FALSE)

(***************************************************************************)
(* No second child: a spawn request that reaches the agent after a child   *)
(* has been created, running or reaped, never creates another.             *)
(***************************************************************************)
OneChild == [][child' = "running" => child \in {"none", "running"}]_vars

(***************************************************************************)
(* An RPC the agent has carried out is answered: when the loop ends by     *)
(* itself (exit-after-shutdown), not because the control pipe went away,   *)
(* no reply to a request handled before is left in m_outQueue.             *)
(***************************************************************************)
RpcBeforeExitAnswered == (pc = "exited" /\ control = "open") => ~reply

(***************************************************************************)
(* Liveness.  Once an auto-shutdown child has exited every pipe is closed, *)
(* with exit-after-shutdown the agent goes away, and it also does once the *)
(* control pipe is gone.                                                   *)
(***************************************************************************)
PipesCloseAfterExit ==
  (autoShutdown /\ child = "exited") ~> \A p \in OutPipes : status[p] = "closed"

AgentExitsAfterShutdown ==
  (autoShutdown /\ exitAfter /\ child = "exited") ~> pc = "exited"

AgentFollowsControlPipe == (control = "closed") ~> pc = "exited"
============================================================================
