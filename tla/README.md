# A verification project for VT7Pty

TLA+ models of VT7Pty's backend, the TLC runs that check them on small
instances, and TLAPS proofs of the properties that matter most. The reference
is the source: every definition that models code is tied to the lines it
stands for in `PROJECT.json` ("map"). `src/...` below means a path in the
repository.

## 1. The system

A terminal host loads `VT7Pty.dll`, which starts `VT7Pty-Agent.exe`. The agent
owns a hidden Windows console, starts one child process in it, turns the bytes
the host sends into console input, polls the console's screen and turns what
it finds into terminal output. The two talk over one duplex *control pipe*
(RPCs) and two or three one-way *data pipes* (CONIN, CONOUT, optionally
CONERR).

| Component | State | Operations | Interacts with | Hard behaviour | Correct when |
| --- | --- | --- | --- | --- | --- |
| `agent/NamedPipe.cc` | `m_handle`, `m_connectEvent`, `m_inQueue`, `m_readBufferSize`, `m_outQueue`, one overlapped read and write each with `m_pending`, `m_currentIoSize` | `openServerPipe`, `connectToServer`, `serviceIo`, `write`, `read...`, `bytesToSend`, `closePipe` | event loop, kernel, client | writes pend, fail or complete at once; data is in the queue, in flight or in the pipe; closing cancels | nothing is lost, duplicated, reordered; a drained pipe can be closed; a packet that arrives in pieces, or is larger than the buffer, does not stop the reading |
| `agent/EventLoop.cc`, `agent/Agent.cc` | `m_exiting`, `m_closingOutputPipes`, `m_autoShutdown`, `m_exitAfterShutdown`, `m_childProcess` | `run`, `onPipeIo`, `onPollTimeout`, `handlePacket` and its three handlers, `autoClosePipesForShutdown` | all pipes, scraper, terminal, console input, child | order of exit check, scrape, mouse mode and closing; clients that connect late or leave | all the child's output arrives before end of file; the agent goes away when it should |
| `libvt7pty/vt7pty.cc`, RPCs | `mutex`, `controlPipe`, `agentProcess`, `ioEvent` | `vt7pty_spawn`, `vt7pty_set_size`, `vt7pty_get_console_process_list`, `vt7pty_free` | agent, several threads of the host | timeouts with a late answer, agent death at any point, handles to be moved between processes | a reply belongs to its request; calls return; no handle is leaked |
| `libvt7pty/vt7pty.cc`, `vt7pty_open`; `Agent::Agent` | the above, the setup packet | create pipe, start agent, connect, verify, handshake | agent, other processes | every step may fail, hang or time out | success means a usable session, failure leaves nothing behind |
| `agent/Scraper.cc` | sync marker, scroll and scrape counters, copy of the buffer, dirty lines | `scrapeBuffer`, `resizeWindow` | console, terminal | the console changes while it is read; scrolling has to be inferred | the terminal shows the console's window, history appears once |
| `agent/Terminal.cc`, `agent/ConsoleLine.cc` | remote line, column, colour, hidden cursor, last line; per line its previous contents at the width it had | `sendLine`, `showTerminalCursor`, `hideTerminalCursor`, `reset`, `enableMouseMode` | scraper, CONOUT | incremental updates against an assumed state of the terminal | the assumed state is the real one |
| `agent/ConsoleInput.cc`, `agent/InputMap.cc`, `agent/UnicodeEncoding.h` | byte queue, `m_dsrSent`, mouse buttons, double click | `writeInput`, `flushIncompleteEscapeCode`, `updateInputFlags` | CONIN, console, terminal (DSR) | escape sequences split anywhere, timeouts, replies mixed with keys | no byte is lost or read twice, ESC is told from a sequence, a program reads the keys that were typed |
| `agent/Win32Console*.cc`, `agent/ConsoleFont.cc`, `agent/LargeConsoleRead.cc` | frozen flag | wrappers of the console API | scraper | freezing | frozen during a consistent read, never left frozen |
| `shared/*` | none between calls | buffers, security descriptors, names, tracing | all | - | - |
| `tools/debug/DebugServer.cc` | bytes written | print messages | trace clients | byte limit | - |

`PROJECT.json` lists the hazards of this code at their lines; the properties
are chosen from that list.

## 2. Modules

    NamedPipe            the output pipes: agent's end, kernel, client
      AgentSession           EXTENDS NamedPipe: event loop, session end
        MCAgentSession         instance for TLC, refinement of OutputPromise
          AgentSessionProofs     theorems about the three above
    OutputPromise        what a client may rely on: the abstract output
    PacketStream         control packets, cut into pieces and put together
    AgentStartup         vt7pty_open against the agent's constructor
    ControlPipe          EXTENDS AgentStartup, PacketStream: the control pipe
                         from vt7pty_open to vt7pty_free
      ControlPipeProofs      theorems about it, also about its two parts
    ControlRpc           RPCs of several threads over the control pipe
      MCControlRpc           instance for TLC, refinement of RpcPromise
        ControlRpcProofs       theorems about it
    RpcPromise           atomic, at-most-once calls with sticky failure
    Scraper              class Scraper against a console that is in use
      ScraperProofs          theorems about it
    ConsoleLine          when does a line have to be sent again?
      TerminalEmulator       EXTENDS ConsoleLine: the user's terminal
        TerminalOutput         EXTENDS TerminalEmulator: class Terminal
          TerminalOutputProofs   theorems about it and about the two above
    KeyPress             the console's records of one key press
      ConsoleInput           EXTENDS KeyPress: class ConsoleInput, fed by a
                             terminal through CONIN, read by a program
        ConsoleInputProofs     theorem about it
    Unicode              conversion of characters, on numbers
      UnicodeProofs          theorems about it
    RecursionTheorems    induction over an interval and folds over a sequence,
                         for the proofs that need them

Definitions named "Mutated form of X" are plausible bugs. Nothing uses them;
each shows that some property would notice the bug.

### NamedPipe

One action per system call of `serviceIo` on an output pipe: `FinishConnect`,
`IssueWrite` (which takes a chunk of at most `kIoSize` out of `m_outQueue` and
gives it to `WriteFile`; the call completes at once if the kernel can buffer
it, else it stays pending), `CompleteWrite`, `PipeError`. The client opens the
pipe, reads it unit by unit and may close its handle at any time. `WriteAll`
and `closePipes` are the two things the rest of the agent does to its pipes.
`sent`, `received` and `broken` (data was given up, by the client or by a
cancelled write) are history. Pipe contents are sequences of abstract units;
`IoSize` and `Quota` are constants.

### AgentSession

The single-threaded loop as a program counter: control pipe, CONIN, CONOUT,
CONERR, then the poll (`StartPoll`, `CheckChildExit`, `ScrapeContent`,
`enableMouseMode`, `PollEnd`) or no poll, then the next pass or `DestroyAgent`.
An action is the code between two points where another process can matter, so
the child may write or exit between the sampling of the console's mode, the
exit check, the scrape and the close. `handleSetSizePacket` scrapes before it
answers (`resizeWindow`), also after the output has been shut down. What a
scrape finds is abstract: the units written to a screen since the previous
scrape, in order. The child may leave descendants on the console that go on
writing (`Background`), and the console's input mode may ask for the mouse
already when the session starts (`MouseAtStart`) and change at any time.

### PacketStream

The bytes of control packets are numbered in the order they are written, so
the pipe and `m_inQueue` are intervals and packets of any size cost the model
nothing. `service` is the input worker: a read completes with any number of
bytes up to `kIoSize`, and no further one is issued while the queue holds
`readBufferSize()` bytes. `pollControlPipe` takes the complete packets off the
queue, stops at an incomplete one, raises the limit for one that does not fit
(`BufferFor`), and ends the agent for one that is too small, too large or
malformed. The client may have `Ahead` packets under way and may hang up.

### AgentStartup and ControlPipe

Both sides of `vt7pty_open`: the library's steps (create the pipe and start
the agent, connect, verify the pid, read the packet part by part, check the
handshake) and the agent's (connect, create each data pipe, send their names,
enter the loop). The agent is of any build in `Builds`, may crash anywhere and
may hang before its loop; another process may connect first. `ControlPipe`
puts this and `PacketStream` together: requests are sent once `vt7pty_open`
has returned, they are read once the constructor is done, and the agent's loop
and the pipe end together, whichever side ends them.

### ControlRpc

The library's side in full: mutex, `RpcOperation`, the write, each read, each
wait with its timeout and its agent-process handle, decoding, `stealHandle`
twice, assignment of the results, and `~RpcOperation`. The agent handles one
request at a time (`handleStartProcessPacket`, `handleSetSizePacket`,
`handleGetConsoleProcessListPacket`), flushes replies part by part, and may stop doing so for
ever, exit or crash. Time is counted in ticks, only for the operation that is
blocked.

### Scraper

The console is a buffer of rows with a window, a cursor and the frozen flag;
a row holds one line of text, or a piece of a sync marker. A poll is a chain
of steps that ends where the code next looks at the console: `ReadInfo`,
`Tentative`, `ReadContent`, `CheckInfo`, `CheckMarker`; `Freeze` and
`FrozenScrape` when the tentative scrape gives up; `DirectScrape` when the
program has changed the buffer's height; the four steps of `resizeImpl`, which
unfreezes the console twice. Between any two of them the program may write a
line (and scroll), edit or blank a row of the window, move the cursor, clear
everything or change the buffer's height, unless the console is frozen. The
host may resize, and does so with its terminal once the agent has answered.
The terminal is kept row by row with its scrollback, which
is where `TerminalOutput` takes over with cells. `findSyncMarker` reads an
array that the console may not have filled if the buffer has just become
lower; the model lets it find anything there.

Left out are columns (so rewrapping; `ConsoleLine` at changing widths is in
`TerminalOutput`), attributes, the hidden console cursor, the second scraper, and a monitor that
limits the window. A window that the user scrolls is not modelled either.

### ConsoleLine, TerminalEmulator and TerminalOutput

`ConsoleLine` has the comparison of a line with its previous contents, at the
same and at other widths, as operators. Each method of `Terminal` is an
operator from the object's state to the object's state. What it writes is a
sequence of commands (a character, CR, LF, cursor up, cursor column, home,
erase, clear, color, show and hide) which `TerminalEmulator`, a terminal with a
wrap state, carries out one after the other (`Run`). The scraper is any caller
that respects its order: lines from the
top of the last window to the last dirty line of this one, of which those from
the first changed one on are sent (in direct mode only the changed ones), then
the cursor; a reset at the beginning of a scrape, which also begins and ends
direct mode. The window and the terminal are made narrower and wider
(`Resize`), and a terminal may keep or lose the columns that a narrower window
hides. A cell is one narrow character with a color; full-width characters and
the parameters of a color's escape sequence are left out.

Taken for granted of a terminal: clearing the screen also clears hidden
columns, erasing the end of a line does not; a pending wrap is dropped when
the window is made wider; what becomes visible beyond what was ever there is
blank, of a color that need not be the console's (`Shows`); and a cursor that
a narrower window would hide is put behind its last column.

The last of these is where the code's knowledge ends. Nobody tells `Terminal`
of a resize, so when the window is made narrower than the place the cursor is
in, `m_remoteColumn` (`Terminal.cc:434`, `:342`) is where the cursor was and
not where the terminal has put it. If the window is made wider again before
anything chooses a column, the object may find the column right and send
nothing, or append to what it believes to be on its left. `astray` records
that: `"cursor"` from such a resize until a CR or a column is sent, `"text"` if
something was written before one was, until the next reset. `CursorPlaced` and
`LinesShown` say what holds outside of it; without it both are false of the
code, already of three columns of which two are taken away and given back.
Two columns, the bound of the `terminal` run, cannot get there; the theorems
hold for all widths.

`wasReset` records, in plain mode, that a reset has left the output in the
middle of a line (until the next newline), and otherwise that it forgot a
hidden cursor (until it is hidden again).

### KeyPress and ConsoleInput

The object's byte queue, `m_dsrSent`, mouse buttons and double click. The
scanners are patterns over symbols (a decimal number counts as one, so 2 and
22 are not told apart); `InputMap` is expanded from rows of the table as
`addDefaultEntriesToInputMap` does it, and `scanInput` tries the recognisers
in the code's order. `pollConinPipe` is one read of CONIN of any length and
`writeInput`; `flushIncompleteEscapeCode` is the poll's. The environment is a
user who types keys and uses the mouse, a terminal that sends each input whole
but may answer a status request late or never, and time. After ESC, Alt-[ and
Alt-O, which could be the beginning of another key for any reader, the user
waits until they have been taken. A mode is a set of switches fixed for a run.

A key press becomes the records of `KeyPress`: modifier keys down, the key
down and up, modifier keys up; with the keyboard layout's virtual key, or
without one; outside the BMP, two records with a code unit each; or, in
escape-input mode, the characters a terminal would send for it. A program on
the console reads the records (`ReadRecord`) and must find the keys that were
typed, with each record's state agreeing with the modifier keys it has seen
go down and up. Mouse events carry the buttons that are held, as the console
sees them.

### Unicode

The characters that `ConsoleInput` and `TerminalOutput` give names to are
numbers here: `encodeUtf8`, `decodeUtf8`, `utf8CharLength`, `encodeUtf16`,
`decodeSurrogatePair`, and `scanUnicodeScalarValue`, with which cells of the
console, whatever they hold, become characters. These are pure functions over
1.1 million values, so they are proved and not enumerated.

## 3. What the runs check

| Run | Bounds | Shows |
| --- | --- | --- |
| `session_conout` | CONOUT, 2 units of output, 1 event, 2 requests, background writers, chunks of 2, quota 1 | `TypeOK`, `StreamIntact`, `FinalOutputDelivered`, `OrderlyCloseKeepsOutput`, `MouseOffAtEof`, `OneChild`, refinement of `OutputPromise` |
| `session_liveness` | CONOUT and CONERR that connect, drain and close independently, 1 unit each, 1 request | `PipesCloseAfterExit`, `AgentExitsAfterShutdown`, `AgentFollowsControlPipe` |
| `session_reply_lost` | 1 pipe, 2 requests | violation: `RpcBeforeExitAnswered` |
| `startup` | 5 builds, timeout of 2 ticks, payload in 2 parts, hangs; 3 packets of 1, 2, 3, 6 or 7 bytes, well formed or not, 2 ahead; header of 2, largest packet 6, reads of 2, buffer of 3 | `StartupTypeOK`, `OpenedWithOurAgent`, `NamesCanBeOpened`, `OpenReturns`, `NoOrphanAgent`, `PacketsInOrder`, `KeepsReading`, `PacketsHandled` |
| `rpc` | 2 threads, 3 calls, timeout of 1 tick | `RpcTypeOK`, `ReplyMatchesRequest`, `NothingLeftBehind`, `HandlesAllOrNone`, `EveryCallReturns`, refinement of `RpcPromise` |
| `rpc_long_list` | 1 call | violation: `LongListReported` |
| `terminal` | 2 rows of 1 or 2 columns, 2 changes of the width, 3 lines, 1 character, 2 colors (1 where the object was told to send none), with and without direct and plain mode | `TermTypeOK`, `LinesShown`, `CursorPlaced`, `CursorShownUntilReset`, `CursorNeverOvershoots`, `PlainOutput` |
| `terminal_cursor_lost` | 3 by 2 cells | violation: `CursorShown` |
| `scraper` | buffer of 9 rows, window of 2 or 3, marker of 1 row with a margin of 1, 10 lines, 2 of them between polls, 2 other acts (edit, clear, cursor, height, resize), consoles before and since Windows 10 | `ScraperTypeOK`, `ScrollCountExact`, `HistoryComplete`, `WindowShown`, `NeverAboveScreen`, `ConsoleLeftAloneBeforeW10` |
| `scraper_stale_info` | buffer of 14 rows, window of 2, margin of 4, 15 lines, 6 between polls, 1 clear | violation: `ConsoleLeftAlone` |
| `input` | 2 inputs of 24 keys, 2 buttons and the wheel at 2 places, or 3 mouse inputs; cursor not in the first row; 3 modes | `InputTypeOK`, `InputAsTyped`, `EveryInputArrives`, `DoubleClickGenuine` |
| `input_dsr_as_key` | 1 key, cursor in the first row | violation: `InputAsTyped` |

Why the bounds suffice: a chunk of two units and a quota of one give writes
that complete at once, that pend, and that leave part of themselves in the
kernel. Two units of output
and one event cover output on both sides of the exit and of each poll. Two
requests cover a spawn and a resize, two resizes, and two spawns, in every
order relative to the end of the session. Three calls of two threads cover a
failed call with its late reply, a call waiting for the mutex meanwhile and one
that follows. Two columns are a first and a last one, which `sendLine` treats
differently; two rows and three lines scroll the terminal once; a space, a
character and two colors give every kind of trailing blank.

Ten lines in a buffer of nine rows scroll it by two with the marker in place,
and give line 9 the slot of line 0 in the line buffer. Two lines between two
polls keep a marker from being scrolled out unseen: with a window of `rows`
rows, the newest marker is at least `9 - rows - 5` rows from the top when the
buffer begins to scroll, which stands for fewer than about 1300 lines between
two polls of the real buffer of 3000. With more, a marker can be lost and the
scraper starts over, as after a clear, and text of the lines between is not
in the history; nothing promises otherwise. Two other acts are enough for an
edit after a resize, a clear during one, leaving and re-entering a
full-screen program. The six properties also hold, before Windows 10, with
three other acts for 10 lines, and with four for 6 lines; and all but the
action property with three acts for 6 lines since Windows 10 (up to 18 million
states, with a full-screen program of 2 or of 5 rows and a window that becomes
higher or lower first). Those instances take TLC longer than a run of the
project should, so `scraper` has two.

Two inputs are an ambiguous one and what follows it, with a reply before,
between or after them; three mouse inputs are a double click. Up to three
bytes are still unread when more are typed, so a chunk may hold the end of one
input, the whole of another, and a reply.

Of the packets, a size of 1 is smaller than the header, 7 is larger than the
largest, 6 takes three reads and does not fit in the buffer at first, and two
packets under way end one in the middle of a read that holds the beginning of
the other. In the terminal a second change of the width uncovers columns that
the first one hid, of a line that was sent or not sent in between.

`MouseAtStart` is `{FALSE}` in the runs: mouse mode from the start takes TLC
longer than it is worth, and the proofs cover it.

## 4. Fairness

The loop keeps running (`WF` of the agent's steps) and 25 ms pass again and
again (`SF` of `StartPoll`: a pass in which the poll interval has elapsed
recurs, `EventLoop.cc:49`). The client opens its pipes and reads, as the API
asks of it; nothing makes it send requests, and nothing makes the child exit.

For RPCs and `vt7pty_open` the caller's thread runs and time passes. Nothing is
assumed of the agent, which may hang or die: `OpenReturns` and
`EveryCallReturns` hold all the same. `NoOrphanAgent` and `PacketsHandled` are
claims about an agent that keeps running; that it does is their premise, and
not a part of the specification the others are checked under.

For the input, CONIN is read, polls recur and time passes; the terminal need
not answer and the user need not type. `ChunkRead` and `GivesUp` state the
fairness of `pollConinPipe` and `flushIncompleteEscapeCode` by what these
actions, and no others, do.

## 5. What is proved

TLAPS checks the following for every value of the constants that the `ASSUME`s
allow: any number of threads, calls, packets and units, any timeout and any
size of a chunk, a packet, a buffer or a line. TLC evaluates the `ASSUME`s with
the values of the runs. No other assumption is made. Each invariant is proved
from an inductive one, with a step per action.

* `AgentSessionProofs`, of the pipes: `PipeTypeCorrect` and
  `PipeStreamIntact`. `StreamIntact`
  is inductive only with `CloseGivesUp` (once the client has closed its handle
  before the end of the stream, data has been given up): without it
  `PipeError`, which drops a chunk, could break the equation.
* `AgentSessionProofs`, of the session: `SessionTypeCorrect`, `SessionStreamIntact`,
  `FinalOutputAlwaysDelivered`, `OrderlyCloseAlwaysKeeps`,
  `MouseAlwaysOffAtEof` and `OnlyOneChild`. The inductive invariant
  `SessionInv` adds to the pipes' invariant that (`ScrapedInOrder`) what has
  been scraped never exceeds what was produced, (`ShutdownOrder`) the closing
  flag is raised exactly when the child has been reaped, while the decision to
  scrape still stands until the scrape that follows the exit check is done,
  (`SentCovers`) whatever has been scraped has been passed to the pipe, and
  once output is shut down that includes all the child wrote,
  (`DrainedCovers`) a pipe that was closed in an orderly way had nothing left
  to send, (`OpenedInv`) only a pipe that was connected has a stream to close,
  and (`MouseInv`) mouse mode is off, by the last such sequence in the stream,
  whenever `m_mouseModeEnabled` says so, and it says so from the first poll of
  the shutdown on. With `StreamIntact` that puts every unit of the child, and
  the end of mouse mode, into what the client has received when it sees end of
  file. That there is one child is an action property: `StepShapes` says what
  a step may do to `child`, and a reaped one has raised the closing flag.
* `AgentSessionProofs`, of the promise: `SessionImplementsPromise`, the refinement of
  `OutputPromise`. `Units`, the child's units in a stream, is the fold of a
  function over the stream, and `UnitsConcat` says that the units of two
  streams put together are the units of the one and then of the other. The
  invariant adds to `SessionInv` that the units the agent has passed to a pipe
  are all those produced up to the last scrape, in order (`UnitsInOrder`), and
  that what was read is the beginning of what was sent (`ReadsBeginning`). A
  child's write then is a `Produce`, its exit an `Exit`, a read of a unit a
  `Deliver`, and every other step an `End` of a stream or a stutter; that the
  outcome of a stream lasts (`OutcomeLasts`) is what makes it an `End`.
* `ControlPipeProofs`, of the packets: `PacketsKeepOrder`, `QueueStaysBounded` (the queue
  never holds more than the largest packet, or the buffer it started with, and
  one read) and `ReadingGoesOn`. `Framed` says where in the stream the packets
  lie, `AtBoundary` that the agent stands at the beginning of one, and `Room`
  that a worker that is not reading has less in its queue than it may hold.
  That `KeepsReading` holds needs `readBufferSize` to be at least a header's
  size and a packet that does not fit to raise it.
* `ControlPipeProofs`, of startup: `StartupTypes`, `OpensOurAgent`, `NamesAreOfPipes` from
  `StartupInv`, whose core is that the setup packet's parts are under way in
  order and none twice (`InSequence`) and what the library has established at
  each point of `vt7pty_open` (`Established`). `ImplementsStartup` and
  `ImplementsStream` show that the composition is one of `AgentStartup` and
  one of `PacketStream`, step by step, so what is proved of either holds of it
  (`SessionPacketsInOrder`, `SessionKeepsReading`).
* `ControlRpcProofs`: `RpcTypes`, `OwnReplies`, `BothSidesInStep`,
  `AllHandlesOrNone`, and `RpcImplementsPromise`, the refinement of
  `RpcPromise`. `InStep` is the heart of the invariant: at each point of an
  exchange there is either the request or parts of its reply under way and
  nothing of an earlier call, because a call that fails closes the pipe.
* `ScraperProofs`: `PositionsStayInside` and `MarkerLeavesWindowAlone`, for any
  size of the buffer, of the marker and of its margin, any heights of the
  window and any amount of output between two polls. The first is the type
  invariant: window and cursor are inside the buffer, the marker, the dirty
  lines and every row that is looked at are too, and the terminal's cursor is
  on its screen; it rests on what the two loops that send lines leave as it
  was (`LinesSent`, `RowsSent`). The second says that before Windows 10 a
  marker is written above the window only. It is proved of each step with
  an invariant that adds to the types that the mode fits the buffer's height
  that was read (`ModeFitsInfo`), that what was read covers what will be
  looked at (`ReadFits`), that a console frozen before it is read stays as it
  was read (`InfoCurrent`), and where the marker is (`MarkerAbove`): above
  `m_dirtyWindowTop` between scrapes, and while a resize is under way above
  the window and above the last `m_ptyRows` rows, where the window is going to
  be. This is where the `std::min` of `resizeImpl` is needed, and the reset
  of the tracking when the window has moved up.
* `ScraperProofs`: `ScrollIsCounted`, the property `ScrollCountExact`:
  `m_scrolledCount` is the number of lines that have scrolled out of the
  buffer. It has a hypothesis, `HistoryFits`: three times the largest height
  (of a window, or of a buffer a program chooses in direct mode) and the lines
  written between two polls together, and twice the marker and its margin, are
  no more than the buffer. That is what the code relies on: a line that
  scrolls out while there is no marker is not counted, so the window must not
  get to the end of the buffer from a place where a poll leaves no marker.
  With the constants of `Scraper.h` it allows 856 rows for the height and the
  lines of one poll together. The hypothesis is sufficient and not necessary:
  the run `scraper` does not fulfil it, and there TLC checks the property all
  the same. Two more invariants are needed.
    * `PositionInv`, how far down the window can be: the window follows the
      lines written and is otherwise moved only near the top, so it is not
      further down than when it was read but for the lines written since
      (`NotFarDown`); it has moved up only to get there (`NotUp`); in direct
      mode it is near the top (`DirectLow`); and without a marker it is above
      `MarkedFrom` (`UnmarkedHigh`), because a scrape further down writes one.
      Hence nothing scrolls without a marker (`UnmarkedStays`).
    * `ScrollInv`, of the count: wherever the marker with the current counter
      is found, it is as far above `m_syncRow` as lines have scrolled and are
      not yet counted (`MarkerTells`); no marker in the buffer has a later
      counter (`Counters`), so one that is written anew is the only one of its
      kind; and the buffer has its full height whenever lines are counted
      (`HeightKept`), which a program can change at any time the console is
      not frozen. The steps of the application are summed up by what they do
      to the positions and the markers (`AppEffect`).
* `ScraperProofs`: `NoAssertionFails`, the property `ScraperTypeOK`, under the
  same hypothesis. Besides the types, which hold for any heights, it says that
  no ASSERT on rows fails: the lines to read begin inside the buffer
  (Scraper.cc:572) and no marker is placed above row 1 (Scraper.cc:697). Like
  the property it claims nothing once the application has changed something
  the scraper cannot see (`missed`), which can make the second one fail (see
  section 6). Wherever the marker is found, its row must be at least 1 and the
  lines scraped must not end before those that have scrolled. The marker can be
  anywhere that scrolling and a resize may have brought it, so the invariant,
  `AssertInv`, bounds how far it can move from one poll to the next.
    * `MarkerClose`: the marker is in one place; it has moved from `m_syncRow`
      only if the window is at the end of the buffer; and the window is not
      far below it, nor far below the lines scraped, at any step of a resize
      (`Near`). A marker near row 0 would therefore have the window near the
      top, where nothing scrolls: `HistoryFits` again.
    * `MarkerPlaced` and `DirtyNear`: what each step has done to `m_syncRow`,
      `m_scrapedLineCount` and `m_dirtyLineCount`; `FullHeight` and `PlaceKept`:
      during a poll the buffer has its full height, and while the console is
      resized the window has not moved up from where it was read, or is at the
      end of the buffer; `TopExpected`: `m_dirtyWindowTop` is a row, and the
      window that is expanded last fits into the buffer.
* `TerminalOutputProofs`: `TerminalTypes`, `CursorStaysPlaced`,
  `CursorIsShown`, `CursorStaysBehind`, `LinesStayShown`,
  `PlainOutputIsPlain`. What a method sends
  is a sequence of commands as long as the line, so the module first shows, by
  induction over it, that commands sent in two parts do what the parts do one
  after the other (`Run` as a fold), and then what the cells of a line leave
  on the row, in the pen, and at the cursor, up to any cell (`CellsSent`). Each method gets a
  lemma that says what it makes of object and terminal together, and four
  inductive invariants follow, each of which uses those before it, and a fifth
  for plain output, which rests on the first alone:
    * `Types`: `TermTypeOK`, and that `m_lineData` has as many cells as
      `m_remoteColumn` says whenever it is valid (`LineKept`, the ASSERT of
      `sendLine`), that what is remembered of a line has between one cell and
      the width of the window, and where the scrape under way is.
    * `Placed`: the terminal's cursor is no further right than
      `m_remoteColumn`, and exactly there unless `astray` (`Known`); no line
      that may still be sent has scrolled off the screen and nothing has been
      sent below the screen's last row (`InReach`), without which moving up
      would stop short; the pen is the color the object believes it to be
      (`PenKnown`).
    * `Hiding`: a cursor the object has hidden is hidden, and one that is
      hidden without its knowledge was forgotten by a reset.
    * `Shown`: the row a line is on agrees with what is remembered of it, in
      the columns that can be seen and in the hidden ones as well
      (`AgreesTo`), and there is nothing on rows below. Hidden columns are
      why `LinesShown` is not inductive by itself: a wider window uncovers
      them. Three facts about `ConsoleLine`, theorems of their own, carry the
      step: a line that is not sent again is shown (`UnsentLineIsShown`), one
      that is sent is shown (`SentLineIsShown`), and what the object remembers
      agrees with the terminal after its width has changed, if hidden columns
      are kept and if they are lost (`HiddenColumns`).
    * `PlainShown`, of plain output: nothing but text, line breaks and the
      colors asked for has been sent, and there is nothing below the cursor's
      row (`Plain`, which every such command keeps: `RunPlain`). Since plain
      output never goes up, a line break therefore leads to an empty row, and
      the row of the cursor holds the first `m_remoteColumn` cells of
      `m_lineData` and nothing else (`OwnRow`), unless a reset or a narrower
      window came in between and no line break followed. From there each cell
      that is sent adds its own (`LineWritten`).
* `ConsoleInputProofs`: `DoubleClicksAreGenuine`. What a program has read is
  the only trace of earlier clicks, so the invariant follows the records from
  the scan to the program. `MouseSeen`: the mouse events the program has seen
  say which buttons the object believes to be held, and a click that a second
  one may still complete is the last press among them, recent and not itself a
  double click. `ReadsInv`: that holds of a program after it has read what the
  object has collected so far, and each double click it has read in this call
  is genuine; records of keys leave it (`ReadsKeys`), and each of the five
  things a report can say keeps it (`MouseKept`). `ScanInv`: so it holds after
  each step of the scan, whichever branch of `scanInput` is taken, and by
  induction of `doWrite`. Without mouse input the program is told of no click
  at all, while the object keeps its own account.
* `ConsoleInputProofs`: `RequestsMatchReplies`, the invariant `InputTypeOK`: at
  most one request for a report is outstanding, and outside plain mode
  `m_dsrSent` is set exactly while one is. It holds of every selection of
  columns and rows that are numbers (`NumbersAssumption`), and also after a
  second has passed in the middle of an input. `TypesInv` adds what it needs about the
  stream, the bytes taken from CONIN and those still in it: what would be
  taken for a reply stands in it at most once (`OneReply`), and only when the
  agent has seen one reply less than the terminal has sent. The scan drops
  bytes from the front (`Scanned`), so it can read a reply that is there but
  not make one (`CutKept`), and what is typed does not end in the `R` of a
  reply (`InputSymbols`, from the table's entries without F3; `Typing`). A
  reply torn by the timeout is never read: the request then stays
  outstanding, and no other is made. Mouse reports name one of three buttons
  for the same reason, that their flags follow the `<` wherever the stream is
  cut (`Flagged`).
* `UnicodeProofs`: a character that is encoded is decoded again
  (`Utf8RoundTrip`), from nothing but its encoding (`Utf8Canonical`: no
  overlong form, no surrogate); a code unit or a surrogate pair is the
  character it was made from (`Utf16RoundTrip`); what is found at a cell
  stays in its line (`ScanStaysInLine`) and is never sent as an escape
  (`NoEscapeFromCells`).

The library's induction theorems take an operator as a parameter and cannot be
used as they are. `RecursionTheorems` states what the proofs need about sets
and functions instead: induction over an interval from the well-foundedness of
`<`, that a function defined by recursion over an interval exists, and the
fold of a function over a sequence, with its value on a concatenation.

Model-checked only: liveness and what depends on fairness, which TLAPS cannot
prove; of `ConsoleInput` `InputAsTyped`, which says what each input is parsed
as, byte by byte; and of `Scraper` the properties
`HistoryComplete`, `WindowShown` and `NeverAboveScreen`. These too hold only
where less is written between two polls than the buffer holds (`MaxBurst`): a
buffer that has scrolled by more than its own length carries no trace of what
it lost. `ScrollCountExact` and
`ScraperTypeOK` are proved under `HistoryFits`; the smaller buffer of the run
does not fulfil it, and there they are model-checked.

## 6. Disagreements found

* `RpcBeforeExitAnswered`: with exit-after-shutdown the agent may carry out an
  RPC and exit in the same pass of its loop, without writing the reply. The
  header only warns about calls issued after the agent has exited.
* `LongListReported`: a process list longer than the caller's array fails the
  call and closes the control pipe.
* `CursorShown`: a reset of the terminal forgets that its cursor is hidden but
  does not show it. If the next scrape then draws nothing past the cursor, the
  cursor stays hidden though the console shows one.

* `ConsoleLeftAlone`: when a tentative scrape gives up, the frozen scrape that
  follows works with the position that was read before the console was frozen.
  A clear followed by some `SYNC_MARKER_MARGIN` lines of output in between
  makes it place the marker over live text. `ConsoleLeftAloneBeforeW10` shows
  that nothing of the kind happens where the console is frozen first.

* `InputAsTyped`: an ESC key makes the agent ask for the cursor's position.
  With the cursor in the first row, columns 2 to 8, the reply `ESC [ 1 ; n R`
  reads, with the ESC before it, as the table's entry for Alt and a modified
  F3: the console is given that key, and no ESC. For the same reason modified
  F3 keys of this form are taken for replies; `UserKeys` leaves them out.

The timeout of the library is applied to every overlapped operation of an RPC,
so a request may take several of them, while `vt7pty.h:105` speaks of the time
to wait for a request. The model shows it (`waited` starts anew with each
operation); no run is spent on it.

What the scraper misses, which no document rules out. It recognises a clear by
its marker being gone or by the window moving up since the last scrape, and it
takes what happens between two steps of a resize for its own doing. So these
go unnoticed, and the ghost `missed` marks them until lines are counted anew:

* a clear, an edit or a move of the cursor while a resize has the console
  unfrozen: `m_dirtyWindowTop` is set to where the resize puts the window;
* before the first marker, a clear after which the program fills the window
  again down to where it was, all between two polls;
* a clear after a scrape has read the window's position, from Windows 10 on;
* a buffer made lower and restored between two polls. If the marker was
  scrolled to row 0 meanwhile, the next resize fails `ASSERT(row >= 1)` of
  `createSyncMarker` and ends the agent.

Then old lines are overwritten on the terminal and not cleared, and a line that
has left the screen is sent to its first row. `HistoryComplete`, `WindowShown`,
`NeverAboveScreen` and the assertions in `ScraperTypeOK` claim nothing of such
a stretch. Each of these takes two or three odd acts in a row; they were found
by letting `MaxOdd` be 3 and 4, and with `missed` the properties hold there as
well (see section 3).

Lines a resize erases may come back into the window as
blank rows that the terminal does not show, as a comment in `resizeImpl` says
(`erased`, `touched`). A clear of a screen between two polls cannot be told
from its result, so `ScrollCountExact` and `HistoryComplete` hold from one
clear that is noticed to the next one (`damaged`, until tracking starts anew).

A reset in plain mode writes nothing, so the next line continues the row the
output was in. No document says otherwise; `PlainOutput` claims nothing
about the line after a reset.

## 7. Not modelled

* The console's fonts (`ConsoleFont.cc`), and the set-up of the console in the
  agent's constructor: a sequence of calls into undocumented interfaces, with
  no state of the agent's own.
* The wrappers of the console API, apart from the freezing and the buffer
  operations in `Scraper`; a console API call or an allocation that fails.
* Full-width characters and attributes as the terminal draws them, rewrapping,
  the second scraper (CONERR has one of its own, of the same class), a window
  the user scrolls.
* Of the input: console modes that change during a run, mouse motion,
  modifiers of mouse events, and the
  rows of the table that are like those in `Encodings`.
* `m_outQueue` has no limit in the code, and none is claimed.
* Configuration objects, error translation, security descriptors, random
  names, tracing, version and path look-up, argument parsing: sequential
  helpers with no state between calls. The debug server and the tool that
  shows input are for developers. Tests, packaging and vendored code are not
  part of the running system.

See "components" in `PROJECT.json` for the status of each part.

## 8. Plan

Done: `NamedPipe`, `AgentSession`, `OutputPromise`; `ControlRpc`,
`RpcPromise`, `AgentStartup`; `Scraper`; `ConsoleLine`, `TerminalOutput`;
`KeyPress`, `ConsoleInput`, `Unicode`; `PacketStream`, `ControlPipe`; the
proofs of section 5, `LinesShown` and the refinement of `OutputPromise` among
them, `ScrollCountExact`, `ScraperTypeOK` and `PlainOutput`.

What could come next:

1. `NeverAboveScreen` of `Scraper` from the invariants of `NoAssertionFails`,
   then `HistoryComplete`, whose step goes over the lines of a scrape.
2. The part of `InputAsTyped` that says that no modifier key is
   left down after an input.
3. Console modes that change while a key is being read.
4. Two scrapers on one console, for CONERR.
