# Waynergy, specified

TLA+ modules of [waynergy](../src/README.md), a Synergy/Barrier client for Wayland, with the
TLC runs that check them and the proofs TLAPS checks. Paths below are relative to the
repository (`src/` there is the directory of the C files).

1. [The system](#the-system)
2. [The modules](#the-modules)
3. [The runs](#the-runs)
4. [Fairness](#fairness)
5. [The proofs](#the-proofs)
6. [Known departures](#known-departures)
7. [What is not modelled](#what-is-not-modelled)
8. [Plan](#plan)

## The system

One process, one thread. `main` sets up the configuration, the clipboard monitors and the
Wayland objects and then loops: `uSynergyUpdate` connects while there is no session, `netPoll`
serves one while there is. `netPoll` polls the server's socket, the compositor's, the socket
on which `waynergy-clip-update` processes report clipboard changes, and up to eight of those
processes. Around the thread, everything acts at any time: the server, the compositor, the
desktop's user, signals, the clock, and children (`wl-paste`, `wl-copy`,
`gnome-session-inhibit`).

| component | state | operations | talks to | what makes it correct |
|---|---|---|---|---|
| session (`uSynergy.c`, `net.c`, `main.c`) | `uSynergyContext`, `synNetContext`, `netPollFd` | connect, poll, receive, one handler per packet, two timeouts, disconnect | server; calls all others from packet handlers | the socket polled is the session's; it never blocks where nothing is pending; a refusal configured as fatal is final; a lost session comes back; nothing of an old session leaks into a new one |
| framing (`sUpdateContext`) | receive buffer, offset | receive, cut, throw away oversized packets | session | packets are handed over whole, in order, all that fit |
| keyboard (`wl_input.c`) | keymaps, `key_press_state` | `wlKey`, `wlKeyRaw`, `wlKeyReleaseAll` | packet handlers, idle inhibition, input backend | counts are the keys held; nothing stays down on a screen that was left |
| clipboard contents (`uSynergy.c`) | per clipboard: buffer, lengths, in-stream and grabbed flags | DCLP start, chunk, end; CCLP; COUT; local update | server, `wl-copy`, `wl-paste` | two writers share a buffer without corrupting it; no feedback loop |
| clipboard sockets (`clip.c`, `clip-update.c`) | listening socket and its queue, eight slots | connect, accept, read in two parts, close; `clipSetupSockets` | `wl-paste`'s processes, the poll loop, restarts | a text is handed over whole, at most once, and not before an older one; none is left waiting for a slot while there is a session |
| outputs (`wayland.c`, `main.c`) | list of outputs | registry and output events, `wl_output_update_cb` | compositor; `uSynergyUpdateRes` | the size reported is the layout's |
| idle inhibition (`wl_idle*.c`) | a notification object or an inhibitor's pid | start, stop | CSEC, main, cleanup | off means off; what is stopped is what was started |
| certificate pinning (`net.c`, `config.c`) | `tls_hash`, the file `tls/hash/<host>` | load, store, compare | session, TLS library, disk | trust is given once, unless the hash cannot be read |
| signals (`sig.c`) | `sigDoExit`, `sigDoRestart` | handlers, `sigHandleRun`, `cleanup`, `Exit`, `Restart` | all | a quit is honoured, but for one that meets the program being replaced |
| mapper (`mapper.c`) | `raw_keymap`, position | answer, skip, undo, print | user | what is printed is what was answered, and was pressed for that key |
| configuration (`config.c`, `ini.h`) | `config_ini`, open descriptors | load, combine, look up; commands at the screen's entering and leaving | disk, main, packet handlers | the last file that has a key wins; nothing is found that was not written |
| command line (`sopt.h`, `main.c`) | `optind`, `cpos`, the settings | one option per call, main's switch | configuration | the last option wins, in whichever form |
| input backends, mouse, log, os, helpers | see `PROJECT.json` | | | |

The hard behaviours are the interleavings of the one thread with everything around it: state
that outlives a disconnection (a disconnection has two halves, `sSetDisconnected` and
`synNetDisconnect`, and each forgets what the other resets), the poll set and its `revents`,
which outlive a reconnection inside `netPoll`'s loop, two writers of the clipboard buffers,
events of outputs that come and go while others are described, and death between two writes.
`PROJECT.json` lists these hazards at their lines.

## The modules

| module | models | |
|---|---|---|
| `Lifecycle` | what the client promises about its connection: closed, live, lost, refused, stopped | abstract |
| `Session` | `main`'s loop, `uSynergyUpdate`, `netPoll`, `syn_connect`, `sProcessMessage`, signals | implements `Lifecycle` |
| `PacketPipe` | packets in, the same packets out, but for those that do not fit | abstract |
| `Framing` | `sUpdateContext` by bytes | implements `PacketPipe` |
| `Mailbox` | what the clipboard's socket promises of the texts copied on the desktop | abstract |
| `ClipServer` | `clip.c`'s socket and slots with the processes of `clip-update.c` | implements `Mailbox` |
| `Clipboard` | `m_clipBuf` and its lengths between DCLP/CCLP/COUT, `clip-update` and `wl-copy` | |
| `Keyboard` | `wl_input.c` between DKDN/DKRP/DKUP/COUT and the compositor | |
| `IdleInhibit` | `wlIdleInhibit` with its three backends, `cleanup` | |
| `Screen` | `Keyboard` and `IdleInhibit` together, from start-up over `Exit` and `Restart` to the next start | composition |
| `Outputs` | the list of outputs of `wayland.c`, `wl_output_update_cb` | |
| `TlsPin` | `syn_connect`'s addresses, `syn_connect_setup`'s hash, `configWriteString` | |
| `Ini` | `ini.h`, and `ini_cat` and the lookups of `config.c`, as operators | |
| `Options` | `sopt_getopt`, and what a command line means | |
| `Startup` | `configInitINI`, `ini_d_load`, main's settings and switch, `syn_active_cb` | composes `Ini` and `Options` |
| `Mapper` | the dialogue of `waynergy-mapper` | |
| `SessionProofs`, `FramingProofs`, `ClipServerProofs`, `ClipboardProofs`, `ScreenProofs`, `OutputsProofs`, `MapperProofs` | theorems about the module of that name | |
| `ConfigProofs` | theorems about `Startup`, with `Ini` and `Options`, and about `TlsPin` | |

`MCSession`, `MCScreen`, `MCClipboard`, `MCOutputs` and `MCStartup` add the values TLC needs.

**Session** is the composition: the thread's program counter `pc` walks through `netPoll` and
what it calls. `main` is the top of the loop in `main`; `poll` is in `poll(2)`; `ready` is
after it, at the socket's turn; `eat` is `sUpdateContext`'s loop over whole packets; `check` is
the test of the time; `wl`, `clip`, `upd` are the turns of the compositor, of the monitor
socket and of an updater; `loop` is the end of an iteration. Between any two of these the
others may act; inside an action only the thread itself runs, as nothing else can change its
memory but the signal handlers, which set flags that are read at the points `HandleSignal`
names. `restart` and `fatal` are `cleanup` before `execvp`, for a signal or a failure of the compositor: signals arrive
there, too. Descriptors are numbers, since the kernel hands out the lowest that is free and that is
why the poll set survives a reconnection: `Sock` is the lowest free one after start-up,
`Monitor` is the clipboard's below it, or standard input. A packet travels in two parts so that a
read can end in its middle, and each part in the buffer remembers whether its connection is
`old`. The server's side is kept as far as properties need it (`greeting`, `unacked`), and it
follows the protocol: it greets first and sends the rest after the HelloBack, but may
refuse or close at any time. The variable `lost` is history: the reason the last session ended.

The variables carry the names of the C fields; a bound is named where it stops an action
(`MaxQueue`, `MaxUnacked`, `MaxPressed`, `MaxPending`, `MaxChanges`, `MaxPackets`, `MaxRestarts`,
`Backlog`, `Notifications`).
Definitions marked `mutant` are the mistakes the properties are tested with; no specification
uses them.

**Framing** is at a smaller scale: digits of base 3 in place of 256, a buffer of 8 bytes in
place of 65535. The ratio kept is the one that matters: the buffer is the largest number of
half a header, so lengths beyond it exist. A header has four digits as in the code (`HeaderLen`), their `Base`
is a constant. `Half * Half` is 2^32: what is left of an oversized packet is an `int` (`ToInt`), negative for the lengths
from 2^31 on, and the read of that size fails (`DrainFails`). What the code does when a length plus the header's four
bytes wraps around (`Wraps`) is left out; the model stops there.

**Keyboard** keeps beside the program's counts the server's view (`held`) and the
compositor's (`seat`). In **Screen** it meets the idle key, which `wl_idle_ext.c` taps while a
notification lives, and the end of the program, with which the virtual keyboard goes.
**Clipboard** counts in cells, two for a number of four bytes and one for a letter, and both are numbers below
`Base`: what is read at the wrong place is a number as well. `memcmp` may find anything in cells that are behind the
buffer or that nobody has written (`SurelyContains`, `PerhapsContains`). **Outputs** has one axis,
and its compositor follows the Wayland protocol (properties of an output end with `done`).

**ClipServer** is the part of the poll loop that `Session` has with one slot: a round polls,
accepts at most one process (`Monitor`) and serves the slots that were readable at the poll, in
their order (`due`) -- if there is a session when the round comes to them: `connected` is `m_connected`, which
`uSynergyUpdate` may take away and give back in any round. Without it only the server's socket is polled, and
what the last poll of all has reported stays where it is, to be served when the session is back, or thrown away
when `netPoll` returns first (`Return`). A message is two parts, the letter and length and then the text; the second may be
more than a socket holds (`Big`), so that its process waits for the program. A re-executed program
has inherited every descriptor and knows none of them: whoever is connected there is `adrift`, as is who had
something in the sockets of a program that has ended (`Exit`).

**Ini** keeps names as model values with the relation `Prefix` in place of `strncasecmp`, because the code
compares only as many letters as the name looked for has. **Startup** reads `config.ini`, then the snippets
in any order, then the options, with a limited number of descriptors, of which each file read takes one
for good. **Options** parses words letter by letter, and says beside the parser what a
command line means (`Given`, `LastArg`), which is what `OptionsOverride` compares.
**TlsPin** takes a certificate for its hash, and lets the program die between any two steps, and the file fail to be
opened, read, created or written (`LoadFails`, `CreateFails`, `WriteFails`).
**IdleInhibit**, **Mapper** and **Clipboard** carry histories that no code reads, for the properties: `ended`, an inhibitor has ended
by itself; `pressed`, the code pressed last when a key was asked for; `grabs`, the CCLP packets sent.

## The runs

`PROJECT.json` has one entry for each, with what it shows. Ten runs pass and two find a
violation; each property of a passing run has a mutant that breaks it. They are run by
`tlc -config <run>.cfg <module>`.

| run | bounds | what makes them enough |
|---|---|---|
| `session_packets` | all kinds of packets but EBAD, which is treated as EBSY; a compositor that may fail, a clipboard whose monitor may break; 2 parts under way | every handler, over connections that break in the middle of a packet; reconnection inside the loop, `nfd` = 1, stale `revents`, a refusal |
| `session_live` | a refusing packet and one of input, the clock, quit and restart signals, a compositor that fails, standard input in the place of the monitor | every phase must be left by each of its ways, and signals meet every step, a restart under way among them |
| `framing` | three packets of lengths 0, 1, 4, 6 and 10 | every way to cut the stream; packets that are empty, fill the buffer exactly, fit only without their header, and exceed the buffer |
| `screen` | keys sharing a code, remapped, dropped, outside the map; three presses; two pids and two objects, two backends | a keymap with an offset and a mapping given twice; broken connections, changed ids, foreign releases; starts that fail, processes that end, pids used again, a compositor that goes away, restarts |
| `clipboard` | one clipboard, texts of one and four letters, data of two formats in both orders, chunks of 1 to 3 cells of base 4 | a buffer that grows under both writers, streams broken anywhere, a second header that is read in the first's data, comparisons that end behind the buffer; the two clipboards share nothing but `Leave` |
| `updaters` | three processes, one with a large text, on two slots and a queue of two, one restart, sessions without a bound | all slots taken with someone waiting, a process that stalls while others wait, deaths anywhere, a socket that breaks, a session that goes between the poll and the handlers, the program's end |
| `outputs` | two outputs, three geometries, one change, losses, their manager | every order of announcement, change and loss, on both sides of the origin |
| `mapper` | five keys, the last one among them, one without a name | answers, skips and undos in any order, for both forms of output |
| `tls` | two addresses, three certificates | a mismatch on one address and success on the other, a file edited at any point, and one that fails in each of its uses |
| `config` | `config.ini` of up to three lines from six, two snippets, two single-value files; command lines of up to four words; six descriptors, one restart | names that begin with one another, repeated headers and keys, empty and long values, every order of `readdir`; options combined, with arguments and refused; descriptors that run out |
| `session_fatal_timeout` | a farewell, the clock | violated: see [Known departures](#known-departures) |
| `outputs_first_lost` | two outputs and losses | violated: likewise |

Every module with a state has one type invariant: TLC checks those of `Framing`, `Screen` (with
`Keyboard` and `IdleInhibit`), `Clipboard` and `Outputs`; these are proved, as are those of
`Session`, `ClipServer`, `TlsPin` and `Mapper`, and that of `Startup`, which is stated beside its
proof (`ConfigProofs!StartupTypeOK`).

**Session.** `PollWatchesSocket`: the poll set holds the session's socket although nobody updates
it after a reconnection in the loop. `SocketOwned`: the two halves of a disconnection never leave a
session without a socket. `NeverBlocks`: no handler that reads runs without something to read,
although `revents` may be of an earlier poll. `RefusalIsFinal`: a fatal EBSY or EBAD ends the
retries. `CleanAfterFarewell`: the one disconnection that resets everything, a farewell of the
server, leaves a clean start. `LifecycleSteps` and `LifecycleMoves`: the refinement of `Lifecycle`,
without and with its fairness. `QuitHonoured`: a quit signal ends the program in the end, or meets one that is being
replaced because the compositor has failed (`fatal`); it is not about signals that come while the restart asked for by another is
under way. `PeerLossNoticed`, `SessionRestored`: what else must happen in the end.

**Framing.** `InOrder` is the refinement of `PacketPipe`: what is handed over is what was sent,
whole and in order, up to the first packet that does not fit; the pipe promises nothing after that one. `NeverStuck`
and `AllHandedOver` are about streams without such packets (`AllFit`).

**Screen.** `CountsAreKeysHeld` is about a server whose releases match its presses (`regular`,
a history); `DownIsCounted` and `NoneLeftDown` hold whatever it does, and whatever the idle key is.
`OffMeansOff` is about everything but what the code has forgotten (`forgotten`, a history), also over
restarts. `StopsWhatLives` says of both backends that what would be stopped next is what was started last and has not been
stopped: the notification object lives, and under the remembered pid runs the inhibitor. Only an inhibitor that has ended by itself
(`ended`) is excepted, since the program is not told and kills the pid all the same.

**Clipboard.** `InsideBuffer`, `SendsWhatWasCopied` and `GivesWhatWasSent` relate two writers that
keep the buffer's size each in its own way. `InsideBuffer` includes what is compared of the first format, and leaves out what is
compared of a further one, which nothing bounds. `NoFeedback` is the purpose of `uSynergyClipBufContains`: a text that is the first in the
buffer changes nothing and sends nothing, not even another CCLP while the clipboard is grabbed already (`grabs`). It is
about the server's texts, too, from the time on when `m_clipLen` lets their header be read.

**Outputs.** `NoGhosts`, `ReportedIsLayout` and `MeasuredWhenComplete` compare the list with
the compositor's layout once all events are handled.

**ClipServer.** `KeepsPromise` is the refinement of `Mailbox`, which says of two texts only that the one
whose process had ended before the other's began is not handed over after it: with less, both orders are possible.
`Delivered` says that a text that was sent is handed over, if there is service (`Served`): the program comes to the clipboard's
handlers again and again, that is, it lives and has a session when it looks. That is weaker than a session that lasts, and as each
such round was preceded by a poll of everything, enough. What a restart or a broken socket has cut off is excepted.

**Startup.** `LastFileWins` and `CommandIsRun` are about keys that are written plainly (`Plainly`): no other
name can be taken for theirs, once in `config.ini`, not empty. `FoundWasWritten` is about all.
`OptionsOverride` compares the parser with the meaning of the command line.

**TlsPin.** `UpMeansStored` holds until the file is written from outside (`edited`), whatever fails. `OneServer` holds until
then, and as long as no hash that is there fails to be read (`unread`): the code takes that for the first use.
`OnlyTheUserTrusts` is about the program without trust on first use.

**Mapper.** `PrintsTheAnswers` holds as long as nothing is undone (`undone`). `NothingInvented` holds always, and says
less: the code in a line was pressed for its key, and as the last one, when that key was asked for (`pressed`), undone or not.

## Fairness

`Session!FairSpec` assumes:

- `WF(Thread)`: the kernel schedules the process. All its steps outside `poll(2)` are finite:
  sleeps, and reads after `POLLIN` (`NeverBlocks`), are bounded.
- `WF(TimePasses)`: the clock goes on.
- `SF(Polling)`: signals and children's deaths interrupt `poll` (`EINTR`), but not each time.
  Without it a storm of signals could keep the thread from ever looking at its sockets; the code
  has no defence against that.
- `SF(Thread /\ Connects)`: of attempts that are repeated for ever, one succeeds. That is about the
  server and the network, and only `SessionRestored` and `LifecycleMoves` need it.

Nothing is assumed of the server, the compositor, the clipboard or the user.
`Framing!FairSpec` assumes that the client goes on as long as there are bytes to read.
`ClipServer!FairSpec` assumes weak fairness of the program and of each clip-update process that may connect, write
or end: both are scheduled by the kernel. A process may be killed instead, and no text need be copied. Whether there is a
session is not the program's to say, and nothing is assumed of it: the program's fairness may be spent on attempts to connect for ever.
That there is one again and again is the premise of `Delivered`, and stands in the property.

## The proofs

For all values of the constants: any set of packets, fatal errors and actors, any keymap, number of
keys, updaters, slots, certificates or addresses, any files, names, values and command lines, and any
bounds, so queues of any length. Only the named assumptions of the modules are used.

| theorem | property |
|---|---|
| `SessionProofs!TypeCorrect`, `SocketAlwaysOwned`, `PollSetCurrent`, `HandlersNeverBlock`, `RefusalAlwaysFinal`, `FollowsLifecycle`, `StartsClean` | `TypeOK`, `SocketOwned`, `PollWatchesSocket`, `NeverBlocks`, `RefusalIsFinal`, `LifecycleSteps`, `CleanAfterFarewell` |
| `ClipServerProofs!TypeCorrect`, `PromiseKept` | `TypeOK`, `KeepsPromise` |
| `FramingProofs!TypeCorrect`, `NeverGivenUp`, `HandsOverInOrder` | `TypeOK`, `NeverStuck`, `InOrder` |
| `ClipboardProofs!TypeCorrect`, `NothingBeyond`, `SendsTheCopy`, `GivesTheData`, `CopiedOnce` | `TypeOK`, `InsideBuffer`, `SendsWhatWasCopied`, `GivesWhatWasSent`, `NoFeedback` |
| `ScreenProofs!TypeCorrect`, `CountsMatchTheServer`, `NothingDownUncounted`, `LeftMeansReleased`, `OffIsOff`, `DestroysOnce` | `ScreenTypeOK`, `CountsAreKeysHeld`, `DownIsCounted`, `NoneLeftDown`, `OffMeansOff`, `StopsWhatLives` |
| `OutputsProofs!TypeCorrect`, `ListIsCurrent`, `SizeIsCurrent`, `MeasuresComplete` | `TypeOK`, `NoGhosts`, `ReportedIsLayout`, `MeasuredWhenComplete` |
| `ConfigProofs!StartupTypeCorrect`, `LastOptionWins`, `LastFileIsFound`, `NothingIsMadeUp`, `CommandWasWritten` | `StartupTypeOK`, `OptionsOverride`, `LastFileWins`, `FoundWasWritten`, `CommandIsRun` |
| `ConfigProofs!PinTypeCorrect`, `StoredBeforeTrusted`, `TrustGivenOnce`, `NoTrustOfItsOwn` | `TlsTypeOK`, `UpMeansStored`, `OneServer`, `OnlyTheUserTrusts` |
| `MapperProofs!TypeCorrect`, `AnswersArePrinted`, `NoLineInvented` | `TypeOK`, `PrintsTheAnswers`, `NothingInvented` |

**Session**, in layers:

1. Types are inductive, in four parts (`ValuesOK`, `FlagsOK`, `BuffersOK`, `PollSetOK`);
   the buffers need three lemmas about sequences.
2. `SocketOwned` is not inductive: a packet handler that answers on a session that is not
   connected would break it. `LoopInv`, that packets are eaten and the tail of the loop is run
   only while connected, closes it. `CoreInv` is the three together.
3. `PollWatchesSocket` does not follow from itself: the new socket gets the old one's number only
   as no other descriptor below it is free. `WatchInv` says so: until the monitor's is closed,
   the poll set holds `Sock` inside the loop even while there is no socket. Once it is closed
   nothing is claimed, see [Known departures](#known-departures).
4. `NeverBlocks` needs to know that `revents` left by an earlier poll is still right when its
   handler's turn comes: `EventsInv` follows each entry from the poll that set it to its handler,
   through polls of the socket alone.
5. `RefusalInv` ties the history `lost` to `m_lastError` for fatal refusals; the step
   that connects then contradicts it.
6. The refinement of `Lifecycle` goes by the actions, from `CoreInv` and `RefusalInv`: `Connect`
   needs that no fatal error is remembered when a connection is made.
7. `CleanAfterFarewell` is not inductive: that no second HelloBack is sent depends on what is still
   under way. `CleanInv` says that since a farewell the buffer is empty until the next
   connection, and that one's Hello is the first of all it reads, there as long as no HelloBack has been
   sent; a lemma for each way of taking bytes off the stream or adding some keeps that.

**ClipServer.** `IInv` is `TypeOK` with three parts. `Course`: how far a process is tells what it has sent,
and each that is writing is connected or cut off. `Order`: what is in the queue, in the slots and handed
over is in an order that `older` allows. `Round` is what makes the last inductive although slots are not
served in the order of arrival: `due` is fixed at the poll, before the round's one accept, so
that whoever is accepted later is served in a later round. That holds of a round that was put off for want of a session, too: until it is
made up for nothing is accepted, and what is thrown away with it is polled again before anything is. The refinement then goes by the actions: `ReadPart`
of the last part is `Give`, `Write` of it `Complete`, `Copy` and `Finish` are themselves, all others stutter.

**Framing.** `InOrder` needs to know where in the stream the next packet begins. `IInv` is `TypeOK` and, as long as
only packets that fit were sent (`Intact`), `Sound`: what is in the buffer and under way can be cut (`Cuts`) into the
packets that were not handed over yet, each with its header. When fewer than four bytes have come, the code reads old
ones as part of a length; `Sound` says that the first half of the buffer's header is zero at all times, so that
such a length is never one to be thrown away. `NeverStuck` then is arithmetic: a full buffer holds the whole
of its first packet.

**Clipboard.** `IInv` is `TypeOK` and, for each clipboard, `Good`: lengths and positions are inside what was
allocated (`Inside`); while a stream is open, what came and what is left of it are the two parts of the serialised data the
server sends (`Streaming`); and what filled the buffer last is still in it, serialised (`Filled`, and `Kept` for what was copied here). What
`FlattenSeq` makes of a list of pieces is proved once (`Pieces`), by an induction that goes by the least
counterexample (`WFMin`), since the induction theorem with an operator parameter cannot be used;
`SerialShape` and `ParsesSerial` then say that the parser gives back the formats and their data.
`Filled` says that the data last put into the buffer is in it until a stream is opened. `CopiedOnce` follows, as a text that is the first of
that data finds itself there, and so does the bound of the first comparison in `NothingBeyond`.

**Screen.** `TypeCorrect` needs what `InitialLen`, a recursive function over the lines of a keymap, can be; by the same kind of
induction it is a number, and the array has no gaps. `KInv` says that counts are the presses of the keys down in the compositor (`Counted`), that there
are none while the screen has been left, that the set of keys held is finite and the counted codes inside
the array; with `WFMin` on the sets of codes the largest of a keymap exists. `IdleInv` adds to
`OffMeansOff` and `StopsWhatLives` that either backend leaves the other's state alone (`OneWay`).

**Outputs.** None of the properties is inductive: they are about an empty queue, and what the list is then depends on all
that was in it. `IInv` says it of the queue as it is. Two predicates are enough for that: nothing of a set of events is
waiting (`Free`), and one of a set is waiting with nothing of a second set before it and nothing of a third behind (`Has`).
`Described`: for each output of the list that is still there, the last event of each kind that is waiting says what the
compositor's layout does, or none is and the list says it already (`Settles`); and `done` is the last of all, or the output is complete. Which kinds
count depends on the manager: before its event is handled the geometry and mode, afterwards the logical ones, which the manager's
step asks for all outputs at once (`PiecesSay`). `Course`: an output's `global` comes before all else of it and its `remove` last, so
that one the compositor no longer has is removed from the list before the queue is empty. `ManagerOnce`: the manager comes once, and
all outputs of the list have an `xdg_output` or none has. `Measured`: as long as all outputs are complete the size last reported is
theirs; every listener but `done` therefore has to make its output incomplete. The steps are proved from lemmas about what
`Free` and `Has` become when an event is taken off (`HasTail`), some are added (`HasBefore`, `HasBehind`) or those of an output are
discarded (`OthersHave`), and about `FlattenSeq`. `NamesAssumption` keeps the name of the manager's global apart from those of outputs,
as the registry does. TLC has checked `IInv` on the instance of the run `outputs`.

**Options.** `OptionsOverride` is about a command line that was read to its end. The invariant (`OptInv`) says it of every
position: the settings are what the options read so far (`Done`) say, and else the configuration's (`Obeyed`), where of
options of one kind the last counts (`LastOf`). `Done` counts the letters of each word before the parser's, so that it
means the same for `-W 5`, `-W5` and `-nW5`, and a word that is the argument of the one before (`IsArgument`) has no letters at all. `GetOptDoes` says
what one call reads; `DoneNext`, that a call that is not refused adds exactly one option, and as the last; `ReadAll`, that
at the end those are the ones `Given` tells of, and `LastArg` the last one's argument.

**Ini and Startup.** `LastFileWins` compares the ini that was merged with the last file alone, and is not inductive: an ini may have the right
value in a section that a later merge does not find. `ReadInv` says of what was read so far (`seen`) what survives
a merge, in two parts.

- `Origins`: each property's value was written in a line of one of the files whose name begins the property's name, under a
  header that begins its section's. Not the other way round: `ini_cat` looks up the names it merges, and finds longer ones.
  `FoundWasWritten` follows with `FindPropertyIs`.
- For each key that is spelled alike wherever a line could be taken for it (`Wanted`, `Only`, what `Plainly` becomes for
  several files), the ini has at most one section and one property that could be taken for the key (`Clear`), and that one
  holds what was written last (`Wins`). It takes both directions of `Prefix`: a property stands in the way of the key
  if its name begins with the key's or the key's with its name. A value must not change between long and short, as the
  pointer of the long one is then lost; `Wanted` keeps that apart for each key. `LoadWins` says that a file that was
  loaded has this, but for the repetitions that only `config.ini` must not have, and `CatWins` that `ini_cat` keeps it, section by section and property by property.

`CommandIsRun` then follows, as an ini is asked before a file of its own and no step after the start changes it. What the recursive functions of `Load` and `Cat` compute is proved by `Steps` and `Recursion`, with the least counterexample in the
place of an induction rule. `NamesAssumption` says what a prefix is: reflexive, transitive, and two beginnings of one name are
comparable. `StartupTypeCorrect` adds that every property is in a section that exists and that the files left open do not
outnumber the descriptors (`Held`). TLC has checked `ReadInv`, `Set` and `OptInv` on an instance smaller than that of the run `config`.

**TlsPin.** `PinInv` relates `stage` to what has been compared (`Known`), and to what is on disk
(`OnDisk`, `Kept`, `Chosen`), with death possible between any two writes.

**Mapper.** `IInv` relates position, flags and answers: every answer was asked for, what is stored is
what was answered last, and lines are printed in the order of the keys.

Only model-checked: what needs fairness (`LifecycleMoves`, `QuitHonoured`, `PeerLossNoticed`,
`SessionRestored`, `AllHandedOver`, `Delivered`), as TLAPS proves no liveness of this kind. Every invariant and action
property of the passing runs, and the safety part of each refinement, are proved. `Load` and `Cat` are `LET` functions,
not recursive operators, so that they can be proved about.

## Known departures

Where the code does not do what its own comments or documentation say, a property states what
does hold, and its precondition leaves the case out. Two of these cases have a run that shows them:

- `session_fatal_timeout`: the timeouts of `netPoll` (`net.c:245`) disconnect without setting
  `m_lastError`, so the client connects again, whereas `main.c:39` says "timeouts are fatal".
  For the same reason `--fatal-none` has no effect: `m_lastError > 0` (`uSynergy.c:847`) excludes
  `USYNERGY_ERROR_NONE`. `RefusalIsFinal` is about the two errors that work.
- `outputs_first_lost`: `wlOutputRemove` (`wayland.c:165`) sets the list to NULL instead of the first
  output's successor. `ReportedIsLayout` is about lists that are complete.

The others were met while modelling; TLC finds each when the precondition is dropped.

- `synNetDisconnect` (`net.c:306`) resets the socket and `m_connected` only. After a timeout the receive
  buffer and `m_hasReceivedHello` survive, so the next connection's bytes are appended to a
  packet's beginning from the old one; `uSynergy.h:162-163` says that connecting "must close any old
  connections and clean up resources before retrying". A Hello that could not be
  answered (`uSynergy.c:347`) is answered on the next connection. `CleanAfterFarewell` is therefore
  about farewells.
- `sSetDisconnected` (`uSynergy.c:136`) clears `m_isCaptured` without a callback: the screen stays
  active and keys down until it is next left.
- The guard below the comment "ignore everything else until synergy is ready" (`net.c:232`) is
  `m_connected`, which is set before the Hello: an output or clipboard event sends DINF or CCLP ahead
  of HelloBack (`greeting = "early"`).
- `sigHandleRun` (`sig.h:33-42`) tests the flags one after the other, and `Restart` (`sig.c:42-49`) cleans up and replaces the
  program without looking again. A quit signal that comes between the test and `execvp` is forgotten with the memory that held it; with
  `restart_on_fatal` so is one that was pending when the compositor failed. `QuitHonoured` excepts both.
- CIAK sets `m_infoCurrent` whichever DINF it acknowledges. Nothing reads it.
- Without a clipboard `clipMonitorFd` is 0 (`net.c:219`): standard input is polled, `accept()` fails,
  it is closed, and a socket may get its number. With a reconnection inside the loop
  the poll set then has the old one; `PollWatchesSocket` is about the time before.
- A packet that fits the buffer but not with its four bytes of length (`uSynergy.c:764`) is neither
  handed over nor thrown away; a packet thrown away may leave bytes that read as a length
  (`uSynergy.c:786`). Of a length from 2^31 on, what is left to throw away is a negative `int` (`uSynergy.c:793-794`): the read
  of that size fails, and the connection is given up. `NeverStuck` and `AllHandedOver` are about the packets that fit.
- The start of a stream from the server enlarges the buffer without updating `m_clipLen`
  (`uSynergy.c:631`), "allocated length of clipboard buffers" (`uSynergy.h:369`); so a text that came from the
  server is not recognised when `wl-copy` brings it back, and is grabbed, until something long enough has been copied here.
  `NoFeedback` begins there.
- `uSynergyClipBufContains` (`uSynergy.c:882-893`) goes from one format to the next without skipping the data, so a further
  format's length is read in the middle of the data of the first, and `memcmp` (`uSynergy.c:889`) compares as many bytes as
  that says, whatever the buffer has. A text that is in the buffer as a further format is not recognised, and one that is not may
  be. `InsideBuffer` and `NoFeedback` are about the first format.
- The clipboard is served while there is a session only (`net.c:220`, `net.c:233`, `net.c:243`, `main.c:321`): what is copied
  meanwhile waits in the processes and sockets until the server is back, and is lost when the program ends before. `Served`,
  the premise of `Delivered`, says so.
- `handle_global_remove` (`wayland.c:484`) calls `on_output_update` whatever the state of the other
  outputs, and with a manual geometry (`main.c:298`) although it is NULL: `running` becomes FALSE.
- A second `inhibit_start` (`wl_idle_ext.c:41`) overwrites the notification that is there: main starts
  inhibition, and so does each end of the server's screensaver. After a Wayland error
  `cleanup` leaves a gnome inhibitor running. `forgotten` has both.
- Nobody waits for the gnome inhibitor: when it has ended by itself, `inhibit_stop` (`wl_idle_gnome.c:13`) kills the pid it had,
  which may be another process's by then. `StopsWhatLives` excepts it (`ended`).
- `raw_keymap_prev` (`mapper.c:154`) clears the flag of the key it leaves, not of the one it returns to,
  and the last key is neither initialised nor printed (`mapper.c:82`). The answer undone ("To undo, middle click",
  `mapper.c:437`) keeps the flag that `raw_keymap_store` (`mapper.c:151-157`) gave it, and is printed unless another takes its
  place. `PrintsTheAnswers` is about runs where nothing is undone.
- `configWriteString` (`config.c:362`) sets O_EXCL when overwriting is asked for and not otherwise, so a hash
  that appears during the handshake is overwritten on first use; one that is written half is reported
  as a mismatch ever after.
- A stored hash that cannot be opened or read (`config.c:24-28`, `config.c:168`; `net.c:28-31`) is one that is not there for
  `net.c:68-75`: with trust on first use the certificate met is trusted, and its hash written over the stored one.
  `OneServer` is about the time before that (`unread`).
- A section or key is found by the letters of the name looked for only (`ini.h:742`, `ini.h:762`): with `[screensaver]`
  before `[screen]`, or `enter ` with a blank before the `=` above `enter`, the first is taken. In `config.ini` itself the first of
  two equal keys wins, and a repeated section is never looked at; "any duplicate options will overwrite any read previously"
  (`README.md`) is true of later files, and of names written plainly.
- An empty value has the length zero, which `property_add` takes as "measure it" (`ini.h:820`): it is the rest of the
  file, and so is an empty name. Lines with `#` are properties as others are.
- A long value that gives way to a short one keeps its pointer (`ini.h:974`): the value read is freed memory, and
  the next change frees it again. What it clears in place of that pointer (`ini.h:975`) is the entry behind the last property,
  which is behind the array when this is full.
- `strtol` of a word is 0, so `log/level` has to be a number; `tls/enable` is true for every value with "on" in
  it, "none" too; a width of 65536 is 0.
- A lone `-` on the command line is read past its end (`sopt.h:356`).
- `read_file_dumb` and `configReadLines` do not close their file (`config.c:17`, `config.c:192`): each entering and leaving
  of the screen may take a descriptor, and `execvp` keeps them. A section directory whose entries cannot be
  examined leaves the lists of `read_full_section_dir` without an end.
- Of two texts copied while both processes run the older may win (`clip-update.c:11`). `execvp` keeps slots
  and the listening socket open, and processes connected there wait for ever; the watchers stay too, as `pkill` is
  given `wlpaste` for `wl-paste` (`clip.c:106`).
- Mouse buttons are not released when the screen is left, as keys are.

## What is not modelled

- Payloads: coordinates, resolutions in DINF, sequence numbers, host and screen names. Framing and
  Clipboard have the lengths.
- Writes that block: a server that does not read is modelled as one that is gone.
- Modifier tracking in `wlKeyRaw` (xkb state, logged only), `idle-inhibit/keyname`, mouse and button map:
  motion, buttons and wheel are passed on, one request for one packet, with nothing kept.
- The input backends, log, os helpers, memory and string libraries, generated protocol code:
  I/O without state of interest.
- Sections read as a whole (`configReadFullSection`): their keys are `Keyboard`'s constants.
- TLS itself; the random part of EINTR handling in `tls_read`.

## Plan

What is left, in the order of importance:

1. A finer `Send` in `Session`, in which a peer that stalls runs into the alarm (`net.c:176`), and the buttons of the
   mouse in `Screen`, with the departure above as its question.
2. `read_full_section_dir` and its lists, composed with `Keyboard`'s reading of a keymap.

A run or a property added later should ask a new question: the runs above are meant to stay few, and
what a module of this plan adds is weighed against what they ask already.
