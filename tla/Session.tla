------------------------------- MODULE Session -------------------------------
(***************************************************************************)
(* The client's session with its Synergy/Barrier server: the main loop of  *)
(* main.c, the poll loop and the connection of net.c, the packet handlers  *)
(* of uSynergy.c and the signal flags of sig.c, as one thread whose        *)
(* program counter is pc, against a server, a compositor, clipboard        *)
(* monitors, signals and a clock that act at any moment.                   *)
(*                                                                         *)
(* A packet crosses the network as two parts, so that a read may end in    *)
(* the middle of it.  Payloads are left out; the packets that only run a   *)
(* callback and answer CNOP are one kind, "INPUT".  Key state, outputs and *)
(* clipboard contents have modules of their own.                           *)
(***************************************************************************)
EXTENDS Integers, Sequences, FiniteSets

CONSTANTS
  Kinds,        \* the packets the server may send besides Hello
  Fatal,        \* the errors of --fatal-...: m_errorIsFatal
  ClipEnabled,  \* use_clipboard && clipHaveWlClipboard()
  AcceptBreaks, \* accept() on the clipboard socket may fail for good (ENFILE, ENOMEM)
  Actors,       \* bound: who acts besides the server
  MaxQueue,     \* bound: packet parts on their way to the client
  MaxUnacked    \* bound: DINFs the server has still to acknowledge

Farewells == {"CBYE", "EBAD", "EBSY"}
AllKinds == {"QINF", "CIAK", "CINN", "COUT", "INPUT", "CALV", "UNKNOWN"} \cup Farewells
Errors == {"INIT", "NONE", "EBSY", "EBAD", "TIMEOUT"}

AllActors == {"clock", "compositor", "failure", "clipboard", "quit", "restart"}

ASSUME KindsAssumption == Kinds \subseteq AllKinds
ASSUME FatalAssumption == Fatal \subseteq Errors \ {"INIT"}
ASSUME ClipAssumption == ClipEnabled \in BOOLEAN /\ AcceptBreaks \in BOOLEAN
ASSUME BoundsAssumption == Actors \subseteq AllActors /\ MaxQueue \in Nat \ {0} /\ MaxUnacked \in Nat \ {0}

NoFd == -1
Monitor == IF ClipEnabled THEN 1 ELSE 0   \* clipMonitorFd at start: without a clipboard, stdin
Sock == 2       \* the lowest descriptor free once start-up is over

VARIABLES
  pc,                \* where the thread is; see Points
  connected,         \* m_connected
  hasReceivedHello,  \* m_hasReceivedHello
  isCaptured,        \* m_isCaptured
  infoCurrent,       \* m_infoCurrent
  lastError,         \* m_lastError
  recvBuf,           \* m_receiveBuffer up to m_receiveOfs
  expired,           \* now - m_lastMessageTime > USYNERGY_IDLE_TIMEOUT
  fd,                \* synNetContext.fd
  clipMonitorFd,
  pollFd,            \* netPollFd[].fd of the socket and the clip monitor
  pollAll,           \* nfd = POLLFD_COUNT, not 1
  revents,           \* POLLIN in netPollFd[].revents
  sigDoExit,
  sigDoRestart,
  link,              \* the socket's peer: no socket, "up", or gone
  inbox,             \* parts sent by the server and not read yet
  greeting,          \* how far this connection's handshake has come, as the server sees it
  unacked,           \* DINFs received on this connection and not acknowledged
  wlPending,         \* the compositor has events for us
  clipWaiting,       \* a clip-update process waits to be accepted
  clipUpdate,        \* an accepted one has sent its data
  active,            \* argument of the last m_screenActiveCallback
  lost               \* history: why the last connection was lost

ctx == <<connected, hasReceivedHello, isCaptured, infoCurrent, lastError, recvBuf, active, lost>>
net == <<fd, clipMonitorFd, pollFd, pollAll, revents>>
sig == <<sigDoExit, sigDoRestart>>
peer == <<link, inbox, greeting, unacked>>
desk == <<wlPending, clipWaiting, clipUpdate>>
vars == <<pc, ctx, expired, net, sig, peer, desk>>

Points == {"main", "poll", "ready", "eat", "check", "wl", "clip", "upd", "loop",
           "restart", "fatal", "exited"}
Parts == [m : AllKinds \cup {"Hello"}, h : {1, 2}, old : BOOLEAN]
Greetings == {"sent", "done", "early", "twice"}
NoEvents == [syn |-> FALSE, wl |-> FALSE, mon |-> FALSE, upd |-> FALSE]

ValuesOK ==
  /\ pc \in Points /\ lastError \in Errors /\ lost \in Errors
  /\ link \in {"none", "up", "gone"} /\ greeting \in Greetings /\ unacked \in Nat
FlagsOK ==
  /\ connected \in BOOLEAN /\ hasReceivedHello \in BOOLEAN /\ isCaptured \in BOOLEAN
  /\ infoCurrent \in BOOLEAN /\ active \in BOOLEAN /\ expired \in BOOLEAN
  /\ pollAll \in BOOLEAN /\ sigDoExit \in BOOLEAN /\ sigDoRestart \in BOOLEAN
  /\ wlPending \in BOOLEAN /\ clipWaiting \in BOOLEAN /\ clipUpdate \in BOOLEAN
BuffersOK == recvBuf \in Seq(Parts) /\ inbox \in Seq(Parts)
PollSetOK ==
  /\ fd \in {NoFd, Monitor, Sock} /\ clipMonitorFd \in {NoFd, Monitor}
  /\ pollFd \in [syn : {NoFd, Monitor, Sock}, mon : {NoFd, Monitor}]
  /\ revents \in [syn : BOOLEAN, wl : BOOLEAN, mon : BOOLEAN, upd : BOOLEAN]

TypeOK == ValuesOK /\ FlagsOK /\ BuffersOK /\ PollSetOK

(* The state at the top of main's loop; clipMonitorFd is a zero-initialised *)
(* global that clipSetupSockets sets, when it is called.                    *)
Init ==
  /\ pc = "main"
  /\ connected = FALSE /\ hasReceivedHello = FALSE /\ isCaptured = FALSE
  /\ infoCurrent = FALSE /\ lastError = "INIT" /\ recvBuf = <<>>
  /\ active = FALSE /\ lost = "INIT" /\ expired = TRUE
  /\ fd = NoFd /\ clipMonitorFd = Monitor
  /\ pollFd = [syn |-> NoFd, mon |-> NoFd] /\ pollAll = FALSE /\ revents = NoEvents
  /\ sigDoExit = FALSE /\ sigDoRestart = FALSE
  /\ link = "none" /\ inbox = <<>> /\ greeting = "sent" /\ unacked = 0
  /\ wlPending = FALSE /\ clipWaiting = FALSE /\ clipUpdate = FALSE

-----------------------------------------------------------------------------
(* Disconnecting, leaving, sending. *)

SetDisconnectedKeeping(err) ==      \* mutant: the receive buffer survives
  /\ connected' = FALSE /\ hasReceivedHello' = FALSE /\ isCaptured' = FALSE
  /\ lastError' = err /\ lost' = err
  /\ UNCHANGED <<infoCurrent, active, recvBuf>>
SetDisconnectedForgetting(err) ==   \* mutant: the reason is not kept
  /\ connected' = FALSE /\ hasReceivedHello' = FALSE /\ isCaptured' = FALSE
  /\ recvBuf' = <<>> /\ lastError' = "NONE" /\ lost' = err
  /\ UNCHANGED <<infoCurrent, active>>

(* sSetDisconnected leaves the socket open and m_infoCurrent as it was. *)
SetDisconnected(err) ==
  /\ connected' = FALSE /\ hasReceivedHello' = FALSE /\ isCaptured' = FALSE
  /\ recvBuf' = <<>> /\ lastError' = err /\ lost' = err
  /\ UNCHANGED <<infoCurrent, active>>

(* The socket is closed, and with it goes all that was on its way. *)
CloseSocket == fd' = NoFd /\ link' = "none" /\ inbox' = <<>> /\ greeting' = "sent" /\ unacked' = 0

NetDisconnectSocketOnly(why) ==     \* mutant: m_connected is not reset
  /\ CloseSocket
  /\ lost' = IF connected THEN why ELSE lost
  /\ UNCHANGED <<connected, hasReceivedHello, isCaptured, infoCurrent, lastError, recvBuf>>
  /\ UNCHANGED active

(* synNetDisconnect: of the session's state only m_connected is reset. *)
NetDisconnect(why) ==
  /\ CloseSocket
  /\ connected' = FALSE
  /\ lost' = IF connected THEN why ELSE lost
  /\ UNCHANGED <<hasReceivedHello, isCaptured, infoCurrent, lastError, recvBuf, active>>

(* Exit: cleanup closes the socket and the process is gone. *)
Exit ==
  /\ pc' = "exited"
  /\ NetDisconnect(lost)
  /\ UNCHANGED <<expired, clipMonitorFd, pollFd, pollAll, revents, sig, desk>>

(* execvp: the new process knows nothing of the old one, a pending quit included. *)
Reexec ==
  /\ pc' = "main"
  /\ CloseSocket
  /\ connected' = FALSE /\ hasReceivedHello' = FALSE /\ isCaptured' = FALSE
  /\ infoCurrent' = FALSE /\ lastError' = "INIT" /\ recvBuf' = <<>>
  /\ active' = FALSE /\ lost' = "INIT" /\ expired' = TRUE
  /\ clipMonitorFd' = Monitor
  /\ pollFd' = [syn |-> NoFd, mon |-> NoFd] /\ pollAll' = FALSE /\ revents' = NoEvents
  /\ sigDoExit' = FALSE /\ sigDoRestart' = FALSE
  /\ wlPending' = FALSE /\ clipWaiting' = FALSE /\ clipUpdate' = FALSE

(* Restart, decided by a signal or by the compositor's failure: cleanup takes *)
(* its time, in which signals arrive, before execvp gets its turn.           *)
BeginRestart(why) == pc' = why /\ UNCHANGED <<ctx, expired, net, sig, peer, desk>>

Restart == pc \in {"restart", "fatal"} /\ (Reexec \/ Exit)    \* execvp may fail

(* The next sigHandleRun lets the thread pass. *)
Quiet == ~sigDoExit /\ ~sigDoRestart

(* The server greets as it accepts; then its view of the handshake advances *)
(* with each message it gets.                                               *)
Greeted(msg) ==
  IF msg = "HelloBack"
  THEN IF greeting = "sent" THEN "done" ELSE IF greeting = "done" THEN "twice" ELSE greeting
  ELSE IF greeting = "sent" THEN "early" ELSE greeting

(* sSendReply of msg.  A peer that is gone may still seem to take it, or    *)
(* refuse it, with a SIGPIPE or without.                                    *)
Send(msg, ok) ==
  \/ /\ link = "up" /\ ok
     /\ greeting' = Greeted(msg)
     /\ unacked' = IF msg = "DINF" THEN unacked + 1 ELSE unacked
     /\ UNCHANGED sigDoRestart
  \/ /\ link # "up"
     /\ sigDoRestart' \in (IF ok THEN {sigDoRestart} ELSE {sigDoRestart, TRUE})
     /\ UNCHANGED <<greeting, unacked>>

-----------------------------------------------------------------------------
(* Connecting. *)

Part(msg, half) == [m |-> msg, h |-> half, old |-> FALSE]
Packet(msg) == <<Part(msg, 1), Part(msg, 2)>>

(* socket() returns the lowest descriptor that is free; clipMonitorPollProc  *)
(* may have closed the monitor's.                                           *)
LowestFree == IF clipMonitorFd = NoFd THEN Monitor ELSE Sock

(* syn_connect gave up, in getaddrinfo or address by address. *)
ConnectFails ==
  \/ UNCHANGED <<ctx, fd, peer>>
  \/ NetDisconnect(lost)

ConnectBeforeClosing ==              \* mutant: the old socket is closed after the new one is there
  /\ connected' = TRUE
  /\ fd' = (IF fd = NoFd THEN LowestFree ELSE Sock + 1) /\ link' = "up" /\ inbox' = Packet("Hello")
  /\ greeting' = "sent" /\ unacked' = 0
  /\ UNCHANGED <<hasReceivedHello, isCaptured, infoCurrent, lastError, recvBuf, active, lost>>

(* What is left in the receive buffer is from an old connection from now on. *)
ConnectSucceeds ==
  /\ connected' = TRUE
  /\ fd' = LowestFree /\ link' = "up" /\ inbox' = Packet("Hello")
  /\ greeting' = "sent" /\ unacked' = 0
  /\ recvBuf' = [i \in 1..Len(recvBuf) |-> [recvBuf[i] EXCEPT !.old = TRUE]]
  /\ UNCHANGED <<hasReceivedHello, isCaptured, infoCurrent, lastError, active, lost>>

(* uSynergyUpdate while not connected; USYNERGY_ERROR_NONE is 0. *)
LastErrorIsFatal == lastError \in {"EBSY", "EBAD", "TIMEOUT"} \cap Fatal

TryConnectAnyway(next) ==            \* mutant: no error is fatal
  /\ pc' = next
  /\ \/ (ConnectFails /\ UNCHANGED expired)
     \/ (ConnectSucceeds /\ expired' = FALSE)
  /\ UNCHANGED <<clipMonitorFd, pollFd, pollAll, revents, sig, desk>>

TryConnect(next) ==
  IF LastErrorIsFatal THEN Exit
  ELSE /\ pc' = next
       /\ \/ (ConnectFails /\ UNCHANGED expired)
          \/ (ConnectSucceeds /\ expired' = FALSE)
       /\ UNCHANGED <<clipMonitorFd, pollFd, pollAll, revents, sig, desk>>

-----------------------------------------------------------------------------
(* main's loop and netPoll. *)

HandleSignalRestartFirst ==          \* mutant: the flags are looked at in the other order
  /\ pc \in {"main", "ready", "check", "clip", "upd", "loop"}
  /\ ~Quiet
  /\ IF sigDoRestart THEN BeginRestart("restart") ELSE Exit

(* sigHandleRun: leaving comes before restarting. *)
HandleSignal ==
  /\ pc \in {"main", "ready", "check", "clip", "upd", "loop"}
  /\ ~Quiet
  /\ IF sigDoExit THEN Exit ELSE BeginRestart("restart")

MainConnect ==
  /\ pc = "main" /\ Quiet /\ ~connected
  /\ TryConnect("main")

EnterPoll ==
  /\ pc = "main" /\ Quiet /\ connected
  /\ pc' = "poll"
  /\ pollFd' = [syn |-> fd, mon |-> clipMonitorFd]
  /\ pollAll' = TRUE
  /\ UNCHANGED <<ctx, expired, fd, clipMonitorFd, revents, sig, peer, desk>>

Readable == link = "gone" \/ inbox # <<>>

(* What poll may report: the server's bytes may still be under way.  With   *)
(* no clipboard the monitor's descriptor is standard input.                 *)
SynEvents == IF pollFd.syn = fd /\ fd # NoFd /\ Readable
             THEN IF link = "gone" THEN {TRUE} ELSE BOOLEAN
             ELSE {FALSE}
MonEvents == IF pollFd.mon = NoFd THEN {FALSE}
             ELSE IF ClipEnabled THEN {clipWaiting} ELSE BOOLEAN
SynInvalid == pollFd.syn # fd      \* POLLNVAL: the descriptor has been closed

(* With nfd = 1 the other entries keep what an earlier poll left there. *)
PollReturns ==
  /\ pc = "poll"
  /\ \E s \in SynEvents, m \in MonEvents :
       /\ revents' = IF pollAll THEN [syn |-> s, wl |-> wlPending, mon |-> m, upd |-> clipUpdate]
                                ELSE [revents EXCEPT !.syn = s]
       /\ s \/ SynInvalid \/ (pollAll /\ (wlPending \/ m \/ clipUpdate))
  /\ pc' = "ready"
  /\ UNCHANGED <<ctx, expired, fd, clipMonitorFd, pollFd, pollAll, sig, peer, desk>>

PollTimesOutQuietly ==               \* mutant: a poll that times out changes nothing
  /\ pc = "poll"
  /\ FALSE \in SynEvents /\ ~SynInvalid
  /\ pollAll => ~wlPending /\ FALSE \in MonEvents /\ ~clipUpdate
  /\ pc' = "main"
  /\ UNCHANGED <<ctx, expired, net, sig, peer, desk>>

PollTimesOut ==
  /\ pc = "poll"
  /\ FALSE \in SynEvents /\ ~SynInvalid
  /\ pollAll => ~wlPending /\ FALSE \in MonEvents /\ ~clipUpdate
  /\ pc' = "main"
  /\ NetDisconnect("TIMEOUT")
  /\ UNCHANGED <<expired, clipMonitorFd, pollFd, pollAll, revents, sig, desk>>

(* EINTR: a signal, or a child that ended. *)
PollInterrupted ==
  /\ pc = "poll"
  /\ pc' = "main"
  /\ UNCHANGED <<ctx, expired, net, sig, peer, desk>>

NotReadable ==
  /\ pc = "ready" /\ Quiet /\ ~revents.syn
  /\ pc' = "check"
  /\ UNCHANGED <<ctx, expired, net, sig, peer, desk>>

PollReconnect ==
  /\ pc = "ready" /\ Quiet /\ revents.syn /\ ~connected
  /\ TryConnect("check")

(* sUpdateContext: bytes arrive, and restart the clock once greeted ... *)
Receive ==
  /\ pc = "ready" /\ Quiet /\ revents.syn /\ connected
  /\ \E k \in 1..Len(inbox) :
       /\ recvBuf' = recvBuf \o SubSeq(inbox, 1, k)
       /\ inbox' = SubSeq(inbox, k + 1, Len(inbox))
  /\ expired' = (expired /\ ~hasReceivedHello)
  /\ pc' = "eat"
  /\ UNCHANGED <<connected, hasReceivedHello, isCaptured, infoCurrent, lastError, active, lost>>
  /\ UNCHANGED <<net, sig, link, greeting, unacked, desk>>

(* ... or the peer is gone. *)
ReceiveFails ==
  /\ pc = "ready" /\ Quiet /\ revents.syn /\ connected
  /\ inbox = <<>> /\ link = "gone"
  /\ SetDisconnected("TIMEOUT")
  /\ pc' = "check"
  /\ UNCHANGED <<expired, net, sig, peer, desk>>

-----------------------------------------------------------------------------
(* The packets in the buffer: sProcessMessage.  Whether sSendReply worked   *)
(* is ignored by all but Hello.                                             *)

Consume(n) == recvBuf' = SubSeq(recvBuf, n + 1, Len(recvBuf))

(* The buffer starts with all of packet msg. *)
At(msg) ==
  /\ pc = "eat" /\ Len(recvBuf) >= 2
  /\ recvBuf[1].m = msg /\ recvBuf[1].h = 1 /\ recvBuf[2].h = 2
  /\ recvBuf[1].old = recvBuf[2].old

(* Whole packets of one kind on their way or in the buffer, and the DINFs   *)
(* asked for or not yet acknowledged, which MaxUnacked bounds.              *)
Coming(msg) == LET s == recvBuf \o inbox
               IN  Cardinality({i \in 1..Len(s) : s[i].m = msg /\ s[i].h = 1})
DinfLoad == unacked + Coming("QINF")

Answer(msg) == (\E ok \in BOOLEAN : Send(msg, ok)) /\ UNCHANGED <<sigDoExit, link, inbox>>
NoAnswer == UNCHANGED <<sig, peer>>
SameSession == UNCHANGED <<connected, hasReceivedHello, lastError, lost, pc, expired, net, desk>>

(* A failed HelloBack drops the connection, and nothing else. *)
Hello ==
  /\ At("Hello")
  /\ \E ok \in BOOLEAN :
       /\ Send("HelloBack", ok)
       /\ IF ok THEN Consume(2) /\ hasReceivedHello' = TRUE /\ UNCHANGED <<connected, lost, pc>>
                ELSE /\ connected' = FALSE /\ lost' = "INIT" /\ pc' = "check"
                     /\ UNCHANGED <<hasReceivedHello, recvBuf>>
  /\ UNCHANGED <<isCaptured, infoCurrent, lastError, active, expired, net, sigDoExit, link, inbox, desk>>

QueryInfo ==
  /\ At("QINF") /\ Consume(2) /\ SameSession
  /\ Answer("DINF")
  /\ infoCurrent' = FALSE
  /\ UNCHANGED <<isCaptured, active>>

InfoAck ==
  /\ At("CIAK") /\ Consume(2) /\ SameSession
  /\ infoCurrent' = TRUE
  /\ unacked' = IF unacked > 0 THEN unacked - 1 ELSE 0     \* the server's: one CIAK per DINF
  /\ UNCHANGED <<isCaptured, active, sig, link, inbox, greeting>>

Enter ==
  /\ At("CINN") /\ Consume(2) /\ SameSession
  /\ isCaptured' = TRUE /\ active' = TRUE
  /\ Answer("CNOP")
  /\ UNCHANGED infoCurrent

Leave ==
  /\ At("COUT") /\ Consume(2) /\ SameSession
  /\ isCaptured' = FALSE /\ active' = FALSE
  /\ Answer("CNOP")
  /\ UNCHANGED infoCurrent

(* CSEC, DM.., DK.., DG.., DSOP, CCLP, DCLP and CALV *)
Input ==
  /\ (At("INPUT") \/ At("CALV")) /\ Consume(2) /\ SameSession
  /\ Answer("CNOP")
  /\ UNCHANGED <<infoCurrent, isCaptured, active>>

(* CROP, and every identifier the client does not know *)
Ignore ==
  /\ At("UNKNOWN") /\ Consume(2) /\ SameSession
  /\ NoAnswer
  /\ UNCHANGED <<infoCurrent, isCaptured, active>>

Farewell ==
  /\ \E m \in Farewells :
       /\ At(m)
       /\ SetDisconnected(IF m = "CBYE" THEN "NONE" ELSE m)
  /\ pc' = "check"
  /\ NoAnswer /\ UNCHANGED <<expired, net, desk>>

(* The buffer starts in the middle of a packet, or with the beginning of    *)
(* one of an earlier connection: what is read as a length and an identifier *)
(* is anything but a message.                                               *)
Misframed ==
  /\ pc = "eat" /\ recvBuf # <<>>
  /\ \/ recvBuf[1].h = 2
     \/ Len(recvBuf) >= 2 /\ (recvBuf[2].h = 1 \/ recvBuf[1].old # recvBuf[2].old)

EatUnknown ==
  /\ Misframed
  /\ \E n \in 3 - recvBuf[1].h .. Len(recvBuf) : Consume(n)
  /\ SameSession /\ NoAnswer
  /\ UNCHANGED <<infoCurrent, isCaptured, active>>

(* A length beyond the buffer: all that comes is thrown away, until so much *)
(* has come or SIGALRM ends a read.                                         *)
DrainOversized ==
  /\ Misframed
  /\ pc' = "check"
  /\ \/ /\ recvBuf' = <<>>
        /\ \E n \in 0..Len(inbox) : inbox' = SubSeq(inbox, n + 1, Len(inbox))
        /\ UNCHANGED <<connected, hasReceivedHello, isCaptured, infoCurrent, lastError, active, lost>>
     \/ SetDisconnected("TIMEOUT") /\ inbox' = <<>>
  /\ UNCHANGED <<expired, net, sig, link, greeting, unacked, desk>>

(* No whole packet is left.  MaxQueue bounds what a wrong length waits for. *)
Incomplete ==
  /\ pc = "eat"
  /\ \/ recvBuf = <<>>
     \/ Len(recvBuf) = 1 /\ recvBuf[1].h = 1
     \/ Misframed /\ Len(recvBuf) < MaxQueue
  /\ pc' = "check"
  /\ UNCHANGED <<ctx, expired, net, sig, peer, desk>>

-----------------------------------------------------------------------------
(* The rest of an iteration of netPoll's loop. *)

ExpireConnected ==                   \* mutant: only a connected client notices
  /\ pc = "check" /\ expired /\ connected
  /\ pc' = "main"
  /\ NetDisconnect("TIMEOUT")
  /\ UNCHANGED <<expired, clipMonitorFd, pollFd, pollAll, revents, sig, desk>>

Expire ==
  /\ pc = "check" /\ expired
  /\ pc' = "main"
  /\ NetDisconnect("TIMEOUT")
  /\ UNCHANGED <<expired, clipMonitorFd, pollFd, pollAll, revents, sig, desk>>

(* "ignore everything else until synergy is ready" *)
NotConnected ==
  /\ pc = "check" /\ ~expired /\ Quiet /\ ~connected
  /\ pc' = "poll" /\ pollAll' = FALSE
  /\ UNCHANGED <<ctx, expired, fd, clipMonitorFd, pollFd, revents, sig, peer, desk>>

Proceed ==
  /\ pc = "check" /\ ~expired /\ Quiet /\ connected
  /\ pc' = "wl"
  /\ UNCHANGED <<ctx, expired, net, sig, peer, desk>>

NoWayland ==
  /\ pc = "wl" /\ ~revents.wl
  /\ pc' = "clip"
  /\ UNCHANGED <<ctx, expired, net, sig, peer, desk>>

(* wl_display_dispatch, which blocks while nothing is pending.  The event   *)
(* may complete an output, hence uSynergyUpdateRes, or be of no concern.    *)
Wayland ==
  /\ pc = "wl" /\ revents.wl /\ wlPending
  /\ pc' = "clip" /\ wlPending' = FALSE
  /\ \/ DinfLoad < MaxUnacked /\ Answer("DINF") /\ infoCurrent' = FALSE
     \/ NoAnswer /\ UNCHANGED infoCurrent
  /\ UNCHANGED <<connected, hasReceivedHello, isCaptured, lastError, recvBuf, active, lost>>
  /\ UNCHANGED <<expired, net, clipWaiting, clipUpdate>>

(* The compositor is gone, as a dispatch or the flush after an input event  *)
(* finds out: ExitOrRestart, which restart_on_fatal decides.                *)
WaylandFails ==
  /\ "failure" \in Actors
  /\ (pc = "wl" /\ revents.wl) \/ At("INPUT") \/ At("COUT")
  /\ Exit \/ BeginRestart("fatal")

(* clipMonitorPollProc for the listening socket: accept, which blocks while *)
(* nobody waits; without a clipboard it fails and the descriptor is closed. *)
Accept ==
  /\ pc = "clip" /\ Quiet
  /\ pc' = "upd"
  /\ \/ /\ revents.mon /\ ClipEnabled /\ clipWaiting /\ ~clipUpdate
        /\ clipWaiting' = FALSE /\ clipUpdate' = TRUE
        /\ UNCHANGED <<clipMonitorFd, pollFd>>
     \/ /\ revents.mon /\ (AcceptBreaks \/ ~ClipEnabled) /\ ~clipUpdate
        /\ clipMonitorFd' = NoFd /\ pollFd' = [pollFd EXCEPT !.mon = NoFd]
        /\ UNCHANGED <<clipWaiting, clipUpdate>>
     \/ /\ ~revents.mon \/ clipUpdate      \* no free slot
        /\ UNCHANGED <<clipMonitorFd, pollFd, clipWaiting, clipUpdate>>
  /\ UNCHANGED <<ctx, expired, fd, pollAll, revents, sig, peer, wlPending>>

(* clipMonitorPollProc for an accepted updater: uSynergyUpdateClipBuf, which *)
(* says nothing when it has the data already.                               *)
ClipUpdate ==
  /\ pc = "upd" /\ Quiet
  /\ pc' = "loop"
  /\ IF revents.upd THEN clipUpdate' = FALSE /\ (Answer("CCLP") \/ NoAnswer)
                    ELSE NoAnswer /\ UNCHANGED clipUpdate
  /\ UNCHANGED <<ctx, expired, net, wlPending, clipWaiting>>

LoopEndSocketOnly ==                 \* mutant: nfd is not set back
  /\ pc = "loop" /\ Quiet
  /\ pc' = "poll" /\ pollAll' = FALSE
  /\ UNCHANGED <<ctx, expired, fd, clipMonitorFd, pollFd, revents, sig, peer, desk>>

LoopEnd ==
  /\ pc = "loop" /\ Quiet
  /\ pc' = "poll" /\ pollAll' = connected
  /\ UNCHANGED <<ctx, expired, fd, clipMonitorFd, pollFd, revents, sig, peer, desk>>

-----------------------------------------------------------------------------
(* Everything else in the world. *)

Alive == pc # "exited"

(* What the server may say at this point of the protocol. *)
ServerMaySend(msg) ==
  CASE msg \in Farewells -> TRUE
    [] msg = "QINF"      -> greeting = "done" /\ DinfLoad < MaxUnacked
    [] msg = "CIAK"      -> greeting = "done" /\ unacked > Coming("CIAK")
    [] OTHER             -> greeting = "done"

ServerSends(msg) ==
  /\ link = "up" /\ Len(inbox) + 2 <= MaxQueue
  /\ ServerMaySend(msg)
  /\ inbox' = inbox \o Packet(msg)
  /\ UNCHANGED <<pc, ctx, expired, net, sig, link, greeting, unacked, desk>>

(* The server closes its end; what it had sent may be lost.  MaxQueue also  *)
(* bounds what broken connections leave in the client's buffer.             *)
ServerGoes ==
  /\ link = "up" /\ Len(recvBuf \o inbox) <= MaxQueue
  /\ link' = "gone" /\ \E n \in 0..Len(inbox) : inbox' = SubSeq(inbox, 1, n)
  /\ UNCHANGED <<pc, ctx, expired, net, sig, greeting, unacked, desk>>

TimePasses ==
  /\ "clock" \in Actors /\ Alive /\ ~expired /\ expired' = TRUE
  /\ UNCHANGED <<pc, ctx, net, sig, peer, desk>>

CompositorActs ==
  /\ "compositor" \in Actors /\ Alive /\ ~wlPending /\ wlPending' = TRUE
  /\ UNCHANGED <<pc, ctx, expired, net, sig, peer, clipWaiting, clipUpdate>>

ClipboardChanges ==
  /\ "clipboard" \in Actors /\ Alive /\ clipMonitorFd # NoFd /\ ClipEnabled /\ ~clipWaiting /\ clipWaiting' = TRUE
  /\ UNCHANGED <<pc, ctx, expired, net, sig, peer, wlPending, clipUpdate>>

(* SIGTERM, SIGINT, SIGQUIT; a second one before the first is honoured aborts. *)
QuitSignal ==
  /\ "quit" \in Actors /\ Alive
  /\ IF sigDoExit THEN Exit
     ELSE sigDoExit' = TRUE /\ UNCHANGED <<pc, ctx, expired, net, sigDoRestart, peer, desk>>

(* SIGUSR1 *)
RestartSignal ==
  /\ "restart" \in Actors /\ Alive /\ ~sigDoRestart /\ sigDoRestart' = TRUE
  /\ UNCHANGED <<pc, ctx, expired, net, sigDoExit, peer, desk>>

Exited == ~Alive /\ UNCHANGED vars

-----------------------------------------------------------------------------
Polling == PollReturns \/ PollTimesOut
Packets == Hello \/ QueryInfo \/ InfoAck \/ Enter \/ Leave \/ Input \/ Ignore \/ Farewell
           \/ EatUnknown \/ DrainOversized \/ Incomplete
Iteration == NotReadable \/ PollReconnect \/ Receive \/ ReceiveFails \/ Packets
             \/ Expire \/ NotConnected \/ Proceed
             \/ NoWayland \/ Wayland \/ WaylandFails \/ Accept \/ ClipUpdate \/ LoopEnd
Thread == HandleSignal \/ Restart \/ MainConnect \/ EnterPoll \/ Polling \/ Iteration
World == (\E msg \in Kinds : ServerSends(msg)) \/ ServerGoes \/ TimePasses \/ CompositorActs
         \/ ClipboardChanges \/ QuitSignal \/ RestartSignal \/ PollInterrupted

Next == Thread \/ World \/ Exited
Spec == Init /\ [][Next]_vars

(* The thread runs, time passes, not every poll is interrupted, and of the  *)
(* connection attempts one succeeds in the end.                             *)
Connects == ~connected /\ connected'
Fairness == /\ WF_vars(Thread) /\ WF_vars(TimePasses) /\ SF_vars(Polling)
            /\ SF_vars(Thread /\ Connects)
FairSpec == Spec /\ Fairness

-----------------------------------------------------------------------------
(* Properties. *)

(* A connected session owns an open socket, and there is a peer exactly     *)
(* while there is a socket: "INVALID FILE DESCRIPTOR" (net.c) is not logged. *)
SocketOwned == (connected => fd # NoFd) /\ (fd = NoFd <=> link = "none")

(* Once the thread is in netPoll's loop and the session is up, the poll set *)
(* holds the very socket of the session, also after a reconnection inside   *)
(* the loop, where nobody updates it -- unless the clip monitor was closed, *)
(* whose number the next socket gets.                                       *)
InLoop == pc \in {"poll", "ready", "eat", "check", "wl", "clip", "upd", "loop"}
PollWatchesSocket == InLoop /\ connected /\ clipMonitorFd # NoFd => pollFd.syn = fd

(* The same, as each step keeps it: only the clip monitor's descriptor can   *)
(* leave a hole below the socket's.                                         *)
WatchInv == clipMonitorFd # NoFd =>
              fd \in {NoFd, Sock} /\ (InLoop => pollFd.syn = Sock)

(* The descriptors after the socket's are served only while connected, and  *)
(* what poll has reported of them, or an earlier poll with nfd = 1 since,   *)
(* is still pending when its turn comes.                                    *)
Unserved(points) == pc \in points \/ (pc = "poll" /\ ~pollAll)
LoopInv == pc \in {"eat", "wl", "clip", "upd", "loop"} => connected
EventsInv ==
  /\ pc = "ready" /\ revents.syn => Readable
  /\ Unserved({"ready", "eat", "check", "wl"}) /\ revents.wl => wlPending
  /\ Unserved({"ready", "eat", "check", "wl", "clip"}) /\ revents.mon => clipWaiting \/ ~ClipEnabled
  /\ Unserved({"ready", "eat", "check", "wl", "clip", "upd"}) /\ revents.upd => clipUpdate

(* A refused client knows why, and a connected one knows of no fatal error. *)
RefusalInv ==
  /\ lost \in Fatal \cap {"EBSY", "EBAD"} => ~connected /\ lastError = lost
  /\ connected => ~LastErrorIsFatal

(* No handler that reads is entered with nothing to read, although revents  *)
(* may be of an earlier poll: the single thread never blocks in recv,       *)
(* wl_display_dispatch or accept for lack of a first byte, nor in reading   *)
(* from an updater that has sent nothing (one that stops half-way is for    *)
(* ClipServer).                                                             *)
NeverBlocks ==
  /\ pc = "ready" /\ revents.syn => Readable
  /\ pc = "wl" /\ revents.wl => wlPending
  /\ pc = "clip" /\ revents.mon => clipWaiting \/ ~ClipEnabled
  /\ pc = "upd" /\ revents.upd => clipUpdate

(* After the server has refused the client with an error that is configured *)
(* as fatal, the client never connects again.                               *)
RefusalIsFinal == [][Connects => lost \notin Fatal \cap {"EBSY", "EBAD"}]_vars

(* ... and with any error that is configured as fatal, timeouts and CBYE too. *)
FatalIsFinal == [][Connects => lost \notin Fatal]_vars

(* What is in the receive buffer comes from the connection that is up.      *)
FreshBuffer == connected => \A i \in 1..Len(recvBuf) : ~recvBuf[i].old

(* After a CBYE, EBAD or EBSY the next connection starts clean: none of the *)
(* old bytes are taken for the new server's, and it gets no HelloBack but   *)
(* the one it has asked for.                                                *)
CleanAfterFarewell ==
  connected /\ lost \in {"NONE", "EBAD", "EBSY"} => FreshBuffer /\ greeting # "twice"

(* The same, as each step keeps it: a connection that begins with nothing   *)
(* left finds one Hello, the first of all it reads, and as long as that is  *)
(* under way no HelloBack has been sent.                                    *)
IsHello(part) == part.m = "Hello" /\ part.h = 1
Fresh(buf, coming, met) ==
  /\ met # "twice"
  /\ \A i \in 1..Len(buf) : ~buf[i].old /\ (IsHello(buf[i]) => i = 1 /\ met # "done")
  /\ \A i \in 1..Len(coming) :
       ~coming[i].old /\ (IsHello(coming[i]) => i = 1 /\ met # "done" /\ buf = <<>>)
CleanInv ==
  lost \in {"NONE", "EBAD", "EBSY"} =>
    IF connected THEN Fresh(recvBuf, inbox, greeting) ELSE recvBuf = <<>> \/ pc = "exited"

(* The phase of Lifecycle: what the session looks like from outside.        *)
phase == IF ~Alive THEN "stopped"
         ELSE IF connected THEN "live"
         ELSE IF LastErrorIsFatal THEN "refused"
         ELSE IF fd = NoFd THEN "closed" ELSE "lost"
L == INSTANCE Lifecycle

(* The session goes through its phases as Lifecycle says, and leaves those  *)
(* it must leave.                                                           *)
LifecycleSteps == L!Init /\ [][L!Next]_phase
LifecycleMoves == L!FairSpec

(* A quit signal is honoured wherever it finds the thread, except in the     *)
(* restart it has already begun, when sigHandleRun has seen its flag down;   *)
(* nor is it if, before it is looked at, the compositor's failure restarts   *)
(* the program: execvp forgets it.                                           *)
QuitHonoured == sigDoExit /\ pc # "restart" ~> pc \in {"exited", "fatal"}

(* A connection whose peer has gone does not stay, nor does one on which    *)
(* the server has fallen silent.                                            *)
PeerLossNoticed ==
  /\ connected /\ link = "gone" ~> ~connected
  /\ connected ~> ~connected \/ inbox # <<>>

(* A client that has lost its session gets a new one, or has exited.        *)
SessionRestored == ~connected ~> connected \/ pc = "exited"
=============================================================================
