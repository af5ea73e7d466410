---------------------------- MODULE SessionProofs ----------------------------
(***************************************************************************)
(* What Session's runs check on small instances, proved for every set of  *)
(* packets, of fatal errors and of actors, and for queues of any length.  *)
(***************************************************************************)
EXTENDS Session, TLAPS, SequenceTheorems

-----------------------------------------------------------------------------
(* Types, part by part: values, flags, buffers, the poll set. *)

(* Every step sets pc, errors and peer to values of their types. *)
LEMMA ValuesStep == ValuesOK /\ [Next]_vars => ValuesOK'
<1> SUFFICES ASSUME ValuesOK, [Next]_vars
             PROVE  ValuesOK'
  OBVIOUS
<1> USE DEF ValuesOK, Points, Errors, Greetings
<1>exit. ASSUME Exit PROVE ValuesOK'
  BY <1>exit DEF Exit, NetDisconnect, CloseSocket, sig, desk
<1>reexec. ASSUME Reexec PROVE ValuesOK'
  BY <1>reexec DEF Reexec, CloseSocket
<1>send. ASSUME NEW msg, NEW ok \in BOOLEAN, Send(msg, ok)
         PROVE  greeting' \in Greetings /\ unacked' \in Nat
  <2>1. Greeted(msg) \in Greetings
    BY DEF Greeted
  <2>2. greeting' \in Greetings
    BY <2>1, <1>send DEF Send
  <2>3. unacked' \in {unacked, unacked + 1}
    BY <1>send DEF Send
  <2> QED BY <2>2, <2>3
<1>answer. ASSUME NEW msg, Answer(msg)
           PROVE  greeting' \in Greetings /\ unacked' \in Nat /\ UNCHANGED link
  BY <1>answer, <1>send DEF Answer
<1>connect. ASSUME NEW next \in Points, TryConnect(next) PROVE ValuesOK'
  <2> DEFINE Rest == pc' = next /\ UNCHANGED <<clipMonitorFd, pollFd, pollAll, revents, sig, desk>>
  <2>1. CASE Rest /\ ConnectFails /\ UNCHANGED expired
    <3>1. CASE UNCHANGED <<ctx, fd, peer>>
      BY <2>1, <3>1 DEF ctx, peer, sig, desk
    <3>2. CASE NetDisconnect(lost)
      BY <2>1, <3>2 DEF NetDisconnect, CloseSocket, sig, desk
    <3> QED BY <2>1, <3>1, <3>2 DEF ConnectFails
  <2>2. CASE Rest /\ ConnectSucceeds /\ expired' = FALSE
    BY <2>2 DEF ConnectSucceeds, sig, desk
  <2> QED BY <1>connect, <1>exit, <2>1, <2>2 DEF TryConnect
<1>begin. ASSUME NEW why \in {"restart", "fatal"}, BeginRestart(why) PROVE ValuesOK'
  BY <1>begin DEF BeginRestart, ctx, net, sig, peer, desk
<1>1. CASE HandleSignal \/ Restart \/ WaylandFails
  BY <1>1, <1>exit, <1>reexec, <1>begin DEF HandleSignal, Restart, WaylandFails
<1>2. CASE MainConnect \/ PollReconnect
  BY <1>2, <1>connect DEF MainConnect, PollReconnect
<1>3. CASE EnterPoll
  BY <1>3 DEF EnterPoll, ctx, sig, peer, desk
<1>30. CASE PollReturns
  BY <1>30 DEF PollReturns, ctx, sig, peer, desk
<1>26. CASE NotReadable \/ PollInterrupted
  BY <1>26 DEF NotReadable, PollInterrupted, ctx, net, sig, peer, desk
<1>timeout. ASSUME NetDisconnect("TIMEOUT"), pc' = "main",
                   UNCHANGED <<expired, clipMonitorFd, pollFd, pollAll, revents, sig, desk>>
            PROVE  ValuesOK'
  BY <1>timeout DEF NetDisconnect, CloseSocket, sig, desk
<1>4. CASE PollTimesOut \/ Expire
  BY <1>4, <1>timeout DEF PollTimesOut, Expire
<1>5. CASE Receive
  BY <1>5 DEF Receive, net, sig, desk
<1>6. CASE ReceiveFails
  BY <1>6 DEF ReceiveFails, SetDisconnected, net, sig, peer, desk
<1>7. CASE Hello
  BY <1>7, <1>send DEF Hello, net, desk
<1>8. CASE QueryInfo
  BY <1>8, <1>answer DEF QueryInfo, SameSession, net, desk
<1>9. CASE InfoAck
  BY <1>9 DEF InfoAck, SameSession, net, sig, desk
<1>10. CASE Enter
  BY <1>10, <1>answer DEF Enter, SameSession, net, desk
<1>11. CASE Leave
  BY <1>11, <1>answer DEF Leave, SameSession, net, desk
<1>12. CASE Input
  BY <1>12, <1>answer DEF Input, SameSession, net, desk
<1>13. CASE Ignore \/ EatUnknown
  BY <1>13 DEF Ignore, EatUnknown, NoAnswer, SameSession, net, sig, peer, desk
<1>14. CASE Farewell
  BY <1>14 DEF Farewell, Farewells, SetDisconnected, NoAnswer, net, sig, peer, desk
<1>15. CASE DrainOversized
  BY <1>15 DEF DrainOversized, SetDisconnected, net, sig, desk
<1>16. CASE Incomplete \/ Proceed \/ NoWayland
  BY <1>16 DEF Incomplete, Proceed, NoWayland, ctx, net, sig, peer, desk
<1>17. CASE NotConnected
  BY <1>17 DEF NotConnected, ctx, sig, peer, desk
<1>27. CASE LoopEnd
  BY <1>27 DEF LoopEnd, ctx, sig, peer, desk
<1>18. CASE Wayland
  BY <1>18, <1>answer DEF Wayland, NoAnswer, net, sig, peer
<1>19. CASE Accept
  BY <1>19 DEF Accept, ctx, sig, peer
<1>20. CASE ClipUpdate
  BY <1>20, <1>answer DEF ClipUpdate, NoAnswer, ctx, net, sig, peer
<1>21. CASE (\E msg \in Kinds : ServerSends(msg)) \/ ServerGoes
  BY <1>21 DEF ServerSends, ServerGoes, ctx, net, sig, desk
<1>22. CASE TimePasses
  BY <1>22 DEF TimePasses, ctx, net, sig, peer, desk
<1>28. CASE CompositorActs
  BY <1>28 DEF CompositorActs, ctx, net, sig, peer
<1>29. CASE ClipboardChanges
  BY <1>29 DEF ClipboardChanges, ctx, net, sig, peer
<1>23. CASE QuitSignal
  BY <1>23, <1>exit DEF QuitSignal, ctx, net, peer, desk
<1>24. CASE RestartSignal
  BY <1>24 DEF RestartSignal, ctx, net, peer, desk
<1>25. CASE UNCHANGED vars
  BY <1>25 DEF vars, ctx, net, sig, peer, desk
<1> QED
  BY <1>1, <1>2, <1>3, <1>4, <1>5, <1>6, <1>7, <1>8, <1>9, <1>10, <1>11, <1>12, <1>13, <1>14,
     <1>15, <1>16, <1>17, <1>18, <1>19, <1>20, <1>21, <1>22, <1>23, <1>24, <1>25, <1>26, <1>27, <1>28, <1>29, <1>30
  DEF Next, Thread, World, Polling, Packets, Iteration, Exited
(* Every handler sets the flags of a session to values of their types.    *)
LEMMA FlagsStep == FlagsOK /\ [Next]_vars => FlagsOK'
<1> SUFFICES ASSUME FlagsOK, [Next]_vars
             PROVE  FlagsOK'
  OBVIOUS
<1> USE DEF FlagsOK
<1>exit. ASSUME Exit PROVE FlagsOK'
  BY <1>exit DEF Exit, NetDisconnect, CloseSocket, sig, desk
<1>reexec. ASSUME Reexec PROVE FlagsOK'
  BY <1>reexec DEF Reexec, CloseSocket
<1>send. ASSUME NEW msg, NEW ok \in BOOLEAN, Send(msg, ok)
         PROVE  sigDoRestart' \in BOOLEAN
  BY <1>send DEF Send
<1>answer. ASSUME NEW msg, Answer(msg)
           PROVE  sigDoRestart' \in BOOLEAN /\ UNCHANGED sigDoExit
  BY <1>answer, <1>send DEF Answer
<1>connect. ASSUME NEW next \in Points, TryConnect(next) PROVE FlagsOK'
  <2> DEFINE Rest == pc' = next /\ UNCHANGED <<clipMonitorFd, pollFd, pollAll, revents, sig, desk>>
  <2>1. CASE Rest /\ ConnectFails /\ UNCHANGED expired
    <3>1. CASE UNCHANGED <<ctx, fd, peer>>
      BY <2>1, <3>1 DEF ctx, peer, sig, desk
    <3>2. CASE NetDisconnect(lost)
      BY <2>1, <3>2 DEF NetDisconnect, CloseSocket, sig, desk
    <3> QED BY <2>1, <3>1, <3>2 DEF ConnectFails
  <2>2. CASE Rest /\ ConnectSucceeds /\ expired' = FALSE
    BY <2>2 DEF ConnectSucceeds, sig, desk
  <2> QED BY <1>connect, <1>exit, <2>1, <2>2 DEF TryConnect
<1>begin. ASSUME NEW why \in {"restart", "fatal"}, BeginRestart(why) PROVE FlagsOK'
  BY <1>begin DEF BeginRestart, ctx, net, sig, peer, desk
<1>1. CASE HandleSignal \/ Restart \/ WaylandFails
  BY <1>1, <1>exit, <1>reexec, <1>begin DEF HandleSignal, Restart, WaylandFails
<1>2. CASE MainConnect \/ PollReconnect
  BY <1>2, <1>connect DEF MainConnect, PollReconnect, Points
<1>3. CASE EnterPoll
  BY <1>3 DEF EnterPoll, ctx, sig, peer, desk
<1>30. CASE PollReturns
  BY <1>30 DEF PollReturns, ctx, sig, peer, desk
<1>26. CASE NotReadable \/ PollInterrupted
  BY <1>26 DEF NotReadable, PollInterrupted, ctx, net, sig, peer, desk
<1>timeout. ASSUME NetDisconnect("TIMEOUT"), pc' = "main",
                   UNCHANGED <<expired, clipMonitorFd, pollFd, pollAll, revents, sig, desk>>
            PROVE  FlagsOK'
  BY <1>timeout DEF NetDisconnect, CloseSocket, sig, desk
<1>4. CASE PollTimesOut \/ Expire
  BY <1>4, <1>timeout DEF PollTimesOut, Expire
<1>5. CASE Receive
  BY <1>5 DEF Receive, net, sig, desk
<1>6. CASE ReceiveFails
  BY <1>6 DEF ReceiveFails, SetDisconnected, net, sig, peer, desk
<1>7. CASE Hello
  BY <1>7, <1>send DEF Hello, net, desk
<1>8. CASE QueryInfo
  BY <1>8, <1>answer DEF QueryInfo, SameSession, net, desk
<1>9. CASE InfoAck
  BY <1>9 DEF InfoAck, SameSession, net, sig, desk
<1>10. CASE Enter
  BY <1>10, <1>answer DEF Enter, SameSession, net, desk
<1>11. CASE Leave
  BY <1>11, <1>answer DEF Leave, SameSession, net, desk
<1>12. CASE Input
  BY <1>12, <1>answer DEF Input, SameSession, net, desk
<1>13. CASE Ignore \/ EatUnknown
  BY <1>13 DEF Ignore, EatUnknown, NoAnswer, SameSession, net, sig, peer, desk
<1>14. CASE Farewell
  BY <1>14 DEF Farewell, Farewells, SetDisconnected, NoAnswer, net, sig, peer, desk
<1>15. CASE DrainOversized
  BY <1>15 DEF DrainOversized, SetDisconnected, net, sig, desk
<1>16. CASE Incomplete \/ Proceed \/ NoWayland
  BY <1>16 DEF Incomplete, Proceed, NoWayland, ctx, net, sig, peer, desk
<1>17. CASE NotConnected
  BY <1>17 DEF NotConnected, ctx, sig, peer, desk
<1>27. CASE LoopEnd
  BY <1>27 DEF LoopEnd, ctx, sig, peer, desk
<1>18. CASE Wayland
  BY <1>18, <1>answer DEF Wayland, NoAnswer, net, sig, peer
<1>19. CASE Accept
  BY <1>19 DEF Accept, ctx, sig, peer
<1>20. CASE ClipUpdate
  BY <1>20, <1>answer DEF ClipUpdate, NoAnswer, ctx, net, sig, peer
<1>21. CASE (\E msg \in Kinds : ServerSends(msg)) \/ ServerGoes
  BY <1>21 DEF ServerSends, ServerGoes, ctx, net, sig, desk
<1>22. CASE TimePasses
  BY <1>22 DEF TimePasses, ctx, net, sig, peer, desk
<1>28. CASE CompositorActs
  BY <1>28 DEF CompositorActs, ctx, net, sig, peer
<1>29. CASE ClipboardChanges
  BY <1>29 DEF ClipboardChanges, ctx, net, sig, peer
<1>23. CASE QuitSignal
  BY <1>23, <1>exit DEF QuitSignal, ctx, net, peer, desk
<1>24. CASE RestartSignal
  BY <1>24 DEF RestartSignal, ctx, net, peer, desk
<1>25. CASE UNCHANGED vars
  BY <1>25 DEF vars, ctx, net, sig, peer, desk
<1> QED
  BY <1>1, <1>2, <1>3, <1>4, <1>5, <1>6, <1>7, <1>8, <1>9, <1>10, <1>11, <1>12, <1>13, <1>14,
     <1>15, <1>16, <1>17, <1>18, <1>19, <1>20, <1>21, <1>22, <1>23, <1>24, <1>25, <1>26, <1>27, <1>28, <1>29, <1>30
  DEF Next, Thread, World, Polling, Packets, Iteration, Exited

(* Part of a sequence of packet parts is one too ...                      *)
LEMMA SubSeqOfParts ==
  ASSUME NEW s \in Seq(Parts), NEW m \in 1..Len(s) + 1, NEW n \in 0..Len(s)
  PROVE  SubSeq(s, m, n) \in Seq(Parts)
<1>1. Len(s) \in Nat /\ m \in Int /\ n \in Int
  BY LenProperties
<1>2. \A i \in m..n : s[i] \in Parts
  BY <1>1, ElementOfSeq
<1> QED BY <1>1, <1>2, SubSeqProperties

(* ... and so is the buffer when its connection has become an old one ... *)
LEMMA AgedParts ==
  ASSUME NEW s \in Seq(Parts)
  PROVE  [i \in 1..Len(s) |-> [s[i] EXCEPT !.old = TRUE]] \in Seq(Parts)
<1>1. Len(s) \in Nat
  BY LenProperties
<1>2. \A i \in 1..Len(s) : s[i] \in Parts
  BY <1>1, ElementOfSeq
<1>3. \A i \in 1..Len(s) : [s[i] EXCEPT !.old = TRUE] \in Parts
  BY <1>2 DEF Parts
<1> QED BY <1>1, <1>3, IsASeq

(* ... and a packet the server sends.                                     *)
LEMMA PacketIsParts ==
  ASSUME NEW msg \in AllKinds \cup {"Hello"}
  PROVE  Packet(msg) \in Seq(Parts)
<1>1. Part(msg, 1) \in Parts /\ Part(msg, 2) \in Parts
  BY DEF Part, Parts
<1> QED BY <1>1 DEF Packet

(* What is received, consumed, sent or lost leaves sequences of packet parts *)
(* in the buffer and on the way.                                          *)
LEMMA BuffersStep == BuffersOK /\ [Next]_vars => BuffersOK'
<1> SUFFICES ASSUME BuffersOK, [Next]_vars
             PROVE  BuffersOK'
  OBVIOUS
<1> USE DEF BuffersOK
<1>len. Len(recvBuf) \in Nat /\ Len(inbox) \in Nat
  BY LenProperties
<1>empty. <<>> \in Seq(Parts)
  BY EmptySeq
<1>closed. ASSUME inbox' = <<>>, recvBuf' \in {<<>>, recvBuf} PROVE BuffersOK'
  <2>1. recvBuf' \in Seq(Parts)
    BY <1>closed, <1>empty
  <2> QED BY <1>closed, <1>empty, <2>1
<1>exit. ASSUME Exit PROVE BuffersOK'
  BY <1>exit DEF Exit, NetDisconnect, CloseSocket
<1>reexec. ASSUME Reexec PROVE BuffersOK'
  BY <1>reexec DEF Reexec, CloseSocket
<1>same. ASSUME UNCHANGED <<recvBuf, inbox>> PROVE BuffersOK'
  BY <1>same
<1>eat. ASSUME NEW n \in 0..Len(recvBuf), Consume(n), UNCHANGED inbox PROVE BuffersOK'
  BY <1>eat, <1>len, SubSeqOfParts DEF Consume
<1>packet. ASSUME NEW msg, At(msg), Consume(2), UNCHANGED inbox PROVE BuffersOK'
  <2>1. 2 \in 0..Len(recvBuf)
    BY <1>packet, <1>len DEF At
  <2> QED BY <2>1, <1>packet, <1>eat
<1>answer. ASSUME NEW msg, Answer(msg) \/ NoAnswer PROVE UNCHANGED inbox
  BY <1>answer DEF Answer, NoAnswer, peer
<1>connect. ASSUME NEW next, TryConnect(next) PROVE BuffersOK'
  <2>1. CASE ConnectFails
    BY <2>1, <1>same, <1>closed DEF ConnectFails, NetDisconnect, CloseSocket, ctx, peer
  <2>2. CASE ConnectSucceeds
    BY <2>2, AgedParts, PacketIsParts DEF ConnectSucceeds
  <2> QED BY <1>connect, <1>exit, <2>1, <2>2 DEF TryConnect
<1>begin. ASSUME NEW why \in {"restart", "fatal"}, BeginRestart(why) PROVE BuffersOK'
  BY <1>begin DEF BeginRestart, ctx, net, sig, peer, desk
<1>1. CASE HandleSignal \/ Restart \/ WaylandFails
  BY <1>1, <1>exit, <1>reexec, <1>begin DEF HandleSignal, Restart, WaylandFails
<1>2. CASE MainConnect \/ PollReconnect
  BY <1>2, <1>connect DEF MainConnect, PollReconnect
<1>3. CASE EnterPoll \/ PollReturns \/ NotReadable \/ PollInterrupted \/ Incomplete \/ Proceed
  BY <1>3, <1>same DEF EnterPoll, PollReturns, NotReadable, PollInterrupted, Incomplete, Proceed, ctx, peer
<1>4. CASE NoWayland \/ NotConnected \/ LoopEnd \/ Accept
  BY <1>4, <1>same DEF NoWayland, NotConnected, LoopEnd, Accept, ctx, peer
<1>5. CASE PollTimesOut \/ Expire
  BY <1>5, <1>closed DEF PollTimesOut, Expire, NetDisconnect, CloseSocket
<1>6. CASE Receive
  <2>1. PICK k \in 1..Len(inbox) : /\ recvBuf' = recvBuf \o SubSeq(inbox, 1, k)
                                   /\ inbox' = SubSeq(inbox, k + 1, Len(inbox))
    BY <1>6 DEF Receive
  <2>2. SubSeq(inbox, 1, k) \in Seq(Parts) /\ inbox' \in Seq(Parts)
    BY <2>1, <1>len, SubSeqOfParts
  <2> QED BY <2>1, <2>2, ConcatProperties
<1>7. CASE ReceiveFails
  BY <1>7 DEF ReceiveFails, SetDisconnected, peer
<1>8. CASE Hello
  BY <1>8, <1>packet, <1>same DEF Hello
<1>9. CASE QueryInfo \/ InfoAck \/ Enter \/ Leave \/ Input \/ Ignore
  BY <1>9, <1>packet, <1>answer DEF QueryInfo, InfoAck, Enter, Leave, Input, Ignore
<1>10. CASE Farewell
  BY <1>10, <1>answer DEF Farewell, SetDisconnected
<1>11. CASE EatUnknown
  <2>1. 1 \in 1..Len(recvBuf)
    BY <1>11, <1>len, EmptySeq DEF EatUnknown, Misframed
  <2>2. recvBuf[1] \in Parts
    BY <2>1, ElementOfSeq
  <2>3. recvBuf[1].h \in {1, 2}
    BY <2>2 DEF Parts
  <2> QED BY <1>11, <1>len, <2>3, <1>eat, <1>answer DEF EatUnknown, Misframed
<1>12. CASE DrainOversized
  <2>1. CASE recvBuf' = <<>> /\ \E n \in 0..Len(inbox) : inbox' = SubSeq(inbox, n + 1, Len(inbox))
    BY <2>1, <1>len, <1>empty, SubSeqOfParts
  <2>2. CASE SetDisconnected("TIMEOUT") /\ inbox' = <<>>
    BY <2>2, <1>closed DEF SetDisconnected
  <2> QED BY <1>12, <2>1, <2>2 DEF DrainOversized
<1>13. CASE Wayland \/ ClipUpdate
  BY <1>13, <1>same, <1>answer DEF Wayland, ClipUpdate, ctx
<1>14. CASE \E msg \in Kinds : ServerSends(msg)
  <2>1. PICK msg \in AllKinds : inbox' = inbox \o Packet(msg) /\ UNCHANGED recvBuf
    BY <1>14, KindsAssumption DEF ServerSends, ctx
  <2> QED BY <2>1, PacketIsParts, ConcatProperties
<1>15. CASE ServerGoes
  <2>1. PICK n \in 0..Len(inbox) : inbox' = SubSeq(inbox, 1, n)
    BY <1>15 DEF ServerGoes
  <2>2. inbox' \in Seq(Parts)
    BY <2>1, <1>len, SubSeqOfParts
  <2> QED BY <1>15, <2>2 DEF ServerGoes, ctx
<1>16. CASE TimePasses \/ CompositorActs \/ ClipboardChanges \/ RestartSignal
  BY <1>16, <1>same DEF TimePasses, CompositorActs, ClipboardChanges, RestartSignal, ctx, peer
<1>17. CASE QuitSignal
  BY <1>17, <1>exit, <1>same DEF QuitSignal, ctx, peer
<1>18. CASE UNCHANGED vars
  BY <1>18, <1>same DEF vars, ctx, peer
<1> QED
  BY <1>1, <1>2, <1>3, <1>4, <1>5, <1>6, <1>7, <1>8, <1>9, <1>10, <1>11, <1>12, <1>13, <1>14,
     <1>15, <1>16, <1>17, <1>18
  DEF Next, Thread, World, Polling, Packets, Iteration, Exited

(* Descriptors stay descriptors, whichever of them is opened or closed.   *)
LEMMA PollSetStep == TypeOK /\ [Next]_vars => PollSetOK'
<1> SUFFICES ASSUME TypeOK, [Next]_vars
             PROVE  PollSetOK'
  OBVIOUS
<1> USE DEF PollSetOK
<1>same. ASSUME UNCHANGED net PROVE PollSetOK'
  BY <1>same DEF net, TypeOK
<1>closed. ASSUME CloseSocket, UNCHANGED <<clipMonitorFd, pollFd, revents>> PROVE PollSetOK'
  BY <1>closed DEF CloseSocket, TypeOK
<1>exit. ASSUME Exit PROVE PollSetOK'
  BY <1>exit, <1>closed DEF Exit, NetDisconnect
<1>reexec. ASSUME Reexec PROVE PollSetOK'
  BY <1>reexec DEF Reexec, CloseSocket, NoEvents
<1>connect. ASSUME NEW next, TryConnect(next) PROVE PollSetOK'
  <2>1. CASE UNCHANGED <<clipMonitorFd, pollFd, revents>> /\ ConnectFails
    BY <2>1, <1>closed DEF ConnectFails, NetDisconnect, TypeOK
  <2>2. CASE UNCHANGED <<clipMonitorFd, pollFd, revents>> /\ ConnectSucceeds
    BY <2>2 DEF ConnectSucceeds, LowestFree, TypeOK
  <2> QED BY <1>connect, <1>exit, <2>1, <2>2 DEF TryConnect
<1>begin. ASSUME NEW why \in {"restart", "fatal"}, BeginRestart(why) PROVE PollSetOK'
  BY <1>begin, <1>same DEF BeginRestart
<1>1. CASE HandleSignal \/ Restart \/ WaylandFails
  BY <1>1, <1>exit, <1>reexec, <1>begin DEF HandleSignal, Restart, WaylandFails
<1>2. CASE MainConnect \/ PollReconnect
  BY <1>2, <1>connect DEF MainConnect, PollReconnect
<1>3. CASE EnterPoll
  BY <1>3 DEF EnterPoll, TypeOK
<1>4. CASE PollReturns
  <2>1. wlPending \in BOOLEAN /\ clipUpdate \in BOOLEAN /\ clipWaiting \in BOOLEAN
    BY DEF TypeOK, FlagsOK
  <2>2. PICK s \in SynEvents, m \in MonEvents :
          revents' = IF pollAll THEN [syn |-> s, wl |-> wlPending, mon |-> m, upd |-> clipUpdate]
                                ELSE [revents EXCEPT !.syn = s]
    BY <1>4 DEF PollReturns
  <2>3. s \in BOOLEAN
    BY DEF SynEvents
  <2>4. m \in BOOLEAN
    BY <2>1 DEF MonEvents
  <2>5. revents' \in [syn : BOOLEAN, wl : BOOLEAN, mon : BOOLEAN, upd : BOOLEAN]
    BY <2>1, <2>2, <2>3, <2>4 DEF TypeOK
  <2> QED BY <1>4, <2>5 DEF PollReturns, TypeOK
<1>5. CASE PollTimesOut \/ Expire
  BY <1>5, <1>closed DEF PollTimesOut, Expire, NetDisconnect
<1>6. CASE NotReadable \/ PollInterrupted \/ Receive \/ ReceiveFails \/ Packets \/ Proceed \/ NoWayland
  BY <1>6, <1>same
  DEF NotReadable, PollInterrupted, Receive, ReceiveFails, Packets, Hello, QueryInfo, InfoAck, Enter,
      Leave, Input, Ignore, Farewell, EatUnknown, DrainOversized, Incomplete, Proceed, NoWayland, SameSession
<1>7. CASE NotConnected \/ LoopEnd
  BY <1>7 DEF NotConnected, LoopEnd, TypeOK
<1>8. CASE Wayland \/ ClipUpdate
  BY <1>8, <1>same DEF Wayland, ClipUpdate
<1>9. CASE Accept
  BY <1>9 DEF Accept, TypeOK
<1>10. CASE World \/ Exited \/ UNCHANGED vars
  BY <1>10, <1>same, <1>exit
  DEF World, ServerSends, ServerGoes, TimePasses, CompositorActs, ClipboardChanges, QuitSignal,
      RestartSignal, PollInterrupted, Exited, vars
<1> QED
  BY <1>1, <1>2, <1>3, <1>4, <1>5, <1>6, <1>7, <1>8, <1>9, <1>10
  DEF Next, Thread, Polling, Iteration

(* What main and uSynergyInit set up is well typed.                       *)
LEMMA TypeInit == Init => TypeOK
<1> SUFFICES ASSUME Init PROVE TypeOK
  OBVIOUS
<1> USE DEF Init
<1>1. ValuesOK
  BY DEF ValuesOK, Points, Errors, Greetings
<1>2. FlagsOK
  BY DEF FlagsOK
<1>3. PollSetOK
  BY DEF PollSetOK, NoEvents
<1> QED BY <1>1, <1>2, <1>3 DEF TypeOK, BuffersOK

(* Every variable of the session has its type in every reachable state,   *)
(* whatever the server sends and however long the buffers grow.           *)
THEOREM TypeCorrect == Spec => []TypeOK
<1>1. TypeOK /\ [Next]_vars => TypeOK'
  BY ValuesStep, FlagsStep, BuffersStep, PollSetStep DEF TypeOK
<1> QED BY TypeInit, <1>1, PTL DEF Spec

-----------------------------------------------------------------------------
(* The socket and the loop. *)

(* What the packet handlers leave alone.                                  *)
LEMMA PacketFrame ==
  ASSUME LoopInv, FlagsOK, Packets
  PROVE  /\ pc = "eat" /\ pc' \in {"eat", "check"}
         /\ UNCHANGED <<net, link, desk>>
         /\ connected' => connected
         /\ ~connected' => pc' = "check"
         /\ connected' => UNCHANGED <<lastError, lost>>
<1> USE DEF LoopInv, FlagsOK, At, SameSession, net, desk
<1>1. CASE Hello
  BY <1>1 DEF Hello
<1>2. CASE QueryInfo \/ InfoAck \/ Enter \/ Leave \/ Input
  BY <1>2 DEF QueryInfo, InfoAck, Enter, Leave, Input, Answer
<1>3. CASE Ignore \/ EatUnknown
  BY <1>3 DEF Ignore, EatUnknown, Misframed, NoAnswer, peer
<1>4. CASE Farewell
  BY <1>4 DEF Farewell, SetDisconnected, NoAnswer, peer
<1>5. CASE DrainOversized
  BY <1>5 DEF DrainOversized, Misframed, SetDisconnected
<1>6. CASE Incomplete
  BY <1>6 DEF Incomplete, Misframed, ctx, peer
<1> QED BY <1>1, <1>2, <1>3, <1>4, <1>5, <1>6 DEF Packets

(* What the world leaves alone, unless it ends the process.               *)
LEMMA WorldFrame ==
  ASSUME TypeOK, World
  PROVE  \/ Exit
         \/ /\ UNCHANGED <<ctx, net>>
            /\ pc' = pc \/ (pc = "poll" /\ pc' = "main")
            /\ link' = link \/ (link = "up" /\ link' = "gone")
            /\ wlPending => wlPending'
            /\ clipWaiting => clipWaiting'
            /\ clipUpdate' = clipUpdate
            /\ Readable => Readable'
<1> USE DEF ctx, net, peer, desk, Readable
<1>1. CASE \E msg \in Kinds : ServerSends(msg)
  <2>1. PICK msg \in Kinds : ServerSends(msg)
    BY <1>1
  <2>2. inbox \in Seq(Parts) /\ Packet(msg) \in Seq(Parts) /\ Packet(msg) # <<>>
    BY PacketIsParts, KindsAssumption DEF TypeOK, BuffersOK, Packet
  <2>3. inbox' # <<>>
    BY <2>1, <2>2, ConcatEqualIffEmpty DEF ServerSends
  <2> QED BY <2>1, <2>3 DEF ServerSends
<1>2. CASE ServerGoes
  BY <1>2 DEF ServerGoes
<1>3. CASE TimePasses \/ RestartSignal \/ PollInterrupted
  BY <1>3 DEF TimePasses, RestartSignal, PollInterrupted
<1>4. CASE CompositorActs \/ ClipboardChanges
  BY <1>4 DEF CompositorActs, ClipboardChanges
<1>5. CASE QuitSignal
  BY <1>5 DEF QuitSignal
<1> QED BY <1>1, <1>2, <1>3, <1>4, <1>5 DEF World

(* SocketOwned holds because only synNetDisconnect, which also resets     *)
(* m_connected, gives the socket up; the loop's tail is for the connected. *)
CoreInv == TypeOK /\ SocketOwned /\ LoopInv

(* Before the first connection there is no session, and no socket.        *)
LEMMA CoreInit == Init => CoreInv
<1> SUFFICES ASSUME Init PROVE CoreInv
  OBVIOUS
<1>1. SocketOwned /\ LoopInv
  BY DEF Init, SocketOwned, LoopInv
<1> QED BY <1>1, TypeInit DEF CoreInv

(* No step leaves a session without its socket, or in the middle of the   *)
(* loop without a session.                                                *)
LEMMA CoreStep == CoreInv /\ [Next]_vars => CoreInv'
<1> SUFFICES ASSUME CoreInv, [Next]_vars
             PROVE  CoreInv'
  OBVIOUS
<1>type. TypeOK /\ TypeOK'
  BY ValuesStep, FlagsStep, BuffersStep, PollSetStep DEF TypeOK, CoreInv
<1> SUFFICES SocketOwned' /\ LoopInv'
  BY <1>type DEF CoreInv
<1> USE DEF CoreInv, SocketOwned, LoopInv
<1>closed. ASSUME NEW why, NetDisconnect(why), pc' \in {"main", "check", "exited"}
           PROVE  SocketOwned' /\ LoopInv'
  BY <1>closed DEF NetDisconnect, CloseSocket
<1>exit. ASSUME Exit PROVE SocketOwned' /\ LoopInv'
  BY <1>exit, <1>closed DEF Exit
<1>reexec. ASSUME Reexec PROVE SocketOwned' /\ LoopInv'
  BY <1>reexec DEF Reexec, CloseSocket
<1>connect. ASSUME NEW next \in {"main", "check"}, TryConnect(next), ~connected
            PROVE  SocketOwned' /\ LoopInv'
  <2>1. CASE ConnectFails /\ pc' = next
    BY <2>1, <1>closed, <1>connect DEF ConnectFails, ctx, peer
  <2>2. CASE ConnectSucceeds /\ pc' = next
    <3>1. LowestFree # NoFd
      BY DEF LowestFree, Monitor, Sock, NoFd
    <3> QED BY <2>2, <3>1 DEF ConnectSucceeds
  <2> QED BY <1>connect, <1>exit, <2>1, <2>2 DEF TryConnect
<1>begin. ASSUME NEW why \in {"restart", "fatal"}, BeginRestart(why) PROVE SocketOwned' /\ LoopInv'
  BY <1>begin DEF BeginRestart, ctx, net, sig, peer, desk
<1>1. CASE HandleSignal \/ Restart \/ WaylandFails
  BY <1>1, <1>exit, <1>reexec, <1>begin DEF HandleSignal, Restart, WaylandFails
<1>2. CASE MainConnect \/ PollReconnect
  BY <1>2, <1>connect DEF MainConnect, PollReconnect
<1>3. CASE EnterPoll \/ PollReturns \/ NotReadable \/ Proceed \/ NotConnected
  BY <1>3 DEF EnterPoll, PollReturns, NotReadable, Proceed, NotConnected, ctx, peer, net
<1>4. CASE PollTimesOut \/ Expire
  BY <1>4, <1>closed DEF PollTimesOut, Expire
<1>5. CASE Receive
  BY <1>5 DEF Receive, net
<1>6. CASE ReceiveFails
  BY <1>6 DEF ReceiveFails, SetDisconnected, net, peer
<1>7. CASE Packets
  BY <1>7, <1>type, PacketFrame DEF net, TypeOK
<1>8. CASE NoWayland \/ Accept \/ LoopEnd
  BY <1>8 DEF NoWayland, Accept, LoopEnd, ctx, net, peer
<1>9. CASE Wayland \/ ClipUpdate
  BY <1>9 DEF Wayland, ClipUpdate, Answer, NoAnswer, ctx, net, peer
<1>10. CASE World
  BY <1>10, <1>type, <1>exit, WorldFrame DEF ctx, net
<1>11. CASE Exited \/ UNCHANGED vars
  BY <1>11 DEF Exited, vars, ctx, net, peer
<1> QED BY <1>1, <1>2, <1>3, <1>4, <1>5, <1>6, <1>7, <1>8, <1>9, <1>10, <1>11
        DEF Next, Thread, Polling, Iteration

(* A connected session owns its socket, at any step of any run: netPoll is *)
(* never entered with the invalid descriptor its first lines log.         *)
THEOREM SocketAlwaysOwned == Spec => []SocketOwned
<1>1. CoreInv => SocketOwned
  BY DEF CoreInv
<1> QED BY CoreInit, CoreStep, <1>1, PTL DEF Spec

-----------------------------------------------------------------------------
(* The poll set. *)

(* As long as the clip monitor is open, the kernel gives every new socket *)
(* the number of the old one, which the poll set still has.               *)
LEMMA WatchStep == CoreInv /\ WatchInv /\ [Next]_vars => WatchInv'
<1> SUFFICES ASSUME CoreInv, WatchInv, [Next]_vars
             PROVE  WatchInv'
  OBVIOUS
<1> USE DEF CoreInv, WatchInv, InLoop
<1>fds. NoFd # Sock
  BY DEF NoFd, Sock
<1>same. ASSUME UNCHANGED <<fd, clipMonitorFd, pollFd>>, InLoop' => InLoop PROVE WatchInv'
  BY <1>same
<1>closed. ASSUME NEW why, NetDisconnect(why), UNCHANGED <<clipMonitorFd, pollFd>>, InLoop' => InLoop
           PROVE  WatchInv'
  BY <1>closed DEF NetDisconnect, CloseSocket
<1>exit. ASSUME Exit PROVE WatchInv'
  BY <1>exit, <1>closed DEF Exit
<1>reexec. ASSUME Reexec PROVE WatchInv'
  BY <1>reexec, <1>fds DEF Reexec, CloseSocket
<1>connect. ASSUME NEW next, TryConnect(next), pc = "main" => next = "main"
            PROVE  (pc \in {"main", "ready"}) => WatchInv'
  <2>1. CASE ConnectFails /\ pc' = next /\ UNCHANGED <<clipMonitorFd, pollFd>>
    BY <2>1, <1>same, <1>closed, <1>connect DEF ConnectFails, peer
  <2>2. CASE ConnectSucceeds /\ pc' = next /\ UNCHANGED <<clipMonitorFd, pollFd>>
    BY <2>2, <1>connect DEF ConnectSucceeds, LowestFree
  <2> QED BY <1>connect, <1>exit, <2>1, <2>2 DEF TryConnect
<1>begin. ASSUME NEW why \in {"restart", "fatal"}, BeginRestart(why) PROVE WatchInv'
  BY <1>begin, <1>same DEF BeginRestart, ctx, net, sig, peer, desk
<1>1. CASE HandleSignal \/ Restart \/ WaylandFails
  BY <1>1, <1>exit, <1>reexec, <1>begin DEF HandleSignal, Restart, WaylandFails
<1>2. CASE MainConnect \/ PollReconnect
  BY <1>2, <1>connect DEF MainConnect, PollReconnect
<1>3. CASE EnterPoll
  BY <1>3 DEF EnterPoll, SocketOwned
<1>4. CASE PollReturns \/ NotReadable \/ Proceed \/ NotConnected
  BY <1>4, <1>same DEF PollReturns, NotReadable, Proceed, NotConnected, net
<1>5. CASE PollTimesOut \/ Expire
  BY <1>5, <1>closed DEF PollTimesOut, Expire
<1>6. CASE Receive \/ ReceiveFails
  BY <1>6, <1>same DEF Receive, ReceiveFails, net
<1>7. CASE Packets
  BY <1>7, <1>same, PacketFrame DEF net, TypeOK
<1>8. CASE NoWayland \/ Wayland \/ ClipUpdate \/ LoopEnd
  BY <1>8, <1>same DEF NoWayland, Wayland, ClipUpdate, LoopEnd, net
<1>9. CASE Accept
  <2>1. CASE clipMonitorFd' = NoFd
    BY <2>1
  <2> QED BY <1>9, <2>1, <1>same DEF Accept
<1>10. CASE World
  BY <1>10, <1>same, <1>exit, WorldFrame DEF net
<1>11. CASE Exited \/ UNCHANGED vars
  BY <1>11, <1>same DEF Exited, vars, net
<1> QED BY <1>1, <1>2, <1>3, <1>4, <1>5, <1>6, <1>7, <1>8, <1>9, <1>10, <1>11
        DEF Next, Thread, Polling, Iteration

(* As long as the clip monitor was not closed, the poll set holds the     *)
(* session's own socket, also after netPoll's loop has reconnected behind *)
(* its back: the kernel hands out the same number again.                  *)
THEOREM PollSetCurrent == Spec => []PollWatchesSocket
<1>1. Init => CoreInv /\ WatchInv
  <2> SUFFICES ASSUME Init PROVE WatchInv
    BY CoreInit
  <2> QED BY DEF Init, WatchInv, InLoop, Monitor, NoFd
<1>2. CoreInv /\ WatchInv /\ [Next]_vars => CoreInv' /\ WatchInv'
  BY CoreStep, WatchStep
<1>3. CoreInv /\ WatchInv => PollWatchesSocket
  BY DEF CoreInv, WatchInv, PollWatchesSocket, SocketOwned
<1> QED BY <1>1, <1>2, <1>3, PTL DEF Spec

-----------------------------------------------------------------------------
(* Pending events. *)

(* An event that poll has reported is pending until its handler takes it: *)
(* nothing else in the loop takes it first.                               *)
LEMMA EventsStep == CoreInv /\ EventsInv /\ [Next]_vars => EventsInv'
<1> SUFFICES ASSUME CoreInv, EventsInv, [Next]_vars
             PROVE  EventsInv'
  OBVIOUS
<1> USE DEF CoreInv, EventsInv, Unserved
<1>out. ASSUME pc' \in {"main", "exited"} PROVE EventsInv'
  BY <1>out
<1>on. ASSUME UNCHANGED <<pollAll, revents>>, pc' # "ready",
              pc \in {"ready", "eat", "check"}, pc' \in {"eat", "check", "wl", "main", "exited"},
              UNCHANGED desk
       PROVE  EventsInv'
  BY <1>on DEF desk
<1>exit. ASSUME Exit PROVE EventsInv'
  BY <1>exit, <1>out DEF Exit
<1>reexec. ASSUME Reexec PROVE EventsInv'
  BY <1>reexec, <1>out DEF Reexec
<1>begin. ASSUME NEW why \in {"restart", "fatal"}, BeginRestart(why) PROVE EventsInv'
  BY <1>begin, <1>out DEF BeginRestart, ctx, net, sig, peer, desk
<1>1. CASE HandleSignal \/ Restart \/ WaylandFails
  BY <1>1, <1>exit, <1>reexec, <1>begin DEF HandleSignal, Restart, WaylandFails
<1>2. CASE MainConnect
  BY <1>2, <1>exit, <1>out DEF MainConnect, TryConnect
<1>3. CASE PollReconnect
  BY <1>3, <1>exit, <1>on DEF PollReconnect, TryConnect
<1>4. CASE EnterPoll
  BY <1>4 DEF EnterPoll
<1>5. CASE PollReturns
  <2>1. PICK s \in SynEvents, m \in MonEvents :
          revents' = IF pollAll THEN [syn |-> s, wl |-> wlPending, mon |-> m, upd |-> clipUpdate]
                                ELSE [revents EXCEPT !.syn = s]
    BY <1>5 DEF PollReturns
  <2>2. s => Readable
    BY DEF SynEvents
  <2>3. m => clipWaiting \/ ~ClipEnabled
    BY DEF MonEvents
  <2>4. /\ pc = "poll" /\ pc' = "ready"
        /\ UNCHANGED <<link, inbox, wlPending, clipWaiting, clipUpdate>>
    BY <1>5 DEF PollReturns, peer, desk
  <2>5. CASE pollAll
    BY <2>1, <2>2, <2>3, <2>4, <2>5 DEF Readable
  <2>6. CASE ~pollAll
    <3>1. /\ revents'.syn = s /\ revents'.wl = revents.wl
          /\ revents'.mon = revents.mon /\ revents'.upd = revents.upd
      BY <2>1, <2>6 DEF TypeOK, PollSetOK
    <3> QED BY <2>2, <2>4, <2>6, <3>1 DEF Readable
  <2> QED BY <2>5, <2>6
<1>6. CASE PollTimesOut \/ Expire
  BY <1>6, <1>out DEF PollTimesOut, Expire
<1>7. CASE NotReadable \/ Receive \/ ReceiveFails \/ Proceed
  BY <1>7, <1>on DEF NotReadable, Receive, ReceiveFails, Proceed, net
<1>8. CASE Packets
  BY <1>8, <1>on, PacketFrame DEF net, TypeOK
<1>9. CASE NotConnected
  BY <1>9 DEF NotConnected, desk
<1>10. CASE NoWayland \/ Wayland
  BY <1>10 DEF NoWayland, Wayland, net, desk
<1>11. CASE Accept
  BY <1>11 DEF Accept
<1>12. CASE ClipUpdate
  BY <1>12 DEF ClipUpdate, net
<1>13. CASE LoopEnd
  BY <1>13 DEF LoopEnd, LoopInv
<1>14. CASE World
  BY <1>14, <1>exit, <1>out, WorldFrame DEF net
<1>15. CASE Exited \/ UNCHANGED vars
  BY <1>15 DEF Exited, vars, net, peer, desk, Readable
<1> QED BY <1>1, <1>2, <1>3, <1>4, <1>5, <1>6, <1>7, <1>8, <1>9, <1>10, <1>11, <1>12, <1>13, <1>14, <1>15
        DEF Next, Thread, Polling, Iteration

(* The one thread never blocks in a read, a dispatch or an accept, although *)
(* after a poll of the socket alone revents is a mixture of two polls.    *)
THEOREM HandlersNeverBlock == Spec => []NeverBlocks
<1>1. Init => EventsInv
  BY DEF Init, EventsInv, Unserved, NoEvents
<1>2. CoreInv /\ EventsInv => NeverBlocks
  BY DEF EventsInv, NeverBlocks, Unserved
<1> QED BY CoreInit, CoreStep, EventsStep, <1>1, <1>2, PTL DEF Spec

-----------------------------------------------------------------------------
(* Refusals, and the phases of Lifecycle. *)

(* Of the thread's steps outside the packet handlers, those that change   *)
(* neither the session's standing nor whether the process lives.          *)
LEMMA QuietSteps ==
  ASSUME \/ EnterPoll \/ PollReturns \/ NotReadable \/ Receive \/ NotConnected \/ Proceed
         \/ NoWayland \/ Wayland \/ Accept \/ ClipUpdate \/ LoopEnd
         \/ Exited \/ UNCHANGED vars
  PROVE  UNCHANGED <<connected, lastError, lost, fd>> /\ (pc = "exited" <=> pc' = "exited")
<1> USE DEF ctx, net
<1>1. CASE EnterPoll \/ PollReturns \/ NotReadable \/ Receive
  BY <1>1 DEF EnterPoll, PollReturns, NotReadable, Receive
<1>2. CASE NotConnected \/ Proceed \/ NoWayland \/ Wayland
  BY <1>2 DEF NotConnected, Proceed, NoWayland, Wayland
<1>3. CASE Accept \/ ClipUpdate \/ LoopEnd \/ Exited \/ UNCHANGED vars
  BY <1>3 DEF Accept, ClipUpdate, LoopEnd, Exited, vars
<1> QED BY <1>1, <1>2, <1>3

(* A refusal that is fatal stays in m_lastError: nothing but the next     *)
(* disconnection writes it, and without a session there is none.          *)
LEMMA RefusalStep == CoreInv /\ RefusalInv /\ [Next]_vars => RefusalInv'
<1> SUFFICES ASSUME CoreInv, RefusalInv, [Next]_vars
             PROVE  RefusalInv'
  OBVIOUS
<1> USE DEF CoreInv, RefusalInv, LastErrorIsFatal
<1>same. ASSUME UNCHANGED <<connected, lastError, lost>> PROVE RefusalInv'
  BY <1>same
<1>closed. ASSUME NEW why \in {lost, "TIMEOUT"}, NetDisconnect(why) PROVE RefusalInv'
  BY <1>closed DEF NetDisconnect
<1>exit. ASSUME Exit PROVE RefusalInv'
  BY <1>exit, <1>closed DEF Exit
<1>reexec. ASSUME Reexec PROVE RefusalInv'
  BY <1>reexec DEF Reexec
<1>connect. ASSUME NEW next, TryConnect(next), ~connected PROVE RefusalInv'
  <2>1. CASE ~LastErrorIsFatal /\ ConnectFails
    BY <2>1, <1>same, <1>closed DEF ConnectFails, ctx
  <2>2. CASE ~LastErrorIsFatal /\ ConnectSucceeds
    BY <2>2 DEF ConnectSucceeds
  <2> QED BY <1>connect, <1>exit, <2>1, <2>2 DEF TryConnect
<1>begin. ASSUME NEW why \in {"restart", "fatal"}, BeginRestart(why) PROVE RefusalInv'
  BY <1>begin, <1>same DEF BeginRestart, ctx, net, sig, peer, desk
<1>1. CASE HandleSignal \/ Restart \/ WaylandFails
  BY <1>1, <1>exit, <1>reexec, <1>begin DEF HandleSignal, Restart, WaylandFails
<1>2. CASE MainConnect \/ PollReconnect
  BY <1>2, <1>connect DEF MainConnect, PollReconnect
<1>3. CASE \/ EnterPoll \/ PollReturns \/ NotReadable \/ Receive \/ NotConnected \/ Proceed
           \/ NoWayland \/ Wayland \/ Accept \/ ClipUpdate \/ LoopEnd
           \/ Exited \/ UNCHANGED vars
  BY <1>3, <1>same, QuietSteps
<1>4. CASE PollTimesOut \/ Expire
  BY <1>4, <1>closed DEF PollTimesOut, Expire
<1>5. CASE ReceiveFails
  BY <1>5 DEF ReceiveFails, SetDisconnected
<1>6. CASE Packets
  <2>1. CASE connected'
    BY <1>6, <2>1, PacketFrame DEF TypeOK
  <2>2. CASE lastError' = lost' /\ ~connected'
    BY <2>2
  <2>3. CASE lost' = "INIT" /\ ~connected'
    BY <2>3
  <2>4. connected' \/ (~connected' /\ (lastError' = lost' \/ lost' = "INIT"))
    BY <1>6
    DEF Packets, Hello, QueryInfo, InfoAck, Enter, Leave, Input, Ignore, Farewell, EatUnknown,
        DrainOversized, Incomplete, SetDisconnected, SameSession, ctx, At, Misframed, LoopInv
  <2> QED BY <2>1, <2>2, <2>3, <2>4
<1>7. CASE World
  BY <1>7, <1>exit, <1>same, WorldFrame DEF ctx
<1> QED BY <1>1, <1>2, <1>3, <1>4, <1>5, <1>6, <1>7 DEF Next, Thread, Polling, Iteration

(* At the start nothing has been refused.                                 *)
LEMMA RefusalInit == Init => RefusalInv
BY DEF Init, RefusalInv, LastErrorIsFatal

(* A client that the server has refused with an error configured as fatal *)
(* exits instead of connecting again, whichever of the two places that try *)
(* to connect is reached first.                                           *)
THEOREM RefusalAlwaysFinal == Spec => RefusalIsFinal
<1>1. CoreInv /\ RefusalInv /\ [Next]_vars => [Connects => lost \notin Fatal \cap {"EBSY", "EBAD"}]_vars
  <2> SUFFICES ASSUME CoreInv, RefusalInv, Next, Connects
               PROVE  lost \notin Fatal \cap {"EBSY", "EBAD"}
    OBVIOUS
  <2>1. MainConnect \/ PollReconnect
    <3>1. ~Exit /\ ~Reexec
      BY DEF Connects, Exit, Reexec, NetDisconnect
    <3>2. ~HandleSignal /\ ~Restart /\ ~WaylandFails
      BY <3>1 DEF Connects, HandleSignal, Restart, BeginRestart, WaylandFails, ctx
    <3>3. ~PollTimesOut /\ ~Expire /\ ~ReceiveFails
      BY DEF Connects, PollTimesOut, Expire, ReceiveFails, NetDisconnect, SetDisconnected
    <3>4. ~Packets
      BY PacketFrame DEF Connects, CoreInv, TypeOK
    <3>5. ~World
      BY <3>1, WorldFrame DEF Connects, CoreInv, ctx
    <3> QED BY <3>2, <3>3, <3>4, <3>5, QuietSteps DEF Connects, Next, Thread, Polling, Iteration
  <2>2. ~LastErrorIsFatal
    BY <2>1 DEF MainConnect, PollReconnect, TryConnect, Exit, NetDisconnect, Connects
  <2> QED BY <2>2 DEF RefusalInv, LastErrorIsFatal
<1> QED BY CoreInit, CoreStep, RefusalInit, RefusalStep, <1>1, PTL DEF Spec, RefusalIsFinal

(* Every step of the program is one of Lifecycle's, or none.              *)
LEMMA LifecycleStep == CoreInv /\ RefusalInv /\ [Next]_vars => [L!Next]_phase
<1> SUFFICES ASSUME CoreInv, RefusalInv, [Next]_vars
             PROVE  [L!Next]_phase
  OBVIOUS
<1> USE DEF CoreInv, RefusalInv, L!Next
<1>same. ASSUME UNCHANGED <<connected, lastError, fd>>, pc = "exited" <=> pc' = "exited" PROVE UNCHANGED phase
  BY <1>same DEF phase, Alive, LastErrorIsFatal
<1>closed. ASSUME NetDisconnect("TIMEOUT") \/ NetDisconnect(lost), pc # "exited", pc' # "exited"
           PROVE  [L!Next]_phase
  <2>1. ~connected' /\ fd' = NoFd /\ lastError' = lastError
    BY <1>closed DEF NetDisconnect, CloseSocket
  <2>2. phase' = IF LastErrorIsFatal THEN "refused" ELSE "closed"
    BY <1>closed, <2>1 DEF phase, Alive, LastErrorIsFatal
  <2>3. phase \in {"live", "lost", "closed", "refused"} /\ (phase = "refused" <=> LastErrorIsFatal)
    BY <1>closed DEF phase, Alive
  <2> QED BY <2>2, <2>3 DEF L!CleanUp
<1>ended. ASSUME connected, ~connected', pc # "exited", pc' # "exited", UNCHANGED fd PROVE L!Next
  <2>1. phase = "live" /\ phase' \in {"lost", "refused"}
    BY <1>ended DEF phase, Alive, SocketOwned
  <2> QED BY <2>1 DEF L!Lose, L!Refuse
<1>exit. ASSUME Exit PROVE L!Next
  BY <1>exit DEF Exit, phase, Alive, L!Stop
<1>reexec. ASSUME Reexec, pc # "exited" PROVE L!Next
  BY <1>reexec DEF Reexec, CloseSocket, phase, Alive, LastErrorIsFatal, L!Reexec
<1>connect. ASSUME NEW next \in {"main", "check"}, TryConnect(next), ~connected, pc # "exited"
            PROVE  [L!Next]_phase
  <2>1. CASE ConnectFails /\ pc' = next
    BY <2>1, <1>same, <1>closed, <1>connect DEF ConnectFails, ctx
  <2>2. CASE ConnectSucceeds /\ pc' = next /\ ~LastErrorIsFatal
    <3>1. phase \in {"closed", "lost"} /\ phase' = "live"
      BY <2>2, <1>connect DEF ConnectSucceeds, phase, Alive
    <3> QED BY <3>1 DEF L!Connect
  <2> QED BY <1>connect, <1>exit, <2>1, <2>2 DEF TryConnect
<1>begin. ASSUME NEW why \in {"restart", "fatal"}, BeginRestart(why), pc # "exited" PROVE [L!Next]_phase
  BY <1>begin, <1>same DEF BeginRestart, ctx, net, sig, peer, desk
<1>1. CASE HandleSignal \/ Restart \/ WaylandFails
  BY <1>1, <1>exit, <1>reexec, <1>begin DEF HandleSignal, Restart, WaylandFails, At
<1>2. CASE MainConnect \/ PollReconnect
  BY <1>2, <1>connect DEF MainConnect, PollReconnect
<1>3. CASE \/ EnterPoll \/ PollReturns \/ NotReadable \/ Receive \/ NotConnected \/ Proceed
           \/ NoWayland \/ Wayland \/ Accept \/ ClipUpdate \/ LoopEnd
           \/ Exited \/ UNCHANGED vars
  BY <1>3, <1>same, QuietSteps
<1>4. CASE PollTimesOut \/ Expire
  BY <1>4, <1>closed DEF PollTimesOut, Expire
<1>5. CASE ReceiveFails
  BY <1>5, <1>ended DEF ReceiveFails, SetDisconnected, net
<1>6. CASE Packets
  <2>1. connected /\ pc # "exited" /\ pc' # "exited" /\ UNCHANGED fd /\ (connected' => UNCHANGED lastError)
    BY <1>6, PacketFrame DEF TypeOK, LoopInv, net
  <2>2. CASE connected'
    BY <2>1, <2>2, <1>same DEF phase, Alive
  <2>3. CASE ~connected'
    BY <2>1, <2>3, <1>ended
  <2> QED BY <2>2, <2>3
<1>7. CASE World
  BY <1>7, <1>exit, <1>same, WorldFrame DEF ctx, net
<1> QED BY <1>1, <1>2, <1>3, <1>4, <1>5, <1>6, <1>7 DEF Next, Thread, Polling, Iteration

(* The client goes through the phases of Lifecycle, step by step: a session *)
(* that ends leaves its socket, a fatal error leaves only the exit or a   *)
(* re-execution, and what has stopped stays so.                           *)
THEOREM FollowsLifecycle == Spec => LifecycleSteps
<1>1. Init => L!Init
  BY DEF Init, L!Init, phase, Alive, LastErrorIsFatal
<1> QED BY CoreInit, CoreStep, RefusalInit, RefusalStep, LifecycleStep, <1>1, PTL DEF Spec, LifecycleSteps

-----------------------------------------------------------------------------
(* What a new connection finds. *)

(* A session that answers does not become a stranger.                     *)
LEMMA FreshAnswered ==
  ASSUME NEW buf, NEW coming, NEW met, NEW met2, Fresh(buf, coming, met),
         met2 # "twice", met # "done" => met2 # "done"
  PROVE  Fresh(buf, coming, met2)
BY DEF Fresh

(* Once the first of the buffer is consumed there is no Hello any more.   *)
LEMMA FreshConsumed ==
  ASSUME NEW buf \in Seq(Parts), NEW coming, NEW met, NEW met2, Fresh(buf, coming, met),
         NEW n \in 1..Len(buf), met2 # "twice"
  PROVE  Fresh(SubSeq(buf, n + 1, Len(buf)), coming, met2)
<1>1. Len(buf) \in Nat /\ buf # <<>>
  BY LenProperties, EmptySeq
<1> DEFINE rest == SubSeq(buf, n + 1, Len(buf))
<1>2. \A i \in 1..Len(rest) : i + n \in 1..Len(buf) /\ rest[i] = buf[i + n] /\ i + n # 1
  <2>1. rest = [i \in 1..Len(buf) - n |-> buf[i + n]] /\ Len(rest) = Len(buf) - n
    BY <1>1, SubSeqProperties
  <2> QED BY <1>1, <2>1
<1>3. \A i \in 1..Len(rest) : ~rest[i].old /\ ~IsHello(rest[i])
  BY <1>2 DEF Fresh
<1> HIDE DEF rest
<1> QED BY <1>1, <1>3 DEF Fresh, rest

(* Bytes read come after those in the buffer, which they do not change.   *)
LEMMA FreshReceived ==
  ASSUME NEW buf \in Seq(Parts), NEW coming \in Seq(Parts), NEW met, Fresh(buf, coming, met),
         NEW k \in 1..Len(coming)
  PROVE  Fresh(buf \o SubSeq(coming, 1, k), SubSeq(coming, k + 1, Len(coming)), met)
<1> DEFINE first == SubSeq(coming, 1, k)
           rest  == SubSeq(coming, k + 1, Len(coming))
           all   == buf \o first
<1>1. Len(buf) \in Nat /\ Len(coming) \in Nat
  BY LenProperties
<1>2. /\ first \in Seq(Parts) /\ Len(first) = k
      /\ \A i \in 1..k : first[i] = coming[i]
  <2>1. first \in Seq(Parts)
    BY <1>1, SubSeqOfParts
  <2>2. first = [i \in 1..k |-> coming[i]] /\ Len(first) = k
    BY <1>1, SubSeqProperties
  <2> QED BY <1>1, <2>1, <2>2
<1>3. /\ Len(rest) = Len(coming) - k
      /\ \A i \in 1..Len(rest) : rest[i] = coming[i + k] /\ i + k \in 1..Len(coming) /\ i + k # 1
  <2>1. rest = [i \in 1..Len(coming) - k |-> coming[i + k]] /\ Len(rest) = Len(coming) - k
    BY <1>1, SubSeqProperties
  <2> QED BY <1>1, <2>1
<1>4. /\ Len(all) = Len(buf) + k
      /\ \A i \in 1..Len(all) : all[i] = IF i <= Len(buf) THEN buf[i] ELSE coming[i - Len(buf)]
  BY <1>1, <1>2, ConcatProperties
<1>5. buf = <<>> => Len(buf) = 0
  BY EmptySeq
<1> HIDE DEF first, rest, all
<1>6. \A i \in 1..Len(all) : ~all[i].old /\ (IsHello(all[i]) => i = 1 /\ met # "done")
  <2> SUFFICES ASSUME NEW i \in 1..Len(all)
               PROVE  ~all[i].old /\ (IsHello(all[i]) => i = 1 /\ met # "done")
    OBVIOUS
  <2>1. CASE i <= Len(buf)
    <3>1. all[i] = buf[i] /\ i \in 1..Len(buf)
      BY <1>1, <1>4, <2>1
    <3> QED BY <3>1 DEF Fresh
  <2>2. CASE ~(i <= Len(buf))
    <3>1. all[i] = coming[i - Len(buf)] /\ i - Len(buf) \in 1..Len(coming)
      BY <1>1, <1>4, <2>2
    <3>2. ~all[i].old /\ (IsHello(all[i]) => i - Len(buf) = 1 /\ met # "done" /\ buf = <<>>)
      BY <3>1 DEF Fresh
    <3> QED BY <1>1, <1>5, <3>2
  <2> QED BY <2>1, <2>2
<1>7. \A i \in 1..Len(rest) : ~rest[i].old /\ ~IsHello(rest[i])
  BY <1>3 DEF Fresh
<1> QED BY <1>6, <1>7 DEF Fresh, first, rest, all

(* Bytes thrown away, in the buffer and behind it, take the Hello along.  *)
LEMMA FreshDrained ==
  ASSUME NEW buf, NEW coming \in Seq(Parts), NEW met, Fresh(buf, coming, met), buf # <<>>,
         NEW n \in 0..Len(coming)
  PROVE  Fresh(<<>>, SubSeq(coming, n + 1, Len(coming)), met)
<1> DEFINE rest == SubSeq(coming, n + 1, Len(coming))
<1>1. Len(coming) \in Nat /\ Len(<<>>) = 0
  BY LenProperties
<1>2. rest = [i \in 1..Len(coming) - n |-> coming[i + n]] /\ Len(rest) = Len(coming) - n
  BY <1>1, SubSeqProperties
<1>3. \A i \in 1..Len(rest) : rest[i] = coming[i + n] /\ i + n \in 1..Len(coming)
  BY <1>1, <1>2
<1>4. \A i \in 1..Len(rest) : ~rest[i].old /\ ~IsHello(rest[i])
  BY <1>3 DEF Fresh
<1> HIDE DEF rest
<1> QED BY <1>1, <1>4 DEF Fresh, rest

(* What is lost on the way is the last of it.                             *)
LEMMA FreshCutOff ==
  ASSUME NEW buf, NEW coming \in Seq(Parts), NEW met, Fresh(buf, coming, met), NEW n \in 0..Len(coming)
  PROVE  Fresh(buf, SubSeq(coming, 1, n), met)
<1> DEFINE rest == SubSeq(coming, 1, n)
<1>1. Len(coming) \in Nat
  BY LenProperties
<1>2. rest = [i \in 1..n |-> coming[i]] /\ Len(rest) = n
  BY <1>1, SubSeqProperties
<1>3. \A i \in 1..Len(rest) : rest[i] = coming[i] /\ i \in 1..Len(coming)
  BY <1>1, <1>2
<1> HIDE DEF rest
<1> QED BY <1>3 DEF Fresh, rest

(* The server says Hello only once.                                       *)
LEMMA FreshSent ==
  ASSUME NEW buf, NEW coming \in Seq(Parts), NEW met, Fresh(buf, coming, met), NEW msg \in AllKinds
  PROVE  Fresh(buf, coming \o Packet(msg), met)
<1> DEFINE all == coming \o Packet(msg)
<1>1. Len(coming) \in Nat
  BY LenProperties
<1>2. /\ Packet(msg) \in Seq(Parts) /\ Len(Packet(msg)) = 2
      /\ Packet(msg)[1] = Part(msg, 1) /\ Packet(msg)[2] = Part(msg, 2)
  BY PacketIsParts DEF Packet
<1>3. msg # "Hello"
  BY DEF AllKinds, Farewells
<1>4. \A i \in 1..2 : ~Packet(msg)[i].old /\ ~IsHello(Packet(msg)[i])
  BY <1>2, <1>3 DEF Part, IsHello
<1>5. /\ Len(all) = Len(coming) + 2
      /\ \A i \in 1..Len(all) : all[i] = IF i <= Len(coming) THEN coming[i] ELSE Packet(msg)[i - Len(coming)]
  <2>1. /\ Len(all) = Len(coming) + Len(Packet(msg))
        /\ \A i \in 1..Len(coming) + Len(Packet(msg)) :
             all[i] = IF i <= Len(coming) THEN coming[i] ELSE Packet(msg)[i - Len(coming)]
    <3>1. coming \in Seq(Parts) /\ Packet(msg) \in Seq(Parts)
      BY <1>2
    <3> QED BY <3>1, ConcatProperties
  <2> HIDE DEF all
  <2> QED BY <1>1, <1>2, <2>1
<1> HIDE DEF all
<1>6. \A i \in 1..Len(all) :
        ~all[i].old /\ (IsHello(all[i]) => i = 1 /\ met # "done" /\ buf = <<>>)
  <2> SUFFICES ASSUME NEW i \in 1..Len(all)
               PROVE  ~all[i].old /\ (IsHello(all[i]) => i = 1 /\ met # "done" /\ buf = <<>>)
    OBVIOUS
  <2>1. CASE i <= Len(coming)
    <3>1. all[i] = coming[i] /\ i \in 1..Len(coming)
      BY <1>1, <1>5, <2>1
    <3> QED BY <3>1 DEF Fresh
  <2>2. CASE ~(i <= Len(coming))
    <3>1. all[i] = Packet(msg)[i - Len(coming)] /\ i - Len(coming) \in 1..2
      BY <1>1, <1>5, <2>2
    <3> QED BY <3>1, <1>4
  <2> QED BY <2>1, <2>2
<1> QED BY <1>6 DEF Fresh, all

(* A new connection starts fresh if nothing is left in the buffer.        *)
LEMMA FreshStart ==
  ASSUME NEW buf, buf = [i \in 1..Len(<<>>) |-> [<<>>[i] EXCEPT !.old = TRUE]]
  PROVE  Fresh(buf, Packet("Hello"), "sent")
<1>1. Len(<<>>) = 0
  OBVIOUS
<1>2. buf = <<>>
  BY <1>1
<1>3. /\ Len(Packet("Hello")) = 2
      /\ Packet("Hello")[1] = Part("Hello", 1) /\ Packet("Hello")[2] = Part("Hello", 2)
  BY DEF Packet
<1>4. \A i \in 1..2 : ~Packet("Hello")[i].old /\ (IsHello(Packet("Hello")[i]) => i = 1)
  BY <1>3 DEF Part, IsHello
<1> QED BY <1>1, <1>2, <1>3, <1>4 DEF Fresh

(* A farewell empties the buffer, and from then on each step keeps what a  *)
(* connection reads free of older ones, and its one Hello in front.       *)
LEMMA CleanStep == CoreInv /\ CleanInv /\ [Next]_vars => CleanInv'
<1> SUFFICES ASSUME CoreInv, CleanInv, [Next]_vars
             PROVE  CleanInv'
  OBVIOUS
<1> DEFINE Told == lost \in {"NONE", "EBAD", "EBSY"}
<1> USE DEF CoreInv
<1>len. recvBuf \in Seq(Parts) /\ inbox \in Seq(Parts) /\ Len(recvBuf) \in Nat /\ Len(inbox) \in Nat
  BY LenProperties DEF TypeOK, BuffersOK
<1>same. ASSUME UNCHANGED <<connected, lost, recvBuf, inbox, greeting>>, pc = "exited" => pc' = "exited"
         PROVE  CleanInv'
  BY <1>same DEF CleanInv
<1>on. ASSUME connected', UNCHANGED <<connected, lost>>,
              Told /\ Fresh(recvBuf, inbox, greeting) => Fresh(recvBuf, inbox, greeting)'
       PROVE  CleanInv'
  BY <1>on DEF CleanInv
<1>off. ASSUME ~Told' \/ (~connected' /\ (recvBuf' = <<>> \/ pc' = "exited")) PROVE CleanInv'
  BY <1>off DEF CleanInv
<1>answer. ASSUME NEW msg \in {"DINF", "CNOP", "CCLP"}, Answer(msg)
           PROVE  /\ UNCHANGED inbox
                  /\ greeting # "twice" => greeting' # "twice"
                  /\ greeting # "done" => greeting' # "done"
  BY <1>answer DEF Answer, Send, Greeted
<1>closed. ASSUME NetDisconnect("TIMEOUT") \/ (NetDisconnect(lost) /\ ~connected), pc # "exited"
           PROVE  CleanInv'
  <2>1. CASE connected
    BY <2>1, <1>closed, <1>off DEF NetDisconnect
  <2>2. CASE ~connected
    <3>1. ~connected' /\ UNCHANGED <<lost, recvBuf>>
      BY <2>2, <1>closed DEF NetDisconnect
    <3> QED BY <2>2, <3>1, <1>closed DEF CleanInv
  <2> QED BY <2>1, <2>2
<1>exit. ASSUME Exit PROVE CleanInv'
  BY <1>exit, <1>off DEF Exit, NetDisconnect
<1>reexec. ASSUME Reexec PROVE CleanInv'
  BY <1>reexec, <1>off DEF Reexec
<1>connect. ASSUME NEW next \in {"main", "check"}, TryConnect(next), ~connected, pc # "exited"
            PROVE  CleanInv'
  <2>1. CASE ConnectFails /\ pc' = next
    BY <2>1, <1>same, <1>closed, <1>connect DEF ConnectFails, ctx, peer
  <2>2. CASE ConnectSucceeds
    <3>1. CASE Told
      <4>1. recvBuf = <<>>
        BY <3>1, <1>connect DEF CleanInv
      <4>2. recvBuf' = [i \in 1..Len(<<>>) |-> [<<>>[i] EXCEPT !.old = TRUE]]
        BY <2>2, <4>1 DEF ConnectSucceeds
      <4>3. Fresh(recvBuf', Packet("Hello"), "sent")
        BY <4>2, FreshStart
      <4> QED BY <2>2, <4>3 DEF ConnectSucceeds, CleanInv
    <3>2. CASE ~Told
      BY <2>2, <3>2, <1>off DEF ConnectSucceeds
    <3> QED BY <3>1, <3>2
  <2> QED BY <1>connect, <1>exit, <2>1, <2>2 DEF TryConnect
<1>begin. ASSUME NEW why \in {"restart", "fatal"}, BeginRestart(why), pc # "exited" PROVE CleanInv'
  <2>1. UNCHANGED <<connected, lost, greeting, recvBuf, inbox>>
    BY <1>begin DEF BeginRestart, ctx, peer
  <2> QED BY <1>begin, <2>1, <1>same
<1>1. CASE HandleSignal \/ Restart \/ WaylandFails
  <2>1. pc # "exited"
    BY <1>1 DEF HandleSignal, Restart, WaylandFails, At
  <2> QED BY <1>1, <2>1, <1>exit, <1>reexec, <1>begin DEF HandleSignal, Restart, WaylandFails
<1>2. CASE MainConnect \/ PollReconnect
  BY <1>2, <1>connect DEF MainConnect, PollReconnect
<1>3. CASE EnterPoll \/ PollReturns \/ NotReadable \/ NotConnected \/ Proceed \/ NoWayland
  BY <1>3, <1>same DEF EnterPoll, PollReturns, NotReadable, NotConnected, Proceed, NoWayland, ctx, peer
<1>4. CASE Accept \/ LoopEnd \/ Incomplete \/ Exited \/ UNCHANGED vars
  BY <1>4, <1>same DEF Accept, LoopEnd, Incomplete, Exited, vars, ctx, peer
<1>5. CASE PollTimesOut \/ Expire
  BY <1>5, <1>closed DEF PollTimesOut, Expire
<1>6. CASE Receive
  <2>1. PICK k \in 1..Len(inbox) : /\ recvBuf' = recvBuf \o SubSeq(inbox, 1, k)
                                   /\ inbox' = SubSeq(inbox, k + 1, Len(inbox))
    BY <1>6 DEF Receive
  <2>2. connected /\ UNCHANGED <<connected, lost, greeting>>
    BY <1>6 DEF Receive
  <2>3. ASSUME Fresh(recvBuf, inbox, greeting) PROVE Fresh(recvBuf, inbox, greeting)'
    <3>1. Fresh(recvBuf \o SubSeq(inbox, 1, k), SubSeq(inbox, k + 1, Len(inbox)), greeting)
      BY <2>3, <1>len, FreshReceived
    <3> QED BY <3>1, <2>1, <2>2
  <2> QED BY <2>2, <2>3, <1>on
<1>7. CASE ReceiveFails
  BY <1>7, <1>off DEF ReceiveFails, SetDisconnected
<1>eat. ASSUME connected, UNCHANGED <<connected, lost, inbox>>, NEW n \in 1..Len(recvBuf), Consume(n),
               Told /\ Fresh(recvBuf, inbox, greeting) => greeting' # "twice"
        PROVE  CleanInv'
  <2>1. ASSUME Told, Fresh(recvBuf, inbox, greeting) PROVE Fresh(recvBuf, inbox, greeting)'
    <3>1. Fresh(SubSeq(recvBuf, n + 1, Len(recvBuf)), inbox, greeting')
      BY <2>1, <1>eat, <1>len, FreshConsumed
    <3> QED BY <3>1, <1>eat DEF Consume
  <2> QED BY <2>1, <1>eat, <1>on
<1>live. ASSUME pc = "eat" PROVE connected
  BY <1>live DEF LoopInv
<1>8. CASE Hello
  <2>1. /\ connected /\ 2 \in 1..Len(recvBuf)
        /\ 1 \in 1..Len(recvBuf) /\ IsHello(recvBuf[1])
    BY <1>8, <1>len, <1>live DEF Hello, At, IsHello
  <2>2. PICK ok \in BOOLEAN :
          /\ Send("HelloBack", ok)
          /\ IF ok THEN Consume(2) /\ UNCHANGED <<connected, lost>> ELSE lost' = "INIT"
    BY <1>8 DEF Hello
  <2>3. CASE ok
    <3>1. ASSUME Fresh(recvBuf, inbox, greeting) PROVE greeting' # "twice"
      <4>1. greeting \notin {"done", "twice"}
        BY <3>1, <2>1 DEF Fresh
      <4> QED BY <4>1, <2>2 DEF Send, Greeted
    <3> QED BY <1>8, <2>1, <2>2, <2>3, <3>1, <1>eat DEF Hello
  <2>4. CASE ~ok
    BY <2>2, <2>4, <1>off
  <2> QED BY <2>3, <2>4
<1>9. CASE QueryInfo \/ InfoAck \/ Enter \/ Leave \/ Input \/ Ignore
  <2>1. connected /\ 2 \in 1..Len(recvBuf) /\ Consume(2) /\ UNCHANGED <<connected, lost>>
    BY <1>9, <1>len, <1>live DEF QueryInfo, InfoAck, Enter, Leave, Input, Ignore, At, SameSession
  <2>2. UNCHANGED inbox /\ (greeting # "twice" => greeting' # "twice")
    <3>1. CASE QueryInfo \/ Enter \/ Leave \/ Input
      BY <3>1, <1>answer DEF QueryInfo, Enter, Leave, Input
    <3>2. CASE InfoAck \/ Ignore
      BY <3>2 DEF InfoAck, Ignore, NoAnswer, peer
    <3> QED BY <1>9, <3>1, <3>2
  <2> QED BY <2>1, <2>2, <1>eat DEF Fresh
<1>10. CASE Farewell
  BY <1>10, <1>off DEF Farewell, SetDisconnected
<1>11. CASE EatUnknown
  <2>1. pc = "eat" /\ 1 \in 1..Len(recvBuf)
    BY <1>11, <1>len, EmptySeq DEF EatUnknown, Misframed
  <2>2. recvBuf[1].h \in {1, 2}
    <3>1. recvBuf[1] \in Parts
      BY <2>1, <1>len, ElementOfSeq
    <3> QED BY <3>1 DEF Parts
  <2>3. PICK n \in 3 - recvBuf[1].h .. Len(recvBuf) : Consume(n)
    BY <1>11 DEF EatUnknown
  <2>4. n \in 1..Len(recvBuf)
    BY <2>2, <1>len
  <2>5. UNCHANGED <<connected, lost, inbox, greeting>>
    BY <1>11 DEF EatUnknown, SameSession, NoAnswer, peer
  <2> QED BY <2>1, <2>3, <2>4, <2>5, <1>live, <1>eat DEF Fresh
<1>12. CASE DrainOversized
  <2>1. connected /\ recvBuf # <<>> /\ UNCHANGED greeting
    BY <1>12, <1>live DEF DrainOversized, Misframed
  <2>2. CASE SetDisconnected("TIMEOUT")
    BY <2>2, <1>off DEF SetDisconnected
  <2>3. ASSUME NEW n \in 0..Len(inbox), recvBuf' = <<>>, inbox' = SubSeq(inbox, n + 1, Len(inbox)),
               UNCHANGED <<connected, lost>>
        PROVE  CleanInv'
    <3>1. ASSUME Fresh(recvBuf, inbox, greeting) PROVE Fresh(recvBuf, inbox, greeting)'
      <4>1. Fresh(<<>>, SubSeq(inbox, n + 1, Len(inbox)), greeting)
        BY <3>1, <2>1, <1>len, FreshDrained
      <4> QED BY <4>1, <2>1, <2>3
    <3> QED BY <3>1, <2>1, <2>3, <1>on
  <2> QED BY <1>12, <2>2, <2>3 DEF DrainOversized
<1>13. CASE Wayland \/ ClipUpdate
  <2>1. UNCHANGED <<connected, lost, recvBuf>> /\ pc # "exited"
    BY <1>13 DEF Wayland, ClipUpdate, ctx
  <2>2. connected
    BY <1>13 DEF Wayland, ClipUpdate, LoopInv
  <2>3. CASE NoAnswer
    BY <2>1, <2>3, <1>same DEF NoAnswer, peer
  <2>4. CASE Answer("DINF") \/ Answer("CCLP")
    <3>1. /\ UNCHANGED inbox
          /\ greeting # "twice" => greeting' # "twice"
          /\ greeting # "done" => greeting' # "done"
      BY <2>4, <1>answer
    <3>2. ASSUME Fresh(recvBuf, inbox, greeting) PROVE Fresh(recvBuf, inbox, greeting)'
      <4>1. greeting' # "twice"
        BY <3>1, <3>2 DEF Fresh
      <4>2. Fresh(recvBuf, inbox, greeting')
        BY <3>1, <3>2, <4>1, FreshAnswered
      <4> QED BY <4>2, <2>1, <3>1
    <3> QED BY <2>1, <2>2, <3>2, <1>on
  <2>5. CASE UNCHANGED <<sig, peer>>
    BY <2>1, <2>5, <1>same DEF peer
  <2> QED BY <1>13, <2>3, <2>4, <2>5 DEF Wayland, ClipUpdate, NoAnswer
<1>14. CASE \E msg \in Kinds : ServerSends(msg)
  <2>1. PICK msg \in AllKinds : inbox' = inbox \o Packet(msg)
    BY <1>14, KindsAssumption DEF ServerSends
  <2>2. UNCHANGED <<connected, lost, recvBuf, greeting, pc>>
    BY <1>14 DEF ServerSends, ctx
  <2>3. ASSUME Fresh(recvBuf, inbox, greeting) PROVE Fresh(recvBuf, inbox, greeting)'
    <3>1. Fresh(recvBuf, inbox \o Packet(msg), greeting)
      BY <2>3, <1>len, FreshSent
    <3> QED BY <3>1, <2>1, <2>2
  <2> QED BY <2>2, <2>3 DEF CleanInv
<1>15. CASE ServerGoes
  <2>1. PICK n \in 0..Len(inbox) : inbox' = SubSeq(inbox, 1, n)
    BY <1>15 DEF ServerGoes
  <2>2. UNCHANGED <<connected, lost, recvBuf, greeting, pc>>
    BY <1>15 DEF ServerGoes, ctx
  <2>3. ASSUME Fresh(recvBuf, inbox, greeting) PROVE Fresh(recvBuf, inbox, greeting)'
    <3>1. Fresh(recvBuf, SubSeq(inbox, 1, n), greeting)
      BY <2>3, <1>len, FreshCutOff
    <3> QED BY <3>1, <2>1, <2>2
  <2> QED BY <2>2, <2>3 DEF CleanInv
<1>16. CASE TimePasses \/ CompositorActs \/ ClipboardChanges \/ RestartSignal \/ PollInterrupted
  BY <1>16, <1>same DEF TimePasses, CompositorActs, ClipboardChanges, RestartSignal, PollInterrupted, ctx, peer
<1>17. CASE QuitSignal
  BY <1>17, <1>exit, <1>same DEF QuitSignal, ctx, peer
<1> QED
  BY <1>1, <1>2, <1>3, <1>4, <1>5, <1>6, <1>7, <1>8, <1>9, <1>10, <1>11, <1>12, <1>13, <1>14, <1>15, <1>16, <1>17
  DEF Next, Thread, World, Polling, Packets, Iteration

(* After a farewell the next connection starts clean: nothing of an older *)
(* one is read as the new server's, and no second HelloBack is sent.      *)
THEOREM StartsClean == Spec => []CleanAfterFarewell
<1>1. Init => CleanInv
  BY DEF Init, CleanInv
<1>2. CleanInv => CleanAfterFarewell
  BY DEF CleanInv, CleanAfterFarewell, Fresh, FreshBuffer
<1> QED BY CoreInit, CoreStep, CleanStep, <1>1, <1>2, PTL DEF Spec

=============================================================================
