------------------------------ MODULE ClipServer ------------------------------
(***************************************************************************)
(* The Unix socket by which the desktop's clipboard comes into the program *)
(* (clip.c, and its place in netPoll's loop): wl-paste starts one process  *)
(* of clip-update.c for each text, which sends two parts, the clip-        *)
(* board's letter with the length, and the text.  The program accepts one  *)
(* process per round of the loop into the lowest free slot and serves the  *)
(* slots in their order, with reads that block -- all this while there is  *)
(* a session with the server: without one nobody looks at the clipboard.   *)
(* Processes may die at any moment, the socket may break, the program may  *)
(* end, and it may be re-executed: what it has open then stays open, and   *)
(* nobody reads it.                                                        *)
(***************************************************************************)
EXTENDS Integers, Sequences, FiniteSets, SequencesExt, FiniteSetsExt

CONSTANTS
  Updaters,     \* the clip-update processes, one for each text
  Big,          \* those whose text is more than a socket's buffer holds
  Slots,        \* CLIP_UPDATER_FD_COUNT
  Backlog,      \* connections that wait to be accepted: listen's argument, or less
  MaxRestarts,  \* bound
  Breaks        \* accept may fail for good

ASSUME BigAssumption == Big \subseteq Updaters
ASSUME SizesAssumption == Slots \in Nat \ {0} /\ Backlog \in Nat \ {0}
ASSUME FaultAssumption == MaxRestarts \in Nat /\ Breaks \in BOOLEAN

Parts == 2
Free == "free"    \* a slot's descriptor is -1
ASSUME FreeAssumption == Free \notin Updaters

VARIABLES
  phase,      \* where each process is
  sent,       \* parts it has written
  read,       \* parts of it that the program has read
  queue,      \* connections to be accepted
  slot,       \* netPollFd from POLLFD_CLIP_UPDATER on
  adrift,     \* processes whose connection nobody will ever read
  pc,         \* where the program is
  connected,  \* m_connected: there is a session
  monitor,    \* clipMonitorFd is there
  monDue,     \* POLLIN of the monitor
  due,        \* slots with POLLIN that have still to be served
  given,      \* history: what uSynergyUpdateClipBuf was given
  older,      \* history: processes that had ended well when this one began
  restarts    \* history: how often the program was re-executed

procs == <<phase, sent, older>>
conns == <<read, queue, slot, adrift>>
revents == <<monDue, due>>
prog == <<pc, connected, monitor, revents>>
vars == <<procs, conns, prog, given, restarts>>

(* clipSetupSockets, main's loop, and netPoll's: poll with uSynergyUpdate,   *)
(* the monitor's handler and the slots'.                                    *)
Points == {"setup", "main", "poll", "mon", "slots", "exited"}

Phases == {"none", "copied", "writing", "done", "dead"}
Ended(u) == phase[u] \in {"done", "dead"}
Connected == {u \in Updaters : u \in ToSet(queue) \/ \E i \in 1..Slots : slot[i] = u}

ValuesOK ==
  /\ phase \in [Updaters -> Phases] /\ sent \in [Updaters -> 0..Parts]
  /\ read \in [Updaters -> 0..Parts] /\ slot \in [1..Slots -> Updaters \cup {Free}]
  /\ pc \in Points /\ connected \in BOOLEAN /\ monitor \in BOOLEAN
  /\ monDue \in BOOLEAN /\ due \subseteq 1..Slots /\ restarts \in 0..MaxRestarts
  /\ older \in [Updaters -> SUBSET Updaters]
(* A connection is in one place: waiting, in a slot, or adrift.  Nothing is *)
(* read before it is sent, and only in a slot, and a text that was handed   *)
(* over has left its slot: no descriptor is closed twice or never.          *)
OnePlace ==
  /\ Len(queue) <= Backlog /\ IsInjective(queue)
  /\ \A i, j \in 1..Slots : slot[i] = slot[j] /\ slot[i] # Free => i = j
  /\ \A i \in 1..Slots : slot[i] \notin ToSet(queue)
  /\ adrift \cap Connected = {} /\ ToSet(given) \cap Connected = {}
  /\ \A u \in Updaters :
       /\ read[u] <= sent[u]
       /\ u \in ToSet(queue) => read[u] = 0

TypeOK == ValuesOK /\ OnePlace

Init ==
  /\ phase = [u \in Updaters |-> "none"] /\ sent = [u \in Updaters |-> 0]
  /\ older = [u \in Updaters |-> {}]
  /\ read = [u \in Updaters |-> 0] /\ queue = <<>>
  /\ slot = [i \in 1..Slots |-> Free] /\ adrift = {}
  /\ pc = "main" /\ connected = FALSE /\ monitor = TRUE /\ monDue = FALSE /\ due = {}
  /\ given = <<>> /\ restarts = 0

-----------------------------------------------------------------------------
(* clip-update *)

(* wl-paste starts it, with the text as its standard input. *)
Copy(u) ==
  /\ phase[u] = "none"
  /\ phase' = [phase EXCEPT ![u] = "copied"]
  /\ older' = [older EXCEPT ![u] = {v \in Updaters : phase[v] = "done"}]
  /\ UNCHANGED <<sent, conns, prog, given, restarts>>

(* connect waits while the queue is full, and fails when nobody listens.    *)
(* Before a new program has its own socket the old one's is found, which    *)
(* the new one has inherited and does not know.                             *)
Connect(u) ==
  /\ phase[u] = "copied"
  /\ \/ /\ pc = "setup" /\ phase' = [phase EXCEPT ![u] = "writing"]
        /\ adrift' = adrift \cup {u} /\ UNCHANGED queue
     \/ /\ pc # "setup" /\ monitor /\ Len(queue) < Backlog
        /\ phase' = [phase EXCEPT ![u] = "writing"]
        /\ queue' = Append(queue, u) /\ UNCHANGED adrift
     \/ /\ pc # "setup" /\ ~monitor
        /\ phase' = [phase EXCEPT ![u] = "dead"] /\ UNCHANGED <<queue, adrift>>
  /\ UNCHANGED <<sent, older, read, slot, prog, given, restarts>>

(* What goes into the socket's buffer is sent, whether it is read or not,   *)
(* unless the other end is closed.                                          *)
Fits(u) == u \in Big /\ sent[u] = Parts - 1 => read[u] = sent[u]

Write(u) ==
  /\ phase[u] = "writing" /\ sent[u] < Parts /\ Fits(u) /\ pc # "exited"
  /\ sent' = [sent EXCEPT ![u] = @ + 1]
  /\ UNCHANGED <<phase, older, conns, prog, given, restarts>>

Finish(u) ==
  /\ phase[u] = "writing" /\ sent[u] = Parts
  /\ phase' = [phase EXCEPT ![u] = "done"]
  /\ UNCHANGED <<sent, older, conns, prog, given, restarts>>

(* It may be killed; a text whose process is dead is lost, unless it has    *)
(* been sent.                                                               *)
Dies(u) ==
  /\ phase[u] \in {"copied", "writing"}
  /\ phase' = [phase EXCEPT ![u] = "dead"]
  /\ UNCHANGED <<sent, older, conns, prog, given, restarts>>

-----------------------------------------------------------------------------
(* The loop. *)

(* POLLIN: there are parts to read, or the other end is closed. *)
Readable(i) == slot[i] # Free /\ (sent[slot[i]] > read[slot[i]] \/ Ended(slot[i]))

ClipEvents ==
  /\ monDue' = (monitor /\ queue # <<>>)
  /\ due' = {i \in 1..Slots : Readable(i)}

(* main's loop tries until there is a session. *)
MainConnects ==
  /\ pc = "main" /\ pc' = "poll" /\ connected' = TRUE
  /\ UNCHANGED <<monitor, revents, procs, conns, given, restarts>>

(* poll returns, for whatever reason.  Without a session nfd is 1: what it  *)
(* reports is the server's socket, and the other entries keep what an       *)
(* earlier poll has left there.  Then, in uSynergyUpdate, the session may   *)
(* be lost, or made again; only with one the round goes on.                 *)
Poll ==
  /\ pc = "poll" /\ connected' \in BOOLEAN
  /\ IF connected THEN ClipEvents ELSE UNCHANGED revents
  /\ pc' = IF connected' THEN "mon" ELSE "poll"
  /\ UNCHANGED <<monitor, procs, conns, given, restarts>>

(* netPoll returns without a session: a poll that timed out, one that was   *)
(* interrupted with the session gone already, or a server that has been     *)
(* silent for too long.  The next one begins with a poll of everything.     *)
Return ==
  /\ pc = "poll" /\ pc' = "main" /\ connected' = FALSE
  /\ monDue' = FALSE /\ due' = {}
  /\ UNCHANGED <<monitor, procs, conns, given, restarts>>

NextPoint == IF due' = {} THEN "poll" ELSE "slots"

(* clipMonitorPollProc for the monitor *)
FreeSlots == {i \in 1..Slots : slot[i] = Free}
Accept ==
  /\ monDue /\ FreeSlots # {}
  /\ slot' = [slot EXCEPT ![Min(FreeSlots)] = Head(queue)]
  /\ queue' = Tail(queue)
  /\ UNCHANGED <<monitor, adrift, due>>
AcceptBreaks ==
  /\ Breaks /\ monDue /\ FreeSlots # {}
  /\ monitor' = FALSE /\ adrift' = adrift \cup ToSet(queue) /\ queue' = <<>>
  /\ UNCHANGED <<slot, due>>
AcceptNothing ==
  /\ monDue => FreeSlots = {}
  /\ UNCHANGED <<monitor, slot, queue, adrift, due>>
Monitor ==
  /\ pc = "mon" /\ monDue' = FALSE
  /\ Accept \/ AcceptBreaks \/ AcceptNothing
  /\ pc' = NextPoint
  /\ UNCHANGED <<connected, read, procs, given, restarts>>

(* clipMonitorPollProc for a slot: it is left with the descriptor closed,   *)
(* and only after the last part with a text for uSynergyUpdateClipBuf.      *)
Serving == pc = "slots"
At == Min(due)

CloseSlot == due' = due \ {At} /\ slot' = [slot EXCEPT ![At] = Free] /\ pc' = NextPoint

ReadPart ==
  /\ Serving /\ sent[slot[At]] > read[slot[At]]
  /\ read' = [read EXCEPT ![slot[At]] = @ + 1]
  /\ IF read'[slot[At]] = Parts
     THEN CloseSlot /\ given' = Append(given, slot[At])
     ELSE UNCHANGED <<slot, due, pc, given>>
  /\ UNCHANGED <<connected, monitor, monDue, queue, adrift, procs, restarts>>

ReadFailsGiving ==          \* mutant: what has come is handed over
  /\ Serving /\ sent[slot[At]] = read[slot[At]] /\ Ended(slot[At])
  /\ CloseSlot /\ given' = Append(given, slot[At])
  /\ UNCHANGED <<connected, monitor, monDue, read, queue, adrift, procs, restarts>>

ReadFailsTaken ==           \* mutant: a failure leaves the slot taken
  /\ Serving /\ sent[slot[At]] = read[slot[At]] /\ Ended(slot[At])
  /\ due' = due \ {At} /\ pc' = NextPoint
  /\ UNCHANGED <<slot, connected, monitor, monDue, read, queue, adrift, procs, given, restarts>>

(* read returns 0: the process is gone. *)
ReadFails ==
  /\ Serving /\ sent[slot[At]] = read[slot[At]] /\ Ended(slot[At])
  /\ CloseSlot
  /\ UNCHANGED <<connected, monitor, monDue, read, queue, adrift, procs, given, restarts>>

(* Nothing the program has open will be read by it any more. *)
LetGo ==
  /\ connected' = FALSE /\ monDue' = FALSE /\ due' = {}
  /\ adrift' = adrift \cup Connected
  /\ queue' = <<>> /\ slot' = [i \in 1..Slots |-> Free]
  /\ UNCHANGED <<read, procs, given>>

(* sigHandleRun between two handlers: Restart.  No descriptor is closed by  *)
(* execvp, and no variable is kept.                                         *)
Restart ==
  /\ pc # "exited" /\ restarts < MaxRestarts /\ restarts' = restarts + 1
  /\ Serving => read[slot[At]] = 0
  /\ pc' = "setup" /\ monitor' = TRUE /\ LetGo

(* A quit signal, a fatal error or a failed allocation: everything is closed. *)
Exit ==
  /\ pc # "exited" /\ pc' = "exited" /\ monitor' = FALSE /\ LetGo
  /\ UNCHANGED restarts

(* clipSetupSockets *)
Listen ==
  /\ pc = "setup" /\ pc' = "main"
  /\ UNCHANGED <<connected, monitor, revents, procs, conns, given, restarts>>

-----------------------------------------------------------------------------
Progress(u) == Connect(u) \/ Write(u) \/ Finish(u)
Program == MainConnects \/ Poll \/ Return \/ Monitor \/ ReadPart \/ ReadFails \/ Listen

(* The program is gone, and so are the processes. *)
Over == pc = "exited" /\ (\A u \in Updaters : Ended(u)) /\ UNCHANGED vars

Next ==
  \/ \E u \in Updaters : Copy(u) \/ Progress(u) \/ Dies(u)
  \/ Program \/ Restart \/ Exit \/ Over

Spec == Init /\ [][Next]_vars

(* The system runs the program and the processes; whether there ever is a   *)
(* session is not the program's to say: its fairness may be used up on       *)
(* rounds without one (see Served).                                         *)
FairSpec == Spec /\ WF_vars(Program) /\ \A u \in Updaters : WF_vars(Progress(u))

-----------------------------------------------------------------------------
(* Properties. *)

(* The socket keeps Mailbox's promise: texts come whole, once, and in the   *)
(* order in which they were copied as far as that is defined, although the  *)
(* slots are not served in the order in which they were filled.             *)
M == INSTANCE Mailbox WITH
       copied <- {u \in Updaters : phase[u] # "none"},
       whole <- {u \in Updaters : sent[u] = Parts},
       over <- {u \in Updaters : phase[u] = "done"}
KeepsPromise == M!Spec

(* The program comes past the check for a session again and again, however  *)
(* often it loses it in between -- or it never leaves the handlers behind.  *)
Served == []<>(pc \in {"mon", "slots"})

(* As long as there is service, a text that its process has sent is handed  *)
(* over, with all slots taken, processes that die beside it, one that keeps *)
(* the program waiting, and sessions that end between the poll and the      *)
(* handlers, unless a restart or a broken socket has cut its connection     *)
(* off.  Without a session it waits, and with the program's end it is lost. *)
(* A text that was sent or handed over stays so: with finitely many, that   *)
(* nobody waits in the end is as much as that each is handed over.          *)
Waiting == {u \in Updaters : phase[u] = "done"} \ (ToSet(given) \cup adrift)
Delivered == Served => []<>(Waiting = {})
===============================================================================
