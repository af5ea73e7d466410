----------------------------- MODULE IdleInhibit -----------------------------
(***************************************************************************)
(* Keeping the desktop awake while the server's screensaver is off: with a *)
(* notification object of the compositor (wl_idle_ext.c, wl_idle_kde.c) or *)
(* a gnome-session-inhibit process (wl_idle_gnome.c), from the program's   *)
(* start to its end, or to its replacement by a new one.                   *)
(***************************************************************************)
EXTENDS Integers, FiniteSets

CONSTANTS
  Backends,       \* of "notifier" and "gnome", those wlSetup may find
  Notifications,  \* bound: objects the compositor may create
  Pids,           \* process identifiers, which the system uses again
  WaylandFails    \* the compositor may go away, and the program is re-executed

None == -1

VARIABLES
  backend,       \* ctx->idle
  running,       \* main has come to its loop
  on,            \* wlIdleInhibit's last argument
  notification,  \* ext->notification
  live,          \* objects the compositor still has: each keeps it awake
  inhibitor,     \* pid of gnome-session-inhibit
  processes,     \* what runs under each pid
  ended,         \* history: the inhibitor has ended by itself since it was started
  forgotten      \* history: what keeps the desktop awake and has been left to itself

notifier == <<notification, live>>
gnome == <<inhibitor, processes, ended>>
vars == <<backend, running, on, notifier, gnome, forgotten>>

TypeOK ==
  /\ backend \in Backends /\ running \in BOOLEAN /\ on \in BOOLEAN
  /\ notification \in Notifications \cup {None} /\ live \subseteq Notifications
  /\ inhibitor \in Pids \cup {None}
  /\ processes \in [Pids -> {"none", "inhibitor", "other"}] /\ ended \in BOOLEAN
  /\ forgotten \subseteq Notifications \cup Pids

(* wlSetup has chosen the backend. *)
Init ==
  /\ backend \in Backends /\ running = FALSE /\ on = FALSE
  /\ notification = None /\ live = {}
  /\ inhibitor = None /\ processes = [pid \in Pids |-> "none"]
  /\ ended = FALSE /\ forgotten = {}

-----------------------------------------------------------------------------
(* inhibit_start of wl_idle_ext.c and wl_idle_kde.c, of which the first     *)
(* notification is forgotten; the object may fail to be allocated.          *)
NotifierStart ==
  \/ \E n \in Notifications \ live : notification' = n /\ live' = live \cup {n}
  \/ notification' = None /\ UNCHANGED live

NotifierStop ==
  /\ live' = live \ {notification}
  /\ notification' = None

(* inhibit_stop of wl_idle_gnome.c: SIGTERM, to whoever has the pid by now *)
Killed == IF inhibitor = None THEN processes ELSE [processes EXCEPT ![inhibitor] = "none"]
GnomeStopOnly == processes' = Killed /\ UNCHANGED inhibitor     \* mutant: the pid is remembered
GnomeStop == processes' = Killed /\ inhibitor' = None

GnomeStartAgain ==          \* mutant: the running one is not stopped
  \E pid \in {p \in Pids : processes[p] = "none"} :
    inhibitor' = pid /\ processes' = [processes EXCEPT ![pid] = "inhibitor"]

(* inhibit_start there stops first; posix_spawnp may fail. *)
GnomeStart ==
  \/ \E pid \in {p \in Pids : Killed[p] = "none"} :
       inhibitor' = pid /\ processes' = [Killed EXCEPT ![pid] = "inhibitor"]
  \/ inhibitor' = None /\ processes' = Killed

(* wlIdleInhibit *)
Inhibit(state) ==
  /\ on' = state
  /\ IF backend = "gnome"
     THEN /\ IF state THEN GnomeStart ELSE GnomeStop
          /\ ended' = FALSE
          /\ UNCHANGED <<notifier, forgotten>>
     ELSE /\ IF state THEN NotifierStart ELSE NotifierStop
          /\ forgotten' = forgotten \cup (IF state THEN {notification} \ {None} ELSE {})
          /\ UNCHANGED gnome
  /\ UNCHANGED backend

(* main, before its loop *)
Begin == ~running /\ running' = TRUE /\ Inhibit(TRUE)

(* CSEC from the server, with the screensaver's state: syn_screensaver_cb *)
Screensaver(state) == running /\ UNCHANGED running /\ Inhibit(~state)

(* Exit and Restart: cleanup leaves idle inhibition alone after an error of *)
(* the compositor, whose objects are gone with it.                          *)
Gone == /\ running /\ running' = FALSE
        /\ on' = FALSE /\ inhibitor' = None /\ notification' = None /\ live' = {}
        /\ ended' = FALSE /\ UNCHANGED backend
Replaced == Gone /\ processes' = Killed /\ forgotten' = forgotten \ live
Lost == /\ WaylandFails /\ Gone /\ UNCHANGED processes
        /\ forgotten' = (forgotten \ live) \cup {pid \in {inhibitor} \cap Pids : processes[pid] = "inhibitor"}

(* Processes end, with no one told, and others start. *)
Ends(pid) ==
  /\ processes[pid] # "none" /\ processes' = [processes EXCEPT ![pid] = "none"]
  /\ ended' = (ended \/ pid = inhibitor) /\ forgotten' = forgotten \ {pid}
  /\ UNCHANGED <<backend, running, on, notifier, inhibitor>>
Starts(pid) ==
  /\ processes[pid] = "none" /\ processes' = [processes EXCEPT ![pid] = "other"]
  /\ UNCHANGED <<backend, running, on, notifier, inhibitor, ended, forgotten>>

Next ==
  \/ Begin
  \/ \E state \in BOOLEAN : Screensaver(state)
  \/ Replaced \/ Lost
  \/ \E pid \in Pids : Ends(pid) \/ Starts(pid)

Spec == Init /\ [][Next]_vars

-----------------------------------------------------------------------------
(* Properties. *)

(* What keeps the desktop awake: as much as was started and not stopped.    *)
Awake == live \cup {pid \in Pids : processes[pid] = "inhibitor"}

(* Idle inhibition is as it was last asked for: when it is off nothing      *)
(* keeps the desktop awake, when it is on only what the next stop finds;    *)
(* whatever was started before, and how often.  Excepted is what no one     *)
(* remembers, a notification replaced by a second one or a process left     *)
(* when the compositor failed.                                              *)
OffMeansOff ==
  /\ Awake \ forgotten \subseteq {notification, inhibitor}
  /\ ~on => Awake \subseteq forgotten

(* What is stopped next is there to be stopped: no object is destroyed      *)
(* twice, and none that died with the compositor; and no process is killed  *)
(* but the inhibitor that was started last, and that once.  Excepted is an  *)
(* inhibitor that has ended by itself, of which no one tells the program:   *)
(* the kill goes to nobody then, or to whoever has been given its pid.      *)
StopsWhatLives ==
  /\ notification # None => notification \in live
  /\ inhibitor # None => processes[inhibitor] = "inhibitor" \/ ended
==============================================================================
