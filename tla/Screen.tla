-------------------------------- MODULE Screen --------------------------------
(***************************************************************************)
(* What the compositor sees of the program, from its start to its end or   *)
(* its replacement by a new one: the keys of Keyboard and the inhibition   *)
(* of idleness of IdleInhibit.  They meet in the idle key, which is tapped *)
(* for as long as a notification object lives, and in Exit and Restart,    *)
(* which take the virtual keyboard away.                                   *)
(***************************************************************************)
EXTENDS Keyboard

CONSTANTS Backends, Notifications, Pids, WaylandFails   \* of IdleInhibit

ASSUME BackendAssumption == Backends \subseteq {"notifier", "gnome"} /\ WaylandFails \in BOOLEAN
ASSUME PidsAssumption == Pids \subseteq Nat \ {0}
ASSUME NotificationsAssumption == Notifications \subseteq Nat /\ Notifications \cap Pids = {}

VARIABLES backend, running, on, notification, live, inhibitor, processes, ended, forgotten

I == INSTANCE IdleInhibit

idleVars == <<backend, running, on, notification, live, inhibitor, processes, ended, forgotten>>
screenVars == <<vars, idleVars>>

(* Both parts keep their types. *)
ScreenTypeOK == TypeOK /\ I!TypeOK

ScreenInit == Init /\ I!Init

-----------------------------------------------------------------------------
(* What the server sends once main is in its loop. *)
Packet ==
  /\ running
  /\ \/ \E k \in Keys : KeyDown(k) \/ KeyRepeat(k)
     \/ \E k, as \in Keys : KeyUp(k, as)
     \/ Enter \/ Leave \/ Disconnect
  /\ UNCHANGED idleVars

(* The compositor finds the user idle and tells the objects it has. *)
IdleTap == live # {} /\ Idle /\ UNCHANGED idleVars

(* CSEC, and the start of the program *)
Inhibition ==
  /\ I!Begin \/ \E state \in BOOLEAN : I!Screensaver(state)
  /\ UNCHANGED vars

(* Exit, Restart and the loss of the compositor: with the connection to it  *)
(* its virtual keyboard goes, and a new program starts with counts of zero. *)
Ending ==
  /\ I!Replaced \/ I!Lost
  /\ pressState' = [code \in 0..InitialLen - 1 |-> 0]
  /\ screenActive' = FALSE /\ entered' = FALSE /\ held' = {} /\ seat' = {} /\ regular' = TRUE

OtherProcesses == (\E pid \in Pids : I!Ends(pid) \/ I!Starts(pid)) /\ UNCHANGED vars

ScreenNext == Packet \/ IdleTap \/ Inhibition \/ Ending \/ OtherProcesses

ScreenSpec == ScreenInit /\ [][ScreenNext]_screenVars

-----------------------------------------------------------------------------
(* IdleInhibit's properties, of the whole. *)

(* Inhibition is what was last asked for, whatever the keyboard does.       *)
OffMeansOff == I!OffMeansOff

(* What is stopped next is there to be stopped, also after a restart, or    *)
(* has ended by itself.                                                     *)
StopsWhatLives == I!StopsWhatLives
===============================================================================
