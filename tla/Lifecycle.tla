------------------------------ MODULE Lifecycle ------------------------------
(***************************************************************************)
(* What the client promises about its connection, whatever server,         *)
(* compositor, clipboard and signals do: the phases of the loop in main.c  *)
(* and of uSynergyUpdate and netPoll under it.  A session that ends leaves *)
(* a socket behind ("lost") until a timeout or the next attempt closes it, *)
(* and one that ended with a fatal error ("refused") is never followed by  *)
(* another, unless a signal re-executes the program.                       *)
(***************************************************************************)
VARIABLE phase

Phases == {"closed", "live", "lost", "refused", "stopped"}

Init == phase = "closed"

Connect == phase \in {"closed", "lost"} /\ phase' = "live"
Lose    == phase = "live" /\ phase' = "lost"
Refuse  == phase = "live" /\ phase' = "refused"
CleanUp == phase \in {"live", "lost"} /\ phase' = "closed"
Reexec  == phase # "stopped" /\ phase' = "closed"
Stop    == phase' = "stopped"

Next == Connect \/ Lose \/ Refuse \/ CleanUp \/ Reexec \/ Stop

(* A refused client leaves, and a lost session does not linger.             *)
Leave == phase = "refused" /\ (Stop \/ Reexec)
Recover == phase \in {"lost", "closed"} /\ (Connect \/ Stop)

Spec == Init /\ [][Next]_phase
FairSpec == Spec /\ WF_phase(Leave) /\ SF_phase(Recover)
==============================================================================
