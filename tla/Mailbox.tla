------------------------------- MODULE Mailbox -------------------------------
(***************************************************************************)
(* What the clipboard's Unix socket promises: of the texts copied on the   *)
(* desktop each is handed over at most once, only when it has come as a    *)
(* whole, and never after a text whose copying began when its own was over *)
(* already.  Texts may be lost: the program may end, and so may the        *)
(* process that carries one.                                               *)
(***************************************************************************)
EXTENDS Sequences, SequencesExt

CONSTANT Updaters   \* one process for each text

VARIABLES
  copied,   \* texts on their way
  whole,    \* those of which nothing is missing
  over,     \* those whose process has ended well
  given,    \* texts handed over, in this order
  older     \* older[u]: the texts that were over when u was copied

mailVars == <<copied, whole, over, given, older>>

Init ==
  /\ copied = {} /\ whole = {} /\ over = {} /\ given = <<>>
  /\ older = [u \in Updaters |-> {}]

Copy(u) ==
  /\ u \notin copied
  /\ copied' = copied \cup {u} /\ older' = [older EXCEPT ![u] = over]
  /\ UNCHANGED <<whole, over, given>>

Complete(u) ==
  /\ u \in copied \ whole
  /\ whole' = whole \cup {u}
  /\ UNCHANGED <<copied, over, given, older>>

End(u) ==
  /\ u \in whole \ over
  /\ over' = over \cup {u}
  /\ UNCHANGED <<copied, whole, given, older>>

Give(u) ==
  /\ u \in whole \ ToSet(given)
  /\ \A v \in ToSet(given) : u \notin older[v]
  /\ given' = Append(given, u)
  /\ UNCHANGED <<copied, whole, over, older>>

Next == \E u \in Updaters : Copy(u) \/ Complete(u) \/ End(u) \/ Give(u)

Spec == Init /\ [][Next]_mailVars
==============================================================================
