------------------------------ MODULE PacketPipe ------------------------------
(***************************************************************************)
(* What the client makes of its byte stream, seen from sProcessMessage:    *)
(* it is handed the packets the server has sent, whole, once and in order, *)
(* up to the first that is too long for the receive buffer.  What follows  *)
(* that one may be taken for anything.                                     *)
(***************************************************************************)
EXTENDS Integers, Sequences

CONSTANTS Lens,      \* lengths of packets
          Longest,   \* the longest sProcessMessage may be given
          Fits(_)    \* which of them fit the buffer

VARIABLES sent, handed

Init == sent = <<>> /\ handed = <<>>

Send == \E n \in Lens : sent' = Append(sent, n) /\ UNCHANGED handed

Intact(n) == \A i \in 1..n : i <= Len(sent) => Fits(sent[i])

Hand ==
  /\ Len(handed) < Len(sent) /\ Intact(Len(handed) + 1)
  /\ handed' = Append(handed, sent[Len(handed) + 1])
  /\ UNCHANGED sent

Garble ==
  /\ ~Intact(Len(handed) + 1)
  /\ \E n \in 0..Longest : handed' = Append(handed, n)
  /\ UNCHANGED sent

Next == Send \/ Hand \/ Garble
Spec == Init /\ [][Next]_<<sent, handed>>
===============================================================================
