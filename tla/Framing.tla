-------------------------------- MODULE Framing --------------------------------
(***************************************************************************)
(* sUpdateContext of uSynergy.c byte by byte: a stream of packets, each a   *)
(* length of four bytes and a body, is read into a fixed buffer in pieces   *)
(* of any size, and cut into packets again.  A byte is a digit of Base,     *)
(* which is 256 in the code and less for TLC; BufferSize is the largest     *)
(* number of half a header, as 0xFFFF is, and Half * Half is 2^32.  What    *)
(* follows when a length plus the header's wraps around is left out.        *)
(***************************************************************************)
EXTENDS Integers, Sequences

CONSTANTS
  Base,        \* 256
  Lens,        \* the lengths of the packets the server sends
  MaxPackets   \* bound: packets it sends in all

HeaderLen == 4
Half == Base * Base      \* beyond the largest number of half a header
BufferSize == Half - 1

ASSUME ScaleAssumption == Base \in Nat /\ Base >= 3
ASSUME LensAssumption == Lens \subseteq 0..Half * Half - HeaderLen - 1 /\ MaxPackets \in Nat

VARIABLES
  buffer,    \* m_receiveBuffer, what earlier reads left in it included
  ofs,       \* m_receiveOfs
  draining,  \* buffer_left: bytes of an oversized packet still to be thrown away
  up,        \* no read has failed
  parsing,   \* in the packet loop, between two reads
  wire,      \* bytes sent and not read
  sent,      \* lengths of the packets sent
  handed     \* lengths of those sProcessMessage was given

vars == <<buffer, ofs, draining, up, parsing, wire, sent, handed>>

Digits == 0..Base - 1
Body == 1     \* every byte of a body; stale ones may be read as a length

TypeOK ==
  /\ buffer \in [0..BufferSize - 1 -> Digits]
  /\ ofs \in 0..BufferSize
  /\ draining \in Int /\ -(Half * Half) <= 2 * draining /\ 2 * draining < Half * Half
  /\ up \in BOOLEAN /\ parsing \in BOOLEAN
  /\ wire \in Seq(Digits) /\ sent \in Seq(Lens) /\ handed \in Seq(0..BufferSize)

Init ==
  /\ buffer = [i \in 0..BufferSize - 1 |-> 0] /\ ofs = 0
  /\ draining = 0 /\ up = TRUE /\ parsing = FALSE
  /\ wire = <<>> /\ sent = <<>> /\ handed = <<>>

Header(n) ==
  <<((n \div Base) \div Base) \div Base, ((n \div Base) \div Base) % Base, (n \div Base) % Base, n % Base>>

ServerSends ==
  /\ Len(sent) < MaxPackets
  /\ \E n \in Lens :
       /\ wire' = wire \o Header(n) \o [i \in 1..n |-> Body]
       /\ sent' = Append(sent, n)
  /\ UNCHANGED <<buffer, ofs, draining, up, parsing, handed>>

NetToNative32(a, b, c, d) == ((a * Base + b) * Base + c) * Base + d

(* It is read from the first bytes of the buffer, received or not. *)
PacketLen == NetToNative32(buffer[0], buffer[1], buffer[2], buffer[3])

(* packlen + 4 does not fit into four bytes. *)
Wraps == PacketLen + HeaderLen >= Half * Half

(* int buffer_left = packlen - num_received *)
ToInt(n) == IF 2 * n < Half * Half THEN n ELSE n - Half * Half
BufferLeft == ToInt(PacketLen - (ofs - HeaderLen))

(* m_receiveFunc into the buffer from start on, at most room bytes *)
Read(start, room, k) ==
  /\ wire # <<>> /\ k \in 1..Len(wire) /\ k <= room
  /\ buffer' = [i \in 0..BufferSize - 1 |->
                  IF i \in start..start + k - 1 THEN wire[i - start + 1] ELSE buffer[i]]
  /\ wire' = SubSeq(wire, k + 1, Len(wire))

ReceiveAnyRoom ==      \* mutant: what is in the buffer does not count
  /\ up /\ ~parsing /\ draining = 0
  /\ \E k \in 1..BufferSize : Read(ofs, BufferSize, k) /\ ofs' = ofs + k
  /\ parsing' = TRUE
  /\ UNCHANGED <<draining, up, sent, handed>>
ReceiveBySize ==       \* mutant: a read shorter than a header is left for later
  /\ up /\ ~parsing /\ draining = 0
  /\ \E k \in 1..BufferSize : Read(ofs, BufferSize - ofs, k) /\ ofs' = ofs + k /\ parsing' = (k >= HeaderLen)
  /\ UNCHANGED <<draining, up, sent, handed>>

Receive ==
  /\ up /\ ~parsing /\ draining = 0
  /\ \E k \in 1..BufferSize : Read(ofs, BufferSize - ofs, k) /\ ofs' = ofs + k
  /\ parsing' = TRUE
  /\ UNCHANGED <<draining, up, sent, handed>>

(* A read of no bytes looks like a timeout: syn_recv fails. *)
ReceiveNothing ==
  /\ up /\ ~parsing /\ draining = 0
  /\ ofs = BufferSize /\ wire # <<>>
  /\ up' = FALSE /\ ofs' = 0
  /\ UNCHANGED <<buffer, draining, parsing, wire, sent, handed>>

HandOverRestLost ==    \* mutant: what follows the packet is dropped
  /\ up /\ parsing /\ PacketLen + HeaderLen <= ofs
  /\ handed' = Append(handed, PacketLen)
  /\ ofs' = 0
  /\ UNCHANGED <<buffer, draining, up, parsing, wire, sent>>

(* The loop over whole packets ... *)
HandOver ==
  /\ up /\ parsing /\ PacketLen + HeaderLen <= ofs
  /\ handed' = Append(handed, PacketLen)
  /\ buffer' = [i \in 0..BufferSize - 1 |->
                  IF i < ofs - PacketLen - HeaderLen THEN buffer[i + PacketLen + HeaderLen] ELSE buffer[i]]
  /\ ofs' = ofs - PacketLen - HeaderLen
  /\ UNCHANGED <<draining, up, parsing, wire, sent>>

LoopEndsByRoom ==      \* mutant: too long is what exceeds the room that is left
  /\ up /\ parsing /\ PacketLen + HeaderLen > ofs /\ ~Wraps
  /\ parsing' = FALSE
  /\ IF PacketLen > BufferSize - ofs
     THEN draining' = BufferLeft /\ ofs' = 0
     ELSE UNCHANGED <<draining, ofs>>
  /\ UNCHANGED <<buffer, up, wire, sent, handed>>

(* ... ends with an incomplete one, which is thrown away if it is too long. *)
LoopEnds ==
  /\ up /\ parsing /\ PacketLen + HeaderLen > ofs /\ ~Wraps
  /\ parsing' = FALSE
  /\ IF PacketLen > BufferSize
     THEN draining' = BufferLeft /\ ofs' = 0
     ELSE UNCHANGED <<draining, ofs>>
  /\ UNCHANGED <<buffer, up, wire, sent, handed>>

Drain ==
  /\ up /\ draining > 0
  /\ \E k \in 1..BufferSize : Read(0, IF draining < BufferSize THEN draining ELSE BufferSize, k)
                              /\ draining' = draining - k
  /\ UNCHANGED <<ofs, up, parsing, sent, handed>>

(* The alarm ends the read, as nothing more comes; or the read is of a       *)
(* negative size, as buffer_left is, and fails.                             *)
DrainFails ==
  /\ up /\ (draining < 0 \/ (draining > 0 /\ wire = <<>>))
  /\ up' = FALSE /\ draining' = 0
  /\ UNCHANGED <<buffer, ofs, parsing, wire, sent, handed>>

(* Disconnected, or blocked in poll with nothing left to read; or at the     *)
(* model's end.                                                             *)
Idle == /\ ~up \/ (parsing /\ Wraps) \/ (wire = <<>> /\ ~parsing /\ draining = 0 /\ Len(sent) = MaxPackets)
        /\ UNCHANGED vars

Client == Receive \/ ReceiveNothing \/ HandOver \/ LoopEnds \/ Drain \/ DrainFails
Next == Client \/ ServerSends \/ Idle
Spec == Init /\ [][Next]_vars
FairSpec == Spec /\ WF_vars(Receive \/ ReceiveNothing \/ HandOver \/ LoopEnds \/ Drain)

-----------------------------------------------------------------------------
(* Properties. *)

(* A packet and its length fit the buffer.                                  *)
Fits(n) == n + HeaderLen <= BufferSize
AllFit == \A i \in 1..Len(sent) : Fits(sent[i])

(* However the network cuts the stream, the packets handed to               *)
(* sProcessMessage are those sent, whole and in order, as far as the first  *)
(* that does not fit.  Of what follows that one nothing is promised: it may *)
(* be thrown away by a length that stale bytes have completed.              *)
P == INSTANCE PacketPipe WITH Longest <- BufferSize
InOrder == P!Spec

(* A connection whose packets fit is never given up: no stale byte is read  *)
(* as a length that never comes, and the buffer is never full of an         *)
(* incomplete packet.                                                       *)
NeverStuck == AllFit => up

(* Every packet is handed over in the end, if all fit.                      *)
AllHandedOver ==
  \A n \in 1..MaxPackets : Len(sent) >= n ~> Len(handed) >= n \/ ~AllFit
================================================================================
