----------------------------- MODULE FramingProofs -----------------------------
(***************************************************************************)
(* What Framing promises, for every base, all lengths of packets and any    *)
(* number of them.                                                          *)
(***************************************************************************)
EXTENDS Framing, SequenceTheorems, TLAPS

-----------------------------------------------------------------------------
(* Arithmetic of bytes and lengths. *)

LEMMA DivMod ==
  ASSUME NEW n \in Nat
  PROVE  n \div Base \in Nat /\ n % Base \in Digits /\ n = (n \div Base) * Base + (n % Base)
  BY ScaleAssumption DEF Digits

LEMMA QuotientBelow ==
  ASSUME NEW q \in Nat, NEW r \in Nat, NEW m \in Nat, q * Base + r < m * Base
  PROVE  q < m
<1> SUFFICES ASSUME q >= m PROVE FALSE
  OBVIOUS
<1>1. q * Base >= m * Base
  BY ScaleAssumption
<1> QED
  BY <1>1, ScaleAssumption

LEMMA Constants ==
  /\ Base \in Nat /\ Half \in Nat /\ BufferSize \in Nat
  /\ BufferSize >= 8 /\ Half * Half \in Nat /\ Half < Half * Half
  /\ BufferSize = Half - 1 /\ HeaderLen = 4
  /\ 0 \in 0..BufferSize
<1>1. Half \in Nat /\ Half >= 9
  BY ScaleAssumption DEF Half
<1> QED
  BY <1>1, ScaleAssumption DEF BufferSize, HeaderLen

LEMMA LensRange == \A n \in Lens : n \in Nat /\ n < Half * Half
<1> SUFFICES ASSUME NEW n \in Lens PROVE n \in Nat /\ n < Half * Half
  OBVIOUS
<1>1. n \in 0..Half * Half - 4 - 1
  BY LensAssumption, Constants
<1> QED
  BY <1>1, Constants

(* A header is read back as the number it was written for, and its first    *)
(* half is zero when the number is not larger than the buffer.              *)
LEMMA HeaderValue ==
  ASSUME NEW n \in Nat, n < Half * Half
  PROVE  /\ Header(n) \in [1..4 -> Digits]
         /\ NetToNative32(Header(n)[1], Header(n)[2], Header(n)[3], Header(n)[4]) = n
         /\ n < Half => Header(n)[1] = 0 /\ Header(n)[2] = 0
<1> DEFINE p == n \div Base
           q == p \div Base
           r == q \div Base
<1>1. p \in Nat /\ n = p * Base + (n % Base) /\ n % Base \in Digits
  BY DivMod
<1>2. q \in Nat /\ p = q * Base + (p % Base) /\ p % Base \in Digits
  BY <1>1, DivMod
<1>3. r \in Nat /\ q = r * Base + (q % Base) /\ q % Base \in Digits
  BY <1>2, DivMod
<1> HIDE DEF p, q, r
<1>4. p < Half * Base
  <2>1. Half * Half = (Half * Base) * Base /\ Half * Base \in Nat
    BY ScaleAssumption DEF Half
  <2> QED
    BY <1>1, <2>1, QuotientBelow, ScaleAssumption DEF Digits
<1>5. q < Half
  BY <1>2, <1>4, QuotientBelow, ScaleAssumption DEF Digits, Half
<1>6. r < Base
  BY <1>3, <1>5, QuotientBelow, ScaleAssumption DEF Digits, Half
<1>7. ASSUME n < Half PROVE r = 0 /\ q % Base = 0
  <2>1. p < Base
    BY <1>1, <1>7, QuotientBelow, ScaleAssumption DEF Digits, Half
  <2>2. q * Base + (p % Base) < 1 * Base
    BY <2>1, <1>2, ScaleAssumption
  <2>3. q = 0
    BY <2>2, <1>2, QuotientBelow, ScaleAssumption DEF Digits
  <2>4. r * Base + (q % Base) < 1 * Base
    BY <2>3, <1>3, ScaleAssumption
  <2>5. r < 1
    BY <2>4, <1>3, QuotientBelow, ScaleAssumption DEF Digits
  <2> QED
    BY <2>3, <2>5, <1>3, ScaleAssumption DEF Digits
<1>8. Header(n) = <<r, q % Base, p % Base, n % Base>>
  BY DEF Header, p, q, r
<1> QED
  BY <1>1, <1>2, <1>3, <1>6, <1>7, <1>8, ScaleAssumption DEF Digits, NetToNative32

(* Whatever four bytes are there, they are read as a length; one whose      *)
(* first half is zero is not larger than the buffer.                        *)
LEMMA ValueRange ==
  ASSUME NEW a \in Digits, NEW b \in Digits, NEW c \in Digits, NEW d \in Digits
  PROVE  /\ NetToNative32(a, b, c, d) \in Nat
         /\ NetToNative32(a, b, c, d) < Half * Half
         /\ a = 0 /\ b = 0 => NetToNative32(a, b, c, d) <= BufferSize
<1>1. ASSUME NEW x \in Nat, NEW y \in Digits, NEW m \in Nat, x < m
      PROVE  x * Base + y \in Nat /\ x * Base + y < m * Base
  <2>1. (x + 1) * Base <= m * Base
    BY <1>1, ScaleAssumption
  <2> QED
    BY <2>1, ScaleAssumption DEF Digits
<1>2. a * Base + b \in Nat /\ a * Base + b < Base * Base
  BY <1>1, ScaleAssumption DEF Digits
<1>3. (a * Base + b) * Base + c \in Nat /\ (a * Base + b) * Base + c < Base * Base * Base
  BY <1>1, <1>2, ScaleAssumption DEF Digits
<1>4. NetToNative32(a, b, c, d) \in Nat /\ NetToNative32(a, b, c, d) < Base * Base * Base * Base
  BY <1>1, <1>3, ScaleAssumption DEF Digits, NetToNative32
<1>5. c * Base + d < Base * Base
  BY <1>1, ScaleAssumption DEF Digits
<1>6. a = 0 /\ b = 0 => NetToNative32(a, b, c, d) = c * Base + d
  BY ScaleAssumption DEF Digits, NetToNative32
<1>7. Base * Base * Base * Base = Half * Half
  BY ScaleAssumption DEF Half
<1> QED
  BY <1>4, <1>5, <1>6, <1>7, ScaleAssumption DEF Half, BufferSize, Digits
-----------------------------------------------------------------------------
(* Types. *)

LEMMA PacketLenRange ==
  ASSUME TypeOK
  PROVE  /\ PacketLen \in Nat /\ PacketLen < Half * Half
         /\ buffer[0] = 0 /\ buffer[1] = 0 => PacketLen <= BufferSize
<1>1. buffer[0] \in Digits /\ buffer[1] \in Digits /\ buffer[2] \in Digits /\ buffer[3] \in Digits
  BY Constants DEF TypeOK
<1> QED
  BY <1>1, ValueRange DEF PacketLen

(* What a read does to the buffer and to the bytes under way.               *)
LEMMA ReadEffect ==
  ASSUME TypeOK, NEW start \in Nat, NEW room \in Int, NEW k \in 1..BufferSize, Read(start, room, k)
  PROVE  /\ k <= Len(wire) /\ k <= room
         /\ buffer' \in [0..BufferSize - 1 -> Digits]
         /\ \A i \in 0..BufferSize - 1 :
              buffer'[i] = IF i \in start..start + k - 1 THEN wire[i - start + 1] ELSE buffer[i]
         /\ wire' \in Seq(Digits) /\ Len(wire') = Len(wire) - k
         /\ \A i \in 1..Len(wire) - k : wire'[i] = wire[k + i]
<1>1. wire \in Seq(Digits) /\ Len(wire) \in Nat /\ k \in 1..Len(wire) /\ k <= room /\ BufferSize \in Nat
  BY Constants DEF TypeOK, Read
<1>2. \A i \in 1..Len(wire) : wire[i] \in Digits
  BY <1>1
<1>3. wire' = SubSeq(wire, k + 1, Len(wire))
  BY DEF Read
<1>4. wire' \in Seq(Digits) /\ Len(wire') = Len(wire) - k
  BY <1>1, <1>3, SubSeqProperties
<1>5. \A i \in 1..Len(wire) - k : wire'[i] = wire[k + i]
  BY <1>1, <1>3, SubSeqProperties
<1>6. buffer' = [i \in 0..BufferSize - 1 |->
                   IF i \in start..start + k - 1 THEN wire[i - start + 1] ELSE buffer[i]]
  BY DEF Read
<1>7. \A i \in 0..BufferSize - 1 :
        (IF i \in start..start + k - 1 THEN wire[i - start + 1] ELSE buffer[i]) \in Digits
  <2> SUFFICES ASSUME NEW i \in 0..BufferSize - 1
               PROVE  (IF i \in start..start + k - 1 THEN wire[i - start + 1] ELSE buffer[i]) \in Digits
    OBVIOUS
  <2>1. ASSUME i \in start..start + k - 1 PROVE wire[i - start + 1] \in Digits
    <3>1. i - start + 1 \in 1..Len(wire)
      BY <1>1, <2>1
    <3> QED
      BY <3>1, <1>2
  <2>2. buffer[i] \in Digits
    BY DEF TypeOK
  <2> QED
    BY <2>1, <2>2
<1> QED
  BY <1>1, <1>4, <1>5, <1>6, <1>7

(* The items of two sequences, one behind the other.                        *)
LEMMA Concatenated ==
  ASSUME NEW S, NEW s \in Seq(S), NEW t \in Seq(S)
  PROVE  /\ s \o t \in Seq(S) /\ Len(s \o t) = Len(s) + Len(t)
         /\ \A i \in 1..Len(s) : (s \o t)[i] = s[i]
         /\ \A i \in 1..Len(t) : (s \o t)[Len(s) + i] = t[i]
<1>1. Len(s) \in Nat /\ Len(t) \in Nat
  OBVIOUS
<1>2. \A i \in 1..Len(s) + Len(t) : (s \o t)[i] = IF i <= Len(s) THEN s[i] ELSE t[i - Len(s)]
  BY ConcatProperties
<1>3. ASSUME NEW i \in 1..Len(t) PROVE (s \o t)[Len(s) + i] = t[i]
  <2>1. Len(s) + i \in 1..Len(s) + Len(t) /\ ~(Len(s) + i <= Len(s)) /\ Len(s) + i - Len(s) = i
    BY <1>1
  <2>2. (s \o t)[Len(s) + i] = t[Len(s) + i - Len(s)]
    BY <1>2, <2>1
  <2> QED
    BY <2>1, <2>2
<1>4. ASSUME NEW i \in 1..Len(s) PROVE (s \o t)[i] = s[i]
  <2>1. i \in 1..Len(s) + Len(t) /\ i <= Len(s)
    BY <1>1
  <2> QED
    BY <1>2, <2>1
<1> QED
  BY <1>3, <1>4, ConcatProperties

(* What the server sends is bytes: a header, then a body.                   *)
LEMMA SentBytes ==
  ASSUME TypeOK, NEW n \in Lens, NEW bytes,
         bytes = wire \o Header(n) \o [i \in 1..n |-> Body]
  PROVE  /\ bytes \in Seq(Digits) /\ Len(bytes) = Len(wire) + 4 + n
         /\ \A i \in 1..Len(wire) : bytes[i] = wire[i]
         /\ \A d \in 1..4 : bytes[Len(wire) + d] = Header(n)[d]
<1> DEFINE head == Header(n)
           body == [i \in 1..n |-> Body]
<1>1. n \in Nat /\ n < Half * Half
  BY LensRange
<1>2. Len(head) = 4 /\ head \in Seq(Digits)
  <2>1. PICK h1, h2, h3, h4 : head = <<h1, h2, h3, h4>>
    BY DEF Header
  <2>2. head \in [1..4 -> Digits]
    BY <1>1, HeaderValue
  <2> HIDE DEF head
  <2>3. h1 \in Digits /\ h2 \in Digits /\ h3 \in Digits /\ h4 \in Digits
    BY <2>1, <2>2
  <2> QED
    BY <2>1, <2>3
<1>3. body \in Seq(Digits) /\ Len(body) = n
  BY <1>1, ScaleAssumption DEF Body, Digits
<1>4. wire \in Seq(Digits)
  BY DEF TypeOK
<1>5. bytes = (wire \o head) \o body
  OBVIOUS
<1> HIDE DEF head, body
<1> DEFINE front == wire \o head
<1>6. /\ front \in Seq(Digits) /\ Len(front) = Len(wire) + Len(head)
      /\ \A i \in 1..Len(wire) : front[i] = wire[i]
      /\ \A d \in 1..Len(head) : front[Len(wire) + d] = head[d]
  <2>1. head \in Seq(Digits) /\ wire \in Seq(Digits)
    BY <1>2, <1>4
  <2> HIDE DEF front
  <2>2. wire \o head \in Seq(Digits) /\ Len(wire \o head) = Len(wire) + Len(head)
    BY <2>1, Concatenated, Zenon
  <2>3. \A i \in 1..Len(wire) : (wire \o head)[i] = wire[i]
    BY <2>1, Concatenated, Zenon
  <2>4. \A d \in 1..Len(head) : (wire \o head)[Len(wire) + d] = head[d]
    BY <2>1, Concatenated, SMT
  <2> QED
    BY <2>2, <2>3, <2>4 DEF front
<1>7. bytes = front \o body
  BY <1>5
<1> HIDE DEF front
<1>8. /\ front \o body \in Seq(Digits) /\ Len(front \o body) = Len(front) + Len(body)
      /\ \A i \in 1..Len(front) : (front \o body)[i] = front[i]
  <2>1. front \in Seq(Digits) /\ body \in Seq(Digits)
    BY <1>3, <1>6
  <2> QED
    BY <2>1, Concatenated, Zenon
<1>9. ASSUME NEW i \in 1..Len(wire) PROVE bytes[i] = wire[i]
  <2>1. i \in 1..Len(front)
    BY <1>2, <1>4, <1>6
  <2> QED
    BY <1>6, <1>7, <1>8, <2>1
<1>10. ASSUME NEW d \in 1..4 PROVE bytes[Len(wire) + d] = head[d]
  <2>1. Len(wire) + d \in 1..Len(front) /\ d \in 1..Len(head)
    BY <1>2, <1>4, <1>6
  <2> QED
    BY <1>6, <1>7, <1>8, <2>1
<1>11. bytes \in Seq(Digits) /\ Len(bytes) = Len(wire) + 4 + n
  BY <1>1, <1>2, <1>3, <1>4, <1>6, <1>7, <1>8
<1> QED
  BY <1>9, <1>10, <1>11 DEF head

(* What four bytes make of a number that has no sign in them.               *)
LEMMA ToIntRange ==
  ASSUME NEW n \in Nat, n < Half * Half
  PROVE  /\ ToInt(n) \in Int
         /\ -(Half * Half) <= 2 * ToInt(n) /\ 2 * ToInt(n) < Half * Half
<1>1. PICK m \in Nat : m = Half * Half
  BY Constants
<1> QED
  BY <1>1 DEF ToInt

LEMMA TypeStep == TypeOK /\ [Next]_vars => TypeOK'
<1> SUFFICES ASSUME TypeOK, [Next]_vars PROVE TypeOK'
  OBVIOUS
<1> USE Constants
<1>1. ASSUME ServerSends PROVE TypeOK'
  <2>1. PICK n \in Lens : /\ wire' = wire \o Header(n) \o [i \in 1..n |-> Body]
                          /\ sent' = Append(sent, n)
    BY <1>1 DEF ServerSends
  <2>2. wire' \in Seq(Digits)
    BY <2>1, SentBytes
  <2>3. sent' \in Seq(Lens)
    BY <2>1 DEF TypeOK
  <2> QED
    BY <1>1, <2>2, <2>3 DEF ServerSends, TypeOK
<1>2. ASSUME Receive PROVE TypeOK'
  <2>1. PICK k \in 1..BufferSize : Read(ofs, BufferSize - ofs, k) /\ ofs' = ofs + k
    BY <1>2 DEF Receive
  <2>2. ofs \in Nat /\ ofs <= BufferSize /\ BufferSize - ofs \in Int
    BY DEF TypeOK
  <2>3. k <= BufferSize - ofs /\ buffer' \in [0..BufferSize - 1 -> Digits] /\ wire' \in Seq(Digits)
    BY <2>1, <2>2, ReadEffect
  <2>4. ofs' \in 0..BufferSize
    BY <2>1, <2>2, <2>3
  <2> QED
    BY <1>2, <2>3, <2>4 DEF Receive, TypeOK
<1>3. ASSUME ReceiveNothing PROVE TypeOK'
  <2>1. up' \in BOOLEAN /\ ofs' \in 0..BufferSize
    BY <1>3 DEF ReceiveNothing
  <2> QED
    BY <1>3, <2>1 DEF ReceiveNothing, TypeOK
<1>4. ASSUME HandOver PROVE TypeOK'
  <2>1. PacketLen \in Nat /\ PacketLen + 4 <= ofs /\ ofs \in Nat /\ ofs <= BufferSize
    BY <1>4, PacketLenRange DEF HandOver, TypeOK
  <2>2. ofs' = ofs - PacketLen - 4 /\ handed' = Append(handed, PacketLen)
    BY <1>4 DEF HandOver
  <2>3. ofs' \in 0..BufferSize /\ PacketLen \in 0..BufferSize
    BY <2>1, <2>2
  <2>4. handed' \in Seq(0..BufferSize)
    BY <2>2, <2>3 DEF TypeOK
  <2>5. buffer' \in [0..BufferSize - 1 -> Digits]
    <3>1. buffer' = [i \in 0..BufferSize - 1 |->
                       IF i < ofs - PacketLen - 4 THEN buffer[i + PacketLen + 4] ELSE buffer[i]]
      BY <1>4 DEF HandOver
    <3>2. ASSUME NEW i \in 0..BufferSize - 1, i < ofs - PacketLen - 4
          PROVE  i + PacketLen + 4 \in 0..BufferSize - 1
      BY <2>1, <3>2
    <3>3. \A i \in 0..BufferSize - 1 : buffer[i] \in Digits
      BY DEF TypeOK
    <3> QED
      BY <3>1, <3>2, <3>3
  <2> QED
    BY <1>4, <2>3, <2>4, <2>5 DEF HandOver, TypeOK
<1>5. ASSUME LoopEnds PROVE TypeOK'
  <2>1. PacketLen \in Nat /\ PacketLen < Half * Half /\ ofs \in Nat
    BY PacketLenRange DEF TypeOK
  <2>2. CASE PacketLen > BufferSize
    <3>1. draining' = ToInt(PacketLen - (ofs - 4)) /\ ofs' = 0 /\ PacketLen + 4 < Half * Half
      BY <1>5, <2>1, <2>2 DEF LoopEnds, BufferLeft, Wraps
    <3>2. PacketLen - (ofs - 4) \in Nat /\ PacketLen - (ofs - 4) < Half * Half
      <4>1. ofs <= BufferSize
        BY DEF TypeOK
      <4> QED
        BY <2>1, <2>2, <3>1, <4>1
    <3>3. /\ draining' \in Int
          /\ -(Half * Half) <= 2 * draining' /\ 2 * draining' < Half * Half
      BY <3>1, <3>2, ToIntRange
    <3>4. ofs' \in 0..BufferSize
      BY <3>1
    <3>5. parsing' \in BOOLEAN
      BY <1>5 DEF LoopEnds
    <3>6. UNCHANGED <<buffer, up, wire, sent, handed>>
      BY <1>5 DEF LoopEnds
    <3> QED
      BY <3>3, <3>4, <3>5, <3>6 DEF TypeOK
  <2>3. CASE ~(PacketLen > BufferSize)
    BY <1>5, <2>3 DEF LoopEnds, TypeOK
  <2> QED
    BY <2>2, <2>3
<1>6. ASSUME Drain PROVE TypeOK'
  <2> DEFINE room == IF draining < BufferSize THEN draining ELSE BufferSize
  <2>1. PICK k \in 1..BufferSize : Read(0, room, k) /\ draining' = draining - k
    BY <1>6 DEF Drain
  <2>2. draining \in Int /\ draining > 0 /\ 2 * draining < Half * Half /\ room \in Int /\ room <= draining
    BY <1>6 DEF Drain, TypeOK
  <2> HIDE DEF room
  <2>3. k <= room /\ buffer' \in [0..BufferSize - 1 -> Digits] /\ wire' \in Seq(Digits)
    BY <2>1, <2>2, ReadEffect
  <2>4. draining' \in Int /\ -(Half * Half) <= 2 * draining' /\ 2 * draining' < Half * Half
    BY <2>1, <2>2, <2>3
  <2> QED
    BY <1>6, <2>3, <2>4 DEF Drain, TypeOK
<1>7. ASSUME DrainFails PROVE TypeOK'
  <2>1. up' \in BOOLEAN /\ draining' = 0
    BY <1>7 DEF DrainFails
  <2> QED
    BY <1>7, <2>1 DEF DrainFails, TypeOK
<1>8. ASSUME Idle \/ UNCHANGED vars PROVE TypeOK'
  BY <1>8 DEF Idle, vars, TypeOK
<1> QED
  BY <1>1, <1>2, <1>3, <1>4, <1>5, <1>6, <1>7, <1>8 DEF Next, Client

LEMMA TypeInit == Init => TypeOK
<1> SUFFICES ASSUME Init PROVE TypeOK
  OBVIOUS
<1>1. 0 \in Digits
  BY ScaleAssumption DEF Digits
<1>2. buffer \in [0..BufferSize - 1 -> Digits]
  BY <1>1 DEF Init
<1>3. /\ ofs \in 0..BufferSize /\ draining \in Int
      /\ -(Half * Half) <= 2 * draining /\ 2 * draining < Half * Half
  BY Constants DEF Init
<1>4. up \in BOOLEAN /\ parsing \in BOOLEAN
  BY DEF Init
<1>5. wire \in Seq(Digits) /\ sent \in Seq(Lens) /\ handed \in Seq(0..BufferSize)
  BY DEF Init
<1> QED
  BY <1>2, <1>3, <1>4, <1>5 DEF TypeOK

(* The buffer is never filled beyond its end, no packet longer than it is   *)
(* handed over, and what is left to be thrown away is an int, which a       *)
(* length from 2^31 on turns negative: whatever the server sends, and       *)
(* however the network cuts it, until a length wraps around (Wraps).        *)
THEOREM TypeCorrect == Spec => []TypeOK
  BY TypeInit, TypeStep, PTL DEF Spec

-----------------------------------------------------------------------------
(* The inductive invariant.  While every packet up to the next one fits,    *)
(* what has been received and not handed over, followed by what is still    *)
(* under way, is the packets that were sent and not handed over: it can be  *)
(* cut into them, each with its header in front.                            *)

Intact == P!Intact(Len(handed) + 1)
Pending == Len(sent) - Len(handed)
At(j) == IF j < ofs THEN buffer[j] ELSE wire[j - ofs + 1]

(* pos[i] is where the i-th of the pending packets ends.                    *)
Cuts(pos) ==
  /\ pos \in [0..Pending -> Nat] /\ pos[0] = 0 /\ pos[Pending] = ofs + Len(wire)
  /\ \A i, j \in 0..Pending : i <= j => pos[i] <= pos[j]
  /\ \A i \in 1..Pending :
       /\ pos[i] = pos[i - 1] + 4 + sent[Len(handed) + i]
       /\ \A d \in 1..4 : At(pos[i - 1] + d - 1) = Header(sent[Len(handed) + i])[d]

(* Bytes that were received earlier are still read as a length when fewer   *)
(* than four have come: but the first half of it is zero, so that it is     *)
(* never one that is to be thrown away.                                     *)
Sound ==
  /\ up /\ draining = 0
  /\ Pending \in Nat /\ \E pos : Cuts(pos)
  /\ buffer[0] = 0 /\ buffer[1] = 0
  /\ ~parsing => PacketLen + 4 > ofs

IInv == TypeOK /\ (Intact => Sound)

(* No step takes back a packet that was sent or handed over.                *)
LEMMA History ==
  ASSUME TypeOK, [Next]_vars
  PROVE  \/ UNCHANGED <<sent, handed>>
         \/ ServerSends /\ UNCHANGED handed /\ \E n \in Lens : sent' = Append(sent, n)
         \/ HandOver /\ UNCHANGED sent /\ handed' = Append(handed, PacketLen)
  BY DEF Next, Client, vars, ServerSends, Receive, ReceiveNothing, HandOver, LoopEnds, Drain,
         DrainFails, Idle

LEMMA IntactBefore ==
  ASSUME TypeOK, [Next]_vars, Intact'
  PROVE  Intact
<1>1. Len(handed) \in Nat /\ Len(sent) \in Nat
  BY DEF TypeOK
<1>2. \A i \in 1..Len(handed') + 1 : i <= Len(sent') => Fits(sent'[i])
  BY DEF Intact, P!Intact, Fits
<1>3. ASSUME NEW i \in 1..Len(handed) + 1, i <= Len(sent) PROVE Fits(sent[i])
  <2>1. CASE UNCHANGED <<sent, handed>>
    BY <1>2, <1>3, <2>1
  <2>2. ASSUME NEW n \in Lens, sent' = Append(sent, n), UNCHANGED handed PROVE Fits(sent[i])
    <3>1. sent \in Seq(Lens) /\ i \in 1..Len(sent)
      BY <1>1, <1>3 DEF TypeOK
    <3>2. Len(sent') = Len(sent) + 1 /\ sent'[i] = sent[i]
      BY <2>2, <3>1, AppendProperties
    <3> QED
      BY <1>1, <1>2, <1>3, <2>2, <3>2
  <2>3. ASSUME UNCHANGED sent, handed' = Append(handed, PacketLen) PROVE Fits(sent[i])
    <3>1. Len(handed') = Len(handed) + 1
      BY <2>3, PacketLenRange DEF TypeOK
    <3> QED
      BY <1>1, <1>2, <1>3, <2>3, <3>1
  <2> QED
    BY <2>1, <2>2, <2>3, History
<1> QED
  BY <1>3 DEF Intact, P!Intact, Fits

LEMMA SentRange ==
  ASSUME TypeOK, NEW i \in 1..Len(sent)
  PROVE  sent[i] \in Lens /\ sent[i] \in Nat /\ sent[i] < Half * Half
<1>1. sent[i] \in Lens
  BY DEF TypeOK
<1> QED
  BY <1>1, LensRange

(* A length that has been received whole is that of the next packet.        *)
LEMMA FirstPacket ==
  ASSUME TypeOK, Pending \in Nat, NEW pos, Cuts(pos), ofs >= 4
  PROVE  /\ Pending >= 1 /\ Len(handed) + 1 \in 1..Len(sent)
         /\ PacketLen = sent[Len(handed) + 1] /\ pos[1] = PacketLen + 4
<1>1. ofs \in Nat /\ Len(wire) \in Nat /\ Len(handed) \in Nat /\ Len(sent) \in Nat
  BY DEF TypeOK
<1>2. Pending >= 1
  <2> SUFFICES ASSUME Pending = 0 PROVE FALSE
    OBVIOUS
  <2>1. pos[Pending] = ofs + Len(wire) /\ pos[0] = 0
    BY DEF Cuts
  <2> QED
    BY <1>1, <2>1
<1>3. Len(handed) + 1 \in 1..Len(sent)
  BY <1>1, <1>2 DEF Pending
<1> DEFINE n == sent[Len(handed) + 1]
<1>4. n \in Nat /\ n < Half * Half
  BY <1>3, SentRange
<1>5. /\ pos[0] = 0 /\ pos[1] = pos[0] + 4 + n
      /\ \A d \in 1..4 : At(pos[0] + d - 1) = Header(n)[d]
  <2>1. 1 \in 1..Pending /\ 1 - 1 = 0
    BY <1>2
  <2> QED
    BY <2>1 DEF Cuts
<1> HIDE DEF n
<1>6. \A d \in 1..4 : buffer[d - 1] = Header(n)[d]
  <2> SUFFICES ASSUME NEW d \in 1..4 PROVE buffer[d - 1] = Header(n)[d]
    OBVIOUS
  <2>1. pos[0] + d - 1 = d - 1 /\ d - 1 < ofs
    BY <1>1, <1>5
  <2> QED
    BY <1>5, <2>1 DEF At
<1>7. buffer[0] = Header(n)[1] /\ buffer[1] = Header(n)[2] /\ buffer[2] = Header(n)[3] /\ buffer[3] = Header(n)[4]
  <2>1. 1 - 1 = 0 /\ 2 - 1 = 1 /\ 3 - 1 = 2 /\ 4 - 1 = 3
    OBVIOUS
  <2> QED
    BY <1>6, <2>1
<1>8. PacketLen = n
  BY <1>4, <1>7, HeaderValue DEF PacketLen
<1> QED
  BY <1>2, <1>3, <1>4, <1>5, <1>8 DEF n

(* Every header lies inside what is pending.                                *)
LEMMA CutAt ==
  ASSUME TypeOK, Pending \in Nat, NEW pos, Cuts(pos), NEW i \in 1..Pending
  PROVE  /\ Len(handed) + i \in 1..Len(sent) /\ sent[Len(handed) + i] \in Nat
         /\ pos[i - 1] \in Nat /\ pos[i] \in Nat /\ pos[i] <= ofs + Len(wire)
         /\ pos[i] = pos[i - 1] + 4 + sent[Len(handed) + i]
         /\ \A d \in 1..4 : /\ pos[i - 1] + d - 1 \in 0..(ofs + Len(wire)) - 1
                           /\ At(pos[i - 1] + d - 1) = Header(sent[Len(handed) + i])[d]
<1>1. ofs \in Nat /\ Len(wire) \in Nat /\ Len(handed) \in Nat /\ Len(sent) \in Nat
  BY DEF TypeOK
<1>2. i \in 0..Pending /\ i - 1 \in 0..Pending /\ Pending \in 0..Pending /\ i <= Pending
  OBVIOUS
<1>3. pos[i - 1] \in Nat /\ pos[i] \in Nat /\ pos[i] <= pos[Pending] /\ pos[Pending] = ofs + Len(wire)
  BY <1>2 DEF Cuts
<1>4. Len(handed) + i \in 1..Len(sent)
  BY <1>1 DEF Pending
<1>5. sent[Len(handed) + i] \in Nat
  BY <1>4, SentRange
<1>6. pos[i] = pos[i - 1] + 4 + sent[Len(handed) + i]
  BY DEF Cuts
<1>7. ASSUME NEW d \in 1..4
      PROVE  pos[i - 1] + d - 1 \in 0..(ofs + Len(wire)) - 1
  <2> DEFINE p == pos[i - 1]
             n == sent[Len(handed) + i]
             all == ofs + Len(wire)
  <2>1. p \in Nat /\ n \in Nat /\ all \in Nat /\ p + 4 + n <= all /\ d \in 1..4
    BY <1>1, <1>3, <1>5, <1>6
  <2> HIDE DEF p, n, all
  <2>2. p + d - 1 \in 0..all - 1
    BY <2>1
  <2> QED
    BY <2>2 DEF p, all
<1>8. \A d \in 1..4 : At(pos[i - 1] + d - 1) = Header(sent[Len(handed) + i])[d]
  BY DEF Cuts
<1> QED
  BY <1>3, <1>4, <1>5, <1>6, <1>7, <1>8

(* What is cut stays cut when no byte of it changes.                        *)
LEMMA CutsKept ==
  ASSUME TypeOK, Pending \in Nat, NEW pos, Cuts(pos), UNCHANGED <<sent, handed>>,
         ofs' + Len(wire') = ofs + Len(wire),
         \A j \in 0..(ofs + Len(wire)) - 1 : At(j)' = At(j)
  PROVE  Cuts(pos)'
<1>1. ASSUME NEW i \in 1..Pending, NEW d \in 1..4
      PROVE  At(pos[i - 1] + d - 1)' = Header(sent[Len(handed) + i])[d]
  <2>1. /\ pos[i - 1] + d - 1 \in 0..(ofs + Len(wire)) - 1
        /\ At(pos[i - 1] + d - 1) = Header(sent[Len(handed) + i])[d]
    BY CutAt
  <2> QED
    BY <2>1
<1>2. UNCHANGED Pending
  BY DEF Pending
<1> QED
  BY <1>1, <1>2 DEF Cuts

(* The length of a packet that fits has a first half of zero.               *)
LEMMA FitsZero ==
  ASSUME NEW n \in Lens, Fits(n)
  PROVE  Header(n)[1] = 0 /\ Header(n)[2] = 0
<1>1. n \in Nat /\ n < Half * Half /\ n < Half
  BY LensRange, Constants DEF Fits
<1> QED
  BY <1>1, HeaderValue

LEMMA NextFits ==
  ASSUME TypeOK, Intact, Len(handed) + 1 \in 1..Len(sent)
  PROVE  LET n == sent[Len(handed) + 1] IN Header(n)[1] = 0 /\ Header(n)[2] = 0
<1>1. sent[Len(handed) + 1] \in Lens
  BY SentRange
<1>2. Len(handed) + 1 \in 1..Len(handed) + 1 /\ Len(handed) + 1 <= Len(sent)
  BY DEF TypeOK
<1>3. Fits(sent[Len(handed) + 1])
  BY <1>2 DEF Intact, P!Intact, Fits
<1> QED
  BY <1>1, <1>3, FitsZero

LEMMA ReceiveSound ==
  ASSUME TypeOK, TypeOK', Intact, Sound, Receive
  PROVE  Sound'
<1>1. PICK k \in 1..BufferSize : Read(ofs, BufferSize - ofs, k) /\ ofs' = ofs + k
  BY DEF Receive
<1>2. ofs \in Nat /\ Len(wire) \in Nat /\ BufferSize - ofs \in Int /\ BufferSize \in Nat /\ BufferSize >= 8
  BY Constants DEF TypeOK
<1>3. /\ k <= Len(wire) /\ k <= BufferSize - ofs /\ Len(wire') = Len(wire) - k
      /\ \A i \in 0..BufferSize - 1 :
           buffer'[i] = IF i \in ofs..ofs + k - 1 THEN wire[i - ofs + 1] ELSE buffer[i]
      /\ \A i \in 1..Len(wire) - k : wire'[i] = wire[k + i]
  BY <1>1, <1>2, ReadEffect
<1>4. UNCHANGED <<draining, up, sent, handed>> /\ parsing' = TRUE
  BY DEF Receive
<1>5. ASSUME NEW j \in 0..(ofs + Len(wire)) - 1 PROVE At(j)' = At(j)
  <2>1. j \in Nat /\ j < ofs + Len(wire)
    BY <1>2
  <2>2. CASE j < ofs
    <3>1. j < ofs' /\ j \in 0..BufferSize - 1 /\ j \notin ofs..ofs + k - 1
      BY <1>1, <1>2, <1>3, <2>1, <2>2
    <3> QED
      BY <1>3, <2>2, <3>1 DEF At
  <2>3. CASE ofs <= j /\ j < ofs + k
    <3>1. j < ofs' /\ j \in 0..BufferSize - 1 /\ j \in ofs..ofs + k - 1 /\ ~(j < ofs)
      BY <1>1, <1>2, <1>3, <2>1, <2>3
    <3> QED
      BY <1>3, <3>1 DEF At
  <2>4. CASE ofs + k <= j
    <3>1. /\ ~(j < ofs') /\ ~(j < ofs) /\ j - ofs' + 1 \in 1..Len(wire) - k
          /\ k + (j - ofs' + 1) = j - ofs + 1
      BY <1>1, <1>2, <1>3, <2>1, <2>4
    <3>2. wire'[j - ofs' + 1] = wire[j - ofs + 1]
      BY <1>3, <3>1
    <3> QED
      BY <3>1, <3>2 DEF At
  <2> QED
    BY <1>2, <2>1, <2>2, <2>3, <2>4
<1>6. PICK pos : Cuts(pos)
  BY DEF Sound
<1>7. Cuts(pos)'
  <2>1. ofs' + Len(wire') = ofs + Len(wire)
    BY <1>1, <1>2, <1>3
  <2> QED
    BY <1>4, <1>5, <1>6, <2>1, CutsKept DEF Sound
<1>8. buffer'[0] = 0 /\ buffer'[1] = 0
  <2> SUFFICES ASSUME NEW i \in 0..1 PROVE buffer'[i] = 0
    OBVIOUS
  <2>1. i \in 0..BufferSize - 1
    BY <1>2
  <2>2. CASE i \notin ofs..ofs + k - 1
    BY <1>3, <2>1, <2>2 DEF Sound
  <2>3. CASE i \in ofs..ofs + k - 1
    <3>1. At(i) = buffer'[i]
      BY <1>2, <1>3, <2>1, <2>3 DEF At
    <3>2. Pending >= 1
      <4>1. pos[Pending] = ofs + Len(wire) /\ pos[0] = 0 /\ Pending \in Nat
        BY <1>6 DEF Cuts, Sound
      <4> QED
        BY <1>2, <1>3, <2>3, <4>1
    <3>3. 1 \in 1..Pending /\ 1 - 1 = 0 /\ Len(handed) + 1 \in 1..Len(sent)
      BY <3>2 DEF Pending, TypeOK, Sound
    <3>4. pos[0] = 0 /\ \A d \in 1..4 : At(pos[0] + d - 1) = Header(sent[Len(handed) + 1])[d]
      BY <1>6, <3>3 DEF Cuts
    <3>5. At(i) = Header(sent[Len(handed) + 1])[i + 1]
      <4>1. i + 1 \in 1..4 /\ 0 + (i + 1) - 1 = i
        OBVIOUS
      <4> QED
        BY <3>4, <4>1
    <3>6. Header(sent[Len(handed) + 1])[i + 1] = 0
      BY <3>3, NextFits
    <3> QED
      BY <3>1, <3>5, <3>6
  <2> QED
    BY <2>2, <2>3
<1> QED
  BY <1>4, <1>7, <1>8 DEF Sound, Pending

LEMMA SendSound ==
  ASSUME TypeOK, TypeOK', Sound, ServerSends
  PROVE  Sound'
<1>1. PICK n \in Lens : /\ wire' = wire \o Header(n) \o [i \in 1..n |-> Body]
                        /\ sent' = Append(sent, n)
  BY DEF ServerSends
<1>2. UNCHANGED <<buffer, ofs, draining, up, parsing, handed>>
  BY DEF ServerSends
<1>3. ofs \in Nat /\ Len(wire) \in Nat /\ Len(handed) \in Nat /\ Len(sent) \in Nat /\ n \in Nat
  BY LensRange DEF TypeOK
<1>4. /\ Len(wire') = Len(wire) + 4 + n
      /\ \A i \in 1..Len(wire) : wire'[i] = wire[i]
      /\ \A d \in 1..4 : wire'[Len(wire) + d] = Header(n)[d]
  BY <1>1, SentBytes
<1>5. /\ Len(sent') = Len(sent) + 1
      /\ \A i \in 1..Len(sent) : sent'[i] = sent[i]
      /\ sent'[Len(sent) + 1] = n
  BY <1>1, AppendProperties DEF TypeOK
<1>6. Pending \in Nat /\ Pending' = Pending + 1
  BY <1>2, <1>3, <1>5 DEF Pending, Sound
<1>7. PICK pos : Cuts(pos)
  BY DEF Sound
<1>8. PICK end : end = ofs + Len(wire) + 4 + n
  OBVIOUS
<1>9. PICK all : all = [i \in 0..Pending + 1 |-> IF i <= Pending THEN pos[i] ELSE end]
  OBVIOUS
<1>10. /\ pos \in [0..Pending -> Nat] /\ pos[0] = 0 /\ pos[Pending] = ofs + Len(wire)
       /\ \A i, j \in 0..Pending : i <= j => pos[i] <= pos[j]
  BY <1>7 DEF Cuts
<1>11. /\ end \in Nat /\ pos[Pending] <= end /\ end = ofs + Len(wire')
       /\ all \in [0..Pending' -> Nat] /\ all[0] = 0 /\ all[Pending'] = end
  BY <1>3, <1>4, <1>6, <1>8, <1>9, <1>10
<1>12. ASSUME NEW i \in 0..Pending', NEW j \in 0..Pending', i <= j PROVE all[i] <= all[j]
  <2>1. CASE j <= Pending
    BY <1>6, <1>9, <1>10, <1>12, <2>1
  <2>2. CASE ~(j <= Pending) /\ i <= Pending
    <3>1. i \in 0..Pending /\ Pending \in 0..Pending
      BY <1>6, <2>2
    <3>2. pos[i] <= pos[Pending] /\ pos[i] \in Nat /\ pos[Pending] \in Nat
      BY <1>10, <2>2, <3>1
    <3> QED
      BY <1>6, <1>9, <1>11, <2>2, <3>2
  <2>3. CASE ~(j <= Pending) /\ ~(i <= Pending)
    BY <1>6, <1>9, <1>11, <2>3
  <2> QED
    BY <2>1, <2>2, <2>3
<1>13. ASSUME NEW i \in 1..Pending'
       PROVE  /\ all[i] = all[i - 1] + 4 + sent'[Len(handed) + i]
              /\ \A d \in 1..4 : At(all[i - 1] + d - 1)' = Header(sent'[Len(handed) + i])[d]
  <2>1. CASE i <= Pending
    <3>1. i \in 1..Pending /\ all[i] = pos[i] /\ all[i - 1] = pos[i - 1]
      BY <1>6, <1>9, <2>1
    <3>2. /\ Len(handed) + i \in 1..Len(sent)
          /\ pos[i] = pos[i - 1] + 4 + sent[Len(handed) + i]
          /\ \A d \in 1..4 : /\ pos[i - 1] + d - 1 \in 0..(ofs + Len(wire)) - 1
                            /\ At(pos[i - 1] + d - 1) = Header(sent[Len(handed) + i])[d]
      BY <1>6, <1>7, <3>1, CutAt
    <3>3. sent'[Len(handed) + i] = sent[Len(handed) + i]
      BY <1>5, <3>2
    <3>4. ASSUME NEW j \in 0..(ofs + Len(wire)) - 1 PROVE At(j)' = At(j)
      <4>1. CASE j < ofs
        BY <1>2, <4>1 DEF At
      <4>2. CASE ~(j < ofs)
        <5>1. j - ofs + 1 \in 1..Len(wire)
          BY <1>3, <4>2
        <5> QED
          BY <1>2, <1>4, <4>2, <5>1 DEF At
      <4> QED
        BY <4>1, <4>2
    <3>5. ASSUME NEW d \in 1..4 PROVE At(pos[i - 1] + d - 1)' = Header(sent[Len(handed) + i])[d]
      BY <3>2, <3>4
    <3> QED
      BY <3>1, <3>2, <3>3, <3>5
  <2>2. CASE ~(i <= Pending)
    <3>1. i = Pending + 1 /\ all[i] = end /\ all[i - 1] = ofs + Len(wire) /\ all[i - 1] \in Nat
      BY <1>3, <1>6, <1>9, <1>10, <2>2
    <3>2. sent'[Len(handed) + i] = n
      BY <1>3, <1>5, <3>1 DEF Pending
    <3>3. all[i] = all[i - 1] + 4 + sent'[Len(handed) + i]
      BY <1>3, <1>8, <3>1, <3>2
    <3>4. ASSUME NEW d \in 1..4 PROVE At(all[i - 1] + d - 1)' = Header(n)[d]
      <4>1. /\ ~(all[i - 1] + d - 1 < ofs')
            /\ (all[i - 1] + d - 1) - ofs' + 1 = Len(wire) + d
        BY <1>2, <1>3, <3>1
      <4>2. At(all[i - 1] + d - 1)' = wire'[Len(wire) + d]
        BY <4>1 DEF At
      <4> QED
        BY <1>4, <4>2
    <3> QED
      BY <3>2, <3>3, <3>4
  <2> QED
    BY <2>1, <2>2
<1>14. Cuts(all)'
  BY <1>2, <1>11, <1>12, <1>13 DEF Cuts
<1>15. UNCHANGED PacketLen
  BY <1>2 DEF PacketLen
<1> QED
  BY <1>2, <1>6, <1>14, <1>15 DEF Sound

(* Moved to the front, the rest of the buffer begins with the next header.  *)
LEMMA HandOverSound ==
  ASSUME TypeOK, TypeOK', Intact, Intact', Sound, HandOver
  PROVE  Sound'
<1>1. UNCHANGED <<draining, up, parsing, wire, sent>> /\ parsing /\ handed' = Append(handed, PacketLen)
  BY DEF HandOver
<1>2. PacketLen \in Nat /\ PacketLen + 4 <= ofs /\ ofs \in Nat /\ ofs <= BufferSize /\ BufferSize \in Nat
  BY PacketLenRange, Constants DEF HandOver, TypeOK
<1>3. Len(wire) \in Nat /\ Len(handed) \in Nat /\ Len(sent) \in Nat /\ Len(handed') = Len(handed) + 1
  BY <1>1, <1>2 DEF TypeOK
<1>4. PICK cut : cut = PacketLen + 4
  OBVIOUS
<1>5. cut \in Nat /\ 4 <= cut /\ cut <= ofs /\ ofs' = ofs - cut /\ ofs' \in Nat
  BY <1>2, <1>4, Constants DEF HandOver
<1>6. \A i \in 0..BufferSize - 1 : buffer'[i] = IF i < ofs - cut THEN buffer[i + cut] ELSE buffer[i]
  <2>1. buffer' = [i \in 0..BufferSize - 1 |->
                     IF i < ofs - PacketLen - 4 THEN buffer[i + PacketLen + 4] ELSE buffer[i]]
    BY Constants DEF HandOver
  <2>2. ASSUME NEW i \in 0..BufferSize - 1
        PROVE  ofs - PacketLen - 4 = ofs - cut /\ i + PacketLen + 4 = i + cut
    BY <1>2, <1>4
  <2> QED
    BY <2>1, <2>2
<1>7. ASSUME NEW j \in Nat, j < (ofs + Len(wire)) - cut PROVE At(j)' = At(j + cut)
  <2>1. CASE j < ofs - cut
    <3>1. j < ofs' /\ j + cut < ofs /\ j \in 0..BufferSize - 1
      BY <1>2, <1>5, <2>1
    <3> QED
      BY <1>6, <2>1, <3>1 DEF At
  <2>2. CASE ~(j < ofs - cut)
    <3>1. ~(j < ofs') /\ ~(j + cut < ofs) /\ j - ofs' + 1 = (j + cut) - ofs + 1
      BY <1>2, <1>5, <2>2
    <3> QED
      BY <1>1, <3>1 DEF At
  <2> QED
    BY <2>1, <2>2
<1>8. PICK pos : Cuts(pos)
  BY DEF Sound
<1>9. Pending \in Nat /\ Pending >= 1 /\ pos[1] = cut
  BY <1>2, <1>4, <1>8, FirstPacket DEF Sound
<1>10. Pending' = Pending - 1 /\ Pending' \in Nat
  BY <1>1, <1>3, <1>9 DEF Pending
<1>11. PICK rest : rest = [i \in 0..Pending - 1 |-> pos[i + 1] - cut]
  OBVIOUS
<1>12. /\ pos \in [0..Pending -> Nat] /\ pos[0] = 0 /\ pos[Pending] = ofs + Len(wire)
       /\ \A i, j \in 0..Pending : i <= j => pos[i] <= pos[j]
  BY <1>8 DEF Cuts
<1>13. ASSUME NEW i \in 0..Pending'
       PROVE  rest[i] = pos[i + 1] - cut /\ pos[i + 1] \in Nat /\ rest[i] \in Nat
  <2>1. i + 1 \in 0..Pending /\ 1 \in 0..Pending /\ 1 <= i + 1 /\ i \in 0..Pending - 1
    BY <1>9, <1>10
  <2>2. pos[1] <= pos[i + 1] /\ pos[i + 1] \in Nat
    BY <1>12, <2>1
  <2> QED
    BY <1>5, <1>9, <1>11, <2>1, <2>2
<1>14. rest \in [0..Pending' -> Nat]
  BY <1>10, <1>11, <1>13
<1>15. rest[0] = 0 /\ rest[Pending'] = ofs' + Len(wire')
  <2>1. 0 \in 0..Pending' /\ Pending' \in 0..Pending' /\ Pending' + 1 = Pending /\ 0 + 1 = 1
    BY <1>9, <1>10
  <2> QED
    BY <1>1, <1>2, <1>3, <1>5, <1>9, <1>12, <1>13, <2>1
<1>16. ASSUME NEW i \in 0..Pending', NEW j \in 0..Pending', i <= j PROVE rest[i] <= rest[j]
  <2>1. i + 1 \in 0..Pending /\ j + 1 \in 0..Pending /\ i + 1 <= j + 1
    BY <1>9, <1>10, <1>16
  <2>2. pos[i + 1] <= pos[j + 1]
    BY <1>12, <2>1
  <2> QED
    BY <1>5, <1>13, <2>2
<1>17. ASSUME NEW i \in 1..Pending'
       PROVE  /\ rest[i] = rest[i - 1] + 4 + sent'[Len(handed') + i]
              /\ \A d \in 1..4 : At(rest[i - 1] + d - 1)' = Header(sent'[Len(handed') + i])[d]
  <2>1. i + 1 \in 1..Pending /\ (i + 1) - 1 = i /\ i - 1 \in 0..Pending' /\ (i - 1) + 1 = i /\ i \in 0..Pending'
    BY <1>9, <1>10
  <2>2. Len(handed') + i = Len(handed) + (i + 1)
    BY <1>3
  <2>3. PICK m : m = i + 1
    OBVIOUS
  <2>4. PICK n : n = sent[Len(handed) + m]
    OBVIOUS
  <2>5. m \in 1..Pending /\ m - 1 = i
    BY <2>1, <2>3
  <2>6. /\ n \in Nat /\ pos[m - 1] \in Nat /\ pos[m] = pos[m - 1] + 4 + n
        /\ \A d \in 1..4 : /\ pos[m - 1] + d - 1 \in 0..(ofs + Len(wire)) - 1
                          /\ At(pos[m - 1] + d - 1) = Header(n)[d]
    BY <1>8, <1>9, <2>4, <2>5, CutAt
  <2>7. rest[i] = pos[m] - cut /\ rest[i - 1] = pos[m - 1] - cut /\ rest[i - 1] \in Nat
    BY <1>13, <2>1, <2>3, <2>5
  <2>8. rest[i] = rest[i - 1] + 4 + n
    <3>1. PICK p, q, r, s : p = pos[m - 1] /\ q = pos[m] /\ r = rest[i - 1] /\ s = rest[i]
      OBVIOUS
    <3>2. p \in Nat /\ n \in Nat /\ cut \in Nat /\ q = p + 4 + n /\ s = q - cut /\ r = p - cut
      BY <1>5, <2>6, <2>7, <3>1
    <3>3. s = r + 4 + n
      BY <3>2
    <3> QED
      BY <3>1, <3>3
  <2>9. ASSUME NEW d \in 1..4 PROVE At(rest[i - 1] + d - 1)' = Header(n)[d]
    <3>1. PICK j : j = rest[i - 1] + d - 1
      OBVIOUS
    <3>2. j \in Nat /\ j + cut = pos[m - 1] + d - 1
      <4>1. PICK p, r : p = pos[m - 1] /\ r = rest[i - 1]
        OBVIOUS
      <4>2. p \in Nat /\ r \in Nat /\ cut \in Nat /\ r = p - cut /\ j = r + d - 1
        BY <1>5, <2>6, <2>7, <3>1, <4>1
      <4>3. j \in Nat /\ j + cut = p + d - 1
        BY <4>2
      <4> QED
        BY <4>1, <4>3
    <3>3. j < (ofs + Len(wire)) - cut
      <4>1. pos[m - 1] + d - 1 \in 0..(ofs + Len(wire)) - 1
        BY <2>6
      <4> QED
        BY <1>2, <1>3, <1>5, <3>2, <4>1
    <3>4. At(j)' = At(j + cut)
      BY <1>7, <3>2, <3>3
    <3> QED
      BY <2>6, <3>1, <3>2, <3>4
  <2>10. sent'[Len(handed') + i] = n
    BY <1>1, <2>2, <2>3, <2>4
  <2> QED
    BY <2>8, <2>9, <2>10
<1>18. Cuts(rest)'
  BY <1>14, <1>15, <1>16, <1>17 DEF Cuts
<1>19. ASSUME NEW i \in 0..1 PROVE buffer'[i] = 0
  <2>1. i \in 0..BufferSize - 1
    BY Constants
  <2>2. CASE ~(i < ofs - cut)
    BY <1>6, <2>1, <2>2 DEF Sound
  <2>3. CASE i < ofs - cut
    <3>1. At(i)' = buffer'[i]
      BY <1>5, <2>3 DEF At
    <3>2. Pending' >= 1
      BY <1>1, <1>2, <1>3, <1>5, <1>10, <1>15, <2>3
    <3>3. 1 \in 1..Pending' /\ 1 - 1 = 0 /\ Len(handed') + 1 \in 1..Len(sent')
      BY <1>1, <1>3, <1>10, <3>2 DEF Pending
    <3>4. \A d \in 1..4 : At(rest[0] + d - 1)' = Header(sent'[Len(handed') + 1])[d]
      BY <1>17, <3>3
    <3>5. At(i)' = Header(sent'[Len(handed') + 1])[i + 1]
      <4>1. i + 1 \in 1..4 /\ 0 + (i + 1) - 1 = i
        OBVIOUS
      <4>2. At(0 + (i + 1) - 1)' = Header(sent'[Len(handed') + 1])[i + 1]
        BY <1>15, <3>4, <4>1
      <4> QED
        BY <4>1, <4>2
    <3>6. sent'[Len(handed') + 1] \in Lens
      BY <3>3 DEF TypeOK
    <3>7. Fits(sent'[Len(handed') + 1])
      <4>1. Len(handed') + 1 \in 1..Len(handed') + 1 /\ Len(handed') + 1 <= Len(sent')
        BY <1>3, <3>3
      <4> QED
        BY <4>1 DEF Intact, P!Intact, Fits
    <3> QED
      BY <3>1, <3>5, <3>6, <3>7, FitsZero
  <2> QED
    BY <2>2, <2>3
<1> QED
  BY <1>1, <1>10, <1>18, <1>19 DEF Sound

(* The length the loop ends with is not larger than the buffer, whether or  *)
(* not all of it has come.                                                  *)
LEMMA LoopEndsSound ==
  ASSUME TypeOK, Sound, LoopEnds
  PROVE  Sound'
<1>1. PacketLen \in Nat /\ PacketLen <= BufferSize /\ BufferSize \in Nat
  BY PacketLenRange, Constants DEF Sound
<1>2. UNCHANGED <<buffer, ofs, draining, up, wire, sent, handed>> /\ PacketLen + 4 > ofs
  BY <1>1, Constants DEF LoopEnds
<1>3. UNCHANGED <<Pending, PacketLen>>
  BY <1>2 DEF Pending, PacketLen
<1>4. PICK pos : Cuts(pos)
  BY DEF Sound
<1>5. Cuts(pos)'
  <2>1. \A j \in 0..(ofs + Len(wire)) - 1 : At(j)' = At(j)
    BY <1>2 DEF At
  <2> QED
    BY <1>2, <1>4, <2>1, CutsKept DEF Sound
<1> QED
  BY <1>2, <1>3, <1>5 DEF Sound

(* A packet that fits never fills the buffer before it is whole.            *)
LEMMA RoomIsLeft ==
  ASSUME TypeOK, Intact, Sound
  PROVE  ~ReceiveNothing /\ ~Drain /\ ~DrainFails
<1>1. ~Drain /\ ~DrainFails
  BY DEF Sound, Drain, DrainFails
<1>2. ASSUME ReceiveNothing PROVE FALSE
  <2>1. ofs = BufferSize /\ ofs >= 4 /\ ofs < PacketLen + 4 /\ PacketLen \in Nat
    BY <1>2, Constants, PacketLenRange DEF ReceiveNothing, Sound
  <2>2. PICK pos : Cuts(pos)
    BY DEF Sound
  <2>3. Len(handed) + 1 \in 1..Len(sent) /\ PacketLen = sent[Len(handed) + 1]
    BY <2>1, <2>2, FirstPacket DEF Sound
  <2>4. Fits(sent[Len(handed) + 1])
    <3>1. Len(handed) + 1 \in 1..Len(handed) + 1 /\ Len(handed) + 1 <= Len(sent)
      BY <2>3 DEF TypeOK
    <3> QED
      BY <3>1 DEF Intact, P!Intact, Fits
  <2> QED
    BY <2>1, <2>3, <2>4, Constants DEF Fits
<1> QED
  BY <1>1, <1>2

LEMMA InvInit == Init => IInv
<1> SUFFICES ASSUME Init PROVE IInv
  OBVIOUS
<1>1. TypeOK
  BY TypeInit
<1>2. Len(sent) = 0 /\ Len(handed) = 0 /\ Len(wire) = 0 /\ ofs = 0 /\ Pending = 0
  BY DEF Init, Pending
<1>3. buffer[0] = 0 /\ buffer[1] = 0
  BY Constants DEF Init
<1>4. Cuts([i \in 0..0 |-> 0])
  BY <1>2 DEF Cuts
<1>5. PacketLen + 4 > ofs
  BY <1>1, <1>2, PacketLenRange
<1>6. Sound
  BY <1>2, <1>3, <1>4, <1>5 DEF Init, Sound
<1> QED
  BY <1>1, <1>6 DEF IInv

LEMMA InvStep == IInv /\ [Next]_vars => IInv'
<1> SUFFICES ASSUME IInv, [Next]_vars PROVE IInv'
  OBVIOUS
<1>1. TypeOK /\ TypeOK'
  BY TypeStep DEF IInv
<1>2. ASSUME Intact' PROVE Sound'
  <2>1. Intact /\ Sound
    BY <1>1, <1>2, IntactBefore DEF IInv
  <2>2. ASSUME Idle \/ UNCHANGED vars PROVE Sound'
    <3>1. UNCHANGED vars
      BY <2>2 DEF Idle
    <3>2. UNCHANGED <<Pending, PacketLen>> /\ \A j : UNCHANGED At(j)
      BY <3>1 DEF vars, Pending, PacketLen, At
    <3>3. PICK pos : Cuts(pos)
      BY <2>1 DEF Sound
    <3>4. Cuts(pos)'
      BY <1>1, <2>1, <3>1, <3>2, <3>3, CutsKept DEF vars, Sound
    <3> QED
      BY <2>1, <3>1, <3>2, <3>4 DEF vars, Sound
  <2> QED
    BY <1>1, <1>2, <2>1, <2>2, ReceiveSound, SendSound, HandOverSound, LoopEndsSound, RoomIsLeft
    DEF Next, Client
<1> QED
  BY <1>1, <1>2 DEF IInv

LEMMA Invariant == Spec => []IInv
  BY InvInit, InvStep, PTL DEF Spec

(* A connection whose packets fit is never given up: neither a length of    *)
(* which only a part has come nor a full buffer ends it.                    *)
THEOREM NeverGivenUp == Spec => []NeverStuck
<1>1. IInv => NeverStuck
  <2> SUFFICES ASSUME IInv, AllFit PROVE up
    BY DEF NeverStuck
  <2>1. Intact
    BY DEF AllFit, Intact, P!Intact, Fits
  <2> QED
    BY <2>1 DEF IInv, Sound
<1> QED
  BY <1>1, Invariant, PTL

(* What is handed to sProcessMessage is what PacketPipe says, for every cut *)
(* of the stream: the packets sent, whole, once and in order, up to the     *)
(* first that does not fit; nothing is said of what comes after that one.   *)
THEOREM HandsOverInOrder == Spec => InOrder
<1>1. Init => P!Init
  BY DEF Init, P!Init
<1>2. IInv /\ [Next]_vars => [P!Next]_<<sent, handed>>
  <2> SUFFICES ASSUME IInv, [Next]_vars PROVE [P!Next]_<<sent, handed>>
    OBVIOUS
  <2>1. TypeOK
    BY DEF IInv
  <2>2. ASSUME NEW n \in Lens, sent' = Append(sent, n), UNCHANGED handed PROVE P!Next
    BY <2>2 DEF P!Next, P!Send
  <2>3. ASSUME HandOver, UNCHANGED sent, handed' = Append(handed, PacketLen) PROVE P!Next
    <3>1. PacketLen \in Nat /\ PacketLen + 4 <= ofs /\ ofs \in Nat /\ ofs <= BufferSize
      BY <2>1, <2>3, PacketLenRange, Constants DEF HandOver, TypeOK
    <3>2. CASE Intact
      <4>1. PICK pos : Cuts(pos)
        BY <3>2 DEF IInv, Sound
      <4>2. Len(handed) + 1 \in 1..Len(sent) /\ PacketLen = sent[Len(handed) + 1]
        BY <2>1, <3>1, <3>2, <4>1, FirstPacket DEF IInv, Sound
      <4>3. Len(handed) < Len(sent)
        BY <2>1, <4>2 DEF TypeOK
      <4> QED
        BY <2>3, <3>2, <4>2, <4>3 DEF P!Next, P!Hand, Intact
    <3>3. CASE ~Intact
      <4>1. PacketLen \in 0..BufferSize
        BY <3>1, Constants
      <4> QED
        BY <2>3, <3>3, <4>1 DEF P!Next, P!Garble, Intact
    <3> QED
      BY <3>2, <3>3
  <2> QED
    BY <2>1, <2>2, <2>3, History
<1> QED
  BY <1>1, <1>2, Invariant, PTL DEF Spec, InOrder, P!Spec
================================================================================
