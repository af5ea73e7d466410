--------------------------- MODULE ClipboardProofs ---------------------------
(***************************************************************************)
(* The clipboards for any clipboards, texts and data of the server.  As    *)
(* long as a stream is open the buffer holds the part of its serial form   *)
(* that has come, so that at its end the parser meets the serial form of   *)
(* the data and nothing else; and a buffer that was filled, from there or  *)
(* from the desktop, holds the serial form until a stream is opened again. *)
(*                                                                         *)
(* What FlattenSeq and the parser compute is defined by recursion; the     *)
(* induction their lemmas need is one about sets of numbers.               *)
(***************************************************************************)
EXTENDS Clipboard, SequenceTheorems, WellFoundedInduction, TLAPS

(* A set with 0 and the successor of every member has every number: the     *)
(* smallest that it lacks would be the successor of one it has.             *)
LEMMA Induction ==
  ASSUME NEW S, 0 \in S, \A n \in Nat : n \in S => n + 1 \in S
  PROVE  \A n \in Nat : n \in S
<1> SUFFICES ASSUME NEW k \in Nat, k \notin S PROVE FALSE
  OBVIOUS
<1> DEFINE T == {n \in Nat : n \notin S}
           R == OpToRel(<, Nat)
<1>1. T \subseteq Nat /\ T # {}
  OBVIOUS
<1>2. \A x, y \in Nat : x < y => <<x, y>> \in R
  BY DEF OpToRel
<1>3. IsWellFoundedOn(R, Nat)
  BY NatLessThanWellFounded
<1> HIDE DEF R
<1>4. PICK m \in T : \A n \in T : ~(<<n, m>> \in R)
  BY <1>1, <1>3, WFMin
<1>5. m # 0 /\ \A n \in T : ~(n < m)
  BY <1>2, <1>4
<1>6. PICK n \in Nat : m = n + 1
  <2>1. m - 1 \in Nat /\ m = (m - 1) + 1
    BY <1>5
  <2> QED
    BY <2>1
<1>7. n \in S
  BY <1>5, <1>6
<1> QED
  BY <1>6, <1>7

-----------------------------------------------------------------------------
(* FlattenSeq. *)

Flat(ss, n, f) == f = [i \in 1..n |-> IF i = 1 THEN ss[i] ELSE f[i - 1] \o ss[i]]

(* The concatenations of the first of ss, the first two and so on exist.    *)
LEMMA FlatExists == ASSUME NEW ss, NEW n \in Nat PROVE \E f : Flat(ss, n, f)
<1> DEFINE S == {k \in Nat : \E f : Flat(ss, k, f)}
<1>1. 0 \in S
  <2> DEFINE f == [i \in 1..0 |-> <<>>]
  <2>1. Flat(ss, 0, f)
    BY DEF Flat
  <2> QED
    BY <2>1
<1>2. ASSUME NEW k \in Nat, k \in S PROVE k + 1 \in S
  <2>1. PICK f : Flat(ss, k, f)
    BY <1>2
  <2>2. f = [i \in 1..k |-> IF i = 1 THEN ss[i] ELSE f[i - 1] \o ss[i]]
    BY <2>1 DEF Flat
  <2> DEFINE g == [i \in 1..k + 1 |-> IF i \in 1..k THEN f[i]
                                      ELSE IF i = 1 THEN ss[i] ELSE f[i - 1] \o ss[i]]
             h == [i \in 1..k + 1 |-> IF i = 1 THEN ss[i] ELSE g[i - 1] \o ss[i]]
  <2>3. ASSUME NEW i \in 1..k + 1 PROVE g[i] = h[i]
    <3>1. CASE i = 1
      <4>1. h[i] = ss[i]
        BY <3>1
      <4>2. g[i] = ss[i]
        BY <2>2, <3>1
      <4> QED
        BY <4>1, <4>2
    <3>2. CASE i # 1
      <4>1. i - 1 \in 1..k /\ i - 1 \in 1..k + 1
        BY <3>2
      <4>2. g[i - 1] = f[i - 1]
        BY <4>1
      <4>3. h[i] = f[i - 1] \o ss[i]
        BY <3>2, <4>2
      <4>4. g[i] = f[i - 1] \o ss[i]
        BY <2>2, <3>2
      <4> QED
        BY <4>3, <4>4
    <3> QED
      BY <3>1, <3>2
  <2>4. g = h
    BY <2>3
  <2>5. Flat(ss, k + 1, g)
    BY <2>4 DEF Flat
  <2> QED
    BY <2>5
<1> HIDE DEF S
<1>3. n \in S
  BY <1>1, <1>2, Induction
<1> QED
  BY <1>3 DEF S

LEMMA FlatLast ==
  ASSUME NEW ss, Len(ss) \in Nat \ {0}
  PROVE  \E f : Flat(ss, Len(ss), f) /\ FlattenSeq(ss) = f[Len(ss)]
<1>1. PICK f : f = CHOOSE g : g = [i \in 1..Len(ss) |-> IF i = 1 THEN ss[i] ELSE g[i - 1] \o ss[i]]
  OBVIOUS
<1>2. FlattenSeq(ss) = IF Len(ss) = 0 THEN ss ELSE f[Len(ss)]
  BY <1>1 DEF FlattenSeq
<1>3. Flat(ss, Len(ss), f)
  BY <1>1, FlatExists DEF Flat
<1> QED
  BY <1>2, <1>3

LEMMA Concatenated ==
  ASSUME NEW S, NEW s \in Seq(S), NEW t \in Seq(S)
  PROVE  /\ s \o t \in Seq(S) /\ Len(s \o t) = Len(s) + Len(t)
         /\ \A i \in 1..Len(s) : (s \o t)[i] = s[i]
         /\ \A i \in 1..Len(t) : (s \o t)[Len(s) + i] = t[i]
<1>1. Len(s) \in Nat /\ Len(t) \in Nat
  OBVIOUS
<1>2. \A i \in 1..Len(s) + Len(t) : (s \o t)[i] = IF i <= Len(s) THEN s[i] ELSE t[i - Len(s)]
  BY ConcatProperties
<1>3. ASSUME NEW i \in 1..Len(t) PROVE (s \o t)[Len(s) + i] = t[i]
  <2>1. Len(s) + i \in 1..Len(s) + Len(t) /\ ~(Len(s) + i <= Len(s)) /\ Len(s) + i - Len(s) = i
    BY <1>1
  <2>2. (s \o t)[Len(s) + i] = t[Len(s) + i - Len(s)]
    BY <1>2, <2>1
  <2> QED
    BY <2>1, <2>2
<1>4. ASSUME NEW i \in 1..Len(s) PROVE (s \o t)[i] = s[i]
  <2>1. i \in 1..Len(s) + Len(t) /\ i <= Len(s)
    BY <1>1
  <2> QED
    BY <1>2, <2>1
<1> QED
  BY <1>3, <1>4, ConcatProperties

LEMMA NumbersConcatenated ==
  ASSUME NEW s \in Seq(Int), NEW t \in Seq(Int)
  PROVE  /\ s \o t \in Seq(Int)
         /\ Len(s \o t) = Len(s) + Len(t)
         /\ \A i \in 1..Len(s) : (s \o t)[i] = s[i]
         /\ \A i \in 1..Len(t) : (s \o t)[Len(s) + i] = t[i]
<1>1. PICK I : I = Int
  OBVIOUS
<1>2. s \in Seq(I) /\ t \in Seq(I)
  BY <1>1
<1>3. /\ s \o t \in Seq(I)
      /\ Len(s \o t) = Len(s) + Len(t)
      /\ \A i \in 1..Len(s) : (s \o t)[i] = s[i]
      /\ \A i \in 1..Len(t) : (s \o t)[Len(s) + i] = t[i]
  BY <1>2, Concatenated
<1> QED
  BY <1>1, <1>3

LEMMA FlatPrefix ==
  ASSUME NEW T, NEW ss \in Seq(Seq(T)), NEW f, Flat(ss, Len(ss), f), NEW n \in 1..Len(ss)
  PROVE  /\ f[n] \in Seq(T)
         /\ \A m \in 1..n : /\ Len(f[m]) <= Len(f[n])
                           /\ \A j \in 1..Len(f[m]) : f[n][j] = f[m][j]
<1> DEFINE Good(k) ==
      /\ f[k] \in Seq(T)
      /\ \A m \in 1..k : /\ Len(f[m]) <= Len(f[k])
                        /\ \A j \in 1..Len(f[m]) : f[k][j] = f[m][j]
           S == {k \in Nat : k \in 1..Len(ss) => Good(k)}
<1>1. 0 \in S
  OBVIOUS
<1>2. ASSUME NEW k \in Nat, k \in S PROVE k + 1 \in S
  <2> SUFFICES ASSUME k + 1 \in 1..Len(ss) PROVE Good(k + 1)
    OBVIOUS
  <2>1. f[k + 1] = IF k + 1 = 1 THEN ss[k + 1] ELSE f[k] \o ss[k + 1]
    <3>1. f = [i \in 1..Len(ss) |-> IF i = 1 THEN ss[i] ELSE f[i - 1] \o ss[i]]
      BY DEF Flat
    <3>2. f[k + 1] = IF k + 1 = 1 THEN ss[k + 1] ELSE f[(k + 1) - 1] \o ss[k + 1]
      BY <3>1, Zenon
    <3>3. (k + 1) - 1 = k
      OBVIOUS
    <3> QED
      BY <3>2, <3>3
  <2>2. ss[k + 1] \in Seq(T)
    OBVIOUS
  <2>3. CASE k = 0
    <3>1. f[1] \in Seq(T)
      BY <2>1, <2>2, <2>3
    <3>2. \A m \in 1..k + 1 : m = 1
      BY <2>3
    <3>3. Len(f[1]) \in Nat
      BY <3>1
    <3> QED
      BY <2>3, <3>1, <3>2, <3>3
  <2>4. CASE k # 0
    <3>1. Good(k)
      BY <1>2, <2>4
    <3>2. PICK a : a = f[k]
      OBVIOUS
    <3>3. PICK b : b = ss[k + 1]
      OBVIOUS
    <3>4. a \in Seq(T) /\ b \in Seq(T) /\ f[k + 1] = a \o b
      <4>1. k + 1 # 1
        BY <2>4
      <4>2. f[k + 1] = f[k] \o ss[k + 1]
        BY <2>1, <4>1
      <4> QED
        BY <2>2, <3>1, <3>2, <3>3, <4>2
    <3>5. /\ f[k + 1] \in Seq(T)
          /\ Len(f[k + 1]) = Len(a) + Len(b)
          /\ \A i \in 1..Len(a) : f[k + 1][i] = a[i]
      BY <3>4, Concatenated
    <3>6. Len(a) \in Nat /\ Len(b) \in Nat
      BY <3>4
    <3>7. ASSUME NEW m \in 1..k + 1
          PROVE  /\ Len(f[m]) <= Len(f[k + 1])
                 /\ \A j \in 1..Len(f[m]) : f[k + 1][j] = f[m][j]
      <4>1. CASE m = k + 1
        BY <3>5, <3>6, <4>1
      <4>2. CASE m \in 1..k
        <5>1. PICK c : c = f[m]
          OBVIOUS
        <5>2. Len(c) <= Len(a) /\ \A j \in 1..Len(c) : a[j] = c[j]
          BY <3>1, <3>2, <4>2, <5>1
        <5>3. CASE Len(c) \in Nat
          BY <3>5, <3>6, <5>1, <5>2, <5>3
        <5>4. Len(c) \in Nat
          BY <3>1
        <5> QED
          BY <5>3, <5>4
      <4> QED
        BY <4>1, <4>2
    <3> QED
      BY <3>5, <3>7
  <2> QED
    BY <2>3, <2>4
<1> HIDE DEF S
<1>3. \A k \in Nat : k \in S
  BY <1>1, <1>2, Induction
<1> QED
  BY <1>3 DEF S

(* Where the sequences of ss end when they are concatenated. *)
Ends(ss, pos) ==
  /\ pos \in [0..Len(ss) -> Nat]
  /\ pos[0] = 0
  /\ \A n \in 1..Len(ss) : pos[n] = pos[n - 1] + Len(ss[n])

LEMMA Pieces ==
  ASSUME NEW T, NEW ss \in Seq(Seq(T))
  PROVE  /\ FlattenSeq(ss) \in Seq(T)
         /\ \E pos : /\ Ends(ss, pos)
                     /\ Len(FlattenSeq(ss)) = pos[Len(ss)]
                     /\ \A n \in 1..Len(ss) :
                          /\ pos[n] <= pos[Len(ss)]
                          /\ \A j \in 1..Len(ss[n]) : FlattenSeq(ss)[pos[n - 1] + j] = ss[n][j]
<1>0. Len(ss) \in Nat
  OBVIOUS
<1>1. CASE Len(ss) = 0
  <2>1. ss = <<>>
    BY <1>1
  <2>2. FlattenSeq(ss) = <<>>
    BY <1>1, <2>1 DEF FlattenSeq
  <2> DEFINE pos == [n \in 0..Len(ss) |-> 0]
  <2>3. Ends(ss, pos)
    BY <1>1 DEF Ends
  <2>4. \A n \in 1..Len(ss) : FALSE
    BY <1>1
  <2>5. Len(FlattenSeq(ss)) = pos[Len(ss)]
    BY <1>1, <2>2
  <2>6. FlattenSeq(ss) \in Seq(T)
    BY <2>2
  <2> HIDE DEF pos
  <2> QED
    BY <2>3, <2>4, <2>5, <2>6
<1>2. CASE Len(ss) # 0
  <2>1. PICK f : Flat(ss, Len(ss), f) /\ FlattenSeq(ss) = f[Len(ss)]
    BY <1>0, <1>2, FlatLast
  <2> DEFINE pos == [n \in 0..Len(ss) |-> IF n = 0 THEN 0 ELSE Len(f[n])]
  <2>2. \A n \in 1..Len(ss) :
           /\ f[n] \in Seq(T)
           /\ \A m \in 1..n : /\ Len(f[m]) <= Len(f[n])
                             /\ \A j \in 1..Len(f[m]) : f[n][j] = f[m][j]
    BY <2>1, FlatPrefix
  <2>3. pos \in [0..Len(ss) -> Nat] /\ pos[0] = 0
    BY <1>0, <2>2
  <2>4. \A n \in 1..Len(ss) : pos[n] = Len(f[n])
    BY <1>0
  <2> HIDE DEF pos
  <2>5. ASSUME NEW n \in 1..Len(ss)
        PROVE  /\ pos[n] = pos[n - 1] + Len(ss[n])
               /\ \A j \in 1..Len(ss[n]) : f[n][pos[n - 1] + j] = ss[n][j]
    <3>1. f[n] = IF n = 1 THEN ss[n] ELSE f[n - 1] \o ss[n]
      <4>1. f = [i \in 1..Len(ss) |-> IF i = 1 THEN ss[i] ELSE f[i - 1] \o ss[i]]
        BY <2>1 DEF Flat
      <4> QED
        BY <4>1, Zenon
    <3>2. PICK b : b = ss[n]
      OBVIOUS
    <3>3. b \in Seq(T) /\ Len(b) \in Nat
      BY <3>2
    <3>4. CASE n = 1
      <4>1. f[n] = b /\ pos[n - 1] = 0
        BY <2>3, <3>1, <3>2, <3>4
      <4> QED
        BY <2>4, <3>2, <3>3, <4>1
    <3>5. CASE n # 1
      <4>1. n - 1 \in 1..Len(ss)
        BY <1>0, <3>5
      <4>2. PICK a : a = f[n - 1]
        OBVIOUS
      <4>3. a \in Seq(T) /\ pos[n - 1] = Len(a)
        BY <2>2, <2>4, <4>1, <4>2
      <4>4. f[n] = a \o b
        BY <3>1, <3>2, <3>5, <4>2
      <4>5. /\ Len(f[n]) = Len(a) + Len(b)
            /\ \A i \in 1..Len(b) : f[n][Len(a) + i] = b[i]
        BY <3>3, <4>3, <4>4, Concatenated
      <4> QED
        BY <2>4, <3>2, <4>3, <4>5
    <3> QED
      BY <3>4, <3>5
  <2>6. Ends(ss, pos)
    BY <2>3, <2>5 DEF Ends
  <2>7. Len(ss) \in 1..Len(ss)
    BY <1>0, <1>2
  <2>8. Len(FlattenSeq(ss)) = pos[Len(ss)] /\ FlattenSeq(ss) \in Seq(T)
    BY <2>1, <2>2, <2>4, <2>7
  <2>9. ASSUME NEW n \in 1..Len(ss)
        PROVE  /\ pos[n] <= pos[Len(ss)]
               /\ \A j \in 1..Len(ss[n]) : FlattenSeq(ss)[pos[n - 1] + j] = ss[n][j]
    <3>1. Len(f[n]) <= Len(f[Len(ss)])
      BY <2>2, <2>7
    <3>2. \A j \in 1..Len(f[n]) : f[Len(ss)][j] = f[n][j]
      BY <2>2, <2>7
    <3>3. ASSUME NEW j \in 1..Len(ss[n]) PROVE FlattenSeq(ss)[pos[n - 1] + j] = ss[n][j]
      <4>1. PICK p : p = pos[n - 1]
        OBVIOUS
      <4>2. PICK l : l = Len(ss[n])
        OBVIOUS
      <4>3. n - 1 \in 0..Len(ss) /\ ss[n] \in Seq(T)
        BY <1>0
      <4>4. p \in Nat /\ l \in Nat /\ j \in 1..l
        <5>1. p \in Nat
          BY <2>3, <4>1, <4>3
        <5>2. l \in Nat
          BY <4>2, <4>3
        <5> QED
          BY <4>2, <5>1, <5>2
      <4>5. Len(f[n]) = p + l
        BY <2>4, <2>5, <4>1, <4>2
      <4>6. p + j \in 1..Len(f[n])
        BY <4>4, <4>5
      <4>7. f[Len(ss)][p + j] = f[n][p + j]
        BY <3>2, <4>6
      <4> QED
        BY <2>1, <2>5, <4>1, <4>7
    <3> QED
      BY <2>4, <2>7, <3>1, <3>3
  <2> QED
    BY <2>6, <2>8, <2>9
<1> QED
  BY <1>1, <1>2

-----------------------------------------------------------------------------
(* The serial form of data, and what the parser makes of it. *)

AllTexts == Texts \cup ServerTexts
Formats == Seq([format : 0..3, text : Seq(Letters)])

(* A number is read back as it was written. *)
LEMMA NumberShape ==
  ASSUME NEW n \in Nat
  PROVE  /\ Number(n) \in Seq(Int) /\ Len(Number(n)) = 2
         /\ Base * Number(n)[1] + Number(n)[2] = n
<1>1. PICK b \in Nat \ {0} : b = Base
  BY BaseAssumption
<1>2. n \div b \in Int /\ n % b \in Int /\ b * (n \div b) + (n % b) = n
  OBVIOUS
<1>3. PICK q : q = n \div b
  OBVIOUS
<1>4. PICK r : r = n % b
  OBVIOUS
<1>5. Number(n) = <<q, r>>
  BY <1>1, <1>3, <1>4 DEF Number
<1>6. q \in Int /\ r \in Int /\ b * q + r = n
  BY <1>2, <1>3, <1>4
<1>7. <<q, r>> \in Seq(Int) /\ Len(<<q, r>>) = 2 /\ <<q, r>>[1] = q /\ <<q, r>>[2] = r
  BY <1>6
<1> QED
  BY <1>1, <1>5, <1>6, <1>7

(* A number read in a part of a sequence is the one read in the whole. *)
LEMMA SameNumber ==
  ASSUME NEW s, NEW t, NEW p \in Nat, NEW q \in Nat,
         s[p + 1] = t[q + 1], s[p + 2] = t[q + 2]
  PROVE  NumberAt(s, p) = NumberAt(t, q)
BY DEF NumberAt

Block(f) == Number(f.format) \o Number(Len(f.text)) \o f.text
Blocks(data) == [i \in DOMAIN data |-> Block(data[i])]

LEMMA BlockShape ==
  ASSUME NEW f \in [format : 0..3, text : Seq(Letters)]
  PROVE  /\ Block(f) \in Seq(Int) /\ Len(Block(f)) = 4 + Len(f.text)
         /\ NumberAt(Block(f), 0) = f.format /\ NumberAt(Block(f), 2) = Len(f.text)
         /\ \A j \in 1..Len(f.text) : Block(f)[4 + j] = f.text[j]
<1>1. PICK t : t = f.text
  OBVIOUS
<1>2. t \in Seq(Int) /\ Len(t) \in Nat /\ f.format \in Nat
  <2>1. t \in Seq(Letters)
    BY <1>1
  <2>2. \A u \in Seq(Letters) : u \in Seq(Int)
    BY BaseAssumption DEF Letters
  <2> QED
    BY <2>1, <2>2
<1>3. PICK g : g = Number(f.format)
  OBVIOUS
<1>4. PICK l : l = Number(Len(t))
  OBVIOUS
<1>5. g \in Seq(Int) /\ Len(g) = 2 /\ Base * g[1] + g[2] = f.format
  BY <1>2, <1>3, NumberShape
<1>6. l \in Seq(Int) /\ Len(l) = 2 /\ Base * l[1] + l[2] = Len(t)
  BY <1>2, <1>4, NumberShape
<1>7. PICK h : h = g \o l
  OBVIOUS
<1>8. /\ h \in Seq(Int) /\ Len(h) = 4
      /\ h[1] = g[1] /\ h[2] = g[2] /\ h[3] = l[1] /\ h[4] = l[2]
  <2>1. /\ g \o l \in Seq(Int) /\ Len(g \o l) = Len(g) + Len(l)
        /\ \A i \in 1..Len(g) : (g \o l)[i] = g[i]
        /\ \A i \in 1..Len(l) : (g \o l)[Len(g) + i] = l[i]
    BY <1>5, <1>6, NumbersConcatenated
  <2>2. /\ \A i \in 1..2 : h[i] = g[i]
        /\ \A i \in 1..2 : h[2 + i] = l[i]
        /\ h \in Seq(Int) /\ Len(h) = 4
    BY <1>5, <1>6, <1>7, <2>1
  <2>3. 1 \in 1..2 /\ 2 \in 1..2 /\ 2 + 1 = 3 /\ 2 + 2 = 4
    OBVIOUS
  <2> QED
    BY <2>2, <2>3
<1>9. Block(f) = h \o t
  BY <1>1, <1>3, <1>4, <1>7 DEF Block
<1>10. PICK b : b = h \o t
  OBVIOUS
<1>11. /\ b \in Seq(Int) /\ Len(b) = 4 + Len(t)
       /\ \A i \in 1..4 : b[i] = h[i]
       /\ \A i \in 1..Len(t) : b[4 + i] = t[i]
  <2>1. /\ h \o t \in Seq(Int) /\ Len(h \o t) = Len(h) + Len(t)
        /\ \A i \in 1..Len(h) : (h \o t)[i] = h[i]
        /\ \A i \in 1..Len(t) : (h \o t)[Len(h) + i] = t[i]
    BY <1>2, <1>8, NumbersConcatenated
  <2> QED
    BY <1>8, <1>10, <2>1
<1>12. NumberAt(b, 0) = f.format /\ NumberAt(b, 2) = Len(t)
  <2>1. b[1] = g[1] /\ b[2] = g[2] /\ b[3] = l[1] /\ b[4] = l[2]
    <3>1. 1 \in 1..4 /\ 2 \in 1..4 /\ 3 \in 1..4 /\ 4 \in 1..4
      OBVIOUS
    <3> QED
      BY <1>8, <1>11, <3>1
  <2>2. 0 + 1 = 1 /\ 0 + 2 = 2 /\ 2 + 1 = 3 /\ 2 + 2 = 4
    OBVIOUS
  <2>3. NumberAt(b, 0) = Base * g[1] + g[2] /\ NumberAt(b, 2) = Base * l[1] + l[2]
    BY <2>1, <2>2 DEF NumberAt
  <2> QED
    BY <1>5, <1>6, <2>3
<1> QED
  BY <1>1, <1>9, <1>10, <1>11, <1>12

(* The end of each block in the serial form. *)
Bounds(data, pos) ==
  /\ pos \in [0..Len(data) -> Nat]
  /\ pos[0] = 2
  /\ pos[Len(data)] = Len(Serial(data))
  /\ \A n \in 1..Len(data) :
       /\ pos[n] = pos[n - 1] + 4 + Len(data[n].text)
       /\ pos[n] <= Len(Serial(data))
       /\ NumberAt(Serial(data), pos[n - 1]) = data[n].format
       /\ NumberAt(Serial(data), pos[n - 1] + 2) = Len(data[n].text)
       /\ \A j \in 1..Len(data[n].text) : Serial(data)[pos[n - 1] + 4 + j] = data[n].text[j]

LEMMA SerialShape ==
  ASSUME NEW data \in Formats
  PROVE  /\ Serial(data) \in Seq(Int)
         /\ Len(Serial(data)) \in Nat /\ 2 <= Len(Serial(data))
         /\ NumberAt(Serial(data), 0) = Len(data)
         /\ \E pos : Bounds(data, pos)
<1> DEFINE blocks == Blocks(data)
           flat == FlattenSeq(blocks)
<1>1. Len(data) \in Nat /\ DOMAIN data = 1..Len(data)
  BY DEF Formats
<1>2. \A n \in 1..Len(data) : data[n] \in [format : 0..3, text : Seq(Letters)]
  <2>1. PICK R : R = [format : 0..3, text : Seq(Letters)]
    OBVIOUS
  <2>2. data \in Seq(R)
    BY <2>1 DEF Formats
  <2>3. \A n \in 1..Len(data) : data[n] \in R
    BY <2>2
  <2> QED
    BY <2>1, <2>3
<1>3. blocks \in Seq(Seq(Int)) /\ Len(blocks) = Len(data)
  <2>1. \A n \in 1..Len(data) : Block(data[n]) \in Seq(Int)
    BY <1>2, BlockShape
  <2>2. blocks = [n \in 1..Len(data) |-> Block(data[n])]
    BY <1>1 DEF Blocks
  <2> QED
    BY <1>1, <2>1, <2>2
<1>4. \A n \in 1..Len(data) : blocks[n] = Block(data[n])
  BY <1>1 DEF Blocks
<1>5. Serial(data) = Number(Len(data)) \o flat
  <2>1. blocks = [i \in DOMAIN data |->
                   Number(data[i].format) \o Number(Len(data[i].text)) \o data[i].text]
    BY DEF Blocks, Block
  <2> QED
    BY <2>1 DEF Serial
<1> HIDE DEF blocks, flat
<1>6. PICK ends : /\ Ends(blocks, ends)
                  /\ Len(flat) = ends[Len(data)]
                  /\ \A n \in 1..Len(data) :
                       /\ ends[n] <= ends[Len(data)]
                       /\ \A j \in 1..Len(blocks[n]) : flat[ends[n - 1] + j] = blocks[n][j]
  <2>1. \E pos : /\ Ends(blocks, pos)
                 /\ Len(FlattenSeq(blocks)) = pos[Len(blocks)]
                 /\ \A n \in 1..Len(blocks) :
                      /\ pos[n] <= pos[Len(blocks)]
                      /\ \A j \in 1..Len(blocks[n]) : FlattenSeq(blocks)[pos[n - 1] + j] = blocks[n][j]
    BY <1>3, Pieces
  <2> QED
    BY <1>3, <2>1 DEF flat
<1>7. flat \in Seq(Int)
  BY <1>3, Pieces DEF flat
<1>8. PICK one : one = Number(Len(data))
  OBVIOUS
<1>9. one \in Seq(Int) /\ Len(one) = 2 /\ Base * one[1] + one[2] = Len(data)
  BY <1>1, <1>8, NumberShape
<1>10. /\ Serial(data) \in Seq(Int)
       /\ Len(Serial(data)) = 2 + Len(flat)
       /\ NumberAt(Serial(data), 0) = Len(data)
       /\ \A i \in 1..Len(flat) : Serial(data)[2 + i] = flat[i]
  <2>1. /\ one \o flat \in Seq(Int) /\ Len(one \o flat) = Len(one) + Len(flat)
        /\ \A i \in 1..Len(one) : (one \o flat)[i] = one[i]
        /\ \A i \in 1..Len(flat) : (one \o flat)[Len(one) + i] = flat[i]
    BY <1>7, <1>9, NumbersConcatenated
  <2>2. Serial(data) = one \o flat
    BY <1>5, <1>8
  <2>3. /\ Serial(data) \in Seq(Int) /\ Len(Serial(data)) = 2 + Len(flat)
        /\ \A i \in 1..2 : Serial(data)[i] = one[i]
        /\ \A i \in 1..Len(flat) : Serial(data)[2 + i] = flat[i]
    BY <1>9, <2>1, <2>2
  <2>4. 1 \in 1..2 /\ 2 \in 1..2 /\ 0 + 1 = 1 /\ 0 + 2 = 2
    OBVIOUS
  <2>5. NumberAt(Serial(data), 0) = Base * one[1] + one[2]
    BY <2>3, <2>4 DEF NumberAt
  <2> QED
    BY <1>9, <2>3, <2>5
<1>11. Len(flat) \in Nat
  BY <1>7
<1>12. /\ ends \in [0..Len(data) -> Nat] /\ ends[0] = 0
       /\ \A n \in 1..Len(data) : ends[n] = ends[n - 1] + Len(blocks[n])
  BY <1>3, <1>6 DEF Ends
<1> DEFINE pos == [n \in 0..Len(data) |-> 2 + ends[n]]
<1>13. pos \in [0..Len(data) -> Nat] /\ pos[0] = 2
  BY <1>1, <1>12
<1>14. pos[Len(data)] = Len(Serial(data))
  BY <1>1, <1>6, <1>10
<1>15. ASSUME NEW n \in 1..Len(data)
       PROVE  /\ pos[n] = pos[n - 1] + 4 + Len(data[n].text)
              /\ pos[n] <= Len(Serial(data))
              /\ NumberAt(Serial(data), pos[n - 1]) = data[n].format
              /\ NumberAt(Serial(data), pos[n - 1] + 2) = Len(data[n].text)
              /\ \A j \in 1..Len(data[n].text) : Serial(data)[pos[n - 1] + 4 + j] = data[n].text[j]
  <2>1. n - 1 \in 0..Len(data) /\ n \in 0..Len(data)
    BY <1>1
  <2>2. PICK p : p = ends[n - 1]
    OBVIOUS
  <2>3. PICK b : b = blocks[n]
    OBVIOUS
  <2>4. PICK t : t = data[n].text
    OBVIOUS
  <2>5. p \in Nat /\ pos[n - 1] = 2 + p
    BY <1>12, <2>1, <2>2
  <2>6. t \in Seq(Letters)
    BY <1>2, <2>4
  <2>7. Len(t) \in Nat
    BY <2>6
  <2>8. /\ Len(b) = 4 + Len(t) /\ NumberAt(b, 0) = data[n].format /\ NumberAt(b, 2) = Len(t)
        /\ \A j \in 1..Len(t) : b[4 + j] = t[j]
    BY <1>2, <1>4, <2>3, <2>4, BlockShape
  <2>9. ends[n] = p + Len(b) /\ ends[n] <= Len(flat)
    BY <1>6, <1>12, <2>2, <2>3
  <2>10. pos[n] = 2 + ends[n]
    BY <2>1
  <2> HIDE DEF pos
  <2>11. ASSUME NEW j \in 1..Len(b) PROVE Serial(data)[2 + p + j] = b[j]
    <3>1. flat[p + j] = b[j]
      BY <1>6, <2>2, <2>3
    <3>2. p + j \in 1..Len(flat)
      BY <1>11, <2>5, <2>7, <2>8, <2>9
    <3>3. Serial(data)[2 + (p + j)] = flat[p + j]
      BY <1>10, <3>2
    <3>4. 2 + (p + j) = 2 + p + j
      BY <2>5
    <3> QED
      BY <3>1, <3>3, <3>4
  <2>12. /\ 0 + 1 \in 1..Len(b) /\ 0 + 2 \in 1..Len(b) /\ 2 + 1 \in 1..Len(b) /\ 2 + 2 \in 1..Len(b)
         /\ \A j \in 1..Len(t) : 4 + j \in 1..Len(b)
    BY <2>7, <2>8
  <2>13. NumberAt(Serial(data), pos[n - 1]) = data[n].format
    <3>1. pos[n - 1] \in Nat /\ pos[n - 1] + 1 = 2 + p + (0 + 1) /\ pos[n - 1] + 2 = 2 + p + (0 + 2)
      BY <2>5
    <3>2. Serial(data)[pos[n - 1] + 1] = b[0 + 1] /\ Serial(data)[pos[n - 1] + 2] = b[0 + 2]
      BY <2>11, <2>12, <3>1
    <3>3. NumberAt(Serial(data), pos[n - 1]) = NumberAt(b, 0)
      BY <3>1, <3>2, SameNumber
    <3> QED
      BY <2>8, <3>3
  <2>16. NumberAt(Serial(data), pos[n - 1] + 2) = Len(t)
    <3>1. PICK q \in Nat : q = pos[n - 1] + 2
      BY <2>5
    <3>2. q + 1 = 2 + p + (2 + 1) /\ q + 2 = 2 + p + (2 + 2)
      BY <2>5, <3>1
    <3>3. Serial(data)[q + 1] = b[2 + 1] /\ Serial(data)[q + 2] = b[2 + 2]
      BY <2>11, <2>12, <3>2
    <3>4. NumberAt(Serial(data), q) = NumberAt(b, 2)
      BY <3>3, SameNumber
    <3> QED
      BY <2>8, <3>1, <3>4
  <2>14. ASSUME NEW j \in 1..Len(t) PROVE Serial(data)[pos[n - 1] + 4 + j] = t[j]
    <3>1. Serial(data)[2 + p + (4 + j)] = b[4 + j]
      BY <2>11, <2>12
    <3>2. 2 + p + (4 + j) = pos[n - 1] + 4 + j
      BY <2>5, <2>7
    <3> QED
      BY <2>8, <3>1, <3>2
  <2>15. pos[n] = pos[n - 1] + 4 + Len(t) /\ pos[n] <= Len(Serial(data))
    BY <1>10, <1>11, <2>5, <2>7, <2>8, <2>9, <2>10
  <2> QED
    BY <2>4, <2>13, <2>14, <2>15, <2>16
<1> HIDE DEF pos
<1>16. Bounds(data, pos)
  BY <1>13, <1>14, <1>15 DEF Bounds
<1> QED
  BY <1>10, <1>11, <1>16

LEMMA Segment ==
  ASSUME NEW buf \in Seq(Int), NEW p \in Nat, NEW t \in Seq(Int), p + Len(t) <= Len(buf),
         \A j \in 1..Len(t) : buf[p + j] = t[j]
  PROVE  SubSeq(buf, p + 1, p + Len(t)) = t
<1>1. Len(t) \in Nat /\ Len(buf) \in Nat
  OBVIOUS
<1>2. PICK u : u = SubSeq(buf, p + 1, p + Len(t))
  OBVIOUS
<1>3. /\ u \in Seq(Int) /\ Len(u) = Len(t)
      /\ \A j \in 1..Len(t) : u[j] = buf[p + j]
  <2>1. PICK I : I = Int
    OBVIOUS
  <2>2. PICK m : m = p + 1
    OBVIOUS
  <2>3. PICK n : n = p + Len(t)
    OBVIOUS
  <2>4. n - m + 1 = Len(t)
    BY <1>1, <2>2, <2>3
  <2>5. /\ SubSeq(buf, m, n) \in Seq(I) /\ Len(SubSeq(buf, m, n)) = n - m + 1
        /\ \A i \in 1..n - m + 1 : SubSeq(buf, m, n)[i] = buf[m + i - 1]
    <3>1. m \in Int /\ n \in Int
      BY <1>1, <2>2, <2>3
    <3>2. \A i \in m..n : i \in 1..Len(buf)
      BY <1>1, <2>2, <2>3
    <3>3. \A i \in 1..Len(buf) : buf[i] \in I
      BY <2>1
    <3>4. \A i \in m..n : buf[i] \in I
      BY <3>2, <3>3
    <3>5. /\ SubSeq(buf, m, n) \in Seq(I)
          /\ Len(SubSeq(buf, m, n)) = IF m <= n THEN n - m + 1 ELSE 0
          /\ \A i \in 1..n - m + 1 : SubSeq(buf, m, n)[i] = buf[m + i - 1]
      BY <3>1, <3>4, SubSeqProperties
    <3>6. ~(m <= n) => n - m + 1 = 0
      BY <1>1, <2>2, <2>3
    <3> QED
      BY <3>5, <3>6
  <2>6. \A i \in 1..Len(t) : m + i - 1 = p + i
    BY <1>1, <2>2
  <2> QED
    BY <1>2, <2>1, <2>2, <2>3, <2>4, <2>5, <2>6
<1>4. \A j \in 1..Len(t) : u[j] = t[j]
  BY <1>3
<1> QED
  BY <1>1, <1>2, <1>3, <1>4

LEMMA ParsesSerial ==
  ASSUME NEW data \in Formats, NEW buf \in Seq(Int), Len(Serial(data)) <= Len(buf),
         \A i \in 1..Len(Serial(data)) : buf[i] = Serial(data)[i]
  PROVE  Parsed(buf, Len(Serial(data))) = [ok |-> TRUE, texts |-> TextsOf(data)]
<1>1. PICK limit : limit = Len(Serial(data))
  OBVIOUS
<1>2. /\ limit \in Nat /\ 2 <= limit /\ NumberAt(Serial(data), 0) = Len(data)
      /\ Len(data) \in Nat /\ Len(buf) \in Nat
  <2>1. Len(data) \in Nat
    BY DEF Formats
  <2> QED
    BY <1>1, <2>1, SerialShape
<1>3. PICK count : count = NumberAt(buf, 0)
  OBVIOUS
<1>17. count = Len(data)
  <2>1. 0 + 1 \in 1..limit /\ 0 + 2 \in 1..limit
    BY <1>2
  <2>2. buf[0 + 1] = Serial(data)[0 + 1] /\ buf[0 + 2] = Serial(data)[0 + 2]
    BY <1>1, <2>1
  <2>3. NumberAt(buf, 0) = NumberAt(Serial(data), 0)
    BY <2>2, SameNumber
  <2> QED
    BY <1>2, <1>3, <2>3
<1>4. PICK pos : Bounds(data, pos)
  BY SerialShape
<1>5. \A n \in 1..Len(data) : data[n].text \in Seq(Int) /\ Len(data[n].text) \in Nat
  <2>1. PICK R : R = [format : 0..3, text : Seq(Letters)]
    OBVIOUS
  <2>2. data \in Seq(R)
    BY <2>1 DEF Formats
  <2>3. \A n \in 1..Len(data) : data[n] \in R
    BY <2>2
  <2>4. \A n \in 1..Len(data) : data[n].text \in Seq(Letters)
    BY <2>1, <2>3
  <2>5. \A t \in Seq(Letters) : t \in Seq(Int) /\ Len(t) \in Nat
    BY BaseAssumption DEF Letters
  <2> QED
    BY <2>4, <2>5
<1>6. pos \in [0..Len(data) -> Nat] /\ pos[0] = 2
  BY <1>4 DEF Bounds
<1>7. ASSUME NEW n \in 1..Len(data)
      PROVE  /\ pos[n - 1] \in Nat /\ pos[n] \in Nat
             /\ pos[n] = pos[n - 1] + 4 + Len(data[n].text)
             /\ pos[n] <= limit
             /\ ~(pos[n - 1] + 4 > limit)
             /\ NumberAt(buf, pos[n - 1]) = data[n].format
             /\ NumberAt(buf, pos[n - 1] + 2) = Len(data[n].text)
             /\ SubSeq(buf, pos[n - 1] + 5, pos[n]) = data[n].text
  <2>1. n - 1 \in 0..Len(data) /\ n \in 0..Len(data)
    BY <1>2
  <2>2. PICK p : p = pos[n - 1]
    OBVIOUS
  <2>3. PICK t : t = data[n].text
    OBVIOUS
  <2>4. p \in Nat /\ pos[n] \in Nat
    BY <1>6, <2>1, <2>2
  <2>5. t \in Seq(Int) /\ Len(t) \in Nat
    BY <1>5, <2>3
  <2>6. /\ pos[n] = p + 4 + Len(t) /\ pos[n] <= limit
        /\ NumberAt(Serial(data), p) = data[n].format
        /\ NumberAt(Serial(data), p + 2) = Len(t)
        /\ \A j \in 1..Len(t) : Serial(data)[p + 4 + j] = t[j]
    BY <1>1, <1>4, <2>2, <2>3 DEF Bounds
  <2>7. \A j \in 1..4 + Len(t) : p + j \in 1..limit
    <3>1. p + 4 + Len(t) <= limit
      BY <2>6
    <3> QED
      BY <1>2, <2>4, <2>5, <3>1
  <2>14. \A j \in 1..4 + Len(t) : buf[p + j] = Serial(data)[p + j]
    BY <1>1, <2>7
  <2>8. NumberAt(buf, p) = data[n].format /\ NumberAt(buf, p + 2) = Len(t)
    <3>1. /\ 1 \in 1..4 + Len(t) /\ 2 \in 1..4 + Len(t) /\ 3 \in 1..4 + Len(t) /\ 4 \in 1..4 + Len(t)
          /\ (p + 2) + 1 = p + 3 /\ (p + 2) + 2 = p + 4 /\ p + 2 \in Nat
      BY <2>4, <2>5
    <3>2. NumberAt(buf, p) = NumberAt(Serial(data), p)
      BY <2>4, <2>14, <3>1, SameNumber
    <3>3. PICK q \in Nat : q = p + 2
      BY <3>1
    <3>4. buf[q + 1] = Serial(data)[q + 1] /\ buf[q + 2] = Serial(data)[q + 2]
      BY <2>14, <3>1, <3>3
    <3>5. NumberAt(buf, q) = NumberAt(Serial(data), q)
      BY <3>4, SameNumber
    <3> QED
      BY <2>6, <3>2, <3>3, <3>5
  <2>9. \A j \in 1..Len(t) : buf[(p + 4) + j] = t[j]
    <3> SUFFICES ASSUME NEW j \in 1..Len(t) PROVE buf[(p + 4) + j] = t[j]
      OBVIOUS
    <3>1. 4 + j \in 1..4 + Len(t) /\ p + (4 + j) = (p + 4) + j
      BY <2>4, <2>5
    <3> QED
      BY <2>6, <2>14, <3>1
  <2>10. p + 4 \in Nat /\ (p + 4) + Len(t) <= Len(buf)
    <3>1. p + 4 + Len(t) <= limit
      BY <2>6
    <3> QED
      BY <1>1, <1>2, <2>4, <2>5, <3>1
  <2>11. SubSeq(buf, (p + 4) + 1, (p + 4) + Len(t)) = t
    BY <2>5, <2>9, <2>10, Segment
  <2>12. (p + 4) + 1 = p + 5 /\ (p + 4) + Len(t) = pos[n]
    BY <2>4, <2>5, <2>6
  <2>13. ~(p + 4 > limit)
    BY <1>2, <2>4, <2>5, <2>6
  <2> QED
    BY <2>2, <2>3, <2>4, <2>6, <2>8, <2>11, <2>12, <2>13
<1> DEFINE Next1(f, n) == IF n = 0 THEN 2
                          ELSE IF f[n - 1] + 4 > limit THEN limit + 1
                          ELSE f[n - 1] + 4 + NumberAt(buf, f[n - 1] + 2)
<1>8. PICK f : f = CHOOSE after : after = [n \in 0..count |->
                     IF n = 0 THEN 2
                     ELSE IF after[n - 1] + 4 > limit THEN limit + 1
                     ELSE after[n - 1] + 4 + NumberAt(buf, after[n - 1] + 2)]
  OBVIOUS
<1>9. Parsed(buf, limit) =
        [ok |-> \A n \in 1..count : f[n] <= limit,
         texts |-> FlattenSeq([n \in 1..count |->
           IF f[n] <= limit /\ NumberAt(buf, f[n - 1]) = TextFormat
           THEN <<SubSeq(buf, f[n - 1] + 5, f[n])>> ELSE <<>>])]
  BY <1>3, <1>8 DEF Parsed
<1>10. pos = [n \in 0..count |-> Next1(pos, n)]
  <2>1. ASSUME NEW n \in 0..count PROVE pos[n] = Next1(pos, n)
    <3>1. CASE n = 0
      BY <1>6, <3>1
    <3>2. CASE n # 0
      <4>1. n \in 1..Len(data)
        BY <1>2, <1>17, <3>2
      <4> QED
        BY <1>7, <3>2, <4>1
    <3> QED
      BY <3>1, <3>2
  <2> HIDE DEF Next1
  <2> QED
    BY <1>6, <1>17, <2>1
<1>11. f = [n \in 0..count |-> Next1(f, n)]
  BY <1>8, <1>10
<1>12. \A n \in 0..Len(data) : f[n] = pos[n]
  <2> DEFINE S == {n \in Nat : n \in 0..Len(data) => f[n] = pos[n]}
  <2> HIDE DEF Next1
  <2>1. \A n \in 0..Len(data) : f[n] = Next1(f, n) /\ pos[n] = Next1(pos, n)
    BY <1>10, <1>11, <1>17, Zenon
  <2>2. 0 \in S
    BY <1>2, <2>1 DEF Next1
  <2>3. ASSUME NEW n \in Nat, n \in S PROVE n + 1 \in S
    <3> SUFFICES ASSUME n + 1 \in 0..Len(data) PROVE f[n + 1] = pos[n + 1]
      OBVIOUS
    <3>1. n \in 0..Len(data) /\ (n + 1) - 1 = n
      <4>1. n + 1 <= Len(data)
        BY <1>2
      <4> QED
        BY <1>2, <4>1
    <3>2. f[n] = pos[n]
      BY <2>3, <3>1
    <3>3. Next1(f, n + 1) = Next1(pos, n + 1)
      BY <3>1, <3>2 DEF Next1
    <3> QED
      BY <2>1, <3>3
  <2> HIDE DEF S
  <2>4. \A n \in Nat : n \in S
    BY <2>2, <2>3, Induction
  <2> QED
    BY <1>2, <2>4 DEF S
<1> HIDE DEF Next1
<1>13. \A n \in 1..Len(data) : f[n] = pos[n] /\ f[n - 1] = pos[n - 1]
  BY <1>2, <1>12
<1>14. \A n \in 1..count : f[n] <= limit
  BY <1>7, <1>13, <1>17
<1>15. [n \in 1..count |->
          IF f[n] <= limit /\ NumberAt(buf, f[n - 1]) = TextFormat
          THEN <<SubSeq(buf, f[n - 1] + 5, f[n])>> ELSE <<>>]
       = [n \in DOMAIN data |->
           IF data[n].format = TextFormat THEN <<data[n].text>> ELSE <<>>]
  <2>1. DOMAIN data = 1..count
    BY <1>17 DEF Formats
  <2>2. ASSUME NEW n \in 1..count
        PROVE  (IF f[n] <= limit /\ NumberAt(buf, f[n - 1]) = TextFormat
                THEN <<SubSeq(buf, f[n - 1] + 5, f[n])>> ELSE <<>>)
               = (IF data[n].format = TextFormat THEN <<data[n].text>> ELSE <<>>)
    <3>1. n \in 1..Len(data)
      BY <1>17
    <3>2. /\ f[n] <= limit /\ NumberAt(buf, f[n - 1]) = data[n].format
          /\ SubSeq(buf, f[n - 1] + 5, f[n]) = data[n].text
      BY <1>7, <1>13, <3>1
    <3> QED
      BY <3>2
  <2> QED
    BY <2>1, <2>2, Zenon
<1>16. (\A n \in 1..count : f[n] <= limit) = TRUE
  BY <1>14
<1> QED
  BY <1>1, <1>9, <1>15, <1>16 DEF TextsOf

-----------------------------------------------------------------------------
(* Texts and buffers. *)

LEMMA TextsAreLetters ==
  /\ ServerData \subseteq Formats
  /\ AllTexts \subseteq Seq(Letters)
<1>1. ServerData \subseteq Formats
  BY DataAssumption DEF Formats
<1>2. ASSUME NEW t \in ServerTexts PROVE t \in Seq(Letters)
  <2>1. PICK d \in ServerData : \E i \in DOMAIN d : t = d[i].text
    BY <1>2 DEF ServerTexts, ToSet
  <2>2. PICK R : R = [format : 0..3, text : Seq(Letters)]
    OBVIOUS
  <2>3. d \in Seq(R)
    BY <1>1, <2>1, <2>2 DEF Formats
  <2>4. \A i \in DOMAIN d : d[i] \in R
    BY <2>3
  <2> QED
    BY <2>1, <2>2, <2>4
<1>3. Texts \subseteq Seq(Letters)
  BY TextsAssumption
<1> QED
  BY <1>1, <1>2, <1>3 DEF AllTexts

LEMMA TextsOfData == ASSUME NEW data \in ServerData PROVE TextsOf(data) \in Seq(AllTexts)
<1> DEFINE Given(i) == IF data[i].format = TextFormat THEN <<data[i].text>> ELSE <<>>
<1>1. Len(data) \in Nat /\ DOMAIN data = 1..Len(data)
  BY TextsAreLetters DEF Formats
<1>2. ASSUME NEW i \in 1..Len(data) PROVE Given(i) \in Seq(AllTexts)
  <2>1. CASE data[i].format = TextFormat
    <3>1. data[i].text \in ServerTexts
      BY <1>1, <2>1 DEF ServerTexts, ToSet
    <3>2. Given(i) = <<data[i].text>>
      BY <2>1
    <3>3. PICK x : x = data[i].text
      OBVIOUS
    <3>4. x \in AllTexts
      BY <3>1, <3>3 DEF AllTexts
    <3>5. <<x>> \in Seq(AllTexts)
      BY <3>4
    <3> QED
      BY <3>2, <3>3, <3>5
  <2>2. CASE data[i].format # TextFormat
    <3>1. Given(i) = <<>>
      BY <2>2
    <3> QED
      BY <3>1
  <2> QED
    BY <2>1, <2>2
<1>3. PICK ss : ss = [i \in 1..Len(data) |-> Given(i)]
  OBVIOUS
<1>4. TextsOf(data) = FlattenSeq(ss)
  BY <1>1, <1>3 DEF TextsOf
<1> HIDE DEF Given
<1>5. ss \in Seq(Seq(AllTexts))
  BY <1>1, <1>2, <1>3
<1> QED
  BY <1>4, <1>5, Pieces

(* The serial form begins with the first header and the first text. *)
LEMMA FirstText ==
  ASSUME NEW data \in Formats, data # <<>>
  PROVE  /\ data[1].text \in Seq(Int) /\ Len(data[1].text) \in Nat
         /\ 6 + Len(data[1].text) <= Len(Serial(data))
         /\ Len(data) = 1 => Len(Serial(data)) = 6 + Len(data[1].text)
         /\ NumberAt(Serial(data), 4) = Len(data[1].text)
         /\ \A j \in 1..Len(data[1].text) : Serial(data)[6 + j] = data[1].text[j]
<1>1. Len(data) \in Nat /\ 1 \in 1..Len(data) /\ 1 - 1 = 0
  BY DEF Formats
<1>2. PICK t : t = data[1].text
  OBVIOUS
<1>3. t \in Seq(Letters)
  <2>1. PICK R : R = [format : 0..3, text : Seq(Letters)]
    OBVIOUS
  <2>2. data \in Seq(R)
    BY <2>1 DEF Formats
  <2>3. data[1] \in R
    BY <1>1, <2>2
  <2> QED
    BY <1>2, <2>1, <2>3
<1>4. t \in Seq(Int) /\ Len(t) \in Nat
  <2>1. \A u \in Seq(Letters) : u \in Seq(Int) /\ Len(u) \in Nat
    BY BaseAssumption DEF Letters
  <2> QED
    BY <1>3, <2>1
<1>5. PICK pos : Bounds(data, pos)
  BY SerialShape
<1>6. pos[0] = 2 /\ pos[Len(data)] = Len(Serial(data))
  BY <1>5 DEF Bounds
<1>7. /\ pos[1] = pos[0] + 4 + Len(t)
      /\ pos[1] <= Len(Serial(data))
      /\ NumberAt(Serial(data), pos[0] + 2) = Len(t)
      /\ \A j \in 1..Len(t) : Serial(data)[pos[0] + 4 + j] = t[j]
  BY <1>1, <1>2, <1>5 DEF Bounds
<1>8. pos[0] + 2 = 4 /\ pos[0] + 4 = 6
  BY <1>6
<1> QED
  BY <1>2, <1>4, <1>6, <1>7, <1>8

LEMMA LocalShape ==
  ASSUME NEW text \in AllTexts
  PROVE  /\ Serial(LocalData(text)) \in Seq(Int)
         /\ Len(text) \in Nat
         /\ Len(Serial(LocalData(text))) = Len(text) + DataAt(1)
         /\ LocalData(text) \in Formats /\ LocalData(text) # <<>>
<1>1. PICK data : data = LocalData(text)
  OBVIOUS
<1>2. text \in Seq(Letters)
  BY TextsAreLetters
<1>3. Len(text) \in Nat
  BY <1>2
<1>4. Len(data) = 1 /\ data[1].text = text /\ data # <<>>
  BY <1>1 DEF LocalData
<1>5. data \in Formats
  <2>1. PICK R : R = [format : 0..3, text : Seq(Letters)]
    OBVIOUS
  <2>2. [format |-> TextFormat, text |-> text] \in R
    BY <1>2, <2>1 DEF TextFormat
  <2>3. data \in Seq(R)
    BY <1>1, <2>2 DEF LocalData
  <2> QED
    BY <2>1, <2>3 DEF Formats
<1>6. Serial(data) \in Seq(Int)
  BY <1>5, SerialShape
<1>7. Len(Serial(data)) = 6 + Len(text)
  BY <1>4, <1>5, FirstText
<1>8. 6 + Len(text) = Len(text) + DataAt(1)
  BY <1>3 DEF DataAt
<1> QED
  BY <1>1, <1>3, <1>4, <1>5, <1>6, <1>7, <1>8

LEMMA WriteShape ==
  ASSUME NEW buf \in Seq(Int), NEW pos \in Nat, NEW cells \in Seq(Int)
  PROVE  /\ Write(buf, pos, cells) \in Seq(Int)
         /\ Len(Write(buf, pos, cells)) = Len(buf)
         /\ \A i \in 1..Len(buf) : Write(buf, pos, cells)[i] =
              IF i \in pos + 1..pos + Len(cells) THEN cells[i - pos] ELSE buf[i]
<1> DEFINE W(i) == IF i \in pos + 1..pos + Len(cells) THEN cells[i - pos] ELSE buf[i]
<1>1. Len(buf) \in Nat /\ Len(cells) \in Nat /\ DOMAIN buf = 1..Len(buf)
  OBVIOUS
<1>2. Write(buf, pos, cells) = [i \in 1..Len(buf) |-> W(i)]
  BY <1>1 DEF Write
<1>3. ASSUME NEW i \in 1..Len(buf) PROVE W(i) \in Int
  <2>1. CASE i \in pos + 1..pos + Len(cells)
    <3>1. i - pos \in 1..Len(cells)
      BY <1>1, <2>1
    <3> QED
      BY <2>1, <3>1
  <2>2. CASE i \notin pos + 1..pos + Len(cells)
    BY <2>2
  <2> QED
    BY <2>1, <2>2
<1> HIDE DEF W
<1>4. Write(buf, pos, cells) \in Seq(Int) /\ Len(Write(buf, pos, cells)) = Len(buf)
  BY <1>1, <1>2, <1>3
<1>5. \A i \in 1..Len(buf) : Write(buf, pos, cells)[i] = W(i)
  BY <1>2
<1> QED
  BY <1>4, <1>5 DEF W

LEMMA ReallocShape ==
  ASSUME NEW buf \in Seq(Int), NEW n \in Nat
  PROVE  Realloc(buf, n) \in Seq(Int) /\ Len(Realloc(buf, n)) = n
<1>1. \A i \in 1..n : (IF i <= Len(buf) THEN buf[i] ELSE Junk) \in Int
  BY DEF Junk
<1> QED
  BY <1>1 DEF Realloc

LEMMA Removed ==
  ASSUME NEW T, NEW s \in Seq(T), NEW n \in 1..Len(s)
  PROVE  RemoveAt(s, n) \in Seq(T) /\ Len(RemoveAt(s, n)) = Len(s) - 1
<1>1. Len(s) \in Nat
  OBVIOUS
<1>2. PICK u : u = SubSeq(s, 1, n - 1)
  OBVIOUS
<1>3. PICK v : v = SubSeq(s, n + 1, Len(s))
  OBVIOUS
<1>4. \A i \in 1..Len(s) : s[i] \in T
  OBVIOUS
<1>5. u \in Seq(T) /\ Len(u) = n - 1
  <2>1. 1 \in Int /\ n - 1 \in Int /\ \A i \in 1..n - 1 : i \in 1..Len(s)
    BY <1>1
  <2>2. SubSeq(s, 1, n - 1) \in Seq(T)
    BY <1>4, <2>1, SubSeqProperties
  <2>3. Len(SubSeq(s, 1, n - 1)) = IF 1 <= n - 1 THEN (n - 1) - 1 + 1 ELSE 0
    BY <1>4, <2>1, SubSeqProperties
  <2> QED
    BY <1>1, <1>2, <2>2, <2>3
<1>6. v \in Seq(T) /\ Len(v) = Len(s) - n
  <2>1. n + 1 \in Int /\ Len(s) \in Int /\ \A i \in n + 1..Len(s) : i \in 1..Len(s)
    BY <1>1
  <2>2. SubSeq(s, n + 1, Len(s)) \in Seq(T)
    BY <1>4, <2>1, SubSeqProperties
  <2>3. Len(SubSeq(s, n + 1, Len(s))) = IF n + 1 <= Len(s) THEN Len(s) - (n + 1) + 1 ELSE 0
    BY <1>4, <2>1, SubSeqProperties
  <2> QED
    BY <1>1, <1>3, <2>2, <2>3
<1>7. RemoveAt(s, n) = u \o v
  BY <1>2, <1>3 DEF RemoveAt
<1>8. u \o v \in Seq(T) /\ Len(u \o v) = Len(u) + Len(v)
  BY <1>5, <1>6, Concatenated
<1> QED
  BY <1>1, <1>5, <1>6, <1>7, <1>8

-----------------------------------------------------------------------------
(* The inductive invariant. *)

(* While a stream is open what has come of it is in the buffer, and the rest *)
(* is still to come.                                                         *)
Streaming(id) ==
  /\ stream[id] = NoStream \/ stream[id].data \in ServerData
  /\ clipInStream[id] /\ stream[id] # NoStream =>
       /\ clipPosExpect[id] = Len(Serial(stream[id].data))
       /\ Len(stream[id].left) = clipPosExpect[id] - clipPos[id]
       /\ \A i \in 1..Len(stream[id].left) :
            stream[id].left[i] = Serial(stream[id].data)[clipPos[id] + i]
       /\ \A i \in 1..clipPos[id] : clipBuf[id][i] = Serial(stream[id].data)[i]

(* A clipboard that is grabbed was filled from the desktop. *)
Kept(id) ==
  /\ clipGrabbed[id] => got[id].local
  /\ got[id].local =>
       /\ \E text \in AllTexts : got[id].data = LocalData(text)
       /\ clipPos[id] = Len(Serial(got[id].data))
       /\ clipPos[id] <= clipLen[id]

(* What the buffer was filled with last is there, and no stream is open; and *)
(* without a stream only a buffer that is not measured was never filled.     *)
Filled(id) ==
  /\ got[id].data # <<>> =>
       /\ ~clipInStream[id]
       /\ got[id].data \in Formats
       /\ Len(Serial(got[id].data)) <= Len(clipBuf[id])
       /\ \A i \in 1..Len(Serial(got[id].data)) : clipBuf[id][i] = Serial(got[id].data)[i]
  /\ got[id].data = <<>> => clipInStream[id] \/ clipLen[id] = 0

Inside(id) ==
  /\ clipLen[id] <= Len(clipBuf[id])
  /\ clipInStream[id] => /\ clipPosExpect[id] <= Len(clipBuf[id])
                         /\ clipPos[id] <= clipPosExpect[id]

Good(id) == Inside(id) /\ Streaming(id) /\ Kept(id) /\ Filled(id)
IInv == TypeOK /\ \A id \in Ids : Good(id)

LEMMA Typed ==
  ASSUME TypeOK, NEW id \in Ids
  PROVE  /\ clipBuf[id] \in Seq(Int) /\ clipLen[id] \in Nat
         /\ clipPos[id] \in Nat /\ clipPosExpect[id] \in Nat
         /\ clipInStream[id] \in BOOLEAN /\ clipGrabbed[id] \in BOOLEAN
         /\ stream[id] \in [data : ServerData \cup {<<>>}, left : Seq(Int)]
         /\ stream[id].data \in ServerData \cup {<<>>} /\ stream[id].left \in Seq(Int)
         /\ updaters[id] \in Seq(AllTexts) /\ copiers[id] \in Seq(AllTexts)
         /\ Len(updaters[id]) \in Nat /\ Len(copiers[id]) \in Nat
         /\ Len(updaters[id]) + Len(copiers[id]) <= MaxPending
<1>1. /\ clipBuf[id] \in Seq(Int) /\ clipLen[id] \in Nat
      /\ clipPos[id] \in Nat /\ clipPosExpect[id] \in Nat
      /\ clipInStream[id] \in BOOLEAN /\ clipGrabbed[id] \in BOOLEAN
  BY DEF TypeOK
<1>2. stream[id] \in [data : ServerData \cup {<<>>}, left : Seq(Int)]
  BY DEF TypeOK
<1>3. updaters[id] \in Seq(AllTexts) /\ copiers[id] \in Seq(AllTexts)
  BY DEF TypeOK, AllTexts
<1>4. Len(updaters[id]) + Len(copiers[id]) <= MaxPending
  BY DEF TypeOK
<1>5. stream[id].data \in ServerData \cup {<<>>} /\ stream[id].left \in Seq(Int)
  BY <1>2
<1>6. Len(updaters[id]) \in Nat /\ Len(copiers[id]) \in Nat
  BY <1>3
<1> QED
  BY <1>1, <1>2, <1>3, <1>4, <1>5, <1>6

(* A step leaves a clipboard good if it does not touch it. *)
LEMMA Untouched ==
  ASSUME NEW id \in Ids, Good(id),
         clipBuf'[id] = clipBuf[id], clipLen'[id] = clipLen[id],
         clipPos'[id] = clipPos[id], clipPosExpect'[id] = clipPosExpect[id],
         clipInStream'[id] = clipInStream[id], clipGrabbed'[id] = clipGrabbed[id],
         stream'[id] = stream[id], got'[id] = got[id]
  PROVE  Good(id)'
<1>1. Inside(id)'
  BY DEF Good, Inside
<1>2. Streaming(id)'
  BY DEF Good, Streaming
<1>3. Kept(id)'
  BY DEF Good, Kept
<1>4. Filled(id)'
  BY DEF Good, Filled
<1> QED
  BY <1>1, <1>2, <1>3, <1>4 DEF Good

(* The clipboard of the buffer that changes, and the others. *)
LEMMA OneClipboard ==
  ASSUME IInv, NEW id \in Ids, Good(id)',
         \A j \in Ids \ {id} :
           /\ clipBuf'[j] = clipBuf[j] /\ clipLen'[j] = clipLen[j]
           /\ clipPos'[j] = clipPos[j] /\ clipPosExpect'[j] = clipPosExpect[j]
           /\ clipInStream'[j] = clipInStream[j] /\ clipGrabbed'[j] = clipGrabbed[j]
           /\ stream'[j] = stream[j] /\ got'[j] = got[j]
  PROVE  \A j \in Ids : Good(j)'
<1>1. ASSUME NEW j \in Ids \ {id} PROVE Good(j)'
  <2>1. Good(j)
    BY DEF IInv
  <2> QED
    BY <2>1, Untouched
<1> QED
  BY <1>1

LEMMA InvInit == Init => IInv
<1> SUFFICES ASSUME Init PROVE IInv
  OBVIOUS
<1> USE DEF Init
<1>1. TypeOK
  <2>1. clipBuf \in [Ids -> Seq(Int)] /\ clipLen \in [Ids -> Nat]
    OBVIOUS
  <2>2. clipPos \in [Ids -> Nat] /\ clipPosExpect \in [Ids -> Nat]
    OBVIOUS
  <2>3. clipInStream \in [Ids -> BOOLEAN] /\ clipGrabbed \in [Ids -> BOOLEAN]
    OBVIOUS
  <2>4. stream \in [Ids -> [data : ServerData \cup {<<>>}, left : Seq(Int)]]
    <3>1. <<>> \in Seq(Int)
      OBVIOUS
    <3>2. NoStream \in [data : ServerData \cup {<<>>}, left : Seq(Int)]
      BY <3>1 DEF NoStream
    <3> QED
      BY <3>2
  <2>5. <<>> \in Seq(Texts \cup ServerTexts)
    OBVIOUS
  <2>6. updaters \in [Ids -> Seq(Texts \cup ServerTexts)]
    BY <2>5
  <2>7. copiers \in [Ids -> Seq(Texts \cup ServerTexts)]
    BY <2>5
  <2>8. \A id \in Ids : Len(updaters[id]) + Len(copiers[id]) <= MaxPending
    BY BoundsAssumption
  <2>9. got \in [Ids -> [local : BOOLEAN, data : ServerData \cup {<<>>} \cup
                        {LocalData(text) : text \in Texts \cup ServerTexts}]]
    BY DEF From
  <2>10. grabs \in [Ids -> 0..1]
    OBVIOUS
  <2> QED
    BY <2>1, <2>2, <2>3, <2>4, <2>6, <2>7, <2>8, <2>9, <2>10 DEF TypeOK
<1>2. ASSUME NEW id \in Ids PROVE Good(id)
  <2>1. Inside(id) /\ Streaming(id)
    BY DEF Inside, Streaming, NoStream
  <2>2. got[id].local = FALSE /\ got[id].data = <<>> /\ clipGrabbed[id] = FALSE /\ clipLen[id] = 0
    BY DEF From
  <2> QED
    BY <2>1, <2>2 DEF Good, Kept, Filled
<1> QED
  BY <1>1, <1>2 DEF IInv

-----------------------------------------------------------------------------
(* Packets. *)

LEMMA StartStep == ASSUME IInv, NEW id \in Ids, ClipStart(id) PROVE IInv'
<1>1. PICK data \in ServerData :
        /\ OpenStream(id, data)
        /\ clipBuf' = Enlarged(id, Len(Serial(data)), clipLen[id])
  BY DEF ClipStart
<1>2. clipGrabbed' = [clipGrabbed EXCEPT ![id] = FALSE]
  BY DEF ClipStart
<1>3. PICK s : s = Serial(data)
  OBVIOUS
<1>4. s \in Seq(Int) /\ Len(s) \in Nat
  BY <1>3, TextsAreLetters, SerialShape
<1>5. TypeOK /\ Good(id)
  BY DEF IInv
<1>6. clipBuf[id] \in Seq(Int) /\ clipLen[id] \in Nat /\ clipLen[id] <= Len(clipBuf[id])
  BY <1>5, Typed DEF Good, Inside
<1>7. PICK buf : buf = IF Len(s) > clipLen[id] THEN Realloc(clipBuf[id], Len(s)) ELSE clipBuf[id]
  OBVIOUS
<1>8. buf \in Seq(Int) /\ Len(s) <= Len(buf) /\ clipLen[id] <= Len(buf)
  <2>1. Realloc(clipBuf[id], Len(s)) \in Seq(Int) /\ Len(Realloc(clipBuf[id], Len(s))) = Len(s)
    BY <1>4, <1>6, ReallocShape
  <2> QED
    BY <1>4, <1>6, <1>7, <2>1
<1>9. clipBuf \in [Ids -> Seq(Int)]
  BY <1>5 DEF TypeOK
<1>10. clipBuf' = [clipBuf EXCEPT ![id] = buf]
  <2>1. [clipBuf EXCEPT ![id] = clipBuf[id]] = clipBuf
    BY <1>9
  <2> QED
    BY <1>1, <1>3, <1>7, <2>1 DEF Enlarged
<1>11. /\ stream' = [stream EXCEPT ![id] = [data |-> data, left |-> s]]
       /\ clipPosExpect' = [clipPosExpect EXCEPT ![id] = Len(s)]
       /\ clipInStream' = [clipInStream EXCEPT ![id] = TRUE]
       /\ clipPos' = [clipPos EXCEPT ![id] = 0]
       /\ got' = [got EXCEPT ![id] = From(FALSE, <<>>)]
       /\ UNCHANGED <<clipLen, updaters, copiers, grabs>>
  BY <1>1, <1>3 DEF OpenStream
<1>12. TypeOK'
  <2>1. clipBuf' \in [Ids -> Seq(Int)] /\ clipLen' \in [Ids -> Nat]
    BY <1>5, <1>8, <1>10, <1>11 DEF TypeOK
  <2>2. clipPos' \in [Ids -> Nat] /\ clipPosExpect' \in [Ids -> Nat]
    BY <1>4, <1>5, <1>11 DEF TypeOK
  <2>3. clipInStream' \in [Ids -> BOOLEAN] /\ clipGrabbed' \in [Ids -> BOOLEAN]
    BY <1>2, <1>5, <1>11 DEF TypeOK
  <2>4. stream' \in [Ids -> [data : ServerData \cup {<<>>}, left : Seq(Int)]]
    <3>1. [data |-> data, left |-> s] \in [data : ServerData \cup {<<>>}, left : Seq(Int)]
      BY <1>4
    <3> QED
      BY <1>5, <1>11, <3>1 DEF TypeOK
  <2>5. updaters' = updaters /\ copiers' = copiers /\ grabs' = grabs
    BY <1>11
  <2>6. got' \in [Ids -> [local : BOOLEAN, data : ServerData \cup {<<>>} \cup
                        {LocalData(text) : text \in Texts \cup ServerTexts}]]
    BY <1>5, <1>11 DEF TypeOK, From
  <2> QED
    BY <1>5, <2>1, <2>2, <2>3, <2>4, <2>5, <2>6 DEF TypeOK
<1>13. Good(id)'
  <2>1. /\ clipBuf'[id] = buf /\ clipLen'[id] = clipLen[id] /\ clipPosExpect'[id] = Len(s)
        /\ clipPos'[id] = 0 /\ clipInStream'[id] = TRUE /\ clipGrabbed'[id] = FALSE
        /\ stream'[id] = [data |-> data, left |-> s] /\ got'[id] = From(FALSE, <<>>)
    BY <1>2, <1>5, <1>10, <1>11 DEF TypeOK
  <2>2. Inside(id)'
    BY <1>4, <1>6, <1>8, <2>1 DEF Inside
  <2>3. Streaming(id)'
    <3>1. stream'[id].data = data /\ stream'[id].left = s
      BY <2>1
    <3> QED
      BY <1>3, <1>4, <2>1, <3>1 DEF Streaming
  <2>4. got'[id].local = FALSE /\ got'[id].data = <<>>
    BY <2>1 DEF From
  <2>5. Kept(id)'
    BY <2>1, <2>4 DEF Kept
  <2>6. Filled(id)'
    BY <2>1, <2>4 DEF Filled
  <2> QED
    BY <2>2, <2>3, <2>5, <2>6 DEF Good
<1>14. \A j \in Ids \ {id} :
         /\ clipBuf'[j] = clipBuf[j] /\ clipLen'[j] = clipLen[j]
         /\ clipPos'[j] = clipPos[j] /\ clipPosExpect'[j] = clipPosExpect[j]
         /\ clipInStream'[j] = clipInStream[j] /\ clipGrabbed'[j] = clipGrabbed[j]
         /\ stream'[j] = stream[j] /\ got'[j] = got[j]
  BY <1>2, <1>5, <1>10, <1>11 DEF TypeOK
<1> QED
  BY <1>12, <1>13, <1>14, OneClipboard DEF IInv

LEMMA ChunkStep == ASSUME IInv, NEW id \in Ids, ClipChunk(id) PROVE IInv'
<1>1. PICK n \in 1..MaxChunk :
        /\ n <= Len(stream[id].left)
        /\ stream' = [stream EXCEPT ![id].left = SubSeq(@, n + 1, Len(@))]
        /\ IF clipInStream[id] /\ clipPos[id] + n <= clipPosExpect[id]
           THEN /\ clipBuf' = [clipBuf EXCEPT ![id] =
                     Write(@, clipPos[id], SubSeq(stream[id].left, 1, n))]
                /\ clipPos' = [clipPos EXCEPT ![id] = @ + n]
           ELSE UNCHANGED <<clipBuf, clipPos>>
  BY DEF ClipChunk
<1>2. UNCHANGED <<clipLen, clipPosExpect, clipInStream, clipGrabbed, updaters, copiers, got, grabs>>
  BY DEF ClipChunk
<1>3. TypeOK /\ Good(id)
  BY DEF IInv
<1>4. n \in Nat \ {0}
  BY BoundsAssumption
<1>5. PICK left : left = stream[id].left
  OBVIOUS
<1>6. left \in Seq(Int) /\ Len(left) \in Nat /\ n <= Len(left) /\ left # <<>>
  <2>1. left \in Seq(Int) /\ n <= Len(left)
    BY <1>1, <1>3, <1>5, Typed
  <2> QED
    BY <1>4, <2>1
<1>7. PICK chunk : chunk = SubSeq(left, 1, n)
  OBVIOUS
<1>8. PICK rest : rest = SubSeq(left, n + 1, Len(left))
  OBVIOUS
<1>9. /\ chunk \in Seq(Int) /\ Len(chunk) = n
      /\ \A i \in 1..n : chunk[i] = left[i]
  <2>1. \A i \in 1..n : i \in 1..Len(left)
    BY <1>4, <1>6
  <2>2. \A i \in 1..n : left[i] \in Int
    BY <1>6, <2>1
  <2>3. chunk = [i \in 1..n |-> left[i]]
    BY <1>4, <1>6, <1>7
  <2> QED
    BY <1>4, <2>2, <2>3
<1>10. /\ rest \in Seq(Int) /\ Len(rest) = Len(left) - n
       /\ \A i \in 1..Len(rest) : rest[i] = left[n + i]
  <2>1. PICK m : m = n + 1
    OBVIOUS
  <2>2. PICK l : l = Len(left)
    OBVIOUS
  <2>3. m \in Int /\ l \in Int /\ \A i \in m..l : i \in 1..Len(left)
    BY <1>4, <1>6, <2>1, <2>2
  <2>4. PICK I : I = Int
    OBVIOUS
  <2>5. \A i \in m..l : left[i] \in I
    BY <1>6, <2>3, <2>4
  <2>6. /\ SubSeq(left, m, l) \in Seq(I)
        /\ Len(SubSeq(left, m, l)) = IF m <= l THEN l - m + 1 ELSE 0
        /\ \A i \in 1..l - m + 1 : SubSeq(left, m, l)[i] = left[m + i - 1]
    BY <2>3, <2>5, SubSeqProperties
  <2>7. l - m + 1 = Len(left) - n /\ (~(m <= l) => Len(left) - n = 0)
    BY <1>4, <1>6, <2>1, <2>2
  <2>8. \A i \in 1..Len(left) - n : m + i - 1 = n + i
    BY <1>4, <2>1
  <2> QED
    BY <1>8, <2>1, <2>2, <2>4, <2>6, <2>7, <2>8
<1>11. PICK buf : buf = IF clipInStream[id] /\ clipPos[id] + n <= clipPosExpect[id]
                        THEN Write(clipBuf[id], clipPos[id], chunk) ELSE clipBuf[id]
  OBVIOUS
<1>12. PICK pos : pos = IF clipInStream[id] /\ clipPos[id] + n <= clipPosExpect[id]
                        THEN clipPos[id] + n ELSE clipPos[id]
  OBVIOUS
<1>13. /\ clipBuf[id] \in Seq(Int) /\ clipPos[id] \in Nat
       /\ clipPosExpect[id] \in Nat /\ clipInStream[id] \in BOOLEAN
       /\ stream[id] \in [data : ServerData \cup {<<>>}, left : Seq(Int)]
  BY <1>3, Typed
<1>14. /\ clipBuf \in [Ids -> Seq(Int)] /\ clipPos \in [Ids -> Nat]
       /\ stream \in [Ids -> [data : ServerData \cup {<<>>}, left : Seq(Int)]]
  BY <1>3 DEF TypeOK
<1>15. clipBuf' = [clipBuf EXCEPT ![id] = buf] /\ clipPos' = [clipPos EXCEPT ![id] = pos]
  <2>1. [clipBuf EXCEPT ![id] = clipBuf[id]] = clipBuf /\ [clipPos EXCEPT ![id] = clipPos[id]] = clipPos
    BY <1>14
  <2> QED
    BY <1>1, <1>5, <1>7, <1>11, <1>12, <2>1
<1>16. stream' = [stream EXCEPT ![id] = [data |-> stream[id].data, left |-> rest]]
  <2>1. PICK r : r = stream[id]
    OBVIOUS
  <2>2. [r EXCEPT !.left = rest] = [data |-> r.data, left |-> rest]
    BY <1>13, <2>1
  <2>3. stream' = [stream EXCEPT ![id] = [r EXCEPT !.left = rest]]
    BY <1>1, <1>5, <1>8, <2>1
  <2> QED
    BY <2>1, <2>2, <2>3
<1>17. /\ Write(clipBuf[id], clipPos[id], chunk) \in Seq(Int)
       /\ Len(Write(clipBuf[id], clipPos[id], chunk)) = Len(clipBuf[id])
       /\ \A i \in 1..Len(clipBuf[id]) : Write(clipBuf[id], clipPos[id], chunk)[i] =
            IF i \in clipPos[id] + 1..clipPos[id] + n THEN chunk[i - clipPos[id]] ELSE clipBuf[id][i]
  <2>1. PICK p : p = clipPos[id]
    OBVIOUS
  <2>2. PICK b : b = clipBuf[id]
    OBVIOUS
  <2>3. b \in Seq(Int) /\ p \in Nat
    BY <1>13, <2>1, <2>2
  <2>4. /\ Write(b, p, chunk) \in Seq(Int)
        /\ Len(Write(b, p, chunk)) = Len(b)
        /\ \A i \in 1..Len(b) : Write(b, p, chunk)[i] =
             IF i \in p + 1..p + Len(chunk) THEN chunk[i - p] ELSE b[i]
    BY <1>9, <2>3, WriteShape
  <2> QED
    BY <1>9, <2>1, <2>2, <2>4
<1>18. buf \in Seq(Int) /\ Len(buf) = Len(clipBuf[id]) /\ pos \in Nat
  BY <1>4, <1>11, <1>12, <1>13, <1>17
<1>19. TypeOK'
  <2>1. clipBuf' \in [Ids -> Seq(Int)] /\ clipPos' \in [Ids -> Nat]
    BY <1>14, <1>15, <1>18
  <2>2. [data |-> stream[id].data, left |-> rest] \in [data : ServerData \cup {<<>>}, left : Seq(Int)]
    BY <1>10, <1>13
  <2>3. stream' \in [Ids -> [data : ServerData \cup {<<>>}, left : Seq(Int)]]
    BY <1>14, <1>16, <2>2
  <2> QED
    BY <1>2, <1>3, <2>1, <2>3 DEF TypeOK
<1>20. /\ clipBuf'[id] = buf /\ clipPos'[id] = pos
       /\ stream'[id].data = stream[id].data /\ stream'[id].left = rest
  BY <1>14, <1>15, <1>16
<1>21. Good(id)'
  <2>1. Inside(id) /\ Streaming(id) /\ Kept(id) /\ Filled(id)
    BY <1>3 DEF Good
  <2>2. stream[id] # NoStream /\ stream[id].data \in ServerData
    <3>1. NoStream.left = <<>>
      BY DEF NoStream
    <3> QED
      BY <1>5, <1>6, <2>1, <3>1 DEF Streaming
  <2>3. Inside(id)'
    BY <1>2, <1>12, <1>13, <1>18, <1>20, <2>1 DEF Inside
  <2>6. ~clipInStream[id] => clipBuf'[id] = clipBuf[id] /\ clipPos'[id] = clipPos[id]
    BY <1>11, <1>12, <1>20
  <2>7. got[id].data # <<>> => ~clipInStream[id]
    BY <2>1 DEF Filled
  <2>4. Kept(id)'
    <3>1. CASE got[id].local
      <4>1. got[id].data # <<>>
        <5>1. PICK text \in AllTexts : got[id].data = LocalData(text)
          BY <2>1, <3>1 DEF Kept
        <5> QED
          BY <5>1 DEF LocalData
      <4> QED
        BY <1>2, <2>1, <2>6, <2>7, <4>1 DEF Kept
    <3>2. CASE ~got[id].local
      BY <1>2, <2>1, <3>2 DEF Kept
    <3> QED
      BY <3>1, <3>2
  <2>8. Filled(id)'
    <3>1. CASE got[id].data # <<>>
      BY <1>2, <2>1, <2>6, <2>7, <3>1 DEF Filled
    <3>2. CASE got[id].data = <<>>
      BY <1>2, <2>1, <3>2 DEF Filled
    <3> QED
      BY <3>1, <3>2
  <2>5. Streaming(id)'
    <3>1. CASE ~clipInStream[id]
      BY <1>2, <1>20, <2>2, <3>1 DEF Streaming
    <3>2. CASE clipInStream[id]
      <4>1. PICK s : s = Serial(stream[id].data)
        OBVIOUS
      <4>2. PICK p : p = clipPos[id]
        OBVIOUS
      <4>3. /\ clipPosExpect[id] = Len(s)
            /\ Len(left) = Len(s) - p
            /\ \A i \in 1..Len(left) : left[i] = s[p + i]
            /\ \A i \in 1..p : clipBuf[id][i] = s[i]
        BY <1>5, <2>1, <2>2, <3>2, <4>1, <4>2 DEF Streaming
      <4>4. p \in Nat /\ Len(s) \in Nat /\ Len(s) <= Len(clipBuf[id])
        BY <1>13, <2>1, <3>2, <4>2, <4>3 DEF Inside
      <4>5. p + n <= Len(s)
        BY <1>4, <1>6, <4>3, <4>4
      <4>6. pos = p + n /\ buf = Write(clipBuf[id], p, chunk)
        BY <1>11, <1>12, <3>2, <4>2, <4>3, <4>5
      <4>7. Len(rest) = Len(s) - pos
        BY <1>4, <1>6, <1>10, <4>3, <4>4, <4>6
      <4>8. ASSUME NEW i \in 1..Len(rest) PROVE rest[i] = s[pos + i]
        <5>1. n + i \in 1..Len(left)
          BY <1>4, <1>6, <1>10
        <5>2. left[n + i] = s[p + (n + i)]
          BY <4>3, <5>1
        <5>3. p + (n + i) = pos + i
          BY <1>4, <4>4, <4>6
        <5> QED
          BY <1>10, <5>2, <5>3
      <4>9. ASSUME NEW i \in 1..pos PROVE buf[i] = s[i]
        <5>1. i \in 1..Len(clipBuf[id]) /\ i \in Nat
          BY <1>13, <1>18, <4>4, <4>5, <4>6
        <5>2. buf[i] = IF i \in p + 1..p + n THEN chunk[i - p] ELSE clipBuf[id][i]
          BY <1>17, <4>2, <4>6, <5>1
        <5>3. CASE i \in p + 1..p + n
          <6>1. i - p \in 1..n /\ i - p \in 1..Len(left) /\ p + (i - p) = i
            BY <1>4, <1>6, <4>4, <5>3
          <6>2. chunk[i - p] = left[i - p] /\ left[i - p] = s[p + (i - p)]
            BY <1>9, <4>3, <6>1
          <6> QED
            BY <5>2, <5>3, <6>1, <6>2
        <5>4. CASE i \notin p + 1..p + n
          <6>1. i \in 1..p
            BY <1>4, <4>4, <4>6, <5>4
          <6> QED
            BY <4>3, <5>2, <5>4, <6>1
        <5> QED
          BY <5>3, <5>4
      <4>10. clipPosExpect'[id] = Len(s)
        BY <1>2, <4>3
      <4> QED
        BY <1>20, <2>2, <4>1, <4>7, <4>8, <4>9, <4>10 DEF Streaming
    <3> QED
      BY <1>13, <3>1, <3>2
  <2> QED
    BY <2>3, <2>4, <2>5, <2>8 DEF Good
<1>22. \A j \in Ids \ {id} :
         /\ clipBuf'[j] = clipBuf[j] /\ clipLen'[j] = clipLen[j]
         /\ clipPos'[j] = clipPos[j] /\ clipPosExpect'[j] = clipPosExpect[j]
         /\ clipInStream'[j] = clipInStream[j] /\ clipGrabbed'[j] = clipGrabbed[j]
         /\ stream'[j] = stream[j] /\ got'[j] = got[j]
  BY <1>2, <1>14, <1>15, <1>16
<1> QED
  BY <1>19, <1>21, <1>22, OneClipboard DEF IInv

(* What is in the buffer when a stream has come to its end is the data. *)
LEMMA ParsedAtEnd ==
  ASSUME IInv, NEW id \in Ids, clipInStream[id], stream[id] # NoStream, stream[id].left = <<>>
  PROVE  /\ stream[id].data \in ServerData /\ stream[id].data \in Formats
         /\ Len(Serial(stream[id].data)) <= Len(clipBuf[id])
         /\ \A i \in 1..Len(Serial(stream[id].data)) : clipBuf[id][i] = Serial(stream[id].data)[i]
         /\ Parsed(clipBuf[id], clipPosExpect[id]) = [ok |-> TRUE, texts |-> TextsOf(stream[id].data)]
<1>1. TypeOK /\ Inside(id) /\ Streaming(id)
  BY DEF IInv, Good
<1>2. PICK data : data = stream[id].data
  OBVIOUS
<1>3. data \in ServerData /\ data \in Formats
  BY <1>1, <1>2, TextsAreLetters DEF Streaming
<1>4. PICK buf : buf = clipBuf[id]
  OBVIOUS
<1>5. PICK pos : pos = clipPos[id]
  OBVIOUS
<1>6. buf \in Seq(Int) /\ pos \in Nat
  BY <1>1, <1>4, <1>5, Typed
<1>7. /\ clipPosExpect[id] = Len(Serial(data))
      /\ Len(stream[id].left) = Len(Serial(data)) - pos
      /\ \A i \in 1..pos : buf[i] = Serial(data)[i]
      /\ Len(Serial(data)) <= Len(buf)
  BY <1>1, <1>2, <1>4, <1>5 DEF Streaming, Inside
<1>8. Len(Serial(data)) \in Nat /\ Len(stream[id].left) = 0
  BY <1>3, SerialShape
<1>9. pos = Len(Serial(data))
  BY <1>6, <1>7, <1>8
<1>10. Parsed(buf, Len(Serial(data))) = [ok |-> TRUE, texts |-> TextsOf(data)]
  BY <1>3, <1>6, <1>7, <1>9, ParsesSerial
<1> QED
  BY <1>2, <1>3, <1>4, <1>7, <1>9, <1>10

LEMMA EndStep == ASSUME IInv, NEW id \in Ids, ClipEnd(id) PROVE IInv'
<1>1. /\ stream[id] # NoStream /\ stream[id].left = <<>>
      /\ stream' = [stream EXCEPT ![id] = NoStream]
      /\ IF clipInStream[id] THEN GiveTexts(id) ELSE UNCHANGED <<copiers, clipInStream, got>>
      /\ UNCHANGED <<clipBuf, clipLen, clipPos, clipPosExpect, clipGrabbed, updaters, grabs>>
  BY DEF ClipEnd
<1>2. TypeOK /\ Inside(id) /\ Streaming(id) /\ Kept(id) /\ Filled(id)
  BY DEF IInv, Good
<1>3. stream' \in [Ids -> [data : ServerData \cup {<<>>}, left : Seq(Int)]]
  <2>1. <<>> \in Seq(Int)
    OBVIOUS
  <2>2. NoStream \in [data : ServerData \cup {<<>>}, left : Seq(Int)]
    BY <2>1 DEF NoStream
  <2> QED
    BY <1>1, <1>2, <2>2 DEF TypeOK
<1>4. stream'[id] = NoStream
  BY <1>1, <1>2 DEF TypeOK
<1>5. CASE clipInStream[id]
  <2>1. PICK texts : texts = TextsOf(stream[id].data)
    OBVIOUS
  <2>2. PICK parsed : parsed = Parsed(clipBuf[id], clipPosExpect[id])
    OBVIOUS
  <2>3. /\ Len(updaters[id]) + Len(copiers[id]) + Len(parsed.texts) <= MaxPending
        /\ copiers' = [copiers EXCEPT ![id] = @ \o parsed.texts]
        /\ clipInStream' = [clipInStream EXCEPT ![id] = ~parsed.ok]
        /\ got' = [got EXCEPT ![id] = From(FALSE, stream[id].data)]
    BY <1>1, <1>5, <2>2 DEF GiveTexts
  <2>4. parsed = [ok |-> TRUE, texts |-> texts] /\ stream[id].data \in ServerData
    BY <1>1, <1>5, <2>1, <2>2, ParsedAtEnd
  <2>5. texts \in Seq(AllTexts)
    BY <2>1, <2>4, TextsOfData
  <2>6. parsed.ok = TRUE /\ parsed.texts = texts
    BY <2>4
  <2>7. clipInStream' = [clipInStream EXCEPT ![id] = FALSE]
    BY <2>3, <2>6
  <2>8. PICK more : more = copiers[id] \o texts
    OBVIOUS
  <2>9. /\ copiers[id] \in Seq(AllTexts) /\ Len(copiers[id]) \in Nat
        /\ updaters[id] \in Seq(AllTexts) /\ Len(updaters[id]) \in Nat
    BY <1>2, Typed
  <2>10. more \in Seq(AllTexts) /\ Len(more) = Len(copiers[id]) + Len(texts)
    BY <2>5, <2>8, <2>9, Concatenated
  <2>11. copiers' = [copiers EXCEPT ![id] = more]
    BY <2>3, <2>6, <2>8
  <2>12. TypeOK'
    <3>1. copiers' \in [Ids -> Seq(Texts \cup ServerTexts)]
      BY <1>2, <2>10, <2>11 DEF TypeOK, AllTexts
    <3>2. clipInStream' \in [Ids -> BOOLEAN]
      BY <1>2, <2>7 DEF TypeOK
    <3>3. got' \in [Ids -> [local : BOOLEAN, data : ServerData \cup {<<>>} \cup
                          {LocalData(text) : text \in Texts \cup ServerTexts}]]
      BY <1>2, <2>3, <2>4 DEF TypeOK, From
    <3>4. ASSUME NEW j \in Ids PROVE Len(updaters'[j]) + Len(copiers'[j]) <= MaxPending
      <4>1. CASE j = id
        <5>1. Len(texts) \in Nat
          BY <2>5
        <5>2. Len(updaters[id]) + (Len(copiers[id]) + Len(texts)) <= MaxPending
          <6>1. Len(parsed.texts) = Len(texts)
            BY <2>6
          <6>2. Len(updaters[id]) + Len(copiers[id]) + Len(texts) <= MaxPending
            BY <2>3, <6>1
          <6>3. Len(updaters[id]) + Len(copiers[id]) + Len(texts)
                = Len(updaters[id]) + (Len(copiers[id]) + Len(texts))
            <7>1. \A a, b, c \in Nat : a + b + c = a + (b + c)
              OBVIOUS
            <7> QED
              BY <2>9, <5>1, <7>1
          <6> QED
            BY <6>2, <6>3
        <5>3. copiers'[id] = more /\ updaters'[id] = updaters[id]
          BY <1>1, <1>2, <2>11 DEF TypeOK
        <5> QED
          BY <2>10, <4>1, <5>2, <5>3
      <4>2. CASE j # id
        BY <1>1, <1>2, <2>11, <4>2 DEF TypeOK
      <4> QED
        BY <4>1, <4>2
    <3> QED
      BY <1>1, <1>2, <1>3, <3>1, <3>2, <3>3, <3>4 DEF TypeOK
  <2>13. clipInStream'[id] = FALSE /\ got'[id] = From(FALSE, stream[id].data)
    BY <1>2, <2>3, <2>7 DEF TypeOK
  <2>14. Good(id)'
    <3>1. ~clipGrabbed[id]
      <4>1. got[id].data = <<>>
        BY <1>2, <1>5 DEF Filled
      <4>2. \A text \in AllTexts : LocalData(text) # <<>>
        BY DEF LocalData
      <4> QED
        BY <1>2, <4>1, <4>2 DEF Kept
    <3>2. Inside(id)'
      BY <1>1, <1>2, <2>13 DEF Inside
    <3>3. Streaming(id)'
      BY <1>4 DEF Streaming
    <3>4. got'[id].local = FALSE /\ got'[id].data = stream[id].data
      BY <2>13 DEF From
    <3>5. Kept(id)'
      BY <1>1, <3>1, <3>4 DEF Kept
    <3>6. stream[id].data # <<>>
      BY <2>4, DataAssumption
    <3>7. Filled(id)'
      <4>1. /\ stream[id].data \in Formats
            /\ Len(Serial(stream[id].data)) <= Len(clipBuf[id])
            /\ \A i \in 1..Len(Serial(stream[id].data)) : clipBuf[id][i] = Serial(stream[id].data)[i]
        BY <1>1, <1>5, ParsedAtEnd
      <4> QED
        BY <1>1, <2>13, <3>4, <3>6, <4>1 DEF Filled
    <3> QED
      BY <3>2, <3>3, <3>5, <3>7 DEF Good
  <2>15. \A j \in Ids \ {id} :
           /\ clipBuf'[j] = clipBuf[j] /\ clipLen'[j] = clipLen[j]
           /\ clipPos'[j] = clipPos[j] /\ clipPosExpect'[j] = clipPosExpect[j]
           /\ clipInStream'[j] = clipInStream[j] /\ clipGrabbed'[j] = clipGrabbed[j]
           /\ stream'[j] = stream[j] /\ got'[j] = got[j]
    BY <1>1, <1>2, <2>3, <2>7 DEF TypeOK
  <2> QED
    BY <2>12, <2>14, <2>15, OneClipboard DEF IInv
<1>6. CASE ~clipInStream[id]
  <2>1. UNCHANGED <<ctx, updaters, copiers, got, grabs>>
    BY <1>1, <1>6 DEF ctx
  <2>2. TypeOK'
    BY <1>2, <1>3, <2>1 DEF TypeOK, ctx
  <2>3. Good(id)'
    <3>1. Inside(id)'
      BY <1>2, <2>1 DEF Inside, ctx
    <3>2. Streaming(id)'
      BY <1>4 DEF Streaming
    <3>3. Kept(id)'
      BY <1>2, <2>1 DEF Kept, ctx
    <3>4. Filled(id)'
      BY <1>2, <2>1 DEF Filled, ctx
    <3> QED
      BY <3>1, <3>2, <3>3, <3>4 DEF Good
  <2>4. \A j \in Ids \ {id} : stream'[j] = stream[j]
    BY <1>1, <1>2 DEF TypeOK
  <2> QED
    BY <2>1, <2>2, <2>3, <2>4, OneClipboard DEF IInv, ctx
<1> QED
  BY <1>2, <1>5, <1>6, Typed

LEMMA BreakStep == ASSUME IInv, NEW id \in Ids, StreamBreaks(id) PROVE IInv'
<1>1. stream' = [stream EXCEPT ![id] = NoStream] /\ UNCHANGED <<ctx, updaters, copiers, got, grabs>>
  BY DEF StreamBreaks
<1>2. TypeOK /\ Inside(id) /\ Streaming(id) /\ Kept(id) /\ Filled(id)
  BY DEF IInv, Good
<1>3. stream' \in [Ids -> [data : ServerData \cup {<<>>}, left : Seq(Int)]]
  <2>1. <<>> \in Seq(Int)
    OBVIOUS
  <2>2. NoStream \in [data : ServerData \cup {<<>>}, left : Seq(Int)]
    BY <2>1 DEF NoStream
  <2> QED
    BY <1>1, <1>2, <2>2 DEF TypeOK
<1>4. TypeOK'
  BY <1>1, <1>2, <1>3 DEF TypeOK, ctx
<1>5. Good(id)'
  <2>1. stream'[id] = NoStream
    BY <1>1, <1>2 DEF TypeOK
  <2>2. Inside(id)'
    BY <1>1, <1>2 DEF Inside, ctx
  <2>3. Streaming(id)'
    BY <2>1 DEF Streaming
  <2>4. Kept(id)'
    BY <1>1, <1>2 DEF Kept, ctx
  <2>5. Filled(id)'
    BY <1>1, <1>2 DEF Filled, ctx
  <2> QED
    BY <2>2, <2>3, <2>4, <2>5 DEF Good
<1>6. \A j \in Ids \ {id} : stream'[j] = stream[j]
  BY <1>1, <1>2 DEF TypeOK
<1> QED
  BY <1>1, <1>4, <1>5, <1>6, OneClipboard DEF IInv, ctx

(* CCLP and COUT: less is grabbed. *)
LEMMA ReleaseStep ==
  ASSUME IInv, clipGrabbed' \in [Ids -> BOOLEAN], \A j \in Ids : clipGrabbed'[j] => clipGrabbed[j],
         UNCHANGED <<clipBuf, clipLen, clipPos, clipPosExpect, clipInStream>>,
         UNCHANGED <<stream, updaters, copiers, got, grabs>>
  PROVE  IInv'
<1>1. TypeOK'
  BY DEF IInv, TypeOK
<1>2. ASSUME NEW j \in Ids PROVE Good(j)'
  <2>1. Inside(j) /\ Streaming(j) /\ Kept(j) /\ Filled(j)
    BY DEF IInv, Good
  <2>2. Inside(j)'
    BY <2>1 DEF Inside
  <2>3. Streaming(j)'
    BY <2>1 DEF Streaming
  <2>4. Kept(j)'
    BY <2>1 DEF Kept
  <2>5. Filled(j)'
    BY <2>1 DEF Filled
  <2> QED
    BY <2>2, <2>3, <2>4, <2>5 DEF Good
<1> QED
  BY <1>1, <1>2 DEF IInv

LEMMA GrabAwayStep == ASSUME IInv, NEW id \in Ids, ClipGrab(id) PROVE IInv'
<1>1. clipGrabbed \in [Ids -> BOOLEAN]
  BY DEF IInv, TypeOK
<1>2. clipGrabbed' \in [Ids -> BOOLEAN] /\ \A j \in Ids : clipGrabbed'[j] => clipGrabbed[j]
  BY <1>1 DEF ClipGrab
<1> QED
  BY <1>2, ReleaseStep DEF ClipGrab

LEMMA LeaveStep == ASSUME IInv, Leave PROVE IInv'
<1>1. clipGrabbed' \in [Ids -> BOOLEAN] /\ \A j \in Ids : clipGrabbed'[j] => clipGrabbed[j]
  BY DEF Leave
<1> QED
  BY <1>1, ReleaseStep DEF Leave

-----------------------------------------------------------------------------
(* The desktop. *)

(* A step that only moves texts. *)
LEMMA TextsMove ==
  ASSUME IInv, UNCHANGED <<ctx, stream, got, grabs>>,
         updaters' \in [Ids -> Seq(AllTexts)], copiers' \in [Ids -> Seq(AllTexts)],
         \A j \in Ids : Len(updaters'[j]) + Len(copiers'[j]) <= MaxPending
  PROVE  IInv'
<1>1. TypeOK'
  BY DEF IInv, TypeOK, AllTexts, ctx
<1>2. ASSUME NEW j \in Ids PROVE Good(j)'
  <2>1. Good(j)
    BY DEF IInv
  <2> QED
    BY <2>1, Untouched DEF ctx
<1> QED
  BY <1>1, <1>2 DEF IInv

LEMMA UserStep == ASSUME IInv, NEW id \in Ids, UserCopies(id) PROVE IInv'
<1>1. PICK text \in Texts : updaters' = [updaters EXCEPT ![id] = Append(@, text)]
  BY DEF UserCopies
<1>2. Len(updaters[id]) + Len(copiers[id]) < MaxPending /\ UNCHANGED <<ctx, stream, copiers, got, grabs>>
  BY DEF UserCopies
<1>3. TypeOK
  BY DEF IInv
<1>4. /\ updaters[id] \in Seq(AllTexts) /\ Len(updaters[id]) \in Nat /\ Len(copiers[id]) \in Nat
      /\ text \in AllTexts
  BY <1>3, Typed DEF AllTexts
<1>5. PICK more : more = Append(updaters[id], text)
  OBVIOUS
<1>6. more \in Seq(AllTexts) /\ Len(more) = Len(updaters[id]) + 1
  BY <1>4, <1>5
<1>7. updaters \in [Ids -> Seq(AllTexts)] /\ copiers \in [Ids -> Seq(AllTexts)]
  BY <1>3 DEF TypeOK, AllTexts
<1>8. updaters' = [updaters EXCEPT ![id] = more]
  BY <1>1, <1>5
<1>9. updaters' \in [Ids -> Seq(AllTexts)] /\ copiers' \in [Ids -> Seq(AllTexts)]
  BY <1>2, <1>6, <1>7, <1>8
<1>10. ASSUME NEW j \in Ids PROVE Len(updaters'[j]) + Len(copiers'[j]) <= MaxPending
  <2>1. CASE j = id
    <3>1. updaters'[j] = more /\ copiers'[j] = copiers[id]
      BY <1>2, <1>7, <1>8, <2>1
    <3>2. PICK u : u = Len(updaters[id])
      OBVIOUS
    <3>3. PICK c : c = Len(copiers[id])
      OBVIOUS
    <3>4. u \in Nat /\ c \in Nat /\ u + c < MaxPending /\ MaxPending \in Nat
      BY <1>2, <1>4, <3>2, <3>3, BoundsAssumption
    <3>5. (u + 1) + c <= MaxPending
      BY <3>4
    <3>6. Len(more) + Len(copiers[id]) <= MaxPending
      BY <1>6, <3>2, <3>3, <3>5
    <3> QED
      BY <3>1, <3>6
  <2>2. CASE j # id
    BY <1>2, <1>3, <1>8, <2>2 DEF TypeOK
  <2> QED
    BY <2>1, <2>2
<1> QED
  BY <1>2, <1>9, <1>10, TextsMove

LEMMA CopiedStep == ASSUME IInv, NEW id \in Ids, Copied(id) PROVE IInv'
<1>1. /\ copiers[id] # <<>>
      /\ copiers' = [copiers EXCEPT ![id] = Tail(@)]
      /\ updaters' = [updaters EXCEPT ![id] = Append(@, Head(copiers[id]))]
      /\ UNCHANGED <<ctx, stream, got, grabs>>
  BY DEF Copied
<1>2. TypeOK
  BY DEF IInv
<1>3. PICK cs : cs = copiers[id]
  OBVIOUS
<1>4. PICK us : us = updaters[id]
  OBVIOUS
<1>5. cs \in Seq(AllTexts) /\ us \in Seq(AllTexts) /\ cs # <<>> /\ Len(us) + Len(cs) <= MaxPending
  BY <1>1, <1>2, <1>3, <1>4, Typed
<1>6. Tail(cs) \in Seq(AllTexts) /\ Len(Tail(cs)) = Len(cs) - 1 /\ Head(cs) \in AllTexts
  BY <1>5
<1>7. Append(us, Head(cs)) \in Seq(AllTexts) /\ Len(Append(us, Head(cs))) = Len(us) + 1
  BY <1>5, <1>6
<1>8. PICK left : left = Tail(cs)
  OBVIOUS
<1>9. PICK more : more = Append(us, Head(cs))
  OBVIOUS
<1>10. copiers' = [copiers EXCEPT ![id] = left] /\ updaters' = [updaters EXCEPT ![id] = more]
  BY <1>1, <1>3, <1>4, <1>8, <1>9
<1>11. updaters \in [Ids -> Seq(AllTexts)] /\ copiers \in [Ids -> Seq(AllTexts)]
  BY <1>2 DEF TypeOK, AllTexts
<1>12. updaters' \in [Ids -> Seq(AllTexts)] /\ copiers' \in [Ids -> Seq(AllTexts)]
  BY <1>6, <1>7, <1>8, <1>9, <1>10, <1>11
<1>13. ASSUME NEW j \in Ids PROVE Len(updaters'[j]) + Len(copiers'[j]) <= MaxPending
  <2>1. CASE j = id
    <3>1. updaters'[j] = more /\ copiers'[j] = left
      BY <1>10, <1>11, <2>1
    <3>2. Len(us) \in Nat /\ Len(cs) \in Nat
      BY <1>5
    <3>3. Len(more) + Len(left) = Len(us) + Len(cs)
      BY <1>6, <1>7, <1>8, <1>9, <3>2
    <3> QED
      BY <1>5, <3>1, <3>3
  <2>2. CASE j # id
    BY <1>2, <1>10, <2>2 DEF TypeOK
  <2> QED
    BY <2>1, <2>2
<1> QED
  BY <1>1, <1>12, <1>13, TextsMove

(* The first text of what the buffer was filled with is where the first      *)
(* header says.                                                              *)
LEMMA FirstHeader ==
  ASSUME IInv, NEW id \in Ids, got[id].data # <<>>
  PROVE  /\ ~clipInStream[id] /\ 1 <= NumberAt(clipBuf[id], 0) /\ NumberAt(clipBuf[id], 0) \in Nat
         /\ FormatLen(id, 1) = Len(got[id].data[1].text)
         /\ DataAt(1) + FormatLen(id, 1) <= Len(clipBuf[id])
         /\ \A j \in 1..Len(got[id].data[1].text) :
              /\ DataAt(1) + j \in 1..Len(clipBuf[id])
              /\ clipBuf[id][DataAt(1) + j] = got[id].data[1].text[j]
<1>1. TypeOK /\ Filled(id)
  BY DEF IInv, Good
<1>2. PICK data : data = got[id].data
  OBVIOUS
<1>3. PICK s : s = Serial(data)
  OBVIOUS
<1>4. PICK buf : buf = clipBuf[id]
  OBVIOUS
<1>5. /\ data \in Formats /\ data # <<>> /\ ~clipInStream[id]
      /\ Len(s) <= Len(buf) /\ \A i \in 1..Len(s) : buf[i] = s[i]
  BY <1>1, <1>2, <1>3, <1>4 DEF Filled
<1>6. PICK t : t = data[1].text
  OBVIOUS
<1>7. /\ Len(t) \in Nat /\ 6 + Len(t) <= Len(s)
      /\ NumberAt(s, 4) = Len(t)
      /\ \A j \in 1..Len(t) : s[6 + j] = t[j]
  BY <1>3, <1>5, <1>6, FirstText
<1>8. Len(s) \in Nat /\ NumberAt(s, 0) = Len(data)
  BY <1>3, <1>5, SerialShape
<1>9. Len(data) \in Nat /\ 1 <= Len(data)
  BY <1>5 DEF Formats
<1>10. Len(buf) \in Nat
  BY <1>1, <1>4, Typed
<1>11. \A i \in 1..6 + Len(t) : i \in 1..Len(s) /\ i \in 1..Len(buf) /\ buf[i] = s[i]
  <2> SUFFICES ASSUME NEW i \in 1..6 + Len(t) PROVE i \in 1..Len(s) /\ i \in 1..Len(buf) /\ buf[i] = s[i]
    OBVIOUS
  <2>1. i \in 1..Len(s)
    BY <1>7, <1>8
  <2>2. i \in 1..Len(buf)
    BY <1>5, <1>8, <1>10, <2>1
  <2> QED
    BY <1>5, <2>1, <2>2
<1>12. NumberAt(buf, 0) = Len(data) /\ NumberAt(buf, 4) = Len(t)
  <2>1. \A i \in 1..6 : i \in 1..6 + Len(t)
    BY <1>7
  <2>2. buf[0 + 1] = s[0 + 1] /\ buf[0 + 2] = s[0 + 2] /\ buf[4 + 1] = s[4 + 1] /\ buf[4 + 2] = s[4 + 2]
    BY <1>11, <2>1
  <2>3. NumberAt(buf, 0) = NumberAt(s, 0) /\ NumberAt(buf, 4) = NumberAt(s, 4)
    BY <2>2, SameNumber
  <2> QED
    BY <1>7, <1>8, <2>3
<1>13. ASSUME NEW j \in 1..Len(t) PROVE 6 + j \in 1..Len(buf) /\ buf[6 + j] = t[j]
  <2>1. 6 + j \in 1..6 + Len(t)
    BY <1>7
  <2> QED
    BY <1>7, <1>11, <2>1
<1>14. DataAt(1) = 6 /\ FormatLen(id, 1) = Len(t)
  <2>1. DataAt(1) = 6 /\ DataAt(1) - 2 = 4
    BY DEF DataAt
  <2> QED
    BY <1>4, <1>12, <2>1 DEF FormatLen
<1>15. 6 + Len(t) <= Len(buf)
  BY <1>5, <1>7, <1>8, <1>10
<1> QED
  BY <1>2, <1>4, <1>5, <1>6, <1>9, <1>12, <1>13, <1>14, <1>15

(* So it is found when the header may be read. *)
LEMMA FirstFound ==
  ASSUME IInv, NEW id \in Ids, got[id].data # <<>>,
         NEW text \in AllTexts, got[id].data[1].text = text,
         got[id].local \/ clipLen[id] >= DataAt(1)
  PROVE  SurelyContains(id, text)
<1>1. TypeOK /\ Kept(id)
  BY DEF IInv, Good
<1>2. clipLen[id] \in Nat /\ DataAt(1) \in Nat
  <2>1. clipLen[id] \in Nat
    BY <1>1, Typed
  <2> QED
    BY <2>1 DEF DataAt
<1>3. DataAt(1) <= clipLen[id]
  <2>1. CASE got[id].local
    <3>1. PICK other \in AllTexts : got[id].data = LocalData(other)
      BY <1>1, <2>1 DEF Kept
    <3>2. Len(other) \in Nat /\ Len(Serial(got[id].data)) = Len(other) + DataAt(1)
      BY <3>1, LocalShape
    <3>3. Len(Serial(got[id].data)) <= clipLen[id]
      BY <1>1, <2>1 DEF Kept
    <3>4. PICK n : n = Len(Serial(got[id].data))
      OBVIOUS
    <3> QED
      BY <1>2, <3>2, <3>3, <3>4
  <2>2. CASE clipLen[id] >= DataAt(1)
    BY <1>2, <2>2
  <2> QED
    BY <2>1, <2>2
<1>4. /\ ~clipInStream[id] /\ 1 <= NumberAt(clipBuf[id], 0) /\ NumberAt(clipBuf[id], 0) \in Nat
      /\ FormatLen(id, 1) = Len(text)
      /\ \A j \in 1..Len(text) : /\ DataAt(1) + j \in 1..Len(clipBuf[id])
                                /\ clipBuf[id][DataAt(1) + j] = text[j]
  BY FirstHeader
<1>5. 1 \in Headers(id)
  BY <1>2, <1>3, <1>4 DEF Headers
<1>6. 1 \in Compared(id, text)
  BY <1>4, <1>5 DEF Compared
<1>7. DOMAIN text = 1..Len(text) /\ DOMAIN clipBuf[id] = 1..Len(clipBuf[id])
  <2>1. text \in Seq(Letters)
    BY TextsAreLetters
  <2>2. clipBuf[id] \in Seq(Int)
    BY <1>1, Typed
  <2> QED
    BY <2>1, <2>2
<1>8. \A j \in DOMAIN text : Holds(clipBuf[id], DataAt(1) + j, text[j])
  BY <1>4, <1>7 DEF Holds
<1> QED
  BY <1>6, <1>8 DEF SurelyContains

LEMMA UpdateStep ==
  ASSUME IInv, NEW id \in Ids, NEW n \in DOMAIN updaters[id], UpdateClipBuf(id, n)
  PROVE  IInv'
<1>1. PICK text : text = updaters[id][n]
  OBVIOUS
<1>2. /\ updaters' = [updaters EXCEPT ![id] = RemoveAt(@, n)]
      /\ \/ UNCHANGED <<ctx, got, grabs>>
         \/ /\ Grab(id, text)
            /\ clipLen' = [clipLen EXCEPT ![id] = IF @ < clipPos'[id] THEN clipPos'[id] ELSE @]
      /\ UNCHANGED <<stream, copiers>>
  BY <1>1 DEF UpdateClipBuf
<1>3. TypeOK /\ Inside(id) /\ Streaming(id) /\ Kept(id)
  BY DEF IInv, Good
<1>4. /\ updaters[id] \in Seq(AllTexts) /\ Len(updaters[id]) \in Nat
      /\ Len(copiers[id]) \in Nat /\ Len(updaters[id]) + Len(copiers[id]) <= MaxPending
  BY <1>3, Typed
<1>5. n \in 1..Len(updaters[id]) /\ text \in AllTexts
  BY <1>1, <1>4
<1>6. PICK fewer : fewer = RemoveAt(updaters[id], n)
  OBVIOUS
<1>7. fewer \in Seq(AllTexts) /\ Len(fewer) = Len(updaters[id]) - 1
  BY <1>4, <1>5, <1>6, Removed
<1>8. updaters' = [updaters EXCEPT ![id] = fewer]
  BY <1>2, <1>6
<1>9. updaters \in [Ids -> Seq(AllTexts)] /\ copiers \in [Ids -> Seq(AllTexts)]
  BY <1>3 DEF TypeOK, AllTexts
<1>10. updaters' \in [Ids -> Seq(AllTexts)] /\ copiers' \in [Ids -> Seq(AllTexts)]
  BY <1>2, <1>7, <1>8, <1>9
<1>11. ASSUME NEW j \in Ids PROVE Len(updaters'[j]) + Len(copiers'[j]) <= MaxPending
  <2>1. CASE j = id
    <3>1. updaters'[j] = fewer /\ copiers'[j] = copiers[id]
      BY <1>2, <1>8, <1>9, <2>1
    <3>2. \A u, c, m \in Nat : u + c <= m => (u - 1) + c <= m
      OBVIOUS
    <3>3. MaxPending \in Nat
      BY BoundsAssumption
    <3> QED
      BY <1>4, <1>7, <3>1, <3>2, <3>3
  <2>2. CASE j # id
    BY <1>2, <1>3, <1>8, <2>2 DEF TypeOK
  <2> QED
    BY <2>1, <2>2
<1>12. CASE UNCHANGED <<ctx, got, grabs>>
  BY <1>2, <1>10, <1>11, <1>12, TextsMove
<1>13. CASE /\ Grab(id, text)
            /\ clipLen' = [clipLen EXCEPT ![id] = IF @ < clipPos'[id] THEN clipPos'[id] ELSE @]
  <2>1. PICK cells : cells = Serial(LocalData(text))
    OBVIOUS
  <2>2. PICK len : len = Len(text) + DataAt(1)
    OBVIOUS
  <2>3. cells \in Seq(Int) /\ Len(cells) = len /\ len \in Nat
    BY <1>5, <2>1, <2>2, LocalShape DEF DataAt
  <2>4. /\ clipInStream' = [clipInStream EXCEPT ![id] = FALSE]
        /\ clipGrabbed' = [clipGrabbed EXCEPT ![id] = TRUE]
        /\ clipPos' = [clipPos EXCEPT ![id] = len]
        /\ clipBuf' = [clipBuf EXCEPT ![id] =
             Write(IF clipLen[id] < len THEN Realloc(@, len) ELSE @, 0, cells)]
        /\ got' = [got EXCEPT ![id] = From(TRUE, LocalData(text))]
        /\ grabs' = [grabs EXCEPT ![id] = 1 - @]
        /\ UNCHANGED clipPosExpect
    BY <1>13, <2>1, <2>2 DEF Grab
  <2>5. clipBuf[id] \in Seq(Int) /\ clipLen[id] \in Nat /\ clipLen[id] <= Len(clipBuf[id])
    BY <1>3, Typed DEF Inside
  <2>6. PICK room : room = IF clipLen[id] < len THEN Realloc(clipBuf[id], len) ELSE clipBuf[id]
    OBVIOUS
  <2>7. PICK size : size = IF clipLen[id] < len THEN len ELSE clipLen[id]
    OBVIOUS
  <2>8. room \in Seq(Int) /\ size \in Nat /\ size <= Len(room) /\ len <= size
    <3>1. Realloc(clipBuf[id], len) \in Seq(Int) /\ Len(Realloc(clipBuf[id], len)) = len
      BY <2>3, <2>5, ReallocShape
    <3> QED
      BY <2>3, <2>5, <2>6, <2>7, <3>1
  <2>9. PICK buf : buf = Write(room, 0, cells)
    OBVIOUS
  <2>10. /\ buf \in Seq(Int) /\ Len(buf) = Len(room)
         /\ \A i \in 1..len : buf[i] = cells[i]
    <3>0. PICK start \in Nat : start = 0
      OBVIOUS
    <3>1. /\ Write(room, start, cells) \in Seq(Int)
          /\ Len(Write(room, start, cells)) = Len(room)
          /\ \A i \in 1..Len(room) : Write(room, start, cells)[i] =
               IF i \in start + 1..start + Len(cells) THEN cells[i - start] ELSE room[i]
      BY <2>3, <2>8, WriteShape
    <3>2. Len(room) \in Nat
      BY <2>8
    <3>3. ASSUME NEW i \in 1..len PROVE buf[i] = cells[i]
      <4>1. i \in 1..Len(room) /\ i \in start + 1..start + Len(cells) /\ i - start = i
        BY <2>3, <2>8, <3>0, <3>2
      <4> QED
        BY <2>9, <3>0, <3>1, <4>1
    <3> QED
      BY <2>9, <3>0, <3>1, <3>3
  <2>11. /\ clipBuf \in [Ids -> Seq(Int)] /\ clipLen \in [Ids -> Nat]
    BY <1>3 DEF TypeOK
  <2>12. clipBuf' = [clipBuf EXCEPT ![id] = buf] /\ clipLen' = [clipLen EXCEPT ![id] = size]
    <3>1. clipPos'[id] = len
      BY <1>3, <2>4 DEF TypeOK
    <3> QED
      BY <1>13, <2>4, <2>6, <2>7, <2>9, <3>1
  <2>13. TypeOK'
    <3>1. clipBuf' \in [Ids -> Seq(Int)] /\ clipLen' \in [Ids -> Nat]
      BY <2>8, <2>10, <2>11, <2>12
    <3>2. clipPos' \in [Ids -> Nat] /\ clipPosExpect' \in [Ids -> Nat]
      BY <1>3, <2>3, <2>4 DEF TypeOK
    <3>3. clipInStream' \in [Ids -> BOOLEAN] /\ clipGrabbed' \in [Ids -> BOOLEAN]
      BY <1>3, <2>4 DEF TypeOK
    <3>4. got' \in [Ids -> [local : BOOLEAN, data : ServerData \cup {<<>>} \cup
                          {LocalData(t) : t \in Texts \cup ServerTexts}]]
      <4>1. From(TRUE, LocalData(text)) \in [local : BOOLEAN, data : ServerData \cup {<<>>} \cup
                          {LocalData(t) : t \in Texts \cup ServerTexts}]
        BY <1>5 DEF From, AllTexts
      <4> QED
        BY <1>3, <2>4, <4>1 DEF TypeOK
    <3>5. grabs' \in [Ids -> 0..1]
      <4>1. grabs \in [Ids -> 0..1] /\ \A g \in 0..1 : 1 - g \in 0..1
        BY <1>3 DEF TypeOK
      <4> QED
        BY <2>4, <4>1
    <3> QED
      BY <1>2, <1>3, <1>10, <1>11, <3>1, <3>2, <3>3, <3>4, <3>5 DEF TypeOK, AllTexts
  <2>14. /\ clipBuf'[id] = buf /\ clipLen'[id] = size /\ clipPos'[id] = len
         /\ clipInStream'[id] = FALSE /\ got'[id] = From(TRUE, LocalData(text))
         /\ stream'[id] = stream[id]
    BY <1>2, <1>3, <2>4, <2>11, <2>12 DEF TypeOK
  <2>15. Good(id)'
    <3>1. Inside(id)'
      BY <2>8, <2>10, <2>14 DEF Inside
    <3>2. Streaming(id)'
      BY <1>3, <2>14 DEF Streaming
    <3>3. Kept(id)'
      <4>1. got'[id].local = TRUE /\ got'[id].data = LocalData(text)
        BY <2>14 DEF From
      <4> QED
        BY <1>5, <2>1, <2>3, <2>8, <2>14, <4>1 DEF Kept
    <3>4. Filled(id)'
      <4>1. got'[id].data = LocalData(text)
        BY <2>14 DEF From
      <4>2. LocalData(text) \in Formats /\ LocalData(text) # <<>>
        BY <1>5, LocalShape
      <4>3. Len(cells) <= Len(buf)
        <5>1. Len(room) \in Nat
          BY <2>8
        <5> QED
          BY <2>3, <2>8, <2>10, <5>1
      <4> QED
        BY <2>1, <2>3, <2>10, <2>14, <4>1, <4>2, <4>3 DEF Filled
    <3> QED
      BY <3>1, <3>2, <3>3, <3>4 DEF Good
  <2>16. \A j \in Ids \ {id} :
           /\ clipBuf'[j] = clipBuf[j] /\ clipLen'[j] = clipLen[j]
           /\ clipPos'[j] = clipPos[j] /\ clipPosExpect'[j] = clipPosExpect[j]
           /\ clipInStream'[j] = clipInStream[j] /\ clipGrabbed'[j] = clipGrabbed[j]
           /\ stream'[j] = stream[j] /\ got'[j] = got[j]
    BY <1>2, <1>3, <2>4, <2>12 DEF TypeOK
  <2> QED
    BY <2>13, <2>15, <2>16, OneClipboard DEF IInv
<1> QED
  BY <1>2, <1>12, <1>13

-----------------------------------------------------------------------------
(* The theorems. *)

LEMMA InvStep == IInv /\ [Next]_vars => IInv'
<1> SUFFICES ASSUME IInv, [Next]_vars PROVE IInv'
  OBVIOUS
<1>1. CASE Leave
  BY <1>1, LeaveStep
<1>2. ASSUME NEW id \in Ids, ClipStart(id) PROVE IInv'
  BY <1>2, StartStep
<1>3. ASSUME NEW id \in Ids, ClipChunk(id) PROVE IInv'
  BY <1>3, ChunkStep
<1>4. ASSUME NEW id \in Ids, ClipEnd(id) PROVE IInv'
  BY <1>4, EndStep
<1>5. ASSUME NEW id \in Ids, StreamBreaks(id) PROVE IInv'
  BY <1>5, BreakStep
<1>6. ASSUME NEW id \in Ids, ClipGrab(id) PROVE IInv'
  BY <1>6, GrabAwayStep
<1>7. ASSUME NEW id \in Ids, UserCopies(id) PROVE IInv'
  BY <1>7, UserStep
<1>8. ASSUME NEW id \in Ids, Copied(id) PROVE IInv'
  BY <1>8, CopiedStep
<1>9. ASSUME NEW id \in Ids, NEW n \in DOMAIN updaters[id], UpdateClipBuf(id, n) PROVE IInv'
  BY <1>9, UpdateStep
<1>10. CASE UNCHANGED vars
  <2>1. UNCHANGED <<ctx, stream, got, grabs>> /\ UNCHANGED <<updaters, copiers>>
    BY <1>10 DEF vars
  <2>2. TypeOK
    BY DEF IInv
  <2> QED
    BY <2>1, <2>2, TextsMove DEF TypeOK, AllTexts
<1> QED
  BY <1>1, <1>2, <1>3, <1>4, <1>5, <1>6, <1>7, <1>8, <1>9, <1>10 DEF Next

LEMMA Invariant == Spec => []IInv
<1> QED
  BY InvInit, InvStep, PTL DEF Spec

(* The contexts of uSynergy.c stay well typed, and what is given to wl-copy  *)
(* are texts the user or the server sent and nothing else.                   *)
THEOREM TypeCorrect == Spec => []TypeOK
<1>1. IInv => TypeOK
  BY DEF IInv
<1> QED
  BY <1>1, Invariant, PTL

(* The packets and the desktop write, the parser reads, and the comparison   *)
(* with the first format stays, inside m_clipBuf, although the stream and    *)
(* the desktop keep two notions of its size.  Nothing is said of the         *)
(* comparison with a further format, which uSynergy.c:889 does not bound.    *)
THEOREM NothingBeyond == Spec => []InsideBuffer
<1>1. ASSUME IInv PROVE InsideBuffer
  <2>1. ASSUME NEW id \in Ids
        PROVE  /\ Inside(id)
               /\ 1 \in Headers(id) => DataAt(1) + FormatLen(id, 1) <= Len(clipBuf[id])
    <3>1. Inside(id) /\ Filled(id)
      BY <1>1 DEF IInv, Good
    <3>2. ASSUME 1 \in Headers(id) PROVE got[id].data # <<>>
      <4>1. ~clipInStream[id] /\ ~(clipLen[id] < DataAt(1))
        BY <3>2 DEF Headers
      <4>2. clipLen[id] # 0
        BY <4>1 DEF DataAt
      <4> QED
        BY <3>1, <4>1, <4>2 DEF Filled
    <3> QED
      BY <1>1, <3>1, <3>2, FirstHeader
  <2> QED
    BY <2>1 DEF Inside, InsideBuffer
<1> QED
  BY <1>1, Invariant, PTL

(* uSynergySendClipboard sends the text last copied here, whole, and nothing *)
(* of a stream from the server.                                              *)
THEOREM SendsTheCopy == Spec => []SendsWhatWasCopied
<1>1. ASSUME IInv PROVE SendsWhatWasCopied
  <2> SUFFICES ASSUME NEW id \in Ids, clipGrabbed[id]
               PROVE  ~clipInStream[id] /\ got[id].local /\ Sent(id) = Serial(got[id].data)
    BY DEF SendsWhatWasCopied
  <2>1. TypeOK /\ Inside(id) /\ Kept(id) /\ Filled(id)
    BY <1>1 DEF IInv, Good
  <2>2. PICK s : s = Serial(got[id].data)
    OBVIOUS
  <2>3. PICK buf : buf = clipBuf[id]
    OBVIOUS
  <2>5. PICK text \in AllTexts : got[id].data = LocalData(text)
    BY <2>1 DEF Kept
  <2>14. got[id].data # <<>>
    BY <2>5 DEF LocalData
  <2>4. /\ got[id].local /\ ~clipInStream[id] /\ clipPos[id] = Len(s) /\ Len(s) <= clipLen[id]
        /\ \A i \in 1..Len(s) : buf[i] = s[i]
    BY <2>1, <2>2, <2>3, <2>14 DEF Kept, Filled
  <2>6. s \in Seq(Int)
    BY <2>2, <2>5, LocalShape
  <2>7. buf \in Seq(Int) /\ clipLen[id] \in Nat /\ clipLen[id] <= Len(buf)
    BY <2>1, <2>3, Typed DEF Inside
  <2>8. Len(s) \in Nat /\ Len(buf) \in Nat
    BY <2>6, <2>7
  <2>9. 0 + Len(s) <= Len(buf) /\ \A i \in 1..Len(s) : 0 + i = i
    BY <2>4, <2>7, <2>8
  <2>10. \A i \in 1..Len(s) : buf[0 + i] = s[i]
    BY <2>4, <2>9
  <2>11. SubSeq(buf, 0 + 1, 0 + Len(s)) = s
    BY <2>6, <2>7, <2>9, <2>10, Segment
  <2>12. 0 + 1 = 1 /\ 0 + Len(s) = Len(s)
    BY <2>8
  <2>13. SubSeq(buf, 1, Len(s)) = s
    BY <2>11, <2>12
  <2> QED
    BY <2>2, <2>3, <2>4, <2>13 DEF Sent
<1> QED
  BY <1>1, Invariant, PTL

(* A text a clip-update process brings sends nothing and changes nothing if  *)
(* it is the first the buffer was last filled with, from here or, once       *)
(* m_clipLen lets the header be read, from the server.                       *)
THEOREM CopiedOnce == Spec => NoFeedback
<1> DEFINE Known(id, n) ==
             /\ UpdateClipBuf(id, n)
             /\ got[id].data # <<>> /\ got[id].data[1].text = updaters[id][n]
             /\ got[id].local \/ clipLen[id] >= DataAt(1)
<1>1. ASSUME IInv, NEW id \in Ids, NEW n \in DOMAIN updaters[id], Known(id, n)
      PROVE  UNCHANGED <<ctx, grabs>>
  <2>1. updaters[id] \in Seq(AllTexts)
    BY <1>1, Typed DEF IInv
  <2>2. updaters[id][n] \in AllTexts
    BY <2>1
  <2>3. SurelyContains(id, updaters[id][n])
    BY <1>1, <2>2, FirstFound
  <2> QED
    BY <1>1, <2>3 DEF UpdateClipBuf
<1>2. IInv => [\A id \in Ids : \A n \in DOMAIN updaters[id] :
                 Known(id, n) => UNCHANGED <<ctx, grabs>>]_vars
  <2> HIDE DEF Known
  <2> QED
    BY <1>1
<1> QED
  BY <1>2, Invariant, PTL DEF NoFeedback

(* syn_clip_cb is called for the texts of the data of the server, whole and  *)
(* in order, and for nothing else.                                           *)
THEOREM GivesTheData == Spec => GivesWhatWasSent
<1> DEFINE Gives == \A id \in Ids :
             Len(copiers'[id]) > Len(copiers[id]) =>
               copiers'[id] = copiers[id] \o TextsOf(stream[id].data)
<1>1. ASSUME IInv, Next PROVE Gives
  <2> SUFFICES ASSUME NEW id \in Ids, Len(copiers'[id]) > Len(copiers[id])
               PROVE  copiers'[id] = copiers[id] \o TextsOf(stream[id].data)
    OBVIOUS
  <2>1. TypeOK /\ copiers[id] \in Seq(AllTexts) /\ Len(copiers[id]) \in Nat
    BY <1>1, Typed DEF IInv
  <2>2. copiers'[id] # copiers[id]
    BY <2>1
  <2>3. copiers' # copiers
    BY <2>2
  <2>4. PICK j \in Ids : ClipEnd(j) \/ Copied(j)
    BY <1>1, <2>3 DEF Next, Leave, ClipStart, OpenStream, ClipChunk, StreamBreaks, ClipGrab,
                      UserCopies, UpdateClipBuf
  <2>5. CASE Copied(j)
    <3>1. copiers[j] # <<>> /\ copiers' = [copiers EXCEPT ![j] = Tail(@)]
      BY <2>5 DEF Copied
    <3>2. j = id /\ copiers'[id] = Tail(copiers[id])
      BY <2>1, <2>2, <3>1 DEF TypeOK
    <3>3. Len(Tail(copiers[id])) = Len(copiers[id]) - 1
      BY <2>1, <3>1, <3>2
    <3> QED
      BY <2>1, <3>2, <3>3
  <2>6. CASE ClipEnd(j)
    <3>1. clipInStream[j] /\ GiveTexts(j) /\ stream[j] # NoStream /\ stream[j].left = <<>>
      BY <2>3, <2>6 DEF ClipEnd
    <3>2. PICK texts : texts = TextsOf(stream[j].data)
      OBVIOUS
    <3>3. PICK parsed : parsed = Parsed(clipBuf[j], clipPosExpect[j])
      OBVIOUS
    <3>4. parsed = [ok |-> TRUE, texts |-> texts]
      BY <1>1, <3>1, <3>2, <3>3, ParsedAtEnd
    <3>5. copiers' = [copiers EXCEPT ![j] = @ \o parsed.texts]
      BY <3>1, <3>3 DEF GiveTexts
    <3>6. copiers' = [copiers EXCEPT ![j] = @ \o texts]
      BY <3>4, <3>5
    <3>7. j = id /\ copiers'[id] = copiers[id] \o texts
      BY <2>1, <2>2, <3>6 DEF TypeOK
    <3> QED
      BY <3>2, <3>7
  <2> QED
    BY <2>4, <2>5, <2>6
<1>2. IInv /\ [Next]_vars => [Gives]_vars
  BY <1>1
<1> QED
  BY <1>2, Invariant, PTL DEF Spec, GivesWhatWasSent

=============================================================================
