---------------------------- MODULE OutputsProofs ----------------------------
(***************************************************************************)
(* Outputs: the list of wayland.c and the size main.c reports are what the *)
(* compositor says, once all it said has been handled.                     *)
(*                                                                         *)
(* The argument is about the queue of events.  Of what concerns an output  *)
(* or the manager, the invariant says what the last event of each kind     *)
(* that is still waiting says, or, when none is waiting, that the list     *)
(* says it already (Settles, Shows); in which order an output's "global"   *)
(* and "remove" can still be waiting (Course); and that the manager is     *)
(* announced once (ManagerOnce).  All of it is stated with two predicates  *)
(* on queues, Free and Has, and proved to survive a step with lemmas on    *)
(* what they become when an event is taken, some are added behind or those *)
(* of one output are discarded.                                            *)
(***************************************************************************)
EXTENDS Outputs, FiniteSetTheorems, SequenceTheorems, WellFoundedInduction, TLAPS

(* A set with 0 and the successor of every member has every number.         *)
LEMMA Induction ==
  ASSUME NEW S, 0 \in S, \A n \in Nat : n \in S => n + 1 \in S
  PROVE  \A n \in Nat : n \in S
<1> SUFFICES ASSUME NEW k \in Nat, k \notin S PROVE FALSE
  OBVIOUS
<1> DEFINE T == {n \in Nat : n \notin S}
           R == OpToRel(<, Nat)
<1>1. T \subseteq Nat /\ T # {}
  OBVIOUS
<1>2. \A x, y \in Nat : x < y => <<x, y>> \in R
  BY DEF OpToRel
<1>3. IsWellFoundedOn(R, Nat)
  BY NatLessThanWellFounded
<1> HIDE DEF R
<1>4. PICK m \in T : \A n \in T : ~(<<n, m>> \in R)
  BY <1>1, <1>3, WFMin
<1>5. m # 0 /\ \A n \in T : ~(n < m)
  BY <1>2, <1>4
<1>6. m - 1 \in Nat /\ m = (m - 1) + 1 /\ m - 1 < m
  BY <1>5
<1>7. m - 1 \in S
  BY <1>5, <1>6
<1> QED
  BY <1>6, <1>7

-----------------------------------------------------------------------------
(* What is waiting in a queue.                                              *)

(* Nothing of M is waiting. *)
Free(q, M) == \A i \in 1..Len(q) : q[i] \notin M

(* One of G is waiting, with nothing of A before and nothing of B behind.   *)
Has(q, A, G, B) ==
  \E i \in 1..Len(q) : /\ q[i] \in G
                       /\ \A j \in 1..Len(q) : j < i => q[j] \notin A
                       /\ \A j \in 1..Len(q) : i < j => q[j] \notin B

(* The last of M that is waiting is of G. *)
Ends(q, G, M) == Has(q, {}, G, M)

LEMMA TailIs ==
  ASSUME NEW S, NEW q \in Seq(S), q # <<>>
  PROVE  /\ Tail(q) \in Seq(S) /\ Head(q) \in S /\ Head(q) = q[1] /\ Len(q) \in Nat \ {0}
         /\ Len(Tail(q)) = Len(q) - 1
         /\ \A i \in 1..Len(q) - 1 : Tail(q)[i] = q[i + 1]
  BY HeadTailProperties

LEMMA FreeTail ==
  ASSUME NEW S, NEW q \in Seq(S), q # <<>>, NEW M, Free(q, M)
  PROVE  Free(Tail(q), M)
<1> SUFFICES ASSUME NEW i \in 1..Len(Tail(q)) PROVE Tail(q)[i] \notin M
  BY DEF Free
<1>1. i + 1 \in 1..Len(q) /\ Tail(q)[i] = q[i + 1]
  BY TailIs
<1> QED
  BY <1>1 DEF Free

LEMMA HasTail ==
  ASSUME NEW S, NEW q \in Seq(S), q # <<>>, NEW A, NEW G, NEW B, Has(q, A, G, B)
  PROVE  \/ Has(Tail(q), A, G, B)
         \/ Head(q) \in G /\ Free(Tail(q), B)
<1>1. PICK i \in 1..Len(q) : /\ q[i] \in G
                             /\ \A j \in 1..Len(q) : j < i => q[j] \notin A
                             /\ \A j \in 1..Len(q) : i < j => q[j] \notin B
  BY DEF Has
<1>2. PICK t : t = Tail(q)
  OBVIOUS
<1>3. Len(q) \in Nat \ {0} /\ Len(t) = Len(q) - 1 /\ \A k \in 1..Len(q) - 1 : t[k] = q[k + 1]
  BY <1>2, TailIs
<1>4. CASE i = 1
  <2>1. \A k \in 1..Len(t) : k + 1 \in 1..Len(q) /\ i < k + 1
    BY <1>3, <1>4
  <2> QED
    BY <1>1, <1>2, <1>3, <1>4, <2>1, TailIs DEF Free
<1>5. CASE i # 1
  <2>1. i - 1 \in 1..Len(t) /\ t[i - 1] = q[i]
    BY <1>3, <1>5
  <2>2. \A k \in 1..Len(t) : k + 1 \in 1..Len(q) /\ (k < i - 1 => k + 1 < i) /\ (i - 1 < k => i < k + 1)
    BY <1>3, <1>5
  <2>3. Has(t, A, G, B)
    BY <1>1, <1>3, <2>1, <2>2 DEF Has
  <2> QED
    BY <1>2, <2>3
<1> QED
  BY <1>4, <1>5

LEMMA Joined ==
  ASSUME NEW S, NEW q \in Seq(S), NEW r \in Seq(S)
  PROVE  /\ q \o r \in Seq(S) /\ Len(q) \in Nat /\ Len(r) \in Nat
         /\ Len(q \o r) = Len(q) + Len(r)
         /\ \A i \in 1..Len(q) : i \in 1..Len(q) + Len(r) /\ (q \o r)[i] = q[i]
         /\ \A i \in 1..Len(r) : Len(q) + i \in 1..Len(q) + Len(r) /\ (q \o r)[Len(q) + i] = r[i]
         /\ \A i \in 1..Len(q) + Len(r) :
              i \in 1..Len(q) \/ \E j \in 1..Len(r) : i = Len(q) + j
<1>1. Len(q) \in Nat /\ Len(r) \in Nat
  OBVIOUS
<1>2. \A i \in 1..Len(q) + Len(r) : (q \o r)[i] = IF i <= Len(q) THEN q[i] ELSE r[i - Len(q)]
  BY ConcatProperties
<1>3. ASSUME NEW i \in 1..Len(r)
      PROVE  Len(q) + i \in 1..Len(q) + Len(r) /\ (q \o r)[Len(q) + i] = r[i]
  <2>1. Len(q) + i \in 1..Len(q) + Len(r) /\ ~(Len(q) + i <= Len(q)) /\ Len(q) + i - Len(q) = i
    BY <1>1
  <2>2. (q \o r)[Len(q) + i] = r[Len(q) + i - Len(q)]
    BY <1>2, <2>1
  <2> QED
    BY <2>1, <2>2
<1>4. ASSUME NEW i \in 1..Len(q) PROVE i \in 1..Len(q) + Len(r) /\ (q \o r)[i] = q[i]
  <2>1. i \in 1..Len(q) + Len(r) /\ i <= Len(q)
    BY <1>1
  <2> QED
    BY <1>2, <2>1
<1>5. ASSUME NEW i \in 1..Len(q) + Len(r), i \notin 1..Len(q)
      PROVE  \E j \in 1..Len(r) : i = Len(q) + j
  <2>1. i - Len(q) \in 1..Len(r) /\ i = Len(q) + (i - Len(q))
    BY <1>1, <1>5
  <2> QED
    BY <2>1
<1> QED
  BY <1>1, <1>3, <1>4, <1>5, ConcatProperties

LEMMA FreeJoined ==
  ASSUME NEW S, NEW q \in Seq(S), NEW r \in Seq(S), NEW M, Free(q, M), Free(r, M)
  PROVE  Free(q \o r, M)
<1> SUFFICES ASSUME NEW i \in 1..Len(q) + Len(r) PROVE (q \o r)[i] \notin M
  BY Joined DEF Free
<1>1. CASE i \in 1..Len(q)
  BY <1>1, Joined DEF Free
<1>2. ASSUME NEW j \in 1..Len(r), i = Len(q) + j PROVE (q \o r)[i] \notin M
  BY <1>2, Joined DEF Free
<1> QED
  BY <1>1, <1>2, Joined

LEMMA HasBefore ==
  ASSUME NEW S, NEW q \in Seq(S), NEW r \in Seq(S), NEW A, NEW G, NEW B,
         Has(q, A, G, B), Free(r, B)
  PROVE  Has(q \o r, A, G, B)
<1>1. PICK i \in 1..Len(q) : /\ q[i] \in G
                             /\ \A j \in 1..Len(q) : j < i => q[j] \notin A
                             /\ \A j \in 1..Len(q) : i < j => q[j] \notin B
  BY DEF Has
<1>2. PICK u : u = q \o r
  OBVIOUS
<1>3. Len(u) = Len(q) + Len(r) /\ i \in 1..Len(u) /\ u[i] \in G
  BY <1>1, <1>2, Joined
<1>4. ASSUME NEW j \in 1..Len(u) PROVE (j < i => u[j] \notin A) /\ (i < j => u[j] \notin B)
  <2>1. CASE j \in 1..Len(q)
    BY <1>1, <1>2, <2>1, Joined
  <2>2. ASSUME NEW k \in 1..Len(r), j = Len(q) + k
        PROVE  (j < i => u[j] \notin A) /\ (i < j => u[j] \notin B)
    <3>1. Len(q) \in Nat /\ ~(j < i)
      BY <2>2
    <3>2. u[j] \notin B
      BY <1>2, <2>2, Joined DEF Free
    <3> QED
      BY <3>1, <3>2
  <2> QED
    BY <1>3, <2>1, <2>2, Joined
<1>5. Has(u, A, G, B)
  BY <1>3, <1>4 DEF Has
<1> QED
  BY <1>2, <1>5

LEMMA HasBehind ==
  ASSUME NEW S, NEW q \in Seq(S), NEW r \in Seq(S), NEW A, NEW G, NEW B,
         Free(q, A), Has(r, A, G, B)
  PROVE  Has(q \o r, A, G, B)
<1>1. PICK i \in 1..Len(r) : /\ r[i] \in G
                             /\ \A j \in 1..Len(r) : j < i => r[j] \notin A
                             /\ \A j \in 1..Len(r) : i < j => r[j] \notin B
  BY DEF Has
<1>2. PICK u : u = q \o r
  OBVIOUS
<1>3. PICK m : m = Len(q) + i
  OBVIOUS
<1>4. /\ Len(u) = Len(q) + Len(r) /\ m \in 1..Len(u) /\ u[m] \in G
      /\ Len(q) \in Nat /\ Len(r) \in Nat
  BY <1>1, <1>2, <1>3, Joined
<1>5. ASSUME NEW j \in 1..Len(u) PROVE (j < m => u[j] \notin A) /\ (m < j => u[j] \notin B)
  <2>1. CASE j \in 1..Len(q)
    <3>1. ~(m < j)
      BY <1>3, <1>4, <2>1
    <3>2. u[j] \notin A
      BY <1>2, <2>1, Joined DEF Free
    <3> QED
      BY <3>1, <3>2
  <2>2. ASSUME NEW k \in 1..Len(r), j = Len(q) + k
        PROVE  (j < m => u[j] \notin A) /\ (m < j => u[j] \notin B)
    <3>1. (j < m => k < i) /\ (m < j => i < k)
      BY <1>3, <1>4, <2>2
    <3>2. u[j] = r[k]
      BY <1>2, <2>2, Joined
    <3> QED
      BY <1>1, <3>1, <3>2
  <2> QED
    BY <1>4, <2>1, <2>2, Joined
<1>6. Has(u, A, G, B)
  BY <1>4, <1>5 DEF Has
<1> QED
  BY <1>2, <1>6

LEMMA Appended ==
  ASSUME NEW S, NEW q \in Seq(S), NEW e \in S
  PROVE  /\ Append(q, e) = q \o <<e>> /\ <<e>> \in Seq(S) /\ Len(<<e>>) = 1
         /\ \A M : e \notin M => Free(<<e>>, M)
         /\ \A A, G, B : e \in G => Has(<<e>>, A, G, B)
<1>1. Append(q, e) = q \o <<e>>
  BY AppendIsConcat
<1>2. <<e>> \in Seq(S) /\ Len(<<e>>) = 1 /\ <<e>>[1] = e
  OBVIOUS
<1> QED
  BY <1>1, <1>2 DEF Free, Has

LEMMA NothingWaits ==
  ASSUME NEW S PROVE <<>> \in Seq(S) /\ Len(<<>>) = 0 /\ \A M : Free(<<>>, M)
  BY DEF Free

-----------------------------------------------------------------------------
(* FlattenSeq is defined by recursion: of what it makes of a sequence of     *)
(* sequences only what is in it and in which order is needed.               *)

Flat(ss, n, f) == f = [i \in 1..n |-> IF i = 1 THEN ss[i] ELSE f[i - 1] \o ss[i]]

(* The concatenations of the first of ss, the first two and so on exist.    *)
LEMMA FlatExists == ASSUME NEW ss, NEW n \in Nat PROVE \E f : Flat(ss, n, f)
<1> DEFINE S == {k \in Nat : \E f : Flat(ss, k, f)}
<1>1. 0 \in S
  <2> DEFINE f == [i \in 1..0 |-> <<>>]
  <2>1. Flat(ss, 0, f)
    BY DEF Flat
  <2> QED
    BY <2>1
<1>2. ASSUME NEW k \in Nat, k \in S PROVE k + 1 \in S
  <2>1. PICK f : Flat(ss, k, f)
    BY <1>2
  <2>2. f = [i \in 1..k |-> IF i = 1 THEN ss[i] ELSE f[i - 1] \o ss[i]]
    BY <2>1 DEF Flat
  <2> DEFINE g == [i \in 1..k + 1 |-> IF i \in 1..k THEN f[i]
                                      ELSE IF i = 1 THEN ss[i] ELSE f[i - 1] \o ss[i]]
             h == [i \in 1..k + 1 |-> IF i = 1 THEN ss[i] ELSE g[i - 1] \o ss[i]]
  <2>3. ASSUME NEW i \in 1..k + 1 PROVE g[i] = h[i]
    <3>1. CASE i = 1
      <4>1. h[i] = ss[i] /\ g[i] = ss[i]
        BY <2>2, <3>1
      <4> QED
        BY <4>1
    <3>2. CASE i # 1
      <4>1. i - 1 \in 1..k /\ i - 1 \in 1..k + 1
        BY <3>2
      <4>2. g[i - 1] = f[i - 1]
        BY <4>1
      <4>3. h[i] = f[i - 1] \o ss[i]
        BY <3>2, <4>2
      <4>4. g[i] = f[i - 1] \o ss[i]
        BY <2>2, <3>2
      <4> QED
        BY <4>3, <4>4
    <3> QED
      BY <3>1, <3>2
  <2>4. g = h
    BY <2>3
  <2>5. Flat(ss, k + 1, g)
    BY <2>4 DEF Flat
  <2> QED
    BY <2>5
<1> HIDE DEF S
<1>3. n \in S
  BY <1>1, <1>2, Induction
<1> QED
  BY <1>3 DEF S

LEMMA FlatLast ==
  ASSUME NEW ss, Len(ss) \in Nat \ {0}
  PROVE  \E f : Flat(ss, Len(ss), f) /\ FlattenSeq(ss) = f[Len(ss)]
<1>1. PICK f : f = CHOOSE g : g = [i \in 1..Len(ss) |-> IF i = 1 THEN ss[i] ELSE g[i - 1] \o ss[i]]
  OBVIOUS
<1>2. FlattenSeq(ss) = IF Len(ss) = 0 THEN ss ELSE f[Len(ss)]
  BY <1>1 DEF FlattenSeq
<1>3. Flat(ss, Len(ss), f)
  BY <1>1, FlatExists DEF Flat
<1> QED
  BY <1>2, <1>3

LEMMA FlatStep ==
  ASSUME NEW ss, NEW m \in Nat, NEW f, Flat(ss, m, f)
  PROVE  /\ 1 \in 1..m => f[1] = ss[1]
         /\ \A k \in Nat \ {0} : k + 1 \in 1..m => f[k + 1] = f[k] \o ss[k + 1]
<1>1. f = [i \in 1..m |-> IF i = 1 THEN ss[i] ELSE f[i - 1] \o ss[i]]
  BY Zenon DEF Flat
<1>2. \A i \in 1..m : f[i] = IF i = 1 THEN ss[i] ELSE f[i - 1] \o ss[i]
  BY <1>1, Zenon
<1>3. ASSUME NEW k \in Nat \ {0}, k + 1 \in 1..m PROVE f[k + 1] = f[k] \o ss[k + 1]
  <2>1. k + 1 # 1 /\ (k + 1) - 1 = k
    OBVIOUS
  <2>2. f[k + 1] = f[(k + 1) - 1] \o ss[k + 1]
    BY <1>2, <1>3, <2>1
  <2> QED
    BY <2>1, <2>2
<1> QED
  BY <1>2, <1>3

(* One of the first n pieces has e. *)
Piece(ss, n, e) == \E i \in 1..n : \E j \in 1..Len(ss[i]) : e = ss[i][j]

(* What is in the concatenation is in one of the pieces. *)
LEMMA FlatElements ==
  ASSUME NEW T, NEW ss \in Seq(Seq(T)), NEW f, Flat(ss, Len(ss), f), NEW n \in 1..Len(ss)
  PROVE  /\ f[n] \in Seq(T)
         /\ \A k \in 1..Len(f[n]) : Piece(ss, n, f[n][k])
<1> DEFINE P(m) == /\ f[m] \in Seq(T)
                   /\ \A k \in 1..Len(f[m]) : Piece(ss, m, f[m][k])
           S == {m \in Nat : m \in 1..Len(ss) => P(m)}
<1>0. Len(ss) \in Nat /\ \A i \in 1..Len(ss) : ss[i] \in Seq(T)
  OBVIOUS
<1>s. /\ 1 \in 1..Len(ss) => f[1] = ss[1]
      /\ \A k \in Nat \ {0} : k + 1 \in 1..Len(ss) => f[k + 1] = f[k] \o ss[k + 1]
  BY <1>0, FlatStep, Zenon
<1>1. 0 \in S
  BY <1>0
<1>2. ASSUME NEW m \in Nat, m \in S PROVE m + 1 \in S
  <2> SUFFICES ASSUME m + 1 \in 1..Len(ss) PROVE P(m + 1)
    OBVIOUS
  <2>1. CASE m = 0
    <3>1. f[m + 1] = ss[m + 1] /\ m + 1 = 1 /\ 1 \in 1..1 /\ 1 \in 1..Len(ss)
      BY <1>0, <2>1, <1>s
    <3>2. f[m + 1] \in Seq(T)
      BY <1>0, <3>1
    <3> QED
      BY <3>1, <3>2 DEF Piece
  <2>2. CASE m # 0
    <3>1. m \in 1..Len(ss)
      BY <1>0, <2>2
    <3> HIDE DEF P
    <3>2. P(m)
      BY <1>2, <3>1
    <3>3. f[m + 1] = f[m] \o ss[m + 1]
      BY <1>0, <2>2, <1>s
    <3>4. PICK q : q = f[m]
      OBVIOUS
    <3>5. PICK r : r = ss[m + 1]
      OBVIOUS
    <3>6. q \in Seq(T) /\ r \in Seq(T)
      BY <1>0, <3>2, <3>4, <3>5 DEF P
    <3>7. f[m + 1] = q \o r
      BY <3>3, <3>4, <3>5
    <3>8. f[m + 1] \in Seq(T) /\ Len(f[m + 1]) = Len(q) + Len(r)
      BY <3>6, <3>7, Joined
    <3>9. ASSUME NEW k \in 1..Len(q) + Len(r)
          PROVE  Piece(ss, m + 1, f[m + 1][k])
      <4>1. CASE k \in 1..Len(q)
        <5>1. PICK i \in 1..m : \E j \in 1..Len(ss[i]) : q[k] = ss[i][j]
          BY <3>2, <3>4, <4>1 DEF P, Piece
        <5>2. i \in 1..m + 1
          BY <5>1
        <5>3. f[m + 1][k] = q[k]
          BY <3>6, <3>7, <4>1, Joined
        <5> QED
          BY <5>1, <5>2, <5>3 DEF Piece
      <4>2. ASSUME NEW l \in 1..Len(r), k = Len(q) + l
            PROVE  Piece(ss, m + 1, f[m + 1][k])
        <5>1. f[m + 1][k] = r[l]
          BY <3>6, <3>7, <4>2, Joined
        <5>2. m + 1 \in 1..m + 1
          OBVIOUS
        <5> QED
          BY <3>5, <5>1, <5>2 DEF Piece
      <4> QED
        BY <3>6, <4>1, <4>2, Joined
    <3> QED
      BY <3>8, <3>9 DEF P
  <2> QED
    BY <2>1, <2>2
<1> HIDE DEF S
<1>3. n \in Nat
  BY <1>0
<1>4. n \in S
  BY <1>1, <1>2, <1>3, Induction
<1> QED
  BY <1>4, <1>3 DEF S

(* What is in one piece is there in the same order. *)
LEMMA FlatHas ==
  ASSUME NEW T, NEW ss \in Seq(Seq(T)), NEW f, Flat(ss, Len(ss), f), NEW i \in 1..Len(ss),
         NEW A, NEW G, NEW B, Has(ss[i], A, G, B),
         \A j \in 1..Len(ss) : j < i => Free(ss[j], A),
         \A j \in 1..Len(ss) : i < j => Free(ss[j], B)
  PROVE  Has(f[Len(ss)], A, G, B)
<1> DEFINE S == {m \in Nat : m \in i..Len(ss) => Has(f[m], A, G, B)}
<1>0. Len(ss) \in Nat /\ \A j \in 1..Len(ss) : ss[j] \in Seq(T)
  OBVIOUS
<1>s. /\ 1 \in 1..Len(ss) => f[1] = ss[1]
      /\ \A k \in Nat \ {0} : k + 1 \in 1..Len(ss) => f[k + 1] = f[k] \o ss[k + 1]
  BY <1>0, FlatStep, Zenon
<1>1. 0 \in S
  BY <1>0
<1>2. ASSUME NEW m \in Nat, m \in S PROVE m + 1 \in S
  <2> SUFFICES ASSUME m + 1 \in i..Len(ss) PROVE Has(f[m + 1], A, G, B)
    OBVIOUS
  <2>0. m + 1 \in 1..Len(ss)
    BY <1>0
  <2>1. CASE i = 1 /\ m = 0
    <3>1. f[m + 1] = ss[i]
      BY <1>0, <2>1, <1>s
    <3> QED
      BY <3>1
  <2>2. CASE m # 0
    <3>1. m \in 1..Len(ss)
      BY <1>0, <2>2
    <3>2. f[m] \in Seq(T) /\ ss[m + 1] \in Seq(T)
      BY <1>0, <2>0, <3>1, FlatElements
    <3>3. f[m + 1] = f[m] \o ss[m + 1]
      BY <1>0, <2>0, <2>2, <1>s
    <3>4. PICK q \in Seq(T) : q = f[m]
      BY <3>2
    <3>5. PICK r \in Seq(T) : r = ss[m + 1]
      BY <3>2
    <3>6. CASE i = m + 1
      <4>1. Free(q, A)
        <5> SUFFICES ASSUME NEW k \in 1..Len(q) PROVE q[k] \notin A
          BY DEF Free
        <5>0. \A n \in 1..Len(f[m]) : Piece(ss, m, f[m][n])
          BY <3>1, FlatElements, Zenon
        <5>1. PICK j \in 1..m : \E l \in 1..Len(ss[j]) : q[k] = ss[j][l]
          BY <3>4, <5>0 DEF Piece
        <5>2. j \in 1..Len(ss) /\ j < i
          BY <1>0, <3>1, <3>6
        <5> QED
          BY <5>1, <5>2 DEF Free
      <4>2. Has(r, A, G, B)
        BY <3>5, <3>6
      <4>3. Has(q \o r, A, G, B)
        BY <4>1, <4>2, HasBehind
      <4> QED
        BY <3>3, <3>4, <3>5, <4>3
    <3>7. CASE i # m + 1
      <4>1. m \in i..Len(ss) /\ i < m + 1
        BY <1>0, <2>0, <3>7
      <4>2. Has(q, A, G, B) /\ Free(r, B)
        BY <1>2, <2>0, <3>4, <3>5, <4>1
      <4>3. Has(q \o r, A, G, B)
        BY <4>2, HasBefore
      <4> QED
        BY <3>3, <3>4, <3>5, <4>3
    <3> QED
      BY <3>6, <3>7
  <2> QED
    BY <2>1, <2>2
<1> HIDE DEF S
<1>3. Len(ss) \in S
  BY <1>0, <1>1, <1>2, Induction
<1> QED
  BY <1>0, <1>3 DEF S

LEMMA Flattened ==
  ASSUME NEW T, NEW ss \in Seq(Seq(T))
  PROVE  /\ FlattenSeq(ss) \in Seq(T)
         /\ \A k \in 1..Len(FlattenSeq(ss)) :
              Piece(ss, Len(ss), FlattenSeq(ss)[k])
         /\ \A M : (\A i \in 1..Len(ss) : Free(ss[i], M)) => Free(FlattenSeq(ss), M)
<1>1. CASE Len(ss) = 0
  <2>1. FlattenSeq(ss) = <<>>
    BY <1>1 DEF FlattenSeq
  <2> QED
    BY <2>1, NothingWaits
<1>2. CASE Len(ss) # 0
  <2>1. Len(ss) \in Nat \ {0} /\ Len(ss) \in 1..Len(ss)
    BY <1>2
  <2>2. PICK f : Flat(ss, Len(ss), f) /\ FlattenSeq(ss) = f[Len(ss)]
    BY <2>1, FlatLast
  <2>3. PICK u : u = FlattenSeq(ss)
    OBVIOUS
  <2>4. /\ f[Len(ss)] \in Seq(T)
        /\ \A k \in 1..Len(f[Len(ss)]) :
             Piece(ss, Len(ss), f[Len(ss)][k])
    BY <2>1, <2>2, FlatElements, Zenon
  <2>5. /\ u \in Seq(T)
        /\ \A k \in 1..Len(u) : Piece(ss, Len(ss), u[k])
    BY <2>2, <2>3, <2>4
  <2>6. ASSUME NEW M, \A i \in 1..Len(ss) : Free(ss[i], M) PROVE Free(u, M)
    BY <2>5, <2>6 DEF Free, Piece
  <2> QED
    BY <2>3, <2>5, <2>6
<1> QED
  BY <1>1, <1>2

LEMMA FlattenedHas ==
  ASSUME NEW T, NEW ss \in Seq(Seq(T)), NEW i \in 1..Len(ss),
         NEW A, NEW G, NEW B, Has(ss[i], A, G, B),
         \A j \in 1..Len(ss) : j < i => Free(ss[j], A),
         \A j \in 1..Len(ss) : i < j => Free(ss[j], B)
  PROVE  Has(FlattenSeq(ss), A, G, B)
<1>1. Len(ss) \in Nat \ {0}
  OBVIOUS
<1>2. PICK f : Flat(ss, Len(ss), f) /\ FlattenSeq(ss) = f[Len(ss)]
  BY <1>1, FlatLast
<1> QED
  BY <1>2, FlatHas

-----------------------------------------------------------------------------
(* Those of another name, in their order. *)

Kept(list, name) == [i \in 1..Len(list) |-> IF list[i].name = name THEN <<>> ELSE <<list[i]>>]

LEMMA OthersKept ==
  ASSUME NEW T, NEW list \in Seq(T), NEW name
  PROVE  /\ Others(list, name) = FlattenSeq(Kept(list, name))
         /\ Kept(list, name) \in Seq(Seq(T)) /\ Len(Kept(list, name)) = Len(list)
         /\ \A i \in 1..Len(list) :
              Kept(list, name)[i] = IF list[i].name = name THEN <<>> ELSE <<list[i]>>
<1>1. Len(list) \in Nat /\ DOMAIN list = 1..Len(list) /\ \A i \in 1..Len(list) : list[i] \in T
  OBVIOUS
<1>2. Others(list, name) = FlattenSeq(Kept(list, name))
  BY <1>1 DEF Others, Kept
<1>3. \A i \in 1..Len(list) :
        Kept(list, name)[i] = IF list[i].name = name THEN <<>> ELSE <<list[i]>>
  BY DEF Kept
<1>4. ASSUME NEW i \in 1..Len(list) PROVE Kept(list, name)[i] \in Seq(T)
  <2>1. list[i] \in T
    BY <1>1
  <2>2. <<>> \in Seq(T) /\ <<list[i]>> \in Seq(T)
    BY <2>1
  <2> QED
    BY <1>3, <2>2
<1>5. Kept(list, name) = [i \in 1..Len(list) |-> Kept(list, name)[i]]
  BY DEF Kept
<1>6. Kept(list, name) \in [1..Len(list) -> Seq(T)]
  BY <1>4, <1>5
<1>7. Kept(list, name) \in Seq(Seq(T)) /\ Len(Kept(list, name)) = Len(list)
  BY <1>1, <1>6, SeqDef, LenProperties
<1> QED
  BY <1>2, <1>3, <1>7

LEMMA OthersElements ==
  ASSUME NEW T, NEW list \in Seq(T), NEW name
  PROVE  /\ Others(list, name) \in Seq(T)
         /\ \A k \in 1..Len(Others(list, name)) :
              \E i \in 1..Len(list) : Others(list, name)[k] = list[i] /\ list[i].name # name
         /\ \A M : Free(list, M) => Free(Others(list, name), M)
<1>0. PICK ss : ss = Kept(list, name)
  OBVIOUS
<1>1. /\ ss \in Seq(Seq(T)) /\ Others(list, name) = FlattenSeq(ss) /\ Len(ss) = Len(list)
      /\ \A i \in 1..Len(list) : ss[i] = IF list[i].name = name THEN <<>> ELSE <<list[i]>>
  BY <1>0, OthersKept
<1>2. PICK r : r = Others(list, name)
  OBVIOUS
<1>3. r \in Seq(T) /\ \A k \in 1..Len(r) : Piece(ss, Len(ss), r[k])
  BY <1>1, <1>2, Flattened
<1>4. ASSUME NEW k \in 1..Len(r)
      PROVE  \E i \in 1..Len(list) : r[k] = list[i] /\ list[i].name # name
  <2>1. PICK i \in 1..Len(list) : \E j \in 1..Len(ss[i]) : r[k] = ss[i][j]
    BY <1>1, <1>3 DEF Piece
  <2>2. PICK j \in 1..Len(ss[i]) : r[k] = ss[i][j]
    BY <2>1
  <2>3. CASE list[i].name = name
    <3>1. ss[i] = <<>>
      BY <1>1, <2>3
    <3> QED
      BY <2>2, <3>1
  <2>4. CASE list[i].name # name
    <3>1. ss[i] = <<list[i]>>
      BY <1>1, <2>4
    <3>2. r[k] = list[i]
      BY <2>2, <3>1
    <3> QED
      BY <2>4, <3>2
  <2> QED
    BY <2>3, <2>4
<1>5. ASSUME NEW M, Free(list, M) PROVE Free(r, M)
  BY <1>4, <1>5 DEF Free
<1> QED
  BY <1>2, <1>3, <1>4, <1>5

LEMMA OthersHave ==
  ASSUME NEW T, NEW list \in Seq(T), NEW name, NEW A, NEW G, NEW B,
         Has(list, A, G, B), \A e \in G : e.name # name
  PROVE  Has(Others(list, name), A, G, B)
<1>0. PICK ss : ss = Kept(list, name)
  OBVIOUS
<1>1. /\ ss \in Seq(Seq(T)) /\ Others(list, name) = FlattenSeq(ss) /\ Len(ss) = Len(list)
      /\ \A i \in 1..Len(list) : ss[i] = IF list[i].name = name THEN <<>> ELSE <<list[i]>>
  BY <1>0, OthersKept
<1>2. PICK i \in 1..Len(list) : /\ list[i] \in G
                                /\ \A j \in 1..Len(list) : j < i => list[j] \notin A
                                /\ \A j \in 1..Len(list) : i < j => list[j] \notin B
  BY DEF Has
<1>3. \A j \in 1..Len(list) : list[j] \in T
  OBVIOUS
<1>4. ASSUME NEW j \in 1..Len(list), NEW M, list[j] \notin M PROVE Free(ss[j], M)
  BY <1>1, <1>3, <1>4, NothingWaits, Appended
<1>5. Has(ss[i], A, G, B)
  <2>1. ss[i] = <<list[i]>>
    BY <1>1, <1>2
  <2> QED
    BY <1>2, <1>3, <2>1, Appended
<1>6. \A j \in 1..Len(ss) : j < i => Free(ss[j], A)
  BY <1>1, <1>2, <1>4
<1>7. \A j \in 1..Len(ss) : i < j => Free(ss[j], B)
  BY <1>1, <1>2, <1>4
<1>8. i \in 1..Len(ss)
  BY <1>1
<1> QED
  BY <1>1, <1>5, <1>6, <1>7, <1>8, FlattenedHas

(* Names that are all different stay so. *)
Distinct(list) ==
  \A i, j \in 1..Len(list) : list[i].name = list[j].name => i = j

LEMMA OthersDistinct ==
  ASSUME NEW T, NEW list \in Seq(T), NEW name, Distinct(list)
  PROVE  Distinct(Others(list, name))
<1>0. PICK ss : ss = Kept(list, name)
  OBVIOUS
<1>1. /\ ss \in Seq(Seq(T)) /\ Others(list, name) = FlattenSeq(ss) /\ Len(ss) = Len(list)
      /\ \A i \in 1..Len(list) : ss[i] = IF list[i].name = name THEN <<>> ELSE <<list[i]>>
  BY <1>0, OthersKept
<1>2. Len(list) \in Nat /\ \A i \in 1..Len(list) : list[i] \in T
  OBVIOUS
<1>3. CASE Len(ss) = 0
  <2>1. Others(list, name) = <<>>
    BY <1>1, <1>3 DEF FlattenSeq
  <2> QED
    BY <2>1 DEF Distinct
<1>4. CASE Len(ss) # 0
  <2>1. PICK f : Flat(ss, Len(ss), f) /\ FlattenSeq(ss) = f[Len(ss)]
    BY <1>1, <1>2, <1>4, FlatLast
  <2>2. /\ 1 \in 1..Len(ss) => f[1] = ss[1]
        /\ \A k \in Nat \ {0} : k + 1 \in 1..Len(ss) => f[k + 1] = f[k] \o ss[k + 1]
    <3>1. Len(ss) \in Nat
      BY <1>1, <1>2
    <3> QED
      BY <2>1, <3>1, FlatStep, Zenon
  <2>3. ASSUME NEW m \in 1..Len(ss)
        PROVE  f[m] \in Seq(T) /\ \A k \in 1..Len(f[m]) : \E i \in 1..m : f[m][k] = list[i]
    <3>1. f[m] \in Seq(T) /\ \A k \in 1..Len(f[m]) : Piece(ss, m, f[m][k])
      BY <1>1, <2>1, FlatElements, Zenon
    <3>2. ASSUME NEW k \in 1..Len(f[m]) PROVE \E i \in 1..m : f[m][k] = list[i]
      <4>1. PICK i \in 1..m : \E j \in 1..Len(ss[i]) : f[m][k] = ss[i][j]
        BY <3>1 DEF Piece
      <4>2. PICK j \in 1..Len(ss[i]) : f[m][k] = ss[i][j]
        BY <4>1
      <4>3. i \in 1..Len(list)
        BY <1>1, <1>2
      <4>4. ss[i] = <<>> \/ ss[i] = <<list[i]>>
        BY <1>1, <4>3
      <4>5. ss[i][j] = list[i]
        BY <4>2, <4>4
      <4> QED
        BY <4>2, <4>5
    <3> QED
      BY <3>1, <3>2
  <2> DEFINE S == {m \in Nat : m \in 1..Len(ss) => Distinct(f[m])}
  <2>4. 0 \in S
    BY <1>1, <1>2
  <2>5. ASSUME NEW m \in Nat, m \in S PROVE m + 1 \in S
    <3> SUFFICES ASSUME m + 1 \in 1..Len(ss) PROVE Distinct(f[m + 1])
      OBVIOUS
    <3>1. m + 1 \in 1..Len(list)
      BY <1>1
    <3>2. ss[m + 1] = <<>> \/ ss[m + 1] = <<list[m + 1]>>
      BY <1>1, <3>1
    <3>3. CASE m = 0
      <4>1. f[m + 1] = ss[m + 1]
        BY <1>1, <1>2, <2>2, <3>3
      <4>2. PICK u : u = f[m + 1]
        OBVIOUS
      <4>3. u = <<>> \/ u = <<list[m + 1]>>
        BY <3>2, <4>1, <4>2
      <4>4. Len(u) = 0 \/ Len(u) = 1
        BY <4>3
      <4> QED
        BY <4>2, <4>4 DEF Distinct
    <3>4. CASE m # 0
      <4>0. m \in Nat \ {0} /\ m \in 1..Len(ss)
        BY <1>1, <1>2, <3>4
      <4>1. m \in 1..Len(ss) /\ f[m + 1] = f[m] \o ss[m + 1]
        BY <2>2, <4>0, Zenon
      <4>2. PICK q \in Seq(T) : q = f[m]
        BY <2>3, <4>1
      <4>3. Distinct(q) /\ Len(q) \in Nat
        BY <2>5, <4>1, <4>2
      <4>4. CASE ss[m + 1] = <<>>
        <5>1. f[m + 1] = q
          BY <4>1, <4>2, <4>4, ConcatEmptySeq
        <5> QED
          BY <4>3, <5>1
      <4>5. CASE ss[m + 1] = <<list[m + 1]>>
        <5>1. PICK e \in T : e = list[m + 1]
          BY <1>2, <3>1
        <5>2. PICK u : u = q \o <<e>>
          OBVIOUS
        <5>3. /\ f[m + 1] = u /\ Len(u) = Len(q) + 1 /\ u[Len(q) + 1] = e
              /\ \A k \in 1..Len(q) : u[k] = q[k]
          <6>1. <<e>> \in Seq(T) /\ Len(<<e>>) = 1 /\ <<e>>[1] = e /\ 1 \in 1..1
            OBVIOUS
          <6> QED
            BY <4>1, <4>2, <4>5, <5>1, <5>2, <6>1, Joined
        <5>4. ASSUME NEW k \in 1..Len(q) PROVE q[k].name # e.name
          <6>1. PICK i \in 1..m : q[k] = list[i]
            BY <2>3, <4>1, <4>2
          <6>2. i \in 1..Len(list) /\ i # m + 1
            BY <1>1, <1>2, <4>1
          <6> QED
            BY <3>1, <5>1, <6>1, <6>2 DEF Distinct
        <5>5. ASSUME NEW k \in 1..Len(u), NEW l \in 1..Len(u), u[k].name = u[l].name PROVE k = l
          <6>1. (k \in 1..Len(q) \/ k = Len(q) + 1) /\ (l \in 1..Len(q) \/ l = Len(q) + 1)
            BY <4>3, <5>3
          <6> QED
            BY <4>3, <5>3, <5>4, <5>5, <6>1 DEF Distinct
        <5> QED
          BY <5>3, <5>5 DEF Distinct
      <4> QED
        BY <3>2, <4>4, <4>5
    <3> QED
      BY <3>3, <3>4
  <2> HIDE DEF S
  <2>6. Len(ss) \in S
    BY <1>1, <1>2, <2>4, <2>5, Induction
  <2>7. Distinct(f[Len(ss)])
    BY <1>1, <1>2, <1>4, <2>6 DEF S
  <2> QED
    BY <1>1, <2>1, <2>7
<1> QED
  BY <1>3, <1>4

-----------------------------------------------------------------------------
(* The size of the screen. *)

LEMMA Extremes ==
  ASSUME NEW n \in Nat, NEW h \in [1..n -> Int]
  PROVE  LET S == {0} \cup {h[i] : i \in 1..n}
         IN  /\ Max(S) \in S /\ \A y \in S : Max(S) >= y
             /\ Min(S) \in S /\ \A y \in S : Min(S) <= y
<1> DEFINE U(m) == {0} \cup {h[i] : i \in 1..m}
           S == {m \in Nat : m <= n => /\ \E x \in U(m) : \A y \in U(m) : x >= y
                                       /\ \E x \in U(m) : \A y \in U(m) : x <= y}
<1>1. 0 \in S
  <2>1. U(0) = {0}
    OBVIOUS
  <2> QED
    BY <2>1
<1>2. ASSUME NEW m \in Nat, m \in S PROVE m + 1 \in S
  <2> SUFFICES ASSUME m + 1 <= n
               PROVE  /\ \E x \in U(m + 1) : \A y \in U(m + 1) : x >= y
                      /\ \E x \in U(m + 1) : \A y \in U(m + 1) : x <= y
    OBVIOUS
  <2>1. PICK e \in Int : e = h[m + 1]
    OBVIOUS
  <2>2. 1..m + 1 = 1..m \cup {m + 1}
    OBVIOUS
  <2>3. U(m + 1) = U(m) \cup {e}
    BY <2>1, <2>2
  <2>4. U(m) \subseteq Int
    OBVIOUS
  <2> HIDE DEF U
  <2>5. PICK a \in U(m) : \A y \in U(m) : a >= y
    BY <1>2
  <2>6. PICK b \in U(m) : \A y \in U(m) : b <= y
    BY <1>2
  <2>7. \E x \in U(m) \cup {e} : \A y \in U(m) \cup {e} : x >= y
    <3>1. CASE a >= e
      BY <2>4, <2>5, <3>1
    <3>2. CASE ~(a >= e)
      <4>1. \A y \in U(m) : e >= y
        BY <2>4, <2>5, <3>2
      <4> QED
        BY <4>1
    <3> QED
      BY <3>1, <3>2
  <2>8. \E x \in U(m) \cup {e} : \A y \in U(m) \cup {e} : x <= y
    <3>1. CASE b <= e
      BY <2>4, <2>6, <3>1
    <3>2. CASE ~(b <= e)
      <4>1. \A y \in U(m) : e <= y
        BY <2>4, <2>6, <3>2
      <4>2. e \in U(m) \cup {e} /\ e <= e
        BY <2>1
      <4> QED
        BY <4>1, <4>2
    <3> QED
      BY <3>1, <3>2
  <2> QED
    BY <2>3, <2>7, <2>8
<1> HIDE DEF S
<1>3. n \in S
  BY <1>1, <1>2, Induction
<1>4. PICK V : V = U(n)
  OBVIOUS
<1>5. (\E x \in V : \A y \in V : x >= y) /\ (\E x \in V : \A y \in V : x <= y)
  BY <1>3, <1>4 DEF S
<1>6. /\ Max(V) \in V /\ \A y \in V : Max(V) >= y
      /\ Min(V) \in V /\ \A y \in V : Min(V) <= y
  BY <1>5 DEF Max, Min
<1> QED
  BY <1>4, <1>6

(* The screen has a width, whatever outputs there are. *)
LEMMA ExtentIsNat ==
  ASSUME NEW list \in Seq(Output)
  PROVE  Extent(ToSet(list)) \in Nat
<1> DEFINE n == Len(list)
           left == [i \in 1..n |-> list[i].x]
           right == [i \in 1..n |-> list[i].x + list[i].width]
           B == {0} \cup {o.x : o \in ToSet(list)}
           E == {0} \cup {o.x + o.width : o \in ToSet(list)}
<1>1. n \in Nat /\ DOMAIN list = 1..n /\ \A i \in 1..n : list[i] \in Output
  OBVIOUS
<1>2. \A i \in 1..n : list[i].x \in Int /\ list[i].x + list[i].width \in Int
  BY <1>1 DEF Output
<1>3. left \in [1..n -> Int] /\ right \in [1..n -> Int]
  BY <1>2
<1>4. B = {0} \cup {left[i] : i \in 1..n} /\ E = {0} \cup {right[i] : i \in 1..n}
  BY <1>1 DEF ToSet
<1>5. Min(B) \in B /\ \A y \in B : Min(B) <= y
  BY <1>1, <1>3, <1>4, Extremes
<1>6. Max(E) \in E /\ \A y \in E : Max(E) >= y
  BY <1>1, <1>3, <1>4, Extremes
<1>7. 0 \in B /\ 0 \in E /\ B \subseteq Int /\ E \subseteq Int
  BY <1>1, <1>2 DEF ToSet
<1> HIDE DEF B, E
<1>8. PICK a \in Int, b \in Int : a = Max(E) /\ b = Min(B) /\ a >= 0 /\ b <= 0
  BY <1>5, <1>6, <1>7
<1>9. Extent(ToSet(list)) = a - b
  BY <1>8 DEF Extent, B, E
<1> QED
  BY <1>8, <1>9

-----------------------------------------------------------------------------
(* The events.                                                              *)

Kinds == {"geometry", "mode", "scale", "position", "size", "done"}
EventSet ==
  {e \in [type : {"manager", "global", "remove"} \cup Kinds, name : Names \cup {"xdg"}, value : Int] :
     /\ e.type = "manager" <=> e.name = "xdg"
     /\ e.type \in {"mode", "size"} => e.value \in Nat}

Managers == {e \in EventSet : e.type = "manager"}
About(n) == {e \in EventSet : e.name = n}
Of(type, n) == {e \in EventSet : e.name = n /\ e.type = type}
Given(type, n, v) == {e \in EventSet : e.name = n /\ e.type = type /\ e.value = v}

LEMMA EventIs ==
  ASSUME NEW type \in {"global", "remove"} \cup Kinds, NEW n \in Names, NEW v \in Int,
         type \in {"mode", "size"} => v \in Nat
  PROVE  /\ Event(type, n, v) \in EventSet /\ Event(type, n, v).type = type
         /\ Event(type, n, v).name = n /\ Event(type, n, v).value = v
<1>1. type # "manager" /\ n # "xdg"
  BY NamesAssumption DEF Kinds
<1> QED
  BY <1>1 DEF Event, EventSet

LEMMA ManagerIs == Event("manager", "xdg", 0) \in Managers
  BY DEF Event, EventSet, Managers

LEMMA EventFacts ==
  ASSUME NEW e \in EventSet
  PROVE  /\ e.value \in Int /\ e.name \in Names \cup {"xdg"}
         /\ e.type # "manager" => e.name \in Names
         /\ e.type = "manager" => e.name = "xdg"
         /\ e.type \in {"mode", "size"} => e.value \in Nat
         /\ e.type \in {"manager", "global", "remove"} \cup Kinds
  BY DEF EventSet

(* What an output is described by: the last of each kind is right, and     *)
(* "done" closes the description.                                           *)
Says(r, n, g, xdg) ==
  /\ r \in Seq(EventSet)
  /\ Ends(r, Of("done", n), About(n))
  /\ IF xdg
     THEN /\ Ends(r, Given("position", n, g.logX), Of("position", n))
          /\ Ends(r, Given("size", n, g.logWidth), Of("size", n))
     ELSE /\ Free(r, Of("position", n)) /\ Free(r, Of("size", n))
          /\ Ends(r, Given("geometry", n, g.x), Of("geometry", n))
          /\ Ends(r, Given("mode", n, g.width), Of("mode", n))
Tells(r, n, g, xdg) ==
  Says(r, n, g, xdg) /\ \A i \in 1..Len(r) : r[i].name = n /\ r[i].type \in Kinds

LEMMA Geometry ==
  ASSUME NEW g \in Geometries
  PROVE  g.x \in Int /\ g.width \in Nat /\ g.logX \in Int /\ g.logWidth \in Nat
  BY GeometriesAssumption

LEMMA WlTells ==
  ASSUME NEW n \in Names, NEW g \in Geometries
  PROVE  /\ WlEvents(n, g) \in Seq(EventSet)
         /\ \A i \in 1..Len(WlEvents(n, g)) :
              WlEvents(n, g)[i].name = n /\ WlEvents(n, g)[i].type \in {"geometry", "mode", "scale"}
         /\ Ends(WlEvents(n, g), Given("geometry", n, g.x), Of("geometry", n))
         /\ Ends(WlEvents(n, g), Given("mode", n, g.width), Of("mode", n))
<1>1. PICK a : a = Event("geometry", n, g.x)
  OBVIOUS
<1>2. PICK b : b = Event("mode", n, g.width)
  OBVIOUS
<1>3. PICK c : c = Event("scale", n, 1)
  OBVIOUS
<1>4. /\ a \in EventSet /\ a.name = n /\ a.type = "geometry" /\ a.value = g.x
      /\ b \in EventSet /\ b.name = n /\ b.type = "mode" /\ b.value = g.width
      /\ c \in EventSet /\ c.name = n /\ c.type = "scale"
  BY <1>1, <1>2, <1>3, Geometry, EventIs DEF Kinds
<1>5. PICK r : r = <<a, b, c>>
  OBVIOUS
<1>6. WlEvents(n, g) = r
  BY <1>1, <1>2, <1>3, <1>5 DEF WlEvents
<1>7. r \in Seq(EventSet) /\ Len(r) = 3 /\ r[1] = a /\ r[2] = b /\ r[3] = c
  BY <1>4, <1>5
<1>8. Ends(r, Given("geometry", n, g.x), Of("geometry", n))
  BY <1>4, <1>7 DEF Ends, Has, Given, Of
<1>9. Ends(r, Given("mode", n, g.width), Of("mode", n))
  BY <1>4, <1>7 DEF Ends, Has, Given, Of
<1> QED
  BY <1>4, <1>6, <1>7, <1>8, <1>9

LEMMA XdgTells ==
  ASSUME NEW n \in Names, NEW g \in Geometries
  PROVE  /\ XdgEvents(n, g) \in Seq(EventSet)
         /\ \A i \in 1..Len(XdgEvents(n, g)) :
              XdgEvents(n, g)[i].name = n /\ XdgEvents(n, g)[i].type \in {"position", "size"}
         /\ Ends(XdgEvents(n, g), Given("position", n, g.logX), Of("position", n))
         /\ Ends(XdgEvents(n, g), Given("size", n, g.logWidth), Of("size", n))
<1>1. PICK a : a = Event("position", n, g.logX)
  OBVIOUS
<1>2. PICK b : b = Event("size", n, g.logWidth)
  OBVIOUS
<1>3. /\ a \in EventSet /\ a.name = n /\ a.type = "position" /\ a.value = g.logX
      /\ b \in EventSet /\ b.name = n /\ b.type = "size" /\ b.value = g.logWidth
  BY <1>1, <1>2, Geometry, EventIs DEF Kinds
<1>4. PICK r : r = <<a, b>>
  OBVIOUS
<1>5. XdgEvents(n, g) = r
  BY <1>1, <1>2, <1>4 DEF XdgEvents
<1>6. r \in Seq(EventSet) /\ Len(r) = 2 /\ r[1] = a /\ r[2] = b
  BY <1>3, <1>4
<1>7. Ends(r, Given("position", n, g.logX), Of("position", n))
  BY <1>3, <1>6 DEF Ends, Has, Given, Of
<1>8. Ends(r, Given("size", n, g.logWidth), Of("size", n))
  BY <1>3, <1>6 DEF Ends, Has, Given, Of
<1> QED
  BY <1>3, <1>5, <1>6, <1>7, <1>8

LEMMA DoneTells ==
  ASSUME NEW n \in Names
  PROVE  /\ Done(n) \in Seq(EventSet)
         /\ \A i \in 1..Len(Done(n)) : Done(n)[i].name = n /\ Done(n)[i].type = "done"
         /\ Ends(Done(n), Of("done", n), About(n))
<1>1. PICK a : a = Event("done", n, 0)
  OBVIOUS
<1>2. a \in EventSet /\ a.name = n /\ a.type = "done"
  BY <1>1, EventIs DEF Kinds
<1>3. PICK r : r = <<a>>
  OBVIOUS
<1>4. Done(n) = r
  BY <1>1, <1>3 DEF Done
<1>5. r \in Seq(EventSet) /\ Len(r) = 1 /\ r[1] = a
  BY <1>2, <1>3
<1>6. Ends(r, Of("done", n), About(n))
  BY <1>2, <1>5 DEF Ends, Has, Of
<1> QED
  BY <1>2, <1>4, <1>5, <1>6

(* Associativity, as a predicate: as an equation it would be applied to its   *)
(* own results without an end.                                              *)
Three(q, r, t) == (q \o r) \o t = q \o (r \o t)

LEMMA JoinedThree ==
  ASSUME NEW q \in Seq(EventSet), NEW r \in Seq(EventSet), NEW t \in Seq(EventSet)
  PROVE  Three(q, r, t)
<1>1. PICK S : S = EventSet
  OBVIOUS
<1>2. q \in Seq(S) /\ r \in Seq(S) /\ t \in Seq(S)
  BY <1>1
<1> QED
  BY <1>2, ConcatAssociative DEF Three

LEMMA JoinedTwo ==
  ASSUME NEW q \in Seq(EventSet), NEW r \in Seq(EventSet)
  PROVE  q \o r \in Seq(EventSet)
  OBVIOUS

Four(q, r, t, u) == ((q \o r) \o t) \o u = q \o ((r \o t) \o u)

LEMMA JoinedFour ==
  ASSUME NEW q \in Seq(EventSet), NEW r \in Seq(EventSet), NEW t \in Seq(EventSet), NEW u \in Seq(EventSet)
  PROVE  Four(q, r, t, u)
<1>1. PICK y : y = r \o t
  OBVIOUS
<1>2. y \in Seq(EventSet)
  BY <1>1
<1>3. Three(q, r, t) /\ Three(q, y, u)
  BY <1>2, JoinedThree
<1> QED
  BY <1>1, <1>3 DEF Three, Four

LEMMA AppendedEvent ==
  ASSUME NEW q \in Seq(EventSet), NEW e \in EventSet
  PROVE  /\ Append(q, e) = q \o <<e>> /\ <<e>> \in Seq(EventSet) /\ q \o <<e>> \in Seq(EventSet)
         /\ \A M : e \notin M => Free(<<e>>, M)
         /\ \A A, G, B : e \in G => Has(<<e>>, A, G, B)
<1>1. <<e>> \in Seq(EventSet) /\ Len(<<e>>) = 1 /\ <<e>>[1] = e
  OBVIOUS
<1> QED
  BY <1>1, AppendIsConcat, Joined DEF Free, Has

(* Two pieces, each of its own kinds. *)
LEMMA ToldBefore ==
  ASSUME NEW q \in Seq(EventSet), NEW r \in Seq(EventSet), NEW G, NEW type, NEW n,
         Ends(q, G, Of(type, n)), \A i \in 1..Len(r) : r[i].type # type
  PROVE  Ends(q \o r, G, Of(type, n))
<1>1. Free(r, Of(type, n))
  BY DEF Free, Of
<1> QED
  BY <1>1, HasBefore DEF Ends

LEMMA ToldBehind ==
  ASSUME NEW q \in Seq(EventSet), NEW r \in Seq(EventSet), NEW G, NEW M, Ends(r, G, M)
  PROVE  Ends(q \o r, G, M)
<1>1. Free(q, {})
  BY DEF Free
<1> QED
  BY <1>1, HasBehind DEF Ends

LEMMA AllJoined ==
  ASSUME NEW S, NEW q \in Seq(S), NEW r \in Seq(S), NEW n, NEW K, NEW L,
         \A i \in 1..Len(q) : q[i].name = n /\ q[i].type \in K,
         \A i \in 1..Len(r) : r[i].name = n /\ r[i].type \in L
  PROVE  \A i \in 1..Len(q \o r) : (q \o r)[i].name = n /\ (q \o r)[i].type \in K \cup L
<1> SUFFICES ASSUME NEW i \in 1..Len(q) + Len(r)
             PROVE  (q \o r)[i].name = n /\ (q \o r)[i].type \in K \cup L
  BY Joined
<1>1. CASE i \in 1..Len(q)
  BY <1>1, Joined
<1>2. ASSUME NEW j \in 1..Len(r), i = Len(q) + j
      PROVE  (q \o r)[i].name = n /\ (q \o r)[i].type \in K \cup L
  BY <1>2, Joined
<1> QED
  BY <1>1, <1>2, Joined

LEMMA Described0 ==
  ASSUME NEW n \in Names, NEW g \in Geometries
  PROVE  Tells(WlEvents(n, g) \o Done(n), n, g, FALSE)
<1>1. PICK w : w = WlEvents(n, g)
  OBVIOUS
<1>2. PICK d : d = Done(n)
  OBVIOUS
<1>3. /\ w \in Seq(EventSet)
      /\ \A i \in 1..Len(w) : w[i].name = n /\ w[i].type \in {"geometry", "mode", "scale"}
      /\ Ends(w, Given("geometry", n, g.x), Of("geometry", n))
      /\ Ends(w, Given("mode", n, g.width), Of("mode", n))
  BY <1>1, WlTells
<1>4. /\ d \in Seq(EventSet) /\ \A i \in 1..Len(d) : d[i].name = n /\ d[i].type \in {"done"}
      /\ Ends(d, Of("done", n), About(n))
  BY <1>2, DoneTells
<1>5. PICK r : r = w \o d
  OBVIOUS
<1>6. r \in Seq(EventSet)
  BY <1>3, <1>4, <1>5, Joined
<1>7. \A i \in 1..Len(r) : r[i].name = n /\ r[i].type \in {"geometry", "mode", "scale"} \cup {"done"}
  BY <1>3, <1>4, <1>5, AllJoined
<1>8. /\ \A i \in 1..Len(r) : r[i].name = n /\ r[i].type \in Kinds
      /\ Free(r, Of("position", n)) /\ Free(r, Of("size", n))
  BY <1>7 DEF Free, Of, Kinds
<1>9. Ends(r, Of("done", n), About(n))
  BY <1>3, <1>4, <1>5, ToldBehind
<1>10. \A i \in 1..Len(d) : d[i].type # "geometry" /\ d[i].type # "mode"
  BY <1>4
<1>11. /\ Ends(r, Given("geometry", n, g.x), Of("geometry", n))
       /\ Ends(r, Given("mode", n, g.width), Of("mode", n))
  BY <1>3, <1>4, <1>5, <1>10, ToldBefore
<1> QED
  BY <1>1, <1>2, <1>5, <1>6, <1>8, <1>9, <1>11 DEF Tells, Says

LEMMA Described1 ==
  ASSUME NEW n \in Names, NEW g \in Geometries
  PROVE  /\ Tells(XdgEvents(n, g) \o Done(n), n, g, TRUE)
         /\ Tells((XdgEvents(n, g) \o WlEvents(n, g)) \o Done(n), n, g, TRUE)
         /\ Tells((WlEvents(n, g) \o XdgEvents(n, g)) \o Done(n), n, g, TRUE)
<1>1. PICK w : w = WlEvents(n, g)
  OBVIOUS
<1>2. PICK d : d = Done(n)
  OBVIOUS
<1>3. PICK x : x = XdgEvents(n, g)
  OBVIOUS
<1>4. /\ w \in Seq(EventSet)
      /\ \A i \in 1..Len(w) : w[i].name = n /\ w[i].type \in {"geometry", "mode", "scale"}
  BY <1>1, WlTells
<1>5. /\ d \in Seq(EventSet) /\ \A i \in 1..Len(d) : d[i].name = n /\ d[i].type \in {"done"}
      /\ Ends(d, Of("done", n), About(n))
  BY <1>2, DoneTells
<1>6. /\ x \in Seq(EventSet)
      /\ \A i \in 1..Len(x) : x[i].name = n /\ x[i].type \in {"position", "size"}
      /\ Ends(x, Given("position", n, g.logX), Of("position", n))
      /\ Ends(x, Given("size", n, g.logWidth), Of("size", n))
  BY <1>3, XdgTells
<1>7. ASSUME NEW p \in Seq(EventSet), \A i \in 1..Len(p) : p[i].name = n /\ p[i].type \in Kinds,
             Ends(p, Given("position", n, g.logX), Of("position", n)),
             Ends(p, Given("size", n, g.logWidth), Of("size", n))
      PROVE  Tells(p \o d, n, g, TRUE)
  <2>1. PICK r : r = p \o d
    OBVIOUS
  <2>2. r \in Seq(EventSet)
    BY <1>5, <2>1, Joined
  <2>3. \A i \in 1..Len(r) : r[i].name = n /\ r[i].type \in Kinds \cup {"done"}
    BY <1>5, <1>7, <2>1, AllJoined
  <2>4. \A i \in 1..Len(r) : r[i].name = n /\ r[i].type \in Kinds
    BY <2>3 DEF Kinds
  <2>5. Ends(r, Of("done", n), About(n))
    BY <1>5, <2>1, ToldBehind
  <2>6. \A i \in 1..Len(d) : d[i].type # "position" /\ d[i].type # "size"
    BY <1>5
  <2>7. /\ Ends(r, Given("position", n, g.logX), Of("position", n))
        /\ Ends(r, Given("size", n, g.logWidth), Of("size", n))
    BY <1>5, <1>7, <2>1, <2>6, ToldBefore
  <2> QED
    BY <2>1, <2>2, <2>4, <2>5, <2>7 DEF Tells, Says
<1>8. Tells(x \o d, n, g, TRUE)
  <2>1. \A i \in 1..Len(x) : x[i].name = n /\ x[i].type \in Kinds
    BY <1>6 DEF Kinds
  <2> QED
    BY <1>6, <1>7, <2>1
<1>9. Tells((x \o w) \o d, n, g, TRUE)
  <2>1. PICK p : p = x \o w
    OBVIOUS
  <2>2. p \in Seq(EventSet)
    BY <1>4, <1>6, <2>1, Joined
  <2>3. \A i \in 1..Len(p) : p[i].name = n /\ p[i].type \in {"position", "size"} \cup {"geometry", "mode", "scale"}
    BY <1>4, <1>6, <2>1, AllJoined
  <2>4. \A i \in 1..Len(p) : p[i].name = n /\ p[i].type \in Kinds
    BY <2>3 DEF Kinds
  <2>5. \A i \in 1..Len(w) : w[i].type # "position" /\ w[i].type # "size"
    BY <1>4
  <2>6. /\ Ends(p, Given("position", n, g.logX), Of("position", n))
        /\ Ends(p, Given("size", n, g.logWidth), Of("size", n))
    BY <1>4, <1>6, <2>1, <2>5, ToldBefore
  <2> QED
    BY <1>7, <2>1, <2>2, <2>4, <2>6
<1>10. Tells((w \o x) \o d, n, g, TRUE)
  <2>1. PICK p : p = w \o x
    OBVIOUS
  <2>2. p \in Seq(EventSet)
    BY <1>4, <1>6, <2>1, Joined
  <2>3. \A i \in 1..Len(p) : p[i].name = n /\ p[i].type \in {"geometry", "mode", "scale"} \cup {"position", "size"}
    BY <1>4, <1>6, <2>1, AllJoined
  <2>4. \A i \in 1..Len(p) : p[i].name = n /\ p[i].type \in Kinds
    BY <2>3 DEF Kinds
  <2>5. /\ Ends(p, Given("position", n, g.logX), Of("position", n))
        /\ Ends(p, Given("size", n, g.logWidth), Of("size", n))
    BY <1>4, <1>6, <2>1, ToldBehind
  <2> QED
    BY <1>7, <2>1, <2>2, <2>4, <2>5
<1> QED
  BY <1>1, <1>2, <1>3, <1>8, <1>9, <1>10

-----------------------------------------------------------------------------
(* What is waiting of an output that a step of the queue is not about.      *)

Untouched(q, p, n) ==
  \A A, G, B \in SUBSET About(n) : /\ Free(q, B) => Free(p, B)
                                   /\ Has(q, A, G, B) => Has(p, A, G, B)

LEMMA UntouchedBySame == ASSUME NEW q, NEW n PROVE Untouched(q, q, n)
  BY DEF Untouched

LEMMA UntouchedTwice ==
  ASSUME NEW q, NEW p, NEW r, NEW n, Untouched(q, p, n), Untouched(p, r, n)
  PROVE  Untouched(q, r, n)
  BY DEF Untouched

LEMMA UntouchedByMore ==
  ASSUME NEW q \in Seq(EventSet), NEW r \in Seq(EventSet), NEW n,
         \A i \in 1..Len(r) : r[i].name # n
  PROVE  Untouched(q, q \o r, n)
<1> SUFFICES ASSUME NEW A \in SUBSET About(n), NEW G \in SUBSET About(n), NEW B \in SUBSET About(n)
             PROVE  /\ Free(q, B) => Free(q \o r, B)
                    /\ Has(q, A, G, B) => Has(q \o r, A, G, B)
  BY DEF Untouched
<1>1. Free(r, B)
  BY DEF Free, About
<1> QED
  BY <1>1, FreeJoined, HasBefore

LEMMA UntouchedByOne ==
  ASSUME NEW q \in Seq(EventSet), NEW e \in EventSet, NEW n, e.name # n
  PROVE  Untouched(q, q \o <<e>>, n)
<1>1. <<e>> \in Seq(EventSet) /\ \A i \in 1..Len(<<e>>) : <<e>>[i] = e
  OBVIOUS
<1> QED
  BY <1>1, UntouchedByMore

LEMMA UntouchedByTail ==
  ASSUME NEW q \in Seq(EventSet), q # <<>>, NEW n, Head(q).name # n
  PROVE  Untouched(q, Tail(q), n)
<1> SUFFICES ASSUME NEW A \in SUBSET About(n), NEW G \in SUBSET About(n), NEW B \in SUBSET About(n)
             PROVE  /\ Free(q, B) => Free(Tail(q), B)
                    /\ Has(q, A, G, B) => Has(Tail(q), A, G, B)
  BY DEF Untouched
<1>1. Head(q) \notin G
  BY DEF About
<1> QED
  BY <1>1, FreeTail, HasTail

LEMMA UntouchedByOthers ==
  ASSUME NEW q \in Seq(EventSet), NEW name, NEW n, name # n
  PROVE  Untouched(q, Others(q, name), n)
<1> SUFFICES ASSUME NEW A \in SUBSET About(n), NEW G \in SUBSET About(n), NEW B \in SUBSET About(n)
             PROVE  /\ Free(q, B) => Free(Others(q, name), B)
                    /\ Has(q, A, G, B) => Has(Others(q, name), A, G, B)
  BY DEF Untouched
<1>1. \A e \in G : e.name # name
  BY DEF About
<1> QED
  BY <1>1, OthersElements, OthersHave

(* The first that is waiting of A is the first of the queue. *)
LEMMA HasHead ==
  ASSUME NEW S, NEW q \in Seq(S), q # <<>>, NEW A, NEW G, NEW B, Has(q, A, G, B), Head(q) \in A
  PROVE  Head(q) \in G /\ Free(Tail(q), B)
<1>1. PICK i \in 1..Len(q) : /\ q[i] \in G
                             /\ \A j \in 1..Len(q) : j < i => q[j] \notin A
                             /\ \A j \in 1..Len(q) : i < j => q[j] \notin B
  BY DEF Has
<1>2. Len(q) \in Nat \ {0} /\ Head(q) = q[1] /\ 1 \in 1..Len(q)
  BY TailIs
<1>3. i = 1
  BY <1>1, <1>2
<1>4. ASSUME NEW k \in 1..Len(Tail(q)) PROVE Tail(q)[k] \notin B
  <2>1. k + 1 \in 1..Len(q) /\ 1 < k + 1 /\ Tail(q)[k] = q[k + 1]
    BY TailIs
  <2> QED
    BY <1>1, <1>3, <2>1
<1> QED
  BY <1>1, <1>2, <1>3, <1>4 DEF Free

LEMMA HasNot ==
  ASSUME NEW q, NEW A, NEW G, NEW B, Has(q, A, G, B), Free(q, G)
  PROVE  FALSE
  BY DEF Has, Free

LEMMA FreeLess ==
  ASSUME NEW q, NEW M, NEW N, Free(q, M), N \subseteq M
  PROVE  Free(q, N)
  BY DEF Free

LEMMA NotFree ==
  ASSUME NEW q \in Seq(EventSet), q # <<>>, NEW M, Head(q) \in M
  PROVE  ~Free(q, M)
<1>1. Head(q) = q[1] /\ 1 \in 1..Len(q)
  BY TailIs
<1> QED
  BY <1>1 DEF Free

-----------------------------------------------------------------------------
(* The invariant.                                                           *)

ManagerOnce ==
  /\ IF announced /\ ~outputManager THEN Has(events, Managers, Managers, Managers)
                                    ELSE Free(events, Managers)
  /\ outputManager => announced
  /\ \A o \in ToSet(outputs) : o.xdg = outputManager
  /\ \A o \in ToSet(outputs) : o.name \in DOMAIN bound => bound[o.name] = outputManager

(* An output is announced once, then listed, then removed for good. *)
Course(n) ==
  /\ n \in DOMAIN layout => n \notin gone /\ Free(events, Of("remove", n))
  /\ n \notin DOMAIN layout /\ n \notin gone =>
       Free(events, About(n)) /\ n \notin Known /\ n \notin DOMAIN bound
  /\ \/ Free(events, Of("global", n))
     \/ /\ n \notin Known /\ n \notin DOMAIN bound
        /\ Has(events, About(n), Of("global", n), About(n) \ Of("remove", n))
  /\ n \in gone /\ (n \in Known \/ ~Free(events, Of("global", n))) =>
       Ends(events, Of("remove", n), About(n))

(* The last that is waiting says v, or nothing is waiting and it is now. *)
Settles(q, type, n, v, now) ==
  \/ Ends(q, Given(type, n, v), Of(type, n))
  \/ Free(q, Of(type, n)) /\ now

(* When what is waiting has been handled, o is complete and shows g. *)
Shows(q, o, g, xdg) ==
  /\ \/ Ends(q, Of("done", o.name), About(o.name))
     \/ Free(q, About(o.name)) /\ o.complete
  /\ IF xdg
     THEN /\ Settles(q, "position", o.name, g.logX, o.haveLogPos /\ o.x = g.logX)
          /\ Settles(q, "size", o.name, g.logWidth, o.haveLogSize /\ o.width = g.logWidth)
     ELSE /\ ~o.haveLogPos /\ ~o.haveLogSize
          /\ Free(q, Of("position", o.name)) /\ Free(q, Of("size", o.name))
          /\ Settles(q, "geometry", o.name, g.x, o.x = g.x)
          /\ Settles(q, "mode", o.name, g.width, o.width = g.width)

Described ==
  \A o \in ToSet(outputs) : o.name \in DOMAIN layout =>
    o.name \in DOMAIN bound /\ Shows(events, o, layout[o.name], outputManager)

Measured ==
  /\ manualSize => reported = None
  /\ ~running => manualSize
  /\ reported # None /\ (\A o \in ToSet(outputs) : o.complete) => reported = Extent(ToSet(outputs))

IInv ==
  /\ TypeOK /\ events \in Seq(EventSet)
  /\ ManagerOnce /\ Distinct(outputs) /\ (\A n \in Names : Course(n)) /\ Described /\ Measured

-----------------------------------------------------------------------------
(* Its parts under the steps that are not about them.                       *)

LEMMA Sets ==
  ASSUME NEW n \in Names, NEW type, NEW v
  PROVE  /\ Of(type, n) \in SUBSET About(n) /\ Given(type, n, v) \in SUBSET About(n)
         /\ Given(type, n, v) \subseteq Of(type, n)
         /\ About(n) \in SUBSET About(n) /\ {} \in SUBSET About(n)
         /\ (About(n) \ Of(type, n)) \in SUBSET About(n)
  BY DEF About, Of, Given

LEMMA InSet ==
  ASSUME NEW S, NEW s \in Seq(S)
  PROVE  /\ \A e : e \in ToSet(s) <=> \E i \in 1..Len(s) : e = s[i]
         /\ ToSet(s) \subseteq S /\ DOMAIN s = 1..Len(s) /\ Len(s) \in Nat
  BY DEF ToSet

LEMMA CourseUntouched ==
  ASSUME NEW n \in Names, Untouched(events, events', n), Course(n),
         n \in DOMAIN layout' <=> n \in DOMAIN layout, n \in gone' <=> n \in gone,
         n \in Known' => n \in Known, n \in DOMAIN bound' => n \in DOMAIN bound
  PROVE  Course(n)'
<1> DEFINE remove == Of("remove", n)
           global == Of("global", n)
           rest == About(n) \ Of("remove", n)
<1>1. /\ remove \in SUBSET About(n) /\ global \in SUBSET About(n) /\ rest \in SUBSET About(n)
      /\ About(n) \in SUBSET About(n) /\ {} \in SUBSET About(n)
  BY Sets
<1> HIDE DEF remove, global, rest
<1>2. /\ Free(events, remove) => Free(events', remove)
      /\ Free(events, global) => Free(events', global)
      /\ Free(events, About(n)) => Free(events', About(n))
      /\ Has(events, About(n), global, rest) => Has(events', About(n), global, rest)
      /\ Has(events, {}, remove, About(n)) => Has(events', {}, remove, About(n))
  BY <1>1 DEF Untouched
<1> QED
  BY <1>2 DEF Course, Ends, remove, global, rest

LEMMA SettlesUntouched ==
  ASSUME NEW n \in Names, NEW q, NEW p, Untouched(q, p, n), NEW type, NEW v, NEW now,
         Settles(q, type, n, v, now)
  PROVE  Settles(p, type, n, v, now)
  BY Sets DEF Settles, Ends, Untouched

LEMMA ShowsUntouched ==
  ASSUME NEW o \in Output, NEW q, NEW p, Untouched(q, p, o.name), NEW g, NEW xdg,
         Shows(q, o, g, xdg)
  PROVE  Shows(p, o, g, xdg)
<1>1. o.name \in Names
  BY DEF Output
<1>2. \/ Ends(p, Of("done", o.name), About(o.name))
      \/ Free(p, About(o.name)) /\ o.complete
  BY <1>1, Sets DEF Shows, Ends, Untouched
<1>3. CASE xdg
  BY <1>1, <1>2, <1>3, SettlesUntouched DEF Shows
<1>4. CASE ~xdg
  <2>1. Free(p, Of("position", o.name)) /\ Free(p, Of("size", o.name))
    BY <1>1, <1>4, Sets DEF Shows, Untouched
  <2> QED
    BY <1>1, <1>2, <1>4, <2>1, SettlesUntouched DEF Shows
<1> QED
  BY <1>3, <1>4

(* A description that is on its way is right in the end. *)
LEMMA ShowsTold ==
  ASSUME NEW o \in Output, NEW g, NEW xdg \in BOOLEAN,
         NEW q \in Seq(EventSet), NEW r, Says(r, o.name, g, xdg),
         ~xdg => /\ ~o.haveLogPos /\ ~o.haveLogSize
                 /\ Free(q, Of("position", o.name)) /\ Free(q, Of("size", o.name))
  PROVE  Shows(q \o r, o, g, xdg)
<1>1. r \in Seq(EventSet)
  BY DEF Says
<1>2. Ends(q \o r, Of("done", o.name), About(o.name))
  BY <1>1, ToldBehind DEF Says
<1>3. CASE xdg
  <2>1. /\ Ends(q \o r, Given("position", o.name, g.logX), Of("position", o.name))
        /\ Ends(q \o r, Given("size", o.name, g.logWidth), Of("size", o.name))
    BY <1>1, <1>3, ToldBehind DEF Says
  <2> QED
    BY <1>2, <1>3, <2>1 DEF Shows, Settles
<1>4. CASE ~xdg
  <2>1. /\ Ends(q \o r, Given("geometry", o.name, g.x), Of("geometry", o.name))
        /\ Ends(q \o r, Given("mode", o.name, g.width), Of("mode", o.name))
    BY <1>1, <1>4, ToldBehind DEF Says
  <2>2. Free(q \o r, Of("position", o.name)) /\ Free(q \o r, Of("size", o.name))
    BY <1>1, <1>4, FreeJoined DEF Says
  <2> QED
    BY <1>2, <1>4, <2>1, <2>2 DEF Shows, Settles
<1> QED
  BY <1>3, <1>4

(* One event is handled. *)
LEMMA SettlesTail ==
  ASSUME NEW q \in Seq(EventSet), q # <<>>, NEW type, NEW n, NEW v, NEW now, NEW then,
         Settles(q, type, n, v, now),
         Head(q) \in Given(type, n, v) => then,
         Head(q) \notin Of(type, n) /\ now => then
  PROVE  Settles(Tail(q), type, n, v, then)
<1>1. CASE Ends(q, Given(type, n, v), Of(type, n))
  <2>1. \/ Has(Tail(q), {}, Given(type, n, v), Of(type, n))
        \/ Head(q) \in Given(type, n, v) /\ Free(Tail(q), Of(type, n))
    BY <1>1, HasTail DEF Ends
  <2> QED
    BY <2>1 DEF Settles, Ends
<1>2. CASE Free(q, Of(type, n)) /\ now
  <2>1. Head(q) \notin Of(type, n) /\ Free(Tail(q), Of(type, n))
    BY <1>2, NotFree, FreeTail
  <2> QED
    BY <1>2, <2>1 DEF Settles
<1> QED
  BY <1>1, <1>2 DEF Settles

(* The types, without the sets of functions. *)
Map(f, R) == f = [n \in DOMAIN f |-> f[n]] /\ DOMAIN f \subseteq Names /\ \A n \in DOMAIN f : f[n] \in R

LEMMA PartialIs == ASSUME NEW f, NEW R PROVE f \in Partial(R) <=> Map(f, R)
<1>1. ASSUME f \in Partial(R) PROVE Map(f, R)
  <2>1. PICK D \in SUBSET Names : f \in [D -> R]
    BY <1>1 DEF Partial
  <2> QED
    BY <2>1 DEF Map
<1>2. ASSUME Map(f, R) PROVE f \in Partial(R)
  <2>1. DOMAIN f \in SUBSET Names /\ f \in [DOMAIN f -> R]
    BY <1>2 DEF Map
  <2> QED
    BY <2>1 DEF Partial
<1> QED
  BY <1>1, <1>2

LEMMA WithoutIs ==
  ASSUME NEW f, NEW R, Map(f, R), NEW n
  PROVE  /\ Map(Without(f, n), R) /\ DOMAIN Without(f, n) = DOMAIN f \ {n}
         /\ \A m \in DOMAIN f : m # n => Without(f, n)[m] = f[m]
  BY DEF Map, Without

-----------------------------------------------------------------------------
(* The steps of the compositor.                                             *)

LEMMA Listed ==
  ASSUME TypeOK, NEW o \in ToSet(outputs)
  PROVE  o \in Output /\ o.name \in Known /\ o.name \in Names
<1>1. o \in Output
  BY InSet DEF TypeOK
<1> QED
  BY <1>1 DEF Known, Output

LEMMA InvInit == Init => IInv
<1> SUFFICES ASSUME Init PROVE IInv
  OBVIOUS
<1>1. /\ outputs = <<>> /\ events = <<>> /\ layout = <<>> /\ bound = <<>> /\ gone = {}
      /\ ~announced /\ ~outputManager /\ reported = None /\ running = TRUE /\ changes = 0
      /\ announced \in BOOLEAN /\ outputManager \in BOOLEAN /\ manualSize \in BOOLEAN
  BY DEF Init
<1>2. ToSet(outputs) = {} /\ Known = {} /\ DOMAIN layout = {} /\ DOMAIN bound = {}
  BY <1>1 DEF ToSet, Known
<1>3. Map(<<>>, Geometries) /\ Map(<<>>, BOOLEAN)
  <2>1. <<>> = [n \in DOMAIN <<>> |-> <<>>[n]] /\ DOMAIN <<>> = {}
    OBVIOUS
  <2> QED
    BY <2>1 DEF Map
<1>4. TypeOK
  <2>1. layout \in Partial(Geometries) /\ bound \in Partial(BOOLEAN)
    BY <1>1, <1>3, PartialIs
  <2> QED
    BY <1>1, <2>1, SwitchesAssumption DEF TypeOK
<1>5. events \in Seq(EventSet) /\ \A M : Free(events, M)
  BY <1>1, NothingWaits
<1>6. ManagerOnce /\ Described /\ Measured
  BY <1>1, <1>2, <1>5 DEF ManagerOnce, Described, Measured
<1>7. Distinct(outputs)
  BY <1>1 DEF Distinct
<1>8. \A n \in Names : Course(n)
  BY <1>1, <1>2, <1>5 DEF Course
<1> QED
  BY <1>4, <1>5, <1>6, <1>7, <1>8 DEF IInv

LEMMA PlugStep == ASSUME IInv, NEW n \in Names, Plug(n) PROVE IInv'
<1>1. PICK g \in Geometries : layout' = With(layout, n, g)
  BY DEF Plug
<1>2. PICK e : e = Event("global", n, 0)
  OBVIOUS
<1>3. e \in EventSet /\ e.name = n /\ e.type = "global"
  BY <1>2, EventIs
<1>4. events \in Seq(EventSet) /\ events' = events \o <<e>> /\ <<e>> \in Seq(EventSet)
  BY <1>2, <1>3, AppendedEvent DEF Plug, IInv
<1>5. /\ \A M : e \notin M => Free(<<e>>, M)
      /\ \A A, G, B : e \in G => Has(<<e>>, A, G, B)
  BY <1>3, <1>4, AppendedEvent
<1>6. events' \in Seq(EventSet)
  BY <1>4, Joined
<1>7. /\ n \notin DOMAIN layout /\ n \notin gone
      /\ outputs' = outputs /\ outputManager' = outputManager /\ reported' = reported
      /\ manualSize' = manualSize /\ running' = running /\ bound' = bound /\ gone' = gone
      /\ announced' = announced /\ changes' = changes
  BY DEF Plug, client
<1>8. Map(layout, Geometries) /\ Map(layout', Geometries) /\ DOMAIN layout' = DOMAIN layout \cup {n}
      /\ \A m \in DOMAIN layout : m # n => layout'[m] = layout[m]
  <2>1. Map(layout, Geometries)
    BY PartialIs DEF IInv, TypeOK
  <2> QED
    BY <1>1, <2>1 DEF Map, With
<1>9. TypeOK'
  <2>1. layout' \in Partial(Geometries)
    BY <1>8, PartialIs
  <2> QED
    BY <1>7, <2>1 DEF IInv, TypeOK
<1>10. Known' = Known
  BY <1>7 DEF Known
<1>11. n \notin Known /\ n \notin DOMAIN bound /\ Free(events, About(n))
  BY <1>7 DEF IInv, Course
<1>12. \A m : m # n => Untouched(events, events', m)
  BY <1>3, <1>4, UntouchedByOne
<1>13. ManagerOnce'
  <2>1. e \notin Managers
    BY <1>3 DEF Managers
  <2>2. Free(<<e>>, Managers)
    BY <1>5, <2>1
  <2>3. IF announced /\ ~outputManager THEN Has(events', Managers, Managers, Managers)
                                       ELSE Free(events', Managers)
    BY <1>4, <2>2, HasBefore, FreeJoined DEF IInv, ManagerOnce
  <2> QED
    BY <1>7, <2>3 DEF IInv, ManagerOnce
<1>14. ASSUME NEW m \in Names PROVE Course(m)'
  <2>1. CASE m # n
    BY <1>7, <1>8, <1>10, <1>12, <2>1, CourseUntouched DEF IInv
  <2>2. CASE m = n
    <3>1. e \notin Of("remove", n) /\ e \in Of("global", n)
      BY <1>3 DEF Of
    <3>2. Has(<<e>>, About(n), Of("global", n), About(n) \ Of("remove", n))
      BY <1>5, <3>1
    <3>3. Has(events', About(n), Of("global", n), About(n) \ Of("remove", n))
      BY <1>4, <1>11, <3>2, HasBehind
    <3>4. Free(events', Of("remove", n))
      <4>1. Free(events, Of("remove", n))
        BY <1>11, Sets, FreeLess
      <4> QED
        BY <1>4, <1>5, <3>1, <4>1, FreeJoined
    <3> QED
      BY <1>7, <1>8, <1>10, <1>11, <2>2, <3>3, <3>4 DEF Course
  <2> QED
    BY <2>1, <2>2
<1>15. Described'
  <2> SUFFICES ASSUME NEW o \in ToSet(outputs), o.name \in DOMAIN layout'
               PROVE  o.name \in DOMAIN bound /\ Shows(events', o, layout'[o.name], outputManager)
    BY <1>7 DEF Described
  <2>1. o \in Output /\ o.name \in Known
    BY Listed DEF IInv
  <2>2. o.name # n /\ o.name \in DOMAIN layout /\ layout'[o.name] = layout[o.name]
    BY <1>8, <1>11, <2>1
  <2>3. o.name \in DOMAIN bound /\ Shows(events, o, layout[o.name], outputManager)
    BY <2>2 DEF IInv, Described
  <2> QED
    BY <1>12, <2>1, <2>2, <2>3, ShowsUntouched
<1>16. Distinct(outputs)' /\ Measured'
  BY <1>7 DEF IInv, Distinct, Measured
<1> QED
  BY <1>6, <1>9, <1>13, <1>14, <1>15, <1>16 DEF IInv

LEMMA UnplugStep == ASSUME IInv, NEW n \in Names, Unplug(n) PROVE IInv'
<1>2. PICK e : e = Event("remove", n, 0)
  OBVIOUS
<1>3. e \in EventSet /\ e.name = n /\ e.type = "remove"
  BY <1>2, EventIs
<1>4. events \in Seq(EventSet) /\ events' = events \o <<e>> /\ <<e>> \in Seq(EventSet)
  BY <1>2, <1>3, AppendedEvent DEF Unplug, IInv
<1>5. /\ \A M : e \notin M => Free(<<e>>, M)
      /\ \A A, G, B : e \in G => Has(<<e>>, A, G, B)
  BY <1>3, <1>4, AppendedEvent
<1>6. events' \in Seq(EventSet)
  BY <1>4, Joined
<1>7. /\ n \in DOMAIN layout /\ layout' = Without(layout, n)
      /\ outputs' = outputs /\ outputManager' = outputManager /\ reported' = reported
      /\ manualSize' = manualSize /\ running' = running /\ bound' = bound /\ gone' = gone \cup {n}
      /\ announced' = announced /\ changes' = changes
  BY DEF Unplug, client
<1>8. Map(layout', Geometries) /\ DOMAIN layout' = DOMAIN layout \ {n}
      /\ \A m \in DOMAIN layout : m # n => layout'[m] = layout[m]
  <2>1. Map(layout, Geometries)
    BY PartialIs DEF IInv, TypeOK
  <2> QED
    BY <1>7, <2>1, WithoutIs
<1>9. TypeOK'
  <2>1. layout' \in Partial(Geometries)
    BY <1>8, PartialIs
  <2> QED
    BY <1>7, <2>1 DEF IInv, TypeOK
<1>10. Known' = Known
  BY <1>7 DEF Known
<1>12. \A m : m # n => Untouched(events, events', m)
  BY <1>3, <1>4, UntouchedByOne
<1>13. ManagerOnce'
  <2>1. e \notin Managers
    BY <1>3 DEF Managers
  <2>2. Free(<<e>>, Managers)
    BY <1>5, <2>1
  <2>3. IF announced /\ ~outputManager THEN Has(events', Managers, Managers, Managers)
                                       ELSE Free(events', Managers)
    BY <1>4, <2>2, HasBefore, FreeJoined DEF IInv, ManagerOnce
  <2> QED
    BY <1>7, <2>3 DEF IInv, ManagerOnce
<1>14. ASSUME NEW m \in Names PROVE Course(m)'
  <2>1. CASE m # n
    BY <1>7, <1>8, <1>10, <1>12, <2>1, CourseUntouched DEF IInv
  <2>2. CASE m = n
    <3>1. /\ e \in Of("remove", n) /\ e \notin Of("global", n)
          /\ e \notin About(n) \ Of("remove", n)
      BY <1>3 DEF Of
    <3>2. Has(<<e>>, {}, Of("remove", n), About(n))
      BY <1>5, <3>1
    <3>3. Ends(events', Of("remove", n), About(n))
      BY <1>4, <3>2, ToldBehind DEF Ends
    <3>4. Free(<<e>>, Of("global", n)) /\ Free(<<e>>, About(n) \ Of("remove", n))
      BY <1>5, <3>1
    <3>5. \/ Free(events', Of("global", n))
          \/ /\ n \notin Known /\ n \notin DOMAIN bound
             /\ Has(events', About(n), Of("global", n), About(n) \ Of("remove", n))
      BY <1>4, <3>4, FreeJoined, HasBefore DEF IInv, Course
    <3>6. n \notin DOMAIN layout' /\ n \in gone'
      BY <1>7, <1>8
    <3> QED
      BY <1>7, <1>10, <2>2, <3>3, <3>5, <3>6 DEF Course
  <2> QED
    BY <2>1, <2>2
<1>15. Described'
  <2> SUFFICES ASSUME NEW o \in ToSet(outputs), o.name \in DOMAIN layout'
               PROVE  o.name \in DOMAIN bound /\ Shows(events', o, layout'[o.name], outputManager)
    BY <1>7 DEF Described
  <2>1. o \in Output /\ o.name \in Known
    BY Listed DEF IInv
  <2>2. o.name # n /\ o.name \in DOMAIN layout /\ layout'[o.name] = layout[o.name]
    BY <1>8, <2>1
  <2>3. o.name \in DOMAIN bound /\ Shows(events, o, layout[o.name], outputManager)
    BY <2>2 DEF IInv, Described
  <2> QED
    BY <1>12, <2>1, <2>2, <2>3, ShowsUntouched
<1>16. Distinct(outputs)' /\ Measured'
  BY <1>7 DEF IInv, Distinct, Measured
<1> QED
  BY <1>6, <1>9, <1>13, <1>14, <1>15, <1>16 DEF IInv

LEMMA AnnounceStep == ASSUME IInv, Announce PROVE IInv'
<1>2. PICK e : e = Event("manager", "xdg", 0)
  OBVIOUS
<1>3. e \in Managers /\ e \in EventSet /\ e.name = "xdg"
  BY <1>2, ManagerIs DEF Managers, EventSet
<1>4. events \in Seq(EventSet) /\ events' = events \o <<e>> /\ <<e>> \in Seq(EventSet)
  BY <1>2, <1>3, AppendedEvent DEF Announce, IInv
<1>5. Has(<<e>>, Managers, Managers, Managers)
  BY <1>3, <1>4, AppendedEvent
<1>6. events' \in Seq(EventSet)
  BY <1>4, Joined
<1>7. /\ ~announced /\ announced' = TRUE /\ layout' = layout
      /\ outputs' = outputs /\ outputManager' = outputManager /\ reported' = reported
      /\ manualSize' = manualSize /\ running' = running /\ bound' = bound /\ gone' = gone
      /\ changes' = changes
  BY DEF Announce, client
<1>9. TypeOK'
  BY <1>7 DEF IInv, TypeOK
<1>10. Known' = Known
  BY <1>7 DEF Known
<1>12. \A m \in Names : Untouched(events, events', m)
  <2>1. \A m \in Names : m # "xdg"
    BY NamesAssumption
  <2> QED
    BY <1>3, <1>4, <2>1, UntouchedByOne
<1>13. ManagerOnce'
  <2>1. ~outputManager /\ Free(events, Managers)
    BY <1>7 DEF IInv, ManagerOnce
  <2>2. Has(events', Managers, Managers, Managers)
    BY <1>4, <1>5, <2>1, HasBehind
  <2> QED
    BY <1>7, <2>1, <2>2 DEF IInv, ManagerOnce
<1>14. \A m \in Names : Course(m)'
  BY <1>7, <1>10, <1>12, CourseUntouched DEF IInv
<1>15. Described'
  <2> SUFFICES ASSUME NEW o \in ToSet(outputs), o.name \in DOMAIN layout
               PROVE  o.name \in DOMAIN bound /\ Shows(events', o, layout[o.name], outputManager)
    BY <1>7 DEF Described
  <2>1. o \in Output /\ o.name \in Names
    BY Listed DEF IInv
  <2>2. o.name \in DOMAIN bound /\ Shows(events, o, layout[o.name], outputManager)
    BY DEF IInv, Described
  <2> QED
    BY <1>12, <2>1, <2>2, ShowsUntouched
<1>16. Distinct(outputs)' /\ Measured'
  BY <1>7 DEF IInv, Distinct, Measured
<1> QED
  BY <1>6, <1>9, <1>13, <1>14, <1>15, <1>16 DEF IInv

LEMMA ChangeStep == ASSUME IInv, NEW n \in Names, Change(n) PROVE IInv'
<1>1. PICK g \in Geometries :
        /\ layout' = [layout EXCEPT ![n] = g]
        /\ \/ n \notin DOMAIN bound /\ UNCHANGED events
           \/ n \in DOMAIN bound /\ ~bound[n] /\ events' = events \o WlEvents(n, g) \o Done(n)
           \/ n \in DOMAIN bound /\ bound[n] /\ events' = events \o XdgEvents(n, g) \o WlEvents(n, g) \o Done(n)
  BY DEF Change
<1>2. /\ n \in DOMAIN layout /\ changes < MaxChanges /\ changes' = changes + 1
      /\ outputs' = outputs /\ outputManager' = outputManager /\ reported' = reported
      /\ manualSize' = manualSize /\ running' = running /\ bound' = bound /\ gone' = gone
      /\ announced' = announced
  BY DEF Change, client
<1>3. events \in Seq(EventSet) /\ Map(layout, Geometries) /\ Map(bound, BOOLEAN)
  BY PartialIs DEF IInv, TypeOK
<1>4. /\ Map(layout', Geometries) /\ DOMAIN layout' = DOMAIN layout /\ layout'[n] = g
      /\ \A m \in DOMAIN layout : m # n => layout'[m] = layout[m]
  BY <1>1, <1>2, <1>3 DEF Map
<1>5. \/ n \notin DOMAIN bound /\ events' = events
      \/ n \in DOMAIN bound /\ \E r : Tells(r, n, g, bound[n]) /\ events' = events \o r
  <2>1. CASE n \notin DOMAIN bound
    BY <1>1, <2>1
  <2>2. CASE n \in DOMAIN bound /\ ~bound[n]
    <3>1. bound[n] = FALSE
      BY <1>3, <2>2 DEF Map
    <3>2. WlEvents(n, g) \in Seq(EventSet) /\ Done(n) \in Seq(EventSet)
      BY WlTells, DoneTells
    <3>3. events' = events \o (WlEvents(n, g) \o Done(n))
      BY <1>1, <1>3, <2>2, <3>2, JoinedThree DEF Three
    <3> QED
      BY <2>2, <3>1, <3>3, Described0
  <2>3. CASE n \in DOMAIN bound /\ bound[n]
    <3>1. bound[n] = TRUE
      BY <1>3, <2>3 DEF Map
    <3>2. PICK x \in Seq(EventSet), w \in Seq(EventSet), d \in Seq(EventSet) :
            x = XdgEvents(n, g) /\ w = WlEvents(n, g) /\ d = Done(n)
      BY XdgTells, WlTells, DoneTells
    <3>5. events' = events \o ((x \o w) \o d)
      <4>1. events' = ((events \o x) \o w) \o d
        BY <1>1, <2>3, <3>2
      <4>2. Four(events, x, w, d)
        BY <1>3, JoinedFour
      <4> QED
        BY <4>1, <4>2 DEF Four
    <3>6. Tells((x \o w) \o d, n, g, TRUE)
      BY <3>2, Described1
    <3> QED
      BY <2>3, <3>1, <3>5, <3>6
  <2> QED
    BY <2>1, <2>2, <2>3
<1>6. /\ events' \in Seq(EventSet)
      /\ \A m : m # n => Untouched(events, events', m)
      /\ Free(events, Managers) => Free(events', Managers)
      /\ Has(events, Managers, Managers, Managers) => Has(events', Managers, Managers, Managers)
      /\ Free(events, Of("global", n)) => Free(events', Of("global", n))
      /\ Free(events, Of("remove", n)) => Free(events', Of("remove", n))
  <2>1. CASE events' = events
    BY <1>3, <2>1, UntouchedBySame
  <2>2. ASSUME NEW r, Tells(r, n, g, bound[n]), events' = events \o r
        PROVE  <1>6!1 /\ <1>6!2 /\ <1>6!3 /\ <1>6!4 /\ <1>6!5 /\ <1>6!6
    <3>1. r \in Seq(EventSet) /\ \A i \in 1..Len(r) : r[i].name = n /\ r[i].type \in Kinds
      BY <2>2 DEF Tells, Says
    <3>2. Free(r, Managers) /\ Free(r, Of("global", n)) /\ Free(r, Of("remove", n))
      BY <3>1 DEF Free, Managers, Of, Kinds
    <3>3. events' \in Seq(EventSet)
      BY <1>3, <2>2, <3>1, Joined
    <3>4. \A m : m # n => Untouched(events, events', m)
      BY <1>3, <2>2, <3>1, UntouchedByMore
    <3> QED
      BY <1>3, <2>2, <3>1, <3>2, <3>3, <3>4, FreeJoined, HasBefore
  <2> QED
    BY <1>5, <2>1, <2>2
<1>9. TypeOK'
  <2>1. layout' \in Partial(Geometries)
    BY <1>4, PartialIs
  <2>2. changes' \in 0..MaxChanges
    BY <1>2, SwitchesAssumption DEF IInv, TypeOK
  <2> QED
    BY <1>2, <2>1, <2>2 DEF IInv, TypeOK
<1>10. Known' = Known
  BY <1>2 DEF Known
<1>13. ManagerOnce'
  BY <1>2, <1>6 DEF IInv, ManagerOnce
<1>14. ASSUME NEW m \in Names PROVE Course(m)'
  <2>1. CASE m # n
    BY <1>2, <1>4, <1>6, <1>10, <2>1, CourseUntouched DEF IInv
  <2>2. CASE m = n /\ events' = events
    <3>1. Untouched(events, events', m)
      BY <2>2, UntouchedBySame
    <3> QED
      BY <1>2, <1>4, <1>10, <3>1, CourseUntouched DEF IInv
  <2>3. CASE m = n /\ n \in DOMAIN bound
    <3>1. Free(events', Of("global", n)) /\ Free(events', Of("remove", n)) /\ n \notin gone
      BY <1>2, <1>6, <2>3 DEF IInv, Course
    <3> QED
      BY <1>2, <1>4, <2>3, <3>1 DEF Course
  <2> QED
    BY <1>5, <2>1, <2>2, <2>3
<1>15. Described'
  <2> SUFFICES ASSUME NEW o \in ToSet(outputs), o.name \in DOMAIN layout'
               PROVE  o.name \in DOMAIN bound /\ Shows(events', o, layout'[o.name], outputManager)
    BY <1>2 DEF Described
  <2>1. o \in Output /\ o.name \in Known
    BY Listed DEF IInv
  <2>2. o.name \in DOMAIN layout
    BY <1>4
  <2>3. o.name \in DOMAIN bound /\ Shows(events, o, layout[o.name], outputManager)
    BY <2>2 DEF IInv, Described
  <2>4. CASE o.name # n
    BY <1>4, <1>6, <2>1, <2>2, <2>3, <2>4, ShowsUntouched
  <2>5. CASE o.name = n
    <3>1. bound[n] = outputManager /\ outputManager \in BOOLEAN
      BY <2>3, <2>5 DEF IInv, ManagerOnce, TypeOK
    <3>2. PICK r : Says(r, n, g, bound[n]) /\ events' = events \o r
      BY <1>5, <2>3, <2>5 DEF Tells
    <3>3. ~outputManager => /\ ~o.haveLogPos /\ ~o.haveLogSize
                            /\ Free(events, Of("position", o.name)) /\ Free(events, Of("size", o.name))
      BY <2>3 DEF Shows
    <3> QED
      BY <1>3, <1>4, <2>1, <2>3, <2>5, <3>1, <3>2, <3>3, ShowsTold
  <2> QED
    BY <2>4, <2>5
<1>16. Distinct(outputs)' /\ Measured'
  BY <1>2 DEF IInv, Distinct, Measured
<1> QED
  BY <1>6, <1>9, <1>13, <1>14, <1>15, <1>16 DEF IInv

-----------------------------------------------------------------------------
(* The steps of the client.                                                 *)

LEMMA Arrived ==
  ASSUME IInv, NEW type, Arrives(type)
  PROVE  /\ events \in Seq(EventSet) /\ events # <<>> /\ Head(events) \in EventSet
         /\ Head(events).type = type /\ Name = Head(events).name /\ Value = Head(events).value
         /\ Tail(events) \in Seq(EventSet)
<1>1. events \in Seq(EventSet) /\ events # <<>> /\ Head(events).type = type
  BY DEF IInv, Arrives
<1> QED
  BY <1>1, TailIs DEF Name, Value

LEMMA ToSetAppended ==
  ASSUME NEW S, NEW s \in Seq(S), NEW e \in S
  PROVE  /\ Append(s, e) \in Seq(S) /\ ToSet(Append(s, e)) = ToSet(s) \cup {e}
         /\ Len(Append(s, e)) = Len(s) + 1 /\ Append(s, e)[Len(s) + 1] = e
         /\ \A i \in 1..Len(s) : Append(s, e)[i] = s[i]
<1>1. PICK u : u = Append(s, e)
  OBVIOUS
<1>2. Len(s) \in Nat
  OBVIOUS
<1>3. /\ u \in Seq(S) /\ Len(u) = Len(s) + 1 /\ u[Len(s) + 1] = e
      /\ \A i \in 1..Len(s) : u[i] = s[i]
  BY <1>1, AppendProperties
<1>4. \A i : i \in 1..Len(u) <=> i \in 1..Len(s) \/ i = Len(s) + 1
  BY <1>2, <1>3
<1>5. ToSet(u) = ToSet(s) \cup {e}
  BY <1>3, <1>4, InSet
<1> QED
  BY <1>1, <1>3, <1>5

LEMMA GlobalOutputStep == ASSUME IInv, GlobalOutput PROVE IInv'
<1>1. Arrives("global")
  BY DEF GlobalOutput
<1>2. PICK e \in EventSet : e = Head(events)
  BY <1>1, Arrived
<1>3. PICK q \in Seq(EventSet) : q = Tail(events)
  BY <1>1, Arrived
<1>4. /\ events \in Seq(EventSet) /\ events # <<>> /\ Head(events) = e /\ Tail(events) = q
      /\ e.type = "global" /\ Name = e.name
  BY <1>1, <1>2, <1>3, Arrived
<1>5. PICK n \in Names : n = e.name
  BY <1>4, EventFacts
<1>6. PICK new : new = [name |-> n, xdg |-> outputManager, complete |-> FALSE, haveLogPos |-> FALSE,
                        haveLogSize |-> FALSE, x |-> 0, width |-> 0]
  OBVIOUS
<1>7. /\ outputs' = Append(outputs, new)
      /\ outputManager' = outputManager /\ reported' = reported /\ manualSize' = manualSize
      /\ running' = running /\ layout' = layout /\ gone' = gone /\ announced' = announced
      /\ changes' = changes
  BY <1>4, <1>5, <1>6 DEF GlobalOutput, compositor
<1>8. /\ outputs \in Seq(Output) /\ outputManager \in BOOLEAN
      /\ Map(layout, Geometries) /\ Map(bound, BOOLEAN)
  BY PartialIs DEF IInv, TypeOK
<1>9. new \in Output /\ new.name = n /\ new.xdg = outputManager /\ ~new.complete
      /\ ~new.haveLogPos /\ ~new.haveLogSize
  <2>1. 0 \in Int /\ 0 \in Nat /\ FALSE \in BOOLEAN
    OBVIOUS
  <2> QED
    BY <1>6, <1>8, <2>1 DEF Output
<1>10. /\ outputs' \in Seq(Output) /\ ToSet(outputs') = ToSet(outputs) \cup {new}
       /\ Len(outputs') = Len(outputs) + 1 /\ outputs'[Len(outputs) + 1] = new
       /\ \A i \in 1..Len(outputs) : outputs'[i] = outputs[i]
  BY <1>7, <1>8, <1>9, ToSetAppended
<1>11. Known' = Known \cup {n}
  BY <1>9, <1>10 DEF Known
<1>12. /\ n \notin Known /\ n \notin DOMAIN bound
       /\ Free(q, About(n) \ Of("remove", n)) /\ e \in About(n)
  <2>1. e \in Of("global", n) /\ e \in About(n)
    BY <1>4, <1>5 DEF Of, About
  <2>2. ~Free(events, Of("global", n))
    BY <1>4, <2>1, NotFree
  <2>3. /\ n \notin Known /\ n \notin DOMAIN bound
        /\ Has(events, About(n), Of("global", n), About(n) \ Of("remove", n))
    BY <2>2 DEF IInv, Course
  <2> QED
    BY <1>4, <2>1, <2>3, HasHead
<1>13. \/ /\ n \in DOMAIN layout /\ bound' = With(bound, n, outputManager)
          /\ \E r : Tells(r, n, layout[n], outputManager) /\ events' = q \o r
       \/ n \notin DOMAIN layout /\ bound' = bound /\ events' = q
  <2>1. CASE n \in DOMAIN layout
    <3>1. PICK g \in Geometries : g = layout[n]
      BY <1>8, <2>1 DEF Map
    <3>2. PICK x \in Seq(EventSet), w \in Seq(EventSet), d \in Seq(EventSet) :
            x = XdgEvents(n, g) /\ w = WlEvents(n, g) /\ d = Done(n)
      BY XdgTells, WlTells, DoneTells
    <3>3. /\ bound' = With(bound, n, outputManager)
          /\ events' = q \o w \o (IF outputManager THEN x ELSE <<>>) \o d
      BY <1>4, <1>5, <2>1, <3>1, <3>2 DEF GlobalOutput
    <3>4. CASE outputManager
      <4>1. events' = q \o ((w \o x) \o d)
        <5>1. events' = ((q \o w) \o x) \o d
          BY <3>3, <3>4
        <5>2. Four(q, w, x, d)
          BY JoinedFour
        <5> QED
          BY <5>1, <5>2 DEF Four
      <4> QED
        BY <1>8, <2>1, <3>1, <3>2, <3>3, <3>4, <4>1, Described1
    <3>5. CASE ~outputManager
      <4>1. PICK y \in Seq(EventSet) : y = q \o w
        BY JoinedTwo
      <4>2. y \o <<>> = y
        BY ConcatEmptySeq
      <4>3. events' = q \o (w \o d)
        <5>1. events' = y \o d
          BY <3>3, <3>5, <4>1, <4>2
        <5> QED
          BY <4>1, <5>1, JoinedThree DEF Three
      <4>4. outputManager = FALSE
        BY <1>8, <3>5
      <4> QED
        BY <2>1, <3>1, <3>2, <3>3, <4>3, <4>4, Described0
    <3> QED
      BY <3>4, <3>5
  <2>2. CASE n \notin DOMAIN layout
    BY <1>4, <1>5, <2>2 DEF GlobalOutput
  <2> QED
    BY <2>1, <2>2
<1>14. /\ events' \in Seq(EventSet)
       /\ \A m : m # n => Untouched(events, events', m)
       /\ IF announced /\ ~outputManager THEN Has(events', Managers, Managers, Managers)
                                         ELSE Free(events', Managers)
       /\ Free(events', Of("global", n))
       /\ Free(events, Of("remove", n)) => Free(events', Of("remove", n))
  <2>1. \A m : m # n => Untouched(events, q, m)
    BY <1>4, <1>5, UntouchedByTail
  <2>2. e \notin Managers
    BY <1>4 DEF Managers
  <2>3. IF announced /\ ~outputManager THEN Has(q, Managers, Managers, Managers)
                                       ELSE Free(q, Managers)
    BY <1>4, <2>2, HasTail, FreeTail DEF IInv, ManagerOnce
  <2>4. Free(q, Of("global", n))
    <3>1. Of("global", n) \subseteq About(n) \ Of("remove", n)
      BY DEF Of, About
    <3> QED
      BY <1>12, <3>1, FreeLess
  <2>5. Free(events, Of("remove", n)) => Free(q, Of("remove", n))
    BY <1>4, FreeTail
  <2>6. CASE events' = q
    BY <2>1, <2>3, <2>4, <2>5, <2>6
  <2>7. ASSUME NEW r, Tells(r, n, layout[n], outputManager), events' = q \o r
        PROVE  <1>14!1 /\ <1>14!2 /\ <1>14!3 /\ <1>14!4 /\ <1>14!5
    <3>1. r \in Seq(EventSet) /\ \A i \in 1..Len(r) : r[i].name = n /\ r[i].type \in Kinds
      BY <2>7 DEF Tells, Says
    <3>2. Free(r, Managers) /\ Free(r, Of("global", n)) /\ Free(r, Of("remove", n))
      BY <3>1 DEF Free, Managers, Of, Kinds
    <3>3. events' \in Seq(EventSet)
      BY <2>7, <3>1, Joined
    <3>4. ASSUME NEW m, m # n PROVE Untouched(events, events', m)
      <4>1. Untouched(q, events', m)
        BY <2>7, <3>1, <3>4, UntouchedByMore
      <4> QED
        BY <2>1, <3>4, <4>1, UntouchedTwice
    <3>5. IF announced /\ ~outputManager THEN Has(events', Managers, Managers, Managers)
                                         ELSE Free(events', Managers)
      BY <2>3, <2>7, <3>1, <3>2, FreeJoined, HasBefore
    <3>6. /\ Free(events', Of("global", n))
          /\ Free(events, Of("remove", n)) => Free(events', Of("remove", n))
      BY <2>4, <2>5, <2>7, <3>1, <3>2, FreeJoined
    <3> QED
      BY <3>3, <3>4, <3>5, <3>6
  <2> QED
    BY <1>13, <2>6, <2>7
<1>15. /\ Map(bound', BOOLEAN) /\ DOMAIN bound \subseteq DOMAIN bound'
       /\ DOMAIN bound' \subseteq DOMAIN bound \cup {n}
       /\ n \in DOMAIN layout => n \in DOMAIN bound'
       /\ n \in DOMAIN bound' => bound'[n] = outputManager
       /\ \A m \in DOMAIN bound : bound'[m] = bound[m]
  <2>1. CASE bound' = bound /\ n \notin DOMAIN layout
    BY <1>8, <1>12, <2>1
  <2>2. CASE bound' = With(bound, n, outputManager)
    BY <1>8, <1>12, <2>2 DEF Map, With
  <2> QED
    BY <1>13, <2>1, <2>2
<1>16. TypeOK'
  <2>1. bound' \in Partial(BOOLEAN)
    BY <1>15, PartialIs
  <2> QED
    BY <1>7, <1>10, <2>1 DEF IInv, TypeOK
<1>17. ManagerOnce'
  <2>1. ASSUME NEW o \in ToSet(outputs'), o.name \in DOMAIN bound' PROVE bound'[o.name] = outputManager
    <3>1. CASE o.name = n
      BY <1>15, <2>1, <3>1
    <3>2. CASE o.name # n
      <4>1. o \in ToSet(outputs) /\ o.name \in DOMAIN bound
        BY <1>9, <1>10, <1>15, <2>1, <3>2
      <4> QED
        BY <1>15, <4>1 DEF IInv, ManagerOnce
    <3> QED
      BY <3>1, <3>2
  <2>2. \A o \in ToSet(outputs') : o.xdg = outputManager
    BY <1>9, <1>10 DEF IInv, ManagerOnce
  <2> QED
    BY <1>7, <1>14, <2>1, <2>2 DEF IInv, ManagerOnce
<1>18. ASSUME NEW m \in Names PROVE Course(m)'
  <2>1. CASE m # n
    BY <1>7, <1>11, <1>14, <1>15, <2>1, CourseUntouched DEF IInv
  <2>2. CASE m = n
    <3>1. n \in DOMAIN layout \/ n \in gone
      <4>1. ~Free(events, About(n))
        BY <1>4, <1>12, NotFree
      <4> QED
        BY <4>1 DEF IInv, Course
    <3>2. n \in DOMAIN layout => n \notin gone /\ Free(events', Of("remove", n))
      BY <1>14 DEF IInv, Course
    <3>3. n \in gone => Ends(events', Of("remove", n), About(n))
      <4>1. SUFFICES ASSUME n \in gone PROVE Ends(events', Of("remove", n), About(n))
        OBVIOUS
      <4>2. events' = q
        BY <1>13, <3>2, <4>1
      <4>3. e \notin Of("remove", n) /\ e \in Of("global", n)
        BY <1>4, <1>5 DEF Of
      <4>4. ~Free(events, Of("global", n))
        BY <1>4, <4>3, NotFree
      <4>5. Ends(events, Of("remove", n), About(n))
        BY <4>1, <4>4 DEF IInv, Course
      <4> QED
        BY <1>4, <4>2, <4>3, <4>5, HasTail DEF Ends
    <3> QED
      BY <1>7, <1>14, <2>2, <3>1, <3>2, <3>3 DEF Course
  <2> QED
    BY <2>1, <2>2
<1>19. Described'
  <2> SUFFICES ASSUME NEW o \in ToSet(outputs'), o.name \in DOMAIN layout
               PROVE  o.name \in DOMAIN bound' /\ Shows(events', o, layout[o.name], outputManager)
    BY <1>7 DEF Described
  <2>1. CASE o \in ToSet(outputs)
    <3>1. o \in Output /\ o.name \in Known
      BY <2>1, Listed DEF IInv
    <3>2. o.name \in DOMAIN bound /\ Shows(events, o, layout[o.name], outputManager)
      BY <2>1 DEF IInv, Described
    <3>3. o.name # n
      BY <1>12, <3>1
    <3> QED
      BY <1>14, <1>15, <3>1, <3>2, <3>3, ShowsUntouched
  <2>2. CASE o = new
    <3>1. n \in DOMAIN layout
      BY <1>9, <2>2
    <3>2. PICK r : Says(r, n, layout[n], outputManager) /\ events' = q \o r
      BY <1>13, <3>1 DEF Tells
    <3>3. Of("position", n) \subseteq About(n) \ Of("remove", n) /\ Of("size", n) \subseteq About(n) \ Of("remove", n)
      BY DEF Of, About
    <3>4. Free(q, Of("position", n)) /\ Free(q, Of("size", n))
      BY <1>12, <3>3, FreeLess
    <3>5. Shows(q \o r, o, layout[n], outputManager)
      BY <1>8, <1>9, <2>2, <3>2, <3>4, ShowsTold
    <3> QED
      BY <1>9, <1>15, <2>2, <3>1, <3>2, <3>5
  <2> QED
    BY <1>10, <2>1, <2>2
<1>20. Distinct(outputs)'
  <2> SUFFICES ASSUME NEW i \in 1..Len(outputs'), NEW j \in 1..Len(outputs'),
                      outputs'[i].name = outputs'[j].name
               PROVE  i = j
    BY DEF Distinct
  <2>1. Len(outputs) \in Nat
    BY <1>8
  <2>2. \A k \in 1..Len(outputs') : k \in 1..Len(outputs) \/ k = Len(outputs) + 1
    BY <1>10, <2>1
  <2>3. \A k \in 1..Len(outputs) : outputs'[k].name # n
    <3>1. \A k \in 1..Len(outputs) : outputs[k] \in ToSet(outputs)
      BY <1>8, InSet
    <3> QED
      BY <1>10, <1>12, <3>1 DEF Known
  <2>4. Distinct(outputs)
    BY DEF IInv
  <2> QED
    BY <1>9, <1>10, <2>2, <2>3, <2>4 DEF Distinct
<1>21. Measured'
  <2>1. ~(\A o \in ToSet(outputs') : o.complete)
    BY <1>9, <1>10
  <2> QED
    BY <1>7, <2>1 DEF IInv, Measured
<1> QED
  BY <1>14, <1>16, <1>17, <1>18, <1>19, <1>20, <1>21 DEF IInv

(* A listener is about one output, and about no more than it shows. *)
LEMMA ListenStep ==
  ASSUME IInv, NEW type \in Kinds, Arrives(type), events' = Tail(events),
         outputManager' = outputManager, manualSize' = manualSize, running' = running,
         bound' = bound, layout' = layout, gone' = gone, announced' = announced, changes' = changes,
         NEW new \in Seq(Output), outputs' = new, Len(new) = Len(outputs),
         \A i \in 1..Len(outputs) : /\ new[i].name = outputs[i].name /\ new[i].xdg = outputs[i].xdg
                                    /\ outputs[i].name # Name => new[i] = outputs[i],
         reported' \in Nat \cup {None}, Measured',
         \A i \in 1..Len(outputs) :
           /\ outputs[i].name = Name /\ Name \in DOMAIN layout
           /\ Shows(events, outputs[i], layout[Name], outputManager)
           => Shows(Tail(events), new[i], layout[Name], outputManager)
  PROVE  IInv'
<1>1. PICK e \in EventSet : e = Head(events)
  BY Arrived
<1>2. PICK q \in Seq(EventSet) : q = Tail(events)
  BY Arrived
<1>3. /\ events \in Seq(EventSet) /\ events # <<>> /\ Head(events) = e /\ Tail(events) = q
      /\ e.type = type /\ Name = e.name
  BY <1>1, <1>2, Arrived
<1>4. PICK n \in Names : n = e.name
  BY <1>3, EventFacts DEF Kinds
<1>5. /\ outputs \in Seq(Output) /\ Len(outputs) \in Nat
      /\ \A o : o \in ToSet(outputs) <=> \E i \in 1..Len(outputs) : o = outputs[i]
      /\ \A o : o \in ToSet(new) <=> \E i \in 1..Len(outputs) : o = new[i]
  BY InSet DEF IInv, TypeOK
<1>6. \A m : m # n => Untouched(events, q, m)
  BY <1>3, <1>4, UntouchedByTail
<1>7. Known' = Known
  <2>1. Known' = {o.name : o \in ToSet(new)}
    BY DEF Known
  <2>2. ASSUME NEW m PROVE m \in Known' <=> m \in Known
    <3>1. m \in Known <=> \E i \in 1..Len(outputs) : m = outputs[i].name
      BY <1>5 DEF Known
    <3>2. m \in Known' <=> \E i \in 1..Len(outputs) : m = new[i].name
      BY <1>5, <2>1
    <3> QED
      BY <3>1, <3>2
  <2> QED
    BY <2>2
<1>8. TypeOK'
  BY DEF IInv, TypeOK
<1>9. e \notin Managers /\ e \notin Of("global", n) /\ e \notin Of("remove", n) /\ e \in About(n)
  BY <1>3, <1>4 DEF Managers, Of, About, Kinds
<1>10. ManagerOnce'
  <2>1. IF announced /\ ~outputManager THEN Has(q, Managers, Managers, Managers)
                                       ELSE Free(q, Managers)
    BY <1>3, <1>9, HasTail, FreeTail DEF IInv, ManagerOnce
  <2>2. ASSUME NEW o \in ToSet(new)
        PROVE  o.xdg = outputManager /\ (o.name \in DOMAIN bound => bound[o.name] = outputManager)
    BY <1>5, <2>2 DEF IInv, ManagerOnce
  <2> QED
    BY <1>2, <2>1, <2>2 DEF IInv, ManagerOnce
<1>11. ASSUME NEW m \in Names PROVE Course(m)'
  <2>1. CASE m # n
    BY <1>2, <1>6, <1>7, <2>1, CourseUntouched DEF IInv
  <2>2. CASE m = n
    <3>1. Course(n) /\ ~Free(events, About(n))
      BY <1>3, <1>9, NotFree DEF IInv
    <3>2. n \in DOMAIN layout => n \notin gone /\ Free(q, Of("remove", n))
      BY <1>3, <3>1, FreeTail DEF Course
    <3>3. n \in DOMAIN layout \/ n \in gone
      BY <3>1 DEF Course
    <3>4. Free(q, Of("global", n))
      <4>1. ~Has(events, About(n), Of("global", n), About(n) \ Of("remove", n))
        BY <1>3, <1>9, HasHead
      <4> QED
        BY <1>3, <3>1, <4>1, FreeTail DEF Course
    <3>5. n \in gone /\ n \in Known => Ends(q, Of("remove", n), About(n))
      BY <1>3, <1>9, <3>1, HasTail DEF Course, Ends
    <3> QED
      BY <1>2, <1>7, <2>2, <3>2, <3>3, <3>4, <3>5 DEF Course
  <2> QED
    BY <2>1, <2>2
<1>12. Described'
  <2> SUFFICES ASSUME NEW p \in ToSet(new), p.name \in DOMAIN layout
               PROVE  p.name \in DOMAIN bound /\ Shows(q, p, layout[p.name], outputManager)
    BY <1>2 DEF Described
  <2>1. PICK i \in 1..Len(outputs) : p = new[i]
    BY <1>5
  <2>2. PICK o \in ToSet(outputs) : o = outputs[i]
    BY <1>5, <2>1
  <2>3. o \in Output /\ o.name = p.name
    BY <2>1, <2>2, Listed DEF IInv
  <2>4. o.name \in DOMAIN bound /\ Shows(events, o, layout[o.name], outputManager)
    BY <2>2, <2>3 DEF IInv, Described
  <2>5. CASE o.name = n
    BY <1>2, <1>3, <1>4, <2>1, <2>2, <2>3, <2>4, <2>5
  <2>6. CASE o.name # n
    <3>1. p = o
      BY <1>3, <1>4, <2>1, <2>2, <2>6
    <3> QED
      BY <1>6, <2>3, <2>4, <2>6, <3>1, ShowsUntouched
  <2> QED
    BY <2>5, <2>6
<1>13. Distinct(outputs)'
  BY DEF IInv, Distinct
<1> QED
  BY <1>2, <1>8, <1>10, <1>11, <1>12, <1>13 DEF IInv

(* Whatever a listener changes is incomplete until the next "done". *)
LEMMA MeasuredStill ==
  ASSUME IInv, NEW new \in Seq(Output), outputs' = new, Len(new) = Len(outputs),
         \A i \in 1..Len(outputs) : new[i] = outputs[i] \/ ~new[i].complete,
         manualSize' = manualSize, running' = running, reported' = reported
  PROVE  Measured'
<1>1. /\ outputs \in Seq(Output)
      /\ \A o : o \in ToSet(outputs) <=> \E i \in 1..Len(outputs) : o = outputs[i]
      /\ \A o : o \in ToSet(new) <=> \E i \in 1..Len(outputs) : o = new[i]
  BY InSet DEF IInv, TypeOK
<1>2. CASE \A i \in 1..Len(outputs) : new[i] = outputs[i]
  <2>1. ToSet(new) = ToSet(outputs)
    BY <1>1, <1>2
  <2> QED
    BY <2>1 DEF IInv, Measured
<1>3. CASE \E i \in 1..Len(outputs) : ~new[i].complete
  BY <1>1, <1>3 DEF IInv, Measured
<1> QED
  BY <1>2, <1>3

(* What a listener for type does to an output of the list. *)
Changes(type, o, p) ==
  /\ p.name = o.name /\ p.xdg = o.xdg
  /\ o.name # Name => p = o
  /\ p = o \/ ~p.complete
  /\ o.name = Name =>
       /\ p.haveLogPos <=> (o.haveLogPos \/ type = "position")
       /\ p.haveLogSize <=> (o.haveLogSize \/ type = "size")
       /\ p.x = IF type = "position" \/ (type = "geometry" /\ ~o.haveLogPos) THEN Value ELSE o.x
       /\ p.width = IF type = "size" \/ (type = "mode" /\ ~o.haveLogSize) THEN Value ELSE o.width

(* What Mutate does, for a change that marks its output incomplete.         *)
LEMMA MutateStep ==
  ASSUME IInv, NEW type \in Kinds \ {"done"}, Arrives(type), events' = Tail(events),
         outputManager' = outputManager, manualSize' = manualSize, running' = running,
         reported' = reported,
         bound' = bound, layout' = layout, gone' = gone, announced' = announced, changes' = changes,
         NEW new, outputs' = new, Len(new) = Len(outputs), new \in Seq(Output),
         \A i \in 1..Len(outputs) : Changes(type, outputs[i], new[i])
  PROVE  IInv'
<1>1. Measured'
  BY MeasuredStill DEF Changes
<1>2. ASSUME NEW i \in 1..Len(outputs), outputs[i].name = Name, Name \in DOMAIN layout,
             Shows(events, outputs[i], layout[Name], outputManager)
      PROVE  Shows(Tail(events), new[i], layout[Name], outputManager)
  <2>1. PICK o \in Output : o = outputs[i]
    BY <1>2 DEF IInv, TypeOK
  <2>2. PICK p \in Output : p = new[i]
    BY <1>2
  <2>3. PICK e \in EventSet : e = Head(events)
    BY Arrived
  <2>4. PICK q \in Seq(EventSet) : q = Tail(events)
    BY Arrived
  <2>5. /\ events \in Seq(EventSet) /\ events # <<>> /\ Head(events) = e /\ Tail(events) = q
        /\ e.type = type /\ Name = e.name /\ Value = e.value
    BY <2>3, <2>4, Arrived
  <2>6. PICK n : n = e.name
    OBVIOUS
  <2>7. PICK v : v = e.value
    OBVIOUS
  <2>8. PICK g : g = layout[n]
    OBVIOUS
  <2>9. /\ o.name = n /\ p.name = n /\ Shows(events, o, g, outputManager)
        /\ p.haveLogPos <=> (o.haveLogPos \/ type = "position")
        /\ p.haveLogSize <=> (o.haveLogSize \/ type = "size")
        /\ p.x = IF type = "position" \/ (type = "geometry" /\ ~o.haveLogPos) THEN v ELSE o.x
        /\ p.width = IF type = "size" \/ (type = "mode" /\ ~o.haveLogSize) THEN v ELSE o.width
    BY <1>2, <2>1, <2>2, <2>5, <2>6, <2>7, <2>8 DEF Changes
  <2>10. /\ e \in About(n) /\ e \notin Of("done", n)
         /\ \A t, w : /\ e \in Of(t, n) <=> type = t
                      /\ e \in Given(t, n, w) <=> type = t /\ v = w
    BY <2>5, <2>6, <2>7 DEF About, Of, Given
  <2>11. Ends(q, Of("done", n), About(n))
    <3>1. Ends(events, Of("done", n), About(n))
      BY <2>5, <2>9, <2>10, NotFree DEF Shows
    <3> QED
      BY <2>5, <2>10, <3>1, HasTail DEF Ends
  <2>12. CASE outputManager
    <3>1. /\ Settles(events, "position", n, g.logX, o.haveLogPos /\ o.x = g.logX)
          /\ Settles(events, "size", n, g.logWidth, o.haveLogSize /\ o.width = g.logWidth)
      BY <2>9, <2>12 DEF Shows
    <3>2. Settles(q, "position", n, g.logX, p.haveLogPos /\ p.x = g.logX)
      <4>1. e \in Given("position", n, g.logX) => p.haveLogPos /\ p.x = g.logX
        BY <2>9, <2>10
      <4>2. e \notin Of("position", n) /\ o.haveLogPos /\ o.x = g.logX => p.haveLogPos /\ p.x = g.logX
        BY <2>9, <2>10
      <4> QED
        BY <2>5, <3>1, <4>1, <4>2, SettlesTail
    <3>3. Settles(q, "size", n, g.logWidth, p.haveLogSize /\ p.width = g.logWidth)
      <4>1. e \in Given("size", n, g.logWidth) => p.haveLogSize /\ p.width = g.logWidth
        BY <2>9, <2>10
      <4>2. /\ e \notin Of("size", n) /\ o.haveLogSize /\ o.width = g.logWidth
            => p.haveLogSize /\ p.width = g.logWidth
        BY <2>9, <2>10
      <4> QED
        BY <2>5, <3>1, <4>1, <4>2, SettlesTail
    <3>4. Shows(q, p, g, outputManager)
      BY <2>9, <2>11, <2>12, <3>2, <3>3 DEF Shows
    <3> QED
      BY <2>2, <2>4, <2>5, <2>6, <2>8, <3>4
  <2>13. CASE ~outputManager
    <3>1. /\ ~o.haveLogPos /\ ~o.haveLogSize
          /\ Free(events, Of("position", n)) /\ Free(events, Of("size", n))
          /\ Settles(events, "geometry", n, g.x, o.x = g.x)
          /\ Settles(events, "mode", n, g.width, o.width = g.width)
      BY <2>9, <2>13 DEF Shows
    <3>2. /\ type # "position" /\ type # "size"
          /\ Free(q, Of("position", n)) /\ Free(q, Of("size", n))
      BY <2>5, <2>10, <3>1, NotFree, FreeTail
    <3>3. ~p.haveLogPos /\ ~p.haveLogSize
      BY <2>9, <3>1, <3>2
    <3>4. Settles(q, "geometry", n, g.x, p.x = g.x)
      <4>1. e \in Given("geometry", n, g.x) => p.x = g.x
        BY <2>9, <2>10, <3>1
      <4>2. e \notin Of("geometry", n) /\ o.x = g.x => p.x = g.x
        BY <2>9, <2>10, <3>2
      <4> QED
        BY <2>5, <3>1, <4>1, <4>2, SettlesTail
    <3>5. Settles(q, "mode", n, g.width, p.width = g.width)
      <4>1. e \in Given("mode", n, g.width) => p.width = g.width
        BY <2>9, <2>10, <3>1
      <4>2. e \notin Of("mode", n) /\ o.width = g.width => p.width = g.width
        BY <2>9, <2>10, <3>2
      <4> QED
        BY <2>5, <3>1, <4>1, <4>2, SettlesTail
    <3>6. Shows(q, p, g, outputManager)
      BY <2>9, <2>11, <2>13, <3>2, <3>3, <3>4, <3>5 DEF Shows
    <3> QED
      BY <2>2, <2>4, <2>5, <2>6, <2>8, <3>6
  <2> QED
    BY <2>12, <2>13
<1>3. reported' \in Nat \cup {None}
  BY DEF IInv, TypeOK
<1>4. type \in Kinds
  OBVIOUS
<1> QED
  BY <1>1, <1>2, <1>3, <1>4, ListenStep DEF Changes

LEMMA SameLength ==
  ASSUME NEW S, NEW s \in Seq(S), NEW new, new = [i \in DOMAIN s |-> new[i]],
         \A i \in 1..Len(s) : new[i] \in S
  PROVE  new \in Seq(S) /\ Len(new) = Len(s)
<1>1. Len(s) \in Nat /\ DOMAIN s = 1..Len(s)
  OBVIOUS
<1>2. new \in [1..Len(s) -> S]
  BY <1>1
<1> QED
  BY <1>1, <1>2, SeqDef, LenProperties

LEMMA ChangesStep ==
  ASSUME IInv, NEW type \in Kinds \ {"done"}, Arrives(type), events' = Tail(events),
         outputManager' = outputManager, manualSize' = manualSize, running' = running,
         reported' = reported,
         bound' = bound, layout' = layout, gone' = gone, announced' = announced, changes' = changes,
         outputs' = [i \in DOMAIN outputs |-> outputs'[i]],
         \A i \in 1..Len(outputs) : outputs'[i] \in Output /\ Changes(type, outputs[i], outputs'[i])
  PROVE  IInv'
<1>1. outputs \in Seq(Output)
  BY DEF IInv, TypeOK
<1>2. PICK new : new = outputs'
  OBVIOUS
<1>3. new \in Seq(Output) /\ Len(new) = Len(outputs)
  BY <1>1, <1>2, SameLength
<1>4. \A i \in 1..Len(outputs) : Changes(type, outputs[i], new[i])
  BY <1>2
<1> QED
  BY <1>2, <1>3, <1>4, MutateStep

LEMMA OutputGeometryStep == ASSUME IInv, OutputGeometry PROVE IInv'
<1>1. /\ Arrives("geometry") /\ events' = Tail(events)
      /\ outputManager' = outputManager /\ reported' = reported /\ manualSize' = manualSize
      /\ running' = running /\ bound' = bound /\ layout' = layout /\ gone' = gone
      /\ announced' = announced /\ changes' = changes
  BY DEF OutputGeometry, Mutate, compositor
<1>2. PICK v : v = Value
  OBVIOUS
<1>3. PICK new : new = outputs'
  OBVIOUS
<1>4. new = [i \in DOMAIN outputs |->
        IF outputs[i].name = Name /\ ~outputs[i].haveLogPos
        THEN [outputs[i] EXCEPT !.complete = FALSE, !.x = v] ELSE outputs[i]]
  BY <1>2, <1>3 DEF OutputGeometry, Mutate
<1>5. v \in Int
  BY <1>1, <1>2, Arrived, EventFacts
<1>6. ASSUME NEW i \in 1..Len(outputs)
      PROVE  new[i] \in Output /\ Changes("geometry", outputs[i], new[i])
  <2>1. i \in DOMAIN outputs /\ outputs[i] \in Output
    BY DEF IInv, TypeOK
  <2>2. PICK o \in Output : o = outputs[i]
    BY <2>1
  <2>3. PICK p : p = new[i]
    OBVIOUS
  <2>4. p = IF o.name = Name /\ ~o.haveLogPos
            THEN [o EXCEPT !.complete = FALSE, !.x = v] ELSE o
    BY <1>4, <2>1, <2>2, <2>3
  <2>5. p \in Output /\ Changes("geometry", o, p)
    BY <1>2, <1>5, <2>4 DEF Output, Changes
  <2> QED
    BY <2>2, <2>3, <2>5
<1> QED
  BY <1>1, <1>3, <1>4, <1>6, ChangesStep DEF Kinds

LEMMA OutputModeStep == ASSUME IInv, OutputMode PROVE IInv'
<1>1. /\ Arrives("mode") /\ events' = Tail(events)
      /\ outputManager' = outputManager /\ reported' = reported /\ manualSize' = manualSize
      /\ running' = running /\ bound' = bound /\ layout' = layout /\ gone' = gone
      /\ announced' = announced /\ changes' = changes
  BY DEF OutputMode, Mutate, compositor
<1>2. PICK v : v = Value
  OBVIOUS
<1>3. PICK new : new = outputs'
  OBVIOUS
<1>4. new = [i \in DOMAIN outputs |->
        IF outputs[i].name = Name /\ ~outputs[i].haveLogSize
        THEN [outputs[i] EXCEPT !.complete = FALSE, !.width = v] ELSE outputs[i]]
  BY <1>2, <1>3 DEF OutputMode, Mutate
<1>5. v \in Int /\ v \in Nat
  BY <1>1, <1>2, Arrived, EventFacts
<1>6. ASSUME NEW i \in 1..Len(outputs)
      PROVE  new[i] \in Output /\ Changes("mode", outputs[i], new[i])
  <2>1. i \in DOMAIN outputs /\ outputs[i] \in Output
    BY DEF IInv, TypeOK
  <2>2. PICK o \in Output : o = outputs[i]
    BY <2>1
  <2>3. PICK p : p = new[i]
    OBVIOUS
  <2>4. p = IF o.name = Name /\ ~o.haveLogSize
            THEN [o EXCEPT !.complete = FALSE, !.width = v] ELSE o
    BY <1>4, <2>1, <2>2, <2>3
  <2>5. p \in Output /\ Changes("mode", o, p)
    BY <1>2, <1>5, <2>4 DEF Output, Changes
  <2> QED
    BY <2>2, <2>3, <2>5
<1> QED
  BY <1>1, <1>3, <1>4, <1>6, ChangesStep DEF Kinds

LEMMA OutputScaleStep == ASSUME IInv, OutputScale PROVE IInv'
<1>1. /\ Arrives("scale") /\ events' = Tail(events)
      /\ outputManager' = outputManager /\ reported' = reported /\ manualSize' = manualSize
      /\ running' = running /\ bound' = bound /\ layout' = layout /\ gone' = gone
      /\ announced' = announced /\ changes' = changes
  BY DEF OutputScale, Mutate, compositor
<1>2. PICK v : v = Value
  OBVIOUS
<1>3. PICK new : new = outputs'
  OBVIOUS
<1>4. new = [i \in DOMAIN outputs |->
        IF outputs[i].name = Name
        THEN [outputs[i] EXCEPT !.complete = FALSE] ELSE outputs[i]]
  BY <1>2, <1>3 DEF OutputScale, Mutate, Never
<1>5. v \in Int
  BY <1>1, <1>2, Arrived, EventFacts
<1>6. ASSUME NEW i \in 1..Len(outputs)
      PROVE  new[i] \in Output /\ Changes("scale", outputs[i], new[i])
  <2>1. i \in DOMAIN outputs /\ outputs[i] \in Output
    BY DEF IInv, TypeOK
  <2>2. PICK o \in Output : o = outputs[i]
    BY <2>1
  <2>3. PICK p : p = new[i]
    OBVIOUS
  <2>4. p = IF o.name = Name
            THEN [o EXCEPT !.complete = FALSE] ELSE o
    BY <1>4, <2>1, <2>2, <2>3
  <2>5. p \in Output /\ Changes("scale", o, p)
    BY <1>2, <1>5, <2>4 DEF Output, Changes
  <2> QED
    BY <2>2, <2>3, <2>5
<1> QED
  BY <1>1, <1>3, <1>4, <1>6, ChangesStep DEF Kinds

LEMMA XdgOutputPosStep == ASSUME IInv, XdgOutputPos PROVE IInv'
<1>1. /\ Arrives("position") /\ events' = Tail(events)
      /\ outputManager' = outputManager /\ reported' = reported /\ manualSize' = manualSize
      /\ running' = running /\ bound' = bound /\ layout' = layout /\ gone' = gone
      /\ announced' = announced /\ changes' = changes
  BY DEF XdgOutputPos, Mutate, compositor
<1>2. PICK v : v = Value
  OBVIOUS
<1>3. PICK new : new = outputs'
  OBVIOUS
<1>4. new = [i \in DOMAIN outputs |->
        IF outputs[i].name = Name
        THEN [outputs[i] EXCEPT !.complete = FALSE, !.haveLogPos = TRUE, !.x = v] ELSE outputs[i]]
  BY <1>2, <1>3 DEF XdgOutputPos, Mutate, Never
<1>5. v \in Int
  BY <1>1, <1>2, Arrived, EventFacts
<1>6. ASSUME NEW i \in 1..Len(outputs)
      PROVE  new[i] \in Output /\ Changes("position", outputs[i], new[i])
  <2>1. i \in DOMAIN outputs /\ outputs[i] \in Output
    BY DEF IInv, TypeOK
  <2>2. PICK o \in Output : o = outputs[i]
    BY <2>1
  <2>3. PICK p : p = new[i]
    OBVIOUS
  <2>4. p = IF o.name = Name
            THEN [o EXCEPT !.complete = FALSE, !.haveLogPos = TRUE, !.x = v] ELSE o
    BY <1>4, <2>1, <2>2, <2>3
  <2>5. p \in Output /\ Changes("position", o, p)
    BY <1>2, <1>5, <2>4 DEF Output, Changes
  <2> QED
    BY <2>2, <2>3, <2>5
<1> QED
  BY <1>1, <1>3, <1>4, <1>6, ChangesStep DEF Kinds

LEMMA XdgOutputSizeStep == ASSUME IInv, XdgOutputSize PROVE IInv'
<1>1. /\ Arrives("size") /\ events' = Tail(events)
      /\ outputManager' = outputManager /\ reported' = reported /\ manualSize' = manualSize
      /\ running' = running /\ bound' = bound /\ layout' = layout /\ gone' = gone
      /\ announced' = announced /\ changes' = changes
  BY DEF XdgOutputSize, Mutate, compositor
<1>2. PICK v : v = Value
  OBVIOUS
<1>3. PICK new : new = outputs'
  OBVIOUS
<1>4. new = [i \in DOMAIN outputs |->
        IF outputs[i].name = Name
        THEN [outputs[i] EXCEPT !.complete = FALSE, !.haveLogSize = TRUE, !.width = v] ELSE outputs[i]]
  BY <1>2, <1>3 DEF XdgOutputSize, Mutate, Never
<1>5. v \in Int /\ v \in Nat
  BY <1>1, <1>2, Arrived, EventFacts
<1>6. ASSUME NEW i \in 1..Len(outputs)
      PROVE  new[i] \in Output /\ Changes("size", outputs[i], new[i])
  <2>1. i \in DOMAIN outputs /\ outputs[i] \in Output
    BY DEF IInv, TypeOK
  <2>2. PICK o \in Output : o = outputs[i]
    BY <2>1
  <2>3. PICK p : p = new[i]
    OBVIOUS
  <2>4. p = IF o.name = Name
            THEN [o EXCEPT !.complete = FALSE, !.haveLogSize = TRUE, !.width = v] ELSE o
    BY <1>4, <2>1, <2>2, <2>3
  <2>5. p \in Output /\ Changes("size", o, p)
    BY <1>2, <1>5, <2>4 DEF Output, Changes
  <2> QED
    BY <2>2, <2>3, <2>5
<1> QED
  BY <1>1, <1>3, <1>4, <1>6, ChangesStep DEF Kinds

LEMMA OutputDoneStep == ASSUME IInv, OutputDone PROVE IInv'
<1>1. /\ Arrives("done") /\ events' = Tail(events)
      /\ outputManager' = outputManager /\ manualSize' = manualSize
      /\ running' = running /\ bound' = bound /\ layout' = layout /\ gone' = gone
      /\ announced' = announced /\ changes' = changes
  BY DEF OutputDone, compositor
<1>2. PICK new : new = outputs'
  OBVIOUS
<1>3. new = [i \in DOMAIN outputs |->
        IF outputs[i].name = Name THEN [outputs[i] EXCEPT !.complete = TRUE] ELSE outputs[i]]
  BY <1>2 DEF OutputDone
<1>4. outputs \in Seq(Output) /\ manualSize \in BOOLEAN
  BY DEF IInv, TypeOK
<1>5. ASSUME NEW i \in 1..Len(outputs)
      PROVE  /\ new[i] \in Output /\ new[i].name = outputs[i].name /\ new[i].xdg = outputs[i].xdg
             /\ outputs[i].name # Name => new[i] = outputs[i]
             /\ outputs[i].name = Name =>
                  /\ new[i].complete /\ new[i].x = outputs[i].x /\ new[i].width = outputs[i].width
                  /\ new[i].haveLogPos <=> outputs[i].haveLogPos
                  /\ new[i].haveLogSize <=> outputs[i].haveLogSize
  <2>1. i \in DOMAIN outputs /\ outputs[i] \in Output
    BY <1>4
  <2>2. PICK o \in Output : o = outputs[i]
    BY <2>1
  <2>3. PICK p : p = new[i]
    OBVIOUS
  <2>4. p = IF o.name = Name THEN [o EXCEPT !.complete = TRUE] ELSE o
    BY <1>3, <2>1, <2>2, <2>3
  <2>5. /\ p \in Output /\ p.name = o.name /\ p.xdg = o.xdg
        /\ o.name # Name => p = o
        /\ o.name = Name => /\ p.complete /\ p.x = o.x /\ p.width = o.width
                            /\ p.haveLogPos <=> o.haveLogPos
                            /\ p.haveLogSize <=> o.haveLogSize
    BY <2>4 DEF Output
  <2> QED
    BY <2>2, <2>3, <2>5
<1>6. new \in Seq(Output) /\ Len(new) = Len(outputs)
  <2>1. new = [i \in DOMAIN outputs |-> new[i]]
    BY <1>3
  <2>2. \A i \in 1..Len(outputs) : new[i] \in Output
    BY <1>5
  <2> QED
    BY <1>4, <2>1, <2>2, SameLength
<1>7. IF Name \in Known /\ (\A o \in ToSet(new) : o.complete) /\ ~manualSize
      THEN reported' = Extent(ToSet(new)) ELSE reported' = reported
  BY <1>2 DEF OutputDone, Report
<1>8. reported' \in Nat \cup {None}
  BY <1>6, <1>7, ExtentIsNat DEF IInv, TypeOK
<1>9. Measured'
  <2>1. CASE manualSize
    BY <1>1, <1>7, <2>1 DEF IInv, Measured
  <2>2. CASE ~manualSize /\ Name \in Known
    BY <1>1, <1>2, <1>7, <2>2 DEF IInv, Measured
  <2>3. CASE ~manualSize /\ Name \notin Known
    <3>1. \A i \in 1..Len(outputs) : outputs[i] \in ToSet(outputs)
      BY <1>4, InSet
    <3>2. \A i \in 1..Len(outputs) : new[i] = outputs[i]
      BY <1>5, <2>3, <3>1 DEF Known
    <3>3. reported' = reported
      BY <1>7, <2>3
    <3> QED
      BY <1>1, <1>2, <1>6, <3>2, <3>3, MeasuredStill
  <2> QED
    BY <2>1, <2>2, <2>3
<1>10. ASSUME NEW i \in 1..Len(outputs), outputs[i].name = Name, Name \in DOMAIN layout,
              Shows(events, outputs[i], layout[Name], outputManager)
       PROVE  Shows(Tail(events), new[i], layout[Name], outputManager)
  <2>1. PICK o \in Output : o = outputs[i]
    BY <1>4
  <2>2. PICK p \in Output : p = new[i]
    BY <1>5
  <2>3. PICK e \in EventSet : e = Head(events)
    BY <1>1, Arrived
  <2>4. PICK q \in Seq(EventSet) : q = Tail(events)
    BY <1>1, Arrived
  <2>5. /\ events \in Seq(EventSet) /\ events # <<>> /\ Head(events) = e /\ Tail(events) = q
        /\ e.type = "done" /\ Name = e.name
    BY <1>1, <2>3, <2>4, Arrived
  <2>6. PICK n : n = e.name
    OBVIOUS
  <2>7. PICK g : g = layout[n]
    OBVIOUS
  <2>8. /\ o.name = n /\ p.name = n /\ Shows(events, o, g, outputManager)
        /\ p.complete /\ p.x = o.x /\ p.width = o.width
        /\ p.haveLogPos <=> o.haveLogPos
        /\ p.haveLogSize <=> o.haveLogSize
    BY <1>5, <1>10, <2>1, <2>2, <2>5, <2>6, <2>7
  <2>9. /\ e \in About(n)
        /\ \A t : t # "done" => e \notin Of(t, n) /\ \A w : e \notin Given(t, n, w)
    BY <2>5, <2>6 DEF About, Of, Given
  <2>10. \/ Ends(q, Of("done", n), About(n))
         \/ Free(q, About(n)) /\ p.complete
    <3>1. Ends(events, Of("done", n), About(n))
      BY <2>5, <2>8, <2>9, NotFree DEF Shows
    <3> QED
      BY <2>5, <2>8, <3>1, HasTail DEF Ends
  <2>11. CASE outputManager
    <3>1. /\ Settles(events, "position", n, g.logX, o.haveLogPos /\ o.x = g.logX)
          /\ Settles(events, "size", n, g.logWidth, o.haveLogSize /\ o.width = g.logWidth)
      BY <2>8, <2>11 DEF Shows
    <3>2. Settles(q, "position", n, g.logX, p.haveLogPos /\ p.x = g.logX)
      BY <2>5, <2>8, <2>9, <3>1, SettlesTail
    <3>3. Settles(q, "size", n, g.logWidth, p.haveLogSize /\ p.width = g.logWidth)
      BY <2>5, <2>8, <2>9, <3>1, SettlesTail
    <3>4. Shows(q, p, g, outputManager)
      BY <2>8, <2>10, <2>11, <3>2, <3>3 DEF Shows
    <3> QED
      BY <2>2, <2>4, <2>5, <2>6, <2>7, <3>4
  <2>12. CASE ~outputManager
    <3>1. /\ ~o.haveLogPos /\ ~o.haveLogSize
          /\ Free(events, Of("position", n)) /\ Free(events, Of("size", n))
          /\ Settles(events, "geometry", n, g.x, o.x = g.x)
          /\ Settles(events, "mode", n, g.width, o.width = g.width)
      BY <2>8, <2>12 DEF Shows
    <3>2. Free(q, Of("position", n)) /\ Free(q, Of("size", n))
      BY <2>5, <3>1, FreeTail
    <3>3. ~p.haveLogPos /\ ~p.haveLogSize
      BY <2>8, <3>1
    <3>4. Settles(q, "geometry", n, g.x, p.x = g.x)
      BY <2>5, <2>8, <2>9, <3>1, SettlesTail
    <3>5. Settles(q, "mode", n, g.width, p.width = g.width)
      BY <2>5, <2>8, <2>9, <3>1, SettlesTail
    <3>6. Shows(q, p, g, outputManager)
      BY <2>8, <2>10, <2>12, <3>2, <3>3, <3>4, <3>5 DEF Shows
    <3> QED
      BY <2>2, <2>4, <2>5, <2>6, <2>7, <3>6
  <2> QED
    BY <2>11, <2>12
<1>11. "done" \in Kinds
  BY DEF Kinds
<1> QED
  BY <1>1, <1>2, <1>5, <1>6, <1>8, <1>9, <1>10, <1>11, ListenStep

(* The outputs' descriptions behind the manager's event. *)
Pieces == [i \in DOMAIN outputs |->
  LET n == outputs[i].name
  IN  IF outputs[i].xdg \/ n \notin DOMAIN layout THEN <<>> ELSE XdgEvents(n, layout[n]) \o Done(n)]

LEMMA PiecesAre ==
  ASSUME IInv, ~outputManager
  PROVE  /\ Pieces \in Seq(Seq(EventSet)) /\ Len(Pieces) = Len(outputs)
         /\ \A i \in 1..Len(outputs) :
              /\ \A k \in 1..Len(Pieces[i]) :
                   Pieces[i][k].name = outputs[i].name /\ Pieces[i][k].type \in Kinds
              /\ outputs[i].name \in DOMAIN layout =>
                   Says(Pieces[i], outputs[i].name, layout[outputs[i].name], TRUE)
              /\ outputs[i].name \notin DOMAIN layout => Pieces[i] = <<>>
<1>1. /\ outputs \in Seq(Output) /\ Len(outputs) \in Nat /\ DOMAIN outputs = 1..Len(outputs)
      /\ Map(layout, Geometries)
  BY PartialIs DEF IInv, TypeOK
<1>2. PICK ss : ss = Pieces
  OBVIOUS
<1>3. ASSUME NEW i \in 1..Len(outputs)
      PROVE  /\ ss[i] \in Seq(EventSet)
             /\ \A k \in 1..Len(ss[i]) : ss[i][k].name = outputs[i].name /\ ss[i][k].type \in Kinds
             /\ outputs[i].name \in DOMAIN layout =>
                  Says(ss[i], outputs[i].name, layout[outputs[i].name], TRUE)
             /\ outputs[i].name \notin DOMAIN layout => ss[i] = <<>>
  <2>1. outputs[i] \in ToSet(outputs)
    BY <1>1, InSet
  <2>2. ~outputs[i].xdg
    BY <2>1 DEF IInv, ManagerOnce
  <2>3. PICK n \in Names : n = outputs[i].name
    BY <2>1, Listed DEF IInv
  <2>4. ss[i] = IF n \notin DOMAIN layout THEN <<>> ELSE XdgEvents(n, layout[n]) \o Done(n)
    BY <1>1, <1>2, <2>2, <2>3 DEF Pieces
  <2>5. CASE n \notin DOMAIN layout
    <3>1. ss[i] = <<>>
      BY <2>4, <2>5
    <3>2. ss[i] \in Seq(EventSet) /\ Len(ss[i]) = 0
      BY <3>1, NothingWaits
    <3>3. \A k \in 1..Len(ss[i]) : ss[i][k].name = outputs[i].name /\ ss[i][k].type \in Kinds
      BY <3>2
    <3> QED
      BY <2>3, <2>5, <3>1, <3>2, <3>3, Zenon
  <2>6. CASE n \in DOMAIN layout
    <3>1. PICK g \in Geometries : g = layout[n]
      BY <1>1, <2>6 DEF Map
    <3>2. ss[i] = XdgEvents(n, g) \o Done(n)
      BY <2>4, <2>6, <3>1
    <3>3. Tells(ss[i], n, g, TRUE)
      BY <3>2, Described1
    <3> QED
      BY <2>3, <2>6, <3>1, <3>3 DEF Tells, Says
  <2> QED
    BY <2>5, <2>6
<1>4. ss \in Seq(Seq(EventSet)) /\ Len(ss) = Len(outputs)
  <2>1. ss = [i \in 1..Len(outputs) |-> ss[i]]
    BY <1>1, <1>2 DEF Pieces
  <2>2. ss \in [1..Len(outputs) -> Seq(EventSet)]
    BY <1>3, <2>1
  <2> QED
    BY <1>1, <2>2, SeqDef, LenProperties
<1> QED
  BY <1>2, <1>3, <1>4

LEMMA PiecesSay ==
  ASSUME IInv, ~outputManager
  PROVE  /\ FlattenSeq(Pieces) \in Seq(EventSet)
         /\ \A k \in 1..Len(FlattenSeq(Pieces)) :
              /\ FlattenSeq(Pieces)[k].name \in Known \cap DOMAIN layout
              /\ FlattenSeq(Pieces)[k].type \in Kinds
         /\ \A n \in Known \cap DOMAIN layout : Says(FlattenSeq(Pieces), n, layout[n], TRUE)
<1>1. PICK ss : ss = Pieces
  OBVIOUS
<1>2. PICK f : f = FlattenSeq(ss)
  OBVIOUS
<1>3. /\ ss \in Seq(Seq(EventSet)) /\ Len(ss) = Len(outputs)
      /\ \A i \in 1..Len(outputs) :
           /\ \A k \in 1..Len(ss[i]) : ss[i][k].name = outputs[i].name /\ ss[i][k].type \in Kinds
           /\ outputs[i].name \in DOMAIN layout =>
                Says(ss[i], outputs[i].name, layout[outputs[i].name], TRUE)
           /\ outputs[i].name \notin DOMAIN layout => ss[i] = <<>>
  BY <1>1, PiecesAre
<1>4. /\ outputs \in Seq(Output) /\ Len(outputs) \in Nat
      /\ \A o : o \in ToSet(outputs) <=> \E i \in 1..Len(outputs) : o = outputs[i]
      /\ Distinct(outputs)
  BY InSet DEF IInv, TypeOK
<1>5. f \in Seq(EventSet) /\ \A k \in 1..Len(f) : Piece(ss, Len(ss), f[k])
  BY <1>2, <1>3, Flattened
<1>6. ASSUME NEW k \in 1..Len(f) PROVE f[k].name \in Known \cap DOMAIN layout /\ f[k].type \in Kinds
  <2>1. PICK i \in 1..Len(outputs) : \E j \in 1..Len(ss[i]) : f[k] = ss[i][j]
    BY <1>3, <1>5 DEF Piece
  <2>2. PICK j \in 1..Len(ss[i]) : f[k] = ss[i][j]
    BY <2>1
  <2>3. f[k].name = outputs[i].name /\ f[k].type \in Kinds
    BY <1>3, <2>2
  <2>4. outputs[i].name \in Known
    BY <1>4 DEF Known
  <2>5. outputs[i].name \in DOMAIN layout
    <3>1. ss[i] # <<>>
      BY <2>2
    <3> QED
      BY <1>3, <3>1
  <2> QED
    BY <2>3, <2>4, <2>5
<1>7. ASSUME NEW n \in Known \cap DOMAIN layout PROVE Says(f, n, layout[n], TRUE)
  <2>1. PICK i \in 1..Len(outputs) : outputs[i].name = n
    BY <1>4 DEF Known
  <2>2. PICK g : g = layout[n]
    OBVIOUS
  <2>3. Says(ss[i], n, g, TRUE)
    BY <1>3, <2>1, <2>2
  <2>4. ASSUME NEW j \in 1..Len(ss), i < j, NEW M, M \subseteq About(n) PROVE Free(ss[j], M)
    <3>1. j \in 1..Len(outputs) /\ j # i
      BY <1>3, <1>4, <2>4
    <3>2. outputs[j].name # n
      BY <1>4, <2>1, <3>1 DEF Distinct
    <3>3. \A k \in 1..Len(ss[j]) : ss[j][k].name # n
      BY <1>3, <3>1, <3>2
    <3> QED
      BY <2>4, <3>3 DEF Free, About
  <2>5. \A j \in 1..Len(ss) : Free(ss[j], {})
    BY DEF Free
  <2>6. i \in 1..Len(ss)
    BY <1>3
  <2>7. ASSUME NEW G, NEW M, M \subseteq About(n), Ends(ss[i], G, M) PROVE Ends(f, G, M)
    <3>1. Has(ss[i], {}, G, M)
      BY <2>7 DEF Ends
    <3>2. \A j \in 1..Len(ss) : j < i => Free(ss[j], {})
      BY <2>5
    <3>3. \A j \in 1..Len(ss) : i < j => Free(ss[j], M)
      BY <2>4, <2>7
    <3>4. Has(FlattenSeq(ss), {}, G, M)
      BY <1>3, <2>6, <3>1, <3>2, <3>3, FlattenedHas
    <3> QED
      BY <1>2, <3>4 DEF Ends
  <2>8. /\ Of("done", n) \subseteq About(n) /\ Of("position", n) \subseteq About(n)
        /\ Of("size", n) \subseteq About(n) /\ About(n) \subseteq About(n)
    BY DEF About, Of
  <2>9. Ends(f, Of("done", n), About(n))
    BY <2>3, <2>7, <2>8 DEF Says
  <2>10. Ends(f, Given("position", n, g.logX), Of("position", n))
    BY <2>3, <2>7, <2>8 DEF Says
  <2>11. Ends(f, Given("size", n, g.logWidth), Of("size", n))
    BY <2>3, <2>7, <2>8 DEF Says
  <2> QED
    BY <1>5, <2>2, <2>9, <2>10, <2>11 DEF Says
<1> QED
  BY <1>1, <1>2, <1>5, <1>6, <1>7

(* They say the same of the screen. *)
Alike(o, p) == (o.complete <=> p.complete) /\ o.x = p.x /\ o.width = p.width

LEMMA GlobalManagerStep == ASSUME IInv, GlobalManager PROVE IInv'
<1>1. Arrives("manager")
  BY DEF GlobalManager
<1>2. PICK e \in EventSet : e = Head(events)
  BY <1>1, Arrived
<1>3. PICK q \in Seq(EventSet) : q = Tail(events)
  BY <1>1, Arrived
<1>4. /\ events \in Seq(EventSet) /\ events # <<>> /\ Head(events) = e /\ Tail(events) = q
      /\ e.type = "manager" /\ e.name = "xdg" /\ e \in Managers
  BY <1>1, <1>2, <1>3, Arrived, EventFacts DEF Managers
<1>5. announced /\ ~outputManager /\ Free(q, Managers)
  <2>1. ~Free(events, Managers)
    BY <1>4, NotFree
  <2>2. announced /\ ~outputManager /\ Has(events, Managers, Managers, Managers)
    BY <2>1 DEF IInv, ManagerOnce
  <2> QED
    BY <1>4, <2>2, HasHead
<1>6. /\ outputManager' = TRUE /\ reported' = reported /\ manualSize' = manualSize
      /\ running' = running /\ layout' = layout /\ gone' = gone /\ announced' = announced
      /\ changes' = changes
      /\ bound' = [n \in DOMAIN bound |-> bound[n] \/ n \in Known]
  BY DEF GlobalManager, compositor
<1>7. PICK new : new = outputs'
  OBVIOUS
<1>8. new = [i \in DOMAIN outputs |-> [outputs[i] EXCEPT !.xdg = TRUE]]
  BY <1>7 DEF GlobalManager
<1>9. PICK f : f = FlattenSeq(Pieces)
  OBVIOUS
<1>10. events' = q \o f
  BY <1>4, <1>9 DEF GlobalManager, Pieces
<1>11. /\ f \in Seq(EventSet)
       /\ \A k \in 1..Len(f) : f[k].name \in Known \cap DOMAIN layout /\ f[k].type \in Kinds
       /\ \A n \in Known \cap DOMAIN layout : Says(f, n, layout[n], TRUE)
  BY <1>5, <1>9, PiecesSay
<1>12. events' \in Seq(EventSet)
  BY <1>10, <1>11, JoinedTwo
<1>13. outputs \in Seq(Output) /\ Map(bound, BOOLEAN) /\ Distinct(outputs)
  BY PartialIs DEF IInv, TypeOK
<1>14. ASSUME NEW i \in 1..Len(outputs)
       PROVE  /\ new[i] \in Output /\ new[i].name = outputs[i].name /\ new[i].xdg = TRUE
              /\ new[i].complete <=> outputs[i].complete
              /\ new[i].x = outputs[i].x /\ new[i].width = outputs[i].width
  <2>1. i \in DOMAIN outputs /\ outputs[i] \in Output
    BY <1>13
  <2>2. PICK o \in Output : o = outputs[i]
    BY <2>1
  <2>3. PICK p : p = new[i]
    OBVIOUS
  <2>4. p = [o EXCEPT !.xdg = TRUE]
    BY <1>8, <2>1, <2>2, <2>3
  <2>5. /\ p \in Output /\ p.name = o.name /\ p.xdg = TRUE
        /\ p.complete <=> o.complete
        /\ p.x = o.x /\ p.width = o.width
    BY <2>4 DEF Output
  <2> QED
    BY <2>2, <2>3, <2>5
<1>15. new \in Seq(Output) /\ Len(new) = Len(outputs)
  <2>1. new = [i \in DOMAIN outputs |-> new[i]]
    BY <1>8
  <2>2. \A i \in 1..Len(outputs) : new[i] \in Output
    BY <1>14
  <2> QED
    BY <1>13, <2>1, <2>2, SameLength
<1>16. /\ \A o : o \in ToSet(outputs) <=> \E i \in 1..Len(outputs) : o = outputs[i]
       /\ \A o : o \in ToSet(new) <=> \E i \in 1..Len(outputs) : o = new[i]
       /\ \A o \in ToSet(new) : o.xdg = TRUE /\ \E p \in ToSet(outputs) : Alike(o, p)
       /\ \A p \in ToSet(outputs) : \E o \in ToSet(new) : Alike(o, p)
  <2>1. /\ \A o : o \in ToSet(outputs) <=> \E i \in 1..Len(outputs) : o = outputs[i]
        /\ \A o : o \in ToSet(new) <=> \E i \in 1..Len(outputs) : o = new[i]
    BY <1>13, <1>15, InSet
  <2>2. \A i \in 1..Len(outputs) : new[i].xdg = TRUE /\ Alike(new[i], outputs[i])
    BY <1>14 DEF Alike
  <2>3. \A i \in 1..Len(outputs) : new[i] \in ToSet(new) /\ outputs[i] \in ToSet(outputs)
    BY <2>1
  <2>4. ASSUME NEW o \in ToSet(new) PROVE o.xdg = TRUE /\ \E p \in ToSet(outputs) : Alike(o, p)
    <3>1. PICK i \in 1..Len(outputs) : o = new[i]
      BY <2>1
    <3> QED
      BY <2>2, <2>3, <3>1
  <2>5. ASSUME NEW p \in ToSet(outputs) PROVE \E o \in ToSet(new) : Alike(o, p)
    <3>1. PICK i \in 1..Len(outputs) : p = outputs[i]
      BY <2>1
    <3> QED
      BY <2>2, <2>3, <3>1
  <2> QED
    BY <2>1, <2>4, <2>5
<1>17. Known' = Known
  <2>1. Known' = {o.name : o \in ToSet(new)}
    BY <1>7 DEF Known
  <2>2. ASSUME NEW m PROVE m \in Known' <=> m \in Known
    <3>1. m \in Known <=> \E i \in 1..Len(outputs) : m = outputs[i].name
      BY <1>16 DEF Known
    <3>2. m \in Known' <=> \E i \in 1..Len(outputs) : m = new[i].name
      BY <1>16, <2>1
    <3> QED
      BY <1>14, <3>1, <3>2
  <2> QED
    BY <2>2
<1>18. /\ Map(bound', BOOLEAN) /\ DOMAIN bound' = DOMAIN bound
       /\ \A n \in DOMAIN bound : n \in Known => bound'[n] = TRUE
  BY <1>6, <1>13 DEF Map
<1>19. TypeOK'
  <2>1. bound' \in Partial(BOOLEAN)
    BY <1>18, PartialIs
  <2> QED
    BY <1>6, <1>7, <1>15, <2>1 DEF IInv, TypeOK
<1>20. ManagerOnce'
  <2>1. Free(f, Managers)
    BY <1>11 DEF Free, Managers, Kinds
  <2>2. Free(events', Managers)
    BY <1>5, <1>10, <1>11, <2>1, FreeJoined
  <2>3. ASSUME NEW o \in ToSet(new)
        PROVE  o.xdg = TRUE /\ (o.name \in DOMAIN bound' => bound'[o.name] = TRUE)
    <3>1. o.xdg = TRUE
      BY <1>16
    <3>2. o.name \in Known
      BY <1>7, <1>17 DEF Known
    <3> QED
      BY <1>18, <3>1, <3>2
  <2> QED
    BY <1>5, <1>6, <1>7, <2>2, <2>3 DEF ManagerOnce
<1>21. \A m \in Names : Untouched(events, q, m)
  <2>1. \A m \in Names : m # "xdg"
    BY NamesAssumption
  <2> QED
    BY <1>4, <2>1, UntouchedByTail
<1>22. ASSUME NEW m \in Names, m \notin Known \cap DOMAIN layout PROVE Untouched(events, events', m)
  <2>1. \A k \in 1..Len(f) : f[k].name # m
    BY <1>11, <1>22
  <2>2. Untouched(q, q \o f, m)
    BY <1>11, <2>1, UntouchedByMore
  <2>3. Untouched(events, q, m)
    BY <1>21
  <2> QED
    BY <1>10, <2>2, <2>3, UntouchedTwice
<1>23. ASSUME NEW m \in Names PROVE Course(m)'
  <2>1. CASE m \notin Known \cap DOMAIN layout
    BY <1>6, <1>17, <1>18, <1>22, <2>1, CourseUntouched DEF IInv
  <2>2. CASE m \in Known \cap DOMAIN layout
    <3>1. m \notin gone /\ Free(events, Of("remove", m)) /\ Free(events, Of("global", m))
      BY <2>2 DEF IInv, Course
    <3>2. Free(f, Of("remove", m)) /\ Free(f, Of("global", m))
      BY <1>11 DEF Free, Of, Kinds
    <3>3. Free(events', Of("remove", m)) /\ Free(events', Of("global", m))
      BY <1>4, <1>10, <1>11, <3>1, <3>2, FreeTail, FreeJoined
    <3> QED
      BY <1>6, <2>2, <3>1, <3>3 DEF Course
  <2> QED
    BY <2>1, <2>2
<1>24. Described'
  <2> SUFFICES ASSUME NEW p \in ToSet(new), p.name \in DOMAIN layout
               PROVE  p.name \in DOMAIN bound /\ Shows(events', p, layout[p.name], TRUE)
    BY <1>6, <1>7, <1>18 DEF Described
  <2>1. PICK i \in 1..Len(outputs) : p = new[i]
    BY <1>16
  <2>2. PICK o \in ToSet(outputs) : o = outputs[i]
    BY <1>16
  <2>3. p \in Output /\ o.name = p.name
    BY <1>14, <2>1, <2>2
  <2>4. o.name \in DOMAIN bound /\ o.name \in Known
    BY <2>2, <2>3, Listed DEF IInv, Described
  <2>5. Says(f, p.name, layout[p.name], TRUE)
    BY <1>11, <2>3, <2>4
  <2>6. Shows(q \o f, p, layout[p.name], TRUE)
    BY <2>3, <2>5, ShowsTold
  <2> QED
    BY <1>10, <2>3, <2>4, <2>6
<1>25. Distinct(outputs)'
  BY <1>7, <1>13, <1>14, <1>15 DEF Distinct
<1>26. Measured'
  <2>1. {o.x : o \in ToSet(new)} = {o.x : o \in ToSet(outputs)}
    BY <1>16 DEF Alike
  <2>2. {o.x + o.width : o \in ToSet(new)} = {o.x + o.width : o \in ToSet(outputs)}
    BY <1>16 DEF Alike
  <2>3. Extent(ToSet(new)) = Extent(ToSet(outputs))
    BY <2>1, <2>2, Zenon DEF Extent
  <2>4. (\A o \in ToSet(new) : o.complete) => \A o \in ToSet(outputs) : o.complete
    BY <1>16 DEF Alike
  <2> QED
    BY <1>6, <1>7, <2>3, <2>4 DEF IInv, Measured
<1> QED
  BY <1>12, <1>19, <1>20, <1>23, <1>24, <1>25, <1>26 DEF IInv

LEMMA RemovedAre ==
  ASSUME NEW list \in Seq(Output), Distinct(list), NEW n
  PROVE  /\ Removed(list, n) \in Seq(Output) /\ Distinct(Removed(list, n))
         /\ \A o \in ToSet(Removed(list, n)) : o \in ToSet(list) /\ o.name # n
<1>1. CASE list[1].name = n
  <2>1. Removed(list, n) = <<>>
    BY <1>1 DEF Removed
  <2> QED
    BY <2>1 DEF Distinct, ToSet
<1>2. CASE list[1].name # n
  <2>1. PICK r : r = Others(list, n)
    OBVIOUS
  <2>2. /\ r \in Seq(Output) /\ Distinct(r)
        /\ \A k \in 1..Len(r) : \E i \in 1..Len(list) : r[k] = list[i] /\ list[i].name # n
    BY <2>1, OthersElements, OthersDistinct
  <2>3. /\ \A o : o \in ToSet(r) <=> \E k \in 1..Len(r) : o = r[k]
        /\ \A o : o \in ToSet(list) <=> \E i \in 1..Len(list) : o = list[i]
    BY <2>2, InSet
  <2>4. \A o \in ToSet(r) : o \in ToSet(list) /\ o.name # n
    BY <2>2, <2>3
  <2>5. Removed(list, n) = r
    BY <1>2, <2>1 DEF Removed
  <2> QED
    BY <2>2, <2>4, <2>5
<1> QED
  BY <1>1, <1>2

LEMMA GlobalRemoveStep == ASSUME IInv, GlobalRemove PROVE IInv'
<1>1. Arrives("remove")
  BY DEF GlobalRemove
<1>2. PICK e \in EventSet : e = Head(events)
  BY <1>1, Arrived
<1>3. PICK q \in Seq(EventSet) : q = Tail(events)
  BY <1>1, Arrived
<1>4. /\ events \in Seq(EventSet) /\ events # <<>> /\ Head(events) = e /\ Tail(events) = q
      /\ e.type = "remove" /\ Name = e.name
  BY <1>1, <1>2, <1>3, Arrived
<1>5. PICK n \in Names : n = e.name
  BY <1>4, EventFacts
<1>6. /\ outputManager' = outputManager /\ manualSize' = manualSize
      /\ layout' = layout /\ gone' = gone /\ announced' = announced /\ changes' = changes
  BY DEF GlobalRemove, compositor
<1>7. \/ /\ n \in Known
         /\ outputs' = Removed(outputs, n) /\ bound' = Without(bound, n) /\ events' = Others(q, n)
         /\ IF manualSize THEN running' = FALSE /\ reported' = reported
                          ELSE reported' = Extent(ToSet(outputs')) /\ running' = running
      \/ /\ n \notin Known
         /\ outputs' = outputs /\ bound' = bound /\ events' = q
         /\ reported' = reported /\ running' = running
  BY <1>4, <1>5 DEF GlobalRemove, Report
<1>8. outputs \in Seq(Output) /\ Map(bound, BOOLEAN) /\ Distinct(outputs)
  BY PartialIs DEF IInv, TypeOK
<1>9. n \in gone /\ n \notin DOMAIN layout /\ Free(q, Of("global", n))
  <2>1. e \in Of("remove", n) /\ e \in About(n) /\ e \notin Of("global", n)
    BY <1>4, <1>5 DEF Of, About
  <2>2. ~Free(events, Of("remove", n)) /\ ~Free(events, About(n))
    BY <1>4, <2>1, NotFree
  <2>3. n \in gone /\ n \notin DOMAIN layout
    BY <2>2 DEF IInv, Course
  <2>4. ~Has(events, About(n), Of("global", n), About(n) \ Of("remove", n))
    BY <1>4, <2>1, HasHead
  <2>5. Free(events, Of("global", n))
    BY <2>4 DEF IInv, Course
  <2> QED
    BY <1>4, <2>3, <2>5, FreeTail
<1>10. /\ outputs' \in Seq(Output) /\ Distinct(outputs')
       /\ \A o \in ToSet(outputs') : o \in ToSet(outputs) /\ o.name # n
  <2>1. CASE n \in Known
    BY <1>7, <1>8, <2>1, RemovedAre
  <2>2. CASE n \notin Known
    BY <1>7, <1>8, <2>2 DEF Known
  <2> QED
    BY <2>1, <2>2
<1>11. n \notin Known' /\ \A m : m \in Known' => m \in Known
  BY <1>10 DEF Known
<1>12. /\ Map(bound', BOOLEAN) /\ \A m \in DOMAIN bound' : m \in DOMAIN bound /\ bound'[m] = bound[m]
       /\ \A m \in DOMAIN bound : m # n => m \in DOMAIN bound'
  BY <1>7, <1>8 DEF Map, Without
<1>13. /\ events' \in Seq(EventSet) /\ Free(events', Of("global", n))
       /\ Free(q, Managers) => Free(events', Managers)
       /\ Has(q, Managers, Managers, Managers) => Has(events', Managers, Managers, Managers)
       /\ \A m : m # n => Untouched(q, events', m)
  <2>1. CASE events' = q
    BY <1>9, <2>1, UntouchedBySame
  <2>2. CASE events' = Others(q, n)
    <3>1. \A m : m # n => Untouched(q, events', m)
      BY <2>2, UntouchedByOthers
    <3>2. events' \in Seq(EventSet) /\ \A M : Free(q, M) => Free(events', M)
      BY <2>2, OthersElements
    <3>3. \A m \in Managers : m.name # n
      BY NamesAssumption, EventFacts DEF Managers
    <3>4. Has(q, Managers, Managers, Managers) => Has(events', Managers, Managers, Managers)
      BY <2>2, <3>3, OthersHave
    <3> QED
      BY <1>9, <3>1, <3>2, <3>4
  <2> QED
    BY <1>7, <2>1, <2>2
<1>14. ASSUME NEW m, m # n PROVE Untouched(events, events', m)
  <2>1. Untouched(events, q, m)
    BY <1>4, <1>5, <1>14, UntouchedByTail
  <2> QED
    BY <1>13, <1>14, <2>1, UntouchedTwice
<1>15. TypeOK'
  <2>1. bound' \in Partial(BOOLEAN)
    BY <1>12, PartialIs
  <2>2. reported' \in Nat \cup {None} /\ running' \in BOOLEAN
    BY <1>7, <1>10, ExtentIsNat DEF IInv, TypeOK
  <2> QED
    BY <1>6, <1>10, <2>1, <2>2 DEF IInv, TypeOK
<1>16. ManagerOnce'
  <2>1. e \notin Managers
    BY <1>4 DEF Managers
  <2>2. IF announced /\ ~outputManager THEN Has(q, Managers, Managers, Managers)
                                       ELSE Free(q, Managers)
    BY <1>4, <2>1, HasTail, FreeTail DEF IInv, ManagerOnce
  <2>3. IF announced /\ ~outputManager THEN Has(events', Managers, Managers, Managers)
                                       ELSE Free(events', Managers)
    BY <1>13, <2>2
  <2> QED
    BY <1>6, <1>10, <1>12, <2>3 DEF IInv, ManagerOnce
<1>17. ASSUME NEW m \in Names PROVE Course(m)'
  <2>1. CASE m # n
    BY <1>6, <1>11, <1>12, <1>14, <2>1, CourseUntouched DEF IInv
  <2>2. CASE m = n
    BY <1>6, <1>9, <1>11, <1>13, <2>2 DEF Course
  <2> QED
    BY <2>1, <2>2
<1>18. Described'
  <2> SUFFICES ASSUME NEW o \in ToSet(outputs'), o.name \in DOMAIN layout
               PROVE  o.name \in DOMAIN bound' /\ Shows(events', o, layout[o.name], outputManager)
    BY <1>6 DEF Described
  <2>1. o \in ToSet(outputs) /\ o.name # n
    BY <1>10
  <2>2. o.name \in DOMAIN bound /\ Shows(events, o, layout[o.name], outputManager) /\ o \in Output
    BY <2>1, Listed DEF IInv, Described
  <2> QED
    BY <1>12, <1>14, <2>1, <2>2, ShowsUntouched
<1>19. Measured'
  BY <1>6, <1>7 DEF IInv, Measured
<1> QED
  BY <1>10, <1>13, <1>15, <1>16, <1>17, <1>18, <1>19 DEF IInv, Distinct

-----------------------------------------------------------------------------
(* Every step.                                                              *)

LEMMA InvStep == ASSUME IInv, [Next]_vars PROVE IInv'
<1>1. CASE \E n \in Names : Plug(n) \/ Unplug(n) \/ Change(n)
  BY <1>1, PlugStep, UnplugStep, ChangeStep
<1>2. CASE Announce
  BY <1>2, AnnounceStep
<1>3. CASE Dispatch
  BY <1>3, GlobalOutputStep, GlobalManagerStep, GlobalRemoveStep, OutputDoneStep, OutputGeometryStep,
     OutputModeStep, OutputScaleStep, XdgOutputPosStep, XdgOutputSizeStep DEF Dispatch
<1>4. CASE UNCHANGED vars
  BY <1>4 DEF vars, client, compositor, IInv, TypeOK, ManagerOnce, Distinct, Course, Known, Described,
              Measured
<1> QED
  BY <1>1, <1>2, <1>3, <1>4 DEF Next, Idle

LEMMA Invariant == Spec => []IInv
<1>1. Init => IInv
  BY InvInit
<1>2. IInv /\ [Next]_vars => IInv'
  BY InvStep
<1> QED
  BY <1>1, <1>2, PTL DEF Spec

-----------------------------------------------------------------------------
(* The number of outputs.                                                   *)

LEMMA Counted ==
  ASSUME NEW list \in Seq(Output), Distinct(list)
  PROVE  /\ IsFiniteSet({o.name : o \in ToSet(list)})
         /\ Cardinality({o.name : o \in ToSet(list)}) = Len(list)
<1>1. PICK N : N = {o.name : o \in ToSet(list)}
  OBVIOUS
<1>2. PICK k \in Nat : k = Len(list)
  OBVIOUS
<1>3. PICK f : f = [i \in 1..k |-> list[i].name]
  OBVIOUS
<1>4. \A n : n \in N <=> \E i \in 1..k : n = list[i].name
  <2>1. \A o : o \in ToSet(list) <=> \E i \in 1..k : o = list[i]
    BY <1>2, InSet
  <2> QED
    BY <1>1, <2>1
<1>5. f \in [1..k -> N] /\ \A i \in 1..k : f[i] = list[i].name
  BY <1>3, <1>4
<1>6. \A i, j \in 1..k : f[i] = f[j] => i = j
  BY <1>2, <1>5 DEF Distinct
<1>7. f \in Bijection(1..k, N)
  BY <1>4, <1>5, <1>6 DEF Bijection, Injection, Surjection, IsInjective
<1>8. ExistsBijection(1..k, N)
  BY <1>7 DEF ExistsBijection
<1>9. IsFiniteSet(1..k) /\ Cardinality(1..k) = k
  <2>1. 1 \in Int /\ k \in Int /\ (IF 1 > k THEN 0 ELSE k - 1 + 1) = k
    BY <1>2
  <2> QED
    BY <2>1, FS_Interval
<1>10. IsFiniteSet(N) /\ Cardinality(N) = k
  BY <1>8, <1>9, FS_Bijection
<1> QED
  BY <1>1, <1>2, <1>10

LEMMA Fewer ==
  ASSUME NEW list \in Seq(Output), Distinct(list), NEW n, n \in {o.name : o \in ToSet(list)}
  PROVE  Len(Removed(list, n)) < Len(list)
<1>1. PICK N : N = {o.name : o \in ToSet(list)}
  OBVIOUS
<1>2. PICK r : r = Removed(list, n)
  OBVIOUS
<1>3. /\ r \in Seq(Output) /\ Distinct(r)
      /\ \A o \in ToSet(r) : o \in ToSet(list) /\ o.name # n
  BY <1>2, RemovedAre
<1>4. PICK M : M = {o.name : o \in ToSet(r)}
  OBVIOUS
<1>5. IsFiniteSet(N) /\ Cardinality(N) = Len(list) /\ IsFiniteSet(M) /\ Cardinality(M) = Len(r)
  BY <1>1, <1>3, <1>4, Counted
<1>6. n \in N /\ M \subseteq N \ {n}
  BY <1>1, <1>3, <1>4
<1>7. IsFiniteSet(N \ {n}) /\ Cardinality(N \ {n}) = Cardinality(N) - 1
  BY <1>5, <1>6, FS_RemoveElement
<1>8. Cardinality(M) <= Cardinality(N \ {n})
  BY <1>6, <1>7, FS_Subset
<1>9. Len(r) \in Nat /\ Len(list) \in Nat
  BY <1>3
<1> QED
  BY <1>2, <1>5, <1>7, <1>8, <1>9

-----------------------------------------------------------------------------
(* When everything that was on its way has been handled.                    *)

LEMMA Quiet ==
  ASSUME IInv, events = <<>>
  PROVE  /\ outputManager = announced
         /\ \A o \in ToSet(outputs) : o.name \in DOMAIN layout
         /\ \A o \in ToSet(outputs) : /\ o.complete /\ o \in Output
                                      /\ [x |-> o.x, width |-> o.width] = Shown(layout[o.name])
                                      /\ o.x = Shown(layout[o.name]).x
                                      /\ o.width = Shown(layout[o.name]).width
<1>1. (\A M : Free(events, M)) /\ \A A, G, B : ~Has(events, A, G, B)
  BY NothingWaits, HasNot
<1>2. outputManager \in BOOLEAN /\ announced \in BOOLEAN
  BY DEF IInv, TypeOK
<1>3. outputManager = announced
  BY <1>1, <1>2 DEF IInv, ManagerOnce
<1>4. ASSUME NEW o \in ToSet(outputs) PROVE o.name \in DOMAIN layout
  <2>1. o.name \in Names /\ o.name \in Known
    BY Listed DEF IInv
  <2> QED
    BY <1>1, <2>1 DEF IInv, Course, Ends
<1>5. ASSUME NEW o \in ToSet(outputs)
      PROVE  /\ o.complete /\ o \in Output
             /\ [x |-> o.x, width |-> o.width] = Shown(layout[o.name])
             /\ o.x = Shown(layout[o.name]).x /\ o.width = Shown(layout[o.name]).width
  <2>1. Shows(events, o, layout[o.name], outputManager) /\ o \in Output
    BY <1>4, Listed DEF IInv, Described
  <2>2. o.complete
    BY <1>1, <2>1 DEF Shows, Ends
  <2>3. PICK g : g = layout[o.name]
    OBVIOUS
  <2>4. IF announced THEN o.x = g.logX /\ o.width = g.logWidth ELSE o.x = g.x /\ o.width = g.width
    BY <1>1, <1>3, <2>1, <2>3 DEF Shows, Settles, Ends
  <2> QED
    BY <2>1, <2>2, <2>3, <2>4 DEF Shown
<1> QED
  BY <1>3, <1>4, <1>5

-----------------------------------------------------------------------------
(* The theorems.                                                            *)

(* wayland.c's list of outputs, the compositor's layout and what is bound   *)
(* have their types.                                                        *)
THEOREM TypeCorrect == Spec => []TypeOK
<1>1. IInv => TypeOK
  BY DEF IInv
<1> QED
  BY <1>1, Invariant, PTL

(* When all events are handled, the list of wayland.c has no output that    *)
(* has gone, none twice, and each as the compositor last described it.      *)
THEOREM ListIsCurrent == Spec => []NoGhosts
<1>1. IInv => NoGhosts
  <2> SUFFICES ASSUME IInv, events = <<>> PROVE NoGhosts
    BY DEF NoGhosts
  <2>1. outputs \in Seq(Output) /\ Distinct(outputs)
    BY DEF IInv, TypeOK
  <2>2. Cardinality(Known) = Len(outputs)
    BY <2>1, Counted DEF Known
  <2> QED
    BY <2>2, Quiet DEF NoGhosts
<1> QED
  BY <1>1, Invariant, PTL

(* When all events are handled and the list has the outputs of the layout,  *)
(* the size on_output_update last reported is that of the layout.           *)
THEOREM SizeIsCurrent == Spec => []ReportedIsLayout
<1>1. IInv => ReportedIsLayout
  <2> SUFFICES ASSUME IInv, events = <<>>, reported # None, Known = DOMAIN layout
               PROVE  reported = Extent({Shown(layout[n]) : n \in DOMAIN layout})
    BY DEF ReportedIsLayout
  <2>1. PICK S : S = {Shown(layout[n]) : n \in DOMAIN layout}
    OBVIOUS
  <2>2. ASSUME NEW o \in ToSet(outputs) PROVE \E b \in S : o.x = b.x /\ o.width = b.width
    BY <2>1, Quiet
  <2>3. ASSUME NEW b \in S PROVE \E o \in ToSet(outputs) : o.x = b.x /\ o.width = b.width
    <3>1. PICK n \in DOMAIN layout : b = Shown(layout[n])
      BY <2>1
    <3>2. PICK o \in ToSet(outputs) : o.name = n
      BY <3>1 DEF Known
    <3> QED
      BY <3>1, <3>2, Quiet
  <2>4. {o.x : o \in ToSet(outputs)} = {b.x : b \in S}
    BY <2>2, <2>3
  <2>5. {o.x + o.width : o \in ToSet(outputs)} = {b.x + b.width : b \in S}
    BY <2>2, <2>3
  <2>6. Extent(ToSet(outputs)) = Extent(S)
    BY <2>4, <2>5, Zenon DEF Extent
  <2>7. reported = Extent(ToSet(outputs))
    BY Quiet DEF IInv, Measured
  <2> QED
    BY <2>1, <2>6, <2>7
<1> QED
  BY <1>1, Invariant, PTL

(* Unless an output is lost, on_output_update is called only while every    *)
(* output of the list is completely described.                              *)
THEOREM MeasuresComplete == Spec => MeasuredWhenComplete
<1>1. IInv /\ [Next]_vars =>
        [reported' # reported /\ Len(outputs') >= Len(outputs) =>
           \A o \in ToSet(outputs') : o.complete]_vars
  <2> SUFFICES ASSUME IInv, Next, reported' # reported, Len(outputs') >= Len(outputs)
               PROVE  \A o \in ToSet(outputs') : o.complete
    OBVIOUS
  <2>1. OutputDone \/ GlobalRemove
    BY DEF Next, Plug, Unplug, Change, Announce, Dispatch, Idle, GlobalOutput, GlobalManager, Mutate,
           OutputGeometry, OutputMode, OutputScale, XdgOutputPos, XdgOutputSize, client, vars
  <2>2. CASE OutputDone
    BY <2>2 DEF OutputDone
  <2>3. CASE GlobalRemove
    <3>1. Name \in Known /\ outputs' = Removed(outputs, Name)
      BY <2>3 DEF GlobalRemove
    <3>2. outputs \in Seq(Output) /\ Distinct(outputs)
      BY DEF IInv, TypeOK
    <3>3. Len(outputs') < Len(outputs)
      BY <3>1, <3>2, Fewer DEF Known
    <3>4. Len(outputs') \in Nat /\ Len(outputs) \in Nat
      <4>1. outputs' \in Seq(Output)
        BY <3>1, <3>2, RemovedAre
      <4> QED
        BY <3>2, <4>1
    <3> QED
      BY <3>3, <3>4
  <2> QED
    BY <2>1, <2>2, <2>3
<1> QED
  BY <1>1, Invariant, PTL DEF MeasuredWhenComplete, Spec
==============================================================================
