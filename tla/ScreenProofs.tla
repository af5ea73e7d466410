---------------------------- MODULE ScreenProofs -----------------------------
(***************************************************************************)
(* Proofs about Screen, for any keyboard, any configuration of the keymaps *)
(* and any number of processes and objects: the keyboard's counts, and the *)
(* inhibition of idleness.                                                 *)
(***************************************************************************)
EXTENDS Screen, FiniteSetTheorems, WellFoundedInduction, TLAPS

(* A finite set of numbers has a largest one: a subset without one would    *)
(* have a smaller one without.                                              *)
LEMMA MaxExists ==
  ASSUME NEW S, S \subseteq Int, IsFiniteSet(S), S # {}
  PROVE  Max(S) \in S /\ \A y \in S : Max(S) >= y
<1> DEFINE HasMax(A) == \E x \in A : \A y \in A : x >= y
           T == {A \in SUBSET S : A # {} /\ ~HasMax(A)}
           R == StrictSubsetOrdering(S)
<1>1. HasMax(S)
  <2> SUFFICES ASSUME ~HasMax(S) PROVE FALSE
    OBVIOUS
  <2>1. IsWellFoundedOn(R, SUBSET S)
    BY FS_StrictSubsetOrderingWellFounded, FS_FiniteSubsetsOfFinite
  <2>2. S \in T /\ T \subseteq SUBSET S
    OBVIOUS
  <2> HIDE DEF R, T, HasMax
  <2>3. PICK A \in T : \A B \in T : ~(<<B, A>> \in R)
    BY <2>1, <2>2, WFMin
  <2>4. A \in SUBSET S /\ A # {} /\ ~HasMax(A)
    BY <2>3 DEF T
  <2>5. PICK a \in A : TRUE
    BY <2>4
  <2> DEFINE B == A \ {a}
  <2>6. B \notin T
    BY <2>3, <2>4, <2>5 DEF R, StrictSubsetOrdering
  <2>7. CASE B = {}
    <3>1. HasMax(A)
      BY <2>4, <2>5, <2>7 DEF HasMax
    <3> QED
      BY <2>4, <3>1
  <2>8. CASE B # {}
    <3>1. HasMax(B)
      BY <2>4, <2>6, <2>8 DEF T
    <3>2. PICK b \in B : \A y \in B : b >= y
      BY <3>1 DEF HasMax
    <3>3. a \in Int /\ b \in Int /\ b \in A /\ A \subseteq Int
      BY <2>4, <2>5, <3>2
    <3>4. CASE a >= b
      <4>1. \A y \in A : a >= y
        BY <3>2, <3>3, <3>4
      <4> QED
        BY <2>4, <2>5, <4>1 DEF HasMax
    <3>5. CASE ~(a >= b)
      <4>1. \A y \in A : b >= y
        BY <3>2, <3>3, <3>5
      <4> QED
        BY <2>4, <3>3, <4>1 DEF HasMax
    <3> QED
      BY <3>4, <3>5
  <2> QED
    BY <2>7, <2>8
<1> QED
  BY <1>1 DEF Max

(* A set with 0 and the successor of every member has every number: the     *)
(* smallest that it lacks would be the successor of one it has.             *)
LEMMA Induction ==
  ASSUME NEW S, 0 \in S, \A n \in Nat : n \in S => n + 1 \in S
  PROVE  \A n \in Nat : n \in S
<1> SUFFICES ASSUME NEW k \in Nat, k \notin S PROVE FALSE
  OBVIOUS
<1> DEFINE T == {n \in Nat : n \notin S}
           R == OpToRel(<, Nat)
<1>1. T \subseteq Nat /\ T # {}
  OBVIOUS
<1>2. \A x, y \in Nat : x < y => <<x, y>> \in R
  BY DEF OpToRel
<1>3. IsWellFoundedOn(R, Nat)
  BY NatLessThanWellFounded
<1> HIDE DEF R
<1>4. PICK m \in T : \A n \in T : ~(<<n, m>> \in R)
  BY <1>1, <1>3, WFMin
<1>5. m # 0 /\ \A n \in T : ~(n < m)
  BY <1>2, <1>4
<1>6. PICK n \in Nat : m = n + 1
  <2>1. m - 1 \in Nat /\ m = (m - 1) + 1
    BY <1>5
  <2> QED
    BY <2>1
<1>7. n \in S
  BY <1>5, <1>6
<1> QED
  BY <1>6, <1>7

-----------------------------------------------------------------------------
(* The keymaps. *)

Lines == Seq(Nat \X (Nat \cup {-1}))
Code == Nat \cup {-1}

LEMMA MappedIsCode ==
  ASSUME NEW config \in Lines, NEW lkey \in Listed(config)
  PROVE  Mapped(config, lkey) \in Code
<1> DEFINE At == {i \in DOMAIN config : config[i][1] = lkey}
<1>1. DOMAIN config = 1..Len(config) /\ Len(config) \in Nat
  BY DEF Lines
<1>2. IsFiniteSet(At)
  <2>1. IsFiniteSet(1..Len(config))
    BY <1>1, FS_Interval
  <2> QED
    BY <1>1, <2>1, FS_Subset
<1>3. At # {}
  BY DEF Listed, ToSet
<1>4. Max(At) \in At
  <2>1. At \subseteq Int
    BY <1>1
  <2> HIDE DEF At
  <2> QED
    BY <1>2, <1>3, <2>1, MaxExists
<1> QED
  BY <1>1, <1>4 DEF Mapped, Lines, Code

LEMMA KeyCountIsNat == KeyCount \in Nat
<1> DEFINE Ends == {RawConfig[i][1] + 1 : i \in DOMAIN RawConfig}
<1>1. {line[1] + 1 : line \in ToSet(RawConfig)} = Ends
  BY DEF ToSet
<1>2. DOMAIN RawConfig = 1..Len(RawConfig) /\ Len(RawConfig) \in Nat
      /\ \A i \in DOMAIN RawConfig : RawConfig[i][1] \in Nat
  BY ConfigAssumption
<1>3. IsFiniteSet(Ends)
  <2> DEFINE f == [i \in DOMAIN RawConfig |-> RawConfig[i][1] + 1]
  <2>1. f \in Surjection(DOMAIN RawConfig, Ends)
    BY DEF Surjection
  <2>2. IsFiniteSet(DOMAIN RawConfig)
    BY <1>2, FS_Interval
  <2> HIDE DEF f, Ends
  <2> QED
    BY <2>1, <2>2, FS_Surjection
<1> DEFINE All == {XkbMax + 1} \cup Ends
<1>4. All \subseteq Nat
  BY <1>2, KeysAssumption
<1>5. IsFiniteSet(All)
  BY <1>3, FS_Singleton, FS_Union
<1>6. Max(All) \in All
  <2>1. All # {} /\ All \subseteq Int
    BY <1>4
  <2> HIDE DEF All
  <2> QED
    BY <1>5, <2>1, MaxExists
<1> QED
  BY <1>1, <1>4, <1>6 DEF KeyCount

Lens(lines, n, f) == f = [i \in 0..n |-> IF i = 0 THEN 0 ELSE Grow(f[i - 1], lines[i])]

LEMMA LensExist == ASSUME NEW lines, NEW n \in Nat PROVE \E f : Lens(lines, n, f)
<1> DEFINE S == {k \in Nat : \E f : Lens(lines, k, f)}
<1>1. 0 \in S
  <2> DEFINE f == [i \in 0..0 |-> 0]
             g == [i \in 0..0 |-> IF i = 0 THEN 0 ELSE Grow(f[i - 1], lines[i])]
  <2>1. f = g
    OBVIOUS
  <2>2. Lens(lines, 0, f)
    BY <2>1 DEF Lens
  <2> QED
    BY <2>2
<1>2. ASSUME NEW k \in Nat, k \in S PROVE k + 1 \in S
  <2>1. PICK f : Lens(lines, k, f)
    BY <1>2
  <2>2. f = [i \in 0..k |-> IF i = 0 THEN 0 ELSE Grow(f[i - 1], lines[i])]
    BY <2>1 DEF Lens
  <2> DEFINE g == [i \in 0..k + 1 |-> IF i = k + 1 THEN Grow(f[k], lines[k + 1]) ELSE f[i]]
             h == [i \in 0..k + 1 |-> IF i = 0 THEN 0 ELSE Grow(g[i - 1], lines[i])]
  <2>3. ASSUME NEW i \in 0..k + 1 PROVE g[i] = h[i]
    <3>1. CASE i = k + 1
      <4>1. i - 1 = k /\ k \in 0..k + 1 /\ k # k + 1 /\ i # 0
        BY <3>1
      <4>2. g[k] = f[k]
        BY <4>1
      <4>3. h[i] = Grow(g[i - 1], lines[i])
        BY <4>1
      <4> QED
        BY <3>1, <4>1, <4>2, <4>3
    <3>2. CASE i = 0
      BY <2>2, <3>2
    <3>3. CASE i # 0 /\ i # k + 1
      <4>1. i \in 0..k /\ i - 1 \in 0..k + 1 /\ i - 1 # k + 1
        BY <3>3
      <4>2. g[i - 1] = f[i - 1] /\ g[i] = f[i]
        BY <3>3, <4>1
      <4>3. f[i] = Grow(f[i - 1], lines[i])
        BY <2>2, <3>3, <4>1, Zenon
      <4>4. h[i] = Grow(g[i - 1], lines[i])
        BY <3>3
      <4> QED
        BY <4>2, <4>3, <4>4
    <3> QED
      BY <3>1, <3>2, <3>3
  <2>4. g = h
    BY <2>3
  <2>5. Lens(lines, k + 1, g)
    BY <2>4 DEF Lens
  <2> QED
    BY <2>5
<1> HIDE DEF S
<1>3. \A k \in Nat : k \in S
  BY <1>1, <1>2, Induction
<1> QED
  BY <1>3 DEF S

(* The array starts with a length, wherever the mappings to -1 stand.       *)
LEMMA InitialLenIsNat == InitialLen \in Nat
<1>1. PICK lines : lines = RawConfig \o IdConfig
  OBVIOUS
<1>2. /\ Len(lines) \in Nat
      /\ \A i \in 1..Len(lines) : lines[i][2] \in Code
  <2>1. PICK L : L = Nat \X Code
    OBVIOUS
  <2>2. RawConfig \in Seq(L) /\ IdConfig \in Seq(L)
    BY <2>1, ConfigAssumption DEF Code
  <2>3. lines \in Seq(L)
    BY <1>1, <2>2
  <2>4. \A i \in 1..Len(lines) : lines[i] \in L
    BY <2>3
  <2> QED
    BY <2>1, <2>3, <2>4
<1>3. PICK f : f = CHOOSE len : len = [i \in 0..Len(lines) |->
                 IF i = 0 THEN 0 ELSE Grow(len[i - 1], lines[i])]
  OBVIOUS
<1>4. InitialLen = f[Len(lines)]
  BY <1>1, <1>3 DEF InitialLen
<1>5. Lens(lines, Len(lines), f)
  BY <1>2, <1>3, LensExist DEF Lens
<1>6. f = [i \in 0..Len(lines) |-> IF i = 0 THEN 0 ELSE Grow(f[i - 1], lines[i])]
  BY <1>5 DEF Lens
<1> DEFINE S == {k \in Nat : k \in 0..Len(lines) => f[k] \in Nat}
<1>7. 0 \in S
  BY <1>2, <1>6
<1>8. ASSUME NEW k \in Nat, k \in S PROVE k + 1 \in S
  <2> SUFFICES ASSUME k + 1 \in 0..Len(lines) PROVE f[k + 1] \in Nat
    OBVIOUS
  <2>1. k \in 0..Len(lines) /\ (k + 1) - 1 = k /\ k + 1 # 0 /\ k + 1 \in 1..Len(lines)
    <3>1. k + 1 <= Len(lines)
      BY <1>2
    <3> QED
      BY <1>2, <3>1
  <2>2. f[k] \in Nat
    BY <1>8, <2>1
  <2>3. f[k + 1] = Grow(f[k], lines[k + 1])
    <3>1. f[k + 1] = IF k + 1 = 0 THEN 0 ELSE Grow(f[(k + 1) - 1], lines[k + 1])
      BY <1>6, Zenon
    <3> QED
      BY <2>1, <3>1
  <2> QED
    BY <1>2, <2>1, <2>2, <2>3 DEF Grow, Code
<1> HIDE DEF S
<1>9. \A k \in Nat : k \in S
  BY <1>7, <1>8, Induction
<1> QED
  BY <1>2, <1>4, <1>9 DEF S

(* wlKey drops a key or has a code for it, whatever the configuration. *)
LEMMA TargetIsCode ==
  ASSUME NEW k \in Keys
  PROVE  Target(k) \in Code
<1> DEFINE key == IF RawKeyCodes THEN k.key ELSE k.id
<1>1. k.key \in Nat /\ k.id \in Nat
  BY KeysAssumption
<1>2. CASE k.id \in Listed(IdConfig)
  BY <1>2, ConfigAssumption, MappedIsCode DEF Target, Lines
<1>3. CASE k.id \notin Listed(IdConfig) /\ key >= KeyCount
  BY <1>3 DEF Target, Dropped, Code
<1>4. CASE k.id \notin Listed(IdConfig) /\ ~(key >= KeyCount)
  <2>1. key \in 0..KeyCount - 1
    BY <1>1, <1>4, KeyCountIsNat
  <2>2. Target(k) = RawKeymap[key]
    BY <1>4 DEF Target
  <2>3. CASE key \in Listed(RawConfig)
    <3>1. Mapped(RawConfig, key) \in Code
      BY <2>3, ConfigAssumption, MappedIsCode DEF Lines
    <3>2. RawKeymap[key] = Mapped(RawConfig, key) + (IF OffsetOnExplicit THEN Offset ELSE 0)
      BY <2>1, <2>3 DEF RawKeymap
    <3> QED
      BY <2>2, <3>1, <3>2, ConfigAssumption DEF Code
  <2>4. CASE key \notin Listed(RawConfig)
    BY <2>1, <2>2, <2>4, ConfigAssumption DEF RawKeymap, Code
  <2> QED
    BY <2>3, <2>4
<1> QED
  BY <1>2, <1>3, <1>4

-----------------------------------------------------------------------------
(* The keyboard. *)

(* The array has a count for every entry, and the compositor is never left  *)
(* with a key down that has none.                                           *)
Counted ==
  /\ DOMAIN pressState \subseteq Nat
  /\ \A code \in DOMAIN pressState : pressState[code] \in Nat
  /\ seat \subseteq DOMAIN pressState
  /\ DownIsCounted
Flags == screenActive \in BOOLEAN /\ (entered => screenActive)

(* On a regular server every code that is held has its entry.               *)
Inside == regular => \A k \in held : Target(k) # Dropped => Target(k) \in DOMAIN pressState
HeldFinite == held \subseteq Keys /\ IsFiniteSet(held) /\ (held # {} => entered)

HoldersOf(code) == {k \in held : Target(k) = code}

KInv == Counted /\ Flags /\ NoneLeftDown /\ HeldFinite /\ Inside /\ CountsAreKeysHeld

(* The count of a key, and nought for one that has no entry.                *)
CountOf(c) == IF c \in DOMAIN pressState THEN pressState[c] ELSE 0

LEMMA ResizedKeeps ==
  ASSUME Counted, NEW code \in Nat
  PROVE  /\ Resized(code) = [c \in DOMAIN pressState \cup 0..code |-> CountOf(c)]
         /\ DOMAIN Resized(code) = DOMAIN pressState \cup 0..code
         /\ code \in DOMAIN Resized(code) /\ DOMAIN Resized(code) \subseteq Nat
         /\ \A c \in DOMAIN Resized(code) : Resized(code)[c] = CountOf(c) /\ CountOf(c) \in Nat
BY DEF Counted, Resized, Pressed, CountOf

LEMMA PressKeeps ==
  ASSUME Counted, NEW code \in Nat, PressRaw(code)
  PROVE  /\ Counted'
         /\ DOMAIN pressState' = DOMAIN pressState \cup 0..code
         /\ \A c \in DOMAIN pressState' :
              pressState'[c] = CountOf(c) + (IF c = code THEN 1 ELSE 0)
<1> DEFINE r == Resized(code)
<1>0. /\ DOMAIN r = DOMAIN pressState \cup 0..code
      /\ code \in DOMAIN r /\ DOMAIN r \subseteq Nat
      /\ \A c \in DOMAIN r : r[c] = CountOf(c) /\ CountOf(c) \in Nat
  BY ResizedKeeps
<1>1. pressState' = [r EXCEPT ![code] = r[code] + 1] /\ seat' = seat \cup {code}
  BY DEF PressRaw
<1> HIDE DEF r
<1>2. DOMAIN pressState' = DOMAIN r
  BY <1>1
<1>3. \A c \in DOMAIN r : pressState'[c] = CountOf(c) + (IF c = code THEN 1 ELSE 0)
  BY <1>0, <1>1
<1>4. Counted'
  <2>1. \A c \in seat : CountOf(c) > 0 /\ c \in DOMAIN r
    BY <1>0 DEF Counted, DownIsCounted, CountOf
  <2> QED
    BY <1>0, <1>1, <1>2, <1>3, <2>1 DEF Counted, DownIsCounted
<1> QED
  BY <1>0, <1>2, <1>3, <1>4

LEMMA ReleaseKeeps ==
  ASSUME Counted, NEW code \in Nat, ReleaseRaw(code)
  PROVE  /\ Counted'
         /\ DOMAIN pressState \subseteq DOMAIN pressState'
         /\ \A c \in DOMAIN pressState' :
              pressState'[c] = CountOf(c) - (IF c = code /\ CountOf(code) > 0 THEN 1 ELSE 0)
<1>1. CASE Pressed(code) = 0
  <2> DEFINE r == Resized(code)
  <2>0. /\ DOMAIN pressState \subseteq DOMAIN r /\ DOMAIN r \subseteq Nat
        /\ \A c \in DOMAIN r : r[c] = CountOf(c) /\ CountOf(c) \in Nat
    BY ResizedKeeps
  <2>1. pressState' = r /\ seat' = seat
    BY <1>1 DEF ReleaseRaw
  <2> HIDE DEF r
  <2>2. CountOf(code) = 0
    BY <1>1 DEF CountOf, Pressed
  <2>3. \A c \in seat : CountOf(c) > 0 /\ c \in DOMAIN r
    BY <2>0 DEF Counted, DownIsCounted, CountOf
  <2>4. Counted'
    BY <2>0, <2>1, <2>3 DEF Counted, DownIsCounted
  <2> QED
    BY <2>0, <2>1, <2>2, <2>4
<1>2. CASE Pressed(code) # 0
  <2>1. pressState' = [pressState EXCEPT ![code] = @ - 1] /\ seat' = seat \ {code}
    BY <1>2 DEF ReleaseRaw
  <2>2. code \in DOMAIN pressState /\ pressState[code] > 0 /\ CountOf(code) > 0
    BY <1>2 DEF Pressed, Counted, CountOf
  <2>3. \A c \in DOMAIN pressState : CountOf(c) = pressState[c] /\ pressState[c] \in Nat
    BY DEF Counted, CountOf
  <2> QED
    BY <2>1, <2>2, <2>3 DEF Counted, DownIsCounted
<1> QED
  BY <1>1, <1>2

-----------------------------------------------------------------------------
(* The types of the keyboard. *)

LEMMA Extended ==
  ASSUME TypeOK, NEW code \in Nat, code \in {IdleKey} \cup {Target(k) : k \in Keys}
  PROVE  /\ Resized(code) \in [DOMAIN Resized(code) -> 0..MaxPressed]
         /\ DOMAIN Resized(code) = DOMAIN pressState \cup 0..code
         /\ \A c \in DOMAIN Resized(code) :
              /\ c \in Nat /\ 0..c \subseteq DOMAIN Resized(code)
              /\ c < InitialLen \/ \E met \in {IdleKey} \cup {Target(k) : k \in Keys} : c <= met
<1>1. DOMAIN Resized(code) = DOMAIN pressState \cup 0..code
  BY DEF Resized
<1>2. 0 \in 0..MaxPressed
  BY EnvAssumption
<1>3. \A c \in DOMAIN Resized(code) : Resized(code)[c] \in 0..MaxPressed
  BY <1>2 DEF Resized, Pressed, TypeOK
<1>4. ASSUME NEW c \in DOMAIN Resized(code)
      PROVE  /\ c \in Nat /\ 0..c \subseteq DOMAIN Resized(code)
             /\ c < InitialLen \/ \E met \in {IdleKey} \cup {Target(k) : k \in Keys} : c <= met
  <2>1. CASE c \in DOMAIN pressState
    BY <1>1, <2>1 DEF TypeOK
  <2>2. CASE c \in 0..code
    BY <1>1, <2>2
  <2> QED
    BY <1>1, <2>1, <2>2
<1>5. Resized(code) = [c \in DOMAIN Resized(code) |-> Resized(code)[c]]
  BY DEF Resized
<1> QED
  BY <1>1, <1>3, <1>4, <1>5

(* A step that sets the counts of codes it knows, or makes the array longer. *)
LEMMA CountsTyped ==
  ASSUME TypeOK, NEW s, s \in [DOMAIN s -> 0..MaxPressed],
         \A c \in DOMAIN s :
           /\ c \in Nat /\ 0..c \subseteq DOMAIN s
           /\ c < InitialLen \/ \E met \in {IdleKey} \cup {Target(k) : k \in Keys} : c <= met,
         pressState' = s, seat' \subseteq DOMAIN s,
         screenActive' \in BOOLEAN, entered' \in BOOLEAN, regular' \in BOOLEAN, held' \subseteq Keys
  PROVE  TypeOK'
BY DEF TypeOK

LEMMA Uncounted ==
  ASSUME TypeOK, NEW s, s \in [DOMAIN pressState -> 0..MaxPressed], pressState' = s,
         seat' \subseteq DOMAIN pressState,
         screenActive' \in BOOLEAN, entered' \in BOOLEAN, regular' \in BOOLEAN, held' \subseteq Keys
  PROVE  TypeOK'
<1>1. DOMAIN s = DOMAIN pressState
  OBVIOUS
<1> QED
  BY <1>1, CountsTyped DEF TypeOK

LEMMA PressTyped ==
  ASSUME TypeOK, NEW k \in Keys, KeyDown(k)
  PROVE  TypeOK'
<1>1. /\ screenActive' \in BOOLEAN /\ entered' \in BOOLEAN /\ regular' \in BOOLEAN
      /\ held' \subseteq Keys
  BY DEF KeyDown, TypeOK
<1>2. PICK code : code = Target(k)
  OBVIOUS
<1>3. CASE code = Dropped
  <2>1. pressState' = pressState /\ seat' = seat
    BY <1>2, <1>3 DEF KeyDown, NoKey
  <2> QED
    BY <1>1, <2>1, Uncounted DEF TypeOK
<1>4. CASE code # Dropped
  <2>1. PressRaw(code) /\ Pressed(code) < MaxPressed
    BY <1>2, <1>4 DEF KeyDown
  <2>2. code \in Nat /\ code \in {IdleKey} \cup {Target(j) : j \in Keys}
    BY <1>2, <1>4, TargetIsCode DEF Code, Dropped
  <2>3. PICK r : r = Resized(code)
    OBVIOUS
  <2>4. /\ r \in [DOMAIN r -> 0..MaxPressed] /\ DOMAIN r = DOMAIN pressState \cup 0..code
        /\ \A c \in DOMAIN r :
             /\ c \in Nat /\ 0..c \subseteq DOMAIN r
             /\ c < InitialLen \/ \E met \in {IdleKey} \cup {Target(j) : j \in Keys} : c <= met
    BY <2>2, <2>3, Extended
  <2>5. code \in DOMAIN r /\ r[code] = Pressed(code)
    BY <2>2, <2>3, <2>4 DEF Resized
  <2>6. r[code] + 1 \in 0..MaxPressed
    BY <2>1, <2>4, <2>5, EnvAssumption
  <2>7. PICK s : s = [r EXCEPT ![code] = r[code] + 1]
    OBVIOUS
  <2>8. s \in [DOMAIN r -> 0..MaxPressed] /\ DOMAIN s = DOMAIN r
    BY <2>4, <2>6, <2>7
  <2>9. pressState' = s /\ seat' = seat \cup {code}
    BY <2>1, <2>3, <2>7 DEF PressRaw
  <2>10. seat' \subseteq DOMAIN s
    BY <2>4, <2>5, <2>8, <2>9 DEF TypeOK
  <2> QED
    BY <1>1, <2>4, <2>8, <2>9, <2>10, CountsTyped
<1> QED
  BY <1>3, <1>4

LEMMA ReleaseTyped ==
  ASSUME TypeOK, NEW k \in Keys, NEW as \in Keys, KeyUp(k, as)
  PROVE  TypeOK'
<1>1. /\ screenActive' \in BOOLEAN /\ entered' \in BOOLEAN /\ regular' \in BOOLEAN
      /\ held' \subseteq Keys
  BY DEF KeyUp, TypeOK
<1>2. PICK code : code = Target(as)
  OBVIOUS
<1>3. CASE code = Dropped
  <2>1. pressState' = pressState /\ seat' = seat
    BY <1>2, <1>3 DEF KeyUp, NoKey
  <2> QED
    BY <1>1, <2>1, Uncounted DEF TypeOK
<1>4. CASE code # Dropped /\ Pressed(code) = 0
  <2>1. pressState' = Resized(code) /\ seat' = seat
    BY <1>2, <1>4 DEF KeyUp, ReleaseRaw
  <2>2. code \in Nat /\ code \in {IdleKey} \cup {Target(j) : j \in Keys}
    BY <1>2, <1>4, TargetIsCode DEF Code, Dropped
  <2>3. PICK r : r = Resized(code)
    OBVIOUS
  <2>4. /\ r \in [DOMAIN r -> 0..MaxPressed] /\ DOMAIN r = DOMAIN pressState \cup 0..code
        /\ \A c \in DOMAIN r :
             /\ c \in Nat /\ 0..c \subseteq DOMAIN r
             /\ c < InitialLen \/ \E met \in {IdleKey} \cup {Target(j) : j \in Keys} : c <= met
    BY <2>2, <2>3, Extended
  <2>5. seat' \subseteq DOMAIN r
    BY <2>1, <2>4 DEF TypeOK
  <2> QED
    BY <1>1, <2>1, <2>3, <2>4, <2>5, CountsTyped
<1>5. CASE code # Dropped /\ Pressed(code) # 0
  <2>1. pressState' = [pressState EXCEPT ![code] = pressState[code] - 1] /\ seat' = seat \ {code}
    BY <1>2, <1>5 DEF KeyUp, ReleaseRaw
  <2>2. code \in DOMAIN pressState /\ pressState[code] # 0 /\ pressState[code] \in 0..MaxPressed
    BY <1>5 DEF Pressed, TypeOK
  <2>3. pressState[code] - 1 \in 0..MaxPressed
    BY <2>2, EnvAssumption
  <2>4. pressState' \in [DOMAIN pressState -> 0..MaxPressed] /\ seat' \subseteq DOMAIN pressState
    BY <2>1, <2>3 DEF TypeOK
  <2> QED
    BY <1>1, <2>4, Uncounted
<1> QED
  BY <1>3, <1>4, <1>5

LEMMA IdleTyped == ASSUME TypeOK, Idle PROVE TypeOK'
<1>1. IdleKey \in Nat
  BY ConfigAssumption DEF Idle
<1>2. PICK r : r = Resized(IdleKey)
  OBVIOUS
<1>3. /\ r \in [DOMAIN r -> 0..MaxPressed] /\ DOMAIN r = DOMAIN pressState \cup 0..IdleKey
      /\ \A c \in DOMAIN r :
           /\ c \in Nat /\ 0..c \subseteq DOMAIN r
           /\ c < InitialLen \/ \E met \in {IdleKey} \cup {Target(j) : j \in Keys} : c <= met
  BY <1>1, <1>2, Extended
<1>4. /\ pressState' = r /\ seat' \subseteq DOMAIN r
      /\ screenActive' \in BOOLEAN /\ entered' \in BOOLEAN /\ regular' \in BOOLEAN
      /\ held' \subseteq Keys
  BY <1>2, <1>3 DEF Idle, TypeOK
<1> QED
  BY <1>3, <1>4, CountsTyped

LEMMA BorderTyped == ASSUME TypeOK, Enter \/ Leave \/ Disconnect PROVE TypeOK'
<1>1. CASE Enter \/ Disconnect
  <2>1. /\ pressState' = pressState /\ seat' = seat
        /\ screenActive' \in BOOLEAN /\ entered' \in BOOLEAN /\ regular' \in BOOLEAN
        /\ held' \subseteq Keys
    BY <1>1 DEF Enter, Disconnect, TypeOK
  <2> QED
    BY <2>1, Uncounted DEF TypeOK
<1>2. CASE Leave
  <2>1. /\ pressState' = [code \in DOMAIN pressState |-> 0] /\ seat' \subseteq seat
        /\ screenActive' \in BOOLEAN /\ entered' \in BOOLEAN /\ regular' \in BOOLEAN
        /\ held' \subseteq Keys
    BY <1>2 DEF Leave, ReleaseAll, TypeOK
  <2>2. pressState' \in [DOMAIN pressState -> 0..MaxPressed] /\ seat' \subseteq DOMAIN pressState
    <3>1. 0 \in 0..MaxPressed
      BY EnvAssumption
    <3> QED
      BY <2>1, <3>1 DEF TypeOK
  <2> QED
    BY <2>1, <2>2, Uncounted
<1> QED
  BY <1>1, <1>2

-----------------------------------------------------------------------------
(* The counts after a step, and the keys that are held then, agree if each  *)
(* code's count changes as the number of its holders does.                  *)
LEMMA CountsAgree ==
  ASSUME KInv, regular,
         NEW c, CountOf(c) \in Nat
  PROVE  c \in Nat => CountOf(c) = Cardinality(HoldersOf(c))
<1>1. CASE c \in DOMAIN pressState
  BY <1>1 DEF KInv, CountsAreKeysHeld, HoldersOf, CountOf
<1>2. CASE c \notin DOMAIN pressState /\ c \in Nat
  <2>1. HoldersOf(c) = {}
    BY <1>2 DEF KInv, Inside, HoldersOf, Dropped
  <2> QED
    BY <1>2, <2>1, FS_EmptySet DEF CountOf
<1> QED
  BY <1>1, <1>2

LEMMA HoldersFinite ==
  ASSUME KInv, NEW c
  PROVE  IsFiniteSet(HoldersOf(c)) /\ Cardinality(HoldersOf(c)) \in Nat
<1>1. IsFiniteSet(held) /\ HoldersOf(c) \in SUBSET held
  BY DEF KInv, HeldFinite, HoldersOf
<1> QED
  BY <1>1, FS_Subset, FS_CardinalityType

LEMMA KeyDownStep ==
  ASSUME KInv, NEW k \in Keys, KeyDown(k)
  PROVE  KInv'
<1> USE DEF KeyDown
<1> DEFINE code == Target(k)
           After(c) == {j \in held' : Target(j) = c}
<1>1. code \in Nat \/ code = Dropped
  BY TargetIsCode DEF Code, Dropped
<1>2. HeldFinite'
  BY FS_AddElement DEF KInv, HeldFinite
<1>3. Flags' /\ screenActive'
  BY DEF KInv, Flags
<1>4. NoneLeftDown'
  BY <1>3 DEF NoneLeftDown
<1>5. /\ Counted' /\ DOMAIN pressState \subseteq DOMAIN pressState'
      /\ code # Dropped => code \in DOMAIN pressState'
      /\ \A c \in DOMAIN pressState' :
           /\ CountOf(c) \in Nat
           /\ pressState'[c] = CountOf(c) + (IF c = code THEN 1 ELSE 0)
  <2>1. CASE code = Dropped
    <3>1. UNCHANGED <<pressState, seat>>
      BY <2>1 DEF NoKey
    <3>2. \A c \in DOMAIN pressState : c # code /\ CountOf(c) = pressState[c] /\ pressState[c] \in Nat
      BY <2>1 DEF KInv, Counted, CountOf, Dropped
    <3>3. Counted'
      BY <3>1 DEF KInv, Counted, DownIsCounted
    <3> HIDE DEF code
    <3> QED
      BY <2>1, <3>1, <3>2, <3>3
  <2>2. CASE code # Dropped
    <3>1. PressRaw(code) /\ code \in Nat
      BY <1>1, <2>2
    <3>2. \A c : CountOf(c) \in Nat
      BY DEF KInv, Counted, CountOf
    <3>3. /\ Counted'
          /\ DOMAIN pressState' = DOMAIN pressState \cup 0..code
          /\ \A c \in DOMAIN pressState' :
               pressState'[c] = CountOf(c) + (IF c = code THEN 1 ELSE 0)
      BY <3>1, PressKeeps DEF KInv
    <3> HIDE DEF code
    <3>4. code \in 0..code
      BY <3>1
    <3> QED
      BY <3>2, <3>3, <3>4
  <2> QED
    BY <2>1, <2>2
<1>6. Inside'
  BY <1>5 DEF KInv, Inside
<1>7. CountsAreKeysHeld'
  <2> SUFFICES ASSUME regular, NEW c \in DOMAIN pressState'
               PROVE  pressState'[c] = Cardinality(After(c))
    BY DEF CountsAreKeysHeld
  <2>1. c \in Nat
    BY <1>5 DEF Counted
  <2>2. CountOf(c) = Cardinality(HoldersOf(c)) /\ IsFiniteSet(HoldersOf(c))
    BY <1>5, <2>1, CountsAgree, HoldersFinite
  <2>3. After(c) = IF c = code THEN HoldersOf(c) \cup {k} ELSE HoldersOf(c)
    BY DEF HoldersOf
  <2>4. k \notin HoldersOf(c)
    BY DEF HoldersOf
  <2> HIDE DEF After, code
  <2>5. Cardinality(HoldersOf(c) \cup {k}) = Cardinality(HoldersOf(c)) + 1
    BY <2>2, <2>4, FS_AddElement
  <2> QED
    BY <1>5, <2>2, <2>3, <2>5, HoldersFinite
<1> QED
  BY <1>2, <1>3, <1>4, <1>5, <1>6, <1>7 DEF KInv

LEMMA KeyUpStep ==
  ASSUME KInv, NEW k \in Keys, NEW as \in Keys, KeyUp(k, as)
  PROVE  KInv'
<1> USE DEF KeyUp
<1> DEFINE code == Target(as)
           After(c) == {j \in held' : Target(j) = c}
<1>1. code \in Nat \/ code = Dropped
  BY TargetIsCode DEF Code, Dropped
<1>2. HeldFinite'
  BY FS_RemoveElement DEF KInv, HeldFinite
<1>3. Flags' /\ screenActive'
  BY DEF KInv, Flags
<1>4. NoneLeftDown'
  BY <1>3 DEF NoneLeftDown
<1>5. /\ Counted' /\ DOMAIN pressState \subseteq DOMAIN pressState'
      /\ \A c \in DOMAIN pressState' :
           pressState'[c] = CountOf(c) - (IF c = code /\ CountOf(c) > 0 THEN 1 ELSE 0)
  <2>1. CASE code = Dropped
    <3>1. UNCHANGED <<pressState, seat>>
      BY <2>1 DEF NoKey
    <3> QED
      BY <2>1, <3>1 DEF KInv, Counted, DownIsCounted, CountOf, Dropped
  <2>2. CASE code # Dropped
    <3>1. ReleaseRaw(code) /\ code \in Nat
      BY <1>1, <2>2
    <3> QED
      BY <3>1, ReleaseKeeps DEF KInv
  <2> QED
    BY <2>1, <2>2
<1>6. Inside'
  BY <1>5 DEF KInv, Inside
<1>7. CountsAreKeysHeld'
  <2> SUFFICES ASSUME regular', NEW c \in DOMAIN pressState'
               PROVE  pressState'[c] = Cardinality(After(c))
    BY DEF CountsAreKeysHeld
  <2>1. regular /\ k \in held /\ as = k
    OBVIOUS
  <2>2. c \in Nat /\ CountOf(c) \in Nat
    BY <1>5 DEF KInv, Counted, CountOf
  <2>3. CountOf(c) = Cardinality(HoldersOf(c)) /\ IsFiniteSet(HoldersOf(c))
    BY <2>1, <2>2, CountsAgree, HoldersFinite
  <2>4. After(c) = IF c = code THEN HoldersOf(c) \ {k} ELSE HoldersOf(c)
    BY <2>1 DEF HoldersOf
  <2>5. c = code => k \in HoldersOf(c)
    BY <2>1 DEF HoldersOf
  <2> HIDE DEF After, code
  <2>6. c = code => Cardinality(HoldersOf(c) \ {k}) = Cardinality(HoldersOf(c)) - 1
    BY <2>3, <2>5, FS_RemoveElement
  <2>7. c = code => Cardinality(HoldersOf(c)) # 0
    BY <2>3, <2>5, FS_EmptySet
  <2> QED
    BY <1>5, <2>2, <2>3, <2>4, <2>6, <2>7
<1> QED
  BY <1>2, <1>3, <1>4, <1>5, <1>6, <1>7 DEF KInv

LEMMA IdleStep == KInv /\ Idle => KInv'
<1> SUFFICES ASSUME KInv, Idle PROVE KInv'
  OBVIOUS
<1> USE DEF Idle
<1> DEFINE r == Resized(IdleKey)
<1>1. IdleKey \in Nat
  BY ConfigAssumption
<1>2. /\ DOMAIN pressState \subseteq DOMAIN r /\ DOMAIN r \subseteq Nat
      /\ \A c \in DOMAIN r : r[c] = CountOf(c) /\ CountOf(c) \in Nat
  BY <1>1, ResizedKeeps DEF KInv
<1>3. pressState' = r /\ seat' \subseteq seat
  OBVIOUS
<1> HIDE DEF r
<1>4. \A c \in seat : CountOf(c) > 0 /\ c \in DOMAIN r
  BY <1>2 DEF KInv, Counted, DownIsCounted, CountOf
<1>5. Counted'
  BY <1>2, <1>3, <1>4 DEF Counted, DownIsCounted
<1>6. Flags' /\ HeldFinite' /\ Inside'
  BY <1>2, <1>3 DEF KInv, Flags, HeldFinite, Inside
<1>7. NoneLeftDown'
  <2>1. ~screenActive => \A c : CountOf(c) = 0
    BY DEF KInv, NoneLeftDown, CountOf
  <2> QED
    BY <1>2, <1>3, <2>1 DEF KInv, NoneLeftDown
<1>8. CountsAreKeysHeld'
  <2> SUFFICES ASSUME regular, NEW c \in DOMAIN r
               PROVE  r[c] = Cardinality({j \in held : Target(j) = c})
    BY <1>3 DEF CountsAreKeysHeld
  <2> QED
    BY <1>2, CountsAgree DEF HoldersOf
<1> QED
  BY <1>5, <1>6, <1>7, <1>8 DEF KInv

(* Enter, Leave, Disconnect and the repetition of a key. *)
LEMMA BorderStep == KInv /\ (Enter \/ Leave \/ Disconnect) => KInv'
<1> SUFFICES ASSUME KInv, Enter \/ Leave \/ Disconnect PROVE KInv'
  OBVIOUS
<1>1. CASE Enter
  BY <1>1 DEF Enter, KInv, Counted, DownIsCounted, Flags, NoneLeftDown, HeldFinite, Inside, CountsAreKeysHeld
<1>2. CASE Leave
  <2> USE <1>2 DEF Leave, ReleaseAll
  <2>1. seat' = {} /\ DOMAIN pressState' = DOMAIN pressState
        /\ \A c \in DOMAIN pressState' : pressState'[c] = 0
    BY DEF KInv, Counted, DownIsCounted
  <2>2. Counted' /\ NoneLeftDown'
    BY <2>1 DEF KInv, Counted, DownIsCounted, NoneLeftDown
  <2>3. HeldFinite' /\ Inside' /\ Flags'
    BY FS_EmptySet DEF HeldFinite, Inside, Flags
  <2>4. CountsAreKeysHeld'
    <3>1. \A c : {j \in held' : Target(j) = c} = {}
      OBVIOUS
    <3> QED
      BY <2>1, <3>1, FS_EmptySet DEF CountsAreKeysHeld
  <2> QED
    BY <2>2, <2>3, <2>4 DEF KInv
<1>3. CASE Disconnect
  BY <1>3, FS_EmptySet
  DEF Disconnect, KInv, Counted, DownIsCounted, Flags, NoneLeftDown, HeldFinite, Inside, CountsAreKeysHeld
<1> QED
  BY <1>1, <1>2, <1>3

(* The program's start, and what Ending leaves. *)
Cleared ==
  /\ pressState = [code \in 0..InitialLen - 1 |-> 0]
  /\ screenActive = FALSE /\ entered = FALSE /\ held = {} /\ seat = {}

LEMMA ClearedKInv == Cleared => KInv
<1> SUFFICES ASSUME Cleared PROVE KInv
  OBVIOUS
<1> USE DEF Cleared
<1>1. DOMAIN pressState \subseteq Nat /\ \A c \in DOMAIN pressState : pressState[c] = 0
  OBVIOUS
<1>2. Counted /\ NoneLeftDown
  BY <1>1 DEF Counted, DownIsCounted, NoneLeftDown
<1>3. HeldFinite /\ Inside /\ Flags
  BY FS_EmptySet DEF HeldFinite, Inside, Flags
<1>4. CountsAreKeysHeld
  <2>1. \A c : {j \in held : Target(j) = c} = {}
    OBVIOUS
  <2> QED
    BY <1>1, <2>1, FS_EmptySet DEF CountsAreKeysHeld
<1> QED
  BY <1>2, <1>3, <1>4 DEF KInv

LEMMA ClearedTyped == Cleared /\ regular = TRUE => TypeOK
<1> SUFFICES ASSUME Cleared, regular = TRUE PROVE TypeOK
  OBVIOUS
<1> USE DEF Cleared
<1>1. 0 \in 0..MaxPressed /\ DOMAIN pressState = 0..InitialLen - 1
  BY EnvAssumption
<1>2. pressState \in [DOMAIN pressState -> 0..MaxPressed]
  BY <1>1
<1>3. \A code \in 0..InitialLen - 1 :
        code \in Nat /\ 0..code \subseteq 0..InitialLen - 1 /\ code < InitialLen
  BY InitialLenIsNat
<1> QED
  BY <1>1, <1>2, <1>3 DEF TypeOK

-----------------------------------------------------------------------------
(* Idleness. *)

(* A program has one way of keeping the desktop awake, and what it would    *)
(* stop through the other is not there.                                     *)
OneWay ==
  /\ backend \in {"notifier", "gnome"}
  /\ backend = "gnome" => notification = I!None /\ live = {}
  /\ backend = "notifier" => inhibitor = I!None
  /\ notification \in Notifications \cup {I!None} /\ live \subseteq Notifications
  /\ inhibitor \in Pids \cup {I!None} /\ ended \in BOOLEAN
  /\ processes \in [Pids -> {"none", "inhibitor", "other"}]

IdleInv == OneWay /\ OffMeansOff /\ StopsWhatLives

USE BackendAssumption, PidsAssumption, NotificationsAssumption

LEMMA NoneIsNoOne == I!None \notin Notifications \cup Pids
BY DEF I!None

LEMMA InhibitStep ==
  ASSUME IdleInv, NEW state \in BOOLEAN, I!Inhibit(state)
  PROVE  IdleInv'
<1> USE DEF I!Inhibit, I!gnome, I!notifier, I!Awake
<1>1. CASE backend = "gnome" /\ state
  <2>1. /\ IF state THEN I!GnomeStart ELSE I!GnomeStop
        /\ UNCHANGED <<notification, live, forgotten, backend>> /\ on' = state /\ ended' = FALSE
    BY <1>1
  <2>2. I!GnomeStart
    BY <1>1, <2>1
  <2> DEFINE K == I!Killed
  <2>3. /\ K \in [Pids -> {"none", "inhibitor", "other"}]
        /\ \A p \in Pids : K[p] = (IF p = inhibitor THEN "none" ELSE processes[p])
    BY NoneIsNoOne DEF I!Killed, IdleInv, OneWay
  <2>4. \/ \E pid \in Pids : inhibitor' = pid /\ processes' = [K EXCEPT ![pid] = "inhibitor"]
        \/ inhibitor' = I!None /\ processes' = K
    BY <2>2 DEF I!GnomeStart
  <2> HIDE DEF K
  <2>5. OneWay'
    BY <1>1, <2>1, <2>3, <2>4 DEF IdleInv, OneWay
  <2>6. OffMeansOff'
    <3>1. \A p \in Pids : processes[p] = "inhibitor" => p = inhibitor \/ p \in forgotten
      BY <1>1, NoneIsNoOne DEF IdleInv, OneWay, OffMeansOff, I!OffMeansOff
    <3>2. \A p \in Pids : K[p] = "inhibitor" => p \in forgotten
      BY <2>3, <3>1
    <3>3. \A p \in Pids : processes'[p] = "inhibitor" => p = inhibitor' \/ p \in forgotten
      BY <2>3, <2>4, <3>2
    <3>4. live' = {} /\ forgotten' = forgotten /\ on'
      BY <1>1, <2>1 DEF IdleInv, OneWay
    <3> QED
      BY <3>3, <3>4 DEF OffMeansOff, I!OffMeansOff
  <2>7. StopsWhatLives'
    <3>1. inhibitor' # I!None => inhibitor' \in Pids /\ processes'[inhibitor'] = "inhibitor"
      BY <2>3, <2>4
    <3>2. notification' = I!None
      BY <1>1, <2>1 DEF IdleInv, OneWay
    <3> QED
      BY <3>1, <3>2 DEF StopsWhatLives, I!StopsWhatLives
  <2> QED
    BY <2>5, <2>6, <2>7 DEF IdleInv
<1>2. CASE backend = "gnome" /\ ~state
  <2>1. I!GnomeStop /\ UNCHANGED <<notification, live, forgotten, backend>> /\ on' = state /\ ended' = FALSE
    BY <1>2
  <2> DEFINE K == I!Killed
  <2>3. /\ K \in [Pids -> {"none", "inhibitor", "other"}]
        /\ \A p \in Pids : K[p] = (IF p = inhibitor THEN "none" ELSE processes[p])
    BY NoneIsNoOne DEF I!Killed, IdleInv, OneWay
  <2>4. inhibitor' = I!None /\ processes' = K
    BY <2>1 DEF I!GnomeStop
  <2> HIDE DEF K
  <2>5. OneWay'
    BY <1>2, <2>1, <2>3, <2>4 DEF IdleInv, OneWay
  <2>6. OffMeansOff'
    BY <1>2, <2>1, <2>3, <2>4, NoneIsNoOne DEF IdleInv, OneWay, OffMeansOff, I!OffMeansOff
  <2> QED
    BY <1>2, <2>1, <2>4, <2>5, <2>6 DEF IdleInv, OneWay, StopsWhatLives, I!StopsWhatLives
<1>3. CASE backend = "notifier"
  <2>1. /\ on' = state /\ UNCHANGED <<inhibitor, processes, ended, backend>>
        /\ IF state THEN I!NotifierStart ELSE I!NotifierStop
        /\ forgotten' = forgotten \cup (IF state THEN {notification} \ {I!None} ELSE {})
    BY <1>3
  <2>2. CASE state
    <3>1. \/ \E n \in Notifications \ live : notification' = n /\ live' = live \cup {n}
          \/ notification' = I!None /\ UNCHANGED live
      BY <2>1, <2>2 DEF I!NotifierStart
    <3> QED
      BY <1>3, <2>1, <2>2, <3>1, NoneIsNoOne
      DEF IdleInv, OneWay, OffMeansOff, I!OffMeansOff, StopsWhatLives, I!StopsWhatLives
  <2>3. CASE ~state
    <3>1. live' = live \ {notification} /\ notification' = I!None
      BY <2>1, <2>3 DEF I!NotifierStop
    <3> QED
      BY <1>3, <2>1, <2>3, <3>1, NoneIsNoOne
      DEF IdleInv, OneWay, OffMeansOff, I!OffMeansOff, StopsWhatLives, I!StopsWhatLives
  <2> QED
    BY <2>2, <2>3
<1> QED
  BY <1>1, <1>2, <1>3 DEF IdleInv, OneWay

LEMMA GoneStep == IdleInv /\ (I!Replaced \/ I!Lost) => IdleInv'
<1> SUFFICES ASSUME IdleInv, I!Replaced \/ I!Lost PROVE IdleInv'
  OBVIOUS
<1>1. /\ on' = FALSE /\ inhibitor' = I!None /\ notification' = I!None /\ live' = {}
      /\ ended' = FALSE /\ UNCHANGED backend
  BY DEF I!Replaced, I!Lost, I!Gone
<1>2. processes' \in [Pids -> {"none", "inhibitor", "other"}]
  BY DEF I!Replaced, I!Lost, I!Killed, IdleInv, OneWay
<1>3. \A p \in Pids : processes'[p] = "inhibitor" => p \in forgotten'
  <2>1. \A p \in Pids : processes[p] = "inhibitor" => p = inhibitor \/ p \in forgotten
    BY NoneIsNoOne DEF IdleInv, OneWay, OffMeansOff, I!OffMeansOff, I!Awake
  <2>2. CASE I!Replaced
    <3>1. forgotten' = forgotten \ live /\ processes' = I!Killed
      BY <2>2 DEF I!Replaced
    <3>3. live \cap Pids = {}
      BY DEF IdleInv, OneWay
    <3>2. \A p \in Pids : processes'[p] = "inhibitor" => processes[p] = "inhibitor" /\ p # inhibitor
      BY <3>1, NoneIsNoOne DEF I!Killed, IdleInv, OneWay
    <3> QED
      BY <2>1, <3>1, <3>2, <3>3
  <2>3. CASE I!Lost
    <3>3. live \cap Pids = {}
      BY DEF IdleInv, OneWay
    <3> QED
      BY <3>3, <2>1, <2>3 DEF I!Lost, IdleInv, OneWay
  <2> QED
    BY <2>2, <2>3
<1> QED
  BY <1>1, <1>2, <1>3 DEF IdleInv, OneWay, OffMeansOff, I!OffMeansOff, I!Awake, StopsWhatLives, I!StopsWhatLives

LEMMA OthersStep == IdleInv /\ (\E pid \in Pids : I!Ends(pid) \/ I!Starts(pid)) => IdleInv'
<1> SUFFICES ASSUME IdleInv, NEW pid \in Pids, I!Ends(pid) \/ I!Starts(pid) PROVE IdleInv'
  OBVIOUS
<1> USE DEF I!notifier
<1>1. CASE I!Ends(pid)
  BY <1>1 DEF I!Ends, IdleInv, OneWay, OffMeansOff, I!OffMeansOff, I!Awake, StopsWhatLives, I!StopsWhatLives
<1>2. CASE I!Starts(pid)
  BY <1>2 DEF I!Starts, IdleInv, OneWay, OffMeansOff, I!OffMeansOff, I!Awake, StopsWhatLives, I!StopsWhatLives
<1> QED
  BY <1>1, <1>2

-----------------------------------------------------------------------------
(* The whole. *)

IInv == KInv /\ IdleInv

LEMMA ScreenInitIInv == ScreenInit => IInv
<1> SUFFICES ASSUME ScreenInit PROVE IInv
  OBVIOUS
<1>1. KInv
  BY ClearedKInv DEF ScreenInit, Init, Cleared
<1>2. OneWay
  BY DEF ScreenInit, I!Init, OneWay
<1>3. OffMeansOff /\ StopsWhatLives
  BY DEF ScreenInit, I!Init, OffMeansOff, I!OffMeansOff, I!Awake, StopsWhatLives, I!StopsWhatLives
<1> QED
  BY <1>1, <1>2, <1>3 DEF IInv, IdleInv

LEMMA KeyboardStays == KInv /\ UNCHANGED vars => KInv'
BY DEF vars, KInv, Counted, DownIsCounted, Flags, NoneLeftDown, HeldFinite, Inside, CountsAreKeysHeld

LEMMA IdlenessStays == IdleInv /\ UNCHANGED idleVars => IdleInv'
BY DEF idleVars, IdleInv, OneWay, OffMeansOff, I!OffMeansOff, I!Awake, StopsWhatLives, I!StopsWhatLives

LEMMA ScreenNextIInv == IInv /\ [ScreenNext]_screenVars => IInv'
<1> SUFFICES ASSUME IInv, [ScreenNext]_screenVars PROVE IInv'
  OBVIOUS
<1>1. CASE Packet
  <2>1. KInv'
    BY <1>1, KeyDownStep, KeyUpStep, BorderStep, KeyboardStays DEF Packet, KeyRepeat, IInv
  <2> QED
    BY <1>1, <2>1, IdlenessStays DEF Packet, IInv
<1>2. CASE IdleTap
  BY <1>2, IdleStep, IdlenessStays DEF IdleTap, IInv
<1>3. CASE Inhibition
  BY <1>3, InhibitStep, KeyboardStays DEF Inhibition, I!Begin, I!Screensaver, IInv
<1>4. CASE Ending
  <2>1. KInv'
    <3>1. Cleared'
      BY <1>4 DEF Ending, Cleared
    <3> QED
      BY <3>1, ClearedKInv, PTL
  <2> QED
    BY <1>4, <2>1, GoneStep DEF Ending, IInv
<1>5. CASE OtherProcesses
  BY <1>5, OthersStep, KeyboardStays DEF OtherProcesses, IInv
<1>6. CASE UNCHANGED screenVars
  BY <1>6, KeyboardStays, IdlenessStays DEF screenVars, IInv
<1> QED
  BY <1>1, <1>2, <1>3, <1>4, <1>5, <1>6 DEF ScreenNext

LEMMA ScreenInductive == ScreenSpec => []IInv
BY ScreenInitIInv, ScreenNextIInv, PTL DEF ScreenSpec

(* The invariant of types: OneWay has what idleness needs of it. *)
Typed == ScreenTypeOK /\ IdleInv

LEMMA InhibitTyped ==
  ASSUME Typed, NEW state \in BOOLEAN, I!Inhibit(state), running' \in BOOLEAN, IdleInv'
  PROVE  I!TypeOK'
<1>1. backend' \in Backends /\ on' \in BOOLEAN
  BY DEF Typed, ScreenTypeOK, I!TypeOK, I!Inhibit
<1>2. forgotten' \subseteq Notifications \cup Pids
  BY DEF Typed, ScreenTypeOK, I!TypeOK, I!Inhibit
<1> QED
  BY <1>1, <1>2 DEF I!TypeOK, IdleInv, OneWay

LEMMA IdlenessTyped ==
  ASSUME Typed, IdleInv', \/ I!Begin \/ \E state \in BOOLEAN : I!Screensaver(state)
                          \/ I!Replaced \/ I!Lost
                          \/ \E pid \in Pids : I!Ends(pid) \/ I!Starts(pid)
  PROVE  I!TypeOK'
<1>1. CASE I!Begin
  BY <1>1, InhibitTyped DEF I!Begin
<1>2. CASE \E state \in BOOLEAN : I!Screensaver(state)
  <2>1. running' \in BOOLEAN
    BY <1>2 DEF I!Screensaver, Typed, ScreenTypeOK, I!TypeOK
  <2> QED
    BY <1>2, <2>1, InhibitTyped DEF I!Screensaver
<1>3. CASE I!Replaced \/ I!Lost
  <2>1. backend' \in Backends /\ on' \in BOOLEAN /\ running' \in BOOLEAN
    BY <1>3 DEF I!Replaced, I!Lost, I!Gone, Typed, ScreenTypeOK, I!TypeOK
  <2>2. forgotten' \subseteq Notifications \cup Pids
    BY <1>3 DEF I!Replaced, I!Lost, Typed, ScreenTypeOK, I!TypeOK
  <2> QED
    BY <2>1, <2>2 DEF I!TypeOK, IdleInv, OneWay
<1>4. CASE \E pid \in Pids : I!Ends(pid) \/ I!Starts(pid)
  <2>1. /\ backend' \in Backends /\ on' \in BOOLEAN /\ running' \in BOOLEAN
        /\ forgotten' \subseteq Notifications \cup Pids
    BY <1>4 DEF I!Ends, I!Starts, Typed, ScreenTypeOK, I!TypeOK
  <2> QED
    BY <2>1 DEF I!TypeOK, IdleInv, OneWay
<1> QED
  BY <1>1, <1>2, <1>3, <1>4

LEMMA TypedStep == IInv /\ ScreenTypeOK /\ [ScreenNext]_screenVars => ScreenTypeOK'
<1> SUFFICES ASSUME IInv, ScreenTypeOK, [ScreenNext]_screenVars PROVE ScreenTypeOK'
  OBVIOUS
<1>1. Typed /\ TypeOK /\ I!TypeOK /\ IdleInv'
  BY ScreenNextIInv DEF Typed, ScreenTypeOK, IInv
<1>2. UNCHANGED vars => TypeOK'
  BY <1>1 DEF vars, TypeOK
<1>3. UNCHANGED idleVars => I!TypeOK'
  BY <1>1 DEF idleVars, I!TypeOK
<1>4. CASE Packet
  <2>1. TypeOK'
    BY <1>1, <1>2, <1>4, PressTyped, ReleaseTyped, BorderTyped DEF Packet, KeyRepeat
  <2> QED
    BY <1>3, <1>4, <2>1 DEF Packet, ScreenTypeOK
<1>5. CASE IdleTap
  BY <1>1, <1>3, <1>5, IdleTyped DEF IdleTap, ScreenTypeOK
<1>6. CASE Inhibition
  BY <1>1, <1>2, <1>6, IdlenessTyped DEF Inhibition, ScreenTypeOK
<1>7. CASE Ending
  <2>1. TypeOK'
    <3>1. (Cleared /\ regular = TRUE)'
      BY <1>7 DEF Ending, Cleared
    <3> QED
      BY <3>1, ClearedTyped, PTL
  <2> QED
    BY <1>1, <1>7, <2>1, IdlenessTyped DEF Ending, ScreenTypeOK
<1>8. CASE OtherProcesses
  BY <1>1, <1>2, <1>8, IdlenessTyped DEF OtherProcesses, ScreenTypeOK
<1>9. CASE UNCHANGED screenVars
  BY <1>2, <1>3, <1>9 DEF screenVars, ScreenTypeOK
<1> QED
  BY <1>4, <1>5, <1>6, <1>7, <1>8, <1>9 DEF ScreenNext

(* The counts of key_press_state are an array without gaps, no longer than  *)
(* the configuration and the codes met make it, and never negative or above *)
(* the presses there can be; and idle inhibition keeps its types.           *)
THEOREM TypeCorrect == ScreenSpec => []ScreenTypeOK
<1>1. ScreenInit => ScreenTypeOK
  <2> SUFFICES ASSUME ScreenInit PROVE ScreenTypeOK
    OBVIOUS
  <2>1. TypeOK
    BY ClearedTyped DEF ScreenInit, Init, Cleared
  <2>2. I!TypeOK
    BY DEF ScreenInit, I!Init, I!TypeOK
  <2> QED
    BY <2>1, <2>2 DEF ScreenTypeOK
<1> QED
  BY <1>1, TypedStep, ScreenInductive, PTL DEF ScreenSpec

(* The count of key_press_state is the number of keys the server holds that *)
(* map to the code, whatever shares a code, grows the array or taps a key.  *)
THEOREM CountsMatchTheServer == ScreenSpec => []CountsAreKeysHeld
<1>1. IInv => CountsAreKeysHeld
  BY DEF IInv, KInv
<1> QED
  BY <1>1, ScreenInductive, PTL

(* What is down for the compositor can be released: it is counted.          *)
THEOREM NothingDownUncounted == ScreenSpec => []DownIsCounted
<1>1. IInv => DownIsCounted
  BY DEF IInv, KInv, Counted
<1> QED
  BY <1>1, ScreenInductive, PTL

(* wlKeyReleaseAll leaves no key down, and nothing after it presses one     *)
(* until the screen is entered again.                                       *)
THEOREM LeftMeansReleased == ScreenSpec => []NoneLeftDown
<1>1. IInv => NoneLeftDown
  BY DEF IInv, KInv
<1> QED
  BY <1>1, ScreenInductive, PTL

(* When idle inhibition is off, only what was forgotten keeps the desktop   *)
(* awake; when it is on, only that and what the next stop finds.            *)
THEOREM OffIsOff == ScreenSpec => []OffMeansOff
<1>1. IInv => OffMeansOff
  BY DEF IInv, IdleInv
<1> QED
  BY <1>1, ScreenInductive, PTL

(* No notification object is destroyed that is not there, and no process    *)
(* but the running inhibitor is killed, unless that has ended by itself.    *)
THEOREM DestroysOnce == ScreenSpec => []StopsWhatLives
<1>1. IInv => StopsWhatLives
  BY DEF IInv, IdleInv
<1> QED
  BY <1>1, ScreenInductive, PTL
==============================================================================
