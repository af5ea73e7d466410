---------------------------- MODULE ConfigProofs -----------------------------
(***************************************************************************)
(* Proofs about what the program is told, for any command line, files,     *)
(* names and values.  The command line: at every call of the option parser *)
(* the settings are what the options read so far say (Obeyed).  The files: *)
(* of a key that is plainly written the ini holds, at most once, the value *)
(* of the last line read so far (ReadFrom), and every value in it stems    *)
(* from a line that could be taken for its property's (Origins).  And the  *)
(* certificate: what decides is how the file, the hash in memory and the   *)
(* certificate of the peer are related at each point of syn_connect        *)
(* (Known), and that the file is not written any more once a connection    *)
(* has come up (Kept).                                                     *)
(***************************************************************************)
EXTENDS Startup, TlsPin, FiniteSetTheorems, SequenceTheorems, WellFoundedInduction, TLAPS

(* A set with 0 and the successor of every member has every number.         *)
LEMMA Induction ==
  ASSUME NEW S, 0 \in S, \A n \in Nat : n \in S => n + 1 \in S
  PROVE  \A n \in Nat : n \in S
<1> SUFFICES ASSUME NEW k \in Nat, k \notin S PROVE FALSE
  OBVIOUS
<1> DEFINE T == {n \in Nat : n \notin S}
           R == OpToRel(<, Nat)
<1>1. T \subseteq Nat /\ T # {}
  OBVIOUS
<1>2. \A x, y \in Nat : x < y => <<x, y>> \in R
  BY DEF OpToRel
<1>3. IsWellFoundedOn(R, Nat)
  BY NatLessThanWellFounded
<1> HIDE DEF R
<1>4. PICK m \in T : \A n \in T : ~(<<n, m>> \in R)
  BY <1>1, <1>3, WFMin
<1>5. m # 0 /\ \A n \in T : ~(n < m)
  BY <1>2, <1>4
<1>6. m - 1 \in Nat /\ m = (m - 1) + 1 /\ m - 1 < m
  BY <1>5
<1>7. m - 1 \in S
  BY <1>5, <1>6
<1> QED
  BY <1>6, <1>7

(* A function that is defined by recursion over 0..n, each value by a step  *)
(* from the one before, exists and stays within the set the steps stay in.  *)
Rec(n, b, G, f) == f = [i \in 0..n |-> IF i = 0 THEN b ELSE G[<<f[i - 1], i>>]]

(* Such a function exists, by induction over n. *)
LEMMA Recursion ==
  ASSUME NEW D, NEW n \in Nat, NEW b \in D, NEW G \in [D \X (1..n) -> D]
  PROVE  \E f \in [0..n -> D] : Rec(n, b, G, f)
<1> DEFINE S == {k \in Nat : k <= n => \E f \in [0..k -> D] : Rec(k, b, G, f)}
<1>1. 0 \in S
  <2> DEFINE f == [i \in 0..0 |-> b]
  <2>1. f = [i \in 0..0 |-> IF i = 0 THEN b ELSE G[<<f[i - 1], i>>]]
    OBVIOUS
  <2>2. f \in [0..0 -> D]
    OBVIOUS
  <2> QED
    BY <2>1, <2>2 DEF Rec
<1>2. ASSUME NEW k \in Nat, k \in S PROVE k + 1 \in S
  <2> SUFFICES ASSUME k + 1 <= n PROVE \E f \in [0..k + 1 -> D] : Rec(k + 1, b, G, f)
    OBVIOUS
  <2>1. PICK f \in [0..k -> D] : Rec(k, b, G, f)
    BY <1>2
  <2>2. f = [i \in 0..k |-> IF i = 0 THEN b ELSE G[<<f[i - 1], i>>]]
    BY <2>1 DEF Rec
  <2>3. PICK e \in D : e = G[<<f[k], k + 1>>]
    OBVIOUS
  <2> DEFINE g == [i \in 0..k + 1 |-> IF i = k + 1 THEN e ELSE f[i]]
             h == [i \in 0..k + 1 |-> IF i = 0 THEN b ELSE G[<<g[i - 1], i>>]]
  <2>4. g \in [0..k + 1 -> D]
    OBVIOUS
  <2>5. ASSUME NEW i \in 0..k + 1 PROVE g[i] = h[i]
    <3>1. CASE i = 0
      BY <2>2, <3>1
    <3>2. CASE i = k + 1
      <4>1. i # 0 /\ i - 1 = k /\ k \in 0..k + 1 /\ k # k + 1
        BY <3>2
      <4>2. g[i - 1] = f[k]
        BY <4>1
      <4>3. h[i] = G[<<f[k], i>>]
        BY <4>1, <4>2
      <4> QED
        BY <2>3, <3>2, <4>3
    <3>3. CASE i # 0 /\ i # k + 1
      <4>1. i \in 0..k /\ i - 1 \in 0..k + 1 /\ i - 1 # k + 1
        BY <3>3
      <4>2. g[i - 1] = f[i - 1] /\ g[i] = f[i]
        BY <3>3, <4>1
      <4>3. h[i] = G[<<f[i - 1], i>>]
        BY <3>3, <4>2
      <4>4. f[i] = G[<<f[i - 1], i>>]
        BY <2>2, <3>3, <4>1
      <4> QED
        BY <4>2, <4>3, <4>4
    <3> QED
      BY <3>1, <3>2, <3>3
  <2>6. g = h
    BY <2>5
  <2> QED
    BY <2>4, <2>6 DEF Rec
<1> HIDE DEF S
<1>3. n \in S
  BY <1>1, <1>2, Induction
<1> QED
  BY <1>3 DEF S

(* The greatest and the least of a set are what Max and Min choose.         *)
LEMMA MaxIs ==
  ASSUME NEW S \in SUBSET Int, NEW m \in S, \A y \in S : y <= m
  PROVE  Max(S) = m
<1>1. \E x \in S : \A y \in S : x >= y
  OBVIOUS
<1>2. Max(S) \in S /\ \A y \in S : Max(S) >= y
  BY <1>1 DEF Max
<1>3. Max(S) >= m /\ Max(S) <= m /\ Max(S) \in Int
  BY <1>2
<1> QED
  BY <1>3

(* A least member of a set of numbers is its minimum. *)
LEMMA MinIs ==
  ASSUME NEW S \in SUBSET Int, NEW m \in S, \A y \in S : m <= y
  PROVE  Min(S) = m
<1>1. \E x \in S : \A y \in S : x <= y
  OBVIOUS
<1>2. Min(S) \in S /\ \A y \in S : Min(S) <= y
  BY <1>1 DEF Min
<1>3. Min(S) >= m /\ Min(S) <= m /\ Min(S) \in Int
  BY <1>2
<1> QED
  BY <1>3

-----------------------------------------------------------------------------
(* What a word can be. *)
Word(w) ==
  /\ w.arg \in Int /\ w.opts \in Seq(STRING)
  /\ w.kind \in {"letters", "name", "end", "plain"}
  /\ w.kind = "letters" => w.opts # <<>>
  /\ w.kind = "name" => Len(w.opts) = 1
  /\ w.kind \in {"end", "plain"} => w.opts = <<>>

(* Words as the inputs have them are words as the lemmas take them. *)
LEMMA WordIs == ASSUME NEW w, IsWord(w) PROVE Word(w)
<1>1. CASE w.arg = NaN /\ w.opts \in Seq(STRING) /\ w = Letters(w.opts) /\ w.opts # <<>>
  <2>1. w.kind = "letters"
    BY <1>1 DEF Letters
  <2> QED
    BY <1>1, <2>1 DEF Word, NaN
<1>2. CASE w.arg = NaN /\ w.opts \in Seq(STRING) /\ Len(w.opts) = 1 /\ w = Name(w.opts[1])
  <2>1. w.kind = "name"
    BY <1>2 DEF Name
  <2> QED
    BY <1>2, <2>1 DEF Word, NaN
<1>3. CASE w.arg = NaN /\ w = Dashes
  BY <1>3 DEF Word, Dashes, NaN
<1>4. CASE w.arg \in Int /\ w = Plain(w.arg)
  <2>1. w.kind = "plain" /\ w.opts = <<>>
    BY <1>4 DEF Plain
  <2> QED
    BY <1>4, <2>1 DEF Word
<1> QED
  BY <1>1, <1>2, <1>3, <1>4 DEF IsWord

Words(words) == Len(words) \in Nat /\ DOMAIN words = 1..Len(words) /\ \A i \in 1..Len(words) : Word(words[i])

(* The inputs' command lines are made of such words. *)
LEMMA WordsAre ==
  ASSUME NEW words, words \in Seq(Ran(words)), \A w \in Ran(words) : IsWord(w)
  PROVE  Words(words)
<1>1. Len(words) \in Nat /\ DOMAIN words = 1..Len(words)
  OBVIOUS
<1>2. ASSUME NEW i \in 1..Len(words) PROVE Word(words[i])
  BY <1>1, WordIs DEF Ran
<1> QED
  BY <1>1, <1>2 DEF Words

(* The word's last option takes an argument. *)
Asks(w) == w.opts # <<>> /\ w.opts[Len(w.opts)] \in WithArg

(* IsArgument word by word: a word is an argument if the one before it is   *)
(* not, and asks for one.                                                   *)
LEMMA ArgumentIs ==
  ASSUME NEW words, Words(words)
  PROVE  \A i \in 1..Len(words) :
           /\ IsArgument(words)[i] \in BOOLEAN
           /\ IsArgument(words)[i] <=> i > 1 /\ ~IsArgument(words)[i - 1] /\ Asks(words[i - 1])
<1> DEFINE n == Len(words)
           G == [x \in BOOLEAN \X (1..n) |-> x[2] > 1 /\ ~x[1] /\ Asks(words[x[2] - 1])]
<1>1. n \in Nat
  BY DEF Words
<1>2. G \in [BOOLEAN \X (1..n) -> BOOLEAN]
  OBVIOUS
<1>3. PICK f \in [0..n -> BOOLEAN] : Rec(n, FALSE, G, f)
  <2> HIDE DEF G
  <2> QED
    BY <1>1, <1>2, Recursion
<1>4. f = [i \in 0..n |-> IF i = 0 THEN FALSE ELSE G[<<f[i - 1], i>>]]
  BY <1>3 DEF Rec
<1> DEFINE F(g) == [i \in 0..n |-> /\ i > 1 /\ ~g[i - 1]
                                  /\ words[i - 1].opts # <<>>
                                  /\ words[i - 1].opts[Len(words[i - 1].opts)] \in WithArg]
<1>5. ASSUME NEW i \in 0..n PROVE f[i] = F(f)[i]
  <2>1. CASE i = 0
    BY <1>4, <2>1
  <2>2. CASE i # 0
    <3>1. i - 1 \in 0..n /\ i \in 1..n /\ f[i - 1] \in BOOLEAN
      BY <1>3, <2>2
    <3>2. f[i] = G[<<f[i - 1], i>>]
      BY <1>4, <2>2
    <3>3. G[<<f[i - 1], i>>] = (i > 1 /\ ~f[i - 1] /\ Asks(words[i - 1]))
      BY <3>1
    <3> QED
      BY <3>2, <3>3 DEF Asks
  <2> QED
    BY <2>1, <2>2
<1>6. f = F(f)
  BY <1>4, <1>5
<1>7. PICK g : g = CHOOSE h : h = F(h)
  OBVIOUS
<1>8. IsArgument(words) = g
  BY <1>7 DEF IsArgument
<1>9. g = F(g)
  BY <1>6, <1>7
<1> SUFFICES ASSUME NEW i \in 1..n
             PROVE  g[i] \in BOOLEAN /\ (g[i] <=> i > 1 /\ ~g[i - 1] /\ Asks(words[i - 1]))
  BY <1>8
<1>10. i \in 0..n
  BY <1>1
<1>11. g[i] = F(g)[i]
  BY <1>9, Zenon
<1>12. F(g)[i] = (i > 1 /\ ~g[i - 1] /\ Asks(words[i - 1]))
  BY <1>10 DEF Asks
<1> HIDE DEF F
<1> QED
  BY <1>11, <1>12

-----------------------------------------------------------------------------
(* Where the parser is: words 1..i have been begun, and of word i the       *)
(* options before c if c is not 0; the next is option q of word w.          *)
At(words, i, c) ==
  /\ i \in 0..Len(words) /\ c \in Nat
  /\ \A j \in 1..i : words[j].opts # <<>> \/ IsArgument(words)[j]
  /\ c = 0 /\ i < Len(words) => ~IsArgument(words)[i + 1]
  /\ c # 0 => i # 0 /\ ~IsArgument(words)[i] /\ words[i].kind = "letters" /\ c \in 2..Len(words[i].opts)

NextWord(i, c) == IF c = 0 THEN i + 1 ELSE i
NextLetter(c) == IF c = 0 THEN 1 ELSE c

(* What a call may do. *)
Ends(words, i, c, got) ==
  /\ got.opt = Nothing /\ got.ind = i + 1 /\ got.pos = 0 /\ c = 0
  /\ i < Len(words) => words[i + 1].opts = <<>>
Took(words, w, q, got) ==
  /\ got.opt = words[w].opts[q] /\ got.opt \in Opts /\ got.arg \in Int
  /\ \/ /\ q < Len(words[w].opts) /\ words[w].kind = "letters" /\ got.opt \notin WithArg
        /\ got.ind = w /\ got.pos = q + 1
     \/ /\ q = Len(words[w].opts) /\ got.opt \notin WithArg
        /\ got.ind = w /\ got.pos = 0
     \/ /\ q = Len(words[w].opts) /\ got.opt \in WithArg
        /\ w < Len(words) /\ got.arg = words[w + 1].arg
        /\ got.ind = w + 1 /\ got.pos = 0
Reads(words, i, c, got) ==
  LET w == NextWord(i, c)
      q == NextLetter(c)
  IN  /\ w \in 1..Len(words) /\ q \in 1..Len(words[w].opts) /\ ~IsArgument(words)[w]
      /\ Took(words, w, q, got)

Argued(words, opt, i, p, got) ==
  /\ got.opt = opt /\ got.arg \in Int
  /\ opt \notin WithArg => got.ind = i /\ got.pos = p
  /\ opt \in WithArg => i # Len(words) /\ got.arg = words[i + 1].arg /\ got.ind = i + 1 /\ got.pos = p

(* What TakeArg returns, and what the two forms of options make of it. *)
LEMMA TakeArgDoes ==
  ASSUME NEW words, Words(words), NEW opt, NEW i \in 1..Len(words), NEW p,
         TakeArg(words, opt, i, p).opt # Invalid
  PROVE  Argued(words, opt, i, p, TakeArg(words, opt, i, p))
<1>1. CASE opt \notin WithArg
  BY <1>1 DEF TakeArg, Refused, Result, NaN, Argued
<1>2. CASE opt \in WithArg
  <2>1. i # Len(words) /\ TakeArg(words, opt, i, p) = Result(opt, words[i + 1].arg, i + 1, p)
    BY <1>2 DEF TakeArg, Refused, Result
  <2>2. i + 1 \in 1..Len(words)
    <3>1. Len(words) \in Nat /\ i # Len(words)
      BY <2>1 DEF Words
    <3> QED
      BY <3>1
  <2>3. words[i + 1].arg \in Int
    BY <2>2 DEF Words, Word
  <2> QED
    BY <1>2, <2>1, <2>3 DEF Result, Argued
<1> QED
  BY <1>1, <1>2

(* A letter that is not refused is read: with its argument, or alone. *)
LEMMA ShortOptReads ==
  ASSUME NEW words, Words(words), NEW w \in 1..Len(words), NEW q \in 1..Len(words[w].opts),
         ~IsArgument(words)[w], words[w].kind = "letters",
         ShortOpt(words, w, q).opt # Invalid
  PROVE  Took(words, w, q, ShortOpt(words, w, q))
<1>1. PICK opt : opt = words[w].opts[q]
  OBVIOUS
<1>2. PICK n \in Nat : n = Len(words[w].opts) /\ q \in 1..n
  BY DEF Words, Word
<1>3. ~(opt \notin Opts \ LongOnly \/ (q # n /\ opt \in WithArg))
  BY <1>1, <1>2 DEF ShortOpt, Refused, Result
<1>4. PICK p : p = IF q = n THEN 0 ELSE q + 1
  OBVIOUS
<1>5. ShortOpt(words, w, q) = TakeArg(words, opt, w, p)
  BY <1>1, <1>2, <1>3, <1>4 DEF ShortOpt
<1>6. opt \in Opts
  BY <1>3
<1>7. TakeArg(words, opt, w, p).opt # Invalid
  BY <1>5
<1>8. PICK got : got = TakeArg(words, opt, w, p)
  OBVIOUS
<1>9. /\ got.opt = opt /\ got.arg \in Int
      /\ opt \notin WithArg => got.ind = w /\ got.pos = p
      /\ opt \in WithArg => w # Len(words) /\ got.arg = words[w + 1].arg /\ got.ind = w + 1 /\ got.pos = p
  <2>1. Argued(words, opt, w, p, got)
    BY <1>7, <1>8, TakeArgDoes
  <2> QED
    BY <2>1 DEF Argued
<1>10. Len(words) \in Nat
  BY DEF Words
<1>11. opt \in WithArg => q = n
  BY <1>3
<1>12. w # Len(words) => w < Len(words)
  BY <1>10
<1>13. /\ got.opt = opt /\ opt \in Opts /\ got.arg \in Int
       /\ \/ q < n /\ opt \notin WithArg /\ got.ind = w /\ got.pos = q + 1
          \/ q = n /\ opt \notin WithArg /\ got.ind = w /\ got.pos = 0
          \/ /\ q = n /\ opt \in WithArg /\ w < Len(words) /\ got.arg = words[w + 1].arg
             /\ got.ind = w + 1 /\ got.pos = 0
  BY <1>2, <1>4, <1>6, <1>9, <1>11, <1>12
<1> QED
  BY <1>1, <1>2, <1>5, <1>8, <1>13 DEF Took

(* A call that is not refused ends the options or reads the next one. *)
LEMMA GetOptDoes ==
  ASSUME NEW words, Words(words), NEW i, NEW c, At(words, i, c), GetOpt(words, i, c).opt # Invalid
  PROVE  Ends(words, i, c, GetOpt(words, i, c)) \/ Reads(words, i, c, GetOpt(words, i, c))
<1>1. PICK got : got = GetOpt(words, i, c)
  OBVIOUS
<1>2. i \in 0..Len(words) /\ Len(words) \in Nat /\ c \in Nat
  BY DEF At, Words
<1>3. CASE c # 0
  <2>1. got = ShortOpt(words, i, c)
    BY <1>1, <1>3 DEF GetOpt
  <2>2. i \in 1..Len(words) /\ c \in 1..Len(words[i].opts) /\ ~IsArgument(words)[i] /\ words[i].kind = "letters"
    BY <1>2, <1>3 DEF At, Words, Word
  <2>3. NextWord(i, c) = i /\ NextLetter(c) = c
    BY <1>3 DEF NextWord, NextLetter
  <2>4. Took(words, i, c, got)
    BY <1>1, <2>1, <2>2, ShortOptReads
  <2>5. Reads(words, i, c, got)
    BY <2>2, <2>3, <2>4 DEF Reads
  <2> QED
    BY <1>1, <2>5
<1>4. CASE c = 0 /\ (i = Len(words) \/ words[i + 1].kind \in {"plain", "end"})
  <2>1. got = End(i + 1)
    BY <1>1, <1>4 DEF GetOpt
  <2>2. i < Len(words) => words[i + 1].opts = <<>>
    BY <1>2, <1>4 DEF Words, Word
  <2>3. Ends(words, i, c, got)
    BY <1>4, <2>1, <2>2 DEF Ends, End, Result
  <2> QED
    BY <1>1, <2>3
<1>5. CASE c = 0 /\ i # Len(words) /\ words[i + 1].kind \notin {"plain", "end"}
  <2>1. i + 1 \in 1..Len(words) /\ ~IsArgument(words)[i + 1] /\ i < Len(words)
    BY <1>2, <1>5 DEF At
  <2>2. NextWord(i, c) = i + 1 /\ NextLetter(c) = 1
    BY <1>5 DEF NextWord, NextLetter
  <2>3. Word(words[i + 1])
    BY <2>1 DEF Words
  <2>4. CASE words[i + 1].kind = "name"
    <3>1. got = LongOpt(words, i + 1)
      BY <1>1, <1>5, <2>4 DEF GetOpt
    <3>2. PICK opt : opt = words[i + 1].opts[1]
      OBVIOUS
    <3>3. opt \in Opts /\ got = TakeArg(words, opt, i + 1, 0)
      BY <1>1, <3>1, <3>2 DEF LongOpt, Refused, Result
    <3>4. Len(words[i + 1].opts) = 1 /\ 1 \in 1..Len(words[i + 1].opts)
      <4>1. Len(words[i + 1].opts) = 1
        BY <2>3, <2>4 DEF Word
      <4> QED
        BY <4>1
    <3>6. /\ got.opt = opt /\ got.arg \in Int
          /\ opt \notin WithArg => got.ind = i + 1 /\ got.pos = 0
          /\ opt \in WithArg => /\ i + 1 # Len(words) /\ got.arg = words[(i + 1) + 1].arg
                                /\ got.ind = (i + 1) + 1 /\ got.pos = 0
      <4>1. PICK w : w = i + 1
        OBVIOUS
      <4>2. w \in 1..Len(words) /\ got = TakeArg(words, opt, w, 0) /\ got.opt # Invalid
        BY <1>1, <2>1, <3>3, <4>1
      <4>3. Argued(words, opt, w, 0, got)
        BY <4>2, TakeArgDoes
      <4> QED
        BY <4>1, <4>3 DEF Argued
    <3>7. i + 1 # Len(words) => i + 1 < Len(words)
      BY <2>1
    <3>8. Reads(words, i, c, got)
      BY <2>1, <2>2, <3>2, <3>3, <3>4, <3>6, <3>7 DEF Reads, Took
    <3> QED
      BY <1>1, <3>8
  <2>5. CASE words[i + 1].kind = "letters"
    <3>1. got = ShortOpt(words, i + 1, 1)
      BY <1>1, <1>5, <2>5 DEF GetOpt
    <3>2. 1 \in 1..Len(words[i + 1].opts)
      BY <2>3, <2>5 DEF Word
    <3>3. PICK w : w = i + 1
      OBVIOUS
    <3>4. got.opt # Invalid /\ got = ShortOpt(words, w, 1)
      BY <1>1, <3>1, <3>3
    <3>5. w \in 1..Len(words) /\ ~IsArgument(words)[w] /\ words[w].kind = "letters" /\ 1 \in 1..Len(words[w].opts)
      BY <2>1, <2>5, <3>2, <3>3
    <3>6. NextWord(i, c) = w /\ NextLetter(c) = 1
      BY <2>2, <3>3
    <3>7. Took(words, w, 1, got)
      BY <3>4, <3>5, ShortOptReads
    <3>8. Reads(words, i, c, got)
      BY <3>5, <3>6, <3>7 DEF Reads
    <3> QED
      BY <1>1, <3>8
  <2> QED
    BY <1>5, <2>3, <2>4, <2>5 DEF Word
<1> QED
  BY <1>3, <1>4, <1>5

(* The parser moves on to the next option. *)
LEMMA AtNext ==
  ASSUME NEW words, Words(words), NEW i, NEW c, At(words, i, c), NEW got, Reads(words, i, c, got)
  PROVE  At(words, got.ind, got.pos)
<1>1. PICK w : w = NextWord(i, c)
  OBVIOUS
<1>2. PICK q : q = NextLetter(c)
  OBVIOUS
<1>3. PICK n \in Nat : n = Len(words)
  BY DEF Words
<1>4. PICK k \in Nat : k = Len(words[w].opts)
  BY <1>1 DEF Reads, Words, Word
<1>5. /\ w \in 1..n /\ q \in 1..k /\ ~IsArgument(words)[w]
      /\ got.opt = words[w].opts[q]
      /\ \/ /\ q < k /\ words[w].kind = "letters" /\ got.opt \notin WithArg
            /\ got.ind = w /\ got.pos = q + 1
         \/ q = k /\ got.opt \notin WithArg /\ got.ind = w /\ got.pos = 0
         \/ q = k /\ got.opt \in WithArg /\ w < n /\ got.ind = w + 1 /\ got.pos = 0
  BY <1>1, <1>2, <1>3, <1>4 DEF Reads, Took
<1>6. words[w].opts # <<>>
  BY <1>4, <1>5
<1>7. \A j \in 1..w : words[j].opts # <<>> \/ IsArgument(words)[j]
  <2>1. i \in 0..n /\ w \in {i, i + 1}
    BY <1>1, <1>3 DEF At, NextWord
  <2>2. \A j \in 1..w : j \in 1..i \/ j = w
    BY <2>1
  <2> QED
    BY <1>6, <2>2 DEF At
<1>8. Asks(words[w]) <=> words[w].opts[k] \in WithArg
  BY <1>4, <1>6 DEF Asks
<1>9. \A j \in 1..n : IsArgument(words)[j] <=> j > 1 /\ ~IsArgument(words)[j - 1] /\ Asks(words[j - 1])
  BY <1>3, ArgumentIs
<1>10. w < n => (IsArgument(words)[w + 1] <=> Asks(words[w]))
  <2>1. w < n => w + 1 \in 1..n /\ w + 1 > 1 /\ (w + 1) - 1 = w
    BY <1>5
  <2> QED
    BY <1>5, <1>9, <2>1
<1>11. CASE q < k /\ words[w].kind = "letters" /\ got.ind = w /\ got.pos = q + 1
  <2>1. q + 1 \in 2..k /\ q + 1 # 0 /\ q + 1 \in Nat /\ w # 0 /\ w \in 0..n
    BY <1>5, <1>11
  <2> QED
    BY <1>3, <1>4, <1>5, <1>7, <1>11, <2>1 DEF At
<1>12. CASE q = k /\ got.opt \notin WithArg /\ got.ind = w /\ got.pos = 0
  <2>1. w \in 0..n /\ (w < n => ~IsArgument(words)[w + 1])
    BY <1>5, <1>8, <1>10, <1>12
  <2> QED
    BY <1>3, <1>7, <1>12, <2>1 DEF At
<1>13. CASE q = k /\ got.opt \in WithArg /\ w < n /\ got.ind = w + 1 /\ got.pos = 0
  <2>1. IsArgument(words)[w + 1]
    BY <1>5, <1>8, <1>10, <1>13
  <2>2. w + 1 \in 0..n /\ \A j \in 1..w + 1 : j \in 1..w \/ j = w + 1
    BY <1>5, <1>13
  <2>3. w + 1 < n => ~IsArgument(words)[(w + 1) + 1]
    <3>1. w + 1 < n => (w + 1) + 1 \in 1..n /\ ((w + 1) + 1) - 1 = w + 1
      BY <1>5
    <3> QED
      BY <1>9, <2>1, <3>1
  <2>4. \A j \in 1..w + 1 : words[j].opts # <<>> \/ IsArgument(words)[j]
    BY <1>7, <2>1, <2>2
  <2> QED
    BY <1>3, <1>13, <2>2, <2>3, <2>4 DEF At
<1> QED
  BY <1>5, <1>11, <1>12, <1>13

-----------------------------------------------------------------------------
(* The options that have been read, as <<word, place in it>>, and what the  *)
(* settings owe to them.                                                    *)
Done(words, i, c) ==
  {d \in (1..i) \X Nat : /\ ~IsArgument(words)[d[1]]
                         /\ d[2] \in 1..Len(words[d[1]].opts)
                         /\ d[1] = i /\ c # 0 => d[2] < c}
Letter(words, d) == words[d[1]].opts[d[2]]
Before(d, e) == d[1] < e[1] \/ (d[1] = e[1] /\ d[2] < e[2])

NoneOf(words, D, os) == \A d \in D : Letter(words, d) \notin os
LastOf(words, D, os, d) ==
  /\ d \in D /\ Letter(words, d) \in os
  /\ \A e \in D : Letter(words, e) \in os => e = d \/ Before(e, d)

SizeBy(words, D, o, now, was) ==
  \/ NoneOf(words, D, {o}) /\ now = was
  \/ \E d \in D : LastOf(words, D, {o}, d) /\ d[1] + 1 \in 1..Len(words) /\ now = UInt16(words[d[1] + 1].arg)

Obeyed(words, D, set, conf) ==
  /\ SizeBy(words, D, "W", set.width, conf.width)
  /\ SizeBy(words, D, "H", set.height, conf.height)
  /\ \/ NoneOf(words, D, {"e", "E"}) /\ (set.crypto <=> conf.crypto)
     \/ \E d \in D : LastOf(words, D, {"e", "E"}, d) /\ (set.crypto <=> Letter(words, d) = "e")
  /\ set.clip <=> NoneOf(words, D, {"n"})
  /\ ~set.fatal <=> NoneOf(words, D, {"F"})

(* A call that reads an option adds it, as the last one, to those that were *)
(* read.                                                                    *)
LEMMA DoneNext ==
  ASSUME NEW words, Words(words), NEW i, NEW c, At(words, i, c), NEW got, Reads(words, i, c, got)
  PROVE  LET d == <<NextWord(i, c), NextLetter(c)>>
         IN  /\ Done(words, got.ind, got.pos) = Done(words, i, c) \cup {d}
             /\ \A e \in Done(words, i, c) : Before(e, d)
<1>1. PICK w : w = NextWord(i, c)
  OBVIOUS
<1>2. PICK q : q = NextLetter(c)
  OBVIOUS
<1>3. PICK n \in Nat : n = Len(words)
  BY DEF Words
<1>4. PICK k \in Nat : k = Len(words[w].opts)
  BY <1>1 DEF Reads, Words, Word
<1>5. /\ w \in 1..n /\ q \in 1..k /\ ~IsArgument(words)[w]
      /\ \/ q < k /\ got.opt \notin WithArg /\ got.ind = w /\ got.pos = q + 1
         \/ q = k /\ got.opt \notin WithArg /\ got.ind = w /\ got.pos = 0
         \/ q = k /\ got.opt \in WithArg /\ w < n /\ got.ind = w + 1 /\ got.pos = 0
  BY <1>1, <1>2, <1>3, <1>4 DEF Reads, Took
<1>6. got.opt = words[w].opts[k] \/ q # k
  BY <1>1, <1>2, <1>4 DEF Reads, Took
<1>7. i \in 0..n /\ c \in Nat
      /\ \/ c = 0 /\ w = i + 1 /\ q = 1
         \/ c # 0 /\ w = i /\ q = c
  BY <1>1, <1>2, <1>3 DEF At, NextWord, NextLetter
<1>8. \A m \in 1..n : Len(words[m].opts) \in Nat
  BY <1>3 DEF Words, Word
<1>9. w < n /\ got.opt \in WithArg /\ q = k => IsArgument(words)[w + 1]
  <2>1. w < n => w + 1 \in 1..n /\ w + 1 > 1 /\ (w + 1) - 1 = w
    BY <1>5
  <2>2. k # 0 /\ k = Len(words[w].opts) => words[w].opts # <<>>
    OBVIOUS
  <2> QED
    BY <1>3, <1>4, <1>5, <1>6, <2>1, <2>2, ArgumentIs DEF Asks
<1> DEFINE Old(m, p) == m \in 1..i /\ p \in Nat /\ ~IsArgument(words)[m] /\ p \in 1..Len(words[m].opts) /\ (m = i /\ c # 0 => p < c)
           New(m, p) == m \in 1..got.ind /\ p \in Nat /\ ~IsArgument(words)[m] /\ p \in 1..Len(words[m].opts) /\ (m = got.ind /\ got.pos # 0 => p < got.pos)
<1>10. ASSUME NEW m \in 1..n, NEW p \in Nat
       PROVE  New(m, p) <=> Old(m, p) \/ (m = w /\ p = q)
  <2>1. PICK l \in Nat : l = Len(words[m].opts)
    BY <1>8
  <2>2. m = w => l = k
    BY <1>4, <2>1
  <2>3. PICK a \in BOOLEAN : a <=> IsArgument(words)[m]
    OBVIOUS
  <2>4. m = w => ~a
    BY <1>5, <2>3
  <2>5. m = w + 1 /\ w < n /\ got.opt \in WithArg /\ q = k => a
    BY <1>9, <2>3
  <2>6. Old(m, p) <=> m \in 1..i /\ ~a /\ p \in 1..l /\ (m = i /\ c # 0 => p < c)
    BY <2>1, <2>3
  <2>7. New(m, p) <=> m \in 1..got.ind /\ ~a /\ p \in 1..l /\ (m = got.ind /\ got.pos # 0 => p < got.pos)
    BY <2>1, <2>3
  <2> HIDE DEF Old, New
  <2>8. CASE q < k /\ got.ind = w /\ got.pos = q + 1
    BY <1>5, <1>7, <2>2, <2>4, <2>6, <2>7, <2>8
  <2>9. CASE q = k /\ got.ind = w /\ got.pos = 0
    BY <1>5, <1>7, <2>2, <2>4, <2>6, <2>7, <2>9
  <2>10. CASE q = k /\ got.opt \in WithArg /\ w < n /\ got.ind = w + 1 /\ got.pos = 0
    <3>1. m = w + 1 => a
      BY <2>5, <2>10
    <3> QED
      BY <1>5, <1>7, <2>2, <2>4, <2>6, <2>7, <2>10, <3>1
  <2> QED
    BY <1>5, <2>8, <2>9, <2>10
<1>11. got.ind \in 1..n
  BY <1>5
<1>12. \A m, p : Old(m, p) => m \in 1..n /\ p \in Nat
  BY <1>7
<1>13. \A m, p : New(m, p) => m \in 1..n /\ p \in Nat
  BY <1>11
<1>14. Done(words, i, c) = {d \in (1..i) \X Nat : Old(d[1], d[2])}
  BY DEF Done
<1>15. Done(words, got.ind, got.pos) = {d \in (1..got.ind) \X Nat : New(d[1], d[2])}
  BY DEF Done
<1>16. \A m, p : <<m, p>> \in Done(words, i, c) <=> Old(m, p)
  BY <1>14
<1>17. \A m, p : <<m, p>> \in Done(words, got.ind, got.pos) <=> New(m, p)
  BY <1>15
<1>18. ASSUME NEW m, NEW p, Old(m, p) PROVE m < w \/ (m = w /\ p < q)
  BY <1>5, <1>7, <1>18
<1>19. \A e \in Done(words, i, c) : e = <<e[1], e[2]>>
  BY DEF Done
<1>20. \A e \in Done(words, got.ind, got.pos) : e = <<e[1], e[2]>>
  BY DEF Done
<1> HIDE DEF Old, New
<1>21. New(w, q) /\ \A m, p : New(m, p) <=> Old(m, p) \/ (m = w /\ p = q)
  <2>1. w \in 1..n /\ q \in Nat
    BY <1>5
  <2> QED
    BY <1>10, <1>12, <1>13, <2>1
<1>22. Done(words, got.ind, got.pos) = Done(words, i, c) \cup {<<w, q>>}
  BY <1>16, <1>17, <1>19, <1>20, <1>21
<1>23. \A e \in Done(words, i, c) : Before(e, <<w, q>>)
  BY <1>16, <1>18, <1>19 DEF Before
<1> QED
  BY <1>1, <1>2, <1>22, <1>23

(* One more option that comes behind all that have been read. *)
LEMMA OneMore ==
  ASSUME NEW words, NEW D, NEW d, \A e \in D : Before(e, d), NEW os
  PROVE  /\ Letter(words, d) \in os => ~NoneOf(words, D \cup {d}, os) /\ LastOf(words, D \cup {d}, os, d)
         /\ Letter(words, d) \notin os =>
              /\ NoneOf(words, D \cup {d}, os) <=> NoneOf(words, D, os)
              /\ \A e \in D : LastOf(words, D, os, e) => LastOf(words, D \cup {d}, os, e)
BY DEF NoneOf, LastOf

Sizes == {n \in Nat : n < 65536}
Settings == [width : Sizes, height : Sizes, crypto : BOOLEAN, clip : BOOLEAN,
             fatal : BOOLEAN, man : BOOLEAN]

(* What is left of a number in sixteen bits is a size. *)
LEMMA UInt16Is == ASSUME NEW n \in Int PROVE UInt16(n) \in Sizes
BY DEF UInt16, Sizes

(* What the switch of main does with an option. *)
LEMMA ApplyDoes ==
  ASSUME NEW set \in Settings, NEW opt, NEW arg \in Int
  PROVE  LET new == Apply(set, opt, arg)
         IN  /\ new \in Settings /\ new.man = set.man
             /\ new.width = IF opt = "W" THEN UInt16(arg) ELSE set.width
             /\ new.height = IF opt = "H" THEN UInt16(arg) ELSE set.height
             /\ new.crypto <=> opt = "e" \/ (opt # "E" /\ set.crypto)
             /\ new.clip <=> opt # "n" /\ set.clip
             /\ new.fatal <=> opt = "F" \/ set.fatal
<1>1. CASE opt = "W"
  <2>1. Apply(set, opt, arg) = [set EXCEPT !.width = UInt16(arg)]
    BY <1>1 DEF Apply
  <2>2. UInt16(arg) \in Sizes
    BY UInt16Is
  <2> QED
    BY <1>1, <2>1, <2>2 DEF Settings
<1>2. CASE opt = "H"
  <2>1. Apply(set, opt, arg) = [set EXCEPT !.height = UInt16(arg)]
    BY <1>2 DEF Apply
  <2>2. UInt16(arg) \in Sizes
    BY UInt16Is
  <2> QED
    BY <1>2, <2>1, <2>2 DEF Settings
<1>3. CASE opt = "e"
  <2>1. Apply(set, opt, arg) = [set EXCEPT !.crypto = TRUE]
    BY <1>3 DEF Apply
  <2> QED
    BY <1>3, <2>1 DEF Settings
<1>4. CASE opt = "E"
  <2>1. Apply(set, opt, arg) = [set EXCEPT !.crypto = FALSE]
    BY <1>4 DEF Apply
  <2> QED
    BY <1>4, <2>1 DEF Settings
<1>5. CASE opt = "n"
  <2>1. Apply(set, opt, arg) = [set EXCEPT !.clip = FALSE]
    BY <1>5 DEF Apply
  <2> QED
    BY <1>5, <2>1 DEF Settings
<1>6. CASE opt = "F"
  <2>1. Apply(set, opt, arg) = [set EXCEPT !.fatal = TRUE]
    BY <1>6 DEF Apply
  <2> QED
    BY <1>6, <2>1 DEF Settings
<1>7. CASE opt \notin {"W", "H", "e", "E", "n", "F"}
  <2>1. Apply(set, opt, arg) = set
    BY <1>7 DEF Apply
  <2> QED
    BY <1>7, <2>1 DEF Settings
<1> QED
  BY <1>1, <1>2, <1>3, <1>4, <1>5, <1>6, <1>7

(* The settings stay what the options read so far say when one more is read. *)
LEMMA SizeNext ==
  ASSUME NEW words, NEW D, NEW d, \A e \in D : Before(e, d),
         NEW o, NEW now, NEW was, SizeBy(words, D, o, now, was),
         NEW new, new = IF Letter(words, d) = o THEN UInt16(words[d[1] + 1].arg) ELSE now,
         Letter(words, d) = o => d[1] + 1 \in 1..Len(words)
  PROVE  SizeBy(words, D \cup {d}, o, new, was)
<1>1. CASE Letter(words, d) = o
  <2>1. LastOf(words, D \cup {d}, {o}, d)
    BY <1>1, OneMore
  <2> QED
    BY <1>1, <2>1 DEF SizeBy
<1>2. CASE Letter(words, d) # o
  <2>1. NoneOf(words, D \cup {d}, {o}) <=> NoneOf(words, D, {o})
    BY <1>2, OneMore
  <2>2. \A e \in D : LastOf(words, D, {o}, e) => LastOf(words, D \cup {d}, {o}, e)
    BY <1>2, OneMore
  <2> QED
    BY <1>2, <2>1, <2>2 DEF SizeBy
<1> QED
  BY <1>1, <1>2

(* When one more option is read and applied, the settings obey that one too. *)
LEMMA ObeyedNext ==
  ASSUME NEW words, NEW D, NEW d, \A e \in D : Before(e, d),
         NEW set \in Settings, NEW conf \in Settings, Obeyed(words, D, set, conf),
         NEW arg \in Int, Letter(words, d) \in Shorts => d[1] + 1 \in 1..Len(words) /\ arg = words[d[1] + 1].arg
  PROVE  Obeyed(words, D \cup {d}, Apply(set, Letter(words, d), arg), conf)
<1>1. PICK opt : opt = Letter(words, d)
  OBVIOUS
<1>2. PICK new : new = Apply(set, opt, arg)
  OBVIOUS
<1>3. /\ new \in Settings
      /\ new.width = IF opt = "W" THEN UInt16(arg) ELSE set.width
      /\ new.height = IF opt = "H" THEN UInt16(arg) ELSE set.height
      /\ new.crypto <=> opt = "e" \/ (opt # "E" /\ set.crypto)
      /\ new.clip <=> opt # "n" /\ set.clip
      /\ new.fatal <=> opt = "F" \/ set.fatal
  BY <1>1, <1>2, ApplyDoes
<1>4. SizeBy(words, D \cup {d}, "W", new.width, conf.width)
  <2>1. new.width = IF Letter(words, d) = "W" THEN UInt16(words[d[1] + 1].arg) ELSE set.width
    BY <1>1, <1>3 DEF Shorts
  <2>2. SizeBy(words, D, "W", set.width, conf.width)
    BY DEF Obeyed
  <2> QED
    BY <2>1, <2>2, SizeNext DEF Shorts
<1>5. SizeBy(words, D \cup {d}, "H", new.height, conf.height)
  <2>1. new.height = IF Letter(words, d) = "H" THEN UInt16(words[d[1] + 1].arg) ELSE set.height
    BY <1>1, <1>3 DEF Shorts
  <2>2. SizeBy(words, D, "H", set.height, conf.height)
    BY DEF Obeyed
  <2> QED
    BY <2>1, <2>2, SizeNext DEF Shorts
<1>6. \/ NoneOf(words, D \cup {d}, {"e", "E"}) /\ (new.crypto <=> conf.crypto)
      \/ \E e \in D \cup {d} : LastOf(words, D \cup {d}, {"e", "E"}, e) /\ (new.crypto <=> Letter(words, e) = "e")
  <2>1. CASE opt \in {"e", "E"}
    <3>1. LastOf(words, D \cup {d}, {"e", "E"}, d)
      BY <1>1, <2>1, OneMore
    <3>2. new.crypto <=> Letter(words, d) = "e"
      BY <1>1, <1>3, <2>1
    <3> QED
      BY <3>1, <3>2
  <2>2. CASE opt \notin {"e", "E"}
    <3>1. new.crypto <=> set.crypto
      BY <1>3, <2>2
    <3>2. NoneOf(words, D \cup {d}, {"e", "E"}) <=> NoneOf(words, D, {"e", "E"})
      BY <1>1, <2>2, OneMore
    <3>3. \A e \in D : LastOf(words, D, {"e", "E"}, e) => LastOf(words, D \cup {d}, {"e", "E"}, e)
      BY <1>1, <2>2, OneMore
    <3>4. \/ NoneOf(words, D, {"e", "E"}) /\ (set.crypto <=> conf.crypto)
          \/ \E e \in D : LastOf(words, D, {"e", "E"}, e) /\ (set.crypto <=> Letter(words, e) = "e")
      BY DEF Obeyed
    <3> QED
      BY <3>1, <3>2, <3>3, <3>4
  <2> QED
    BY <2>1, <2>2
<1>7. new.clip <=> NoneOf(words, D \cup {d}, {"n"})
  <2>1. set.clip <=> NoneOf(words, D, {"n"})
    BY DEF Obeyed
  <2>2. opt = "n" => ~NoneOf(words, D \cup {d}, {"n"})
    BY <1>1, OneMore
  <2>3. opt # "n" => (NoneOf(words, D \cup {d}, {"n"}) <=> NoneOf(words, D, {"n"}))
    BY <1>1, OneMore
  <2> QED
    BY <1>3, <2>1, <2>2, <2>3
<1>8. ~new.fatal <=> NoneOf(words, D \cup {d}, {"F"})
  <2>1. ~set.fatal <=> NoneOf(words, D, {"F"})
    BY DEF Obeyed
  <2>2. opt = "F" => ~NoneOf(words, D \cup {d}, {"F"})
    BY <1>1, OneMore
  <2>3. opt # "F" => (NoneOf(words, D \cup {d}, {"F"}) <=> NoneOf(words, D, {"F"}))
    BY <1>1, OneMore
  <2> QED
    BY <1>3, <2>1, <2>2, <2>3
<1> QED
  BY <1>1, <1>2, <1>4, <1>5, <1>6, <1>7, <1>8 DEF Obeyed

(* Before the first option the settings are what is configured. *)
LEMMA ObeyedFirst ==
  ASSUME NEW words, NEW set, set.clip = TRUE, set.fatal = FALSE
  PROVE  Obeyed(words, Done(words, 0, 0), set, set)
<1>1. Done(words, 0, 0) = {}
  BY DEF Done
<1>2. \A os : NoneOf(words, Done(words, 0, 0), os)
  BY <1>1 DEF NoneOf
<1> QED
  BY <1>2 DEF Obeyed, SizeBy

-----------------------------------------------------------------------------
(* When the parser is done it has read the words that mean options. *)
AllOptions(words) == {d \in OptionWords(words) \X Nat : d[2] \in 1..Len(words[d[1]].opts)}

(* When a word without options is reached, all options have been read: those*)
(* Given tells of.                                                          *)
LEMMA ReadAll ==
  ASSUME NEW words, Words(words), NEW i, At(words, i, 0), i < Len(words) => words[i + 1].opts = <<>>
  PROVE  Done(words, i, 0) = AllOptions(words)
<1>1. PICK n \in Nat : n = Len(words) /\ DOMAIN words = 1..n
  BY DEF Words
<1>2. i \in 0..n
  BY <1>1 DEF At
<1>3. OptionWords(words) = {j \in 1..i : ~IsArgument(words)[j]}
  <2>1. ASSUME NEW j \in 1..n, j \notin 1..i
        PROVE  ~\A m \in 1..j : words[m].opts # <<>> \/ IsArgument(words)[m]
    <3>1. i + 1 \in 1..j /\ i < n
      BY <1>2, <2>1
    <3> QED
      BY <1>1, <3>1 DEF At
  <2>2. ASSUME NEW j \in 1..i
        PROVE  j \in 1..n /\ \A m \in 1..j : words[m].opts # <<>> \/ IsArgument(words)[m]
    <3>1. \A m \in 1..j : m \in 1..i
      BY <1>2
    <3> QED
      BY <1>2, <3>1 DEF At
  <2> QED
    BY <1>1, <2>1, <2>2 DEF OptionWords
<1> QED
  BY <1>3 DEF Done, AllOptions

(* What Given and LastOpt tell of a command line is told by all its options. *)
LEMMA GivenIs ==
  ASSUME NEW words, Words(words), NEW os
  PROVE  /\ NoneOf(words, AllOptions(words), os) <=> Given(words, os) = {}
         /\ \A d \in AllOptions(words) :
              LastOf(words, AllOptions(words), os, d) =>
                Max(Given(words, os)) = d[1] /\ LastOpt(words, os) = Letter(words, d)
<1>1. PICK n \in Nat : n = Len(words) /\ DOMAIN words = 1..n
  BY DEF Words
<1>2. \A j \in 1..n : Len(words[j].opts) \in Nat /\ DOMAIN words[j].opts = 1..Len(words[j].opts)
  BY <1>1 DEF Words, Word
<1>3. OptionWords(words) \subseteq 1..n
  BY <1>1 DEF OptionWords
<1>4. \A j, q : <<j, q>> \in AllOptions(words) <=> j \in OptionWords(words) /\ q \in 1..Len(words[j].opts)
  <2>1. \A j \in OptionWords(words) : \A q \in 1..Len(words[j].opts) : q \in Nat
    BY <1>2, <1>3
  <2> QED
    BY <2>1 DEF AllOptions
<1>5. \A j : j \in Given(words, os) <=> \E q : <<j, q>> \in AllOptions(words) /\ words[j].opts[q] \in os
  <2>1. \A j : j \in Given(words, os) <=> j \in OptionWords(words) /\ \E q \in DOMAIN words[j].opts : words[j].opts[q] \in os
    BY DEF Given
  <2> QED
    BY <1>2, <1>3, <1>4, <2>1
<1>6. \A d \in AllOptions(words) : d = <<d[1], d[2]>>
  BY DEF AllOptions
<1>7. NoneOf(words, AllOptions(words), os) <=> Given(words, os) = {}
  BY <1>5, <1>6 DEF NoneOf, Letter
<1>8. ASSUME NEW d \in AllOptions(words), LastOf(words, AllOptions(words), os, d)
      PROVE  Max(Given(words, os)) = d[1] /\ LastOpt(words, os) = Letter(words, d)
  <2>1. PICK j, q : j = d[1] /\ q = d[2]
    OBVIOUS
  <2>2. d = <<j, q>> /\ j \in 1..n /\ q \in 1..Len(words[j].opts) /\ words[j].opts[q] \in os /\ j \in OptionWords(words)
    BY <1>3, <1>4, <1>6, <1>8, <2>1 DEF LastOf, Letter
  <2>3. ASSUME NEW a, NEW b, <<a, b>> \in AllOptions(words), words[a].opts[b] \in os
        PROVE  a < j \/ (a = j /\ b < q) \/ (a = j /\ b = q)
    BY <1>8, <2>2, <2>3 DEF LastOf, Letter, Before
  <2>4. Given(words, os) \subseteq 1..n
    BY <1>3 DEF Given
  <2>5. j \in Given(words, os)
    BY <1>4, <1>5, <2>2
  <2>6. \A a \in Given(words, os) : a <= j
    <3> SUFFICES ASSUME NEW a \in Given(words, os) PROVE a <= j
      OBVIOUS
    <3>1. PICK b : <<a, b>> \in AllOptions(words) /\ words[a].opts[b] \in os
      BY <1>5
    <3>2. a \in 1..n
      BY <2>4
    <3> QED
      BY <2>2, <2>3, <3>1, <3>2
  <2>7. Max(Given(words, os)) = j
    <3>1. PICK S : S = Given(words, os)
      OBVIOUS
    <3>2. S \in SUBSET Int /\ j \in S /\ \A a \in S : a <= j
      BY <2>4, <2>5, <2>6, <3>1
    <3> QED
      BY <3>1, <3>2, MaxIs
  <2>8. PICK w : w = words[j].opts
    OBVIOUS
  <2>9. PICK Q : Q = {p \in DOMAIN w : w[p] \in os}
    OBVIOUS
  <2>10. Len(w) \in Nat /\ DOMAIN w = 1..Len(w)
    BY <1>2, <2>2, <2>8
  <2>11. Q \in SUBSET Int /\ q \in Q
    BY <2>2, <2>8, <2>9, <2>10
  <2>12. ASSUME NEW p \in Q PROVE p <= q
    <3>1. <<j, p>> \in AllOptions(words) /\ words[j].opts[p] \in os
      BY <1>4, <2>2, <2>8, <2>9, <2>10
    <3> QED
      BY <2>2, <2>3, <2>11, <3>1
  <2>13. Max(Q) = q
    BY <2>11, <2>12, MaxIs
  <2>14. LastOpt(words, os) = w[q]
    BY <2>7, <2>8, <2>9, <2>13 DEF LastOpt
  <2> QED
    BY <2>1, <2>7, <2>8, <2>14 DEF Letter
<1> QED
  BY <1>7, <1>8

-----------------------------------------------------------------------------
(* The settings when all words have been read are those OptionsOverride     *)
(* tells of.                                                                *)
LEMMA SizeOverridden ==
  ASSUME NEW words, Words(words), NEW o, NEW now, NEW was, SizeBy(words, AllOptions(words), o, now, was)
  PROVE  now = IF Given(words, {o}) # {} THEN UInt16(LastArg(words, o)) ELSE was
<1>1. CASE NoneOf(words, AllOptions(words), {o}) /\ now = was
  BY <1>1, GivenIs
<1>2. ASSUME NEW d \in AllOptions(words), LastOf(words, AllOptions(words), {o}, d),
             d[1] + 1 \in 1..Len(words), now = UInt16(words[d[1] + 1].arg)
      PROVE  now = IF Given(words, {o}) # {} THEN UInt16(LastArg(words, o)) ELSE was
  <2>1. Max(Given(words, {o})) = d[1]
    BY <1>2, GivenIs
  <2>2. ~NoneOf(words, AllOptions(words), {o})
    BY <1>2 DEF NoneOf, LastOf
  <2>3. Given(words, {o}) # {}
    BY <2>2, GivenIs
  <2>4. DOMAIN words = 1..Len(words)
    BY DEF Words
  <2>5. LastArg(words, o) = words[d[1] + 1].arg
    BY <1>2, <2>1, <2>4 DEF LastArg
  <2> QED
    BY <1>2, <2>3, <2>5
<1> QED
  BY <1>1, <1>2 DEF SizeBy

Override(words, set, conf) ==
  /\ \A o \in Shorts :
       (IF o = "W" THEN set.width ELSE set.height) =
         IF Given(words, {o}) # {} THEN UInt16(LastArg(words, o))
         ELSE IF o = "W" THEN conf.width ELSE conf.height
  /\ set.crypto <=> IF Given(words, {"e", "E"}) # {}
                    THEN LastOpt(words, {"e", "E"}) = "e" ELSE conf.crypto
  /\ set.clip <=> (Given(words, {"n"}) = {})
  /\ set.fatal <=> (Given(words, {"F"}) # {})

(* So the settings are what OptionsOverride wants of them. *)
LEMMA Overridden ==
  ASSUME NEW words, Words(words), NEW set, NEW conf, Obeyed(words, AllOptions(words), set, conf)
  PROVE  Override(words, set, conf)
<1>1. ASSUME NEW o \in Shorts
      PROVE  (IF o = "W" THEN set.width ELSE set.height) =
               IF Given(words, {o}) # {} THEN UInt16(LastArg(words, o))
               ELSE IF o = "W" THEN conf.width ELSE conf.height
  <2>1. CASE o = "W"
    <3>1. SizeBy(words, AllOptions(words), "W", set.width, conf.width)
      BY DEF Obeyed
    <3>2. set.width = IF Given(words, {o}) # {} THEN UInt16(LastArg(words, o)) ELSE conf.width
      BY <2>1, <3>1, SizeOverridden
    <3> QED
      BY <2>1, <3>2
  <2>2. CASE o = "H"
    <3>1. SizeBy(words, AllOptions(words), "H", set.height, conf.height)
      BY DEF Obeyed
    <3>2. set.height = IF Given(words, {o}) # {} THEN UInt16(LastArg(words, o)) ELSE conf.height
      BY <2>2, <3>1, SizeOverridden
    <3> QED
      BY <2>2, <3>2
  <2> QED
    BY <2>1, <2>2 DEF Shorts
<1>2. set.crypto <=> IF Given(words, {"e", "E"}) # {}
                     THEN LastOpt(words, {"e", "E"}) = "e" ELSE conf.crypto
  <2>1. CASE NoneOf(words, AllOptions(words), {"e", "E"}) /\ (set.crypto <=> conf.crypto)
    <3>1. Given(words, {"e", "E"}) = {}
      BY <2>1, GivenIs
    <3> QED
      BY <2>1, <3>1
  <2>2. ASSUME NEW d \in AllOptions(words), LastOf(words, AllOptions(words), {"e", "E"}, d),
               set.crypto <=> Letter(words, d) = "e"
        PROVE  set.crypto <=> IF Given(words, {"e", "E"}) # {}
                              THEN LastOpt(words, {"e", "E"}) = "e" ELSE conf.crypto
    <3>1. LastOpt(words, {"e", "E"}) = Letter(words, d)
      BY <2>2, GivenIs
    <3>2. ~NoneOf(words, AllOptions(words), {"e", "E"})
      BY <2>2 DEF NoneOf, LastOf
    <3>3. Given(words, {"e", "E"}) # {}
      BY <3>2, GivenIs
    <3> QED
      BY <2>2, <3>1, <3>3
  <2> QED
    BY <2>1, <2>2 DEF Obeyed
<1>3. set.clip <=> Given(words, {"n"}) = {}
  BY GivenIs DEF Obeyed
<1>4. set.fatal <=> Given(words, {"F"}) # {}
  BY GivenIs DEF Obeyed
<1> QED
  BY <1>1, <1>2, <1>3, <1>4 DEF Override

-----------------------------------------------------------------------------
(* The command line of the program. *)
Set ==
  /\ Words(argv) /\ settings \in Settings /\ configured \in Settings
  /\ pc \in {"ini", "snippets", "options", "geometry", "running", "stopped"}

OptInv ==
  /\ pc \in {"ini", "snippets"} => optind = 0 /\ cpos = 0
  /\ pc = "options" => /\ At(argv, optind, cpos)
                       /\ Obeyed(argv, Done(argv, optind, cpos), settings, configured)
  /\ pc \in {"geometry", "running"} => Obeyed(argv, AllOptions(argv), settings, configured)

(* What main sets before it reads anything is typed. *)
LEMMA UnsetIs == Unset \in Settings
BY DEF Unset, Settings, Sizes

(* No option is read at the start. *)
LEMMA SetInit == Init => Set /\ OptInv
<1> SUFFICES ASSUME Init PROVE Set /\ OptInv
  OBVIOUS
<1>1. PICK in \in Inputs : argv = in.argv
  BY DEF Init
<1>2. Words(argv)
  BY <1>1, InputsAssumption, WordsAre
<1> QED
  BY <1>2, UnsetIs DEF Init, Begin, Set, OptInv

(* No option is read yet when the values of the configuration are there. *)
LEMMA DefaultsSet ==
  ASSUME Set, OptInv, ReadDefaults
  PROVE  Set' /\ OptInv'
<1>1. ASSUME NEW key, NEW n PROVE TryLong(key, n, 0) \in Int
  BY ConversionAssumption DEF TryLong, Ran
<1>2. ASSUME NEW key, NEW n PROVE UInt16(TryLong(key, n, 0)) \in Sizes
  BY <1>1, UInt16Is
<1>3. ASSUME NEW key, NEW n PROVE TryBool(key, n, FALSE) \in BOOLEAN
  <2>1. CASE ConfigRead(key, n) = NoFile
    BY <2>1 DEF TryBool
  <2>2. CASE ConfigRead(key, n) # NoFile
    <3>1. TryBool(key, n, FALSE) = (ConfigRead(key, n) \in IsTrue)
      BY <2>2 DEF TryBool
    <3>2. (ConfigRead(key, n) \in IsTrue) \in BOOLEAN
      OBVIOUS
    <3> QED
      BY <3>1, <3>2
  <2> QED
    BY <2>1, <2>2
<1>4. PICK c \in BOOLEAN : \E w \in Sizes : \E h \in Sizes :
        settings' = [Unset EXCEPT !.crypto = c, !.width = w, !.height = h]
  BY <1>2, <1>3 DEF ReadDefaults
<1>5. PICK w \in Sizes : \E h \in Sizes : settings' = [Unset EXCEPT !.crypto = c, !.width = w, !.height = h]
  BY <1>4
<1>6. PICK h \in Sizes : settings' = [Unset EXCEPT !.crypto = c, !.width = w, !.height = h]
  BY <1>5
<1>7. settings' \in Settings /\ settings'.clip = TRUE /\ settings'.fatal = FALSE
  BY <1>6, UnsetIs DEF Settings, Unset
<1>8. configured' = settings' /\ argv' = argv /\ pc' = "options" /\ optind' = 0 /\ cpos' = 0
  BY DEF ReadDefaults, files, parsing, OptInv
<1>9. At(argv, 0, 0)
  <2>1. Len(argv) \in Nat
    BY DEF Set, Words
  <2>2. 0 < Len(argv) => ~IsArgument(argv)[0 + 1]
    BY <2>1, ArgumentIs DEF Set
  <2> QED
    BY <2>1, <2>2 DEF At
<1>10. Obeyed(argv, Done(argv, 0, 0), settings', settings')
  BY <1>7, ObeyedFirst
<1> QED
  BY <1>7, <1>8, <1>9, <1>10 DEF Set, OptInv

(* Every option that is parsed is obeyed. *)
LEMMA OptionSet ==
  ASSUME Set, OptInv, ParseOption
  PROVE  Set' /\ OptInv'
<1>1. PICK got : got = GetOpt(argv, optind, cpos)
  OBVIOUS
<1>2. /\ pc = "options" /\ settings' = Apply(settings, got.opt, got.arg)
      /\ optind' = got.ind /\ cpos' = got.pos /\ argv' = argv /\ configured' = configured
      /\ pc' = (IF got.opt = Nothing THEN "geometry"
                ELSE IF got.opt \in {Invalid, "h"} THEN "stopped" ELSE pc)
  BY <1>1 DEF ParseOption, files
<1>3. Words(argv) /\ At(argv, optind, cpos) /\ Obeyed(argv, Done(argv, optind, cpos), settings, configured)
      /\ settings \in Settings /\ configured \in Settings
  BY <1>2 DEF Set, OptInv
<1>4. CASE got.opt = Invalid
  <2>1. settings' = settings /\ pc' = "stopped"
    BY <1>2, <1>4 DEF Apply, Invalid, Nothing
  <2> QED
    BY <1>2, <1>3, <2>1 DEF Set, OptInv
<1>5. CASE got.opt # Invalid
  <2>1. Ends(argv, optind, cpos, got) \/ Reads(argv, optind, cpos, got)
    BY <1>1, <1>3, <1>5, GetOptDoes
  <2>2. CASE Ends(argv, optind, cpos, got)
    <3>1. got.opt = Nothing /\ cpos = 0
      BY <2>2 DEF Ends
    <3>2. settings' = settings /\ pc' = "geometry"
      BY <1>2, <3>1 DEF Apply, Nothing
    <3>3. Done(argv, optind, 0) = AllOptions(argv)
      BY <1>3, <2>2, <3>1, ReadAll DEF Ends
    <3> QED
      BY <1>2, <1>3, <3>1, <3>2, <3>3 DEF Set, OptInv
  <2>3. CASE Reads(argv, optind, cpos, got)
    <3>1. PICK w, q : w = NextWord(optind, cpos) /\ q = NextLetter(cpos)
      OBVIOUS
    <3>2. Took(argv, w, q, got)
      BY <2>3, <3>1 DEF Reads
    <3>3. got.arg \in Int /\ got.opt = Letter(argv, <<w, q>>) /\ got.opt \in Opts
      BY <3>2 DEF Took, Letter
    <3>4. got.opt \in Shorts => w + 1 \in 1..Len(argv) /\ got.arg = argv[w + 1].arg
      <4>1. w \in 1..Len(argv) /\ Len(argv) \in Nat
        BY <1>3, <2>3, <3>1 DEF Reads, Words
      <4>2. got.opt \in Shorts => w < Len(argv) /\ got.arg = argv[w + 1].arg
        BY <3>2 DEF Took, WithArg
      <4> QED
        BY <4>1, <4>2
    <3>5. /\ Done(argv, got.ind, got.pos) = Done(argv, optind, cpos) \cup {<<w, q>>}
          /\ \A e \in Done(argv, optind, cpos) : Before(e, <<w, q>>)
      BY <1>3, <2>3, <3>1, DoneNext
    <3>6. settings' \in Settings
      BY <1>2, <1>3, <3>3, ApplyDoes
    <3>7. Obeyed(argv, Done(argv, optind, cpos) \cup {<<w, q>>}, settings', configured)
      <4>1. PICK d : d = <<w, q>>
        OBVIOUS
      <4>2. got.opt = Letter(argv, d) /\ d[1] = w /\ \A e \in Done(argv, optind, cpos) : Before(e, d)
        BY <3>3, <3>5, <4>1
      <4>3. Letter(argv, d) \in Shorts => d[1] + 1 \in 1..Len(argv) /\ got.arg = argv[d[1] + 1].arg
        BY <3>4, <4>2
      <4>4. Obeyed(argv, Done(argv, optind, cpos) \cup {d}, Apply(settings, Letter(argv, d), got.arg), configured)
        BY <1>3, <3>3, <4>2, <4>3, ObeyedNext
      <4> QED
        BY <1>2, <4>1, <4>2, <4>4
    <3>8. At(argv, got.ind, got.pos)
      BY <1>3, <2>3, AtNext
    <3>9. pc' \in {"options", "stopped"}
      BY <1>2, <3>3 DEF Opts, Nothing
    <3> QED
      BY <1>2, <1>3, <3>5, <3>6, <3>7, <3>8, <3>9 DEF Set, OptInv
  <2> QED
    BY <2>1, <2>2, <2>3
<1> QED
  BY <1>4, <1>5

(* The invariant is inductive. *)
LEMMA SetNext == Set /\ OptInv /\ [Next]_vars => Set' /\ OptInv'
<1> SUFFICES ASSUME Set, OptInv, [Next]_vars PROVE Set' /\ OptInv'
  OBVIOUS
<1>1. CASE ReadIni
  BY <1>1 DEF ReadIni, files, parsing, Set, OptInv
<1>2. CASE ReadSnippet
  BY <1>2 DEF ReadSnippet, files, parsing, Set, OptInv
<1>3. CASE ReadDefaults
  BY <1>3, DefaultsSet
<1>4. CASE ParseOption
  BY <1>4, OptionSet
<1>5. CASE Geometry
  <2>1. /\ settings' = [settings EXCEPT !.man = settings.width # 0]
        /\ pc = "geometry" /\ pc' \in {"running", "stopped"}
        /\ argv' = argv /\ configured' = configured /\ optind' = optind /\ cpos' = cpos
    BY <1>5 DEF Geometry, files, parsing
  <2>2. settings \in Settings
    BY DEF Set
  <2>3. /\ settings' \in Settings /\ settings'.width = settings.width /\ settings'.height = settings.height
        /\ (settings'.crypto <=> settings.crypto) /\ (settings'.clip <=> settings.clip)
        /\ (settings'.fatal <=> settings.fatal)
    BY <2>1, <2>2 DEF Settings
  <2>4. Obeyed(argv, AllOptions(argv), settings', configured)
    BY <2>1, <2>3 DEF OptInv, Obeyed
  <2> QED
    BY <2>1, <2>3, <2>4 DEF Set, OptInv
<1>6. CASE \E side \in Sides : ScreenActive(side)
  BY <1>6 DEF ScreenActive, files, parsing, Set, OptInv
<1>7. CASE Edit
  BY <1>7 DEF Edit, parsing, Set, OptInv
<1>8. CASE Restart
  BY <1>8, UnsetIs DEF Restart, files, Set, OptInv
<1>9. CASE UNCHANGED vars
  BY <1>9 DEF vars, files, parsing, Set, OptInv
<1> QED
  BY <1>1, <1>2, <1>3, <1>4, <1>5, <1>6, <1>7, <1>8, <1>9 DEF Next, Stopped

(* In every reachable state the settings obey what was read. *)
LEMMA SetAlways == Spec => [](Set /\ OptInv)
BY SetInit, SetNext, PTL DEF Spec

(* The program runs with what the last option says, in whichever form and   *)
(* word it is written, and else with what the files say.                    *)
THEOREM LastOptionWins == Spec => []OptionsOverride
<1>1. Set /\ OptInv => OptionsOverride
  <2> SUFFICES ASSUME Set, OptInv, pc = "running" PROVE OptionsOverride
    BY DEF OptionsOverride
  <2>1. Override(argv, settings, configured)
    BY Overridden DEF Set, OptInv
  <2>2. settings.crypto \in BOOLEAN /\ settings.clip \in BOOLEAN /\ settings.fatal \in BOOLEAN /\ configured.crypto \in BOOLEAN
    BY DEF Set, Settings
  <2> QED
    BY <2>1, <2>2 DEF Override, OptionsOverride
<1> QED
  BY <1>1, SetAlways, PTL

-----------------------------------------------------------------------------
(* What an ini in memory can be: the first section, and no other, is the    *)
(* one before all headers, and every property lies in a section.            *)
Texts == Values \cup {Rest}
Property == [sec : Nat, name : Names, val : Texts, freed : BOOLEAN]
IniType == [sections : Seq(Names), props : Seq(Property), twice : BOOLEAN]

Placed(x) ==
  /\ Len(x.sections) \in Nat /\ Len(x.sections) > 0 /\ DOMAIN x.sections = 1..Len(x.sections)
  /\ \A a \in 1..Len(x.sections) : x.sections[a] \in Names /\ (x.sections[a] = Global <=> a = 1)
  /\ Len(x.props) \in Nat /\ DOMAIN x.props = 1..Len(x.props)
  /\ \A p \in 1..Len(x.props) : x.props[p] \in Property /\ x.props[p].sec \in 1..Len(x.sections)
IniFiles == {x \in IniType : Placed(x)}

(* A new ini is one. *)
LEMMA CreateIs == Create \in IniFiles
<1>1. Create.sections = <<Global>> /\ Create.props = <<>> /\ Create \in IniType
  BY NamesAssumption DEF Create, IniType
<1>2. Len(<<Global>>) = 1 /\ <<Global>>[1] = Global /\ DOMAIN <<Global>> = 1..1
  OBVIOUS
<1>3. Placed(Create)
  BY <1>1, <1>2, NamesAssumption DEF Placed
<1> QED
  BY <1>1, <1>3 DEF IniFiles

(* r is x with one more section, with one more property, or with one value  *)
(* changed.                                                                 *)
OpensSection(r, x, name) ==
  /\ r \in IniFiles /\ r.props = x.props /\ Len(r.sections) = Len(x.sections) + 1
  /\ \A a \in 1..Len(x.sections) : r.sections[a] = x.sections[a]
  /\ r.sections[Len(x.sections) + 1] = name

Adds(r, x, prop) ==
  /\ r \in IniFiles /\ r.sections = x.sections /\ Len(r.props) = Len(x.props) + 1
  /\ \A p \in 1..Len(x.props) : r.props[p] = x.props[p]
  /\ r.props[Len(x.props) + 1] = prop

Sets(r, x, p, val) ==
  /\ r \in IniFiles /\ r.sections = x.sections /\ Len(r.props) = Len(x.props)
  /\ \A q \in 1..Len(x.props) : q # p => r.props[q] = x.props[q]
  /\ r.props[p].sec = x.props[p].sec /\ r.props[p].name = x.props[p].name /\ r.props[p].val = val
  /\ r.props[p].freed <=> val \notin Long /\ (x.props[p].freed \/ x.props[p].val \in Long)

(* The three ways in which an ini changes keep it one. *)
LEMMA SectionAddIs ==
  ASSUME NEW x \in IniFiles, NEW name \in Names \ {Global}
  PROVE  OpensSection(SectionAdd(x, name), x, name)
<1>1. PICK s \in Seq(Names) : s = x.sections
  BY DEF IniFiles, IniType
<1>2. Len(s) \in Nat /\ DOMAIN s = 1..Len(s) /\ Len(s) > 0
  BY <1>1 DEF IniFiles, Placed
<1>3. PICK t \in Seq(Names) : t = Append(s, name)
  BY <1>1, AppendProperties
<1>4. /\ Len(t) = Len(s) + 1 /\ DOMAIN t = 1..Len(t) /\ t[Len(s) + 1] = name
      /\ \A a \in 1..Len(s) : t[a] = s[a]
  BY <1>1, <1>3
<1>5. PICK r : r = SectionAdd(x, name)
  OBVIOUS
<1>6. r \in IniType /\ r.sections = t /\ r.props = x.props
  BY <1>1, <1>3, <1>5 DEF SectionAdd, IniFiles, IniType
<1>7. Placed(r)
  <2>1. \A a \in 1..Len(t) : a \in 1..Len(s) \/ (a = Len(s) + 1 /\ a # 1)
    BY <1>2, <1>4
  <2>2. \A a \in 1..Len(s) : a \in 1..Len(t)
    BY <1>2, <1>4
  <2>3. \A a \in 1..Len(t) : t[a] \in Names /\ (t[a] = Global <=> a = 1)
    BY <1>1, <1>4, <2>1 DEF IniFiles, Placed
  <2>4. Placed(x)
    BY DEF IniFiles
  <2>5. \A p \in 1..Len(x.props) : x.props[p] \in Property /\ x.props[p].sec \in 1..Len(t)
    BY <1>1, <2>2, <2>4 DEF Placed
  <2> QED
    BY <1>2, <1>4, <1>6, <2>3, <2>4, <2>5 DEF Placed
<1> QED
  BY <1>1, <1>4, <1>5, <1>6, <1>7 DEF OpensSection, IniFiles

(* ini_property_add adds the one property. *)
LEMMA PropertyAddIs ==
  ASSUME NEW x \in IniFiles, NEW s \in 1..Len(x.sections), NEW name \in Names, NEW val \in Texts
  PROVE  Adds(PropertyAdd(x, s, name, val), x, [sec |-> s, name |-> name, val |-> val, freed |-> FALSE])
<1>1. PICK prop \in Property : prop = [sec |-> s, name |-> name, val |-> val, freed |-> FALSE]
  <2>1. s \in Nat
    BY DEF IniFiles, Placed
  <2> QED
    BY <2>1 DEF Property
<1>2. PICK u \in Seq(Property) : u = x.props
  BY DEF IniFiles, IniType
<1>3. Len(u) \in Nat /\ DOMAIN u = 1..Len(u)
  BY <1>2 DEF IniFiles, Placed
<1>4. PICK t \in Seq(Property) : t = Append(u, prop)
  BY AppendProperties
<1>5. /\ Len(t) = Len(u) + 1 /\ DOMAIN t = 1..Len(t) /\ t[Len(u) + 1] = prop
      /\ \A p \in 1..Len(u) : t[p] = u[p]
  BY <1>4
<1>6. PICK r : r = PropertyAdd(x, s, name, val)
  OBVIOUS
<1>7. r \in IniType /\ r.props = t /\ r.sections = x.sections
  BY <1>1, <1>2, <1>4, <1>6 DEF PropertyAdd, IniFiles, IniType
<1>8. Placed(r)
  <2>1. \A p \in 1..Len(t) : p \in 1..Len(u) \/ p = Len(u) + 1
    BY <1>3, <1>5
  <2>2. Placed(x)
    BY DEF IniFiles
  <2>3. prop.sec = s
    BY <1>1
  <2>4. \A p \in 1..Len(t) : t[p] \in Property /\ t[p].sec \in 1..Len(x.sections)
    BY <1>2, <1>5, <2>1, <2>2, <2>3 DEF Placed
  <2> QED
    BY <1>3, <1>5, <1>7, <2>2, <2>4 DEF Placed
<1> QED
  BY <1>1, <1>2, <1>5, <1>6, <1>7, <1>8 DEF Adds, IniFiles

(* ini_property_value_set changes the one value. *)
LEMMA PropertyValueSetIs ==
  ASSUME NEW x \in IniFiles, NEW p \in 1..Len(x.props), NEW val \in Texts
  PROVE  Sets(PropertyValueSet(x, p, val), x, p, val)
<1>1. PICK u \in Seq(Property) : u = x.props
  BY DEF IniFiles, IniType
<1>2. Len(u) \in Nat /\ DOMAIN u = 1..Len(u) /\ p \in 1..Len(u)
  BY <1>1 DEF IniFiles, Placed
<1>3. PICK old \in Property : old = u[p]
  BY <1>1, <1>2
<1>4. PICK f \in BOOLEAN : f = (val \notin Long /\ (old.freed \/ old.val \in Long))
  OBVIOUS
<1>5. PICK prop \in Property : prop = [old EXCEPT !.val = val, !.freed = f]
  BY DEF Property
<1>6. prop.sec = old.sec /\ prop.name = old.name /\ prop.val = val /\ prop.freed = f
  BY <1>5 DEF Property
<1>7. PICK t \in Seq(Property) : t = [u EXCEPT ![p] = prop]
  BY <1>2, ExceptSeq
<1>8. Len(t) = Len(u) /\ DOMAIN t = 1..Len(t) /\ t[p] = prop /\ \A q \in 1..Len(u) : q # p => t[q] = u[q]
  BY <1>1, <1>2, <1>7
<1>9. PICK r : r = PropertyValueSet(x, p, val)
  OBVIOUS
<1>10. r \in IniType /\ r.props = t /\ r.sections = x.sections
  <2>1. PICK tw \in BOOLEAN : tw = (x.twice \/ old.freed)
    OBVIOUS
  <2>2. t = [[u EXCEPT ![p].val = val] EXCEPT ![p].freed = f]
    <3>1. [u EXCEPT ![p].val = val] = [u EXCEPT ![p] = [old EXCEPT !.val = val]]
      BY <1>2, <1>3
    <3>2. [u EXCEPT ![p].val = val][p] = [old EXCEPT !.val = val]
      BY <1>2, <3>1
    <3> QED
      BY <1>2, <1>5, <1>7, <3>1, <3>2
  <2>3. r = [x EXCEPT !.props = t, !.twice = tw]
    BY <1>1, <1>3, <1>4, <1>9, <2>1, <2>2 DEF PropertyValueSet, IniFiles, IniType
  <2> QED
    BY <2>3 DEF IniFiles, IniType
<1>11. Placed(r)
  <2>1. Placed(x)
    BY DEF IniFiles
  <2>2. \A q \in 1..Len(t) : t[q] \in Property /\ t[q].sec \in 1..Len(x.sections)
    BY <1>1, <1>2, <1>3, <1>6, <1>8, <2>1 DEF Placed
  <2> QED
    BY <1>2, <1>8, <1>10, <2>1, <2>2 DEF Placed
<1> QED
  BY <1>1, <1>3, <1>4, <1>6, <1>8, <1>9, <1>10, <1>11 DEF Sets, IniFiles

-----------------------------------------------------------------------------
(* The lookups. *)
LEMMA FirstIs ==
  ASSUME NEW n \in Nat, NEW S \in SUBSET (1..n)
  PROVE  \/ S = {} /\ First(S) = NotFound
         \/ First(S) \in S /\ \A y \in S : First(S) <= y
<1> SUFFICES ASSUME S # {} PROVE First(S) \in S /\ \A y \in S : First(S) <= y
  BY DEF First
<1>1. PICK m \in S : \A y \in S : m <= y
  <2> DEFINE R == OpToRel(<, Nat)
  <2>1. \A x, y \in Nat : x < y => <<x, y>> \in R
    BY DEF OpToRel
  <2>2. IsWellFoundedOn(R, Nat)
    BY NatLessThanWellFounded
  <2> HIDE DEF R
  <2>3. S \subseteq Nat
    OBVIOUS
  <2>4. PICK m \in S : \A y \in S : ~(<<y, m>> \in R)
    BY <2>2, <2>3, WFMin
  <2>5. ASSUME NEW y \in S PROVE m <= y
    <3>1. ~(y < m) /\ y \in Nat /\ m \in Nat
      BY <2>1, <2>3, <2>4
    <3> QED
      BY <3>1
  <2> QED
    BY <2>5
<1>2. S \in SUBSET Int
  OBVIOUS
<1>3. Min(S) = m
  BY <1>1, <1>2, MinIs
<1> QED
  BY <1>1, <1>3 DEF First

FoundProperty(x, at, name, p) ==
  p \in 1..Len(x.props) /\ x.props[p].sec = at /\ <<name, x.props[p].name>> \in Prefix
NoProperty(x, at, name) == \A p \in 1..Len(x.props) : ~FoundProperty(x, at, name, p)
FoundSection(x, name, a) ==
  /\ a \in 1..Len(x.sections) /\ <<name, x.sections[a]>> \in Prefix
  /\ name = Global => a = 1
NoSection(x, name) == \A a \in 1..Len(x.sections) : <<name, x.sections[a]>> \notin Prefix

(* What is found is there, and what is not found is not. *)
LEMMA FindPropertyIs ==
  ASSUME NEW x \in IniFiles, NEW at, NEW name, NEW p, p = FindProperty(x, at, name)
  PROVE  \/ p = NotFound /\ NoProperty(x, at, name)
         \/ p # NotFound /\ FoundProperty(x, at, name, p)
<1>1. Len(x.props) \in Nat /\ DOMAIN x.props = 1..Len(x.props)
  BY DEF IniFiles, Placed
<1>2. PICK S \in SUBSET (1..Len(x.props)) :
        S = {q \in 1..Len(x.props) : x.props[q].sec = at /\ <<name, x.props[q].name>> \in Prefix}
  OBVIOUS
<1>3. p = First(S)
  BY <1>1, <1>2 DEF FindProperty
<1>4. \/ S = {} /\ p = NotFound
      \/ p \in S
  BY <1>1, <1>3, FirstIs
<1>5. CASE S = {} /\ p = NotFound
  BY <1>2, <1>5 DEF FoundProperty, NoProperty
<1>6. CASE p \in S
  BY <1>1, <1>2, <1>6 DEF FoundProperty, NotFound
<1> QED
  BY <1>4, <1>5, <1>6

(* The section that is found is one that the name looked for begins, and if *)
(* none is there none is found.                                             *)
LEMMA FindSectionIs ==
  ASSUME NEW x \in IniFiles, NEW name \in Names, NEW a, a = FindSection(x, name)
  PROVE  \/ a = NotFound /\ NoSection(x, name) /\ name # Global
         \/ a # NotFound /\ FoundSection(x, name, a)
<1>1. /\ Len(x.sections) \in Nat /\ DOMAIN x.sections = 1..Len(x.sections) /\ 1 \in 1..Len(x.sections)
      /\ x.sections[1] \in Names
  BY DEF IniFiles, Placed
<1>2. PICK S \in SUBSET (1..Len(x.sections)) :
        S = {s \in 1..Len(x.sections) : <<name, x.sections[s]>> \in Prefix}
  OBVIOUS
<1>3. a = First(S)
  BY <1>1, <1>2 DEF FindSection
<1>4. \/ S = {} /\ First(S) = NotFound
      \/ First(S) \in S /\ \A y \in S : First(S) <= y
  BY <1>1, FirstIs
<1>5. name = Global => 1 \in S
  BY <1>1, <1>2, NamesAssumption
<1>6. CASE S = {} /\ a = NotFound
  BY <1>1, <1>2, <1>5, <1>6 DEF NoSection
<1>7. CASE a \in S /\ \A y \in S : a <= y
  <2>1. a \in 1..Len(x.sections) /\ <<name, x.sections[a]>> \in Prefix
    BY <1>2, <1>7
  <2>2. name = Global => a = 1
    BY <1>1, <1>5, <1>7, <2>1
  <2> QED
    BY <2>1, <2>2 DEF FoundSection, NotFound
<1> QED
  BY <1>3, <1>4, <1>6, <1>7

-----------------------------------------------------------------------------
(* The steps of Load, CatSection and Cat, one after the other. *)
Stepwise(n, b, G, f) == f[0] = b /\ \A i \in 1..n : f[i] = G[<<f[i - 1], i>>]

(* Steps may be taken one after the other, as often as there are any to     *)
(* take.                                                                    *)
LEMMA Steps ==
  ASSUME NEW D, NEW n \in Nat, NEW b \in D, NEW G \in [D \X (1..n) -> D]
  PROVE  \E f \in [0..n -> D] : Stepwise(n, b, G, f)
<1>1. PICK f \in [0..n -> D] : Rec(n, b, G, f)
  BY Recursion
<1>2. f = [i \in 0..n |-> IF i = 0 THEN b ELSE G[<<f[i - 1], i>>]]
  BY <1>1 DEF Rec
<1>3. f[0] = b
  BY <1>2
<1>4. ASSUME NEW i \in 1..n PROVE f[i] = G[<<f[i - 1], i>>]
  <2>1. i \in 0..n /\ i # 0
    OBVIOUS
  <2> QED
    BY <1>2, <2>1
<1> QED
  BY <1>3, <1>4 DEF Stepwise

Line(line) ==
  /\ line.header \in BOOLEAN /\ line.name \in Names \ {Global}
  /\ ~line.header => line.val \in Values /\ ValueOf(line.val) \in Texts

FileIs(lines) == Len(lines) \in Nat /\ DOMAIN lines = 1..Len(lines) /\ \A i \in 1..Len(lines) : Line(lines[i])

(* A file's lines, with a name each. *)
LEMMA LinesAre == ASSUME NEW lines \in Seq(FileLines) PROVE FileIs(lines)
<1>1. Len(lines) \in Nat /\ DOMAIN lines = 1..Len(lines)
  OBVIOUS
<1>2. ASSUME NEW i \in 1..Len(lines) PROVE Line(lines[i])
  <2>1. lines[i] \in FileLines
    OBVIOUS
  <2>2. CASE \E n \in Names \ {Global} : lines[i] = Header(n)
    BY <2>2 DEF Header, Line
  <2>3. CASE \E n \in Names \ {Global} : \E v \in Values : lines[i] = Entry(n, v)
    BY <2>3 DEF Entry, Line, ValueOf, Texts
  <2> QED
    BY <2>1, <2>2, <2>3 DEF FileLines
<1> QED
  BY <1>1, <1>2 DEF FileIs

(* What has been loaded, and where the next property goes: to the section   *)
(* opened last.                                                             *)
Loadings == {y \in [ini : IniFiles, at : Nat] : y.at = Len(y.ini.sections)}

LoadsLine(z, y, line) ==
  /\ z \in Loadings
  /\ line.header => OpensSection(z.ini, y.ini, line.name)
  /\ ~line.header => Adds(z.ini, y.ini, [sec |-> y.at, name |-> line.name, val |-> ValueOf(line.val), freed |-> FALSE])

(* A line opens a section or adds a property to the one opened last. *)
LEMMA LoadLineIs ==
  ASSUME NEW y \in Loadings, NEW line, Line(line)
  PROVE  LoadsLine(LoadLine(y, line), y, line)
<1>1. y.ini \in IniFiles /\ y.at = Len(y.ini.sections) /\ y.at \in Nat
  BY DEF Loadings
<1>2. CASE line.header
  <2>1. OpensSection(SectionAdd(y.ini, line.name), y.ini, line.name)
    BY <1>1, SectionAddIs DEF Line
  <2>2. PICK x : x = SectionAdd(y.ini, line.name)
    OBVIOUS
  <2>3. LoadLine(y, line) = [ini |-> x, at |-> Len(x.sections)]
    BY <1>2, <2>1, <2>2 DEF LoadLine, OpensSection
  <2>4. x \in IniFiles /\ Len(x.sections) \in Nat
    BY <1>1, <2>1, <2>2 DEF OpensSection
  <2> QED
    BY <1>2, <2>1, <2>2, <2>3, <2>4 DEF LoadsLine, Loadings
<1>3. CASE ~line.header
  <2>1. y.at \in 1..Len(y.ini.sections)
    BY <1>1 DEF IniFiles, Placed
  <2>2. PICK v \in Texts : v = ValueOf(line.val)
    BY <1>3 DEF Line
  <2>3. PICK x : x = PropertyAdd(y.ini, y.at, line.name, v)
    OBVIOUS
  <2>4. Adds(x, y.ini, [sec |-> y.at, name |-> line.name, val |-> v, freed |-> FALSE])
    BY <1>1, <2>1, <2>3, PropertyAddIs DEF Line
  <2>5. LoadLine(y, line) = [ini |-> x, at |-> y.at]
    BY <1>3, <2>2, <2>3 DEF LoadLine, Loadings
  <2>6. x \in IniFiles /\ y.at = Len(x.sections)
    BY <1>1, <2>4 DEF Adds
  <2> QED
    BY <1>1, <1>3, <2>2, <2>4, <2>5, <2>6 DEF LoadsLine, Loadings
<1> QED
  BY <1>2, <1>3 DEF Line

Begun == [ini |-> Create, at |-> 1]

(* Load is such a sequence of steps, and its function the one that CHOOSE   *)
(* takes.                                                                   *)
LEMMA LoadIs ==
  ASSUME NEW lines, FileIs(lines)
  PROVE  \E g : /\ g[0] = Begun /\ Begun \in Loadings
                /\ \A i \in 1..Len(lines) : g[i] = LoadLine(g[i - 1], lines[i])
                /\ Load(lines) = g[Len(lines)].ini
<1> DEFINE n == Len(lines)
           G == [x \in Loadings \X (1..n) |-> LoadLine(x[1], lines[x[2]])]
<1>1. n \in Nat
  BY DEF FileIs
<1>2. ASSUME NEW y \in Loadings, NEW i \in 1..n PROVE LoadLine(y, lines[i]) \in Loadings
  BY LoadLineIs DEF LoadsLine, FileIs
<1>3. G \in [Loadings \X (1..n) -> Loadings]
  BY <1>2
<1>4. Begun \in Loadings
  <2>1. Len(Create.sections) = 1
    BY DEF Create
  <2> QED
    BY <2>1, CreateIs DEF Loadings, Begun
<1>5. PICK f \in [0..n -> Loadings] : Stepwise(n, Begun, G, f)
  <2> HIDE DEF G
  <2> QED
    BY <1>1, <1>3, <1>4, Steps
<1> DEFINE F(h) == [i \in 0..n |-> IF i = 0 THEN Begun ELSE LoadLine(h[i - 1], lines[i])]
<1>6. ASSUME NEW i \in 0..n PROVE f[i] = F(f)[i]
  <2>1. CASE i = 0
    BY <1>5, <2>1 DEF Stepwise
  <2>2. CASE i # 0
    <3>1. i \in 1..n /\ i - 1 \in 0..n
      BY <2>2
    <3>2. f[i] = LoadLine(f[i - 1], lines[i])
      BY <1>5, <3>1 DEF Stepwise
    <3> QED
      BY <2>2, <3>2
  <2> QED
    BY <2>1, <2>2
<1>7. f = F(f)
  BY <1>5, <1>6
<1>8. PICK g : g = CHOOSE h : h = F(h)
  OBVIOUS
<1>9. Load(lines) = g[n].ini
  BY <1>8 DEF Load, Begun
<1>10. g = F(g)
  BY <1>7, <1>8
<1>11. g[0] = F(g)[0]
  BY <1>10, Zenon
<1>12. g[0] = Begun
  BY <1>1, <1>11
<1>13. ASSUME NEW i \in 1..n PROVE g[i] = LoadLine(g[i - 1], lines[i])
  <2>1. g[i] = F(g)[i]
    BY <1>10, Zenon
  <2>2. i \in 0..n /\ i # 0
    BY <1>1
  <2>3. F(g)[i] = LoadLine(g[i - 1], lines[i])
    BY <2>2
  <2> HIDE DEF F
  <2> QED
    BY <2>1, <2>3
<1> QED
  BY <1>4, <1>9, <1>12, <1>13

(* r is dst after the property was added to the section at, or has become   *)
(* the value of one that is there.                                          *)
CatsProperty(r, dst, at, prop) ==
  \/ /\ NoProperty(dst, at, prop.name)
     /\ Adds(r, dst, [sec |-> at, name |-> prop.name, val |-> prop.val, freed |-> FALSE])
  \/ \E p \in 1..Len(dst.props) : FoundProperty(dst, at, prop.name, p) /\ Sets(r, dst, p, prop.val)

(* CatProperty adds a property or sets the one that is found. *)
LEMMA CatPropertyIs ==
  ASSUME NEW dst \in IniFiles, NEW at \in 1..Len(dst.sections), NEW prop \in Property
  PROVE  CatsProperty(CatProperty(dst, at, prop), dst, at, prop)
<1>1. PICK p : p = FindProperty(dst, at, prop.name)
  OBVIOUS
<1>2. prop.name \in Names /\ prop.val \in Texts
  BY DEF Property
<1>3. CASE p = NotFound
  <2>1. NoProperty(dst, at, prop.name)
    BY <1>1, <1>3, FindPropertyIs
  <2>2. CatProperty(dst, at, prop) = PropertyAdd(dst, at, prop.name, prop.val)
    BY <1>1, <1>3 DEF CatProperty
  <2> QED
    BY <1>2, <2>1, <2>2, PropertyAddIs DEF CatsProperty
<1>4. CASE p # NotFound
  <2>1. FoundProperty(dst, at, prop.name, p)
    BY <1>1, <1>4, FindPropertyIs
  <2>2. p \in 1..Len(dst.props)
    BY <2>1 DEF FoundProperty
  <2>3. CatProperty(dst, at, prop) = PropertyValueSet(dst, p, prop.val)
    BY <1>1, <1>4 DEF CatProperty
  <2>4. Sets(PropertyValueSet(dst, p, prop.val), dst, p, prop.val)
    BY <1>2, <2>2, PropertyValueSetIs
  <2> QED
    BY <2>1, <2>2, <2>3, <2>4 DEF CatsProperty
<1> QED
  BY <1>3, <1>4

(* Merging a property leaves an ini with the same sections. *)
LEMMA CatPropertyType ==
  ASSUME NEW dst \in IniFiles, NEW at \in 1..Len(dst.sections), NEW prop \in Property, NEW r, CatsProperty(r, dst, at, prop)
  PROVE  r \in IniFiles /\ r.sections = dst.sections
BY DEF CatsProperty, Adds, Sets

(* Where the properties of a section go *)
CatsInto(dst, name, into, at) ==
  /\ into \in IniFiles /\ at \in 1..Len(into.sections)
  /\ \/ NoSection(dst, name) /\ name # Global /\ OpensSection(into, dst, name) /\ at = Len(into.sections)
     \/ FoundSection(dst, name, at) /\ into = dst

(* c is what the steps of CatSection lead to. *)
CatsSection(r, dst, src, s) ==
  \E into, at, c :
    /\ CatsInto(dst, src.sections[s], into, at)
    /\ c[0] = into
    /\ \A p \in 0..Len(src.props) : c[p] \in IniFiles /\ c[p].sections = into.sections
    /\ \A p \in 1..Len(src.props) :
         IF src.props[p].sec = s THEN CatsProperty(c[p], c[p - 1], at, src.props[p]) ELSE c[p] = c[p - 1]
    /\ r = c[Len(src.props)]

(* So does CatSection, property by property, with its function the one that *)
(* CHOOSE takes.                                                            *)
LEMMA CatSectionIs ==
  ASSUME NEW dst \in IniFiles, NEW src \in IniFiles, NEW s \in 1..Len(src.sections)
  PROVE  CatsSection(CatSection(dst, src, s), dst, src, s) /\ CatSection(dst, src, s) \in IniFiles
<1> DEFINE n == Len(src.props)
<1>1. PICK name \in Names : name = src.sections[s]
  BY DEF IniFiles, Placed
<1>2. PICK found : found = FindSection(dst, name)
  OBVIOUS
<1>3. PICK into : into = IF found = NotFound THEN SectionAdd(dst, name) ELSE dst
  OBVIOUS
<1>4. PICK at : at = IF found = NotFound THEN Len(into.sections) ELSE found
  OBVIOUS
<1>5. CatsInto(dst, name, into, at)
  <2>1. CASE found = NotFound
    <3>1. NoSection(dst, name) /\ name # Global
      BY <1>2, <2>1, FindSectionIs
    <3>2. OpensSection(into, dst, name)
      BY <1>3, <2>1, <3>1, SectionAddIs
    <3>3. into \in IniFiles /\ at = Len(into.sections)
      BY <1>4, <2>1, <3>2 DEF OpensSection
    <3>4. at \in 1..Len(into.sections)
      BY <3>3 DEF IniFiles, Placed
    <3> QED
      BY <3>1, <3>2, <3>3, <3>4 DEF CatsInto
  <2>2. CASE found # NotFound
    <3>1. FoundSection(dst, name, found)
      BY <1>2, <2>2, FindSectionIs
    <3>2. into = dst /\ at = found
      BY <1>3, <1>4, <2>2
    <3> QED
      BY <3>1, <3>2 DEF CatsInto, FoundSection
  <2> QED
    BY <2>1, <2>2
<1> DEFINE D == {x \in IniFiles : x.sections = into.sections}
           step(x, p) == IF src.props[p].sec = s THEN CatProperty(x, at, src.props[p]) ELSE x
           G == [y \in D \X (1..n) |-> step(y[1], y[2])]
<1>6. n \in Nat
  BY DEF IniFiles, Placed
<1>7. ASSUME NEW x \in D, NEW p \in 1..n PROVE step(x, p) \in D
  <2>1. src.props[p] \in Property
    BY DEF IniFiles, Placed
  <2>2. at \in 1..Len(x.sections)
    BY <1>5 DEF CatsInto
  <2>3. CatsProperty(CatProperty(x, at, src.props[p]), x, at, src.props[p])
    BY <2>1, <2>2, CatPropertyIs
  <2>4. CatProperty(x, at, src.props[p]) \in D
    BY <2>1, <2>2, <2>3, CatPropertyType
  <2> HIDE DEF D
  <2> QED
    BY <2>4
<1>8. into \in D
  BY <1>5 DEF CatsInto
<1>9. G \in [D \X (1..n) -> D]
  <2> HIDE DEF D, step
  <2> QED
    BY <1>7
<1>10. PICK f \in [0..n -> D] : Stepwise(n, into, G, f)
  <2> HIDE DEF G, D
  <2> QED
    BY <1>6, <1>8, <1>9, Steps
<1> DEFINE F(h) == [p \in 0..n |-> IF p = 0 THEN into
                                  ELSE IF src.props[p].sec = s THEN CatProperty(h[p - 1], at, src.props[p])
                                  ELSE h[p - 1]]
<1>11. ASSUME NEW p \in 0..n PROVE f[p] = F(f)[p]
  <2>1. CASE p = 0
    BY <1>10, <2>1 DEF Stepwise
  <2>2. CASE p # 0
    <3>1. p \in 1..n /\ p - 1 \in 0..n
      BY <2>2
    <3>2. f[p] = step(f[p - 1], p)
      <4> HIDE DEF step, D
      <4>1. f[p - 1] \in D
        BY <3>1
      <4> QED
        BY <1>10, <3>1, <4>1 DEF Stepwise
    <3> QED
      BY <2>2, <3>2
  <2> QED
    BY <2>1, <2>2
<1>12. f = F(f)
  <2> HIDE DEF D, G
  <2> QED
    BY <1>10, <1>11
<1>13. PICK g : g = CHOOSE h : h = F(h)
  OBVIOUS
<1>14. CatSection(dst, src, s) = g[n]
  BY <1>1, <1>2, <1>3, <1>4, <1>13 DEF CatSection
<1>15. g = F(g)
  BY <1>12, <1>13
<1>16. g[0] = F(g)[0]
  BY <1>15, Zenon
<1>17. g[0] = into
  BY <1>6, <1>16
<1>18. ASSUME NEW p \in 1..n
       PROVE  g[p] = IF src.props[p].sec = s THEN CatProperty(g[p - 1], at, src.props[p]) ELSE g[p - 1]
  <2>1. g[p] = F(g)[p]
    BY <1>15, Zenon
  <2>2. p \in 0..n /\ p # 0
    BY <1>6
  <2>3. F(g)[p] = IF src.props[p].sec = s THEN CatProperty(g[p - 1], at, src.props[p]) ELSE g[p - 1]
    BY <2>2
  <2> HIDE DEF F
  <2> QED
    BY <2>1, <2>3
<1>19. \A p \in 0..n : g[p] \in D
  <2> DEFINE S == {p \in Nat : p <= n => g[p] \in D}
  <2>1. 0 \in S
    BY <1>8, <1>17
  <2>2. ASSUME NEW p \in Nat, p \in S PROVE p + 1 \in S
    <3> SUFFICES ASSUME p + 1 <= n PROVE g[p + 1] \in D
      OBVIOUS
    <3>1. PICK q \in 1..n : q = p + 1 /\ q - 1 = p
      BY <1>6
    <3>2. g[p] \in D
      BY <1>6, <2>2
    <3>3. g[q] = step(g[p], q)
      BY <1>18, <3>1
    <3>4. step(g[p], q) \in D
      BY <1>7, <3>2
    <3> HIDE DEF D, step
    <3> QED
      BY <3>1, <3>3, <3>4
  <2> HIDE DEF S, D
  <2>3. \A p \in Nat : p \in S
    BY <2>1, <2>2, Induction
  <2> QED
    BY <1>6, <2>3 DEF S
<1>20. ASSUME NEW p \in 1..n
       PROVE  IF src.props[p].sec = s THEN CatsProperty(g[p], g[p - 1], at, src.props[p]) ELSE g[p] = g[p - 1]
  <2>1. p - 1 \in 0..n
    BY <1>6
  <2>2. PICK x \in IniFiles : x = g[p - 1] /\ x.sections = into.sections
    BY <1>19, <2>1
  <2>3. src.props[p] \in Property /\ at \in 1..Len(x.sections)
    BY <1>5, <2>2 DEF IniFiles, Placed, CatsInto
  <2>4. CatsProperty(CatProperty(x, at, src.props[p]), x, at, src.props[p])
    BY <2>3, CatPropertyIs
  <2> QED
    BY <1>18, <2>2, <2>4
<1>21. n \in 0..n
  BY <1>6
<1> HIDE DEF F
<1>22. CatsSection(CatSection(dst, src, s), dst, src, s)
  BY <1>1, <1>5, <1>14, <1>17, <1>19, <1>20 DEF CatsSection
<1> QED
  BY <1>14, <1>19, <1>21, <1>22

Cats(r, dst, src) ==
  \E c : /\ c[0] = dst /\ \A s \in 0..Len(src.sections) : c[s] \in IniFiles
         /\ \A s \in 1..Len(src.sections) : CatsSection(c[s], c[s - 1], src, s)
         /\ r = c[Len(src.sections)]

(* And Cat, section by section. *)
LEMMA CatIs ==
  ASSUME NEW dst \in IniFiles, NEW src \in IniFiles
  PROVE  Cats(Cat(dst, src), dst, src) /\ Cat(dst, src) \in IniFiles
<1> DEFINE n == Len(src.sections)
           G == [y \in IniFiles \X (1..n) |-> CatSection(y[1], src, y[2])]
<1>1. n \in Nat
  BY DEF IniFiles, Placed
<1>2. ASSUME NEW x \in IniFiles, NEW s \in 1..n PROVE CatSection(x, src, s) \in IniFiles
  BY CatSectionIs
<1>3. G \in [IniFiles \X (1..n) -> IniFiles]
  BY <1>2
<1>4. PICK f \in [0..n -> IniFiles] : Stepwise(n, dst, G, f)
  <2> HIDE DEF G
  <2> QED
    BY <1>1, <1>3, Steps
<1> DEFINE F(h) == [s \in 0..n |-> IF s = 0 THEN dst ELSE CatSection(h[s - 1], src, s)]
<1>5. ASSUME NEW s \in 0..n PROVE f[s] = F(f)[s]
  <2>1. CASE s = 0
    BY <1>4, <2>1 DEF Stepwise
  <2>2. CASE s # 0
    <3>1. s \in 1..n /\ s - 1 \in 0..n
      BY <2>2
    <3>2. f[s] = CatSection(f[s - 1], src, s)
      BY <1>4, <3>1 DEF Stepwise
    <3> QED
      BY <2>2, <3>2
  <2> QED
    BY <2>1, <2>2
<1>6. f = F(f)
  BY <1>4, <1>5
<1>7. PICK g : g = CHOOSE h : h = F(h)
  OBVIOUS
<1>8. Cat(dst, src) = g[n]
  BY <1>7 DEF Cat
<1>9. g = F(g)
  BY <1>6, <1>7
<1>10. g[0] = F(g)[0]
  BY <1>9, Zenon
<1>11. g[0] = dst
  BY <1>1, <1>10
<1>12. ASSUME NEW s \in 1..n PROVE g[s] = CatSection(g[s - 1], src, s)
  <2>1. g[s] = F(g)[s]
    BY <1>9, Zenon
  <2>2. s \in 0..n /\ s # 0
    BY <1>1
  <2>3. F(g)[s] = CatSection(g[s - 1], src, s)
    BY <2>2
  <2> HIDE DEF F
  <2> QED
    BY <2>1, <2>3
<1>13. \A s \in 0..n : g[s] \in IniFiles
  <2> DEFINE S == {s \in Nat : s <= n => g[s] \in IniFiles}
  <2>1. 0 \in S
    BY <1>11
  <2>2. ASSUME NEW s \in Nat, s \in S PROVE s + 1 \in S
    <3> SUFFICES ASSUME s + 1 <= n PROVE g[s + 1] \in IniFiles
      OBVIOUS
    <3>1. PICK q \in 1..n : q = s + 1 /\ q - 1 = s
      BY <1>1
    <3>2. g[s] \in IniFiles
      BY <1>1, <2>2
    <3> QED
      BY <1>2, <1>12, <3>1, <3>2
  <2> HIDE DEF S
  <2>3. \A s \in Nat : s \in S
    BY <2>1, <2>2, Induction
  <2> QED
    BY <1>1, <2>3 DEF S
<1>14. ASSUME NEW s \in 1..n PROVE CatsSection(g[s], g[s - 1], src, s)
  <2>1. s - 1 \in 0..n
    BY <1>1
  <2>2. PICK x \in IniFiles : x = g[s - 1]
    BY <1>13, <2>1
  <2> QED
    BY <1>12, <2>2, CatSectionIs
<1>15. n \in 0..n
  BY <1>1
<1> QED
  BY <1>8, <1>11, <1>13, <1>14, <1>15 DEF Cats

-----------------------------------------------------------------------------
(* The section a line is in *)
LEMMA SectionAtIs ==
  ASSUME NEW file, FileIs(file)
  PROVE  /\ SectionAt(file, 0) = Global
         /\ \A j \in 1..Len(file) :
              SectionAt(file, j) = IF file[j].header THEN file[j].name ELSE SectionAt(file, j - 1)
         /\ \A j \in 0..Len(file) : SectionAt(file, j) \in Names
<1> DEFINE H(j) == {h \in 1..j : file[h].header}
<1>1. Len(file) \in Nat /\ \A j \in 1..Len(file) : file[j].header \in BOOLEAN /\ file[j].name \in Names
  BY DEF FileIs, Line
<1>2. H(0) = {}
  OBVIOUS
<1>3. SectionAt(file, 0) = Global
  BY <1>2 DEF SectionAt
<1>4. ASSUME NEW j \in 1..Len(file)
      PROVE  SectionAt(file, j) = IF file[j].header THEN file[j].name ELSE SectionAt(file, j - 1)
  <2>1. CASE file[j].header
    <3>1. j \in H(j) /\ H(j) \in SUBSET Int /\ \A y \in H(j) : y <= j
      BY <1>1, <2>1
    <3>2. Max(H(j)) = j
      <4> HIDE DEF H
      <4> QED
        BY <3>1, MaxIs
    <3>3. H(j) # {}
      BY <3>1
    <3> QED
      BY <2>1, <3>2, <3>3 DEF SectionAt
  <2>2. CASE ~file[j].header
    <3>1. H(j) = H(j - 1)
      BY <1>1, <2>2
    <3> QED
      BY <2>2, <3>1 DEF SectionAt
  <2> QED
    BY <2>1, <2>2
<1>5. \A j \in 0..Len(file) : SectionAt(file, j) \in Names
  <2> DEFINE S == {j \in Nat : j <= Len(file) => SectionAt(file, j) \in Names}
  <2>1. 0 \in S
    BY <1>3, NamesAssumption
  <2>2. ASSUME NEW j \in Nat, j \in S PROVE j + 1 \in S
    <3> SUFFICES ASSUME j + 1 <= Len(file) PROVE SectionAt(file, j + 1) \in Names
      OBVIOUS
    <3>1. PICK k \in 1..Len(file) : k = j + 1 /\ k - 1 = j
      BY <1>1
    <3>2. SectionAt(file, j) \in Names
      BY <1>1, <2>2
    <3> QED
      BY <1>1, <1>4, <3>1, <3>2
  <2> HIDE DEF S
  <2>3. \A j \in Nat : j \in S
    BY <2>1, <2>2, Induction
  <2> QED
    BY <1>1, <2>3 DEF S
<1> QED
  BY <1>3, <1>4, <1>5

(* Load line by line: where the next property goes is the section of the    *)
(* line.                                                                    *)
LoadsFile(x, lines, g) ==
  /\ g[0] = Begun
  /\ \A i \in 0..Len(lines) : g[i] \in Loadings /\ g[i].ini.sections[g[i].at] = SectionAt(lines, i)
  /\ \A i \in 1..Len(lines) : LoadsLine(g[i], g[i - 1], lines[i])
  /\ x = g[Len(lines)].ini /\ x \in IniFiles

(* Load leaves an ini, and the sections are opened in the order of the      *)
(* headers.                                                                 *)
LEMMA LoadDoes ==
  ASSUME NEW lines, FileIs(lines)
  PROVE  \E g : LoadsFile(Load(lines), lines, g)
<1>1. PICK g : /\ g[0] = Begun /\ Begun \in Loadings
               /\ \A i \in 1..Len(lines) : g[i] = LoadLine(g[i - 1], lines[i])
               /\ Load(lines) = g[Len(lines)].ini
  BY LoadIs
<1>2. Len(lines) \in Nat
  BY DEF FileIs
<1> DEFINE P(i) == g[i] \in Loadings /\ g[i].ini.sections[g[i].at] = SectionAt(lines, i)
<1>3. P(0)
  <2>1. Begun.ini.sections[Begun.at] = Global
    BY DEF Begun, Create
  <2> QED
    BY <1>1, <2>1, SectionAtIs
<1>4. ASSUME NEW k \in 1..Len(lines), P(k - 1) PROVE P(k) /\ LoadsLine(g[k], g[k - 1], lines[k])
  <2>1. PICK y \in Loadings : y = g[k - 1]
    BY <1>4
  <2>2. PICK z : z = g[k]
    OBVIOUS
  <2>3. Line(lines[k])
    BY DEF FileIs
  <2>4. LoadsLine(z, y, lines[k])
    BY <1>1, <2>1, <2>2, <2>3, LoadLineIs
  <2>5. SectionAt(lines, k) = IF lines[k].header THEN lines[k].name ELSE SectionAt(lines, k - 1)
    BY SectionAtIs
  <2>6. z \in Loadings /\ z.at = Len(z.ini.sections) /\ y.at = Len(y.ini.sections)
    BY <2>4 DEF LoadsLine, Loadings
  <2>7. z.ini.sections[z.at] = SectionAt(lines, k)
    <3>1. CASE lines[k].header
      BY <2>4, <2>5, <2>6, <3>1 DEF LoadsLine, OpensSection
    <3>2. CASE ~lines[k].header
      BY <1>4, <2>1, <2>4, <2>5, <2>6, <3>2 DEF LoadsLine, Adds
    <3> QED
      BY <3>1, <3>2
  <2> QED
    BY <2>1, <2>2, <2>4, <2>6, <2>7
<1>5. \A i \in 0..Len(lines) : P(i)
  <2> DEFINE S == {i \in Nat : i <= Len(lines) => P(i)}
  <2> HIDE DEF P
  <2>1. 0 \in S
    BY <1>3
  <2>2. ASSUME NEW i \in Nat, i \in S PROVE i + 1 \in S
    <3> SUFFICES ASSUME i + 1 <= Len(lines) PROVE P(i + 1)
      OBVIOUS
    <3>1. PICK k \in 1..Len(lines) : k = i + 1 /\ k - 1 = i
      BY <1>2
    <3>2. P(k - 1)
      BY <1>2, <2>2, <3>1
    <3>3. P(k)
      BY <1>4, <3>2
    <3> QED
      BY <3>1, <3>3
  <2> HIDE DEF S
  <2>3. \A i \in Nat : i \in S
    BY <2>1, <2>2, Induction
  <2> QED
    BY <1>2, <2>3 DEF S
<1>6. ASSUME NEW i \in 1..Len(lines) PROVE LoadsLine(g[i], g[i - 1], lines[i])
  <2>1. i - 1 \in 0..Len(lines)
    BY <1>2
  <2> HIDE DEF P
  <2>2. P(i - 1)
    BY <1>5, <2>1
  <2> QED
    BY <1>4, <2>2
<1>7. g[Len(lines)].ini \in IniFiles
  <2>1. Len(lines) \in 0..Len(lines)
    BY <1>2
  <2>2. g[Len(lines)] \in Loadings
    BY <1>5, <2>1
  <2> QED
    BY <2>2 DEF Loadings
<1> QED
  BY <1>1, <1>5, <1>6, <1>7 DEF LoadsFile

-----------------------------------------------------------------------------
(* Where a property's value comes from: a line whose name and section can   *)
(* be taken for the property's.                                             *)
InFile(name, section, val, file) ==
  \E j \in 1..Len(file) :
    /\ ~file[j].header /\ ValueOf(file[j].val) = val
    /\ <<file[j].name, name>> \in Prefix
    /\ <<SectionAt(file, j), section>> \in Prefix
    /\ SectionAt(file, j) = Global <=> section = Global

Originates(x, file) ==
  \A p \in 1..Len(x.props) : InFile(x.props[p].name, x.sections[x.props[p].sec], x.props[p].val, file)

(* A file's properties stem from its own lines. *)
LEMMA LoadOriginates ==
  ASSUME NEW lines, FileIs(lines)
  PROVE  Originates(Load(lines), lines)
<1>1. PICK g : LoadsFile(Load(lines), lines, g)
  BY LoadDoes
<1>2. Len(lines) \in Nat
  BY DEF FileIs
<1> DEFINE S == {i \in Nat : i <= Len(lines) => Originates(g[i].ini, lines)}
<1>3. 0 \in S
  <2>1. g[0].ini.props = <<>>
    BY <1>1 DEF LoadsFile, Begun, Create
  <2> QED
    BY <2>1 DEF Originates
<1>4. ASSUME NEW i \in Nat, i \in S PROVE i + 1 \in S
  <2> SUFFICES ASSUME i + 1 <= Len(lines) PROVE Originates(g[i + 1].ini, lines)
    OBVIOUS
  <2>1. PICK k \in 1..Len(lines) : k = i + 1 /\ k - 1 = i
    BY <1>2
  <2>2. Originates(g[i].ini, lines) /\ i \in 0..Len(lines) /\ k \in 0..Len(lines)
    BY <1>2, <1>4, <2>1
  <2>3. PICK y, z, line : y = g[i] /\ z = g[k] /\ line = lines[k]
    OBVIOUS
  <2>4. LoadsLine(z, y, line) /\ y \in Loadings /\ z.ini.sections[z.at] = SectionAt(lines, k)
    BY <1>1, <2>1, <2>2, <2>3 DEF LoadsFile
  <2>5. y.ini \in IniFiles /\ Placed(y.ini) /\ y.at = Len(y.ini.sections) /\ z.at = Len(z.ini.sections)
        /\ Placed(z.ini)
    BY <2>4 DEF Loadings, LoadsLine, IniFiles
  <2>6. Originates(y.ini, lines)
    BY <2>2, <2>3
  <2>7. CASE line.header
    <3>1. OpensSection(z.ini, y.ini, line.name)
      BY <2>4, <2>7 DEF LoadsLine
    <3>2. ASSUME NEW p \in 1..Len(z.ini.props)
          PROVE  InFile(z.ini.props[p].name, z.ini.sections[z.ini.props[p].sec], z.ini.props[p].val, lines)
      <4>1. p \in 1..Len(y.ini.props) /\ z.ini.props[p] = y.ini.props[p]
        BY <3>1 DEF OpensSection
      <4>2. z.ini.sections[z.ini.props[p].sec] = y.ini.sections[y.ini.props[p].sec]
        BY <2>5, <3>1, <4>1 DEF OpensSection, Placed
      <4> QED
        BY <2>6, <4>1, <4>2 DEF Originates
    <3> QED
      BY <2>1, <2>3, <3>2 DEF Originates
  <2>8. CASE ~line.header
    <3>1. Adds(z.ini, y.ini, [sec |-> y.at, name |-> line.name, val |-> ValueOf(line.val), freed |-> FALSE])
      BY <2>4, <2>8 DEF LoadsLine
    <3>2. ASSUME NEW p \in 1..Len(z.ini.props)
          PROVE  InFile(z.ini.props[p].name, z.ini.sections[z.ini.props[p].sec], z.ini.props[p].val, lines)
      <4>1. CASE p \in 1..Len(y.ini.props)
        BY <2>6, <3>1, <4>1 DEF Originates, Adds
      <4>2. CASE p \notin 1..Len(y.ini.props)
        <5>1. p = Len(y.ini.props) + 1
          <6>1. PICK m \in Nat : m = Len(y.ini.props)
            BY <2>5 DEF Placed
          <6>2. p \in 1..m + 1 /\ p \notin 1..m
            BY <3>1, <4>2, <6>1 DEF Adds
          <6> QED
            BY <6>1, <6>2
        <5>2. z.ini.props[p] = [sec |-> y.at, name |-> line.name, val |-> ValueOf(line.val), freed |-> FALSE]
          BY <3>1, <5>1 DEF Adds
        <5>3. z.ini.sections[y.at] = SectionAt(lines, k)
          BY <2>4, <2>5, <3>1 DEF Adds
        <5>4. line.name \in Names
          BY <2>3 DEF FileIs, Line
        <5>5. SectionAt(lines, k) \in Names
          BY <2>2, SectionAtIs
        <5>6. <<line.name, line.name>> \in Prefix /\ <<SectionAt(lines, k), SectionAt(lines, k)>> \in Prefix
          BY <5>4, <5>5, NamesAssumption
        <5>7. InFile(line.name, SectionAt(lines, k), ValueOf(line.val), lines)
          BY <2>3, <2>8, <5>6 DEF InFile
        <5> QED
          BY <5>2, <5>3, <5>7
      <4> QED
        BY <4>1, <4>2
    <3> QED
      BY <2>1, <2>3, <3>2 DEF Originates
  <2> QED
    BY <2>3, <2>4, <2>5, <2>7, <2>8
<1> HIDE DEF S
<1>5. Len(lines) \in S
  BY <1>2, <1>3, <1>4, Induction
<1> QED
  BY <1>1, <1>2, <1>5 DEF S, LoadsFile

Files(texts) ==
  /\ texts \in Seq(Seq(FileLines)) /\ Len(texts) \in Nat /\ DOMAIN texts = 1..Len(texts)
  /\ \A i \in 1..Len(texts) : FileIs(texts[i])
InFiles(name, section, val, texts) == \E i \in 1..Len(texts) : InFile(name, section, val, texts[i])
Origins(x, texts) ==
  \A p \in 1..Len(x.props) : InFiles(x.props[p].name, x.sections[x.props[p].sec], x.props[p].val, texts)

(* Two beginnings of one name are related. *)
LEMMA RelatedBy ==
  ASSUME NEW n \in Names, NEW m \in Names, NEW k \in Names, <<n, k>> \in Prefix, <<m, k>> \in Prefix
  PROVE  Related(n, m)
BY NamesAssumption

(* What stems from a line for a name does so for every name that begins with*)
(* it.                                                                      *)
LEMMA InFilesWider ==
  ASSUME NEW texts, Files(texts), NEW n \in Names, NEW m \in Names, NEW s \in Names, NEW t \in Names,
         <<n, m>> \in Prefix, <<s, t>> \in Prefix, s = Global <=> t = Global,
         NEW val, InFiles(n, s, val, texts)
  PROVE  InFiles(m, t, val, texts)
<1>1. PICK i \in 1..Len(texts) : InFile(n, s, val, texts[i])
  BY DEF InFiles
<1>2. PICK file : file = texts[i]
  OBVIOUS
<1>3. FileIs(file)
  BY <1>2 DEF Files
<1>4. PICK j \in 1..Len(file) :
        /\ ~file[j].header /\ ValueOf(file[j].val) = val
        /\ <<file[j].name, n>> \in Prefix /\ <<SectionAt(file, j), s>> \in Prefix
        /\ SectionAt(file, j) = Global <=> s = Global
  BY <1>1, <1>2 DEF InFile
<1>5. j \in 0..Len(file)
  BY <1>3 DEF FileIs
<1>6. file[j].name \in Names /\ SectionAt(file, j) \in Names
  BY <1>3, <1>5, SectionAtIs DEF FileIs, Line
<1>7. <<file[j].name, m>> \in Prefix /\ <<SectionAt(file, j), t>> \in Prefix
  BY <1>4, <1>6, NamesAssumption
<1>8. InFile(m, t, val, file)
  BY <1>4, <1>7 DEF InFile
<1> QED
  BY <1>2, <1>8 DEF InFiles

(* Merging a property keeps the origins: of the one that is found only the  *)
(* value changes, to that of a line whose name begins the property's.       *)
LEMMA CatPropertyOrigins ==
  ASSUME NEW texts, Files(texts), NEW dst \in IniFiles, NEW at \in 1..Len(dst.sections),
         NEW prop \in Property, NEW r, CatsProperty(r, dst, at, prop), Origins(dst, texts),
         InFiles(prop.name, dst.sections[at], prop.val, texts)
  PROVE  Origins(r, texts)
<1>1. Placed(dst)
  BY DEF IniFiles
<1>2. PICK n \in Nat : n = Len(dst.props)
  BY <1>1 DEF Placed
<1>3. CASE Adds(r, dst, [sec |-> at, name |-> prop.name, val |-> prop.val, freed |-> FALSE])
  <2>1. ASSUME NEW p \in 1..Len(r.props)
        PROVE  InFiles(r.props[p].name, r.sections[r.props[p].sec], r.props[p].val, texts)
    <3>1. CASE p \in 1..n
      BY <1>2, <1>3, <3>1 DEF Origins, Adds
    <3>2. CASE p \notin 1..n
      <4>1. p = n + 1
        <5>1. p \in 1..n + 1
          BY <1>2, <1>3 DEF Adds
        <5> QED
          BY <3>2, <5>1
      <4>2. r.props[p] = [sec |-> at, name |-> prop.name, val |-> prop.val, freed |-> FALSE] /\ r.sections = dst.sections
        BY <1>2, <1>3, <4>1 DEF Adds
      <4> QED
        BY <4>2
    <3> QED
      BY <3>1, <3>2
  <2> QED
    BY <2>1 DEF Origins
<1>4. ASSUME NEW p \in 1..Len(dst.props), FoundProperty(dst, at, prop.name, p), Sets(r, dst, p, prop.val)
      PROVE  Origins(r, texts)
  <2>1. PICK m \in Names : m = dst.props[p].name
    BY <1>1 DEF Placed, Property
  <2>2. PICK s \in Names : s = dst.sections[at]
    BY <1>1 DEF Placed
  <2>3. <<prop.name, m>> \in Prefix /\ <<s, s>> \in Prefix /\ prop.name \in Names /\ dst.props[p].sec = at
    BY <1>4, <2>1, NamesAssumption DEF FoundProperty, Property
  <2>4. InFiles(m, s, prop.val, texts)
    BY <2>2, <2>3, InFilesWider
  <2>5. ASSUME NEW q \in 1..Len(r.props)
        PROVE  InFiles(r.props[q].name, r.sections[r.props[q].sec], r.props[q].val, texts)
    <3>1. CASE q = p
      BY <1>4, <2>1, <2>2, <2>3, <2>4, <3>1 DEF Sets
    <3>2. CASE q # p
      BY <1>4, <3>2 DEF Sets, Origins
    <3> QED
      BY <3>1, <3>2
  <2> QED
    BY <2>5 DEF Origins
<1> QED
  BY <1>3, <1>4 DEF CatsProperty

(* Merging a section, which goes into one whose name begins with its own. *)
LEMMA CatSectionOrigins ==
  ASSUME NEW texts, Files(texts), NEW dst \in IniFiles, NEW src \in IniFiles, Origins(dst, texts), Origins(src, texts),
         NEW s \in 1..Len(src.sections), NEW r, CatsSection(r, dst, src, s)
  PROVE  Origins(r, texts)
<1>1. PICK into, at, c :
        /\ CatsInto(dst, src.sections[s], into, at)
        /\ c[0] = into
        /\ \A p \in 0..Len(src.props) : c[p] \in IniFiles /\ c[p].sections = into.sections
        /\ \A p \in 1..Len(src.props) :
             IF src.props[p].sec = s THEN CatsProperty(c[p], c[p - 1], at, src.props[p]) ELSE c[p] = c[p - 1]
        /\ r = c[Len(src.props)]
  BY DEF CatsSection
<1>2. PICK n \in Nat : n = Len(src.props)
  BY DEF IniFiles, Placed
<1>3. into \in IniFiles /\ at \in 1..Len(into.sections)
  BY <1>1 DEF CatsInto
<1>4. PICK S \in Names : S = src.sections[s]
  BY DEF IniFiles, Placed
<1>5. PICK T \in Names : T = into.sections[at]
  BY <1>3 DEF IniFiles, Placed
<1>6. <<S, T>> \in Prefix /\ (S = Global <=> T = Global)
  <2>1. CASE NoSection(dst, S) /\ S # Global /\ OpensSection(into, dst, S) /\ at = Len(into.sections)
    <3>1. T = S
      BY <1>5, <2>1 DEF OpensSection
    <3> QED
      BY <3>1, NamesAssumption
  <2>2. CASE FoundSection(dst, S, at) /\ into = dst
    <3>1. <<S, T>> \in Prefix /\ (S = Global => at = 1)
      BY <1>5, <2>2 DEF FoundSection
    <3>2. T = Global <=> at = 1
      BY <1>3, <1>5 DEF IniFiles, Placed
    <3> QED
      BY <3>1, <3>2, NamesAssumption
  <2> QED
    BY <1>1, <1>4, <2>1, <2>2 DEF CatsInto
<1> DEFINE I == {p \in Nat : p <= n => Origins(c[p], texts)}
<1>7. 0 \in I
  <2>1. Origins(into, texts)
    <3>1. CASE into = dst
      BY <3>1
    <3>2. CASE OpensSection(into, dst, S)
      <4>1. \A p \in 1..Len(dst.props) : dst.props[p].sec \in 1..Len(dst.sections)
        BY DEF IniFiles, Placed
      <4> QED
        BY <3>2, <4>1 DEF OpensSection, Origins
    <3> QED
      BY <1>1, <1>4, <3>1, <3>2 DEF CatsInto
  <2> QED
    BY <1>1, <2>1
<1>8. ASSUME NEW p \in Nat, p \in I PROVE p + 1 \in I
  <2> SUFFICES ASSUME p + 1 <= n PROVE Origins(c[p + 1], texts)
    OBVIOUS
  <2>1. PICK q \in 1..n : q = p + 1 /\ q - 1 = p
    BY <1>2
  <2>2. p \in 0..n /\ Origins(c[p], texts)
    BY <1>8
  <2>3. PICK x \in IniFiles : x = c[p] /\ x.sections = into.sections
    BY <1>1, <1>2, <2>2
  <2>4. PICK prop \in Property : prop = src.props[q]
    BY <1>2 DEF IniFiles, Placed
  <2>5. CASE prop.sec = s
    <3>1. InFiles(prop.name, S, prop.val, texts)
      BY <1>2, <1>4, <2>4, <2>5 DEF Origins
    <3>2. InFiles(prop.name, x.sections[at], prop.val, texts)
      <4>1. prop.name \in Names /\ <<prop.name, prop.name>> \in Prefix
        BY NamesAssumption DEF Property
      <4>2. InFiles(prop.name, T, prop.val, texts)
        BY <1>6, <3>1, <4>1, InFilesWider
      <4> QED
        BY <1>5, <2>3, <4>2
    <3>3. CatsProperty(c[q], x, at, prop)
      BY <1>1, <1>2, <2>1, <2>3, <2>4, <2>5
    <3>4. at \in 1..Len(x.sections) /\ Origins(x, texts)
      BY <1>3, <2>2, <2>3
    <3>5. Origins(c[q], texts)
      BY <3>2, <3>3, <3>4, CatPropertyOrigins
    <3> QED
      BY <2>1, <3>5
  <2>6. CASE prop.sec # s
    BY <1>1, <1>2, <2>1, <2>2, <2>4, <2>6
  <2> QED
    BY <2>5, <2>6
<1> HIDE DEF I
<1>9. n \in I
  BY <1>7, <1>8, Induction
<1> QED
  BY <1>1, <1>2, <1>9 DEF I

(* Merging an ini. *)
LEMMA CatOrigins ==
  ASSUME NEW texts, Files(texts), NEW dst \in IniFiles, NEW src \in IniFiles, Origins(dst, texts), Origins(src, texts)
  PROVE  Origins(Cat(dst, src), texts)
<1>1. PICK c : /\ c[0] = dst /\ \A s \in 0..Len(src.sections) : c[s] \in IniFiles
               /\ \A s \in 1..Len(src.sections) : CatsSection(c[s], c[s - 1], src, s)
               /\ Cat(dst, src) = c[Len(src.sections)]
  BY CatIs DEF Cats
<1>2. PICK n \in Nat : n = Len(src.sections)
  BY DEF IniFiles, Placed
<1> DEFINE I == {s \in Nat : s <= n => Origins(c[s], texts)}
<1>3. 0 \in I
  BY <1>1
<1>4. ASSUME NEW s \in Nat, s \in I PROVE s + 1 \in I
  <2> SUFFICES ASSUME s + 1 <= n PROVE Origins(c[s + 1], texts)
    OBVIOUS
  <2>1. PICK q \in 1..n : q = s + 1 /\ q - 1 = s
    BY <1>2
  <2>2. s \in 0..n /\ Origins(c[s], texts)
    BY <1>4
  <2>3. PICK x \in IniFiles : x = c[s]
    BY <1>1, <1>2, <2>2
  <2>4. CatsSection(c[q], x, src, q)
    BY <1>1, <1>2, <2>1, <2>3
  <2>5. Origins(c[q], texts)
    BY <1>2, <2>2, <2>3, <2>4, CatSectionOrigins
  <2> QED
    BY <2>1, <2>5
<1> HIDE DEF I
<1>5. n \in I
  BY <1>3, <1>4, Induction
<1> QED
  BY <1>1, <1>2, <1>5 DEF I

(* What is found for a key stems from a line that could be taken for it. *)
LEMMA FoundFromLine ==
  ASSUME NEW x \in IniFiles, NEW texts, Files(texts), Origins(x, texts),
         NEW key \in Names \X Names, TryReadIni(x, key) \notin {Missing, Junk}
  PROVE  \E i \in 1..Len(texts) : \E j \in Lines(texts[i], key) : ValueOf(texts[i][j].val) = TryReadIni(x, key)
<1>1. PICK s : s = IF key[1] = Global THEN 1 ELSE FindSection(x, key[1])
  OBVIOUS
<1>2. PICK p : p = IF s = NotFound THEN NotFound ELSE FindProperty(x, s, key[2])
  OBVIOUS
<1>3. p # NotFound /\ TryReadIni(x, key) = PropertyValue(x, p)
  BY <1>1, <1>2 DEF TryReadIni
<1>4. s # NotFound /\ FoundProperty(x, s, key[2], p)
  BY <1>2, <1>3, FindPropertyIs
<1>5. TryReadIni(x, key) = x.props[p].val
  BY <1>3 DEF PropertyValue
<1>6. p \in 1..Len(x.props) /\ x.props[p].sec = s /\ <<key[2], x.props[p].name>> \in Prefix
  BY <1>4 DEF FoundProperty
<1>7. PICK S \in Names : S = x.sections[s] /\ s \in 1..Len(x.sections)
  BY <1>6 DEF IniFiles, Placed
<1>8. <<key[1], S>> \in Prefix /\ (key[1] = Global <=> S = Global)
  <2>1. S = Global <=> s = 1
    BY <1>7 DEF IniFiles, Placed
  <2>2. CASE key[1] = Global
    BY <1>1, <2>1, <2>2, NamesAssumption
  <2>3. CASE key[1] # Global
    <3>1. FoundSection(x, key[1], s)
      BY <1>1, <1>4, <2>3, FindSectionIs
    <3>2. <<key[1], S>> \in Prefix
      BY <1>7, <3>1 DEF FoundSection
    <3> QED
      BY <2>3, <3>2, NamesAssumption
  <2> QED
    BY <2>2, <2>3
<1>9. PICK i \in 1..Len(texts) : InFile(x.props[p].name, S, x.props[p].val, texts[i])
  BY <1>6, <1>7 DEF Origins, InFiles
<1>10. PICK file : file = texts[i]
  OBVIOUS
<1>11. PICK j \in 1..Len(file) :
        /\ ~file[j].header /\ ValueOf(file[j].val) = x.props[p].val
        /\ <<file[j].name, x.props[p].name>> \in Prefix /\ <<SectionAt(file, j), S>> \in Prefix
        /\ SectionAt(file, j) = Global <=> S = Global
  BY <1>9, <1>10 DEF InFile
<1>12. FileIs(file)
  BY <1>10 DEF Files
<1>13. j \in 0..Len(file) /\ DOMAIN file = 1..Len(file)
  BY <1>12 DEF FileIs
<1>14. file[j].name \in Names /\ SectionAt(file, j) \in Names /\ x.props[p].name \in Names
  BY <1>6, <1>12, <1>13, SectionAtIs DEF FileIs, Line, IniFiles, Placed, Property
<1>15. Related(key[2], file[j].name)
  <2>1. key[2] \in Names
    OBVIOUS
  <2> QED
    BY <1>6, <1>11, <1>14, <2>1, RelatedBy
<1>16. RelatedSections(key[1], SectionAt(file, j))
  <2>1. Related(key[1], SectionAt(file, j))
    BY <1>8, <1>11, <1>14, NamesAssumption
  <2>2. key[1] = Global <=> SectionAt(file, j) = Global
    BY <1>8, <1>11
  <2> QED
    BY <2>1, <2>2 DEF RelatedSections
<1>17. j \in Lines(file, key)
  BY <1>11, <1>13, <1>15, <1>16 DEF Lines
<1> QED
  BY <1>5, <1>10, <1>11, <1>17

-----------------------------------------------------------------------------
(* A key that is plainly written: section and name are looked for as k and  *)
(* m, and spelled s and n wherever a line could be taken for one of them.   *)
Wanted ==
  {w \in [k : Names, m : Names, s : Names, n : Names, long : BOOLEAN] :
     <<w.k, w.s>> \in Prefix /\ (w.k = Global <=> w.s = Global) /\ <<w.m, w.n>> \in Prefix}

(* The section can be taken for the key's, and the property for the key.    *)
Meets(w, section) == RelatedSections(w.k, section)
MyProperty(x, w, p) ==
  p \in 1..Len(x.props) /\ Meets(w, x.sections[x.props[p].sec]) /\ Related(w.m, x.props[p].name)

(* Which sections can be taken for the key's: those that begin with, or are *)
(* the beginning of, what it is spelled as, and for the global section only *)
(* itself.                                                                  *)
LEMMA MeetsIs ==
  ASSUME NEW w \in Wanted, NEW t \in Names
  PROVE  /\ Meets(w, w.s) /\ (Meets(w, Global) <=> w.k = Global)
         /\ <<w.s, t>> \in Prefix /\ (w.s = Global => t = Global) => Meets(w, t)
         /\ <<t, w.s>> \in Prefix /\ (t = Global <=> w.s = Global) => Meets(w, t)
         /\ <<w.k, t>> \in Prefix /\ (w.k = Global => t = Global) => Meets(w, t)
<1>1. PICK k \in Names, s \in Names : k = w.k /\ s = w.s
  BY DEF Wanted
<1>2. <<k, s>> \in Prefix /\ (k = Global <=> s = Global)
  BY <1>1 DEF Wanted
<1>3. RelatedSections(k, s)
  BY <1>2 DEF RelatedSections, Related
<1>4. RelatedSections(k, Global) <=> k = Global
  BY DEF RelatedSections
<1>5. ASSUME <<s, t>> \in Prefix, s = Global => t = Global PROVE RelatedSections(k, t)
  <2>1. <<k, t>> \in Prefix /\ (k = Global <=> t = Global)
    BY <1>2, <1>5, NamesAssumption
  <2> QED
    BY <2>1 DEF RelatedSections, Related
<1>6. ASSUME <<t, s>> \in Prefix, t = Global <=> s = Global PROVE RelatedSections(k, t)
  <2>1. Related(k, t)
    BY <1>2, <1>6, RelatedBy
  <2> QED
    BY <1>2, <1>6, <2>1 DEF RelatedSections
<1>7. ASSUME <<k, t>> \in Prefix, k = Global => t = Global PROVE RelatedSections(k, t)
  <2>1. k = Global <=> t = Global
    BY <1>7, NamesAssumption
  <2> QED
    BY <1>7, <2>1 DEF RelatedSections, Related
<1> QED
  BY <1>1, <1>3, <1>4, <1>5, <1>6, <1>7 DEF Meets

(* The same for the names of properties. *)
LEMMA NameMeets ==
  ASSUME NEW w \in Wanted, NEW t \in Names
  PROVE  /\ Related(w.m, w.n)
         /\ <<w.n, t>> \in Prefix => Related(w.m, t)
         /\ <<t, w.n>> \in Prefix => Related(w.m, t)
<1>1. PICK m \in Names, n \in Names : m = w.m /\ n = w.n
  BY DEF Wanted
<1>2. <<m, n>> \in Prefix
  BY <1>1 DEF Wanted
<1>3. ASSUME <<n, t>> \in Prefix PROVE Related(m, t)
  <2>1. <<m, t>> \in Prefix
    BY <1>2, <1>3, NamesAssumption
  <2> QED
    BY <2>1 DEF Related
<1>4. ASSUME <<t, n>> \in Prefix PROVE Related(m, t)
  BY <1>2, <1>4, RelatedBy
<1>5. Related(m, n)
  BY <1>2 DEF Related
<1> QED
  BY <1>1, <1>3, <1>4, <1>5

(* An ini in which the key is plainly written; in which it is once at most; *)
(* what it has for the key.                                                 *)
Meant(x, w) ==
  /\ \A a \in 1..Len(x.sections) : Meets(w, x.sections[a]) => x.sections[a] = w.s
  /\ \A p \in 1..Len(x.props) :
       MyProperty(x, w, p) => x.props[p].name = w.n /\ ~x.props[p].freed /\ (x.props[p].val \in Long <=> w.long)
Single(x, w) ==
  /\ \A a \in 1..Len(x.sections) : \A d \in 1..Len(x.sections) :
       Meets(w, x.sections[a]) /\ Meets(w, x.sections[d]) => a = d
  /\ \A p \in 1..Len(x.props) : \A q \in 1..Len(x.props) : MyProperty(x, w, p) /\ MyProperty(x, w, q) => p = q
Holds(x, w, v) ==
  \/ v = Missing /\ \A p \in 1..Len(x.props) : ~MyProperty(x, w, p)
  \/ \E p \in 1..Len(x.props) : MyProperty(x, w, p) /\ v = x.props[p].val

(* What an ini holds for a plainly written key is what try_read_ini finds:  *)
(* the first that is found is the only one that could be.                   *)
LEMMA HeldIsRead ==
  ASSUME NEW x \in IniFiles, NEW w \in Wanted, Meant(x, w), Single(x, w), NEW v, Holds(x, w, v)
  PROVE  TryReadIni(x, <<w.k, w.m>>) = v
<1>1. PICK key : key = <<w.k, w.m>>
  OBVIOUS
<1>2. key[1] = w.k /\ key[2] = w.m
  BY <1>1
<1>3. PICK k \in Names, m \in Names : k = w.k /\ m = w.m
  BY DEF Wanted
<1>4. PICK s : s = IF k = Global THEN 1 ELSE FindSection(x, k)
  OBVIOUS
<1>5. PICK p : p = IF s = NotFound THEN NotFound ELSE FindProperty(x, s, m)
  OBVIOUS
<1>6. TryReadIni(x, key) = IF p = NotFound THEN Missing ELSE PropertyValue(x, p)
  BY <1>2, <1>3, <1>4, <1>5 DEF TryReadIni
<1>7. Placed(x)
  BY DEF IniFiles
<1>8. ASSUME NEW q \in 1..Len(x.props), MyProperty(x, w, q)
      PROVE  p = q
  <2>1. PICK a \in 1..Len(x.sections) : a = x.props[q].sec
    BY <1>7 DEF Placed
  <2>2. Meets(w, x.sections[a]) /\ x.sections[a] = w.s
    BY <1>8, <2>1 DEF MyProperty, Meant
  <2>3. <<k, w.s>> \in Prefix /\ (k = Global <=> w.s = Global)
    BY <1>3 DEF Wanted
  <2>4. s = a /\ s # NotFound
    <3>1. CASE k = Global
      BY <1>4, <1>7, <2>2, <2>3, <3>1 DEF Placed, NotFound
    <3>2. CASE k # Global
      <4>1. ~NoSection(x, k)
        BY <2>2, <2>3 DEF NoSection
      <4>2. FoundSection(x, k, s) /\ s # NotFound
        BY <1>4, <3>2, <4>1, FindSectionIs
      <4>3. s \in 1..Len(x.sections) /\ <<k, x.sections[s]>> \in Prefix /\ x.sections[s] \in Names
        BY <1>7, <4>2 DEF FoundSection, Placed
      <4>4. Meets(w, x.sections[s])
        BY <1>3, <3>2, <4>3, MeetsIs
      <4> QED
        BY <2>2, <4>2, <4>3, <4>4 DEF Single
    <3> QED
      BY <3>1, <3>2
  <2>5. FoundProperty(x, s, m, q)
    <3>1. <<m, w.n>> \in Prefix
      BY <1>3 DEF Wanted
    <3>2. x.props[q].name = w.n
      BY <1>8 DEF Meant
    <3> QED
      BY <2>1, <2>4, <3>1, <3>2 DEF FoundProperty
  <2>6. FoundProperty(x, s, m, p)
    BY <1>5, <2>4, <2>5, FindPropertyIs DEF NoProperty
  <2>7. MyProperty(x, w, p)
    BY <1>3, <2>2, <2>4, <2>6 DEF FoundProperty, MyProperty, Related
  <2> QED
    BY <1>8, <2>7 DEF Single, MyProperty
<1>9. p # NotFound => MyProperty(x, w, p)
  <2> SUFFICES ASSUME p # NotFound PROVE MyProperty(x, w, p)
    OBVIOUS
  <2>1. s # NotFound /\ FoundProperty(x, s, m, p)
    BY <1>5, FindPropertyIs
  <2>2. PICK a \in 1..Len(x.sections) : a = s
    BY <1>7, <2>1 DEF FoundProperty, Placed
  <2>3. PICK S \in Names : S = x.sections[a]
    BY <1>7 DEF Placed
  <2>4. Meets(w, S)
    <3>1. CASE k = Global
      BY <1>3, <1>4, <1>7, <2>2, <2>3, <3>1, MeetsIs DEF Placed
    <3>2. CASE k # Global
      <4>1. FoundSection(x, k, s)
        BY <1>4, <2>1, <3>2, FindSectionIs
      <4> QED
        BY <1>3, <2>2, <2>3, <3>2, <4>1, MeetsIs DEF FoundSection
    <3> QED
      BY <3>1, <3>2
  <2> QED
    BY <1>3, <2>1, <2>2, <2>3, <2>4 DEF FoundProperty, MyProperty, Related
<1>10. CASE v = Missing /\ \A q \in 1..Len(x.props) : ~MyProperty(x, w, q)
  BY <1>1, <1>6, <1>9, <1>10 DEF MyProperty
<1>11. ASSUME NEW q \in 1..Len(x.props), MyProperty(x, w, q), v = x.props[q].val
       PROVE  TryReadIni(x, key) = v
  <2>1. p = q /\ q # NotFound
    BY <1>7, <1>8, <1>11 DEF NotFound, Placed
  <2>2. ~x.props[p].freed
    BY <1>11, <2>1 DEF Meant
  <2> QED
    BY <1>6, <1>11, <2>1, <2>2 DEF PropertyValue
<1> QED
  BY <1>1, <1>10, <1>11 DEF Holds

(* One property more: of the key, what is held becomes its value; of        *)
(* another one, nothing changes for the key.                                *)
Suits(w, prop) == prop.name = w.n /\ (prop.val \in Long <=> w.long)

Clear(x, w) == Meant(x, w) /\ Single(x, w)

(* Merging a property that could not be the key's leaves what is held for   *)
(* the key: the lookup cannot take the key's for it.                        *)
LEMMA CatPropertyOther ==
  ASSUME NEW dst \in IniFiles, NEW w \in Wanted, Clear(dst, w), NEW v, Holds(dst, w, v),
         NEW at \in 1..Len(dst.sections), NEW prop \in Property,
         ~(Meets(w, dst.sections[at]) /\ Related(w.m, prop.name)),
         NEW r, CatsProperty(r, dst, at, prop)
  PROVE  Clear(r, w) /\ Holds(r, w, v)
<1>1. Placed(dst)
  BY DEF IniFiles
<1>2. PICK n \in Nat : n = Len(dst.props)
  BY <1>1 DEF Placed
<1>3. r.sections = dst.sections
  BY CatPropertyType
<1>4. CASE Adds(r, dst, [sec |-> at, name |-> prop.name, val |-> prop.val, freed |-> FALSE])
  <2>1. Len(r.props) = n + 1 /\ \A p \in 1..n : r.props[p] = dst.props[p]
    BY <1>2, <1>4 DEF Adds
  <2>2. r.props[n + 1].sec = at /\ r.props[n + 1].name = prop.name
    BY <1>2, <1>4 DEF Adds
  <2>3. ~MyProperty(r, w, n + 1)
    BY <1>3, <2>2 DEF MyProperty
  <2>4. ASSUME NEW p PROVE MyProperty(r, w, p) <=> MyProperty(dst, w, p)
    <3>1. CASE p \in 1..n
      <4>1. r.props[p] = dst.props[p] /\ p \in 1..Len(r.props) /\ p \in 1..Len(dst.props)
        BY <1>2, <2>1, <3>1
      <4> QED
        BY <1>3, <4>1 DEF MyProperty
    <3>2. CASE p \notin 1..n
      <4>1. p \in 1..n + 1 => p = n + 1
        BY <3>2
      <4> QED
        BY <1>2, <2>1, <2>3, <3>2, <4>1 DEF MyProperty
    <3> QED
      BY <3>1, <3>2
  <2>5. ASSUME NEW p, MyProperty(r, w, p) PROVE p \in 1..n /\ r.props[p] = dst.props[p] /\ MyProperty(dst, w, p)
    BY <1>2, <2>1, <2>4, <2>5 DEF MyProperty
  <2>6. Meant(r, w)
    BY <1>2, <1>3, <2>5 DEF Meant, Clear
  <2>7. Single(r, w)
    BY <1>2, <1>3, <2>5 DEF Single, Clear
  <2>8. Holds(r, w, v)
    <3>1. CASE v = Missing /\ \A p \in 1..Len(dst.props) : ~MyProperty(dst, w, p)
      BY <1>2, <2>5, <3>1 DEF Holds
    <3>2. ASSUME NEW p \in 1..Len(dst.props), MyProperty(dst, w, p), v = dst.props[p].val
          PROVE  Holds(r, w, v)
      <4>1. MyProperty(r, w, p)
        BY <2>4, <3>2
      <4>2. r.props[p].val = v /\ p \in 1..Len(r.props)
        BY <2>5, <3>2, <4>1 DEF MyProperty
      <4> QED
        BY <4>1, <4>2 DEF Holds
    <3> QED
      BY <3>1, <3>2 DEF Holds
  <2> QED
    BY <2>6, <2>7, <2>8 DEF Clear
<1>5. ASSUME NEW f \in 1..Len(dst.props), FoundProperty(dst, at, prop.name, f), Sets(r, dst, f, prop.val)
      PROVE  Clear(r, w) /\ Holds(r, w, v)
  <2>1. /\ Len(r.props) = n /\ \A p \in 1..n : p # f => r.props[p] = dst.props[p]
        /\ r.props[f].sec = dst.props[f].sec /\ r.props[f].name = dst.props[f].name
    BY <1>2, <1>5 DEF Sets
  <2>2. ASSUME NEW p PROVE MyProperty(r, w, p) <=> MyProperty(dst, w, p)
    <3>1. CASE p = f
      BY <1>2, <1>3, <2>1, <3>1 DEF MyProperty
    <3>2. CASE p # f
      BY <1>2, <1>3, <2>1, <3>2 DEF MyProperty
    <3> QED
      BY <3>1, <3>2
  <2>3. ~MyProperty(dst, w, f)
    <3> SUFFICES ASSUME MyProperty(dst, w, f) PROVE FALSE
      OBVIOUS
    <3>1. PICK t \in Names, u \in Names : t = prop.name /\ u = dst.props[f].name
      BY <1>1 DEF Placed, Property
    <3>2. u = w.n /\ <<t, u>> \in Prefix /\ dst.props[f].sec = at
      BY <1>5, <3>1 DEF FoundProperty, Clear, Meant
    <3>3. Related(w.m, t)
      BY <3>1, <3>2, NameMeets
    <3> QED
      BY <3>1, <3>2, <3>3 DEF MyProperty
  <2>4. ASSUME NEW p, MyProperty(r, w, p) PROVE p \in 1..n /\ r.props[p] = dst.props[p] /\ MyProperty(dst, w, p)
    BY <1>2, <2>1, <2>2, <2>3, <2>4 DEF MyProperty
  <2>5. Meant(r, w)
    BY <1>2, <1>3, <2>4 DEF Meant, Clear
  <2>6. Single(r, w)
    BY <1>2, <1>3, <2>4 DEF Single, Clear
  <2>7. Holds(r, w, v)
    <3>1. CASE v = Missing /\ \A p \in 1..Len(dst.props) : ~MyProperty(dst, w, p)
      BY <1>2, <2>4, <3>1 DEF Holds
    <3>2. ASSUME NEW p \in 1..Len(dst.props), MyProperty(dst, w, p), v = dst.props[p].val
          PROVE  Holds(r, w, v)
      <4>1. MyProperty(r, w, p)
        BY <2>2, <3>2
      <4>2. r.props[p].val = v /\ p \in 1..Len(r.props)
        BY <2>4, <3>2, <4>1 DEF MyProperty
      <4> QED
        BY <4>1, <4>2 DEF Holds
    <3> QED
      BY <3>1, <3>2 DEF Holds
  <2> QED
    BY <2>5, <2>6, <2>7 DEF Clear
<1> QED
  BY <1>4, <1>5 DEF CatsProperty

(* Merging one that could be replaces what is held, without a freed value,  *)
(* as long values do not give way to short ones.                            *)
LEMMA CatPropertyMine ==
  ASSUME NEW dst \in IniFiles, NEW w \in Wanted, Clear(dst, w),
         NEW at \in 1..Len(dst.sections), NEW prop \in Property,
         Meets(w, dst.sections[at]), Suits(w, prop),
         NEW r, CatsProperty(r, dst, at, prop)
  PROVE  Clear(r, w) /\ Holds(r, w, prop.val)
<1>1. Placed(dst)
  BY DEF IniFiles
<1>2. PICK n \in Nat : n = Len(dst.props)
  BY <1>1 DEF Placed
<1>3. r.sections = dst.sections
  BY CatPropertyType
<1>4. prop.name = w.n /\ w.n \in Names /\ (prop.val \in Long <=> w.long)
  BY DEF Suits, Wanted
<1>5. ASSUME NEW p \in 1..n, MyProperty(dst, w, p) PROVE FoundProperty(dst, at, prop.name, p)
  <2>1. dst.props[p].sec \in 1..Len(dst.sections) /\ Meets(w, dst.sections[dst.props[p].sec])
    BY <1>1, <1>2, <1>5 DEF Placed, MyProperty
  <2>2. dst.props[p].sec = at
    BY <2>1 DEF Single, Clear
  <2>3. dst.props[p].name = w.n
    BY <1>2, <1>5 DEF Meant, Clear
  <2>4. <<w.n, w.n>> \in Prefix
    BY <1>4, NamesAssumption
  <2> QED
    BY <1>2, <1>4, <2>2, <2>3, <2>4 DEF FoundProperty
<1>6. CASE /\ NoProperty(dst, at, prop.name)
           /\ Adds(r, dst, [sec |-> at, name |-> prop.name, val |-> prop.val, freed |-> FALSE])
  <2>1. Len(r.props) = n + 1 /\ \A p \in 1..n : r.props[p] = dst.props[p]
    BY <1>2, <1>6 DEF Adds
  <2>2. r.props[n + 1] = [sec |-> at, name |-> prop.name, val |-> prop.val, freed |-> FALSE]
    BY <1>2, <1>6 DEF Adds
  <2>3. ASSUME NEW p, MyProperty(r, w, p) PROVE p = n + 1
    <3>1. p \in 1..n + 1
      BY <2>1, <2>3 DEF MyProperty
    <3>2. p \notin 1..n
      <4> SUFFICES ASSUME p \in 1..n PROVE FALSE
        OBVIOUS
      <4>1. MyProperty(dst, w, p)
        BY <1>2, <1>3, <2>1, <2>3 DEF MyProperty
      <4> QED
        BY <1>2, <1>5, <1>6, <4>1 DEF NoProperty
    <3> QED
      BY <3>1, <3>2
  <2>4. MyProperty(r, w, n + 1)
    <3>1. Related(w.m, w.n)
      BY <1>4, NameMeets
    <3>2. n + 1 \in 1..n + 1
      OBVIOUS
    <3> QED
      BY <1>3, <1>4, <2>1, <2>2, <3>1, <3>2 DEF MyProperty
  <2>5. Meant(r, w)
    BY <1>3, <1>4, <2>2, <2>3 DEF Meant, Clear
  <2>6. Single(r, w)
    BY <1>3, <2>3 DEF Single, Clear
  <2>7. Holds(r, w, prop.val)
    BY <2>2, <2>4 DEF Holds, MyProperty
  <2> QED
    BY <2>5, <2>6, <2>7 DEF Clear
<1>7. ASSUME NEW f \in 1..Len(dst.props), FoundProperty(dst, at, prop.name, f), Sets(r, dst, f, prop.val)
      PROVE  Clear(r, w) /\ Holds(r, w, prop.val)
  <2>1. /\ Len(r.props) = n /\ \A p \in 1..n : p # f => r.props[p] = dst.props[p]
        /\ r.props[f].sec = dst.props[f].sec /\ r.props[f].name = dst.props[f].name
    BY <1>2, <1>7 DEF Sets
  <2>2. ASSUME NEW p PROVE MyProperty(r, w, p) <=> MyProperty(dst, w, p)
    <3>1. CASE p = f
      BY <1>2, <1>3, <2>1, <3>1 DEF MyProperty
    <3>2. CASE p # f
      BY <1>2, <1>3, <2>1, <3>2 DEF MyProperty
    <3> QED
      BY <3>1, <3>2
  <2>3. MyProperty(dst, w, f)
    <3>1. PICK u \in Names : u = dst.props[f].name
      BY <1>1 DEF Placed, Property
    <3>2. <<w.n, u>> \in Prefix /\ dst.props[f].sec = at
      BY <1>4, <1>7, <3>1 DEF FoundProperty
    <3>3. Related(w.m, u)
      BY <3>2, NameMeets
    <3> QED
      BY <3>1, <3>2, <3>3 DEF MyProperty
  <2>4. ASSUME NEW p, MyProperty(r, w, p) PROVE p = f
    BY <2>2, <2>3, <2>4 DEF Clear, Single, MyProperty
  <2>5. r.props[f].name = w.n /\ r.props[f].val = prop.val /\ ~r.props[f].freed
    <3>1. dst.props[f].name = w.n /\ ~dst.props[f].freed /\ (dst.props[f].val \in Long <=> w.long)
      BY <2>3 DEF Clear, Meant
    <3> QED
      BY <1>4, <1>7, <3>1 DEF Sets
  <2>6. Meant(r, w)
    BY <1>3, <1>4, <2>4, <2>5 DEF Meant, Clear
  <2>7. Single(r, w)
    BY <1>3, <2>4 DEF Single, Clear
  <2>8. Holds(r, w, prop.val)
    <3>1. MyProperty(r, w, f)
      BY <2>2, <2>3
    <3> QED
      BY <2>5, <3>1 DEF Holds, MyProperty
  <2> QED
    BY <2>6, <2>7, <2>8 DEF Clear
<1> QED
  BY <1>6, <1>7 DEF CatsProperty

(* A section's properties go where the key's would, exactly if they could   *)
(* be the key's.                                                            *)
LEMMA IntoIs ==
  ASSUME NEW dst \in IniFiles, NEW src \in IniFiles, NEW w \in Wanted, Clear(dst, w), Meant(src, w),
         NEW v, Holds(dst, w, v), NEW s \in 1..Len(src.sections),
         NEW into, NEW at, CatsInto(dst, src.sections[s], into, at)
  PROVE  /\ Clear(into, w) /\ Holds(into, w, v)
         /\ Meets(w, src.sections[s]) <=> Meets(w, into.sections[at])
<1>1. Placed(dst) /\ into \in IniFiles /\ Placed(into) /\ at \in 1..Len(into.sections)
  BY DEF IniFiles, CatsInto
<1>2. PICK S \in Names : S = src.sections[s]
  BY DEF IniFiles, Placed
<1>3. PICK T \in Names : T = into.sections[at]
  BY <1>1 DEF Placed
<1>4. Meets(w, S) => S = w.s
  BY <1>2 DEF Meant
<1>5. CASE NoSection(dst, S) /\ OpensSection(into, dst, S) /\ at = Len(into.sections)
  <2>1. PICK n \in Nat : n = Len(dst.sections)
    BY <1>1 DEF Placed
  <2>2. /\ Len(into.sections) = n + 1 /\ into.sections[n + 1] = S /\ T = S /\ into.props = dst.props
        /\ \A a \in 1..n : into.sections[a] = dst.sections[a]
    BY <1>3, <1>5, <2>1 DEF OpensSection
  <2>3. ASSUME NEW p PROVE MyProperty(into, w, p) <=> MyProperty(dst, w, p)
    BY <1>1, <2>1, <2>2 DEF MyProperty, Placed
  <2>4. ASSUME NEW a \in 1..n + 1 PROVE a \in 1..n \/ a = n + 1
    OBVIOUS
  <2>5. ~(Meets(w, S) /\ \E a \in 1..n : Meets(w, dst.sections[a]))
    <3> SUFFICES ASSUME Meets(w, S), NEW a \in 1..n, Meets(w, dst.sections[a]) PROVE FALSE
      OBVIOUS
    <3>1. dst.sections[a] = S
      BY <1>4, <2>1 DEF Clear, Meant
    <3>2. <<S, S>> \in Prefix
      BY NamesAssumption
    <3> QED
      BY <1>5, <2>1, <3>1, <3>2 DEF NoSection
  <2>6. Meant(into, w)
    <3>1. \A a \in 1..n + 1 : Meets(w, into.sections[a]) => into.sections[a] = w.s
      BY <1>4, <2>1, <2>2, <2>4 DEF Clear, Meant
    <3> QED
      BY <2>2, <2>3, <3>1 DEF Clear, Meant
  <2>7. Single(into, w)
    <3>1. ASSUME NEW a \in 1..n + 1, NEW d \in 1..n + 1, Meets(w, into.sections[a]), Meets(w, into.sections[d])
          PROVE  a = d
      BY <2>1, <2>2, <2>4, <2>5, <3>1 DEF Clear, Single
    <3> QED
      BY <2>2, <2>3, <3>1 DEF Clear, Single
  <2>8. Holds(into, w, v)
    BY <2>2, <2>3 DEF Holds
  <2> QED
    BY <1>2, <1>3, <2>2, <2>6, <2>7, <2>8 DEF Clear
<1>6. CASE FoundSection(dst, S, at) /\ into = dst
  <2>1. <<S, T>> \in Prefix /\ (S = Global => T = Global) /\ (T = Global => S = Global)
    BY <1>1, <1>3, <1>6, NamesAssumption DEF FoundSection, Placed
  <2>2. Meets(w, S) => Meets(w, T)
    BY <1>4, <2>1, MeetsIs
  <2>3. Meets(w, T) => T = w.s
    BY <1>1, <1>3, <1>6 DEF Clear, Meant
  <2>4. Meets(w, T) => Meets(w, S)
    BY <2>1, <2>3, MeetsIs
  <2> QED
    BY <1>2, <1>3, <1>6, <2>2, <2>4
<1> QED
  BY <1>2, <1>5, <1>6 DEF CatsInto

(* v is the value of the last of the properties V, and old if there is none. *)
Latest(src, V, old, v) ==
  \/ V = {} /\ v = old
  \/ \E m \in V : (\A q \in V : q <= m) /\ v = src.props[m].val

MineIn(src, w, s, n) == {q \in 1..n : MyProperty(src, w, q) /\ src.props[q].sec = s}

(* After a section's properties, the last of them that could be the key's is*)
(* held.                                                                    *)
LEMMA CatSectionWins ==
  ASSUME NEW dst \in IniFiles, NEW src \in IniFiles, NEW w \in Wanted, Clear(dst, w), Meant(src, w),
         NEW old, Holds(dst, w, old), NEW s \in 1..Len(src.sections), NEW r, CatsSection(r, dst, src, s)
  PROVE  Clear(r, w) /\ \E v : Holds(r, w, v) /\ Latest(src, MineIn(src, w, s, Len(src.props)), old, v)
<1>1. PICK into, at, c :
        /\ CatsInto(dst, src.sections[s], into, at)
        /\ c[0] = into
        /\ \A p \in 0..Len(src.props) : c[p] \in IniFiles /\ c[p].sections = into.sections
        /\ \A p \in 1..Len(src.props) :
             IF src.props[p].sec = s THEN CatsProperty(c[p], c[p - 1], at, src.props[p]) ELSE c[p] = c[p - 1]
        /\ r = c[Len(src.props)]
  BY DEF CatsSection
<1>2. PICK n \in Nat : n = Len(src.props)
  BY DEF IniFiles, Placed
<1>3. at \in 1..Len(into.sections)
  BY <1>1 DEF CatsInto
<1>4. /\ Clear(into, w) /\ Holds(into, w, old)
      /\ Meets(w, src.sections[s]) <=> Meets(w, into.sections[at])
  <2>1. CatsInto(dst, src.sections[s], into, at)
    BY <1>1
  <2> QED
    BY <2>1, IntoIs
<1> DEFINE V(p) == MineIn(src, w, s, p)
           P(p) == Clear(c[p], w) /\ \E v : Holds(c[p], w, v) /\ Latest(src, V(p), old, v)
           I == {p \in Nat : p <= n => P(p)}
<1>5. P(0)
  <2>1. V(0) = {}
    BY DEF MineIn
  <2>2. Latest(src, V(0), old, old)
    BY <2>1 DEF Latest
  <2> HIDE DEF V
  <2> QED
    BY <1>1, <1>4, <2>2
<1>6. ASSUME NEW q \in 1..n, P(q - 1) PROVE P(q)
  <2>1. PICK p \in 0..n : p = q - 1 /\ q = p + 1
    OBVIOUS
  <2>2. PICK x \in IniFiles : x = c[p] /\ x.sections = into.sections
    BY <1>1, <1>2
  <2>3. PICK prop \in Property : prop = src.props[q]
    BY <1>2 DEF IniFiles, Placed
  <2>4. PICK v : Clear(x, w) /\ Holds(x, w, v) /\ Latest(src, V(p), old, v)
    <3> HIDE DEF V
    <3> QED
      BY <1>6, <2>1, <2>2
  <2>5. at \in 1..Len(x.sections)
    BY <1>3, <2>2
  <2>6. MyProperty(src, w, q) /\ prop.sec = s <=> Meets(w, into.sections[at]) /\ Related(w.m, prop.name) /\ prop.sec = s
    BY <1>2, <1>4, <2>3 DEF MyProperty
  <2>7. CASE MyProperty(src, w, q) /\ prop.sec = s
    <3>1. CatsProperty(c[q], x, at, prop)
      BY <1>1, <1>2, <2>1, <2>2, <2>3, <2>7
    <3>2. Meets(w, x.sections[at]) /\ Suits(w, prop)
      BY <1>2, <2>2, <2>3, <2>6, <2>7 DEF Meant, Suits
    <3>3. Clear(c[q], w) /\ Holds(c[q], w, prop.val)
      BY <2>4, <2>5, <3>1, <3>2, CatPropertyMine
    <3>4. q \in V(q) /\ \A y \in V(q) : y <= q
      BY <2>3, <2>7 DEF MineIn
    <3>5. Latest(src, V(q), old, prop.val)
      <4> HIDE DEF V
      <4> QED
        BY <2>3, <3>4 DEF Latest
    <3> HIDE DEF V
    <3> QED
      BY <3>3, <3>5
  <2>8. CASE ~(MyProperty(src, w, q) /\ prop.sec = s)
    <3>1. V(q) = V(p)
      <4>1. \A y \in 1..q : y \in 1..p \/ y = q
        BY <2>1
      <4>2. \A y \in 1..p : y \in 1..q
        BY <2>1
      <4>3. q \notin V(q)
        BY <2>3, <2>8 DEF MineIn
      <4> QED
        BY <4>1, <4>2, <4>3 DEF MineIn
    <3>2. Clear(c[q], w) /\ Holds(c[q], w, v)
      <4>1. CASE prop.sec = s
        <5>1. CatsProperty(c[q], x, at, prop)
          BY <1>1, <1>2, <2>1, <2>2, <2>3, <4>1
        <5>2. ~(Meets(w, x.sections[at]) /\ Related(w.m, prop.name))
          BY <2>2, <2>6, <2>8, <4>1
        <5> QED
          BY <2>4, <2>5, <5>1, <5>2, CatPropertyOther
      <4>2. CASE prop.sec # s
        <5>1. c[q] = x
          BY <1>1, <1>2, <2>1, <2>2, <2>3, <4>2
        <5> QED
          BY <2>4, <5>1
      <4> QED
        BY <4>1, <4>2
    <3> HIDE DEF V
    <3> QED
      BY <2>4, <3>1, <3>2
  <2> HIDE DEF P
  <2> QED
    BY <2>7, <2>8
<1> HIDE DEF P
<1>7. 0 \in I
  BY <1>5
<1>8. ASSUME NEW p \in Nat, p \in I PROVE p + 1 \in I
  <2> SUFFICES ASSUME p + 1 <= n PROVE P(p + 1)
    OBVIOUS
  <2>1. PICK q \in 1..n : q = p + 1 /\ q - 1 = p
    OBVIOUS
  <2>2. P(q - 1)
    BY <1>8, <2>1
  <2> QED
    BY <1>6, <2>1, <2>2
<1> HIDE DEF I
<1>9. n \in I
  BY <1>7, <1>8, Induction
<1>10. P(n)
  BY <1>9 DEF I
<1> QED
  BY <1>1, <1>2, <1>10 DEF P

(* The properties of a file are kept section by section. *)
Ordered(x) == \A p \in 1..Len(x.props) : \A q \in 1..Len(x.props) : p < q => x.props[p].sec <= x.props[q].sec

MineUpto(src, w, s) == {q \in 1..Len(src.props) : MyProperty(src, w, q) /\ src.props[q].sec <= s}

(* Sections are merged one after the other, and their properties are kept in*)
(* that order.                                                              *)
LEMMA LatestNext ==
  ASSUME NEW src \in IniFiles, Ordered(src), NEW w, NEW s \in Nat, NEW old, NEW v, NEW u,
         Latest(src, MineUpto(src, w, s), old, v), Latest(src, MineIn(src, w, s + 1, Len(src.props)), v, u)
  PROVE  Latest(src, MineUpto(src, w, s + 1), old, u)
<1>1. PICK t \in Nat : t = s + 1
  OBVIOUS
<1>2. PICK n \in Nat : n = Len(src.props)
  BY DEF IniFiles, Placed
<1>3. PICK A : A = MineUpto(src, w, s)
  OBVIOUS
<1>4. PICK B : B = MineIn(src, w, t, n)
  OBVIOUS
<1>5. PICK C : C = MineUpto(src, w, t)
  OBVIOUS
<1>6. \A q \in 1..n : src.props[q].sec \in Nat
  BY <1>2 DEF IniFiles, Placed, Property
<1>7. C = A \cup B
  BY <1>1, <1>2, <1>3, <1>4, <1>5, <1>6 DEF MineUpto, MineIn
<1>8. Latest(src, A, old, v) /\ Latest(src, B, v, u)
  BY <1>1, <1>2, <1>3, <1>4
<1>9. \A p \in A, q \in B : p <= q
  <2> SUFFICES ASSUME NEW p \in A, NEW q \in B, ~(p <= q) PROVE FALSE
    OBVIOUS
  <2>1. p \in 1..n /\ q \in 1..n /\ src.props[p].sec <= s /\ src.props[q].sec = t
    BY <1>2, <1>3, <1>4 DEF MineUpto, MineIn
  <2>2. q < p
    BY <2>1
  <2>3. src.props[q].sec <= src.props[p].sec
    BY <1>2, <2>1, <2>2 DEF Ordered
  <2> QED
    BY <1>1, <1>6, <2>1, <2>3
<1>10. Latest(src, C, old, u)
  <2>1. CASE B = {}
    BY <1>7, <1>8, <2>1 DEF Latest
  <2>2. CASE B # {}
    BY <1>7, <1>8, <1>9, <2>2 DEF Latest
  <2> QED
    BY <2>1, <2>2
<1> QED
  BY <1>1, <1>5, <1>10

Mine(src, w) == {q \in 1..Len(src.props) : MyProperty(src, w, q)}

(* After an ini, the last of its properties that could be the key's is held,*)
(* and what was there before if there is none.                              *)
LEMMA CatWins ==
  ASSUME NEW dst \in IniFiles, NEW src \in IniFiles, NEW w \in Wanted, Clear(dst, w), Meant(src, w), Ordered(src),
         NEW old, Holds(dst, w, old)
  PROVE  Clear(Cat(dst, src), w) /\ \E v : Holds(Cat(dst, src), w, v) /\ Latest(src, Mine(src, w), old, v)
<1>1. PICK c : /\ c[0] = dst /\ \A s \in 0..Len(src.sections) : c[s] \in IniFiles
               /\ \A s \in 1..Len(src.sections) : CatsSection(c[s], c[s - 1], src, s)
               /\ Cat(dst, src) = c[Len(src.sections)]
  BY CatIs DEF Cats
<1>2. PICK n \in Nat : n = Len(src.sections)
  BY DEF IniFiles, Placed
<1> DEFINE P(s) == Clear(c[s], w) /\ \E v : Holds(c[s], w, v) /\ Latest(src, MineUpto(src, w, s), old, v)
           I == {s \in Nat : s <= n => P(s)}
<1>3. P(0)
  <2>1. \A q \in 1..Len(src.props) : src.props[q].sec \in 1..n
    BY <1>2 DEF IniFiles, Placed
  <2>2. MineUpto(src, w, 0) = {}
    BY <2>1 DEF MineUpto
  <2>3. Latest(src, MineUpto(src, w, 0), old, old)
    BY <2>2 DEF Latest
  <2> QED
    BY <1>1, <2>3
<1>4. ASSUME NEW q \in 1..n, P(q - 1) PROVE P(q)
  <2>1. PICK s \in 0..n : s = q - 1 /\ q = s + 1 /\ s \in Nat
    OBVIOUS
  <2>2. PICK x \in IniFiles : x = c[s]
    BY <1>1, <1>2
  <2>3. PICK v : Clear(x, w) /\ Holds(x, w, v) /\ Latest(src, MineUpto(src, w, s), old, v)
    BY <1>4, <2>1, <2>2
  <2>4. CatsSection(c[q], x, src, q)
    BY <1>1, <1>2, <2>1, <2>2
  <2>5. Clear(c[q], w) /\ \E u : Holds(c[q], w, u) /\ Latest(src, MineIn(src, w, q, Len(src.props)), v, u)
    BY <1>2, <2>3, <2>4, CatSectionWins
  <2>6. PICK u : Holds(c[q], w, u) /\ Latest(src, MineIn(src, w, q, Len(src.props)), v, u)
    BY <2>5
  <2>7. Latest(src, MineIn(src, w, s + 1, Len(src.props)), v, u)
    BY <2>1, <2>6
  <2>8. Latest(src, MineUpto(src, w, s + 1), old, u)
    BY <2>1, <2>3, <2>7, LatestNext
  <2>9. Latest(src, MineUpto(src, w, q), old, u)
    BY <2>1, <2>8
  <2> QED
    BY <2>5, <2>6, <2>9
<1> HIDE DEF P
<1>5. 0 \in I
  BY <1>3
<1>6. ASSUME NEW p \in Nat, p \in I PROVE p + 1 \in I
  <2> SUFFICES ASSUME p + 1 <= n PROVE P(p + 1)
    OBVIOUS
  <2>1. PICK q \in 1..n : q = p + 1 /\ q - 1 = p
    OBVIOUS
  <2>2. P(q - 1)
    BY <1>6, <2>1
  <2> QED
    BY <1>4, <2>1, <2>2
<1> HIDE DEF I
<1>7. n \in I
  BY <1>5, <1>6, Induction
<1>8. P(n)
  BY <1>7 DEF I
<1>9. MineUpto(src, w, n) = Mine(src, w)
  <2>1. \A q \in 1..Len(src.props) : src.props[q].sec \in 1..n
    BY <1>2 DEF IniFiles, Placed
  <2>2. \A q \in 1..Len(src.props) : src.props[q].sec <= n
    BY <2>1
  <2> QED
    BY <2>2 DEF MineUpto, Mine
<1> QED
  BY <1>1, <1>2, <1>8, <1>9 DEF P

(* A file in which the key is plainly written, and one that has it once *)
MyHeader(file, w, j) == j \in 1..Len(file) /\ file[j].header /\ Meets(w, file[j].name)
MyLine(file, w, j) ==
  j \in 1..Len(file) /\ ~file[j].header /\ Meets(w, SectionAt(file, j)) /\ Related(w.m, file[j].name)
OnlyIn(file, w) ==
  /\ \A j \in 1..Len(file) : MyHeader(file, w, j) => file[j].name = w.s
  /\ \A j \in 1..Len(file) :
       MyLine(file, w, j) => file[j].name = w.n /\ file[j].val # Blank /\ (file[j].val \in Long <=> w.long)
OnceIn(file, w) ==
  /\ \A h \in 1..Len(file) : \A j \in 1..Len(file) : MyHeader(file, w, h) /\ MyHeader(file, w, j) => h = j
  /\ \A h \in 1..Len(file) : \A j \in 1..Len(file) : MyLine(file, w, h) /\ MyLine(file, w, j) => h = j

(* What Load has made of the first n lines *)
LastLine(x, file, w, n) ==
  \/ (\A p \in 1..Len(x.props) : ~MyProperty(x, w, p)) /\ \A j \in 1..n : ~MyLine(file, w, j)
  \/ \E p \in 1..Len(x.props) : \E j \in 1..n :
       /\ MyProperty(x, w, p) /\ \A q \in 1..Len(x.props) : MyProperty(x, w, q) => q <= p
       /\ MyLine(file, w, j) /\ \A h \in 1..n : MyLine(file, w, h) => h <= j
       /\ x.props[p].val = file[j].val
Opened(x, file, w, n) ==
  \A a \in 1..Len(x.sections) : Meets(w, x.sections[a]) => a = 1 \/ \E h \in 1..n : MyHeader(file, w, h)
ReadsUpto(x, file, w, n) ==
  /\ Meant(x, w) /\ Ordered(x) /\ LastLine(x, file, w, n) /\ Opened(x, file, w, n)
  /\ OnceIn(file, w) => Single(x, w)

(* A header opens no second section for the key in a file that has it once. *)
LEMMA ReadsHeader ==
  ASSUME NEW w \in Wanted, NEW file, FileIs(file), OnlyIn(file, w), NEW k \in 1..Len(file), file[k].header,
         NEW x \in IniFiles, ReadsUpto(x, file, w, k - 1),
         NEW z, OpensSection(z, x, file[k].name)
  PROVE  ReadsUpto(z, file, w, k)
<1>1. PICK i \in Nat : i = k - 1 /\ k = i + 1
  BY DEF FileIs
<1>2. PICK n \in Nat : n = Len(x.sections)
  BY DEF IniFiles, Placed
<1>3. PICK N \in Names : N = file[k].name /\ N # Global
  BY DEF FileIs, Line
<1>4. /\ Len(z.sections) = n + 1 /\ z.sections[n + 1] = N /\ z.props = x.props
      /\ \A a \in 1..n : z.sections[a] = x.sections[a]
  BY <1>2, <1>3 DEF OpensSection
<1>5. ASSUME NEW p PROVE MyProperty(z, w, p) <=> MyProperty(x, w, p)
  BY <1>2, <1>4 DEF MyProperty, IniFiles, Placed
<1>6. ASSUME NEW a \in 1..n + 1 PROVE a \in 1..n \/ a = n + 1
  OBVIOUS
<1>7. ASSUME NEW j \in 1..k PROVE j \in 1..i \/ j = k
  BY <1>1
<1>8. ReadsUpto(x, file, w, i)
  BY <1>1
<1>9. MyHeader(file, w, k) <=> Meets(w, N)
  BY <1>3 DEF MyHeader
<1>10. Meant(z, w)
  <2>1. Meets(w, N) => N = w.s
    BY <1>3, <1>9 DEF OnlyIn
  <2>2. \A a \in 1..n + 1 : Meets(w, z.sections[a]) => z.sections[a] = w.s
    BY <1>2, <1>4, <1>6, <1>8, <2>1 DEF ReadsUpto, Meant
  <2> QED
    BY <1>4, <1>5, <1>8, <2>2 DEF ReadsUpto, Meant
<1>11. Ordered(z)
  BY <1>4, <1>8 DEF ReadsUpto, Ordered
<1>12. LastLine(z, file, w, k)
  <2>1. ASSUME NEW j \in 1..k, MyLine(file, w, j) PROVE j \in 1..i
    BY <1>7, <2>1 DEF MyLine
  <2>2. LastLine(x, file, w, i) /\ \A j \in 1..i : j \in 1..k
    BY <1>1, <1>8 DEF ReadsUpto
  <2>3. CASE (\A p \in 1..Len(x.props) : ~MyProperty(x, w, p)) /\ \A j \in 1..i : ~MyLine(file, w, j)
    BY <1>4, <1>5, <2>1, <2>3 DEF LastLine
  <2>4. ASSUME NEW p \in 1..Len(x.props), NEW j \in 1..i,
               MyProperty(x, w, p) /\ \A q \in 1..Len(x.props) : MyProperty(x, w, q) => q <= p,
               MyLine(file, w, j) /\ \A h \in 1..i : MyLine(file, w, h) => h <= j,
               x.props[p].val = file[j].val
        PROVE  LastLine(z, file, w, k)
    <3>1. MyProperty(z, w, p) /\ p \in 1..Len(z.props) /\ z.props[p].val = file[j].val
      BY <1>4, <1>5, <2>4
    <3>2. \A q \in 1..Len(z.props) : MyProperty(z, w, q) => q <= p
      BY <1>4, <1>5, <2>4
    <3>3. j \in 1..k /\ \A h \in 1..k : MyLine(file, w, h) => h <= j
      BY <2>1, <2>2, <2>4
    <3> QED
      BY <2>4, <3>1, <3>2, <3>3 DEF LastLine
  <2> QED
    BY <2>2, <2>3, <2>4 DEF LastLine
<1>13. Opened(z, file, w, k)
  <2> SUFFICES ASSUME NEW a \in 1..n + 1, Meets(w, z.sections[a]), a # 1 PROVE \E h \in 1..k : MyHeader(file, w, h)
    BY <1>4 DEF Opened
  <2>1. CASE a \in 1..n
    <3>1. PICK h \in 1..i : MyHeader(file, w, h)
      BY <1>2, <1>4, <1>8, <2>1 DEF ReadsUpto, Opened
    <3> QED
      BY <1>1, <3>1
  <2>2. CASE a = n + 1
    BY <1>4, <1>9, <2>2
  <2> QED
    BY <1>6, <2>1, <2>2
<1>14. ASSUME OnceIn(file, w) PROVE Single(z, w)
  <2>1. ASSUME Meets(w, N), NEW a \in 1..n, Meets(w, x.sections[a]) PROVE FALSE
    <3>1. CASE a = 1
      <4>1. w.k = Global
        BY <1>2, <2>1, <3>1, MeetsIs DEF IniFiles, Placed
      <4> QED
        BY <1>3, <2>1, <4>1 DEF Meets, RelatedSections
    <3>2. CASE a # 1
      <4>1. PICK h \in 1..i : MyHeader(file, w, h)
        BY <1>2, <1>8, <2>1, <3>2 DEF ReadsUpto, Opened
      <4>2. MyHeader(file, w, k) /\ h # k
        BY <1>1, <1>9, <2>1
      <4> QED
        BY <1>14, <4>1, <4>2 DEF OnceIn, MyHeader
    <3> QED
      BY <3>1, <3>2
  <2>2. Single(x, w)
    BY <1>8, <1>14 DEF ReadsUpto
  <2>3. ASSUME NEW a \in 1..n + 1, NEW d \in 1..n + 1, Meets(w, z.sections[a]), Meets(w, z.sections[d])
        PROVE  a = d
    BY <1>2, <1>4, <1>6, <2>1, <2>2, <2>3 DEF Single
  <2> QED
    BY <1>4, <1>5, <2>2, <2>3 DEF Single
<1> QED
  BY <1>10, <1>11, <1>12, <1>13, <1>14 DEF ReadsUpto

(* A line of the key becomes the last property that could be the key's; any *)
(* other line none that could.                                              *)
LEMMA ReadsEntry ==
  ASSUME NEW w \in Wanted, NEW file, FileIs(file), OnlyIn(file, w), NEW k \in 1..Len(file), ~file[k].header,
         NEW x \in IniFiles, ReadsUpto(x, file, w, k - 1), NEW at, at = Len(x.sections),
         NEW z, Adds(z, x, [sec |-> at, name |-> file[k].name, val |-> ValueOf(file[k].val), freed |-> FALSE]),
         x.sections[at] = SectionAt(file, k)
  PROVE  ReadsUpto(z, file, w, k)
<1>1. PICK i \in Nat : i = k - 1 /\ k = i + 1
  BY DEF FileIs
<1>2. PICK n \in Nat : n = Len(x.props)
  BY DEF IniFiles, Placed
<1>3. PICK new : new = n + 1
  OBVIOUS
<1>4. /\ Len(z.props) = new /\ z.sections = x.sections /\ \A p \in 1..n : z.props[p] = x.props[p]
      /\ z.props[new] = [sec |-> at, name |-> file[k].name, val |-> ValueOf(file[k].val), freed |-> FALSE]
  BY <1>2, <1>3 DEF Adds
<1>5. ASSUME NEW p \in 1..n PROVE MyProperty(z, w, p) <=> MyProperty(x, w, p)
  <2>1. z.props[p] = x.props[p] /\ z.sections = x.sections
    BY <1>4
  <2>2. p \in 1..Len(z.props) /\ p \in 1..Len(x.props)
    BY <1>2, <1>3, <1>4
  <2> QED
    BY <2>1, <2>2 DEF MyProperty
<1>6. new \in 1..new /\ new \in Nat /\ (\A p \in 1..new : p \in 1..n \/ p = new) /\ (\A p \in 1..n : p \in 1..new /\ p < new)
  BY <1>3
<1>7. ASSUME NEW j \in 1..k PROVE j \in 1..i \/ j = k
  BY <1>1
<1>8. ReadsUpto(x, file, w, i)
  BY <1>1
<1>9. MyProperty(z, w, new) <=> MyLine(file, w, k)
  BY <1>4, <1>6 DEF MyProperty, MyLine
<1>10. MyLine(file, w, k) =>
         file[k].name = w.n /\ ValueOf(file[k].val) = file[k].val /\ (file[k].val \in Long <=> w.long)
  BY DEF OnlyIn, ValueOf
<1>11. Meant(z, w)
  <2>1. ASSUME NEW p \in 1..new, MyProperty(z, w, p)
        PROVE  z.props[p].name = w.n /\ ~z.props[p].freed /\ (z.props[p].val \in Long <=> w.long)
    <3>1. CASE p \in 1..n
      BY <1>2, <1>4, <1>5, <1>8, <2>1, <3>1 DEF ReadsUpto, Meant
    <3>2. CASE p = new
      BY <1>4, <1>9, <1>10, <2>1, <3>2
    <3> QED
      BY <1>6, <3>1, <3>2
  <2> QED
    BY <1>4, <1>8, <2>1 DEF ReadsUpto, Meant
<1>12. Ordered(z)
  <2>1. at \in Nat /\ \A p \in 1..n : x.props[p].sec \in 1..at
    BY <1>2 DEF IniFiles, Placed
  <2>2. ASSUME NEW p \in 1..new, NEW q \in 1..new, p < q PROVE z.props[p].sec <= z.props[q].sec
    <3>1. p \in 1..n
      BY <1>3, <2>2
    <3>2. CASE q \in 1..n
      BY <1>2, <1>4, <1>8, <2>2, <3>1, <3>2 DEF ReadsUpto, Ordered
    <3>3. CASE q = new
      <4>1. z.props[p].sec \in 1..at
        BY <1>4, <2>1, <3>1
      <4>2. z.props[q].sec = at
        BY <1>4, <3>3
      <4> QED
        BY <2>1, <4>1, <4>2
    <3> QED
      BY <1>6, <3>2, <3>3
  <2> QED
    BY <1>4, <2>2 DEF Ordered
<1>13. LastLine(x, file, w, i) /\ \A j \in 1..i : j \in 1..k
  BY <1>1, <1>8 DEF ReadsUpto
<1>14. LastLine(z, file, w, k)
  <2>1. CASE MyLine(file, w, k)
    <3>1. MyProperty(z, w, new) /\ \A q \in 1..new : q <= new
      BY <1>6, <1>9, <2>1
    <3>2. \A h \in 1..k : h <= k
      OBVIOUS
    <3>3. z.props[new].val = file[k].val /\ k \in 1..k
      BY <1>4, <1>10, <2>1
    <3> QED
      BY <1>4, <1>6, <2>1, <3>1, <3>2, <3>3 DEF LastLine
  <2>2. CASE ~MyLine(file, w, k)
    <3>1. ASSUME NEW q \in 1..new, MyProperty(z, w, q) PROVE q \in 1..n /\ MyProperty(x, w, q)
      BY <1>5, <1>6, <1>9, <2>2, <3>1
    <3>2. ASSUME NEW j \in 1..k, MyLine(file, w, j) PROVE j \in 1..i
      BY <1>7, <2>2, <3>2
    <3>3. CASE (\A p \in 1..n : ~MyProperty(x, w, p)) /\ \A j \in 1..i : ~MyLine(file, w, j)
      BY <1>4, <3>1, <3>2, <3>3 DEF LastLine
    <3>4. ASSUME NEW p \in 1..n, NEW j \in 1..i,
                 MyProperty(x, w, p) /\ \A q \in 1..n : MyProperty(x, w, q) => q <= p,
                 MyLine(file, w, j) /\ \A h \in 1..i : MyLine(file, w, h) => h <= j,
                 x.props[p].val = file[j].val
          PROVE  LastLine(z, file, w, k)
      <4>1. MyProperty(z, w, p) /\ p \in 1..Len(z.props) /\ z.props[p].val = file[j].val
        BY <1>4, <1>5, <1>6, <3>4
      <4>2. \A q \in 1..Len(z.props) : MyProperty(z, w, q) => q <= p
        BY <1>4, <3>1, <3>4
      <4>3. j \in 1..k /\ \A h \in 1..k : MyLine(file, w, h) => h <= j
        BY <1>13, <3>2, <3>4
      <4> QED
        BY <3>4, <4>1, <4>2, <4>3 DEF LastLine
    <3> QED
      BY <1>2, <1>13, <3>3, <3>4 DEF LastLine
  <2> QED
    BY <2>1, <2>2
<1>15. Opened(z, file, w, k)
  BY <1>4, <1>8, <1>13 DEF ReadsUpto, Opened
<1>16. ASSUME OnceIn(file, w) PROVE Single(z, w)
  <2>1. Single(x, w)
    BY <1>8, <1>16 DEF ReadsUpto
  <2>2. ASSUME MyLine(file, w, k), NEW p \in 1..n, MyProperty(x, w, p) PROVE FALSE
    <3>1. PICK j \in 1..i : MyLine(file, w, j)
      BY <1>2, <1>13, <2>2 DEF LastLine
    <3>2. j # k /\ j \in 1..Len(file)
      BY <1>1, <3>1 DEF MyLine
    <3> QED
      BY <1>16, <2>2, <3>1, <3>2 DEF OnceIn
  <2>3. ASSUME NEW p \in 1..new, NEW q \in 1..new, MyProperty(z, w, p), MyProperty(z, w, q) PROVE p = q
    <3>1. CASE p \in 1..n /\ q \in 1..n
      BY <1>2, <1>5, <2>1, <2>3, <3>1 DEF Single
    <3>2. CASE p = new /\ q = new
      BY <3>2
    <3>3. CASE p \in 1..n /\ q = new
      BY <1>5, <1>9, <2>2, <2>3, <3>3
    <3>4. CASE p = new /\ q \in 1..n
      BY <1>5, <1>9, <2>2, <2>3, <3>4
    <3> QED
      BY <1>6, <3>1, <3>2, <3>3, <3>4
  <2> QED
    BY <1>4, <2>1, <2>3 DEF Single
<1> QED
  BY <1>11, <1>12, <1>14, <1>15, <1>16 DEF ReadsUpto

(* So after a file, the last line of the key is what the ini holds last. *)
LEMMA LoadWins ==
  ASSUME NEW w \in Wanted, NEW file, FileIs(file), OnlyIn(file, w)
  PROVE  Load(file) \in IniFiles /\ ReadsUpto(Load(file), file, w, Len(file))
<1>1. PICK g : LoadsFile(Load(file), file, g)
  BY LoadDoes
<1>2. PICK n \in Nat : n = Len(file)
  BY DEF FileIs
<1> DEFINE P(i) == ReadsUpto(g[i].ini, file, w, i)
           I == {i \in Nat : i <= n => P(i)}
<1>3. P(0)
  <2>1. PICK x : x = Create
    OBVIOUS
  <2>2. x.props = <<>> /\ Len(x.sections) = 1 /\ x.sections[1] = Global
    BY <2>1 DEF Create
  <2>3. Meets(w, Global) => Global = w.s
    <3>1. Meets(w, Global) <=> w.k = Global
      BY MeetsIs, NamesAssumption
    <3> QED
      BY <3>1 DEF Wanted
  <2>4. Meant(x, w) /\ Single(x, w)
    BY <2>2, <2>3 DEF Meant, Single
  <2>5. Ordered(x) /\ LastLine(x, file, w, 0) /\ Opened(x, file, w, 0)
    BY <2>2 DEF Ordered, LastLine, Opened
  <2>6. g[0].ini = x
    BY <1>1, <2>1 DEF LoadsFile, Begun
  <2> QED
    BY <2>4, <2>5, <2>6 DEF ReadsUpto
<1>4. ASSUME NEW k \in 1..n, P(k - 1) PROVE P(k)
  <2>1. PICK i \in 0..n : i = k - 1
    OBVIOUS
  <2>2. PICK y, z : y = g[i] /\ z = g[k]
    OBVIOUS
  <2>3. LoadsLine(z, y, file[k]) /\ y \in Loadings /\ y.ini.sections[y.at] = SectionAt(file, i)
    BY <1>1, <1>2, <2>1, <2>2 DEF LoadsFile
  <2>4. PICK x \in IniFiles : x = y.ini /\ y.at = Len(x.sections)
    BY <2>3 DEF Loadings
  <2>5. ReadsUpto(x, file, w, k - 1)
    BY <1>4, <2>1, <2>2, <2>4
  <2>6. CASE file[k].header
    <3>1. OpensSection(z.ini, x, file[k].name)
      BY <2>3, <2>4, <2>6 DEF LoadsLine
    <3> QED
      BY <1>2, <2>2, <2>5, <2>6, <3>1, ReadsHeader
  <2>7. CASE ~file[k].header
    <3>1. PICK at : at = y.at
      OBVIOUS
    <3>2. Adds(z.ini, x, [sec |-> at, name |-> file[k].name, val |-> ValueOf(file[k].val), freed |-> FALSE])
      BY <2>3, <2>4, <2>7, <3>1 DEF LoadsLine
    <3>3. SectionAt(file, k) = SectionAt(file, k - 1)
      BY <1>2, <2>7, SectionAtIs
    <3>4. x.sections[at] = SectionAt(file, k) /\ at = Len(x.sections)
      BY <2>1, <2>3, <2>4, <3>1, <3>3
    <3>5. ReadsUpto(z.ini, file, w, k)
      BY <1>2, <2>5, <2>7, <3>2, <3>4, ReadsEntry
    <3> QED
      BY <2>2, <3>5
  <2>8. file[k].header \in BOOLEAN
    BY <1>2 DEF FileIs, Line
  <2> QED
    BY <2>6, <2>7, <2>8
<1> HIDE DEF P
<1>5. 0 \in I
  BY <1>3
<1>6. ASSUME NEW p \in Nat, p \in I PROVE p + 1 \in I
  <2> SUFFICES ASSUME p + 1 <= n PROVE P(p + 1)
    OBVIOUS
  <2>1. PICK q \in 1..n : q = p + 1 /\ q - 1 = p
    OBVIOUS
  <2>2. P(q - 1)
    BY <1>6, <2>1
  <2> QED
    BY <1>4, <2>1, <2>2
<1> HIDE DEF I
<1>7. n \in I
  BY <1>5, <1>6, Induction
<1>8. P(n)
  BY <1>7 DEF I
<1> QED
  BY <1>1, <1>2, <1>8 DEF P, LoadsFile

-----------------------------------------------------------------------------
(* The files that were read, and what is made of them *)
Only(texts, w) ==
  (\A i \in 1..Len(texts) : OnlyIn(texts[i], w)) /\ (Len(texts) > 0 => OnceIn(texts[1], w))

LastWritten(texts, w, v) ==
  \/ v = Missing /\ \A i \in 1..Len(texts) : \A j \in 1..Len(texts[i]) : ~MyLine(texts[i], w, j)
  \/ \E i \in 1..Len(texts) : \E j \in 1..Len(texts[i]) :
       /\ MyLine(texts[i], w, j) /\ \A h \in 1..Len(texts[i]) : MyLine(texts[i], w, h) => h <= j
       /\ \A l \in 1..Len(texts) : (\E h \in 1..Len(texts[l]) : MyLine(texts[l], w, h)) => l <= i
       /\ v = texts[i][j].val

Wins(x, texts, w) == Clear(x, w) /\ \E v : Holds(x, w, v) /\ LastWritten(texts, w, v)

(* The files, the ini that was read from them, and where a key stands there *)
ReadFrom(x, texts) ==
  /\ Files(texts) /\ x \in IniFiles /\ Origins(x, texts)
  /\ \A w \in Wanted : Only(texts, w) => Wins(x, texts, w)

(* config.ini, or the empty one if it cannot be read *)
LEMMA FirstRead ==
  ASSUME NEW file \in Seq(FileLines)
  PROVE  ReadFrom(Load(file), <<file>>)
<1>0. FileIs(file)
  BY LinesAre
<1>1. PICK texts : texts = <<file>>
  OBVIOUS
<1>2. Len(texts) = 1 /\ DOMAIN texts = 1..1 /\ texts[1] = file /\ \A i \in 1..1 : i = 1
  BY <1>1
<1>3. Files(texts)
  BY <1>0, <1>1, <1>2 DEF Files
<1>4. PICK x : x = Load(file)
  OBVIOUS
<1>5. x \in IniFiles
  BY <1>0, <1>4, LoadDoes DEF LoadsFile
<1>6. Origins(x, texts)
  BY <1>0, <1>2, <1>4, LoadOriginates DEF Originates, Origins, InFiles
<1>7. ASSUME NEW w \in Wanted, Only(texts, w) PROVE Wins(x, texts, w)
  <2>1. OnlyIn(file, w) /\ OnceIn(file, w)
    BY <1>2, <1>7 DEF Only
  <2>2. ReadsUpto(x, file, w, Len(file))
    BY <1>0, <1>4, <2>1, LoadWins
  <2>3. Clear(x, w) /\ LastLine(x, file, w, Len(file))
    BY <2>1, <2>2 DEF ReadsUpto, Clear
  <2>4. CASE /\ \A p \in 1..Len(x.props) : ~MyProperty(x, w, p)
             /\ \A j \in 1..Len(file) : ~MyLine(file, w, j)
    <3>1. Holds(x, w, Missing) /\ LastWritten(texts, w, Missing)
      BY <1>2, <2>4 DEF Holds, LastWritten
    <3> QED
      BY <2>3, <3>1 DEF Wins
  <2>5. ASSUME NEW p \in 1..Len(x.props), NEW j \in 1..Len(file), MyProperty(x, w, p), MyLine(file, w, j),
               \A h \in 1..Len(file) : MyLine(file, w, h) => h <= j, x.props[p].val = file[j].val
        PROVE  Wins(x, texts, w)
    <3>1. Holds(x, w, file[j].val)
      BY <2>5 DEF Holds
    <3>2. LastWritten(texts, w, file[j].val)
      <4>1. \A l \in 1..Len(texts) : l <= 1
        BY <1>2
      <4>2. 1 \in 1..Len(texts)
        BY <1>2
      <4> QED
        BY <1>2, <2>5, <4>1, <4>2 DEF LastWritten
    <3> QED
      BY <2>3, <3>1, <3>2 DEF Wins
  <2> QED
    BY <2>3, <2>4, <2>5 DEF LastLine
<1> QED
  BY <1>1, <1>3, <1>4, <1>5, <1>6, <1>7 DEF ReadFrom

(* A snippet is merged into what the files before it have left. *)
LEMMA NextRead ==
  ASSUME NEW x, NEW texts, ReadFrom(x, texts), Len(texts) > 0, NEW file \in Seq(FileLines)
  PROVE  ReadFrom(Cat(x, Load(file)), Append(texts, file))
<1>0. FileIs(file)
  BY LinesAre
<1>1. PICK n \in Nat : n = Len(texts)
  BY DEF ReadFrom, Files
<1>2. PICK more : more = Append(texts, file)
  OBVIOUS
<1>3. /\ Len(more) = n + 1 /\ DOMAIN more = 1..Len(more) /\ more[n + 1] = file
      /\ \A i \in 1..n : more[i] = texts[i]
  <2>1. texts \in Seq(Seq(FileLines))
    BY DEF ReadFrom, Files
  <2> QED
    BY <1>1, <1>2, <2>1, AppendProperties
<1>4. ASSUME NEW i \in 1..n + 1 PROVE i \in 1..n \/ i = n + 1
  OBVIOUS
<1>5. Files(more)
  <2>1. more \in Seq(Seq(FileLines))
    BY <1>2, AppendProperties DEF ReadFrom, Files
  <2>2. \A i \in 1..n : FileIs(texts[i])
    BY <1>1 DEF ReadFrom, Files
  <2>3. \A i \in 1..n + 1 : FileIs(more[i])
    BY <1>0, <1>3, <1>4, <2>2
  <2> QED
    BY <1>1, <1>3, <2>1, <2>3 DEF Files
<1>6. PICK src : src = Load(file)
  OBVIOUS
<1>7. src \in IniFiles
  BY <1>0, <1>6, LoadDoes DEF LoadsFile
<1>8. x \in IniFiles /\ Origins(x, texts)
  BY DEF ReadFrom
<1>9. PICK r \in IniFiles : r = Cat(x, src)
  BY <1>7, <1>8, CatIs
<1>10. Origins(r, more)
  <2>1. Origins(x, more)
    BY <1>1, <1>3, <1>8 DEF Origins, InFiles
  <2>2. Origins(src, more)
    BY <1>0, <1>1, <1>3, <1>6, LoadOriginates DEF Originates, Origins, InFiles
  <2> QED
    BY <1>5, <1>7, <1>8, <1>9, <2>1, <2>2, CatOrigins
<1>11. ASSUME NEW w \in Wanted, Only(more, w) PROVE Wins(r, more, w)
  <2>1. Only(texts, w) /\ OnlyIn(file, w)
    BY <1>1, <1>3, <1>11 DEF Only
  <2>2. PICK old : Clear(x, w) /\ Holds(x, w, old) /\ LastWritten(texts, w, old)
    BY <2>1 DEF ReadFrom, Wins
  <2>3. ReadsUpto(src, file, w, Len(file))
    BY <1>0, <1>6, <2>1, LoadWins
  <2>4. Meant(src, w) /\ Ordered(src) /\ LastLine(src, file, w, Len(file))
    BY <2>3 DEF ReadsUpto
  <2>5. Clear(Cat(x, src), w) /\ \E v : Holds(Cat(x, src), w, v) /\ Latest(src, Mine(src, w), old, v)
    BY <1>7, <1>8, <2>2, <2>4, CatWins
  <2>6. PICK v : Clear(r, w) /\ Holds(r, w, v) /\ Latest(src, Mine(src, w), old, v)
    BY <1>9, <2>5
  <2>7. LastWritten(more, w, v)
    <3>1. CASE /\ \A p \in 1..Len(src.props) : ~MyProperty(src, w, p)
               /\ \A j \in 1..Len(file) : ~MyLine(file, w, j)
      <4>1. v = old
        BY <2>6, <3>1 DEF Latest, Mine
      <4>2. CASE v = Missing /\ \A i \in 1..n : \A j \in 1..Len(texts[i]) : ~MyLine(texts[i], w, j)
        BY <1>3, <1>4, <3>1, <4>2 DEF LastWritten
      <4>3. ASSUME NEW i \in 1..n, NEW j \in 1..Len(texts[i]), MyLine(texts[i], w, j),
                   \A h \in 1..Len(texts[i]) : MyLine(texts[i], w, h) => h <= j,
                   \A l \in 1..n : (\E h \in 1..Len(texts[l]) : MyLine(texts[l], w, h)) => l <= i,
                   v = texts[i][j].val
            PROVE  LastWritten(more, w, v)
        <5>1. i \in 1..n + 1 /\ more[i] = texts[i]
          BY <1>3
        <5>2. ASSUME NEW l \in 1..n + 1, NEW h \in 1..Len(more[l]), MyLine(more[l], w, h) PROVE l <= i
          BY <1>3, <1>4, <3>1, <4>3, <5>2
        <5> QED
          BY <1>3, <4>3, <5>1, <5>2 DEF LastWritten
      <4> QED
        BY <1>1, <2>2, <4>1, <4>2, <4>3 DEF LastWritten
    <3>2. ASSUME NEW p \in 1..Len(src.props), NEW j \in 1..Len(file),
                 MyProperty(src, w, p), \A q \in 1..Len(src.props) : MyProperty(src, w, q) => q <= p,
                 MyLine(file, w, j), \A h \in 1..Len(file) : MyLine(file, w, h) => h <= j,
                 src.props[p].val = file[j].val
          PROVE  LastWritten(more, w, v)
      <4>1. PICK m \in Mine(src, w) : (\A q \in Mine(src, w) : q <= m) /\ v = src.props[m].val
        BY <2>6, <3>2 DEF Latest, Mine
      <4>2. m = p
        <5>1. m \in 1..Len(src.props) /\ m <= p /\ p <= m
          BY <3>2, <4>1 DEF Mine
        <5> QED
          BY <5>1
      <4>3. v = more[n + 1][j].val /\ \A l \in 1..n + 1 : l <= n + 1
        BY <1>3, <3>2, <4>1, <4>2
      <4>4. n + 1 \in 1..Len(more)
        BY <1>3
      <4> QED
        BY <1>3, <3>2, <4>3, <4>4 DEF LastWritten
    <3> QED
      BY <2>4, <3>1, <3>2 DEF LastLine
  <2> QED
    BY <2>6, <2>7 DEF Wins
<1> QED
  BY <1>2, <1>5, <1>6, <1>9, <1>10, <1>11 DEF ReadFrom

(* An empty file is loaded as a new ini. *)
LEMMA NothingRead == Load(<<>>) = Create /\ FileIs(<<>>)
<1>1. FileIs(<<>>) /\ Len(<<>>) = 0
  BY DEF FileIs
<1>2. PICK g : g[0] = Begun /\ Load(<<>>) = g[Len(<<>>)].ini
  BY <1>1, LoadIs
<1> QED
  BY <1>1, <1>2 DEF Begun

-----------------------------------------------------------------------------
(* Plainly and Written in these terms *)
LEMMA LinesOf ==
  ASSUME NEW file, FileIs(file), NEW w \in Wanted, NEW key, key = <<w.k, w.m>>
  PROVE  /\ Lines(file, key) = {j \in 1..Len(file) : MyLine(file, w, j)}
         /\ Headers(file, key) = {j \in 1..Len(file) : MyHeader(file, w, j)}
<1>1. key[1] = w.k /\ key[2] = w.m /\ DOMAIN file = 1..Len(file)
  BY DEF FileIs
<1>2. Lines(file, key) = {j \in 1..Len(file) : MyLine(file, w, j)}
  BY <1>1 DEF Lines, MyLine, Meets
<1>3. Headers(file, key) = {j \in 1..Len(file) : MyHeader(file, w, j)}
  BY <1>1 DEF Headers, MyHeader, Meets
<1> QED
  BY <1>2, <1>3

(* Written picks that line. *)
LEMMA WrittenIs ==
  ASSUME Files(seen), NEW w \in Wanted, NEW key, key = <<w.k, w.m>>, NEW v, LastWritten(seen, w, v)
  PROVE  Written(key) = v
<1>1. ASSUME NEW i \in 1..Len(seen)
      PROVE  Lines(seen[i], key) = {j \in 1..Len(seen[i]) : MyLine(seen[i], w, j)}
  BY LinesOf DEF Files
<1>2. PICK having : having = {i \in DOMAIN seen : Lines(seen[i], key) # {}}
  OBVIOUS
<1>3. DOMAIN seen = 1..Len(seen) /\ having \in SUBSET Int
  BY <1>2 DEF Files
<1>4. CASE v = Missing /\ \A i \in 1..Len(seen) : \A j \in 1..Len(seen[i]) : ~MyLine(seen[i], w, j)
  <2>1. having = {}
    BY <1>1, <1>2, <1>3, <1>4
  <2> QED
    BY <1>2, <1>4, <2>1 DEF Written
<1>5. ASSUME NEW i \in 1..Len(seen), NEW j \in 1..Len(seen[i]), MyLine(seen[i], w, j),
             \A h \in 1..Len(seen[i]) : MyLine(seen[i], w, h) => h <= j,
             \A l \in 1..Len(seen) : (\E h \in 1..Len(seen[l]) : MyLine(seen[l], w, h)) => l <= i,
             v = seen[i][j].val
      PROVE  Written(key) = v
  <2>1. PICK L : L = Lines(seen[i], key)
    OBVIOUS
  <2>2. L \in SUBSET Int /\ j \in L /\ \A h \in L : h <= j
    <3>1. L = {h \in 1..Len(seen[i]) : MyLine(seen[i], w, h)}
      BY <1>1, <2>1
    <3>2. Len(seen[i]) \in Nat
      BY DEF Files, FileIs
    <3> QED
      BY <1>5, <3>1, <3>2
  <2>3. i \in having /\ \A l \in having : l <= i
    BY <1>1, <1>2, <1>3, <1>5
  <2>4. Max(L) = j
    BY <2>2, MaxIs
  <2>5. Max(having) = i
    BY <1>3, <2>3, MaxIs
  <2>6. having # {}
    BY <2>3
  <2>7. Written(key) = seen[Max(having)][Max(Lines(seen[Max(having)], key))].val
    BY <1>2, <2>6 DEF Written
  <2> QED
    BY <1>5, <2>1, <2>4, <2>5, <2>7
<1> QED
  BY <1>4, <1>5 DEF LastWritten

(* A set of numbers without two members *)
LEMMA OneAtMost ==
  ASSUME NEW n \in Nat, NEW S \in SUBSET (1..n), Cardinality(S) <= 1
  PROVE  \A a, b \in S : a = b
<1> SUFFICES ASSUME NEW a \in S, NEW b \in S, a # b PROVE FALSE
  OBVIOUS
<1>1. IsFiniteSet(1..n)
  BY FS_Interval
<1>2. IsFiniteSet(S)
  BY <1>1, FS_Subset
<1>3. IsFiniteSet({a}) /\ Cardinality({a}) = 1
  BY FS_Singleton
<1>4. Cardinality({a} \cup {b}) = 2
  BY <1>3, FS_AddElement
<1>5. Cardinality({a} \cup {b}) <= Cardinality(S)
  BY <1>2, FS_Subset
<1>6. Cardinality(S) \in Nat
  BY <1>2, FS_CardinalityType
<1> QED
  BY <1>4, <1>5, <1>6

(* A key for which Plainly holds has one spelling of its section and of its *)
(* name, and its values are all long or all short.                          *)
LEMMA PlainlyWanted ==
  ASSUME Files(seen), Len(seen) > 0, NEW key \in Names \X Names, Plainly(key)
  PROVE  \E w \in Wanted : key = <<w.k, w.m>> /\ Only(seen, w)
<1>1. PICK sections : sections = UNION {{seen[i][j].name : j \in Headers(seen[i], key)} : i \in DOMAIN seen}
  OBVIOUS
<1>2. PICK names : names = UNION {{seen[i][j].name : j \in Lines(seen[i], key)} : i \in DOMAIN seen}
  OBVIOUS
<1>3. PICK vals : vals = UNION {{seen[i][j].val : j \in Lines(seen[i], key)} : i \in DOMAIN seen}
  OBVIOUS
<1>4. /\ \A s \in sections : <<key[1], s>> \in Prefix /\ sections = {s}
      /\ \A n \in names : <<key[2], n>> \in Prefix /\ names = {n}
      /\ Cardinality(Headers(seen[1], key)) <= 1 /\ Cardinality(Lines(seen[1], key)) <= 1
      /\ Blank \notin vals /\ (vals \cap Long = {} \/ vals \subseteq Long)
  BY <1>1, <1>2, <1>3 DEF Plainly
<1>5. PICK k \in Names, m \in Names : key = <<k, m>>
  OBVIOUS
<1>6. key[1] = k /\ key[2] = m
  BY <1>5
<1>7. DOMAIN seen = 1..Len(seen) /\ Len(seen) \in Nat
  BY DEF Files
<1>8. ASSUME NEW i \in 1..Len(seen), NEW j \in Headers(seen[i], key)
      PROVE  /\ seen[i][j].name \in sections /\ seen[i][j].name \in Names
             /\ k = Global <=> seen[i][j].name = Global
  <2>1. FileIs(seen[i])
    BY DEF Files
  <2>2. j \in 1..Len(seen[i]) /\ RelatedSections(k, seen[i][j].name)
    BY <1>6, <2>1 DEF Headers, FileIs
  <2>3. seen[i][j].name \in Names
    BY <2>1, <2>2 DEF FileIs, Line
  <2>4. seen[i][j].name \in sections
    BY <1>1, <1>7
  <2>5. k = Global <=> seen[i][j].name = Global
    BY <2>2 DEF RelatedSections
  <2> QED
    BY <2>3, <2>4, <2>5
<1>9. ASSUME NEW i \in 1..Len(seen), NEW j \in Lines(seen[i], key)
      PROVE  seen[i][j].name \in names /\ seen[i][j].name \in Names /\ seen[i][j].val \in vals
  <2>1. FileIs(seen[i])
    BY DEF Files
  <2>2. j \in 1..Len(seen[i])
    BY <2>1 DEF Lines, FileIs
  <2>3. seen[i][j].name \in Names
    BY <2>1, <2>2 DEF FileIs, Line
  <2>4. seen[i][j].name \in names
    BY <1>2, <1>7
  <2>5. seen[i][j].val \in vals
    BY <1>3, <1>7
  <2> QED
    BY <2>3, <2>4, <2>5
<1>10. PICK s \in Names : /\ <<k, s>> \in Prefix /\ (k = Global <=> s = Global)
                          /\ \A x \in sections : x = s
  <2>1. CASE sections = {}
    BY <2>1, NamesAssumption
  <2>2. CASE sections # {}
    <3>1. PICK i \in 1..Len(seen) : Headers(seen[i], key) # {}
      BY <1>1, <1>7, <2>2
    <3>2. PICK s \in Names : (k = Global <=> s = Global) /\ s \in sections
      BY <1>8, <3>1
    <3> QED
      BY <1>4, <1>6, <3>2
  <2> QED
    BY <2>1, <2>2
<1>11. PICK n \in Names : <<m, n>> \in Prefix /\ \A x \in names : x = n
  <2>1. CASE names = {}
    BY <2>1, NamesAssumption
  <2>2. CASE names # {}
    <3>1. PICK i \in 1..Len(seen) : Lines(seen[i], key) # {}
      BY <1>2, <1>7, <2>2
    <3>2. PICK n \in Names : n \in names
      BY <1>9, <3>1
    <3> QED
      BY <1>4, <1>6, <3>2
  <2> QED
    BY <2>1, <2>2
<1>12. PICK b \in BOOLEAN : \A v \in vals : v \in Long <=> b
  <2>1. CASE vals \cap Long = {}
    <3>1. \A v \in vals : v \in Long <=> FALSE
      BY <2>1
    <3> QED
      BY <3>1
  <2>2. CASE vals \subseteq Long
    <3>1. \A v \in vals : v \in Long <=> TRUE
      BY <2>2
    <3> QED
      BY <3>1
  <2> QED
    BY <1>4, <2>1, <2>2
<1>13. PICK w : w = [k |-> k, m |-> m, s |-> s, n |-> n, long |-> b]
  OBVIOUS
<1>14. /\ w \in Wanted /\ key = <<w.k, w.m>> /\ w.s = s /\ w.n = n /\ (w.long <=> b)
  BY <1>5, <1>10, <1>11, <1>13 DEF Wanted
<1>15. ASSUME NEW i \in 1..Len(seen)
       PROVE  /\ Lines(seen[i], key) = {j \in 1..Len(seen[i]) : MyLine(seen[i], w, j)}
              /\ Headers(seen[i], key) = {j \in 1..Len(seen[i]) : MyHeader(seen[i], w, j)}
  BY <1>14, LinesOf DEF Files
<1>16. ASSUME NEW i \in 1..Len(seen) PROVE OnlyIn(seen[i], w)
  <2>1. ASSUME NEW j \in 1..Len(seen[i]), MyHeader(seen[i], w, j) PROVE seen[i][j].name = w.s
    <3>1. j \in Headers(seen[i], key)
      BY <1>15, <2>1
    <3> QED
      BY <1>8, <1>10, <1>14, <3>1
  <2>2. ASSUME NEW j \in 1..Len(seen[i]), MyLine(seen[i], w, j)
        PROVE  seen[i][j].name = w.n /\ seen[i][j].val # Blank /\ (seen[i][j].val \in Long <=> w.long)
    <3>1. j \in Lines(seen[i], key)
      BY <1>15, <2>2
    <3>2. seen[i][j].name \in names /\ seen[i][j].val \in vals
      BY <1>9, <3>1
    <3> QED
      BY <1>4, <1>11, <1>12, <1>14, <3>2
  <2> QED
    BY <2>1, <2>2 DEF OnlyIn
<1>17. OnceIn(seen[1], w)
  <2>1. 1 \in 1..Len(seen)
    BY <1>7
  <2>2. PICK l \in Nat : l = Len(seen[1])
    BY <2>1 DEF Files, FileIs
  <2>3. PICK L \in SUBSET (1..l) : L = Lines(seen[1], key)
    BY <1>15, <2>1, <2>2
  <2>4. PICK H \in SUBSET (1..l) : H = Headers(seen[1], key)
    BY <1>15, <2>1, <2>2
  <2>5. \A a, c \in L : a = c
    <3>1. Cardinality(L) <= 1
      BY <1>4, <2>3
    <3> QED
      BY <3>1, OneAtMost
  <2>6. \A a, c \in H : a = c
    <3>1. Cardinality(H) <= 1
      BY <1>4, <2>4
    <3> QED
      BY <3>1, OneAtMost
  <2>7. \A j \in 1..l : MyLine(seen[1], w, j) => j \in L
    BY <1>15, <2>1, <2>2, <2>3
  <2>8. \A j \in 1..l : MyHeader(seen[1], w, j) => j \in H
    BY <1>15, <2>1, <2>2, <2>4
  <2> QED
    BY <2>2, <2>5, <2>6, <2>7, <2>8 DEF OnceIn
<1> QED
  BY <1>14, <1>16, <1>17 DEF Only

-----------------------------------------------------------------------------
(* The files of the program: what was read so far is what is held. *)
ReadInv ==
  /\ disk = [inis |-> disk.inis, single |-> disk.single]
  /\ \A name \in DOMAIN disk.inis : disk.inis[name] \in Seq(FileLines)
  /\ left \subseteq DOMAIN disk.inis
  /\ IF pc = "ini" THEN seen = <<>> /\ ini = Create ELSE Len(seen) > 0 /\ ReadFrom(ini, seen)

(* Nothing is read at the start. *)
LEMMA InitRead == Init => ReadInv
<1> SUFFICES ASSUME Init PROVE ReadInv
  OBVIOUS
<1>1. PICK in \in Inputs : disk = [inis |-> in.inis, single |-> in.single]
  BY DEF Init
<1>2. disk.inis = in.inis /\ disk.single = in.single
  BY <1>1
<1>3. Ran(in.inis) \subseteq Seq(FileLines)
  BY InputsAssumption
<1>4. \A name \in DOMAIN disk.inis : disk.inis[name] \in Seq(FileLines)
  BY <1>2, <1>3 DEF Ran
<1>5. pc = "ini" /\ seen = <<>> /\ ini = Create /\ left = {}
  BY DEF Init, Begin
<1> QED
  BY <1>1, <1>2, <1>4, <1>5 DEF ReadInv

(* Reading config.ini, a snippet, and any other step keep the invariant. *)
LEMMA ReadIniRead == ReadInv /\ ReadIni => ReadInv'
<1> SUFFICES ASSUME ReadInv, ReadIni PROVE ReadInv'
  OBVIOUS
<1>1. pc' = "snippets" /\ disk' = disk
  BY DEF ReadIni, files
<1>2. PICK file \in Seq(FileLines) : ini' = Load(file) /\ seen' = <<file>>
  <2>1. CASE Opens(0) /\ ConfigIni \in DOMAIN disk.inis
    BY <2>1 DEF ReadIni, ReadInv
  <2>2. CASE ~(Opens(0) /\ ConfigIni \in DOMAIN disk.inis)
    <3>1. ini' = Create /\ seen' = << <<>> >>
      BY <2>2 DEF ReadIni
    <3>2. <<>> \in Seq(FileLines)
      OBVIOUS
    <3> QED
      BY <3>1, <3>2, NothingRead
  <2> QED
    BY <2>1, <2>2
<1>3. Len(seen') > 0 /\ ReadFrom(ini', seen')
  <2>1. ReadFrom(Load(file), <<file>>)
    BY FirstRead
  <2>2. Len(<<file>>) = 1
    OBVIOUS
  <2> QED
    BY <1>2, <2>1, <2>2
<1>4. left' \subseteq DOMAIN disk.inis
  BY DEF ReadIni, Snippets
<1> QED
  BY <1>1, <1>3, <1>4 DEF ReadInv

(* Merging a snippet keeps the invariant. *)
LEMMA ReadSnippetRead == ReadInv /\ ReadSnippet => ReadInv'
<1> SUFFICES ASSUME ReadInv, ReadSnippet PROVE ReadInv'
  OBVIOUS
<1>1. pc = "snippets" /\ pc' \in {"snippets", "stopped"} /\ disk' = disk
  BY DEF ReadSnippet, files
<1>2. PICK name \in left :
        /\ left' = left \ {name}
        /\ IF Opens(1) THEN ini' = Cat(ini, Load(disk.inis[name])) /\ seen' = Append(seen, disk.inis[name])
           ELSE ini' = ini /\ seen' = seen
  BY DEF ReadSnippet
<1>3. Len(seen) > 0 /\ ReadFrom(ini, seen)
  BY <1>1 DEF ReadInv
<1>4. Len(seen') > 0 /\ ReadFrom(ini', seen')
  <2>1. CASE Opens(1)
    <3>1. PICK file \in Seq(FileLines) : file = disk.inis[name]
      BY DEF ReadInv
    <3>2. ReadFrom(Cat(ini, Load(file)), Append(seen, file))
      BY <1>3, NextRead
    <3>3. Len(Append(seen, file)) > 0
      BY <3>2, <1>3, AppendProperties DEF ReadFrom, Files
    <3> QED
      BY <1>2, <2>1, <3>1, <3>2, <3>3
  <2>2. CASE ~Opens(1)
    BY <1>2, <1>3, <2>2
  <2> QED
    BY <2>1, <2>2
<1> QED
  BY <1>1, <1>2, <1>4 DEF ReadInv

(* The invariant is inductive. *)
LEMMA NextReadInv == ReadInv /\ [Next]_vars => ReadInv'
<1> SUFFICES ASSUME ReadInv, [Next]_vars PROVE ReadInv'
  OBVIOUS
<1>1. CASE ReadIni
  BY <1>1, ReadIniRead
<1>2. CASE ReadSnippet
  BY <1>2, ReadSnippetRead
<1>3. CASE ReadDefaults
  BY <1>3 DEF ReadDefaults, files, reading, ReadInv
<1>4. CASE ParseOption
  <2>1. pc = "options" /\ pc' \in {"geometry", "stopped", "options"}
    BY <1>4 DEF ParseOption
  <2> QED
    BY <1>4, <2>1 DEF ParseOption, files, reading, ReadInv
<1>5. CASE Geometry
  <2>1. pc = "geometry" /\ pc' \in {"running", "stopped"}
    BY <1>5 DEF Geometry
  <2> QED
    BY <1>5, <2>1 DEF Geometry, files, reading, ReadInv
<1>6. CASE \E side \in Sides : ScreenActive(side)
  BY <1>6 DEF ScreenActive, files, reading, ReadInv
<1>7. CASE Edit
  <2>1. PICK text : disk' = [disk EXCEPT !.single[Enter] = text]
    BY <1>7 DEF Edit
  <2>2. PICK i, s : disk = [inis |-> i, single |-> s] /\ disk.inis = i
    BY DEF ReadInv
  <2>3. disk' = [inis |-> i, single |-> [s EXCEPT ![Enter] = text]]
    BY <2>1, <2>2
  <2>4. disk' = [inis |-> disk'.inis, single |-> disk'.single] /\ disk'.inis = disk.inis
    BY <2>2, <2>3
  <2>5. ini' = ini /\ left' = left /\ seen' = seen /\ pc' = pc
    BY <1>7 DEF Edit, reading
  <2> QED
    BY <2>4, <2>5 DEF ReadInv
<1>8. CASE Restart
  BY <1>8 DEF Restart, files, ReadInv
<1>9. CASE UNCHANGED vars
  BY <1>9 DEF vars, files, reading, ReadInv
<1> QED
  BY <1>1, <1>2, <1>3, <1>4, <1>5, <1>6, <1>7, <1>8, <1>9 DEF Next, Stopped

(* The invariant holds in every reachable state. *)
LEMMA ReadAlways == Spec => []ReadInv
BY InitRead, NextReadInv, PTL DEF Spec

(* A plainly written key is found as it was written. *)
LEMMA PlainlyRead ==
  ASSUME ReadInv, seen # <<>>, NEW key \in Keys, Plainly(key)
  PROVE  TryReadIni(ini, key) = Written(key)
<1>1. Len(seen) > 0 /\ ReadFrom(ini, seen)
  BY DEF ReadInv
<1>2. Files(seen) /\ ini \in IniFiles /\ key \in Names \X Names
  BY <1>1, KeysAssumption DEF ReadFrom
<1>3. PICK w \in Wanted : key = <<w.k, w.m>> /\ Only(seen, w)
  BY <1>1, <1>2, PlainlyWanted
<1>4. Wins(ini, seen, w)
  BY <1>1, <1>3 DEF ReadFrom
<1>5. PICK v : Clear(ini, w) /\ Holds(ini, w, v) /\ LastWritten(seen, w, v)
  BY <1>4 DEF Wins
<1>6. TryReadIni(ini, key) = v
  BY <1>2, <1>3, <1>5, HeldIsRead DEF Clear
<1>7. Written(key) = v
  BY <1>2, <1>3, <1>5, WrittenIs
<1> QED
  BY <1>6, <1>7

(* Of a key that is plainly written, what is found is what the last of the  *)
(* files that could be read says, in whichever order readdir finds them.    *)
THEOREM LastFileIsFound == Spec => []LastFileWins
<1>1. ReadInv => LastFileWins
  BY PlainlyRead DEF LastFileWins
<1> QED
  BY <1>1, ReadAlways, PTL

(* What is found for a key was written in a line that could be taken for it. *)
THEOREM NothingIsMadeUp == Spec => []FoundWasWritten
<1>1. ReadInv => FoundWasWritten
  <2> SUFFICES ASSUME ReadInv, NEW key \in Keys, TryReadIni(ini, key) \notin {Missing, Junk}
               PROVE  \E i \in DOMAIN seen : \E j \in Lines(seen[i], key) :
                        ValueOf(seen[i][j].val) = TryReadIni(ini, key)
    BY DEF FoundWasWritten
  <2>1. key \in Names \X Names
    BY KeysAssumption
  <2>2. Files(seen) /\ ini \in IniFiles /\ Origins(ini, seen)
    <3>1. CASE pc = "ini"
      <4>1. seen = <<>> /\ ini = Create
        BY <3>1 DEF ReadInv
      <4>2. Files(seen)
        BY <4>1 DEF Files
      <4>3. Origins(ini, seen)
        <5>1. ini.props = <<>>
          BY <4>1 DEF Create
        <5> QED
          BY <5>1 DEF Origins
      <4> QED
        BY <4>1, <4>2, <4>3, CreateIs
    <3>2. CASE pc # "ini"
      BY <3>2 DEF ReadInv, ReadFrom
    <3> QED
      BY <3>1, <3>2
  <2>3. DOMAIN seen = 1..Len(seen)
    BY <2>2 DEF Files
  <2> QED
    BY <2>1, <2>2, <2>3, FoundFromLine
<1> QED
  BY <1>1, ReadAlways, PTL

(* When the screen is entered or left, the command that was plainly written *)
(* when the program started is run.                                         *)
THEOREM CommandWasWritten == Spec => CommandIsRun
<1>1. ReadInv => \A side \in Sides :
        ScreenActive(side) /\ Plainly(Command[side]) /\ Written(Command[side]) # Missing
          => ran' = Written(Command[side])
  <2> SUFFICES ASSUME ReadInv, NEW side \in Sides, ScreenActive(side), Plainly(Command[side]),
                      Written(Command[side]) # Missing
               PROVE  ran' = Written(Command[side])
    OBVIOUS
  <2>1. PICK key \in Keys : key = Command[side]
    BY DEF Sides, Command, Keys
  <2>2. pc = "running" /\ ran' = ConfigRead(key, 1)
    BY <2>1 DEF ScreenActive
  <2>3. seen # <<>>
    <3>1. Len(seen) > 0
      BY <2>2 DEF ReadInv
    <3>2. Len(<<>>) = 0
      OBVIOUS
    <3> QED
      BY <3>1, <3>2
  <2>4. TryReadIni(ini, key) = Written(key)
    BY <2>1, <2>3, PlainlyRead
  <2> QED
    BY <2>1, <2>2, <2>4 DEF ConfigRead
<1> QED
  BY <1>1, ReadAlways, PTL DEF CommandIsRun

-----------------------------------------------------------------------------
(* The types, and the descriptors: every file is opened only while there is *)
(* one left.                                                                *)
StartupTypeOK ==
  /\ pc \in {"ini", "snippets", "options", "geometry", "running", "stopped"}
  /\ ini \in IniFiles /\ seen \in Seq(Seq(FileLines)) /\ left \subseteq DOMAIN disk.inis
  /\ settings \in Settings /\ configured \in Settings
  /\ leaked \in 0..Descriptors /\ restarts \in 0..MaxRestarts

Held == leaked \in 0..Descriptors /\ restarts \in 0..MaxRestarts

(* A lookup takes a descriptor more at most, and only if there is one.      *)
LEMMA UsedIs ==
  ASSUME NEW key, NEW n \in Nat, leaked \in Nat, Descriptors \in Nat
  PROVE  /\ Used(key, n) \in n..n + 1
         /\ leaked + n <= Descriptors => leaked + Used(key, n) <= Descriptors
         /\ leaked + n > Descriptors => Used(key, n) = n
<1>1. Used(key, n) = n \/ (Used(key, n) = n + 1 /\ leaked + n < Descriptors)
  BY DEF Used, FromFile, Opens
<1> QED
  BY <1>1

(* No descriptor is lost at the start. *)
LEMMA InitHeld == Init => Held
BY BoundsAssumption DEF Init, Held

(* No step opens a file without a descriptor for it. *)
LEMMA NextHeld == Held /\ [Next]_vars => Held'
<1> SUFFICES ASSUME Held, [Next]_vars PROVE Held'
  OBVIOUS
<1>1. Descriptors \in Nat /\ MaxRestarts \in Nat /\ leaked \in Nat /\ leaked <= Descriptors
  BY BoundsAssumption DEF Held
<1>2. CASE ReadIni
  <2>1. leaked' \in 0..Descriptors
    BY <1>1, <1>2 DEF ReadIni, Opens
  <2> QED
    BY <1>2, <2>1 DEF ReadIni, Held
<1>3. CASE ReadSnippet
  <2>1. leaked' \in 0..Descriptors
    BY <1>1, <1>3 DEF ReadSnippet, Opens
  <2> QED
    BY <1>3, <2>1 DEF ReadSnippet, Held
<1>4. CASE ReadDefaults
  <2>1. PICK u : u = Used(TlsEnable, 0)
    OBVIOUS
  <2>2. PICK t : t = Used(Width, u)
    OBVIOUS
  <2>3. PICK h : h = Used(Height, t)
    OBVIOUS
  <2>4. leaked' = leaked + h /\ restarts' = restarts
    BY <1>4, <2>1, <2>2, <2>3 DEF ReadDefaults
  <2>5. u \in Nat /\ leaked + u <= Descriptors
    BY <1>1, <2>1, UsedIs
  <2>6. t \in Nat /\ leaked + t <= Descriptors
    BY <1>1, <2>2, <2>5, UsedIs
  <2>7. h \in Nat /\ leaked + h <= Descriptors
    BY <1>1, <2>3, <2>6, UsedIs
  <2> QED
    BY <1>1, <2>4, <2>7 DEF Held
<1>5. ASSUME NEW side \in Sides, ScreenActive(side) PROVE Held'
  <2>1. PICK key : key = Command[side]
    OBVIOUS
  <2>2. PICK u : u = Used(key, 1)
    OBVIOUS
  <2>3. leaked' = leaked + u - 1 /\ restarts' = restarts
    BY <1>5, <2>1, <2>2 DEF ScreenActive
  <2>4. u \in 1..2 /\ (leaked + 1 <= Descriptors => leaked + u <= Descriptors) /\ (leaked + 1 > Descriptors => u = 1)
    BY <1>1, <2>2, UsedIs
  <2> QED
    BY <1>1, <2>3, <2>4 DEF Held
<1>6. CASE Restart
  BY <1>1, <1>6 DEF Restart, Held
<1>7. CASE ParseOption \/ Geometry \/ Edit \/ UNCHANGED vars
  BY <1>7 DEF ParseOption, Geometry, Edit, vars, Held
<1> QED
  BY <1>2, <1>3, <1>4, <1>5, <1>6, <1>7 DEF Next, Stopped

(* Every reachable state of the start is well typed: the ini keeps every    *)
(* property in a section that is there, and the files that are never closed *)
(* never outnumber the descriptors, through any number of restarts.         *)
THEOREM StartupTypeCorrect == Spec => []StartupTypeOK
<1>1. Set /\ ReadInv /\ Held => StartupTypeOK
  <2> SUFFICES ASSUME Set, ReadInv, Held PROVE StartupTypeOK
    OBVIOUS
  <2>1. ini \in IniFiles /\ seen \in Seq(Seq(FileLines))
    <3>1. CASE pc = "ini"
      <4>1. seen = <<>> /\ ini = Create
        BY <3>1 DEF ReadInv
      <4> QED
        BY <4>1, CreateIs
    <3>2. CASE pc # "ini"
      BY <3>2 DEF ReadInv, ReadFrom, Files
    <3> QED
      BY <3>1, <3>2
  <2> QED
    BY <2>1 DEF Set, ReadInv, Held, StartupTypeOK
<1>2. Spec => []Held
  BY InitHeld, NextHeld, PTL DEF Spec
<1> QED
  BY <1>1, <1>2, SetAlways, ReadAlways, PTL

(* Where syn_connect is tells what it knows. *)
Known ==
  /\ stage \in {"down", "setup"} => tlsHash = None /\ peer = None
  /\ stage = "handshake" => peer = None /\ (tlsHash = None => tofu)
  /\ stage = "create" => tlsHash = None /\ peer \in Certs /\ tofu
  /\ stage = "write" => tlsHash = peer /\ peer \in Certs /\ tofu
  /\ stage \in {"compare", "mismatch"} => tlsHash # None /\ peer \in Certs
  /\ stage = "up" => tlsHash = peer /\ peer \in Certs

(* The file is what the hash was read from, or is about to become it. *)
OnDisk ==
  ~edited =>
    /\ stage = "handshake" => stored = tlsHash \/ (tlsHash = None /\ unread)
    /\ stage \in {"compare", "mismatch", "up"} => stored = tlsHash
    /\ stage = "create" => stored = None \/ unread
    /\ stage = "write" => stored = Part \/ unread

(* The first connection's certificate stays on disk, unless it is not seen. *)
Kept == ~edited /\ ~unread /\ first # None => stored = first

(* Without trust on first use every hash is the user's. *)
Chosen == ~tofu => {stored, tlsHash} \subseteq pinned \cup {None}

PinInv == TlsTypeOK /\ Known /\ OnDisk /\ Kept /\ Chosen

-----------------------------------------------------------------------------
(* The invariant holds at the start. *)
LEMMA TlsInitPinInv == TlsInit => PinInv
<1> SUFFICES ASSUME TlsInit PROVE PinInv
  OBVIOUS
<1> USE TlsAssumption DEF TlsInit, None, Part
<1>1. TlsTypeOK
  <2>1. tofu \in BOOLEAN /\ edited \in BOOLEAN /\ unread \in BOOLEAN
    BY Zenon
  <2>2. address \in 1..Addresses
    OBVIOUS
  <2> QED
    BY <2>1, <2>2 DEF TlsTypeOK
<1>2. Known /\ OnDisk
  BY DEF Known, OnDisk
<1>3. Kept /\ Chosen
  BY DEF Kept, Chosen
<1> QED
  BY <1>1, <1>2, <1>3 DEF PinInv

(* A failure on the way to a connection leaves nothing in memory. *)
LEMMA TryNextPinInv ==
  ASSUME PinInv, TryNext, UNCHANGED <<tofu, history>>,
         stored' = stored \/ (stage = "write" /\ stored' = Part)
  PROVE  PinInv'
BY TlsAssumption
DEF TryNext, Forget, history, PinInv, TlsTypeOK, Known, OnDisk, Kept, Chosen, None, Part

(* The invariant is inductive. *)
LEMMA TlsNextPinInv == PinInv /\ [TlsNext]_tlsVars => PinInv'
<1> SUFFICES ASSUME PinInv, [TlsNext]_tlsVars PROVE PinInv'
  OBVIOUS
<1> USE TlsAssumption DEF PinInv, TlsTypeOK, Known, OnDisk, Kept, Chosen, None, Part, history
<1>1. CASE Connect
  BY <1>1 DEF Connect, Forget
<1>2. CASE LoadHash
  BY <1>2 DEF LoadHash
<1>13. CASE LoadFails
  BY <1>13 DEF LoadFails
<1>14. CASE CreateFails
  BY <1>14, TryNextPinInv DEF CreateFails, NextAddress
<1>3. CASE SetupFails
  BY <1>3, TryNextPinInv DEF SetupFails, NextAddress
<1>4. CASE Handshake
  BY <1>4 DEF Handshake
<1>5. CASE CreateFile
  BY <1>5 DEF CreateFile
<1>6. CASE WriteHash
  BY <1>6 DEF WriteHash
<1>7. CASE WriteFails
  BY <1>7, TryNextPinInv DEF WriteFails
<1>8. CASE Compare
  BY <1>8 DEF Compare
<1>9. CASE Mismatch
  BY <1>9, TryNextPinInv DEF Mismatch, NextAddress
<1>10. CASE Dies
  BY <1>10 DEF Dies, Forget
<1>11. CASE UserStores
  BY <1>11 DEF UserStores
<1>12. CASE UNCHANGED tlsVars
  BY <1>12 DEF tlsVars
<1> QED
  BY <1>1, <1>2, <1>3, <1>4, <1>5, <1>6, <1>7, <1>8, <1>9, <1>10, <1>11, <1>12, <1>13, <1>14
  DEF TlsNext

(* The invariant holds in every reachable state. *)
LEMMA PinInductive == TlsSpec => []PinInv
BY TlsInitPinInv, TlsNextPinInv, PTL DEF TlsSpec

-----------------------------------------------------------------------------
(* The variables of syn_connect and load_cert_hash keep their types.       *)
THEOREM PinTypeCorrect == TlsSpec => []TlsTypeOK
<1>1. PinInv => TlsTypeOK
  BY DEF PinInv
<1> QED
  BY <1>1, PinInductive, PTL

(* While a connection is up its certificate is the one on disk, whatever   *)
(* crashes and failures to read or write came before.                      *)
THEOREM StoredBeforeTrusted == TlsSpec => []UpMeansStored
<1>1. PinInv => UpMeansStored
  BY DEF PinInv, Known, OnDisk, UpMeansStored
<1> QED
  BY <1>1, PinInductive, PTL

(* Every connection that comes up is to the certificate of the first one,  *)
(* until the user writes another hash or a hash cannot be read.            *)
THEOREM TrustGivenOnce == TlsSpec => OneServer
<1> DEFINE Step == stage' = "up" /\ stage # "up" /\ ~edited /\ ~unread => first \in {None, peer}
<1>1. PinInv /\ [TlsNext]_tlsVars => Step
  <2> SUFFICES ASSUME PinInv, [TlsNext]_tlsVars, stage' = "up", stage # "up", ~edited, ~unread
               PROVE  first \in {None, peer}
    OBVIOUS
  <2>1. Compare
    BY DEF TlsNext, tlsVars, Connect, LoadHash, LoadFails, SetupFails, NextAddress, TryNext, Handshake,
           CreateFile, CreateFails, WriteHash, WriteFails, Mismatch, Dies, UserStores
  <2>2. stage = "compare" /\ tlsHash = peer
    BY <2>1 DEF Compare
  <2> QED
    BY <2>2 DEF PinInv, OnDisk, Kept
<1>2. Step => [Step]_tlsVars
  OBVIOUS
<1> QED
  BY <1>1, <1>2, PinInductive, PTL DEF TlsSpec, OneServer

(* Without trust on first use the program stores nothing, and connects     *)
(* only to a certificate the user has stored.                              *)
THEOREM NoTrustOfItsOwn == TlsSpec => OnlyTheUserTrusts
<1> DEFINE Step == ~tofu => /\ stored' = stored \/ UserStores
                            /\ stage' = "up" => peer' \in pinned
<1>1. PinInv /\ [TlsNext]_tlsVars => Step
  <2> SUFFICES ASSUME PinInv, [TlsNext]_tlsVars, ~tofu
               PROVE  /\ stored' = stored \/ UserStores
                      /\ stage' = "up" => peer' \in pinned
    OBVIOUS
  <2>1. stage \notin {"create", "write"}
    BY DEF PinInv, Known
  <2>2. stored' = stored \/ UserStores
    BY <2>1 DEF TlsNext, tlsVars, Connect, LoadHash, LoadFails, SetupFails, NextAddress, TryNext,
                Handshake, CreateFile, CreateFails, WriteHash, WriteFails, Compare, Mismatch, Dies
  <2>3. ASSUME stage' = "up" PROVE peer' \in pinned
    <3>1. Compare \/ UserStores \/ UNCHANGED tlsVars
      BY <2>1, <2>3 DEF TlsNext, tlsVars, Connect, LoadHash, LoadFails, SetupFails, NextAddress, TryNext,
                  Handshake, CreateFile, CreateFails, WriteHash, WriteFails, Mismatch, Dies
    <3>2. peer' = peer /\ peer = tlsHash /\ peer \in Certs
      BY <2>3, <3>1 DEF Compare, UserStores, tlsVars, PinInv, Known
    <3> QED
      BY <3>2, TlsAssumption DEF PinInv, Chosen, None
  <2> QED
    BY <2>2, <2>3
<1>2. Step => [Step]_tlsVars
  OBVIOUS
<1> QED
  BY <1>1, <1>2, PinInductive, PTL DEF TlsSpec, OnlyTheUserTrusts
==============================================================================
