---------------------------- MODULE MapperProofs -----------------------------
(***************************************************************************)
(* Proofs about Mapper, for any keymap and any codes: what is stored under *)
(* a key is what was pressed last when it was asked for (Stored), and until *)
(* an answer is undone the arrays say what the answers say (Recorded).     *)
(***************************************************************************)
EXTENDS Mapper, TLAPS

(* Only a key with a name is asked for. *)
Asked == running /\ started => pos \in Named

Stored ==
  \A k \in Keys :
    /\ k < MaxKey => keymap[k] = IF pressed[k] = Nothing THEN k ELSE pressed[k]
    /\ pressed[k] # Nothing => k \in Named
    /\ isSet[k] => pressed[k] # Nothing

Recorded ==
  ~undone => \A k \in Keys :
    /\ k < MaxKey => keymap[k] = Given(k)
    /\ isSet[k] <=> Answered(k) # {}

(* Of the answers for a key one is the last. *)
HasLast(S) == S = {} \/ \E i \in S : \A j \in S : j <= i
Ordered == \A k \in Keys : HasLast(Answered(k))

Printed == ~running => output = Lines(keymap, isSet)

IInv == TypeOK /\ Asked /\ Stored /\ Recorded /\ Ordered /\ Printed

USE KeysAssumption, CodesAssumption

-----------------------------------------------------------------------------
(* The last answer for a key counts; one for another key does not, nor does *)
(* a key that is skipped.                                                   *)
LEMMA AnsweredAppend ==
  ASSUME TypeOK, NEW code \in Codes \cup {Nothing}, pos \in Keys,
         answers' = Append(answers, <<pos, code>>), NEW k \in Keys
  PROVE  Answered(k)' = IF k = pos /\ code # Nothing
                        THEN Answered(k) \cup {Len(answers) + 1} ELSE Answered(k)
<1>1. answers \in Seq(Keys \X (Codes \cup {Nothing}))
  BY DEF TypeOK
<1>2. <<pos, code>> \in Keys \X (Codes \cup {Nothing})
  OBVIOUS
<1>3. DOMAIN answers = 1..Len(answers) /\ Len(answers) \in Nat
  BY <1>1
<1>4. DOMAIN answers' = 1..Len(answers) + 1
  BY <1>1, <1>2
<1>5. \A i \in DOMAIN answers : answers'[i] = answers[i]
  BY <1>1, <1>2
<1>6. answers'[Len(answers) + 1] = <<pos, code>>
  BY <1>1, <1>2
<1>7. Answered(k)' = {i \in DOMAIN answers' : answers'[i][1] = k /\ answers'[i][2] # Nothing}
  BY DEF Answered
<1>8. DOMAIN answers' = DOMAIN answers \cup {Len(answers) + 1}
  BY <1>3, <1>4
<1> QED
  BY <1>5, <1>6, <1>7, <1>8 DEF Answered

LEMMA GivenAppend ==
  ASSUME TypeOK, NEW code \in Codes \cup {Nothing}, pos \in Keys,
         answers' = Append(answers, <<pos, code>>), NEW k \in Keys, HasLast(Answered(k))
  PROVE  Given(k)' = IF k = pos /\ code # Nothing THEN code ELSE Given(k)
<1>1. answers \in Seq(Keys \X (Codes \cup {Nothing}))
  BY DEF TypeOK
<1>2. <<pos, code>> \in Keys \X (Codes \cup {Nothing})
  OBVIOUS
<1>3. Len(answers) \in Nat /\ Answered(k) \subseteq 1..Len(answers)
  BY <1>1 DEF Answered
<1>4. \A i \in DOMAIN answers : answers'[i] = answers[i]
  BY <1>1, <1>2
<1>5. answers'[Len(answers) + 1] = <<pos, code>>
  BY <1>1, <1>2
<1> DEFINE Latest(S) == CHOOSE i \in S : \A j \in S : j <= i
<1>6. Given(k)' = IF Answered(k)' = {} THEN k ELSE answers'[Latest(Answered(k)')][2]
  BY DEF Given
<1>7. CASE k = pos /\ code # Nothing
  <2> DEFINE n == Len(answers) + 1
  <2>1. Answered(k)' = Answered(k) \cup {n}
    BY <1>7, AnsweredAppend
  <2>2. n \in Answered(k)' /\ \A j \in Answered(k)' : j <= n /\ j \in Nat
    BY <2>1, <1>3
  <2>3. Latest(Answered(k)') = n
    <3>1. \E i \in Answered(k)' : \A j \in Answered(k)' : j <= i
      BY <2>2
    <3>2. Latest(Answered(k)') \in Answered(k)'
          /\ \A j \in Answered(k)' : j <= Latest(Answered(k)')
      BY <3>1
    <3> QED
      BY <2>2, <3>2, <1>3
  <2> QED
    BY <1>5, <1>6, <1>7, <2>2, <2>3
<1>8. CASE ~(k = pos /\ code # Nothing)
  <2>1. Answered(k)' = Answered(k)
    BY <1>8, AnsweredAppend
  <2>2. CASE Answered(k) = {}
    BY <1>6, <1>8, <2>1, <2>2 DEF Given
  <2>3. CASE Answered(k) # {}
    <3>1. \E i \in Answered(k) : \A j \in Answered(k) : j <= i
      BY <2>3 DEF HasLast
    <3>2. Latest(Answered(k)) \in DOMAIN answers
      BY <3>1, <1>1, <1>3
    <3> QED
      BY <1>4, <1>6, <1>8, <2>1, <2>3, <3>2 DEF Given
  <2> QED
    BY <2>2, <2>3
<1> QED
  BY <1>7, <1>8

LEMMA OrderedAppend ==
  ASSUME TypeOK, NEW code \in Codes \cup {Nothing}, pos \in Keys,
         answers' = Append(answers, <<pos, code>>), NEW k \in Keys, HasLast(Answered(k))
  PROVE  HasLast(Answered(k)')
<1>1. answers \in Seq(Keys \X (Codes \cup {Nothing}))
  BY DEF TypeOK
<1>2. Len(answers) \in Nat /\ Answered(k) \subseteq 1..Len(answers)
  BY <1>1 DEF Answered
<1>3. Answered(k)' = Answered(k) \/ Answered(k)' = Answered(k) \cup {Len(answers) + 1}
  BY AnsweredAppend
<1> QED
  BY <1>2, <1>3 DEF HasLast

-----------------------------------------------------------------------------
LEMMA InitIInv == Init => IInv
<1> SUFFICES ASSUME Init PROVE IInv
  OBVIOUS
<1> USE DEF Init
<1>1. MinKey \in Keys /\ Keys \subseteq Nat
  <2>1. PICK k \in Named : k \in MinKey..MaxKey
    OBVIOUS
  <2> QED
    BY <2>1 DEF Keys
<1>2. TypeOK
  <2>1. xkb \in BOOLEAN /\ skipped \in BOOLEAN /\ undone \in BOOLEAN
    BY Zenon
  <2>2. /\ keymap \in [Keys -> Codes \cup Keys \cup {0}] /\ isSet \in [Keys -> BOOLEAN]
        /\ pressed \in [Keys -> Codes \cup {Nothing}]
    OBVIOUS
  <2>3. answers \in Seq(Keys \X (Codes \cup {Nothing}))
    OBVIOUS
  <2> QED
    BY <1>1, <2>1, <2>2, <2>3 DEF TypeOK
<1>3. \A k \in Keys : Answered(k) = {}
  BY DEF Answered
<1>4. Asked /\ Printed
  BY DEF Asked, Printed
<1>5. Stored
  BY <1>1 DEF Stored
<1>6. Recorded
  BY <1>1, <1>3 DEF Recorded, Given
<1>7. Ordered
  BY <1>3 DEF Ordered, HasLast
<1> QED
  BY <1>2, <1>4, <1>5, <1>6, <1>7 DEF IInv

LEMMA NothingRecorded ==
  ASSUME IInv, UNCHANGED <<keymap, isSet, answers, undone, pressed>>
  PROVE  Stored' /\ Recorded' /\ Ordered'
<1>1. \A k \in Keys : Answered(k)' = Answered(k)
  BY DEF Answered
<1> DEFINE Latest(S) == CHOOSE i \in S : \A j \in S : j <= i
<1>2. ASSUME NEW k \in Keys PROVE Given(k)' = Given(k)
  <2>1. Given(k)' = IF Answered(k)' = {} THEN k ELSE answers'[Latest(Answered(k)')][2]
    BY DEF Given
  <2>2. Given(k) = IF Answered(k) = {} THEN k ELSE answers[Latest(Answered(k))][2]
    BY DEF Given
  <2>3. Answered(k)' = Answered(k) /\ answers' = answers
    BY <1>1
  <2> HIDE DEF Latest
  <2> QED
    BY <2>1, <2>2, <2>3
<1>3. Stored'
  BY DEF IInv, Stored
<1>4. Recorded'
  BY <1>1, <1>2 DEF IInv, Recorded
<1>5. Ordered'
  BY <1>1 DEF IInv, Ordered, HasLast
<1> QED
  BY <1>3, <1>4, <1>5

(* Where Prompt leaves the position and the output. *)
LEMMA PromptStep ==
  ASSUME running, TypeOK, NEW p \in Keys \cup {MaxKey + 1}, Prompt(p)
  PROVE  /\ pos' \in Keys \cup {MaxKey + 1}
         /\ running' \in BOOLEAN
         /\ running' => pos' \in Named /\ output' = {}
         /\ ~running' => output' = Lines(keymap', isSet')
<1>1. Named \subseteq Keys
  BY DEF Keys
<1> QED
  BY <1>1 DEF Prompt, WriteOut, TypeOK

(* Key, Skip: an answer is recorded and the next key asked for. *)
LEMMA AnswerStep ==
  ASSUME IInv, running, started, NEW code \in Codes \cup {Nothing},
         \/ /\ code # Nothing
            /\ keymap' = [keymap EXCEPT ![pos] = code]
            /\ isSet' = [isSet EXCEPT ![pos] = TRUE]
            /\ pressed' = [pressed EXCEPT ![pos] = code]
         \/ code = Nothing /\ UNCHANGED <<keymap, isSet, pressed>>,
         Answer(code), Prompt(pos + 1), UNCHANGED <<options, started, undone>>
  PROVE  IInv'
<1> USE DEF options
<1>1. pos \in Named /\ pos \in Keys /\ pos + 1 \in Keys \cup {MaxKey + 1}
  BY DEF IInv, TypeOK, Asked, Keys
<1>2. keymap \in [Keys -> Codes \cup Keys \cup {0}] /\ isSet \in [Keys -> BOOLEAN]
      /\ answers \in Seq(Keys \X (Codes \cup {Nothing}))
      /\ pressed \in [Keys -> Codes \cup {Nothing}]
  BY DEF IInv, TypeOK
<1>3. /\ pos' \in Keys \cup {MaxKey + 1}
      /\ running' \in BOOLEAN
      /\ running' => pos' \in Named /\ output' = {}
      /\ ~running' => output' = Lines(keymap', isSet')
  BY <1>1, PromptStep DEF IInv
<1>4. TypeOK'
  <2>1. answers' \in Seq(Keys \X (Codes \cup {Nothing}))
    BY <1>1, <1>2 DEF Answer
  <2>2. /\ keymap' \in [Keys -> Codes \cup Keys \cup {0}] /\ isSet' \in [Keys -> BOOLEAN]
        /\ pressed' \in [Keys -> Codes \cup {Nothing}]
    BY <1>2
  <2>3. Named \subseteq Keys
    BY DEF Keys
  <2> QED
    BY <1>3, <2>1, <2>2, <2>3 DEF IInv, TypeOK
<1>5. Asked' /\ Printed'
  <2>1. Lines(keymap', isSet') = Lines(keymap, isSet)'
    BY DEF Lines
  <2> QED
    BY <1>3, <2>1 DEF Asked, Printed
<1>6. Stored'
  BY <1>1, <1>2 DEF IInv, Stored
<1>7. Ordered' /\ Recorded'
  <2>1. CASE undone
    <3>1. answers' = answers
      BY <2>1 DEF Answer
    <3> QED
      BY <2>1, <3>1 DEF IInv, Ordered, Recorded, Answered
  <2>2. CASE ~undone
    <3>1. answers' = Append(answers, <<pos, code>>)
      BY <2>2 DEF Answer
    <3>2. \A k \in Keys : HasLast(Answered(k))
      BY DEF IInv, Ordered
    <3>3. \A k \in Keys : HasLast(Answered(k)')
      BY <1>1, <3>1, <3>2, OrderedAppend DEF IInv
    <3>4. Ordered'
      BY <3>3 DEF Ordered, HasLast
    <3>5. ASSUME NEW k \in Keys
          PROVE  /\ k < MaxKey => keymap'[k] = Given(k)'
                 /\ isSet'[k] <=> Answered(k)' # {}
      <4>1. Given(k)' = IF k = pos /\ code # Nothing THEN code ELSE Given(k)
        BY <1>1, <3>1, <3>2, GivenAppend DEF IInv
      <4>2. Answered(k)' = IF k = pos /\ code # Nothing
                           THEN Answered(k) \cup {Len(answers) + 1} ELSE Answered(k)
        BY <1>1, <3>1, AnsweredAppend DEF IInv
      <4>3. (k < MaxKey => keymap[k] = Given(k)) /\ (isSet[k] <=> Answered(k) # {})
        BY <2>2 DEF IInv, Recorded
      <4> QED
        BY <1>1, <1>2, <4>1, <4>2, <4>3
    <3> QED
      BY <3>4, <3>5 DEF Recorded
  <2> QED
    BY <2>1, <2>2
<1> QED
  BY <1>4, <1>5, <1>6, <1>7 DEF IInv

LEMMA NextIInv == IInv /\ [Next]_vars => IInv'
<1> SUFFICES ASSUME IInv, [Next]_vars PROVE IInv'
  OBVIOUS
<1>0. /\ keymap \in [Keys -> Codes \cup Keys \cup {0}] /\ isSet \in [Keys -> BOOLEAN]
      /\ Named \subseteq Keys
      /\ running => pos \in Keys
  BY DEF IInv, TypeOK, Keys
<1>1. CASE Start
  <2> USE <1>1 DEF Start, options
  <2>1. /\ pos' \in Keys \cup {MaxKey + 1}
        /\ running' \in BOOLEAN
        /\ running' => pos' \in Named /\ output' = {}
        /\ ~running' => output' = Lines(keymap', isSet')
    BY <1>0, PromptStep DEF IInv
  <2>2. TypeOK'
    BY <1>0, <2>1 DEF IInv, TypeOK
  <2>3. Asked' /\ Printed'
    BY <2>1 DEF Asked, Printed, Lines
  <2>4. Stored' /\ Recorded' /\ Ordered'
    BY NothingRecorded
  <2> QED
    BY <2>2, <2>3, <2>4 DEF IInv
<1>2. ASSUME NEW code \in Codes, Key(code) PROVE IInv'
  <2>1. code # Nothing /\ code \in Codes \cup {Nothing}
    BY DEF Nothing
  <2> QED
    BY <1>2, <2>1, AnswerStep DEF Key
<1>3. CASE Skip
  BY <1>3, AnswerStep DEF Skip
<1>4. CASE Undo
  <2> USE <1>4 DEF Undo, options
  <2>1. (IF pos > MinKey THEN pos - 1 ELSE pos) \in Keys
    BY <1>0 DEF Keys
  <2>2. /\ pos' \in Keys \cup {MaxKey + 1}
        /\ running' \in BOOLEAN
        /\ running' => pos' \in Named /\ output' = {}
        /\ ~running' => output' = Lines(keymap', isSet')
    BY <2>1, PromptStep DEF IInv
  <2>3. isSet' \in [Keys -> BOOLEAN] /\ \A k \in Keys : isSet'[k] => isSet[k]
    BY <1>0
  <2>4. TypeOK'
    BY <1>0, <2>2, <2>3 DEF IInv, TypeOK
  <2>5. Asked' /\ Printed'
    BY <2>2 DEF Asked, Printed, Lines
  <2>6. Stored'
    BY <2>3 DEF IInv, Stored
  <2>7. Recorded' /\ Ordered'
    BY DEF IInv, Recorded, Ordered, Answered
  <2> QED
    BY <2>4, <2>5, <2>6, <2>7 DEF IInv
<1>5. CASE PrintOutput
  <2> USE <1>5 DEF PrintOutput, WriteOut, options
  <2>1. TypeOK'
    BY DEF IInv, TypeOK
  <2>2. Asked' /\ Printed'
    BY DEF Asked, Printed, Lines
  <2>3. Stored' /\ Recorded' /\ Ordered'
    BY NothingRecorded
  <2> QED
    BY <2>1, <2>2, <2>3 DEF IInv
<1>6. CASE UNCHANGED vars
  <2> USE <1>6 DEF vars, options
  <2>1. TypeOK' /\ Asked' /\ Printed'
    BY DEF IInv, TypeOK, Asked, Printed, Lines
  <2>2. Stored' /\ Recorded' /\ Ordered'
    BY NothingRecorded
  <2> QED
    BY <2>1, <2>2 DEF IInv
<1> QED
  BY <1>1, <1>2, <1>3, <1>4, <1>5, <1>6 DEF Next, Exited

LEMMA Inductive == Spec => []IInv
BY InitIInv, NextIInv, PTL DEF Spec

-----------------------------------------------------------------------------
(* raw_keymap_pos stays inside the arrays while the program asks, and they  *)
(* keep their types.                                                        *)
THEOREM TypeCorrect == Spec => []TypeOK
<1>1. IInv => TypeOK
  BY DEF IInv
<1> QED
  BY <1>1, Inductive, PTL

(* What raw_keymap_print and xkb_keycodes_print write is what was answered, *)
(* as long as nothing has been undone.                                      *)
THEOREM AnswersArePrinted == Spec => []PrintsTheAnswers
<1>1. ASSUME IInv, ~running, ~undone PROVE output = Lines(keymap, isSet)
  BY <1>1 DEF IInv, Printed
<1>2. IInv => PrintsTheAnswers
  <2> SUFFICES ASSUME IInv, ~running, ~undone PROVE PrintsTheAnswers
    BY DEF PrintsTheAnswers
  <2>1. \A k \in Keys : (k < MaxKey => keymap[k] = Given(k)) /\ (isSet[k] <=> Answered(k) # {})
    BY DEF IInv, Recorded
  <2> DEFINE P(i) == i < MaxKey /\ (IF xkb THEN i \in Named /\ (isSet[i] \/ skipped) ELSE keymap[i] # i)
             Q(i) == i < MaxKey /\ (IF xkb THEN i \in Named /\ (Answered(i) # {} \/ skipped)
                                            ELSE Given(i) # i)
  <2>2. \A i \in Keys : P(i) <=> Q(i)
    BY <2>1
  <2>3. \A i \in Keys : P(i) => <<keymap[i], i>> = <<Given(i), i>>
    BY <2>1
  <2>4. {i \in Keys : P(i)} = {i \in Keys : Q(i)}
    BY <2>2
  <2>5. {<<keymap[k], k>> : k \in {i \in Keys : P(i)}} = {<<Given(k), k>> : k \in {i \in Keys : P(i)}}
    BY <2>3
  <2>6. {<<keymap[k], k>> : k \in {i \in Keys : P(i)}} = {<<Given(k), k>> : k \in {i \in Keys : Q(i)}}
    BY <2>4, <2>5
  <2> QED
    BY <1>1, <2>6 DEF Lines, PrintsTheAnswers
<1> QED
  BY <1>2, Inductive, PTL

(* However often answers are undone, a line gives a key the code that was    *)
(* pressed last when it was asked for, or itself.                           *)
THEOREM NoLineInvented == Spec => []NothingInvented
<1>1. IInv => NothingInvented
  <2> SUFFICES ASSUME IInv, ~running, NEW line \in output
               PROVE  /\ line[2] \in Named /\ line[2] < MaxKey
                      /\ \/ pressed[line[2]] # Nothing /\ line[1] = pressed[line[2]]
                         \/ pressed[line[2]] = Nothing /\ xkb /\ skipped /\ line[1] = line[2]
    BY DEF NothingInvented
  <2>1. PICK k \in Keys : /\ line = <<keymap[k], k>> /\ k < MaxKey
                          /\ IF xkb THEN k \in Named /\ (isSet[k] \/ skipped) ELSE keymap[k] # k
    BY DEF IInv, Printed, Lines
  <2> QED
    BY <2>1 DEF IInv, Stored
<1> QED
  BY <1>1, Inductive, PTL
==============================================================================
