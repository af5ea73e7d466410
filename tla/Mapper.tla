-------------------------------- MODULE Mapper --------------------------------
(***************************************************************************)
(* waynergy-mapper (mapper.c): the user is asked for every key of the      *)
(* local keymap in turn, presses it on the remote keyboard, skips it,      *)
(* undoes the last answer or has the mapping printed.                      *)
(***************************************************************************)
EXTENDS Integers, Sequences, FiniteSets, SequencesExt

CONSTANTS
  MinKey, MaxKey,   \* raw_keymap_min, raw_keymap_max
  Named,            \* keys xkb_keymap_key_get_name knows
  Codes,            \* key codes the compositor may report
  Buttons           \* the mouse buttons the user clicks: "left", "middle", "right"

ASSUME KeysAssumption == MinKey \in Nat /\ MaxKey \in Nat /\ Named \subseteq MinKey..MaxKey /\ Named # {}
ASSUME CodesAssumption == Codes \subseteq Nat
ASSUME ButtonsAssumption == Buttons \subseteq {"left", "middle", "right"}

Keys == MinKey..MaxKey
Nothing == -1

VARIABLES
  xkb,       \* --xkb: print an xkb_keycodes section instead of [raw-keymap]
  skipped,   \* --skipped: with the keys that have been skipped
  pos,       \* raw_keymap_pos
  keymap,    \* raw_keymap from MinKey on
  isSet,     \* raw_keymap_set
  started,
  running,
  output,    \* the lines <<remote, local>> printed, at the end
  answers,   \* history: until one is undone, the keys asked and the answers given, or skipped
  undone,    \* history: an answer has been undone
  pressed    \* history: the code last pressed when a key was asked for

options == <<xkb, skipped>>
vars == <<options, pos, keymap, isSet, started, running, output, answers, undone, pressed>>

TypeOK ==
  /\ xkb \in BOOLEAN /\ skipped \in BOOLEAN /\ undone \in BOOLEAN
  /\ pos \in Keys \cup {MaxKey + 1} /\ keymap \in [Keys -> Codes \cup Keys \cup {0}]
  /\ isSet \in [Keys -> BOOLEAN] /\ started \in BOOLEAN /\ running \in BOOLEAN
  /\ running => pos \in Keys /\ output = {}
  /\ answers \in Seq(Keys \X (Codes \cup {Nothing}))
  /\ pressed \in [Keys -> Codes \cup {Nothing}]

(* keyboard_keymap and raw_keymap_init: the last key is left at 0 *)
Init ==
  /\ xkb \in BOOLEAN /\ skipped \in BOOLEAN /\ undone = FALSE
  /\ pos = MinKey /\ isSet = [k \in Keys |-> FALSE]
  /\ keymap = [k \in Keys |-> IF k < MaxKey THEN k ELSE 0]
  /\ started = FALSE /\ running = TRUE /\ output = {} /\ answers = <<>>
  /\ pressed = [k \in Keys |-> Nothing]

(* raw_keymap_print and xkb_keycodes_print, which says so when it has no    *)
(* line: not the last key either                                            *)
Lines(map, set) ==
  {<<map[k], k>> : k \in {i \in Keys : i < MaxKey /\ (IF xkb THEN i \in Named /\ (set[i] \/ skipped) ELSE map[i] # i)}}

(* raw_keymap_prompt: the first key from k on that has a name; there may be *)
(* none, and raw_keymap_next prints what there is.                          *)
WriteOut == running' = FALSE /\ output' = Lines(keymap', isSet')
Prompt(k) ==
  LET named == {i \in Named : i >= k}
  IN  \/ named = {} /\ pos' = MaxKey + 1 /\ WriteOut
      \/ \E i \in named : /\ \A j \in named : i <= j
                         /\ pos' = i
                         /\ UNCHANGED <<running, output>>

Answer(code) == answers' = IF undone THEN answers ELSE Append(answers, <<pos, code>>)

(* The first click, released on the window *)
Start ==
  /\ running /\ ~started
  /\ started' = TRUE
  /\ UNCHANGED <<options, keymap, isSet, answers, undone, pressed>>
  /\ Prompt(pos)

KeyLate(code) ==          \* mutant: the position is advanced before the code is stored
  /\ running /\ started
  /\ keymap' = [keymap EXCEPT ![pos + 1] = code]
  /\ isSet' = [isSet EXCEPT ![pos + 1] = TRUE]
  /\ Answer(code) /\ pressed' = [pressed EXCEPT ![pos] = code]
  /\ Prompt(pos + 1)
  /\ UNCHANGED <<options, started, undone>>

(* keyboard_key: raw_keymap_store, raw_keymap_next *)
Key(code) ==
  /\ running /\ started
  /\ keymap' = [keymap EXCEPT ![pos] = code]
  /\ isSet' = [isSet EXCEPT ![pos] = TRUE]
  /\ Answer(code) /\ pressed' = [pressed EXCEPT ![pos] = code]
  /\ Prompt(pos + 1)
  /\ UNCHANGED <<options, started, undone>>

SkipAnswered ==           \* mutant: a key that is skipped counts as answered
  /\ running /\ started /\ "left" \in Buttons
  /\ isSet' = [isSet EXCEPT ![pos] = TRUE]
  /\ Answer(Nothing)
  /\ UNCHANGED <<options, keymap, started, undone, pressed>>
  /\ Prompt(pos + 1)

(* left: raw_keymap_next *)
Skip ==
  /\ running /\ started /\ "left" \in Buttons
  /\ Answer(Nothing)
  /\ UNCHANGED <<options, keymap, isSet, started, undone, pressed>>
  /\ Prompt(pos + 1)

(* middle: raw_keymap_prev forgets the key it leaves, not the one it returns to *)
Undo ==
  /\ running /\ started /\ "middle" \in Buttons
  /\ isSet' = IF pos > MinKey THEN [isSet EXCEPT ![pos] = FALSE] ELSE isSet
  /\ undone' = TRUE
  /\ UNCHANGED <<options, keymap, started, answers, pressed>>
  /\ Prompt(IF pos > MinKey THEN pos - 1 ELSE pos)

(* right: print_output *)
PrintOutput ==
  /\ running /\ started /\ "right" \in Buttons
  /\ UNCHANGED <<options, pos, keymap, isSet, started, answers, undone, pressed>>
  /\ WriteOut

Exited == ~running /\ UNCHANGED vars

Next == Start \/ (\E code \in Codes : Key(code)) \/ Skip \/ Undo \/ PrintOutput \/ Exited
Spec == Init /\ [][Next]_vars

-----------------------------------------------------------------------------
(* Properties. *)

(* The mapping the user has given: a key not answered is mapped to itself.  *)
Answered(k) == {i \in DOMAIN answers : answers[i][1] = k /\ answers[i][2] # Nothing}
Given(k) == IF Answered(k) = {} THEN k
            ELSE answers[CHOOSE i \in Answered(k) : \A j \in Answered(k) : j <= i][2]

(* As long as nothing is undone, what is printed is what was answered: a    *)
(* line for every key mapped to another code, and none for a key that was   *)
(* skipped; or, with --xkb, one for every key answered (or, with --skipped, *)
(* asked).  The last key of the keymap is never printed.                    *)
PrintsTheAnswers ==
  ~running /\ ~undone =>
    output = {<<Given(k), k>> : k \in {i \in Keys : i < MaxKey /\
                (IF xkb THEN i \in Named /\ (Answered(i) # {} \/ skipped) ELSE Given(i) # i)}}

(* However often answers are undone and keys asked for again, a line gives  *)
(* a key the code that was pressed last when that key was asked for -- also *)
(* when this answer was undone and no other given, so that "To undo, middle *)
(* click" undoes less than it says -- or, with --skipped, the key itself if *)
(* none ever was; and no key without a name, nor the last, has a line.      *)
NothingInvented ==
  ~running => \A line \in output :
    /\ line[2] \in Named /\ line[2] < MaxKey
    /\ \/ pressed[line[2]] # Nothing /\ line[1] = pressed[line[2]]
       \/ pressed[line[2]] = Nothing /\ xkb /\ skipped /\ line[1] = line[2]
===============================================================================
