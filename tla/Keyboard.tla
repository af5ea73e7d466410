------------------------------- MODULE Keyboard -------------------------------
(***************************************************************************)
(* Key events from the packet (DKDN, DKRP, DKUP, COUT) to the compositor:  *)
(* the keymaps wl_input.c loads from the configuration, its count of how   *)
(* often each key is pressed, and the release of all of them when the      *)
(* screen is left.  The server's view of its keys and the compositor's     *)
(* view of the virtual keyboard are kept beside it.                        *)
(***************************************************************************)
EXTENDS Integers, Sequences, FiniteSets, SequencesExt, FiniteSetsExt

CONSTANTS
  Keys,              \* the keys of the server's keyboard, each [key, id]
  XkbMax,            \* xkb_keymap_max_keycode
  RawConfig,         \* the lines of [raw-keymap], <<remote, local>>
  Offset,            \* raw-keymap/offset + xkb_key_offset
  OffsetOnExplicit,  \* raw-keymap/offset_on_explicit
  IdConfig,          \* the lines of [id-keymap]
  RawKeyCodes,       \* syn_raw_key_codes
  IdleKey,           \* idle-inhibit/keycode
  Env,               \* what else happens; see Hazards
  MaxPressed         \* bound: times a key is pressed without a release

(* The connection may break, an id may differ between the press and the     *)
(* release of a key, and keys pressed on another screen be released here.   *)
Hazards == {"break", "reid", "stray"}

ASSUME KeysAssumption == Keys \subseteq [key : Nat, id : Nat] /\ XkbMax \in Nat
ASSUME ConfigAssumption ==
  /\ RawConfig \in Seq(Nat \X (Nat \cup {-1})) /\ IdConfig \in Seq(Nat \X (Nat \cup {-1}))
  /\ Offset \in Nat /\ OffsetOnExplicit \in BOOLEAN /\ RawKeyCodes \in BOOLEAN
  /\ IdleKey \in Nat \cup {-1}
ASSUME EnvAssumption == Env \subseteq Hazards /\ MaxPressed \in Nat \ {0}

-----------------------------------------------------------------------------
(* The keymaps, as load_raw_keymap and load_id_keymap leave them. *)

KeyCount == Max({XkbMax + 1} \cup {line[1] + 1 : line \in ToSet(RawConfig)})

(* The last line for a key counts. *)
Mapped(config, lkey) == config[Max({i \in DOMAIN config : config[i][1] = lkey})][2]
Listed(config) == {line[1] : line \in ToSet(config)}

RawKeymap == [key \in 0..KeyCount - 1 |->
  IF key \in Listed(RawConfig)
  THEN Mapped(RawConfig, key) + (IF OffsetOnExplicit THEN Offset ELSE 0)
  ELSE key + Offset]

(* key_press_state_len: an int compared as a size_t, so that -1 is the      *)
(* largest of all and starts the array over.                                *)
Grow(len, line) == IF line[2] = -1 \/ line[2] >= len THEN line[2] + 1 ELSE len
InitialLen ==
  LET lines == RawConfig \o IdConfig
      len[i \in 0..Len(lines)] == IF i = 0 THEN 0 ELSE Grow(len[i - 1], lines[i])
  IN  len[Len(lines)]

Dropped == -1

(* wlKey: the code a key event is for, by id if it has a mapping of its own *)
Target(k) ==
  LET key == IF RawKeyCodes THEN k.key ELSE k.id
  IN  IF k.id \in Listed(IdConfig) THEN Mapped(IdConfig, k.id)
      ELSE IF key >= KeyCount THEN Dropped ELSE RawKeymap[key]

-----------------------------------------------------------------------------
VARIABLES
  pressState,    \* key_press_state, of key_press_state_len entries
  screenActive,  \* argument of the last syn_active_cb
  entered,       \* the server has the cursor on this screen
  held,          \* keys the server holds down here
  seat,          \* codes that are down for the compositor
  regular        \* history: none of the hazards has struck

vars == <<pressState, screenActive, entered, held, seat, regular>>

(* The counts are an array, no longer than the configuration and the codes  *)
(* met have made it.                                                        *)
TypeOK ==
  /\ pressState \in [DOMAIN pressState -> 0..MaxPressed]
  /\ \A code \in DOMAIN pressState :
       /\ code \in Nat /\ 0..code \subseteq DOMAIN pressState
       /\ code < InitialLen \/ \E met \in {IdleKey} \cup {Target(k) : k \in Keys} : code <= met
  /\ screenActive \in BOOLEAN /\ entered \in BOOLEAN /\ regular \in BOOLEAN
  /\ held \subseteq Keys /\ seat \subseteq DOMAIN pressState

Init ==
  /\ pressState = [code \in 0..InitialLen - 1 |-> 0]
  /\ screenActive = FALSE /\ entered = FALSE /\ held = {} /\ seat = {} /\ regular = TRUE

Pressed(code) == IF code \in DOMAIN pressState THEN pressState[code] ELSE 0

(* The array, made longer if the code is beyond it. *)
Resized(code) == [c \in DOMAIN pressState \cup 0..code |-> Pressed(c)]

(* wlKeyRaw(code, 1) and wlKeyRaw(code, 0) *)
PressRaw(code) ==
  /\ pressState' = [Resized(code) EXCEPT ![code] = @ + 1]
  /\ seat' = seat \cup {code}

ReleaseRawAlways(code) ==                    \* mutant: a superfluous release counts
  /\ pressState' = [Resized(code) EXCEPT ![code] = @ - 1] /\ seat' = seat \ {code}
ReleaseRawUntold(code) ==                    \* mutant: the compositor is not told
  /\ pressState' = IF Pressed(code) = 0 THEN Resized(code) ELSE [pressState EXCEPT ![code] = @ - 1]
  /\ UNCHANGED seat

ReleaseRaw(code) ==
  IF Pressed(code) = 0
  THEN pressState' = Resized(code) /\ UNCHANGED seat
  ELSE pressState' = [pressState EXCEPT ![code] = @ - 1] /\ seat' = seat \ {code}

NoKey == UNCHANGED <<pressState, seat>>

-----------------------------------------------------------------------------
(* DKDN: the server presses a key that is up. *)
KeyDown(k) ==
  /\ entered /\ k \notin held /\ Pressed(Target(k)) < MaxPressed
  /\ held' = held \cup {k}
  /\ IF Target(k) = Dropped THEN NoKey ELSE PressRaw(Target(k))
  /\ UNCHANGED <<screenActive, entered, regular>>

KeyRepeatPresses(k) ==                       \* mutant: a repeat is a press
  /\ k \in held /\ Target(k) # Dropped /\ Pressed(Target(k)) < MaxPressed
  /\ PressRaw(Target(k))
  /\ UNCHANGED <<screenActive, entered, held, regular>>

(* DKRP goes no further than syn_key_cb. *)
KeyRepeat(k) == k \in held /\ UNCHANGED vars

(* DKUP, with the id of the press or another one *)
KeyUp(k, as) ==
  /\ entered
  /\ k \in held \/ "stray" \in Env
  /\ as = k \/ ("reid" \in Env /\ as.key = k.key)
  /\ held' = held \ {k}
  /\ regular' = (regular /\ k \in held /\ as = k)
  /\ IF Target(as) = Dropped THEN NoKey ELSE ReleaseRaw(Target(as))
  /\ UNCHANGED <<screenActive, entered>>

(* on_idle_key: a press and a release in one go *)
Idle ==
  /\ IdleKey # -1
  /\ pressState' = Resized(IdleKey)
  /\ seat' = seat \ {IdleKey}
  /\ UNCHANGED <<screenActive, entered, held, regular>>

Enter ==
  /\ ~entered
  /\ entered' = TRUE /\ screenActive' = TRUE
  /\ UNCHANGED <<pressState, held, seat, regular>>

ReleaseAllOnce ==                            \* mutant: one release for each key
  /\ pressState' = [code \in DOMAIN pressState |-> IF pressState[code] = 0 THEN 0 ELSE pressState[code] - 1]
  /\ seat' = {code \in seat : pressState[code] = 0}

(* wlKeyReleaseAll: as many releases as there were presses *)
ReleaseAll ==
  /\ pressState' = [code \in DOMAIN pressState |-> 0]
  /\ seat' = {code \in seat : pressState[code] = 0}

(* COUT; the keys still down are the next screen's. *)
Leave ==
  /\ entered
  /\ entered' = FALSE /\ screenActive' = FALSE /\ held' = {}
  /\ ReleaseAll
  /\ UNCHANGED regular

(* The connection is lost, and no callback says so. *)
Disconnect ==
  /\ "break" \in Env
  /\ entered' = FALSE /\ held' = {} /\ regular' = FALSE
  /\ UNCHANGED <<pressState, screenActive, seat>>

Next ==
  \/ \E k \in Keys : KeyDown(k) \/ KeyRepeat(k)
  \/ \E k, as \in Keys : KeyUp(k, as)
  \/ Idle \/ Enter \/ Leave \/ Disconnect

Spec == Init /\ [][Next]_vars

-----------------------------------------------------------------------------
(* Properties. *)

(* On a server that keeps to the rules a key counts as pressed as often as  *)
(* the server holds keys that map to it: two keys may share one code, as on *)
(* Windows servers, and neither's release is taken for the other's, nor is  *)
(* it lost to the idle key.                                                 *)
CountsAreKeysHeld ==
  regular => \A code \in DOMAIN pressState :
    pressState[code] = Cardinality({k \in held : Target(k) = code})

(* What the compositor believes to be down is counted, so that a release of *)
(* all keys reaches it: whatever connection, ids and other screens do.      *)
DownIsCounted == \A code \in seat : pressState[code] > 0

(* Nothing stays down on a screen that has been left, not even keys that a  *)
(* lost connection or a changed id had left behind before.                  *)
NoneLeftDown ==
  ~screenActive => seat = {} /\ \A code \in DOMAIN pressState : pressState[code] = 0
===============================================================================
