------------------------------- MODULE Startup -------------------------------
(***************************************************************************)
(* The configuration and its life: config.ini, the snippets of config.ini.d *)
(* in the order in which readdir finds them, files with a single value,    *)
(* and the command line decide how main starts; the commands run when the  *)
(* screen is entered or left are looked up at that moment; a restart reads *)
(* everything again.  A file that is read is never closed, and its         *)
(* descriptor survives the restart.                                        *)
(***************************************************************************)
EXTENDS Ini, Options

CONSTANTS
  Inputs,        \* what may be given: [argv, inis, single]
  Edits,         \* contents the user may give a single-value file meanwhile
  NumberOf,      \* what strtol makes of a value, unless that is out of range
  IsTrue,        \* the values with "yes", "true" or "on" in them
  Descriptors,   \* files that can be open besides what the rest of the program has opened
  MaxRestarts    \* bound

NoFile == "no file"
ConfigIni == "config.ini"
Sides == {"enter", "exit"}
Enter == <<"screen", "enter">>
Exit == <<"screen", "exit">>
Command == [enter |-> Enter, exit |-> Exit]
Width == <<Global, "width">>
Height == <<Global, "height">>
TlsEnable == <<"tls", "enable">>
Keys == {Enter, Exit, Width, Height, TlsEnable}
Ran(f) == {f[x] : x \in DOMAIN f}

ASSUME EditsAssumption == Edits \subseteq Values \cup {NoFile} /\ NoFile \notin Values
ASSUME ConversionAssumption ==
  /\ DOMAIN NumberOf \subseteq Values \cup {Junk, Rest} /\ Ran(NumberOf) \subseteq Int
  /\ IsTrue \subseteq Values \cup {Rest}      \* Rest: if the lines that follow have such a word
ASSUME KeysAssumption == Keys \subseteq Names \X (Names \ {Global})
ASSUME InputsAssumption ==
  \A in \in Inputs :
    /\ DOMAIN in.single = Keys /\ Ran(in.single) \subseteq Values \cup {NoFile}
    /\ Ran(in.inis) \subseteq Seq(FileLines)
    /\ in.argv \in Seq(Ran(in.argv)) /\ \A w \in Ran(in.argv) : IsWord(w)
ASSUME BoundsAssumption == Descriptors \in Nat /\ MaxRestarts \in Nat

VARIABLES
  argv,        \* the words of the command line
  disk,        \* the files: config.ini and the snippets, and those with a single value
  pc,          \* "ini", "snippets", "defaults", "options", "geometry", "running" or "stopped"
  ini,         \* config_ini
  left,        \* snippets that readdir has still to find
  leaked,      \* descriptors of files that were read
  settings,    \* what the configuration and the options have set
  optind, cpos,
  ran,         \* the command run last
  seen,        \* history: the files read into ini, in this order
  configured,  \* history: the settings before any option
  restarts     \* history

files == <<argv, disk>>
reading == <<ini, left, seen>>
parsing == <<optind, cpos>>
vars == <<files, pc, reading, leaked, settings, parsing, ran, configured, restarts>>

Unset == [width |-> 0, height |-> 0, crypto |-> FALSE, clip |-> TRUE, fatal |-> FALSE, man |-> FALSE]

Begin ==
  /\ ini = Create /\ left = {} /\ seen = <<>>
  /\ settings = Unset /\ configured = Unset /\ optind = 0 /\ cpos = 0

Init ==
  /\ \E in \in Inputs :
       argv = in.argv /\ disk = [inis |-> in.inis, single |-> in.single]
  /\ pc = "ini" /\ leaked = 0 /\ ran = NoFile /\ restarts = 0
  /\ Begin

-----------------------------------------------------------------------------
(* fopen or the like, while n descriptors are in use besides the leaked. *)
Opens(n) == leaked + n < Descriptors
Snippets == DOMAIN disk.inis \ {ConfigIni}

(* configInitINI: config.ini, then opendir *)
ReadIni ==
  /\ pc = "ini" /\ pc' = "snippets"
  /\ IF Opens(0) /\ ConfigIni \in DOMAIN disk.inis
     THEN /\ ini' = Load(disk.inis[ConfigIni]) /\ seen' = <<disk.inis[ConfigIni]>>
          /\ leaked' = leaked + 1
     ELSE ini' = Create /\ seen' = << <<>> >> /\ UNCHANGED leaked
  /\ left' = (IF leaked' < Descriptors THEN Snippets ELSE {})
  /\ UNCHANGED <<files, settings, parsing, ran, configured, restarts>>

(* ini_d_load: the snippet that readdir finds next, in the open directory.  *)
(* Memory that is freed twice may end the program.                          *)
ReadSnippet ==
  /\ pc = "snippets"
  /\ \E name \in left :
       /\ left' = left \ {name}
       /\ IF Opens(1)
          THEN /\ ini' = Cat(ini, Load(disk.inis[name]))
               /\ seen' = Append(seen, disk.inis[name]) /\ leaked' = leaked + 1
          ELSE UNCHANGED <<ini, seen, leaked>>
  /\ pc' = pc \/ (ini'.twice /\ pc' = "stopped")
  /\ UNCHANGED <<files, settings, parsing, ran, configured, restarts>>

(* configReadFile and configReadLines: the ini first, then a file           *)
FromFile(key, n) == IF Opens(n) THEN disk.single[key] ELSE NoFile
ConfigReadFilesFirst(key, n) ==   \* mutant: a file wins over the ini
  IF FromFile(key, n) # NoFile \/ TryReadIni(ini, key) = Missing
  THEN FromFile(key, n) ELSE TryReadIni(ini, key)
ConfigRead(key, n) ==
  IF TryReadIni(ini, key) # Missing THEN TryReadIni(ini, key) ELSE FromFile(key, n)
Used(key, n) == IF TryReadIni(ini, key) = Missing /\ FromFile(key, n) # NoFile THEN n + 1 ELSE n

(* configTryLong and configTryBool *)
TryLong(key, n, def) ==
  IF ConfigRead(key, n) \in DOMAIN NumberOf THEN NumberOf[ConfigRead(key, n)] ELSE def
TryBool(key, n, def) ==
  IF ConfigRead(key, n) = NoFile THEN def ELSE ConfigRead(key, n) \in IsTrue

UInt16(n) == n % 65536

(* The values before the options *)
ReadDefaults ==
  /\ pc = "snippets" /\ left = {} /\ pc' = "options"
  /\ LET used == Used(TlsEnable, 0)
         then == Used(Width, used)
     IN  /\ settings' = [Unset EXCEPT !.crypto = TryBool(TlsEnable, 0, FALSE),
                                      !.width = UInt16(TryLong(Width, used, 0)),
                                      !.height = UInt16(TryLong(Height, then, 0))]
         /\ leaked' = leaked + Used(Height, then)
  /\ configured' = settings'
  /\ UNCHANGED <<files, reading, parsing, ran, restarts>>

-----------------------------------------------------------------------------
(* The switch of main. *)
Apply(set, opt, arg) ==
  CASE opt = "W" -> [set EXCEPT !.width = UInt16(arg)]
    [] opt = "H" -> [set EXCEPT !.height = UInt16(arg)]
    [] opt = "e" -> [set EXCEPT !.crypto = TRUE]
    [] opt = "E" -> [set EXCEPT !.crypto = FALSE]
    [] opt = "n" -> [set EXCEPT !.clip = FALSE]
    [] opt = "F" -> [set EXCEPT !.fatal = TRUE]
    [] OTHER -> set

ParseOption ==
  /\ pc = "options"
  /\ LET got == GetOpt(argv, optind, cpos)
     IN  /\ settings' = Apply(settings, got.opt, got.arg)
         /\ optind' = got.ind /\ cpos' = got.pos
         /\ pc' = (IF got.opt = Nothing THEN "geometry"
                   ELSE IF got.opt \in {Invalid, "h"} THEN "stopped" ELSE pc)
  /\ UNCHANGED <<files, reading, leaked, ran, configured, restarts>>

(* Both dimensions or none; and the rest of the start needs a descriptor,   *)
(* for the connection to the compositor, which the program keeps.           *)
Geometry ==
  /\ pc = "geometry"
  /\ pc' = IF (settings.width = 0 <=> settings.height = 0) /\ Opens(0) THEN "running" ELSE "stopped"
  /\ settings' = [settings EXCEPT !.man = settings.width # 0]
  /\ UNCHANGED <<files, reading, leaked, parsing, ran, configured, restarts>>

-----------------------------------------------------------------------------
(* syn_active_cb, the compositor's descriptor being in use *)
ScreenActive(side) ==
  /\ pc = "running"
  /\ ran' = ConfigRead(Command[side], 1)
  /\ leaked' = leaked + Used(Command[side], 1) - 1
  /\ UNCHANGED <<files, pc, reading, settings, parsing, configured, restarts>>

Edit ==
  /\ pc = "running"
  /\ \E text \in Edits : disk' = [disk EXCEPT !.single[Enter] = text]
  /\ UNCHANGED <<argv, pc, reading, leaked, settings, parsing, ran, configured, restarts>>

(* Restart: execvp with the same words *)
Restart ==
  /\ pc = "running" /\ restarts < MaxRestarts
  /\ pc' = "ini" /\ restarts' = restarts + 1
  /\ ini' = Create /\ left' = {} /\ seen' = <<>>
  /\ settings' = Unset /\ configured' = Unset /\ optind' = 0 /\ cpos' = 0
  /\ UNCHANGED <<files, leaked, ran>>

Stopped == pc = "stopped" /\ UNCHANGED vars

Next ==
  \/ ReadIni \/ ReadSnippet \/ ReadDefaults \/ ParseOption \/ Geometry
  \/ (\E side \in Sides : ScreenActive(side)) \/ Edit \/ Restart \/ Stopped

Spec == Init /\ [][Next]_vars

-----------------------------------------------------------------------------
(* What the files say of a key, line by line. *)

SectionAt(file, j) ==
  LET headers == {h \in 1..j : file[h].header}
  IN  IF headers = {} THEN Global ELSE file[Max(headers)].name

RelatedSections(s, t) == IF Global \in {s, t} THEN s = t ELSE Related(s, t)

Headers(file, key) == {j \in DOMAIN file : file[j].header /\ RelatedSections(key[1], file[j].name)}
Lines(file, key) == {j \in DOMAIN file : /\ ~file[j].header
                                         /\ RelatedSections(key[1], SectionAt(file, j))
                                         /\ Related(key[2], file[j].name)}

(* Nothing in the files can be taken for the key's section or name but what *)
(* is meant, config.ini has it once, with a value, and no long value gives  *)
(* way to a short one.                                                      *)
Plainly(key) ==
  LET sections == UNION {{seen[i][j].name : j \in Headers(seen[i], key)} : i \in DOMAIN seen}
      names == UNION {{seen[i][j].name : j \in Lines(seen[i], key)} : i \in DOMAIN seen}
      vals == UNION {{seen[i][j].val : j \in Lines(seen[i], key)} : i \in DOMAIN seen}
  IN  /\ \A s \in sections : <<key[1], s>> \in Prefix /\ sections = {s}
      /\ \A n \in names : <<key[2], n>> \in Prefix /\ names = {n}
      /\ Cardinality(Headers(seen[1], key)) <= 1 /\ Cardinality(Lines(seen[1], key)) <= 1
      /\ Blank \notin vals /\ (vals \cap Long = {} \/ vals \subseteq Long)

(* The last line of the last file that has the key *)
Written(key) ==
  LET having == {i \in DOMAIN seen : Lines(seen[i], key) # {}}
  IN  IF having = {} THEN Missing
      ELSE LET file == seen[Max(having)] IN file[Max(Lines(file, key))].val

-----------------------------------------------------------------------------
(* Properties. *)

(* Of a key that is plainly written, the value in the last of the files     *)
(* that could be read is the one that is found, in whichever order readdir  *)
(* finds them and although some could not be opened for want of             *)
(* descriptors: "Any duplicate options will overwrite any read previously"  *)
(* (README).                                                                *)
LastFileWins ==
  seen # <<>> => \A key \in Keys : Plainly(key) => TryReadIni(ini, key) = Written(key)

(* However the names are spelled and repeated, what is found was written    *)
(* under a name that is, or begins with, the one that is looked for, or has *)
(* become so by a line whose name could be taken for it; only a line with   *)
(* an empty value yields what nobody wrote there, the rest of its file.     *)
FoundWasWritten ==
  \A key \in Keys :
    TryReadIni(ini, key) \notin {Missing, Junk} =>
      \E i \in DOMAIN seen : \E j \in Lines(seen[i], key) : ValueOf(seen[i][j].val) = TryReadIni(ini, key)

(* The program runs with what the last option says, in whichever form and   *)
(* word it is written, and else with what the files say.                    *)
OptionsOverride ==
  pc = "running" =>
    /\ \A o \in Shorts :
         LET set == IF o = "W" THEN settings.width ELSE settings.height
             conf == IF o = "W" THEN configured.width ELSE configured.height
         IN  set = IF Given(argv, {o}) # {} THEN UInt16(LastArg(argv, o)) ELSE conf
    /\ settings.crypto = IF Given(argv, {"e", "E"}) # {}
                         THEN LastOpt(argv, {"e", "E"}) = "e" ELSE configured.crypto
    /\ settings.clip = (Given(argv, {"n"}) = {}) /\ settings.fatal = (Given(argv, {"F"}) # {})

(* Whenever the screen is entered or left, the command that was plainly     *)
(* written when the program started is run: whatever files were edited      *)
(* since, and however many descriptors are left.                            *)
CommandIsRun ==
  [][\A side \in Sides :
       ScreenActive(side) /\ Plainly(Command[side]) /\ Written(Command[side]) # Missing
         => ran' = Written(Command[side])]_vars
==============================================================================
