--------------------------------- MODULE Ini ---------------------------------
(***************************************************************************)
(* ini files as ini.h keeps and config.c combines them: sections and       *)
(* properties in the order in which they were added, found by comparing    *)
(* no more of a name than the name that is looked for has letters, whatever *)
(* their case.  A value that is too long for its property's own field is    *)
(* allocated.                                                              *)
(***************************************************************************)
EXTENDS Integers, Sequences, SequencesExt, FiniteSetsExt

CONSTANTS
  Names,    \* of sections and properties, as they are spelled in the files
  Prefix,   \* <<n, m>>: m begins with n, in any case
  Values,   \* what is written after the =
  Long      \* those that are allocated

Global == ""       \* the section before the first header
Blank == ""        \* nothing after the =
Rest == "rest"     \* the rest of a file, from a line's end
Junk == "junk"     \* what is read from memory that was freed
Missing == "missing"
NotFound == 0

(* Names of which one begins with the other: a lookup, or Cat, may take one *)
(* for the other.                                                           *)
Related(n, m) == <<n, m>> \in Prefix \/ <<m, n>> \in Prefix

(* Two names that a third one begins with are related: the shorter one is   *)
(* the beginning of the longer one.                                         *)
ASSUME NamesAssumption ==
  /\ Global \in Names /\ Prefix \subseteq Names \X Names
  /\ \A n \in Names : <<n, n>> \in Prefix /\ <<Global, n>> \in Prefix
  /\ \A n \in Names : <<n, Global>> \in Prefix => n = Global
  /\ \A n, m, k \in Names :
       /\ <<n, m>> \in Prefix /\ <<m, k>> \in Prefix => <<n, k>> \in Prefix
       /\ <<n, k>> \in Prefix /\ <<m, k>> \in Prefix => Related(n, m)
ASSUME ValuesAssumption ==
  /\ Long \subseteq Values \cup {Rest} /\ Blank \notin Long
  /\ {Rest, Junk, Missing} \cap Values = {}

(* The lines of a file: [name] or name=value.  As with values, a name       *)
(* without a letter is taken for the rest of the file, from the ] or the =, *)
(* which is a name of its own.                                              *)
Header(n) == [header |-> TRUE, name |-> n, val |-> Missing]
Entry(n, v) == [header |-> FALSE, name |-> n, val |-> v]
FileLines == {Header(n) : n \in Names \ {Global}}
             \cup {Entry(n, v) : n \in Names \ {Global}, v \in Values}

-----------------------------------------------------------------------------
(* ini.h *)

(* twice: memory was freed twice *)
Create == [sections |-> <<Global>>, props |-> <<>>, twice |-> FALSE]
SectionAdd(ini, name) == [ini EXCEPT !.sections = Append(@, name)]

PropertyAdd(ini, s, name, val) ==
  [ini EXCEPT !.props = Append(@, [sec |-> s, name |-> name, val |-> val, freed |-> FALSE])]

(* The first of those that begin with the name.  ini_find_property looks at *)
(* the whole array, whose unused part is taken to hold no such name.        *)
First(found) == IF found = {} THEN NotFound ELSE Min(found)
FindSection(ini, name) == First({s \in DOMAIN ini.sections : <<name, ini.sections[s]>> \in Prefix})
FindPropertyAnywhere(ini, s, name) ==    \* mutant: in whichever section
  First({p \in DOMAIN ini.props : <<name, ini.props[p].name>> \in Prefix})
FindProperty(ini, s, name) ==
  First({p \in DOMAIN ini.props : ini.props[p].sec = s /\ <<name, ini.props[p].name>> \in Prefix})

PropertyValue(ini, p) == IF ini.props[p].freed THEN Junk ELSE ini.props[p].val

(* The old allocation is freed, and the pointer to it not forgotten: a      *)
(* short value is written to the field that is not looked at then, and the  *)
(* next value frees it once more.                                           *)
PropertyValueSet(ini, p, val) ==
  LET old == ini.props[p]
  IN  [ini EXCEPT !.props[p].val = val,
                  !.props[p].freed = val \notin Long /\ (old.freed \/ old.val \in Long),
                  !.twice = @ \/ old.freed]

(* A value without a letter is taken for one whose length is to be measured. *)
ValueOf(val) == IF val = Blank THEN Rest ELSE val

(* A header opens a new section, also under a name that is there already.   *)
LoadLine(loaded, line) ==
  IF line.header
  THEN [ini |-> SectionAdd(loaded.ini, line.name), at |-> Len(loaded.ini.sections) + 1]
  ELSE [loaded EXCEPT !.ini = PropertyAdd(@, loaded.at, line.name, ValueOf(line.val))]
Load(lines) ==
  LET loaded[i \in 0..Len(lines)] ==
        IF i = 0 THEN [ini |-> Create, at |-> 1] ELSE LoadLine(loaded[i - 1], lines[i])
  IN  loaded[Len(lines)].ini

-----------------------------------------------------------------------------
(* ini_cat of config.c *)

CatPropertyKept(dst, s, prop) ==         \* mutant: what was read before stays
  IF FindProperty(dst, s, prop.name) = NotFound
  THEN PropertyAdd(dst, s, prop.name, prop.val) ELSE dst

CatProperty(dst, s, prop) ==
  LET p == FindProperty(dst, s, prop.name)
  IN  IF p = NotFound
      THEN PropertyAdd(dst, s, prop.name, prop.val)
      ELSE PropertyValueSet(dst, p, prop.val)

(* The properties of a section, in their order *)
CatSection(dst, src, s) ==
  LET found == FindSection(dst, src.sections[s])
      into == IF found = NotFound THEN SectionAdd(dst, src.sections[s]) ELSE dst
      at == IF found = NotFound THEN Len(into.sections) ELSE found
      cat[p \in 0..Len(src.props)] ==
        IF p = 0 THEN into
        ELSE IF src.props[p].sec = s THEN CatProperty(cat[p - 1], at, src.props[p])
        ELSE cat[p - 1]
  IN  cat[Len(src.props)]

Cat(dst, src) ==
  LET cat[s \in 0..Len(src.sections)] ==
        IF s = 0 THEN dst ELSE CatSection(cat[s - 1], src, s)
  IN  cat[Len(src.sections)]

-----------------------------------------------------------------------------
(* try_read_ini and read_full_section_ini of config.c, for <<section, name>> *)

TryReadIni(ini, key) ==
  LET s == IF key[1] = Global THEN 1 ELSE FindSection(ini, key[1])
      p == IF s = NotFound THEN NotFound ELSE FindProperty(ini, s, key[2])
  IN  IF p = NotFound THEN Missing ELSE PropertyValue(ini, p)
==============================================================================
