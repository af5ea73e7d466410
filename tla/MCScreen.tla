------------------------------ MODULE MCScreen -------------------------------
(* Screen on a small keyboard: two keys with the same button and different  *)
(* ids, one remapped by id, one dropped by a mapping to -1, one that is     *)
(* outside the keymap, and one mapped twice in the file.                    *)
EXTENDS Screen

K(key, id) == [key |-> key, id |-> id]
MCKeys == {K(1, 0), K(1, 5), K(2, 2), K(3, 3), K(9, 9)}
MCRawConfig == << <<2, 7>>, <<4, -1>>, <<2, 1>>, <<3, 2>> >>
MCIdConfig == << <<5, 4>>, <<6, -1>> >>
===============================================================================
