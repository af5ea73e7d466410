------------------------------ MODULE MCSession ------------------------------
(* Session for TLC: what the server may send in the runs.                    *)
EXTENDS Session

Most == AllKinds \ {"EBAD"}    \* which is handled like EBSY
==============================================================================
