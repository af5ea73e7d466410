------------------------------ MODULE MCOutputs ------------------------------
(* Outputs whose logical and physical geometries differ, one left of origin. *)
EXTENDS Outputs

G(x, width, logX, logWidth) == [x |-> x, width |-> width, logX |-> logX, logWidth |-> logWidth]
MCGeometries == {G(0, 4, 0, 2), G(4, 2, 2, 3), G(-4, 4, -2, 2)}
==============================================================================
