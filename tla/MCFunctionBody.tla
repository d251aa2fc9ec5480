--------------------------- MODULE MCFunctionBody ---------------------------
(***************************************************************************)
(* FunctionBody on the operations that make it interesting: an arithmetic  *)
(* one, print_tko (its only result is younger than the target version), a  *)
(* for with one region and an if with two.                                 *)
(***************************************************************************)
EXTENDS FunctionBody

Arith == [results |-> 1, gated |-> 0, regions |-> 0]
PrintTko == [results |-> 0, gated |-> 1, regions |-> 0]
For == [results |-> 1, gated |-> 0, regions |-> 1]
If == [results |-> 1, gated |-> 0, regions |-> 2]

MCShapes == {Arith, PrintTko, For, If}
=============================================================================
