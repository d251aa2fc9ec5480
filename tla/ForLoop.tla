------------------------------ MODULE ForLoop ------------------------------
(***************************************************************************)
(* What a cuda_tile.for promises: its body runs for lb, lb + step, and so  *)
(* on below ub, one value after the other.  A pass may rewrite the loop as *)
(* long as this is what runs.                                              *)
(***************************************************************************)
EXTENDS TileLoop

VARIABLES
    loop,           \* the loop that is run, any one
    ran,            \* the iterations so far: the value, and what was done
    ended

forVars == <<loop, ran, ended>>

Init == ran = <<>> /\ ended = FALSE

NextValue == loop.lb + Len(ran) * loop.step
Iterate ==
    /\ ~ended /\ NextValue < loop.ub
    /\ ran' = Append(ran, <<NextValue, Execute(loop.body, Conditions(loop, NextValue))>>)
    /\ UNCHANGED <<loop, ended>>
End ==
    /\ ~ended /\ NextValue >= loop.ub
    /\ ended' = TRUE
    /\ UNCHANGED <<loop, ran>>

Next == Iterate \/ End

Spec == Init /\ [][Next]_forVars
=============================================================================
