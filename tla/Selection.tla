------------------------------ MODULE Selection ------------------------------
(***************************************************************************)
(* What a loop that skips some elements of a list visits: the globals or   *)
(* the functions of a module, the optional or the required fields of a     *)
(* declaration, the fields that a release knows.                           *)
(***************************************************************************)
EXTENDS Integers, Sequences

(* The elements of s that are in S, in their order.                        *)
Kept(s, S) ==
    LET kept[n \in 0..Len(s)] ==
            IF n = 0 THEN <<>>
            ELSE IF s[n] \in S THEN Append(kept[n - 1], s[n]) ELSE kept[n - 1]
    IN kept[Len(s)]
==============================================================================
