--------------------------- MODULE MCBytecodeFile ---------------------------
(***************************************************************************)
(* BytecodeFile for modules of up to MaxItems globals and functions, in    *)
(* any order, written for every version.  The items share names, types and *)
(* bits where they can, so that a table entry has several users.           *)
(***************************************************************************)
EXTENDS BytecodeFile

CONSTANTS Versions, MaxItems, empty, none,
          a, b, c, tile, signature, zero, line1, line2

Splat == [type |-> tile, bits |-> zero]
Other == [type |-> signature, bits |-> zero]
Global(name, value, private, constant) ==
    [kind |-> "global", name |-> name, value |-> value, private |-> private, constant |-> constant]
Function(name, loc, values, since) ==
    [kind |-> "func", name |-> name, type |-> signature, loc |-> loc, values |-> values, since |-> since]
Located == [line |-> line1, file |-> a]
Elsewhere == [line |-> line2, file |-> b]
Fused == [line |-> line2, file |-> none]

Items ==
    {Global(a, Splat, FALSE, FALSE), Global(b, Other, TRUE, FALSE), Global(b, Splat, FALSE, TRUE),
     Function(a, none, <<>>, 1), Function(a, Located, <<Other, Splat>>, 1),
     Function(b, Elsewhere, <<Splat>>, 1), Function(b, Fused, <<>>, 1),
     Function(b, Located, <<Other>>, 3),
     Global(c, Other, FALSE, FALSE), Function(c, Located, <<Splat, Other>>, 1)}

(* Small files are cut at every byte, the others at most by the last one.  *)
MCCuts(m) == IF Len(m.items) <= 2 /\ m.version \in {1, 3} THEN 0..200 ELSE {0, 1}

MCModules ==
    {[version |-> v, producer |-> p, items |-> items] :
        v \in Versions, p \in {none, empty, b},
        items \in {s \in BoundedSeq(Items, MaxItems) :
                     \A m, n \in DOMAIN s : s[m].name = s[n].name => m = n}}
=============================================================================
