---------------------------- MODULE MCLazyTable ----------------------------
(***************************************************************************)
(* LazyTable on every table of a few entries: parts in every order,        *)
(* forward, backward, to the entry itself, out of range, of a wrong kind.  *)
(***************************************************************************)
EXTENDS LazyTable, SequencesExt

CONSTANTS scope, loc

MCKind == {scope, loc}
Entries(kinds, indices, wants, sounds) ==
    [slice : {TRUE}, kind : kinds, sound : sounds,
     parts : BoundedSeq([index : indices, want : wants], 2)]
NoSlice == [slice |-> FALSE, kind |-> loc, sound |-> TRUE, parts |-> <<>>]

(* Like types: every part is welcome.  Three entries, long cycles.         *)
LikeTypes ==
    [1..3 -> Entries({loc}, 1..4, {MCKind}, {TRUE}) \cup {NoSlice}]

(* Like debug info: a slot for a scope, or one for any location; and the   *)
(* reserved index.                                                         *)
LikeDebugInfo ==
    LET entries == Entries(MCKind, 0..2, {{scope}, MCKind}, {TRUE}) \cup
                   Entries({loc}, {2}, {{loc}}, {FALSE})
    IN  {<<first, second, NoSlice>> : first, second \in entries}

MCTables == LikeTypes \cup LikeDebugInfo
=============================================================================
