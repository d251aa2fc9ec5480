---------------------------- MODULE MCIndexTable ----------------------------
(***************************************************************************)
(* IndexTable on the debug-info table, which has all that the type table   *)
(* has and reserved items besides: a location in a lexical block, its      *)
(* subprogram, compile unit and file, a call site whose caller is an       *)
(* unknown location, and one that has the same part twice.                 *)
(***************************************************************************)
EXTENDS IndexTable, TLC

CONSTANTS file, unit, subprogram, block, loc, callSite, twice, unknown

MCItem == {file, unit, subprogram, block, loc, callSite, twice, unknown}
MCDeps ==
    file :> <<>> @@ unit :> <<file>> @@ subprogram :> <<file, unit>> @@
    block :> <<subprogram, file>> @@ loc :> <<block>> @@
    callSite :> <<loc, unknown>> @@ twice :> <<loc, loc>> @@ unknown :> <<>>
MCFields ==
    file :> <<>> @@ unit :> <<file>> @@ subprogram :> <<file, unit>> @@
    block :> <<subprogram, file>> @@ loc :> <<block>> @@
    callSite :> <<loc, unknown>> @@ twice :> <<loc, loc>> @@ unknown :> <<>>
MCRank ==
    file :> 0 @@ unknown :> 0 @@ unit :> 1 @@ subprogram :> 2 @@ block :> 3 @@
    loc :> 4 @@ callSite :> 5 @@ twice :> 5
MCReserved == {unknown}
=============================================================================
