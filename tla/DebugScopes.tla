----------------------------- MODULE DebugScopes -----------------------------
(***************************************************************************)
(* Where the locations come from that DebugIndices writes.  A module is    *)
(* given as it was parsed; SynthesizeDebugInfoScopesPass may run over it,  *)
(* which puts every function without a scope, and all in it, into a        *)
(* subprogram of its own; updateSymbolName may rename functions, before or *)
(* after; then the module is written and read back.  DebugInfoVerifier     *)
(* tells what scopes a module may have, and DebugIndices takes it for      *)
(* granted that they are as it says.                                       *)
(*                                                                         *)
(* A location is a tree of records: its kind k is "unknown", "file" (a     *)
(* path of directory and name, and a line), "name", "opaque", "fused",     *)
(* "call" or "di" (a position in a scope); a scope is a "subprogram" or a  *)
(* lexical "block" in one.  Columns, and operations that contain others,   *)
(* are left out: the pass and the verifier walk over all of a function.    *)
(***************************************************************************)
EXTENDS DebugIndices, FiniteSets, SequencesExt

CONSTANTS
    Codes,          \* modules: the location of the module, functions, globals
    NewNames,       \* what functions may be renamed to
    MaxRenames      \* bound

VARIABLES
    stage,          \* the part of the pipeline that runs
    source,         \* the module as it was given
    code,           \* the module as it is now
    compileUnit,    \* the file of the compile unit of the pass
    visited,        \* functions the pass is done with
    renamed         \* functions that were given another name

pipeline == <<stage, source, code, compileUnit, visited, renamed>>
all == <<vars, pipeline>>

NoLoc == [k |-> "none"]
NoScope == [k |-> "none"]
File(path, line) == [k |-> "file", path |-> path, line |-> line]
Di(pos, scope) == [k |-> "di", pos |-> pos, scope |-> scope]
Subprogram(path, line, name, linkage, unit) ==
    [k |-> "subprogram", path |-> path, line |-> line, name |-> name, linkage |-> linkage, unit |-> unit]
FirstOf(s) == IF s = <<>> THEN NoLoc ELSE Head(s)

-----------------------------------------------------------------------------
(* DebugInfoVerifier: the location with a scope that counts for a location *)
(* (getDILoc), the subprogram it is in, and the six rules.                 *)
RECURSIVE DILoc(_), SubprogramOf(_)
DILoc(loc) ==
    CASE loc.k = "di" -> loc
      [] loc.k = "call" -> DILoc(loc.caller)
      [] loc.k = "fused" -> FirstOf(SelectSeq([n \in DOMAIN loc.parts |-> DILoc(loc.parts[n])],
                                              LAMBDA part : part # NoLoc))
      [] loc.k \in {"name", "opaque"} -> DILoc(loc.child)
      [] OTHER -> NoLoc
SubprogramOf(scope) == IF scope.k = "block" THEN SubprogramOf(scope.scope) ELSE scope
Scope(loc) == IF DILoc(loc) = NoLoc THEN NoScope ELSE SubprogramOf(DILoc(loc).scope)

(* Mutant: a function may be located by a call (rule 6).                   *)
FunctionAcceptedAtCalls(f) ==
    DILoc(f.loc) # NoLoc =>
        DILoc(f.loc).scope.k = "subprogram" /\ DILoc(f.loc).scope.linkage = f.name
FunctionAccepted(f) ==
    /\ f.loc.k # "call"
    /\ DILoc(f.loc) # NoLoc =>
          DILoc(f.loc).scope.k = "subprogram" /\ DILoc(f.loc).scope.linkage = f.name

BodyAccepted(f) ==
    \A n \in DOMAIN f.body : Scope(f.body[n]) \in {NoScope, Scope(f.loc)}
GlobalsAccepted(globals) == \A n \in DOMAIN globals : DILoc(globals[n]) = NoLoc
Accepted(f) == FunctionAccepted(f) /\ BodyAccepted(f)
Verified(c) ==
    (\A n \in DOMAIN c.functions : Accepted(c.functions[n])) /\ GlobalsAccepted(c.globals)

-----------------------------------------------------------------------------
(* SynthesizeDebugInfoScopesPass                                           *)
(* extractFileLoc: of a fused location only the parts themselves           *)
RECURSIVE FileLoc(_), HoldsScope(_)
FileLoc(loc) ==
    CASE loc.k = "file" -> loc
      [] loc.k \in {"name", "opaque"} -> FileLoc(loc.child)
      [] loc.k = "fused" -> FirstOf(SelectSeq(loc.parts, LAMBDA part : part.k = "file"))
      [] loc.k = "call" -> FileLoc(loc.caller)
      [] OTHER -> NoLoc

(* findInstanceOf<DILocAttr>: anywhere in the location, callees included   *)
HoldsScope(loc) ==
    CASE loc.k = "di" -> TRUE
      [] loc.k = "call" -> HoldsScope(loc.callee) \/ HoldsScope(loc.caller)
      [] loc.k = "fused" -> \E n \in DOMAIN loc.parts : HoldsScope(loc.parts[n])
      [] loc.k \in {"name", "opaque"} -> HoldsScope(loc.child)
      [] OTHER -> FALSE

UnitFor(loc) == IF FileLoc(loc) = NoLoc THEN <<"", "unknown">> ELSE FileLoc(loc).path

(* The position of a function; the first line of the compile unit's file,  *)
(* by its name without the directory, if it has none.                      *)
Position(f, unit) == IF FileLoc(f.loc) = NoLoc THEN File(<<"", unit[2]>>, 1) ELSE FileLoc(f.loc)
SubprogramFor(f, unit) ==
    Subprogram(IF FileLoc(f.loc) = NoLoc THEN unit ELSE FileLoc(f.loc).path,
               Position(f, unit).line, f.name, f.name, unit)

(* Mutant: the position is always that of the function.                    *)
InScopeAtFunction(loc, f, unit) == Di(Position(f, unit), SubprogramFor(f, unit))
InScope(loc, f, unit) ==
    Di(IF FileLoc(loc) = NoLoc THEN Position(f, unit) ELSE FileLoc(loc), SubprogramFor(f, unit))
WithScope(f, unit) ==
    IF HoldsScope(f.loc) THEN f
    ELSE [f EXCEPT !.loc = InScope(@, f, unit), !.body = [n \in DOMAIN @ |-> InScope(@[n], f, unit)]]

RunPass ==
    /\ stage = "parsed"
    /\ stage' = "synthesize" /\ compileUnit' = UnitFor(code.loc) /\ visited' = 0
    /\ UNCHANGED <<vars, source, code, renamed>>
SynthesizeScope ==
    /\ stage = "synthesize" /\ visited < Len(code.functions)
    /\ code' = [code EXCEPT !.functions[visited + 1] = WithScope(@, compileUnit)]
    /\ visited' = visited + 1
    /\ UNCHANGED <<vars, stage, source, compileUnit, renamed>>
PassEnds ==
    /\ stage = "synthesize" /\ visited = Len(code.functions)
    /\ stage' = "scoped"
    /\ UNCHANGED <<vars, source, code, compileUnit, visited, renamed>>

-----------------------------------------------------------------------------
(* updateSymbolName                                                        *)
(* AttrTypeReplacer: one subprogram for another in all of a location       *)
RECURSIVE ScopeWith(_, _, _), LocWith(_, _, _)
ScopeWith(scope, old, new) ==
    IF scope = old THEN new
    ELSE IF scope.k = "block" THEN [scope EXCEPT !.scope = ScopeWith(@, old, new)] ELSE scope
LocWith(loc, old, new) ==
    CASE loc.k = "di" -> [loc EXCEPT !.scope = ScopeWith(@, old, new)]
      [] loc.k = "call" -> [loc EXCEPT !.callee = LocWith(@, old, new), !.caller = LocWith(@, old, new)]
      [] loc.k = "fused" -> [loc EXCEPT !.parts = [n \in DOMAIN @ |-> LocWith(@[n], old, new)]]
      [] loc.k \in {"name", "opaque"} -> [loc EXCEPT !.child = LocWith(@, old, new)]
      [] OTHER -> loc
(* Mutant: the body is not walked.                                         *)
FunctionWithOutside(f, old, new) == [f EXCEPT !.loc = LocWith(@, old, new)]
FunctionWith(f, old, new) ==
    [f EXCEPT !.loc = LocWith(@, old, new), !.body = [n \in DOMAIN @ |-> LocWith(@[n], old, new)]]

(* The new linkage name is put in for the old within the function or, if   *)
(* whole, within the module; a scope that does not enclose the function is *)
(* refused.  A location that only holds a scope inside is not looked into. *)
Renamed(c, n, name, whole) ==
    LET f == c.functions[n]
        named == [c EXCEPT !.functions[n].name = name]
        old == f.loc.scope
        new == [old EXCEPT !.linkage = name]
    IN  IF f.loc.k # "di" \/ old.k # "subprogram" THEN named
        ELSE [named EXCEPT
                !.loc = IF whole THEN LocWith(@, old, new) ELSE @,
                !.globals = IF whole THEN [m \in DOMAIN @ |-> LocWith(@[m], old, new)] ELSE @,
                !.functions = [m \in DOMAIN @ |-> IF whole \/ m = n
                                                  THEN FunctionWith(@[m], old, new) ELSE @[m]]]
Rename(n, name, whole) ==
    /\ stage \in {"parsed", "scoped"} /\ Cardinality(renamed) < MaxRenames
    /\ \A m \in DOMAIN code.functions : code.functions[m].name # name
    /\ code' = Renamed(code, n, name, whole)
    /\ renamed' = renamed \cup {n}
    /\ UNCHANGED <<vars, stage, source, compileUnit, visited>>

-----------------------------------------------------------------------------
(* The writer and the reader of DebugIndices, on this module               *)
(* writeBytecode verifies the module first.                                *)
StartWriting ==
    /\ stage \in {"parsed", "scoped"}
    /\ stage' = IF Verified(code) THEN "write" ELSE "rejected"
    /\ UNCHANGED <<vars, source, code, compileUnit, visited, renamed>>

WriteFunction ==
    /\ Len(locOf) < Len(code.functions)
    /\ AddFunction(code.functions[Len(locOf) + 1].loc)
BodyWritten == IF current = 0 THEN TRUE ELSE Len(ops[current]) = Len(code.functions[current].body)
NextBody == Len(locOf) = Len(code.functions) /\ BodyWritten /\ StartBody
WriteNextOp == ~BodyWritten /\ WriteOp(code.functions[current].body[Len(ops[current]) + 1])
WriteSection == Len(locOf) = Len(code.functions) /\ BodyWritten /\ StartSection

Write ==
    /\ stage = "write"
    /\ \/ WriteFunction \/ NextBody \/ WriteNextOp \/ WriteSection
       \/ WriteOffset \/ StartIndices \/ WriteRow \/ WriteAttributes
       \/ CreateFunction \/ ReadOp \/ FinishReading \/ Ended
    /\ UNCHANGED pipeline

Rejected == stage = "rejected" /\ UNCHANGED all

PipelineInit ==
    /\ Init
    /\ stage = "parsed" /\ source \in Codes /\ Verified(source) /\ code = source
    /\ compileUnit = <<"", "">> /\ visited = 0 /\ renamed = {}
PipelineNext ==
    \/ RunPass \/ SynthesizeScope \/ PassEnds
    \/ \E n \in DOMAIN code.functions, name \in NewNames, whole \in BOOLEAN : Rename(n, name, whole)
    \/ StartWriting \/ Write \/ Rejected
PipelineSpec == PipelineInit /\ [][PipelineNext]_all

-----------------------------------------------------------------------------
(* The verifier accepts the module whatever the pass and the renaming have *)
(* done, in between as well: every operation is in the scope of its        *)
(* function, whose linkage name is the function's name.  Except that       *)
(* updateSymbolName does not look into a fused or named location, although *)
(* the verifier does: such a function keeps the old linkage name.          *)
VerifierAccepts ==
    /\ \A n \in DOMAIN code.functions :
          LET f == code.functions[n]
          IN  BodyAccepted(f) /\ (FunctionAccepted(f) \/ (n \in renamed /\ f.loc.k # "di"))
    /\ GlobalsAccepted(code.globals)

RECURSIVE Positions(_)
Positions(loc) ==
    CASE loc.k = "file" -> {loc}
      [] loc.k \in {"name", "opaque"} -> Positions(loc.child)
      [] loc.k = "fused" -> {part \in ToSet(loc.parts) : part.k = "file"}
      [] loc.k = "call" -> Positions(loc.caller)
      [] OTHER -> {}

(* What the pass is for: plain file positions, which the bytecode has no   *)
(* place for, come back from the file in the scope of their function, by   *)
(* the name it has now; and an operation without one has the function's.   *)
(* Nothing that was written is refused by the reader.                      *)
PositionsSurvive ==
    /\ NeverRefused
    /\ visited > 0 =>
          \A f \in DOMAIN located : ~HoldsScope(source.functions[f].loc) =>
              \A n \in DOMAIN located[f] :
                  LET is == located[f][n]
                      was == Positions(IF n = 1 THEN source.functions[f].loc
                                       ELSE source.functions[f].body[n - 1])
                  IN  /\ is.k = "di" /\ is.scope.k = "subprogram"
                      /\ is.scope.linkage = code.functions[f].name
                      /\ is.pos \in IF was = {} THEN {located[f][1].pos} ELSE was

(* What DebugIndices takes for granted of the locations it is given is so: *)
(* the pipeline, seen through the writer and the reader, is one of its     *)
(* behaviours, and what is proved of them holds for it.  A location that   *)
(* passes the verifier and not MayLocate would leave the writer stuck, and *)
(* show as a deadlock.                                                     *)
WritesVerifiedCode == Init /\ [][Next]_vars
=============================================================================
