---------------------------- MODULE DebugIndices ----------------------------
(***************************************************************************)
(* The debug-info indices of the operations.  DebugInfoWriter keeps one    *)
(* row of indices per function that has a location of its own: the         *)
(* function's location, then the locations of its operations in the order  *)
(* they are written.  The debug section holds the rows one after another   *)
(* and the offset of each; an operation is not named in it.  The reader    *)
(* walks a row with one Iterator per function and takes the next index for *)
(* every operation it parses, so writer and reader must count the same     *)
(* operations in the same order.                                           *)
(*                                                                         *)
(* A location stands for its debug-info attribute; how attributes get      *)
(* their indices is the subject of IndexTable, here they are given by      *)
(* DiIndex, of which IndexTable's AnswersStayRight is what is assumed.     *)
(***************************************************************************)
EXTENDS Integers, Sequences

CONSTANTS
    Scoped,         \* DILocAttr, and call sites whose caller is one
    Unscoped,       \* call sites without a scope
    Reserved,       \* UnknownLoc and FileLineColLoc
    Unsupported,    \* FusedLoc, NameLoc, OpaqueLoc
    UnknownLoc,
    DiIndex,        \* getDebugInfoIndex of each location
    Null,           \* the null attribute a reader function returns on failure
    MaxFunctions,   \* bounds: functions in the module
    MaxOps          \* operations in all functions

Loc == Scoped \cup Unscoped \cup Reserved \cup Unsupported
SIZE == 1           \* DebugReserved::SIZE; index 0 is DebugReserved::UnknownLoc

ASSUME LocAssumption ==
    /\ UnknownLoc \in Reserved /\ Null \notin Loc
    /\ (Scoped \cup Unscoped \cup Unsupported) \cap Reserved = {}
    /\ Scoped \cap Unscoped = {}
ASSUME DiIndexAssumption ==
    /\ DiIndex \in [Loc -> Nat]
    /\ \A l \in Loc : (DiIndex[l] = 0) <=> l \in Reserved
    /\ \A k, l \in Loc \ Reserved : DiIndex[k] = DiIndex[l] => k = l
ASSUME BoundsAssumption == MaxFunctions \in Nat /\ MaxOps \in Nat

VARIABLES
    phase,              \* the part of writeBytecode or readBytecode that runs
    locOf,              \* the IR: the location of each function
    ops,                \* the IR: the locations of its operations, as written
    left,               \* operations the module may still have
    opIndex,            \* opIndexMap and functionLocIndex of each function
    debuginfoIndices,   \* a row for each function that has an index
    offsets,            \* diIndexOffsets
    running,            \* the offset of the next row
    indices,            \* diIndices
    rows,               \* the number of rows that are in diIndices
    current,            \* the function being written, or read
    consumed,           \* Iterator::opIndexOffset
    located             \* the locations given to each function and its operations

ir == <<locOf, ops, left>>
writer == <<opIndex, debuginfoIndices>>
section == <<offsets, running, indices, rows>>
reader == <<consumed, located>>
vars == <<phase, ir, writer, section, current, reader>>

(* buildFunctionMap, the function section, the two loops over the rows in  *)
(* the debug section, readBytecode, and the ways it all ends.              *)
Phase == {"functions", "bodies", "offsets", "indices", "read", "done", "failed", "refused"}

(* A function whose own location is reserved has no row.                   *)
HasRow(f) == opIndex[f] >= SIZE
Row(f) == opIndex[f] - SIZE + 1

(* Verified IR: an operation has a scope only if its function has one, be  *)
(* it inside a location the bytecode does not support, and a function is   *)
(* not located by a call site (DebugInfoVerifier).                         *)
FunctionLoc == Loc \ Unscoped
MayLocate(f, l) == l \in Scoped => locOf[f] \in Scoped \cup Unsupported

Init ==
    /\ phase = "functions"
    /\ locOf = <<>> /\ ops = <<>> /\ left = MaxOps
    /\ opIndex = <<>> /\ debuginfoIndices = <<>>
    /\ offsets = <<>> /\ running = 0 /\ indices = <<>> /\ rows = 0
    /\ current = 0
    /\ consumed = 0 /\ located = <<>>

-----------------------------------------------------------------------------
(* MUTANTS.  Wrong forms of the definitions around them, each a slip this  *)
(* code could have; PROJECT.json names the property that each one breaks.  *)

(* the offset of a row is counted after the row *)
WriteOffsetLate ==
    /\ phase = "offsets"
    /\ Len(offsets) < Len(debuginfoIndices)
    /\ running' = running + Len(debuginfoIndices[Len(offsets) + 1])
    /\ offsets' = Append(offsets, running')
    /\ UNCHANGED <<phase, ir, writer, indices, rows, current, reader>>

(* an operation with a reserved location has no index in the row *)
WriteOpSkipping(l) ==
    /\ phase = "bodies"
    /\ left > 0 /\ left' = left - 1
    /\ MayLocate(current, l)
    /\ IF l \in Unsupported
       THEN phase' = "failed" /\ UNCHANGED <<ops, debuginfoIndices>>
       ELSE /\ ops' = [ops EXCEPT ![current] = Append(@, l)]
            /\ debuginfoIndices' =
                 IF HasRow(current) /\ l \notin Reserved
                 THEN [debuginfoIndices EXCEPT ![Row(current)] = Append(@, DiIndex[l])]
                 ELSE debuginfoIndices
            /\ UNCHANGED phase
    /\ UNCHANGED <<locOf, opIndex, section, current, reader>>

-----------------------------------------------------------------------------
(* buildFunctionMap: getOpIndex gives the function the next row, and       *)
(* addDebugInfo makes its own location the first of that row.              *)
AddFunction(l) ==
    /\ phase = "functions"
    /\ Len(locOf) < MaxFunctions
    /\ locOf' = Append(locOf, l)
    /\ ops' = Append(ops, <<>>)
    /\ IF l \in Reserved
       THEN opIndex' = Append(opIndex, 0) /\ UNCHANGED debuginfoIndices
       ELSE /\ opIndex' = Append(opIndex, Len(debuginfoIndices) + SIZE)
            /\ debuginfoIndices' = Append(debuginfoIndices, <<DiIndex[l]>>)
    /\ UNCHANGED <<phase, left, section, current, reader>>

(* writeFunctionBody of the next function.                                 *)
StartBody ==
    /\ phase \in {"functions", "bodies"}
    /\ current < Len(locOf)
    /\ phase' = "bodies"
    /\ current' = current + 1
    /\ UNCHANGED <<ir, writer, section, reader>>

(* writeOperation: the location goes to the row of the function, before    *)
(* the regions of the operation are written; the reader takes it at the    *)
(* same point, after the opcode.                                           *)
WriteOp(l) ==
    /\ phase = "bodies"
    /\ left > 0 /\ left' = left - 1
    /\ MayLocate(current, l)
    /\ IF l \in Unsupported
       THEN phase' = "failed" /\ UNCHANGED <<ops, debuginfoIndices>>
       ELSE /\ ops' = [ops EXCEPT ![current] = Append(@, l)]
            /\ debuginfoIndices' =
                 IF HasRow(current)
                 THEN [debuginfoIndices EXCEPT ![Row(current)] = Append(@, DiIndex[l])]
                 ELSE debuginfoIndices
            /\ UNCHANGED phase
    /\ UNCHANGED <<locOf, opIndex, section, current, reader>>

(* writeDebugInfoSection: the offset of every row ...                      *)
StartSection ==
    /\ phase \in {"functions", "bodies"}
    /\ current = Len(locOf)
    /\ phase' = "offsets"
    /\ UNCHANGED <<ir, writer, section, current, reader>>

WriteOffset ==
    /\ phase = "offsets"
    /\ Len(offsets) < Len(debuginfoIndices)
    /\ offsets' = Append(offsets, running)
    /\ running' = running + Len(debuginfoIndices[Len(offsets) + 1])
    /\ UNCHANGED <<phase, ir, writer, indices, rows, current, reader>>

(* ... then the rows themselves ...                                        *)
StartIndices ==
    /\ phase = "offsets"
    /\ Len(offsets) = Len(debuginfoIndices)
    /\ phase' = "indices"
    /\ UNCHANGED <<ir, writer, section, current, reader>>

WriteRow ==
    /\ phase = "indices"
    /\ rows < Len(debuginfoIndices)
    /\ rows' = rows + 1
    /\ indices' = indices \o debuginfoIndices[rows + 1]
    /\ UNCHANGED <<phase, ir, writer, offsets, running, current, reader>>

(* ... and the attributes: one of an unsupported kind is found out here,   *)
(* for nothing validates the location of a function before.                *)
WriteAttributes ==
    /\ phase = "indices"
    /\ rows = Len(debuginfoIndices)
    /\ phase' = IF \E f \in DOMAIN locOf : locOf[f] \in Unsupported
                THEN "failed" ELSE "read"
    /\ current' = 0
    /\ UNCHANGED <<ir, writer, section, reader>>

-----------------------------------------------------------------------------
(* Iterator::next, skip locations into the row of the function.            *)
Attribute(index) ==
    IF index = 0 THEN UnknownLoc
    ELSE CHOOSE l \in Loc : DiIndex[l] = index
NextLoc(f, skip) ==
    IF ~HasRow(f) THEN UnknownLoc
    ELSE IF Row(f) > Len(offsets) \/ offsets[Row(f)] + skip >= Len(indices) THEN Null
    ELSE Attribute(indices[offsets[Row(f)] + skip + 1])

Give(f, loc, all, next) ==
    IF loc = Null
    THEN phase' = "refused" /\ UNCHANGED <<ir, writer, section, current, reader>>
    ELSE /\ located' = all /\ current' = f /\ consumed' = next
         /\ UNCHANGED <<phase, ir, writer, section>>

FunctionRead == IF current = 0 THEN TRUE ELSE Len(located[current]) = Len(ops[current]) + 1

(* createFunction: a new iterator, its first location is the function's.   *)
CreateFunction ==
    /\ phase = "read"
    /\ FunctionRead
    /\ current < Len(locOf)
    /\ LET loc == NextLoc(current + 1, 0) IN
       Give(current + 1, loc, Append(located, <<loc>>), 1)

(* parseOperation: the next location is the operation's.                   *)
ReadOp ==
    /\ phase = "read"
    /\ ~FunctionRead
    /\ LET loc == NextLoc(current, consumed) IN
       Give(current, loc, [located EXCEPT ![current] = Append(@, loc)], consumed + 1)

FinishReading ==
    /\ phase = "read"
    /\ current = Len(locOf)
    /\ FunctionRead
    /\ phase' = "done"
    /\ UNCHANGED <<ir, writer, section, current, reader>>

Ended == phase \in {"done", "failed", "refused"} /\ UNCHANGED vars

Next ==
    \/ \E l \in FunctionLoc : AddFunction(l)
    \/ StartBody
    \/ \E l \in Loc : WriteOp(l)
    \/ StartSection
    \/ WriteOffset
    \/ StartIndices
    \/ WriteRow
    \/ WriteAttributes
    \/ CreateFunction
    \/ ReadOp
    \/ FinishReading
    \/ Ended

Spec == Init /\ [][Next]_vars

-----------------------------------------------------------------------------
(* Every variable has the shape the code gives it.                         *)
TypeOK ==
    /\ phase \in Phase
    /\ locOf \in Seq(FunctionLoc) /\ ops \in Seq(Seq(Loc)) /\ left \in Nat
    /\ opIndex \in Seq(Nat) /\ debuginfoIndices \in Seq(Seq(Nat))
    /\ offsets \in Seq(Nat) /\ running \in Nat /\ indices \in Seq(Nat) /\ rows \in Nat
    /\ current \in Nat /\ consumed \in Nat /\ located \in Seq(Seq(Loc))

(* Every row is one function's, and holds its location and those of its    *)
(* operations in the order they were written, although it is found by an   *)
(* index that was handed out before any body was written.                  *)
RowsHoldLocations ==
    /\ \A f, g \in DOMAIN opIndex : f < g /\ HasRow(f) /\ HasRow(g) => Row(f) < Row(g)
    /\ \A f \in DOMAIN opIndex : HasRow(f) =>
          /\ Row(f) \in DOMAIN debuginfoIndices
          /\ debuginfoIndices[Row(f)] =
                <<DiIndex[locOf[f]]>> \o [k \in DOMAIN ops[f] |-> DiIndex[ops[f][k]]]

(* What the reader gives the n-th item of a function (the function itself, *)
(* then its operations): its location, or nothing if it is reserved, or if *)
(* that of the function is.                                                *)
ItemLoc(f, n) == IF n = 1 THEN locOf[f] ELSE ops[f][n - 1]
LocationsSurvive ==
    \A f \in DOMAIN located : \A n \in DOMAIN located[f] :
        located[f][n] = IF locOf[f] \in Reserved \/ ItemLoc(f, n) \in Reserved
                        THEN UnknownLoc ELSE ItemLoc(f, n)

(* No source position is lost: a location with a scope always comes back.  *)
(* The writer drops the locations of a function without one, and only the  *)
(* verifier's rule about scopes makes that harmless.                       *)
ScopesSurvive ==
    \A f \in DOMAIN located : \A n \in DOMAIN located[f] :
        ItemLoc(f, n) \in Scoped => located[f][n] = ItemLoc(f, n)

(* The iterator of a function stays in the function's row: it has no bound *)
(* but the end of all rows, and would go on with the next function's.      *)
IteratorInRow ==
    (phase = "read" /\ current > 0 /\ HasRow(current)) =>
        consumed <= Len(debuginfoIndices[Row(current)])

(* The reader finds a location for everything that was written.            *)
NeverRefused == phase # "refused"
=============================================================================
