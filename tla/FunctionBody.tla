---------------------------- MODULE FunctionBody ----------------------------
(***************************************************************************)
(* Function bodies, written by FunctionTableWriter and read back by        *)
(* InstructionParser.  The bytecode has no value names: an operand is the  *)
(* number of values in scope that were defined before it.  The writer      *)
(* keeps that numbering in valueIndexMap and nextValueIndex, the reader in *)
(* valueIndexList, and the two must agree at every operand, through nested *)
(* regions whose values go out of scope, through results that the target   *)
(* bytecode version does not have, and from one function to the next.      *)
(*                                                                         *)
(* The walk over the IR (writeOperation -> writeRegion -> writeBlock ->    *)
(* writeOperation) and the recursion that parses it are the stacks         *)
(* `frames' and `scopes' of this module, one frame per active call.  The   *)
(* IR itself is chosen as the writer walks it: any operation of a shape in *)
(* Shapes, with operands among the values that SSA dominance lets it use.  *)
(* Every region has one block, as the dialect's SizedRegion<1> demands,    *)
(* save the else region of an if, which may be empty (MaxSizedRegion<1>).  *)
(***************************************************************************)
EXTENDS Integers, Sequences, SequencesExt

CONSTANTS
    Shapes,         \* the operations: [results, gated, regions]; gated results
                    \* are younger than the target version and not serialised
    MaxFunctions,   \* bounds: functions in the module
    MaxOps,         \* operations in all bodies
    MaxArgs,        \* arguments of a function or a block
    MaxOperands     \* operands of an operation

ASSUME ShapesAssumption == Shapes \subseteq [results : Nat, gated : Nat, regions : Nat]
ASSUME BoundsAssumption ==
    /\ MaxFunctions \in Nat /\ MaxOps \in Nat
    /\ MaxArgs \in Nat /\ MaxOperands \in Nat

VARIABLES
    phase,          \* "write", "failed" (no file), "read", "done", "refused"
    table,          \* the function table: a body for each function, with the
                    \* argument count of its signature and what the body means
    left,           \* operations the module may still have
    \* writing the current function
    frames,         \* the active writeBlock and writeOperation calls
    params,         \* arguments of its signature
    made,           \* values the function has
    valueIndexMap,  \* llvm::MapVector: the entries in insertion order
    nextValueIndex,
    body,           \* the bytecode of the function so far
    uses,           \* what the IR says: the operands of each operation
    \* reading a function back
    current,        \* the function being read
    scopes,         \* the active parseBlock and parseOperation calls
    pos,            \* the tokens of the body that were read
    valueIndexList,
    built,          \* values the function built so far has
    resolved        \* the operands given to each operation

writing == <<frames, params, made, valueIndexMap, nextValueIndex, body, uses>>
reading == <<current, scopes, pos, valueIndexList, built, resolved>>
vars == <<phase, table, left, writing, reading>>

(* A value is the n-th that its function defines.                          *)
Value == (1..MaxFunctions) \X (Nat \ {0})
Shape == [results : Nat, gated : Nat, regions : Nat]
Terminator == [results |-> 0, gated |-> 0, regions |-> 0]

Token ==
    [kind : {"op"}, shape : Shape, operands : Seq(Nat), terminator : BOOLEAN]
    \cup [kind : {"region"}, blocks : 0..1]
    \cup [kind : {"block"}, args : Nat, ops : Nat]
Function == [params : Nat, body : Seq(Token), uses : Seq(Seq(Value)), made : Nat]

-----------------------------------------------------------------------------
(* The frames of both stacks.  A block has operations still to come, the   *)
(* value index to go back to, the values it defines, and whether its last  *)
(* operation was a terminator; an operation has regions still to come, the *)
(* block of the current one, and the shape that says what it results in.   *)
Frame == [kind : {"block", "op"}, ops : Nat, base : Nat, defs : SUBSET Value,
          ended : BOOLEAN, regions : Nat, blocks : 0..1, shape : Shape]

BlockFrame(ops, base, defs) ==
    [kind |-> "block", ops |-> ops, base |-> base, defs |-> defs,
     ended |-> FALSE, regions |-> 0, blocks |-> 0, shape |-> Terminator]
OpFrame(shape, base) ==
    [kind |-> "op", ops |-> 0, base |-> base, defs |-> {},
     ended |-> FALSE, regions |-> shape.regions, blocks |-> 0, shape |-> shape]

Pop(s) == SubSeq(s, 1, Len(s) - 1)
Top(s) == s[Len(s)]
OnTop(s, kind) == s # <<>> /\ Top(s).kind = kind
SetTop(s, f) == Append(Pop(s), f)
InBody(s) == Len(s) = 1     \* the entry block: its operations are not counted

(* The values the function with number f defines next, after n others.     *)
Fresh(f, n, count) == [k \in 1..count |-> <<f, n + k>>]
Writing == Len(table) + 1

(* What SSA dominance lets the next operation use.                         *)
Visible == UNION {frames[n].defs : n \in DOMAIN frames}

(* DenseMap::lookup: 0 for a key that is not there.                        *)
IndicesOf(v) == {n \in DOMAIN valueIndexMap : valueIndexMap[n].value = v}
Lookup(v) == IF IndicesOf(v) = {} THEN 0
             ELSE valueIndexMap[CHOOSE n \in IndicesOf(v) : TRUE].index

(* valueIndexMap[v] = nextValueIndex++ for every v of a sequence.          *)
Entries(vs) == [k \in DOMAIN vs |-> [value |-> vs[k], index |-> nextValueIndex + k - 1]]
Number(vs) ==
    /\ valueIndexMap' = valueIndexMap \o Entries(vs)
    /\ nextValueIndex' = nextValueIndex + Len(vs)

Init ==
    /\ phase = "write"
    /\ table = <<>>
    /\ left = MaxOps
    /\ frames = <<>> /\ params = 0 /\ made = 0
    /\ valueIndexMap = <<>> /\ nextValueIndex = 0
    /\ body = <<>> /\ uses = <<>>
    /\ current = 0 /\ scopes = <<>> /\ pos = 0
    /\ valueIndexList = <<>> /\ built = 0 /\ resolved = <<>>

-----------------------------------------------------------------------------
(* MUTANTS.  Wrong forms of the definitions around them, each a slip this  *)
(* code could have; PROJECT.json names the property that each one breaks.  *)

(* results the bytecode does not have are numbered too *)
FinishOpNumberingAll ==
    /\ phase = "write" /\ OnTop(frames, "op")
    /\ LET top == Top(frames)
           block == Top(Pop(frames))
           all == Fresh(Writing, made, top.shape.results + top.shape.gated)
       IN  /\ top.regions = 0 /\ top.blocks = 0
           /\ Number(all)
           /\ made' = made + Len(all)
           /\ frames' = SetTop(Pop(frames), [block EXCEPT !.defs = @ \cup
                            ToSet(Fresh(Writing, made, top.shape.results))])
    /\ UNCHANGED <<phase, table, left, params, body, uses, reading>>

(* the list is not resized when a block ends *)
EndBlockKeeping ==
    /\ phase = "read" /\ OnTop(scopes, "block") /\ ~InBody(scopes)
    /\ Top(scopes).ops = 0
    /\ scopes' = Pop(scopes)
    /\ UNCHANGED <<phase, table, left, writing, current, pos, valueIndexList, built, resolved>>

(* a result the bytecode does not have is not created *)
EndOpWithoutGated ==
    /\ phase = "read" /\ OnTop(scopes, "op")
    /\ Top(scopes).regions = 0 /\ Top(scopes).blocks = 0
    /\ LET count == Top(scopes).shape.results IN
       /\ valueIndexList' = valueIndexList \o [k \in 1..count |-> <<current, built + k>>]
       /\ built' = built + count
    /\ scopes' = Pop(scopes)
    /\ UNCHANGED <<phase, table, left, writing, current, pos, resolved>>

(* the loop over the regions of an operation does not advance *)
ReadRegionStuck ==
    /\ phase = "read" /\ OnTop(scopes, "op")
    /\ Top(scopes).regions > 0 /\ Top(scopes).blocks = 0
    /\ UNCHANGED vars

-----------------------------------------------------------------------------
(* The writer.                                                             *)

(* writeFunctionBody: the map of the previous function is cleared.  One    *)
(* operation is set aside for the terminator of the body.                  *)
StartFunction(args) ==
    /\ phase = "write" /\ frames = <<>>
    /\ Len(table) < MaxFunctions
    /\ left > 0 /\ left' = left - 1
    /\ LET arguments == Fresh(Writing, 0, args) IN
       /\ frames' = <<BlockFrame(0, 0, ToSet(arguments))>>
       /\ valueIndexMap' = [k \in 1..args |-> [value |-> arguments[k], index |-> k - 1]]
    /\ nextValueIndex' = args
    /\ params' = args /\ made' = args
    /\ body' = <<>> /\ uses' = <<>>
    /\ UNCHANGED <<phase, table, reading>>

(* writeOperation up to the regions: the operands are looked up here, the  *)
(* results are numbered when the regions are written.                      *)
WriteOp(shape, operands, terminator) ==
    /\ phase = "write" /\ OnTop(frames, "block")
    /\ LET top == Top(frames) IN
       /\ IF InBody(frames)
          THEN ~top.ended /\ left' = (IF terminator THEN left ELSE left - 1)
          ELSE top.ops > 0 /\ terminator = (top.ops = 1) /\ left' = left
       /\ left' >= (IF shape.regions = 0 THEN 0 ELSE 1)
       /\ frames' = Append(SetTop(frames,
                        [top EXCEPT !.ops = IF InBody(frames) THEN @ ELSE @ - 1,
                                    !.ended = terminator]),
                    OpFrame(shape, nextValueIndex))
    /\ body' = Append(body, [kind |-> "op", shape |-> shape,
                             operands |-> [k \in DOMAIN operands |-> Lookup(operands[k])],
                             terminator |-> terminator])
    /\ uses' = Append(uses, operands)
    /\ UNCHANGED <<phase, table, params, made, valueIndexMap, nextValueIndex, reading>>

(* An operation, an attribute or a location that cannot be written for the *)
(* target version, or a gated result that has users: there is no file.     *)
RefuseOp ==
    /\ phase = "write" /\ OnTop(frames, "block")
    /\ IF InBody(frames) THEN ~Top(frames).ended ELSE Top(frames).ops > 0
    /\ phase' = "failed"
    /\ UNCHANGED <<table, left, writing, reading>>

WriteRegion(blocks) ==
    /\ phase = "write" /\ OnTop(frames, "op")
    /\ LET top == Top(frames) IN
       /\ top.regions > 0 /\ top.blocks = 0
       /\ blocks = 0 => top.shape.regions = 2 /\ top.regions = 1
       /\ blocks <= left
       /\ frames' = SetTop(frames, [top EXCEPT !.regions = @ - 1, !.blocks = blocks])
    /\ body' = Append(body, [kind |-> "region", blocks |-> blocks])
    /\ UNCHANGED <<phase, table, left, params, made, valueIndexMap, nextValueIndex, uses, reading>>

(* writeBlock up to its operations.                                        *)
WriteBlock(args, ops) ==
    /\ phase = "write" /\ OnTop(frames, "op")
    /\ ops \in 1..left /\ left' = left - ops
    /\ LET top == Top(frames)
           arguments == Fresh(Writing, made, args)
       IN  /\ top.blocks > 0
           /\ frames' = Append(SetTop(frames, [top EXCEPT !.blocks = @ - 1]),
                               BlockFrame(ops, nextValueIndex, ToSet(arguments)))
           /\ Number(arguments)
    /\ made' = made + args
    /\ body' = Append(body, [kind |-> "block", args |-> args, ops |-> ops])
    /\ UNCHANGED <<phase, table, params, uses, reading>>

(* The end of writeBlock: one pop_back for every index the block used.     *)
FinishBlock ==
    /\ phase = "write" /\ OnTop(frames, "block") /\ ~InBody(frames)
    /\ LET top == Top(frames) IN
       /\ top.ops = 0
       /\ valueIndexMap' =
            SubSeq(valueIndexMap, 1, Len(valueIndexMap) - (nextValueIndex - top.base))
       /\ nextValueIndex' = top.base
    /\ frames' = Pop(frames)
    /\ UNCHANGED <<phase, table, left, params, made, body, uses, reading>>

(* The end of writeOperation: the serialised results are numbered; gated   *)
(* ones are values that nothing uses.                                      *)
FinishOp ==
    /\ phase = "write" /\ OnTop(frames, "op")
    /\ LET top == Top(frames)
           block == Top(Pop(frames))
           results == Fresh(Writing, made, top.shape.results)
       IN  /\ top.regions = 0 /\ top.blocks = 0
           /\ Number(results)
           /\ made' = made + top.shape.results + top.shape.gated
           /\ frames' = SetTop(Pop(frames), [block EXCEPT !.defs = @ \cup ToSet(results)])
    /\ UNCHANGED <<phase, table, left, params, body, uses, reading>>

(* The body goes into the function table; the map is left as it is.        *)
FinishFunction ==
    /\ phase = "write" /\ OnTop(frames, "block") /\ InBody(frames)
    /\ Top(frames).ended
    /\ table' = Append(table, [params |-> params, body |-> body, uses |-> uses, made |-> made])
    /\ frames' = <<>>
    /\ UNCHANGED <<phase, left, params, made, valueIndexMap, nextValueIndex, body, uses, reading>>

-----------------------------------------------------------------------------
(* The reader.                                                             *)

StartReading ==
    /\ phase = "write" /\ frames = <<>>
    /\ phase' = "read"
    /\ UNCHANGED <<table, left, writing, reading>>

More == pos < Len(table[current].body)
Here == table[current].body[pos + 1]
Refuse == phase' = "refused" /\ UNCHANGED <<table, left, writing, reading>>

(* createFunction: the list of the previous function is cleared.           *)
CreateFunction ==
    /\ phase = "read" /\ scopes = <<>>
    /\ current < Len(table)
    /\ current' = current + 1
    /\ LET args == table[current'].params IN
       /\ scopes' = <<BlockFrame(0, 0, {})>>
       /\ valueIndexList' = Fresh(current', 0, args)
       /\ built' = args
    /\ pos' = 0 /\ resolved' = <<>>
    /\ UNCHANGED <<phase, table, left, writing>>

(* parseOperation up to the regions: parseOperands bounds every index by   *)
(* the size of the list.  The body of a function has no operation count,   *)
(* it is read until its bytes are exhausted.                               *)
ReadOp ==
    /\ phase = "read" /\ OnTop(scopes, "block")
    /\ InBody(scopes) => More
    /\ ~InBody(scopes) => Top(scopes).ops > 0
    /\ IF /\ More /\ Here.kind = "op"
          /\ \A k \in DOMAIN Here.operands : Here.operands[k] < Len(valueIndexList)
       THEN /\ resolved' = Append(resolved,
                 [k \in DOMAIN Here.operands |-> valueIndexList[Here.operands[k] + 1]])
            /\ scopes' = Append(SetTop(scopes,
                    [Top(scopes) EXCEPT !.ops = IF InBody(scopes) THEN @ ELSE @ - 1,
                                        !.ended = Here.terminator]),
                 OpFrame(Here.shape, Len(valueIndexList)))
            /\ pos' = pos + 1
            /\ UNCHANGED <<phase, table, left, writing, current, valueIndexList, built>>
       ELSE Refuse

ReadRegion ==
    /\ phase = "read" /\ OnTop(scopes, "op")
    /\ Top(scopes).regions > 0 /\ Top(scopes).blocks = 0
    /\ IF More /\ Here.kind = "region"
       THEN /\ scopes' = SetTop(scopes, [Top(scopes) EXCEPT !.regions = @ - 1,
                                                            !.blocks = Here.blocks])
            /\ pos' = pos + 1
            /\ UNCHANGED <<phase, table, left, writing, current, valueIndexList, built, resolved>>
       ELSE Refuse

(* parseBlock up to its operations.                                        *)
ReadBlock ==
    /\ phase = "read" /\ OnTop(scopes, "op")
    /\ Top(scopes).blocks > 0
    /\ IF More /\ Here.kind = "block"
       THEN /\ scopes' = Append(SetTop(scopes, [Top(scopes) EXCEPT !.blocks = @ - 1]),
                                BlockFrame(Here.ops, Len(valueIndexList), {}))
            /\ valueIndexList' = valueIndexList \o Fresh(current, built, Here.args)
            /\ built' = built + Here.args
            /\ pos' = pos + 1
            /\ UNCHANGED <<phase, table, left, writing, current, resolved>>
       ELSE Refuse

(* The end of parseBlock: the block must have a terminator, and the list   *)
(* goes back to its size at the start of the block.                        *)
EndBlock ==
    /\ phase = "read" /\ OnTop(scopes, "block") /\ ~InBody(scopes)
    /\ Top(scopes).ops = 0
    /\ IF Top(scopes).ended
       THEN /\ valueIndexList' = SubSeq(valueIndexList, 1, Top(scopes).base)
            /\ scopes' = Pop(scopes)
            /\ UNCHANGED <<phase, table, left, writing, current, pos, built, resolved>>
       ELSE Refuse

(* createOperationGeneric: the serialised results join the list; a gated   *)
(* one is created with its default type and stays out of it.               *)
EndOp ==
    /\ phase = "read" /\ OnTop(scopes, "op")
    /\ Top(scopes).regions = 0 /\ Top(scopes).blocks = 0
    /\ LET shape == Top(scopes).shape IN
       /\ valueIndexList' = valueIndexList \o Fresh(current, built, shape.results)
       /\ built' = built + shape.results + shape.gated
    /\ scopes' = Pop(scopes)
    /\ UNCHANGED <<phase, table, left, writing, current, pos, resolved>>

(* parseFunctionBody returns: no bytes of the body remain.                 *)
EndFunction ==
    /\ phase = "read" /\ OnTop(scopes, "block") /\ InBody(scopes)
    /\ ~More
    /\ scopes' = <<>>
    /\ UNCHANGED <<phase, table, left, writing, current, pos, valueIndexList, built, resolved>>

FinishReading ==
    /\ phase = "read" /\ scopes = <<>>
    /\ current = Len(table)
    /\ phase' = "done"
    /\ UNCHANGED <<table, left, writing, reading>>

-----------------------------------------------------------------------------
Ended == phase \in {"failed", "done", "refused"} /\ UNCHANGED vars

Read == CreateFunction \/ ReadOp \/ ReadRegion \/ ReadBlock \/ EndBlock \/ EndOp
        \/ EndFunction \/ FinishReading

Operands == UNION {[1..n -> Visible] : n \in 0..MaxOperands}

Next ==
    \/ \E args \in 0..MaxArgs : StartFunction(args)
    \/ \E shape \in Shapes : \E operands \in Operands : WriteOp(shape, operands, FALSE)
    \/ \E operands \in Operands : WriteOp(Terminator, operands, TRUE)
    \/ RefuseOp
    \/ \E blocks \in 0..1 : WriteRegion(blocks)
    \/ \E args \in 0..MaxArgs : \E ops \in 1..MaxOps : WriteBlock(args, ops)
    \/ FinishBlock
    \/ FinishOp
    \/ FinishFunction
    \/ StartReading
    \/ CreateFunction
    \/ ReadOp
    \/ ReadRegion
    \/ ReadBlock
    \/ EndBlock
    \/ EndOp
    \/ EndFunction
    \/ FinishReading
    \/ Ended

Spec == Init /\ [][Next]_vars

(* readBytecode is straight-line code on bytes that are all there.         *)
FairSpec == Spec /\ WF_vars(Read)

-----------------------------------------------------------------------------
(* Every variable has the shape the code gives it.                         *)
TypeOK ==
    /\ phase \in {"write", "failed", "read", "done", "refused"}
    /\ table \in Seq(Function)
    /\ left \in Nat
    /\ frames \in Seq(Frame) /\ params \in Nat /\ made \in Nat
    /\ valueIndexMap \in Seq([value : Value, index : Nat]) /\ nextValueIndex \in Nat
    /\ body \in Seq(Token) /\ uses \in Seq(Seq(Value))
    /\ current \in Nat /\ scopes \in Seq(Frame) /\ pos \in Nat
    /\ valueIndexList \in Seq(Value) /\ built \in Nat
    /\ resolved \in Seq(Seq(Value))

(* The map holds the values in scope, no fewer (a lookup would silently    *)
(* give index 0) and no others (their indices would be taken), and numbers *)
(* them 0, 1, 2, ... in insertion order.  Only so does popping as many     *)
(* entries as indices were handed out remove the values of the block that  *)
(* ends and no others.                                                     *)
MapIsScope ==
    /\ nextValueIndex = Len(valueIndexMap)
    /\ \A n \in DOMAIN valueIndexMap : valueIndexMap[n].index = n - 1
    /\ frames # <<>> =>
          /\ {valueIndexMap[n].value : n \in DOMAIN valueIndexMap} = Visible
          /\ Cardinality(Visible) = Len(valueIndexMap)

(* Every operand is read back as the value it was: the n-th operation of   *)
(* the rebuilt function uses what the n-th operation of the IR used.       *)
OperandsSurvive ==
    \A n \in DOMAIN resolved :
        /\ n \in DOMAIN table[current].uses
        /\ resolved[n] = table[current].uses[n]

(* The reader accepts what the writer wrote, and a function that was read  *)
(* has all operations and all values, gated results included, of the one   *)
(* that was written.                                                       *)
FunctionComplete ==
    /\ phase # "refused"
    /\ (phase \in {"read", "done"} /\ current > 0 /\ scopes = <<>>) =>
          /\ Len(resolved) = Len(table[current].uses)
          /\ built = table[current].made

(* The parser consumes every body it starts and the read ends.             *)
ReadingEnds == (phase = "read") ~> (phase = "done")
=============================================================================
