----------------------------- MODULE IfRewrites -----------------------------
(***************************************************************************)
(* The canonicalization patterns and the fold of `if` (CudaTile.cpp).  A   *)
(* pattern is applied to operation i of a block and gives the blocks the   *)
(* rewrite may leave: none when it does not match.  defs are the           *)
(* operations that define the values in scope, fresh is a name not used.   *)
(* A result of the new operation keeps the name of the result it replaces. *)
(***************************************************************************)
EXTENDS StructuredCode

DefinedBy(v, kind, defs) == {d \in defs : d.op = kind /\ v \in ToSet(d.res)}

(* getConstantBoolValue: of a constant of i1 whose lanes agree.            *)
ConstantBool(v, defs) ==
    {d.val[1] : d \in {d \in DefinedBy(v, "constant", defs) :
                        Scalar[d.res[1][2]] = "i1" /\ Cardinality(ToSet(d.val)) = 1}}
IsTrue(v, defs) == ConstantBool(v, defs) = {"1"}
IsFalse(v, defs) == ConstantBool(v, defs) = {"0"}
(* The values v is the negation of: xori with true on the right.           *)
NegationOf(v, defs) == {d.args[1] : d \in {d \in DefinedBy(v, "xori", defs) : IsTrue(d.args[2], defs)}}

(* createSelectOpByType, createXOrForValue                                 *)
SelectByType(cond, t, f, res, fresh) ==
    IF Lanes(res[2]) = 1 THEN <<Op("select", <<>>, <<cond, t, f>>, <<res>>)>>
    ELSE LET wide == <<fresh, "2xi1">>
         IN  <<Op("broadcast", <<>>, <<cond>>, <<wide>>), Op("select", <<>>, <<wide, t, f>>, <<res>>)>>
XOrForValue(cond, res, fresh) ==
    LET ones == <<fresh, cond[2]>>
    IN  <<Op("constant", [k \in 1..Lanes(cond[2]) |-> "1"], <<>>, <<ones>>),
          Op("xori", <<>>, <<cond, ones>>, <<res>>)>>

Before(block, i) == SubSeq(block, 1, i - 1)
After(block, i) == SubSeq(block, i + 1, Len(block))
Replaced(block, i, ops, values, by) ==
    Before(block, i) \o ops \o Renamed(After(block, i), Pairing(values, by))
IsUnused(block, i, v) == Uses(After(block, i), v) = 0

(* replaceOpWithRegion: code after an exit is erased.                      *)
Inlined(block, i, region) ==
    IF Exits(region) THEN Before(block, i) \o region
    ELSE Replaced(block, i, Front(region), block[i].res, Last(region).args)

FoldIf(block, i, defs) ==
    LET op == block[i]
    IN  IF op.op # "if" THEN {}
        ELSE {[block EXCEPT ![i].args = <<c>>, ![i].regions = <<Else(op), Then(op)>>] :
                c \in IF Else(op) = <<>> THEN {} ELSE NegationOf(op.args[1], defs)}

RemoveStaticCondition(block, i, defs) ==
    LET op == block[i]
        Arm(c) == IF c = "1" THEN Then(op) ELSE Else(op)
    IN  {IF Arm(c) = <<>> THEN RemoveAt(block, i) ELSE Inlined(block, i, Arm(c)) :
            c \in ConstantBool(op.args[1], defs)}

ConvertToSelect(block, i, fresh) ==
    LET op == block[i]
        thenArm == IF Yields(Then(op)) THEN Then(op) ELSE Else(op)
        elseArm == IF Yields(Else(op)) THEN Else(op) ELSE Then(op)
        t == Last(thenArm).args
        f == Last(elseArm).args
        Stays(k) == t[k] \in Results(thenArm) \/ f[k] \in Results(elseArm)
        OfStaying(values) == Picked(values, Stays)
        Rebuilt(arm) == IF Yields(arm) THEN Append(Front(arm), YieldOp(OfStaying(Last(arm).args))) ELSE arm
        selects == FlattenSeq([k \in DOMAIN op.res |->
            IF Stays(k) \/ t[k] = f[k] THEN <<>>
            ELSE SelectByType(op.args[1], t[k], f[k], op.res[k], fresh + k)])
        Same(k) == ~Stays(k) /\ t[k] = f[k]
        new == IfOp(op.args[1], OfStaying(op.res), Rebuilt(Then(op)), Rebuilt(Else(op)))
    IN  IF \/ op.res = <<>> \/ ~(Yields(Then(op)) \/ Yields(Else(op)))
           \/ \E v \in ToSet(op.res) : ~IsTile(v)
           \/ \A k \in DOMAIN op.res : Stays(k)
        THEN {}
        ELSE {Replaced(block, i, Append(selects, new),
                       Picked(op.res, Same), Picked(t, Same))}

RemoveUnusedResults(block, i) ==
    LET op == block[i]
        OfUsed(values) == Picked(values, LAMBDA k : ~IsUnused(block, i, op.res[k]))
        Rebuilt(arm) == IF Yields(arm) THEN Append(Front(arm), YieldOp(OfUsed(Last(arm).args))) ELSE arm
    IN  IF \/ op.res = <<>> \/ ~(Yields(Then(op)) \/ Yields(Else(op)))
           \/ \A k \in DOMAIN op.res : ~IsUnused(block, i, op.res[k])
        THEN {}
        ELSE {[block EXCEPT ![i] = IfOp(op.args[1], OfUsed(op.res), Rebuilt(Then(op)), Rebuilt(Else(op)))]}

(* The arms' constants decide; the type of the result is not looked at.    *)
ReplaceYieldWithValue(block, i, defs, fresh) ==
    LET op == block[i]
        t(k) == Last(Then(op)).args[k]
        f(k) == Last(Else(op)).args[k]
        Opposed(k, c, d) == t(k) # f(k) /\ IsTrue(t(k), defs) = c /\ IsFalse(t(k), defs) = d
                            /\ IsTrue(f(k), defs) = d /\ IsFalse(f(k), defs) = c
        Not(k) == <<fresh + 10 + k, op.args[1][2]>>
        By(k) == IF t(k) = f(k) THEN t(k)
                 ELSE IF Opposed(k, FALSE, TRUE) THEN Not(k)
                 ELSE IF Opposed(k, TRUE, FALSE) THEN op.args[1]
                 ELSE op.res[k]
        Changes(k) == By(k) # op.res[k] /\ ~IsUnused(block, i, op.res[k])
        nots == FlattenSeq([k \in DOMAIN op.res |->
            IF Changes(k) /\ By(k) = Not(k) THEN XOrForValue(op.args[1], Not(k), fresh + k) ELSE <<>>])
    IN  IF op.res # <<>> /\ Yields(Then(op)) /\ Yields(Else(op)) /\ \E k \in DOMAIN op.res : Changes(k)
        THEN {Replaced(block, i, Append(nots, op), op.res, [k \in DOMAIN op.res |-> By(k)])}
        ELSE {}

(* mergeBlocks of two arms; the yields, if both yield, become one.         *)
Merged(first, second) ==
    IF first = <<>> THEN second
    ELSE Front(first) \o Front(second)
         \o <<IF Yields(second) THEN YieldOp(Last(first).args \o Last(second).args) ELSE Last(second)>>

CombineIfs(block, i, defs) ==
    LET next == block[i]
        prev == block[i - 1]
        c == prev.args[1]
        same == next.args[1] = c
        negated == c \in NegationOf(next.args[1], defs) \/ next.args[1] \in NegationOf(c, defs)
        asThen == IF negated /\ Else(next) # <<>> THEN Else(next) ELSE IF same THEN Then(next) ELSE <<>>
        asElse == IF negated THEN Then(next) ELSE IF same THEN Else(next) ELSE <<>>
        nextThen == IF Exits(Then(prev)) THEN <<>> ELSE asThen
        nextElse == IF Exits(Else(prev)) THEN <<>> ELSE asElse
        Arm(mine, other) ==
            IF other = <<>> THEN mine
            ELSE Merged(mine, IF mine = <<>> THEN other
                              ELSE Renamed(other, Pairing(prev.res, Last(mine).args)))
    IN  IF i = 1 \/ prev.op # "if" \/ (nextThen = <<>> /\ nextElse = <<>>) THEN {}
        ELSE {Before(block, i - 1)
              \o <<IfOp(c, prev.res \o next.res, Arm(Then(prev), nextThen), Arm(Else(prev), nextElse))>>
              \o After(block, i)}

RemoveEmptyElseBranch(block, i) ==
    IF block[i].res = <<>> /\ Len(Else(block[i])) = 1 /\ ~Exits(Else(block[i]))
    THEN {[block EXCEPT ![i].regions[2] = <<>>]}
    ELSE {}

CombineNestedIfs(block, i, fresh) ==
    LET op == block[i]
        nested == Then(op)[1]
        Arms(k) == Last(Then(op)).args[k]
        Rest(k) == Last(Else(op)).args[k]
        Nested(k) == Arms(k) \in ToSet(nested.res)
        Index(k) == CHOOSE n \in DOMAIN nested.res : nested.res[n] = Arms(k)
        thenYield == [k \in DOMAIN Last(Then(op)).args |->
            IF Nested(k) THEN Last(Then(nested)).args[Index(k)] ELSE Arms(k)]
        both == <<fresh, "i1">>
        New(k) == IF Nested(k) THEN op.res[k] ELSE <<fresh + 20 + k, op.res[k][2]>>
        body == IF Yields(Then(nested)) THEN Append(Front(Then(nested)), YieldOp(thenYield)) ELSE Then(nested)
        selects == FlattenSeq([k \in DOMAIN op.res |->
            IF Nested(k) THEN <<>> ELSE SelectByType(op.args[1], Arms(k), Rest(k), op.res[k], fresh + k)])
    IN  IF \/ Len(Then(op)) # 2 \/ nested.op # "if" \/ Len(Else(op)) > 1 \/ Len(Else(nested)) > 1
           \/ Exits(Then(op)) \/ Exits(Else(op)) \/ Exits(Else(nested))
           \/ (Exits(Then(nested)) /\ (Else(op) # <<>> \/ Else(nested) # <<>>))
           \/ \E k \in DOMAIN thenYield :
                IF Nested(k) THEN Last(Else(nested)).args[Index(k)] # Rest(k) ELSE ~IsTile(Arms(k))
        THEN {}
        ELSE {Before(block, i)
              \o <<Op("andi", <<>>, <<op.args[1], nested.args[1]>>, <<both>>)>> \o selects
              \o <<IfOp(both, [k \in DOMAIN op.res |-> New(k)], body,
                        IF op.res = <<>> THEN <<>> ELSE <<Last(Else(op))>>)>>
              \o After(block, i)}

MoveTerminatorToParent(block, i) ==
    LET op == block[i]
    IN  IF Exits(Then(op)) /\ Exits(Else(op))
        THEN {Before(block, i) \o <<IfOp(op.args[1], <<>>, Then(op), <<>>)>> \o Else(op)}
        ELSE {}

IfRewrites(block, i, defs, fresh) ==
    IF block[i].op # "if" THEN {}
    ELSE RemoveUnusedResults(block, i)
         \cup ReplaceYieldWithValue(block, i, defs, fresh) \cup RemoveStaticCondition(block, i, defs)
         \cup ConvertToSelect(block, i, fresh) \cup RemoveEmptyElseBranch(block, i)
         \cup CombineIfs(block, i, defs) \cup CombineNestedIfs(block, i, fresh)
         \cup MoveTerminatorToParent(block, i)
=============================================================================
