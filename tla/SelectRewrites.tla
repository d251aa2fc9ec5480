--------------------------- MODULE SelectRewrites ---------------------------
(***************************************************************************)
(* The folds and the canonicalization patterns of `select`.  Each gives    *)
(* the blocks it may leave, as in IfRewrites.  The folds are tried in the  *)
(* order of kSelectFoldRules and the first that matches counts; a pattern  *)
(* is tried where no fold matches.                                         *)
(***************************************************************************)
EXTENDS IfRewrites

ConstantLanes(v, defs) == {d.val : d \in DefinedBy(v, "constant", defs)}
ConstantInt(v, c, defs) ==
    Scalar[v[2]] \in {"i1", "i8"} /\ \E val \in ConstantLanes(v, defs) : ToSet(val) = {c}

Cond(op) == op.args[1]
IfTrue(op) == op.args[2]
IfFalse(op) == op.args[3]

(* The folds: the operands the select has afterwards, or <<v>> for a value *)
(* that replaces it.                                                       *)
FoldSameOperands(op) == IF IfTrue(op) = IfFalse(op) THEN {<<IfTrue(op)>>} ELSE {}
FoldConstCondition(op, defs) ==
    {<<IF c = "1" THEN IfTrue(op) ELSE IfFalse(op)>> : c \in ConstantBool(Cond(op), defs)}
FoldBoolIdentity(op, defs) ==
    IF IsTrue(IfTrue(op), defs) /\ IsFalse(IfFalse(op), defs) THEN {<<Cond(op)>>} ELSE {}
FoldWithCmp(op, defs) ==
    {<<IF cmp.val = <<"not_equal">> THEN IfTrue(op) ELSE IfFalse(op)>> :
        cmp \in {d \in DefinedBy(Cond(op), "cmpi", defs) :
                    d.val \in {<<"equal">>, <<"not_equal">>} /\ d.args \in {<<IfTrue(op), IfFalse(op)>>, <<IfFalse(op), IfTrue(op)>>}}}
FoldWithXor(op, defs) == {<<c, IfFalse(op), IfTrue(op)>> : c \in NegationOf(Cond(op), defs)}
FoldWithSelect(op, defs) ==
    LET Inner(v) == {d \in DefinedBy(v, "select", defs) : Cond(d) = Cond(op)}
    IN  IF Inner(IfTrue(op)) # {}
        THEN {<<Cond(op), IfTrue(d), IfFalse(op)>> : d \in Inner(IfTrue(op))}
        ELSE {<<Cond(op), IfTrue(op), IfFalse(d)>> : d \in Inner(IfFalse(op))}
Folds(op, defs) ==
    <<FoldSameOperands(op), FoldConstCondition(op, defs), FoldBoolIdentity(op, defs),
      FoldWithCmp(op, defs), FoldWithXor(op, defs), FoldWithSelect(op, defs)>>
SelectFolds(op, defs) ==
    LET folds == SelectSeq(Folds(op, defs), LAMBDA s : s # {})
    IN  IF folds = <<>> THEN {} ELSE Head(folds)

(* The patterns: the operations that take the select's place.              *)
SelectI1ToNot(op, defs) ==
    IF IsFalse(IfTrue(op), defs) /\ IsTrue(IfFalse(op), defs)
    THEN {<<Op("xori", <<>>, <<Cond(op), IfFalse(op)>>, op.res)>>} ELSE {}
SelectConsts(op, defs) ==
    {<<Op("constant", [k \in DOMAIN lanes[1] |-> IF lanes[1][k] = "1" THEN lanes[2][k] ELSE lanes[3][k]],
          <<>>, op.res)>> :
        lanes \in ConstantLanes(Cond(op), defs) \X ConstantLanes(IfTrue(op), defs)
                  \X ConstantLanes(IfFalse(op), defs)}
SelectToExtI(op, defs, fresh) ==
    LET Ext(v) == Op("exti", <<>>, <<v>>, op.res)
        not == <<fresh + 1, Cond(op)[2]>>
        Arms(t, f) == ConstantInt(IfTrue(op), t, defs) /\ ConstantInt(IfFalse(op), f, defs)
    IN  IF Scalar[op.res[1][2]] # "i8" THEN {}
        ELSE (IF Arms("1", "0") THEN {<<Ext(Cond(op))>>} ELSE {})
             \cup (IF Arms("0", "1") THEN {XOrForValue(Cond(op), not, fresh) \o <<Ext(not)>>} ELSE {})

FoldSelect(block, i, defs) ==
    IF block[i].op # "select" THEN {}
    ELSE {IF Len(fold) = 1 THEN Replaced(block, i, <<>>, block[i].res, fold)
          ELSE [block EXCEPT ![i].args = fold] : fold \in SelectFolds(block[i], defs)}
SelectRewrites(block, i, defs, fresh) ==
    LET op == block[i]
    IN  IF op.op # "select" \/ SelectFolds(op, defs) # {} THEN {}
        ELSE {Before(block, i) \o ops \o After(block, i) :
                ops \in SelectI1ToNot(op, defs) \cup SelectConsts(op, defs) \cup SelectToExtI(op, defs, fresh)}
=============================================================================
