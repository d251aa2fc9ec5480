---------------------------- MODULE FloatRewrites ---------------------------
(***************************************************************************)
(* The fusion of a multiplication with the addition or the subtraction     *)
(* that takes it (FuseFMA.cpp), and the canonicalization of additions that *)
(* brings the multiplication to the left.  An operation's val stands for   *)
(* its rounding mode and its flush-to-zero flag.  The multiplication may   *)
(* lie in any block around the addition, so a fusion is a rewrite of the   *)
(* whole code: all is that code, and the result a sequence of two, the     *)
(* block with the fused operation and the multiplication to erase.         *)
(***************************************************************************)
EXTENDS IfRewrites

MultiplicationToTheLeft(block, i, defs) ==
    IF block[i].op = "addf" /\ DefinedBy(block[i].args[2], "mulf", defs) # {}
    THEN {[block EXCEPT ![i].args = Reverse(@)]}
    ELSE {}
CanonicalizeAddOperands(block, i, defs) ==
    LET op == block[i]
        IsMul(v) == DefinedBy(v, "mulf", defs) # {}
    IN  IF op.op = "addf" /\ IsMul(op.args[2]) /\ ~IsMul(op.args[1])
        THEN {[block EXCEPT ![i].args = Reverse(@)]}
        ELSE {}

(* The multiplications that operation op may be fused with.                *)
Fusable(op, defs, all) ==
    IF op.op \notin {"addf", "subf"} THEN {}
    ELSE {d \in DefinedBy(op.args[1], "mulf", defs) : Uses(all, op.args[1]) = 1 /\ d.val = op.val}
MulAdd(op, mul) == <<Op("fma", op.val, Append(mul.args, op.args[2]), op.res)>>
MulSub(op, mul, fresh) ==
    LET c == <<fresh, op.args[2][2]>>
    IN  <<Op("negf", <<>>, <<op.args[2]>>, <<c>>), Op("fma", op.val, Append(mul.args, c), op.res)>>
Fusions(block, i, defs, fresh, all) ==
    LET op == block[i]
    IN  {<<Before(block, i)
           \o (IF op.op = "addf" THEN MulAdd(op, mul) ELSE MulSub(op, mul, fresh))
           \o After(block, i), mul.res[1]>> : mul \in Fusable(op, defs, all)}

RECURSIVE Without(_, _)
Without(block, v) ==
    LET kept == SelectSeq(block, LAMBDA op : v \notin ToSet(op.res))
    IN  AsTuple([i \in DOMAIN kept |->
            [kept[i] EXCEPT !.regions = AsTuple([r \in DOMAIN @ |-> Without(@[r], v)])]])
=============================================================================
