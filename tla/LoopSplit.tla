----------------------------- MODULE LoopSplit -----------------------------
(***************************************************************************)
(* The loop-split pass and the program it leaves.  A branch on a compari-  *)
(* son of the induction variable with a loop invariant is taken for one    *)
(* end of the range and not for the other, so the loop is copied: the      *)
(* first copy, up to a split point, has one side of the branch, the second *)
(* copy the other.  The split point is computed by operations that wrap.   *)
(*                                                                         *)
(* The behaviours of this module are the pass, one branch after the other, *)
(* the verifier, which may refuse what the pass has left, and then a run   *)
(* of the output; that the output does what the loop did is that this      *)
(* module implements ForLoop.                                              *)
(***************************************************************************)
EXTENDS TileLoop

CONSTANTS
    Loops(_),           \* the loops the pass is run on, the unsigned and the signed
    SplitThreshold,     \* the pass option split-threshold
    NoHint,             \* no loop_split_threshold attribute on an operation
    NoSplit

(* What the verifiers leave: the bounds, the step and a compared value are *)
(* integers of their type, the step is positive, and the body is well-     *)
(* formed: a comparison comes before what uses it, and the block ends in a *)
(* terminator, which for a loop is a continue, and has no other.           *)
IsComparison(cmp) ==
    /\ cmp.pred \in {"LESS_THAN", "LESS_THAN_OR_EQUAL", "GREATER_THAN",
                     "GREATER_THAN_OR_EQUAL", "EQUAL", "NOT_EQUAL"}
    /\ {cmp.swapped, cmp.unsigned} \subseteq BOOLEAN
    /\ cmp.value \in IntegersOf(cmp.unsigned)
IsOp(op) ==
    /\ op = [id |-> op.id, kind |-> op.kind, cmp |-> op.cmp, then |-> op.then, else |-> op.else,
             hint |-> op.hint, heavy |-> op.heavy, side |-> op.side, ends |-> op.ends]
    /\ op.id \in Nat /\ op.kind \in {"op", "cmp", "use", "nested", "if", "continue"}
    /\ {op.side, op.ends, op.then.continues, op.else.continues} \subseteq BOOLEAN
Uses(op) == op.kind \in {"use", "nested", "if"}
WellFormed(ops) ==
    /\ ops # <<>>
    /\ \A n \in DOMAIN ops :
          /\ Uses(ops[n]) => \E k \in 1..(n - 1) : ops[k].kind = "cmp" /\ ops[k].cmp = ops[n].cmp
          /\ ops[n].ends <=> n = Len(ops)
IsBody(body, cmps) ==
    /\ body \in Seq(ToSet(body)) /\ WellFormed(body)
    /\ \A n \in DOMAIN body :
          /\ IsOp(body[n]) /\ (body[n].ends <=> body[n].kind = "continue")
          /\ (Uses(body[n]) \/ body[n].kind = "cmp") => body[n].cmp \in DOMAIN cmps
IsLoop(l) ==
    /\ {l.lb, l.ub, l.step} \subseteq IntegersOf(l.unsigned) /\ l.step > 0
    /\ l.stepIsConstOne => l.step = 1
    /\ l.carries \in BOOLEAN
    /\ \A c \in DOMAIN l.cmps : IsComparison(l.cmps[c])
    /\ IsBody(l.body, l.cmps)
ASSUME LoopsAssumption ==
    \A unsigned \in BOOLEAN : \A l \in Loops(unsigned) : l.unsigned = unsigned /\ IsLoop(l)

VARIABLES
    loop,       \* the loop in the IR
    phase,      \* "walk", "verify" if it was split, then "refused" or the loop that runs:
                \* "first", "second" or "kept"; "ended"
    walked,     \* operations of the body that were looked at
    split,      \* how the loop was split
    iv,         \* the induction variable
    ran         \* the iterations that were run: the value, and what was done

vars == <<loop, phase, walked, split, iv, ran>>

Init ==
    /\ \E unsigned \in BOOLEAN : loop \in Loops(unsigned)
    /\ phase = "walk" /\ walked = 0 /\ split = NoSplit
    /\ iv = loop.lb /\ ran = <<>>

Wrapped(x) == Wrap(loop.unsigned, x)

-----------------------------------------------------------------------------
(* isSplittableCondition.                                                  *)

(* The more precise hint gets priority.                                    *)
Threshold(op) ==
    IF op.hint # NoHint THEN op.hint
    ELSE IF loop.forHint # NoHint THEN loop.forHint
    ELSE IF loop.entryHint # NoHint THEN loop.entryHint
    ELSE SplitThreshold

(* The comparison as one of the induction variable with something.         *)
Mirrored ==
    [LESS_THAN |-> "GREATER_THAN", LESS_THAN_OR_EQUAL |-> "GREATER_THAN_OR_EQUAL",
     GREATER_THAN |-> "LESS_THAN", GREATER_THAN_OR_EQUAL |-> "LESS_THAN_OR_EQUAL"]
Ordered(cmp) == cmp.pred \in DOMAIN Mirrored

Normalized(cmp) == IF cmp.swapped THEN Mirrored[cmp.pred] ELSE cmp.pred
SecondThen(cmp) == Normalized(cmp) \in {"GREATER_THAN", "GREATER_THAN_OR_EQUAL"}

IsProfitable(op, threshold) ==
    threshold = 1 \/ op.then.size >= threshold \/ op.else.size >= threshold \/ op.heavy
Users(c) == {n \in DOMAIN loop.body : Uses(loop.body[n]) /\ loop.body[n].cmp = c}
Branches(c) == {n \in Users(c) : loop.body[n].kind \in {"if", "nested"}}
IfOps(c) == {n \in Users(c) : loop.body[n].kind = "if"}

(* A block argument has no defining operation: it passes for invariant,    *)
(* and the split point is then computed from a value that is not there     *)
(* before the loop ("iterArg").  LoopsAreExact leaves such loops out.      *)
Splittable(op) ==
    LET cmp == loop.cmps[op.cmp] IN
    /\ Threshold(op) # 0
    /\ cmp.unsigned = loop.unsigned
    /\ Ordered(cmp)
    /\ cmp.rhs # "body"
    /\ \E n \in Branches(op.cmp) : IsProfitable(loop.body[n], Threshold(op))

CopyCmp(c) == Users(c) # IfOps(c)

-----------------------------------------------------------------------------
(* performLoopSplit.                                                       *)

After(cmp) == Normalized(cmp) \in {"GREATER_THAN", "LESS_THAN_OR_EQUAL"}
Point(cmp) == IF After(cmp) THEN Wrapped(cmp.value + 1) ELSE cmp.value

(* Mutant: the split point is rounded down.                                *)
AlignedDown(point) ==
    IF loop.stepIsConstOne THEN point
    ELSE LET diff == Wrapped(point - loop.lb) IN
         Wrapped(loop.lb + Wrapped((diff \div loop.step) * loop.step))

(* Aligned to lb + k * step, unless the step is known to be one.           *)
Aligned(point) ==
    IF loop.stepIsConstOne THEN point
    ELSE LET diff == Wrapped(point - loop.lb)
             k == CeilDiv(diff, loop.step)
         IN  Wrapped(loop.lb + Wrapped(k * loop.step))

SplitAt(c) ==
    LET cmp == loop.cmps[c] IN
    [cmp |-> c, secondThen |-> SecondThen(cmp), point |-> Aligned(Point(cmp))]
FirstEnd == LeastOf(split.point, loop.ub)

SecondStart == GreatestOf(split.point, loop.lb)

(* copyLoop: the comparison becomes a constant if it is still needed, of   *)
(* the branches on it one region each is inlined.  Nothing is cloned after *)
(* a continue.                                                             *)
Inline(op, thenSide) ==
    [op EXCEPT !.kind = "op", !.side = thenSide, !.ends = Region(op, thenSide).continues]
Clone(copy, op) == [ops |-> Append(copy.ops, op), closed |-> op.ends]

(* Mutant: operations after a continue are cloned, too.                    *)
CopyOpBeyond(copy, n, thenSide) ==
    LET op == loop.body[n] IN
    IF op.kind = "cmp" /\ op.cmp = split.cmp /\ ~CopyCmp(split.cmp) THEN copy
    ELSE IF n \notin IfOps(split.cmp) THEN Clone(copy, op)
    ELSE IF ~Region(op, thenSide).present THEN copy
    ELSE Clone(copy, Inline(op, thenSide))

CopyOp(copy, n, thenSide) ==
    LET op == loop.body[n] IN
    IF copy.closed \/ (op.kind = "cmp" /\ op.cmp = split.cmp /\ ~CopyCmp(split.cmp)) THEN copy
    ELSE IF n \notin IfOps(split.cmp) THEN Clone(copy, op)
    ELSE IF ~Region(op, thenSide).present THEN copy
    ELSE Clone(copy, Inline(op, thenSide))

Cloned(thenSide) ==
    FoldLeftDomain(LAMBDA copy, n : CopyOp(copy, n, thenSide),
                   [ops |-> <<>>, closed |-> FALSE], loop.body).ops

(* ForOp::build: a loop made without a builder for its body has a body     *)
(* with no operation if it carries values, and with a continue if it       *)
(* carries none.  The clones are put in front of what is there.            *)
DefaultContinue ==
    LET none == [present |-> FALSE, continues |-> FALSE, size |-> 0] IN
    [id |-> 0, kind |-> "continue", cmp |-> 0, then |-> none, else |-> none,
     hint |-> NoHint, heavy |-> FALSE, side |-> TRUE, ends |-> TRUE]
CopyLoop(thenSide) ==
    IF loop.carries THEN Cloned(thenSide) ELSE Append(Cloned(thenSide), DefaultContinue)

-----------------------------------------------------------------------------
(* The pass: it walks the branches and splits at the first that it can.    *)
WalkOp ==
    /\ phase = "walk" /\ walked < Len(loop.body)
    /\ LET op == loop.body[walked + 1] IN
       IF op.kind \in {"if", "nested"} /\ Splittable(op)
       THEN /\ split' = SplitAt(op.cmp)
            /\ phase' = "verify"
            /\ UNCHANGED walked
       ELSE /\ walked' = walked + 1
            /\ UNCHANGED <<phase, split>>
    /\ UNCHANGED <<loop, iv, ran>>

KeepLoop ==
    /\ phase = "walk" /\ walked = Len(loop.body)
    /\ phase' = "kept"
    /\ UNCHANGED <<loop, walked, split, iv, ran>>

(* The verifier is run after the pass: a block ends in a terminator and    *)
(* has no other, and what an operation uses comes before it.               *)
CopiesVerify == \A thenSide \in BOOLEAN : WellFormed(CopyLoop(thenSide))

Accept ==
    /\ phase = "verify" /\ CopiesVerify
    /\ phase' = "first"
    /\ UNCHANGED <<loop, walked, split, iv, ran>>

Refuse ==
    /\ phase = "verify" /\ ~CopiesVerify
    /\ phase' = "refused"
    /\ UNCHANGED <<loop, walked, split, iv, ran>>

-----------------------------------------------------------------------------
(* The program after the pass runs, if the verifier has accepted it.       *)
Run(body, conds) ==
    /\ ran' = Append(ran, <<iv, Execute(body, conds)>>)
    /\ iv' = iv + loop.step
    /\ UNCHANGED <<loop, phase, walked, split>>
RunCopy(thenSide) ==
    Run(CopyLoop(thenSide), [Conditions(loop, iv) EXCEPT ![split.cmp] = thenSide])

RunKept ==
    /\ phase = "kept" /\ iv < loop.ub
    /\ Run(loop.body, Conditions(loop, iv))

RunFirst ==
    /\ phase = "first" /\ iv < FirstEnd
    /\ RunCopy(~split.secondThen)

StartSecond ==
    /\ phase = "first" /\ iv >= FirstEnd
    /\ phase' = "second" /\ iv' = SecondStart
    /\ UNCHANGED <<loop, walked, split, ran>>

RunSecond ==
    /\ phase = "second" /\ iv < loop.ub
    /\ RunCopy(split.secondThen)

Finish ==
    /\ phase \in {"second", "kept"} /\ iv >= loop.ub
    /\ phase' = "ended"
    /\ UNCHANGED <<loop, walked, split, iv, ran>>

Ended == phase \in {"ended", "refused"} /\ UNCHANGED vars

Next == \/ WalkOp \/ KeepLoop \/ Accept \/ Refuse
        \/ RunKept \/ RunFirst \/ StartSecond \/ RunSecond \/ Finish \/ Ended

Spec == Init /\ [][Next]_vars

-----------------------------------------------------------------------------
(* The loops whose split point is computed without wrapping, should they   *)
(* be split at any of their comparisons.                                   *)
Exact(l, cmp) ==
    LET point == IF After(cmp) THEN cmp.value + 1 ELSE cmp.value
        offset == CeilDiv(point - l.lb, l.step) * l.step
    IN  /\ point \in IntegersOf(l.unsigned)
        /\ ~l.stepIsConstOne =>
              {point - l.lb, offset, l.lb + offset} \subseteq IntegersOf(l.unsigned)

(* None of the splits that the pass may make wraps, or is at a value that  *)
(* is not there before the loop.                                           *)
LoopsAreExact ==
    \A unsigned \in BOOLEAN : \A l \in Loops(unsigned) : \A c \in DOMAIN l.cmps :
        (Ordered(l.cmps[c]) /\ l.cmps[c].unsigned = l.unsigned) =>
            l.cmps[c].rhs # "iterArg" /\ Exact(l, l.cmps[c])

(* Every variable has the shape the code gives it.                         *)
TypeOK ==
    /\ phase \in {"walk", "verify", "refused", "first", "second", "kept", "ended"}
    /\ walked \in 0..Len(loop.body)
    /\ split # NoSplit =>
          /\ split.cmp \in DOMAIN loop.cmps /\ split.secondThen \in BOOLEAN
          /\ split.point \in IntegersOf(loop.unsigned)
    /\ iv \in Int /\ iv >= loop.lb
    /\ ran \in Seq(Int \X Seq(Nat \X BOOLEAN))

(* The program after the pass, if the verifier accepts it, does what the   *)
(* loop did before: the same iterations in the same order, and in each the *)
(* same operations.                                                        *)
HasEnded == phase = "ended"
Original == INSTANCE ForLoop WITH ended <- HasEnded
PreservesLoop == Original!Spec

(* copyLoop, for loops that carry values: whatever the body, the copies    *)
(* are well-formed: what uses the comparison comes after it, and a copy    *)
(* ends in a continue and has no other.  For loops that carry none they    *)
(* never are, for the continue that ForOp::build has put into the body.    *)
CopiesWellFormed == split # NoSplit => (CopiesVerify <=> loop.carries)

(* "The body of the loop must be terminated by a continue" (Ops.td), and   *)
(* the pass splits loops so that it is: what it leaves is never refused.   *)
SplitVerifies == phase # "refused"

(* "First loop: before the condition flips true", "Second loop: after the  *)
(* condition is true" (performLoopSplit).                                  *)
ConditionFlips ==
    /\ (phase = "first" /\ iv < FirstEnd) =>
          Holds(loop.cmps[split.cmp], iv) = ~split.secondThen
    /\ (phase = "second" /\ iv < loop.ub) =>
          Holds(loop.cmps[split.cmp], iv) = split.secondThen
=============================================================================
