---------------------------- MODULE MCLoopSplit ----------------------------
(***************************************************************************)
(* What the runs of LoopSplit have in common: operations, comparisons, and *)
(* the loops of small integers with one branch; and the loops that the     *)
(* pass splits where it should not, or into what the verifier refuses.     *)
(***************************************************************************)
EXTENDS LoopSplit, TLC

Preds == {"LESS_THAN", "LESS_THAN_OR_EQUAL", "GREATER_THAN", "GREATER_THAN_OR_EQUAL",
          "EQUAL", "NOT_EQUAL"}

-----------------------------------------------------------------------------
(* Operations.  The regions of a branch have one operation, or two.        *)
Yields == [present |-> TRUE, continues |-> FALSE, size |-> 1]
Continues == [present |-> TRUE, continues |-> TRUE, size |-> 0]
Absent == [present |-> FALSE, continues |-> FALSE, size |-> -1]
Op(kind, cmp, then, else, hint, heavy) ==
    [kind |-> kind, cmp |-> cmp, then |-> then, else |-> else, hint |-> hint, heavy |-> heavy,
     side |-> TRUE, ends |-> kind = "continue"]
Plain == Op("op", 0, Absent, Absent, NoHint, FALSE)
Cmp(c) == Op("cmp", c, Absent, Absent, NoHint, FALSE)
Use(c) == Op("use", c, Absent, Absent, NoHint, FALSE)
Nested(c) == Op("nested", c, Yields, Absent, NoHint, FALSE)
If(c, then, else) == Op("if", c, then, else, NoHint, FALSE)
Hinted(c, hint, heavy) == Op("if", c, Yields, Yields, hint, heavy)
Body(ops) ==
    LET all == Append(ops, Op("continue", 0, Absent, Absent, NoHint, FALSE))
    IN  [n \in DOMAIN all |-> all[n] @@ [id |-> n]]

OneBranch == Body(<<Cmp(1), If(1, Yields, Yields)>>)
-----------------------------------------------------------------------------
(* Loops.  A body comes with the comparisons it is about.                  *)
Comparisons(preds, swaps, unsigned, values, rhs) ==
    [pred : preds, swapped : swaps, unsigned : {unsigned}, value : values, rhs : rhs]
LoopsOf(unsigned, lbs, ubs, steps, constOne, carries, cmps, bodies, forHints) ==
    {l \in [unsigned : {unsigned}, lb : lbs, ub : ubs, step : steps, stepIsConstOne : constOne,
            carries : carries, cmps : cmps, body : bodies, forHint : forHints,
            entryHint : {NoHint}] :
        l.stepIsConstOne => l.step = 1}

Steps(unsigned) == {step \in IntegersOf(unsigned) : step > 0}
OneBranchLoops(unsigned, swaps, values) ==
    LoopsOf(unsigned, IntegersOf(unsigned), IntegersOf(unsigned), Steps(unsigned), BOOLEAN, {TRUE},
            [1..1 -> Comparisons(Preds, swaps, unsigned, values, {"outside"})],
            {OneBranch}, {NoHint})

-----------------------------------------------------------------------------
(* The loops whose split point may wrap: unsigned ones with a value below  *)
(* the lower bound, and those split past the greatest integer.             *)
Greatest == 2^Width - 1
WrappingLoops(unsigned) ==
    {l \in OneBranchLoops(unsigned, {FALSE}, {0, 1, Greatest}) :
        unsigned /\ l.lb < l.ub /\ l.cmps[1].value \notin l.lb..(Greatest - 1)}

(* Loops that carry nothing, with a value below, in and above the range    *)
(* and at its ends.                                                        *)
UncarriedLoops(unsigned) ==
    LoopsOf(unsigned, {1}, {3}, {1, 2}, {FALSE}, {FALSE},
            [1..1 -> Comparisons(Preds, BOOLEAN, unsigned, 0..3, {"outside", "body"})],
            {OneBranch}, {NoHint})
=============================================================================
