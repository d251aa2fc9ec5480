-------------------------- MODULE MCLoopSplitExact --------------------------
(***************************************************************************)
(* LoopSplit where it is right: every three-bit loop with one branch whose *)
(* split point is computed without wrapping, and every body of a few       *)
(* operations on two comparisons, in a loop that carries values and in one *)
(* that does not.                                                          *)
(***************************************************************************)
EXTENDS MCLoopSplit

ExactLoops(unsigned) ==
    {l \in OneBranchLoops(unsigned, BOOLEAN, IntegersOf(unsigned)) :
        Ordered(l.cmps[1]) => Exact(l, l.cmps[1])}

Ops == {Plain, Use(1), Nested(1), Use(2), Nested(2), If(1, Yields, Absent),
        If(1, Yields, Continues), If(1, Continues, Yields), If(1, Continues, Absent),
        If(2, Continues, Yields), If(2, Yields, Yields),
        Hinted(1, 0, FALSE), Hinted(1, 2, FALSE), Hinted(1, 2, TRUE)}

Bodies == {Body(<<Cmp(1), Cmp(2)>> \o ops) : ops \in BoundedSeq(Ops, 3)}

(* The first comparison may be one the pass cannot use, for its predicate, *)
(* its signedness or its value; the second one has its operands swapped.   *)
First == Comparisons({"LESS_THAN", "GREATER_THAN", "EQUAL"}, {FALSE}, FALSE, {1}, {"outside", "body"})
         \cup Comparisons({"LESS_THAN"}, {FALSE}, TRUE, {1}, {"outside"})
Second == Comparisons({"LESS_THAN"}, {TRUE}, FALSE, {2}, {"outside"})
BodyLoops(unsigned) ==
    LoopsOf(unsigned, {0}, {3}, {1}, {TRUE}, BOOLEAN, {<<x, y>> : x \in First, y \in Second},
            Bodies, {NoHint, 0})

MCLoops(unsigned) == ExactLoops(unsigned) \cup IF unsigned THEN {} ELSE BodyLoops(unsigned)

(* What the theorems about such loops assume.                              *)
ASSUME ExactAssumption == LoopsAreExact
=============================================================================
