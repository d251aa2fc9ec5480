--------------------------- MODULE LoopInvariants ---------------------------
(***************************************************************************)
(* Loop-invariant code motion (LICM.cpp): what one loop gives up, and the  *)
(* order in which the pass visits the loops.                               *)
(***************************************************************************)
EXTENDS StructuredCode

IsLoop(op) == op.op \in {"for", "loop"}
(* isMemoryEffectFree and isSpeculatable of an operation: if, for and loop *)
(* have the effects of their regions but say nothing of speculation; a     *)
(* division may be moved when its divisor is a constant without a zero,    *)
(* and without a -1 unless only the remainder is taken.                    *)
Undefined(op) == IF op.op = "divi" THEN {"0", "-1"} ELSE {"0"}
MovableDivisions(op, defs) == op.op \notin {"if", "for", "loop", "effect"}
Movable(op, defs) ==
    /\ op.op \notin {"if", "for", "loop", "effect"}
    /\ op.op \in {"divi", "remi"} =>
            \E d \in defs : /\ d.op = "constant" /\ op.args[2] \in ToSet(d.res)
                            /\ ToSet(d.val) \cap Undefined(op) = {}

RECURSIVE WalkSkippingLoops(_)
WalkSkippingLoops(block) ==
    FlattenSeq([i \in DOMAIN block |->
        IF IsLoop(block[i]) THEN <<>>
        ELSE <<block[i]>> \o FlattenSeq([r \in DOMAIN block[i].regions |->
                                            WalkSkippingLoops(block[i].regions[r])])])

(* willHoist and toHoist are one sequence.                                 *)
HoistableOnItsOwn(op, loop, toHoist, defs) ==
    LET inside == ToSet(loop.params) \cup ToSet(Names(loop.regions[1]))
    IN  /\ op.op \notin Terminators
        /\ Movable(op, defs \cup ToSet(Walk(loop.regions[1])))
        /\ ToSet(op.args) \cap inside = {}
IsHoistableOp(op, loop, toHoist, defs) ==
    LET inside == ToSet(loop.params) \cup ToSet(Names(loop.regions[1]))
        hoisted == UNION {ToSet(toHoist[k].res) : k \in DOMAIN toHoist}
    IN  /\ op.op \notin Terminators
        /\ Movable(op, defs \cup ToSet(Walk(loop.regions[1])))
        /\ ToSet(op.args) \cap inside \subseteq hoisted
RECURSIVE Collected(_, _, _, _)
Collected(walk, loop, toHoist, defs) ==
    IF walk = <<>> THEN toHoist
    ELSE Collected(Tail(walk), loop,
                   IF IsHoistableOp(Head(walk), loop, toHoist, defs) THEN Append(toHoist, Head(walk)) ELSE toHoist,
                   defs)
UsersFirst(loop, defs) == Reverse(Collected(WalkSkippingLoops(loop.regions[1]), loop, <<>>, defs))
ToHoist(loop, defs) == Collected(WalkSkippingLoops(loop.regions[1]), loop, <<>>, defs)

RECURSIVE Stripped(_, _)
Stripped(block, gone) ==
    LET kept == SelectSeq(block, LAMBDA op : op.res = <<>> \/ ToSet(op.res) \cap gone = {})
    IN  AsTuple([i \in DOMAIN kept |->
            [kept[i] EXCEPT !.regions = AsTuple([r \in DOMAIN @ |-> Stripped(@[r], gone)])]])

(* hoistFromLoop for operation i of a block; moveBefore keeps the order.   *)
HoistFromLoop(block, i, defs) ==
    LET toHoist == ToHoist(block[i], defs)
    IN  SubSeq(block, 1, i - 1) \o toHoist
        \o <<[block[i] EXCEPT !.regions[1] = Stripped(@, UNION {ToSet(op.res) : op \in ToSet(toHoist)})]>>
        \o SubSeq(block, i + 1, Len(block))

(* The loops in the order of a post-order walk, each by the place of its   *)
(* block among the walk's: hoisting moves no loop, so the n-th stays that. *)
LoopsIn(block) == Len(SelectSeq(Walk(block), IsLoop))
RECURSIVE HoistNth(_, _, _)
HoistNth(block, n, defs) ==
    LET LoopsUpTo(i) == LoopsIn(SubSeq(block, 1, i))
        i == CHOOSE i \in DOMAIN block : LoopsUpTo(i - 1) < n /\ n <= LoopsUpTo(i)
        op == block[i]
        visible == defs \cup ToSet(SubSeq(block, 1, i - 1))
        Earlier(r) == LoopsUpTo(i - 1) + LoopsIn(FlattenSeq(SubSeq(op.regions, 1, r)))
        r == CHOOSE r \in DOMAIN op.regions : Earlier(r - 1) < n /\ n <= Earlier(r)
    IN  IF IsLoop(op) /\ n = LoopsUpTo(i) THEN HoistFromLoop(block, i, visible)
        ELSE [block EXCEPT ![i].regions[r] = HoistNth(@, n - Earlier(r - 1), visible)]
=============================================================================
