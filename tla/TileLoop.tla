------------------------------ MODULE TileLoop ------------------------------
(***************************************************************************)
(* The part of the dialect that the loop passes are about: integers of     *)
(* Width bits and what cuda_tile.for, if, continue and cmpi mean, as the   *)
(* dialect's operation definitions say; the library does not execute them. *)
(*                                                                         *)
(* A loop has its bounds, a step, its signedness, the comparisons in its   *)
(* body and the body itself.  An operation is a cmp, an if on one, an      *)
(* operation that uses one otherwise (an if in a nested region is one of   *)
(* these), one that uses none, or a continue.  An operation or a region    *)
(* does no more than leave a trace, the operation's id and what it saw or  *)
(* which side was taken; a continue leaves none.                           *)
(***************************************************************************)
EXTENDS Integers, Sequences, SequencesExt

CONSTANT Width      \* the bits of an integer
ASSUME WidthAssumption == Width \in Nat \ {0}

(* The integers of a loop and the value an operation that wraps gives.     *)
IntegersOf(unsigned) == IF unsigned THEN 0..(2^Width - 1)
                        ELSE -(2^(Width - 1))..(2^(Width - 1) - 1)
Wrap(unsigned, x) ==
    LET bits == x % 2^Width IN
    IF unsigned \/ bits < 2^(Width - 1) THEN bits ELSE bits - 2^Width

LeastOf(x, y) == IF x < y THEN x ELSE y
GreatestOf(x, y) == IF x < y THEN y ELSE x
CeilDiv(x, y) == -((-x) \div y)

Compare(pred, x, y) ==
    CASE pred = "LESS_THAN" -> x < y
      [] pred = "LESS_THAN_OR_EQUAL" -> x <= y
      [] pred = "GREATER_THAN" -> x > y
      [] pred = "GREATER_THAN_OR_EQUAL" -> x >= y
      [] pred = "EQUAL" -> x = y
      [] pred = "NOT_EQUAL" -> x # y

(* A comparison of the induction variable with another value.              *)
Holds(cmp, iv) ==
    LET x == Wrap(cmp.unsigned, iv)
        y == Wrap(cmp.unsigned, cmp.value)
    IN  IF cmp.swapped THEN Compare(cmp.pred, y, x) ELSE Compare(cmp.pred, x, y)

(* What one iteration does, conds giving the value of every comparison.  A *)
(* continue ends the iteration, as does a region that ends in one and an   *)
(* operation that stands for such a region (ends).                         *)
Region(op, taken) == IF taken THEN op.then ELSE op.else
Step(run, op, conds) ==
    IF run.over \/ op.kind = "cmp" THEN run
    ELSE IF op.kind = "continue" THEN [run EXCEPT !.over = TRUE]
    ELSE IF op.kind = "if"
    THEN LET taken == conds[op.cmp] IN
         IF Region(op, taken).present
         THEN [trace |-> Append(run.trace, <<op.id, taken>>), over |-> Region(op, taken).continues]
         ELSE run
    ELSE [trace |-> Append(run.trace, <<op.id, IF op.kind = "op" THEN op.side ELSE conds[op.cmp]>>),
          over |-> op.ends]
Execute(body, conds) ==
    FoldLeft(LAMBDA run, op : Step(run, op, conds), [trace |-> <<>>, over |-> FALSE], body).trace

Conditions(loop, iv) == [c \in DOMAIN loop.cmps |-> Holds(loop.cmps[c], iv)]
=============================================================================
