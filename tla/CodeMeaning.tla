---------------------------- MODULE CodeMeaning -----------------------------
(***************************************************************************)
(* What structured code does, lane by lane: the effects it has in order,   *)
(* and how it ends.  A lane's value is a term [f, k, a], a function symbol *)
(* applied to terms, so an operation whose result the rewrites never look  *)
(* at stays a symbol.  A multiplication and the addition or subtraction    *)
(* that takes it with the same rounding count as one fused operation: that *)
(* is what the fusion of multiply and add may change.                      *)
(***************************************************************************)
EXTENDS StructuredCode

CONSTANTS
    Fuel,       \* iterations of a `loop` that are followed
    Roundings   \* rounding mode and flush-to-zero of an operation on floats

Term(f, a) == [f |-> f, k |-> 0, a |-> a]
Bool(b) == Term(IF b THEN "1" ELSE "0", <<>>)
True(t) == t.f = "1"
Product(t, mode) == t.f = "mul" \o mode
Negated(t) == Term("neg", <<t>>)
Sum(mode, x, y) ==
    LET IsProduct(t) == \E m \in Roundings : Product(t, m)
        first == IF Product(x, mode) THEN x ELSE IF Product(y, mode) THEN y
                 ELSE IF IsProduct(y) /\ ~IsProduct(x) THEN y ELSE x
        second == IF first = x THEN y ELSE x
    IN  IF Product(first, mode) THEN Term("fma" \o mode, first.a \o <<second>>)
        ELSE Term("add" \o mode, <<first, second>>)

Lane(op, e, k) ==
    CASE op.op = "constant" -> Term(op.val[k], <<>>)
      [] op.op = "xori" -> Bool(e[1] # e[2])
      [] op.op = "andi" -> Bool(True(e[1]) /\ True(e[2]))
      [] op.op = "cmpi" -> Bool((e[1] = e[2]) = (op.val = <<"equal">>))
      [] op.op = "select" -> IF True(e[1]) THEN e[2] ELSE e[3]
      [] op.op \in {"broadcast", "exti"} -> e[1]
      [] op.op = "mulf" -> Term("mul" \o op.val[1], e)
      [] op.op = "negf" -> Negated(e[1])
      [] op.op = "addf" -> Sum(op.val[1], e[1], e[2])
      [] op.op = "subf" -> IF Product(e[1], op.val[1]) THEN Sum(op.val[1], e[1], Negated(e[2]))
                           ELSE Term("sub" \o op.val[1], e)
      [] op.op = "fma" -> Term("fma" \o op.val[1], e)
      [] OTHER -> Term(op.val[1], e)

Fetched(op, st) == [n \in DOMAIN op.args |-> st.env[op.args[n]]]
At(tile, k) == IF Len(tile) = 1 THEN tile[1] ELSE tile[k]
Tile(op, tiles) ==
    [k \in 1..Lanes(op.res[1][2]) |-> Lane(op, [n \in DOMAIN tiles |-> At(tiles[n], k)], k)]
Bound(st, values, tiles) ==
    [st EXCEPT !.env = [v \in ToSet(values) |-> tiles[CHOOSE k \in DOMAIN values : values[k] = v]] @@ @]

RECURSIVE Run(_, _), Step(_, _), Iterated(_, _, _)
Iterated(op, st, left) ==
    IF left = 0 THEN (IF op.op = "for" THEN [st EXCEPT !.exit = "break"] ELSE [st EXCEPT !.exit = "spin"])
    ELSE LET iv == IF op.op = "for" THEN <<<<[Term("iv", <<>>) EXCEPT !.k = left]>>>> ELSE <<>>
             out == Run(op.regions[1], Bound(st, op.params, iv \o st.vals))
         IN  IF out.exit = "continue" THEN Iterated(op, [out EXCEPT !.exit = ""], left - 1) ELSE out
Step(op, st) ==
    LET tiles == Fetched(op, st)
        Trips == CHOOSE n \in 0..2 : tiles[2][1].f = ToString(n)
        Ended(out, by) ==
            IF out.exit = by THEN Bound([out EXCEPT !.exit = ""], op.res, out.vals) ELSE out
    IN  CASE op.op = "if" ->
                LET arm == IF True(tiles[1][1]) THEN Then(op) ELSE Else(op)
                IN  IF arm = <<>> THEN st ELSE Ended(Run(arm, st), "yield")
          [] op.op = "for" ->
                Ended(Iterated(op, [st EXCEPT !.vals = SubSeq(tiles, 4, Len(tiles))], Trips), "break")
          [] op.op = "loop" -> Ended(Iterated(op, [st EXCEPT !.vals = tiles], Fuel), "break")
          [] op.op \in Terminators -> [st EXCEPT !.exit = op.op, !.vals = tiles]
          [] op.op = "effect" ->
                LET out == [f |-> op.val[1], k |-> Len(st.trace), a |-> <<>>]
                IN  Bound([st EXCEPT !.trace = Append(@, <<op.val[1], tiles>>)],
                          op.res, [n \in DOMAIN op.res |-> <<out>>])
          [] \/ op.op = "divi" /\ \E t \in ToSet(tiles[2]) : t.f \in {"0", "-1"}
             \/ op.op = "remi" /\ \E t \in ToSet(tiles[2]) : t.f = "0" -> [st EXCEPT !.exit = "trap"]
          [] OTHER -> Bound(st, op.res, <<Tile(op, tiles)>>)
Run(block, st) ==
    IF block = <<>> \/ st.exit # "" THEN st ELSE Run(Tail(block), Step(Head(block), st))

Meaning(block, input) ==
    LET end == Run(block, [env |-> input, trace |-> <<>>, exit |-> "", vals |-> <<>>])
    IN  [trace |-> end.trace, exit |-> end.exit, vals |-> end.vals]
(* Code whose run is undefined may be replaced by anything; the effects it *)
(* had before are not looked at either.                                    *)
Agrees(meaning, old) == old.exit = "trap" \/ meaning = old
=============================================================================
