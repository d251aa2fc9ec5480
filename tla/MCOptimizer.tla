---------------------------- MODULE MCOptimizer -----------------------------
(* Programs for the optimizer: a loop of an entry function with one or two *)
(* conditionals in it, selects, sums of products, and loops with code that *)
(* does not vary.                                                          *)
EXTENDS Optimizer

c == <<0, "i1">>
d == <<1, "i1">>
x == <<2, "i8">>
y == <<3, "i8">>
v == <<4, "f32">>
w == <<5, "f32">>
cc == <<6, "2xi1">>
token == <<7, "token">>
MCInputs == {c, d, x, y, v, w, cc, token}
Bit(b) == <<Term(IF b THEN "1" ELSE "0", <<>>)>>
Symbol(s) == <<Term(s, <<>>)>>
(* x is also the trip count of loops and the divisor of divisions.         *)
MCWorlds == {(c :> Bit(bc)) @@ (d :> Bit(bd)) @@ (x :> Bit(bx)) @@ (y :> Bit(TRUE))
             @@ (v :> Symbol("v")) @@ (w :> Symbol("w")) @@ (cc :> Bit(bc) \o Bit(bd)) @@ (token :> Symbol("t")) :
                bc \in BOOLEAN, bd \in BOOLEAN, bx \in BOOLEAN}

V(n, ty) == <<100 + n, ty>>
T == V(0, "i1")
F == V(1, "i1")
notC == V(2, "i1")
one == V(3, "i8")
zero == V(4, "i8")
Const(res, val) == Op("constant", val, <<>>, <<res>>)
Not(res, of) == Op("xori", <<>>, <<of, T>>, <<res>>)
Effect(name, args, res) == Op("effect", <<name>>, args, res)
Pure(name, args, res) == Op("pure", <<name>>, args, <<res>>)
Exit(kind, args) == Op(kind, <<>>, args, <<>>)
Yield(values) == <<YieldOp(values)>>

Used(ops, body) == SelectSeq(ops, LAMBDA o : Uses(body, o.res[1]) > 0)
Entry(body) ==
    LET negation == Used(<<Not(notC, c)>>, body)
    IN  Used(<<Const(T, <<"1">>), Const(F, <<"0">>), Const(one, <<"1">>), Const(zero, <<"0">>)>>,
             negation \o body)
        \o negation \o body \o <<Exit("return", <<>>)>>
Loop(body) == [Op("loop", <<>>, <<>>, <<V(90, "i8")>>) EXCEPT !.regions = <<body>>]
For(n, body) == [Op("for", <<>>, <<zero, n, one>>, <<>>) EXCEPT !.regions = <<body>>, !.params = <<V(80 + Len(body), "i8")>>]
InLoop(body) == Entry(<<Loop(body), Effect("after", <<V(90, "i8")>>, <<>>)>>)

(* Two conditionals one after the other, in a loop and in a `for` that     *)
(* carries a value.                                                        *)
a == V(10, "i8")
p == V(12, "i1")
e(n) == V(20 + n, "i8")
Arms(n, exit) ==
    {Yield(<<x, F>>), <<Effect("first", <<>>, <<e(n)>>), YieldOp(<<e(n), d>>)>>, <<Exit(exit, <<x>>)>>}
Thens2(exit) == {<<Effect("second", <<a>>, <<>>), YieldOp(<<>>)>>, <<Exit(exit, <<a>>)>>}
Elses2(exit) == {<<>>, Yield(<<>>), <<Exit(exit, <<x>>)>>}
Pair(exit, end) ==
    {<<IfOp(k1, <<a, p>>, t, f), IfOp(k2, <<>>, t2, f2), Effect("third", <<>>, <<>>), end>> :
        k1 \in {c, notC}, t \in Arms(1, exit), f \in Arms(2, exit), k2 \in {c, notC, p},
        t2 \in Thens2(exit), f2 \in Elses2(exit)}
Carrying(body) ==
    Entry(<<[Op("for", <<>>, <<zero, x, one, y>>, <<V(91, "i8")>>)
                EXCEPT !.regions = <<body>>, !.params = <<V(92, "i8"), V(93, "i8")>>],
            Effect("after", <<V(91, "i8")>>, <<>>)>>)
TwoIfs ==
    {InLoop(body) : body \in Pair("break", Exit("continue", <<>>))}
    \cup {Carrying(body) : body \in Pair("continue", Exit("continue", <<V(93, "i8")>>))}

(* A conditional in the arm of another.                                    *)
b == V(11, "i8")
Inner(n) ==
    {Yield(<<x>>), <<Effect("first", <<>>, <<e(n)>>), YieldOp(<<e(n)>>)>>, <<Exit("break", <<x>>)>>}
NestedIfs ==
    {InLoop(<<IfOp(c, <<a>>, <<IfOp(k, <<b>>, t, f), YieldOp(<<last>>)>>, Yield(<<rest>>)), Exit("break", <<a>>)>>) :
        k \in {d, c, notC}, t \in Inner(1), f \in {Yield(<<x>>), Yield(<<y>>), <<Exit("break", <<y>>)>>},
        last \in {b, y}, rest \in {x, y}}
Silent == {Yield(<<>>), <<Effect("inner", <<>>, <<>>), YieldOp(<<>>)>>, <<Exit("continue", <<>>)>>, <<Exit("return", <<>>)>>}
NestedExits ==
    {InLoop(<<IfOp(k, <<>>, <<IfOp(d, <<>>, t, f), YieldOp(<<>>)>>, g), Effect("third", <<>>, <<>>), Exit("break", <<x>>)>>) :
        k \in {c, T, notC}, t \in Silent, f \in Silent \cup {<<>>},
        g \in {<<>>, Yield(<<>>), <<Exit("continue", <<>>)>>}}

(* Conditionals that yield truth values, and tokens.                       *)
t0 == V(13, "token")
Truths ==
    {InLoop(<<IfOp(c, <<p>>, Yield(<<q>>), Yield(<<r>>)), IfOp(p, <<>>, <<Exit("break", <<x>>)>>, <<>>),
              Exit("continue", <<>>)>>) : q \in {T, F, d}, r \in {T, F, d}}
    \cup {InLoop(<<IfOp(k, <<t0, a>>, Yield(<<token, x>>), f), Effect("use", <<t0>>, <<>>), Exit("break", <<a>>)>>) :
        k \in {c, F}, f \in {Yield(<<token, y>>), <<Exit("continue", <<>>)>>}}

(* Selects, of one lane and of two.                                        *)
s1 == V(14, "i8")
s2 == V(15, "i8")
test == V(16, "i1")
Select(res, k, t, f) == Op("select", <<>>, <<k, t, f>>, <<res>>)
Selects ==
    {Entry(<<Op("cmpi", <<pred>>, <<x, y>>, <<test>>), Select(s1, k, t, f), Select(s2, k2, s1, t), Effect("use", <<s2>>, <<>>)>>) :
        pred \in {"equal", "not_equal"}, k \in {test, notC, c, T}, t \in {x, one}, f \in {y, zero, x}, k2 \in {c, test}}
    \cup {Entry(<<Select(p, c, t, f), Select(a, p, zero, one), Effect("use", <<a>>, <<>>)>>) :
        t \in {T, F, d}, f \in {T, F, d}}
TT == V(30, "2xi1")
TF == V(31, "2xi1")
bb == V(32, "2xi1")
wide == V(33, "2xi1")
Wide ==
    {Entry(<<Const(TT, <<"1", "1">>), Const(TF, <<"1", "0">>), IfOp(c, <<bb>>, Yield(<<t>>), Yield(<<f>>)),
             Select(wide, k, bb, TT), Effect("use", <<wide>>, <<>>)>>) :
        t \in {TT, TF, cc}, f \in {TT, TF, cc}, k \in {cc, TT, TF}}

(* Sums of products.                                                       *)
m == V(40, "f32")
m2 == V(43, "f32")
s == V(41, "f32")
Sums ==
    {Entry(<<Op("mulf", <<mode>>, <<v, w>>, <<m>>), Op("mulf", <<"rn">>, <<w, w>>, <<m2>>),
             IfOp(c, <<s>>, <<Op(kind, <<"rn">>, args, <<V(42, "f32")>>), YieldOp(<<V(42, "f32")>>)>>, Yield(<<other>>)),
             Effect("use", <<s>>, <<>>)>>) :
        mode \in {"rn", "rz"}, kind \in {"addf", "subf"}, other \in {v, m},
        args \in {<<m, v>>, <<v, m>>, <<m, m>>, <<m, m2>>, <<m2, m>>}}

(* Loops with code that does not vary, or must not move.                   *)
i8(n) == V(50 + n, "i8")
Invariants ==
    {Entry(<<For(x, <<Const(i8(1), <<k>>), Pure("f", <<x>>, i8(2)), Op(division, <<division>>, <<y, by>>, <<i8(3)>>),
                      For(x, <<Const(i8(4), <<"1">>), Pure("g", <<of, i8(4)>>, i8(5)), Effect("inner", <<i8(5)>>, <<>>),
                               Exit("continue", <<>>)>>),
                      IfOp(c, <<>>, <<Pure("h", <<i8(3)>>, i8(6)), Pure("h", <<i8(6)>>, i8(7)),
                                      Effect("use", <<i8(7)>>, <<>>), YieldOp(<<>>)>>, <<>>),
                      Exit("continue", <<>>)>>)>>) :
        k \in {"0", "1", "-1"}, division \in {"divi", "remi"}, by \in {i8(1), x, one}, of \in {i8(2), i8(3), V(86, "i8"), V(84, "i8")}}

-----------------------------------------------------------------------------
Opts(level, fma) == [level |-> level, fma |-> fma, text |-> ""]
Job(block, opts) ==
    [code |-> Canonical(block), opts |-> opts, given |-> {"input"}, output |-> {}, fails |-> ""]
Plain == Entry(<<Pure("f", <<x>>, a), Pure("f", <<x>>, b), Effect("use", <<a, b>>, <<>>)>>)
Drivers ==
    {[Job(Plain, [level |-> 3, fma |-> FALSE, text |-> txt]) EXCEPT !.given = g, !.output = o, !.fails = f] :
        txt \in {"", "bad"}, o \in SUBSET ToSet(Outputs),
        g \in {{"input"} \cup ToSet(Outputs), {"input", "mlirFile"}, ToSet(Outputs)},
        f \in {"", "load", "bytecodeMemory", "mlirFile"}}
MCJobs ==
    {Job(block, Opts(1, FALSE)) :
        block \in TwoIfs \cup NestedIfs \cup NestedExits \cup Truths \cup Selects \cup Wide}
    \cup {Job(block, Opts(0, TRUE)) : block \in Sums}
    \cup {Job(block, Opts(2, FALSE)) : block \in Invariants}
    \cup Drivers

=============================================================================
