---------------------------- MODULE MCDebugScopes ----------------------------
(***************************************************************************)
(* DebugScopes on modules of one to three functions, of which the first    *)
(* has a location of every kind, with scopes directly, inside of others    *)
(* and in a callee only, and operations as many kinds as well.             *)
(***************************************************************************)
EXTENDS DebugScopes, TLC

CONSTANT null

Unknown == [k |-> "unknown"]
Here == File(<<"dir", "a">>, 1)
There == File(<<"", "b">>, 2)
Wrapped(kind, loc) == [k |-> kind, child |-> loc]
Fused(parts) == [k |-> "fused", parts |-> parts]
CallSite(callee, caller) == [k |-> "call", callee |-> callee, caller |-> caller]
ScopeOf(name) == Subprogram(<<"dir", "a">>, 1, name, name, <<"dir", "a">>)
In(name) == Di(Here, ScopeOf(name))
InBlock(name) == Di(There, [k |-> "block", scope |-> ScopeOf(name)])

Function(name, loc, body) == [name |-> name, loc |-> loc, body |-> body]
FunctionLocs(name) ==
    {Unknown, Here, Wrapped("name", Here), In(name), Fused(<<Unknown, In(name)>>),
     Fused(<<There, CallSite(In(name), Unknown)>>), InBlock(name), CallSite(Unknown, There)}
OpLocs(name, other) ==
    {Unknown, There, Wrapped("opaque", There), Fused(<<Unknown, There>>), InBlock(name),
     CallSite(In(other), There), CallSite(Here, In(name)), In(other)}
UpTo(count, S) == UNION {[1..n -> S] : n \in 0..count}

First(count) ==
    {Function("f", loc, body) : loc \in FunctionLocs("f"), body \in UpTo(count, OpLocs("f", "g"))}
Second ==
    {Function("g", loc, body) : loc \in {Unknown, Here, In("g")},
                                body \in UpTo(1, {Unknown, There, InBlock("g"), CallSite(In("f"), In("g"))})}
Simple(name) ==
    {Function(name, Unknown, <<>>), Function(name, Unknown, <<There>>),
     Function(name, In(name), <<There>>), Function(name, In(name), <<There, In(name)>>)}
Module(loc, functions, globals) == [loc |-> loc, functions |-> functions, globals |-> globals]
Modules ==
    {Module(loc, <<f>>, <<g>>) : loc \in {Unknown, There}, f \in First(2), g \in {Here, In("f")}}
    \cup {Module(Unknown, <<f, g>>, <<>>) : f \in First(1), g \in Second}
    \cup {Module(There, <<f, g, h>>, <<Unknown>>) : f \in Simple("f"), g \in Simple("g"), h \in Simple("h")}
MCCodes == Modules

(* The locations that these modules have, and those they can be given: the *)
(* subprograms by name and linkage name, the first eight of the functions  *)
(* above, the others of renamed ones the pass finds without a scope.       *)
Linkages ==
    <<<<"f", "f">>, <<"f", "r">>, <<"g", "g">>, <<"g", "r">>, <<"g", "f">>, <<"h", "h">>, <<"h", "r">>,
      <<"h", "f">>, <<"r", "r">>, <<"r", "f">>>>
Units == <<<<"", "unknown">>, There.path>>
Digits(n, base) == <<(n % base) + 1, (n \div base) + 1>>
Has(n) == [ScopeOf(Linkages[n][1]) EXCEPT !.linkage = Linkages[n][2]]
Given(n, kind) ==
    LET in == Di(Here, Has(n))
    IN  <<in, Di(There, [k |-> "block", scope |-> Has(n)]), Fused(<<Unknown, in>>),
          Fused(<<There, CallSite(in, Unknown)>>), CallSite(Here, in), CallSite(in, There)>>[kind]
Called(callee, caller) == CallSite(Di(Here, Has(callee)), Di(Here, Has(caller)))
Made(linkage, pos, unit, own) ==
    Di(<<Here, There, File(<<"", unit[2]>>, 1)>>[pos],
       Subprogram(IF own THEN Here.path ELSE unit, 1, linkage[1], linkage[2], unit))
MCReserved == {Unknown, Here, There}
Indexed ==
    <<CallSite(Unknown, There), Fused(<<Unknown, There>>), Wrapped("name", Here), Wrapped("opaque", There)>>
    \o [n \in 1..48 |-> Given(Digits(n - 1, 8)[1], Digits(n - 1, 8)[2])]
    \o [n \in 1..64 |-> Called(Digits(n - 1, 8)[1], Digits(n - 1, 8)[2])]
    \o [n \in 1..120 |->
            LET which == Digits((n - 1) \div 10, 3)
            IN  Made(Linkages[Digits(n - 1, 10)[1]], which[1], Units[Digits(which[2] - 1, 2)[1]], which[2] > 2)]
Class(kinds) == {l \in ToSet(Indexed) : l.k \in kinds}
CallsIn(scoped) == {l \in Class({"call"}) : (l.caller.k = "di") = scoped}
InAScope == Class({"di"}) \cup CallsIn(TRUE)
OutsideScopes == CallsIn(FALSE)
Others == Class({"fused", "name", "opaque"})
Place ==
    LET order == Indexed
    IN  [l \in MCReserved |-> 0]
        @@ [l \in ToSet(order) |-> CHOOSE n \in DOMAIN order : order[n] = l]

(* TLC evaluates a definition once, but what a constant stands for at each *)
(* use.                                                                    *)
MCScoped == InAScope
MCUnscoped == OutsideScopes
MCUnsupported == Others
MCDiIndex == Place
=============================================================================
