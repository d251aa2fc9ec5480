--------------------------- MODULE StructuredCode ---------------------------
(***************************************************************************)
(* The code the optimizer works on: a block is a sequence of operations    *)
(* that ends in a terminator, an operation may hold regions of one block   *)
(* each (<<>> is a region without a block), and a value is a name with a   *)
(* type, <<name, type>>.  This module says when the verifiers of the       *)
(* dialect accept such code; CodeMeaning says what it does.                *)
(***************************************************************************)
EXTENDS Integers, Sequences, SequencesExt, FiniteSets, FiniteSetsExt, TLC

Op(kind, val, args, res) ==
    [op |-> kind, val |-> val, args |-> args, res |-> res, params |-> <<>>, regions |-> <<>>]
IfOp(cond, res, then, else) == [Op("if", <<>>, <<cond>>, res) EXCEPT !.regions = <<then, else>>]
YieldOp(args) == Op("yield", <<>>, args, <<>>)

Types(values) == [n \in DOMAIN values |-> values[n][2]]
IsTile(v) == v[2] \notin {"token", "view"}
Scalar == ("i1" :> "i1") @@ ("2xi1" :> "i1") @@ ("i8" :> "i8") @@ ("2xi8" :> "i8") @@ ("f32" :> "f32")
Lanes(ty) == IF ty \in {"2xi1", "2xi8"} THEN 2 ELSE 1

ParentExits == {"return", "continue", "break"}
Terminators == ParentExits \cup {"yield"}
Exits(block) == block # <<>> /\ Last(block).op \in ParentExits
Yields(block) == block # <<>> /\ Last(block).op = "yield"
Then(op) == op.regions[1]
Else(op) == op.regions[2]

RECURSIVE Walk(_)
Walk(block) ==
    IF block = <<>> THEN <<>>
    ELSE LET regions == Head(block).regions
         IN  <<Head(block)>> \o FlattenSeq([r \in DOMAIN regions |-> Walk(regions[r])]) \o Walk(Tail(block))

Results(block) == UNION {ToSet(block[i].res) : i \in DOMAIN block}
Names(block) ==
    LET walk == Walk(block) IN FlattenSeq([k \in DOMAIN walk |-> walk[k].params \o walk[k].res])
Uses(block, v) ==
    LET walk == Walk(block)
    IN  Cardinality(UNION {{<<k, n>> : n \in {n \in DOMAIN walk[k].args : walk[k].args[n] = v}} : k \in DOMAIN walk})

(* TLC evaluates a sequence given by a function constructor anew at every  *)
(* use, and a tuple once.                                                  *)
AsTuple(s) == SelectSeq(s, LAMBDA item : TRUE)

RECURSIVE Renamed(_, _)
Renamed(block, s) ==
    LET Of(values) == AsTuple([k \in DOMAIN values |-> IF values[k] \in DOMAIN s THEN s[values[k]] ELSE values[k]])
    IN  AsTuple([i \in DOMAIN block |->
            [block[i] EXCEPT !.args = Of(@), !.res = Of(@), !.params = Of(@),
                             !.regions = AsTuple([r \in DOMAIN @ |-> Renamed(@[r], s)])]])
Picked(values, Test(_)) ==
    LET kept == SelectSeq([k \in DOMAIN values |-> k], Test) IN AsTuple([n \in DOMAIN kept |-> values[kept[n]]])
Pairing(values, others) ==
    [v \in ToSet(values) |-> others[CHOOSE k \in DOMAIN values : values[k] = v]]

(* Names carry no meaning, so code is kept with its values numbered in the *)
(* order in which it defines them; the inputs have the numbers below 100.  *)
Canonical(block) ==
    LET names == Names(block)
    IN  Renamed(block, Pairing(names, [k \in DOMAIN names |-> <<99 + k, names[k][2]>>]))
FreshName(block) == 1 + Max({99} \cup {v[1] : v \in ToSet(Names(block))})

-----------------------------------------------------------------------------
(* The verifiers.  enclosing: the operations around a block, the innermost *)
(* one first, down to the entry.                                           *)
AncestorBut(kinds, enclosing) ==
    enclosing[Min({k \in DOMAIN enclosing : enclosing[k].op \notin kinds})]
IfAccepted(op) ==
    /\ Then(op) # <<>>
    /\ \A k \in DOMAIN op.res : op.res[k][2] # "view"
    /\ \A arm \in {Then(op), Else(op)} :
            Yields(arm) => Types(Last(arm).args) = Types(op.res)
    /\ Else(op) = <<>> => op.res = <<>>
IterValuesAccepted(op, inits, params) ==
    /\ Types(inits) = Types(params)
    /\ \A v \in ToSet(params) \cup ToSet(op.res) : v[2] # "view"
ForAccepted(op) ==
    /\ op.params # <<>> /\ op.params[1][2] = op.args[1][2]
    /\ \A inner \in ToSet(Walk(op.regions[1])) : inner.op # "return"
    /\ IterValuesAccepted(op, SubSeq(op.args, 4, Len(op.args)), Tail(op.params))
BreakAccepted(op, enclosing) ==
    LET loop == AncestorBut({"if"}, enclosing)
    IN  loop.op = "loop" /\ Types(op.args) = Types(loop.res)
ContinueAccepted(op, enclosing) ==
    LET loop == AncestorBut({"if"}, enclosing)
    IN  \/ loop.op = "loop" /\ Types(op.args) = Types(loop.args)
        \/ loop.op = "for" /\ Types(op.args) = Types(loop.res)
ReturnAccepted(op, enclosing) ==
    AncestorBut({"if", "loop"}, enclosing).op = "entry" /\ op.args = <<>>
SelectAccepted(op) ==
    /\ op.args[2][2] = op.res[1][2] /\ op.args[3][2] = op.res[1][2]
    /\ Lanes(op.args[1][2]) = Lanes(op.res[1][2])
SameTypes(op) == \A v \in ToSet(op.args) : v[2] = op.res[1][2]

OpAccepted(op, enclosing) ==
    CASE op.op = "if" -> IfAccepted(op)
      [] op.op = "for" -> ForAccepted(op)
      [] op.op = "loop" -> IterValuesAccepted(op, op.args, op.params)
      [] op.op = "yield" -> enclosing[1].op = "if"
      [] op.op = "break" -> BreakAccepted(op, enclosing)
      [] op.op = "continue" -> ContinueAccepted(op, enclosing)
      [] op.op = "return" -> ReturnAccepted(op, enclosing)
      [] op.op = "select" -> SelectAccepted(op)
      [] op.op \in {"xori", "andi", "divi", "remi", "addf", "subf", "mulf", "negf", "fma"} -> SameTypes(op)
      [] OTHER -> TRUE

RECURSIVE WellFormed(_, _, _)
WellFormed(block, scope, enclosing) ==
    /\ block # <<>>
    /\ \A i \in DOMAIN block :
        LET op == block[i]
            visible == scope \cup Results(SubSeq(block, 1, i - 1))
        IN  /\ op.op \in Terminators <=> i = Len(block)
            /\ ToSet(op.args) \subseteq visible
            /\ OpAccepted(op, enclosing)
            /\ \A r \in DOMAIN op.regions :
                op.regions[r] # <<>> =>
                    WellFormed(op.regions[r], visible \cup ToSet(op.params), <<op>> \o enclosing)
=============================================================================
