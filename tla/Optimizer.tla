----------------------------- MODULE Optimizer ------------------------------
(***************************************************************************)
(* optimizeTileIR (CudaTileOptimizer.cpp): a configuration is checked, the *)
(* input loaded, the pipeline built from the options and run over the code *)
(* and the outputs written one after the other.  A greedy pass takes, at   *)
(* every step, any rewrite that matches anywhere: the order of the         *)
(* driver's worklist is not relied on.  Common subexpressions and dead     *)
(* operations are removed by passes of MLIR (external).  The loop-split    *)
(* pass has a model of its own (LoopSplit); the code of this model gives   *)
(* it nothing to split.                                                    *)
(***************************************************************************)
EXTENDS CodeMeaning, SelectRewrites, FloatRewrites, LoopInvariants

CONSTANTS
    Jobs,       \* [code, opts, output] to choose from: input, options, outputs
    Inputs,     \* values the code is given: arguments of the entry
    Worlds      \* what they may be: functions from Inputs to tiles

VARIABLES
    job,        \* TileIROptimizerConfig and the input
    phase,      \* where optimizeTileIR is
    code,       \* the module
    passes,     \* passes still to run, the running one first
    hoisted,    \* loops the running LICM pass has done
    written,    \* outputs written, with what was written
    promised    \* what the input does in every world (history)

vars == <<job, phase, code, passes, hoisted, written, promised>>

Ends == {"ok", "failed"}
Outputs == <<"bytecodeFile", "bytecodeMemory", "mlirFile", "stdout">>
MeaningOf(block) == [w \in Worlds |-> Meaning(block, w)]

InputGiven(c) == "input" \in c.given
ConfigAccepted(c) == c.output \ {"stdout"} \subseteq c.given /\ "input" \in c.given

Pipeline(opts) ==
    (IF opts.fma THEN <<"fuse-fma">> ELSE <<>>)
    \o (IF opts.level >= 1 THEN <<"canonicalize", "cse">> ELSE <<>>)
    \o (IF opts.level >= 2 THEN <<"licm">> ELSE <<>>)
    \o (IF opts.level >= 3 THEN <<"loop-split", "canonicalize">> ELSE <<>>)

RECURSIVE EffectFree(_)
EffectFree(op) ==
    /\ op.op \notin ParentExits \cup {"effect"}
    /\ \A r \in DOMAIN op.regions : \A k \in DOMAIN op.regions[r] : EffectFree(op.regions[r][k])
RECURSIVE WithoutDead(_)
WithoutDead(block) ==
    LET Dead(i) == /\ block[i].op \notin Terminators /\ EffectFree(block[i])
                   /\ \A v \in ToSet(block[i].res) : IsUnused(block, i, v)
        kept == SelectSeq([i \in DOMAIN block |-> i], LAMBDA i : ~Dead(i))
    IN  AsTuple([n \in DOMAIN kept |->
            [block[kept[n]] EXCEPT !.regions = AsTuple([r \in DOMAIN @ |-> WithoutDead(@[r])])]])
RemoveEqual(block, i, defs) ==
    LET op == block[i]
        Same(d) == /\ <<d.op, d.args, Types(d.res)>> = <<op.op, op.args, Types(op.res)>>
                   /\ d.val = op.val
    IN  IF op.regions # <<>> \/ op.op \in Terminators \cup {"effect"} THEN {}
        ELSE {Replaced(block, i, <<>>, op.res, d.res) : d \in {d \in defs : Same(d)}}

(* A greedy driver folds and canonicalizes additions whatever the pass,    *)
(* and moves constants to the top of the entry, one of each.               *)
RewritesAt(block, i, pass, defs, fresh) ==
    (IF pass = "cse" THEN RemoveEqual(block, i, defs)
     ELSE FoldIf(block, i, defs) \cup FoldSelect(block, i, defs)
          \cup CanonicalizeAddOperands(block, i, defs))
    \cup (IF pass = "canonicalize"
          THEN IfRewrites(block, i, defs, fresh) \cup SelectRewrites(block, i, defs, fresh)
          ELSE {})
LeadingConstants(block) ==
    LET firstOther == Min({i \in DOMAIN block : block[i].op # "constant"})
    IN  SubSeq(block, 1, firstOther - 1)
OneConstantToTop(block) ==
    LET same(d) == {k \in ToSet(LeadingConstants(block)) : k.val = d.val /\ k.res[1][2] = d.res[1][2]}
        d == Head(SelectSeq(Walk(block), LAMBDA o : o.op = "constant" /\ o \notin ToSet(LeadingConstants(block))))
    IN  IF same(d) = {} THEN <<d>> \o Without(block, d.res[1])
        ELSE Renamed(Without(block, d.res[1]), Pairing(d.res, (CHOOSE k \in same(d) : TRUE).res))
MoveConstants(block) ==
    IF \E d \in ToSet(Walk(block)) : d.op = "constant" /\ d \notin ToSet(LeadingConstants(block))
    THEN {OneConstantToTop(block)} ELSE {}

RECURSIVE Rewrites(_, _, _, _), Fused(_, _, _, _)
Rewrites(block, pass, defs, fresh) ==
    UNION {LET visible == defs \cup ToSet(Before(block, i))
           IN  RewritesAt(block, i, pass, visible, fresh)
               \cup UNION {{[block EXCEPT ![i].regions[r] = b] :
                                b \in Rewrites(block[i].regions[r], pass, visible, fresh)} :
                            r \in DOMAIN block[i].regions} : i \in DOMAIN block}
Fused(block, defs, fresh, all) ==
    UNION {LET visible == defs \cup ToSet(Before(block, i))
           IN  Fusions(block, i, visible, fresh, all)
               \cup UNION {{<<[block EXCEPT ![i].regions[r] = f[1]], f[2]>> :
                                f \in Fused(block[i].regions[r], visible, fresh, all)} :
                            r \in DOMAIN block[i].regions} : i \in DOMAIN block}
RewritesOf(block, pass) ==
    LET fresh == FreshName(block)
    IN  {Canonical(b) : b \in
            Rewrites(block, pass, {}, fresh) \cup ({WithoutDead(block)} \ {block})
            \cup (IF pass = "cse" THEN {} ELSE MoveConstants(block))
            \cup (IF pass = "fuse-fma" THEN {Without(f[1], f[2]) : f \in Fused(block, {}, fresh, block)} ELSE {})}

-----------------------------------------------------------------------------
Init ==
    /\ job \in Jobs
    /\ phase = "validate"
    /\ code = job.code
    /\ passes = <<>> /\ hoisted = 0 /\ written = <<>>
    /\ promised = MeaningOf(job.code)

Fail == phase' = "failed" /\ UNCHANGED <<job, code, passes, hoisted, written, promised>>

ValidateConfig ==
    /\ phase = "validate"
    /\ IF ConfigAccepted(job) THEN phase' = "load" /\ UNCHANGED <<job, code, passes, hoisted, written, promised>>
       ELSE Fail

LoadInputModule ==
    /\ phase = "load"
    /\ \/ phase' = "build" /\ UNCHANGED <<job, code, passes, hoisted, written, promised>>
       \/ job.fails = "load" /\ Fail

BuildPipeline ==
    /\ phase = "build"
    /\ IF job.opts.text = "bad" THEN Fail
       ELSE /\ passes' = Pipeline(job.opts) \o (IF job.opts.text = "" THEN <<>> ELSE <<job.opts.text>>)
            /\ phase' = "run"
            /\ UNCHANGED <<job, code, hoisted, written, promised>>

(* The verifier runs after every pass.                                     *)
Verifies(block) == WellFormed(block, Inputs, <<Op("entry", <<>>, <<>>, <<>>)>>)
EndPass ==
    /\ phase' = IF Verifies(code) THEN "run" ELSE "failed"
    /\ passes' = Tail(passes) /\ hoisted' = 0
    /\ UNCHANGED <<job, code, written, promised>>

GreedyPass ==
    /\ phase = "run" /\ passes # <<>> /\ Head(passes) \in {"fuse-fma", "canonicalize", "cse"}
    /\ LET next == RewritesOf(code, Head(passes))
       IN  IF next = {} THEN EndPass
           ELSE /\ code' \in next
                /\ UNCHANGED <<job, phase, passes, hoisted, written, promised>>

LICM ==
    /\ phase = "run" /\ passes # <<>> /\ Head(passes) = "licm"
    /\ IF hoisted < LoopsIn(code)
       THEN /\ code' = Canonical(HoistNth(code, hoisted + 1, {}))
            /\ hoisted' = hoisted + 1
            /\ UNCHANGED <<job, phase, passes, written, promised>>
       ELSE EndPass

LoopSplitPass == phase = "run" /\ passes # <<>> /\ Head(passes) = "loop-split" /\ EndPass

RunEnds ==
    /\ phase = "run" /\ passes = <<>>
    /\ phase' = IF job.output = {} THEN "ok" ELSE "emit"
    /\ UNCHANGED <<job, code, passes, hoisted, written, promised>>

(* emitOutputs: bytecode is generated once, before its first output.       *)
Pending == SelectSeq(Outputs, LAMBDA o : o \in job.output \ DOMAIN written)
EmitOutput ==
    /\ phase = "emit"
    /\ IF Pending = <<>>
       THEN phase' = "ok" /\ UNCHANGED <<job, code, passes, hoisted, written, promised>>
       ELSE \/ /\ written' = (Head(Pending) :> code) @@ written
               /\ UNCHANGED <<job, phase, code, passes, hoisted, promised>>
            \/ /\ job.fails = Head(Pending)
               /\ Fail

Next ==
    \/ ValidateConfig \/ LoadInputModule \/ BuildPipeline
    \/ GreedyPass \/ LICM \/ LoopSplitPass \/ RunEnds \/ EmitOutput

(* WF_vars(Next), with what enables Next written out: every phase but the  *)
(* last ones has a next step, and computing the rewrites only to see that  *)
(* there is one costs TLC more than all the rest.                          *)
Fairness == []<>(phase \in Ends) \/ []<><<TRUE>>_vars
Spec == Init /\ [][Next]_vars /\ Fairness

-----------------------------------------------------------------------------
(* The optimizer keeps what the code does: in every world the code has the *)
(* same effects in the same order and ends the same way, after every       *)
(* single rewrite of every pass.                                           *)
MeaningKept == \A world \in Worlds : Agrees(Meaning(code, world), promised[world])

(* No rewrite leaves code that the verifiers refuse: every operand is      *)
(* defined before its use and in scope, and the exits and the yields of    *)
(* moved and merged arms have the types their new parents ask for.  Not    *)
(* among the programs: arms that yield opposite splats of tile<Nxi1>, for  *)
(* which a rewrite uses the scalar condition where a tile is expected.     *)
StaysVerified == Verifies(code)

(* One walk over a loop finds all that can leave it (LICM.cpp promises no  *)
(* fixpoint loop): a loop the pass is done with has nothing more to give.  *)
OnePassSuffices == \A n \in 1..hoisted : HoistNth(code, n, {}) = code

(* Whoever is told of success finds every output that was asked for, and   *)
(* all of them, written one by one, hold the code the pipeline left; a     *)
(* configuration with a destination missing writes nothing at all.         *)
OutputsAreTheResult ==
    /\ phase = "ok" => DOMAIN written = job.output
    /\ \A o \in DOMAIN written : written[o] = code /\ o \in job.output
    /\ (written # <<>> => passes = <<>> /\ job.output \ {"stdout"} \subseteq job.given)

(* The rewrites come to an end whatever order they are taken in: no fold   *)
(* or pattern undoes another for ever, and the optimizer answers.          *)
Settles == <>(phase \in Ends)
=============================================================================
