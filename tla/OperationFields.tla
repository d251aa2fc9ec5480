-------------------------- MODULE OperationFields ---------------------------
(***************************************************************************)
(* The writers and readers of operations that cuda-tile-tblgen generates   *)
(* from Ops.td, the opcodes and the versions that have them, and the       *)
(* checkers that say which version an operation needs.  An operation is    *)
(*   results      their types and whether they are used                    *)
(*   attributes   the values of those that are present                     *)
(*   operands     the values in each operand group, a value being          *)
(*                [type, at], at naming the operation and result it is     *)
(*   arguments    the types of the arguments of its region                 *)
(* each by the name of its field.  A field is [name, form, optional,       *)
(* since], an attribute "unit", "optional" or "required", an operand or a  *)
(* result "optional", "variadic" or "required".  What an attribute does    *)
(* when the version is too old is its fallback: "default" or "rank", an    *)
(* all-false array with one element for each value of the operand `of'.    *)
(***************************************************************************)
EXTENDS AttributeFields

CONSTANTS
    OpDecls     \* by name: [since, opcode, sized, results, attributes, operands,
                \* regions]; sized is the AttrSizedOperandSegments trait

Op(i) == OpDecls[i.op]
OptionalOperands(d) == IF d.sized THEN Optionals(d.operands) ELSE <<>>
VariableLength(fields) == \E f \in ToSet(fields) : f.form # "required"
IsVariadic(d) == VariableLength(d.operands) \/ VariableLength(d.results)
TypeIndices(ts) == [n \in DOMAIN ts |-> Token("type", ts[n])]
OperandIndices(values, index) ==
    [n \in DOMAIN values |-> Token("operand", index[values[n].at])]

-----------------------------------------------------------------------------
(* Opcodes.  The greatest opcode of each version; a version without        *)
(* operations of its own has its predecessor's.  The numbers are frozen    *)
(* and appended to, no two operations share one.                           *)
OwnMaxOpcode(v) ==
    Max({0} \cup {OpDecls[o].opcode : o \in {p \in DOMAIN OpDecls : OpDecls[p].since = v}})
MaxOpcode[v \in 0..Latest] ==
    LET numbered == {u \in 1..v : OwnMaxOpcode(u) # 0}
    IN IF numbered = {} THEN 0 ELSE OwnMaxOpcode(Max(numbered))
IsOpcodeAvailable(opcode, v) == v \in Supported /\ opcode <= MaxOpcode[v]

(* An operation has one opcode, in the public range (the testing range,    *)
(* for the operations of the tests, is left out), and no other has it.     *)
(* That a later version only appends, nothing insists on.                  *)
PublicRange == 0..4095
OpcodesAccepted ==
    \A o, p \in DOMAIN OpDecls :
        /\ OpDecls[o].opcode \in PublicRange
        /\ OpDecls[o].opcode = OpDecls[p].opcode => o = p
ASSUME OpcodesAssumption ==
    /\ OpcodesAccepted
    /\ \E o \in DOMAIN OpDecls : OpDecls[o].since = 1
    /\ \A o, p \in DOMAIN OpDecls :
            OpDecls[o].since < OpDecls[p].since => OpDecls[o].opcode < OpDecls[p].opcode

(* What the generators insist on: an attribute that came later has a       *)
(* fallback if it is required, the rank of a variadic operand only with    *)
(* segment sizes, and a required operand came with the operation.          *)
AttributeAccepted(d, f) ==
    /\ f.form \in {"unit", "optional", "required"} /\ f.optional = (f.form # "required")
    /\ f.fallback \in {"none", "default", "rank"}
    /\ f.form = "required" /\ Evolved(d, f) => f.fallback # "none"
RankAccepted(d, f) ==
    f.fallback = "rank" =>
        d.sized /\ \E g \in ToSet(d.operands) : g.name = f.of /\ g.form = "variadic"
OperandAccepted(d, f) ==
    /\ f.form \in {"variadic", "optional", "required"} /\ f.optional = (f.form = "optional")
    /\ d.sized /\ Evolved(d, f) => f.form = "optional"
Names(fields) == {f.name : f \in ToSet(fields)}
OpAccepted(d) ==
    /\ d.since \in Supported /\ d.sized \in BOOLEAN /\ d.regions \in Nat
    /\ FieldsAccepted(d.attributes, d.since) /\ FieldsAccepted(d.operands, d.since)
    /\ FieldsAccepted(d.results, d.since)
    /\ Names(d.attributes) \cap Names(d.operands) = {}
    /\ (Names(d.attributes) \cup Names(d.operands)) \cap {"results", "arguments"} = {}
    /\ \A f \in ToSet(d.attributes) : AttributeAccepted(d, f) /\ RankAccepted(d, f)
    /\ \A f \in ToSet(d.operands) : OperandAccepted(d, f)
    /\ ~d.sized => \A n, m \in DOMAIN d.operands :
            d.operands[n].form # "required" /\ d.operands[m].form # "required" => n = m

(* What holds of Ops.td though nothing insists on it: an attribute that    *)
(* need not be there has no fallback; an operand that came later belongs   *)
(* to an operation with segment sizes that had an operand of variable      *)
(* length before (with the first one the number of results would be        *)
(* written too); a result that came later stands behind the others, values *)
(* are numbered by position, and in an operation that has one each result  *)
(* is one value: the reader counts the declarations.                       *)
OpUnforced(d) ==
    /\ \A f \in ToSet(d.attributes) : f.form # "required" => f.fallback = "none"
    /\ \A f \in ToSet(d.operands) :
            Evolved(d, f) => d.sized /\ \E g \in ToSet(d.operands) :
                                            ~Evolved(d, g) /\ g.form # "required"
    /\ \A n, m \in DOMAIN d.results :
            /\ n < m => d.results[n].since <= d.results[m].since
            /\ Evolved(d, d.results[n]) => d.results[m].form = "required"
ASSUME OperationsAssumption == \A o \in DOMAIN OpDecls : OpAccepted(OpDecls[o]) /\ OpUnforced(OpDecls[o])

(* What a release knows of an operation.                                   *)
KnownOp(d, r) ==
    [since |-> d.since, opcode |-> d.opcode, sized |-> d.sized, regions |-> d.regions,
     attributes |-> Known(d.attributes, r), operands |-> Known(d.operands, r),
     results |-> Known(d.results, r)]

-----------------------------------------------------------------------------
(* MUTANTS.  Wrong forms of the definitions below.                         *)

(* bits in the order of declaration: a later field shifts those behind it  *)
BitOrderDeclared(d) == Optionals(d.attributes) \o OptionalOperands(d)

(* an operand of variable length raises the version though it is not there *)
FieldVersionsAlways(i) ==
    {f.since : f \in ToSet(Op(i).operands)}
        \cup {f.since : f \in {g \in ToSet(Op(i).attributes) : g.name \in DOMAIN i.attributes}}

(* the arguments of the regions are forgotten *)
ScoredTypesOutside(i) ==
    (UNION {{x.type : x \in ToSet(i.operands[f.name])} : f \in ToSet(Op(i).operands)})
        \cup UNION {ToSet(i.results[f.name].types) : f \in ToSet(Op(i).results)}

-----------------------------------------------------------------------------
(* getVersionOrderedBitAssignments: by version, attributes before operands *)
BitOrder(d) ==
    LET fields == Optionals(d.attributes) \o OptionalOperands(d)
    IN FlattenSeq([v \in 1..Latest |-> Kept(fields, {f \in ToSet(fields) : f.since = v})])

OpHasFlags(d, v) ==
    LET order == BitOrder(d)
    IN order # <<>> /\ (order[1].since = d.since \/ v >= order[1].since)

Present(i, f) ==
    IF f.name \in DOMAIN i.operands THEN i.operands[f.name] # <<>>
                                    ELSE f.name \in DOMAIN i.attributes

-----------------------------------------------------------------------------
(* The writer of an operation: the types of its results, the flags, the    *)
(* attributes, the operands and the regions, or an error.                  *)
InVersion(d, v) == Kept(d.results, {f \in ToSet(d.results) : ~Evolved(d, f) \/ v >= f.since})
ResultsKept(i, v) == InVersion(Op(i), v)
ResultsWritten(i, v) ==
    LET kept == ResultsKept(i, v)
    IN FlattenSeq([n \in DOMAIN kept |-> i.results[kept[n].name].types])
ResultTokens(i, v) ==
    LET ts == ResultsWritten(i, v)
    IN (IF IsVariadic(Op(i)) THEN <<Token("count", Len(ts))>> ELSE <<>>)
        \o TypeIndices(ts)
ResultRefused(i, f, v) ==
    Evolved(Op(i), f) /\ v < f.since /\ i.results[f.name].used

FlagTokens(i, v) ==
    LET order == BitOrder(Op(i))
    IN IF OpHasFlags(Op(i), v)
       THEN <<Token("flags", {n \in DOMAIN order : Present(i, order[n])})>>
       ELSE <<>>
FlagRefused(i, f, v) == Evolved(Op(i), f) /\ v < f.since /\ Present(i, f)

AttributeTokens(i, f, v) ==
    IF f.name \notin DOMAIN i.attributes \/ f.form = "unit" \/ v < f.since THEN <<>>
    ELSE ValueTokens(i.attributes[f.name])
AttributeRefused(i, f, v) ==
    /\ f.name \in DOMAIN i.attributes /\ f.form # "unit"
    /\ IF v >= f.since THEN ValueRefused(i.attributes[f.name], v)
       ELSE f.form = "required" /\ f.fallback # "none" /\ i.attributes[f.name] # FallbackValue

OperandTokens(i, f, index) ==
    LET values == i.operands[f.name]
    IN (IF f.form = "variadic" THEN <<Token("count", Len(values))>> ELSE <<>>)
        \o OperandIndices(values, index)
AllOperandTokens(i, index) ==
    LET d == Op(i)
        all == Concat(LAMBDA f : OperandIndices(i.operands[f.name], index), d.operands)
    IN IF d.sized THEN Concat(LAMBDA f : OperandTokens(i, f, index), d.operands)
       ELSE (IF VariableLength(d.operands) THEN <<Token("count", Len(all))>> ELSE <<>>) \o all

RegionTokens(i) ==
    IF Op(i).regions = 0 THEN <<>>
    ELSE <<Token("regions", Op(i).regions)>> \o <<Token("block", Len(i.arguments))>>
            \o TypeIndices(i.arguments)

OpTokens(i, v, index) ==
    <<Token("opcode", Op(i).opcode)>> \o ResultTokens(i, v) \o FlagTokens(i, v)
        \o Concat(LAMBDA f : AttributeTokens(i, f, v), Op(i).attributes)
        \o AllOperandTokens(i, index) \o RegionTokens(i)

OpRefused(i, v) ==
    \/ ~IsOpcodeAvailable(Op(i).opcode, v)
    \/ \E f \in ToSet(Op(i).results) : ResultRefused(i, f, v)
    \/ \E f \in ToSet(BitOrder(Op(i))) : FlagRefused(i, f, v)
    \/ \E f \in ToSet(Op(i).attributes) : AttributeRefused(i, f, v)

(* The types the writer of an operation asks the type table for.           *)
OpTypes(i, v) ==
    ToSet(ResultsWritten(i, v)) \cup ToSet(i.arguments)
        \cup UNION {TypesIn(i.attributes[a]) : a \in DOMAIN i.attributes}

-----------------------------------------------------------------------------
(* The reader of an operation, of a release that knows the declaration d,  *)
(* of a file of version v.                                                 *)
ReadTokens(s, tag, n) ==
    IF /\ s.ok /\ Len(s.rest) >= n
       /\ \A k \in 1..n : s.rest[k].tag = tag
    THEN [s EXCEPT !.rest = SubSeq(@, n + 1, Len(@))]
    ELSE Bad(s)
TokensOf(s, n) == [k \in 1..n |-> s.rest[k].of]
ReadCount(s) == IF Sees(s, "count") THEN Past(s) ELSE Bad(s)
CountOf(s) == IF Sees(s, "count") THEN Head(s.rest).of ELSE 0

(* The types of the results in the file, under the name "results"; those   *)
(* that came later are there with a type of their own.                     *)
ReadResults(d, v, s) ==
    LET versioned == \E f \in ToSet(d.results) : Evolved(d, f)
        expected == Len(InVersion(d, v))
        counted == IF IsVariadic(d) THEN ReadCount(s) ELSE s
        n == IF IsVariadic(d) /\ ~versioned THEN CountOf(s) ELSE expected
        end == ReadTokens(counted, "type", n)
    IN IF end.ok /\ (IsVariadic(d) => CountOf(s) = n)
       THEN Keep(end, [name |-> "results"], TokensOf(counted, n))
       ELSE Bad(s)

ReadOpFlags(d, v, s) == IF OpHasFlags(d, v) THEN ReadFlags(s) ELSE s

(* A field with no default is absent when the version is too old, one with *)
(* the rank of an operand waits for the operands.                          *)
ReadAttribute(d, r, v, s, f) ==
    IF v < f.since
    THEN IF f.fallback = "default" THEN Keep(s, f, FallbackValue) ELSE s
    ELSE IF f.form = "required" THEN ReadValue(s, f, r)
    ELSE IF Bit(f, BitOrder(d)) \notin s.flags THEN s
    ELSE IF f.form = "unit" THEN Keep(s, f, FallbackValue)
    ELSE ReadValue(s, f, r)

ReadGroup(s, f, n) ==
    LET end == ReadTokens(s, "operand", n)
    IN IF end.ok THEN Keep(end, f, TokensOf(s, n)) ELSE end
ReadOperand(d, v, s, f) ==
    IF f.form = "required" THEN ReadGroup(s, f, 1)
    ELSE IF f.form = "variadic" THEN ReadGroup(ReadCount(s), f, CountOf(s))
    ELSE LET flagged == Bit(f, BitOrder(d)) \in s.flags
         IN IF Evolved(d, f) /\ v < f.since /\ flagged THEN Bad(s)
            ELSE ReadGroup(s, f, IF flagged THEN 1 ELSE 0)
(* Without segment sizes the group of variable length has what is left.    *)
ReadAllOperands(d, v, s) ==
    IF d.sized THEN ReadEach(LAMBDA q, f : ReadOperand(d, v, q, f), s, d.operands)
    ELSE LET counted == VariableLength(d.operands)
             left == IF counted THEN CountOf(s) - Len(d.operands) + 1 ELSE 0
             length(f) == IF f.form = "required" THEN 1 ELSE left
         IN IF left < 0 THEN Bad(s)
            ELSE ReadEach(LAMBDA q, f : ReadGroup(q, f, length(f)),
                          IF counted THEN ReadCount(s) ELSE s, d.operands)

(* generateSameOperandRankFixups: all-false, once the operand's length is  *)
(* known.                                                                  *)
RankFixup(v, s, f) ==
    IF f.fallback # "rank" \/ v >= f.since THEN s
    ELSE IF f.of \in DOMAIN s.got THEN Keep(s, f, FallbackValue)
    ELSE Bad(s)
RankFixups(d, v, s) == ReadEach(LAMBDA q, f : RankFixup(v, q, f), s, d.attributes)

ReadRegions(d, s) ==
    IF d.regions = 0 THEN s
    ELSE IF ~Sees(s, "regions") \/ Head(s.rest).of # d.regions THEN Bad(s)
    ELSE LET block == Past(s)
             n == Head(block.rest).of
             end == ReadTokens(Past(block), "type", n)
         IN IF Sees(block, "block") /\ end.ok
            THEN Keep(end, [name |-> "arguments"], TokensOf(Past(block), n))
            ELSE Bad(s)

ReadOp(d, r, tokens, v) ==
    LET s == ReadTokens(Start(tokens), "opcode", 1)
        attributes == ReadEach(LAMBDA q, f : ReadAttribute(d, r, v, q, f),
                               ReadOpFlags(d, v, ReadResults(d, v, s)), d.attributes)
        end == ReadRegions(d, RankFixups(d, v, ReadAllOperands(d, v, attributes)))
    IN [ok |-> end.ok /\ end.rest = <<>>, got |-> end.got]

-----------------------------------------------------------------------------
(* generateOpVersionChecker: the versions that the parts of an operation   *)
(* ask for.  A field of the operation's own version asks for nothing; the  *)
(* types in seen were asked about before and answer the least version.     *)
ResultCounts(i, f) ==
    IF f.form = "variadic" THEN i.results[f.name].types # <<>>
    ELSE ~Evolved(Op(i), f) \/ i.results[f.name].used
CountedFields(i) ==
    {f \in ToSet(Op(i).operands) : f.form = "required" \/ i.operands[f.name] # <<>>}
        \cup {f \in ToSet(Op(i).results) : ResultCounts(i, f)}
        \cup {f \in ToSet(Op(i).attributes) : f.name \in DOMAIN i.attributes}
FieldVersions(i) == {f.since : f \in {g \in CountedFields(i) : g.since > Op(i).since}}
ValueVersions(i) ==
    {ValueVersion(i.attributes[f.name]) :
        f \in {g \in ToSet(Op(i).attributes) :
                    g.name \in DOMAIN i.attributes /\ g.form # "unit"}}
ScoredTypes(i) ==
    (UNION {{x.type : x \in ToSet(i.operands[f.name])} : f \in ToSet(Op(i).operands)})
        \cup (UNION {ToSet(i.results[f.name].types) :
                        f \in {g \in ToSet(Op(i).results) : ResultCounts(i, g)}})
        \cup ToSet(i.arguments)

OpVersion(i, seen) ==
    Max({Op(i).since} \cup FieldVersions(i) \cup ValueVersions(i)
            \cup {TypeVersion[t] : t \in ScoredTypes(i) \ seen})
=============================================================================
