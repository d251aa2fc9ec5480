------------------------------ MODULE Releases ------------------------------
(***************************************************************************)
(* A module is written by the latest release for an older bytecode version *)
(* and read by any release that knows that version.  The version is chosen *)
(* freely, or with the help of MinVersionAnalyzer, which says from which   *)
(* version on the module can be written.  An operation is written and read *)
(* in one step, by the operators of OperationFields; what is looked at     *)
(* here is the module as a whole: its values and their indices, its type   *)
(* table, the analysis that visits a type once, and the releases between   *)
(* which the file travels.  The module is the body of one function; a      *)
(* value is <<n, k>>, the k-th result of operation n, or the k-th argument *)
(* of the function if n is 0.                                              *)
(***************************************************************************)
EXTENDS OperationFields

CONSTANTS
    Signatures,     \* the types of a function's arguments, as sequences
    Instances       \* a sequence: the operations a module may have in its first
                    \* place, its second, and so on; their operands give the
                    \* types, their results the types alone

(* The verifier lets an operation through that has its required attributes *)
(* and no others than the declared ones, a value for each operand and      *)
(* result that is not variable in length, and the unit value where there   *)
(* is but one.  That the type of a result that came later is no newer than *)
(* the result holds of Ops.td though nothing insists on it; the analysis   *)
(* does not look at the type while the result has no use.                  *)
GroupsAccepted(groups, fields) ==
    /\ DOMAIN groups = Names(fields)
    /\ \A f \in ToSet(fields) :
        /\ groups[f.name] \in Seq(DOMAIN Types)
        /\ f.form = "required" => Len(groups[f.name]) = 1
        /\ f.form = "optional" => Len(groups[f.name]) <= 1
AttributesAccepted(attributes, fields) ==
    /\ DOMAIN attributes \subseteq Names(fields)
    /\ \A f \in ToSet(fields) :
        /\ f.form = "required" => f.name \in DOMAIN attributes
        /\ f.name \in DOMAIN attributes => attributes[f.name] \in DOMAIN Values
        /\ f.name \in DOMAIN attributes /\ f.form = "unit" => attributes[f.name] = FallbackValue
LaterResultsUnforced(i) ==
    \A f \in ToSet(Op(i).results) : Evolved(Op(i), f) =>
        \A t \in Registered(ToSet(i.results[f.name])) : ~TypeRefused(t, f.since)
InstanceAccepted(i) ==
    /\ i.op \in DOMAIN OpDecls
    /\ AttributesAccepted(i.attributes, Op(i).attributes)
    /\ GroupsAccepted(i.operands, Op(i).operands) /\ GroupsAccepted(i.results, Op(i).results)
    /\ i.arguments \in Seq(DOMAIN Types)
ASSUME InstancesAssumption ==
    /\ \A s \in Signatures : s \in Seq(DOMAIN Types)
    /\ Instances \in Seq(ToSet(Instances))
    /\ \A n \in 1..Len(Instances) : \A i \in Instances[n] :
            InstanceAccepted(i) /\ LaterResultsUnforced(i)

VARIABLES
    phase,          \* "build", "analyse", "write", "refused", "written",
                    \* "read", "malformed", "done"
    arguments,      \* the types of the function's arguments
    module,         \* the operations
    current,        \* operations analysed, written or read so far
    maxVersion,     \* the analysis: the version so far
    processedTypes, \* and the types it has seen
    target,         \* config.bytecodeVersion, which the file's header states
    valueIndexMap,  \* the writer's index of a value
    file,           \* the operations written: their tokens
    typeTable,      \* the types that have an index
    typeSection,    \* the types written: their tokens
    release,        \* the release that reads
    types,          \* the types it has read
    valueIndexList, \* the values it has read, by index
    read            \* the operations it has read

vars == <<phase, arguments, module, current, maxVersion, processedTypes, target,
          valueIndexMap, file, typeTable, typeSection, release, types, valueIndexList, read>>
program == <<arguments, module>>
analysis == <<maxVersion, processedTypes>>
writing == <<target, valueIndexMap, file, typeTable, typeSection>>
reading == <<release, types, valueIndexList, read>>

ResultTypes(i) ==
    FlattenSeq([n \in DOMAIN Op(i).results |-> i.results[Op(i).results[n].name].types])
ArgumentValues == [k \in DOMAIN arguments |-> <<0, k>>]
Visible ==
    [v \in {<<0, k>> : k \in DOMAIN arguments}
            \cup UNION {{<<n, k>> : k \in DOMAIN ResultTypes(module[n])} : n \in DOMAIN module}
        |-> IF v[1] = 0 THEN arguments[v[2]] ELSE ResultTypes(module[v[1]])[v[2]]]

TypeOK ==
    /\ phase \in {"build", "analyse", "write", "refused", "written", "read", "malformed",
                  "done"}
    /\ Len(module) <= Len(Instances) /\ current \in 0..Len(module)
    /\ maxVersion \in Supported /\ target \in 0..Latest /\ release \in 0..Latest
    /\ processedTypes \subseteq DOMAIN Types
    /\ typeTable \subseteq DOMAIN Types /\ DOMAIN typeSection \subseteq typeTable
    /\ DOMAIN valueIndexMap \subseteq DOMAIN Visible

Init ==
    /\ phase = "build" /\ arguments \in Signatures /\ module = <<>> /\ current = 0
    /\ maxVersion = 1 /\ processedTypes = {}
    /\ target = 0 /\ valueIndexMap = <<>> /\ file = <<>> /\ typeTable = {} /\ typeSection = <<>>
    /\ release = 0 /\ types = <<>> /\ valueIndexList = <<>> /\ read = <<>>

(* An operand is the latest value of its type; what an operand refers to   *)
(* is used from then on.                                                   *)
Latter(u, v) == u[1] > v[1] \/ (u[1] = v[1] /\ u[2] >= v[2])
LatestOf(t) == CHOOSE v \in DOMAIN Visible :
    Visible[v] = t /\ \A u \in DOMAIN Visible : Visible[u] = t => Latter(v, u)
TypesUsed(i) == UNION {ToSet(i.operands[f]) : f \in DOMAIN i.operands}
Bound(i) ==
    [op |-> i.op, attributes |-> i.attributes, arguments |-> i.arguments,
     results |-> [f \in DOMAIN i.results |-> [types |-> i.results[f], used |-> FALSE]],
     operands |-> [f \in DOMAIN i.operands |->
        [n \in DOMAIN i.operands[f] |->
            [type |-> i.operands[f][n], at |-> LatestOf(i.operands[f][n])]]]]
Using(i, n) ==      \* the operation n once i uses its values
    LET m == module[n]
        usedBy == {f \in DOMAIN m.results :
                      \E t \in TypesUsed(i) : LatestOf(t)[1] = n /\ t \in ToSet(m.results[f].types)}
    IN [m EXCEPT !.results =
            [f \in DOMAIN @ |-> [m.results[f] EXCEPT !.used = @ \/ f \in usedBy]]]

AddOperation(i) ==
    /\ phase = "build" /\ Len(module) < Len(Instances) /\ i \in Instances[Len(module) + 1]
    /\ \A t \in TypesUsed(i) : \E v \in DOMAIN Visible : Visible[v] = t
    /\ module' = Append([n \in DOMAIN module |-> Using(i, n)], Bound(i))
    /\ UNCHANGED <<phase, arguments, current, analysis, writing, reading>>

-----------------------------------------------------------------------------
(* getMinBytecodeVersion: the function, then the operations in it.  A type *)
(* seen before is not asked again: its version is in maxVersion.           *)
StartAnalysis ==
    /\ phase = "build" /\ module # <<>>
    /\ phase' = "analyse"
    /\ maxVersion' = Max({maxVersion} \cup {TypeVersion[t] : t \in ToSet(arguments)})
    /\ processedTypes' = ToSet(arguments)
    /\ UNCHANGED <<program, current, writing, reading>>

AnalyseOperation ==
    /\ phase = "analyse" /\ current < Len(module)
    /\ current' = current + 1
    /\ LET i == module[current + 1]
       IN /\ maxVersion' = Max({maxVersion, OpVersion(i, processedTypes)})
          /\ processedTypes' = processedTypes \cup ScoredTypes(i)
    /\ UNCHANGED <<phase, program, writing, reading>>

(* The function's type is registered before its body is written.           *)
StartWriting(v) ==
    /\ phase = "analyse" /\ current = Len(module)
    /\ phase' = "write" /\ current' = 0 /\ target' = v
    /\ valueIndexMap' = [u \in ToSet(ArgumentValues) |-> u[2] - 1]
    /\ typeTable' = Registered(ToSet(arguments))
    /\ UNCHANGED <<program, analysis, file, typeSection, reading>>

-----------------------------------------------------------------------------
(* FunctionTableWriter::writeOperation, and for a global its entry in the  *)
(* global section: an error leaves no file.  Only the results written get  *)
(* an index.                                                               *)
WriteOperation ==
    /\ phase = "write" /\ current < Len(module)
    /\ LET i == module[current + 1]
           first == Cardinality(DOMAIN valueIndexMap)
           numSerializedResults == Len(ResultsWritten(i, target))
       IN IF OpRefused(i, target)
          THEN /\ phase' = "refused"
               /\ UNCHANGED <<current, valueIndexMap, file, typeTable>>
          ELSE /\ file' = Append(file, OpTokens(i, target, valueIndexMap))
               /\ valueIndexMap' = Extended(valueIndexMap,
                    [v \in {<<current + 1, k>> : k \in 1..numSerializedResults} |->
                        first + v[2] - 1])
               /\ typeTable' = typeTable \cup Registered(OpTypes(i, target))
               /\ current' = current + 1
               /\ UNCHANGED phase
    /\ UNCHANGED <<program, analysis, target, typeSection, reading>>

(* TypeManager::writeTypeSection, after everything that needs types        *)
WriteTypeSection ==
    /\ phase = "write" /\ current = Len(module)
    /\ IF \E t \in typeTable : TypeRefused(t, target)
       THEN phase' = "refused" /\ UNCHANGED typeSection
       ELSE /\ phase' = "written"
            /\ typeSection' = [t \in typeTable |-> TypeTokens(t, target)]
    /\ UNCHANGED <<program, current, analysis, target, valueIndexMap, file, typeTable, reading>>

-----------------------------------------------------------------------------
(* A release reads what its version check lets through.                    *)
StartReading(r) ==
    /\ phase = "written" /\ r \in target..Latest
    /\ phase' = "read" /\ current' = 0 /\ release' = r
    /\ valueIndexList' = ArgumentValues
    /\ UNCHANGED <<program, analysis, writing, types, read>>

ReadTypeSection ==
    /\ phase = "read" /\ DOMAIN types # typeTable
    /\ LET parsed == [t \in typeTable |-> ReadType(release, typeSection[t], target)]
       IN IF \A t \in typeTable : parsed[t].ok
          THEN /\ types' = [t \in typeTable |->
                               [decl |-> parsed[t].decl, args |-> parsed[t].args]]
               /\ UNCHANGED phase
          ELSE phase' = "malformed" /\ UNCHANGED types
    /\ UNCHANGED <<program, current, analysis, writing, release, valueIndexList, read>>

(* dispatchOpReader: an opcode the release does not know is an error, and  *)
(* so is an operand index beyond the values there are.                     *)
ReadOperation ==
    /\ phase = "read" /\ DOMAIN types = typeTable /\ current < Len(module)
    /\ LET opcode == Head(file[current + 1]).of
           known == {o \in DOMAIN OpDecls :
                        OpDecls[o].opcode = opcode /\ OpDecls[o].since <= release}
           d == KnownOp(OpDecls[CHOOSE o \in known : TRUE], release)
           parsed == ReadOp(d, release, file[current + 1], target)
           indices == UNION {ToSet(parsed.got[f]) : f \in {g.name : g \in ToSet(d.operands)}}
           resolve(at) == [n \in DOMAIN at |-> valueIndexList[at[n] + 1]]
           operands == [f \in {g.name : g \in ToSet(d.operands)} |-> resolve(parsed.got[f])]
       IN IF known # {} /\ parsed.ok /\ \A n \in indices : n < Len(valueIndexList)
          THEN /\ read' = Append(read, Extended(operands, parsed.got))
               /\ valueIndexList' = valueIndexList \o
                    [k \in DOMAIN parsed.got["results"] |-> <<current + 1, k>>]
               /\ current' = current + 1
               /\ UNCHANGED phase
          ELSE phase' = "malformed" /\ UNCHANGED <<read, valueIndexList, current>>
    /\ UNCHANGED <<program, analysis, writing, release, types>>

FinishReading ==
    /\ phase = "read" /\ DOMAIN types = typeTable /\ current = Len(module)
    /\ phase' = "done"
    /\ UNCHANGED <<program, current, analysis, writing, reading>>

Next ==
    \/ \E i \in UNION ToSet(Instances) : AddOperation(i)
    \/ StartAnalysis \/ AnalyseOperation
    \/ \E v \in Supported : StartWriting(v)
    \/ WriteOperation \/ WriteTypeSection
    \/ \E r \in Supported : StartReading(r)
    \/ ReadTypeSection \/ ReadOperation \/ FinishReading

Spec == Init /\ [][Next]_vars

-----------------------------------------------------------------------------
(* What an operation written for v means to a release that knows its       *)
(* declaration as d: what the reader should have found, and that nothing   *)
(* else was there.                                                         *)
Meaning(i, d, v) ==
    LET attributes == {f.name : f \in ToSet(d.attributes)} \cap DOMAIN i.attributes
        operands == {f.name : f \in ToSet(d.operands)}
        others == {"results"} \cup (IF d.regions > 0 THEN {"arguments"} ELSE {})
    IN [name \in attributes \cup operands \cup others |->
            IF name \in attributes THEN i.attributes[name]
            ELSE IF name \in operands
            THEN [n \in DOMAIN i.operands[name] |-> i.operands[name][n].at]
            ELSE IF name = "results" THEN ResultsWritten(i, v)
            ELSE i.arguments]
LeftOut(fields, d) == ToSet(fields) \ ToSet(d)
Complete(i, d) ==
    /\ \A f \in LeftOut(Op(i).attributes, d.attributes) :
            f.name \in DOMAIN i.attributes =>
                f.form = "required" /\ i.attributes[f.name] = FallbackValue
    /\ \A f \in LeftOut(Op(i).operands, d.operands) : i.operands[f.name] = <<>>
    /\ \A f \in LeftOut(Op(i).results, d.results) : ~i.results[f.name].used
TypeComplete(t) ==
    LET params == Known(Decl(t).params, release)
        names == {p.name : p \in ToSet(params)} \cap DOMAIN Args(t)
    IN
    /\ types[t] = [decl |-> Types[t].decl, args |-> [name \in names |-> Args(t)[name]]]
    /\ \A p \in LeftOut(Decl(t).params, params) :
            p.name \in DOMAIN Args(t) => ~p.optional /\ Args(t)[p.name] = Default

(* Whatever release wrote a file's version and whichever reads it, from    *)
(* that version on: the file is understood, and the operations and types   *)
(* read are those that were written, nothing dropped and every operand the *)
(* value it was.  The flags fields, whose bits move if a later field is    *)
(* put before an older one, the fields that only some versions have and    *)
(* the values that only some versions number must agree on both sides.     *)
EveryReleaseAgrees ==
    /\ phase # "malformed"
    /\ phase = "done" =>
        /\ \A n \in DOMAIN module :
            LET d == KnownOp(Op(module[n]), release)
            IN read[n] = Meaning(module[n], d, target) /\ Complete(module[n], d)
        /\ \A t \in typeTable : TypeComplete(t)

(* getMinBytecodeVersion answers a version that supports the module: from  *)
(* that version on nothing in it is refused by the writer.                 *)
AnalysisSupports == phase = "refused" => target < maxVersion

(* That fails for what the analysis does not look at: a type inside an     *)
(* attribute, and a type whose own version is old enough but that has a    *)
(* parameter of a later one.  For all the rest of a module it holds.       *)
Overlooked(i) ==
    \E a \in DOMAIN i.attributes : \E t \in Registered(TypesIn(i.attributes[a])) :
        t \notin processedTypes /\ TypeRefused(t, target)
HasLaterParam(t) == 
    \E p \in ToSet(Decl(t).params) : ~CarriesVersion(p) /\ ParamRefused(t, p, target)
RefusalIsForeseen ==
    phase = "refused" /\ target >= maxVersion =>
        \/ \E n \in DOMAIN module : Overlooked(module[n])
        \/ \E t \in typeTable : HasLaterParam(t)

(* And no later a version than is needed, save for a required attribute    *)
(* that came later: the writer would leave its default value out, the      *)
(* analysis asks for its version all the same.                             *)
LeftOutAtDefault(i) ==
    \E f \in ToSet(Op(i).attributes) :
        f.form = "required" /\ target < f.since /\ i.attributes[f.name] = FallbackValue
AnalysisIsTight ==
    phase \in {"written", "read", "done"} /\ target < maxVersion =>
        \E n \in DOMAIN module : LeftOutAtDefault(module[n])
=============================================================================
