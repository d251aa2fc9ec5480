---------------------------- MODULE BytecodeFile ----------------------------
(***************************************************************************)
(* A bytecode file as a whole: writeBytecode collects what a module needs  *)
(* into tables that its sections share and writes the sections one by one, *)
(* each table after everything that may still add to it; getBytecodeSize   *)
(* and readBytecode take the file apart again, the latter in an order of   *)
(* its own.                                                                *)
(*                                                                         *)
(* A section holds indices, never the things they stand for, so the round  *)
(* trip is right only if the two sides agree on every table.  Lengths are  *)
(* in bytes, as padding depends on positions; the lengths of single        *)
(* entries are made up.  The insides of tables, bodies and debug rows are  *)
(* the subject of IndexTable, LazyTable, FunctionBody and DebugIndices.    *)
(***************************************************************************)
EXTENDS Selection, Integers, Sequences, SequencesExt

CONSTANTS
    Modules,    \* the verified modules that are written, with their target version
    Starts,     \* where the stream stands when writeBytecode is called
    Cuts(_),    \* bytes of a module's file that do not arrive, and
    Extras,     \* bytes that follow it in the buffer of the reader
    Empty,      \* the empty string
    None        \* no producer, no location, no section, and what a lookup out of range gives

MinSupportedVersion == 1        \* 13.1
CurrentVersion == 4             \* 13.4
ExtendedVersion == 3            \* 13.3: extended global fields, producer
HeaderBytes == 12

ASSUME StartsAssumption == Starts \subseteq Nat /\ 0 \in Extras /\ Extras \subseteq Nat
ASSUME CutsAssumption == \A m \in Modules : 0 \in Cuts(m) /\ Cuts(m) \subseteq Nat
ASSUME NoneAssumption == None \notin Nat

(* What the verifier leaves: symbols have names, values have a type; a     *)
(* location that has no encoding (a fused one) names no file.              *)
IsConstant(v) == v = [type |-> v.type, bits |-> v.bits] /\ None \notin {v.type, v.bits}
IsGlobal(i) ==
    /\ i.kind = "global"
    /\ i = [kind |-> "global", name |-> i.name, value |-> i.value,
            private |-> i.private, constant |-> i.constant]
    /\ IsConstant(i.value) /\ {i.private, i.constant} \subseteq BOOLEAN
IsFunction(i) ==
    /\ i.kind = "func" /\ i.type # None /\ i.since \in Nat
    /\ i.loc # None => i.loc = [line |-> i.loc.line, file |-> i.loc.file]
    /\ i.values \in Seq(ToSet(i.values)) /\ \A v \in ToSet(i.values) : IsConstant(v)

(* The version is the minor number of a version 13.x; fromVersion knows    *)
(* none after the current one.                                             *)
ASSUME ModulesAssumption == \A m \in Modules :
    /\ m.version \in 0..CurrentVersion
    /\ m.items \in Seq(ToSet(m.items))
    /\ \A i \in ToSet(m.items) :
          i.name \notin {None, Empty} /\ (IsGlobal(i) \/ IsFunction(i))

VARIABLES
    module,     \* the module that is written
    start,      \* the position of the stream when writing starts
    step,       \* what runs next
    table,      \* the managers: strings, types, constants, debug attributes
    file,       \* the sections that were written
    tell,       \* the position of the stream
    size,       \* the bytes the reader gets; None before
    next,       \* the section the reader is at
    offset,     \* the reader's position in its buffer
    payloads,   \* the payloads of the sections it found
    built,      \* the module it builds
    found       \* what getBytecodeSize returned

managers == <<module, start, table>>
stream == <<file, tell>>
buffer == <<size, next, offset, payloads>>
vars == <<module, start, step, table, file, tell, size, next, offset, payloads, built, found>>

Managers == {"String", "Type", "Constant", "Debug"}
Sections == Managers \cup {"Func", "Global", "Producer"}

(* Mutant: the function section, which has no array of offsets, is not     *)
(* aligned.                                                                *)
AlignmentOfArrays(id) ==
    CASE id \in {"String", "Type"} -> 4
      [] id \in {"Constant", "Debug"} -> 8
      [] OTHER -> 1

(* The largest alignTo among those made while the section is written.      *)
Alignment(id) ==
    CASE id \in {"String", "Type"} -> 4
      [] id \in {"Constant", "Debug", "Func"} -> 8
      [] OTHER -> 1

Each(s, op(_)) == [n \in DOMAIN s |-> op(s[n])]
Globals(m) == Kept(m.items, {i \in ToSet(m.items) : i.kind = "global"})
Functions(m) == Kept(m.items, {i \in ToSet(m.items) : i.kind = "func"})

(* An index of a manager: that of the entry, which is added if it is new.  *)
Intern(entries, keys) ==
    FoldLeft(LAMBDA t, k : IF Contains(t, k) THEN t ELSE Append(t, k), entries, keys)
IndexIn(entries, key) == (CHOOSE n \in DOMAIN entries : entries[n] = key) - 1
At(entries, index) == IF index + 1 \in DOMAIN entries THEN entries[index + 1] ELSE None

(* Debug indices are shifted by the reserved ones (UnknownLoc).            *)
LocIndex(entries, loc) == IF loc = None THEN 0 ELSE IndexIn(entries, loc) + 1
LocAt(entries, index) == IF index = 0 THEN None ELSE At(entries, index - 1)

Padding(position, align) == (align - (position % align)) % align
HeadBytes(align) == IF align > 1 THEN 3 ELSE 2     \* id, length and alignment
EndMarker == [id |-> "End"]
Bytes(s) == IF s = EndMarker THEN 1 ELSE HeadBytes(s.align) + s.pad + s.len
Complete == Contains(file, EndMarker)

(* Mutant: the string section is written before the producer.              *)
AfterStringsEarly ==
    [map |-> "Global", Global |-> "Func", Func |-> "Constant", Constant |-> "Debug",
     Debug |-> "Type", Type |-> "String", String |-> "Producer", Producer |-> "End"]

(* The order in which writeBytecode writes the sections.                   *)
After == [map |-> "Global", Global |-> "Func", Func |-> "Constant", Constant |-> "Debug",
          Debug |-> "Type", Type |-> "Producer", Producer |-> "String", String |-> "End"]

Init ==
    /\ module \in Modules
    /\ start \in Starts
    /\ step = "header"
    /\ table = [t \in Managers |-> <<>>]
    /\ file = <<>> /\ tell = start
    /\ size = None /\ next = 0 /\ offset = 0
    /\ payloads = <<>>
    /\ built = None /\ found = None

-----------------------------------------------------------------------------
(* MUTANTS.  Wrong forms of the definitions below, each a slip this code   *)
(* could have; PROJECT.json names the property that each one breaks.       *)

(* older versions drop the fields of a global that they do not have *)
UnencodableNever(g) == FALSE

(* bytes behind the end marker do not matter *)
ReadEndAnywhere ==
    /\ step = "sections"
    /\ ~(next \in DOMAIN file /\ file[next] # EndMarker)
    /\ IF offset + 1 <= size
       THEN step' = "parse" /\ UNCHANGED <<offset, next, payloads, built>>
       ELSE step' = "rejected" /\ UNCHANGED <<offset, next, payloads, built>>
    /\ UNCHANGED <<module, start, table, file, tell, size, found>>

(* the size is that of the sections, without the end marker *)
FindSizeShort ==
    /\ step = "measure"
    /\ ~(next \in DOMAIN file /\ file[next] # EndMarker)
    /\ found' = offset
    /\ step' = "measured"
    /\ UNCHANGED <<managers, stream, buffer, built>>

-----------------------------------------------------------------------------
(* writeSectionHeader and the payload: padding is counted from the start   *)
(* of the stream.                                                          *)
Section(id, len, body) ==
    [id |-> id, align |-> Alignment(id),
     pad |-> Padding(tell + HeadBytes(Alignment(id)), Alignment(id)),
     len |-> len, body |-> body]
Emit(id, len, body) ==
    LET section == Section(id, len, body) IN
    /\ file' = Append(file, section)
    /\ tell' = tell + Bytes(section)

Unread == UNCHANGED <<size, next, offset, payloads, built, found>>
WriterFails == step' = "failed" /\ UNCHANGED <<table, file, tell>>

WriteHeader ==
    /\ step = "header"
    /\ IF module.version < MinSupportedVersion THEN WriterFails
       ELSE /\ tell' = tell + HeaderBytes /\ step' = "map"
            /\ UNCHANGED <<table, file>>
    /\ UNCHANGED <<module, start>> /\ Unread

(* Names, signatures and locations of all functions, before any section.   *)
BuildFunctionMap ==
    /\ step = "map"
    /\ LET funcs == Functions(module)
           locs == Each(funcs, LAMBDA f : f.loc)
           known == Kept(locs, ToSet(locs) \ {None})
       IN table' = [table EXCEPT !.String = Intern(@, Each(funcs, LAMBDA f : f.name)),
                                 !.Type = Intern(@, Each(funcs, LAMBDA f : f.type)),
                                 !.Debug = Intern(@, known)]
    /\ step' = After[step]
    /\ UNCHANGED <<module, start, file, tell>> /\ Unread

(* A global takes two more fields from 13.3 on; before that, one that      *)
(* needs them is refused.                                                  *)
Unencodable(g) == g.private \/ g.constant
GlobalFields == IF module.version < ExtendedVersion THEN 4 ELSE 6
GlobalEntry(t, g) ==
    [name |-> IndexIn(t.String, g.name), type |-> IndexIn(t.Type, g.value.type),
     value |-> IndexIn(t.Constant, g.value), fields |-> GlobalFields,
     private |-> g.private, constant |-> g.constant]
WriteGlobals ==
    /\ step = "Global"
    /\ LET globals == Globals(module)
           with == [table EXCEPT !.String = Intern(@, Each(globals, LAMBDA g : g.name)),
                                 !.Type = Intern(@, Each(globals, LAMBDA g : g.value.type)),
                                 !.Constant = Intern(@, Each(globals, LAMBDA g : g.value))]
       IN IF globals = <<>>
          THEN step' = After[step] /\ UNCHANGED <<table, file, tell>>
          ELSE IF /\ module.version < ExtendedVersion
                  /\ \E n \in DOMAIN globals : Unencodable(globals[n])
          THEN WriterFails
          ELSE /\ table' = with
               /\ Emit("Global", 1 + GlobalFields * Len(globals),
                       Each(globals, LAMBDA g : GlobalEntry(with, g)))
               /\ step' = After[step]
    /\ UNCHANGED <<module, start>> /\ Unread

(* Function entries with their bodies; an operation the target version     *)
(* does not have fails.  alignTo(8) at the end rounds the length up.       *)
FunctionEntry(t, f) ==
    [name |-> IndexIn(t.String, f.name), type |-> IndexIn(t.Type, f.type),
     loc |-> LocIndex(t.Debug, f.loc),
     values |-> Each(f.values, LAMBDA v :
        [type |-> IndexIn(t.Type, v.type), value |-> IndexIn(t.Constant, v)])]
WriteFunctions ==
    /\ step = "Func"
    /\ LET funcs == Functions(module)
           values == FlattenSeq(Each(funcs, LAMBDA f : f.values))
           with == [table EXCEPT !.Type = Intern(@, Each(values, LAMBDA v : v.type)),
                                 !.Constant = Intern(@, values)]
       IN IF \E n \in DOMAIN funcs : funcs[n].since > module.version
          THEN WriterFails
          ELSE /\ table' = with
               /\ Emit("Func", 8 * (1 + Len(funcs)),
                       Each(funcs, LAMBDA f : FunctionEntry(with, f)))
               /\ step' = After[step]
    /\ UNCHANGED <<module, start>> /\ Unread

(* The bits of each constant; its type is where the constant is used.      *)
WriteConstants ==
    /\ step = "Constant"
    /\ IF table.Constant = <<>> THEN UNCHANGED <<file, tell>>
       ELSE Emit("Constant", 8 + 9 * Len(table.Constant),
                 Each(table.Constant, LAMBDA v : v.bits))
    /\ step' = After[step]
    /\ UNCHANGED managers /\ Unread

(* A debug attribute names its file in the string table; an attribute of a *)
(* kind that has no encoding (a fused location) is found only here.        *)
WriteDebugInfo ==
    /\ step = "Debug"
    /\ LET locs == table.Debug
           strings == Intern(table.String, Each(locs, LAMBDA l : l.file))
       IN IF \E n \in DOMAIN locs : locs[n].file = None
          THEN WriterFails
          ELSE /\ table' = [table EXCEPT !.String = strings]
               /\ IF locs = <<>> THEN UNCHANGED <<file, tell>>
                  ELSE Emit("Debug", 8 + 15 * Len(locs),
                            Each(locs, LAMBDA l : [line |-> l.line,
                                                   file |-> IndexIn(strings, l.file)]))
               /\ step' = After[step]
    /\ UNCHANGED <<module, start>> /\ Unread

WriteTypes ==
    /\ step = "Type"
    /\ Emit("Type", 4 + 6 * Len(table.Type), table.Type)
    /\ step' = After[step]
    /\ UNCHANGED managers /\ Unread

WriteProducer ==
    /\ step = "Producer"
    /\ IF module.version < ExtendedVersion \/ module.producer = None
       THEN UNCHANGED <<table, file, tell>>
       ELSE LET strings == Intern(table.String, <<module.producer>>) IN
            /\ table' = [table EXCEPT !.String = strings]
            /\ Emit("Producer", 1, IndexIn(strings, module.producer))
    /\ step' = After[step]
    /\ UNCHANGED <<module, start>> /\ Unread

WriteStrings ==
    /\ step = "String"
    /\ Emit("String", 4 + 7 * Len(table.String), table.String)
    /\ step' = After[step]
    /\ UNCHANGED managers /\ Unread

WriteEnd ==
    /\ step = "End"
    /\ file' = Append(file, EndMarker)
    /\ tell' = tell + 1
    /\ step' = "written"
    /\ UNCHANGED managers /\ Unread

-----------------------------------------------------------------------------
(* The buffer a reader gets: the file, or a part of one whose writing or   *)
(* copying was cut short, or the file with more bytes behind it.           *)
Length == tell - start
Deliver ==
    /\ step \in {"written", "failed"}
    /\ \E cut \in Cuts(module), extra \in Extras :
          /\ cut <= Length /\ (cut = 0 \/ extra = 0) /\ (extra = 0 \/ Complete)
          /\ size' = Length - cut + extra
    /\ step' = "read" /\ offset' = 0 /\ next' = 1
    /\ UNCHANGED <<managers, stream, payloads, built, found>>

(* getBytecodeSize has no size to go by: it needs a file that is all there.*)
Measure ==
    /\ step = "written"
    /\ step' = "measure" /\ offset' = HeaderBytes /\ next' = 1
    /\ UNCHANGED <<managers, stream, size, payloads, built, found>>

Reject == step' = "rejected" /\ UNCHANGED <<offset, next, payloads, built>>
Unwritten == UNCHANGED <<module, start, table, file, tell, size, found>>

(* parseHeader.                                                            *)
ReadHeader ==
    /\ step = "read"
    /\ IF size < HeaderBytes \/ module.version \notin MinSupportedVersion..CurrentVersion
       THEN Reject
       ELSE step' = "sections" /\ offset' = HeaderBytes /\ UNCHANGED <<next, payloads, built>>
    /\ Unwritten

(* parseSectionHeader: padding is counted from the start of the buffer.    *)
(* If that is not what was written, what follows is read at the wrong      *)
(* place, with an outcome this module does not follow.                     *)
AtSection == next \in DOMAIN file /\ file[next] # EndMarker
PayloadAt == LET s == file[next] IN
    offset + HeadBytes(s.align) + Padding(offset + HeadBytes(s.align), s.align)
Misplaced == Padding(offset + HeadBytes(file[next].align), file[next].align) # file[next].pad

(* The alignment that readBytecode demands of a section.                   *)
Required(id) ==
    CASE id \in {"Constant", "Debug", "Func"} -> 8
      [] id \in {"String", "Type"} -> 4
      [] OTHER -> 1

WithPayload(s) ==
    [id \in DOMAIN payloads \cup {s.id} |-> IF id = s.id THEN s.body ELSE payloads[id]]

(* One section of readBytecode's discovery loop.                           *)
ReadSection ==
    /\ step = "sections" /\ AtSection
    /\ LET s == file[next] IN
       IF offset + Bytes(s) > size THEN Reject
       ELSE IF Misplaced THEN step' = "misread" /\ UNCHANGED <<offset, next, payloads, built>>
       ELSE IF s.align % Required(s.id) # 0 THEN Reject
       ELSE /\ payloads' = WithPayload(s)
            /\ offset' = PayloadAt + s.len /\ next' = next + 1
            /\ UNCHANGED <<step, built>>
    /\ Unwritten

(* The end marker, which must be the last byte.                            *)
ReadEnd ==
    /\ step = "sections" /\ ~AtSection
    /\ IF Complete /\ offset + 1 = size THEN step' = "parse" /\ UNCHANGED <<offset, next, payloads, built>>
       ELSE Reject
    /\ Unwritten

(* getBytecodeSize: the sections are skipped, none may come twice.         *)
SkipSection ==
    /\ step = "measure" /\ AtSection
    /\ LET s == file[next] IN
       IF Misplaced THEN step' = "misread" /\ UNCHANGED <<offset, next, payloads, built>>
       ELSE IF s.id \in DOMAIN payloads THEN Reject
       ELSE /\ payloads' = WithPayload(s)
            /\ offset' = PayloadAt + s.len /\ next' = next + 1
            /\ UNCHANGED <<step, built>>
    /\ Unwritten
FindSize ==
    /\ step = "measure" /\ ~AtSection
    /\ found' = offset + 1
    /\ step' = "measured"
    /\ UNCHANGED <<managers, stream, buffer, built>>

-----------------------------------------------------------------------------
(* What the reader finds in a table; one without a section is empty.       *)
Parsed(id) == IF id \in DOMAIN payloads THEN payloads[id] ELSE <<>>
NameAt(index) == At(Parsed("String"), index)
ConstantAt(type, value) == [type |-> At(Parsed("Type"), type), bits |-> At(Parsed("Constant"), value)]
Resolved(v) == v.type # None /\ v.bits # None

(* The sections other than globals and functions: string section first,    *)
(* then the producer, which is a string.                                   *)
ParseTables ==
    /\ step = "parse"
    /\ LET named == "Producer" \in DOMAIN payloads
           producer == NameAt(payloads["Producer"])
       IN IF "String" \notin DOMAIN payloads \/ (named /\ producer = None) THEN Reject
          ELSE /\ built' = [producer |-> IF named /\ producer # Empty THEN producer ELSE None,
                            items |-> <<>>]
               /\ step' = "globals"
               /\ UNCHANGED <<offset, next, payloads>>
    /\ Unwritten

(* parseGlobalSection reads as many fields as the version has, createGlobal *)
(* looks the indices up.                                                    *)
ReadFields == IF module.version >= ExtendedVersion THEN 6 ELSE 4
GlobalOf(e) ==
    [kind |-> "global", name |-> NameAt(e.name), value |-> ConstantAt(e.type, e.value),
     private |-> ReadFields = 6 /\ e.private, constant |-> ReadFields = 6 /\ e.constant]
CreateGlobals ==
    /\ step = "globals"
    /\ LET entries == Parsed("Global")
           globals == Each(entries, GlobalOf)
       IN IF \E n \in DOMAIN entries :
               \/ entries[n].fields # ReadFields
               \/ globals[n].name \in {None, Empty} \/ ~Resolved(globals[n].value)
          THEN Reject
          ELSE /\ built' = [built EXCEPT !.items = globals]
               /\ step' = "functions"
               /\ UNCHANGED <<offset, next, payloads>>
    /\ Unwritten

LocOf(index) ==
    LET entries == Parsed("Debug")
        entry == LocAt(entries, index)
    IN  IF index \notin DOMAIN entries THEN None ELSE [line |-> entry.line, file |-> NameAt(entry.file)]
FunctionOf(e) ==
    [kind |-> "func", name |-> NameAt(e.name), type |-> At(Parsed("Type"), e.type),
     loc |-> LocOf(e.loc), values |-> Each(e.values, LAMBDA v : ConstantAt(v.type, v.value))]
CreateFunctions ==
    /\ step = "functions"
    /\ LET entries == Parsed("Func")
           funcs == Each(entries, FunctionOf)
       IN IF \/ "Func" \notin DOMAIN payloads
             \/ \E n \in DOMAIN entries :
                   \/ funcs[n].name \in {None, Empty} \/ funcs[n].type = None
                   \/ entries[n].loc # 0 /\ (funcs[n].loc = None \/ funcs[n].loc.file = None)
                   \/ \E k \in DOMAIN funcs[n].values : ~Resolved(funcs[n].values[k])
          THEN Reject
          ELSE /\ built' = [built EXCEPT !.items = @ \o funcs]
               /\ step' = "accepted"
               /\ UNCHANGED <<offset, next, payloads>>
    /\ Unwritten

Ended == step \in {"accepted", "rejected", "misread", "measured"} /\ UNCHANGED vars

Write ==
    \/ WriteHeader \/ BuildFunctionMap \/ WriteGlobals \/ WriteFunctions \/ WriteConstants
    \/ WriteDebugInfo \/ WriteTypes \/ WriteProducer \/ WriteStrings \/ WriteEnd
Read ==
    \/ ReadHeader \/ ReadSection \/ ReadEnd \/ SkipSection \/ FindSize
    \/ ParseTables \/ CreateGlobals \/ CreateFunctions
Next == Write \/ Deliver \/ Measure \/ Read \/ Ended

Spec == Init /\ [][Next]_vars

-----------------------------------------------------------------------------
(* Every variable has the shape the code gives it.                         *)
TypeOK ==
    /\ module.version \in Nat /\ start \in Starts
    /\ step \in {"header", "map", "End", "written", "failed", "read", "sections", "parse",
                 "globals", "functions", "measure", "accepted", "rejected", "misread",
                 "measured"} \cup Sections
    /\ DOMAIN table = Managers /\ \A t \in Managers : table[t] \in Seq(Range(table[t]))
    /\ \A n \in DOMAIN file : file[n] # EndMarker =>
          file[n].id \in Sections /\ file[n].pad \in 0..(file[n].align - 1)
    /\ tell \in Nat /\ next \in Nat /\ offset \in Nat
    /\ size \in Nat \cup {None} /\ found \in Nat \cup {None}
    /\ DOMAIN payloads \subseteq Sections

(* What a manager's section holds of its entries.                          *)
Contents(t) ==
    CASE t \in {"String", "Type"} -> table[t]
      [] t = "Constant" -> Each(table[t], LAMBDA v : v.bits)
      [] t = "Debug" -> Each(table[t], LAMBDA l : [line |-> l.line,
                                                   file |-> IndexIn(table.String, l.file)])

(* Every index that is anywhere in the file has its entry in the file: no  *)
(* manager gets an entry after its section was written, and none that has  *)
(* entries goes without a section.                                         *)
TablesComplete ==
    /\ \A n \in DOMAIN file : file[n] # EndMarker /\ file[n].id \in Managers =>
          file[n].body = Contents(file[n].id)
    /\ Complete => \A t \in Managers :
          table[t] # <<>> => \E n \in DOMAIN file : file[n].id = t

(* A reader never takes part of a file, one whose writing failed, or one   *)
(* with something behind it, for a module.                                 *)
PartialRejected == step = "accepted" => Complete /\ size = Length

(* It takes every file that was written whole, at any aligned position of  *)
(* a stream.                                                               *)
CompleteAccepted ==
    (Complete /\ size = Length /\ start % 8 = 0) => step \notin {"rejected", "misread"}

(* What the format carries of a module: the globals, then the functions,   *)
(* and from 13.3 on a producer that is not empty.                          *)
Carried(m) ==
    [producer |-> IF m.version < ExtendedVersion \/ m.producer = Empty THEN None ELSE m.producer,
     items |-> Globals(m) \o Each(Functions(m), LAMBDA f :
        [kind |-> f.kind, name |-> f.name, type |-> f.type, loc |-> f.loc, values |-> f.values])]

(* The module that is read is the one that was written: no version drops a *)
(* property of a global, no index of any section names another's entry.    *)
RoundTrip == step = "accepted" => built = Carried(module)

(* getBytecodeSize finds the size of every such file, whatever follows.    *)
SizeIsFound ==
    /\ step = "measured" => found = Length
    /\ (size = None /\ start % 8 = 0) => step \notin {"rejected", "misread"}
=============================================================================
