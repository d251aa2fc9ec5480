----------------------------- MODULE Attributes ------------------------------
(***************************************************************************)
(* An operation's attributes and location in bytecode, byte for byte: the  *)
(* writer puts them into the function body and into the string, type,      *)
(* constant and debug sections, and the reader finds them again.           *)
(*                                                                         *)
(* An attribute has a kind k, a type, numbers or bytes in val and, where   *)
(* it holds other attributes, those in elems; the elems of a dictionary    *)
(* are its keys and values in turn.  A boolean is an integer of width 1.   *)
(* The reader knows from the opcode which kind, and for some kinds which   *)
(* type, each attribute of the operation has.                              *)
(*                                                                         *)
(* A type stands for its entry in the type section (TypeFields writes      *)
(* those), "predicate" for an attribute of the dialect with a serialiser   *)
(* of its own (AttributeFields) and one number in it.                      *)
(***************************************************************************)
EXTENDS DebugAttributes

CONSTANTS
    Types,          \* the types there are: [elem, width, lanes], no lanes in a scalar
    NewValues,      \* enum values of a later release
    Jobs            \* what is written, or only read

VARIABLES
    job,        \* [version, operation, location] or, for foreign bytes, the sections themselves
    phase,
    w,          \* the writer of the function body and its tables
    sections,   \* the bytes of the body and of the four sections
    tables,     \* the tables of the reader
    cache,      \* DenseElementsAttrCache
    at,         \* where the reader is in the body
    read        \* the attributes it has read, and the location before them

vars == <<job, phase, w, sections, tables, cache, at, read>>

Scalar(elem, type) == type.elem = elem /\ type.lanes = 0
IsTile(type) == type.lanes > 0
I1(type) == type.elem = "int" /\ type.width = 1

(* AttributeTag                                                            *)
TagOf == [int |-> 1, float |-> 2, type |-> 4, string |-> 5, array |-> 6, dense |-> 7, predicate |-> 8, dict |-> 10]
TypeTag(type) == IF type.elem = "int" THEN 0 ELSE 1
TypeBytes(type) == VarInt(TypeTag(type)) \o VarInt(type.width) \o VarInt(type.lanes)

-----------------------------------------------------------------------------
(* The constants of a dense attribute                                      *)
Splat(val) == \A n \in DOMAIN val : val[n] = val[1]
ByteBits == Payload + 1
Ceil(n, d) == (n + d - 1) \div d
Packed(bits) ==
    [k \in 1..Ceil(Len(bits), ByteBits) |->
        MapThenSumSet(LAMBDA n : bits[n] * 2 ^ ((n - 1) % ByteBits),
                      {n \in DOMAIN bits : (n - 1) \div ByteBits = k - 1})]

(* serializeAttribute: i1 is packed, except that a splat was one byte in   *)
(* versions before kCanonicalI1Version; other types have MLIR's raw        *)
(* buffer, in which a splat is one element.                                *)
Blob(attr, version) ==
    LET val == attr.val
        raw == IF ~I1(attr.type)
               THEN LEs(IF Splat(val) THEN <<val[1]>> ELSE val, Ceil(attr.type.width, ByteBits))
               ELSE IF version = "old" /\ Splat(val) THEN <<IF val[1] = 1 THEN Byte - 1 ELSE 0>>
               ELSE Packed(val)
    IN  VarInt(Len(raw)) \o raw

(* DenseElementsAttrCache::getOrCreate, of a key it does not have          *)
Unpacked(bytes, lanes) == [n \in 1..lanes |-> (bytes[1 + ((n - 1) \div ByteBits)] \div (2 ^ ((n - 1) % ByteBits))) % 2]
DenseOf(type, blob) ==
    LET lanes == type.lanes
        width == Ceil(type.width, ByteBits)
        bytes == Bind(ReadVarInt(blob, 0), LAMBDA size, next : ReadBytes(blob, next, size))
        Same(v) == [n \in 1..lanes |-> v]
        Lanes(raw) ==
            CASE I1(type) /\ Len(raw) = Ceil(lanes, ByteBits) -> Got(Unpacked(raw, lanes), 0)
              [] I1(type) /\ Len(raw) = 1 /\ lanes > ByteBits -> Got(Same(raw[1] % 2), 0)
              [] ~I1(type) /\ Len(raw) = width -> Got(Same(ReadLE(raw, 0, width).val), 0)
              [] ~I1(type) /\ Len(raw) = width * lanes -> ReadLEs(raw, 0, lanes, width)
              [] OTHER -> Failed
    IN  IF ~IsTile(type) THEN Failed
        ELSE Bind(bytes, LAMBDA raw, next :
                Bind(Lanes(raw), LAMBDA val, none : Got(Attr("dense", type, val, <<>>), 0)))

-----------------------------------------------------------------------------
(* Writing an attribute                                                    *)
RECURSIVE Written(_, _, _, _), WrittenAll(_, _, _)
Refuse(writer) == [writer EXCEPT !.ok = FALSE]
Tagged(writer, attr) ==
    LET tagged == Emit(writer, VarInt(TagOf[attr.k]))
    IN  IF attr.k \in {"int", "float", "dense"} THEN EmitIndex(tagged, "types", attr.type) ELSE tagged
WrittenAll(writer, attrs, version) ==
    IF attrs = <<>> \/ ~writer.ok THEN writer
    ELSE WrittenAll(Written(writer, Head(attrs), version, Head(attrs).k # "key"), Tail(attrs), version)

(* writeOpAttribute and writeSingleAttribute.  An attribute in a           *)
(* container, or behind an interface, is self-contained: it starts with    *)
(* its tag; kinds without a tag cannot be written so.                      *)
Contents(writer, attr, version) ==
    CASE attr.k \in {"string", "symbol", "key"} -> EmitIndex(writer, "strings", attr.val)
      [] attr.k = "type" -> EmitIndex(writer, "types", attr.type)
      [] attr.k = "dense" -> EmitIndex(writer, "constants", attr)
      [] attr.k \in {"int", "predicate"} -> Emit(writer, VarInt(attr.val[1]))
      [] attr.k = "float" -> Emit(writer, APInt(attr.val[1], attr.type.width))
      [] attr.k = "enum" -> IF version = "old" /\ attr.val[1] \in NewValues THEN Refuse(writer)
                            ELSE Emit(writer, VarInt(attr.val[1]))
      [] attr.k = "bools" -> Emit(writer, LEVarSize(attr.val, 1))
      [] attr.k = "i32s" -> Emit(writer, LEVarSize(attr.val, Int32Bytes))
      [] attr.k = "i64s" -> Emit(writer, LEVarSize(attr.val, Int64Bytes))
      [] attr.k = "array" -> WrittenAll(Emit(writer, VarInt(Len(attr.elems))), attr.elems, version)
      [] attr.k = "dict" -> WrittenAll(Emit(writer, VarInt(Len(attr.elems) \div 2)), attr.elems, version)
Written(writer, attr, version, selfContained) ==
    IF ~selfContained THEN Contents(writer, attr, version)
    ELSE IF attr.k \notin DOMAIN TagOf THEN Refuse(writer)
    ELSE Contents(Tagged(writer, attr), attr, version)
WrittenOp(writer, attr, version) == Written(writer, attr, version, attr.k = "predicate")

(* What the sections of a writer are when its body is complete             *)
BlobsOf(writer, version) == [n \in DOMAIN writer.constants |-> Blob(writer.constants[n], version)]
SectionsOf(writer, version, rows) ==
    LET debug == SerializeAll([writer EXCEPT !.out = <<>>], Len(writer.debug))
    IN  [body |-> writer.out,
         debug |-> DebugSection(rows, debug.data),
         strings |-> StringSection(debug.w.strings),
         types |-> TypeSection([n \in DOMAIN writer.types |-> TypeBytes(writer.types[n])]),
         constants |-> ConstantSection(BlobsOf(writer, version))]

-----------------------------------------------------------------------------
(* Reading an attribute                                                    *)
RECURSIVE ReadSelfContained(_, _, _), ReadElements(_, _, _, _, _)

Truth(v) == IF v = 0 THEN 0 ELSE 1
Boolean == [elem |-> "int", width |-> 1, lanes |-> 0]

(* Mutants *)
InlineIntUnchecked(body, start, type) ==
    IF ~Scalar("int", type) \/ type.width > WordBits THEN Failed
    ELSE IF type.width = 1
         THEN Bind(ReadLE(body, start, 1), LAMBDA v, next : Got(Attr("int", type, <<Truth(v)>>, <<>>), next))
         ELSE Bind(ReadVarInt(body, start), LAMBDA v, next : Got(Attr("int", type, <<v>>, <<>>), next))
CacheKeyOfBytes(type, blob) == <<NoType, blob>>

(* getType: of the tag a byte is left, and what a slice has behind the     *)
(* fields of its type is not looked at.                                    *)
ParsedType(slice) ==
    LET Named(tag, width, lanes) ==
            {type \in Types : TypeTag(type) = tag % Byte /\ type.width = width /\ type.lanes = lanes}
    IN  Bind(ReadVarInt(slice, 0), LAMBDA tag, fields :
        Bind(ReadVarInt(slice, fields), LAMBDA width, at1 :
        Bind(ReadVarInt(slice, at1), LAMBDA lanes, at2 :
            IF Named(tag, width, lanes) = {} THEN Failed
            ELSE Got(CHOOSE type \in Named(tag, width, lanes) : TRUE, at2))))

(* readAndGetType *)
ReadType(pools, body, start) ==
    Bind(ReadVarInt(body, start), LAMBDA n, next :
        IF n >= Len(pools.types.offsets) THEN Failed
        ELSE Bind(ParsedType(TypeAt(pools.types, n)), LAMBDA type, end : Got(type, next)))

(* parseScalarAttributeInline *)
InlineInt(body, start, type) ==
    IF ~Scalar("int", type) \/ type.width > WordBits THEN Failed
    ELSE IF type.width = 1
         THEN Bind(ReadLE(body, start, 1), LAMBDA v, next : Got(Attr("int", type, <<Truth(v)>>, <<>>), next))
         ELSE Bind(Checked(ReadVarInt(body, start), LAMBDA v : v < 2 ^ type.width),
                   LAMBDA v, next : Got(Attr("int", type, <<v>>, <<>>), next))
InlineFloat(body, start, type) ==
    IF ~Scalar("float", type) THEN Failed
    ELSE Bind(ReadAPInt(body, start, type.width), LAMBDA v, next : Got(Attr("float", type, <<v>>, <<>>), next))

(* parseConstantAttrIndex *)
CacheKey(type, blob) == <<type, blob>>
ReadDense(pools, known, body, start, type) ==
    LET Cached(blob) == {entry \in known : entry.key = CacheKey(type, blob)}
    IN  Bind(ReadVarInt(body, start), LAMBDA n, next :
            IF n >= Len(pools.constants) THEN Failed
            ELSE LET blob == pools.constants[n + 1]
                 IN  IF Cached(blob) # {} THEN Got((CHOOSE entry \in Cached(blob) : TRUE).attr, next)
                     ELSE Bind(DenseOf(type, blob), LAMBDA attr, none : Got(attr, next)))

(* the greatest and the least integer of an array are refused *)
ReadIntegers(body, start, k, bytes) ==
    LET middle == (Byte ^ bytes) \div 2
    IN  Bind(Checked(ReadLEVarSize(body, start, bytes), LAMBDA val : {middle - 1, middle} \cap ToSet(val) = {}),
             LAMBDA val, next : Got(Attr(k, NoType, val, <<>>), next))
ReadBooleans(body, start) ==
    Bind(ReadLEVarSize(body, start, 1),
         LAMBDA val, next : Got(Attr("bools", NoType, [n \in DOMAIN val |-> Truth(val[n])], <<>>), next))

(* parseGenericEnumAttr: any value of the enum, also one of a later release *)
ReadEnum(body, start) ==
    Bind(Checked(ReadVarInt(body, start), LAMBDA v : v % Word32 \in 0..Max(NewValues)),
         LAMBDA v, next : Got(Attr("enum", NoType, <<v % Word32>>, <<>>), next))

(* keys are not empty and not repeated; the dictionary is sorted by them *)
Less(s, t) ==
    \/ IsStrictPrefix(s, t)
    \/ \E n \in DOMAIN s \cap DOMAIN t : SubSeq(s, 1, n - 1) = SubSeq(t, 1, n - 1) /\ s[n] < t[n]
KeysOf(elems) == {n \in DOMAIN elems : n % 2 = 1}
SortedByKey(elems) ==
    LET Rank(n) == Cardinality({m \in KeysOf(elems) : Less(elems[m].val, elems[n].val)})
        keyAt == [r \in 1..Cardinality(KeysOf(elems)) |-> CHOOSE n \in KeysOf(elems) : Rank(n) = r - 1]
    IN  FlattenSeq([r \in DOMAIN keyAt |-> <<elems[keyAt[r]], elems[keyAt[r] + 1]>>])
ReadDict(elems, next) ==
    IF \/ \E n \in KeysOf(elems) : elems[n].val = <<>>
       \/ \E n, m \in KeysOf(elems) : n # m /\ elems[n].val = elems[m].val
    THEN Failed ELSE Got(Attr("dict", NoType, <<>>, SortedByKey(elems)), next)
ReadElements(pools, body, start, count, keyed) ==
    IF count = 0 THEN Got(<<>>, start)
    ELSE LET key == IF keyed
                    THEN Bind(ReadString(body, start, pools.strings), LAMBDA s, next : Got(<<Attr("key", NoType, s, <<>>)>>, next))
                    ELSE Got(<<>>, start)
         IN  Bind(key, LAMBDA name, next :
             Bind(ReadSelfContained(pools, body, next), LAMBDA attr, after :
             Bind(ReadElements(pools, body, after, count - 1, keyed), LAMBDA others, end :
                Got(name \o <<attr>> \o others, end))))

(* parseOpAttribute, for the kinds that need no constants *)
ReadPlain(pools, body, start, k, type) ==
    CASE k = "int" -> InlineInt(body, start, type)
      [] k = "float" -> InlineFloat(body, start, type)
      [] k = "type" -> Bind(ReadType(pools, body, start), LAMBDA t, next : Got(Attr(k, t, <<>>, <<>>), next))
      [] k \in {"string", "symbol"} ->
            Bind(Checked(ReadString(body, start, pools.strings), LAMBDA s : k = "string" \/ s # <<>>),
                 LAMBDA s, next : Got(Attr(k, NoType, s, <<>>), next))
      [] k = "bools" -> ReadBooleans(body, start)
      [] k = "i32s" -> ReadIntegers(body, start, k, Int32Bytes)
      [] k = "i64s" -> ReadIntegers(body, start, k, Int64Bytes)
      [] k = "enum" -> ReadEnum(body, start)
      [] k = "predicate" -> Bind(ReadVarInt(body, start), LAMBDA v, next : Got(Attr(k, NoType, <<v>>, <<>>), next))
      [] k = "array" ->
            Bind(ReadVarInt(body, start), LAMBDA count, next :
            Bind(ReadElements(pools, body, next, count, FALSE), LAMBDA elems, end : Got(Attr(k, NoType, <<>>, elems), end)))
      [] k = "dict" ->
            Bind(ReadVarInt(body, start), LAMBDA count, next :
            Bind(ReadElements(pools, body, next, count, TRUE), LAMBDA elems, end : ReadDict(elems, end)))

(* parseSelfContainedOpAttribute.  What is written of a dense attribute in *)
(* a container is not read: the reader knows its constants only as         *)
(* DenseTypedElementsAttr, and asks for a DenseElementsAttr here.          *)
ReadSelfContained(pools, body, start) ==
    LET Typed(k, from) == Bind(ReadType(pools, body, from), LAMBDA type, next : ReadPlain(pools, body, next, k, type))
    IN  Bind(ReadVarInt(body, start), LAMBDA tag, next :
            IF tag = 3 THEN Bind(ReadLE(body, next, 1), LAMBDA v, end :
                                Got(Attr("int", Boolean, <<Truth(v)>>, <<>>), end))
            ELSE IF \A k \in DOMAIN TagOf : TagOf[k] # tag THEN Failed
            ELSE LET k == CHOOSE kind \in DOMAIN TagOf : TagOf[kind] = tag
                 IN  IF k = "dense" THEN Failed
                     ELSE IF k \in {"int", "float"} THEN Typed(k, next)
                     ELSE ReadPlain(pools, body, next, k, NoType))
ReadOp(pools, known, body, start, k, type) ==
    IF k = "dense" THEN ReadDense(pools, known, body, start, type)
    ELSE IF k = "predicate"
    THEN Checked(ReadSelfContained(pools, body, start), LAMBDA attr : attr.k = "predicate")
    ELSE ReadPlain(pools, body, start, k, type)

(* The four sections, in the order readBytecode parses them *)
TablesOf(bytes) ==
    LET strings == ReadPool(bytes.strings)
        constants == ReadConstants(bytes.constants)
        types == ReadPool(bytes.types)
        debug == ReadDebug(bytes.debug)
    IN  IF strings.ok /\ constants.ok /\ types.ok /\ debug.ok
        THEN Got([strings |-> strings.val, constants |-> constants.val, types |-> types.val, debug |-> debug.val], 0)
        ELSE Failed
-----------------------------------------------------------------------------
(* A job either writes an operation and reads it back, or reads the given  *)
(* sections as the attributes that expected names.                         *)
Foreign == "sections" \in DOMAIN job
Expected == IF Foreign THEN job.expected
            ELSE [n \in DOMAIN job.operation |-> [k |-> job.operation[n].k, type |-> job.operation[n].type]]
OpIndex == IF Foreign THEN job.opIndex ELSE IF Reserved(job.location) THEN 0 ELSE SIZE
NoTables == [strings |-> NoPool, constants |-> <<>>, types |-> NoPool, debug |-> NoDebug]

Init ==
    /\ job \in Jobs
    /\ phase = IF Foreign THEN "tables" ELSE "location"
    /\ w = EmptyWriter
    /\ sections = IF Foreign THEN job.sections ELSE SectionsOf(EmptyWriter, "new", <<>>)
    /\ tables = NoTables /\ cache = {} /\ at = 0 /\ read = <<>>

(* addDebugInfo, for a location that is not refused *)
WriteLocation ==
    /\ phase = "location"
    /\ IF Supported(job.location)
       THEN /\ w' = [w EXCEPT !.debug = Registered(@, job.location)]
            /\ phase' = "writing"
       ELSE phase' = "refused" /\ UNCHANGED w
    /\ at' = 0
    /\ UNCHANGED <<job, sections, tables, cache, read>>

(* writeOpAttribute of the next attribute; at counts those written *)
WriteOpAttribute ==
    /\ phase = "writing"
    /\ at < Len(job.operation)
    /\ w' = WrittenOp(w, job.operation[at + 1], job.version)
    /\ phase' = IF w'.ok THEN "writing" ELSE "refused"
    /\ at' = at + 1
    /\ UNCHANGED <<job, sections, tables, cache, read>>

(* Constants, debug info, types and strings are written once the bodies are; *)
(* a location of its own is the first of the operation's row.                *)
WriteSections ==
    /\ phase = "writing"
    /\ at = Len(job.operation)
    /\ sections' = SectionsOf(w, job.version,
                      IF Reserved(job.location) THEN <<>> ELSE <<<<DebugIndex(w.debug, job.location)>>>>)
    /\ phase' = "tables"
    /\ at' = 0
    /\ UNCHANGED <<job, w, tables, cache, read>>

ParseSections ==
    /\ phase = "tables"
    /\ LET parsed == TablesOf(sections)
       IN  IF parsed.ok THEN tables' = parsed.val /\ phase' = "next" ELSE phase' = "rejected" /\ UNCHANGED tables
    /\ UNCHANGED <<job, w, sections, cache, at, read>>

(* parseOperation: the location of the operation comes first *)
ReadLocation ==
    /\ phase = "next" /\ read = <<>>
    /\ LET location == LocationAt(tables, OpIndex)
       IN  IF location.ok THEN read' = <<location.val>> /\ phase' = "next"
           ELSE phase' = "rejected" /\ UNCHANGED read
    /\ UNCHANGED <<job, w, sections, tables, cache, at>>

(* parseOpAttribute of the next attribute; a constant stays in the cache *)
ReadOpAttribute ==
    /\ phase = "next" /\ read # <<>> /\ Len(read) <= Len(Expected)
    /\ LET want == Expected[Len(read)]
           got == ReadOp(tables, cache, sections.body, at, want.k, want.type)
       IN  IF got.ok
           THEN /\ read' = Append(read, got.val)
                /\ at' = got.at
                /\ cache' = IF want.k # "dense" THEN cache
                            ELSE cache \cup {[key |-> CacheKey(want.type, tables.constants[ReadVarInt(sections.body, at).val + 1]),
                                              attr |-> got.val]}
                /\ phase' = IF Len(read) = Len(Expected) THEN "read" ELSE "next"
           ELSE phase' = "rejected" /\ UNCHANGED <<cache, at, read>>
    /\ UNCHANGED <<job, w, sections, tables>>

Next == WriteLocation \/ WriteOpAttribute \/ WriteSections \/ ParseSections \/ ReadLocation \/ ReadOpAttribute
Spec == Init /\ [][Next]_vars

-----------------------------------------------------------------------------
(* Properties                                                              *)
RECURSIVE HoldsDense(_), Kept(_)
HoldsDense(attr) == \E n \in DOMAIN attr.elems : attr.elems[n].k = "dense" \/ HoldsDense(attr.elems[n])
Fits == Max({Len(tables.strings.data), Len(tables.types.data), Len(tables.debug.pool.data)}) < Word32

(* a file, line and column without a scope is only known as unknown        *)
Kept(loc) == IF Reserved(loc) THEN Unknown
             ELSE [loc EXCEPT !.elems = [n \in DOMAIN loc.elems |-> Kept(loc.elems[n])]]
Sound(attr) ==
    /\ attr.k \in {"int", "float"} => attr.val[1] < 2 ^ attr.type.width
    /\ attr.k = "dense" => Len(attr.val) = attr.type.lanes /\ \A n \in DOMAIN attr.val : attr.val[n] < 2 ^ attr.type.width
    /\ attr.k = "symbol" => attr.val # <<>>
    /\ attr.k = "dict" => Cardinality({attr.elems[n] : n \in KeysOf(attr.elems)}) = Len(attr.elems) \div 2

(* The three sorts of attribute the reader never takes, though the writer  *)
(* writes them: an empty symbol, an array with an extreme integer and a    *)
(* dense attribute inside a container.                                     *)
Unreadable(attr) ==
    \/ attr.k = "symbol" /\ attr.val = <<>>
    \/ attr.k = "i32s" /\ {Word32 \div 2 - 1, Word32 \div 2} \cap ToSet(attr.val) # {}
    \/ attr.k = "i64s" /\ {(Byte ^ Int64Bytes) \div 2 - 1, (Byte ^ Int64Bytes) \div 2} \cap ToSet(attr.val) # {}
    \/ HoldsDense(attr)

(* What is written is read back as it was: attributes of every kind, next  *)
(* to any other, and the location.  Reading fails only for an attribute    *)
(* that is Unreadable (writeOpAttribute against parseOpAttribute).         *)
AttributesSurvive ==
    ~Foreign /\ Fits =>
        /\ phase = "read" => read = <<Kept(job.location)>> \o job.operation
        /\ phase = "rejected" => read # <<>> /\ Unreadable(job.operation[Len(read)])

(* Every entry of the tables is found where the writer put it, by string,  *)
(* type and constant index and by debug index, while the data of a section *)
(* with 32-bit offsets is shorter than 2^32 (writeStringSection,           *)
(* writeTypeSection, writeConstantSection, writeDebugInfoSection).         *)
PoolsAgree ==
    ~Foreign /\ phase = "next" /\ read = <<>> /\ Fits =>
        LET strings == SerializeAll(w, Len(w.debug)).w.strings
        IN  /\ Len(tables.strings.offsets) = Len(strings)
            /\ \A n \in DOMAIN strings : StringAt(tables.strings, n - 1) = strings[n]
            /\ \A n \in DOMAIN w.types : TypeAt(tables.types, n - 1) = TypeBytes(w.types[n])
            /\ tables.constants = BlobsOf(w, job.version)
            /\ \A n \in DOMAIN w.debug : DebugAt(tables, {}, n, ToSet(Tags)).val = Kept(w.debug[n])

(* Whatever the bytes are, an attribute that is accepted fits its type and *)
(* is one the writer can write, in any version, so that it is read back    *)
(* the same; and so is a location (the checks of parseAPInt,               *)
(* parseScalarAttributeInline, getOrCreate and parseOpAttribute).          *)
ReadsBack(attr, version) ==
    LET writer == WrittenOp(EmptyWriter, attr, version)
        bytes == SectionsOf(writer, version, <<>>)
        again == ReadOp(TablesOf(bytes).val, {}, bytes.body, 0, attr.k, attr.type)
    IN  writer.ok => again.ok /\ again.val = attr
LocationReadsBack(loc) ==
    LET writer == [EmptyWriter EXCEPT !.debug = Registered(@, loc)]
        bytes == SectionsOf(writer, "new", <<<<DebugIndex(writer.debug, loc)>>>>)
        again == LocationAt(TablesOf(bytes).val, SIZE)
    IN  Reserved(loc) \/ (again.ok /\ again.val = loc)
AcceptedIsLegal ==
    read # <<>> =>
        /\ LocationReadsBack(Head(read))
        /\ \A n \in 2..Len(read) :
              Sound(read[n]) /\ \A version \in {"old", "new"} : ReadsBack(read[n], version)
=============================================================================
