--------------------------- MODULE DebugAttributes ---------------------------
(***************************************************************************)
(* The debug section in bytes: the rows of indices of DebugIndices, and    *)
(* the attributes they lead to.  An attribute is a kind and its parts:     *)
(* strings, numbers and other debug attributes, in the order of Layout.    *)
(* Its tables are those of IndexTable and LazyTable, whose state machines  *)
(* are about cycles, marks and caches; here it is the bytes that count.    *)
(***************************************************************************)
EXTENDS Pools

NoType == [elem |-> "none", width |-> 0, lanes |-> 0]
Attr(k, type, val, elems) == [k |-> k, type |-> type, val |-> val, elems |-> elems]
Number(n) == Attr("number", NoType, <<n>>, <<>>)
Text(s) == Attr("string", NoType, s, <<>>)
Unknown == Attr("unknown", NoType, <<>>, <<>>)

(* DebugTag, and the parts of each kind; a scope is a lexical block or a   *)
(* subprogram, a location is what an operation may have.                   *)
Tags == <<"unit", "file", "block", "loc", "subprogram", "callsite">>
Layout == [
    unit |-> <<"file">>,
    file |-> <<"string", "string">>,
    block |-> <<"scope", "file", "number", "number">>,
    loc |-> <<"scope", "string", "number", "number">>,
    subprogram |-> <<"file", "number", "string", "string", "unit", "number">>,
    callsite |-> <<"location", "location">>]
Wanted(part) ==
    CASE part = "scope" -> {"block", "subprogram"}
      [] part = "location" -> {"loc", "callsite", "unknown"}
      [] OTHER -> {part}

SIZE == 1       \* DebugReserved::SIZE, index 0 is DebugReserved::UnknownLoc
Reserved(attr) == attr.k \in {"unknown", "line"}

-----------------------------------------------------------------------------
(* DebugInfoWriter                                                         *)
RECURSIVE Supported(_), Registered(_, _), RegisterParts(_, _)

(* validateDebugInfo: a name, fused or opaque location is refused          *)
Supported(loc) ==
    \/ loc.k \in {"loc", "line", "unknown"}
    \/ loc.k = "callsite" /\ \A n \in DOMAIN loc.elems : Supported(loc.elems[n])

(* getDebugInfoIndex: first what an attribute depends on, then itself      *)
Registered(table, attr) ==
    IF Reserved(attr) \/ Contains(table, attr) THEN table
    ELSE Append(RegisterParts(table, SelectSeq(attr.elems, LAMBDA part : part.k \notin {"string", "number"})), attr)
RegisterParts(table, parts) ==
    IF parts = <<>> THEN table ELSE RegisterParts(Registered(table, Head(parts)), Tail(parts))
DebugIndex(table, attr) == IF Reserved(attr) THEN 0 ELSE IndexIn(table, attr) + SIZE

(* serialize                                                               *)
RECURSIVE SerializeParts(_, _), SerializeAll(_, _)
SerializePart(w, part) ==
    CASE part.k = "string" -> EmitIndex(w, "strings", part.val)
      [] part.k = "number" -> Emit(w, VarInt(part.val[1]))
      [] OTHER -> Emit(w, VarInt(DebugIndex(w.debug, part)))
SerializeParts(w, parts) ==
    IF parts = <<>> THEN w ELSE SerializeParts(SerializePart(w, Head(parts)), Tail(parts))
Serialized(w, attr) == SerializeParts(Emit(w, VarInt(IndexIn(Tags, attr.k) + 1)), attr.elems)

(* The data of the attributes and, on the way, their strings               *)
SerializeAll(w, n) ==
    IF n = 0 THEN [w |-> w, data |-> <<>>]
    ELSE LET before == SerializeAll(w, n - 1)
             one == Serialized([before.w EXCEPT !.out = <<>>], w.debug[n])
         IN  [w |-> one, data |-> Append(before.data, one.out)]

(* writeDebugInfoSection, for the rows of one operation each               *)
DebugSection(rows, data) ==
    LET Aligned(bytes, alignment) == bytes \o Padding(Len(bytes), alignment)
        indices == FlattenSeq(rows)
        offsets == Aligned(VarInt(Len(rows)), Int32Bytes) \o Offsets(rows, Int32Bytes)
        table == Aligned(offsets \o VarInt(Len(indices)), Int64Bytes) \o LEs(indices, Int64Bytes)
    IN  IF rows = <<>> /\ data = <<>> THEN <<>>
        ELSE Aligned(table \o VarInt(Len(data)), Int32Bytes) \o Offsets(data, Int32Bytes) \o FlattenSeq(data)

-----------------------------------------------------------------------------
(* DebugInfoReader                                                         *)
NoDebug == [rows |-> <<>>, indices |-> <<>>, pool |-> NoPool]

(* one of the three arrays of the section: it must lie in the section, and *)
(* something must be where it starts                                       *)
ReadArray(data, at, count, bytes) ==
    IF at >= Len(data) \/ count > (Len(data) - at) \div bytes THEN Failed
    ELSE ReadLEs(data, at, count, bytes)
ReadDebug(data) ==
    LET Array(at, bytes) ==
            Bind(ReadVarInt(data, at), LAMBDA count, start :
                Bind(SkipPadding(data, start, bytes), LAMBDA none, next : ReadArray(data, next, count, bytes)))
    IN  IF data = <<>> THEN Got(NoDebug, 0)
        ELSE Bind(Array(0, Int32Bytes), LAMBDA rows, at1 :
             Bind(Array(at1, Int64Bytes), LAMBDA indices, at2 :
             Bind(Array(at2, Int32Bytes), LAMBDA offsets, at3 :
                Got([rows |-> rows, indices |-> indices,
                     pool |-> [offsets |-> offsets, data |-> SubSeq(data, at3 + 1, Len(data))]], at3))))

(* readAndGetString                                                        *)
ReadString(data, at, strings) ==
    Bind(ReadVarInt(data, at), LAMBDA n, next :
        IF n >= Len(strings.offsets) THEN Failed ELSE Got(StringAt(strings, n), next))

(* getDebugInfo: the attribute of an index, which must be of a wanted      *)
(* kind; an index met while it is being read gives none.                   *)
RECURSIVE DebugAt(_, _, _, _), ReadParts(_, _, _, _, _)
ReadParts(tables, marked, data, at, layout) ==
    IF layout = <<>> THEN Got(<<>>, at)
    ELSE LET part == Head(layout)
             first == CASE part = "string" -> Bind(ReadString(data, at, tables.strings), LAMBDA s, next : Got(Text(s), next))
                        [] part = "number" -> Bind(ReadVarInt(data, at), LAMBDA n, next : Got(Number(n % Word32), next))
                        [] OTHER -> Bind(ReadVarInt(data, at), LAMBDA n, next :
                                        Bind(DebugAt(tables, marked, n, Wanted(part)), LAMBDA attr, none : Got(attr, next)))
         IN  Bind(first, LAMBDA attr, next :
                Bind(ReadParts(tables, marked, data, next, Tail(layout)), LAMBDA others, end : Got(<<attr>> \o others, end)))
(* parseDebugInfo: a tag there is none of means an unknown location *)
ParsedDebugInfo(tables, marked, data) ==
    Bind(ReadVarInt(data, 0), LAMBDA tag, at :
        IF tag \notin DOMAIN Tags THEN Got(Unknown, at)
        ELSE Bind(ReadParts(tables, marked, data, at, Layout[Tags[tag]]),
                  LAMBDA parts, end : Got(Attr(Tags[tag], NoType, <<>>, parts), end)))
DebugAt(tables, marked, index, wanted) ==
    LET n == index - SIZE
    IN  Checked(IF index = 0 THEN Got(Unknown, 0)
                ELSE IF n >= Len(tables.debug.pool.offsets) \/ n \in marked THEN Failed
                ELSE ParsedDebugInfo(tables, marked \cup {n}, TypeAt(tables.debug.pool, n)),
                LAMBDA attr : attr.k \in wanted)

(* Iterator::next, for the first index of a row                            *)
LocationAt(tables, opIndex) ==
    LET debug == tables.debug
        row == opIndex - SIZE
    IN  IF opIndex = 0 THEN Got(Unknown, 0)
        ELSE IF row >= Len(debug.rows) \/ debug.rows[row + 1] >= Len(debug.indices) THEN Failed
        ELSE DebugAt(tables, {}, debug.indices[debug.rows[row + 1] + 1], Wanted("location"))
=============================================================================
