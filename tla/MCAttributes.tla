---------------------------- MODULE MCAttributes -----------------------------
(***************************************************************************)
(* Attributes with bytes of 3 bits, words of 7 and 32-bit numbers of two   *)
(* bytes: a varint has at most four bytes and one bit in the last, and a   *)
(* table with 32-bit offsets overflows at 64 bytes of data.                *)
(***************************************************************************)
EXTENDS Attributes

Scalars(elem, widths) == {[elem |-> elem, width |-> n, lanes |-> 0] : n \in widths}
Tile(width, lanes) == [elem |-> "int", width |-> width, lanes |-> lanes]
Tiles == {Tile(1, 2), Tile(1, 3), Tile(1, 4), Tile(3, 2), Tile(6, 2)}
MCTypes == Scalars("int", {1, 3, 7}) \cup Scalars("float", {3, 4}) \cup Tiles

Plain(k, val) == Attr(k, NoType, val, <<>>)
Holder(k, elems) == Attr(k, NoType, <<>>, elems)
Key(s) == Plain("key", s)
Long == [n \in 1..60 |-> n % 5] \o <<1>>

Numbers == UNION {{Attr(t.elem, t, <<v>>, <<>>) : v \in {0, 1, 2 ^ t.width - 1}} : t \in MCTypes \ Tiles}
Dense == UNION {{Attr("dense", t, [n \in 1..t.lanes |-> IF n \in on THEN 1 ELSE 0], <<>>) : on \in SUBSET (1..t.lanes)} :
                  t \in {tile \in Tiles : I1(tile)}}
         \cup {Attr("dense", t, val, <<>>) : t \in {Tile(3, 2)}, val \in {<<5, 5>>, <<1, 2>>}}
         \cup {Attr("dense", Tile(6, 2), val, <<>>) : val \in {<<33, 33>>, <<1, 60>>, <<1, 1>>}}
Arrays == {Plain("bools", <<1, 0>>), Plain("i32s", <<30, 33>>), Plain("i32s", <<31>>),
           Plain("i64s", <<1, 100>>), Plain("i64s", <<2048>>), Plain("i64s", <<>>)}
Texts == {Plain("string", s) : s \in {<<>>, <<1>>, Long}} \cup {Plain("symbol", <<1>>), Plain("symbol", <<>>)}
Others == {Plain("enum", <<1>>), Plain("enum", <<5>>), Plain("predicate", <<9>>),
           Attr("type", Tile(3, 2), <<>>, <<>>)}
Small == {Attr("int", Boolean, <<1>>, <<>>), Plain("string", <<1>>), Plain("string", <<2>>),
          Attr("float", [elem |-> "float", width |-> 4, lanes |-> 0], <<9>>, <<>>)}
Holders ==
    {Holder("array", elems) : elems \in {<<>>} \cup {<<x, y>> : x, y \in Small}} \cup
    {Holder("array", <<x>>) : x \in Others \cup {Plain("i32s", <<1>>), Attr("dense", Tile(1, 2), <<0, 0>>, <<>>)}} \cup
    {Holder("dict", <<Key(<<1>>), x, Key(<<1, 2>>), Holder("array", <<x>>)>>) : x \in Small}
Every == Numbers \cup Dense \cup Arrays \cup Texts \cup Others \cup Holders

File == Attr("file", NoType, <<>>, <<Text(<<2>>), Text(<<>>)>>)
Unit == Attr("unit", NoType, <<>>, <<File>>)
Subprogram == Attr("subprogram", NoType, <<>>, <<File, Number(3), Text(<<1>>), Text(<<2>>), Unit, Number(4)>>)
Block == Attr("block", NoType, <<>>, <<Subprogram, File, Number(7), Number(0)>>)
Loc(scope, line) == Attr("loc", NoType, <<>>, <<scope, Text(<<1>>), Number(line), Number(5)>>)
Line == Attr("line", NoType, <<>>, <<Text(<<1>>), Number(1), Number(2)>>)
Call(callee, caller) == Attr("callsite", NoType, <<>>, <<callee, caller>>)
Locations == {Unknown, Line, Loc(Subprogram, 9), Loc(Block, 1), Call(Loc(Block, 1), Loc(Subprogram, 9)),
              Call(Line, Loc(Subprogram, 9)), Call(Unknown, Unknown), Attr("name", NoType, <<>>, <<>>),
              Call(Attr("fused", NoType, <<>>, <<>>), Unknown)}

Written1(version, operation, location) == [version |-> version, operation |-> operation, location |-> location]
WritingJobs ==
    {Written1(v, <<x>>, loc) : v \in {"old", "new"}, x \in {Plain("string", <<1>>), Plain("string", Long)}, loc \in Locations} \cup
    {Written1(v, <<x, y>>, Unknown) : v \in {"old", "new"}, x, y \in Dense} \cup
    {Written1("new", <<x, y>>, Unknown) : x \in Every, y \in Texts \cup Arrays \cup Others} \cup
    {Written1("old", <<x>>, Unknown) : x \in Every}

-----------------------------------------------------------------------------
(* Bytes nobody wrote; of the eight there are, those that differ in kind   *)
Bytes(n) == UNION {[1..m -> {0, 1, 2, 3, 5, 7}] : m \in 1..n}
LongVarInts == [1..4 -> {1, 3, 7}] \cup [1..5 -> {1, 3, 7}]
ForeignJob(k, type, body, secs) ==
    [expected |-> <<[k |-> k, type |-> type]>>, opIndex |-> 0, sections |-> [secs EXCEPT !.body = body]]
Sample ==
    SectionsOf([EmptyWriter EXCEPT !.strings = <<<<2>>, <<>>, <<1>>>>,
                                   !.types = <<Boolean, Tile(3, 2), [elem |-> "int", width |-> 3, lanes |-> 0]>>],
               "new", <<>>)
Kinds == {"int", "float", "type", "string", "symbol", "bools", "i32s", "enum", "predicate", "array", "dict"}
TypesOf(k) == IF k \in {"int", "float"} THEN {t \in MCTypes \ Tiles : t.elem = k} ELSE {NoType}
AnyBody ==
    UNION {{ForeignJob(k, t, body, Sample) : t \in TypesOf(k), body \in Bytes(3) \cup LongVarInts} : k \in Kinds}
AnyDictionary ==
    {ForeignJob("dict", NoType, <<2, keys[1], 3, 1, keys[2], 3, 7>>, Sample) : keys \in (0..3) \X (0..3)}
AnyConstant ==
    {ForeignJob("dense", t, <<0>>, [Sample EXCEPT !.constants = PoolSection(<<blob>>, Int64Bytes)]) :
        t \in Tiles, blob \in Bytes(3)} \cup
    {ForeignJob("dense", Tile(1, 2), <<1>>, [Sample EXCEPT !.constants = <<2, 7, 7, 7>> \o LEs(offsets, 4) \o <<1, 3, 1>>]) :
        offsets \in (0..4) \X (0..4)}
AnyStrings ==
    {ForeignJob("string", NoType, <<0>>, [Sample EXCEPT !.strings = <<count, 7>> \o LEs(offsets, 2) \o <<1, 2, 3>>]) :
        count \in 0..7, offsets \in (0..4) \X (0..4)}
AnyDebug ==
    {[ForeignJob("int", Boolean, <<0>>, [Sample EXCEPT !.debug = DebugSection(<<<<3>>>>, <<<<2, 0, 1>>, <<5, 1, 0, 0, 0, 2, 0>>, entry>>)])
        EXCEPT !.opIndex = 1] : entry \in {<<tag>> \o rest : tag \in {4, 6}, rest \in [1..4 -> 0..3]}}
AnyTypes ==
    {ForeignJob("type", NoType, <<0>>, [Sample EXCEPT !.types = TypeSection(<<VarInt(tag) \o slice>>)]) :
        tag \in {0, 1, 2, Byte, Byte + 1, Byte + 2},
        slice \in [1..2 -> 0..3] \cup [1..3 -> 0..3] \cup {<<5, 0, 2>>, <<3, 5>>, <<>>, <<1, 0, 5>>}}
MCJobs ==
    WritingJobs \cup AnyBody \cup AnyDictionary \cup AnyConstant \cup AnyStrings \cup AnyTypes \cup AnyDebug
=============================================================================
