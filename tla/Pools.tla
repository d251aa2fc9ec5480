-------------------------------- MODULE Pools --------------------------------
(***************************************************************************)
(* The layout the string, type and constant sections share: a count,       *)
(* padding, one offset per entry and the entries one after another.  The   *)
(* offsets of strings and types have 32 bits, those of constants 64; the   *)
(* reader finds an entry between its offset and the next one.  Entries are *)
(* numbered from 0.                                                        *)
(***************************************************************************)
EXTENDS Encodings

Word32 == Byte ^ Int32Bytes

-----------------------------------------------------------------------------
(* Mutants                                                                 *)
(* the offset of an entry is recorded after the entry was counted *)
OffsetPast(entries, n) == Len(FlattenSeq(SubSeq(entries, 1, n)))
-----------------------------------------------------------------------------
(* The writer                                                              *)
Interned(table, item) == IF Contains(table, item) THEN table ELSE Append(table, item)
IndexIn(table, item) == SelectInSeq(table, LAMBDA entry : entry = item) - 1
OffsetOf(entries, n) == Len(FlattenSeq(SubSeq(entries, 1, n - 1)))
Offsets(entries, bytes) == LEs([n \in DOMAIN entries |-> OffsetOf(entries, n)], bytes)
PoolSection(entries, bytes) ==
    LET count == VarInt(Len(entries))
    IN  count \o Padding(Len(count), bytes) \o Offsets(entries, bytes) \o FlattenSeq(entries)
StringSection(strings) == PoolSection(strings, Int32Bytes)
TypeSection(types) == PoolSection(types, Int32Bytes)
(* no constants, no section                                                *)
ConstantSection(constants) == IF constants = <<>> THEN <<>> ELSE PoolSection(constants, Int64Bytes)

(* Bytes written so far, with the tables their indices point into          *)
EmptyWriter == [ok |-> TRUE, out |-> <<>>, strings |-> <<>>, types |-> <<>>, constants |-> <<>>, debug |-> <<>>]
Emit(w, bytes) == [w EXCEPT !.out = @ \o bytes]
EmitIndex(w, table, item) ==
    LET grown == [w EXCEPT ![table] = Interned(@, item)]
    IN  Emit(grown, VarInt(IndexIn(grown[table], item)))

-----------------------------------------------------------------------------
(* The reader                                                              *)
NoPool == [offsets |-> <<>>, data |-> <<>>]

(* the offsets are where the padding ends, and some byte is there          *)
ReadOffsets(data, at, count, bytes) ==
    IF at >= Len(data) THEN Failed
    ELSE Bind(ReadLEs(data, at, count, bytes), LAMBDA offsets, next :
            Got([offsets |-> offsets, data |-> SubSeq(data, next + 1, Len(data))], Len(data)))

(* parseStringSection, parseTypeSection                                    *)
ReadPool(data) ==
    Bind(ReadVarInt(data, 0), LAMBDA count, at :
        IF count = 0 THEN Got(NoPool, at)
        ELSE IF count > (Len(data) - at) \div Int32Bytes THEN Failed
        ELSE Bind(SkipPadding(data, at, Int32Bytes), LAMBDA none, next :
                ReadOffsets(data, next, count, Int32Bytes)))

(* getString: differences and ends of 32 bits, cut to the data there is    *)
StringAt(pool, n) ==
    LET start == pool.offsets[n + 1]
        end == IF n + 1 < Len(pool.offsets) THEN pool.offsets[n + 2] ELSE Len(pool.data) % Word32
    IN  SubSeq(pool.data, start + 1, Min({Len(pool.data), start + ((end - start) % Word32)}))

(* LazyTypeTable::getType: the bytes of a type, none if they are not there *)
TypeAt(pool, n) ==
    LET start == pool.offsets[n + 1]
        end == IF n + 1 < Len(pool.offsets) THEN pool.offsets[n + 2] ELSE Len(pool.data) % Word32
    IN  IF end < start \/ end > Len(pool.data) THEN <<>> ELSE SubSeq(pool.data, start + 1, end)

(* parseConstantSection: every constant is cut out at once                 *)
ReadConstants(data) ==
    LET End(pool, n) == IF n < Len(pool.offsets) THEN pool.offsets[n + 1] ELSE Len(pool.data)
        Cut(pool) ==
            IF \A n \in DOMAIN pool.offsets : pool.offsets[n] <= End(pool, n) /\ End(pool, n) <= Len(pool.data)
            THEN Got([n \in DOMAIN pool.offsets |-> SubSeq(pool.data, pool.offsets[n] + 1, End(pool, n))], Len(data))
            ELSE Failed
    IN  IF data = <<>> THEN Got(<<>>, 0)
        ELSE Bind(ReadVarInt(data, 0), LAMBDA count, at :
                IF count = 0 THEN Got(<<>>, at)
                ELSE IF count > Word32 - 2 THEN Failed
                ELSE Bind(SkipPadding(data, at, Int64Bytes), LAMBDA none, next :
                        IF (Len(data) - next) \div Int64Bytes < count THEN Failed
                        ELSE Bind(ReadOffsets(data, next, count, Int64Bytes), LAMBDA pool, end : Cut(pool))))
=============================================================================
