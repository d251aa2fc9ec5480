----------------------------- MODULE Encodings ------------------------------
(***************************************************************************)
(* How EncodingWriter writes numbers and EncodingReader reads them back,   *)
(* with the widths as parameters: a byte carries Payload bits and one that *)
(* says whether more follow, a word has WordBits.  The position of a       *)
(* reader is the number of bytes before it; what it reads is a record      *)
(* [ok, val, at] with the position after.                                  *)
(***************************************************************************)
EXTENDS Integers, Sequences, SequencesExt, FiniteSets, FiniteSetsExt

CONSTANTS
    Payload,      \* 7
    WordBits,     \* 64
    Int32Bytes,   \* 4, also the alignment of a uint32_t
    Int64Bytes    \* 8, also the alignment of a uint64_t

ASSUME WidthsAssumption ==
    /\ {Payload, WordBits, Int32Bytes, Int64Bytes} \subseteq Nat \ {0}
    /\ Payload < WordBits

More == 2 ^ Payload
Byte == 2 * More
Word == 2 ^ WordBits
MaxBytes == (WordBits + Payload - 1) \div Payload
AlignmentByte == Byte - 1

-----------------------------------------------------------------------------
(* EncodingWriter                                                          *)
VarInt(n) ==
    LET bytes[m \in 0..n] ==
            IF m < More THEN <<m>> ELSE <<(m % More) + More>> \o bytes[m \div More]
    IN  bytes[n]
ZigZag(v) == IF v < Word \div 2 THEN 2 * v ELSE 2 * (Word - v) - 1
LE(v, bytes) == [k \in 1..bytes |-> (v \div (Byte ^ (k - 1))) % Byte]
LEs(values, bytes) == FlattenSeq([n \in DOMAIN values |-> LE(values[n], bytes)])
LEVarSize(values, bytes) == VarInt(Len(values)) \o LEs(values, bytes)
Padding(at, alignment) == [k \in 1..((-at) % alignment) |-> AlignmentByte]

(* writeAPInt, for the widths the types of the dialect have               *)
APInt(v, width) == IF width <= Payload + 1 THEN <<v>> ELSE VarInt(ZigZag(v))

-----------------------------------------------------------------------------
(* EncodingReader                                                          *)
Failed == [ok |-> FALSE, val |-> 0, at |-> 0]
Got(v, at) == [ok |-> TRUE, val |-> v, at |-> at]
Bind(r, Next(_, _)) == IF r.ok THEN Next(r.val, r.at) ELSE Failed
Checked(r, Test(_)) == IF r.ok /\ Test(r.val) THEN r ELSE Failed

(* A byte of at most MaxBytes ends a varint; the bits the last one has     *)
(* beyond the word are shifted out.                                        *)
ReadVarInt(data, at) ==
    LET ends == {k \in 1..MaxBytes : at + k <= Len(data) /\ data[at + k] < More}
        sum[k \in 0..MaxBytes] ==
            IF k = 0 THEN 0 ELSE (sum[k - 1] + (data[at + k] % More) * (More ^ (k - 1))) % Word
    IN  IF ends = {} THEN Failed ELSE Got(sum[Min(ends)], at + Min(ends))
UnZigZag(u) == IF u % 2 = 0 THEN u \div 2 ELSE Word - 1 - (u \div 2)
ReadSignedVarInt(data, at) == Bind(ReadVarInt(data, at), LAMBDA u, next : Got(UnZigZag(u), next))
ReadLE(data, at, bytes) ==
    LET sum[k \in 0..bytes] ==
            IF k = 0 THEN 0 ELSE sum[k - 1] + data[at + k] * (Byte ^ (k - 1))
    IN  IF at + bytes > Len(data) THEN Failed ELSE Got(sum[bytes], at + bytes)
ReadLEs(data, at, count, bytes) ==
    IF at + count * bytes > Len(data) THEN Failed
    ELSE Got([n \in 1..count |-> ReadLE(data, at + (n - 1) * bytes, bytes).val], at + count * bytes)
ReadLEVarSize(data, at, bytes) ==
    Bind(ReadVarInt(data, at), LAMBDA size, next : ReadLEs(data, next, size, bytes))
ReadBytes(data, at, size) ==
    IF size > Len(data) - at THEN Failed ELSE Got(SubSeq(data, at + 1, at + size), at + size)
SkipPadding(data, at, alignment) ==
    LET padding == (-at) % alignment
    IN  IF alignment >= 2 /\ (at = Len(data) \/ Len(data) - at < padding) THEN Failed
        ELSE Got(0, at + padding)

(* parseAPInt                                                              *)
ReadAPInt(data, at, width) ==
    Checked(IF width <= Payload + 1 THEN ReadLE(data, at, 1) ELSE ReadSignedVarInt(data, at),
            LAMBDA v : v < 2 ^ width)
=============================================================================
