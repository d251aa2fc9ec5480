------------------------------- MODULE Fields -------------------------------
(***************************************************************************)
(* What the generated serialisers of operations, types and attributes      *)
(* share.  A declaration in the .td files is a list of fields, each with   *)
(* the bytecode version it came in; versions 13.1, 13.2, ... are 1, 2, ... *)
(* A release of the library knows the fields up to its own version.  What  *)
(* is written is a sequence of tokens: a token stands for the bytes one    *)
(* write call emits, and a reader that finds another token than the one it *)
(* expects is a reader that misparses the rest.                            *)
(***************************************************************************)
EXTENDS Selection, Integers, Sequences, SequencesExt, FiniteSets, FiniteSetsExt, TLC

CONSTANTS
    Latest,     \* BytecodeVersion::kCurrentVersion; kMinSupportedVersion is 1
    Unified     \* BytecodeVersion::kUnifiedBitfieldVersion

ASSUME VersionsAssumption ==
    /\ Latest \in Nat \ {0}
    /\ Unified \in 1..Latest

Supported == 1..Latest

(* What TableGen and MLIR insist on for the fields of one declaration: no   *)
(* two have the same name, and none is older than the declaration.         *)
FieldsAccepted(fields, since) ==
    /\ fields \in Seq(ToSet(fields))
    /\ \A n, m \in DOMAIN fields : fields[n].name = fields[m].name => n = m
    /\ \A f \in ToSet(fields) : f.since \in since..Latest /\ f.optional \in BOOLEAN

Known(fields, r) == Kept(fields, {f \in ToSet(fields) : f.since <= r})
Optionals(fields) == Kept(fields, {f \in ToSet(fields) : f.optional})
Required(fields) == Kept(fields, {f \in ToSet(fields) : ~f.optional})
Bit(f, order) == CHOOSE n \in DOMAIN order : order[n].name = f.name

Token(tag, of) == [tag |-> tag, of |-> of]
Concat(tokens(_), fields) == FlattenSeq([n \in DOMAIN fields |-> tokens(fields[n])])

(* A reader's state: the tokens left, whether they still make sense, the   *)
(* last flags field and the fields it has, by name.                        *)
Start(tokens) == [rest |-> tokens, ok |-> TRUE, flags |-> {}, got |-> <<>>]
Sees(s, tag) == s.ok /\ s.rest # <<>> /\ Head(s.rest).tag = tag
Bad(s) == [s EXCEPT !.ok = FALSE]
Past(s) == [s EXCEPT !.rest = Tail(@)]
Extended(f, g) == [x \in DOMAIN f \cup DOMAIN g |-> IF x \in DOMAIN f THEN f[x] ELSE g[x]]
Keep(s, f, value) == [s EXCEPT !.got = Extended(@, [name \in {f.name} |-> value])]

(* A reader takes the fields in turn.                                      *)
ReadEach(readField(_, _), s, fields) ==
    LET after[n \in 0..Len(fields)] ==
            IF n = 0 THEN s ELSE readField(after[n - 1], fields[n])
    IN after[Len(fields)]

ReadFlags(s) ==
    IF Sees(s, "flags") THEN [Past(s) EXCEPT !.flags = Head(s.rest).of] ELSE Bad(s)
ReadField(s, tag, f) ==
    IF Sees(s, tag) THEN Keep(Past(s), f, Head(s.rest).of) ELSE Bad(s)
=============================================================================
