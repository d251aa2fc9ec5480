----------------------------- MODULE TypeFields -----------------------------
(***************************************************************************)
(* The serialisers of types that cuda-tile-tblgen generates, and the map   *)
(* from a type to the oldest version that has it.  The optional parameters *)
(* of a type are announced by one bit field from 13.3 on; before, only an  *)
(* enum parameter could be optional, with a presence byte of its own.      *)
(***************************************************************************)
EXTENDS Fields

CONSTANTS
    TypeDecls,  \* by name: [since, params, reversed], params being a sequence
                \* of [name, kind, optional, since]
    Types,      \* the types in use, by name: [decl, args], args giving the
                \* parameters that are not null
    Cases,      \* the enum cases: the version each came in
    Default     \* the default value of a data parameter

(* classifyParameter: what a parameter holds decides how it is written.    *)
ParamKinds == {"data", "type", "enum"}
CarriesType(p) == p.kind = "type"
CarriesVersion(p) == p.kind = "enum"

Evolved(d, p) == p.since # d.since
FirstOptional(d) == Min({p.since : p \in {q \in ToSet(d.params) : q.optional}})
HasOptional(d) == \E p \in ToSet(d.params) : p.optional

(* getSerializationOrder: a TileType is written back to front.             *)
Order(d) == IF d.reversed THEN Reverse(d.params) ELSE d.params

(* What the generator insists on.                                          *)
HasDefault(p) == p.kind = "data"
ParamAccepted(d, p) ==
    /\ p.kind \in ParamKinds
    /\ ~p.optional /\ Evolved(d, p) => HasDefault(p)
    /\ p.optional => p.kind = "enum" \/ CarriesType(p)
TypesAccepted ==
    \A t \in DOMAIN TypeDecls :
        /\ TypeDecls[t].since \in Supported
        /\ FieldsAccepted(TypeDecls[t].params, TypeDecls[t].since)
        /\ \A p \in ToSet(TypeDecls[t].params) : ParamAccepted(TypeDecls[t], p)

(* What holds of the declarations there are though nothing insists on it:  *)
(* an optional type belongs to a type not older than the unified bit       *)
(* field, a parameter that came later and is optional came no earlier than *)
(* the bit field and stands behind the older ones in the order of          *)
(* serialisation.                                                          *)
Unforced(d, n) ==
    LET p == Order(d)[n] IN
    /\ p.optional /\ CarriesType(p) => d.since >= Unified
    /\ p.optional /\ Evolved(d, p) => p.since >= Unified
    /\ p.optional => \A m \in 1..(n - 1) : Order(d)[m].optional => Order(d)[m].since <= p.since
ASSUME TypesAssumption ==
    /\ TypesAccepted
    /\ \A t \in DOMAIN TypeDecls : \A n \in DOMAIN TypeDecls[t].params : Unforced(TypeDecls[t], n)

(* A type in use has the parameters of its declaration and only those, and *)
(* a type in it is in use too.  An enum case in it is no newer than the    *)
(* parameter that holds it, and as new as one that came later: that, too,  *)
(* nothing insists on, the type writer does not ask for a case's version.  *)
TypeValueAccepted(t, p) ==
    LET args == Types[t].args
    IN /\ p.name \in DOMAIN args \/ p.optional
       /\ p.kind = "type" /\ p.name \in DOMAIN args => args[p.name] \in DOMAIN Types
       /\ p.kind = "enum" /\ p.name \in DOMAIN args
            => /\ Cases[args[p.name]] \in 1..p.since
               /\ Evolved(TypeDecls[Types[t].decl], p) => Cases[args[p.name]] = p.since
ASSUME TypeValuesAssumption ==
    /\ IsFiniteSet(DOMAIN Types)
    /\ \A t \in DOMAIN Types :
        /\ Types[t].decl \in DOMAIN TypeDecls
        /\ DOMAIN Types[t].args \subseteq {p.name : p \in ToSet(TypeDecls[Types[t].decl].params)}
        /\ \A p \in ToSet(TypeDecls[Types[t].decl].params) : TypeValueAccepted(t, p)

Decl(t) == TypeDecls[Types[t].decl]
Args(t) == Types[t].args
Has(t, p) == p.name \in DOMAIN Args(t)

-----------------------------------------------------------------------------
(* Writing.  The flags are there from the later of two versions on: the    *)
(* one the first optional parameter came in and the unified bit field's.   *)
TypeHasFlags(d, v) ==
    /\ HasOptional(d)
    /\ FirstOptional(d) = d.since \/ v >= FirstOptional(d)
    /\ d.since >= Unified \/ v >= Unified

TypeFlagTokens(t, v) ==
    IF TypeHasFlags(Decl(t), v)
    THEN LET order == Optionals(Order(Decl(t)))
         IN <<Token("flags", {n \in DOMAIN order : Has(t, order[n])})>>
    ELSE <<>>

TypeParamTokens(t, p, v) ==
    LET value == IF Has(t, p) THEN <<Token(p.kind, Args(t)[p.name])>> ELSE <<>>
    IN IF Evolved(Decl(t), p) /\ v < p.since THEN <<>>
       ELSE IF p.kind = "enum" /\ p.optional /\ v < Unified
       THEN <<Token("presence", Has(t, p))>> \o value
       ELSE value

TypeTag(t) == Types[t].decl
TypeData(t, v) ==
    TypeFlagTokens(t, v)
        \o Concat(LAMBDA p : TypeParamTokens(t, p, v), Order(Decl(t)))
TypeTokens(t, v) == <<Token("tag", TypeTag(t))>> \o TypeData(t, v)

(* The type came later, or a parameter that did is not null, or not its    *)
(* default.                                                                *)
ParamRefused(t, p, v) ==
    /\ Evolved(Decl(t), p) /\ v < p.since
    /\ IF p.optional THEN Has(t, p) ELSE Args(t)[p.name] # Default
TypeRefused(t, v) ==
    \/ v < Decl(t).since
    \/ \E p \in ToSet(Decl(t).params) : ParamRefused(t, p, v)

(* Before a type is written its parts are in the type table.               *)
PartsOf(t) == {Args(t)[p.name] : p \in {q \in ToSet(Decl(t).params) :
                                            CarriesType(q) /\ Has(t, q)}}
Registered(ts) ==
    LET closed[n \in Nat] ==
            IF n = 0 THEN ts
            ELSE LET before == closed[n - 1] IN before \cup UNION {PartsOf(t) : t \in before}
    IN closed[Cardinality(DOMAIN Types)]

-----------------------------------------------------------------------------
(* Reading, by a release that knows the declaration d, of version v.       *)
ReadTypeFlags(d, v, s) ==
    IF HasOptional(d) /\ v >= FirstOptional(d) /\ (d.since >= Unified \/ v >= Unified)
    THEN ReadFlags(s)
    ELSE s

ReadEnum(s, p, v) ==
    IF v >= Unified THEN ReadField(s, p.kind, p)
    ELSE IF ~Sees(s, "presence") THEN Bad(s)
    ELSE IF Head(s.rest).of THEN ReadField(Past(s), p.kind, p) ELSE Past(s)
ReadParam(s, p, v) ==
    IF p.kind = "enum" /\ p.optional THEN ReadEnum(s, p, v) ELSE ReadField(s, p.kind, p)

ReadTypeParam(d, v, s, p) ==
    LET flagged == Bit(p, Optionals(Order(d))) \in s.flags
    IN IF p.optional
       THEN IF flagged \/ (~Evolved(d, p) /\ v < Unified /\ d.since < Unified)
            THEN ReadParam(s, p, v) ELSE s
       ELSE IF Evolved(d, p) /\ v < p.since THEN Keep(s, p, Default)
       ELSE ReadParam(s, p, v)

ReadTypeData(d, v, s) ==
    IF v < d.since THEN Bad(s)
    ELSE ReadEach(LAMBDA q, p : ReadTypeParam(d, v, q, p), ReadTypeFlags(d, v, s), Order(d))

(* By the tag, if the release that reads knows it; of its parameters it    *)
(* knows the older ones, in the order of serialisation.                    *)
KnownType(tag, r) ==
    [since |-> TypeDecls[tag].since, params |-> Known(Order(TypeDecls[tag]), r), reversed |-> FALSE]
ReadType(release, tokens, v) ==
    LET s == Start(tokens)
        tag == Head(tokens).of
        end == ReadTypeData(KnownType(tag, release), v, Past(s))
    IN IF Sees(s, "tag") /\ TypeDecls[tag].since <= release
       THEN [ok |-> end.ok /\ end.rest = <<>>, decl |-> tag, args |-> end.got]
       ELSE [ok |-> FALSE, decl |-> tag, args |-> <<>>]

-----------------------------------------------------------------------------
(* getTypeMinVersionRecursive: the type, the types in it and the           *)
(* attributes in it, not the parameters' own versions.                     *)
OwnVersions(t) ==
    {Decl(t).since} \cup {Cases[Args(t)[p.name]] :
        p \in {q \in ToSet(Decl(t).params) : CarriesVersion(q) /\ Has(t, q)}}
TypeVersion[t \in DOMAIN Types] == Max(UNION {OwnVersions(u) : u \in Registered({t})})
=============================================================================
