-------------------------- MODULE AttributeFields ---------------------------
(***************************************************************************)
(* The serialisers of the dialect's structured attributes that             *)
(* cuda-tile-tblgen generates, and the map from an attribute to the oldest *)
(* version that has it.  An attribute value in use is an enum case, with   *)
(* the version it came in, a structured attribute with the optional        *)
(* parameters it has, or anything else, which is as old as the format.     *)
(***************************************************************************)
EXTENDS TypeFields

CONSTANTS
    AttrDecls,      \* by name: [since, params, requiredFirst], params being a
                    \* sequence of [name, optional, since]
    Values,         \* the attribute values in use, by name:
                    \* [kind, since, decl, has, type]
    FallbackValue   \* the value that every default stands for

(* "enum": since is the case's version; "record": decl and the optional    *)
(* parameters in has; "data": nothing but, perhaps, a type.                *)
AttrParamAccepted(d, p) == Evolved(d, p) => p.optional
AttrsAccepted ==
    \A a \in DOMAIN AttrDecls :
        /\ AttrDecls[a].since \in Supported /\ AttrDecls[a].requiredFirst \in BOOLEAN
        /\ FieldsAccepted(AttrDecls[a].params, AttrDecls[a].since)
        /\ \A p \in ToSet(AttrDecls[a].params) : AttrParamAccepted(AttrDecls[a], p)
(* That a parameter that came later is not the first optional one and that *)
(* those that did came all at once, nothing insists on; the analysis asks  *)
(* for the version of the first that is there.                             *)
AttrParamUnforced(d, n) ==
    Evolved(d, d.params[n]) =>
        /\ \E m \in 1..(n - 1) : d.params[m].optional
        /\ \A m \in DOMAIN d.params :
                d.params[m].optional /\ (m > n \/ Evolved(d, d.params[m]))
                    => d.params[m].since = d.params[n].since
ASSUME AttributesAssumption ==
    /\ AttrsAccepted
    /\ \A a \in DOMAIN AttrDecls : \A n \in DOMAIN AttrDecls[a].params :
            AttrParamUnforced(AttrDecls[a], n)

(* A value in use; a structured one is what its parameters are.            *)
ValueAccepted(v) ==
    \/ Values[v].kind = "data"
    \/ Values[v].kind = "enum" /\ Values[v].since \in Supported
    \/ /\ Values[v].kind = "record" /\ Values[v].decl \in DOMAIN AttrDecls
       /\ Values[v].has \subseteq
            {p.name : p \in {q \in ToSet(AttrDecls[Values[v].decl].params) : q.optional}}
       /\ \A w \in DOMAIN Values :
            /\ Values[w].kind = "record"
            /\ Values[w].decl = Values[v].decl /\ Values[w].has = Values[v].has
            => w = v
ASSUME ValuesAssumption ==
    /\ \A v \in DOMAIN Values : ValueAccepted(v)
    /\ FallbackValue \in DOMAIN Values /\ Values[FallbackValue].kind = "data"

AttrDecl(v) == AttrDecls[Values[v].decl]
IsRecord(v) == Values[v].kind = "record"
TypesIn(v) == {Values[v].type} \cap DOMAIN Types
AttrOptionals(d) == Optionals(d.params)
AttrRequired(d) == Required(d.params)

-----------------------------------------------------------------------------
(* Writing a value: writeOpAttribute, and the data of a structured one.    *)
AttrFlagTokens(v) ==
    LET order == AttrOptionals(AttrDecl(v))
    IN IF order = <<>> THEN <<>>
       ELSE <<Token("flags", {n \in DOMAIN order : order[n].name \in Values[v].has})>>
AttrParamTokens(v, p) ==
    IF p.optional /\ p.name \notin Values[v].has THEN <<>> ELSE <<Token("param", p.name)>>
RecordTokens(v) ==
    LET d == AttrDecl(v)
        required == Concat(LAMBDA p : AttrParamTokens(v, p), AttrRequired(d))
        optional == Concat(LAMBDA p : AttrParamTokens(v, p), AttrOptionals(d))
    IN (IF d.requiredFirst THEN required \o AttrFlagTokens(v)
                           ELSE AttrFlagTokens(v) \o required) \o optional

ValueTokens(v) ==
    IF IsRecord(v) THEN <<Token("record", Values[v].decl)>> \o RecordTokens(v)
    ELSE <<Token("value", v)>>

(* isEnumValueAvailableInVersion, and the checks of a structured attribute *)
AttrParamRefused(v, p, target) ==
    Evolved(AttrDecl(v), p) /\ target < p.since /\ p.name \in Values[v].has
EnumRefused(v, target) == Values[v].kind = "enum" /\ target < Values[v].since
RecordRefused(v, target) ==
    /\ IsRecord(v)
    /\ \/ target < AttrDecl(v).since
       \/ \E p \in ToSet(AttrDecl(v).params) : AttrParamRefused(v, p, target)
ValueRefused(v, target) == EnumRefused(v, target) \/ RecordRefused(v, target)

-----------------------------------------------------------------------------
(* Reading, by a release that knows the parameters params.                 *)
ReadAttrParam(params, s, p) ==
    IF p.optional /\ Bit(p, Optionals(params)) \notin s.flags THEN s
    ELSE IF Sees(s, "param") /\ Head(s.rest).of = p.name
    THEN Keep(Past(s), p, p.name)
    ELSE Bad(s)
ReadAttrFlags(params, s) == IF Optionals(params) = <<>> THEN s ELSE ReadFlags(s)
ReadAttrParams(params, s, fields) ==
    ReadEach(LAMBDA q, p : ReadAttrParam(params, q, p), s, fields)

ReadRecord(decl, r, s) ==
    LET d == AttrDecls[decl]
        params == Known(d.params, r)
        front == [s EXCEPT !.got = <<>>]
        required == IF d.requiredFirst
                    THEN ReadAttrFlags(params, ReadAttrParams(params, front, Required(params)))
                    ELSE ReadAttrParams(params, ReadAttrFlags(params, front), Required(params))
    IN ReadAttrParams(params, required, Optionals(params))

(* The value read for the field f of an operation; a record is the value   *)
(* in use that has what was read.                                          *)
ReadValue(s, f, r) ==
    IF Sees(s, "record")
    THEN LET decl == Head(s.rest).of
             end == ReadRecord(decl, r, Past(s))
             same == {v \in DOMAIN Values : /\ IsRecord(v) /\ Values[v].decl = decl
                                            /\ Values[v].has = DOMAIN end.got
                                                    \ {p.name : p \in ToSet(AttrRequired(AttrDecls[decl]))}}
         IN IF end.ok /\ same # {}
            THEN [Keep(s, f, CHOOSE v \in same : TRUE) EXCEPT !.rest = end.rest]
            ELSE Bad(s)
    ELSE ReadField(s, "value", f)

-----------------------------------------------------------------------------
(* getAttrMinVersionRecursive: the attribute, its enum case, and the first *)
(* of its later parameters that is there; nothing about a type in it.      *)
ParamVersion(v) ==
    LET later == Kept(AttrDecl(v).params, {p \in ToSet(AttrDecl(v).params) :
                        Evolved(AttrDecl(v), p) /\ p.name \in Values[v].has})
    IN IF later = <<>> THEN 1 ELSE Head(later).since
EnumVersion(v) == IF Values[v].kind = "enum" THEN Values[v].since ELSE 1
RecordVersion(v) == IF IsRecord(v) THEN AttrDecl(v).since ELSE 1
ValueVersion(v) ==
    Max({EnumVersion(v), RecordVersion(v), IF IsRecord(v) THEN ParamVersion(v) ELSE 1})
=============================================================================
