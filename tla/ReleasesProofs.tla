--------------------------- MODULE ReleasesProofs ---------------------------
(***************************************************************************)
(* Releases for any declarations, types, attribute values and modules that *)
(* obey the assumptions.  The declarations are lists of fields, so most of *)
(* what is said here is said of a list and of what is kept of it; the      *)
(* modules of OperationFields come as lemmas about one operation, and the  *)
(* invariants of Releases relate the operations to each other: first what  *)
(* a version is told from, then what the file holds and what a release     *)
(* makes of it.                                                            *)
(***************************************************************************)
EXTENDS Releases, SequenceFacts, FiniteSetTheorems, FunctionTheorems

(* The greatest and the least of a set of numbers.                         *)
Bounded(S) == S # {} /\ \E N \in Nat : S \subseteq 0..N

IsMax(m, S) == m \in S /\ \A x \in S : x <= m

LEMMA MaxIs ==
    ASSUME NEW S, Bounded(S)
    PROVE  IsMax(Max(S), S)
  <1>0. PICK N \in Nat : S \subseteq 0..N /\ S # {}
    BY DEF Bounded
  <1>1. PICK B : B = {n \in Nat : \E x \in S : n = N - x}
    OBVIOUS
  <1>2. B \subseteq Nat /\ B # {}
    <2>1. PICK x \in S : x \in 0..N
      BY <1>0
    <2>2. N - x \in B
      BY <1>1, <2>1
    <2> QED BY <1>1, <2>2
  <1>3. PICK b \in B : \A c \in B : b <= c
    BY <1>2, LeastElement
  <1>4. PICK x \in S : b = N - x
    BY <1>1
  <1>5. ASSUME NEW y \in S PROVE x >= y
    <2>0. y \in 0..N /\ x \in 0..N
      BY <1>0
    <2>1. N - y \in B
      BY <1>1, <2>0
    <2>2. b <= N - y
      BY <1>3, <2>1
    <2> QED BY <1>4, <2>0, <2>2
  <1>6. PICK m : m = Max(S)
    OBVIOUS
  <1>7. m \in S /\ \A y \in S : m >= y
    <2>1. m = CHOOSE x_1 \in S : \A y \in S : x_1 >= y
      BY <1>6 DEF Max
    <2> QED BY <1>5, <2>1, Zenon
  <1>8. \A y \in S : y <= m
    BY <1>0, <1>7
  <1> QED BY <1>6, <1>7, <1>8 DEF IsMax

LEMMA MinIs ==
    ASSUME NEW S, S \subseteq Nat, S # {}
    PROVE  Min(S) \in S /\ \A x \in S : Min(S) <= x
  <1>1. PICK b \in S : \A c \in S : b <= c
    BY LeastElement
  <1>2. PICK m : m = Min(S)
    OBVIOUS
  <1>3. m \in S /\ \A y \in S : m =< y
    <2>1. m = CHOOSE x \in S : \A y \in S : x =< y
      BY <1>2 DEF Min
    <2> QED BY <1>1, <2>1, Zenon
  <1> QED BY <1>2, <1>3

-----------------------------------------------------------------------------
(* The declaration of a type in use.                                       *)
LEMMA FieldFacts ==
    ASSUME NEW fields, NEW since, FieldsAccepted(fields, since)
    PROVE  /\ IsSeq(fields)
           /\ \A f \in ToSet(fields) : f.since \in since..Latest /\ f.optional \in BOOLEAN
           /\ \A f, g \in ToSet(fields) : f.name = g.name => f = g
  <1>1. fields \in Seq(ToSet(fields)) /\ DOMAIN fields = 1..Len(fields)
    BY LenProperties DEF FieldsAccepted
  <1>2. \A f, g \in ToSet(fields) : f.name = g.name => f = g
    BY DEF FieldsAccepted, ToSet
  <1>3. \A f \in ToSet(fields) : f.since \in since..Latest /\ f.optional \in BOOLEAN
    BY DEF FieldsAccepted
  <1> QED BY <1>1, <1>2, <1>3 DEF IsSeq

LEMMA TypeFacts ==
    ASSUME NEW t \in DOMAIN Types
    PROVE  /\ Decl(t).since \in Supported
           /\ FieldsAccepted(Decl(t).params, Decl(t).since)
           /\ DOMAIN Args(t) \subseteq {p.name : p \in ToSet(Decl(t).params)}
           /\ \A p \in ToSet(Decl(t).params) :
                /\ ParamAccepted(Decl(t), p) /\ TypeValueAccepted(t, p)
                /\ p.since \in Decl(t).since..Latest
  <1>1. PICK d : d = Types[t].decl
    OBVIOUS
  <1>2. d \in DOMAIN TypeDecls /\ Decl(t) = TypeDecls[d]
    BY <1>1, TypeValuesAssumption DEF Decl
  <1>3. /\ TypeDecls[d].since \in Supported
        /\ FieldsAccepted(TypeDecls[d].params, TypeDecls[d].since)
        /\ \A p \in ToSet(TypeDecls[d].params) : ParamAccepted(TypeDecls[d], p)
    BY <1>2, TypesAssumption DEF TypesAccepted
  <1>4. /\ DOMAIN Args(t) \subseteq {p.name : p \in ToSet(TypeDecls[d].params)}
        /\ \A p \in ToSet(TypeDecls[d].params) : TypeValueAccepted(t, p)
    BY <1>1, TypeValuesAssumption DEF Args
  <1>5. \A p \in ToSet(TypeDecls[d].params) : p.since \in TypeDecls[d].since..Latest
    BY <1>3, FieldFacts
  <1> QED BY <1>2, <1>3, <1>4, <1>5

LEMMA PartsInUse ==
    ASSUME NEW t \in DOMAIN Types
    PROVE  PartsOf(t) \in SUBSET DOMAIN Types
  <1>1. ASSUME NEW p \in ToSet(Decl(t).params), CarriesType(p), Has(t, p)
        PROVE  Args(t)[p.name] \in DOMAIN Types
    <2>1. TypeValueAccepted(t, p)
      BY TypeFacts
    <2>2. p.kind = "type" /\ p.name \in DOMAIN Types[t].args
      BY <1>1 DEF CarriesType, Has, Args
    <2>3. Types[t].args[p.name] \in DOMAIN Types
      BY <2>1, <2>2 DEF TypeValueAccepted
    <2> QED BY <2>3 DEF Args
  <1> QED BY <1>1 DEF PartsOf

(* What is registered with a set of types, step by step.                   *)
Closes(f, ts) ==
    /\ f \in [Nat -> SUBSET DOMAIN Types]
    /\ f[0] = ts
    /\ \A n \in Nat : f[n + 1] = f[n] \cup UNION {PartsOf(t) : t \in f[n]}
    /\ Registered(ts) = f[Cardinality(DOMAIN Types)]

LEMMA RegisteredIs ==
    ASSUME NEW ts
    PROVE  Registered(ts) =
              (CHOOSE f : f = [n \in Nat |->
                    IF n = 0 THEN ts
                    ELSE f[n - 1] \cup UNION {PartsOf(t) : t \in f[n - 1]}])
                [Cardinality(DOMAIN Types)]
  BY Zenon DEF Registered

LEMMA Closed ==
    ASSUME NEW ts, ts \in SUBSET DOMAIN Types
    PROVE  \E f : Closes(f, ts)
  <1>1. PICK V : V = SUBSET DOMAIN Types
    OBVIOUS
  <1>2. PICK step : step = [s \in V |-> s \cup UNION {PartsOf(t) : t \in s}]
    OBVIOUS
  <1>3. step \in [V -> V] /\ \A s \in V : step[s] = s \cup UNION {PartsOf(t) : t \in s}
    <2>1. ASSUME NEW s \in V PROVE s \cup UNION {PartsOf(t) : t \in s} \in V
      BY <1>1, PartsInUse
    <2> QED BY <1>2, <2>1
  <1>a. ts \in V /\ step \in [V -> V]
    BY <1>1, <1>3
  <1>4. PICK f \in [Nat -> V] : f[0] = ts /\ \A n \in Nat : f[n + 1] = step[f[n]]
    <2> HIDE <1>3
    <2> QED BY <1>a, RecursionExists
  <1>5. \A n \in Nat : f[n + 1] = f[n] \cup UNION {PartsOf(t) : t \in f[n]}
    BY <1>3, <1>4
  <1>6. f = [n \in Nat |-> IF n = 0 THEN ts
                           ELSE f[n - 1] \cup UNION {PartsOf(t) : t \in f[n - 1]}]
    <2>1. ASSUME NEW n \in Nat, n # 0
          PROVE  f[n] = f[n - 1] \cup UNION {PartsOf(t) : t \in f[n - 1]}
      <3>1. PICK m \in Nat : m = n - 1 /\ m + 1 = n
        BY <2>1
      <3> QED BY <1>5, <3>1
    <2>2. f = [n \in Nat |-> f[n]]
      BY <1>4
    <2> QED BY <1>4, <2>1, <2>2
  <1>7. PICK h : h = CHOOSE g : g = [n \in Nat |-> IF n = 0 THEN ts
                           ELSE g[n - 1] \cup UNION {PartsOf(t) : t \in g[n - 1]}]
    OBVIOUS
  <1>8. h = [n \in Nat |-> IF n = 0 THEN ts
                           ELSE h[n - 1] \cup UNION {PartsOf(t) : t \in h[n - 1]}]
    BY <1>6, <1>7, Zenon
  <1>9. Registered(ts) = h[Cardinality(DOMAIN Types)]
    BY <1>7, RegisteredIs, Zenon
  <1>10. h[0] = ts
    BY <1>8
  <1>11. ASSUME NEW n \in Nat
         PROVE  h[n + 1] = h[n] \cup UNION {PartsOf(t) : t \in h[n]}
    <2>1. PICK m \in Nat : m = n + 1 /\ m # 0 /\ m - 1 = n
      OBVIOUS
    <2>2. h[m] = h[m - 1] \cup UNION {PartsOf(t) : t \in h[m - 1]}
      BY <1>8, <2>1
    <2> QED BY <2>1, <2>2
  <1>12. h \in [Nat -> SUBSET DOMAIN Types]
    <2> DEFINE R == {n \in Nat : h[n] \in V}
    <2>1. 0 \in R
      BY <1>1, <1>10
    <2>2. ASSUME NEW n \in Nat, n \in R PROVE n + 1 \in R
      <3>1. h[n + 1] = step[h[n]] /\ h[n] \in V
        BY <1>3, <1>11, <2>2
      <3>2. h[n + 1] \in V
        BY <1>3, <3>1
      <3> QED BY <3>2
    <2> HIDE DEF R
    <2>3. Nat \subseteq R
      BY <2>1, <2>2, InductionOn
    <2>4. \A n \in Nat : h[n] \in SUBSET DOMAIN Types
      BY <1>1, <2>3 DEF R
    <2>5. h = [n \in Nat |-> h[n]]
      BY <1>8
    <2> QED BY <2>4, <2>5
  <1>13. Closes(h, ts)
    BY <1>9, <1>10, <1>11, <1>12 DEF Closes
  <1> QED BY <1>13

LEMMA Registering ==
    ASSUME NEW ts, ts \in SUBSET DOMAIN Types
    PROVE  /\ ts \subseteq Registered(ts) /\ Registered(ts) \in SUBSET DOMAIN Types
           /\ \A u : u \in Registered(ts) <=> \E t \in ts : u \in Registered({t})
  <1>1. PICK C : C = Cardinality(DOMAIN Types)
    OBVIOUS
  <1>2. C \in Nat
    BY <1>1, TypeValuesAssumption, FS_CardinalityType
  <1>3. PICK f : Closes(f, ts)
    BY Closed
  <1>4. /\ f \in [Nat -> SUBSET DOMAIN Types] /\ f[0] = ts /\ Registered(ts) = f[C]
        /\ \A n \in Nat : f[n + 1] = f[n] \cup UNION {PartsOf(t) : t \in f[n]}
    BY <1>1, <1>3 DEF Closes
  <1>5. \A n \in Nat : ts \subseteq f[n]
    <2> DEFINE R == {n \in Nat : ts \subseteq f[n]}
    <2>1. 0 \in R /\ \A n \in Nat : n \in R => n + 1 \in R
      BY <1>4
    <2> HIDE DEF R
    <2>2. Nat \subseteq R
      BY <2>1, InductionOn
    <2> QED BY <2>2 DEF R
  <1>6. PICK one : one = [t \in ts |-> CHOOSE h : Closes(h, {t})]
    OBVIOUS
  <1>7. \A t \in ts : Closes(one[t], {t})
    <2>1. ASSUME NEW t \in ts PROVE Closes(one[t], {t})
      <3>1. {t} \in SUBSET DOMAIN Types
        OBVIOUS
      <3>2. \E h : Closes(h, {t})
        BY <3>1, Closed
      <3>3. one[t] = CHOOSE h : Closes(h, {t})
        BY <1>6
      <3> QED BY <3>2, <3>3, Zenon
    <2> QED BY <2>1
  <1>8. \A t \in ts : /\ one[t][0] = {t} /\ Registered({t}) = one[t][C]
                      /\ \A n \in Nat : one[t][n + 1] = one[t][n] \cup UNION {PartsOf(u) : u \in one[t][n]}
    BY <1>1, <1>7 DEF Closes
  <1> DEFINE Good(n) == \A u : u \in f[n] <=> \E t \in ts : u \in one[t][n]
             R == {n \in Nat : Good(n)}
  <1>9. Good(0)
    <2>1. \A t \in ts : \A u : u \in one[t][0] <=> u = t
      BY <1>8
    <2>2. f[0] = ts
      BY <1>4
    <2> QED BY <2>1, <2>2
  <1>10. ASSUME NEW n \in Nat, Good(n) PROVE Good(n + 1)
    <2>1. \A u : u \in f[n + 1] <=> u \in f[n] \/ \E w \in f[n] : u \in PartsOf(w)
      BY <1>4
    <2>2. \A t \in ts : \A u : u \in one[t][n + 1] <=>
                u \in one[t][n] \/ \E w \in one[t][n] : u \in PartsOf(w)
      <3>1. ASSUME NEW t \in ts PROVE \A u : u \in one[t][n + 1] <=>
                u \in one[t][n] \/ \E w \in one[t][n] : u \in PartsOf(w)
        <4>1. PICK h : h = one[t]
          OBVIOUS
        <4>2. h[n + 1] = h[n] \cup UNION {PartsOf(u) : u \in h[n]}
          BY <1>8, <4>1
        <4>3. \A u : u \in h[n + 1] <=> u \in h[n] \/ \E w \in h[n] : u \in PartsOf(w)
          BY <4>2
        <4> QED BY <4>1, <4>3
      <3> QED BY <3>1
    <2>3. \A w : w \in f[n] <=> \E t \in ts : w \in one[t][n]
      BY <1>10
    <2>4. ASSUME NEW u PROVE u \in f[n + 1] <=> \E t \in ts : u \in one[t][n + 1]
      <3>1. ASSUME u \in f[n + 1] PROVE \E t \in ts : u \in one[t][n + 1]
        <4>1. PICK w \in f[n] : u = w \/ u \in PartsOf(w)
          BY <2>1, <3>1
        <4>2. PICK t \in ts : w \in one[t][n]
          BY <2>3, <4>1
        <4> QED BY <2>2, <4>1, <4>2
      <3>2. ASSUME NEW t \in ts, u \in one[t][n + 1] PROVE u \in f[n + 1]
        <4>1. PICK w \in one[t][n] : u = w \/ u \in PartsOf(w)
          BY <2>2, <3>2
        <4>2. w \in f[n]
          BY <2>3, <4>1
        <4> QED BY <2>1, <4>1, <4>2
      <3> QED BY <3>1, <3>2
    <2> QED BY <2>4
  <1> HIDE DEF Good
  <1>11. 0 \in R /\ \A n \in Nat : n \in R => n + 1 \in R
    BY <1>9, <1>10
  <1> HIDE DEF R
  <1>12. Nat \subseteq R
    BY <1>11, InductionOn
  <1>13. Good(C)
    BY <1>2, <1>12 DEF R
  <1>14. \A u : u \in Registered(ts) <=> \E t \in ts : u \in Registered({t})
    <2>1. \A u : u \in f[C] <=> \E t \in ts : u \in one[t][C]
      BY <1>13 DEF Good
    <2>2. \A t \in ts : one[t][C] = Registered({t})
      BY <1>8
    <2>3. Registered(ts) = f[C]
      BY <1>4
    <2>4. ASSUME NEW u PROVE u \in Registered(ts) <=> \E t \in ts : u \in Registered({t})
      <3>1. u \in Registered(ts) <=> \E t \in ts : u \in one[t][C]
        BY <2>1, <2>3
      <3>2. (\E t \in ts : u \in one[t][C]) => \E t \in ts : u \in Registered({t})
        BY <2>2
      <3>3. (\E t \in ts : u \in Registered({t})) => \E t \in ts : u \in one[t][C]
        BY <2>2
      <3> QED BY <3>1, <3>2, <3>3
    <2> QED BY <2>4
  <1>15. f[C] \in SUBSET DOMAIN Types /\ ts \subseteq f[C]
    BY <1>2, <1>4, <1>5
  <1> QED BY <1>4, <1>14, <1>15

-----------------------------------------------------------------------------
(* The version of a type is the greatest of its parts', its own among      *)
(* them.                                                                   *)
LEMMA OwnVersionsFacts ==
    ASSUME NEW t \in DOMAIN Types
    PROVE  OwnVersions(t) \subseteq 1..Latest /\ Decl(t).since \in OwnVersions(t)
  <1>1. ASSUME NEW p \in ToSet(Decl(t).params), CarriesVersion(p), Has(t, p)
        PROVE  Cases[Args(t)[p.name]] \in 1..Latest
    <2>1. TypeValueAccepted(t, p) /\ p.since \in Decl(t).since..Latest /\ Decl(t).since \in Supported
      BY TypeFacts
    <2>2. p.kind = "enum" /\ p.name \in DOMAIN Types[t].args
      BY <1>1 DEF CarriesVersion, Has, Args
    <2>3. Cases[Types[t].args[p.name]] \in 1..p.since
      BY <2>1, <2>2 DEF TypeValueAccepted
    <2>4. p.since \in Int /\ p.since <= Latest /\ Latest \in Nat
      BY <2>1, VersionsAssumption DEF Supported
    <2> QED BY <2>3, <2>4 DEF Args
  <1>2. Decl(t).since \in 1..Latest
    BY TypeFacts DEF Supported
  <1> QED BY <1>1, <1>2 DEF OwnVersions

LEMMA TypeVersionFacts ==
    ASSUME NEW t \in DOMAIN Types
    PROVE  /\ TypeVersion[t] \in 1..Latest
           /\ \A u \in Registered({t}) : \A v \in OwnVersions(u) : v <= TypeVersion[t]
           /\ \E u \in Registered({t}) : TypeVersion[t] \in OwnVersions(u)
  <1>1. {t} \in SUBSET DOMAIN Types
    OBVIOUS
  <1>2. t \in Registered({t}) /\ Registered({t}) \in SUBSET DOMAIN Types
    BY <1>1, Registering
  <1>3. PICK S : S = UNION {OwnVersions(u) : u \in Registered({t})}
    OBVIOUS
  <1>4. S \subseteq 1..Latest /\ S # {}
    BY <1>2, <1>3, OwnVersionsFacts
  <1>5. TypeVersion[t] = Max(S)
    BY <1>3 DEF TypeVersion
  <1>6. Latest \in Nat /\ S \subseteq 0..Latest
    BY <1>4, VersionsAssumption
  <1>7. Max(S) \in S /\ \A x \in S : x <= Max(S)
    <2>1. Bounded(S)
      BY <1>4, <1>6 DEF Bounded
    <2> QED BY <2>1, MaxIs DEF IsMax
  <1> QED BY <1>3, <1>4, <1>5, <1>7

(* What is refused is newer than the version, or has a parameter that is.  *)
LEMMA RefusedType ==
    ASSUME NEW t \in DOMAIN Types, NEW v \in Nat, TypeRefused(t, v)
    PROVE  \/ \E w \in OwnVersions(t) : v < w
           \/ \E p \in ToSet(Decl(t).params) : ~CarriesVersion(p) /\ ParamRefused(t, p, v)
  <1>1. CASE v < Decl(t).since
    BY <1>1, OwnVersionsFacts
  <1>2. ASSUME NEW p \in ToSet(Decl(t).params), ParamRefused(t, p, v), CarriesVersion(p)
        PROVE  \E w \in OwnVersions(t) : v < w
    <2>1. ParamAccepted(Decl(t), p) /\ TypeValueAccepted(t, p)
      BY TypeFacts
    <2>2. Evolved(Decl(t), p) /\ v < p.since /\ p.kind = "enum"
      BY <1>2 DEF ParamRefused, CarriesVersion
    <2>3. p.optional
      BY <2>1, <2>2 DEF ParamAccepted, HasDefault
    <2>4. Has(t, p)
      BY <1>2, <2>3 DEF ParamRefused
    <2>5. Cases[Args(t)[p.name]] = p.since
      <3>1. p.name \in DOMAIN Types[t].args
        BY <2>4 DEF Has, Args
      <3>2. Evolved(TypeDecls[Types[t].decl], p)
        BY <2>2 DEF Decl
      <3>3. Cases[Types[t].args[p.name]] = p.since
        BY <2>1, <2>2, <3>1, <3>2 DEF TypeValueAccepted
      <3> QED BY <3>3 DEF Args
    <2>6. p.since \in OwnVersions(t)
      BY <1>2, <2>4, <2>5 DEF OwnVersions
    <2> QED BY <2>2, <2>6
  <1> QED BY <1>1, <1>2 DEF TypeRefused

LEMMA AcceptedType ==
    ASSUME NEW t \in DOMAIN Types, NEW v \in Nat, ~TypeRefused(t, v)
    PROVE  \A w \in OwnVersions(t) : w <= v
  <1>1. Decl(t).since \in Nat /\ Decl(t).since <= v
    <2>1. Decl(t).since \in 1..Latest /\ ~(v < Decl(t).since)
      BY TypeFacts DEF TypeRefused, Supported
    <2> QED BY <2>1
  <1>2. ASSUME NEW p \in ToSet(Decl(t).params), CarriesVersion(p), Has(t, p)
        PROVE  Cases[Args(t)[p.name]] <= v
    <2>1. ParamAccepted(Decl(t), p) /\ TypeValueAccepted(t, p) /\ p.since \in Decl(t).since..Latest
      BY TypeFacts
    <2>2. p.kind = "enum" /\ p.name \in DOMAIN Types[t].args
      BY <1>2 DEF CarriesVersion, Has, Args
    <2>3. Cases[Args(t)[p.name]] \in 1..p.since
      BY <2>1, <2>2 DEF TypeValueAccepted, Args
    <2>4. ~ParamRefused(t, p, v)
      BY DEF TypeRefused
    <2>5. CASE Evolved(Decl(t), p)
      <3>1. p.optional
        BY <2>1, <2>2, <2>5 DEF ParamAccepted, HasDefault
      <3>2. ~(v < p.since)
        BY <1>2, <2>4, <2>5, <3>1 DEF ParamRefused
      <3> QED BY <1>1, <2>1, <2>3, <3>2
    <2>6. CASE ~Evolved(Decl(t), p)
      <3>1. p.since = Decl(t).since
        BY <2>6 DEF Evolved
      <3> QED BY <1>1, <2>3, <3>1
    <2> QED BY <2>5, <2>6
  <1>3. ASSUME NEW w \in OwnVersions(t) PROVE w <= v
    BY <1>1, <1>2 DEF OwnVersions
  <1> QED BY <1>3

LEMMA RefusedBefore ==
    ASSUME NEW t \in DOMAIN Types, NEW v \in Nat, NEW w \in Nat, v <= w, TypeRefused(t, w)
    PROVE  TypeRefused(t, v)
  <1>1. CASE w < Decl(t).since
    <2>1. Decl(t).since \in 1..Latest
      BY TypeFacts DEF Supported
    <2>2. v < Decl(t).since
      BY <1>1, <2>1
    <2> QED BY <2>2 DEF TypeRefused
  <1>2. ASSUME NEW p \in ToSet(Decl(t).params), ParamRefused(t, p, w) PROVE ParamRefused(t, p, v)
    <2>1. p.since \in Int
      BY TypeFacts DEF Supported
    <2>2. w < p.since => v < p.since
      BY <2>1
    <2> QED BY <1>2, <2>2 DEF ParamRefused
  <1> QED BY <1>1, <1>2 DEF TypeRefused

-----------------------------------------------------------------------------
(* An attribute value is refused by the versions before its own.           *)
LEMMA ParamVersionFacts ==
    ASSUME NEW x \in DOMAIN Values, IsRecord(x)
    PROVE  /\ AttrDecl(x).since \in 1..Latest /\ ParamVersion(x) \in 1..Latest
           /\ \A p \in ToSet(AttrDecl(x).params) :
                Evolved(AttrDecl(x), p) /\ p.name \in Values[x].has => p.since = ParamVersion(x)
           /\ \/ ParamVersion(x) = 1
              \/ \E p \in ToSet(AttrDecl(x).params) :
                    /\ Evolved(AttrDecl(x), p) /\ p.name \in Values[x].has
                    /\ p.since = ParamVersion(x)
  <1>1. PICK d : d = AttrDecl(x)
    OBVIOUS
  <1>2. Values[x].kind = "record" /\ Values[x].decl \in DOMAIN AttrDecls /\ d = AttrDecls[Values[x].decl]
    BY <1>1, ValuesAssumption DEF ValueAccepted, AttrDecl, IsRecord
  <1>3. /\ d.since \in Supported /\ FieldsAccepted(d.params, d.since)
        /\ \A p \in ToSet(d.params) : AttrParamAccepted(d, p)
        /\ \A n \in DOMAIN d.params : AttrParamUnforced(d, n)
    BY <1>2, AttributesAssumption DEF AttrsAccepted
  <1>4. IsSeq(d.params) /\ \A p \in ToSet(d.params) : p.since \in 1..Latest
    BY <1>3, FieldFacts DEF Supported
  <1>5. PICK L : L = {p \in ToSet(d.params) : Evolved(d, p) /\ p.name \in Values[x].has}
    OBVIOUS
  <1>6. PICK later : later = Kept(d.params, L)
    OBVIOUS
  <1>7. later \in Seq(ToSet(d.params)) /\ \A p : p \in ToSet(later) <=> p \in L
    BY <1>4, <1>5, <1>6, KeptFacts
  <1>8. ParamVersion(x) = IF later = <<>> THEN 1 ELSE Head(later).since
    BY <1>1, <1>5, <1>6 DEF ParamVersion
  <1>9. later # <<>> => Head(later) \in ToSet(later)
    <2>1. ASSUME later # <<>> PROVE 1 \in DOMAIN later /\ Head(later) = later[1]
      BY <1>7, <2>1
    <2> QED BY <2>1 DEF ToSet
  <1>10. \A p, q \in L : p.since = q.since
    <2>1. ASSUME NEW p \in L, NEW q \in L PROVE p.since = q.since
      <3>1. PICK n \in DOMAIN d.params : d.params[n] = p
        BY <1>5, <2>1 DEF ToSet
      <3>2. PICK m \in DOMAIN d.params : d.params[m] = q
        BY <1>5, <2>1 DEF ToSet
      <3>3. Evolved(d, p) /\ Evolved(d, q) /\ q.optional
        BY <1>3, <1>5, <2>1 DEF AttrParamAccepted
      <3>4. AttrParamUnforced(d, n)
        BY <1>3
      <3> QED BY <3>1, <3>2, <3>3, <3>4 DEF AttrParamUnforced
    <2> QED BY <2>1
  <1>11. 1 \in 1..Latest
    BY VersionsAssumption
  <1>12. CASE later = <<>>
    <2>1. \A p : p \notin L
      BY <1>7, <1>12 DEF ToSet
    <2> QED BY <1>1, <1>3, <1>5, <1>8, <1>11, <1>12, <2>1 DEF Supported
  <1>13. CASE later # <<>>
    <2>1. PICK h \in L : h = Head(later)
      BY <1>7, <1>9, <1>13
    <2>2. ParamVersion(x) = h.since /\ h \in ToSet(d.params)
      BY <1>5, <1>8, <1>13, <2>1
    <2> QED BY <1>1, <1>3, <1>4, <1>5, <1>10, <2>1, <2>2 DEF Supported
  <1> QED BY <1>12, <1>13

LEMMA ValueVersionFacts ==
    ASSUME NEW x \in DOMAIN Values, NEW v \in Nat, 1 <= v
    PROVE  /\ ValueVersion(x) \in 1..Latest
           /\ ValueRefused(x, v) <=> v < ValueVersion(x)
  <1>0. 1 \in 1..Latest /\ Latest \in Nat
    BY VersionsAssumption
  <1>1. CASE Values[x].kind = "enum"
    <2>1. ~IsRecord(x) /\ Values[x].since \in 1..Latest
      BY <1>1, ValuesAssumption DEF ValueAccepted, IsRecord, Supported
    <2>2. PICK s \in 1..Latest : s = Values[x].since
      BY <2>1
    <2>3. ValueVersion(x) = Max({s, 1, 1})
      BY <1>1, <2>1, <2>2 DEF ValueVersion, EnumVersion, RecordVersion
    <2>4. PICK S : S = {s, 1, 1}
      OBVIOUS
    <2>5. S \subseteq 0..Latest /\ S # {}
      BY <1>0, <2>4
    <2>6. Max(S) \in S /\ \A y \in S : y <= Max(S)
      <3>1. Bounded(S)
        BY <1>0, <2>5 DEF Bounded
      <3> QED BY <3>1, MaxIs DEF IsMax
    <2>7. ValueVersion(x) = s
      BY <1>0, <2>3, <2>4, <2>6
    <2>8. ValueRefused(x, v) <=> v < s
      BY <1>1, <2>1, <2>2 DEF ValueRefused, EnumRefused, RecordRefused
    <2> QED BY <2>7, <2>8
  <1>2. CASE IsRecord(x)
    <2>1. PICK s \in 1..Latest : s = AttrDecl(x).since
      BY <1>2, ParamVersionFacts
    <2>2. PICK p \in 1..Latest : p = ParamVersion(x)
      BY <1>2, ParamVersionFacts
    <2>3. Values[x].kind # "enum"
      BY <1>2 DEF IsRecord
    <2>4. ValueVersion(x) = Max({1, s, p})
      BY <1>2, <2>1, <2>2, <2>3 DEF ValueVersion, EnumVersion, RecordVersion
    <2>5. PICK S : S = {1, s, p}
      OBVIOUS
    <2>6. S \subseteq 0..Latest /\ S # {}
      BY <1>0, <2>5
    <2>7. Max(S) \in S /\ \A y \in S : y <= Max(S)
      <3>1. Bounded(S)
        BY <1>0, <2>6 DEF Bounded
      <3> QED BY <3>1, MaxIs DEF IsMax
    <2>8. Max(S) \in 1..Latest /\ (v < Max(S) <=> v < s \/ v < p)
      BY <1>0, <2>5, <2>7
    <2>9. (\E q \in ToSet(AttrDecl(x).params) : AttrParamRefused(x, q, v)) <=> v < p
      <3>1. ASSUME NEW q \in ToSet(AttrDecl(x).params), AttrParamRefused(x, q, v) PROVE v < p
        BY <1>2, <2>2, <3>1, ParamVersionFacts DEF AttrParamRefused
      <3>2. ASSUME v < p PROVE \E q \in ToSet(AttrDecl(x).params) : AttrParamRefused(x, q, v)
        <4>1. p # 1
          BY <3>2
        <4>2. PICK q \in ToSet(AttrDecl(x).params) :
                Evolved(AttrDecl(x), q) /\ q.name \in Values[x].has /\ q.since = p
          BY <1>2, <2>2, <4>1, ParamVersionFacts
        <4> QED BY <3>2, <4>2 DEF AttrParamRefused
      <3> QED BY <3>1, <3>2
    <2>10. ValueRefused(x, v) <=> v < s \/ v < p
      BY <1>2, <2>1, <2>3, <2>9 DEF ValueRefused, EnumRefused, RecordRefused
    <2> QED BY <2>4, <2>5, <2>8, <2>10
  <1>3. CASE Values[x].kind # "enum" /\ ~IsRecord(x)
    <2>1. ValueVersion(x) = Max({1, 1, 1})
      BY <1>3 DEF ValueVersion, EnumVersion, RecordVersion
    <2>2. PICK S : S = {1, 1, 1}
      OBVIOUS
    <2>3. S \subseteq 0..Latest /\ S # {} /\ \A y \in S : y = 1
      BY <1>0, <2>2
    <2>4. Max(S) = 1
      <3>1. Bounded(S)
        BY <1>0, <2>3 DEF Bounded
      <3> QED BY <2>3, <3>1, MaxIs DEF IsMax
    <2>5. ~ValueRefused(x, v)
      BY <1>3 DEF ValueRefused, EnumRefused, RecordRefused
    <2> QED BY <1>0, <2>1, <2>2, <2>4, <2>5
  <1> QED BY <1>1, <1>2, <1>3

LEMMA SomeVersions ==
    Latest \in Nat \ {0} /\ Supported = 1..Latest /\ 1 \in Supported
  BY VersionsAssumption DEF Supported

(* The declaration of an operation.                                        *)
LEMMA DeclarationFacts ==
    ASSUME NEW o \in DOMAIN OpDecls, NEW d, d = OpDecls[o]
    PROVE  /\ d.since \in Supported /\ d.opcode \in PublicRange /\ d.sized \in BOOLEAN
           /\ IsSeq(d.attributes) /\ IsSeq(d.operands) /\ IsSeq(d.results)
           /\ \A f \in ToSet(d.attributes) \cup ToSet(d.operands) \cup ToSet(d.results) :
                f.since \in d.since..Latest /\ f.optional \in BOOLEAN
           /\ \A f \in ToSet(d.attributes) : AttributeAccepted(d, f) /\ (f.form # "required" => f.fallback = "none")
           /\ \A f \in ToSet(d.operands) : OperandAccepted(d, f) /\ (Evolved(d, f) => d.sized)
           /\ \A f \in ToSet(d.results) : Evolved(d, f) => \A g \in ToSet(d.results) : g.form = "required"
           /\ Names(d.attributes) \cap Names(d.operands) = {}
  <1>1. OpAccepted(d) /\ OpUnforced(d)
    BY OperationsAssumption
  <1>2. d.opcode \in PublicRange
    BY OpcodesAssumption DEF OpcodesAccepted
  <1>3. /\ d.since \in Supported /\ d.sized \in BOOLEAN
        /\ FieldsAccepted(d.attributes, d.since) /\ FieldsAccepted(d.operands, d.since)
        /\ FieldsAccepted(d.results, d.since)
        /\ Names(d.attributes) \cap Names(d.operands) = {}
        /\ \A f \in ToSet(d.attributes) : AttributeAccepted(d, f)
        /\ \A f \in ToSet(d.operands) : OperandAccepted(d, f)
    BY <1>1 DEF OpAccepted
  <1>4. /\ \A f \in ToSet(d.attributes) : f.form # "required" => f.fallback = "none"
        /\ \A f \in ToSet(d.operands) : Evolved(d, f) => d.sized
        /\ \A n, m \in DOMAIN d.results : Evolved(d, d.results[n]) => d.results[m].form = "required"
    BY <1>1 DEF OpUnforced
  <1>5. \A f \in ToSet(d.results) : Evolved(d, f) => \A g \in ToSet(d.results) : g.form = "required"
    BY <1>4 DEF ToSet
  <1>6. /\ IsSeq(d.attributes) /\ IsSeq(d.operands) /\ IsSeq(d.results)
        /\ \A f \in ToSet(d.attributes) : f.since \in d.since..Latest /\ f.optional \in BOOLEAN
        /\ \A f \in ToSet(d.operands) : f.since \in d.since..Latest /\ f.optional \in BOOLEAN
        /\ \A f \in ToSet(d.results) : f.since \in d.since..Latest /\ f.optional \in BOOLEAN
    BY <1>3, FieldFacts
  <1> QED BY <1>2, <1>3, <1>4, <1>5, <1>6

(* An opcode is available from the version on that brought the operation.  *)
LEMMA OwnMaxOpcodeFacts ==
    ASSUME NEW v
    PROVE  /\ OwnMaxOpcode(v) \in PublicRange
           /\ \A o \in DOMAIN OpDecls : OpDecls[o].since = v => OpDecls[o].opcode <= OwnMaxOpcode(v)
           /\ OwnMaxOpcode(v) = 0 \/ \E o \in DOMAIN OpDecls :
                    OpDecls[o].since = v /\ OpDecls[o].opcode = OwnMaxOpcode(v)
  <1>1. PICK S : S = {0} \cup {OpDecls[o].opcode : o \in {p \in DOMAIN OpDecls : OpDecls[p].since = v}}
    OBVIOUS
  <1>a. PICK T \in Nat : T = 4095
    OBVIOUS
  <1>b. PublicRange = 0..T
    BY <1>a DEF PublicRange
  <1>2. S \subseteq 0..T /\ S # {}
    BY <1>1, <1>b, OpcodesAssumption DEF OpcodesAccepted
  <1>3. Max(S) \in S /\ \A x \in S : x <= Max(S)
    <2>1. Bounded(S)
      BY <1>2 DEF Bounded
    <2> QED BY <2>1, MaxIs DEF IsMax
  <1>4. OwnMaxOpcode(v) = Max(S)
    BY <1>1 DEF OwnMaxOpcode
  <1>5. PICK m : m = Max(S)
    OBVIOUS
  <1>6. m \in S /\ (\A x \in S : x <= m) /\ OwnMaxOpcode(v) = m
    BY <1>3, <1>4, <1>5
  <1> QED BY <1>1, <1>2, <1>b, <1>6

LEMMA OpcodeAvailable ==
    ASSUME NEW o \in DOMAIN OpDecls, NEW v \in Supported
    PROVE  IsOpcodeAvailable(OpDecls[o].opcode, v) <=> OpDecls[o].since <= v
  <1>1. PICK c : c = OpDecls[o].opcode
    OBVIOUS
  <1>2. PICK s : s = OpDecls[o].since
    OBVIOUS
  <1>a. PICK T \in Nat : T = 4095
    OBVIOUS
  <1>b. PublicRange = 0..T
    BY <1>a DEF PublicRange
  <1>3. c \in 0..T /\ s \in 1..Latest /\ v \in 1..Latest /\ v \in 0..Latest /\ Latest \in Nat
    BY <1>1, <1>2, DeclarationFacts, SomeVersions, <1>b
  <1>4. PICK N : N = {u \in 1..v : OwnMaxOpcode(u) # 0}
    OBVIOUS
  <1>5. MaxOpcode[v] = IF N = {} THEN 0 ELSE OwnMaxOpcode(Max(N))
    BY <1>3, <1>4 DEF MaxOpcode
  <1>6. N # {} => Max(N) \in N /\ \A u \in N : u <= Max(N)
    <2>1. N \subseteq 0..Latest
      BY <1>3, <1>4
    <2>2. N # {} => Bounded(N)
      BY <1>3, <2>1 DEF Bounded
    <2> QED BY <2>2, MaxIs DEF IsMax
  <1>7. IsOpcodeAvailable(c, v) <=> c <= MaxOpcode[v]
    BY DEF IsOpcodeAvailable
  <1>8. \A p, q \in DOMAIN OpDecls : OpDecls[p].since < OpDecls[q].since => OpDecls[p].opcode < OpDecls[q].opcode
    BY OpcodesAssumption
  <1>9. ASSUME s <= v PROVE c <= MaxOpcode[v]
    <2>1. CASE c = 0
      <3>1. MaxOpcode[v] \in 0..T
        BY <1>5, OwnMaxOpcodeFacts, <1>b
      <3> QED BY <2>1, <3>1
    <2>2. CASE c # 0
      <3>1. c <= OwnMaxOpcode(s) /\ OwnMaxOpcode(s) \in 0..T
        BY <1>1, <1>2, OwnMaxOpcodeFacts, <1>b
      <3>2. s \in N
        BY <1>3, <1>4, <1>9, <2>2, <3>1
      <3>3. PICK m \in N : m = Max(N) /\ s <= m
        BY <1>6, <3>2
      <3>4. MaxOpcode[v] = OwnMaxOpcode(m)
        BY <1>5, <3>2, <3>3
      <3>5. CASE m = s
        BY <3>1, <3>4, <3>5
      <3>6. CASE m # s
        <4>1. OwnMaxOpcode(m) # 0 /\ m \in 1..v
          BY <1>4
        <4>2. PICK p \in DOMAIN OpDecls : OpDecls[p].since = m /\ OpDecls[p].opcode = OwnMaxOpcode(m)
          BY <4>1, OwnMaxOpcodeFacts
        <4>3. s < m
          BY <1>3, <3>3, <3>6, <4>1
        <4>4. c < OwnMaxOpcode(m)
          BY <1>1, <1>2, <1>8, <4>2, <4>3
        <4>5. OwnMaxOpcode(m) \in 0..T
          BY OwnMaxOpcodeFacts, <1>b
        <4> QED BY <1>3, <3>4, <4>4, <4>5
      <3> QED BY <3>5, <3>6
    <2> QED BY <2>1, <2>2
  <1>10. ASSUME ~(s <= v) PROVE ~(c <= MaxOpcode[v])
    <2>1. v < s /\ 1 < s
      BY <1>3, <1>10
    <2>2. PICK p \in DOMAIN OpDecls : OpDecls[p].since = 1
      BY OpcodesAssumption
    <2>3. OpDecls[p].opcode \in 0..T /\ OpDecls[p].opcode < c
      BY <1>1, <1>2, <1>8, <2>1, <2>2, DeclarationFacts, <1>b
    <2>4. 0 < c
      BY <1>3, <2>3
    <2>5. CASE N = {}
      BY <1>3, <1>5, <2>4, <2>5
    <2>6. CASE N # {}
      <3>1. PICK m \in N : m = Max(N)
        BY <1>6, <2>6
      <3>2. OwnMaxOpcode(m) # 0 /\ m \in 1..v
        BY <1>4
      <3>3. PICK q \in DOMAIN OpDecls : OpDecls[q].since = m /\ OpDecls[q].opcode = OwnMaxOpcode(m)
        BY <3>2, OwnMaxOpcodeFacts
      <3>4. m < s
        BY <1>3, <2>1, <3>2
      <3>5. OwnMaxOpcode(m) < c
        BY <1>1, <1>2, <1>8, <3>3, <3>4
      <3>6. OwnMaxOpcode(m) \in 0..T
        BY OwnMaxOpcodeFacts, <1>b
      <3> QED BY <1>3, <1>5, <2>6, <3>1, <3>5, <3>6
    <2> QED BY <2>5, <2>6
  <1> QED BY <1>1, <1>2, <1>7, <1>9, <1>10

-----------------------------------------------------------------------------
(* The fields that have a bit.                                             *)
FlagFields(d) ==
    {f \in ToSet(d.attributes) : f.optional} \cup {f \in ToSet(d.operands) : d.sized /\ f.optional}

LEMMA OptionalsFacts ==
    ASSUME NEW fields, IsSeq(fields)
    PROVE  /\ Optionals(fields) \in Seq(ToSet(fields)) /\ IsSeq(Optionals(fields))
           /\ \A f : f \in ToSet(Optionals(fields)) <=> f \in ToSet(fields) /\ f.optional
  <1>1. PICK S : S = {f \in ToSet(fields) : f.optional}
    OBVIOUS
  <1>2. Optionals(fields) = Kept(fields, S)
    BY <1>1 DEF Optionals
  <1>3. /\ Kept(fields, S) \in Seq(ToSet(fields)) /\ IsSeq(Kept(fields, S))
        /\ \A x : x \in ToSet(Kept(fields, S)) <=> x \in ToSet(fields) /\ x \in S
    BY KeptFacts
  <1> QED BY <1>1, <1>2, <1>3

BitFields(d) == Optionals(d.attributes) \o OptionalOperands(d)

LEMMA BitFieldsFacts ==
    ASSUME NEW d, IsSeq(d.attributes), IsSeq(d.operands)
    PROVE  IsSeq(BitFields(d)) /\ ToSet(BitFields(d)) = FlagFields(d)
  <1>1. PICK a : a = Optionals(d.attributes)
    OBVIOUS
  <1>2. PICK b : b = OptionalOperands(d)
    OBVIOUS
  <1>3. IsSeq(a) /\ \A f : f \in ToSet(a) <=> f \in ToSet(d.attributes) /\ f.optional
    BY <1>1, OptionalsFacts
  <1>4. IsSeq(b) /\ \A f : f \in ToSet(b) <=> f \in ToSet(d.operands) /\ d.sized /\ f.optional
    <2>1. CASE d.sized
      BY <1>2, <2>1, OptionalsFacts DEF OptionalOperands
    <2>2. CASE ~d.sized
      BY <1>2, <2>2, NoElements DEF OptionalOperands
    <2> QED BY <2>1, <2>2
  <1>5. IsSeq(a \o b) /\ \A f : f \in ToSet(a \o b) <=> f \in ToSet(a) \/ f \in ToSet(b)
    BY <1>3, <1>4, JoinFacts, JoinElements
  <1>6. BitFields(d) = a \o b
    BY <1>1, <1>2 DEF BitFields
  <1>7. \A f : f \in ToSet(a \o b) <=> f \in FlagFields(d)
    BY <1>3, <1>4, <1>5 DEF FlagFields
  <1> QED BY <1>5, <1>6, <1>7

LEMMA BitOrderFacts ==
    ASSUME NEW d, IsSeq(d.attributes), IsSeq(d.operands), \A f \in FlagFields(d) : f.since \in 1..Latest
    PROVE  BitOrder(d) \in Seq(FlagFields(d)) /\ ToSet(BitOrder(d)) = FlagFields(d)
  <1>1. PICK fields : fields = BitFields(d)
    OBVIOUS
  <1>2. IsSeq(fields) /\ ToSet(fields) = FlagFields(d)
    BY <1>1, BitFieldsFacts
  <1>3. PICK ss : ss = [v \in 1..Latest |-> Kept(fields, {f \in ToSet(fields) : f.since = v})]
    OBVIOUS
  <1>4. BitOrder(d) = FlattenSeq(ss)
    BY <1>1, <1>3, Zenon DEF BitOrder, BitFields
  <1>5. \A v \in 1..Latest :
            /\ ss[v] \in Seq(FlagFields(d))
            /\ \A f : f \in ToSet(ss[v]) <=> f \in FlagFields(d) /\ f.since = v
    <2>1. ASSUME NEW v \in 1..Latest
          PROVE  /\ ss[v] \in Seq(FlagFields(d))
                 /\ \A f : f \in ToSet(ss[v]) <=> f \in FlagFields(d) /\ f.since = v
      <3>1. PICK S : S = {f \in ToSet(fields) : f.since = v}
        OBVIOUS
      <3>2. ss[v] = Kept(fields, S)
        BY <1>3, <3>1
      <3>3. /\ Kept(fields, S) \in Seq(ToSet(fields))
            /\ \A x : x \in ToSet(Kept(fields, S)) <=> x \in ToSet(fields) /\ x \in S
        BY <1>2, KeptFacts
      <3> QED BY <1>2, <3>1, <3>2, <3>3
    <2> QED BY <2>1
  <1>6. ss \in Seq(Seq(FlagFields(d))) /\ DOMAIN ss = 1..Latest
    <2>1. Latest \in Nat
      BY SomeVersions
    <2>2. PICK T : T = Seq(FlagFields(d))
      OBVIOUS
    <2>3. ss \in [1..Latest -> T]
      BY <1>3, <1>5, <2>2
    <2>4. ss \in Seq(T)
      BY <2>1, <2>3, IsASeq
    <2> QED BY <1>3, <2>2, <2>4
  <1>7. /\ FlattenSeq(ss) \in Seq(FlagFields(d))
        /\ \A x : x \in ToSet(FlattenSeq(ss)) <=> \E n \in DOMAIN ss : x \in ToSet(ss[n])
    BY <1>6, FlattenElements
  <1>8. \A f : f \in ToSet(FlattenSeq(ss)) <=> f \in FlagFields(d)
    BY <1>5, <1>6, <1>7
  <1> QED BY <1>4, <1>7, <1>8

(* An operation in the module.                                             *)
OperandsAre(i) ==
    /\ DOMAIN i.operands = Names(Op(i).operands)
    /\ \A f \in ToSet(Op(i).operands) :
        /\ IsSeq(i.operands[f.name])
        /\ \A x \in ToSet(i.operands[f.name]) : x.type \in DOMAIN Types
        /\ f.form = "required" => Len(i.operands[f.name]) = 1
        /\ f.form = "optional" => Len(i.operands[f.name]) <= 1

ResultsAre(i) ==
    /\ DOMAIN i.results = Names(Op(i).results)
    /\ \A f \in ToSet(Op(i).results) :
        /\ {"types", "used"} \subseteq DOMAIN i.results[f.name]
        /\ i.results[f.name].types \in Seq(DOMAIN Types)
        /\ i.results[f.name].used \in BOOLEAN
        /\ f.form = "required" => Len(i.results[f.name].types) = 1
        /\ Evolved(Op(i), f) =>
             \A t \in Registered(ToSet(i.results[f.name].types)) : ~TypeRefused(t, f.since)

OperationIs(i) ==
    /\ {"op", "attributes", "arguments", "results", "operands"} \subseteq DOMAIN i
    /\ i.op \in DOMAIN OpDecls
    /\ AttributesAccepted(i.attributes, Op(i).attributes)
    /\ i.arguments \in Seq(DOMAIN Types)
    /\ OperandsAre(i) /\ ResultsAre(i)

LEMMA OpFacts ==
    ASSUME NEW i, OperationIs(i)
    PROVE  /\ Op(i).since \in Supported /\ Op(i).opcode \in PublicRange /\ Op(i).sized \in BOOLEAN
           /\ IsSeq(Op(i).attributes) /\ IsSeq(Op(i).operands) /\ IsSeq(Op(i).results)
           /\ \A f \in ToSet(Op(i).attributes) \cup ToSet(Op(i).operands) \cup ToSet(Op(i).results) :
                f.since \in Op(i).since..Latest /\ f.optional \in BOOLEAN
           /\ \A f \in ToSet(Op(i).attributes) : AttributeAccepted(Op(i), f) /\ (f.form # "required" => f.fallback = "none")
           /\ \A f \in ToSet(Op(i).operands) : OperandAccepted(Op(i), f) /\ (Evolved(Op(i), f) => Op(i).sized)
           /\ \A f \in ToSet(Op(i).results) : Evolved(Op(i), f) => \A g \in ToSet(Op(i).results) : g.form = "required"
           /\ Names(Op(i).attributes) \cap Names(Op(i).operands) = {}
           /\ Op(i) = OpDecls[i.op] /\ i.op \in DOMAIN OpDecls
  <1>1. i.op \in DOMAIN OpDecls
    BY DEF OperationIs
  <1>2. PICK d : d = Op(i)
    OBVIOUS
  <1>3. d = OpDecls[i.op]
    BY <1>2 DEF Op
  <1> QED BY <1>1, <1>2, <1>3, DeclarationFacts

(* The types of a list of results.                                         *)
TypesOf(i, fields) == FlattenSeq([n \in DOMAIN fields |-> i.results[fields[n].name].types])

LEMMA ResultsFlattened ==
    ASSUME NEW i, OperationIs(i), NEW fields, IsSeq(fields), ToSet(fields) \subseteq ToSet(Op(i).results)
    PROVE  /\ TypesOf(i, fields) \in Seq(DOMAIN Types)
           /\ \A x : x \in ToSet(TypesOf(i, fields)) <=>
                    \E f \in ToSet(fields) : x \in ToSet(i.results[f.name].types)
  <1>1. PICK ss : ss = [n \in DOMAIN fields |-> i.results[fields[n].name].types]
    OBVIOUS
  <1>2. PICK N \in Nat : N = Len(fields) /\ DOMAIN fields = 1..N
    BY SeqIs
  <1>3. PICK V : V = Seq(DOMAIN Types)
    OBVIOUS
  <1>4. \A n \in 1..N : fields[n] \in ToSet(fields) /\ ss[n] \in V /\ ss[n] = i.results[fields[n].name].types
    BY <1>1, <1>2, <1>3 DEF OperationIs, ResultsAre, ToSet
  <1>5. ss \in [1..N -> V]
    BY <1>1, <1>2, <1>4
  <1>6. ss \in Seq(V) /\ DOMAIN ss = 1..N
    BY <1>5, SeqDef
  <1>7. /\ FlattenSeq(ss) \in Seq(DOMAIN Types)
        /\ \A x : x \in ToSet(FlattenSeq(ss)) <=> \E n \in DOMAIN ss : x \in ToSet(ss[n])
    BY <1>3, <1>6, FlattenElements
  <1>8. \A x : (\E n \in DOMAIN ss : x \in ToSet(ss[n])) <=>
               \E f \in ToSet(fields) : x \in ToSet(i.results[f.name].types)
    <2>1. ASSUME NEW x, NEW n \in 1..N, x \in ToSet(ss[n])
          PROVE  \E f \in ToSet(fields) : x \in ToSet(i.results[f.name].types)
      BY <1>4, <2>1
    <2>2. ASSUME NEW x, NEW f \in ToSet(fields), x \in ToSet(i.results[f.name].types)
          PROVE  \E n \in DOMAIN ss : x \in ToSet(ss[n])
      <3>1. PICK n \in 1..N : fields[n] = f
        BY <1>2 DEF ToSet
      <3> QED BY <1>4, <1>6, <2>2, <3>1
    <2> QED BY <1>6, <2>1, <2>2
  <1>9. TypesOf(i, fields) = FlattenSeq(ss)
    BY <1>1 DEF TypesOf
  <1> QED BY <1>7, <1>8, <1>9

LEMMA ResultTypesFacts ==
    ASSUME NEW i, OperationIs(i)
    PROVE  /\ ResultTypes(i) \in Seq(DOMAIN Types)
           /\ \A x : x \in ToSet(ResultTypes(i)) <=>
                    \E f \in ToSet(Op(i).results) : x \in ToSet(i.results[f.name].types)
  <1>1. PICK fields : fields = Op(i).results
    OBVIOUS
  <1>2. IsSeq(fields)
    BY <1>1, OpFacts
  <1>3. ResultTypes(i) = TypesOf(i, fields)
    BY <1>1 DEF ResultTypes, TypesOf
  <1>4. /\ TypesOf(i, fields) \in Seq(DOMAIN Types)
        /\ \A x : x \in ToSet(TypesOf(i, fields)) <=>
                    \E f \in ToSet(fields) : x \in ToSet(i.results[f.name].types)
    BY <1>1, <1>2, ResultsFlattened
  <1> QED BY <1>1, <1>3, <1>4

LEMMA WrittenFacts ==
    ASSUME NEW i, OperationIs(i), NEW v
    PROVE  /\ ResultsWritten(i, v) \in Seq(DOMAIN Types)
           /\ \A x : x \in ToSet(ResultsWritten(i, v)) <=>
                    \E f \in ToSet(Op(i).results) :
                        (~Evolved(Op(i), f) \/ v >= f.since) /\ x \in ToSet(i.results[f.name].types)
  <1>1. PICK d : d = Op(i)
    OBVIOUS
  <1>2. IsSeq(d.results)
    BY <1>1, OpFacts
  <1>3. PICK S : S = {f \in ToSet(d.results) : ~Evolved(d, f) \/ v >= f.since}
    OBVIOUS
  <1>4. PICK kept : kept = Kept(d.results, S)
    OBVIOUS
  <1>5. IsSeq(kept) /\ \A f : f \in ToSet(kept) <=> f \in ToSet(d.results) /\ f \in S
    BY <1>2, <1>4, KeptFacts
  <1>6. ResultsKept(i, v) = kept
    BY <1>1, <1>3, <1>4 DEF ResultsKept, InVersion
  <1>7. ResultsWritten(i, v) = TypesOf(i, kept)
    BY <1>6 DEF ResultsWritten, TypesOf
  <1>8. ToSet(kept) \subseteq ToSet(Op(i).results)
    BY <1>1, <1>5
  <1>9. /\ TypesOf(i, kept) \in Seq(DOMAIN Types)
        /\ \A x : x \in ToSet(TypesOf(i, kept)) <=>
                    \E f \in ToSet(kept) : x \in ToSet(i.results[f.name].types)
    BY <1>5, <1>8, ResultsFlattened
  <1>10. \A x : (\E f \in ToSet(kept) : x \in ToSet(i.results[f.name].types)) <=>
                \E f \in ToSet(d.results) :
                    (~Evolved(d, f) \/ v >= f.since) /\ x \in ToSet(i.results[f.name].types)
    BY <1>3, <1>5
  <1> QED BY <1>1, <1>7, <1>9, <1>10

LEMMA OpTypesInUse ==
    ASSUME NEW i, OperationIs(i), NEW v
    PROVE  OpTypes(i, v) \in SUBSET DOMAIN Types
  <1>1. ToSet(ResultsWritten(i, v)) \subseteq DOMAIN Types
    <2>1. PICK s \in Seq(DOMAIN Types) : s = ResultsWritten(i, v)
      BY WrittenFacts
    <2>2. ToSet(s) \subseteq DOMAIN Types
      BY DEF ToSet
    <2> QED BY <2>1, <2>2
  <1>2. ToSet(i.arguments) \subseteq DOMAIN Types
    <2>1. PICK s \in Seq(DOMAIN Types) : s = i.arguments
      BY DEF OperationIs
    <2>2. ToSet(s) \subseteq DOMAIN Types
      BY DEF ToSet
    <2> QED BY <2>1, <2>2
  <1>3. \A a \in DOMAIN i.attributes : TypesIn(i.attributes[a]) \subseteq DOMAIN Types
    BY DEF TypesIn
  <1> QED BY <1>1, <1>2, <1>3 DEF OpTypes

-----------------------------------------------------------------------------
(* The version an operation asks for.                                      *)
LEMMA AttributeValues ==
    ASSUME NEW i, OperationIs(i), NEW f \in ToSet(Op(i).attributes), f.name \in DOMAIN i.attributes
    PROVE  i.attributes[f.name] \in DOMAIN Values
  BY DEF OperationIs, AttributesAccepted

LEMMA FieldVersionsFacts ==
    ASSUME NEW i, OperationIs(i)
    PROVE  FieldVersions(i) \subseteq 1..Latest /\ ValueVersions(i) \subseteq 1..Latest
  <1>1. \A f \in ToSet(Op(i).attributes) \cup ToSet(Op(i).operands) \cup ToSet(Op(i).results) :
            f.since \in 1..Latest
    <2>1. Op(i).since \in 1..Latest
      BY OpFacts, SomeVersions
    <2>2. \A f \in ToSet(Op(i).attributes) \cup ToSet(Op(i).operands) \cup ToSet(Op(i).results) :
            f.since \in Op(i).since..Latest
      BY OpFacts
    <2> QED BY <2>1, <2>2
  <1>2. \A g \in CountedFields(i) :
            g \in ToSet(Op(i).attributes) \cup ToSet(Op(i).operands) \cup ToSet(Op(i).results)
    BY DEF CountedFields
  <1>3. FieldVersions(i) \subseteq 1..Latest
    BY <1>1, <1>2 DEF FieldVersions
  <1>4. ASSUME NEW f \in ToSet(Op(i).attributes), f.name \in DOMAIN i.attributes
        PROVE  ValueVersion(i.attributes[f.name]) \in 1..Latest
    <2>1. PICK x \in DOMAIN Values : x = i.attributes[f.name]
      BY <1>4, AttributeValues
    <2>2. 1 \in Nat /\ 1 <= 1
      OBVIOUS
    <2>3. ValueVersion(x) \in 1..Latest
      BY <2>2, ValueVersionFacts
    <2> QED BY <2>1, <2>3
  <1> QED BY <1>3, <1>4 DEF ValueVersions

(* What is asked for covers what is refused.                               *)
LEMMA Foreseen ==
    ASSUME NEW i, OperationIs(i), NEW v \in Supported, Op(i).since <= v,
           \A w \in FieldVersions(i) \cup ValueVersions(i) : w <= v
    PROVE  ~OpRefused(i, v)
  <1>0. v \in 1..Latest /\ Latest \in Nat /\ v \in Nat /\ 1 <= v
    BY SomeVersions
  <1>1. IsOpcodeAvailable(Op(i).opcode, v)
    BY OpFacts, OpcodeAvailable
  <1>2. ASSUME NEW f \in CountedFields(i), Evolved(Op(i), f) PROVE f.since \in Nat /\ f.since <= v
    <2>1. f \in ToSet(Op(i).attributes) \cup ToSet(Op(i).operands) \cup ToSet(Op(i).results)
      BY DEF CountedFields
    <2>2. f.since \in Op(i).since..Latest /\ Op(i).since \in 1..Latest
      BY <2>1, OpFacts, SomeVersions
    <2>3. f.since > Op(i).since /\ f.since \in Nat
      BY <1>2, <2>2 DEF Evolved
    <2>4. f.since \in FieldVersions(i)
      BY <2>3 DEF FieldVersions
    <2> QED BY <2>3, <2>4
  <1>3. ASSUME NEW f \in ToSet(Op(i).results), ResultRefused(i, f, v) PROVE FALSE
    <2>1. Evolved(Op(i), f) /\ v < f.since /\ i.results[f.name].used
      BY <1>3 DEF ResultRefused
    <2>2. f.form = "required"
      BY <2>1, OpFacts
    <2>3. ResultCounts(i, f)
      BY <2>1, <2>2 DEF ResultCounts
    <2>4. f \in CountedFields(i)
      BY <2>3 DEF CountedFields
    <2> QED BY <1>0, <1>2, <2>1, <2>4
  <1>4. ASSUME NEW f \in ToSet(BitOrder(Op(i))), FlagRefused(i, f, v) PROVE FALSE
    <2>1. Evolved(Op(i), f) /\ v < f.since /\ Present(i, f)
      BY <1>4 DEF FlagRefused
    <2>2. PICK d : d = Op(i)
      OBVIOUS
    <2>3. IsSeq(d.attributes) /\ IsSeq(d.operands) /\ \A g \in FlagFields(d) : g.since \in 1..Latest
      <3>1. Op(i).since \in 1..Latest
        BY OpFacts, SomeVersions
      <3>2. \A g \in ToSet(Op(i).attributes) \cup ToSet(Op(i).operands) : g.since \in Op(i).since..Latest
        BY OpFacts
      <3>3. \A g \in FlagFields(d) : g \in ToSet(Op(i).attributes) \cup ToSet(Op(i).operands)
        BY <2>2 DEF FlagFields
      <3>4. \A g \in FlagFields(d) : g.since \in 1..Latest
        BY <3>1, <3>2, <3>3
      <3> QED BY <2>2, <3>4, OpFacts
    <2>4. f \in FlagFields(d)
      BY <1>4, <2>2, <2>3, BitOrderFacts
    <2>5. CASE f \in ToSet(d.operands)
      <3>1. f.name \in DOMAIN i.operands
        BY <2>2, <2>5 DEF OperationIs, OperandsAre, Names
      <3>2. f \in CountedFields(i)
        BY <2>1, <2>2, <2>5, <3>1 DEF Present, CountedFields
      <3> QED BY <1>0, <1>2, <2>1, <3>2
    <2>6. CASE f \in ToSet(d.attributes)
      <3>1. f.name \notin DOMAIN i.operands
        <4>1. f.name \in Names(d.attributes)
          BY <2>6 DEF Names
        <4>2. Names(d.attributes) \cap Names(d.operands) = {} /\ DOMAIN i.operands = Names(d.operands)
          BY <2>2, OpFacts DEF OperationIs, OperandsAre
        <4> QED BY <4>1, <4>2
      <3>2. f \in CountedFields(i)
        BY <2>1, <2>2, <2>6, <3>1 DEF Present, CountedFields
      <3> QED BY <1>0, <1>2, <2>1, <3>2
    <2> QED BY <2>4, <2>5, <2>6 DEF FlagFields
  <1>5. ASSUME NEW f \in ToSet(Op(i).attributes), AttributeRefused(i, f, v) PROVE FALSE
    <2>1. f.name \in DOMAIN i.attributes /\ f.form # "unit"
      BY <1>5 DEF AttributeRefused
    <2>2. f.since \in Op(i).since..Latest /\ Op(i).since \in 1..Latest
      BY OpFacts, SomeVersions
    <2>3. CASE v >= f.since
      <3>1. ValueRefused(i.attributes[f.name], v)
        BY <1>5, <2>3 DEF AttributeRefused
      <3>2. PICK x \in DOMAIN Values : x = i.attributes[f.name]
        BY <2>1, AttributeValues
      <3>3. v < ValueVersion(x) /\ ValueVersion(x) \in 1..Latest
        BY <1>0, <3>1, <3>2, ValueVersionFacts
      <3>4. ValueVersion(x) \in ValueVersions(i)
        BY <2>1, <3>2 DEF ValueVersions
      <3> QED BY <1>0, <3>3, <3>4
    <2>4. CASE ~(v >= f.since)
      <3>1. Evolved(Op(i), f) /\ f \in CountedFields(i)
        BY <1>0, <2>1, <2>2, <2>4 DEF Evolved, CountedFields
      <3> QED BY <1>0, <1>2, <2>4, <3>1
    <2> QED BY <2>3, <2>4
  <1> QED BY <1>1, <1>3, <1>4, <1>5 DEF OpRefused

(* A required attribute that is left out at its default.                   *)
LeavesOut(i, v) ==
    \E f \in ToSet(Op(i).attributes) :
        f.form = "required" /\ v < f.since /\ i.attributes[f.name] = FallbackValue

LEMMA FieldSince ==
    ASSUME NEW i, OperationIs(i),
           NEW f \in ToSet(Op(i).attributes) \cup ToSet(Op(i).operands) \cup ToSet(Op(i).results)
    PROVE  /\ f.since \in 1..Latest /\ Op(i).since \in 1..Latest /\ Op(i).since <= f.since
           /\ Evolved(Op(i), f) <=> f.since > Op(i).since
  <1>1. Op(i).since \in 1..Latest /\ Latest \in Nat
    BY OpFacts, SomeVersions
  <1>2. f.since \in Op(i).since..Latest
    BY OpFacts
  <1> QED BY <1>1, <1>2 DEF Evolved

LEMMA FlaggedFields ==
    ASSUME NEW i, OperationIs(i)
    PROVE  ToSet(BitOrder(Op(i))) = FlagFields(Op(i))
  <1>1. PICK d : d = Op(i)
    OBVIOUS
  <1>2. \A g \in FlagFields(d) : g.since \in 1..Latest
    BY <1>1, FieldSince DEF FlagFields
  <1>3. IsSeq(d.attributes) /\ IsSeq(d.operands)
    BY <1>1, OpFacts
  <1> QED BY <1>1, <1>2, <1>3, BitOrderFacts

(* A present field that the version does not have is refused, if there is  *)
(* no default for it.                                                      *)
LEMMA AttributesInVersion ==
    ASSUME NEW i, OperationIs(i), NEW v \in Supported, ~OpRefused(i, v), ~LeavesOut(i, v),
           NEW f \in ToSet(Op(i).attributes), f.name \in DOMAIN i.attributes, Op(i).since <= v
    PROVE  f.since <= v
  <1>0. v \in 1..Latest /\ Latest \in Nat /\ f.since \in 1..Latest /\ Op(i).since \in 1..Latest
    BY FieldSince, SomeVersions
  <1> SUFFICES ASSUME v < f.since PROVE FALSE
    BY <1>0
  <1>1. Evolved(Op(i), f)
    BY <1>0, FieldSince
  <1>2. f.form \in {"unit", "optional", "required"} /\ f.optional = (f.form # "required")
        /\ (f.form = "required" => f.fallback # "none")
    BY <1>1, OpFacts DEF AttributeAccepted
  <1>3. CASE f.form = "required"
    <2>1. i.attributes[f.name] # FallbackValue
      BY <1>3 DEF LeavesOut
    <2>2. AttributeRefused(i, f, v)
      BY <1>0, <1>2, <1>3, <2>1 DEF AttributeRefused
    <2> QED BY <2>2 DEF OpRefused
  <1>4. CASE f.form # "required"
    <2>1. f \in ToSet(BitOrder(Op(i)))
      BY <1>2, <1>4, FlaggedFields DEF FlagFields
    <2>2. f.name \notin DOMAIN i.operands
      <3>1. f.name \in Names(Op(i).attributes)
        BY DEF Names
      <3>2. Names(Op(i).attributes) \cap Names(Op(i).operands) = {}
        BY OpFacts
      <3>3. DOMAIN i.operands = Names(Op(i).operands)
        BY DEF OperationIs, OperandsAre
      <3> QED BY <3>1, <3>2, <3>3
    <2>3. FlagRefused(i, f, v)
      BY <1>1, <2>2 DEF FlagRefused, Present
    <2> QED BY <2>1, <2>3 DEF OpRefused
  <1> QED BY <1>3, <1>4

LEMMA OperandsInVersion ==
    ASSUME NEW i, OperationIs(i), NEW v \in Supported, ~OpRefused(i, v),
           NEW f \in ToSet(Op(i).operands), f.form = "required" \/ i.operands[f.name] # <<>>,
           Op(i).since <= v
    PROVE  f.since <= v
  <1>0. v \in 1..Latest /\ Latest \in Nat /\ f.since \in 1..Latest /\ Op(i).since \in 1..Latest
    BY FieldSince, SomeVersions
  <1> SUFFICES ASSUME v < f.since PROVE FALSE
    BY <1>0
  <1>1. Evolved(Op(i), f)
    BY <1>0, FieldSince
  <1>2. Op(i).sized /\ f.form = "optional" /\ f.optional
    BY <1>1, OpFacts DEF OperandAccepted
  <1>3. f \in ToSet(BitOrder(Op(i)))
    BY <1>2, FlaggedFields DEF FlagFields
  <1>4. f.name \in DOMAIN i.operands
    BY DEF OperationIs, OperandsAre, Names
  <1>5. FlagRefused(i, f, v)
    BY <1>1, <1>2, <1>4 DEF FlagRefused, Present
  <1> QED BY <1>3, <1>5 DEF OpRefused

LEMMA CountedResults ==
    ASSUME NEW i, OperationIs(i), NEW v \in Supported, ~OpRefused(i, v),
           NEW f \in ToSet(Op(i).results), ResultCounts(i, f) \/ i.results[f.name].used,
           Op(i).since <= v
    PROVE  f.since <= v /\ ToSet(i.results[f.name].types) \subseteq OpTypes(i, v)
  <1>0. v \in 1..Latest /\ Latest \in Nat /\ f.since \in 1..Latest /\ Op(i).since \in 1..Latest
    BY FieldSince, SomeVersions
  <1>1. f.since <= v
    <2> SUFFICES ASSUME v < f.since PROVE FALSE
      BY <1>0
    <2>1. Evolved(Op(i), f)
      BY <1>0, FieldSince
    <2>2. f.form = "required"
      BY <2>1, OpFacts
    <2>3. i.results[f.name].used
      BY <2>1, <2>2 DEF ResultCounts
    <2> QED BY <2>1, <2>3 DEF ResultRefused, OpRefused
  <1>2. ToSet(i.results[f.name].types) \subseteq ToSet(ResultsWritten(i, v))
    <2>1. v >= f.since
      BY <1>0, <1>1
    <2> QED BY <2>1, WrittenFacts
  <1> QED BY <1>1, <1>2 DEF OpTypes

LEMMA Tight ==
    ASSUME NEW i, OperationIs(i), NEW v \in Supported, ~OpRefused(i, v), ~LeavesOut(i, v)
    PROVE  Op(i).since <= v /\ \A w \in FieldVersions(i) \cup ValueVersions(i) : w <= v
  <1>0. v \in 1..Latest /\ Latest \in Nat /\ v \in Nat /\ 1 <= v
    BY SomeVersions
  <1>1. Op(i).since <= v
    BY OpFacts, OpcodeAvailable DEF OpRefused
  <1>2. ASSUME NEW f \in CountedFields(i) PROVE f.since <= v
    <2>1. CASE f \in ToSet(Op(i).attributes) /\ f.name \in DOMAIN i.attributes
      BY <1>1, <2>1, AttributesInVersion
    <2>2. CASE f \in ToSet(Op(i).operands) /\ (f.form = "required" \/ i.operands[f.name] # <<>>)
      BY <1>1, <2>2, OperandsInVersion
    <2>3. CASE f \in ToSet(Op(i).results) /\ ResultCounts(i, f)
      BY <1>1, <2>3, CountedResults
    <2> QED BY <2>1, <2>2, <2>3 DEF CountedFields
  <1>3. ASSUME NEW w \in FieldVersions(i) PROVE w <= v
    BY <1>2 DEF FieldVersions
  <1>4. ASSUME NEW w \in ValueVersions(i) PROVE w <= v
    <2>1. PICK f \in ToSet(Op(i).attributes) : /\ f.name \in DOMAIN i.attributes /\ f.form # "unit"
                                               /\ w = ValueVersion(i.attributes[f.name])
      BY DEF ValueVersions
    <2>2. PICK x \in DOMAIN Values : x = i.attributes[f.name]
      BY <2>1, AttributeValues
    <2>3. f.since <= v /\ f.since \in 1..Latest
      BY <1>1, <2>1, AttributesInVersion, FieldSince
    <2>4. ~AttributeRefused(i, f, v)
      BY DEF OpRefused
    <2>5. v >= f.since
      BY <1>0, <2>3
    <2>6. ~ValueRefused(x, v)
      BY <2>1, <2>2, <2>4, <2>5 DEF AttributeRefused
    <2>7. ~(v < ValueVersion(x)) /\ ValueVersion(x) \in 1..Latest
      BY <1>0, <2>6, ValueVersionFacts
    <2> QED BY <1>0, <2>1, <2>2, <2>7
  <1> QED BY <1>1, <1>3, <1>4

(* What the analysis adds to the version for an operation.                 *)
Asks(i) == {Op(i).since} \cup FieldVersions(i) \cup ValueVersions(i)

LEMMA OpVersionFacts ==
    ASSUME NEW i, OperationIs(i), NEW seen
    PROVE  /\ ScoredTypes(i) \in SUBSET DOMAIN Types
           /\ Asks(i) \subseteq 1..Latest
           /\ IsMax(OpVersion(i, seen), Asks(i) \cup {TypeVersion[t] : t \in ScoredTypes(i) \ seen})
  <1>0. Latest \in Nat
    BY SomeVersions
  <1>1. ScoredTypes(i) \in SUBSET DOMAIN Types
    <2>1. ASSUME NEW f \in ToSet(Op(i).operands) PROVE \A x \in ToSet(i.operands[f.name]) : x.type \in DOMAIN Types
      BY DEF OperationIs, OperandsAre
    <2>2. ASSUME NEW f \in ToSet(Op(i).results) PROVE ToSet(i.results[f.name].types) \subseteq DOMAIN Types
      <3>1. PICK s \in Seq(DOMAIN Types) : s = i.results[f.name].types
        BY DEF OperationIs, ResultsAre
      <3>2. ToSet(s) \subseteq DOMAIN Types
        BY DEF ToSet
      <3> QED BY <3>1, <3>2
    <2>3. ToSet(i.arguments) \subseteq DOMAIN Types
      <3>1. PICK s \in Seq(DOMAIN Types) : s = i.arguments
        BY DEF OperationIs
      <3>2. ToSet(s) \subseteq DOMAIN Types
        BY DEF ToSet
      <3> QED BY <3>1, <3>2
    <2>4. ASSUME NEW t \in ScoredTypes(i) PROVE t \in DOMAIN Types
      <3>1. CASE \E f \in ToSet(Op(i).operands) : \E x \in ToSet(i.operands[f.name]) : t = x.type
        BY <2>1, <3>1
      <3>2. CASE \E f \in ToSet(Op(i).results) : t \in ToSet(i.results[f.name].types)
        BY <2>2, <3>2
      <3>3. CASE t \in ToSet(i.arguments)
        BY <2>3, <3>3
      <3>4. \/ t \in UNION {{x.type : x \in ToSet(i.operands[f.name])} : f \in ToSet(Op(i).operands)}
            \/ t \in UNION {ToSet(i.results[f.name].types) :
                                f \in {g \in ToSet(Op(i).results) : ResultCounts(i, g)}}
            \/ t \in ToSet(i.arguments)
        BY <2>4, Zenon DEF ScoredTypes
      <3>5. ASSUME t \in UNION {{x.type : x \in ToSet(i.operands[f.name])} : f \in ToSet(Op(i).operands)}
            PROVE  \E f \in ToSet(Op(i).operands) : \E x \in ToSet(i.operands[f.name]) : t = x.type
        <4>1. PICK f \in ToSet(Op(i).operands) : t \in {x.type : x \in ToSet(i.operands[f.name])}
          BY <3>5
        <4>2. PICK x \in ToSet(i.operands[f.name]) : t = x.type
          BY <4>1
        <4> QED BY <4>2
      <3> QED BY <3>1, <3>2, <3>3, <3>4, <3>5
    <2> QED BY <2>4
  <1>2. Asks(i) \subseteq 1..Latest
    BY OpFacts, SomeVersions, FieldVersionsFacts DEF Asks
  <1>3. PICK S : S = Asks(i) \cup {TypeVersion[t] : t \in ScoredTypes(i) \ seen}
    OBVIOUS
  <1>4. S \subseteq 1..Latest /\ S # {}
    BY <1>1, <1>2, <1>3, TypeVersionFacts DEF Asks
  <1>5. S \subseteq 0..Latest
    BY <1>4
  <1>6. Bounded(S)
    BY <1>0, <1>4, <1>5 DEF Bounded
  <1>7. IsMax(Max(S), S)
    BY <1>6, MaxIs
  <1>8. OpVersion(i, seen) = Max(S)
    BY <1>3 DEF OpVersion, Asks
  <1> QED BY <1>1, <1>2, <1>3, <1>7, <1>8

(* The module that is built: its operations, and for each operand the      *)
(* value it names, whose result is used.                                   *)
OperandBefore(x, n, args, mod) ==
    \/ \E k \in DOMAIN args : x.at = <<0, k>> /\ args[k] = x.type
    \/ \E m \in 1..n - 1 : \E k \in DOMAIN ResultTypes(mod[m]) :
        /\ x.at = <<m, k>> /\ ResultTypes(mod[m])[k] = x.type
        /\ \A f \in ToSet(Op(mod[m]).results) :
                x.type \in ToSet(mod[m].results[f.name].types) => mod[m].results[f.name].used

OperandsBefore(n, args, mod) ==
    \A f \in ToSet(Op(mod[n]).operands) :
        \A x \in ToSet(mod[n].operands[f.name]) : OperandBefore(x, n, args, mod)

Built(args, mod) ==
    /\ args \in Seq(DOMAIN Types)
    /\ IsSeq(mod) /\ Len(mod) <= Len(Instances)
    /\ \A n \in 1..Len(mod) : OperationIs(mod[n]) /\ OperandsBefore(n, args, mod)

LEMMA VisibleFacts ==
    ASSUME Built(arguments, module)
    PROVE  \A v \in DOMAIN Visible :
              \/ \E k \in DOMAIN arguments : v = <<0, k>> /\ Visible[v] = arguments[k]
              \/ \E n \in 1..Len(module) : \E k \in DOMAIN ResultTypes(module[n]) :
                    v = <<n, k>> /\ Visible[v] = ResultTypes(module[n])[k]
  <1>1. DOMAIN module = 1..Len(module) /\ Len(module) \in Nat
    BY SeqIs DEF Built
  <1>2. PICK D : D = {<<0, k>> : k \in DOMAIN arguments}
            \cup UNION {{<<n, k>> : k \in DOMAIN ResultTypes(module[n])} : n \in DOMAIN module}
    OBVIOUS
  <1>3. Visible = [v \in D |-> IF v[1] = 0 THEN arguments[v[2]] ELSE ResultTypes(module[v[1]])[v[2]]]
    BY <1>2, Zenon DEF Visible
  <1>4. ASSUME NEW v \in D
        PROVE  \/ \E k \in DOMAIN arguments : v = <<0, k>>
               \/ \E n \in 1..Len(module) : \E k \in DOMAIN ResultTypes(module[n]) : v = <<n, k>>
    BY <1>1, <1>2
  <1>5. ASSUME NEW v \in D, NEW k \in DOMAIN arguments, v = <<0, k>> PROVE Visible[v] = arguments[k]
    BY <1>3, <1>5
  <1>6. ASSUME NEW v \in D, NEW n \in 1..Len(module), NEW k \in DOMAIN ResultTypes(module[n]), v = <<n, k>>
        PROVE Visible[v] = ResultTypes(module[n])[k]
    BY <1>1, <1>3, <1>6
  <1>7. DOMAIN Visible = D
    BY <1>3
  <1> QED BY <1>4, <1>5, <1>6, <1>7

LEMMA LatestFacts ==
    ASSUME Built(arguments, module), NEW t, \E v \in DOMAIN Visible : Visible[v] = t
    PROVE  LatestOf(t) \in DOMAIN Visible /\ Visible[LatestOf(t)] = t
  <1>1. PICK S : S = {v \in DOMAIN Visible : Visible[v] = t}
    OBVIOUS
  <1>2. PICK N \in Nat : N = Len(module)
    BY SeqIs DEF Built
  <1>3. PICK A \in Nat : A = Len(arguments) /\ DOMAIN arguments = 1..A
    BY LenProperties DEF Built
  <1>4. \A n \in 1..N : \E l \in Nat : DOMAIN ResultTypes(module[n]) = 1..l
    <2>1. ASSUME NEW n \in 1..N PROVE \E l \in Nat : DOMAIN ResultTypes(module[n]) = 1..l
      <3>1. OperationIs(module[n])
        BY <1>2 DEF Built
      <3>2. PICK s \in Seq(DOMAIN Types) : s = ResultTypes(module[n])
        BY <3>1, ResultTypesFacts
      <3>3. Len(s) \in Nat /\ DOMAIN s = 1..Len(s)
        BY LenProperties
      <3> QED BY <3>2, <3>3
    <2> QED BY <2>1
  <1>5. \A v \in S : v = <<v[1], v[2]>> /\ v[1] \in 0..N /\ v[2] \in Nat
    <2>1. ASSUME NEW v \in S PROVE v = <<v[1], v[2]>> /\ v[1] \in 0..N /\ v[2] \in Nat
      <3>1. v \in DOMAIN Visible
        BY <1>1
      <3>2. CASE \E k \in DOMAIN arguments : v = <<0, k>>
        BY <1>2, <1>3, <3>2
      <3>3. CASE \E n \in 1..Len(module) : \E k \in DOMAIN ResultTypes(module[n]) : v = <<n, k>>
        <4>a. PICK n \in 1..N : \E k \in DOMAIN ResultTypes(module[n]) : v = <<n, k>>
          BY <1>2, <3>3
        <4>1. PICK k \in DOMAIN ResultTypes(module[n]) : v = <<n, k>>
          BY <4>a
        <4>2. k \in Nat
          BY <1>4, <4>1
        <4> QED BY <1>2, <4>1, <4>2
      <3> QED BY <3>1, <3>2, <3>3, VisibleFacts
    <2> QED BY <2>1
  <1>6. PICK F : F = {v[1] : v \in S}
    OBVIOUS
  <1>7. PICK m : IsMax(m, F)
    <2>1. F \subseteq 0..N /\ F # {}
      BY <1>1, <1>5, <1>6
    <2>2. Bounded(F)
      BY <2>1 DEF Bounded
    <2> QED BY <2>2, MaxIs
  <1>8. m \in F /\ (\A x \in F : x <= m) /\ m \in 0..N
    BY <1>5, <1>6, <1>7 DEF IsMax
  <1>9. PICK B \in Nat : \A v \in S : v[1] = m => v[2] \in 0..B
    <2>1. CASE m = 0
      <3>1. \A v \in S : v[1] = m => v[2] \in 1..A
        <4>1. ASSUME NEW v \in S, v[1] = 0 PROVE v[2] \in 1..A
          <5>1. \A n \in 1..N : n # 0
            OBVIOUS
          <5>2. PICK k \in DOMAIN arguments : v = <<0, k>>
            BY <1>1, <1>2, <4>1, <5>1, VisibleFacts
          <5> QED BY <1>3, <5>2
        <4> QED BY <2>1, <4>1
      <3>2. 1..A \subseteq 0..A
        OBVIOUS
      <3> QED BY <3>1, <3>2
    <2>2. CASE m # 0
      <3>1. m \in 1..N
        BY <1>8, <2>2
      <3>2. PICK l \in Nat : DOMAIN ResultTypes(module[m]) = 1..l
        BY <1>4, <3>1
      <3>3. \A v \in S : v[1] = m => v[2] \in 1..l
        <4>1. ASSUME NEW v \in S, v[1] = m PROVE v[2] \in 1..l
          <5>1. PICK n \in 1..N : \E k \in DOMAIN ResultTypes(module[n]) : v = <<n, k>>
            BY <1>1, <1>2, <2>2, <4>1, VisibleFacts
          <5>2. PICK k \in DOMAIN ResultTypes(module[n]) : v = <<n, k>>
            BY <5>1
          <5> QED BY <3>2, <4>1, <5>2
        <4> QED BY <4>1
      <3>4. 1..l \subseteq 0..l
        OBVIOUS
      <3> QED BY <3>3, <3>4
    <2> QED BY <2>1, <2>2
  <1>10. PICK G : G = {w \in 0..B : \E v \in S : v[1] = m /\ v[2] = w}
    OBVIOUS
  <1>11. PICK k : IsMax(k, G)
    <2>1. G \subseteq 0..B /\ G # {}
      <3>1. PICK v \in S : v[1] = m
        BY <1>6, <1>8
      <3>2. v[2] \in G
        BY <1>9, <1>10, <3>1
      <3> QED BY <1>10, <3>2
    <2>2. Bounded(G)
      BY <2>1 DEF Bounded
    <2> QED BY <2>2, MaxIs
  <1>12. k \in G /\ (\A x \in G : x <= k) /\ k \in 0..B
    BY <1>10, <1>11 DEF IsMax
  <1>13. PICK v \in S : v[1] = m /\ v[2] = k
    BY <1>10, <1>12
  <1>14. ASSUME NEW u \in S PROVE Latter(v, u)
    <2>1. u[1] \in F /\ u[1] \in 0..N /\ u[2] \in Nat
      BY <1>5, <1>6
    <2>2. u[1] <= m
      BY <1>8, <2>1
    <2>3. u[1] = m => u[2] \in G
      BY <1>9, <1>10
    <2>4. u[1] = m => u[2] <= k
      BY <1>12, <2>3
    <2> QED BY <1>8, <1>12, <1>13, <2>1, <2>2, <2>4 DEF Latter
  <1>15. v \in DOMAIN Visible /\ Visible[v] = t /\ \A u \in DOMAIN Visible : Visible[u] = t => Latter(v, u)
    BY <1>1, <1>14
  <1>16. PICK w : w = LatestOf(t)
    OBVIOUS
  <1>17. w = CHOOSE x \in DOMAIN Visible :
                Visible[x] = t /\ \A u \in DOMAIN Visible : Visible[u] = t => Latter(x, u)
    BY <1>16, Zenon DEF LatestOf
  <1>18. w \in DOMAIN Visible /\ Visible[w] = t
    BY <1>15, <1>17, Zenon
  <1> QED BY <1>16, <1>18

LEMMA BoundFacts ==
    ASSUME NEW i, InstanceAccepted(i), LaterResultsUnforced(i)
    PROVE  /\ OperationIs(Bound(i)) /\ Op(Bound(i)) = Op(i)
           /\ \A f \in ToSet(Op(i).operands) : \A x \in ToSet(Bound(i).operands[f.name]) :
                x.type \in TypesUsed(i) /\ x.at = LatestOf(x.type)
  <1>1. PICK b : b = Bound(i)
    OBVIOUS
  <1>2. PICK results : results = [f \in DOMAIN i.results |-> [types |-> i.results[f], used |-> FALSE]]
    OBVIOUS
  <1>3. PICK operands : operands = [f \in DOMAIN i.operands |->
            [n \in DOMAIN i.operands[f] |->
                [type |-> i.operands[f][n], at |-> LatestOf(i.operands[f][n])]]]
    OBVIOUS
  <1>4. b = [op |-> i.op, attributes |-> i.attributes, arguments |-> i.arguments,
             results |-> results, operands |-> operands]
    BY <1>1, <1>2, <1>3, Zenon DEF Bound
  <1>5. /\ {"op", "attributes", "arguments", "results", "operands"} \subseteq DOMAIN b
        /\ b.op = i.op /\ b.attributes = i.attributes /\ b.arguments = i.arguments
        /\ b.results = results /\ b.operands = operands
    BY <1>4
  <1>6. Op(b) = Op(i)
    BY <1>5 DEF Op
  <1>7. /\ i.op \in DOMAIN OpDecls
        /\ AttributesAccepted(i.attributes, Op(i).attributes)
        /\ GroupsAccepted(i.operands, Op(i).operands) /\ GroupsAccepted(i.results, Op(i).results)
        /\ i.arguments \in Seq(DOMAIN Types)
    BY DEF InstanceAccepted
  <1>8. /\ DOMAIN i.operands = Names(Op(i).operands)
        /\ \A f \in ToSet(Op(i).operands) :
            /\ i.operands[f.name] \in Seq(DOMAIN Types) /\ f.name \in DOMAIN i.operands
            /\ f.form = "required" => Len(i.operands[f.name]) = 1
            /\ f.form = "optional" => Len(i.operands[f.name]) <= 1
    BY <1>7 DEF GroupsAccepted, Names
  <1>9. /\ DOMAIN i.results = Names(Op(i).results)
        /\ \A f \in ToSet(Op(i).results) :
            /\ i.results[f.name] \in Seq(DOMAIN Types) /\ f.name \in DOMAIN i.results
            /\ f.form = "required" => Len(i.results[f.name]) = 1
    BY <1>7 DEF GroupsAccepted, Names
  <1>10. ASSUME NEW f \in ToSet(Op(i).operands)
         PROVE  /\ IsSeq(operands[f.name]) /\ Len(operands[f.name]) = Len(i.operands[f.name])
                /\ \A x \in ToSet(operands[f.name]) :
                     x.type \in DOMAIN Types /\ x.type \in TypesUsed(i) /\ x.at = LatestOf(x.type)
    <2>1. PICK s \in Seq(DOMAIN Types) : s = i.operands[f.name]
      BY <1>8
    <2>2. PICK N \in Nat : N = Len(s) /\ DOMAIN s = 1..N
      BY LenProperties
    <2>3. PICK q : q = [n \in 1..N |-> [type |-> s[n], at |-> LatestOf(s[n])]]
      OBVIOUS
    <2>4. operands[f.name] = q
      BY <1>3, <1>8, <2>1, <2>2, <2>3
    <2>5. PICK T : T = {q[n] : n \in 1..N}
      OBVIOUS
    <2>6. q \in [1..N -> T]
      BY <2>3, <2>5
    <2>7. q \in Seq(T) /\ Len(q) = N /\ DOMAIN q = 1..N
      <3>1. q \in Seq(T) /\ DOMAIN q = 1..N
        BY <2>6, SeqDef
      <3> QED BY <3>1, LenProperties
    <2>8. ASSUME NEW x \in ToSet(q) PROVE x.type \in DOMAIN Types /\ x.type \in TypesUsed(i) /\ x.at = LatestOf(x.type)
      <3>1. PICK n \in 1..N : x = q[n]
        BY <2>7 DEF ToSet
      <3>2. PICK t : t = s[n]
        OBVIOUS
      <3>3. x = [type |-> t, at |-> LatestOf(t)]
        BY <2>3, <3>1, <3>2
      <3>4. t \in DOMAIN Types /\ t \in ToSet(s)
        BY <2>2, <3>2, ElementOfSeq DEF ToSet
      <3>5. f.name \in DOMAIN i.operands /\ t \in ToSet(i.operands[f.name])
        BY <1>8, <2>1, <3>4
      <3>6. t \in TypesUsed(i)
        BY <3>5 DEF TypesUsed
      <3>7. x.type = t /\ x.at = LatestOf(t)
        BY <3>3
      <3> QED BY <3>4, <3>6, <3>7
    <2> QED BY <2>1, <2>2, <2>4, <2>7, <2>8 DEF IsSeq
  <1>11. OperandsAre(b)
    <2>1. DOMAIN operands = Names(Op(b).operands)
      BY <1>3, <1>6, <1>8
    <2> QED BY <1>5, <1>6, <1>8, <1>10, <2>1 DEF OperandsAre
  <1>12. ASSUME NEW f \in ToSet(Op(i).results)
         PROVE  /\ {"types", "used"} \subseteq DOMAIN results[f.name]
                /\ results[f.name].types = i.results[f.name]
                /\ results[f.name].used \in BOOLEAN
    <2>1. results[f.name] = [types |-> i.results[f.name], used |-> FALSE]
      BY <1>2, <1>9
    <2> QED BY <2>1
  <1>13. ResultsAre(b)
    <2>1. DOMAIN results = Names(Op(b).results)
      BY <1>2, <1>6, <1>9
    <2>2. \A f \in ToSet(Op(i).results) : Evolved(Op(i), f) =>
             \A t \in Registered(ToSet(i.results[f.name])) : ~TypeRefused(t, f.since)
      BY DEF LaterResultsUnforced
    <2> QED BY <1>5, <1>6, <1>9, <1>12, <2>1, <2>2 DEF ResultsAre
  <1>14. OperationIs(b)
    BY <1>5, <1>6, <1>7, <1>11, <1>13 DEF OperationIs
  <1> QED BY <1>1, <1>5, <1>6, <1>10, <1>14

LEMMA UsingFacts ==
    ASSUME NEW i, NEW n, OperationIs(module[n])
    PROVE  /\ OperationIs(Using(i, n)) /\ Op(Using(i, n)) = Op(module[n])
           /\ Using(i, n).operands = module[n].operands
           /\ ResultTypes(Using(i, n)) = ResultTypes(module[n])
           /\ \A f \in ToSet(Op(module[n]).results) :
                /\ Using(i, n).results[f.name].types = module[n].results[f.name].types
                /\ module[n].results[f.name].used => Using(i, n).results[f.name].used
                /\ (\E t \in TypesUsed(i) : LatestOf(t)[1] = n
                        /\ t \in ToSet(module[n].results[f.name].types))
                   => Using(i, n).results[f.name].used
  <1>1. PICK m : m = module[n]
    OBVIOUS
  <1>2. PICK U : U = {f \in DOMAIN m.results : \E t \in TypesUsed(i) : LatestOf(t)[1] = n
                        /\ t \in ToSet(m.results[f].types)}
    OBVIOUS
  <1>3. PICK results : results = [f \in DOMAIN m.results |->
                            [m.results[f] EXCEPT !.used = m.results[f].used \/ f \in U]]
    OBVIOUS
  <1>4. PICK u : u = Using(i, n)
    OBVIOUS
  <1>5. u = [m EXCEPT !.results = results]
    BY <1>1, <1>2, <1>3, <1>4, Zenon DEF Using
  <1>6. /\ {"op", "attributes", "arguments", "results", "operands"} \subseteq DOMAIN m
        /\ m.op \in DOMAIN OpDecls
        /\ AttributesAccepted(m.attributes, Op(m).attributes)
        /\ m.arguments \in Seq(DOMAIN Types)
        /\ OperandsAre(m) /\ ResultsAre(m)
    BY <1>1 DEF OperationIs
  <1>7. /\ DOMAIN u = DOMAIN m /\ u.op = m.op /\ u.attributes = m.attributes
        /\ u.arguments = m.arguments /\ u.operands = m.operands /\ u.results = results
    BY <1>5, <1>6
  <1>8. Op(u) = Op(m)
    BY <1>7 DEF Op
  <1>9. \A f \in ToSet(Op(m).results) :
            /\ f.name \in DOMAIN m.results
            /\ {"types", "used"} \subseteq DOMAIN m.results[f.name]
            /\ m.results[f.name].used \in BOOLEAN
    BY <1>6 DEF ResultsAre, Names
  <1>10. ASSUME NEW f \in ToSet(Op(m).results)
         PROVE  /\ {"types", "used"} \subseteq DOMAIN results[f.name]
                /\ results[f.name].types = m.results[f.name].types
                /\ results[f.name].used = (m.results[f.name].used \/ f.name \in U)
    <2>1. PICK r : r = m.results[f.name]
      OBVIOUS
    <2>2. {"types", "used"} \subseteq DOMAIN r /\ f.name \in DOMAIN m.results
      BY <1>9, <2>1
    <2>3. PICK w : w = (m.results[f.name].used \/ f.name \in U)
      OBVIOUS
    <2>4. results[f.name] = [r EXCEPT !.used = w]
      BY <1>3, <2>1, <2>2, <2>3
    <2>5. PICK q : q = [r EXCEPT !.used = w]
      OBVIOUS
    <2>6. {"types", "used"} \subseteq DOMAIN q /\ q.types = r.types /\ q.used = w
      BY <2>2, <2>5
    <2>7. results[f.name] = q
      BY <2>4, <2>5
    <2> QED BY <2>1, <2>3, <2>6, <2>7, Zenon
  <1>11. OperandsAre(u)
    BY <1>6, <1>7, <1>8 DEF OperandsAre
  <1>12. ResultsAre(u)
    <2>1. DOMAIN results = Names(Op(u).results)
      BY <1>3, <1>6, <1>8 DEF ResultsAre
    <2>2. \A f \in ToSet(Op(m).results) :
            /\ m.results[f.name].types \in Seq(DOMAIN Types)
            /\ f.form = "required" => Len(m.results[f.name].types) = 1
            /\ Evolved(Op(m), f) =>
                \A t \in Registered(ToSet(m.results[f.name].types)) : ~TypeRefused(t, f.since)
      BY <1>6 DEF ResultsAre
    <2>3. \A f \in ToSet(Op(m).results) : results[f.name].used \in BOOLEAN
      BY <1>10
    <2>4. \A f \in ToSet(Op(m).results) :
            /\ {"types", "used"} \subseteq DOMAIN results[f.name]
            /\ results[f.name].types = m.results[f.name].types
      BY <1>10
    <2> QED BY <1>7, <1>8, <2>1, <2>2, <2>3, <2>4 DEF ResultsAre
  <1>13. OperationIs(u)
    BY <1>6, <1>7, <1>8, <1>11, <1>12 DEF OperationIs
  <1>14. ResultTypes(u) = ResultTypes(m)
    <2>1. PICK fields : fields = Op(m).results
      OBVIOUS
    <2>2. \A k \in DOMAIN fields : fields[k] \in ToSet(fields)
      BY DEF ToSet
    <2>3. \A k \in DOMAIN fields : u.results[fields[k].name].types = m.results[fields[k].name].types
      BY <1>7, <1>10, <2>1, <2>2
    <2>4. [k \in DOMAIN fields |-> u.results[fields[k].name].types]
            = [k \in DOMAIN fields |-> m.results[fields[k].name].types]
      BY <2>3
    <2> QED BY <1>8, <2>1, <2>4 DEF ResultTypes
  <1>15. ASSUME NEW f \in ToSet(Op(m).results)
         PROVE  /\ u.results[f.name].types = m.results[f.name].types
                /\ m.results[f.name].used => u.results[f.name].used
                /\ (\E t \in TypesUsed(i) : LatestOf(t)[1] = n
                        /\ t \in ToSet(m.results[f.name].types))
                   => u.results[f.name].used
    <2>1. u.results = results /\ f.name \in DOMAIN m.results
      BY <1>7, <1>9
    <2>2. f.name \in U <=> \E t \in TypesUsed(i) : LatestOf(t)[1] = n
                        /\ t \in ToSet(m.results[f.name].types)
      BY <1>2, <2>1
    <2> QED BY <1>10, <2>1, <2>2, Zenon
  <1> QED BY <1>1, <1>4, <1>7, <1>8, <1>13, <1>14, <1>15

LEMMA AddKeepsBuilt ==
    ASSUME Built(arguments, module), Len(module) < Len(Instances),
           NEW i \in Instances[Len(module) + 1],
           \A t \in TypesUsed(i) : \E v \in DOMAIN Visible : Visible[v] = t,
           NEW mod, mod = Append([n \in DOMAIN module |-> Using(i, n)], Bound(i))
    PROVE  Built(arguments, mod) /\ Len(mod) = Len(module) + 1
  <1>1. PICK N \in Nat : N = Len(module) /\ DOMAIN module = 1..N
    BY SeqIs DEF Built
  <1>2. InstanceAccepted(i) /\ LaterResultsUnforced(i)
    <2>1. Len(Instances) \in Nat
      BY InstancesAssumption, LenProperties
    <2>2. N + 1 \in 1..Len(Instances)
      BY <1>1, <2>1
    <2> QED BY <1>1, <2>2, InstancesAssumption
  <1>3. /\ IsSeq(mod) /\ Len(mod) = N + 1 /\ mod[N + 1] = Bound(i)
        /\ \A n \in 1..N : mod[n] = Using(i, n)
    <2>1. PICK T : T = {Using(i, n) : n \in 1..N} \cup {Bound(i)}
      OBVIOUS
    <2>2. PICK s : s = [n \in 1..N |-> Using(i, n)]
      OBVIOUS
    <2>3. s \in [1..N -> T] /\ Bound(i) \in T
      BY <2>1, <2>2
    <2>4. s \in Seq(T)
      BY <2>3, SeqDef
    <2>5. Len(s) = N
      BY <2>2, <2>4, LenProperties
    <2>6. mod = Append(s, Bound(i))
      BY <1>1, <2>2
    <2>7. /\ mod \in Seq(T) /\ Len(mod) = N + 1 /\ mod[N + 1] = Bound(i)
          /\ \A n \in 1..N : mod[n] = s[n]
      <3>1. Append(s, Bound(i)) \in Seq(T) /\ Len(Append(s, Bound(i))) = N + 1
        BY <2>3, <2>4, <2>5, AppendProperties
      <3>2. Append(s, Bound(i))[N + 1] = Bound(i) /\ \A n \in 1..N : Append(s, Bound(i))[n] = s[n]
        BY <2>3, <2>4, <2>5, AppendProperties
      <3> QED BY <2>6, <3>1, <3>2
    <2>8. IsSeq(mod)
      BY <2>7, Zenon DEF IsSeq
    <2>9. \A n \in 1..N : mod[n] = Using(i, n)
      BY <2>2, <2>7
    <2> QED BY <2>7, <2>8, <2>9
  <1>4. \A n \in 1..N : OperationIs(module[n]) /\ OperandsBefore(n, arguments, module)
    BY <1>1 DEF Built
  <1>5. ASSUME NEW n \in 1..N
        PROVE  /\ OperationIs(mod[n]) /\ Op(mod[n]) = Op(module[n])
               /\ mod[n].operands = module[n].operands
               /\ ResultTypes(mod[n]) = ResultTypes(module[n])
               /\ \A f \in ToSet(Op(module[n]).results) :
                    /\ mod[n].results[f.name].types = module[n].results[f.name].types
                    /\ module[n].results[f.name].used => mod[n].results[f.name].used
                    /\ (\E t \in TypesUsed(i) : LatestOf(t)[1] = n
                            /\ t \in ToSet(module[n].results[f.name].types))
                       => mod[n].results[f.name].used
    BY <1>3, <1>4, UsingFacts
  <1>6. ASSUME NEW n \in 1..N, NEW x, OperandBefore(x, n, arguments, module)
        PROVE  OperandBefore(x, n, arguments, mod)
    <2>1. CASE \E k \in DOMAIN arguments : x.at = <<0, k>> /\ arguments[k] = x.type
      BY <2>1 DEF OperandBefore
    <2>2. CASE ~ \E k \in DOMAIN arguments : x.at = <<0, k>> /\ arguments[k] = x.type
      <3>1. PICK m \in 1..n - 1 : \E k \in DOMAIN ResultTypes(module[m]) :
                /\ x.at = <<m, k>> /\ ResultTypes(module[m])[k] = x.type
                /\ \A f \in ToSet(Op(module[m]).results) :
                        x.type \in ToSet(module[m].results[f.name].types)
                            => module[m].results[f.name].used
        BY <1>6, <2>2 DEF OperandBefore
      <3>2. m \in 1..N
        BY <1>1, <3>1
      <3>3. \E k \in DOMAIN ResultTypes(mod[m]) :
                /\ x.at = <<m, k>> /\ ResultTypes(mod[m])[k] = x.type
                /\ \A f \in ToSet(Op(mod[m]).results) :
                        x.type \in ToSet(mod[m].results[f.name].types)
                            => mod[m].results[f.name].used
        <4>1. ResultTypes(mod[m]) = ResultTypes(module[m]) /\ Op(mod[m]) = Op(module[m])
          BY <1>5, <3>2
        <4>2. \A f \in ToSet(Op(module[m]).results) :
                    /\ mod[m].results[f.name].types = module[m].results[f.name].types
                    /\ module[m].results[f.name].used => mod[m].results[f.name].used
          BY <1>5, <3>2
        <4>3. \A f \in ToSet(Op(mod[m]).results) :
                  x.type \in ToSet(mod[m].results[f.name].types) => mod[m].results[f.name].used
          BY <3>1, <4>1, <4>2
        <4> QED BY <3>1, <4>1, <4>3
      <3> QED BY <3>1, <3>3 DEF OperandBefore
    <2> QED BY <2>1, <2>2
  <1>7. \A n \in 1..N : OperandsBefore(n, arguments, mod)
    BY <1>4, <1>5, <1>6 DEF OperandsBefore
  <1>8. /\ OperationIs(Bound(i)) /\ Op(Bound(i)) = Op(i)
        /\ \A f \in ToSet(Op(i).operands) : \A x \in ToSet(Bound(i).operands[f.name]) :
              x.type \in TypesUsed(i) /\ x.at = LatestOf(x.type)
    BY <1>2, BoundFacts
  <1>9. ASSUME NEW x, x.type \in TypesUsed(i), x.at = LatestOf(x.type)
        PROVE  OperandBefore(x, N + 1, arguments, mod)
    <2>1. PICK v : v = x.at
      OBVIOUS
    <2>2. PICK t : t = x.type
      OBVIOUS
    <2>3. v \in DOMAIN Visible /\ Visible[v] = t /\ v = LatestOf(t) /\ t \in TypesUsed(i)
      BY <1>9, <2>1, <2>2, LatestFacts
    <2>4. CASE \E k \in DOMAIN arguments : v = <<0, k>> /\ Visible[v] = arguments[k]
      BY <2>1, <2>2, <2>3, <2>4 DEF OperandBefore
    <2>5. CASE \E n \in 1..Len(module) : \E k \in DOMAIN ResultTypes(module[n]) :
                    v = <<n, k>> /\ Visible[v] = ResultTypes(module[n])[k]
      <3>a. PICK n \in 1..N : \E k \in DOMAIN ResultTypes(module[n]) :
                    v = <<n, k>> /\ Visible[v] = ResultTypes(module[n])[k]
        BY <1>1, <2>5
      <3>1. PICK k \in DOMAIN ResultTypes(module[n]) :
                    v = <<n, k>> /\ Visible[v] = ResultTypes(module[n])[k]
        BY <3>a
      <3>2. v[1] = n
        BY <3>1
      <3>3. LatestOf(t)[1] = n
        BY <2>3, <3>2
      <3>4. \A f \in ToSet(Op(mod[n]).results) :
                t \in ToSet(mod[n].results[f.name].types) => mod[n].results[f.name].used
        <4>1. ASSUME NEW f \in ToSet(Op(mod[n]).results), t \in ToSet(mod[n].results[f.name].types)
              PROVE  mod[n].results[f.name].used
          <5>1. f \in ToSet(Op(module[n]).results)
            BY <1>5
          <5>2. t \in ToSet(module[n].results[f.name].types)
            BY <1>5, <4>1, <5>1
          <5> QED BY <1>5, <2>3, <3>3, <5>1, <5>2
        <4> QED BY <4>1
      <3>5. k \in DOMAIN ResultTypes(mod[n]) /\ ResultTypes(mod[n])[k] = t
        BY <1>5, <2>3, <3>1
      <3>6. n \in 1..(N + 1) - 1
        BY <1>1
      <3>7. x.at = <<n, k>> /\ x.type = t
        BY <2>1, <2>2, <3>1
      <3>8. /\ x.at = <<n, k>> /\ ResultTypes(mod[n])[k] = x.type
            /\ \A f \in ToSet(Op(mod[n]).results) :
                x.type \in ToSet(mod[n].results[f.name].types) => mod[n].results[f.name].used
        BY <3>4, <3>5, <3>7
      <3> QED BY <3>5, <3>6, <3>8 DEF OperandBefore
    <2> QED BY <2>3, <2>4, <2>5, VisibleFacts
  <1>10. OperandsBefore(N + 1, arguments, mod)
    BY <1>3, <1>8, <1>9 DEF OperandsBefore
  <1>11. \A n \in 1..N + 1 : OperationIs(mod[n]) /\ OperandsBefore(n, arguments, mod)
    <2>1. \A n \in 1..N + 1 : n \in 1..N \/ n = N + 1
      BY <1>1
    <2> QED BY <1>3, <1>5, <1>7, <1>8, <1>10, <2>1
  <1>12. Len(mod) <= Len(Instances)
    <2>1. Len(Instances) \in Nat
      BY InstancesAssumption, LenProperties
    <2> QED BY <1>1, <1>3, <2>1
  <1>13. arguments \in Seq(DOMAIN Types)
    BY DEF Built
  <1> QED BY <1>1, <1>3, <1>11, <1>12, <1>13 DEF Built

(* The inductive invariant, in four parts: what is built, what has been    *)
(* analysed, what the version so far is due to, and what has been written. *)
Shape ==
    /\ phase \in {"build", "analyse", "write", "refused", "written", "read", "malformed", "done"}
    /\ Built(arguments, module) /\ current \in 0..Len(module)
    /\ maxVersion \in Supported

Asked(i, version, seen) == (\A w \in Asks(i) : w <= version) /\ ScoredTypes(i) \subseteq seen

Looked ==
    /\ phase = "build" => maxVersion = 1 /\ processedTypes = {} /\ current = 0
    /\ \A t \in processedTypes : t \in DOMAIN Types /\ TypeVersion[t] <= maxVersion
    /\ phase # "build" => ToSet(arguments) \subseteq processedTypes
    /\ phase # "build" => \A n \in 1..Len(module) :
            (phase = "analyse" /\ n > current) \/ Asked(module[n], maxVersion, processedTypes)

NeededBy(w, i) == w \in Asks(i) \/ \E t \in ScoredTypes(i) : TypeVersion[t] = w

Needed ==
    \/ maxVersion = 1
    \/ \E t \in ToSet(arguments) : TypeVersion[t] = maxVersion
    \/ \E n \in 1..Len(module) : NeededBy(maxVersion, module[n])

Accepted(i, v, table) == ~OpRefused(i, v) /\ Registered(OpTypes(i, v)) \subseteq table

InFile == phase \in {"written", "read", "malformed", "done"}

Taken ==
    phase \notin {"build", "analyse"} =>
        /\ target \in Supported
        /\ Registered(ToSet(arguments)) \subseteq typeTable
        /\ \A n \in 1..Len(module) : (~InFile /\ n > current) \/ Accepted(module[n], target, typeTable)
        /\ \A t \in typeTable :
            \/ t \in Registered(ToSet(arguments))
            \/ \E n \in 1..Len(module) : t \in Registered(OpTypes(module[n], target))
        /\ InFile => \A t \in typeTable : ~TypeRefused(t, target)
        /\ phase = "refused" => \/ \E n \in 1..Len(module) : OpRefused(module[n], target)
                                \/ \E t \in typeTable : TypeRefused(t, target)

IInv == Shape /\ Looked /\ Needed /\ Taken

(* What is built is made of types in use and accepted operations.          *)
LEMMA ArgumentsInUse ==
    ASSUME Shape
    PROVE  /\ ToSet(arguments) \in SUBSET DOMAIN Types
           /\ Len(module) \in Nat /\ DOMAIN module = 1..Len(module)
           /\ \A n \in 1..Len(module) : OperationIs(module[n])
  <1>1. Built(arguments, module)
    BY DEF Shape
  <1>2. arguments \in Seq(DOMAIN Types)
    BY <1>1 DEF Built
  <1>3. ToSet(arguments) \in SUBSET DOMAIN Types
    BY <1>2, ElementOfSeq DEF ToSet
  <1>4. Len(module) \in Nat /\ DOMAIN module = 1..Len(module)
    BY <1>1, SeqIs DEF Built
  <1> QED BY <1>1, <1>3, <1>4 DEF Built

(* The invariant holds at the start, and the steps up to the analysis      *)
(* keep it.                                                                *)
LEMMA InitHolds ==
    ASSUME Init
    PROVE  IInv
  <1>1. phase = "build" /\ arguments \in Signatures /\ module = <<>> /\ current = 0
        /\ maxVersion = 1 /\ processedTypes = {}
    BY DEF Init
  <1>2. Built(arguments, module)
    <2>1. arguments \in Seq(DOMAIN Types)
      BY <1>1, InstancesAssumption
    <2>2. IsSeq(module) /\ Len(module) = 0
      BY <1>1, NoElements
    <2>3. Len(Instances) \in Nat
      BY InstancesAssumption, LenProperties
    <2> QED BY <2>1, <2>2, <2>3 DEF Built
  <1>3. Shape
    BY <1>1, <1>2, SomeVersions DEF Shape
  <1> QED BY <1>1, <1>3 DEF IInv, Looked, Needed, Taken

LEMMA AddKeeps ==
    ASSUME IInv, NEW i, AddOperation(i)
    PROVE  IInv'
  <1>1. /\ phase = "build" /\ Len(module) < Len(Instances) /\ i \in Instances[Len(module) + 1]
        /\ \A t \in TypesUsed(i) : \E v \in DOMAIN Visible : Visible[v] = t
        /\ phase' = phase /\ arguments' = arguments /\ current' = current
        /\ maxVersion' = maxVersion /\ processedTypes' = processedTypes
    BY DEF AddOperation, analysis
  <1>2. PICK mod : mod = Append([n \in DOMAIN module |-> Using(i, n)], Bound(i)) /\ module' = mod
    BY DEF AddOperation
  <1>3. Built(arguments, module)
    BY DEF IInv, Shape
  <1>4. Built(arguments, mod) /\ Len(mod) = Len(module) + 1
    BY <1>1, <1>2, <1>3, AddKeepsBuilt
  <1>5. current = 0 /\ maxVersion = 1 /\ processedTypes = {}
    BY <1>1 DEF IInv, Looked
  <1>6. Len(module) \in Nat /\ maxVersion \in Supported
    BY ArgumentsInUse DEF IInv, Shape
  <1>7. Shape'
    <2>1. Built(arguments, module)'
      BY <1>1, <1>2, <1>4
    <2>2. current' \in 0..Len(module')
      BY <1>1, <1>2, <1>4, <1>5, <1>6
    <2> QED BY <1>1, <1>6, <2>1, <2>2 DEF Shape
  <1>8. Looked' /\ Needed' /\ Taken'
    BY <1>1, <1>5 DEF Looked, Needed, Taken
  <1> QED BY <1>7, <1>8 DEF IInv

LEMMA StartAnalysisKeeps ==
    ASSUME IInv, StartAnalysis
    PROVE  IInv'
  <1>1. /\ phase = "build" /\ phase' = "analyse"
        /\ maxVersion' = Max({maxVersion} \cup {TypeVersion[t] : t \in ToSet(arguments)})
        /\ processedTypes' = ToSet(arguments)
        /\ arguments' = arguments /\ module' = module /\ current' = current
    BY DEF StartAnalysis, program
  <1>2. Shape /\ maxVersion = 1 /\ processedTypes = {} /\ current = 0
    BY <1>1 DEF IInv, Looked
  <1>3. PICK S : S = {maxVersion} \cup {TypeVersion[t] : t \in ToSet(arguments)}
    OBVIOUS
  <1>4. S \subseteq 1..Latest
    BY <1>2, <1>3, ArgumentsInUse, TypeVersionFacts, SomeVersions
  <1>5. Bounded(S)
    <2>1. S \subseteq 0..Latest /\ S # {}
      BY <1>3, <1>4, SomeVersions
    <2> QED BY <2>1, SomeVersions DEF Bounded
  <1>6. PICK m : m = Max(S) /\ IsMax(m, S)
    BY <1>5, MaxIs
  <1>7. m \in S /\ (\A x \in S : x <= m) /\ maxVersion' = m
    BY <1>1, <1>3, <1>6 DEF IsMax
  <1>8. Shape'
    <2>1. Built(arguments, module)'
      BY <1>1, <1>2 DEF Shape
    <2>2. current' \in 0..Len(module')
      BY <1>1, <1>2 DEF Shape
    <2>3. maxVersion' \in Supported
      BY <1>4, <1>7, SomeVersions
    <2> QED BY <1>1, <2>1, <2>2, <2>3 DEF Shape
  <1>9. Looked'
    <2>1. \A t \in ToSet(arguments) : t \in DOMAIN Types /\ TypeVersion[t] <= m
      BY <1>2, <1>3, <1>7, ArgumentsInUse
    <2>2. \A n \in 1..Len(module) : n > 0
      BY <1>2, ArgumentsInUse
    <2> QED BY <1>1, <1>2, <1>7, <2>1, <2>2 DEF Looked
  <1>10. Needed'
    BY <1>1, <1>2, <1>3, <1>7 DEF Needed
  <1>11. Taken'
    BY <1>1 DEF Taken
  <1> QED BY <1>8, <1>9, <1>10, <1>11 DEF IInv

LEMMA AnalyseOperationKeeps ==
    ASSUME IInv, AnalyseOperation
    PROVE  IInv'
  <1>1. /\ phase = "analyse" /\ current < Len(module) /\ current' = current + 1
        /\ phase' = phase /\ arguments' = arguments /\ module' = module
    BY DEF AnalyseOperation, program
  <1>2. PICK i : i = module[current + 1]
    OBVIOUS
  <1>3. PICK ov : ov = OpVersion(i, processedTypes)
    OBVIOUS
  <1>4. maxVersion' = Max({maxVersion, ov}) /\ processedTypes' = processedTypes \cup ScoredTypes(i)
    BY <1>2, <1>3 DEF AnalyseOperation
  <1>5. Shape /\ Looked /\ Needed
    BY DEF IInv
  <1>6. /\ current \in 0..Len(module) /\ Len(module) \in Nat /\ maxVersion \in 1..Latest
        /\ Built(arguments, module)
    BY <1>5, ArgumentsInUse, SomeVersions DEF Shape
  <1>7. current + 1 \in 1..Len(module)
    BY <1>1, <1>6
  <1>8. OperationIs(i)
    BY <1>2, <1>5, <1>7, ArgumentsInUse
  <1>9. PICK A : A = Asks(i) \cup {TypeVersion[t] : t \in ScoredTypes(i) \ processedTypes}
    OBVIOUS
  <1>10. /\ ScoredTypes(i) \in SUBSET DOMAIN Types /\ Asks(i) \subseteq 1..Latest
         /\ ov \in A /\ \A x \in A : x <= ov
    BY <1>3, <1>8, <1>9, OpVersionFacts DEF IsMax
  <1>11. A \subseteq 1..Latest
    BY <1>9, <1>10, TypeVersionFacts
  <1>12. PICK m : m = Max({maxVersion, ov}) /\ IsMax(m, {maxVersion, ov})
    <2>1. {maxVersion, ov} \subseteq 0..Latest /\ {maxVersion, ov} # {}
      BY <1>6, <1>10, <1>11
    <2>2. Bounded({maxVersion, ov})
      BY <2>1, SomeVersions DEF Bounded
    <2> QED BY <2>2, MaxIs
  <1>13. m \in {maxVersion, ov} /\ maxVersion <= m /\ ov <= m /\ maxVersion' = m
    BY <1>4, <1>12 DEF IsMax
  <1>14. m \in 1..Latest /\ ov \in 1..Latest
    BY <1>6, <1>10, <1>11, <1>13
  <1>15. Shape'
    <2>1. Built(arguments, module)'
      BY <1>1, <1>6
    <2>2. current' \in 0..Len(module')
      BY <1>1, <1>6
    <2>3. maxVersion' \in Supported
      BY <1>13, <1>14, SomeVersions
    <2> QED BY <1>1, <2>1, <2>2, <2>3 DEF Shape
  <1>16. PICK seen : seen = processedTypes \cup ScoredTypes(i)
    OBVIOUS
  <1>17. \A t \in seen : t \in DOMAIN Types /\ TypeVersion[t] <= m
    <2>1. ASSUME NEW t \in processedTypes PROVE t \in DOMAIN Types /\ TypeVersion[t] <= m
      <3>1. t \in DOMAIN Types /\ TypeVersion[t] <= maxVersion
        BY <1>5 DEF Looked
      <3>2. TypeVersion[t] \in 1..Latest
        BY <3>1, TypeVersionFacts
      <3> QED BY <1>6, <1>13, <1>14, <3>1, <3>2
    <2>2. ASSUME NEW t \in ScoredTypes(i) \ processedTypes
          PROVE  t \in DOMAIN Types /\ TypeVersion[t] <= m
      <3>1. t \in DOMAIN Types /\ TypeVersion[t] \in A
        BY <1>9, <1>10
      <3>2. TypeVersion[t] \in 1..Latest /\ TypeVersion[t] <= ov
        BY <1>10, <3>1, TypeVersionFacts
      <3> QED BY <1>13, <1>14, <3>1, <3>2
    <2> QED BY <1>16, <2>1, <2>2
  <1>18. ASSUME NEW n \in 1..Len(module), ~(n > current + 1)
         PROVE  Asked(module[n], m, seen)
    <2>1. CASE n = current + 1
      <3>1. \A w \in Asks(i) : w <= m
        <4>1. \A w \in Asks(i) : w \in 1..Latest /\ w <= ov
          BY <1>9, <1>10
        <4> QED BY <1>13, <1>14, <4>1
      <3> QED BY <1>2, <1>16, <2>1, <3>1 DEF Asked
    <2>2. CASE n # current + 1
      <3>1. ~(n > current)
        BY <1>6, <1>18, <2>2
      <3>2. Asked(module[n], maxVersion, processedTypes)
        BY <1>1, <1>5, <3>1 DEF Looked
      <3>3. OperationIs(module[n])
        BY <1>5, ArgumentsInUse
      <3>4. Asks(module[n]) \subseteq 1..Latest
        BY <3>3, OpVersionFacts
      <3>5. \A w \in Asks(module[n]) : w <= maxVersion
        BY <3>2 DEF Asked
      <3>6. \A w \in Asks(module[n]) : w <= m
        BY <1>6, <1>13, <1>14, <3>4, <3>5
      <3> QED BY <1>16, <3>2, <3>6 DEF Asked
    <2> QED BY <2>1, <2>2
  <1>19. ToSet(arguments) \subseteq seen
    BY <1>1, <1>5, <1>16 DEF Looked
  <1>20. Looked'
    BY <1>1, <1>4, <1>13, <1>16, <1>17, <1>18, <1>19 DEF Looked
  <1>21. Needed'
    <2>1. CASE m = maxVersion
      BY <1>1, <1>5, <1>13, <2>1 DEF Needed
    <2>2. CASE m = ov
      <3>1. NeededBy(m, module[current + 1])
        BY <1>2, <1>9, <1>10, <2>2 DEF NeededBy
      <3> QED BY <1>1, <1>7, <1>13, <3>1 DEF Needed
    <2> QED BY <1>13, <2>1, <2>2
  <1>22. Taken'
    BY <1>1 DEF Taken
  <1> QED BY <1>15, <1>20, <1>21, <1>22 DEF IInv

(* Once every operation has been analysed, the version is no less than any *)
(* of them asks for, and nothing changes that any more.                    *)
LEMMA AnalysisDone ==
    ASSUME Looked, Needed, phase = "analyse", current = Len(module), Len(module) \in Nat,
           phase' # "build", phase' # "analyse",
           UNCHANGED <<program, analysis>>
    PROVE  Looked' /\ Needed'
  <1>1. /\ arguments' = arguments /\ module' = module /\ maxVersion' = maxVersion
        /\ processedTypes' = processedTypes
    BY DEF program, analysis
  <1>2. \A n \in 1..Len(module) : ~(n > current)
    OBVIOUS
  <1>3. \A n \in 1..Len(module) : Asked(module[n], maxVersion, processedTypes)
    BY <1>2 DEF Looked
  <1>4. Looked'
    BY <1>1, <1>3 DEF Looked
  <1>5. Needed'
    BY <1>1 DEF Needed
  <1> QED BY <1>4, <1>5

LEMMA AnalysisStays ==
    ASSUME Looked, Needed, phase # "build", phase # "analyse", phase' # "build", phase' # "analyse",
           UNCHANGED <<program, analysis>>
    PROVE  Looked' /\ Needed'
  <1>1. /\ arguments' = arguments /\ module' = module /\ maxVersion' = maxVersion
        /\ processedTypes' = processedTypes
    BY DEF program, analysis
  <1>2. Looked'
    BY <1>1 DEF Looked
  <1>3. Needed'
    BY <1>1 DEF Needed
  <1> QED BY <1>2, <1>3

(* The steps of the writer: what it accepts is not refused, and the type   *)
(* table is what it asked for.  Those of the reader change none of this.   *)
LEMMA StartWritingKeeps ==
    ASSUME IInv, NEW v \in Supported, StartWriting(v)
    PROVE  IInv'
  <1>1. /\ phase = "analyse" /\ current = Len(module) /\ phase' = "write" /\ current' = 0 /\ target' = v
        /\ typeTable' = Registered(ToSet(arguments))
        /\ UNCHANGED <<program, analysis>>
    BY DEF StartWriting
  <1>2. arguments' = arguments /\ module' = module /\ maxVersion' = maxVersion
    BY <1>1 DEF program, analysis
  <1>3. Shape /\ Looked /\ Needed
    BY DEF IInv
  <1>4. Len(module) \in Nat
    BY <1>3, ArgumentsInUse
  <1>5. Shape'
    <2>1. Built(arguments, module)'
      BY <1>2, <1>3 DEF Shape
    <2>2. current' \in 0..Len(module')
      BY <1>1, <1>2, <1>4
    <2> QED BY <1>1, <1>2, <1>3, <2>1, <2>2 DEF Shape
  <1>6. Looked' /\ Needed'
    BY <1>1, <1>3, <1>4, AnalysisDone
  <1>7. Taken'
    <2>1. ~InFile' /\ \A n \in 1..Len(module') : n > current'
      BY <1>1, <1>2, <1>4 DEF InFile
    <2> QED BY <1>1, <1>2, <2>1 DEF Taken
  <1> QED BY <1>5, <1>6, <1>7 DEF IInv

LEMMA WriteOperationKeeps ==
    ASSUME IInv, WriteOperation
    PROVE  IInv'
  <1>1. /\ phase = "write" /\ current < Len(module) /\ target' = target
        /\ UNCHANGED <<program, analysis>>
    BY DEF WriteOperation
  <1>2. arguments' = arguments /\ module' = module /\ maxVersion' = maxVersion
    BY <1>1 DEF program, analysis
  <1>3. Shape /\ Looked /\ Needed /\ Taken
    BY DEF IInv
  <1>4. current \in 0..Len(module) /\ Len(module) \in Nat /\ Built(arguments, module)
    BY <1>3, ArgumentsInUse DEF Shape
  <1>5. current + 1 \in 1..Len(module)
    BY <1>1, <1>4
  <1>6. PICK i : i = module[current + 1]
    OBVIOUS
  <1>7. /\ target \in Supported /\ Registered(ToSet(arguments)) \subseteq typeTable /\ ~InFile
        /\ \A n \in 1..Len(module) : n > current \/ Accepted(module[n], target, typeTable)
        /\ \A t \in typeTable :
            \/ t \in Registered(ToSet(arguments))
            \/ \E n \in 1..Len(module) : t \in Registered(OpTypes(module[n], target))
    BY <1>1, <1>3 DEF Taken, InFile
  <1>8. CASE OpRefused(i, target)
    <2>1. phase' = "refused" /\ current' = current /\ typeTable' = typeTable
      BY <1>6, <1>8, Zenon DEF WriteOperation
    <2>2. Shape'
      <3>1. Built(arguments, module)'
        BY <1>2, <1>4
      <3> QED BY <1>2, <1>3, <1>4, <2>1, <3>1 DEF Shape
    <2>3. Looked' /\ Needed'
      BY <1>1, <1>3, <2>1, AnalysisStays
    <2>4. Taken'
      <3>1. ~InFile'
        BY <2>1 DEF InFile
      <3>2. \E n \in 1..Len(module) : OpRefused(module[n], target)
        BY <1>5, <1>6, <1>8
      <3> QED BY <1>1, <1>2, <1>7, <2>1, <3>1, <3>2 DEF Taken
    <2> QED BY <2>2, <2>3, <2>4 DEF IInv
  <1>9. CASE ~OpRefused(i, target)
    <2>1. phase' = "write" /\ current' = current + 1
            /\ typeTable' = typeTable \cup Registered(OpTypes(i, target))
      BY <1>1, <1>6, <1>9, Zenon DEF WriteOperation
    <2>2. Shape'
      <3>1. Built(arguments, module)'
        BY <1>2, <1>4
      <3>2. current' \in 0..Len(module')
        BY <1>2, <1>5, <2>1
      <3> QED BY <1>2, <1>3, <2>1, <3>1, <3>2 DEF Shape
    <2>3. Looked' /\ Needed'
      BY <1>1, <1>3, <2>1, AnalysisStays
    <2>4. ASSUME NEW n \in 1..Len(module), ~(n > current + 1)
          PROVE  Accepted(module[n], target, typeTable')
      <3>1. CASE n = current + 1
        BY <1>6, <1>9, <2>1, <3>1 DEF Accepted
      <3>2. CASE n # current + 1
        <4>1. ~(n > current)
          BY <1>4, <2>4, <3>2
        <4> QED BY <1>7, <2>1, <4>1 DEF Accepted
      <3> QED BY <3>1, <3>2
    <2>5. ASSUME NEW t \in typeTable'
          PROVE  \/ t \in Registered(ToSet(arguments))
                 \/ \E n \in 1..Len(module) : t \in Registered(OpTypes(module[n], target))
      BY <1>5, <1>6, <1>7, <2>1
    <2>6. Taken'
      <3>1. ~InFile'
        BY <2>1 DEF InFile
      <3> QED BY <1>1, <1>2, <1>7, <2>1, <2>4, <2>5, <3>1 DEF Taken
    <2> QED BY <2>2, <2>3, <2>6 DEF IInv
  <1> QED BY <1>8, <1>9

LEMMA WriteTypeSectionKeeps ==
    ASSUME IInv, WriteTypeSection
    PROVE  IInv'
  <1>1. /\ phase = "write" /\ current = Len(module) /\ current' = current /\ target' = target
        /\ typeTable' = typeTable
        /\ UNCHANGED <<program, analysis>>
    BY DEF WriteTypeSection
  <1>2. arguments' = arguments /\ module' = module /\ maxVersion' = maxVersion
    BY <1>1 DEF program, analysis
  <1>3. Shape /\ Looked /\ Needed /\ Taken
    BY DEF IInv
  <1>4. current \in 0..Len(module) /\ Len(module) \in Nat /\ Built(arguments, module)
    BY <1>3, ArgumentsInUse DEF Shape
  <1>5. \/ phase' = "refused" /\ \E t \in typeTable : TypeRefused(t, target)
        \/ phase' = "written" /\ \A t \in typeTable : ~TypeRefused(t, target)
    BY Zenon DEF WriteTypeSection
  <1>6. Shape'
    <2>1. Built(arguments, module)'
      BY <1>2, <1>4
    <2> QED BY <1>1, <1>2, <1>3, <1>4, <1>5, <2>1 DEF Shape
  <1>7. Looked' /\ Needed'
    BY <1>1, <1>3, <1>5, AnalysisStays
  <1>8. /\ target \in Supported /\ Registered(ToSet(arguments)) \subseteq typeTable
        /\ \A t \in typeTable :
            \/ t \in Registered(ToSet(arguments))
            \/ \E n \in 1..Len(module) : t \in Registered(OpTypes(module[n], target))
    BY <1>1, <1>3 DEF Taken
  <1>9. \A n \in 1..Len(module) : Accepted(module[n], target, typeTable)
    <2>1. \A n \in 1..Len(module) : ~(n > current)
      BY <1>1, <1>4
    <2> QED BY <1>1, <1>3, <2>1 DEF Taken, InFile
  <1>10. Taken'
    <2>1. CASE phase' = "refused" /\ \E t \in typeTable : TypeRefused(t, target)
      <3>1. ~InFile'
        BY <2>1 DEF InFile
      <3> QED BY <1>1, <1>2, <1>8, <1>9, <2>1, <3>1 DEF Taken
    <2>2. CASE phase' = "written" /\ \A t \in typeTable : ~TypeRefused(t, target)
      BY <1>1, <1>2, <1>8, <1>9, <2>2 DEF Taken
    <2> QED BY <1>5, <2>1, <2>2
  <1> QED BY <1>6, <1>7, <1>10 DEF IInv

LEMMA ReadingKeeps ==
    ASSUME IInv, InFile, phase' \in {"read", "malformed", "done"},
           current' \in 0..Len(module), UNCHANGED <<program, analysis, writing>>
    PROVE  IInv'
  <1>1. /\ arguments' = arguments /\ module' = module /\ maxVersion' = maxVersion
        /\ target' = target /\ typeTable' = typeTable /\ UNCHANGED <<program, analysis>>
    BY DEF program, analysis, writing
  <1>2. Shape /\ Looked /\ Needed /\ Taken /\ phase # "build" /\ phase # "analyse"
    BY DEF IInv, InFile
  <1>3. Shape'
    <2>1. Built(arguments, module)'
      BY <1>1, <1>2 DEF Shape
    <2> QED BY <1>1, <1>2, <2>1 DEF Shape
  <1>4. Looked' /\ Needed'
    BY <1>1, <1>2, AnalysisStays
  <1>5. /\ target \in Supported /\ Registered(ToSet(arguments)) \subseteq typeTable
        /\ \A n \in 1..Len(module) : Accepted(module[n], target, typeTable)
        /\ \A t \in typeTable :
            \/ t \in Registered(ToSet(arguments))
            \/ \E n \in 1..Len(module) : t \in Registered(OpTypes(module[n], target))
        /\ \A t \in typeTable : ~TypeRefused(t, target)
    BY <1>2 DEF Taken
  <1>6. Taken'
    BY <1>1, <1>5 DEF Taken
  <1> QED BY <1>3, <1>4, <1>6 DEF IInv

LEMMA StepHolds ==
    ASSUME IInv, [Next]_vars
    PROVE  IInv'
  <1>1. ASSUME NEW i, AddOperation(i) PROVE IInv'
    BY <1>1, AddKeeps
  <1>2. CASE StartAnalysis
    BY <1>2, StartAnalysisKeeps
  <1>3. CASE AnalyseOperation
    BY <1>3, AnalyseOperationKeeps
  <1>4. ASSUME NEW v \in Supported, StartWriting(v) PROVE IInv'
    BY <1>4, StartWritingKeeps
  <1>5. CASE WriteOperation
    BY <1>5, WriteOperationKeeps
  <1>6. CASE WriteTypeSection
    BY <1>6, WriteTypeSectionKeeps
  <1>a. current \in 0..Len(module) /\ Len(module) \in Nat
    BY ArgumentsInUse DEF IInv, Shape
  <1>7. ASSUME NEW r \in Supported, StartReading(r) PROVE IInv'
    <2>1. /\ phase = "written" /\ phase' = "read" /\ current' = 0
          /\ UNCHANGED <<program, analysis, writing>>
      BY <1>7 DEF StartReading
    <2>2. InFile /\ phase' \in {"read", "malformed", "done"} /\ current' \in 0..Len(module)
      BY <1>a, <2>1 DEF InFile
    <2> QED BY <2>1, <2>2, ReadingKeeps
  <1>8. CASE ReadTypeSection
    <2>1. /\ phase = "read" /\ (phase' = phase \/ phase' = "malformed") /\ current' = current
          /\ UNCHANGED <<program, analysis, writing>>
      BY <1>8, Zenon DEF ReadTypeSection
    <2>2. InFile /\ phase' \in {"read", "malformed", "done"}
      BY <2>1 DEF InFile
    <2>3. current' \in 0..Len(module)
      BY <1>a, <2>1
    <2> QED BY <2>1, <2>2, <2>3, ReadingKeeps
  <1>9. CASE ReadOperation
    <2>1. /\ phase = "read" /\ current < Len(module)
          /\ UNCHANGED <<program, analysis, writing>>
      BY <1>9, Zenon DEF ReadOperation
    <2>2. \/ phase' = phase /\ current' = current + 1
          \/ phase' = "malformed" /\ current' = current
      BY <1>9, Zenon DEF ReadOperation
    <2>3. InFile /\ phase' \in {"read", "malformed", "done"}
      BY <2>1, <2>2 DEF InFile
    <2>4. current' \in 0..Len(module)
      BY <1>a, <2>1, <2>2
    <2> QED BY <2>1, <2>3, <2>4, ReadingKeeps
  <1>10. CASE FinishReading
    <2>1. /\ phase = "read" /\ phase' = "done" /\ current' = current
          /\ UNCHANGED <<program, analysis, writing>>
      BY <1>10 DEF FinishReading
    <2>2. InFile /\ phase' \in {"read", "malformed", "done"} /\ current' \in 0..Len(module)
      BY <1>a, <2>1 DEF InFile
    <2> QED BY <2>1, <2>2, ReadingKeeps
  <1>11. CASE UNCHANGED vars
    <2>1. /\ phase' = phase /\ arguments' = arguments /\ module' = module /\ current' = current
          /\ maxVersion' = maxVersion /\ processedTypes' = processedTypes /\ target' = target
          /\ typeTable' = typeTable
      BY <1>11 DEF vars
    <2>2. Shape'
      <3>1. Built(arguments, module)'
        BY <2>1 DEF IInv, Shape
      <3> QED BY <2>1, <3>1 DEF IInv, Shape
    <2>3. Looked' /\ Needed'
      BY <2>1 DEF IInv, Looked, Needed
    <2>4. Taken'
      BY <2>1 DEF IInv, Taken, InFile
    <2> QED BY <2>2, <2>3, <2>4 DEF IInv
  <1> QED BY <1>1, <1>2, <1>3, <1>4, <1>5, <1>6, <1>7, <1>8, <1>9, <1>10, <1>11 DEF Next

(* What is built is a module the verifier lets through (Shape), the        *)
(* analysis has looked at what it is past (Looked), its version is due to  *)
(* something in the module (Needed), and the writer has taken just what it *)
(* is past (Taken): in every state MinVersionAnalyzer, the generated       *)
(* writers and the type table can reach.                                   *)
THEOREM Invariant == Spec => []IInv
  <1> QED BY InitHolds, StepHolds, PTL DEF Spec

(* Every part of a type that is registered is registered; a result that    *)
(* the analysis does not count came later and has no use.                  *)
LEMMA PartRegistered ==
    ASSUME NEW ts, ts \in SUBSET DOMAIN Types, NEW u \in ts
    PROVE  Registered({u}) \subseteq Registered(ts) /\ u \in Registered({u})
  <1>1. {u} \in SUBSET DOMAIN Types
    OBVIOUS
  <1>2. u \in Registered({u})
    BY <1>1, Registering
  <1>3. \A x : x \in Registered(ts) <=> \E t \in ts : x \in Registered({t})
    BY Registering
  <1> QED BY <1>2, <1>3

LEMMA UncountedResult ==
    ASSUME NEW i, OperationIs(i), NEW f \in ToSet(Op(i).results), ~ResultCounts(i, f),
           NEW u \in ToSet(i.results[f.name].types)
    PROVE  Evolved(Op(i), f)
  <1>1. i.results[f.name].types # <<>>
    BY NoElements
  <1> QED BY <1>1 DEF ResultCounts

(* A refusal at or above the analysed version has one of the two reasons.  *)
LEMMA ForeseenHolds ==
    ASSUME IInv
    PROVE  RefusalIsForeseen
  <1> SUFFICES ASSUME phase = "refused", target >= maxVersion
               PROVE  \/ \E n \in DOMAIN module : Overlooked(module[n])
                      \/ \E t \in typeTable : HasLaterParam(t)
    BY DEF RefusalIsForeseen
  <1>1. Shape /\ Looked /\ Taken
    BY DEF IInv
  <1>2. /\ target \in 1..Latest /\ maxVersion \in 1..Latest /\ DOMAIN module = 1..Len(module)
        /\ ToSet(arguments) \in SUBSET DOMAIN Types
    BY <1>1, ArgumentsInUse, SomeVersions DEF Shape, Taken
  <1>3. /\ \A t \in processedTypes : t \in DOMAIN Types /\ TypeVersion[t] <= maxVersion
        /\ ToSet(arguments) \subseteq processedTypes
        /\ \A n \in 1..Len(module) : Asked(module[n], maxVersion, processedTypes)
    BY <1>1 DEF Looked
  <1>4. ASSUME NEW n \in 1..Len(module)
        PROVE  OperationIs(module[n]) /\ ~OpRefused(module[n], target)
    <2>1. PICK i : i = module[n]
      OBVIOUS
    <2>2. OperationIs(i)
      BY <1>1, <2>1, ArgumentsInUse
    <2>3. \A w \in Asks(i) : w <= maxVersion
      BY <1>3, <2>1 DEF Asked
    <2>4. Asks(i) \subseteq 1..Latest
      BY <2>2, OpVersionFacts
    <2>5. \A w \in Asks(i) : w <= target
      BY <1>2, <2>3, <2>4
    <2>6. Op(i).since <= target /\ \A w \in FieldVersions(i) \cup ValueVersions(i) : w <= target
      BY <2>5 DEF Asks
    <2>7. ~OpRefused(i, target)
      BY <1>2, <2>2, <2>6, SomeVersions, Foreseen
    <2> QED BY <2>1, <2>2, <2>7
  <1>5. PICK t \in typeTable : TypeRefused(t, target)
    BY <1>1, <1>4 DEF Taken
  <1>6. SUFFICES ASSUME ~HasLaterParam(t)
                 PROVE  \E n \in DOMAIN module : Overlooked(module[n])
    OBVIOUS
  <1>7. \/ t \in Registered(ToSet(arguments))
        \/ \E n \in 1..Len(module) : t \in Registered(OpTypes(module[n], target))
    BY <1>1, <1>5 DEF Taken
  <1>8. t \in DOMAIN Types
    <2>1. \A n \in 1..Len(module) : OpTypes(module[n], target) \in SUBSET DOMAIN Types
      BY <1>4, OpTypesInUse
    <2>2. \A n \in 1..Len(module) : Registered(OpTypes(module[n], target)) \in SUBSET DOMAIN Types
      BY <2>1, Registering
    <2>3. Registered(ToSet(arguments)) \in SUBSET DOMAIN Types
      BY <1>2, Registering
    <2> QED BY <1>7, <2>2, <2>3
  <1>9. PICK w \in OwnVersions(t) : target < w
    BY <1>2, <1>5, <1>6, <1>8, RefusedType DEF HasLaterParam
  <1>10. ASSUME NEW u \in processedTypes, t \in Registered({u})
         PROVE  FALSE
    <2>1. u \in DOMAIN Types /\ TypeVersion[u] <= maxVersion
      BY <1>3
    <2>2. w <= TypeVersion[u] /\ TypeVersion[u] \in 1..Latest
      BY <1>9, <1>10, <2>1, TypeVersionFacts
    <2>3. w \in 1..Latest
      BY <1>8, <1>9, OwnVersionsFacts
    <2> QED BY <1>2, <1>9, <2>1, <2>2, <2>3
  <1>11. t \notin Registered(ToSet(arguments))
    <2>1. PICK A : A = ToSet(arguments) /\ A \in SUBSET DOMAIN Types
      BY <1>2
    <2>2. \A x : x \in Registered(A) <=> \E a \in A : x \in Registered({a})
      BY <2>1, Registering
    <2> QED BY <1>3, <1>10, <2>1, <2>2
  <1>12. PICK n \in 1..Len(module) : t \in Registered(OpTypes(module[n], target))
    BY <1>7, <1>11
  <1>13. PICK i : i = module[n] /\ OperationIs(i)
    BY <1>4
  <1>14. PICK u \in OpTypes(i, target) : t \in Registered({u})
    <2>1. PICK A : A = OpTypes(i, target) /\ A \in SUBSET DOMAIN Types
      BY <1>13, OpTypesInUse
    <2>2. \A x : x \in Registered(A) <=> \E a \in A : x \in Registered({a})
      BY <2>1, Registering
    <2> QED BY <1>12, <1>13, <2>1, <2>2
  <1>15. u \notin ScoredTypes(i)
    BY <1>3, <1>10, <1>13, <1>14 DEF Asked
  <1>16. u \in DOMAIN Types
    BY <1>13, <1>14, OpTypesInUse
  <1>17. u \notin ToSet(i.arguments)
    BY <1>15 DEF ScoredTypes
  <1>18. u \notin ToSet(ResultsWritten(i, target))
    <2>1. SUFFICES ASSUME u \in ToSet(ResultsWritten(i, target)) PROVE FALSE
      OBVIOUS
    <2>2. PICK f \in ToSet(Op(i).results) :
            (~Evolved(Op(i), f) \/ target >= f.since) /\ u \in ToSet(i.results[f.name].types)
      BY <1>13, <2>1, WrittenFacts
    <2>3. ~ResultCounts(i, f)
      BY <1>15, <2>2 DEF ScoredTypes
    <2>4. Evolved(Op(i), f)
      BY <1>13, <2>2, <2>3, UncountedResult
    <2>5. f.since <= target /\ f.since \in Nat
      <3>1. f.since \in 1..Latest
        BY <1>13, FieldSince
      <3> QED BY <1>2, <2>2, <2>4, <3>1
    <2>6. \A x \in Registered(ToSet(i.results[f.name].types)) : ~TypeRefused(x, f.since)
      BY <1>13, <2>4 DEF OperationIs, ResultsAre
    <2>7. ToSet(i.results[f.name].types) \in SUBSET DOMAIN Types
      <3>1. i.results[f.name].types \in Seq(DOMAIN Types)
        BY <1>13 DEF OperationIs, ResultsAre
      <3> QED BY <3>1, ElementOfSeq DEF ToSet
    <2>8. t \in Registered(ToSet(i.results[f.name].types))
      BY <1>14, <2>2, <2>7, PartRegistered
    <2>9. TypeRefused(t, f.since)
      BY <1>2, <1>5, <1>8, <2>5, RefusedBefore
    <2> QED BY <2>6, <2>8, <2>9
  <1>19. PICK a \in DOMAIN i.attributes : u \in TypesIn(i.attributes[a])
    BY <1>14, <1>17, <1>18 DEF OpTypes
  <1>20. TypesIn(i.attributes[a]) \in SUBSET DOMAIN Types
    BY DEF TypesIn
  <1>21. t \in Registered(TypesIn(i.attributes[a]))
    BY <1>14, <1>19, <1>20, PartRegistered
  <1>22. t \notin processedTypes
    <2>1. {t} \in SUBSET DOMAIN Types
      BY <1>8
    <2>2. t \in Registered({t})
      BY <2>1, Registering
    <2> QED BY <1>10, <2>2
  <1>23. Overlooked(i)
    BY <1>5, <1>19, <1>21, <1>22 DEF Overlooked
  <1> QED BY <1>2, <1>12, <1>13, <1>23

(* A module written below it has an attribute that was left out.           *)
LEMMA TightHolds ==
    ASSUME IInv
    PROVE  AnalysisIsTight
  <1> SUFFICES ASSUME phase \in {"written", "read", "done"}, target < maxVersion,
                      \A n \in DOMAIN module : ~LeftOutAtDefault(module[n])
               PROVE  FALSE
    BY DEF AnalysisIsTight
  <1>1. Shape /\ Needed /\ Taken /\ InFile
    BY DEF IInv, InFile
  <1>2. /\ target \in 1..Latest /\ maxVersion \in 1..Latest /\ DOMAIN module = 1..Len(module)
        /\ ToSet(arguments) \in SUBSET DOMAIN Types
        /\ Built(arguments, module)
    BY <1>1, ArgumentsInUse, SomeVersions DEF Shape, Taken
  <1>3. /\ Registered(ToSet(arguments)) \subseteq typeTable
        /\ \A n \in 1..Len(module) : Accepted(module[n], target, typeTable)
        /\ \A t \in typeTable : ~TypeRefused(t, target)
    BY <1>1 DEF Taken, InFile
  <1>4. ASSUME NEW t \in DOMAIN Types, Registered({t}) \subseteq typeTable
        PROVE  TypeVersion[t] <= target
    <2>1. PICK u \in Registered({t}) : TypeVersion[t] \in OwnVersions(u)
      BY TypeVersionFacts
    <2>2. u \in DOMAIN Types
      <3>1. {t} \in SUBSET DOMAIN Types
        OBVIOUS
      <3> QED BY <2>1, <3>1, Registering
    <2>3. ~TypeRefused(u, target)
      BY <1>3, <1>4, <2>1
    <2> QED BY <1>2, <2>1, <2>2, <2>3, AcceptedType
  <1>5. ASSUME NEW t \in ToSet(arguments)
        PROVE  Registered({t}) \subseteq typeTable /\ t \in DOMAIN Types
    BY <1>2, <1>3, PartRegistered
  <1>6. ASSUME NEW n \in 1..Len(module)
        PROVE  /\ OperationIs(module[n]) /\ Op(module[n]).since <= target
               /\ \A w \in Asks(module[n]) : w <= target
               /\ \A t \in OpTypes(module[n], target) :
                        Registered({t}) \subseteq typeTable /\ t \in DOMAIN Types
               /\ \A f \in ToSet(Op(module[n]).results) :
                    ResultCounts(module[n], f) \/ module[n].results[f.name].used =>
                        ToSet(module[n].results[f.name].types) \subseteq OpTypes(module[n], target)
    <2>1. PICK i : i = module[n]
      OBVIOUS
    <2>2. OperationIs(i) /\ ~OpRefused(i, target) /\ Registered(OpTypes(i, target)) \subseteq typeTable
      BY <1>1, <1>3, <2>1, ArgumentsInUse DEF Accepted
    <2>3. ~LeavesOut(i, target)
      BY <1>2, <2>1 DEF LeavesOut, LeftOutAtDefault
    <2>4. Op(i).since <= target /\ \A w \in FieldVersions(i) \cup ValueVersions(i) : w <= target
      BY <1>2, <2>2, <2>3, SomeVersions, Tight
    <2>5. OpTypes(i, target) \in SUBSET DOMAIN Types
      BY <2>2, OpTypesInUse
    <2>6. \A t \in OpTypes(i, target) : Registered({t}) \subseteq typeTable /\ t \in DOMAIN Types
      BY <2>2, <2>5, PartRegistered
    <2>7. \A f \in ToSet(Op(i).results) : ResultCounts(i, f) \/ i.results[f.name].used =>
                        ToSet(i.results[f.name].types) \subseteq OpTypes(i, target)
      BY <1>2, <2>2, <2>4, SomeVersions, CountedResults
    <2>8. \A w \in Asks(i) : w <= target
      BY <2>4 DEF Asks
    <2> QED BY <2>1, <2>2, <2>4, <2>6, <2>7, <2>8
  <1>7. ASSUME NEW n \in 1..Len(module), NEW t \in ScoredTypes(module[n])
        PROVE  TypeVersion[t] <= target
    <2>1. PICK i : i = module[n]
      OBVIOUS
    <2>2. CASE t \in ToSet(i.arguments)
      <3>1. t \in OpTypes(i, target)
        BY <2>2 DEF OpTypes
      <3> QED BY <1>4, <1>6, <2>1, <3>1
    <2>3. CASE \E f \in ToSet(Op(i).results) : ResultCounts(i, f) /\ t \in ToSet(i.results[f.name].types)
      <3>1. t \in OpTypes(i, target)
        BY <1>6, <2>1, <2>3
      <3> QED BY <1>4, <1>6, <2>1, <3>1
    <2>4. CASE \E f \in ToSet(Op(i).operands) : \E x \in ToSet(i.operands[f.name]) : t = x.type
      <3>a. PICK f \in ToSet(Op(i).operands) : \E x \in ToSet(i.operands[f.name]) : t = x.type
        BY <2>4
      <3>1. PICK x \in ToSet(i.operands[f.name]) : t = x.type
        BY <3>a
      <3>2. OperandBefore(x, n, arguments, module)
        BY <1>2, <2>1, <3>a, <3>1 DEF Built, OperandsBefore
      <3>3. CASE \E k \in DOMAIN arguments : x.at = <<0, k>> /\ arguments[k] = x.type
        <4>1. t \in ToSet(arguments)
          BY <3>1, <3>3 DEF ToSet
        <4> QED BY <1>4, <1>5, <4>1
      <3>4. CASE ~ \E k \in DOMAIN arguments : x.at = <<0, k>> /\ arguments[k] = x.type
        <4>1. PICK m \in 1..n - 1 : \E k \in DOMAIN ResultTypes(module[m]) :
                /\ ResultTypes(module[m])[k] = t
                /\ \A g \in ToSet(Op(module[m]).results) :
                        t \in ToSet(module[m].results[g.name].types)
                            => module[m].results[g.name].used
          BY <3>1, <3>2, <3>4 DEF OperandBefore
        <4>2. m \in 1..Len(module)
          BY <1>1, <4>1, ArgumentsInUse
        <4>3. t \in ToSet(ResultTypes(module[m]))
          BY <4>1 DEF ToSet
        <4>4. OperationIs(module[m])
          BY <1>6, <4>2
        <4>5. PICK g \in ToSet(Op(module[m]).results) : t \in ToSet(module[m].results[g.name].types)
          BY <4>3, <4>4, ResultTypesFacts
        <4>6. module[m].results[g.name].used
          BY <4>1, <4>5
        <4>7. t \in OpTypes(module[m], target)
          BY <1>6, <4>2, <4>5, <4>6
        <4> QED BY <1>4, <1>6, <4>2, <4>7
      <3> QED BY <3>3, <3>4
    <2>5. \/ t \in ToSet(i.arguments)
          \/ \E f \in ToSet(Op(i).results) : ResultCounts(i, f) /\ t \in ToSet(i.results[f.name].types)
          \/ \E f \in ToSet(Op(i).operands) : \E x \in ToSet(i.operands[f.name]) : t = x.type
      BY <2>1 DEF ScoredTypes
    <2> QED BY <2>2, <2>3, <2>4, <2>5
  <1>8. CASE maxVersion = 1
    BY <1>2, <1>8
  <1>9. ASSUME NEW t \in ToSet(arguments), TypeVersion[t] = maxVersion PROVE FALSE
    <2>1. TypeVersion[t] <= target
      BY <1>4, <1>5
    <2> QED BY <1>2, <1>9, <2>1
  <1>10. ASSUME NEW n \in 1..Len(module), NeededBy(maxVersion, module[n]) PROVE FALSE
    <2>1. CASE maxVersion \in Asks(module[n])
      <3>1. maxVersion <= target
        BY <1>6, <2>1
      <3> QED BY <1>2, <3>1
    <2>2. CASE \E t \in ScoredTypes(module[n]) : TypeVersion[t] = maxVersion
      <3>1. PICK t \in ScoredTypes(module[n]) : TypeVersion[t] = maxVersion
        BY <2>2
      <3>2. TypeVersion[t] <= target
        BY <1>7
      <3> QED BY <1>2, <3>1, <3>2
    <2> QED BY <1>10, <2>1, <2>2 DEF NeededBy
  <1> QED BY <1>1, <1>8, <1>9, <1>10 DEF Needed

(* From the version on that getMinBytecodeVersion answers, the writer      *)
(* refuses nothing but a type in an attribute or a type's later parameter, *)
(* which the analysis does not look at.                                    *)
THEOREM RefusalForeseen == Spec => []RefusalIsForeseen
  <1> QED BY Invariant, ForeseenHolds, PTL

(* And below it the writer refuses the module, unless it leaves out a      *)
(* required attribute of a later version that has its default.             *)
THEOREM AnalysisTight == Spec => []AnalysisIsTight
  <1> QED BY Invariant, TightHolds, PTL

(* The state of a reader that has found nothing wrong so far.              *)
St(rest, flags, got) == [rest |-> rest, ok |-> TRUE, flags |-> flags, got |-> got]

Got(D, G) == [x \in D |-> G[x]]

LEMMA NothingGot ==
    ASSUME NEW G
    PROVE  <<>> = Got({}, G)
  <1>1. PICK e : e = <<>>
    OBVIOUS
  <1>2. PICK g : g = Got({}, G)
    OBVIOUS
  <1>3. e \in [{} -> {}]
    <2>1. e \in Seq({}) /\ Len(e) = 0
      BY <1>1
    <2>2. e \in [1..0 -> {}]
      BY <2>1, LenProperties
    <2>3. 1..0 = {}
      OBVIOUS
    <2> QED BY <2>2, <2>3, Zenon
  <1>4. g \in [{} -> {}]
    BY <1>2 DEF Got
  <1>5. e = g
    BY <1>3, <1>4
  <1> QED BY <1>1, <1>2, <1>5

LEMMA StFields ==
    ASSUME NEW rest, NEW flags, NEW got, NEW s, s = St(rest, flags, got)
    PROVE  /\ s.rest = rest /\ s.ok /\ s.flags = flags /\ s.got = got
           /\ DOMAIN s = {"rest", "ok", "flags", "got"}
  BY DEF St

LEMMA RecordWith ==
    ASSUME NEW r, NEW t, NEW f, NEW g, NEW x,
           NEW s, s = [rest |-> r, ok |-> t, flags |-> f, got |-> g]
    PROVE  /\ [s EXCEPT !.rest = x] = [rest |-> x, ok |-> t, flags |-> f, got |-> g]
           /\ [s EXCEPT !.flags = x] = [rest |-> r, ok |-> t, flags |-> x, got |-> g]
           /\ [s EXCEPT !.got = x] = [rest |-> r, ok |-> t, flags |-> f, got |-> x]
  OBVIOUS

LEMMA StWith ==
    ASSUME NEW rest, NEW flags, NEW got, NEW s, s = St(rest, flags, got), NEW x
    PROVE  /\ [s EXCEPT !.rest = x] = St(x, flags, got)
           /\ [s EXCEPT !.flags = x] = St(rest, x, got)
           /\ [s EXCEPT !.got = x] = St(rest, flags, x)
  <1>1. PICK T : T = TRUE
    OBVIOUS
  <1>2. s = [rest |-> rest, ok |-> T, flags |-> flags, got |-> got]
    BY <1>1, Zenon DEF St
  <1>3. /\ [s EXCEPT !.rest = x] = [rest |-> x, ok |-> T, flags |-> flags, got |-> got]
        /\ [s EXCEPT !.flags = x] = [rest |-> rest, ok |-> T, flags |-> x, got |-> got]
        /\ [s EXCEPT !.got = x] = [rest |-> rest, ok |-> T, flags |-> flags, got |-> x]
    BY <1>2, RecordWith
  <1> QED BY <1>1, <1>3, Zenon DEF St

LEMMA RestWith ==
    ASSUME NEW rest, NEW flags, NEW got, NEW s, s = St(rest, flags, got), NEW x
    PROVE  [s EXCEPT !.rest = x] = St(x, flags, got)
  <1>1. /\ [s EXCEPT !.rest = x] = St(x, flags, got)
        /\ [s EXCEPT !.flags = x] = St(rest, x, got)
        /\ [s EXCEPT !.got = x] = St(rest, flags, x)
    BY StWith
  <1> QED BY <1>1

LEMMA FlagsWith ==
    ASSUME NEW rest, NEW flags, NEW got, NEW s, s = St(rest, flags, got), NEW x
    PROVE  [s EXCEPT !.flags = x] = St(rest, x, got)
  <1>1. /\ [s EXCEPT !.rest = x] = St(x, flags, got)
        /\ [s EXCEPT !.flags = x] = St(rest, x, got)
        /\ [s EXCEPT !.got = x] = St(rest, flags, x)
    BY StWith
  <1> QED BY <1>1

LEMMA GotWith ==
    ASSUME NEW rest, NEW flags, NEW got, NEW s, s = St(rest, flags, got), NEW x
    PROVE  [s EXCEPT !.got = x] = St(rest, flags, x)
  <1>1. /\ [s EXCEPT !.rest = x] = St(x, flags, got)
        /\ [s EXCEPT !.flags = x] = St(rest, x, got)
        /\ [s EXCEPT !.got = x] = St(rest, flags, x)
    BY StWith
  <1> QED BY <1>1

(* What is seen, and what is read of it.                                   *)
LEMMA TokenIs ==
    ASSUME NEW tag, NEW of
    PROVE  Token(tag, of).tag = tag /\ Token(tag, of).of = of
  BY DEF Token

LEMMA SeesIs ==
    ASSUME NEW tag, NEW of, NEW more, IsSeq(more), NEW flags, NEW got,
           NEW s, s = St(<<Token(tag, of)>> \o more, flags, got)
    PROVE  /\ \A x : Sees(s, x) <=> x = tag
           /\ Head(s.rest).of = of /\ Head(s.rest).tag = tag /\ Tail(s.rest) = more
           /\ Past(s) = St(more, flags, got)
  <1>1. PICK k : k = Token(tag, of)
    OBVIOUS
  <1>2. k.tag = tag /\ k.of = of
    BY <1>1, TokenIs
  <1>3. PICK rest : rest = <<k>> \o more
    OBVIOUS
  <1>4. rest # <<>> /\ Head(rest) = k /\ Tail(rest) = more
    BY <1>3, ConsFacts
  <1>5. s.rest = rest /\ s.ok
    <2>1. s = St(rest, flags, got)
      BY <1>1, <1>3
    <2> QED BY <2>1, StFields
  <1>6. \A x : Sees(s, x) <=> x = tag
    BY <1>2, <1>4, <1>5 DEF Sees
  <1>7. [s EXCEPT !.rest = more] = St(more, flags, got)
    BY RestWith
  <1>8. Past(s) = [s EXCEPT !.rest = more]
    BY <1>4, <1>5 DEF Past
  <1> QED BY <1>2, <1>4, <1>5, <1>6, <1>7, <1>8

LEMMA KeepIs ==
    ASSUME NEW rest, NEW flags, NEW D, NEW G, NEW f,
           NEW s, s = St(rest, flags, Got(D, G))
    PROVE  Keep(s, f, G[f.name]) = St(rest, flags, Got(D \cup {f.name}, G))
  <1>0. PICK value : value = G[f.name]
    OBVIOUS
  <1>1. PICK name : name = f.name
    OBVIOUS
  <1>2. PICK one : one = [x \in {name} |-> value]
    OBVIOUS
  <1>3. PICK g : g = Got(D, G)
    OBVIOUS
  <1>4. Extended(g, one) = Got(D \cup {name}, G)
    <2>1. DOMAIN g = D /\ DOMAIN one = {name} /\ one[name] = G[name]
      BY <1>0, <1>1, <1>2, <1>3 DEF Got
    <2>2. \A x \in D : g[x] = G[x]
      BY <1>3 DEF Got
    <2>3. \A x \in D \cup {name} : (IF x \in D THEN g[x] ELSE one[x]) = G[x]
      BY <2>1, <2>2
    <2>4. Extended(g, one) = [x \in D \cup {name} |-> IF x \in D THEN g[x] ELSE one[x]]
      BY <2>1 DEF Extended
    <2>5. Extended(g, one) = [x \in D \cup {name} |-> G[x]]
      BY <2>3, <2>4
    <2> QED BY <2>5 DEF Got
  <1>5. s.got = g
    BY <1>3, StFields
  <1>6. Keep(s, f, value) = [s EXCEPT !.got = Extended(g, one)]
    BY <1>1, <1>2, <1>5 DEF Keep
  <1>7. [s EXCEPT !.got = Extended(g, one)] = St(rest, flags, Extended(g, one))
    BY GotWith
  <1> QED BY <1>0, <1>1, <1>4, <1>6, <1>7

LEMMA FieldRead ==
    ASSUME NEW tag, NEW f, NEW G, NEW more, IsSeq(more), NEW flags, NEW D,
           NEW s, s = St(<<Token(tag, G[f.name])>> \o more, flags, Got(D, G))
    PROVE  ReadField(s, tag, f) = St(more, flags, Got(D \cup {f.name}, G))
  <1>1. Sees(s, tag) /\ Head(s.rest).of = G[f.name] /\ Past(s) = St(more, flags, Got(D, G))
    BY SeesIs
  <1>2. ReadField(s, tag, f) = Keep(Past(s), f, G[f.name])
    BY <1>1 DEF ReadField
  <1>3. PICK k : k = Past(s)
    OBVIOUS
  <1>4. k = St(more, flags, Got(D, G))
    BY <1>1, <1>3
  <1>5. Keep(k, f, G[f.name]) = St(more, flags, Got(D \cup {f.name}, G))
    BY <1>4, KeepIs
  <1> QED BY <1>2, <1>3, <1>5

LEMMA FlagsRead ==
    ASSUME NEW of, NEW more, IsSeq(more), NEW flags, NEW got,
           NEW s, s = St(<<Token("flags", of)>> \o more, flags, got)
    PROVE  ReadFlags(s) = St(more, of, got)
  <1>1. Sees(s, "flags") /\ Head(s.rest).of = of /\ Past(s) = St(more, flags, got)
    BY SeesIs
  <1>2. ReadFlags(s) = [Past(s) EXCEPT !.flags = of]
    BY <1>1 DEF ReadFlags
  <1>3. PICK k : k = Past(s)
    OBVIOUS
  <1>4. k = St(more, flags, got)
    BY <1>1, <1>3
  <1>5. [k EXCEPT !.flags = of] = St(more, of, got)
    BY <1>4, FlagsWith
  <1> QED BY <1>2, <1>3, <1>5

(* A group of tokens of one tag.                                           *)
HaveTag(toks, tag) == \A k \in 1..Len(toks) : toks[k].tag = tag

Contents(toks) == [k \in 1..Len(toks) |-> toks[k].of]

LEMMA TokensRead ==
    ASSUME NEW tag, NEW toks, IsSeq(toks), NEW more, IsSeq(more), NEW flags, NEW got,
           HaveTag(toks, tag), NEW s, s = St(toks \o more, flags, got)
    PROVE  /\ ReadTokens(s, tag, Len(toks)) = St(more, flags, got)
           /\ TokensOf(s, Len(toks)) = Contents(toks)
  <1>1. PICK rest : rest = toks \o more
    OBVIOUS
  <1>2. s = St(rest, flags, got)
    BY <1>1
  <1>3. s.rest = rest /\ s.ok
    BY <1>2, StFields
  <1>4. PICK n \in Nat : n = Len(toks)
    BY SeqIs
  <1>5. PICK m \in Nat : m = Len(more)
    BY SeqIs
  <1>6. /\ IsSeq(rest) /\ Len(rest) = n + m
        /\ \A k \in 1..n : rest[k] = toks[k]
        /\ \A k \in 1..m : rest[n + k] = more[k]
    BY <1>1, <1>4, <1>5, JoinFacts
  <1>7. SubSeq(rest, n + 1, Len(rest)) = more
    <2>1. PICK S : more \in Seq(S)
      BY DEF IsSeq
    <2>2. \A k \in n + 1..n + m : rest[k] \in S
      <3>1. ASSUME NEW k \in n + 1..n + m PROVE rest[k] \in S
        <4>1. k - n \in 1..m /\ n + (k - n) = k
          BY <1>4, <1>5
        <4>2. rest[n + (k - n)] = more[k - n]
          BY <1>6, <4>1
        <4>3. more[k - n] \in S
          BY <1>5, <2>1, <4>1, ElementOfSeq
        <4> QED BY <4>1, <4>2, <4>3
      <3> QED BY <3>1
    <2>3. PICK q : q = SubSeq(rest, n + 1, n + m)
      OBVIOUS
    <2>4. /\ q \in Seq(S) /\ Len(q) = IF n + 1 <= n + m THEN n + m - (n + 1) + 1 ELSE 0
          /\ \A k \in 1..n + m - (n + 1) + 1 : q[k] = rest[n + 1 + k - 1]
      <3>1. n + 1 \in Int /\ n + m \in Int
        BY <1>4, <1>5
      <3> QED BY <2>2, <2>3, <3>1, SubSeqProperties
    <2>5. Len(q) = m
      BY <1>4, <1>5, <2>4
    <2>6. \A k \in 1..m : q[k] = more[k]
      <3>1. ASSUME NEW k \in 1..m PROVE q[k] = more[k]
        <4>1. k \in 1..n + m - (n + 1) + 1 /\ n + 1 + k - 1 = n + k
          BY <1>4, <1>5
        <4>2. q[k] = rest[n + k]
          BY <2>4, <4>1
        <4> QED BY <1>6, <4>2
      <3> QED BY <3>1
    <2>7. q = more
      BY <1>5, <2>1, <2>4, <2>5, <2>6, SeqEqual
    <2> QED BY <1>6, <2>3, <2>7
  <1>8. Len(rest) >= n /\ \A k \in 1..n : rest[k].tag = tag
    BY <1>4, <1>5, <1>6 DEF HaveTag
  <1>9. ReadTokens(s, tag, n) = [s EXCEPT !.rest = more]
    BY <1>3, <1>7, <1>8 DEF ReadTokens
  <1>10. [s EXCEPT !.rest = more] = St(more, flags, got)
    BY <1>2, RestWith
  <1>11. TokensOf(s, n) = [k \in 1..n |-> toks[k].of]
    BY <1>3, <1>6 DEF TokensOf
  <1>12. TokensOf(s, n) = Contents(toks)
    BY <1>4, <1>11 DEF Contents
  <1> QED BY <1>4, <1>9, <1>10, <1>12

LEMMA CountRead ==
    ASSUME NEW of, NEW more, IsSeq(more), NEW flags, NEW got,
           NEW s, s = St(<<Token("count", of)>> \o more, flags, got)
    PROVE  ReadCount(s) = St(more, flags, got) /\ CountOf(s) = of
  <1>1. Sees(s, "count") /\ Head(s.rest).of = of /\ Past(s) = St(more, flags, got)
    BY SeesIs
  <1> QED BY <1>1 DEF ReadCount, CountOf

(* A reader that takes fields in turn is where a sequence of states leads  *)
(* that its steps join; one lemma for each reader of a field.              *)

RunsTypeParam(t, d, v, s, fields) ==
    t[0] = s /\ \A n \in 1..Len(fields) : ReadTypeParam(d, v, t[n - 1], fields[n]) = t[n]

AllTypeParam(d, v, s, fields) == ReadEach(LAMBDA q, p : ReadTypeParam(d, v, q, p), s, fields)

LEMMA EachTypeParam ==
    ASSUME NEW d, NEW v, NEW s, NEW fields, IsSeq(fields), NEW t, RunsTypeParam(t, d, v, s, fields)
    PROVE  AllTypeParam(d, v, s, fields) = t[Len(fields)]
  <1>1. PICK N \in Nat : N = Len(fields)
    BY SeqIs
  <1>2. t[0] = s /\ \A n \in 1..N : ReadTypeParam(d, v, t[n - 1], fields[n]) = t[n]
    BY <1>1 DEF RunsTypeParam
  <1>3. PICK a : a = [n \in 0..N |-> t[n]]
    OBVIOUS
  <1>4. a = [n \in 0..Len(fields) |-> IF n = 0 THEN s ELSE ReadTypeParam(d, v, a[n - 1], fields[n])]
    <2>1. \A n \in 0..N : n = 0 \/ (n \in 1..N /\ n - 1 \in 0..N)
      BY <1>1
    <2>2. \A n \in 0..N : a[n] = IF n = 0 THEN s ELSE ReadTypeParam(d, v, a[n - 1], fields[n])
      BY <1>2, <1>3, <2>1
    <2> QED BY <1>1, <1>3, <2>2
  <1>5. PICK run : run = CHOOSE h : h = [n \in 0..Len(fields) |->
                        IF n = 0 THEN s ELSE ReadTypeParam(d, v, h[n - 1], fields[n])]
    OBVIOUS
  <1>6. run = [n \in 0..Len(fields) |-> IF n = 0 THEN s ELSE ReadTypeParam(d, v, run[n - 1], fields[n])]
    BY <1>4, <1>5, Zenon
  <1>7. AllTypeParam(d, v, s, fields) = run[Len(fields)]
    BY <1>5, Zenon DEF ReadEach, AllTypeParam
  <1>8. \A n \in 1..N : run[n - 1] = t[n - 1] => run[n] = t[n]
    <2>1. \A n \in 1..N : n \in 0..N /\ n # 0
      OBVIOUS
    <2> QED BY <1>1, <1>2, <1>6, <2>1
  <1>9. run[0] = t[0]
    BY <1>1, <1>2, <1>6
  <1>10. SameTo(run, t, N)
    BY <1>8, <1>9, StepByStep DEF Agreeing
  <1>11. run[N] = t[N]
    BY <1>10 DEF SameTo
  <1> QED BY <1>1, <1>7, <1>11, Zenon

RunsAttrParam(t, params, s, fields) ==
    t[0] = s /\ \A n \in 1..Len(fields) : ReadAttrParam(params, t[n - 1], fields[n]) = t[n]

AllAttrParam(params, s, fields) == ReadEach(LAMBDA q, p : ReadAttrParam(params, q, p), s, fields)

LEMMA EachAttrParam ==
    ASSUME NEW params, NEW s, NEW fields, IsSeq(fields), NEW t, RunsAttrParam(t, params, s, fields)
    PROVE  AllAttrParam(params, s, fields) = t[Len(fields)]
  <1>1. PICK N \in Nat : N = Len(fields)
    BY SeqIs
  <1>2. t[0] = s /\ \A n \in 1..N : ReadAttrParam(params, t[n - 1], fields[n]) = t[n]
    BY <1>1 DEF RunsAttrParam
  <1>3. PICK a : a = [n \in 0..N |-> t[n]]
    OBVIOUS
  <1>4. a = [n \in 0..Len(fields) |-> IF n = 0 THEN s ELSE ReadAttrParam(params, a[n - 1], fields[n])]
    <2>1. \A n \in 0..N : n = 0 \/ (n \in 1..N /\ n - 1 \in 0..N)
      BY <1>1
    <2>2. \A n \in 0..N : a[n] = IF n = 0 THEN s ELSE ReadAttrParam(params, a[n - 1], fields[n])
      BY <1>2, <1>3, <2>1
    <2> QED BY <1>1, <1>3, <2>2
  <1>5. PICK run : run = CHOOSE h : h = [n \in 0..Len(fields) |->
                        IF n = 0 THEN s ELSE ReadAttrParam(params, h[n - 1], fields[n])]
    OBVIOUS
  <1>6. run = [n \in 0..Len(fields) |-> IF n = 0 THEN s ELSE ReadAttrParam(params, run[n - 1], fields[n])]
    BY <1>4, <1>5, Zenon
  <1>7. AllAttrParam(params, s, fields) = run[Len(fields)]
    BY <1>5, Zenon DEF ReadEach, AllAttrParam
  <1>8. \A n \in 1..N : run[n - 1] = t[n - 1] => run[n] = t[n]
    <2>1. \A n \in 1..N : n \in 0..N /\ n # 0
      OBVIOUS
    <2> QED BY <1>1, <1>2, <1>6, <2>1
  <1>9. run[0] = t[0]
    BY <1>1, <1>2, <1>6
  <1>10. SameTo(run, t, N)
    BY <1>8, <1>9, StepByStep DEF Agreeing
  <1>11. run[N] = t[N]
    BY <1>10 DEF SameTo
  <1> QED BY <1>1, <1>7, <1>11, Zenon

RunsAttribute(t, d, r, v, s, fields) ==
    t[0] = s /\ \A n \in 1..Len(fields) : ReadAttribute(d, r, v, t[n - 1], fields[n]) = t[n]

AllAttribute(d, r, v, s, fields) == ReadEach(LAMBDA q, f : ReadAttribute(d, r, v, q, f), s, fields)

LEMMA EachAttribute ==
    ASSUME NEW d, NEW r, NEW v, NEW s, NEW fields, IsSeq(fields), NEW t, RunsAttribute(t, d, r, v, s, fields)
    PROVE  AllAttribute(d, r, v, s, fields) = t[Len(fields)]
  <1>1. PICK N \in Nat : N = Len(fields)
    BY SeqIs
  <1>2. t[0] = s /\ \A n \in 1..N : ReadAttribute(d, r, v, t[n - 1], fields[n]) = t[n]
    BY <1>1 DEF RunsAttribute
  <1>3. PICK a : a = [n \in 0..N |-> t[n]]
    OBVIOUS
  <1>4. a = [n \in 0..Len(fields) |-> IF n = 0 THEN s ELSE ReadAttribute(d, r, v, a[n - 1], fields[n])]
    <2>1. \A n \in 0..N : n = 0 \/ (n \in 1..N /\ n - 1 \in 0..N)
      BY <1>1
    <2>2. \A n \in 0..N : a[n] = IF n = 0 THEN s ELSE ReadAttribute(d, r, v, a[n - 1], fields[n])
      BY <1>2, <1>3, <2>1
    <2> QED BY <1>1, <1>3, <2>2
  <1>5. PICK run : run = CHOOSE h : h = [n \in 0..Len(fields) |->
                        IF n = 0 THEN s ELSE ReadAttribute(d, r, v, h[n - 1], fields[n])]
    OBVIOUS
  <1>6. run = [n \in 0..Len(fields) |-> IF n = 0 THEN s ELSE ReadAttribute(d, r, v, run[n - 1], fields[n])]
    BY <1>4, <1>5, Zenon
  <1>7. AllAttribute(d, r, v, s, fields) = run[Len(fields)]
    BY <1>5, Zenon DEF ReadEach, AllAttribute
  <1>8. \A n \in 1..N : run[n - 1] = t[n - 1] => run[n] = t[n]
    <2>1. \A n \in 1..N : n \in 0..N /\ n # 0
      OBVIOUS
    <2> QED BY <1>1, <1>2, <1>6, <2>1
  <1>9. run[0] = t[0]
    BY <1>1, <1>2, <1>6
  <1>10. SameTo(run, t, N)
    BY <1>8, <1>9, StepByStep DEF Agreeing
  <1>11. run[N] = t[N]
    BY <1>10 DEF SameTo
  <1> QED BY <1>1, <1>7, <1>11, Zenon

RunsOperand(t, d, v, s, fields) ==
    t[0] = s /\ \A n \in 1..Len(fields) : ReadOperand(d, v, t[n - 1], fields[n]) = t[n]

AllOperand(d, v, s, fields) == ReadEach(LAMBDA q, f : ReadOperand(d, v, q, f), s, fields)

LEMMA EachOperand ==
    ASSUME NEW d, NEW v, NEW s, NEW fields, IsSeq(fields), NEW t, RunsOperand(t, d, v, s, fields)
    PROVE  AllOperand(d, v, s, fields) = t[Len(fields)]
  <1>1. PICK N \in Nat : N = Len(fields)
    BY SeqIs
  <1>2. t[0] = s /\ \A n \in 1..N : ReadOperand(d, v, t[n - 1], fields[n]) = t[n]
    BY <1>1 DEF RunsOperand
  <1>3. PICK a : a = [n \in 0..N |-> t[n]]
    OBVIOUS
  <1>4. a = [n \in 0..Len(fields) |-> IF n = 0 THEN s ELSE ReadOperand(d, v, a[n - 1], fields[n])]
    <2>1. \A n \in 0..N : n = 0 \/ (n \in 1..N /\ n - 1 \in 0..N)
      BY <1>1
    <2>2. \A n \in 0..N : a[n] = IF n = 0 THEN s ELSE ReadOperand(d, v, a[n - 1], fields[n])
      BY <1>2, <1>3, <2>1
    <2> QED BY <1>1, <1>3, <2>2
  <1>5. PICK run : run = CHOOSE h : h = [n \in 0..Len(fields) |->
                        IF n = 0 THEN s ELSE ReadOperand(d, v, h[n - 1], fields[n])]
    OBVIOUS
  <1>6. run = [n \in 0..Len(fields) |-> IF n = 0 THEN s ELSE ReadOperand(d, v, run[n - 1], fields[n])]
    BY <1>4, <1>5, Zenon
  <1>7. AllOperand(d, v, s, fields) = run[Len(fields)]
    BY <1>5, Zenon DEF ReadEach, AllOperand
  <1>8. \A n \in 1..N : run[n - 1] = t[n - 1] => run[n] = t[n]
    <2>1. \A n \in 1..N : n \in 0..N /\ n # 0
      OBVIOUS
    <2> QED BY <1>1, <1>2, <1>6, <2>1
  <1>9. run[0] = t[0]
    BY <1>1, <1>2, <1>6
  <1>10. SameTo(run, t, N)
    BY <1>8, <1>9, StepByStep DEF Agreeing
  <1>11. run[N] = t[N]
    BY <1>10 DEF SameTo
  <1> QED BY <1>1, <1>7, <1>11, Zenon

RunsGroup(t, left, s, fields) ==
    t[0] = s /\ \A n \in 1..Len(fields) : ReadGroup(t[n - 1], fields[n], IF fields[n].form = "required" THEN 1 ELSE left) = t[n]

AllGroup(left, s, fields) == ReadEach(LAMBDA q, f : ReadGroup(q, f, IF f.form = "required" THEN 1 ELSE left), s, fields)

LEMMA EachGroup ==
    ASSUME NEW left, NEW s, NEW fields, IsSeq(fields), NEW t, RunsGroup(t, left, s, fields)
    PROVE  AllGroup(left, s, fields) = t[Len(fields)]
  <1>1. PICK N \in Nat : N = Len(fields)
    BY SeqIs
  <1>2. t[0] = s /\ \A n \in 1..N : ReadGroup(t[n - 1], fields[n], IF fields[n].form = "required" THEN 1 ELSE left) = t[n]
    BY <1>1 DEF RunsGroup
  <1>3. PICK a : a = [n \in 0..N |-> t[n]]
    OBVIOUS
  <1>4. a = [n \in 0..Len(fields) |-> IF n = 0 THEN s ELSE ReadGroup(a[n - 1], fields[n], IF fields[n].form = "required" THEN 1 ELSE left)]
    <2>1. \A n \in 0..N : n = 0 \/ (n \in 1..N /\ n - 1 \in 0..N)
      BY <1>1
    <2>2. \A n \in 0..N : a[n] = IF n = 0 THEN s ELSE ReadGroup(a[n - 1], fields[n], IF fields[n].form = "required" THEN 1 ELSE left)
      BY <1>2, <1>3, <2>1
    <2> QED BY <1>1, <1>3, <2>2
  <1>5. PICK run : run = CHOOSE h : h = [n \in 0..Len(fields) |->
                        IF n = 0 THEN s ELSE ReadGroup(h[n - 1], fields[n], IF fields[n].form = "required" THEN 1 ELSE left)]
    OBVIOUS
  <1>6. run = [n \in 0..Len(fields) |-> IF n = 0 THEN s ELSE ReadGroup(run[n - 1], fields[n], IF fields[n].form = "required" THEN 1 ELSE left)]
    BY <1>4, <1>5, Zenon
  <1>7. AllGroup(left, s, fields) = run[Len(fields)]
    BY <1>5, Zenon DEF ReadEach, AllGroup
  <1>8. \A n \in 1..N : run[n - 1] = t[n - 1] => run[n] = t[n]
    <2>1. \A n \in 1..N : n \in 0..N /\ n # 0
      OBVIOUS
    <2> QED BY <1>1, <1>2, <1>6, <2>1
  <1>9. run[0] = t[0]
    BY <1>1, <1>2, <1>6
  <1>10. SameTo(run, t, N)
    BY <1>8, <1>9, StepByStep DEF Agreeing
  <1>11. run[N] = t[N]
    BY <1>10 DEF SameTo
  <1> QED BY <1>1, <1>7, <1>11, Zenon

RunsFixup(t, v, s, fields) ==
    t[0] = s /\ \A n \in 1..Len(fields) : RankFixup(v, t[n - 1], fields[n]) = t[n]

AllFixup(v, s, fields) == ReadEach(LAMBDA q, f : RankFixup(v, q, f), s, fields)

LEMMA EachFixup ==
    ASSUME NEW v, NEW s, NEW fields, IsSeq(fields), NEW t, RunsFixup(t, v, s, fields)
    PROVE  AllFixup(v, s, fields) = t[Len(fields)]
  <1>1. PICK N \in Nat : N = Len(fields)
    BY SeqIs
  <1>2. t[0] = s /\ \A n \in 1..N : RankFixup(v, t[n - 1], fields[n]) = t[n]
    BY <1>1 DEF RunsFixup
  <1>3. PICK a : a = [n \in 0..N |-> t[n]]
    OBVIOUS
  <1>4. a = [n \in 0..Len(fields) |-> IF n = 0 THEN s ELSE RankFixup(v, a[n - 1], fields[n])]
    <2>1. \A n \in 0..N : n = 0 \/ (n \in 1..N /\ n - 1 \in 0..N)
      BY <1>1
    <2>2. \A n \in 0..N : a[n] = IF n = 0 THEN s ELSE RankFixup(v, a[n - 1], fields[n])
      BY <1>2, <1>3, <2>1
    <2> QED BY <1>1, <1>3, <2>2
  <1>5. PICK run : run = CHOOSE h : h = [n \in 0..Len(fields) |->
                        IF n = 0 THEN s ELSE RankFixup(v, h[n - 1], fields[n])]
    OBVIOUS
  <1>6. run = [n \in 0..Len(fields) |-> IF n = 0 THEN s ELSE RankFixup(v, run[n - 1], fields[n])]
    BY <1>4, <1>5, Zenon
  <1>7. AllFixup(v, s, fields) = run[Len(fields)]
    BY <1>5, Zenon DEF ReadEach, AllFixup
  <1>8. \A n \in 1..N : run[n - 1] = t[n - 1] => run[n] = t[n]
    <2>1. \A n \in 1..N : n \in 0..N /\ n # 0
      OBVIOUS
    <2> QED BY <1>1, <1>2, <1>6, <2>1
  <1>9. run[0] = t[0]
    BY <1>1, <1>2, <1>6
  <1>10. SameTo(run, t, N)
    BY <1>8, <1>9, StepByStep DEF Agreeing
  <1>11. run[N] = t[N]
    BY <1>10 DEF SameTo
  <1> QED BY <1>1, <1>7, <1>11, Zenon

(* A reader's way through what a list of fields emits: before a field      *)
(* there are the field's tokens and the rest, after it the rest is left,   *)
(* and what the field brings, if it is in P, is there.                     *)
NamesIn(P, fields) == {f.name : f \in ToSet(fields) \cap P}

Steps(s, s2, f, e, flags, D, G, P) ==
    \E rest, C : /\ IsSeq(rest) /\ D \subseteq C
                 /\ s = St(e[f] \o rest, flags, Got(C, G))
                 /\ s2 = St(rest, flags, Got(IF f \in P THEN C \cup {f.name} ELSE C, G))

Walks(t, fields, e, more, flags, D, G, P) ==
    /\ t[0] = St(Tokens(e, fields) \o more, flags, Got(D, G))
    /\ t[Len(fields)] = St(more, flags, Got(D \cup NamesIn(P, fields), G))
    /\ \A n \in 1..Len(fields) : Steps(t[n - 1], t[n], fields[n], e, flags, D, G, P)

LEMMA WalkExists ==
    ASSUME NEW e, NEW fields, Emits(e, fields), NEW more, IsSeq(more), NEW flags, NEW D, NEW G, NEW P
    PROVE  \E t : Walks(t, fields, e, more, flags, D, G, P)
  <1>1. PICK ss : ss = TokenLists(e, fields)
    OBVIOUS
  <1>2. PICK S : ss \in Seq(Seq(S)) /\ Len(ss) = Len(fields)
    BY <1>1, EmittedSeqs
  <1>3. PICK b : Backs(b, ss, S)
    BY <1>2, BackRuns
  <1>4. PICK N \in Nat : N = Len(fields)
    BY SeqIs DEF Emits
  <1>5. DOMAIN fields = 1..N /\ \A n \in 1..N : fields[n] \in ToSet(fields) /\ IsSeq(fields)
    BY <1>4, SeqIs DEF Emits
  <1>6. /\ b \in [0..N -> Seq(S)]
        /\ b[N] = <<>> /\ b[0] = Tokens(e, fields)
        /\ \A n \in 1..N : b[n - 1] = ss[n] \o b[n]
    BY <1>1, <1>2, <1>3, <1>4 DEF Backs, Tokens
  <1>7. PICK C : C = [n \in 0..N |-> D \cup {fields[m].name : m \in {k \in 1..n : fields[k] \in P}}]
    OBVIOUS
  <1>8. C[0] = D /\ C[N] = D \cup NamesIn(P, fields) /\ \A n \in 0..N : D \subseteq C[n]
    <2>1. 1..0 = {}
      OBVIOUS
    <2>2. C[0] = D
      BY <1>7, <2>1
    <2>3. ToSet(fields) = {fields[k] : k \in 1..N}
      BY <1>5 DEF ToSet
    <2>4. {fields[m].name : m \in {k \in 1..N : fields[k] \in P}} = {f.name : f \in ToSet(fields) \cap P}
      BY <2>3
    <2>5. C[N] = D \cup NamesIn(P, fields)
      BY <1>4, <1>7, <2>4 DEF NamesIn
    <2> QED BY <1>7, <2>2, <2>5
  <1>9. \A n \in 1..N : C[n] = IF fields[n] \in P THEN C[n - 1] \cup {fields[n].name} ELSE C[n - 1]
    <2>1. ASSUME NEW n \in 1..N
          PROVE  C[n] = IF fields[n] \in P THEN C[n - 1] \cup {fields[n].name} ELSE C[n - 1]
      <3>1. n \in 0..N /\ n - 1 \in 0..N /\ 1..n = (1..n - 1) \cup {n}
        OBVIOUS
      <3>2. {k \in 1..n : fields[k] \in P} =
                {k \in 1..n - 1 : fields[k] \in P} \cup (IF fields[n] \in P THEN {n} ELSE {})
        BY <3>1
      <3>3. C[n] = D \cup {fields[m].name : m \in {k \in 1..n : fields[k] \in P}}
        BY <1>7, <3>1
      <3>4. C[n - 1] = D \cup {fields[m].name : m \in {k \in 1..n - 1 : fields[k] \in P}}
        BY <1>7, <3>1
      <3> QED BY <3>2, <3>3, <3>4
    <2> QED BY <2>1
  <1>10. PICK t : t = [n \in 0..N |-> St(b[n] \o more, flags, Got(C[n], G))]
    OBVIOUS
  <1>11. ASSUME NEW n \in 1..N PROVE Steps(t[n - 1], t[n], fields[n], e, flags, D, G, P)
    <2>1. n \in 0..N /\ n - 1 \in 0..N
      OBVIOUS
    <2>2. IsSeq(b[n]) /\ IsSeq(ss[n]) /\ ss[n] = e[fields[n]]
      <3>1. b[n] \in Seq(S)
        BY <1>6, <2>1
      <3>2. ss[n] = e[fields[n]]
        BY <1>1, <1>5 DEF TokenLists
      <3>3. IsSeq(e[fields[n]])
        BY <1>5 DEF Emits
      <3> QED BY <3>1, <3>2, <3>3 DEF IsSeq
    <2>3. PICK rest : rest = b[n] \o more
      OBVIOUS
    <2>4. IsSeq(rest) /\ b[n - 1] \o more = e[fields[n]] \o rest
      <3>1. PICK x : x = ss[n]
        OBVIOUS
      <3>2. PICK y : y = b[n]
        OBVIOUS
      <3>3. IsSeq(x) /\ IsSeq(y)
        BY <2>2, <3>1, <3>2
      <3>4. (x \o y) \o more = x \o (y \o more)
        BY <3>3, JoinAssociative
      <3>5. IsSeq(y \o more)
        BY <3>3, JoinFacts
      <3> QED BY <1>6, <2>2, <2>3, <3>1, <3>2, <3>4, <3>5
    <2>5. t[n - 1] = St(e[fields[n]] \o rest, flags, Got(C[n - 1], G))
      BY <1>10, <2>1, <2>4
    <2>6. t[n] = St(rest, flags, Got(IF fields[n] \in P THEN C[n - 1] \cup {fields[n].name} ELSE C[n - 1], G))
      BY <1>9, <1>10, <2>1, <2>3
    <2>7. D \subseteq C[n - 1]
      BY <1>8, <2>1
    <2> QED BY <2>4, <2>5, <2>6, <2>7 DEF Steps
  <1>12. t[0] = St(Tokens(e, fields) \o more, flags, Got(D, G))
    BY <1>6, <1>8, <1>10
  <1>13. t[N] = St(more, flags, Got(D \cup NamesIn(P, fields), G))
    <2>1. b[N] \o more = more
      BY <1>6, JoinFacts
    <2>2. N \in 0..N
      OBVIOUS
    <2> QED BY <1>8, <1>10, <2>1, <2>2
  <1> QED BY <1>4, <1>11, <1>12, <1>13 DEF Walks

(* An older release knows the first of the optional fields, if none stands *)
(* behind a later one.                                                     *)
OptionalsInOrder(fields, r) ==
    \A n, m \in 1..Len(fields) :
        n < m /\ fields[n].optional /\ fields[m].optional /\ fields[m].since <= r
            => fields[n].since <= r

LEMMA KnownFacts ==
    ASSUME NEW fields, IsSeq(fields), NEW r
    PROVE  /\ IsSeq(Known(fields, r))
           /\ \A f : f \in ToSet(Known(fields, r)) <=> f \in ToSet(fields) /\ f.since <= r
  <1>1. PICK A : A = {f \in ToSet(fields) : f.since <= r}
    OBVIOUS
  <1>2. Known(fields, r) = Kept(fields, A)
    BY <1>1 DEF Known
  <1> QED BY <1>1, <1>2, KeptFacts

LEMMA KnownKept ==
    ASSUME NEW fields, IsSeq(fields), NEW r, NEW B
    PROVE  Kept(Known(fields, r), B) = Kept(Kept(fields, B), {f \in ToSet(fields) : f.since <= r})
  <1>1. PICK A : A = {f \in ToSet(fields) : f.since <= r}
    OBVIOUS
  <1>2. Known(fields, r) = Kept(fields, A)
    BY <1>1 DEF Known
  <1>3. Kept(Kept(fields, A), B) = Kept(fields, A \cap B)
    BY KeptTwice
  <1>4. Kept(Kept(fields, B), A) = Kept(fields, B \cap A)
    BY KeptTwice
  <1>5. A \cap B = B \cap A
    OBVIOUS
  <1> QED BY <1>1, <1>2, <1>3, <1>4, <1>5

LEMMA OptionalsKnown ==
    ASSUME NEW fields, IsSeq(fields), NEW r
    PROVE  Optionals(Known(fields, r)) =
                Kept(Optionals(fields), {f \in ToSet(fields) : f.since <= r})
  <1>1. PICK k : k = Known(fields, r)
    OBVIOUS
  <1>2. PICK B : B = {f \in ToSet(fields) : f.optional}
    OBVIOUS
  <1>3. PICK C : C = {f \in ToSet(k) : f.optional}
    OBVIOUS
  <1>4. IsSeq(k) /\ \A f : f \in ToSet(k) <=> f \in ToSet(fields) /\ f.since <= r
    BY <1>1, KnownFacts
  <1>5. Kept(k, C) = Kept(k, B)
    <2>1. \A x \in ToSet(k) : x \in C <=> x \in B
      BY <1>2, <1>3, <1>4
    <2> QED BY <1>4, <2>1, KeptSame
  <1>6. Kept(k, B) = Kept(Kept(fields, B), {f \in ToSet(fields) : f.since <= r})
    BY <1>1, KnownKept
  <1>7. Optionals(k) = Kept(k, C) /\ Optionals(fields) = Kept(fields, B)
    BY <1>2, <1>3 DEF Optionals
  <1> QED BY <1>1, <1>5, <1>6, <1>7

LEMMA RequiredKnown ==
    ASSUME NEW fields, IsSeq(fields), NEW r,
           \A f \in ToSet(fields) : ~f.optional => f.since <= r
    PROVE  Required(Known(fields, r)) = Required(fields)
  <1>1. PICK k : k = Known(fields, r)
    OBVIOUS
  <1>2. PICK B : B = {f \in ToSet(fields) : ~f.optional}
    OBVIOUS
  <1>3. PICK C : C = {f \in ToSet(k) : ~f.optional}
    OBVIOUS
  <1>4. IsSeq(k) /\ \A f : f \in ToSet(k) <=> f \in ToSet(fields) /\ f.since <= r
    BY <1>1, KnownFacts
  <1>5. Kept(k, C) = Kept(k, B)
    <2>1. \A x \in ToSet(k) : x \in C <=> x \in B
      BY <1>2, <1>3, <1>4
    <2> QED BY <1>4, <2>1, KeptSame
  <1>6. PICK A : A = {f \in ToSet(fields) : f.since <= r}
    OBVIOUS
  <1>7. Kept(k, B) = Kept(Kept(fields, B), A)
    BY <1>1, <1>6, KnownKept
  <1>8. PICK b : b = Kept(fields, B)
    OBVIOUS
  <1>9. Kept(b, A) = b
    <2>1. IsSeq(b) /\ \A x : x \in ToSet(b) <=> x \in ToSet(fields) /\ x \in B
      BY <1>8, KeptFacts
    <2>2. ToSet(b) \subseteq A
      BY <1>2, <1>6, <2>1
    <2> QED BY <2>1, <2>2, KeptAll
  <1>10. Required(k) = Kept(k, C) /\ Required(fields) = b
    BY <1>2, <1>3, <1>8 DEF Required
  <1> QED BY <1>1, <1>5, <1>7, <1>8, <1>9, <1>10

LEMMA OptionalsFront ==
    ASSUME NEW fields, IsSeq(fields), NEW r, OptionalsInOrder(fields, r)
    PROVE  StartOf(Optionals(Known(fields, r)), Optionals(fields))
  <1>1. PICK u : u = Optionals(fields)
    OBVIOUS
  <1>2. PICK A : A = {f \in ToSet(fields) : f.since <= r}
    OBVIOUS
  <1>3. PICK B : B = {f \in ToSet(fields) : f.optional}
    OBVIOUS
  <1>4. u = Kept(fields, B) /\ IsSeq(u)
    BY <1>1, <1>3, OptionalsFacts DEF Optionals
  <1>5. \A n, m \in 1..Len(u) : n < m /\ u[m] \in A => u[n] \in A
    <2>1. ASSUME NEW n \in 1..Len(u), NEW m \in 1..Len(u), n < m, u[m] \in A PROVE u[n] \in A
      <3>1. PICK a \in 1..Len(fields), b \in 1..Len(fields) :
                a < b /\ fields[a] = u[n] /\ fields[b] = u[m] /\ fields[a] \in B /\ fields[b] \in B
        BY <1>4, <2>1, KeptOrder
      <3>2. fields[a].optional /\ fields[b].optional /\ fields[b].since <= r
        BY <1>2, <1>3, <2>1, <3>1
      <3>3. fields[a].since <= r
        BY <3>1, <3>2 DEF OptionalsInOrder
      <3>4. fields[a] \in ToSet(fields)
        BY <1>3, <3>1
      <3> QED BY <1>2, <3>1, <3>3, <3>4
    <2> QED BY <2>1
  <1>6. StartOf(Kept(u, A), u)
    BY <1>4, <1>5, KeptFront
  <1>7. Optionals(Known(fields, r)) = Kept(u, A)
    BY <1>1, <1>2, OptionalsKnown
  <1> QED BY <1>1, <1>6, <1>7

(* A bit of the flags, as the release knows the fields.                    *)
LEMMA BitOf ==
    ASSUME NEW u, IsSeq(u), NEW o, IsSeq(o), StartOf(u, o), NEW f \in ToSet(u),
           \A g \in ToSet(u) : g.name = f.name => g = f
    PROVE  Bit(f, u) \in DOMAIN o /\ o[Bit(f, u)] = f
  <1>1. PICK M \in Nat : M = Len(u) /\ DOMAIN u = 1..M
    BY SeqIs
  <1>2. PICK n \in 1..M : u[n] = f
    BY <1>1 DEF ToSet
  <1>3. PICK b : b = Bit(f, u)
    OBVIOUS
  <1>4. b \in DOMAIN u /\ u[b].name = f.name
    <2>1. n \in DOMAIN u /\ u[n].name = f.name
      BY <1>1, <1>2
    <2> QED BY <1>3, <2>1 DEF Bit
  <1>5. u[b] = f
    <2>1. u[b] \in ToSet(u)
      BY <1>1, <1>4, SeqIs
    <2> QED BY <1>4, <2>1
  <1>6. o[b] = u[b] /\ b \in 1..Len(o)
    <2>1. Len(o) \in Nat /\ M <= Len(o)
      BY <1>1, SeqIs DEF StartOf
    <2> QED BY <1>1, <1>4, <2>1 DEF StartOf
  <1>7. DOMAIN o = 1..Len(o)
    BY SeqIs
  <1> QED BY <1>3, <1>5, <1>6, <1>7

LEMMA OrderFacts ==
    ASSUME NEW t \in DOMAIN Types
    PROVE  /\ IsSeq(Order(Decl(t))) /\ ToSet(Order(Decl(t))) = ToSet(Decl(t).params)
           /\ Len(Order(Decl(t))) = Len(Decl(t).params)
           /\ \A n \in 1..Len(Order(Decl(t))) : Unforced(Decl(t), n)
  <1>1. PICK d : d = Decl(t)
    OBVIOUS
  <1>2. Types[t].decl \in DOMAIN TypeDecls /\ d = TypeDecls[Types[t].decl]
    BY <1>1, TypeValuesAssumption DEF Decl
  <1>3. IsSeq(d.params) /\ DOMAIN d.params = 1..Len(d.params)
    BY <1>1, TypeFacts, FieldFacts, SeqIs
  <1>4. Order(d) = Reverse(d.params) \/ Order(d) = d.params
    BY DEF Order
  <1>5. IsSeq(Order(d)) /\ ToSet(Order(d)) = ToSet(d.params) /\ Len(Order(d)) = Len(d.params)
    BY <1>3, <1>4, ReverseFacts
  <1>6. \A n \in DOMAIN d.params : Unforced(d, n)
    BY <1>2, TypesAssumption
  <1> QED BY <1>1, <1>3, <1>5, <1>6

KnownParams(t, r) == Known(Order(Decl(t)), r)

LEMMA KnownParamsFacts ==
    ASSUME NEW t \in DOMAIN Types, NEW r \in Nat
    PROVE  /\ IsSeq(KnownParams(t, r))
           /\ \A p : p \in ToSet(KnownParams(t, r)) <=> p \in ToSet(Decl(t).params) /\ p.since <= r
           /\ StartOf(Optionals(KnownParams(t, r)), Optionals(Order(Decl(t))))
  <1>1. PICK o : o = Order(Decl(t))
    OBVIOUS
  <1>2. /\ IsSeq(o) /\ ToSet(o) = ToSet(Decl(t).params)
        /\ \A n \in 1..Len(o) : Unforced(Decl(t), n)
    BY <1>1, OrderFacts
  <1>3. OptionalsInOrder(o, r)
    <2>1. ASSUME NEW n \in 1..Len(o), NEW m \in 1..Len(o), n < m, o[n].optional, o[m].optional,
                 o[m].since <= r
          PROVE  o[n].since <= r
      <3>1. Unforced(Decl(t), m)
        BY <1>2
      <3>2. Len(o) \in Nat
        BY <1>2, SeqIs
      <3>3. n \in 1..m - 1
        BY <2>1, <3>2
      <3>4. o[n].since <= o[m].since
        BY <1>1, <2>1, <3>1, <3>3 DEF Unforced
      <3>5. o[n].since \in Nat /\ o[m].since \in Nat
        <4>1. o[n] \in ToSet(o) /\ o[m] \in ToSet(o)
          BY <1>2, SeqIs
        <4>2. \A p \in ToSet(Decl(t).params) : p.since \in Decl(t).since..Latest
          BY TypeFacts
        <4>3. Decl(t).since \in 1..Latest
          BY TypeFacts DEF Supported
        <4> QED BY <1>2, <4>1, <4>2, <4>3
      <3> QED BY <2>1, <3>4, <3>5
    <2> QED BY <2>1 DEF OptionalsInOrder
  <1>4. StartOf(Optionals(Known(o, r)), Optionals(o))
    BY <1>2, <1>3, OptionalsFront
  <1>5. IsSeq(Known(o, r)) /\ \A f : f \in ToSet(Known(o, r)) <=> f \in ToSet(o) /\ f.since <= r
    BY <1>2, KnownFacts
  <1> QED BY <1>1, <1>2, <1>4, <1>5 DEF KnownParams

LEMMA KnownTypeIs ==
    ASSUME NEW t \in DOMAIN Types, NEW r, NEW d, d = KnownType(Types[t].decl, r)
    PROVE  d.since = Decl(t).since /\ d.params = KnownParams(t, r) /\ Order(d) = KnownParams(t, r)
  <1>1. PICK F : F = FALSE
    OBVIOUS
  <1>2. d = [since |-> Decl(t).since, params |-> KnownParams(t, r), reversed |-> F]
    BY <1>1, Zenon DEF KnownType, KnownParams, Decl
  <1>3. d.since = Decl(t).since /\ d.params = KnownParams(t, r) /\ d.reversed = F
    BY <1>2
  <1>4. ~d.reversed
    BY <1>1, <1>3, Zenon
  <1>5. Order(d) = d.params
    BY <1>4, Zenon DEF Order
  <1> QED BY <1>3, <1>5

(* The parameter of a type that is not refused.                            *)
LEMMA ParamFacts ==
    ASSUME NEW t \in DOMAIN Types, NEW v \in Supported, ~TypeRefused(t, v),
           NEW p \in ToSet(Decl(t).params)
    PROVE  /\ p.kind \in ParamKinds /\ p.optional \in BOOLEAN
           /\ p.since \in 1..Latest /\ Decl(t).since \in 1..Latest /\ Decl(t).since <= v
           /\ Evolved(Decl(t), p) <=> Decl(t).since < p.since
           /\ p.optional => p.kind = "enum" \/ p.kind = "type"
           /\ p.optional /\ p.kind = "type" => Decl(t).since >= Unified
           /\ p.optional /\ Evolved(Decl(t), p) => p.since >= Unified
           /\ ~p.optional => Has(t, p)
           /\ v < p.since => Evolved(Decl(t), p)
           /\ v < p.since /\ p.optional => ~Has(t, p)
           /\ v < p.since /\ ~p.optional => Args(t)[p.name] = Default
  <1>1. PICK d : d = Decl(t)
    OBVIOUS
  <1>2. /\ ParamAccepted(d, p) /\ TypeValueAccepted(t, p) /\ p.since \in d.since..Latest
        /\ d.since \in 1..Latest
    BY <1>1, TypeFacts DEF Supported
  <1>3. p.optional \in BOOLEAN
    BY TypeFacts, FieldFacts
  <1>4. Latest \in Nat /\ v \in 1..Latest
    BY SomeVersions
  <1>5. d.since <= v
    BY <1>1, <1>2, <1>4 DEF TypeRefused
  <1>6. p.since \in 1..Latest /\ (Evolved(d, p) <=> d.since < p.since) /\ (v < p.since => Evolved(d, p))
    BY <1>2, <1>4, <1>5 DEF Evolved
  <1>7. ~ParamRefused(t, p, v)
    BY <1>1 DEF TypeRefused
  <1>8. PICK n \in 1..Len(Order(d)) : Order(d)[n] = p
    <2>1. IsSeq(Order(d)) /\ p \in ToSet(Order(d))
      BY <1>1, OrderFacts
    <2>2. DOMAIN Order(d) = 1..Len(Order(d))
      BY <2>1, SeqIs
    <2> QED BY <2>1, <2>2 DEF ToSet
  <1>9. Unforced(d, n)
    BY <1>1, OrderFacts
  <1>10. /\ p.kind \in ParamKinds
         /\ p.optional => p.kind = "enum" \/ p.kind = "type"
    BY <1>2 DEF ParamAccepted, CarriesType
  <1>11. /\ p.optional /\ p.kind = "type" => d.since >= Unified
         /\ p.optional /\ Evolved(d, p) => p.since >= Unified
    BY <1>8, <1>9 DEF Unforced, CarriesType
  <1>12. ~p.optional => Has(t, p)
    BY <1>2 DEF TypeValueAccepted, Has, Args
  <1>13. v < p.since /\ p.optional => ~Has(t, p)
    BY <1>1, <1>6, <1>7 DEF ParamRefused
  <1>14. v < p.since /\ ~p.optional => Args(t)[p.name] = Default
    BY <1>1, <1>6, <1>7 DEF ParamRefused
  <1> QED BY <1>1, <1>2, <1>3, <1>5, <1>6, <1>10, <1>11, <1>12, <1>13, <1>14

(* When there are flags, said by the fields.                               *)
SomeOptional(params, v) == \E p \in ToSet(params) : p.optional /\ p.since <= v

LEMMA FirstOptionalFacts ==
    ASSUME NEW d, \A p \in ToSet(d.params) : p.since \in Nat, NEW v \in Nat
    PROVE  HasOptional(d) /\ v >= FirstOptional(d) <=> SomeOptional(d.params, v)
  <1>1. PICK S : S = {p.since : p \in {q \in ToSet(d.params) : q.optional}}
    OBVIOUS
  <1>2. FirstOptional(d) = Min(S)
    BY <1>1 DEF FirstOptional
  <1>3. S \subseteq Nat /\ (HasOptional(d) <=> S # {})
    BY <1>1 DEF HasOptional
  <1>4. ASSUME HasOptional(d), v >= FirstOptional(d) PROVE SomeOptional(d.params, v)
    <2>1. Min(S) \in S
      BY <1>3, <1>4, MinIs
    <2>2. PICK p \in ToSet(d.params) : p.optional /\ p.since = Min(S)
      BY <1>1, <2>1
    <2> QED BY <1>2, <1>4, <2>2 DEF SomeOptional
  <1>5. ASSUME SomeOptional(d.params, v) PROVE HasOptional(d) /\ v >= FirstOptional(d)
    <2>1. PICK p \in ToSet(d.params) : p.optional /\ p.since <= v
      BY <1>5 DEF SomeOptional
    <2>2. p.since \in S
      BY <1>1, <2>1
    <2>3. Min(S) \in Nat /\ Min(S) <= p.since
      <3>1. S # {}
        BY <2>2
      <3>2. Min(S) \in S /\ \A x \in S : Min(S) <= x
        BY <1>3, <3>1, MinIs
      <3> QED BY <1>3, <2>2, <3>2
    <2>4. v >= Min(S)
      <3>1. p.since \in Nat
        BY <2>1
      <3> QED BY <2>1, <2>3, <3>1
    <2> QED BY <1>2, <1>3, <2>2, <2>4
  <1> QED BY <1>4, <1>5, Zenon

HaveFlags(t, v) == SomeOptional(Decl(t).params, v) /\ v >= Unified

LEMMA TypeFlagged ==
    ASSUME NEW t \in DOMAIN Types, NEW v \in Supported, ~TypeRefused(t, v), NEW r \in v..Latest,
           NEW d, d = KnownType(Types[t].decl, r)
    PROVE  /\ TypeHasFlags(Decl(t), v) <=> HaveFlags(t, v)
           /\ HasOptional(d) /\ v >= FirstOptional(d) /\ (d.since >= Unified \/ v >= Unified)
                <=> HaveFlags(t, v)
  <1>1. PICK D : D = Decl(t)
    OBVIOUS
  <1>2. v \in 1..Latest /\ Latest \in Nat /\ Unified \in 1..Latest /\ r \in Nat
    BY VersionsAssumption, SomeVersions
  <1>3. D.since \in 1..Latest /\ D.since <= v
    <2>1. D.since \in 1..Latest
      BY <1>1, TypeFacts DEF Supported
    <2> QED BY <1>1, <1>2, <2>1 DEF TypeRefused
  <1>4. \A p \in ToSet(D.params) : p.since \in 1..Latest
    BY <1>1, <1>2, <1>3, TypeFacts
  <1>5. /\ d.since = D.since
        /\ \A p : p \in ToSet(d.params) <=> p \in ToSet(D.params) /\ p.since <= r
    BY <1>1, <1>2, KnownTypeIs, KnownParamsFacts
  <1>6. HasOptional(D) /\ v >= FirstOptional(D) <=> SomeOptional(D.params, v)
    BY <1>2, <1>4, FirstOptionalFacts
  <1>7. HasOptional(d) /\ v >= FirstOptional(d) <=> SomeOptional(d.params, v)
    BY <1>2, <1>4, <1>5, FirstOptionalFacts
  <1>8. SomeOptional(d.params, v) <=> SomeOptional(D.params, v)
    <2>1. \A p \in ToSet(D.params) : p.since <= v => p.since <= r
      BY <1>2, <1>4
    <2> QED BY <1>5, <2>1 DEF SomeOptional
  <1>9. D.since >= Unified \/ v >= Unified <=> v >= Unified
    BY <1>2, <1>3
  <1>10. FirstOptional(D) = D.since \/ v >= FirstOptional(D) <=> v >= FirstOptional(D)
    BY <1>2, <1>3
  <1>11. TypeHasFlags(D, v) <=> HasOptional(D) /\ v >= FirstOptional(D) /\ v >= Unified
    BY <1>9, <1>10 DEF TypeHasFlags
  <1> QED BY <1>1, <1>5, <1>6, <1>7, <1>8, <1>9, <1>11 DEF HaveFlags

TypeFlags(t, v) ==
    IF HaveFlags(t, v)
    THEN {n \in DOMAIN Optionals(Order(Decl(t))) : Has(t, Optionals(Order(Decl(t)))[n])}
    ELSE {}

LEMMA TypeFlagsRead ==
    ASSUME NEW t \in DOMAIN Types, NEW v \in Supported, ~TypeRefused(t, v), NEW r \in v..Latest,
           NEW d, d = KnownType(Types[t].decl, r), NEW more, IsSeq(more), NEW got,
           NEW s, s = St(TypeFlagTokens(t, v) \o more, {}, got)
    PROVE  ReadTypeFlags(d, v, s) = St(more, TypeFlags(t, v), got)
  <1>1. PICK F : F = TypeFlags(t, v)
    OBVIOUS
  <1>2. CASE HaveFlags(t, v)
    <2>1. TypeFlagTokens(t, v) = <<Token("flags", F)>>
      BY <1>1, <1>2, TypeFlagged DEF TypeFlagTokens, TypeFlags
    <2>2. ReadTypeFlags(d, v, s) = ReadFlags(s)
      BY <1>2, TypeFlagged DEF ReadTypeFlags
    <2>3. s = St(<<Token("flags", F)>> \o more, {}, got)
      BY <2>1
    <2>4. ReadFlags(s) = St(more, F, got)
      BY <2>3, FlagsRead
    <2> QED BY <1>1, <2>2, <2>4
  <1>3. CASE ~HaveFlags(t, v)
    <2>1. TypeFlagTokens(t, v) = <<>> /\ F = {}
      BY <1>1, <1>3, TypeFlagged DEF TypeFlagTokens, TypeFlags
    <2>2. ReadTypeFlags(d, v, s) = s
      BY <1>3, TypeFlagged DEF ReadTypeFlags
    <2>3. <<>> \o more = more
      BY JoinFacts
    <2> QED BY <1>1, <2>1, <2>2, <2>3
  <1> QED BY <1>2, <1>3

LEMMA ParamFlagged ==
    ASSUME NEW t \in DOMAIN Types, NEW v \in Supported, NEW r \in v..Latest,
           HaveFlags(t, v), NEW p \in ToSet(KnownParams(t, r)), p.optional
    PROVE  Bit(p, Optionals(KnownParams(t, r))) \in TypeFlags(t, v) <=> Has(t, p)
  <1>1. PICK K : K = KnownParams(t, r)
    OBVIOUS
  <1>2. PICK o : o = Optionals(Order(Decl(t)))
    OBVIOUS
  <1>3. PICK u : u = Optionals(K)
    OBVIOUS
  <1>4. r \in Nat
    BY SomeVersions
  <1>5. /\ IsSeq(K) /\ StartOf(u, o)
        /\ \A q : q \in ToSet(K) <=> q \in ToSet(Decl(t).params) /\ q.since <= r
    BY <1>1, <1>2, <1>3, <1>4, KnownParamsFacts
  <1>6. IsSeq(u) /\ p \in ToSet(u) /\ \A q \in ToSet(u) : q \in ToSet(Decl(t).params)
    BY <1>1, <1>3, <1>5, OptionalsFacts
  <1>7. IsSeq(o)
    BY <1>2, OrderFacts, OptionalsFacts
  <1>8. \A g \in ToSet(u) : g.name = p.name => g = p
    <2>1. \A f, g \in ToSet(Decl(t).params) : f.name = g.name => f = g
      BY TypeFacts, FieldFacts
    <2> QED BY <1>6, <2>1
  <1>9. Bit(p, u) \in DOMAIN o /\ o[Bit(p, u)] = p
    BY <1>5, <1>6, <1>7, <1>8, BitOf
  <1>10. TypeFlags(t, v) = {n \in DOMAIN o : Has(t, o[n])}
    BY <1>2 DEF TypeFlags
  <1> QED BY <1>1, <1>3, <1>9, <1>10

(* A parameter is read as it was written.                                  *)
AfterParam(t, p, C) == IF Has(t, p) THEN C \cup {p.name} ELSE C

LEMMA ParamRead ==
    ASSUME NEW t \in DOMAIN Types, NEW v \in Supported, ~TypeRefused(t, v), NEW r \in v..Latest,
           NEW d, d = KnownType(Types[t].decl, r), NEW p \in ToSet(d.params),
           NEW rest, IsSeq(rest), NEW C,
           NEW s, s = St(TypeParamTokens(t, p, v) \o rest, TypeFlags(t, v), Got(C, Args(t)))
    PROVE  ReadTypeParam(d, v, s, p) = St(rest, TypeFlags(t, v), Got(AfterParam(t, p, C), Args(t)))
  <1>1. PICK F : F = TypeFlags(t, v)
    OBVIOUS
  <1>2. PICK G : G = Args(t)
    OBVIOUS
  <1>3. PICK D : D = Decl(t)
    OBVIOUS
  <1>4. v \in 1..Latest /\ r \in Nat /\ v <= r /\ Unified \in 1..Latest /\ Latest \in Nat
    BY SomeVersions, VersionsAssumption
  <1>5. d.since = D.since /\ d.params = KnownParams(t, r) /\ Order(d) = KnownParams(t, r)
    BY <1>3, KnownTypeIs
  <1>6. p \in ToSet(D.params) /\ p.since <= r
    BY <1>3, <1>4, <1>5, KnownParamsFacts
  <1>7. /\ p.kind \in ParamKinds /\ p.optional \in BOOLEAN
        /\ p.since \in 1..Latest /\ D.since \in 1..Latest /\ D.since <= v
        /\ Evolved(D, p) <=> D.since < p.since
        /\ p.optional => p.kind = "enum" \/ p.kind = "type"
        /\ p.optional /\ p.kind = "type" => D.since >= Unified
        /\ p.optional /\ Evolved(D, p) => p.since >= Unified
        /\ ~p.optional => Has(t, p)
        /\ v < p.since => Evolved(D, p)
        /\ v < p.since /\ p.optional => ~Has(t, p)
        /\ v < p.since /\ ~p.optional => G[p.name] = Default
    BY <1>2, <1>3, <1>6, ParamFacts
  <1>8. Evolved(d, p) <=> Evolved(D, p)
    BY <1>5 DEF Evolved
  <1>9. PICK value : value = IF Has(t, p) THEN <<Token(p.kind, G[p.name])>> ELSE <<>>
    OBVIOUS
  <1>10. TypeParamTokens(t, p, v) =
            IF Evolved(D, p) /\ v < p.since THEN <<>>
            ELSE IF p.kind = "enum" /\ p.optional /\ v < Unified
            THEN <<Token("presence", Has(t, p))>> \o value
            ELSE value
    BY <1>2, <1>3, <1>9, Zenon DEF TypeParamTokens
  <1>11. PICK e : e = TypeParamTokens(t, p, v)
    OBVIOUS
  <1>12. s = St(e \o rest, F, Got(C, G))
    BY <1>1, <1>2, <1>11
  <1>13. <<>> \o rest = rest
    BY JoinFacts
  <1>14. PICK A : A = AfterParam(t, p, C)
    OBVIOUS
  <1>15. (Has(t, p) => A = C \cup {p.name}) /\ (~Has(t, p) => A = C)
    BY <1>14 DEF AfterParam
  <1>16. ASSUME NEW z, z = St(value \o rest, F, Got(C, G)), Has(t, p)
         PROVE  ReadField(z, p.kind, p) = St(rest, F, Got(A, G))
    <2>1. z = St(<<Token(p.kind, G[p.name])>> \o rest, F, Got(C, G))
      BY <1>9, <1>16
    <2> QED BY <1>15, <1>16, <2>1, FieldRead
  <1>17. PICK flagged : flagged = Bit(p, Optionals(KnownParams(t, r)))
    OBVIOUS
  <1>18. s.flags = F
    BY <1>12, StFields
  <1>19. p.optional => (flagged \in F <=> HaveFlags(t, v) /\ Has(t, p))
    <2>1. HaveFlags(t, v) /\ p.optional => (flagged \in F <=> Has(t, p))
      BY <1>1, <1>5, <1>17, ParamFlagged
    <2>2. ~HaveFlags(t, v) => F = {}
      BY <1>1 DEF TypeFlags
    <2> QED BY <2>1, <2>2
  <1>20. ReadTypeParam(d, v, s, p) =
           IF p.optional
           THEN IF flagged \in F \/ (~Evolved(D, p) /\ v < Unified /\ D.since < Unified)
                THEN ReadParam(s, p, v) ELSE s
           ELSE IF Evolved(D, p) /\ v < p.since THEN Keep(s, p, Default)
           ELSE ReadParam(s, p, v)
    BY <1>5, <1>8, <1>17, <1>18, Zenon DEF ReadTypeParam
  <1>21. CASE ~p.optional
    <2>1. CASE v < p.since
      <3>1. s = St(rest, F, Got(C, G))
        BY <1>7, <1>10, <1>11, <1>12, <1>13, <2>1
      <3>2. Keep(s, p, G[p.name]) = St(rest, F, Got(C \cup {p.name}, G))
        BY <3>1, KeepIs
      <3>3. ReadTypeParam(d, v, s, p) = Keep(s, p, G[p.name])
        BY <1>7, <1>20, <1>21, <2>1
      <3> QED BY <1>1, <1>2, <1>7, <1>14, <1>15, <1>21, <3>2, <3>3
    <2>2. CASE ~(v < p.since)
      <3>1. e = value
        BY <1>10, <1>11, <1>21, <2>2
      <3>2. ReadTypeParam(d, v, s, p) = ReadField(s, p.kind, p)
        BY <1>20, <1>21, <2>2 DEF ReadParam
      <3>3. ReadField(s, p.kind, p) = St(rest, F, Got(A, G))
        BY <1>7, <1>12, <1>16, <1>21, <3>1
      <3> QED BY <1>1, <1>2, <1>14, <3>2, <3>3
    <2> QED BY <2>1, <2>2
  <1>22. CASE p.optional /\ v < p.since
    <2>1. s = St(rest, F, Got(C, G)) /\ ~Has(t, p)
      BY <1>7, <1>10, <1>11, <1>12, <1>13, <1>22
    <2>2. ReadTypeParam(d, v, s, p) = s
      BY <1>7, <1>19, <1>20, <1>22, <2>1
    <2> QED BY <1>1, <1>2, <1>14, <1>15, <2>1, <2>2
  <1>23. CASE p.optional /\ ~(v < p.since) /\ v >= Unified
    <2>1. HaveFlags(t, v)
      <3>1. SomeOptional(D.params, v)
        BY <1>4, <1>6, <1>7, <1>23 DEF SomeOptional
      <3> QED BY <1>3, <1>23, <3>1 DEF HaveFlags
    <2>2. ~(v < Unified)
      BY <1>4, <1>23
    <2>3. e = value
      BY <1>10, <1>11, <1>23, <2>2
    <2>4. CASE Has(t, p)
      <3>1. ReadTypeParam(d, v, s, p) = ReadField(s, p.kind, p)
        BY <1>19, <1>20, <1>23, <2>1, <2>4 DEF ReadParam, ReadEnum
      <3>2. ReadField(s, p.kind, p) = St(rest, F, Got(A, G))
        BY <1>12, <1>16, <2>3, <2>4
      <3> QED BY <1>1, <1>2, <1>14, <3>1, <3>2
    <2>5. CASE ~Has(t, p)
      <3>1. ReadTypeParam(d, v, s, p) = s
        BY <1>19, <1>20, <1>23, <2>2, <2>5
      <3>2. s = St(rest, F, Got(C, G))
        BY <1>9, <1>12, <1>13, <2>3, <2>5
      <3> QED BY <1>1, <1>2, <1>14, <1>15, <2>5, <3>1, <3>2
    <2> QED BY <2>4, <2>5
  <1>24. CASE p.optional /\ ~(v < p.since) /\ ~(v >= Unified)
    <2>1. v < Unified /\ D.since < Unified /\ ~Evolved(D, p) /\ p.kind = "enum"
      BY <1>4, <1>7, <1>24
    <2>2. e = <<Token("presence", Has(t, p))>> \o value
      BY <1>10, <1>11, <1>24, <2>1
    <2>3. IsSeq(value)
      <3>1. PICK k : k = Token(p.kind, G[p.name])
        OBVIOUS
      <3>2. <<k>> \in Seq({k}) /\ <<>> \in Seq({k})
        OBVIOUS
      <3> QED BY <1>9, <3>1, <3>2 DEF IsSeq
    <2>4. PICK h : h = Has(t, p)
      OBVIOUS
    <2>5. PICK left : left = value \o rest
      OBVIOUS
    <2>6. e \o rest = <<Token("presence", h)>> \o left /\ IsSeq(left)
      <3>1. PICK one : one = <<Token("presence", h)>>
        OBVIOUS
      <3>2. PICK k : k = Token("presence", h)
        OBVIOUS
      <3>3. one = <<k>> /\ <<k>> \in Seq({k})
        BY <3>1, <3>2
      <3>4. IsSeq(one)
        BY <3>3 DEF IsSeq
      <3>5. (one \o value) \o rest = one \o (value \o rest)
        BY <2>3, <3>4, JoinAssociative
      <3>6. IsSeq(value \o rest)
        BY <2>3, JoinFacts
      <3> QED BY <2>2, <2>4, <2>5, <3>1, <3>5, <3>6
    <2>7. s = St(<<Token("presence", h)>> \o left, F, Got(C, G))
      BY <1>12, <2>6
    <2>8. /\ Sees(s, "presence") /\ Head(s.rest).of = h
          /\ Past(s) = St(left, F, Got(C, G))
      <3>1. \A x : Sees(s, x) <=> x = "presence"
        BY <2>6, <2>7, SeesIs
      <3>2. Head(s.rest).of = h /\ Past(s) = St(left, F, Got(C, G))
        BY <2>6, <2>7, SeesIs
      <3> QED BY <3>1, <3>2
    <2>9. PICK z : z = Past(s)
      OBVIOUS
    <2>10. z = St(value \o rest, F, Got(C, G))
      BY <2>5, <2>8, <2>9
    <2>11. ReadTypeParam(d, v, s, p) = ReadEnum(s, p, v)
      BY <1>20, <1>24, <2>1 DEF ReadParam
    <2>12. ReadEnum(s, p, v) = IF h THEN ReadField(z, p.kind, p) ELSE z
      BY <1>24, <2>8, <2>9 DEF ReadEnum
    <2>13. CASE Has(t, p)
      <3>1. ReadField(z, p.kind, p) = St(rest, F, Got(A, G))
        BY <1>16, <2>10, <2>13
      <3>2. h
        BY <2>4, <2>13, Zenon
      <3> QED BY <1>1, <1>2, <1>14, <2>11, <2>12, <3>1, <3>2, Zenon
    <2>14. CASE ~Has(t, p)
      <3>1. z = St(rest, F, Got(A, G))
        BY <1>9, <1>13, <1>15, <2>10, <2>14
      <3>2. ~h
        BY <2>4, <2>14, Zenon
      <3> QED BY <1>1, <1>2, <1>14, <2>11, <2>12, <3>1, <3>2, Zenon
    <2> QED BY <2>13, <2>14
  <1> QED BY <1>7, <1>21, <1>22, <1>23, <1>24

LEMMA ParamTokensSeq ==
    ASSUME NEW t, NEW p, NEW v
    PROVE  IsSeq(TypeParamTokens(t, p, v))
  <1>1. PICK a : a = Token(p.kind, Args(t)[p.name])
    OBVIOUS
  <1>2. PICK b : b = Token("presence", Has(t, p))
    OBVIOUS
  <1>3. PICK value : value = IF Has(t, p) THEN <<a>> ELSE <<>>
    OBVIOUS
  <1>4. TypeParamTokens(t, p, v) = <<>> \/ TypeParamTokens(t, p, v) = <<b>> \o value
            \/ TypeParamTokens(t, p, v) = value
    BY <1>1, <1>2, <1>3, Zenon DEF TypeParamTokens
  <1>7. value = <<a>> \/ value = <<>>
    BY <1>3
  <1>8. <<a>> \in Seq({a, b}) /\ <<b>> \in Seq({a, b}) /\ <<>> \in Seq({a, b})
    OBVIOUS
  <1>5. value \in Seq({a, b}) /\ <<b>> \in Seq({a, b}) /\ <<>> \in Seq({a, b})
    BY <1>7, <1>8
  <1>6. <<b>> \o value \in Seq({a, b})
    <2>1. PICK S : S = {a, b}
      OBVIOUS
    <2>2. PICK w \in Seq(S) : w = value
      BY <1>5, <2>1
    <2>3. PICK x \in Seq(S) : x = <<b>>
      BY <1>5, <2>1
    <2>4. x \o w \in Seq(S)
      OBVIOUS
    <2> QED BY <2>1, <2>2, <2>3, <2>4
  <1> QED BY <1>4, <1>5, <1>6 DEF IsSeq

LEMMA TypeFlagTokensSeq ==
    ASSUME NEW t, NEW v
    PROVE  IsSeq(TypeFlagTokens(t, v))
  <1>1. PICK k : k = Token("flags", {n \in DOMAIN Optionals(Order(Decl(t))) :
                                        Has(t, Optionals(Order(Decl(t)))[n])})
    OBVIOUS
  <1>2. TypeFlagTokens(t, v) = <<>> \/ TypeFlagTokens(t, v) = <<k>>
    BY <1>1, Zenon DEF TypeFlagTokens
  <1>3. <<>> \in Seq({k}) /\ <<k>> \in Seq({k})
    OBVIOUS
  <1> QED BY <1>2, <1>3 DEF IsSeq

ParamsEmit(t, v) == [p \in ToSet(Decl(t).params) |-> TypeParamTokens(t, p, v)]

LEMMA ParamsEmitted ==
    ASSUME NEW t \in DOMAIN Types, NEW v \in Supported, ~TypeRefused(t, v), NEW r \in v..Latest,
           NEW e, e = ParamsEmit(t, v)
    PROVE  /\ Emits(e, KnownParams(t, r)) /\ Emits(e, Order(Decl(t)))
           /\ TypeData(t, v) = TypeFlagTokens(t, v) \o Tokens(e, KnownParams(t, r))
  <1>1. PICK o : o = Order(Decl(t))
    OBVIOUS
  <1>2. IsSeq(o) /\ ToSet(o) = ToSet(Decl(t).params)
    BY <1>1, OrderFacts
  <1>3. \A p \in ToSet(o) : e[p] = TypeParamTokens(t, p, v)
    BY <1>2 DEF ParamsEmit
  <1>4. Emits(e, o)
    BY <1>2, <1>3, ParamTokensSeq DEF Emits
  <1>5. v \in 1..Latest /\ r \in Nat /\ v <= r
    BY SomeVersions
  <1>6. PICK K : K = KnownParams(t, r)
    OBVIOUS
  <1>7. PICK A : A = {p \in ToSet(o) : p.since <= r}
    OBVIOUS
  <1>8. K = Kept(o, A)
    BY <1>1, <1>6, <1>7 DEF KnownParams, Known
  <1>9. \A p \in ToSet(o) : p \notin A => e[p] = <<>>
    <2>1. ASSUME NEW p \in ToSet(o), p \notin A PROVE e[p] = <<>>
      <3>1. p.since \in 1..Latest /\ (v < p.since => Evolved(Decl(t), p))
        BY <1>2, ParamFacts
      <3>2. v < p.since
        <4>1. ~(p.since <= r)
          BY <1>7, <2>1
        <4> QED BY <1>5, <3>1, <4>1
      <3>3. TypeParamTokens(t, p, v) = <<>>
        BY <3>1, <3>2 DEF TypeParamTokens
      <3> QED BY <1>3, <3>3
    <2> QED BY <2>1
  <1>10. Tokens(e, K) = Tokens(e, o)
    BY <1>4, <1>8, <1>9, SilentLeftOut
  <1>11. IsSeq(K) /\ ToSet(K) \subseteq ToSet(o)
    BY <1>2, <1>8, KeptFacts
  <1>12. Emits(e, K)
    BY <1>4, <1>11 DEF Emits
  <1>13. PICK parts : parts = [n \in DOMAIN o |-> TypeParamTokens(t, o[n], v)]
    OBVIOUS
  <1>14. TypeData(t, v) = TypeFlagTokens(t, v) \o FlattenSeq(parts)
    BY <1>1, <1>13, Zenon DEF TypeData, Concat
  <1>15. parts = TokenLists(e, o)
    <2>1. \A n \in DOMAIN o : o[n] \in ToSet(o)
      BY <1>2, SeqIs
    <2>2. \A n \in DOMAIN o : e[o[n]] = TypeParamTokens(t, o[n], v)
      BY <1>3, <2>1
    <2> QED BY <1>13, <2>2 DEF TokenLists
  <1>16. FlattenSeq(parts) = Tokens(e, o)
    BY <1>15, Zenon DEF Tokens
  <1> QED BY <1>1, <1>4, <1>6, <1>10, <1>12, <1>14, <1>16

LEMMA StartIs ==
    ASSUME NEW tokens, NEW G
    PROVE  Start(tokens) = St(tokens, {}, Got({}, G))
  <1>1. Start(tokens) = St(tokens, {}, <<>>)
    BY Zenon DEF Start, St
  <1> QED BY <1>1, NothingGot

HasParams(t) == {p \in ToSet(Decl(t).params) : Has(t, p)}

LEMMA TypeDataRead ==
    ASSUME NEW t \in DOMAIN Types, NEW v \in Supported, ~TypeRefused(t, v), NEW r \in v..Latest,
           NEW d, d = KnownType(Types[t].decl, r),
           NEW s, s = St(TypeData(t, v), {}, Got({}, Args(t)))
    PROVE  ReadTypeData(d, v, s) =
                St(<<>>, TypeFlags(t, v), Got(NamesIn(HasParams(t), KnownParams(t, r)), Args(t)))
  <1>1. PICK e : e = ParamsEmit(t, v)
    OBVIOUS
  <1>2. PICK K : K = KnownParams(t, r)
    OBVIOUS
  <1>3. PICK F : F = TypeFlags(t, v)
    OBVIOUS
  <1>4. PICK G : G = Args(t)
    OBVIOUS
  <1>5. PICK P : P = HasParams(t)
    OBVIOUS
  <1>6. /\ Emits(e, K)
        /\ TypeData(t, v) = TypeFlagTokens(t, v) \o Tokens(e, K)
    BY <1>1, <1>2, ParamsEmitted
  <1>7. PICK more : more = Tokens(e, K)
    OBVIOUS
  <1>8. IsSeq(more) /\ IsSeq(K)
    <2>1. PICK S : TokenLists(e, K) \in Seq(Seq(S))
      BY <1>6, EmittedSeqs
    <2>2. FlattenSeq(TokenLists(e, K)) \in Seq(S)
      BY <2>1, FlattenElements
    <2> QED BY <1>6, <1>7, <2>2 DEF IsSeq, Tokens, Emits
  <1>9. PICK z : z = ReadTypeFlags(d, v, s)
    OBVIOUS
  <1>10. z = St(more, F, Got({}, G))
    <2>1. s = St(TypeFlagTokens(t, v) \o more, {}, Got({}, G))
      BY <1>4, <1>6, <1>7
    <2> QED BY <1>3, <1>8, <1>9, <2>1, TypeFlagsRead
  <1>11. PICK none : none = <<>>
    OBVIOUS
  <1>12. IsSeq(none) /\ more \o none = more
    BY <1>8, <1>11, NoElements, JoinFacts
  <1>13. PICK w : Walks(w, K, e, none, F, {}, G, P)
    BY <1>6, <1>12, WalkExists
  <1>14. /\ w[0] = St(more \o none, F, Got({}, G))
         /\ w[Len(K)] = St(none, F, Got({} \cup NamesIn(P, K), G))
         /\ \A n \in 1..Len(K) : Steps(w[n - 1], w[n], K[n], e, F, {}, G, P)
    BY <1>7, <1>13 DEF Walks
  <1>15. w[0] = z
    BY <1>10, <1>12, <1>14
  <1>16. d.since = Decl(t).since /\ d.params = K /\ Order(d) = K
    BY <1>2, KnownTypeIs
  <1>17. \A n \in 1..Len(K) : ReadTypeParam(d, v, w[n - 1], K[n]) = w[n]
    <2>1. ASSUME NEW n \in 1..Len(K) PROVE ReadTypeParam(d, v, w[n - 1], K[n]) = w[n]
      <3>1. PICK p \in ToSet(K) : p = K[n]
        BY <1>8, SeqIs
      <3>2. PICK a : a = w[n - 1]
        OBVIOUS
      <3>3. PICK b : b = w[n]
        OBVIOUS
      <3>4. Steps(a, b, p, e, F, {}, G, P)
        BY <1>14, <3>1, <3>2, <3>3
      <3>5. PICK rest, C : /\ IsSeq(rest) /\ {} \subseteq C
                           /\ a = St(e[p] \o rest, F, Got(C, G))
                           /\ b = St(rest, F, Got(IF p \in P THEN C \cup {p.name} ELSE C, G))
        BY <3>4, Zenon DEF Steps
      <3>6. p \in ToSet(Decl(t).params)
        <4>1. r \in Nat
          BY SomeVersions
        <4> QED BY <1>2, <4>1, KnownParamsFacts
      <3>7. e[p] = TypeParamTokens(t, p, v)
        BY <1>1, <3>6 DEF ParamsEmit
      <3>8. a = St(TypeParamTokens(t, p, v) \o rest, TypeFlags(t, v), Got(C, Args(t)))
        BY <1>3, <1>4, <3>5, <3>7
      <3>9. p \in ToSet(d.params)
        BY <1>16
      <3>10. ReadTypeParam(d, v, a, p) = St(rest, TypeFlags(t, v), Got(AfterParam(t, p, C), Args(t)))
        BY <3>5, <3>8, <3>9, ParamRead
      <3>11. AfterParam(t, p, C) = IF p \in P THEN C \cup {p.name} ELSE C
        BY <1>5, <3>6 DEF AfterParam, HasParams
      <3>12. ReadTypeParam(d, v, a, p) = b
        BY <1>3, <1>4, <3>5, <3>10, <3>11
      <3> QED BY <3>1, <3>2, <3>3, <3>12
    <2> QED BY <2>1
  <1>18. RunsTypeParam(w, d, v, z, K)
    BY <1>15, <1>17 DEF RunsTypeParam
  <1>19. AllTypeParam(d, v, z, K) = w[Len(K)]
    BY <1>8, <1>18, EachTypeParam
  <1>20. ~(v < d.since)
    <2>1. Decl(t).since \in 1..Latest
      BY TypeFacts DEF Supported
    <2>2. v \in 1..Latest /\ Latest \in Nat
      BY SomeVersions
    <2> QED BY <1>16, <2>1, <2>2 DEF TypeRefused
  <1>21. ReadTypeData(d, v, s) = w[Len(K)]
    BY <1>9, <1>16, <1>19, <1>20, Zenon DEF ReadTypeData, AllTypeParam
  <1>22. {} \cup NamesIn(P, K) = NamesIn(P, K)
    OBVIOUS
  <1> QED BY <1>2, <1>3, <1>4, <1>5, <1>11, <1>14, <1>21, <1>22

(* A type is read as what is known of it, and the rest of it was nothing.  *)
TypeUnderstood(t, r, parsed) ==
    LET params == Known(Decl(t).params, r)
        names == {p.name : p \in ToSet(params)} \cap DOMAIN Args(t)
    IN /\ parsed.ok
       /\ [decl |-> parsed.decl, args |-> parsed.args]
            = [decl |-> Types[t].decl, args |-> [name \in names |-> Args(t)[name]]]
       /\ \A p \in LeftOut(Decl(t).params, params) :
            p.name \in DOMAIN Args(t) => ~p.optional /\ Args(t)[p.name] = Default

LEMMA TypeRead ==
    ASSUME NEW t \in DOMAIN Types, NEW v \in Supported, ~TypeRefused(t, v), NEW r \in v..Latest
    PROVE  TypeUnderstood(t, r, ReadType(r, TypeTokens(t, v), v))
  <1>1. PICK tag : tag = Types[t].decl
    OBVIOUS
  <1>2. PICK G : G = Args(t)
    OBVIOUS
  <1>3. PICK K : K = KnownParams(t, r)
    OBVIOUS
  <1>4. PICK d : d = KnownType(Types[t].decl, r)
    OBVIOUS
  <1>5. v \in 1..Latest /\ r \in Nat /\ v <= r
    BY SomeVersions
  <1>6. PICK data : data = TypeData(t, v)
    OBVIOUS
  <1>7. IsSeq(data)
    <2>1. PICK e : e = ParamsEmit(t, v)
      OBVIOUS
    <2>2. Emits(e, K) /\ data = TypeFlagTokens(t, v) \o Tokens(e, K)
      BY <1>3, <1>6, <2>1, ParamsEmitted
    <2>3. PICK S : TokenLists(e, K) \in Seq(Seq(S))
      BY <2>2, EmittedSeqs
    <2>4. IsSeq(Tokens(e, K))
      BY <2>3, FlattenElements DEF IsSeq, Tokens
    <2> QED BY <2>2, <2>4, TypeFlagTokensSeq, JoinFacts
  <1>8. PICK tokens : tokens = TypeTokens(t, v)
    OBVIOUS
  <1>9. tokens = <<Token("tag", tag)>> \o data
    BY <1>1, <1>6, <1>8 DEF TypeTokens, TypeTag
  <1>10. PICK s : s = Start(tokens)
    OBVIOUS
  <1>11. s = St(<<Token("tag", tag)>> \o data, {}, Got({}, G))
    BY <1>9, <1>10, StartIs
  <1>12. s.rest = tokens
    <2>1. s = St(tokens, {}, Got({}, G))
      BY <1>10, StartIs
    <2> QED BY <2>1, StFields
  <1>13. Sees(s, "tag") /\ Head(tokens).of = tag /\ Past(s) = St(data, {}, Got({}, G))
    <2>1. \A x : Sees(s, x) <=> x = "tag"
      BY <1>7, <1>11, SeesIs
    <2>2. Head(s.rest).of = tag
      BY <1>7, <1>11, SeesIs
    <2>3. Past(s) = St(data, {}, Got({}, G))
      BY <1>7, <1>11, SeesIs
    <2>4. Sees(s, "tag")
      BY <2>1
    <2>5. Head(tokens).of = tag
      BY <1>12, <2>2
    <2> QED BY <2>3, <2>4, <2>5
  <1>14. PICK end : end = ReadTypeData(d, v, Past(s))
    OBVIOUS
  <1>15. end = St(<<>>, TypeFlags(t, v), Got(NamesIn(HasParams(t), K), G))
    <2>1. PICK z : z = Past(s)
      OBVIOUS
    <2>2. z = St(TypeData(t, v), {}, Got({}, Args(t)))
      BY <1>2, <1>6, <1>13, <2>1
    <2>3. ReadTypeData(d, v, z) =
            St(<<>>, TypeFlags(t, v), Got(NamesIn(HasParams(t), KnownParams(t, r)), Args(t)))
      BY <1>4, <2>2, TypeDataRead
    <2> QED BY <1>2, <1>3, <1>14, <2>1, <2>3
  <1>16. end.ok /\ end.rest = <<>> /\ end.got = Got(NamesIn(HasParams(t), K), G)
    BY <1>15, StFields
  <1>17. TypeDecls[tag].since <= r
    <2>1. Decl(t).since \in 1..Latest
      BY TypeFacts DEF Supported
    <2>2. Decl(t).since <= v
      BY <1>5, <2>1, SomeVersions DEF TypeRefused
    <2> QED BY <1>1, <1>5, <2>1, <2>2 DEF Decl
  <1>18. PICK parsed : parsed = ReadType(r, tokens, v)
    OBVIOUS
  <1>19. PICK fine : fine = (end.ok /\ end.rest = <<>>)
    OBVIOUS
  <1>20. parsed = [ok |-> fine, decl |-> tag, args |-> end.got]
    <2>1. d = KnownType(Head(tokens).of, r)
      BY <1>1, <1>4, <1>13
    <2> QED BY <1>10, <1>13, <1>14, <1>17, <1>18, <1>19, <2>1, Zenon DEF ReadType
  <1>21. parsed.ok = fine /\ parsed.decl = tag /\ parsed.args = end.got
    BY <1>20
  <1>22. fine
    BY <1>16, <1>19, Zenon
  <1>23. parsed.ok
    BY <1>21, <1>22, Zenon
  <1>24. PICK params : params = Known(Decl(t).params, r)
    OBVIOUS
  <1>25. PICK names : names = {p.name : p \in ToSet(params)} \cap DOMAIN G
    OBVIOUS
  <1>26. \A p : p \in ToSet(params) <=> p \in ToSet(Decl(t).params) /\ p.since <= r
    <2>1. IsSeq(Decl(t).params)
      BY TypeFacts, FieldFacts
    <2> QED BY <1>24, <2>1, KnownFacts
  <1>27. NamesIn(HasParams(t), K) = names
    <2>1. \A p : p \in ToSet(K) <=> p \in ToSet(Decl(t).params) /\ p.since <= r
      BY <1>3, <1>5, KnownParamsFacts
    <2>2. \A p : p \in ToSet(K) \cap HasParams(t) <=> p \in ToSet(params) /\ p.name \in DOMAIN G
      BY <1>2, <1>26, <2>1 DEF HasParams, Has
    <2> QED BY <1>25, <2>2 DEF NamesIn
  <1>28. parsed.args = [name \in names |-> G[name]]
    BY <1>16, <1>21, <1>27 DEF Got
  <1>29. \A p \in LeftOut(Decl(t).params, params) :
            p.name \in DOMAIN G => ~p.optional /\ G[p.name] = Default
    <2>1. ASSUME NEW p \in LeftOut(Decl(t).params, params), p.name \in DOMAIN G
          PROVE  ~p.optional /\ G[p.name] = Default
      <3>1. p \in ToSet(Decl(t).params) /\ ~(p.since <= r)
        BY <1>26 DEF LeftOut
      <3>2. /\ p.since \in 1..Latest
            /\ v < p.since /\ p.optional => ~Has(t, p)
            /\ v < p.since /\ ~p.optional => G[p.name] = Default
        BY <1>2, <3>1, ParamFacts
      <3>3. v < p.since
        BY <1>5, <3>1, <3>2
      <3> QED BY <1>2, <2>1, <3>2, <3>3 DEF Has
    <2> QED BY <2>1
  <1>30. [decl |-> parsed.decl, args |-> parsed.args]
            = [decl |-> Types[t].decl, args |-> [name \in names |-> G[name]]]
    BY <1>1, <1>21, <1>28
  <1> QED BY <1>2, <1>8, <1>18, <1>23, <1>24, <1>25, <1>29, <1>30 DEF TypeUnderstood

(* The writer's and the reader's tokens of a type are where the two meet.  *)
LEMMA TypeCompleteIs ==
    ASSUME NEW t \in DOMAIN Types, NEW parsed, TypeUnderstood(t, release, parsed),
           types[t] = [decl |-> parsed.decl, args |-> parsed.args]
    PROVE  TypeComplete(t)
  BY DEF TypeUnderstood, TypeComplete

(* What a structured attribute's parameters are, when it is not refused.   *)
RecordHas(x, p) == ~p.optional \/ p.name \in Values[x].has

RecordOf(x, v, r, d, K) ==
    /\ x \in DOMAIN Values /\ IsRecord(x) /\ v \in Supported /\ r \in v..Latest
    /\ ~ValueRefused(x, v)
    /\ d = AttrDecl(x) /\ K = Known(d.params, r)

LEMMA RecordFacts ==
    ASSUME NEW x, NEW v, NEW r, NEW d, NEW K, RecordOf(x, v, r, d, K)
    PROVE  /\ IsSeq(d.params) /\ d.requiredFirst \in BOOLEAN
           /\ d = AttrDecls[Values[x].decl]
           /\ \A f, g \in ToSet(d.params) : f.name = g.name => f = g
           /\ \A p \in ToSet(d.params) : /\ p.optional \in BOOLEAN /\ p.since \in 1..Latest
                                         /\ RecordHas(x, p) => p.since <= r
           /\ Values[x].has \subseteq {p.name : p \in {q \in ToSet(d.params) : q.optional}}
           /\ \A w \in DOMAIN Values : IsRecord(w) /\ Values[w].decl = Values[x].decl
                                            /\ Values[w].has = Values[x].has => w = x
  <1>1. /\ Values[x].decl \in DOMAIN AttrDecls
        /\ Values[x].has \subseteq {p.name : p \in {q \in ToSet(AttrDecls[Values[x].decl].params) : q.optional}}
        /\ \A w \in DOMAIN Values : IsRecord(w) /\ Values[w].decl = Values[x].decl
                                            /\ Values[w].has = Values[x].has => w = x
    <2>1. ValueAccepted(x) /\ Values[x].kind = "record"
      BY ValuesAssumption DEF RecordOf, IsRecord
    <2> QED BY <2>1 DEF ValueAccepted, IsRecord
  <1>2. d = AttrDecls[Values[x].decl]
    BY DEF RecordOf, AttrDecl
  <1>3. /\ d.since \in Supported /\ d.requiredFirst \in BOOLEAN /\ FieldsAccepted(d.params, d.since)
        /\ \A p \in ToSet(d.params) : AttrParamAccepted(d, p)
    BY <1>1, <1>2, AttributesAssumption DEF AttrsAccepted
  <1>4. /\ IsSeq(d.params)
        /\ \A p \in ToSet(d.params) : p.since \in d.since..Latest /\ p.optional \in BOOLEAN
        /\ \A f, g \in ToSet(d.params) : f.name = g.name => f = g
    BY <1>3, FieldFacts
  <1>5. v \in 1..Latest /\ r \in Nat /\ v <= r /\ Latest \in Nat /\ d.since \in 1..Latest
    BY <1>3, SomeVersions DEF RecordOf
  <1>6. d.since <= v
    <2>1. ~RecordRefused(x, v)
      BY DEF RecordOf, ValueRefused
    <2> QED BY <1>5, <2>1 DEF RecordRefused, RecordOf
  <1>7. \A p \in ToSet(d.params) : p.since \in 1..Latest /\ (RecordHas(x, p) => p.since <= r)
    <2>1. ASSUME NEW p \in ToSet(d.params), RecordHas(x, p), ~(p.since <= r) PROVE FALSE
      <3>1. p.since \in d.since..Latest
        BY <1>4
      <3>2. v < p.since /\ p.since # d.since
        BY <1>5, <1>6, <2>1, <3>1
      <3>3. Evolved(d, p)
        BY <3>2 DEF Evolved
      <3>4. p.optional
        BY <1>3, <3>3 DEF AttrParamAccepted
      <3>5. p.name \in Values[x].has
        BY <2>1, <3>4 DEF RecordHas
      <3>6. AttrParamRefused(x, p, v)
        BY <3>2, <3>3, <3>5 DEF AttrParamRefused, RecordOf
      <3>7. ValueRefused(x, v)
        BY <3>6 DEF ValueRefused, RecordRefused, RecordOf
      <3> QED BY <3>7 DEF RecordOf
    <2>2. \A p \in ToSet(d.params) : p.since \in 1..Latest
      BY <1>4, <1>5
    <2> QED BY <2>1, <2>2
  <1> QED BY <1>1, <1>2, <1>3, <1>4, <1>7

LEMMA RecordKnown ==
    ASSUME NEW x, NEW v, NEW r, NEW d, NEW K, RecordOf(x, v, r, d, K)
    PROVE  /\ IsSeq(K) /\ \A p : p \in ToSet(K) <=> p \in ToSet(d.params) /\ p.since <= r
           /\ Required(K) = AttrRequired(d)
           /\ StartOf(Optionals(K), AttrOptionals(d))
           /\ Optionals(K) = Kept(AttrOptionals(d), {p \in ToSet(d.params) : p.since <= r})
           /\ AttrOptionals(d) = <<>> <=> Optionals(K) = <<>>
  <1>1. PICK s : s = d.params
    OBVIOUS
  <1>2. /\ IsSeq(s) /\ Values[x].decl \in DOMAIN AttrDecls
        /\ \A p \in ToSet(s) : p.optional \in BOOLEAN /\ p.since \in 1..Latest
                                 /\ (RecordHas(x, p) => p.since <= r)
    <2>1. ValueAccepted(x) /\ Values[x].kind = "record"
      BY ValuesAssumption DEF RecordOf, IsRecord
    <2>2. Values[x].decl \in DOMAIN AttrDecls
      BY <2>1 DEF ValueAccepted
    <2> QED BY <1>1, <2>2, RecordFacts
  <1>3. K = Known(s, r) /\ v \in 1..Latest /\ r \in Nat /\ v <= r
    BY <1>1, SomeVersions DEF RecordOf
  <1>4. IsSeq(K) /\ \A p : p \in ToSet(K) <=> p \in ToSet(s) /\ p.since <= r
    BY <1>2, <1>3, KnownFacts
  <1>5. PICK N \in Nat : N = Len(s) /\ DOMAIN s = 1..N
    BY <1>2, SeqIs
  <1>6. \A n \in 1..N : AttrParamUnforced(d, n) /\ s[n] \in ToSet(s)
    <2>1. d = AttrDecls[Values[x].decl]
      BY RecordFacts
    <2> QED BY <1>1, <1>2, <1>5, <2>1, AttributesAssumption, SeqIs
  <1>7. d.since \in 1..Latest /\ d.since <= r
    <2>1. d.since \in 1..Latest
      BY <1>2, AttributesAssumption, RecordFacts DEF AttrsAccepted, Supported
    <2>2. ~RecordRefused(x, v) /\ IsRecord(x) /\ d = AttrDecl(x)
      BY DEF RecordOf, ValueRefused
    <2>3. d.since <= v
      BY <1>3, <2>1, <2>2, SomeVersions DEF RecordRefused
    <2> QED BY <1>3, <2>1, <2>3
  <1>8. OptionalsInOrder(s, r)
    <2>1. ASSUME NEW n \in 1..N, NEW m \in 1..N, n < m, s[n].optional, s[m].optional, s[m].since <= r
          PROVE  s[n].since <= r
      <3>1. CASE Evolved(d, s[n])
        <4>1. s[m].since = s[n].since
          BY <1>1, <1>5, <1>6, <2>1, <3>1 DEF AttrParamUnforced
        <4> QED BY <2>1, <4>1
      <3>2. CASE ~Evolved(d, s[n])
        BY <1>7, <3>2 DEF Evolved
      <3> QED BY <3>1, <3>2
    <2> QED BY <1>5, <2>1 DEF OptionalsInOrder
  <1>9. StartOf(Optionals(K), Optionals(s))
    BY <1>2, <1>3, <1>8, OptionalsFront
  <1>10. Required(K) = Required(s)
    <2>1. \A p \in ToSet(s) : ~p.optional => p.since <= r
      BY <1>2 DEF RecordHas
    <2> QED BY <1>2, <1>3, <2>1, RequiredKnown
  <1>11. Optionals(K) = Kept(Optionals(s), {p \in ToSet(s) : p.since <= r})
    BY <1>2, <1>3, OptionalsKnown
  <1>12. ASSUME Optionals(s) # <<>> PROVE Optionals(K) # <<>>
    <2>1. PICK f : f \in ToSet(Optionals(s))
      <3>1. PICK o : o = Optionals(s)
        OBVIOUS
      <3>2. IsSeq(o) /\ o # <<>>
        BY <1>2, <1>12, <3>1, OptionalsFacts
      <3>3. Len(o) \in Nat /\ o \in Seq(ToSet(o)) /\ \A n \in 1..Len(o) : o[n] \in ToSet(o)
        BY <3>2, SeqIs
      <3>4. Len(o) # 0
        BY <3>2, <3>3
      <3>5. 1 \in 1..Len(o)
        BY <3>3, <3>4
      <3> QED BY <3>1, <3>3, <3>5
    <2>2. f \in ToSet(s) /\ f.optional
      BY <1>2, <2>1, OptionalsFacts
    <2>3. PICK k \in 1..N : s[k] = f
      BY <1>5, <2>2 DEF ToSet
    <2>4. PICK S : S = {n \in 1..N : s[n].optional}
      OBVIOUS
    <2>5. S \subseteq Nat /\ S # {}
      BY <2>2, <2>3, <2>4
    <2>6. PICK n \in S : \A m \in S : n <= m
      BY <2>5, MinIs
    <2>7. n \in 1..N /\ s[n].optional
      BY <2>4
    <2>8. ~Evolved(d, s[n])
      <3>1. ASSUME Evolved(d, s[n]) PROVE FALSE
        <4>1. PICK m \in 1..(n - 1) : s[m].optional
          BY <1>1, <1>6, <2>7, <3>1 DEF AttrParamUnforced
        <4>2. m \in 1..N /\ ~(n <= m)
          BY <2>7
        <4> QED BY <2>4, <2>6, <4>1, <4>2
      <3> QED BY <3>1
    <2>9. s[n].since <= r
      BY <1>7, <2>8 DEF Evolved
    <2>10. s[n] \in ToSet(K)
      BY <1>4, <1>6, <2>7, <2>9
    <2>11. s[n] \in ToSet(Optionals(K))
      BY <1>4, <2>7, <2>10, OptionalsFacts
    <2> QED BY <2>11, NoElements
  <1>13. ASSUME Optionals(s) = <<>> PROVE Optionals(K) = <<>>
    <2>1. PICK o : o = Optionals(K)
      OBVIOUS
    <2>2. IsSeq(o)
      BY <1>4, <2>1, OptionalsFacts
    <2>3. Len(o) \in Nat /\ o \in Seq(ToSet(o))
      BY <2>2, SeqIs
    <2>4. PICK z : z = Optionals(s)
      OBVIOUS
    <2>5. StartOf(o, z) /\ z = <<>>
      BY <1>9, <1>13, <2>1, <2>4
    <2>6. Len(z) = 0
      BY <2>5
    <2>7. Len(o) = 0
      BY <2>3, <2>5, <2>6 DEF StartOf
    <2> QED BY <2>1, <2>3, <2>7
  <1> QED BY <1>1, <1>4, <1>9, <1>10, <1>11, <1>12, <1>13 DEF AttrRequired, AttrOptionals

RecordEmits(x, d) == [p \in ToSet(d.params) |-> AttrParamTokens(x, p)]

RecordFlags(x, d) == {n \in DOMAIN AttrOptionals(d) : AttrOptionals(d)[n].name \in Values[x].has}

RecordNames(x, d) == {p \in ToSet(d.params) : RecordHas(x, p)}

OwnNames(d) == [name \in Names(d.params) |-> name]

ParamTokensOf(x, fields) == Concat(LAMBDA p : AttrParamTokens(x, p), fields)

LEMMA RecordEmitted ==
    ASSUME NEW x, NEW d, IsSeq(d.params), NEW e, e = RecordEmits(x, d),
           NEW fields, IsSeq(fields), ToSet(fields) \subseteq ToSet(d.params)
    PROVE  /\ Emits(e, fields)
           /\ ParamTokensOf(x, fields) = Tokens(e, fields)
  <1>1. \A p \in ToSet(fields) : e[p] = AttrParamTokens(x, p)
    BY DEF RecordEmits
  <1>2. ASSUME NEW p PROVE IsSeq(AttrParamTokens(x, p))
    <2>1. PICK k : k = Token("param", p.name)
      OBVIOUS
    <2>2. AttrParamTokens(x, p) = <<>> \/ AttrParamTokens(x, p) = <<k>>
      BY <2>1 DEF AttrParamTokens
    <2> QED BY <2>2, TokenSeq
  <1>3. Emits(e, fields)
    BY <1>1, <1>2 DEF Emits
  <1>4. PICK parts : parts = [n \in DOMAIN fields |-> AttrParamTokens(x, fields[n])]
    OBVIOUS
  <1>5. ParamTokensOf(x, fields) = FlattenSeq(parts)
    BY <1>4, Zenon DEF Concat, ParamTokensOf
  <1>6. parts = TokenLists(e, fields)
    <2>1. \A n \in DOMAIN fields : fields[n] \in ToSet(fields)
      BY SeqIs
    <2> QED BY <1>1, <1>4, <2>1 DEF TokenLists
  <1>7. FlattenSeq(parts) = Tokens(e, fields)
    BY <1>6, Zenon DEF Tokens
  <1> QED BY <1>3, <1>5, <1>7, Zenon

AfterField(P, f, C) == IF f \in P THEN C \cup {f.name} ELSE C

LEMMA AttrParamRead ==
    ASSUME NEW x, NEW v, NEW r, NEW d, NEW K, RecordOf(x, v, r, d, K), NEW p \in ToSet(K),
           NEW F, p.optional => F = RecordFlags(x, d),
           NEW rest, IsSeq(rest), NEW C,
           NEW s, s = St(AttrParamTokens(x, p) \o rest, F, Got(C, OwnNames(d)))
    PROVE  ReadAttrParam(K, s, p) =
                St(rest, F, Got(AfterField(RecordNames(x, d), p, C), OwnNames(d)))
  <1>1. PICK G : G = OwnNames(d)
    OBVIOUS
  <1>2. /\ IsSeq(K) /\ p \in ToSet(d.params)
        /\ \A q : q \in ToSet(K) <=> q \in ToSet(d.params) /\ q.since <= r
        /\ StartOf(Optionals(K), AttrOptionals(d))
    BY RecordKnown
  <1>3. p.optional \in BOOLEAN /\ IsSeq(d.params) /\ \A f, g \in ToSet(d.params) : f.name = g.name => f = g
    BY <1>2, RecordFacts
  <1>4. G[p.name] = p.name
    BY <1>1, <1>2 DEF OwnNames, Names
  <1>5. p \in RecordNames(x, d) <=> RecordHas(x, p)
    BY <1>2 DEF RecordNames
  <1>6. s.flags = F
    BY StFields
  <1>7. PICK b : b = Bit(p, Optionals(K))
    OBVIOUS
  <1>8. p.optional => (b \in F <=> p.name \in Values[x].has)
    <2>1. ASSUME p.optional PROVE b \in F <=> p.name \in Values[x].has
      <3>1. PICK u : u = Optionals(K)
        OBVIOUS
      <3>2. PICK o : o = AttrOptionals(d)
        OBVIOUS
      <3>3. IsSeq(u) /\ p \in ToSet(u) /\ \A q \in ToSet(u) : q \in ToSet(d.params)
        BY <1>2, <2>1, <3>1, OptionalsFacts
      <3>4. IsSeq(o) /\ StartOf(u, o)
        BY <1>2, <1>3, <3>1, <3>2, OptionalsFacts DEF AttrOptionals
      <3>5. \A g \in ToSet(u) : g.name = p.name => g = p
        BY <1>2, <1>3, <3>3
      <3>6. Bit(p, u) \in DOMAIN o /\ o[Bit(p, u)] = p
        BY <3>3, <3>4, <3>5, BitOf
      <3>7. F = {n \in DOMAIN o : o[n].name \in Values[x].has}
        BY <2>1, <3>2 DEF RecordFlags
      <3> QED BY <1>7, <3>1, <3>6, <3>7
    <2> QED BY <2>1
  <1>9. CASE p.optional /\ p.name \notin Values[x].has
    <2>1. AttrParamTokens(x, p) = <<>>
      BY <1>9 DEF AttrParamTokens
    <2>2. s = St(rest, F, Got(C, G))
      BY <1>1, <2>1, JoinFacts
    <2>3. ReadAttrParam(K, s, p) = s
      BY <1>6, <1>7, <1>8, <1>9 DEF ReadAttrParam
    <2>4. p \notin RecordNames(x, d)
      BY <1>5, <1>9 DEF RecordHas
    <2> QED BY <1>1, <2>2, <2>3, <2>4 DEF AfterField
  <1>10. CASE ~(p.optional /\ p.name \notin Values[x].has)
    <2>1. AttrParamTokens(x, p) = <<Token("param", p.name)>>
      BY <1>10 DEF AttrParamTokens
    <2>2. s = St(<<Token("param", p.name)>> \o rest, F, Got(C, G))
      BY <1>1, <2>1
    <2>3. \A tag : Sees(s, tag) <=> tag = "param"
      BY <2>2, SeesIs
    <2>4. Head(s.rest).of = p.name
      BY <2>2, SeesIs
    <2>5. Past(s) = St(rest, F, Got(C, G))
      BY <2>2, SeesIs
    <2>6. ~(p.optional /\ b \notin s.flags)
      BY <1>6, <1>8, <1>10
    <2>7. Sees(s, "param")
      BY <2>3
    <2>8. ReadAttrParam(K, s, p) = Keep(Past(s), p, p.name)
      BY <1>7, <2>4, <2>6, <2>7 DEF ReadAttrParam
    <2>9. PICK z : z = Past(s)
      OBVIOUS
    <2>10. z = St(rest, F, Got(C, G))
      BY <2>5, <2>9
    <2>11. Keep(z, p, G[p.name]) = St(rest, F, Got(C \cup {p.name}, G))
      BY <2>10, KeepIs
    <2>12. p \in RecordNames(x, d)
      BY <1>5, <1>10 DEF RecordHas
    <2> QED BY <1>1, <1>4, <2>8, <2>9, <2>11, <2>12 DEF AfterField
  <1> QED BY <1>9, <1>10

LEMMA AttrParamsRead ==
    ASSUME NEW x, NEW v, NEW r, NEW d, NEW K, RecordOf(x, v, r, d, K),
           NEW fields, IsSeq(fields), ToSet(fields) \subseteq ToSet(K),
           NEW F, \A p \in ToSet(fields) : p.optional => F = RecordFlags(x, d),
           NEW more, IsSeq(more), NEW C,
           NEW s, s = St(Tokens(RecordEmits(x, d), fields) \o more, F, Got(C, OwnNames(d)))
    PROVE  ReadAttrParams(K, s, fields) =
                St(more, F, Got(C \cup NamesIn(RecordNames(x, d), fields), OwnNames(d)))
  <1>1. PICK e : e = RecordEmits(x, d)
    OBVIOUS
  <1>2. PICK P : P = RecordNames(x, d)
    OBVIOUS
  <1>3. PICK G : G = OwnNames(d)
    OBVIOUS
  <1>4. IsSeq(d.params) /\ ToSet(fields) \subseteq ToSet(d.params)
    BY RecordKnown, RecordFacts
  <1>5. Emits(e, fields)
    BY <1>1, <1>4, RecordEmitted
  <1>6. PICK w : Walks(w, fields, e, more, F, C, G, P)
    BY <1>5, WalkExists
  <1>7. /\ w[0] = St(Tokens(e, fields) \o more, F, Got(C, G))
        /\ w[Len(fields)] = St(more, F, Got(C \cup NamesIn(P, fields), G))
        /\ \A n \in 1..Len(fields) : Steps(w[n - 1], w[n], fields[n], e, F, C, G, P)
    BY <1>6 DEF Walks
  <1>8. ASSUME NEW n \in 1..Len(fields) PROVE ReadAttrParam(K, w[n - 1], fields[n]) = w[n]
    <2>1. PICK p \in ToSet(fields) : p = fields[n]
      BY SeqIs
    <2>2. PICK a : a = w[n - 1]
      OBVIOUS
    <2>3. PICK b : b = w[n]
      OBVIOUS
    <2>4. Steps(a, b, p, e, F, C, G, P)
      BY <1>7, <2>1, <2>2, <2>3
    <2>5. PICK rest, B : /\ IsSeq(rest)
                         /\ a = St(e[p] \o rest, F, Got(B, G))
                         /\ b = St(rest, F, Got(IF p \in P THEN B \cup {p.name} ELSE B, G))
      BY <2>4, Zenon DEF Steps
    <2>6. e[p] = AttrParamTokens(x, p)
      BY <1>1, <1>4 DEF RecordEmits
    <2>7. a = St(AttrParamTokens(x, p) \o rest, F, Got(B, OwnNames(d)))
      BY <1>3, <2>5, <2>6
    <2>8. ReadAttrParam(K, a, p) =
            St(rest, F, Got(AfterField(RecordNames(x, d), p, B), OwnNames(d)))
      <3>1. p \in ToSet(K) /\ (p.optional => F = RecordFlags(x, d))
        OBVIOUS
      <3> QED BY <2>5, <2>7, <3>1, AttrParamRead
    <2> QED BY <1>2, <1>3, <2>1, <2>2, <2>3, <2>5, <2>8 DEF AfterField
  <1>9. w[0] = s
    BY <1>1, <1>3, <1>7
  <1>10. RunsAttrParam(w, K, s, fields)
    BY <1>8, <1>9 DEF RunsAttrParam
  <1>11. AllAttrParam(K, s, fields) = w[Len(fields)]
    BY <1>10, EachAttrParam
  <1>12. ReadAttrParams(K, s, fields) = AllAttrParam(K, s, fields)
    BY Zenon DEF ReadAttrParams, AllAttrParam
  <1> QED BY <1>2, <1>3, <1>7, <1>11, <1>12

AttrFlagsAfter(x, d, flags) == IF AttrOptionals(d) = <<>> THEN flags ELSE RecordFlags(x, d)

LEMMA AttrFlagsRead ==
    ASSUME NEW x, NEW v, NEW r, NEW d, NEW K, RecordOf(x, v, r, d, K), NEW flags, NEW got,
           NEW more, IsSeq(more), NEW s, s = St(AttrFlagTokens(x) \o more, flags, got)
    PROVE  ReadAttrFlags(K, s) = St(more, AttrFlagsAfter(x, d, flags), got)
  <1>1. AttrOptionals(d) = <<>> <=> Optionals(K) = <<>>
    BY RecordKnown
  <1>2. d = AttrDecl(x)
    BY DEF RecordOf
  <1>3. CASE AttrOptionals(d) = <<>>
    <2>1. AttrFlagTokens(x) = <<>>
      BY <1>2, <1>3 DEF AttrFlagTokens
    <2>2. s = St(more, flags, got)
      BY <2>1, JoinFacts
    <2>3. ReadAttrFlags(K, s) = s
      BY <1>1, <1>3 DEF ReadAttrFlags
    <2> QED BY <1>3, <2>2, <2>3 DEF AttrFlagsAfter
  <1>4. CASE AttrOptionals(d) # <<>>
    <2>1. PICK F : F = RecordFlags(x, d)
      OBVIOUS
    <2>2. AttrFlagTokens(x) = <<Token("flags", F)>>
      BY <1>2, <1>4, <2>1 DEF AttrFlagTokens, RecordFlags
    <2>3. s = St(<<Token("flags", F)>> \o more, flags, got)
      BY <2>2
    <2>4. ReadFlags(s) = St(more, F, got)
      BY <2>3, FlagsRead
    <2>5. ReadAttrFlags(K, s) = ReadFlags(s)
      BY <1>1, <1>4 DEF ReadAttrFlags
    <2> QED BY <1>4, <2>1, <2>4, <2>5 DEF AttrFlagsAfter
  <1> QED BY <1>3, <1>4

LEMMA RecordTokensAre ==
    ASSUME NEW x, NEW v, NEW r, NEW d, NEW K, RecordOf(x, v, r, d, K), NEW e, e = RecordEmits(x, d)
    PROVE  /\ IsSeq(Tokens(e, Required(K))) /\ IsSeq(Tokens(e, Optionals(K))) /\ IsSeq(AttrFlagTokens(x))
           /\ d.requiredFirst => RecordTokens(x) =
                Joined(Joined(Tokens(e, Required(K)), AttrFlagTokens(x)), Tokens(e, Optionals(K)))
           /\ ~d.requiredFirst => RecordTokens(x) =
                Joined(Joined(AttrFlagTokens(x), Tokens(e, Required(K))), Tokens(e, Optionals(K)))
  <1>1. IsSeq(d.params) /\ d = AttrDecl(x)
    BY RecordFacts DEF RecordOf
  <1>2. PICK R : R = AttrRequired(d)
    OBVIOUS
  <1>3. PICK O : O = AttrOptionals(d)
    OBVIOUS
  <1>4. PICK A : A = {p \in ToSet(d.params) : p.since <= r}
    OBVIOUS
  <1>5. Required(K) = R /\ Optionals(K) = Kept(O, A)
    BY <1>2, <1>3, <1>4, RecordKnown
  <1>6. IsSeq(R) /\ ToSet(R) \subseteq ToSet(d.params)
    <2>1. PICK B : B = {f \in ToSet(d.params) : ~f.optional}
      OBVIOUS
    <2>2. R = Kept(d.params, B)
      BY <1>2, <2>1 DEF AttrRequired, Required
    <2> QED BY <1>1, <2>2, KeptFacts
  <1>7. IsSeq(O) /\ ToSet(O) \subseteq ToSet(d.params)
    BY <1>1, <1>3, OptionalsFacts DEF AttrOptionals
  <1>8. Emits(e, R) /\ ParamTokensOf(x, R) = Tokens(e, R)
    BY <1>1, <1>6, RecordEmitted
  <1>9. Emits(e, O) /\ ParamTokensOf(x, O) = Tokens(e, O)
    BY <1>1, <1>7, RecordEmitted
  <1>10. \A p \in ToSet(O) : p \notin A => e[p] = <<>>
    <2>1. ASSUME NEW p \in ToSet(O), p \notin A PROVE e[p] = <<>>
      <3>1. p \in ToSet(d.params)
        BY <1>7
      <3>2. ~(p.since <= r)
        BY <1>4, <2>1, <3>1
      <3>3. ~RecordHas(x, p)
        BY <3>1, <3>2, RecordFacts
      <3>4. AttrParamTokens(x, p) = <<>>
        BY <3>3 DEF RecordHas, AttrParamTokens
      <3> QED BY <3>1, <3>4 DEF RecordEmits
    <2> QED BY <2>1
  <1>11. Tokens(e, Kept(O, A)) = Tokens(e, O)
    BY <1>9, <1>10, SilentLeftOut
  <1>12. RecordTokens(x) =
            (IF d.requiredFirst THEN Tokens(e, R) \o AttrFlagTokens(x)
                                ELSE AttrFlagTokens(x) \o Tokens(e, R)) \o Tokens(e, O)
    BY <1>1, <1>2, <1>3, <1>8, <1>9, Zenon DEF RecordTokens, ParamTokensOf
  <1>13. IsSeq(AttrFlagTokens(x))
    <2>1. PICK k : k = Token("flags", {n \in DOMAIN O : O[n].name \in Values[x].has})
      OBVIOUS
    <2>2. AttrFlagTokens(x) = <<>> \/ AttrFlagTokens(x) = <<k>>
      BY <1>1, <1>3, <2>1 DEF AttrFlagTokens
    <2> QED BY <2>2, TokenSeq
  <1>14. IsSeq(Tokens(e, R)) /\ IsSeq(Tokens(e, O))
    BY <1>8, <1>9, TokensSeq
  <1>15. Tokens(e, Required(K)) = Tokens(e, R)
    BY <1>5
  <1>16. Tokens(e, Optionals(K)) = Tokens(e, O)
    BY <1>5, <1>11
  <1> QED BY <1>12, <1>13, <1>14, <1>15, <1>16 DEF Joined

(* What is left of a structured attribute's tokens, part by part.          *)
LEMMA RecordTokensJoin ==
    ASSUME NEW x, NEW v, NEW r, NEW d, NEW K, RecordOf(x, v, r, d, K), NEW e, e = RecordEmits(x, d),
           NEW more, IsSeq(more), NEW q, q = Tokens(e, Required(K)),
           NEW o, o = Tokens(e, Optionals(K)), NEW b, b = AttrFlagTokens(x)
    PROVE  /\ IsSeq(q) /\ IsSeq(o) /\ IsSeq(b)
           /\ d.requiredFirst => Joined(RecordTokens(x), more) = Joined(q, Joined(b, Joined(o, more)))
           /\ ~d.requiredFirst => Joined(RecordTokens(x), more) = Joined(b, Joined(q, Joined(o, more)))
  <1>4. PICK t : t = RecordTokens(x)
    OBVIOUS
  <1>1. IsSeq(q) /\ IsSeq(o) /\ IsSeq(b)
    BY RecordTokensAre
  <1>5. d.requiredFirst => t = Joined(Joined(q, b), o)
    BY <1>4, RecordTokensAre
  <1>6. ~d.requiredFirst => t = Joined(Joined(b, q), o)
    BY <1>4, RecordTokensAre
  <1>7. Joined(Joined(Joined(q, b), o), more) = Joined(q, Joined(b, Joined(o, more)))
    BY <1>1, JoinFour
  <1>8. Joined(Joined(Joined(b, q), o), more) = Joined(b, Joined(q, Joined(o, more)))
    BY <1>1, JoinFour
  <1> QED BY <1>1, <1>4, <1>5, <1>6, <1>7, <1>8

RecordGot(x, d, K) ==
    Got(({} \cup NamesIn(RecordNames(x, d), Required(K))) \cup NamesIn(RecordNames(x, d), Optionals(K)),
        OwnNames(d))

LEMMA RecordRead ==
    ASSUME NEW x, NEW v, NEW r, NEW d, NEW K, RecordOf(x, v, r, d, K), NEW flags, NEW got,
           NEW more, IsSeq(more), NEW s, s = St(RecordTokens(x) \o more, flags, got)
    PROVE  ReadRecord(Values[x].decl, r, s) = St(more, AttrFlagsAfter(x, d, flags), RecordGot(x, d, K))
  <1>1. PICK e : e = RecordEmits(x, d)
    OBVIOUS
  <1>2. PICK G : G = OwnNames(d)
    OBVIOUS
  <1>3. PICK P : P = RecordNames(x, d)
    OBVIOUS
  <1>4. PICK F : F = AttrFlagsAfter(x, d, flags)
    OBVIOUS
  <1>5. PICK R : R = Required(K)
    OBVIOUS
  <1>6. PICK O : O = Optionals(K)
    OBVIOUS
  <1>7. PICK req : req = Tokens(e, R)
    OBVIOUS
  <1>8. PICK opt : opt = Tokens(e, O)
    OBVIOUS
  <1>9. PICK bits : bits = AttrFlagTokens(x)
    OBVIOUS
  <1>15. PICK left : left = opt \o more
    OBVIOUS
  <1>26. /\ IsSeq(req) /\ IsSeq(opt) /\ IsSeq(bits)
         /\ d.requiredFirst => RecordTokens(x) \o more = req \o (bits \o left)
         /\ ~d.requiredFirst => RecordTokens(x) \o more = bits \o (req \o left)
    <2>1. req = Tokens(e, Required(K)) /\ opt = Tokens(e, Optionals(K))
      BY <1>5, <1>6, <1>7, <1>8
    <2>2. IsSeq(req) /\ IsSeq(opt) /\ IsSeq(bits)
      BY <1>1, <1>9, <2>1, RecordTokensJoin
    <2>3. d.requiredFirst =>
            Joined(RecordTokens(x), more) = Joined(req, Joined(bits, Joined(opt, more)))
      BY <1>1, <1>9, <2>1, RecordTokensJoin
    <2>4. ~d.requiredFirst =>
            Joined(RecordTokens(x), more) = Joined(bits, Joined(req, Joined(opt, more)))
      BY <1>1, <1>9, <2>1, RecordTokensJoin
    <2> QED BY <1>15, <2>2, <2>3, <2>4 DEF Joined
  <1>10. IsSeq(req) /\ IsSeq(opt) /\ IsSeq(bits)
    BY <1>26
  <1>11. IsSeq(K) /\ d.requiredFirst \in BOOLEAN /\ d = AttrDecls[Values[x].decl]
         /\ K = Known(d.params, r)
    <2>1. IsSeq(K)
      BY RecordKnown
    <2>2. d.requiredFirst \in BOOLEAN /\ d = AttrDecls[Values[x].decl]
      BY RecordFacts
    <2>3. K = Known(d.params, r)
      BY DEF RecordOf
    <2> QED BY <2>1, <2>2, <2>3
  <1>12. /\ IsSeq(R) /\ ToSet(R) \subseteq ToSet(K) /\ \A p \in ToSet(R) : ~p.optional
    <2>1. PICK B : B = {f \in ToSet(K) : ~f.optional}
      OBVIOUS
    <2>2. R = Kept(K, B)
      BY <1>5, <2>1 DEF Required
    <2>3. IsSeq(R) /\ \A x1 : x1 \in ToSet(R) <=> x1 \in ToSet(K) /\ x1 \in B
      BY <1>11, <2>2, KeptFacts
    <2> QED BY <2>1, <2>3
  <1>13. IsSeq(O) /\ ToSet(O) \subseteq ToSet(K)
    BY <1>6, <1>11, OptionalsFacts
  <1>14. O # <<>> => F = RecordFlags(x, d)
    BY <1>4, <1>6, RecordKnown DEF AttrFlagsAfter
  <1>27. IsSeq(left)
    BY <1>10, <1>15, JoinFacts
  <1>16. IsSeq(left) /\ IsSeq(req \o left) /\ IsSeq(bits \o left)
    <2>1. IsSeq(left)
      BY <1>10, <1>15, JoinFacts
    <2>2. IsSeq(req \o left)
      BY <1>10, <2>1, JoinFacts
    <2>3. IsSeq(bits \o left)
      BY <1>10, <2>1, JoinFacts
    <2> QED BY <2>1, <2>2, <2>3
  <1>17. PICK front : front = [s EXCEPT !.got = <<>>]
    OBVIOUS
  <1>18. front = St(RecordTokens(x) \o more, flags, Got({}, G))
    <2>1. PICK g : g = <<>>
      OBVIOUS
    <2>2. PICK rest : rest = RecordTokens(x) \o more
      OBVIOUS
    <2>3. s = St(rest, flags, got)
      BY <2>2
    <2>4. [s EXCEPT !.got = g] = St(rest, flags, g)
      BY <2>3, GotWith
    <2>5. g = Got({}, G)
      BY <2>1, NothingGot
    <2> QED BY <1>17, <2>1, <2>2, <2>4, <2>5
  <1>19. PICK D : D = {} \cup NamesIn(P, R)
    OBVIOUS
  <1>20. PICK required : required = IF d.requiredFirst
                        THEN ReadAttrFlags(K, ReadAttrParams(K, front, R))
                        ELSE ReadAttrParams(K, ReadAttrFlags(K, front), R)
    OBVIOUS
  <1>21. required = St(left, F, Got(D, G))
    <2>1. CASE d.requiredFirst
      <3>1. RecordTokens(x) \o more = req \o (bits \o left)
        BY <1>26, <2>1
      <3>2. front = St(Tokens(RecordEmits(x, d), R) \o (bits \o left), flags, Got({}, OwnNames(d)))
        BY <1>1, <1>2, <1>7, <1>18, <3>1
      <3>3. \A p \in ToSet(R) : p.optional => flags = RecordFlags(x, d)
        BY <1>12
      <3>4. PICK z : z = ReadAttrParams(K, front, R)
        OBVIOUS
      <3>5. ReadAttrParams(K, front, R) =
                St(bits \o left, flags, Got({} \cup NamesIn(RecordNames(x, d), R), OwnNames(d)))
        BY <1>12, <1>16, <3>2, <3>3, AttrParamsRead
      <3>6. z = St(AttrFlagTokens(x) \o left, flags, Got(D, G))
        BY <1>2, <1>3, <1>9, <1>19, <3>4, <3>5
      <3>7. ReadAttrFlags(K, z) = St(left, AttrFlagsAfter(x, d, flags), Got(D, G))
        BY <1>16, <3>6, AttrFlagsRead
      <3> QED BY <1>4, <1>20, <2>1, <3>4, <3>7
    <2>2. CASE ~d.requiredFirst
      <3>1. RecordTokens(x) \o more = bits \o (req \o left)
        BY <1>26, <2>2
      <3>2. front = St(AttrFlagTokens(x) \o (req \o left), flags, Got({}, G))
        BY <1>9, <1>18, <3>1
      <3>3. PICK z : z = ReadAttrFlags(K, front)
        OBVIOUS
      <3>4. ReadAttrFlags(K, front) = St(req \o left, AttrFlagsAfter(x, d, flags), Got({}, G))
        BY <1>16, <3>2, AttrFlagsRead
      <3>5. z = St(Tokens(RecordEmits(x, d), R) \o left, F, Got({}, OwnNames(d)))
        BY <1>1, <1>2, <1>4, <1>7, <3>3, <3>4
      <3>6. \A p \in ToSet(R) : p.optional => F = RecordFlags(x, d)
        BY <1>12
      <3>7. ReadAttrParams(K, z, R) =
                St(left, F, Got({} \cup NamesIn(RecordNames(x, d), R), OwnNames(d)))
        BY <1>12, <1>16, <3>5, <3>6, AttrParamsRead
      <3> QED BY <1>2, <1>3, <1>19, <1>20, <2>2, <3>3, <3>7
    <2> QED BY <2>1, <2>2
  <1>22. required = St(Tokens(RecordEmits(x, d), O) \o more, F, Got(D, OwnNames(d)))
    BY <1>1, <1>2, <1>8, <1>15, <1>21
  <1>23. \A p \in ToSet(O) : p.optional => F = RecordFlags(x, d)
    BY <1>14, NoElements
  <1>24. ReadAttrParams(K, required, O) =
            St(more, F, Got(D \cup NamesIn(RecordNames(x, d), O), OwnNames(d)))
    BY <1>13, <1>22, <1>23, AttrParamsRead
  <1>25. ReadRecord(Values[x].decl, r, s) = ReadAttrParams(K, required, O)
    BY <1>5, <1>6, <1>11, <1>17, <1>20, Zenon DEF ReadRecord
  <1> QED BY <1>3, <1>4, <1>5, <1>6, <1>19, <1>24, <1>25 DEF RecordGot

(* A structured attribute's tokens are a sequence.                         *)
LEMMA RecordTokensSeq ==
    ASSUME NEW x, NEW v, NEW r, NEW d, NEW K, RecordOf(x, v, r, d, K)
    PROVE  IsSeq(RecordTokens(x))
  <1>1. PICK q : q = Tokens(RecordEmits(x, d), Required(K))
    OBVIOUS
  <1>2. PICK o : o = Tokens(RecordEmits(x, d), Optionals(K))
    OBVIOUS
  <1>3. PICK b : b = AttrFlagTokens(x)
    OBVIOUS
  <1>4. IsSeq(q) /\ IsSeq(o) /\ IsSeq(b)
    BY <1>1, <1>2, <1>3, RecordTokensAre
  <1>5. d.requiredFirst => RecordTokens(x) = Joined(Joined(q, b), o)
    BY <1>1, <1>2, <1>3, RecordTokensAre
  <1>6. ~d.requiredFirst => RecordTokens(x) = Joined(Joined(b, q), o)
    BY <1>1, <1>2, <1>3, RecordTokensAre
  <1>7. ASSUME NEW a, IsSeq(a), NEW c, IsSeq(c) PROVE IsSeq(Joined(a, c))
    BY <1>7, JoinFacts DEF Joined
  <1>8. IsSeq(Joined(q, b)) /\ IsSeq(Joined(b, q))
    BY <1>4, <1>7
  <1>9. IsSeq(Joined(Joined(q, b), o)) /\ IsSeq(Joined(Joined(b, q), o))
    BY <1>4, <1>7, <1>8
  <1> QED BY <1>5, <1>6, <1>9

(* What was read of a structured attribute are its required parameters and *)
(* the optional ones it has.                                               *)
LEMMA RecordGotHas ==
    ASSUME NEW x, NEW v, NEW r, NEW d, NEW K, RecordOf(x, v, r, d, K)
    PROVE  DOMAIN RecordGot(x, d, K) \ {p.name : p \in ToSet(AttrRequired(d))} = Values[x].has
  <1>1. PICK R : R = Required(K)
    OBVIOUS
  <1>2. PICK O : O = Optionals(K)
    OBVIOUS
  <1>3. PICK P : P = RecordNames(x, d)
    OBVIOUS
  <1>4. DOMAIN RecordGot(x, d, K) = ({} \cup NamesIn(P, R)) \cup NamesIn(P, O)
    BY <1>1, <1>2, <1>3 DEF RecordGot, Got
  <1>5. R = AttrRequired(d)
    BY <1>1, RecordKnown
  <1>6. /\ IsSeq(d.params) /\ \A f, g \in ToSet(d.params) : f.name = g.name => f = g
        /\ \A p \in ToSet(d.params) : p.optional \in BOOLEAN /\ (RecordHas(x, p) => p.since <= r)
        /\ Values[x].has \subseteq {p.name : p \in {q \in ToSet(d.params) : q.optional}}
    BY RecordFacts
  <1>7. IsSeq(K) /\ \A p : p \in ToSet(K) <=> p \in ToSet(d.params) /\ p.since <= r
    BY RecordKnown
  <1>8. \A p : p \in ToSet(R) <=> p \in ToSet(d.params) /\ ~p.optional
    <2>1. PICK B : B = {f \in ToSet(d.params) : ~f.optional}
      OBVIOUS
    <2>2. R = Kept(d.params, B)
      BY <1>5, <2>1 DEF AttrRequired, Required
    <2>3. \A p : p \in ToSet(R) <=> p \in ToSet(d.params) /\ p \in B
      BY <1>6, <2>2, KeptFacts
    <2> QED BY <2>1, <2>3
  <1>9. \A p : p \in ToSet(O) <=> p \in ToSet(K) /\ p.optional
    BY <1>2, <1>7, OptionalsFacts
  <1>10. \A p : p \in P <=> p \in ToSet(d.params) /\ (~p.optional \/ p.name \in Values[x].has)
    BY <1>3 DEF RecordNames, RecordHas
  <1>11. \A n : n \in NamesIn(P, R) <=> n \in {p.name : p \in ToSet(R)}
    BY <1>8, <1>10 DEF NamesIn
  <1>12. \A n : n \in NamesIn(P, O) <=> n \in Values[x].has
    <2>1. ASSUME NEW n \in NamesIn(P, O) PROVE n \in Values[x].has
      BY <1>9, <1>10 DEF NamesIn
    <2>2. ASSUME NEW n \in Values[x].has PROVE n \in NamesIn(P, O)
      <3>1. PICK p \in ToSet(d.params) : p.optional /\ p.name = n
        BY <1>6
      <3>2. RecordHas(x, p)
        BY <3>1 DEF RecordHas
      <3>3. p \in ToSet(O) /\ p \in P
        BY <1>6, <1>7, <1>9, <1>10, <3>1, <3>2
      <3> QED BY <3>1, <3>3 DEF NamesIn
    <2> QED BY <2>1, <2>2
  <1>13. ASSUME NEW n \in Values[x].has PROVE n \notin {p.name : p \in ToSet(R)}
    <2>1. PICK p \in ToSet(d.params) : p.optional /\ p.name = n
      BY <1>6
    <2>2. ASSUME NEW q \in ToSet(R), q.name = n PROVE FALSE
      BY <1>6, <1>8, <2>1, <2>2
    <2> QED BY <2>2
  <1> QED BY <1>4, <1>5, <1>11, <1>12, <1>13

LeftWith(s, flags, got) == \E rest : s = St(rest, flags, got)

LEMMA KeepWith ==
    ASSUME NEW s, NEW flags, NEW D, NEW G, NEW f, LeftWith(s, flags, Got(D, G)), NEW more
    PROVE  [Keep(s, f, G[f.name]) EXCEPT !.rest = more] = St(more, flags, Got(D \cup {f.name}, G))
  <1>1. PICK rest : s = St(rest, flags, Got(D, G))
    BY DEF LeftWith
  <1>2. Keep(s, f, G[f.name]) = St(rest, flags, Got(D \cup {f.name}, G))
    BY <1>1, KeepIs
  <1>3. PICK got : got = Got(D \cup {f.name}, G)
    OBVIOUS
  <1>4. PICK kept : kept = Keep(s, f, G[f.name])
    OBVIOUS
  <1>5. kept = St(rest, flags, got)
    BY <1>2, <1>3, <1>4
  <1>6. [kept EXCEPT !.rest = more] = St(more, flags, got)
    BY <1>5, RestWith
  <1> QED BY <1>3, <1>4, <1>6

(* A value that is not refused is read as it was written.                  *)
LEMMA ValueRead ==
    ASSUME NEW x \in DOMAIN Values, NEW v \in Supported, NEW r \in v..Latest, ~ValueRefused(x, v),
           NEW flags, NEW D, NEW G, NEW f, G[f.name] = x, NEW more, IsSeq(more),
           NEW s, s = St(ValueTokens(x) \o more, flags, Got(D, G))
    PROVE  IsSeq(ValueTokens(x)) /\ ReadValue(s, f, r) = St(more, flags, Got(D \cup {f.name}, G))
  <1>1. CASE ~IsRecord(x)
    <2>1. ValueTokens(x) = <<Token("value", x)>>
      BY <1>1 DEF ValueTokens
    <2>2. s = St(<<Token("value", x)>> \o more, flags, Got(D, G))
      BY <2>1
    <2>3. ~Sees(s, "record")
      BY <2>2, SeesIs
    <2>4. ReadField(s, "value", f) = St(more, flags, Got(D \cup {f.name}, G))
      BY <2>2, FieldRead
    <2>5. ReadValue(s, f, r) = ReadField(s, "value", f)
      BY <2>3 DEF ReadValue
    <2>6. IsSeq(ValueTokens(x))
      BY <2>1, TokenSeq
    <2> QED BY <2>4, <2>5, <2>6
  <1>2. CASE IsRecord(x)
    <2>1. PICK d : d = AttrDecl(x)
      OBVIOUS
    <2>2. PICK K : K = Known(d.params, r)
      OBVIOUS
    <2>3. RecordOf(x, v, r, d, K)
      BY <1>2, <2>1, <2>2 DEF RecordOf
    <2>4. PICK decl : decl = Values[x].decl
      OBVIOUS
    <2>5. PICK toks : toks = RecordTokens(x)
      OBVIOUS
    <2>6. IsSeq(toks)
      BY <2>3, <2>5, RecordTokensSeq
    <2>7. PICK k : k = Token("record", decl)
      OBVIOUS
    <2>8. ValueTokens(x) = <<k>> \o toks
      BY <1>2, <2>4, <2>5, <2>7 DEF ValueTokens
    <2>9. IsSeq(<<k>>)
      BY TokenSeq
    <2>10. PICK left : left = toks \o more
      OBVIOUS
    <2>11. IsSeq(left)
      BY <2>6, <2>10, JoinFacts
    <2>12. (<<k>> \o toks) \o more = <<k>> \o left
      <3>1. PICK one : one = <<k>>
        OBVIOUS
      <3>2. (one \o toks) \o more = one \o (toks \o more)
        BY <2>6, <2>9, <3>1, JoinAssociative
      <3> QED BY <2>10, <3>1, <3>2
    <2>13. s = St(<<Token("record", decl)>> \o left, flags, Got(D, G))
      BY <2>7, <2>8, <2>12
    <2>14. Sees(s, "record") /\ Head(s.rest).of = decl /\ Past(s) = St(left, flags, Got(D, G))
      BY <2>11, <2>13, SeesIs
    <2>15. PICK z : z = Past(s)
      OBVIOUS
    <2>16. z = St(RecordTokens(x) \o more, flags, Got(D, G))
      BY <2>5, <2>10, <2>14, <2>15
    <2>17. PICK F : F = AttrFlagsAfter(x, d, flags)
      OBVIOUS
    <2>18. PICK end : end = ReadRecord(decl, r, z)
      OBVIOUS
    <2>19. end = St(more, F, RecordGot(x, d, K))
      BY <2>3, <2>4, <2>16, <2>17, <2>18, RecordRead
    <2>20. end.ok /\ end.rest = more /\ end.got = RecordGot(x, d, K)
      BY <2>19, StFields
    <2>21. PICK req : req = {p.name : p \in ToSet(AttrRequired(AttrDecls[decl]))}
      OBVIOUS
    <2>22. d = AttrDecls[decl]
      BY <2>3, <2>4, RecordFacts
    <2>23. DOMAIN end.got \ req = Values[x].has
      BY <2>3, <2>20, <2>21, <2>22, RecordGotHas
    <2> DEFINE tag == Head(s.rest).of
    <2> DEFINE parsed == ReadRecord(tag, r, Past(s))
    <2> DEFINE same == {w \in DOMAIN Values : /\ IsRecord(w) /\ Values[w].decl = tag
                                              /\ Values[w].has = DOMAIN parsed.got
                                                \ {p.name : p \in ToSet(AttrRequired(AttrDecls[tag]))}}
    <2>24. ReadValue(s, f, r) =
                IF parsed.ok /\ same # {}
                THEN [Keep(s, f, CHOOSE w \in same : TRUE) EXCEPT !.rest = parsed.rest]
                ELSE Bad(s)
      BY <2>14, Zenon DEF ReadValue
    <2>25. tag = decl /\ parsed = end
      BY <2>14, <2>15, <2>18
    <2>36. same = {x}
      <3>1. \A w \in DOMAIN Values : IsRecord(w) /\ Values[w].decl = Values[x].decl
                                            /\ Values[w].has = Values[x].has => w = x
        BY <2>3, RecordFacts
      <3>2. DOMAIN parsed.got \ {p.name : p \in ToSet(AttrRequired(AttrDecls[tag]))} = Values[x].has
        <4>1. {p.name : p \in ToSet(AttrRequired(AttrDecls[tag]))} = req
          BY <2>21, <2>25
        <4> QED BY <2>23, <2>25, <4>1
      <3>3. x \in same
        BY <1>2, <2>4, <2>25, <3>2
      <3>4. ASSUME NEW w \in same PROVE w = x
        BY <2>4, <2>25, <3>1, <3>2
      <3> QED BY <3>3, <3>4
    <2>26. ReadValue(s, f, r) = [Keep(s, f, CHOOSE w \in same : TRUE) EXCEPT !.rest = end.rest]
      <3> HIDE DEF same, parsed
      <3> QED BY <2>20, <2>24, <2>25, <2>36, Zenon
    <2>27. (CHOOSE w \in same : TRUE) = x
      <3> HIDE DEF same
      <3>1. PICK S : S = same /\ S = {x}
        BY <2>36
      <3>2. (CHOOSE w \in S : TRUE) = x
        BY <3>1
      <3> QED BY <3>1, <3>2, Zenon
    <2> HIDE DEF same, parsed, tag
    <2>28. LeftWith(s, flags, Got(D, G))
      BY DEF LeftWith
    <2>29. [Keep(s, f, G[f.name]) EXCEPT !.rest = more] = St(more, flags, Got(D \cup {f.name}, G))
      BY <2>28, KeepWith
    <2>35. IsSeq(ValueTokens(x))
      BY <2>6, <2>8, <2>9, JoinFacts
    <2> QED BY <2>20, <2>26, <2>27, <2>29, <2>35
  <1> QED BY <1>1, <1>2

-----------------------------------------------------------------------------
Came(fields, v) == Kept(fields, {f \in ToSet(fields) : f.since = v})

ByVersion(fields) == [v \in 1..Latest |-> Came(fields, v)]

InAge(fields) == IsSeq(fields) /\ \A f \in ToSet(fields) : f.since \in 1..Latest

LEMMA CameFacts ==
    ASSUME NEW fields, IsSeq(fields), NEW v
    PROVE  /\ Came(fields, v) \in Seq(ToSet(fields)) /\ IsSeq(Came(fields, v))
           /\ \A f : f \in ToSet(Came(fields, v)) <=> f \in ToSet(fields) /\ f.since = v
  <1>1. PICK S : S = {f \in ToSet(fields) : f.since = v}
    OBVIOUS
  <1>2. Came(fields, v) = Kept(fields, S)
    BY <1>1 DEF Came
  <1>3. /\ Kept(fields, S) \in Seq(ToSet(fields)) /\ IsSeq(Kept(fields, S))
        /\ \A x : x \in ToSet(Kept(fields, S)) <=> x \in ToSet(fields) /\ x \in S
    BY KeptFacts
  <1> QED BY <1>1, <1>2, <1>3

LEMMA ByVersionSeq ==
    ASSUME NEW fields, IsSeq(fields)
    PROVE  ByVersion(fields) \in Seq(Seq(ToSet(fields))) /\ Len(ByVersion(fields)) = Latest
  <1>1. PICK T : T = Seq(ToSet(fields))
    OBVIOUS
  <1>2. PICK ss : ss = ByVersion(fields)
    OBVIOUS
  <1>3. \A v \in 1..Latest : Came(fields, v) \in T
    BY <1>1, CameFacts
  <1>4. ss \in [1..Latest -> T]
    BY <1>2, <1>3 DEF ByVersion
  <1>5. Latest \in Nat
    BY SomeVersions
  <1>6. ss \in Seq(T) /\ Len(ss) = Latest
    BY <1>4, <1>5, IsASeq, LenProperties
  <1> QED BY <1>1, <1>2, <1>6

(* The fields of the versions up to v, in the order of their bits.         *)
Aged(g, fields) ==
    /\ g \in [0..Latest -> Seq(ToSet(fields))] /\ g[0] = <<>>
    /\ g[Latest] = FlattenSeq(ByVersion(fields))
    /\ \A v \in 1..Latest : g[v] = g[v - 1] \o Came(fields, v)

LEMMA AgedExists ==
    ASSUME NEW fields, IsSeq(fields)
    PROVE  \E g : Aged(g, fields)
  <1>1. PICK ss : ss = ByVersion(fields)
    OBVIOUS
  <1>2. PICK S : S = ToSet(fields)
    OBVIOUS
  <1>3. ss \in Seq(Seq(S)) /\ Len(ss) = Latest
    BY <1>1, <1>2, ByVersionSeq
  <1>4. PICK g : Fronts(g, ss, S)
    BY <1>3, FrontRuns
  <1>5. \A v \in 1..Latest : ss[v] = Came(fields, v)
    BY <1>1 DEF ByVersion
  <1>6. Aged(g, fields)
    BY <1>1, <1>2, <1>3, <1>4, <1>5 DEF Fronts, Aged
  <1> QED BY <1>6

(* A release that knows the fields up to r gives them the same bits.       *)
LEMMA KnownBits ==
    ASSUME NEW fields, IsSeq(fields), NEW r \in 1..Latest,
           NEW known, known = Kept(fields, {f \in ToSet(fields) : f.since <= r})
    PROVE  StartOf(FlattenSeq(ByVersion(known)), FlattenSeq(ByVersion(fields)))
  <1>1. PICK A : A = {f \in ToSet(fields) : f.since <= r}
    OBVIOUS
  <1>2. known = Kept(fields, A)
    BY <1>1
  <1>3. IsSeq(known) /\ \A f : f \in ToSet(known) <=> f \in ToSet(fields) /\ f \in A
    <2>1. /\ IsSeq(Kept(fields, A))
          /\ \A f : f \in ToSet(Kept(fields, A)) <=> f \in ToSet(fields) /\ f \in A
      BY KeptFacts
    <2> QED BY <1>2, <2>1
  <1>4. PICK g : Aged(g, fields)
    BY AgedExists
  <1>5. PICK h : Aged(h, known)
    BY <1>3, AgedExists
  <1>6. Latest \in Nat /\ r \in Nat /\ r <= Latest
    BY SomeVersions
  <1>7. \A v \in 1..Latest : v <= r => Came(known, v) = Came(fields, v)
    <2>1. ASSUME NEW v \in 1..Latest, v <= r PROVE Came(known, v) = Came(fields, v)
      <3>1. PICK B : B = {f \in ToSet(known) : f.since = v}
        OBVIOUS
      <3>2. PICK C : C = {f \in ToSet(fields) : f.since = v}
        OBVIOUS
      <3>3. Kept(known, B) = Kept(fields, A \cap B)
        BY <1>2, KeptTwice
      <3>4. \A x \in ToSet(fields) : x \in A \cap B <=> x \in C
        BY <1>1, <1>3, <1>6, <2>1, <3>1, <3>2
      <3>5. Kept(fields, A \cap B) = Kept(fields, C)
        <4>1. PICK E : E = A \cap B
          OBVIOUS
        <4>2. Kept(fields, E) = Kept(fields, C)
          BY <3>4, <4>1, KeptSame
        <4> QED BY <4>1, <4>2
      <3> QED BY <3>1, <3>2, <3>3, <3>5 DEF Came
    <2> QED BY <2>1
  <1>8. \A v \in 1..Latest : r < v => Came(known, v) = <<>>
    <2>1. ASSUME NEW v \in 1..Latest, r < v PROVE Came(known, v) = <<>>
      <3>1. PICK c : c = Came(known, v)
        OBVIOUS
      <3>2. c \in Seq(ToSet(known)) /\ \A f : f \in ToSet(c) <=> f \in ToSet(known) /\ f.since = v
        BY <1>3, <3>1, CameFacts
      <3>3. \A f : f \notin ToSet(c)
        <4>1. \A f \in ToSet(known) : f.since <= r
          BY <1>1, <1>3
        <4>2. ~(v <= r)
          BY <1>6, <2>1
        <4> QED BY <3>2, <4>1, <4>2
      <3>4. IsSeq(c) /\ Len(c) \in Nat /\ \A n \in 1..Len(c) : c[n] \in ToSet(c)
        BY <3>2, SeqIs DEF IsSeq
      <3>5. Len(c) = 0
        <4>1. ASSUME Len(c) # 0 PROVE FALSE
          <5>1. 1 \in 1..Len(c)
            BY <3>4, <4>1
          <5> QED BY <3>3, <3>4, <5>1
        <4> QED BY <4>1
      <3> QED BY <3>1, <3>2, <3>5
    <2> QED BY <2>1
  <1>9. PICK a : a = [n \in 0..Latest |-> IF n <= r THEN g[n] ELSE g[r]]
    OBVIOUS
  <1>10. \A n \in 0..Latest : IsSeq(g[n])
    BY <1>4 DEF Aged, IsSeq
  <1>11. SameTo(h, a, Latest)
    <2>1. h[0] = a[0]
      <3>1. 0 \in 0..Latest /\ 0 <= r
        BY <1>6
      <3> QED BY <1>4, <1>5, <1>9, <3>1 DEF Aged
    <2>2. ASSUME NEW n \in 1..Latest, h[n - 1] = a[n - 1] PROVE h[n] = a[n]
      <3>1. n \in 0..Latest /\ n - 1 \in 0..Latest /\ n - 1 >= 0
        BY <1>6
      <3>2. h[n] = h[n - 1] \o Came(known, n) /\ g[n] = g[n - 1] \o Came(fields, n)
        BY <1>4, <1>5 DEF Aged
      <3>3. CASE n <= r
        <4>1. a[n] = g[n] /\ a[n - 1] = g[n - 1]
          BY <1>6, <1>9, <3>1, <3>3
        <4> QED BY <1>7, <2>2, <3>2, <3>3, <4>1
      <3>4. CASE r < n
        <4>1. a[n] = g[r] /\ a[n - 1] = g[r]
          <5>1. a[n] = g[r]
            BY <1>6, <1>9, <3>1, <3>4
          <5>2. a[n - 1] = g[r]
            <6>1. CASE n - 1 <= r
              <7>1. n - 1 = r
                BY <1>6, <3>1, <3>4, <6>1
              <7> QED BY <1>9, <3>1, <7>1
            <6>2. CASE ~(n - 1 <= r)
              BY <1>9, <3>1, <6>2
            <6> QED BY <6>1, <6>2
          <5> QED BY <5>1, <5>2
        <4>2. h[n] = g[r] \o <<>>
          BY <1>8, <2>2, <3>2, <3>4, <4>1
        <4>3. PICK z : z = g[r]
          OBVIOUS
        <4>4. IsSeq(z)
          BY <1>6, <1>10, <4>3
        <4>5. z \o <<>> = z
          BY <4>4, JoinFacts
        <4> QED BY <4>1, <4>2, <4>3, <4>5
      <3>5. n <= r \/ r < n
        BY <1>6
      <3> QED BY <3>3, <3>4, <3>5
    <2> QED BY <1>6, <2>1, <2>2, StepByStep DEF Agreeing
  <1>12. h[Latest] = g[r]
    <2>1. Latest \in 0..Latest
      BY <1>6
    <2>2. h[Latest] = a[Latest]
      BY <1>11, <2>1 DEF SameTo
    <2>3. a[Latest] = g[r]
      <3>1. CASE Latest <= r
        <4>1. Latest = r
          BY <1>6, <3>1
        <4> QED BY <1>9, <2>1, <4>1
      <3>2. CASE ~(Latest <= r)
        BY <1>9, <2>1, <3>2
      <3> QED BY <3>1, <3>2
    <2> QED BY <2>2, <2>3
  <1>13. PICK Good : Good = {n \in 0..Latest : r <= n => StartOf(g[r], g[n])}
    OBVIOUS
  <1>14. 0 \in Good
    BY <1>6, <1>13
  <1>15. \A n \in 1..Latest : n - 1 \in Good => n \in Good
    <2>1. ASSUME NEW n \in 1..Latest, n - 1 \in Good, r <= n PROVE StartOf(g[r], g[n])
      <3>1. n \in 0..Latest /\ n - 1 \in 0..Latest /\ r \in 0..Latest
        BY <1>6
      <3>2. PICK z : z = g[r]
        OBVIOUS
      <3>3. IsSeq(z) /\ Len(z) \in Nat
        BY <1>10, <3>1, <3>2, SeqIs
      <3>4. CASE n = r
        <4>1. StartOf(z, z)
          BY <3>3 DEF StartOf
        <4> QED BY <3>2, <3>4, <4>1
      <3>5. CASE n # r
        <4>1. r <= n - 1
          BY <1>6, <2>1, <3>5
        <4>2. PICK y : y = g[n - 1]
          OBVIOUS
        <4>3. IsSeq(y) /\ StartOf(z, y)
          BY <1>10, <1>13, <2>1, <3>1, <3>2, <4>1, <4>2
        <4>4. PICK c : c = Came(fields, n)
          OBVIOUS
        <4>5. IsSeq(c)
          BY <4>4, CameFacts
        <4>6. StartOf(z, y \o c)
          BY <3>3, <4>3, <4>5, StartsJoin
        <4>7. g[n] = y \o c
          BY <1>4, <4>2, <4>4 DEF Aged
        <4> QED BY <3>2, <4>6, <4>7
      <3> QED BY <3>4, <3>5
    <2>2. \A n \in 1..Latest : n \in 0..Latest
      BY <1>6
    <2> QED BY <1>13, <2>1, <2>2
  <1>16. StartOf(g[r], g[Latest])
    <2>1. \A n \in 0..Latest : n \in Good
      BY <1>6, <1>14, <1>15, HandedOn
    <2>2. Latest \in 0..Latest /\ r <= Latest
      BY <1>6
    <2> QED BY <1>13, <2>1, <2>2
  <1>17. FlattenSeq(ByVersion(known)) = h[Latest] /\ FlattenSeq(ByVersion(fields)) = g[Latest]
    BY <1>4, <1>5 DEF Aged
  <1> QED BY <1>12, <1>16, <1>17

(* The first field that has a bit is one of the oldest.                    *)
LEMMA FirstOldest ==
    ASSUME NEW fields, InAge(fields), NEW order, order = FlattenSeq(ByVersion(fields))
    PROVE  \/ order = <<>> /\ ToSet(fields) = {}
           \/ /\ order # <<>> /\ order[1] \in ToSet(fields)
              /\ \A f \in ToSet(fields) : order[1].since <= f.since
  <1>1. PICK g : Aged(g, fields)
    BY AgedExists DEF InAge
  <1>2. Latest \in Nat /\ \A f \in ToSet(fields) : f.since \in 1..Latest
    BY SomeVersions DEF InAge
  <1>3. /\ g \in [0..Latest -> Seq(ToSet(fields))] /\ g[0] = <<>> /\ g[Latest] = order
        /\ \A v \in 1..Latest : g[v] = g[v - 1] \o Came(fields, v)
    BY <1>1 DEF Aged
  <1>4. PICK Good : Good = {n \in 0..Latest :
                \/ g[n] = <<>> /\ \A f \in ToSet(fields) : n < f.since
                \/ /\ g[n] # <<>> /\ g[n][1] \in ToSet(fields)
                   /\ \A f \in ToSet(fields) : g[n][1].since <= f.since}
    OBVIOUS
  <1>5. 0 \in Good
    <2>1. 0 \in 0..Latest
      BY <1>2
    <2> QED BY <1>2, <1>3, <1>4, <2>1
  <1>6. ASSUME NEW n \in 1..Latest, n - 1 \in Good PROVE n \in Good
    <2>1. PICK y : y = g[n - 1]
      OBVIOUS
    <2>2. PICK c : c = Came(fields, n)
      OBVIOUS
    <2>3. PICK z : z = g[n]
      OBVIOUS
    <2>4. n \in 0..Latest /\ n - 1 \in 0..Latest /\ z = y \o c
      <3>1. n \in 0..Latest /\ n - 1 \in 0..Latest
        BY <1>2
      <3>2. g[n] = g[n - 1] \o Came(fields, n)
        BY <1>3
      <3> QED BY <2>1, <2>2, <2>3, <3>1, <3>2
    <2>5. y \in Seq(ToSet(fields)) /\ IsSeq(y)
      BY <1>3, <2>1, <2>4 DEF IsSeq
    <2>6. /\ c \in Seq(ToSet(fields)) /\ IsSeq(c)
          /\ \A f : f \in ToSet(c) <=> f \in ToSet(fields) /\ f.since = n
      BY <2>2, CameFacts DEF InAge
    <2>7. Len(y) \in Nat /\ Len(c) \in Nat /\ \A k \in 1..Len(c) : c[k] \in ToSet(c)
      BY <2>5, <2>6, SeqIs
    <2>8. CASE y = <<>>
      <3>1. z = c
        BY <2>4, <2>6, <2>8, JoinFacts
      <3>2. \A f \in ToSet(fields) : n - 1 < f.since
        BY <1>4, <1>6, <2>1, <2>8
      <3>3. \A f \in ToSet(fields) : n <= f.since
        BY <1>2, <3>2
      <3>4. CASE c = <<>>
        <4>1. \A f : f \notin ToSet(c)
          BY <3>4, NoElements
        <4>2. \A f \in ToSet(fields) : n < f.since
          BY <1>2, <2>6, <3>3, <4>1
        <4> QED BY <1>4, <2>3, <2>4, <3>1, <3>4, <4>2
      <3>5. CASE c # <<>>
        <4>1. Len(c) # 0
          BY <2>6, <3>5
        <4>2. 1 \in 1..Len(c)
          BY <2>7, <4>1
        <4>3. c[1] \in ToSet(fields) /\ c[1].since = n
          BY <2>6, <2>7, <4>2
        <4>4. z # <<>> /\ z[1] \in ToSet(fields) /\ \A f \in ToSet(fields) : z[1].since <= f.since
          BY <3>1, <3>3, <3>5, <4>3
        <4> QED BY <1>4, <2>3, <2>4, <4>4
      <3> QED BY <3>4, <3>5
    <2>9. CASE y # <<>>
      <3>1. Len(y) # 0
        BY <2>5, <2>9
      <3>2. 1 \in 1..Len(y)
        BY <2>7, <3>1
      <3>3. z[1] = y[1] /\ Len(z) = Len(y) + Len(c)
        BY <2>4, <2>5, <2>6, <3>2, JoinFacts
      <3>4. z # <<>>
        <4>1. Len(z) # 0
          BY <2>7, <3>1, <3>3
        <4> QED BY <4>1
      <3>5. y[1] \in ToSet(fields) /\ \A f \in ToSet(fields) : y[1].since <= f.since
        BY <1>4, <1>6, <2>1, <2>9
      <3>6. z # <<>> /\ z[1] \in ToSet(fields) /\ \A f \in ToSet(fields) : z[1].since <= f.since
        BY <3>3, <3>4, <3>5
      <3> QED BY <1>4, <2>3, <2>4, <3>6
    <2> QED BY <2>8, <2>9
  <1>7. Latest \in Good
    <2>1. \A n \in 0..Latest : n \in Good
      BY <1>2, <1>5, <1>6, HandedOn
    <2>2. Latest \in 0..Latest
      BY <1>2
    <2> QED BY <2>1, <2>2
  <1>8. ASSUME NEW f \in ToSet(fields), Latest < f.since PROVE FALSE
    BY <1>2, <1>8
  <1> QED BY <1>3, <1>4, <1>7, <1>8

LEMMA BitOrderIs ==
    ASSUME NEW d
    PROVE  BitOrder(d) = FlattenSeq(ByVersion(BitFields(d)))
  <1>1. PICK s : s = BitFields(d)
    OBVIOUS
  <1>2. PICK a : a = [v \in 1..Latest |-> Kept(s, {f \in ToSet(s) : f.since = v})]
    OBVIOUS
  <1>3. BitOrder(d) = FlattenSeq(a)
    BY <1>1, <1>2, Zenon DEF BitOrder, BitFields
  <1>4. ByVersion(s) = a
    BY <1>2, Zenon DEF ByVersion, Came
  <1> QED BY <1>1, <1>3, <1>4, Zenon

(* The writer has a flags field when the version has a field with a bit.   *)
LEMMA HasFlags ==
    ASSUME NEW d, IsSeq(d.attributes), IsSeq(d.operands), \A f \in FlagFields(d) : f.since \in 1..Latest,
           NEW v \in Nat, d.since \in Nat, d.since <= v
    PROVE  OpHasFlags(d, v) <=> \E f \in FlagFields(d) : f.since <= v
  <1>1. PICK order : order = BitOrder(d)
    OBVIOUS
  <1>2. PICK fields : fields = BitFields(d)
    OBVIOUS
  <1>3. InAge(fields) /\ ToSet(fields) = FlagFields(d)
    BY <1>2, BitFieldsFacts DEF InAge
  <1>4. order = FlattenSeq(ByVersion(fields))
    BY <1>1, <1>2, BitOrderIs
  <1>5. \/ order = <<>> /\ FlagFields(d) = {}
        \/ /\ order # <<>> /\ order[1] \in FlagFields(d)
           /\ \A f \in FlagFields(d) : order[1].since <= f.since
    BY <1>3, <1>4, FirstOldest
  <1>6. OpHasFlags(d, v) <=> order # <<>> /\ (order[1].since = d.since \/ v >= order[1].since)
    BY <1>1 DEF OpHasFlags
  <1>7. CASE order = <<>> /\ FlagFields(d) = {}
    BY <1>6, <1>7
  <1>8. CASE /\ order # <<>> /\ order[1] \in FlagFields(d)
             /\ \A f \in FlagFields(d) : order[1].since <= f.since
    <2>1. order[1].since \in Nat
      <3>1. order[1].since \in 1..Latest
        BY <1>8
      <3> QED BY <3>1, SomeVersions
    <2>2. OpHasFlags(d, v) <=> order[1].since <= v
      BY <1>6, <1>8, <2>1
    <2>3. ASSUME NEW f \in FlagFields(d), f.since <= v PROVE order[1].since <= v
      <3>1. f.since \in 1..Latest /\ order[1].since <= f.since
        BY <1>8
      <3> QED BY <2>1, <2>3, <3>1, SomeVersions
    <2> QED BY <1>8, <2>2, <2>3
  <1> QED BY <1>5, <1>7, <1>8

-----------------------------------------------------------------------------
(* An operation that was not refused for version v, its declaration, and   *)
(* what the release r that reads it knows of that.                         *)
Reads(i, v, r, D, K) ==
    /\ OperationIs(i) /\ v \in Supported /\ r \in v..Latest /\ ~OpRefused(i, v)
    /\ D = Op(i) /\ K = KnownOp(D, r)

LEMMA ReadsVersions ==
    ASSUME NEW i, NEW v, NEW r, NEW D, NEW K, Reads(i, v, r, D, K)
    PROVE  /\ Latest \in Nat /\ v \in Nat /\ r \in Nat /\ v \in 1..Latest /\ r \in 1..Latest /\ v <= r
           /\ D.since \in 1..Latest /\ D.since \in Nat /\ D.since <= v
           /\ D = OpDecls[i.op] /\ i.op \in DOMAIN OpDecls
  <1>1. Latest \in Nat /\ v \in 1..Latest /\ r \in v..Latest
    BY SomeVersions DEF Reads
  <1>2. D = OpDecls[i.op] /\ i.op \in DOMAIN OpDecls /\ D.since \in 1..Latest
    BY OpFacts, SomeVersions DEF Reads
  <1>3. IsOpcodeAvailable(D.opcode, v)
    BY DEF Reads, OpRefused
  <1>4. D.since <= v
    BY <1>2, <1>3, OpcodeAvailable DEF Reads
  <1> QED BY <1>1, <1>2, <1>4

LEMMA ReadsKnown ==
    ASSUME NEW i, NEW v, NEW r, NEW D, NEW K, Reads(i, v, r, D, K)
    PROVE  /\ K.since = D.since /\ K.sized = D.sized /\ K.regions = D.regions /\ K.opcode = D.opcode
           /\ K.attributes = Known(D.attributes, r) /\ K.operands = Known(D.operands, r)
           /\ K.results = Known(D.results, r)
           /\ IsSeq(D.attributes) /\ IsSeq(D.operands) /\ IsSeq(D.results)
           /\ IsSeq(K.attributes) /\ IsSeq(K.operands) /\ IsSeq(K.results)
           /\ \A f : f \in ToSet(K.attributes) <=> f \in ToSet(D.attributes) /\ f.since <= r
           /\ \A f : f \in ToSet(K.operands) <=> f \in ToSet(D.operands) /\ f.since <= r
           /\ \A f : f \in ToSet(K.results) <=> f \in ToSet(D.results) /\ f.since <= r
  <1>1. K = KnownOp(D, r)
    BY DEF Reads
  <1>2. /\ K.since = D.since /\ K.sized = D.sized /\ K.regions = D.regions /\ K.opcode = D.opcode
        /\ K.attributes = Known(D.attributes, r) /\ K.operands = Known(D.operands, r)
        /\ K.results = Known(D.results, r)
    BY <1>1 DEF KnownOp
  <1>3. IsSeq(D.attributes) /\ IsSeq(D.operands) /\ IsSeq(D.results)
    BY OpFacts DEF Reads
  <1> QED BY <1>2, <1>3, KnownFacts

OpFields(D) == ToSet(D.attributes) \cup ToSet(D.operands) \cup ToSet(D.results)

LEMMA ReadsField ==
    ASSUME NEW i, NEW v, NEW r, NEW D, NEW K, Reads(i, v, r, D, K), NEW f \in OpFields(D)
    PROVE  /\ f.since \in 1..Latest /\ f.since \in Nat /\ D.since <= f.since
           /\ Evolved(D, f) <=> f.since > D.since
           /\ Evolved(K, f) <=> f.since > D.since
           /\ f.optional \in BOOLEAN
           /\ ~Evolved(D, f) => f.since <= r
           /\ v >= f.since => f.since <= r
  <1>1. OperationIs(i) /\ D = Op(i)
    BY DEF Reads
  <1>2. /\ f.since \in 1..Latest /\ D.since <= f.since
        /\ Evolved(D, f) <=> f.since > D.since
    BY <1>1, FieldSince DEF OpFields
  <1>3. f.optional \in BOOLEAN
    BY <1>1, OpFacts DEF OpFields
  <1>4. K.since = D.since
    BY ReadsKnown
  <1>5. Evolved(K, f) <=> Evolved(D, f)
    BY <1>4 DEF Evolved
  <1>6. v \in Nat /\ r \in Nat /\ v <= r /\ D.since \in Nat /\ D.since <= v /\ Latest \in Nat
    BY ReadsVersions
  <1> QED BY <1>2, <1>3, <1>5, <1>6

(* What is asked of the fields of a declaration.                           *)
LEMMA ReadsDecl ==
    ASSUME NEW i, NEW v, NEW r, NEW D, NEW K, Reads(i, v, r, D, K)
    PROVE  /\ \A f, g \in ToSet(D.attributes) : f.name = g.name => f = g
           /\ \A f, g \in ToSet(D.operands) : f.name = g.name => f = g
           /\ Names(D.attributes) \cap Names(D.operands) = {}
           /\ (Names(D.attributes) \cup Names(D.operands)) \cap {"results", "arguments"} = {}
           /\ \A f \in ToSet(D.attributes) : AttributeAccepted(D, f) /\ RankAccepted(D, f)
                                             /\ (f.form # "required" => f.fallback = "none")
           /\ \A f \in ToSet(D.operands) : OperandAccepted(D, f)
           /\ \A f \in ToSet(D.operands) : Evolved(D, f) => D.sized /\ \E g \in ToSet(D.operands) :
                                                    ~Evolved(D, g) /\ g.form # "required"
           /\ \A f \in ToSet(D.results) : Evolved(D, f) => \A g \in ToSet(D.results) : g.form = "required"
           /\ ~D.sized => \A n, m \in DOMAIN D.operands :
                    D.operands[n].form # "required" /\ D.operands[m].form # "required" => n = m
           /\ D.sized \in BOOLEAN /\ D.regions \in Nat
  <1>1. D = OpDecls[i.op] /\ i.op \in DOMAIN OpDecls
    BY ReadsVersions
  <1>2. OpAccepted(D) /\ OpUnforced(D)
    BY <1>1, OperationsAssumption
  <1>3. FieldsAccepted(D.attributes, D.since) /\ FieldsAccepted(D.operands, D.since)
    BY <1>2 DEF OpAccepted
  <1>4. /\ \A f, g \in ToSet(D.attributes) : f.name = g.name => f = g
        /\ \A f, g \in ToSet(D.operands) : f.name = g.name => f = g
    BY <1>3, FieldFacts
  <1>5. \A f \in ToSet(D.results) : Evolved(D, f) => \A g \in ToSet(D.results) : g.form = "required"
    BY <1>1, DeclarationFacts
  <1>6. /\ Names(D.attributes) \cap Names(D.operands) = {}
        /\ (Names(D.attributes) \cup Names(D.operands)) \cap {"results", "arguments"} = {}
        /\ D.sized \in BOOLEAN /\ D.regions \in Nat
    BY <1>2 DEF OpAccepted
  <1>7. \A f \in ToSet(D.attributes) : AttributeAccepted(D, f) /\ RankAccepted(D, f)
    BY <1>2 DEF OpAccepted
  <1>8. \A f \in ToSet(D.operands) : OperandAccepted(D, f)
    BY <1>2 DEF OpAccepted
  <1>9. ~D.sized => \A n, m \in DOMAIN D.operands :
                    D.operands[n].form # "required" /\ D.operands[m].form # "required" => n = m
    BY <1>2 DEF OpAccepted
  <1>10. \A f \in ToSet(D.attributes) : f.form # "required" => f.fallback = "none"
    BY <1>2 DEF OpUnforced
  <1>11. \A f \in ToSet(D.operands) : Evolved(D, f) => D.sized /\ \E g \in ToSet(D.operands) :
                                                    ~Evolved(D, g) /\ g.form # "required"
    BY <1>2 DEF OpUnforced
  <1> QED BY <1>4, <1>5, <1>6, <1>7, <1>8, <1>9, <1>10, <1>11

(* What the version does not have is not there, or is left out.            *)
LEMMA ReadsLater ==
    ASSUME NEW i, NEW v, NEW r, NEW D, NEW K, Reads(i, v, r, D, K)
    PROVE  /\ \A f \in ToSet(D.operands) : v < f.since => i.operands[f.name] = <<>>
           /\ \A f \in ToSet(D.attributes) : v < f.since /\ f.name \in DOMAIN i.attributes =>
                    f.form = "required" /\ f.fallback # "none" /\ i.attributes[f.name] = FallbackValue
  <1>1. OperationIs(i) /\ D = Op(i) /\ ~OpRefused(i, v) /\ v \in Supported
    BY DEF Reads
  <1>2. v \in Nat /\ D.since <= v /\ D.since \in Nat
    BY ReadsVersions
  <1>3. ASSUME NEW f \in ToSet(D.operands), v < f.since, i.operands[f.name] # <<>> PROVE FALSE
    <2>1. f.since <= v
      BY <1>1, <1>2, <1>3, OperandsInVersion
    <2>2. f.since \in Nat
      BY ReadsField DEF OpFields
    <2> QED BY <1>2, <1>3, <2>1, <2>2
  <1>4. ASSUME NEW f \in ToSet(D.attributes), v < f.since, f.name \in DOMAIN i.attributes
        PROVE  f.form = "required" /\ f.fallback # "none" /\ i.attributes[f.name] = FallbackValue
    <2>1. Evolved(D, f) /\ f.since \in Nat
      <3>1. f.since \in Nat /\ (Evolved(D, f) <=> f.since > D.since)
        BY ReadsField DEF OpFields
      <3> QED BY <1>2, <1>4, <3>1
    <2>2. f.form \in {"unit", "optional", "required"} /\ f.optional = (f.form # "required")
          /\ (f.form = "required" => f.fallback # "none")
      BY <2>1, ReadsDecl DEF AttributeAccepted
    <2>3. ~(v >= f.since)
      BY <1>2, <1>4, <2>1
    <2>4. f.form = "required"
      <3>1. ASSUME f.form # "required" PROVE FALSE
        <4>1. f \in ToSet(BitOrder(D))
          BY <1>1, <2>2, <3>1, FlaggedFields DEF FlagFields
        <4>2. f.name \notin DOMAIN i.operands
          <5>1. f.name \in Names(D.attributes)
            BY DEF Names
          <5>2. Names(D.attributes) \cap Names(D.operands) = {}
            BY ReadsDecl
          <5>3. DOMAIN i.operands = Names(D.operands)
            BY <1>1 DEF OperationIs, OperandsAre
          <5> QED BY <5>1, <5>2, <5>3
        <4>3. FlagRefused(i, f, v)
          BY <1>1, <1>4, <2>1, <4>2 DEF FlagRefused, Present
        <4> QED BY <1>1, <4>1, <4>3 DEF OpRefused
      <3> QED BY <3>1
    <2>5. ~AttributeRefused(i, f, v)
      BY <1>1 DEF OpRefused
    <2>6. i.attributes[f.name] = FallbackValue
      BY <1>4, <2>2, <2>3, <2>4, <2>5 DEF AttributeRefused
    <2> QED BY <2>2, <2>4, <2>6
  <1> QED BY <1>3, <1>4

LEMMA KnownBitFields ==
    ASSUME NEW i, NEW v, NEW r, NEW D, NEW K, Reads(i, v, r, D, K)
    PROVE  BitFields(K) = Kept(BitFields(D), {f \in ToSet(BitFields(D)) : f.since <= r})
  <1>1. PICK a : a = Optionals(D.attributes)
    OBVIOUS
  <1>2. PICK b : b = OptionalOperands(D)
    OBVIOUS
  <1>3. PICK s : s = BitFields(D)
    OBVIOUS
  <1>4. PICK A : A = {f \in ToSet(s) : f.since <= r}
    OBVIOUS
  <1>5. s = a \o b
    BY <1>1, <1>2, <1>3 DEF BitFields
  <1>6. IsSeq(a) /\ \A f : f \in ToSet(a) <=> f \in ToSet(D.attributes) /\ f.optional
    BY <1>1, OptionalsFacts, ReadsKnown
  <1>7. IsSeq(b) /\ (D.sized => \A f : f \in ToSet(b) <=> f \in ToSet(D.operands) /\ f.optional)
        /\ (~D.sized => b = <<>>)
    <2>1. CASE D.sized
      <3>1. b = Optionals(D.operands)
        BY <1>2, <2>1 DEF OptionalOperands
      <3>2. IsSeq(D.operands)
        BY ReadsKnown
      <3>3. IsSeq(b) /\ \A f : f \in ToSet(b) <=> f \in ToSet(D.operands) /\ f.optional
        BY <3>1, <3>2, OptionalsFacts
      <3> QED BY <2>1, <3>3
    <2>2. CASE ~D.sized
      BY <1>2, <2>2, NoElements DEF OptionalOperands
    <2> QED BY <2>1, <2>2
  <1>8. \A f : f \in ToSet(s) <=> f \in ToSet(a) \/ f \in ToSet(b)
    BY <1>5, <1>6, <1>7, JoinElements
  <1>9. Kept(a \o b, A) = Kept(a, A) \o Kept(b, A)
    BY <1>6, <1>7, KeptJoin
  <1>10. Kept(a, A) = Optionals(K.attributes)
    <2>1. PICK B : B = {f \in ToSet(D.attributes) : f.since <= r}
      OBVIOUS
    <2>2. \A f \in ToSet(a) : f \in A <=> f \in B
      BY <1>4, <1>6, <1>8, <2>1
    <2>3. Kept(a, A) = Kept(a, B)
      BY <1>6, <2>2, KeptSame
    <2>4. K.attributes = Known(D.attributes, r) /\ IsSeq(D.attributes)
      BY ReadsKnown
    <2>5. Optionals(Known(D.attributes, r)) = Kept(a, B)
      BY <1>1, <2>1, <2>4, OptionalsKnown
    <2> QED BY <2>3, <2>4, <2>5
  <1>11. Kept(b, A) = OptionalOperands(K)
    <2>0. K.sized = D.sized
      BY ReadsKnown
    <2>1. CASE D.sized
      <3>1. PICK B : B = {f \in ToSet(D.operands) : f.since <= r}
        OBVIOUS
      <3>2. \A f \in ToSet(b) : f \in A <=> f \in B
        BY <1>4, <1>7, <1>8, <2>1, <3>1
      <3>3. Kept(b, A) = Kept(b, B)
        BY <1>7, <3>2, KeptSame
      <3>4. K.operands = Known(D.operands, r) /\ IsSeq(D.operands)
        BY ReadsKnown
      <3>5. b = Optionals(D.operands)
        BY <1>2, <2>1 DEF OptionalOperands
      <3>6. Optionals(Known(D.operands, r)) = Kept(b, B)
        BY <3>1, <3>4, <3>5, OptionalsKnown
      <3>7. OptionalOperands(K) = Optionals(K.operands)
        BY <2>0, <2>1 DEF OptionalOperands
      <3> QED BY <3>3, <3>4, <3>6, <3>7
    <2>2. CASE ~D.sized
      <3>1. b = <<>> /\ OptionalOperands(K) = <<>>
        BY <1>7, <2>0, <2>2 DEF OptionalOperands
      <3>2. ToSet(b) \subseteq A
        BY <3>1, NoElements
      <3>3. Kept(b, A) = b
        BY <1>7, <3>2, KeptAll
      <3> QED BY <3>1, <3>3
    <2> QED BY <2>1, <2>2
  <1>12. BitFields(K) = Kept(a, A) \o Kept(b, A)
    BY <1>10, <1>11 DEF BitFields
  <1> QED BY <1>3, <1>4, <1>5, <1>9, <1>12

LEMMA ReadsBits ==
    ASSUME NEW i, NEW v, NEW r, NEW D, NEW K, Reads(i, v, r, D, K)
    PROVE  /\ IsSeq(BitOrder(D)) /\ IsSeq(BitOrder(K)) /\ StartOf(BitOrder(K), BitOrder(D))
           /\ \A f : f \in FlagFields(K) <=> f \in FlagFields(D) /\ f.since <= r
           /\ ToSet(BitOrder(D)) = FlagFields(D) /\ ToSet(BitOrder(K)) = FlagFields(K)
           /\ OpHasFlags(K, v) <=> OpHasFlags(D, v)
           /\ OpHasFlags(D, v) <=> \E f \in FlagFields(D) : f.since <= v
  <1>1. v \in Nat /\ r \in 1..Latest /\ v <= r /\ r \in Nat /\ D.since \in Nat /\ D.since <= v
    BY ReadsVersions
  <1>2. IsSeq(D.attributes) /\ IsSeq(D.operands) /\ IsSeq(K.attributes) /\ IsSeq(K.operands)
        /\ K.since = D.since /\ K.sized = D.sized
    BY ReadsKnown
  <1>3. \A f : f \in FlagFields(K) <=> f \in FlagFields(D) /\ f.since <= r
    <2>1. \A f : f \in ToSet(K.attributes) <=> f \in ToSet(D.attributes) /\ f.since <= r
      BY ReadsKnown
    <2>2. \A f : f \in ToSet(K.operands) <=> f \in ToSet(D.operands) /\ f.since <= r
      BY ReadsKnown
    <2> QED BY <1>2, <2>1, <2>2 DEF FlagFields
  <1>4. \A f \in FlagFields(D) : f.since \in 1..Latest /\ f.since \in Nat
    <2>1. FlagFields(D) \subseteq OpFields(D)
      BY DEF FlagFields, OpFields
    <2> QED BY <2>1, ReadsField
  <1>5. \A f \in FlagFields(K) : f.since \in 1..Latest
    BY <1>3, <1>4
  <1>6. BitOrder(D) \in Seq(FlagFields(D)) /\ ToSet(BitOrder(D)) = FlagFields(D)
    BY <1>2, <1>4, BitOrderFacts
  <1>7. BitOrder(K) \in Seq(FlagFields(K)) /\ ToSet(BitOrder(K)) = FlagFields(K)
    BY <1>2, <1>5, BitOrderFacts
  <1>8. OpHasFlags(D, v) <=> \E f \in FlagFields(D) : f.since <= v
    BY <1>1, <1>2, <1>4, HasFlags
  <1>9. OpHasFlags(K, v) <=> \E f \in FlagFields(K) : f.since <= v
    BY <1>1, <1>2, <1>5, HasFlags
  <1>10. (\E f \in FlagFields(K) : f.since <= v) <=> \E f \in FlagFields(D) : f.since <= v
    BY <1>1, <1>3, <1>4
  <1>11. StartOf(BitOrder(K), BitOrder(D))
    <2>1. PICK fields : fields = BitFields(D)
      OBVIOUS
    <2>2. PICK known : known = Kept(fields, {f \in ToSet(fields) : f.since <= r})
      OBVIOUS
    <2>3. known = BitFields(K)
      BY <2>1, <2>2, KnownBitFields
    <2>4. IsSeq(fields)
      BY <1>2, <2>1, BitFieldsFacts
    <2>5. StartOf(FlattenSeq(ByVersion(known)), FlattenSeq(ByVersion(fields)))
      BY <1>1, <2>2, <2>4, KnownBits
    <2> QED BY <2>1, <2>3, <2>5, BitOrderIs
  <1> QED BY <1>3, <1>6, <1>7, <1>8, <1>9, <1>10, <1>11 DEF IsSeq

(* The flags that the reader has once they are read.                       *)
OpFlags(i, v) ==
    IF OpHasFlags(Op(i), v)
    THEN {n \in DOMAIN BitOrder(Op(i)) : Present(i, BitOrder(Op(i))[n])} ELSE {}

LEMMA OpFlagsRead ==
    ASSUME NEW i, NEW v, NEW r, NEW D, NEW K, Reads(i, v, r, D, K), NEW got, NEW more, IsSeq(more),
           NEW s, s = St(FlagTokens(i, v) \o more, {}, got)
    PROVE  IsSeq(FlagTokens(i, v)) /\ ReadOpFlags(K, v, s) = St(more, OpFlags(i, v), got)
  <1>1. (OpHasFlags(K, v) <=> OpHasFlags(D, v)) /\ D = Op(i)
    BY ReadsBits DEF Reads
  <1>2. CASE OpHasFlags(D, v)
    <2>1. PICK F : F = OpFlags(i, v)
      OBVIOUS
    <2>2. FlagTokens(i, v) = <<Token("flags", F)>>
      BY <1>1, <1>2, <2>1 DEF FlagTokens, OpFlags
    <2>3. s = St(<<Token("flags", F)>> \o more, {}, got)
      BY <2>2
    <2>4. ReadFlags(s) = St(more, F, got)
      BY <2>3, FlagsRead
    <2>5. ReadOpFlags(K, v, s) = ReadFlags(s)
      BY <1>1, <1>2 DEF ReadOpFlags
    <2>6. IsSeq(FlagTokens(i, v))
      BY <2>2, TokenSeq
    <2> QED BY <2>1, <2>4, <2>5, <2>6
  <1>3. CASE ~OpHasFlags(D, v)
    <2>1. FlagTokens(i, v) = <<>> /\ OpFlags(i, v) = {}
      BY <1>1, <1>3 DEF FlagTokens, OpFlags
    <2>2. s = St(more, {}, got)
      BY <2>1, JoinFacts
    <2>3. ReadOpFlags(K, v, s) = s
      BY <1>1, <1>3 DEF ReadOpFlags
    <2>4. IsSeq(FlagTokens(i, v))
      BY <2>1, TokenSeq
    <2> QED BY <2>1, <2>2, <2>3, <2>4
  <1> QED BY <1>2, <1>3

(* A field is there if its bit is set, by the release's own order.         *)
LEMMA OpFlagged ==
    ASSUME NEW i, NEW v, NEW r, NEW D, NEW K, Reads(i, v, r, D, K), NEW f \in FlagFields(K)
    PROVE  Bit(f, BitOrder(K)) \in OpFlags(i, v) <=> Present(i, f)
  <1>1. PICK u : u = BitOrder(K)
    OBVIOUS
  <1>2. PICK o : o = BitOrder(D)
    OBVIOUS
  <1>3. /\ IsSeq(o) /\ IsSeq(u) /\ StartOf(u, o) /\ ToSet(u) = FlagFields(K) /\ ToSet(o) = FlagFields(D)
        /\ \A g : g \in FlagFields(K) <=> g \in FlagFields(D) /\ g.since <= r
        /\ OpHasFlags(D, v) <=> \E g \in FlagFields(D) : g.since <= v
    BY <1>1, <1>2, ReadsBits
  <1>4. \A g \in ToSet(u) : g.name = f.name => g = f
    <2>1. \A g \in FlagFields(K) : g \in ToSet(D.attributes) \/ g \in ToSet(D.operands)
      BY <1>3 DEF FlagFields
    <2>2. /\ \A x, y \in ToSet(D.attributes) : x.name = y.name => x = y
          /\ \A x, y \in ToSet(D.operands) : x.name = y.name => x = y
      BY ReadsDecl
    <2>3. \A x \in ToSet(D.attributes) : \A y \in ToSet(D.operands) : x.name # y.name
      <3>1. Names(D.attributes) \cap Names(D.operands) = {}
        BY ReadsDecl
      <3> QED BY <3>1 DEF Names
    <2> QED BY <1>3, <2>1, <2>2, <2>3
  <1>5. Bit(f, u) \in DOMAIN o /\ o[Bit(f, u)] = f
    BY <1>3, <1>4, BitOf
  <1>6. D = Op(i) /\ ~OpRefused(i, v) /\ OperationIs(i)
    BY DEF Reads
  <1>7. CASE OpHasFlags(D, v)
    BY <1>1, <1>2, <1>5, <1>6, <1>7 DEF OpFlags
  <1>8. CASE ~OpHasFlags(D, v)
    <2>1. OpFlags(i, v) = {}
      BY <1>6, <1>8 DEF OpFlags
    <2>2. f \in FlagFields(D) /\ ~(f.since <= v)
      BY <1>3, <1>8
    <2>3. ~Present(i, f)
      <3>1. f \in OpFields(D)
        BY <2>2 DEF FlagFields, OpFields
      <3>2. f.since \in Nat /\ (Evolved(D, f) <=> f.since > D.since)
        BY <3>1, ReadsField
      <3>3. v \in Nat /\ D.since \in Nat /\ D.since <= v
        BY ReadsVersions
      <3>4. Evolved(D, f) /\ v < f.since
        BY <2>2, <3>2, <3>3
      <3>5. ~FlagRefused(i, f, v)
        BY <1>2, <1>3, <1>6, <2>2 DEF OpRefused
      <3> QED BY <1>6, <3>4, <3>5 DEF FlagRefused
    <2> QED BY <1>1, <2>1, <2>3
  <1> QED BY <1>7, <1>8

(* What the reader should find, by name.                                   *)
IndicesOf(values, index) == [n \in DOMAIN values |-> index[values[n].at]]

OpValues(i, v, index) ==
    [name \in Names(Op(i).attributes) \cup Names(Op(i).operands) \cup {"results", "arguments"} |->
        IF name \in Names(Op(i).attributes) THEN i.attributes[name]
        ELSE IF name \in Names(Op(i).operands) THEN IndicesOf(i.operands[name], index)
        ELSE IF name = "results" THEN ResultsWritten(i, v) ELSE i.arguments]

LEMMA OpValuesAre ==
    ASSUME NEW i, NEW v, NEW r, NEW D, NEW K, Reads(i, v, r, D, K), NEW index,
           NEW G, G = OpValues(i, v, index)
    PROVE  /\ \A f \in ToSet(D.attributes) : G[f.name] = i.attributes[f.name]
           /\ \A f \in ToSet(D.operands) : G[f.name] = IndicesOf(i.operands[f.name], index)
           /\ G["results"] = ResultsWritten(i, v) /\ G["arguments"] = i.arguments
  <1>1. PICK A : A = Names(D.attributes)
    OBVIOUS
  <1>2. PICK B : B = Names(D.operands)
    OBVIOUS
  <1>3. A \cap B = {} /\ (A \cup B) \cap {"results", "arguments"} = {} /\ D = Op(i)
    BY <1>1, <1>2, ReadsDecl DEF Reads
  <1>4. G = [name \in A \cup B \cup {"results", "arguments"} |->
                IF name \in A THEN i.attributes[name]
                ELSE IF name \in B THEN IndicesOf(i.operands[name], index)
                ELSE IF name = "results" THEN ResultsWritten(i, v) ELSE i.arguments]
    BY <1>1, <1>2, <1>3, Zenon DEF OpValues
  <1>5. \A f \in ToSet(D.attributes) : f.name \in A
    BY <1>1 DEF Names
  <1>6. \A f \in ToSet(D.operands) : f.name \in B
    BY <1>2 DEF Names
  <1>7. \A name \in A : G[name] = i.attributes[name]
    BY <1>4
  <1>8. \A name \in B : G[name] = IndicesOf(i.operands[name], index)
    BY <1>3, <1>4
  <1>9. G["results"] = ResultsWritten(i, v) /\ G["arguments"] = i.arguments
    BY <1>3, <1>4
  <1> QED BY <1>5, <1>6, <1>7, <1>8, <1>9

Early(i, v) == {f \in ToSet(Op(i).attributes) :
                    f.name \in DOMAIN i.attributes /\ (v >= f.since \/ f.fallback = "default")}

LEMMA AttributeIs ==
    ASSUME NEW i, NEW v, NEW r, NEW D, NEW K, Reads(i, v, r, D, K), NEW f \in ToSet(D.attributes)
    PROVE  /\ f.form \in {"unit", "optional", "required"} /\ f.optional = (f.form # "required")
           /\ f.form = "required" => f.name \in DOMAIN i.attributes
           /\ f.name \in DOMAIN i.attributes => i.attributes[f.name] \in DOMAIN Values
           /\ f.name \in DOMAIN i.attributes /\ f.form = "unit" => i.attributes[f.name] = FallbackValue
           /\ f.form # "required" => f.fallback = "none"
           /\ Present(i, f) <=> f.name \in DOMAIN i.attributes
           /\ f.name \in DOMAIN i.attributes /\ f.form # "unit" /\ v >= f.since =>
                    ~ValueRefused(i.attributes[f.name], v)
           /\ f \in Early(i, v) <=> f.name \in DOMAIN i.attributes /\ (v >= f.since \/ f.fallback = "default")
  <1>1. D = Op(i) /\ ~OpRefused(i, v) /\ OperationIs(i)
    BY DEF Reads
  <1>2. AttributesAccepted(i.attributes, D.attributes)
    BY <1>1 DEF OperationIs
  <1>3. /\ f.form = "required" => f.name \in DOMAIN i.attributes
        /\ f.name \in DOMAIN i.attributes => i.attributes[f.name] \in DOMAIN Values
        /\ f.name \in DOMAIN i.attributes /\ f.form = "unit" => i.attributes[f.name] = FallbackValue
    BY <1>2 DEF AttributesAccepted
  <1>4. f.form \in {"unit", "optional", "required"} /\ f.optional = (f.form # "required")
        /\ (f.form # "required" => f.fallback = "none")
    BY ReadsDecl DEF AttributeAccepted
  <1>5. f.name \notin DOMAIN i.operands
    <2>1. f.name \in Names(D.attributes)
      BY DEF Names
    <2>2. Names(D.attributes) \cap Names(D.operands) = {}
      BY ReadsDecl
    <2>3. DOMAIN i.operands = Names(D.operands)
      BY <1>1 DEF OperationIs, OperandsAre
    <2> QED BY <2>1, <2>2, <2>3
  <1>6. ~AttributeRefused(i, f, v)
    BY <1>1 DEF OpRefused
  <1>7. f.name \in DOMAIN i.attributes /\ f.form # "unit" /\ v >= f.since =>
                    ~ValueRefused(i.attributes[f.name], v)
    BY <1>6 DEF AttributeRefused
  <1>8. f \in Early(i, v) <=> f.name \in DOMAIN i.attributes /\ (v >= f.since \/ f.fallback = "default")
    BY <1>1 DEF Early
  <1> QED BY <1>3, <1>4, <1>5, <1>7, <1>8 DEF Present

LEMMA AttributeRead ==
    ASSUME NEW i, NEW v, NEW r, NEW D, NEW K, Reads(i, v, r, D, K), NEW index,
           NEW f \in ToSet(K.attributes), NEW rest, IsSeq(rest), NEW C,
           NEW G, G = OpValues(i, v, index), NEW F, F = OpFlags(i, v),
           NEW s, s = St(AttributeTokens(i, f, v) \o rest, F, Got(C, G))
    PROVE  ReadAttribute(K, r, v, s, f) = St(rest, F, Got(AfterField(Early(i, v), f, C), G))
  <1>1. f \in ToSet(D.attributes)
    BY ReadsKnown
  <1>2. /\ f.form \in {"unit", "optional", "required"} /\ f.optional = (f.form # "required")
        /\ f.form = "required" => f.name \in DOMAIN i.attributes
        /\ f.name \in DOMAIN i.attributes => i.attributes[f.name] \in DOMAIN Values
        /\ f.name \in DOMAIN i.attributes /\ f.form = "unit" => i.attributes[f.name] = FallbackValue
        /\ f.form # "required" => f.fallback = "none"
        /\ Present(i, f) <=> f.name \in DOMAIN i.attributes
        /\ f.name \in DOMAIN i.attributes /\ f.form # "unit" /\ v >= f.since =>
                    ~ValueRefused(i.attributes[f.name], v)
        /\ f \in Early(i, v) <=> f.name \in DOMAIN i.attributes /\ (v >= f.since \/ f.fallback = "default")
    BY <1>1, AttributeIs
  <1>3. G[f.name] = i.attributes[f.name]
    BY <1>1, OpValuesAre
  <1>4. v \in Nat /\ f.since \in Nat
    BY <1>1, ReadsVersions, ReadsField DEF OpFields
  <1>5. ASSUME AttributeTokens(i, f, v) = <<>> PROVE s = St(rest, F, Got(C, G))
    BY <1>5, JoinFacts
  <1>6. ASSUME AttributeTokens(i, f, v) = <<>>, G[f.name] = FallbackValue
        PROVE  Keep(s, f, FallbackValue) = St(rest, F, Got(C \cup {f.name}, G))
    <2>1. s = St(rest, F, Got(C, G))
      BY <1>5, <1>6
    <2>2. Keep(s, f, G[f.name]) = St(rest, F, Got(C \cup {f.name}, G))
      BY <2>1, KeepIs
    <2> QED BY <1>6, <2>2
  <1>7. ASSUME f.name \in DOMAIN i.attributes, f.form # "unit", v >= f.since
        PROVE  ReadValue(s, f, r) = St(rest, F, Got(C \cup {f.name}, G))
    <2>1. PICK x \in DOMAIN Values : x = i.attributes[f.name]
      BY <1>2, <1>7
    <2>2. ~ValueRefused(x, v)
      BY <1>2, <1>7, <2>1
    <2>3. AttributeTokens(i, f, v) = ValueTokens(x)
      BY <1>4, <1>7, <2>1 DEF AttributeTokens
    <2>4. s = St(ValueTokens(x) \o rest, F, Got(C, G))
      BY <2>3
    <2>5. v \in Supported /\ r \in v..Latest
      BY DEF Reads
    <2>6. G[f.name] = x
      BY <1>3, <2>1
    <2> QED BY <2>2, <2>4, <2>5, <2>6, ValueRead
  <1>8. CASE v < f.since
    <2>1. AttributeTokens(i, f, v) = <<>>
      BY <1>8 DEF AttributeTokens
    <2>2. CASE f.fallback = "default"
      <3>1. f.form = "required" /\ f.name \in DOMAIN i.attributes
        BY <1>2, <2>2
      <3>2. i.attributes[f.name] = FallbackValue
        BY <1>1, <1>8, <3>1, ReadsLater
      <3>3. ReadAttribute(K, r, v, s, f) = Keep(s, f, FallbackValue)
        BY <1>8, <2>2 DEF ReadAttribute
      <3>4. f \in Early(i, v)
        BY <1>2, <2>2, <3>1
      <3> QED BY <1>3, <1>6, <2>1, <3>2, <3>3, <3>4 DEF AfterField
    <2>3. CASE f.fallback # "default"
      <3>1. ReadAttribute(K, r, v, s, f) = s
        BY <1>8, <2>3 DEF ReadAttribute
      <3>2. f \notin Early(i, v)
        BY <1>2, <1>4, <1>8, <2>3
      <3> QED BY <1>5, <2>1, <3>1, <3>2 DEF AfterField
    <2> QED BY <2>2, <2>3
  <1>9. CASE ~(v < f.since)
    <2>1. v >= f.since
      BY <1>4, <1>9
    <2>2. f \in Early(i, v) <=> f.name \in DOMAIN i.attributes
      BY <1>2, <2>1
    <2>3. CASE f.form = "required"
      <3>1. ReadAttribute(K, r, v, s, f) = ReadValue(s, f, r)
        BY <1>9, <2>3 DEF ReadAttribute
      <3> QED BY <1>2, <1>7, <2>1, <2>2, <2>3, <3>1 DEF AfterField
    <2>4. CASE f.form # "required"
      <3>1. Bit(f, BitOrder(K)) \in F <=> f.name \in DOMAIN i.attributes
        <4>1. f \in FlagFields(K)
          BY <1>2, <2>4 DEF FlagFields
        <4> QED BY <1>2, <4>1, OpFlagged
      <3>2. s.flags = F
        BY StFields
      <3>3. CASE f.name \notin DOMAIN i.attributes
        <4>1. AttributeTokens(i, f, v) = <<>>
          BY <3>3 DEF AttributeTokens
        <4>2. ReadAttribute(K, r, v, s, f) = s
          BY <1>9, <2>4, <3>1, <3>2, <3>3 DEF ReadAttribute
        <4> QED BY <1>5, <2>2, <3>3, <4>1, <4>2 DEF AfterField
      <3>4. CASE f.name \in DOMAIN i.attributes /\ f.form = "unit"
        <4>1. AttributeTokens(i, f, v) = <<>>
          BY <3>4 DEF AttributeTokens
        <4>2. ReadAttribute(K, r, v, s, f) = Keep(s, f, FallbackValue)
          BY <1>9, <2>4, <3>1, <3>2, <3>4 DEF ReadAttribute
        <4>3. G[f.name] = FallbackValue
          BY <1>2, <1>3, <3>4
        <4> QED BY <1>6, <2>2, <3>4, <4>1, <4>2, <4>3 DEF AfterField
      <3>5. CASE f.name \in DOMAIN i.attributes /\ f.form # "unit"
        <4>1. ReadAttribute(K, r, v, s, f) = ReadValue(s, f, r)
          BY <1>9, <2>4, <3>1, <3>2, <3>5 DEF ReadAttribute
        <4> QED BY <1>7, <2>1, <2>2, <3>5, <4>1 DEF AfterField
      <3> QED BY <3>3, <3>4, <3>5
    <2> QED BY <2>3, <2>4
  <1> QED BY <1>8, <1>9

LEMMA ValueTokensSeq ==
    ASSUME NEW x \in DOMAIN Values, NEW v \in Supported, ~ValueRefused(x, v)
    PROVE  IsSeq(ValueTokens(x))
  <1>1. CASE ~IsRecord(x)
    <2>1. ValueTokens(x) = <<Token("value", x)>>
      BY <1>1 DEF ValueTokens
    <2> QED BY <2>1, TokenSeq
  <1>2. CASE IsRecord(x)
    <2>1. PICK d : d = AttrDecl(x)
      OBVIOUS
    <2>2. PICK K : K = Known(d.params, Latest)
      OBVIOUS
    <2>3. Latest \in v..Latest
      BY SomeVersions
    <2>4. RecordOf(x, v, Latest, d, K)
      BY <1>2, <2>1, <2>2, <2>3 DEF RecordOf
    <2>5. PICK toks : toks = RecordTokens(x)
      OBVIOUS
    <2>6. IsSeq(toks)
      BY <2>4, <2>5, RecordTokensSeq
    <2>7. PICK k : k = Token("record", Values[x].decl)
      OBVIOUS
    <2>8. ValueTokens(x) = <<k>> \o toks
      BY <1>2, <2>5, <2>7 DEF ValueTokens
    <2>9. IsSeq(<<k>>)
      BY TokenSeq
    <2> QED BY <2>6, <2>8, <2>9, JoinFacts
  <1> QED BY <1>1, <1>2

(* The attributes: those the release does not know are not written.        *)
AttributeEmits(i, v) == [f \in ToSet(Op(i).attributes) |-> AttributeTokens(i, f, v)]

AttributesTokens(i, v) == Concat(LAMBDA f : AttributeTokens(i, f, v), Op(i).attributes)

LEMMA AttributesEmitted ==
    ASSUME NEW i, NEW v, NEW r, NEW D, NEW K, Reads(i, v, r, D, K), NEW e, e = AttributeEmits(i, v)
    PROVE  /\ Emits(e, D.attributes) /\ Emits(e, K.attributes)
           /\ AttributesTokens(i, v) = Tokens(e, K.attributes)
  <1>1. D = Op(i) /\ v \in Supported
    BY DEF Reads
  <1>2. \A f \in ToSet(D.attributes) : e[f] = AttributeTokens(i, f, v)
    BY <1>1 DEF AttributeEmits
  <1>3. /\ IsSeq(D.attributes) /\ IsSeq(K.attributes) /\ K.attributes = Known(D.attributes, r)
        /\ \A f : f \in ToSet(K.attributes) <=> f \in ToSet(D.attributes) /\ f.since <= r
    BY ReadsKnown
  <1>4. ASSUME NEW f \in ToSet(D.attributes) PROVE IsSeq(e[f])
    <2>1. CASE AttributeTokens(i, f, v) = <<>>
      BY <1>2, <2>1, TokenSeq
    <2>2. CASE AttributeTokens(i, f, v) # <<>>
      <3>1. f.name \in DOMAIN i.attributes /\ f.form # "unit" /\ ~(v < f.since)
        BY <2>2 DEF AttributeTokens
      <3>2. v \in Nat /\ f.since \in Nat
        BY ReadsVersions, ReadsField DEF OpFields
      <3>3. v >= f.since
        BY <3>1, <3>2
      <3>4. /\ f.name \in DOMAIN i.attributes => i.attributes[f.name] \in DOMAIN Values
            /\ f.name \in DOMAIN i.attributes /\ f.form # "unit" /\ v >= f.since =>
                    ~ValueRefused(i.attributes[f.name], v)
        BY AttributeIs
      <3>5. PICK x \in DOMAIN Values : x = i.attributes[f.name]
        BY <3>1, <3>4
      <3>6. ~ValueRefused(x, v)
        BY <3>1, <3>3, <3>4, <3>5
      <3>7. IsSeq(ValueTokens(x))
        BY <1>1, <3>6, ValueTokensSeq
      <3>8. e[f] = ValueTokens(x)
        BY <1>2, <3>1, <3>5 DEF AttributeTokens
      <3> QED BY <3>7, <3>8
    <2> QED BY <2>1, <2>2
  <1>5. Emits(e, D.attributes) /\ Emits(e, K.attributes)
    BY <1>3, <1>4 DEF Emits
  <1>6. PICK A : A = {f \in ToSet(D.attributes) : f.since <= r}
    OBVIOUS
  <1>7. \A f \in ToSet(D.attributes) : f \notin A => e[f] = <<>>
    <2>1. ASSUME NEW f \in ToSet(D.attributes), f \notin A PROVE e[f] = <<>>
      <3>1. v \in Nat /\ f.since \in Nat /\ r \in Nat /\ v <= r
        BY ReadsVersions, ReadsField DEF OpFields
      <3>2. v < f.since
        BY <1>6, <2>1, <3>1
      <3> QED BY <1>2, <3>2 DEF AttributeTokens
    <2> QED BY <2>1
  <1>8. Tokens(e, Kept(D.attributes, A)) = Tokens(e, D.attributes)
    BY <1>5, <1>7, SilentLeftOut
  <1>9. Kept(D.attributes, A) = K.attributes
    BY <1>3, <1>6 DEF Known
  <1>10. AttributesTokens(i, v) = Tokens(e, D.attributes)
    <2>1. PICK fields : fields = D.attributes
      OBVIOUS
    <2>2. PICK parts : parts = [n \in DOMAIN fields |-> AttributeTokens(i, fields[n], v)]
      OBVIOUS
    <2>3. AttributesTokens(i, v) = FlattenSeq(parts)
      BY <1>1, <2>1, <2>2, Zenon DEF Concat, AttributesTokens
    <2>4. parts = TokenLists(e, fields)
      <3>1. \A n \in DOMAIN fields : fields[n] \in ToSet(D.attributes)
        BY <1>3, <2>1, SeqIs
      <3> QED BY <1>2, <2>1, <2>2, <3>1 DEF TokenLists
    <2> QED BY <2>1, <2>3, <2>4, Zenon DEF Tokens
  <1> QED BY <1>5, <1>8, <1>9, <1>10

LEMMA AttributesRead ==
    ASSUME NEW i, NEW v, NEW r, NEW D, NEW K, Reads(i, v, r, D, K), NEW index,
           NEW more, IsSeq(more), NEW C, NEW G, G = OpValues(i, v, index), NEW F, F = OpFlags(i, v),
           NEW s, s = St(AttributesTokens(i, v) \o more, F, Got(C, G))
    PROVE  /\ IsSeq(AttributesTokens(i, v))
           /\ AllAttribute(K, r, v, s, K.attributes) =
                    St(more, F, Got(C \cup NamesIn(Early(i, v), K.attributes), G))
  <1>1. PICK e : e = AttributeEmits(i, v)
    OBVIOUS
  <1>2. PICK P : P = Early(i, v)
    OBVIOUS
  <1>3. PICK fields : fields = K.attributes
    OBVIOUS
  <1>4. Emits(e, fields) /\ AttributesTokens(i, v) = Tokens(e, fields)
    BY <1>1, <1>3, AttributesEmitted
  <1>5. IsSeq(fields) /\ \A f \in ToSet(fields) : f \in ToSet(K.attributes) /\ f \in ToSet(D.attributes)
    BY <1>3, ReadsKnown
  <1>6. PICK w : Walks(w, fields, e, more, F, C, G, P)
    BY <1>4, WalkExists
  <1>7. /\ w[0] = St(Tokens(e, fields) \o more, F, Got(C, G))
        /\ w[Len(fields)] = St(more, F, Got(C \cup NamesIn(P, fields), G))
        /\ \A n \in 1..Len(fields) : Steps(w[n - 1], w[n], fields[n], e, F, C, G, P)
    BY <1>6 DEF Walks
  <1>8. ASSUME NEW n \in 1..Len(fields) PROVE ReadAttribute(K, r, v, w[n - 1], fields[n]) = w[n]
    <2>1. PICK f \in ToSet(fields) : f = fields[n]
      BY <1>5, SeqIs
    <2>2. PICK a : a = w[n - 1]
      OBVIOUS
    <2>3. PICK b : b = w[n]
      OBVIOUS
    <2>4. Steps(a, b, f, e, F, C, G, P)
      BY <1>7, <2>1, <2>2, <2>3
    <2>5. PICK rest, B : /\ IsSeq(rest)
                         /\ a = St(e[f] \o rest, F, Got(B, G))
                         /\ b = St(rest, F, Got(IF f \in P THEN B \cup {f.name} ELSE B, G))
      BY <2>4, Zenon DEF Steps
    <2>6. e[f] = AttributeTokens(i, f, v)
      <3>1. f \in ToSet(Op(i).attributes)
        BY <1>5 DEF Reads
      <3> QED BY <1>1, <3>1 DEF AttributeEmits
    <2>7. a = St(AttributeTokens(i, f, v) \o rest, F, Got(B, G))
      BY <2>5, <2>6
    <2>8. f \in ToSet(K.attributes)
      BY <1>5
    <2>9. ReadAttribute(K, r, v, a, f) = St(rest, F, Got(AfterField(Early(i, v), f, B), G))
      BY <2>5, <2>7, <2>8, AttributeRead
    <2> QED BY <1>2, <2>1, <2>2, <2>3, <2>5, <2>9 DEF AfterField
  <1>9. w[0] = s
    BY <1>4, <1>7
  <1>10. RunsAttribute(w, K, r, v, s, fields)
    BY <1>8, <1>9 DEF RunsAttribute
  <1>11. AllAttribute(K, r, v, s, fields) = w[Len(fields)]
    BY <1>5, <1>10, EachAttribute
  <1>12. IsSeq(AttributesTokens(i, v))
    BY <1>4, TokensSeq
  <1> QED BY <1>2, <1>3, <1>7, <1>11, <1>12

(* A group of tokens with one tag, and what is read of it.                 *)
Tagged(tag, ts) == [n \in DOMAIN ts |-> Token(tag, ts[n])]

LEMMA TaggedFacts ==
    ASSUME NEW tag, NEW ts, IsSeq(ts)
    PROVE  /\ IsSeq(Tagged(tag, ts)) /\ Len(Tagged(tag, ts)) = Len(ts) /\ Len(ts) \in Nat
           /\ \A k \in 1..Len(ts) : Tagged(tag, ts)[k].tag = tag
           /\ [k \in 1..Len(ts) |-> Tagged(tag, ts)[k].of] = ts
  <1>1. PICK N \in Nat : N = Len(ts)
    BY SeqIs
  <1>2. PICK T : ts \in Seq(T)
    BY DEF IsSeq
  <1>3. ts \in [1..N -> T] /\ DOMAIN ts = 1..N
    BY <1>1, <1>2, LenProperties
  <1>4. PICK U : U = {Token(tag, x) : x \in T}
    OBVIOUS
  <1>5. PICK toks : toks = Tagged(tag, ts)
    OBVIOUS
  <1>6. toks = [n \in 1..N |-> Token(tag, ts[n])]
    BY <1>3, <1>5 DEF Tagged
  <1>7. toks \in [1..N -> U]
    BY <1>3, <1>4, <1>6
  <1>8. toks \in Seq(U) /\ Len(toks) = N
    BY <1>1, <1>7, IsASeq, LenProperties
  <1>9. \A k \in 1..N : toks[k].tag = tag /\ toks[k].of = ts[k]
    BY <1>6, TokenIs
  <1>10. [k \in 1..N |-> toks[k].of] = [k \in 1..N |-> ts[k]]
    BY <1>9
  <1>11. [k \in 1..N |-> ts[k]] = ts
    BY <1>3
  <1> QED BY <1>1, <1>5, <1>8, <1>9, <1>10, <1>11 DEF IsSeq

LEMMA TaggedRead ==
    ASSUME NEW tag, NEW ts, IsSeq(ts), NEW more, IsSeq(more), NEW flags, NEW got,
           NEW s, s = St(Tagged(tag, ts) \o more, flags, got)
    PROVE  ReadTokens(s, tag, Len(ts)) = St(more, flags, got) /\ TokensOf(s, Len(ts)) = ts
  <1>1. PICK toks : toks = Tagged(tag, ts)
    OBVIOUS
  <1>2. /\ IsSeq(toks) /\ Len(toks) = Len(ts) /\ \A k \in 1..Len(ts) : toks[k].tag = tag
        /\ [k \in 1..Len(ts) |-> toks[k].of] = ts
    BY <1>1, TaggedFacts
  <1>3. s = St(toks \o more, flags, got)
    BY <1>1
  <1>11. HaveTag(toks, tag)
    BY <1>2 DEF HaveTag
  <1>4. ReadTokens(s, tag, Len(toks)) = St(more, flags, got)
    BY <1>2, <1>3, <1>11, TokensRead
  <1>5. TokensOf(s, Len(toks)) = Contents(toks)
    BY <1>2, <1>3, <1>11, TokensRead
  <1>6. PICK n : n = Len(ts)
    OBVIOUS
  <1>7. n = Len(toks)
    BY <1>2, <1>6
  <1>8. ReadTokens(s, tag, n) = St(more, flags, got)
    BY <1>4, <1>7, Zenon
  <1>9. Contents(toks) = ts
    BY <1>2, <1>6, <1>7, Zenon DEF Contents
  <1>10. TokensOf(s, n) = ts
    BY <1>5, <1>7, <1>9
  <1> QED BY <1>6, <1>8, <1>10, Zenon

(* Whether there is a number of results is the same to both.               *)
LEMMA ReadsVariadic ==
    ASSUME NEW i, NEW v, NEW r, NEW D, NEW K, Reads(i, v, r, D, K)
    PROVE  /\ IsVariadic(K) <=> IsVariadic(D)
           /\ VariableLength(K.operands) <=> VariableLength(D.operands)
  <1>1. /\ \A f : f \in ToSet(K.operands) <=> f \in ToSet(D.operands) /\ f.since <= r
        /\ \A f : f \in ToSet(K.results) <=> f \in ToSet(D.results) /\ f.since <= r
    BY ReadsKnown
  <1>2. \A f \in OpFields(D) : ~Evolved(D, f) => f.since <= r
    BY ReadsField
  <1>3. VariableLength(D.operands) => VariableLength(K.operands)
    <2>1. ASSUME NEW f \in ToSet(D.operands), f.form # "required" PROVE VariableLength(K.operands)
      <3>1. CASE ~Evolved(D, f)
        BY <1>1, <1>2, <2>1, <3>1 DEF VariableLength, OpFields
      <3>2. CASE Evolved(D, f)
        <4>1. PICK g \in ToSet(D.operands) : ~Evolved(D, g) /\ g.form # "required"
          BY <3>2, ReadsDecl
        <4> QED BY <1>1, <1>2, <4>1 DEF VariableLength, OpFields
      <3> QED BY <3>1, <3>2
    <2> QED BY <2>1 DEF VariableLength
  <1>4. VariableLength(D.results) => VariableLength(K.results)
    <2>1. ASSUME NEW f \in ToSet(D.results), f.form # "required" PROVE VariableLength(K.results)
      <3>1. ~Evolved(D, f)
        BY <2>1, ReadsDecl
      <3> QED BY <1>1, <1>2, <2>1, <3>1 DEF VariableLength, OpFields
    <2> QED BY <2>1 DEF VariableLength
  <1>5. VariableLength(K.operands) => VariableLength(D.operands)
    BY <1>1 DEF VariableLength
  <1>6. VariableLength(K.results) => VariableLength(D.results)
    BY <1>1 DEF VariableLength
  <1> QED BY <1>3, <1>4, <1>5, <1>6 DEF IsVariadic

LEMMA ReadsInVersion ==
    ASSUME NEW i, NEW v, NEW r, NEW D, NEW K, Reads(i, v, r, D, K)
    PROVE  InVersion(K, v) = InVersion(D, v)
  <1>1. PICK res : res = D.results
    OBVIOUS
  <1>2. PICK known : known = K.results
    OBVIOUS
  <1>3. /\ IsSeq(res) /\ known = Known(res, r)
        /\ \A f : f \in ToSet(known) <=> f \in ToSet(res) /\ f.since <= r
    BY <1>1, <1>2, ReadsKnown
  <1>4. PICK A : A = {f \in ToSet(res) : f.since <= r}
    OBVIOUS
  <1>5. PICK B : B = {f \in ToSet(known) : ~Evolved(K, f) \/ v >= f.since}
    OBVIOUS
  <1>6. PICK E : E = {f \in ToSet(res) : ~Evolved(D, f) \/ v >= f.since}
    OBVIOUS
  <1>7. known = Kept(res, A)
    BY <1>3, <1>4 DEF Known
  <1>8. Kept(known, B) = Kept(res, A \cap B)
    BY <1>3, <1>7, KeptTwice
  <1>9. \A f \in ToSet(res) : f \in A \cap B <=> f \in E
    <2>1. ASSUME NEW f \in ToSet(res) PROVE f \in A \cap B <=> f \in E
      <3>1. /\ Evolved(D, f) <=> f.since > D.since
            /\ Evolved(K, f) <=> f.since > D.since
            /\ ~Evolved(D, f) => f.since <= r
            /\ v >= f.since => f.since <= r
        BY <1>1, ReadsField DEF OpFields
      <3> QED BY <1>3, <1>4, <1>5, <1>6, <3>1
    <2> QED BY <2>1
  <1>10. Kept(res, A \cap B) = Kept(res, E)
    BY <1>3, <1>9, KeptSame
  <1>11. InVersion(K, v) = Kept(known, B)
    BY <1>2, <1>5, Zenon DEF InVersion
  <1>12. InVersion(D, v) = Kept(res, E)
    BY <1>1, <1>6, Zenon DEF InVersion
  <1> QED BY <1>8, <1>10, <1>11, <1>12

(* Where each result is one value, there is one for each declaration.      *)
LEMMA WrittenSingly ==
    ASSUME NEW i, NEW v, NEW r, NEW D, NEW K, Reads(i, v, r, D, K),
           \A f \in ToSet(D.results) : f.form = "required"
    PROVE  Len(ResultsWritten(i, v)) = Len(InVersion(D, v))
  <1>1. D = Op(i) /\ OperationIs(i)
    BY DEF Reads
  <1>2. IsSeq(D.results)
    BY ReadsKnown
  <1>3. PICK B : B = {f \in ToSet(D.results) : ~Evolved(D, f) \/ v >= f.since}
    OBVIOUS
  <1>4. PICK kept : kept = Kept(D.results, B)
    OBVIOUS
  <1>5. IsSeq(kept) /\ \A f \in ToSet(kept) : f \in ToSet(D.results)
    BY <1>2, <1>4, KeptFacts
  <1>6. InVersion(D, v) = kept
    BY <1>3, <1>4, Zenon DEF InVersion
  <1>7. PICK e : e = [f \in ToSet(D.results) |-> i.results[f.name].types]
    OBVIOUS
  <1>8. \A f \in ToSet(D.results) : e[f] \in Seq(DOMAIN Types) /\ Len(e[f]) = 1
    BY <1>1, <1>7 DEF OperationIs, ResultsAre
  <1>9. Emits(e, kept)
    BY <1>5, <1>8 DEF Emits, IsSeq
  <1>10. Len(Tokens(e, kept)) = Len(kept)
    BY <1>5, <1>8, <1>9, TokensSingle
  <1>11. PICK ss : ss = [n \in DOMAIN kept |-> i.results[kept[n].name].types]
    OBVIOUS
  <1>12. ResultsKept(i, v) = kept
    BY <1>1, <1>6 DEF ResultsKept
  <1>13. ResultsWritten(i, v) = FlattenSeq(ss)
    BY <1>11, <1>12, Zenon DEF ResultsWritten
  <1>14. ss = TokenLists(e, kept)
    <2>1. \A n \in DOMAIN kept : kept[n] \in ToSet(D.results)
      BY <1>5, SeqIs
    <2> QED BY <1>7, <1>11, <2>1 DEF TokenLists
  <1>15. FlattenSeq(ss) = Tokens(e, kept)
    BY <1>14, Zenon DEF Tokens
  <1> QED BY <1>6, <1>10, <1>13, <1>15

LEMMA ResultsRead ==
    ASSUME NEW i, NEW v, NEW r, NEW D, NEW K, Reads(i, v, r, D, K),
           NEW more, IsSeq(more), NEW F, NEW C, NEW G, G["results"] = ResultsWritten(i, v),
           NEW s, s = St(ResultTokens(i, v) \o more, F, Got(C, G))
    PROVE  /\ IsSeq(ResultTokens(i, v))
           /\ ReadResults(K, v, s) = St(more, F, Got(C \cup {"results"}, G))
  <1>1. D = Op(i) /\ OperationIs(i)
    BY DEF Reads
  <1>2. PICK ts : ts = ResultsWritten(i, v)
    OBVIOUS
  <1>3. IsSeq(ts)
    BY <1>1, <1>2, WrittenFacts DEF IsSeq
  <1>4. PICK toks : toks = Tagged("type", ts)
    OBVIOUS
  <1>5. IsSeq(toks) /\ TypeIndices(ts) = toks
    <2>1. IsSeq(toks)
      BY <1>3, <1>4, TaggedFacts
    <2>2. TypeIndices(ts) = toks
      BY <1>4 DEF TypeIndices, Tagged
    <2> QED BY <2>1, <2>2
  <1>6. PICK N : N = Len(ts)
    OBVIOUS
  <1>7. IsVariadic(K) <=> IsVariadic(D)
    BY ReadsVariadic
  <1>8. PICK expected : expected = Len(InVersion(K, v))
    OBVIOUS
  <1>9. ASSUME \A f \in ToSet(D.results) : f.form = "required" PROVE expected = N
    <2>1. Len(ResultsWritten(i, v)) = Len(InVersion(D, v))
      BY <1>9, WrittenSingly
    <2>2. InVersion(K, v) = InVersion(D, v)
      BY ReadsInVersion
    <2> QED BY <1>2, <1>6, <1>8, <2>1, <2>2
  <1>10. (\E f \in ToSet(K.results) : Evolved(K, f)) => expected = N
    <2>1. ASSUME NEW f \in ToSet(K.results), Evolved(K, f) PROVE expected = N
      <3>1. f \in ToSet(D.results)
        BY ReadsKnown
      <3>2. Evolved(D, f)
        BY <2>1, <3>1, ReadsField DEF OpFields
      <3>3. \A g \in ToSet(D.results) : g.form = "required"
        BY <3>1, <3>2, ReadsDecl
      <3> QED BY <1>9, <3>3
    <2> QED BY <2>1
  <1>11. ~IsVariadic(D) => expected = N
    BY <1>9 DEF IsVariadic, VariableLength
  <1>12. PICK name : name = [name |-> "results"]
    OBVIOUS
  <1>13. name.name = "results"
    BY <1>12
  <1>14. ASSUME NEW q, q = St(more, F, Got(C, G)) PROVE Keep(q, name, ts) = St(more, F, Got(C \cup {"results"}, G))
    <2>1. Keep(q, name, G[name.name]) = St(more, F, Got(C \cup {name.name}, G))
      BY <1>14, KeepIs
    <2> QED BY <1>2, <1>13, <2>1
  <1>15. CASE IsVariadic(D)
    <2>1. PICK left : left = toks \o more
      OBVIOUS
    <2>2. IsSeq(left)
      BY <1>5, <2>1, JoinFacts
    <2>3. PICK k : k = Token("count", N)
      OBVIOUS
    <2>4. ResultTokens(i, v) = <<k>> \o toks
      BY <1>1, <1>2, <1>5, <1>6, <1>15, <2>3 DEF ResultTokens
    <2>5. IsSeq(<<k>>)
      BY TokenSeq
    <2>6. (<<k>> \o toks) \o more = <<k>> \o left
      <3>1. PICK one : one = <<k>>
        OBVIOUS
      <3>2. (one \o toks) \o more = one \o (toks \o more)
        BY <1>5, <2>5, <3>1, JoinAssociative
      <3> QED BY <2>1, <3>1, <3>2
    <2>7. s = St(<<Token("count", N)>> \o left, F, Got(C, G))
      BY <2>3, <2>4, <2>6
    <2>8. ReadCount(s) = St(left, F, Got(C, G)) /\ CountOf(s) = N
      BY <2>2, <2>7, CountRead
    <2>9. PICK counted : counted = ReadCount(s)
      OBVIOUS
    <2>10. counted = St(Tagged("type", ts) \o more, F, Got(C, G))
      BY <1>4, <2>1, <2>8, <2>9
    <2>11. ReadTokens(counted, "type", Len(ts)) = St(more, F, Got(C, G)) /\ TokensOf(counted, Len(ts)) = ts
      BY <1>3, <2>10, TaggedRead
    <2>12. PICK end : end = ReadTokens(counted, "type", N)
      OBVIOUS
    <2>13. end = St(more, F, Got(C, G)) /\ TokensOf(counted, N) = ts
      BY <1>6, <2>11, <2>12
    <2>14. end.ok
      BY <2>13, StFields
    <2>15. ReadResults(K, v, s) = Keep(end, name, ts)
      <3>1. CASE \E f \in ToSet(K.results) : Evolved(K, f)
        <4>1. expected = N
          BY <1>10, <3>1
        <4> QED BY <1>7, <1>8, <1>12, <1>15, <2>8, <2>9, <2>12, <2>13, <2>14, <3>1, <4>1, Zenon DEF ReadResults
      <3>2. CASE ~(\E f \in ToSet(K.results) : Evolved(K, f))
        BY <1>7, <1>8, <1>12, <1>15, <2>8, <2>9, <2>12, <2>13, <2>14, <3>2, Zenon DEF ReadResults
      <3> QED BY <3>1, <3>2
    <2>16. Keep(end, name, ts) = St(more, F, Got(C \cup {"results"}, G))
      BY <1>14, <2>13
    <2>17. IsSeq(ResultTokens(i, v))
      BY <1>5, <2>4, <2>5, JoinFacts
    <2> QED BY <2>15, <2>16, <2>17
  <1>16. CASE ~IsVariadic(D)
    <2>1. ResultTokens(i, v) = <<>> \o toks
      BY <1>1, <1>2, <1>5, <1>16 DEF ResultTokens
    <2>2. ResultTokens(i, v) = toks
      BY <1>5, <2>1, JoinFacts
    <2>3. s = St(Tagged("type", ts) \o more, F, Got(C, G))
      BY <1>4, <2>2
    <2>4. ReadTokens(s, "type", Len(ts)) = St(more, F, Got(C, G)) /\ TokensOf(s, Len(ts)) = ts
      BY <1>3, <2>3, TaggedRead
    <2>5. PICK end : end = ReadTokens(s, "type", N)
      OBVIOUS
    <2>6. end = St(more, F, Got(C, G)) /\ TokensOf(s, N) = ts
      BY <1>6, <2>4, <2>5
    <2>7. end.ok
      BY <2>6, StFields
    <2>8. expected = N
      BY <1>11, <1>16
    <2>9. ReadResults(K, v, s) = Keep(end, name, ts)
      BY <1>7, <1>8, <1>12, <1>16, <2>5, <2>6, <2>7, <2>8, Zenon DEF ReadResults
    <2>10. Keep(end, name, ts) = St(more, F, Got(C \cup {"results"}, G))
      BY <1>14, <2>6
    <2> QED BY <1>5, <2>2, <2>9, <2>10
  <1> QED BY <1>15, <1>16

(* What is written of a group of operands.                                 *)
GroupOf(i, f, index, ts) ==
    /\ IsSeq(ts) /\ Len(ts) = Len(i.operands[f.name]) /\ Len(ts) \in Nat
    /\ OperandIndices(i.operands[f.name], index) = Tagged("operand", ts)
    /\ (ts = <<>> <=> i.operands[f.name] = <<>>) /\ (ts = <<>> <=> Len(ts) = 0)
    /\ f.form = "required" => Len(ts) = 1
    /\ f.form = "optional" => Len(ts) <= 1
    /\ f.form \in {"variadic", "optional", "required"}
    /\ Present(i, f) <=> ts # <<>>

LEMMA OperandValues ==
    ASSUME NEW i, NEW v, NEW r, NEW D, NEW K, Reads(i, v, r, D, K), NEW index,
           NEW f \in ToSet(D.operands), NEW ts, ts = IndicesOf(i.operands[f.name], index)
    PROVE  GroupOf(i, f, index, ts)
  <1>1. D = Op(i) /\ OperationIs(i)
    BY DEF Reads
  <1>2. PICK values : values = i.operands[f.name]
    OBVIOUS
  <1>3. /\ IsSeq(values) /\ f.name \in DOMAIN i.operands
        /\ f.form = "required" => Len(values) = 1
        /\ f.form = "optional" => Len(values) <= 1
    BY <1>1, <1>2 DEF OperationIs, OperandsAre, Names
  <1>4. PICK N \in Nat : N = Len(values)
    BY <1>3, SeqIs
  <1>5. DOMAIN values = 1..N
    BY <1>3, <1>4, SeqIs
  <1>6. PICK U : U = {index[values[n].at] : n \in 1..N}
    OBVIOUS
  <1>7. ts = [n \in 1..N |-> index[values[n].at]]
    BY <1>2, <1>5 DEF IndicesOf
  <1>8. ts \in [1..N -> U]
    BY <1>6, <1>7
  <1>9. ts \in Seq(U) /\ Len(ts) = N /\ DOMAIN ts = 1..N
    BY <1>8, IsASeq, LenProperties
  <1>10. OperandIndices(values, index) = Tagged("operand", ts)
    BY <1>5, <1>7, <1>9 DEF OperandIndices, Tagged
  <1>11. ts = <<>> <=> N = 0
    BY <1>9, EmptySeq
  <1>12. values = <<>> <=> N = 0
    <2>1. PICK S : values \in Seq(S)
      BY <1>3 DEF IsSeq
    <2> QED BY <1>4, <2>1, EmptySeq
  <1>13. f.form \in {"variadic", "optional", "required"}
    BY ReadsDecl DEF OperandAccepted
  <1>14. Present(i, f) <=> values # <<>>
    BY <1>2, <1>3 DEF Present
  <1> QED BY <1>2, <1>3, <1>4, <1>9, <1>10, <1>11, <1>12, <1>13, <1>14 DEF IsSeq, GroupOf

LEMMA GroupRead ==
    ASSUME NEW f, NEW ts, IsSeq(ts), NEW more, IsSeq(more), NEW F, NEW C, NEW G, G[f.name] = ts,
           NEW s, s = St(Tagged("operand", ts) \o more, F, Got(C, G))
    PROVE  ReadGroup(s, f, Len(ts)) = St(more, F, Got(C \cup {f.name}, G))
  <1>1. ReadTokens(s, "operand", Len(ts)) = St(more, F, Got(C, G)) /\ TokensOf(s, Len(ts)) = ts
    BY TaggedRead
  <1>2. PICK n : n = Len(ts)
    OBVIOUS
  <1>3. PICK end : end = ReadTokens(s, "operand", n)
    OBVIOUS
  <1>4. end = St(more, F, Got(C, G)) /\ TokensOf(s, n) = ts
    BY <1>1, <1>2, <1>3
  <1>5. end.ok
    BY <1>4, StFields
  <1>6. ReadGroup(s, f, n) = Keep(end, f, ts)
    BY <1>3, <1>4, <1>5 DEF ReadGroup
  <1>7. Keep(end, f, G[f.name]) = St(more, F, Got(C \cup {f.name}, G))
    BY <1>4, KeepIs
  <1> QED BY <1>2, <1>6, <1>7

(* With segment sizes each group says how long it is.                      *)
Sized(d) == d.sized

LEMMA OperandRead ==
    ASSUME NEW i, NEW v, NEW r, NEW D, NEW K, Reads(i, v, r, D, K), Sized(D), NEW index,
           NEW f \in ToSet(K.operands), NEW rest, IsSeq(rest), NEW C,
           NEW G, G = OpValues(i, v, index), NEW F, F = OpFlags(i, v),
           NEW s, s = St(OperandTokens(i, f, index) \o rest, F, Got(C, G))
    PROVE  ReadOperand(K, v, s, f) = St(rest, F, Got(C \cup {f.name}, G))
  <1>1. f \in ToSet(D.operands)
    BY ReadsKnown
  <1>12. K.sized = D.sized
    BY ReadsKnown
  <1>2. PICK ts : ts = IndicesOf(i.operands[f.name], index)
    OBVIOUS
  <1>4. PICK toks : toks = Tagged("operand", ts)
    OBVIOUS
  <1>5. /\ IsSeq(ts) /\ Len(ts) = Len(i.operands[f.name]) /\ Len(ts) \in Nat
        /\ OperandIndices(i.operands[f.name], index) = toks
        /\ (ts = <<>> <=> i.operands[f.name] = <<>>) /\ (ts = <<>> <=> Len(ts) = 0)
        /\ f.form = "required" => Len(ts) = 1
        /\ f.form = "optional" => Len(ts) <= 1
        /\ f.form \in {"variadic", "optional", "required"}
        /\ Present(i, f) <=> ts # <<>>
    <2>1. GroupOf(i, f, index, ts)
      BY <1>1, <1>2, OperandValues
    <2> QED BY <1>4, <2>1 DEF GroupOf
  <1>6. IsSeq(toks)
    BY <1>4, <1>5, TaggedFacts
  <1>7. G[f.name] = ts
    BY <1>1, <1>2, OpValuesAre
  <1>8. PICK n : n = Len(ts)
    OBVIOUS
  <1>9. ASSUME NEW q, q = St(toks \o rest, F, Got(C, G))
        PROVE  ReadGroup(q, f, n) = St(rest, F, Got(C \cup {f.name}, G))
    <2>1. q = St(Tagged("operand", ts) \o rest, F, Got(C, G))
      BY <1>4, <1>9
    <2>2. ReadGroup(q, f, Len(ts)) = St(rest, F, Got(C \cup {f.name}, G))
      BY <1>5, <1>7, <2>1, GroupRead
    <2> QED BY <1>8, <2>2
  <1>10. CASE f.form = "variadic"
    <2>1. PICK k : k = Token("count", n)
      OBVIOUS
    <2>2. OperandTokens(i, f, index) = <<k>> \o toks
      BY <1>5, <1>8, <1>10, <2>1 DEF OperandTokens
    <2>3. PICK left : left = toks \o rest
      OBVIOUS
    <2>4. IsSeq(left)
      BY <1>6, <2>3, JoinFacts
    <2>5. (<<k>> \o toks) \o rest = <<k>> \o left
      <3>1. PICK one : one = <<k>>
        OBVIOUS
      <3>2. IsSeq(one)
        BY <3>1, TokenSeq
      <3>3. (one \o toks) \o rest = one \o (toks \o rest)
        BY <1>6, <3>2, JoinAssociative
      <3> QED BY <2>3, <3>1, <3>3
    <2>6. s = St(<<Token("count", n)>> \o left, F, Got(C, G))
      BY <2>1, <2>2, <2>5
    <2>7. ReadCount(s) = St(left, F, Got(C, G)) /\ CountOf(s) = n
      BY <2>4, <2>6, CountRead
    <2>8. PICK q : q = ReadCount(s)
      OBVIOUS
    <2>9. q = St(toks \o rest, F, Got(C, G))
      BY <2>3, <2>7, <2>8
    <2>10. ReadGroup(q, f, n) = St(rest, F, Got(C \cup {f.name}, G))
      BY <1>9, <2>9
    <2>11. ReadOperand(K, v, s, f) = ReadGroup(q, f, n)
      BY <1>10, <2>7, <2>8 DEF ReadOperand
    <2> QED BY <2>10, <2>11
  <1>11. CASE f.form # "variadic"
    <2>1. OperandTokens(i, f, index) = <<>> \o toks
      BY <1>5, <1>11 DEF OperandTokens
    <2>2. <<>> \o toks = toks
      BY <1>6, JoinFacts
    <2>3. s = St(toks \o rest, F, Got(C, G))
      BY <2>1, <2>2
    <2>4. ReadGroup(s, f, n) = St(rest, F, Got(C \cup {f.name}, G))
      BY <1>9, <2>3
    <2>5. CASE f.form = "required"
      <3>1. n = 1
        BY <1>5, <1>8, <2>5
      <3>2. ReadOperand(K, v, s, f) = ReadGroup(s, f, n)
        BY <2>5, <3>1 DEF ReadOperand
      <3> QED BY <2>4, <3>2
    <2>6. CASE f.form = "optional"
      <3>1. f.optional
        BY <1>1, <2>6, ReadsDecl DEF OperandAccepted
      <3>2. f \in FlagFields(K)
        BY <1>1, <1>12, <3>1 DEF FlagFields, Sized
      <3>3. Bit(f, BitOrder(K)) \in F <=> Present(i, f)
        BY <3>2, OpFlagged
      <3>4. s.flags = F
        BY <2>3, StFields
      <3>5. ~(Evolved(K, f) /\ v < f.since /\ Bit(f, BitOrder(K)) \in s.flags)
        <4>1. v < f.since => i.operands[f.name] = <<>>
          BY <1>1, ReadsLater
        <4> QED BY <1>5, <3>3, <3>4, <4>1
      <3>6. CASE Bit(f, BitOrder(K)) \in s.flags
        <4>1. n = 1
          <5>1. Present(i, f)
            BY <3>3, <3>4, <3>6
          <5>2. Len(ts) # 0 /\ Len(ts) <= 1 /\ Len(ts) \in Nat
            BY <1>5, <2>6, <5>1
          <5> QED BY <1>8, <5>2
        <4>2. ReadOperand(K, v, s, f) = ReadGroup(s, f, 1)
          BY <2>6, <3>5, <3>6 DEF ReadOperand
        <4> QED BY <2>4, <4>1, <4>2
      <3>7. CASE Bit(f, BitOrder(K)) \notin s.flags
        <4>1. n = 0
          BY <1>5, <1>8, <2>6, <3>3, <3>4, <3>7
        <4>2. ReadOperand(K, v, s, f) = ReadGroup(s, f, 0)
          BY <2>6, <3>5, <3>7 DEF ReadOperand
        <4> QED BY <2>4, <4>1, <4>2
      <3> QED BY <3>6, <3>7
    <2> QED BY <1>5, <1>11, <2>5, <2>6
  <1> QED BY <1>10, <1>11

LEMMA AllNamed ==
    ASSUME NEW fields, NEW P, P = ToSet(fields)
    PROVE  NamesIn(P, fields) = Names(fields)
  BY DEF NamesIn, Names

OperandEmits(i, index) == [f \in ToSet(Op(i).operands) |-> OperandTokens(i, f, index)]

OperandsTokens(i, index) == Concat(LAMBDA f : OperandTokens(i, f, index), Op(i).operands)

LEMMA OperandsEmitted ==
    ASSUME NEW i, NEW v, NEW r, NEW D, NEW K, Reads(i, v, r, D, K), Sized(D), NEW index,
           NEW e, e = OperandEmits(i, index)
    PROVE  /\ Emits(e, D.operands) /\ Emits(e, K.operands)
           /\ OperandsTokens(i, index) = Tokens(e, K.operands)
  <1>1. D = Op(i)
    BY DEF Reads
  <1>2. \A f \in ToSet(D.operands) : e[f] = OperandTokens(i, f, index)
    BY <1>1 DEF OperandEmits
  <1>3. /\ IsSeq(D.operands) /\ IsSeq(K.operands) /\ K.operands = Known(D.operands, r)
        /\ \A f : f \in ToSet(K.operands) <=> f \in ToSet(D.operands) /\ f.since <= r
    BY ReadsKnown
  <1>4. ASSUME NEW f \in ToSet(D.operands)
        PROVE  IsSeq(e[f]) /\ (f.form = "optional" /\ i.operands[f.name] = <<>> => e[f] = <<>>)
    <2>1. PICK ts : ts = IndicesOf(i.operands[f.name], index)
      OBVIOUS
    <2>2. PICK toks : toks = Tagged("operand", ts)
      OBVIOUS
    <2>10. GroupOf(i, f, index, ts)
      BY <2>1, OperandValues
    <2>3. IsSeq(ts) /\ OperandIndices(i.operands[f.name], index) = toks
          /\ (ts = <<>> <=> i.operands[f.name] = <<>>) /\ (ts = <<>> <=> Len(ts) = 0)
      BY <2>2, <2>10 DEF GroupOf
    <2>4. IsSeq(toks)
      BY <2>2, <2>3, TaggedFacts
    <2>5. PICK head : head = IF f.form = "variadic" THEN <<Token("count", Len(i.operands[f.name]))>> ELSE <<>>
      OBVIOUS
    <2>6. IsSeq(head)
      <3>1. PICK k : k = Token("count", Len(i.operands[f.name]))
        OBVIOUS
      <3>2. head = <<k>> \/ head = <<>>
        BY <2>5, <3>1
      <3> QED BY <3>2, TokenSeq
    <2>7. OperandTokens(i, f, index) = head \o toks
      BY <2>3, <2>5 DEF OperandTokens
    <2>8. IsSeq(e[f])
      <3>1. IsSeq(head \o toks)
        BY <2>4, <2>6, JoinFacts
      <3> QED BY <1>2, <2>7, <3>1
    <2>9. ASSUME f.form = "optional", i.operands[f.name] = <<>> PROVE e[f] = <<>>
      <3>1. head = <<>>
        BY <2>5, <2>9
      <3>3. toks = <<>>
        <4>1. Len(toks) = Len(ts) /\ Len(ts) = 0
          BY <2>2, <2>3, <2>9, TaggedFacts
        <4>2. PICK S : toks \in Seq(S)
          BY <2>4 DEF IsSeq
        <4> QED BY <4>1, <4>2, EmptySeq
      <3>4. <<>> \o toks = toks
        BY <2>4, JoinFacts
      <3> QED BY <1>2, <2>7, <3>1, <3>3, <3>4
    <2> QED BY <2>8, <2>9
  <1>5. Emits(e, D.operands) /\ Emits(e, K.operands)
    BY <1>3, <1>4 DEF Emits
  <1>6. PICK A : A = {f \in ToSet(D.operands) : f.since <= r}
    OBVIOUS
  <1>7. \A f \in ToSet(D.operands) : f \notin A => e[f] = <<>>
    <2>1. ASSUME NEW f \in ToSet(D.operands), f \notin A PROVE e[f] = <<>>
      <3>1. v \in Nat /\ f.since \in Nat /\ r \in Nat /\ v <= r
        BY ReadsVersions, ReadsField DEF OpFields
      <3>2. ~(f.since <= r) /\ v < f.since
        BY <1>6, <2>1, <3>1
      <3>3. Evolved(D, f)
        BY <3>2, ReadsField DEF OpFields
      <3>4. OperandAccepted(D, f)
        BY ReadsDecl
      <3>5. f.form = "optional"
        BY <3>3, <3>4 DEF OperandAccepted, Sized
      <3>6. i.operands[f.name] = <<>>
        BY <3>2, ReadsLater
      <3> QED BY <1>4, <3>5, <3>6
    <2> QED BY <2>1
  <1>8. Tokens(e, Kept(D.operands, A)) = Tokens(e, D.operands)
    BY <1>5, <1>7, SilentLeftOut
  <1>9. Kept(D.operands, A) = K.operands
    BY <1>3, <1>6 DEF Known
  <1>10. OperandsTokens(i, index) = Tokens(e, D.operands)
    <2>1. PICK fields : fields = D.operands
      OBVIOUS
    <2>2. PICK parts : parts = [n \in DOMAIN fields |-> OperandTokens(i, fields[n], index)]
      OBVIOUS
    <2>3. OperandsTokens(i, index) = FlattenSeq(parts)
      BY <1>1, <2>1, <2>2, Zenon DEF Concat, OperandsTokens
    <2>4. parts = TokenLists(e, fields)
      <3>1. \A n \in DOMAIN fields : fields[n] \in ToSet(D.operands)
        BY <1>3, <2>1, SeqIs
      <3> QED BY <1>2, <2>1, <2>2, <3>1 DEF TokenLists
    <2> QED BY <2>1, <2>3, <2>4, Zenon DEF Tokens
  <1> QED BY <1>5, <1>8, <1>9, <1>10

LEMMA SizedRead ==
    ASSUME NEW i, NEW v, NEW r, NEW D, NEW K, Reads(i, v, r, D, K), Sized(D), NEW index,
           NEW more, IsSeq(more), NEW C, NEW G, G = OpValues(i, v, index), NEW F, F = OpFlags(i, v),
           NEW s, s = St(OperandsTokens(i, index) \o more, F, Got(C, G))
    PROVE  /\ IsSeq(OperandsTokens(i, index))
           /\ AllOperand(K, v, s, K.operands) = St(more, F, Got(C \cup Names(K.operands), G))
  <1>1. PICK e : e = OperandEmits(i, index)
    OBVIOUS
  <1>3. PICK fields : fields = K.operands
    OBVIOUS
  <1>2. PICK P : P = ToSet(fields)
    OBVIOUS
  <1>4. Emits(e, fields) /\ OperandsTokens(i, index) = Tokens(e, fields)
    BY <1>1, <1>3, OperandsEmitted
  <1>5. IsSeq(fields) /\ \A f \in ToSet(fields) : f \in ToSet(K.operands) /\ f \in ToSet(D.operands)
    BY <1>3, ReadsKnown
  <1>6. PICK w : Walks(w, fields, e, more, F, C, G, P)
    BY <1>4, WalkExists
  <1>7. /\ w[0] = St(Tokens(e, fields) \o more, F, Got(C, G))
        /\ w[Len(fields)] = St(more, F, Got(C \cup NamesIn(P, fields), G))
        /\ \A n \in 1..Len(fields) : Steps(w[n - 1], w[n], fields[n], e, F, C, G, P)
    BY <1>6 DEF Walks
  <1>8. ASSUME NEW n \in 1..Len(fields) PROVE ReadOperand(K, v, w[n - 1], fields[n]) = w[n]
    <2>1. PICK f \in ToSet(fields) : f = fields[n]
      BY <1>5, SeqIs
    <2>2. PICK a : a = w[n - 1]
      OBVIOUS
    <2>3. PICK b : b = w[n]
      OBVIOUS
    <2>4. Steps(a, b, f, e, F, C, G, P)
      BY <1>7, <2>1, <2>2, <2>3
    <2>5. PICK rest, B : /\ IsSeq(rest)
                         /\ a = St(e[f] \o rest, F, Got(B, G))
                         /\ b = St(rest, F, Got(IF f \in P THEN B \cup {f.name} ELSE B, G))
      BY <2>4, Zenon DEF Steps
    <2>6. e[f] = OperandTokens(i, f, index)
      <3>1. f \in ToSet(Op(i).operands)
        BY <1>5 DEF Reads
      <3> QED BY <1>1, <3>1 DEF OperandEmits
    <2>7. a = St(OperandTokens(i, f, index) \o rest, F, Got(B, G))
      BY <2>5, <2>6
    <2>8. f \in ToSet(K.operands)
      BY <1>5
    <2>9. ReadOperand(K, v, a, f) = St(rest, F, Got(B \cup {f.name}, G))
      BY <2>5, <2>7, <2>8, OperandRead
    <2>10. f \in P
      BY <1>2
    <2> QED BY <2>1, <2>2, <2>3, <2>5, <2>9, <2>10
  <1>9. w[0] = s
    BY <1>4, <1>7
  <1>10. RunsOperand(w, K, v, s, fields)
    BY <1>8, <1>9 DEF RunsOperand
  <1>11. AllOperand(K, v, s, fields) = w[Len(fields)]
    BY <1>5, <1>10, EachOperand
  <1>12. IsSeq(OperandsTokens(i, index))
    BY <1>4, TokensSeq
  <1>13. NamesIn(P, fields) = Names(K.operands)
    BY <1>2, <1>3, AllNamed
  <1> QED BY <1>3, <1>7, <1>11, <1>12, <1>13

(* Without them the one group of variable length has what is left.         *)
GroupEmits(i, index) ==
    [f \in ToSet(Op(i).operands) |-> Tagged("operand", IndicesOf(i.operands[f.name], index))]

GroupsTokens(i, index) == Concat(LAMBDA f : OperandIndices(i.operands[f.name], index), Op(i).operands)

LEMMA GroupsEmitted ==
    ASSUME NEW i, NEW v, NEW r, NEW D, NEW K, Reads(i, v, r, D, K), NEW index,
           NEW e, e = GroupEmits(i, index)
    PROVE  /\ Emits(e, D.operands) /\ GroupsTokens(i, index) = Tokens(e, D.operands)
           /\ \A f \in ToSet(D.operands) : Len(e[f]) = Len(IndicesOf(i.operands[f.name], index))
           /\ \A f \in ToSet(D.operands) : f.form = "required" => Len(e[f]) = 1
  <1>1. D = Op(i)
    BY DEF Reads
  <1>2. \A f \in ToSet(D.operands) : e[f] = Tagged("operand", IndicesOf(i.operands[f.name], index))
    BY <1>1 DEF GroupEmits
  <1>3. IsSeq(D.operands)
    BY ReadsKnown
  <1>4. ASSUME NEW f \in ToSet(D.operands)
        PROVE  /\ IsSeq(e[f]) /\ Len(e[f]) = Len(IndicesOf(i.operands[f.name], index))
               /\ e[f] = OperandIndices(i.operands[f.name], index)
               /\ f.form = "required" => Len(e[f]) = 1
    <2>1. PICK ts : ts = IndicesOf(i.operands[f.name], index)
      OBVIOUS
    <2>2. GroupOf(i, f, index, ts)
      BY <2>1, OperandValues
    <2>3. e[f] = Tagged("operand", ts)
      BY <1>2, <2>1
    <2>4. IsSeq(ts)
      BY <2>2 DEF GroupOf
    <2>5. IsSeq(e[f]) /\ Len(e[f]) = Len(ts)
      BY <2>3, <2>4, TaggedFacts
    <2> QED BY <2>1, <2>2, <2>3, <2>5 DEF GroupOf
  <1>5. Emits(e, D.operands)
    BY <1>3, <1>4 DEF Emits
  <1>6. GroupsTokens(i, index) = Tokens(e, D.operands)
    <2>1. PICK fields : fields = D.operands
      OBVIOUS
    <2>2. PICK parts : parts = [n \in DOMAIN fields |-> OperandIndices(i.operands[fields[n].name], index)]
      OBVIOUS
    <2>3. GroupsTokens(i, index) = FlattenSeq(parts)
      BY <1>1, <2>1, <2>2, Zenon DEF Concat, GroupsTokens
    <2>4. parts = TokenLists(e, fields)
      <3>1. \A n \in DOMAIN fields : fields[n] \in ToSet(D.operands)
        BY <1>3, <2>1, SeqIs
      <3> QED BY <1>4, <2>1, <2>2, <3>1 DEF TokenLists
    <2> QED BY <2>1, <2>3, <2>4, Zenon DEF Tokens
  <1> QED BY <1>4, <1>5, <1>6

LEMMA UnsizedKnown ==
    ASSUME NEW i, NEW v, NEW r, NEW D, NEW K, Reads(i, v, r, D, K), ~Sized(D)
    PROVE  K.operands = D.operands
  <1>1. IsSeq(D.operands) /\ K.operands = Known(D.operands, r)
    BY ReadsKnown
  <1>2. PICK A : A = {f \in ToSet(D.operands) : f.since <= r}
    OBVIOUS
  <1>3. ToSet(D.operands) \subseteq A
    <2>1. ASSUME NEW f \in ToSet(D.operands) PROVE f \in A
      <3>1. ~Evolved(D, f)
        BY ReadsDecl DEF Sized
      <3> QED BY <1>2, <3>1, ReadsField DEF OpFields
    <2> QED BY <2>1
  <1>4. Kept(D.operands, A) = D.operands
    BY <1>1, <1>3, KeptAll
  <1> QED BY <1>1, <1>2, <1>4 DEF Known

(* How long each group is, given how long they are together.               *)
Lengths(i, index, left) ==
    \A f \in ToSet(Op(i).operands) :
        Len(IndicesOf(i.operands[f.name], index)) = IF f.form = "required" THEN 1 ELSE left

LEMMA LengthsAre ==
    ASSUME NEW i, NEW v, NEW r, NEW D, NEW K, Reads(i, v, r, D, K), ~Sized(D), NEW index,
           NEW left, left = IF VariableLength(D.operands)
                            THEN Len(GroupsTokens(i, index)) - Len(D.operands) + 1 ELSE 0
    PROVE  Lengths(i, index, left) /\ ~(left < 0)
  <1>1. PICK e : e = GroupEmits(i, index)
    OBVIOUS
  <1>2. PICK fields : fields = D.operands
    OBVIOUS
  <1>3. /\ Emits(e, fields) /\ GroupsTokens(i, index) = Tokens(e, fields)
        /\ \A f \in ToSet(fields) : Len(e[f]) = Len(IndicesOf(i.operands[f.name], index))
        /\ \A f \in ToSet(fields) : f.form = "required" => Len(e[f]) = 1
    BY <1>1, <1>2, GroupsEmitted
  <1>4. D = Op(i) /\ IsSeq(fields)
    BY <1>2, ReadsKnown DEF Reads
  <1>5. PICK N \in Nat : N = Len(fields)
    BY <1>4, SeqIs
  <1>6. DOMAIN fields = 1..N /\ \A n \in 1..N : fields[n] \in ToSet(fields)
    BY <1>4, <1>5, SeqIs
  <1>7. CASE ~VariableLength(D.operands)
    <2>1. \A f \in ToSet(fields) : f.form = "required"
      BY <1>2, <1>7 DEF VariableLength
    <2>2. left = 0
      BY <1>7
    <2>3. \A f \in ToSet(fields) : Len(IndicesOf(i.operands[f.name], index)) = 1
      BY <1>3, <2>1
    <2>4. Lengths(i, index, left)
      BY <1>2, <1>4, <2>1, <2>3 DEF Lengths
    <2>5. ~(0 < 0)
      OBVIOUS
    <2>6. ~(left < 0)
      BY <2>2, <2>5, Zenon
    <2> QED BY <2>4, <2>6, Zenon
  <1>8. CASE VariableLength(D.operands)
    <2>1. PICK g \in ToSet(fields) : g.form # "required"
      BY <1>2, <1>8 DEF VariableLength
    <2>2. ToSet(fields) = {fields[n] : n \in 1..N}
      BY <1>6 DEF ToSet
    <2>3. PICK m \in 1..N : fields[m] = g
      BY <2>1, <2>2
    <2>4. \A n \in 1..N : n # m => fields[n].form = "required"
      <3>1. \A n, k \in DOMAIN fields : fields[n].form # "required" /\ fields[k].form # "required" => n = k
        BY <1>2, ReadsDecl DEF Sized
      <3> QED BY <1>6, <2>1, <2>3, <3>1
    <2>5. \A n \in 1..N : n # m => Len(e[fields[n]]) = 1
      BY <1>3, <1>6, <2>4
    <2>6. Len(e[fields[m]]) = Len(Tokens(e, fields)) - Len(fields) + 1
      BY <1>3, <1>5, <2>5, TokensButOne
    <2>7. left = Len(e[g])
      BY <1>2, <1>3, <1>8, <2>3, <2>6
    <2>8. Len(e[g]) \in Nat
      <3>1. IsSeq(e[g])
        BY <1>3, <2>1 DEF Emits
      <3> QED BY <3>1, SeqIs
    <2>9. ASSUME NEW f \in ToSet(fields) PROVE Len(e[f]) = IF f.form = "required" THEN 1 ELSE left
      <3>1. CASE f.form = "required"
        BY <1>3, <3>1
      <3>2. CASE f.form # "required"
        <4>1. PICK n \in 1..N : fields[n] = f
          BY <2>2
        <4>2. n = m
          BY <2>4, <3>2, <4>1
        <4> QED BY <2>3, <2>7, <3>2, <4>1, <4>2
      <3> QED BY <3>1, <3>2
    <2>10. ~(left < 0)
      <3>1. PICK l \in Nat : l = Len(e[g])
        BY <2>8
      <3>2. left = l
        BY <2>7, <3>1, Zenon
      <3>3. ~(l < 0)
        OBVIOUS
      <3> QED BY <3>2, <3>3, Zenon
    <2> QED BY <1>2, <1>3, <1>4, <2>9, <2>10 DEF Lengths
  <1> QED BY <1>7, <1>8

LEMMA GroupsRead ==
    ASSUME NEW i, NEW v, NEW r, NEW D, NEW K, Reads(i, v, r, D, K), ~Sized(D), NEW index,
           NEW left, Lengths(i, index, left),
           NEW more, IsSeq(more), NEW C, NEW G, G = OpValues(i, v, index), NEW F,
           NEW s, s = St(GroupsTokens(i, index) \o more, F, Got(C, G))
    PROVE  /\ IsSeq(GroupsTokens(i, index))
           /\ AllGroup(left, s, K.operands) = St(more, F, Got(C \cup Names(K.operands), G))
  <1>1. PICK e : e = GroupEmits(i, index)
    OBVIOUS
  <1>2. PICK fields : fields = K.operands
    OBVIOUS
  <1>3. PICK P : P = ToSet(fields)
    OBVIOUS
  <1>4. fields = D.operands /\ D = Op(i)
    BY <1>2, UnsizedKnown DEF Reads
  <1>5. Emits(e, fields) /\ GroupsTokens(i, index) = Tokens(e, fields)
    BY <1>1, <1>4, GroupsEmitted
  <1>6. IsSeq(fields)
    BY <1>2, ReadsKnown
  <1>7. PICK w : Walks(w, fields, e, more, F, C, G, P)
    BY <1>5, WalkExists
  <1>8. /\ w[0] = St(Tokens(e, fields) \o more, F, Got(C, G))
        /\ w[Len(fields)] = St(more, F, Got(C \cup NamesIn(P, fields), G))
        /\ \A n \in 1..Len(fields) : Steps(w[n - 1], w[n], fields[n], e, F, C, G, P)
    BY <1>7 DEF Walks
  <1>9. ASSUME NEW n \in 1..Len(fields)
        PROVE  ReadGroup(w[n - 1], fields[n], IF fields[n].form = "required" THEN 1 ELSE left) = w[n]
    <2>1. PICK f \in ToSet(fields) : f = fields[n]
      BY <1>6, SeqIs
    <2>2. PICK a : a = w[n - 1]
      OBVIOUS
    <2>3. PICK b : b = w[n]
      OBVIOUS
    <2>4. Steps(a, b, f, e, F, C, G, P)
      BY <1>8, <2>1, <2>2, <2>3
    <2>5. PICK rest, B : /\ IsSeq(rest)
                         /\ a = St(e[f] \o rest, F, Got(B, G))
                         /\ b = St(rest, F, Got(IF f \in P THEN B \cup {f.name} ELSE B, G))
      BY <2>4, Zenon DEF Steps
    <2>6. PICK ts : ts = IndicesOf(i.operands[f.name], index)
      OBVIOUS
    <2>7. f \in ToSet(D.operands)
      BY <1>4
    <2>8. IsSeq(ts)
      <3>1. GroupOf(i, f, index, ts)
        BY <2>6, <2>7, OperandValues
      <3> QED BY <3>1 DEF GroupOf
    <2>9. e[f] = Tagged("operand", ts)
      BY <1>1, <1>4, <2>6, <2>7 DEF GroupEmits
    <2>10. a = St(Tagged("operand", ts) \o rest, F, Got(B, G))
      BY <2>5, <2>9
    <2>11. G[f.name] = ts
      BY <2>6, <2>7, OpValuesAre
    <2>12. ReadGroup(a, f, Len(ts)) = St(rest, F, Got(B \cup {f.name}, G))
      BY <2>5, <2>8, <2>10, <2>11, GroupRead
    <2>13. Len(ts) = IF f.form = "required" THEN 1 ELSE left
      BY <1>4, <2>6, <2>7 DEF Lengths
    <2>14. f \in P
      BY <1>3
    <2>15. b = St(rest, F, Got(B \cup {f.name}, G))
      BY <2>5, <2>14
    <2> QED BY <2>1, <2>2, <2>3, <2>12, <2>13, <2>15
  <1>10. w[0] = s
    BY <1>5, <1>8
  <1>11. RunsGroup(w, left, s, fields)
    BY <1>9, <1>10 DEF RunsGroup
  <1>12. AllGroup(left, s, fields) = w[Len(fields)]
    BY <1>6, <1>11, EachGroup
  <1>13. IsSeq(GroupsTokens(i, index))
    BY <1>5, TokensSeq
  <1>14. NamesIn(P, fields) = Names(K.operands)
    BY <1>2, <1>3, AllNamed
  <1> QED BY <1>2, <1>8, <1>12, <1>13, <1>14

LeftFor(d, s) == IF VariableLength(d.operands) THEN CountOf(s) - Len(d.operands) + 1 ELSE 0

GroupsFrom(d, s) == AllGroup(LeftFor(d, s), IF VariableLength(d.operands) THEN ReadCount(s) ELSE s, d.operands)

LEMMA AllOperandsRead ==
    ASSUME NEW i, NEW v, NEW r, NEW D, NEW K, Reads(i, v, r, D, K), NEW index,
           NEW more, IsSeq(more), NEW C, NEW G, G = OpValues(i, v, index), NEW F, F = OpFlags(i, v),
           NEW s, s = St(AllOperandTokens(i, index) \o more, F, Got(C, G))
    PROVE  /\ IsSeq(AllOperandTokens(i, index))
           /\ ReadAllOperands(K, v, s) = St(more, F, Got(C \cup Names(K.operands), G))
  <1>1. D = Op(i) /\ D.sized \in BOOLEAN
    BY ReadsDecl DEF Reads
  <1>2. K.sized = D.sized
    BY ReadsKnown
  <1>3. CASE Sized(D)
    <2>1. AllOperandTokens(i, index) = OperandsTokens(i, index)
      BY <1>1, <1>3, Zenon DEF AllOperandTokens, OperandsTokens, Sized
    <2>2. s = St(OperandsTokens(i, index) \o more, F, Got(C, G))
      BY <2>1
    <2>3. IsSeq(OperandsTokens(i, index))
      BY <1>3, <2>2, SizedRead
    <2>4. AllOperand(K, v, s, K.operands) = St(more, F, Got(C \cup Names(K.operands), G))
      BY <1>3, <2>2, SizedRead
    <2>5. K.sized
      BY <1>2, <1>3 DEF Sized
    <2>6. ReadAllOperands(K, v, s) = AllOperand(K, v, s, K.operands)
      BY <2>5, Zenon DEF ReadAllOperands, AllOperand
    <2> QED BY <2>1, <2>3, <2>4, <2>6
  <1>4. CASE ~Sized(D)
    <2>1. PICK all : all = GroupsTokens(i, index)
      OBVIOUS
    <2>2. PICK N : N = Len(all)
      OBVIOUS
    <2>3. PICK left : left = IF VariableLength(D.operands) THEN N - Len(D.operands) + 1 ELSE 0
      OBVIOUS
    <2>4. Lengths(i, index, left) /\ ~(left < 0)
      BY <1>4, <2>1, <2>2, <2>3, LengthsAre
    <2>5. ASSUME NEW q, q = St(all \o more, F, Got(C, G))
          PROVE  IsSeq(all) /\ AllGroup(left, q, K.operands) = St(more, F, Got(C \cup Names(K.operands), G))
      <3>1. q = St(GroupsTokens(i, index) \o more, F, Got(C, G))
        BY <2>1, <2>5
      <3>2. IsSeq(GroupsTokens(i, index))
        BY <1>4, <2>4, <3>1, GroupsRead
      <3>3. AllGroup(left, q, K.operands) = St(more, F, Got(C \cup Names(K.operands), G))
        BY <1>4, <2>4, <3>1, GroupsRead
      <3> QED BY <2>1, <3>2, <3>3
    <2>6. IsSeq(all)
      BY <2>5
    <2>7. ~K.sized
      BY <1>2, <1>4 DEF Sized
    <2>12. ~(LeftFor(K, s) < 0) => ReadAllOperands(K, v, s) = GroupsFrom(K, s)
      BY <2>7, Zenon DEF ReadAllOperands, AllGroup, GroupsFrom, LeftFor
    <2>8. VariableLength(K.operands) <=> VariableLength(D.operands)
      BY ReadsVariadic
    <2>9. Len(K.operands) = Len(D.operands)
      BY <1>4, UnsizedKnown
    <2>10. CASE VariableLength(D.operands)
      <3>1. PICK k : k = Token("count", N)
        OBVIOUS
      <3>2. AllOperandTokens(i, index) = <<k>> \o all
        BY <1>1, <1>4, <2>1, <2>2, <2>10, <3>1, Zenon DEF AllOperandTokens, GroupsTokens, Sized
      <3>3. PICK rest : rest = all \o more
        OBVIOUS
      <3>4. IsSeq(rest)
        BY <2>6, <3>3, JoinFacts
      <3>5. (<<k>> \o all) \o more = <<k>> \o rest
        <4>1. PICK one : one = <<k>>
          OBVIOUS
        <4>2. IsSeq(one)
          BY <4>1, TokenSeq
        <4>3. (one \o all) \o more = one \o (all \o more)
          BY <2>6, <4>2, JoinAssociative
        <4> QED BY <3>3, <4>1, <4>3
      <3>6. s = St(<<Token("count", N)>> \o rest, F, Got(C, G))
        BY <3>1, <3>2, <3>5
      <3>7. ReadCount(s) = St(rest, F, Got(C, G)) /\ CountOf(s) = N
        BY <3>4, <3>6, CountRead
      <3>8. PICK q : q = ReadCount(s)
        OBVIOUS
      <3>9. q = St(all \o more, F, Got(C, G))
        BY <3>3, <3>7, <3>8
      <3>10. AllGroup(left, q, K.operands) = St(more, F, Got(C \cup Names(K.operands), G))
        BY <2>5, <3>9
      <3>11. left = CountOf(s) - Len(K.operands) + 1
        BY <2>3, <2>9, <2>10, <3>7
      <3>12. VariableLength(K.operands)
        BY <2>8, <2>10
      <3>13. ReadAllOperands(K, v, s) = AllGroup(left, q, K.operands)
        <4>1. LeftFor(K, s) = left
          BY <3>11, <3>12, Zenon DEF LeftFor
        <4>2. ReadAllOperands(K, v, s) = GroupsFrom(K, s)
          BY <2>4, <2>12, <4>1, Zenon
        <4> QED BY <3>8, <3>12, <4>1, <4>2, Zenon DEF GroupsFrom
      <3>14. IsSeq(<<k>> \o all)
        <4>1. PICK one : one = <<k>>
          OBVIOUS
        <4>2. IsSeq(one)
          BY <4>1, TokenSeq
        <4> QED BY <2>6, <4>1, <4>2, JoinFacts
      <3> QED BY <3>2, <3>10, <3>13, <3>14
    <2>11. CASE ~VariableLength(D.operands)
      <3>1. AllOperandTokens(i, index) = <<>> \o all
        BY <1>1, <1>4, <2>1, <2>11, Zenon DEF AllOperandTokens, GroupsTokens, Sized
      <3>2. <<>> \o all = all
        BY <2>6, JoinFacts
      <3>3. s = St(all \o more, F, Got(C, G))
        BY <3>1, <3>2
      <3>4. AllGroup(left, s, K.operands) = St(more, F, Got(C \cup Names(K.operands), G))
        BY <2>5, <3>3
      <3>5. left = 0
        BY <2>3, <2>11
      <3>6. ~VariableLength(K.operands)
        BY <2>8, <2>11
      <3>7. ReadAllOperands(K, v, s) = AllGroup(left, s, K.operands)
        <4>1. LeftFor(K, s) = left
          BY <3>5, <3>6, Zenon DEF LeftFor
        <4>2. ReadAllOperands(K, v, s) = GroupsFrom(K, s)
          BY <2>4, <2>12, <4>1, Zenon
        <4> QED BY <3>6, <4>1, <4>2, Zenon DEF GroupsFrom
      <3> QED BY <2>6, <3>1, <3>2, <3>4, <3>7
    <2> QED BY <2>10, <2>11
  <1> QED BY <1>3, <1>4

Late(i, v) == {f \in ToSet(Op(i).attributes) : f.fallback = "rank" /\ v < f.since}

LEMMA FixupRead ==
    ASSUME NEW i, NEW v, NEW r, NEW D, NEW K, Reads(i, v, r, D, K), NEW index,
           NEW f \in ToSet(K.attributes), NEW rest, NEW C, Names(K.operands) \subseteq C,
           NEW G, G = OpValues(i, v, index), NEW F, NEW s, s = St(rest, F, Got(C, G))
    PROVE  RankFixup(v, s, f) = St(rest, F, Got(AfterField(Late(i, v), f, C), G))
  <1>0. Keep(s, f, G[f.name]) = St(rest, F, Got(C \cup {f.name}, G))
    BY KeepIs
  <1>1. f \in ToSet(D.attributes) /\ D = Op(i)
    BY ReadsKnown DEF Reads
  <1>2. f \in Late(i, v) <=> f.fallback = "rank" /\ v < f.since
    BY <1>1 DEF Late
  <1>3. v \in Nat /\ f.since \in Nat
    BY <1>1, ReadsVersions, ReadsField DEF OpFields
  <1>4. CASE f \notin Late(i, v)
    <2>1. f.fallback # "rank" \/ v >= f.since
      BY <1>2, <1>3, <1>4
    <2>2. RankFixup(v, s, f) = s
      BY <2>1 DEF RankFixup
    <2> QED BY <1>4, <2>2 DEF AfterField
  <1>5. CASE f \in Late(i, v)
    <2>1. f.fallback = "rank" /\ v < f.since /\ ~(v >= f.since)
      BY <1>2, <1>3, <1>5
    <2>2. RankAccepted(D, f) /\ (f.form # "required" => f.fallback = "none")
      BY <1>1, ReadsDecl
    <2>3. f.form = "required"
      BY <2>1, <2>2
    <2>4. f.name \in DOMAIN i.attributes
      BY <1>1, <2>3, AttributeIs
    <2>5. i.attributes[f.name] = FallbackValue
      BY <1>1, <2>1, <2>4, ReadsLater
    <2>6. G[f.name] = FallbackValue
      BY <1>1, <2>5, OpValuesAre
    <2>7. PICK g \in ToSet(D.operands) : g.name = f.of /\ g.form = "variadic" /\ Sized(D)
      BY <2>1, <2>2 DEF RankAccepted, Sized
    <2>8. ~Evolved(D, g)
      <3>1. OperandAccepted(D, g)
        BY ReadsDecl
      <3> QED BY <2>7, <3>1 DEF OperandAccepted, Sized
    <2>9. g \in ToSet(K.operands)
      <3>1. g.since <= r
        BY <2>8, ReadsField DEF OpFields
      <3> QED BY <3>1, ReadsKnown
    <2>10. f.of \in C
      BY <2>7, <2>9 DEF Names
    <2>11. s.got = Got(C, G)
      BY StFields
    <2>12. f.of \in DOMAIN s.got
      BY <2>10, <2>11 DEF Got
    <2>13. RankFixup(v, s, f) = Keep(s, f, FallbackValue)
      BY <2>1, <2>12 DEF RankFixup
    <2> QED BY <1>0, <1>5, <2>6, <2>13 DEF AfterField
  <1> QED BY <1>4, <1>5

LEMMA FixupsRead ==
    ASSUME NEW i, NEW v, NEW r, NEW D, NEW K, Reads(i, v, r, D, K), NEW index,
           NEW more, IsSeq(more), NEW C, Names(K.operands) \subseteq C,
           NEW G, G = OpValues(i, v, index), NEW F, NEW s, s = St(more, F, Got(C, G))
    PROVE  RankFixups(K, v, s) = St(more, F, Got(C \cup NamesIn(Late(i, v), K.attributes), G))
  <1>1. PICK P : P = Late(i, v)
    OBVIOUS
  <1>2. PICK fields : fields = K.attributes
    OBVIOUS
  <1>3. PICK e : e = NoTokens(fields)
    OBVIOUS
  <1>4. IsSeq(fields)
    BY <1>2, ReadsKnown
  <1>5. Emits(e, fields) /\ Tokens(e, fields) = <<>>
    BY <1>3, <1>4, NothingEmitted
  <1>6. PICK w : Walks(w, fields, e, more, F, C, G, P)
    BY <1>5, WalkExists
  <1>7. /\ w[0] = St(Tokens(e, fields) \o more, F, Got(C, G))
        /\ w[Len(fields)] = St(more, F, Got(C \cup NamesIn(P, fields), G))
        /\ \A n \in 1..Len(fields) : Steps(w[n - 1], w[n], fields[n], e, F, C, G, P)
    BY <1>6 DEF Walks
  <1>8. ASSUME NEW n \in 1..Len(fields) PROVE RankFixup(v, w[n - 1], fields[n]) = w[n]
    <2>1. PICK f \in ToSet(fields) : f = fields[n]
      BY <1>4, SeqIs
    <2>2. PICK a : a = w[n - 1]
      OBVIOUS
    <2>3. PICK b : b = w[n]
      OBVIOUS
    <2>4. Steps(a, b, f, e, F, C, G, P)
      BY <1>7, <2>1, <2>2, <2>3
    <2>5. PICK rest, B : /\ IsSeq(rest) /\ C \subseteq B
                         /\ a = St(e[f] \o rest, F, Got(B, G))
                         /\ b = St(rest, F, Got(IF f \in P THEN B \cup {f.name} ELSE B, G))
      BY <2>4, Zenon DEF Steps
    <2>6. e[f] \o rest = rest
      <3>1. e[f] = <<>>
        BY <1>3 DEF NoTokens
      <3>2. <<>> \o rest = rest
        BY <2>5, JoinFacts
      <3> QED BY <3>1, <3>2
    <2>7. a = St(rest, F, Got(B, G))
      BY <2>5, <2>6
    <2>8. f \in ToSet(K.attributes) /\ Names(K.operands) \subseteq B
      BY <1>2, <2>5
    <2>9. RankFixup(v, a, f) = St(rest, F, Got(AfterField(Late(i, v), f, B), G))
      BY <2>7, <2>8, FixupRead
    <2> QED BY <1>1, <2>1, <2>2, <2>3, <2>5, <2>9 DEF AfterField
  <1>9. w[0] = s
    <2>1. <<>> \o more = more
      BY JoinFacts
    <2> QED BY <1>5, <1>7, <2>1
  <1>10. RunsFixup(w, v, s, fields)
    BY <1>8, <1>9 DEF RunsFixup
  <1>11. AllFixup(v, s, fields) = w[Len(fields)]
    BY <1>4, <1>10, EachFixup
  <1>12. RankFixups(K, v, s) = AllFixup(v, s, fields)
    BY <1>2, Zenon DEF RankFixups, AllFixup
  <1> QED BY <1>1, <1>2, <1>7, <1>11, <1>12

RegionNames(d) == IF d.regions = 0 THEN {} ELSE {"arguments"}

LEMMA RegionsRead ==
    ASSUME NEW i, NEW v, NEW r, NEW D, NEW K, Reads(i, v, r, D, K),
           NEW C, NEW G, G["arguments"] = i.arguments, NEW F,
           NEW s, s = St(RegionTokens(i), F, Got(C, G))
    PROVE  ReadRegions(K, s) = St(<<>>, F, Got(C \cup RegionNames(D), G))
  <1>1. D = Op(i) /\ OperationIs(i) /\ K.regions = D.regions
    BY ReadsKnown DEF Reads
  <1>2. CASE D.regions = 0
    <2>1. RegionTokens(i) = <<>> /\ ReadRegions(K, s) = s
      BY <1>1, <1>2 DEF RegionTokens, ReadRegions
    <2>2. C \cup RegionNames(D) = C
      BY <1>2 DEF RegionNames
    <2> QED BY <2>1, <2>2
  <1>3. CASE D.regions # 0
    <2>1. PICK ts : ts = i.arguments
      OBVIOUS
    <2>2. IsSeq(ts)
      BY <1>1, <2>1 DEF OperationIs, IsSeq
    <2>3. PICK toks : toks = Tagged("type", ts)
      OBVIOUS
    <2>4. IsSeq(toks) /\ TypeIndices(ts) = toks
      <3>1. IsSeq(toks)
        BY <2>2, <2>3, TaggedFacts
      <3>2. TypeIndices(ts) = toks
        BY <2>3 DEF TypeIndices, Tagged
      <3> QED BY <3>1, <3>2
    <2>5. PICK N : N = Len(ts)
      OBVIOUS
    <2>6. PICK k : k = Token("block", N)
      OBVIOUS
    <2>7. PICK g : g = Token("regions", D.regions)
      OBVIOUS
    <2>8. PICK rest : rest = <<k>> \o toks
      OBVIOUS
    <2>9. IsSeq(rest)
      <3>1. PICK one : one = <<k>>
        OBVIOUS
      <3>2. IsSeq(one)
        BY <3>1, TokenSeq
      <3> QED BY <2>4, <2>8, <3>1, <3>2, JoinFacts
    <2>10. RegionTokens(i) = <<g>> \o rest
      <3>1. PICK a : a = <<g>>
        OBVIOUS
      <3>2. PICK b : b = <<k>>
        OBVIOUS
      <3>3. IsSeq(a) /\ IsSeq(b)
        BY <3>1, <3>2, TokenSeq
      <3>4. (a \o b) \o toks = a \o (b \o toks)
        BY <2>4, <3>3, JoinAssociative
      <3>5. RegionTokens(i) = (a \o b) \o toks
        BY <1>1, <1>3, <2>1, <2>4, <2>5, <2>6, <2>7, <3>1, <3>2 DEF RegionTokens
      <3> QED BY <2>8, <3>1, <3>2, <3>4, <3>5
    <2>11. s = St(<<Token("regions", D.regions)>> \o rest, F, Got(C, G))
      BY <2>7, <2>10
    <2>12. Sees(s, "regions") /\ Head(s.rest).of = D.regions /\ Past(s) = St(rest, F, Got(C, G))
      BY <2>9, <2>11, SeesIs
    <2>13. PICK block : block = Past(s)
      OBVIOUS
    <2>14. block = St(<<Token("block", N)>> \o toks, F, Got(C, G))
      BY <2>6, <2>8, <2>12, <2>13
    <2>15. Sees(block, "block") /\ Head(block.rest).of = N /\ Past(block) = St(toks, F, Got(C, G))
      BY <2>4, <2>14, SeesIs
    <2>16. PICK left : left = Past(block)
      OBVIOUS
    <2>17. left = St(Tagged("type", ts) \o <<>>, F, Got(C, G))
      <3>1. toks \o <<>> = toks
        BY <2>4, TokenSeq, JoinFacts
      <3> QED BY <2>3, <2>15, <2>16, <3>1
    <2>18. PICK none : none = <<>> /\ IsSeq(none)
      BY TokenSeq
    <2>19. left = St(Tagged("type", ts) \o none, F, Got(C, G))
      BY <2>17, <2>18
    <2>20. ReadTokens(left, "type", Len(ts)) = St(none, F, Got(C, G)) /\ TokensOf(left, Len(ts)) = ts
      <3>1. IsSeq(none)
        BY <2>18
      <3>2. PICK got : got = Got(C, G)
        OBVIOUS
      <3>3. left = St(Tagged("type", ts) \o none, F, got)
        BY <2>19, <3>2
      <3>4. ReadTokens(left, "type", Len(ts)) = St(none, F, got) /\ TokensOf(left, Len(ts)) = ts
        BY <2>2, <3>1, <3>3, TaggedRead
      <3> QED BY <3>2, <3>4
    <2>21. PICK end : end = ReadTokens(left, "type", N)
      OBVIOUS
    <2>22. end = St(none, F, Got(C, G)) /\ TokensOf(left, N) = ts
      BY <2>5, <2>20, <2>21
    <2>23. end.ok
      BY <2>22, StFields
    <2>24. PICK name : name = [name |-> "arguments"]
      OBVIOUS
    <2>25. name.name = "arguments"
      BY <2>24
    <2>26. Keep(end, name, G[name.name]) = St(none, F, Got(C \cup {name.name}, G))
      BY <2>22, KeepIs
    <2>27. ReadRegions(K, s) = Keep(end, name, ts)
      BY <1>1, <1>3, <2>12, <2>13, <2>15, <2>16, <2>21, <2>22, <2>23, <2>24, Zenon DEF ReadRegions
    <2>28. C \cup {name.name} = C \cup RegionNames(D)
      BY <1>3, <2>25 DEF RegionNames
    <2> QED BY <2>1, <2>18, <2>25, <2>26, <2>27, <2>28
  <1> QED BY <1>2, <1>3

LEMMA RegionTokensSeq ==
    ASSUME NEW i, OperationIs(i)
    PROVE  IsSeq(RegionTokens(i))
  <1>1. PICK ts : ts = i.arguments
    OBVIOUS
  <1>2. IsSeq(ts)
    BY <1>1 DEF OperationIs, IsSeq
  <1>3. PICK toks : toks = Tagged("type", ts)
    OBVIOUS
  <1>4. IsSeq(toks) /\ TypeIndices(ts) = toks
    <2>1. IsSeq(toks)
      BY <1>2, <1>3, TaggedFacts
    <2>2. TypeIndices(ts) = toks
      BY <1>3 DEF TypeIndices, Tagged
    <2> QED BY <2>1, <2>2
  <1>5. PICK a : a = <<Token("regions", Op(i).regions)>>
    OBVIOUS
  <1>6. PICK b : b = <<Token("block", Len(ts))>>
    OBVIOUS
  <1>7. IsSeq(a) /\ IsSeq(b)
    BY <1>5, <1>6, TokenSeq
  <1>8. RegionTokens(i) = <<>> \/ RegionTokens(i) = (a \o b) \o toks
    BY <1>1, <1>4, <1>5, <1>6 DEF RegionTokens
  <1>9. IsSeq(a \o b)
    BY <1>7, JoinFacts
  <1>10. IsSeq((a \o b) \o toks)
    <2>1. PICK c : c = a \o b
      OBVIOUS
    <2>2. IsSeq(c \o toks)
      BY <1>4, <1>9, <2>1, JoinFacts
    <2> QED BY <2>1, <2>2
  <1> QED BY <1>8, <1>10, TokenSeq

(* The parts of an operation's tokens.                                     *)
LEMMA PartsAreSeqs ==
    ASSUME NEW i, NEW v, NEW r, NEW D, NEW K, Reads(i, v, r, D, K), NEW index
    PROVE  /\ IsSeq(ResultTokens(i, v)) /\ IsSeq(FlagTokens(i, v)) /\ IsSeq(AttributesTokens(i, v))
           /\ IsSeq(AllOperandTokens(i, index)) /\ IsSeq(RegionTokens(i))
  <1>0. PICK e : e = <<>> /\ IsSeq(e)
    BY TokenSeq
  <1>1. PICK G : G = OpValues(i, v, index)
    OBVIOUS
  <1>2. G["results"] = ResultsWritten(i, v)
    BY <1>1, OpValuesAre
  <1>3. PICK F : F = OpFlags(i, v)
    OBVIOUS
  <1>4. IsSeq(ResultTokens(i, v))
    <2>1. PICK s : s = St(ResultTokens(i, v) \o e, {}, Got({}, G))
      OBVIOUS
    <2> QED BY <1>0, <1>2, <2>1, ResultsRead
  <1>5. IsSeq(FlagTokens(i, v))
    <2>1. PICK s : s = St(FlagTokens(i, v) \o e, {}, Got({}, G))
      OBVIOUS
    <2> QED BY <1>0, <2>1, OpFlagsRead
  <1>6. IsSeq(AttributesTokens(i, v))
    <2>1. PICK s : s = St(AttributesTokens(i, v) \o e, F, Got({}, G))
      OBVIOUS
    <2> QED BY <1>0, <1>1, <1>3, <2>1, AttributesRead
  <1>7. IsSeq(AllOperandTokens(i, index))
    <2>1. PICK s : s = St(AllOperandTokens(i, index) \o e, F, Got({}, G))
      OBVIOUS
    <2> QED BY <1>0, <1>1, <1>3, <2>1, AllOperandsRead
  <1>8. IsSeq(RegionTokens(i))
    BY RegionTokensSeq DEF Reads
  <1> QED BY <1>4, <1>5, <1>6, <1>7, <1>8

AfterFlags(i, v, index) ==
    Joined(AttributesTokens(i, v), Joined(AllOperandTokens(i, index), RegionTokens(i)))

AfterOpcode(i, v, index) ==
    Joined(ResultTokens(i, v), Joined(FlagTokens(i, v), AfterFlags(i, v, index)))

LEMMA OpTokensAre ==
    ASSUME NEW i, NEW v, NEW r, NEW D, NEW K, Reads(i, v, r, D, K), NEW index
    PROVE  /\ IsSeq(AfterOpcode(i, v, index))
           /\ IsSeq(Joined(FlagTokens(i, v), AfterFlags(i, v, index)))
           /\ IsSeq(AfterFlags(i, v, index))
           /\ IsSeq(Joined(AllOperandTokens(i, index), RegionTokens(i)))
           /\ OpTokens(i, v, index) = Joined(<<Token("opcode", D.opcode)>>, AfterOpcode(i, v, index))
  <1>1. PICK o : o = <<Token("opcode", D.opcode)>>
    OBVIOUS
  <1>2. PICK a : a = ResultTokens(i, v)
    OBVIOUS
  <1>3. PICK b : b = FlagTokens(i, v)
    OBVIOUS
  <1>4. PICK c : c = AttributesTokens(i, v)
    OBVIOUS
  <1>5. PICK d : d = AllOperandTokens(i, index)
    OBVIOUS
  <1>6. PICK e : e = RegionTokens(i)
    OBVIOUS
  <1>7. IsSeq(o) /\ IsSeq(a) /\ IsSeq(b) /\ IsSeq(c) /\ IsSeq(d) /\ IsSeq(e)
    BY <1>1, <1>2, <1>3, <1>4, <1>5, <1>6, PartsAreSeqs, TokenSeq
  <1>8. D = Op(i)
    BY DEF Reads
  <1>9. OpTokens(i, v, index) = ((((o \o a) \o b) \o c) \o d) \o e
    BY <1>1, <1>2, <1>3, <1>4, <1>5, <1>6, <1>8, Zenon DEF OpTokens, AttributesTokens
  <1>10. OpTokens(i, v, index) = Joined(Joined(Joined(Joined(Joined(o, a), b), c), d), e)
    BY <1>9, Zenon DEF Joined
  <1>11. OpTokens(i, v, index) = Joined(o, Joined(a, Joined(b, Joined(c, Joined(d, e)))))
    BY <1>7, <1>10, JoinSix
  <1>12. IsSeq(Joined(d, e))
    BY <1>7, JoinedSeq
  <1>13. IsSeq(Joined(c, Joined(d, e)))
    BY <1>7, <1>12, JoinedSeq
  <1>14. IsSeq(Joined(b, Joined(c, Joined(d, e))))
    BY <1>7, <1>13, JoinedSeq
  <1>15. IsSeq(Joined(a, Joined(b, Joined(c, Joined(d, e)))))
    BY <1>7, <1>14, JoinedSeq
  <1> QED BY <1>1, <1>2, <1>3, <1>4, <1>5, <1>6, <1>11, <1>12, <1>13, <1>14, <1>15 DEF AfterFlags, AfterOpcode

LEMMA OneRead ==
    ASSUME NEW tag, NEW of, NEW more, IsSeq(more), NEW flags, NEW got,
           NEW s, s = St(<<Token(tag, of)>> \o more, flags, got)
    PROVE  ReadTokens(s, tag, 1) = St(more, flags, got)
  <1>1. PICK ts : ts = <<of>>
    OBVIOUS
  <1>2. IsSeq(ts) /\ Len(ts) = 1
    <2>1. ts \in Seq({of}) /\ Len(ts) = 1
      BY <1>1
    <2> QED BY <2>1 DEF IsSeq
  <1>3. Tagged(tag, ts) = <<Token(tag, of)>>
    BY <1>1 DEF Tagged
  <1>4. PICK n : n = Len(ts)
    OBVIOUS
  <1>5. ReadTokens(s, tag, n) = St(more, flags, got)
    <2>1. s = St(Tagged(tag, ts) \o more, flags, got)
      BY <1>3
    <2>2. IsSeq(ts)
      BY <1>2
    <2>3. ReadTokens(s, tag, Len(ts)) = St(more, flags, got) /\ TokensOf(s, Len(ts)) = ts
      BY <2>1, <2>2, TaggedRead
    <2> QED BY <1>4, <2>3
  <1> QED BY <1>2, <1>4, <1>5

(* An operation that was not refused is read, whatever release reads it,   *)
(* and what is found in it are the values that were written.               *)
OpGot(i, v, K) ==
    (((({} \cup {"results"}) \cup NamesIn(Early(i, v), K.attributes)) \cup Names(K.operands))
        \cup NamesIn(Late(i, v), K.attributes)) \cup RegionNames(Op(i))

LEMMA OpRead ==
    ASSUME NEW i, NEW v, NEW r, NEW D, NEW K, Reads(i, v, r, D, K), NEW index,
           NEW tokens, tokens = OpTokens(i, v, index),
           NEW G, G = OpValues(i, v, index), NEW parsed, parsed = ReadOp(K, r, tokens, v)
    PROVE  /\ parsed.ok /\ parsed.got = Got(OpGot(i, v, K), G)
           /\ Head(tokens).of = D.opcode
  <1>1. PICK e : e = RegionTokens(i) /\ IsSeq(e)
    BY PartsAreSeqs
  <1>2. PICK m4 : m4 = Joined(AllOperandTokens(i, index), e) /\ IsSeq(m4)
    BY <1>1, OpTokensAre
  <1>3. PICK m3 : m3 = Joined(AttributesTokens(i, v), m4) /\ m3 = AfterFlags(i, v, index) /\ IsSeq(m3)
    BY <1>1, <1>2, OpTokensAre DEF AfterFlags
  <1>4. PICK m2 : m2 = Joined(FlagTokens(i, v), m3) /\ IsSeq(m2)
    BY <1>3, OpTokensAre
  <1>5. PICK m1 : m1 = Joined(ResultTokens(i, v), m2) /\ m1 = AfterOpcode(i, v, index) /\ IsSeq(m1)
    BY <1>3, <1>4, OpTokensAre DEF AfterOpcode
  <1>6. PICK F : F = OpFlags(i, v)
    OBVIOUS
  <1>7. PICK k : k = Token("opcode", D.opcode)
    OBVIOUS
  <1>8. tokens = Joined(<<k>>, m1)
    BY <1>5, <1>7, OpTokensAre
  <1>9. Head(tokens).of = D.opcode
    <2>1. Head(tokens) = k
      BY <1>5, <1>8, ConsFacts DEF Joined
    <2> QED BY <1>7, <2>1, TokenIs
  <1>10. PICK s0 : s0 = Start(tokens)
    OBVIOUS
  <1>11. s0 = St(tokens, {}, Got({}, G))
    BY <1>10, NothingGot, Zenon DEF Start, St
  <1>12. PICK s1 : s1 = ReadTokens(s0, "opcode", 1)
    OBVIOUS
  <1>13. s1 = St(m1, {}, Got({}, G))
    <2>1. PICK got : got = Got({}, G)
      OBVIOUS
    <2>2. s0 = St(<<Token("opcode", D.opcode)>> \o m1, {}, got)
      BY <1>7, <1>8, <1>11, <2>1 DEF Joined
    <2>3. ReadTokens(s0, "opcode", 1) = St(m1, {}, got)
      BY <1>5, <2>2, OneRead
    <2> QED BY <1>12, <2>1, <2>3
  <1>14. PICK s2 : s2 = ReadResults(K, v, s1)
    OBVIOUS
  <1>15. s2 = St(m2, {}, Got({} \cup {"results"}, G))
    <2>1. s1 = St(ResultTokens(i, v) \o m2, {}, Got({}, G))
      BY <1>5, <1>13 DEF Joined
    <2>2. G["results"] = ResultsWritten(i, v)
      BY OpValuesAre
    <2> QED BY <1>4, <1>14, <2>1, <2>2, ResultsRead
  <1>16. PICK C1 : C1 = {} \cup {"results"}
    OBVIOUS
  <1>17. PICK s3 : s3 = ReadOpFlags(K, v, s2)
    OBVIOUS
  <1>18. s3 = St(m3, F, Got(C1, G))
    <2>1. PICK got : got = Got(C1, G)
      OBVIOUS
    <2>2. s2 = St(FlagTokens(i, v) \o m3, {}, got)
      BY <1>4, <1>15, <1>16, <2>1 DEF Joined
    <2>3. ReadOpFlags(K, v, s2) = St(m3, OpFlags(i, v), got)
      BY <1>3, <2>2, OpFlagsRead
    <2> QED BY <1>6, <1>17, <2>1, <2>3
  <1>19. PICK s4 : s4 = AllAttribute(K, r, v, s3, K.attributes)
    OBVIOUS
  <1>20. PICK C2 : C2 = C1 \cup NamesIn(Early(i, v), K.attributes)
    OBVIOUS
  <1>21. s4 = St(m4, F, Got(C2, G))
    <2>1. s3 = St(AttributesTokens(i, v) \o m4, F, Got(C1, G))
      BY <1>3, <1>18 DEF Joined
    <2>2. AllAttribute(K, r, v, s3, K.attributes)
            = St(m4, F, Got(C1 \cup NamesIn(Early(i, v), K.attributes), G))
      BY <1>2, <1>6, <2>1, AttributesRead
    <2> QED BY <1>19, <1>20, <2>2
  <1>22. PICK s5 : s5 = ReadAllOperands(K, v, s4)
    OBVIOUS
  <1>23. PICK C3 : C3 = C2 \cup Names(K.operands)
    OBVIOUS
  <1>24. s5 = St(e, F, Got(C3, G))
    <2>1. s4 = St(AllOperandTokens(i, index) \o e, F, Got(C2, G))
      BY <1>2, <1>21 DEF Joined
    <2>2. ReadAllOperands(K, v, s4) = St(e, F, Got(C2 \cup Names(K.operands), G))
      BY <1>1, <1>6, <2>1, AllOperandsRead
    <2> QED BY <1>22, <1>23, <2>2
  <1>25. PICK s6 : s6 = RankFixups(K, v, s5)
    OBVIOUS
  <1>26. PICK C4 : C4 = C3 \cup NamesIn(Late(i, v), K.attributes)
    OBVIOUS
  <1>27. s6 = St(e, F, Got(C4, G))
    <2>1. Names(K.operands) \subseteq C3
      BY <1>23
    <2>2. RankFixups(K, v, s5) = St(e, F, Got(C3 \cup NamesIn(Late(i, v), K.attributes), G))
      BY <1>1, <1>24, <2>1, FixupsRead
    <2> QED BY <1>25, <1>26, <2>2
  <1>28. PICK s7 : s7 = ReadRegions(K, s6)
    OBVIOUS
  <1>29. s7 = St(<<>>, F, Got(C4 \cup RegionNames(D), G))
    <2>1. s6 = St(RegionTokens(i), F, Got(C4, G))
      BY <1>1, <1>27
    <2>2. G["arguments"] = i.arguments
      BY OpValuesAre
    <2>3. ReadRegions(K, s6) = St(<<>>, F, Got(C4 \cup RegionNames(D), G))
      BY <2>1, <2>2, RegionsRead
    <2> QED BY <1>28, <2>3
  <1>30. PICK C5 : C5 = C4 \cup RegionNames(D)
    OBVIOUS
  <1>31. s7.ok /\ s7.rest = <<>> /\ s7.got = Got(C5, G)
    BY <1>29, <1>30, StFields
  <1>32. C5 = OpGot(i, v, K)
    BY <1>16, <1>20, <1>23, <1>26, <1>30 DEF OpGot, Reads
  <1>33. parsed = [ok |-> s7.ok /\ s7.rest = <<>>, got |-> s7.got]
    BY <1>10, <1>12, <1>14, <1>17, <1>19, <1>22, <1>25, <1>28, Zenon DEF ReadOp, AllAttribute
  <1>34. parsed.ok /\ parsed.got = s7.got
    <2>1. PICK T : T = TRUE
      OBVIOUS
    <2>2. s7.ok = T
      BY <1>29, <2>1, Zenon DEF St
    <2>3. (s7.ok /\ s7.rest = <<>>) = T
      BY <1>31, <2>1, <2>2, Zenon
    <2>4. parsed = [ok |-> T, got |-> s7.got]
      BY <1>33, <2>3, Zenon
    <2>5. parsed.ok = T /\ parsed.got = s7.got
      BY <2>4
    <2> QED BY <2>1, <2>5
  <1> QED BY <1>9, <1>31, <1>32, <1>34

(* What is found in it is what the operation means to the release.         *)
FoundNames(i, K) ==
    ((Names(K.attributes) \cap DOMAIN i.attributes) \cup Names(K.operands))
        \cup ({"results"} \cup RegionNames(Op(i)))

LEMMA GotNames ==
    ASSUME NEW i, NEW v, NEW r, NEW D, NEW K, Reads(i, v, r, D, K)
    PROVE  OpGot(i, v, K) = FoundNames(i, K)
  <1>1. \A f : f \in ToSet(K.attributes) => f \in ToSet(D.attributes)
    BY ReadsKnown
  <1>2. PICK E : E = NamesIn(Early(i, v), K.attributes)
    OBVIOUS
  <1>3. PICK L : L = NamesIn(Late(i, v), K.attributes)
    OBVIOUS
  <1>4. PICK A : A = Names(K.attributes) \cap DOMAIN i.attributes
    OBVIOUS
  <1>5. ASSUME NEW f \in ToSet(K.attributes)
        PROVE  f.name \in DOMAIN i.attributes <=> f \in Early(i, v) \/ f \in Late(i, v)
    <2>1. f \in ToSet(D.attributes) /\ D = Op(i)
      BY <1>1 DEF Reads
    <2>2. v \in Nat /\ f.since \in Nat
      BY <2>1, ReadsVersions, ReadsField DEF OpFields
    <2>3. f \in Early(i, v) <=> f.name \in DOMAIN i.attributes /\ (v >= f.since \/ f.fallback = "default")
      BY <2>1, AttributeIs
    <2>4. f \in Late(i, v) <=> f.fallback = "rank" /\ v < f.since
      BY <2>1 DEF Late
    <2>5. /\ f.form = "required" => f.name \in DOMAIN i.attributes
          /\ f.form # "required" => f.fallback = "none"
      BY <2>1, AttributeIs
    <2>6. f.fallback \in {"none", "default", "rank"}
      BY <2>1, ReadsDecl DEF AttributeAccepted
    <2>7. v < f.since /\ f.name \in DOMAIN i.attributes => f.fallback # "none"
      BY <2>1, ReadsLater
    <2> QED BY <2>2, <2>3, <2>4, <2>5, <2>6, <2>7
  <1>6. E \cup L = A
    <2>1. \A x : x \in A <=> \E f \in ToSet(K.attributes) : x = f.name /\ f.name \in DOMAIN i.attributes
      BY <1>4 DEF Names
    <2>2. \A x : x \in E <=> \E f \in ToSet(K.attributes) : x = f.name /\ f \in Early(i, v)
      BY <1>2 DEF NamesIn
    <2>3. \A x : x \in L <=> \E f \in ToSet(K.attributes) : x = f.name /\ f \in Late(i, v)
      BY <1>3 DEF NamesIn
    <2>4. \A x : x \in E \cup L <=> x \in A
      BY <1>5, <2>1, <2>2, <2>3
    <2> QED BY <2>4
  <1>7. PICK B : B = Names(K.operands)
    OBVIOUS
  <1>8. PICK R : R = RegionNames(Op(i))
    OBVIOUS
  <1>9. OpGot(i, v, K) = (((({} \cup {"results"}) \cup E) \cup B) \cup L) \cup R
    BY <1>2, <1>3, <1>7, <1>8, Zenon DEF OpGot
  <1>10. FoundNames(i, K) = (A \cup B) \cup ({"results"} \cup R)
    BY <1>4, <1>7, <1>8, Zenon DEF FoundNames
  <1> QED BY <1>6, <1>9, <1>10

Resolved(at, values) == [n \in DOMAIN at |-> values[at[n] + 1]]

Resolves(i, index, values) ==
    \A f \in ToSet(Op(i).operands) : \A n \in DOMAIN i.operands[f.name] :
        LET at == i.operands[f.name][n].at
        IN index[at] \in 0..Len(values) - 1 /\ values[index[at] + 1] = at

LEMMA MeaningRead ==
    ASSUME NEW i, NEW v, NEW r, NEW D, NEW K, Reads(i, v, r, D, K),
           NEW index, NEW values, Resolves(i, index, values),
           NEW G, G = OpValues(i, v, index), NEW got, got = Got(FoundNames(i, K), G),
           NEW operands, operands = [f \in Names(K.operands) |-> Resolved(got[f], values)]
    PROVE  Extended(operands, got) = Meaning(i, K, v)
  <1>1. PICK A : A = Names(K.attributes) \cap DOMAIN i.attributes
    OBVIOUS
  <1>2. PICK B : B = Names(K.operands)
    OBVIOUS
  <1>3. PICK R : R = RegionNames(D)
    OBVIOUS
  <1>4. PICK X : X = (A \cup B) \cup ({"results"} \cup R)
    OBVIOUS
  <1>5. D = Op(i) /\ K.regions = D.regions /\ D.regions \in Nat
    BY ReadsKnown, ReadsDecl DEF Reads
  <1>6. got = [x \in X |-> G[x]]
    BY <1>1, <1>2, <1>3, <1>4, <1>5, Zenon DEF FoundNames, Got
  <1>7. /\ \A f : f \in ToSet(K.attributes) => f \in ToSet(D.attributes)
        /\ \A f : f \in ToSet(K.operands) => f \in ToSet(D.operands)
    BY ReadsKnown
  <1>8. /\ Names(D.attributes) \cap Names(D.operands) = {}
        /\ (Names(D.attributes) \cup Names(D.operands)) \cap {"results", "arguments"} = {}
    BY ReadsDecl
  <1>9. A \subseteq Names(D.attributes) /\ B \subseteq Names(D.operands)
    BY <1>1, <1>2, <1>7 DEF Names
  <1>10. A \cap B = {} /\ (A \cup B) \cap {"results", "arguments"} = {}
    BY <1>8, <1>9
  <1>11. R = IF K.regions > 0 THEN {"arguments"} ELSE {}
    BY <1>3, <1>5 DEF RegionNames
  <1>12. PICK M : M = [x \in X |->
                IF x \in A THEN i.attributes[x]
                ELSE IF x \in B THEN [n \in DOMAIN i.operands[x] |-> i.operands[x][n].at]
                ELSE IF x = "results" THEN ResultsWritten(i, v) ELSE i.arguments]
    OBVIOUS
  <1>13. Meaning(i, K, v) = M
    <2>1. {f.name : f \in ToSet(K.attributes)} \cap DOMAIN i.attributes = A
      BY <1>1 DEF Names
    <2>2. {f.name : f \in ToSet(K.operands)} = B
      BY <1>2 DEF Names
    <2>3. {"results"} \cup (IF K.regions > 0 THEN {"arguments"} ELSE {}) = {"results"} \cup R
      BY <1>11
    <2> QED BY <1>4, <1>12, <2>1, <2>2, <2>3, Zenon DEF Meaning
  <1>14. /\ \A f \in ToSet(D.attributes) : G[f.name] = i.attributes[f.name]
         /\ \A f \in ToSet(D.operands) : G[f.name] = IndicesOf(i.operands[f.name], index)
         /\ G["results"] = ResultsWritten(i, v) /\ G["arguments"] = i.arguments
    BY OpValuesAre
  <1>15. \A x \in A : G[x] = i.attributes[x]
    BY <1>1, <1>7, <1>14 DEF Names
  <1>16. ASSUME NEW x \in B
         PROVE  Resolved(G[x], values) = [n \in DOMAIN i.operands[x] |-> i.operands[x][n].at]
    <2>1. PICK f \in ToSet(D.operands) : x = f.name
      BY <1>2, <1>7 DEF Names
    <2>2. PICK group : group = i.operands[f.name]
      OBVIOUS
    <2>3. PICK at : at = IndicesOf(group, index)
      OBVIOUS
    <2>4. G[x] = at
      BY <1>14, <2>1, <2>2, <2>3
    <2>5. at = [n \in DOMAIN group |-> index[group[n].at]]
      BY <2>3 DEF IndicesOf
    <2>6. \A n \in DOMAIN group : values[index[group[n].at] + 1] = group[n].at
      BY <1>5, <2>2 DEF Resolves
    <2>7. \A n \in DOMAIN group : values[at[n] + 1] = group[n].at
      BY <2>5, <2>6
    <2>8. Resolved(at, values) = [n \in DOMAIN group |-> values[at[n] + 1]]
      BY <2>5 DEF Resolved
    <2>9. Resolved(at, values) = [n \in DOMAIN group |-> group[n].at]
      BY <2>7, <2>8
    <2> QED BY <2>1, <2>2, <2>4, <2>9
  <1>17. operands = [x \in B |-> Resolved(got[x], values)]
    BY <1>2
  <1>18. Extended(operands, got) = [x \in X |-> IF x \in B THEN Resolved(G[x], values) ELSE G[x]]
    <2>1. DOMAIN operands = B /\ DOMAIN got = X /\ B \cup X = X
      BY <1>4, <1>6, <1>17
    <2>2. \A x \in X : (IF x \in B THEN operands[x] ELSE got[x]) = (IF x \in B THEN Resolved(G[x], values) ELSE G[x])
      <3>1. ASSUME NEW x \in X PROVE got[x] = G[x]
        BY <1>6
      <3>2. ASSUME NEW x \in B PROVE operands[x] = Resolved(got[x], values) /\ x \in X
        BY <1>4, <1>17
      <3> QED BY <3>1, <3>2
    <2>3. Extended(operands, got) = [x \in B \cup X |-> IF x \in B THEN operands[x] ELSE got[x]]
      BY <2>1, Zenon DEF Extended
    <2> QED BY <2>1, <2>2, <2>3
  <1>19. ASSUME NEW x \in X
         PROVE  (IF x \in B THEN Resolved(G[x], values) ELSE G[x]) = M[x]
    <2>1. CASE x \in A
      BY <1>10, <1>12, <1>15, <2>1
    <2>2. CASE x \in B
      <3>1. M[x] = [n \in DOMAIN i.operands[x] |-> i.operands[x][n].at]
        BY <1>10, <1>12, <2>2
      <3> QED BY <1>16, <2>2, <3>1
    <2>3. CASE x = "results"
      BY <1>10, <1>12, <1>14, <2>3
    <2>4. CASE x = "arguments"
      BY <1>10, <1>12, <1>14, <2>4
    <2>5. x \in A \/ x \in B \/ x = "results" \/ x = "arguments"
      BY <1>4, <1>11
    <2> QED BY <2>1, <2>2, <2>3, <2>4, <2>5
  <1>20. M = [x \in X |-> M[x]]
    BY <1>12
  <1>21. [x \in X |-> IF x \in B THEN Resolved(G[x], values) ELSE G[x]] = [x \in X |-> M[x]]
    BY <1>19
  <1> QED BY <1>13, <1>18, <1>20, <1>21

(* And what the release does not know of was not there.                    *)
LEMMA CompleteIs ==
    ASSUME NEW i, NEW v, NEW r, NEW D, NEW K, Reads(i, v, r, D, K)
    PROVE  Complete(i, K)
  <1>1. /\ \A f : f \in ToSet(K.attributes) <=> f \in ToSet(D.attributes) /\ f.since <= r
        /\ \A f : f \in ToSet(K.operands) <=> f \in ToSet(D.operands) /\ f.since <= r
        /\ \A f : f \in ToSet(K.results) <=> f \in ToSet(D.results) /\ f.since <= r
    BY ReadsKnown
  <1>2. D = Op(i) /\ ~OpRefused(i, v) /\ v \in Nat /\ r \in Nat /\ v <= r
    BY ReadsVersions DEF Reads
  <1>3. ASSUME NEW f \in OpFields(D), ~(f.since <= r) PROVE v < f.since /\ Evolved(D, f)
    BY <1>2, <1>3, ReadsField
  <1>4. ASSUME NEW f \in ToSet(D.attributes), ~(f.since <= r), f.name \in DOMAIN i.attributes
        PROVE  f.form = "required" /\ i.attributes[f.name] = FallbackValue
    BY <1>3, <1>4, ReadsLater DEF OpFields
  <1>5. ASSUME NEW f \in ToSet(D.operands), ~(f.since <= r) PROVE i.operands[f.name] = <<>>
    BY <1>3, <1>5, ReadsLater DEF OpFields
  <1>6. ASSUME NEW f \in ToSet(D.results), ~(f.since <= r) PROVE ~i.results[f.name].used
    <2>1. v < f.since /\ Evolved(D, f)
      BY <1>3, <1>6 DEF OpFields
    <2>2. ~ResultRefused(i, f, v)
      BY <1>2 DEF OpRefused
    <2> QED BY <1>2, <2>1, <2>2 DEF ResultRefused
  <1>7. \A f \in LeftOut(Op(i).attributes, K.attributes) :
            f.name \in DOMAIN i.attributes => f.form = "required" /\ i.attributes[f.name] = FallbackValue
    BY <1>1, <1>2, <1>4 DEF LeftOut
  <1>8. \A f \in LeftOut(Op(i).operands, K.operands) : i.operands[f.name] = <<>>
    BY <1>1, <1>2, <1>5 DEF LeftOut
  <1>9. \A f \in LeftOut(Op(i).results, K.results) : ~i.results[f.name].used
    BY <1>1, <1>2, <1>6 DEF LeftOut
  <1> QED BY <1>7, <1>8, <1>9 DEF Complete

-----------------------------------------------------------------------------
(* The values in the order in which they are numbered: those of the        *)
(* arguments, then those of each operation, as many as it writes.          *)
NewValues(n, count) == [k \in 1..count |-> <<n, k>>]

Listed(L, A, N, c) ==
    /\ A \in Nat /\ N \in Nat /\ c \in [1..N -> Nat]
    /\ L[0] = NewValues(0, A)
    /\ \A n \in 1..N : L[n] = L[n - 1] \o NewValues(n, c[n])
    /\ \A n \in 0..N : L[n] \in Seq((0..n) \X Nat)

LEMMA NewValuesFacts ==
    ASSUME NEW n \in Nat, NEW m \in 0..n, NEW count \in Nat
    PROVE  /\ NewValues(m, count) \in Seq((0..n) \X Nat) /\ Len(NewValues(m, count)) = count
           /\ \A k \in 1..count : NewValues(m, count)[k] = <<m, k>>
  <1>1. PICK s : s = NewValues(m, count)
    OBVIOUS
  <1>2. PICK T : T = (0..n) \X Nat
    OBVIOUS
  <1>3. \A k \in 1..count : <<m, k>> \in T
    BY <1>2
  <1>4. s \in [1..count -> T]
    BY <1>1, <1>3 DEF NewValues
  <1>5. s \in Seq(T) /\ Len(s) = count
    BY <1>4, IsASeq, LenProperties
  <1>6. \A k \in 1..count : s[k] = <<m, k>>
    BY <1>1 DEF NewValues
  <1> QED BY <1>1, <1>2, <1>5, <1>6

LEMMA JoinMore ==
    ASSUME NEW n \in Nat, n # 0, NEW l \in Seq((0..n - 1) \X Nat), NEW count \in Nat
    PROVE  l \o NewValues(n, count) \in Seq((0..n) \X Nat)
  <1>1. PICK T : T = (0..n) \X Nat
    OBVIOUS
  <1>2. (0..n - 1) \X Nat \subseteq T
    BY <1>1
  <1>3. l \in Seq(T)
    BY <1>2, WiderSeq
  <1>4. PICK s \in Seq(T) : s = NewValues(n, count)
    <2>1. n \in 0..n
      OBVIOUS
    <2>2. NewValues(n, count) \in Seq((0..n) \X Nat)
      BY <2>1, NewValuesFacts
    <2> QED BY <1>1, <2>2
  <1>5. l \o s \in Seq(T)
    BY <1>3, ConcatProperties
  <1> QED BY <1>1, <1>4, <1>5

LEMMA ListExists ==
    ASSUME NEW A \in Nat, NEW N \in Nat, NEW c \in [1..N -> Nat]
    PROVE  \E L : Listed(L, A, N, c)
  <1>1. PICK V : V = Seq((0..N) \X Nat)
    OBVIOUS
  <1>2. PICK base \in V : base = NewValues(0, A)
    <2>1. 0 \in 0..N
      OBVIOUS
    <2> QED BY <1>1, <2>1, NewValuesFacts
  <1>3. PICK step : step = [p \in (1..N) \X V |-> p[2] \o NewValues(p[1], c[p[1]])]
    OBVIOUS
  <1>4. ASSUME NEW n \in 1..N, NEW l \in V PROVE l \o NewValues(n, c[n]) \in V
    <2>1. n \in 0..N /\ c[n] \in Nat
      OBVIOUS
    <2>2. PICK s \in V : s = NewValues(n, c[n])
      BY <1>1, <2>1, NewValuesFacts
    <2>3. l \o s \in V
      BY <1>1, ConcatProperties
    <2> QED BY <2>2, <2>3
  <1>5. \A p \in (1..N) \X V : step[p] \in V
    <2>1. ASSUME NEW p \in (1..N) \X V PROVE step[p] \in V
      <3>1. PICK n \in 1..N : n = p[1]
        OBVIOUS
      <3>2. PICK l \in V : l = p[2]
        OBVIOUS
      <3>3. l \o NewValues(n, c[n]) \in V
        BY <1>4
      <3>4. step[p] = p[2] \o NewValues(p[1], c[p[1]])
        BY <1>3
      <3> QED BY <3>1, <3>2, <3>3, <3>4
    <2> QED BY <2>1
  <1>6. LoopOf(N, V, base, step)
    <2>1. step \in [(1..N) \X V -> V]
      BY <1>3, <1>5
    <2> QED BY <2>1 DEF LoopOf
  <1>7. PICK L : LoopRuns(L, N, V, base, step)
    BY <1>6, LoopExists
  <1>8. L \in [0..N -> V] /\ L[0] = base /\ \A n \in 1..N : L[n] = step[<<n, L[n - 1]>>]
    BY <1>7 DEF LoopRuns
  <1>9. ASSUME NEW n \in 1..N PROVE L[n] = L[n - 1] \o NewValues(n, c[n])
    <2>1. n - 1 \in 0..N
      OBVIOUS
    <2>2. <<n, L[n - 1]>> \in (1..N) \X V
      BY <1>8, <2>1
    <2> QED BY <1>3, <1>8, <2>2
  <1>10. PICK Good : Good = {n \in 0..N : L[n] \in Seq((0..n) \X Nat)}
    OBVIOUS
  <1>11. 0 \in Good
    <2>1. 0 \in 0..0 /\ 0 \in 0..N
      OBVIOUS
    <2>2. NewValues(0, A) \in Seq((0..0) \X Nat)
      BY <2>1, NewValuesFacts
    <2> QED BY <1>2, <1>8, <1>10, <2>1, <2>2
  <1>12. ASSUME NEW n \in 1..N, n - 1 \in Good PROVE n \in Good
    <2>1. n \in Nat /\ n # 0 /\ n \in 0..N /\ c[n] \in Nat
      OBVIOUS
    <2>2. PICK l \in Seq((0..n - 1) \X Nat) : l = L[n - 1]
      BY <1>10, <1>12
    <2>3. l \o NewValues(n, c[n]) \in Seq((0..n) \X Nat)
      BY <2>1, JoinMore
    <2> QED BY <1>9, <1>10, <2>1, <2>2, <2>3
  <1>13. \A n \in 0..N : n \in Good
    BY <1>11, <1>12, HandedOn
  <1>14. \A n \in 0..N : L[n] \in Seq((0..n) \X Nat)
    BY <1>10, <1>13
  <1> QED BY <1>2, <1>8, <1>9, <1>14 DEF Listed

(* The values numbered are there from then on.                             *)
LEMMA InJoined ==
    ASSUME NEW a, IsSeq(a), NEW b, IsSeq(b)
    PROVE  \A x : x \in ToSet(a \o b) <=> x \in ToSet(a) \/ x \in ToSet(b)
  <1>1. PICK n \in Nat : n = Len(a) /\ DOMAIN a = 1..n
    BY SeqIs
  <1>2. PICK m \in Nat : m = Len(b) /\ DOMAIN b = 1..m
    BY SeqIs
  <1>3. PICK s : s = a \o b
    OBVIOUS
  <1>4. /\ IsSeq(s) /\ Len(s) = n + m
        /\ \A k \in 1..n : s[k] = a[k]
        /\ \A k \in 1..m : s[n + k] = b[k]
    BY <1>1, <1>2, <1>3, JoinFacts
  <1>5. DOMAIN s = 1..n + m
    BY <1>4, SeqIs
  <1>6. ASSUME NEW x \in ToSet(s) PROVE x \in ToSet(a) \/ x \in ToSet(b)
    <2>1. PICK k \in 1..n + m : x = s[k]
      BY <1>5, <1>6 DEF ToSet
    <2>2. CASE k <= n
      <3>1. k \in 1..n
        BY <2>2
      <3> QED BY <1>1, <1>4, <2>1, <3>1 DEF ToSet
    <2>3. CASE k > n
      <3>1. k - n \in 1..m /\ n + (k - n) = k
        BY <2>3
      <3>2. s[k] = b[k - n]
        BY <1>4, <3>1
      <3> QED BY <1>2, <2>1, <3>1, <3>2 DEF ToSet
    <2> QED BY <2>2, <2>3
  <1>7. ASSUME NEW x \in ToSet(a) PROVE x \in ToSet(s)
    <2>1. PICK k \in 1..n : x = a[k]
      BY <1>1, <1>7 DEF ToSet
    <2>2. k \in 1..n + m
      OBVIOUS
    <2> QED BY <1>4, <1>5, <2>1, <2>2 DEF ToSet
  <1>8. ASSUME NEW x \in ToSet(b) PROVE x \in ToSet(s)
    <2>1. PICK k \in 1..m : x = b[k]
      BY <1>2, <1>8 DEF ToSet
    <2>2. n + k \in 1..n + m
      OBVIOUS
    <2> QED BY <1>4, <1>5, <2>1, <2>2 DEF ToSet
  <1> QED BY <1>3, <1>6, <1>7, <1>8

LEMMA ListHas ==
    ASSUME NEW L, NEW A, NEW N, NEW c, Listed(L, A, N, c)
    PROVE  /\ \A n \in 0..N : IsSeq(L[n])
           /\ \A n \in 0..N : \A k \in 1..A : <<0, k>> \in ToSet(L[n])
           /\ \A n \in 0..N : \A m \in 1..n : \A k \in 1..c[m] : <<m, k>> \in ToSet(L[n])
  <1>1. A \in Nat /\ N \in Nat /\ c \in [1..N -> Nat] /\ L[0] = NewValues(0, A)
    BY DEF Listed
  <1>2. \A n \in 0..N : IsSeq(L[n])
    BY DEF Listed, IsSeq
  <1>3. ASSUME NEW m, m \in 0..N, NEW count \in Nat
        PROVE  IsSeq(NewValues(m, count)) /\ \A k \in 1..count : <<m, k>> \in ToSet(NewValues(m, count))
    <2>1. PICK s : s = NewValues(m, count)
      OBVIOUS
    <2>2. s \in Seq((0..N) \X Nat) /\ Len(s) = count /\ \A k \in 1..count : s[k] = <<m, k>>
      BY <1>1, <1>3, <2>1, NewValuesFacts
    <2>3. IsSeq(s)
      BY <2>2 DEF IsSeq
    <2> QED BY <2>1, <2>2, <2>3, SeqIs
  <1>4. ASSUME NEW n \in 1..N, NEW x
        PROVE  /\ x \in ToSet(L[n - 1]) => x \in ToSet(L[n])
               /\ \A k \in 1..c[n] : <<n, k>> \in ToSet(L[n])
    <2>1. n - 1 \in 0..N /\ n \in 0..N /\ c[n] \in Nat
      BY <1>1
    <2>2. PICK a : a = L[n - 1] /\ IsSeq(a)
      BY <1>2, <2>1
    <2>3. PICK b : b = NewValues(n, c[n]) /\ IsSeq(b) /\ \A k \in 1..c[n] : <<n, k>> \in ToSet(b)
      BY <1>3, <2>1
    <2>4. L[n] = a \o b
      BY <2>2, <2>3 DEF Listed
    <2> QED BY <2>2, <2>3, <2>4, InJoined
  <1>5. PICK Good : Good = {n \in 0..N : /\ \A k \in 1..A : <<0, k>> \in ToSet(L[n])
                                         /\ \A m \in 1..n : \A k \in 1..c[m] : <<m, k>> \in ToSet(L[n])}
    OBVIOUS
  <1>6. 0 \in Good
    <2>1. 0 \in 0..N /\ \A m \in 1..0 : FALSE
      BY <1>1
    <2>2. \A k \in 1..A : <<0, k>> \in ToSet(L[0])
      BY <1>1, <1>3, <2>1
    <2> QED BY <1>5, <2>1, <2>2
  <1>7. ASSUME NEW n \in 1..N, n - 1 \in Good PROVE n \in Good
    <2>1. \A k \in 1..A : <<0, k>> \in ToSet(L[n])
      BY <1>4, <1>5, <1>7
    <2>2. ASSUME NEW m \in 1..n, NEW k \in 1..c[m] PROVE <<m, k>> \in ToSet(L[n])
      <3>1. CASE m = n
        BY <1>4, <3>1
      <3>2. CASE m # n
        <4>1. m \in 1..n - 1
          BY <3>2
        <4> QED BY <1>4, <1>5, <1>7, <4>1
      <3> QED BY <3>1, <3>2
    <2>3. n \in 0..N
      BY <1>1
    <2> QED BY <1>5, <2>1, <2>2, <2>3
  <1>8. \A n \in 0..N : n \in Good
    BY <1>1, <1>6, <1>7, HandedOn
  <1> QED BY <1>2, <1>5, <1>8

(* The index of a value is its place in the list, less one.                *)
IndexOf(index, l) ==
    /\ IsSeq(l) /\ DOMAIN index = ToSet(l)
    /\ \A j \in 1..Len(l) : index[l[j]] = j - 1

LEMMA IndexCounts ==
    ASSUME NEW index, NEW l, IndexOf(index, l)
    PROVE  Cardinality(DOMAIN index) = Len(l)
  <1>1. PICK S : S = ToSet(l)
    OBVIOUS
  <1>2. PICK n \in Nat : n = Len(l) /\ DOMAIN l = 1..n /\ l \in Seq(S)
    BY <1>1, SeqIs DEF IndexOf
  <1>3. l \in [1..n -> S]
    BY <1>2, LenProperties
  <1>4. \A j, k \in 1..n : l[j] = l[k] => j = k
    <2>1. \A j \in 1..n : index[l[j]] = j - 1
      BY <1>2 DEF IndexOf
    <2>2. \A j, k \in 1..n : j - 1 = k - 1 => j = k
      OBVIOUS
    <2> QED BY <2>1, <2>2
  <1>5. \A x \in S : \E j \in 1..n : l[j] = x
    BY <1>1, <1>2 DEF ToSet
  <1>6. l \in Bijection(1..n, S)
    BY <1>3, <1>4, <1>5, Fun_IsBij
  <1>7. ExistsBijection(1..n, S)
    BY <1>6, Fun_ExistsBij, Zenon
  <1>8. Cardinality(S) = n
    BY <1>7, FS_CountingElements
  <1> QED BY <1>1, <1>2, <1>8 DEF IndexOf

LEMMA IndexStarts ==
    ASSUME NEW A \in Nat, NEW l, l = NewValues(0, A), NEW index, index = [u \in ToSet(l) |-> u[2] - 1]
    PROVE  IndexOf(index, l)
  <1>1. l \in Seq((0..0) \X Nat) /\ Len(l) = A /\ \A k \in 1..A : l[k] = <<0, k>>
    <2>1. 0 \in 0..0
      OBVIOUS
    <2> QED BY <2>1, NewValuesFacts
  <1>2. IsSeq(l)
    BY <1>1 DEF IsSeq
  <1>3. ASSUME NEW j \in 1..Len(l) PROVE index[l[j]] = j - 1
    <2>1. l[j] \in ToSet(l) /\ l[j] = <<0, j>>
      BY <1>1, <1>2, SeqIs
    <2>2. index[l[j]] = l[j][2] - 1
      BY <2>1
    <2> QED BY <2>1, <2>2
  <1> QED BY <1>2, <1>3 DEF IndexOf

Numbers(n, count, first) == [v \in {<<n, k>> : k \in 1..count} |-> first + v[2] - 1]

LEMMA IndexGrows ==
    ASSUME NEW n \in Nat, NEW l \in Seq((0..n - 1) \X Nat), NEW index, IndexOf(index, l),
           NEW count \in Nat, NEW b, b = NewValues(n, count),
           NEW first, first = Cardinality(DOMAIN index),
           NEW more, more = Extended(index, Numbers(n, count, first))
    PROVE  IndexOf(more, l \o b)
  <1>1. PICK N \in Nat : N = Len(l) /\ DOMAIN l = 1..N
    BY LenProperties
  <1>2. first = N
    BY <1>1, IndexCounts
  <1>3. IsSeq(b) /\ Len(b) = count /\ \A k \in 1..count : b[k] = <<n, k>>
    <2>1. n \in 0..n
      OBVIOUS
    <2>2. b \in Seq((0..n) \X Nat) /\ Len(b) = count /\ \A k \in 1..count : b[k] = <<n, k>>
      BY <2>1, NewValuesFacts
    <2> QED BY <2>2 DEF IsSeq
  <1>4. PICK B : B = {<<n, k>> : k \in 1..count}
    OBVIOUS
  <1>5. PICK g : g = [v \in B |-> first + v[2] - 1]
    OBVIOUS
  <1>6. PICK E : E = ToSet(l)
    OBVIOUS
  <1>7. DOMAIN index = E /\ IsSeq(l) /\ \A j \in 1..N : index[l[j]] = j - 1
    BY <1>1, <1>6 DEF IndexOf
  <1>8. more = [x \in E \cup B |-> IF x \in E THEN index[x] ELSE g[x]]
    <2>1. DOMAIN g = B
      BY <1>5
    <2>2. Numbers(n, count, first) = g
      BY <1>4, <1>5 DEF Numbers
    <2> QED BY <1>7, <2>1, <2>2 DEF Extended
  <1>9. ASSUME NEW k \in 1..count PROVE <<n, k>> \in B /\ <<n, k>> \notin E /\ g[<<n, k>>] = N + k - 1
    <2>1. <<n, k>> \in B
      BY <1>4
    <2>2. <<n, k>> \notin E
      <3>1. ASSUME NEW x \in E PROVE x[1] \in 0..n - 1
        <4>1. PICK j \in 1..N : x = l[j]
          BY <1>1, <1>6 DEF ToSet
        <4>2. l[j] \in (0..n - 1) \X Nat
          BY <1>1, ElementOfSeq
        <4> QED BY <4>1, <4>2
      <3>2. <<n, k>>[1] = n /\ n \notin 0..n - 1
        OBVIOUS
      <3> QED BY <3>1, <3>2
    <2>3. g[<<n, k>>] = first + <<n, k>>[2] - 1
      BY <1>5, <2>1
    <2> QED BY <1>2, <2>1, <2>2, <2>3
  <1>10. ToSet(b) = B
    <2>1. DOMAIN b = 1..count
      BY <1>3, SeqIs
    <2>2. \A x : x \in ToSet(b) <=> \E k \in 1..count : x = b[k]
      BY <2>1 DEF ToSet
    <2>3. \A x : x \in B <=> \E k \in 1..count : x = <<n, k>>
      BY <1>4
    <2>4. ASSUME NEW x \in ToSet(b) PROVE x \in B
      <3>1. PICK k \in 1..count : x = b[k]
        BY <2>2
      <3> QED BY <1>3, <2>3, <3>1
    <2>5. ASSUME NEW x \in B PROVE x \in ToSet(b)
      <3>1. PICK k \in 1..count : x = <<n, k>>
        BY <2>3
      <3>2. x = b[k]
        BY <1>3, <3>1
      <3> QED BY <2>2, <3>2
    <2> QED BY <2>4, <2>5
  <1>11. PICK s : s = l \o b
    OBVIOUS
  <1>12. /\ IsSeq(s) /\ Len(s) = N + count
         /\ \A j \in 1..N : s[j] = l[j]
         /\ \A k \in 1..count : s[N + k] = b[k]
    <2>1. PICK m \in Nat : m = count /\ m = Len(b)
      BY <1>3
    <2>2. IsSeq(l) /\ IsSeq(b) /\ N = Len(l)
      BY <1>1, <1>3, <1>7
    <2>3. IsSeq(s)
      BY <1>11, <2>2, JoinFacts
    <2>4. Len(s) = N + m
      <3>1. Len(l \o b) = Len(l) + Len(b)
        BY <2>2, JoinFacts
      <3> QED BY <1>11, <2>1, <2>2, <3>1
    <2>5. \A j \in 1..N : s[j] = l[j]
      BY <1>11, <2>2, JoinFacts
    <2>6. \A k \in 1..m : s[N + k] = b[k]
      BY <1>11, <2>1, <2>2, JoinFacts
    <2> QED BY <2>1, <2>3, <2>4, <2>5, <2>6
  <1>13. ToSet(s) = E \cup B
    BY <1>3, <1>6, <1>7, <1>10, <1>11, InJoined
  <1>14. ASSUME NEW j \in 1..N + count PROVE more[s[j]] = j - 1
    <2>1. CASE j \in 1..N
      <3>1. s[j] = l[j] /\ l[j] \in E
        BY <1>1, <1>6, <1>7, <1>12, <2>1, SeqIs
      <3> QED BY <1>7, <1>8, <2>1, <3>1
    <2>2. CASE j \notin 1..N
      <3>1. PICK k \in 1..count : j = N + k
        <4>1. j - N \in 1..count /\ j = N + (j - N)
          BY <2>2
        <4> QED BY <4>1
      <3>2. s[j] = <<n, k>>
        BY <1>3, <1>12, <3>1
      <3>3. more[<<n, k>>] = N + k - 1
        BY <1>8, <1>9
      <3> QED BY <3>1, <3>2, <3>3
    <2> QED BY <2>1, <2>2
  <1>15. DOMAIN more = ToSet(s)
    BY <1>8, <1>13
  <1> QED BY <1>11, <1>12, <1>14, <1>15 DEF IndexOf

(* An operand is among the values numbered before its operation: a result  *)
(* that the version does not have is not used, and those before it are of  *)
(* the version.                                                            *)
Writes(mod, v) == [n \in 1..Len(mod) |-> Len(ResultsWritten(mod[n], v))]

LEMMA UsedWritten ==
    ASSUME NEW i, OperationIs(i), NEW v \in Supported, ~OpRefused(i, v),
           NEW k \in DOMAIN ResultTypes(i), NEW t, t = ResultTypes(i)[k],
           \A f \in ToSet(Op(i).results) : t \in ToSet(i.results[f.name].types) => i.results[f.name].used
    PROVE  k \in 1..Len(ResultsWritten(i, v))
  <1>1. PICK D : D = Op(i)
    OBVIOUS
  <1>2. PICK K : K = KnownOp(D, v)
    OBVIOUS
  <1>3. Latest \in Nat /\ v \in v..Latest
    BY SomeVersions
  <1>4. Reads(i, v, v, D, K)
    BY <1>1, <1>2, <1>3 DEF Reads
  <1>5. IsSeq(D.results)
    BY <1>4, ReadsKnown
  <1>6. PICK res : res = D.results
    OBVIOUS
  <1>7. PICK B : B = {f \in ToSet(res) : ~Evolved(D, f) \/ v >= f.since}
    OBVIOUS
  <1>8. ResultsKept(i, v) = Kept(res, B)
    BY <1>1, <1>6, <1>7, Zenon DEF ResultsKept, InVersion
  <1>9. CASE ToSet(res) \subseteq B
    <2>1. Kept(res, B) = res
      BY <1>5, <1>6, <1>9, KeptAll
    <2>2. ResultsWritten(i, v) = ResultTypes(i)
      BY <1>1, <1>6, <1>8, <2>1, Zenon DEF ResultsWritten, ResultTypes
    <2>3. IsSeq(ResultTypes(i))
      BY ResultTypesFacts DEF IsSeq
    <2> QED BY <2>2, <2>3, SeqIs
  <1>10. CASE ~(ToSet(res) \subseteq B)
    <2>1. PICK g \in ToSet(res) : Evolved(D, g)
      BY <1>7, <1>10
    <2>2. \A f \in ToSet(res) : f.form = "required"
      BY <1>4, <1>6, <2>1, ReadsDecl
    <2>3. Len(ResultsWritten(i, v)) = Len(Kept(res, B))
      <3>1. Len(ResultsWritten(i, v)) = Len(InVersion(D, v))
        BY <1>4, <1>6, <2>2, WrittenSingly
      <3>2. InVersion(D, v) = Kept(res, B)
        BY <1>1, <1>8 DEF ResultsKept
      <3> QED BY <3>1, <3>2
    <2>4. PICK N \in Nat : N = Len(res) /\ DOMAIN res = 1..N
      BY <1>5, <1>6, SeqIs
    <2>5. \A n \in 1..N : res[n] \in ToSet(res) /\ res[n].since \in Nat
      <3>1. \A f \in ToSet(res) : f.since \in Nat
        BY <1>4, <1>6, ReadsField DEF OpFields
      <3>2. \A n \in 1..N : res[n] \in ToSet(res)
        BY <1>5, <1>6, <2>4, SeqIs
      <3> QED BY <3>1, <3>2
    <2>6. \A n, m \in 1..N : n < m => res[n].since <= res[m].since
      <3>1. D = OpDecls[i.op] /\ i.op \in DOMAIN OpDecls
        BY <1>4, ReadsVersions
      <3>2. OpUnforced(D)
        BY <3>1, OperationsAssumption
      <3> QED BY <1>6, <2>4, <3>2 DEF OpUnforced
    <2>7. v \in Nat /\ D.since \in Nat /\ D.since <= v
      BY <1>4, ReadsVersions
    <2>8. \A n \in 1..N : res[n] \in B <=> res[n].since <= v
      <3>1. ASSUME NEW f \in ToSet(res) PROVE Evolved(D, f) <=> f.since > D.since
        BY <1>4, <1>6, ReadsField DEF OpFields
      <3> QED BY <1>7, <2>5, <2>7, <3>1
    <2>9. \A n, m \in 1..N : n < m /\ res[m] \in B => res[n] \in B
      <3>1. ASSUME NEW n \in 1..N, NEW m \in 1..N, n < m, res[m] \in B PROVE res[n] \in B
        <4>1. res[m].since <= v /\ res[n].since <= res[m].since
          BY <2>6, <2>8, <3>1
        <4>2. res[n].since \in Nat /\ res[m].since \in Nat
          BY <2>5
        <4>3. res[n].since <= v
          BY <2>7, <4>1, <4>2
        <4> QED BY <2>8, <4>3
      <3> QED BY <3>1
    <2>10. \A n \in 1..N : res[n] \in B => n \in 1..Len(Kept(res, B))
      BY <1>5, <1>6, <2>4, <2>9, KeptFront
    <2>11. PICK e : e = [f \in ToSet(res) |-> i.results[f.name].types]
      OBVIOUS
    <2>12. \A f \in ToSet(res) : e[f] \in Seq(DOMAIN Types) /\ Len(e[f]) = 1 /\ e[f] = i.results[f.name].types
      BY <1>1, <1>6, <2>2, <2>11 DEF OperationIs, ResultsAre
    <2>13. Emits(e, res)
      BY <1>5, <1>6, <2>12 DEF Emits, IsSeq
    <2>14. ResultTypes(i) = Tokens(e, res)
      <3>1. PICK ss : ss = [n \in DOMAIN res |-> i.results[res[n].name].types]
        OBVIOUS
      <3>2. ResultTypes(i) = FlattenSeq(ss)
        BY <1>1, <1>6, <3>1, Zenon DEF ResultTypes
      <3>3. ss = TokenLists(e, res)
        BY <2>4, <2>5, <2>12, <3>1 DEF TokenLists
      <3> QED BY <3>2, <3>3, Zenon DEF Tokens
    <2>15. Len(Tokens(e, res)) = N /\ \A n \in 1..N : Tokens(e, res)[n] = e[res[n]][1]
      BY <2>4, <2>12, <2>13, TokensSingle
    <2>16. k \in 1..N /\ t = e[res[k]][1]
      <3>1. IsSeq(Tokens(e, res))
        BY <2>13, TokensSeq
      <3>2. DOMAIN Tokens(e, res) = 1..N
        BY <2>15, <3>1, SeqIs
      <3> QED BY <2>14, <2>15, <3>2
    <2>17. t \in ToSet(i.results[res[k].name].types)
      <3>1. PICK ts : ts = e[res[k]]
        OBVIOUS
      <3>2. ts \in Seq(DOMAIN Types) /\ Len(ts) = 1 /\ ts = i.results[res[k].name].types
        BY <2>5, <2>12, <2>16, <3>1
      <3>3. ts[1] \in ToSet(ts)
        <4>1. IsSeq(ts) /\ 1 \in 1..Len(ts)
          BY <3>2 DEF IsSeq
        <4> QED BY <4>1, SeqIs
      <3> QED BY <2>16, <3>1, <3>2, <3>3
    <2>18. i.results[res[k].name].used
      BY <1>1, <1>6, <2>5, <2>16, <2>17
    <2>19. ~ResultRefused(i, res[k], v)
      BY <1>1, <1>6, <2>5, <2>16 DEF OpRefused
    <2>20. ~Evolved(D, res[k]) \/ ~(v < res[k].since)
      BY <1>1, <2>18, <2>19 DEF ResultRefused
    <2>21. res[k] \in B
      <3>1. res[k].since \in Nat
        BY <2>5, <2>16
      <3> QED BY <1>7, <2>5, <2>7, <2>16, <2>20, <3>1
    <2> QED BY <2>3, <2>10, <2>16, <2>21
  <1> QED BY <1>9, <1>10

-----------------------------------------------------------------------------
(* What the file holds, and what has been read of it.  With L the values   *)
(* in the order of their numbers: the writer's index of a value, and the   *)
(* place the reader gives it, are the place in L that it has.              *)
Lists(L) == Listed(L, Len(arguments), Len(module), Writes(module, target))

TokensFor(tokens, i, v, l) == \E index : IndexOf(index, l) /\ tokens = OpTokens(i, v, index)

OperationsWritten(L) ==
    /\ IsSeq(file)
    /\ \A n \in 1..Len(file) : TokensFor(file[n], module[n], target, L[n - 1])

WritingWith(L) == phase = "write" => Len(file) = current /\ IndexOf(valueIndexMap, L[current])

AllWritten ==
    InFile => Len(file) = Len(module) /\ typeSection = [t \in typeTable |-> TypeTokens(t, target)]

TypeReadAs(t, r, found) ==
    \E parsed : TypeUnderstood(t, r, parsed) /\ found = [decl |-> parsed.decl, args |-> parsed.args]

OperationsRead ==
    phase \in {"read", "done"} =>
        /\ release \in target..Latest /\ IsSeq(read) /\ Len(read) = current
        /\ \A n \in 1..current :
                read[n] = Meaning(module[n], KnownOp(Op(module[n]), release), target)
        /\ DOMAIN types = typeTable => \A t \in typeTable : TypeReadAs(t, release, types[t])

ReadingWith(L) == phase = "read" => valueIndexList = L[current]

AllRead == phase = "done" => DOMAIN types = typeTable /\ current = Len(module)

Clean ==
    /\ phase # "malformed"
    /\ phase \in {"build", "analyse"} => file = <<>>
    /\ phase \in {"build", "analyse", "write", "written"} => types = <<>> /\ read = <<>>

Coded ==
    phase \notin {"build", "analyse", "refused"} =>
        \E L : Lists(L) /\ OperationsWritten(L) /\ WritingWith(L) /\ ReadingWith(L)

Codec == Clean /\ Coded /\ AllWritten /\ OperationsRead /\ AllRead

LEMMA WritesFacts ==
    ASSUME Shape, NEW v
    PROVE  Writes(module, v) \in [1..Len(module) -> Nat]
  <1>1. \A n \in 1..Len(module) : OperationIs(module[n])
    BY ArgumentsInUse
  <1>2. ASSUME NEW n \in 1..Len(module) PROVE Len(ResultsWritten(module[n], v)) \in Nat
    <2>1. ResultsWritten(module[n], v) \in Seq(DOMAIN Types)
      BY <1>1, WrittenFacts
    <2> QED BY <2>1, LenProperties
  <1> QED BY <1>2 DEF Writes

(* An operand's place in L is the index that was written for it.           *)
LEMMA OperandListed ==
    ASSUME Shape, Taken, InFile, NEW L, Lists(L), NEW n \in 1..Len(module),
           NEW index, IndexOf(index, L[n - 1])
    PROVE  Resolves(module[n], index, L[n - 1])
  <1>1. /\ Len(module) \in Nat /\ Built(arguments, module)
        /\ \A m \in 1..Len(module) : OperationIs(module[m])
    BY ArgumentsInUse DEF Shape
  <1>2. target \in Supported /\ \A m \in 1..Len(module) : ~OpRefused(module[m], target)
    BY DEF Taken, InFile, Accepted
  <1>3. n - 1 \in 0..Len(module)
    BY <1>1
  <1>4. PICK l : l = L[n - 1] /\ IsSeq(l)
    BY <1>3, ListHas DEF Lists
  <1>5. PICK i : i = module[n] /\ OperationIs(i)
    BY <1>1
  <1>6. ASSUME NEW f \in ToSet(Op(i).operands), NEW k \in DOMAIN i.operands[f.name],
               NEW at, at = i.operands[f.name][k].at
        PROVE  at \in ToSet(l)
    <2>1. PICK x : x = i.operands[f.name][k]
      OBVIOUS
    <2>2. OperandBefore(x, n, arguments, module)
      <3>1. x \in ToSet(i.operands[f.name])
        BY <2>1 DEF ToSet
      <3> QED BY <1>1, <1>5, <3>1 DEF Built, OperandsBefore
    <2>3. CASE \E m \in DOMAIN arguments : x.at = <<0, m>>
      <3>1. PICK m \in DOMAIN arguments : x.at = <<0, m>>
        BY <2>3
      <3>2. m \in 1..Len(arguments)
        <4>1. arguments \in Seq(DOMAIN Types)
          BY <1>1 DEF Built
        <4> QED BY <4>1, LenProperties
      <3>3. <<0, m>> \in ToSet(L[n - 1])
        BY <1>3, <3>2, ListHas DEF Lists
      <3> QED BY <1>4, <1>6, <2>1, <3>1, <3>3
    <2>4. CASE ~ \E m \in DOMAIN arguments : x.at = <<0, m>>
      <3>1. PICK m \in 1..n - 1 : \E p \in DOMAIN ResultTypes(module[m]) :
                /\ x.at = <<m, p>> /\ ResultTypes(module[m])[p] = x.type
                /\ \A g \in ToSet(Op(module[m]).results) :
                    x.type \in ToSet(module[m].results[g.name].types) => module[m].results[g.name].used
        BY <2>2, <2>4 DEF OperandBefore
      <3>2. PICK p \in DOMAIN ResultTypes(module[m]) :
                /\ x.at = <<m, p>> /\ ResultTypes(module[m])[p] = x.type
                /\ \A g \in ToSet(Op(module[m]).results) :
                    x.type \in ToSet(module[m].results[g.name].types) => module[m].results[g.name].used
        BY <3>1
      <3>3. m \in 1..Len(module)
        BY <1>1
      <3>4. OperationIs(module[m]) /\ ~OpRefused(module[m], target)
        BY <1>1, <1>2, <3>3
      <3>5. p \in 1..Len(ResultsWritten(module[m], target))
        BY <1>2, <3>2, <3>4, UsedWritten
      <3>6. p \in 1..Writes(module, target)[m]
        BY <3>3, <3>5 DEF Writes
      <3>7. <<m, p>> \in ToSet(L[n - 1])
        BY <1>3, <3>6, ListHas DEF Lists
      <3> QED BY <1>4, <1>6, <2>1, <3>2, <3>7
    <2> QED BY <2>3, <2>4
  <1>7. ASSUME NEW f \in ToSet(Op(i).operands), NEW k \in DOMAIN i.operands[f.name],
               NEW at, at = i.operands[f.name][k].at
        PROVE  index[at] \in 0..Len(l) - 1 /\ l[index[at] + 1] = at
    <2>1. at \in ToSet(l)
      BY <1>6, <1>7
    <2>2. PICK N \in Nat : N = Len(l) /\ DOMAIN l = 1..N
      BY <1>4, SeqIs
    <2>3. PICK j \in 1..N : l[j] = at
      BY <2>1, <2>2 DEF ToSet
    <2>4. index[l[j]] = j - 1
      BY <1>4, <2>2 DEF IndexOf
    <2>5. index[at] = j - 1
      BY <2>3, <2>4
    <2>6. index[at] + 1 = j /\ index[at] \in 0..N - 1
      BY <2>5
    <2> QED BY <2>2, <2>3, <2>6
  <1>8. ASSUME NEW f \in ToSet(Op(i).operands), NEW k \in DOMAIN i.operands[f.name]
        PROVE  /\ index[i.operands[f.name][k].at] \in 0..Len(l) - 1
               /\ l[index[i.operands[f.name][k].at] + 1] = i.operands[f.name][k].at
    <2>1. PICK at : at = i.operands[f.name][k].at
      OBVIOUS
    <2>2. index[at] \in 0..Len(l) - 1 /\ l[index[at] + 1] = at
      BY <1>7, <2>1
    <2> QED BY <2>1, <2>2
  <1>9. Resolves(i, index, l)
    BY <1>8 DEF Resolves
  <1> QED BY <1>4, <1>5, <1>9

LEMMA CodecStarts ==
    ASSUME IInv, Codec, NEW v \in Supported, StartWriting(v)
    PROVE  Codec'
  <1>1. /\ phase = "analyse" /\ phase' = "write" /\ current' = 0 /\ target' = v
        /\ valueIndexMap' = [u \in ToSet(ArgumentValues) |-> u[2] - 1]
        /\ arguments' = arguments /\ module' = module /\ file' = file
        /\ types' = types /\ read' = read
    BY DEF StartWriting, program, reading
  <1>2. Shape /\ Clean
    BY DEF IInv, Codec
  <1>3. file = <<>> /\ types = <<>> /\ read = <<>>
    BY <1>1, <1>2 DEF Clean
  <1>4. arguments \in Seq(DOMAIN Types)
    BY <1>2 DEF Shape, Built
  <1>5. PICK A \in Nat : A = Len(arguments) /\ DOMAIN arguments = 1..A
    BY <1>4, LenProperties
  <1>6. PICK N \in Nat : N = Len(module)
    BY <1>2, ArgumentsInUse
  <1>7. PICK c \in [1..N -> Nat] : c = Writes(module, v)
    BY <1>2, <1>6, WritesFacts
  <1>8. PICK L : Listed(L, A, N, c)
    BY ListExists
  <1>9. Lists(L)'
    BY <1>1, <1>5, <1>6, <1>7, <1>8 DEF Lists
  <1>10. Len(file) = 0 /\ IsSeq(file)
    BY <1>3 DEF IsSeq
  <1>11. OperationsWritten(L)'
    <2>1. \A n \in 1..Len(file') : FALSE
      BY <1>1, <1>10
    <2> QED BY <1>1, <1>10, <2>1 DEF OperationsWritten
  <1>12. WritingWith(L)'
    <2>1. PICK l : l = NewValues(0, A)
      OBVIOUS
    <2>2. L[0] = l
      BY <1>8, <2>1 DEF Listed
    <2>3. ArgumentValues = l
      BY <1>5, <2>1 DEF ArgumentValues, NewValues
    <2>4. IndexOf(valueIndexMap', l)
      BY <1>1, <2>1, <2>3, IndexStarts
    <2> QED BY <1>1, <1>10, <2>2, <2>4 DEF WritingWith
  <1>13. ReadingWith(L)'
    BY <1>1 DEF ReadingWith
  <1>14. Clean'
    BY <1>1, <1>3 DEF Clean
  <1>15. Coded'
    BY <1>9, <1>11, <1>12, <1>13 DEF Coded
  <1>16. AllWritten' /\ OperationsRead' /\ AllRead'
    BY <1>1 DEF AllWritten, OperationsRead, AllRead, InFile
  <1> QED BY <1>14, <1>15, <1>16 DEF Codec

LEMMA CodecWrites ==
    ASSUME IInv, Codec, WriteOperation
    PROVE  Codec'
  <1>1. /\ phase = "write" /\ current < Len(module) /\ target' = target
        /\ arguments' = arguments /\ module' = module /\ types' = types /\ read' = read
    BY DEF WriteOperation, program, reading
  <1>2. Shape /\ Clean /\ Coded
    BY DEF IInv, Codec
  <1>3. types = <<>> /\ read = <<>>
    BY <1>1, <1>2 DEF Clean
  <1>4. PICK N \in Nat : N = Len(module) /\ current \in 0..N /\ current + 1 \in 1..N
    <2>1. Len(module) \in Nat
      BY <1>2, ArgumentsInUse
    <2>2. current \in 0..Len(module)
      BY <1>2 DEF Shape
    <2>3. current + 1 \in 1..Len(module)
      BY <1>1, <2>1, <2>2
    <2> QED BY <2>1, <2>2, <2>3
  <1>5. PICK i : i = module[current + 1]
    OBVIOUS
  <1>6. CASE OpRefused(i, target)
    <2>1. phase' = "refused"
      BY <1>5, <1>6, Zenon DEF WriteOperation
    <2> QED BY <2>1 DEF Codec, Clean, Coded, AllWritten, InFile, OperationsRead, AllRead
  <1>7. CASE ~OpRefused(i, target)
    <2>1. PICK first : first = Cardinality(DOMAIN valueIndexMap)
      OBVIOUS
    <2>2. PICK count : count = Len(ResultsWritten(i, target))
      OBVIOUS
    <2>3. /\ phase' = "write" /\ current' = current + 1
          /\ file' = Append(file, OpTokens(i, target, valueIndexMap))
          /\ valueIndexMap' = Extended(valueIndexMap, Numbers(current + 1, count, first))
      BY <1>1, <1>5, <1>7, <2>1, <2>2, Zenon DEF WriteOperation, Numbers
    <2>4. PICK L : Lists(L) /\ OperationsWritten(L) /\ WritingWith(L)
      BY <1>1, <1>2 DEF Coded
    <2>5. Len(file) = current /\ IndexOf(valueIndexMap, L[current]) /\ IsSeq(file)
      BY <1>1, <2>4 DEF WritingWith, OperationsWritten
    <2>6. PICK tokens : tokens = OpTokens(i, target, valueIndexMap)
      OBVIOUS
    <2>7. /\ IsSeq(file') /\ Len(file') = current + 1 /\ file'[current + 1] = tokens
          /\ \A n \in 1..current : file'[n] = file[n]
      <3>1. PICK S : file \in Seq(S)
        BY <2>5 DEF IsSeq
      <3>2. PICK T : T = S \cup {tokens}
        OBVIOUS
      <3>3. file \in Seq(T) /\ tokens \in T
        BY <3>1, <3>2, WiderSeq
      <3>4. PICK s : s = Append(file, tokens)
        OBVIOUS
      <3>5. s \in Seq(T) /\ Len(s) = current + 1 /\ s[current + 1] = tokens
            /\ \A n \in 1..current : s[n] = file[n]
        BY <2>5, <3>3, <3>4, AppendProperties
      <3> QED BY <2>3, <2>6, <3>4, <3>5 DEF IsSeq
    <2>8. Lists(L)'
      BY <1>1, <2>4 DEF Lists
    <2>9. OperationsWritten(L)'
      <3>1. ASSUME NEW n \in 1..current + 1
            PROVE  TokensFor(file'[n], module[n], target, L[n - 1])
        <4>1. CASE n = current + 1
          <5>1. n - 1 = current
            BY <1>4, <4>1
          <5>2. TokensFor(tokens, i, target, L[current])
            BY <2>5, <2>6 DEF TokensFor
          <5> QED BY <1>5, <2>7, <4>1, <5>1, <5>2
        <4>2. CASE n # current + 1
          <5>1. n \in 1..current
            BY <1>4, <4>2
          <5>2. TokensFor(file[n], module[n], target, L[n - 1])
            BY <2>4, <2>5, <5>1 DEF OperationsWritten
          <5> QED BY <2>7, <5>1, <5>2
        <4> QED BY <4>1, <4>2
      <3> QED BY <1>1, <2>7, <3>1 DEF OperationsWritten
    <2>10. WritingWith(L)'
      <3>1. PICK n \in Nat : n = current + 1 /\ n \in 1..N /\ n - 1 = current /\ n - 1 \in 0..N
        BY <1>4
      <3>2. Listed(L, Len(arguments), N, Writes(module, target))
        BY <1>4, <2>4 DEF Lists
      <3>3. PICK l \in Seq((0..n - 1) \X Nat) : l = L[n - 1] /\ IndexOf(valueIndexMap, l)
        BY <2>5, <3>1, <3>2 DEF Listed
      <3>4. count \in Nat /\ Writes(module, target)[n] = count
        <4>1. ResultsWritten(i, target) \in Seq(DOMAIN Types)
          BY <1>2, <1>4, <1>5, ArgumentsInUse, WrittenFacts
        <4>2. count \in Nat
          BY <2>2, <4>1, LenProperties
        <4> QED BY <1>4, <1>5, <2>2, <3>1, <4>2 DEF Writes
      <3>5. PICK b : b = NewValues(n, count)
        OBVIOUS
      <3>6. L[n] = l \o b
        BY <3>1, <3>2, <3>3, <3>4, <3>5 DEF Listed
      <3>7. valueIndexMap' = Extended(valueIndexMap, Numbers(n, count, first))
        BY <2>3, <3>1
      <3>8. IndexOf(valueIndexMap', l \o b)
        BY <2>1, <3>3, <3>4, <3>5, <3>7, IndexGrows
      <3>9. IndexOf(valueIndexMap', L[n])
        BY <3>6, <3>8
      <3> QED BY <2>3, <2>7, <3>1, <3>9 DEF WritingWith
    <2>11. ReadingWith(L)'
      BY <2>3 DEF ReadingWith
    <2>12. Coded'
      BY <2>8, <2>9, <2>10, <2>11 DEF Coded
    <2>13. Clean'
      BY <1>1, <1>3, <2>3 DEF Clean
    <2>14. AllWritten' /\ OperationsRead' /\ AllRead'
      BY <2>3 DEF AllWritten, OperationsRead, AllRead, InFile
    <2> QED BY <2>12, <2>13, <2>14 DEF Codec
  <1> QED BY <1>6, <1>7

LEMMA CodecTypeSection ==
    ASSUME IInv, Codec, WriteTypeSection
    PROVE  Codec'
  <1>1. /\ phase = "write" /\ current = Len(module) /\ target' = target /\ typeTable' = typeTable
        /\ arguments' = arguments /\ module' = module /\ types' = types /\ read' = read
        /\ file' = file
    BY DEF WriteTypeSection, program, reading
  <1>2. Shape /\ Clean /\ Coded
    BY DEF IInv, Codec
  <1>3. \/ phase' = "refused"
        \/ phase' = "written" /\ typeSection' = [t \in typeTable |-> TypeTokens(t, target)]
    BY DEF WriteTypeSection
  <1>4. CASE phase' = "refused"
    BY <1>4 DEF Codec, Clean, Coded, AllWritten, InFile, OperationsRead, AllRead
  <1>5. CASE phase' = "written" /\ typeSection' = [t \in typeTable |-> TypeTokens(t, target)]
    <2>1. PICK L : Lists(L) /\ OperationsWritten(L) /\ WritingWith(L)
      BY <1>1, <1>2 DEF Coded
    <2>2. Len(file) = Len(module)
      BY <1>1, <2>1 DEF WritingWith
    <2>3. Lists(L)' /\ OperationsWritten(L)' /\ WritingWith(L)' /\ ReadingWith(L)'
      <3>1. Lists(L)'
        BY <1>1, <2>1 DEF Lists
      <3>2. OperationsWritten(L)'
        BY <1>1, <2>1 DEF OperationsWritten
      <3>3. WritingWith(L)' /\ ReadingWith(L)'
        BY <1>5 DEF WritingWith, ReadingWith
      <3> QED BY <3>1, <3>2, <3>3
    <2>4. Coded'
      BY <2>3 DEF Coded
    <2>5. Clean'
      BY <1>1, <1>2, <1>5 DEF Clean
    <2>6. AllWritten'
      BY <1>1, <1>5, <2>2 DEF AllWritten
    <2>7. OperationsRead' /\ AllRead'
      BY <1>5 DEF OperationsRead, AllRead
    <2> QED BY <2>4, <2>5, <2>6, <2>7 DEF Codec
  <1> QED BY <1>3, <1>4, <1>5

LEMMA CodecStartsReading ==
    ASSUME IInv, Codec, NEW r \in Supported, StartReading(r)
    PROVE  Codec'
  <1>1. /\ phase = "written" /\ r \in target..Latest /\ phase' = "read" /\ current' = 0 /\ release' = r
        /\ valueIndexList' = ArgumentValues /\ types' = types /\ read' = read
        /\ arguments' = arguments /\ module' = module
        /\ target' = target /\ file' = file /\ typeTable' = typeTable /\ typeSection' = typeSection
    BY DEF StartReading, program, writing
  <1>2. Shape /\ Clean /\ Coded /\ AllWritten
    BY DEF IInv, Codec
  <1>3. types = <<>> /\ read = <<>>
    BY <1>1, <1>2 DEF Clean
  <1>4. PICK L : Lists(L) /\ OperationsWritten(L)
    BY <1>1, <1>2 DEF Coded
  <1>5. Lists(L)' /\ OperationsWritten(L)' /\ WritingWith(L)'
    <2>1. Lists(L)'
      BY <1>1, <1>4 DEF Lists
    <2>2. OperationsWritten(L)'
      BY <1>1, <1>4 DEF OperationsWritten
    <2>3. WritingWith(L)'
      BY <1>1 DEF WritingWith
    <2> QED BY <2>1, <2>2, <2>3
  <1>6. ReadingWith(L)'
    <2>1. arguments \in Seq(DOMAIN Types)
      BY <1>2 DEF Shape, Built
    <2>2. PICK A \in Nat : A = Len(arguments) /\ DOMAIN arguments = 1..A
      BY <2>1, LenProperties
    <2>3. ArgumentValues = NewValues(0, A)
      BY <2>2 DEF ArgumentValues, NewValues
    <2>4. L[0] = NewValues(0, A)
      BY <1>4, <2>2 DEF Lists, Listed
    <2> QED BY <1>1, <2>3, <2>4 DEF ReadingWith
  <1>7. AllWritten'
    BY <1>1, <1>2 DEF AllWritten, InFile
  <1>8. OperationsRead'
    <2>1. IsSeq(read) /\ Len(read) = 0
      BY <1>3 DEF IsSeq
    <2>2. \A n \in 1..0 : FALSE
      OBVIOUS
    <2>3. DOMAIN types = {}
      BY <1>3
    <2>4. DOMAIN types' = typeTable' => \A t \in typeTable' : TypeReadAs(t, release, types[t])'
      BY <1>1, <2>3
    <2> QED BY <1>1, <2>1, <2>2, <2>4 DEF OperationsRead
  <1>9. Coded' /\ Clean' /\ AllRead'
    BY <1>1, <1>5, <1>6 DEF Coded, Clean, AllRead
  <1> QED BY <1>7, <1>8, <1>9 DEF Codec

LEMMA TableInUse ==
    ASSUME Shape, Taken, InFile
    PROVE  \A t \in typeTable : t \in DOMAIN Types /\ ~TypeRefused(t, target)
  <1>1. /\ \A t \in typeTable : ~TypeRefused(t, target)
        /\ \A t \in typeTable :
            \/ t \in Registered(ToSet(arguments))
            \/ \E n \in 1..Len(module) : t \in Registered(OpTypes(module[n], target))
    BY DEF Taken, InFile
  <1>2. Registered(ToSet(arguments)) \in SUBSET DOMAIN Types
    BY ArgumentsInUse, Registering
  <1>3. ASSUME NEW n \in 1..Len(module)
        PROVE  Registered(OpTypes(module[n], target)) \in SUBSET DOMAIN Types
    <2>1. OpTypes(module[n], target) \in SUBSET DOMAIN Types
      BY ArgumentsInUse, OpTypesInUse
    <2> QED BY <2>1, Registering
  <1> QED BY <1>1, <1>2, <1>3

(* The type section is read: every type in it is understood.               *)
LEMMA CodecReadsTypes ==
    ASSUME IInv, Codec, ReadTypeSection
    PROVE  Codec'
  <1>1. /\ phase = "read" /\ current' = current /\ release' = release /\ read' = read
        /\ valueIndexList' = valueIndexList /\ arguments' = arguments /\ module' = module
        /\ target' = target /\ file' = file /\ typeTable' = typeTable /\ typeSection' = typeSection
    BY DEF ReadTypeSection, program, writing
  <1>2. Shape /\ Taken /\ Clean /\ Coded /\ AllWritten /\ OperationsRead /\ InFile
    BY <1>1 DEF IInv, Codec, InFile
  <1>3. release \in target..Latest /\ typeSection = [t \in typeTable |-> TypeTokens(t, target)]
    BY <1>1, <1>2 DEF OperationsRead, AllWritten
  <1>4. target \in Supported
    BY <1>2 DEF Taken, InFile
  <1>5. PICK parsed : parsed = [t \in typeTable |-> ReadType(release, typeSection[t], target)]
    OBVIOUS
  <1>6. ASSUME NEW t \in typeTable PROVE TypeUnderstood(t, release, parsed[t])
    <2>1. t \in DOMAIN Types /\ ~TypeRefused(t, target)
      BY <1>2, TableInUse
    <2>2. TypeUnderstood(t, release, ReadType(release, TypeTokens(t, target), target))
      BY <1>3, <1>4, <2>1, TypeRead
    <2>3. parsed[t] = ReadType(release, typeSection[t], target)
      BY <1>5
    <2>4. typeSection[t] = TypeTokens(t, target)
      BY <1>3
    <2> QED BY <2>2, <2>3, <2>4
  <1>7. \A t \in typeTable : parsed[t].ok
    BY <1>6 DEF TypeUnderstood
  <1>8. PICK found : found = [t \in typeTable |-> [decl |-> parsed[t].decl, args |-> parsed[t].args]]
    OBVIOUS
  <1>9. phase' = "read" /\ types' = found
    <2> DEFINE all == [t \in typeTable |-> ReadType(release, typeSection[t], target)]
    <2>1. IF \A t \in typeTable : all[t].ok
          THEN /\ types' = [t \in typeTable |-> [decl |-> all[t].decl, args |-> all[t].args]]
               /\ phase' = phase
          ELSE phase' = "malformed"
      BY Zenon DEF ReadTypeSection
    <2>2. all = parsed
      BY <1>5
    <2> HIDE DEF all
    <2>3. \A t \in typeTable : all[t].ok
      BY <1>7, <2>2
    <2>4. phase' = phase /\ types' = [t \in typeTable |-> [decl |-> all[t].decl, args |-> all[t].args]]
      BY <2>1, <2>3, Zenon
    <2>5. types' = [t \in typeTable |-> [decl |-> parsed[t].decl, args |-> parsed[t].args]]
      BY <2>2, <2>4
    <2> QED BY <1>1, <1>8, <2>4, <2>5
  <1>10. \A t \in typeTable : TypeReadAs(t, release, found[t])
    <2>1. ASSUME NEW t \in typeTable PROVE TypeReadAs(t, release, found[t])
      <3>1. found[t] = [decl |-> parsed[t].decl, args |-> parsed[t].args]
        BY <1>8
      <3> QED BY <1>6, <3>1, Zenon DEF TypeReadAs
    <2> QED BY <2>1
  <1>11. OperationsRead'
    <2>1. DOMAIN types' = typeTable' => \A t \in typeTable' : TypeReadAs(t, release, types[t])'
      BY <1>1, <1>9, <1>10
    <2>2. \A n \in 1..current' :
                (read[n] = Meaning(module[n], KnownOp(Op(module[n]), release), target))'
      BY <1>1, <1>2 DEF OperationsRead
    <2>3. release' \in target'..Latest /\ IsSeq(read') /\ Len(read') = current'
      BY <1>1, <1>2 DEF OperationsRead
    <2> QED BY <2>1, <2>2, <2>3 DEF OperationsRead
  <1>12. Coded'
    <2>1. PICK L : Lists(L) /\ OperationsWritten(L) /\ ReadingWith(L)
      BY <1>1, <1>2 DEF Coded
    <2>2. Lists(L)'
      BY <1>1, <2>1 DEF Lists
    <2>3. OperationsWritten(L)'
      BY <1>1, <2>1 DEF OperationsWritten
    <2>4. WritingWith(L)' /\ ReadingWith(L)'
      BY <1>1, <1>9, <2>1 DEF WritingWith, ReadingWith
    <2> QED BY <2>2, <2>3, <2>4 DEF Coded
  <1>13. Clean' /\ AllRead'
    BY <1>9 DEF Clean, AllRead
  <1>14. AllWritten'
    BY <1>1, <1>2, <1>9 DEF AllWritten, InFile
  <1> QED BY <1>11, <1>12, <1>13, <1>14 DEF Codec

LEMMA CodecFinishes ==
    ASSUME IInv, Codec, FinishReading
    PROVE  Codec'
  <1>1. /\ phase = "read" /\ phase' = "done" /\ DOMAIN types = typeTable /\ current = Len(module)
        /\ current' = current /\ release' = release /\ read' = read /\ types' = types
        /\ valueIndexList' = valueIndexList /\ arguments' = arguments /\ module' = module
        /\ target' = target /\ file' = file /\ typeTable' = typeTable /\ typeSection' = typeSection
    BY DEF FinishReading, program, writing, reading
  <1>2. Coded /\ AllWritten /\ OperationsRead
    BY DEF Codec
  <1>3. OperationsRead'
    <2>1. DOMAIN types' = typeTable' => \A t \in typeTable' : TypeReadAs(t, release, types[t])'
      BY <1>1, <1>2 DEF OperationsRead
    <2>2. \A n \in 1..current' :
                (read[n] = Meaning(module[n], KnownOp(Op(module[n]), release), target))'
      BY <1>1, <1>2 DEF OperationsRead
    <2>3. release' \in target'..Latest /\ IsSeq(read') /\ Len(read') = current'
      BY <1>1, <1>2 DEF OperationsRead
    <2> QED BY <2>1, <2>2, <2>3 DEF OperationsRead
  <1>4. Coded'
    <2>1. PICK L : Lists(L) /\ OperationsWritten(L)
      BY <1>1, <1>2 DEF Coded
    <2>2. Lists(L)'
      BY <1>1, <2>1 DEF Lists
    <2>3. OperationsWritten(L)'
      BY <1>1, <2>1 DEF OperationsWritten
    <2>4. WritingWith(L)' /\ ReadingWith(L)'
      BY <1>1 DEF WritingWith, ReadingWith
    <2> QED BY <2>2, <2>3, <2>4 DEF Coded
  <1>5. Clean' /\ AllRead' /\ AllWritten'
    BY <1>1, <1>2 DEF Clean, AllRead, AllWritten, InFile
  <1> QED BY <1>3, <1>4, <1>5 DEF Codec

KnownBy(opcode, r) == {o \in DOMAIN OpDecls : OpDecls[o].opcode = opcode /\ OpDecls[o].since <= r}

IndicesRead(K, got) == UNION {ToSet(got[f]) : f \in Names(K.operands)}

(* The opcode tells the release which operation it is.                     *)
LEMMA OpcodeKnown ==
    ASSUME NEW i, NEW v, NEW r, NEW D, NEW K, Reads(i, v, r, D, K)
    PROVE  /\ KnownBy(D.opcode, r) # {}
           /\ KnownOp(OpDecls[CHOOSE o \in KnownBy(D.opcode, r) : TRUE], r) = K
  <1>1. /\ v \in Nat /\ r \in Nat /\ v <= r /\ D.since \in Nat /\ D.since <= v
        /\ D = OpDecls[i.op] /\ i.op \in DOMAIN OpDecls
    BY ReadsVersions
  <1>2. PICK S : S = KnownBy(D.opcode, r)
    OBVIOUS
  <1>3. i.op \in S
    BY <1>1, <1>2 DEF KnownBy
  <1>4. \A o \in S : o = i.op
    BY <1>1, <1>2, OpcodesAssumption DEF KnownBy, OpcodesAccepted
  <1>5. PICK o : o = CHOOSE x \in S : TRUE
    OBVIOUS
  <1>6. o = i.op
    BY <1>3, <1>4, <1>5
  <1>7. K = KnownOp(D, r)
    BY DEF Reads
  <1> QED BY <1>1, <1>2, <1>3, <1>5, <1>6, <1>7

(* Its operands are values that the release has.                           *)
LEMMA IndicesKnown ==
    ASSUME NEW i, NEW v, NEW r, NEW D, NEW K, Reads(i, v, r, D, K),
           NEW index, NEW values, Resolves(i, index, values), IsSeq(values),
           NEW G, G = OpValues(i, v, index), NEW got, got = Got(FoundNames(i, K), G)
    PROVE  \A n \in IndicesRead(K, got) : n < Len(values)
  <1>1. ASSUME NEW f \in ToSet(K.operands)
        PROVE  \A n \in ToSet(got[f.name]) : n < Len(values)
    <2>1. f \in ToSet(D.operands) /\ D = Op(i)
      BY ReadsKnown DEF Reads
    <2>2. f.name \in FoundNames(i, K)
      BY DEF FoundNames, Names
    <2>3. got[f.name] = G[f.name]
      BY <2>2 DEF Got
    <2>4. PICK group : group = i.operands[f.name]
      OBVIOUS
    <2>5. PICK at : at = IndicesOf(group, index)
      OBVIOUS
    <2>6. G[f.name] = at
      BY <2>1, <2>4, <2>5, OpValuesAre
    <2>7. at = [n \in DOMAIN group |-> index[group[n].at]]
      BY <2>5 DEF IndicesOf
    <2>8. \A n \in DOMAIN group : index[group[n].at] \in 0..Len(values) - 1
      BY <2>1, <2>4 DEF Resolves
    <2>9. Len(values) \in Nat
      BY SeqIs
    <2>10. ASSUME NEW x \in ToSet(at) PROVE x < Len(values)
      <3>1. PICK n \in DOMAIN group : x = index[group[n].at]
        BY <2>7 DEF ToSet
      <3>2. x \in 0..Len(values) - 1
        BY <2>8, <3>1
      <3> QED BY <2>9, <3>2
    <2> QED BY <2>3, <2>6, <2>10
  <1>2. ASSUME NEW n \in IndicesRead(K, got) PROVE n < Len(values)
    <2>1. PICK f \in ToSet(K.operands) : n \in ToSet(got[f.name])
      BY DEF IndicesRead, Names
    <2> QED BY <1>1, <2>1
  <1> QED BY <1>2

Parsed(s) == s.ok

ResultsGot(got, n) == [k \in DOMAIN got["results"] |-> <<n, k>>]

(* What the handler does when nothing is wrong with its input.             *)
LEMMA OperationReadIs ==
    ASSUME ReadOperation, NEW K, NEW opcode, opcode = Head(file[current + 1]).of,
           KnownBy(opcode, release) # {},
           KnownOp(OpDecls[CHOOSE o \in KnownBy(opcode, release) : TRUE], release) = K,
           NEW parsed, parsed = ReadOp(K, release, file[current + 1], target),
           Parsed(parsed), NEW got, got = parsed.got,
           \A n \in IndicesRead(K, got) : n < Len(valueIndexList),
           NEW operands, operands = [f \in Names(K.operands) |-> Resolved(got[f], valueIndexList)]
    PROVE  /\ phase' = phase /\ current' = current + 1
           /\ read' = Append(read, Extended(operands, got))
           /\ valueIndexList' = Joined(valueIndexList, ResultsGot(got, current + 1))
  <1> DEFINE code == Head(file[current + 1]).of
             known == {o \in DOMAIN OpDecls : OpDecls[o].opcode = code /\ OpDecls[o].since <= release}
             d == KnownOp(OpDecls[CHOOSE o \in known : TRUE], release)
             all == ReadOp(d, release, file[current + 1], target)
             names == {g.name : g \in ToSet(d.operands)}
             indices == UNION {ToSet(all.got[f]) : f \in names}
             resolve(at) == [n \in DOMAIN at |-> valueIndexList[at[n] + 1]]
             values == [f \in names |-> resolve(all.got[f])]
  <1>1. IF known # {} /\ all.ok /\ \A n \in indices : n < Len(valueIndexList)
        THEN /\ read' = Append(read, Extended(values, all.got))
             /\ valueIndexList' = valueIndexList \o [k \in DOMAIN all.got["results"] |-> <<current + 1, k>>]
             /\ current' = current + 1
             /\ phase' = phase
        ELSE phase' = "malformed"
    BY Zenon DEF ReadOperation
  <1>2. known = KnownBy(opcode, release)
    BY DEF KnownBy
  <1> HIDE DEF known
  <1>3. d = K
    BY <1>2, Zenon
  <1> HIDE DEF d
  <1>4. all = parsed
    BY <1>3
  <1> HIDE DEF all
  <1>5. names = Names(K.operands)
    BY <1>3 DEF Names
  <1> HIDE DEF names
  <1>6. all.got = got
    BY <1>4
  <1>7. indices = IndicesRead(K, got)
    BY <1>5, <1>6 DEF IndicesRead
  <1> HIDE DEF indices
  <1>8. values = operands
    <2>1. values = [f \in names |-> Resolved(all.got[f], valueIndexList)]
      BY Zenon DEF Resolved
    <2> QED BY <1>5, <1>6, <2>1
  <1> HIDE DEF values
  <1>9. known # {} /\ all.ok /\ \A n \in indices : n < Len(valueIndexList)
    BY <1>2, <1>4, <1>7 DEF Parsed
  <1>10. /\ read' = Append(read, Extended(values, all.got))
         /\ valueIndexList' = valueIndexList \o [k \in DOMAIN all.got["results"] |-> <<current + 1, k>>]
         /\ current' = current + 1
         /\ phase' = phase
    BY <1>1, <1>9, Zenon
  <1>11. [k \in DOMAIN all.got["results"] |-> <<current + 1, k>>] = ResultsGot(got, current + 1)
    BY <1>6 DEF ResultsGot
  <1> QED BY <1>6, <1>8, <1>10, <1>11 DEF Joined

LEMMA NoneRefused ==
    ASSUME Taken, InFile
    PROVE  target \in Supported /\ \A n \in 1..Len(module) : ~OpRefused(module[n], target)
  BY DEF Taken, InFile, Accepted

(* An operation is read: it is what was written, and the values get the    *)
(* places they had.                                                        *)
LEMMA CodecReads ==
    ASSUME IInv, Codec, ReadOperation
    PROVE  Codec'
  <1>1. /\ phase = "read" /\ DOMAIN types = typeTable /\ current < Len(module)
        /\ release' = release /\ types' = types /\ arguments' = arguments /\ module' = module
        /\ target' = target /\ file' = file /\ typeTable' = typeTable /\ typeSection' = typeSection
    BY Zenon DEF ReadOperation, program, writing
  <1>2. Shape /\ Taken /\ Coded /\ AllWritten /\ OperationsRead /\ InFile
    BY <1>1 DEF IInv, Codec, InFile
  <1>3. PICK N \in Nat : N = Len(module) /\ current \in 0..N
    BY <1>2, ArgumentsInUse DEF Shape
  <1>4. PICK n \in Nat : n = current + 1 /\ n \in 1..N /\ n - 1 = current /\ n - 1 \in 0..N
    BY <1>1, <1>3
  <1>5. PICK L : Lists(L) /\ OperationsWritten(L) /\ ReadingWith(L)
    BY <1>1, <1>2 DEF Coded
  <1>6. Listed(L, Len(arguments), N, Writes(module, target))
    BY <1>3, <1>5 DEF Lists
  <1>7. PICK l : l = L[n - 1] /\ IsSeq(l) /\ valueIndexList = l
    BY <1>1, <1>4, <1>5, <1>6, ListHas DEF ReadingWith
  <1>8. PICK i : i = module[n] /\ OperationIs(i)
    BY <1>2, <1>3, <1>4, ArgumentsInUse
  <1>9. PICK D : D = Op(i)
    OBVIOUS
  <1>10. PICK K : K = KnownOp(D, release)
    OBVIOUS
  <1>11. Reads(i, target, release, D, K)
    <2>1. target \in Supported /\ ~OpRefused(i, target)
      BY <1>2, <1>3, <1>4, <1>8, NoneRefused
    <2>2. release \in target..Latest
      BY <1>1, <1>2 DEF OperationsRead
    <2> QED BY <1>8, <1>9, <1>10, <2>1, <2>2 DEF Reads
  <1>12. PICK index : IndexOf(index, L[n - 1]) /\ file[n] = OpTokens(i, target, index)
    <2>1. n \in 1..Len(file)
      BY <1>2, <1>3, <1>4 DEF AllWritten
    <2>2. TokensFor(file[n], i, target, L[n - 1])
      BY <1>5, <1>8, <2>1 DEF OperationsWritten
    <2> QED BY <2>2 DEF TokensFor
  <1>13. Resolves(i, index, l)
    BY <1>2, <1>3, <1>4, <1>5, <1>7, <1>8, <1>12, OperandListed
  <1>14. PICK tokens : tokens = file[n]
    OBVIOUS
  <1>15. PICK G : G = OpValues(i, target, index)
    OBVIOUS
  <1>16. PICK parsed : parsed = ReadOp(K, release, tokens, target)
    OBVIOUS
  <1>17. tokens = OpTokens(i, target, index)
    BY <1>12, <1>14
  <1>18. parsed.ok /\ parsed.got = Got(OpGot(i, target, K), G) /\ Head(tokens).of = D.opcode
    BY <1>11, <1>15, <1>16, <1>17, OpRead
  <1>19. PICK got : got = parsed.got
    OBVIOUS
  <1>20. got = Got(FoundNames(i, K), G)
    <2>1. OpGot(i, target, K) = FoundNames(i, K)
      BY <1>11, GotNames
    <2> QED BY <1>18, <1>19, <2>1
  <1>21. PICK operands : operands = [f \in Names(K.operands) |-> Resolved(got[f], l)]
    OBVIOUS
  <1>22. Extended(operands, got) = Meaning(i, K, target)
    BY <1>11, <1>13, <1>15, <1>20, <1>21, MeaningRead
  <1>23. \A m \in IndicesRead(K, got) : m < Len(l)
    BY <1>7, <1>11, <1>13, <1>15, <1>20, IndicesKnown
  <1>24. /\ phase' = phase /\ current' = n /\ read' = Append(read, Extended(operands, got))
         /\ valueIndexList' = Joined(l, ResultsGot(got, n))
    <2>1. PICK opcode : opcode = D.opcode
      OBVIOUS
    <2>2. opcode = Head(file[current + 1]).of
      BY <1>4, <1>14, <1>18, <2>1
    <2>3. KnownBy(opcode, release) # {}
      BY <1>11, <2>1, OpcodeKnown
    <2>4. KnownOp(OpDecls[CHOOSE o \in KnownBy(opcode, release) : TRUE], release) = K
      BY <1>11, <2>1, OpcodeKnown
    <2>5. parsed = ReadOp(K, release, file[current + 1], target)
      BY <1>4, <1>14, <1>16
    <2>6. \A m \in IndicesRead(K, got) : m < Len(valueIndexList)
      BY <1>7, <1>23
    <2>7. operands = [f \in Names(K.operands) |-> Resolved(got[f], valueIndexList)]
      BY <1>7, <1>21
    <2>8. Parsed(parsed)
      BY <1>18 DEF Parsed
    <2>9. /\ phase' = phase /\ current' = current + 1
          /\ read' = Append(read, Extended(operands, got))
          /\ valueIndexList' = Joined(valueIndexList, ResultsGot(got, current + 1))
      BY <2>8, <1>19, <2>2, <2>3, <2>4, <2>5, <2>6, <2>7, OperationReadIs
    <2> QED BY <1>4, <1>7, <2>9
  <1>25. valueIndexList' = L[n]
    <2>1. got["results"] = ResultsWritten(i, target)
      <3>1. "results" \in FoundNames(i, K)
        BY DEF FoundNames
      <3>2. G["results"] = ResultsWritten(i, target)
        BY <1>11, <1>15, OpValuesAre
      <3> QED BY <1>20, <3>1, <3>2 DEF Got
    <2>2. PICK count \in Nat : DOMAIN got["results"] = 1..count /\ Writes(module, target)[n] = count
      <3>1. ResultsWritten(i, target) \in Seq(DOMAIN Types)
        BY <1>8, WrittenFacts
      <3>2. PICK count \in Nat : count = Len(ResultsWritten(i, target))
        BY <3>1, LenProperties
      <3>3. DOMAIN ResultsWritten(i, target) = 1..count
        BY <3>1, <3>2, LenProperties
      <3>4. Writes(module, target)[n] = count
        BY <1>3, <1>4, <1>8, <3>2 DEF Writes
      <3> QED BY <2>1, <3>3, <3>4
    <2>3. ResultsGot(got, n) = NewValues(n, count)
      BY <2>2 DEF NewValues, ResultsGot
    <2>4. PICK b : b = NewValues(n, count)
      OBVIOUS
    <2>5. L[n] = l \o b
      BY <1>4, <1>6, <1>7, <2>2, <2>4 DEF Listed
    <2> QED BY <1>24, <2>3, <2>4, <2>5 DEF Joined
  <1>26. PICK meant : meant = Meaning(i, K, target)
    OBVIOUS
  <1>27. /\ IsSeq(read') /\ Len(read') = n /\ read'[n] = meant
         /\ \A m \in 1..current : read'[m] = read[m]
    <2>1. IsSeq(read) /\ Len(read) = current
      BY <1>1, <1>2 DEF OperationsRead
    <2>2. PICK S : read \in Seq(S)
      BY <2>1 DEF IsSeq
    <2>3. PICK T : T = S \cup {meant}
      OBVIOUS
    <2>4. read \in Seq(T) /\ meant \in T
      BY <2>2, <2>3, WiderSeq
    <2>5. PICK s : s = Append(read, meant)
      OBVIOUS
    <2>6. s \in Seq(T) /\ Len(s) = current + 1 /\ s[current + 1] = meant
          /\ \A m \in 1..current : s[m] = read[m]
      BY <2>1, <2>4, <2>5, AppendProperties
    <2>7. read' = s
      BY <1>22, <1>24, <1>26, <2>5
    <2> QED BY <1>4, <2>6, <2>7 DEF IsSeq
  <1>28. OperationsRead'
    <2>1. ASSUME NEW m \in 1..n
          PROVE  read'[m] = Meaning(module[m], KnownOp(Op(module[m]), release), target)
      <3>1. CASE m = n
        BY <1>8, <1>9, <1>10, <1>26, <1>27, <3>1
      <3>2. CASE m # n
        <4>1. m \in 1..current
          BY <1>3, <1>4, <3>2
        <4> QED BY <1>1, <1>2, <1>27, <4>1 DEF OperationsRead
      <3> QED BY <3>1, <3>2
    <2>2. \A m \in 1..current' :
                (read[m] = Meaning(module[m], KnownOp(Op(module[m]), release), target))'
      BY <1>1, <1>24, <2>1
    <2>3. DOMAIN types' = typeTable' => \A t \in typeTable' : TypeReadAs(t, release, types[t])'
      BY <1>1, <1>2 DEF OperationsRead
    <2>4. release' \in target'..Latest /\ IsSeq(read') /\ Len(read') = current'
      BY <1>1, <1>2, <1>24, <1>27 DEF OperationsRead
    <2> QED BY <2>2, <2>3, <2>4 DEF OperationsRead
  <1>29. Coded'
    <2>1. Lists(L)'
      BY <1>1, <1>5 DEF Lists
    <2>2. OperationsWritten(L)'
      BY <1>1, <1>5 DEF OperationsWritten
    <2>3. WritingWith(L)' /\ ReadingWith(L)'
      BY <1>1, <1>24, <1>25 DEF WritingWith, ReadingWith
    <2> QED BY <2>1, <2>2, <2>3 DEF Coded
  <1>30. Clean'
    BY <1>1, <1>2, <1>24 DEF Clean, InFile
  <1>31. AllRead'
    BY <1>1, <1>24 DEF AllRead
  <1>32. AllWritten'
    BY <1>1, <1>2, <1>24 DEF AllWritten, InFile
  <1> QED BY <1>28, <1>29, <1>30, <1>31, <1>32 DEF Codec

-----------------------------------------------------------------------------
LEMMA CodecInit ==
    ASSUME Init
    PROVE  Codec
  <1>1. phase = "build" /\ file = <<>> /\ types = <<>> /\ read = <<>>
    BY DEF Init
  <1> QED BY <1>1 DEF Codec, Clean, Coded, AllWritten, InFile, OperationsRead, AllRead

(* Before the writing, neither the file nor what is read changes.          *)
LEMMA CodecBuilds ==
    ASSUME Codec, phase \in {"build", "analyse"}, phase' \in {"build", "analyse"},
           UNCHANGED <<writing, reading>>
    PROVE  Codec'
  <1>1. file' = file /\ types' = types /\ read' = read
    BY DEF writing, reading
  <1>2. Clean
    BY DEF Codec
  <1> QED BY <1>1, <1>2 DEF Codec, Clean, Coded, AllWritten, InFile, OperationsRead, AllRead

LEMMA CodecStays ==
    ASSUME Codec, UNCHANGED vars
    PROVE  Codec'
  <1>1. /\ phase' = phase /\ current' = current /\ release' = release /\ read' = read /\ types' = types
        /\ valueIndexList' = valueIndexList /\ arguments' = arguments /\ module' = module
        /\ target' = target /\ file' = file /\ typeTable' = typeTable /\ typeSection' = typeSection
        /\ valueIndexMap' = valueIndexMap
    BY DEF vars
  <1>2. Clean /\ Coded /\ AllWritten /\ OperationsRead /\ AllRead
    BY DEF Codec
  <1>3. OperationsRead'
    <2>1. SUFFICES ASSUME phase \in {"read", "done"}
                   PROVE  /\ release \in target..Latest /\ IsSeq(read) /\ Len(read) = current
                          /\ \A n \in 1..current : 
                               (read[n] = Meaning(module[n], KnownOp(Op(module[n]), release), target))'
                          /\ DOMAIN types = typeTable =>
                               \A t \in typeTable : TypeReadAs(t, release, types[t])
      BY <1>1 DEF OperationsRead
    <2>2. \A n \in 1..current :
               (read[n] = Meaning(module[n], KnownOp(Op(module[n]), release), target))'
      BY <1>1, <1>2, <2>1 DEF OperationsRead
    <2> QED BY <1>2, <2>1, <2>2 DEF OperationsRead
  <1>4. Coded'
    <2>1. SUFFICES ASSUME phase \notin {"build", "analyse", "refused"}
                   PROVE  \E L : Lists(L)' /\ OperationsWritten(L)' /\ WritingWith(L)' /\ ReadingWith(L)'
      BY <1>1 DEF Coded
    <2>2. PICK L : Lists(L) /\ OperationsWritten(L) /\ WritingWith(L) /\ ReadingWith(L)
      BY <1>2, <2>1 DEF Coded
    <2>3. Lists(L)'
      BY <1>1, <2>2 DEF Lists
    <2>4. OperationsWritten(L)'
      BY <1>1, <2>2 DEF OperationsWritten
    <2>5. WritingWith(L)' /\ ReadingWith(L)'
      BY <1>1, <2>2 DEF WritingWith, ReadingWith
    <2> QED BY <2>3, <2>4, <2>5
  <1>5. Clean' /\ AllRead' /\ AllWritten'
    BY <1>1, <1>2 DEF Clean, AllRead, AllWritten, InFile
  <1> QED BY <1>3, <1>4, <1>5 DEF Codec

LEMMA CodecStep ==
    ASSUME IInv, Codec, [Next]_vars
    PROVE  Codec'
  <1>1. CASE UNCHANGED vars
    BY <1>1, CodecStays
  <1>2. ASSUME NEW i \in UNION ToSet(Instances), AddOperation(i) PROVE Codec'
    BY <1>2, CodecBuilds DEF AddOperation
  <1>3. CASE StartAnalysis
    BY <1>3, CodecBuilds DEF StartAnalysis
  <1>4. CASE AnalyseOperation
    BY <1>4, CodecBuilds DEF AnalyseOperation
  <1>5. ASSUME NEW v \in Supported, StartWriting(v) PROVE Codec'
    BY <1>5, CodecStarts
  <1>6. CASE WriteOperation
    BY <1>6, CodecWrites
  <1>7. CASE WriteTypeSection
    BY <1>7, CodecTypeSection
  <1>8. ASSUME NEW r \in Supported, StartReading(r) PROVE Codec'
    BY <1>8, CodecStartsReading
  <1>9. CASE ReadTypeSection
    BY <1>9, CodecReadsTypes
  <1>10. CASE ReadOperation
    BY <1>10, CodecReads
  <1>11. CASE FinishReading
    BY <1>11, CodecFinishes
  <1> QED BY <1>1, <1>2, <1>3, <1>4, <1>5, <1>6, <1>7, <1>8, <1>9, <1>10, <1>11 DEF Next

(* A file that has been read is the module that was written.               *)
LEMMA AgreesHolds ==
    ASSUME IInv, Codec
    PROVE  EveryReleaseAgrees
  <1>1. phase # "malformed" /\ OperationsRead /\ AllRead /\ Shape /\ Taken
    BY DEF Codec, Clean, IInv
  <1>2. SUFFICES ASSUME phase = "done"
                 PROVE  /\ \A n \in DOMAIN module :
                            LET d == KnownOp(Op(module[n]), release)
                            IN read[n] = Meaning(module[n], d, target) /\ Complete(module[n], d)
                        /\ \A t \in typeTable : TypeComplete(t)
    BY <1>1 DEF EveryReleaseAgrees
  <1>3. /\ release \in target..Latest /\ current = Len(module) /\ InFile
        /\ \A t \in typeTable : TypeReadAs(t, release, types[t])
    BY <1>1, <1>2 DEF OperationsRead, AllRead, InFile
  <1>4. ASSUME NEW n \in DOMAIN module, NEW i, i = module[n], NEW K, K = KnownOp(Op(i), release)
        PROVE  read[n] = Meaning(i, K, target) /\ Complete(i, K)
    <2>1. n \in 1..Len(module) /\ OperationIs(i)
      BY <1>1, <1>4, ArgumentsInUse
    <2>2. PICK D : D = Op(i)
      OBVIOUS
    <2>3. target \in Supported /\ ~OpRefused(i, target)
      BY <1>1, <1>3, <1>4, <2>1, NoneRefused
    <2>4. Reads(i, target, release, D, K)
      BY <1>3, <1>4, <2>1, <2>2, <2>3 DEF Reads
    <2>5. Complete(i, K)
      BY <2>4, CompleteIs
    <2>6. read[n] = Meaning(i, K, target)
      BY <1>1, <1>2, <1>3, <1>4, <2>1 DEF OperationsRead
    <2> QED BY <2>5, <2>6
  <1>5. ASSUME NEW t \in typeTable PROVE TypeComplete(t)
    <2>1. t \in DOMAIN Types
      BY <1>1, <1>3, TableInUse
    <2>2. PICK parsed : /\ TypeUnderstood(t, release, parsed)
                        /\ types[t] = [decl |-> parsed.decl, args |-> parsed.args]
      BY <1>3 DEF TypeReadAs
    <2> QED BY <2>1, <2>2, TypeCompleteIs
  <1> QED BY <1>4, <1>5

(* Whichever release wrote a version and whichever reads it, from that     *)
(* version on: the file is understood, and what is read is what was        *)
(* written.                                                                *)
THEOREM EveryReadingAgrees == Spec => []EveryReleaseAgrees
  <1>1. Init => Codec
    BY CodecInit
  <1>2. IInv /\ Codec /\ [Next]_vars => Codec'
    BY CodecStep
  <1>3. IInv /\ Codec => EveryReleaseAgrees
    BY AgreesHolds
  <1> QED BY <1>1, <1>2, <1>3, Invariant, PTL DEF Spec
=============================================================================
