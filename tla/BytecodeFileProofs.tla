------------------------- MODULE BytecodeFileProofs -------------------------
(***************************************************************************)
(* BytecodeFile for every set of modules, every position of the stream and *)
(* every way a file is cut: what is read is what was written.              *)
(***************************************************************************)
EXTENDS BytecodeFile, SequenceFacts, SequenceTheorems, TLAPS

-----------------------------------------------------------------------------
(* The tables: sequences without duplicates that only grow at the end.     *)
Distinct(t) == \A i, j \in 1..Len(t) : t[i] = t[j] => i = j
Extends(t, u) == Len(t) <= Len(u) /\ \A n \in 1..Len(t) : u[n] = t[n]
Table(t) == IsSeq(t) /\ Distinct(t)
Has(t, key) == \E n \in 1..Len(t) : t[n] = key

LEMMA SeqFacts ==
    ASSUME NEW s, IsSeq(s)
    PROVE  /\ Len(s) \in Nat /\ DOMAIN s = 1..Len(s) /\ s = [n \in 1..Len(s) |-> s[n]]
           /\ \E S : s \in Seq(S)
  BY LenProperties DEF IsSeq

LEMMA GrowsTransitively ==
    ASSUME NEW t, NEW u, NEW v, IsSeq(t), IsSeq(u), IsSeq(v), Extends(t, u), Extends(u, v)
    PROVE  Extends(t, v)
  BY SeqFacts DEF Extends

LEMMA HasStill ==
    ASSUME NEW t, NEW u, IsSeq(t), IsSeq(u), Extends(t, u), NEW key, Has(t, key)
    PROVE  Has(u, key)
  BY SeqFacts DEF Extends, Has

(* IndexIn finds the entry, and the same one when the table has grown.     *)
LEMMA IndexFacts ==
    ASSUME NEW t, Table(t), NEW key, Has(t, key)
    PROVE  /\ IndexIn(t, key) \in Nat /\ IndexIn(t, key) + 1 \in DOMAIN t
           /\ t[IndexIn(t, key) + 1] = key
           /\ At(t, IndexIn(t, key)) = key
  <1>1. Len(t) \in Nat /\ DOMAIN t = 1..Len(t)
    BY SeqFacts DEF Table
  <1>2. PICK n \in DOMAIN t : t[n] = key
    BY <1>1 DEF Has
  <1>3. PICK c : c = CHOOSE i \in DOMAIN t : t[i] = key
    OBVIOUS
  <1>4. c \in DOMAIN t /\ t[c] = key
    BY <1>2, <1>3
  <1>5. IndexIn(t, key) = c - 1
    BY <1>3 DEF IndexIn
  <1>6. c - 1 + 1 = c /\ c - 1 \in Nat
    BY <1>1, <1>4
  <1> QED BY <1>4, <1>5, <1>6 DEF At

LEMMA IndexStays ==
    ASSUME NEW t, NEW u, Table(t), Table(u), Extends(t, u), NEW key, Has(t, key)
    PROVE  IndexIn(u, key) = IndexIn(t, key)
  <1>1. /\ Len(t) \in Nat /\ DOMAIN t = 1..Len(t) /\ Len(u) \in Nat /\ DOMAIN u = 1..Len(u)
    BY SeqFacts DEF Table
  <1>2. /\ IndexIn(t, key) \in Nat /\ IndexIn(t, key) + 1 \in DOMAIN t
        /\ t[IndexIn(t, key) + 1] = key
    BY IndexFacts
  <1>3. Has(u, key)
    BY HasStill DEF Table
  <1>4. /\ IndexIn(u, key) \in Nat /\ IndexIn(u, key) + 1 \in DOMAIN u
        /\ u[IndexIn(u, key) + 1] = key
    BY <1>3, IndexFacts
  <1>5. PICK i \in Nat : i = IndexIn(t, key)
    BY <1>2
  <1>6. PICK j \in Nat : j = IndexIn(u, key)
    BY <1>4
  <1>7. /\ i + 1 \in 1..Len(u) /\ j + 1 \in 1..Len(u) /\ u[i + 1] = u[j + 1]
    BY <1>1, <1>2, <1>4, <1>5, <1>6 DEF Extends
  <1>8. i + 1 = j + 1
    BY <1>7 DEF Table, Distinct
  <1> QED BY <1>5, <1>6, <1>8

(* One entry more, if it is new.                                           *)
Put(t, k) == IF Contains(t, k) THEN t ELSE Append(t, k)

LEMMA PutFacts ==
    ASSUME NEW S, NEW t \in Seq(S), Distinct(t), NEW k \in S
    PROVE  /\ Put(t, k) \in Seq(S) /\ Distinct(Put(t, k)) /\ Extends(t, Put(t, k))
           /\ Has(Put(t, k), k)
           /\ \A e : Has(Put(t, k), e) => Has(t, e) \/ e = k
  <1>1. Len(t) \in Nat
    BY LenProperties
  <1>2. CASE Contains(t, k)
    <2>1. Put(t, k) = t /\ Has(t, k)
      BY <1>2 DEF Put, Contains, Has
    <2>2. Extends(t, t)
      BY <1>1 DEF Extends
    <2> QED BY <2>1, <2>2
  <1>3. CASE ~Contains(t, k)
    <2>1. Put(t, k) = Append(t, k)
      BY <1>3 DEF Put
    <2>2. PICK u : u = Append(t, k)
      OBVIOUS
    <2>3. /\ u \in Seq(S) /\ Len(u) = Len(t) + 1
          /\ \A n \in 1..Len(t) : u[n] = t[n]
          /\ u[Len(t) + 1] = k
      BY <2>2, AppendProperties
    <2>4. \A n \in 1..Len(t) : u[n] # k
      BY <1>3, <2>3 DEF Contains
    <2>5. \A n \in 1..Len(u) : n \in 1..Len(t) \/ n = Len(t) + 1
      BY <1>1, <2>3
    <2>6. Distinct(u)
      BY <2>3, <2>4, <2>5 DEF Distinct
    <2>7. Extends(t, u)
      BY <1>1, <2>3 DEF Extends
    <2>8. Has(u, k)
      BY <1>1, <2>3 DEF Has
    <2>9. \A e : Has(u, e) => Has(t, e) \/ e = k
      BY <2>3, <2>5 DEF Has
    <2> QED BY <2>1, <2>2, <2>3, <2>6, <2>7, <2>8, <2>9
  <1> QED BY <1>2, <1>3

(* Intern goes through the keys one by one.                                *)
Interns(t, entries, keys) ==
    /\ t[0] = entries /\ t[Len(keys)] = Intern(entries, keys)
    /\ \A n \in 1..Len(keys) : t[n] = Put(t[n - 1], keys[n])

LEMMA InternIs ==
    ASSUME NEW entries, NEW keys
    PROVE  Intern(entries, keys) =
              (CHOOSE f : f = [s \in SUBSET DOMAIN keys |->
                                  IF s = {} THEN entries
                                  ELSE Put(f[s \ {Greatest(s)}], keys[Greatest(s)])])[DOMAIN keys]
  BY Zenon DEF Intern, FoldLeft, MapThenFoldSet, Put, Max, Greatest

LEMMA InitialSegments ==
    ASSUME NEW n \in Nat \ {0}
    PROVE  Greatest(1..n) = n /\ (1..n) \ {n} = 1..n - 1 /\ 1..n # {}
  <1>1. PICK s : s = 1..n
    OBVIOUS
  <1>2. n \in Nat /\ n \in s /\ s \subseteq 1..n
    BY <1>1
  <1>3. Greatest(s) = n
    BY <1>2, GreatestIs
  <1> QED BY <1>1, <1>3

LEMMA InternRuns ==
    ASSUME NEW S, NEW entries \in Seq(S), NEW keys \in Seq(S)
    PROVE  \E t : Interns(t, entries, keys)
  <1> DEFINE N == Len(keys)
             fold == [p \in (1..N) \X Seq(S) |-> Put(p[2], keys[p[1]])]
  <1>1. N \in Nat /\ DOMAIN keys = 1..N /\ \A n \in 1..N : keys[n] \in S
    BY LenProperties, ElementOfSeq
  <1> HIDE DEF N
  <1>2. \A t \in Seq(S) : \A k \in S : Put(t, k) \in Seq(S)
    BY AppendProperties DEF Put
  <1>3. fold \in [(1..N) \X Seq(S) -> Seq(S)]
    BY <1>1, <1>2
  <1>4. \A n \in 1..N : \A t \in Seq(S) : fold[<<n, t>>] = Put(t, keys[n])
    OBVIOUS
  <1> HIDE DEF fold
  <1>5. PICK f : FoldsTo(f, N, Seq(S), entries, fold)
    BY <1>1, <1>3, FoldExists
  <1>6. /\ f \in [SUBSET (1..N) -> Seq(S)]
        /\ \A s \in SUBSET (1..N) :
              f[s] = IF s = {} THEN entries ELSE fold[<<Greatest(s), f[s \ {Greatest(s)}]>>]
    BY <1>5 DEF FoldsTo
  <1>7. \A s \in SUBSET (1..N) : s # {} =>
            /\ Greatest(s) \in 1..N /\ s \ {Greatest(s)} \in SUBSET (1..N)
            /\ f[s \ {Greatest(s)}] \in Seq(S)
    BY <1>1, <1>6, GreatestIn
  <1>8. f = [s \in SUBSET (1..N) |-> IF s = {} THEN entries
                                     ELSE Put(f[s \ {Greatest(s)}], keys[Greatest(s)])]
    <2>1. \A s \in SUBSET (1..N) :
              f[s] = IF s = {} THEN entries ELSE Put(f[s \ {Greatest(s)}], keys[Greatest(s)])
      BY <1>4, <1>6, <1>7
    <2> QED BY <1>6, <2>1
  <1>9. PICK g : /\ g = [s \in SUBSET (1..N) |-> IF s = {} THEN entries
                                     ELSE Put(g[s \ {Greatest(s)}], keys[Greatest(s)])]
                 /\ Intern(entries, keys) = g[1..N]
    BY <1>1, <1>8, InternIs
  <1> DEFINE t == [n \in 0..N |-> g[1..n]]
  <1>10. t[0] = entries
    BY <1>1, <1>9
  <1>11. t[N] = Intern(entries, keys)
    <2>1. t[N] = g[1..N]
      BY <1>1
    <2> HIDE DEF t
    <2> QED BY <1>9, <2>1
  <1>12. ASSUME NEW n \in 1..N PROVE t[n] = Put(t[n - 1], keys[n])
    <2>1. Greatest(1..n) = n /\ (1..n) \ {n} = 1..n - 1 /\ 1..n # {}
      BY InitialSegments
    <2>2. 1..n \in SUBSET (1..N) /\ n \in 0..N /\ n - 1 \in 0..N
      BY <1>1
    <2>3. g[1..n] = Put(g[1..n - 1], keys[n])
      BY <1>9, <2>1, <2>2
    <2> QED BY <2>2, <2>3
  <1> HIDE DEF t
  <1>13. Interns(t, entries, keys)
    BY <1>10, <1>11, <1>12 DEF Interns, N
  <1> QED BY <1>13

LEMMA InternFacts ==
    ASSUME NEW entries, Table(entries), NEW keys, IsSeq(keys)
    PROVE  /\ Table(Intern(entries, keys)) /\ Extends(entries, Intern(entries, keys))
           /\ \A n \in 1..Len(keys) : Has(Intern(entries, keys), keys[n])
           /\ \A e : Has(Intern(entries, keys), e) => Has(entries, e) \/ Has(keys, e)
  <1>1. PICK S : entries \in Seq(S) /\ keys \in Seq(S)
    <2>1. PICK A, B : entries \in Seq(A) /\ keys \in Seq(B)
      BY DEF Table, IsSeq
    <2>2. entries \in Seq(A \cup B) /\ keys \in Seq(A \cup B)
      BY <2>1
    <2> QED BY <2>2
  <1>2. PICK t : Interns(t, entries, keys)
    BY <1>1, InternRuns
  <1>3. /\ t[0] = entries /\ t[Len(keys)] = Intern(entries, keys)
        /\ \A n \in 1..Len(keys) : t[n] = Put(t[n - 1], keys[n])
    BY <1>2 DEF Interns
  <1>4. Len(keys) \in Nat /\ \A n \in 1..Len(keys) : keys[n] \in S
    BY <1>1, LenProperties, ElementOfSeq
  <1> DEFINE Good(u, n) ==
                /\ u \in Seq(S) /\ Distinct(u) /\ Extends(entries, u)
                /\ \A k \in 1..n : Has(u, keys[k])
                /\ \A e : Has(u, e) => Has(entries, e) \/ Has(keys, e)
             Reached == {n \in Nat : n <= Len(keys) => Good(t[n], n)}
  <1>5. Good(t[0], 0)
    BY <1>1, <1>3, LenProperties DEF Table, Extends
  <1>6. ASSUME NEW n \in Nat, n + 1 <= Len(keys), Good(t[n], n) PROVE Good(t[n + 1], n + 1)
    <2>a. n + 1 \in 1..Len(keys) /\ n + 1 - 1 = n
      BY <1>4, <1>6
    <2>1. PICK k \in S : k = keys[n + 1] /\ Has(keys, k)
      BY <1>4, <2>a DEF Has
    <2>2. PICK u \in Seq(S) : u = t[n] /\ Good(u, n)
      BY <1>6
    <2>3. t[n + 1] = Put(u, k)
      BY <1>3, <2>a, <2>1, <2>2
    <2>4. PICK v : v = Put(u, k)
      OBVIOUS
    <2>5. /\ v \in Seq(S) /\ Distinct(v) /\ Extends(u, v) /\ Has(v, k)
          /\ \A e : Has(v, e) => Has(u, e) \/ e = k
      BY <2>2, <2>4, PutFacts
    <2>6. IsSeq(entries) /\ IsSeq(u) /\ IsSeq(v)
      BY <1>1, <2>5 DEF IsSeq
    <2>7. Extends(entries, v)
      BY <2>2, <2>5, <2>6, GrowsTransitively
    <2>8. \A i \in 1..n + 1 : i \in 1..n \/ i = n + 1
      OBVIOUS
    <2>9. \A i \in 1..n : Has(v, keys[i])
      BY <2>2, <2>5, <2>6, HasStill
    <2>10. \A i \in 1..n + 1 : Has(v, keys[i])
      BY <2>1, <2>5, <2>8, <2>9
    <2>11. \A e : Has(v, e) => Has(entries, e) \/ Has(keys, e)
      BY <2>1, <2>2, <2>5
    <2> QED BY <2>3, <2>4, <2>5, <2>7, <2>10, <2>11
  <1> HIDE DEF Good
  <1>7. \A n \in Nat : n \in Reached <=> (n <= Len(keys) => Good(t[n], n))
    OBVIOUS
  <1> HIDE DEF Reached
  <1>8. 0 \in Reached /\ \A n \in Nat : n \in Reached => n + 1 \in Reached
    BY <1>4, <1>5, <1>6, <1>7
  <1>9. Nat \subseteq Reached
    BY <1>8, InductionOn
  <1>10. Good(t[Len(keys)], Len(keys))
    BY <1>4, <1>7, <1>9
  <1>11. PICK u : u = Intern(entries, keys)
    OBVIOUS
  <1>12. Good(u, Len(keys))
    BY <1>3, <1>10, <1>11
  <1>13. /\ Table(u) /\ Extends(entries, u)
         /\ \A n \in 1..Len(keys) : Has(u, keys[n])
         /\ \A e : Has(u, e) => Has(entries, e) \/ Has(keys, e)
    BY <1>12 DEF Good, Table, IsSeq
  <1> QED BY <1>11, <1>13

-----------------------------------------------------------------------------
(* What is kept of a sequence, and all sequences of one, by their elements. *)
LEMMA HasIs ==
    ASSUME NEW s, IsSeq(s)
    PROVE  \A x : Has(s, x) <=> x \in ToSet(s)
  BY SeqIs DEF Has, ToSet

LEMMA KeptHas ==
    ASSUME NEW s, IsSeq(s), NEW S
    PROVE  /\ IsSeq(Kept(s, S))
           /\ \A x : Has(Kept(s, S), x) <=> Has(s, x) /\ x \in S
  <1>1. IsSeq(Kept(s, S)) /\ \A x : x \in ToSet(Kept(s, S)) <=> x \in ToSet(s) /\ x \in S
    BY KeptFacts
  <1> QED BY <1>1, HasIs

(* Everything that is in one of the sequences is in the result.            *)
InOne(ss, x) == \E n \in 1..Len(ss) : Has(ss[n], x)

LEMMA FlattenFacts ==
    ASSUME NEW S, NEW ss \in Seq(Seq(S))
    PROVE  /\ FlattenSeq(ss) \in Seq(S)
           /\ \A x : Has(FlattenSeq(ss), x) <=> InOne(ss, x)
  <1>1. PICK u : u = FlattenSeq(ss)
    OBVIOUS
  <1>2. u \in Seq(S) /\ \A x : x \in ToSet(u) <=> \E n \in DOMAIN ss : x \in ToSet(ss[n])
    BY <1>1, FlattenElements
  <1>3. IsSeq(u)
    BY <1>2 DEF IsSeq
  <1>4. \A x : Has(u, x) <=> x \in ToSet(u)
    BY <1>3, HasIs
  <1>5. DOMAIN ss = 1..Len(ss) /\ \A n \in DOMAIN ss : IsSeq(ss[n])
    BY LenProperties, ElementOfSeq DEF IsSeq
  <1>6. \A n \in DOMAIN ss : \A x : Has(ss[n], x) <=> x \in ToSet(ss[n])
    BY <1>5, HasIs
  <1>7. \A x : Has(u, x) <=> InOne(ss, x)
    BY <1>2, <1>4, <1>5, <1>6 DEF InOne
  <1> QED BY <1>1, <1>2, <1>7

-----------------------------------------------------------------------------
(* The modules that are written.                                           *)
Named(i) == i.name \notin {None, Empty}

LEMMA ModuleFacts ==
    ASSUME NEW m \in Modules
    PROVE  /\ m.version \in 0..4
           /\ IsSeq(Globals(m)) /\ IsSeq(Functions(m))
           /\ \A n \in 1..Len(Globals(m)) : IsGlobal(Globals(m)[n]) /\ Named(Globals(m)[n])
           /\ \A n \in 1..Len(Functions(m)) : IsFunction(Functions(m)[n]) /\ Named(Functions(m)[n])
  <1>1. PICK s : s = m.items
    OBVIOUS
  <1>2. PICK E : s \in Seq(E) /\ \A i \in E : Named(i) /\ (IsGlobal(i) \/ IsFunction(i))
    BY <1>1, ModulesAssumption DEF Named
  <1>3. IsSeq(s) /\ \A n \in 1..Len(s) : s[n] \in E
    BY <1>2, ElementOfSeq DEF IsSeq
  <1>4. \A x : Has(s, x) => Named(x) /\ (IsGlobal(x) \/ IsFunction(x))
    BY <1>2, <1>3 DEF Has
  <1>5. PICK A : A = {i \in ToSet(s) : i.kind = "global"}
    OBVIOUS
  <1>6. PICK B : B = {i \in ToSet(s) : i.kind = "func"}
    OBVIOUS
  <1>7. Globals(m) = Kept(s, A) /\ Functions(m) = Kept(s, B)
    BY <1>1, <1>5, <1>6 DEF Globals, Functions
  <1>8. PICK g : g = Globals(m)
    OBVIOUS
  <1>9. PICK f : f = Functions(m)
    OBVIOUS
  <1>10. IsSeq(g) /\ \A x : Has(g, x) <=> Has(s, x) /\ x \in A
    BY <1>3, <1>7, <1>8, KeptHas
  <1>11. IsSeq(f) /\ \A x : Has(f, x) <=> Has(s, x) /\ x \in B
    BY <1>3, <1>7, <1>9, KeptHas
  <1>12. \A x : Has(g, x) => IsGlobal(x) /\ Named(x)
    BY <1>4, <1>5, <1>10 DEF IsFunction
  <1>13. \A x : Has(f, x) => IsFunction(x) /\ Named(x)
    BY <1>4, <1>6, <1>11 DEF IsGlobal
  <1>14. /\ \A n \in 1..Len(g) : Has(g, g[n])
         /\ \A n \in 1..Len(f) : Has(f, f[n])
    BY DEF Has
  <1>15. m.version \in 0..4
    BY ModulesAssumption DEF CurrentVersion
  <1> QED BY <1>8, <1>9, <1>10, <1>11, <1>12, <1>13, <1>14, <1>15

-----------------------------------------------------------------------------
(* The sections of a file, and where they are in the stream.               *)
WellMade(s) ==
    \/ s = EndMarker
    \/ /\ s # EndMarker /\ s.id \in Sections /\ s.align = Alignment(s.id)
       /\ s.len \in Nat /\ s.pad \in Nat

Ends(F, base, ends) ==
    /\ ends \in [1..Len(F) + 1 -> Nat] /\ ends[1] = HeaderBytes
    /\ \A n \in 1..Len(F) : ends[n + 1] = ends[n] + Bytes(F[n])
    /\ \A n \in 1..Len(F) : F[n] # EndMarker =>
          F[n].pad = Padding(base + ends[n] + HeadBytes(F[n].align), F[n].align)
    /\ \A n \in 1..Len(F) + 1 : ends[n] <= ends[Len(F) + 1]

Placed(F, base, length) == \E ends : Ends(F, base, ends) /\ ends[Len(F) + 1] = length

LEMMA AppendAny ==
    ASSUME NEW F, IsSeq(F), NEW s
    PROVE  /\ IsSeq(Append(F, s)) /\ Len(F) \in Nat /\ Len(Append(F, s)) = Len(F) + 1
           /\ \A n \in 1..Len(F) : Append(F, s)[n] = F[n]
           /\ Append(F, s)[Len(F) + 1] = s
  <1>1. PICK S : F \in Seq(S) /\ s \in S
    <2>1. PICK S : F \in Seq(S)
      BY DEF IsSeq
    <2>2. PICK U : U = S \cup {s}
      OBVIOUS
    <2>3. F \in Seq(U) /\ s \in U
      BY <2>1, <2>2
    <2> QED BY <2>3
  <1> QED BY <1>1, AppendProperties, LenProperties DEF IsSeq

LEMMA PaddingFacts ==
    ASSUME NEW p \in Nat, NEW b \in Nat, NEW a, a \in {1, 4, 8}
    PROVE  /\ Padding(p, a) \in Nat
           /\ b % 8 = 0 => Padding(b + p, a) = Padding(p, a)
  <1>1. CASE a = 1
    BY <1>1 DEF Padding
  <1>2. CASE a = 4
    BY <1>2 DEF Padding
  <1>3. CASE a = 8
    BY <1>3 DEF Padding
  <1> QED BY <1>1, <1>2, <1>3

LEMMA AlignmentFacts ==
    ASSUME NEW id \in Sections
    PROVE  /\ Alignment(id) \in {1, 4, 8} /\ Alignment(id) % Required(id) = 0
           /\ HeadBytes(Alignment(id)) \in Nat
  <1>1. \/ id \in {"String", "Type"} /\ id \notin {"Constant", "Debug", "Func"}
        \/ id \in {"Constant", "Debug", "Func"} /\ id \notin {"String", "Type"}
        \/ id \in {"Global", "Producer"} /\ id \notin {"String", "Type", "Constant", "Debug", "Func"}
    BY DEF Sections, Managers
  <1>2. \/ Alignment(id) = 1 /\ Required(id) = 1
        \/ Alignment(id) = 4 /\ Required(id) = 4
        \/ Alignment(id) = 8 /\ Required(id) = 8
    BY <1>1 DEF Alignment, Required
  <1> QED BY <1>2 DEF HeadBytes

LEMMA BytesFacts ==
    ASSUME NEW s, WellMade(s)
    PROVE  Bytes(s) \in Nat
  <1>1. CASE s = EndMarker
    BY <1>1 DEF Bytes
  <1>2. CASE s # EndMarker
    <2>1. s.id \in Sections /\ s.align = Alignment(s.id) /\ s.len \in Nat /\ s.pad \in Nat
      BY <1>2 DEF WellMade
    <2>2. HeadBytes(s.align) \in Nat
      BY <2>1, AlignmentFacts
    <2> QED BY <1>2, <2>1, <2>2 DEF Bytes
  <1> QED BY <1>1, <1>2

(* One more section at the end of the stream.                              *)
LEMMA PlacedMore ==
    ASSUME NEW F, IsSeq(F), NEW s, WellMade(s), NEW base \in Nat,
           NEW length \in Nat, Placed(F, base, length),
           s # EndMarker => s.pad = Padding(base + length + HeadBytes(s.align), s.align)
    PROVE  Placed(Append(F, s), base, length + Bytes(s))
  <1>1. PICK ends : Ends(F, base, ends) /\ ends[Len(F) + 1] = length
    BY DEF Placed
  <1>2. PICK G : G = Append(F, s)
    OBVIOUS
  <1>3. /\ Len(F) \in Nat /\ Len(G) = Len(F) + 1
        /\ \A n \in 1..Len(F) : G[n] = F[n]
        /\ G[Len(F) + 1] = s
    BY <1>2, AppendAny
  <1>4. PICK N \in Nat : N = Len(F)
    BY <1>3
  <1>5. PICK last \in Nat : last = length + Bytes(s) /\ length <= last
    <2>1. PICK b \in Nat : b = Bytes(s)
      BY BytesFacts
    <2>2. length + b \in Nat /\ length <= length + b
      OBVIOUS
    <2> QED BY <2>1, <2>2
  <1> DEFINE e == [n \in 1..N + 1 + 1 |-> IF n = N + 1 + 1 THEN last ELSE ends[n]]
  <1>6. /\ ends \in [1..N + 1 -> Nat] /\ ends[1] = HeaderBytes
        /\ \A n \in 1..N : ends[n + 1] = ends[n] + Bytes(F[n])
        /\ \A n \in 1..N : F[n] # EndMarker =>
              F[n].pad = Padding(base + ends[n] + HeadBytes(F[n].align), F[n].align)
        /\ \A n \in 1..N + 1 : ends[n] <= ends[N + 1]
        /\ ends[N + 1] = length
    BY <1>1, <1>4 DEF Ends
  <1>7. /\ \A n \in 1..N + 1 : e[n] = ends[n]
        /\ e[N + 1 + 1] = last
        /\ 1 \in 1..N + 1 /\ N + 1 \in 1..N + 1
        /\ \A n \in 1..N : n \in 1..N + 1 /\ n + 1 \in 1..N + 1
        /\ \A n \in 1..N + 1 : n \in 1..N \/ n = N + 1
        /\ \A n \in 1..N + 1 + 1 : n \in 1..N + 1 \/ n = N + 1 + 1
    OBVIOUS
  <1>8. e \in [1..N + 1 + 1 -> Nat]
    BY <1>6
  <1> HIDE DEF e
  <1>9. e[1] = HeaderBytes
    BY <1>6, <1>7
  <1>10. ASSUME NEW n \in 1..N + 1 PROVE e[n + 1] = e[n] + Bytes(G[n])
    <2>1. CASE n \in 1..N
      BY <1>3, <1>4, <1>6, <1>7, <2>1
    <2>2. CASE n = N + 1
      BY <1>3, <1>4, <1>5, <1>6, <1>7, <2>2
    <2> QED BY <1>7, <2>1, <2>2
  <1>11. ASSUME NEW n \in 1..N + 1, G[n] # EndMarker
         PROVE  G[n].pad = Padding(base + e[n] + HeadBytes(G[n].align), G[n].align)
    <2>1. CASE n \in 1..N
      <3>1. G[n] = F[n] /\ e[n] = ends[n]
        BY <1>3, <1>4, <1>7, <2>1
      <3> QED BY <1>6, <1>11, <2>1, <3>1
    <2>2. CASE n = N + 1
      <3>1. G[n] = s /\ e[n] = length
        BY <1>3, <1>4, <1>6, <1>7, <2>2
      <3> QED BY <1>11, <3>1
    <2> QED BY <1>7, <2>1, <2>2
  <1>12. \A n \in 1..N + 1 + 1 : e[n] <= e[N + 1 + 1]
    <2>1. \A n \in 1..N + 1 : e[n] \in Nat /\ e[n] <= length
      BY <1>6, <1>7
    <2> QED BY <1>5, <1>7, <2>1
  <1>13. Len(G) = N + 1
    BY <1>3, <1>4
  <1>14. Ends(G, base, e) /\ e[Len(G) + 1] = last
    BY <1>7, <1>8, <1>9, <1>10, <1>11, <1>12, <1>13 DEF Ends
  <1>15. Placed(G, base, last)
    BY <1>14 DEF Placed
  <1> QED BY <1>2, <1>5, <1>15

-----------------------------------------------------------------------------
(* What a section holds, given the tables, and the entries that it needs.  *)
Grows(T, U) == \A t \in Managers : Table(T[t]) /\ Table(U[t]) /\ Extends(T[t], U[t])

Declares(T, f) ==
    Has(T["String"], f.name) /\ Has(T["Type"], f.type) /\ (f.loc # None => Has(T["Debug"], f.loc))
Values(T, vs) == \A k \in 1..Len(vs) : Has(T["Type"], vs[k].type) /\ Has(T["Constant"], vs[k])
Holds(T, g) ==
    Has(T["String"], g.name) /\ Has(T["Type"], g.value.type) /\ Has(T["Constant"], g.value)

MapKeys(T) == \A n \in 1..Len(Functions(module)) : Declares(T, Functions(module)[n])
ValueKeys(T) == \A n \in 1..Len(Functions(module)) : Values(T, Functions(module)[n].values)
GlobalKeys(T) == \A n \in 1..Len(Globals(module)) : Holds(T, Globals(module)[n])
FileKeys(T) ==
    \A n \in 1..Len(T["Debug"]) : T["Debug"][n].file # None /\ Has(T["String"], T["Debug"][n].file)
HasProducer == module.version >= ExtendedVersion /\ module.producer # None
ProducerKey(T) == HasProducer => Has(T["String"], module.producer)

LocRow(T, l) == [line |-> l.line, file |-> IndexIn(T["String"], l.file)]
GlobalBody(T) == [n \in 1..Len(Globals(module)) |-> GlobalEntry(T, Globals(module)[n])]
FuncBody(T) == [n \in 1..Len(Functions(module)) |-> FunctionEntry(T, Functions(module)[n])]
BitsBody(T) == [n \in 1..Len(T["Constant"]) |-> T["Constant"][n].bits]
DebugBody(T) == [n \in 1..Len(T["Debug"]) |-> LocRow(T, T["Debug"][n])]
Body(id, T) ==
    CASE id = "Global" -> GlobalBody(T)
      [] id = "Func" -> FuncBody(T)
      [] id = "Constant" -> BitsBody(T)
      [] id = "Debug" -> DebugBody(T)
      [] id = "Producer" -> IndexIn(T["String"], module.producer)
      [] id \in {"String", "Type"} -> T[id]

LEMMA KeysStay ==
    ASSUME NEW T, NEW U, Grows(T, U)
    PROVE  /\ MapKeys(T) => MapKeys(U)
           /\ GlobalKeys(T) => GlobalKeys(U)
           /\ ValueKeys(T) => ValueKeys(U)
           /\ FileKeys(T) /\ U["Debug"] = T["Debug"] => FileKeys(U)
           /\ ProducerKey(T) => ProducerKey(U)
  <1>1. \A t \in Managers : \A key : Has(T[t], key) => Has(U[t], key)
    <2> SUFFICES ASSUME NEW t \in Managers, NEW key, Has(T[t], key) PROVE Has(U[t], key)
      OBVIOUS
    <2>1. PICK x : x = T[t]
      OBVIOUS
    <2>2. PICK y : y = U[t]
      OBVIOUS
    <2>3. IsSeq(x) /\ IsSeq(y) /\ Extends(x, y) /\ Has(x, key)
      BY <2>1, <2>2 DEF Grows, Table
    <2> QED BY <2>2, <2>3, HasStill
  <1>2. {"String", "Type", "Constant", "Debug"} = Managers
    BY DEF Managers
  <1>3. /\ \A key : Has(T["String"], key) => Has(U["String"], key)
        /\ \A key : Has(T["Type"], key) => Has(U["Type"], key)
        /\ \A key : Has(T["Constant"], key) => Has(U["Constant"], key)
        /\ \A key : Has(T["Debug"], key) => Has(U["Debug"], key)
    BY <1>1, <1>2
  <1>4. MapKeys(T) => MapKeys(U)
    BY <1>3 DEF MapKeys, Declares
  <1>5. GlobalKeys(T) => GlobalKeys(U)
    BY <1>3 DEF GlobalKeys, Holds
  <1>6. ValueKeys(T) => ValueKeys(U)
    BY <1>3 DEF ValueKeys, Values
  <1>7. FileKeys(T) /\ U["Debug"] = T["Debug"] => FileKeys(U)
    BY <1>3 DEF FileKeys
  <1>8. ProducerKey(T) => ProducerKey(U)
    BY <1>3 DEF ProducerKey
  <1> QED BY <1>4, <1>5, <1>6, <1>7, <1>8

(* Entries keep their indices, so what was written stays right.            *)
LEMMA IndicesStay ==
    ASSUME NEW T, NEW U, Grows(T, U), NEW t \in Managers, NEW key, Has(T[t], key)
    PROVE  IndexIn(U[t], key) = IndexIn(T[t], key)
  <1>1. PICK x : x = T[t]
    OBVIOUS
  <1>2. PICK y : y = U[t]
    OBVIOUS
  <1>3. Table(x) /\ Table(y) /\ Extends(x, y) /\ Has(x, key)
    BY <1>1, <1>2 DEF Grows
  <1> QED BY <1>1, <1>2, <1>3, IndexStays

SameIndices(T, U) ==
    \A t \in Managers : \A key : Has(T[t], key) => IndexIn(U[t], key) = IndexIn(T[t], key)

LEMMA GlobalStays ==
    ASSUME NEW T, NEW U, SameIndices(T, U), NEW g, Holds(T, g)
    PROVE  GlobalEntry(U, g) = GlobalEntry(T, g)
  <1>1. {"String", "Type", "Constant", "Debug"} = Managers
    BY DEF Managers
  <1>2. /\ IndexIn(U["String"], g.name) = IndexIn(T["String"], g.name)
        /\ IndexIn(U["Type"], g.value.type) = IndexIn(T["Type"], g.value.type)
        /\ IndexIn(U["Constant"], g.value) = IndexIn(T["Constant"], g.value)
    BY <1>1 DEF SameIndices, Holds
  <1> QED BY <1>2 DEF GlobalEntry

ValueRow(T, v) == [type |-> IndexIn(T["Type"], v.type), value |-> IndexIn(T["Constant"], v)]
ValueRows(T, vs) == [k \in DOMAIN vs |-> ValueRow(T, vs[k])]

LEMMA EntryIs ==
    ASSUME NEW T, NEW f
    PROVE  FunctionEntry(T, f) =
              [name |-> IndexIn(T["String"], f.name), type |-> IndexIn(T["Type"], f.type),
               loc |-> LocIndex(T["Debug"], f.loc), values |-> ValueRows(T, f.values)]
  BY DEF FunctionEntry, ValueRows, ValueRow, Each

LEMMA FunctionStays ==
    ASSUME NEW T, NEW U, SameIndices(T, U), NEW f, IsFunction(f),
           Declares(T, f), Values(T, f.values)
    PROVE  FunctionEntry(U, f) = FunctionEntry(T, f)
  <1>1. {"String", "Type", "Constant", "Debug"} = Managers
    BY DEF Managers
  <1>2. /\ IndexIn(U["String"], f.name) = IndexIn(T["String"], f.name)
        /\ IndexIn(U["Type"], f.type) = IndexIn(T["Type"], f.type)
        /\ f.loc # None => IndexIn(U["Debug"], f.loc) = IndexIn(T["Debug"], f.loc)
    BY <1>1 DEF SameIndices, Declares
  <1>3. LocIndex(U["Debug"], f.loc) = LocIndex(T["Debug"], f.loc)
    BY <1>2 DEF LocIndex
  <1>4. PICK vs : vs = f.values
    OBVIOUS
  <1>5. DOMAIN vs = 1..Len(vs)
    BY <1>4, LenProperties DEF IsFunction
  <1>6. ASSUME NEW k \in DOMAIN vs PROVE ValueRow(U, vs[k]) = ValueRow(T, vs[k])
    <2>1. Has(T["Type"], vs[k].type) /\ Has(T["Constant"], vs[k])
      BY <1>4, <1>5 DEF Values
    <2>2. /\ IndexIn(U["Type"], vs[k].type) = IndexIn(T["Type"], vs[k].type)
          /\ IndexIn(U["Constant"], vs[k]) = IndexIn(T["Constant"], vs[k])
      BY <1>1, <2>1 DEF SameIndices
    <2> QED BY <2>2 DEF ValueRow
  <1>7. ValueRows(U, vs) = ValueRows(T, vs)
    BY <1>6 DEF ValueRows
  <1> QED BY <1>2, <1>3, <1>4, <1>7, EntryIs

Frozen(id, T, U) ==
    CASE id = "Global" -> GlobalKeys(T)
      [] id = "Func" -> MapKeys(T) /\ ValueKeys(T)
      [] id = "Constant" -> U["Constant"] = T["Constant"]
      [] id = "Debug" -> U["Debug"] = T["Debug"] /\ FileKeys(T)
      [] id = "Producer" -> HasProducer /\ ProducerKey(T)
      [] id \in {"String", "Type"} -> U[id] = T[id]

LEMMA BodyStays ==
    ASSUME module \in Modules, NEW T, NEW U, Grows(T, U), NEW id \in Sections, Frozen(id, T, U)
    PROVE  Body(id, U) = Body(id, T)
  <1>1. {"String", "Type", "Constant", "Debug"} = Managers
    BY DEF Managers
  <1>2. SameIndices(T, U)
    BY IndicesStay DEF SameIndices
  <1>3. \A n \in 1..Len(Functions(module)) : IsFunction(Functions(module)[n])
    BY ModuleFacts
  <1>4. CASE id = "Global"
    <2>1. \A n \in 1..Len(Globals(module)) : Holds(T, Globals(module)[n])
      BY <1>4 DEF Frozen, GlobalKeys
    <2>2. \A n \in 1..Len(Globals(module)) :
             GlobalEntry(U, Globals(module)[n]) = GlobalEntry(T, Globals(module)[n])
      BY <1>2, <2>1, GlobalStays
    <2>3. GlobalBody(U) = GlobalBody(T)
      BY <2>2 DEF GlobalBody
    <2> QED BY <1>4, <2>3 DEF Body
  <1>5. CASE id = "Func"
    <2>1. \A n \in 1..Len(Functions(module)) :
             Declares(T, Functions(module)[n]) /\ Values(T, Functions(module)[n].values)
      BY <1>5 DEF Frozen, MapKeys, ValueKeys
    <2>2. \A n \in 1..Len(Functions(module)) :
             FunctionEntry(U, Functions(module)[n]) = FunctionEntry(T, Functions(module)[n])
      BY <1>2, <1>3, <2>1, FunctionStays
    <2>3. FuncBody(U) = FuncBody(T)
      BY <2>2 DEF FuncBody
    <2> QED BY <1>5, <2>3 DEF Body
  <1>6. CASE id = "Constant"
    BY <1>6 DEF Frozen, Body, BitsBody
  <1>7. CASE id = "Debug"
    <2>1. U["Debug"] = T["Debug"] /\ FileKeys(T)
      BY <1>7 DEF Frozen
    <2>2. PICK d : d = T["Debug"]
      OBVIOUS
    <2>3. \A n \in 1..Len(d) : LocRow(U, d[n]) = LocRow(T, d[n])
      BY <1>1, <1>2, <2>1, <2>2 DEF FileKeys, SameIndices, LocRow
    <2>4. DebugBody(U) = DebugBody(T)
      BY <2>1, <2>2, <2>3 DEF DebugBody
    <2> QED BY <1>7, <2>4 DEF Body
  <1>8. CASE id = "Producer"
    <2>1. Has(T["String"], module.producer)
      BY <1>8 DEF Frozen, ProducerKey
    <2>2. IndexIn(U["String"], module.producer) = IndexIn(T["String"], module.producer)
      BY <1>1, <1>2, <2>1 DEF SameIndices
    <2> QED BY <1>8, <2>2 DEF Body
  <1>9. CASE id \in {"String", "Type"}
    BY <1>9 DEF Frozen, Body
  <1> QED BY <1>4, <1>5, <1>6, <1>7, <1>8, <1>9 DEF Sections, Managers

-----------------------------------------------------------------------------
(* THE INVARIANT.  First the writer: the steps after a section, and what   *)
(* is known of the tables and the file when it is done.                    *)
WriterSteps == {"header", "map", "Global", "Func", "Constant", "Debug", "Type", "Producer",
                "String", "End"}
ReaderSteps == {"parse", "globals", "functions", "accepted"}
Past(id) ==
    CASE id = "map" -> {"Global", "Func", "Constant", "Debug", "Type", "Producer", "String", "End"}
      [] id = "Global" -> {"Func", "Constant", "Debug", "Type", "Producer", "String", "End"}
      [] id = "Func" -> {"Constant", "Debug", "Type", "Producer", "String", "End"}
      [] id = "Constant" -> {"Debug", "Type", "Producer", "String", "End"}
      [] id = "Debug" -> {"Type", "Producer", "String", "End"}
      [] id = "Type" -> {"Producer", "String", "End"}
      [] id = "Producer" -> {"String", "End"}
      [] id = "String" -> {"End"}
Done(id) == Complete \/ step \in Past(id)

TablesOK == DOMAIN table = Managers /\ \A t \in Managers : Table(table[t])

Encodable == module.version < ExtendedVersion =>
    \A n \in 1..Len(Globals(module)) : ~Unencodable(Globals(module)[n])
KeysOK ==
    /\ Done("map") => MapKeys(table)
    /\ Done("Global") => GlobalKeys(table) /\ Encodable
    /\ Done("Func") => ValueKeys(table)
    /\ Done("Debug") => FileKeys(table)
    /\ Done("Producer") => ProducerKey(table)

HasSection(id) == \E n \in 1..Len(file) : file[n].id = id
Expected(id) ==
    CASE id = "Global" -> Globals(module) # <<>>
      [] id \in {"Constant", "Debug"} -> table[id] # <<>>
      [] id = "Producer" -> HasProducer
      [] id \in {"Func", "Type", "String"} -> TRUE

FileOK ==
    /\ IsSeq(file)
    /\ \A n \in 1..Len(file) : WellMade(file[n])
    /\ \A n \in 1..Len(file) : file[n] = EndMarker =>
          n = Len(file) /\ step \notin WriterSteps \cup {"failed"}
    /\ \A n \in 1..Len(file) : file[n] # EndMarker /\ step \in WriterSteps => Done(file[n].id)
    /\ \A m, n \in 1..Len(file) : file[m].id = file[n].id => m = n
    /\ HasSection("Producer") => HasProducer
SectionsOK == \A id \in Sections : Done(id) /\ Expected(id) => HasSection(id)

BodiesOK == \A n \in 1..Len(file) : file[n] # EndMarker => file[n].body = Body(file[n].id, table)

PlaceOK ==
    /\ step = "header" => file = <<>> /\ tell = start
    /\ module.version < MinSupportedVersion =>
          file = <<>> /\ step \in {"header", "failed", "read", "rejected"}
    /\ step # "header" /\ module.version >= MinSupportedVersion =>
          \E length \in Nat : tell = start + length /\ Placed(file, start, length)

WriterInv ==
    /\ module \in Modules /\ start \in Nat /\ tell \in Nat
    /\ TablesOK /\ KeysOK /\ FileOK /\ SectionsOK /\ BodiesOK /\ PlaceOK

(* Then the reader: where it is, and what it has found and built so far.   *)
Reads ==
    /\ next \in 1..Len(file) + 1
    /\ \E ends : /\ Ends(file, start, ends) /\ tell = start + ends[Len(file) + 1]
                 /\ offset = ends[next]

Found(before) ==
    /\ DOMAIN payloads = {file[n].id : n \in 1..before - 1}
    /\ \A n \in 1..before - 1 :
          file[n] # EndMarker /\ payloads[file[n].id] = file[n].body

Sound == start % 8 = 0
ReaderInv ==
    /\ step \in WriterSteps \cup {"written", "failed"} => size = None /\ payloads = <<>>
    /\ step \in {"written", "measure", "measured"} \cup ReaderSteps => Complete
    /\ step = "read" => size \in Nat /\ next = 1 /\ payloads = <<>>
    /\ step \in {"sections", "measure"} => Reads /\ Found(next)
    /\ step \in {"measure", "measured"} => size = None
    /\ step = "measured" => found = Length
    /\ step = "sections" => size \in Nat
    /\ step \in ReaderSteps => size = Length /\ Found(Len(file))
    /\ step \in {"rejected", "misread"} =>
          ~(Sound /\ (size = None \/ (Complete /\ size = Length)))

BuiltInv ==
    /\ step = "globals" => built = [producer |-> Carried(module).producer, items |-> <<>>]
    /\ step = "functions" => built = [producer |-> Carried(module).producer, items |-> Globals(module)]
    /\ step = "accepted" => built = Carried(module)

FileInv == WriterInv /\ ReaderInv /\ BuiltInv

-----------------------------------------------------------------------------
(* What a step that writes a section, or finds that there is none to       *)
(* write, does; each step of the writer between its first and its last is  *)
(* shown to be one.                                                        *)
Movers == {"map"} \cup Sections

SameTables(U) ==
    /\ step \in Past("Func") => U["Constant"] = table["Constant"]
    /\ step \in Past("map") => U["Debug"] = table["Debug"]
    /\ step \in Past("Func") => U["Type"] = table["Type"]
    /\ step = "String" => U["String"] = table["String"]

NewKeys(U) ==
    /\ step = "map" => MapKeys(U)
    /\ step = "Global" => GlobalKeys(U) /\ Encodable
    /\ step = "Func" => ValueKeys(U)
    /\ step = "Debug" => FileKeys(U)
    /\ step = "Producer" => ProducerKey(U)

Needed(id, U) ==
    CASE id = "Global" -> Globals(module) # <<>>
      [] id \in {"Constant", "Debug"} -> U[id] # <<>>
      [] id = "Producer" -> HasProducer
      [] id \in {"Func", "Type", "String"} -> TRUE

Skips(U) == UNCHANGED <<file, tell>> /\ (step \in Sections => ~Needed(step, U))
Writes(U) ==
    /\ step \in Sections /\ Needed(step, U)
    /\ \E len \in Nat : Emit(step, len, Body(step, U))

Moved(U) ==
    /\ step \in Movers /\ step' = After[step] /\ UNCHANGED <<module, start>>
    /\ table' = U /\ DOMAIN U = Managers /\ Grows(table, U)
    /\ SameTables(U) /\ NewKeys(U)
    /\ Skips(U) \/ Writes(U)

LEMMA AfterFacts ==
    ASSUME NEW s \in Movers, NEW t, t = After[s]
    PROVE  /\ t \in WriterSteps \ {"header"}
           /\ \A id \in Movers : t \in Past(id) <=> s \in Past(id) \/ id = s
           /\ s \in WriterSteps \ {"header"}
  <1>1. Movers = {"map", "Global", "Func", "Constant", "Debug", "Type", "Producer", "String"}
    BY DEF Movers, Sections, Managers
  <1>2. CASE s = "map"
    BY <1>1, <1>2 DEF After, Past, WriterSteps
  <1>3. CASE s = "Global"
    BY <1>1, <1>3 DEF After, Past, WriterSteps
  <1>4. CASE s = "Func"
    BY <1>1, <1>4 DEF After, Past, WriterSteps
  <1>5. CASE s = "Constant"
    BY <1>1, <1>5 DEF After, Past, WriterSteps
  <1>6. CASE s = "Debug"
    BY <1>1, <1>6 DEF After, Past, WriterSteps
  <1>7. CASE s = "Type"
    BY <1>1, <1>7 DEF After, Past, WriterSteps
  <1>8. CASE s = "Producer"
    BY <1>1, <1>8 DEF After, Past, WriterSteps
  <1>9. CASE s = "String"
    BY <1>1, <1>9 DEF After, Past, WriterSteps
  <1> QED BY <1>1, <1>2, <1>3, <1>4, <1>5, <1>6, <1>7, <1>8, <1>9

(* A section is what a mover appends.                                      *)
LEMMA SectionFacts ==
    ASSUME NEW id \in Sections, NEW len \in Nat, NEW body, tell \in Nat
    PROVE  /\ WellMade(Section(id, len, body)) /\ Section(id, len, body) # EndMarker
           /\ Section(id, len, body).id = id /\ Section(id, len, body).body = body
           /\ Section(id, len, body).pad =
                Padding(tell + HeadBytes(Section(id, len, body).align), Section(id, len, body).align)
  <1>1. PICK a : a = Alignment(id)
    OBVIOUS
  <1>2. a \in {1, 4, 8} /\ HeadBytes(a) \in Nat
    BY <1>1, AlignmentFacts
  <1>3. PICK p : p = Padding(tell + HeadBytes(a), a)
    OBVIOUS
  <1>4. p \in Nat
    <2>1. PICK q \in Nat : q = tell + HeadBytes(a)
      BY <1>2
    <2>2. 0 \in Nat
      OBVIOUS
    <2> QED BY <1>2, <1>3, <2>1, <2>2, PaddingFacts
  <1>5. PICK s : s = Section(id, len, body)
    OBVIOUS
  <1>6. s = [id |-> id, align |-> a, pad |-> p, len |-> len, body |-> body]
    BY <1>1, <1>3, <1>5 DEF Section
  <1>7. s.id = id /\ s.align = a /\ s.pad = p /\ s.len = len /\ s.body = body
    BY <1>6
  <1>8. s # EndMarker
    BY <1>7 DEF EndMarker, Sections, Managers
  <1>9. WellMade(s)
    BY <1>1, <1>4, <1>7, <1>8 DEF WellMade
  <1> QED BY <1>3, <1>5, <1>7, <1>8, <1>9

LEMMA MovedSteps ==
    ASSUME WriterInv, NEW U, Moved(U)
    PROVE  /\ ~Complete
           /\ step \in WriterSteps \ {"header"} /\ step' \in WriterSteps \ {"header"}
           /\ \A id \in Movers : step' \in Past(id) <=> step \in Past(id) \/ id = step
  <1>1. step \in Movers /\ step' = After[step]
    BY DEF Moved
  <1>2. PICK s \in Movers : s = step
    BY <1>1
  <1>3. PICK t : t = After[s]
    OBVIOUS
  <1>4. /\ t \in WriterSteps \ {"header"}
        /\ \A id \in Movers : t \in Past(id) <=> s \in Past(id) \/ id = s
        /\ s \in WriterSteps \ {"header"}
    BY <1>3, AfterFacts
  <1>5. ~Complete
    BY <1>2, <1>4 DEF WriterInv, FileOK, Complete, Contains
  <1> QED BY <1>1, <1>2, <1>3, <1>4, <1>5

(* The file of the next state has the same sections and at most one more.  *)
OneMore(U) ==
    /\ IsSeq(file') /\ Len(file) \in Nat
    /\ \A n \in 1..Len(file) : n \in 1..Len(file') /\ file'[n] = file[n]
    /\ \A n \in 1..Len(file') :
          \/ n \in 1..Len(file)
          \/ /\ n = Len(file) + 1 /\ step \in Sections /\ Needed(step, U)
             /\ WellMade(file'[n]) /\ file'[n] # EndMarker
             /\ file'[n].id = step /\ file'[n].body = Body(step, U)
    /\ step \in Sections /\ Needed(step, U) =>
          \E n \in 1..Len(file') : file'[n].id = step

LEMMA MovedFile ==
    ASSUME WriterInv, NEW U, Moved(U)
    PROVE  OneMore(U)
  <1>1. IsSeq(file) /\ tell \in Nat
    BY DEF WriterInv, FileOK
  <1>2. Len(file) \in Nat
    BY <1>1, SeqFacts
  <1>3. CASE Skips(U)
    BY <1>1, <1>2, <1>3 DEF Skips, OneMore
  <1>4. CASE Writes(U)
    <2>1. step \in Sections /\ Needed(step, U)
      BY <1>4 DEF Writes
    <2>2. PICK len \in Nat : file' = Append(file, Section(step, len, Body(step, U)))
      BY <1>4 DEF Writes, Emit
    <2>3. PICK b : b = Body(step, U)
      OBVIOUS
    <2>4. PICK s : s = Section(step, len, b)
      OBVIOUS
    <2>5. WellMade(s) /\ s # EndMarker /\ s.id = step /\ s.body = b
      BY <1>1, <2>1, <2>4, SectionFacts
    <2>6. PICK G : G = file' /\ G = Append(file, s)
      BY <2>2, <2>3, <2>4
    <2>7. /\ IsSeq(G) /\ Len(G) = Len(file) + 1
          /\ \A n \in 1..Len(file) : G[n] = file[n]
          /\ G[Len(file) + 1] = s
      BY <1>1, <2>6, AppendAny
    <2>8. /\ \A n \in 1..Len(file) : n \in 1..Len(G)
          /\ \A n \in 1..Len(G) : n \in 1..Len(file) \/ n = Len(file) + 1
          /\ Len(file) + 1 \in 1..Len(G)
      BY <1>2, <2>7
    <2> QED BY <1>2, <2>1, <2>3, <2>5, <2>6, <2>7, <2>8 DEF OneMore
  <1> QED BY <1>3, <1>4 DEF Moved

LEMMA MovedFileOK ==
    ASSUME WriterInv, NEW U, Moved(U)
    PROVE  FileOK' /\ ~Complete'
  <1>1. /\ IsSeq(file') /\ Len(file) \in Nat
        /\ \A n \in 1..Len(file) : n \in 1..Len(file') /\ file'[n] = file[n]
        /\ \A n \in 1..Len(file') :
              \/ n \in 1..Len(file)
              \/ /\ n = Len(file) + 1 /\ step \in Sections /\ Needed(step, U)
                 /\ WellMade(file'[n]) /\ file'[n] # EndMarker
                 /\ file'[n].id = step
    BY MovedFile DEF OneMore
  <1>2. /\ ~Complete
        /\ step \in WriterSteps \ {"header"} /\ step' \in WriterSteps \ {"header"}
        /\ \A id \in Movers : step' \in Past(id) <=> step \in Past(id) \/ id = step
    BY MovedSteps
  <1>3. /\ \A n \in 1..Len(file) : WellMade(file[n]) /\ file[n] # EndMarker
        /\ \A n \in 1..Len(file) : Done(file[n].id)
        /\ \A m, n \in 1..Len(file) : file[m].id = file[n].id => m = n
        /\ HasSection("Producer") => HasProducer
    BY <1>2 DEF WriterInv, FileOK, Complete, Contains
  <1>4. \A n \in 1..Len(file') : WellMade(file'[n]) /\ file'[n] # EndMarker
    BY <1>1, <1>3
  <1>5. ~Complete'
    BY <1>4 DEF Complete, Contains
  <1>6. \A n \in 1..Len(file) : file[n].id \in Sections /\ step \in Past(file[n].id)
    BY <1>2, <1>3 DEF WellMade, Done
  <1>7. \A n \in 1..Len(file') : file'[n].id \in Movers /\ step' \in Past(file'[n].id)
    BY <1>1, <1>2, <1>6 DEF Movers
  <1>8. \A n \in 1..Len(file) : file[n].id # step
    <2>1. \A id \in Movers : id = step => step \notin Past(id)
      BY DEF Movers, Sections, Managers, Past
    <2> QED BY <1>6, <2>1 DEF Movers
  <1>9. \A m, n \in 1..Len(file') : file'[m].id = file'[n].id => m = n
    BY <1>1, <1>3, <1>8
  <1>10. HasSection("Producer")' => HasProducer'
    <2>1. UNCHANGED module
      BY DEF Moved
    <2>2. ASSUME NEW n \in 1..Len(file'), file'[n].id = "Producer" PROVE HasProducer
      <3>1. CASE n \in 1..Len(file)
        BY <1>1, <1>3, <2>2, <3>1 DEF HasSection
      <3>2. CASE n \notin 1..Len(file)
        <4>1. step = "Producer" /\ Needed(step, U)
          BY <1>1, <2>2, <3>2
        <4> QED BY <4>1 DEF Needed
      <3> QED BY <3>1, <3>2
    <2> QED BY <2>1, <2>2 DEF HasSection, HasProducer
  <1> QED BY <1>1, <1>4, <1>5, <1>7, <1>9, <1>10 DEF FileOK, Done

(* What is said of the tables of the next state, said of this one's module.*)
LEMMA NextTables ==
    ASSUME NEW U, table' = U, UNCHANGED module
    PROVE  /\ MapKeys(table)' <=> MapKeys(U)
           /\ GlobalKeys(table)' <=> GlobalKeys(U)
           /\ ValueKeys(table)' <=> ValueKeys(U)
           /\ FileKeys(table)' <=> FileKeys(U)
           /\ ProducerKey(table)' <=> ProducerKey(U)
           /\ Encodable' <=> Encodable
  <1>1. MapKeys(table)' <=> MapKeys(U)
    BY DEF MapKeys, Declares
  <1>2. GlobalKeys(table)' <=> GlobalKeys(U)
    BY DEF GlobalKeys, Holds
  <1>3. ValueKeys(table)' <=> ValueKeys(U)
    BY DEF ValueKeys, Values
  <1>4. FileKeys(table)' <=> FileKeys(U)
    BY DEF FileKeys
  <1>5. ProducerKey(table)' <=> ProducerKey(U)
    BY DEF ProducerKey, HasProducer
  <1>6. Encodable' <=> Encodable
    BY DEF Encodable
  <1> QED BY <1>1, <1>2, <1>3, <1>4, <1>5, <1>6

LEMMA NextBodies ==
    ASSUME NEW U, table' = U, UNCHANGED module
    PROVE  \A id \in Sections : Body(id, table)' = Body(id, U)
  <1>1. GlobalBody(table)' = GlobalBody(U)
    BY DEF GlobalBody, GlobalEntry, GlobalFields
  <1>2. FuncBody(table)' = FuncBody(U)
    BY DEF FuncBody
  <1>3. BitsBody(table)' = BitsBody(U) /\ DebugBody(table)' = DebugBody(U)
    BY DEF BitsBody, DebugBody
  <1> QED BY <1>1, <1>2, <1>3 DEF Body

LEMMA MovedKeysOK ==
    ASSUME WriterInv, NEW U, Moved(U)
    PROVE  KeysOK' /\ TablesOK'
  <1>1. /\ step \in WriterSteps
        /\ \A id \in Movers : step' \in Past(id) <=> step \in Past(id) \/ id = step
    BY MovedSteps
  <1>2. Grows(table, U) /\ SameTables(U) /\ NewKeys(U) /\ table' = U /\ DOMAIN U = Managers
        /\ UNCHANGED module
    BY DEF Moved
  <1>3. ~Complete'
    BY MovedFileOK
  <1>4. /\ MapKeys(table) => MapKeys(U)
        /\ GlobalKeys(table) => GlobalKeys(U)
        /\ ValueKeys(table) => ValueKeys(U)
        /\ FileKeys(table) /\ U["Debug"] = table["Debug"] => FileKeys(U)
        /\ ProducerKey(table) => ProducerKey(U)
    BY <1>2, KeysStay
  <1>5. /\ step \in Past("map") => MapKeys(table)
        /\ step \in Past("Global") => GlobalKeys(table) /\ Encodable
        /\ step \in Past("Func") => ValueKeys(table)
        /\ step \in Past("Debug") => FileKeys(table)
        /\ step \in Past("Producer") => ProducerKey(table)
    BY DEF WriterInv, KeysOK, Done
  <1>6. step \in Past("Debug") => U["Debug"] = table["Debug"]
    BY <1>2 DEF SameTables, Past
  <1>7. {"map", "Global", "Func", "Debug", "Producer"} \subseteq Movers
    BY DEF Movers, Sections, Managers
  <1>8. /\ step' \in Past("map") => MapKeys(U)
        /\ step' \in Past("Global") => GlobalKeys(U) /\ Encodable
        /\ step' \in Past("Func") => ValueKeys(U)
        /\ step' \in Past("Debug") => FileKeys(U)
        /\ step' \in Past("Producer") => ProducerKey(U)
    BY <1>1, <1>2, <1>4, <1>5, <1>6, <1>7 DEF NewKeys
  <1>9. KeysOK'
    BY <1>2, <1>3, <1>8, NextTables DEF KeysOK, Done
  <1>10. TablesOK'
    BY <1>2 DEF TablesOK, Grows
  <1> QED BY <1>9, <1>10

LEMMA MovedSectionsOK ==
    ASSUME WriterInv, NEW U, Moved(U)
    PROVE  SectionsOK'
  <1>1. /\ ~Complete /\ step \in WriterSteps
        /\ \A id \in Movers : step' \in Past(id) <=> step \in Past(id) \/ id = step
    BY MovedSteps
  <1>2. /\ \A n \in 1..Len(file) : n \in 1..Len(file') /\ file'[n] = file[n]
        /\ step \in Sections /\ Needed(step, U) => \E n \in 1..Len(file') : file'[n].id = step
    BY MovedFile DEF OneMore
  <1>3. ~Complete'
    BY MovedFileOK
  <1>4. SameTables(U) /\ table' = U /\ UNCHANGED module
    BY DEF Moved
  <1>5. ASSUME NEW id \in Sections, step' \in Past(id), Expected(id)'
        PROVE  HasSection(id)'
    <2>1. Needed(id, U)
      BY <1>4, <1>5 DEF Expected, Needed, HasProducer, Sections, Managers
    <2>2. CASE id = step
      BY <1>2, <2>1, <2>2 DEF HasSection
    <2>3. CASE id # step
      <3>1. step \in Past(id)
        BY <1>1, <1>5, <2>3 DEF Movers
      <3>2. Expected(id)
        <4>1. id = "Constant" => U["Constant"] = table["Constant"]
          BY <1>4, <3>1 DEF SameTables, Past
        <4>2. id = "Debug" => U["Debug"] = table["Debug"]
          BY <1>4, <3>1 DEF SameTables, Past
        <4> QED BY <2>1, <4>1, <4>2 DEF Expected, Needed, Sections, Managers
      <3>3. HasSection(id)
        BY <3>1, <3>2 DEF WriterInv, SectionsOK, Done
      <3> QED BY <1>2, <3>3 DEF HasSection
    <2> QED BY <2>2, <2>3
  <1> QED BY <1>3, <1>5 DEF SectionsOK, Done

LEMMA MovedBodiesOK ==
    ASSUME WriterInv, NEW U, Moved(U)
    PROVE  BodiesOK'
  <1>1. ~Complete /\ step \in WriterSteps
    BY MovedSteps
  <1>2. /\ \A n \in 1..Len(file') :
              \/ n \in 1..Len(file) /\ file'[n] = file[n]
              \/ step \in Sections /\ file'[n].id = step /\ file'[n].body = Body(step, U)
    BY MovedFile DEF OneMore
  <1>3. Grows(table, U) /\ SameTables(U) /\ table' = U /\ UNCHANGED module
    BY DEF Moved
  <1>4. \A id \in Sections : Body(id, table)' = Body(id, U)
    BY <1>3, NextBodies
  <1>5. ASSUME NEW n \in 1..Len(file), file[n] # EndMarker
        PROVE  file[n].id \in Sections /\ file[n].body = Body(file[n].id, U)
    <2>1. PICK id \in Sections : id = file[n].id
      BY <1>5 DEF WriterInv, FileOK, WellMade
    <2>2. file[n].body = Body(id, table)
      BY <1>5, <2>1 DEF WriterInv, BodiesOK
    <2>3. step \in Past(id)
      BY <1>1, <1>5, <2>1 DEF WriterInv, FileOK, Done
    <2>4. /\ step \in Past("map") => MapKeys(table)
          /\ step \in Past("Global") => GlobalKeys(table)
          /\ step \in Past("Func") => ValueKeys(table)
          /\ step \in Past("Debug") => FileKeys(table)
          /\ step \in Past("Producer") => ProducerKey(table)
      BY DEF WriterInv, KeysOK, Done
    <2>5. id = "Producer" => HasProducer
      BY <1>5, <2>1 DEF WriterInv, FileOK, HasSection
    <2>6. id = "Global" => GlobalKeys(table)
      BY <2>3, <2>4
    <2>7. id = "Func" => MapKeys(table) /\ ValueKeys(table)
      BY <2>3, <2>4 DEF Past
    <2>8. id = "Constant" => U["Constant"] = table["Constant"]
      BY <1>3, <2>3 DEF Past, SameTables
    <2>9. id = "Debug" => U["Debug"] = table["Debug"] /\ FileKeys(table)
      BY <1>3, <2>3, <2>4 DEF Past, SameTables
    <2>10. id = "Type" => U["Type"] = table["Type"]
      BY <1>3, <2>3 DEF Past, SameTables
    <2>11. id # "String"
      <3>1. id = "String" => step = "End"
        BY <2>3 DEF Past
      <3> QED BY <3>1 DEF Moved, Movers, Sections, Managers
    <2>12. Frozen(id, table, U)
      BY <2>3, <2>4, <2>5, <2>6, <2>7, <2>8, <2>9, <2>10, <2>11 DEF Frozen, Sections, Managers
    <2>13. PICK T : T = table
      OBVIOUS
    <2>14. Body(id, U) = Body(id, T)
      <3>1. module \in Modules /\ Grows(T, U) /\ Frozen(id, T, U)
        BY <1>3, <2>12, <2>13 DEF WriterInv
      <3> QED BY <3>1, BodyStays
    <2> QED BY <2>1, <2>2, <2>13, <2>14
  <1>6. ASSUME NEW n \in 1..Len(file'), file'[n] # EndMarker
        PROVE  file'[n].body = Body(file[n].id, table)'
    <2>1. PICK id \in Sections : id = file'[n].id /\ file'[n].body = Body(id, U)
      <3>1. CASE n \in 1..Len(file) /\ file'[n] = file[n]
        BY <1>5, <1>6, <3>1
      <3>2. CASE step \in Sections /\ file'[n].id = step /\ file'[n].body = Body(step, U)
        BY <3>2
      <3> QED BY <1>2, <3>1, <3>2
    <2>2. Body(id, table)' = Body(id, U)
      BY <1>4
    <2>3. Body(file[n].id, table)' = Body(id, table)'
      BY <2>1 DEF Body
    <2> QED BY <2>1, <2>2, <2>3
  <1> QED BY <1>6 DEF BodiesOK

LEMMA MovedPlaceOK ==
    ASSUME WriterInv, NEW U, Moved(U)
    PROVE  PlaceOK' /\ tell' \in Nat
  <1>1. step \in WriterSteps \ {"header"} /\ step' \in WriterSteps \ {"header"}
    BY MovedSteps
  <1>2. step \in Movers /\ UNCHANGED <<module, start>>
    BY DEF Moved
  <1>3. ~(module.version < MinSupportedVersion)
    BY <1>2 DEF WriterInv, PlaceOK, Movers, Sections, Managers
  <1>4. module.version \in Nat /\ start \in Nat /\ tell \in Nat /\ IsSeq(file)
    BY ModuleFacts DEF WriterInv, FileOK
  <1>5. PICK length \in Nat : tell = start + length /\ Placed(file, start, length)
    BY <1>1, <1>3, <1>4 DEF WriterInv, PlaceOK, MinSupportedVersion
  <1>6. \E length2 \in Nat : tell' = start + length2 /\ Placed(file', start, length2)
    <2>1. CASE Skips(U)
      BY <1>5, <2>1 DEF Skips
    <2>2. CASE Writes(U)
      <3>1. step \in Sections
        BY <2>2 DEF Writes
      <3>2. PICK len \in Nat : Emit(step, len, Body(step, U))
        BY <2>2 DEF Writes
      <3>3. PICK b : b = Body(step, U)
        OBVIOUS
      <3>4. PICK s : s = Section(step, len, b)
        OBVIOUS
      <3>5. file' = Append(file, s) /\ tell' = tell + Bytes(s)
        BY <3>2, <3>3, <3>4 DEF Emit
      <3>6. WellMade(s) /\ s.pad = Padding(tell + HeadBytes(s.align), s.align)
        BY <1>4, <3>1, <3>4, SectionFacts
      <3>7. s # EndMarker => s.pad = Padding(start + length + HeadBytes(s.align), s.align)
        BY <1>5, <3>6
      <3>8. Placed(Append(file, s), start, length + Bytes(s))
        BY <1>4, <1>5, <3>6, <3>7, PlacedMore
      <3>9. PICK k \in Nat : k = Bytes(s)
        BY <3>6, BytesFacts
      <3>10. length + k \in Nat /\ tell' = start + (length + k)
        BY <1>4, <1>5, <3>5, <3>9
      <3> QED BY <3>5, <3>8, <3>9, <3>10
    <2> QED BY <2>1, <2>2 DEF Moved
  <1>7. tell' \in Nat
    BY <1>4, <1>6
  <1>8. PlaceOK'
    BY <1>1, <1>2, <1>3, <1>6 DEF PlaceOK
  <1> QED BY <1>7, <1>8

LEMMA MovedWriterInv ==
    ASSUME WriterInv, NEW U, Moved(U)
    PROVE  WriterInv'
  <1>1. FileOK' /\ KeysOK' /\ TablesOK' /\ SectionsOK' /\ BodiesOK' /\ PlaceOK' /\ tell' \in Nat
    BY MovedFileOK, MovedKeysOK, MovedSectionsOK, MovedBodiesOK, MovedPlaceOK
  <1>2. UNCHANGED <<module, start>>
    BY DEF Moved
  <1> QED BY <1>1, <1>2 DEF WriterInv

-----------------------------------------------------------------------------
(* The steps of the writer that write sections are such steps.             *)
LEMMA GrowsItself ==
    ASSUME NEW t, Table(t)
    PROVE  Extends(t, t)
  <1>1. Len(t) \in Nat
    BY SeqFacts DEF Table
  <1> QED BY <1>1 DEF Extends

(* A table that goes through Intern grows, and has the keys.               *)
LEMMA InternOne ==
    ASSUME NEW t, Table(t), NEW keys, IsSeq(keys), NEW u, u = Intern(t, keys)
    PROVE  /\ Table(u) /\ Extends(t, u)
           /\ \A n \in 1..Len(keys) : Has(u, keys[n])
  BY InternFacts

LEMMA EachIsSeq ==
    ASSUME NEW n \in Nat, NEW f, f = [i \in 1..n |-> f[i]]
    PROVE  IsSeq(f) /\ Len(f) = n
  <1>1. PICK S : S = {f[i] : i \in 1..n}
    OBVIOUS
  <1>2. f \in [1..n -> S]
    BY <1>1
  <1>3. f \in Seq(S)
    BY <1>2, IsASeq
  <1>4. Len(f) \in Nat /\ DOMAIN f = 1..Len(f)
    BY <1>3, LenProperties
  <1>5. PICK l \in Nat : l = Len(f) /\ 1..l = 1..n
    BY <1>2, <1>4
  <1>6. l = n
    <2>1. l \in 1..l \/ l = 0
      OBVIOUS
    <2>2. n \in 1..n \/ n = 0
      OBVIOUS
    <2>3. l \in 1..n \/ l = 0
      BY <1>5, <2>1
    <2>4. n \in 1..l \/ n = 0
      BY <1>5, <2>2
    <2> QED BY <2>3, <2>4
  <1> QED BY <1>3, <1>5, <1>6 DEF IsSeq

LEMMA MapStepMoves ==
    ASSUME WriterInv, BuildFunctionMap
    PROVE  \E U : Moved(U)
  <1>1. PICK funcs : funcs = Functions(module)
    OBVIOUS
  <1>2. /\ IsSeq(funcs) /\ Len(funcs) \in Nat /\ DOMAIN funcs = 1..Len(funcs)
    BY <1>1, ModuleFacts, SeqFacts DEF WriterInv
  <1>3. PICK names : names = Each(funcs, LAMBDA f : f.name)
    OBVIOUS
  <1>4. PICK types : types = Each(funcs, LAMBDA f : f.type)
    OBVIOUS
  <1>5. PICK locs : locs = Each(funcs, LAMBDA f : f.loc)
    OBVIOUS
  <1>6. /\ names = [n \in 1..Len(funcs) |-> funcs[n].name]
        /\ types = [n \in 1..Len(funcs) |-> funcs[n].type]
        /\ locs = [n \in 1..Len(funcs) |-> funcs[n].loc]
    BY <1>2, <1>3, <1>4, <1>5 DEF Each
  <1>7. /\ IsSeq(names) /\ Len(names) = Len(funcs)
        /\ IsSeq(types) /\ Len(types) = Len(funcs)
        /\ IsSeq(locs) /\ Len(locs) = Len(funcs)
    <2>1. names = [n \in 1..Len(funcs) |-> names[n]]
      BY <1>6
    <2>2. types = [n \in 1..Len(funcs) |-> types[n]]
      BY <1>6
    <2>3. locs = [n \in 1..Len(funcs) |-> locs[n]]
      BY <1>6
    <2> QED BY <1>2, <2>1, <2>2, <2>3, EachIsSeq
  <1>8. PICK keep : keep = ToSet(locs) \ {None}
    OBVIOUS
  <1>9. PICK known : known = Kept(locs, keep)
    OBVIOUS
  <1>10. IsSeq(known) /\ \A x : Has(known, x) <=> Has(locs, x) /\ x \in keep
    BY <1>7, <1>9, KeptHas
  <1>11. PICK S : S = table["String"]
    OBVIOUS
  <1>12. PICK Y : Y = table["Type"]
    OBVIOUS
  <1>13. PICK D : D = table["Debug"]
    OBVIOUS
  <1>14. PICK C : C = table["Constant"]
    OBVIOUS
  <1>15. Table(S) /\ Table(Y) /\ Table(D) /\ Table(C) /\ DOMAIN table = Managers
    BY <1>11, <1>12, <1>13, <1>14 DEF WriterInv, TablesOK, Managers
  <1>16. PICK S2 : S2 = Intern(S, names)
    OBVIOUS
  <1>17. PICK Y2 : Y2 = Intern(Y, types)
    OBVIOUS
  <1>18. PICK D2 : D2 = Intern(D, known)
    OBVIOUS
  <1>19. /\ Table(S2) /\ Extends(S, S2) /\ \A n \in 1..Len(names) : Has(S2, names[n])
         /\ Table(Y2) /\ Extends(Y, Y2) /\ \A n \in 1..Len(types) : Has(Y2, types[n])
         /\ Table(D2) /\ Extends(D, D2) /\ \A n \in 1..Len(known) : Has(D2, known[n])
         /\ Extends(C, C)
    <2>1. /\ Table(S2) /\ Extends(S, S2) /\ \A n \in 1..Len(names) : Has(S2, names[n])
      BY <1>7, <1>15, <1>16, InternOne
    <2>2. /\ Table(Y2) /\ Extends(Y, Y2) /\ \A n \in 1..Len(types) : Has(Y2, types[n])
      BY <1>7, <1>15, <1>17, InternOne
    <2>3. /\ Table(D2) /\ Extends(D, D2) /\ \A n \in 1..Len(known) : Has(D2, known[n])
      BY <1>10, <1>15, <1>18, InternOne
    <2> QED BY <1>15, <2>1, <2>2, <2>3, GrowsItself
  <1>20. PICK U : U = table'
    OBVIOUS
  <1>21. /\ DOMAIN U = Managers
         /\ U["String"] = S2 /\ U["Type"] = Y2 /\ U["Debug"] = D2 /\ U["Constant"] = C
    <2>1. U = [table EXCEPT !.String = Intern(@, names), !.Type = Intern(@, types),
                            !.Debug = Intern(@, known)]
      BY <1>1, <1>3, <1>4, <1>5, <1>8, <1>9, <1>20 DEF BuildFunctionMap
    <2> QED BY <1>11, <1>12, <1>13, <1>14, <1>15, <1>16, <1>17, <1>18, <2>1 DEF Managers
  <1>22. Grows(table, U)
    BY <1>11, <1>12, <1>13, <1>14, <1>15, <1>19, <1>21 DEF Grows, Managers
  <1>23. MapKeys(U)
    <2>1. ASSUME NEW n \in 1..Len(funcs) PROVE Declares(U, funcs[n])
      <3>1. Has(S2, funcs[n].name) /\ Has(Y2, funcs[n].type)
        BY <1>6, <1>7, <1>19
      <3>2. ASSUME funcs[n].loc # None PROVE Has(D2, funcs[n].loc)
        <4>1. DOMAIN locs = 1..Len(locs) /\ n \in 1..Len(locs) /\ locs[n] = funcs[n].loc
          BY <1>6, <1>7
        <4>2. locs[n] \in keep /\ Has(locs, locs[n])
          BY <1>8, <3>2, <4>1 DEF ToSet, Has
        <4>3. Has(known, locs[n])
          BY <1>10, <4>2
        <4> QED BY <1>19, <4>1, <4>3 DEF Has
      <3> QED BY <1>21, <3>1, <3>2 DEF Declares
    <2> QED BY <1>1, <2>1 DEF MapKeys
  <1>24. step = "map" /\ step' = After[step] /\ UNCHANGED <<module, start, file, tell>>
    BY DEF BuildFunctionMap
  <1>25. SameTables(U) /\ NewKeys(U) /\ Skips(U) /\ step \in Movers
    BY <1>23, <1>24 DEF SameTables, NewKeys, Skips, Movers, Sections, Managers, Past
  <1>26. Moved(U)
    BY <1>20, <1>21, <1>22, <1>24, <1>25 DEF Moved
  <1> QED BY <1>26

LEMMA GlobalStepMoves ==
    ASSUME WriterInv, WriteGlobals, step' # "failed"
    PROVE  \E U : Moved(U)
  <1>1. PICK globals : globals = Globals(module)
    OBVIOUS
  <1>2. /\ IsSeq(globals) /\ Len(globals) \in Nat /\ DOMAIN globals = 1..Len(globals)
    BY <1>1, ModuleFacts, SeqFacts DEF WriterInv
  <1>3. PICK names : names = Each(globals, LAMBDA g : g.name)
    OBVIOUS
  <1>4. PICK types : types = Each(globals, LAMBDA g : g.value.type)
    OBVIOUS
  <1>5. PICK values : values = Each(globals, LAMBDA g : g.value)
    OBVIOUS
  <1>6. /\ names = [n \in 1..Len(globals) |-> globals[n].name]
        /\ types = [n \in 1..Len(globals) |-> globals[n].value.type]
        /\ values = [n \in 1..Len(globals) |-> globals[n].value]
    BY <1>2, <1>3, <1>4, <1>5 DEF Each
  <1>7. /\ IsSeq(names) /\ Len(names) = Len(globals)
        /\ IsSeq(types) /\ Len(types) = Len(globals)
        /\ IsSeq(values) /\ Len(values) = Len(globals)
    <2>1. names = [n \in 1..Len(globals) |-> names[n]]
      BY <1>6
    <2>2. types = [n \in 1..Len(globals) |-> types[n]]
      BY <1>6
    <2>3. values = [n \in 1..Len(globals) |-> values[n]]
      BY <1>6
    <2> QED BY <1>2, <2>1, <2>2, <2>3, EachIsSeq
  <1>8. PICK S : S = table["String"]
    OBVIOUS
  <1>9. PICK Y : Y = table["Type"]
    OBVIOUS
  <1>10. PICK C : C = table["Constant"]
    OBVIOUS
  <1>11. PICK D : D = table["Debug"]
    OBVIOUS
  <1>12. Table(S) /\ Table(Y) /\ Table(D) /\ Table(C) /\ DOMAIN table = Managers
    BY <1>8, <1>9, <1>10, <1>11 DEF WriterInv, TablesOK, Managers
  <1>13. PICK S2 : S2 = Intern(S, names)
    OBVIOUS
  <1>14. PICK Y2 : Y2 = Intern(Y, types)
    OBVIOUS
  <1>15. PICK C2 : C2 = Intern(C, values)
    OBVIOUS
  <1>16. /\ Table(S2) /\ Extends(S, S2) /\ \A n \in 1..Len(names) : Has(S2, names[n])
         /\ Table(Y2) /\ Extends(Y, Y2) /\ \A n \in 1..Len(types) : Has(Y2, types[n])
         /\ Table(C2) /\ Extends(C, C2) /\ \A n \in 1..Len(values) : Has(C2, values[n])
         /\ Extends(D, D) /\ Extends(S, S) /\ Extends(Y, Y) /\ Extends(C, C)
    <2>1. /\ Table(S2) /\ Extends(S, S2) /\ \A n \in 1..Len(names) : Has(S2, names[n])
      BY <1>7, <1>12, <1>13, InternOne
    <2>2. /\ Table(Y2) /\ Extends(Y, Y2) /\ \A n \in 1..Len(types) : Has(Y2, types[n])
      BY <1>7, <1>12, <1>14, InternOne
    <2>3. /\ Table(C2) /\ Extends(C, C2) /\ \A n \in 1..Len(values) : Has(C2, values[n])
      BY <1>7, <1>12, <1>15, InternOne
    <2> QED BY <1>12, <2>1, <2>2, <2>3, GrowsItself
  <1>17. PICK U : U = table'
    OBVIOUS
  <1>18. step = "Global" /\ UNCHANGED <<module, start>> /\ step \in Movers
    BY DEF WriteGlobals, Movers, Sections
  <1>19. CASE globals = <<>>
    <2>1. step' = After[step] /\ UNCHANGED <<table, file, tell>>
      BY <1>1, <1>19 DEF WriteGlobals
    <2>2. Grows(table, U) /\ DOMAIN U = Managers
      BY <1>8, <1>9, <1>10, <1>11, <1>12, <1>16, <1>17, <2>1 DEF Grows, Managers
    <2>3. Len(globals) = 0
      BY <1>19
    <2>4. GlobalKeys(U) /\ Encodable
      BY <1>1, <2>3 DEF GlobalKeys, Encodable
    <2>5. ~Needed(step, U)
      BY <1>1, <1>18, <1>19 DEF Needed
    <2>6. SameTables(U) /\ NewKeys(U) /\ Skips(U)
      BY <1>17, <1>18, <2>1, <2>4, <2>5 DEF SameTables, NewKeys, Skips, Past
    <2>7. Moved(U)
      BY <1>17, <1>18, <2>1, <2>2, <2>6 DEF Moved
    <2> QED BY <2>7
  <1>20. CASE globals # <<>>
    <2>1. ~(/\ module.version < ExtendedVersion
            /\ \E n \in DOMAIN globals : Unencodable(globals[n]))
      BY <1>1, <1>20 DEF WriteGlobals, WriterFails
    <2>2. /\ U = [table EXCEPT !.String = Intern(@, names), !.Type = Intern(@, types),
                               !.Constant = Intern(@, values)]
          /\ step' = After[step]
      BY <1>1, <1>3, <1>4, <1>5, <1>17, <1>20, <2>1 DEF WriteGlobals
    <2>3. Emit("Global", 1 + GlobalFields * Len(globals),
               [n \in DOMAIN globals |-> GlobalEntry(U, globals[n])])
      <3> DEFINE with == [table EXCEPT !.String = Intern(@, names), !.Type = Intern(@, types),
                                       !.Constant = Intern(@, values)]
      <3>1. U = with
        BY <2>2
      <3> HIDE DEF with
      <3>2. Emit("Global", 1 + GlobalFields * Len(globals),
                 [n \in DOMAIN globals |-> GlobalEntry(with, globals[n])])
        BY <1>1, <1>3, <1>4, <1>5, <1>20, <2>1, Zenon DEF WriteGlobals, Each, with
      <3> QED BY <3>1, <3>2
    <2>4. /\ DOMAIN U = Managers
          /\ U["String"] = S2 /\ U["Type"] = Y2 /\ U["Debug"] = D /\ U["Constant"] = C2
      BY <1>8, <1>9, <1>10, <1>11, <1>12, <1>13, <1>14, <1>15, <2>2 DEF Managers
    <2>5. Grows(table, U)
      BY <1>8, <1>9, <1>10, <1>11, <1>12, <1>16, <2>4 DEF Grows, Managers
    <2>6. GlobalKeys(U)
      <3>1. ASSUME NEW n \in 1..Len(globals) PROVE Holds(U, globals[n])
        <4>1. Has(S2, globals[n].name) /\ Has(Y2, globals[n].value.type) /\ Has(C2, globals[n].value)
          BY <1>6, <1>7, <1>16
        <4> QED BY <2>4, <4>1 DEF Holds
      <3> QED BY <1>1, <3>1 DEF GlobalKeys
    <2>7. Encodable
      BY <1>1, <1>2, <2>1 DEF Encodable
    <2>8. PICK body : body = GlobalBody(U)
      OBVIOUS
    <2>9. body = [n \in DOMAIN globals |-> GlobalEntry(U, globals[n])] /\ body = Body(step, U)
      BY <1>1, <1>2, <1>18, <2>8 DEF GlobalBody, Body
    <2>10. PICK len \in Nat : len = 1 + GlobalFields * Len(globals)
      BY <1>2 DEF GlobalFields
    <2>11. Emit(step, len, Body(step, U))
      BY <1>18, <2>3, <2>9, <2>10
    <2>12. Writes(U)
      BY <1>1, <1>18, <1>20, <2>11 DEF Writes, Needed, Sections
    <2>13. SameTables(U) /\ NewKeys(U)
      BY <1>11, <1>18, <2>4, <2>6, <2>7 DEF SameTables, NewKeys, Past
    <2>14. Moved(U)
      BY <1>17, <1>18, <2>2, <2>4, <2>5, <2>12, <2>13 DEF Moved
    <2> QED BY <2>14
  <1> QED BY <1>19, <1>20

(* The values of all functions, one function after the other.              *)
LEMMA AllValues ==
    ASSUME module \in Modules, NEW funcs, funcs = Functions(module),
           NEW ss, ss = [n \in 1..Len(funcs) |-> funcs[n].values],
           NEW values, values = FlattenSeq(ss)
    PROVE  /\ IsSeq(values)
           /\ \A n \in 1..Len(funcs) : \A k \in 1..Len(funcs[n].values) :
                 Has(values, funcs[n].values[k])
  <1>1. IsSeq(funcs) /\ Len(funcs) \in Nat /\ \A n \in 1..Len(funcs) : IsFunction(funcs[n])
    BY ModuleFacts, SeqFacts
  <1>2. PICK S : S = UNION {ToSet(funcs[n].values) : n \in 1..Len(funcs)}
    OBVIOUS
  <1>3. ASSUME NEW n \in 1..Len(funcs) PROVE funcs[n].values \in Seq(S)
    <2>1. funcs[n].values \in Seq(ToSet(funcs[n].values))
      BY <1>1 DEF IsFunction
    <2>2. ToSet(funcs[n].values) \subseteq S
      BY <1>2
    <2> QED BY <2>1, <2>2
  <1>4. ss \in [1..Len(funcs) -> Seq(S)]
    BY <1>3
  <1>5. ss \in Seq(Seq(S)) /\ IsSeq(ss) /\ Len(ss) = Len(funcs)
    <2>1. ss = [n \in 1..Len(funcs) |-> ss[n]]
      OBVIOUS
    <2> QED BY <1>1, <1>4, <2>1, EachIsSeq, IsASeq
  <1>6. values \in Seq(S) /\ \A x : Has(values, x) <=> InOne(ss, x)
    BY <1>5, FlattenFacts
  <1>7. ASSUME NEW n \in 1..Len(funcs), NEW k \in 1..Len(funcs[n].values)
        PROVE  Has(values, funcs[n].values[k])
    <2>1. n \in 1..Len(ss) /\ ss[n] = funcs[n].values
      BY <1>5
    <2>2. Has(ss[n], funcs[n].values[k])
      BY <2>1 DEF Has
    <2> QED BY <1>6, <2>1, <2>2 DEF InOne
  <1> QED BY <1>6, <1>7 DEF IsSeq

LEMMA FunctionStepMoves ==
    ASSUME WriterInv, WriteFunctions, step' # "failed"
    PROVE  \E U : Moved(U)
  <1>1. PICK funcs : funcs = Functions(module)
    OBVIOUS
  <1>2. /\ IsSeq(funcs) /\ Len(funcs) \in Nat /\ DOMAIN funcs = 1..Len(funcs)
    BY <1>1, ModuleFacts, SeqFacts DEF WriterInv
  <1>3. PICK ss : ss = [n \in 1..Len(funcs) |-> funcs[n].values]
    OBVIOUS
  <1>4. PICK values : values = FlattenSeq(ss)
    OBVIOUS
  <1>5. /\ IsSeq(values)
        /\ \A n \in 1..Len(funcs) : \A k \in 1..Len(funcs[n].values) :
                 Has(values, funcs[n].values[k])
    BY <1>1, <1>3, <1>4, AllValues DEF WriterInv
  <1>6. Len(values) \in Nat /\ DOMAIN values = 1..Len(values)
    BY <1>5, SeqFacts
  <1>7. PICK types : types = [n \in 1..Len(values) |-> values[n].type]
    OBVIOUS
  <1>8. IsSeq(types) /\ Len(types) = Len(values)
    <2>1. types = [n \in 1..Len(values) |-> types[n]]
      BY <1>7
    <2> QED BY <1>6, <2>1, EachIsSeq
  <1>9. PICK S : S = table["String"]
    OBVIOUS
  <1>10. PICK Y : Y = table["Type"]
    OBVIOUS
  <1>11. PICK C : C = table["Constant"]
    OBVIOUS
  <1>12. PICK D : D = table["Debug"]
    OBVIOUS
  <1>13. Table(S) /\ Table(Y) /\ Table(D) /\ Table(C) /\ DOMAIN table = Managers
    BY <1>9, <1>10, <1>11, <1>12 DEF WriterInv, TablesOK, Managers
  <1>14. PICK Y2 : Y2 = Intern(Y, types)
    OBVIOUS
  <1>15. PICK C2 : C2 = Intern(C, values)
    OBVIOUS
  <1>16. /\ Table(Y2) /\ Extends(Y, Y2) /\ \A n \in 1..Len(types) : Has(Y2, types[n])
         /\ Table(C2) /\ Extends(C, C2) /\ \A n \in 1..Len(values) : Has(C2, values[n])
         /\ Extends(D, D) /\ Extends(S, S)
    <2>2. /\ Table(Y2) /\ Extends(Y, Y2) /\ \A n \in 1..Len(types) : Has(Y2, types[n])
      BY <1>8, <1>13, <1>14, InternOne
    <2>3. /\ Table(C2) /\ Extends(C, C2) /\ \A n \in 1..Len(values) : Has(C2, values[n])
      BY <1>5, <1>13, <1>15, InternOne
    <2> QED BY <1>13, <2>2, <2>3, GrowsItself
  <1>17. PICK U : U = table'
    OBVIOUS
  <1>18. step = "Func" /\ UNCHANGED <<module, start>> /\ step \in Movers
    BY DEF WriteFunctions, Movers, Sections
  <1>19. ~(\E n \in DOMAIN funcs : funcs[n].since > module.version)
    BY <1>1 DEF WriteFunctions, WriterFails
  <1>20. /\ FlattenSeq(Each(Functions(module), LAMBDA f : f.values)) = values
         /\ Each(values, LAMBDA v : v.type) = types
    BY <1>1, <1>2, <1>3, <1>4, <1>6, <1>7 DEF Each
  <1>21. /\ U = [table EXCEPT !.Type = Intern(@, types), !.Constant = Intern(@, values)]
         /\ step' = After[step]
    BY <1>1, <1>17, <1>19, <1>20 DEF WriteFunctions
  <1>22. Emit("Func", 8 * (1 + Len(funcs)), [n \in DOMAIN funcs |-> FunctionEntry(U, funcs[n])])
    <2> DEFINE with == [table EXCEPT !.Type = Intern(@, types), !.Constant = Intern(@, values)]
    <2>1. U = with
      BY <1>21
    <2> HIDE DEF with
    <2>2. with = [table EXCEPT
             !.Type = Intern(@, Each(FlattenSeq(Each(Functions(module), LAMBDA f : f.values)),
                                     LAMBDA v : v.type)),
             !.Constant = Intern(@, FlattenSeq(Each(Functions(module), LAMBDA f : f.values)))]
      BY <1>20 DEF with
    <2>3. Emit("Func", 8 * (1 + Len(funcs)),
               [n \in DOMAIN funcs |-> FunctionEntry(with, funcs[n])])
      BY <1>1, <1>19, <2>2 DEF WriteFunctions, Each
    <2> QED BY <2>1, <2>3
  <1>23. /\ DOMAIN U = Managers
         /\ U["String"] = S /\ U["Type"] = Y2 /\ U["Debug"] = D /\ U["Constant"] = C2
    BY <1>9, <1>10, <1>11, <1>12, <1>13, <1>14, <1>15, <1>21 DEF Managers
  <1>24. Grows(table, U)
    BY <1>9, <1>10, <1>11, <1>12, <1>13, <1>16, <1>23 DEF Grows, Managers
  <1>25. ValueKeys(U)
    <2>1. ASSUME NEW n \in 1..Len(funcs), NEW k \in 1..Len(funcs[n].values)
          PROVE  /\ Has(U["Type"], funcs[n].values[k].type)
                 /\ Has(U["Constant"], funcs[n].values[k])
      <3>1. PICK v : v = funcs[n].values[k] /\ Has(values, v)
        BY <1>5
      <3>2. PICK j \in 1..Len(values) : values[j] = v
        BY <3>1 DEF Has
      <3>3. Has(C2, v) /\ Has(Y2, v.type)
        BY <1>7, <1>8, <1>16, <3>2
      <3> QED BY <1>23, <3>1, <3>3
    <2> QED BY <1>1, <2>1 DEF ValueKeys, Values
  <1>26. PICK body : body = FuncBody(U)
    OBVIOUS
  <1>27. body = [n \in DOMAIN funcs |-> FunctionEntry(U, funcs[n])] /\ body = Body(step, U)
    BY <1>1, <1>2, <1>18, <1>26 DEF FuncBody, Body
  <1>28. PICK len \in Nat : len = 8 * (1 + Len(funcs))
    BY <1>2
  <1>29. Emit(step, len, Body(step, U))
    BY <1>18, <1>22, <1>27, <1>28
  <1>30. Writes(U)
    BY <1>18, <1>29 DEF Writes, Needed, Sections
  <1>31. SameTables(U) /\ NewKeys(U)
    BY <1>12, <1>18, <1>23, <1>25 DEF SameTables, NewKeys, Past
  <1>32. Moved(U)
    BY <1>17, <1>18, <1>21, <1>23, <1>24, <1>30, <1>31 DEF Moved
  <1> QED BY <1>32

LEMMA SameTablesGrow ==
    ASSUME WriterInv
    PROVE  /\ Grows(table, table) /\ SameTables(table) /\ DOMAIN table = Managers
           /\ Len(table["Constant"]) \in Nat /\ DOMAIN table["Constant"] = 1..Len(table["Constant"])
           /\ Len(table["Debug"]) \in Nat /\ DOMAIN table["Debug"] = 1..Len(table["Debug"])
           /\ Len(table["Type"]) \in Nat /\ Len(table["String"]) \in Nat
  <1>1. DOMAIN table = Managers /\ \A t \in Managers : Table(table[t])
    BY DEF WriterInv, TablesOK
  <1>2. \A t \in Managers : Extends(table[t], table[t])
    <2>1. ASSUME NEW x, Table(x) PROVE Extends(x, x)
      BY <2>1, GrowsItself
    <2> QED BY <1>1, <2>1
  <1>3. \A t \in Managers : Len(table[t]) \in Nat /\ DOMAIN table[t] = 1..Len(table[t])
    <2>1. ASSUME NEW x, Table(x) PROVE Len(x) \in Nat /\ DOMAIN x = 1..Len(x)
      BY <2>1, SeqFacts DEF Table
    <2> QED BY <1>1, <2>1
  <1> QED BY <1>1, <1>2, <1>3 DEF Grows, SameTables, Managers

LEMMA ConstantStepMoves ==
    ASSUME WriterInv, WriteConstants
    PROVE  \E U : Moved(U)
  <1>1. PICK U : U = table
    OBVIOUS
  <1>2. /\ Grows(table, U) /\ SameTables(U) /\ DOMAIN U = Managers
        /\ Len(U["Constant"]) \in Nat /\ DOMAIN U["Constant"] = 1..Len(U["Constant"])
    BY <1>1, SameTablesGrow
  <1>3. step = "Constant" /\ step' = After[step] /\ UNCHANGED <<module, start, table>>
    BY DEF WriteConstants, managers
  <1>4. step \in Movers /\ step \in Sections
    BY <1>3 DEF Movers, Sections, Managers
  <1>5. NewKeys(U)
    BY <1>3 DEF NewKeys
  <1>6. Skips(U) \/ Writes(U)
    <2>1. CASE U["Constant"] = <<>>
      <3>1. UNCHANGED <<file, tell>>
        BY <1>1, <2>1 DEF WriteConstants
      <3>2. ~Needed(step, U)
        BY <1>3, <2>1 DEF Needed
      <3> QED BY <3>1, <3>2 DEF Skips
    <2>2. CASE U["Constant"] # <<>>
      <3>1. PICK body : body = BitsBody(U)
        OBVIOUS
      <3>2. body = [n \in DOMAIN U["Constant"] |-> U["Constant"][n].bits] /\ body = Body(step, U)
        BY <1>2, <1>3, <3>1 DEF BitsBody, Body
      <3>3. PICK len \in Nat : len = 8 + 9 * Len(U["Constant"])
        BY <1>2
      <3>4. Emit("Constant", 8 + 9 * Len(U["Constant"]),
                 [n \in DOMAIN U["Constant"] |-> U["Constant"][n].bits])
        BY <1>1, <2>2 DEF WriteConstants, Each
      <3>5. Emit(step, len, Body(step, U))
        BY <1>3, <3>2, <3>3, <3>4
      <3>6. Needed(step, U)
        BY <1>3, <2>2 DEF Needed
      <3> QED BY <1>4, <3>5, <3>6 DEF Writes
    <2> QED BY <2>1, <2>2
  <1>7. Moved(U)
    BY <1>1, <1>2, <1>3, <1>4, <1>5, <1>6 DEF Moved
  <1> QED BY <1>7

LEMMA TypeStepMoves ==
    ASSUME WriterInv, WriteTypes
    PROVE  \E U : Moved(U)
  <1>1. PICK U : U = table
    OBVIOUS
  <1>2. /\ Grows(table, U) /\ SameTables(U) /\ DOMAIN U = Managers
        /\ Len(U["Type"]) \in Nat
    BY <1>1, SameTablesGrow
  <1>3. step = "Type" /\ step' = After[step] /\ UNCHANGED <<module, start, table>>
    BY DEF WriteTypes, managers
  <1>4. step \in Movers /\ step \in Sections
    BY <1>3 DEF Movers, Sections, Managers
  <1>5. NewKeys(U) /\ Needed(step, U) /\ Body(step, U) = U["Type"]
    BY <1>3 DEF NewKeys, Needed, Body
  <1>6. PICK len \in Nat : len = 4 + 6 * Len(U["Type"])
    BY <1>2
  <1>7. Emit(step, len, Body(step, U))
    BY <1>1, <1>3, <1>5, <1>6 DEF WriteTypes
  <1>8. Moved(U)
    BY <1>1, <1>2, <1>3, <1>4, <1>5, <1>7 DEF Moved, Writes
  <1> QED BY <1>8

LEMMA StringStepMoves ==
    ASSUME WriterInv, WriteStrings
    PROVE  \E U : Moved(U)
  <1>1. PICK U : U = table
    OBVIOUS
  <1>2. /\ Grows(table, U) /\ SameTables(U) /\ DOMAIN U = Managers
        /\ Len(U["String"]) \in Nat
    BY <1>1, SameTablesGrow
  <1>3. step = "String" /\ step' = After[step] /\ UNCHANGED <<module, start, table>>
    BY DEF WriteStrings, managers
  <1>4. step \in Movers /\ step \in Sections
    BY <1>3 DEF Movers, Sections, Managers
  <1>5. NewKeys(U) /\ Needed(step, U) /\ Body(step, U) = U["String"]
    BY <1>3 DEF NewKeys, Needed, Body
  <1>6. PICK len \in Nat : len = 4 + 7 * Len(U["String"])
    BY <1>2
  <1>7. Emit(step, len, Body(step, U))
    BY <1>1, <1>3, <1>5, <1>6 DEF WriteStrings
  <1>8. Moved(U)
    BY <1>1, <1>2, <1>3, <1>4, <1>5, <1>7 DEF Moved, Writes
  <1> QED BY <1>8

(* The string table grows, the others stay.                                *)
LEMMA StringsGrow ==
    ASSUME WriterInv, NEW keys, IsSeq(keys), NEW S2, S2 = Intern(table["String"], keys),
           NEW U, U = [table EXCEPT !.String = S2], step # "String"
    PROVE  /\ Grows(table, U) /\ SameTables(U) /\ DOMAIN U = Managers
           /\ U["String"] = S2 /\ U["Debug"] = table["Debug"]
           /\ \A n \in 1..Len(keys) : Has(S2, keys[n])
  <1>1. DOMAIN table = Managers /\ \A t \in Managers : Table(table[t])
    BY DEF WriterInv, TablesOK
  <1>2. Grows(table, table)
    BY SameTablesGrow
  <1>3. PICK S : S = table["String"]
    OBVIOUS
  <1>4. Table(S)
    BY <1>1, <1>3 DEF Managers
  <1>5. Table(S2) /\ Extends(S, S2) /\ \A n \in 1..Len(keys) : Has(S2, keys[n])
    BY <1>3, <1>4, InternOne
  <1>6. DOMAIN U = Managers /\ U["String"] = S2 /\ \A t \in Managers \ {"String"} : U[t] = table[t]
    BY <1>1 DEF Managers
  <1>7. Grows(table, U)
    BY <1>2, <1>3, <1>5, <1>6 DEF Grows
  <1> QED BY <1>5, <1>6, <1>7 DEF SameTables, Managers

LEMMA DebugStepMoves ==
    ASSUME WriterInv, WriteDebugInfo, step' # "failed"
    PROVE  \E U : Moved(U)
  <1>1. PICK locs : locs = table["Debug"]
    OBVIOUS
  <1>2. Len(locs) \in Nat /\ DOMAIN locs = 1..Len(locs)
    BY <1>1, SameTablesGrow
  <1>3. PICK files : files = [n \in 1..Len(locs) |-> locs[n].file]
    OBVIOUS
  <1>4. IsSeq(files) /\ Len(files) = Len(locs)
    <2>1. files = [n \in 1..Len(locs) |-> files[n]]
      BY <1>3
    <2> QED BY <1>2, <2>1, EachIsSeq
  <1>5. PICK S2 : S2 = Intern(table["String"], files)
    OBVIOUS
  <1>6. PICK U : U = [table EXCEPT !.String = S2]
    OBVIOUS
  <1>7. step = "Debug" /\ UNCHANGED <<module, start>>
    BY DEF WriteDebugInfo
  <1>8. /\ Grows(table, U) /\ SameTables(U) /\ DOMAIN U = Managers
        /\ U["String"] = S2 /\ U["Debug"] = locs
        /\ \A n \in 1..Len(files) : Has(S2, files[n])
    BY <1>1, <1>4, <1>5, <1>6, <1>7, StringsGrow
  <1>9. step \in Movers /\ step \in Sections
    BY <1>7 DEF Movers, Sections, Managers
  <1>10. \A n \in 1..Len(locs) : locs[n].file # None
    BY <1>1, <1>2 DEF WriteDebugInfo, WriterFails
  <1>11. S2 = Intern(table.String, Each(locs, LAMBDA l : l.file))
    BY <1>2, <1>3, <1>5 DEF Each
  <1>12. table' = U /\ step' = After[step]
    BY <1>1, <1>2, <1>6, <1>10, <1>11 DEF WriteDebugInfo
  <1>13. FileKeys(U)
    BY <1>3, <1>4, <1>8, <1>10 DEF FileKeys
  <1>14. NewKeys(U)
    BY <1>7, <1>13 DEF NewKeys
  <1>15. Skips(U) \/ Writes(U)
    <2>1. CASE locs = <<>>
      <3>1. UNCHANGED <<file, tell>>
        BY <1>1, <1>2, <1>10, <2>1 DEF WriteDebugInfo
      <3>2. ~Needed(step, U)
        BY <1>7, <1>8, <2>1 DEF Needed
      <3> QED BY <3>1, <3>2 DEF Skips
    <2>2. CASE locs # <<>>
      <3>1. PICK body : body = DebugBody(U)
        OBVIOUS
      <3>2. body = [n \in DOMAIN locs |-> [line |-> locs[n].line,
                                           file |-> IndexIn(S2, locs[n].file)]]
            /\ body = Body(step, U)
        BY <1>2, <1>7, <1>8, <3>1 DEF DebugBody, LocRow, Body
      <3>3. PICK len \in Nat : len = 8 + 15 * Len(locs)
        BY <1>2
      <3>4. Emit("Debug", 8 + 15 * Len(locs),
                 [n \in DOMAIN locs |-> [line |-> locs[n].line,
                                         file |-> IndexIn(S2, locs[n].file)]])
        <4>1. S2 = Intern(table.String, [n \in DOMAIN locs |-> locs[n].file])
          BY <1>11 DEF Each
        <4> QED BY <1>1, <1>2, <1>10, <4>1, <2>2 DEF WriteDebugInfo, Each
      <3>5. Emit(step, len, Body(step, U))
        BY <1>7, <3>2, <3>3, <3>4
      <3>6. Needed(step, U)
        BY <1>7, <1>8, <2>2 DEF Needed
      <3> QED BY <1>9, <3>5, <3>6 DEF Writes
    <2> QED BY <2>1, <2>2
  <1>16. Moved(U)
    BY <1>7, <1>8, <1>9, <1>12, <1>14, <1>15 DEF Moved
  <1> QED BY <1>16

LEMMA ProducerStepMoves ==
    ASSUME WriterInv, WriteProducer
    PROVE  \E U : Moved(U)
  <1>1. step = "Producer" /\ step' = After[step] /\ UNCHANGED <<module, start>>
    BY DEF WriteProducer
  <1>2. step \in Movers /\ step \in Sections
    BY <1>1 DEF Movers, Sections, Managers
  <1>3. module.version \in Nat
    BY ModuleFacts DEF WriterInv
  <1>4. CASE ~HasProducer
    <2>1. PICK U : U = table
      OBVIOUS
    <2>2. Grows(table, U) /\ SameTables(U) /\ DOMAIN U = Managers
      BY <2>1, SameTablesGrow
    <2>3. UNCHANGED <<table, file, tell>>
      BY <1>3, <1>4 DEF WriteProducer, HasProducer, ExtendedVersion
    <2>4. NewKeys(U) /\ Skips(U)
      BY <1>1, <1>4, <2>3 DEF NewKeys, ProducerKey, Skips, Needed
    <2>5. Moved(U)
      BY <1>1, <1>2, <2>1, <2>2, <2>3, <2>4 DEF Moved
    <2> QED BY <2>5
  <1>5. CASE HasProducer
    <2>1. PICK keys : keys = <<module.producer>>
      OBVIOUS
    <2>2. IsSeq(keys) /\ Len(keys) = 1 /\ keys[1] = module.producer
      <3>1. keys \in Seq({module.producer})
        BY <2>1
      <3> QED BY <2>1, <3>1 DEF IsSeq
    <2>3. PICK S2 : S2 = Intern(table["String"], keys)
      OBVIOUS
    <2>4. PICK U : U = [table EXCEPT !.String = S2]
      OBVIOUS
    <2>5. /\ Grows(table, U) /\ SameTables(U) /\ DOMAIN U = Managers
          /\ U["String"] = S2
          /\ \A n \in 1..Len(keys) : Has(S2, keys[n])
      BY <1>1, <2>2, <2>3, <2>4, StringsGrow, Zenon
    <2>6. NewKeys(U)
      BY <1>1, <2>2, <2>5 DEF NewKeys, ProducerKey
    <2>7. table' = U /\ Emit("Producer", 1, IndexIn(S2, module.producer))
      BY <1>3, <1>5, <2>1, <2>3, <2>4 DEF WriteProducer, HasProducer, ExtendedVersion
    <2>8. Body(step, U) = IndexIn(S2, module.producer) /\ Needed(step, U)
      BY <1>1, <1>5, <2>5 DEF Body, Needed
    <2>9. Emit(step, 1, Body(step, U)) /\ 1 \in Nat
      BY <1>1, <2>7, <2>8
    <2>10. Writes(U)
      BY <1>2, <2>8, <2>9 DEF Writes
    <2>11. Moved(U)
      BY <1>1, <1>2, <2>5, <2>6, <2>7, <2>10 DEF Moved
    <2> QED BY <2>11
  <1> QED BY <1>4, <1>5

-----------------------------------------------------------------------------
(* The other steps: the header, the end marker, a failure, and all steps   *)
(* of the reader, which leave what was written alone.                      *)
LEMMA SameBodies ==
    ASSUME UNCHANGED <<module, table>>
    PROVE  \A id \in Sections : Body(id, table)' = Body(id, table)
  <1>1. PICK U : U = table
    OBVIOUS
  <1>2. table' = U /\ UNCHANGED module
    BY <1>1
  <1> QED BY <1>1, <1>2, NextBodies

LEMMA SameBodiesOK ==
    ASSUME FileOK, BodiesOK, UNCHANGED <<module, table>>,
           \A n \in 1..Len(file') :
              file'[n] # EndMarker => n \in 1..Len(file) /\ file'[n] = file[n]
    PROVE  BodiesOK'
  <1>1. ASSUME NEW n \in 1..Len(file'), file'[n] # EndMarker
        PROVE  file'[n].body = Body(file[n].id, table)'
    <2>1. n \in 1..Len(file) /\ file'[n] = file[n]
      BY <1>1
    <2>2. PICK id \in Sections : id = file[n].id
      BY <1>1, <2>1 DEF FileOK, WellMade
    <2>3. file[n].body = Body(id, table)
      BY <1>1, <2>1, <2>2 DEF BodiesOK
    <2>4. Body(id, table)' = Body(id, table)
      BY SameBodies
    <2>5. Body(file[n].id, table)' = Body(id, table)'
      BY <2>1, <2>2 DEF Body
    <2> QED BY <2>1, <2>3, <2>4, <2>5
  <1> QED BY <1>1 DEF BodiesOK

LEMMA SameKeysOK ==
    ASSUME KeysOK, UNCHANGED <<module, table>>, \A id \in Movers : Done(id)' => Done(id)
    PROVE  KeysOK'
  <1>1. PICK U : U = table
    OBVIOUS
  <1>2. table' = U /\ UNCHANGED module
    BY <1>1
  <1>3. {"map", "Global", "Func", "Debug", "Producer"} \subseteq Movers
    BY DEF Movers, Sections, Managers
  <1>4. /\ MapKeys(table)' <=> MapKeys(U)
        /\ GlobalKeys(table)' <=> GlobalKeys(U)
        /\ ValueKeys(table)' <=> ValueKeys(U)
        /\ FileKeys(table)' <=> FileKeys(U)
        /\ ProducerKey(table)' <=> ProducerKey(U)
        /\ Encodable' <=> Encodable
    BY <1>2, NextTables
  <1>5. /\ Done("map")' => MapKeys(U)
        /\ Done("Global")' => GlobalKeys(U) /\ Encodable
        /\ Done("Func")' => ValueKeys(U)
        /\ Done("Debug")' => FileKeys(U)
        /\ Done("Producer")' => ProducerKey(U)
    BY <1>1, <1>3 DEF KeysOK
  <1> QED BY <1>4, <1>5 DEF KeysOK

LEMMA NotPast ==
    ASSUME NEW id \in Movers, NEW s, s \notin WriterSteps \/ s = "header" \/ s = "map"
    PROVE  s \notin Past(id)
  BY DEF Movers, Sections, Managers, WriterSteps, Past

LEMMA SameSectionsOK ==
    ASSUME SectionsOK, UNCHANGED <<module, table>>,
           \A id \in Movers : Done(id)' => Done(id),
           \A n \in 1..Len(file) : n \in 1..Len(file') /\ file'[n] = file[n]
    PROVE  SectionsOK'
  <1>1. ASSUME NEW id \in Sections, Done(id)', Expected(id)' PROVE HasSection(id)'
    <2>1. Expected(id)
      BY <1>1 DEF Expected, HasProducer
    <2>2. Done(id)
      BY <1>1 DEF Movers
    <2>3. HasSection(id)
      BY <2>1, <2>2 DEF SectionsOK
    <2> QED BY <2>3 DEF HasSection
  <1> QED BY <1>1 DEF SectionsOK

LEMMA StillWriterInv ==
    ASSUME WriterInv, UNCHANGED <<module, start, table, file, tell>>,
           step' \notin WriterSteps, Complete => step' # "failed",
           module.version < MinSupportedVersion => step' \in {"failed", "read", "rejected"},
           step = "header" => module.version < MinSupportedVersion
    PROVE  WriterInv'
  <1>1. \A id \in Movers : Done(id)' => Done(id)
    BY NotPast DEF Done, Complete
  <1>2. /\ \A n \in 1..Len(file) : n \in 1..Len(file') /\ file'[n] = file[n]
        /\ \A n \in 1..Len(file') : n \in 1..Len(file) /\ file'[n] = file[n]
    OBVIOUS
  <1>3. KeysOK' /\ SectionsOK' /\ BodiesOK'
    BY <1>1, <1>2, SameKeysOK, SameSectionsOK, SameBodiesOK DEF WriterInv
  <1>4. FileOK'
    <2>1. \A n \in 1..Len(file) : file[n] = EndMarker => Complete
      BY DEF Complete, Contains
    <2>2. HasSection("Producer")' => HasProducer'
      BY DEF WriterInv, FileOK, HasSection, HasProducer
    <2> QED BY <2>1, <2>2 DEF WriterInv, FileOK
  <1>5. PlaceOK'
    <2>1. "header" \in WriterSteps
      BY DEF WriterSteps
    <2>2. /\ module.version < MinSupportedVersion => file = <<>>
          /\ module.version >= MinSupportedVersion =>
                \E length \in Nat : tell = start + length /\ Placed(file, start, length)
      <3>1. module.version \in Nat
        BY ModuleFacts DEF WriterInv
      <3> QED BY <3>1 DEF WriterInv, PlaceOK, MinSupportedVersion
    <2>3. /\ module'.version < MinSupportedVersion => file' = <<>> /\ step' \in {"failed", "read", "rejected"}
          /\ module'.version >= MinSupportedVersion =>
                \E length \in Nat : tell' = start' + length /\ Placed(file', start', length)
      BY <2>2
    <2> QED BY <2>1, <2>3 DEF PlaceOK
  <1>6. TablesOK'
    BY DEF WriterInv, TablesOK
  <1> QED BY <1>3, <1>4, <1>5, <1>6 DEF WriterInv

LEMMA HeaderWriterInv ==
    ASSUME WriterInv, WriteHeader
    PROVE  WriterInv'
  <1>1. step = "header" /\ file = <<>> /\ tell = start
    BY DEF WriteHeader, WriterInv, PlaceOK
  <1>2. \A n \in 1..Len(file) : FALSE
    BY <1>1
  <1>3. ~Complete
    BY <1>2 DEF Complete, Contains
  <1>4. module.version \in Nat /\ start \in Nat
    BY ModuleFacts DEF WriterInv
  <1>5. CASE module.version < MinSupportedVersion
    <2>1. step' = "failed" /\ UNCHANGED <<module, start, table, file, tell>>
      BY <1>5 DEF WriteHeader, WriterFails
    <2> QED BY <1>3, <1>5, <2>1, StillWriterInv DEF WriterSteps
  <1>6. CASE ~(module.version < MinSupportedVersion)
    <2>1. step' = "map" /\ UNCHANGED <<module, start, table, file>> /\ tell' = tell + HeaderBytes
      BY <1>6 DEF WriteHeader
    <2>2. ~Complete'
      BY <1>3, <2>1 DEF Complete, Contains
    <2>3. \A id \in Movers : ~Done(id)'
      BY <2>1, <2>2, NotPast DEF Done
    <2>4. KeysOK' /\ SectionsOK' /\ BodiesOK'
      <3>1. \A n \in 1..Len(file) : n \in 1..Len(file') /\ file'[n] = file[n]
        BY <2>1
      <3>2. KeysOK'
        BY <2>1, <2>3, SameKeysOK DEF WriterInv
      <3>3. SectionsOK'
        BY <2>1, <2>3, <3>1, SameSectionsOK DEF WriterInv
      <3>4. BodiesOK'
        BY <2>1, SameBodiesOK DEF WriterInv
      <3> QED BY <3>2, <3>3, <3>4
    <2>5. FileOK'
      BY <1>2, <2>1 DEF WriterInv, FileOK, HasSection
    <2>6. Placed(file, start, HeaderBytes)
      <3> DEFINE e == [n \in 1..1 |-> HeaderBytes]
      <3>1. e \in [1..Len(file) + 1 -> Nat] /\ e[1] = HeaderBytes /\ e[Len(file) + 1] = HeaderBytes
            /\ \A n \in 1..Len(file) + 1 : e[n] <= e[Len(file) + 1]
        BY <1>1 DEF HeaderBytes
      <3> HIDE DEF e
      <3>2. Ends(file, start, e)
        BY <1>2, <3>1 DEF Ends
      <3> QED BY <3>1, <3>2 DEF Placed
    <2>7. PlaceOK' /\ tell' \in Nat
      <3>1. HeaderBytes \in Nat /\ tell' = start + HeaderBytes
        BY <1>1, <2>1 DEF HeaderBytes
      <3>2. \E length \in Nat : tell' = start' + length /\ Placed(file', start', length)
        BY <2>1, <2>6, <3>1
      <3> QED BY <1>4, <1>6, <2>1, <3>1, <3>2 DEF PlaceOK
    <2>8. TablesOK'
      BY <2>1 DEF WriterInv, TablesOK
    <2> QED BY <1>4, <2>1, <2>4, <2>5, <2>7, <2>8 DEF WriterInv
  <1> QED BY <1>5, <1>6

LEMMA EndWriterInv ==
    ASSUME WriterInv, WriteEnd
    PROVE  WriterInv' /\ Complete'
  <1>1. /\ step = "End" /\ step' = "written" /\ file' = Append(file, EndMarker)
        /\ tell' = tell + 1 /\ UNCHANGED <<module, start, table>>
    BY DEF WriteEnd, managers
  <1>2. IsSeq(file) /\ tell \in Nat /\ start \in Nat
    BY DEF WriterInv, FileOK
  <1>3. PICK G : G = file'
    OBVIOUS
  <1>4. /\ IsSeq(G) /\ Len(file) \in Nat /\ Len(G) = Len(file) + 1
        /\ \A n \in 1..Len(file) : G[n] = file[n]
        /\ G[Len(file) + 1] = EndMarker
    BY <1>1, <1>2, <1>3, AppendAny
  <1>5. /\ \A n \in 1..Len(file) : n \in 1..Len(G)
        /\ \A n \in 1..Len(G) : n \in 1..Len(file) \/ n = Len(file) + 1
        /\ Len(file) + 1 \in 1..Len(G)
    BY <1>4
  <1>6. Complete'
    BY <1>3, <1>4, <1>5 DEF Complete, Contains
  <1>7. \A id \in Movers : Done(id)
    BY <1>1 DEF Done, Past, Movers, Sections, Managers
  <1>8. \A n \in 1..Len(file) : file[n] # EndMarker /\ WellMade(file[n]) /\ file[n].id # "End"
    <2>1. \A n \in 1..Len(file) : file[n] # EndMarker /\ WellMade(file[n])
      BY <1>1 DEF WriterInv, FileOK, WriterSteps
    <2> QED BY <2>1 DEF WellMade, Sections, Managers
  <1>9. FileOK'
    <2>1. EndMarker.id = "End" /\ WellMade(EndMarker)
      BY DEF EndMarker, WellMade
    <2>2. \A n \in 1..Len(G) : WellMade(G[n])
      BY <1>4, <1>5, <1>8, <2>1
    <2>3. \A n \in 1..Len(G) : G[n] = EndMarker => n = Len(G)
      BY <1>4, <1>5, <1>8
    <2>4. \A m, n \in 1..Len(G) : G[m].id = G[n].id => m = n
      <3>1. \A m, n \in 1..Len(file) : file[m].id = file[n].id => m = n
        BY DEF WriterInv, FileOK
      <3> QED BY <1>4, <1>5, <1>8, <2>1, <3>1
    <2>5. HasSection("Producer")' => HasProducer'
      <3>1. HasSection("Producer") => HasProducer
        BY DEF WriterInv, FileOK
      <3>2. HasSection("Producer")' => HasSection("Producer")
        BY <1>3, <1>4, <1>5, <2>1 DEF HasSection
      <3> QED BY <1>1, <3>1, <3>2 DEF HasProducer
    <2>6. step' \notin WriterSteps \cup {"failed"}
      BY <1>1 DEF WriterSteps
    <2> QED BY <1>3, <1>4, <2>2, <2>3, <2>4, <2>5, <2>6 DEF FileOK
  <1>10. KeysOK' /\ SectionsOK'
    <2>1. \A n \in 1..Len(file) : n \in 1..Len(file') /\ file'[n] = file[n]
      BY <1>3, <1>4, <1>5
    <2>2. KeysOK'
      BY <1>1, <1>7, SameKeysOK DEF WriterInv
    <2>3. SectionsOK'
      BY <1>1, <1>7, <2>1, SameSectionsOK DEF WriterInv
    <2> QED BY <2>2, <2>3
  <1>11. BodiesOK'
    <2>1. \A n \in 1..Len(file') :
              file'[n] # EndMarker => n \in 1..Len(file) /\ file'[n] = file[n]
      BY <1>3, <1>4, <1>5
    <2> QED BY <1>1, <2>1, SameBodiesOK DEF WriterInv
  <1>12. PlaceOK' /\ tell' \in Nat
    <2>1. module.version \in Nat /\ ~(module.version < MinSupportedVersion)
      <3>1. module.version \in Nat
        BY ModuleFacts DEF WriterInv
      <3> QED BY <1>1, <3>1 DEF WriterInv, PlaceOK
    <2>2. PICK length \in Nat : tell = start + length /\ Placed(file, start, length)
      BY <1>1, <2>1 DEF WriterInv, PlaceOK, MinSupportedVersion
    <2>3. PICK e : e = EndMarker
      OBVIOUS
    <2>4. WellMade(e) /\ Bytes(e) = 1
      BY <2>3 DEF WellMade, Bytes
    <2>5. Placed(Append(file, e), start, length + Bytes(e))
      BY <1>2, <2>2, <2>3, <2>4, PlacedMore
    <2>6. Placed(file', start, length + 1) /\ length + 1 \in Nat /\ tell' = start + (length + 1)
      BY <1>1, <1>2, <2>2, <2>3, <2>4, <2>5
    <2>7. \E l \in Nat : tell' = start' + l /\ Placed(file', start', l)
      BY <1>1, <2>6
    <2> QED BY <1>1, <1>2, <2>1, <2>7 DEF PlaceOK
  <1>13. TablesOK'
    BY <1>1 DEF WriterInv, TablesOK
  <1> QED BY <1>1, <1>6, <1>9, <1>10, <1>11, <1>12, <1>13 DEF WriterInv

-----------------------------------------------------------------------------
(* The reader goes through the sections as they were written.              *)
LEMMA CompleteFile ==
    ASSUME WriterInv, Complete
    PROVE  /\ Len(file) \in Nat \ {0} /\ file[Len(file)] = EndMarker
           /\ \A n \in 1..Len(file) : n # Len(file) => file[n] # EndMarker
           /\ step \notin WriterSteps \cup {"failed"}
           /\ module.version \in MinSupportedVersion..CurrentVersion
  <1>1. PICK n \in 1..Len(file) : file[n] = EndMarker
    BY DEF Complete, Contains
  <1>2. Len(file) \in Nat
    BY SeqFacts DEF WriterInv, FileOK
  <1>3. \A i \in 1..Len(file) : file[i] = EndMarker =>
             i = Len(file) /\ step \notin WriterSteps \cup {"failed"}
    BY DEF WriterInv, FileOK
  <1>4. file # <<>>
    BY <1>1
  <1>5. module.version \in 0..4
    BY ModuleFacts DEF WriterInv
  <1>6. module.version \in MinSupportedVersion..CurrentVersion
    BY <1>4, <1>5 DEF WriterInv, PlaceOK, MinSupportedVersion, CurrentVersion
  <1> QED BY <1>1, <1>2, <1>3, <1>6

LEMMA AtOneSection ==
    ASSUME WriterInv, Reads, AtSection, NEW s, s = file[next]
    PROVE  /\ WellMade(s) /\ s # EndMarker /\ s.id \in Sections
           /\ offset \in Nat /\ Bytes(s) \in Nat
           /\ offset + Bytes(s) <= tell - start
           /\ Sound => ~Misplaced
           /\ s.align % Required(s.id) = 0
           /\ ~Misplaced => PayloadAt + s.len = offset + Bytes(s)
  <1>1. IsSeq(file) /\ start \in Nat /\ tell \in Nat
    BY DEF WriterInv, FileOK
  <1>2. Len(file) \in Nat /\ DOMAIN file = 1..Len(file)
    BY <1>1, SeqFacts
  <1>3. next \in 1..Len(file) /\ s # EndMarker
    BY <1>2 DEF AtSection
  <1>4. WellMade(s)
    BY <1>3 DEF WriterInv, FileOK
  <1>5. s.id \in Sections /\ s.align = Alignment(s.id) /\ s.len \in Nat /\ s.pad \in Nat
    BY <1>3, <1>4 DEF WellMade
  <1>6. PICK ends : /\ Ends(file, start, ends) /\ tell = start + ends[Len(file) + 1]
                    /\ offset = ends[next]
    BY DEF Reads
  <1>7. next + 1 \in 1..Len(file) + 1 /\ next \in 1..Len(file) + 1 /\ Len(file) + 1 \in 1..Len(file) + 1
    BY <1>2, <1>3
  <1>8. /\ ends[next] \in Nat /\ ends[next + 1] \in Nat /\ ends[Len(file) + 1] \in Nat
        /\ ends[next + 1] = ends[next] + Bytes(s)
        /\ s.pad = Padding(start + ends[next] + HeadBytes(s.align), s.align)
        /\ ends[next + 1] <= ends[Len(file) + 1]
    BY <1>3, <1>6, <1>7 DEF Ends
  <1>9. PICK a : a = s.align
    OBVIOUS
  <1>10. a \in {1, 4, 8} /\ a % Required(s.id) = 0 /\ HeadBytes(a) \in Nat
    BY <1>5, <1>9, AlignmentFacts
  <1>11. PICK b \in Nat : b = Bytes(s)
    BY <1>4, BytesFacts
  <1>12. offset \in Nat /\ offset + b <= tell - start
    BY <1>1, <1>6, <1>8, <1>11
  <1>13. PICK h \in Nat : h = HeadBytes(a)
    BY <1>10
  <1>14. PICK p \in Nat : p = offset + h
    BY <1>12
  <1>15. s.pad = Padding(start + p, a)
    <2>1. start + ends[next] + h = start + p
      BY <1>1, <1>6, <1>12, <1>14
    <2> QED BY <1>8, <1>9, <1>13, <2>1
  <1>16. Misplaced <=> Padding(p, a) # s.pad
    BY <1>9, <1>13, <1>14 DEF Misplaced
  <1>17. Sound => ~Misplaced
    BY <1>1, <1>10, <1>15, <1>16, PaddingFacts DEF Sound
  <1>18. b = h + s.pad + s.len
    BY <1>3, <1>9, <1>11, <1>13 DEF Bytes
  <1>19. PayloadAt = p + Padding(p, a)
    BY <1>9, <1>13, <1>14 DEF PayloadAt
  <1>20. ~Misplaced => PayloadAt + s.len = offset + b
    BY <1>5, <1>12, <1>14, <1>16, <1>18, <1>19
  <1> QED BY <1>3, <1>4, <1>5, <1>9, <1>10, <1>11, <1>12, <1>17, <1>20

LEMMA ReadsOn ==
    ASSUME WriterInv, Reads, AtSection, UNCHANGED <<start, file, tell>>,
           next' = next + 1, offset' = offset + Bytes(file[next])
    PROVE  Reads'
  <1>1. Len(file) \in Nat /\ DOMAIN file = 1..Len(file)
    BY SeqFacts DEF WriterInv, FileOK
  <1>2. next \in 1..Len(file)
    BY <1>1 DEF AtSection
  <1>3. PICK ends : /\ Ends(file, start, ends) /\ tell = start + ends[Len(file) + 1]
                    /\ offset = ends[next]
    BY DEF Reads
  <1>4. ends[next + 1] = ends[next] + Bytes(file[next])
    BY <1>2, <1>3 DEF Ends
  <1>5. next + 1 \in 1..Len(file) + 1
    BY <1>1, <1>2
  <1>6. \E e : Ends(file', start', e) /\ tell' = start' + e[Len(file') + 1] /\ offset' = e[next']
    BY <1>3, <1>4
  <1> QED BY <1>5, <1>6 DEF Reads

(* A section more of those it has found.                                   *)
LEMMA FindsOn ==
    ASSUME WriterInv, Found(next), next \in 1..Len(file) + 1, AtSection,
           NEW s, s = file[next],
           file' = file, next' = next + 1, payloads' = WithPayload(s)
    PROVE  Found(next)'
  <1>1. Len(file) \in Nat /\ DOMAIN file = 1..Len(file)
    BY SeqFacts DEF WriterInv, FileOK
  <1>2. next \in 1..Len(file) /\ s # EndMarker
    BY <1>1 DEF AtSection
  <1>3. \A m, n \in 1..Len(file) : file[m].id = file[n].id => m = n
    BY DEF WriterInv, FileOK
  <1>4. PICK before : before = 1..next - 1
    OBVIOUS
  <1>5. before \subseteq 1..Len(file) /\ next \notin before /\ 1..next + 1 - 1 = before \cup {next}
    BY <1>1, <1>2, <1>4
  <1>6. /\ DOMAIN payloads = {file[n].id : n \in before}
        /\ \A n \in before : file[n] # EndMarker /\ payloads[file[n].id] = file[n].body
    BY <1>4 DEF Found
  <1>7. /\ DOMAIN payloads' = DOMAIN payloads \cup {s.id}
        /\ payloads'[s.id] = s.body
        /\ \A id \in DOMAIN payloads : id # s.id => payloads'[id] = payloads[id]
    BY DEF WithPayload
  <1>8. \A n \in before : file[n].id # s.id
    BY <1>2, <1>3, <1>5
  <1>9. \A n \in before \cup {next} : file[n] # EndMarker /\ payloads'[file[n].id] = file[n].body
    BY <1>2, <1>6, <1>7, <1>8
  <1>10. DOMAIN payloads' = {file[n].id : n \in before \cup {next}}
    BY <1>6, <1>7
  <1>11. PICK all : all = before \cup {next}
    OBVIOUS
  <1>12. 1..next' - 1 = all
    BY <1>5, <1>11
  <1>13. /\ DOMAIN payloads' = {file'[n].id : n \in all}
         /\ \A n \in all : file'[n] # EndMarker /\ payloads'[file'[n].id] = file'[n].body
    BY <1>9, <1>10, <1>11
  <1> QED BY <1>12, <1>13 DEF Found

(* No section comes twice.                                                 *)
LEMMA FindsNew ==
    ASSUME WriterInv, Found(next), next \in 1..Len(file) + 1, AtSection
    PROVE  file[next].id \notin DOMAIN payloads
  <1>1. Len(file) \in Nat /\ DOMAIN file = 1..Len(file)
    BY SeqFacts DEF WriterInv, FileOK
  <1>2. next \in 1..Len(file)
    BY <1>1 DEF AtSection
  <1>3. \A m, n \in 1..Len(file) : file[m].id = file[n].id => m = n
    BY DEF WriterInv, FileOK
  <1>4. DOMAIN payloads = {file[n].id : n \in 1..next - 1}
    BY DEF Found
  <1>5. \A n \in 1..next - 1 : n \in 1..Len(file) /\ n # next
    BY <1>1, <1>2
  <1> QED BY <1>2, <1>3, <1>4, <1>5

(* In a file that was written whole there is nothing after the sections    *)
(* but the end marker.                                                     *)
LEMMA AtEnd ==
    ASSUME WriterInv, Complete, Reads, Found(next), ~AtSection
    PROVE  next = Len(file) /\ offset + 1 = tell - start
  <1>1. Len(file) \in Nat \ {0} /\ file[Len(file)] = EndMarker
    BY CompleteFile
  <1>2. DOMAIN file = 1..Len(file)
    BY SeqFacts DEF WriterInv, FileOK
  <1>3. next \in 1..Len(file) + 1
    BY DEF Reads
  <1>4. \A n \in 1..next - 1 : file[n] # EndMarker
    BY DEF Found
  <1>5. next # Len(file) + 1
    BY <1>1, <1>4
  <1>6. next \in 1..Len(file)
    BY <1>1, <1>3, <1>5
  <1>7. file[next] = EndMarker
    BY <1>2, <1>6 DEF AtSection
  <1>8. next = Len(file)
    BY <1>6, <1>7 DEF WriterInv, FileOK
  <1>9. PICK ends : /\ Ends(file, start, ends) /\ tell = start + ends[Len(file) + 1]
                    /\ offset = ends[next]
    BY DEF Reads
  <1>10. ends[next + 1] = ends[next] + 1 /\ ends[next] \in Nat
    BY <1>3, <1>6, <1>7, <1>9 DEF Ends, Bytes
  <1>11. offset + 1 = tell - start
    BY <1>8, <1>9, <1>10 DEF WriterInv
  <1> QED BY <1>8, <1>11

-----------------------------------------------------------------------------
(* What the reader finds in the sections of a file that was written whole. *)
LEMMA EmptyIs ==
    ASSUME NEW n \in Nat, n = 0, NEW f, f = [i \in 1..n |-> f[i]]
    PROVE  f = <<>>
  <1>1. IsSeq(f) /\ Len(f) = 0
    BY EachIsSeq
  <1> QED BY <1>1, EmptySeq DEF IsSeq

LEMMA FoundAll ==
    ASSUME WriterInv, Complete, Found(Len(file)), NEW id \in Sections
    PROVE  /\ id \in DOMAIN payloads <=> HasSection(id)
           /\ HasSection(id) => payloads[id] = Body(id, table)
           /\ Expected(id) => HasSection(id)
  <1>1. /\ Len(file) \in Nat \ {0} /\ file[Len(file)] = EndMarker
        /\ \A n \in 1..Len(file) : n # Len(file) => file[n] # EndMarker
    BY CompleteFile
  <1>2. \A n : n \in 1..Len(file) - 1 <=> n \in 1..Len(file) /\ n # Len(file)
    BY <1>1
  <1>3. id # "End" /\ EndMarker.id = "End"
    BY DEF Sections, Managers, EndMarker
  <1>4. /\ DOMAIN payloads = {file[n].id : n \in 1..Len(file) - 1}
        /\ \A n \in 1..Len(file) - 1 :
              file[n] # EndMarker /\ payloads[file[n].id] = file[n].body
    BY DEF Found
  <1>5. id \in DOMAIN payloads <=> HasSection(id)
    BY <1>1, <1>2, <1>3, <1>4 DEF HasSection
  <1>6. ASSUME HasSection(id) PROVE payloads[id] = Body(id, table)
    <2>1. PICK n \in 1..Len(file) : file[n].id = id
      BY <1>6 DEF HasSection
    <2>2. n \in 1..Len(file) - 1 /\ file[n] # EndMarker
      BY <1>1, <1>2, <1>3, <2>1
    <2>3. file[n].body = Body(id, table)
      BY <2>1, <2>2 DEF WriterInv, BodiesOK
    <2> QED BY <1>4, <2>1, <2>2, <2>3
  <1>7. Expected(id) => HasSection(id)
    BY DEF WriterInv, SectionsOK, Done
  <1> QED BY <1>5, <1>6, <1>7

ParsedAll ==
    /\ Parsed("String") = table["String"] /\ Parsed("Type") = table["Type"]
    /\ Parsed("Constant") = BitsBody(table) /\ Parsed("Debug") = DebugBody(table)
    /\ Parsed("Global") = GlobalBody(table) /\ Parsed("Func") = FuncBody(table)
    /\ "String" \in DOMAIN payloads /\ "Func" \in DOMAIN payloads
    /\ "Producer" \in DOMAIN payloads <=> HasProducer
    /\ HasProducer => payloads["Producer"] = IndexIn(table["String"], module.producer)

LEMMA ParsedFacts ==
    ASSUME WriterInv, Complete, Found(Len(file))
    PROVE  ParsedAll
  <1>1. \A id \in Sections :
           /\ id \in DOMAIN payloads <=> HasSection(id)
           /\ HasSection(id) => payloads[id] = Body(id, table)
           /\ Expected(id) => HasSection(id)
    BY FoundAll
  <1>2. {"String", "Type", "Constant", "Debug", "Func", "Global", "Producer"} = Sections
    BY DEF Sections, Managers
  <1>3. \A id \in Sections : id \in DOMAIN payloads => Parsed(id) = Body(id, table)
    BY <1>1 DEF Parsed
  <1>4. \A id \in Sections : id \notin DOMAIN payloads => Parsed(id) = <<>> /\ ~Expected(id)
    BY <1>1 DEF Parsed
  <1>5. Parsed("String") = table["String"] /\ Parsed("Type") = table["Type"]
    BY <1>2, <1>3, <1>4 DEF Expected, Body
  <1>6. Parsed("Func") = FuncBody(table)
    BY <1>2, <1>3, <1>4 DEF Expected, Body
  <1>7. Parsed("Constant") = BitsBody(table)
    <2>1. CASE Expected("Constant")
      BY <1>2, <1>3, <1>4, <2>1 DEF Body
    <2>2. CASE ~Expected("Constant")
      <3>1. PICK c : c = table["Constant"]
        OBVIOUS
      <3>2. c = <<>>
        BY <2>2, <3>1 DEF Expected
      <3>3. PICK n \in Nat : n = Len(c) /\ n = 0
        BY <3>2
      <3>4. PICK b : b = BitsBody(table)
        OBVIOUS
      <3>5. b = [i \in 1..n |-> c[i].bits]
        BY <3>1, <3>3, <3>4 DEF BitsBody
      <3>6. b = [i \in 1..n |-> b[i]]
        BY <3>5
      <3>7. b = <<>>
        BY <3>3, <3>6, EmptyIs
      <3>8. Parsed("Constant") = b \/ Parsed("Constant") = <<>>
        BY <1>2, <1>3, <1>4, <3>4 DEF Body
      <3> QED BY <3>4, <3>7, <3>8
    <2> QED BY <2>1, <2>2
  <1>8. Parsed("Debug") = DebugBody(table)
    <2>1. CASE Expected("Debug")
      BY <1>2, <1>3, <1>4, <2>1 DEF Body
    <2>2. CASE ~Expected("Debug")
      <3>1. PICK d : d = table["Debug"]
        OBVIOUS
      <3>2. d = <<>>
        BY <2>2, <3>1 DEF Expected
      <3>3. PICK n \in Nat : n = Len(d) /\ n = 0
        BY <3>2
      <3>4. PICK b : b = DebugBody(table)
        OBVIOUS
      <3>5. b = [i \in 1..n |-> LocRow(table, d[i])]
        BY <3>1, <3>3, <3>4 DEF DebugBody
      <3>6. b = [i \in 1..n |-> b[i]]
        BY <3>5
      <3>7. b = <<>>
        BY <3>3, <3>6, EmptyIs
      <3>8. Parsed("Debug") = b \/ Parsed("Debug") = <<>>
        BY <1>2, <1>3, <1>4, <3>4 DEF Body
      <3> QED BY <3>4, <3>7, <3>8
    <2> QED BY <2>1, <2>2
  <1>9. Parsed("Global") = GlobalBody(table)
    <2>1. CASE Expected("Global")
      BY <1>2, <1>3, <1>4, <2>1 DEF Body
    <2>2. CASE ~Expected("Global")
      <3>1. PICK g : g = Globals(module)
        OBVIOUS
      <3>2. g = <<>>
        BY <2>2, <3>1 DEF Expected
      <3>3. PICK n \in Nat : n = Len(g) /\ n = 0
        BY <3>2
      <3>4. PICK b : b = GlobalBody(table)
        OBVIOUS
      <3>5. b = [i \in 1..n |-> GlobalEntry(table, g[i])]
        BY <3>1, <3>3, <3>4 DEF GlobalBody
      <3>6. b = [i \in 1..n |-> b[i]]
        BY <3>5
      <3>7. b = <<>>
        BY <3>3, <3>6, EmptyIs
      <3>8. Parsed("Global") = b \/ Parsed("Global") = <<>>
        BY <1>2, <1>3, <1>4, <3>4 DEF Body
      <3> QED BY <3>4, <3>7, <3>8
    <2> QED BY <2>1, <2>2
  <1>10. "String" \in DOMAIN payloads /\ "Func" \in DOMAIN payloads
    BY <1>1, <1>2 DEF Expected
  <1>11. "Producer" \in DOMAIN payloads <=> HasProducer
    <2>1. HasSection("Producer") => HasProducer
      BY DEF WriterInv, FileOK
    <2>2. HasProducer => Expected("Producer")
      BY DEF Expected
    <2> QED BY <1>1, <1>2, <2>1, <2>2
  <1>12. HasProducer => payloads["Producer"] = IndexIn(table["String"], module.producer)
    BY <1>1, <1>2, <1>11 DEF Body
  <1> QED BY <1>5, <1>6, <1>7, <1>8, <1>9, <1>10, <1>11, <1>12 DEF ParsedAll

(* Looking an index up gives the entry it was made for.                    *)
LEMMA NameAtIndex ==
    ASSUME WriterInv, ParsedAll, NEW x, Has(table["String"], x)
    PROVE  NameAt(IndexIn(table["String"], x)) = x
  <1>1. PICK t : t = table["String"]
    OBVIOUS
  <1>2. Table(t) /\ Has(t, x)
    BY <1>1 DEF WriterInv, TablesOK, Managers
  <1>3. At(t, IndexIn(t, x)) = x
    BY <1>2, IndexFacts
  <1> QED BY <1>1, <1>3 DEF NameAt, ParsedAll

LEMMA TypeAtIndex ==
    ASSUME WriterInv, ParsedAll, NEW x, Has(table["Type"], x)
    PROVE  At(Parsed("Type"), IndexIn(table["Type"], x)) = x
  <1>1. PICK t : t = table["Type"]
    OBVIOUS
  <1>2. Table(t) /\ Has(t, x)
    BY <1>1 DEF WriterInv, TablesOK, Managers
  <1>3. At(t, IndexIn(t, x)) = x
    BY <1>2, IndexFacts
  <1> QED BY <1>1, <1>3 DEF ParsedAll

LEMMA ConstantAtIndex ==
    ASSUME WriterInv, ParsedAll, NEW v, IsConstant(v),
           Has(table["Type"], v.type), Has(table["Constant"], v)
    PROVE  /\ ConstantAt(IndexIn(table["Type"], v.type), IndexIn(table["Constant"], v)) = v
           /\ Resolved(v)
  <1>1. At(Parsed("Type"), IndexIn(table["Type"], v.type)) = v.type
    BY TypeAtIndex
  <1>2. PICK c : c = table["Constant"]
    OBVIOUS
  <1>3. Table(c) /\ Has(c, v)
    BY <1>2 DEF WriterInv, TablesOK, Managers
  <1>4. PICK i \in Nat : i = IndexIn(c, v)
    BY <1>3, IndexFacts
  <1>5. i + 1 \in DOMAIN c /\ c[i + 1] = v /\ DOMAIN c = 1..Len(c)
    BY <1>3, <1>4, IndexFacts, SeqFacts DEF Table
  <1>6. PICK b : b = [n \in 1..Len(c) |-> c[n].bits]
    OBVIOUS
  <1>7. Parsed("Constant") = b
    BY <1>2, <1>6 DEF ParsedAll, BitsBody
  <1>8. At(b, i) = v.bits
    BY <1>5, <1>6 DEF At
  <1>9. v = [type |-> v.type, bits |-> v.bits] /\ Resolved(v)
    BY DEF IsConstant, Resolved
  <1> QED BY <1>1, <1>2, <1>4, <1>7, <1>8, <1>9 DEF ConstantAt

(* Each global is read as it was written, and nothing in it is refused.    *)
LEMMA GlobalIsRead ==
    ASSUME WriterInv, ParsedAll, Complete, NEW n \in 1..Len(Globals(module)),
           NEW g, g = Globals(module)[n], NEW e, e = GlobalEntry(table, g)
    PROVE  /\ GlobalOf(e) = g /\ e.fields = ReadFields
           /\ g.name \notin {None, Empty} /\ Resolved(g.value)
  <1>1. IsGlobal(g) /\ Named(g) /\ module.version \in 0..4
    BY ModuleFacts DEF WriterInv
  <1>2. Holds(table, g)
    BY DEF WriterInv, KeysOK, Done, GlobalKeys
  <1>3. /\ e.name = IndexIn(table["String"], g.name)
        /\ e.type = IndexIn(table["Type"], g.value.type)
        /\ e.value = IndexIn(table["Constant"], g.value)
        /\ e.fields = GlobalFields /\ e.private = g.private /\ e.constant = g.constant
    BY DEF GlobalEntry
  <1>4. NameAt(e.name) = g.name
    BY <1>2, <1>3, NameAtIndex DEF Holds
  <1>5. PICK v : v = g.value
    OBVIOUS
  <1>6. IsConstant(v) /\ Has(table["Type"], v.type) /\ Has(table["Constant"], v)
    BY <1>1, <1>2, <1>5 DEF Holds, IsGlobal
  <1>7. ConstantAt(e.type, e.value) = v /\ Resolved(v)
    BY <1>3, <1>5, <1>6, ConstantAtIndex
  <1>8. module.version >= ExtendedVersion \/ (g.private = FALSE /\ g.constant = FALSE)
    <2>1. Encodable
      BY DEF WriterInv, KeysOK, Done
    <2> QED BY <1>1, <2>1 DEF Encodable, Unencodable, IsGlobal, ExtendedVersion
  <1>9. /\ (ReadFields = 6 /\ e.private) = g.private
        /\ (ReadFields = 6 /\ e.constant) = g.constant
    <2>1. g.private \in BOOLEAN /\ g.constant \in BOOLEAN
      BY <1>1 DEF IsGlobal
    <2>2. CASE module.version >= ExtendedVersion
      <3>1. ReadFields = 6
        BY <2>2 DEF ReadFields
      <3> QED BY <1>3, <2>1, <3>1, Zenon
    <2>3. CASE ~(module.version >= ExtendedVersion)
      <3>1. ReadFields # 6
        BY <2>3 DEF ReadFields
      <3>2. g.private = FALSE /\ g.constant = FALSE
        BY <1>8, <2>3
      <3> QED BY <3>1, <3>2, Zenon
    <2> QED BY <2>2, <2>3
  <1>10. e.fields = ReadFields
    BY <1>1, <1>3 DEF GlobalFields, ReadFields, ExtendedVersion
  <1>11. GlobalOf(e) = g
    <2>1. g = [kind |-> "global", name |-> g.name, value |-> g.value,
               private |-> g.private, constant |-> g.constant]
      BY <1>1 DEF IsGlobal
    <2>2. GlobalOf(e) = [kind |-> "global", name |-> NameAt(e.name),
                         value |-> ConstantAt(e.type, e.value),
                         private |-> (ReadFields = 6 /\ e.private),
                         constant |-> (ReadFields = 6 /\ e.constant)]
      BY DEF GlobalOf
    <2> QED BY <1>4, <1>5, <1>7, <1>9, <2>1, <2>2, Zenon
  <1> QED BY <1>1, <1>5, <1>7, <1>10, <1>11 DEF Named

(* A location is read as it was written.                                   *)
LEMMA LocIsRead ==
    ASSUME WriterInv, ParsedAll, Complete, NEW n \in 1..Len(Functions(module)),
           NEW f, f = Functions(module)[n], NEW i, i = LocIndex(table["Debug"], f.loc)
    PROVE  LocOf(i) = f.loc /\ (i # 0 => f.loc # None /\ f.loc.file # None)
  <1>1. PICK d : d = table["Debug"]
    OBVIOUS
  <1>2. Table(d)
    BY <1>1 DEF WriterInv, TablesOK, Managers
  <1>3. Len(d) \in Nat /\ DOMAIN d = 1..Len(d)
    BY <1>2, SeqFacts DEF Table
  <1>4. PICK rows : rows = [k \in 1..Len(d) |-> LocRow(table, d[k])]
    OBVIOUS
  <1>5. Parsed("Debug") = rows /\ DOMAIN rows = 1..Len(d)
    BY <1>1, <1>4 DEF ParsedAll, DebugBody
  <1>6. IsFunction(f) /\ Declares(table, f) /\ FileKeys(table)
    BY ModuleFacts DEF WriterInv, KeysOK, Done, MapKeys
  <1>7. CASE f.loc = None
    <2>1. i = 0
      BY <1>7 DEF LocIndex
    <2>2. i \notin DOMAIN rows
      BY <1>3, <1>5, <2>1
    <2> QED BY <1>5, <1>7, <2>1, <2>2 DEF LocOf
  <1>8. CASE f.loc # None
    <2>1. PICK l : l = f.loc /\ Has(d, l)
      BY <1>1, <1>6, <1>8 DEF Declares
    <2>2. PICK k \in Nat : k = IndexIn(d, l)
      BY <1>2, <2>1, IndexFacts
    <2>3. k + 1 \in DOMAIN d /\ d[k + 1] = l
      BY <1>2, <2>1, <2>2, IndexFacts
    <2>4. i = k + 1 /\ i # 0 /\ i - 1 = k
      BY <1>1, <1>8, <2>1, <2>2 DEF LocIndex
    <2>5. i \in DOMAIN rows /\ i \in 1..Len(d) /\ d[i] = l
      BY <1>3, <1>5, <2>3, <2>4
    <2>6. LocAt(rows, i) = LocRow(table, l)
      <3>1. k + 1 \in DOMAIN rows /\ rows[k + 1] = LocRow(table, l)
        BY <1>4, <2>4, <2>5
      <3>2. At(rows, k) = LocRow(table, l)
        BY <3>1 DEF At
      <3> QED BY <2>4, <3>2 DEF LocAt
    <2>7. l.file # None /\ Has(table["String"], l.file)
      BY <1>1, <1>6, <2>5 DEF FileKeys
    <2>8. NameAt(IndexIn(table["String"], l.file)) = l.file
      BY <2>7, NameAtIndex
    <2>9. LocOf(i) = [line |-> l.line, file |-> l.file]
      BY <1>5, <2>5, <2>6, <2>8 DEF LocOf, LocRow
    <2>10. l = [line |-> l.line, file |-> l.file]
      BY <1>6, <1>8, <2>1 DEF IsFunction
    <2> QED BY <1>8, <2>1, <2>7, <2>9, <2>10
  <1> QED BY <1>7, <1>8

Rebuilt(f) == [kind |-> "func", name |-> f.name, type |-> f.type, loc |-> f.loc, values |-> f.values]

(* Each function is read as it was written.                                *)
LEMMA FunctionIsRead ==
    ASSUME WriterInv, ParsedAll, Complete, NEW n \in 1..Len(Functions(module)),
           NEW f, f = Functions(module)[n], NEW e, e = FunctionEntry(table, f)
    PROVE  /\ FunctionOf(e) = Rebuilt(f)
           /\ f.name \notin {None, Empty} /\ f.type # None
           /\ e.loc # 0 => f.loc # None /\ f.loc.file # None
           /\ \A k \in DOMAIN f.values : Resolved(f.values[k])
  <1>1. IsFunction(f) /\ Named(f)
    BY ModuleFacts DEF WriterInv
  <1>2. Declares(table, f) /\ Values(table, f.values)
    BY DEF WriterInv, KeysOK, Done, MapKeys, ValueKeys
  <1>3. /\ e.name = IndexIn(table["String"], f.name)
        /\ e.type = IndexIn(table["Type"], f.type)
        /\ e.loc = LocIndex(table["Debug"], f.loc)
        /\ e.values = ValueRows(table, f.values)
    BY EntryIs
  <1>4. NameAt(e.name) = f.name
    BY <1>2, <1>3, NameAtIndex DEF Declares
  <1>5. At(Parsed("Type"), e.type) = f.type
    BY <1>2, <1>3, TypeAtIndex DEF Declares
  <1>6. LocOf(e.loc) = f.loc /\ (e.loc # 0 => f.loc # None /\ f.loc.file # None)
    BY <1>3, LocIsRead
  <1>7. PICK vs : vs = f.values
    OBVIOUS
  <1>8. /\ IsSeq(vs) /\ \A k \in 1..Len(vs) : IsConstant(vs[k])
    <2>1. vs \in Seq(ToSet(vs)) /\ \A v \in ToSet(vs) : IsConstant(v)
      BY <1>1, <1>7 DEF IsFunction
    <2>2. \A k \in 1..Len(vs) : vs[k] \in ToSet(vs)
      BY <2>1, ElementOfSeq
    <2> QED BY <2>1, <2>2 DEF IsSeq
  <1>9. DOMAIN vs = 1..Len(vs) /\ vs = [k \in 1..Len(vs) |-> vs[k]]
    BY <1>8, SeqFacts
  <1>10. ASSUME NEW k \in DOMAIN vs
         PROVE  /\ ConstantAt(ValueRow(table, vs[k]).type, ValueRow(table, vs[k]).value) = vs[k]
                /\ Resolved(vs[k])
    <2>1. PICK v : v = vs[k]
      OBVIOUS
    <2>2. IsConstant(v) /\ Has(table["Type"], v.type) /\ Has(table["Constant"], v)
      BY <1>2, <1>7, <1>8, <1>9, <2>1 DEF Values
    <2>3. ConstantAt(IndexIn(table["Type"], v.type), IndexIn(table["Constant"], v)) = v /\ Resolved(v)
      BY <2>2, ConstantAtIndex
    <2> QED BY <2>1, <2>3 DEF ValueRow
  <1>11. PICK rows : rows = e.values
    OBVIOUS
  <1>12. DOMAIN rows = DOMAIN vs /\ \A k \in DOMAIN vs : rows[k] = ValueRow(table, vs[k])
    BY <1>3, <1>7, <1>11 DEF ValueRows
  <1>13. [k \in DOMAIN rows |-> ConstantAt(rows[k].type, rows[k].value)] = vs
    BY <1>9, <1>10, <1>12
  <1>14. FunctionOf(e) = Rebuilt(f)
    BY <1>4, <1>5, <1>6, <1>7, <1>11, <1>13 DEF FunctionOf, Rebuilt, Each
  <1> QED BY <1>1, <1>6, <1>7, <1>10, <1>14 DEF Named, IsFunction

-----------------------------------------------------------------------------
(* So the module is built again, step by step.                             *)
LEMMA TablesAreParsed ==
    ASSUME WriterInv, ParsedAll, Complete, ParseTables
    PROVE  /\ step' = "globals"
           /\ built' = [producer |-> Carried(module).producer, items |-> <<>>]
  <1>1. module.version \in 0..4
    BY ModuleFacts DEF WriterInv
  <1>2. "String" \in DOMAIN payloads
    BY DEF ParsedAll
  <1>3. Carried(module).producer =
           IF module.version < ExtendedVersion \/ module.producer = Empty THEN None
           ELSE module.producer
    BY DEF Carried
  <1>4. CASE HasProducer
    <2>1. "Producer" \in DOMAIN payloads
      BY <1>4 DEF ParsedAll
    <2>2. NameAt(payloads["Producer"]) = module.producer /\ module.producer # None
      <3>1. Has(table["String"], module.producer)
        BY <1>4 DEF WriterInv, KeysOK, Done, ProducerKey
      <3>2. NameAt(IndexIn(table["String"], module.producer)) = module.producer
        BY <3>1, NameAtIndex
      <3> QED BY <1>4, <3>2 DEF ParsedAll, HasProducer
    <2>3. built' = [producer |-> IF module.producer # Empty THEN module.producer ELSE None,
                    items |-> <<>>] /\ step' = "globals"
      BY <1>2, <2>1, <2>2 DEF ParseTables
    <2>4. ~(module.version < ExtendedVersion)
      BY <1>1, <1>4 DEF HasProducer, ExtendedVersion
    <2> QED BY <1>3, <2>3, <2>4
  <1>5. CASE ~HasProducer
    <2>1. "Producer" \notin DOMAIN payloads
      BY <1>5 DEF ParsedAll
    <2>2. built' = [producer |-> None, items |-> <<>>] /\ step' = "globals"
      BY <1>2, <2>1 DEF ParseTables
    <2>3. module.version < ExtendedVersion \/ module.producer = None
      BY <1>1, <1>5 DEF HasProducer, ExtendedVersion
    <2> QED BY <1>3, <2>2, <2>3
  <1> QED BY <1>4, <1>5

LEMMA GlobalsAreCreated ==
    ASSUME WriterInv, ParsedAll, Complete, CreateGlobals
    PROVE  step' = "functions" /\ built' = [built EXCEPT !.items = Globals(module)]
  <1>1. PICK gs : gs = Globals(module)
    OBVIOUS
  <1>2. IsSeq(gs)
    BY <1>1, ModuleFacts DEF WriterInv
  <1>3. gs = [n \in 1..Len(gs) |-> gs[n]]
    BY <1>2, SeqFacts
  <1>4. PICK entries : entries = [n \in 1..Len(gs) |-> GlobalEntry(table, gs[n])]
    OBVIOUS
  <1>5. Parsed("Global") = entries /\ DOMAIN entries = 1..Len(gs)
    BY <1>1, <1>4 DEF ParsedAll, GlobalBody
  <1>6. \A n \in 1..Len(gs) :
          /\ GlobalOf(entries[n]) = gs[n] /\ entries[n].fields = ReadFields
          /\ gs[n].name \notin {None, Empty} /\ Resolved(gs[n].value)
    <2>1. ASSUME NEW n \in 1..Len(gs)
          PROVE  /\ GlobalOf(entries[n]) = gs[n] /\ entries[n].fields = ReadFields
                 /\ gs[n].name \notin {None, Empty} /\ Resolved(gs[n].value)
      <3>1. PICK g : g = gs[n]
        OBVIOUS
      <3>2. PICK e : e = GlobalEntry(table, g)
        OBVIOUS
      <3>3. n \in 1..Len(Globals(module)) /\ g = Globals(module)[n]
        BY <1>1, <3>1
      <3>4. /\ GlobalOf(e) = g /\ e.fields = ReadFields
            /\ g.name \notin {None, Empty} /\ Resolved(g.value)
        BY <3>2, <3>3, GlobalIsRead
      <3>5. entries[n] = e
        BY <1>4, <3>1, <3>2
      <3> QED BY <3>1, <3>4, <3>5
    <2> QED BY <2>1
  <1>7. PICK globals : globals = [n \in DOMAIN entries |-> GlobalOf(entries[n])]
    OBVIOUS
  <1>8. globals = gs
    BY <1>3, <1>5, <1>6, <1>7
  <1>9. ~(\E n \in DOMAIN entries :
               \/ entries[n].fields # ReadFields
               \/ globals[n].name \in {None, Empty} \/ ~Resolved(globals[n].value))
    BY <1>5, <1>6, <1>8
  <1>10. step' = "functions" /\ built' = [built EXCEPT !.items = globals]
    BY <1>5, <1>7, <1>9 DEF CreateGlobals, Each
  <1> QED BY <1>1, <1>8, <1>10

CarriedFunctions == [n \in 1..Len(Functions(module)) |-> Rebuilt(Functions(module)[n])]

LEMMA CarriedIs ==
    ASSUME module \in Modules
    PROVE  Carried(module) = [producer |-> Carried(module).producer,
                              items |-> Globals(module) \o CarriedFunctions]
  <1>1. PICK fs : fs = Functions(module)
    OBVIOUS
  <1>2. DOMAIN fs = 1..Len(fs) /\ \A n \in 1..Len(fs) : fs[n].kind = "func"
    BY <1>1, ModuleFacts, SeqFacts DEF IsFunction
  <1>3. PICK cs : cs = [n \in DOMAIN fs |-> [kind |-> fs[n].kind, name |-> fs[n].name,
                            type |-> fs[n].type, loc |-> fs[n].loc, values |-> fs[n].values]]
    OBVIOUS
  <1>4. cs = CarriedFunctions
    BY <1>1, <1>2, <1>3 DEF CarriedFunctions, Rebuilt
  <1>5. Carried(module) =
          [producer |-> IF module.version < ExtendedVersion \/ module.producer = Empty THEN None
                        ELSE module.producer,
           items |-> Globals(module) \o cs]
    BY <1>1, <1>3 DEF Carried, Each
  <1> QED BY <1>4, <1>5

LEMMA FunctionsAreCreated ==
    ASSUME WriterInv, ParsedAll, Complete, CreateFunctions
    PROVE  step' = "accepted" /\ built' = [built EXCEPT !.items = @ \o CarriedFunctions]
  <1>1. PICK fs : fs = Functions(module)
    OBVIOUS
  <1>2. PICK entries : entries = [n \in 1..Len(fs) |-> FunctionEntry(table, fs[n])]
    OBVIOUS
  <1>3. Parsed("Func") = entries /\ DOMAIN entries = 1..Len(fs) /\ "Func" \in DOMAIN payloads
    BY <1>1, <1>2 DEF ParsedAll, FuncBody
  <1>4. \A n \in 1..Len(fs) :
          /\ FunctionOf(entries[n]) = Rebuilt(fs[n])
          /\ fs[n].name \notin {None, Empty} /\ fs[n].type # None
          /\ entries[n].loc # 0 => fs[n].loc # None /\ fs[n].loc.file # None
          /\ \A k \in DOMAIN fs[n].values : Resolved(fs[n].values[k])
    <2>1. ASSUME NEW n \in 1..Len(fs)
          PROVE  /\ FunctionOf(entries[n]) = Rebuilt(fs[n])
                 /\ fs[n].name \notin {None, Empty} /\ fs[n].type # None
                 /\ entries[n].loc # 0 => fs[n].loc # None /\ fs[n].loc.file # None
                 /\ \A k \in DOMAIN fs[n].values : Resolved(fs[n].values[k])
      <3>1. PICK f : f = fs[n]
        OBVIOUS
      <3>2. PICK e : e = FunctionEntry(table, f)
        OBVIOUS
      <3>3. n \in 1..Len(Functions(module)) /\ f = Functions(module)[n]
        BY <1>1, <3>1
      <3>4. /\ FunctionOf(e) = Rebuilt(f)
            /\ f.name \notin {None, Empty} /\ f.type # None
            /\ e.loc # 0 => f.loc # None /\ f.loc.file # None
            /\ \A k \in DOMAIN f.values : Resolved(f.values[k])
        BY <3>2, <3>3, FunctionIsRead
      <3>5. entries[n] = e
        BY <1>2, <3>1, <3>2
      <3> QED BY <3>1, <3>4, <3>5
    <2> QED BY <2>1
  <1>5. PICK funcs : funcs = [n \in DOMAIN entries |-> FunctionOf(entries[n])]
    OBVIOUS
  <1>6. funcs = CarriedFunctions
    BY <1>1, <1>3, <1>4, <1>5 DEF CarriedFunctions
  <1>7. \A n \in 1..Len(fs) :
          /\ funcs[n].name = fs[n].name /\ funcs[n].type = fs[n].type
          /\ funcs[n].loc = fs[n].loc /\ funcs[n].values = fs[n].values
    BY <1>3, <1>4, <1>5 DEF Rebuilt
  <1>8. ~(\E n \in DOMAIN entries :
             \/ funcs[n].name \in {None, Empty} \/ funcs[n].type = None
             \/ entries[n].loc # 0 /\ (funcs[n].loc = None \/ funcs[n].loc.file = None)
             \/ \E k \in DOMAIN funcs[n].values : ~Resolved(funcs[n].values[k]))
    BY <1>3, <1>4, <1>7
  <1>9. step' = "accepted" /\ built' = [built EXCEPT !.items = @ \o funcs]
    BY <1>3, <1>5, <1>8 DEF CreateFunctions, Each
  <1> QED BY <1>6, <1>9

-----------------------------------------------------------------------------
(* The invariant holds in the beginning, and every step keeps it.          *)
LEMMA InitInv ==
    ASSUME Init
    PROVE  FileInv
  <1>1. file = <<>> /\ Len(file) = 0 /\ IsSeq(file)
    <2>1. file \in Seq({0})
      BY DEF Init
    <2> QED BY <2>1 DEF Init, IsSeq
  <1>2. \A n \in 1..Len(file) : FALSE
    BY <1>1
  <1>3. ~Complete /\ step = "header"
    BY <1>2 DEF Complete, Contains, Init
  <1>4. \A id \in Movers : ~Done(id)
    BY <1>3, NotPast DEF Done
  <1>5. TablesOK
    <2>1. PICK e : e = <<>>
      OBVIOUS
    <2>2. e \in Seq({0}) /\ Len(e) = 0
      BY <2>1
    <2>3. Table(e)
      BY <2>2 DEF Table, IsSeq, Distinct
    <2> QED BY <2>1, <2>3 DEF Init, TablesOK
  <1>6. KeysOK
    BY <1>4 DEF KeysOK, Movers, Sections, Managers
  <1>7. FileOK /\ SectionsOK /\ BodiesOK
    BY <1>1, <1>2, <1>4 DEF FileOK, SectionsOK, BodiesOK, HasSection, Movers
  <1>8. PlaceOK
    BY <1>1 DEF PlaceOK, Init
  <1>9. WriterInv
    BY <1>5, <1>6, <1>7, <1>8, StartsAssumption DEF WriterInv, Init
  <1>10. ReaderInv /\ BuiltInv
    BY <1>3 DEF Init, ReaderInv, BuiltInv, WriterSteps, ReaderSteps
  <1> QED BY <1>9, <1>10 DEF FileInv

LEMMA WriteSteps ==
    ASSUME WriterInv, Write
    PROVE  /\ step \in WriterSteps /\ Unread
           /\ \/ step' \in WriterSteps \cup {"failed"} /\ WriterInv'
              \/ step' = "written" /\ WriterInv' /\ Complete'
  <1>1. CASE WriteHeader
    <2>1. step = "header" /\ Unread /\ step' \in {"failed", "map"}
      BY <1>1 DEF WriteHeader, WriterFails
    <2> QED BY <1>1, <2>1, HeaderWriterInv DEF WriterSteps
  <1>2. CASE BuildFunctionMap
    <2>1. step = "map" /\ Unread
      BY <1>2 DEF BuildFunctionMap
    <2>2. PICK U : Moved(U)
      BY <1>2, MapStepMoves
    <2> QED BY <2>1, <2>2, MovedWriterInv, MovedSteps
  <1>3. ASSUME WriteGlobals \/ WriteFunctions \/ WriteDebugInfo
        PROVE  /\ step \in WriterSteps /\ Unread
               /\ step' \in WriterSteps \cup {"failed"} /\ WriterInv'
    <2>1. step \in {"Global", "Func", "Debug"} /\ Unread
      BY <1>3 DEF WriteGlobals, WriteFunctions, WriteDebugInfo
    <2>2. CASE step' = "failed"
      <3>1. UNCHANGED <<module, start>>
        BY <1>3 DEF WriteGlobals, WriteFunctions, WriteDebugInfo
      <3>2. UNCHANGED <<table, file, tell>>
        <4>1. "failed" # After["Global"] /\ "failed" # After["Func"] /\ "failed" # After["Debug"]
          BY DEF After
        <4>2. CASE WriteGlobals
          BY <2>2, <4>1, <4>2 DEF WriteGlobals, WriterFails
        <4>3. CASE WriteFunctions
          BY <2>2, <4>1, <4>3 DEF WriteFunctions, WriterFails
        <4>4. CASE WriteDebugInfo
          BY <2>2, <4>1, <4>4 DEF WriteDebugInfo, WriterFails
        <4> QED BY <1>3, <4>2, <4>3, <4>4
      <3>3. step \in WriterSteps /\ step' \notin WriterSteps /\ step # "header"
        BY <2>1, <2>2 DEF WriterSteps
      <3>4. ~Complete
        BY <3>3, CompleteFile
      <3>5. WriterInv'
        BY <2>2, <3>1, <3>2, <3>3, <3>4, StillWriterInv
      <3> QED BY <2>1, <2>2, <3>3, <3>5
    <2>3. CASE step' # "failed"
      <3>1. PICK U : Moved(U)
        BY <1>3, <2>3, GlobalStepMoves, FunctionStepMoves, DebugStepMoves
      <3> QED BY <2>1, <3>1, MovedWriterInv, MovedSteps
    <2> QED BY <2>2, <2>3
  <1>4. ASSUME WriteConstants \/ WriteTypes \/ WriteProducer \/ WriteStrings
        PROVE  /\ step \in WriterSteps /\ Unread
               /\ step' \in WriterSteps /\ WriterInv'
    <2>1. Unread
      BY <1>4 DEF WriteConstants, WriteTypes, WriteProducer, WriteStrings
    <2>2. PICK U : Moved(U)
      BY <1>4, ConstantStepMoves, TypeStepMoves, ProducerStepMoves, StringStepMoves
    <2> QED BY <2>1, <2>2, MovedWriterInv, MovedSteps
  <1>5. CASE WriteEnd
    <2>1. step = "End" /\ Unread /\ step' = "written"
      BY <1>5 DEF WriteEnd
    <2> QED BY <1>5, <2>1, EndWriterInv DEF WriterSteps
  <1> QED BY <1>1, <1>2, <1>3, <1>4, <1>5 DEF Write

LEMMA WriteInv ==
    ASSUME FileInv, Write
    PROVE  FileInv'
  <1>1. WriterInv /\ ReaderInv
    BY DEF FileInv
  <1>2. /\ step \in WriterSteps /\ Unread /\ WriterInv'
        /\ step' \in WriterSteps \cup {"failed"} \/ (step' = "written" /\ Complete')
    BY <1>1, WriteSteps
  <1>3. size' = None /\ payloads' = <<>>
    BY <1>1, <1>2 DEF ReaderInv, Unread
  <1>4. ReaderInv' /\ BuiltInv'
    BY <1>2, <1>3 DEF ReaderInv, BuiltInv, WriterSteps, ReaderSteps
  <1> QED BY <1>2, <1>4 DEF FileInv

LEMMA DeliverInv ==
    ASSUME FileInv, Deliver
    PROVE  FileInv'
  <1>1. WriterInv /\ ReaderInv
    BY DEF FileInv
  <1>2. /\ step \in {"written", "failed"} /\ step' = "read" /\ next' = 1
        /\ UNCHANGED <<module, start, table, file, tell, payloads>>
    BY DEF Deliver, managers, stream
  <1>3. WriterInv'
    BY <1>1, <1>2, StillWriterInv DEF WriterSteps
  <1>4. size' \in Nat
    <2>1. PICK cut \in Cuts(module), extra \in Extras :
              cut <= Length /\ size' = Length - cut + extra
      BY DEF Deliver
    <2>2. cut \in Nat /\ extra \in Nat
      BY <1>1, CutsAssumption, StartsAssumption DEF WriterInv
    <2>3. Length \in Int
      BY <1>1 DEF WriterInv, Length
    <2> QED BY <2>1, <2>2, <2>3
  <1>5. payloads' = <<>>
    BY <1>1, <1>2 DEF ReaderInv
  <1>6. ReaderInv' /\ BuiltInv'
    BY <1>2, <1>4, <1>5 DEF ReaderInv, BuiltInv, WriterSteps, ReaderSteps
  <1> QED BY <1>3, <1>6 DEF FileInv

(* The sections start behind the header.                                   *)
LEMMA ReadsFirst ==
    ASSUME WriterInv, step # "header", module.version >= MinSupportedVersion,
           UNCHANGED <<start, file, tell>>, next' = 1, offset' = HeaderBytes,
           payloads = <<>>, payloads' = payloads
    PROVE  Reads' /\ Found(next)' /\ tell - start >= HeaderBytes
  <1>1. PICK length \in Nat : tell = start + length /\ Placed(file, start, length)
    BY DEF WriterInv, PlaceOK
  <1>2. PICK ends : Ends(file, start, ends) /\ ends[Len(file) + 1] = length
    BY <1>1 DEF Placed
  <1>3. Len(file) \in Nat /\ start \in Nat
    BY SeqFacts DEF WriterInv, FileOK
  <1>4. 1 \in 1..Len(file) + 1
    BY <1>3
  <1>5. ends[1] = HeaderBytes /\ ends[1] <= ends[Len(file) + 1]
    BY <1>2, <1>4 DEF Ends
  <1>6. \E e : Ends(file', start', e) /\ tell' = start' + e[Len(file') + 1] /\ offset' = e[next']
    BY <1>1, <1>2, <1>5
  <1>7. Reads'
    BY <1>4, <1>6 DEF Reads
  <1>8. Found(next)'
    <2>1. \A n \in 1..next' - 1 : FALSE
      OBVIOUS
    <2>2. DOMAIN payloads' = {}
      OBVIOUS
    <2> QED BY <2>1, <2>2 DEF Found
  <1>9. tell - start >= HeaderBytes
    BY <1>1, <1>2, <1>3, <1>5 DEF HeaderBytes
  <1> QED BY <1>7, <1>8, <1>9

LEMMA MeasureInv ==
    ASSUME FileInv, Measure
    PROVE  FileInv'
  <1>1. WriterInv /\ ReaderInv
    BY DEF FileInv
  <1>2. /\ step = "written" /\ step' = "measure" /\ next' = 1 /\ offset' = HeaderBytes
        /\ UNCHANGED <<module, start, table, file, tell, payloads, size>>
    BY DEF Measure, managers, stream
  <1>3. Complete /\ size = None /\ payloads = <<>>
    BY <1>1, <1>2 DEF ReaderInv
  <1>4. module.version \in MinSupportedVersion..CurrentVersion
    BY <1>1, <1>3, CompleteFile
  <1>5. module.version >= MinSupportedVersion /\ ~(module.version < MinSupportedVersion)
    BY <1>4 DEF MinSupportedVersion, CurrentVersion
  <1>6. WriterInv'
    BY <1>1, <1>2, <1>5, StillWriterInv DEF WriterSteps
  <1>7. Reads' /\ Found(next)'
    BY <1>1, <1>2, <1>3, <1>5, ReadsFirst
  <1>8. Complete'
    BY <1>2, <1>3 DEF Complete
  <1>9. ReaderInv' /\ BuiltInv'
    BY <1>2, <1>3, <1>7, <1>8 DEF ReaderInv, BuiltInv, WriterSteps, ReaderSteps
  <1> QED BY <1>6, <1>9 DEF FileInv

LEMMA ReadHeaderInv ==
    ASSUME FileInv, ReadHeader
    PROVE  FileInv'
  <1>1. WriterInv /\ ReaderInv
    BY DEF FileInv
  <1>2. step = "read" /\ UNCHANGED <<module, start, table, file, tell, size, found>>
    BY DEF ReadHeader, Unwritten
  <1>3. size \in Nat /\ size # None /\ next = 1 /\ payloads = <<>>
    BY <1>1, <1>2, NoneAssumption DEF ReaderInv
  <1>4. module.version \in 0..4 /\ step # "header"
    BY <1>1, <1>2, ModuleFacts DEF WriterInv
  <1>5. CASE size < HeaderBytes \/ module.version \notin MinSupportedVersion..CurrentVersion
    <2>1. step' = "rejected" /\ UNCHANGED payloads
      BY <1>5 DEF ReadHeader, Reject
    <2>2. WriterInv'
      BY <1>1, <1>2, <2>1, StillWriterInv DEF WriterSteps
    <2>3. ~(Complete /\ size = Length)
      <3>1. ASSUME Complete, size = Length PROVE FALSE
        <4>1. module.version \in MinSupportedVersion..CurrentVersion
          BY <1>1, <3>1, CompleteFile
        <4>2. module.version >= MinSupportedVersion
          BY <4>1 DEF MinSupportedVersion, CurrentVersion
        <4>3. PICK length \in Nat : tell = start + length /\ Placed(file, start, length)
          BY <1>1, <1>4, <4>2 DEF WriterInv, PlaceOK
        <4>4. PICK ends : Ends(file, start, ends) /\ ends[Len(file) + 1] = length
          BY <4>3 DEF Placed
        <4>5. Len(file) \in Nat /\ start \in Nat
          BY <1>1, SeqFacts DEF WriterInv, FileOK
        <4>6. 1 \in 1..Len(file) + 1
          BY <4>5
        <4>7. HeaderBytes <= length
          BY <4>4, <4>6 DEF Ends
        <4>8. size = length
          BY <3>1, <4>3, <4>5 DEF Length
        <4> QED BY <1>5, <4>1, <4>7, <4>8 DEF HeaderBytes
      <3> QED BY <3>1
    <2>4. ReaderInv' /\ BuiltInv'
      BY <1>2, <1>3, <2>1, <2>3
         DEF ReaderInv, BuiltInv, WriterSteps, ReaderSteps, Sound, Complete, Length
    <2> QED BY <2>2, <2>4 DEF FileInv
  <1>6. CASE ~(size < HeaderBytes \/ module.version \notin MinSupportedVersion..CurrentVersion)
    <2>1. step' = "sections" /\ offset' = HeaderBytes /\ UNCHANGED <<next, payloads>>
      BY <1>6 DEF ReadHeader
    <2>2. module.version >= MinSupportedVersion /\ ~(module.version < MinSupportedVersion)
      BY <1>4, <1>6 DEF MinSupportedVersion, CurrentVersion
    <2>3. WriterInv'
      BY <1>1, <1>2, <2>1, <2>2, StillWriterInv DEF WriterSteps
    <2>4. Reads' /\ Found(next)'
      <3>1. next' = 1
        BY <1>3, <2>1
      <3> QED BY <1>1, <1>2, <1>3, <1>4, <2>1, <2>2, <3>1, ReadsFirst
    <2>5. ReaderInv' /\ BuiltInv'
      BY <1>2, <1>3, <2>1, <2>4 DEF ReaderInv, BuiltInv, WriterSteps, ReaderSteps
    <2> QED BY <2>3, <2>5 DEF FileInv
  <1> QED BY <1>5, <1>6

(* A step of the reader leaves what was written alone.                     *)
LEMMA ReaderKeepsFile ==
    ASSUME WriterInv, Unwritten, step \notin {"header", "failed", "read", "rejected"},
           step' \notin WriterSteps \cup {"failed"}
    PROVE  WriterInv'
  <1>1. ~(module.version < MinSupportedVersion)
    BY DEF WriterInv, PlaceOK
  <1>2. UNCHANGED <<module, start, table, file, tell>>
    BY DEF Unwritten
  <1> QED BY <1>1, <1>2, StillWriterInv

LEMMA ReadSectionInv ==
    ASSUME FileInv, ReadSection
    PROVE  FileInv'
  <1>1. WriterInv /\ ReaderInv
    BY DEF FileInv
  <1>2. /\ step = "sections" /\ AtSection
        /\ UNCHANGED <<module, start, table, file, tell, size, found>> /\ Unwritten
    BY DEF ReadSection, Unwritten
  <1>3. Reads /\ Found(next) /\ size \in Nat /\ size # None /\ next \in 1..Len(file) + 1
    BY <1>1, <1>2, NoneAssumption DEF ReaderInv, Reads
  <1>4. PICK s : s = file[next]
    OBVIOUS
  <1>5. /\ WellMade(s) /\ s # EndMarker /\ s.id \in Sections
        /\ offset \in Nat /\ Bytes(s) \in Nat
        /\ offset + Bytes(s) <= tell - start
        /\ Sound => ~Misplaced
        /\ s.align % Required(s.id) = 0
        /\ ~Misplaced => PayloadAt + s.len = offset + Bytes(s)
    BY <1>1, <1>2, <1>3, <1>4, AtOneSection
  <1>6. PICK b \in Nat : b = Bytes(s)
    BY <1>5
  <1>7. tell \in Nat /\ start \in Nat
    BY <1>1 DEF WriterInv
  <1>8. CASE offset + b > size
    <2>1. step' = "rejected"
      BY <1>4, <1>6, <1>8 DEF ReadSection, Reject
    <2>2. size # Length
      BY <1>3, <1>5, <1>6, <1>7, <1>8 DEF Length
    <2>3. WriterInv'
      BY <1>1, <1>2, <2>1, ReaderKeepsFile DEF WriterSteps
    <2>4. ReaderInv' /\ BuiltInv'
      BY <1>2, <1>3, <2>1, <2>2
         DEF ReaderInv, BuiltInv, WriterSteps, ReaderSteps, Sound, Complete, Length
    <2> QED BY <2>3, <2>4 DEF FileInv
  <1>9. CASE ~(offset + b > size) /\ Misplaced
    <2>1. step' = "misread"
      BY <1>4, <1>6, <1>9 DEF ReadSection
    <2>2. ~Sound
      BY <1>5, <1>9
    <2>3. WriterInv'
      BY <1>1, <1>2, <2>1, ReaderKeepsFile DEF WriterSteps
    <2>4. ReaderInv' /\ BuiltInv'
      BY <1>2, <1>3, <2>1, <2>2
         DEF ReaderInv, BuiltInv, WriterSteps, ReaderSteps, Sound, Complete, Length
    <2> QED BY <2>3, <2>4 DEF FileInv
  <1>10. CASE ~(offset + b > size) /\ ~Misplaced
    <2>1. /\ payloads' = WithPayload(s) /\ offset' = PayloadAt + s.len
          /\ next' = next + 1 /\ step' = "sections"
      BY <1>2, <1>4, <1>5, <1>6, <1>10 DEF ReadSection
    <2>2. offset' = offset + Bytes(file[next])
      BY <1>4, <1>5, <1>10, <2>1
    <2>3. Reads'
      BY <1>1, <1>2, <1>3, <2>1, <2>2, ReadsOn
    <2>4. Found(next)'
      BY <1>1, <1>2, <1>3, <1>4, <2>1, FindsOn
    <2>5. WriterInv'
      BY <1>1, <1>2, <2>1, ReaderKeepsFile DEF WriterSteps
    <2>6. ReaderInv' /\ BuiltInv'
      BY <1>2, <1>3, <2>1, <2>3, <2>4 DEF ReaderInv, BuiltInv, WriterSteps, ReaderSteps
    <2> QED BY <2>5, <2>6 DEF FileInv
  <1> QED BY <1>8, <1>9, <1>10

LEMMA SkipSectionInv ==
    ASSUME FileInv, SkipSection
    PROVE  FileInv'
  <1>1. WriterInv /\ ReaderInv
    BY DEF FileInv
  <1>2. /\ step = "measure" /\ AtSection
        /\ UNCHANGED <<module, start, table, file, tell, size, found>> /\ Unwritten
    BY DEF SkipSection, Unwritten
  <1>3. Reads /\ Found(next) /\ size = None /\ next \in 1..Len(file) + 1 /\ Complete
    BY <1>1, <1>2 DEF ReaderInv, Reads
  <1>4. PICK s : s = file[next]
    OBVIOUS
  <1>5. /\ WellMade(s) /\ s # EndMarker /\ s.id \in Sections
        /\ offset \in Nat /\ Bytes(s) \in Nat
        /\ offset + Bytes(s) <= tell - start
        /\ Sound => ~Misplaced
        /\ s.align % Required(s.id) = 0
        /\ ~Misplaced => PayloadAt + s.len = offset + Bytes(s)
    BY <1>1, <1>2, <1>3, <1>4, AtOneSection
  <1>6. s.id \notin DOMAIN payloads
    BY <1>1, <1>2, <1>3, <1>4, FindsNew
  <1>7. CASE Misplaced
    <2>1. step' = "misread"
      BY <1>7 DEF SkipSection
    <2>2. ~Sound
      BY <1>5, <1>7
    <2>3. WriterInv'
      BY <1>1, <1>2, <2>1, ReaderKeepsFile DEF WriterSteps
    <2>4. ReaderInv' /\ BuiltInv'
      BY <1>2, <1>3, <2>1, <2>2
         DEF ReaderInv, BuiltInv, WriterSteps, ReaderSteps, Sound, Complete, Length
    <2> QED BY <2>3, <2>4 DEF FileInv
  <1>8. CASE ~Misplaced
    <2>1. /\ payloads' = WithPayload(s) /\ offset' = PayloadAt + s.len
          /\ next' = next + 1 /\ step' = "measure"
      BY <1>2, <1>4, <1>6, <1>8 DEF SkipSection
    <2>2. offset' = offset + Bytes(file[next])
      BY <1>4, <1>5, <1>8, <2>1
    <2>3. Reads'
      BY <1>1, <1>2, <1>3, <2>1, <2>2, ReadsOn
    <2>4. Found(next)'
      BY <1>1, <1>2, <1>3, <1>4, <2>1, FindsOn
    <2>5. WriterInv'
      BY <1>1, <1>2, <2>1, ReaderKeepsFile DEF WriterSteps
    <2>6. Complete'
      BY <1>2, <1>3 DEF Complete
    <2>7. ReaderInv' /\ BuiltInv'
      BY <1>2, <1>3, <2>1, <2>3, <2>4, <2>6 DEF ReaderInv, BuiltInv, WriterSteps, ReaderSteps
    <2> QED BY <2>5, <2>7 DEF FileInv
  <1> QED BY <1>7, <1>8

LEMMA FindSizeInv ==
    ASSUME FileInv, FindSize
    PROVE  FileInv'
  <1>1. WriterInv /\ ReaderInv
    BY DEF FileInv
  <1>2. /\ step = "measure" /\ ~AtSection /\ found' = offset + 1 /\ step' = "measured"
        /\ UNCHANGED <<module, start, table, file, tell, size>>
    BY DEF FindSize, managers, stream, buffer
  <1>3. Reads /\ Found(next) /\ size = None /\ Complete
    BY <1>1, <1>2 DEF ReaderInv
  <1>4. offset + 1 = tell - start
    BY <1>1, <1>2, <1>3, AtEnd
  <1>5. ~(module.version < MinSupportedVersion)
    BY <1>1, <1>2 DEF WriterInv, PlaceOK
  <1>6. WriterInv'
    BY <1>1, <1>2, <1>5, StillWriterInv DEF WriterSteps
  <1>7. ReaderInv' /\ BuiltInv'
    BY <1>2, <1>3, <1>4 DEF ReaderInv, BuiltInv, WriterSteps, ReaderSteps, Complete, Length
  <1> QED BY <1>6, <1>7 DEF FileInv

LEMMA ReadEndInv ==
    ASSUME FileInv, ReadEnd
    PROVE  FileInv'
  <1>1. WriterInv /\ ReaderInv
    BY DEF FileInv
  <1>2. /\ step = "sections" /\ ~AtSection
        /\ UNCHANGED <<module, start, table, file, tell, size, found>> /\ Unwritten
    BY DEF ReadEnd, Unwritten
  <1>3. Reads /\ Found(next) /\ size \in Nat /\ size # None
    BY <1>1, <1>2, NoneAssumption DEF ReaderInv
  <1>4. Complete => next = Len(file) /\ offset + 1 = tell - start
    BY <1>1, <1>2, <1>3, AtEnd
  <1>5. CASE Complete /\ offset + 1 = size
    <2>1. step' = "parse" /\ UNCHANGED <<next, payloads>>
      BY <1>5 DEF ReadEnd
    <2>2. size = Length /\ Found(Len(file))
      BY <1>3, <1>4, <1>5 DEF Length
    <2>3. size' = Length' /\ Found(Len(file))' /\ Complete'
      BY <1>2, <1>5, <2>1, <2>2 DEF Length, Found, Complete
    <2>4. WriterInv'
      BY <1>1, <1>2, <2>1, ReaderKeepsFile DEF WriterSteps
    <2>5. ReaderInv' /\ BuiltInv'
      BY <2>1, <2>3 DEF ReaderInv, BuiltInv, WriterSteps, ReaderSteps
    <2> QED BY <2>4, <2>5 DEF FileInv
  <1>6. CASE ~(Complete /\ offset + 1 = size)
    <2>1. step' = "rejected"
      BY <1>6 DEF ReadEnd, Reject
    <2>2. ~(Complete /\ size = Length)
      BY <1>4, <1>6 DEF Length
    <2>3. WriterInv'
      BY <1>1, <1>2, <2>1, ReaderKeepsFile DEF WriterSteps
    <2>4. ReaderInv' /\ BuiltInv'
      BY <1>2, <1>3, <2>1, <2>2
         DEF ReaderInv, BuiltInv, WriterSteps, ReaderSteps, Sound, Complete, Length
    <2> QED BY <2>3, <2>4 DEF FileInv
  <1> QED BY <1>5, <1>6

(* The steps that build the module again.                                  *)
LEMMA ParseInv ==
    ASSUME FileInv, ParseTables \/ CreateGlobals \/ CreateFunctions
    PROVE  FileInv'
  <1>1. WriterInv /\ ReaderInv /\ BuiltInv
    BY DEF FileInv
  <1>2. /\ step \in {"parse", "globals", "functions"} /\ Unwritten
        /\ UNCHANGED <<module, start, table, file, tell, size, found>>
    BY DEF ParseTables, CreateGlobals, CreateFunctions, Unwritten
  <1>3. Complete /\ size = Length /\ Found(Len(file))
    BY <1>1, <1>2 DEF ReaderInv, ReaderSteps
  <1>4. ParsedAll
    BY <1>1, <1>3, ParsedFacts
  <1>5. PICK P : P = Carried(module).producer
    OBVIOUS
  <1>6. Carried(module)' = Carried(module) /\ Globals(module)' = Globals(module)
    BY <1>2
  <1>7. step' \in {"globals", "functions", "accepted"} /\ UNCHANGED payloads /\ BuiltInv'
    <2>1. CASE ParseTables
      <3>1. step' = "globals" /\ built' = [producer |-> P, items |-> <<>>]
        BY <1>1, <1>3, <1>4, <1>5, <2>1, TablesAreParsed
      <3>2. UNCHANGED payloads
        BY <2>1, <3>1 DEF ParseTables, Reject
      <3> QED BY <1>5, <1>6, <3>1, <3>2 DEF BuiltInv
    <2>2. CASE CreateGlobals
      <3>1. built = [producer |-> P, items |-> <<>>]
        BY <1>1, <1>5, <2>2 DEF BuiltInv, CreateGlobals
      <3>2. step' = "functions" /\ built' = [built EXCEPT !.items = Globals(module)]
        BY <1>1, <1>3, <1>4, <2>2, GlobalsAreCreated
      <3>3. built' = [producer |-> P, items |-> Globals(module)]
        BY <3>1, <3>2
      <3>4. UNCHANGED payloads
        BY <2>2, <3>2 DEF CreateGlobals, Reject
      <3> QED BY <1>5, <1>6, <3>2, <3>3, <3>4 DEF BuiltInv
    <2>3. CASE CreateFunctions
      <3>1. built = [producer |-> P, items |-> Globals(module)]
        BY <1>1, <1>5, <2>3 DEF BuiltInv, CreateFunctions
      <3>2. step' = "accepted" /\ built' = [built EXCEPT !.items = @ \o CarriedFunctions]
        BY <1>1, <1>3, <1>4, <2>3, FunctionsAreCreated
      <3>3. built' = [producer |-> P, items |-> Globals(module) \o CarriedFunctions]
        BY <3>1, <3>2
      <3>4. built' = Carried(module)
        BY <1>1, <1>5, <3>3, CarriedIs DEF WriterInv
      <3>5. UNCHANGED payloads
        BY <2>3, <3>2 DEF CreateFunctions, Reject
      <3> QED BY <1>6, <3>2, <3>4, <3>5 DEF BuiltInv
    <2> QED BY <2>1, <2>2, <2>3
  <1>8. WriterInv'
    BY <1>1, <1>2, <1>7, ReaderKeepsFile DEF WriterSteps
  <1>9. size' = Length' /\ Found(Len(file))' /\ Complete'
    BY <1>2, <1>3, <1>7 DEF Length, Found, Complete
  <1>10. ReaderInv'
    BY <1>7, <1>9 DEF ReaderInv, WriterSteps, ReaderSteps
  <1> QED BY <1>7, <1>8, <1>10 DEF FileInv

LEMMA StutterInv ==
    ASSUME FileInv, UNCHANGED vars
    PROVE  FileInv'
  <1>1. WriterInv /\ ReaderInv /\ BuiltInv
    BY DEF FileInv
  <1>2. UNCHANGED <<module, start, step, table, file, tell, size, next, offset, payloads, built, found>>
    BY DEF vars
  <1>3. /\ \A n \in 1..Len(file) : n \in 1..Len(file') /\ file'[n] = file[n]
        /\ \A n \in 1..Len(file') : n \in 1..Len(file) /\ file'[n] = file[n]
        /\ \A id \in Movers : Done(id)' => Done(id)
    BY <1>2 DEF Done, Complete
  <1>4. KeysOK' /\ SectionsOK' /\ BodiesOK'
    <2>1. KeysOK'
      BY <1>1, <1>2, <1>3, SameKeysOK DEF WriterInv
    <2>2. SectionsOK'
      BY <1>1, <1>2, <1>3, SameSectionsOK DEF WriterInv
    <2>3. BodiesOK'
      BY <1>1, <1>2, <1>3, SameBodiesOK DEF WriterInv
    <2> QED BY <2>1, <2>2, <2>3
  <1>5. FileOK' /\ PlaceOK' /\ TablesOK'
    BY <1>1, <1>2 DEF WriterInv, FileOK, PlaceOK, TablesOK, Done, Complete, HasSection, HasProducer
  <1>6. WriterInv'
    BY <1>1, <1>2, <1>4, <1>5 DEF WriterInv
  <1>7. Reads' = Reads /\ Found(next)' = Found(next) /\ Found(Len(file))' = Found(Len(file))
    BY <1>2 DEF Reads, Found
  <1>8. Complete' = Complete /\ Length' = Length /\ Carried(module)' = Carried(module)
        /\ Globals(module)' = Globals(module)
    BY <1>2 DEF Complete, Length
  <1>9. ReaderInv'
    BY <1>1, <1>2, <1>7, <1>8 DEF ReaderInv, Sound
  <1>10. BuiltInv'
    BY <1>1, <1>2, <1>8 DEF BuiltInv
  <1> QED BY <1>6, <1>9, <1>10 DEF FileInv

LEMMA NextInv ==
    ASSUME FileInv, [Next]_vars
    PROVE  FileInv'
  <1>1. CASE Write
    BY <1>1, WriteInv
  <1>2. CASE Deliver
    BY <1>2, DeliverInv
  <1>3. CASE Measure
    BY <1>3, MeasureInv
  <1>4. CASE Read
    <2>1. CASE ReadHeader
      BY <2>1, ReadHeaderInv
    <2>2. CASE ReadSection
      BY <2>2, ReadSectionInv
    <2>3. CASE ReadEnd
      BY <2>3, ReadEndInv
    <2>4. CASE SkipSection
      BY <2>4, SkipSectionInv
    <2>5. CASE FindSize
      BY <2>5, FindSizeInv
    <2>6. CASE ParseTables \/ CreateGlobals \/ CreateFunctions
      BY <2>6, ParseInv
    <2> QED BY <1>4, <2>1, <2>2, <2>3, <2>4, <2>5, <2>6 DEF Read
  <1>5. CASE Ended
    BY <1>5, StutterInv DEF Ended
  <1>6. CASE UNCHANGED vars
    BY <1>6, StutterInv
  <1> QED BY <1>1, <1>2, <1>3, <1>4, <1>5, <1>6 DEF Next

(* The writer and the reader agree all along on what is where in the file. *)
THEOREM FileInvIsKept == Spec => []FileInv
  <1>1. Init => FileInv
    BY InitInv
  <1>2. FileInv /\ [Next]_vars => FileInv'
    BY NextInv
  <1> QED BY <1>1, <1>2, PTL DEF Spec

-----------------------------------------------------------------------------
(* Every index that is anywhere in the file has its entry in the file: each*)
(* section of writeBytecode is written when nothing can be added to its    *)
(* table any more, and none that has entries is left out.                  *)
THEOREM TablesAreComplete == Spec => []TablesComplete
  <1>1. ASSUME FileInv PROVE TablesComplete
    <2>1. WriterInv
      BY <1>1 DEF FileInv
    <2>2. DOMAIN file = 1..Len(file)
      BY <2>1, SeqFacts DEF WriterInv, FileOK
    <2>3. \A t \in Managers : DOMAIN table[t] = 1..Len(table[t])
      <3>1. ASSUME NEW x, Table(x) PROVE DOMAIN x = 1..Len(x)
        BY <3>1, SeqFacts DEF Table
      <3> QED BY <2>1, <3>1 DEF WriterInv, TablesOK
    <2>4. ASSUME NEW t \in Managers PROVE Body(t, table) = Contents(t)
      <3>1. t \in {"String", "Type", "Constant", "Debug"}
        BY DEF Managers
      <3>2. CASE t \in {"String", "Type"}
        BY <3>2 DEF Body, Contents
      <3>3. CASE t = "Constant"
        BY <2>3, <3>3 DEF Body, Contents, BitsBody, Each
      <3>4. CASE t = "Debug"
        BY <2>3, <3>4 DEF Body, Contents, DebugBody, LocRow, Each
      <3> QED BY <3>1, <3>2, <3>3, <3>4
    <2>5. ASSUME NEW n \in DOMAIN file, file[n] # EndMarker, file[n].id \in Managers
          PROVE  file[n].body = Contents(file[n].id)
      <3>1. PICK t \in Managers : t = file[n].id
        BY <2>5
      <3>2. file[n].body = Body(t, table)
        BY <2>1, <2>2, <2>5, <3>1 DEF WriterInv, BodiesOK
      <3> QED BY <2>4, <3>1, <3>2
    <2>6. ASSUME Complete, NEW t \in Managers, table[t] # <<>>
          PROVE  \E n \in DOMAIN file : file[n].id = t
      <3>1. t \in Sections /\ Expected(t)
        BY <2>6 DEF Sections, Managers, Expected
      <3>2. HasSection(t)
        BY <2>1, <2>6, <3>1 DEF WriterInv, SectionsOK, Done
      <3> QED BY <2>2, <3>2 DEF HasSection
    <2> QED BY <2>5, <2>6 DEF TablesComplete
  <1> QED BY <1>1, FileInvIsKept, PTL

(* readBytecode takes no part of a file for a module, no file whose writing*)
(* failed and none with bytes behind its end marker.                       *)
THEOREM PartsAreRejected == Spec => []PartialRejected
  <1>1. ASSUME FileInv PROVE PartialRejected
    BY <1>1 DEF FileInv, ReaderInv, ReaderSteps, PartialRejected
  <1> QED BY <1>1, FileInvIsKept, PTL

(* readBytecode takes every file that was written whole, from any position *)
(* of the stream that is a multiple of eight.                              *)
THEOREM WholeFilesAreAccepted == Spec => []CompleteAccepted
  <1>1. ASSUME FileInv PROVE CompleteAccepted
    BY <1>1 DEF FileInv, ReaderInv, Sound, CompleteAccepted
  <1> QED BY <1>1, FileInvIsKept, PTL

(* The module that readBytecode returns is the one that writeBytecode got: *)
(* every index of every section stands for the same entry on both sides.   *)
THEOREM ModulesSurvive == Spec => []RoundTrip
  <1>1. ASSUME FileInv PROVE RoundTrip
    BY <1>1 DEF FileInv, BuiltInv, RoundTrip
  <1> QED BY <1>1, FileInvIsKept, PTL

(* getBytecodeSize returns the length of the file, whatever follows it in  *)
(* the buffer.                                                             *)
THEOREM SizesAreFound == Spec => []SizeIsFound
  <1>1. ASSUME FileInv PROVE SizeIsFound
    BY <1>1 DEF FileInv, ReaderInv, Sound, SizeIsFound
  <1> QED BY <1>1, FileInvIsKept, PTL
=============================================================================
