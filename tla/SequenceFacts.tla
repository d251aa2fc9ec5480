---------------------------- MODULE SequenceFacts ----------------------------
(***************************************************************************)
(* Facts on sequences for the proofs about the modules: those used as      *)
(* stacks by the modules that model recursion by a stack of calls or of    *)
(* open blocks, induction and folds for those that model a loop by a fold, *)
(* and for those that read and write lists what joins sequences, what one  *)
(* starts with and what is kept of one.                                    *)
(***************************************************************************)
EXTENDS Selection, SequencesExt, SequenceTheorems, WellFoundedInduction, TLAPS

(* Pushing an element keeps the others and puts it on top.                 *)
LEMMA AppendFacts ==
    ASSUME NEW S, NEW s \in Seq(S), NEW e \in S
    PROVE  /\ Append(s, e) \in Seq(S)
           /\ Len(Append(s, e)) = Len(s) + 1
           /\ \A n \in 1..Len(s) : Append(s, e)[n] = s[n]
           /\ Append(s, e)[Len(s) + 1] = e
  OBVIOUS

(* Popping keeps the others.                                               *)
LEMMA PopFacts ==
    ASSUME NEW S, NEW s \in Seq(S), s # <<>>
    PROVE  /\ SubSeq(s, 1, Len(s) - 1) \in Seq(S)
           /\ Len(SubSeq(s, 1, Len(s) - 1)) = Len(s) - 1
           /\ \A n \in 1..Len(s) - 1 : SubSeq(s, 1, Len(s) - 1)[n] = s[n]
  <1>1. /\ Len(s) \in Nat \ {0}
        /\ \A n \in 1..Len(s) : s[n] \in S
    BY EmptySeq, LenProperties
  <1>2. \A n \in 1..(Len(s) - 1) : s[n] \in S
    BY <1>1
  <1> DEFINE l == Len(s) - 1
  <1>3. l \in Nat /\ l \in Int /\ 1 \in Int /\ \A n \in 1..l : s[n] \in S
    BY <1>1, <1>2
  <1> HIDE DEF l
  <1>4. /\ SubSeq(s, 1, l) \in Seq(S)
        /\ Len(SubSeq(s, 1, l)) = IF 1 <= l THEN l - 1 + 1 ELSE 0
        /\ \A n \in 1..(l - 1 + 1) : SubSeq(s, 1, l)[n] = s[1 + n - 1]
    BY <1>3, SubSeqProperties
  <1>5. /\ (IF 1 <= l THEN l - 1 + 1 ELSE 0) = l
        /\ l - 1 + 1 = l
        /\ \A n \in 1..l : 1 + n - 1 = n
    BY <1>3
  <1>6. /\ SubSeq(s, 1, l) \in Seq(S)
        /\ Len(SubSeq(s, 1, l)) = l
        /\ \A n \in 1..l : SubSeq(s, 1, l)[n] = s[n]
    BY <1>3, <1>4, <1>5
  <1> QED BY <1>6 DEF l

(* Changing the top element keeps the others.                              *)
LEMMA ReplaceTopFacts ==
    ASSUME NEW S, NEW s \in Seq(S), s # <<>>, NEW e \in S
    PROVE  LET t == [s EXCEPT ![Len(s)] = e] IN
           /\ t \in Seq(S)
           /\ Len(t) = Len(s)
           /\ \A n \in 1..Len(s) : n # Len(s) => t[n] = s[n]
           /\ t[Len(s)] = e
  <1>1. Len(s) \in 1..Len(s)
    BY EmptySeq, LenProperties
  <1> QED BY <1>1, ExceptSeq

(* The elements of a stack, and its length.                                *)
LEMMA StackElements ==
    ASSUME NEW S, NEW s \in Seq(S)
    PROVE  /\ Len(s) \in Nat
           /\ \A n \in 1..Len(s) : s[n] \in S
           /\ s # <<>> => Len(s) \in Nat \ {0} /\ Len(s) \in 1..Len(s)
           /\ s = <<>> <=> Len(s) = 0
  BY EmptySeq, LenProperties, ElementOfSeq

-----------------------------------------------------------------------------
(* Induction, with a set for the formula: the theorems of the library have *)
(* the formula as an operator, which no prover here can instantiate.       *)
LEMMA LeastElement ==
    ASSUME NEW S, S \subseteq Nat, S # {}
    PROVE  \E n \in S : \A m \in S : n <= m
  <1> DEFINE R == {p \in Nat \X Nat : p[1] < p[2]}
  <1>1. IsWellFoundedOn(R, Nat)
    BY NatLessThanWellFounded DEF OpToRel
  <1>2. PICK r : r = R /\ IsWellFoundedOn(r, Nat)
    BY <1>1
  <1>3. \E x \in S : \A y \in S : ~ (<<y, x>> \in r)
    <2> HIDE DEF R
    <2> QED BY <1>2, WFMin
  <1>4. \A x, y \in Nat : <<y, x>> \in r <=> y < x
    BY <1>2
  <1>5. \A x, y \in Nat : ~(y < x) => x <= y
    OBVIOUS
  <1> QED BY <1>3, <1>4, <1>5

LEMMA InductionOn ==
    ASSUME NEW S, 0 \in S, \A n \in Nat : n \in S => n + 1 \in S
    PROVE  Nat \subseteq S
  <1> SUFFICES ASSUME ~(Nat \subseteq S) PROVE FALSE
    OBVIOUS
  <1>1. PICK b : b = Nat \ S
    OBVIOUS
  <1>2. b \subseteq Nat /\ b # {}
    BY <1>1
  <1>3. PICK n \in b : \A m \in b : n <= m
    BY <1>2, LeastElement
  <1>4. n # 0 /\ n \in Nat /\ n - 1 \in Nat /\ n - 1 \notin b
    BY <1>1, <1>3
  <1> QED BY <1>1, <1>3, <1>4

(* The greatest number of a set, as the folds of the library take it.      *)
Greatest(S) == CHOOSE x \in S : \A y \in S : x >= y

LEMMA GreatestIs ==
    ASSUME NEW n \in Nat, NEW S, n \in S, S \subseteq 1..n
    PROVE  Greatest(S) = n
  <1>1. \A x \in S : (\A y \in S : x >= y) => x = n
    OBVIOUS
  <1>2. \A y \in S : n >= y
    OBVIOUS
  <1> QED BY <1>1, <1>2 DEF Greatest

LEMMA GreatestIn ==
    ASSUME NEW N \in Nat, NEW S, S \subseteq 1..N, S # {}
    PROVE  Greatest(S) \in S
  <1>1. PICK B : B = {n \in Nat : \E x \in S : n = N - x}
    OBVIOUS
  <1>2. B \subseteq Nat /\ B # {}
    <2>1. PICK x \in S : x \in 1..N
      OBVIOUS
    <2>2. N - x \in B
      BY <1>1, <2>1
    <2> QED BY <1>1, <2>2
  <1>3. PICK b \in B : \A c \in B : b <= c
    BY <1>2, LeastElement
  <1>4. PICK x \in S : b = N - x
    BY <1>1
  <1>5. ASSUME NEW y \in S PROVE x >= y
    <2>1. N - y \in B
      BY <1>1
    <2>2. b <= N - y
      BY <1>3, <2>1
    <2> QED BY <1>4, <2>2
  <1> QED BY <1>5 DEF Greatest

(* A fold from the left has a value, whatever the step: the function that  *)
(* its definition chooses exists.                                          *)
FoldsTo(f, k, V, base, step) ==
    /\ f \in [SUBSET (1..k) -> V]
    /\ \A s \in SUBSET (1..k) :
          f[s] = IF s = {} THEN base ELSE step[<<Greatest(s), f[s \ {Greatest(s)}]>>]

LEMMA FoldMore ==
    ASSUME NEW N \in Nat, NEW V, NEW base \in V, NEW step \in [(1..N) \X V -> V],
           NEW k \in Nat, k + 1 <= N, NEW f, FoldsTo(f, k, V, base, step)
    PROVE  \E g : FoldsTo(g, k + 1, V, base, step)
  <1> DEFINE g == [s \in SUBSET (1..k + 1) |->
                      IF k + 1 \in s THEN step[<<k + 1, f[s \ {k + 1}]>>] ELSE f[s]]
  <1>1. /\ f \in [SUBSET (1..k) -> V]
        /\ \A s \in SUBSET (1..k) :
              f[s] = IF s = {} THEN base ELSE step[<<Greatest(s), f[s \ {Greatest(s)}]>>]
    BY DEF FoldsTo
  <1>2. \A s \in SUBSET (1..k + 1) :
             /\ k + 1 \in s => s \ {k + 1} \in SUBSET (1..k) /\ Greatest(s) = k + 1
             /\ k + 1 \notin s => s \in SUBSET (1..k)
    <2> SUFFICES ASSUME NEW s \in SUBSET (1..k + 1)
                 PROVE  /\ k + 1 \in s => s \ {k + 1} \in SUBSET (1..k) /\ Greatest(s) = k + 1
                        /\ k + 1 \notin s => s \in SUBSET (1..k)
      OBVIOUS
    <2>1. PICK n \in Nat : n = k + 1
      OBVIOUS
    <2>2. n \in s => Greatest(s) = n
      BY <2>1, GreatestIs
    <2> QED BY <2>1, <2>2
  <1>3. k + 1 \in 1..N
    OBVIOUS
  <1>4. \A s \in SUBSET (1..k + 1) : g[s] \in V
    BY <1>1, <1>2, <1>3
  <1>5. \A s \in SUBSET (1..k) : s \in SUBSET (1..k + 1) /\ k + 1 \notin s /\ g[s] = f[s]
    OBVIOUS
  <1>6. ASSUME NEW s \in SUBSET (1..k + 1)
        PROVE  g[s] = IF s = {} THEN base ELSE step[<<Greatest(s), g[s \ {Greatest(s)}]>>]
    <2>1. CASE k + 1 \in s
      <3>1. g[s] = step[<<k + 1, f[s \ {k + 1}]>>] /\ s # {}
        BY <2>1
      <3>2. g[s \ {k + 1}] = f[s \ {k + 1}] /\ Greatest(s) = k + 1
        BY <1>2, <1>5, <2>1
      <3> HIDE DEF g
      <3> QED BY <3>1, <3>2
    <2>2. CASE k + 1 \notin s
      <3>1. s \in SUBSET (1..k) /\ g[s] = f[s]
        BY <1>2, <2>2
      <3>2. CASE s = {}
        BY <1>1, <3>1, <3>2
      <3>3. CASE s # {}
        <4>1. f[s] = step[<<Greatest(s), f[s \ {Greatest(s)}]>>]
          BY <1>1, <3>1, <3>3
        <4>2. s \ {Greatest(s)} \in SUBSET (1..k)
          BY <3>1
        <4>3. g[s \ {Greatest(s)}] = f[s \ {Greatest(s)}]
          BY <1>5, <4>2
        <4> HIDE DEF g
        <4> QED BY <3>1, <3>3, <4>1, <4>3
      <3> QED BY <3>2, <3>3
    <2> QED BY <2>1, <2>2
  <1>7. g \in [SUBSET (1..k + 1) -> V]
    BY <1>4
  <1> HIDE DEF g
  <1> QED BY <1>6, <1>7 DEF FoldsTo

LEMMA FoldExists ==
    ASSUME NEW N \in Nat, NEW V, NEW base \in V, NEW step \in [(1..N) \X V -> V]
    PROVE  \E f : FoldsTo(f, N, V, base, step)
  <1> DEFINE S == {k \in Nat : k <= N => \E f : FoldsTo(f, k, V, base, step)}
  <1>1. \E f : FoldsTo(f, 0, V, base, step)
    <2> DEFINE f == [s \in SUBSET (1..0) |-> base]
    <2>1. /\ f \in [SUBSET (1..0) -> V]
          /\ \A s \in SUBSET (1..0) : s = {} /\ f[s] = base
      OBVIOUS
    <2> HIDE DEF f
    <2>2. FoldsTo(f, 0, V, base, step)
      BY <2>1 DEF FoldsTo
    <2> QED BY <2>2
  <1>2. \A k \in Nat : k + 1 <= N /\ (\E f : FoldsTo(f, k, V, base, step))
                          => \E f : FoldsTo(f, k + 1, V, base, step)
    BY FoldMore
  <1>3. \A k \in Nat : k \in S <=> (k <= N => \E f : FoldsTo(f, k, V, base, step))
    OBVIOUS
  <1> HIDE DEF S
  <1>4. 0 \in S /\ \A k \in Nat : k \in S => k + 1 \in S
    BY <1>1, <1>2, <1>3
  <1>5. Nat \subseteq S
    BY <1>4, InductionOn
  <1> QED BY <1>3, <1>5

(* A recursive function on the naturals, one value after the other.        *)
Unfolds(g, n, V, base, step) ==
    /\ g \in [0..n -> V] /\ g[0] = base
    /\ \A k \in 0..n - 1 : g[k + 1] = step[g[k]]

LEMMA UnfoldMore ==
    ASSUME NEW V, NEW base, NEW step \in [V -> V], NEW n \in Nat,
           NEW g, Unfolds(g, n, V, base, step)
    PROVE  \E h : Unfolds(h, n + 1, V, base, step)
  <1> DEFINE h == [k \in 0..n + 1 |-> IF k = n + 1 THEN step[g[n]] ELSE g[k]]
  <1>1. /\ g \in [0..n -> V] /\ g[0] = base
        /\ \A k \in 0..n - 1 : g[k + 1] = step[g[k]]
    BY DEF Unfolds
  <1>2. \A k \in 0..n + 1 : k = n + 1 \/ k \in 0..n
    OBVIOUS
  <1>3. h \in [0..n + 1 -> V]
    BY <1>1, <1>2
  <1>4. h[n + 1] = step[g[n]] /\ \A k \in 0..n : h[k] = g[k]
    OBVIOUS
  <1> HIDE DEF h
  <1>5. \A k \in 0..n : k = n \/ (k \in 0..n - 1 /\ k + 1 \in 0..n)
    OBVIOUS
  <1>6. \A k \in 0..n : h[k + 1] = step[h[k]]
    BY <1>1, <1>4, <1>5
  <1>7. n + 1 - 1 = n /\ 0 \in 0..n
    OBVIOUS
  <1>8. Unfolds(h, n + 1, V, base, step)
    BY <1>1, <1>3, <1>4, <1>6, <1>7 DEF Unfolds
  <1> QED BY <1>8

LEMMA UnfoldsAlike ==
    ASSUME NEW V, NEW base, NEW step, NEW n \in Nat, NEW g, Unfolds(g, n, V, base, step),
           NEW m \in Nat, NEW h, Unfolds(h, m, V, base, step)
    PROVE  \A k \in Nat : k <= n /\ k <= m => g[k] = h[k]
  <1> DEFINE Alike(k) == g[k] = h[k]
             S == {k \in Nat : k <= n /\ k <= m => Alike(k)}
  <1> HIDE DEF Alike
  <1>1. \A k \in Nat : k \in S <=> (k <= n /\ k <= m => Alike(k))
    OBVIOUS
  <1> HIDE DEF S
  <1>2. 0 \in S
    BY <1>1 DEF Unfolds, Alike
  <1>3. ASSUME NEW k \in Nat, k \in S PROVE k + 1 \in S
    <2> SUFFICES ASSUME k + 1 <= n, k + 1 <= m PROVE Alike(k + 1)
      BY <1>1
    <2>1. k \in 0..n - 1 /\ k \in 0..m - 1 /\ k <= n /\ k <= m
      OBVIOUS
    <2>2. g[k] = h[k]
      BY <1>1, <1>3, <2>1 DEF Alike
    <2> QED BY <2>1, <2>2 DEF Unfolds, Alike
  <1>4. Nat \subseteq S
    BY <1>2, <1>3, InductionOn
  <1> QED BY <1>1, <1>4 DEF Alike

LEMMA RecursionExists ==
    ASSUME NEW V, NEW base \in V, NEW step \in [V -> V]
    PROVE  \E f \in [Nat -> V] : f[0] = base /\ \A n \in Nat : f[n + 1] = step[f[n]]
  <1> DEFINE Some(n) == \E g : Unfolds(g, n, V, base, step)
             S == {n \in Nat : Some(n)}
  <1> HIDE DEF Some
  <1>1. \A n \in Nat : n \in S <=> Some(n)
    OBVIOUS
  <1> HIDE DEF S
  <1>2. Some(0)
    <2> DEFINE g == [k \in 0..0 |-> base]
    <2>1. g \in [0..0 -> V] /\ g[0] = base /\ 0..0 - 1 = {}
      OBVIOUS
    <2> HIDE DEF g
    <2>2. Unfolds(g, 0, V, base, step)
      BY <2>1 DEF Unfolds
    <2> QED BY <2>2 DEF Some
  <1>3. \A n \in Nat : Some(n) => Some(n + 1)
    BY UnfoldMore DEF Some
  <1>4. \A n \in Nat : Some(n)
    BY <1>1, <1>2, <1>3, InductionOn
  <1> DEFINE f == [n \in Nat |-> (CHOOSE g : Unfolds(g, n, V, base, step))[n]]
  <1>5. \A n \in Nat : \E g : Unfolds(g, n, V, base, step) /\ f[n] = g[n]
    <2> SUFFICES ASSUME NEW n \in Nat
                 PROVE  \E g : Unfolds(g, n, V, base, step) /\ f[n] = g[n]
      OBVIOUS
    <2>1. PICK g : g = CHOOSE h : Unfolds(h, n, V, base, step)
      OBVIOUS
    <2>2. \E h : Unfolds(h, n, V, base, step)
      BY <1>4 DEF Some
    <2>3. Unfolds(g, n, V, base, step)
      BY <2>1, <2>2, Zenon
    <2>4. f[n] = g[n]
      BY <2>1
    <2> QED BY <2>3, <2>4
  <1>a. f = [n \in Nat |-> f[n]]
    OBVIOUS
  <1> HIDE DEF f
  <1>6. ASSUME NEW n \in Nat PROVE f[n] \in V
    <2>1. PICK g : Unfolds(g, n, V, base, step) /\ f[n] = g[n]
      BY <1>5
    <2> QED BY <2>1 DEF Unfolds
  <1>7. f[0] = base
    <2>1. PICK g : Unfolds(g, 0, V, base, step) /\ f[0] = g[0]
      BY <1>5
    <2> QED BY <2>1 DEF Unfolds
  <1>8. ASSUME NEW n \in Nat PROVE f[n + 1] = step[f[n]]
    <2>1. PICK g : Unfolds(g, n, V, base, step) /\ f[n] = g[n]
      BY <1>5
    <2>2. PICK m \in Nat : m = n + 1
      OBVIOUS
    <2>3. PICK h : Unfolds(h, m, V, base, step) /\ f[m] = h[m]
      BY <1>5
    <2>4. g[n] = h[n]
      <3>1. Unfolds(g, n, V, base, step) /\ Unfolds(h, m, V, base, step)
        BY <2>1, <2>3
      <3>a. \A k \in Nat : k <= n /\ k <= m => g[k] = h[k]
        BY <3>1, UnfoldsAlike
      <3>2. n <= n /\ n <= m
        BY <2>2
      <3> QED BY <3>a, <3>2
    <2>5. h[n + 1] = step[h[n]]
      BY <2>2, <2>3 DEF Unfolds
    <2> QED BY <2>1, <2>2, <2>3, <2>4, <2>5
  <1>9. f \in [Nat -> V]
    BY <1>a, <1>6
  <1> QED BY <1>7, <1>8, <1>9

-----------------------------------------------------------------------------
IsSeq(s) == \E S : s \in Seq(S)

LEMMA SeqIs ==
    ASSUME NEW s, IsSeq(s)
    PROVE  /\ Len(s) \in Nat /\ DOMAIN s = 1..Len(s) /\ s \in Seq(ToSet(s))
           /\ \A n \in 1..Len(s) : s[n] \in ToSet(s)
  <1>1. PICK S : s \in Seq(S)
    BY DEF IsSeq
  <1>2. Len(s) \in Nat /\ DOMAIN s = 1..Len(s)
    BY <1>1, LenProperties
  <1>3. \A n \in 1..Len(s) : s[n] \in ToSet(s)
    BY <1>2 DEF ToSet
  <1>4. s = [n \in 1..Len(s) |-> s[n]]
    BY <1>1, <1>2, LenProperties
  <1>5. s \in [1..Len(s) -> ToSet(s)]
    BY <1>3, <1>4
  <1> QED BY <1>2, <1>3, <1>5, SeqDef

LEMMA WiderSeq ==
    ASSUME NEW S, NEW T, S \subseteq T, NEW s \in Seq(S)
    PROVE  s \in Seq(T)
  OBVIOUS

LEMMA ConsFacts ==
    ASSUME NEW a, NEW more, IsSeq(more)
    PROVE  /\ IsSeq(<<a>> \o more) /\ <<a>> \o more # <<>>
           /\ Head(<<a>> \o more) = a /\ Tail(<<a>> \o more) = more
           /\ Len(<<a>> \o more) = Len(more) + 1
  <1>1. PICK S : more \in Seq(S)
    BY DEF IsSeq
  <1>2. PICK T : T = S \cup {a}
    OBVIOUS
  <1>3. more \in Seq(T) /\ <<a>> \in Seq(T) /\ a \in T
    BY <1>1, <1>2, WiderSeq
  <1>4. PICK s \in Seq(T) : s = <<a>> \o more
    BY <1>3, ConcatProperties
  <1>5. Len(s) = Len(more) + 1 /\ Len(more) \in Nat
    BY <1>3, <1>4
  <1>a. s[1] = a
    BY <1>3, <1>4, <1>5
  <1>6. s # <<>> /\ Head(s) = a
    BY <1>4, <1>5, <1>a
  <1>7. Tail(s) = more
    BY <1>3, <1>4
  <1> QED BY <1>4, <1>5, <1>6, <1>7 DEF IsSeq

LEMMA JoinFacts ==
    ASSUME NEW a, IsSeq(a), NEW b, IsSeq(b)
    PROVE  /\ IsSeq(a \o b) /\ <<>> \o a = a /\ a \o <<>> = a
           /\ Len(a \o b) = Len(a) + Len(b)
           /\ \A n \in 1..Len(a) : (a \o b)[n] = a[n]
           /\ \A n \in 1..Len(b) : (a \o b)[Len(a) + n] = b[n]
  <1>1. PICK S : a \in Seq(S)
    BY DEF IsSeq
  <1>2. PICK R : b \in Seq(R)
    BY DEF IsSeq
  <1>3. PICK T : T = S \cup R
    OBVIOUS
  <1>4. a \in Seq(T) /\ b \in Seq(T)
    BY <1>1, <1>2, <1>3, WiderSeq
  <1>5. a \o b \in Seq(T) /\ Len(a \o b) = Len(a) + Len(b) /\ Len(a) \in Nat /\ Len(b) \in Nat
    BY <1>4
  <1>6. \A n \in 1..Len(a) + Len(b) : (a \o b)[n] = IF n <= Len(a) THEN a[n] ELSE b[n - Len(a)]
    BY <1>4
  <1>7. \A n \in 1..Len(b) : Len(a) + n \in 1..Len(a) + Len(b) /\ ~(Len(a) + n <= Len(a))
                             /\ Len(a) + n - Len(a) = n
    BY <1>5
  <1>8. \A n \in 1..Len(a) : n \in 1..Len(a) + Len(b) /\ n <= Len(a)
    BY <1>5
  <1>9. <<>> \o a = a /\ a \o <<>> = a
    BY <1>4, ConcatEmptySeq
  <1> QED BY <1>5, <1>6, <1>7, <1>8, <1>9 DEF IsSeq

LEMMA JoinAssociative ==
    ASSUME NEW a, IsSeq(a), NEW b, IsSeq(b), NEW c, IsSeq(c)
    PROVE  (a \o b) \o c = a \o (b \o c)
  <1>1. PICK S : a \in Seq(S)
    BY DEF IsSeq
  <1>2. PICK R : b \in Seq(R)
    BY DEF IsSeq
  <1>3. PICK Q : c \in Seq(Q)
    BY DEF IsSeq
  <1>4. PICK T : T = S \cup R \cup Q
    OBVIOUS
  <1>5. a \in Seq(T) /\ b \in Seq(T) /\ c \in Seq(T)
    BY <1>1, <1>2, <1>3, <1>4, WiderSeq
  <1> QED BY <1>5, ConcatAssociative

(* Two computations that do the same from the same on come to the same.    *)
Agreeing(f, t, N) ==
    /\ N \in Nat /\ f[0] = t[0]
    /\ \A n \in 1..N : f[n - 1] = t[n - 1] => f[n] = t[n]

SameTo(f, t, N) == \A n \in 0..N : f[n] = t[n]

LEMMA StepByStep ==
    ASSUME NEW N, NEW f, NEW t, Agreeing(f, t, N)
    PROVE  SameTo(f, t, N)
  <1>0. N \in Nat /\ f[0] = t[0] /\ \A n \in 1..N : f[n - 1] = t[n - 1] => f[n] = t[n]
    BY DEF Agreeing
  <1> DEFINE Same(n) == f[n] = t[n]
             Reached == {n \in Nat : n <= N => Same(n)}
  <1>1. Same(0)
    BY <1>0
  <1>2. ASSUME NEW n \in Nat, n + 1 <= N, Same(n) PROVE Same(n + 1)
    <2>1. PICK m \in 1..N : m = n + 1 /\ m - 1 = n
      BY <1>0, <1>2
    <2> QED BY <1>0, <1>2, <2>1
  <1> HIDE DEF Same
  <1>3. \A n \in Nat : n \in Reached <=> (n <= N => Same(n))
    OBVIOUS
  <1> HIDE DEF Reached
  <1>4. 0 <= N /\ \A n \in Nat : n + 1 <= N => n <= N
    BY <1>0
  <1>5. 0 \in Reached /\ \A n \in Nat : n \in Reached => n + 1 \in Reached
    BY <1>1, <1>2, <1>3, <1>4
  <1>6. Nat \subseteq Reached
    BY <1>5, InductionOn
  <1>7. \A n \in 0..N : n \in Nat /\ n <= N
    BY <1>0
  <1>8. \A n \in 0..N : f[n] = t[n]
    BY <1>3, <1>6, <1>7 DEF Same
  <1> QED BY <1>8 DEF SameTo

(* A property that one step hands on to the next.                          *)
LEMMA HandedOn ==
    ASSUME NEW N \in Nat, NEW Good, 0 \in Good, \A n \in 1..N : n - 1 \in Good => n \in Good
    PROVE  \A n \in 0..N : n \in Good
  <1> DEFINE Reached == {n \in Nat : n <= N => n \in Good}
  <1>1. ASSUME NEW n \in Nat, n \in Reached PROVE n + 1 \in Reached
    <2>1. CASE n + 1 <= N
      <3>1. PICK m \in 1..N : m = n + 1 /\ m - 1 = n
        BY <2>1
      <3> QED BY <1>1, <2>1, <3>1
    <2> QED BY <2>1
  <1>2. 0 \in Reached
    OBVIOUS
  <1>3. Nat \subseteq Reached
    BY <1>1, <1>2, InductionOn
  <1> QED BY <1>3

(* A loop that takes the numbers from 1 to N in turn has a run.            *)
LoopOf(N, V, base, step) == N \in Nat /\ base \in V /\ step \in [(1..N) \X V -> V]

LoopRuns(t, N, V, base, step) ==
    t \in [0..N -> V] /\ t[0] = base /\ \A n \in 1..N : t[n] = step[<<n, t[n - 1]>>]

LEMMA LoopExists ==
    ASSUME NEW N, NEW V, NEW base, NEW step, LoopOf(N, V, base, step)
    PROVE  \E t : LoopRuns(t, N, V, base, step)
  <1>0. N \in Nat /\ base \in V /\ step \in [(1..N) \X V -> V]
    BY DEF LoopOf
  <1>1. PICK f : FoldsTo(f, N, V, base, step)
    BY <1>0, FoldExists
  <1>2. /\ f \in [SUBSET (1..N) -> V]
        /\ \A s \in SUBSET (1..N) :
              f[s] = IF s = {} THEN base ELSE step[<<Greatest(s), f[s \ {Greatest(s)}]>>]
    BY <1>1 DEF FoldsTo
  <1>3. PICK t : t = [n \in 0..N |-> f[1..n]]
    OBVIOUS
  <1>4. \A n \in 0..N : t[n] = f[1..n] /\ 1..n \in SUBSET (1..N)
    BY <1>0, <1>3
  <1>5. t \in [0..N -> V]
    <2>1. \A n \in 0..N : f[1..n] \in V
      BY <1>2, <1>4
    <2> QED BY <1>3, <2>1
  <1>6. t[0] = base
    <2>1. 1..0 = {} /\ 0 \in 0..N
      BY <1>0
    <2> QED BY <1>0, <1>2, <1>4, <2>1
  <1>7. ASSUME NEW n \in 1..N PROVE t[n] = step[<<n, t[n - 1]>>]
    <2>1. n \in Nat /\ n \in 1..n /\ 1..n \subseteq 1..n
      BY <1>0
    <2>2. Greatest(1..n) = n
      BY <2>1, GreatestIs
    <2>a. \A m : m \in (1..n) \ {n} <=> m \in 1..n - 1
      BY <1>0
    <2>b. (1..n) \ {n} = 1..n - 1
      BY <1>0, <2>a
    <2>c. n \in 0..N /\ n - 1 \in 0..N
      BY <1>0
    <2>3. (1..n) \ {n} = 1..n - 1 /\ 1..n # {} /\ n \in 0..N /\ n - 1 \in 0..N
      BY <2>b, <2>1, <2>c
    <2>4. f[1..n] = step[<<n, f[1..n - 1]>>]
      BY <1>2, <1>4, <2>2, <2>3
    <2> QED BY <1>4, <2>3, <2>4
  <1>8. LoopRuns(t, N, V, base, step)
    BY <1>5, <1>6, <1>7 DEF LoopRuns
  <1> QED BY <1>8

(* What a loop over a sequence keeps, element by element.                  *)
Keeps(t, s, S) ==
    /\ t \in [0..Len(s) -> Seq(ToSet(s))]
    /\ t[0] = <<>> /\ t[Len(s)] = Kept(s, S)
    /\ \A n \in 1..Len(s) : t[n] = IF s[n] \in S THEN Append(t[n - 1], s[n]) ELSE t[n - 1]

LEMMA KeptIs ==
    ASSUME NEW s, NEW S
    PROVE  Kept(s, S) =
              (CHOOSE f : f = [n \in 0..Len(s) |->
                    IF n = 0 THEN <<>>
                    ELSE IF s[n] \in S THEN Append(f[n - 1], s[n]) ELSE f[n - 1]])[Len(s)]
  BY Zenon DEF Kept

LEMMA KeptRuns ==
    ASSUME NEW s, IsSeq(s), NEW S
    PROVE  \E t : Keeps(t, s, S)
  <1>1. PICK N \in Nat : N = Len(s)
    BY SeqIs
  <1>2. PICK E : E = ToSet(s)
    OBVIOUS
  <1>3. \A n \in 1..N : s[n] \in E
    BY <1>1, <1>2, SeqIs
  <1>4. PICK step : step = [p \in (1..N) \X Seq(E) |->
                                IF s[p[1]] \in S THEN Append(p[2], s[p[1]]) ELSE p[2]]
    OBVIOUS
  <1>5. \A n \in 1..N : \A t \in Seq(E) :
            step[<<n, t>>] = IF s[n] \in S THEN Append(t, s[n]) ELSE t
    BY <1>4
  <1>6. \A n \in 1..N : \A t \in Seq(E) : Append(t, s[n]) \in Seq(E)
    BY <1>3, AppendProperties
  <1>7. step \in [(1..N) \X Seq(E) -> Seq(E)]
    <2>1. ASSUME NEW p \in (1..N) \X Seq(E)
          PROVE  (IF s[p[1]] \in S THEN Append(p[2], s[p[1]]) ELSE p[2]) \in Seq(E)
      <3>1. p[1] \in 1..N /\ p[2] \in Seq(E)
        OBVIOUS
      <3> QED BY <1>6, <3>1
    <2> QED BY <1>4, <2>1
  <1>8. PICK none \in Seq(E) : none = <<>>
    BY EmptySeq
  <1>9. PICK t \in [0..N -> Seq(E)] :
            t[0] = none /\ \A n \in 1..N : t[n] = step[<<n, t[n - 1]>>]
    <2>1. LoopOf(N, Seq(E), none, step)
      BY <1>7 DEF LoopOf
    <2>2. PICK t : LoopRuns(t, N, Seq(E), none, step)
      BY <2>1, LoopExists
    <2> QED BY <2>2 DEF LoopRuns
  <1>10. \A n \in 1..N : t[n - 1] \in Seq(E) /\ n \in 0..N
    BY <1>9
  <1>11. \A n \in 1..N : t[n] = IF s[n] \in S THEN Append(t[n - 1], s[n]) ELSE t[n - 1]
    BY <1>5, <1>9, <1>10
  <1>12. t = [n \in 0..Len(s) |-> IF n = 0 THEN <<>>
                             ELSE IF s[n] \in S THEN Append(t[n - 1], s[n]) ELSE t[n - 1]]
    <2>1. t = [n \in 0..Len(s) |-> t[n]]
      BY <1>1, <1>9
    <2>2. \A n \in 0..Len(s) : n = 0 \/ n \in 1..N
      BY <1>1
    <2>3. \A n \in 0..Len(s) : t[n] = IF n = 0 THEN <<>>
                             ELSE IF s[n] \in S THEN Append(t[n - 1], s[n]) ELSE t[n - 1]
      BY <1>8, <1>9, <1>11, <2>2
    <2> QED BY <2>1, <2>3
  <1>13. PICK f : /\ f = [n \in 0..N |-> IF n = 0 THEN <<>>
                             ELSE IF s[n] \in S THEN Append(f[n - 1], s[n]) ELSE f[n - 1]]
                  /\ Kept(s, S) = f[N]
    <2>1. PICK f : f = CHOOSE h : h = [n \in 0..Len(s) |-> IF n = 0 THEN <<>>
                             ELSE IF s[n] \in S THEN Append(h[n - 1], s[n]) ELSE h[n - 1]]
      OBVIOUS
    <2>2. \E h : h = [n \in 0..Len(s) |-> IF n = 0 THEN <<>>
                             ELSE IF s[n] \in S THEN Append(h[n - 1], s[n]) ELSE h[n - 1]]
      BY <1>12, Zenon
    <2>3. f = [n \in 0..Len(s) |-> IF n = 0 THEN <<>>
                             ELSE IF s[n] \in S THEN Append(f[n - 1], s[n]) ELSE f[n - 1]]
      BY <2>1, <2>2, Zenon
    <2>4. Kept(s, S) = (CHOOSE h : h = [n \in 0..Len(s) |-> IF n = 0 THEN <<>>
                             ELSE IF s[n] \in S THEN Append(h[n - 1], s[n]) ELSE h[n - 1]])[Len(s)]
      BY KeptIs, Zenon
    <2>5. Kept(s, S) = f[N]
      BY <1>1, <2>1, <2>4, Zenon
    <2>6. f = [n \in 0..N |-> IF n = 0 THEN <<>>
                             ELSE IF s[n] \in S THEN Append(f[n - 1], s[n]) ELSE f[n - 1]]
      BY <1>1, <2>3
    <2> QED BY <2>5, <2>6, Zenon
  <1>14. ASSUME NEW n \in 1..N, f[n - 1] = t[n - 1] PROVE f[n] = t[n]
    <2>1. n \in 0..N /\ n # 0
      OBVIOUS
    <2>2. f[n] = IF s[n] \in S THEN Append(f[n - 1], s[n]) ELSE f[n - 1]
      BY <1>13, <2>1
    <2> QED BY <1>11, <1>14, <2>2
  <1>15. f[0] = t[0]
    BY <1>8, <1>9, <1>13
  <1>16. \A n \in 0..N : f[n] = t[n]
    <2>1. Agreeing(f, t, N)
      BY <1>14, <1>15 DEF Agreeing
    <2>2. SameTo(f, t, N)
      BY <2>1, StepByStep
    <2> QED BY <2>2 DEF SameTo
  <1>17. t[N] = Kept(s, S)
    BY <1>13, <1>16
  <1>18. t[0] = <<>>
    BY <1>8, <1>9
  <1>19. Keeps(t, s, S)
    BY <1>1, <1>2, <1>9, <1>11, <1>17, <1>18, Zenon DEF Keeps
  <1> QED BY <1>19

(* How many of the first n elements are kept: the n-th, if it is, is there *)
(* at that place.                                                          *)
Counts(c, s, S) ==
    /\ c \in [0..Len(s) -> 0..Len(Kept(s, S))]
    /\ c[0] = 0 /\ c[Len(s)] = Len(Kept(s, S))
    /\ \A n \in 1..Len(s) :
        /\ s[n] \in S => c[n] = c[n - 1] + 1 /\ Kept(s, S)[c[n]] = s[n]
        /\ s[n] \notin S => c[n] = c[n - 1]
    /\ \A k \in 1..Len(Kept(s, S)) : \E n \in 1..Len(s) : s[n] \in S /\ c[n] = k

(* A sequence that another one starts with.                                *)
StartOf(u, s) == Len(u) <= Len(s) /\ \A n \in 1..Len(u) : s[n] = u[n]

LEMMA KeptStarts ==
    ASSUME NEW s, IsSeq(s), NEW S, NEW t, Keeps(t, s, S)
    PROVE  \A n \in 0..Len(s) : StartOf(t[n], Kept(s, S))
  <1>1. PICK N \in Nat : N = Len(s)
    BY SeqIs
  <1>2. PICK E : E = ToSet(s)
    OBVIOUS
  <1>3. /\ t \in [0..N -> Seq(E)] /\ t[N] = Kept(s, S)
        /\ \A n \in 1..N : t[n] = IF s[n] \in S THEN Append(t[n - 1], s[n]) ELSE t[n - 1]
        /\ \A n \in 1..N : s[n] \in E
    BY <1>1, <1>2, SeqIs DEF Keeps
  <1>4. PICK u : u = Kept(s, S)
    OBVIOUS
  <1> DEFINE Good(n) == StartOf(t[n], u)
             S0 == {n \in 0..N : Good(N - n)}
  <1>5. Good(N)
    BY <1>3, <1>4 DEF StartOf
  <1>6. ASSUME NEW n \in 1..N, Good(n) PROVE Good(n - 1)
    <2>1. PICK a \in Seq(E) : a = t[n - 1]
      BY <1>3
    <2>2. PICK e \in E : e = s[n]
      BY <1>3
    <2>3. t[n] = IF e \in S THEN Append(a, e) ELSE a
      BY <1>3, <2>1, <2>2
    <2>4. /\ Len(Append(a, e)) = Len(a) + 1 /\ Len(a) \in Nat
          /\ \A k \in 1..Len(a) : k \in 1..Len(a) + 1 /\ Append(a, e)[k] = a[k]
      BY AppendProperties, LenProperties
    <2>5. CASE e \in S
      <3>1. PICK b : b = Append(a, e)
        OBVIOUS
      <3>2. StartOf(b, u) /\ Len(b) = Len(a) + 1 /\ \A k \in 1..Len(a) : k \in 1..Len(a) + 1 /\ b[k] = a[k]
        BY <1>6, <2>3, <2>4, <2>5, <3>1
      <3>3. PICK lu : lu = Len(u)
        OBVIOUS
      <3>4. lu \in Nat
        BY <1>3, <1>4, <3>3, LenProperties
      <3>5. StartOf(a, u)
        BY <2>4, <3>2, <3>3, <3>4 DEF StartOf
      <3> QED BY <2>1, <3>5
    <2>6. CASE e \notin S
      BY <1>6, <2>1, <2>3, <2>6
    <2> QED BY <2>5, <2>6
  <1> HIDE DEF Good
  <1>7. 0 \in S0
    BY <1>5
  <1>8. ASSUME NEW n \in 1..N, n - 1 \in S0 PROVE n \in S0
    <2>1. PICK m \in 1..N : m = N - (n - 1) /\ m - 1 = N - n
      OBVIOUS
    <2>2. Good(m)
      BY <1>8, <2>1
    <2>3. Good(N - n)
      BY <1>6, <2>1, <2>2
    <2> QED BY <2>3
  <1>9. \A n \in 0..N : n \in S0
    <2> HIDE DEF S0
    <2> QED BY <1>7, <1>8, HandedOn
  <1>10. ASSUME NEW n \in 0..N PROVE Good(n)
    <2>1. PICK m \in 0..N : m = N - n /\ N - m = n
      OBVIOUS
    <2> QED BY <1>9, <2>1
  <1> QED BY <1>1, <1>4, <1>10 DEF Good

LEMMA KeptCounts ==
    ASSUME NEW s, IsSeq(s), NEW S
    PROVE  \E c : Counts(c, s, S)
  <1>1. PICK N \in Nat : N = Len(s)
    BY SeqIs
  <1>2. PICK E : E = ToSet(s)
    OBVIOUS
  <1>3. PICK t : Keeps(t, s, S)
    BY KeptRuns
  <1>4. /\ t \in [0..N -> Seq(E)] /\ t[0] = <<>> /\ t[N] = Kept(s, S)
        /\ \A n \in 1..N : t[n] = IF s[n] \in S THEN Append(t[n - 1], s[n]) ELSE t[n - 1]
        /\ \A n \in 1..N : s[n] \in E
    BY <1>1, <1>2, <1>3, SeqIs DEF Keeps
  <1>5. PICK u \in Seq(E) : u = Kept(s, S)
    BY <1>4
  <1>6. PICK L \in Nat : L = Len(u)
    BY LenProperties
  <1>7. \A n \in 0..N : Len(t[n]) \in 0..L /\ \A k \in 1..Len(t[n]) : u[k] = t[n][k]
    <2>1. \A n \in 0..N : StartOf(t[n], u)
      BY <1>1, <1>3, <1>5, KeptStarts
    <2>2. \A n \in 0..N : Len(t[n]) \in Nat
      BY <1>4, LenProperties
    <2> QED BY <1>6, <2>1, <2>2 DEF StartOf
  <1>8. PICK c : c = [n \in 0..N |-> Len(t[n])]
    OBVIOUS
  <1>9. c \in [0..N -> 0..L] /\ \A n \in 0..N : c[n] = Len(t[n])
    BY <1>7, <1>8
  <1>10. c[0] = 0 /\ c[N] = L
    BY <1>4, <1>5, <1>6, <1>9
  <1>11. ASSUME NEW n \in 1..N
         PROVE  /\ s[n] \in S => c[n] = c[n - 1] + 1 /\ u[c[n]] = s[n]
                /\ s[n] \notin S => c[n] = c[n - 1]
    <2>0. n \in 0..N /\ n - 1 \in 0..N
      OBVIOUS
    <2>1. PICK a \in Seq(E) : a = t[n - 1]
      BY <1>4, <2>0
    <2>2. PICK e \in E : e = s[n]
      BY <1>4
    <2>3. t[n] = IF e \in S THEN Append(a, e) ELSE a
      BY <1>4, <2>1, <2>2
    <2>4. PICK b : b = Append(a, e)
      OBVIOUS
    <2>5. Len(b) = Len(a) + 1 /\ Len(a) \in Nat /\ b[Len(a) + 1] = e
      BY <2>4, AppendProperties, LenProperties
    <2>6. c[n - 1] = Len(a)
      BY <1>9, <2>0, <2>1
    <2>7. CASE e \in S
      <3>1. t[n] = b /\ c[n] = Len(b)
        BY <1>9, <2>0, <2>3, <2>4, <2>7
      <3>2. Len(b) \in 1..Len(b)
        BY <2>5
      <3>3. u[Len(b)] = b[Len(b)]
        BY <1>7, <2>0, <3>1, <3>2
      <3> QED BY <2>2, <2>5, <2>6, <2>7, <3>1, <3>3
    <2>8. CASE e \notin S
      BY <1>9, <2>0, <2>1, <2>2, <2>3, <2>6, <2>8
    <2> QED BY <2>7, <2>8
  <1>12. ASSUME NEW k \in 1..L PROVE \E n \in 1..N : s[n] \in S /\ c[n] = k
    <2>1. PICK Q : Q = {n \in 0..N : c[n] >= k}
      OBVIOUS
    <2>2. Q \in SUBSET Nat /\ Q # {}
      BY <1>10, <2>1
    <2>3. PICK n \in Q : \A m \in Q : n <= m
      BY <2>2, LeastElement
    <2>4. n \in 1..N /\ n - 1 \in 0..N
      BY <1>10, <2>1, <2>3
    <2>5. n - 1 \notin Q
      BY <2>3, <2>4
    <2>6. c[n - 1] \in Nat /\ c[n - 1] < k /\ c[n] >= k /\ c[n] \in Nat
      BY <1>9, <2>1, <2>3, <2>4, <2>5
    <2>7. s[n] \in S /\ c[n] = c[n - 1] + 1
      BY <1>11, <2>4, <2>6
    <2>8. c[n] = k
      BY <2>6, <2>7
    <2> QED BY <2>4, <2>7, <2>8
  <1>13. Len(s) = N /\ Kept(s, S) = u /\ Len(u) = L
    BY <1>1, <1>5, <1>6
  <1>14. /\ c \in [0..N -> 0..L]
         /\ c[0] = 0 /\ c[N] = L
         /\ \A n \in 1..N :
              /\ s[n] \in S => c[n] = c[n - 1] + 1 /\ u[c[n]] = s[n]
              /\ s[n] \notin S => c[n] = c[n - 1]
         /\ \A k \in 1..L : \E n \in 1..N : s[n] \in S /\ c[n] = k
    BY <1>9, <1>10, <1>11, <1>12
  <1>15. Counts(c, s, S)
    BY <1>13, <1>14, Zenon DEF Counts
  <1> QED BY <1>15

(* The front of a flattened sequence, and what is behind it.               *)
Fronts(g, ss, S) ==
    /\ g \in [0..Len(ss) -> Seq(S)]
    /\ g[0] = <<>> /\ g[Len(ss)] = FlattenSeq(ss)
    /\ \A n \in 1..Len(ss) : g[n] = g[n - 1] \o ss[n]

Backs(b, ss, S) ==
    /\ b \in [0..Len(ss) -> Seq(S)]
    /\ b[Len(ss)] = <<>> /\ b[0] = FlattenSeq(ss)
    /\ \A n \in 1..Len(ss) : b[n - 1] = ss[n] \o b[n]

LEMMA FlattenIs ==
    ASSUME NEW ss, Len(ss) # 0
    PROVE  FlattenSeq(ss) =
              (CHOOSE f : f = [i \in 1..Len(ss) |->
                                  IF i = 1 THEN ss[i] ELSE f[i - 1] \o ss[i]])[Len(ss)]
  BY Zenon DEF FlattenSeq

LEMMA FrontRuns ==
    ASSUME NEW S, NEW ss, ss \in Seq(Seq(S))
    PROVE  \E g : Fronts(g, ss, S)
  <1>1. PICK N \in Nat : N = Len(ss)
    BY LenProperties
  <1>2. PICK V : V = Seq(S)
    OBVIOUS
  <1>3. \A n \in 1..N : ss[n] \in V
    BY <1>1, <1>2, ElementOfSeq
  <1>4. \A t, u \in V : t \o u \in V
    BY <1>2, ConcatProperties
  <1>5. PICK none \in V : none = <<>>
    BY <1>2, EmptySeq
  <1>6. PICK step : step = [p \in (1..N) \X V |-> p[2] \o ss[p[1]]]
    OBVIOUS
  <1>7. step \in [(1..N) \X V -> V] /\ \A n \in 1..N : \A t \in V : step[<<n, t>>] = t \o ss[n]
    BY <1>3, <1>4, <1>6
  <1>8. PICK t : LoopRuns(t, N, V, none, step)
    <2>1. LoopOf(N, V, none, step)
      BY <1>7 DEF LoopOf
    <2> QED BY <2>1, LoopExists
  <1>9. /\ t \in [0..N -> V] /\ t[0] = <<>>
        /\ \A n \in 1..N : t[n] = t[n - 1] \o ss[n]
    <2>1. t \in [0..N -> V] /\ t[0] = <<>> /\ \A n \in 1..N : t[n] = step[<<n, t[n - 1]>>]
      BY <1>5, <1>8 DEF LoopRuns
    <2>2. \A n \in 1..N : n - 1 \in 0..N
      OBVIOUS
    <2> QED BY <1>7, <2>1, <2>2
  <1>10. t[N] = FlattenSeq(ss)
    <2>1. CASE N = 0
      <3>1. FlattenSeq(ss) = ss /\ ss = <<>>
        BY <1>1, <2>1, EmptySeq DEF FlattenSeq
      <3> QED BY <1>9, <2>1, <3>1
    <2>2. CASE N # 0
      <3>1. PICK h : h = [n \in 1..Len(ss) |-> t[n]]
        OBVIOUS
      <3>2. \A n \in 1..N : h[n] = t[n]
        BY <1>1, <3>1
      <3>3. t[1] = ss[1]
        <4>1. 1 \in 1..N /\ 1 - 1 = 0
          BY <2>2
        <4>2. PICK a \in V : a = ss[1]
          BY <1>3, <4>1
        <4>3. <<>> \o a = a
          BY <1>2, ConcatEmptySeq
        <4> QED BY <1>9, <4>1, <4>2, <4>3
      <3>4. \A n \in 1..Len(ss) : h[n] = IF n = 1 THEN ss[n] ELSE h[n - 1] \o ss[n]
        <4>1. \A n \in 1..N : n = 1 \/ n - 1 \in 1..N
          OBVIOUS
        <4> QED BY <1>1, <1>9, <3>2, <3>3, <4>1
      <3>5. h = [n \in 1..Len(ss) |-> IF n = 1 THEN ss[n] ELSE h[n - 1] \o ss[n]]
        BY <3>1, <3>4
      <3>6. PICK f : f = CHOOSE q : q = [n \in 1..Len(ss) |->
                                  IF n = 1 THEN ss[n] ELSE q[n - 1] \o ss[n]]
        OBVIOUS
      <3>7. f = [n \in 1..Len(ss) |-> IF n = 1 THEN ss[n] ELSE f[n - 1] \o ss[n]]
        BY <3>5, <3>6, Zenon
      <3>8. FlattenSeq(ss) = f[N]
        <4>1. Len(ss) # 0
          BY <1>1, <2>2
        <4>2. FlattenSeq(ss) = f[Len(ss)]
          BY <3>6, <4>1, FlattenIs, Zenon
        <4> QED BY <1>1, <4>2
      <3>9. PICK q : q = [n \in 0..N |-> IF n = 0 THEN <<>> ELSE f[n]]
        OBVIOUS
      <3>10. q[0] = <<>> /\ \A n \in 1..N : q[n] = f[n]
        BY <3>9
      <3>11. ASSUME NEW n \in 1..N, q[n - 1] = t[n - 1] PROVE q[n] = t[n]
        <4>1. CASE n = 1
          BY <1>1, <3>3, <3>7, <3>10, <4>1
        <4>2. CASE n # 1
          <5>1. n - 1 \in 1..N
            BY <4>2
          <5>2. f[n] = f[n - 1] \o ss[n]
            BY <1>1, <3>7, <4>2
          <5> QED BY <1>9, <3>10, <3>11, <5>1, <5>2
        <4> QED BY <4>1, <4>2
      <3>12. Agreeing(q, t, N)
        BY <1>9, <3>10, <3>11 DEF Agreeing
      <3>13. q[N] = t[N]
        BY <3>12, StepByStep DEF SameTo
      <3> QED BY <2>2, <3>8, <3>10, <3>13
    <2> QED BY <2>1, <2>2
  <1>11. /\ t \in [0..N -> Seq(S)] /\ t[0] = <<>> /\ t[N] = FlattenSeq(ss)
         /\ \A n \in 1..N : t[n] = t[n - 1] \o ss[n]
    BY <1>2, <1>9, <1>10
  <1>12. Fronts(t, ss, S)
    BY <1>1, <1>11, Zenon DEF Fronts
  <1> QED BY <1>12

LEMMA BackRuns ==
    ASSUME NEW S, NEW ss, ss \in Seq(Seq(S))
    PROVE  \E b : Backs(b, ss, S)
  <1>1. PICK N \in Nat : N = Len(ss)
    BY LenProperties
  <1>2. PICK V : V = Seq(S)
    OBVIOUS
  <1>3. \A n \in 1..N : ss[n] \in V
    BY <1>1, <1>2, ElementOfSeq
  <1>4. \A t, u \in V : t \o u \in V
    BY <1>2, ConcatProperties
  <1>5. PICK none \in V : none = <<>>
    BY <1>2, EmptySeq
  <1>6. PICK step : step = [p \in (1..N) \X V |-> ss[N + 1 - p[1]] \o p[2]]
    OBVIOUS
  <1>7. step \in [(1..N) \X V -> V] /\ \A n \in 1..N : \A t \in V : step[<<n, t>>] = ss[N + 1 - n] \o t
    <2>1. \A n \in 1..N : N + 1 - n \in 1..N
      OBVIOUS
    <2> QED BY <1>3, <1>4, <1>6, <2>1
  <1>8. PICK t : LoopRuns(t, N, V, none, step)
    <2>1. LoopOf(N, V, none, step)
      BY <1>7 DEF LoopOf
    <2> QED BY <2>1, LoopExists
  <1>9. /\ t \in [0..N -> V] /\ t[0] = <<>>
        /\ \A n \in 1..N : t[n] = ss[N + 1 - n] \o t[n - 1]
    <2>1. t \in [0..N -> V] /\ t[0] = <<>> /\ \A n \in 1..N : t[n] = step[<<n, t[n - 1]>>]
      BY <1>5, <1>8 DEF LoopRuns
    <2>2. \A n \in 1..N : n - 1 \in 0..N
      OBVIOUS
    <2> QED BY <1>7, <2>1, <2>2
  <1>10. PICK b : b = [n \in 0..N |-> t[N - n]]
    OBVIOUS
  <1>11. b \in [0..N -> V] /\ b[N] = <<>>
    <2>1. \A n \in 0..N : N - n \in 0..N
      OBVIOUS
    <2>2. N - N = 0 /\ N \in 0..N
      OBVIOUS
    <2> QED BY <1>9, <1>10, <2>1, <2>2
  <1>12. ASSUME NEW n \in 1..N PROVE b[n - 1] = ss[n] \o b[n]
    <2>1. PICK k \in 1..N : k = N + 1 - n /\ N + 1 - k = n /\ k - 1 = N - n /\ N - (n - 1) = k
      OBVIOUS
    <2>2. n - 1 \in 0..N /\ n \in 0..N
      OBVIOUS
    <2>3. t[k] = ss[n] \o t[k - 1]
      BY <1>9, <2>1
    <2> QED BY <1>10, <2>1, <2>2, <2>3
  <1>13. PICK g : Fronts(g, ss, S)
    BY FrontRuns
  <1>14. /\ g \in [0..N -> V] /\ g[0] = <<>> /\ g[N] = FlattenSeq(ss)
         /\ \A n \in 1..N : g[n] = g[n - 1] \o ss[n]
    BY <1>1, <1>2, <1>13 DEF Fronts
  <1>15. \A n \in 0..N : g[n] \o b[n] = b[0]
    <2> DEFINE Good(n) == g[n] \o b[n] = b[0]
               R == {n \in 0..N : Good(n)}
    <2>1. Good(0)
      <3>1. PICK a \in V : a = b[0]
        BY <1>11
      <3>2. <<>> \o a = a
        BY <1>2, ConcatEmptySeq
      <3> QED BY <1>14, <3>1, <3>2
    <2>2. ASSUME NEW n \in 1..N, Good(n - 1) PROVE Good(n)
      <3>0. n - 1 \in 0..N /\ n \in 0..N
        OBVIOUS
      <3>1. PICK a \in V : a = g[n - 1]
        BY <1>14, <3>0
      <3>2. PICK c \in V : c = ss[n]
        BY <1>3
      <3>3. PICK e \in V : e = b[n]
        BY <1>11, <3>0
      <3>4. (a \o c) \o e = a \o (c \o e)
        BY <1>2, ConcatAssociative
      <3>5. g[n] = a \o c /\ b[n - 1] = c \o e
        BY <1>12, <1>14, <3>1, <3>2, <3>3
      <3> QED BY <2>2, <3>1, <3>3, <3>4, <3>5
    <2> HIDE DEF Good
    <2>3. 0 \in R
      BY <2>1
    <2>4. \A n \in 1..N : n - 1 \in R => n \in R
      BY <2>2
    <2> HIDE DEF R
    <2>5. \A n \in 0..N : n \in R
      BY <2>3, <2>4, HandedOn
    <2> QED BY <2>5 DEF R, Good
  <1>16. b[0] = FlattenSeq(ss)
    <2>1. N \in 0..N
      OBVIOUS
    <2>2. PICK a \in V : a = g[N]
      BY <1>14, <2>1
    <2>3. a \o <<>> = a
      BY <1>2, ConcatEmptySeq
    <2>4. g[N] \o b[N] = b[0]
      BY <1>15, <2>1
    <2> QED BY <1>11, <1>14, <2>2, <2>3, <2>4
  <1>17. /\ b \in [0..N -> Seq(S)] /\ b[N] = <<>> /\ b[0] = FlattenSeq(ss)
         /\ \A n \in 1..N : b[n - 1] = ss[n] \o b[n]
    BY <1>2, <1>11, <1>12, <1>16
  <1>18. Backs(b, ss, S)
    BY <1>1, <1>17, Zenon DEF Backs
  <1> QED BY <1>18

LEMMA JoinElements ==
    ASSUME NEW a, IsSeq(a), NEW b, IsSeq(b)
    PROVE  \A x : x \in ToSet(a \o b) <=> x \in ToSet(a) \/ x \in ToSet(b)
  <1>1. PICK c : c = a \o b
    OBVIOUS
  <1>2. IsSeq(c) /\ Len(c) = Len(a) + Len(b)
    BY <1>1, JoinFacts
  <1>3. /\ \A n \in 1..Len(a) : c[n] = a[n]
        /\ \A n \in 1..Len(b) : c[Len(a) + n] = b[n]
    BY <1>1, JoinFacts
  <1>4. /\ Len(a) \in Nat /\ DOMAIN a = 1..Len(a) /\ Len(b) \in Nat /\ DOMAIN b = 1..Len(b)
        /\ DOMAIN c = 1..Len(c)
    BY <1>2, SeqIs
  <1>5. PICK k \in Nat : k = Len(a)
    BY <1>4
  <1>6. PICK l \in Nat : l = Len(b)
    BY <1>4
  <1>7. \A n \in 1..k + l : n \in 1..k \/ (n - k \in 1..l /\ k + (n - k) = n)
    OBVIOUS
  <1>8. \A n \in 1..l : k + n \in 1..k + l
    OBVIOUS
  <1>9. \A n \in 1..k : n \in 1..k + l
    OBVIOUS
  <1>10. ASSUME NEW x, x \in ToSet(c) PROVE x \in ToSet(a) \/ x \in ToSet(b)
    <2>1. PICK n \in 1..k + l : c[n] = x
      BY <1>2, <1>4, <1>5, <1>6, <1>10 DEF ToSet
    <2>2. CASE n \in 1..k
      <3>1. a[n] = x /\ n \in DOMAIN a
        BY <1>3, <1>4, <1>5, <2>1, <2>2
      <3> QED BY <3>1 DEF ToSet
    <2>3. CASE n - k \in 1..l /\ k + (n - k) = n
      <3>1. PICK m \in 1..l : m = n - k /\ k + m = n
        BY <2>3
      <3>2. b[m] = x /\ m \in DOMAIN b
        BY <1>3, <1>4, <1>5, <1>6, <2>1, <3>1
      <3> QED BY <3>2 DEF ToSet
    <2> QED BY <1>7, <2>2, <2>3
  <1>11. ASSUME NEW x, x \in ToSet(a) \/ x \in ToSet(b) PROVE x \in ToSet(c)
    BY <1>2, <1>3, <1>4, <1>5, <1>6, <1>8, <1>9, <1>11 DEF ToSet
  <1> QED BY <1>1, <1>10, <1>11

LEMMA FlattenElements ==
    ASSUME NEW S, NEW ss, ss \in Seq(Seq(S))
    PROVE  /\ FlattenSeq(ss) \in Seq(S)
           /\ \A x : x \in ToSet(FlattenSeq(ss)) <=> \E n \in DOMAIN ss : x \in ToSet(ss[n])
  <1>1. PICK N \in Nat : N = Len(ss) /\ DOMAIN ss = 1..N
    BY LenProperties
  <1>2. PICK g : Fronts(g, ss, S)
    BY FrontRuns
  <1>3. /\ g \in [0..N -> Seq(S)] /\ g[0] = <<>> /\ g[N] = FlattenSeq(ss)
        /\ \A n \in 1..N : g[n] = g[n - 1] \o ss[n]
    BY <1>1, <1>2 DEF Fronts
  <1> DEFINE Good(n) == \A x : x \in ToSet(g[n]) <=> \E k \in 1..n : x \in ToSet(ss[k])
             R == {n \in 0..N : Good(n)}
  <1>4. Good(0)
    <2>1. \A k : k \notin 1..0
      OBVIOUS
    <2>2. \A x : x \notin ToSet(<<>>)
      BY DEF ToSet
    <2>3. \A x : x \notin ToSet(g[0])
      BY <1>3, <2>2
    <2> QED BY <2>1, <2>3
  <1>5. ASSUME NEW n \in 1..N, Good(n - 1) PROVE Good(n)
    <2>0. n - 1 \in 0..N /\ \A k : k \in 1..n <=> k = n \/ k \in 1..n - 1
      OBVIOUS
    <2>1. PICK a \in Seq(S) : a = g[n - 1]
      BY <1>3, <2>0
    <2>2. PICK b \in Seq(S) : b = ss[n]
      BY <1>1, ElementOfSeq
    <2>3. IsSeq(a) /\ IsSeq(b)
      BY DEF IsSeq
    <2>4. \A x : x \in ToSet(a \o b) <=> x \in ToSet(a) \/ x \in ToSet(b)
      BY <2>3, JoinElements
    <2>5. g[n] = a \o b
      BY <1>3, <2>1, <2>2
    <2>6. \A x : x \in ToSet(a) <=> \E k \in 1..n - 1 : x \in ToSet(ss[k])
      BY <1>5, <2>1
    <2>7. \A x : x \in ToSet(a \o b) <=> \E k \in 1..n : x \in ToSet(ss[k])
      BY <2>0, <2>2, <2>4, <2>6
    <2> QED BY <2>5, <2>7
  <1> HIDE DEF Good
  <1>6. 0 \in R /\ \A n \in 1..N : n - 1 \in R => n \in R
    BY <1>4, <1>5
  <1> HIDE DEF R
  <1>7. \A n \in 0..N : n \in R
    BY <1>6, HandedOn
  <1>8. N \in R /\ N \in 0..N
    BY <1>7
  <1>9. Good(N)
    BY <1>8 DEF R
  <1>10. \A x : x \in ToSet(g[N]) <=> \E k \in 1..N : x \in ToSet(ss[k])
    BY <1>9 DEF Good
  <1>11. g[N] \in Seq(S)
    BY <1>3, <1>8
  <1> QED BY <1>1, <1>3, <1>10, <1>11

(* What is kept of a sequence.                                             *)
LEMMA KeptFacts ==
    ASSUME NEW s, IsSeq(s), NEW S
    PROVE  /\ Kept(s, S) \in Seq(ToSet(s)) /\ IsSeq(Kept(s, S))
           /\ \A x : x \in ToSet(Kept(s, S)) <=> x \in ToSet(s) /\ x \in S
  <1>1. PICK t : Keeps(t, s, S)
    BY KeptRuns
  <1>2. PICK c : Counts(c, s, S)
    BY KeptCounts
  <1>3. Len(s) \in Nat /\ DOMAIN s = 1..Len(s)
    BY SeqIs
  <1>4. Kept(s, S) \in Seq(ToSet(s))
    BY <1>1, <1>3 DEF Keeps
  <1>5. PICK k \in Seq(ToSet(s)) : k = Kept(s, S)
    BY <1>4
  <1>6. Len(k) \in Nat /\ DOMAIN k = 1..Len(k)
    BY LenProperties
  <1>7. /\ c \in [0..Len(s) -> 0..Len(k)] /\ c[0] = 0
        /\ \A n \in 1..Len(s) : s[n] \in S => c[n] = c[n - 1] + 1 /\ k[c[n]] = s[n]
        /\ \A m \in 1..Len(k) : \E n \in 1..Len(s) : s[n] \in S /\ c[n] = m
    BY <1>2, <1>5 DEF Counts
  <1>8. ASSUME NEW x, x \in ToSet(k) PROVE x \in ToSet(s) /\ x \in S
    <2>1. PICK m \in 1..Len(k) : k[m] = x
      BY <1>6, <1>8 DEF ToSet
    <2>2. PICK n \in 1..Len(s) : s[n] \in S /\ c[n] = m
      BY <1>7, <2>1
    <2>3. k[m] = s[n]
      BY <1>7, <2>2
    <2> QED BY <1>3, <2>1, <2>2, <2>3 DEF ToSet
  <1>9. ASSUME NEW x, x \in ToSet(s), x \in S PROVE x \in ToSet(k)
    <2>1. PICK n \in 1..Len(s) : s[n] = x
      BY <1>3, <1>9 DEF ToSet
    <2>2. n \in 0..Len(s) /\ n - 1 \in 0..Len(s)
      BY <1>3, <2>1
    <2>3. c[n] \in 0..Len(k) /\ c[n - 1] \in 0..Len(k) /\ c[n] = c[n - 1] + 1 /\ k[c[n]] = x
      BY <1>7, <1>9, <2>1, <2>2
    <2>4. c[n] \in 1..Len(k)
      BY <1>6, <2>3
    <2> QED BY <1>6, <2>3, <2>4 DEF ToSet
  <1> QED BY <1>4, <1>5, <1>8, <1>9 DEF IsSeq

LEMMA NoElements == ToSet(<<>>) = {} /\ IsSeq(<<>>)
  <1>1. <<>> \in Seq({})
    BY EmptySeq
  <1>2. DOMAIN <<>> = {}
    OBVIOUS
  <1>3. \A x : x \notin ToSet(<<>>)
    BY <1>2 DEF ToSet
  <1> QED BY <1>1, <1>3 DEF IsSeq

(* What the elements of a list emit, and all of it, one after another.     *)
Emits(e, fields) == IsSeq(fields) /\ \A f \in ToSet(fields) : IsSeq(e[f])

TokenLists(e, fields) == [n \in DOMAIN fields |-> e[fields[n]]]

Tokens(e, fields) == FlattenSeq(TokenLists(e, fields))

LEMMA EmittedSeqs ==
    ASSUME NEW e, NEW fields, Emits(e, fields)
    PROVE  \E S : TokenLists(e, fields) \in Seq(Seq(S)) /\ Len(TokenLists(e, fields)) = Len(fields)
  <1>0. PICK ss : ss = TokenLists(e, fields)
    OBVIOUS
  <1>1. PICK S : S = UNION {ToSet(e[f]) : f \in ToSet(fields)}
    OBVIOUS
  <1>2. \A f \in ToSet(fields) : e[f] \in Seq(S)
    <2>1. ASSUME NEW f \in ToSet(fields) PROVE e[f] \in Seq(S)
      <3>1. IsSeq(e[f])
        BY DEF Emits
      <3>2. e[f] \in Seq(ToSet(e[f]))
        BY <3>1, SeqIs
      <3>3. ToSet(e[f]) \subseteq S
        BY <1>1
      <3> QED BY <3>2, <3>3, WiderSeq
    <2> QED BY <2>1
  <1>3. PICK N \in Nat : N = Len(fields)
    BY SeqIs DEF Emits
  <1>4. DOMAIN fields = 1..N /\ \A n \in 1..N : fields[n] \in ToSet(fields)
    BY <1>3, SeqIs DEF Emits
  <1>5. ss \in [1..N -> Seq(S)]
    BY <1>0, <1>2, <1>4 DEF TokenLists
  <1>6. ss \in Seq(Seq(S)) /\ Len(ss) = N
    BY <1>3, <1>5, IsASeq, LenProperties
  <1> QED BY <1>0, <1>3, <1>6

(* Fields that emit nothing may be left out.                               *)
LEMMA SilentLeftOut ==
    ASSUME NEW e, NEW fields, Emits(e, fields), NEW A,
           \A f \in ToSet(fields) : f \notin A => e[f] = <<>>
    PROVE  Tokens(e, Kept(fields, A)) = Tokens(e, fields)
  <1>1. PICK kept : kept = Kept(fields, A)
    OBVIOUS
  <1>2. IsSeq(fields) /\ IsSeq(kept) /\ \A x : x \in ToSet(kept) <=> x \in ToSet(fields) /\ x \in A
    BY <1>1, KeptFacts DEF Emits
  <1>3. Emits(e, kept)
    BY <1>2 DEF Emits
  <1>4. PICK ss : ss = TokenLists(e, fields)
    OBVIOUS
  <1>5. PICK ks : ks = TokenLists(e, kept)
    OBVIOUS
  <1>6. PICK S : ss \in Seq(Seq(S)) /\ Len(ss) = Len(fields)
    BY <1>4, EmittedSeqs
  <1>7. PICK T : ks \in Seq(Seq(T)) /\ Len(ks) = Len(kept)
    BY <1>3, <1>5, EmittedSeqs
  <1>8. PICK g : Fronts(g, ss, S)
    BY <1>6, FrontRuns
  <1>9. PICK h : Fronts(h, ks, T)
    BY <1>7, FrontRuns
  <1>10. PICK c : Counts(c, fields, A)
    BY <1>2, KeptCounts
  <1>11. PICK N \in Nat : N = Len(fields)
    BY <1>2, SeqIs
  <1>12. PICK M \in Nat : M = Len(kept)
    BY <1>2, SeqIs
  <1>13. DOMAIN fields = 1..N /\ DOMAIN kept = 1..M /\ \A n \in 1..N : fields[n] \in ToSet(fields)
    BY <1>2, <1>11, <1>12, SeqIs
  <1>14. /\ c \in [0..N -> 0..M] /\ c[0] = 0 /\ c[N] = M
         /\ \A n \in 1..N :
              /\ fields[n] \in A => c[n] = c[n - 1] + 1 /\ kept[c[n]] = fields[n]
              /\ fields[n] \notin A => c[n] = c[n - 1]
    BY <1>1, <1>10, <1>11, <1>12 DEF Counts
  <1>15. /\ g \in [0..N -> Seq(S)] /\ g[0] = <<>> /\ g[N] = Tokens(e, fields)
         /\ \A n \in 1..N : g[n] = g[n - 1] \o e[fields[n]]
    <2>1. \A n \in 1..N : ss[n] = e[fields[n]]
      BY <1>4, <1>13 DEF TokenLists
    <2>2. /\ g \in [0..N -> Seq(S)] /\ g[0] = <<>> /\ g[N] = FlattenSeq(ss)
          /\ \A n \in 1..N : g[n] = g[n - 1] \o ss[n]
      BY <1>6, <1>8, <1>11 DEF Fronts
    <2>3. g[N] = Tokens(e, fields)
      BY <1>4, <2>2 DEF Tokens
    <2> QED BY <2>1, <2>2, <2>3
  <1>16. /\ h[0] = <<>> /\ h[M] = Tokens(e, kept)
         /\ \A n \in 1..M : h[n] = h[n - 1] \o e[kept[n]]
    <2>1. \A n \in 1..M : ks[n] = e[kept[n]]
      BY <1>5, <1>13 DEF TokenLists
    <2> QED BY <1>5, <1>7, <1>9, <1>12, <2>1 DEF Fronts, Tokens
  <1>17. PICK a : a = [n \in 0..N |-> h[c[n]]]
    OBVIOUS
  <1>18. \A n \in 1..N : a[n - 1] = g[n - 1] => a[n] = g[n]
    <2>1. ASSUME NEW n \in 1..N, a[n - 1] = g[n - 1] PROVE a[n] = g[n]
      <3>1. n \in 0..N /\ n - 1 \in 0..N /\ c[n] \in 0..M /\ c[n - 1] \in 0..M
        BY <1>14
      <3>2. a[n] = h[c[n]] /\ a[n - 1] = h[c[n - 1]]
        BY <1>17, <3>1
      <3>3. CASE fields[n] \in A
        <4>1. c[n] = c[n - 1] + 1 /\ kept[c[n]] = fields[n]
          BY <1>14, <3>3
        <4>2. c[n] \in 1..M /\ c[n] - 1 = c[n - 1]
          BY <3>1, <4>1
        <4>3. h[c[n]] = h[c[n - 1]] \o e[fields[n]]
          BY <1>16, <4>1, <4>2
        <4> QED BY <1>15, <2>1, <3>2, <4>3
      <3>4. CASE fields[n] \notin A
        <4>1. c[n] = c[n - 1]
          BY <1>14, <3>4
        <4>2. e[fields[n]] = <<>>
          BY <1>13, <3>4
        <4>3. g[n] = g[n - 1] \o <<>> /\ IsSeq(g[n - 1])
          BY <1>15, <3>1, <4>2 DEF IsSeq
        <4>4. g[n] = g[n - 1]
          BY <4>3, JoinFacts
        <4> QED BY <2>1, <3>2, <4>1, <4>4
      <3> QED BY <3>3, <3>4
    <2> QED BY <2>1
  <1>19. a[0] = g[0]
    <2>1. 0 \in 0..N
      OBVIOUS
    <2> QED BY <1>14, <1>15, <1>16, <1>17, <2>1
  <1>20. SameTo(a, g, N)
    BY <1>18, <1>19, StepByStep DEF Agreeing
  <1>21. a[N] = g[N] /\ a[N] = h[M]
    <2>1. N \in 0..N
      OBVIOUS
    <2> QED BY <1>14, <1>17, <1>20, <2>1 DEF SameTo
  <1> QED BY <1>1, <1>15, <1>16, <1>21

LEMMA TokensAgree ==
    ASSUME NEW e, NEW h, NEW fields, IsSeq(fields), \A f \in ToSet(fields) : e[f] = h[f]
    PROVE  Tokens(e, fields) = Tokens(h, fields)
  <1>1. \A n \in DOMAIN fields : e[fields[n]] = h[fields[n]]
    BY SeqIs
  <1>2. TokenLists(e, fields) = TokenLists(h, fields)
    BY <1>1 DEF TokenLists
  <1> QED BY <1>2, Zenon DEF Tokens

(* What is kept, as what the elements emit.                                *)
Single(s, A) == [x \in ToSet(s) |-> IF x \in A THEN <<x>> ELSE <<>>]

LEMMA KeptEmitted ==
    ASSUME NEW s, IsSeq(s), NEW A
    PROVE  Emits(Single(s, A), s) /\ Kept(s, A) = Tokens(Single(s, A), s)
  <1>1. PICK e : e = Single(s, A)
    OBVIOUS
  <1>2. \A x \in ToSet(s) : e[x] = IF x \in A THEN <<x>> ELSE <<>>
    BY <1>1 DEF Single
  <1>3. Emits(e, s)
    <2>1. ASSUME NEW x \in ToSet(s) PROVE IsSeq(e[x])
      <3>1. <<x>> \in Seq({x}) /\ <<>> \in Seq({x})
        OBVIOUS
      <3> QED BY <1>2, <3>1 DEF IsSeq
    <2> QED BY <2>1 DEF Emits
  <1>4. PICK t : Keeps(t, s, A)
    BY KeptRuns
  <1>5. PICK S : TokenLists(e, s) \in Seq(Seq(S)) /\ Len(TokenLists(e, s)) = Len(s)
    BY <1>3, EmittedSeqs
  <1>6. PICK ss : ss = TokenLists(e, s)
    OBVIOUS
  <1>7. PICK g : Fronts(g, ss, S)
    BY <1>5, <1>6, FrontRuns
  <1>8. PICK N \in Nat : N = Len(s)
    BY SeqIs
  <1>9. DOMAIN s = 1..N /\ \A n \in 1..N : s[n] \in ToSet(s)
    BY <1>8, SeqIs
  <1>10. /\ g[0] = <<>> /\ g[N] = Tokens(e, s)
         /\ \A n \in 1..N : g[n] = g[n - 1] \o e[s[n]]
    <2>1. \A n \in 1..N : ss[n] = e[s[n]]
      BY <1>6, <1>9 DEF TokenLists
    <2>2. Len(ss) = N
      BY <1>5, <1>6, <1>8
    <2>3. g[0] = <<>> /\ g[N] = FlattenSeq(ss) /\ \A n \in 1..N : g[n] = g[n - 1] \o ss[n]
      BY <1>7, <2>2 DEF Fronts
    <2>4. FlattenSeq(ss) = Tokens(e, s)
      BY <1>6 DEF Tokens
    <2> QED BY <2>1, <2>3, <2>4
  <1>11. /\ t \in [0..N -> Seq(ToSet(s))] /\ t[0] = <<>> /\ t[N] = Kept(s, A)
         /\ \A n \in 1..N : t[n] = IF s[n] \in A THEN Append(t[n - 1], s[n]) ELSE t[n - 1]
    BY <1>4, <1>8 DEF Keeps
  <1>12. \A n \in 1..N : t[n - 1] = g[n - 1] => t[n] = g[n]
    <2>1. ASSUME NEW n \in 1..N, t[n - 1] = g[n - 1] PROVE t[n] = g[n]
      <3>1. n - 1 \in 0..N
        OBVIOUS
      <3>2. PICK u \in Seq(ToSet(s)) : u = t[n - 1]
        BY <1>11, <3>1
      <3>3. PICK x \in ToSet(s) : x = s[n]
        BY <1>9
      <3>4. u \o <<x>> = Append(u, x) /\ u \o <<>> = u
        OBVIOUS
      <3> QED BY <1>2, <1>10, <1>11, <2>1, <3>2, <3>3, <3>4
    <2> QED BY <2>1
  <1>13. SameTo(t, g, N)
    BY <1>10, <1>11, <1>12, StepByStep DEF Agreeing
  <1>14. t[N] = g[N]
    BY <1>13 DEF SameTo
  <1> QED BY <1>1, <1>3, <1>10, <1>11, <1>14

LEMMA KeptSame ==
    ASSUME NEW s, IsSeq(s), NEW A, NEW B, \A x \in ToSet(s) : x \in A <=> x \in B
    PROVE  Kept(s, A) = Kept(s, B)
  <1>1. \A x \in ToSet(s) : Single(s, A)[x] = Single(s, B)[x]
    BY DEF Single
  <1>2. Tokens(Single(s, A), s) = Tokens(Single(s, B), s)
    BY <1>1, TokensAgree
  <1> QED BY <1>2, KeptEmitted

LEMMA KeptTwice ==
    ASSUME NEW s, IsSeq(s), NEW A, NEW B
    PROVE  Kept(Kept(s, A), B) = Kept(s, A \cap B)
  <1>1. PICK u : u = Kept(s, A)
    OBVIOUS
  <1>2. IsSeq(u) /\ \A x : x \in ToSet(u) <=> x \in ToSet(s) /\ x \in A
    BY <1>1, KeptFacts
  <1>3. PICK e : e = Single(s, A \cap B)
    OBVIOUS
  <1>4. Emits(e, s) /\ Kept(s, A \cap B) = Tokens(e, s)
    BY <1>3, KeptEmitted
  <1>5. \A x \in ToSet(s) : x \notin A => e[x] = <<>>
    BY <1>3 DEF Single
  <1>6. Tokens(e, u) = Tokens(e, s)
    BY <1>1, <1>4, <1>5, SilentLeftOut
  <1>7. \A x \in ToSet(u) : e[x] = Single(u, B)[x]
    BY <1>2, <1>3 DEF Single
  <1>8. Tokens(e, u) = Tokens(Single(u, B), u)
    BY <1>2, <1>7, TokensAgree
  <1>9. Kept(u, B) = Tokens(Single(u, B), u)
    BY <1>2, KeptEmitted
  <1> QED BY <1>1, <1>4, <1>6, <1>8, <1>9

(* Where what is kept comes first, the kept elements are a front.          *)
LEMMA KeptFront ==
    ASSUME NEW s, IsSeq(s), NEW A,
           \A n, m \in 1..Len(s) : n < m /\ s[m] \in A => s[n] \in A
    PROVE  /\ StartOf(Kept(s, A), s)
           /\ \A n \in 1..Len(s) : s[n] \in A => n \in 1..Len(Kept(s, A))
  <1>1. PICK N \in Nat : N = Len(s)
    BY SeqIs
  <1>2. PICK u : u = Kept(s, A)
    OBVIOUS
  <1>3. PICK M \in Nat : M = Len(u)
    BY <1>2, KeptFacts, SeqIs
  <1>4. PICK c : Counts(c, s, A)
    BY KeptCounts
  <1>5. /\ c \in [0..N -> 0..M] /\ c[0] = 0 /\ c[N] = M
        /\ \A n \in 1..N :
             /\ s[n] \in A => c[n] = c[n - 1] + 1 /\ u[c[n]] = s[n]
             /\ s[n] \notin A => c[n] = c[n - 1]
        /\ \A k \in 1..M : \E n \in 1..N : s[n] \in A /\ c[n] = k
    BY <1>1, <1>2, <1>3, <1>4 DEF Counts
  <1>6. PICK Good : Good = {n \in 0..N : n = 0 \/ (s[n] \in A => c[n] = n)}
    OBVIOUS
  <1>7. \A n \in 1..N : n - 1 \in Good => n \in Good
    <2>1. ASSUME NEW n \in 1..N, n - 1 \in Good PROVE n \in Good
      <3>1. CASE s[n] \in A
        <4>1. c[n] = c[n - 1] + 1
          BY <1>5, <3>1
        <4>2. c[n - 1] = n - 1
          <5>1. CASE n = 1
            BY <1>5, <5>1
          <5>2. CASE n # 1
            <6>1. n - 1 \in 1..N /\ n - 1 < n
              BY <5>2
            <6>2. s[n - 1] \in A
              BY <1>1, <3>1, <6>1
            <6> QED BY <1>6, <2>1, <6>1, <6>2
          <5> QED BY <5>1, <5>2
        <4> QED BY <1>6, <4>1, <4>2
      <3>2. CASE s[n] \notin A
        BY <1>6, <3>2
      <3> QED BY <3>1, <3>2
    <2> QED BY <2>1
  <1>8. 0 \in Good
    BY <1>6
  <1>9. \A n \in 0..N : n \in Good
    BY <1>7, <1>8, HandedOn
  <1>10. \A n \in 1..N : s[n] \in A => c[n] = n
    BY <1>6, <1>9
  <1>11. \A n \in 1..N : s[n] \in A => n \in 1..M
    BY <1>5, <1>10
  <1>12. \A k \in 1..M : k <= N /\ s[k] = u[k]
    BY <1>5, <1>10
  <1>13. M <= N
    BY <1>12
  <1>14. StartOf(u, s)
    BY <1>1, <1>3, <1>12, <1>13 DEF StartOf
  <1> QED BY <1>1, <1>2, <1>3, <1>11, <1>14

LEMMA KeptAll ==
    ASSUME NEW s, IsSeq(s), NEW A, ToSet(s) \subseteq A
    PROVE  Kept(s, A) = s
  <1>1. PICK N \in Nat : N = Len(s)
    BY SeqIs
  <1>2. \A n \in 1..N : s[n] \in A
    BY <1>1, SeqIs
  <1>3. PICK u : u = Kept(s, A)
    OBVIOUS
  <1>4. StartOf(u, s) /\ \A n \in 1..N : n \in 1..Len(u)
    BY <1>1, <1>2, <1>3, KeptFront
  <1>5. u \in Seq(ToSet(s)) /\ s \in Seq(ToSet(s)) /\ Len(u) \in Nat
    BY <1>3, KeptFacts, SeqIs
  <1>6. Len(u) = N
    <2>1. N = 0 \/ N \in 1..N
      OBVIOUS
    <2> QED BY <1>1, <1>4, <1>5, <2>1 DEF StartOf
  <1>7. \A n \in 1..N : s[n] = u[n]
    BY <1>4, <1>6 DEF StartOf
  <1> QED BY <1>1, <1>3, <1>5, <1>6, <1>7, SeqEqual

LEMMA JoinOne ==
    ASSUME NEW T, NEW u \in Seq(T), NEW w \in Seq(T), NEW x \in T
    PROVE  u \o Append(w, x) = Append(u \o w, x)
  OBVIOUS

LEMMA KeptJoin ==
    ASSUME NEW a, IsSeq(a), NEW b, IsSeq(b), NEW A
    PROVE  Kept(a \o b, A) = Kept(a, A) \o Kept(b, A)
  <1>1. PICK s : s = a \o b
    OBVIOUS
  <1>2. PICK L \in Nat : L = Len(a)
    BY SeqIs
  <1>3. PICK K \in Nat : K = Len(b)
    BY SeqIs
  <1>4. /\ IsSeq(s) /\ Len(s) = L + K
        /\ \A n \in 1..L : s[n] = a[n]
        /\ \A n \in 1..K : s[L + n] = b[n]
    BY <1>1, <1>2, <1>3, JoinFacts
  <1>5. PICK t : Keeps(t, s, A)
    BY <1>4, KeptRuns
  <1>6. PICK p : Keeps(p, a, A)
    BY KeptRuns
  <1>7. PICK q : Keeps(q, b, A)
    BY KeptRuns
  <1>8. /\ t[0] = <<>> /\ t[L + K] = Kept(s, A)
        /\ \A n \in 1..L + K : t[n] = IF s[n] \in A THEN Append(t[n - 1], s[n]) ELSE t[n - 1]
    BY <1>4, <1>5 DEF Keeps
  <1>9. /\ p \in [0..L -> Seq(ToSet(a))] /\ p[0] = <<>> /\ p[L] = Kept(a, A)
        /\ \A n \in 1..L : p[n] = IF a[n] \in A THEN Append(p[n - 1], a[n]) ELSE p[n - 1]
    BY <1>2, <1>6 DEF Keeps
  <1>10. /\ q \in [0..K -> Seq(ToSet(b))] /\ q[0] = <<>> /\ q[K] = Kept(b, A)
         /\ \A n \in 1..K : q[n] = IF b[n] \in A THEN Append(q[n - 1], b[n]) ELSE q[n - 1]
    BY <1>3, <1>7 DEF Keeps
  <1>11. PICK u : u = Kept(a, A)
    OBVIOUS
  <1>12. PICK T : T = ToSet(a) \cup ToSet(b)
    OBVIOUS
  <1>13. u \in Seq(T) /\ u \o <<>> = u
    <2>1. u \in Seq(ToSet(a)) /\ IsSeq(u)
      BY <1>11, KeptFacts
    <2> QED BY <1>12, <2>1, WiderSeq, JoinFacts
  <1>14. PICK h : h = [n \in 0..L + K |-> IF n <= L THEN p[n] ELSE u \o q[n - L]]
    OBVIOUS
  <1>15. \A n \in 1..L + K : h[n] = IF s[n] \in A THEN Append(h[n - 1], s[n]) ELSE h[n - 1]
    <2>1. ASSUME NEW n \in 1..L + K
          PROVE  h[n] = IF s[n] \in A THEN Append(h[n - 1], s[n]) ELSE h[n - 1]
      <3>1. n \in 0..L + K /\ n - 1 \in 0..L + K
        OBVIOUS
      <3>2. CASE n <= L
        <4>1. n \in 1..L /\ n - 1 <= L
          BY <3>2
        <4>2. h[n] = p[n] /\ h[n - 1] = p[n - 1] /\ s[n] = a[n]
          BY <1>4, <1>14, <3>1, <3>2, <4>1
        <4> QED BY <1>9, <4>1, <4>2
      <3>3. CASE ~(n <= L)
        <4>1. PICK m \in 1..K : m = n - L /\ n = L + m /\ m - 1 = n - 1 - L /\ m - 1 \in 0..K
          BY <3>3
        <4>2. h[n] = u \o q[m] /\ s[n] = b[m]
          BY <1>4, <1>14, <3>1, <3>3, <4>1
        <4>3. h[n - 1] = u \o q[m - 1]
          <5>1. CASE n - 1 <= L
            <6>1. n - 1 = L /\ m - 1 = 0
              BY <3>3, <4>1, <5>1
            <6>2. h[n - 1] = p[L]
              BY <1>14, <3>1, <6>1
            <6> QED BY <1>9, <1>10, <1>11, <1>13, <6>1, <6>2
          <5>2. CASE ~(n - 1 <= L)
            BY <1>14, <3>1, <4>1, <5>2
          <5> QED BY <5>1, <5>2
        <4>4. PICK w \in Seq(T) : w = q[m - 1]
          <5>1. q[m - 1] \in Seq(ToSet(b))
            BY <1>10, <4>1
          <5> QED BY <1>12, <5>1, WiderSeq
        <4>5. q[m] = IF b[m] \in A THEN Append(w, b[m]) ELSE w
          BY <1>10, <4>4
        <4>6. PICK x \in T : x = b[m]
          BY <1>3, <1>12, SeqIs
        <4>7. u \o Append(w, x) = Append(u \o w, x)
          BY <1>13, <4>4, <4>6, JoinOne
        <4> QED BY <4>2, <4>3, <4>4, <4>5, <4>6, <4>7
      <3> QED BY <3>2, <3>3
    <2> QED BY <2>1
  <1>16. h[0] = <<>>
    <2>1. 0 \in 0..L + K /\ 0 <= L
      OBVIOUS
    <2> QED BY <1>9, <1>14, <2>1
  <1>20. PICK z : z = Kept(b, A)
    OBVIOUS
  <1>21. h[L + K] = u \o z
    <2>1. L + K \in 0..L + K
      OBVIOUS
    <2>2. ASSUME K = 0 PROVE h[L + K] = u \o z
      <3>1. h[L + K] = p[L]
        BY <1>14, <2>1, <2>2
      <3>2. z = <<>>
        BY <1>10, <1>20, <2>2
      <3> QED BY <1>9, <1>11, <1>13, <3>1, <3>2
    <2>3. ASSUME K # 0 PROVE h[L + K] = u \o z
      <3>1. ~(L + K <= L) /\ L + K - L = K
        BY <2>3
      <3> QED BY <1>10, <1>14, <1>20, <2>1, <3>1
    <2> QED BY <2>2, <2>3, Zenon
  <1>17. \A n \in 1..L + K : t[n - 1] = h[n - 1] => t[n] = h[n]
    BY <1>8, <1>15
  <1>18. SameTo(t, h, L + K)
    <2>1. L + K \in Nat
      OBVIOUS
    <2> QED BY <1>8, <1>16, <1>17, <2>1, StepByStep DEF Agreeing
  <1>19. t[L + K] = h[L + K]
    BY <1>18 DEF SameTo
  <1> QED BY <1>1, <1>8, <1>11, <1>19, <1>20, <1>21

(* If each field emits one token, the n-th token is the n-th field's.      *)
LEMMA TokensSingle ==
    ASSUME NEW e, NEW fields, Emits(e, fields), \A f \in ToSet(fields) : Len(e[f]) = 1
    PROVE  /\ Len(Tokens(e, fields)) = Len(fields)
           /\ \A n \in 1..Len(fields) : Tokens(e, fields)[n] = e[fields[n]][1]
  <1>1. PICK ss : ss = TokenLists(e, fields)
    OBVIOUS
  <1>2. PICK S : ss \in Seq(Seq(S)) /\ Len(ss) = Len(fields)
    BY <1>1, EmittedSeqs
  <1>3. PICK g : Fronts(g, ss, S)
    BY <1>2, FrontRuns
  <1>4. PICK N \in Nat : N = Len(fields)
    BY SeqIs DEF Emits
  <1>5. DOMAIN fields = 1..N /\ \A n \in 1..N : fields[n] \in ToSet(fields)
    BY <1>4, SeqIs DEF Emits
  <1>6. g \in [0..N -> Seq(S)] /\ g[0] = <<>> /\ g[N] = FlattenSeq(ss)
        /\ \A n \in 1..N : g[n] = g[n - 1] \o ss[n]
    BY <1>2, <1>3, <1>4 DEF Fronts
  <1>7. FlattenSeq(ss) = Tokens(e, fields)
    BY <1>1 DEF Tokens
  <1>8. \A n \in 1..N : ss[n] = e[fields[n]] /\ ss[n] \in Seq(S) /\ Len(ss[n]) = 1
    <2>1. \A n \in 1..N : ss[n] = e[fields[n]]
      BY <1>1, <1>5 DEF TokenLists
    <2>2. \A n \in 1..N : ss[n] \in Seq(S)
      BY <1>2, <1>4, ElementOfSeq
    <2> QED BY <1>5, <2>1, <2>2
  <1>9. PICK Good : Good = {n \in 0..N : Len(g[n]) = n /\ \A k \in 1..n : g[n][k] = e[fields[k]][1]}
    OBVIOUS
  <1>10. 0 \in Good
    BY <1>6, <1>9
  <1>11. \A n \in 1..N : n - 1 \in Good => n \in Good
    <2>1. ASSUME NEW n \in 1..N, n - 1 \in Good PROVE n \in Good
      <3>1. PICK u \in Seq(S) : u = g[n - 1]
        BY <1>6
      <3>2. PICK w \in Seq(S) : w = ss[n] /\ Len(w) = 1 /\ w = e[fields[n]]
        BY <1>8
      <3>3. Len(u) = n - 1 /\ \A k \in 1..n - 1 : u[k] = e[fields[k]][1]
        BY <1>9, <2>1, <3>1
      <3>4. g[n] = u \o w
        BY <1>6, <3>1, <3>2
      <3>5. IsSeq(u) /\ IsSeq(w)
        BY DEF IsSeq
      <3>6. /\ Len(u \o w) = Len(u) + Len(w)
            /\ \A k \in 1..Len(u) : (u \o w)[k] = u[k]
            /\ \A k \in 1..Len(w) : (u \o w)[Len(u) + k] = w[k]
        BY <3>5, JoinFacts
      <3>7. \A k \in 1..n : (u \o w)[k] = e[fields[k]][1]
        <4>1. ASSUME NEW k \in 1..n PROVE (u \o w)[k] = e[fields[k]][1]
          <5>1. CASE k \in 1..n - 1
            BY <3>3, <3>6, <5>1
          <5>2. CASE k = n
            <6>1. 1 \in 1..Len(w) /\ Len(u) + 1 = n
              BY <3>2, <3>3
            <6>2. (u \o w)[Len(u) + 1] = w[1]
              BY <3>6, <6>1
            <6>3. (u \o w)[k] = w[1]
              BY <5>2, <6>1, <6>2
            <6>4. w[1] = e[fields[k]][1]
              BY <3>2, <5>2
            <6> QED BY <6>3, <6>4
          <5>3. k \in 1..n - 1 \/ k = n
            OBVIOUS
          <5> QED BY <5>1, <5>2, <5>3, Zenon
        <4> QED BY <4>1
      <3>8. n \in 0..N
        OBVIOUS
      <3>9. Len(u \o w) = n
        BY <3>2, <3>3, <3>6
      <3> QED BY <1>9, <3>4, <3>7, <3>8, <3>9
    <2> QED BY <2>1
  <1>12. N \in Good
    <2>1. \A n \in 0..N : n \in Good
      BY <1>10, <1>11, HandedOn
    <2> QED BY <2>1
  <1> QED BY <1>4, <1>6, <1>7, <1>9, <1>12

(* If each field but one does, all the tokens tell how many the one emits. *)
LEMMA TokensButOne ==
    ASSUME NEW e, NEW fields, Emits(e, fields), NEW m \in 1..Len(fields),
           \A n \in 1..Len(fields) : n # m => Len(e[fields[n]]) = 1
    PROVE  Len(e[fields[m]]) = Len(Tokens(e, fields)) - Len(fields) + 1
  <1>1. PICK ss : ss = TokenLists(e, fields)
    OBVIOUS
  <1>2. PICK S : ss \in Seq(Seq(S)) /\ Len(ss) = Len(fields)
    BY <1>1, EmittedSeqs
  <1>3. PICK g : Fronts(g, ss, S)
    BY <1>2, FrontRuns
  <1>4. PICK N \in Nat : N = Len(fields)
    BY SeqIs DEF Emits
  <1>5. DOMAIN fields = 1..N /\ m \in 1..N
    BY <1>4, SeqIs DEF Emits
  <1>6. g \in [0..N -> Seq(S)] /\ g[0] = <<>> /\ g[N] = FlattenSeq(ss)
        /\ \A n \in 1..N : g[n] = g[n - 1] \o ss[n]
    BY <1>2, <1>3, <1>4 DEF Fronts
  <1>7. FlattenSeq(ss) = Tokens(e, fields)
    BY <1>1 DEF Tokens
  <1>8. \A n \in 1..N : ss[n] = e[fields[n]] /\ ss[n] \in Seq(S)
    <2>1. \A n \in 1..N : ss[n] = e[fields[n]]
      BY <1>1, <1>5 DEF TokenLists
    <2>2. \A n \in 1..N : ss[n] \in Seq(S)
      BY <1>2, <1>4, ElementOfSeq
    <2> QED BY <2>1, <2>2
  <1>9. PICK M \in Nat : M = Len(e[fields[m]])
    <2>1. Len(ss[m]) \in Nat
      BY <1>5, <1>8, LenProperties
    <2> QED BY <1>5, <1>8, <2>1
  <1>10. PICK Good : Good = {n \in 0..N : Len(g[n]) = IF m <= n THEN n - 1 + M ELSE n}
    OBVIOUS
  <1>11. 0 \in Good
    <2>1. ~(m <= 0) /\ 0 \in 0..N
      BY <1>5
    <2> QED BY <1>6, <1>10, <2>1
  <1>12. \A n \in 1..N : n - 1 \in Good => n \in Good
    <2>1. ASSUME NEW n \in 1..N, n - 1 \in Good PROVE n \in Good
      <3>1. PICK u \in Seq(S) : u = g[n - 1]
        BY <1>6
      <3>2. PICK w \in Seq(S) : w = ss[n] /\ w = e[fields[n]]
        BY <1>8
      <3>3. Len(u) = IF m <= n - 1 THEN n - 1 - 1 + M ELSE n - 1
        BY <1>10, <2>1, <3>1
      <3>4. g[n] = u \o w
        BY <1>6, <3>1, <3>2
      <3>5. IsSeq(u) /\ IsSeq(w)
        BY DEF IsSeq
      <3>6. Len(u \o w) = Len(u) + Len(w)
        BY <3>5, JoinFacts
      <3>7. Len(w) = IF n = m THEN M ELSE 1
        BY <1>4, <1>9, <3>2
      <3>8. Len(u \o w) = IF m <= n THEN n - 1 + M ELSE n
        BY <1>5, <3>3, <3>6, <3>7
      <3>9. n \in 0..N
        OBVIOUS
      <3> QED BY <1>10, <3>4, <3>8, <3>9
    <2> QED BY <2>1
  <1>13. N \in Good
    <2>1. \A n \in 0..N : n \in Good
      BY <1>11, <1>12, HandedOn
    <2> QED BY <2>1
  <1> QED BY <1>4, <1>5, <1>6, <1>7, <1>9, <1>10, <1>13

(* What is kept stays in its order.                                        *)
LEMMA KeptOrder ==
    ASSUME NEW s, IsSeq(s), NEW A, NEW u, u = Kept(s, A),
           NEW n \in 1..Len(u), NEW m \in 1..Len(u), n < m
    PROVE  \E a, b \in 1..Len(s) : a < b /\ s[a] = u[n] /\ s[b] = u[m] /\ s[a] \in A /\ s[b] \in A
  <1>1. PICK N \in Nat : N = Len(s)
    BY SeqIs
  <1>2. PICK M \in Nat : M = Len(u)
    BY KeptFacts, SeqIs
  <1>3. PICK c : Counts(c, s, A)
    BY KeptCounts
  <1>4. /\ c \in [0..N -> 0..M]
        /\ \A k \in 1..N :
             /\ s[k] \in A => c[k] = c[k - 1] + 1 /\ u[c[k]] = s[k]
             /\ s[k] \notin A => c[k] = c[k - 1]
        /\ \A k \in 1..M : \E l \in 1..N : s[l] \in A /\ c[l] = k
    BY <1>1, <1>2, <1>3 DEF Counts
  <1>5. PICK a \in 1..N : s[a] \in A /\ c[a] = n
    BY <1>2, <1>4
  <1>6. PICK b \in 1..N : s[b] \in A /\ c[b] = m
    BY <1>2, <1>4
  <1>7. ASSUME b <= a PROVE FALSE
    <2>1. PICK Good : Good = {k \in 0..N : b <= k => c[b] <= c[k]}
      OBVIOUS
    <2>2. 0 \in Good
      BY <1>6, <2>1
    <2>3. \A k \in 1..N : k - 1 \in Good => k \in Good
      <3>1. ASSUME NEW k \in 1..N, k - 1 \in Good PROVE k \in Good
        <4>1. k \in 0..N /\ k - 1 \in 0..N /\ c[k] \in 0..M /\ c[k - 1] \in 0..M /\ c[b] \in 0..M
          <5>1. k \in 0..N /\ k - 1 \in 0..N
            OBVIOUS
          <5>2. b \in 0..N
            BY <1>6
          <5>3. c[k] \in 0..M /\ c[k - 1] \in 0..M
            BY <1>4, <5>1
          <5>4. c[b] \in 0..M
            BY <1>4, <5>2
          <5> QED BY <5>1, <5>3, <5>4
        <4>2. c[k - 1] <= c[k]
          <5>1. k \in 1..N
            OBVIOUS
          <5>2. s[k] \in A => c[k] = c[k - 1] + 1
            BY <1>4
          <5>3. s[k] \notin A => c[k] = c[k - 1]
            BY <1>4
          <5> QED BY <4>1, <5>2, <5>3
        <4>3. b <= k - 1 => c[b] <= c[k - 1]
          BY <2>1, <3>1
        <4>4. b <= k => c[b] <= c[k]
          <5>1. CASE b <= k - 1
            BY <4>1, <4>2, <4>3, <5>1
          <5>2. CASE b = k
            BY <4>1, <5>2
          <5>3. b <= k => b <= k - 1 \/ b = k
            BY <1>6
          <5> QED BY <5>1, <5>2, <5>3
        <4> QED BY <2>1, <4>1, <4>4, Zenon
      <3> QED BY <3>1
    <2>4. a \in Good
      <3>1. \A k \in 0..N : k \in Good
        BY <2>2, <2>3, HandedOn
      <3> QED BY <3>1
    <2> QED BY <1>2, <1>5, <1>6, <1>7, <2>1, <2>4
  <1>8. a < b
    BY <1>7
  <1>9. s[a] = u[n] /\ s[b] = u[m]
    BY <1>4, <1>5, <1>6
  <1> QED BY <1>1, <1>5, <1>6, <1>8, <1>9

LEMMA ReverseFacts ==
    ASSUME NEW s, IsSeq(s)
    PROVE  IsSeq(Reverse(s)) /\ ToSet(Reverse(s)) = ToSet(s) /\ Len(Reverse(s)) = Len(s)
  <1>1. PICK N \in Nat : N = Len(s) /\ DOMAIN s = 1..N
    BY SeqIs
  <1>2. PICK z : z = Reverse(s)
    OBVIOUS
  <1>3. z = [i \in 1..N |-> s[(N - i) + 1]]
    BY <1>1, <1>2 DEF Reverse
  <1>4. \A i \in 1..N : (N - i) + 1 \in 1..N /\ (N - ((N - i) + 1)) + 1 = i
    OBVIOUS
  <1>5. z \in [1..N -> ToSet(s)]
    BY <1>1, <1>3, <1>4, SeqIs
  <1>6. z \in Seq(ToSet(s)) /\ Len(z) = N /\ DOMAIN z = 1..N
    BY <1>5, IsASeq, LenProperties
  <1>7. \A x : x \in ToSet(z) <=> x \in ToSet(s)
    <2>1. ASSUME NEW x, x \in ToSet(s) PROVE x \in ToSet(z)
      <3>1. PICK i \in 1..N : x = s[i]
        BY <1>1, <2>1 DEF ToSet
      <3>2. PICK j \in 1..N : j = (N - i) + 1 /\ (N - j) + 1 = i
        BY <1>4
      <3>3. z[j] = x
        BY <1>3, <3>1, <3>2
      <3> QED BY <1>6, <3>3 DEF ToSet
    <2>2. ASSUME NEW x, x \in ToSet(z) PROVE x \in ToSet(s)
      BY <1>5, <1>6, <2>2 DEF ToSet
    <2> QED BY <2>1, <2>2
  <1> QED BY <1>1, <1>2, <1>6, <1>7 DEF IsSeq

LEMMA TokenSeq ==
    ASSUME NEW k
    PROVE  IsSeq(<<k>>) /\ IsSeq(<<>>)
  <1>1. <<k>> \in Seq({k}) /\ <<>> \in Seq({k})
    OBVIOUS
  <1> QED BY <1>1 DEF IsSeq

LEMMA TokensSeq ==
    ASSUME NEW e, NEW fields, Emits(e, fields)
    PROVE  IsSeq(Tokens(e, fields))
  <1>1. PICK S : TokenLists(e, fields) \in Seq(Seq(S))
    BY EmittedSeqs
  <1> QED BY <1>1, FlattenElements DEF IsSeq, Tokens

Joined(a, b) == a \o b

LEMMA JoinFour ==
    ASSUME NEW a, IsSeq(a), NEW b, IsSeq(b), NEW c, IsSeq(c), NEW z, IsSeq(z)
    PROVE  Joined(Joined(Joined(a, b), c), z) = Joined(a, Joined(b, Joined(c, z)))
  <1>1. PICK both : both = a \o b
    OBVIOUS
  <1>2. PICK left : left = c \o z
    OBVIOUS
  <1>3. IsSeq(both)
    BY <1>1, JoinFacts
  <1>4. IsSeq(left)
    BY <1>2, JoinFacts
  <1>5. (both \o c) \o z = both \o left
    BY <1>2, <1>3, JoinAssociative
  <1>6. (a \o b) \o left = a \o (b \o left)
    BY <1>4, JoinAssociative
  <1> QED BY <1>1, <1>2, <1>5, <1>6 DEF Joined

(* The flags field of an operation.                                        *)
LEMMA StartsJoin ==
    ASSUME NEW a, IsSeq(a), NEW b, IsSeq(b), NEW c, IsSeq(c), StartOf(a, b)
    PROVE  StartOf(a, b \o c)
  <1>1. PICK z : z = b \o c
    OBVIOUS
  <1>2. Len(z) = Len(b) + Len(c) /\ \A n \in 1..Len(b) : z[n] = b[n]
    BY <1>1, JoinFacts
  <1>3. Len(a) \in Nat /\ Len(b) \in Nat /\ Len(c) \in Nat
    BY SeqIs
  <1>4. StartOf(a, z)
    BY <1>2, <1>3 DEF StartOf
  <1> QED BY <1>1, <1>4

(* A list of which nothing is emitted.                                     *)
NoTokens(fields) == [f \in ToSet(fields) |-> <<>>]

LEMMA NothingEmitted ==
    ASSUME NEW fields, IsSeq(fields), NEW e, e = NoTokens(fields)
    PROVE  Emits(e, fields) /\ Tokens(e, fields) = <<>>
  <1>1. \A f \in ToSet(fields) : e[f] = <<>>
    BY DEF NoTokens
  <1>2. Emits(e, fields)
    BY <1>1, TokenSeq DEF Emits
  <1>3. PICK ss : ss = TokenLists(e, fields)
    OBVIOUS
  <1>4. PICK S : ss \in Seq(Seq(S))
    BY <1>2, <1>3, EmittedSeqs
  <1>5. \A n \in DOMAIN ss : ss[n] = <<>>
    <2>1. \A n \in DOMAIN fields : fields[n] \in ToSet(fields)
      BY SeqIs
    <2> QED BY <1>1, <1>3, <2>1 DEF TokenLists
  <1>6. PICK flat : flat = FlattenSeq(ss)
    OBVIOUS
  <1>7. flat \in Seq(S) /\ \A x : x \in ToSet(flat) <=> \E n \in DOMAIN ss : x \in ToSet(ss[n])
    BY <1>4, <1>6, FlattenElements
  <1>8. \A x : x \notin ToSet(flat)
    BY <1>5, <1>7, NoElements
  <1>9. Len(flat) = 0
    <2>1. IsSeq(flat)
      BY <1>7 DEF IsSeq
    <2>2. Len(flat) \in Nat /\ \A n \in 1..Len(flat) : flat[n] \in ToSet(flat)
      BY <2>1, SeqIs
    <2>3. Len(flat) = 0 \/ 1 \in 1..Len(flat)
      BY <2>2
    <2> QED BY <1>8, <2>2, <2>3
  <1>10. flat = <<>>
    BY <1>7, <1>9, EmptySeq
  <1> QED BY <1>2, <1>3, <1>6, <1>10 DEF Tokens

LEMMA JoinSix ==
    ASSUME NEW o, IsSeq(o), NEW a, IsSeq(a), NEW b, IsSeq(b), NEW c, IsSeq(c), NEW d, IsSeq(d),
           NEW e, IsSeq(e)
    PROVE  Joined(Joined(Joined(Joined(Joined(o, a), b), c), d), e)
            = Joined(o, Joined(a, Joined(b, Joined(c, Joined(d, e)))))
  <1>1. PICK x : x = Joined(Joined(o, a), b)
    OBVIOUS
  <1>2. IsSeq(x)
    <2>1. PICK y : y = Joined(o, a)
      OBVIOUS
    <2>2. IsSeq(y)
      BY <2>1, JoinFacts DEF Joined
    <2>3. x = Joined(y, b)
      BY <1>1, <2>1
    <2> QED BY <2>2, <2>3, JoinFacts DEF Joined
  <1>3. Joined(Joined(Joined(x, c), d), e) = Joined(x, Joined(c, Joined(d, e)))
    BY <1>2, JoinFour
  <1>4. PICK z : z = Joined(c, Joined(d, e))
    OBVIOUS
  <1>5. IsSeq(z)
    <2>1. PICK y : y = Joined(d, e)
      OBVIOUS
    <2>2. IsSeq(y)
      BY <2>1, JoinFacts DEF Joined
    <2>3. z = Joined(c, y)
      BY <1>4, <2>1
    <2> QED BY <2>2, <2>3, JoinFacts DEF Joined
  <1>6. Joined(Joined(Joined(o, a), b), z) = Joined(o, Joined(a, Joined(b, z)))
    BY <1>5, JoinFour
  <1> QED BY <1>1, <1>3, <1>4, <1>6

LEMMA JoinedSeq ==
    ASSUME NEW a, IsSeq(a), NEW b, IsSeq(b)
    PROVE  IsSeq(Joined(a, b))
  BY JoinFacts DEF Joined
==============================================================================
