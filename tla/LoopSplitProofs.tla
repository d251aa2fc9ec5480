-------------------------- MODULE LoopSplitProofs --------------------------
(***************************************************************************)
(* Proofs about loop splitting, for integers of any width, any bounds and  *)
(* steps and any body.  The copies of a loop that carries values are well- *)
(* formed and do what the loop's body does, and if the split point does    *)
(* not wrap the program that the pass leaves implements ForLoop; the       *)
(* copies of a loop that carries none are refused by the verifier.         *)
(***************************************************************************)
EXTENDS LoopSplit, SequenceFacts, FiniteSetTheorems

-----------------------------------------------------------------------------
(* Integers of Width bits.                                                 *)
LEMMA PowerDoubles ==
    ASSUME NEW n \in Nat
    PROVE  2^n \in Nat \ {0} /\ 2^(n + 1) = 2 * 2^n
  <1> DEFINE A == SUBSET (1..n)
             B == {s \cup {n + 1} : s \in A}
  <1>1. /\ IsFiniteSet(1..n) /\ Cardinality(1..n) = n
        /\ IsFiniteSet(1..n + 1) /\ Cardinality(1..n + 1) = n + 1
    BY FS_Interval
  <1>2. /\ IsFiniteSet(A) /\ Cardinality(A) = 2^n
        /\ Cardinality(SUBSET (1..n + 1)) = 2^(n + 1)
    BY <1>1, FS_SUBSET
  <1>3. 2^n \in Nat
    BY <1>2, FS_CardinalityType
  <1>4. A # {}
    OBVIOUS
  <1>5. 2^n # 0
    BY <1>2, <1>4, FS_EmptySet
  <1>6. IsFiniteSet(B) /\ Cardinality(B) = 2^n
    <2> DEFINE f == [s \in A |-> s \cup {n + 1}]
    <2>1. n + 1 \notin 1..n
      OBVIOUS
    <2>2. f \in Bijection(A, B)
      <3>1. \A s, t \in A : s \cup {n + 1} = t \cup {n + 1} => s = t
        BY <2>1, Zenon
      <3>2. f \in [A -> B]
        OBVIOUS
      <3>3. \A s \in A : f[s] = s \cup {n + 1}
        OBVIOUS
      <3>4. \A t \in B : \E s \in A : f[s] = t
        OBVIOUS
      <3> HIDE DEF f, A, B
      <3>5. \A s, t \in A : f[s] = f[t] => s = t
        BY <3>1, <3>3 DEF A
      <3>6. f \in Injection(A, B)
        BY <3>2, <3>5 DEF Injection, IsInjective
      <3>7. f \in Surjection(A, B)
        BY <3>2, <3>4 DEF Surjection
      <3> QED BY <3>6, <3>7 DEF Bijection
    <2>3. ExistsBijection(A, B)
      BY <2>2 DEF ExistsBijection
    <2> HIDE DEF A, B
    <2> QED BY <1>2, <2>3, FS_Bijection
  <1>7. A \cap B = {}
    <2>1. n + 1 \notin 1..n
      OBVIOUS
    <2> QED BY <2>1
  <1>8. SUBSET (1..n + 1) = A \cup B
    <2>1. \A k \in 1..n + 1 : k = n + 1 \/ k \in 1..n
      OBVIOUS
    <2>2. \A k \in 1..n : k \in 1..n + 1
      OBVIOUS
    <2>3. n + 1 \in 1..n + 1
      OBVIOUS
    <2>4. ASSUME NEW s \in SUBSET (1..n + 1) PROVE s \in A \cup B
      <3>1. CASE n + 1 \in s
        <4>1. s \ {n + 1} \in A /\ s = (s \ {n + 1}) \cup {n + 1}
          BY <2>1, <3>1
        <4> QED BY <4>1
      <3>2. CASE n + 1 \notin s
        BY <2>1, <3>2
      <3> QED BY <3>1, <3>2
    <2> QED BY <2>2, <2>3, <2>4
  <1> HIDE DEF A, B
  <1>9. Cardinality(A \cup B) = Cardinality(A) + Cardinality(B) - Cardinality(A \cap B)
    BY <1>2, <1>6, FS_Union
  <1>10. Cardinality(A \cap B) = 0
    BY <1>7, FS_EmptySet
  <1>11. 2^(n + 1) = 2^n + 2^n - 0
    BY <1>2, <1>6, <1>8, <1>9, <1>10
  <1> QED BY <1>3, <1>5, <1>11

LEMMA HalfRange ==
    \E half \in Nat \ {0} : 2^(Width - 1) = half /\ 2^Width = 2 * half
  <1>1. PICK w \in Nat : w = Width - 1 /\ w + 1 = Width
    BY WidthAssumption
  <1>2. 2^w \in Nat \ {0} /\ 2^(w + 1) = 2 * 2^w
    BY PowerDoubles
  <1> QED BY <1>1, <1>2

(* An integer of the type does not wrap, and what wraps is of the type.    *)
LEMMA WrapFacts ==
    ASSUME NEW unsigned \in BOOLEAN
    PROVE  /\ IntegersOf(unsigned) \subseteq Int
           /\ \A x \in IntegersOf(unsigned) : Wrap(unsigned, x) = x
           /\ \A x \in Int : Wrap(unsigned, x) \in IntegersOf(unsigned)
  <1>1. PICK half \in Nat \ {0} : 2^(Width - 1) = half /\ 2^Width = 2 * half
    BY HalfRange
  <1>2. PICK all \in Nat : all = 2 * half
    OBVIOUS
  <1>3. \A x \in Int : x % all \in 0..all - 1
    BY <1>2
  <1>4. \A x \in 0..all - 1 : x % all = x
    BY <1>2
  <1>5. \A x \in -half..half - 1 : x % all = IF x < 0 THEN x + all ELSE x
    BY <1>2
  <1>6. IntegersOf(unsigned) = IF unsigned THEN 0..all - 1 ELSE -half..half - 1
    BY <1>1, <1>2 DEF IntegersOf
  <1>7. \A x : Wrap(unsigned, x) = IF unsigned \/ x % all < half THEN x % all ELSE (x % all) - all
    BY <1>1, <1>2 DEF Wrap
  <1>8. CASE unsigned
    <2>1. IntegersOf(unsigned) = 0..all - 1 /\ \A x : Wrap(unsigned, x) = x % all
      BY <1>6, <1>7, <1>8
    <2>2. \A x \in 0..all - 1 : Wrap(unsigned, x) = x
      BY <1>4, <2>1
    <2>3. \A x \in Int : Wrap(unsigned, x) \in 0..all - 1
      BY <1>3, <2>1
    <2> QED BY <2>1, <2>2, <2>3
  <1>9. CASE ~unsigned
    <2>1. IntegersOf(unsigned) = -half..half - 1
      BY <1>6, <1>9
    <2>2. \A x : Wrap(unsigned, x) = IF x % all < half THEN x % all ELSE (x % all) - all
      BY <1>7, <1>9
    <2>3. ASSUME NEW x \in Int PROVE Wrap(unsigned, x) \in -half..half - 1
      <3>1. PICK bits \in 0..all - 1 : bits = x % all
        BY <1>3
      <3>2. Wrap(unsigned, x) = IF bits < half THEN bits ELSE bits - all
        BY <2>2, <3>1
      <3> QED BY <1>2, <3>2
    <2>4. \A x \in -half..half - 1 : Wrap(unsigned, x) = x
      BY <1>2, <1>5, <2>2
    <2> QED BY <2>1, <2>3, <2>4
  <1> QED BY <1>8, <1>9

(* An interval: what lies between two integers of a type is one, too.      *)
LEMMA Between ==
    ASSUME NEW unsigned \in BOOLEAN, NEW x \in IntegersOf(unsigned),
           NEW y \in IntegersOf(unsigned), NEW z \in Int, x <= z, z <= y
    PROVE  z \in IntegersOf(unsigned)
  <1>1. PICK half \in Nat \ {0} : 2^(Width - 1) = half /\ 2^Width = 2 * half
    BY HalfRange
  <1> QED BY <1>1 DEF IntegersOf

LEMMA Multiples ==
    ASSUME NEW s \in Int, s > 0, NEW j \in Int, NEW k \in Int
    PROVE  /\ j * s \in Int /\ k * s \in Int /\ (j + 1) * s = j * s + s
           /\ j < k => j * s + s <= k * s
           /\ j <= k => j * s <= k * s
  OBVIOUS

(* The least multiple of s that is not below d.                            *)
LEMMA CeilDivFacts ==
    ASSUME NEW s \in Int, s > 0, NEW d \in Int
    PROVE  /\ CeilDiv(d, s) \in Int
           /\ \A j \in Int : j * s < d <=> j < CeilDiv(d, s)
  <1>1. PICK k \in Int : k = CeilDiv(d, s) /\ k = -((-d) \div s)
    BY DEF CeilDiv
  <1>2. k * s - d \in 0..s - 1
    BY <1>1
  <1>3. ASSUME NEW j \in Int PROVE j * s < d <=> j < k
    <2>1. /\ j * s \in Int /\ k * s \in Int
          /\ j < k => j * s + s <= k * s
          /\ k <= j => k * s <= j * s
      BY Multiples
    <2> QED BY <1>2, <2>1
  <1> QED BY <1>1, <1>3

-----------------------------------------------------------------------------
(* The split point.                                                        *)
LEMMA LoopFacts ==
    ASSUME IsLoop(loop), loop.unsigned \in BOOLEAN
    PROVE  /\ loop.lb \in IntegersOf(loop.unsigned) /\ loop.ub \in IntegersOf(loop.unsigned)
           /\ loop.lb \in Int /\ loop.ub \in Int /\ loop.step \in Int /\ loop.step > 0
  BY WrapFacts DEF IsLoop

(* The least value on the far side of the comparison.                      *)
Border(cmp) == IF After(cmp) THEN cmp.value + 1 ELSE cmp.value

LEMMA BorderIsInt ==
    ASSUME NEW cmp, IsComparison(cmp)
    PROVE  cmp.value \in Int /\ Border(cmp) \in Int
  <1>1. cmp.unsigned \in BOOLEAN /\ cmp.value \in IntegersOf(cmp.unsigned)
    BY DEF IsComparison
  <1>2. cmp.value \in Int
    BY <1>1, WrapFacts
  <1> QED BY <1>2 DEF Border

(* On values of the loop's type the comparison changes at the border and   *)
(* nowhere else.                                                           *)
LEMMA FlipsAtBorder ==
    ASSUME NEW cmp, IsComparison(cmp), Ordered(cmp), NEW x \in IntegersOf(cmp.unsigned)
    PROVE  /\ SecondThen(cmp) \in BOOLEAN /\ Holds(cmp, x) \in BOOLEAN
           /\ Holds(cmp, x) = (SecondThen(cmp) <=> x >= Border(cmp))
  <1>1. /\ cmp.unsigned \in BOOLEAN /\ cmp.swapped \in BOOLEAN
        /\ cmp.value \in IntegersOf(cmp.unsigned)
    BY DEF IsComparison
  <1>2. PICK v \in Int : v = cmp.value /\ Wrap(cmp.unsigned, cmp.value) = v
    BY <1>1, WrapFacts
  <1>3. x \in Int /\ Wrap(cmp.unsigned, x) = x
    BY <1>1, WrapFacts
  <1>4. Holds(cmp, x) = IF cmp.swapped THEN Compare(cmp.pred, v, x) ELSE Compare(cmp.pred, x, v)
    BY <1>2, <1>3 DEF Holds
  <1>5. cmp.pred \in {"LESS_THAN", "LESS_THAN_OR_EQUAL", "GREATER_THAN", "GREATER_THAN_OR_EQUAL"}
    BY DEF Ordered, Mirrored
  <1>6. PICK pred : pred = Normalized(cmp)
    OBVIOUS
  <1>7. /\ pred \in {"LESS_THAN", "LESS_THAN_OR_EQUAL", "GREATER_THAN", "GREATER_THAN_OR_EQUAL"}
        /\ Holds(cmp, x) = Compare(pred, x, v)
    <2>1. CASE cmp.swapped
      <3>1. pred = Mirrored[cmp.pred] /\ Holds(cmp, x) = Compare(cmp.pred, v, x)
        BY <1>4, <1>6, <2>1 DEF Normalized
      <3>2. CASE cmp.pred = "LESS_THAN"
        BY <1>2, <1>3, <3>1, <3>2 DEF Mirrored, Compare
      <3>3. CASE cmp.pred = "LESS_THAN_OR_EQUAL"
        BY <1>2, <1>3, <3>1, <3>3 DEF Mirrored, Compare
      <3>4. CASE cmp.pred = "GREATER_THAN"
        BY <1>2, <1>3, <3>1, <3>4 DEF Mirrored, Compare
      <3>5. CASE cmp.pred = "GREATER_THAN_OR_EQUAL"
        BY <1>2, <1>3, <3>1, <3>5 DEF Mirrored, Compare
      <3> QED BY <1>5, <3>2, <3>3, <3>4, <3>5
    <2>2. CASE ~cmp.swapped
      BY <1>4, <1>5, <1>6, <2>2 DEF Normalized
    <2> QED BY <1>1, <2>1, <2>2
  <1>8. /\ SecondThen(cmp) <=> pred \in {"GREATER_THAN", "GREATER_THAN_OR_EQUAL"}
        /\ After(cmp) <=> pred \in {"GREATER_THAN", "LESS_THAN_OR_EQUAL"}
        /\ SecondThen(cmp) \in BOOLEAN
    BY <1>6 DEF SecondThen, After
  <1>9. Border(cmp) = IF pred \in {"GREATER_THAN", "LESS_THAN_OR_EQUAL"} THEN v + 1 ELSE v
    BY <1>2, <1>8 DEF Border
  <1>10. Compare(pred, x, v) = (pred \in {"GREATER_THAN", "GREATER_THAN_OR_EQUAL"} <=> x >= Border(cmp))
    <2>1. CASE pred = "LESS_THAN"
      BY <1>3, <1>9, <2>1 DEF Compare
    <2>2. CASE pred = "LESS_THAN_OR_EQUAL"
      BY <1>3, <1>9, <2>2 DEF Compare
    <2>3. CASE pred = "GREATER_THAN"
      BY <1>3, <1>9, <2>3 DEF Compare
    <2>4. CASE pred = "GREATER_THAN_OR_EQUAL"
      BY <1>3, <1>9, <2>4 DEF Compare
    <2> QED BY <1>7, <2>1, <2>2, <2>3, <2>4
  <1> QED BY <1>7, <1>8, <1>10

(* Where the pass splits is a value of the induction variable (or would be *)
(* if the loop went that far down or up), and no value of it lies between  *)
(* the border and the split point.                                         *)
Splits(point, border) ==
    \E k \in Int :
        /\ point = loop.lb + k * loop.step
        /\ \A j \in Int : loop.lb + j * loop.step < border <=> j < k

LEMMA PointIsAligned ==
    ASSUME IsLoop(loop), loop.unsigned \in BOOLEAN,
           NEW cmp, IsComparison(cmp), cmp.unsigned = loop.unsigned, Exact(loop, cmp)
    PROVE  Splits(Aligned(Point(cmp)), Border(cmp))
  <1>1. /\ loop.lb \in IntegersOf(loop.unsigned)
        /\ loop.lb \in Int /\ loop.step \in Int /\ loop.step > 0
    BY LoopFacts
  <1>2. PICK border \in Int : border = Border(cmp)
    BY BorderIsInt
  <1>3. border \in IntegersOf(loop.unsigned)
    BY <1>2 DEF Exact, Border
  <1>4. Point(cmp) = border
    <2>1. CASE After(cmp)
      BY <1>2, <1>3, <2>1, WrapFacts DEF Point, Wrapped, Border
    <2>2. CASE ~After(cmp)
      BY <1>2, <2>2 DEF Point, Border
    <2> QED BY <2>1, <2>2
  <1>5. PICK lb \in Int : lb = loop.lb
    BY <1>1
  <1>6. PICK stride \in Int : stride = loop.step /\ stride > 0
    BY <1>1
  <1>7. PICK diff \in Int : diff = border - lb
    OBVIOUS
  <1>8. PICK k \in Int : k = CeilDiv(diff, stride) /\ \A j \in Int : j * stride < diff <=> j < k
    BY <1>6, CeilDivFacts
  <1>9. \A j \in Int : lb + j * stride < border <=> j < k
    <2>1. ASSUME NEW j \in Int PROVE lb + j * stride < border <=> j * stride < diff
      <3>1. j * stride \in Int
        BY <1>6, Multiples
      <3> QED BY <1>7, <3>1
    <2> QED BY <1>8, <2>1
  <1>10. Aligned(border) = lb + k * stride
    <2>1. CASE loop.stepIsConstOne
      <3>1. stride = 1
        BY <1>6, <2>1 DEF IsLoop
      <3>2. k = diff
        <4>1. \A j \in Int : j * stride = j
          BY <3>1
        <4> QED BY <1>8, <4>1
      <3>3. Aligned(border) = border
        BY <2>1 DEF Aligned
      <3>4. k * stride = k
        BY <3>1
      <3> QED BY <1>7, <3>2, <3>3, <3>4
    <2>2. CASE ~loop.stepIsConstOne
      <3>1. {border - lb, CeilDiv(border - lb, stride) * stride, lb + CeilDiv(border - lb, stride) * stride}
               \subseteq IntegersOf(loop.unsigned)
        BY <1>2, <1>5, <1>6, <2>2 DEF Exact, Border
      <3>2. {diff, k * stride, lb + k * stride} \subseteq IntegersOf(loop.unsigned)
        BY <1>7, <1>8, <3>1
      <3>3. /\ Wrapped(diff) = diff /\ Wrapped(k * stride) = k * stride
            /\ Wrapped(lb + k * stride) = lb + k * stride
        BY <3>2, WrapFacts DEF Wrapped
      <3>4. Aligned(border) = LET d == Wrapped(border - lb) IN Wrapped(lb + Wrapped(CeilDiv(d, stride) * stride))
        BY <1>5, <1>6, <2>2 DEF Aligned
      <3> QED BY <1>7, <1>8, <3>3, <3>4
    <2> QED BY <2>1, <2>2
  <1>11. \E i \in Int : /\ lb + k * stride = lb + i * stride
                        /\ \A j \in Int : lb + j * stride < border <=> j < i
    BY <1>9
  <1> QED BY <1>2, <1>4, <1>5, <1>6, <1>10, <1>11 DEF Splits

-----------------------------------------------------------------------------
(* What a body does: a fold, one operation after the other.                *)
Nothing == [trace |-> <<>>, over |-> FALSE]
RunState == [trace : Seq(Nat \X BOOLEAN), over : BOOLEAN]
Executable(op, D) == IsOp(op) /\ (Uses(op) => op.cmp \in D)

(* The cases of Step.                                                      *)
Stepped(run, op, conds) ==
    /\ run.over \/ op.kind = "cmp" => Step(run, op, conds) = run
    /\ ~run.over /\ op.kind = "if" =>
          Step(run, op, conds) =
             IF Region(op, conds[op.cmp]).present
             THEN [trace |-> Append(run.trace, <<op.id, conds[op.cmp]>>),
                   over |-> Region(op, conds[op.cmp]).continues]
             ELSE run
    /\ ~run.over /\ op.kind = "continue" =>
          Step(run, op, conds) = [trace |-> run.trace, over |-> TRUE]
    /\ ~run.over /\ op.kind = "op" =>
          Step(run, op, conds) = [trace |-> Append(run.trace, <<op.id, op.side>>), over |-> op.ends]
    /\ ~run.over /\ op.kind \in {"use", "nested"} =>
          Step(run, op, conds) =
             [trace |-> Append(run.trace, <<op.id, conds[op.cmp]>>), over |-> op.ends]

LEMMA StepIs ==
    ASSUME NEW op, NEW conds, NEW run \in RunState
    PROVE  Stepped(run, op, conds)
  <1>1. PICK trace \in Seq(Nat \X BOOLEAN), over \in BOOLEAN : run = [trace |-> trace, over |-> over]
    BY DEF RunState
  <1>2. run.over \/ op.kind = "cmp" => Step(run, op, conds) = run
    BY DEF Step
  <1>3. ~run.over /\ op.kind = "if" =>
           Step(run, op, conds) =
             IF Region(op, conds[op.cmp]).present
             THEN [trace |-> Append(run.trace, <<op.id, conds[op.cmp]>>),
                   over |-> Region(op, conds[op.cmp]).continues]
             ELSE run
    <2> SUFFICES ASSUME ~run.over, op.kind = "if"
                 PROVE  Step(run, op, conds) =
                           IF Region(op, conds[op.cmp]).present
                           THEN [trace |-> Append(run.trace, <<op.id, conds[op.cmp]>>),
                                 over |-> Region(op, conds[op.cmp]).continues]
                           ELSE run
      OBVIOUS
    <2>1. ~(run.over \/ op.kind = "cmp") /\ op.kind # "continue" /\ op.kind = "if"
      OBVIOUS
    <2> QED BY <2>1, Zenon DEF Step
  <1>4. ~run.over /\ op.kind = "continue" =>
           Step(run, op, conds) = [trace |-> run.trace, over |-> TRUE]
    <2>1. [run EXCEPT !.over = TRUE] = [trace |-> run.trace, over |-> TRUE]
      <3>1. PICK o : o = TRUE
        OBVIOUS
      <3>2. [run EXCEPT !.over = o] = [trace |-> trace, over |-> o] /\ run.trace = trace
        BY <1>1
      <3> QED BY <3>1, <3>2, Zenon
    <2> SUFFICES ASSUME ~run.over, op.kind = "continue"
                 PROVE  Step(run, op, conds) = [run EXCEPT !.over = TRUE]
      BY <2>1
    <2>2. ~(run.over \/ op.kind = "cmp") /\ op.kind = "continue"
      OBVIOUS
    <2> QED BY <2>2, Zenon DEF Step
  <1>5. ASSUME ~run.over, op.kind \in {"op", "use", "nested"}
        PROVE  Step(run, op, conds) =
                  [trace |-> Append(run.trace, <<op.id, IF op.kind = "op" THEN op.side
                                                        ELSE conds[op.cmp]>>),
                   over |-> op.ends]
    <2>1. ~(run.over \/ op.kind = "cmp") /\ op.kind # "continue" /\ op.kind # "if"
      BY <1>5
    <2> QED BY <2>1, Zenon DEF Step
  <1> QED BY <1>2, <1>3, <1>4, <1>5 DEF Stepped

LEMMA StepTyped ==
    ASSUME NEW D, NEW conds \in [D -> BOOLEAN], NEW op, Executable(op, D), NEW run \in RunState
    PROVE  Step(run, op, conds) \in RunState
  <1>1. Stepped(run, op, conds)
    BY StepIs
  <1>2. /\ op.id \in Nat /\ op.kind \in {"op", "cmp", "use", "nested", "if", "continue"}
        /\ op.side \in BOOLEAN /\ op.ends \in BOOLEAN
        /\ \A taken \in BOOLEAN : Region(op, taken).continues \in BOOLEAN
        /\ op.kind \in {"use", "nested", "if"} => conds[op.cmp] \in BOOLEAN
    BY DEF Executable, IsOp, Region, Uses
  <1>3. run.trace \in Seq(Nat \X BOOLEAN) /\ run.over \in BOOLEAN
    BY DEF RunState
  <1>4. \A taken, o \in BOOLEAN :
           [trace |-> Append(run.trace, <<op.id, taken>>), over |-> o] \in RunState
    <2> SUFFICES ASSUME NEW taken \in BOOLEAN, NEW o \in BOOLEAN
                 PROVE  [trace |-> Append(run.trace, <<op.id, taken>>), over |-> o] \in RunState
      OBVIOUS
    <2>1. PICK t : t = Append(run.trace, <<op.id, taken>>)
      OBVIOUS
    <2>2. <<op.id, taken>> \in Nat \X BOOLEAN
      BY <1>2
    <2>3. t \in Seq(Nat \X BOOLEAN)
      BY <1>3, <2>1, <2>2, AppendProperties
    <2> QED BY <2>1, <2>3 DEF RunState
  <1>5. CASE run.over \/ op.kind = "cmp"
    BY <1>1, <1>5 DEF Stepped
  <1>6. CASE ~run.over /\ op.kind = "if"
    <2>1. conds[op.cmp] \in BOOLEAN /\ Region(op, conds[op.cmp]).continues \in BOOLEAN
      BY <1>2, <1>6
    <2>2. Step(run, op, conds) =
             IF Region(op, conds[op.cmp]).present
             THEN [trace |-> Append(run.trace, <<op.id, conds[op.cmp]>>),
                   over |-> Region(op, conds[op.cmp]).continues]
             ELSE run
      BY <1>1, <1>6, Zenon DEF Stepped
    <2> QED BY <1>4, <2>1, <2>2, Zenon
  <1>7. CASE ~run.over /\ op.kind = "op"
    <2>1. Step(run, op, conds) = [trace |-> Append(run.trace, <<op.id, op.side>>), over |-> op.ends]
      BY <1>1, <1>7, Zenon DEF Stepped
    <2> QED BY <1>2, <1>4, <2>1, Zenon
  <1>8. CASE ~run.over /\ op.kind \in {"use", "nested"}
    <2>1. Step(run, op, conds) = [trace |-> Append(run.trace, <<op.id, conds[op.cmp]>>), over |-> op.ends]
      BY <1>1, <1>8, Zenon DEF Stepped
    <2>2. conds[op.cmp] \in BOOLEAN
      BY <1>2, <1>8
    <2> QED BY <1>2, <1>4, <2>1, <2>2, Zenon
  <1>9. CASE ~run.over /\ op.kind = "continue"
    <2>1. Step(run, op, conds) = [trace |-> run.trace, over |-> TRUE]
      BY <1>1, <1>9, Zenon DEF Stepped
    <2> QED BY <1>3, <2>1 DEF RunState
  <1> QED BY <1>2, <1>3, <1>5, <1>6, <1>7, <1>8, <1>9

Executed(s, conds) ==
    FoldLeft(LAMBDA run, op : Step(run, op, conds), [trace |-> <<>>, over |-> FALSE], s)

LEMMA ExecutedIs ==
    ASSUME NEW s, NEW conds
    PROVE  Executed(s, conds) =
              (CHOOSE f : f = [d \in SUBSET DOMAIN s |->
                                  IF d = {} THEN Nothing
                                  ELSE Step(f[d \ {Greatest(d)}], s[Greatest(d)], conds)])[DOMAIN s]
  BY Zenon DEF Executed, FoldLeft, MapThenFoldSet, Nothing, Max, Greatest

LEMMA ExecuteIs ==
    ASSUME NEW s, NEW conds
    PROVE  Execute(s, conds) = Executed(s, conds).trace
  BY DEF Execute, Executed

Code(s, D) == (\E S : s \in Seq(S)) /\ \A n \in 1..Len(s) : Executable(s[n], D)

Executes(r, s, conds) ==
    /\ r[0] = Nothing /\ r[Len(s)] = Executed(s, conds)
    /\ \A n \in 1..Len(s) : r[n] = Step(r[n - 1], s[n], conds)
    /\ \A n \in 0..Len(s) : r[n] \in RunState

LEMMA InitialSegments ==
    ASSUME NEW n \in Nat \ {0}
    PROVE  Greatest(1..n) = n /\ (1..n) \ {n} = 1..n - 1 /\ 1..n # {}
  <1>1. PICK s : s = 1..n
    OBVIOUS
  <1>2. n \in Nat /\ n \in s /\ s \subseteq 1..n
    BY <1>1
  <1>3. Greatest(s) = n
    BY <1>2, GreatestIs
  <1> QED BY <1>1, <1>3

LEMMA ExecutionExists ==
    ASSUME NEW D, NEW conds \in [D -> BOOLEAN], NEW s, Code(s, D)
    PROVE  \E r : Executes(r, s, conds)
  <1> DEFINE N == Len(s)
             fold == [p \in (1..N) \X RunState |-> Step(p[2], s[p[1]], conds)]
  <1>1. N \in Nat /\ DOMAIN s = 1..N /\ \A n \in 1..N : Executable(s[n], D)
    BY LenProperties DEF Code
  <1> HIDE DEF N
  <1>2. \A n \in 1..N : \A run \in RunState : Step(run, s[n], conds) \in RunState
    BY <1>1, StepTyped
  <1>3. fold \in [(1..N) \X RunState -> RunState]
    BY <1>2
  <1>4. \A n \in 1..N : \A run \in RunState : fold[<<n, run>>] = Step(run, s[n], conds)
    OBVIOUS
  <1> HIDE DEF fold
  <1>n. Nothing \in RunState
    BY DEF Nothing, RunState
  <1>5. PICK f : FoldsTo(f, N, RunState, Nothing, fold)
    BY <1>1, <1>3, <1>n, FoldExists
  <1>6. /\ f \in [SUBSET (1..N) -> RunState]
        /\ \A d \in SUBSET (1..N) :
              f[d] = IF d = {} THEN Nothing ELSE fold[<<Greatest(d), f[d \ {Greatest(d)}]>>]
    BY <1>5 DEF FoldsTo
  <1>7. \A d \in SUBSET (1..N) : d # {} =>
            /\ Greatest(d) \in 1..N /\ d \ {Greatest(d)} \in SUBSET (1..N)
            /\ f[d \ {Greatest(d)}] \in RunState
    BY <1>1, <1>6, GreatestIn
  <1>8. f = [d \in SUBSET (1..N) |-> IF d = {} THEN Nothing
                                     ELSE Step(f[d \ {Greatest(d)}], s[Greatest(d)], conds)]
    <2>1. \A d \in SUBSET (1..N) :
              f[d] = IF d = {} THEN Nothing ELSE Step(f[d \ {Greatest(d)}], s[Greatest(d)], conds)
      BY <1>4, <1>6, <1>7
    <2> QED BY <1>6, <2>1
  <1>9. PICK g : /\ g = [d \in SUBSET (1..N) |-> IF d = {} THEN Nothing
                                     ELSE Step(g[d \ {Greatest(d)}], s[Greatest(d)], conds)]
                 /\ Executed(s, conds) = g[1..N]
    BY <1>1, <1>8, ExecutedIs
  <1> DEFINE r == [n \in 0..N |-> g[1..n]]
  <1>10. r[0] = Nothing
    BY <1>1, <1>9
  <1>11. r[N] = Executed(s, conds)
    <2>1. r[N] = g[1..N]
      BY <1>1
    <2> HIDE DEF r
    <2> QED BY <1>9, <2>1
  <1>12. ASSUME NEW n \in 1..N PROVE r[n] = Step(r[n - 1], s[n], conds)
    <2>1. Greatest(1..n) = n /\ (1..n) \ {n} = 1..n - 1 /\ 1..n # {}
      BY InitialSegments
    <2>2. 1..n \in SUBSET (1..N) /\ n \in 0..N /\ n - 1 \in 0..N
      BY <1>1
    <2>3. g[1..n] = Step(g[1..n - 1], s[n], conds)
      BY <1>9, <2>1, <2>2
    <2> QED BY <2>2, <2>3
  <1> HIDE DEF r
  <1> DEFINE Reached == {n \in Nat : n <= N => r[n] \in RunState}
  <1>13. \A n \in Nat : n \in Reached <=> (n <= N => r[n] \in RunState)
    OBVIOUS
  <1> HIDE DEF Reached
  <1>14. ASSUME NEW n \in Nat, n \in Reached, n + 1 <= N PROVE r[n + 1] \in RunState
    <2>1. n + 1 \in 1..N /\ n + 1 - 1 = n
      BY <1>1, <1>14
    <2>2. r[n] \in RunState
      BY <1>1, <1>13, <1>14
    <2>3. r[n + 1] = Step(r[n], s[n + 1], conds)
      BY <1>12, <2>1
    <2> QED BY <1>2, <2>1, <2>2, <2>3
  <1>15. Nat \subseteq Reached
    BY <1>10, <1>n, <1>13, <1>14, InductionOn
  <1>16. \A n \in 0..N : r[n] \in RunState
    BY <1>13, <1>15
  <1>17. Executes(r, s, conds)
    BY <1>10, <1>11, <1>12, <1>16 DEF Executes, N
  <1> QED BY <1>17

LEMMA ExecutedTyped ==
    ASSUME NEW D, NEW conds \in [D -> BOOLEAN], NEW s, Code(s, D)
    PROVE  Executed(s, conds) \in RunState
  <1>1. PICK r : Executes(r, s, conds)
    BY ExecutionExists
  <1>2. Len(s) \in 0..Len(s)
    BY LenProperties DEF Code
  <1> QED BY <1>1, <1>2 DEF Executes

LEMMA ExecutedNone ==
    ASSUME NEW D, NEW conds \in [D -> BOOLEAN]
    PROVE  Code(<<>>, D) /\ Executed(<<>>, conds) = Nothing
  <1>a. PICK s : s = <<>>
    OBVIOUS
  <1>1. s = <<>> /\ Len(s) = 0 /\ s \in Seq({})
    BY <1>a
  <1>2. Code(s, D)
    BY <1>1 DEF Code
  <1>3. PICK r : Executes(r, s, conds)
    BY <1>2, ExecutionExists
  <1> QED BY <1>1, <1>2, <1>3 DEF Executes

(* What a body with one more operation does.                               *)
LEMMA ExecutedMore ==
    ASSUME NEW D, NEW conds \in [D -> BOOLEAN], NEW s, Code(s, D), NEW op, Executable(op, D)
    PROVE  /\ Code(Append(s, op), D)
           /\ Executed(Append(s, op), conds) = Step(Executed(s, conds), op, conds)
  <1>1. PICK S : s \in Seq(S)
    BY DEF Code
  <1>a. PICK T : T = S \cup {op}
    OBVIOUS
  <1>2. s \in Seq(T) /\ op \in T
    BY <1>1, <1>a
  <1>3. PICK N \in Nat : N = Len(s)
    BY <1>1, LenProperties
  <1>4. PICK t : t = Append(s, op)
    OBVIOUS
  <1>5. /\ t \in Seq(T) /\ Len(t) = N + 1
        /\ \A n \in 1..N : t[n] = s[n]
        /\ t[N + 1] = op
    BY <1>2, <1>3, <1>4, AppendFacts
  <1>6. Code(t, D)
    <2>1. \A n \in 1..N + 1 : n \in 1..N \/ n = N + 1
      OBVIOUS
    <2> QED BY <1>3, <1>5, <2>1 DEF Code
  <1>7. PICK r : Executes(r, s, conds)
    BY ExecutionExists
  <1>8. PICK q : Executes(q, t, conds)
    BY <1>6, ExecutionExists
  <1>9. /\ r[0] = Nothing /\ r[N] = Executed(s, conds)
        /\ \A n \in 1..N : r[n] = Step(r[n - 1], s[n], conds)
    BY <1>3, <1>7 DEF Executes
  <1>10. /\ q[0] = Nothing /\ q[N + 1] = Executed(t, conds)
         /\ \A n \in 1..N + 1 : q[n] = Step(q[n - 1], t[n], conds)
    BY <1>5, <1>8 DEF Executes
  <1> DEFINE Same(n) == q[n] = r[n]
             Reached == {n \in Nat : n <= N => Same(n)}
  <1> HIDE DEF Same
  <1>c. \A n \in Nat : n \in Reached <=> (n <= N => Same(n))
    OBVIOUS
  <1> HIDE DEF Reached
  <1>11. \A n \in Nat : n \in Reached <=> (n <= N => q[n] = r[n])
    BY <1>c DEF Same
  <1>12. ASSUME NEW n \in Nat, n \in Reached, n + 1 <= N PROVE q[n + 1] = r[n + 1]
    <2>1. n + 1 \in 1..N /\ n + 1 \in 1..N + 1 /\ n + 1 - 1 = n
      BY <1>12
    <2>2. q[n] = r[n]
      BY <1>11, <1>12
    <2> QED BY <1>5, <1>9, <1>10, <2>1, <2>2
  <1>13. Nat \subseteq Reached
    <2>1. 0 \in Reached
      BY <1>9, <1>10, <1>11
    <2>2. \A n \in Nat : n \in Reached => n + 1 \in Reached
      BY <1>11, <1>12
    <2> QED BY <2>1, <2>2, InductionOn
  <1>14. q[N] = r[N]
    BY <1>11, <1>13
  <1>15. N + 1 \in 1..N + 1 /\ N + 1 - 1 = N
    OBVIOUS
  <1>16. q[N + 1] = Step(q[N], op, conds)
    BY <1>5, <1>10, <1>15
  <1> QED BY <1>4, <1>6, <1>9, <1>10, <1>14, <1>16

-----------------------------------------------------------------------------
(* What copyLoop makes of a body.                                          *)
Inlined(o, op, thenSide) ==
    /\ IsOp(o) /\ o.kind = "op" /\ o.id = op.id /\ o.side = thenSide
    /\ o.ends = Region(op, thenSide).continues

LEMMA InlineIs ==
    ASSUME NEW op, IsOp(op), NEW thenSide \in BOOLEAN
    PROVE  Inlined(Inline(op, thenSide), op, thenSide)
  <1>1. PICK ends \in BOOLEAN : ends = Region(op, thenSide).continues
    BY DEF IsOp, Region
  <1>2. /\ op = [id |-> op.id, kind |-> op.kind, cmp |-> op.cmp, then |-> op.then,
                 else |-> op.else, hint |-> op.hint, heavy |-> op.heavy, side |-> op.side,
                 ends |-> op.ends]
        /\ op.id \in Nat
        /\ {op.then.continues, op.else.continues} \subseteq BOOLEAN
    BY DEF IsOp
  <1>3. PICK id, kind, cmp, then, else, hint, heavy, side, ending :
            /\ id = op.id /\ then = op.then /\ else = op.else
            /\ op = [id |-> id, kind |-> kind, cmp |-> cmp, then |-> then, else |-> else,
                     hint |-> hint, heavy |-> heavy, side |-> side, ends |-> ending]
    BY <1>2
  <1>4. [op EXCEPT !.kind = "op", !.side = thenSide, !.ends = ends] =
           [id |-> id, kind |-> "op", cmp |-> cmp, then |-> then, else |-> else,
            hint |-> hint, heavy |-> heavy, side |-> thenSide, ends |-> ends]
    <2>1. PICK p : p = [id |-> id, kind |-> kind, cmp |-> cmp, then |-> then, else |-> else,
                        hint |-> hint, heavy |-> heavy, side |-> side, ends |-> ending]
      OBVIOUS
    <2>2. PICK q : q = [p EXCEPT !.kind = "op"]
      OBVIOUS
    <2>3. q = [id |-> id, kind |-> "op", cmp |-> cmp, then |-> then, else |-> else,
               hint |-> hint, heavy |-> heavy, side |-> side, ends |-> ending]
      BY <2>1, <2>2
    <2>4. PICK r : r = [q EXCEPT !.side = thenSide]
      OBVIOUS
    <2>5. r = [id |-> id, kind |-> "op", cmp |-> cmp, then |-> then, else |-> else,
               hint |-> hint, heavy |-> heavy, side |-> thenSide, ends |-> ending]
      BY <2>3, <2>4
    <2>6. [r EXCEPT !.ends = ends] =
              [id |-> id, kind |-> "op", cmp |-> cmp, then |-> then, else |-> else,
               hint |-> hint, heavy |-> heavy, side |-> thenSide, ends |-> ends]
      BY <2>5
    <2>7. [p EXCEPT !.kind = "op", !.side = thenSide, !.ends = ends] = [r EXCEPT !.ends = ends]
      BY <2>2, <2>4, Zenon
    <2>8. op = p
      BY <1>3, <2>1
    <2> QED BY <2>6, <2>7, <2>8
  <1>5. PICK o : o = Inline(op, thenSide)
    OBVIOUS
  <1>6. o = [id |-> id, kind |-> "op", cmp |-> cmp, then |-> then, else |-> else,
             hint |-> hint, heavy |-> heavy, side |-> thenSide, ends |-> ends]
    BY <1>1, <1>4, <1>5, Zenon DEF Inline
  <1>7. /\ o.id = id /\ o.kind = "op" /\ o.side = thenSide /\ o.ends = ends
        /\ o.then = then /\ o.else = else /\ o.cmp = cmp /\ o.hint = hint /\ o.heavy = heavy
    BY <1>6
  <1>8. IsOp(o)
    <2>1. o = [id |-> o.id, kind |-> o.kind, cmp |-> o.cmp, then |-> o.then, else |-> o.else,
               hint |-> o.hint, heavy |-> o.heavy, side |-> o.side, ends |-> o.ends]
      BY <1>6, <1>7, Zenon
    <2>2. /\ o.id \in Nat /\ o.kind \in {"op", "cmp", "use", "nested", "if", "continue"}
          /\ {o.side, o.ends, o.then.continues, o.else.continues} \subseteq BOOLEAN
      BY <1>2, <1>3, <1>7
    <2> QED BY <2>1, <2>2 DEF IsOp
  <1> QED BY <1>1, <1>3, <1>5, <1>7, <1>8 DEF Inlined

LEMMA BodyFacts ==
    ASSUME IsLoop(loop)
    PROVE  /\ Len(loop.body) \in Nat \ {0} /\ DOMAIN loop.body = 1..Len(loop.body)
           /\ Code(loop.body, DOMAIN loop.cmps)
           /\ \A n \in 1..Len(loop.body) :
                 /\ IsOp(loop.body[n])
                 /\ loop.body[n].ends <=> loop.body[n].kind = "continue"
                 /\ loop.body[n].ends <=> n = Len(loop.body)
                 /\ Uses(loop.body[n]) \/ loop.body[n].kind = "cmp" =>
                       loop.body[n].cmp \in DOMAIN loop.cmps
                 /\ Uses(loop.body[n]) =>
                       \E k \in 1..(n - 1) :
                          loop.body[k].kind = "cmp" /\ loop.body[k].cmp = loop.body[n].cmp
  <1>1. IsBody(loop.body, loop.cmps)
    BY DEF IsLoop
  <1>2. loop.body \in Seq(ToSet(loop.body)) /\ loop.body # <<>>
    BY <1>1 DEF IsBody, WellFormed
  <1>3. Len(loop.body) \in Nat \ {0} /\ DOMAIN loop.body = 1..Len(loop.body)
    BY <1>2, LenProperties, EmptySeq
  <1>4. \A n \in 1..Len(loop.body) :
                 /\ IsOp(loop.body[n])
                 /\ loop.body[n].ends <=> loop.body[n].kind = "continue"
                 /\ Uses(loop.body[n]) \/ loop.body[n].kind = "cmp" =>
                       loop.body[n].cmp \in DOMAIN loop.cmps
    BY <1>1, <1>3 DEF IsBody
  <1>5. WellFormed(loop.body)
    BY <1>1 DEF IsBody
  <1>6. \A n \in 1..Len(loop.body) :
                 /\ loop.body[n].ends <=> n = Len(loop.body)
                 /\ Uses(loop.body[n]) =>
                       \E k \in 1..(n - 1) :
                          loop.body[k].kind = "cmp" /\ loop.body[k].cmp = loop.body[n].cmp
    BY <1>3, <1>5 DEF WellFormed
  <1>7. Code(loop.body, DOMAIN loop.cmps)
    BY <1>2, <1>4 DEF Code, Executable
  <1> QED BY <1>3, <1>4, <1>6, <1>7

Dropped(op) == op.kind = "cmp" /\ op.cmp = split.cmp /\ ~CopyCmp(split.cmp)
NoCopy == [ops |-> <<>>, closed |-> FALSE]

(* The cases of CopyOp.                                                    *)
Copied(copy, n, thenSide) ==
    /\ copy.closed \/ Dropped(loop.body[n]) => CopyOp(copy, n, thenSide) = copy
    /\ ~copy.closed /\ ~Dropped(loop.body[n]) /\ n \notin IfOps(split.cmp) =>
          CopyOp(copy, n, thenSide) =
             [ops |-> Append(copy.ops, loop.body[n]), closed |-> loop.body[n].ends]
    /\ ~copy.closed /\ n \in IfOps(split.cmp) /\ ~Region(loop.body[n], thenSide).present =>
          CopyOp(copy, n, thenSide) = copy
    /\ ~copy.closed /\ n \in IfOps(split.cmp) /\ Region(loop.body[n], thenSide).present =>
          CopyOp(copy, n, thenSide) =
             [ops |-> Append(copy.ops, Inline(loop.body[n], thenSide)),
              closed |-> Inline(loop.body[n], thenSide).ends]

LEMMA IfOpsAre ==
    ASSUME NEW n, n \in IfOps(split.cmp)
    PROVE  /\ loop.body[n].kind = "if" /\ loop.body[n].cmp = split.cmp
           /\ ~Dropped(loop.body[n])
  BY DEF IfOps, Users, Dropped

LEMMA CopyOpIs ==
    ASSUME NEW copy, NEW n, NEW thenSide
    PROVE  Copied(copy, n, thenSide)
  <1>1. PICK op : op = loop.body[n]
    OBVIOUS
  <1>2. copy.closed \/ Dropped(op) => CopyOp(copy, n, thenSide) = copy
    BY <1>1 DEF CopyOp, Dropped
  <1>3. ASSUME ~copy.closed, ~Dropped(op)
        PROVE  CopyOp(copy, n, thenSide) =
                  IF n \notin IfOps(split.cmp) THEN Clone(copy, op)
                  ELSE IF ~Region(op, thenSide).present THEN copy
                  ELSE Clone(copy, Inline(op, thenSide))
    <2>1. ~(copy.closed \/ (op.kind = "cmp" /\ op.cmp = split.cmp /\ ~CopyCmp(split.cmp)))
      BY <1>3 DEF Dropped
    <2> QED BY <1>1, <2>1, Zenon DEF CopyOp
  <1>4. \A o : Clone(copy, o) = [ops |-> Append(copy.ops, o), closed |-> o.ends]
    BY DEF Clone
  <1>5. n \in IfOps(split.cmp) => ~Dropped(op)
    BY <1>1, IfOpsAre
  <1>6. ~copy.closed /\ ~Dropped(op) /\ n \notin IfOps(split.cmp) =>
           CopyOp(copy, n, thenSide) = [ops |-> Append(copy.ops, op), closed |-> op.ends]
    BY <1>3, <1>4
  <1>7. ~copy.closed /\ n \in IfOps(split.cmp) /\ Region(op, thenSide).present =>
           CopyOp(copy, n, thenSide) = [ops |-> Append(copy.ops, Inline(op, thenSide)),
                                        closed |-> Inline(op, thenSide).ends]
    BY <1>3, <1>4, <1>5, Zenon
  <1> QED BY <1>1, <1>2, <1>3, <1>5, <1>6, <1>7 DEF Copied

Copies(c, thenSide) ==
    /\ c[0] = NoCopy /\ c[Len(loop.body)].ops = Cloned(thenSide)
    /\ \A n \in 1..Len(loop.body) : c[n] = CopyOp(c[n - 1], n, thenSide)

LEMMA ClonedIs ==
    ASSUME NEW thenSide
    PROVE  LET ids == [i \in DOMAIN loop.body |-> i] IN
           Cloned(thenSide) =
              (CHOOSE f : f = [d \in SUBSET DOMAIN ids |->
                                  IF d = {} THEN NoCopy
                                  ELSE CopyOp(f[d \ {Greatest(d)}], ids[Greatest(d)], thenSide)])
                 [DOMAIN ids].ops
  BY Zenon DEF Cloned, FoldLeftDomain, FoldLeft, MapThenFoldSet, NoCopy, Max, Greatest

LEMMA CopyExists ==
    ASSUME IsLoop(loop), NEW thenSide \in BOOLEAN
    PROVE  \E c : Copies(c, thenSide)
  <1> DEFINE N == Len(loop.body)
             V == {loop.body[n] : n \in 1..N} \cup {Inline(loop.body[n], thenSide) : n \in 1..N}
             C == [ops : Seq(V), closed : BOOLEAN]
             fold == [p \in (1..N) \X C |-> CopyOp(p[2], p[1], thenSide)]
  <1>1. N \in Nat /\ DOMAIN loop.body = 1..N
    BY BodyFacts
  <1>2. \A n \in 1..N : /\ loop.body[n] \in V /\ Inline(loop.body[n], thenSide) \in V
                        /\ loop.body[n].ends \in BOOLEAN
                        /\ Inline(loop.body[n], thenSide).ends \in BOOLEAN
    <2> SUFFICES ASSUME NEW n \in 1..N
                 PROVE  /\ loop.body[n] \in V /\ Inline(loop.body[n], thenSide) \in V
                        /\ loop.body[n].ends \in BOOLEAN
                        /\ Inline(loop.body[n], thenSide).ends \in BOOLEAN
      BY Zenon
    <2>1. PICK o : o = loop.body[n]
      OBVIOUS
    <2>2. IsOp(o)
      BY <2>1, BodyFacts
    <2>3. PICK p : p = Inline(o, thenSide)
      OBVIOUS
    <2>4. IsOp(p)
      BY <2>2, <2>3, InlineIs DEF Inlined
    <2>5. o.ends \in BOOLEAN /\ p.ends \in BOOLEAN
      BY <2>2, <2>4 DEF IsOp
    <2> QED BY <2>1, <2>3, <2>5, Zenon
  <1> HIDE DEF N, V
  <1>3. ASSUME NEW n \in 1..N, NEW copy \in C PROVE CopyOp(copy, n, thenSide) \in C
    <2>1. copy.ops \in Seq(V) /\ copy.closed \in BOOLEAN
      OBVIOUS
    <2>2. ASSUME NEW op \in V, NEW closed \in BOOLEAN
          PROVE  [ops |-> Append(copy.ops, op), closed |-> closed] \in C
      <3>1. PICK s : s = Append(copy.ops, op)
        OBVIOUS
      <3>2. s \in Seq(V)
        BY <2>1, <3>1, AppendProperties
      <3> QED BY <3>1, <3>2
    <2> HIDE DEF C
    <2>3. Copied(copy, n, thenSide)
      BY CopyOpIs
    <2> QED BY <1>2, <2>1, <2>2, <2>3, IfOpsAre DEF Copied
  <1>4. fold \in [(1..N) \X C -> C]
    BY <1>3
  <1>5. \A n \in 1..N : \A copy \in C : fold[<<n, copy>>] = CopyOp(copy, n, thenSide)
    OBVIOUS
  <1>6. NoCopy \in C
    <2>1. <<>> \in Seq(V)
      OBVIOUS
    <2> QED BY <2>1 DEF NoCopy
  <1> HIDE DEF fold, C
  <1>7. PICK f : FoldsTo(f, N, C, NoCopy, fold)
    BY <1>1, <1>4, <1>6, FoldExists
  <1>8. /\ f \in [SUBSET (1..N) -> C]
        /\ \A d \in SUBSET (1..N) :
              f[d] = IF d = {} THEN NoCopy ELSE fold[<<Greatest(d), f[d \ {Greatest(d)}]>>]
    BY <1>7 DEF FoldsTo
  <1>9. \A d \in SUBSET (1..N) : d # {} =>
            /\ Greatest(d) \in 1..N /\ d \ {Greatest(d)} \in SUBSET (1..N)
            /\ f[d \ {Greatest(d)}] \in C
    BY <1>1, <1>8, GreatestIn
  <1>10. PICK ids : ids = [i \in DOMAIN loop.body |-> i]
    OBVIOUS
  <1>11. DOMAIN ids = 1..N /\ \A i \in 1..N : ids[i] = i
    BY <1>1, <1>10
  <1>12. f = [d \in SUBSET (1..N) |-> IF d = {} THEN NoCopy
                                      ELSE CopyOp(f[d \ {Greatest(d)}], ids[Greatest(d)], thenSide)]
    <2>1. \A d \in SUBSET (1..N) :
              f[d] = IF d = {} THEN NoCopy
                     ELSE CopyOp(f[d \ {Greatest(d)}], ids[Greatest(d)], thenSide)
      <3> SUFFICES ASSUME NEW d \in SUBSET (1..N), d # {}
                   PROVE  f[d] = CopyOp(f[d \ {Greatest(d)}], ids[Greatest(d)], thenSide)
        BY <1>8
      <3>1. PICK m \in 1..N : m = Greatest(d)
        BY <1>9
      <3>2. PICK copy \in C : copy = f[d \ {m}]
        BY <1>9, <3>1
      <3>3. f[d] = fold[<<m, copy>>]
        BY <1>8, <3>1, <3>2
      <3> QED BY <1>5, <1>11, <3>1, <3>2, <3>3
    <2> QED BY <1>8, <2>1
  <1>13. Cloned(thenSide) =
            (CHOOSE g : g = [d \in SUBSET DOMAIN ids |->
                                IF d = {} THEN NoCopy
                                ELSE CopyOp(g[d \ {Greatest(d)}], ids[Greatest(d)], thenSide)])
               [DOMAIN ids].ops
    BY <1>10, ClonedIs, Zenon
  <1>14. PICK g : /\ g = [d \in SUBSET (1..N) |->
                             IF d = {} THEN NoCopy
                             ELSE CopyOp(g[d \ {Greatest(d)}], ids[Greatest(d)], thenSide)]
                  /\ Cloned(thenSide) = g[1..N].ops
    BY <1>11, <1>12, <1>13
  <1> DEFINE c == [n \in 0..N |-> g[1..n]]
  <1>15. c[0] = NoCopy
    BY <1>1, <1>14
  <1>16. c[N].ops = Cloned(thenSide)
    <2>1. c[N] = g[1..N]
      BY <1>1
    <2> HIDE DEF c
    <2> QED BY <1>14, <2>1
  <1>17. ASSUME NEW n \in 1..N PROVE c[n] = CopyOp(c[n - 1], n, thenSide)
    <2>1. Greatest(1..n) = n /\ (1..n) \ {n} = 1..n - 1 /\ 1..n # {}
      BY InitialSegments
    <2>2. 1..n \in SUBSET (1..N) /\ n \in 0..N /\ n - 1 \in 0..N
      BY <1>1
    <2>3. PICK d \in SUBSET (1..N) : d = 1..n /\ d # {} /\ Greatest(d) = n /\ d \ {n} = 1..n - 1
      BY <2>1, <2>2
    <2>4. g[d] = CopyOp(g[d \ {Greatest(d)}], ids[Greatest(d)], thenSide)
      BY <1>14, <2>3
    <2>5. ids[n] = n
      BY <1>11
    <2>6. g[1..n] = CopyOp(g[1..n - 1], n, thenSide)
      BY <2>3, <2>4, <2>5
    <2> QED BY <2>2, <2>6
  <1> HIDE DEF c
  <1>18. Copies(c, thenSide)
    BY <1>15, <1>16, <1>17 DEF Copies, N
  <1> QED BY <1>18

(* A copy so far and the body so far do the same, where the comparison has *)
(* the outcome that the copy is for.                                       *)
Agree(copy, run, conds) ==
    /\ Code(copy.ops, DOMAIN loop.cmps) /\ run \in RunState
    /\ Executed(copy.ops, conds) = run
    /\ copy.closed => run.over

LEMMA AgreeStill ==
    ASSUME IsLoop(loop), NEW thenSide \in BOOLEAN,
           NEW conds \in [DOMAIN loop.cmps -> BOOLEAN], conds[split.cmp] = thenSide,
           NEW n \in 1..Len(loop.body), NEW copy, NEW run, Agree(copy, run, conds)
    PROVE  Agree(CopyOp(copy, n, thenSide), Step(run, loop.body[n], conds), conds)
  <1> DEFINE D == DOMAIN loop.cmps
  <1>1. PICK op : op = loop.body[n]
    OBVIOUS
  <1>2. /\ Executable(op, D) /\ IsOp(op)
        /\ op.kind \in {"op", "cmp", "use", "nested", "if", "continue"}
        /\ op.ends => op.kind = "continue"
    BY <1>1, BodyFacts DEF Executable, IsOp
  <1>3. /\ Code(copy.ops, D) /\ run \in RunState
        /\ Executed(copy.ops, conds) = run /\ (copy.closed => run.over)
    BY DEF Agree
  <1> HIDE DEF D
  <1>d. D = DOMAIN loop.cmps
    BY DEF D
  <1>4. PICK next : next = Step(run, op, conds)
    OBVIOUS
  <1>5. next \in RunState /\ Stepped(run, op, conds)
    BY <1>2, <1>3, <1>4, <1>d, StepTyped, StepIs
  <1>6. PICK more : more = CopyOp(copy, n, thenSide)
    OBVIOUS
  <1>7. Copied(copy, n, thenSide)
    BY CopyOpIs
  <1>8. n \in IfOps(split.cmp) => op.kind = "if" /\ conds[op.cmp] = thenSide
    BY <1>1, IfOpsAre
  <1>9. run.over => next = run
    BY <1>4, <1>5 DEF Stepped
  <1>10. CASE copy.closed
    <2>1. more = copy /\ next = run
      BY <1>3, <1>6, <1>7, <1>9, <1>10 DEF Copied
    <2> QED BY <1>1, <1>4, <1>6, <2>1
  <1>11. CASE Dropped(op)
    <2>1. more = copy /\ next = run
      BY <1>1, <1>4, <1>5, <1>6, <1>7, <1>11 DEF Copied, Stepped, Dropped
    <2> QED BY <1>1, <1>4, <1>6, <2>1
  <1>12. CASE ~copy.closed /\ ~Dropped(op) /\ n \notin IfOps(split.cmp)
    <2>1. more = [ops |-> Append(copy.ops, op), closed |-> op.ends]
      BY <1>1, <1>6, <1>7, <1>12 DEF Copied
    <2>2. Code(Append(copy.ops, op), D) /\ Executed(Append(copy.ops, op), conds) = next
      BY <1>2, <1>3, <1>4, <1>d, ExecutedMore
    <2>3. more.ops = Append(copy.ops, op) /\ more.closed = op.ends
      BY <2>1
    <2>4. ASSUME op.ends PROVE next.over
      <3>1. CASE run.over
        BY <1>9, <3>1
      <3>2. CASE ~run.over
        <4>1. next = [trace |-> run.trace, over |-> TRUE]
          BY <1>2, <1>4, <1>5, <2>4, <3>2 DEF Stepped
        <4> QED BY <4>1
      <3> QED BY <3>1, <3>2
    <2>5. Agree(more, next, conds)
      BY <1>5, <1>d, <2>2, <2>3, <2>4 DEF Agree
    <2> QED BY <1>1, <1>4, <1>6, <2>5
  <1>13. CASE ~copy.closed /\ n \in IfOps(split.cmp) /\ ~Region(op, thenSide).present
    <2>1. more = copy
      BY <1>1, <1>6, <1>7, <1>13 DEF Copied
    <2>2. next = run
      BY <1>4, <1>5, <1>8, <1>9, <1>13 DEF Stepped
    <2> QED BY <1>1, <1>4, <1>6, <2>1, <2>2
  <1>14. CASE ~copy.closed /\ n \in IfOps(split.cmp) /\ Region(op, thenSide).present
    <2>1. PICK o : o = Inline(op, thenSide)
      OBVIOUS
    <2>2. more = [ops |-> Append(copy.ops, o), closed |-> o.ends]
      BY <1>1, <1>6, <1>7, <1>14, <2>1 DEF Copied
    <2>3. /\ IsOp(o) /\ o.kind = "op" /\ o.id = op.id /\ o.side = thenSide
          /\ o.ends = Region(op, thenSide).continues
      BY <1>2, <2>1, InlineIs DEF Inlined
    <2>4. Executable(o, D)
      BY <2>3 DEF Executable, Uses
    <2>5. /\ Code(Append(copy.ops, o), D)
          /\ Executed(Append(copy.ops, o), conds) = Step(run, o, conds)
      BY <1>3, <1>d, <2>4, ExecutedMore
    <2>6. PICK after : after = Step(run, o, conds)
      OBVIOUS
    <2>7. Stepped(run, o, conds)
      BY <1>3, StepIs
    <2>8. after = next /\ (o.ends => next.over)
      <3>1. CASE run.over
        <4>1. after = run
          BY <2>6, <2>7, <3>1 DEF Stepped
        <4> QED BY <1>9, <3>1, <4>1
      <3>2. CASE ~run.over
        <4>1. next = [trace |-> Append(run.trace, <<op.id, thenSide>>), over |-> o.ends]
          <5>1. /\ op.kind = "if" /\ conds[op.cmp] = thenSide
                /\ Region(op, conds[op.cmp]).present
                /\ Region(op, conds[op.cmp]).continues = o.ends
            BY <1>8, <1>14, <2>3
          <5>2. next = IF Region(op, conds[op.cmp]).present
                       THEN [trace |-> Append(run.trace, <<op.id, conds[op.cmp]>>),
                             over |-> Region(op, conds[op.cmp]).continues]
                       ELSE run
            BY <1>4, <1>5, <3>2, <5>1, Zenon DEF Stepped
          <5> QED BY <5>1, <5>2, Zenon
        <4>2. after = [trace |-> Append(run.trace, <<op.id, thenSide>>), over |-> o.ends]
          BY <2>3, <2>6, <2>7, <3>2, Zenon DEF Stepped
        <4>3. next.over = o.ends
          BY <4>1
        <4> QED BY <4>1, <4>2, <4>3
      <3> QED BY <3>1, <3>2
    <2>9. more.ops = Append(copy.ops, o) /\ more.closed = o.ends
      BY <2>2
    <2>10. Agree(more, next, conds)
      BY <1>5, <1>d, <2>5, <2>6, <2>8, <2>9 DEF Agree
    <2> QED BY <1>1, <1>4, <1>6, <2>10
  <1> QED BY <1>10, <1>11, <1>12, <1>13, <1>14

(* copyLoop, for a loop that carries values: the copy for one outcome of   *)
(* the comparison does what the body does when it has that outcome.  (What *)
(* is copied of a loop that carries none is refused by the verifier.)      *)
THEOREM CopyDoesTheSame ==
    ASSUME IsLoop(loop), loop.carries, NEW thenSide \in BOOLEAN,
           NEW conds \in [DOMAIN loop.cmps -> BOOLEAN], conds[split.cmp] = thenSide
    PROVE  Execute(CopyLoop(thenSide), conds) = Execute(loop.body, conds)
  <1>1. PICK N \in Nat : N = Len(loop.body)
    BY BodyFacts
  <1>2. PICK c : Copies(c, thenSide)
    BY CopyExists
  <1>3. /\ c[0] = NoCopy /\ c[N].ops = CopyLoop(thenSide)
        /\ \A n \in 1..N : c[n] = CopyOp(c[n - 1], n, thenSide)
    BY <1>1, <1>2 DEF Copies, CopyLoop
  <1>4. PICK r : Executes(r, loop.body, conds)
    BY BodyFacts, ExecutionExists
  <1>5. /\ r[0] = Nothing /\ r[N] = Executed(loop.body, conds)
        /\ \A n \in 1..N : r[n] = Step(r[n - 1], loop.body[n], conds)
    BY <1>1, <1>4 DEF Executes
  <1>6. Agree(c[0], r[0], conds)
    <2>1. Code(<<>>, DOMAIN loop.cmps) /\ Executed(<<>>, conds) = Nothing
      BY ExecutedNone
    <2>2. Nothing \in RunState
      BY DEF Nothing, RunState
    <2>3. PICK copy, run : copy = NoCopy /\ run = Nothing
      OBVIOUS
    <2>4. copy = [ops |-> <<>>, closed |-> FALSE] /\ run = [trace |-> <<>>, over |-> FALSE]
      BY <2>3 DEF NoCopy, Nothing
    <2>5. copy.ops = <<>> /\ copy.closed = FALSE
      BY <2>4
    <2>6. Agree(copy, run, conds)
      BY <2>1, <2>2, <2>3, <2>5 DEF Agree
    <2> QED BY <1>3, <1>5, <2>3, <2>6
  <1>7. ASSUME NEW n \in Nat, n + 1 <= N, Agree(c[n], r[n], conds)
        PROVE  Agree(c[n + 1], r[n + 1], conds)
    <2>1. PICK m \in 1..N : m = n + 1 /\ m - 1 = n
      BY <1>7
    <2>2. c[m] = CopyOp(c[n], m, thenSide) /\ r[m] = Step(r[n], loop.body[m], conds)
      BY <1>3, <1>5, <2>1
    <2>3. Agree(CopyOp(c[n], m, thenSide), Step(r[n], loop.body[m], conds), conds)
      BY <1>1, <1>7, AgreeStill
    <2> QED BY <2>1, <2>2, <2>3
  <1> DEFINE Good(n) == Agree(c[n], r[n], conds)
             Reached == {n \in Nat : n <= N => Good(n)}
  <1> HIDE DEF Good
  <1>8. \A n \in Nat : n \in Reached <=> (n <= N => Good(n))
    OBVIOUS
  <1> HIDE DEF Reached
  <1>9. 0 \in Reached
    BY <1>6, <1>8 DEF Good
  <1>10. \A n \in Nat : n \in Reached => n + 1 \in Reached
    BY <1>7, <1>8 DEF Good
  <1>11. Agree(c[N], r[N], conds)
    BY <1>8, <1>9, <1>10, InductionOn DEF Good
  <1>12. Executed(CopyLoop(thenSide), conds).trace = Executed(loop.body, conds).trace
    BY <1>3, <1>5, <1>11 DEF Agree
  <1> QED BY <1>12, ExecuteIs

(* A copy so far is well-formed, but for the continue it may still lack,   *)
(* and has every comparison that it may need.                              *)
IsASequence(ops) == \E S : ops \in Seq(S)
Grounded(ops) ==
    \A i \in 1..Len(ops) : Uses(ops[i]) =>
        \E k \in 1..(i - 1) : ops[k].kind = "cmp" /\ ops[k].cmp = ops[i].cmp
Terminal(ops, closed) == \A i \in 1..Len(ops) : ops[i].ends <=> (i = Len(ops) /\ closed)
HasComparisons(ops, n) ==
    \A m \in 1..n : loop.body[m].kind = "cmp" /\ ~Dropped(loop.body[m]) =>
        \E k \in 1..Len(ops) : ops[k].kind = "cmp" /\ ops[k].cmp = loop.body[m].cmp
WellCopied(copy, n) ==
    /\ copy.closed \in BOOLEAN
    /\ IsASequence(copy.ops) /\ Grounded(copy.ops) /\ Terminal(copy.ops, copy.closed)
    /\ copy.closed => Len(copy.ops) > 0
    /\ n = Len(loop.body) => copy.closed
    /\ copy.closed \/ HasComparisons(copy.ops, n)

LEMMA WellCopiedMore ==
    ASSUME NEW ops, IsASequence(ops), Grounded(ops), Terminal(ops, FALSE),
           NEW n \in Nat, HasComparisons(ops, n), NEW op,
           NEW closed \in BOOLEAN, op.ends <=> closed,
           Uses(op) => \E k \in 1..Len(ops) : ops[k].kind = "cmp" /\ ops[k].cmp = op.cmp,
           n + 1 = Len(loop.body) => closed,
           loop.body[n + 1].kind = "cmp" /\ ~Dropped(loop.body[n + 1]) => op = loop.body[n + 1]
    PROVE  WellCopied([ops |-> Append(ops, op), closed |-> closed], n + 1)
  <1>1. PICK S : ops \in Seq(S)
    BY DEF IsASequence
  <1>2. PICK t : t = Append(ops, op)
    OBVIOUS
  <1>3. PICK T : T = S \cup {op}
    OBVIOUS
  <1>4. ops \in Seq(T) /\ op \in T
    BY <1>1, <1>3
  <1>5. PICK L \in Nat : L = Len(ops)
    BY <1>1, LenProperties
  <1>6. t \in Seq(T) /\ Len(t) = L + 1 /\ (\A i \in 1..L : t[i] = ops[i]) /\ t[L + 1] = op
    BY <1>2, <1>4, <1>5, AppendFacts
  <1>7. \A i \in 1..L + 1 : i \in 1..L \/ i = L + 1
    OBVIOUS
  <1>8. ASSUME NEW i \in 1..L + 1, Uses(t[i])
        PROVE  \E k \in 1..(i - 1) : t[k].kind = "cmp" /\ t[k].cmp = t[i].cmp
    <2>1. CASE i \in 1..L
      <3>1. PICK k \in 1..(i - 1) : ops[k].kind = "cmp" /\ ops[k].cmp = ops[i].cmp
        BY <1>5, <1>6, <1>8, <2>1 DEF Grounded
      <3>2. k \in 1..L
        BY <2>1, <3>1
      <3> QED BY <1>6, <2>1, <3>1, <3>2
    <2>2. CASE i = L + 1
      <3>1. PICK k \in 1..L : ops[k].kind = "cmp" /\ ops[k].cmp = op.cmp
        BY <1>5, <1>6, <1>8, <2>2
      <3>2. k \in 1..(i - 1)
        BY <2>2, <3>1
      <3> QED BY <1>6, <2>2, <3>1, <3>2
    <2> QED BY <1>7, <2>1, <2>2
  <1>9. Grounded(t)
    BY <1>6, <1>8 DEF Grounded
  <1>10. Terminal(t, closed)
    <2>1. \A i \in 1..L : ~t[i].ends /\ i # L + 1
      BY <1>5, <1>6 DEF Terminal
    <2> QED BY <1>6, <1>7, <2>1 DEF Terminal
  <1>11. ASSUME NEW m \in 1..n + 1, loop.body[m].kind = "cmp", ~Dropped(loop.body[m])
         PROVE  \E k \in 1..L + 1 : t[k].kind = "cmp" /\ t[k].cmp = loop.body[m].cmp
    <2>1. CASE m \in 1..n
      <3>1. PICK k \in 1..L : ops[k].kind = "cmp" /\ ops[k].cmp = loop.body[m].cmp
        BY <1>5, <1>11, <2>1 DEF HasComparisons
      <3>2. k \in 1..L + 1
        BY <3>1
      <3> QED BY <1>6, <3>1, <3>2
    <2>2. CASE m = n + 1
      <3>1. L + 1 \in 1..L + 1
        OBVIOUS
      <3> QED BY <1>6, <1>11, <2>2, <3>1
    <2>3. m \in 1..n \/ m = n + 1
      OBVIOUS
    <2> QED BY <2>1, <2>2, <2>3
  <1>12. HasComparisons(t, n + 1)
    BY <1>6, <1>11 DEF HasComparisons
  <1>13. IsASequence(t) /\ Len(t) > 0
    BY <1>6 DEF IsASequence
  <1>14. PICK more : more = [ops |-> t, closed |-> closed]
    OBVIOUS
  <1>15. more.ops = t /\ more.closed = closed
    BY <1>14
  <1>16. WellCopied(more, n + 1)
    BY <1>9, <1>10, <1>12, <1>13, <1>15, Zenon DEF WellCopied
  <1> QED BY <1>2, <1>14, <1>16

LEMMA WellCopiedStill ==
    ASSUME IsLoop(loop), NEW thenSide \in BOOLEAN, NEW n \in Nat, n + 1 <= Len(loop.body),
           NEW copy, WellCopied(copy, n)
    PROVE  WellCopied(CopyOp(copy, n + 1, thenSide), n + 1)
  <1>1. Len(loop.body) \in Nat
    BY BodyFacts
  <1>2. PICK m \in 1..Len(loop.body) : m = n + 1
    BY <1>1
  <1>3. PICK op : op = loop.body[m]
    OBVIOUS
  <1>4. /\ IsOp(op) /\ (op.ends <=> op.kind = "continue") /\ (op.ends <=> m = Len(loop.body))
        /\ Uses(op) => \E k \in 1..(m - 1) : loop.body[k].kind = "cmp" /\ loop.body[k].cmp = op.cmp
    BY <1>3, BodyFacts
  <1>5. /\ copy.closed \in BOOLEAN
        /\ IsASequence(copy.ops) /\ Grounded(copy.ops) /\ Terminal(copy.ops, copy.closed)
        /\ copy.closed => Len(copy.ops) > 0
        /\ copy.closed \/ HasComparisons(copy.ops, n)
    BY DEF WellCopied
  <1>6. Copied(copy, m, thenSide)
    BY CopyOpIs
  <1>7. PICK more : more = CopyOp(copy, m, thenSide)
    OBVIOUS
  <1>8. \A k \in 1..n + 1 : k \in 1..n \/ k = m
    BY <1>2
  <1>9. ASSUME copy.closed \/ Dropped(op) \/ op.kind = "if" PROVE WellCopied(copy, n + 1)
    <2>1. copy.closed \/ HasComparisons(copy.ops, n + 1)
      BY <1>3, <1>5, <1>8, <1>9 DEF HasComparisons
    <2>2. n + 1 = Len(loop.body) => copy.closed
      BY <1>2, <1>4, <1>9 DEF Dropped
    <2> QED BY <1>5, <2>1, <2>2 DEF WellCopied
  <1>10. ASSUME ~copy.closed, NEW o, NEW closed \in BOOLEAN, closed = o.ends,
                more = [ops |-> Append(copy.ops, o), closed |-> closed],
                Uses(o) => \E i \in 1..Len(copy.ops) :
                              copy.ops[i].kind = "cmp" /\ copy.ops[i].cmp = o.cmp,
                m = Len(loop.body) => closed,
                op.kind = "cmp" => o = op
         PROVE  WellCopied(more, n + 1)
    <2>1. PICK ops : ops = copy.ops
      OBVIOUS
    <2>2. IsASequence(ops) /\ Grounded(ops) /\ Terminal(ops, FALSE) /\ HasComparisons(ops, n)
      BY <1>5, <1>10, <2>1 DEF Terminal
    <2>3. loop.body[n + 1].kind = "cmp" /\ ~Dropped(loop.body[n + 1]) => o = loop.body[n + 1]
      BY <1>2, <1>3, <1>10
    <2>4. Uses(o) => \E i \in 1..Len(ops) : ops[i].kind = "cmp" /\ ops[i].cmp = o.cmp
      BY <1>10, <2>1
    <2>5. (n + 1 = Len(loop.body) => closed) /\ (o.ends <=> closed)
      BY <1>2, <1>10
    <2>6. WellCopied([ops |-> Append(ops, o), closed |-> closed], n + 1)
      BY <1>10, <2>2, <2>3, <2>4, <2>5, WellCopiedMore
    <2> QED BY <1>10, <2>1, <2>6
  <1>11. CASE copy.closed \/ Dropped(op)
    <2>1. more = copy
      BY <1>3, <1>6, <1>7, <1>11 DEF Copied
    <2> QED BY <1>2, <1>7, <1>9, <1>11, <2>1
  <1>12. CASE ~copy.closed /\ ~Dropped(op) /\ m \notin IfOps(split.cmp)
    <2>1. more = [ops |-> Append(copy.ops, op), closed |-> op.ends]
      BY <1>3, <1>6, <1>7, <1>12 DEF Copied
    <2>2. ASSUME Uses(op)
          PROVE  \E i \in 1..Len(copy.ops) :
                    copy.ops[i].kind = "cmp" /\ copy.ops[i].cmp = op.cmp
      <3>1. PICK k \in 1..(m - 1) : loop.body[k].kind = "cmp" /\ loop.body[k].cmp = op.cmp
        BY <1>4, <2>2
      <3>2. k \in 1..n
        BY <1>2, <3>1
      <3>3. ~Dropped(loop.body[k])
        <4> SUFFICES ASSUME Dropped(loop.body[k]) PROVE FALSE
          OBVIOUS
        <4>1. op.cmp = split.cmp /\ Users(split.cmp) = IfOps(split.cmp)
          BY <3>1 DEF Dropped, CopyCmp
        <4>2. m \in Users(split.cmp)
          BY <1>3, <2>2, <4>1, BodyFacts DEF Users
        <4> QED BY <1>12, <4>1, <4>2
      <3> QED BY <1>5, <1>12, <3>1, <3>2, <3>3 DEF HasComparisons
    <2>3. PICK closed \in BOOLEAN : closed = op.ends
      BY <1>4 DEF IsOp
    <2>4. m = Len(loop.body) => closed
      BY <1>4, <2>3
    <2>5. WellCopied(more, n + 1)
      BY <1>10, <1>12, <2>1, <2>2, <2>3, <2>4
    <2> QED BY <1>2, <1>7, <2>5
  <1>13. CASE ~copy.closed /\ m \in IfOps(split.cmp) /\ ~Region(op, thenSide).present
    <2>1. more = copy
      BY <1>3, <1>6, <1>7, <1>13 DEF Copied
    <2>2. op.kind = "if"
      BY <1>3, <1>13, IfOpsAre
    <2> QED BY <1>2, <1>7, <1>9, <2>1, <2>2
  <1>14. CASE ~copy.closed /\ m \in IfOps(split.cmp) /\ Region(op, thenSide).present
    <2>1. PICK o : o = Inline(op, thenSide)
      OBVIOUS
    <2>2. more = [ops |-> Append(copy.ops, o), closed |-> o.ends]
      BY <1>3, <1>6, <1>7, <1>14, <2>1 DEF Copied
    <2>3. IsOp(o) /\ o.kind = "op"
      BY <1>4, <2>1, InlineIs DEF Inlined
    <2>4. PICK closed \in BOOLEAN : closed = o.ends /\ ~Uses(o)
      BY <2>3 DEF IsOp, Uses
    <2>5. op.kind = "if"
      BY <1>3, <1>14, IfOpsAre
    <2>6. m # Len(loop.body)
      BY <1>4, <2>5
    <2>7. WellCopied(more, n + 1)
      BY <1>10, <1>14, <2>2, <2>4, <2>5, <2>6
    <2> QED BY <1>2, <1>7, <2>7
  <1> QED BY <1>5, <1>11, <1>12, <1>13, <1>14

LEMMA ClonedIsWellFormed ==
    ASSUME IsLoop(loop), NEW thenSide \in BOOLEAN
    PROVE  IsASequence(Cloned(thenSide)) /\ WellFormed(Cloned(thenSide))
  <1>1. PICK N \in Nat \ {0} : N = Len(loop.body)
    BY BodyFacts
  <1>2. PICK c : Copies(c, thenSide)
    BY CopyExists
  <1>3. /\ c[0] = NoCopy /\ c[N].ops = Cloned(thenSide)
        /\ \A n \in 1..N : c[n] = CopyOp(c[n - 1], n, thenSide)
    BY <1>1, <1>2 DEF Copies
  <1>4. WellCopied(c[0], 0)
    <2>1. PICK copy : copy = NoCopy
      OBVIOUS
    <2>2. copy = [ops |-> <<>>, closed |-> FALSE]
      BY <2>1 DEF NoCopy
    <2>3. copy.ops = <<>> /\ copy.closed = FALSE
      BY <2>2
    <2>4. Len(<<>>) = 0 /\ 1..0 = {} /\ <<>> \in Seq({})
      OBVIOUS
    <2>5. IsASequence(<<>>) /\ Grounded(<<>>) /\ Terminal(<<>>, FALSE)
      BY <2>4 DEF IsASequence, Grounded, Terminal
    <2>6. HasComparisons(<<>>, 0)
      BY <2>4 DEF HasComparisons
    <2>7. 0 # Len(loop.body)
      BY <1>1
    <2>8. WellCopied(copy, 0)
      BY <2>3, <2>5, <2>6, <2>7, Zenon DEF WellCopied
    <2> QED BY <1>3, <2>1, <2>8
  <1>5. ASSUME NEW n \in Nat, n + 1 <= N, WellCopied(c[n], n) PROVE WellCopied(c[n + 1], n + 1)
    <2>1. n + 1 \in 1..N /\ n + 1 - 1 = n
      BY <1>5
    <2>2. c[n + 1] = CopyOp(c[n], n + 1, thenSide)
      BY <1>3, <2>1
    <2>3. WellCopied(CopyOp(c[n], n + 1, thenSide), n + 1)
      BY <1>1, <1>5, WellCopiedStill
    <2> QED BY <2>2, <2>3
  <1> DEFINE Good(n) == WellCopied(c[n], n)
             Reached == {n \in Nat : n <= N => Good(n)}
  <1> HIDE DEF Good
  <1>6. \A n \in Nat : n \in Reached <=> (n <= N => Good(n))
    OBVIOUS
  <1> HIDE DEF Reached
  <1>7. 0 \in Reached
    BY <1>4, <1>6 DEF Good
  <1>8. \A n \in Nat : n \in Reached => n + 1 \in Reached
    BY <1>5, <1>6 DEF Good
  <1>9. WellCopied(c[N], N)
    BY <1>6, <1>7, <1>8, InductionOn DEF Good
  <1>10. PICK ops : ops = Cloned(thenSide)
    OBVIOUS
  <1>11. IsASequence(ops) /\ Grounded(ops) /\ Terminal(ops, TRUE) /\ Len(ops) > 0
    BY <1>1, <1>3, <1>9, <1>10 DEF WellCopied
  <1>12. ops # <<>> /\ DOMAIN ops = 1..Len(ops)
    BY <1>11 DEF IsASequence
  <1>13. WellFormed(ops)
    BY <1>11, <1>12 DEF WellFormed, Grounded, Terminal
  <1> QED BY <1>10, <1>11, <1>13

(* A body that already ends in a continue is not well-formed with another. *)
LEMMA VerifyIs ==
    ASSUME IsLoop(loop)
    PROVE  CopiesVerify <=> loop.carries
  <1>1. loop.carries \in BOOLEAN
    BY DEF IsLoop
  <1>2. CASE loop.carries
    <2>1. \A side \in BOOLEAN : WellFormed(CopyLoop(side))
      BY <1>2, ClonedIsWellFormed DEF CopyLoop
    <2> QED BY <1>2, <2>1 DEF CopiesVerify
  <1>3. CASE ~loop.carries
    <2>1. PICK ops : ops = Cloned(TRUE) /\ IsASequence(ops) /\ WellFormed(ops)
      BY ClonedIsWellFormed
    <2>2. PICK op : op = DefaultContinue
      OBVIOUS
    <2>3. PICK S : ops \in Seq(S)
      BY <2>1 DEF IsASequence
    <2>4. PICK T : T = S \cup {op}
      OBVIOUS
    <2>5. ops \in Seq(T) /\ op \in T
      BY <2>3, <2>4
    <2>6. PICK L \in Nat \ {0} : L = Len(ops) /\ DOMAIN ops = 1..L
      BY <2>1, <2>3, LenProperties, EmptySeq DEF WellFormed
    <2>7. PICK t : t = Append(ops, op)
      OBVIOUS
    <2>8. t \in Seq(T) /\ Len(t) = L + 1 /\ \A i \in 1..L : t[i] = ops[i]
      BY <2>5, <2>6, <2>7, AppendFacts
    <2>9. L \in 1..L /\ L \in 1..L + 1 /\ DOMAIN t = 1..L + 1
      BY <2>6, <2>8
    <2>10. ops[L].ends /\ t[L] = ops[L]
      BY <2>1, <2>6, <2>8, <2>9 DEF WellFormed
    <2>11. WellFormed(t) => (ops[L].ends <=> L = L + 1)
      BY <2>8, <2>9, <2>10 DEF WellFormed
    <2>12. CopyLoop(TRUE) = t
      BY <1>3, <2>1, <2>2, <2>7 DEF CopyLoop
    <2>13. L # L + 1
      BY <2>6
    <2> QED BY <1>3, <2>10, <2>11, <2>12, <2>13 DEF CopiesVerify
  <1> QED BY <1>1, <1>2, <1>3

(* The loop stays one of those the pass is run on.                         *)
LoopInv == \E unsigned \in BOOLEAN : loop \in Loops(unsigned)

LEMMA LoopIsALoop ==
    ASSUME LoopInv
    PROVE  IsLoop(loop) /\ loop.unsigned \in BOOLEAN
  BY LoopsAssumption DEF LoopInv

LEMMA LoopStays ==
    ASSUME [Next]_vars
    PROVE  loop' = loop
  BY DEF Next, vars, WalkOp, KeepLoop, Accept, Refuse, RunKept, RunFirst, StartSecond,
         RunSecond, Finish, Ended, RunCopy, Run

LEMMA LoopInvAlways == Spec => []LoopInv
  <1>1. Init => LoopInv
    BY DEF Init, LoopInv
  <1>2. LoopInv /\ [Next]_vars => LoopInv'
    BY LoopStays DEF LoopInv
  <1> QED BY <1>1, <1>2, PTL DEF Spec

(* performLoopSplit, copyLoop: whatever the body of the loop and whatever  *)
(* comparison it is split at, the copies of a loop that carries values are *)
(* well-formed: what uses a comparison comes after it, and a copy ends in  *)
(* a continue and has no other.  Those of a loop that carries none never   *)
(* are, and the verifier refuses them.                                     *)
THEOREM CopiesAreWellFormed == Spec => []CopiesWellFormed
  <1>1. LoopInv => CopiesWellFormed
    BY LoopIsALoop, VerifyIs DEF CopiesWellFormed
  <1> QED BY <1>1, LoopInvAlways, PTL

-----------------------------------------------------------------------------
(* Type correctness.                                                       *)
SplitTyped ==
    /\ split.cmp \in DOMAIN loop.cmps /\ split.secondThen \in BOOLEAN
    /\ split.point \in IntegersOf(loop.unsigned)
TypeInv ==
    /\ LoopInv /\ TypeOK
    /\ phase \in {"verify", "first", "second"} => SplitTyped
    /\ phase \in {"first", "second"} => loop.carries

LEMMA ConditionsTyped ==
    ASSUME IsLoop(loop), NEW x \in Int
    PROVE  Conditions(loop, x) \in [DOMAIN loop.cmps -> BOOLEAN]
  <1>1. ASSUME NEW c \in DOMAIN loop.cmps PROVE Holds(loop.cmps[c], x) \in BOOLEAN
    <2>1. PICK cmp : cmp = loop.cmps[c] /\ IsComparison(cmp)
      BY DEF IsLoop
    <2>2. /\ cmp.unsigned \in BOOLEAN /\ cmp.value \in Int
          /\ cmp.pred \in {"LESS_THAN", "LESS_THAN_OR_EQUAL", "GREATER_THAN",
                           "GREATER_THAN_OR_EQUAL", "EQUAL", "NOT_EQUAL"}
      BY <2>1, BorderIsInt DEF IsComparison
    <2>3. PICK a \in Int, b \in Int :
             a = Wrap(cmp.unsigned, x) /\ b = Wrap(cmp.unsigned, cmp.value)
      BY <2>2, WrapFacts
    <2>4. Compare(cmp.pred, a, b) \in BOOLEAN /\ Compare(cmp.pred, b, a) \in BOOLEAN
      <3>1. PICK pred : pred = cmp.pred
        OBVIOUS
      <3>2. CASE pred = "LESS_THAN"
        BY <3>1, <3>2 DEF Compare
      <3>3. CASE pred = "LESS_THAN_OR_EQUAL"
        BY <3>1, <3>3 DEF Compare
      <3>4. CASE pred = "GREATER_THAN"
        BY <3>1, <3>4 DEF Compare
      <3>5. CASE pred = "GREATER_THAN_OR_EQUAL"
        BY <3>1, <3>5 DEF Compare
      <3>6. CASE pred = "EQUAL"
        BY <3>1, <3>6 DEF Compare
      <3>7. CASE pred = "NOT_EQUAL"
        BY <3>1, <3>7 DEF Compare
      <3> QED BY <2>2, <3>1, <3>2, <3>3, <3>4, <3>5, <3>6, <3>7
    <2>5. Holds(cmp, x) \in BOOLEAN
      BY <2>3, <2>4 DEF Holds
    <2> QED BY <2>1, <2>5
  <1> QED BY <1>1 DEF Conditions

(* One iteration, of the loop or of a copy of it.                          *)
LEMMA ExecuteTyped ==
    ASSUME IsLoop(loop), NEW conds \in [DOMAIN loop.cmps -> BOOLEAN]
    PROVE  Execute(loop.body, conds) \in Seq(Nat \X BOOLEAN)
  <1>1. Executed(loop.body, conds) \in RunState
    BY BodyFacts, ExecutedTyped
  <1> QED BY <1>1, ExecuteIs DEF RunState

LEMMA CopyTyped ==
    ASSUME IsLoop(loop), loop.carries, split.cmp \in DOMAIN loop.cmps,
           NEW thenSide \in BOOLEAN, NEW x \in Int
    PROVE  Execute(CopyLoop(thenSide), [Conditions(loop, x) EXCEPT ![split.cmp] = thenSide])
              \in Seq(Nat \X BOOLEAN)
  <1>1. PICK conds : conds = [Conditions(loop, x) EXCEPT ![split.cmp] = thenSide]
    OBVIOUS
  <1>2. conds \in [DOMAIN loop.cmps -> BOOLEAN] /\ conds[split.cmp] = thenSide
    BY <1>1, ConditionsTyped
  <1>3. Execute(CopyLoop(thenSide), conds) = Execute(loop.body, conds)
    BY <1>2, CopyDoesTheSame
  <1> QED BY <1>1, <1>2, <1>3, ExecuteTyped

LEMMA RunTyped ==
    ASSUME TypeInv, NEW body, NEW conds, Run(body, conds),
           Execute(body, conds) \in Seq(Nat \X BOOLEAN)
    PROVE  TypeInv'
  <1>1. /\ ran' = Append(ran, <<iv, Execute(body, conds)>>) /\ iv' = iv + loop.step
        /\ UNCHANGED <<loop, phase, walked, split>>
    BY DEF Run
  <1>2. loop.step \in Int /\ loop.step > 0 /\ loop.lb \in Int
    BY LoopIsALoop, LoopFacts DEF TypeInv
  <1>3. iv' \in Int /\ iv' >= loop.lb
    BY <1>1, <1>2 DEF TypeInv, TypeOK
  <1>4. ran' \in Seq(Int \X Seq(Nat \X BOOLEAN))
    <2>1. PICK p : p = <<iv, Execute(body, conds)>>
      OBVIOUS
    <2>2. p \in Int \X Seq(Nat \X BOOLEAN)
      BY <2>1 DEF TypeInv, TypeOK
    <2>3. PICK T : T = Int \X Seq(Nat \X BOOLEAN)
      OBVIOUS
    <2>4. ran \in Seq(T) /\ p \in T /\ ran' = Append(ran, p)
      BY <1>1, <2>1, <2>2, <2>3 DEF TypeInv, TypeOK
    <2> QED BY <2>3, <2>4, AppendProperties
  <1> QED BY <1>1, <1>3, <1>4 DEF TypeInv, TypeOK, LoopInv, SplitTyped

LEMMA PointTyped ==
    ASSUME IsLoop(loop), loop.unsigned \in BOOLEAN,
           NEW cmp, IsComparison(cmp), cmp.unsigned = loop.unsigned
    PROVE  Aligned(Point(cmp)) \in IntegersOf(loop.unsigned)
  <1>1. \A x \in Int : Wrapped(x) \in IntegersOf(loop.unsigned) /\ Wrapped(x) \in Int
    BY WrapFacts DEF Wrapped
  <1>2. PICK p : p = Point(cmp)
    OBVIOUS
  <1>3. p \in IntegersOf(loop.unsigned) /\ p \in Int
    <2>1. cmp.value \in Int /\ cmp.value \in IntegersOf(loop.unsigned) /\ cmp.value + 1 \in Int
      BY BorderIsInt DEF IsComparison
    <2> QED BY <1>1, <1>2, <2>1 DEF Point
  <1>4. CASE ~loop.stepIsConstOne
    <2>1. loop.lb \in Int /\ loop.step \in Int /\ loop.step > 0
      BY LoopFacts
    <2>2. PICK diff \in Int : diff = Wrapped(p - loop.lb)
      BY <1>1, <1>3, <2>1
    <2>3. PICK k \in Int : k = CeilDiv(diff, loop.step)
      BY <2>1, CeilDivFacts
    <2>4. k * loop.step \in Int
      BY <2>1, Multiples
    <2>5. Wrapped(k * loop.step) \in Int
      BY <1>1, <2>4
    <2>6. loop.lb + Wrapped(k * loop.step) \in Int
      BY <2>1, <2>5
    <2>7. Aligned(p) = Wrapped(loop.lb + Wrapped(k * loop.step))
      BY <1>4, <2>2, <2>3 DEF Aligned
    <2> QED BY <1>1, <1>2, <2>6, <2>7
  <1> QED BY <1>2, <1>3, <1>4 DEF Aligned

(* What isSplittableCondition has checked of the comparison it splits at.  *)
SplitsAt(c) ==
    /\ c \in DOMAIN loop.cmps /\ Ordered(loop.cmps[c])
    /\ loop.cmps[c].unsigned = loop.unsigned
    /\ split' = SplitAt(c) /\ phase' = "verify"

LEMMA WalkOpIs ==
    ASSUME TypeInv, WalkOp
    PROVE  /\ phase = "walk" /\ UNCHANGED <<loop, iv, ran>> /\ walked' \in 0..Len(loop.body)
           /\ (\E c : SplitsAt(c)) \/ UNCHANGED <<phase, split>>
  <1>a. Len(loop.body) \in Nat
    BY LoopIsALoop, BodyFacts DEF TypeInv
  <1>b. walked \in 0..Len(loop.body)
    BY DEF TypeInv, TypeOK
  <1>c. phase = "walk" /\ UNCHANGED <<loop, iv, ran>> /\ walked < Len(loop.body)
    BY DEF WalkOp
  <1>1. /\ phase = "walk" /\ UNCHANGED <<loop, iv, ran>> /\ walked < Len(loop.body)
        /\ walked \in 0..Len(loop.body) /\ walked + 1 \in 1..Len(loop.body)
    BY <1>a, <1>b, <1>c
  <1>2. PICK op : op = loop.body[walked + 1]
    OBVIOUS
  <1>3. op.kind \in {"if", "nested"} => op.cmp \in DOMAIN loop.cmps
    BY <1>1, <1>2, LoopIsALoop, BodyFacts DEF TypeInv, Uses
  <1>4. CASE op.kind \in {"if", "nested"} /\ Splittable(op)
    <2>1. split' = SplitAt(op.cmp) /\ phase' = "verify" /\ walked' = walked
      BY <1>2, <1>4 DEF WalkOp
    <2>2. SplitsAt(op.cmp)
      BY <1>3, <1>4, <2>1 DEF SplitsAt, Splittable
    <2> QED BY <1>1, <2>1, <2>2
  <1>5. CASE ~(op.kind \in {"if", "nested"} /\ Splittable(op))
    <2>1. walked' = walked + 1 /\ UNCHANGED <<phase, split>>
      BY <1>2, <1>5 DEF WalkOp
    <2> QED BY <1>a, <1>1, <2>1
  <1> QED BY <1>4, <1>5

LEMMA SplitAtTyped ==
    ASSUME IsLoop(loop), loop.unsigned \in BOOLEAN, NEW c, SplitsAt(c), loop' = loop
    PROVE  SplitTyped'
  <1>1. PICK cmp : cmp = loop.cmps[c] /\ IsComparison(cmp)
    BY DEF SplitsAt, IsLoop
  <1>2. /\ split'.cmp = c /\ split'.secondThen = SecondThen(cmp)
        /\ split'.point = Aligned(Point(cmp))
    BY <1>1 DEF SplitsAt, SplitAt
  <1>3. split'.point \in IntegersOf(loop.unsigned)
    BY <1>1, <1>2, PointTyped DEF SplitsAt
  <1>4. SecondThen(cmp) \in BOOLEAN
    BY DEF SecondThen
  <1> QED BY <1>2, <1>3, <1>4 DEF SplitTyped, SplitsAt

LEMMA LoopSplitStarts ==
    ASSUME Init
    PROVE  TypeInv
  <1>1. LoopInv
    BY DEF Init, LoopInv
  <1>2. loop.lb \in Int /\ Len(loop.body) \in Nat
    BY <1>1, LoopIsALoop, LoopFacts, BodyFacts
  <1>3. <<>> \in Seq(Int \X Seq(Nat \X BOOLEAN))
    OBVIOUS
  <1>4. walked \in 0..Len(loop.body)
    BY <1>2 DEF Init
  <1> QED BY <1>1, <1>2, <1>3, <1>4 DEF Init, TypeInv, TypeOK

LEMMA LoopSplitStays ==
    ASSUME TypeInv, [Next]_vars
    PROVE  TypeInv'
  <1>1. IsLoop(loop) /\ loop.unsigned \in BOOLEAN /\ loop.lb \in Int
    BY LoopIsALoop, LoopFacts DEF TypeInv
  <1>2. LoopInv'
    BY LoopStays DEF TypeInv, LoopInv
  <1>3. CASE WalkOp
    <2>1. /\ UNCHANGED <<loop, iv, ran>> /\ walked' \in 0..Len(loop.body)
          /\ phase = "walk"
          /\ (\E c : SplitsAt(c)) \/ UNCHANGED <<phase, split>>
      BY <1>3, WalkOpIs
    <2>2. CASE \E c : SplitsAt(c)
      <3>1. PICK c : SplitsAt(c)
        BY <2>2
      <3>2. SplitTyped'
        BY <1>1, <2>1, <3>1, SplitAtTyped
      <3>3. phase' = "verify"
        BY <3>1 DEF SplitsAt
      <3> QED BY <1>2, <2>1, <3>2, <3>3 DEF TypeInv, TypeOK, SplitTyped
    <2>3. CASE UNCHANGED <<phase, split>>
      BY <1>2, <2>1, <2>3 DEF TypeInv, TypeOK
    <2> QED BY <2>1, <2>2, <2>3
  <1>4. CASE KeepLoop
    BY <1>2, <1>4 DEF KeepLoop, TypeInv, TypeOK
  <1>a. CASE Accept
    <2>1. /\ phase = "verify" /\ phase' = "first" /\ CopiesVerify
          /\ UNCHANGED <<loop, walked, split, iv, ran>>
      BY <1>a DEF Accept
    <2>2. loop.carries
      BY <1>1, <2>1, VerifyIs
    <2> QED BY <1>2, <2>1, <2>2 DEF TypeInv, TypeOK, SplitTyped
  <1>b. CASE Refuse
    BY <1>2, <1>b DEF Refuse, TypeInv, TypeOK
  <1>5. CASE RunKept
    <2>1. Run(loop.body, Conditions(loop, iv)) /\ iv \in Int
      BY <1>5 DEF RunKept, TypeInv, TypeOK
    <2>2. Execute(loop.body, Conditions(loop, iv)) \in Seq(Nat \X BOOLEAN)
      BY <1>1, <2>1, ConditionsTyped, ExecuteTyped
    <2> QED BY <2>1, <2>2, RunTyped
  <1>6. ASSUME NEW side \in BOOLEAN, phase \in {"first", "second"}, RunCopy(side) PROVE TypeInv'
    <2>1. iv \in Int /\ split.cmp \in DOMAIN loop.cmps /\ loop.carries
      BY <1>6 DEF TypeInv, TypeOK, SplitTyped
    <2>2. Execute(CopyLoop(side), [Conditions(loop, iv) EXCEPT ![split.cmp] = side])
             \in Seq(Nat \X BOOLEAN)
      BY <1>1, <2>1, CopyTyped
    <2>3. Run(CopyLoop(side), [Conditions(loop, iv) EXCEPT ![split.cmp] = side])
      BY <1>6 DEF RunCopy
    <2> QED BY <2>2, <2>3, RunTyped
  <1>7. CASE RunFirst
    <2>1. phase = "first" /\ RunCopy(~split.secondThen)
      BY <1>7 DEF RunFirst
    <2> QED BY <1>6, <2>1
  <1>8. CASE RunSecond
    <2>1. phase = "second" /\ RunCopy(split.secondThen)
      BY <1>8 DEF RunSecond
    <2>2. split.secondThen \in BOOLEAN
      BY <2>1 DEF TypeInv, SplitTyped
    <2> QED BY <1>6, <2>1, <2>2
  <1>9. CASE StartSecond
    <2>1. /\ phase = "first" /\ phase' = "second" /\ iv' = SecondStart
          /\ UNCHANGED <<loop, walked, split, ran>>
      BY <1>9 DEF StartSecond
    <2>2. split.point \in Int
      BY <1>1, <2>1, WrapFacts DEF TypeInv, SplitTyped
    <2>3. iv' \in Int /\ iv' >= loop.lb
      BY <1>1, <2>1, <2>2 DEF SecondStart, GreatestOf
    <2> QED BY <1>2, <2>1, <2>3 DEF TypeInv, TypeOK, SplitTyped
  <1>10. CASE Finish
    BY <1>2, <1>10 DEF Finish, TypeInv, TypeOK
  <1>11. CASE UNCHANGED vars
    BY <1>2, <1>11 DEF vars, TypeInv, TypeOK, SplitTyped
  <1>12. CASE Ended
    BY <1>11, <1>12 DEF Ended
  <1> QED BY <1>3, <1>4, <1>a, <1>b, <1>5, <1>7, <1>8, <1>9, <1>10, <1>11, <1>12 DEF Next

(* Each variable has its shape: the split point and the bounds are values  *)
(* of the loop's type, for every width, although the code computes them    *)
(* with operations that wrap, and a copy leaves a trace as the body does.  *)
THEOREM LoopSplitTypes == Spec => []TypeOK
  <1>1. Init => TypeInv
    BY LoopSplitStarts
  <1>2. TypeInv /\ [Next]_vars => TypeInv'
    BY LoopSplitStays
  <1>3. TypeInv => TypeOK
    BY DEF TypeInv
  <1> QED BY <1>1, <1>2, <1>3, PTL DEF Spec

-----------------------------------------------------------------------------
(* The two copies run the iterations of the loop when the split point is   *)
(* computed without wrapping.  NextValue is the value for which the loop   *)
(* has not run yet.                                                        *)
NextValue == loop.lb + Len(ran) * loop.step

(* The pass has split at a comparison that changes between the copies.     *)
SplitIsExact ==
    \E cmp :
        /\ split.cmp \in DOMAIN loop.cmps /\ cmp = loop.cmps[split.cmp]
        /\ IsComparison(cmp) /\ Ordered(cmp) /\ cmp.unsigned = loop.unsigned
        /\ split.secondThen = SecondThen(cmp)
        /\ split.point \in Int /\ Splits(split.point, Border(cmp))

(* What runs next, if anything: the first copy has come up to the split    *)
(* point at most, and the second starts where the first ended, unless both *)
(* are past the end of the loop.                                           *)
ExactInv ==
    /\ phase = "walk" => iv = NextValue /\ ran = <<>>
    /\ phase = "verify" => SplitIsExact /\ iv = NextValue /\ ran = <<>>
    /\ phase = "kept" => iv = NextValue
    /\ phase = "first" => /\ SplitIsExact /\ iv = NextValue
                          /\ ran = <<>> \/ iv - loop.step < split.point
    /\ phase = "second" => /\ SplitIsExact /\ iv >= split.point
                           /\ iv = NextValue \/ (iv >= loop.ub /\ NextValue >= loop.ub)
    /\ phase = "ended" => NextValue >= loop.ub

LEMMA NextValueIs ==
    ASSUME TypeInv
    PROVE  /\ Len(ran) \in Nat /\ NextValue \in Int /\ NextValue >= loop.lb
           /\ ran = <<>> => NextValue = loop.lb
           /\ ran # <<>> => Len(ran) > 0
  <1>1. loop.lb \in Int /\ loop.step \in Int /\ loop.step > 0
    BY LoopIsALoop, LoopFacts DEF TypeInv
  <1>2. PICK T : T = Int \X Seq(Nat \X BOOLEAN)
    OBVIOUS
  <1>3. ran \in Seq(T)
    BY <1>2 DEF TypeInv, TypeOK
  <1>4. Len(ran) \in Nat /\ (ran = <<>> <=> Len(ran) = 0)
    BY <1>3, LenProperties, EmptySeq
  <1>5. PICK n \in Nat : n = Len(ran)
    BY <1>4
  <1>6. 0 * loop.step = 0 /\ n * loop.step \in Int /\ 0 * loop.step <= n * loop.step
    BY <1>1, Multiples
  <1>7. loop.lb + n * loop.step \in Int /\ loop.lb + n * loop.step >= loop.lb
    BY <1>1, <1>6
  <1> QED BY <1>1, <1>4, <1>5, <1>6, <1>7 DEF NextValue

(* One more iteration.                                                     *)
LEMMA NextValueMoves ==
    ASSUME TypeInv, loop' = loop, NEW p, ran' = Append(ran, p), p \in Int \X Seq(Nat \X BOOLEAN)
    PROVE  NextValue' = NextValue + loop.step /\ ran' # <<>>
  <1>1. loop.lb \in Int /\ loop.step \in Int /\ loop.step > 0
    BY LoopIsALoop, LoopFacts DEF TypeInv
  <1>2. PICK T : T = Int \X Seq(Nat \X BOOLEAN)
    OBVIOUS
  <1>3. ran \in Seq(T) /\ p \in T
    BY <1>2 DEF TypeInv, TypeOK
  <1>4. PICK n \in Nat : n = Len(ran)
    BY NextValueIs
  <1>5. PICK t : t = Append(ran, p)
    OBVIOUS
  <1>6. Len(t) = n + 1 /\ t \in Seq(T)
    BY <1>3, <1>4, <1>5, AppendFacts
  <1>7. t # <<>>
    BY <1>6
  <1>8. (n + 1) * loop.step = n * loop.step + loop.step /\ n * loop.step \in Int
    BY <1>1, Multiples
  <1>9. NextValue' = loop.lb + (n + 1) * loop.step /\ NextValue = loop.lb + n * loop.step
    BY <1>4, <1>5, <1>6 DEF NextValue
  <1>10. loop.lb + (n + 1) * loop.step = loop.lb + n * loop.step + loop.step
    BY <1>1, <1>8
  <1> QED BY <1>5, <1>7, <1>9, <1>10

(* Where the loop stands, the comparison has the outcome of the copy.      *)
LEMMA OutcomeAtNextValue ==
    ASSUME TypeInv, NEW cmp, IsComparison(cmp), Ordered(cmp), cmp.unsigned = loop.unsigned,
           NEW point \in Int, Splits(point, Border(cmp)), NextValue < loop.ub
    PROVE  Holds(cmp, NextValue) = (SecondThen(cmp) <=> NextValue >= point)
  <1>1. /\ loop.lb \in Int /\ loop.step \in Int /\ loop.step > 0 /\ loop.ub \in Int
        /\ loop.lb \in IntegersOf(loop.unsigned) /\ loop.ub \in IntegersOf(loop.unsigned)
        /\ loop.unsigned \in BOOLEAN
    BY LoopIsALoop, LoopFacts DEF TypeInv
  <1>2. NextValue \in Int /\ NextValue >= loop.lb
    BY NextValueIs
  <1>3. NextValue \in IntegersOf(cmp.unsigned)
    BY <1>1, <1>2, Between
  <1>4. Holds(cmp, NextValue) = (SecondThen(cmp) <=> NextValue >= Border(cmp))
    BY <1>3, FlipsAtBorder
  <1>5. PICK n \in Int : n = Len(ran) /\ NextValue = loop.lb + n * loop.step
    BY NextValueIs DEF NextValue
  <1>6. PICK k \in Int : /\ point = loop.lb + k * loop.step
                         /\ \A j \in Int : loop.lb + j * loop.step < Border(cmp) <=> j < k
    BY DEF Splits
  <1>7. NextValue < Border(cmp) <=> n < k
    BY <1>5, <1>6
  <1>8. NextValue < point <=> n < k
    <2>1. PICK a \in Int, b \in Int : a = n * loop.step /\ b = k * loop.step
      BY <1>1, Multiples
    <2>2. /\ n < k => a + loop.step <= b
          /\ k <= n => b <= a
      BY <1>1, <2>1, Multiples
    <2>3. NextValue = loop.lb + a /\ point = loop.lb + b
      BY <1>5, <1>6, <2>1
    <2> QED BY <1>1, <2>2, <2>3
  <1>9. Border(cmp) \in Int
    BY BorderIsInt
  <1>10. NextValue >= Border(cmp) <=> NextValue >= point
    BY <1>2, <1>7, <1>8, <1>9
  <1> QED BY <1>4, <1>10

(* The copy that runs does what the loop does for this value.              *)
LEMMA CopyRunsIteration ==
    ASSUME IsLoop(loop), loop.carries, NEW c \in DOMAIN loop.cmps, c = split.cmp, NEW x \in Int,
           NEW side \in BOOLEAN, Holds(loop.cmps[c], x) = side
    PROVE  Execute(CopyLoop(side), [Conditions(loop, x) EXCEPT ![split.cmp] = side])
              = Execute(loop.body, Conditions(loop, x))
  <1>1. PICK conds : conds = Conditions(loop, x)
    OBVIOUS
  <1>2. conds \in [DOMAIN loop.cmps -> BOOLEAN] /\ conds[c] = side
    BY <1>1, ConditionsTyped DEF Conditions
  <1>3. [conds EXCEPT ![c] = side] = conds
    BY <1>2
  <1>4. Execute(CopyLoop(side), conds) = Execute(loop.body, conds)
    BY <1>2, CopyDoesTheSame
  <1> QED BY <1>1, <1>3, <1>4

(* What an iteration of the loop is.                                       *)
Iteration ==
    /\ NextValue < loop.ub
    /\ ran' = Append(ran, <<NextValue, Execute(loop.body, Conditions(loop, NextValue))>>)
    /\ UNCHANGED <<loop, phase, walked, split>>

LEMMA IterationMoves ==
    ASSUME TypeInv, Iteration
    PROVE  NextValue' = NextValue + loop.step /\ ran' # <<>> /\ loop' = loop
  <1>1. IsLoop(loop) /\ NextValue \in Int
    BY NextValueIs, LoopIsALoop DEF TypeInv
  <1>2. Execute(loop.body, Conditions(loop, NextValue)) \in Seq(Nat \X BOOLEAN)
    BY <1>1, ConditionsTyped, ExecuteTyped
  <1>3. PICK p : p = <<NextValue, Execute(loop.body, Conditions(loop, NextValue))>>
    OBVIOUS
  <1>4. p \in Int \X Seq(Nat \X BOOLEAN)
    BY <1>1, <1>2, <1>3
  <1>5. ran' = Append(ran, p) /\ loop' = loop
    BY <1>3 DEF Iteration
  <1> QED BY <1>4, <1>5, NextValueMoves

LEMMA RunKeptIs ==
    ASSUME TypeInv, ExactInv, RunKept
    PROVE  Iteration /\ phase = "kept" /\ iv' = iv + loop.step
  <1>1. phase = "kept" /\ iv = NextValue /\ iv < loop.ub
    BY DEF RunKept, ExactInv
  <1> QED BY <1>1 DEF RunKept, Run, Iteration

LEMMA RunFirstIs ==
    ASSUME TypeInv, ExactInv, RunFirst
    PROVE  /\ Iteration /\ phase = "first" /\ iv' = iv + loop.step /\ iv < split.point
           /\ Holds(loop.cmps[split.cmp], iv) = ~split.secondThen
  <1>1. phase = "first" /\ SplitIsExact /\ iv = NextValue /\ iv < FirstEnd
    BY DEF RunFirst, ExactInv
  <1>2. PICK cmp : /\ split.cmp \in DOMAIN loop.cmps /\ cmp = loop.cmps[split.cmp]
                   /\ IsComparison(cmp) /\ Ordered(cmp) /\ cmp.unsigned = loop.unsigned
                   /\ split.secondThen = SecondThen(cmp)
                   /\ split.point \in Int /\ Splits(split.point, Border(cmp))
    BY <1>1 DEF SplitIsExact
  <1>3. loop.ub \in Int /\ iv \in Int /\ IsLoop(loop) /\ loop.carries
    BY <1>1, LoopIsALoop, LoopFacts DEF TypeInv, TypeOK
  <1>4. iv < split.point /\ iv < loop.ub
    BY <1>1, <1>2, <1>3 DEF FirstEnd, LeastOf
  <1>5. Holds(cmp, iv) = (SecondThen(cmp) <=> iv >= split.point)
    BY <1>1, <1>2, <1>4, OutcomeAtNextValue
  <1>6. PICK side \in BOOLEAN : side = ~split.secondThen
    OBVIOUS
  <1>7. Holds(cmp, iv) = side
    <2>1. ~(iv >= split.point)
      BY <1>2, <1>3, <1>4
    <2>2. SecondThen(cmp) \in BOOLEAN
      BY DEF SecondThen
    <2> QED BY <1>2, <1>5, <1>6, <2>1, <2>2
  <1>8. Execute(CopyLoop(side), [Conditions(loop, iv) EXCEPT ![split.cmp] = side])
           = Execute(loop.body, Conditions(loop, iv))
    BY <1>2, <1>3, <1>7, CopyRunsIteration
  <1>9. Run(CopyLoop(side), [Conditions(loop, iv) EXCEPT ![split.cmp] = side])
    BY <1>6 DEF RunFirst, RunCopy
  <1>10. Iteration /\ iv' = iv + loop.step
    BY <1>1, <1>4, <1>8, <1>9 DEF Run, Iteration
  <1> QED BY <1>1, <1>2, <1>4, <1>6, <1>7, <1>10

LEMMA RunSecondIs ==
    ASSUME TypeInv, ExactInv, RunSecond
    PROVE  /\ Iteration /\ phase = "second" /\ iv' = iv + loop.step /\ iv = NextValue
           /\ Holds(loop.cmps[split.cmp], iv) = split.secondThen
  <1>1. phase = "second" /\ SplitIsExact /\ iv >= split.point /\ iv < loop.ub
    BY DEF RunSecond, ExactInv
  <1>2. PICK cmp : /\ split.cmp \in DOMAIN loop.cmps /\ cmp = loop.cmps[split.cmp]
                   /\ IsComparison(cmp) /\ Ordered(cmp) /\ cmp.unsigned = loop.unsigned
                   /\ split.secondThen = SecondThen(cmp)
                   /\ split.point \in Int /\ Splits(split.point, Border(cmp))
    BY <1>1 DEF SplitIsExact
  <1>3. loop.ub \in Int /\ iv \in Int /\ IsLoop(loop) /\ loop.carries
    BY <1>1, LoopIsALoop, LoopFacts DEF TypeInv, TypeOK
  <1>4. iv = NextValue
    BY <1>1, <1>3 DEF ExactInv
  <1>5. Holds(cmp, iv) = (SecondThen(cmp) <=> iv >= split.point)
    BY <1>1, <1>2, <1>4, OutcomeAtNextValue
  <1>6. PICK side : side = split.secondThen
    OBVIOUS
  <1>7. Holds(cmp, iv) = side /\ side \in BOOLEAN
    <2>1. SecondThen(cmp) \in BOOLEAN
      BY DEF SecondThen
    <2> QED BY <1>1, <1>2, <1>5, <1>6, <2>1
  <1>8. Execute(CopyLoop(side), [Conditions(loop, iv) EXCEPT ![split.cmp] = side])
           = Execute(loop.body, Conditions(loop, iv))
    BY <1>2, <1>3, <1>7, CopyRunsIteration
  <1>9. Run(CopyLoop(side), [Conditions(loop, iv) EXCEPT ![split.cmp] = side])
    BY <1>6 DEF RunSecond, RunCopy
  <1>10. Iteration /\ iv' = iv + loop.step
    BY <1>1, <1>4, <1>8, <1>9 DEF Run, Iteration
  <1> QED BY <1>1, <1>2, <1>4, <1>6, <1>7, <1>10

LEMMA StartSecondIs ==
    ASSUME TypeInv, ExactInv, StartSecond
    PROVE  /\ phase = "first" /\ phase' = "second" /\ UNCHANGED <<loop, walked, split, ran>>
           /\ SplitIsExact /\ iv' >= split.point
           /\ iv' = NextValue \/ (iv' >= loop.ub /\ NextValue >= loop.ub)
  <1>1. /\ phase = "first" /\ phase' = "second" /\ UNCHANGED <<loop, walked, split, ran>>
        /\ SplitIsExact /\ iv = NextValue /\ iv >= FirstEnd /\ iv' = SecondStart
        /\ ran = <<>> \/ iv - loop.step < split.point
    BY DEF StartSecond, ExactInv
  <1>2. /\ loop.lb \in Int /\ loop.step \in Int /\ loop.step > 0 /\ loop.ub \in Int
        /\ iv \in Int /\ iv >= loop.lb
    BY LoopIsALoop, LoopFacts DEF TypeInv, TypeOK
  <1>3. PICK point \in Int : point = split.point
    BY <1>1 DEF SplitIsExact
  <1>4. PICK k \in Int : point = loop.lb + k * loop.step
    BY <1>1, <1>3 DEF SplitIsExact, Splits
  <1>5. PICK n \in Nat : n = Len(ran) /\ iv = loop.lb + n * loop.step
    BY <1>1, NextValueIs DEF NextValue
  <1>6. iv' = GreatestOf(point, loop.lb)
    BY <1>1, <1>3 DEF SecondStart
  <1>7. iv' >= point /\ iv' >= loop.lb
    BY <1>2, <1>3, <1>6 DEF GreatestOf
  <1>8. CASE iv < point
    <2>1. loop.ub <= iv
      BY <1>1, <1>2, <1>3, <1>8 DEF FirstEnd, LeastOf
    <2>2. iv' >= loop.ub /\ NextValue >= loop.ub
      BY <1>1, <1>2, <1>3, <1>6, <1>8, <2>1 DEF GreatestOf
    <2> QED BY <1>1, <1>3, <1>7, <2>2
  <1>9. CASE iv >= point
    <2>1. iv' = iv
      <3>1. CASE ran = <<>>
        <4>1. iv = loop.lb
          BY <1>1, <3>1, NextValueIs
        <4> QED BY <1>2, <1>3, <1>6, <1>9, <4>1 DEF GreatestOf
      <3>2. CASE ran # <<>>
        <4>1. iv - loop.step < point
          BY <1>1, <1>3, <3>2
        <4>2. PICK a \in Int, b \in Int : a = n * loop.step /\ b = k * loop.step
          BY <1>2, Multiples
        <4>3. n < k => a + loop.step <= b
          BY <1>2, <4>2, Multiples
        <4>4. k < n => b + loop.step <= a
          BY <1>2, <4>2, Multiples
        <4>5. iv = loop.lb + a /\ point = loop.lb + b
          BY <1>4, <1>5, <4>2
        <4>6. n = k
          BY <1>2, <1>9, <4>1, <4>3, <4>5, <4>4
        <4>7. point = iv
          BY <1>4, <1>5, <4>6
        <4> QED BY <1>2, <1>6, <4>7 DEF GreatestOf
      <3> QED BY <3>1, <3>2
    <2> QED BY <1>1, <1>3, <1>7, <2>1
  <1> QED BY <1>2, <1>3, <1>8, <1>9

LEMMA SplitAtIsExact ==
    ASSUME LoopsAreExact, TypeInv, NEW c, SplitsAt(c), loop' = loop
    PROVE  SplitIsExact'
  <1>1. IsLoop(loop) /\ loop.unsigned \in BOOLEAN
    BY LoopIsALoop DEF TypeInv
  <1>2. PICK cmp : /\ c \in DOMAIN loop.cmps /\ cmp = loop.cmps[c]
                   /\ IsComparison(cmp) /\ Ordered(cmp) /\ cmp.unsigned = loop.unsigned
    BY <1>1 DEF SplitsAt, IsLoop
  <1>3. Exact(loop, cmp)
    BY <1>2 DEF LoopsAreExact, TypeInv, LoopInv
  <1>4. Splits(Aligned(Point(cmp)), Border(cmp))
    BY <1>1, <1>2, <1>3, PointIsAligned
  <1>5. Aligned(Point(cmp)) \in Int
    BY <1>1, <1>2, PointTyped, WrapFacts
  <1>6. PICK s : s = split' /\ s = SplitAt(c)
    BY DEF SplitsAt
  <1>7. s.cmp = c /\ s.secondThen = SecondThen(cmp) /\ s.point = Aligned(Point(cmp))
    BY <1>2, <1>6 DEF SplitAt
  <1>8. Splits(s.point, Border(cmp))'
    BY <1>4, <1>6, <1>7 DEF Splits, Border
  <1> QED BY <1>2, <1>5, <1>6, <1>7, <1>8 DEF SplitIsExact

LEMMA ExactInvStays ==
    ASSUME LoopsAreExact, TypeInv, ExactInv, [Next]_vars
    PROVE  ExactInv'
  <1>1. /\ IsLoop(loop) /\ loop.unsigned \in BOOLEAN /\ loop.lb \in Int /\ loop.ub \in Int
        /\ loop.step \in Int /\ loop.step > 0 /\ iv \in Int /\ NextValue \in Int
        /\ loop' = loop
    BY LoopIsALoop, LoopFacts, LoopStays, NextValueIs DEF TypeInv, TypeOK
  <1>2. ran' = ran => NextValue' = NextValue
    BY <1>1 DEF NextValue
  <1>3. split' = split => (SplitIsExact => SplitIsExact')
    BY <1>1 DEF SplitIsExact, Splits, Border
  <1>4. CASE WalkOp
    <2>1. /\ phase = "walk" /\ UNCHANGED <<loop, iv, ran>>
          /\ (\E c : SplitsAt(c)) \/ UNCHANGED <<phase, split>>
      BY <1>4, WalkOpIs
    <2>2. iv' = NextValue' /\ ran' = <<>>
      BY <1>2, <2>1 DEF ExactInv
    <2>3. CASE \E c : SplitsAt(c)
      <3>1. PICK c : SplitsAt(c)
        BY <2>3
      <3>2. SplitIsExact' /\ phase' = "verify"
        BY <1>1, <3>1, SplitAtIsExact DEF SplitsAt
      <3> QED BY <2>2, <3>2 DEF ExactInv
    <2>4. CASE UNCHANGED <<phase, split>>
      BY <2>1, <2>2, <2>4 DEF ExactInv
    <2> QED BY <2>1, <2>3, <2>4
  <1>5. CASE KeepLoop
    <2>1. phase = "walk" /\ phase' = "kept" /\ ran' = ran /\ iv' = iv
      BY <1>5 DEF KeepLoop
    <2> QED BY <1>2, <2>1 DEF ExactInv
  <1>a. CASE Accept
    <2>1. phase = "verify" /\ phase' = "first" /\ UNCHANGED <<loop, split, iv, ran>>
      BY <1>a DEF Accept
    <2> QED BY <1>2, <1>3, <2>1 DEF ExactInv
  <1>b. CASE Refuse
    BY <1>b DEF Refuse, ExactInv
  <1>6. CASE RunKept
    <2>1. Iteration /\ phase = "kept" /\ iv' = iv + loop.step /\ phase' = phase
      BY <1>6, RunKeptIs DEF Iteration
    <2>2. NextValue' = NextValue + loop.step
      BY <2>1, IterationMoves
    <2>3. iv = NextValue
      BY <2>1 DEF ExactInv
    <2> QED BY <2>1, <2>2, <2>3 DEF ExactInv
  <1>7. CASE RunFirst
    <2>1. /\ Iteration /\ phase = "first" /\ iv' = iv + loop.step /\ iv < split.point
          /\ phase' = phase /\ split' = split
      BY <1>7, RunFirstIs DEF Iteration
    <2>2. NextValue' = NextValue + loop.step
      BY <2>1, IterationMoves
    <2>3. iv = NextValue /\ SplitIsExact
      BY <2>1 DEF ExactInv
    <2>4. SplitIsExact'
      BY <1>3, <2>1, <2>3
    <2>5. iv' - loop.step = iv
      BY <1>1, <2>1
    <2>6. iv' - loop'.step < split'.point
      BY <1>1, <2>1, <2>5
    <2> QED BY <2>1, <2>2, <2>3, <2>4, <2>6 DEF ExactInv
  <1>8. CASE StartSecond
    <2>1. /\ phase' = "second" /\ UNCHANGED <<loop, walked, split, ran>>
          /\ SplitIsExact /\ iv' >= split.point
          /\ iv' = NextValue \/ (iv' >= loop.ub /\ NextValue >= loop.ub)
      BY <1>8, StartSecondIs
    <2>2. SplitIsExact' /\ NextValue' = NextValue
      BY <1>2, <1>3, <2>1
    <2> QED BY <2>1, <2>2 DEF ExactInv
  <1>9. CASE RunSecond
    <2>1. /\ Iteration /\ phase = "second" /\ iv' = iv + loop.step /\ iv = NextValue
          /\ phase' = phase /\ split' = split
      BY <1>9, RunSecondIs DEF Iteration
    <2>2. NextValue' = NextValue + loop.step
      BY <2>1, IterationMoves
    <2>3. SplitIsExact /\ iv >= split.point
      BY <2>1 DEF ExactInv
    <2>4. SplitIsExact'
      BY <1>3, <2>1, <2>3
    <2>5. split.point \in Int
      BY <2>3 DEF SplitIsExact
    <2>6. iv' >= split'.point
      BY <1>1, <2>1, <2>3, <2>5
    <2> QED BY <2>1, <2>2, <2>4, <2>6 DEF ExactInv
  <1>10. CASE Finish
    <2>1. /\ phase \in {"second", "kept"} /\ iv >= loop.ub /\ phase' = "ended"
          /\ ran' = ran /\ loop' = loop
      BY <1>10 DEF Finish
    <2>2. NextValue >= loop.ub
      BY <2>1 DEF ExactInv
    <2> QED BY <1>2, <2>1, <2>2 DEF ExactInv
  <1>11. CASE UNCHANGED vars
    <2>1. UNCHANGED <<loop, phase, walked, split, iv, ran>>
      BY <1>11 DEF vars
    <2> QED BY <1>2, <1>3, <2>1 DEF ExactInv
  <1>12. CASE Ended
    BY <1>11, <1>12 DEF Ended
  <1> QED BY <1>4, <1>5, <1>a, <1>b, <1>6, <1>7, <1>8, <1>9, <1>10, <1>11, <1>12 DEF Next

LEMMA ExactInvStarts ==
    ASSUME Init
    PROVE  TypeInv /\ ExactInv
  <1>1. TypeInv
    BY LoopSplitStarts
  <1>2. NextValue = loop.lb
    BY <1>1, NextValueIs DEF Init
  <1> QED BY <1>1, <1>2 DEF Init, ExactInv

(* "First loop: before the condition flips true", "Second loop: after the  *)
(* condition is true": where no split point wraps, the comparison has in   *)
(* every iteration of a copy the outcome that the copy is for, whatever    *)
(* the bounds, the step, the width and the other operand.                  *)
THEOREM ConditionAlwaysFlips ==
    ASSUME LoopsAreExact
    PROVE  Spec => []ConditionFlips
  <1>1. Init => TypeInv /\ ExactInv
    BY ExactInvStarts
  <1>2. TypeInv /\ ExactInv /\ [Next]_vars => TypeInv' /\ ExactInv'
    BY LoopSplitStays, ExactInvStays
  <1>3. TypeInv /\ ExactInv => ConditionFlips
    <2> SUFFICES ASSUME TypeInv, ExactInv PROVE ConditionFlips
      OBVIOUS
    <2>1. loop.ub \in Int /\ iv \in Int
      BY LoopIsALoop, LoopFacts DEF TypeInv, TypeOK
    <2>2. ASSUME phase \in {"first", "second"}, iv < loop.ub, iv = NextValue
          PROVE  /\ split.point \in Int /\ split.secondThen \in BOOLEAN
                 /\ Holds(loop.cmps[split.cmp], iv) = (split.secondThen <=> iv >= split.point)
      <3>1. SplitIsExact
        BY <2>2 DEF ExactInv
      <3>2. PICK cmp : /\ split.cmp \in DOMAIN loop.cmps /\ cmp = loop.cmps[split.cmp]
                       /\ IsComparison(cmp) /\ Ordered(cmp) /\ cmp.unsigned = loop.unsigned
                       /\ split.secondThen = SecondThen(cmp)
                       /\ split.point \in Int /\ Splits(split.point, Border(cmp))
        BY <3>1 DEF SplitIsExact
      <3>3. Holds(cmp, iv) = (SecondThen(cmp) <=> iv >= split.point)
        BY <2>2, <3>2, OutcomeAtNextValue
      <3>4. SecondThen(cmp) \in BOOLEAN
        BY DEF SecondThen
      <3> QED BY <3>2, <3>3, <3>4
    <2>3. ASSUME phase = "first", iv < FirstEnd
          PROVE  Holds(loop.cmps[split.cmp], iv) = ~split.secondThen
      <3>1. SplitIsExact /\ iv = NextValue
        BY <2>3 DEF ExactInv
      <3>2. PICK point \in Int : point = split.point
        BY <3>1 DEF SplitIsExact
      <3>3. iv < point /\ iv < loop.ub
        BY <2>1, <2>3, <3>2 DEF FirstEnd, LeastOf
      <3>4. ~(iv >= point)
        BY <2>1, <3>3
      <3> QED BY <2>2, <2>3, <3>1, <3>2, <3>3, <3>4
    <2>4. ASSUME phase = "second", iv < loop.ub
          PROVE  Holds(loop.cmps[split.cmp], iv) = split.secondThen
      <3>1. iv >= split.point /\ iv = NextValue
        BY <2>1, <2>4 DEF ExactInv
      <3> QED BY <2>2, <2>4, <3>1
    <2> QED BY <2>3, <2>4 DEF ConditionFlips
  <1> QED BY <1>1, <1>2, <1>3, PTL DEF Spec

LEMMA OriginalIs ==
    ASSUME NEW body, NEW l, NEW x
    PROVE  Original!Execute(body, Original!Conditions(l, x)) = Execute(body, Conditions(l, x))
  <1>1. Original!Conditions(l, x) = Conditions(l, x)
    BY Zenon DEF Original!Conditions, Conditions, Original!Holds, Holds, Original!Compare,
                 Compare, Original!Wrap, Wrap
  <1>2. \A conds : Original!Execute(body, conds) = Execute(body, conds)
    BY Zenon DEF Original!Execute, Execute, Original!Step, Step, Original!Region, Region,
                 Original!FoldLeft, FoldLeft, Original!MapThenFoldSet, MapThenFoldSet,
                 Original!Max, Max
  <1> QED BY <1>1, <1>2

(* performLoopSplit: where no split point wraps, the program that the pass *)
(* leaves, if the verifier accepts it (which is when the loop carries      *)
(* values, CopiesAreWellFormed), runs the iterations that the loop ran     *)
(* before, in the same order, with the same operations in each, and ends   *)
(* when the loop did; for every width, bounds, step, body and comparison.  *)
THEOREM SplitPreservesLoop ==
    ASSUME LoopsAreExact
    PROVE  Spec => PreservesLoop
  <1>1. Init => TypeInv /\ ExactInv
    BY ExactInvStarts
  <1>2. TypeInv /\ ExactInv /\ [Next]_vars => TypeInv' /\ ExactInv'
    BY LoopSplitStays, ExactInvStays
  <1>3. Init => Original!Init
    BY DEF Init, Original!Init, HasEnded
  <1>4. TypeInv /\ ExactInv /\ [Next]_vars => [Original!Next]_(Original!forVars)
    <2> SUFFICES ASSUME TypeInv, ExactInv, [Next]_vars
                 PROVE  [Original!Next]_(Original!forVars)
      OBVIOUS
    <2>1. loop' = loop
      BY LoopStays
    <2>2. Original!NextValue = NextValue
      BY DEF Original!NextValue, NextValue
    <2>3. ASSUME Iteration, phase # "ended" PROVE Original!Next
      <3>1. /\ NextValue < loop.ub /\ loop' = loop /\ phase' = phase
            /\ ran' = Append(ran, <<NextValue, Execute(loop.body, Conditions(loop, NextValue))>>)
        BY <2>3 DEF Iteration
      <3>2. Original!Execute(loop.body, Original!Conditions(loop, NextValue))
               = Execute(loop.body, Conditions(loop, NextValue))
        BY OriginalIs
      <3>3. HasEnded' = HasEnded /\ ~HasEnded
        BY <2>3, <3>1 DEF HasEnded
      <3> QED BY <2>2, <3>1, <3>2, <3>3, Zenon DEF Original!Next, Original!Iterate
    <2>4. ASSUME ran' = ran, (phase = "ended") <=> (phase' = "ended")
          PROVE  UNCHANGED Original!forVars
      BY <2>1, <2>4 DEF Original!forVars, HasEnded
    <2>5. CASE WalkOp
      <3>1. phase = "walk" /\ ran' = ran
        BY <2>5, WalkOpIs
      <3>2. phase' \in {"walk", "verify"}
        BY <2>5, <3>1, WalkOpIs DEF SplitsAt
      <3> QED BY <2>4, <3>1, <3>2
    <2>6. CASE KeepLoop
      BY <2>4, <2>6 DEF KeepLoop
    <2>a. CASE Accept
      BY <2>4, <2>a DEF Accept
    <2>b. CASE Refuse
      BY <2>4, <2>b DEF Refuse
    <2>7. CASE StartSecond
      BY <2>4, <2>7 DEF StartSecond
    <2>8. CASE RunKept
      BY <2>3, <2>8, RunKeptIs
    <2>9. CASE RunFirst
      BY <2>3, <2>9, RunFirstIs
    <2>10. CASE RunSecond
      BY <2>3, <2>10, RunSecondIs
    <2>11. CASE Finish
      <3>1. /\ phase \in {"second", "kept"} /\ iv >= loop.ub /\ phase' = "ended" /\ ran' = ran
        BY <2>11 DEF Finish
      <3>2. NextValue >= loop.ub
        BY <3>1 DEF ExactInv
      <3>3. ~HasEnded /\ HasEnded' = TRUE
        BY <3>1 DEF HasEnded
      <3> QED BY <2>1, <2>2, <3>1, <3>2, <3>3 DEF Original!Next, Original!End
    <2>12. CASE UNCHANGED vars
      BY <2>4, <2>12 DEF vars
    <2>13. CASE Ended
      BY <2>12, <2>13 DEF Ended
    <2> QED BY <2>5, <2>6, <2>a, <2>b, <2>7, <2>8, <2>9, <2>10, <2>11, <2>12, <2>13 DEF Next
  <1> QED BY <1>1, <1>2, <1>3, <1>4, PTL DEF Spec, PreservesLoop, Original!Spec
=============================================================================
