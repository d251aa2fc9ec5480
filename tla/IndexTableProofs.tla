-------------------------- MODULE IndexTableProofs --------------------------
(***************************************************************************)
(* IndexTable for every set of items and every acyclic parts relation: the *)
(* inductive invariant IInv, the safety properties it implies, and the     *)
(* refinement of DependencyLog.                                            *)
(***************************************************************************)
EXTENDS IndexTable, SequenceFacts, SequenceTheorems, TLAPS

USE DEF NoIndex, ReservedIndex

-----------------------------------------------------------------------------
(* The top frame of a busy stack.                                          *)
LEMMA TopFacts ==
    ASSUME TypeOK, ~Idle
    PROVE  /\ Len(stack) \in Nat \ {0}
           /\ Top \in Frame
           /\ Top.item \in Item
           /\ Top.next \in Nat
           /\ Deps[Top.item] \in Seq(Item)
  <1>1. Len(stack) \in Nat \ {0}
    BY EmptySeq DEF TypeOK, Idle
  <1>2. Top \in Frame
    BY <1>1 DEF TypeOK, Top
  <1> QED BY <1>1, <1>2, DepsAssumption DEF Frame

LEMMA StackItem ==
    ASSUME TypeOK, NEW n \in 1..Len(stack)
    PROVE  stack[n].item \in Item /\ stack[n].next \in Nat
  <1>1. stack[n] \in Frame
    BY ElementOfSeq DEF TypeOK
  <1> QED BY <1>1 DEF Frame

LEMMA DepFacts ==
    ASSUME NEW i \in Item
    PROVE  /\ Deps[i] \in Seq(Item)
           /\ Len(Deps[i]) \in Nat
           /\ DOMAIN Deps[i] = 1..Len(Deps[i])
           /\ \A k \in 1..Len(Deps[i]) : Deps[i][k] \in Item
           /\ \A k \in 1..Len(Deps[i]) : Rank[Deps[i][k]] < Rank[i]
  <1>1. Deps[i] \in Seq(Item)
    BY DepsAssumption
  <1> QED BY <1>1, RankAssumption, LenProperties, ElementOfSeq

LEMMA FieldFacts ==
    ASSUME NEW i \in Item
    PROVE  /\ Fields[i] \in Seq(Item)
           /\ Len(Fields[i]) \in Nat
           /\ DOMAIN Fields[i] = 1..Len(Fields[i])
           /\ \A k \in 1..Len(Fields[i]) :
                 /\ Fields[i][k] \in Item
                 /\ \E m \in 1..Len(Deps[i]) : Deps[i][m] = Fields[i][k]
  <1>1. Fields[i] \in Seq(Item)
    BY FieldsAssumption
  <1> QED BY <1>1, FieldsAssumption, DepFacts, LenProperties, ElementOfSeq

(* A new frame is a frame.                                                 *)
LEMMA NewFrame ==
    ASSUME NEW i \in Item
    PROVE  [item |-> i, next |-> 0] \in Frame
  BY DEF Frame

(* Starting the call for the next part of the top frame's item.            *)
Started == [stack EXCEPT ![Len(stack)] = [item |-> Top.item, next |-> Top.next + 1]]

LEMMA StartPart ==
    ASSUME TypeOK, ~Idle
    PROVE  /\ Started \in Seq(Frame)
           /\ Len(Started) = Len(stack)
           /\ \A n \in 1..Len(stack) : n # Len(stack) => Started[n] = stack[n]
           /\ Started[Len(stack)].item = Top.item
           /\ Started[Len(stack)].next = Top.next + 1
  <1> DEFINE f == [item |-> Top.item, next |-> Top.next + 1]
  <1>1. f \in Frame
    BY TopFacts DEF Frame
  <1>2. Len(stack) \in 1..Len(stack) /\ stack \in Seq(Frame)
    BY TopFacts DEF TypeOK
  <1>3. f.item = Top.item /\ f.next = Top.next + 1
    OBVIOUS
  <1>4. Started = [stack EXCEPT ![Len(stack)] = f]
    BY DEF Started
  <1> HIDE DEF f
  <1>5. /\ Started \in Seq(Frame)
        /\ Len(Started) = Len(stack)
        /\ \A j \in 1..Len(stack) : Started[j] = IF j = Len(stack) THEN f ELSE stack[j]
    BY <1>1, <1>2, <1>4, ExceptSeq
  <1> QED BY <1>2, <1>3, <1>5

-----------------------------------------------------------------------------
(* The field SerializePart is about to write is known: the section never   *)
(* registers anything.                                                     *)
NextPart == Fields[list[Len(out) + 1]][Len(entry) + 1]

LEMMA SerializeShape ==
    ASSUME IInv, SerializePart
    PROVE  /\ Len(out) + 1 \in 1..Len(list)
           /\ list[Len(out) + 1] \in Item
           /\ Len(entry) + 1 \in 1..Len(Fields[list[Len(out) + 1]])
           /\ NextPart \in Item
           /\ Known(NextPart)
           /\ entry' = Append(entry, IndexOf(NextPart))
           /\ UNCHANGED stack
  <1>1. Len(out) \in Nat /\ Len(entry) \in Nat /\ Len(list) \in Nat
    BY LenProperties DEF IInv, TypeOK
  <1>2. Len(out) + 1 \in 1..Len(list)
    BY <1>1 DEF IInv, SectionProgress, SerializePart
  <1>3. list[Len(out) + 1] \in Item
    BY <1>2, ElementOfSeq DEF IInv, TypeOK
  <1>4. Len(entry) + 1 \in 1..Len(Fields[list[Len(out) + 1]])
    BY <1>1, <1>3, FieldFacts DEF SerializePart
  <1>5. NextPart \in Item
    BY <1>3, <1>4, FieldFacts DEF NextPart
  <1>6. Known(NextPart)
    <2>1. PICK m \in 1..Len(Deps[list[Len(out) + 1]]) : Deps[list[Len(out) + 1]][m] = NextPart
      BY <1>3, <1>4, FieldFacts DEF NextPart
    <2> QED BY <1>2, <1>3, <2>1, DepFacts DEF IInv, DependencyOrder, Known, Parts
  <1> QED BY <1>2, <1>3, <1>4, <1>5, <1>6 DEF SerializePart, NextPart

-----------------------------------------------------------------------------
(* Type correctness.                                                       *)
LEMMA InitTypeOK == Init => TypeOK
  BY DEF Init, TypeOK

LEMMA NextTypeOK ==
    ASSUME IInv, [Next]_vars
    PROVE  TypeOK'
  <1> USE DEF IInv
  <1>1. ASSUME NEW i \in Item, RequestKnown(i) PROVE TypeOK'
    <2>1. IndexOf(i) \in Nat
      BY DEF TypeOK, IndexOf
    <2> QED BY <1>1, <2>1 DEF TypeOK, RequestKnown
  <1>2. ASSUME NEW i \in Item, RequestNew(i) PROVE TypeOK'
    BY <1>2, NewFrame, AppendFacts DEF TypeOK, RequestNew, Push
  <1>3. CASE RegisterPart
    <2> DEFINE d == Deps[Top.item][Top.next + 1]
    <2>1. ~Idle /\ Top.next + 1 \in 1..Len(Deps[Top.item])
      BY <1>3, TopFacts, DepFacts DEF RegisterPart
    <2>2. d \in Item
      BY <2>1, TopFacts, DepFacts
    <2>3. Started \in Seq(Frame)
      BY <2>1, StartPart
    <2>4. stack' = Started \/ stack' = Append(Started, [item |-> d, next |-> 0])
      BY <1>3 DEF RegisterPart, Started
    <2>5. stack' \in Seq(Frame)
      BY <2>2, <2>3, <2>4, NewFrame, AppendFacts
    <2> QED BY <1>3, <2>5 DEF TypeOK, RegisterPart
  <1>4. CASE RegisterItem
    <2>1. ~Idle /\ Top.item \in Item /\ stack \in Seq(Frame) /\ stack # <<>>
      BY <1>4, TopFacts DEF RegisterItem, TypeOK, Idle
    <2>2. Len(list) + Base \in Nat
      BY BaseAssumption, LenProperties DEF TypeOK
    <2>3. stack' \in Seq(Frame)
      BY <1>4, <2>1, PopFacts DEF RegisterItem
    <2>4. list' \in Seq(Item)
      BY <1>4, <2>1, AppendFacts DEF RegisterItem, TypeOK
    <2>5. index' \in [Item -> Nat \cup {NoIndex}] /\ answer' \in [Item -> Nat \cup {NoIndex}]
      BY <1>4, <2>1, <2>2 DEF RegisterItem, TypeOK
    <2> QED BY <1>4, <2>3, <2>4, <2>5 DEF TypeOK, RegisterItem
  <1>5. CASE StartSection
    BY <1>5, LenProperties DEF TypeOK, StartSection
  <1>6. CASE SerializePart
    <2>1. entry' = Append(entry, IndexOf(NextPart)) /\ UNCHANGED stack
      BY <1>6, SerializeShape
    <2>2. IndexOf(NextPart) \in Nat
      BY <1>6, SerializeShape DEF TypeOK, IndexOf
    <2> QED BY <1>6, <2>1, <2>2, AppendFacts DEF TypeOK, SerializePart
  <1>7. CASE FinishEntry
    BY <1>7, AppendFacts, EmptySeq DEF TypeOK, FinishEntry
  <1>8. CASE UNCHANGED vars
    BY <1>8 DEF TypeOK, vars
  <1> QED
    BY <1>1, <1>2, <1>3, <1>4, <1>5, <1>6, <1>7, <1>8 DEF Next, Done

-----------------------------------------------------------------------------
(* What registering the top item does, in terms of the map.                *)
LEMMA RegisterShape ==
    ASSUME IInv, RegisterItem
    PROVE  /\ Top.item \in Item
           /\ Len(list) \in Nat
           /\ index[Top.item] = NoIndex
           /\ Top.item \notin Reserved
           /\ \A k \in 1..Len(Deps[Top.item]) : Known(Deps[Top.item][k])
           /\ list' \in Seq(Item)
           /\ Len(list') = Len(list) + 1
           /\ list'[Len(list) + 1] = Top.item
           /\ \A n \in 1..Len(list) : list'[n] = list[n]
           /\ index'[Top.item] = Len(list) + Base
           /\ \A i \in Item : i # Top.item => index'[i] = index[i]
  <1>1. ~Idle /\ Len(stack) \in Nat \ {0} /\ Top.item \in Item
    BY TopFacts DEF RegisterItem, IInv
  <1>2. Len(stack) \in 1..Len(stack)
    BY <1>1
  <1>3. ~Known(Top.item) /\ Top.next = Len(Deps[Top.item])
    BY <1>2 DEF IInv, CallStack, RegisterItem, Top
  <1>4. \A k \in 1..Len(Deps[Top.item]) : Known(Deps[Top.item][k])
    <2>1. \A k \in 1..Top.next : Known(Deps[Top.item][k]) \/ Len(stack) < Len(stack)
      BY <1>2 DEF IInv, CallStack, Top
    <2> QED BY <1>1, <1>3, <2>1
  <1>5. /\ list' \in Seq(Item)
        /\ Len(list') = Len(list) + 1
        /\ list'[Len(list) + 1] = Top.item
        /\ \A n \in 1..Len(list) : list'[n] = list[n]
        /\ Len(list) \in Nat
    BY <1>1, AppendFacts, LenProperties DEF RegisterItem, IInv, TypeOK
  <1>6. /\ index'[Top.item] = Len(list) + Base
        /\ \A i \in Item : i # Top.item => index'[i] = index[i]
    BY <1>1 DEF RegisterItem, IInv, TypeOK
  <1> QED BY <1>1, <1>3, <1>4, <1>5, <1>6 DEF Known

(* The index of an item says where in the list it is.                      *)
LEMMA IndexBound ==
    ASSUME IInv, NEW i \in Item, index[i] # NoIndex
    PROVE  /\ index[i] - Base + 1 \in 1..Len(list)
           /\ list[index[i] - Base + 1] = i
           /\ index[i] \in Nat
           /\ index[i] < Base + Len(list)
  <1>1. PICK n \in 1..Len(list) : list[n] = i
    BY DEF IInv, IndexIsPosition
  <1>2. index[i] = Base + n - 1 /\ Len(list) \in Nat /\ Base \in Nat
    BY <1>1, BaseAssumption, LenProperties DEF IInv, IndexIsPosition, TypeOK
  <1>3. index[i] - Base + 1 = n /\ index[i] \in Nat /\ index[i] < Base + Len(list)
    BY <1>2
  <1> QED BY <1>1, <1>3

(* Every action but RegisterItem leaves the list and the map alone.        *)
LEMMA TableStep ==
    ASSUME [Next]_vars
    PROVE  RegisterItem \/ UNCHANGED <<list, index>>
  BY DEF Next, RequestKnown, RequestNew, RegisterPart, StartSection,
         SerializePart, FinishEntry, Done, vars

LEMMA NextIndexIsPosition ==
    ASSUME IInv, [Next]_vars
    PROVE  IndexIsPosition'
  <1>1. CASE RegisterItem
    <2>1. \A n \in 1..Len(list') : index'[list'[n]] = Base + n - 1
      <3> TAKE n \in 1..Len(list')
      <3>1. CASE n = Len(list) + 1
        BY <1>1, <3>1, RegisterShape, BaseAssumption
      <3>2. CASE n # Len(list) + 1
        <4>1. n \in 1..Len(list) /\ list'[n] = list[n] /\ list[n] \in Item
          BY <1>1, <3>2, RegisterShape, ElementOfSeq DEF IInv, TypeOK
        <4>2. index[list[n]] = Base + n - 1 /\ index[list[n]] # NoIndex
          BY <4>1, BaseAssumption DEF IInv, IndexIsPosition
        <4>3. list[n] # Top.item
          BY <1>1, <4>2, RegisterShape
        <4> QED BY <1>1, <4>1, <4>2, <4>3, RegisterShape
      <3> QED BY <3>1, <3>2
    <2>2. ASSUME NEW i \in Item, index'[i] # NoIndex
          PROVE  \E n \in 1..Len(list') : list'[n] = i
      <3>1. CASE i = Top.item
        <4>1. Len(list) + 1 \in 1..Len(list') /\ list'[Len(list) + 1] = i
          BY <1>1, <3>1, RegisterShape
        <4> QED BY <4>1
      <3>2. CASE i # Top.item
        <4>1. PICK n \in 1..Len(list) : list[n] = i
          BY <1>1, <2>2, <3>2, RegisterShape DEF IInv, IndexIsPosition
        <4>2. n \in 1..Len(list') /\ list'[n] = i
          BY <1>1, <4>1, RegisterShape
        <4> QED BY <4>2
      <3> QED BY <3>1, <3>2
    <2> QED BY <2>1, <2>2 DEF IndexIsPosition
  <1>2. CASE UNCHANGED <<list, index>>
    BY <1>2 DEF IInv, IndexIsPosition
  <1> QED BY <1>1, <1>2, TableStep

LEMMA NextDependencyOrder ==
    ASSUME IInv, [Next]_vars
    PROVE  DependencyOrder'
  <1>1. CASE RegisterItem
    <2> SUFFICES ASSUME NEW n \in 1..Len(list'),
                        NEW k \in DOMAIN Deps[list'[n]],
                        Deps[list'[n]][k] \notin Reserved
                 PROVE  /\ index'[Deps[list'[n]][k]] # NoIndex
                        /\ index'[Deps[list'[n]][k]] < Base + n - 1
      BY DEF DependencyOrder, Parts
    <2> DEFINE d == Deps[list'[n]][k]
    <2>1. list'[n] \in Item
      BY <1>1, RegisterShape, ElementOfSeq
    <2>2. d \in Item
      BY <2>1, DepFacts
    <2>3. Len(list) \in Nat /\ Base \in Nat /\ n \in Nat
      BY <1>1, RegisterShape, BaseAssumption
    <2>4. index[d] # NoIndex /\ index[d] < Base + n - 1
      <3>1. CASE n = Len(list) + 1
        <4>1. Known(d)
          BY <1>1, <2>1, <3>1, RegisterShape, DepFacts
        <4>2. index[d] # NoIndex
          BY <4>1 DEF Known
        <4>3. index[d] < Base + Len(list) /\ index[d] \in Nat
          BY <2>2, <4>2, IndexBound
        <4> QED BY <2>3, <3>1, <4>2, <4>3
      <3>2. CASE n # Len(list) + 1
        <4>1. n \in 1..Len(list) /\ list'[n] = list[n]
          BY <1>1, <3>2, RegisterShape
        <4> QED BY <4>1 DEF IInv, DependencyOrder, Parts
      <3> QED BY <3>1, <3>2
    <2>5. d # Top.item
      BY <1>1, <2>4, RegisterShape
    <2>6. index'[d] = index[d]
      BY <1>1, <2>2, <2>5, RegisterShape
    <2> QED BY <2>4, <2>6
  <1>2. CASE UNCHANGED <<list, index>>
    BY <1>2 DEF IInv, DependencyOrder, Parts
  <1> QED BY <1>1, <1>2, TableStep

-----------------------------------------------------------------------------
(* CallStack, frame by frame.  FrameOK(st, ix, n) is its body for frame n. *)
KnownIn(ix, i) == ix[i] # NoIndex \/ i \in Reserved

FrameOK(st, ix, n) ==
    /\ ~KnownIn(ix, st[n].item)
    /\ st[n].next \in 0..Len(Deps[st[n].item])
    /\ \A m \in 1..n-1 : Rank[st[n].item] < Rank[st[m].item]
    /\ \A k \in 1..st[n].next :
          KnownIn(ix, Deps[st[n].item][k]) \/ (k = st[n].next /\ n < Len(st))
    /\ n < Len(st) =>
          /\ st[n].next \in Parts(st[n].item)
          /\ st[n+1].item = Deps[st[n].item][st[n].next]

LEMMA CallStackFrames ==
    CallStack <=> \A n \in 1..Len(stack) : FrameOK(stack, index, n)
  BY DEF CallStack, FrameOK, Known, KnownIn

LEMMA CallStackFramesNext ==
    CallStack' <=> \A n \in 1..Len(stack') : FrameOK(stack', index', n)
  BY DEF CallStack, FrameOK, Known, KnownIn

LEMMA NextCallStack ==
    ASSUME IInv, [Next]_vars
    PROVE  CallStack'
  <1> SUFFICES \A n \in 1..Len(stack') : FrameOK(stack', index', n)
    BY CallStackFramesNext
  <1>0. \A n \in 1..Len(stack) : FrameOK(stack, index, n)
    BY CallStackFrames DEF IInv
  <1>1. ASSUME NEW i \in Item, RequestNew(i)
        PROVE  \A n \in 1..Len(stack') : FrameOK(stack', index', n)
    <2>1. Len(stack') = 1 /\ stack'[1] = [item |-> i, next |-> 0] /\ index' = index
      BY <1>1 DEF RequestNew, Push, Idle
    <2>2. Len(Deps[i]) \in Nat
      BY DepFacts
    <2>3. ~KnownIn(index, i)
      BY <1>1 DEF RequestNew, Known, KnownIn
    <2> QED BY <2>1, <2>2, <2>3 DEF FrameOK
  <1>2. CASE RegisterPart
    <2> DEFINE d == Deps[Top.item][Top.next + 1]
               L == Len(stack)
    <2>1. /\ ~Idle /\ L \in Nat \ {0} /\ Top.item \in Item /\ Top.next \in Nat
          /\ Top.next + 1 \in 1..Len(Deps[Top.item])
      BY <1>2, TopFacts, DepFacts DEF RegisterPart, IInv
    <2>2. d \in Item /\ Rank[d] < Rank[Top.item] /\ Rank[d] \in Nat /\ Rank[Top.item] \in Nat
      BY <2>1, DepFacts, RankAssumption
    <2>3. index' = index
      BY <1>2 DEF RegisterPart
    <2>4. /\ Started \in Seq(Frame)
          /\ Len(Started) = L
          /\ \A n \in 1..L : n # L => Started[n] = stack[n]
          /\ Started[L].item = Top.item
          /\ Started[L].next = Top.next + 1
      BY <2>1, StartPart DEF IInv
    <2>5. FrameOK(stack, index, L) /\ Top = stack[L]
      BY <1>0, <2>1 DEF Top
    <2>6. \A n \in 1..L : Started[n].item = stack[n].item
      BY <2>4, <2>5
    <2>7. ASSUME NEW n \in 1..L, n # L, NEW st,
                 Len(st) = L \/ Len(st) = L + 1,
                 \A m \in 1..L : st[m] = Started[m]
          PROVE  FrameOK(st, index, n)
      <3>1. n + 1 \in 1..L /\ n < L /\ n < Len(st)
        BY <2>1, <2>7
      <3>2. FrameOK(stack, index, n) /\ st[n] = stack[n]
        BY <1>0, <2>4, <2>7
      <3>3. st[n+1].item = stack[n+1].item
        BY <2>6, <2>7, <3>1
      <3>4. \A m \in 1..n-1 : st[m].item = stack[m].item
        <4>1. \A m \in 1..n-1 : m \in 1..L
          BY <3>1
        <4> QED BY <2>6, <2>7, <4>1
      <3> QED BY <3>1, <3>2, <3>3, <3>4 DEF FrameOK
    <2>8. CASE Known(d)
      <3>1. stack' = Started
        BY <1>2, <2>8 DEF RegisterPart, Started
      <3>2. FrameOK(Started, index, L)
        <4>1. ~KnownIn(index, Started[L].item)
          BY <2>4, <2>5 DEF FrameOK
        <4>2. Started[L].next \in 0..Len(Deps[Started[L].item])
          BY <2>1, <2>4
        <4>3. \A m \in 1..L-1 : Rank[Started[L].item] < Rank[Started[m].item]
          BY <2>1, <2>4, <2>5 DEF FrameOK
        <4>4. \A k \in 1..Started[L].next : KnownIn(index, Deps[Started[L].item][k])
          <5>1. ASSUME NEW k \in 1..stack[L].next
                PROVE  KnownIn(index, Deps[stack[L].item][k])
            BY <2>5, <5>1 DEF FrameOK
          <5>2. KnownIn(index, d)
            BY <2>8 DEF Known, KnownIn
          <5> SUFFICES ASSUME NEW k \in 1..Started[L].next
                       PROVE  KnownIn(index, Deps[Started[L].item][k])
            OBVIOUS
          <5>3. k \in 1..stack[L].next \/ k = Top.next + 1
            BY <2>1, <2>4, <2>5
          <5>4. CASE k \in 1..stack[L].next
            BY <2>4, <2>5, <5>1, <5>4, Zenon
          <5>5. CASE k = Top.next + 1
            BY <2>4, <5>2, <5>5, Zenon
          <5> QED BY <5>3, <5>4, <5>5
        <4> QED BY <2>4, <4>1, <4>2, <4>3, <4>4 DEF FrameOK
      <3> QED BY <2>1, <2>3, <2>4, <2>7, <3>1, <3>2
    <2>9. CASE ~Known(d)
      <3> DEFINE f == [item |-> d, next |-> 0]
      <3>1. stack' = Append(Started, f)
        BY <1>2, <2>9 DEF RegisterPart, Started
      <3>2. /\ Len(stack') = L + 1
            /\ \A n \in 1..L : stack'[n] = Started[n]
            /\ stack'[L + 1].item = d /\ stack'[L + 1].next = 0
        BY <2>2, <2>4, <3>1, NewFrame, AppendFacts
      <3>3. FrameOK(stack', index, L)
        <4>1. ~KnownIn(index, stack'[L].item) /\ stack'[L].item = Top.item
              /\ stack'[L].next = Top.next + 1 /\ L < Len(stack')
          BY <2>1, <2>4, <2>5, <3>2 DEF FrameOK
        <4>2. \A m \in 1..L-1 : Rank[stack'[L].item] < Rank[stack'[m].item]
          <5>1. \A m \in 1..L-1 : stack'[m] = stack[m]
            BY <2>1, <2>4, <3>2
          <5> QED BY <2>5, <4>1, <5>1 DEF FrameOK
        <4>3. \A k \in 1..stack'[L].next :
                 KnownIn(index, Deps[stack'[L].item][k]) \/ k = stack'[L].next
          BY <2>1, <2>5, <4>1 DEF FrameOK
        <4>4. stack'[L].next \in Parts(stack'[L].item)
              /\ stack'[L+1].item = Deps[stack'[L].item][stack'[L].next]
          BY <2>1, <3>2, <4>1, DepFacts DEF Parts
        <4> QED BY <2>1, <4>1, <4>2, <4>3, <4>4 DEF FrameOK
      <3>4. FrameOK(stack', index, L + 1)
        <4>1. \A m \in 1..L : Rank[d] < Rank[stack'[m].item]
          <5> TAKE m \in 1..L
          <5>1. stack'[m].item = stack[m].item /\ stack[m].item \in Item
            BY <2>6, <3>2, StackItem DEF IInv
          <5>2. m = L \/ Rank[Top.item] < Rank[stack[m].item]
            BY <2>1, <2>5 DEF FrameOK
          <5>3. Rank[stack[m].item] \in Nat
            BY <5>1, RankAssumption
          <5> QED BY <2>2, <2>5, <5>1, <5>2, <5>3
        <4>2. Len(Deps[d]) \in Nat /\ ~KnownIn(index, d)
          BY <2>2, <2>9, DepFacts DEF Known, KnownIn
        <4> QED BY <2>1, <3>2, <4>1, <4>2 DEF FrameOK
      <3>5. \A n \in 1..Len(stack') : n \in 1..L \/ n = L + 1
        BY <2>1, <3>2
      <3> QED BY <2>3, <2>7, <3>2, <3>3, <3>4, <3>5
    <2> QED BY <2>8, <2>9
  <1>3. CASE RegisterItem
    <2> DEFINE L == Len(stack)
    <2>1. ~Idle /\ L \in Nat \ {0} /\ stack # <<>> /\ stack \in Seq(Frame)
      BY <1>3, TopFacts DEF RegisterItem, IInv, TypeOK, Idle
    <2>2. stack' = SubSeq(stack, 1, L - 1)
      BY <1>3 DEF RegisterItem
    <2>3. Len(stack') = L - 1 /\ \A n \in 1..L-1 : stack'[n] = stack[n]
      BY <2>1, <2>2, PopFacts
    <2>4. \A i \in Item : KnownIn(index, i) => KnownIn(index', i)
      BY <1>3, RegisterShape, BaseAssumption DEF KnownIn
    <2>5. KnownIn(index', Top.item)
      BY <1>3, RegisterShape, BaseAssumption DEF KnownIn
    <2> SUFFICES ASSUME NEW n \in 1..L-1
                 PROVE  FrameOK(stack', index', n)
      BY <2>3
    <2>6. /\ FrameOK(stack, index, n) /\ stack'[n] = stack[n]
          /\ n \in 1..L /\ n < L /\ n + 1 \in 1..L
      BY <1>0, <2>1, <2>3
    <2>7. stack[n].item \in Item
      BY <2>6, StackItem DEF IInv
    <2>8. Rank[Top.item] < Rank[stack[n].item]
      <3>1. FrameOK(stack, index, L)
        BY <1>0, <2>1
      <3> QED BY <3>1 DEF FrameOK, Top
    <2>9. ~KnownIn(index', stack[n].item)
      <3>1. stack[n].item # Top.item
        BY <1>3, <2>7, <2>8, RegisterShape, RankAssumption
      <3> QED BY <1>3, <2>6, <2>7, <3>1, RegisterShape DEF FrameOK, KnownIn
    <2>10. \A m \in 1..n-1 : stack'[m] = stack[m]
      BY <2>1, <2>3
    <2>11. \A k \in 1..stack[n].next : Deps[stack[n].item][k] \in Item
      BY <2>6, <2>7, DepFacts DEF FrameOK
    <2>12. \A k \in 1..stack[n].next :
              KnownIn(index', Deps[stack[n].item][k]) \/ (k = stack[n].next /\ n < L - 1)
      <3> TAKE k \in 1..stack[n].next
      <3>1. CASE KnownIn(index, Deps[stack[n].item][k])
        BY <2>4, <2>11, <3>1
      <3>2. CASE ~KnownIn(index, Deps[stack[n].item][k])
        <4>1. k = stack[n].next
          BY <2>6, <3>2 DEF FrameOK
        <4>2. CASE n = L - 1
          <5>1. stack[n+1] = Top
            BY <2>1, <4>2 DEF Top
          <5>2. Deps[stack[n].item][k] = Top.item
            BY <2>6, <4>1, <5>1 DEF FrameOK
          <5> QED BY <2>5, <5>2
        <4>3. CASE n # L - 1
          BY <2>1, <4>1, <4>3
        <4> QED BY <4>2, <4>3
      <3> QED BY <3>1, <3>2
    <2>13. n < L - 1 => stack'[n+1] = stack[n+1]
      BY <2>1, <2>3
    <2> QED BY <2>3, <2>6, <2>9, <2>10, <2>12, <2>13 DEF FrameOK
  <1>4. CASE UNCHANGED <<stack, index>>
    BY <1>0, <1>4
  <1>5. ASSUME SerializePart PROVE UNCHANGED <<stack, index>>
    BY <1>5, SerializeShape DEF SerializePart
  <1> QED
    BY <1>1, <1>2, <1>3, <1>4, <1>5
    DEF Next, RequestKnown, StartSection, FinishEntry, Done, vars

LEMMA NextAnswerIsIndex ==
    ASSUME IInv, [Next]_vars
    PROVE  AnswerIsIndex'
  <1>1. ASSUME NEW i \in Item, RequestKnown(i) PROVE AnswerIsIndex'
    BY <1>1 DEF RequestKnown, Known, IndexOf, IInv, AnswerIsIndex, TypeOK, SectionProgress
  <1>2. CASE RegisterItem
    <2> SUFFICES ASSUME NEW i \in Item, answer'[i] # NoIndex
                 PROVE  IF i \in Reserved THEN answer'[i] = ReservedIndex
                        ELSE answer'[i] = index'[i]
      BY DEF AnswerIsIndex
    <2>1. CASE answer'[i] = answer[i]
      <3>1. IF i \in Reserved THEN answer[i] = ReservedIndex ELSE answer[i] = index[i]
        BY <2>1 DEF IInv, AnswerIsIndex
      <3>2. i \notin Reserved => i # Top.item
        BY <1>2, <2>1, <3>1, RegisterShape
      <3> QED BY <1>2, <2>1, <3>1, <3>2, RegisterShape
    <2>2. CASE answer'[i] # answer[i]
      <3>1. i = Top.item /\ answer'[i] = Len(list) + Base
        BY <1>2, <2>2 DEF RegisterItem, IInv, TypeOK
      <3> QED BY <1>2, <3>1, RegisterShape
    <2> QED BY <2>1, <2>2
  <1>3. CASE UNCHANGED <<answer, index>>
    BY <1>3 DEF IInv, AnswerIsIndex
  <1> QED
    BY <1>1, <1>2, <1>3
    DEF Next, RequestNew, RegisterPart, StartSection, SerializePart,
        FinishEntry, Done, vars

(* Before the section is started every action that matters leaves it       *)
(* empty; once it is started only SerializePart and FinishEntry touch it.  *)
LEMMA NextSectionProgress ==
    ASSUME IInv, [Next]_vars
    PROVE  SectionProgress'
  <1> USE DEF IInv
  <1>0. Len(list) \in Nat /\ Len(out) \in Nat /\ Len(entry) \in Nat
    BY LenProperties DEF TypeOK
  <1>1. CASE count' = count /\ count = NoIndex /\ UNCHANGED <<list, index, out, entry>>
    BY <1>1 DEF SectionProgress, IndexOf
  <1>2. CASE RegisterItem
    <2>1. count = NoIndex /\ out = <<>> /\ entry = <<>> /\ UNCHANGED <<count, out, entry>>
      BY <1>2 DEF RegisterItem, SectionProgress
    <2>2. \A i \in Reserved : index'[i] = NoIndex
      BY <1>2, RegisterShape, ReservedAssumption DEF SectionProgress
    <2>3. Len(list') > 0 /\ list'[1] \in Item
      BY <1>0, <1>2, RegisterShape, ElementOfSeq
    <2>4. Len(Fields[list'[1]]) \in Nat
      BY <2>3, FieldFacts
    <2> QED BY <2>1, <2>2, <2>3, <2>4 DEF SectionProgress
  <1>3. CASE StartSection
    <2>1. out = <<>> /\ entry = <<>> /\ UNCHANGED <<list, index, stack, out, entry>>
          /\ count' = Len(list) /\ Idle
      BY <1>3 DEF StartSection, SectionProgress
    <2>2. Len(list) > 0 => Len(Fields[list[1]]) \in Nat
      BY <1>0, ElementOfSeq, FieldFacts DEF TypeOK
    <2> QED BY <1>0, <2>1, <2>2 DEF SectionProgress, Idle
  <1>4. CASE SerializePart
    <2> DEFINE n == Len(out) + 1
    <2>1. /\ n \in 1..Len(list)
          /\ Len(entry) + 1 \in 1..Len(Fields[list[n]])
          /\ entry' = Append(entry, IndexOf(NextPart))
          /\ UNCHANGED <<list, index, stack, count, out>>
      BY <1>4, SerializeShape DEF SerializePart
    <2>2. IndexOf(NextPart) \in Nat /\ entry \in Seq(Nat)
      BY <1>4, SerializeShape DEF TypeOK, IndexOf
    <2>3. /\ Len(entry') = Len(entry) + 1
          /\ \A k \in 1..Len(entry) : entry'[k] = entry[k]
          /\ entry'[Len(entry) + 1] = IndexOf(NextPart)
      BY <2>1, <2>2, AppendFacts
    <2>4. \A k \in 1..Len(entry') : entry'[k] = IndexOf(Fields[list[n]][k])
      <3> TAKE k \in 1..Len(entry')
      <3>1. k \in 1..Len(entry) \/ k = Len(entry) + 1
        BY <1>0, <2>3
      <3>2. ASSUME k \in 1..Len(entry) PROVE entry'[k] = IndexOf(Fields[list[n]][k])
        BY <1>0, <2>1, <2>3, <3>2 DEF SectionProgress
      <3>3. ASSUME k = Len(entry) + 1 PROVE entry'[k] = IndexOf(Fields[list[n]][k])
        BY <2>3, <3>3 DEF NextPart
      <3> QED BY <3>1, <3>2, <3>3
    <2>5. count # NoIndex /\ Idle /\ Len(out) < Len(list)
      BY <1>0, <2>1, <1>4 DEF SerializePart
    <2>6. Len(out) + 1 = n /\ Len(entry') <= Len(Fields[list[n]]) /\ Len(out) # Len(list)
      BY <1>0, <2>1, <2>3, <2>5
    <2> HIDE DEF n
    <2> QED BY <2>1, <2>4, <2>5, <2>6 DEF SectionProgress, IndexOf, Idle
  <1>5. CASE FinishEntry
    <2> DEFINE n == Len(out) + 1
    <2>1. /\ count # NoIndex /\ Idle /\ Len(out) < count /\ count = Len(list)
          /\ Len(entry) = Len(Fields[list[n]])
          /\ out' = Append(out, entry) /\ entry' = <<>>
          /\ UNCHANGED <<list, index, stack, count>>
      BY <1>5 DEF FinishEntry, SectionProgress
    <2>2. /\ Len(out') = n
          /\ \A m \in 1..Len(out) : out'[m] = out[m]
          /\ out'[n] = entry
      BY <2>1, AppendFacts DEF TypeOK
    <2>3. ASSUME NEW m \in 1..Len(out')
          PROVE  /\ Len(out'[m]) = Len(Fields[list[m]])
                 /\ \A k \in 1..Len(out'[m]) : out'[m][k] = IndexOf(Fields[list[m]][k])
      <3>1. m \in 1..Len(out) \/ m = n
        BY <1>0, <2>2
      <3> QED BY <1>0, <2>1, <2>2, <3>1 DEF SectionProgress
    <2>4. n < Len(list) => Len(Fields[list[n + 1]]) \in Nat
      BY <1>0, ElementOfSeq, FieldFacts DEF TypeOK
    <2>5. n <= Len(list) /\ n \in Nat /\ Len(entry') = 0
      BY <1>0, <2>1
    <2>6. Len(entry') <= Len(Fields[list[n + 1]]) \/ ~(n < Len(list))
      BY <2>4, <2>5
    <2> HIDE DEF n
    <2> QED BY <2>1, <2>2, <2>3, <2>5, <2>6 DEF SectionProgress, IndexOf, Idle
  <1>6. CASE UNCHANGED vars
    BY <1>6 DEF SectionProgress, IndexOf, Idle, vars
  <1>7. ASSUME NEW i \in Item, RequestKnown(i) \/ RequestNew(i) PROVE SectionProgress'
    BY <1>1, <1>7 DEF RequestKnown, RequestNew
  <1>8. ASSUME RegisterPart PROVE SectionProgress'
    BY <1>1, <1>8 DEF RegisterPart, SectionProgress
  <1> QED BY <1>2, <1>3, <1>4, <1>5, <1>6, <1>7, <1>8 DEF Next, Done

-----------------------------------------------------------------------------
(* The inductive invariant.                                                *)
LEMMA InitIInv == Init => IInv
  <1> SUFFICES ASSUME Init PROVE IInv
    OBVIOUS
  <1>1. \A i \in Item : index[i] = NoIndex /\ answer[i] = NoIndex
    BY DEF Init
  <1>2. list = <<>> /\ stack = <<>> /\ out = <<>> /\ entry = <<>> /\ count = NoIndex
    BY DEF Init
  <1>3. IndexIsPosition /\ DependencyOrder /\ CallStack
    BY <1>1, <1>2 DEF IndexIsPosition, DependencyOrder, CallStack
  <1>4. AnswerIsIndex /\ SectionProgress
    BY <1>1, <1>2, ReservedAssumption DEF AnswerIsIndex, SectionProgress
  <1> QED BY <1>3, <1>4, InitTypeOK DEF IInv

LEMMA NextIInv == IInv /\ [Next]_vars => IInv'
  BY NextTypeOK, NextIndexIsPosition, NextDependencyOrder, NextCallStack,
     NextAnswerIsIndex, NextSectionProgress DEF IInv

(* The writer's tables keep the inductive invariant whatever the types or  *)
(* locations a module has, however deep, and whatever order the sections   *)
(* ask for them in.                                                        *)
THEOREM Invariant == Spec => []IInv
  BY InitIInv, NextIInv, PTL DEF Spec

(* Every variable keeps the shape the code gives it.                       *)
THEOREM TypeCorrect == Spec => []TypeOK
  <1>1. IInv => TypeOK
    BY DEF IInv
  <1> QED BY <1>1, Invariant, PTL

(* Map and list agree: no item is ever numbered twice.                     *)
THEOREM NumberedOnce == Spec => []IndexIsPosition
  <1>1. IInv => IndexIsPosition
    BY DEF IInv
  <1> QED BY <1>1, Invariant, PTL

(* Every entry of the table comes after its parts.                         *)
THEOREM PartsComeFirst == Spec => []DependencyOrder
  <1>1. IInv => DependencyOrder
    BY DEF IInv
  <1> QED BY <1>1, Invariant, PTL

(* An index a section has written stays the item's index to the end.       *)
THEOREM AnswersStayRight == Spec => []AnswerResolves
  <1>1. ASSUME IInv PROVE AnswerResolves
    <2> SUFFICES ASSUME NEW i \in Item, answer[i] # NoIndex, i \notin Reserved
                 PROVE  /\ answer[i] - Base + 1 \in 1..Len(list)
                        /\ list[answer[i] - Base + 1] = i
      BY <1>1 DEF AnswerResolves, IInv, AnswerIsIndex
    <2>1. answer[i] = index[i]
      BY <1>1 DEF IInv, AnswerIsIndex
    <2> QED BY <1>1, <2>1, IndexBound
  <1> QED BY <1>1, Invariant, PTL

(* Every entry of the section names exactly the fields of its item.        *)
THEOREM EntriesResolve == Spec => []EntryResolves
  <1>1. ASSUME IInv PROVE EntryResolves
    <2> SUFFICES ASSUME NEW n \in 1..Len(out)
                 PROVE  /\ Len(out[n]) = Len(Fields[list[n]])
                        /\ \A k \in 1..Len(out[n]) :
                              LET d == Fields[list[n]][k] IN
                              IF d \in Reserved THEN out[n][k] = ReservedIndex
                              ELSE /\ out[n][k] - Base + 1 \in 1..count
                                   /\ list[out[n][k] - Base + 1] = d
      BY DEF EntryResolves
    <2>1. /\ Len(out[n]) = Len(Fields[list[n]])
          /\ \A k \in 1..Len(out[n]) : out[n][k] = IndexOf(Fields[list[n]][k])
      BY <1>1 DEF IInv, SectionProgress
    <2>2. count = Len(list) /\ n \in 1..Len(list)
      <3>1. out # <<>> /\ Len(out) \in Nat /\ Len(list) \in Nat
        BY <1>1, LenProperties DEF IInv, TypeOK
      <3> QED BY <1>1, <3>1 DEF IInv, SectionProgress
    <2>3. ASSUME NEW k \in 1..Len(out[n])
          PROVE  LET d == Fields[list[n]][k] IN
                 IF d \in Reserved THEN out[n][k] = ReservedIndex
                 ELSE /\ out[n][k] - Base + 1 \in 1..count
                      /\ list[out[n][k] - Base + 1] = d
      <3> DEFINE d == Fields[list[n]][k]
      <3>1. list[n] \in Item /\ k \in 1..Len(Fields[list[n]])
        BY <1>1, <2>1, <2>2, ElementOfSeq DEF IInv, TypeOK
      <3>2. d \in Item
        BY <3>1, FieldFacts
      <3>3. CASE d \in Reserved
        BY <1>1, <2>1, <3>3 DEF IInv, SectionProgress, IndexOf
      <3>4. CASE d \notin Reserved
        <4>1. PICK m \in 1..Len(Deps[list[n]]) : Deps[list[n]][m] = d
          BY <3>1, FieldFacts
        <4>2. index[d] # NoIndex
          BY <1>1, <2>2, <3>1, <3>4, <4>1, DepFacts DEF IInv, DependencyOrder, Parts
        <4> QED BY <1>1, <2>1, <2>2, <3>2, <3>4, <4>2, IndexBound DEF IndexOf
      <3> QED BY <3>3, <3>4
    <2> QED BY <2>1, <2>3
  <1> QED BY <1>1, Invariant, PTL

(* Serialising never registers: the table is frozen once its count is in   *)
(* the section.                                                            *)
THEOREM Frozen == Spec => FrozenOnceCounted
  <1>1. IInv /\ [Next]_vars => [count # NoIndex => list' = list]_vars
    <2> SUFFICES ASSUME IInv, [Next]_vars, count # NoIndex PROVE list' = list
      OBVIOUS
    <2>1. ~RegisterItem
      BY DEF IInv, SectionProgress, RegisterItem
    <2> QED BY <2>1, TableStep
  <1> QED BY <1>1, Invariant, PTL DEF Spec, FrozenOnceCounted

(* What is known to the map is settled in the log, and the other way       *)
(* round.                                                                  *)
LEMMA KnownIsSettled ==
    ASSUME IInv, NEW i \in Item
    PROVE  Known(i) <=> Log!Settled(i)
  <1>1. CASE index[i] # NoIndex
    BY <1>1 DEF Known, Log!Settled, IInv, IndexIsPosition
  <1>2. CASE index[i] = NoIndex
    <2>1. \A n \in 1..Len(list) : list[n] # i
      <3> SUFFICES ASSUME NEW n \in 1..Len(list), list[n] = i PROVE FALSE
        OBVIOUS
      <3>1. index[i] = Base + n - 1
        BY DEF IInv, IndexIsPosition
      <3> QED BY <1>2, <3>1, BaseAssumption
    <2> QED BY <1>2, <2>1 DEF Known, Log!Settled
  <1> QED BY <1>1, <1>2

(* The recursion, the stack and the serialisation are invisible from       *)
(* outside: the table is a dependency log, to which RegisterItem is Enter, *)
(* RequestKnown is Answer and StartSection is Close.                       *)
THEOREM TableImplementsLog == Spec => ImplementsLog
  <1>1. Init => Log!Init
    BY DEF Init, Log!Init
  <1>2. ASSUME IInv, [Next]_vars PROVE [Log!Next]_(Log!logVars)
    <2> USE <1>2 DEF IInv
    <2>1. ASSUME NEW i \in Item, RequestKnown(i) PROVE Log!Next
      <3>1. CASE i \in Reserved
        <4>1. answer' = [answer EXCEPT ![i] = 0]
          BY <2>1, <3>1 DEF RequestKnown, IndexOf, SectionProgress
        <4> QED BY <2>1, <3>1, <4>1 DEF RequestKnown, Log!Next, Log!Answer
      <3>2. CASE i \notin Reserved
        <4>1. index[i] # NoIndex /\ answer' = [answer EXCEPT ![i] = index[i]]
          BY <2>1, <3>2 DEF RequestKnown, Known, IndexOf
        <4>2. PICK n \in 1..Len(list) : list[n] = i
          BY <4>1 DEF IndexIsPosition
        <4>3. index[i] = Base + n - 1
          BY <4>2 DEF IndexIsPosition
        <4>4. Log!Answer(i)
          BY <2>1, <3>2, <4>1, <4>2, <4>3 DEF RequestKnown, Log!Answer
        <4> QED BY <4>4 DEF Log!Next
      <3> QED BY <3>1, <3>2
    <2>2. ASSUME RegisterItem PROVE Log!Next
      <3> DEFINE i == Top.item
      <3>1. count = NoIndex /\ count' = count
        BY <2>2 DEF RegisterItem, SectionProgress
      <3>2. i \in Item /\ ~Log!Settled(i)
        BY <2>2, RegisterShape, KnownIsSettled DEF Known
      <3>3. \A k \in DOMAIN Deps[i] : Log!Settled(Deps[i][k])
        BY <2>2, RegisterShape, KnownIsSettled, DepFacts
      <3>4. answer' \in {answer, [answer EXCEPT ![i] = Base + Len(list)]}
        <4>1. Len(list) + Base = Base + Len(list)
          BY <2>2, RegisterShape, BaseAssumption
        <4> QED BY <2>2, <4>1 DEF RegisterItem
      <3>5. list' = Append(list, i)
        BY <2>2 DEF RegisterItem
      <3>6. Log!Enter(i)
        BY <3>1, <3>2, <3>3, <3>4, <3>5 DEF Log!Enter
      <3> QED BY <3>2, <3>6 DEF Log!Next
    <2>3. ASSUME StartSection PROVE Log!Next
      <3>1. count' # NoIndex
        BY <2>3, LenProperties DEF StartSection, TypeOK
      <3> QED BY <2>3, <3>1 DEF StartSection, Log!Next, Log!Close
    <2>4. ASSUME UNCHANGED <<list, answer, count>> PROVE UNCHANGED Log!logVars
      BY <2>4 DEF Log!logVars
    <2> QED
      BY <2>1, <2>2, <2>3, <2>4
      DEF Next, RequestNew, RegisterPart, SerializePart, FinishEntry, Done, vars
  <1> QED BY <1>1, <1>2, Invariant, PTL DEF Spec, ImplementsLog, Log!Spec
=============================================================================
