--------------------------- MODULE LazyTableProofs ---------------------------
(***************************************************************************)
(* LazyTable for every section a file may hold: the inductive invariant    *)
(* IInv and the safety properties it implies.                              *)
(***************************************************************************)
EXTENDS LazyTable, SequenceFacts, SequenceTheorems, FiniteSetTheorems, TLAPS

USE DEF Null, Pending

-----------------------------------------------------------------------------
(* The top frame of an active call.                                        *)
LEMMA TopFacts ==
    ASSUME TypeOK, ~Idle
    PROVE  /\ Len(stack) \in Nat \ {0}
           /\ Len(stack) \in 1..Len(stack)
           /\ stack \in Seq(Frame) /\ stack # <<>>
           /\ Top = stack[Len(stack)]
           /\ Top.index \in Nat /\ Top.next \in Nat
  <1>1. stack \in Seq(Frame) /\ stack # <<>>
    BY DEF TypeOK, Idle
  <1>2. Len(stack) \in Nat \ {0} /\ Len(stack) \in 1..Len(stack) /\ stack[Len(stack)] \in Frame
    BY <1>1, StackElements
  <1> QED BY <1>1, <1>2 DEF Top, Frame

(* The shape of an entry.                                                  *)
LEMMA EntryFacts ==
    ASSUME TypeOK, NEW i \in Indices
    PROVE  /\ i \in Nat /\ i >= Base
           /\ table[i].parts \in Seq(Part)
           /\ Len(table[i].parts) \in Nat
           /\ DOMAIN table[i].parts = 1..Len(table[i].parts)
           /\ \A k \in 1..Len(table[i].parts) : table[i].parts[k].index \in Nat
  <1>1. i \in Nat /\ i >= Base
    BY SizeAssumption DEF Indices
  <1>2. table \in [Indices -> Entry]
    BY TablesAssumption DEF TypeOK, Indices
  <1>3. table[i].parts \in Seq(Part)
    BY <1>2 DEF Entry
  <1>4. \A k \in 1..Len(table[i].parts) : table[i].parts[k] \in Part
    BY <1>3, StackElements
  <1> QED BY <1>1, <1>3, <1>4, LenProperties DEF Part

(* The stack while a part is asked for.                                    *)
Advanced == [stack EXCEPT ![Len(stack)] = [index |-> Top.index, next |-> Top.next + 1]]

LEMMA AdvancedFacts ==
    ASSUME TypeOK, ~Idle
    PROVE  /\ Advanced \in Seq(Frame)
           /\ Len(Advanced) = Len(stack)
           /\ \A n \in 1..Len(stack) : n # Len(stack) => Advanced[n] = stack[n]
           /\ Advanced[Len(stack)].index = Top.index
           /\ Advanced[Len(stack)].next = Top.next + 1
           /\ \A n \in 1..Len(stack) : Advanced[n].index = stack[n].index
  <1> DEFINE f == [index |-> Top.index, next |-> Top.next + 1]
  <1>1. f \in Frame
    BY TopFacts DEF Frame
  <1>2. f.index = Top.index /\ f.next = Top.next + 1 /\ Advanced = [stack EXCEPT ![Len(stack)] = f]
    BY DEF Advanced
  <1> HIDE DEF f
  <1>3. /\ Advanced \in Seq(Frame)
        /\ Len(Advanced) = Len(stack)
        /\ \A n \in 1..Len(stack) : n # Len(stack) => Advanced[n] = stack[n]
        /\ Advanced[Len(stack)] = f
    BY <1>1, <1>2, TopFacts, ReplaceTopFacts
  <1> QED BY <1>2, <1>3, TopFacts

-----------------------------------------------------------------------------
(* The three ways a call goes: it returns a value, it returns null, or a   *)
(* frame is pushed.                                                        *)
LEMMA CallCases ==
    ASSUME NEW i, NEW st, Call(i, st)
    PROVE  \/ /\ i < Base \/ i \in cache
              /\ ret' = i /\ stack' = st /\ parsing' = parsing
           \/ /\ ~(i < Base) /\ i \notin cache /\ (i \notin Indices \/ i \in parsing)
              /\ ret' = Null /\ stack' = st /\ parsing' = parsing
           \/ /\ ~(i < Base) /\ i \notin cache /\ i \in Indices /\ i \notin parsing
              /\ ret' = Pending
              /\ stack' = Append(st, [index |-> i, next |-> 0])
              /\ parsing' = parsing \cup {i}
  BY DEF Call

(* Pushing a frame, on the stack of the caller.                            *)
LEMMA PushFacts ==
    ASSUME NEW i \in Nat, NEW st \in Seq(Frame)
    PROVE  LET t == Append(st, [index |-> i, next |-> 0]) IN
           /\ t \in Seq(Frame)
           /\ Len(t) = Len(st) + 1
           /\ \A n \in 1..Len(st) : t[n] = st[n]
           /\ t[Len(st) + 1].index = i
           /\ t[Len(st) + 1].next = 0
  <1> DEFINE f == [index |-> i, next |-> 0]
  <1>1. f \in Frame /\ f.index = i /\ f.next = 0
    BY DEF Frame
  <1> HIDE DEF f
  <1> QED BY <1>1, AppendFacts DEF f

(* What an action does to the stack: nothing, advance the top frame and    *)
(* maybe push (ReadPart), push (Request), or pop (Fail, Finish).           *)
PopStep ==
    /\ ~Idle
    /\ stack' = SubSeq(stack, 1, Len(stack) - 1)
    /\ parsing' = parsing \ {Top.index}

LEMMA PopStepFacts ==
    ASSUME TypeOK, PopStep
    PROVE  /\ stack' \in Seq(Frame)
           /\ Len(stack') = Len(stack) - 1
           /\ \A n \in 1..Len(stack) - 1 : stack'[n] = stack[n]
           /\ Len(stack) \in Nat \ {0} /\ Len(stack) \in 1..Len(stack)
           /\ Top = stack[Len(stack)]
  BY TopFacts, PopFacts DEF PopStep

(* The reason why the call on top fails.                                   *)
FailCause ==
    LET e == table[Top.index] IN
    \/ ~e.slice \/ ~e.sound
    \/ /\ ret # Pending
       /\ Top.next \in DOMAIN e.parts
       /\ Hopeless(e.parts[Top.next]) \/ Unwinding(e.parts[Top.next])

FailStep ==
    /\ ~Idle /\ Fail /\ FailCause

FinishStep ==
    /\ ~Idle /\ ret = Pending
    /\ table[Top.index].slice /\ table[Top.index].sound
    /\ Top.next = Len(table[Top.index].parts)
    /\ cache' = cache \cup {Top.index}
    /\ ret' = Top.index
    /\ stack' = SubSeq(stack, 1, Len(stack) - 1)
    /\ parsing' = parsing \ {Top.index}
    /\ UNCHANGED <<table, refused>>

TakeStep ==
    /\ ~Idle /\ ret # Pending
    /\ Fits(ret, table[Top.index].parts[Top.next])
    /\ ret' = Pending
    /\ UNCHANGED <<table, cache, parsing, stack, refused>>

(* The frame on top, from the invariant.                                   *)
LEMMA TopFrame ==
    ASSUME IInv, ~Idle
    PROVE  /\ Top.index \in Indices /\ Top.index \notin cache
           /\ Top.next \in 0..Len(table[Top.index].parts)
           /\ Top.next > 0 => table[Top.index].slice
           /\ ret = Pending => \A j \in 1..Top.next : Have(table[Top.index].parts[j])
           /\ \A j \in 1..Top.next :
                 Have(table[Top.index].parts[j]) \/ (j = Top.next /\ ret # Pending)
           /\ ret # Pending => Top.next \in 1..Len(table[Top.index].parts)
           /\ Top.index \in parsing
  <1>1. FrameOK(Len(stack)) /\ Top = stack[Len(stack)] /\ Len(stack) \in Nat \ {0}
        /\ Len(stack) \in 1..Len(stack)
    BY TopFacts DEF IInv, PartsSoFar
  <1>2. Top.index \in parsing
    BY <1>1 DEF IInv, MarksAreCalls
  <1>3. Top.index \in Indices /\ Len(table[Top.index].parts) \in Nat /\ Top.next \in Nat
    BY <1>1, EntryFacts, TopFacts DEF FrameOK, IInv
  <1> QED BY <1>1, <1>2, <1>3 DEF FrameOK, Waiting

(* Every step of Next is one of these.                                     *)
LEMMA StepCases ==
    ASSUME IInv, [Next]_vars
    PROVE  \/ \E i \in 0..(Base + Size) : Request(i)
           \/ Answer
           \/ ReadPart
           \/ TakeStep
           \/ FailStep
           \/ FinishStep
           \/ UNCHANGED vars
  <1>1. ASSUME BadSlice PROVE FailStep
    BY <1>1 DEF BadSlice, FailStep, FailCause
  <1>2. ASSUME Finish PROVE FailStep \/ FinishStep
    BY <1>2 DEF Finish, FailStep, FailCause, FinishStep
  <1>3. ASSUME TakePart PROVE FailStep \/ TakeStep
    <2> DEFINE e == table[Top.index]
               p == e.parts[Top.next]
    <2>1. ~Idle /\ ret # Pending
      BY <1>3 DEF TakePart
    <2>2. CASE Fits(ret, p)
      BY <1>3, <2>2 DEF TakePart, TakeStep
    <2>3. CASE ~Fits(ret, p)
      <3>1. Fail
        BY <1>3, <2>3 DEF TakePart
      <3>2. Top.next \in DOMAIN e.parts /\ Top.index \in Indices
        BY <2>1, TopFrame, EntryFacts DEF IInv
      <3>3. Hopeless(p) \/ Unwinding(p)
        <4>1. CASE ret = Null
          BY <2>1, <4>1 DEF IInv, ReturnOK, Hopeless, Unwinding
        <4>2. CASE ret # Null
          <5>1. ret \in Nat /\ ret = p.index
            BY <2>1, <4>2 DEF IInv, TypeOK, ReturnOK
          <5>2. ret < Base \/ ret \in Indices
            <6>1. ret >= 0
              BY <5>1
            <6>2. ret < Base \/ ret \in cache
              BY <6>1 DEF IInv, ReturnOK
            <6> QED BY <6>2 DEF IInv, TypeOK
          <5>3. KindOf(ret) \notin p.want
            BY <2>3, <4>2 DEF Fits
          <5> QED BY <5>1, <5>2, <5>3 DEF Hopeless
        <4> QED BY <4>1, <4>2
      <3> QED BY <2>1, <3>1, <3>2, <3>3 DEF FailStep, FailCause
    <2> QED BY <2>2, <2>3
  <1> QED BY <1>1, <1>2, <1>3 DEF Next, Run

-----------------------------------------------------------------------------
(* FailStep and FinishStep pop the top frame and return.                   *)
LEMMA ReturnSteps ==
    ASSUME IInv, FailStep \/ FinishStep
    PROVE  /\ PopStep
           /\ table' = table
           /\ ret' # Pending
           /\ Top.index \in Indices
           /\ FailStep => /\ ret' = Null /\ cache' = cache
                          /\ refused' = refused \cup {Top.index}
           /\ FinishStep => /\ ret' = Top.index /\ refused' = refused
                            /\ cache' = cache \cup {Top.index}
  <1>1. ~Idle
    BY DEF FailStep, FinishStep
  <1>2. Top.index \in Indices /\ Top.index \in Nat
    BY <1>1, TopFrame, EntryFacts DEF IInv
  <1> QED BY <1>1, <1>2 DEF FailStep, Fail, FinishStep, PopStep

LEMMA NextTypeOK ==
    ASSUME IInv, [Next]_vars
    PROVE  TypeOK'
  <1> USE DEF IInv
  <1>0. Indices' = Indices
    BY DEF Indices
  <1>1. ASSUME NEW i \in Nat, NEW st \in Seq(Frame), Call(i, st)
        PROVE  parsing' \subseteq Indices /\ stack' \in Seq(Frame) /\ ret' \in Nat \cup {Null, Pending}
    <2>1. \/ ret' = i /\ stack' = st /\ parsing' = parsing
          \/ ret' = Null /\ stack' = st /\ parsing' = parsing
          \/ /\ i \in Indices
             /\ ret' = Pending
             /\ stack' = Append(st, [index |-> i, next |-> 0])
             /\ parsing' = parsing \cup {i}
      BY <1>1, CallCases
    <2>2. parsing \subseteq Indices /\ cache \subseteq Indices
      BY DEF TypeOK
    <2>3. Append(st, [index |-> i, next |-> 0]) \in Seq(Frame)
      BY PushFacts
    <2> QED BY <2>1, <2>2, <2>3
  <1>2. ASSUME NEW i \in 0..(Base + Size), Request(i) PROVE TypeOK'
    <2>1. i \in Nat
      BY SizeAssumption
    <2> QED BY <1>0, <1>1, <1>2, <2>1 DEF TypeOK, Request
  <1>3. CASE ReadPart
    <2>1. ~Idle /\ Top.index \in Indices /\ Top.next + 1 \in 1..Len(table[Top.index].parts)
      BY <1>3, TopFrame, TopFacts, EntryFacts, SMTT(20) DEF ReadPart
    <2>2. table[Top.index].parts[Top.next + 1].index \in Nat /\ Advanced \in Seq(Frame)
      BY <2>1, EntryFacts, AdvancedFacts
    <2>3. Call(table[Top.index].parts[Top.next + 1].index, Advanced)
      BY <1>3 DEF ReadPart, Advanced
    <2> QED BY <1>0, <1>1, <1>3, <2>2, <2>3 DEF TypeOK, ReadPart
  <1>4. CASE FailStep \/ FinishStep
    <2>1. stack' \in Seq(Frame) /\ Top.index \in Nat
      BY <1>4, ReturnSteps, PopStepFacts, EntryFacts
    <2> QED BY <1>0, <1>4, <2>1, ReturnSteps DEF TypeOK, PopStep
  <1>5. CASE Answer \/ TakeStep \/ UNCHANGED vars
    BY <1>0, <1>5 DEF TypeOK, Answer, TakeStep, vars
  <1> QED BY <1>2, <1>3, <1>4, <1>5, StepCases

-----------------------------------------------------------------------------
LEMMA NextMarksAreCalls ==
    ASSUME IInv, [Next]_vars
    PROVE  MarksAreCalls'
  <1> USE DEF IInv
  <1>1. ASSUME NEW i \in Nat, NEW st \in Seq(Frame), Call(i, st),
               Len(st) = Len(stack),
               \A n \in 1..Len(stack) : st[n].index = stack[n].index
        PROVE  MarksAreCalls'
    <2>1. CASE stack' = st /\ parsing' = parsing
      BY <1>1, <2>1 DEF MarksAreCalls
    <2>2. CASE /\ i \notin parsing
               /\ stack' = Append(st, [index |-> i, next |-> 0])
               /\ parsing' = parsing \cup {i}
      <3>1. /\ Len(stack') = Len(stack) + 1
            /\ \A n \in 1..Len(stack) : stack'[n].index = stack[n].index
            /\ stack'[Len(stack) + 1].index = i
        BY <1>1, <2>2, PushFacts
      <3>2. Len(stack) \in Nat
        BY LenProperties DEF TypeOK
      <3>3. \A n \in 1..Len(stack') : n \in 1..Len(stack) \/ n = Len(stack) + 1
        BY <3>1, <3>2
      <3>4. parsing' = {stack'[n].index : n \in 1..Len(stack')}
        <4>1. ASSUME NEW j \in parsing' PROVE \E n \in 1..Len(stack') : j = stack'[n].index
          BY <2>2, <3>1, <3>2 DEF MarksAreCalls
        <4>2. ASSUME NEW n \in 1..Len(stack') PROVE stack'[n].index \in parsing'
          BY <2>2, <3>1, <3>3 DEF MarksAreCalls
        <4> QED BY <4>1, <4>2
      <3>5. ASSUME NEW m \in 1..Len(stack'), NEW n \in 1..Len(stack'),
                   stack'[m].index = stack'[n].index
            PROVE  m = n
        BY <2>2, <3>1, <3>3, <3>5 DEF MarksAreCalls
      <3> QED BY <3>4, <3>5 DEF MarksAreCalls
    <2> QED BY <1>1, <2>1, <2>2, CallCases
  <1>2. ASSUME NEW i \in 0..(Base + Size), Request(i) PROVE MarksAreCalls'
    BY <1>1, <1>2, SizeAssumption DEF Request, TypeOK
  <1>3. CASE ReadPart
    <2>1. ~Idle /\ Top.index \in Indices /\ Top.next + 1 \in 1..Len(table[Top.index].parts)
      BY <1>3, TopFrame, TopFacts, EntryFacts DEF ReadPart
    <2>2. table[Top.index].parts[Top.next + 1].index \in Nat
      BY <2>1, EntryFacts
    <2>3. Call(table[Top.index].parts[Top.next + 1].index, Advanced)
      BY <1>3 DEF ReadPart, Advanced
    <2> QED BY <1>1, <2>1, <2>2, <2>3, AdvancedFacts
  <1>4. CASE FailStep \/ FinishStep
    <2> DEFINE L == Len(stack)
    <2>1. PopStep
      BY <1>4, ReturnSteps
    <2>2. /\ Len(stack') = L - 1 /\ \A n \in 1..L-1 : stack'[n] = stack[n]
          /\ L \in Nat \ {0} /\ L \in 1..L /\ Top = stack[L]
      BY <2>1, PopStepFacts
    <2>3. parsing' = parsing \ {stack[L].index}
      BY <2>1, <2>2 DEF PopStep
    <2>4. \A n \in 1..L-1 : n \in 1..L /\ n # L /\ stack[n].index # stack[L].index
      BY <2>2 DEF MarksAreCalls
    <2>5. \A n \in 1..L : n \in 1..L-1 \/ n = L
      BY <2>2
    <2>6. parsing' = {stack'[n].index : n \in 1..Len(stack')}
      <3>1. ASSUME NEW j \in parsing' PROVE \E n \in 1..Len(stack') : j = stack'[n].index
        <4>1. PICK n \in 1..L : j = stack[n].index
          BY <2>3 DEF MarksAreCalls
        <4> QED BY <2>2, <2>3, <2>5, <4>1
      <3>2. ASSUME NEW n \in 1..Len(stack') PROVE stack'[n].index \in parsing'
        BY <2>2, <2>3, <2>4, SMTT(20) DEF MarksAreCalls
      <3> QED BY <3>1, <3>2
    <2>7. ASSUME NEW m \in 1..Len(stack'), NEW n \in 1..Len(stack'),
                 stack'[m].index = stack'[n].index
          PROVE  m = n
      BY <2>2, <2>4, <2>7 DEF MarksAreCalls
    <2> QED BY <2>6, <2>7 DEF MarksAreCalls
  <1>5. CASE Answer \/ TakeStep \/ UNCHANGED vars
    BY <1>5 DEF MarksAreCalls, Answer, TakeStep, vars
  <1> QED BY <1>2, <1>3, <1>4, <1>5, StepCases

-----------------------------------------------------------------------------
(* Only a call that returns changes what is cached or refused.             *)
LEMMA Untouched ==
    ASSUME IInv, [Next]_vars
    PROVE  FailStep \/ FinishStep \/ UNCHANGED <<table, cache, refused>>
  BY StepCases DEF Request, Answer, ReadPart, TakeStep, vars

(* Nothing that was refused can be finished: all its parts are there, and  *)
(* one of them is hopeless.                                                *)
LEMMA FinishIsFresh ==
    ASSUME IInv, FinishStep
    PROVE  Top.index \notin refused
  <1> DEFINE i == Top.index
             e == table[i]
  <1>1. ~Idle /\ ret = Pending /\ e.slice /\ e.sound /\ Top.next = Len(e.parts)
    BY DEF FinishStep
  <1>2. i \in Indices /\ DOMAIN e.parts = 1..Len(e.parts)
    BY <1>1, TopFrame, EntryFacts DEF IInv
  <1>3. \A k \in DOMAIN e.parts : Have(e.parts[k]) /\ e.parts[k].index \in Nat
    BY <1>1, <1>2, TopFrame, EntryFacts DEF IInv
  <1>4. ASSUME NEW p, Have(p), p.index \in Nat PROVE ~Hopeless(p)
    <2>1. cache \subseteq Indices /\ refused \subseteq Indices /\ cache \cap refused = {}
      BY DEF IInv, TypeOK, AnswersAgree
    <2>2. \A j \in Indices : j >= Base /\ ~(j < Base)
      BY SizeAssumption DEF Indices
    <2>3. p.index < Base \/ p.index \in cache
      BY <1>4 DEF Have
    <2>4. p.index \notin refused
      BY <2>1, <2>2, <2>3
    <2>5. ~(p.index >= Base /\ p.index \notin Indices)
      <3>1. CASE p.index \in cache
        BY <2>1, <3>1
      <3>2. CASE p.index \notin cache
        <4>1. p.index < Base
          BY <1>4, <3>2 DEF Have
        <4> QED BY <1>4, <4>1, SizeAssumption
      <3> QED BY <3>1, <3>2
    <2> QED BY <1>4, <2>4, <2>5 DEF Have, Hopeless
  <1> QED BY <1>1, <1>2, <1>3, <1>4 DEF IInv, RefusedStayBroken, Unwinding

LEMMA NextAnswersAgree ==
    ASSUME IInv, [Next]_vars
    PROVE  AnswersAgree'
  <1>1. CASE FailStep
    <2>1. Top.index \notin cache
      BY <1>1, TopFrame DEF FailStep
    <2> QED BY <1>1, <2>1, ReturnSteps DEF IInv, AnswersAgree
  <1>2. CASE FinishStep
    BY <1>2, FinishIsFresh, ReturnSteps DEF IInv, AnswersAgree
  <1>3. CASE UNCHANGED <<table, cache, refused>>
    BY <1>3 DEF IInv, AnswersAgree
  <1> QED BY <1>1, <1>2, <1>3, Untouched

LEMMA NextCacheClosed ==
    ASSUME IInv, [Next]_vars
    PROVE  CacheClosed'
  <1> SUFFICES ASSUME NEW i \in cache'
               PROVE  (/\ table[i].slice /\ table[i].sound
                       /\ \A k \in DOMAIN table[i].parts : Have(table[i].parts[k]))'
    BY DEF CacheClosed
  <1>1. table' = table
    BY Untouched, ReturnSteps
  <1>2. /\ table[i].slice /\ table[i].sound
        /\ \A k \in DOMAIN table[i].parts : Have(table[i].parts[k])
    <2>1. CASE i \in cache
      BY <2>1 DEF IInv, CacheClosed
    <2>2. CASE FinishStep /\ i = Top.index
      <3>1. ~Idle /\ ret = Pending /\ Top.next = Len(table[i].parts) /\ i \in Indices
        BY <2>2, ReturnSteps DEF FinishStep
      <3> QED BY <2>2, <3>1, TopFrame, EntryFacts DEF FinishStep, IInv
    <2> QED BY <2>1, <2>2, Untouched, ReturnSteps
  <1>3. cache \subseteq cache'
    BY Untouched, ReturnSteps
  <1> QED BY <1>1, <1>2, <1>3 DEF Have, KindOf

-----------------------------------------------------------------------------
(* The reason a refused entry was refused lasts: the part that was being   *)
(* parsed is refused itself by the time the calls have unwound.            *)
LEMMA NextRefusedStayBroken ==
    ASSUME IInv, [Next]_vars
    PROVE  RefusedStayBroken'
  <1> SUFFICES ASSUME NEW f \in refused', table[f].slice, table[f].sound
               PROVE  \E k \in DOMAIN table[f].parts :
                         Hopeless(table[f].parts[k])' \/ Unwinding(table[f].parts[k])'
    <2>1. table' = table
      BY Untouched, ReturnSteps
    <2> QED BY <2>1 DEF RefusedStayBroken, Hopeless, Unwinding, KindOf
  <1>1. table' = table /\ refused \subseteq refused' /\ Indices' = Indices
    BY Untouched, ReturnSteps DEF Indices
  <1>2. ASSUME NEW k \in DOMAIN table[f].parts, Hopeless(table[f].parts[k])
        PROVE  Hopeless(table[f].parts[k])'
    BY <1>1, <1>2 DEF Hopeless, KindOf
  <1>3. CASE f \in refused /\ ret # Null
    <2>1. PICK k \in DOMAIN table[f].parts :
             Hopeless(table[f].parts[k]) \/ Unwinding(table[f].parts[k])
      BY <1>3 DEF IInv, RefusedStayBroken
    <2>2. Hopeless(table[f].parts[k])
      BY <1>3, <2>1 DEF Unwinding
    <2> QED BY <1>2, <2>2
  <1>4. CASE f \in refused /\ ret = Null
    <2>1. PICK k \in DOMAIN table[f].parts :
             Hopeless(table[f].parts[k]) \/ Unwinding(table[f].parts[k])
      BY <1>4 DEF IInv, RefusedStayBroken
    <2>2. CASE Hopeless(table[f].parts[k])
      BY <1>2, <2>2
    <2>3. CASE Unwinding(table[f].parts[k])
      <3>1. CASE FailStep
        <4>1. /\ ret' = Null /\ refused' = refused \cup {Top.index}
              /\ parsing' = parsing \ {Top.index} /\ Top.index \in Indices
          BY <3>1, ReturnSteps DEF PopStep
        <4>2. table[f].parts[k].index \in parsing' \/ table[f].parts[k].index \in refused'
          BY <2>3, <4>1 DEF Unwinding
        <4> QED BY <1>1, <4>1, <4>2 DEF Hopeless, Unwinding
      <3>2. CASE Answer
        <4>1. parsing = {}
          BY <3>2, StackElements DEF Answer, Idle, IInv, MarksAreCalls, TypeOK
        <4> QED BY <2>3, <4>1 DEF Unwinding
      <3>3. CASE UNCHANGED vars
        BY <1>1, <2>3, <3>3 DEF Unwinding, vars
      <3>4. ~FinishStep /\ ~ReadPart /\ ~TakeStep /\ \A i \in 0..(Base + Size) : ~Request(i)
        BY <1>4 DEF FinishStep, ReadPart, TakeStep, Fits, Request
      <3> QED BY <3>1, <3>2, <3>3, <3>4, StepCases
    <2> QED BY <2>1, <2>2, <2>3
  <1>5. CASE f \notin refused
    <2>1. FailStep /\ f = Top.index
      BY <1>5, Untouched, ReturnSteps
    <2>2. /\ ret' = Null /\ refused' = refused \cup {f}
          /\ parsing' = parsing \ {f}
      BY <2>1, ReturnSteps DEF PopStep
    <2>3. PICK k \in DOMAIN table[f].parts :
             Hopeless(table[f].parts[k]) \/ Unwinding(table[f].parts[k])
      BY <2>1 DEF FailStep, FailCause
    <2>4. CASE Hopeless(table[f].parts[k])
      BY <1>2, <2>4
    <2>5. CASE Unwinding(table[f].parts[k])
      BY <1>1, <2>2, <2>5 DEF Unwinding, Hopeless
    <2> QED BY <2>3, <2>4, <2>5
  <1> QED BY <1>3, <1>4, <1>5

-----------------------------------------------------------------------------
(* The frame that becomes the top when a call returns.                     *)
LEMMA CallerFrame ==
    ASSUME IInv, PopStep, ~Idle'
    PROVE  /\ Len(stack) - 1 \in 1..Len(stack)
           /\ Top' = stack[Len(stack) - 1]
           /\ FrameOK(Len(stack) - 1)
           /\ table[Top'.index].parts[Top'.next].index = Top.index
  <1> DEFINE L == Len(stack)
  <1>1. /\ stack' \in Seq(Frame) /\ Len(stack') = L - 1
        /\ \A n \in 1..L-1 : stack'[n] = stack[n]
        /\ L \in Nat \ {0} /\ Top = stack[L]
    BY PopStepFacts DEF IInv
  <1>2. L - 1 \in Nat \ {0}
    BY <1>1, StackElements DEF Idle
  <1>3. L - 1 \in 1..L /\ L - 1 \in 1..L-1 /\ L - 1 < L /\ L - 1 + 1 = L
    BY <1>1, <1>2
  <1>4. FrameOK(L - 1) /\ Top' = stack[L - 1]
    BY <1>1, <1>3 DEF IInv, PartsSoFar, Top
  <1> QED BY <1>1, <1>3, <1>4 DEF FrameOK

LEMMA NextReturnOK ==
    ASSUME IInv, [Next]_vars
    PROVE  ReturnOK'
  <1>0. table' = table /\ Indices' = Indices /\ cache \subseteq cache' /\ refused \subseteq refused'
    BY Untouched, ReturnSteps DEF Indices
  <1>1. ASSUME NEW i \in 0..(Base + Size), Request(i) PROVE ReturnOK'
    <2>1. stack = <<>> /\ cache' = cache
      BY <1>1 DEF Request, Idle
    <2>2. CASE stack' = stack
      <3>1. Idle'
        BY <2>1, <2>2 DEF Idle
      <3>2. ret' >= 0 => ret' < Base \/ ret' \in cache
        <4>1. Call(i, stack)
          BY <1>1 DEF Request
        <4>2. \/ ret' = i /\ (i < Base \/ i \in cache)
              \/ ret' = Null
              \/ ret' = Pending
          BY <4>1, CallCases
        <4> QED BY <4>2
      <3> QED BY <2>1, <3>1, <3>2 DEF ReturnOK
    <2>3. CASE ret' = Pending
      BY <2>3 DEF ReturnOK
    <2> QED BY <1>1, <2>2, <2>3, CallCases DEF Request
  <1>2. CASE ReadPart
    <2> DEFINE q == table[Top.index].parts[Top.next + 1].index
    <2>1. ~Idle /\ Call(q, Advanced) /\ cache' = cache /\ refused' = refused
      BY <1>2 DEF ReadPart, Advanced
    <2>2. Top.index \in Indices /\ Top.next + 1 \in 1..Len(table[Top.index].parts)
      BY <1>2, TopFrame, TopFacts, EntryFacts, SMTT(20) DEF ReadPart, IInv
    <2>3. q \in Nat
      BY <2>2, EntryFacts DEF IInv
    <2>4. CASE ret' = Pending
      BY <2>4 DEF ReturnOK
    <2>5. CASE /\ stack' = Advanced /\ parsing' = parsing
               /\ \/ ret' = q /\ (q < Base \/ q \in cache)
                  \/ ret' = Null /\ ~(q < Base) /\ (q \notin Indices \/ q \in parsing)
      <3>1. Top'.index = Top.index /\ Top'.next = Top.next + 1
        BY <2>1, <2>5, AdvancedFacts, TopFacts DEF Top, IInv
      <3>2. table'[Top'.index].parts[Top'.next].index = q
        BY <1>0, <3>1
      <3>3. ~(q < Base) => q >= Base
        BY <2>3, SizeAssumption
      <3>4. ret' >= 0 => (ret' < Base \/ ret' \in cache') /\ ret' = q
        BY <1>0, <2>5
      <3>5. ret' = Null => q >= Base /\ (q \notin Indices' \/ q \in refused' \/ q \in parsing')
        <4>1. q # Null
          BY <2>3 DEF Null
        <4>2. ret' = Null => ~(q < Base) /\ (q \notin Indices \/ q \in parsing)
          BY <2>5, <4>1, Zenon
        <4> QED BY <1>0, <2>5, <3>3, <4>2, Zenon
      <3> HIDE DEF q
      <3> QED BY <3>2, <3>4, <3>5, Zenon DEF ReturnOK
    <2> HIDE DEF q
    <2> QED BY <2>1, <2>4, <2>5, CallCases
  <1>3. CASE FailStep \/ FinishStep
    <2>1. PopStep /\ Top.index \in Nat /\ Top.index >= Base
      BY <1>3, ReturnSteps, EntryFacts DEF IInv
    <2>2. ~Idle' => table'[Top'.index].parts[Top'.next].index = Top.index
      BY <1>0, <2>1, CallerFrame
    <2>3. CASE FailStep
      <3>1. ret' = Null /\ Top.index \in refused'
        BY <2>3, ReturnSteps
      <3> QED BY <2>1, <2>2, <3>1 DEF ReturnOK
    <2>4. CASE FinishStep
      <3>1. ret' = Top.index /\ Top.index \in cache'
        BY <2>4, ReturnSteps
      <3> QED BY <2>1, <2>2, <3>1 DEF ReturnOK
    <2> QED BY <1>3, <2>3, <2>4
  <1>4. CASE Answer \/ TakeStep
    <2>1. ret' = Pending
      BY <1>4 DEF Answer, TakeStep
    <2> QED BY <2>1 DEF ReturnOK
  <1>5. CASE UNCHANGED vars
    BY <1>0, <1>5 DEF IInv, ReturnOK, Idle, Top, vars
  <1> QED BY <1>1, <1>2, <1>3, <1>4, <1>5, StepCases

-----------------------------------------------------------------------------
(* What FrameOK says of a frame in the next state, in terms of this one.   *)
LEMMA FrameStays ==
    ASSUME IInv, table' = table, cache \subseteq cache',
           NEW n \in 1..Len(stack), FrameOK(n),
           n \in 1..Len(stack'),
           stack'[n] = stack[n],
           stack[n].index \notin cache',
           Waiting(n)' <=> Waiting(n),
           n < Len(stack') => n < Len(stack) /\ stack'[n + 1].index = stack[n + 1].index
    PROVE  FrameOK(n)'
  <1>1. Indices' = Indices
    BY DEF Indices
  <1>2. \A j \in 1..stack[n].next : Have(table[stack[n].index].parts[j]) =>
                                       Have(table[stack[n].index].parts[j])'
    BY DEF Have, KindOf
  <1> QED BY <1>1, <1>2 DEF FrameOK

(* A frame that was just pushed.                                           *)
LEMMA NewFrameOK ==
    ASSUME IInv, table' = table, cache' = cache, ret' = Pending,
           NEW n \in 1..Len(stack'), n = Len(stack'),
           stack'[n].index \in Indices, stack'[n].index \notin cache,
           stack'[n].next = 0
    PROVE  FrameOK(n)'
  <1>1. Indices' = Indices
    BY DEF Indices
  <1>2. Len(table[stack'[n].index].parts) \in Nat
    BY EntryFacts DEF IInv
  <1>3. ~(n < Len(stack'))
    OBVIOUS
  <1> QED BY <1>1, <1>2, <1>3 DEF FrameOK, Waiting

LEMMA NextPartsSoFar ==
    ASSUME IInv, [Next]_vars
    PROVE  PartsSoFar'
  <1>a. PICK L \in Nat : L = Len(stack)
    BY LenProperties DEF IInv, TypeOK
  <1>b. PICK x : x = Top.index
    OBVIOUS
  <1>c. PICK y : y = Top.next
    OBVIOUS
  <1>d. ASSUME ~Idle
        PROVE  /\ L \in Nat \ {0} /\ L \in 1..L /\ y \in Nat
               /\ stack[L].index = x /\ stack[L].next = y
               /\ x \in Indices /\ x \notin cache
    BY <1>a, <1>b, <1>c, <1>d, TopFacts, TopFrame DEF IInv
  <1>0. /\ table' = table /\ Indices' = Indices /\ cache \subseteq cache'
        /\ \A n \in 1..L : FrameOK(n)
    BY <1>a, Untouched, ReturnSteps DEF Indices, IInv, PartsSoFar
  <1>1. ASSUME NEW i \in 0..(Base + Size), Request(i) PROVE PartsSoFar'
    <2>1. stack = <<>> /\ cache' = cache /\ i \in Nat /\ stack \in Seq(Frame)
      BY <1>1, SizeAssumption DEF Request, Idle, IInv, TypeOK
    <2>2. CASE stack' = stack
      BY <2>1, <2>2 DEF PartsSoFar
    <2>3. CASE /\ i \notin cache /\ i \in Indices /\ ret' = Pending
               /\ stack' = Append(stack, [index |-> i, next |-> 0])
      <3>1. Len(stack') = 1 /\ stack'[1].index = i /\ stack'[1].next = 0
        BY <2>1, <2>3, PushFacts
      <3>2. FrameOK(1)'
        BY <1>0, <2>1, <2>3, <3>1, NewFrameOK
      <3> QED
        <4>1. \A n \in 1..Len(stack') : n = 1
          BY <3>1
        <4> QED BY <3>2, <4>1 DEF PartsSoFar
    <2> QED BY <1>1, <2>2, <2>3, CallCases DEF Request
  <1>2. CASE ReadPart
    <2>0. ~Idle /\ ret = Pending /\ cache' = cache
      BY <1>2 DEF ReadPart
    <2>a. PICK q : q = table[x].parts[y + 1].index
      OBVIOUS
    <2>1. Call(q, Advanced)
      BY <1>2, <1>b, <1>c, <2>a DEF ReadPart, Advanced
    <2>2. y + 1 \in 1..Len(table[x].parts) /\ table[x].slice
      BY <1>2, <1>b, <1>c, <1>d, <2>0, EntryFacts DEF ReadPart, IInv
    <2>3. q \in Nat
      BY <1>d, <2>0, <2>2, <2>a, EntryFacts DEF IInv
    <2>4. /\ Advanced \in Seq(Frame) /\ Len(Advanced) = L
          /\ \A n \in 1..L : n # L => Advanced[n] = stack[n]
          /\ Advanced[L].index = x /\ Advanced[L].next = y + 1
          /\ \A n \in 1..L : Advanced[n].index = stack[n].index
      BY <1>a, <1>b, <1>c, <2>0, AdvancedFacts DEF IInv
    <2>5. ASSUME NEW n \in 1..L, n # L, Len(stack') = L \/ Len(stack') = L + 1,
                 \A m \in 1..L : stack'[m] = Advanced[m]
          PROVE  FrameOK(n)'
      <3>1. n < L /\ n + 1 \in 1..L /\ n < Len(stack') /\ n \in 1..Len(stack')
        BY <2>5
      <3>2. stack'[n] = stack[n] /\ stack'[n + 1].index = stack[n + 1].index
        BY <2>4, <2>5, <3>1
      <3>3. stack[n].index \notin cache'
        BY <1>0, <2>0 DEF FrameOK
      <3> QED BY <1>a, <1>0, <3>1, <3>2, <3>3, FrameStays DEF Waiting
    <2>6. ASSUME stack'[L] = Advanced[L],
                 \/ Len(stack') = L /\ ret' # Pending
                 \/ Len(stack') = L + 1 /\ stack'[L + 1].index = q
          PROVE  FrameOK(L)'
      <3>1. Waiting(L)'
        BY <2>6 DEF Waiting
      <3>2. stack'[L].index = x /\ stack'[L].next = y + 1 /\ x \notin cache'
        BY <1>d, <2>0, <2>4, <2>6
      <3>3. \A j \in 1..y : Have(table[x].parts[j])
        BY <1>b, <1>c, <2>0, TopFrame
      <3>4. \A j \in 1..y : Have(table[x].parts[j])'
        BY <1>0, <3>3 DEF Have, KindOf
      <3>5. L < Len(stack') => stack'[L + 1].index = table[x].parts[y + 1].index
        BY <2>6, <2>a
      <3>6. \A j \in 1..(y + 1) : j \in 1..y \/ j = y + 1
        BY <1>d, <2>0
      <3>7. y + 1 \in 0..Len(table[x].parts) /\ y + 1 > 0
        BY <1>d, <2>0, <2>2
      <3> QED BY <1>0, <1>d, <2>0, <2>2, <3>1, <3>2, <3>4, <3>5, <3>6, <3>7 DEF FrameOK
    <2>7. CASE stack' = Advanced /\ ret' # Pending
      <3>1. Len(stack') = L /\ \A n \in 1..L : stack'[n] = Advanced[n]
        BY <2>4, <2>7
      <3>2. FrameOK(L)'
        BY <1>d, <2>0, <2>6, <2>7, <3>1
      <3>3. \A n \in 1..L : FrameOK(n)'
        BY <2>5, <3>1, <3>2
      <3> QED BY <3>1, <3>3 DEF PartsSoFar
    <2>8. CASE /\ q \notin cache /\ q \in Indices /\ ret' = Pending
               /\ stack' = Append(Advanced, [index |-> q, next |-> 0])
      <3>1. /\ Len(stack') = L + 1 /\ \A n \in 1..L : stack'[n] = Advanced[n]
            /\ stack'[L + 1].index = q /\ stack'[L + 1].next = 0
        BY <2>3, <2>4, <2>8, PushFacts
      <3>2. L + 1 \in 1..Len(stack')
        BY <3>1
      <3>3. FrameOK(L + 1)'
        BY <1>0, <2>0, <2>8, <3>1, <3>2, NewFrameOK
      <3>4. \A n \in 1..Len(stack') : n \in 1..L \/ n = L + 1
        BY <3>1
      <3>5. FrameOK(L)'
        BY <1>d, <2>0, <2>6, <3>1
      <3>6. \A n \in 1..L : FrameOK(n)'
        BY <2>5, <3>1, <3>5
      <3> QED BY <3>3, <3>4, <3>6 DEF PartsSoFar
    <2>9. ret' = q \/ ret' = Null => ret' # Pending
      BY <2>3
    <2> QED BY <2>1, <2>7, <2>8, <2>9, CallCases
  <1>3. CASE TakeStep
    <2>1. ~Idle /\ ret # Pending /\ ret' = Pending /\ cache' = cache /\ stack' = stack
          /\ Fits(ret, table[x].parts[y])
      BY <1>3, <1>b, <1>c DEF TakeStep
    <2>2. ASSUME NEW n \in 1..L, n # L PROVE FrameOK(n)'
      <3>1. n < L /\ n + 1 \in 1..L
        BY <2>2
      <3>2. stack[n].index \notin cache'
        BY <1>0, <2>1 DEF FrameOK
      <3> QED BY <1>a, <1>0, <2>1, <3>1, <3>2, FrameStays DEF Waiting
    <2>3. FrameOK(L)'
      <3>1. Have(table[x].parts[y])
        <4>1. ret = table[x].parts[y].index /\ (ret < Base \/ ret \in cache)
          BY <1>b, <1>c, <2>1 DEF Fits, IInv, TypeOK, ReturnOK
        <4> QED BY <2>1, <4>1 DEF Have, Fits
      <3>2. \A j \in 1..y : Have(table[x].parts[j])
        BY <1>b, <1>c, <2>1, <3>1, TopFrame
      <3>3. \A j \in 1..y : Have(table[x].parts[j])'
        BY <1>0, <3>2 DEF Have, KindOf
      <3>4. ~Waiting(L)' /\ ~(L < Len(stack'))
        BY <1>a, <2>1 DEF Waiting
      <3>5. stack'[L].index = x /\ stack'[L].next = y /\ x \in Indices' /\ x \notin cache'
        BY <1>0, <1>d, <2>1
      <3>6. y \in 0..Len(table[x].parts) /\ (y > 0 => table[x].slice)
        BY <1>b, <1>c, <2>1, TopFrame
      <3> QED BY <1>0, <3>3, <3>4, <3>5, <3>6 DEF FrameOK
    <2> QED BY <1>a, <2>1, <2>2, <2>3 DEF PartsSoFar
  <1>4. CASE FailStep \/ FinishStep
    <2>1. PopStep /\ ret' # Pending
      BY <1>4, ReturnSteps
    <2>2. /\ Len(stack') = L - 1 /\ \A n \in 1..L-1 : stack'[n] = stack[n]
          /\ L \in Nat \ {0} /\ L \in 1..L /\ Top = stack[L]
      BY <1>a, <2>1, PopStepFacts DEF IInv
    <2>3. ASSUME NEW n \in 1..Len(stack') PROVE FrameOK(n)'
      <3>1. n \in 1..L-1 /\ n \in 1..L /\ n < L /\ n # L
        BY <2>2
      <3>2. stack[n].index # Top.index
        BY <1>a, <2>2, <3>1 DEF IInv, MarksAreCalls
      <3>3. stack[n].index \notin cache'
        BY <1>0, <1>4, <3>1, <3>2, ReturnSteps DEF FrameOK
      <3>4. Waiting(n) /\ Waiting(n)'
        BY <1>a, <2>1, <3>1 DEF Waiting
      <3>5. n < Len(stack') => n < Len(stack) /\ stack'[n + 1].index = stack[n + 1].index
        BY <1>a, <2>2, <3>1
      <3> QED BY <1>a, <1>0, <2>2, <3>1, <3>3, <3>4, <3>5, FrameStays
    <2> QED BY <2>3 DEF PartsSoFar
  <1>5. CASE Answer
    BY <1>5 DEF Answer, Idle, PartsSoFar
  <1>6. CASE UNCHANGED vars
    <2>1. ASSUME NEW n \in 1..Len(stack') PROVE FrameOK(n)'
      <3>1. Waiting(n)' <=> Waiting(n)
        BY <1>6 DEF Waiting, vars
      <3>2. stack' = stack /\ cache' = cache
        BY <1>6 DEF vars
      <3>3. stack[n].index \notin cache'
        BY <1>a, <1>0, <3>2 DEF FrameOK
      <3> QED BY <1>a, <1>0, <3>1, <3>2, <3>3, FrameStays
    <2> QED BY <2>1 DEF PartsSoFar
  <1> QED BY <1>1, <1>2, <1>3, <1>4, <1>5, <1>6, StepCases

-----------------------------------------------------------------------------
(* The inductive invariant.                                                *)
LEMMA InitIInv == Init => IInv
  <1> SUFFICES ASSUME Init PROVE IInv
    OBVIOUS
  <1>1. /\ table \in Tables /\ cache = {} /\ parsing = {} /\ stack = <<>>
        /\ ret = Pending /\ refused = {} /\ Len(stack) = 0
    BY DEF Init
  <1>2. TypeOK /\ AnswersAgree /\ CacheClosed /\ RefusedStayBroken
    BY <1>1 DEF TypeOK, AnswersAgree, CacheClosed, RefusedStayBroken
  <1>3. MarksAreCalls /\ PartsSoFar /\ ReturnOK
    BY <1>1 DEF MarksAreCalls, PartsSoFar, ReturnOK
  <1> QED BY <1>2, <1>3 DEF IInv

LEMMA NextIInv == IInv /\ [Next]_vars => IInv'
  BY NextTypeOK, NextMarksAreCalls, NextAnswersAgree, NextCacheClosed,
     NextRefusedStayBroken, NextPartsSoFar, NextReturnOK DEF IInv

(* The lazy tables keep the inductive invariant on every section a file    *)
(* may hold, whatever is asked of them and in whatever order.              *)
THEOREM Invariant == Spec => []IInv
  BY InitIInv, NextIInv, PTL DEF Spec

(* Every variable keeps the shape the code gives it.                       *)
THEOREM TypeCorrect == Spec => []TypeOK
  <1>1. IInv => TypeOK
    BY DEF IInv
  <1> QED BY <1>1, Invariant, PTL

(* currentlyParsing holds exactly the indices of the active calls, through *)
(* every error path, and no entry has two of them: the recursion ends.     *)
THEOREM MarksMatch == Spec => []MarksAreCalls
  <1>1. IInv => MarksAreCalls
    BY DEF IInv
  <1> QED BY <1>1, Invariant, PTL

(* What one call refuses no other call accepts: the answer for an index    *)
(* does not depend on the order of the requests.                           *)
THEOREM OrderDoesNotMatter == Spec => []AnswersAgree
  <1>1. IInv => AnswersAgree
    BY DEF IInv
  <1> QED BY <1>1, Invariant, PTL

(* What is cached is complete.                                             *)
THEOREM CacheIsComplete == Spec => []CacheClosed
  <1>1. IInv => CacheClosed
    BY DEF IInv
  <1> QED BY <1>1, Invariant, PTL

-----------------------------------------------------------------------------
(* What can be built at all: in each round the entries that need no more   *)
(* than those of the rounds before.                                        *)
NextRound(s) ==
    {i \in Indices :
        /\ table[i].slice /\ table[i].sound
        /\ \A k \in DOMAIN table[i].parts :
              /\ table[i].parts[k].index < Base \/ table[i].parts[k].index \in s
              /\ KindOf(table[i].parts[k].index) \in table[i].parts[k].want}

Rounds(b) ==
    /\ b \in [Nat -> SUBSET Indices] /\ b[0] = {}
    /\ \A n \in Nat : b[n + 1] = NextRound(b[n])

LEMMA BuildableIs ==
    Buildable = (CHOOSE b : b = [n \in Nat |-> IF n = 0 THEN {} ELSE NextRound(b[n - 1])])[Size]
  BY Zenon DEF Buildable, NextRound

LEMMA RoundsExist == \E b : Rounds(b) /\ Buildable = b[Size]
  <1> DEFINE step == [s \in SUBSET Indices |-> NextRound(s)]
  <1>1. step \in [SUBSET Indices -> SUBSET Indices]
    BY DEF NextRound
  <1>2. \A s \in SUBSET Indices : step[s] = NextRound(s)
    OBVIOUS
  <1> HIDE DEF step
  <1>3. {} \in SUBSET Indices
    OBVIOUS
  <1>4. PICK f \in [Nat -> SUBSET Indices] : f[0] = {} /\ \A n \in Nat : f[n + 1] = step[f[n]]
    <2>a. PICK V : V = SUBSET Indices
      OBVIOUS
    <2>1. PICK none : none = {}
      OBVIOUS
    <2>2. none \in V /\ step \in [V -> V]
      BY <1>1, <1>3, <2>a, <2>1
    <2>3. \E f \in [Nat -> V] : f[0] = none /\ \A n \in Nat : f[n + 1] = step[f[n]]
      BY <2>2, RecursionExists
    <2> QED BY <2>a, <2>1, <2>3
  <1>5. f = [n \in Nat |-> IF n = 0 THEN {} ELSE NextRound(f[n - 1])]
    <2>1. ASSUME NEW n \in Nat, n # 0 PROVE f[n] = NextRound(f[n - 1])
      <3>1. PICK m \in Nat : m = n - 1 /\ n = m + 1
        BY <2>1
      <3>2. f[m] \in SUBSET Indices
        OBVIOUS
      <3> QED BY <1>2, <1>4, <3>1, <3>2
    <2>2. \A n \in Nat : f[n] = IF n = 0 THEN {} ELSE NextRound(f[n - 1])
      BY <1>4, <2>1
    <2> QED BY <2>2
  <1>6. PICK b : /\ b = [n \in Nat |-> IF n = 0 THEN {} ELSE NextRound(b[n - 1])]
                 /\ Buildable = b[Size]
    BY <1>5, BuildableIs
  <1>7. b[0] = {}
    BY <1>6
  <1>8. ASSUME NEW n \in Nat PROVE b[n + 1] = NextRound(b[n])
    <2>1. n + 1 \in Nat /\ n + 1 # 0 /\ n + 1 - 1 = n
      OBVIOUS
    <2> QED BY <1>6, <2>1
  <1>9. ASSUME NEW n \in Nat PROVE b[n] \in SUBSET Indices
    <2>1. n = 0 \/ \E m \in Nat : n = m + 1
      <3>1. n # 0 => n - 1 \in Nat /\ n = (n - 1) + 1
        OBVIOUS
      <3> QED BY <3>1
    <2>2. \A s : NextRound(s) \in SUBSET Indices
      BY DEF NextRound
    <2> QED BY <1>7, <1>8, <2>1, <2>2
  <1>a. b = [n \in Nat |-> b[n]]
    BY <1>6
  <1>10. b \in [Nat -> SUBSET Indices]
    BY <1>a, <1>9
  <1> QED BY <1>6, <1>7, <1>8, <1>10 DEF Rounds

LEMMA RoundsStay ==
    ASSUME table' = table
    PROVE  \A b : Rounds(b)' <=> Rounds(b)
  <1>1. \A s : NextRound(s)' = NextRound(s)
    BY DEF NextRound, Indices, KindOf
  <1>2. Indices' = Indices
    BY DEF Indices
  <1> QED BY <1>1, <1>2 DEF Rounds

LEMMA RoundsGrow ==
    ASSUME NEW b, Rounds(b), NEW m \in Nat, NEW n \in Nat, m <= n
    PROVE  b[m] \subseteq b[n]
  <1>0. b[0] = {} /\ \A k \in Nat : b[k + 1] = NextRound(b[k])
    BY DEF Rounds
  <1>1. \A s, t : s \subseteq t => NextRound(s) \subseteq NextRound(t)
    BY DEF NextRound
  <1> DEFINE S == {k \in Nat : b[k] \subseteq b[k + 1]}
  <1>2. \A k \in Nat : k \in S <=> b[k] \subseteq b[k + 1]
    OBVIOUS
  <1> HIDE DEF S
  <1>3. ASSUME NEW k \in Nat, k \in S PROVE k + 1 \in S
    <2>1. PICK j \in Nat : j = k + 1
      OBVIOUS
    <2>2. b[k] \subseteq b[j]
      BY <1>2, <1>3, <2>1
    <2>3. b[j] = NextRound(b[k]) /\ b[j + 1] = NextRound(b[j])
      BY <1>0, <2>1
    <2>4. b[j] \subseteq b[j + 1]
      BY <1>1, <2>2, <2>3
    <2> QED BY <1>2, <2>1, <2>4
  <1>4. Nat \subseteq S
    BY <1>0, <1>2, <1>3, InductionOn
  <1> DEFINE T == {k \in Nat : m <= k => b[m] \subseteq b[k]}
  <1>5. \A k \in Nat : k \in T <=> (m <= k => b[m] \subseteq b[k])
    OBVIOUS
  <1> HIDE DEF T
  <1>6. 0 \in T
    <2>1. m <= 0 => m = 0
      OBVIOUS
    <2> QED BY <1>5, <2>1
  <1>7. ASSUME NEW k \in Nat, k \in T PROVE k + 1 \in T
    <2>1. m <= k + 1 => m <= k \/ m = k + 1
      OBVIOUS
    <2>2. b[k] \subseteq b[k + 1]
      BY <1>2, <1>4
    <2> QED BY <1>5, <1>7, <2>1, <2>2
  <1>8. Nat \subseteq T
    BY <1>6, <1>7, InductionOn
  <1> QED BY <1>5, <1>8

(* The entries that were refused, and while null is handed down those that *)
(* are about to be.                                                        *)
Doomed == refused \cup IF ret = Null THEN parsing ELSE {}

(* A doomed entry is broken itself, or has a part that nothing fits, or a  *)
(* part that is doomed.                                                    *)
LEMMA DoomedStayBroken ==
    ASSUME IInv, NEW x \in Doomed
    PROVE  /\ x \in Indices
           /\ \/ ~table[x].slice \/ ~table[x].sound
              \/ \E k \in DOMAIN table[x].parts :
                    LET p == table[x].parts[k] IN
                    \/ p.index >= Base /\ p.index \notin Indices
                    \/ KindOf(p.index) \notin p.want
                    \/ p.index >= Base /\ p.index \in Doomed
  <1>1. refused \subseteq Indices /\ parsing \subseteq Indices /\ x \in Indices
    BY DEF IInv, TypeOK, Doomed
  <1>2. \A i \in Indices : i >= Base
    BY SizeAssumption DEF Indices
  <1>3. CASE x \in refused
    <2>1. \/ ~table[x].slice \/ ~table[x].sound
          \/ \E k \in DOMAIN table[x].parts :
                Hopeless(table[x].parts[k]) \/ Unwinding(table[x].parts[k])
      BY <1>3 DEF IInv, RefusedStayBroken
    <2>2. ASSUME NEW p, Hopeless(p) \/ Unwinding(p)
          PROVE  \/ p.index >= Base /\ p.index \notin Indices
                 \/ KindOf(p.index) \notin p.want
                 \/ p.index >= Base /\ p.index \in Doomed
      BY <1>1, <1>2, <2>2 DEF Hopeless, Unwinding, Doomed
    <2> QED BY <1>1, <2>1, <2>2
  <1>4. CASE x \notin refused
    <2>1. ret = Null /\ x \in parsing
      BY <1>4 DEF Doomed
    <2>2. PICK n \in 1..Len(stack) : x = stack[n].index
      BY <2>1 DEF IInv, MarksAreCalls
    <2>3. ~Idle
      BY <2>2 DEF Idle
    <2>4. Len(stack) \in Nat \ {0} /\ Top = stack[Len(stack)]
      BY <2>3, TopFacts DEF IInv
    <2>5. PICK k : k = stack[n].next
      OBVIOUS
    <2>6. Waiting(n)
      BY <2>1 DEF Waiting
    <2>7. /\ k \in 1..Len(table[x].parts)
          /\ n < Len(stack) => stack[n + 1].index = table[x].parts[k].index
      <3>1. FrameOK(n)
        BY <2>2 DEF IInv, PartsSoFar
      <3>2. Len(table[x].parts) \in Nat
        BY <1>1, EntryFacts DEF IInv
      <3> QED BY <2>2, <2>5, <2>6, <3>1, <3>2 DEF FrameOK
    <2>8. k \in DOMAIN table[x].parts
      BY <1>1, <2>7, EntryFacts DEF IInv
    <2>9. PICK p : p = table[x].parts[k]
      OBVIOUS
    <2>10. p.index >= Base /\ (p.index \notin Indices \/ p.index \in Doomed)
      <3>1. CASE n < Len(stack)
        <4>1. n + 1 \in 1..Len(stack)
          BY <2>4, <3>1
        <4>2. stack[n + 1].index \in parsing
          BY <4>1 DEF IInv, MarksAreCalls
        <4>3. p.index \in parsing
          BY <2>7, <2>9, <3>1, <4>2
        <4> QED BY <1>1, <1>2, <2>1, <4>3 DEF Doomed
      <3>2. CASE n = Len(stack)
        <4>1. p = table[Top.index].parts[Top.next]
          BY <2>2, <2>4, <2>5, <2>9, <3>2
        <4>2. p.index >= Base /\ (p.index \notin Indices \/ p.index \in refused
                                  \/ p.index \in parsing)
          BY <2>1, <2>3, <4>1 DEF IInv, ReturnOK
        <4> QED BY <2>1, <4>2 DEF Doomed
      <3> QED BY <2>2, <2>4, <3>1, <3>2
    <2> QED BY <1>1, <2>8, <2>9, <2>10
  <1> QED BY <1>3, <1>4

(* No doomed entry can be built in any number of rounds.                   *)
LEMMA DoomedAreUnbuildable ==
    ASSUME IInv, NEW b, Rounds(b), NEW N \in Nat
    PROVE  b[N] \cap Doomed = {}
  <1>0. /\ b[0] = {} /\ \A n \in Nat : b[n + 1] = NextRound(b[n])
        /\ \A n \in Nat : b[n] \subseteq Indices
    BY DEF Rounds
  <1> DEFINE S == {n \in Nat : b[n] \cap Doomed = {}}
  <1>1. \A n \in Nat : n \in S <=> b[n] \cap Doomed = {}
    OBVIOUS
  <1> HIDE DEF S
  <1>2. ASSUME NEW n \in Nat, n \in S PROVE n + 1 \in S
    <2> SUFFICES ASSUME NEW x \in Doomed, x \in NextRound(b[n]) PROVE FALSE
      BY <1>0, <1>1
    <2>1. /\ table[x].slice /\ table[x].sound
          /\ \A k \in DOMAIN table[x].parts :
                /\ table[x].parts[k].index < Base \/ table[x].parts[k].index \in b[n]
                /\ KindOf(table[x].parts[k].index) \in table[x].parts[k].want
      BY DEF NextRound
    <2>2. PICK k \in DOMAIN table[x].parts :
             LET p == table[x].parts[k] IN
             \/ p.index >= Base /\ p.index \notin Indices
             \/ KindOf(p.index) \notin p.want
             \/ p.index >= Base /\ p.index \in Doomed
      BY <2>1, DoomedStayBroken
    <2>3. PICK p : p = table[x].parts[k]
      OBVIOUS
    <2>4. p.index \in Nat
      <3>1. x \in Indices
        BY DoomedStayBroken
      <3> QED BY <2>3, <3>1, EntryFacts DEF IInv
    <2>5. p.index < Base \/ p.index \in b[n]
      BY <2>1, <2>3
    <2>6. p.index >= Base /\ (p.index \notin Indices \/ p.index \in Doomed)
      BY <2>1, <2>2, <2>3
    <2>7. p.index \in b[n]
      BY <2>4, <2>5, <2>6, SizeAssumption
    <2> QED BY <1>0, <1>1, <1>2, <2>6, <2>7
  <1>3. 0 \in S
    BY <1>0, <1>1
  <1>4. Nat \subseteq S
    BY <1>2, <1>3, InductionOn
  <1> QED BY <1>1, <1>4

(* The cache holds no more than there are rounds for: an entry that is     *)
(* cached takes one round more than those before it.                       *)
CacheIsBuilt ==
    /\ IsFiniteSet(cache)
    /\ \A b : Rounds(b) => cache \subseteq b[Cardinality(cache)]

LEMMA FinishBuilds ==
    ASSUME IInv, CacheIsBuilt, FinishStep
    PROVE  CacheIsBuilt'
  <1>1. table' = table /\ cache' = cache \cup {Top.index}
    BY ReturnSteps DEF FinishStep
  <1>2. PICK i : i = Top.index
    OBVIOUS
  <1>3. /\ ~Idle /\ ret = Pending /\ table[i].slice /\ table[i].sound
        /\ Top.next = Len(table[i].parts)
    BY <1>2 DEF FinishStep
  <1>4. i \in Indices /\ i \notin cache /\ DOMAIN table[i].parts = 1..Len(table[i].parts)
    BY <1>2, <1>3, TopFrame, EntryFacts DEF IInv
  <1>5. \A k \in DOMAIN table[i].parts : Have(table[i].parts[k])
    BY <1>2, <1>3, <1>4, TopFrame DEF IInv
  <1>6. IsFiniteSet(cache) /\ Cardinality(cache) \in Nat
    BY FS_CardinalityType DEF CacheIsBuilt
  <1>7. IsFiniteSet(cache') /\ Cardinality(cache') = Cardinality(cache) + 1
    BY <1>1, <1>2, <1>4, <1>6, FS_AddElement
  <1>8. ASSUME NEW b, Rounds(b) PROVE cache' \subseteq b[Cardinality(cache')]
    <2>1. PICK n \in Nat : n = Cardinality(cache)
      BY <1>6
    <2>2. cache \subseteq b[n] /\ b[n] \subseteq b[n + 1] /\ b[n + 1] = NextRound(b[n])
      BY <1>8, <2>1, RoundsGrow DEF CacheIsBuilt, Rounds
    <2>3. i \in NextRound(b[n])
      BY <1>3, <1>4, <1>5, <2>2 DEF NextRound, Have
    <2> QED BY <1>1, <1>2, <1>7, <2>1, <2>2, <2>3
  <1>9. \A b : Rounds(b)' => Rounds(b)
    BY <1>1, RoundsStay
  <1> QED BY <1>7, <1>8, <1>9 DEF CacheIsBuilt

LEMMA NextCacheIsBuilt ==
    ASSUME IInv, CacheIsBuilt, [Next]_vars
    PROVE  CacheIsBuilt'
  <1>1. CASE FinishStep
    BY <1>1, FinishBuilds
  <1>2. CASE ~FinishStep
    <2>1. table' = table /\ cache' = cache
      BY <1>2, Untouched, ReturnSteps
    <2>2. \A b : Rounds(b)' => Rounds(b)
      BY <2>1, RoundsStay
    <2> QED BY <2>1, <2>2 DEF CacheIsBuilt
  <1> QED BY <1>1, <1>2

(* getType, getDebugInfo: the cache, the recursion guard and the order of  *)
(* the requests make no difference.  An entry of any section, cyclic ones  *)
(* included, is accepted only if it can be built from the bottom up in as  *)
(* many rounds as there are entries, and refused only if it cannot.        *)
THEOREM ReaderAcceptsBuildable == Spec => []AcceptsBuildable
  <1>1. Init => CacheIsBuilt
    <2>1. IsFiniteSet({}) /\ \A x : {} \subseteq x
      BY FS_EmptySet
    <2> QED BY <2>1 DEF Init, CacheIsBuilt
  <1>2. IInv /\ CacheIsBuilt /\ [Next]_vars => CacheIsBuilt'
    BY NextCacheIsBuilt
  <1>3. IInv /\ CacheIsBuilt => AcceptsBuildable
    <2> SUFFICES ASSUME IInv, CacheIsBuilt PROVE AcceptsBuildable
      OBVIOUS
    <2>1. PICK b : Rounds(b) /\ Buildable = b[Size]
      BY RoundsExist
    <2>2. Size \in Nat /\ Base \in Nat
      BY SizeAssumption
    <2>3. refused \cap Buildable = {}
      <3>1. b[Size] \cap Doomed = {}
        BY <2>1, <2>2, DoomedAreUnbuildable
      <3> QED BY <2>1, <3>1 DEF Doomed
    <2>4. Cardinality(cache) \in Nat /\ Cardinality(cache) <= Size
      <3>1. IsFiniteSet(Indices) /\ Cardinality(Indices) = Size
        <4>1. PICK last \in Int : last = Base + Size - 1
          BY <2>2
        <4>2. IsFiniteSet(Base..last)
          BY <2>2, <4>1, FS_Interval
        <4>3. Cardinality(Base..last) = IF Base > last THEN 0 ELSE last - Base + 1
          BY <2>2, <4>1, FS_Interval
        <4> QED BY <2>2, <4>1, <4>2, <4>3 DEF Indices
      <3>2. cache \subseteq Indices
        BY DEF IInv, TypeOK
      <3> QED BY <3>1, <3>2, FS_Subset, FS_CardinalityType
    <2>5. cache \subseteq b[Cardinality(cache)]
      BY <2>1 DEF CacheIsBuilt
    <2>6. b[Cardinality(cache)] \subseteq b[Size]
      BY <2>1, <2>2, <2>4, RoundsGrow
    <2> QED BY <2>1, <2>3, <2>5, <2>6 DEF AcceptsBuildable
  <1> QED BY <1>1, <1>2, <1>3, Invariant, PTL DEF Spec
=============================================================================
