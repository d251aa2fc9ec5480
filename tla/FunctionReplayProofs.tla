------------------------ MODULE FunctionReplayProofs ------------------------
(***************************************************************************)
(* FunctionBody for every set of operations and every bound.  The writer's *)
(* numbering is the scope of the IR, and what FunctionTableWriter writes   *)
(* InstructionParser reads back.                                           *)
(*                                                                         *)
(* The proof about the reader rests on a history.  Nothing in the state    *)
(* says how the bytes of a body came about, so the invariant says that     *)
(* there is a run of the parser over them, a sequence of its states joined *)
(* by its steps, that ends where the writer is now.  Every step of the     *)
(* writer extends it by one state.  When a body is read back, the parser   *)
(* is at a state of its run, and since it is deterministic it can only go  *)
(* on to the next.                                                         *)
(***************************************************************************)
EXTENDS FunctionBody, SequenceFacts, SequenceTheorems, FunctionTheorems,
        FiniteSetTheorems, TLAPS

-----------------------------------------------------------------------------
(* The inductive invariant.                                                *)

(* The values that function f may have in scope when it has made so many.  *)
ValuesOf(f, count) == {<<f, k>> : k \in 1..count}

(* Indices are positions, as nothing but a pop removes an entry.           *)
Numbered ==
    /\ nextValueIndex = Len(valueIndexMap)
    /\ \A n \in DOMAIN valueIndexMap : valueIndexMap[n].index = n - 1

(* There is room for the function that is being written.                   *)
TableBounded ==
    /\ Len(table) <= MaxFunctions
    /\ frames # <<>> => Len(table) < MaxFunctions

(* The calls fs that write function f, with the entries of its map and the *)
(* number of values it has made.  The stack starts with the entry block,   *)
(* an operation defines nothing while it is open, a nested block that is   *)
(* complete ended with a terminator, and the indices to go back to are     *)
(* within the map and do not fall towards the top.                         *)
Stacked(fs, map) ==
    /\ fs[1].kind = "block"
    /\ \A n \in 1..Len(fs) :
          /\ fs[n].base <= Len(map)
          /\ \A m \in 1..Len(fs) : n < m => fs[n].base <= fs[m].base
          /\ fs[n].kind = "op" => fs[n].defs = {}
          /\ fs[n].kind = "block" /\ n > 1 /\ fs[n].ops = 0 => fs[n].ended

(* An operation is called from a block.                                    *)
Nested(fs) ==
    \A n, m \in 1..Len(fs) : m = n + 1 /\ fs[m].kind = "op" => fs[n].kind = "block"

(* No value has two entries, and none has a later value's number.          *)
Distinct(f, map, count) ==
    /\ \A i \in 1..Len(map) : map[i].value \in ValuesOf(f, count)
    /\ \A i, j \in 1..Len(map) : map[i].value = map[j].value => i = j

(* The map holds the values in scope, ...                                  *)
HoldsScope(fs, map) ==
    /\ \A i \in 1..Len(map) : \E n \in 1..Len(fs) : map[i].value \in fs[n].defs
    /\ \A n \in 1..Len(fs) : \A v \in fs[n].defs : \E i \in 1..Len(map) : v = map[i].value

(* ... those of each block above the index that its end goes back to and   *)
(* below the index that the end of any block inside it goes back to.       *)
Layered(fs, map) ==
    \A n \in 1..Len(fs) : \A i \in 1..Len(map) :
        map[i].value \in fs[n].defs =>
            /\ fs[n].base < i
            /\ \A m \in 1..Len(fs) : n < m => i <= fs[m].base

Scoped(f, fs, map, count) ==
    /\ Nested(fs) /\ Stacked(fs, map)
    /\ Distinct(f, map, count) /\ HoldsScope(fs, map) /\ Layered(fs, map)

(* What is known of the writer.                                            *)
WriterInv ==
    /\ Numbered /\ TableBounded
    /\ frames # <<>> => Scoped(Writing, frames, valueIndexMap, made)

-----------------------------------------------------------------------------
(* The operations on a stack of calls.                                     *)
LEMMA PopStack ==
    ASSUME NEW S, NEW s \in Seq(S), s # <<>>
    PROVE  /\ Pop(s) \in Seq(S)
           /\ Len(s) \in Nat \ {0}
           /\ Len(Pop(s)) = Len(s) - 1
           /\ \A n \in 1..Len(s) - 1 : Pop(s)[n] = s[n]
  BY PopFacts, EmptySeq DEF Pop

(* The top changes, the others stay.                                       *)
LEMMA SetTopStack ==
    ASSUME NEW S, NEW s \in Seq(S), s # <<>>, NEW e \in S
    PROVE  /\ SetTop(s, e) \in Seq(S)
           /\ SetTop(s, e) # <<>>
           /\ Len(SetTop(s, e)) = Len(s)
           /\ Len(s) \in Nat \ {0}
           /\ \A n \in 1..Len(s) - 1 : SetTop(s, e)[n] = s[n]
           /\ SetTop(s, e)[Len(s)] = e
  <1> DEFINE p == Pop(s)
  <1>1. /\ p \in Seq(S)
        /\ Len(s) \in Nat \ {0}
        /\ Len(p) = Len(s) - 1
        /\ \A n \in 1..Len(s) - 1 : p[n] = s[n]
    BY PopStack
  <1>2. /\ Append(p, e) \in Seq(S)
        /\ Append(p, e) # <<>>
        /\ Len(Append(p, e)) = Len(p) + 1
        /\ \A n \in 1..Len(p) : Append(p, e)[n] = p[n]
        /\ Append(p, e)[Len(p) + 1] = e
    BY <1>1, AppendProperties
  <1> QED BY <1>1, <1>2 DEF SetTop

(* The top changes and a call is added.                                    *)
Called(s, e, c) == Append(SetTop(s, e), c)

LEMMA CallStack ==
    ASSUME NEW S, NEW s \in Seq(S), s # <<>>, NEW e \in S, NEW c \in S
    PROVE  /\ Called(s, e, c) \in Seq(S)
           /\ Called(s, e, c) # <<>>
           /\ Len(Called(s, e, c)) = Len(s) + 1
           /\ Len(s) \in Nat \ {0}
           /\ \A n \in 1..Len(s) - 1 : Called(s, e, c)[n] = s[n]
           /\ Called(s, e, c)[Len(s)] = e
           /\ Called(s, e, c)[Len(s) + 1] = c
  <1> DEFINE u == SetTop(s, e)
  <1>1. /\ u \in Seq(S)
        /\ Len(u) = Len(s)
        /\ Len(s) \in Nat \ {0}
        /\ \A n \in 1..Len(s) - 1 : u[n] = s[n]
        /\ u[Len(s)] = e
    BY SetTopStack
  <1> HIDE DEF u
  <1>2. /\ Append(u, c) \in Seq(S)
        /\ Append(u, c) # <<>>
        /\ Len(Append(u, c)) = Len(u) + 1
        /\ \A n \in 1..Len(u) : Append(u, c)[n] = u[n]
        /\ Append(u, c)[Len(u) + 1] = c
    BY <1>1, AppendProperties
  <1> QED BY <1>1, <1>2 DEF u, Called

(* The top of a stack is one of its frames.                                *)
LEMMA TopOfStack ==
    ASSUME NEW S, NEW s \in Seq(S), s # <<>>
    PROVE  /\ Top(s) = s[Len(s)] /\ Top(s) \in S
           /\ Len(s) \in Nat \ {0} /\ Len(s) \in 1..Len(s) /\ DOMAIN s = 1..Len(s)
           /\ \A n \in 1..Len(s) : s[n] \in S
  BY StackElements, LenProperties DEF Top

(* The values that a function defines next, after n others.                *)
LEMMA FreshFacts ==
    ASSUME NEW f \in Nat, f \in 1..MaxFunctions, NEW n \in Nat, NEW count \in Nat
    PROVE  /\ Fresh(f, n, count) \in Seq(Value)
           /\ Len(Fresh(f, n, count)) = count
           /\ DOMAIN Fresh(f, n, count) = 1..count
           /\ \A k \in 1..count : Fresh(f, n, count)[k] = <<f, n + k>>
           /\ ToSet(Fresh(f, n, count)) \subseteq Value
  <1> DEFINE s == Fresh(f, n, count)
  <1>1. s = [k \in 1..count |-> <<f, n + k>>]
    BY DEF Fresh
  <1>2. \A k \in 1..count : <<f, n + k>> \in Value
    BY DEF Value
  <1>3. s \in [1..count -> Value]
    BY <1>1, <1>2
  <1>4. s \in Seq(Value)
    BY <1>3, SeqDef
  <1>5. Len(s) = count /\ DOMAIN s = 1..count
    BY <1>1, <1>4, LenProperties
  <1>6. \A k \in 1..count : s[k] = <<f, n + k>>
    BY <1>1
  <1> HIDE DEF s
  <1>7. ToSet(s) \subseteq Value
    BY <1>2, <1>5, <1>6 DEF ToSet
  <1> QED BY <1>4, <1>5, <1>6, <1>7 DEF s

-----------------------------------------------------------------------------
(* The types of the writer's variables, and of the reader's.               *)
WriterTypes ==
    /\ phase \in {"write", "failed", "read", "done", "refused"}
    /\ table \in Seq(Function)
    /\ left \in Nat
    /\ frames \in Seq(Frame) /\ params \in Nat /\ made \in Nat
    /\ valueIndexMap \in Seq([value : Value, index : Nat]) /\ nextValueIndex \in Nat
    /\ body \in Seq(Token) /\ uses \in Seq(Seq(Value))
ReaderTypes ==
    /\ current \in Nat /\ scopes \in Seq(Frame) /\ pos \in Nat
    /\ valueIndexList \in Seq(Value) /\ built \in Nat
    /\ resolved \in Seq(Seq(Value))

(* The two frames that are made.                                           *)
LEMMA BlockFrameFacts ==
    ASSUME NEW ops \in Nat, NEW base \in Nat, NEW defs, defs \subseteq Value,
           NEW f, f = BlockFrame(ops, base, defs)
    PROVE  /\ f \in Frame
           /\ f.kind = "block" /\ f.ops = ops /\ f.base = base /\ f.defs = defs
           /\ ~f.ended /\ f.regions = 0 /\ f.blocks = 0 /\ f.shape = Terminator
  BY DEF BlockFrame, Frame, Terminator, Shape

LEMMA OpFrameFacts ==
    ASSUME NEW shape \in Shape, NEW base \in Nat, NEW f, f = OpFrame(shape, base)
    PROVE  /\ f \in Frame
           /\ f.kind = "op" /\ f.ops = 0 /\ f.base = base /\ f.defs = {}
           /\ ~f.ended /\ f.regions = shape.regions /\ f.blocks = 0 /\ f.shape = shape
  BY DEF OpFrame, Frame, Shape

(* The components of a frame.                                              *)
LEMMA FrameFields ==
    ASSUME NEW f \in Frame
    PROVE  /\ f.kind \in {"block", "op"} /\ f.ops \in Nat /\ f.base \in Nat
           /\ f.defs \subseteq Value /\ f.ended \in BOOLEAN /\ f.regions \in Nat
           /\ f.blocks \in 0..1 /\ f.shape \in Shape
           /\ f.shape.results \in Nat /\ f.shape.gated \in Nat /\ f.shape.regions \in Nat
  BY DEF Frame, Shape

(* The ways in which the top frame changes: an operation of the block, or  *)
(* a region of the operation, is begun.                                    *)
NextOp(f, counted, ended) ==
    [f EXCEPT !.ops = IF counted THEN f.ops - 1 ELSE f.ops, !.ended = ended]
NextRegion(f, blocks) == [f EXCEPT !.regions = f.regions - 1, !.blocks = blocks]

LEMMA OpsChange ==
    ASSUME NEW f \in Frame, NEW counted \in BOOLEAN, counted => f.ops > 0, NEW ended \in BOOLEAN,
           NEW g, g = NextOp(f, counted, ended)
    PROVE  /\ g \in Frame
           /\ g.kind = f.kind /\ g.base = f.base /\ g.defs = f.defs
           /\ g.ops = (IF counted THEN f.ops - 1 ELSE f.ops)
           /\ (g.ended <=> ended)
           /\ g.regions = f.regions /\ g.blocks = f.blocks /\ g.shape = f.shape
  <1> USE DEF Frame
  <1> DEFINE ops == IF counted THEN f.ops - 1 ELSE f.ops
             h == [f EXCEPT !.ops = ops]
  <1>0. ops \in Nat
    OBVIOUS
  <1> HIDE DEF ops
  <1>1. /\ h \in Frame
        /\ h.kind = f.kind /\ h.ops = ops /\ h.base = f.base /\ h.defs = f.defs
        /\ h.regions = f.regions /\ h.blocks = f.blocks /\ h.shape = f.shape
    BY <1>0
  <1>2. g = [h EXCEPT !.ended = ended]
    BY Zenon DEF NextOp, ops
  <1> HIDE DEF h
  <1>3. /\ g \in Frame
        /\ g.kind = f.kind /\ g.base = f.base /\ g.defs = f.defs /\ g.ops = ops
        /\ (g.ended <=> ended)
        /\ g.regions = f.regions /\ g.blocks = f.blocks /\ g.shape = f.shape
    BY <1>1, <1>2
  <1> QED BY <1>3 DEF ops

LEMMA RegionsChange ==
    ASSUME NEW f \in Frame, f.regions > 0, NEW blocks \in Nat, blocks \in 0..1,
           NEW g, g = NextRegion(f, blocks)
    PROVE  /\ g \in Frame
           /\ g.kind = f.kind /\ g.ops = f.ops /\ g.base = f.base /\ g.defs = f.defs
           /\ (g.ended <=> f.ended)
           /\ g.regions = f.regions - 1 /\ g.blocks = blocks /\ g.shape = f.shape
  <1> USE DEF Frame
  <1> DEFINE regions == f.regions - 1
             h == [f EXCEPT !.regions = regions]
  <1>0. regions \in Nat
    OBVIOUS
  <1> HIDE DEF regions
  <1>1. /\ h \in Frame
        /\ h.kind = f.kind /\ h.ops = f.ops /\ h.base = f.base /\ h.defs = f.defs
        /\ (h.ended <=> f.ended) /\ h.regions = regions /\ h.shape = f.shape
    BY <1>0
  <1>2. g = [h EXCEPT !.blocks = blocks]
    BY Zenon DEF NextRegion, regions
  <1> HIDE DEF h
  <1>3. /\ g \in Frame
        /\ g.kind = f.kind /\ g.ops = f.ops /\ g.base = f.base /\ g.defs = f.defs
        /\ (g.ended <=> f.ended)
        /\ g.regions = regions /\ g.blocks = blocks /\ g.shape = f.shape
    BY <1>1, <1>2
  <1> QED BY <1>3 DEF regions

LEMMA BlocksChange ==
    ASSUME NEW f \in Frame, NEW blocks \in Nat, blocks \in 0..1, NEW g, g = [f EXCEPT !.blocks = blocks]
    PROVE  /\ g \in Frame
           /\ g.kind = f.kind /\ g.ops = f.ops /\ g.base = f.base /\ g.defs = f.defs
           /\ (g.ended <=> f.ended)
           /\ g.regions = f.regions /\ g.blocks = blocks /\ g.shape = f.shape
  BY DEF Frame

LEMMA DefsChange ==
    ASSUME NEW f \in Frame, NEW new, new \subseteq Value,
           NEW g, g = [f EXCEPT !.defs = f.defs \cup new]
    PROVE  /\ g \in Frame
           /\ g.kind = f.kind /\ g.ops = f.ops /\ g.base = f.base /\ g.defs = f.defs \cup new
           /\ (g.ended <=> f.ended)
           /\ g.regions = f.regions /\ g.blocks = f.blocks /\ g.shape = f.shape
  BY DEF Frame

-----------------------------------------------------------------------------
(* The writer's stack and the reader's change alike.                       *)
BeginsOp(s, t, shape, base, terminator) ==
    t = Append(SetTop(s, NextOp(Top(s), ~InBody(s), terminator)), OpFrame(shape, base))
BeginsRegion(s, t, blocks) == t = SetTop(s, NextRegion(Top(s), blocks))
BeginsBlock(s, t, ops, base, defs) ==
    t = Append(SetTop(s, [Top(s) EXCEPT !.blocks = Top(s).blocks - 1]),
               BlockFrame(ops, base, defs))

(* What the stack is then.                                                 *)
OpBegun(s, t, shape, base, terminator) ==
    /\ t \in Seq(Frame) /\ t # <<>> /\ Len(t) = Len(s) + 1
    /\ Len(s) \in Nat \ {0} /\ Top(s) = s[Len(s)]
    /\ \A n \in 1..Len(s) - 1 : t[n] = s[n]
    /\ t[Len(s)].kind = Top(s).kind /\ t[Len(s)].base = Top(s).base
    /\ t[Len(s)].defs = Top(s).defs
    /\ t[Len(s)].ops = (IF InBody(s) THEN Top(s).ops ELSE Top(s).ops - 1)
    /\ (t[Len(s)].ended <=> terminator)
    /\ t[Len(s)].regions = Top(s).regions /\ t[Len(s)].blocks = Top(s).blocks
    /\ t[Len(s)].shape = Top(s).shape
    /\ t[Len(s) + 1].kind = "op" /\ t[Len(s) + 1].ops = 0 /\ t[Len(s) + 1].base = base
    /\ t[Len(s) + 1].defs = {} /\ ~t[Len(s) + 1].ended
    /\ t[Len(s) + 1].regions = shape.regions /\ t[Len(s) + 1].blocks = 0
    /\ t[Len(s) + 1].shape = shape
RegionBegun(s, t, blocks) ==
    /\ t \in Seq(Frame) /\ t # <<>> /\ Len(t) = Len(s)
    /\ Len(s) \in Nat \ {0} /\ Top(s) = s[Len(s)]
    /\ \A n \in 1..Len(s) - 1 : t[n] = s[n]
    /\ t[Len(s)].kind = Top(s).kind /\ t[Len(s)].ops = Top(s).ops
    /\ t[Len(s)].base = Top(s).base /\ t[Len(s)].defs = Top(s).defs
    /\ (t[Len(s)].ended <=> Top(s).ended)
    /\ t[Len(s)].regions = Top(s).regions - 1 /\ t[Len(s)].blocks = blocks
    /\ t[Len(s)].shape = Top(s).shape
BlockBegun(s, t, ops, base, defs) ==
    /\ t \in Seq(Frame) /\ t # <<>> /\ Len(t) = Len(s) + 1
    /\ Len(s) \in Nat \ {0} /\ Top(s) = s[Len(s)]
    /\ \A n \in 1..Len(s) - 1 : t[n] = s[n]
    /\ t[Len(s)].kind = Top(s).kind /\ t[Len(s)].ops = Top(s).ops
    /\ t[Len(s)].base = Top(s).base /\ t[Len(s)].defs = Top(s).defs
    /\ (t[Len(s)].ended <=> Top(s).ended)
    /\ t[Len(s)].regions = Top(s).regions /\ t[Len(s)].blocks = Top(s).blocks - 1
    /\ t[Len(s)].shape = Top(s).shape
    /\ t[Len(s) + 1].kind = "block" /\ t[Len(s) + 1].ops = ops
    /\ t[Len(s) + 1].base = base /\ t[Len(s) + 1].defs = defs /\ ~t[Len(s) + 1].ended
    /\ t[Len(s) + 1].regions = 0 /\ t[Len(s) + 1].blocks = 0
    /\ t[Len(s) + 1].shape = Terminator

(* Two frames that are the same call, at the same place in it.             *)
Alike(f, g) ==
    /\ f.kind = g.kind /\ f.ops = g.ops /\ f.base = g.base /\ (f.ended <=> g.ended)
    /\ f.regions = g.regions /\ f.blocks = g.blocks /\ f.shape = g.shape

LEMMA BeginsOpFacts ==
    ASSUME NEW s \in Seq(Frame), s # <<>>, ~InBody(s) => Top(s).ops > 0,
           NEW shape \in Shape, NEW base \in Nat, NEW terminator \in BOOLEAN,
           NEW t, BeginsOp(s, t, shape, base, terminator)
    PROVE  OpBegun(s, t, shape, base, terminator)
  <1>1. /\ Top(s) \in Frame /\ Top(s) = s[Len(s)] /\ Len(s) \in Nat \ {0}
    BY TopOfStack
  <1>2. PICK counted \in BOOLEAN : counted <=> ~InBody(s)
    BY Zenon
  <1>3. PICK g : g = NextOp(Top(s), counted, terminator)
    OBVIOUS
  <1>4. g = NextOp(Top(s), ~InBody(s), terminator)
    BY <1>2, <1>3, Zenon
  <1>5. counted => Top(s).ops > 0
    BY <1>2
  <1>6. /\ g \in Frame
        /\ g.kind = Top(s).kind /\ g.base = Top(s).base /\ g.defs = Top(s).defs
        /\ g.ops = (IF counted THEN Top(s).ops - 1 ELSE Top(s).ops)
        /\ (g.ended <=> terminator)
        /\ g.regions = Top(s).regions /\ g.blocks = Top(s).blocks /\ g.shape = Top(s).shape
    BY <1>1, <1>3, <1>5, OpsChange
  <1>7. PICK c : c = OpFrame(shape, base)
    OBVIOUS
  <1>8. /\ c \in Frame
        /\ c.kind = "op" /\ c.ops = 0 /\ c.base = base /\ c.defs = {} /\ ~c.ended
        /\ c.regions = shape.regions /\ c.blocks = 0 /\ c.shape = shape
    BY <1>7, OpFrameFacts
  <1>9. t = Called(s, g, c)
    BY <1>4, <1>7, Zenon DEF BeginsOp, Called
  <1>10. /\ t \in Seq(Frame) /\ t # <<>> /\ Len(t) = Len(s) + 1
         /\ \A n \in 1..Len(s) - 1 : t[n] = s[n]
         /\ t[Len(s)] = g /\ t[Len(s) + 1] = c
    <2>1. /\ Called(s, g, c) \in Seq(Frame)
          /\ Called(s, g, c) # <<>>
          /\ Len(Called(s, g, c)) = Len(s) + 1
          /\ \A n \in 1..Len(s) - 1 : Called(s, g, c)[n] = s[n]
          /\ Called(s, g, c)[Len(s)] = g
          /\ Called(s, g, c)[Len(s) + 1] = c
      BY <1>6, <1>8, CallStack
    <2> QED BY <1>9, <2>1
  <1>11. g.ops = (IF InBody(s) THEN Top(s).ops ELSE Top(s).ops - 1)
    BY <1>2, <1>6
  <1> QED BY <1>1, <1>4, <1>6, <1>8, <1>10, <1>11 DEF OpBegun

LEMMA BeginsRegionFacts ==
    ASSUME NEW s \in Seq(Frame), s # <<>>, Top(s).regions > 0,
           NEW blocks \in Nat, blocks \in 0..1, NEW t, BeginsRegion(s, t, blocks)
    PROVE  RegionBegun(s, t, blocks)
  <1>1. /\ Top(s) \in Frame /\ Top(s) = s[Len(s)] /\ Len(s) \in Nat \ {0}
    BY TopOfStack
  <1>2. PICK g : g = NextRegion(Top(s), blocks)
    OBVIOUS
  <1>3. /\ g \in Frame
        /\ g.kind = Top(s).kind /\ g.ops = Top(s).ops /\ g.base = Top(s).base
        /\ g.defs = Top(s).defs /\ (g.ended <=> Top(s).ended)
        /\ g.regions = Top(s).regions - 1 /\ g.blocks = blocks /\ g.shape = Top(s).shape
    BY <1>1, <1>2, RegionsChange
  <1>4. t = SetTop(s, g)
    BY <1>2 DEF BeginsRegion
  <1>5. /\ t \in Seq(Frame) /\ t # <<>> /\ Len(t) = Len(s)
        /\ \A n \in 1..Len(s) - 1 : t[n] = s[n]
        /\ t[Len(s)] = g
    <2>1. /\ SetTop(s, g) \in Seq(Frame)
          /\ SetTop(s, g) # <<>>
          /\ Len(SetTop(s, g)) = Len(s)
          /\ \A n \in 1..Len(s) - 1 : SetTop(s, g)[n] = s[n]
          /\ SetTop(s, g)[Len(s)] = g
      BY <1>3, SetTopStack
    <2> QED BY <1>4, <2>1
  <1> QED BY <1>1, <1>3, <1>5 DEF RegionBegun

LEMMA BeginsBlockFacts ==
    ASSUME NEW s \in Seq(Frame), s # <<>>, Top(s).blocks > 0,
           NEW ops \in Nat, NEW base \in Nat, NEW defs \in SUBSET Value,
           NEW t, BeginsBlock(s, t, ops, base, defs)
    PROVE  BlockBegun(s, t, ops, base, defs)
  <1>1. /\ Top(s) \in Frame /\ Top(s) = s[Len(s)] /\ Len(s) \in Nat \ {0}
    BY TopOfStack
  <1>2. PICK blocks \in Nat : blocks \in 0..1 /\ blocks = Top(s).blocks - 1
    BY <1>1, FrameFields
  <1>3. PICK g : g = [Top(s) EXCEPT !.blocks = blocks]
    OBVIOUS
  <1>4. /\ g \in Frame
        /\ g.kind = Top(s).kind /\ g.ops = Top(s).ops /\ g.base = Top(s).base
        /\ g.defs = Top(s).defs /\ (g.ended <=> Top(s).ended)
        /\ g.regions = Top(s).regions /\ g.blocks = blocks /\ g.shape = Top(s).shape
    BY <1>1, <1>2, <1>3, BlocksChange
  <1>5. PICK c : c = BlockFrame(ops, base, defs)
    OBVIOUS
  <1>6. /\ c \in Frame
        /\ c.kind = "block" /\ c.ops = ops /\ c.base = base /\ c.defs = defs /\ ~c.ended
        /\ c.regions = 0 /\ c.blocks = 0 /\ c.shape = Terminator
    BY <1>5, BlockFrameFacts
  <1>7. t = Called(s, g, c)
    BY <1>2, <1>3, <1>5 DEF BeginsBlock, Called
  <1>8. /\ t \in Seq(Frame) /\ t # <<>> /\ Len(t) = Len(s) + 1
        /\ \A n \in 1..Len(s) - 1 : t[n] = s[n]
        /\ t[Len(s)] = g /\ t[Len(s) + 1] = c
    <2>1. /\ Called(s, g, c) \in Seq(Frame)
          /\ Called(s, g, c) # <<>>
          /\ Len(Called(s, g, c)) = Len(s) + 1
          /\ \A n \in 1..Len(s) - 1 : Called(s, g, c)[n] = s[n]
          /\ Called(s, g, c)[Len(s)] = g
          /\ Called(s, g, c)[Len(s) + 1] = c
      BY <1>4, <1>6, CallStack
    <2> QED BY <1>7, <2>1
  <1> QED BY <1>1, <1>2, <1>4, <1>6, <1>8 DEF BlockBegun

-----------------------------------------------------------------------------
(* What a step of the writer may do to the scope.                          *)
Entry == [value : Value, index : Nat]

(* The calls change, the values in scope do not: an operation is begun, or *)
(* one of its regions.                                                     *)
LEMMA SameScope ==
    ASSUME NEW f, NEW fs \in Seq(Frame), NEW gs \in Seq(Frame), fs # <<>>,
           NEW map \in Seq(Entry), NEW count, Scoped(f, fs, map, count),
           Len(gs) = Len(fs) \/ Len(gs) = Len(fs) + 1,
           \A n \in 1..Len(fs) :
              /\ gs[n].kind = fs[n].kind /\ gs[n].base = fs[n].base /\ gs[n].defs = fs[n].defs
              /\ n > 1 /\ gs[n].kind = "block" /\ gs[n].ops = 0 => gs[n].ended,
           Len(gs) = Len(fs) + 1 =>
              /\ fs[Len(fs)].kind = "block"
              /\ gs[Len(fs) + 1].kind = "op"
              /\ gs[Len(fs) + 1].base = Len(map)
              /\ gs[Len(fs) + 1].defs = {}
    PROVE  Scoped(f, gs, map, count)
  <1> USE DEF Scoped
  <1>1. Len(fs) \in Nat \ {0} /\ Len(gs) \in Nat \ {0} /\ Len(map) \in Nat
    BY LenProperties, EmptySeq
  <1>2. \A n \in 1..Len(gs) : n \in 1..Len(fs) \/ n = Len(fs) + 1
    BY <1>1
  <1>3. \A n \in 1..Len(fs) : n \in 1..Len(gs)
    BY <1>1
  <1>4. Nested(gs)
    <2> SUFFICES ASSUME NEW n \in 1..Len(gs), NEW k \in 1..Len(gs), k = n + 1, gs[k].kind = "op"
                 PROVE  gs[n].kind = "block"
      BY DEF Nested
    <2>1. n \in 1..Len(fs) /\ (k \in 1..Len(fs) \/ (k = Len(fs) + 1 /\ n = Len(fs)))
      BY <1>1
    <2> QED BY <1>1, <2>1 DEF Nested
  <1>5. Stacked(gs, map)
    <2>1. gs[1].kind = "block"
      BY <1>1 DEF Stacked
    <2>2. ASSUME NEW n \in 1..Len(gs)
          PROVE  /\ gs[n].base <= Len(map)
                 /\ \A m \in 1..Len(gs) : n < m => gs[n].base <= gs[m].base
                 /\ gs[n].kind = "op" => gs[n].defs = {}
                 /\ gs[n].kind = "block" /\ n > 1 /\ gs[n].ops = 0 => gs[n].ended
      <3>1. CASE n \in 1..Len(fs)
        <4>1. fs[n].base <= Len(map) /\ gs[n].base = fs[n].base
          BY <3>1 DEF Stacked
        <4>2. \A m \in 1..Len(fs) : n < m => gs[n].base <= gs[m].base
          BY <3>1 DEF Stacked
        <4>3. Len(gs) = Len(fs) + 1 => gs[n].base <= gs[Len(fs) + 1].base
          BY <4>1
        <4> QED BY <1>1, <1>2, <3>1, <4>1, <4>2, <4>3 DEF Stacked
      <3>2. CASE n = Len(fs) + 1
        BY <1>1, <3>2
      <3> QED BY <1>2, <3>1, <3>2
    <2> QED BY <2>1, <2>2 DEF Stacked
  <1>7. HoldsScope(gs, map)
    <2>1. ASSUME NEW i \in 1..Len(map) PROVE \E n \in 1..Len(gs) : map[i].value \in gs[n].defs
      BY <1>3 DEF HoldsScope
    <2>2. ASSUME NEW n \in 1..Len(gs), NEW v \in gs[n].defs
          PROVE  \E i \in 1..Len(map) : v = map[i].value
      <3>1. n \in 1..Len(fs) /\ v \in fs[n].defs
        BY <1>1, <1>2
      <3> QED BY <3>1 DEF HoldsScope
    <2> QED BY <2>1, <2>2 DEF HoldsScope
  <1>8. Layered(gs, map)
    <2> SUFFICES ASSUME NEW n \in 1..Len(gs), NEW i \in 1..Len(map), map[i].value \in gs[n].defs
                 PROVE  /\ gs[n].base < i
                        /\ \A m \in 1..Len(gs) : n < m => i <= gs[m].base
      BY DEF Layered
    <2>1. n \in 1..Len(fs) /\ map[i].value \in fs[n].defs
      BY <1>1, <1>2
    <2>2. /\ fs[n].base < i
          /\ \A m \in 1..Len(fs) : n < m => i <= fs[m].base
      BY <2>1 DEF Layered
    <2>3. Len(gs) = Len(fs) + 1 => i <= gs[Len(fs) + 1].base
      BY <1>1
    <2> QED BY <1>1, <1>2, <2>1, <2>2, <2>3
  <1> QED BY <1>4, <1>5, <1>7, <1>8

(* A block ends: its entries are the last ones, and they go.               *)
LEMMA PopScope ==
    ASSUME NEW f, NEW fs \in Seq(Frame), NEW gs \in Seq(Frame), Len(fs) > 1,
           NEW map \in Seq(Entry), NEW rest \in Seq(Entry), NEW count,
           Scoped(f, fs, map, count),
           Len(gs) = Len(fs) - 1, \A n \in 1..Len(gs) : gs[n] = fs[n],
           Len(rest) = fs[Len(fs)].base, \A i \in 1..Len(rest) : rest[i] = map[i]
    PROVE  Scoped(f, gs, rest, count)
  <1> USE DEF Scoped
  <1> DEFINE L == Len(fs)
  <1>1. /\ L \in Nat \ {0} /\ Len(gs) = L - 1 /\ L > 1 /\ L \in 1..L
        /\ Len(map) \in Nat /\ Len(rest) \in Nat
        /\ 1 \in 1..Len(gs)
    BY LenProperties, EmptySeq
  <1>2. Len(rest) <= Len(map)
    BY <1>1 DEF Stacked
  <1>3. \A n \in 1..Len(gs) : n \in 1..L /\ n < L /\ gs[n] = fs[n]
    BY <1>1
  <1>4. \A i \in 1..Len(rest) : i \in 1..Len(map) /\ rest[i] = map[i]
    BY <1>1, <1>2
  <1>5. \A n \in 1..L : n \in 1..Len(gs) \/ n = L
    BY <1>1
  <1>6. fs[L].base = Len(rest)
    OBVIOUS
  <1>7. Layered(gs, rest)
    BY <1>1, <1>3, <1>4 DEF Layered
  <1>8. Distinct(f, rest, count)
    BY <1>4 DEF Distinct
  <1> HIDE DEF L
  <1>9. HoldsScope(gs, rest)
    <2>1. ASSUME NEW i \in 1..Len(rest)
          PROVE  \E n \in 1..Len(gs) : rest[i].value \in gs[n].defs
      <3>1. PICK n \in 1..L : map[i].value \in fs[n].defs
        BY <1>4 DEF HoldsScope, L
      <3>2. fs[n].base < i
        BY <1>4, <3>1 DEF Layered, L
      <3>3. n # L
        BY <1>1, <1>6, <3>2
      <3> QED BY <1>3, <1>4, <1>5, <3>1, <3>3
    <2>2. ASSUME NEW n \in 1..Len(gs), NEW v \in gs[n].defs
          PROVE  \E i \in 1..Len(rest) : v = rest[i].value
      <3>1. PICK i \in 1..Len(map) : v = map[i].value
        BY <1>3 DEF HoldsScope, L
      <3>2. i <= fs[L].base
        BY <1>1, <1>3, <3>1 DEF Layered, L
      <3>3. i \in 1..Len(rest)
        BY <1>1, <1>6, <3>2
      <3> QED BY <1>4, <3>1, <3>3
    <2> QED BY <2>1, <2>2 DEF HoldsScope
  <1>10. Stacked(gs, rest)
    <2>1. gs[1].kind = "block"
      BY <1>1, <1>3 DEF Stacked
    <2>2. ASSUME NEW n \in 1..Len(gs) PROVE gs[n].base <= Len(rest)
      BY <1>1, <1>3, <1>6 DEF Stacked, L
    <2> QED BY <1>3, <2>1, <2>2 DEF Stacked, L
  <1>11. Nested(gs)
    BY <1>1, <1>3 DEF Nested, L
  <1> QED BY <1>7, <1>8, <1>9, <1>10, <1>11

(* Values are made: the map is extended by the next ones of the function.  *)
NewValues(f, count, more) == {<<f, count + k>> : k \in 1..more}

Extends(f, map, ext, count, new) ==
    /\ \A i \in 1..Len(ext) :
          \/ i \in 1..Len(map) /\ ext[i].value = map[i].value
          \/ /\ Len(map) < i
             /\ ext[i].value = <<f, count + (i - Len(map))>> /\ ext[i].value \in new
    /\ \A i \in 1..Len(map) : i \in 1..Len(ext) /\ ext[i].value = map[i].value
    /\ \A v \in new : \E i \in 1..Len(ext) : v = ext[i].value

LEMMA ExtendFacts ==
    ASSUME NEW f, NEW N \in Nat, NEW count \in Nat, NEW more \in Nat, NEW map, NEW ext,
           Len(map) = N, Len(ext) = N + more,
           \A i \in 1..N : ext[i] = map[i],
           \A k \in 1..more : ext[N + k].value = <<f, count + k>>
    PROVE  Extends(f, map, ext, count, NewValues(f, count, more))
  <1> USE DEF NewValues
  <1>1. \A i \in 1..Len(ext) : i \in 1..N \/ (N < i /\ i - N \in 1..more /\ i = N + (i - N))
    OBVIOUS
  <1>2. \A i \in 1..N : i \in 1..Len(ext)
    OBVIOUS
  <1>3. ASSUME NEW i \in 1..Len(ext), i \notin 1..N
        PROVE  /\ N < i
               /\ ext[i].value = <<f, count + (i - N)>>
               /\ ext[i].value \in {<<f, count + k>> : k \in 1..more}
    <2>1. N < i /\ i - N \in 1..more /\ i = N + (i - N)
      BY <1>1, <1>3
    <2> DEFINE k == i - N
    <2>2. k \in 1..more /\ i = N + k
      BY <2>1
    <2> HIDE DEF k
    <2>3. ext[i].value = <<f, count + k>>
      BY <2>2
    <2> QED BY <2>1, <2>2, <2>3 DEF k
  <1>4. ASSUME NEW v \in {<<f, count + k>> : k \in 1..more}
        PROVE  \E i \in 1..Len(ext) : v = ext[i].value
    <2>1. PICK k \in 1..more : v = <<f, count + k>>
      OBVIOUS
    <2>2. N + k \in 1..Len(ext)
      OBVIOUS
    <2> QED BY <2>1, <2>2
  <1> QED BY <1>2, <1>3, <1>4 DEF Extends

(* The new values are none of the old ones.                                *)
LEMMA ExtendDistinct ==
    ASSUME NEW f, NEW count \in Nat, NEW more \in Nat, NEW made1 \in Nat,
           NEW map \in Seq(Entry), NEW ext \in Seq(Entry),
           made1 >= count + more, Len(ext) = Len(map) + more,
           NEW new, new = NewValues(f, count, more),
           Extends(f, map, ext, count, new), Distinct(f, map, count)
    PROVE  /\ Distinct(f, ext, made1)
           /\ \A i \in 1..Len(map) : map[i].value \notin new
  <1> USE DEF NewValues
  <1>1. Len(map) \in Nat
    BY LenProperties
  <1>2. ASSUME NEW i \in 1..Len(map) PROVE \E k \in 1..count : map[i].value = <<f, k>>
    BY DEF Distinct, ValuesOf
  <1>3. ASSUME NEW i \in 1..Len(map) PROVE map[i].value \notin new
    BY <1>2
  <1>4. ASSUME NEW i \in 1..Len(ext), i \notin 1..Len(map)
        PROVE  /\ i - Len(map) \in 1..more
               /\ ext[i].value = <<f, count + (i - Len(map))>>
               /\ ext[i].value \in new
    <2>1. /\ Len(map) < i
          /\ ext[i].value = <<f, count + (i - Len(map))>> /\ ext[i].value \in new
      BY <1>4 DEF Extends
    <2> QED BY <1>1, <2>1
  <1>5. ASSUME NEW i \in 1..Len(ext) PROVE ext[i].value \in ValuesOf(f, made1)
    <2>1. CASE i \in 1..Len(map)
      <3>1. PICK k \in 1..count : map[i].value = <<f, k>>
        BY <1>2, <2>1
      <3>2. ext[i].value = <<f, k>> /\ k \in 1..made1
        BY <2>1, <3>1 DEF Extends
      <3> QED BY <3>2 DEF ValuesOf
    <2>2. CASE i \notin 1..Len(map)
      <3>1. count + (i - Len(map)) \in 1..made1
        BY <1>1, <1>4, <2>2
      <3> QED BY <1>4, <2>2, <3>1 DEF ValuesOf
    <2> QED BY <2>1, <2>2
  <1>6. ASSUME NEW i \in 1..Len(ext), NEW j \in 1..Len(ext), ext[i].value = ext[j].value
        PROVE  i = j
    <2>1. CASE i \in 1..Len(map) /\ j \in 1..Len(map)
      BY <1>6, <2>1 DEF Distinct, Extends
    <2>2. CASE i \in 1..Len(map) /\ j \notin 1..Len(map)
      <3>1. ext[i].value = map[i].value
        BY <2>2 DEF Extends
      <3> QED BY <1>3, <1>4, <1>6, <2>2, <3>1
    <2>3. CASE i \notin 1..Len(map) /\ j \in 1..Len(map)
      <3>1. ext[j].value = map[j].value
        BY <2>3 DEF Extends
      <3> QED BY <1>3, <1>4, <1>6, <2>3, <3>1
    <2>4. CASE i \notin 1..Len(map) /\ j \notin 1..Len(map)
      <3>1. <<f, count + (i - Len(map))>> = <<f, count + (j - Len(map))>>
        BY <1>4, <1>6, <2>4
      <3>2. count + (i - Len(map)) = count + (j - Len(map))
        BY <3>1
      <3> QED BY <1>1, <3>2
    <2> QED BY <2>1, <2>2, <2>3, <2>4
  <1> QED BY <1>3, <1>5, <1>6 DEF Distinct

(* The new values join the frame at place m, which is the block that the   *)
(* writer is in when an operation returns, or a block that is entered.     *)
Joins(fs, gs, map, new, m) ==
    /\ m \in Nat \ {0} /\ Len(gs) = m /\ m <= Len(fs) + 1
    /\ \A n \in 1..Len(fs) : n > m => fs[n].defs = {}
    /\ \A n \in 1..m : n <= Len(fs) =>
          /\ gs[n].kind = fs[n].kind /\ gs[n].base = fs[n].base
          /\ n > 1 /\ gs[n].kind = "block" /\ gs[n].ops = 0 => gs[n].ended
    /\ \A n \in 1..m : n < m => gs[n].defs = fs[n].defs
    /\ m <= Len(fs) => gs[m].defs = fs[m].defs \cup new
    /\ m > Len(fs) => gs[m].base = Len(map) /\ gs[m].ops # 0 /\ gs[m].defs = new
    /\ gs[m].kind = "block"

LEMMA ExtendStacked ==
    ASSUME NEW fs \in Seq(Frame), NEW gs \in Seq(Frame), fs # <<>>,
           NEW map \in Seq(Entry), NEW ext \in Seq(Entry), Len(ext) >= Len(map),
           NEW new, NEW m, Joins(fs, gs, map, new, m), Stacked(fs, map)
    PROVE  Stacked(gs, ext)
  <1>1. /\ Len(fs) \in Nat \ {0} /\ Len(map) \in Nat /\ Len(ext) \in Nat
        /\ m \in Nat \ {0} /\ Len(gs) = m /\ m <= Len(fs) + 1
    BY LenProperties, EmptySeq DEF Joins
  <1>2. \A n \in 1..Len(fs) : fs[n].base \in Nat
    BY FrameFields, ElementOfSeq
  <1>3. gs[1].kind = "block"
    BY <1>1 DEF Stacked, Joins
  <1>4. \A n \in 1..m : n \in 1..Len(fs) \/ (n = m /\ m = Len(fs) + 1)
    BY <1>1
  <1>5. ASSUME NEW n \in 1..m
        PROVE  /\ gs[n].base <= Len(ext)
               /\ \A k \in 1..m : n < k => gs[n].base <= gs[k].base
               /\ gs[n].kind = "op" => gs[n].defs = {}
               /\ gs[n].kind = "block" /\ n > 1 /\ gs[n].ops = 0 => gs[n].ended
    <2>1. CASE n \in 1..Len(fs)
      <3>1. fs[n].base <= Len(map) /\ gs[n].base = fs[n].base /\ gs[n].base \in Nat
        BY <1>1, <1>2, <2>1 DEF Stacked, Joins
      <3>2. ASSUME NEW k \in 1..m, n < k PROVE gs[n].base <= gs[k].base
        <4>1. CASE k \in 1..Len(fs)
          BY <1>1, <2>1, <3>1, <3>2, <4>1 DEF Stacked, Joins
        <4>2. CASE k = m /\ m = Len(fs) + 1
          BY <1>1, <3>1, <4>2 DEF Joins
        <4> QED BY <1>4, <4>1, <4>2
      <3>3. gs[n].kind = "op" => gs[n].defs = {}
        <4>1. CASE n = m
          BY <4>1 DEF Joins
        <4>2. CASE n # m
          <5>1. n < m /\ n <= Len(fs)
            BY <1>1, <2>1, <4>2
          <5> QED BY <2>1, <5>1 DEF Stacked, Joins
        <4> QED BY <4>1, <4>2
      <3>4. gs[n].kind = "block" /\ n > 1 /\ gs[n].ops = 0 => gs[n].ended
        BY <1>1, <2>1 DEF Joins
      <3> QED BY <1>1, <3>1, <3>2, <3>3, <3>4
    <2>2. CASE n = m /\ m = Len(fs) + 1
      BY <1>1, <2>2 DEF Joins
    <2> QED BY <1>4, <2>1, <2>2
  <1> QED BY <1>1, <1>3, <1>5 DEF Stacked

LEMMA ExtendNested ==
    ASSUME NEW fs \in Seq(Frame), NEW gs \in Seq(Frame), NEW map, NEW new,
           NEW m, Joins(fs, gs, map, new, m), Nested(fs)
    PROVE  Nested(gs)
  <1>1. /\ Len(fs) \in Nat /\ m \in Nat \ {0} /\ Len(gs) = m /\ m <= Len(fs) + 1
        /\ gs[m].kind = "block"
    BY LenProperties DEF Joins
  <1>2. \A n \in 1..m : n <= Len(fs) => gs[n].kind = fs[n].kind
    BY DEF Joins
  <1> SUFFICES ASSUME NEW n \in 1..m, NEW k \in 1..m, k = n + 1, gs[k].kind = "op"
               PROVE  gs[n].kind = "block"
    BY <1>1 DEF Nested
  <1>3. k # m
    BY <1>1
  <1>4. n \in 1..Len(fs) /\ k \in 1..Len(fs) /\ n <= Len(fs) /\ k <= Len(fs)
    BY <1>1, <1>3
  <1> QED BY <1>2, <1>4 DEF Nested

LEMMA ExtendHolds ==
    ASSUME NEW fs \in Seq(Frame), NEW gs \in Seq(Frame), fs # <<>>,
           NEW map \in Seq(Entry), NEW ext \in Seq(Entry), NEW f, NEW count, NEW new,
           Extends(f, map, ext, count, new),
           NEW m, Joins(fs, gs, map, new, m), HoldsScope(fs, map)
    PROVE  HoldsScope(gs, ext)
  <1>1. /\ Len(fs) \in Nat \ {0} /\ m \in Nat \ {0} /\ Len(gs) = m /\ m <= Len(fs) + 1
    BY LenProperties, EmptySeq DEF Joins
  <1>2. new \subseteq gs[m].defs
    BY <1>1 DEF Joins
  <1>3. ASSUME NEW n \in 1..Len(fs), n <= m PROVE fs[n].defs \subseteq gs[n].defs
    <2>1. CASE n = m
      BY <1>1, <2>1 DEF Joins
    <2>2. CASE n # m
      BY <1>1, <1>3, <2>2 DEF Joins
    <2> QED BY <2>1, <2>2
  <1>4. ASSUME NEW i \in 1..Len(ext)
        PROVE  \E n \in 1..m : ext[i].value \in gs[n].defs
    <2>1. CASE i \in 1..Len(map) /\ ext[i].value = map[i].value
      <3>1. PICK n \in 1..Len(fs) : map[i].value \in fs[n].defs
        BY <2>1 DEF HoldsScope
      <3>2. n \in 1..m /\ n <= m
        BY <1>1, <3>1 DEF Joins
      <3> QED BY <1>3, <2>1, <3>1, <3>2
    <2>2. CASE ext[i].value \in new
      BY <1>1, <1>2, <2>2
    <2> QED BY <2>1, <2>2 DEF Extends
  <1>5. ASSUME NEW n \in 1..m, NEW v \in gs[n].defs
        PROVE  \E i \in 1..Len(ext) : v = ext[i].value
    <2>1. v \in new \/ (n \in 1..Len(fs) /\ v \in fs[n].defs)
      <3>1. CASE n = m
        BY <1>1, <3>1 DEF Joins
      <3>2. CASE n # m
        BY <1>1, <3>2 DEF Joins
      <3> QED BY <3>1, <3>2
    <2>2. CASE v \in new
      BY <2>2 DEF Extends
    <2>3. CASE n \in 1..Len(fs) /\ v \in fs[n].defs
      <3>1. PICK i \in 1..Len(map) : v = map[i].value
        BY <2>3 DEF HoldsScope
      <3> QED BY <3>1 DEF Extends
    <2> QED BY <2>1, <2>2, <2>3
  <1> QED BY <1>1, <1>4, <1>5 DEF HoldsScope

LEMMA ExtendLayered ==
    ASSUME NEW fs \in Seq(Frame), NEW gs \in Seq(Frame), fs # <<>>,
           NEW map \in Seq(Entry), NEW ext \in Seq(Entry), NEW f, NEW count, NEW new,
           Extends(f, map, ext, count, new),
           NEW m, Joins(fs, gs, map, new, m), HoldsScope(fs, map), Stacked(fs, map),
           \A i \in 1..Len(map) : map[i].value \notin new, Layered(fs, map)
    PROVE  Layered(gs, ext)
  <1>1. /\ Len(fs) \in Nat \ {0} /\ m \in Nat \ {0} /\ Len(gs) = m /\ m <= Len(fs) + 1
        /\ Len(map) \in Nat /\ Len(ext) \in Nat
    BY LenProperties, EmptySeq DEF Joins
  <1>2. ASSUME NEW n \in 1..m, NEW v \in gs[n].defs
        PROVE  \/ v \in new /\ n = m
               \/ n \in 1..Len(fs) /\ v \in fs[n].defs
    <2>1. CASE n = m
      BY <1>1, <2>1 DEF Joins
    <2>2. CASE n # m
      BY <1>1, <2>2 DEF Joins
    <2> QED BY <2>1, <2>2
  <1>3. \A k \in 1..m : k \in 1..Len(fs) \/ (k = m /\ m = Len(fs) + 1)
    BY <1>1
  <1>4. \A n \in 1..Len(fs) : \A v \in fs[n].defs : v \notin new
    BY DEF HoldsScope
  <1>5. \A k \in 1..m : k <= Len(fs) => gs[k].base = fs[k].base
    BY <1>1 DEF Joins
  <1>6. m = Len(fs) + 1 => gs[m].base = Len(map)
    BY <1>1 DEF Joins
  <1> SUFFICES ASSUME NEW n \in 1..m, NEW i \in 1..Len(ext), ext[i].value \in gs[n].defs
               PROVE  gs[n].base < i /\ \A k \in 1..m : n < k => i <= gs[k].base
    BY <1>1 DEF Layered
  <1>7. CASE i \in 1..Len(map) /\ ext[i].value = map[i].value
    <2>1. n \in 1..Len(fs) /\ map[i].value \in fs[n].defs
      BY <1>2, <1>7
    <2>2. fs[n].base < i /\ \A k \in 1..Len(fs) : n < k => i <= fs[k].base
      BY <1>7, <2>1 DEF Layered
    <2>3. ASSUME NEW k \in 1..m, n < k PROVE i <= gs[k].base
      <3>1. CASE k \in 1..Len(fs)
        BY <1>1, <1>5, <2>2, <2>3, <3>1, SMTT(20)
      <3>2. CASE k = m /\ m = Len(fs) + 1
        BY <1>6, <1>7, <3>2
      <3> QED BY <1>3, <3>1, <3>2
    <2> QED BY <1>1, <1>5, <2>1, <2>2, <2>3
  <1>8. CASE Len(map) < i /\ ext[i].value \in new
    <2>1. n = m
      BY <1>2, <1>4, <1>8
    <2>2. gs[m].base <= Len(map) /\ gs[m].base \in Nat
      <3>1. CASE m \in 1..Len(fs)
        <4>1. fs[m].base <= Len(map) /\ fs[m].base \in Nat
          BY <3>1, FrameFields, ElementOfSeq DEF Stacked
        <4> QED BY <1>1, <1>5, <3>1, <4>1
      <3>2. CASE m = Len(fs) + 1
        BY <1>1, <1>6, <3>2
      <3> QED BY <1>1, <1>3, <3>1, <3>2
    <2> QED BY <1>1, <1>8, <2>1, <2>2
  <1> QED BY <1>7, <1>8 DEF Extends

LEMMA ExtendScope ==
    ASSUME NEW f, NEW fs \in Seq(Frame), NEW gs \in Seq(Frame), fs # <<>>,
           NEW map \in Seq(Entry), NEW ext \in Seq(Entry),
           NEW count \in Nat, NEW more \in Nat, NEW made1 \in Nat, made1 >= count + more,
           NEW new, new = NewValues(f, count, more),
           Scoped(f, fs, map, count), NEW m, Joins(fs, gs, map, new, m),
           Len(ext) = Len(map) + more,
           \A i \in 1..Len(map) : ext[i] = map[i],
           \A k \in 1..more : ext[Len(map) + k].value = <<f, count + k>>
    PROVE  Scoped(f, gs, ext, made1)
  <1>1. Len(map) \in Nat /\ Len(ext) >= Len(map)
    BY LenProperties
  <1>2. Extends(f, map, ext, count, new)
    BY <1>1, ExtendFacts
  <1>3. Distinct(f, ext, made1) /\ \A i \in 1..Len(map) : map[i].value \notin new
    BY <1>2, ExtendDistinct DEF Scoped
  <1>4. Stacked(gs, ext)
    BY <1>1, ExtendStacked DEF Scoped
  <1>5. HoldsScope(gs, ext)
    BY <1>2, ExtendHolds DEF Scoped
  <1>6. Layered(gs, ext)
    BY <1>2, <1>3, ExtendLayered DEF Scoped
  <1>7. Nested(gs)
    BY ExtendNested DEF Scoped
  <1> QED BY <1>3, <1>4, <1>5, <1>6, <1>7 DEF Scoped

-----------------------------------------------------------------------------
(* The steps of the writer.                                                *)

LEMMA WritingFacts ==
    ASSUME WriterTypes, WriterInv, frames # <<>>
    PROVE  /\ Writing \in 1..MaxFunctions
           /\ Writing \in Nat \ {0}
           /\ valueIndexMap \in Seq(Entry) /\ Len(valueIndexMap) \in Nat
           /\ DOMAIN valueIndexMap = 1..Len(valueIndexMap)
           /\ Scoped(Writing, frames, valueIndexMap, made)
           /\ nextValueIndex = Len(valueIndexMap)
  BY LenProperties, BoundsAssumption
     DEF WriterTypes, WriterInv, TableBounded, Numbered, Writing, Entry

(* The values in scope are those of the map, and each has an index.        *)
LEMMA VisibleFacts ==
    ASSUME WriterTypes, WriterInv, frames # <<>>
    PROVE  /\ \A v : v \in Visible <=> \E i \in 1..Len(valueIndexMap) : v = valueIndexMap[i].value
           /\ Visible \subseteq Value
           /\ \A v \in Visible :
                 /\ Lookup(v) \in Nat /\ Lookup(v) < Len(valueIndexMap)
                 /\ valueIndexMap[Lookup(v) + 1].value = v
  <1>1. /\ frames \in Seq(Frame) /\ DOMAIN frames = 1..Len(frames)
        /\ HoldsScope(frames, valueIndexMap)
        /\ valueIndexMap \in Seq(Entry) /\ Len(valueIndexMap) \in Nat
        /\ DOMAIN valueIndexMap = 1..Len(valueIndexMap)
    BY WritingFacts, LenProperties DEF WriterTypes, Scoped
  <1> DEFINE D == Len(frames)
             N == Len(valueIndexMap)
  <1>a. /\ \A i \in 1..N : \E n \in 1..D : valueIndexMap[i].value \in frames[n].defs
        /\ \A n \in 1..D : \A v \in frames[n].defs : \E i \in 1..N : v = valueIndexMap[i].value
    BY <1>1 DEF HoldsScope
  <1>b. Visible = UNION {frames[n].defs : n \in 1..D}
    BY <1>1 DEF Visible
  <1> HIDE DEF D, N
  <1>2. ASSUME NEW v
        PROVE  v \in Visible <=> \E i \in 1..N : v = valueIndexMap[i].value
    <2>1. ASSUME v \in Visible PROVE \E i \in 1..N : v = valueIndexMap[i].value
      <3>1. PICK n \in 1..D : v \in frames[n].defs
        BY <1>b, <2>1
      <3> QED BY <1>a, <3>1
    <2>2. ASSUME NEW i \in 1..N, v = valueIndexMap[i].value PROVE v \in Visible
      <3>1. PICK n \in 1..D : v \in frames[n].defs
        BY <1>a, <2>2
      <3> QED BY <1>b, <3>1
    <2> QED BY <2>1, <2>2
  <1> USE DEF N
  <1>3. \A i \in 1..Len(valueIndexMap) : valueIndexMap[i].value \in Value
    <2> SUFFICES ASSUME NEW i \in 1..Len(valueIndexMap) PROVE valueIndexMap[i].value \in Value
      OBVIOUS
    <2>1. valueIndexMap[i] \in Entry
      BY <1>1, ElementOfSeq
    <2> QED BY <2>1 DEF Entry
  <1>4. ASSUME NEW v \in Visible
        PROVE  /\ Lookup(v) \in Nat /\ Lookup(v) < Len(valueIndexMap)
               /\ valueIndexMap[Lookup(v) + 1].value = v
    <2>1. IndicesOf(v) # {}
      BY <1>1, <1>2 DEF IndicesOf
    <2>2. PICK n \in IndicesOf(v) : Lookup(v) = valueIndexMap[n].index
      BY <2>1 DEF Lookup
    <2>3. n \in 1..Len(valueIndexMap) /\ valueIndexMap[n].value = v
      BY <1>1, <2>2 DEF IndicesOf
    <2>4. valueIndexMap[n].index = n - 1
      BY <1>1, <2>3 DEF WriterInv, Numbered
    <2>5. n - 1 \in Nat /\ n - 1 < Len(valueIndexMap) /\ n - 1 + 1 = n
      BY <1>1, <2>3
    <2> QED BY <2>2, <2>3, <2>4, <2>5
  <1> QED BY <1>2, <1>3, <1>4

(* valueIndexMap[v] = nextValueIndex++ for the next values.                *)
LEMMA NumberFacts ==
    ASSUME WriterTypes, WriterInv, frames # <<>>, NEW more \in Nat,
           Number(Fresh(Writing, made, more))
    PROVE  /\ valueIndexMap' \in Seq(Entry)
           /\ Len(valueIndexMap') = Len(valueIndexMap) + more
           /\ \A i \in 1..Len(valueIndexMap) : valueIndexMap'[i] = valueIndexMap[i]
           /\ \A k \in 1..more :
                 valueIndexMap'[Len(valueIndexMap) + k].value = <<Writing, made + k>>
           /\ Numbered'
           /\ nextValueIndex' \in Nat
  <1> DEFINE fresh == Fresh(Writing, made, more)
             N == Len(valueIndexMap)
  <1>1. /\ Writing \in 1..MaxFunctions /\ made \in Nat
        /\ valueIndexMap \in Seq(Entry) /\ N \in Nat /\ DOMAIN valueIndexMap = 1..N
        /\ nextValueIndex = N
        /\ \A i \in 1..N : valueIndexMap[i].index = i - 1
    BY WritingFacts DEF WriterTypes, WriterInv, Numbered
  <1>2. /\ fresh \in Seq(Value) /\ Len(fresh) = more /\ DOMAIN fresh = 1..more
        /\ \A k \in 1..more : fresh[k] = <<Writing, made + k>> /\ fresh[k] \in Value
    <2>1. /\ fresh \in Seq(Value) /\ Len(fresh) = more /\ DOMAIN fresh = 1..more
          /\ \A k \in 1..more : fresh[k] = <<Writing, made + k>>
      <3>1. Writing \in Nat /\ Writing \in 1..MaxFunctions /\ made \in Nat /\ more \in Nat
        BY <1>1
      <3> QED BY <3>1, FreshFacts
    <2> HIDE DEF fresh
    <2> QED BY <2>1, ElementOfSeq
  <1> HIDE DEF fresh
  <1> DEFINE es == Entries(fresh)
  <1>3. es = [k \in 1..more |-> [value |-> fresh[k], index |-> N + k - 1]]
    BY <1>1, <1>2 DEF Entries
  <1>4. \A k \in 1..more : [value |-> fresh[k], index |-> N + k - 1] \in Entry
    BY <1>1, <1>2 DEF Entry
  <1>5. es \in [1..more -> Entry]
    BY <1>3, <1>4
  <1>6. es \in Seq(Entry)
    BY <1>5, SeqDef
  <1>7. Len(es) = more
    BY <1>5, <1>6, LenProperties
  <1>8. \A k \in 1..more : es[k].value = fresh[k] /\ es[k].index = N + k - 1
    BY <1>3
  <1> HIDE DEF es
  <1>9. valueIndexMap' = valueIndexMap \o es /\ nextValueIndex' = N + more
    BY <1>1, <1>2 DEF Number, fresh, es
  <1>10. /\ valueIndexMap' \in Seq(Entry)
         /\ Len(valueIndexMap') = N + more
         /\ \A i \in 1..N + more :
               valueIndexMap'[i] = IF i <= N THEN valueIndexMap[i] ELSE es[i - N]
    BY <1>1, <1>6, <1>7, <1>9, ConcatProperties
  <1>11. \A i \in 1..N : i \in 1..N + more /\ i <= N
    BY <1>1
  <1>12. \A k \in 1..more : N + k \in 1..N + more /\ ~(N + k <= N) /\ N + k - N = k
    BY <1>1
  <1>13. \A i \in 1..N + more : i <= N \/ (i - N \in 1..more /\ i = N + (i - N))
    BY <1>1
  <1>14. \A i \in 1..N : valueIndexMap'[i] = valueIndexMap[i]
    BY <1>10, <1>11
  <1>15. \A k \in 1..more : valueIndexMap'[N + k] = es[k]
    BY <1>10, <1>12
  <1>16. \A i \in 1..N + more : valueIndexMap'[i].index = i - 1
    <2> SUFFICES ASSUME NEW i \in 1..N + more PROVE valueIndexMap'[i].index = i - 1
      OBVIOUS
    <2>1. CASE i <= N
      BY <1>1, <1>14, <2>1
    <2>2. CASE ~(i <= N)
      <3> DEFINE k == i - N
      <3>1. k \in 1..more /\ i = N + k
        BY <1>13, <2>2
      <3> HIDE DEF k
      <3>2. valueIndexMap'[i].index = N + k - 1
        BY <1>8, <1>15, <3>1
      <3> QED BY <1>1, <3>1, <3>2
    <2> QED BY <2>1, <2>2
  <1>17. DOMAIN valueIndexMap' = 1..N + more
    BY <1>10, LenProperties
  <1>18. Numbered'
    BY <1>9, <1>10, <1>16, <1>17 DEF Numbered
  <1>19. nextValueIndex' \in Nat
    BY <1>1, <1>9
  <1> QED BY <1>2, <1>8, <1>10, <1>14, <1>15, <1>18, <1>19, Zenon

LEMMA NewFacts ==
    ASSUME NEW f \in Nat, f \in 1..MaxFunctions, NEW count \in Nat, NEW more \in Nat
    PROVE  ToSet(Fresh(f, count, more)) = NewValues(f, count, more)
  <1> DEFINE s == Fresh(f, count, more)
  <1>1. DOMAIN s = 1..more /\ \A k \in 1..more : s[k] = <<f, count + k>>
    BY FreshFacts
  <1> HIDE DEF s
  <1>2. {s[k] : k \in 1..more} = {<<f, count + k>> : k \in 1..more}
    BY <1>1
  <1>3. ToSet(s) = {s[k] : k \in 1..more}
    BY <1>1 DEF ToSet
  <1> QED BY <1>2, <1>3 DEF NewValues, s

(* The entry block, with the arguments of the function.                    *)
LEMMA EntryScope ==
    ASSUME NEW f, NEW args \in Nat, NEW map \in Seq(Entry), Len(map) = args,
           \A k \in 1..args : map[k].value = <<f, k>>,
           NEW gs \in Seq(Frame), Len(gs) = 1,
           gs[1].kind = "block", gs[1].base = 0, gs[1].defs = NewValues(f, 0, args)
    PROVE  Scoped(f, gs, map, args)
  <1>1. Stacked(gs, map)
    BY DEF Stacked
  <1>2. Distinct(f, map, args)
    <2>1. \A i \in 1..args : map[i].value \in ValuesOf(f, args)
      BY DEF ValuesOf
    <2>2. ASSUME NEW i \in 1..args, NEW j \in 1..args, map[i].value = map[j].value
          PROVE  i = j
      BY <2>2
    <2> QED BY <2>1, <2>2 DEF Distinct
  <1>3. HoldsScope(gs, map)
    <2>1. ASSUME NEW i \in 1..args PROVE map[i].value \in gs[1].defs
      <3>1. map[i].value = <<f, 0 + i>>
        OBVIOUS
      <3> QED BY <3>1 DEF NewValues
    <2>2. ASSUME NEW v \in gs[1].defs PROVE \E i \in 1..args : v = map[i].value
      <3>1. PICK k \in 1..args : v = <<f, 0 + k>>
        BY DEF NewValues
      <3> QED BY <3>1
    <2> QED BY <2>1, <2>2 DEF HoldsScope
  <1>4. Layered(gs, map)
    BY DEF Layered
  <1>5. Nested(gs)
    BY DEF Nested
  <1> QED BY <1>1, <1>2, <1>3, <1>4, <1>5 DEF Scoped

(* writeFunctionBody.                                                      *)
LEMMA StartFunctionKeeps ==
    ASSUME WriterTypes, WriterInv, NEW args \in Nat, StartFunction(args)
    PROVE  /\ WriterTypes' /\ WriterInv' /\ frames' # <<>>
           /\ \A k \in 1..args : valueIndexMap'[k].value = <<Writing, k>>
           /\ Len(valueIndexMap') = args
           /\ Len(frames') = 1 /\ frames'[1] = BlockFrame(0, 0, ToSet(Fresh(Writing, 0, args)))
  <1> DEFINE fresh == Fresh(Writing, 0, args)
             b == BlockFrame(0, 0, ToSet(fresh))
  <1>1. Len(table) \in Nat /\ Len(table) < MaxFunctions /\ Writing \in 1..MaxFunctions
    BY LenProperties, BoundsAssumption DEF WriterTypes, StartFunction, Writing
  <1>2. /\ fresh \in Seq(Value) /\ DOMAIN fresh = 1..args /\ ToSet(fresh) \in SUBSET Value
        /\ \A k \in 1..args : fresh[k] = <<Writing, 0 + k>> /\ fresh[k] \in Value
        /\ ToSet(fresh) = NewValues(Writing, 0, args)
    <2>1. /\ fresh \in Seq(Value) /\ Len(fresh) = args /\ DOMAIN fresh = 1..args
          /\ \A k \in 1..args : fresh[k] = <<Writing, 0 + k>>
          /\ ToSet(fresh) \subseteq Value
      <3>1. Writing \in Nat /\ Writing \in 1..MaxFunctions /\ args \in Nat /\ 0 \in Nat
        BY <1>1
      <3> QED BY <3>1, FreshFacts
    <2>2. ToSet(fresh) = NewValues(Writing, 0, args)
      BY <1>1, NewFacts
    <2> HIDE DEF fresh
    <2> QED BY <2>1, <2>2, ElementOfSeq
  <1> HIDE DEF fresh
  <1>3. /\ b \in Frame /\ b.kind = "block" /\ b.base = 0 /\ b.defs = ToSet(fresh)
    <2>1. ToSet(fresh) \subseteq Value
      BY <1>2
    <2> QED BY <2>1, BlockFrameFacts
  <1>4. frames' = <<b>> /\ valueIndexMap' = [k \in 1..args |-> [value |-> fresh[k], index |-> k - 1]]
    BY DEF StartFunction, fresh
  <1> HIDE DEF b
  <1>5. \A k \in 1..args : [value |-> fresh[k], index |-> k - 1] \in Entry
    BY <1>2 DEF Entry
  <1>6. valueIndexMap' \in [1..args -> Entry]
    BY <1>4, <1>5
  <1>7. /\ valueIndexMap' \in Seq(Entry)
        /\ Len(valueIndexMap') = args /\ DOMAIN valueIndexMap' = 1..args
    <2>1. valueIndexMap' \in Seq(Entry)
      BY <1>6, SeqDef
    <2> QED BY <1>6, <2>1, LenProperties
  <1>8. \A k \in 1..args : valueIndexMap'[k].value = <<Writing, k>> /\ valueIndexMap'[k].index = k - 1
    <2>1. \A k \in 1..args : fresh[k] = <<Writing, k>>
      BY <1>2
    <2> QED BY <1>4, <2>1
  <1>9. frames' \in Seq(Frame) /\ Len(frames') = 1 /\ frames'[1] = b /\ frames' # <<>>
    BY <1>3, <1>4
  <1>10. WriterTypes'
    BY <1>1, <1>7, <1>9 DEF WriterTypes, StartFunction, Entry
  <1>11. Numbered'
    BY <1>7, <1>8 DEF Numbered, StartFunction
  <1>12. TableBounded'
    BY <1>1 DEF WriterInv, TableBounded, StartFunction
  <1>13. Scoped(Writing, frames', valueIndexMap', args)
    BY <1>2, <1>3, <1>7, <1>8, <1>9, EntryScope
  <1>18. Writing' = Writing /\ made' = args
    BY DEF StartFunction, Writing
  <1>19. WriterInv'
    BY <1>11, <1>12, <1>13, <1>18 DEF WriterInv
  <1> QED BY <1>7, <1>8, <1>9, <1>10, <1>19 DEF b, fresh

(* The calls of the writer, in an action that does not change the scope.   *)
LEMMA ScopeKept ==
    ASSUME WriterTypes, WriterInv, frames # <<>>,
           UNCHANGED <<table, made, valueIndexMap, nextValueIndex>>,
           frames' \in Seq(Frame), frames' # <<>>,
           Scoped(Writing, frames', valueIndexMap, made)
    PROVE  WriterInv'
  <1>1. Writing' = Writing
    BY DEF Writing
  <1> QED BY <1>1 DEF WriterInv, Numbered, TableBounded

(* writeOperation up to the regions.                                       *)
LEMMA WriteOpStack ==
    ASSUME NEW shape, NEW operands, NEW terminator, WriteOp(shape, operands, terminator)
    PROVE  /\ frames # <<>> /\ Top(frames).kind = "block"
           /\ ~InBody(frames) => Top(frames).ops > 0 /\ (terminator <=> Top(frames).ops = 1)
           /\ BeginsOp(frames, frames', shape, nextValueIndex, terminator)
  <1>1. frames' = Append(SetTop(frames, NextOp(Top(frames), ~InBody(frames), terminator)),
                         OpFrame(shape, nextValueIndex))
    BY Zenon DEF WriteOp, NextOp
  <1>2. /\ frames # <<>> /\ Top(frames).kind = "block"
        /\ ~InBody(frames) => Top(frames).ops > 0 /\ (terminator <=> Top(frames).ops = 1)
    BY Zenon DEF WriteOp, OnTop
  <1> QED BY <1>1, <1>2 DEF BeginsOp

LEMMA TerminatorShape == Terminator \in Shape /\ Terminator.regions = 0
  BY DEF Terminator, Shape

LEMMA OperandsFacts ==
    ASSUME WriterTypes, WriterInv, frames # <<>>, NEW operands \in Operands
    PROVE  /\ operands \in Seq(Value) /\ operands \in Seq(Visible)
           /\ [k \in DOMAIN operands |-> Lookup(operands[k])] \in Seq(Nat)
           /\ DOMAIN [k \in DOMAIN operands |-> Lookup(operands[k])] = DOMAIN operands
           /\ \A k \in DOMAIN operands :
                 /\ Lookup(operands[k]) \in Nat /\ Lookup(operands[k]) < Len(valueIndexMap)
                 /\ valueIndexMap[Lookup(operands[k]) + 1].value = operands[k]
  <1>1. PICK n \in 0..MaxOperands : operands \in [1..n -> Visible]
    BY DEF Operands
  <1>2. n \in Nat
    BY <1>1, BoundsAssumption
  <1>3. operands \in Seq(Visible)
    BY <1>1, <1>2, SeqDef
  <1>4. operands \in Seq(Value)
    BY <1>3, VisibleFacts, SeqMonotonic
  <1>5. DOMAIN operands = 1..n
    BY <1>1
  <1>6. \A k \in DOMAIN operands : operands[k] \in Visible
    BY <1>1, <1>5
  <1>7. \A k \in DOMAIN operands :
                 /\ Lookup(operands[k]) \in Nat /\ Lookup(operands[k]) < Len(valueIndexMap)
                 /\ valueIndexMap[Lookup(operands[k]) + 1].value = operands[k]
    BY <1>6, VisibleFacts
  <1> DEFINE looked == [k \in DOMAIN operands |-> Lookup(operands[k])]
  <1>8. looked \in [1..n -> Nat]
    BY <1>5, <1>7
  <1>9. looked \in Seq(Nat)
    BY <1>2, <1>8, SeqDef
  <1> QED BY <1>3, <1>4, <1>7, <1>9

(* left and the token, apart from the calls.                               *)
LEMMA WriteOpTypes ==
    ASSUME WriterTypes, WriterInv, NEW shape \in Shape, NEW operands \in Operands,
           NEW terminator \in BOOLEAN, WriteOp(shape, operands, terminator)
    PROVE  /\ left' \in Nat
           /\ body' \in Seq(Token) /\ uses' \in Seq(Seq(Value))
  <1>1. frames # <<>>
    BY WriteOpStack
  <1>2. left' \in Nat
    <2>1. left' = left \/ left' = left - 1
      BY Zenon DEF WriteOp
    <2>2. left' >= (IF shape.regions = 0 THEN 0 ELSE 1)
      BY Zenon DEF WriteOp
    <2> QED BY <2>1, <2>2 DEF WriterTypes
  <1> DEFINE looked == [k \in DOMAIN operands |-> Lookup(operands[k])]
             token == [kind |-> "op", shape |-> shape, operands |-> looked,
                       terminator |-> terminator]
  <1>3. looked \in Seq(Nat)
    BY <1>1, OperandsFacts
  <1>4. body' = Append(body, token) /\ uses' = Append(uses, operands)
    BY Zenon DEF WriteOp
  <1> HIDE DEF looked
  <1>5. token \in [kind : {"op"}, shape : Shape, operands : Seq(Nat), terminator : BOOLEAN]
    BY <1>3
  <1>6. token \in Token
    BY <1>5 DEF Token
  <1> HIDE DEF token
  <1>7. body' \in Seq(Token)
    BY <1>4, <1>6, AppendProperties DEF WriterTypes
  <1>8. operands \in Seq(Value)
    BY <1>1, OperandsFacts
  <1>9. uses' \in Seq(Seq(Value))
    BY <1>4, <1>8, AppendProperties DEF WriterTypes
  <1> QED BY <1>2, <1>7, <1>9

LEMMA WriteOpKeeps ==
    ASSUME WriterTypes, WriterInv, NEW shape \in Shape, NEW operands \in Operands,
           NEW terminator \in BOOLEAN, WriteOp(shape, operands, terminator)
    PROVE  WriterTypes' /\ WriterInv'
  <1>1. /\ frames # <<>> /\ frames \in Seq(Frame) /\ Top(frames).kind = "block"
        /\ ~InBody(frames) => Top(frames).ops > 0 /\ (terminator <=> Top(frames).ops = 1)
        /\ BeginsOp(frames, frames', shape, nextValueIndex, terminator)
        /\ nextValueIndex \in Nat
    BY WriteOpStack DEF WriterTypes
  <1> DEFINE L == Len(frames)
  <1>2. /\ frames' \in Seq(Frame) /\ frames' # <<>> /\ Len(frames') = L + 1
        /\ L \in Nat \ {0} /\ Top(frames) = frames[L]
        /\ \A n \in 1..L - 1 : frames'[n] = frames[n]
        /\ frames'[L].kind = frames[L].kind /\ frames'[L].base = frames[L].base
        /\ frames'[L].defs = frames[L].defs
        /\ frames'[L].ops = (IF InBody(frames) THEN frames[L].ops ELSE frames[L].ops - 1)
        /\ (frames'[L].ended <=> terminator)
        /\ frames'[L + 1].kind = "op" /\ frames'[L + 1].base = nextValueIndex
        /\ frames'[L + 1].defs = {}
    <2>1. OpBegun(frames, frames', shape, nextValueIndex, terminator)
      BY <1>1, BeginsOpFacts
    <2> QED BY <2>1 DEF OpBegun
  <1>3. UNCHANGED <<phase, table, params, made, valueIndexMap, nextValueIndex>>
    BY DEF WriteOp
  <1>4. WriterTypes'
    BY <1>2, <1>3, WriteOpTypes DEF WriterTypes
  <1>5. /\ Scoped(Writing, frames, valueIndexMap, made)
        /\ valueIndexMap \in Seq(Entry) /\ nextValueIndex = Len(valueIndexMap)
    BY <1>1, WritingFacts
  <1>6. \A n \in 1..L :
           n > 1 /\ frames[n].kind = "block" /\ frames[n].ops = 0 => frames[n].ended
    BY <1>5 DEF Scoped, Stacked
  <1>7. frames[L].ops \in Nat
    BY <1>1, <1>2, FrameFields, TopOfStack
  <1>8. ASSUME NEW n \in 1..L
        PROVE  /\ frames'[n].kind = frames[n].kind /\ frames'[n].base = frames[n].base
               /\ frames'[n].defs = frames[n].defs
               /\ n > 1 /\ frames'[n].kind = "block" /\ frames'[n].ops = 0 => frames'[n].ended
    <2>1. CASE n < L
      BY <1>2, <1>6, <2>1
    <2>2. CASE n = L
      <3>1. n > 1 => ~InBody(frames)
        BY <2>2 DEF InBody
      <3> QED BY <1>1, <1>2, <1>7, <2>2, <3>1
    <2> QED BY <1>2, <2>1, <2>2
  <1> HIDE DEF L
  <1>9. /\ Len(frames') = L + 1
        /\ frames[L].kind = "block"
        /\ frames'[L + 1].kind = "op" /\ frames'[L + 1].base = Len(valueIndexMap)
        /\ frames'[L + 1].defs = {}
    BY <1>1, <1>2, <1>5
  <1>10. Scoped(Writing, frames', valueIndexMap, made)
    BY <1>1, <1>2, <1>5, <1>8, <1>9, SameScope, SMTT(20) DEF L
  <1> QED BY <1>1, <1>2, <1>3, <1>4, <1>10, ScopeKept

(* writeRegion.                                                            *)
LEMMA WriteRegionStack ==
    ASSUME NEW blocks, WriteRegion(blocks)
    PROVE  /\ frames # <<>> /\ Top(frames).kind = "op"
           /\ Top(frames).regions > 0 /\ Top(frames).blocks = 0
           /\ BeginsRegion(frames, frames', blocks)
  <1>1. frames' = SetTop(frames, NextRegion(Top(frames), blocks))
    BY Zenon DEF WriteRegion, NextRegion
  <1>2. /\ frames # <<>> /\ Top(frames).kind = "op"
        /\ Top(frames).regions > 0 /\ Top(frames).blocks = 0
    BY DEF WriteRegion, OnTop
  <1> QED BY <1>1, <1>2 DEF BeginsRegion

LEMMA WriteRegionKeeps ==
    ASSUME WriterTypes, WriterInv, NEW blocks \in Nat, blocks \in 0..1, WriteRegion(blocks)
    PROVE  WriterTypes' /\ WriterInv'
  <1>1. /\ frames # <<>> /\ frames \in Seq(Frame) /\ Top(frames).kind = "op"
        /\ Top(frames).regions > 0
        /\ BeginsRegion(frames, frames', blocks)
    BY WriteRegionStack DEF WriterTypes
  <1> DEFINE L == Len(frames)
  <1>2. /\ frames' \in Seq(Frame) /\ frames' # <<>> /\ Len(frames') = L
        /\ L \in Nat \ {0} /\ Top(frames) = frames[L]
        /\ \A n \in 1..L - 1 : frames'[n] = frames[n]
        /\ frames'[L].kind = frames[L].kind /\ frames'[L].base = frames[L].base
        /\ frames'[L].defs = frames[L].defs
    <2>1. RegionBegun(frames, frames', blocks)
      BY <1>1, BeginsRegionFacts
    <2> QED BY <2>1 DEF RegionBegun
  <1> DEFINE token == [kind |-> "region", blocks |-> blocks]
  <1>3. /\ UNCHANGED <<phase, table, left, params, made, valueIndexMap, nextValueIndex, uses>>
        /\ body' = Append(body, token)
    BY DEF WriteRegion
  <1>4. token \in Token
    BY DEF Token
  <1> HIDE DEF token
  <1>5. body' \in Seq(Token)
    BY <1>3, <1>4, AppendProperties DEF WriterTypes
  <1>6. WriterTypes'
    BY <1>2, <1>3, <1>5 DEF WriterTypes
  <1>7. /\ Scoped(Writing, frames, valueIndexMap, made) /\ valueIndexMap \in Seq(Entry)
    BY <1>1, WritingFacts
  <1>8. \A n \in 1..L :
           n > 1 /\ frames[n].kind = "block" /\ frames[n].ops = 0 => frames[n].ended
    BY <1>7 DEF Scoped, Stacked
  <1>9. ASSUME NEW n \in 1..L
        PROVE  /\ frames'[n].kind = frames[n].kind /\ frames'[n].base = frames[n].base
               /\ frames'[n].defs = frames[n].defs
               /\ n > 1 /\ frames'[n].kind = "block" /\ frames'[n].ops = 0 => frames'[n].ended
    <2>1. CASE n < L
      BY <1>2, <1>8, <2>1
    <2>2. CASE n = L
      BY <1>1, <1>2, <2>2
    <2> QED BY <1>2, <2>1, <2>2
  <1> HIDE DEF L
  <1>10. Len(frames') = L /\ L \in Nat
    BY <1>2
  <1>11. Scoped(Writing, frames', valueIndexMap, made)
    BY <1>1, <1>2, <1>7, <1>9, <1>10, SameScope DEF L
  <1> QED BY <1>1, <1>2, <1>3, <1>6, <1>11, ScopeKept

(* An action that gives values to the map.                                 *)
LEMMA ScopeGrows ==
    ASSUME WriterTypes, WriterInv, frames # <<>>, NEW more \in Nat, NEW m,
           Number(Fresh(Writing, made, more)), UNCHANGED table,
           made' \in Nat, made' >= made + more,
           frames' \in Seq(Frame), frames' # <<>>,
           Joins(frames, frames', valueIndexMap, NewValues(Writing, made, more), m)
    PROVE  WriterInv'
  <1>1. /\ valueIndexMap' \in Seq(Entry)
        /\ Len(valueIndexMap') = Len(valueIndexMap) + more
        /\ \A i \in 1..Len(valueIndexMap) : valueIndexMap'[i] = valueIndexMap[i]
        /\ \A k \in 1..more :
                 valueIndexMap'[Len(valueIndexMap) + k].value = <<Writing, made + k>>
        /\ Numbered'
    BY NumberFacts
  <1>2. /\ Scoped(Writing, frames, valueIndexMap, made) /\ valueIndexMap \in Seq(Entry)
        /\ frames \in Seq(Frame) /\ made \in Nat
    BY WritingFacts DEF WriterTypes
  <1>3. PICK new : new = NewValues(Writing, made, more)
    OBVIOUS
  <1>4. Joins(frames, frames', valueIndexMap, new, m)
    BY <1>3
  <1>5. Scoped(Writing, frames', valueIndexMap', made')
    BY <1>1, <1>2, <1>3, <1>4, ExtendScope
  <1>6. Writing' = Writing /\ TableBounded'
    BY DEF Writing, WriterInv, TableBounded
  <1> QED BY <1>1, <1>5, <1>6 DEF WriterInv

(* writeBlock up to its operations.                                        *)
LEMMA WriteBlockStack ==
    ASSUME NEW args, NEW ops, WriteBlock(args, ops)
    PROVE  /\ frames # <<>> /\ Top(frames).kind = "op" /\ Top(frames).blocks > 0
           /\ BeginsBlock(frames, frames', ops, nextValueIndex, ToSet(Fresh(Writing, made, args)))
           /\ Number(Fresh(Writing, made, args))
  BY DEF WriteBlock, OnTop, BeginsBlock

LEMMA WriteBlockKeeps ==
    ASSUME WriterTypes, WriterInv, NEW args \in Nat, NEW ops \in Nat, ops # 0,
           WriteBlock(args, ops)
    PROVE  WriterTypes' /\ WriterInv'
  <1> DEFINE defs == ToSet(Fresh(Writing, made, args))
             L == Len(frames)
  <1>1. /\ frames # <<>> /\ frames \in Seq(Frame)
        /\ Top(frames).kind = "op" /\ Top(frames).blocks > 0
        /\ BeginsBlock(frames, frames', ops, nextValueIndex, defs)
        /\ Number(Fresh(Writing, made, args))
        /\ nextValueIndex \in Nat /\ made \in Nat
    BY WriteBlockStack DEF WriterTypes
  <1>2. /\ Writing \in Nat /\ Writing \in 1..MaxFunctions
        /\ Scoped(Writing, frames, valueIndexMap, made)
        /\ nextValueIndex = Len(valueIndexMap)
    BY <1>1, WritingFacts
  <1>a. Writing \in Nat /\ Writing \in 1..MaxFunctions /\ made \in Nat /\ args \in Nat
    BY <1>1, <1>2
  <1>b. defs = NewValues(Writing, made, args)
    BY <1>a, NewFacts
  <1>c. defs \subseteq Value
    BY <1>a, FreshFacts
  <1>3. defs = NewValues(Writing, made, args) /\ defs \subseteq Value
    BY <1>b, <1>c
  <1> HIDE DEF defs
  <1>4. /\ frames' \in Seq(Frame) /\ frames' # <<>> /\ Len(frames') = L + 1
        /\ L \in Nat \ {0} /\ Top(frames) = frames[L]
        /\ \A n \in 1..L - 1 : frames'[n] = frames[n]
        /\ frames'[L].kind = frames[L].kind /\ frames'[L].base = frames[L].base
        /\ frames'[L].defs = frames[L].defs
        /\ frames'[L + 1].kind = "block" /\ frames'[L + 1].ops = ops
        /\ frames'[L + 1].base = nextValueIndex
        /\ frames'[L + 1].defs = defs
    <2>1. PICK d : d = defs
      OBVIOUS
    <2>2. d \in SUBSET Value /\ BeginsBlock(frames, frames', ops, nextValueIndex, d)
      BY <1>1, <1>3, <2>1
    <2>3. BlockBegun(frames, frames', ops, nextValueIndex, d)
      BY <1>1, <2>2, BeginsBlockFacts
    <2> QED BY <2>1, <2>3 DEF BlockBegun
  <1> DEFINE token == [kind |-> "block", args |-> args, ops |-> ops]
  <1>5. /\ UNCHANGED <<phase, table, params, uses>>
        /\ body' = Append(body, token)
        /\ ops \in 1..left /\ left' = left - ops
        /\ made' = made + args
    BY DEF WriteBlock
  <1>6. token \in Token
    BY DEF Token
  <1> HIDE DEF token
  <1>7. body' \in Seq(Token)
    BY <1>5, <1>6, AppendProperties DEF WriterTypes
  <1>8. valueIndexMap' \in Seq(Entry) /\ nextValueIndex' \in Nat
    BY <1>1, NumberFacts
  <1>9. WriterTypes'
    BY <1>4, <1>5, <1>7, <1>8 DEF WriterTypes, Entry
  <1>10. \A n \in 1..L :
           n > 1 /\ frames[n].kind = "block" /\ frames[n].ops = 0 => frames[n].ended
    BY <1>2 DEF Scoped, Stacked
  <1>11. ASSUME NEW n \in 1..L
         PROVE  /\ frames'[n].kind = frames[n].kind /\ frames'[n].base = frames[n].base
                /\ frames'[n].defs = frames[n].defs
                /\ n > 1 /\ frames'[n].kind = "block" /\ frames'[n].ops = 0 => frames'[n].ended
    <2>1. CASE n < L
      BY <1>4, <1>10, <2>1
    <2>2. CASE n = L
      BY <1>1, <1>4, <2>2
    <2> QED BY <1>4, <2>1, <2>2
  <1> DEFINE m == L + 1
  <1>12. Joins(frames, frames', valueIndexMap, defs, m)
    <2>1. m \in Nat \ {0} /\ Len(frames') = m /\ m <= L + 1 /\ ~(m <= L) /\ L \in Nat
      BY <1>4
    <2>2. \A n \in 1..L : ~(n > m)
      BY <2>1
    <2>3. \A n \in 1..m : n <= L => n \in 1..L
      BY <2>1
    <2>4. \A n \in 1..m : n < m => n \in 1..L
      BY <2>1
    <2>5. /\ frames'[m].base = Len(valueIndexMap) /\ frames'[m].ops # 0
          /\ frames'[m].defs = defs /\ frames'[m].kind = "block"
      BY <1>2, <1>4
    <2> HIDE DEF m
    <2> QED BY <1>11, <2>1, <2>2, <2>3, <2>4, <2>5 DEF Joins
  <1> HIDE DEF m
  <1>13. made' \in Nat /\ made' >= made + args
    BY <1>1, <1>5
  <1> QED BY <1>1, <1>3, <1>4, <1>5, <1>9, <1>12, <1>13, ScopeGrows

(* A shorter prefix of a sequence.                                         *)
LEMMA PrefixOf ==
    ASSUME NEW S, NEW s \in Seq(S), NEW n \in Nat, n <= Len(s)
    PROVE  /\ SubSeq(s, 1, n) \in Seq(S)
           /\ Len(SubSeq(s, 1, n)) = n
           /\ \A i \in 1..n : SubSeq(s, 1, n)[i] = s[i]
  <1>1. Len(s) \in Nat /\ \A i \in 1..n : s[i] \in S
    BY LenProperties, ElementOfSeq
  <1>2. /\ SubSeq(s, 1, n) \in Seq(S)
        /\ Len(SubSeq(s, 1, n)) = IF 1 <= n THEN n - 1 + 1 ELSE 0
        /\ \A i \in 1..(n - 1 + 1) : SubSeq(s, 1, n)[i] = s[1 + i - 1]
    BY <1>1, SubSeqProperties
  <1>3. /\ (IF 1 <= n THEN n - 1 + 1 ELSE 0) = n
        /\ n - 1 + 1 = n
        /\ \A i \in 1..n : 1 + i - 1 = i
    OBVIOUS
  <1> QED BY <1>2, <1>3

(* The end of writeBlock: the map is cut at the index to go back to.       *)
LEMMA FinishBlockFacts ==
    ASSUME WriterTypes, WriterInv, FinishBlock
    PROVE  /\ frames # <<>> /\ Len(frames) \in Nat /\ Len(frames) > 1
           /\ frames[Len(frames)].kind = "block" /\ frames[Len(frames)].ops = 0
           /\ frames' = Pop(frames)
           /\ nextValueIndex' = frames[Len(frames)].base
           /\ nextValueIndex' \in Nat /\ nextValueIndex' <= Len(valueIndexMap)
           /\ valueIndexMap' = SubSeq(valueIndexMap, 1, nextValueIndex')
  <1>1. /\ frames # <<>> /\ Len(frames) # 1 /\ Top(frames).kind = "block" /\ Top(frames).ops = 0
        /\ frames' = Pop(frames)
        /\ valueIndexMap' =
             SubSeq(valueIndexMap, 1, Len(valueIndexMap) - (nextValueIndex - Top(frames).base))
        /\ nextValueIndex' = Top(frames).base
    BY DEF FinishBlock, OnTop, InBody
  <1>2. /\ Len(frames) \in Nat \ {0} /\ Len(frames) \in 1..Len(frames)
        /\ Top(frames) = frames[Len(frames)] /\ Top(frames) \in Frame
    BY <1>1, TopOfStack DEF WriterTypes
  <1>3. Top(frames).base \in Nat
    BY <1>2, FrameFields
  <1>4. /\ nextValueIndex = Len(valueIndexMap) /\ Len(valueIndexMap) \in Nat
        /\ Scoped(Writing, frames, valueIndexMap, made)
    BY <1>1, WritingFacts
  <1>5. frames[Len(frames)].base <= Len(valueIndexMap)
    BY <1>2, <1>4 DEF Scoped, Stacked
  <1>6. Len(valueIndexMap) - (nextValueIndex - Top(frames).base) = Top(frames).base
    BY <1>3, <1>4
  <1>7. valueIndexMap' = SubSeq(valueIndexMap, 1, nextValueIndex')
    BY <1>1, <1>6, Zenon
  <1>8. Len(frames) > 1
    <2>1. Len(frames) \in Nat \ {0} /\ Len(frames) # 1
      BY <1>1, <1>2, Zenon
    <2>2. \A n \in Nat \ {0} : n # 1 => n > 1
      OBVIOUS
    <2> QED BY <2>1, <2>2, Zenon
  <1>9. nextValueIndex' = frames[Len(frames)].base /\ nextValueIndex' \in Nat
    BY <1>1, <1>2, <1>3
  <1>10. nextValueIndex' <= Len(valueIndexMap)
    BY <1>5, <1>9
  <1>11. frames[Len(frames)].kind = "block" /\ frames[Len(frames)].ops = 0
    BY <1>1, <1>2
  <1> QED BY <1>1, <1>2, <1>7, <1>8, <1>9, <1>10, <1>11

LEMMA FinishBlockKeeps ==
    ASSUME WriterTypes, WriterInv, FinishBlock
    PROVE  WriterTypes' /\ WriterInv'
  <1>1. /\ frames # <<>> /\ Len(frames) \in Nat /\ Len(frames) > 1
        /\ frames' = Pop(frames)
        /\ nextValueIndex' = frames[Len(frames)].base
        /\ nextValueIndex' \in Nat /\ nextValueIndex' <= Len(valueIndexMap)
        /\ valueIndexMap' = SubSeq(valueIndexMap, 1, nextValueIndex')
    BY FinishBlockFacts
  <1>2. UNCHANGED <<phase, table, left, params, made, body, uses>>
    BY DEF FinishBlock
  <1>3. /\ frames \in Seq(Frame)
        /\ valueIndexMap \in Seq(Entry)
        /\ Scoped(Writing, frames, valueIndexMap, made)
        /\ \A n \in DOMAIN valueIndexMap : valueIndexMap[n].index = n - 1
        /\ DOMAIN valueIndexMap = 1..Len(valueIndexMap) /\ Len(valueIndexMap) \in Nat
    BY <1>1, WritingFacts DEF WriterTypes, WriterInv, Numbered
  <1>4. /\ frames' \in Seq(Frame) /\ Len(frames') = Len(frames) - 1
        /\ \A n \in 1..Len(frames) - 1 : frames'[n] = frames[n]
    BY <1>1, <1>3, PopStack
  <1>5. frames' # <<>>
    BY <1>1, <1>4
  <1>6. /\ valueIndexMap' \in Seq(Entry)
        /\ Len(valueIndexMap') = nextValueIndex'
        /\ \A i \in 1..nextValueIndex' : valueIndexMap'[i] = valueIndexMap[i]
    <2>1. PICK n \in Nat : n = nextValueIndex'
      BY <1>1
    <2>2. /\ SubSeq(valueIndexMap, 1, n) \in Seq(Entry)
          /\ Len(SubSeq(valueIndexMap, 1, n)) = n
          /\ \A i \in 1..n : SubSeq(valueIndexMap, 1, n)[i] = valueIndexMap[i]
      BY <1>1, <1>3, <2>1, PrefixOf
    <2> QED BY <1>1, <2>1, <2>2
  <1>7. WriterTypes'
    BY <1>1, <1>2, <1>4, <1>6 DEF WriterTypes, Entry
  <1>8. Numbered'
    <2>1. DOMAIN valueIndexMap' = 1..nextValueIndex'
      BY <1>6, LenProperties
    <2>2. \A n \in 1..nextValueIndex' : n \in 1..Len(valueIndexMap)
      BY <1>1, <1>3
    <2> QED BY <1>3, <1>6, <2>1, <2>2 DEF Numbered
  <1>9. Scoped(Writing, frames', valueIndexMap', made)
    <2>1. PICK gs \in Seq(Frame) : gs = frames'
      BY <1>4
    <2>2. PICK rest \in Seq(Entry) : rest = valueIndexMap'
      BY <1>6
    <2>3. /\ Len(gs) = Len(frames) - 1 /\ \A n \in 1..Len(gs) : gs[n] = frames[n]
          /\ Len(rest) = frames[Len(frames)].base
          /\ \A i \in 1..Len(rest) : rest[i] = valueIndexMap[i]
      BY <1>1, <1>4, <1>6, <2>1, <2>2
    <2>4. Scoped(Writing, gs, rest, made)
      BY <1>1, <1>3, <2>3, PopScope
    <2> QED BY <2>1, <2>2, <2>4
  <1>10. Writing' = Writing /\ TableBounded'
    BY <1>1, <1>2 DEF Writing, WriterInv, TableBounded
  <1> QED BY <1>2, <1>7, <1>8, <1>9, <1>10 DEF WriterInv

(* The end of writeOperation: the results join the block of the operation. *)
LEMMA FinishOpFacts ==
    ASSUME WriterTypes, WriterInv, FinishOp
    PROVE  LET L == Len(frames)
               count == frames[L].shape.results IN
           /\ frames # <<>> /\ L \in Nat /\ L > 1
           /\ frames[L].kind = "op" /\ frames[L].regions = 0 /\ frames[L].blocks = 0
           /\ frames[L - 1].kind = "block" /\ frames[L].defs = {}
           /\ count \in Nat /\ frames[L].shape.gated \in Nat
           /\ Number(Fresh(Writing, made, count))
           /\ made' = made + count + frames[L].shape.gated
           /\ frames' \in Seq(Frame) /\ Len(frames') = L - 1
           /\ \A n \in 1..L - 2 : frames'[n] = frames[n]
           /\ frames'[L - 1].kind = "block" /\ frames'[L - 1].base = frames[L - 1].base
           /\ frames'[L - 1].ops = frames[L - 1].ops
           /\ (frames'[L - 1].ended <=> frames[L - 1].ended)
           /\ frames'[L - 1].regions = frames[L - 1].regions
           /\ frames'[L - 1].blocks = frames[L - 1].blocks
           /\ frames'[L - 1].shape = frames[L - 1].shape
           /\ frames'[L - 1].defs = frames[L - 1].defs \cup NewValues(Writing, made, count)
  <1> DEFINE L == Len(frames)
             count == frames[L].shape.results
             below == Pop(frames)
             block == Top(below)
             defs == ToSet(Fresh(Writing, made, count))
  <1>1. /\ frames # <<>> /\ frames \in Seq(Frame) /\ made \in Nat
        /\ Top(frames) = frames[L]
        /\ Top(frames).kind = "op" /\ Top(frames).regions = 0 /\ Top(frames).blocks = 0
    BY DEF FinishOp, OnTop, WriterTypes, Top
  <1>2. /\ Number(Fresh(Writing, made, count))
        /\ made' = made + count + frames[L].shape.gated
        /\ frames' = SetTop(below, [block EXCEPT !.defs = block.defs \cup defs])
    BY <1>1, Zenon DEF FinishOp
  <1>3. /\ L \in Nat \ {0} /\ L \in 1..L /\ frames[L] \in Frame
    BY <1>1, TopOfStack
  <1>4. count \in Nat /\ frames[L].shape.gated \in Nat
    BY <1>3, FrameFields
  <1>5. /\ Writing \in Nat /\ Writing \in 1..MaxFunctions
        /\ Scoped(Writing, frames, valueIndexMap, made)
    BY <1>1, WritingFacts
  <1>6. defs = NewValues(Writing, made, count) /\ defs \subseteq Value
    <2>1. Writing \in Nat /\ Writing \in 1..MaxFunctions /\ made \in Nat /\ count \in Nat
      BY <1>1, <1>4, <1>5
    <2> HIDE DEF count
    <2> QED BY <2>1, NewFacts, FreshFacts
  <1> HIDE DEF defs, count
  <1>7. L > 1
    <2>1. frames[1].kind = "block" /\ frames[L].kind = "op"
      BY <1>1, <1>5 DEF Scoped, Stacked
    <2> QED BY <1>3, <2>1
  <1>8. L - 1 \in 1..L /\ L = (L - 1) + 1
    BY <1>3, <1>7
  <1>9. frames[L - 1].kind = "block"
    <2>1. \A n \in 1..L : L = n + 1 => frames[n].kind = "block"
      BY <1>1, <1>3, <1>5 DEF Scoped, Nested
    <2> QED BY <1>8, <2>1
  <1>10. frames[L].defs = {}
    BY <1>1, <1>3, <1>5 DEF Scoped, Stacked
  <1>11. /\ below \in Seq(Frame) /\ Len(below) = L - 1
         /\ \A n \in 1..L - 1 : below[n] = frames[n]
    BY <1>1, PopStack
  <1> HIDE DEF L
  <1>12. below # <<>> /\ L - 1 \in 1..L - 1
    <2>1. Len(below) # 0 /\ L - 1 \in 1..L - 1
      BY <1>3, <1>7, <1>11
    <2> QED BY <2>1
  <1>13. block = frames[L - 1] /\ block \in Frame
    <2> HIDE DEF below
    <2>1. block = below[L - 1] /\ block \in Frame
      BY <1>11, <1>12, TopOfStack
    <2> QED BY <1>11, <1>12, <2>1
  <1> HIDE DEF block, below
  <1>14. PICK g : g = [block EXCEPT !.defs = block.defs \cup defs]
    OBVIOUS
  <1>15. /\ g \in Frame
         /\ g.kind = block.kind /\ g.ops = block.ops /\ g.base = block.base
         /\ g.defs = block.defs \cup defs
         /\ (g.ended <=> block.ended)
         /\ g.regions = block.regions /\ g.blocks = block.blocks /\ g.shape = block.shape
    BY <1>6, <1>13, <1>14, DefsChange
  <1>16. /\ SetTop(below, g) \in Seq(Frame)
         /\ Len(SetTop(below, g)) = Len(below)
         /\ \A n \in 1..Len(below) - 1 : SetTop(below, g)[n] = below[n]
         /\ SetTop(below, g)[Len(below)] = g
    <2>1. below \in Seq(Frame) /\ below # <<>> /\ g \in Frame
      BY <1>11, <1>12, <1>15
    <2> QED BY <2>1, SetTopStack
  <1>17. frames' = SetTop(below, g)
    BY <1>2, <1>14
  <1>18. /\ frames' \in Seq(Frame) /\ Len(frames') = L - 1 /\ frames'[L - 1] = g
         /\ \A n \in 1..L - 2 : frames'[n] = frames[n]
    <2>1. Len(below) = L - 1 /\ Len(below) - 1 = L - 2
      BY <1>3, <1>11
    <2>2. \A n \in 1..L - 2 : n \in 1..L - 1
      BY <1>3
    <2> QED BY <1>11, <1>16, <1>17, <2>1, <2>2
  <1>19. /\ frames'[L - 1].kind = "block" /\ frames'[L - 1].base = frames[L - 1].base
         /\ frames'[L - 1].ops = frames[L - 1].ops
         /\ (frames'[L - 1].ended <=> frames[L - 1].ended)
         /\ frames'[L - 1].regions = frames[L - 1].regions
         /\ frames'[L - 1].blocks = frames[L - 1].blocks
         /\ frames'[L - 1].shape = frames[L - 1].shape
         /\ frames'[L - 1].defs = frames[L - 1].defs \cup NewValues(Writing, made, count)
    BY <1>6, <1>9, <1>13, <1>15, <1>18
  <1>20. /\ frames # <<>> /\ L \in Nat /\ frames[L].kind = "op"
         /\ frames[L].regions = 0 /\ frames[L].blocks = 0
    BY <1>1, <1>3
  <1> QED BY <1>2, <1>4, <1>7, <1>9, <1>10, <1>18, <1>19, <1>20, Zenon DEF L, count

LEMMA FinishOpKeeps ==
    ASSUME WriterTypes, WriterInv, FinishOp
    PROVE  WriterTypes' /\ WriterInv'
  <1> DEFINE L == Len(frames)
             more == frames[L].shape.results
             m == L - 1
  <1>1. /\ frames # <<>> /\ L \in Nat /\ L > 1
        /\ frames[L].defs = {} /\ frames[m].kind = "block"
        /\ more \in Nat /\ frames[L].shape.gated \in Nat
        /\ Number(Fresh(Writing, made, more))
        /\ made' = made + more + frames[L].shape.gated
        /\ frames' \in Seq(Frame) /\ Len(frames') = m
        /\ \A n \in 1..L - 2 : frames'[n] = frames[n]
        /\ frames'[m].kind = "block" /\ frames'[m].base = frames[m].base
        /\ frames'[m].ops = frames[m].ops
        /\ (frames'[m].ended <=> frames[m].ended)
        /\ frames'[m].defs = frames[m].defs \cup NewValues(Writing, made, more)
    BY FinishOpFacts, Zenon
  <1>2. UNCHANGED <<phase, table, left, params, body, uses>>
    BY DEF FinishOp
  <1> HIDE DEF more
  <1>3. valueIndexMap' \in Seq(Entry) /\ nextValueIndex' \in Nat
    BY <1>1, NumberFacts
  <1>4. made \in Nat /\ made' \in Nat /\ made' >= made + more
    <2>1. made \in Nat
      BY DEF WriterTypes
    <2>2. PICK gated \in Nat : made' = made + more + gated
      BY <1>1
    <2>3. more \in Nat
      BY <1>1
    <2> QED BY <2>1, <2>2, <2>3
  <1>5. WriterTypes'
    BY <1>1, <1>2, <1>3, <1>4 DEF WriterTypes, Entry
  <1>6. \A n \in 1..L :
           n > 1 /\ frames[n].kind = "block" /\ frames[n].ops = 0 => frames[n].ended
    BY <1>1, WritingFacts DEF Scoped, Stacked
  <1>a. L \in Nat /\ L > 1
    BY <1>1
  <1> HIDE DEF L
  <1>7. m \in Nat \ {0} /\ m <= L + 1 /\ m < L /\ L = m + 1
    BY <1>a
  <1>8. \A n \in 1..m : n \in 1..L /\ (n < m => n \in 1..L - 2) /\ (n = m \/ n < m)
    BY <1>a
  <1>9. \A n \in 1..L : n > m => n = L
    BY <1>a
  <1>10. m \in 1..m
    BY <1>a
  <1> HIDE DEF m
  <1>11. ASSUME NEW n \in 1..m
         PROVE  /\ frames'[n].kind = frames[n].kind /\ frames'[n].base = frames[n].base
                /\ n > 1 /\ frames'[n].kind = "block" /\ frames'[n].ops = 0 => frames'[n].ended
    <2>1. CASE n < m
      BY <1>1, <1>6, <1>8, <2>1
    <2>2. CASE n = m
      BY <1>1, <1>6, <1>8, <2>2
    <2> QED BY <1>8, <2>1, <2>2
  <1>12. PICK new : new = NewValues(Writing, made, more)
    OBVIOUS
  <1>13. Joins(frames, frames', valueIndexMap, new, m)
    <2>1. \A n \in 1..Len(frames) : n > m => frames[n].defs = {}
      BY <1>1, <1>9 DEF L
    <2>2. \A n \in 1..m : n < m => frames'[n].defs = frames[n].defs
      BY <1>1, <1>8
    <2>3. frames'[m].defs = frames[m].defs \cup new
      BY <1>1, <1>12
    <2>4. ~(m > L)
      BY <1>1, <1>7
    <2> QED BY <1>1, <1>7, <1>11, <2>1, <2>2, <2>3, <2>4 DEF Joins, L
  <1>14. frames' # <<>>
    BY <1>1, <1>7
  <1> QED BY <1>1, <1>2, <1>4, <1>5, <1>12, <1>13, <1>14, ScopeGrows

(* The body goes into the function table.                                  *)
LEMMA FinishFunctionFacts ==
    ASSUME WriterTypes, WriterInv, FinishFunction
    PROVE  /\ frames # <<>> /\ Len(frames) = 1 /\ frames[1].kind = "block" /\ frames[1].ended
           /\ \E entry \in Function :
                 /\ table' = Append(table, entry)
                 /\ entry.params = params /\ entry.body = body
                 /\ entry.uses = uses /\ entry.made = made
           /\ frames' = <<>>
           /\ UNCHANGED <<phase, left, params, made, valueIndexMap, nextValueIndex, body, uses>>
  <1>1. /\ frames # <<>> /\ Len(frames) = 1 /\ frames[1].kind = "block" /\ frames[1].ended
    <2>1. frames # <<>> /\ Len(frames) = 1 /\ Top(frames).kind = "block" /\ Top(frames).ended
      BY Zenon DEF FinishFunction, OnTop, InBody
    <2> QED BY <2>1 DEF Top
  <1> DEFINE entry == [params |-> params, body |-> body, uses |-> uses, made |-> made]
  <1>2. /\ table' = Append(table, entry)
        /\ frames' = <<>>
        /\ UNCHANGED <<phase, left, params, made, valueIndexMap, nextValueIndex, body, uses>>
    BY DEF FinishFunction
  <1>3. entry \in Function
    BY DEF WriterTypes, Function
  <1>4. /\ entry.params = params /\ entry.body = body
        /\ entry.uses = uses /\ entry.made = made
    OBVIOUS
  <1> HIDE DEF entry
  <1> QED BY <1>1, <1>2, <1>3, <1>4

LEMMA FinishFunctionKeeps ==
    ASSUME WriterTypes, WriterInv, FinishFunction
    PROVE  WriterTypes' /\ WriterInv'
  <1>1. /\ frames # <<>> /\ frames' = <<>>
        /\ UNCHANGED <<phase, left, params, made, valueIndexMap, nextValueIndex, body, uses>>
    BY FinishFunctionFacts
  <1>2. PICK entry \in Function : table' = Append(table, entry)
    BY FinishFunctionFacts
  <1>3. table' \in Seq(Function) /\ Len(table') = Len(table) + 1 /\ Len(table) \in Nat
    BY <1>2, AppendProperties, LenProperties DEF WriterTypes
  <1>4. WriterTypes'
    BY <1>1, <1>3 DEF WriterTypes
  <1>5. Len(table) < MaxFunctions
    BY <1>1 DEF WriterInv, TableBounded
  <1>6. TableBounded'
    BY <1>1, <1>3, <1>5, BoundsAssumption DEF TableBounded
  <1>7. Numbered'
    BY <1>1 DEF WriterInv, Numbered
  <1> QED BY <1>1, <1>4, <1>6, <1>7 DEF WriterInv

(* The steps that do not write.                                            *)
LEMMA ReaderLeaves ==
    ASSUME \/ RefuseOp \/ StartReading \/ CreateFunction \/ ReadOp \/ ReadRegion \/ ReadBlock
           \/ EndBlock \/ EndOp \/ EndFunction \/ FinishReading \/ Ended
    PROVE  /\ UNCHANGED <<table, left, frames, params, made, valueIndexMap, nextValueIndex,
                          body, uses>>
           /\ phase' = phase \/ phase' \in {"write", "failed", "read", "done", "refused"}
  <1> USE DEF writing
  <1>1. CASE RefuseOp
    BY <1>1 DEF RefuseOp
  <1>2. CASE StartReading
    BY <1>2 DEF StartReading
  <1>3. CASE CreateFunction
    BY <1>3, Zenon DEF CreateFunction
  <1>4. CASE ReadOp
    BY <1>4, Zenon DEF ReadOp, Refuse
  <1>5. CASE ReadRegion
    BY <1>5, Zenon DEF ReadRegion, Refuse
  <1>6. CASE ReadBlock
    BY <1>6, Zenon DEF ReadBlock, Refuse
  <1>7. CASE EndBlock
    BY <1>7, Zenon DEF EndBlock, Refuse
  <1>8. CASE EndOp
    BY <1>8, Zenon DEF EndOp
  <1>9. CASE EndFunction
    BY <1>9, Zenon DEF EndFunction
  <1>10. CASE FinishReading
    BY <1>10 DEF FinishReading
  <1>11. CASE Ended
    BY <1>11, Zenon DEF Ended, vars
  <1> QED BY <1>1, <1>2, <1>3, <1>4, <1>5, <1>6, <1>7, <1>8, <1>9, <1>10, <1>11

LEMMA WriterStart == Init => WriterTypes /\ WriterInv
  <1> SUFFICES ASSUME Init PROVE WriterTypes /\ WriterInv
    OBVIOUS
  <1>1. WriterTypes
    BY EmptySeq, BoundsAssumption DEF Init, WriterTypes
  <1>2. Numbered
    BY DEF Init, Numbered
  <1>3. TableBounded
    BY BoundsAssumption DEF Init, TableBounded
  <1> QED BY <1>1, <1>2, <1>3 DEF Init, WriterInv

LEMMA UnchangedWriter ==
    ASSUME WriterTypes, WriterInv,
           UNCHANGED <<table, left, frames, params, made, valueIndexMap, nextValueIndex,
                       body, uses>>,
           phase' = phase \/ phase' \in {"write", "failed", "read", "done", "refused"}
    PROVE  WriterTypes' /\ WriterInv'
  BY DEF WriterTypes, WriterInv, Numbered, TableBounded, Writing

(* The actions of the writer, with the sets that their parameters are from.*)
LEMMA StepCases ==
    ASSUME [Next]_vars
    PROVE  \/ \E args \in Nat : StartFunction(args)
           \/ \E shape \in Shape : \E operands \in Operands : \E terminator \in BOOLEAN :
                 WriteOp(shape, operands, terminator)
           \/ \E blocks \in Nat : blocks \in 0..1 /\ WriteRegion(blocks)
           \/ \E args \in Nat : \E ops \in Nat : ops # 0 /\ WriteBlock(args, ops)
           \/ FinishBlock
           \/ FinishOp
           \/ FinishFunction
           \/ RefuseOp \/ StartReading \/ CreateFunction \/ ReadOp \/ ReadRegion \/ ReadBlock
              \/ EndBlock \/ EndOp \/ EndFunction \/ FinishReading \/ Ended
           \/ UNCHANGED vars
  <1>1. CASE \E args \in 0..MaxArgs : StartFunction(args)
    BY <1>1, BoundsAssumption
  <1>2. CASE \E shape \in Shapes : \E operands \in Operands : WriteOp(shape, operands, FALSE)
    <2>1. PICK t \in BOOLEAN : t = FALSE
      OBVIOUS
    <2>2. \E shape \in Shape : \E operands \in Operands : WriteOp(shape, operands, t)
      BY <1>2, <2>1, ShapesAssumption, Zenon DEF Shape
    <2> QED BY <2>2
  <1>3. CASE \E operands \in Operands : WriteOp(Terminator, operands, TRUE)
    <2>1. PICK t \in BOOLEAN : t = TRUE
      OBVIOUS
    <2>2. \E operands \in Operands : WriteOp(Terminator, operands, t)
      BY <1>3, <2>1, Zenon
    <2> QED BY <2>2, TerminatorShape
  <1>4. CASE \E blocks \in 0..1 : WriteRegion(blocks)
    BY <1>4
  <1>5. CASE \E args \in 0..MaxArgs : \E ops \in 1..MaxOps : WriteBlock(args, ops)
    BY <1>5, BoundsAssumption
  <1> QED BY <1>1, <1>2, <1>3, <1>4, <1>5, Zenon DEF Next

(* The writer's part of the inductive invariant.                           *)
LEMMA WriterStep == WriterTypes /\ WriterInv /\ [Next]_vars => WriterTypes' /\ WriterInv'
  <1> SUFFICES ASSUME WriterTypes, WriterInv, [Next]_vars PROVE WriterTypes' /\ WriterInv'
    OBVIOUS
  <1>1. CASE \E args \in Nat : StartFunction(args)
    BY <1>1, StartFunctionKeeps
  <1>2. CASE \E shape \in Shape : \E operands \in Operands : \E terminator \in BOOLEAN :
                 WriteOp(shape, operands, terminator)
    BY <1>2, WriteOpKeeps
  <1>3. CASE \E blocks \in Nat : blocks \in 0..1 /\ WriteRegion(blocks)
    BY <1>3, WriteRegionKeeps
  <1>4. CASE \E args \in Nat : \E ops \in Nat : ops # 0 /\ WriteBlock(args, ops)
    BY <1>4, WriteBlockKeeps
  <1>5. CASE FinishBlock
    BY <1>5, FinishBlockKeeps
  <1>6. CASE FinishOp
    BY <1>6, FinishOpKeeps
  <1>7. CASE FinishFunction
    BY <1>7, FinishFunctionKeeps
  <1>8. CASE RefuseOp \/ StartReading \/ CreateFunction \/ ReadOp \/ ReadRegion \/ ReadBlock
             \/ EndBlock \/ EndOp \/ EndFunction \/ FinishReading \/ Ended
    BY <1>8, ReaderLeaves, UnchangedWriter
  <1>9. CASE UNCHANGED vars
    BY <1>9, UnchangedWriter DEF vars, writing
  <1> QED BY <1>1, <1>2, <1>3, <1>4, <1>5, <1>6, <1>7, <1>8, <1>9, StepCases, Zenon

(* MapIsScope: there are as many values in scope as entries, as the n-th   *)
(* entry is a bijection.                                                   *)
LEMMA ScopeSize == WriterTypes /\ WriterInv => MapIsScope
  <1> SUFFICES ASSUME WriterTypes, WriterInv PROVE MapIsScope
    OBVIOUS
  <1> DEFINE N == Len(valueIndexMap)
  <1>1. Numbered
    BY DEF WriterInv
  <1>2. ASSUME frames # <<>>
        PROVE  /\ {valueIndexMap[n].value : n \in DOMAIN valueIndexMap} = Visible
               /\ Cardinality(Visible) = N
    <2>1. /\ N \in Nat /\ DOMAIN valueIndexMap = 1..N
          /\ \A i, j \in 1..N : valueIndexMap[i].value = valueIndexMap[j].value => i = j
      BY <1>2, WritingFacts DEF Scoped, Distinct
    <2>2. \A v : v \in Visible <=> \E i \in 1..N : v = valueIndexMap[i].value
      BY <1>2, VisibleFacts
    <2> HIDE DEF N
    <2>3. {valueIndexMap[n].value : n \in DOMAIN valueIndexMap} = Visible
      BY <2>1, <2>2
    <2> DEFINE F == [n \in 1..N |-> valueIndexMap[n].value]
    <2>4. F \in [1..N -> Visible]
      BY <2>2
    <2>5. \A a, b \in 1..N : F[a] = F[b] => a = b
      BY <2>1
    <2>6. \A v \in Visible : \E n \in 1..N : F[n] = v
      BY <2>2
    <2> HIDE DEF F
    <2>7. F \in Bijection(1..N, Visible)
      BY <2>4, <2>5, <2>6, Fun_IsBij
    <2>8. ExistsBijection(1..N, Visible)
      BY <2>7, Fun_ExistsBij, Zenon
    <2>9. Cardinality(Visible) = N
      BY <2>1, <2>8, FS_CountingElements
    <2> QED BY <2>3, <2>9
  <1> QED BY <1>1, <1>2 DEF MapIsScope, Numbered

(* The numbering of the writer is the scope of the IR, in every state: the *)
(* map has an entry for each value that an operation may use, no other     *)
(* value keeps an index, and indices are positions; so the reader, whose   *)
(* list grows and shrinks with the same blocks, can use them as positions. *)
THEOREM MapIsAlwaysScope == Spec => []MapIsScope
  <1>1. Spec => [](WriterTypes /\ WriterInv)
    BY WriterStart, WriterStep, PTL DEF Spec
  <1> QED BY <1>1, ScopeSize, PTL


-----------------------------------------------------------------------------
(* The parser over one body, as a machine of its own.                      *)
State == [scopes : Seq(Frame), pos : Nat, list : Seq(Value), built : Nat,
          resolved : Seq(Seq(Value))]

(* createFunction, for function f with p arguments                         *)
Starts(s, f, p) ==
    /\ s.scopes = <<BlockFrame(0, 0, {})>>
    /\ s.pos = 0
    /\ s.list = Fresh(f, 0, p)
    /\ s.built = p
    /\ s.resolved = <<>>

(* parseOperation, with its operands within the list                       *)
ParsesOp(token, s, t) ==
    /\ OnTop(s.scopes, "block")
    /\ ~InBody(s.scopes) => Top(s.scopes).ops > 0
    /\ token.kind = "op"
    /\ \A k \in DOMAIN token.operands : token.operands[k] < Len(s.list)
    /\ BeginsOp(s.scopes, t.scopes, token.shape, Len(s.list), token.terminator)
    /\ t.pos = s.pos + 1
    /\ t.list = s.list
    /\ t.built = s.built
    /\ t.resolved = Append(s.resolved,
                           [k \in DOMAIN token.operands |-> s.list[token.operands[k] + 1]])

ParsesRegion(token, s, t) ==
    /\ OnTop(s.scopes, "op")
    /\ Top(s.scopes).regions > 0 /\ Top(s.scopes).blocks = 0
    /\ token.kind = "region"
    /\ BeginsRegion(s.scopes, t.scopes, token.blocks)
    /\ t.pos = s.pos + 1
    /\ t.list = s.list /\ t.built = s.built /\ t.resolved = s.resolved

ParsesBlock(f, token, s, t) ==
    /\ OnTop(s.scopes, "op")
    /\ Top(s.scopes).blocks > 0
    /\ token.kind = "block"
    /\ BeginsBlock(s.scopes, t.scopes, token.ops, Len(s.list), {})
    /\ t.pos = s.pos + 1
    /\ t.list = s.list \o Fresh(f, s.built, token.args)
    /\ t.built = s.built + token.args
    /\ t.resolved = s.resolved

(* the end of parseBlock, after a terminator                               *)
LeavesBlock(s, t) ==
    /\ OnTop(s.scopes, "block") /\ ~InBody(s.scopes)
    /\ Top(s.scopes).ops = 0 /\ Top(s.scopes).ended
    /\ t.scopes = Pop(s.scopes)
    /\ t.pos = s.pos
    /\ t.list = SubSeq(s.list, 1, Top(s.scopes).base)
    /\ t.built = s.built /\ t.resolved = s.resolved

(* the end of parseOperation                                               *)
LeavesOp(f, s, t) ==
    /\ OnTop(s.scopes, "op")
    /\ Top(s.scopes).regions = 0 /\ Top(s.scopes).blocks = 0
    /\ t.scopes = Pop(s.scopes)
    /\ t.pos = s.pos
    /\ t.list = s.list \o Fresh(f, s.built, Top(s.scopes).shape.results)
    /\ t.built = s.built + Top(s.scopes).shape.results + Top(s.scopes).shape.gated
    /\ t.resolved = s.resolved

(* A step over the body b of function f that is not refused.               *)
Moves(f, b, s, t) ==
    \/ /\ s.pos < Len(b)
       /\ \/ ParsesOp(b[s.pos + 1], s, t)
          \/ ParsesRegion(b[s.pos + 1], s, t)
          \/ ParsesBlock(f, b[s.pos + 1], s, t)
    \/ LeavesBlock(s, t)
    \/ LeavesOp(f, s, t)

Prefix(r, u) == \A n \in DOMAIN r : n \in DOMAIN u /\ r[n] = u[n]

(* A run over the body b, whose operations use u.                          *)
Replays(run, f, p, b, u) ==
    /\ run \in Seq(State) /\ run # <<>>
    /\ Starts(run[1], f, p)
    /\ \A k \in 1..Len(run) - 1 : Moves(f, b, run[k], run[k + 1])
    /\ \A k \in 1..Len(run) : Prefix(run[k].resolved, u)

(* The run is over, with what the function e of the table is made of.      *)
Finished(s, e) ==
    /\ Len(s.scopes) = 1 /\ s.scopes[1].kind = "block"
    /\ s.pos = Len(e.body)
    /\ s.built = e.made
    /\ s.resolved = e.uses

Replayed(run, f, e) ==
    Replays(run, f, e.params, e.body, e.uses) /\ Finished(run[Len(run)], e)

-----------------------------------------------------------------------------
(* The invariant.                                                          *)

(* The two stacks are alike, and the list is the map.                      *)
Mirrors(ss, fs) == Len(ss) = Len(fs) /\ \A n \in 1..Len(fs) : Alike(ss[n], fs[n])
Lists(list, map) == Len(list) = Len(map) /\ \A i \in 1..Len(map) : list[i] = map[i].value

(* The parser would be in state s after the bytes written so far.          *)
WriterAt(s) ==
    /\ s.pos = Len(body)
    /\ s.built = made
    /\ s.resolved = uses
    /\ Lists(s.list, valueIndexMap)
    /\ Mirrors(s.scopes, frames)

(* The parser is in state s.                                               *)
ReaderAt(s) ==
    /\ scopes = s.scopes /\ pos = s.pos /\ valueIndexList = s.list
    /\ built = s.built /\ resolved = s.resolved

BodyReplays ==
    frames # <<>> =>
        \E run : Replays(run, Writing, params, body, uses) /\ WriterAt(run[Len(run)])

TableReplays == \A f \in 1..Len(table) : \E run : Replayed(run, f, table[f])

ReaderOnRun ==
    scopes # <<>> =>
        /\ phase = "read" /\ current > 0
        /\ \E run : /\ Replayed(run, current, table[current])
                    /\ \E k \in 1..Len(run) : ReaderAt(run[k])

ReaderBetween ==
    /\ phase # "refused"
    /\ current <= Len(table)
    /\ phase \in {"write", "failed"} => current = 0
    /\ current = 0 => scopes = <<>> /\ resolved = <<>>
    /\ scopes = <<>> /\ current > 0 =>
          resolved = table[current].uses /\ built = table[current].made

ReplayInv == BodyReplays /\ TableReplays /\ ReaderTypes /\ ReaderOnRun /\ ReaderBetween

-----------------------------------------------------------------------------
(* The parser goes along its run.                                          *)
LEMMA AlongOp ==
    ASSUME NEW s, NEW t, phase = "read", scopes # <<>>, ReaderAt(s),
           pos < Len(table[current].body), ParsesOp(table[current].body[pos + 1], s, t),
           Read
    PROVE  ReaderAt(t)' /\ UNCHANGED <<phase, table, left, writing, current>>
  <1>1. Here = table[current].body[pos + 1] /\ More
    BY DEF Here, More
  <1>2. /\ Top(scopes).kind = "block"
        /\ ~InBody(scopes) => Top(scopes).ops > 0
        /\ Here.kind = "op"
        /\ \A k \in DOMAIN Here.operands : Here.operands[k] < Len(valueIndexList)
        /\ BeginsOp(scopes, t.scopes, Here.shape, Len(valueIndexList), Here.terminator)
        /\ t.pos = pos + 1 /\ t.list = valueIndexList /\ t.built = built
        /\ t.resolved = Append(resolved,
                 [k \in DOMAIN Here.operands |-> valueIndexList[Here.operands[k] + 1]])
    BY <1>1, Zenon DEF ReaderAt, ParsesOp, OnTop
  <1>3. ~CreateFunction /\ ~FinishReading
    BY DEF CreateFunction, FinishReading
  <1>4. ~ReadRegion /\ ~ReadBlock /\ ~EndOp
    BY <1>2 DEF ReadRegion, ReadBlock, EndOp, OnTop
  <1>5. ~EndFunction
    BY <1>1, Zenon DEF EndFunction
  <1>6. ~EndBlock
    <2>1. Top(scopes).ops > 0 => Top(scopes).ops # 0
      BY SMT
    <2> QED BY <1>2, <2>1, Zenon DEF EndBlock
  <1>7. ReadOp
    BY <1>3, <1>4, <1>5, <1>6 DEF Read
  <1>8. /\ resolved' = Append(resolved,
                 [k \in DOMAIN Here.operands |-> valueIndexList[Here.operands[k] + 1]])
        /\ scopes' = Append(SetTop(scopes,
                    [Top(scopes) EXCEPT !.ops = IF InBody(scopes) THEN @ ELSE @ - 1,
                                        !.ended = Here.terminator]),
                 OpFrame(Here.shape, Len(valueIndexList)))
        /\ pos' = pos + 1
        /\ UNCHANGED <<phase, table, left, writing, current, valueIndexList, built>>
    BY <1>1, <1>2, <1>7, Zenon DEF ReadOp
  <1>9. scopes' = t.scopes
    <2>1. [Top(scopes) EXCEPT !.ops = IF InBody(scopes) THEN @ ELSE @ - 1,
                              !.ended = Here.terminator]
            = NextOp(Top(scopes), ~InBody(scopes), Here.terminator)
      BY Zenon DEF NextOp
    <2> QED BY <1>2, <1>8, <2>1, Zenon DEF BeginsOp
  <1> QED BY <1>2, <1>8, <1>9, Zenon DEF ReaderAt

LEMMA AlongRegion ==
    ASSUME NEW s, NEW t, phase = "read", scopes # <<>>, ReaderAt(s),
           pos < Len(table[current].body), ParsesRegion(table[current].body[pos + 1], s, t),
           Read
    PROVE  ReaderAt(t)' /\ UNCHANGED <<phase, table, left, writing, current>>
  <1>1. Here = table[current].body[pos + 1] /\ More
    BY DEF Here, More
  <1>2. /\ Top(scopes).kind = "op"
        /\ Top(scopes).regions > 0 /\ Top(scopes).blocks = 0
        /\ Here.kind = "region"
        /\ BeginsRegion(scopes, t.scopes, Here.blocks)
        /\ t.pos = pos + 1 /\ t.list = valueIndexList /\ t.built = built
        /\ t.resolved = resolved
    BY <1>1, Zenon DEF ReaderAt, ParsesRegion, OnTop
  <1>3. ~CreateFunction /\ ~FinishReading
    BY DEF CreateFunction, FinishReading
  <1>4. ~ReadOp /\ ~EndBlock /\ ~EndFunction
    BY <1>2 DEF ReadOp, EndBlock, EndFunction, OnTop
  <1>5. ~ReadBlock /\ ~EndOp
    <2>1. ~(Top(scopes).blocks > 0) /\ Top(scopes).regions # 0
      BY <1>2
    <2> QED BY <2>1, Zenon DEF ReadBlock, EndOp
  <1>6. ReadRegion
    BY <1>3, <1>4, <1>5 DEF Read
  <1>7. /\ scopes' = SetTop(scopes, [Top(scopes) EXCEPT !.regions = @ - 1,
                                                        !.blocks = Here.blocks])
        /\ pos' = pos + 1
        /\ UNCHANGED <<phase, table, left, writing, current, valueIndexList, built, resolved>>
    BY <1>1, <1>2, <1>6, Zenon DEF ReadRegion
  <1>8. scopes' = t.scopes
    <2>1. [Top(scopes) EXCEPT !.regions = @ - 1, !.blocks = Here.blocks]
            = NextRegion(Top(scopes), Here.blocks)
      BY Zenon DEF NextRegion
    <2> QED BY <1>2, <1>7, <2>1, Zenon DEF BeginsRegion
  <1> QED BY <1>2, <1>7, <1>8, Zenon DEF ReaderAt

LEMMA AlongBlock ==
    ASSUME NEW s, NEW t, phase = "read", scopes # <<>>, ReaderAt(s),
           pos < Len(table[current].body),
           ParsesBlock(current, table[current].body[pos + 1], s, t),
           Read
    PROVE  ReaderAt(t)' /\ UNCHANGED <<phase, table, left, writing, current>>
  <1>1. Here = table[current].body[pos + 1] /\ More
    BY DEF Here, More
  <1>2. /\ Top(scopes).kind = "op"
        /\ Top(scopes).blocks > 0
        /\ Here.kind = "block"
        /\ BeginsBlock(scopes, t.scopes, Here.ops, Len(valueIndexList), {})
        /\ t.pos = pos + 1
        /\ t.list = valueIndexList \o Fresh(current, built, Here.args)
        /\ t.built = built + Here.args
        /\ t.resolved = resolved
    BY <1>1, Zenon DEF ReaderAt, ParsesBlock, OnTop
  <1>3. ~CreateFunction /\ ~FinishReading
    BY DEF CreateFunction, FinishReading
  <1>4. ~ReadOp /\ ~EndBlock /\ ~EndFunction
    BY <1>2 DEF ReadOp, EndBlock, EndFunction, OnTop
  <1>5. ~ReadRegion /\ ~EndOp
    <2>1. Top(scopes).blocks # 0
      BY <1>2
    <2> QED BY <2>1, Zenon DEF ReadRegion, EndOp
  <1>6. ReadBlock
    BY <1>3, <1>4, <1>5 DEF Read
  <1>7. /\ scopes' = Append(SetTop(scopes, [Top(scopes) EXCEPT !.blocks = @ - 1]),
                            BlockFrame(Here.ops, Len(valueIndexList), {}))
        /\ valueIndexList' = valueIndexList \o Fresh(current, built, Here.args)
        /\ built' = built + Here.args
        /\ pos' = pos + 1
        /\ UNCHANGED <<phase, table, left, writing, current, resolved>>
    BY <1>1, <1>2, <1>6, Zenon DEF ReadBlock
  <1>8. scopes' = t.scopes
    BY <1>2, <1>7, Zenon DEF BeginsBlock
  <1> QED BY <1>2, <1>7, <1>8, Zenon DEF ReaderAt

LEMMA AlongBlockEnd ==
    ASSUME NEW s, NEW t, phase = "read", scopes # <<>>, ReaderAt(s), LeavesBlock(s, t), Read
    PROVE  ReaderAt(t)' /\ UNCHANGED <<phase, table, left, writing, current>>
  <1>1. /\ Top(scopes).kind = "block" /\ ~InBody(scopes)
        /\ Top(scopes).ops = 0 /\ Top(scopes).ended
        /\ t.scopes = Pop(scopes) /\ t.pos = pos
        /\ t.list = SubSeq(valueIndexList, 1, Top(scopes).base)
        /\ t.built = built /\ t.resolved = resolved
    BY Zenon DEF ReaderAt, LeavesBlock, OnTop
  <1>2. ~CreateFunction /\ ~FinishReading
    BY DEF CreateFunction, FinishReading
  <1>3. ~ReadRegion /\ ~ReadBlock /\ ~EndOp
    BY <1>1 DEF ReadRegion, ReadBlock, EndOp, OnTop
  <1>4. ~EndFunction
    BY <1>1, Zenon DEF EndFunction
  <1>5. ~ReadOp
    <2>1. ~(Top(scopes).ops > 0)
      BY <1>1
    <2> QED BY <1>1, <2>1, Zenon DEF ReadOp
  <1>6. EndBlock
    BY <1>2, <1>3, <1>4, <1>5 DEF Read
  <1>7. /\ valueIndexList' = SubSeq(valueIndexList, 1, Top(scopes).base)
        /\ scopes' = Pop(scopes)
        /\ UNCHANGED <<phase, table, left, writing, current, pos, built, resolved>>
    BY <1>1, <1>6, Zenon DEF EndBlock
  <1> QED BY <1>1, <1>7, Zenon DEF ReaderAt

LEMMA AlongOpEnd ==
    ASSUME NEW s, NEW t, phase = "read", scopes # <<>>, ReaderAt(s), LeavesOp(current, s, t), Read
    PROVE  ReaderAt(t)' /\ UNCHANGED <<phase, table, left, writing, current>>
  <1>1. /\ Top(scopes).kind = "op"
        /\ Top(scopes).regions = 0 /\ Top(scopes).blocks = 0
        /\ t.scopes = Pop(scopes) /\ t.pos = pos
        /\ t.list = valueIndexList \o Fresh(current, built, Top(scopes).shape.results)
        /\ t.built = built + Top(scopes).shape.results + Top(scopes).shape.gated
        /\ t.resolved = resolved
    BY Zenon DEF ReaderAt, LeavesOp, OnTop
  <1>2. ~CreateFunction /\ ~FinishReading
    BY DEF CreateFunction, FinishReading
  <1>3. ~ReadOp /\ ~EndBlock /\ ~EndFunction
    BY <1>1 DEF ReadOp, EndBlock, EndFunction, OnTop
  <1>4. ~ReadRegion /\ ~ReadBlock
    <2>1. ~(Top(scopes).regions > 0) /\ ~(Top(scopes).blocks > 0)
      BY <1>1
    <2> QED BY <2>1, Zenon DEF ReadRegion, ReadBlock
  <1>5. EndOp
    BY <1>2, <1>3, <1>4 DEF Read
  <1>6. /\ valueIndexList' = valueIndexList \o Fresh(current, built, Top(scopes).shape.results)
        /\ built' = built + Top(scopes).shape.results + Top(scopes).shape.gated
        /\ scopes' = Pop(scopes)
        /\ UNCHANGED <<phase, table, left, writing, current, pos, resolved>>
    BY <1>5, Zenon DEF EndOp
  <1> QED BY <1>1, <1>6, Zenon DEF ReaderAt

(* One step of the parser is one step along the run.                       *)
LEMMA AlongRun ==
    ASSUME NEW s, NEW t, phase = "read", scopes # <<>>, ReaderAt(s),
           Moves(current, table[current].body, s, t), Read
    PROVE  ReaderAt(t)' /\ UNCHANGED <<phase, table, left, writing, current>>
  <1>1. s.pos = pos
    BY DEF ReaderAt
  <1>2. CASE pos < Len(table[current].body) /\ ParsesOp(table[current].body[pos + 1], s, t)
    BY <1>2, AlongOp
  <1>3. CASE pos < Len(table[current].body) /\ ParsesRegion(table[current].body[pos + 1], s, t)
    BY <1>3, AlongRegion
  <1>4. CASE /\ pos < Len(table[current].body)
             /\ ParsesBlock(current, table[current].body[pos + 1], s, t)
    BY <1>4, AlongBlock
  <1>5. CASE LeavesBlock(s, t)
    BY <1>5, AlongBlockEnd
  <1>6. CASE LeavesOp(current, s, t)
    BY <1>6, AlongOpEnd
  <1> QED BY <1>1, <1>2, <1>3, <1>4, <1>5, <1>6, Zenon DEF Moves

(* At the end of the run there is nothing left but to return.              *)
LEMMA AtTheEnd ==
    ASSUME NEW s, phase = "read", scopes # <<>>, ReaderAt(s), pos \in Nat,
           Finished(s, table[current]), Read
    PROVE  /\ scopes' = <<>> /\ UNCHANGED <<phase, table, left, writing, current, pos,
                                            valueIndexList, built, resolved>>
           /\ resolved = table[current].uses /\ built = table[current].made
  <1>1. /\ InBody(scopes) /\ Top(scopes).kind = "block"
        /\ pos = Len(table[current].body)
        /\ built = table[current].made /\ resolved = table[current].uses
    BY Zenon DEF ReaderAt, Finished, InBody, Top
  <1>2. ~More
    BY <1>1 DEF More
  <1>3. ~CreateFunction /\ ~FinishReading
    BY DEF CreateFunction, FinishReading
  <1>4. ~ReadRegion /\ ~ReadBlock /\ ~EndOp
    BY <1>1 DEF ReadRegion, ReadBlock, EndOp, OnTop
  <1>5. ~ReadOp /\ ~EndBlock
    BY <1>1, <1>2, Zenon DEF ReadOp, EndBlock
  <1>6. EndFunction
    BY <1>3, <1>4, <1>5 DEF Read
  <1> QED BY <1>1, <1>6, Zenon DEF EndFunction

-----------------------------------------------------------------------------
(* The writer extends the run.                                             *)
Grows(b, c) == Len(b) <= Len(c) /\ \A i \in 1..Len(b) : c[i] = b[i]

(* A step that was possible stays so when bytes are appended.              *)
LEMMA MovesLater ==
    ASSUME NEW f, NEW b \in Seq(Token), NEW c \in Seq(Token), Grows(b, c),
           NEW s \in State, NEW t, Moves(f, b, s, t)
    PROVE  Moves(f, c, s, t)
  <1>1. s.pos \in Nat /\ Len(b) \in Nat /\ Len(c) \in Nat
    BY LenProperties DEF State
  <1>2. CASE /\ s.pos < Len(b)
             /\ \/ ParsesOp(b[s.pos + 1], s, t)
                \/ ParsesRegion(b[s.pos + 1], s, t)
                \/ ParsesBlock(f, b[s.pos + 1], s, t)
    <2>1. s.pos < Len(c) /\ s.pos + 1 \in 1..Len(b)
      BY <1>1, <1>2 DEF Grows
    <2>2. c[s.pos + 1] = b[s.pos + 1]
      BY <2>1 DEF Grows
    <2> QED BY <1>2, <2>1, <2>2, Zenon DEF Moves
  <1>3. CASE LeavesBlock(s, t) \/ LeavesOp(f, s, t)
    BY <1>3 DEF Moves
  <1> QED BY <1>2, <1>3, Zenon DEF Moves

LEMMA ExtendRun ==
    ASSUME NEW run, NEW f, NEW p, NEW b \in Seq(Token), NEW u, Replays(run, f, p, b, u),
           NEW c \in Seq(Token), Grows(b, c), NEW v, Prefix(u, v),
           NEW t \in State, Moves(f, c, run[Len(run)], t), t.resolved = v
    PROVE  \E longer : Replays(longer, f, p, c, v) /\ longer[Len(longer)] = t
  <1> DEFINE longer == Append(run, t)
  <1>1. run \in Seq(State) /\ run # <<>> /\ Len(run) \in Nat \ {0}
    BY EmptySeq, LenProperties DEF Replays
  <1>2. /\ longer \in Seq(State) /\ longer # <<>> /\ Len(longer) = Len(run) + 1
        /\ \A k \in 1..Len(run) : longer[k] = run[k]
        /\ longer[Len(run) + 1] = t
    BY <1>1, AppendProperties
  <1> HIDE DEF longer
  <1> DEFINE L == Len(run)
  <1>3. L \in Nat \ {0} /\ L \in 1..L
    BY <1>1
  <1>4. Starts(longer[1], f, p)
    BY <1>2, <1>3 DEF Replays
  <1>5. /\ \A k \in 1..L - 1 : k \in 1..L /\ k + 1 \in 1..L
        /\ \A k \in 1..L : k \in 1..L - 1 \/ k = L
        /\ \A k \in 1..L + 1 : k \in 1..L \/ k = L + 1
        /\ L + 1 - 1 = L
    BY <1>3
  <1>6. ASSUME NEW k \in 1..L PROVE Moves(f, c, longer[k], longer[k + 1])
    <2>1. CASE k \in 1..L - 1
      <3>1. Moves(f, b, run[k], run[k + 1])
        BY <2>1 DEF Replays
      <3>2. run[k] \in State
        BY <1>1, ElementOfSeq
      <3>3. Moves(f, c, run[k], run[k + 1])
        BY <3>1, <3>2, MovesLater
      <3>4. longer[k] = run[k] /\ longer[k + 1] = run[k + 1]
        BY <1>2, <1>5, <2>1
      <3> QED BY <3>3, <3>4
    <2>2. CASE k = L
      <3>1. longer[k] = run[L] /\ longer[k + 1] = t
        BY <1>2, <1>3, <2>2
      <3> QED BY <3>1
    <2> QED BY <1>5, <2>1, <2>2
  <1>7. ASSUME NEW k \in 1..L + 1 PROVE Prefix(longer[k].resolved, v)
    <2>1. CASE k \in 1..L
      <3>1. Prefix(run[k].resolved, u) /\ longer[k] = run[k]
        BY <1>2, <2>1 DEF Replays
      <3> QED BY <3>1 DEF Prefix
    <2>2. CASE k = L + 1
      <3>1. longer[k].resolved = v
        BY <1>2, <2>2
      <3> QED BY <3>1 DEF Prefix
    <2> QED BY <1>5, <2>1, <2>2
  <1>8. Len(longer) = L + 1 /\ Len(longer) - 1 = L /\ longer[Len(longer)] = t
    BY <1>2, <1>3
  <1> HIDE DEF L
  <1>9. Replays(longer, f, p, c, v)
    BY <1>2, <1>4, <1>6, <1>7, <1>8 DEF Replays
  <1> QED BY <1>8, <1>9

(* The bytes written, and what the IR uses, only grow.                     *)
LEMMA GrowsBy ==
    ASSUME NEW b \in Seq(Token), NEW token \in Token
    PROVE  /\ Append(b, token) \in Seq(Token)
           /\ Grows(b, Append(b, token))
           /\ Len(b) \in Nat
           /\ Len(Append(b, token)) = Len(b) + 1 /\ Len(b) < Len(Append(b, token))
           /\ Append(b, token)[Len(b) + 1] = token
  <1>1. /\ Append(b, token) \in Seq(Token)
        /\ Len(Append(b, token)) = Len(b) + 1
        /\ \A i \in 1..Len(b) : Append(b, token)[i] = b[i]
        /\ Append(b, token)[Len(b) + 1] = token
    BY AppendProperties
  <1>2. Len(b) \in Nat
    BY LenProperties
  <1> QED BY <1>1, <1>2 DEF Grows

LEMMA PrefixBy ==
    ASSUME NEW S, NEW u \in Seq(S), NEW e \in S
    PROVE  Prefix(u, Append(u, e)) /\ Prefix(u, u)
  <1>1. /\ DOMAIN u = 1..Len(u) /\ Len(u) \in Nat
        /\ Append(u, e) \in Seq(S)
        /\ Len(Append(u, e)) = Len(u) + 1
        /\ \A i \in 1..Len(u) : Append(u, e)[i] = u[i]
    BY AppendProperties, LenProperties
  <1>2. DOMAIN Append(u, e) = 1..Len(u) + 1
    BY <1>1, LenProperties
  <1>3. \A n \in 1..Len(u) : n \in 1..Len(u) + 1
    BY <1>1
  <1> QED BY <1>1, <1>2, <1>3 DEF Prefix

StateOf(ss, n, list, count, us) ==
    [scopes |-> ss, pos |-> n, list |-> list, built |-> count, resolved |-> us]

LEMMA AState ==
    ASSUME NEW ss \in Seq(Frame), NEW n \in Nat, NEW list \in Seq(Value), NEW count \in Nat,
           NEW us \in Seq(Seq(Value)), NEW t, t = StateOf(ss, n, list, count, us)
    PROVE  /\ t \in State
           /\ t.scopes = ss /\ t.pos = n /\ t.list = list
           /\ t.built = count /\ t.resolved = us
  BY DEF State, StateOf

LEMMA StateFields ==
    ASSUME NEW s \in State
    PROVE  /\ s.scopes \in Seq(Frame) /\ s.pos \in Nat /\ s.list \in Seq(Value)
           /\ s.built \in Nat /\ s.resolved \in Seq(Seq(Value))
  BY DEF State

-----------------------------------------------------------------------------
(* What the parser looks at is what the writer looked at.                  *)
LEMMA MirrorTop ==
    ASSUME NEW ss \in Seq(Frame), NEW fs \in Seq(Frame), fs # <<>>, Mirrors(ss, fs)
    PROVE  /\ ss # <<>> /\ (InBody(ss) <=> InBody(fs))
           /\ Top(ss).kind = Top(fs).kind /\ Top(ss).ops = Top(fs).ops
           /\ Top(ss).base = Top(fs).base /\ (Top(ss).ended <=> Top(fs).ended)
           /\ Top(ss).regions = Top(fs).regions /\ Top(ss).blocks = Top(fs).blocks
           /\ Top(ss).shape = Top(fs).shape
  <1>1. Len(fs) \in 1..Len(fs) /\ Len(fs) # 0
    BY StackElements
  <1>2. Len(ss) = Len(fs) /\ Alike(ss[Len(fs)], fs[Len(fs)])
    BY <1>1 DEF Mirrors
  <1>3. ss # <<>>
    BY <1>1, <1>2, StackElements
  <1> QED BY <1>2, <1>3 DEF InBody, Top, Alike

LEMMA MirrorOp ==
    ASSUME NEW ss \in Seq(Frame), NEW fs \in Seq(Frame), fs # <<>>, Mirrors(ss, fs),
           ~InBody(fs) => Top(fs).ops > 0,
           NEW shape \in Shape, NEW base \in Nat, NEW terminator \in BOOLEAN,
           NEW gs, BeginsOp(fs, gs, shape, base, terminator),
           NEW ts, BeginsOp(ss, ts, shape, base, terminator)
    PROVE  ts \in Seq(Frame) /\ Mirrors(ts, gs)
  <1> DEFINE L == Len(fs)
  <1>1. /\ ss # <<>> /\ (InBody(ss) <=> InBody(fs))
        /\ Top(ss).kind = Top(fs).kind /\ Top(ss).ops = Top(fs).ops
        /\ Top(ss).base = Top(fs).base
        /\ Top(ss).regions = Top(fs).regions /\ Top(ss).blocks = Top(fs).blocks
        /\ Top(ss).shape = Top(fs).shape
    BY MirrorTop
  <1>2. Len(ss) = L /\ \A n \in 1..L : Alike(ss[n], fs[n])
    BY DEF Mirrors
  <1>3. OpBegun(fs, gs, shape, base, terminator)
    BY BeginsOpFacts
  <1>4. ~InBody(ss) => Top(ss).ops > 0
    BY <1>1
  <1>5. OpBegun(ss, ts, shape, base, terminator)
    BY <1>1, <1>4, BeginsOpFacts
  <1>a. /\ Len(gs) = L + 1 /\ L \in Nat \ {0}
        /\ ts \in Seq(Frame) /\ Len(ts) = L + 1
        /\ \A n \in 1..L - 1 : gs[n] = fs[n] /\ ts[n] = ss[n]
    BY <1>2, <1>3, <1>5 DEF OpBegun
  <1>6. \A n \in 1..L + 1 : n \in 1..L - 1 \/ n = L \/ n = L + 1
    BY <1>a
  <1>7. \A n \in 1..L - 1 : n \in 1..L
    BY <1>a
  <1> HIDE DEF L
  <1>8. ASSUME NEW n \in 1..L + 1 PROVE Alike(ts[n], gs[n])
    <2>1. CASE n \in 1..L - 1
      BY <1>2, <1>a, <1>7, <2>1
    <2>2. CASE n = L
      BY <1>1, <1>2, <1>3, <1>5, <2>2 DEF Alike, OpBegun, L
    <2>3. CASE n = L + 1
      BY <1>2, <1>3, <1>5, <2>3 DEF Alike, OpBegun, L
    <2> QED BY <1>6, <2>1, <2>2, <2>3
  <1> QED BY <1>a, <1>8 DEF Mirrors

LEMMA MirrorRegion ==
    ASSUME NEW ss \in Seq(Frame), NEW fs \in Seq(Frame), fs # <<>>, Mirrors(ss, fs),
           Top(fs).regions > 0,
           NEW blocks \in Nat, blocks \in 0..1,
           NEW gs, BeginsRegion(fs, gs, blocks),
           NEW ts, BeginsRegion(ss, ts, blocks)
    PROVE  ts \in Seq(Frame) /\ Mirrors(ts, gs)
  <1> DEFINE L == Len(fs)
  <1>1. /\ ss # <<>>
        /\ Top(ss).kind = Top(fs).kind /\ Top(ss).ops = Top(fs).ops
        /\ Top(ss).base = Top(fs).base /\ (Top(ss).ended <=> Top(fs).ended)
        /\ Top(ss).regions = Top(fs).regions /\ Top(ss).blocks = Top(fs).blocks
        /\ Top(ss).shape = Top(fs).shape
    BY MirrorTop
  <1>2. Len(ss) = L /\ \A n \in 1..L : Alike(ss[n], fs[n])
    BY DEF Mirrors
  <1>3. RegionBegun(fs, gs, blocks)
    BY BeginsRegionFacts
  <1>4. Top(ss).regions > 0
    BY <1>1
  <1>5. RegionBegun(ss, ts, blocks)
    BY <1>1, <1>4, BeginsRegionFacts
  <1>6. /\ Len(gs) = L /\ L \in Nat \ {0}
        /\ ts \in Seq(Frame) /\ Len(ts) = L
        /\ \A n \in 1..L - 1 : gs[n] = fs[n] /\ ts[n] = ss[n]
    BY <1>2, <1>3, <1>5 DEF RegionBegun
  <1>7. \A n \in 1..L : n \in 1..L - 1 \/ n = L
    BY <1>6
  <1>8. \A n \in 1..L - 1 : n \in 1..L
    BY <1>6
  <1> HIDE DEF L
  <1>9. ASSUME NEW n \in 1..L PROVE Alike(ts[n], gs[n])
    <2>1. CASE n \in 1..L - 1
      BY <1>2, <1>6, <1>8, <2>1
    <2>2. CASE n = L
      BY <1>1, <1>2, <1>3, <1>5, <2>2 DEF Alike, RegionBegun, L
    <2> QED BY <1>7, <2>1, <2>2
  <1> QED BY <1>6, <1>9 DEF Mirrors

LEMMA MirrorBlock ==
    ASSUME NEW ss \in Seq(Frame), NEW fs \in Seq(Frame), fs # <<>>, Mirrors(ss, fs),
           Top(fs).blocks > 0,
           NEW ops \in Nat, NEW base \in Nat, NEW defs \in SUBSET Value, NEW none \in SUBSET Value,
           NEW gs, BeginsBlock(fs, gs, ops, base, defs),
           NEW ts, BeginsBlock(ss, ts, ops, base, none)
    PROVE  ts \in Seq(Frame) /\ Mirrors(ts, gs)
  <1> DEFINE L == Len(fs)
  <1>1. /\ ss # <<>>
        /\ Top(ss).kind = Top(fs).kind /\ Top(ss).ops = Top(fs).ops
        /\ Top(ss).base = Top(fs).base /\ (Top(ss).ended <=> Top(fs).ended)
        /\ Top(ss).regions = Top(fs).regions /\ Top(ss).blocks = Top(fs).blocks
        /\ Top(ss).shape = Top(fs).shape
    BY MirrorTop
  <1>2. Len(ss) = L /\ \A n \in 1..L : Alike(ss[n], fs[n])
    BY DEF Mirrors
  <1>3. BlockBegun(fs, gs, ops, base, defs)
    BY BeginsBlockFacts
  <1>4. Top(ss).blocks > 0
    BY <1>1
  <1>5. BlockBegun(ss, ts, ops, base, none)
    BY <1>1, <1>4, BeginsBlockFacts
  <1>6. /\ Len(gs) = L + 1 /\ L \in Nat \ {0}
        /\ ts \in Seq(Frame) /\ Len(ts) = L + 1
        /\ \A n \in 1..L - 1 : gs[n] = fs[n] /\ ts[n] = ss[n]
    BY <1>2, <1>3, <1>5 DEF BlockBegun
  <1>7. \A n \in 1..L + 1 : n \in 1..L - 1 \/ n = L \/ n = L + 1
    BY <1>6
  <1>8. \A n \in 1..L - 1 : n \in 1..L
    BY <1>6
  <1> HIDE DEF L
  <1>9. ASSUME NEW n \in 1..L + 1 PROVE Alike(ts[n], gs[n])
    <2>1. CASE n \in 1..L - 1
      BY <1>2, <1>6, <1>8, <2>1
    <2>2. CASE n = L
      BY <1>1, <1>2, <1>3, <1>5, <2>2 DEF Alike, BlockBegun, L
    <2>3. CASE n = L + 1
      BY <1>2, <1>3, <1>5, <2>3 DEF Alike, BlockBegun, L
    <2> QED BY <1>7, <2>1, <2>2, <2>3
  <1> QED BY <1>6, <1>9 DEF Mirrors

(* A call returns: what is below it is alike, whatever it defines.         *)
Returns(fs, gs) == Len(gs) = Len(fs) - 1 /\ \A n \in 1..Len(fs) - 1 : Alike(fs[n], gs[n])

LEMMA MirrorPop ==
    ASSUME NEW ss \in Seq(Frame), NEW fs \in Seq(Frame), fs # <<>>, Mirrors(ss, fs),
           NEW gs, Returns(fs, gs)
    PROVE  Pop(ss) \in Seq(Frame) /\ Mirrors(Pop(ss), gs)
  <1>1. ss # <<>> /\ Len(ss) = Len(fs)
    <2>1. ss # <<>>
      BY MirrorTop
    <2> QED BY <2>1 DEF Mirrors
  <1>2. /\ Pop(ss) \in Seq(Frame) /\ Len(Pop(ss)) = Len(fs) - 1
        /\ Len(fs) \in Nat \ {0}
        /\ \A n \in 1..Len(fs) - 1 : Pop(ss)[n] = ss[n]
    BY <1>1, PopStack
  <1>a. Len(gs) = Len(fs) - 1 /\ \A n \in 1..Len(fs) - 1 : Alike(fs[n], gs[n])
    BY DEF Returns
  <1>3. ASSUME NEW n \in 1..Len(fs) - 1 PROVE Alike(Pop(ss)[n], gs[n])
    <2>1. n \in 1..Len(fs)
      BY <1>2
    <2>2. Alike(ss[n], fs[n]) /\ Alike(fs[n], gs[n])
      BY <1>a, <2>1 DEF Mirrors
    <2>3. Alike(ss[n], gs[n])
      BY <2>2 DEF Alike
    <2>4. Pop(ss)[n] = ss[n]
      BY <1>2
    <2> QED BY <2>3, <2>4, Zenon
  <1> QED BY <1>2, <1>3, <1>a DEF Mirrors

(* Values join the map, and the list.                                      *)
LEMMA ListsMore ==
    ASSUME NEW list \in Seq(Value), NEW map \in Seq(Entry), Lists(list, map),
           NEW f \in Nat, f \in 1..MaxFunctions, NEW count \in Nat, NEW more \in Nat,
           NEW ext, Len(ext) = Len(map) + more,
           \A i \in 1..Len(map) : ext[i] = map[i],
           \A k \in 1..more : ext[Len(map) + k].value = <<f, count + k>>
    PROVE  /\ list \o Fresh(f, count, more) \in Seq(Value)
           /\ Lists(list \o Fresh(f, count, more), ext)
  <1> DEFINE fresh == Fresh(f, count, more)
             N == Len(map)
             both == list \o fresh
  <1>1. fresh \in Seq(Value) /\ Len(fresh) = more /\ \A k \in 1..more : fresh[k] = <<f, count + k>>
    BY FreshFacts
  <1> HIDE DEF fresh
  <1>2. N \in Nat /\ Len(list) = N /\ \A i \in 1..N : list[i] = map[i].value
    BY LenProperties DEF Lists
  <1>3. /\ both \in Seq(Value) /\ Len(both) = N + more
        /\ \A i \in 1..N + more : both[i] = IF i <= N THEN list[i] ELSE fresh[i - N]
    <2>1. /\ both \in Seq(Value) /\ Len(both) = Len(list) + Len(fresh)
          /\ \A i \in 1..Len(list) + Len(fresh) :
                both[i] = IF i <= Len(list) THEN list[i] ELSE fresh[i - Len(list)]
      BY <1>1, ConcatProperties
    <2> HIDE DEF both
    <2> QED BY <1>1, <1>2, <2>1
  <1> HIDE DEF both
  <1>a. \A k \in 1..more : ext[N + k].value = <<f, count + k>>
    OBVIOUS
  <1>b. \A i \in 1..N : both[i] = ext[i].value
    BY <1>2, <1>3
  <1>c. N + more = Len(ext) /\ Len(list) = N
    BY <1>2
  <1> HIDE DEF N
  <1>4. ASSUME NEW i \in 1..N + more PROVE both[i] = ext[i].value
    <2>1. CASE i <= N
      <3>1. i \in 1..N
        BY <1>2, <2>1
      <3> QED BY <1>b, <3>1
    <2>2. CASE ~(i <= N)
      <3>1. PICK k \in 1..more : i = N + k /\ i - N = k
        BY <1>2, <2>2
      <3>2. both[i] = <<f, count + k>>
        BY <1>1, <1>3, <2>2, <3>1
      <3>3. ext[i].value = <<f, count + k>>
        BY <1>a, <3>1
      <3> QED BY <3>2, <3>3
    <2> QED BY <2>1, <2>2
  <1>5. Lists(both, ext)
    BY <1>3, <1>4, <1>c DEF Lists
  <1> QED BY <1>3, <1>5 DEF both, fresh

(* Both are cut.                                                           *)
LEMMA ListsLess ==
    ASSUME NEW list \in Seq(Value), NEW map \in Seq(Entry), Lists(list, map),
           NEW n \in Nat, n <= Len(map)
    PROVE  /\ SubSeq(list, 1, n) \in Seq(Value)
           /\ Lists(SubSeq(list, 1, n), SubSeq(map, 1, n))
  <1>1. n <= Len(list) /\ Len(map) \in Nat /\ \A i \in 1..Len(map) : list[i] = map[i].value
    BY LenProperties DEF Lists
  <1>2. /\ SubSeq(list, 1, n) \in Seq(Value) /\ Len(SubSeq(list, 1, n)) = n
        /\ \A i \in 1..n : SubSeq(list, 1, n)[i] = list[i]
    BY <1>1, PrefixOf
  <1>3. /\ Len(SubSeq(map, 1, n)) = n
        /\ \A i \in 1..n : SubSeq(map, 1, n)[i] = map[i]
    BY PrefixOf
  <1>4. \A i \in 1..n : i \in 1..Len(map)
    BY <1>1
  <1> QED BY <1>1, <1>2, <1>3, <1>4 DEF Lists

-----------------------------------------------------------------------------
(* For each step of the writer, a step of the parser.                      *)

(* What Number adds to the map, Fresh adds to the list.                    *)
LEMMA ListFollowsMap ==
    ASSUME WriterTypes, WriterInv, frames # <<>>, NEW more \in Nat,
           Number(Fresh(Writing, made, more)),
           NEW list \in Seq(Value), Lists(list, valueIndexMap)
    PROVE  /\ list \o Fresh(Writing, made, more) \in Seq(Value)
           /\ Lists(list \o Fresh(Writing, made, more), valueIndexMap')
  <1>1. /\ Len(valueIndexMap') = Len(valueIndexMap) + more
        /\ \A i \in 1..Len(valueIndexMap) : valueIndexMap'[i] = valueIndexMap[i]
        /\ \A k \in 1..more : valueIndexMap'[Len(valueIndexMap) + k].value = <<Writing, made + k>>
    BY NumberFacts
  <1>2. /\ Writing \in Nat /\ Writing \in 1..MaxFunctions
        /\ valueIndexMap \in Seq(Entry) /\ made \in Nat
    BY WritingFacts DEF WriterTypes
  <1>3. PICK f, count : f = Writing /\ count = made
    OBVIOUS
  <1>4. PICK map, ext : map = valueIndexMap /\ ext = valueIndexMap'
    OBVIOUS
  <1>5. /\ f \in Nat /\ f \in 1..MaxFunctions /\ count \in Nat
        /\ map \in Seq(Entry) /\ Lists(list, map)
        /\ Len(ext) = Len(map) + more
        /\ \A i \in 1..Len(map) : ext[i] = map[i]
        /\ \A k \in 1..more : ext[Len(map) + k].value = <<f, count + k>>
    BY <1>1, <1>2, <1>3, <1>4
  <1>6. /\ list \o Fresh(f, count, more) \in Seq(Value)
        /\ Lists(list \o Fresh(f, count, more), ext)
    BY <1>5, ListsMore
  <1> QED BY <1>3, <1>4, <1>6

(* writeOperation: the operands are found where their indices say.         *)
LEMMA OperandsResolve ==
    ASSUME WriterTypes, WriterInv, frames # <<>>, NEW operands \in Operands,
           NEW list, Lists(list, valueIndexMap),
           NEW looked, looked = [k \in DOMAIN operands |-> Lookup(operands[k])]
    PROVE  /\ looked \in Seq(Nat)
           /\ \A k \in DOMAIN looked : looked[k] < Len(list)
           /\ [k \in DOMAIN looked |-> list[looked[k] + 1]] = operands
  <1>1. /\ operands \in Seq(Value)
        /\ looked \in Seq(Nat)
        /\ \A k \in DOMAIN operands :
              /\ Lookup(operands[k]) \in Nat /\ Lookup(operands[k]) < Len(valueIndexMap)
              /\ valueIndexMap[Lookup(operands[k]) + 1].value = operands[k]
    BY OperandsFacts
  <1>2. DOMAIN looked = DOMAIN operands /\ \A k \in DOMAIN operands : looked[k] = Lookup(operands[k])
    OBVIOUS
  <1>3. /\ Len(list) = Len(valueIndexMap) /\ Len(valueIndexMap) \in Nat
        /\ \A i \in 1..Len(valueIndexMap) : list[i] = valueIndexMap[i].value
    BY LenProperties DEF Lists, WriterTypes
  <1>4. \A k \in DOMAIN looked : looked[k] < Len(list)
    BY <1>1, <1>2, <1>3
  <1>5. ASSUME NEW k \in DOMAIN operands PROVE list[looked[k] + 1] = operands[k]
    <2>1. looked[k] \in Nat /\ looked[k] < Len(valueIndexMap)
          /\ valueIndexMap[looked[k] + 1].value = operands[k]
      BY <1>1, <1>2
    <2>2. looked[k] + 1 \in 1..Len(valueIndexMap)
      BY <1>3, <2>1
    <2> QED BY <1>3, <2>1, <2>2
  <1>6. operands = [k \in DOMAIN operands |-> operands[k]]
    <2>1. operands \in [1..Len(operands) -> Value]
      BY <1>1
    <2> QED BY <2>1
  <1>7. [k \in DOMAIN looked |-> list[looked[k] + 1]] = [k \in DOMAIN operands |-> operands[k]]
    BY <1>2, <1>5
  <1> QED BY <1>1, <1>4, <1>6, <1>7

LEMMA OpGoesOn ==
    ASSUME WriterTypes, WriterInv, NEW s \in State, WriterAt(s),
           NEW shape \in Shape, NEW operands \in Operands, NEW terminator \in BOOLEAN,
           WriteOp(shape, operands, terminator)
    PROVE  \E t \in State : Moves(Writing, body', s, t) /\ WriterAt(t)'
  <1>1. /\ frames # <<>> /\ frames \in Seq(Frame) /\ Top(frames).kind = "block"
        /\ ~InBody(frames) => Top(frames).ops > 0
        /\ BeginsOp(frames, frames', shape, nextValueIndex, terminator)
        /\ nextValueIndex \in Nat /\ nextValueIndex = Len(valueIndexMap)
    BY WriteOpStack, WritingFacts DEF WriterTypes
  <1>2. /\ s.scopes \in Seq(Frame) /\ s.list \in Seq(Value) /\ s.pos = Len(body) /\ s.pos \in Nat
        /\ s.built \in Nat /\ s.built = made /\ s.resolved = uses
        /\ Lists(s.list, valueIndexMap) /\ Len(s.list) = nextValueIndex
        /\ Mirrors(s.scopes, frames)
    BY <1>1, StateFields DEF WriterAt, Lists
  <1> DEFINE looked == [k \in DOMAIN operands |-> Lookup(operands[k])]
             token == [kind |-> "op", shape |-> shape, operands |-> looked,
                       terminator |-> terminator]
  <1>3. /\ body' = Append(body, token) /\ uses' = Append(uses, operands)
        /\ UNCHANGED <<table, made, valueIndexMap>>
    BY Zenon DEF WriteOp
  <1>4. /\ looked \in Seq(Nat)
        /\ \A k \in DOMAIN looked : looked[k] < Len(s.list)
        /\ [k \in DOMAIN looked |-> s.list[looked[k] + 1]] = operands
    BY <1>1, <1>2, OperandsResolve
  <1> HIDE DEF looked
  <1>5. /\ token.kind = "op" /\ token.shape = shape /\ token.operands = looked
        /\ (token.terminator <=> terminator)
    OBVIOUS
  <1>6. token \in Token
    <2>1. token \in [kind : {"op"}, shape : Shape, operands : Seq(Nat), terminator : BOOLEAN]
      BY <1>4
    <2> QED BY <2>1 DEF Token
  <1>7. token.terminator = terminator
    BY Zenon
  <1> HIDE DEF token
  <1>8. /\ Len(body') = Len(body) + 1 /\ Len(body) < Len(body')
        /\ body'[Len(body) + 1] = token
    BY <1>3, <1>6, GrowsBy DEF WriterTypes
  <1>9. PICK ts : BeginsOp(s.scopes, ts, shape, nextValueIndex, terminator)
    BY Zenon DEF BeginsOp
  <1>10. ts \in Seq(Frame) /\ Mirrors(ts, frames')
    BY <1>1, <1>2, <1>9, MirrorOp
  <1>11. uses' \in Seq(Seq(Value))
    BY WriteOpTypes
  <1>12. PICK t \in State : /\ t.scopes = ts /\ t.pos = Len(body) + 1 /\ t.list = s.list
                            /\ t.built = made /\ t.resolved = uses'
    <2>1. PICK n \in Nat : n = Len(body) + 1
      BY <1>2
    <2>2. PICK t : t = StateOf(ts, n, s.list, made, uses')
      OBVIOUS
    <2>3. ts \in Seq(Frame) /\ s.list \in Seq(Value) /\ made \in Nat /\ uses' \in Seq(Seq(Value))
      BY <1>2, <1>10, <1>11
    <2>4. /\ t \in State
          /\ t.scopes = ts /\ t.pos = n /\ t.list = s.list
          /\ t.built = made /\ t.resolved = uses'
      BY <2>2, <2>3, AState
    <2> QED BY <2>1, <2>4
  <1>13. ParsesOp(token, s, t)
    <2>1. /\ s.scopes # <<>> /\ Top(s.scopes).kind = "block"
          /\ ~InBody(s.scopes) => Top(s.scopes).ops > 0
      BY <1>1, <1>2, MirrorTop
    <2>2. BeginsOp(s.scopes, t.scopes, token.shape, Len(s.list), token.terminator)
      BY <1>2, <1>5, <1>7, <1>9, <1>12, Zenon
    <2>3. t.resolved = Append(s.resolved,
                              [k \in DOMAIN token.operands |-> s.list[token.operands[k] + 1]])
      BY <1>2, <1>3, <1>4, <1>5, <1>12, Zenon
    <2>4. \A k \in DOMAIN token.operands : token.operands[k] < Len(s.list)
      BY <1>4, <1>5, Zenon
    <2>5. t.pos = s.pos + 1 /\ t.list = s.list /\ t.built = s.built
      BY <1>2, <1>12, Zenon
    <2> QED BY <1>5, <2>1, <2>2, <2>3, <2>4, <2>5, Zenon DEF ParsesOp, OnTop
  <1>14. Moves(Writing, body', s, t)
    <2>1. s.pos < Len(body') /\ body'[s.pos + 1] = token
      BY <1>2, <1>8, Zenon
    <2> QED BY <1>13, <2>1, Zenon DEF Moves
  <1>15. WriterAt(t)'
    BY <1>2, <1>3, <1>8, <1>10, <1>12, Zenon DEF WriterAt
  <1> QED BY <1>14, <1>15

LEMMA RegionGoesOn ==
    ASSUME WriterTypes, WriterInv, NEW s \in State, WriterAt(s),
           NEW blocks \in Nat, blocks \in 0..1, WriteRegion(blocks)
    PROVE  \E t \in State : Moves(Writing, body', s, t) /\ WriterAt(t)'
  <1>1. /\ frames # <<>> /\ frames \in Seq(Frame) /\ Top(frames).kind = "op"
        /\ Top(frames).regions > 0 /\ Top(frames).blocks = 0
        /\ BeginsRegion(frames, frames', blocks)
        /\ body \in Seq(Token) /\ made \in Nat
    BY WriteRegionStack DEF WriterTypes
  <1>2. /\ s.scopes \in Seq(Frame) /\ s.list \in Seq(Value) /\ s.pos = Len(body) /\ s.pos \in Nat
        /\ s.built = made /\ s.resolved = uses /\ s.resolved \in Seq(Seq(Value))
        /\ Lists(s.list, valueIndexMap)
        /\ Mirrors(s.scopes, frames)
    BY <1>1, StateFields DEF WriterAt
  <1> DEFINE token == [kind |-> "region", blocks |-> blocks]
  <1>3. /\ body' = Append(body, token)
        /\ UNCHANGED <<table, made, valueIndexMap, uses>>
    BY Zenon DEF WriteRegion
  <1>5. token.kind = "region" /\ token.blocks = blocks /\ token \in Token
    BY DEF Token
  <1> HIDE DEF token
  <1>8. /\ Len(body') = Len(body) + 1 /\ Len(body) < Len(body')
        /\ body'[Len(body) + 1] = token
    BY <1>1, <1>3, <1>5, GrowsBy
  <1>9. PICK ts : BeginsRegion(s.scopes, ts, blocks)
    BY Zenon DEF BeginsRegion
  <1>10. ts \in Seq(Frame) /\ Mirrors(ts, frames')
    BY <1>1, <1>2, <1>9, MirrorRegion
  <1>12. PICK t \in State : /\ t.scopes = ts /\ t.pos = Len(body) + 1 /\ t.list = s.list
                            /\ t.built = made /\ t.resolved = uses
    <2>1. PICK n \in Nat : n = Len(body) + 1
      BY <1>2
    <2>2. PICK t : t = StateOf(ts, n, s.list, made, uses)
      OBVIOUS
    <2>3. ts \in Seq(Frame) /\ s.list \in Seq(Value) /\ made \in Nat /\ uses \in Seq(Seq(Value))
      BY <1>1, <1>2, <1>10
    <2>4. /\ t \in State
          /\ t.scopes = ts /\ t.pos = n /\ t.list = s.list
          /\ t.built = made /\ t.resolved = uses
      BY <2>2, <2>3, AState
    <2> QED BY <2>1, <2>4
  <1>13. ParsesRegion(token, s, t)
    <2>1. /\ s.scopes # <<>> /\ Top(s.scopes).kind = "op"
          /\ Top(s.scopes).regions > 0 /\ Top(s.scopes).blocks = 0
      BY <1>1, <1>2, MirrorTop
    <2> QED BY <1>2, <1>5, <1>9, <1>12, <2>1, Zenon DEF ParsesRegion, OnTop
  <1>14. Moves(Writing, body', s, t)
    <2>1. s.pos < Len(body') /\ body'[s.pos + 1] = token
      BY <1>2, <1>8, Zenon
    <2> QED BY <1>13, <2>1, Zenon DEF Moves
  <1>15. WriterAt(t)'
    BY <1>2, <1>3, <1>8, <1>10, <1>12, Zenon DEF WriterAt
  <1> QED BY <1>14, <1>15

LEMMA BlockGoesOn ==
    ASSUME WriterTypes, WriterInv, NEW s \in State, WriterAt(s),
           NEW args \in Nat, NEW ops \in Nat, ops # 0, WriteBlock(args, ops)
    PROVE  \E t \in State : Moves(Writing, body', s, t) /\ WriterAt(t)'
  <1> DEFINE defs == ToSet(Fresh(Writing, made, args))
             none == {}
             list == s.list \o Fresh(Writing, made, args)
  <1>1. /\ frames # <<>> /\ frames \in Seq(Frame) /\ Top(frames).kind = "op"
        /\ Top(frames).blocks > 0
        /\ BeginsBlock(frames, frames', ops, nextValueIndex, defs)
        /\ Number(Fresh(Writing, made, args))
        /\ body \in Seq(Token) /\ made \in Nat
        /\ nextValueIndex \in Nat
    BY WriteBlockStack DEF WriterTypes
  <1>a. /\ Writing \in Nat /\ Writing \in 1..MaxFunctions
        /\ valueIndexMap \in Seq(Entry)
        /\ nextValueIndex = Len(valueIndexMap)
    BY <1>1, WritingFacts
  <1>b. defs \in SUBSET Value
    <2>1. Writing \in Nat /\ Writing \in 1..MaxFunctions /\ made \in Nat /\ args \in Nat
      BY <1>1, <1>a
    <2>2. defs \subseteq Value
      BY <2>1, FreshFacts
    <2> QED BY <2>2
  <1> HIDE DEF defs
  <1>2. /\ s.scopes \in Seq(Frame) /\ s.list \in Seq(Value) /\ s.pos = Len(body) /\ s.pos \in Nat
        /\ s.built = made /\ s.resolved = uses /\ s.resolved \in Seq(Seq(Value))
        /\ Lists(s.list, valueIndexMap) /\ Len(s.list) = nextValueIndex
        /\ Mirrors(s.scopes, frames)
    BY <1>1, <1>a, StateFields DEF WriterAt, Lists
  <1> DEFINE token == [kind |-> "block", args |-> args, ops |-> ops]
  <1>3. /\ body' = Append(body, token) /\ made' = made + args
        /\ UNCHANGED <<table, uses>>
    BY Zenon DEF WriteBlock
  <1>4. made' \in Nat
    BY <1>1, <1>3
  <1>5. token.kind = "block" /\ token.args = args /\ token.ops = ops /\ token \in Token
    BY DEF Token
  <1> HIDE DEF token
  <1>6. list \in Seq(Value) /\ Lists(list, valueIndexMap')
    BY <1>1, <1>2, ListFollowsMap
  <1>7. list = s.list \o Fresh(Writing, s.built, args)
    BY <1>2, Zenon
  <1> HIDE DEF list
  <1>8. /\ Len(body') = Len(body) + 1 /\ Len(body) < Len(body')
        /\ body'[Len(body) + 1] = token
    BY <1>1, <1>3, <1>5, GrowsBy
  <1>9. PICK ts : BeginsBlock(s.scopes, ts, ops, nextValueIndex, none)
    BY Zenon DEF BeginsBlock
  <1>10. ts \in Seq(Frame) /\ Mirrors(ts, frames')
    <2>1. none \in SUBSET Value
      OBVIOUS
    <2> HIDE DEF none
    <2> QED BY <1>1, <1>2, <1>b, <1>9, <2>1, MirrorBlock
  <1>12. PICK t \in State : /\ t.scopes = ts /\ t.pos = Len(body) + 1 /\ t.list = list
                            /\ t.built = made' /\ t.resolved = uses
    <2>1. PICK n \in Nat : n = Len(body) + 1
      BY <1>2
    <2>2. PICK t : t = StateOf(ts, n, list, made', uses)
      OBVIOUS
    <2>3. ts \in Seq(Frame) /\ list \in Seq(Value) /\ made' \in Nat /\ uses \in Seq(Seq(Value))
      BY <1>2, <1>4, <1>6, <1>10
    <2>4. /\ t \in State
          /\ t.scopes = ts /\ t.pos = n /\ t.list = list
          /\ t.built = made' /\ t.resolved = uses
      BY <2>2, <2>3, AState
    <2> QED BY <2>1, <2>4
  <1>13. ParsesBlock(Writing, token, s, t)
    <2>1. /\ s.scopes # <<>> /\ Top(s.scopes).kind = "op"
          /\ Top(s.scopes).blocks > 0
      BY <1>1, <1>2, MirrorTop
    <2>2. BeginsBlock(s.scopes, t.scopes, token.ops, Len(s.list), {})
      BY <1>2, <1>5, <1>9, <1>12, Zenon
    <2>3. t.list = s.list \o Fresh(Writing, s.built, token.args)
      BY <1>5, <1>7, <1>12, Zenon
    <2>4. t.built = s.built + token.args
      BY <1>2, <1>3, <1>5, <1>12, Zenon
    <2>5. t.pos = s.pos + 1 /\ t.resolved = s.resolved
      BY <1>2, <1>12, Zenon
    <2> QED BY <1>5, <2>1, <2>2, <2>3, <2>4, <2>5, Zenon DEF ParsesBlock, OnTop
  <1>14. Moves(Writing, body', s, t)
    <2>1. s.pos < Len(body') /\ body'[s.pos + 1] = token
      BY <1>2, <1>8, Zenon
    <2> QED BY <1>13, <2>1, Zenon DEF Moves
  <1>15. WriterAt(t)'
    BY <1>2, <1>3, <1>6, <1>8, <1>10, <1>12, Zenon DEF WriterAt
  <1> QED BY <1>14, <1>15

LEMMA BlockEndGoesOn ==
    ASSUME WriterTypes, WriterInv, NEW s \in State, WriterAt(s), FinishBlock
    PROVE  \E t \in State : Moves(Writing, body', s, t) /\ WriterAt(t)'
  <1> DEFINE L == Len(frames)
             list == SubSeq(s.list, 1, nextValueIndex')
  <1>1. /\ frames # <<>> /\ L \in Nat /\ L > 1
        /\ frames[L].kind = "block" /\ frames[L].ops = 0
        /\ frames' = Pop(frames)
        /\ nextValueIndex' = frames[L].base
        /\ nextValueIndex' \in Nat /\ nextValueIndex' <= Len(valueIndexMap)
        /\ valueIndexMap' = SubSeq(valueIndexMap, 1, nextValueIndex')
    BY FinishBlockFacts
  <1>2. /\ UNCHANGED <<table, made, body, uses>>
        /\ frames \in Seq(Frame) /\ made \in Nat /\ valueIndexMap \in Seq(Entry)
    BY DEF FinishBlock, WriterTypes, Entry
  <1>3. /\ s.scopes \in Seq(Frame) /\ s.list \in Seq(Value) /\ s.pos = Len(body) /\ s.pos \in Nat
        /\ s.built = made /\ s.resolved = uses /\ s.resolved \in Seq(Seq(Value))
        /\ Lists(s.list, valueIndexMap)
        /\ Mirrors(s.scopes, frames)
    BY StateFields DEF WriterAt
  <1>4. frames[L].ended
    <2>1. L \in 1..L
      BY <1>1
    <2>2. Stacked(frames, valueIndexMap)
      BY <1>1, WritingFacts DEF Scoped
    <2> QED BY <1>1, <2>1, <2>2 DEF Stacked
  <1>5. /\ s.scopes # <<>> /\ ~InBody(s.scopes)
        /\ Top(s.scopes).kind = "block" /\ Top(s.scopes).ops = 0 /\ Top(s.scopes).ended
        /\ Top(s.scopes).base = nextValueIndex'
    <2>1. /\ s.scopes # <<>> /\ (InBody(s.scopes) <=> InBody(frames))
          /\ Top(s.scopes).kind = Top(frames).kind /\ Top(s.scopes).ops = Top(frames).ops
          /\ Top(s.scopes).base = Top(frames).base /\ (Top(s.scopes).ended <=> Top(frames).ended)
      BY <1>1, <1>2, <1>3, MirrorTop
    <2>2. ~InBody(frames) /\ Top(frames) = frames[L]
      BY <1>1 DEF InBody, Top
    <2> QED BY <1>1, <1>4, <2>1, <2>2
  <1>6. Pop(s.scopes) \in Seq(Frame) /\ Mirrors(Pop(s.scopes), frames')
    <2>1. /\ Len(frames') = L - 1 /\ \A n \in 1..L - 1 : frames'[n] = frames[n]
      BY <1>1, <1>2, PopStack
    <2>2. \A n \in 1..L - 1 : Alike(frames[n], frames'[n])
      BY <2>1 DEF Alike
    <2>3. PICK gs : gs = frames'
      OBVIOUS
    <2>4. /\ s.scopes \in Seq(Frame) /\ frames \in Seq(Frame) /\ frames # <<>>
          /\ Mirrors(s.scopes, frames)
          /\ Returns(frames, gs)
      BY <1>1, <1>2, <1>3, <2>1, <2>2, <2>3 DEF Returns
    <2>5. Pop(s.scopes) \in Seq(Frame) /\ Mirrors(Pop(s.scopes), gs)
      BY <2>4, MirrorPop
    <2> QED BY <2>3, <2>5
  <1>7. list \in Seq(Value) /\ Lists(list, valueIndexMap')
    <2>1. PICK n \in Nat : n = nextValueIndex'
      BY <1>1
    <2>2. SubSeq(s.list, 1, n) \in Seq(Value) /\ Lists(SubSeq(s.list, 1, n), SubSeq(valueIndexMap, 1, n))
      BY <1>1, <1>2, <1>3, <2>1, ListsLess
    <2> QED BY <1>1, <2>1, <2>2
  <1>8. list = SubSeq(s.list, 1, Top(s.scopes).base)
    BY <1>5, Zenon
  <1> HIDE DEF list
  <1>9. PICK t \in State : /\ t.scopes = Pop(s.scopes) /\ t.pos = s.pos /\ t.list = list
                           /\ t.built = made /\ t.resolved = uses
    <2>1. PICK t : t = StateOf(Pop(s.scopes), s.pos, list, made, uses)
      OBVIOUS
    <2>2. /\ Pop(s.scopes) \in Seq(Frame) /\ s.pos \in Nat /\ list \in Seq(Value) /\ made \in Nat
          /\ uses \in Seq(Seq(Value))
      BY <1>2, <1>3, <1>6, <1>7
    <2>3. /\ t \in State
          /\ t.scopes = Pop(s.scopes) /\ t.pos = s.pos /\ t.list = list
          /\ t.built = made /\ t.resolved = uses
      BY <2>1, <2>2, AState
    <2> QED BY <2>3
  <1>10. LeavesBlock(s, t)
    BY <1>3, <1>5, <1>8, <1>9, Zenon DEF LeavesBlock, OnTop
  <1>11. WriterAt(t)'
    BY <1>2, <1>3, <1>6, <1>7, <1>9, Zenon DEF WriterAt
  <1> QED BY <1>10, <1>11, Zenon DEF Moves

LEMMA OpEndGoesOn ==
    ASSUME WriterTypes, WriterInv, NEW s \in State, WriterAt(s), FinishOp
    PROVE  \E t \in State : Moves(Writing, body', s, t) /\ WriterAt(t)'
  <1> DEFINE L == Len(frames)
             more == frames[L].shape.results
             m == L - 1
             list == s.list \o Fresh(Writing, made, more)
  <1>1. /\ frames # <<>> /\ L \in Nat /\ L > 1
        /\ frames[L].kind = "op" /\ frames[L].regions = 0 /\ frames[L].blocks = 0
        /\ frames[m].kind = "block"
        /\ more \in Nat /\ frames[L].shape.gated \in Nat
        /\ Number(Fresh(Writing, made, more))
        /\ made' = made + more + frames[L].shape.gated
        /\ frames' \in Seq(Frame) /\ Len(frames') = m
        /\ \A n \in 1..L - 2 : frames'[n] = frames[n]
        /\ frames'[m].kind = "block" /\ frames'[m].base = frames[m].base
        /\ frames'[m].ops = frames[m].ops
        /\ (frames'[m].ended <=> frames[m].ended)
        /\ frames'[m].regions = frames[m].regions
        /\ frames'[m].blocks = frames[m].blocks
        /\ frames'[m].shape = frames[m].shape
    BY FinishOpFacts, Zenon
  <1>2. /\ UNCHANGED <<table, body, uses>>
        /\ frames \in Seq(Frame) /\ made \in Nat
    BY DEF FinishOp, WriterTypes
  <1> HIDE DEF more
  <1>a. /\ Writing \in Nat /\ Writing \in 1..MaxFunctions
        /\ valueIndexMap \in Seq(Entry)
    BY <1>1, WritingFacts
  <1>3. /\ s.scopes \in Seq(Frame) /\ s.list \in Seq(Value) /\ s.pos = Len(body) /\ s.pos \in Nat
        /\ s.built = made /\ s.resolved = uses /\ s.resolved \in Seq(Seq(Value))
        /\ Lists(s.list, valueIndexMap)
        /\ Mirrors(s.scopes, frames)
    BY StateFields DEF WriterAt
  <1>4. made' \in Nat
    BY <1>1, <1>2
  <1>5. /\ s.scopes # <<>>
        /\ Top(s.scopes).kind = "op" /\ Top(s.scopes).regions = 0 /\ Top(s.scopes).blocks = 0
        /\ Top(s.scopes).shape = frames[L].shape
    <2>1. /\ s.scopes # <<>>
          /\ Top(s.scopes).kind = Top(frames).kind
          /\ Top(s.scopes).regions = Top(frames).regions
          /\ Top(s.scopes).blocks = Top(frames).blocks
          /\ Top(s.scopes).shape = Top(frames).shape
      BY <1>1, <1>2, <1>3, MirrorTop
    <2>2. Top(frames) = frames[L]
      BY DEF Top
    <2> QED BY <1>1, <2>1, <2>2
  <1>6. Pop(s.scopes) \in Seq(Frame) /\ Mirrors(Pop(s.scopes), frames')
    <2>1. ASSUME NEW n \in 1..m PROVE Alike(frames[n], frames'[n])
      <3>1. CASE n = m
        BY <1>1, <3>1 DEF Alike
      <3>2. CASE n # m
        <4>1. L \in Nat
          BY <1>1
        <4> HIDE DEF L
        <4>2. n \in 1..L - 2
          BY <3>2, <4>1
        <4> QED BY <1>1, <4>2 DEF Alike
      <3> QED BY <3>1, <3>2
    <2>3. PICK gs : gs = frames'
      OBVIOUS
    <2>4. /\ s.scopes \in Seq(Frame) /\ frames \in Seq(Frame) /\ frames # <<>>
          /\ Mirrors(s.scopes, frames)
          /\ Returns(frames, gs)
      BY <1>1, <1>2, <1>3, <2>1, <2>3 DEF Returns
    <2>5. Pop(s.scopes) \in Seq(Frame) /\ Mirrors(Pop(s.scopes), gs)
      BY <2>4, MirrorPop
    <2> QED BY <2>3, <2>5
  <1>7. list \in Seq(Value) /\ Lists(list, valueIndexMap')
    BY <1>1, <1>3, ListFollowsMap
  <1>8. /\ list = s.list \o Fresh(Writing, s.built, Top(s.scopes).shape.results)
        /\ made' = s.built + Top(s.scopes).shape.results + Top(s.scopes).shape.gated
    BY <1>1, <1>3, <1>5, Zenon DEF more
  <1> HIDE DEF list
  <1>9. PICK t \in State : /\ t.scopes = Pop(s.scopes) /\ t.pos = s.pos /\ t.list = list
                           /\ t.built = made' /\ t.resolved = uses
    <2>1. PICK t : t = StateOf(Pop(s.scopes), s.pos, list, made', uses)
      OBVIOUS
    <2>2. /\ Pop(s.scopes) \in Seq(Frame) /\ s.pos \in Nat /\ list \in Seq(Value) /\ made' \in Nat
          /\ uses \in Seq(Seq(Value))
      BY <1>3, <1>4, <1>6, <1>7
    <2>3. /\ t \in State
          /\ t.scopes = Pop(s.scopes) /\ t.pos = s.pos /\ t.list = list
          /\ t.built = made' /\ t.resolved = uses
      BY <2>1, <2>2, AState
    <2> QED BY <2>3
  <1>10. LeavesOp(Writing, s, t)
    BY <1>3, <1>5, <1>8, <1>9, Zenon DEF LeavesOp, OnTop
  <1>11. WriterAt(t)'
    BY <1>2, <1>3, <1>6, <1>7, <1>9, Zenon DEF WriterAt
  <1> QED BY <1>10, <1>11, Zenon DEF Moves

-----------------------------------------------------------------------------
(* The runs of the bodies.                                                 *)

(* writeFunctionBody: the run is where createFunction would start.         *)
LEMMA StartRuns ==
    ASSUME WriterTypes, WriterInv, NEW args \in Nat, StartFunction(args)
    PROVE  \E run : /\ Replays(run, Writing, args, <<>>, <<>>)
                    /\ WriterAt(run[Len(run)])'
  <1> DEFINE b == BlockFrame(0, 0, {})
             fresh == Fresh(Writing, 0, args)
  <1>1. /\ \A k \in 1..args : valueIndexMap'[k].value = <<Writing, k>>
        /\ Len(valueIndexMap') = args
        /\ Len(frames') = 1 /\ frames'[1] = BlockFrame(0, 0, ToSet(fresh))
    <2>1. /\ \A k \in 1..args : valueIndexMap'[k].value = <<Writing, k>>
          /\ Len(valueIndexMap') = args
          /\ Len(frames') = 1
          /\ frames'[1] = BlockFrame(0, 0, ToSet(Fresh(Writing, 0, args)))
      BY StartFunctionKeeps, Zenon
    <2> QED BY <2>1, Zenon
  <1>2. Writing \in Nat /\ Writing \in 1..MaxFunctions
    BY LenProperties, BoundsAssumption DEF WriterTypes, StartFunction, Writing
  <1>3. /\ fresh \in Seq(Value) /\ Len(fresh) = args
        /\ \A k \in 1..args : fresh[k] = <<Writing, 0 + k>>
        /\ ToSet(fresh) \subseteq Value
    <2>1. Writing \in Nat /\ Writing \in 1..MaxFunctions /\ args \in Nat /\ 0 \in Nat
      BY <1>2
    <2> QED BY <2>1, FreshFacts
  <1> HIDE DEF fresh
  <1>4. b \in Frame
    <2>1. PICK n \in Nat : n = 0
      OBVIOUS
    <2>2. PICK none \in SUBSET Value : none = {}
      OBVIOUS
    <2>3. PICK f : f = BlockFrame(n, n, none)
      OBVIOUS
    <2>4. f \in Frame
      BY <2>3, BlockFrameFacts
    <2> QED BY <2>1, <2>2, <2>3, <2>4
  <1>5. Alike(b, frames'[1])
    <2>1. PICK g : g = frames'[1]
      OBVIOUS
    <2>2. PICK d : d = ToSet(fresh)
      OBVIOUS
    <2>3. g = BlockFrame(0, 0, d)
      BY <1>1, <2>1, <2>2, Zenon
    <2>4. Alike(b, g)
      BY <2>3 DEF Alike, BlockFrame
    <2> QED BY <2>1, <2>4, Zenon
  <1> HIDE DEF b
  <1>6. Lists(fresh, valueIndexMap')
    <2>1. \A k \in 1..args : fresh[k] = <<Writing, k>>
      BY <1>3
    <2> QED BY <1>1, <1>3, <2>1 DEF Lists
  <1>7. Mirrors(<<b>>, frames')
    BY <1>1, <1>5 DEF Mirrors
  <1>8. PICK t : t = StateOf(<<b>>, 0, fresh, args, <<>>)
    OBVIOUS
  <1>9. /\ t \in State
        /\ t.scopes = <<b>> /\ t.pos = 0 /\ t.list = fresh
        /\ t.built = args /\ t.resolved = <<>>
    <2>1. PICK ss \in Seq(Frame) : ss = <<b>>
      <3>1. <<b>> \in Seq(Frame)
        BY <1>4
      <3> QED BY <3>1
    <2>2. PICK n \in Nat : n = 0
      OBVIOUS
    <2>3. PICK us \in Seq(Seq(Value)) : us = <<>>
      BY EmptySeq
    <2>4. t = StateOf(ss, n, fresh, args, us) /\ fresh \in Seq(Value)
      BY <1>3, <1>8, <2>1, <2>2, <2>3
    <2>5. /\ t \in State
          /\ t.scopes = ss /\ t.pos = n /\ t.list = fresh
          /\ t.built = args /\ t.resolved = us
      BY <2>4, AState
    <2> QED BY <2>1, <2>2, <2>3, <2>5
  <1>10. body' = <<>> /\ uses' = <<>> /\ made' = args
    BY DEF StartFunction
  <1>11. WriterAt(t)'
    <2>1. t.pos = Len(body')
      BY <1>9, <1>10
    <2> QED BY <1>6, <1>7, <1>9, <1>10, <2>1, Zenon DEF WriterAt
  <1> DEFINE run == <<t>>
  <1>12. run \in Seq(State) /\ run # <<>> /\ Len(run) = 1 /\ run[1] = t
    BY <1>9
  <1> HIDE DEF run
  <1>13. Starts(t, Writing, args)
    BY <1>9, Zenon DEF Starts, b, fresh
  <1>14. Prefix(t.resolved, <<>>)
    BY <1>9 DEF Prefix
  <1>15. Replays(run, Writing, args, <<>>, <<>>)
    BY <1>12, <1>13, <1>14 DEF Replays
  <1>16. WriterAt(run[Len(run)])'
    <2>1. run[Len(run)] = t
      BY <1>12
    <2> QED BY <1>11, <2>1, Zenon
  <1> QED BY <1>15, <1>16

(* A step of the writer on which the run goes on.                          *)
LEMMA GoesOn ==
    ASSUME BodyReplays, frames # <<>>, UNCHANGED <<table, params>>,
           body \in Seq(Token), body' \in Seq(Token), Grows(body, body'), Prefix(uses, uses'),
           \A s \in State : WriterAt(s) =>
               \E t \in State : Moves(Writing, body', s, t) /\ WriterAt(t)'
    PROVE  BodyReplays'
  <1>1. PICK run : Replays(run, Writing, params, body, uses) /\ WriterAt(run[Len(run)])
    BY Zenon DEF BodyReplays
  <1>2. run[Len(run)] \in State
    <2>1. run \in Seq(State) /\ Len(run) \in 1..Len(run)
      BY <1>1, StackElements DEF Replays
    <2> QED BY <2>1, ElementOfSeq
  <1>3. PICK t \in State : Moves(Writing, body', run[Len(run)], t) /\ WriterAt(t)'
    BY <1>1, <1>2, Zenon
  <1>4. t.resolved = uses'
    BY <1>3, Zenon DEF WriterAt
  <1>5. PICK longer : Replays(longer, Writing, params, body', uses') /\ longer[Len(longer)] = t
    <2>1. PICK c \in Seq(Token) : c = body'
      OBVIOUS
    <2>2. PICK v : v = uses'
      OBVIOUS
    <2>3. Grows(body, c) /\ Prefix(uses, v) /\ Moves(Writing, c, run[Len(run)], t) /\ t.resolved = v
      BY <1>3, <1>4, <2>1, <2>2, Zenon
    <2>4. \E longer : Replays(longer, Writing, params, c, v) /\ longer[Len(longer)] = t
      BY <1>1, <2>3, ExtendRun
    <2> QED BY <2>1, <2>2, <2>4
  <1>6. Writing' = Writing
    BY DEF Writing
  <1>7. WriterAt(longer[Len(longer)])'
    BY <1>3, <1>5, Zenon
  <1> QED BY <1>5, <1>6, <1>7, Zenon DEF BodyReplays

LEMMA UsesGrow ==
    ASSUME WriterTypes
    PROVE  Prefix(uses, uses) /\ Grows(body, body) /\ body \in Seq(Token)
  BY DEF WriterTypes, Prefix, Grows

LEMMA OpKeepsRun ==
    ASSUME WriterTypes, WriterInv, BodyReplays,
           NEW shape \in Shape, NEW operands \in Operands, NEW terminator \in BOOLEAN,
           WriteOp(shape, operands, terminator)
    PROVE  BodyReplays'
  <1>1. frames # <<>> /\ operands \in Seq(Value) /\ uses \in Seq(Seq(Value))
    BY WriteOpStack, OperandsFacts DEF WriterTypes
  <1>2. UNCHANGED <<table, params>> /\ uses' = Append(uses, operands)
        /\ \E e : body' = Append(body, e)
    BY Zenon DEF WriteOp
  <1>3. body \in Seq(Token) /\ body' \in Seq(Token)
    BY WriteOpTypes DEF WriterTypes
  <1>4. Prefix(uses, uses')
    BY <1>1, <1>2, PrefixBy
  <1>5. Grows(body, body')
    <2>1. PICK e : body' = Append(body, e)
      BY <1>2
    <2>2. Len(body') = Len(body) + 1 /\ \A i \in 1..Len(body) : body'[i] = body[i]
      BY <1>3, <2>1
    <2>3. Len(body) \in Nat
      BY <1>3, LenProperties
    <2> QED BY <2>2, <2>3 DEF Grows
  <1>6. \A s \in State : WriterAt(s) => \E t \in State : Moves(Writing, body', s, t) /\ WriterAt(t)'
    BY OpGoesOn
  <1> QED BY <1>1, <1>2, <1>3, <1>4, <1>5, <1>6, GoesOn, Zenon

LEMMA RegionKeepsRun ==
    ASSUME WriterTypes, WriterInv, BodyReplays,
           NEW blocks \in Nat, blocks \in 0..1, WriteRegion(blocks)
    PROVE  BodyReplays'
  <1>1. frames # <<>>
    BY WriteRegionStack
  <1>2. /\ UNCHANGED <<table, params, uses>>
        /\ body' = Append(body, [kind |-> "region", blocks |-> blocks])
    BY Zenon DEF WriteRegion
  <1>3. [kind |-> "region", blocks |-> blocks] \in Token
    BY DEF Token
  <1>4. body \in Seq(Token) /\ body' \in Seq(Token) /\ Grows(body, body')
    BY <1>2, <1>3, GrowsBy DEF WriterTypes
  <1>5. Prefix(uses, uses')
    BY <1>2, UsesGrow, Zenon
  <1>6. \A s \in State : WriterAt(s) => \E t \in State : Moves(Writing, body', s, t) /\ WriterAt(t)'
    BY RegionGoesOn
  <1> QED BY <1>1, <1>2, <1>4, <1>5, <1>6, GoesOn, Zenon

LEMMA BlockKeepsRun ==
    ASSUME WriterTypes, WriterInv, BodyReplays,
           NEW args \in Nat, NEW ops \in Nat, ops # 0, WriteBlock(args, ops)
    PROVE  BodyReplays'
  <1>1. frames # <<>>
    BY WriteBlockStack
  <1>2. /\ UNCHANGED <<table, params, uses>>
        /\ body' = Append(body, [kind |-> "block", args |-> args, ops |-> ops])
    BY Zenon DEF WriteBlock
  <1>3. [kind |-> "block", args |-> args, ops |-> ops] \in Token
    BY DEF Token
  <1>4. body \in Seq(Token) /\ body' \in Seq(Token) /\ Grows(body, body')
    BY <1>2, <1>3, GrowsBy DEF WriterTypes
  <1>5. Prefix(uses, uses')
    BY <1>2, UsesGrow, Zenon
  <1>6. \A s \in State : WriterAt(s) => \E t \in State : Moves(Writing, body', s, t) /\ WriterAt(t)'
    BY BlockGoesOn
  <1> QED BY <1>1, <1>2, <1>4, <1>5, <1>6, GoesOn, Zenon

LEMMA EndKeepsRun ==
    ASSUME WriterTypes, WriterInv, BodyReplays, FinishBlock \/ FinishOp
    PROVE  BodyReplays'
  <1>1. frames # <<>> /\ UNCHANGED <<table, params, body, uses>>
    BY DEF FinishBlock, FinishOp, OnTop
  <1>2. body \in Seq(Token) /\ body' \in Seq(Token) /\ Grows(body, body') /\ Prefix(uses, uses')
    BY <1>1, UsesGrow, Zenon
  <1>3. \A s \in State : WriterAt(s) => \E t \in State : Moves(Writing, body', s, t) /\ WriterAt(t)'
    BY BlockEndGoesOn, OpEndGoesOn
  <1> QED BY <1>1, <1>2, <1>3, GoesOn, Zenon

LEMMA StartKeepsRun ==
    ASSUME WriterTypes, WriterInv, NEW args \in Nat, StartFunction(args)
    PROVE  BodyReplays'
  <1>1. PICK run : Replays(run, Writing, args, <<>>, <<>>) /\ WriterAt(run[Len(run)])'
    BY StartRuns, Zenon
  <1>2. params' = args /\ body' = <<>> /\ uses' = <<>> /\ table' = table
    BY DEF StartFunction
  <1>3. Writing' = Writing
    BY <1>2 DEF Writing
  <1> QED BY <1>1, <1>2, <1>3, Zenon DEF BodyReplays

(* The body goes into the table, and its run with it.                      *)
LEMMA TableKeepsRuns ==
    ASSUME WriterTypes, WriterInv, BodyReplays, TableReplays, FinishFunction
    PROVE  BodyReplays' /\ TableReplays' /\ Len(table) <= Len(table')
  <1>1. /\ frames # <<>> /\ Len(frames) = 1 /\ frames[1].kind = "block"
        /\ frames' = <<>>
    BY FinishFunctionFacts
  <1>2. PICK entry \in Function :
            /\ table' = Append(table, entry)
            /\ entry.params = params /\ entry.body = body
            /\ entry.uses = uses /\ entry.made = made
    BY FinishFunctionFacts
  <1>3. /\ Len(table) \in Nat /\ Len(table') = Len(table) + 1
        /\ \A f \in 1..Len(table) : table'[f] = table[f]
        /\ table'[Len(table) + 1] = entry
    BY <1>2, AppendProperties, LenProperties DEF WriterTypes
  <1>4. PICK run : Replays(run, Writing, params, body, uses) /\ WriterAt(run[Len(run)])
    BY <1>1, Zenon DEF BodyReplays
  <1>5. Finished(run[Len(run)], entry)
    <2> DEFINE s == run[Len(run)]
    <2>1. s.pos = Len(body) /\ s.built = made /\ s.resolved = uses /\ Mirrors(s.scopes, frames)
      BY <1>4, Zenon DEF WriterAt
    <2> HIDE DEF s
    <2>2. Len(s.scopes) = 1 /\ s.scopes[1].kind = "block"
      BY <1>1, <2>1 DEF Mirrors, Alike
    <2>3. Finished(s, entry)
      BY <1>2, <2>1, <2>2, Zenon DEF Finished
    <2> QED BY <2>3 DEF s
  <1>6. Replayed(run, Writing, entry)
    BY <1>2, <1>4, <1>5, Zenon DEF Replayed
  <1>7. ASSUME NEW f \in 1..Len(table') PROVE \E r : Replayed(r, f, table'[f])
    <2>1. CASE f \in 1..Len(table)
      <3>1. \E r : Replayed(r, f, table[f])
        BY <2>1, Zenon DEF TableReplays
      <3> QED BY <1>3, <2>1, <3>1, Zenon
    <2>2. CASE f = Len(table) + 1
      <3>1. table'[f] = entry /\ f = Writing
        BY <1>3, <2>2 DEF Writing
      <3> QED BY <1>6, <3>1, Zenon
    <2> QED BY <1>3, <2>1, <2>2
  <1>8. TableReplays'
    BY <1>7, Zenon DEF TableReplays
  <1>9. BodyReplays'
    BY <1>1, Zenon DEF BodyReplays
  <1> QED BY <1>3, <1>8, <1>9

-----------------------------------------------------------------------------
(* The reader stays on its run.                                            *)

(* Every state of a run has an active call; the last one is the entry      *)
(* block alone.                                                            *)
LEMMA RunStates ==
    ASSUME NEW run, NEW f, NEW e, Replayed(run, f, e), NEW k \in Nat, k \in 1..Len(run)
    PROVE  /\ run[k] \in State /\ run[k].scopes # <<>>
           /\ k < Len(run) => Moves(f, e.body, run[k], run[k + 1])
           /\ k = Len(run) => Finished(run[k], e)
           /\ Prefix(run[k].resolved, e.uses)
  <1>1. /\ run \in Seq(State) /\ Len(run) \in Nat
        /\ \A n \in 1..Len(run) - 1 : Moves(f, e.body, run[n], run[n + 1])
        /\ \A n \in 1..Len(run) : Prefix(run[n].resolved, e.uses)
        /\ Finished(run[Len(run)], e)
    BY LenProperties, Zenon DEF Replayed, Replays
  <1>2. run[k] \in State
    BY <1>1, ElementOfSeq
  <1>3. k < Len(run) => k \in 1..Len(run) - 1
    BY <1>1
  <1>4. k < Len(run) => Moves(f, e.body, run[k], run[k + 1])
    BY <1>1, <1>3, Zenon
  <1>5. k = Len(run) => Finished(run[k], e)
    BY <1>1, Zenon
  <1>6. k < Len(run) \/ k = Len(run)
    BY <1>1
  <1>7. CASE k < Len(run)
    <2>1. Moves(f, e.body, run[k], run[k + 1])
      BY <1>4, <1>7
    <2>2. OnTop(run[k].scopes, "op") \/ OnTop(run[k].scopes, "block")
      BY <2>1, Zenon DEF Moves, ParsesOp, ParsesRegion, ParsesBlock, LeavesBlock, LeavesOp
    <2>3. run[k].scopes # <<>>
      BY <2>2, Zenon DEF OnTop
    <2> QED BY <1>1, <1>2, <1>4, <1>5, <2>3
  <1>8. CASE k = Len(run)
    <2>1. Len(run[k].scopes) = 1
      BY <1>5, <1>8, Zenon DEF Finished
    <2>2. run[k].scopes # <<>>
      BY <2>1
    <2> QED BY <1>1, <1>2, <1>4, <1>5, <2>2
  <1> QED BY <1>6, <1>7, <1>8

LEMMA ReaderTyped ==
    ASSUME NEW s \in State, ReaderAt(s), current \in Nat
    PROVE  ReaderTypes
  BY StateFields DEF ReaderAt, ReaderTypes

(* One step of the parser, between the first and the last of a body.       *)
LEMMA ReaderGoesOn ==
    ASSUME ReaderTypes, ReaderOnRun, ReaderBetween, scopes # <<>>, Read
    PROVE  ReaderTypes' /\ ReaderOnRun' /\ ReaderBetween'
  <1>1. phase = "read" /\ current > 0
    BY Zenon DEF ReaderOnRun
  <1>2. PICK run : /\ Replayed(run, current, table[current])
                   /\ \E k \in 1..Len(run) : ReaderAt(run[k])
    BY Zenon DEF ReaderOnRun
  <1>3. PICK k \in Nat : k \in 1..Len(run) /\ ReaderAt(run[k])
    <2>1. Len(run) \in Nat
      BY <1>2, LenProperties DEF Replayed, Replays
    <2> QED BY <1>2, <2>1
  <1>4. PICK e : e = table[current]
    OBVIOUS
  <1>5. Replayed(run, current, e)
    BY <1>2, <1>4, Zenon
  <1>6. /\ run[k] \in State /\ run[k].scopes # <<>>
        /\ k < Len(run) => Moves(current, e.body, run[k], run[k + 1])
        /\ k = Len(run) => Finished(run[k], e)
    BY <1>3, <1>5, RunStates
  <1>7. current \in Nat /\ pos \in Nat /\ current <= Len(table)
    BY DEF ReaderTypes, ReaderBetween
  <1>8. CASE k < Len(run)
    <2>1. PICK t : t = run[k + 1]
      OBVIOUS
    <2>2. Moves(current, table[current].body, run[k], t)
      BY <1>4, <1>6, <1>8, <2>1, Zenon
    <2>3. ReaderAt(t)' /\ UNCHANGED <<phase, table, left, writing, current>>
      BY <1>1, <1>3, <2>2, AlongRun, Zenon
    <2>4. PICK j \in Nat : j = k + 1 /\ j \in 1..Len(run)
      <3>1. Len(run) \in Nat
        BY <1>2, LenProperties DEF Replayed, Replays
      <3> QED BY <1>3, <1>8, <3>1
    <2>5. run[j] \in State /\ run[j].scopes # <<>> /\ run[j] = t
      BY <1>5, <2>1, <2>4, RunStates
    <2>6. scopes' # <<>>
      BY <2>3, <2>5, Zenon DEF ReaderAt
    <2>7. ReaderTypes'
      BY <1>7, <2>3, <2>5, StateFields DEF ReaderAt, ReaderTypes
    <2>8. ReaderOnRun'
      BY <1>1, <1>2, <2>3, <2>4, <2>5, Zenon DEF ReaderOnRun
    <2>9. ReaderBetween'
      BY <1>1, <1>7, <2>3, <2>6 DEF ReaderBetween
    <2> QED BY <2>7, <2>8, <2>9
  <1>9. CASE k = Len(run)
    <2>1. Finished(run[k], table[current])
      BY <1>4, <1>6, <1>9, Zenon
    <2>2. /\ scopes' = <<>> /\ UNCHANGED <<phase, table, left, writing, current, pos,
                                            valueIndexList, built, resolved>>
          /\ resolved = table[current].uses /\ built = table[current].made
      BY <1>1, <1>3, <1>7, <2>1, AtTheEnd, Zenon
    <2>3. ReaderTypes'
      BY <2>2 DEF ReaderTypes
    <2>4. ReaderOnRun'
      BY <2>2, Zenon DEF ReaderOnRun
    <2>5. ReaderBetween'
      BY <1>1, <1>7, <2>2 DEF ReaderBetween
    <2> QED BY <2>3, <2>4, <2>5
  <1>10. k < Len(run) \/ k = Len(run)
    <2>1. Len(run) \in Nat
      BY <1>2, LenProperties DEF Replayed, Replays
    <2> QED BY <1>3, <2>1
  <1> QED BY <1>8, <1>9, <1>10

(* createFunction puts the parser at the start of a run.                   *)
LEMMA ReaderStarts ==
    ASSUME WriterTypes, TableReplays, ReaderTypes, ReaderBetween, CreateFunction
    PROVE  ReaderTypes' /\ ReaderOnRun' /\ ReaderBetween'
  <1>1. /\ phase = "read" /\ current < Len(table) /\ current' = current + 1
        /\ scopes' = <<BlockFrame(0, 0, {})>>
        /\ valueIndexList' = Fresh(current', 0, table[current'].params)
        /\ built' = table[current'].params
        /\ pos' = 0 /\ resolved' = <<>>
        /\ UNCHANGED <<phase, table>>
    BY Zenon DEF CreateFunction
  <1>2. PICK f \in Nat : f = current' /\ f \in 1..Len(table) /\ f > 0 /\ f <= Len(table)
    BY <1>1, LenProperties DEF ReaderTypes, WriterTypes
  <1>3. PICK e : e = table[f]
    OBVIOUS
  <1>4. PICK run : Replayed(run, f, e)
    BY <1>2, <1>3, Zenon DEF TableReplays
  <1>5. Starts(run[1], f, e.params)
    BY <1>4, Zenon DEF Replayed, Replays
  <1>6. ReaderAt(run[1])'
    BY <1>1, <1>2, <1>3, <1>5, Zenon DEF ReaderAt, Starts
  <1>7. PICK n \in Nat : n = 1 /\ n \in 1..Len(run)
    <2>1. run \in Seq(State) /\ run # <<>>
      BY <1>4, Zenon DEF Replayed, Replays
    <2>2. Len(run) \in 1..Len(run) /\ Len(run) \in Nat
      BY <2>1, StackElements, LenProperties
    <2> QED BY <2>2
  <1>8. run[n] \in State /\ run[n].scopes # <<>>
    BY <1>4, <1>7, RunStates
  <1>9. ReaderAt(run[n])' /\ current' \in Nat
    BY <1>2, <1>6, <1>7
  <1>10. scopes' # <<>>
    BY <1>8, <1>9, Zenon DEF ReaderAt
  <1>11. ReaderTypes'
    BY <1>8, <1>9, StateFields DEF ReaderAt, ReaderTypes
  <1>12. ReaderOnRun'
    <2>1. phase' = "read" /\ current' > 0 /\ table'[current'] = e
      BY <1>1, <1>2, <1>3
    <2>2. /\ Replayed(run, current', table'[current'])
          /\ \E k \in 1..Len(run) : ReaderAt(run[k])'
      BY <1>2, <1>4, <1>7, <1>9, <2>1, Zenon
    <2> QED BY <2>1, <2>2, Zenon DEF ReaderOnRun
  <1>13. ReaderBetween'
    <2>1. current' # 0 /\ current' <= Len(table')
      BY <1>1, <1>2
    <2> QED BY <1>1, <1>10, <2>1, Zenon DEF ReaderBetween
  <1> QED BY <1>11, <1>12, <1>13

(* Before the first function, between two, and after the last.             *)
LEMMA ReaderRests ==
    ASSUME WriterTypes, TableReplays, ReaderTypes, ReaderOnRun, ReaderBetween, scopes = <<>>,
           Read
    PROVE  ReaderTypes' /\ ReaderOnRun' /\ ReaderBetween'
  <1>1. ~ReadOp /\ ~ReadRegion /\ ~ReadBlock /\ ~EndBlock /\ ~EndOp /\ ~EndFunction
    BY Zenon DEF ReadOp, ReadRegion, ReadBlock, EndBlock, EndOp, EndFunction, OnTop
  <1>2. CASE CreateFunction
    BY <1>2, ReaderStarts
  <1>3. CASE FinishReading
    <2>1. /\ phase = "read" /\ phase' = "done"
          /\ UNCHANGED <<table, current, scopes, pos, valueIndexList, built, resolved>>
      BY <1>3, Zenon DEF FinishReading, reading
    <2>2. ReaderTypes'
      BY <2>1 DEF ReaderTypes
    <2>3. ReaderOnRun'
      BY <2>1, Zenon DEF ReaderOnRun
    <2>4. ReaderBetween'
      BY <2>1 DEF ReaderBetween
    <2> QED BY <2>2, <2>3, <2>4
  <1> QED BY <1>1, <1>2, <1>3 DEF Read

(* The reader does nothing while the writer works.                         *)
LEMMA ReaderWaits ==
    ASSUME ReaderTypes, ReaderBetween, phase = "write", UNCHANGED reading,
           Len(table) \in Nat, Len(table') \in Nat, Len(table) <= Len(table'),
           phase' \in {"write", "failed", "read"}
    PROVE  ReaderTypes' /\ ReaderOnRun' /\ ReaderBetween'
  <1>1. /\ current = 0 /\ scopes = <<>> /\ resolved = <<>>
        /\ UNCHANGED <<current, scopes, pos, valueIndexList, built, resolved>>
    BY Zenon DEF ReaderBetween, reading
  <1>2. ReaderTypes'
    BY <1>1 DEF ReaderTypes
  <1>3. ReaderOnRun'
    BY <1>1, Zenon DEF ReaderOnRun
  <1>4. ReaderBetween'
    BY <1>1 DEF ReaderBetween
  <1> QED BY <1>2, <1>3, <1>4

-----------------------------------------------------------------------------
(* The invariant, step by step.                                            *)
FullInv == WriterTypes /\ WriterInv /\ ReplayInv

LEMMA ReplayStart == Init => ReplayInv
  <1> SUFFICES ASSUME Init PROVE ReplayInv
    OBVIOUS
  <1>1. BodyReplays
    BY DEF Init, BodyReplays
  <1>2. TableReplays
    BY DEF Init, TableReplays
  <1>3. ReaderTypes
    BY EmptySeq DEF Init, ReaderTypes
  <1>4. ReaderOnRun
    BY DEF Init, ReaderOnRun
  <1>5. ReaderBetween
    BY DEF Init, ReaderBetween
  <1> QED BY <1>1, <1>2, <1>3, <1>4, <1>5 DEF ReplayInv

(* The steps of the writer.                                                *)
LEMMA WritingKeepsReplays ==
    ASSUME WriterTypes, WriterInv, ReplayInv, WriterTypes', UNCHANGED table,
           phase = "write", phase' = "write", UNCHANGED reading, BodyReplays'
    PROVE  ReplayInv'
  <1>1. TableReplays'
    BY Zenon DEF TableReplays, ReplayInv
  <1>2. Len(table) \in Nat /\ Len(table') \in Nat /\ Len(table) <= Len(table')
    BY LenProperties DEF WriterTypes
  <1>3. ReaderTypes' /\ ReaderOnRun' /\ ReaderBetween'
    BY <1>2, ReaderWaits DEF ReplayInv
  <1> QED BY <1>1, <1>3 DEF ReplayInv

LEMMA TableGrowsKeepsReplays ==
    ASSUME WriterTypes, WriterInv, ReplayInv, WriterTypes', FinishFunction
    PROVE  ReplayInv'
  <1>1. BodyReplays' /\ TableReplays' /\ Len(table) <= Len(table')
    BY TableKeepsRuns DEF ReplayInv
  <1>2. phase = "write" /\ phase' = "write" /\ UNCHANGED reading
    BY DEF FinishFunction
  <1>3. Len(table) \in Nat /\ Len(table') \in Nat
    BY LenProperties DEF WriterTypes
  <1>4. ReaderTypes' /\ ReaderOnRun' /\ ReaderBetween'
    BY <1>1, <1>2, <1>3, ReaderWaits DEF ReplayInv
  <1> QED BY <1>1, <1>4 DEF ReplayInv

(* What was written stays when the writer has stopped.                     *)
LEMMA TablesStay ==
    ASSUME BodyReplays, TableReplays,
           UNCHANGED <<table, left, frames, params, made, valueIndexMap, nextValueIndex,
                       body, uses>>
    PROVE  BodyReplays' /\ TableReplays'
  <1>1. TableReplays'
    BY Zenon DEF TableReplays
  <1>2. Writing' = Writing /\ \A s : WriterAt(s) => WriterAt(s)'
    BY DEF Writing, WriterAt, Mirrors, Lists
  <1>3. BodyReplays'
    BY <1>2, Zenon DEF BodyReplays
  <1> QED BY <1>1, <1>3

LEMMA ReadingKeepsReplays ==
    ASSUME WriterTypes, ReplayInv,
           \/ RefuseOp \/ StartReading \/ CreateFunction \/ ReadOp \/ ReadRegion \/ ReadBlock
           \/ EndBlock \/ EndOp \/ EndFunction \/ FinishReading \/ Ended
    PROVE  ReplayInv'
  <1>1. BodyReplays' /\ TableReplays' /\ table' = table
    <2>1. UNCHANGED <<table, left, frames, params, made, valueIndexMap, nextValueIndex,
                      body, uses>>
      BY ReaderLeaves
    <2>2. BodyReplays /\ TableReplays
      BY DEF ReplayInv
    <2> QED BY <2>1, <2>2, TablesStay
  <1>2. ReaderTypes' /\ ReaderOnRun' /\ ReaderBetween'
    <2>1. CASE RefuseOp \/ StartReading
      <3>1. phase = "write" /\ phase' \in {"write", "failed", "read"} /\ UNCHANGED reading
        BY <2>1, Zenon DEF RefuseOp, StartReading
      <3>2. Len(table) \in Nat /\ Len(table') \in Nat /\ Len(table) <= Len(table')
        BY <1>1, LenProperties DEF WriterTypes
      <3> QED BY <3>1, <3>2, ReaderWaits DEF ReplayInv
    <2>2. CASE Read
      <3>1. CASE scopes = <<>>
        BY <2>2, <3>1, ReaderRests DEF ReplayInv
      <3>2. CASE scopes # <<>>
        BY <2>2, <3>2, ReaderGoesOn DEF ReplayInv
      <3> QED BY <3>1, <3>2
    <2>3. CASE Ended
      <3>1. UNCHANGED vars
        BY <2>3 DEF Ended
      <3>2. UNCHANGED <<phase, table, current, scopes, pos, valueIndexList, built, resolved>>
        BY <3>1 DEF vars, reading
      <3>3. ReaderTypes' /\ ReaderBetween'
        BY <3>2 DEF ReplayInv, ReaderTypes, ReaderBetween
      <3>4. ReaderOnRun'
        <4>1. \A s : ReaderAt(s) => ReaderAt(s)'
          BY <3>2, Zenon DEF ReaderAt
        <4> QED BY <3>2, <4>1, Zenon DEF ReplayInv, ReaderOnRun
      <3> QED BY <3>3, <3>4
    <2> QED BY <2>1, <2>2, <2>3 DEF Read
  <1> QED BY <1>1, <1>2 DEF ReplayInv

LEMMA UnchangedReplays ==
    ASSUME ReplayInv, UNCHANGED vars
    PROVE  ReplayInv'
  <1>1. /\ UNCHANGED <<phase, table, current, scopes, pos, valueIndexList, built, resolved>>
        /\ UNCHANGED <<table, left, frames, params, made, valueIndexMap, nextValueIndex,
                       body, uses>>
    BY DEF vars, reading, writing
  <1>2. BodyReplays' /\ TableReplays'
    BY <1>1, TablesStay DEF ReplayInv
  <1>3. ReaderTypes' /\ ReaderBetween'
    BY <1>1 DEF ReplayInv, ReaderTypes, ReaderBetween
  <1>4. ReaderOnRun'
    <2>1. \A s : ReaderAt(s) => ReaderAt(s)'
      BY <1>1, Zenon DEF ReaderAt
    <2> QED BY <1>1, <2>1, Zenon DEF ReplayInv, ReaderOnRun
  <1> QED BY <1>2, <1>3, <1>4 DEF ReplayInv

LEMMA FullStep == FullInv /\ [Next]_vars => FullInv'
  <1> SUFFICES ASSUME FullInv, [Next]_vars PROVE FullInv'
    OBVIOUS
  <1>1. WriterTypes' /\ WriterInv'
    BY WriterStep DEF FullInv
  <1>2. WriterTypes /\ WriterInv /\ ReplayInv /\ BodyReplays
    BY DEF FullInv, ReplayInv
  <1>3. CASE \E args \in Nat : StartFunction(args)
    <2>1. PICK args \in Nat : StartFunction(args)
      BY <1>3
    <2>2. /\ BodyReplays' /\ phase = "write" /\ phase' = "write"
          /\ UNCHANGED table /\ UNCHANGED reading
      BY <1>2, <2>1, StartKeepsRun DEF StartFunction
    <2>3. ReplayInv'
      BY <1>1, <1>2, <2>2, WritingKeepsReplays
    <2> QED BY <1>1, <2>3 DEF FullInv
  <1>4. CASE \E shape \in Shape : \E operands \in Operands : \E terminator \in BOOLEAN :
                 WriteOp(shape, operands, terminator)
    <2>1. PICK shape \in Shape, operands \in Operands, terminator \in BOOLEAN :
                 WriteOp(shape, operands, terminator)
      BY <1>4
    <2>2. BodyReplays'
      BY <1>2, <2>1, OpKeepsRun
    <2>3. /\ phase = "write" /\ phase' = "write"
          /\ UNCHANGED table /\ UNCHANGED reading
      BY <2>1, Zenon DEF WriteOp
    <2>4. ReplayInv'
      BY <1>1, <1>2, <2>2, <2>3, WritingKeepsReplays
    <2> QED BY <1>1, <2>4 DEF FullInv
  <1>5. CASE \E blocks \in Nat : blocks \in 0..1 /\ WriteRegion(blocks)
    <2>1. PICK blocks \in Nat : blocks \in 0..1 /\ WriteRegion(blocks)
      BY <1>5
    <2>2. BodyReplays'
      BY <1>2, <2>1, RegionKeepsRun
    <2>3. /\ phase = "write" /\ phase' = "write"
          /\ UNCHANGED table /\ UNCHANGED reading
      BY <2>1, Zenon DEF WriteRegion
    <2>4. ReplayInv'
      BY <1>1, <1>2, <2>2, <2>3, WritingKeepsReplays
    <2> QED BY <1>1, <2>4 DEF FullInv
  <1>6. CASE \E args \in Nat : \E ops \in Nat : ops # 0 /\ WriteBlock(args, ops)
    <2>1. PICK args \in Nat, ops \in Nat : ops # 0 /\ WriteBlock(args, ops)
      BY <1>6
    <2>2. BodyReplays'
      BY <1>2, <2>1, BlockKeepsRun
    <2>3. /\ phase = "write" /\ phase' = "write"
          /\ UNCHANGED table /\ UNCHANGED reading
      BY <2>1, Zenon DEF WriteBlock
    <2>4. ReplayInv'
      BY <1>1, <1>2, <2>2, <2>3, WritingKeepsReplays
    <2> QED BY <1>1, <2>4 DEF FullInv
  <1>7. CASE FinishBlock \/ FinishOp
    <2>1. BodyReplays'
      BY <1>2, <1>7, EndKeepsRun
    <2>2. /\ phase = "write" /\ phase' = "write"
          /\ UNCHANGED table /\ UNCHANGED reading
      BY <1>7, Zenon DEF FinishBlock, FinishOp
    <2>3. ReplayInv'
      BY <1>1, <1>2, <2>1, <2>2, WritingKeepsReplays
    <2> QED BY <1>1, <2>3 DEF FullInv
  <1>8. CASE FinishFunction
    BY <1>1, <1>2, <1>8, TableGrowsKeepsReplays DEF FullInv
  <1>9. CASE RefuseOp \/ StartReading \/ CreateFunction \/ ReadOp \/ ReadRegion \/ ReadBlock
             \/ EndBlock \/ EndOp \/ EndFunction \/ FinishReading \/ Ended
    BY <1>1, <1>2, <1>9, ReadingKeepsReplays DEF FullInv
  <1>10. CASE UNCHANGED vars
    BY <1>1, <1>2, <1>10, UnchangedReplays DEF FullInv
  <1> QED BY <1>3, <1>4, <1>5, <1>6, <1>7, <1>8, <1>9, <1>10, StepCases, Zenon

LEMMA AlwaysReplays == Spec => []FullInv
  <1>1. Init => FullInv
    BY WriterStart, ReplayStart DEF FullInv
  <1> QED BY <1>1, FullStep, PTL DEF Spec

-----------------------------------------------------------------------------
(* What follows.                                                           *)

(* Every variable keeps the shape the code gives it, in both directions.   *)
THEOREM TypesAreKept == Spec => []TypeOK
  <1>1. FullInv => TypeOK
    BY DEF FullInv, ReplayInv, WriterTypes, ReaderTypes, TypeOK
  <1> QED BY <1>1, AlwaysReplays, PTL

(* The operands of parseOperands are the values that writeOperation had,   *)
(* at every depth of regions and in every function: the list of the parser *)
(* is the map of the writer, entry by entry, whenever an operand is read.  *)
THEOREM OperandsAlwaysSurvive == Spec => []OperandsSurvive
  <1>1. FullInv => OperandsSurvive
    <2> SUFFICES ASSUME FullInv PROVE Prefix(resolved, table[current].uses)
      BY DEF Prefix, OperandsSurvive
    <2>1. ReaderOnRun /\ ReaderBetween /\ ReaderTypes
      BY DEF FullInv, ReplayInv
    <2>2. CASE scopes # <<>>
      <3>1. PICK run : /\ Replayed(run, current, table[current])
                       /\ \E k \in 1..Len(run) : ReaderAt(run[k])
        BY <2>1, <2>2, Zenon DEF ReaderOnRun
      <3>2. PICK k \in 1..Len(run) : ReaderAt(run[k])
        BY <3>1
      <3>3. Prefix(run[k].resolved, table[current].uses)
        BY <3>1, Zenon DEF Replayed, Replays
      <3> QED BY <3>2, <3>3, Zenon DEF ReaderAt
    <2>3. CASE scopes = <<>> /\ current > 0
      BY <2>1, <2>3 DEF ReaderBetween, Prefix
    <2>4. CASE current = 0
      BY <2>1, <2>4 DEF ReaderBetween, Prefix
    <2>5. current > 0 \/ current = 0
      BY <2>1 DEF ReaderTypes
    <2> QED BY <2>2, <2>3, <2>4, <2>5
  <1> QED BY <1>1, AlwaysReplays, PTL

(* parseFunctionBody refuses no body that writeFunctionBody wrote, and a   *)
(* function that it returns has all the operations and all the values of   *)
(* the one that was written.                                               *)
THEOREM FunctionsAreComplete == Spec => []FunctionComplete
  <1>1. FullInv => FunctionComplete
    BY DEF FullInv, ReplayInv, ReaderBetween, FunctionComplete
  <1> QED BY <1>1, AlwaysReplays, PTL
=============================================================================
