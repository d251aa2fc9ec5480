----------------------------- MODULE IndexTable -----------------------------
(***************************************************************************)
(* The index tables of the bytecode writer.  TypeManager numbers types and *)
(* DebugInfoWriter numbers debug-info attributes in the same way: the      *)
(* first request for an item numbers everything the item is made of, then  *)
(* the item itself; at the end the table is serialised, every item written *)
(* as the indices of its parts.  The recursion getTypeIndex ->             *)
(* registerDependentTypes -> getTypeIndex is the stack of this module, one *)
(* frame per active call.                                                  *)
(*                                                                         *)
(* Instances: types have Base = 0 and Reserved = {}; debug info has        *)
(* Base = 1 (DebugReserved::SIZE) and the reserved items (UnknownLoc and   *)
(* FileLineColLoc) all have index 0 and never enter the table.             *)
(***************************************************************************)
EXTENDS Integers, Sequences

CONSTANTS
    Item,       \* the types or the debug-info attributes
    Deps,       \* the parts of an item that are registered before it, in their order
    Fields,     \* the parts of an item whose indices its entry holds, in their order
    Rank,       \* attributes are immutable and uniqued: no item is a part of itself
    Reserved,   \* items with the reserved index 0
    Base        \* the index of the first table entry

ASSUME DepsAssumption == Deps \in [Item -> Seq(Item)]
ASSUME RankAssumption ==
    /\ Rank \in [Item -> Nat]
    /\ \A i \in Item : \A k \in DOMAIN Deps[i] : Rank[Deps[i][k]] < Rank[i]
(* registerDebugInfo and serialize list the parts of an item each for      *)
(* itself, and so do registerDependentTypes and serializeType: what an     *)
(* entry holds the index of is also registered, in whatever order.         *)
ASSUME FieldsAssumption ==
    /\ Fields \in [Item -> Seq(Item)]
    /\ \A i \in Item : \A k \in DOMAIN Fields[i] :
          \E m \in DOMAIN Deps[i] : Deps[i][m] = Fields[i][k]
ASSUME ReservedAssumption == Reserved \subseteq Item
ASSUME BaseAssumption == Base \in Nat /\ (Reserved # {} => Base > 0)

NoIndex == -1
ReservedIndex == 0

VARIABLES
    list,       \* the items in index order (typeList, debuginfoList)
    index,      \* the map from an item to its index (typeIndexMap, diIndexMap)
    stack,      \* the active calls: the item, and how many parts were started
    answer,     \* the index a caller got for an item and wrote to its section
    count,      \* the entry count in the table's section, NoIndex before that
    out,        \* the entries written, each the indices of the item's parts
    entry       \* the entry being written

vars == <<list, index, stack, answer, count, out, entry>>

Frame == [item : Item, next : Nat]
Idle == stack = <<>>
Top == stack[Len(stack)]
Parts(i) == DOMAIN Deps[i]

-----------------------------------------------------------------------------
(* MUTANTS.  Wrong forms of the definitions below, each a slip this code   *)
(* could have; PROJECT.json names the property that each one breaks.       *)

(* the index is counted from zero, without DebugReserved::SIZE *)
IndexOfUnshifted(i) ==
    IF index[i] # NoIndex THEN index[i] - Base ELSE ReservedIndex

(* the item is registered without asking the map first *)
RequestNewUnchecked(i) ==
    /\ Idle /\ count = NoIndex
    /\ stack' = <<[item |-> i, next |-> 0]>>
    /\ UNCHANGED <<list, index, answer, count, out, entry>>

(* the loop over the parts does not advance *)
RegisterPartStuck ==
    /\ ~Idle
    /\ Top.next < Len(Deps[Top.item])
    /\ LET d == Deps[Top.item][Top.next + 1] IN
       stack' = IF index[d] # NoIndex THEN stack
                ELSE Append(stack, [item |-> d, next |-> 0])
    /\ UNCHANGED <<list, index, answer, count, out, entry>>

(* the last of the parts is missing in the list of those to register *)
RegisterPartMissing ==
    /\ ~Idle
    /\ Top.next < Len(Deps[Top.item])
    /\ LET d == Deps[Top.item][Top.next + 1]
           started == [stack EXCEPT ![Len(stack)] =
                        [item |-> Top.item, next |-> Top.next + 1]]
           skipped == index[d] # NoIndex \/ d \in Reserved \/ Top.next + 1 = Len(Deps[Top.item])
       IN  stack' = IF skipped THEN started
                    ELSE Append(started, [item |-> d, next |-> 0])
    /\ UNCHANGED <<list, index, answer, count, out, entry>>

(* the size of the list is read after the push_back *)
RegisterItemLate ==
    /\ ~Idle
    /\ Top.next = Len(Deps[Top.item])
    /\ index' = [index EXCEPT ![Top.item] = Len(list) + 1 + Base]
    /\ list' = Append(list, Top.item)
    /\ stack' = SubSeq(stack, 1, Len(stack) - 1)
    /\ UNCHANGED <<answer, count, out, entry>>

(* the item is entered without waiting for its parts *)
RegisterItemEarly ==
    /\ ~Idle
    /\ index' = [index EXCEPT ![Top.item] = Len(list) + Base]
    /\ list' = Append(list, Top.item)
    /\ stack' = SubSeq(stack, 1, Len(stack) - 1)
    /\ UNCHANGED <<answer, count, out, entry>>

(* the buffer of an entry is not cleared for the next one *)
FinishEntryUncleared ==
    /\ Idle /\ count # NoIndex
    /\ Len(out) < count
    /\ Len(entry) = Len(Fields[list[Len(out) + 1]])
    /\ out' = Append(out, entry)
    /\ UNCHANGED <<list, index, stack, answer, count, entry>>

-----------------------------------------------------------------------------
(* An index is known without a recursive call when the map has the item or *)
(* when the item is reserved.                                              *)
Known(i) == index[i] # NoIndex \/ i \in Reserved
IndexOf(i) == IF index[i] # NoIndex THEN index[i] ELSE ReservedIndex

Push(i) == stack' = Append(stack, [item |-> i, next |-> 0])

Init ==
    /\ list = <<>>
    /\ index = [i \in Item |-> NoIndex]
    /\ stack = <<>>
    /\ answer = [i \in Item |-> NoIndex]
    /\ count = NoIndex
    /\ out = <<>>
    /\ entry = <<>>

(* A section asks for the index of an item it has seen before, or of a     *)
(* reserved one: the early returns.                                        *)
RequestKnown(i) ==
    /\ Idle /\ count = NoIndex
    /\ Known(i)
    /\ answer' = [answer EXCEPT ![i] = IndexOf(i)]
    /\ UNCHANGED <<list, index, stack, count, out, entry>>

RequestNew(i) ==
    /\ Idle /\ count = NoIndex
    /\ ~Known(i)
    /\ Push(i)
    /\ UNCHANGED <<list, index, answer, count, out, entry>>

(* registerDependentTypes, registerDebugInfo: one call per part.           *)
RegisterPart ==
    /\ ~Idle
    /\ Top.next < Len(Deps[Top.item])
    /\ LET d == Deps[Top.item][Top.next + 1]
           started == [stack EXCEPT ![Len(stack)] =
                        [item |-> Top.item, next |-> Top.next + 1]]
       IN  stack' = IF Known(d) THEN started
                    ELSE Append(started, [item |-> d, next |-> 0])
    /\ UNCHANGED <<list, index, answer, count, out, entry>>

(* All parts are numbered: the item takes the next index and the call      *)
(* returns it, to the section that asked when no other call is active.     *)
RegisterItem ==
    /\ ~Idle
    /\ Top.next = Len(Deps[Top.item])
    /\ index' = [index EXCEPT ![Top.item] = Len(list) + Base]
    /\ list' = Append(list, Top.item)
    /\ stack' = SubSeq(stack, 1, Len(stack) - 1)
    /\ answer' = IF Len(stack) = 1 /\ count = NoIndex
                 THEN [answer EXCEPT ![Top.item] = Len(list) + Base]
                 ELSE answer
    /\ UNCHANGED <<count, out, entry>>

(* writeTypeSection, writeDebugInfoSection: the entry count comes first.   *)
StartSection ==
    /\ Idle /\ count = NoIndex
    /\ count' = Len(list)
    /\ UNCHANGED <<list, index, stack, answer, out, entry>>

(* Serialising an item asks for the index of each of its fields; one       *)
(* without an index would be registered now, after the count.              *)
SerializePart ==
    /\ Idle /\ count # NoIndex
    /\ Len(out) < count
    /\ LET parts == Fields[list[Len(out) + 1]] IN
       /\ Len(entry) < Len(parts)
       /\ LET d == parts[Len(entry) + 1] IN
          IF Known(d)
          THEN entry' = Append(entry, IndexOf(d)) /\ UNCHANGED stack
          ELSE Push(d) /\ UNCHANGED entry
    /\ UNCHANGED <<list, index, answer, count, out>>

FinishEntry ==
    /\ Idle /\ count # NoIndex
    /\ Len(out) < count
    /\ Len(entry) = Len(Fields[list[Len(out) + 1]])
    /\ out' = Append(out, entry)
    /\ entry' = <<>>
    /\ UNCHANGED <<list, index, stack, answer, count>>

Written == count # NoIndex /\ Len(out) = count

Done == Written /\ UNCHANGED vars

Run == RegisterPart \/ RegisterItem \/ SerializePart \/ FinishEntry

Next ==
    \/ \E i \in Item : RequestKnown(i) \/ RequestNew(i)
    \/ RegisterPart
    \/ RegisterItem
    \/ StartSection
    \/ SerializePart
    \/ FinishEntry
    \/ Done

Spec == Init /\ [][Next]_vars

(* A call in progress and a section being written are straight-line code.  *)
FairSpec == Spec /\ WF_vars(Run)

-----------------------------------------------------------------------------
(* Every variable has the shape the code gives it.                         *)
TypeOK ==
    /\ list \in Seq(Item)
    /\ index \in [Item -> Nat \cup {NoIndex}]
    /\ stack \in Seq(Frame)
    /\ answer \in [Item -> Nat \cup {NoIndex}]
    /\ count \in Nat \cup {NoIndex}
    /\ out \in Seq(Seq(Nat))
    /\ entry \in Seq(Nat)

(* The map and the list agree: each list position holds the one item whose *)
(* index it is, so no item is entered twice, although the map is looked up *)
(* before the recursive calls and filled after them.                       *)
IndexIsPosition ==
    /\ \A n \in 1..Len(list) : index[list[n]] = Base + n - 1
    /\ \A i \in Item : index[i] # NoIndex =>
          \E n \in 1..Len(list) : list[n] = i

(* The table is in dependency order: every part of an entry is reserved or *)
(* has a smaller index.  The lazy reader relies on it to never meet an     *)
(* entry it is still parsing.                                              *)
DependencyOrder ==
    \A n \in 1..Len(list) : \A k \in Parts(list[n]) :
        \/ Deps[list[n]][k] \in Reserved
        \/ /\ index[Deps[list[n]][k]] # NoIndex
           /\ index[Deps[list[n]][k]] < Base + n - 1

(* An index a section has written stays right: it is the item's position   *)
(* in the final table, or the reserved index of a reserved item.           *)
AnswerResolves ==
    \A i \in Item : answer[i] # NoIndex =>
        IF i \in Reserved THEN answer[i] = ReservedIndex
        ELSE answer[i] - Base + 1 \in 1..Len(list) /\ list[answer[i] - Base + 1] = i

(* A written entry names exactly the item's fields, by indices that the    *)
(* section holds.                                                          *)
EntryResolves ==
    \A n \in 1..Len(out) :
        /\ Len(out[n]) = Len(Fields[list[n]])
        /\ \A k \in 1..Len(out[n]) :
              LET d == Fields[list[n]][k] IN
              IF d \in Reserved THEN out[n][k] = ReservedIndex
              ELSE out[n][k] - Base + 1 \in 1..count /\ list[out[n][k] - Base + 1] = d

(* Once the entry count is in the section the table does not grow: the     *)
(* range-for over the list in writeTypeSection would otherwise run over a  *)
(* vector that serializeType is growing, and count would be too small.     *)
FrozenOnceCounted == [][count # NoIndex => list' = list]_vars

(* What the recursion keeps true of its active calls: an item whose parts  *)
(* are being registered has no index yet, none of the calls below can give *)
(* it one (they work on smaller items), and every part whose call returned *)
(* is known.  Without it an item could be entered twice.                   *)
CallStack ==
    \A n \in 1..Len(stack) :
        /\ ~Known(stack[n].item)
        /\ stack[n].next \in 0..Len(Deps[stack[n].item])
        /\ \A m \in 1..n-1 : Rank[stack[n].item] < Rank[stack[m].item]
        /\ \A k \in 1..stack[n].next :
              Known(Deps[stack[n].item][k]) \/ (k = stack[n].next /\ n < Len(stack))
        /\ n < Len(stack) =>
              /\ stack[n].next \in Parts(stack[n].item)
              /\ stack[n+1].item = Deps[stack[n].item][stack[n].next]

(* An answer is the index the map holds now.                               *)
AnswerIsIndex ==
    \A i \in Item : answer[i] # NoIndex =>
        IF i \in Reserved THEN answer[i] = ReservedIndex ELSE answer[i] = index[i]

(* The section is written from a complete table, and what is written of an *)
(* entry are the indices of the parts so far.                              *)
SectionProgress ==
    /\ \A i \in Reserved : index[i] = NoIndex
    /\ count = NoIndex => out = <<>> /\ entry = <<>>
    /\ count # NoIndex => Idle /\ count = Len(list) /\ Len(out) <= count
    /\ Len(out) = Len(list) => entry = <<>>
    /\ Len(out) < Len(list) =>
          /\ Len(entry) <= Len(Fields[list[Len(out) + 1]])
          /\ \A k \in 1..Len(entry) : entry[k] = IndexOf(Fields[list[Len(out) + 1]][k])
    /\ \A n \in 1..Len(out) :
          /\ Len(out[n]) = Len(Fields[list[n]])
          /\ \A k \in 1..Len(out[n]) : out[n][k] = IndexOf(Fields[list[n]][k])

IInv == TypeOK /\ IndexIsPosition /\ DependencyOrder /\ CallStack
        /\ AnswerIsIndex /\ SectionProgress

(* The writer's table, recursion and all, is a dependency log: nothing but *)
(* whole items in dependency order, indices that are positions, and no     *)
(* growth once the section has its entry count.                            *)
Log == INSTANCE DependencyLog WITH log <- list, open <- (count = NoIndex)
ImplementsLog == Log!Spec

(* Every request returns and every started section is finished.            *)
CallsReturn == (stack # <<>>) ~> (stack = <<>>)
SectionFinishes == (count # NoIndex) ~> Written
=============================================================================
