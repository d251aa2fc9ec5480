----------------------------- MODULE LazyTable -----------------------------
(***************************************************************************)
(* The lazy tables of the bytecode reader: LazyTypeTable::getType and      *)
(* DebugInfoReader::getDebugInfo.  The section is a table of byte slices;  *)
(* an entry is parsed when it is first asked for, asks for its parts by    *)
(* index, and is cached only if it parses.  The table comes from a file    *)
(* and is arbitrary: indices may be out of range, of the wrong kind, or    *)
(* lead back to an entry that is being parsed.  The recursion is the       *)
(* stack; a call that returns leaves its value in ret.                     *)
(*                                                                         *)
(* Instances: types have Base = 0; debug info has Base = 1, index 0 being  *)
(* UnknownLoc, a location.                                                 *)
(***************************************************************************)
EXTENDS Integers, Sequences

CONSTANTS
    Kind,           \* what an entry can be: a file, a scope, a location...
    ReservedKind,   \* the kind of the reserved indices
    Base,           \* the index of the first entry
    Size,           \* how many entries the section has
    Tables          \* the tables a file may hold

(* An entry: whether its slice lies in the payload, what its tag makes it, *)
(* the parts it reads in order, each with the kinds it accepts, and        *)
(* whether the rest of its content is valid.                               *)
Part == [index : Nat, want : SUBSET Kind]
Entry == [slice : BOOLEAN, kind : Kind, parts : Seq(Part), sound : BOOLEAN]

ASSUME KindAssumption == ReservedKind \in Kind
ASSUME SizeAssumption == Base \in Nat /\ Size \in Nat
ASSUME TablesAssumption == Tables \subseteq [Base..(Base + Size - 1) -> Entry]

Null == -1      \* a null Type or Attribute
Pending == -2   \* no call has returned a value that is still to be used

VARIABLES
    table,      \* the section
    cache,      \* the indices with a parsed value (typeCache, diCache)
    parsing,    \* currentlyParsing
    stack,      \* the active calls: the index, and how many parts were started
    ret,        \* the index whose value the last call returned, Null or Pending
    refused     \* history: the entries some call could not parse

vars == <<table, cache, parsing, stack, ret, refused>>

Frame == [index : Nat, next : Nat]
Idle == stack = <<>>
Top == stack[Len(stack)]
Indices == Base..(Base + Size - 1)
KindOf(i) == IF i < Base THEN ReservedKind ELSE table[i].kind

-----------------------------------------------------------------------------
(* MUTANTS.  Wrong forms of the definitions below; PROJECT.json names the  *)
(* property that each one breaks.                                          *)

(* a failed parse is cached, too *)
FinishCachingAll ==
    /\ ~Idle /\ ret = Pending
    /\ LET i == Top.index IN
       /\ table[i].slice
       /\ Top.next = Len(table[i].parts)
       /\ cache' = cache \cup {i}
       /\ ret' = IF table[i].sound THEN i ELSE Null
       /\ refused' = IF table[i].sound THEN refused ELSE refused \cup {i}
       /\ stack' = SubSeq(stack, 1, Len(stack) - 1)
       /\ parsing' = parsing \ {i}
    /\ UNCHANGED table

(* the recursion guard is left behind by the error path *)
FailGuarded ==
    /\ ret' = Null
    /\ refused' = refused \cup {Top.index}
    /\ stack' = SubSeq(stack, 1, Len(stack) - 1)
    /\ UNCHANGED <<table, cache, parsing>>

(* a part that is null is asked for again *)
TakePartRetrying ==
    /\ ~Idle /\ ret # Pending
    /\ ret' = Pending
    /\ stack' = IF ret = Null
                THEN [stack EXCEPT ![Len(stack)] =
                        [index |-> Top.index, next |-> Top.next - 1]]
                ELSE stack
    /\ UNCHANGED <<table, cache, parsing, refused>>

(* the part is used as what the slot says it is, without the dyn_cast *)
FitsUnchecked(i, part) == i # Null

(* an entry is taken for parsed when the parser comes back to it *)
CallTrusting(i, st) ==
    IF i < Base \/ i \in cache \/ i \in parsing
    THEN ret' = i /\ stack' = st /\ UNCHANGED parsing
    ELSE IF i \notin Indices
    THEN ret' = Null /\ stack' = st /\ UNCHANGED parsing
    ELSE /\ ret' = Pending
         /\ stack' = Append(st, [index |-> i, next |-> 0])
         /\ parsing' = parsing \cup {i}

-----------------------------------------------------------------------------
Init ==
    /\ table \in Tables
    /\ cache = {} /\ parsing = {}
    /\ stack = <<>> /\ ret = Pending
    /\ refused = {}

(* getType, getDebugInfo up to the parse: a reserved or cached index is    *)
(* returned, an index out of range or already being parsed gives null, any *)
(* other entry is marked and its parse starts.  (Debug info tests the      *)
(* slice before the mark, types after it: BadSlice.)  st is the caller's   *)
(* stack.                                                                  *)
Call(i, st) ==
    IF i < Base \/ i \in cache
    THEN ret' = i /\ stack' = st /\ UNCHANGED parsing
    ELSE IF i \notin Indices \/ i \in parsing
    THEN ret' = Null /\ stack' = st /\ UNCHANGED parsing
    ELSE /\ ret' = Pending
         /\ stack' = Append(st, [index |-> i, next |-> 0])
         /\ parsing' = parsing \cup {i}

(* The active call returns null; leaving its scope removes the mark.       *)
Fail ==
    /\ ret' = Null
    /\ refused' = refused \cup {Top.index}
    /\ stack' = SubSeq(stack, 1, Len(stack) - 1)
    /\ parsing' = parsing \ {Top.index}
    /\ UNCHANGED <<table, cache>>

(* The reader of a function, an operation or a global asks for an entry.   *)
Request(i) ==
    /\ Idle /\ ret = Pending
    /\ Call(i, stack)
    /\ UNCHANGED <<table, cache, refused>>

(* The caller has the answer, and may ask again.                           *)
Answer ==
    /\ Idle /\ ret # Pending
    /\ ret' = Pending
    /\ UNCHANGED <<table, cache, parsing, stack, refused>>

(* The slice runs backwards or beyond the payload.                         *)
BadSlice ==
    /\ ~Idle /\ ret = Pending
    /\ ~table[Top.index].slice
    /\ Fail

ReadPart ==
    /\ ~Idle /\ ret = Pending
    /\ table[Top.index].slice
    /\ Top.next < Len(table[Top.index].parts)
    /\ Call(table[Top.index].parts[Top.next + 1].index,
            [stack EXCEPT ![Len(stack)] =
                [index |-> Top.index, next |-> Top.next + 1]])
    /\ UNCHANGED <<table, cache, refused>>

Fits(i, part) == i # Null /\ KindOf(i) \in part.want

(* The part that was asked for is here, or it is null or of a wrong kind   *)
(* and the whole entry fails.                                              *)
TakePart ==
    /\ ~Idle /\ ret # Pending
    /\ IF Fits(ret, table[Top.index].parts[Top.next])
       THEN ret' = Pending /\ UNCHANGED <<table, cache, parsing, stack, refused>>
       ELSE Fail

(* All parts are there: the entry is built and cached, unless the rest of  *)
(* its content is invalid.                                                 *)
Finish ==
    /\ ~Idle /\ ret = Pending
    /\ table[Top.index].slice
    /\ Top.next = Len(table[Top.index].parts)
    /\ IF table[Top.index].sound
       THEN /\ cache' = cache \cup {Top.index}
            /\ ret' = Top.index
            /\ stack' = SubSeq(stack, 1, Len(stack) - 1)
            /\ parsing' = parsing \ {Top.index}
            /\ UNCHANGED <<table, refused>>
       ELSE Fail

Run == BadSlice \/ ReadPart \/ TakePart \/ Finish

Next == Run \/ Answer \/ \E i \in 0..(Base + Size) : Request(i)

Spec == Init /\ [][Next]_vars

(* A parse is straight-line code.                                          *)
FairSpec == Spec /\ WF_vars(Run)

-----------------------------------------------------------------------------
(* Every variable has the shape the code gives it.                         *)
TypeOK ==
    /\ table \in Tables
    /\ cache \subseteq Indices /\ parsing \subseteq Indices
    /\ stack \in Seq(Frame)
    /\ ret \in Nat \cup {Null, Pending}
    /\ refused \subseteq Indices

(* The marks are exactly the active calls, and no entry is parsed by two   *)
(* calls at once: the recursion is never deeper than the table is long.    *)
MarksAreCalls ==
    /\ parsing = {stack[n].index : n \in 1..Len(stack)}
    /\ \A m, n \in 1..Len(stack) : stack[m].index = stack[n].index => m = n

(* The answer for an index does not depend on what was asked before: what  *)
(* some call refused no call has accepted or will accept.                  *)
AnswersAgree == cache \cap refused = {}

(* A part is there: reserved or cached, and of a kind its slot accepts.    *)
Have(p) == (p.index < Base \/ p.index \in cache) /\ KindOf(p.index) \in p.want

(* A cached entry is complete: its parts are cached or reserved and have   *)
(* the kind it wants.  No value is built from a null part.                 *)
CacheClosed ==
    \A i \in cache :
        /\ table[i].slice /\ table[i].sound
        /\ \A k \in DOMAIN table[i].parts : Have(table[i].parts[k])

(* What the table means, without caches and recursion: the entries that    *)
(* can be built in n rounds, each from those of the rounds before.         *)
Buildable ==
    LET built[n \in Nat] ==
            IF n = 0 THEN {}
            ELSE {i \in Indices :
                    /\ table[i].slice /\ table[i].sound
                    /\ \A k \in DOMAIN table[i].parts :
                          LET p == table[i].parts[k] IN
                          /\ p.index < Base \/ p.index \in built[n - 1]
                          /\ KindOf(p.index) \in p.want}
    IN  built[Size]

(* The reader accepts an entry exactly when it can be built at all.        *)
AcceptsBuildable ==
    cache \subseteq Buildable /\ refused \cap Buildable = {}

(* Every request is answered, cyclic tables included.                      *)
RequestsReturn == (~Idle) ~> Idle

(* Why a refused entry will stay refused: it is itself broken, or one of   *)
(* its parts is; while calls still unwind, that part may be one of them.   *)
Hopeless(p) ==
    \/ p.index >= Base /\ p.index \notin Indices
    \/ (p.index < Base \/ p.index \in Indices) /\ KindOf(p.index) \notin p.want
    \/ p.index \in refused

Unwinding(p) == ret = Null /\ p.index \in parsing

RefusedStayBroken ==
    \A f \in refused :
        \/ ~table[f].slice \/ ~table[f].sound
        \/ \E k \in DOMAIN table[f].parts :
              Hopeless(table[f].parts[k]) \/ Unwinding(table[f].parts[k])

(* The parts an active call has behind it are there; the one it waits for  *)
(* is the call above it, or the value just returned.                       *)
Waiting(n) == n < Len(stack) \/ ret # Pending

FrameOK(n) ==
    LET i == stack[n].index
        k == stack[n].next
    IN  /\ i \in Indices /\ i \notin cache
        /\ k \in 0..Len(table[i].parts)
        /\ k > 0 => table[i].slice
        /\ \A j \in 1..k : Have(table[i].parts[j]) \/ (j = k /\ Waiting(n))
        /\ Waiting(n) => k > 0
        /\ n < Len(stack) => stack[n+1].index = table[i].parts[k].index

PartsSoFar == \A n \in 1..Len(stack) : FrameOK(n)

(* A value that was just returned is one its caller can have; null is      *)
(* returned for an index that has no value, or will have none.             *)
ReturnOK ==
    /\ ret >= 0 => ret < Base \/ ret \in cache
    /\ ~Idle /\ ret # Pending =>
          LET q == table[Top.index].parts[Top.next].index IN
          /\ ret >= 0 => ret = q
          /\ ret = Null => q >= Base /\
                (q \notin Indices \/ q \in refused \/ q \in parsing)

IInv == TypeOK /\ MarksAreCalls /\ AnswersAgree /\ CacheClosed
        /\ RefusedStayBroken /\ PartsSoFar /\ ReturnOK
=============================================================================
