--------------------------- MODULE DependencyLog ---------------------------
(***************************************************************************)
(* What an index table of the bytecode writer promises the sections that   *)
(* use it, without the recursion that builds it: a log of items that grows *)
(* one item at a time, only by items whose parts are all in it, that never *)
(* grows again once it is closed, and that answers a request with the      *)
(* position of the item.                                                   *)
(***************************************************************************)
EXTENDS Integers, Sequences

CONSTANTS Item, Deps, Reserved, Base

VARIABLES
    log,        \* the items entered so far
    answer,     \* the index handed out for an item, -1 when none was
    open        \* the table may still grow

logVars == <<log, answer, open>>

Settled(i) == i \in Reserved \/ \E n \in 1..Len(log) : log[n] = i

Init ==
    /\ log = <<>>
    /\ answer = [i \in Item |-> -1]
    /\ open = TRUE

(* An item enters after its parts; the caller may get its index at once.   *)
Enter(i) ==
    /\ open = TRUE
    /\ ~Settled(i)
    /\ \A k \in DOMAIN Deps[i] : Settled(Deps[i][k])
    /\ log' = Append(log, i)
    /\ answer' \in {answer, [answer EXCEPT ![i] = Base + Len(log)]}
    /\ UNCHANGED open

Answer(i) ==
    /\ open = TRUE
    /\ \/ i \in Reserved /\ answer' = [answer EXCEPT ![i] = 0]
       \/ /\ i \notin Reserved
          /\ \E n \in 1..Len(log) :
                log[n] = i /\ answer' = [answer EXCEPT ![i] = Base + n - 1]
    /\ UNCHANGED <<log, open>>

Close ==
    /\ open = TRUE
    /\ open' = FALSE
    /\ UNCHANGED <<log, answer>>

Next == Close \/ \E i \in Item : Enter(i) \/ Answer(i)

Spec == Init /\ [][Next]_logVars
=============================================================================
