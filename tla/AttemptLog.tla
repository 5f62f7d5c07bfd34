------------------------------ MODULE AttemptLog ------------------------------
(***************************************************************************)
(* What the attempt tables of verifications, reviews and publications      *)
(* promise: one attempt of a work item at a time, an outcome that is never *)
(* revised, and only `uncertain' for an attempt whose owner is gone, since *)
(* its work may or may not have happened.  Recovery may settle many items  *)
(* in one step, so a step advances every item by at most one entry.        *)
(* Where Again is FALSE an item has one attempt for good.                  *)
(***************************************************************************)
EXTENDS Naturals, Sequences

CONSTANTS
    Items,     \* work items
    Outcomes,  \* what an owner may record of its own attempt
    Again,     \* whether an item is attempted again after an attempt
    Depth,     \* attempts of an item that are remembered
    Prunable   \* whether an item may go, with its log; it never comes back

VARIABLE log   \* per item its attempts in order: "open", "orphan" or settled

Uncertain == "uncertain"
Unsettled == {"open", "orphan"}
Entry     == Outcomes \cup {Uncertain} \cup Unsettled

\* Whether the last attempt is of a kind, and the log with another last entry.
LastIn(l, kinds) == l # <<>> /\ l[Len(l)] \in kinds
Last(l, entry)   == [l EXCEPT ![Len(l)] = entry]

\* A new attempt, or one that is over within the step, behind those before it.  Only a
\* full log forgets, and only its oldest attempt.
Begins(l, m) ==
    /\ Again \/ l = <<>>
    /\ ~LastIn(l, Unsettled \cup {"gone"})
    /\ \E entry \in Outcomes \cup {"open"} :
           m = Append(IF Len(l) < Depth THEN l ELSE Tail(l), entry)
Settles(l, m)  == LastIn(l, {"open"}) /\ \E o \in Outcomes \cup {Uncertain} : m = Last(l, o)
Orphaned(l, m) == LastIn(l, {"open"}) /\ m = Last(l, "orphan")
Recovers(l, m) == LastIn(l, {"orphan"}) /\ m = Last(l, Uncertain)
Forgets(l, m)  == Prunable /\ m = <<"gone">>

Advances(l, m) ==
    m = l \/ Begins(l, m) \/ Settles(l, m) \/ Orphaned(l, m) \/ Recovers(l, m) \/ Forgets(l, m)

Init == log = [i \in Items |-> <<>>]

Next ==
    /\ DOMAIN log' = Items
    /\ \A i \in Items : Advances(log[i], log'[i])

Spec == Init /\ [][Next]_log
=============================================================================
