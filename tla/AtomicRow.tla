----------------------------- MODULE AtomicRow -----------------------------
(***************************************************************************)
(* What the store promises whoever changes a row: the change happens in    *)
(* one step, to the value the row has then, and a row that is gone stays   *)
(* gone.  McpRegistry takes this for granted (its UpdateRow); RowUpdate    *)
(* implements it with reads and conditional writes.                        *)
(***************************************************************************)
CONSTANTS
    Writers,
    Absent,         \* the value of a row that is not there
    Change(_, _)    \* what a writer makes of a value

VARIABLES value, outcome

RowInit(first) ==
    /\ value = first
    /\ outcome = [w \in Writers |-> "none"]

Ends(w, how) ==
    /\ outcome[w] = "none"
    /\ outcome' = [outcome EXCEPT ![w] = how]

\* The change is made.  A writer may be told of an error all the same, when the
\* answer is what got lost.
Make(w) ==
    /\ value # Absent
    /\ value' = Change(w, value)
    /\ \E how \in {"stored", "failed"} : Ends(w, how)

\* There is nothing to change.
Miss(w) == value = Absent /\ Ends(w, "missing") /\ UNCHANGED value

\* The change is not made, and the writer is told so.
Fail(w) == (\E how \in {"conflict", "failed"} : Ends(w, how)) /\ UNCHANGED value

Disappear == value' = Absent /\ UNCHANGED outcome

RowNext == Disappear \/ \E w \in Writers : Make(w) \/ Miss(w) \/ Fail(w)

=============================================================================
