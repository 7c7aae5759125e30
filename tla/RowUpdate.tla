----------------------------- MODULE RowUpdate -----------------------------
(***************************************************************************)
(* One row, changed by several writers at once: Repo::update of            *)
(* storage/local/primitives/repo.rs, as update_server of                   *)
(* registry/store/types.rs uses it.  A writer reads the row, works out     *)
(* what it should be, and writes that on condition that the row is still   *)
(* the version it read; a lost race starts over, up to a budget.           *)
(*                                                                         *)
(* A row is inserted once, under an identifier of its own, and its version *)
(* counts its writes; an uninstall removes it for good.                    *)
(***************************************************************************)
EXTENDS Integers, FiniteSets

CONSTANTS
    Writers,
    RowValues,         \* what a row may hold
    Absent,         \* the value of a row that is not there
    First,          \* what it was inserted with
    Change(_, _),   \* the closure: what a writer makes of a value
    Attempts        \* RetryPolicy::attempts

ASSUME RowAssumption ==
    /\ IsFiniteSet(Writers)
    /\ Absent \notin RowValues
    /\ First \in RowValues
    /\ \A w \in Writers, v \in RowValues : Change(w, v) \in RowValues
    /\ Attempts \in Nat \ {0}

VARIABLES
    row,      \* the document: its version and its value
    step,     \* what each writer does next
    saw,      \* the document as each writer has read it
    lost,     \* the conflicts each has met
    outcome   \* what its update returned

rowVars == <<row, step, saw, lost, outcome>>

Documents == [version : Nat, value : RowValues \cup {Absent}]

RowUpdateInit ==
    /\ row = [version |-> 1, value |-> First]
    /\ step = [w \in Writers |-> "get"]
    /\ saw = [w \in Writers |-> row]
    /\ lost = [w \in Writers |-> 0]
    /\ outcome = [w \in Writers |-> "none"]

Return(w, how) ==
    /\ step' = [step EXCEPT ![w] = "returned"]
    /\ outcome' = [outcome EXCEPT ![w] = how]

Get(w) ==
    /\ step[w] = "get"
    /\ row.value # Absent
    /\ saw' = [saw EXCEPT ![w] = row]
    /\ step' = [step EXCEPT ![w] = "put"]
    /\ UNCHANGED <<row, lost, outcome>>

\* The closure declines to make a row out of nothing.
GetNothing(w) ==
    /\ step[w] = "get"
    /\ row.value = Absent
    /\ Return(w, "missing")
    /\ UNCHANGED <<row, saw, lost>>

\* A write without a condition, which also makes a row that is gone.
AnyVersion(w) == TRUE

\* Precondition::Version
SameVersion(w) == row.value # Absent /\ row.version = saw[w].version

Rewritten(w) == [version |-> row.version + 1, value |-> Change(w, saw[w].value)]

Put(w) ==
    /\ step[w] = "put"
    /\ SameVersion(w)
    /\ row' = Rewritten(w)
    /\ Return(w, "stored")
    /\ UNCHANGED <<saw, lost>>

\* One conflict too many: the last of them is returned.
Spent(w) == lost[w] + 1 >= Attempts

Conflict(w) ==
    /\ step[w] = "put"
    /\ ~SameVersion(w)
    /\ lost' = [lost EXCEPT ![w] = @ + 1]
    /\ IF Spent(w) THEN Return(w, "conflict")
       ELSE step' = [step EXCEPT ![w] = "get"] /\ UNCHANGED outcome
    /\ UNCHANGED <<row, saw>>

\* Any other error ends the update, of a write that may have been made.
GetFails(w) ==
    /\ step[w] = "get"
    /\ Return(w, "failed")
    /\ UNCHANGED <<row, saw, lost>>

PutFails(w) ==
    /\ step[w] = "put"
    /\ \/ UNCHANGED row
       \/ SameVersion(w) /\ row' = Rewritten(w)
    /\ Return(w, "failed")
    /\ UNCHANGED <<saw, lost>>

\* delete_server
RowDeleted ==
    /\ row.value # Absent
    /\ row' = [row EXCEPT !.value = Absent]
    /\ UNCHANGED <<step, saw, lost, outcome>>

WriterStep(w) ==
    Get(w) \/ GetNothing(w) \/ Put(w) \/ Conflict(w) \/ GetFails(w) \/ PutFails(w)

RowUpdateNext == RowDeleted \/ \E w \in Writers : WriterStep(w)

RowUpdateSpec == RowUpdateInit /\ [][RowUpdateNext]_rowVars

-----------------------------------------------------------------------------
(* Properties. *)

RowTypeOK ==
    /\ row \in Documents
    /\ step \in [Writers -> {"get", "put", "returned"}]
    /\ saw \in [Writers -> Documents]
    /\ lost \in [Writers -> Nat]
    /\ outcome \in [Writers -> {"none", "stored", "missing", "conflict", "failed"}]

\* A version names one value, until the row goes.
VersionsTell ==
    \A w \in Writers :
        step[w] = "put" =>
            /\ saw[w].version <= row.version
            /\ saw[w].value \in RowValues
            /\ saw[w].version = row.version => row.value \in {saw[w].value, Absent}

RowInv == RowTypeOK /\ VersionsTell

Atomic == INSTANCE AtomicRow WITH value <- row.value

\* "Read-modify-write one record as a single compare-and-swap loop": no change is
\* lost, made twice, made to a value that was already replaced, or made to a row that
\* is gone.  (storage/local/primitives/repo.rs:226-240)
UpdatesAreAtomic == Atomic!RowInit(First) /\ [][Atomic!RowNext]_<<row.value, outcome>>

\* "A lost swap means another writer made progress, so the loop converges": a writer
\* loses no more swaps than there were writes, and an update with more attempts than
\* the row has other writers, and one for its removal, never fails for having lost.
\* (storage/local/primitives/repo.rs:18-22)
LostMeansProgress ==
    \A w \in Writers :
        /\ lost[w] <= row.version - 1 + (IF row.value = Absent THEN 1 ELSE 0)
        /\ outcome[w] = "conflict" => Attempts <= Cardinality(Writers)

\* A change is one step, and it is made unless the writer is told otherwise.
RowKeeps == UpdatesAreAtomic /\ [](RowInv /\ LostMeansProgress)

=============================================================================
