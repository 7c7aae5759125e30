----------------------------- MODULE Admission -----------------------------
(***************************************************************************)
(* Which identifiers ServerSessions admits (Registry in                    *)
(* server/bridge/operations.rs).                                           *)
(*                                                                         *)
(* Callers number their sessions from a counter and may open and close     *)
(* them in any order, late, or more than once.  The registry remembers one *)
(* high-water mark and the identifiers near it; everything at or below the *)
(* floor of its window has expired.                                        *)
(***************************************************************************)
EXTENDS Integers, FiniteSets

CONSTANTS
    MaxId,      \* bound: identifiers are 1..MaxId
    Window,     \* ADMISSION_WINDOW
    MaxActive   \* the limit on active sessions

ASSUME AdmissionAssumption ==
    /\ MaxId \in Nat
    /\ Window \in Nat \ {0}
    /\ MaxActive \in Nat

Ids == 1..MaxId

VARIABLES
    active,    \* Registry::active: the open sessions
    reserved,  \* Registry::reserved: identifiers near the high-water mark
    sequence,  \* Registry::sequence: the high-water mark
    opened,    \* history: identifiers that were ever opened
    fenced     \* history: identifiers that were closed before they were opened

admissionVars == <<active, reserved, sequence, opened, fenced>>

(* The shapes of the state. *)
AdmissionTypeOK ==
    /\ active \subseteq Ids
    /\ reserved \subseteq Ids
    /\ sequence \in 0..MaxId
    /\ opened \subseteq Ids
    /\ fenced \subseteq Ids

AdmissionInit ==
    /\ active = {}
    /\ reserved = {}
    /\ sequence = 0
    /\ opened = {}
    /\ fenced = {}

\* Saturating subtraction of the window.
Floor(mark) == IF mark > Window THEN mark - Window ELSE 0

Ceiling == sequence + Window

\* The high-water mark once `id` is reserved.
Advance(id) == IF id > sequence THEN id ELSE sequence

\* A pruning that takes the mark's distance for the window's.
PruneBelowMark(id) == {r \in reserved : r > Advance(id)}

\* A registry that never forgets.
PruneNothing(id) == reserved

\* Identifiers that have fallen out of the window are forgotten.
Prune(id) == {r \in reserved : r > Floor(Advance(id))}

\* open: a new identifier.  (A retry of an active one changes nothing.)
Open(id) ==
    /\ id \notin active
    /\ Cardinality(active) < MaxActive
    /\ id > Floor(sequence)
    /\ id \notin reserved
    /\ sequence' = Advance(id)
    /\ reserved' = Prune(id) \cup {id}
    /\ active' = active \cup {id}
    /\ opened' = opened \cup {id}
    /\ UNCHANGED fenced

\* close of an active session.
Retire(id) ==
    /\ id \in active
    /\ active' = active \ {id}
    /\ UNCHANGED <<reserved, sequence, opened, fenced>>

\* close of an identifier that is not active: reserve_close, when it is near
\* the mark.  (One that is further away, or known already, changes nothing.)
Fence(id) ==
    /\ id \notin active
    /\ id > Floor(sequence)
    /\ id <= Ceiling
    /\ id \notin reserved
    /\ reserved' = reserved \cup {id}
    /\ fenced' = fenced \cup {id}
    /\ UNCHANGED <<active, sequence, opened>>

\* shutdown.
RetireAll ==
    /\ active' = {}
    /\ UNCHANGED <<reserved, sequence, opened, fenced>>

AdmissionNext ==
    \/ \E id \in Ids : Open(id) \/ Retire(id) \/ Fence(id)
    \/ RetireAll

AdmissionSpec == AdmissionInit /\ [][AdmissionNext]_admissionVars

-----------------------------------------------------------------------------
(* Properties. *)

\* No identifier is ever opened a second time, and one that was closed before
\* its open arrived stays closed, although the registry forgets identifiers as
\* its window moves on.  (operations.rs:88-109)
NeverReadmitted ==
    [][\A id \in Ids : id \in active' /\ id \notin active
           => id \notin opened \cup fenced]_admissionVars

\* What makes it so: an identifier that is forgotten has expired.
SpentIsRefused ==
    \A id \in opened \cup fenced : id \in reserved \/ id <= Floor(sequence)

\* The registry implements the promise: forgetting what falls out of the window
\* gives no identifier a second life.  (operations.rs:88-109, 310)
LifeStatus ==
    [id \in Ids |-> IF id \in active THEN "open"
                   ELSE IF id \in opened \cup fenced THEN "spent" ELSE "unborn"]

Life == INSTANCE SessionLife WITH Limit <- MaxActive, status <- LifeStatus

ImplementsLife == Life!LifeSpec

\* What is remembered is bounded: the reserved identifiers lie within one
\* window of the mark, on either side.  (operations.rs:95-108)
ReservedIsNear ==
    \A id \in reserved : Floor(sequence) < id /\ id <= Ceiling

\* "Only the 32 active sessions, at most 4096 in-window retired identifiers and
\* one high-water mark are retained" (README.md of server/bridge).
RetiredFitWindow == Cardinality(reserved \ active) <= Window

=============================================================================
