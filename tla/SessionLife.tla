---------------------------- MODULE SessionLife ----------------------------
(***************************************************************************)
(* What the registry of ServerSessions promises of an identifier, with no  *)
(* window, mark or memory in sight: it names one session in its life, and  *)
(* none once it was closed ahead of its open (README.md of server/bridge,  *)
(* "Close retires only its identifier, including before open").  Admission *)
(* implements it.                                                          *)
(***************************************************************************)
EXTENDS Integers, FiniteSets

CONSTANTS
    Ids,    \* the identifiers
    Limit   \* how many sessions may be open at once

VARIABLE status

Having(mark) == {id \in Ids : status[id] = mark}

LifeInit == status = [id \in Ids |-> "unborn"]

\* The one session of `id` begins.
Begin(id) ==
    /\ status[id] = "unborn"
    /\ Cardinality(Having("open")) < Limit
    /\ status' = [status EXCEPT ![id] = "open"]

\* The sessions of `S` end, for good.
End(S) ==
    /\ \A id \in S : status[id] = "open"
    /\ status' = [id \in Ids |-> IF id \in S THEN "spent" ELSE status[id]]

\* `id` is closed before its session began.
Bar(id) ==
    /\ status[id] = "unborn"
    /\ status' = [status EXCEPT ![id] = "spent"]

LifeNext ==
    \/ \E id \in Ids : Begin(id) \/ Bar(id)
    \/ \E S \in SUBSET Ids : End(S)

LifeSpec == LifeInit /\ [][LifeNext]_status

=============================================================================
