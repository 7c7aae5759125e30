---------------------------- MODULE ClientTable ----------------------------
(***************************************************************************)
(* One directory's entries of ClientTable (tinymcp-bus, client_lifecycle/  *)
(* table.rs) under its locks: the cached client and the cleanup            *)
(* reservation, used by several threads at once.  A step is what a thread  *)
(* does between taking a lock and letting it go; a lock that is taken      *)
(* inside another one is part of the other's step.  Only after_close is    *)
(* held across steps, because a cleanup's action runs under it.            *)
(***************************************************************************)
EXTENDS Naturals

CONSTANTS
    Threads,     \* threads that use the table
    Tokens,      \* identities of clients, and of reservations
    Nobody,
    MaxActions   \* bounds the actions that are registered

ASSUME TableAssumption ==
    Nobody \notin Threads \cup Tokens /\ MaxActions \in Nat

VARIABLES
    cached,      \* the client in `clients`, or Nobody
    entry,       \* the reservation in `reservations`, or Nobody
    fenced,      \* host_completion_pending of each reservation
    action,      \* after_close of each: whether an action is set
    holder,      \* the thread that holds each one's after_close
    created,     \* clients and reservations that have been created
    thread,      \* what each thread is doing, and with which client and reservation
    due,         \* history: the actions of each reservation that did not succeed yet
    registered   \* counts the actions that were registered

tableVars == <<cached, entry, fenced, action, holder, created, thread, due, registered>>

IdleThread == [at |-> "idle", client |-> Nobody, res |-> Nobody]

TableTypeOK ==
    /\ cached \in Tokens \cup {Nobody} /\ entry \in Tokens \cup {Nobody}
    /\ fenced \in [Tokens -> BOOLEAN] /\ action \in [Tokens -> BOOLEAN]
    /\ holder \in [Tokens -> Threads \cup {Nobody}]
    /\ created \in [{"client", "reservation"} -> SUBSET Tokens]
    /\ thread \in [Threads -> [at : {"idle", "admit", "set", "check", "act", "evict", "release"},
                               client : Tokens \cup {Nobody}, res : Tokens \cup {Nobody}]]
    /\ due \in [Tokens -> BOOLEAN] /\ registered \in 0..MaxActions
    /\ \A r \in Tokens : holder[r] # Nobody => thread[holder[r]].res = r

TableInit ==
    /\ cached = Nobody /\ entry = Nobody
    /\ fenced = [r \in Tokens |-> FALSE] /\ action = [r \in Tokens |-> FALSE]
    /\ holder = [r \in Tokens |-> Nobody]
    /\ created = [k \in {"client", "reservation"} |-> {}]
    /\ thread = [t \in Threads |-> IdleThread]
    /\ due = [r \in Tokens |-> FALSE] /\ registered = 0

-----------------------------------------------------------------------------

IdleAt(t) == thread[t] = IdleThread
Goes(t, at, c, r) == thread' = [thread EXCEPT ![t] = [at |-> at, client |-> c, res |-> r]]
Rests(t) == thread' = [thread EXCEPT ![t] = IdleThread]
Fresh(kind) == CHOOSE x \in Tokens : x \notin created[kind]
Creates(kind) == created' = [created EXCEPT ![kind] = @ \cup {Fresh(kind)}]

\* A thread that is inside admit holds the lock of `clients`.
ClientsFree == \A u \in Threads : thread[u].at # "admit"

\* admit looks for a reservation and then for a client, under the clients' lock.
AdmitChecks(t) ==
    /\ IdleAt(t) /\ ClientsFree /\ entry = Nobody
    /\ Goes(t, "admit", Nobody, Nobody)
    /\ UNCHANGED <<cached, entry, fenced, action, holder, created, due, registered>>

AdmitInserts(t) ==
    /\ thread[t].at = "admit"
    /\ IF cached = Nobody /\ created["client"] # Tokens
       THEN cached' = Fresh("client") /\ Creates("client")
       ELSE UNCHANGED <<cached, created>>
    /\ Rests(t)
    /\ UNCHANGED <<entry, fenced, action, holder, due, registered>>

\* The entry of reservation_for, created when it is absent.
Entered(r) ==
    IF entry # Nobody THEN r = entry /\ UNCHANGED <<entry, created>>
    ELSE /\ created["reservation"] # Tokens /\ r = Fresh("reservation")
         /\ entry' = r /\ Creates("reservation")

\* reserve_host_completion.
ReserveHostCompletion(t) ==
    \E r \in Tokens :
        /\ IdleAt(t) /\ Entered(r)
        /\ fenced' = [fenced EXCEPT ![r] = TRUE]
        /\ UNCHANGED <<cached, action, holder, thread, due, registered>>

\* complete_host_cleanup, with a reservation the host was handed at some time.
CompleteHostCleanup(t) ==
    \E r \in created["reservation"] :
        /\ IdleAt(t) /\ holder[r] = Nobody /\ entry = r
        /\ fenced' = [fenced EXCEPT ![r] = FALSE]
        /\ entry' = IF action[r] THEN r ELSE Nobody
        /\ UNCHANGED <<cached, action, holder, created, thread, due, registered>>

\* reservation_with_action: reservation_for, then after_close and another look.
WithAction(t) ==
    \E r \in Tokens :
        /\ IdleAt(t) /\ registered < MaxActions /\ Entered(r)
        /\ Goes(t, "set", Nobody, r)
        /\ registered' = registered + 1
        /\ UNCHANGED <<cached, fenced, action, holder, due>>

\* An action that is set on a reservation nobody has looked at again.
SetsActionBlindly(t, r) ==
    /\ action' = [action EXCEPT ![r] = TRUE]
    /\ due' = [due EXCEPT ![r] = TRUE]
    /\ Rests(t)

\* The loop starts again when the reservation is not the current one any more.
SetsAction(t, r) ==
    /\ IF entry = r
       THEN /\ action' = [action EXCEPT ![r] = TRUE]
            /\ due' = [due EXCEPT ![r] = TRUE]
       ELSE UNCHANGED <<action, due>>
    /\ Rests(t)

SetAction(t) ==
    LET r == thread[t].res
    IN  /\ thread[t].at = "set" /\ holder[r] = Nobody
        /\ SetsAction(t, r)
        /\ UNCHANGED <<cached, entry, fenced, holder, created, registered>>

\* insert, which replaces whatever is there.
Insert(t) ==
    /\ IdleAt(t) /\ ClientsFree /\ created["client"] # Tokens
    /\ cached' = Fresh("client") /\ Creates("client")
    /\ UNCHANGED <<entry, fenced, action, holder, thread, due, registered>>

\* evict, with a client the host was handed at some time.
Evict(t) ==
    \E c \in created["client"] :
        /\ IdleAt(t) /\ ClientsFree /\ cached = c
        /\ cached' = Nobody
        /\ UNCHANGED <<entry, fenced, action, holder, created, thread, due, registered>>

-----------------------------------------------------------------------------
(* finish_cleanup, for a client or, from retry_orphaned, without one.      *)

BeginCleanup(t) ==
    \E r \in created["reservation"], c \in created["client"] \cup {Nobody} :
        /\ IdleAt(t) /\ (c = Nobody => cached = Nobody)
        /\ Goes(t, "check", c, r)
        /\ UNCHANGED <<cached, entry, fenced, action, holder, created, due, registered>>

Owns(c) == cached = c

CheckCleanup(t) ==
    LET p == thread[t]
    IN  /\ p.at = "check" /\ holder[p.res] = Nobody /\ ClientsFree
        /\ IF entry = p.res /\ ~fenced[p.res] /\ (p.client # Nobody => Owns(p.client))
           THEN /\ holder' = [holder EXCEPT ![p.res] = t]
                /\ Goes(t, "act", p.client, p.res)
           ELSE Rests(t) /\ UNCHANGED holder
        /\ UNCHANGED <<cached, entry, fenced, action, created, due, registered>>

LetsGo(t) == holder' = [holder EXCEPT ![thread[t].res] = Nobody]

\* The action runs without the clients' lock, and may fail.
RunAction(t) ==
    LET p == thread[t]
    IN  /\ p.at = "act"
        /\ \/ /\ Goes(t, IF p.client = Nobody THEN "release" ELSE "evict", p.client, p.res)
              /\ due' = [due EXCEPT ![p.res] = FALSE]
              /\ UNCHANGED holder
           \/ /\ action[p.res] /\ LetsGo(t) /\ Rests(t) /\ UNCHANGED due
        /\ UNCHANGED <<cached, entry, fenced, action, created, registered>>

\* Eviction of whatever client is cached now.
StillAnyone(c) == TRUE

StillOwned(c) == Owns(c)

EvictClient(t) ==
    LET p == thread[t]
    IN  /\ p.at = "evict" /\ ClientsFree
        /\ IF StillOwned(p.client)
           THEN /\ cached' = Nobody
                /\ Goes(t, "release", p.client, p.res) /\ UNCHANGED holder
           ELSE LetsGo(t) /\ Rests(t) /\ UNCHANGED cached
        /\ UNCHANGED <<entry, fenced, action, created, due, registered>>

\* A release that only looks at the fence before the action.
ReleasesAnyway(r) == entry = r

\* The reservation goes unless a fence was set meanwhile.
Releases(r) == entry = r /\ ~fenced[r]

ReleaseReservation(t) ==
    LET p == thread[t]
    IN  /\ p.at = "release"
        /\ entry' = IF Releases(p.res) THEN Nobody ELSE entry
        /\ LetsGo(t) /\ Rests(t)
        /\ UNCHANGED <<cached, fenced, action, created, due, registered>>

TableNext ==
    \E t \in Threads :
        \/ AdmitChecks(t) \/ AdmitInserts(t)
        \/ ReserveHostCompletion(t) \/ CompleteHostCleanup(t)
        \/ WithAction(t) \/ SetAction(t) \/ Insert(t) \/ Evict(t)
        \/ BeginCleanup(t) \/ CheckCleanup(t) \/ RunAction(t)
        \/ EvictClient(t) \/ ReleaseReservation(t)

TableSpec == TableInit /\ [][TableNext]_tableVars

-----------------------------------------------------------------------------
(* Properties. *)

\* A directory stays unavailable until the host has confirmed its own cleanup:
\* "Module close and orphan retries cannot release this reservation."
\* (client_lifecycle/table.rs:157-158)
FenceOutlastsCleanup ==
    [][\A r \in Tokens : fenced[r] /\ entry = r => entry' = r \/ ~fenced'[r]]_tableVars

\* No reservation leaves the table while an action that was registered on it has
\* yet to succeed, and none is registered on one that has left.
\* (client_lifecycle/table.rs:208-227, 245-249)
ActionsAreRun == \A r \in Tokens : due[r] => entry = r

\* A cleanup takes out the client it was begun for and no other, also when the
\* client was replaced while its action ran.  (client_lifecycle/table.rs:245-249)
EvictsItsOwn ==
    [][\A c \in Tokens : cached = c /\ cached' # c =>
         \/ thread' = thread   \* insert and evict
         \/ \E t \in Threads : thread[t].client = c /\ thread'[t] # thread[t]]_tableVars

\* The two facts about what leaves the table.
TableLetsGoSafely == FenceOutlastsCleanup /\ EvictsItsOwn

\* What holds of the table while threads open, clean up and evict.
TableInv == TableTypeOK /\ ActionsAreRun

\* One client per directory, let go only when nobody uses it.
TableKeeps == []TableInv /\ TableLetsGoSafely

=============================================================================
