--------------------------- MODULE ConfigDocument ---------------------------
(***************************************************************************)
(* apply_config_doc of registry/config_doc/apply.rs: the install store is  *)
(* made to say what a document declares, one store call after the other,   *)
(* while the store's other users go on.                                    *)
(*                                                                         *)
(* A dial stands for transport, command, arguments and description.  The   *)
(* credentials of a server are one value the user may write ("": none) and  *)
(* the bookkeeping of a sign-in, which a document cannot name.             *)
(***************************************************************************)
EXTENDS Naturals, FiniteSets

CONSTANTS
    Names,      \* qualified names
    Dials,
    Appliers,   \* tasks that apply a document
    MaxIds,     \* bounds the servers ever installed
    MaxApplies, \* bounds the documents applied
    MaxOthers   \* bounds the other users' operations

ASSUME DocumentAssumption ==
    MaxIds \in Nat /\ MaxApplies \in Nat /\ MaxOthers \in Nat /\ "none" \notin Names

VARIABLES
    row,        \* the install rows by server_id
    credentials, \* the stored credentials by server_id
    live,       \* the session of each server: what it was dialled with
    task,       \* each apply's position and locals
    minted,     \* identifiers used so far
    applies, others,
    before,     \* history: the store when each apply began
    alone       \* history: the store was in order when the apply began, and nothing but
                \* the apply itself has changed it since

storeVars == <<row, credentials, live>>
docVars == <<storeVars, task, minted, applies, others, before, alone>>

Ids == 1..MaxIds
NoRow == [name |-> "none"]
NoSession == [dial |-> "none"]
NoSecret == [user |-> "", signedIn |-> FALSE]
Secrets == [user : {"", "v"}, signedIn : BOOLEAN]

\* What one entry of a document says: its credentials may go unsaid, or be a value,
\* the empty one of which removes what is stored.
Declarations == [dial : Dials, on : BOOLEAN, user : {"unsaid", "", "v"}]
Documents == UNION {[S -> Declarations] : S \in SUBSET Names}

Idle == [at |-> "idle", doc |-> <<>>, snap |-> <<>>, left |-> {}, todo |-> {},
         name |-> "none", id |-> 0, stored |-> NoSecret, want |-> NoSecret, moved |-> FALSE]

DocInit ==
    /\ row = [i \in Ids |-> NoRow] /\ credentials = [i \in Ids |-> NoSecret]
    /\ live = [i \in Ids |-> NoSession]
    /\ task = [a \in Appliers |-> Idle]
    /\ minted = 0 /\ applies = 0 /\ others = 0
    /\ before = [a \in Appliers |-> [row |-> row, secret |-> credentials]]
    /\ alone = [a \in Appliers |-> FALSE]

Installed == {i \in Ids : row[i] # NoRow}
\* One name is one install, whoever declares it.
\* (registry/ops/types.rs, registry/config_doc/apply.rs:61-92)
OneRowPerName == \A i, j \in Installed : row[i].name = row[j].name => i = j

CredentialNames(s) == (IF s.user # "" THEN {"user"} ELSE {}) \cup (IF s.signedIn THEN {"signedIn"} ELSE {})

\* "keeps the row's name list in step" with the stored credentials.
\* (registry/config_doc/apply.rs:197)
NamesInStep == \A i \in Installed : row[i].names = CredentialNames(credentials[i])

\* Whoever changes the store is no longer alone with it, for everyone else.
Disturbs(actor) == alone' = [a \in Appliers |-> alone[a] /\ (a = actor \/ storeVars' = storeVars)]
Moves(a, t) == task' = [task EXCEPT ![a] = t]

-----------------------------------------------------------------------------
\* The store.

\* to_installed: the credential names start out empty.
ToInstalled(name, declared) ==
    [name |-> name, dial |-> declared.dial, on |-> declared.on, names |-> {}]

\* A comparison that takes the credentials for part of the dial.
SameDialAndSecret(declared, server) ==
    /\ declared.dial = server.dial /\ declared.on = server.on
    /\ declared.user = "unsaid" => server.names = {}

SameDial(declared, server) == declared.dial = server.dial /\ declared.on = server.on

MergeCredentials(stored, written) ==
    IF written = "unsaid" THEN stored ELSE [stored EXCEPT !.user = written]

\* delete_server: the row first, then the secret. A failure may come between the two.
DeleteServer(i, complete) ==
    /\ row' = [row EXCEPT ![i] = NoRow]
    /\ credentials' = IF complete THEN [credentials EXCEPT ![i] = NoSecret] ELSE credentials

Disconnect(i) == live' = [live EXCEPT ![i] = NoSession]

-----------------------------------------------------------------------------
\* apply_config_doc.

\* The document was accepted; the installs are listed once, for the whole apply.
BeginApply(a, doc) ==
    /\ task[a].at \in {"idle", "done", "failed"} /\ applies < MaxApplies
    /\ Moves(a, [Idle EXCEPT
         !.at = "removing", !.doc = doc, !.snap = row, !.todo = DOMAIN doc,
         !.left = {i \in Installed : row[i].name \notin DOMAIN doc}])
    /\ applies' = applies + 1
    /\ before' = [before EXCEPT ![a] = [row |-> row, secret |-> credentials]]
    /\ alone' = [alone EXCEPT ![a] = OneRowPerName /\ NamesInStep]
    /\ UNCHANGED <<storeVars, minted, others>>

\* uninstall of a server the document leaves out.
Remove(a) ==
    /\ task[a].at = "removing"
    /\ \E i \in task[a].left :
          /\ Disconnect(i) /\ DeleteServer(i, TRUE)
          /\ Moves(a, [task[a] EXCEPT !.left = @ \ {i}])
    /\ UNCHANGED minted

\* The rewrite that leaves the credentials to the cascade.
StoredIgnored(i) == NoSecret

\* load_env_values, before the rewrite deletes them with the row.
StoredBefore(i) == credentials[i]

\* One entry: its server is looked up in the list the apply began with.
Entry(a) ==
    /\ task[a].at = "removing" /\ task[a].left = {}
    /\ \E n \in task[a].todo :
          LET found == {i \in Ids : task[a].snap[i] # NoRow /\ task[a].snap[i].name = n}
              next  == [task[a] EXCEPT !.todo = @ \ {n}, !.name = n]
          IN  \/ /\ found = {} /\ minted < MaxIds
                 /\ minted' = minted + 1
                 /\ row' = [row EXCEPT ![minted + 1] = ToInstalled(n, task[a].doc[n])]
                 /\ Moves(a, [next EXCEPT !.at = "merge", !.id = minted + 1,
                                          !.stored = NoSecret, !.moved = FALSE])
              \/ /\ \E i \in found :
                       LET moved == ~SameDial(task[a].doc[n], task[a].snap[i])
                       IN  Moves(a, [next EXCEPT !.at = IF moved THEN "rewrite" ELSE "merge",
                                        !.id = i, !.stored = StoredBefore(i), !.moved = moved])
                 /\ UNCHANGED <<minted, row>>
    /\ UNCHANGED <<credentials, live>>

\* A changed dial: the session, the row and its credentials go.
Delete(a) ==
    /\ task[a].at = "rewrite"
    /\ Disconnect(task[a].id) /\ DeleteServer(task[a].id, TRUE)
    /\ Moves(a, [task[a] EXCEPT !.at = "insert"])
    /\ UNCHANGED minted

\* insert_server refuses to replace a row.
Insert(a) ==
    /\ task[a].at = "insert" /\ row[task[a].id] = NoRow
    /\ row' = [row EXCEPT ![task[a].id] = ToInstalled(task[a].name, task[a].doc[task[a].name])]
    /\ Moves(a, [task[a] EXCEPT !.at = "restore", !.want = task[a].stored])
    /\ UNCHANGED <<credentials, live, minted>>

\* write_credentials: the values, then the row's list of their names.
SetEnvValues(a) ==
    /\ task[a].at \in {"restore", "set"}
    /\ credentials' = [credentials EXCEPT ![task[a].id] = task[a].want]
    /\ Moves(a, [task[a] EXCEPT !.at = IF @ = "restore" THEN "renames" ELSE "names"])
    /\ UNCHANGED <<row, live, minted>>

UpdateEnvKeys(a) ==
    /\ task[a].at \in {"renames", "names"} /\ row[task[a].id] # NoRow
    /\ row' = [row EXCEPT ![task[a].id].names = CredentialNames(task[a].want)]
    /\ Moves(a, [task[a] EXCEPT !.at = IF @ = "renames" THEN "merge" ELSE "session"])
    /\ UNCHANGED <<credentials, live, minted>>

\* A new value that is not a change is not written.
Merge(a) ==
    /\ task[a].at = "merge"
    /\ LET merged == MergeCredentials(task[a].stored, task[a].doc[task[a].name].user)
       IN  Moves(a, IF merged = task[a].stored THEN [task[a] EXCEPT !.at = "removing"]
                    ELSE [task[a] EXCEPT !.at = "set", !.want = merged])
    /\ UNCHANGED <<storeVars, minted>>

\* The session keeps what it was dialled with.
SessionStays(i) == UNCHANGED live

\* "a new credential only takes effect on a fresh session"
SessionEnds(i) == Disconnect(i)

\* One that was found installed, that is: a server just added is left alone.
Reconnect(a) ==
    /\ task[a].at = "session"
    /\ IF task[a].doc[task[a].name].on /\ ~task[a].moved /\ task[a].snap[task[a].id] # NoRow
       THEN SessionEnds(task[a].id) ELSE UNCHANGED live
    /\ Moves(a, [task[a] EXCEPT !.at = "removing"])
    /\ UNCHANGED <<row, credentials, minted>>

Done(a) ==
    /\ task[a].at = "removing" /\ task[a].left = {} /\ task[a].todo = {}
    /\ Moves(a, [task[a] EXCEPT !.at = "done"])
    /\ UNCHANGED <<storeVars, minted>>

\* A store call fails: apply_config_doc returns, and what it did stays done. A delete,
\* which comes after the disconnect, may have got nowhere, as far as the row, or to the end.
FailStep(a) ==
    /\ task[a].at \notin {"idle", "done", "failed"}
    /\ Moves(a, [Idle EXCEPT !.at = "failed", !.doc = task[a].doc])
    /\ \/ UNCHANGED storeVars
       \/ \E i \in Ids : \/ task[a].at = "rewrite" /\ i = task[a].id
                         \/ task[a].at = "removing" /\ i \in task[a].left
          /\ Disconnect(i)
          /\ \/ UNCHANGED <<row, credentials>>
             \/ \E complete \in BOOLEAN : DeleteServer(i, complete)
    /\ UNCHANGED minted

ApplyStep(a) ==
    /\ \/ Remove(a) \/ Entry(a) \/ Delete(a) \/ Insert(a) \/ SetEnvValues(a)
       \/ UpdateEnvKeys(a) \/ Merge(a) \/ Reconnect(a) \/ Done(a) \/ FailStep(a)
    /\ Disturbs(a)
    /\ UNCHANGED <<applies, others, before>>

-----------------------------------------------------------------------------
\* The store's other users, a whole operation at a time.

\* install refuses a name that is installed.
Install(n, d) ==
    /\ minted < MaxIds /\ \A i \in Installed : row[i].name # n
    /\ minted' = minted + 1
    /\ row' = [row EXCEPT ![minted + 1] = [name |-> n, dial |-> d, on |-> TRUE, names |-> {}]]
    /\ UNCHANGED <<credentials, live>>

Uninstall(i) ==
    /\ i \in Installed
    /\ Disconnect(i) /\ DeleteServer(i, TRUE)
    /\ UNCHANGED minted

SignIn(i) ==
    /\ i \in Installed
    /\ credentials' = [credentials EXCEPT ![i].signedIn = TRUE]
    /\ row' = [row EXCEPT ![i].names = CredentialNames(credentials'[i])]
    /\ UNCHANGED <<live, minted>>

Connect(i) ==
    /\ i \in Installed /\ row[i].on
    /\ live' = [live EXCEPT ![i] = [dial |-> row[i].dial, secret |-> credentials[i].user]]
    /\ UNCHANGED <<row, credentials, minted>>

OtherStep ==
    /\ others < MaxOthers /\ others' = others + 1
    /\ \/ \E n \in Names, d \in Dials : Install(n, d)
       \/ \E i \in Ids : Uninstall(i) \/ SignIn(i) \/ Connect(i)
    /\ alone' = [a \in Appliers |-> FALSE]
    /\ UNCHANGED <<task, applies, before>>

DocNext ==
    \/ \E a \in Appliers : ApplyStep(a) \/ \E doc \in Documents : BeginApply(a, doc)
    \/ OtherStep

DocSpec == DocInit /\ [][DocNext]_docVars

-----------------------------------------------------------------------------

DocTypeOK ==
    /\ \A i \in Ids : row[i] = NoRow \/ (row[i].name \in Names /\ row[i].dial \in Dials)
    /\ credentials \in [Ids -> Secrets] /\ minted \in 0..MaxIds
    /\ \A i \in Ids : i > minted => row[i] = NoRow /\ credentials[i] = NoSecret

\* The names a document can tell apart, with what is stored for each.
Says(rows, values, n) ==
    {[dial |-> rows[i].dial, on |-> rows[i].on, secret |-> values[i]] :
        i \in {j \in Ids : rows[j] # NoRow /\ rows[j].name = n}}

\* A document that was applied to the end, with the store to itself, is what the store
\* says: its names and no others, each with the dial it declares, the credentials it
\* writes, the stored ones where it says nothing, and a sign-in that no document can
\* name, all of them listed on the row; and no session is left that was dialled
\* otherwise.
\* (registry/config_doc/apply.rs:28-40, 113-155)
AppliedAsDeclared ==
    \A a \in Appliers : task[a].at = "done" /\ alone[a] =>
        /\ \A n \in Names :
             LET was == Says(before[a].row, before[a].secret, n)
             IN  Says(row, credentials, n) =
                   IF n \notin DOMAIN task[a].doc THEN {}
                   ELSE {[dial |-> task[a].doc[n].dial, on |-> task[a].doc[n].on,
                          secret |-> MergeCredentials(s, task[a].doc[n].user)] :
                            s \in IF was = {} THEN {NoSecret} ELSE {w.secret : w \in was}}
        /\ NamesInStep

\* A session that was up to date stays so or ends.
\* (registry/config_doc/apply.rs:37-40, 148-156)
NoStaleSession ==
    \A a \in Appliers : task[a].at = "done" /\ alone[a] =>
        \A i \in Ids : live[i] = NoSession
                       \/ live[i] = [dial |-> row[i].dial, secret |-> credentials[i].user]
                       \/ live[i] # [dial |-> before[a].row[i].dial, secret |-> before[a].secret[i].user]

\* What the store already says.
Said(a) ==
    \A n \in Names :
        LET was == Says(before[a].row, before[a].secret, n)
        IN  IF n \in DOMAIN task[a].doc
            THEN \E w \in was : /\ w.dial = task[a].doc[n].dial /\ w.on = task[a].doc[n].on
                                /\ MergeCredentials(w.secret, task[a].doc[n].user) = w.secret
            ELSE was = {}

\* Applying what the store already says, however much of it, changes nothing and ends
\* no session, also when it fails half way.
\* (registry/config_doc/apply.rs:28-40, registry/config_doc/document.rs:466-478)
ReapplyChangesNothing ==
    [][\A a \in Appliers :
         task[a].at # "idle" /\ alone[a] /\ Said(a) /\ ApplyStep(a) => UNCHANGED storeVars]_docVars

\* "a round trip must not wipe them": credentials a document says nothing of.
\* (registry/config_doc/apply.rs:33-35)
UnsaidIsKept ==
    \A a \in Appliers, i \in Ids :
        /\ task[a].at \in {"done", "failed"} /\ alone[a] /\ before[a].row[i] # NoRow
        /\ \E n \in DOMAIN task[a].doc : before[a].row[i].name = n /\ task[a].doc[n].user = "unsaid"
        => credentials[i] = before[a].secret[i]

\* A document that was applied is what the store says and what the sessions run on.
ConfigInv == DocTypeOK /\ AppliedAsDeclared /\ NoStaleSession

=============================================================================
