---------------------------- MODULE InstallClaim ----------------------------
(***************************************************************************)
(* McpRegistry::install of one qualified name by several callers           *)
(* (registry/ops/types.rs), the claim that keeps the name to one install   *)
(* (Store::insert_server_if_absent and acquire_claim in                    *)
(* registry/store/types.rs), and Store::delete_server.                     *)
(*                                                                         *)
(* A server's row is keyed by its install identifier and the claim by the  *)
(* qualified name.  Every install attempt draws a fresh identifier, so     *)
(* here an installer is its identifier, and since an attempt writes the    *)
(* claim once at most the owner of the claim is also its version.  Every   *)
(* call on the document store or the secret store is a step of its own.    *)
(***************************************************************************)
EXTENDS Naturals, FiniteSets

CONSTANTS
    Installers,  \* the install attempts, each with the identifier it drew
    None,        \* no claim, no other install
    Lease,       \* CLAIM_LEASE_MS, in clock units
    Patience,    \* how long a prompt insert takes, in clock units
    MaxTime,     \* bound: the clock stops here
    MaxDeletes,  \* bound: uninstalls
    MaxMishaps   \* bound: crashes and failing store calls

ASSUME InstallAssumption ==
    /\ None \notin Installers
    /\ Lease \in Nat /\ Patience \in Nat /\ MaxTime \in Nat
    /\ MaxDeletes \in Nat /\ MaxMishaps \in Nat

VARIABLES
    rows,     \* the rows of mcp.servers that carry the name
    claim,    \* the document of mcp.server_names: the owner's identifier
    secret,   \* per identifier, the installers whose credentials it carries
    clock,    \* now_ms
    pc,       \* each installer's next step, or how it ended
    at,       \* each installer's claimed_ms
    other,    \* the install or the claim's owner that the installer found
    merged,   \* the credentials a refresh is about to store
    del,      \* each identifier's delete_server: its next step
    mishaps,  \* history: how many crashes and failing store calls there were
    late      \* history: some insert took longer than Patience

vars == <<rows, claim, secret, clock, pc, at, other, merged, del, mishaps, late>>

Inserting == {"query", "claim", "held", "holder", "lease", "take", "put",
              "verify", "backout", "release", "drop"}
Running   == Inserting \cup {"find", "lookup", "lost", "load", "merge", "secret"}
Ended     == {"installed", "refreshed", "gone", "failed", "crashed"}
Deleting  == {"get", "row", "secret", "claim", "drop", "forget"}

(* The shapes of the state. *)
InstallTypeOK ==
    /\ rows \subseteq Installers
    /\ claim \in Installers \cup {None}
    /\ secret \in [Installers -> SUBSET Installers]
    /\ clock \in 0..MaxTime
    /\ pc \in [Installers -> {"idle"} \cup Running \cup Ended]
    /\ at \in [Installers -> 0..MaxTime]
    /\ other \in [Installers -> Installers \cup {None}]
    /\ merged \in [Installers -> SUBSET Installers]
    /\ del \in [Installers -> {"never", "done"} \cup Deleting]
    /\ mishaps \in 0..MaxMishaps
    /\ late \in BOOLEAN

Init ==
    /\ rows = {}
    /\ claim = None
    /\ secret = [i \in Installers |-> {}]
    /\ clock = 0
    /\ pc = [i \in Installers |-> "idle"]
    /\ at = [i \in Installers |-> 0]
    /\ other = [i \in Installers |-> None]
    /\ merged = [i \in Installers |-> {}]
    /\ del = [i \in Installers |-> "never"]
    /\ mishaps = 0
    /\ late = FALSE

Goto(i, step) == pc' = [pc EXCEPT ![i] = step]

\* What the installer read is not used again.
LetGo(i) ==
    /\ other' = [other EXCEPT ![i] = None]
    /\ merged' = [merged EXCEPT ![i] = {}]

Mishap == mishaps < MaxMishaps /\ mishaps' = mishaps + 1

\* A store call of the installer fails and it goes on at `step`.
Fault(i, step) ==
    /\ Mishap
    /\ Goto(i, step)
    /\ UNCHANGED <<rows, claim, secret, clock, at, other, merged, del, late>>

-----------------------------------------------------------------------------
(* McpRegistry::install. *)

Begin(i) ==
    /\ pc[i] = "idle"
    /\ Goto(i, "find")
    /\ UNCHANGED <<rows, claim, secret, clock, at, other, merged, del, mishaps, late>>

\* find_server_by_qualified_name, before the catalog lookup (`missing` is
\* "lookup") and after a lost race ("gone").
FindOr(i, missing) ==
    \/ /\ \E found \in rows : other' = [other EXCEPT ![i] = found]
       /\ Goto(i, "load")
       /\ UNCHANGED <<rows, claim, secret, clock, at, merged, del, mishaps, late>>
    \/ /\ rows = {}
       /\ Goto(i, missing)
       /\ LetGo(i)
       /\ UNCHANGED <<rows, claim, secret, clock, at, del, mishaps, late>>
    \/ Fault(i, "failed")

Find(i) == pc[i] = "find" /\ FindOr(i, "lookup")

Lost(i) == pc[i] = "lost" /\ FindOr(i, "gone")

\* A stamp that says when the lease ends.
ExpiresAt == clock + Lease

\* The stamp of a claim.
ClaimedAt == clock

\* The awaited catalog lookup fails, or the insert stamps its claim.
Lookup(i) ==
    /\ pc[i] = "lookup"
    /\ \/ /\ at' = [at EXCEPT ![i] = ClaimedAt]
          /\ Goto(i, "query")
       \/ /\ Goto(i, "failed")
          /\ UNCHANGED at
    /\ UNCHANGED <<rows, claim, secret, clock, other, merged, del, mishaps, late>>

\* set_env_values of the winner: a write of its own values alone.
StoreSecret(i) ==
    /\ pc[i] = "secret"
    /\ \/ /\ secret' = [secret EXCEPT ![i] = {i}]
          /\ Goto(i, "installed")
          /\ UNCHANGED <<rows, claim, clock, at, other, merged, del, mishaps, late>>
       \/ Fault(i, "failed")

\* refresh_install: the install that was found gets the caller's credentials.
LoadSecret(i) ==
    /\ pc[i] = "load"
    /\ \/ /\ merged' = [merged EXCEPT ![i] = secret[other[i]] \cup {i}]
          /\ Goto(i, "merge")
          /\ UNCHANGED <<rows, claim, secret, clock, at, other, del, mishaps, late>>
       \/ Fault(i, "failed")

MergeSecret(i) ==
    /\ pc[i] = "merge"
    /\ \/ /\ secret' = [secret EXCEPT ![other[i]] = merged[i]]
          /\ Goto(i, "refreshed")
          /\ LetGo(i)
          /\ UNCHANGED <<rows, claim, clock, at, del, mishaps, late>>
       \/ Fault(i, "failed")

-----------------------------------------------------------------------------
(* insert_server_if_absent. *)

\* A row written without a claim also counts.
Query(i) ==
    /\ pc[i] = "query"
    /\ \/ /\ Goto(i, IF rows = {} THEN "claim" ELSE "lost")
          /\ UNCHANGED <<rows, claim, secret, clock, at, other, merged, del, mishaps, late>>
       \/ Fault(i, "failed")

\* acquire_claim: the put that only succeeds when there is no claim.
PutClaim(i) ==
    /\ pc[i] = "claim"
    /\ \/ /\ claim = None
          /\ claim' = i
          /\ Goto(i, "put")
          /\ UNCHANGED <<rows, secret, clock, at, other, merged, del, mishaps, late>>
       \/ /\ claim # None
          /\ Goto(i, "held")
          /\ UNCHANGED <<rows, claim, secret, clock, at, other, merged, del, mishaps, late>>
       \/ Fault(i, "failed")

\* The claim that was in the way is read; it may be gone by now.
GetClaim(i) ==
    /\ pc[i] = "held"
    /\ \/ /\ other' = [other EXCEPT ![i] = claim]
          /\ Goto(i, IF claim = None THEN "lost" ELSE "holder")
          /\ UNCHANGED <<rows, claim, secret, clock, at, merged, del, mishaps, late>>
       \/ Fault(i, "failed")

\* A claim whose server is there stands.
GetHolder(i) ==
    /\ pc[i] = "holder"
    /\ \/ /\ Goto(i, IF other[i] \in rows THEN "lost" ELSE "lease")
          /\ UNCHANGED <<rows, claim, secret, clock, at, other, merged, del, mishaps, late>>
       \/ Fault(i, "failed")

\* A takeover that does not wait for the lease.
NoLease(i) == TRUE

Expired(i) == clock - at[other[i]] >= Lease

\* So does one whose lease has time left.
CheckLease(i) ==
    /\ pc[i] = "lease"
    /\ Goto(i, IF Expired(i) THEN "take" ELSE "lost")
    /\ UNCHANGED <<rows, claim, secret, clock, at, other, merged, del, mishaps, late>>

\* The put that only succeeds on the claim that was read.
TakeClaim(i) ==
    /\ pc[i] = "take"
    /\ \/ /\ claim = other[i]
          /\ claim' = i
          /\ Goto(i, "put")
          /\ LetGo(i)
          /\ UNCHANGED <<rows, secret, clock, at, del, mishaps, late>>
       \/ /\ claim # other[i]
          /\ Goto(i, "lost")
          /\ UNCHANGED <<rows, claim, secret, clock, at, other, merged, del, mishaps, late>>
       \/ Fault(i, "failed")

PutRow(i) ==
    /\ pc[i] = "put"
    /\ \/ /\ rows' = rows \cup {i}
          /\ Goto(i, "verify")
          /\ UNCHANGED <<claim, secret, clock, at, other, merged, del, mishaps, late>>
       \/ Fault(i, "release")

\* A row that could not be written gives its claim back: read, then delete.
ReleaseClaim(i) ==
    /\ pc[i] = "release"
    /\ \/ /\ Goto(i, IF claim = i THEN "drop" ELSE "failed")
          /\ UNCHANGED <<rows, claim, secret, clock, at, other, merged, del, mishaps, late>>
       \/ Fault(i, "failed")

DropClaim(i) ==
    /\ pc[i] = "drop"
    /\ \/ /\ claim' = IF claim = i THEN None ELSE claim
          /\ Goto(i, "failed")
          /\ UNCHANGED <<rows, secret, clock, at, other, merged, del, mishaps, late>>
       \/ Fault(i, "failed")

\* The claim is read again once the row is there.
Verify(i) ==
    /\ pc[i] = "verify"
    /\ \/ /\ Goto(i, IF claim = i THEN "secret" ELSE "backout")
          /\ UNCHANGED <<rows, claim, secret, clock, at, other, merged, del, mishaps, late>>
       \/ Fault(i, "failed")

\* A back-out that leaves its row to the install that took the claim.
BackOutKeeps(i) ==
    /\ pc[i] = "backout"
    /\ Goto(i, "lost")
    /\ UNCHANGED <<rows, claim, secret, clock, at, other, merged, del, mishaps, late>>

\* Somebody has taken it over: the row goes again.
BackOut(i) ==
    /\ pc[i] = "backout"
    /\ \/ /\ rows' = rows \ {i}
          /\ Goto(i, "lost")
          /\ UNCHANGED <<claim, secret, clock, at, other, merged, del, mishaps, late>>
       \/ Fault(i, "failed")

-----------------------------------------------------------------------------
(* delete_server of an identifier that the caller has seen listed.         *)

DeleteGoto(i, step) == del' = [del EXCEPT ![i] = step]

DeleteFault(i) ==
    /\ Mishap
    /\ DeleteGoto(i, "done")
    /\ UNCHANGED <<rows, claim, secret, clock, pc, at, other, merged, late>>

BeginDelete(i) ==
    /\ del[i] = "never"
    /\ i \in rows
    /\ Cardinality({j \in Installers : del[j] # "never"}) < MaxDeletes
    /\ DeleteGoto(i, "get")
    /\ UNCHANGED <<rows, claim, secret, clock, pc, at, other, merged, mishaps, late>>

\* The row is read for its name.  When it has gone meanwhile there is no name
\* to find a claim by, and only the secret is left to delete.
DeleteGet(i) ==
    /\ del[i] = "get"
    /\ \/ /\ DeleteGoto(i, IF i \in rows THEN "row" ELSE "forget")
          /\ UNCHANGED <<rows, claim, secret, clock, pc, at, other, merged, mishaps, late>>
       \/ DeleteFault(i)

DeleteRow(i) ==
    /\ del[i] = "row"
    /\ \/ /\ rows' = rows \ {i}
          /\ DeleteGoto(i, "secret")
          /\ UNCHANGED <<claim, secret, clock, pc, at, other, merged, mishaps, late>>
       \/ DeleteFault(i)

DeleteSecret(i) ==
    /\ del[i] \in {"secret", "forget"}
    /\ \/ /\ secret' = [secret EXCEPT ![i] = {}]
          /\ DeleteGoto(i, IF del[i] = "secret" THEN "claim" ELSE "done")
          /\ UNCHANGED <<rows, claim, clock, pc, at, other, merged, mishaps, late>>
       \/ DeleteFault(i)

\* Only the claim this install holds is deleted.
DeleteGetClaim(i) ==
    /\ del[i] = "claim"
    /\ \/ /\ DeleteGoto(i, IF claim = i THEN "drop" ELSE "done")
          /\ UNCHANGED <<rows, claim, secret, clock, pc, at, other, merged, mishaps, late>>
       \/ DeleteFault(i)

\* A delete of whatever claim is there by now.
DeleteAnyClaim(i) ==
    /\ del[i] = "drop"
    /\ claim' = None
    /\ DeleteGoto(i, "done")
    /\ UNCHANGED <<rows, secret, clock, pc, at, other, merged, mishaps, late>>

\* ... and only at the version that was read: a conflict is not an error.
DeleteClaim(i) ==
    /\ del[i] = "drop"
    /\ \/ /\ claim' = IF claim = i THEN None ELSE claim
          /\ DeleteGoto(i, "done")
          /\ UNCHANGED <<rows, secret, clock, pc, at, other, merged, mishaps, late>>
       \/ DeleteFault(i)

-----------------------------------------------------------------------------
(* Time and crashes. *)

Tick ==
    /\ clock < MaxTime
    /\ clock' = clock + 1
    /\ late' = (late \/ \E i \in Installers :
                            pc[i] \in Inserting /\ clock' - at[i] > Patience)
    /\ UNCHANGED <<rows, claim, secret, pc, at, other, merged, del, mishaps>>

\* The process dies, and everything that was running with it.
Crash ==
    /\ Mishap
    /\ pc' = [i \in Installers |-> IF pc[i] \in Running THEN "crashed" ELSE pc[i]]
    /\ del' = [i \in Installers |-> IF del[i] \in Deleting THEN "done" ELSE del[i]]
    /\ UNCHANGED <<rows, claim, secret, clock, at, other, merged, late>>

InstallStep(i) ==
    \/ Begin(i) \/ Find(i) \/ Lookup(i) \/ Query(i)
    \/ PutClaim(i) \/ GetClaim(i) \/ GetHolder(i) \/ CheckLease(i) \/ TakeClaim(i)
    \/ PutRow(i) \/ ReleaseClaim(i) \/ DropClaim(i)
    \/ Verify(i) \/ BackOut(i) \/ Lost(i)
    \/ StoreSecret(i) \/ LoadSecret(i) \/ MergeSecret(i)

DeleteStep(i) ==
    \/ BeginDelete(i) \/ DeleteGet(i) \/ DeleteRow(i) \/ DeleteSecret(i)
    \/ DeleteGetClaim(i) \/ DeleteClaim(i)

Next ==
    \/ \E i \in Installers : InstallStep(i) \/ DeleteStep(i)
    \/ Tick
    \/ Crash

Spec == Init /\ [][Next]_vars

-----------------------------------------------------------------------------
(* Properties. *)

\* One name never holds two installs that were reported as such, whatever the
\* installers, the uninstalls, a crash and failing store calls did, as long as
\* no insert takes longer than Patience.  "if it no longer names us, back out so
\* one name never holds two installs" (store/types.rs:291-292)
OneInstallPerName ==
    ~late => \A i, j \in rows : pc[i] = "installed" /\ pc[j] = "installed" => i = j

Quiet ==
    /\ mishaps = 0
    /\ \A i \in Installers : pc[i] \in {"idle"} \cup Ended
    /\ \A i \in Installers : del[i] \in {"never", "done"}

\* When everything has returned and nothing failed, the claim names the row
\* that is there: no name stays locked by an install that is gone, and no row
\* stands without the claim that keeps a second one out.
ClaimMatchesRows == Quiet /\ ~late => rows = {claim} \ {None}

\* However long inserts take, and whoever takes over whose claim: an install
\* that was not reported leaves no row behind.
RowsAreReported == Quiet => \A i \in rows : pc[i] = "installed"

\* Installs that only race each other end up as one install with everybody's
\* credentials.  "Losing that race refreshes the winner's record rather than
\* leaving a duplicate." (ops/types.rs:277-278)
RaceRefreshes ==
    Quiet /\ (\A i \in Installers : del[i] = "never")
        => \A i \in Installers :
              pc[i] \notin {"idle", "failed"} => \E j \in rows : i \in secret[j]

\* What is left when all is quiet: reported rows, and the claim that names them.
InstallInv == InstallTypeOK /\ ClaimMatchesRows /\ RowsAreReported

=============================================================================
