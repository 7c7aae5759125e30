----------------------------- MODULE SetupFlow -----------------------------
(***************************************************************************)
(* The guided setup: SecretVault of registry/setup/types.rs, and the four  *)
(* setup_ operations of registry/ops/types.rs that use it.                 *)
(*                                                                         *)
(* A handle is minted once.  A value is abstract: what matters is whether  *)
(* the vault still has it, who has taken it and whether it was stored.     *)
(***************************************************************************)
EXTENDS Naturals, FiniteSets

CONSTANTS
    Handles,        \* handles that may be minted
    Flows,          \* connection tests and installs of the setup
    RequestTimeout, \* how long await_fulfillment waits
    IdleTtl,        \* how long an unused value survives
    MaxSetupTime    \* bounds the clock

ASSUME SetupAssumption ==
    RequestTimeout \in Nat /\ IdleTtl \in Nat /\ MaxSetupTime \in Nat

VARIABLES
    vault,      \* what the vault has: absent, asked or answered
    touched,    \* when each entry was last used
    waiter,     \* the task that awaits an answer: none, waiting, told or ended
    since,      \* when it began to wait
    clock,      \* Instant::now
    flow,       \* each test's or install's position, and its handles
    probes,   \* throwaway sessions that the tested server holds
    accepted,   \* history: handles whose submission was accepted
    takenBy,    \* history: which installs got each handle's value
    stored      \* handles whose value an install has stored

vaultVars == <<vault, touched>>
setupVars == <<vault, touched, waiter, since, clock, flow, probes, accepted,
               takenBy, stored>>

NoFlow == [at |-> "idle", handles |-> {}]

SetupTypeOK ==
    /\ vault \in [Handles -> {"unminted", "absent", "asked", "answered"}]
    /\ touched \in [Handles -> 0..MaxSetupTime] /\ since \in [Handles -> 0..MaxSetupTime]
    /\ waiter \in [Handles -> {"none", "waiting", "late", "told", "ended"}]
    /\ flow \in [Flows -> [at : {"idle", "dialled", "listed", "install"},
                           handles : SUBSET Handles]]
    /\ probes \subseteq Flows /\ stored \subseteq accepted
    /\ \A h \in Handles : waiter[h] = "told" => h \in accepted

SetupInit ==
    /\ vault = [h \in Handles |-> "unminted"] /\ touched = [h \in Handles |-> 0]
    /\ waiter = [h \in Handles |-> "none"] /\ since = [h \in Handles |-> 0]
    /\ clock = 0 /\ flow = [f \in Flows |-> NoFlow] /\ probes = {}
    /\ accepted = {} /\ takenBy = [h \in Handles |-> {}] /\ stored = {}

-----------------------------------------------------------------------------
\* The vault.

\* request, whose receiver is dropped (setup_request_secret) or awaited by a host.
Request(h) ==
    /\ vault[h] = "unminted"
    /\ vault' = [vault EXCEPT ![h] = "asked"]
    /\ touched' = [touched EXCEPT ![h] = clock]
    /\ since' = [since EXCEPT ![h] = clock]
    /\ waiter' \in {waiter, [waiter EXCEPT ![h] = "waiting"]}
    /\ UNCHANGED <<clock, flow, probes, accepted, takenBy, stored>>

\* submit: a handle that is unknown or has a value refuses.
Submit(h) ==
    /\ vault[h] = "asked"
    /\ vault' = [vault EXCEPT ![h] = "answered"]
    /\ touched' = [touched EXCEPT ![h] = clock]
    /\ accepted' = accepted \cup {h}
    /\ waiter' = IF waiter[h] = "waiting" THEN [waiter EXCEPT ![h] = "told"] ELSE waiter
    /\ UNCHANGED <<since, clock, flow, probes, takenBy, stored>>

\* The sender of an entry goes with it.
Cancelled(h) == waiter[h] = "waiting" /\ vault[h] = "absent"

\* await_fulfillment gives up: its deadline passes or its sender is gone.
GiveUp(h) ==
    /\ \/ waiter[h] = "waiting" /\ clock >= since[h] + RequestTimeout
       \/ Cancelled(h)
    /\ waiter' = [waiter EXCEPT ![h] = "late"]
    /\ UNCHANGED <<vaultVars, since, clock, flow, probes, accepted, takenBy, stored>>

\* It forgets its handle under a lock that it takes after that.
ForgetLate(h) ==
    /\ waiter[h] = "late"
    /\ vault' = [vault EXCEPT ![h] = "absent"]
    /\ waiter' = [waiter EXCEPT ![h] = "ended"]
    /\ UNCHANGED <<touched, since, clock, flow, probes, accepted, takenBy, stored>>

\* forget, by a host whose user walked away.
Forget(h) ==
    /\ vault[h] \in {"asked", "answered"}
    /\ vault' = [vault EXCEPT ![h] = "absent"]
    /\ UNCHANGED <<touched, waiter, since, clock, flow, probes, accepted, takenBy, stored>>

Unused(h) == clock - touched[h] >= IdleTtl

Sweep ==
    /\ vault' = [h \in Handles |-> IF vault[h] \in {"asked", "answered"} /\ Unused(h)
                                   THEN "absent" ELSE vault[h]]
    /\ UNCHANGED <<touched, waiter, since, clock, flow, probes, accepted, takenBy, stored>>

Pass ==
    /\ clock < MaxSetupTime /\ clock' = clock + 1
    /\ UNCHANGED <<vaultVars, waiter, since, flow, probes, accepted, takenBy, stored>>

\* resolve_locked: all or nothing.
Resolvable(handles) == \A h \in handles : vault[h] = "answered"
Touch(handles) == touched' = [h \in Handles |-> IF h \in handles THEN clock ELSE touched[h]]

-----------------------------------------------------------------------------
\* setup_test_connection and setup_install_and_connect.

\* resolve, and the throwaway session of a test.
BeginTest(f, handles) ==
    /\ flow[f] = NoFlow /\ Resolvable(handles)
    /\ Touch(handles)
    /\ \/ flow' = [flow EXCEPT ![f] = [at |-> "dialled", handles |-> handles]]
          /\ probes' = probes \cup {f}
       \/ UNCHANGED <<flow, probes>>     \* nothing to dial, or the dial failed
    /\ UNCHANGED <<vault, waiter, since, clock, accepted, takenBy, stored>>

\* A handle that is unknown or unanswered ends either call: what was resolved
\* before it, in no order, has been touched.
ResolveFails(handles) ==
    /\ ~Resolvable(handles)
    /\ \E resolved \in SUBSET {h \in handles : vault[h] = "answered"} : Touch(resolved)
    /\ UNCHANGED <<vault, waiter, since, clock, flow, probes, accepted, takenBy, stored>>

\* list_tools: its error returns at once.
ListTools(f) ==
    /\ flow[f].at = "dialled"
    /\ flow' \in {[flow EXCEPT ![f].at = "listed"], [flow EXCEPT ![f] = NoFlow]}
    /\ UNCHANGED <<vaultVars, waiter, since, clock, probes, accepted, takenBy, stored>>

CloseTest(f) ==
    /\ flow[f].at = "listed"
    /\ flow' = [flow EXCEPT ![f] = NoFlow]
    /\ probes' = probes \ {f}
    /\ UNCHANGED <<vaultVars, waiter, since, clock, accepted, takenBy, stored>>

\* The values are read under the lock and removed later.
KeepEntries(handles) == UNCHANGED vault

\* consume: resolved and removed under one lock.
RemoveEntries(handles) ==
    vault' = [h \in Handles |-> IF h \in handles THEN "absent" ELSE vault[h]]

Consume(f, handles) ==
    /\ flow[f] = NoFlow /\ handles # {} /\ Resolvable(handles)
    /\ Touch(handles)
    /\ RemoveEntries(handles)
    /\ flow' = [flow EXCEPT ![f] = [at |-> "install", handles |-> handles]]
    /\ takenBy' = [h \in Handles |-> IF h \in handles THEN takenBy[h] \cup {f} ELSE takenBy[h]]
    /\ UNCHANGED <<waiter, since, clock, probes, accepted, stored>>

\* install stores the values, or fails: the catalog, the transport or the store.
Install(f) ==
    /\ flow[f].at = "install"
    /\ stored' \in {stored, stored \cup flow[f].handles}
    /\ flow' = [flow EXCEPT ![f] = NoFlow]
    /\ UNCHANGED <<vaultVars, waiter, since, clock, probes, accepted, takenBy>>

SetupNext ==
    \/ \E h \in Handles :
        Request(h) \/ Submit(h) \/ GiveUp(h) \/ ForgetLate(h) \/ Forget(h)
    \/ Sweep \/ Pass
    \/ \E handles \in SUBSET Handles : ResolveFails(handles)
    \/ \E f \in Flows :
        \/ \E handles \in SUBSET Handles : BeginTest(f, handles) \/ Consume(f, handles)
        \/ ListTools(f) \/ CloseTest(f) \/ Install(f)

SetupSpec == SetupInit /\ [][SetupNext]_setupVars

-----------------------------------------------------------------------------

\* One credential goes into one install and has one home: two installs of the same
\* setup that overlap, or a sweep or a late forget in between, never get the same
\* value twice, and what an install has stored is not in the vault as well.
\* (registry/setup/types.rs:235-262, registry/ops/types.rs:930-951)
ConsumedOnce ==
    /\ \A h \in Handles : Cardinality(takenBy[h]) <= 1
    /\ \A h \in stored : vault[h] = "absent"

\* "The handles are consumed here: the values are now in the credential store".
\* (registry/ops/types.rs:932-951)
ConsumedIsStored ==
    \A h \in Handles :
        takenBy[h] # {} => h \in stored \/ \E f \in Flows : h \in flow[f].handles

\* "a test must not leave a session behind that nothing owns".
\* (registry/ops/types.rs:894-902)
TestLeavesNothing == \A f \in probes : flow[f].at \in {"dialled", "listed"}

\* "the value is stored, and a retry will find it": also when the request has timed
\* out.
\* (registry/setup/types.rs:170-176)
AcceptedIsFound ==
    [][\A h \in Handles : ForgetLate(h) => vault[h] # "answered"]_setupVars

\* What holds of the vault while requests, tests, installs and sweeps overlap.
SetupInv == SetupTypeOK /\ ConsumedOnce

=============================================================================
