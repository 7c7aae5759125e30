---------------------------- MODULE McpRegistry ----------------------------
(***************************************************************************)
(* The registry's operations on installed servers: McpRegistry             *)
(* (registry/ops/types.rs) over Connections (registry/connections) and the *)
(* Store (registry/store).                                                 *)
(*                                                                         *)
(* Every operation is an async function that many callers run at once.  No *)
(* lock spans an operation: the maps `live` and `failures` are locked one  *)
(* access at a time, and every store access is a separate call.  Each step *)
(* below is therefore one lock section or one store call, and the steps of *)
(* different tasks interleave freely.                                      *)
(*                                                                         *)
(* The stored credentials of a server are one secret, a map from field     *)
(* name to value.  Each task that writes credentials retypes the value of  *)
(* one field, its own, whose name the install already records: the row's   *)
(* list of names, and the definition fingerprint made from it, do not      *)
(* change.  The secret is abstracted to the set of tasks whose new value   *)
(* it carries.  A session and a cached tool listing remember the secret    *)
(* they were obtained with.                                                *)
(*                                                                         *)
(* A store call may take effect and report an error all the same (RowUpdate *)
(* shows how), and a caller may drop an operation's future at any await.   *)
(* Either ends the operation where it is, with nobody to do the rest.      *)
(***************************************************************************)
EXTENDS Naturals, FiniteSets

CONSTANTS
    Servers,      \* install identifiers
    Tasks,        \* the async tasks that run operations
    Callers,      \* the tasks that a user's requests run on
    CallerOps,    \* the operations a caller may ask for
    Worlds,       \* the ways a server's endpoint may answer
    StoreFaults,  \* whether a store call may fail
    None          \* no session, no cached listing

AllOps == {"connect", "disconnect", "enable", "disable", "uninstall",
           "update_env", "sign_in", "reinstall"}

AllWorlds == {"ok", "slow", "broken", "unauthorized", "missing_runtime"}

ASSUME RegistryAssumption ==
    /\ Callers \subseteq Tasks
    /\ CallerOps \subseteq AllOps
    /\ Worlds \subseteq AllWorlds
    /\ StoreFaults \in BOOLEAN

VARIABLES
    row,       \* the server document: absent, enabled or disabled
    secret,    \* the stored credentials
    cache,     \* the tool-cache document
    live,      \* Connections::live
    failures,  \* the servers Connections::failures holds an error of
    lapsed,    \* history: disabled servers whose session an operation that was
               \* cut short had still to end
    pc, op, srv,  \* each task's next step, its operation and its server
    seen,      \* the credentials the task read last
    err        \* the error of the task's running connect

storeVars == <<row, secret, cache>>
connVars  == <<live, failures, lapsed>>
taskVars  == <<pc, op, srv, seen, err>>
vars      == <<row, secret, cache, live, failures, lapsed,
               pc, op, srv, seen, err>>

Rows     == {"absent", "on", "off"}
DialErrs == {"broken", "unauthorized", "missing_runtime"}
Errors   == {"none", "disabled", "unknown", "store"} \cup DialErrs
Steps    == {"idle", "admit", "dial", "shake", "cache", "recheck", "unmap",
             "clear", "record", "check", "write", "clear_error", "uncache",
             "find", "load", "store", "reread", "delete", "delete_cache",
             "delete_secret", "gate", "verdict", "visit", "probe"}

(* The shapes of the state. *)
TypeOK ==
    /\ row \in [Servers -> Rows]
    /\ secret \in [Servers -> SUBSET Tasks]
    /\ cache \in [Servers -> {None} \cup SUBSET Tasks]
    /\ live \in [Servers -> {None} \cup SUBSET Tasks]
    /\ failures \subseteq Servers
    /\ lapsed \subseteq Servers
    /\ pc \in [Tasks -> Steps]
    /\ op \in [Tasks -> AllOps \cup {"tick"}]
    /\ srv \in [Tasks -> Servers]
    /\ seen \in [Tasks -> SUBSET Tasks]
    /\ err \in [Tasks -> Errors]

(* The store holds installs of either setting and nothing is connected yet. *)
Init ==
    /\ row \in [Servers -> {"on", "off"}]
    /\ secret = [s \in Servers |-> {}]
    /\ cache = [s \in Servers |-> None]
    /\ live = [s \in Servers |-> None]
    /\ failures = {}
    /\ lapsed = {}
    /\ pc = [t \in Tasks |-> "idle"]
    /\ op = [t \in Tasks |-> "connect"]
    /\ srv \in [Tasks -> Servers]
    /\ seen = [t \in Tasks |-> {}]
    /\ err = [t \in Tasks |-> "none"]

-----------------------------------------------------------------------------
(* Control flow of a task. *)

Goto(t, step) == pc' = [pc EXCEPT ![t] = step]

\* The operation returns: the task's locals are gone.
Return(t) ==
    /\ Goto(t, "idle")
    /\ op' = [op EXCEPT ![t] = "connect"]
    /\ seen' = [seen EXCEPT ![t] = {}]
    /\ err' = [err EXCEPT ![t] = "none"]
    /\ UNCHANGED srv

\* Control passes on inside the operation, its locals kept.
Continue(t, step) == Goto(t, step) /\ UNCHANGED <<op, srv, seen, err>>

\* Control passes on and the credentials the task holds are not used again.
Forget(t, step) ==
    /\ Goto(t, step)
    /\ seen' = [seen EXCEPT ![t] = {}]
    /\ UNCHANGED <<op, srv, err>>

\* Where an operation starts.
Entry(o) ==
    CASE o = "connect"                                -> "admit"
      [] o \in {"disconnect", "uninstall"}            -> "unmap"
      [] o \in {"enable", "disable"}                  -> "check"
      [] o \in {"update_env", "sign_in"}             -> "load"
      [] o = "reinstall"                              -> "find"

\* A request arrives.  Requests for one server may overlap.
Begin(t, o, s) ==
    /\ pc[t] = "idle"
    /\ Goto(t, Entry(o))
    /\ op' = [op EXCEPT ![t] = o]
    /\ srv' = [srv EXCEPT ![t] = s]
    /\ UNCHANGED <<storeVars, connVars, seen, err>>

-----------------------------------------------------------------------------
(* Connections::connect. *)

\* The read that admits a connect: `get_server` in McpRegistry::connect, and
\* the listing in connect_installed_servers.  A disabled or unknown server is
\* refused.
Admit(t) ==
    /\ pc[t] = "admit"
    /\ \/ row[srv[t]] = "on" /\ Continue(t, "dial")
       \/ (row[srv[t]] # "on" \/ StoreFaults) /\ Return(t)
    /\ UNCHANGED <<storeVars, connVars>>

\* dial_stdio and dial_remote read the credentials, then await the handshake.
\* Credentials that cannot be read are taken for none; a provenance that cannot
\* be read fails the attempt.
Dial(t) ==
    /\ pc[t] = "dial"
    /\ \/ /\ seen' = [seen EXCEPT ![t] = secret[srv[t]]]
          /\ Goto(t, "shake")
          /\ UNCHANGED err
       \/ /\ StoreFaults
          /\ Goto(t, "shake")
          /\ UNCHANGED <<seen, err>>
       \/ /\ StoreFaults
          /\ err' = [err EXCEPT ![t] = "store"]
          /\ Goto(t, "record")
          /\ UNCHANGED seen
    /\ UNCHANGED <<storeVars, connVars, op, srv>>

\* The handshake and the listing finish.  Success puts the session in the map,
\* over whatever entry is there.
Shake(t, answer) ==
    /\ pc[t] = "shake"
    /\ \/ /\ answer \notin DialErrs
          /\ live' = [live EXCEPT ![srv[t]] = seen[t]]
          /\ lapsed' = lapsed \ {srv[t]}
          /\ Continue(t, "cache")
       \/ /\ answer \in DialErrs
          /\ err' = [err EXCEPT ![t] = answer]
          /\ Goto(t, "record")
          /\ UNCHANGED <<live, lapsed, op, srv, seen>>
    /\ UNCHANGED <<storeVars, failures>>

\* touch_last_connected and put_cached_tools.  Both are best effort.
PutCache(t) ==
    /\ pc[t] = "cache"
    /\ \/ cache' = [cache EXCEPT ![srv[t]] = seen[t]]
       \/ StoreFaults /\ UNCHANGED cache
    /\ Forget(t, "recheck")
    /\ UNCHANGED <<row, secret, connVars>>

\* A recheck that only asks whether the install is still there.
RecheckErrorNoSetting(s) == IF row[s] = "absent" THEN "unknown" ELSE "none"

\* A recheck that reports what it read in place of an error.
RecheckErrorRaw(s) == IF row[s] = "on" THEN "none" ELSE row[s]

\* What the read after the connect reports.
RecheckError(s) ==
    CASE row[s] = "on"     -> "none"
      [] row[s] = "off"    -> "disabled"
      [] row[s] = "absent" -> "unknown"

\* The server is read again.  It may have been turned off or removed while the
\* connect was in flight, and then the session that was just made has to go.
Recheck(t) ==
    /\ pc[t] = "recheck"
    /\ \E e \in {RecheckError(srv[t])} \cup (IF StoreFaults THEN {"store"} ELSE {}) :
          /\ err' = [err EXCEPT ![t] = e]
          /\ Goto(t, IF e = "none" THEN "record" ELSE "unmap")
    /\ UNCHANGED <<storeVars, connVars, op, srv, seen>>

\* The attempt's outcome goes to the failure map, and the connect returns to
\* the operation that called it.
Record(t) ==
    /\ pc[t] = "record"
    /\ failures' = IF err[t] = "none" THEN failures \ {srv[t]}
                                      ELSE failures \cup {srv[t]}
    /\ IF op[t] = "tick" THEN Continue(t, "verdict") ELSE Return(t)
    /\ UNCHANGED <<storeVars, live, lapsed>>

-----------------------------------------------------------------------------
(* Connections::disconnect: two lock sections, then the session is closed. *)

Unmap(t) ==
    /\ pc[t] = "unmap"
    /\ live' = [live EXCEPT ![srv[t]] = None]
    /\ lapsed' = lapsed \ {srv[t]}
    /\ Continue(t, "clear")
    /\ UNCHANGED <<storeVars, failures>>

\* Where disconnect returns to: into a connect that is backing out, or into
\* the operation that asked for it.
AfterDisconnect(t) ==
    IF err[t] # "none" THEN "record"
    ELSE CASE op[t] = "uninstall"   -> "delete"
           [] op[t] = "disable"     -> "clear_error"
           [] op[t] = "update_env"  -> "reread"
           [] op[t] = "tick"        -> "gate"
           [] OTHER                 -> "idle"

Clear(t) ==
    /\ pc[t] = "clear"
    /\ failures' = failures \ {srv[t]}
    /\ IF AfterDisconnect(t) = "idle" THEN Return(t)
                                      ELSE Continue(t, AfterDisconnect(t))
    /\ UNCHANGED <<storeVars, live, lapsed>>

-----------------------------------------------------------------------------
(* McpRegistry::set_enabled. *)

Check(t) ==
    /\ pc[t] = "check"
    /\ \/ row[srv[t]] # "absent" /\ Continue(t, "write")
       \/ (row[srv[t]] = "absent" \/ StoreFaults) /\ Return(t)
    /\ UNCHANGED <<storeVars, connVars>>

\* An update that writes the row whether or not it is still there.
UpsertRow(s, setting) == row' = [row EXCEPT ![s] = setting]

\* update_server: a compare-and-swap loop that leaves a missing row alone.
UpdateRow(s, setting) ==
    row' = [row EXCEPT ![s] = IF @ = "absent" THEN @ ELSE setting]

Setting(t) == IF op[t] = "enable" THEN "on" ELSE "off"

\* A set_enabled that leaves the disconnect to somebody else.
WriteOnly(t) ==
    /\ pc[t] = "write"
    /\ UpdateRow(srv[t], Setting(t))
    /\ Return(t)
    /\ lapsed' = {s \in lapsed : row'[s] = "off"}
    /\ UNCHANGED <<secret, cache, live, failures>>

\* update_enabled.  Only a disable that is told of its success goes on to
\* disconnect; one that failed leaves the session to nobody if it turned the
\* server off nevertheless.
Write(t) ==
    /\ pc[t] = "write"
    /\ \/ /\ UpdateRow(srv[t], Setting(t))
          /\ IF op[t] = "enable" THEN Return(t) ELSE Continue(t, "unmap")
          /\ lapsed' = {s \in lapsed : row'[s] = "off"}
       \/ /\ StoreFaults
          /\ UpdateRow(srv[t], Setting(t)) \/ UNCHANGED row
          /\ Return(t)
          /\ lapsed' = {s \in lapsed : row'[s] = "off"} \cup
                 {s \in {srv[t]} : row[s] = "on" /\ row'[s] = "off" /\ live[s] # None}
    /\ UNCHANGED <<secret, cache, live, failures>>

\* clear_last_error, between the disconnect and the cache.
ClearError(t) ==
    /\ pc[t] = "clear_error"
    /\ failures' = failures \ {srv[t]}
    /\ Continue(t, "uncache")
    /\ UNCHANGED <<storeVars, live, lapsed>>

-----------------------------------------------------------------------------
(* The operations that write credentials: McpRegistry::update_env,         *)
(* McpRegistry::oauth_complete (through credentials::persist) and          *)
(* McpRegistry::refresh_install.  Each merges its field over what is       *)
(* stored, in a read and a later write.                                    *)

\* McpRegistry::install of a name that is installed.  A name that is not gets
\* a fresh identifier, which is InstallClaim's subject.
Find(t) ==
    /\ pc[t] = "find"
    /\ \/ row[srv[t]] # "absent" /\ Continue(t, "load")
       \/ (row[srv[t]] = "absent" \/ StoreFaults) /\ Return(t)
    /\ UNCHANGED <<storeVars, connVars>>

Load(t) ==
    /\ pc[t] = "load"
    /\ \/ /\ seen' = [seen EXCEPT ![t] = secret[srv[t]]]
          /\ Goto(t, "store")
          /\ UNCHANGED <<op, srv, err>>
       \/ StoreFaults /\ Return(t)
    /\ UNCHANGED <<storeVars, connVars>>

\* set_env_values.  refresh_install is done when the value was stored already.
StoreSecret(t) ==
    /\ pc[t] = "store"
    /\ \/ /\ secret' = [secret EXCEPT ![srv[t]] = seen[t] \cup {t}]
          /\ IF op[t] = "reinstall" /\ t \in seen[t] THEN Return(t)
                                                     ELSE Forget(t, "uncache")
       \/ /\ StoreFaults
          /\ secret' = [secret EXCEPT ![srv[t]] = seen[t] \cup {t}] \/ UNCHANGED secret
          /\ Return(t)
    /\ UNCHANGED <<row, cache, connVars>>

\* Where an operation goes once it has forgotten the cached listing.
AfterUncache(t) ==
    CASE op[t] = "update_env" -> "unmap"
      [] op[t] = "sign_in"    -> "admit"
      [] OTHER                -> "idle"

ForgetListing(t) == cache' = [cache EXCEPT ![srv[t]] = None]

\* forget_cached_tools.
Uncache(t) ==
    /\ pc[t] = "uncache"
    /\ \/ /\ ForgetListing(t)
          /\ IF AfterUncache(t) = "idle" THEN Return(t)
                                         ELSE Continue(t, AfterUncache(t))
       \/ /\ StoreFaults
          /\ ForgetListing(t) \/ UNCHANGED cache
          /\ Return(t)
    /\ UNCHANGED <<row, secret, connVars>>

\* update_env reads the server after it has disconnected it, and reconnects it
\* unless it is turned off.  An unknown server is only noticed here.
Reread(t) ==
    /\ pc[t] = "reread"
    /\ \/ row[srv[t]] = "on" /\ Continue(t, "dial")
       \/ (row[srv[t]] # "on" \/ StoreFaults) /\ Return(t)
    /\ UNCHANGED <<storeVars, connVars>>

-----------------------------------------------------------------------------
(* Store::delete_server, after uninstall has disconnected: the row, the     *)
(* cached listing and the secret go one call at a time.                     *)

RemoveRow(t) == row' = [row EXCEPT ![srv[t]] = "absent"]

DeleteRow(t) ==
    /\ pc[t] = "delete"
    /\ \/ RemoveRow(t) /\ Continue(t, "delete_cache")
       \/ /\ StoreFaults
          /\ RemoveRow(t) \/ UNCHANGED row
          /\ Return(t)
    /\ lapsed' = {s \in lapsed : row'[s] = "off"}
    /\ UNCHANGED <<secret, cache, live, failures>>

DeleteCache(t) ==
    /\ pc[t] = "delete_cache"
    /\ \/ ForgetListing(t) /\ Continue(t, "delete_secret")
       \/ /\ StoreFaults
          /\ ForgetListing(t) \/ UNCHANGED cache
          /\ Return(t)
    /\ UNCHANGED <<row, secret, connVars>>

DeleteSecret(t) ==
    /\ pc[t] = "delete_secret"
    /\ \/ secret' = [secret EXCEPT ![srv[t]] = {}]
       \/ StoreFaults /\ UNCHANGED secret
    /\ Return(t)
    /\ UNCHANGED <<row, cache, connVars>>

-----------------------------------------------------------------------------
(* The caller drops the future while it waits: for an answer of the server, *)
(* for one of the maps' locks, or for a session to close.                   *)

Awaits == {"shake", "unmap", "clear", "record", "clear_error", "reread", "delete"}

\* What was under way ends with it.  A disconnect that had not begun stays
\* undone.
Abandon(t) ==
    /\ pc[t] \in Awaits
    /\ Return(t)
    /\ lapsed' = lapsed \cup
           {s \in {srv[t]} : pc[t] = "unmap" /\ row[s] = "off" /\ live[s] # None}
    /\ UNCHANGED <<storeVars, live, failures>>

-----------------------------------------------------------------------------

ConnectStep(t) ==
    Admit(t) \/ Dial(t) \/ PutCache(t) \/ Recheck(t) \/ Record(t)

DisconnectStep(t) == Unmap(t) \/ Clear(t)

SetEnabledStep(t) == Check(t) \/ Write(t) \/ ClearError(t)

CredentialStep(t) ==
    Find(t) \/ Load(t) \/ StoreSecret(t) \/ Uncache(t) \/ Reread(t)

DeleteStep(t) == DeleteRow(t) \/ DeleteCache(t) \/ DeleteSecret(t)

\* Every step of an operation but the handshake, whose outcome is the server's.
TaskStep(t) ==
    \/ ConnectStep(t)
    \/ DisconnectStep(t)
    \/ SetEnabledStep(t)
    \/ CredentialStep(t)
    \/ DeleteStep(t)

Next ==
    \/ \E t \in Callers, o \in CallerOps, s \in Servers : Begin(t, o, s)
    \/ \E t \in Tasks : TaskStep(t)
    \/ \E t \in Tasks, answer \in Worlds : Shake(t, answer)
    \/ \E t \in Callers : Abandon(t)

Spec == Init /\ [][Next]_vars

\* A task that has work left is scheduled, and every dial ends (the transports
\* bound it); nobody has to send a request.
FairSpec ==
    /\ Spec
    /\ \A t \in Tasks : WF_vars(TaskStep(t) \/ \E answer \in Worlds : Shake(t, answer))

-----------------------------------------------------------------------------
(* Properties. *)

Working(s) == {t \in Tasks : pc[t] # "idle" /\ srv[t] = s}

\* Once every operation on a disabled server has returned, it has no session:
\* whatever order set_enabled and overlapping connects ran in, either
\* set_enabled's disconnect or the recheck at the end of connect took the
\* session down.  The one exception is a set_enabled that reported an error
\* after it had turned the server off, or an operation that its caller dropped
\* at the disconnect, with no disconnect since.
\* (connections/types.rs:190-203, ops/types.rs:423-430)
DisabledHasNoSession ==
    \A s \in Servers :
        row[s] = "off" /\ Working(s) = {} /\ live[s] # None => s \in lapsed

\* What keeps it true at every step: a session of a disabled server has a task
\* that is still bound to look at it, at the connect's cache write or recheck
\* or at the door of a disconnect, unless the one that was bound to was cut
\* short.
Condemned(s) ==
    \E t \in Tasks : srv[t] = s /\ pc[t] \in {"cache", "recheck", "unmap"}

DisabledIsCondemned ==
    \A s \in Servers :
        row[s] = "off" /\ live[s] # None => Condemned(s) \/ s \in lapsed

\* An uninstalled identifier never comes back, whatever updates of the row were
\* in flight when it went: update_server leaves a missing row alone.
\* (store/types.rs:512-534)
UninstallIsFinal ==
    [][\A s \in Servers : row[s] = "absent" => row'[s] = "absent"]_vars

\* Turning a server off makes its session go away, unless it is turned on or
\* uninstalled first, or every operation bound to end the session is cut short.
DisableTakesEffect ==
    \A s \in Servers :
        (row[s] = "off" /\ s \notin lapsed)
            ~> (live[s] = None \/ row[s] # "off" \/ s \in lapsed)

\* Once every operation on an uninstalled server has returned, it has no
\* session.  "Removes an install, disconnecting it first."
\* (ops/types.rs:390)
UninstalledHasNoSession ==
    \A s \in Servers : row[s] = "absent" /\ Working(s) = {} => live[s] = None

\* Once every operation on a server has returned, its cached listing was made
\* with the credentials that are stored.  "The input includes credential values
\* so rotation invalidates cached tools" (store/tool_cache.rs:20)
CacheFollowsCredentials ==
    \A s \in Servers : Working(s) = {} => cache[s] \in {None, secret[s]}

=============================================================================
