# tinymcp in TLA+

Specifications of [tinymcp](../src/README.md), a Model Context Protocol client
and registry in Rust (`crates/tinymcp`, `crates/tinymcp-bus`): what its
concurrent parts do, what they promise, TLC runs that check the promises on
small instances, and TLAPS proofs of the most important ones for every
instance. Paths below are relative to `src/crates/tinymcp/src/`.

## 1. Inventory

| Component | State | Operations | What is hard |
|---|---|---|---|
| **Registry operations** `registry/ops` | none of its own | `install`, `uninstall`, `set_enabled`, `update_env`, `connect`, `disconnect`, `oauth_begin`/`_complete`, `setup_*` | every operation is an async function over two lower layers with no lock across it; any two overlap |
| **Connections** `registry/connections` | `live` (sessions), `failures`, each behind its own `RwLock` | `connect`, `disconnect`, `probe_alive`, `call_tool` | a connect awaits a handshake while its server is turned off, removed, or given new credentials |
| **Install store** `registry/store` | documents `mcp.servers`, `mcp.server_names`, `mcp.tool_cache`; one secret per server | row reads, compare-and-swap updates, `insert_server_if_absent`, `delete_server`, cache reads and writes | an operation is several documents, written one at a time; crashes in between; a lease by wall clock |
| **Supervisor** `registry/supervisor` | `backoff`, `timeouts`, `terminal` per server | `tick`, `judge_probe`, `attempt_connect` | runs beside callers that end and replace the sessions it judges; must reconnect what drops |
| **Served sessions** `server/bridge` | `Registry` (active sessions, reserved identifiers, high-water mark), one `Operation` with a task, channel and replay state per session | `open`, `submit`, `poll`, `complete`, `cancel`, `close`, `metadata`, `http_session`, `shutdown` | the host repeats, reorders and drops calls; tasks outlive calls; awaits with a lock held |
| **Server protocol** `server/{protocol,session,http,stdio,args}` | what `initialize` left in the session; the HTTP sessions | one line answered under a byte budget; sessions made and deleted | a batch refused half way; clients that repeat what they were told |
| **HTTP transport** `transport/http` | session id, cached initialize result; the kept authorization metadata | `initialize`, `send_jsonrpc` (with one re-initialization after a 404), `close_session`, `well_known_authorization`, `read_sse_payload` | requests that find the session expired side by side; a lookup cut short; chunks that end anywhere |
| **Stdio transport** `transport/stdio` | one child behind one fair lock, a close generation; jailed resources; the process's spawn `PATH` | `request`, `close_session`, launches | a request that holds the lock while a close wants it; callers dropped between a write and its answer; four-call launches |
| **OAuth** `registry/oauth` | parked authorizations, a token bundle in the secret | begin, complete, refresh | a refresh that a newer sign-in supersedes; one-use states with deadlines |
| **Setup secrets** `registry/setup` | a vault of one-time secrets | request, submit, consume, forget, sweep | a submit that races its timeout; two installs of one setup |
| **Config document** `registry/config_doc` | none | apply: a sequence of installs, rewrites and removals | one step of several failing; the store's other users |
| **Static servers** `config_servers` | definitions in order; cached listings that outlive them | register, seed, list tools | a listing made with an older set is cached late |
| **Sources, curation** `registry/{sources,curation}`, `registry/store/index.rs` | a copy of the catalog, a response cache, cursors, cooldowns | sync, search, browse, detail | a sync stopped anywhere and resumed; searches that overlap; several versions per server |
| **Storage** `storage` | documents with versions, streams, migration ledgers | conditional puts, the retry loop, migrations | lost swaps; several openers; crashes between a put and a delete |
| **Audit** `audit` | append-only stream | record, list | a page read in windows while writes go on |
| **Bus module** `tinybus_module` | served directories, pending transitions, an object tree, a bounded event queue | `OpenConfigured`, `Open`, `Close`, `TransitionStatus`; drain events | a replacement under running calls; stages that fail; the queue at its limit |
| **Client lifecycle** `crates/tinymcp-bus/src/client_lifecycle` | machine and table with cleanup reservations | open, adopt, close, clean up | lost replies; cleanups that end after their place was given away |
| **Wire contract, text processing** `processing`, `error`, `agent_tools`, `tools`, `crates/tinymcp-bus/src` | none | pure functions | - |

How they interact. A host calls the registry operations directly, or through
the bus module, which serves several data directories and is driven by a host's
client lifecycle. The operations call Connections and the Store; Connections
dials through the transports with credentials it reads from the Store
(refreshing them through OAuth); the Supervisor lists the Store and calls
Connections exactly as a caller does, and its events reach the host through the
module's queue. The Store is documents and streams behind the storage ports,
migrated when they are opened; the catalog's copy and caches are documents of it
too. The served sessions are the other direction: the host is the MCP server
there, and the bridge runs the protocol for it and calls back for policy and
tool execution.

What makes the parts correct:

* a server that is turned off has no session once the dust has settled, unless the
  operation bound to end it was cut short; an uninstalled identifier stays uninstalled; an update of a row is one step;
* an enabled, reachable server that is not parked is always reconnected, a drop
  is noticed, a parked server carries no penalty;
* one name has one install and its claim names it, through races, takeovers,
  crashes and uninstalls;
* a session identifier has one life, an operation is started once, its end
  replays the same, every operation that nobody blocks ends, and no task
  outlives the session it belongs to;
* the directories of a module change one at a time and in one step, and every
  transition ends; the host's machine agrees with the module;
* a code is exchanged once, a session opens with a fresh token, a newer sign-in
  is not overwritten; what a client keeps about an origin is that origin's;
* a secret has one home; what TinyBox holds has an owner; an answer goes to the
  request that asked for it;
* a document that was applied is what the store says, and saying it again
  changes nothing;
* a migration loses nothing and serves all of it; a copy of a catalog that is
  called finished is whole as far as the clock can be trusted; a page of the audit log is of one moment; each event
  is delivered or counted.

The hazards behind these, each at its line, are listed in `PROJECT.json`.

## 2. Modules

| Module | Models | EXTENDS |
|---|---|---|
| `McpRegistry` | operations, Connections, Store rows/secret/cache of installed servers | - |
| `Supervisor` | the supervisor as one more task of `McpRegistry`, endpoints that change | `McpRegistry` |
| `InstallClaim` | `install`, `insert_server_if_absent`, `acquire_claim`, `delete_server` for one name | - |
| `AtomicRow` | abstract: an update of a row is one step | - |
| `RowUpdate` | the compare-and-swap loop behind it; implements `AtomicRow` | - |
| `SessionLife` | abstract: an identifier is unborn, open or spent | - |
| `Admission` | which session identifiers the bridge admits; implements `SessionLife` | - |
| `ServerSessions` | sessions, operations, workers, callbacks of the bridge | `Admission` |
| `ServerProtocol` | one bounded line, the session's memory, the HTTP sessions | - |
| `HttpSession` | the session of an HTTP client and the requests that share it | - |
| `AuthDiscovery` | the metadata lookup after a 401, and what is kept of it | - |
| `SseReader` | a reply read out of an event stream | - |
| `StdioSession` | requests and closes around one child | - |
| `StdioJail` | launches in TinyBox and their cleanups | - |
| `SpawnPath` | the `PATH` that launches share | - |
| `OAuthFlow` | sign-ins, refreshes and edits of one server's credentials | - |
| `SetupFlow` | the vault of secrets and the guided setup | - |
| `StaticServers` | the configured servers and their cached listings | - |
| `ConfigDocument` | a document applied to the install store | - |
| `CatalogIndex` | the local copy of the catalog and its sync | - |
| `CatalogSearch` | pages, cursors, cooldowns, stale answers | - |
| `CatalogListing` | versions to rows, connections, forms (pure) | - |
| `StoreMigration` | one document step and the audit import, several openers | - |
| `AuditLog` | paged lists of a growing stream | - |
| `DirectoryStore` | abstract: directories change one at a time, in one step | - |
| `Directories` | transitions, services, gates; implements `DirectoryStore` | - |
| `SupervisorEvents` | the queue of events | - |
| `ClientLifecycle` | the host's machines driven against the module | `Directories` |
| `ClientTable` | one directory's client and cleanup reservation | - |
| `SupervisorProofs` | theorems about `McpRegistry` and `Supervisor` | these, `TLAPS` |
| `DirectoriesProofs`, `HttpSessionProofs` | theorems | the module named, `TLAPS` |
| `InstallClaimProofs` | theorems about `InstallClaim` and `ConfigDocument` | these, `TLAPS` |
| `ServerSessionsProofs` | theorems about `Admission`, `ServerSessions`, `ServerProtocol` | these, `TLAPS` |
| `ComponentProofs` | theorems about `RowUpdate`, `StdioJail`, `SetupFlow`, `SupervisorEvents`, `CatalogSearch`, `CatalogIndex`, `ClientTable`, `StdioSession` | these, `TLAPS` |
| `RecordsProofs` | theorems about `StaticServers`, `StoreMigration`, `AuditLog`, `CatalogListing`, `SseReader`, `SpawnPath` | these, `TLAPS` |
| `HostSideProofs` | theorems about `AuthDiscovery`, `OAuthFlow`, `ClientLifecycle` | these, `DirectoriesProofs` |
| `MC*` | the instances TLC checks; `MCHostSide`, `MCParts` and `MCRecords` each put several components that share no state side by side, explored one at a time | |

### McpRegistry

State: `row` (the server document as absent, on or off), `secret`, `cache`,
`live`, `failures`; per task `pc`, `op`, `srv`, `seen` (the credentials it read
last) and `err`. A step is one lock section or one store call, because that is
where the Rust code can be interleaved: `connect` is `Admit`, `Dial` (reads
the credentials), `Shake` (the awaited handshake, and the insert into `live`),
`PutCache`, `Recheck` (the `get_server` after the handshake), and `Record`; a
recheck that fails runs `disconnect` (`Unmap`, `Clear`) as the code does.
`set_enabled`, `update_env`, `oauth_complete`, `refresh_install` and `uninstall`
are chains of such steps that share `connect`'s and `disconnect`'s, as the code
shares the functions; `AfterDisconnect` and `AfterUncache` are the return
addresses. With `StoreFaults`, each store call may fail, before or after it took
effect, and takes the code's error branch, best-effort calls included. `Abandon`
is a caller that drops its operation at an await: the handshake, a lock of the
maps, the close of a session. `lapsed` is history: the disabled servers whose
session was left when a disable was answered with an error after it had turned
the server off, or when whoever stood at the door of a disconnect was dropped
there. A server leaves it with the next disconnect, session or setting.

Credentials are abstracted to the set of tasks whose value the secret carries:
enough to tell which secret a session, a cached listing or a merge was made
from. A writer retypes the value of a field whose name is recorded, the
case in which the fingerprint of the definition does not change.

### Supervisor

`Sup` is a task of `McpRegistry`. `TickStart` lists the installs once,
`Visit*` takes them in any order, and `ProbeAlive`, `ProbeTimedOut`,
`ProbeBroken` are `judge_probe`; then `GateShut`/`GateOpen` are the parked and
penalty checks, the shared connect steps run (from the listing's record, without
`Admit`, as in the code), and `Verdict` records the outcome. `world` is how
each endpoint behaves; `dropped` marks sessions whose transport died silently;
`probeLost` marks that the session under probe was ended or replaced meanwhile,
in which case the probe may answer either way. `GiveUp` is a caller's `Abandon`;
the supervisor's own future ends only with its host. `ChangeWorld`
and `DropTransport` happen at any time. Time is the time left of each penalty,
which a tick reduces.

### InstallClaim

One qualified name, several installers, each with the identifier it drew. Every
call on the document store and the secret store is a step: find, the catalog
lookup, the query, the conditional put of the claim, the reads of the claim
and of its holder's row, the lease check (by the clock *then*), the conditional
takeover, the row, the second read of the claim, the back-out, the release after
a failed put; then the credentials. `delete_server` runs beside them. `Crash`
ends all that is running, `Fault` takes a call's error branch, `Tick` moves the
clock. `late` is history: some insert took longer than `Patience` since it
stamped its claim.

### AtomicRow, RowUpdate

`McpRegistry` has `update_server` as one step. `RowUpdate` is what it is made
of (`Repo::update` in `storage/local/primitives/repo.rs`): a read, the closure, a
put on condition of the version that was read, a bounded retry after a lost
swap, with store calls that fail before or after they took effect and an
uninstall at any time. `AtomicRow` is the promise, and `UpdatesAreAtomic` the
refinement: the value is the row's, the outcome what the caller is told.

### SessionLife, Admission, ServerSessions

`Admission` is `Registry`: active sessions, the reserved identifiers and the
mark; `Open`, `Retire`, `Fence` (`reserve_close`), `RetireAll`. `SessionLife` has
no window and no memory: an identifier is unborn, open or spent. `ServerSessions`
adds to some sessions (`Busy`) their operation, its worker task, the client lock,
a metadata reader, and `inside`, the call that awaits with the registry lock
held (`poll` for the metadata of the client, `cancel`/`close`/`shutdown` for the
task they aborted). `Abandon` drops such a call. A worker's callback goes
through the one-place channel to `waiting`, where polls show it until `Complete`.

### ServerProtocol

`handle_line_bounded` takes the messages of a line one by one, keeps the length
of the answers so far, and gives up as soon as they cannot fit; what an
`initialize` set stays set. `WholeLength` is the length of the answer without a
budget, the reference. Beside it, the session table of `server/http`: clients
post with the session id and the version they were told, sessions are minted,
found and deleted.

### HttpSession

State: `sid`, `inited` and `listed` are what the client caches behind its lock;
each request has its `pc`, what it is after (`goal`), whether it may still
re-initialize (`attempt`), and the session id it went out with (`sent`);
`server` is what the other side knows of each session. A step is one lock
section or one awaited exchange: `initialize` is `CheckInit`, `HelloSession` or
`HelloOther`, `Notify`, then `Announced` or `NotAnnounced`; `send_jsonrpc` is
`Send`, then `Answered`, `Failed`, or `NotFound` and `Reinitialize`;
`close_session` is `CheckClose`, `Deleted` or `NotDeleted`, `ForgetClosed`. A
call of a tool that is not in the cache lists first (`Lookup`). `Drop` is a caller
that drops its request at an await, as `probe_alive` does when its timeout
fires; `Expire` is a server that forgets. `refused`, the session the first
attempt got its 404 on, and the value `"dropped"`, an open session
whose announcement a caller dropped, are history.

### AuthDiscovery

A 401 is `NoChallenge` or `Challenged`; a bearer challenge without metadata
looks in the four places (`ReadOrigin`, `ReadCandidate`), any of which may be
out of reach (`Unreached`), until one gives an answer, all have been seen, or
the budget ends (`OutOfTime`); `Settle` keeps the outcome. `page` reveals what the
origin publishes one place at a time, so that it is the same to each of two
overlapping lookups and every origin is covered. `Fits` is the issuer check,
`Verdict` what the caller reports.

### SseReader

A body is any sequence of up to four lines of eight kinds; it arrives in halves
of lines, cut anywhere (`Chunk`), may end early (`StreamEnds`) or fail
(`ReadFails`). After each chunk what is `Complete` is parsed from its beginning by
the parser's own fold (`OnLine`, `FlushInto`), as the code does. The property
speaks of `Frames`, the events as the specification of event streams defines
them, and not of the fold.

### StdioSession, StdioJail, SpawnPath

`StdioSession`: `queue` is the fair lock, `session` the state behind it, `child`
with `inbox`, `outbox` and `torn` what is beyond it. A caller spawns or reuses
(`Spawn`, `Reuse`), writes (`BeginMessage`, `FinishMessage`), reads line by line
(`Answered`, `Skipped`) or sees the close generation move (`SeesClosing`), and may
be dropped anywhere (`DropRequest`); a timeout of the host is such a drop.
`Close` bumps the generation and queues; `Terminate` takes the session out and
kills. The server answers in any order, late, or never, and may exit.

`StdioJail`: a launch is `Check`, `Reserved`, `Created`, `Started`, each of which may
be refused; TinyBox has done a call before its reply is read, and may have done one
that it answers with an error. `Guarded` is `ResourceGuard`'s drop; `Kill`,
`KillEnds`, `CloseHandle`, `DropHandle` are the handle; `DetachedKill` and `Detached`
the cleanups that run without a caller. Every cleanup ends in a `CloseCall`, after a
`KillCall` where a server may run; either may do nothing, and nobody looks.
`unclosed` (a Close was refused) and `cleaned` (how many cleanups ended) are history.
A launch is `"lost"` when it never read the answer to its reservation, or was
answered with an error.

`SpawnPath`: the process-wide cell that the first launch fills (`Ask`, `Probe`,
`ProbeEnds`) while others wait and one takes over when it is dropped
(`DropStart`); and the path it is filled with: `OrderSources`, `Merge` and
`LatestBin` are the code's, its loops the folds of `KeepFirst`, `PushIfDir` and
`LaterBin`; `Locate` is the lookup of a command.

### OAuthFlow

`BeginSignIn` and `Park` park an authorization, `Take` takes it out once,
`Exchange` posts the code, `Merge` makes the bundle (a refresh token that is not
sent again is kept: `Keeping`), `StoreTokens` writes the whole credential map.
`BeginConnect` finds a bundle that is `Due`, `Refresh` asks the authorization
server, `Superseded` looks again before the store, `Dial` opens the session.
`BeginEdit` and `Edit` are `update_env` over the same map. Every read and write of
the map is a step. `missed` (a merge replaced a write it had not read, or a
store call failed) and `overdue`, `posted`, `stale` are history.

### SetupFlow

`Request`, `Submit`, `GiveUp`/`ForgetLate` (the timeout and the forget that comes
after it), `Sweep`, `Cancelled` are the vault; `BeginTest`, `ListTools`, `CloseTest`
and `Consume`, `Install` the operations that use it, and `ResolveFails` is either of
them with a handle that cannot be resolved: those resolved before it are touched. `waiter` is the task that
awaits the answer, `accepted` and `takenBy` are history.

### StaticServers

`Build` makes the set anew from the configuration, `SeedHostServer` adds the
host's, `RetainingServers` is a view of it. A listing is made (`ListTools`) and
cached (`PutCachedTools`) in two steps, with any number of builds in between;
`CachedTools` compares fingerprints. `seen` remembers the listings.

### ConfigDocument

An apply lists the store (`BeginApply`), removes what is not declared (`Remove`), then
takes the declarations in turn: `Entry` (new, or compares the dial), `Delete`,
`Insert`, `SetEnvValues`, `UpdateEnvKeys` (the rewrite), `Merge` (the credentials),
`Reconnect`. `FailStep` is a store call that fails; a delete may have got nowhere, as
far as the row, or to its end, after its disconnect. The others install,
uninstall, sign in and connect meanwhile. `before` and `alone` are history: the
store when the apply began, and whether anybody else has changed it since.

### CatalogIndex, CatalogSearch, CatalogListing

`CatalogIndex`: `ResumeOrBegin`, `Wipe` and `MarkBegun` (the two writes of
`begin_index_sync`), `Fetch`, `WriteRows`, `StoreCursor`, and after the last page
`DropUnseen` and `RecordFinished`; `SyncFails` and `SyncCrash` anywhere; `SetBase`,
`Relist`, `Tick` and `ClockBack` beside it. Rows and the begin of a sync carry the
time of the wall clock `today`, which `ClockBack` puts back; a cooldown is a
monotonic time and keeps what is left of it. `listedSince`, `wiped` and `slipped`
are history; `slipped` says that the stamps of the recorded sync are out of order: a
page was stamped before its begin, or it began at or before the stamp of a row that an
earlier one left.

`CatalogSearch`: a request reads the cache, looks at the cooldown, plans (a
cursor, or a walk from page one), asks, keeps what it got; what fails falls back
on `StalePage` or `LocalMatches`. A read of the cache that fails is a miss wherever
the code reads it (`ReadCache`, `Walk`, `StalePage`, `LocalMatches`). Two requests overlap step by step.
`answered`, `spoiled` and `timedOut` are history.

`CatalogListing` is a fold over a listing and functions of a version, checked
against what the docs say of them over every listing of a few rows.

### StoreMigration

An opener runs one document step (`LoadProgress`, `QueryPage`, `PutNext`,
`DeleteNext`, `SaveProgress`, `SaveDone`), then the import of the audit stream
(`ReadLength`, `LoadCheckpoint`, `ReadBaseline`, `SaveCheckpoint`, `ReadSource`,
`CompareTarget`, `CheckTail`, `AppendBatch`, `DropSource`, `MarkDone`), each call a
step; `OpenerCrash` and `Fail` leave what was written. Servers that are up edit
and remove rows and append to the audit log.

### AuditLog

`BeginList` takes the length of the stream, `ListWindow` reads a window and keeps
what passes the filter, `EndList` sorts and cuts the page; `RecordWrite` appends
at any time, with a clock that may go back.

### DirectoryStore, Directories, SupervisorEvents

`OpenConfigured`, `Open` and `Close` answer from what is served or pending, refuse,
or start a transition; its worker is `Quiesce` (waits for the calls on the
service it replaces), `Export` (waits for every handler, because the bus holds its
object tree for reading while one runs) or `ExportFails`, `Stop`, and
`Complete` or `Fail`; the status is published after the gate is let go (`Publish`).
`BeginCall`/`EndCall` are the dispatch gate. The mapping to `DirectoryStore`:
`Serving` is what the tree leads to, `Changing` the change whose worker has not
exported yet: the change commits with the export and not before.

`SupervisorEvents` is `record` and `drain` with their limits; events that are too
large are dropped and counted.

### ClientLifecycle, ClientTable

`ClientLifecycle` runs the machines of `machine.rs` against `Directories`: a driver
makes the call a step names (`CallOpen`, `PollOpen`, `CallClose`, `PollClose`) and
feeds the reply back. A caller may be cancelled while its call is under way
(`Loses`): the module acts, and the machine hears nothing. Others open and close
directories of theirs. `unsure` is history: the module accepted an open
whose reply was lost, or forgot how it ended.

`ClientTable` is one directory's place in the table with its locks: admitting,
`ReserveHostCompletion`, `SetAction`, the cleanup (`CheckCleanup`, `RunAction`,
`EvictClient`, `ReleaseReservation`) and `CompleteHostCleanup`, by three threads.

## 3. Runs

| Run | Result | What it shows |
|---|---|---|
| `registry` | holds | Two callers, all eight operations, one server, failing dials, store calls that fail before or after their effect, callers that give up. `DisabledHasNoSession`, `UninstallIsFinal`, and under fairness `DisableTakesEffect`. |
| `supervisor` | holds | The supervisor, one caller (connect, disconnect, enable, disable) that may give up, one server whose endpoint is ok, slow, broken or unauthorized. `SupInv` (shapes; a parked server carries no penalty), `DisabledIsCondemned`; under fairness `ServersComeBack` (a drop is noticed, a reachable server is reconnected). |
| `install_claim` | holds | Three installs, one uninstall, one crash or failing call. `OneInstallPerName`, `InstallInv` (the claim matches the rows, a row is reported by its installer). |
| `server_sessions` | holds | Three identifiers over a window of two, one session with two operations of up to two callbacks. `ImplementsLife`, `ReservedIsNear`, `SessionsInv` (no worker outlives its session), `RunsOnce` (started once, its end replays); under fairness `OperationsEnd` (also the lock is released). |
| `http_session` | holds | Two requests, calls and closes, over sessions that expire, with requests dropped at any await. `AnnouncedUnlessDropped`, `RetryLeavesExpired`; under fairness `RequestsMoveOn` (every request ends, an expired session is replaced). |
| `directories` | holds | Three directories, two configurations, two served at once. `ServesAsPromised` (the refinement), `DirInv` (what is built has an owner); under fairness `TransitionEnds`. |
| `host_side` | holds | `ClientLifecycle`: `LifecycleKeeps` (the machine agrees with the module unless a reply was lost; a fresh client finds nothing). `OAuthFlow`: `OAuthInv` (a code is posted once, a stale state is refused, a refresh stays possible, sessions open fresh), `SignInSurvives`. `AuthDiscovery`: `DiscoveryInv` (what is kept is the origin's own, "none" is true). |
| `config_document` | holds | `ConfigInv` (the store says what was applied; no session of an older dial), `ReapplyChangesNothing`. |
| `parts` | holds | `SetupInv` (a secret has one home), `JailInv` (what TinyBox holds has an owner unless its Close was refused or its reservation never told; no cleanup runs again after it ended), `ProtocolInv` (the budget agrees with the whole answer; who and which version; clients that say what they were told are let in), `StdioDelivers` (answers are their own, the child has an owner; a close releases who waits), `SpawnKeeps` (the shell is the authority, one path, no shell left behind, launches move on). |
| `records` | holds | `MigrationKeeps`, `IndexKeeps`, `SearchInv`, `ListingInv`, `StaticKeeps`, `TableKeeps`, `EventsInv`, `PageIsOfOneMoment`, `RowKeeps`, `ReplyIsTheFirst`, one component at a time. |
| `half_announced` | violated | `CachedIsAnnounced` |
| `two_installs` | violated | `OneInstallPerName` with a slower insert |

A property that ends in `Keeps`, `Inv` or `Delivers` is a conjunction of named
parts; each part is a definition of its own with the line of the code it is about.

Bounds, and why they are enough:

* *one server* (`registry`, `supervisor`): servers share no variable; a step
  reads and writes the entries of its own server only.
* *two tasks*: each property is about a session that one operation makes and
  another should take down. The proofs have no such bound.
* *Delays 1, 2, 4 and a tick of 2* (`supervisor`): from the third failure on a
  penalty outlasts a tick, which is the case the code's 5 s base, 300 s cap and
  its tick interval have; `FailureCap` is where the delay is at its cap, and an
  `ASSUME` says so. `TeardownRun` is 2, in the code 3
  (`CONSECUTIVE_TIMEOUTS_BEFORE_TEARDOWN`).
* *Lease 3, Patience 1, time up to 3* (`install_claim`): a lease can run out,
  and an insert can be slower than another. Three installers are needed for a
  takeover that is itself taken over. `two_installs` has Patience 2, and neither
  an uninstall nor a mishap.
* *MaxId 3, Window 2* (`server_sessions`): identifiers can expire, be pruned and
  be closed ahead of their open. `MaxActive` 2 stands for 32. *MaxOp 2,
  MaxCalls 2*: a retry can come after its successor; a second callback after the
  first was completed.
* *two requests, two session ids* (`http_session`): enough for one request to
  stand on a session that another has replaced, or that the server has
  forgotten. An id that nobody has in hand any longer stands for a new one.
  Listings on their own are left out: a call lists first when it has to.
* *three directories, two served, two observations, three transitions, one call
  per service* (`directories`): the limit is met, a status is forgotten, a
  directory is opened again after its close, with a call on the service that is
  replaced. The root is one of the three.
* *two directories* (`host_side`): one of the host's and one of others. *Ttl 1,
  Skew 1, Lifetime 2, time up to 3, two tasks, two states, three refresh
  tokens*: a state and a token run out, a refresh meets a newer sign-in and an
  edit. Two lookups over every origin that publishes five kinds of documents.
* *two names, two identifiers, two applies, two steps of others*
  (`config_document`): one server kept while the other is rewritten, removed or
  added, and a document applied after the others or after itself.
* `parts`: one handle and two flows (two installs of one setup); two launches; two
  callers and a closer over four requests (a late answer, a caller behind
  another, a close between them); batches of three messages with answers of two
  or three bytes; two HTTP clients and sessions; two launches over five `PATH`s
  and four listings of nvm, with versions that sort otherwise as text, one
  without a `bin` and a name that is no version.
* `records`: two openers, three rows by pages of two, an audit stream of three
  by windows of two (a page and a batch are partial, and a crash falls between
  them); a catalog of three pages of which one sync reads two, first configured by one
  of two registries that list the same, with two changes in all of the settings, of
  what is listed and of the clock; two searches over
  three pages with a walk of two; listings of up to four rows; three threads and
  two identities in the table; a queue of three events drained by two, seven
  events; lists over four audit entries in windows of two; three writers and
  three attempts; bodies of four lines.

`CHECK_DEADLOCK FALSE` stands where a finite clock, finite identifiers or a
finite input make the model stop: everywhere but in `registry`, `supervisor`,
`http_session` and `half_announced`.

Fairness. In `McpRegistry` and `Supervisor` each task that has a step left takes
it: a Tokio task is scheduled, store calls return, and dials end because both
transports bound them by timeouts. The supervisor's interval keeps firing
(`Supervisor::run` loops until it is dropped). No request, no change of
an endpoint and no drop is fair. `ServerSessions` has fairness for the worker,
for the awaits inside calls, for a reader, and for the host's polling and
completing of callbacks, as a host does that waits for its operations; never for
submit, cancel, close or open. In `HttpSession` every exchange ends, at the latest by
the timeout the client is built with (`TaskStep`); `ExpiredIsReplaced`
further takes callers that keep calling tools and a server that has forgotten a
session to answer 404 now and then, rather than to fail in another way each time.
`Directories`: the worker is a task that is scheduled, and handlers return
(`DirFairness`); no call is fair. `StdioSession`: a task that can go on does
(`StdioFairness`); nothing makes a server answer or a caller lose patience, which is
why only the request that a close finds reading is promised an end. `SpawnPath`:
a shell that hangs is given up (`LOGIN_SHELL_TIMEOUT`), the permit of
`OnceCell` wakes the next in line, a launch that has its path goes on; being
dropped is not fair.

## 4. Findings

The first two are shown by runs. The others were met while modelling; where a
property is named, it is a definition of the module that has the behaviour, no run
checks it because the code does not keep it, and TLC finds it violated when it is
added to that module's run.

1. acquire_claim looks for the holder's row first and judges the lease
   afterwards, by a clock that has moved on: a holder that writes its row in
   between, within its lease, and verifies its claim before the takeover is
   written stays, and so does the one that took the claim over. The comment says
   "if it no longer names us, back out so one name never holds two installs"
   (registry/store/types.rs:291). (`registry/store/types.rs:734`; run
   `two_installs`; `OneInstallPerName`)
2. initialize caches the session before it awaits its notifications/initialized,
   and only an error of that await resets it: a caller that drops the request
   there (probe_alive puts a timeout around list_tools,
   registry/connections/types.rs:468) leaves the session cached, and later
   requests use it without another announcement. The comment says "The session
   is not usable until the server has seen this notification, so a failure must
   not leave it cached as initialized." (transport/http/mod.rs:533).
   (`transport/http/mod.rs:535`; run `half_announced`; `CachedIsAnnounced`)
3. uninstall disconnects and then deletes the row; a connect that passes its
   recheck in between keeps a live session for an install that no longer exists,
   and no later step takes it down. The doc says "Removes an install,
   disconnecting it first." (registry/ops/types.rs:390).
   (`registry/ops/types.rs:402`; `UninstalledHasNoSession`)
4. connect writes the listing it obtained with the credentials it read before
   the handshake, also after update_env or a sign-in has stored new ones and
   forgotten the cached listing; installed_fingerprint covers the names of the
   credentials and not their values, so a read accepts it. The module doc says
   "The input includes credential values so rotation invalidates cached tools"
   (registry/store/tool_cache.rs:20). (`registry/connections/types.rs:318`;
   `CacheFollowsCredentials`)
5. The streak of probe timeouts is kept per server, and a caller's disconnect or
   connect does not reset it: a session that replaced the one that timed out is
   ended by its own first timeout. The doc says "a single timeout keeps the
   session, and only [`CONSECUTIVE_TIMEOUTS_BEFORE_TEARDOWN`] of them in a row
   end it" (registry/supervisor/types.rs:479).
   (`registry/supervisor/types.rs:491`)
6. The winner stores its own credentials after its row is visible, so a loser
   that has refreshed the record in between is overwritten (two losers overwrite
   each other the same way), and a loser that arrives before the winner's row
   reports that the record is gone. The doc says "Losing that race refreshes the
   winner's record rather than leaving a duplicate."
   (registry/ops/types.rs:277). (`registry/ops/types.rs:335`; `RaceRefreshes`)
7. reserve_close retains identifiers up to one window above the high-water mark
   as well as those below it, so up to two windows of them. The README says "at
   most 4096 in-window retired identifiers and one high-water mark are retained"
   (server/bridge/README.md:50). (`server/bridge/operations.rs:105`;
   `RetiredFitWindow`)
8. A lookup whose first place could not be reached keeps what a later place
   gave, for the client's life, although what the first would have said was
   never seen. The doc says "A definitive answer is cached; a transient one,
   including running out of [`DISCOVERY_BUDGET`], is not, so a later 401 looks
   again." (transport/http/discovery.rs:90). (`transport/http/discovery.rs:101`;
   `CutShortIsNotKept`)
9. begin_index_sync deletes the rows of the recorded catalog before it writes
   the state that names another one. When it stops in between and the settings
   go back, the state still says that the first catalog's copy is finished (or
   where to resume it), and queries are answered from the few rows there are.
   The doc says "a half-filled copy is never presented as the whole catalog"
   (registry/sources/official/index.rs:26). (`registry/store/index.rs:193`;
   `ServedIsWhole`)
10. The keys of the response cache and of the cursors do not name the registry
    they belong to: once the base URL is changed, pages of the other catalog are
    served as live and its cursors are sent to a registry that never issued
    them. The index, for the same reason, says "Rows from a different base URL
    are dropped, since they describe a different catalog"
    (registry/store/index.rs:168). (`registry/sources/official/mod.rs:521`;
    `LiveIsConfigured`)
11. walk_to caches a page's body before it has parsed it, so a body of another
    shape replaces a good one and fails each later request that finds it. It
    takes away what the fallback says it gives: "an earlier answer to the same
    request, however old" (registry/sources/official/fallback.rs:3).
    (`registry/sources/official/mod.rs:390`; `OddIsNotKept`)
12. is_installable asks only whether a row has some remote or package, and
    pick_connection takes the hosted endpoint first: a server whose endpoint
    build_install_transport refuses is listed, and cannot be installed even if a
    package could be launched. The doc says "Drops anything that cannot actually
    be installed" (registry/sources/official/types.rs:37).
    (`registry/sources/official/types.rs:111`; `ListedInstalls`)
13. A credential that only the package declares makes a row `api_key`, and so
    perfect, while the install uses the hosted endpoint and its form asks for
    nothing. The doc says "Whether a row says enough, from its metadata alone,
    to be installed and connected without guessing."
    (registry/curation/types.rs:173). (`registry/sources/official/types.rs:322`;
    `PerfectAsksForItsKey`)
14. The search shows the last version of a server when none is marked latest (or
    the marked one is deprecated), and the install uses the first of the
    versions response. The doc says "without that mark, the last one listed is,
    since the registry lists a server's versions oldest first"
    (registry/sources/official/types.rs:42).
    (`registry/sources/official/types.rs:145`; `ShownIsInstalled`)
15. A reply that is lost - the caller was cancelled, or the transition was
    forgotten - is fed back as Err although the module has accepted the open:
    the machine goes back to the previous object while the module serves the new
    one. The doc says "`Err` restores the previous object (or closed), because
    nothing was accepted."
    (crates/tinymcp-bus/src/client_lifecycle/machine.rs:159).
    (`crates/tinymcp-bus/src/client_lifecycle/machine.rs:160`; `HostAgrees`)
16. Both the token store and update_env read the credential map, merge, and
    replace it whole without a version, so a value the user saves between the
    two is lost, and so is a sign-in that is stored between update_env's read
    and write. The doc says "The flow always reads, merges and writes back, so a
    value the user set beside their sign-in survives it."
    (registry/oauth/credentials.rs:28). (`registry/oauth/tokens.rs:198`;
    `UserValueSurvives`)
17. An opener that reads the length of the target before another opener's first
    batch is appended, and the missing checkpoint before the other has saved
    one, records a baseline of its own and imports the stream again from its
    beginning. The test
    `concurrent_owner_openers_do_not_duplicate_an_audit_batch` says otherwise
    (storage/migrate_tests.rs:895); it covers the race after the baseline only.
    (`storage/migrate.rs:99`; `EntriesAreImportedOnce`)
18. setup_install_and_connect takes the handles out of the vault and then
    installs: when the install fails the values are nowhere and the user is
    asked again. The comment says "The handles are **consumed** here: the values
    are now in the credential store" (registry/ops/types.rs:932).
    (`registry/ops/types.rs:950`; `ConsumedIsStored`)
19. setup_test_connection closes its throwaway session only after a listing that
    succeeded: list_tools that fails returns before the close, and a caller that
    drops the test closes nothing. The comment says "a test must not leave a
    session behind that nothing owns" (registry/ops/types.rs:900).
    (`registry/ops/types.rs:899`; `TestLeavesNothing`)
20. A submission that is accepted as the wait times out is forgotten by
    await_fulfillment's own error path, although the user was told it was taken.
    The comment says "That is not an error: the value is stored, and a retry
    will find it." (registry/setup/types.rs:169).
    (`registry/setup/types.rs:202`; `AcceptedIsFound`)
21. Nothing but the tests calls SecretVault::sweep or await_fulfillment, so a
    value that no install consumes stays for the life of the process. The doc
    says "An answered-but-unused value is swept after [`IDLE_TTL`]"
    (registry/setup/mod.rs:36). (`registry/setup/mod.rs:36`)
22. close_session releases the request that reads its answer, then queues for
    the lock. A request that was waiting in front of it takes the lock next,
    subscribes to the new generation, and is released by nothing: close waits
    for as long as that server does not answer. The test
    `closing_a_session_does_not_wait_for_an_unanswered_request` has one request
    (transport/stdio/mod_tests.rs:410). (`transport/stdio/mod.rs:540`;
    `CloseReturns`)
23. A caller that drops a request while write_all is under way leaves part of a
    line in the pipe and the session in place; the next request's line is
    appended to it, and the server reads one line that is neither. The doc says
    "Writes one newline-terminated JSON message and flushes it."
    (transport/stdio/mod.rs:660). (`transport/stdio/mod.rs:673`;
    `MessagesAreWhole`)
24. A launch that is dropped while the Reserve call is answered has no guard
    yet, nor has one that is answered with an error after TinyBox had reserved:
    TinyBox keeps the resource. The doc says "Closes a reserved resource
    unless ownership moved to a [`JailedHandle`], including when the launch
    future is dropped mid-await." (transport/stdio/jailed.rs:396).
    (`transport/stdio/jailed.rs:217`; `GuardCoversEveryDrop`)
25. A server whose dial changed is deleted with its credentials, inserted and
    given them back in three calls: when the second or third fails they are
    gone, also where the document says nothing of them. The doc says "a
    declaration that says nothing about them leaves the stored ones alone,
    because a read never shows them and a round trip must not wipe them"
    (registry/config_doc/apply.rs:33). (`registry/config_doc/apply.rs:122`;
    `UnsaidIsKept`)
26. write_credentials stores the values and then the list of their names; when
    the second fails, or a sign-in stores its tokens in between, the row lists
    other names than the store has. The doc says "Stores a server's credentials
    and keeps the row's name list in step." (registry/config_doc/apply.rs:197).
    (`registry/config_doc/apply.rs:203`; `NamesInStep`)
27. apply inserts a server by insert_server, without the claim of its name: an
    install that ends between its listing and its insert, or another apply,
    leaves two rows of one name. The comment on the claim says "so one name
    never holds two installs" (registry/store/types.rs:291).
    (`registry/config_doc/apply.rs:92`; `OneRowPerName`)
28. seed_host_server looks in the set of servers that could be registered: an
    entry that the user has turned off, or that has nothing to dial, is not in
    it, and the host's server takes its name. The doc says "Adds a server the
    host seeds itself, unless the user already declared one by that name."
    (config_servers/types.rs:312). (`config_servers/types.rs:328`)
29. A stored description that is only spaces is rendered, and refused when the
    same document is applied; one with spaces around it reads back trimmed and
    counts as a changed dial. The renderer's filter leaves out empty ones only;
    the parser says "A string field that may be absent, refusing a blank or
    non-string one." (registry/config_doc/document.rs:447).
    (`registry/config_doc/document.rs:60`)
30. update_enabled may have turned the server off and report an error, and a
    caller may drop set_enabled at the disconnect that follows: the server is
    off, its session stays, and nobody is left to end it until the next
    disconnect. `DisabledHasNoSession` excepts just these, by `lapsed`. The doc
    says "Turning it off disconnects any live session, so its tools disappear at
    once" (registry/ops/types.rs:407). (`registry/ops/types.rs:423`)
31. The answer to Close is ignored in every cleanup, and the guard is disarmed
    (or the handle marked released) all the same: a resource whose Close TinyBox
    refused is asked for by nobody again. The comment says "Nothing runs; the
    resource must not outlive the refusal." (transport/stdio/jailed.rs:244).
    (`transport/stdio/jailed.rs:245`)
32. Rows and the start of a sync are stamped by the wall clock, and
    finish_index_sync deletes the rows stamped before the start: when the clock
    is put back during a sync, or before it is resumed, those are the rows the
    sync has just written, and the copy is recorded as finished without them.
    The doc of now_ms says "Nothing here makes a decision that a wrong timestamp
    could make unsafe" (registry/store/types.rs:832).
    (`registry/store/index.rs:314`; `StampsDoNoHarm`)

## 5. Proofs

Every theorem holds for every value of the constants that the module's named
assumptions allow. `RegistryAssumption`, `AdmissionAssumption`, `SessionAssumption`,
`InstallAssumption`, `DirectoriesAssumption` and the like say that bounds are
numbers, that sets of callers are sets, and that a model value which stands for
"nothing" (`None`, `Absent`) is none of the things it is told apart from. Beyond
that:

* `RowAssumption` takes the set of writers as finite, for the count of lost swaps;
* `PowersOfTwo` says that the powers of two which the backoff is computed from are
  numbers: the provers know nothing of exponentiation;
* the three theorems of `InstallClaim` take `2 * Patience < Lease`: an insert that
  judges a holder's claim and one that is judged each take at most `Patience`. The
  run has the smallest such lease, and `two_installs` is what happens beyond it;
* `SignInsStaySound` takes `Skew < Lifetime`. A refresh is due within the skew of a
  token's end; a token that does not outlast the skew may end between the refresh
  that brought it and the dial. Everything of `OAuthInv` but `SessionsOpenFresh`
  holds without it (`CodesAreSpentOnce`).

### Registry, store and supervisor

* `TypeCorrect`, `AdmissionTypeCorrect`, `HttpTypeCorrect`: the type invariants.
* `DisabledSessionsAreWatched` and `DisabledStaysDisconnected`.
  `DisabledHasNoSession` speaks of the moments when nobody works on a server and
  is not inductive: a step into such a moment says nothing of the one before.
  The strengthening is `DisabledIsCondemned`: a session of a disabled server has
  a task that stands at its cache write, its recheck or the door of a
  disconnect, or the server is `lapsed`. The proof goes action by action: `Shake`
  makes the session and puts its task at the cache write; `Write` of a disable goes
  to the disconnect, or makes the server `lapsed` if it is answered with an error;
  a `Recheck` of a disabled row cannot succeed and goes to the disconnect; an
  `Unmap` leaves the door and ends the session with it; an `Abandon` at the door
  makes the server `lapsed`, and at no other of its places was its task watching;
  every other action either moves a task that was at no such place (`AsideStep`) or
  leaves it at another. Nothing takes a server out of `lapsed` that keeps its
  session and its setting (`LapseStays`). The run finds that the exception is no
  wider than needed: a recheck that forgets the setting breaks both properties.
  `TypeOK` gives the ranges that the prover needs.
* `UninstalledStaysUninstalled`: the only write of a row is `UpdateRow`,
  which keeps an absent one, and `DeleteRow`.
* `AttemptsHoldEntries`, and from it `ParkedStaysUnpenalised` and
  `SupervisedSessionsAreWatched`. That a server which parks loses its penalty is
  the last of many steps of an attempt; in between callers clear the sets. The
  invariant follows the supervisor's own task: it is idle or inside a cycle
  (`InCycle`), and from the gate to the verdict it holds a penalty entry of a
  server that is not parked (`AttemptHoldsEntry`). The registry's steps are taken
  from the lemmas about `McpRegistry` by name, so the condemned session stays condemned with
  the supervisor as one more task.
* `RowUpdateIsAtomic` shows that taking `UpdateRow` for one step is right: the loop
  of reads and conditional writes implements `AtomicRow`. A put that succeeds
  writes what the closure made of the value the writer *read*; that it is the value
  the row *has* is `VersionsTell`: who read the present version read the present
  value, and nobody has read a version that is yet to come. It is inductive
  because every write raises the version by one. Each step then is one of
  `AtomicRow` or a stutter: a lost swap and a read are stutters, a store call that
  fails after it took effect is a change whose caller is told of an error.
* `LosingMeansProgress` counts: a version is a write of some writer, every writer
  writes at most once (`Wrote`), and one that is about to put has lost fewer swaps
  than the row had writes when it read (`ProgressInv`). `UpdatesKeepRows` is the sum
  of the three.
* `ClaimsMatch`, and from it `NameHasOneInstall` and `QuietIsClean`. That a verified
  install owns the claim (`VerifiedOwns`) is threatened by a takeover only, so the
  invariant says what a taker knows: whom it read in the claim (`PlacesMatch`), and
  by the clock that the owner's insert is over or its row gone (`TimesMatch`). The
  chain of inequalities is where `2 * Patience < Lease` is used. `NothingLeft` says
  who clears up when nothing failed.
* `AppliedIsDeclared` and `ReapplyIsQuiet`. What the end of an apply says of the store
  is reached entry by entry, so the invariant compares the store with the one the apply
  began with at every step (`Follows`): servers to remove are untouched, entries whose
  turn has not come are `Waiting`, those it has come for `Settled`, and the one at work
  is as far as its step says (`AtWork`). Each step changes one server, which is no other
  entry's (`OthersStay`). A session that is not what it was belongs to the entry at work
  and is about to end, or was ended by the rewrite (`SessionsFollow`). An apply of what
  the store says already never leaves the two steps that only look (`LeavesAlone`).
  Others may come at any step: then nothing is claimed (`alone`).
* `SearchesStaySound`. Searches meet only in the shared maps, so the invariant
  (`SearchWorks`) says of each call what it has sent and holds by where it stands
  (`CallFits`: no more requests than the page it is after, and the cursor in hand leads
  to that page) and what it was told (`CallTells`), and of the maps that a cached body
  is of the page it is cached under, that an answer nobody spoiled is still there to
  stand in, and that a stall is a timeout that happened. A read that fails ends what is
  owed to its call and to no other. A cursor can only lead on
  because every body it comes from is of the page it is remembered under. The proof
  corrected the statement of `AnsweredStandsIn`: an entry may be spoiled by a walk, be
  found so, and be written well again before the search ends, so what counts is the
  entry when `StalePage` looks.
* `CopyIsWhole`. A row counts for the sync under way when it is of the recorded base
  and not older than its begin; the invariant (`IndexWorks`) says that no row is of
  another base and that those that count were listed since, unless the sync's stamps
  are out of order (`RowsMatch`, `ListingsMatch`), where a task stands against the state it has written
  (`SyncMatches`), and over what a sync begins (`BeginsOver`): an emptied copy, or a
  finished one of an earlier day. That is where `Refresh >= 1` is needed: rows of the
  finished sync are older than the next begin, so `DropUnseen` drops just those the
  new one has not seen. Only `RecordFinished` turns a sync under way into a finished
  one, over a copy whose cursor has passed every page. Assumed of the constants: some
  server is on the last page, and `"none"` is no base URL.

### Directories and maintenance

* `TransitionsMatch`, `WorkStaysOwned` and `DirectoriesRefineStore`. What callers of a
  directory reach is the served entry, except from the export on, when it is what the
  worker is about to record (`Reached`); the object tree leads to just that
  (`TreeMatches`). With what the worker was started on (`WorkerMatches`), who works
  (`WorkMatches`), which numbers have been handed out (`NumbersMatch`) and which
  transitions have a status to come (`StatusesMatch`, `PendingMatches`) it is
  inductive. The refinement maps the export to `DirectoryStore`'s change and every
  other stage to a stutter; that the limit on directories holds at the export although
  it was judged at the start needs that one transition runs at a time, and the
  cardinalities need the served ones finite (`FewServed`, an invariant).
* `HostsStayWithinModule` and `LifecycleStaysTrue`. The machine and the module agree when
  the machine has settled, which is not inductive: while a transition goes on the machine
  holds a receipt. `Tracks` says what the receipt is worth (`Follows`: the worker of the
  directory, if there is one, is the receipt's; once it has ended, a completed
  transition left the directory as asked), `ReliesOn` what a machine that has heard of
  every accepted open may take for granted, and `ReceiptsTell` that a receipt which is
  handed out again is the worker's. A step is either a call of the directory's own
  driver, or it is `Undisturbed`: it leaves the directory alone or ends its transition.
  `TransitionsMatch` is used step by step. `ObjectsAssumption` joins the assumptions
  about `None`.
* `TableLetsGo`. An action that is due is due on the reservation in the table
  (`DueIsSet`), and a cleanup between its steps holds that reservation's lock, which
  nobody else does, and after the action's success finds nothing due there
  (`CleanupsHold`). So the eviction it decided on at one step is still right at a later
  one, whatever the other threads did in between. `TableAssumption` says that `Nobody`
  is neither a thread nor a reservation.
* `EventsStayAccounted`: events are numbered as they are produced; what was delivered,
  then the queue, is increasing and below what comes next, and the counts add up.

### Records

* `EntriesStaySound`. A set is a map and an order that agree (`OnePlace`); it is built by
  a fold over the declarations, each step of which keeps that. What the cache serves
  rests on `StaticWorks`: a listing on its way, or written, was made of a definition
  whose lists `seen` remembers (`WasListed`), and its fingerprint tells which, so that a
  later build, another filter or a late write cannot pass off other tools.
* `MigrationLosesNothing`. Openers share the store, so the invariant is in two parts:
  what the shared state has reached (`SharedWorks`), which never goes back (`GoesOn`),
  and what each opener has read of it (`RowsFit`, `StreamFits`). An opener may hold a
  page, a checkpoint or a length that others have overtaken; what it knows is therefore
  something that stays true: rows that are gone, a copy that is stored, and that the
  first entries of the old stream lie in the log before some place (`CopiedTo`), which
  others cannot undo because they only append. Progress that was saved is worth as much
  as the opener that saved it knew (`SavedFits`).
* `ListsAreOfOneMoment`. What a reader has collected is all that its query keeps of the
  entries it has read, which are the first ones of the stream (`ListFits`); so the moment
  is the one when it was as long as that. The entries of a sorted list have the places
  that `IsAt` counts (`PlaceIn`, `OrderIs`), and the page is cut out of it
  (`PageOfSorted`). A page stays right because the stream only grows.
* `ListingsAreOfOneRowEach`, by induction over the rows of a listing. After `k` rows the
  chosen versions are those at `CurrentOf(k)`, and a row either changes nothing
  (`UselessRow`, `LaterRow`) or takes its server's place (`NewRow`); the order's names
  are each of a row before which no later name has one (`OrderFits`). The connection
  picked is the first of the lowest rank there is (`PickedIs`), where hosted ones rank
  lowest (`ConnectionsAre`).

* `RepliesAreRead`, by induction over the lines of a body. After `n` lines the parser's
  events are what the closed frames of these lines say, in their order (`Tells`,
  `ClosedAt`), and what it has in hand are the data lines of the frame that is being
  read (`ParsesAs`); a blank line closes it (`FlushFits`), any other leaves the closed
  ones as they are (`ClosedIs`). That the text up to the last blank line, wherever the
  chunk was cut, has just the frames that are closed is `CompleteIs`, and a frame before
  a closed one is closed, so that the first reply among the events is the first of the
  stream. A line that is cut in its data makes the whole unreadable (`CutIsMalformed`),
  which is why `ChunksAreNoError` allows for it at the end of a stream.
  `RepliesAssumption`: no reply is called like one of the kinds of lines and answers.
* `OnePathForAll`. At most one launch asks the shell, and only while the cell is empty,
  so its answer is the first (`SpawnWorks`, `SetOnce`). What the path is worth is shown
  of the loops, entry by entry: after `k` entries the merged path finds every command
  where the first `k` entries do (`MergedIs`), a joined path finds it in its first part
  that has it (`LocateJoin`), and the version kept is the highest usable one so far
  (`LatestIs`), for which the order of versions has to be total and transitive
  (`BelowIsTotal`, `BelowIsTransitive`, by the first place where two versions differ).
  `SpawnAssumption` says what are sequences of what. `SpawnKeeps` has liveness too, so
  the theorem states the rest of it.

The library defines a fold as a recursive function over index sets. That there is one
(`FoldIsThere`) is proved by induction over the size of the set, and `ChosenSteps`,
`OrderSteps` and the like turn it into "one step per element". `EntriesAssumption`,
`MigrationAssumption`, `AuditAssumption` and `PublishedAssumption` say that bounds and
times are numbers, that batches and windows are not empty, and that an entry and a
version have the shape the parser gives them.

### Sessions of the bridge and the MCP server

* `WindowInvariant`, `ReservedStaysNear` and `AdmissionIsFinal`. That no
  identifier is admitted twice rests on `SpentIsRefused` (what was opened or
  fenced is remembered or expired), which needs that active identifiers were
  opened, that the mark is the greatest of the opened and that what is remembered is
  near it: together `WindowInv`. `Open` prunes exactly what its new mark
  expires; `Fence` adds what `Ceiling` admits, and the mark never falls.
* `AdmissionImplementsLife`: the same invariant gives the refinement. An identifier is
  open when it is active, spent when it was opened or fenced and is not active,
  and unborn otherwise; an `Open` of an unborn one is `Begin` because a spent one is
  refused, `Retire` and `RetireAll` are `End`, and a `Fence`, which passes over what is
  remembered or expired, is `Bar`.
* `SessionsImplementAdmission`, and from it `ServerRemembersNear` and
  `ServerImplementsLife`: each step of the whole session server is a step of
  `Admission` or leaves its variables alone, so that its theorems hold of the server.
* `OperationsInvariant`, and from it `WorkersStayOwned`, `OperationsStartOnce` and
  `OperationsRunOnce`. A submit is refused below the mark of its session, so that an
  operation starts once needs that all that started lies below it; that a response is
  never replaced needs that HTTP session ids do too (`BelowHigh`), and that nobody
  changes what a call found before it awaited with the lock held (`InsideMatches`).
* `ProtocolKeeps`, for any line, budget, versions and clients. The budget is counted
  message by message and must agree with the length of the whole answer, so the
  invariant says that the count is the length of the answers up to here
  (`LengthMatches`); that a line is refused early just when the whole answer does not
  fit uses that lengths only add up (`AnsweredLengthGrows`). What the session remembers
  is told by the first and the last `initialize` among the messages handled
  (`InitsMatch`). Over HTTP, what a client was told is the version of the session whose
  id it holds, for as long as there is one (`ToldMatches`). `ProtocolAssumption` says
  that the newest version is one the server supports and that no client is called
  `"unset"`. `AnsweredLength` is a recursive function over a sequence: that there is
  such a function is `SumIsThere`, and what holds of all its values follows by
  `Induction`, the principle stated of a *set* of numbers, which is derived from the
  well-foundedness of the subset order on finite sets.

### HTTP client, sign-in and setup

* `SessionsAreAnnounced` and `RetriesLeaveExpired`. A cached session the server
  still waits to hear of has a request that is about to announce it, or awaits
  the answer on just that session (`OpenIsAnnounced`); the session a retry was
  refused on is not the cached one (`RefusedIsGone`), since it was reset before
  the retry began and servers do not reuse ids. Both with the type
  invariant are `HttpInv`. The announcing request leaves when the server has
  heard it, when it resets the session, or, dropped, when the session counts as
  such.
* `DiscoveryIsSound`: each walk knows that the places before its own are barren unless
  something transient happened, and that what it found is in a document it read
  (`WalkOwned`). Documents are read once and do not change, so what a lookup kept
  stays true (`Grows`, `DefiniteStays`).
* `CodesAreSpentOnce`, `SignInsStaySound` and `RefreshRespectsSignIn`. `CodesOwned`
  follows a code: it belongs to the parked entry, then to the one caller that took
  it, and is spent by that one. `ReadsOwned` says that a map read at the stored
  version is the stored map; the third theorem is its use. `GrantsOwned` says that as
  long as nothing was missed the newest refresh token of a grant is in one place:
  with the one caller that holds it, or stored. With a server that rotates, a second
  caller that read the same bundle cannot be answered any more (`ReaderOwned`,
  `HolderOwned`). `FreshOwned` adds the clock: what is stored outlasts every dial
  that has looked at it.
* `ValuesHaveOneHome` and `ValuesAreConsumedOnce`: who took a value (`takenBy`) is one
  caller, and what was taken is in the vault no more (`HomeOf`).
* `StdioStaysOwned`. That the child belongs to the session, or to the handshake of the
  task that holds the lock, is threatened by every way of leaving the line, so
  `StdioWorks` says of each task that it is in the line just while it says so, and that
  it works with the child only while it holds the lock, with an identifier that was
  handed out, and in a handshake only while there is no session (`TaskFits`). Whoever
  leaves the line keeps the others in their order (`WithoutIs`), so a task that drops
  its request in the middle of the line does not take the lock from its holder; a step
  of one task is then `MoverStep`, the lemma that it does not touch the others.
  `StdioAssumption` says that the bound is a number.
* `NothingStaysStranded`: the guard is armed just between the reservation and the
  handle, and when the launch has gone a cleanup is under way, or nothing is held, or
  what is held is `unclosed` (`JailPlaces`). A cleanup ends only where nobody is left to
  start another one: the guard is disarmed, the handle released, none detached
  (`JailCleaned`), which gives that none runs twice.

The case split on the steps is one lemma per group of actions; arithmetic about
the floor is in lemmas about natural numbers (`FloorFacts`, `Slack`).

Only model-checked: all liveness (`DisableTakesEffect`, `ServersComeBack`,
`OperationsEnd`, `RequestsMoveOn`, `TransitionEnds`, and the parts
`WaitersAreReleased` and `StartsMoveOn`), since fairness and ENABLED are beyond the
prover.

## 6. Not modelled

* Wire types, error texts, naming, redaction and rendering (`processing`, `error`,
  `agent_tools`, `tools`, `ui`): functions without state.
* Formatting, framing and JSON parsing, but for event streams, lines of a batch and
  the spawn `PATH`; the texts and ranking of catalog queries; the wording of a
  config document (what its declarations say is modelled).
* Networks, subprocesses, TinyBox, the authorization server and the storage
  drivers are external: they answer in every way that the code tells apart, but for
  what is listed here.
* Store calls of `ConfigDocument`, `StaticServers` and `CatalogIndex` that fail are
  taken as having had no effect, but for deletes and for what a sync writes page by
  page. In `McpRegistry`, `RowUpdate` and `StdioJail` they may have had it.
* Cancellation is modelled of the registry's operations, HTTP and stdio requests,
  launches, and calls of the bridge and of the host. The supervisor's own future,
  dropped with its host in the middle of a cycle, is not; nor is one of the others
  where it leaves what a failed call, or a caller that takes no further step, leaves.
* The clock of `CatalogSearch` only advances. Its cooldown is monotonic in the code; the
  age of a cached page is by the wall clock, and a step back keeps pages fresh for
  longer.
* `Directories`: an export that fails drops the new service at once; in the code it is
  held, where nothing can reach it, until the gate is let go and the status published.
* `OAuthFlow`: a server that answers a refresh with a blank refresh token, which would
  replace the stored one (registry/oauth/tokens.rs:129).
* `ServerProtocol` takes every answer of a handler to be as long as one with an empty
  object, as `minimum_response_len` does (server/protocol/mod.rs:134); a handler whose
  `call_tool` returns a bare digit answers with a byte less, and its batch may be
  refused that byte early.
* `ServerSessions` opens sessions without a known HTTP session id: the id and version
  that `open_http` takes over are left out.
* `StaticServers`: a fingerprint is of the tool lists; endpoint, command, environment
  and credentials, which the code hashes as well, do not change in the model.
* `CatalogListing`: a `config_schema` that is passed on as it is where no environment is
  declared.
* `ReapplyChangesNothing` and what `ConfigInv` says of an apply that ended are about
  applies that nobody disturbed; findings 25 to 27 are what may
  happen otherwise. `SetupInv` says nothing of an accepted value that is forgotten
  (finding 20).
* `disconnect_all`, forwarded tool calls, `run_many` and the counters of the boot
  pass: they add no state to what is modelled.
* Dynamic client registration and the protected-endpoint guard of `oauth`: one
  exchange without state of its own, and address arithmetic.
* The rules of each schema step (which documents they convert, and to what): a
  step carries over some rows and drops the others.
* Windows, where no shell is asked for a `PATH`.
* A row's `config` and display fields, which no step decides on.
* Two adapters over one store: a background sync that an earlier one left running
  after its directory was closed and opened again.

## 7. Plan

Modelled, checked, and proved as above. What is left is `McpRegistry` over `RowUpdate`
instead of its own `UpdateRow`, as a composition.
