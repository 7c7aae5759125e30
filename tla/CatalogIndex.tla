--------------------------- MODULE CatalogIndex ---------------------------
(***************************************************************************)
(* The local copy of the official catalog (registry/sources/official/      *)
(* index.rs over registry/store/index.rs): a search or a browse starts a   *)
(* background sync when one is due; the sync pages the catalog by cursor,  *)
(* writes each page's rows and then the cursor, and may stop anywhere - a  *)
(* page that fails, a write that fails, the page limit, a crash - to be    *)
(* resumed by a later request.  A query is answered from the copy once a   *)
(* sync of the configured catalog has finished.                            *)
(*                                                                         *)
(* The store's writes are awaited one by one, so the settings, the clock,  *)
(* the catalog itself and a crash can come between any two of them.        *)
(***************************************************************************)
EXTENDS Integers

CONSTANTS
    Bases,          \* base URLs the settings can name
    Servers,        \* qualified names
    PageOf,         \* [Servers -> page of the catalog it appears on]
    Fixed,          \* servers every catalog lists at all times
    MaxPages,       \* RegistryIndexSettings::max_pages
    Refresh,        \* RegistryIndexSettings::refresh, in ticks
    Cooldown,       \* RegistryTimeouts::cooldown, in ticks
    MaxTime,        \* bound: ticks of the clock
    MaxChanges      \* bound: changes of the catalogs, the settings and the clock

ASSUME IndexAssumption ==
    /\ Fixed \subseteq Servers
    /\ PageOf \in [Servers -> Nat \ {0}]
    /\ \E last \in Servers : \A s \in Servers : PageOf[s] <= PageOf[last]
    /\ "none" \notin Bases
    /\ MaxPages \in Nat \ {0} /\ Refresh \in Nat \ {0} /\ Cooldown \in Nat
    /\ MaxTime \in Nat /\ MaxChanges \in Nat

VARIABLES
    catalog,        \* [Bases -> servers the catalog lists now]
    configured,     \* the base URL in the settings
    copy,           \* mcp.registry_index: server -> row or NoRow
    indexState,     \* mcp.registry_index_state: StateDoc or NoState
    sync,           \* the background task
    retryAt,        \* OfficialIndex::retry_at
    today,          \* the wall clock, in ticks: it can be put back
    changes,        \* changes made so far
    listedSince,    \* history: servers its catalog listed at some time since
                    \* the recorded sync began
    wiped,          \* history: the copy was emptied for another catalog and
                    \* the state has not said so yet
    slipped         \* history: the stamps of the recorded sync are out of order

indexVars ==
    <<catalog, configured, copy, indexState, sync, retryAt, today, changes, listedSince,
      wiped, slipped>>

Never == -1
NoRow == [base |-> "none", at |-> Never]
NoState == [base |-> "none", cursor |-> 0, pages |-> 0, started |-> Never, synced |-> Never]
LastPageOf == CHOOSE p \in {PageOf[s] : s \in Servers} : \A s \in Servers : PageOf[s] <= p

\* A cursor is the page it leads to; 0 is no cursor.
Cursors == 0 .. LastPageOf
NoSync == [pc |-> "idle", base |-> "none", cursor |-> 0, pages |-> 0, fetched |-> 0,
         rows |-> {}, next |-> 0, at |-> Never]

IndexTypeOK ==
    /\ catalog \in [Bases -> SUBSET Servers]
    /\ configured \in Bases
    /\ copy \in [Servers -> [base : Bases, at : 0 .. MaxTime] \cup {NoRow}]
    /\ indexState = NoState
       \/ indexState \in [base : Bases, cursor : Cursors, pages : Nat,
                          started : -1 .. MaxTime, synced : -1 .. MaxTime]
    /\ sync = NoSync
       \/ sync \in [pc : {"resume", "wipe", "mark", "fetch", "write", "cursor",
                          "finish", "record"},
                    base : Bases, cursor : Cursors, pages : Nat, fetched : 0 .. MaxPages,
                    rows : SUBSET Servers, next : Cursors, at : -1 .. MaxTime]
    /\ retryAt \in 0 .. MaxTime + Cooldown /\ today \in 0 .. MaxTime
    /\ changes \in 0 .. MaxChanges /\ listedSince \subseteq Servers
    /\ wiped \in BOOLEAN /\ slipped \in BOOLEAN

IndexInit ==
    /\ catalog \in [Bases -> {L \in SUBSET Servers : Fixed \subseteq L}]
    /\ configured \in Bases
    /\ copy = [s \in Servers |-> NoRow]
    /\ indexState = NoState
    /\ sync = NoSync
    /\ retryAt = 0 /\ today = 0 /\ changes = 0
    /\ listedSince = {} /\ wiped = FALSE /\ slipped = FALSE

InProgress == indexState.started # Never

\* is_ready, for the catalog at b
Ready(b) == indexState.base = b /\ indexState.synced # Never

IsDue(b) ==
    \/ indexState.base # b
    \/ InProgress
    \/ indexState.synced = Never
    \/ today - indexState.synced >= Refresh

----------------------------------------------------------------------------
\* refresh: the in-flight flag is the task being there.  The settings are
\* copied here and not read again.
StartSync ==
    /\ IsDue(configured)
    /\ today >= retryAt
    /\ sync = NoSync
    /\ sync' = [NoSync EXCEPT !.pc = "resume", !.base = configured]
    /\ UNCHANGED <<catalog, configured, copy, indexState, retryAt, today, changes,
                   listedSince, wiped, slipped>>

\* A resume that does not ask which catalog the cursor belongs to.
ResumableAnyway(b) == InProgress

Resumable(b) == InProgress /\ indexState.base = b

ResumeOrBegin ==
    /\ sync.pc = "resume"
    /\ sync' =
        IF ~Resumable(sync.base)
        THEN [sync EXCEPT !.pc = IF indexState.base = sync.base THEN "mark" ELSE "wipe",
                          !.at = today]
        ELSE [sync EXCEPT !.cursor = indexState.cursor, !.pages = indexState.pages,
                !.pc = IF indexState.pages > 0 /\ indexState.cursor = 0
                       THEN "finish" ELSE "fetch"]
    /\ UNCHANGED <<catalog, configured, copy, indexState, retryAt, today, changes,
                   listedSince, wiped, slipped>>

\* begin_index_sync of another catalog: its rows go before the state does.
Wipe ==
    /\ sync.pc = "wipe"
    /\ copy' = [s \in Servers |-> NoRow]
    /\ sync' = [sync EXCEPT !.pc = "mark"]
    /\ wiped' = TRUE
    /\ UNCHANGED <<catalog, configured, indexState, retryAt, today, changes,
                   listedSince, slipped>>

Begun(b) ==
    [base |-> b, cursor |-> 0, pages |-> 0, started |-> sync.at,
     synced |-> IF indexState.base = b THEN indexState.synced ELSE Never]

\* Rows an earlier sync left that carry the time this one began, or a later
\* one: the clock was put back between the two.
MarkBegun ==
    /\ sync.pc = "mark"
    /\ indexState' = Begun(sync.base)
    /\ listedSince' = catalog[sync.base]
    /\ wiped' = FALSE
    /\ slipped' = (\E s \in Servers : copy[s].at >= sync.at)
    /\ sync' = [sync EXCEPT !.pc = "fetch", !.at = Never]
    /\ UNCHANGED <<catalog, configured, copy, retryAt, today, changes>>

OnPage(b, p) == {s \in catalog[b] : PageOf[s] = p}

\* One page, within the browse budget, unless the run has read its share.  It
\* is stamped before the sync's own start where the clock was put back since.
Fetch ==
    /\ sync.pc = "fetch"
    /\ sync.fetched < MaxPages
    /\ LET p == IF sync.cursor = 0 THEN 1 ELSE sync.cursor
       IN sync' = [sync EXCEPT !.pc = "write", !.rows = OnPage(sync.base, p), !.at = today,
                     !.next = IF p < LastPageOf THEN p + 1 ELSE 0]
    /\ slipped' = (slipped \/ today < indexState.started)
    /\ UNCHANGED <<catalog, configured, copy, indexState, retryAt, today, changes,
                   listedSince, wiped>>

PauseSync ==
    /\ sync.pc = "fetch"
    /\ sync.fetched = MaxPages
    /\ sync' = NoSync
    /\ retryAt' = 0
    /\ UNCHANGED <<catalog, configured, copy, indexState, today, changes,
                   listedSince, wiped, slipped>>

\* store_index_page: rows in chunks (one by one where the backend has no
\* transactions), stamped with the time the page arrived.
WriteRows ==
    /\ sync.pc = "write" /\ sync.rows # {}
    /\ \E chunk \in SUBSET sync.rows :
        /\ chunk # {}
        /\ copy' = [s \in Servers |->
                      IF s \in chunk THEN [base |-> sync.base, at |-> sync.at] ELSE copy[s]]
        /\ sync' = [sync EXCEPT !.rows = @ \ chunk]
    /\ UNCHANGED <<catalog, configured, indexState, retryAt, today, changes,
                   listedSince, wiped, slipped>>

\* The mutated order: the cursor moves on while rows are still to be written.
MayAdvanceEarly == sync.pc = "write"

MayAdvance == sync.pc = "write" /\ sync.rows = {}

StoreCursor ==
    /\ MayAdvance
    /\ indexState' = [indexState EXCEPT !.cursor = sync.next, !.pages = sync.pages + 1]
    /\ sync' = [sync EXCEPT !.rows = {}, !.cursor = sync.next, !.pages = @ + 1, !.fetched = @ + 1,
                  !.at = Never, !.next = 0,
                  !.pc = IF sync.next = 0 THEN "finish" ELSE "fetch"]
    /\ UNCHANGED <<catalog, configured, copy, retryAt, today, changes,
                   listedSince, wiped, slipped>>

\* A finish that keeps what the sync did not see again.
UnseenKept(s) == FALSE

Unseen(s) == copy[s].at < indexState.started

\* finish_index_sync: first the rows the sync did not see again go ...
DropUnseen ==
    /\ sync.pc = "finish"
    /\ copy' = [s \in Servers |-> IF Unseen(s) THEN NoRow ELSE copy[s]]
    /\ sync' = [sync EXCEPT !.pc = "record", !.at = today]
    /\ UNCHANGED <<catalog, configured, indexState, retryAt, today, changes,
                   listedSince, wiped, slipped>>

\* ... then the state says so.
RecordFinished ==
    /\ sync.pc = "record"
    /\ indexState' = [indexState EXCEPT !.cursor = 0, !.pages = 0, !.started = Never,
                                        !.synced = sync.at]
    /\ sync' = NoSync
    /\ retryAt' = 0
    /\ UNCHANGED <<catalog, configured, copy, today, changes,
                   listedSince, wiped, slipped>>

\* Any await of the task fails: what it wrote stays, and no request starts
\* another one before the cooldown is over.
SyncFails ==
    /\ sync # NoSync
    /\ sync' = NoSync
    /\ retryAt' = today + Cooldown
    /\ UNCHANGED <<catalog, configured, copy, indexState, today, changes,
                   listedSince, wiped, slipped>>

\* The process dies and starts again with the base its configuration names.
SyncCrash ==
    /\ sync # NoSync
    /\ sync' = NoSync
    /\ retryAt' = 0
    /\ UNCHANGED <<catalog, configured, copy, indexState, today, changes,
                   listedSince, wiped, slipped>>

----------------------------------------------------------------------------
\* set_settings
SetBase ==
    /\ changes < MaxChanges /\ changes' = changes + 1
    /\ \E b \in Bases \ {configured} : configured' = b
    /\ UNCHANGED <<catalog, copy, indexState, sync, retryAt, today,
                   listedSince, wiped, slipped>>

\* The upstream's own doing.
Relist ==
    /\ changes < MaxChanges /\ changes' = changes + 1
    /\ \E b \in Bases, s \in Servers \ Fixed :
        /\ catalog' = [catalog EXCEPT ![b] = IF s \in @ THEN @ \ {s} ELSE @ \cup {s}]
        /\ listedSince' = IF b = indexState.base THEN listedSince \cup catalog'[b] ELSE listedSince
    /\ UNCHANGED <<configured, copy, indexState, sync, retryAt, today, wiped, slipped>>

Tick ==
    /\ today < MaxTime
    /\ today' = today + 1
    /\ UNCHANGED <<catalog, configured, copy, indexState, sync, retryAt, changes,
                   listedSince, wiped, slipped>>

\* The wall clock is put back.  A cooldown counts time that passes, and ends as
\* much later as it would have.
ClockBack ==
    /\ changes < MaxChanges /\ changes' = changes + 1
    /\ \E t \in 0 .. today - 1 :
        /\ today' = t
        /\ retryAt' = IF retryAt > today THEN t + (retryAt - today) ELSE 0
    /\ UNCHANGED <<catalog, configured, copy, indexState, sync, listedSince, wiped, slipped>>

SyncStep ==
    \/ ResumeOrBegin \/ Wipe \/ MarkBegun \/ Fetch \/ PauseSync \/ WriteRows
    \/ StoreCursor \/ DropUnseen \/ RecordFinished

IndexNext ==
    \/ StartSync \/ SyncStep \/ SyncFails \/ SyncCrash
    \/ SetBase \/ Relist \/ Tick \/ ClockBack

IndexSpec == IndexInit /\ [][IndexNext]_indexVars

----------------------------------------------------------------------------
Has(s, b) == copy[s].base = b

\* Wherever an unfinished sync stands, everything the pages before its cursor
\* list for good is in the copy, written by that sync: resuming at the cursor
\* after a failure or a crash misses nothing (store_index_page).  `wiped` is left out:
\* begin_index_sync that stops between its two writes breaks this, see
\* ServedIsWhole; and a sync whose stamps are out of order, see StampsDoNoHarm.
CursorIsBehindRows ==
    InProgress /\ ~wiped /\ ~slipped =>
        \A s \in Fixed :
            \/ indexState.cursor = 0 /\ indexState.pages = 0
            \/ indexState.cursor # 0 /\ PageOf[s] >= indexState.cursor
            \/ Has(s, indexState.base) /\ copy[s].at >= indexState.started

IndexInv == IndexTypeOK /\ CursorIsBehindRows

\* The step that says a sync has finished says it over a whole copy: no row is
\* another catalog's, every server listed throughout is there, and none is of
\* a server that was gone before the sync began - however often the sync was
\* stopped and resumed, and whatever was configured meanwhile.  What is there
\* and what is gone is told by stamps of the wall clock (finish_index_sync), so
\* that much is said of a sync none of whose pages was stamped before its start
\* and which found no row stamped after it.
FinishedIsWhole ==
    [][(InProgress /\ indexState'.started = Never /\ ~wiped) =>
         /\ \A s \in Servers : copy'[s] # NoRow => copy'[s].base = indexState'.base
         /\ ~slipped =>
              /\ \A s \in Fixed : copy'[s] # NoRow
              /\ \A s \in Servers : copy'[s] # NoRow => s \in listedSince
      ]_indexVars

\* "Nothing here makes a decision that a wrong timestamp could make unsafe" (now_ms):
\* a sync that finishes has kept what it wrote.  Not so: a clock put back during
\* the sync, or before it is resumed, makes the rows it writes older than its
\* own start, finish_index_sync deletes them, and the copy counts as whole.
StampsDoNoHarm ==
    [][(InProgress /\ indexState'.started = Never /\ ~wiped) =>
         \A s \in Fixed : copy'[s] # NoRow]_indexVars

\* "a half-filled copy is never presented as the whole catalog": what a query
\* would be answered from holds everything the configured catalog always
\* lists.  Not so: the rows of the recorded catalog go (Wipe) before the state
\* names another one, and a failed write, a crash or a change back in between
\* leaves a finished, or a resumable, copy of the first one without them.
ServedIsWhole == Ready(configured) => \A s \in Fixed : Has(s, configured)

\* The copy is what a run read of the catalog, and whole when a run finished.
IndexKeeps == []IndexInv /\ FinishedIsWhole

=============================================================================
