--------------------------- MODULE CatalogSearch ---------------------------
(***************************************************************************)
(* Asking the catalogs (registry/sources): pages of the official registry  *)
(* come from the response cache, from the registry by cursor, or - when it *)
(* cannot answer - from whatever is cached; a kind of listing that timed   *)
(* out leaves the network alone for a cooldown; a deep page with no cursor *)
(* walks forward from page one.  Details and Smithery's pages go through   *)
(* the same cache without cursors, cooldown or stale answers.              *)
(*                                                                         *)
(* Searches overlap: each await and each look at a shared map is a step.   *)
(* A body is what its rows and its next cursor depend on - the catalog and *)
(* the page - or "odd": JSON of another shape.  The local index answers    *)
(* before any of this (CatalogIndex), and a curated entry describes what a *)
(* failed detail does not: neither touches any state here.                 *)
(***************************************************************************)
EXTENDS Integers, FiniteSets

CONSTANTS
    Searches,       \* the calls
    Catalogs,       \* base URLs of the official registry
    Asked,          \* the requests made: <<kind, page>>
    Length,         \* pages a listing has
    MaxWalk,        \* MAX_CURSOR_WALK_PAGES
    Ttl,            \* CACHE_TTL_MS, in ticks
    Rest,           \* RegistryTimeouts::cooldown, in ticks
    MatchingPages,  \* catalog pages with a row that matches the query
    MaxSearchTime,  \* bound: ticks of the clock
    MaxAsked,       \* bound: requests begun
    MaxOdd          \* bound: bodies of another shape

ListingKinds == {"browse", "search"}        \* RegistryOperation of a listing
Kinds == ListingKinds \cup {"detail", "gateway"}

ASSUME SearchAssumption ==
    /\ Asked \subseteq Kinds \X (1 .. Length + 1)
    /\ Length \in Nat \ {0} /\ MaxWalk \in Nat \ {0} /\ Ttl \in Nat \ {0} /\ Rest \in Nat
    /\ MatchingPages \subseteq 1 .. Length
    /\ MaxSearchTime \in Nat /\ MaxAsked \in Nat /\ MaxOdd \in Nat
    /\ "none" \notin Catalogs

VARIABLES
    base,           \* Registries::auth: the configured base
    pageCache,      \* mcp.registry_cache, by kind and page: no base in the key
    cursors,        \* CursorCache: <<kind, page>> -> cursor of the page after it
    stalls,         \* Cooldown: kind -> the last timeout, or none
    calls,          \* the searches under way
    now,            \* the clock, in ticks
    begun,          \* requests begun so far
    answered,       \* history: requests answered by the registry and cached
    spoiled,        \* history: entries an odd body was written over
    timedOut        \* history: <<kind, base, time>> of each timeout

searchVars ==
    <<base, pageCache, cursors, stalls, calls, now, begun, answered, spoiled, timedOut>>

Pages == 1 .. Length + 1
NoBody == [of |-> "none", page |-> 0, odd |-> FALSE]
NoEntry == [body |-> NoBody, at |-> 0]
NoCursor == [of |-> "none", to |-> 0]
NoStall == [url |-> "none", since |-> 0]
NoCall == [pc |-> "idle", kind |-> "browse", page |-> 0, url |-> "none", walk |-> 0,
          cursor |-> NoCursor, body |-> NoBody, sent |-> 0, error |-> "none",
          freshness |-> "none", owed |-> FALSE, rested |-> FALSE]
Bodies == [of : Catalogs, page : Pages, odd : BOOLEAN]
CursorsOf == [of : Catalogs, to : Pages]

SearchTypeOK ==
    /\ base \in Catalogs
    /\ pageCache \in [Kinds \X Pages -> [body : Bodies, at : 0 .. MaxSearchTime] \cup {NoEntry}]
    /\ cursors \in [ListingKinds \X Pages -> CursorsOf \cup {NoCursor}]
    /\ stalls \in [ListingKinds -> [url : Catalogs, since : 0 .. MaxSearchTime] \cup {NoStall}]
    /\ \A c \in Searches :
          /\ calls[c].pc \in {"idle", "cache", "cool", "plan", "walk", "send", "keep",
                              "stale", "local", "done"}
          /\ calls[c].error \in {"none", "timeout", "down", "refused", "malformed"}
          /\ calls[c].freshness \in {"none", "live", "cached", "local"}
    /\ now \in 0 .. MaxSearchTime /\ begun \in 0 .. MaxAsked

SearchInit ==
    /\ base \in Catalogs
    /\ pageCache = [kp \in Kinds \X Pages |-> NoEntry]
    /\ cursors = [kp \in ListingKinds \X Pages |-> NoCursor]
    /\ stalls = [k \in ListingKinds |-> NoStall]
    /\ calls = [c \in Searches |-> NoCall]
    /\ now = 0 /\ begun = 0
    /\ answered = {} /\ spoiled = {} /\ timedOut = {}

\* The next cursor a page carries; none on the last one.
NextCursor(body) ==
    IF body.page < Length THEN [of |-> body.of, to |-> body.page + 1] ELSE NoCursor

CallAt(c, pc) == calls' = [calls EXCEPT ![c].pc = pc]

Fails(c, error) == calls' = [calls EXCEPT ![c].pc = "done", ![c].error = error]

\* remember_cursor
Remember(k, p, body) ==
    cursors' = IF NextCursor(body) = NoCursor THEN cursors
               ELSE [cursors EXCEPT ![<<k, p>>] = NextCursor(body)]

\* served: the page, with the cursor it carries recorded.
ServePage(c, body, freshness) ==
    /\ calls' = [calls EXCEPT ![c].pc = "done", ![c].body = body,
                              ![c].freshness = freshness, ![c].error = "none"]
    /\ IF calls[c].kind \in ListingKinds
       THEN Remember(calls[c].kind, calls[c].page, body)
       ELSE UNCHANGED cursors

FreshEntry(entry) == entry # NoEntry /\ now - entry.at < Ttl

----------------------------------------------------------------------------
\* Registries::search and get: the settings are copied here.
BeginSearch(c) ==
    /\ calls[c].pc \in {"idle", "done"}
    /\ begun < MaxAsked /\ begun' = begun + 1
    /\ \E a \in Asked :
          calls' = [calls EXCEPT ![c] = [NoCall EXCEPT
              !.pc = "cache", !.kind = a[1], !.page = a[2], !.url = base,
              !.owed = a \in answered \ spoiled]]
    /\ UNCHANGED <<base, pageCache, cursors, stalls, now, answered, spoiled, timedOut>>

\* A fresh entry is the answer; one that does not parse, and one the store
\* could not read, is a miss.
ReadCache(c) ==
    LET s == calls[c]  entry == pageCache[<<s.kind, s.page>>]
    IN /\ s.pc = "cache"
       /\ \/ /\ FreshEntry(entry) /\ ~entry.body.odd
             /\ ServePage(c, entry.body, "live")
          \/ /\ CallAt(c, IF s.kind \in ListingKinds THEN "cool" ELSE "send")
             /\ UNCHANGED cursors
       /\ UNCHANGED <<base, pageCache, stalls, now, begun, answered, spoiled, timedOut>>

\* A cooldown that is not scoped to the registry that stalled.
CoolingAnywhere(stall, url) == stall # NoStall /\ now - stall.since < Rest

CoolingDown(stall, url) == stall.url = url /\ now - stall.since < Rest

\* Cooldown::active
CheckCooldown(c) ==
    LET s == calls[c]
    IN /\ s.pc = "cool"
       /\ IF CoolingDown(stalls[s.kind], s.url)
          THEN /\ calls' = [calls EXCEPT ![c].pc = "stale", ![c].error = "timeout",
                                         ![c].rested = TRUE]
               /\ UNCHANGED stalls
          ELSE /\ CallAt(c, "plan")
               /\ stalls' = [stalls EXCEPT ![s.kind] = NoStall]
       /\ UNCHANGED <<base, pageCache, cursors, now, begun, answered, spoiled, timedOut>>

\* A walk of any depth.
WithinWalkAlways(page) == TRUE

WithinWalk(page) == page <= MaxWalk

\* search_live: the first page, a page whose cursor is known, or a walk.
Plan(c) ==
    LET s == calls[c]
        known == IF s.page = 1 THEN NoCursor ELSE cursors[<<s.kind, s.page - 1>>]
    IN /\ s.pc = "plan"
       /\ IF s.page = 1 \/ known # NoCursor
          THEN calls' = [calls EXCEPT ![c].pc = "send", ![c].cursor = known]
          ELSE IF WithinWalk(s.page)
          THEN calls' = [calls EXCEPT ![c].pc = "walk", ![c].walk = 1]
          ELSE Fails(c, "malformed")
       /\ UNCHANGED <<base, pageCache, cursors, stalls, now, begun, answered, spoiled, timedOut>>

\* The walk has the body of one page: on to the next, to the page asked for,
\* or to the end of the chain, which is an empty page.
WalkOn(c, body) ==
    LET s == calls[c]  next == NextCursor(body)
    IN IF body.odd THEN Fails(c, "malformed") /\ UNCHANGED cursors
       ELSE /\ Remember(s.kind, s.walk, body)
            /\ calls' = [calls EXCEPT ![c] =
                 IF next = NoCursor
                 THEN [s EXCEPT !.pc = "done", !.freshness = "live", !.body = NoBody]
                 ELSE IF s.walk + 1 = s.page
                 THEN [s EXCEPT !.pc = "send", !.walk = 0, !.cursor = next, !.body = NoBody]
                 ELSE [s EXCEPT !.pc = "walk", !.walk = @ + 1, !.cursor = next,
                                !.body = NoBody]]

\* walk_to: the stored cache first - what is there has to parse - and the
\* registry where the store has nothing fresh or could not be read.
Walk(c) ==
    LET s == calls[c]  entry == pageCache[<<s.kind, s.walk>>]
    IN /\ s.pc = "walk"
       /\ \/ FreshEntry(entry) /\ WalkOn(c, entry.body)
          \/ CallAt(c, "send") /\ UNCHANGED cursors
       /\ UNCHANGED <<base, pageCache, stalls, now, begun, answered, spoiled, timedOut>>

\* fetch_page: an answer of some shape.  What is not JSON of the right shape is
\* not cached, but for a page of the walk and the record inside a detail.
Answer(c) ==
    LET s == calls[c]
        page == IF s.kind \notin ListingKinds THEN s.page
                ELSE IF s.cursor = NoCursor THEN 1 ELSE s.cursor.to
    IN /\ s.pc = "send"
       /\ \E odd, kept \in BOOLEAN :
             /\ odd => Cardinality(spoiled) < MaxOdd
             /\ ~odd \/ s.walk # 0 => kept
             /\ kept /\ odd => s.walk # 0 \/ s.kind = "detail"
             /\ LET body == [of |-> s.url, page |-> page, odd |-> odd]
                IN calls' = [calls EXCEPT ![c].body = body, ![c].sent = @ + 1,
                                ![c].pc = IF kept THEN "keep" ELSE "done",
                                ![c].error = IF kept THEN "none" ELSE "malformed"]
       /\ UNCHANGED <<base, pageCache, cursors, stalls, now, begun, answered, spoiled, timedOut>>

\* The response is cached - or not, which is unimportant - and used: the
\* page asked for was parsed before, a page of the walk is parsed after.
Keep(c) ==
    LET s == calls[c]
        at == IF s.walk = 0 THEN s.page ELSE s.walk
    IN /\ s.pc = "keep"
       /\ \/ /\ pageCache' = [pageCache EXCEPT ![<<s.kind, at>>] = [body |-> s.body, at |-> now]]
             /\ IF s.body.odd
                THEN spoiled' = spoiled \cup {<<s.kind, at>>} /\ UNCHANGED answered
                ELSE /\ answered' = answered \cup {<<s.kind, at>>}
                     /\ spoiled' = spoiled \ {<<s.kind, at>>}
          \/ UNCHANGED <<pageCache, answered, spoiled>>
       /\ IF s.walk # 0 THEN WalkOn(c, s.body)
          ELSE IF s.body.odd THEN Fails(c, "malformed") /\ UNCHANGED cursors
          ELSE ServePage(c, s.body, "live")
       /\ UNCHANGED <<base, stalls, now, begun, timedOut>>

\* send fails: refused (any other status) is the search's own error; a
\* timeout, a broken connection or a 408, 429 or 5xx is not.
SearchRefused(c) ==
    /\ calls[c].pc = "send"
    /\ calls' = [calls EXCEPT ![c].pc = "done", ![c].error = "refused", ![c].sent = @ + 1]
    /\ UNCHANGED <<base, pageCache, cursors, stalls, now, begun, answered, spoiled, timedOut>>

Unavailable(c, error) ==
    LET s == calls[c]
    IN /\ s.pc = "send"
       /\ calls' = [calls EXCEPT ![c].error = error, ![c].sent = @ + 1,
                       ![c].pc = IF s.kind \in ListingKinds THEN "stale" ELSE "done"]
       /\ IF error = "timeout" /\ s.kind \in ListingKinds
          THEN /\ stalls' = [stalls EXCEPT ![s.kind] = [url |-> s.url, since |-> now]]
               /\ timedOut' = timedOut \cup {<<s.kind, s.url, now>>}
          ELSE UNCHANGED <<stalls, timedOut>>
       /\ UNCHANGED <<base, pageCache, cursors, now, begun, answered, spoiled>>

\* An earlier answer stands in only while it is fresh.
StandsInWhileFresh(entry) == FreshEntry(entry) /\ ~entry.body.odd

StandsIn(entry) == entry # NoEntry /\ ~entry.body.odd

\* stale_page: an earlier answer to the same request, however old, if the
\* store can be read.
StalePage(c) ==
    LET s == calls[c]  entry == pageCache[<<s.kind, s.page>>]
    IN /\ s.pc = "stale"
       /\ \E read \in BOOLEAN :
             IF read /\ StandsIn(entry) THEN ServePage(c, entry.body, "cached")
             ELSE /\ calls' = [calls EXCEPT
                       ![c].pc = IF s.kind = "browse" \/ s.page # 1 THEN "done" ELSE "local",
                       ![c].owed = @ /\ read /\ <<s.kind, s.page>> \notin spoiled]
                  /\ UNCHANGED cursors
       /\ UNCHANGED <<base, pageCache, stalls, now, begun, answered, spoiled, timedOut>>

\* local_matches: for the first page of a query, rows of cached pages and
\* details, as far as the store can be read.  (The query matches no curated
\* entry, which would always answer.)
LocalMatches(c) ==
    /\ calls[c].pc = "local"
    /\ \/ /\ \E k \in {"browse", "detail"}, p \in Pages :
                StandsIn(pageCache[<<k, p>>]) /\ pageCache[<<k, p>>].body.page \in MatchingPages
          /\ calls' = [calls EXCEPT ![c].pc = "done", ![c].freshness = "local",
                                    ![c].error = "none"]
       \/ CallAt(c, "done")
    /\ UNCHANGED <<base, pageCache, cursors, stalls, now, begun, answered, spoiled, timedOut>>

\* set_settings
SetCatalog ==
    /\ \E b \in Catalogs \ {base} : base' = b
    /\ UNCHANGED <<pageCache, cursors, stalls, calls, now, begun, answered, spoiled, timedOut>>

SearchTick ==
    /\ now < MaxSearchTime
    /\ now' = now + 1
    /\ UNCHANGED <<base, pageCache, cursors, stalls, calls, begun, answered, spoiled, timedOut>>

SearchNext ==
    \/ \E c \in Searches :
         \/ BeginSearch(c) \/ ReadCache(c) \/ CheckCooldown(c) \/ Plan(c) \/ Walk(c)
         \/ Answer(c) \/ Keep(c) \/ SearchRefused(c) \/ StalePage(c) \/ LocalMatches(c)
         \/ \E error \in {"timeout", "down"} : Unavailable(c, error)
    \/ SetCatalog \/ SearchTick

SearchSpec == SearchInit /\ [][SearchNext]_searchVars

----------------------------------------------------------------------------
Ended(c) == calls[c].pc = "done"

\* "The walk stops rather than fan one request into hundreds": one search
\* sends at most one request for each page up to its own, and never more than
\* the walk allows (walk_to, search_live).
RequestsAreBounded ==
    \A c \in Searches : calls[c].sent <= MaxWalk /\ calls[c].sent <= calls[c].page

\* A cursor remembered under a page leads to the page after it, whoever
\* remembered it: a search, a walk, or a stale page served instead.
CursorLeadsOn ==
    \A kp \in ListingKinds \X Pages :
        cursors[kp] # NoCursor => cursors[kp].to = kp[2] + 1

\* A search that reports a timeout without having asked anybody does so
\* because a listing of its kind at its registry did time out, less than a
\* cooldown before (Cooldown::active) - not one of another kind or registry.
TimeoutIsReal ==
    \A c \in Searches :
        Ended(c) /\ calls[c].error = "timeout" /\ calls[c].rested =>
            \E t \in timedOut : t[1] = calls[c].kind /\ t[2] = calls[c].url

\* "an earlier answer to the same request, however old": a listing that was
\* answered and cached before it was asked for does not fail for the registry
\* being unavailable.  One whose entry held an odd body, written by a walk, or
\* could not be read when it was looked for (StalePage) is not owed an answer
\* any more.
AnsweredStandsIn ==
    \A c \in Searches :
        Ended(c) /\ calls[c].owed /\ calls[c].kind \in ListingKinds =>
            calls[c].error \notin {"timeout", "down"}

SearchInv ==
    SearchTypeOK /\ RequestsAreBounded /\ CursorLeadsOn /\ TimeoutIsReal /\ AnsweredStandsIn

\* Not so: the keys of the cache and of the cursors do not name the registry,
\* so after the base is changed a page of the other catalog is served as
\* live, and its cursors are sent to a registry that never issued them.
LiveIsConfigured ==
    \A c \in Searches :
        Ended(c) /\ calls[c].freshness = "live" /\ calls[c].body # NoBody =>
            calls[c].body.of = calls[c].url

\* Not so either: walk_to caches a body before it has parsed it, and get_listed
\* a record.
OddIsNotKept == spoiled = {}

=============================================================================
