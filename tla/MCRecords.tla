----------------------------- MODULE MCRecords -----------------------------
(***************************************************************************)
(* Components that share no state, each explored by itself: `part` says    *)
(* which of them a behaviour is about.  The migration has two openers,     *)
(* pages smaller than the collection and batches smaller than the stream;  *)
(* the catalog has three pages, two of which one run reads; the static     *)
(* entries name one server twice, in two spellings, turned off, and with   *)
(* nothing to dial; a list of the audit log needs two windows.             *)
(***************************************************************************)
EXTENDS StoreMigration, CatalogIndex, StaticServers, ClientTable, SupervisorEvents,
        CatalogSearch, CatalogListing, AuditLog, RowUpdate, SseReader

VARIABLE part

CONSTANTS o1, o2, w1, t1, t2, t3, k1, k2, q1, q2, r1, u1, u2, u3

MCOpeners == {o1, o2}
MCCarried == {1, 3}

MCServers == {"s1", "s2", "s3"}
MCPageOf == [s \in MCServers |-> CASE s = "s1" -> 1 [] s = "s2" -> 2 [] OTHER -> 3]

Entry(name, enabled, dial, allowed, disallowed) ==
    [name |-> name, enabled |-> enabled, dial |-> dial,
     allowed |-> allowed, disallowed |-> disallowed]
MCEntries == {
    Entry("Doc", TRUE, "endpoint", {}, {}), Entry("Doc", TRUE, "endpoint", {"x"}, {}),
    Entry("doc", TRUE, "endpoint", {}, {"y"}), Entry("Doc", FALSE, "endpoint", {}, {}),
    Entry("doc", TRUE, "none", {}, {})}
LowerCase(name) == "doc"
MCListings == {w1}

MCThreads == {t1, t2, t3}
MCTokens == {k1, k2}

MCSearches == {q1, q2}
MCAsked == {<<"browse", 2>>, <<"browse", 3>>, <<"search", 1>>, <<"detail", 1>>,
            <<"gateway", 2>>}
MCMatching == {1}

\* Versions of two servers: endpoints that are open, ask for a key or are
\* missing; packages that can and cannot be launched; marked, withdrawn, and
\* with nothing to install.
Input(name, secret) == [name |-> name, secret |-> secret]
Remote(url, headers, published) == [url |-> url, headers |-> headers, published |-> published]
Package(kind, hint, args, env, published) ==
    [kind |-> kind, hint |-> hint, args |-> args, identifier |-> "pkg", env |-> env,
     published |-> published]
Version(name, latest, deprecated, remotes, packages) ==
    [name |-> name, latest |-> latest, deprecated |-> deprecated, website |-> TRUE,
     remotes |-> remotes, packages |-> packages]
Open == Remote("https", {}, TRUE)
Keyed == Remote("https", {Input("Authorization", FALSE), Input("", TRUE)}, FALSE)
Lost == Remote("none", {}, TRUE)
Npm == Package("npm", "none", <<>>, {Input("KEY", TRUE)}, TRUE)
Pypi == Package("pypi", "python", <<"-c">>, {}, FALSE)
MCPublished == {
    Version("a", FALSE, FALSE, <<Open>>, <<>>),
    Version("a", TRUE, FALSE, <<Keyed, Open>>, <<Npm>>),
    Version("a", TRUE, TRUE, <<>>, <<Npm>>),
    Version("a", FALSE, FALSE, <<Lost>>, <<Npm>>),
    Version("a", TRUE, FALSE, <<>>, <<Pypi, Npm>>),
    Version("a", TRUE, FALSE, <<>>, <<>>),
    Version("b", FALSE, FALSE, <<Keyed>>, <<Pypi>>),
    Version("b", FALSE, TRUE, <<Open>>, <<>>)}

MCReaders == {r1}

\* A row holds the changes that were made to it.
MCWriters == {u1, u2, u3}
MCRowValues == SUBSET MCWriters
MCAbsent == {"gone"}
MCFirst == {}
MCChange(w, v) == v \cup {w}

\* A body for the parts that read none.
SseIdle == body = <<"blank">> /\ got = 0 /\ open = TRUE /\ answer = "reading"

recordVars ==
    <<migrationVars, indexVars, staticVars, tableVars, eventVars, searchVars, rows, auditVars,
      rowVars, sseVars>>

Init ==
    /\ part \in {"migration", "index", "static", "table", "events", "search", "listing",
                "audit", "row", "sse"}
    /\ MigrationInit /\ IndexInit /\ StaticInit /\ TableInit /\ EventsInit
    /\ SearchInit /\ ListingInit /\ AuditInit /\ RowUpdateInit
    /\ IF part = "sse" THEN SseInit ELSE SseIdle
    \* one starting point for the parts that are not explored
    /\ part # "migration" => audit = <<>>
    \* the base URLs are alike: it does not matter which one is configured first
    /\ configured = "b1" /\ base = "b1"
    \* and what they list changes later
    /\ \A b \in Bases : catalog[b] = Servers

Next ==
    /\ \/ /\ part = "migration" /\ MigrationNext
          /\ UNCHANGED <<indexVars, staticVars, tableVars, eventVars,
                       searchVars, rows, auditVars, rowVars, sseVars>>
       \/ /\ part = "index" /\ IndexNext
          /\ UNCHANGED <<migrationVars, staticVars, tableVars, eventVars,
                       searchVars, rows, auditVars, rowVars, sseVars>>
       \/ /\ part = "static" /\ StaticNext
          /\ UNCHANGED <<migrationVars, indexVars, tableVars, eventVars,
                       searchVars, rows, auditVars, rowVars, sseVars>>
       \/ /\ part = "table" /\ TableNext
          /\ UNCHANGED <<migrationVars, indexVars, staticVars, eventVars,
                       searchVars, rows, auditVars, rowVars, sseVars>>
       \/ /\ part = "events" /\ EventsNext
          /\ UNCHANGED <<migrationVars, indexVars, staticVars, tableVars,
                       searchVars, rows, auditVars, rowVars, sseVars>>
       \/ /\ part = "search" /\ SearchNext
          /\ UNCHANGED <<migrationVars, indexVars, staticVars, tableVars,
                       eventVars, rows, auditVars, rowVars, sseVars>>
       \/ /\ part = "listing" /\ ListingNext
          /\ UNCHANGED <<migrationVars, indexVars, staticVars, tableVars,
                       eventVars, searchVars, auditVars, rowVars, sseVars>>
       \/ /\ part = "audit" /\ AuditNext
          /\ UNCHANGED <<migrationVars, indexVars, staticVars, tableVars,
                       eventVars, searchVars, rows, rowVars, sseVars>>
       \/ /\ part = "row" /\ RowUpdateNext
          /\ UNCHANGED <<migrationVars, indexVars, staticVars, tableVars,
                       eventVars, searchVars, rows, auditVars, sseVars>>
       \/ /\ part = "sse" /\ SseNext
          /\ UNCHANGED <<migrationVars, indexVars, staticVars, tableVars,
                       eventVars, searchVars, rows, auditVars, rowVars>>
    /\ UNCHANGED part

Spec == Init /\ [][Next]_<<part, recordVars>>

=============================================================================
