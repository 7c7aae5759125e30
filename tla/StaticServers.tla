--------------------------- MODULE StaticServers ---------------------------
(***************************************************************************)
(* The servers of the host's own configuration: McpServerRegistry of       *)
(* config_servers/types.rs.  A registry is a value: the host rebuilds it   *)
(* when the configuration changes, adds servers of its own, and hands out  *)
(* views of it.  What outlives it is the tool cache, which listings made   *)
(* with an older registry may still write to.                              *)
(***************************************************************************)
EXTENDS Naturals, Sequences, SequencesExt, FiniteSets

CONSTANTS
    ServerNames,  \* trimmed names, case and all
    Fold(_),      \* to_ascii_lowercase
    ToolNames,
    Entries,      \* what may be configured or seeded
    Listings,     \* threads that list a server's tools
    MaxDeclared,  \* bounds the entries of one configuration
    MaxBuilds     \* bounds the changes of the registry

\* An entry's lists are normalized: no duplicates and no blank names.
ASSUME EntriesAssumption ==
    /\ Entries \subseteq [name : ServerNames, enabled : BOOLEAN, dial : {"endpoint", "none"},
                          allowed : SUBSET ToolNames, disallowed : SUBSET ToolNames]
    /\ MaxDeclared \in Nat

VARIABLES
    byName,     \* by_name: the definitions
    order,      \* the names in the order they were declared
    toolCache,  \* the cached listing of each name
    offers,     \* the tools that each server has at present
    listing,    \* each thread's listing that is not cached yet
    seen,       \* history: the listings that were made, with their definitions
    builds

staticVars == <<byName, order, toolCache, offers, listing, seen, builds>>

NoListing == [server |-> "none"]

StaticInit ==
    /\ byName = <<>> /\ order = <<>>
    /\ toolCache = [n \in ServerNames |-> NoListing]
    /\ offers = [n \in ServerNames |-> ToolNames]
    /\ listing = [t \in Listings |-> NoListing]
    /\ seen = {} /\ builds = 0

-----------------------------------------------------------------------------
\* Building the set.

\* is_tool_allowed: the deny list wins, an empty allow list allows the rest.
IsToolAllowed(d, tool) ==
    /\ tool \notin d.disallowed
    /\ d.allowed = {} \/ tool \in d.allowed

FilterAllowedTools(d, tools) == {tool \in tools : IsToolAllowed(d, tool)}

Definition(e, source) == [allowed |-> e.allowed, disallowed |-> e.disallowed, source |-> source]

\* insert: the first declaration has the place, the last one the definition.
InsertDefinition(reg, name, d) ==
    [byName |-> [n \in DOMAIN reg.byName \cup {name} |-> IF n = name THEN d ELSE reg.byName[n]],
     order  |-> IF name \in DOMAIN reg.byName THEN reg.order ELSE Append(reg.order, name)]

\* register skips what is turned off and what cannot be dialled.
Register(reg, e, source) ==
    IF e.enabled /\ e.dial # "none"
    THEN InsertDefinition(reg, e.name, Definition(e, source)) ELSE reg

Becomes(reg) == byName' = reg.byName /\ order' = reg.order

\* from_config
FromConfig(servers) ==
    FoldLeft(LAMBDA reg, e : Register(reg, e, "config"), [byName |-> <<>>, order |-> <<>>], servers)

Changes == builds < MaxBuilds /\ builds' = builds + 1 /\ UNCHANGED <<toolCache, offers, listing, seen>>

Build(servers) == Changes /\ Becomes(FromConfig(servers))

\* The host's entry takes the name.
SeedAnyway(e) == TRUE

\* "The user's entry wins."
Seedable(e) == e.name \notin DOMAIN byName

SeedHostServer(e) ==
    /\ Changes
    /\ IF Seedable(e) THEN Becomes(Register([byName |-> byName, order |-> order], e, "host"))
       ELSE UNCHANGED <<byName, order>>

\* retaining_servers: a copy with the named servers, whatever their case.
Retained(allowed) ==
    LET names == {Fold(a) : a \in allowed}
        kept == FoldLeft(LAMBDA rest, n : IF Fold(n) \in names THEN Append(rest, n) ELSE rest,
                         <<>>, order)
    IN  [byName |-> [n \in ToSet(kept) |-> byName[n]], order |-> kept]

RetainingServers(allowed) == Changes /\ Becomes(Retained(allowed))

-----------------------------------------------------------------------------
\* Listing and caching.

\* A fingerprint that leaves out the allow list, which is applied again on reading.
FingerprintOfDial(d) == d.disallowed

\* static_fingerprint: the definition, its lists included, where it came from not.
Fingerprint(d) == <<d.allowed, d.disallowed>>

\* list_tools_caching, up to the listing itself.
ListTools(t, n) ==
    /\ listing[t] = NoListing /\ n \in DOMAIN byName
    /\ LET tools == FilterAllowedTools(byName[n], offers[n])
       IN  /\ listing' = [listing EXCEPT ![t] =
                 [server |-> n, print |-> Fingerprint(byName[n]), tools |-> tools]]
           /\ seen' = seen \cup {[server |-> n, allowed |-> byName[n].allowed,
                                  disallowed |-> byName[n].disallowed, offered |-> offers[n]]}
    /\ UNCHANGED <<byName, order, toolCache, offers, builds>>

\* The cache write, which may fail: the listing succeeded all the same.
PutCachedTools(t) ==
    /\ listing[t] # NoListing
    /\ toolCache' \in {toolCache, [toolCache EXCEPT ![listing[t].server] = listing[t]]}
    /\ listing' = [listing EXCEPT ![t] = NoListing]
    /\ UNCHANGED <<byName, order, offers, seen, builds>>

\* cached_tools: of this very definition, and filtered again.
CachedTools(n) ==
    IF n \notin DOMAIN byName \/ toolCache[n] = NoListing THEN NoListing
    ELSE IF toolCache[n].print # Fingerprint(byName[n]) THEN NoListing
         ELSE [server |-> n, tools |-> FilterAllowedTools(byName[n], toolCache[n].tools)]

\* The server's tools change.
Offer(n) ==
    /\ offers' = [offers EXCEPT ![n] = {}]
    /\ UNCHANGED <<byName, order, toolCache, listing, seen, builds>>

StaticNext ==
    \/ \E servers \in SeqOf(Entries, MaxDeclared) : Build(servers)
    \/ \E e \in Entries : SeedHostServer(e)
    \/ \E allowed \in SUBSET ServerNames : RetainingServers(allowed)
    \/ \E t \in Listings : PutCachedTools(t) \/ \E n \in ServerNames : ListTools(t, n)
    \/ \E n \in ServerNames : Offer(n)

StaticSpec == StaticInit /\ [][StaticNext]_staticVars

-----------------------------------------------------------------------------

\* Each name has one place.  (config_servers/types.rs:650-660)
OrderIsTheSet == ToSet(order) = DOMAIN byName /\ IsInjective(order)

\* The cached tools of a server are those of a listing made under the very lists the
\* server has now, all of them and no others: neither tools that have been forbidden
\* since, nor the fewer that an older, stricter list let through, however late a
\* listing made with an older registry is written.
\* (config_servers/types.rs:430-480, 727-770)
CachedIsAsListed ==
    \A n \in ServerNames :
        CachedTools(n) # NoListing =>
            \E l \in seen : /\ l.server = n
                            /\ l.allowed = byName[n].allowed
                            /\ l.disallowed = byName[n].disallowed
                            /\ CachedTools(n).tools = FilterAllowedTools(byName[n], l.offered)

StaticInv == OrderIsTheSet /\ CachedIsAsListed

\* "The user's entry wins": while the configuration is the same, its servers stay what
\* they are, whatever the host seeds under their names.
\* (config_servers/types.rs:312-335)
UserEntryWins ==
    [][\A e \in Entries : SeedHostServer(e) =>
         \A n \in DOMAIN byName : byName[n].source = "config" => byName'[n] = byName[n]]_staticVars

\* The table is what the entries declare, and the host's own come after them.
StaticKeeps == []StaticInv /\ UserEntryWins

=============================================================================
