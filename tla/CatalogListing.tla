--------------------------- MODULE CatalogListing ---------------------------
(***************************************************************************)
(* From what the official registry lists to what an install would launch   *)
(* (registry/sources/official/types.rs, registry/ops/install.rs,           *)
(* registry/curation): one row per server out of several versions, the     *)
(* connections a version offers, the one an install uses, and the          *)
(* credentials its form asks for.  Pure algorithms, checked against        *)
(* reference definitions over every listing of a few rows.                 *)
(*                                                                         *)
(* A version is a record; texts are left out but for the difference        *)
(* between a name and none.  An endpoint is what build_install_transport   *)
(* makes of its URL: "https", "refused", or "none".                        *)
(***************************************************************************)
EXTENDS Integers, FiniteSets, Sequences, SequencesExt

CONSTANTS
    Published,       \* versions that can be listed
    MaxRows         \* bound: rows of a listing

(* A version: [name, latest, deprecated : BOOLEAN, website : BOOLEAN,       *)
(*   remotes : Seq([url, headers, published]),                              *)
(*   packages : Seq([kind, hint, args, identifier, env, published])]        *)
(* (the official registry's are all published, Smithery's say).             *)
(* An input (a header or a variable): [name, secret].                       *)

ASSUME PublishedAssumption ==
    \A v \in Published : /\ v.remotes \in Seq(ToSet(v.remotes))
                         /\ v.packages \in Seq(ToSet(v.packages))

VARIABLE rows       \* OfficialListResponse::servers

Unnamed == ""
Named(inputs) == {i \in inputs : i.name # Unnamed}

\* is_installable and is_deprecated
Installable(v) == v.remotes # <<>> \/ v.packages # <<>>

Worthwhile(v) == Installable(v) /\ ~v.deprecated

\* The last version listed wins, marked or not.
KeepsCurrentNever(current) == FALSE

KeepsCurrent(current) == current.latest

\* into_summaries: the version chosen for each server, one row at a time.
Chosen(listing) ==
    LET Choose(chosen, v) ==
            IF ~Worthwhile(v) THEN chosen
            ELSE IF \E c \in chosen : c.name = v.name /\ KeepsCurrent(c) THEN chosen
            ELSE {c \in chosen : c.name # v.name} \cup {v}
    IN FoldLeft(Choose, {}, listing)

\* ... in the order of each server's first row worth keeping.
Order(listing) ==
    LET Note(order, v) ==
            IF Worthwhile(v) /\ v.name \notin {order[i] : i \in DOMAIN order}
            THEN Append(order, v.name) ELSE order
    IN FoldLeft(Note, <<>>, listing)

\* latest_version, over a server's own version list.
DetailVersion(versions) ==
    LET marked == SelectSeq(versions, LAMBDA v : v.latest)
    IN IF marked # <<>> THEN Head(marked) ELSE Head(versions)

\* declares_secret_credential
DeclaresSecret(v) ==
    \/ \E i \in DOMAIN v.remotes : \E h \in v.remotes[i].headers :
          h.secret \/ h.name = "Authorization"
    \/ \E i \in DOMAIN v.packages : \E e \in v.packages[i].env : e.secret

\* to_example_config: the launcher, its arguments, and the package's name.
ExampleConfig(p) ==
    LET launcher == IF p.hint # "none" THEN p.hint
                    ELSE IF p.kind = "pypi" THEN "uvx" ELSE "npx"
        yes == IF \/ p.kind = "npm" /\ p.args = <<>>
                  \/ p.kind \notin {"npm", "pypi"}
               THEN <<"-y">> ELSE <<>>
    IN <<launcher>> \o yes \o p.args \o <<p.identifier>>

\* into_detail: a connection for each endpoint, then one for each package.
Connections(v) ==
    LET Remote(r) == [type |-> "http", published |-> r.published, url |-> r.url,
                      inputs |-> Named(r.headers), launch |-> <<>>]
        Package(p) == [type |-> "stdio", published |-> p.published, url |-> "none",
                       inputs |-> Named(p.env), launch |-> ExampleConfig(p)]
    IN [i \in DOMAIN v.remotes |-> Remote(v.remotes[i])]
       \o [i \in DOMAIN v.packages |-> Package(v.packages[i])]

Hosted(c) == c.type \in {"http", "http_remote", "sse"}

\* A hosted endpoint is taken only when there is no package.
RankPackageFirst(c) == (IF Hosted(c) THEN 2 ELSE 0) + (IF c.published THEN 0 ELSE 1)

Rank(c) == (IF Hosted(c) THEN 0 ELSE 2) + (IF c.published THEN 0 ELSE 1)

\* pick_connection: four passes, each taking the first that fits.
Picked(connections) ==
    LET Pass(rank) == {i \in DOMAIN connections : Rank(connections[i]) = rank}
        FirstOf(S) == CHOOSE i \in S : \A j \in S : i <= j
        passes == {r \in 0 .. 3 : Pass(r) # {}}
    IN FirstOf(Pass(CHOOSE r \in passes : \A q \in passes : r <= q))

\* The names of every connection's inputs.
RequiredKeysOfAll(connections) ==
    UNION {{i.name : i \in connections[c].inputs} : c \in DOMAIN connections}

\* collect_required_env_keys
RequiredKeys(connections) == {i.name : i \in connections[Picked(connections)].inputs}

ShellFlags == {"-c", "--call"}
Interpreters == {"node", "python"}

\* validate_catalog_command, and the endpoint checks of
\* build_install_transport.
Accepted(c) ==
    IF Hosted(c) THEN c.url = "https"
    ELSE LET args == Tail(c.launch)
             words == SelectSeq(args, LAMBDA a : a \notin ShellFlags \cup {"-y"})
         IN /\ Head(c.launch) \in {"npx", "uvx", "bunx"}
            /\ \A i \in DOMAIN args : args[i] \notin ShellFlags
            /\ words = <<>> \/ Head(words) \notin Interpreters

\* is_perfect_server, over the row a version becomes.
Perfect(v) == v.website /\ DeclaresSecret(v)

----------------------------------------------------------------------------
ListingInit == rows = <<>>

\* The registry lists one more version.
ListVersion ==
    /\ Len(rows) < MaxRows
    /\ \E v \in Published : rows' = Append(rows, v)

ListingNext == ListVersion
ListingSpec == ListingInit /\ [][ListingNext]_rows

----------------------------------------------------------------------------
Marked(v) == v.latest

\* Of the first k rows, those of v's server that are worth keeping.
SameServer(v, k) == {j \in 1 .. k : rows[j].name = v.name /\ Worthwhile(rows[j])}

\* Row i is its server's one of the first k: the first marked, or else the last.
IsCurrent(i, k) ==
    /\ i \in SameServer(rows[i], k)
    /\ \/ Marked(rows[i]) /\ \A j \in SameServer(rows[i], k) : Marked(rows[j]) => i <= j
       \/ \A j \in SameServer(rows[i], k) : ~Marked(rows[j]) /\ j <= i

\* "The one the registry marks latest is kept; without that mark, the last
\* one listed is": each server with a row worth keeping has exactly one, and
\* it is the first marked one, or else the last.
OneRowPerServer ==
    /\ \A v, w \in Chosen(rows) : v.name = w.name => v = w
    /\ {v.name : v \in Chosen(rows)} = {Order(rows)[i] : i \in DOMAIN Order(rows)}
    /\ Chosen(rows) = {rows[i] : i \in {j \in DOMAIN rows : IsCurrent(j, Len(rows))}}

\* The order of the rows is that of the servers' first rows worth keeping,
\* whichever version was chosen in the end.
OrderIsOfFirstRows ==
    \A i, j \in DOMAIN Order(rows) :
        i < j => \E k \in DOMAIN rows :
                    /\ rows[k].name = Order(rows)[i] /\ Worthwhile(rows[k])
                    /\ \A m \in 1 .. k : rows[m].name = Order(rows)[j] => ~Worthwhile(rows[m])

\* "Must not demand the package's environment variables for an install that
\* connects over HTTP": a form asks only for named inputs of the connection
\* the install launches, and that is a hosted one if there is any.
AsksForWhatItUses ==
    \A v \in Chosen(rows) :
        LET cs == Connections(v)  picked == cs[Picked(cs)]
        IN /\ RequiredKeys(cs) \subseteq {i.name : i \in picked.inputs} \ {Unnamed}
           /\ (v.remotes # <<>>) = Hosted(picked)
           /\ \A i \in DOMAIN cs : Rank(cs[i]) = Rank(picked) => Picked(cs) <= i

ListingInv == OneRowPerServer /\ OrderIsOfFirstRows /\ AsksForWhatItUses

\* "Drops anything that cannot actually be installed".  Not so: a server with
\* an endpoint that is refused is listed, and the hosted endpoint is picked
\* even when a package could be launched.
ListedInstalls ==
    \A v \in Chosen(rows) : LET cs == Connections(v) IN Accepted(cs[Picked(cs)])

\* A row says "enough ... to be installed and connected without guessing".
\* Not so: a credential of the package makes the row perfect while the
\* install uses the endpoint, whose form asks for nothing.
PerfectAsksForItsKey ==
    \A v \in Chosen(rows) : Perfect(v) => RequiredKeys(Connections(v)) # {}

\* The row a user sees and the record an install reads are of one version.
\* Not so when no version is marked (the last one is listed, the first one is
\* installed) or the marked one is deprecated.
ShownIsInstalled ==
    \A v \in Chosen(rows) :
        DetailVersion(SelectSeq(rows, LAMBDA w : w.name = v.name)) = v

=============================================================================
