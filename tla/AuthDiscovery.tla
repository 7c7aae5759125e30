---------------------------- MODULE AuthDiscovery ----------------------------
(***************************************************************************)
(* What a 401 from a remote server means (transport/http/discovery.rs and  *)
(* the callers of it in transport/http/mod.rs and registry/oauth/flow.rs): *)
(* a sign-in, whose metadata is then named, or a static token.  A Bearer   *)
(* challenge that names no metadata has the client look for some in four   *)
(* places of the server's own origin, one fetch at a time.  The answer is  *)
(* kept for the client's life, unless a place could not be looked at.      *)
(*                                                                         *)
(* What the origin publishes does not change while it is looked at; `page` *)
(* reveals it one place at a time.  A document is what the lookup reads of *)
(* it, a missing, refused or odd one being Nothing.  Grant types are left  *)
(* out, and so are the addresses: the guard of public endpoints answers    *)
(* for the origin as it did when the client was built, or not at all.      *)
(***************************************************************************)
EXTENDS Naturals

CONSTANTS
    Users,         \* the calls that may be answered by a 401
    Publishable,   \* the documents an origin may publish
    NamedServers   \* the authorization servers a resource may name

Endpoints == {"authorize", "token", "register"}

Issuers == {"none", "own", "slash", "other"}

Documents ==
    [resource : {"none", "own", "other"}, names : SUBSET NamedServers,
     issuer : Issuers, has : SUBSET Endpoints]

Nothing == [resource |-> "none", names |-> {}, issuer |-> "none", has |-> {}]

\* A place that was not read yet.
Unread == [resource |-> "unread", names |-> {}, issuer |-> "none", has |-> {}]

ASSUME DiscoveryAssumption == Publishable \subseteq Documents /\ Nothing \in Publishable

VARIABLES
    start,    \* the first place of a lookup: the root, for an endpoint without a path
    page,     \* place -> what the origin publishes there, once it was read
    kept,     \* the outcome the client keeps
    walk,     \* user -> the lookup it is in, or NoWalk
    report   \* what the last 401 was taken for

discoveryVars == <<start, page, kept, walk, report>>

Places == {"path", "root", "rfc", "oidc"}

NoWalk == [at |-> "none"]

NotYet == [kind |-> "none"]

Unsure == [kind |-> "transient"]

NotFound == [kind |-> "notFound"]

DiscoveryInit ==
    /\ start \in {"path", "root"}
    /\ page = [p \in Places |-> Unread]
    /\ kept = NotYet
    /\ walk = [u \in Users |-> NoWalk]
    /\ report = [wants |-> "none"]

\* The issuer is the one asked for, with or without one trailing slash.
Fits(document) == document.issuer \in {"own", "slash"}

\* Nothing is filled in from the metadata of another issuer.
FillMissing(first, second) ==
    IF first.issuer = second.issuer
    THEN [first EXCEPT !.has = first.has \union second.has]
    ELSE first

\* The metadata of a named server: RFC 8414 first, OpenID where that is wrong
\* or has gaps.  Nothing stands for what could not be read, and is its result
\* when neither fits.
ReadServer(rfc, oidc) ==
    IF ~Fits(rfc)
    THEN IF Fits(oidc) THEN oidc ELSE Nothing
    ELSE IF Endpoints \subseteq rfc.has THEN rfc ELSE FillMissing(rfc, oidc)

\* What reading a server's metadata may come to.
ServerAnswers == {ReadServer(rfc, oidc) : rfc, oidc \in Publishable}

\* The servers of `names` that could be read.
ReadServers(names, answer) == {answer[n] : n \in names} \ {Nothing}

OffersSignIn(servers) ==
    \E server \in servers : {"authorize", "token"} \subseteq server.has

CanDriveSignIn(servers) ==
    \E server \in servers : Endpoints \subseteq server.has

\* A request that was answered 401, and the probe that asks what a server
\* wants before a sign-in.
Purposes == {"call", "detect"}

\* What a lookup that `found` something says to the one that asked.
Verdict(purpose, outcome) ==
    IF /\ outcome.kind = "found"
       /\ IF purpose = "call"
          THEN OffersSignIn(outcome.servers)
          ELSE CanDriveSignIn(outcome.servers)
    THEN [wants |-> "signIn", at |-> outcome.at]
    ELSE [wants |-> "static"]

\* A detect that got no 401.
NoChallenge(u) ==
    /\ walk[u] = NoWalk
    /\ report' = [wants |-> "open"]
    /\ UNCHANGED <<start, page, kept, walk>>

\* A challenge that settles it: it names its metadata (which a call reports
\* as it is, and a detect fetches), or is absent or not a Bearer one.
Challenged(u, purpose, names) ==
    /\ walk[u] = NoWalk
    /\ \E resource \in IF names /\ purpose = "detect" THEN Publishable ELSE {Nothing} :
       \E answer \in [resource.names -> ServerAnswers] :
           LET servers == ReadServers(resource.names, answer)
               signIn == names /\ (purpose = "call" \/ CanDriveSignIn(servers))
           IN  report' = IF signIn THEN [wants |-> "signIn", at |-> "challenge"]
                          ELSE [wants |-> "static"]
    /\ UNCHANGED <<start, page, kept, walk>>

\* A Bearer challenge without metadata: the kept outcome, or a lookup.
LookUp(u) ==
    /\ walk[u] = NoWalk
    /\ IF kept # NotYet
       THEN /\ \E purpose \in Purposes : report' = Verdict(purpose, kept)
            /\ UNCHANGED walk
       ELSE /\ walk' = [walk EXCEPT ![u] =
                   [at |-> start, transient |-> FALSE, resource |-> "none",
                    found |-> Nothing, foundAt |-> "none"]]
            /\ UNCHANGED report
    /\ UNCHANGED <<start, page, kept>>

\* A definitive outcome is kept; one that a retry may change is not.
Settle(u, outcome) ==
    /\ kept' = IF outcome = Unsure THEN kept ELSE outcome
    /\ \E purpose \in Purposes : report' = Verdict(purpose, outcome)
    /\ walk' = [walk EXCEPT ![u] = NoWalk]

\* The document at p, as it was or as it turns out to be.
Fetched(p, document) ==
    /\ document \in Publishable
    /\ page[p] \in {Unread, document}
    /\ page' = [page EXCEPT ![p] = document]
    /\ UNCHANGED start

NextPlace(place) == CASE place = "path" -> "root" [] place = "root" -> "rfc" [] place = "rfc" -> "oidc"

\* Mutant: the failures met on the way are forgotten.
LackingForGood(w) == NotFound

\* Nothing was found: for good, unless some place could not be looked at.
Lacking(w) == IF w.transient THEN Unsure ELSE NotFound

\* What the origin's own metadata says, under the name of the resource that
\* was published beside it.
Conclusion(w) ==
    IF w.found = Nothing
    THEN Lacking(w)
    ELSE [kind |-> "found", servers |-> {w.found},
          at |-> IF w.resource = "none" THEN w.foundAt ELSE w.resource]

\* The lookup goes on, or ends after its last place.
Proceed(u, w) ==
    IF w.at = "oidc"
    THEN Settle(u, Conclusion(w))
    ELSE /\ walk' = [walk EXCEPT ![u] = [w EXCEPT !.at = NextPlace(w.at)]]
         /\ UNCHANGED <<kept, report>>

\* One of the two places of protected-resource metadata answers.
ReadCandidate(u) ==
    LET w == walk[u] IN
    /\ w.at \in {"path", "root"}
    /\ \E document \in Publishable : \E answer \in [document.names -> ServerAnswers] :
           LET servers == ReadServers(document.names, answer)
               unreadable == \E n \in document.names : answer[n] = Nothing
           IN  /\ Fetched(w.at, document)
               /\ IF document.resource = "own"
                  THEN IF servers # {}
                       THEN Settle(u, [kind |-> "found", servers |-> servers, at |-> w.at])
                       ELSE Proceed(u, [w EXCEPT
                                !.transient = @ \/ unreadable,
                                !.resource = IF @ = "none" THEN w.at ELSE @])
                  ELSE IF Fits(document)
                  THEN Settle(u, [kind |-> "found", servers |-> {document}, at |-> w.at])
                  ELSE Proceed(u, w)

\* One of the two places of the origin's own authorization server answers.
ReadOrigin(u) ==
    LET w == walk[u] IN
    /\ w.at \in {"rfc", "oidc"}
    /\ \E document \in Publishable :
           LET found == IF ~Fits(document) THEN w.found
                        ELSE IF w.found = Nothing THEN document
                        ELSE FillMissing(w.found, document)
               next == [w EXCEPT !.found = found,
                                 !.foundAt = IF @ = "none" /\ Fits(document) THEN w.at ELSE @]
           IN  /\ Fetched(w.at, document)
               /\ IF Fits(document) /\ OffersSignIn({found})
                  THEN Settle(u, Conclusion(next))
                  ELSE Proceed(u, next)

\* A place that cannot be looked at: a transport failure, a name that does
\* not resolve, a 5xx.
Unreached(u) ==
    /\ walk[u] # NoWalk
    /\ Proceed(u, [walk[u] EXCEPT !.transient = TRUE])
    /\ UNCHANGED <<start, page>>

\* The lookup ran out of its budget.
OutOfTime(u) ==
    /\ walk[u] # NoWalk
    /\ Settle(u, Unsure)
    /\ UNCHANGED <<start, page>>

DiscoveryNext ==
    \E u \in Users :
        \/ NoChallenge(u)
        \/ \E purpose \in Purposes, names \in BOOLEAN : Challenged(u, purpose, names)
        \/ LookUp(u)
        \/ ReadCandidate(u)
        \/ ReadOrigin(u)
        \/ Unreached(u)
        \/ OutOfTime(u)

DiscoverySpec == DiscoveryInit /\ [][DiscoveryNext]_discoveryVars

-----------------------------------------------------------------------------

\* What the client keeps is an answer, and one that a document of its own
\* origin gave: a resource of that origin, or metadata whose issuer it is.
KeptIsOwn ==
    /\ kept.kind \in {"none", "notFound", "found"}
    /\ kept.kind = "found" =>
           /\ page[kept.at] # Unread
           /\ page[kept.at].resource = "own" \/ Fits(page[kept.at])
           /\ kept.servers # {} /\ \A server \in kept.servers : Fits(server)

\* The client gives up on a sign-in for good only when its origin publishes
\* none in any place: a lookup that a failure or a deadline cut short, or
\* that could not read a server the resource names, is never the last one.
NotFoundIsTrue ==
    kept = NotFound =>
        \A p \in Places \ (IF start = "root" THEN {"path"} ELSE {}) :
            /\ page[p] # Unread
            /\ IF p \in {"path", "root"} /\ page[p].resource = "own"
               THEN page[p].names = {}
               ELSE ~Fits(page[p])

\* A 401 is reported as a sign-in found on the origin only under the name of
\* a document of that origin.
ReportIsOwn ==
    report.wants = "signIn" /\ report.at # "challenge" =>
        page[report.at].resource = "own" \/ Fits(page[report.at])

DiscoveryInv == KeptIsOwn /\ NotFoundIsTrue /\ ReportIsOwn

\* What discovery.rs says of its cache: "A definitive answer is cached; a
\* transient one, including running out of DISCOVERY_BUDGET, is not, so a
\* later 401 looks again".  A lookup whose first place could not be reached
\* and that found something in a later one is kept all the same.
CutShortIsNotKept ==
    [][\A u \in Users :
           walk[u] # NoWalk /\ walk'[u] = NoWalk /\ walk[u].transient => kept' = kept]_discoveryVars

=============================================================================
