--------------------------- MODULE HostSideProofs ---------------------------
(***************************************************************************)
(* What a host drives, for any number of callers: the lookup that says     *)
(* whether a server wants a sign-in (AuthDiscovery), the sign-ins and      *)
(* refreshes of one server (OAuthFlow), and the clients of the directories *)
(* of a module (ClientLifecycle).                                          *)
(***************************************************************************)
EXTENDS AuthDiscovery, OAuthFlow, ClientLifecycle, DirectoriesProofs, FiniteSetTheorems, TLAPS

-----------------------------------------------------------------------------
(* AuthDiscovery: for any documents an origin may publish and any servers  *)
(* they may name.                                                          *)

\* The order in which the places are looked at.
Before(p) ==
    CASE p = "path" -> {}
      [] p = "root" -> {"path"}
      [] p = "rfc"  -> {"path", "root"}
      [] p = "oidc" -> {"path", "root", "rfc"}

\* The places a lookup goes to: an endpoint without a path starts at the root.
Visited == Places \ (IF start = "root" THEN {"path"} ELSE {})

\* A document that gives an answer, and a place that was read and offers none.
Answers(document) == document.resource = "own" \/ Fits(document)

Offers(p) == page[p] # Unread /\ Answers(page[p])

Barren(p) ==
    /\ page[p] # Unread
    /\ IF p \in {"path", "root"} /\ page[p].resource = "own"
       THEN page[p].names = {}
       ELSE ~Fits(page[p])

Walks ==
    [at : Places, transient : BOOLEAN, resource : {"none", "path", "root"},
     found : Documents, foundAt : {"none", "rfc", "oidc"}]

\* What a lookup knows on its way: what it holds was published where it says,
\* and a place it has passed without a failure offers nothing it does not hold.
WalkOwned(w) ==
    /\ w \in Walks /\ w.at \in Visited
    /\ w.resource # "none" => Offers(w.resource)
    /\ IF w.foundAt = "none" THEN w.found = Nothing
       ELSE Fits(w.found) /\ w.at = "oidc" /\ Offers(w.foundAt)
    /\ ~w.transient /\ w.foundAt = "none" =>
          \A p \in Before(w.at) \cap Visited : Barren(p)

\* The same just before it goes on to the next place.
Passed(w) ==
    /\ w \in Walks /\ w.at \in Visited
    /\ w.resource # "none" => Offers(w.resource)
    /\ IF w.foundAt = "none" THEN w.found = Nothing
       ELSE Fits(w.found) /\ w.at \in {"rfc", "oidc"} /\ Offers(w.foundAt)
    /\ ~w.transient /\ w.foundAt = "none" =>
          \A p \in (Before(w.at) \cup {w.at}) \cap Visited : Barren(p)

\* An outcome that a later lookup would only confirm.
Definite(outcome) ==
    \/ outcome = NotFound /\ \A p \in Visited : Barren(p)
    \/ /\ outcome.kind = "found" /\ outcome.at \in Places /\ Offers(outcome.at)
       /\ outcome.servers # {} /\ \A each \in outcome.servers : Fits(each)

Truthful(r) ==
    r.wants = "signIn" => r.at = "challenge" \/ (r.at \in Places /\ Offers(r.at))

DiscoveryOwned ==
    /\ start \in {"path", "root"}
    /\ page \in [Places -> Publishable \cup {Unread}]
    /\ walk = [u \in Users |-> walk[u]]
    /\ \A u \in Users : walk[u] = NoWalk \/ WalkOwned(walk[u])
    /\ kept = NotYet \/ Definite(kept)
    /\ Truthful(report)

\* What a step may do to what is known of the origin: add to it.
Grows ==
    /\ start' = start /\ page' \in [Places -> Publishable \cup {Unread}]
    /\ \A p \in Places : page[p] # Unread => page'[p] = page[p]

\* No document is mistaken for one that was not read.
LEMMA DocumentsAreRead ==
    /\ Unread \notin Publishable
    /\ \A document \in Publishable : document \in Documents
    /\ ~Fits(Nothing) /\ Nothing \in Publishable
BY DiscoveryAssumption DEF Unread, Documents, Fits, Nothing

\* Reading a place adds to what is known.
LEMMA FetchGrows ==
    ASSUME DiscoveryOwned, NEW p \in Places, NEW document, Fetched(p, document)
    PROVE  Grows /\ page'[p] = document /\ document \in Publishable
BY DocumentsAreRead DEF DiscoveryOwned, Fetched, Grows

LEMMA IdleGrows ==
    DiscoveryOwned /\ UNCHANGED <<start, page>> => Grows
BY DEF DiscoveryOwned, Grows

\* What was known stays known.
LEMMA KnownStays ==
    ASSUME Grows, NEW p \in Places
    PROVE  /\ Offers(p) => Offers(p)'
           /\ Barren(p) => Barren(p)'
           /\ Visited' = Visited /\ Visited \subseteq Places
BY DEF Grows, Offers, Barren, Answers, Visited

LEMMA DefiniteStays ==
    ASSUME Grows, NEW outcome, Definite(outcome) PROVE Definite(outcome)'
<1>1. CASE outcome = NotFound /\ \A p \in Visited : Barren(p)
  <2>1. \A p \in Visited' : Barren(p)'
    BY <1>1, KnownStays DEF Visited, Grows
  <2> QED
    BY <1>1, <2>1 DEF Definite
<1>2. CASE outcome.kind = "found"
  <2>1. outcome # NotFound
    BY <1>2 DEF NotFound
  <2>2. Offers(outcome.at)'
    BY <2>1, KnownStays DEF Definite
  <2> QED
    BY <1>2, <2>1, <2>2 DEF Definite, Fits
<1> QED
  BY <1>1, <1>2 DEF Definite

LEMMA WalkStays ==
    ASSUME Grows, NEW w, WalkOwned(w) PROVE WalkOwned(w)'
BY KnownStays DEF WalkOwned, Walks, Places

LEMMA TruthStays ==
    ASSUME Grows, NEW r, Truthful(r) PROVE Truthful(r)'
BY KnownStays DEF Truthful

\* A step of one lookup leaves the others as they are.
LEMMA OthersStay ==
    ASSUME DiscoveryOwned, Grows, NEW u \in Users, NEW next,
           next = NoWalk \/ WalkOwned(next)',
           walk' = [walk EXCEPT ![u] = next],
           kept' = NotYet \/ Definite(kept)', Truthful(report)'
    PROVE  DiscoveryOwned'
<1>1. ASSUME NEW v \in Users PROVE (walk[v] = NoWalk \/ WalkOwned(walk[v]))'
  <2>1. CASE v = u
    BY <2>1 DEF DiscoveryOwned, WalkOwned
  <2>2. CASE v # u
    <3>1. PICK w : w = walk[v]
      OBVIOUS
    <3>2. walk'[v] = w /\ (w = NoWalk \/ WalkOwned(w))
      BY <2>2, <3>1 DEF DiscoveryOwned
    <3>3. w = NoWalk \/ WalkOwned(w)'
      BY <3>2, WalkStays
    <3> QED
      BY <3>2, <3>3 DEF WalkOwned
  <2> QED
    BY <2>1, <2>2
<1>2. walk' = [v \in Users |-> walk'[v]]
  BY DEF DiscoveryOwned
<1> QED
  BY <1>1, <1>2 DEF DiscoveryOwned, Grows, Definite

\* What an outcome that holds something names, was published there.
LEMMA VerdictIsTruthful ==
    ASSUME NEW purpose, NEW outcome,
           outcome.kind = "found" => Definite(outcome)
    PROVE  Truthful(Verdict(purpose, outcome))
BY DEF Verdict, Truthful, Definite, NotFound

\* A lookup ends with an outcome that is definite or not kept.
LEMMA SettleKeeps ==
    ASSUME DiscoveryOwned, Grows, NEW u \in Users, NEW outcome,
           outcome = Unsure \/ Definite(outcome)', Settle(u, outcome)
    PROVE  DiscoveryOwned'
<1>1. PICK purpose \in Purposes : report' = Verdict(purpose, outcome)
  BY DEF Settle
<1>2. outcome.kind = "found" => Definite(outcome)'
  BY DEF Unsure
<1>3. Truthful(report)'
  BY <1>1, <1>2 DEF Verdict, Truthful, Definite, NotFound
<1>4. kept' = NotYet \/ Definite(kept)'
  <2>1. CASE outcome = Unsure
    <3>1. PICK o : o = kept
      OBVIOUS
    <3>2. kept' = o /\ (o = NotYet \/ Definite(o))
      BY <2>1, <3>1 DEF Settle, DiscoveryOwned
    <3> QED
      BY <3>2, DefiniteStays DEF Definite
  <2>2. CASE outcome # Unsure
    BY <2>2 DEF Settle, Definite
  <2> QED
    BY <2>1, <2>2
<1> QED
  BY <1>3, <1>4, OthersStay DEF Settle

\* A lookup that goes on takes what it knows along, and one that ends after its
\* last place has seen them all.
LEMMA ProceedKeeps ==
    ASSUME DiscoveryOwned, Grows, NEW u \in Users, NEW w, Passed(w)', Proceed(u, w)
    PROVE  DiscoveryOwned'
<1>1. CASE w.at = "oidc"
  <2>1. Settle(u, Conclusion(w))
    BY <1>1 DEF Proceed
  <2>2. CASE w.foundAt = "none"
    <3>1. Conclusion(w) = Lacking(w)
      BY <2>2 DEF Passed, Conclusion
    <3>2. CASE w.transient
      BY <2>1, <3>1, <3>2, SettleKeeps DEF Lacking
    <3>3. CASE ~w.transient
      <4>1. \A p \in Visited' : Barren(p)'
        BY <1>1, <2>2, <3>3 DEF Passed, Before, Visited, Places
      <4>2. Definite(NotFound)'
        BY <4>1 DEF Definite
      <4> QED
        BY <2>1, <3>1, <3>3, <4>2, SettleKeeps DEF Lacking
    <3> QED
      BY <3>2, <3>3
  <2>3. CASE w.foundAt # "none"
    <3>1. /\ Fits(w.found) /\ w.found # Nothing /\ Offers(w.foundAt)'
          /\ w.resource # "none" => Offers(w.resource)'
          /\ w.foundAt \in Places /\ w.resource \in Places \cup {"none"}
      BY <2>3, DocumentsAreRead DEF Passed, Walks, Places
    <3>2. Definite(Conclusion(w))'
      BY <3>1 DEF Conclusion, Definite
    <3> QED
      BY <2>1, <3>2, SettleKeeps
  <2> QED
    BY <2>2, <2>3
<1>2. CASE w.at # "oidc"
  <2> DEFINE next == [w EXCEPT !.at = NextPlace(w.at)]
  <2>1. walk' = [walk EXCEPT ![u] = next] /\ UNCHANGED <<kept, report>>
    BY <1>2 DEF Proceed
  <2>2. w \in Walks /\ w.at \in {"path", "root", "rfc"}
    BY <1>2 DEF Passed, Walks, Places
  <2>3. /\ next \in Walks /\ next.at = NextPlace(w.at)
        /\ next.transient = w.transient /\ next.resource = w.resource
        /\ next.found = w.found /\ next.foundAt = w.foundAt
        /\ NextPlace(w.at) \in {"root", "rfc", "oidc"}
    BY <2>2 DEF Walks, NextPlace, Places
  <2>4. Before(NextPlace(w.at)) = Before(w.at) \cup {w.at}
    BY <2>2 DEF Before, NextPlace
  <2>5. w.foundAt # "none" => NextPlace(w.at) = "oidc"
    BY <2>2 DEF Passed, NextPlace
  <2> HIDE DEF next
  <2>6. WalkOwned(next)'
    BY <2>3, <2>4, <2>5 DEF Passed, WalkOwned, Visited, Places
  <2>7. kept' = NotYet \/ Definite(kept)'
    <3>1. PICK o : o = kept
      OBVIOUS
    <3> QED
      BY <2>1, <3>1, DefiniteStays DEF DiscoveryOwned, Definite
  <2>8. Truthful(report)'
    <3>1. PICK r : r = report
      OBVIOUS
    <3> QED
      BY <2>1, <3>1, TruthStays DEF DiscoveryOwned, Truthful
  <2> QED
    BY <2>1, <2>6, <2>7, <2>8, OthersStay
<1> QED
  BY <1>1, <1>2

\* What the metadata of a server comes to when it was read: its own.
LEMMA AnswersFit ==
    ASSUME NEW answer \in ServerAnswers PROVE answer = Nothing \/ Fits(answer)
<1>1. PICK rfc \in Publishable, oidc \in Publishable : answer = ReadServer(rfc, oidc)
  BY DEF ServerAnswers
<1>2. Fits(rfc) => Fits(FillMissing(rfc, oidc))
  BY DEF FillMissing, Fits
<1> QED
  BY <1>1, <1>2 DEF ReadServer

\* One of the two places of protected-resource metadata answers.
LEMMA ReadCandidateKeeps ==
    ASSUME DiscoveryOwned, NEW u \in Users, ReadCandidate(u) PROVE DiscoveryOwned'
<1>1. PICK w : w = walk[u]
  OBVIOUS
<1>2. WalkOwned(w) /\ w.at \in {"path", "root"} /\ w \in Walks
  BY <1>1 DEF ReadCandidate, DiscoveryOwned, NoWalk, WalkOwned
<1>3. PICK document \in Publishable : \E answer \in [document.names -> ServerAnswers] :
           LET servers == ReadServers(document.names, answer)
               unreadable == \E n \in document.names : answer[n] = Nothing
           IN  /\ Fetched(w.at, document)
               /\ IF document.resource = "own"
                  THEN IF servers # {}
                       THEN Settle(u, [kind |-> "found", servers |-> servers, at |-> w.at])
                       ELSE Proceed(u, [w EXCEPT
                                !.transient = @ \/ unreadable,
                                !.resource = IF @ = "none" THEN w.at ELSE @])
                  ELSE IF Fits(document)
                  THEN Settle(u, [kind |-> "found", servers |-> {document}, at |-> w.at])
                  ELSE Proceed(u, w)
  BY <1>1 DEF ReadCandidate
<1>4. PICK answer \in [document.names -> ServerAnswers] :
           LET servers == ReadServers(document.names, answer)
               unreadable == \E n \in document.names : answer[n] = Nothing
           IN  /\ Fetched(w.at, document)
               /\ IF document.resource = "own"
                  THEN IF servers # {}
                       THEN Settle(u, [kind |-> "found", servers |-> servers, at |-> w.at])
                       ELSE Proceed(u, [w EXCEPT
                                !.transient = @ \/ unreadable,
                                !.resource = IF @ = "none" THEN w.at ELSE @])
                  ELSE IF Fits(document)
                  THEN Settle(u, [kind |-> "found", servers |-> {document}, at |-> w.at])
                  ELSE Proceed(u, w)
  BY <1>3
<1> DEFINE servers == ReadServers(document.names, answer)
           unreadable == \E n \in document.names : answer[n] = Nothing
<1>5. Grows /\ page'[w.at] = document /\ page'[w.at] # Unread /\ w.at \in Places
  BY <1>2, <1>4, FetchGrows, DocumentsAreRead DEF Places
<1>6. WalkOwned(w)'
  BY <1>2, <1>5, WalkStays
<1>7. \A each \in servers : Fits(each)
  BY AnswersFit DEF ReadServers
<1>8. servers = {} => unreadable \/ document.names = {}
  BY DEF ReadServers
<1>9. document.resource = "own" \/ Fits(document) => Offers(w.at)'
  BY <1>5 DEF Offers, Answers
<1>10. w.foundAt = "none" /\ w.at # "oidc" /\ w.at # "rfc"
  BY <1>2 DEF WalkOwned
<1>11. CASE document.resource = "own" /\ servers # {}
  <2> DEFINE outcome == [kind |-> "found", servers |-> servers, at |-> w.at]
  <2>1. Definite(outcome)'
    BY <1>5, <1>7, <1>9, <1>11 DEF Definite
  <2>2. Settle(u, outcome)
    BY <1>4, <1>11
  <2> HIDE DEF outcome
  <2> QED
    BY <1>5, <2>1, <2>2, SettleKeeps
<1>12. CASE document.resource = "own" /\ servers = {}
  <2> DEFINE next == [w EXCEPT !.transient = @ \/ unreadable,
                               !.resource = IF @ = "none" THEN w.at ELSE @]
  <2>1. Proceed(u, next)
    BY <1>4, <1>12
  <2>2. /\ next \in Walks /\ next.at = w.at /\ next.found = w.found
        /\ next.foundAt = w.foundAt /\ next.transient = (w.transient \/ unreadable)
        /\ next.resource = IF w.resource = "none" THEN w.at ELSE w.resource
    BY <1>2 DEF Walks
  <2>3. unreadable \/ Barren(w.at)'
    BY <1>2, <1>5, <1>8, <1>12 DEF Barren
  <2> HIDE DEF next, unreadable
  <2>4. Passed(next)'
    BY <1>6, <1>9, <1>10, <1>12, <2>2, <2>3 DEF Passed, WalkOwned
  <2> QED
    BY <1>5, <2>1, <2>4, ProceedKeeps
<1>13. CASE document.resource # "own" /\ Fits(document)
  <2> DEFINE outcome == [kind |-> "found", servers |-> {document}, at |-> w.at]
  <2>1. Definite(outcome)'
    BY <1>5, <1>9, <1>13 DEF Definite
  <2>2. Settle(u, outcome)
    BY <1>4, <1>13
  <2> HIDE DEF outcome
  <2> QED
    BY <1>5, <2>1, <2>2, SettleKeeps
<1>14. CASE document.resource # "own" /\ ~Fits(document)
  <2>1. Proceed(u, w)
    BY <1>4, <1>14
  <2>2. Barren(w.at)'
    BY <1>5, <1>14 DEF Barren, Fits
  <2>3. Passed(w)'
    BY <1>6, <1>10, <2>2 DEF Passed, WalkOwned
  <2> QED
    BY <1>5, <2>1, <2>3, ProceedKeeps
<1> QED
  BY <1>11, <1>12, <1>13, <1>14

\* One of the two places of the origin's own authorization server answers.
LEMMA ReadOriginKeeps ==
    ASSUME DiscoveryOwned, NEW u \in Users, ReadOrigin(u) PROVE DiscoveryOwned'
<1>1. PICK w : w = walk[u]
  OBVIOUS
<1>2. WalkOwned(w) /\ w.at \in {"rfc", "oidc"} /\ w \in Walks
  BY <1>1 DEF ReadOrigin, DiscoveryOwned, NoWalk, WalkOwned
<1>3. PICK document \in Publishable :
           LET found == IF ~Fits(document) THEN w.found
                        ELSE IF w.found = Nothing THEN document
                        ELSE FillMissing(w.found, document)
               next == [w EXCEPT !.found = found,
                                 !.foundAt = IF @ = "none" /\ Fits(document) THEN w.at ELSE @]
           IN  /\ Fetched(w.at, document)
               /\ IF Fits(document) /\ OffersSignIn({found})
                  THEN Settle(u, Conclusion(next))
                  ELSE Proceed(u, next)
  BY <1>1 DEF ReadOrigin
<1> DEFINE found == IF ~Fits(document) THEN w.found
                    ELSE IF w.found = Nothing THEN document
                    ELSE FillMissing(w.found, document)
           next == [w EXCEPT !.found = found,
                             !.foundAt = IF @ = "none" /\ Fits(document) THEN w.at ELSE @]
<1>4. Grows /\ page'[w.at] = document /\ page'[w.at] # Unread /\ w.at \in Places
  BY <1>2, <1>3, FetchGrows, DocumentsAreRead DEF Places
<1>5. WalkOwned(w)'
  BY <1>2, <1>4, WalkStays
<1>6. found \in Documents
  BY <1>2, DocumentsAreRead DEF Walks, Documents, FillMissing
<1>7. Fits(document) => Fits(found) /\ found # Nothing
  <2>1. w.found = Nothing \/ Fits(w.found)
    BY <1>2 DEF WalkOwned
  <2>2. Fits(document) => Fits(found)
    BY <2>1 DEF Fits, FillMissing
  <2> QED
    BY <2>2, DocumentsAreRead
<1>8. ~Fits(document) => found = w.found
  OBVIOUS
<1>9. Fits(document) => Offers(w.at)'
  BY <1>4 DEF Offers, Answers
<1> HIDE DEF found
<1>10. /\ next \in Walks /\ next.at = w.at /\ next.found = found
       /\ next.transient = w.transient /\ next.resource = w.resource
       /\ next.foundAt = IF w.foundAt = "none" /\ Fits(document) THEN w.at ELSE w.foundAt
  BY <1>2, <1>6 DEF Walks
<1>11. ~Fits(document) => Barren(w.at)'
  BY <1>2, <1>4 DEF Barren
<1>12. (Settle(u, Conclusion(next)) /\ Fits(document)) \/ Proceed(u, next)
  BY <1>3 DEF found
<1> HIDE DEF next
<1>13. Passed(next)'
  BY <1>2, <1>5, <1>7, <1>8, <1>9, <1>10, <1>11 DEF Passed, WalkOwned
<1>14. CASE Proceed(u, next)
  BY <1>4, <1>13, <1>14, ProceedKeeps
<1>15. CASE Settle(u, Conclusion(next)) /\ Fits(document)
  <2>1. /\ Fits(next.found) /\ next.found # Nothing
        /\ next.foundAt \in Places /\ Offers(next.foundAt)'
        /\ next.resource # "none" => next.resource \in Places /\ Offers(next.resource)'
    BY <1>7, <1>10, <1>13, <1>15, <1>2 DEF Passed, Walks, Places
  <2>2. Definite(Conclusion(next))'
    BY <2>1 DEF Conclusion, Definite
  <2> QED
    BY <1>4, <1>15, <2>2, SettleKeeps
<1> QED
  BY <1>12, <1>14, <1>15

\* The lookup that is begun knows nothing, and there is nothing before its place.
LEMMA LookUpKeeps ==
    ASSUME DiscoveryOwned, NEW u \in Users, LookUp(u) PROVE DiscoveryOwned'
<1>1. Grows
  BY IdleGrows DEF LookUp
<1>2. kept' = NotYet \/ Definite(kept)'
  <2>1. PICK o : o = kept
    OBVIOUS
  <2> QED
    BY <1>1, <2>1, DefiniteStays DEF DiscoveryOwned, Definite, LookUp
<1>3. CASE kept # NotYet
  <2>1. Truthful(report)'
    <3>1. PICK o : o = kept
      OBVIOUS
    <3>2. Definite(o)'
      BY <1>1, <1>3, <3>1, DefiniteStays DEF DiscoveryOwned
    <3>3. PICK purpose \in Purposes : report' = Verdict(purpose, o)
      BY <1>3, <3>1 DEF LookUp
    <3> QED
      BY <3>2, <3>3 DEF Verdict, Truthful, Definite, NotFound
  <2>2. walk' = walk
    BY <1>3 DEF LookUp
  <2>3. PICK w : w = walk[u]
    OBVIOUS
  <2>4. w = NoWalk \/ WalkOwned(w)'
    BY <1>1, <2>3, WalkStays DEF DiscoveryOwned
  <2>5. walk' = [walk EXCEPT ![u] = w]
    BY <2>2, <2>3 DEF DiscoveryOwned
  <2> QED
    BY <1>1, <1>2, <2>1, <2>4, <2>5, OthersStay
<1>4. CASE kept = NotYet
  <2>1. PICK w : w = [at |-> start, transient |-> FALSE, resource |-> "none",
                      found |-> Nothing, foundAt |-> "none"]
    OBVIOUS
  <2>2. walk' = [walk EXCEPT ![u] = w] /\ UNCHANGED <<start, page, report>>
    BY <1>4, <2>1 DEF LookUp
  <2>3. w \in Walks /\ start \in {"path", "root"}
    BY <2>1, DocumentsAreRead DEF Walks, DiscoveryOwned, Places
  <2>4. WalkOwned(w)'
    BY <2>1, <2>2, <2>3 DEF WalkOwned, Visited, Places, Before
  <2>5. Truthful(report)'
    <3>1. PICK r : r = report
      OBVIOUS
    <3> QED
      BY <1>1, <2>2, <3>1, TruthStays DEF DiscoveryOwned, Truthful
  <2> QED
    BY <1>1, <1>2, <2>2, <2>4, <2>5, OthersStay
<1> QED
  BY <1>3, <1>4

\* The origin published what the client keeps and what a 401 is reported as.
LEMMA OwnedIsDiscovered == DiscoveryOwned => DiscoveryInv
<1> SUFFICES ASSUME DiscoveryOwned PROVE DiscoveryInv
  OBVIOUS
<1>1. kept = NotYet \/ Definite(kept)
  BY DEF DiscoveryOwned
<1>2. KeptIsOwn
  BY <1>1 DEF KeptIsOwn, Definite, NotYet, NotFound, Offers, Answers
<1>3. NotFoundIsTrue
  BY <1>1 DEF NotFoundIsTrue, Definite, NotYet, NotFound, Visited, Barren
<1>4. ReportIsOwn
  BY DEF ReportIsOwn, DiscoveryOwned, Truthful, Offers, Answers
<1> QED
  BY <1>2, <1>3, <1>4 DEF DiscoveryInv

\* What the client keeps of a lookup was published by its own origin, it gives up
\* for good only on an origin that publishes nothing, and a 401 is reported as a
\* sign-in under the name of a document of that origin: for any number of calls
\* that look at the same time, and any documents.
\* (transport/http/discovery.rs:87-232)
THEOREM DiscoveryIsSound == DiscoverySpec => []DiscoveryInv
<1>1. DiscoveryInit => DiscoveryOwned
  BY DEF DiscoveryInit, DiscoveryOwned, Truthful, NotYet
<1>2. DiscoveryOwned /\ [DiscoveryNext]_discoveryVars => DiscoveryOwned'
  <2> SUFFICES ASSUME DiscoveryOwned, [DiscoveryNext]_discoveryVars
               PROVE  DiscoveryOwned'
    OBVIOUS
  <2>1. CASE UNCHANGED discoveryVars
    BY <2>1 DEF discoveryVars, DiscoveryOwned, WalkOwned, Definite, Truthful,
                Offers, Barren, Visited
  <2>2. ASSUME NEW u \in Users,
               NoChallenge(u) \/ \E purpose \in Purposes, names \in BOOLEAN :
                                     Challenged(u, purpose, names)
        PROVE  DiscoveryOwned'
    <3>1. Truthful(report)'
      BY <2>2 DEF NoChallenge, Challenged, Truthful
    <3>2. UNCHANGED <<start, page, kept, walk>>
      BY <2>2 DEF NoChallenge, Challenged
    <3> QED
      BY <3>1, <3>2 DEF DiscoveryOwned, WalkOwned, Definite, Offers, Barren, Visited
  <2>3. ASSUME NEW u \in Users, Unreached(u) PROVE DiscoveryOwned'
    <3>1. PICK w : w = walk[u]
      OBVIOUS
    <3>2. Grows /\ WalkOwned(w) /\ w \in Walks
      BY <2>3, <3>1, IdleGrows DEF Unreached, DiscoveryOwned, WalkOwned
    <3>3. WalkOwned(w)'
      BY <3>2, WalkStays
    <3> DEFINE next == [w EXCEPT !.transient = TRUE]
    <3>4. /\ next \in Walks /\ next.at = w.at /\ next.transient
          /\ next.resource = w.resource /\ next.found = w.found
          /\ next.foundAt = w.foundAt
      BY <3>2 DEF Walks
    <3>5. Proceed(u, next)
      BY <2>3, <3>1 DEF Unreached
    <3> HIDE DEF next
    <3>6. Passed(next)'
      BY <3>3, <3>4 DEF Passed, WalkOwned
    <3> QED
      BY <3>2, <3>5, <3>6, ProceedKeeps
  <2>4. ASSUME NEW u \in Users, OutOfTime(u) PROVE DiscoveryOwned'
    BY <2>4, IdleGrows, SettleKeeps DEF OutOfTime
  <2> QED
    BY <2>1, <2>2, <2>3, <2>4, LookUpKeeps, ReadCandidateKeeps, ReadOriginKeeps
       DEF DiscoveryNext
<1> QED
  BY <1>1, <1>2, OwnedIsDiscovered, PTL DEF DiscoverySpec

-----------------------------------------------------------------------------
(* OAuthFlow: for any number of callers, sign-ins and refreshes, and any    *)
(* skew that an access token outlasts.                                      *)

Credentials == [version : Nat, custom : 0..MaxEdits, bundle : Bundles \cup {Absent}]

TaskRecords ==
    [at : Steps, state : States \cup {Absent}, read : Credentials,
     tokens : Bundles \cup {Absent}, since : Nat, looked : Nat, refused : BOOLEAN]

\* What a caller carries from step to step.
Fitting(rec) ==
    /\ rec.at = "exchange" => rec.state \in States
    /\ rec.at \in {"superseded", "merge", "store"} => rec.tokens \in Bundles
    /\ rec.at \in {"refresh", "superseded"} => rec.read.bundle \in Bundles
    /\ rec.at = "refresh" => rec.read.bundle.refresh # 0
    /\ rec.at \in {"refresh", "superseded"} => rec.state = Absent
    /\ rec.at = "superseded" => rec.tokens.grant = rec.read.bundle.grant
    /\ rec.at = "edit" => rec.read.custom < MaxEdits

OAuthShapes ==
    /\ now \in 0..MaxNow
    /\ parked \in [States -> 0..MaxNow \cup {Absent}]
    /\ code \in [States -> {"none", "issued", "spent"}]
    /\ issued \in [States -> 0..MaxTokens]
    /\ rotates \in BOOLEAN
    /\ cred \in Credentials
    /\ task \in [Tasks -> TaskRecords]
    /\ posted \in [States -> Nat]
    /\ overdue \in BOOLEAN /\ missed \in BOOLEAN /\ stale \in BOOLEAN
    /\ \A t \in Tasks : Fitting(task[t])

Exchanging(t, s) == task[t].at = "exchange" /\ task[t].state = s

\* The code of a bundle's grant was posted.
SpentGrant(b) == b = Absent \/ code[b.grant] = "spent"

\* A code belongs to the authorization that is parked, then to the one caller that
\* took it, and is posted by that one; tokens are of a code that was posted.
CodesOwned ==
    /\ ~overdue
    /\ SpentGrant(cred.bundle)
    /\ \A t \in Tasks : SpentGrant(task[t].read.bundle) /\ SpentGrant(task[t].tokens)
    /\ \A s \in States :
          /\ code[s] = "none" =>
                parked[s] = Absent /\ issued[s] = 0
          /\ parked[s] # Absent => code[s] = "issued" /\ posted[s] = 0
          /\ code[s] # "spent" => posted[s] = 0 /\ issued[s] = 0
          /\ posted[s] <= 1
          /\ \A t \in Tasks : Exchanging(t, s) =>
                /\ code[s] = "issued" /\ parked[s] = Absent
                /\ \A u \in Tasks : Exchanging(u, s) => u = t

\* A map that was read and has the stored version is the stored map, and a refresh
\* whose look found the stored version has found its own grant there.
ReadRight(rec) ==
    /\ rec.at \in {"store", "edit"} =>
          /\ rec.read.version <= cred.version
          /\ rec.read.version = cred.version => rec.read = cred
    /\ rec.at \in {"merge", "store"} /\ rec.state = Absent =>
          /\ rec.looked <= cred.version
          /\ rec.looked = cred.version =>
                cred.bundle # Absent /\ cred.bundle.grant = rec.tokens.grant

ReadsOwned == \A t \in Tasks : ReadRight(task[t])

\* Tokens that were issued and are not stored yet.
Holding(t) == task[t].at \in {"superseded", "merge", "store"}

HoldsOf(t, g) == Holding(t) /\ task[t].tokens.grant = g

\* A bundle whose grant the server knows, with a refresh token that may be one of
\* an earlier answer.
Known(b) ==
    /\ code[b.grant] = "spent"
    /\ IF rotates THEN b.refresh <= issued[b.grant]
       ELSE b.refresh = 0 <=> issued[b.grant] = 0

\* The refresh token of b is the last one.
Newest(b) == IF rotates THEN b.refresh = issued[b.grant] ELSE Known(b)

\* While nothing was missed, the newest token of a grant is in one place: with the
\* one caller that holds it, or else in the stored map and what was read of it.
StoredOwned ==
    cred.bundle # Absent =>
        /\ Known(cred.bundle)
        /\ (\A t \in Tasks : ~HoldsOf(t, cred.bundle.grant)) => Newest(cred.bundle)

Alike(b, c) == b.grant = c.grant /\ b.refresh = c.refresh

ReaderOwned(t) ==
    task[t].at = "refresh" =>
        /\ Known(task[t].read.bundle)
        /\ rotates /\ cred.bundle # Absent /\ Alike(cred.bundle, task[t].read.bundle)
              => cred.bundle = task[t].read.bundle

\* A bundle of the same grant that is not the newest.
Older(b, g) == b.grant = g => b.refresh # issued[g]

HolderOwned(t) ==
    Holding(t) =>
        /\ Known(task[t].tokens) /\ Newest(task[t].tokens)
        /\ rotates =>
           /\ \A u \in Tasks : HoldsOf(u, task[t].tokens.grant) => u = t
           /\ cred.bundle # Absent =>
                 /\ Older(cred.bundle, task[t].tokens.grant)
                 /\ cred.bundle.grant = task[t].tokens.grant /\ task[t].at = "superseded"
                       => cred.bundle = task[t].read.bundle
           /\ \A u \in Tasks : task[u].at = "refresh" =>
                 Older(task[u].read.bundle, task[t].tokens.grant)

GrantsOwned == StoredOwned /\ \A t \in Tasks : ReaderOwned(t) /\ HolderOwned(t)

\* Where a caller holds tokens that are not stored, and a caller that connects, as
\* long as it has not dialled.
Held == {"superseded", "merge", "store"}

Connecting(rec) ==
    rec.at \in {"refresh", "dial"} \/ (rec.at \in Held /\ rec.state = Absent)

\* What is stored lasts as long as it says, and as long as a caller that has looked
\* at it may take to dial, unless that caller has a refresh to make first.
FreshRight(rec) ==
    /\ rec.at \in Held => rec.tokens.until = now + Lifetime
    /\ Connecting(rec) => rec.since <= now /\ now <= rec.since + Skew
    /\ rec.at \in {"refresh", "superseded"} /\ cred.bundle # Absent =>
          cred.bundle = rec.read.bundle \/ cred.bundle.until > rec.since + Skew
    /\ rec.at = "dial" /\ ~rec.refused /\ cred.bundle # Absent /\ cred.bundle.refresh # 0 =>
          cred.bundle.until > rec.since + Skew

FreshOwned ==
    /\ ~stale
    /\ cred.bundle # Absent => cred.bundle.until = cred.bundle.expires
    /\ \A t \in Tasks : FreshRight(task[t])

\* What holds whatever the skew, and with tokens that outlast it.
SignInOwned ==
    OAuthShapes /\ CodesOwned /\ ReadsOwned /\ (~missed => GrantsOwned)

OAuthOwned == SignInOwned /\ (~missed => FreshOwned)

\* A caller's record changes, and the others stay as they are.
LEMMA GoesKeepsTasks ==
    ASSUME task \in [Tasks -> TaskRecords], NEW t \in Tasks, NEW rec, Goes(t, rec)
    PROVE  /\ task'[t] = rec
           /\ \A u \in Tasks : u # t => task'[u] = task[u]
           /\ rec \in TaskRecords => task' \in [Tasks -> TaskRecords]
BY DEF Goes

LEMMA RestingShape ==
    /\ Resting \in TaskRecords /\ Fitting(Resting) /\ Resting.at = "idle"
    /\ NoCredentials \in Credentials
BY OAuthAssumption DEF Resting, TaskRecords, Fitting, Steps, NoCredentials, Credentials

\* A step that gives one caller a record of the right shape.
LEMMA GoesKeepsShape ==
    ASSUME OAuthShapes, NEW t \in Tasks, NEW rec \in TaskRecords, Fitting(rec), Goes(t, rec)
    PROVE  task' \in [Tasks -> TaskRecords] /\ \A u \in Tasks : Fitting(task'[u])
BY GoesKeepsTasks DEF OAuthShapes

LEMMA RestsKeepsShape ==
    ASSUME OAuthShapes, NEW t \in Tasks, Rests(t)
    PROVE  task' \in [Tasks -> TaskRecords] /\ \A u \in Tasks : Fitting(task'[u])
BY RestingShape, GoesKeepsShape DEF Rests

LEMMA DialsKeepsShape ==
    ASSUME OAuthShapes, NEW t \in Tasks, NEW refused \in BOOLEAN, Dials(t, refused)
    PROVE  task' \in [Tasks -> TaskRecords] /\ \A u \in Tasks : Fitting(task'[u])
<1>1. task[t] \in TaskRecords
  BY DEF OAuthShapes
<1> DEFINE rec == [Resting EXCEPT !.at = "dial", !.since = task[t].since, !.refused = refused]
<1>2. rec \in TaskRecords /\ Fitting(rec)
  BY <1>1, RestingShape DEF TaskRecords, Steps, Fitting
<1> QED
  BY <1>2, GoesKeepsShape DEF Dials

\* What a caller knows keeps its shape through every step.
LEMMA ShapesInductive == OAuthShapes /\ [OAuthNext]_oauthVars => OAuthShapes'
<1> SUFFICES ASSUME OAuthShapes, [OAuthNext]_oauthVars PROVE OAuthShapes'
  OBVIOUS
<1> USE OAuthAssumption DEF server, history
<1> DEFINE TasksFit == task' \in [Tasks -> TaskRecords] /\ \A u \in Tasks : Fitting(task'[u])
<1>1. CASE UNCHANGED oauthVars
  BY <1>1 DEF oauthVars, OAuthShapes
<1>2. ASSUME NEW t \in Tasks, BeginSignIn(t) PROVE OAuthShapes'
  <2>1. [task[t] EXCEPT !.at = "begin"] \in TaskRecords /\ Fitting([task[t] EXCEPT !.at = "begin"])
    BY DEF OAuthShapes, TaskRecords, Steps, Fitting
  <2>2. TasksFit
    BY <1>2, <2>1, GoesKeepsShape DEF BeginSignIn, StepsTo
  <2> QED
    BY <1>2, <2>2 DEF BeginSignIn, OAuthShapes
<1>3. ASSUME NEW t \in Tasks, BeginFails(t) PROVE OAuthShapes'
  BY <1>3, RestsKeepsShape DEF BeginFails, OAuthShapes
<1>4. ASSUME NEW t \in Tasks, Park(t) PROVE OAuthShapes'
  <2>1. TasksFit
    BY <1>4, RestsKeepsShape DEF Park
  <2> QED
    BY <1>4, <2>1 DEF Park, OAuthShapes
<1>5. ASSUME NEW t \in Tasks, Take(t) PROVE OAuthShapes'
  <2>1. PICK s \in States :
        /\ AtStep(t, "idle") /\ code[s] # "none"
        /\ Pruned(Taken(s), parked')
        /\ IF Usable(parked[s])
           THEN /\ Goes(t, [Resting EXCEPT !.at = "exchange", !.state = s])
                /\ overdue' = (overdue \/ now - parked[s] > Ttl)
           ELSE UNCHANGED <<task, overdue>>
        /\ UNCHANGED <<now, server, cred, posted, missed, stale>>
    BY <1>5 DEF Take
  <2>2. [Resting EXCEPT !.at = "exchange", !.state = s] \in TaskRecords
        /\ Fitting([Resting EXCEPT !.at = "exchange", !.state = s])
    BY RestingShape DEF TaskRecords, Steps, Fitting
  <2>3. TasksFit /\ overdue' \in BOOLEAN
    BY <2>1, <2>2, GoesKeepsShape DEF OAuthShapes
  <2>4. parked' \in [States -> 0..MaxNow \cup {Absent}]
    BY <2>1 DEF Pruned, Taken, OAuthShapes
  <2> QED
    BY <2>1, <2>3, <2>4 DEF OAuthShapes
<1>6. ASSUME NEW t \in Tasks, Exchange(t) PROVE OAuthShapes'
  <2> DEFINE s == task[t].state
  <2>1. s \in States /\ task[t] \in TaskRecords
    BY <1>6 DEF Exchange, AtStep, OAuthShapes, Fitting
  <2>2. /\ posted' \in [States -> Nat]
        /\ code' \in [States -> {"none", "issued", "spent"}]
        /\ UNCHANGED <<now, parked, rotates, cred, overdue, missed, stale>>
    BY <1>6, <2>1 DEF Exchange, OAuthShapes
  <2>3. ASSUME NEW refresh \in {0, 1}, issued' = [issued EXCEPT ![s] = refresh],
               Goes(t, [task[t] EXCEPT !.at = "merge", !.tokens = Issue(s, refresh)])
        PROVE  TasksFit /\ issued' \in [States -> 0..MaxTokens]
    <3>1. Issue(s, refresh) \in Bundles
      BY <2>1 DEF Issue, Bundles, OAuthShapes
    <3> DEFINE rec == [task[t] EXCEPT !.at = "merge", !.tokens = Issue(s, refresh)]
    <3>2. rec \in TaskRecords /\ rec.at = "merge" /\ rec.tokens = Issue(s, refresh)
      BY <2>1, <3>1 DEF TaskRecords, Steps
    <3> HIDE DEF rec
    <3>3. Fitting(rec)
      BY <3>1, <3>2 DEF Fitting
    <3>4. TasksFit
      BY <2>3, <3>2, <3>3, GoesKeepsShape DEF rec
    <3> QED
      BY <2>1, <2>3, <3>4 DEF OAuthShapes
  <2>4. TasksFit /\ issued' \in [States -> 0..MaxTokens]
    BY <1>6, <2>3, RestsKeepsShape DEF Exchange, OAuthShapes
  <2> QED
    BY <2>2, <2>4 DEF OAuthShapes
<1>7. ASSUME NEW t \in Tasks, Merge(t) PROVE OAuthShapes'
  <2> DEFINE rec == [task[t] EXCEPT !.at = "store", !.read = cred]
  <2>1. /\ rec \in TaskRecords /\ rec.at = "store" /\ rec.tokens \in Bundles
    BY <1>7 DEF OAuthShapes, Merge, AtStep, TaskRecords, Steps, Fitting
  <2>2. Goes(t, rec)
    BY <1>7 DEF Merge
  <2> HIDE DEF rec
  <2>3. TasksFit
    BY <2>1, <2>2, GoesKeepsShape DEF Fitting
  <2> QED
    BY <1>7, <2>3 DEF Merge, OAuthShapes
<1>8. ASSUME NEW t \in Tasks, StoreTokens(t) PROVE OAuthShapes'
  <2>1. task[t] \in TaskRecords /\ task[t].tokens \in Bundles
    BY <1>8 DEF StoreTokens, AtStep, OAuthShapes, Fitting
  <2>2. TasksFit
    BY <1>8, RestsKeepsShape, DialsKeepsShape DEF StoreTokens, AfterStore
  <2>3. cred' \in Credentials /\ missed' \in BOOLEAN
    <3> DEFINE b == [task[t].tokens EXCEPT !.expires = now + Lifetime]
    <3>1. b \in Bundles
      BY <2>1 DEF Bundles, OAuthShapes
    <3>2. cred' = [task[t].read EXCEPT !.version = cred.version + 1, !.bundle = b] \/ cred' = cred
      BY <1>8 DEF StoreTokens
    <3>3. task[t].read \in Credentials
      BY <2>1 DEF TaskRecords
    <3> HIDE DEF b
    <3>4. cred \in Credentials /\ cred.version + 1 \in Nat
      BY DEF OAuthShapes, Credentials
    <3>5. cred' \in Credentials
      BY <3>1, <3>2, <3>3, <3>4 DEF Credentials
    <3> QED
      BY <1>8, <3>5 DEF StoreTokens, OAuthShapes
  <2> QED
    BY <1>8, <2>2, <2>3 DEF StoreTokens, OAuthShapes
<1>9. ASSUME NEW t \in Tasks, BeginConnect(t) PROVE OAuthShapes'
  <2>1. cred.bundle \in Bundles /\ cred \in Credentials /\ now \in Nat
    BY <1>9 DEF BeginConnect, OAuthShapes, Credentials
  <2>2. ASSUME Due(cred.bundle)
        PROVE  /\ [Resting EXCEPT !.at = "refresh", !.read = cred, !.since = now] \in TaskRecords
               /\ Fitting([Resting EXCEPT !.at = "refresh", !.read = cred, !.since = now])
    <3> DEFINE rec == [Resting EXCEPT !.at = "refresh", !.read = cred, !.since = now]
    <3>1. /\ rec \in TaskRecords /\ rec.at = "refresh" /\ rec.read = cred
          /\ rec.state = Absent
      BY <2>1, RestingShape DEF TaskRecords, Steps, Resting
    <3> HIDE DEF rec
    <3>2. Fitting(rec)
      BY <2>1, <2>2, <3>1 DEF Fitting, Due
    <3> QED
      BY <3>1, <3>2 DEF rec
  <2>3. ASSUME NEW refused \in BOOLEAN
        PROVE  /\ [Resting EXCEPT !.at = "dial", !.refused = refused, !.since = now] \in TaskRecords
               /\ Fitting([Resting EXCEPT !.at = "dial", !.refused = refused, !.since = now])
    BY <2>1, RestingShape DEF TaskRecords, Steps, Fitting
  <2>4. /\ [Resting EXCEPT !.at = "dial", !.since = now] \in TaskRecords
        /\ Fitting([Resting EXCEPT !.at = "dial", !.since = now])
    BY <2>1, RestingShape DEF TaskRecords, Steps, Fitting
  <2>5. TasksFit
    BY <1>9, <2>2, <2>3, <2>4, GoesKeepsShape DEF BeginConnect
  <2> QED
    BY <1>9, <2>5 DEF BeginConnect, OAuthShapes
<1>10. ASSUME NEW t \in Tasks, Refresh(t) PROVE OAuthShapes'
  <2> DEFINE b    == task[t].read.bundle
             next == IF rotates THEN issued[b.grant] + 1 ELSE 0
             new  == Keeping(Issue(b.grant, next), b)
             rec  == [task[t] EXCEPT !.at = "superseded", !.tokens = new]
  <2>1. task[t] \in TaskRecords /\ b \in Bundles /\ task[t].state = Absent
    BY <1>10 DEF Refresh, AtStep, OAuthShapes, Fitting
  <2>2. /\ UNCHANGED <<now, parked, code, rotates, cred, posted, overdue, stale>>
        /\ missed' \in BOOLEAN
    BY <1>10 DEF Refresh, OAuthShapes
  <2>3. b.grant \in States /\ issued[b.grant] \in 0..MaxTokens
    BY <2>1 DEF Bundles, OAuthShapes
  <2>4. issued' \in [States -> 0..MaxTokens]
    <3>1. CASE issued' = issued
      BY <3>1 DEF OAuthShapes
    <3>2. CASE next <= MaxTokens /\ issued' = [issued EXCEPT ![b.grant] = IF rotates THEN next ELSE @]
      BY <2>3, <3>2 DEF OAuthShapes
    <3> QED
      BY <1>10, <3>1, <3>2 DEF Refresh
  <2>5. ASSUME next <= MaxTokens PROVE rec \in TaskRecords /\ Fitting(rec)
    <3>1. next \in 0..MaxTokens
      BY <2>3, <2>5
    <3>2. Issue(b.grant, next) \in Bundles
      BY <2>3, <3>1 DEF Issue, Bundles, OAuthShapes
    <3>3. new \in Bundles /\ new.grant = b.grant
      BY <2>1, <3>2 DEF Keeping, Bundles, Issue
    <3> HIDE DEF new
    <3>4. rec \in TaskRecords /\ rec.at = "superseded" /\ rec.tokens = new
          /\ rec.read = task[t].read /\ rec.state = task[t].state
      BY <2>1, <3>3 DEF TaskRecords, Steps
    <3> QED
      BY <2>1, <3>3, <3>4 DEF Fitting
  <2>6. TasksFit
    <3>1. CASE next <= MaxTokens /\ Goes(t, rec)
      BY <2>5, <3>1, GoesKeepsShape
    <3>2. CASE Dials(t, TRUE)
      BY <3>2, DialsKeepsShape
    <3> QED
      BY <1>10, <3>1, <3>2 DEF Refresh
  <2> QED
    BY <2>2, <2>4, <2>6 DEF OAuthShapes
<1>11. ASSUME NEW t \in Tasks, Superseded(t) PROVE OAuthShapes'
  <2> DEFINE rec == [task[t] EXCEPT !.at = "merge", !.looked = cred.version,
                                    !.read = NoCredentials]
  <2>1. task[t] \in TaskRecords /\ task[t].tokens \in Bundles /\ cred \in Credentials
    BY <1>11 DEF Superseded, AtStep, OAuthShapes, Fitting
  <2>2. rec \in TaskRecords /\ rec.at = "merge" /\ rec.tokens = task[t].tokens
    BY <2>1, RestingShape DEF TaskRecords, Steps, Credentials
  <2>3. Goes(t, rec) \/ Dials(t, FALSE) \/ Dials(t, TRUE)
    BY <1>11 DEF Superseded
  <2> HIDE DEF rec
  <2>4. Fitting(rec)
    BY <2>1, <2>2 DEF Fitting
  <2>5. TasksFit
    BY <2>2, <2>3, <2>4, GoesKeepsShape, DialsKeepsShape
  <2> QED
    BY <1>11, <2>5 DEF Superseded, OAuthShapes
<1>12. ASSUME NEW t \in Tasks, Dial(t) PROVE OAuthShapes'
  BY <1>12, RestsKeepsShape DEF Dial, OAuthShapes
<1>13. ASSUME NEW t \in Tasks, BeginEdit(t) PROVE OAuthShapes'
  <2> DEFINE rec == [Resting EXCEPT !.at = "edit", !.read = cred]
  <2>1. rec \in TaskRecords /\ rec.at = "edit" /\ rec.read = cred
    BY RestingShape DEF TaskRecords, Steps, OAuthShapes
  <2>2. Goes(t, rec) /\ cred.custom < MaxEdits
    BY <1>13 DEF BeginEdit
  <2> HIDE DEF rec
  <2>3. TasksFit
    BY <2>1, <2>2, GoesKeepsShape DEF Fitting
  <2> QED
    BY <1>13, <2>3 DEF BeginEdit, OAuthShapes
<1>14. ASSUME NEW t \in Tasks, Edit(t) PROVE OAuthShapes'
  <2>1. task[t].read \in Credentials /\ task[t].read.custom < MaxEdits
    BY <1>14 DEF Edit, AtStep, OAuthShapes, Fitting, TaskRecords
  <2>2. cred' \in Credentials
    <3> DEFINE read == task[t].read
    <3>1. /\ cred' = [read EXCEPT !.version = cred.version + 1, !.custom = @ + 1]
          /\ cred.version + 1 \in Nat
      BY <1>14 DEF Edit, OAuthShapes, Credentials
    <3>2. read \in Credentials /\ read.custom + 1 \in 0..MaxEdits
      BY <2>1 DEF Credentials
    <3> HIDE DEF read
    <3> QED
      BY <3>1, <3>2 DEF Credentials
  <2>3. TasksFit
    BY <1>14, RestsKeepsShape DEF Edit
  <2> QED
    BY <1>14, <2>2, <2>3 DEF Edit, OAuthShapes
<1>15. CASE ClockTick
  BY <1>15 DEF ClockTick, OAuthShapes
<1> QED
  BY <1>1, <1>2, <1>3, <1>4, <1>5, <1>6, <1>7, <1>8, <1>9, <1>10, <1>11, <1>12,
     <1>13, <1>14, <1>15 DEF OAuthNext

\* A step that leaves the codes alone.
LEMMA CodesStay ==
    ASSUME OAuthShapes, CodesOwned, NEW t \in Tasks, NEW rec, Goes(t, rec),
           rec.at # "exchange",
           SpentGrant(rec.read.bundle), SpentGrant(rec.tokens), SpentGrant(cred.bundle)',
           UNCHANGED <<code, parked, posted, overdue>>,
           \A s \in States : code[s] # "spent" => issued'[s] = issued[s]
    PROVE  CodesOwned'
<1>1. task'[t] = rec /\ \A u \in Tasks : u # t => task'[u] = task[u]
  BY GoesKeepsTasks DEF OAuthShapes
<1>2. ASSUME NEW u \in Tasks
      PROVE  SpentGrant(task[u].read.bundle)' /\ SpentGrant(task[u].tokens)'
  BY <1>1, <1>2 DEF CodesOwned, SpentGrant
<1>3. \A u \in Tasks, s \in States : Exchanging(u, s)' => Exchanging(u, s)
  BY <1>1 DEF Exchanging
<1>4. ASSUME NEW s \in States
      PROVE  /\ code'[s] = "none" => parked'[s] = Absent /\ issued'[s] = 0
             /\ parked'[s] # Absent => code'[s] = "issued" /\ posted'[s] = 0
             /\ code'[s] # "spent" => posted'[s] = 0 /\ issued'[s] = 0
             /\ posted'[s] <= 1
  BY <1>4 DEF CodesOwned
<1>5. ASSUME NEW s \in States, NEW u \in Tasks, Exchanging(u, s)'
      PROVE  /\ code'[s] = "issued" /\ parked'[s] = Absent
             /\ \A v \in Tasks : Exchanging(v, s)' => v = u
  BY <1>3, <1>5 DEF CodesOwned
<1> QED
  BY <1>2, <1>4, <1>5 DEF CodesOwned

LEMMA RestingSpends ==
    /\ Resting.at # "exchange" /\ Resting.tokens = Absent
    /\ Resting.read.bundle = Absent
BY DEF Resting, NoCredentials

LEMMA CodesInductive ==
    OAuthShapes /\ CodesOwned /\ [OAuthNext]_oauthVars => CodesOwned'
<1> SUFFICES ASSUME OAuthShapes, CodesOwned, [OAuthNext]_oauthVars PROVE CodesOwned'
  OBVIOUS
<1> USE OAuthAssumption DEF server, history
<1>1. /\ SpentGrant(cred.bundle)
      /\ \A t \in Tasks : SpentGrant(task[t].read.bundle) /\ SpentGrant(task[t].tokens)
      /\ \A t \in Tasks : task[t] \in TaskRecords
  BY DEF CodesOwned, OAuthShapes
<1>2. ASSUME NEW t \in Tasks, Rests(t), SpentGrant(cred.bundle)',
             UNCHANGED <<code, parked, posted, overdue, issued>>
      PROVE  CodesOwned'
  BY <1>2, CodesStay, RestingSpends DEF Rests, SpentGrant
<1>3. ASSUME NEW t \in Tasks, NEW refused, Dials(t, refused), SpentGrant(cred.bundle)',
             UNCHANGED <<code, parked, posted, overdue>>,
             \A s \in States : code[s] # "spent" => issued'[s] = issued[s]
      PROVE  CodesOwned'
  <2> DEFINE rec == [Resting EXCEPT !.at = "dial", !.since = task[t].since, !.refused = refused]
  <2>1. rec.at = "dial" /\ rec.tokens = Absent /\ rec.read.bundle = Absent
    BY DEF Resting, NoCredentials
  <2>2. Goes(t, rec)
    BY <1>3 DEF Dials
  <2> HIDE DEF rec
  <2>3. SpentGrant(rec.read.bundle) /\ SpentGrant(rec.tokens)
    BY <2>1 DEF SpentGrant
  <2> QED
    BY <1>3, <2>1, <2>2, <2>3, CodesStay
<1>4. ASSUME NEW t \in Tasks, BeginSignIn(t) PROVE CodesOwned'
  <2> DEFINE rec == [task[t] EXCEPT !.at = "begin"]
  <2>1. rec.at = "begin" /\ rec.read = task[t].read /\ rec.tokens = task[t].tokens
    BY <1>1 DEF TaskRecords
  <2>2. Goes(t, rec) /\ UNCHANGED <<code, parked, posted, overdue, issued, cred>>
    BY <1>4 DEF BeginSignIn, StepsTo
  <2> HIDE DEF rec
  <2> QED
    BY <1>1, <2>1, <2>2, CodesStay DEF SpentGrant
<1>5. ASSUME NEW t \in Tasks, BeginFails(t) \/ Dial(t) \/ Edit(t) PROVE CodesOwned'
  <2>1. Rests(t) /\ UNCHANGED <<code, parked, posted, overdue, issued>>
    BY <1>5 DEF BeginFails, Dial, Edit
  <2>2. cred'.bundle = cred.bundle \/ cred'.bundle = task[t].read.bundle
    BY <1>1, <1>5 DEF BeginFails, Dial, Edit, TaskRecords, Credentials
  <2>3. SpentGrant(cred.bundle)'
    BY <1>1, <2>1, <2>2 DEF SpentGrant
  <2> QED
    BY <1>2, <2>1, <2>3
<1>6. ASSUME NEW t \in Tasks, Park(t) PROVE CodesOwned'
  <2>1. PICK s \in States :
          /\ code[s] = "none"
          /\ parked' = [parked EXCEPT ![s] = now]
          /\ code' = [code EXCEPT ![s] = "issued"]
    BY <1>6 DEF Park
  <2>2. Rests(t) /\ UNCHANGED <<issued, rotates, cred, posted, overdue>>
    BY <1>6 DEF Park
  <2>3. task'[t] = Resting /\ \A u \in Tasks : u # t => task'[u] = task[u]
    BY <2>2, GoesKeepsTasks DEF Rests, OAuthShapes
  <2>4. \A u \in Tasks, x \in States : Exchanging(u, x)' => Exchanging(u, x)
    BY <2>3, RestingSpends DEF Exchanging
  <2>5. \A x \in States : x # s => code'[x] = code[x] /\ parked'[x] = parked[x]
    BY <2>1 DEF OAuthShapes
  <2>6. code'[s] = "issued" /\ posted[s] = 0 /\ issued[s] = 0
        /\ \A u \in Tasks : ~Exchanging(u, s)
    BY <2>1 DEF CodesOwned, OAuthShapes
  <2>7. ASSUME NEW b, SpentGrant(b), b = Absent \/ b.grant \in States PROVE SpentGrant(b)'
    BY <2>1, <2>5, <2>7 DEF SpentGrant
  <2>8. \A u \in Tasks : SpentGrant(task[u].read.bundle)' /\ SpentGrant(task[u].tokens)'
    <3>1. SUFFICES ASSUME NEW u \in Tasks, u # t
                   PROVE  SpentGrant(task[u].read.bundle)' /\ SpentGrant(task[u].tokens)'
      BY <2>3, RestingSpends DEF SpentGrant
    <3>2. PICK b, k : b = task[u].read.bundle /\ k = task[u].tokens
      OBVIOUS
    <3>3. SpentGrant(b)' /\ SpentGrant(k)'
      BY <1>1, <2>7, <3>2 DEF TaskRecords, Credentials, Bundles
    <3> QED
      BY <2>3, <3>1, <3>2, <3>3 DEF SpentGrant
  <2>9. SpentGrant(cred.bundle)'
    <3>1. PICK b : b = cred.bundle
      OBVIOUS
    <3> QED
      BY <1>1, <2>2, <2>7, <3>1 DEF SpentGrant, OAuthShapes, Credentials, Bundles
  <2>10. ASSUME NEW x \in States
         PROVE  /\ code'[x] = "none" => parked'[x] = Absent /\ issued'[x] = 0
                /\ parked'[x] # Absent => code'[x] = "issued" /\ posted'[x] = 0
                /\ code'[x] # "spent" => posted'[x] = 0 /\ issued'[x] = 0
                /\ posted'[x] <= 1
    BY <2>2, <2>5, <2>6 DEF CodesOwned
  <2>11. ASSUME NEW x \in States, NEW u \in Tasks, Exchanging(u, x)'
         PROVE  /\ code'[x] = "issued" /\ parked'[x] = Absent
                /\ \A v \in Tasks : Exchanging(v, x)' => v = u
    BY <2>4, <2>5, <2>6, <2>11 DEF CodesOwned
  <2> QED
    BY <2>2, <2>8, <2>9, <2>10, <2>11 DEF CodesOwned
<1>7. ASSUME NEW t \in Tasks, Take(t) PROVE CodesOwned'
  <2>1. PICK s \in States :
        /\ AtStep(t, "idle") /\ code[s] # "none"
        /\ Pruned(Taken(s), parked')
        /\ IF Usable(parked[s])
           THEN /\ Goes(t, [Resting EXCEPT !.at = "exchange", !.state = s])
                /\ overdue' = (overdue \/ now - parked[s] > Ttl)
           ELSE UNCHANGED <<task, overdue>>
        /\ UNCHANGED <<now, server, cred, posted, missed, stale>>
    BY <1>7 DEF Take
  <2>2. parked'[s] = Absent
        /\ \A x \in States : parked'[x] = parked[x] \/ parked'[x] = Absent
    BY <2>1 DEF Pruned, Taken, OAuthShapes
  <2>3. ~overdue'
    <3>1. CASE Usable(parked[s])
      <4>2. now \in Nat /\ parked[s] \in Nat
        BY <3>1 DEF Usable, OAuthShapes
      <4>3. ~(parked[s] < (IF now > Ttl THEN now - Ttl ELSE 0))
        BY <3>1 DEF Usable, ExpiredAt
      <4>1. ~(now - parked[s] > Ttl)
        BY <4>2, <4>3
      <4> QED
        BY <2>1, <3>1, <4>1, Zenon DEF CodesOwned
    <3> QED
      BY <2>1, <3>1 DEF CodesOwned
  <2>4. ASSUME NEW u \in Tasks
        PROVE  SpentGrant(task[u].read.bundle)' /\ SpentGrant(task[u].tokens)'
    <3>1. \/ task'[u] = task[u]
          \/ task'[u] = [Resting EXCEPT !.at = "exchange", !.state = s]
      BY <2>1, GoesKeepsTasks DEF OAuthShapes
    <3>2. CASE task'[u] = task[u]
      BY <1>1, <2>1, <3>2 DEF SpentGrant
    <3>3. CASE task'[u] = [Resting EXCEPT !.at = "exchange", !.state = s]
      BY <3>3 DEF SpentGrant, Resting, NoCredentials
    <3> QED
      BY <3>1, <3>2, <3>3
  <2>5. ASSUME NEW u \in Tasks, NEW x \in States, Exchanging(u, x)'
        PROVE  Exchanging(u, x) \/ (u = t /\ x = s /\ parked[s] # Absent)
    <3>1. CASE Usable(parked[s])
      <4> DEFINE rec == [Resting EXCEPT !.at = "exchange", !.state = s]
      <4>1. task'[t] = rec /\ \A v \in Tasks : v # t => task'[v] = task[v]
        BY <2>1, <3>1, GoesKeepsTasks DEF OAuthShapes
      <4>2. rec.state = s
        BY DEF Resting
      <4> HIDE DEF rec
      <4> QED
        BY <2>5, <3>1, <4>1, <4>2 DEF Exchanging, Usable
    <3>2. CASE ~Usable(parked[s])
      BY <2>1, <2>5, <3>2 DEF Exchanging
    <3> QED
      BY <3>1, <3>2
  <2>6. ASSUME NEW x \in States, NEW u \in Tasks, Exchanging(u, x)'
        PROVE  /\ code'[x] = "issued" /\ parked'[x] = Absent
               /\ \A v \in Tasks : Exchanging(v, x)' => v = u
    BY <2>1, <2>2, <2>5, <2>6 DEF CodesOwned
  <2>7. ASSUME NEW x \in States
        PROVE  /\ code'[x] = "none" => parked'[x] = Absent /\ issued'[x] = 0
               /\ parked'[x] # Absent => code'[x] = "issued" /\ posted'[x] = 0
               /\ code'[x] # "spent" => posted'[x] = 0 /\ issued'[x] = 0
               /\ posted'[x] <= 1
    BY <2>1, <2>2 DEF CodesOwned
  <2>8. SpentGrant(cred.bundle)'
    BY <1>1, <2>1 DEF SpentGrant
  <2> QED
    BY <2>3, <2>4, <2>6, <2>7, <2>8 DEF CodesOwned
<1>8. ASSUME NEW t \in Tasks, Exchange(t) PROVE CodesOwned'
  <2> DEFINE s == task[t].state
  <2>1. s \in States /\ Exchanging(t, s)
    BY <1>8 DEF Exchange, AtStep, OAuthShapes, Fitting, Exchanging
  <2>2. code[s] = "issued" /\ parked[s] = Absent /\ posted[s] = 0
        /\ \A u \in Tasks : Exchanging(u, s) => u = t
    BY <2>1 DEF CodesOwned
  <2>3. /\ posted' = [posted EXCEPT ![s] = @ + 1]
        /\ code' = [code EXCEPT ![s] = "spent"]
        /\ UNCHANGED <<parked, cred, overdue>>
    BY <1>8 DEF Exchange
  <2>4. /\ \A x \in States : x # s => posted'[x] = posted[x] /\ code'[x] = code[x]
        /\ posted'[s] = 1 /\ code'[s] = "spent"
    BY <2>1, <2>2, <2>3 DEF OAuthShapes
  <2>5. ASSUME NEW rec, Goes(t, rec), rec.at # "exchange",
               SpentGrant(rec.read.bundle)', SpentGrant(rec.tokens)',
               \A x \in States : x # s => issued'[x] = issued[x]
        PROVE  CodesOwned'
    <3>1. task'[t] = rec /\ \A u \in Tasks : u # t => task'[u] = task[u]
      BY <2>5, GoesKeepsTasks DEF OAuthShapes
    <3>2. ASSUME NEW b, b = Absent \/ b.grant \in States, SpentGrant(b)
          PROVE  SpentGrant(b)'
      BY <2>2, <2>4, <3>2 DEF SpentGrant
    <3>3. ASSUME NEW u \in Tasks
          PROVE  SpentGrant(task[u].read.bundle)' /\ SpentGrant(task[u].tokens)'
      <4>1. PICK b, k : b = task[u].read.bundle /\ k = task[u].tokens
        OBVIOUS
      <4>2. SpentGrant(b)' /\ SpentGrant(k)'
        BY <1>1, <3>2, <4>1 DEF TaskRecords, Credentials, Bundles
      <4> QED
        BY <2>5, <3>1, <4>1, <4>2 DEF SpentGrant
    <3>4. SpentGrant(cred.bundle)'
      <4>1. PICK b : b = cred.bundle
        OBVIOUS
      <4> QED
        BY <1>1, <2>3, <3>2, <4>1 DEF SpentGrant, OAuthShapes, Credentials, Bundles
    <3>5. ASSUME NEW x \in States, NEW u \in Tasks, Exchanging(u, x)'
          PROVE  /\ code'[x] = "issued" /\ parked'[x] = Absent
                 /\ \A v \in Tasks : Exchanging(v, x)' => v = u
      <4>1. \A v \in Tasks, y \in States : Exchanging(v, y)' => Exchanging(v, y) /\ v # t
        BY <2>5, <3>1 DEF Exchanging
      <4>2. x # s
        BY <2>2, <3>5, <4>1
      <4> QED
        BY <2>3, <2>4, <3>5, <4>1, <4>2 DEF CodesOwned
    <3>6. ASSUME NEW x \in States
          PROVE  /\ code'[x] = "none" => parked'[x] = Absent /\ issued'[x] = 0
                 /\ parked'[x] # Absent => code'[x] = "issued" /\ posted'[x] = 0
                 /\ code'[x] # "spent" => posted'[x] = 0 /\ issued'[x] = 0
                 /\ posted'[x] <= 1
      BY <2>2, <2>3, <2>4, <2>5 DEF CodesOwned
    <3> QED
      BY <2>3, <3>3, <3>4, <3>5, <3>6 DEF CodesOwned
  <2>6. CASE Rests(t) /\ UNCHANGED issued
    BY <2>5, <2>6, RestingSpends DEF Rests, SpentGrant
  <2>7. ASSUME NEW refresh \in {0, 1}, issued' = [issued EXCEPT ![s] = refresh],
               Goes(t, [task[t] EXCEPT !.at = "merge", !.tokens = Issue(s, refresh)])
        PROVE  CodesOwned'
    <3>1. PICK rec : rec = [task[t] EXCEPT !.at = "merge", !.tokens = Issue(s, refresh)]
      OBVIOUS
    <3>2. Goes(t, rec) /\ \A x \in States : x # s => issued'[x] = issued[x]
      BY <2>7, <3>1 DEF OAuthShapes
    <3>3. rec.at = "merge" /\ rec.read = task[t].read /\ rec.tokens.grant = s
      BY <1>1, <3>1 DEF TaskRecords, Issue
    <3>4. SpentGrant(rec.tokens)'
      BY <2>4, <3>3 DEF SpentGrant
    <3>5. SpentGrant(rec.read.bundle)'
      <4>1. PICK b : b = task[t].read.bundle
        OBVIOUS
      <4>2. SpentGrant(b) /\ (b = Absent \/ b.grant \in States)
        BY <1>1, <4>1 DEF TaskRecords, Credentials, Bundles
      <4>3. b = Absent \/ code'[b.grant] = "spent"
        BY <2>4, <4>2 DEF SpentGrant
      <4> QED
        BY <3>3, <4>1, <4>3 DEF SpentGrant
    <3> QED
      BY <2>5, <3>2, <3>3, <3>4, <3>5
  <2> QED
    BY <1>8, <2>6, <2>7 DEF Exchange
<1>9. ASSUME NEW t \in Tasks, Merge(t) PROVE CodesOwned'
  <2> DEFINE rec == [task[t] EXCEPT !.at = "store", !.read = cred]
  <2>1. rec.at = "store" /\ rec.read = cred /\ rec.tokens = task[t].tokens
    BY <1>1 DEF TaskRecords
  <2>2. Goes(t, rec) /\ UNCHANGED <<code, parked, posted, overdue, issued, cred>>
    BY <1>9 DEF Merge
  <2> HIDE DEF rec
  <2> QED
    BY <1>1, <2>1, <2>2, CodesStay DEF SpentGrant
<1>10. ASSUME NEW t \in Tasks, StoreTokens(t) PROVE CodesOwned'
  <2>1. task[t].tokens \in Bundles /\ task[t].read \in Credentials
    BY <1>1, <1>10 DEF StoreTokens, AtStep, OAuthShapes, Fitting, TaskRecords
  <2>2. UNCHANGED <<code, parked, posted, overdue, issued>>
        /\ (Rests(t) \/ Dials(t, FALSE))
    BY <1>10 DEF StoreTokens, AfterStore
  <2>3. \/ cred' = cred
        \/ cred'.bundle = [task[t].tokens EXCEPT !.expires = now + Lifetime]
    BY <1>10, <2>1 DEF StoreTokens, Credentials
  <2>4. SpentGrant(cred.bundle)'
    BY <1>1, <2>1, <2>2, <2>3, AbsentAssumption DEF SpentGrant, Bundles
  <2> QED
    BY <1>2, <1>3, <2>2, <2>4
<1>11. ASSUME NEW t \in Tasks, BeginConnect(t) PROVE CodesOwned'
  <2>1. UNCHANGED <<code, parked, posted, overdue, issued, cred>>
    BY <1>11 DEF BeginConnect
  <2>2. PICK rec : /\ Goes(t, rec) /\ rec.at # "exchange" /\ rec.tokens = Absent
                   /\ rec.read \in {cred, NoCredentials}
    <3>1. PICK rec \in {[Resting EXCEPT !.at = "refresh", !.read = cred, !.since = now],
                       [Resting EXCEPT !.at = "dial", !.since = now],
                       [Resting EXCEPT !.at = "dial", !.refused = TRUE, !.since = now]} :
              Goes(t, rec)
      BY <1>11 DEF BeginConnect
    <3>2. rec.at # "exchange" /\ rec.tokens = Absent /\ rec.read \in {cred, NoCredentials}
      BY <3>1 DEF Resting
    <3> QED
      BY <3>1, <3>2
  <2>3. SpentGrant(rec.read.bundle) /\ SpentGrant(rec.tokens)
    BY <1>1, <2>2 DEF SpentGrant, NoCredentials
  <2> QED
    BY <1>1, <2>1, <2>2, <2>3, CodesStay DEF SpentGrant
<1>12. ASSUME NEW t \in Tasks, Refresh(t) PROVE CodesOwned'
  <2> DEFINE b    == task[t].read.bundle
             next == IF rotates THEN issued[b.grant] + 1 ELSE 0
             new  == Keeping(Issue(b.grant, next), b)
             rec  == [task[t] EXCEPT !.at = "superseded", !.tokens = new]
  <2>1. b \in Bundles /\ b.grant \in States
    BY <1>12 DEF Refresh, AtStep, OAuthShapes, Fitting, Bundles
  <2>2. code[b.grant] = "spent"
    BY <1>1, <2>1, AbsentAssumption DEF SpentGrant
  <2>3. UNCHANGED <<code, parked, posted, overdue, cred>>
        /\ \A x \in States : code[x] # "spent" => issued'[x] = issued[x]
    BY <1>12, <2>2 DEF Refresh, OAuthShapes
  <2>4. SpentGrant(cred.bundle)'
    BY <1>1, <2>3 DEF SpentGrant
  <2>5. CASE Goes(t, rec)
    <3>1. new.grant = b.grant
      BY <2>1 DEF Keeping, Issue
    <3> HIDE DEF new
    <3>2. rec.at = "superseded" /\ rec.tokens = new /\ rec.read = task[t].read
      BY <1>1 DEF TaskRecords
    <3> HIDE DEF rec
    <3>3. SpentGrant(rec.read.bundle) /\ SpentGrant(rec.tokens)
      BY <1>1, <2>2, <3>1, <3>2 DEF SpentGrant
    <3> QED
      BY <2>3, <2>4, <2>5, <3>2, <3>3, CodesStay
  <2>6. CASE Dials(t, TRUE)
    BY <1>3, <2>3, <2>4, <2>6
  <2> QED
    BY <1>12, <2>5, <2>6 DEF Refresh
<1>13. ASSUME NEW t \in Tasks, Superseded(t) PROVE CodesOwned'
  <2> DEFINE rec == [task[t] EXCEPT !.at = "merge", !.looked = cred.version,
                                    !.read = NoCredentials]
  <2>1. rec.at = "merge" /\ rec.tokens = task[t].tokens /\ rec.read.bundle = Absent
    BY <1>1 DEF TaskRecords, NoCredentials
  <2>2. UNCHANGED <<code, parked, posted, overdue, issued, cred>>
        /\ (Goes(t, rec) \/ Dials(t, TRUE) \/ Dials(t, FALSE))
    BY <1>13 DEF Superseded
  <2> HIDE DEF rec
  <2> QED
    BY <1>1, <1>3, <2>1, <2>2, CodesStay DEF SpentGrant
<1>14. ASSUME NEW t \in Tasks, BeginEdit(t) PROVE CodesOwned'
  <2> DEFINE rec == [Resting EXCEPT !.at = "edit", !.read = cred]
  <2>1. rec.at = "edit" /\ rec.tokens = Absent /\ rec.read = cred
    BY DEF Resting
  <2>2. Goes(t, rec) /\ UNCHANGED <<code, parked, posted, overdue, issued, cred>>
    BY <1>14 DEF BeginEdit
  <2> HIDE DEF rec
  <2> QED
    BY <1>1, <2>1, <2>2, CodesStay DEF SpentGrant
<1>15. CASE ClockTick \/ UNCHANGED oauthVars
  BY <1>15 DEF ClockTick, oauthVars, CodesOwned, SpentGrant, Exchanging
<1> QED
  BY <1>4, <1>5, <1>6, <1>7, <1>8, <1>9, <1>10, <1>11, <1>12, <1>13, <1>14, <1>15
     DEF OAuthNext

\* A step that writes nothing.
LEMMA ReadsStay ==
    ASSUME OAuthShapes, ReadsOwned, NEW t \in Tasks, NEW rec, Goes(t, rec),
           cred' = cred, ReadRight(rec)
    PROVE  ReadsOwned'
<1>1. task'[t] = rec /\ \A u \in Tasks : u # t => task'[u] = task[u]
  BY GoesKeepsTasks DEF OAuthShapes
<1> QED
  BY <1>1 DEF ReadsOwned, ReadRight

\* A write makes what others have read old.
LEMMA WriteOutdates ==
    ASSUME OAuthShapes, ReadsOwned, NEW t \in Tasks, NEW rec, Goes(t, rec),
           cred'.version = cred.version + 1, rec.at \in {"idle", "dial"}
    PROVE  ReadsOwned'
<1>1. task'[t] = rec /\ \A u \in Tasks : u # t => task'[u] = task[u]
  BY GoesKeepsTasks DEF OAuthShapes
<1>2. ASSUME NEW u \in Tasks PROVE ReadRight(task[u])'
  <2>1. CASE u = t
    BY <1>1, <2>1 DEF ReadRight
  <2>2. CASE u # t
    <3>1. /\ task[u].read.version \in Nat /\ task[u].looked \in Nat /\ cred.version \in Nat
          /\ ReadRight(task[u]) /\ task'[u] = task[u]
      BY <1>1, <2>2 DEF OAuthShapes, TaskRecords, Credentials, ReadsOwned
    <3> QED
      BY <3>1 DEF ReadRight
  <2> QED
    BY <2>1, <2>2
<1> QED
  BY <1>2 DEF ReadsOwned

LEMMA ReadsInductive ==
    OAuthShapes /\ ReadsOwned /\ [OAuthNext]_oauthVars => ReadsOwned'
<1> SUFFICES ASSUME OAuthShapes, ReadsOwned, [OAuthNext]_oauthVars PROVE ReadsOwned'
  OBVIOUS
<1> USE DEF server, history
<1>1. /\ cred \in Credentials /\ cred.version \in Nat
      /\ \A t \in Tasks : task[t] \in TaskRecords /\ ReadRight(task[t])
  BY DEF OAuthShapes, ReadsOwned, Credentials
<1>2. Resting.at = "idle" /\ ReadRight(Resting)
  BY DEF Resting, ReadRight
<1>3. ASSUME NEW t \in Tasks, NEW refused, Dials(t, refused)
      PROVE  \E rec : Goes(t, rec) /\ rec.at = "dial" /\ ReadRight(rec)
  <2>1. PICK rec : rec = [Resting EXCEPT !.at = "dial", !.since = task[t].since,
                                         !.refused = refused]
    OBVIOUS
  <2>2. rec.at = "dial"
    BY <2>1 DEF Resting
  <2>3. ReadRight(rec)
    BY <2>2 DEF ReadRight
  <2> QED
    BY <1>3, <2>1, <2>2, <2>3 DEF Dials
<1>4. ASSUME NEW t \in Tasks, BeginFails(t) \/ Park(t) \/ Dial(t) PROVE ReadsOwned'
  BY <1>2, <1>4, ReadsStay DEF BeginFails, Park, Dial, Rests
<1>5. ASSUME NEW t \in Tasks, BeginSignIn(t) PROVE ReadsOwned'
  <2>1. PICK rec : rec = [task[t] EXCEPT !.at = "begin"]
    OBVIOUS
  <2>2. rec.at = "begin"
    BY <1>1, <2>1 DEF TaskRecords
  <2> QED
    BY <1>5, <2>1, <2>2, ReadsStay DEF BeginSignIn, StepsTo, ReadRight
<1>6. ASSUME NEW t \in Tasks, Take(t) PROVE ReadsOwned'
  <2>1. PICK s \in States :
          /\ IF Usable(parked[s])
             THEN Goes(t, [Resting EXCEPT !.at = "exchange", !.state = s])
             ELSE UNCHANGED task
          /\ UNCHANGED cred
    BY <1>6 DEF Take
  <2>2. PICK rec : rec = [Resting EXCEPT !.at = "exchange", !.state = s]
    OBVIOUS
  <2>3. ReadRight(rec)
    BY <2>2 DEF Resting, ReadRight
  <2>4. CASE Goes(t, rec)
    BY <2>1, <2>3, <2>4, ReadsStay
  <2>5. CASE UNCHANGED task
    BY <2>1, <2>5 DEF ReadsOwned, ReadRight
  <2> QED
    BY <2>1, <2>2, <2>4, <2>5
<1>7. ASSUME NEW t \in Tasks, Exchange(t) PROVE ReadsOwned'
  <2>1. task[t].state \in States /\ cred' = cred
    BY <1>7 DEF Exchange, AtStep, OAuthShapes, Fitting
  <2>2. ASSUME NEW k, Goes(t, [task[t] EXCEPT !.at = "merge", !.tokens = k])
        PROVE  ReadsOwned'
    <3>1. PICK rec : rec = [task[t] EXCEPT !.at = "merge", !.tokens = k]
      OBVIOUS
    <3>2. rec.at = "merge" /\ rec.state # Absent
      BY <1>1, <2>1, <3>1, OAuthAssumption DEF TaskRecords
    <3>3. ReadRight(rec)
      BY <3>2 DEF ReadRight
    <3> QED
      BY <2>1, <2>2, <3>1, <3>3, ReadsStay
  <2>3. CASE Rests(t)
    BY <1>2, <2>1, <2>3, ReadsStay DEF Rests
  <2> QED
    BY <1>7, <2>2, <2>3 DEF Exchange
<1>8. ASSUME NEW t \in Tasks, Merge(t) PROVE ReadsOwned'
  <2>1. PICK rec : rec = [task[t] EXCEPT !.at = "store", !.read = cred]
    OBVIOUS
  <2>2. /\ rec.at = "store" /\ rec.read = cred /\ rec.state = task[t].state
        /\ rec.looked = task[t].looked /\ rec.tokens = task[t].tokens
    BY <1>1, <2>1 DEF TaskRecords
  <2>3. task[t].at = "merge" /\ Goes(t, rec) /\ cred' = cred
    BY <1>8, <2>1 DEF Merge, AtStep
  <2>4. ReadRight(rec)
    BY <1>1, <2>2, <2>3 DEF ReadRight
  <2> QED
    BY <2>3, <2>4, ReadsStay
<1>9. ASSUME NEW t \in Tasks, StoreTokens(t) PROVE ReadsOwned'
  <2>1. PICK rec : Goes(t, rec) /\ rec.at \in {"idle", "dial"} /\ ReadRight(rec)
    BY <1>2, <1>3, <1>9 DEF StoreTokens, AfterStore, Rests
  <2>2. CASE cred' = cred
    BY <2>1, <2>2, ReadsStay
  <2>3. CASE cred' # cred
    <3>1. cred'.version = cred.version + 1
      BY <1>1, <1>9, <2>3 DEF StoreTokens, TaskRecords, Credentials
    <3> QED
      BY <2>1, <3>1, WriteOutdates
  <2> QED
    BY <2>2, <2>3
<1>10. ASSUME NEW t \in Tasks, BeginConnect(t) PROVE ReadsOwned'
  <2>1. PICK rec \in {[Resting EXCEPT !.at = "refresh", !.read = cred, !.since = now],
                      [Resting EXCEPT !.at = "dial", !.since = now],
                      [Resting EXCEPT !.at = "dial", !.refused = TRUE, !.since = now]} :
            Goes(t, rec)
    BY <1>10 DEF BeginConnect
  <2>2. rec.at \in {"refresh", "dial"}
    BY <2>1 DEF Resting
  <2> QED
    BY <1>10, <2>1, <2>2, ReadsStay DEF BeginConnect, ReadRight
<1>11. ASSUME NEW t \in Tasks, Refresh(t) PROVE ReadsOwned'
  <2>1. cred' = cred
    BY <1>11 DEF Refresh
  <2>2. ASSUME NEW k, Goes(t, [task[t] EXCEPT !.at = "superseded", !.tokens = k])
        PROVE  ReadsOwned'
    <3>1. PICK rec : rec = [task[t] EXCEPT !.at = "superseded", !.tokens = k]
      OBVIOUS
    <3>2. rec.at = "superseded"
      BY <1>1, <3>1 DEF TaskRecords
    <3> QED
      BY <2>1, <2>2, <3>1, <3>2, ReadsStay DEF ReadRight
  <2>3. CASE Dials(t, TRUE)
    BY <1>3, <2>1, <2>3, ReadsStay
  <2> QED
    BY <1>11, <2>2, <2>3 DEF Refresh
<1>12. ASSUME NEW t \in Tasks, Superseded(t) PROVE ReadsOwned'
  <2>1. PICK rec : rec = [task[t] EXCEPT !.at = "merge", !.looked = cred.version,
                                         !.read = NoCredentials]
    OBVIOUS
  <2>2. rec.at = "merge" /\ rec.looked = cred.version /\ rec.tokens = task[t].tokens
    BY <1>1, <2>1 DEF TaskRecords
  <2>3. cred' = cred
    BY <1>12 DEF Superseded
  <2>4. CASE SameBundle(task[t].read.bundle) /\ Goes(t, rec)
    <3>1. /\ task[t].read.bundle \in Bundles
          /\ task[t].tokens.grant = task[t].read.bundle.grant
      BY <1>12 DEF Superseded, AtStep, OAuthShapes, Fitting
    <3>2. cred.bundle # Absent /\ cred.bundle \in Bundles
      BY <1>1, <2>4 DEF SameBundle, Credentials
    <3>3. cred.bundle.grant = task[t].read.bundle.grant
      <4>1. /\ [cred.bundle EXCEPT !.until = 0].grant = cred.bundle.grant
            /\ [task[t].read.bundle EXCEPT !.until = 0].grant = task[t].read.bundle.grant
        BY <3>1, <3>2 DEF Bundles
      <4> QED
        BY <2>4, <4>1 DEF SameBundle
    <3>4. ReadRight(rec)
      BY <1>1, <2>2, <3>1, <3>2, <3>3 DEF ReadRight
    <3> QED
      BY <2>3, <2>4, <3>4, ReadsStay
  <2>5. CASE Dials(t, FALSE) \/ Dials(t, TRUE)
    BY <1>3, <2>3, <2>5, ReadsStay
  <2> QED
    BY <1>12, <2>1, <2>4, <2>5 DEF Superseded
<1>13. ASSUME NEW t \in Tasks, BeginEdit(t) PROVE ReadsOwned'
  <2>1. PICK rec : rec = [Resting EXCEPT !.at = "edit", !.read = cred]
    OBVIOUS
  <2>2. rec.at = "edit" /\ rec.read = cred
    BY <2>1 DEF Resting
  <2>3. ReadRight(rec)
    BY <1>1, <2>2 DEF ReadRight
  <2> QED
    BY <1>13, <2>1, <2>3, ReadsStay DEF BeginEdit
<1>14. ASSUME NEW t \in Tasks, Edit(t) PROVE ReadsOwned'
  <2>1. cred'.version = cred.version + 1
    BY <1>1, <1>14 DEF Edit, TaskRecords, Credentials
  <2> QED
    BY <1>2, <1>14, <2>1, WriteOutdates DEF Edit, Rests
<1>15. CASE ClockTick \/ UNCHANGED oauthVars
  BY <1>15 DEF ClockTick, oauthVars, ReadsOwned, ReadRight
<1> QED
  BY <1>4, <1>5, <1>6, <1>7, <1>8, <1>9, <1>10, <1>11, <1>12, <1>13, <1>14, <1>15
     DEF OAuthNext

\* A step after which a caller holds what it held, or does not hold what the map
\* has in an older state.
LEMMA GrantsStay ==
    ASSUME OAuthShapes, GrantsOwned, NEW t \in Tasks, NEW rec, Goes(t, rec),
           UNCHANGED <<rotates, issued>>, cred'.bundle = cred.bundle,
           \A s \in States : code[s] = "spent" => code'[s] = "spent",
           rec.at # "refresh",
           \/ Holding(t) /\ rec.at \in {"merge", "store"} /\ rec.tokens = task[t].tokens
           \/ /\ rec.at \notin Held
              /\ Holding(t) /\ rotates /\ cred.bundle # Absent
                    => cred.bundle.grant # task[t].tokens.grant
    PROVE  GrantsOwned'
<1>1. task'[t] = rec /\ \A u \in Tasks : u # t => task'[u] = task[u]
  BY GoesKeepsTasks DEF OAuthShapes
<1>2. ASSUME NEW b, Known(b), b \in Bundles PROVE Known(b)'
  BY <1>2 DEF Known, Bundles
<1>3. ASSUME NEW b, Known(b), Newest(b), b \in Bundles PROVE Newest(b)'
  BY <1>2, <1>3 DEF Newest
<1>4. \A u \in Tasks : Holding(u)' => Holding(u) /\ task'[u].tokens = task[u].tokens
  BY <1>1 DEF Holding, Held
<1>5. \A u \in Tasks : \A g : HoldsOf(u, g)' => HoldsOf(u, g)
  BY <1>4 DEF HoldsOf
<1>6. \A u \in Tasks : task'[u].at = "refresh" => task[u].at = "refresh" /\ task'[u] = task[u]
  BY <1>1
<1>7. StoredOwned'
  <2>1. SUFFICES ASSUME cred'.bundle # Absent
                 PROVE  /\ Known(cred.bundle)'
                        /\ (\A u \in Tasks : ~HoldsOf(u, cred.bundle.grant)') => Newest(cred.bundle)'
    BY DEF StoredOwned, HoldsOf, Holding
  <2>2. PICK b : b = cred.bundle
    OBVIOUS
  <2>3. b \in Bundles /\ Known(b)
    BY <2>1, <2>2 DEF GrantsOwned, StoredOwned, OAuthShapes, Credentials
  <2>4. Known(b)' /\ cred'.bundle = b
    BY <1>2, <2>2, <2>3
  <2>5. ASSUME \A u \in Tasks : ~HoldsOf(u, b.grant)' PROVE Newest(b)'
    <3>1. CASE rotates
      <4>1. \A u \in Tasks : ~HoldsOf(u, b.grant)
        BY <1>1, <2>1, <2>2, <2>5, <3>1 DEF HoldsOf, Holding, Held
      <4> QED
        BY <1>3, <2>1, <2>2, <2>3, <4>1 DEF GrantsOwned, StoredOwned
    <3>2. CASE ~rotates
      BY <1>3, <2>3, <3>2 DEF Newest
    <3> QED
      BY <3>1, <3>2
  <2> QED
    BY <2>4, <2>5 DEF Known, Newest, HoldsOf, Holding
<1>8. ASSUME NEW u \in Tasks PROVE ReaderOwned(u)'
  <2>1. SUFFICES ASSUME task'[u].at = "refresh" PROVE ReaderOwned(u)'
    BY DEF ReaderOwned
  <2>2. PICK b : b = task[u].read.bundle
    OBVIOUS
  <2>3. task[u].at = "refresh" /\ task'[u] = task[u] /\ b \in Bundles
    BY <1>6, <2>1, <2>2 DEF OAuthShapes, Fitting
  <2>4. Known(b)'
    BY <1>2, <2>2, <2>3 DEF GrantsOwned, ReaderOwned
  <2> QED
    BY <2>2, <2>3, <2>4 DEF GrantsOwned, ReaderOwned, Known
<1>9. ASSUME NEW u \in Tasks PROVE HolderOwned(u)'
  <2>1. SUFFICES ASSUME Holding(u)' PROVE HolderOwned(u)'
    BY DEF HolderOwned
  <2>2. PICK b : b = task[u].tokens
    OBVIOUS
  <2>3. Holding(u) /\ task'[u].tokens = b /\ b \in Bundles
    BY <1>4, <2>1, <2>2 DEF OAuthShapes, Fitting, Holding
  <2>4. Known(b)' /\ Newest(b)'
    BY <1>2, <1>3, <2>2, <2>3 DEF GrantsOwned, HolderOwned
  <2>5. rotates => \A v \in Tasks : HoldsOf(v, b.grant)' => v = u
    BY <1>5, <2>2, <2>3 DEF GrantsOwned, HolderOwned
  <2>6. task'[u].at = "superseded" => task'[u] = task[u]
    BY <1>1, <2>1 DEF Held
  <2>7. rotates /\ cred'.bundle # Absent =>
           /\ Older(cred.bundle, b.grant)
           /\ cred.bundle.grant = b.grant /\ task'[u].at = "superseded"
                 => cred'.bundle = task'[u].read.bundle
    BY <2>2, <2>3, <2>6 DEF GrantsOwned, HolderOwned
  <2>8. rotates => \A v \in Tasks : task'[v].at = "refresh" =>
                       Older(task[v].read.bundle, b.grant) /\ task'[v] = task[v]
    BY <1>6, <2>2, <2>3 DEF GrantsOwned, HolderOwned
  <2> QED
    BY <2>1, <2>2, <2>3, <2>4, <2>5, <2>7, <2>8
       DEF HolderOwned, Known, Newest, Older, HoldsOf, Holding
<1> QED
  BY <1>7, <1>8, <1>9 DEF GrantsOwned

\* A caller that reads the map to refresh what it has read.
LEMMA ReaderJoins ==
    ASSUME OAuthShapes, GrantsOwned, NEW t \in Tasks, NEW rec, Goes(t, rec),
           UNCHANGED <<rotates, issued, code, cred>>, ~Holding(t), cred.bundle # Absent,
           rec.at = "refresh", rec.read = cred
    PROVE  GrantsOwned'
<1>1. task'[t] = rec /\ \A u \in Tasks : u # t => task'[u] = task[u]
  BY GoesKeepsTasks DEF OAuthShapes
<1>2. \A u \in Tasks : Holding(u)' <=> Holding(u)
  BY <1>1 DEF Holding
<1>3. \A u \in Tasks : \A g : HoldsOf(u, g)' <=> HoldsOf(u, g)
  BY <1>1, <1>2 DEF HoldsOf, Holding
<1>4. StoredOwned'
  BY <1>3 DEF GrantsOwned, StoredOwned, Known, Newest
<1>5. ASSUME NEW u \in Tasks PROVE ReaderOwned(u)'
  <2>1. CASE u = t
    BY <1>1, <2>1 DEF GrantsOwned, StoredOwned, ReaderOwned, Known
  <2>2. CASE u # t
    BY <1>1, <2>2 DEF GrantsOwned, ReaderOwned, Known
  <2> QED
    BY <2>1, <2>2
<1>6. ASSUME NEW u \in Tasks PROVE HolderOwned(u)'
  <2>1. SUFFICES ASSUME Holding(u) PROVE HolderOwned(u)'
    BY <1>2 DEF HolderOwned
  <2>2. task'[u] = task[u] /\ HolderOwned(u) /\ u # t
    BY <1>1, <2>1 DEF GrantsOwned
  <2>3. PICK b : b = task[u].tokens
    OBVIOUS
  <2>4. rotates => \A v \in Tasks : task'[v].at = "refresh" =>
                       Older(task'[v].read.bundle, b.grant)
    BY <1>1, <2>1, <2>2, <2>3 DEF HolderOwned
  <2> QED
    BY <1>3, <2>1, <2>2, <2>3, <2>4 DEF HolderOwned, Known, Newest, Older, HoldsOf, Holding
<1> QED
  BY <1>4, <1>5, <1>6 DEF GrantsOwned

\* What another caller or the map has is of another grant, when a code is exchanged.
LEMMA CodeIsFresh ==
    ASSUME OAuthShapes, CodesOwned, NEW s \in States, code[s] # "spent"
    PROVE  /\ cred.bundle # Absent => cred.bundle.grant # s
           /\ \A u \in Tasks :
                 /\ ~HoldsOf(u, s)
                 /\ task[u].at \in {"refresh", "superseded"} => task[u].read.bundle.grant # s
<1>1. \A u \in Tasks : ~HoldsOf(u, s)
  BY AbsentAssumption DEF HoldsOf, Holding, OAuthShapes, Fitting, CodesOwned, SpentGrant
<1>2. \A u \in Tasks :
         task[u].at \in {"refresh", "superseded"} => task[u].read.bundle.grant # s
  BY AbsentAssumption DEF OAuthShapes, Fitting, CodesOwned, SpentGrant
<1> QED
  BY <1>1, <1>2 DEF CodesOwned, SpentGrant

\* The first tokens of a grant.
LEMMA GrantBegins ==
    ASSUME OAuthShapes, CodesOwned, GrantsOwned, NEW t \in Tasks, NEW rec, Goes(t, rec),
           NEW s \in States, Exchanging(t, s), NEW refresh \in {0, 1},
           issued' = [issued EXCEPT ![s] = refresh], code' = [code EXCEPT ![s] = "spent"],
           UNCHANGED <<rotates, cred>>,
           rec.at = "merge", rec.tokens.grant = s, rec.tokens.refresh = refresh
    PROVE  GrantsOwned'
<1>1. task'[t] = rec /\ \A u \in Tasks : u # t => task'[u] = task[u]
  BY GoesKeepsTasks DEF OAuthShapes
<1>2. /\ cred.bundle # Absent => cred.bundle.grant # s
      /\ \A u \in Tasks :
            /\ ~HoldsOf(u, s)
            /\ task[u].at \in {"refresh", "superseded"} => task[u].read.bundle.grant # s
  BY CodeIsFresh DEF CodesOwned
<1>3. /\ issued'[s] = refresh /\ code'[s] = "spent"
      /\ \A x \in States : x # s => issued'[x] = issued[x] /\ code'[x] = code[x]
  BY DEF OAuthShapes
<1>4. \A u \in Tasks : Holding(u)' <=> Holding(u) \/ u = t
  BY <1>1 DEF Holding
<1>5. \A u \in Tasks : \A g : HoldsOf(u, g)' <=> (IF u = t THEN g = s ELSE HoldsOf(u, g))
  BY <1>1 DEF HoldsOf, Holding
<1>6. ~Holding(t) /\ task[t].at # "refresh"
  BY DEF Exchanging, Holding
<1>7. ASSUME NEW b \in Bundles, b.grant # s
      PROVE  (Known(b)' <=> Known(b)) /\ (Newest(b)' <=> Newest(b))
  BY <1>3, <1>7 DEF Known, Newest, Bundles
<1>8. StoredOwned'
  <2>1. CASE cred.bundle = Absent
    BY <2>1 DEF StoredOwned
  <2>2. CASE cred.bundle # Absent
    <3>1. PICK b : b = cred.bundle
      OBVIOUS
    <3>2. b \in Bundles /\ b.grant # s /\ cred'.bundle = b
      BY <1>2, <2>2, <3>1 DEF OAuthShapes, Credentials
    <3>3. (\A u \in Tasks : ~HoldsOf(u, b.grant)') => \A u \in Tasks : ~HoldsOf(u, b.grant)
      BY <1>5, <1>6 DEF HoldsOf
    <3>4. Known(b)' /\ ((\A u \in Tasks : ~HoldsOf(u, b.grant)') => Newest(b)')
      BY <1>7, <2>2, <3>1, <3>2, <3>3 DEF GrantsOwned, StoredOwned
    <3> QED
      BY <3>2, <3>4 DEF StoredOwned, Known, Newest, HoldsOf, Holding
  <2> QED
    BY <2>1, <2>2
<1>9. ASSUME NEW u \in Tasks PROVE ReaderOwned(u)'
  <2>1. SUFFICES ASSUME task'[u].at = "refresh" PROVE ReaderOwned(u)'
    BY DEF ReaderOwned
  <2>2. PICK b : b = task[u].read.bundle
    OBVIOUS
  <2>3. task'[u] = task[u] /\ b \in Bundles /\ b.grant # s
    BY <1>1, <1>2, <2>1, <2>2 DEF OAuthShapes, Fitting
  <2>4. Known(b)'
    BY <1>7, <2>1, <2>2, <2>3 DEF GrantsOwned, ReaderOwned
  <2> QED
    BY <2>1, <2>2, <2>3, <2>4 DEF GrantsOwned, ReaderOwned, Known
<1>10. ASSUME NEW u \in Tasks, u # t PROVE HolderOwned(u)'
  <2>1. SUFFICES ASSUME Holding(u) PROVE HolderOwned(u)'
    BY <1>4, <1>10 DEF HolderOwned
  <2>2. PICK b : b = task[u].tokens
    OBVIOUS
  <2>3. task'[u] = task[u] /\ HolderOwned(u) /\ b \in Bundles /\ b.grant # s
    BY <1>1, <1>2, <1>10, <2>1, <2>2
       DEF GrantsOwned, OAuthShapes, Fitting, Holding, HoldsOf
  <2>4. Known(b)' /\ Newest(b)' /\ issued'[b.grant] = issued[b.grant]
    BY <1>3, <1>7, <2>1, <2>2, <2>3 DEF HolderOwned, Bundles
  <2>5. rotates => \A v \in Tasks : HoldsOf(v, b.grant)' => v = u
    BY <1>5, <2>1, <2>2, <2>3 DEF HolderOwned
  <2>6. rotates => \A v \in Tasks : task'[v].at = "refresh" =>
                       task'[v] = task[v] /\ Older(task[v].read.bundle, b.grant)
    BY <1>1, <2>1, <2>2, <2>3 DEF HolderOwned
  <2>7. rotates /\ cred.bundle # Absent =>
           /\ Older(cred.bundle, b.grant)
           /\ cred.bundle.grant = b.grant /\ task[u].at = "superseded"
                 => cred.bundle = task[u].read.bundle
    BY <2>1, <2>2, <2>3 DEF HolderOwned
  <2> QED
    BY <2>1, <2>2, <2>3, <2>4, <2>5, <2>6, <2>7
       DEF HolderOwned, Known, Newest, Older, HoldsOf, Holding
<1>11. HolderOwned(t)'
  <2>1. PICK b : b = rec.tokens
    OBVIOUS
  <2>2. Known(b)' /\ Newest(b)'
    BY <1>3, <2>1 DEF Known, Newest
  <2>3. \A v \in Tasks : HoldsOf(v, s)' => v = t
    BY <1>2, <1>5
  <2>4. \A v \in Tasks : task'[v].at = "refresh" => task'[v].read.bundle.grant # s
    BY <1>1, <1>2
  <2> QED
    BY <1>1, <1>2, <2>1, <2>2, <2>3, <2>4 DEF HolderOwned, Known, Newest, Older, HoldsOf, Holding
<1> QED
  BY <1>8, <1>9, <1>10, <1>11 DEF GrantsOwned

\* A refresh that the server answers: what was read was the newest, and whoever has
\* it now has an older one, except for the caller that was answered.
LEMMA GrantIsRefreshed ==
    ASSUME OAuthShapes, GrantsOwned, NEW t \in Tasks, NEW rec, Goes(t, rec),
           NEW b \in Bundles, task[t].at = "refresh", b = task[t].read.bundle, Accepts(b),
           issued' = [issued EXCEPT ![b.grant] = IF rotates THEN @ + 1 ELSE @],
           UNCHANGED <<rotates, cred, code>>,
           rec.at = "superseded", rec.read = task[t].read, rec.tokens.grant = b.grant,
           rec.tokens.refresh = IF rotates THEN issued[b.grant] + 1 ELSE b.refresh
    PROVE  GrantsOwned'
<1> DEFINE g == b.grant
<1>1. task'[t] = rec /\ \A u \in Tasks : u # t => task'[u] = task[u]
  BY GoesKeepsTasks DEF OAuthShapes
<1>2. Known(b) /\ g \in States /\ b.refresh \in Nat /\ issued[g] \in Nat
  BY DEF GrantsOwned, ReaderOwned, Bundles, OAuthShapes
<1>3. rotates => b.refresh = issued[g]
  BY DEF Accepts
<1>4. /\ issued'[g] = IF rotates THEN issued[g] + 1 ELSE issued[g]
      /\ \A x \in States : x # g => issued'[x] = issued[x]
      /\ \A x \in States : issued[x] \in Nat
  BY <1>2 DEF OAuthShapes
<1>5. ASSUME rotates, NEW u \in Tasks PROVE ~HoldsOf(u, g)
  <2>1. SUFFICES ASSUME HoldsOf(u, g) PROVE FALSE
    OBVIOUS
  <2>2. Older(task[t].read.bundle, task[u].tokens.grant)
    BY <1>5, <2>1 DEF GrantsOwned, HolderOwned, HoldsOf
  <2> QED
    BY <1>3, <1>5, <2>1, <2>2 DEF Older, HoldsOf
<1>6. \A u \in Tasks : Holding(u)' <=> Holding(u) \/ u = t
  BY <1>1 DEF Holding
<1>7. \A u \in Tasks : \A x : HoldsOf(u, x)' <=> (IF u = t THEN x = g ELSE HoldsOf(u, x))
  BY <1>1 DEF HoldsOf, Holding
<1>8. ~Holding(t)
  BY DEF Holding
<1>9. ASSUME NEW c \in Bundles, Known(c)
      PROVE  /\ Known(c)'
             /\ c.grant # g \/ ~rotates => (Newest(c)' <=> Newest(c))
             /\ rotates /\ c.grant = g => c.refresh # issued'[g]
  <2>1. c.grant \in States /\ c.refresh \in Nat
    BY DEF Bundles
  <2> QED
    BY <1>2, <1>4, <1>9, <2>1 DEF Known, Newest
<1>10. StoredOwned'
  <2>1. CASE cred.bundle = Absent
    BY <2>1 DEF StoredOwned
  <2>2. CASE cred.bundle # Absent
    <3>1. PICK c : c = cred.bundle
      OBVIOUS
    <3>2. c \in Bundles /\ Known(c) /\ cred'.bundle = c
      BY <2>2, <3>1 DEF OAuthShapes, Credentials, GrantsOwned, StoredOwned
    <3>3. (\A u \in Tasks : ~HoldsOf(u, c.grant)') =>
              c.grant # g /\ \A u \in Tasks : ~HoldsOf(u, c.grant)
      BY <1>7, <1>8 DEF HoldsOf
    <3>4. Known(c)' /\ ((\A u \in Tasks : ~HoldsOf(u, c.grant)') => Newest(c)')
      BY <1>9, <2>2, <3>1, <3>2, <3>3 DEF GrantsOwned, StoredOwned
    <3> QED
      BY <3>2, <3>4 DEF StoredOwned, Known, Newest, HoldsOf, Holding
  <2> QED
    BY <2>1, <2>2
<1>11. ASSUME NEW u \in Tasks PROVE ReaderOwned(u)'
  <2>1. SUFFICES ASSUME task'[u].at = "refresh" PROVE ReaderOwned(u)'
    BY DEF ReaderOwned
  <2>2. PICK c : c = task[u].read.bundle
    OBVIOUS
  <2>3. task'[u] = task[u] /\ c \in Bundles /\ Known(c)
    BY <1>1, <2>1, <2>2 DEF OAuthShapes, Fitting, GrantsOwned, ReaderOwned
  <2>4. Known(c)'
    BY <1>9, <2>3
  <2> QED
    BY <2>1, <2>2, <2>3, <2>4 DEF GrantsOwned, ReaderOwned, Known
<1>12. ASSUME NEW u \in Tasks, u # t PROVE HolderOwned(u)'
  <2>1. SUFFICES ASSUME Holding(u) PROVE HolderOwned(u)'
    BY <1>6, <1>12 DEF HolderOwned
  <2>2. PICK c : c = task[u].tokens
    OBVIOUS
  <2>3. /\ task'[u] = task[u] /\ HolderOwned(u) /\ c \in Bundles
        /\ rotates => c.grant # g
    BY <1>1, <1>5, <1>12, <2>1, <2>2
       DEF GrantsOwned, OAuthShapes, Fitting, Holding, HoldsOf
  <2>4. Known(c)' /\ Newest(c)' /\ (rotates => issued'[c.grant] = issued[c.grant])
    BY <1>4, <1>9, <2>1, <2>2, <2>3 DEF HolderOwned, Bundles
  <2>5. rotates => \A v \in Tasks : HoldsOf(v, c.grant)' => v = u
    BY <1>7, <2>1, <2>2, <2>3 DEF HolderOwned
  <2>6. rotates => \A v \in Tasks : task'[v].at = "refresh" =>
                       task'[v] = task[v] /\ Older(task[v].read.bundle, c.grant)
    BY <1>1, <2>1, <2>2, <2>3 DEF HolderOwned
  <2>7. rotates /\ cred.bundle # Absent =>
           /\ Older(cred.bundle, c.grant)
           /\ cred.bundle.grant = c.grant /\ task[u].at = "superseded"
                 => cred.bundle = task[u].read.bundle
    BY <2>1, <2>2, <2>3 DEF HolderOwned
  <2> QED
    BY <2>1, <2>2, <2>3, <2>4, <2>5, <2>6, <2>7
       DEF HolderOwned, Known, Newest, Older, HoldsOf, Holding
<1>13. HolderOwned(t)'
  <2>1. PICK c : c = rec.tokens
    OBVIOUS
  <2>2. Known(c)' /\ Newest(c)'
    BY <1>2, <1>4, <2>1 DEF Known, Newest
  <2>3. rotates => \A v \in Tasks : HoldsOf(v, g)' => v = t
    BY <1>5, <1>7
  <2>4. rotates => \A v \in Tasks :
                    task'[v].at = "refresh" /\ task'[v].read.bundle.grant = g
                       => task'[v].read.bundle.refresh # issued'[g]
    <3>1. SUFFICES ASSUME rotates, NEW v \in Tasks, task'[v].at = "refresh",
                          task'[v].read.bundle.grant = g
                   PROVE  task'[v].read.bundle.refresh # issued'[g]
      OBVIOUS
    <3>2. task'[v] = task[v] /\ task[v].read.bundle \in Bundles /\ Known(task[v].read.bundle)
      BY <1>1, <3>1 DEF OAuthShapes, Fitting, GrantsOwned, ReaderOwned
    <3> QED
      BY <1>9, <3>1, <3>2
  <2>5. ASSUME rotates, cred.bundle # Absent, cred.bundle.grant = g
        PROVE  cred.bundle.refresh # issued'[g] /\ cred.bundle = b
    <3>1. cred.bundle \in Bundles /\ Known(cred.bundle)
      BY <2>5 DEF OAuthShapes, Credentials, GrantsOwned, StoredOwned
    <3>2. Newest(cred.bundle)
      BY <1>5, <2>5 DEF GrantsOwned, StoredOwned
    <3>3. Alike(cred.bundle, b)
      BY <1>3, <2>5, <3>2 DEF Alike, Newest
    <3>4. cred.bundle = b
      BY <2>5, <3>3 DEF GrantsOwned, ReaderOwned
    <3> QED
      BY <1>9, <2>5, <3>1, <3>4
  <2> QED
    BY <1>1, <2>1, <2>2, <2>3, <2>4, <2>5 DEF HolderOwned, Known, Newest, Older, HoldsOf, Holding
<1> QED
  BY <1>10, <1>11, <1>12, <1>13 DEF GrantsOwned

\* What was held is in the map, and nobody has a copy.
LEMMA TokensAreStored ==
    ASSUME OAuthShapes, GrantsOwned, NEW t \in Tasks, NEW rec, Goes(t, rec), Holding(t),
           UNCHANGED <<rotates, issued, code>>, rec.at \in {"idle", "dial"},
           cred'.bundle.grant = task[t].tokens.grant,
           cred'.bundle.refresh = task[t].tokens.refresh
    PROVE  GrantsOwned'
<1>1. task'[t] = rec /\ \A u \in Tasks : u # t => task'[u] = task[u]
  BY GoesKeepsTasks DEF OAuthShapes
<1>2. PICK k : k = task[t].tokens
  OBVIOUS
<1>3. /\ k \in Bundles /\ Known(k) /\ Newest(k)
      /\ rotates =>
           /\ \A u \in Tasks : HoldsOf(u, k.grant) => u = t
           /\ \A u \in Tasks : task[u].at = "refresh" => Older(task[u].read.bundle, k.grant)
  BY <1>2 DEF GrantsOwned, HolderOwned, OAuthShapes, Fitting, Holding
<1>4. StoredOwned'
  BY <1>2, <1>3 DEF StoredOwned, Known, Newest
<1>5. \A u \in Tasks : Holding(u)' <=> Holding(u) /\ u # t
  BY <1>1 DEF Holding
<1>6. \A u \in Tasks : \A g : HoldsOf(u, g)' <=> HoldsOf(u, g) /\ u # t
  BY <1>1, <1>5 DEF HoldsOf, Holding
<1>7. ASSUME NEW u \in Tasks PROVE ReaderOwned(u)'
  <2>1. SUFFICES ASSUME task'[u].at = "refresh" PROVE ReaderOwned(u)'
    BY DEF ReaderOwned
  <2>2. PICK c : c = task[u].read.bundle
    OBVIOUS
  <2>3. task'[u] = task[u] /\ Known(c) /\ (rotates => Older(c, k.grant))
    BY <1>1, <1>3, <2>1, <2>2 DEF GrantsOwned, ReaderOwned
  <2>4. rotates => ~Alike(cred.bundle, c)'
    BY <1>2, <1>3, <2>3 DEF Older, Alike, Newest
  <2> QED
    BY <2>1, <2>2, <2>3, <2>4 DEF ReaderOwned, Known, Alike
<1>8. ASSUME NEW u \in Tasks PROVE HolderOwned(u)'
  <2>1. SUFFICES ASSUME Holding(u), u # t PROVE HolderOwned(u)'
    BY <1>5 DEF HolderOwned
  <2>2. PICK c : c = task[u].tokens
    OBVIOUS
  <2>3. task'[u] = task[u] /\ HolderOwned(u)
    BY <1>1, <2>1 DEF GrantsOwned
  <2>4. rotates => c.grant # k.grant
    BY <1>3, <2>1, <2>2 DEF HoldsOf
  <2>5. rotates => \A v \in Tasks : HoldsOf(v, c.grant)' => v = u
    BY <1>6, <2>1, <2>2, <2>3 DEF HolderOwned
  <2>6. rotates => \A v \in Tasks : task'[v].at = "refresh" =>
                       task'[v] = task[v] /\ Older(task[v].read.bundle, c.grant)
    BY <1>1, <2>1, <2>2, <2>3 DEF HolderOwned
  <2>7. Known(c) /\ Newest(c)
    BY <2>1, <2>2, <2>3 DEF HolderOwned
  <2> QED
    BY <1>2, <2>1, <2>2, <2>3, <2>4, <2>5, <2>6, <2>7
       DEF HolderOwned, Known, Newest, Older, HoldsOf, Holding
<1> QED
  BY <1>4, <1>7, <1>8 DEF GrantsOwned

LEMMA GrantsInductive ==
    /\ OAuthShapes /\ CodesOwned /\ ReadsOwned /\ (~missed => GrantsOwned)
    /\ [OAuthNext]_oauthVars
    => (~missed => GrantsOwned)'
<1> SUFFICES ASSUME OAuthShapes, CodesOwned, ReadsOwned, ~missed => GrantsOwned,
                    [OAuthNext]_oauthVars, ~missed'
             PROVE  GrantsOwned'
  OBVIOUS
<1> USE DEF server, history
<1>1. /\ cred \in Credentials
      /\ \A t \in Tasks : task[t] \in TaskRecords /\ Fitting(task[t]) /\ ReadRight(task[t])
  BY DEF OAuthShapes, ReadsOwned
<1>2. Resting.at = "idle" /\ Resting.at \notin Held \cup {"refresh"}
  BY DEF Resting, Held
<1>3. ASSUME NEW t \in Tasks, NEW refused, Dials(t, refused)
      PROVE  \E rec : Goes(t, rec) /\ rec.at = "dial"
  <2>1. PICK rec : rec = [Resting EXCEPT !.at = "dial", !.since = task[t].since,
                                         !.refused = refused]
    OBVIOUS
  <2>2. rec.at = "dial"
    BY <2>1 DEF Resting
  <2> QED
    BY <1>3, <2>1, <2>2 DEF Dials
<1>4. ASSUME ~missed, NEW t \in Tasks, NEW rec, Goes(t, rec), rec.at \notin Held \cup {"refresh"},
             ~Holding(t), UNCHANGED <<rotates, issued>>, cred'.bundle = cred.bundle,
             \A s \in States : code[s] = "spent" => code'[s] = "spent"
      PROVE  GrantsOwned'
  BY <1>4, GrantsStay
<1>5. ASSUME NEW t \in Tasks, BeginFails(t) \/ Dial(t) \/ Park(t) PROVE GrantsOwned'
  <2>1. /\ Rests(t) /\ UNCHANGED <<rotates, issued, cred>> /\ ~missed /\ ~Holding(t)
    BY <1>5 DEF BeginFails, Dial, Park, Holding, AtStep
  <2>2. \A s \in States : code[s] = "spent" => code'[s] = "spent"
    BY <1>5 DEF BeginFails, Dial, Park, OAuthShapes
  <2> QED
    BY <1>2, <1>4, <2>1, <2>2 DEF Rests
<1>6. ASSUME NEW t \in Tasks, BeginSignIn(t) PROVE GrantsOwned'
  <2>1. PICK rec : rec = [task[t] EXCEPT !.at = "begin"]
    OBVIOUS
  <2>2. rec.at = "begin"
    BY <1>1, <2>1 DEF TaskRecords
  <2> QED
    BY <1>4, <1>6, <2>1, <2>2 DEF BeginSignIn, StepsTo, Held, Holding, AtStep
<1>7. ASSUME NEW t \in Tasks, Take(t) PROVE GrantsOwned'
  <2>1. PICK s \in States :
          /\ AtStep(t, "idle")
          /\ IF Usable(parked[s])
             THEN Goes(t, [Resting EXCEPT !.at = "exchange", !.state = s])
             ELSE UNCHANGED task
          /\ UNCHANGED <<server, cred, missed>>
    BY <1>7 DEF Take
  <2>2. PICK rec : rec = [Resting EXCEPT !.at = "exchange", !.state = s]
    OBVIOUS
  <2>3. rec.at \notin Held \cup {"refresh"}
    BY <2>2 DEF Resting, Held
  <2>4. CASE Goes(t, rec)
    BY <1>4, <2>1, <2>3, <2>4 DEF Holding, AtStep
  <2>5. CASE UNCHANGED task
    BY <2>1, <2>5 DEF GrantsOwned, StoredOwned, ReaderOwned, HolderOwned, Known, Newest,
                      Older, Alike, HoldsOf, Holding
  <2> QED
    BY <2>1, <2>2, <2>4, <2>5
<1>8. ASSUME NEW t \in Tasks, BeginEdit(t) PROVE GrantsOwned'
  <2>1. PICK rec : rec = [Resting EXCEPT !.at = "edit", !.read = cred]
    OBVIOUS
  <2>2. rec.at \notin Held \cup {"refresh"}
    BY <2>1 DEF Resting, Held
  <2> QED
    BY <1>4, <1>8, <2>1, <2>2 DEF BeginEdit, Holding, AtStep
<1>9. ASSUME NEW t \in Tasks, Edit(t) PROVE GrantsOwned'
  <2>1. ~missed /\ task[t].read.version = cred.version /\ task[t].at = "edit"
    BY <1>9 DEF Edit, AtStep, OAuthShapes
  <2>2. task[t].read = cred
    BY <1>1, <2>1 DEF ReadRight
  <2>3. cred'.bundle = cred.bundle
    BY <1>1, <1>9, <2>2 DEF Edit, Credentials
  <2> QED
    BY <1>2, <1>4, <1>9, <2>1, <2>3 DEF Edit, Rests, Holding
<1>10. ASSUME NEW t \in Tasks, Exchange(t) PROVE GrantsOwned'
  <2>1. PICK s : s = task[t].state
    OBVIOUS
  <2>2. /\ s \in States /\ Exchanging(t, s) /\ ~missed /\ ~Holding(t)
        /\ code' = [code EXCEPT ![s] = "spent"] /\ UNCHANGED <<rotates, cred>>
    BY <1>1, <1>10, <2>1 DEF Exchange, AtStep, Fitting, Exchanging, Holding
  <2>3. \A x \in States : code[x] = "spent" => code'[x] = "spent"
    BY <2>2 DEF OAuthShapes
  <2>4. CASE Rests(t) /\ UNCHANGED issued
    BY <1>2, <1>4, <2>2, <2>3, <2>4 DEF Rests
  <2>5. ASSUME NEW refresh \in {0, 1}, issued' = [issued EXCEPT ![s] = refresh],
               Goes(t, [task[t] EXCEPT !.at = "merge", !.tokens = Issue(s, refresh)])
        PROVE  GrantsOwned'
    <3>1. PICK rec : rec = [task[t] EXCEPT !.at = "merge", !.tokens = Issue(s, refresh)]
      OBVIOUS
    <3>2. /\ rec.at = "merge" /\ rec.tokens.grant = s /\ rec.tokens.refresh = refresh
      BY <1>1, <3>1 DEF TaskRecords, Issue
    <3> QED
      BY <2>2, <2>5, <3>1, <3>2, GrantBegins
  <2> QED
    BY <1>10, <2>1, <2>4, <2>5 DEF Exchange
<1>11. ASSUME NEW t \in Tasks, Merge(t) PROVE GrantsOwned'
  <2>1. PICK rec : rec = [task[t] EXCEPT !.at = "store", !.read = cred]
    OBVIOUS
  <2>2. rec.at = "store" /\ rec.tokens = task[t].tokens
    BY <1>1, <2>1 DEF TaskRecords
  <2> QED
    BY <1>11, <2>1, <2>2, GrantsStay DEF Merge, Holding, AtStep
<1>12. ASSUME NEW t \in Tasks, StoreTokens(t) PROVE GrantsOwned'
  <2>1. PICK rec : Goes(t, rec) /\ rec.at \in {"idle", "dial"}
    BY <1>2, <1>3, <1>12 DEF StoreTokens, AfterStore, Rests
  <2>2. task[t].tokens \in Bundles /\ Holding(t) /\ ~missed
    BY <1>1, <1>12 DEF StoreTokens, AtStep, Fitting, Holding, OAuthShapes
  <2>3. cred' = [task[t].read EXCEPT !.version = cred.version + 1,
                     !.bundle = [task[t].tokens EXCEPT !.expires = now + Lifetime]]
    BY <1>12 DEF StoreTokens
  <2>4. /\ cred'.bundle.grant = task[t].tokens.grant
        /\ cred'.bundle.refresh = task[t].tokens.refresh
    BY <1>1, <2>2, <2>3 DEF Bundles, Credentials, TaskRecords
  <2> QED
    BY <1>12, <2>1, <2>2, <2>4, TokensAreStored DEF StoreTokens
<1>13. ASSUME NEW t \in Tasks, BeginConnect(t) PROVE GrantsOwned'
  <2>1. PICK rec \in {[Resting EXCEPT !.at = "refresh", !.read = cred, !.since = now],
                      [Resting EXCEPT !.at = "dial", !.since = now],
                      [Resting EXCEPT !.at = "dial", !.refused = TRUE, !.since = now]} :
            Goes(t, rec)
    BY <1>13 DEF BeginConnect
  <2>2. rec.at = "dial" \/ (rec.at = "refresh" /\ rec.read = cred)
    BY <2>1 DEF Resting
  <2>3. ~Holding(t) /\ cred.bundle # Absent /\ UNCHANGED <<server, cred, missed>>
    BY <1>13 DEF BeginConnect, Holding, AtStep
  <2>4. CASE rec.at = "dial"
    BY <1>4, <2>1, <2>3, <2>4 DEF Held
  <2>5. CASE rec.at = "refresh"
    BY <2>1, <2>2, <2>3, <2>5, ReaderJoins
  <2> QED
    BY <2>2, <2>4, <2>5
<1>14. ASSUME NEW t \in Tasks, Refresh(t) PROVE GrantsOwned'
  <2>1. PICK b : b = task[t].read.bundle
    OBVIOUS
  <2> DEFINE next == IF rotates THEN issued[b.grant] + 1 ELSE 0
             new  == Keeping(Issue(b.grant, next), b)
  <2>2. /\ b \in Bundles /\ task[t].at = "refresh" /\ b.refresh # 0 /\ ~Holding(t)
        /\ UNCHANGED <<code, rotates, cred>>
    BY <1>1, <1>14, <2>1 DEF Refresh, AtStep, Fitting, Holding
  <2>3. \/ /\ Accepts(b) /\ ~missed
           /\ issued' = [issued EXCEPT ![b.grant] = IF rotates THEN next ELSE @]
           /\ Goes(t, [task[t] EXCEPT !.at = "superseded", !.tokens = new])
        \/ Dials(t, TRUE) /\ UNCHANGED <<issued, missed>>
    BY <1>14, <2>1 DEF Refresh
  <2>4. CASE Dials(t, TRUE) /\ UNCHANGED <<issued, missed>>
    <3>1. PICK rec : Goes(t, rec) /\ rec.at = "dial"
      BY <1>3, <2>4
    <3> QED
      BY <1>4, <2>2, <2>4, <3>1 DEF Held
  <2>5. CASE /\ Accepts(b) /\ ~missed
             /\ issued' = [issued EXCEPT ![b.grant] = IF rotates THEN next ELSE @]
             /\ Goes(t, [task[t] EXCEPT !.at = "superseded", !.tokens = new])
    <3>1. b.grant \in States /\ issued[b.grant] \in Nat
      BY <2>2 DEF Bundles, OAuthShapes
    <3>2. /\ new.grant = b.grant
          /\ new.refresh = IF rotates THEN issued[b.grant] + 1 ELSE b.refresh
      BY <3>1 DEF Keeping, Issue
    <3>3. issued' = [issued EXCEPT ![b.grant] = IF rotates THEN @ + 1 ELSE @]
      BY <2>5, <3>1 DEF OAuthShapes
    <3> HIDE DEF new, next
    <3>4. PICK rec : rec = [task[t] EXCEPT !.at = "superseded", !.tokens = new]
      OBVIOUS
    <3>5. rec.at = "superseded" /\ rec.read = task[t].read /\ rec.tokens = new
      BY <1>1, <3>4 DEF TaskRecords
    <3>6. /\ rec.tokens.grant = b.grant
          /\ rec.tokens.refresh = IF rotates THEN issued[b.grant] + 1 ELSE b.refresh
      BY <3>2, <3>5
    <3>7. Goes(t, rec) /\ Accepts(b) /\ GrantsOwned
      BY <2>5, <3>4
    <3> QED
      BY <2>1, <2>2, <3>3, <3>5, <3>6, <3>7, GrantIsRefreshed, Zenon
  <2> QED
    BY <2>3, <2>4, <2>5
<1>15. ASSUME NEW t \in Tasks, Superseded(t) PROVE GrantsOwned'
  <2>1. /\ Holding(t) /\ task[t].at = "superseded" /\ ~missed
        /\ UNCHANGED <<server, cred>>
    BY <1>15 DEF Superseded, AtStep, Holding, OAuthShapes
  <2>2. CASE SameBundle(task[t].read.bundle)
    <3>1. PICK rec : rec = [task[t] EXCEPT !.at = "merge", !.looked = cred.version,
                                           !.read = NoCredentials]
      OBVIOUS
    <3>2. rec.at = "merge" /\ rec.tokens = task[t].tokens
      BY <1>1, <3>1 DEF TaskRecords
    <3>3. Goes(t, rec)
      BY <1>15, <2>2, <3>1 DEF Superseded
    <3> QED
      BY <2>1, <3>2, <3>3, GrantsStay
  <2>3. CASE ~SameBundle(task[t].read.bundle)
    <3>1. PICK rec : Goes(t, rec) /\ rec.at = "dial"
      BY <1>3, <1>15, <2>3 DEF Superseded
    <3>2. rotates /\ cred.bundle # Absent => cred.bundle.grant # task[t].tokens.grant
      BY <2>1, <2>3 DEF GrantsOwned, HolderOwned, SameBundle
    <3> QED
      BY <2>1, <3>1, <3>2, GrantsStay DEF Held
  <2> QED
    BY <2>2, <2>3
<1>16. CASE ClockTick \/ UNCHANGED oauthVars
  BY <1>16 DEF ClockTick, oauthVars, GrantsOwned, StoredOwned, ReaderOwned, HolderOwned,
               Known, Newest, Older, Alike, HoldsOf, Holding
<1> QED
  BY <1>5, <1>6, <1>7, <1>8, <1>9, <1>10, <1>11, <1>12, <1>13, <1>14, <1>15, <1>16
     DEF OAuthNext

\* A step that leaves the stored tokens and the clock alone.
LEMMA FreshStays ==
    ASSUME OAuthShapes, FreshOwned, NEW t \in Tasks, NEW rec, Goes(t, rec),
           now' = now, cred'.bundle = cred.bundle, ~stale', FreshRight(rec)
    PROVE  FreshOwned'
<1>1. task'[t] = rec /\ \A u \in Tasks : u # t => task'[u] = task[u]
  BY GoesKeepsTasks DEF OAuthShapes
<1>2. ASSUME NEW u \in Tasks PROVE FreshRight(task[u])'
  <2>1. PICK r : r = task'[u]
    OBVIOUS
  <2>2. FreshRight(r)
    BY <1>1, <2>1 DEF FreshOwned
  <2> QED
    BY <2>1, <2>2 DEF FreshRight, Connecting
<1> QED
  BY <1>2 DEF FreshOwned

\* Tokens that are stored outlast every dial that is under way.
LEMMA StoredOutlasts ==
    ASSUME OAuthShapes, FreshOwned, NEW t \in Tasks, Skew < Lifetime, NEW rec, Goes(t, rec),
           now' = now, ~stale',
           cred'.bundle.until = now + Lifetime, cred'.bundle.expires = now + Lifetime,
           rec.at \in {"idle", "dial"},
           rec.at = "dial" => rec.since \in Nat /\ rec.since <= now /\ now <= rec.since + Skew
    PROVE  FreshOwned'
<1> USE OAuthAssumption
<1>1. task'[t] = rec /\ \A u \in Tasks : u # t => task'[u] = task[u]
  BY GoesKeepsTasks DEF OAuthShapes
<1>2. now \in Nat /\ \A u \in Tasks : task[u].since \in Nat /\ FreshRight(task[u])
  BY DEF OAuthShapes, TaskRecords, FreshOwned
<1>3. ASSUME NEW u \in Tasks PROVE FreshRight(task[u])'
  <2>1. PICK r : r = task'[u]
    OBVIOUS
  <2>2. /\ r.at \in Held => r.tokens.until = now + Lifetime
        /\ Connecting(r) => r.since <= now /\ now <= r.since + Skew /\ r.since \in Nat
    BY <1>1, <1>2, <2>1 DEF FreshRight, Connecting, Held
  <2>3. Connecting(r) => cred'.bundle.until > r.since + Skew
    BY <1>2, <2>2
  <2>4. r.at = "superseded" => Connecting(r)
    <3>1. CASE u = t
      BY <1>1, <2>1, <3>1
    <3>2. CASE u # t
      BY <1>1, <2>1, <3>2 DEF OAuthShapes, Fitting, Connecting, Held
    <3> QED
      BY <3>1, <3>2
  <2> QED
    BY <2>1, <2>2, <2>3, <2>4 DEF FreshRight, Connecting
<1> QED
  BY <1>3 DEF FreshOwned

LEMMA FreshInductive ==
    Skew < Lifetime =>
    (/\ OAuthShapes /\ ReadsOwned /\ (~missed => FreshOwned)
     /\ [OAuthNext]_oauthVars
     => (~missed => FreshOwned)')
<1> SUFFICES ASSUME Skew < Lifetime, OAuthShapes, ReadsOwned, ~missed => FreshOwned,
                    [OAuthNext]_oauthVars, ~missed'
             PROVE  FreshOwned'
  OBVIOUS
<1> USE OAuthAssumption DEF server, history
<1>1. /\ cred \in Credentials /\ now \in Nat
      /\ \A t \in Tasks : task[t] \in TaskRecords /\ Fitting(task[t]) /\ ReadRight(task[t])
      /\ \A t \in Tasks : task[t].since \in Nat
  BY DEF OAuthShapes, ReadsOwned, TaskRecords
<1>2. Resting.at = "idle" /\ FreshRight(Resting)
  BY DEF Resting, FreshRight, Connecting, Held
<1>3. ASSUME NEW t \in Tasks, BeginFails(t) \/ Park(t) PROVE FreshOwned'
  BY <1>2, <1>3, FreshStays DEF BeginFails, Park, Rests, FreshOwned
<1>4. ASSUME NEW t \in Tasks, BeginSignIn(t) PROVE FreshOwned'
  <2>1. PICK rec : rec = [task[t] EXCEPT !.at = "begin"]
    OBVIOUS
  <2>2. rec.at = "begin"
    BY <1>1, <2>1 DEF TaskRecords
  <2>3. FreshRight(rec)
    BY <2>2 DEF FreshRight, Connecting, Held
  <2> QED
    BY <1>4, <2>1, <2>3, FreshStays DEF BeginSignIn, StepsTo, FreshOwned
<1>5. ASSUME NEW t \in Tasks, Take(t) PROVE FreshOwned'
  <2>1. PICK s \in States :
          /\ IF Usable(parked[s])
             THEN Goes(t, [Resting EXCEPT !.at = "exchange", !.state = s])
             ELSE UNCHANGED task
          /\ UNCHANGED <<now, cred, missed, stale>>
    BY <1>5 DEF Take
  <2>2. PICK rec : rec = [Resting EXCEPT !.at = "exchange", !.state = s]
    OBVIOUS
  <2>3. FreshRight(rec)
    BY <2>2 DEF Resting, FreshRight, Connecting, Held
  <2>4. CASE Goes(t, rec)
    BY <2>1, <2>3, <2>4, FreshStays DEF FreshOwned
  <2>5. CASE UNCHANGED task
    BY <2>1, <2>5 DEF FreshOwned, FreshRight, Connecting
  <2> QED
    BY <2>1, <2>2, <2>4, <2>5
<1>6. ASSUME NEW t \in Tasks, Exchange(t) PROVE FreshOwned'
  <2>1. task[t].state \in States /\ UNCHANGED <<now, cred, missed, stale>>
    BY <1>1, <1>6 DEF Exchange, AtStep, Fitting
  <2>2. ASSUME NEW refresh,
               Goes(t, [task[t] EXCEPT !.at = "merge",
                                       !.tokens = Issue(task[t].state, refresh)])
        PROVE  FreshOwned'
    <3>1. PICK rec : rec = [task[t] EXCEPT !.at = "merge",
                                           !.tokens = Issue(task[t].state, refresh)]
      OBVIOUS
    <3>2. rec.at = "merge" /\ rec.state # Absent /\ rec.tokens.until = now + Lifetime
      BY <1>1, <2>1, <3>1 DEF TaskRecords, Issue
    <3>3. FreshRight(rec)
      BY <3>2 DEF FreshRight, Connecting
    <3> QED
      BY <2>1, <2>2, <3>1, <3>3, FreshStays DEF FreshOwned
  <2>3. CASE Rests(t)
    BY <1>2, <2>1, <2>3, FreshStays DEF Rests, FreshOwned
  <2> QED
    BY <1>6, <2>2, <2>3 DEF Exchange
<1>7. ASSUME NEW t \in Tasks, Merge(t) PROVE FreshOwned'
  <2>1. PICK rec : rec = [task[t] EXCEPT !.at = "store", !.read = cred]
    OBVIOUS
  <2>2. /\ rec.at = "store" /\ rec.tokens = task[t].tokens /\ rec.since = task[t].since
        /\ rec.state = task[t].state
    BY <1>1, <2>1 DEF TaskRecords
  <2>3. task[t].at = "merge" /\ UNCHANGED <<now, cred, missed, stale>> /\ Goes(t, rec)
    BY <1>7, <2>1 DEF Merge, AtStep
  <2>4. FreshRight(rec)
    BY <2>2, <2>3 DEF FreshOwned, FreshRight, Connecting, Held
  <2> QED
    BY <2>3, <2>4, FreshStays DEF FreshOwned
<1>8. ASSUME NEW t \in Tasks, StoreTokens(t) PROVE FreshOwned'
  <2>1. /\ task[t].tokens \in Bundles /\ ~missed /\ task[t].at = "store"
        /\ UNCHANGED <<now, stale>> /\ AfterStore(t)
    BY <1>1, <1>8 DEF StoreTokens, AtStep, Fitting, OAuthShapes
  <2>2. cred' = [task[t].read EXCEPT !.version = cred.version + 1,
                     !.bundle = [task[t].tokens EXCEPT !.expires = now + Lifetime]]
    BY <1>8 DEF StoreTokens
  <2>3. FreshRight(task[t])
    BY <2>1 DEF FreshOwned
  <2>4. cred'.bundle.until = now + Lifetime /\ cred'.bundle.expires = now + Lifetime
    BY <1>1, <2>1, <2>2, <2>3 DEF Bundles, Credentials, TaskRecords, FreshRight, Held
  <2>5. CASE task[t].state = Absent
    <3>1. PICK rec : rec = [Resting EXCEPT !.at = "dial", !.since = task[t].since,
                                           !.refused = FALSE]
      OBVIOUS
    <3>2. Goes(t, rec) /\ rec.at = "dial" /\ rec.since = task[t].since
      BY <2>1, <2>5, <3>1 DEF AfterStore, Dials, Resting
    <3>3. rec.since \in Nat /\ rec.since <= now /\ now <= rec.since + Skew
      BY <1>1, <2>1, <2>3, <2>5, <3>2 DEF FreshRight, Connecting, Held
    <3> QED
      BY <2>1, <2>4, <3>2, <3>3, StoredOutlasts DEF FreshOwned
  <2>6. CASE task[t].state # Absent
    BY <1>2, <2>1, <2>4, <2>6, StoredOutlasts DEF AfterStore, Rests, FreshOwned
  <2> QED
    BY <2>5, <2>6
<1>9. ASSUME NEW t \in Tasks, BeginConnect(t) PROVE FreshOwned'
  <2>1. /\ UNCHANGED <<now, cred, missed, stale>>
        /\ cred.bundle \in Bundles /\ ~missed /\ FreshOwned
    BY <1>1, <1>9 DEF BeginConnect, Credentials
  <2>2. now <= now + Skew /\ cred.bundle.until = cred.bundle.expires
        /\ cred.bundle.expires \in Nat
    BY <1>1, <1>9, <2>1 DEF FreshOwned, BeginConnect, Bundles
  <2>3. ASSUME NEW rec, rec = [Resting EXCEPT !.at = "refresh", !.read = cred, !.since = now]
        PROVE  FreshRight(rec)
    <3>1. rec.at = "refresh" /\ rec.read = cred /\ rec.since = now
      BY <2>3 DEF Resting
    <3> QED
      BY <1>1, <2>2, <3>1 DEF FreshRight, Connecting, Held
  <2>4. ASSUME NEW rec, rec = [Resting EXCEPT !.at = "dial", !.since = now],
               ~Due(cred.bundle)
        PROVE  FreshRight(rec)
    <3>1. rec.at = "dial" /\ rec.since = now
      BY <2>4 DEF Resting
    <3>2. cred.bundle # Absent /\ cred.bundle.refresh # 0 => cred.bundle.until > now + Skew
      BY <1>1, <2>2, <2>4 DEF Due
    <3> QED
      BY <1>1, <2>2, <3>1, <3>2 DEF FreshRight, Connecting, Held
  <2>5. ASSUME NEW rec,
               rec = [Resting EXCEPT !.at = "dial", !.refused = TRUE, !.since = now]
        PROVE  FreshRight(rec)
    <3>1. rec.at = "dial" /\ rec.since = now /\ rec.refused
      BY <2>5 DEF Resting
    <3> QED
      BY <1>1, <2>2, <3>1 DEF FreshRight, Connecting, Held
  <2>6. PICK rec : Goes(t, rec) /\ FreshRight(rec)
    BY <1>9, <2>3, <2>4, <2>5 DEF BeginConnect
  <2> QED
    BY <2>1, <2>6, FreshStays DEF FreshOwned
<1>10. ASSUME NEW t \in Tasks, Refresh(t) PROVE FreshOwned'
  <2>1. PICK b : b = task[t].read.bundle
    OBVIOUS
  <2> DEFINE next == IF rotates THEN issued[b.grant] + 1 ELSE 0
             new  == Keeping(Issue(b.grant, next), b)
  <2>2. /\ b \in Bundles /\ task[t].at = "refresh" /\ task[t].state = Absent
        /\ UNCHANGED <<now, cred, stale>>
    BY <1>1, <1>10, <2>1 DEF Refresh, AtStep, Fitting
  <2>3. \/ ~missed /\ Goes(t, [task[t] EXCEPT !.at = "superseded", !.tokens = new])
        \/ Dials(t, TRUE) /\ missed' = missed
    BY <1>10, <2>1 DEF Refresh
  <2>4. /\ ~missed
        /\ \/ Goes(t, [task[t] EXCEPT !.at = "superseded", !.tokens = new])
           \/ Dials(t, TRUE)
    <3>1. missed' = missed => ~missed
      OBVIOUS
    <3> QED
      BY <2>3, <3>1
  <2>5. FreshRight(task[t])
    BY <2>4 DEF FreshOwned
  <2>6. CASE Dials(t, TRUE)
    <3>1. PICK rec : rec = [Resting EXCEPT !.at = "dial", !.since = task[t].since,
                                           !.refused = TRUE]
      OBVIOUS
    <3>2. Goes(t, rec) /\ rec.at = "dial" /\ rec.since = task[t].since /\ rec.refused
      BY <2>6, <3>1 DEF Dials, Resting
    <3>3. FreshRight(rec)
      BY <2>2, <2>5, <3>2 DEF FreshRight, Connecting, Held
    <3> QED
      BY <2>2, <2>4, <3>2, <3>3, FreshStays DEF FreshOwned
  <2>7. CASE Goes(t, [task[t] EXCEPT !.at = "superseded", !.tokens = new])
    <3>1. new.until = now + Lifetime
      BY DEF Keeping, Issue
    <3> HIDE DEF new
    <3>2. PICK rec : rec = [task[t] EXCEPT !.at = "superseded", !.tokens = new]
      OBVIOUS
    <3>3. /\ rec.at = "superseded" /\ rec.tokens = new /\ rec.since = task[t].since
          /\ rec.read = task[t].read
      BY <1>1, <3>2 DEF TaskRecords
    <3>4. FreshRight(rec)
      BY <2>2, <2>5, <3>1, <3>3 DEF FreshRight, Connecting, Held
    <3> QED
      BY <2>2, <2>4, <2>7, <3>2, <3>4, FreshStays DEF FreshOwned
  <2> QED
    BY <2>4, <2>6, <2>7
<1>11. ASSUME NEW t \in Tasks, Superseded(t) PROVE FreshOwned'
  <2>1. /\ task[t].at = "superseded" /\ ~missed /\ UNCHANGED <<now, cred, stale>>
        /\ task[t].state = Absent /\ task[t].read.bundle \in Bundles
    BY <1>1, <1>11 DEF Superseded, AtStep, Fitting, OAuthShapes
  <2>2. FreshRight(task[t])
    BY <2>1 DEF FreshOwned
  <2>3. CASE SameBundle(task[t].read.bundle)
    <3>1. PICK rec : rec = [task[t] EXCEPT !.at = "merge", !.looked = cred.version,
                                           !.read = NoCredentials]
      OBVIOUS
    <3>2. rec.at = "merge" /\ rec.tokens = task[t].tokens /\ rec.since = task[t].since
      BY <1>1, <3>1 DEF TaskRecords
    <3>3. Goes(t, rec)
      BY <1>11, <2>3, <3>1 DEF Superseded
    <3>4. FreshRight(rec)
      BY <2>1, <2>2, <3>2 DEF FreshRight, Connecting, Held
    <3> QED
      BY <2>1, <3>3, <3>4, FreshStays DEF FreshOwned
  <2>4. CASE ~SameBundle(task[t].read.bundle)
    <3>1. PICK rec : rec = [Resting EXCEPT !.at = "dial", !.since = task[t].since,
                                           !.refused = FALSE]
      OBVIOUS
    <3>2. Goes(t, rec) /\ rec.at = "dial" /\ rec.since = task[t].since
      BY <1>11, <2>4, <3>1 DEF Superseded, Dials, Resting
    <3>3. cred.bundle # Absent => cred.bundle.until > task[t].since + Skew
      BY <2>1, <2>2, <2>4 DEF FreshRight, SameBundle
    <3>4. FreshRight(rec)
      BY <2>1, <2>2, <3>2, <3>3 DEF FreshRight, Connecting, Held
    <3> QED
      BY <2>1, <3>2, <3>4, FreshStays DEF FreshOwned
  <2> QED
    BY <2>3, <2>4
<1>12. ASSUME NEW t \in Tasks, Dial(t) PROVE FreshOwned'
  <2>1. task[t].at = "dial" /\ ~missed /\ UNCHANGED <<now, cred>> /\ Rests(t)
    BY <1>12 DEF Dial, AtStep
  <2>2. FreshRight(task[t]) /\ ~stale
    BY <2>1 DEF FreshOwned
  <2>3. cred.bundle # Absent => cred.bundle.until \in Nat
    BY <1>1 DEF Credentials, Bundles
  <2>4. ~(/\ cred.bundle # Absent /\ cred.bundle.until <= now
          /\ cred.bundle.refresh # 0 /\ ~task[t].refused)
    BY <1>1, <2>1, <2>2, <2>3 DEF FreshRight, Connecting
  <2>5. ~stale'
    BY <1>12, <2>2, <2>4 DEF Dial
  <2> QED
    BY <1>2, <2>1, <2>5, FreshStays DEF Rests
<1>13. ASSUME NEW t \in Tasks, BeginEdit(t) PROVE FreshOwned'
  <2>1. PICK rec : rec = [Resting EXCEPT !.at = "edit", !.read = cred]
    OBVIOUS
  <2>2. FreshRight(rec)
    BY <2>1 DEF Resting, FreshRight, Connecting, Held
  <2> QED
    BY <1>13, <2>1, <2>2, FreshStays DEF BeginEdit, FreshOwned
<1>14. ASSUME NEW t \in Tasks, Edit(t) PROVE FreshOwned'
  <2>1. ~missed /\ task[t].read.version = cred.version /\ task[t].at = "edit"
    BY <1>14 DEF Edit, AtStep, OAuthShapes
  <2>2. task[t].read = cred
    BY <1>1, <2>1 DEF ReadRight
  <2>3. cred'.bundle = cred.bundle
    BY <1>1, <1>14, <2>2 DEF Edit, Credentials
  <2> QED
    BY <1>2, <1>14, <2>1, <2>3, FreshStays DEF Edit, Rests, FreshOwned
<1>15. CASE ClockTick
  <2>1. ~missed /\ UNCHANGED <<cred, task, stale>> /\ now' = now + 1 /\ Prompt
    BY <1>15 DEF ClockTick
  <2>2. ASSUME NEW u \in Tasks PROVE FreshRight(task[u])'
    <3>1. PICK r : r = task[u]
      OBVIOUS
    <3>2. FreshRight(r) /\ r.at \notin Held /\ r.since \in Nat
          /\ (r.at \in {"refresh", "dial"} => now + 1 <= r.since + Skew)
      BY <1>1, <2>1, <3>1 DEF FreshOwned, Prompt, Held
    <3> QED
      BY <1>1, <2>1, <3>1, <3>2 DEF FreshRight, Connecting
  <2> QED
    BY <2>1, <2>2 DEF FreshOwned
<1>16. CASE UNCHANGED oauthVars
  BY <1>16 DEF oauthVars, FreshOwned, FreshRight, Connecting
<1> QED
  BY <1>3, <1>4, <1>5, <1>6, <1>7, <1>8, <1>9, <1>10, <1>11, <1>12, <1>13, <1>14, <1>15,
     <1>16 DEF OAuthNext

LEMMA NothingSignedIn == OAuthInit => SignInOwned /\ FreshOwned
<1> SUFFICES ASSUME OAuthInit PROVE SignInOwned /\ FreshOwned
  OBVIOUS
<1> USE OAuthAssumption
<1>1. \A t \in Tasks : task[t] = Resting
  BY DEF OAuthInit
<1>2. OAuthShapes
  <2>1. /\ now \in 0..MaxNow /\ cred \in Credentials /\ rotates \in BOOLEAN
    BY RestingShape DEF OAuthInit
  <2>2. /\ code \in [States -> {"none", "issued", "spent"}]
        /\ issued \in [States -> 0..MaxTokens] /\ posted \in [States -> Nat]
    BY DEF OAuthInit
  <2>3. overdue \in BOOLEAN /\ missed \in BOOLEAN /\ stale \in BOOLEAN
    BY DEF OAuthInit
  <2>4. parked \in [States -> 0..MaxNow \cup {Absent}]
    BY DEF OAuthInit
  <2>5. task \in [Tasks -> TaskRecords] /\ \A t \in Tasks : Fitting(task[t])
    BY <1>1, RestingShape DEF OAuthInit
  <2> QED
    BY <2>1, <2>2, <2>3, <2>4, <2>5 DEF OAuthShapes
<1>3. /\ Resting.at = "idle" /\ Resting.tokens = Absent /\ Resting.read.bundle = Absent
      /\ cred.bundle = Absent
  BY DEF Resting, NoCredentials, OAuthInit
<1>4. CodesOwned
  BY <1>1, <1>3 DEF OAuthInit, CodesOwned, SpentGrant, Exchanging
<1>5. ReadsOwned
  BY <1>1, <1>3 DEF ReadsOwned, ReadRight
<1>6. GrantsOwned
  BY <1>1, <1>3 DEF GrantsOwned, StoredOwned, ReaderOwned, HolderOwned, Holding
<1>7. FreshOwned
  BY <1>1, <1>3 DEF OAuthInit, FreshOwned, FreshRight, Connecting, Held
<1> QED
  BY <1>2, <1>4, <1>5, <1>6, <1>7 DEF SignInOwned

LEMMA SignInsInductive == SignInOwned /\ [OAuthNext]_oauthVars => SignInOwned'
<1> SUFFICES ASSUME SignInOwned, [OAuthNext]_oauthVars PROVE SignInOwned'
  OBVIOUS
<1>1. OAuthShapes /\ CodesOwned /\ ReadsOwned /\ (~missed => GrantsOwned)
  BY DEF SignInOwned
<1>2. (~missed => GrantsOwned)'
  BY <1>1, GrantsInductive
<1> QED
  BY <1>1, <1>2, ShapesInductive, CodesInductive, ReadsInductive DEF SignInOwned

LEMMA OwnedSignsInOnce ==
    SignInOwned => OAuthTypeOK /\ CodePostedOnce /\ StaleIsRefused /\ RefreshStaysPossible
<1> SUFFICES ASSUME SignInOwned
             PROVE  OAuthTypeOK /\ CodePostedOnce /\ StaleIsRefused /\ RefreshStaysPossible
  OBVIOUS
<1>1. OAuthShapes /\ CodesOwned
  BY DEF SignInOwned
<1>2. OAuthTypeOK
  BY <1>1 DEF OAuthTypeOK, OAuthShapes, CodesOwned, Credentials, TaskRecords
<1>3. CodePostedOnce /\ StaleIsRefused
  BY <1>1 DEF CodePostedOnce, StaleIsRefused, CodesOwned
<1>4. ASSUME cred.bundle # Absent, issued[cred.bundle.grant] # 0, ~missed,
             Settled(cred.bundle.grant)
      PROVE  Accepts(cred.bundle)
  <2>1. GrantsOwned
    BY <1>4 DEF SignInOwned
  <2>2. \A t \in Tasks : ~HoldsOf(t, cred.bundle.grant)
    BY <1>1, <1>4, AbsentAssumption
       DEF Settled, HoldsOf, Holding, OAuthShapes, Fitting
  <2>3. Known(cred.bundle) /\ Newest(cred.bundle)
    BY <1>4, <2>1, <2>2 DEF GrantsOwned, StoredOwned
  <2> QED
    BY <1>4, <2>3 DEF Known, Newest, Accepts
<1> QED
  BY <1>2, <1>3, <1>4 DEF RefreshStaysPossible

\* A state's code is posted at most once, no state older than its time is completed,
\* and while every merge has seen the write before it the stored refresh token is one
\* the server accepts: for any number of callers, sign-ins and refreshes, whether or
\* not the server rotates its refresh tokens, and however long its tokens last.
\* (registry/oauth/flow.rs:313-317, pending.rs:18-20, tokens.rs:137-141)
THEOREM CodesAreSpentOnce ==
    OAuthSpec => [](OAuthTypeOK /\ CodePostedOnce /\ StaleIsRefused /\ RefreshStaysPossible)
<1>1. OAuthInit => SignInOwned
  BY NothingSignedIn
<1> QED
  BY <1>1, SignInsInductive, OwnedSignsInOnce, PTL DEF OAuthSpec

\* With access tokens that outlast the skew, no session opens with a token that a
\* refresh could have replaced either: "a session never opens with a stale token".  A
\* token that does not outlast it may expire between its refresh and the dial.
\* (registry/connections/types.rs:386-397)
THEOREM SignInsStaySound == Skew < Lifetime => (OAuthSpec => []OAuthInv)
<1> SUFFICES ASSUME Skew < Lifetime PROVE OAuthSpec => []OAuthInv
  OBVIOUS
<1>1. OAuthInit => OAuthOwned
  BY NothingSignedIn DEF OAuthOwned
<1>2. OAuthOwned /\ [OAuthNext]_oauthVars => OAuthOwned'
  <2> SUFFICES ASSUME OAuthOwned, [OAuthNext]_oauthVars PROVE OAuthOwned'
    OBVIOUS
  <2>1. OAuthShapes /\ ReadsOwned /\ (~missed => FreshOwned) /\ SignInOwned
    BY DEF OAuthOwned, SignInOwned
  <2>2. (~missed => FreshOwned)'
    BY <2>1, FreshInductive
  <2> QED
    BY <2>1, <2>2, SignInsInductive DEF OAuthOwned
<1>3. OAuthOwned => OAuthInv
  <2> SUFFICES ASSUME OAuthOwned PROVE OAuthInv
    OBVIOUS
  <2>1. SignInOwned /\ (~missed => ~stale)
    BY DEF OAuthOwned, FreshOwned
  <2>2. SessionsOpenFresh
    BY <2>1 DEF SessionsOpenFresh
  <2> QED
    BY <2>1, <2>2, OwnedSignsInOnce DEF OAuthInv
<1> QED
  BY <1>1, <1>2, <1>3, PTL DEF OAuthSpec

\* A refresh replaces the tokens of another sign-in only when those were stored after
\* it had looked: the look compares the stored bundle, and every write counts.
\* (registry/oauth/tokens.rs:143-146, 159-163)
THEOREM RefreshRespectsSignIn == OAuthSpec => SignInSurvives
<1> USE OAuthAssumption
<1>1. OAuthInit => SignInOwned
  BY NothingSignedIn
<1> DEFINE Survives ==
       \A t \in Tasks :
          /\ AtStep(t, "store") /\ task[t].state = Absent /\ cred' # cred
          /\ cred.bundle # Absent /\ cred.bundle.grant # task[t].tokens.grant
          => cred.version > task[t].looked
<1>2. SignInOwned => Survives
  <2> SUFFICES ASSUME SignInOwned, NEW t \in Tasks,
                      AtStep(t, "store"), task[t].state = Absent,
                      cred.bundle.grant # task[t].tokens.grant
               PROVE  cred.version > task[t].looked
    OBVIOUS
  <2>1. /\ ReadRight(task[t])
        /\ cred \in Credentials /\ task[t] \in TaskRecords
    BY DEF SignInOwned, ReadsOwned, OAuthShapes
  <2>2. cred.version \in Nat /\ task[t].looked \in Nat
    BY <2>1 DEF Credentials, TaskRecords
  <2> QED
    BY <2>1, <2>2 DEF ReadRight, AtStep
<1>3. SignInOwned /\ [OAuthNext]_oauthVars => [Survives]_oauthVars
  BY <1>2
<1> QED
  BY <1>1, <1>2, SignInsInductive, PTL DEF OAuthSpec, SignInSurvives

-----------------------------------------------------------------------------
(* ClientLifecycle: for any directories, whoever else opens and closes the *)
(* module's other ones, and whatever calls are lost.                       *)

WorksOn(d) == worker # None /\ worker.dir = d

ServesAt(d, c, p) ==
    IF c = None THEN served[d] = None
    ELSE served[d] # None /\ served[d].client = c /\ served[d].path = p

Completed(t) == seen[t] = "complete" \/ <<t, "complete">> \in publish

\* A transition of another directory.
Elsewhere(d, t) == worker # None /\ worker.dir # d /\ worker.tid = t

\* A receipt that is handed out again is that of the worker.
ReceiptsTell ==
    \A d \in Dirs : pending[d] # None =>
        /\ WorksOn(d)
        /\ pending[d].tid = worker.tid /\ pending[d].path = worker.path
        /\ pending[d].kind = "Close" <=> worker.to = None
        /\ pending[d].kind = "OpenConfigured" => pending[d].client = worker.to

ModuleMatches == DirTypeOK /\ Matches /\ ReceiptsTell

\* What a step that is no call about d may do to it.
Undisturbed(d) ==
    /\ lastTid <= lastTid'
    /\ \/ /\ WorksOn(d)' <=> WorksOn(d)
          /\ WorksOn(d) => /\ worker'.tid = worker.tid /\ worker'.to = worker.to
                           /\ worker'.path = worker.path
          /\ served'[d] = served[d]
          /\ \A t \in Tids : t <= lastTid /\ ~Elsewhere(d, t) =>
                /\ ~Elsewhere(d, t)'
                /\ Completed(t)' => Completed(t)
                /\ Completed(t) => Completed(t)' \/ seen'[t] = "unknown"
                /\ seen[t] = "unknown" => seen'[t] = "unknown"
       \/ /\ WorksOn(d) /\ worker' = None
          /\ \E w \in {worker} :
                \/ Completed(w.tid)' /\ ServesAt(d, w.to, w.path)'
                \/ ~Completed(w.tid)' /\ served'[d] = served[d]

LEMMA PendingIsWorkers ==
    ASSUME DirTypeOK, Matches, NEW d \in Dirs
    PROVE  pending[d] # None <=> WorksOn(d)
BY DEF Matches, PendingMatches, WorksOn

\* The worker goes on, and leaves what is recorded as it is.
LEMMA MovingUndisturbed ==
    ASSUME DirTypeOK, NEW d \in Dirs,
           UNCHANGED <<served, publish, seen, lastTid>>,
           \/ worker' = worker
           \/ /\ worker # None /\ worker' # None /\ worker'.dir = worker.dir
              /\ worker'.tid = worker.tid /\ worker'.to = worker.to
              /\ worker'.path = worker.path
    PROVE  Undisturbed(d)
<1>1. lastTid \in Nat
  BY DirectoriesAssumption DEF DirTypeOK
<1>2. WorksOn(d)' <=> WorksOn(d)
  BY DEF WorksOn
<1>3. \A t \in Tids : Completed(t)' = Completed(t) /\ Elsewhere(d, t)' = Elsewhere(d, t)
  BY DEF Completed, Elsewhere
<1> QED
  BY <1>1, <1>2, <1>3 DEF Undisturbed, WorksOn

LEMMA WorkerUndisturbed ==
    ASSUME DirTypeOK, Matches, NEW d \in Dirs, WorkerStep
    PROVE  Undisturbed(d)
<1>1. worker # None
  BY DEF WorkerStep, Quiesce, Export, ExportFails, Stop, Complete, Fail, At
<1>2. CASE Quiesce
  BY <1>1, <1>2, GotoKeeps, MovingUndisturbed DEF Quiesce
<1>3. CASE Export
  BY <1>1, <1>3, GotoKeeps, MovingUndisturbed DEF Export
<1>4. CASE ExportFails
  BY <1>1, <1>4, GotoKeeps, MovingUndisturbed DEF ExportFails
<1>5. CASE Stop
  BY <1>1, <1>5, GotoKeeps, MovingUndisturbed DEF Stop
<1>6. ASSUME NEW st \in {"complete", "failed"}, LetGo(st), NEW w, w = worker,
             \A e \in Dirs : e # w.dir => served'[e] = served[e],
             st = "complete" => ServesAt(w.dir, w.to, w.path)',
             st = "failed" => served' = served
      PROVE  Undisturbed(d)
  <2>1. /\ worker' = None /\ publish' = publish \cup {<<w.tid, st>>}
        /\ seen' = seen /\ lastTid' = lastTid /\ lastTid \in Nat
    BY <1>6, DirectoriesAssumption DEF LetGo, DirTypeOK
  <2>2. ~WorksOn(d)'
    BY <2>1 DEF WorksOn
  <2>3. CASE WorksOn(d)
    <3>1. ~Completed(w.tid)
      BY <1>1, <1>6 DEF Matches, StatusesMatch, Completed
    <3>2. Completed(w.tid)' <=> st = "complete"
      BY <1>6, <2>1, <3>1 DEF Completed
    <3> QED
      BY <1>6, <2>1, <2>3, <3>2 DEF Undisturbed, WorksOn
  <2>4. CASE ~WorksOn(d)
    <3>1. served'[d] = served[d]
      BY <1>1, <1>6, <2>4 DEF WorksOn
    <3>2. ASSUME NEW t \in Tids, ~Elsewhere(d, t)
          PROVE  ~Elsewhere(d, t)' /\ (Completed(t)' <=> Completed(t))
      BY <1>1, <1>6, <2>1, <2>4, <3>2 DEF Elsewhere, WorksOn, Completed
    <3> QED
      BY <2>1, <2>2, <2>4, <3>1, <3>2 DEF Undisturbed
  <2> QED
    BY <2>3, <2>4
<1>7. CASE Complete
  <2>1. /\ LetGo("complete") /\ worker.dir \in Dirs /\ worker.path \in Paths
        /\ worker.to \in Clients \cup {None} /\ worker.tid \in Services
    BY <1>1, <1>7, WorkerFields DEF Complete
  <2>2. served' = [served EXCEPT ![worker.dir] =
              IF worker.to = None THEN None
              ELSE [path |-> worker.path, client |-> worker.to, by |-> worker.tid]]
    BY <1>7 DEF Complete
  <2>3. worker.to # None =>
          [path |-> worker.path, client |-> worker.to, by |-> worker.tid] \in ServedRecords
    BY <2>1 DEF ServedRecords
  <2>4. served \in [Dirs -> {None} \cup ServedRecords]
    BY DEF DirTypeOK
  <2>5. served'[worker.dir] =
              IF worker.to = None THEN None
              ELSE [path |-> worker.path, client |-> worker.to, by |-> worker.tid]
    BY <2>1, <2>2, <2>4
  <2>6. PICK w : w = worker
    OBVIOUS
  <2>7. ServesAt(w.dir, w.to, w.path)'
    BY <2>3, <2>5, <2>6, NoneAssumption DEF ServesAt
  <2>8. \A e \in Dirs : e # w.dir => served'[e] = served[e]
    BY <2>2, <2>4, <2>6
  <2> QED
    BY <1>6, <2>1, <2>6, <2>7, <2>8
<1>8. CASE Fail
  BY <1>6, <1>8 DEF Fail
<1> QED
  BY <1>2, <1>3, <1>4, <1>5, <1>7, <1>8 DEF WorkerStep

\* A status is published that was about to be.
LEMMA PublishUndisturbed ==
    ASSUME DirTypeOK, Matches, NEW d \in Dirs, Publish
    PROVE  Undisturbed(d)
<1>1. PICK p \in publish : publish' = publish \ {p} /\ seen' = [seen EXCEPT ![p[1]] = p[2]]
  BY DEF Publish
<1>2. /\ UNCHANGED <<served, worker, lastTid>> /\ lastTid \in Nat
  BY DirectoriesAssumption DEF Publish, DirTypeOK
<1>3. /\ p[1] \in Tids /\ p[2] \in {"complete", "failed"} /\ p = <<p[1], p[2]>>
      /\ seen[p[1]] = "pending"
  BY <1>1 DEF DirTypeOK, Matches, StatusesMatch
<1>4. ASSUME NEW t \in Tids
      PROVE  /\ Completed(t)' <=> Completed(t)
             /\ seen[t] = "unknown" => seen'[t] = "unknown"
  <2>1. seen'[t] = IF t = p[1] THEN p[2] ELSE seen[t]
    BY <1>1 DEF DirTypeOK
  <2>2. CASE t = p[1]
    <3>1. <<t, "complete">> \in publish => p[2] = "complete"
      BY <1>1, <2>2 DEF Matches, StatusesMatch
    <3>2. <<t, "complete">> \in publish' => FALSE
      BY <1>1, <1>3, <2>2, <3>1
    <3> QED
      BY <1>1, <1>3, <2>1, <2>2, <3>1, <3>2 DEF Completed
  <2>3. CASE t # p[1]
    BY <1>1, <1>3, <2>1, <2>3 DEF Completed
  <2> QED
    BY <2>2, <2>3
<1>5. WorksOn(d)' <=> WorksOn(d)
  BY <1>2 DEF WorksOn
<1>6. \A t \in Tids : Elsewhere(d, t)' <=> Elsewhere(d, t)
  BY <1>2 DEF Elsewhere
<1> QED
  BY <1>2, <1>4, <1>5, <1>6 DEF Undisturbed

\* What the observations keep of an older transition when a new one is added.
LEMMA OlderObserved ==
    ASSUME DirTypeOK, NEW st \in {"pending", "complete"}, NewTransition(st), publish' = publish
    PROVE  \A t \in Tids : t <= lastTid =>
              /\ Completed(t)' => Completed(t)
              /\ Completed(t) => Completed(t)' \/ seen'[t] = "unknown"
              /\ seen[t] = "unknown" => seen'[t] = "unknown"
<1>1. /\ lastTid \in Nat /\ lastTid + 1 \in Tids /\ seen \in [Tids -> Statuses]
  BY NewTransitionFacts DEF DirTypeOK, Statuses
<1>2. seen' = [Prune(seen) EXCEPT ![lastTid + 1] = st] /\ Prune(seen) \in [Tids -> Statuses]
  BY <1>1, PruneKeeps DEF NewTransition
<1>3. \A t \in Tids : Prune(seen)[t] \in {seen[t], "unknown"}
  BY <1>1 DEF Prune
<1>4. ASSUME NEW t \in Tids, t <= lastTid PROVE seen'[t] \in {seen[t], "unknown"}
  <2>1. t # lastTid + 1
    BY <1>1, <1>4 DEF Tids
  <2> QED
    BY <1>2, <1>3, <2>1
<1> QED
  BY <1>4 DEF Completed, Statuses

\* A call about another directory.
LEMMA OtherCallUndisturbed ==
    ASSUME DirTypeOK, Matches, NEW d \in Dirs, NEW e \in Dirs, e # d, NEW reply,
           \/ \E c \in Clients : OpenConfigured(e, c, reply)
           \/ Open(e, reply)
           \/ Close(e, reply)
    PROVE  Undisturbed(d)
<1>1. CASE UNCHANGED dirVars
  BY <1>1, MovingUndisturbed DEF dirVars
<1>2. CASE worker = None /\ AnswerUnchanged(e, reply)
  <2>1. /\ NewTransition("complete") /\ UNCHANGED <<served, worker, publish>>
        /\ lastTid' = lastTid + 1 /\ lastTid \in Nat
    BY <1>2, NewTransitionFacts DEF AnswerUnchanged
  <2> QED
    BY <1>2, <2>1, OlderObserved DEF Undisturbed, WorksOn, Elsewhere
<1>3. ASSUME worker = None, NewTransition("pending"), UNCHANGED <<served, publish>>,
             worker' \in WorkerRecords, worker'.dir = e, worker'.tid = lastTid + 1
      PROVE  Undisturbed(d)
  <2>1. lastTid' = lastTid + 1 /\ lastTid \in Nat
    BY <1>3, NewTransitionFacts
  <2>2. ~WorksOn(d) /\ ~WorksOn(d)'
    BY <1>3 DEF WorksOn
  <2>3. \A t \in Tids : t <= lastTid => ~Elsewhere(d, t)'
    BY <1>3, <2>1 DEF Elsewhere, Tids
  <2> QED
    BY <1>3, <2>1, <2>2, <2>3, OlderObserved DEF Undisturbed
<1>4. ASSUME worker = None, NEW c \in Clients, NEW kind \in {"Open", "OpenConfigured"},
             StartOpen(e, c, kind, reply)
      PROVE  Undisturbed(d)
  <2>1. worker' \in WorkerRecords
    BY <1>4, StartOpenType DEF Matches
  <2>2. worker'.dir = e /\ worker'.tid = lastTid + 1
    BY <1>4 DEF StartOpen
  <2> QED
    BY <1>3, <1>4, <2>1, <2>2 DEF StartOpen
<1>5. CASE worker = None /\ served[e] # None /\ StartClose(e, reply)
  <2>1. worker' \in WorkerRecords
    BY <1>5, StartCloseType
  <2>2. worker'.dir = e /\ worker'.tid = lastTid + 1
    BY <1>5 DEF StartClose
  <2> QED
    BY <1>3, <1>5, <2>1, <2>2 DEF StartClose
<1>6. legacy \in Clients
  BY DEF DirTypeOK
<1> QED
  BY <1>1, <1>2, <1>4, <1>5, <1>6, CallCases

LEMMA HandlersUndisturbed ==
    ASSUME DirTypeOK, NEW d \in Dirs, NEW s \in Services, BeginCall(s) \/ EndCall(s)
    PROVE  Undisturbed(d)
BY MovingUndisturbed DEF BeginCall, EndCall

\* The receipts through every step of the module.
LEMMA StartedReceipt ==
    ASSUME DirTypeOK, Matches, DirTypeOK', Matches', worker = None, NEW d \in Dirs,
           NEW tid, NEW path, NEW kind, NEW c,
           pending' = [pending EXCEPT ![d] =
                         [tid |-> tid, path |-> path, kind |-> kind, client |-> c]],
           worker' # None, worker'.dir = d, worker'.tid = tid, worker'.path = path,
           kind = "Close" <=> worker'.to = None,
           kind = "OpenConfigured" => worker'.to = c
    PROVE  ReceiptsTell'
<1>1. \A e \in Dirs : pending'[e] # None => e = d
  BY DEF Matches, PendingMatches
<1>2. pending'[d] = [tid |-> tid, path |-> path, kind |-> kind, client |-> c]
  BY DEF DirTypeOK
<1> QED
  BY <1>1, <1>2 DEF ReceiptsTell, WorksOn

LEMMA ReceiptsInductive ==
    ASSUME ModuleMatches, [DirNext]_dirVars
    PROVE  ModuleMatches'
<1>1. DirTypeOK' /\ Matches' /\ DirTypeOK /\ Matches /\ ReceiptsTell
  BY DirStepKeeps DEF ModuleMatches
<1>2. ASSUME UNCHANGED pending,
             \/ worker' = worker
             \/ /\ worker # None /\ worker' # None /\ worker'.dir = worker.dir
                /\ worker'.tid = worker.tid /\ worker'.to = worker.to
                /\ worker'.path = worker.path
      PROVE  ReceiptsTell'
  BY <1>1, <1>2 DEF ReceiptsTell, WorksOn
<1>3. ASSUME NEW d \in Dirs, NEW reply,
             \/ \E c \in Clients : OpenConfigured(d, c, reply)
             \/ Open(d, reply)
             \/ Close(d, reply)
      PROVE  ReceiptsTell'
  <2>1. CASE UNCHANGED dirVars
    BY <1>2, <2>1 DEF dirVars
  <2>2. CASE worker = None /\ AnswerUnchanged(d, reply)
    BY <1>2, <2>2 DEF AnswerUnchanged
  <2>3. ASSUME worker = None, NEW c \in Clients, NEW kind \in {"Open", "OpenConfigured"},
               StartOpen(d, c, kind, reply)
        PROVE  ReceiptsTell'
    <3>1. worker' \in WorkerRecords
      BY <1>1, <2>3, StartOpenType DEF Matches
    <3>2. worker' # None /\ worker'.to = c /\ c # None /\ kind # "Close"
      BY <2>3, <3>1, NoneAssumption, NumberFacts DEF StartOpen
    <3>3. PICK path : path = IF served[d] = None THEN lastPath + 1 ELSE served[d].path
      OBVIOUS
    <3>4. PICK k : k = IF kind = "OpenConfigured" THEN c ELSE None
      OBVIOUS
    <3>5. pending' = [pending EXCEPT ![d] =
              [tid |-> lastTid + 1, path |-> path, kind |-> kind, client |-> k]]
      BY <2>3, <3>3, <3>4 DEF StartOpen
    <3>6. worker'.dir = d /\ worker'.tid = lastTid + 1 /\ worker'.path = path
      BY <2>3, <3>3 DEF StartOpen
    <3>7. PICK tid : tid = lastTid + 1
      OBVIOUS
    <3> QED
      BY <1>1, <2>3, <3>2, <3>4, <3>5, <3>6, <3>7, StartedReceipt
  <2>4. CASE worker = None /\ served[d] # None /\ StartClose(d, reply)
    <3>1. worker' \in WorkerRecords
      BY <1>1, <2>4, StartCloseType
    <3>2. worker' # None /\ worker'.to = None
      BY <2>4, <3>1, NoneAssumption DEF StartClose
    <3>3. PICK path, tid : path = served[d].path /\ tid = lastTid + 1
      OBVIOUS
    <3>4. pending' = [pending EXCEPT ![d] =
              [tid |-> tid, path |-> path, kind |-> "Close", client |-> None]]
      BY <2>4, <3>3 DEF StartClose
    <3>5. worker'.dir = d /\ worker'.tid = tid /\ worker'.path = path
      BY <2>4, <3>3 DEF StartClose
    <3> QED
      BY <1>1, <2>4, <3>2, <3>4, <3>5, StartedReceipt
  <2>5. legacy \in Clients
    BY <1>1 DEF DirTypeOK
  <2> QED
    BY <1>3, <2>1, <2>2, <2>3, <2>4, <2>5, CallCases
<1>4. ASSUME WorkerStep
      PROVE  ReceiptsTell'
  <2>1. worker # None
    BY <1>4 DEF WorkerStep, Quiesce, Export, ExportFails, Stop, Complete, Fail, At
  <2>7. ASSUME NEW step \in {"quiesce", "export", "stop", "complete", "fail"}, Goto(step)
        PROVE  /\ worker' # None /\ worker'.dir = worker.dir /\ worker'.tid = worker.tid
               /\ worker'.to = worker.to /\ worker'.path = worker.path
    BY <1>1, <2>1, <2>7, GotoKeeps
  <2>2. CASE Quiesce
    BY <1>2, <2>1, <2>2, <2>7 DEF Quiesce
  <2>3. CASE Export
    BY <1>2, <2>1, <2>3, <2>7 DEF Export
  <2>4. CASE ExportFails
    BY <1>2, <2>1, <2>4, <2>7 DEF ExportFails
  <2>5. CASE Stop
    BY <1>2, <2>1, <2>5, <2>7 DEF Stop
  <2>6. CASE Complete \/ Fail
    <3>1. worker' = None
      BY <2>6 DEF Complete, Fail, LetGo
    <3>2. \A d \in Dirs : pending'[d] # None <=> worker' # None /\ worker'.dir = d
      BY <1>1 DEF Matches, PendingMatches
    <3> QED
      BY <3>1, <3>2 DEF ReceiptsTell
  <2> QED
    BY <1>4, <2>2, <2>3, <2>4, <2>5, <2>6 DEF WorkerStep
<1> QED
  BY <1>1, <1>2, <1>3, <1>4 DEF ModuleMatches, DirNext, dirVars, Publish, BeginCall, EndCall

-----------------------------------------------------------------------------
(* The machine of a directory, in a state m.                               *)

\* The fields that a state holds.
WellFormed(m) ==
    /\ m \in Machines
    /\ m.at \in {"StartingOpen", "Opening", "Open"} => m.config \in Clients
    /\ m.at \in {"Opening", "Open"} => m.path \in Paths
    /\ m.at \in {"Opening", "Closing"} => m.tid \in Tids
    /\ m.at = "Closed" => m.config = None /\ m.prev = None /\ m.path = None /\ m.tid = None

\* A transition of the directory to settings c: while it goes on it is the worker's,
\* and if it completed the directory is served so.
Follows(d, t, c, p) ==
    /\ t <= lastTid /\ ~Elsewhere(d, t)
    /\ WorksOn(d) => worker.tid = t /\ worker.to = c /\ (c # None => worker.path = p)
    /\ ~WorksOn(d) /\ Completed(t) => ServesAt(d, c, p)

ServesAsBefore(d, object) ==
    IF object = None THEN served[d] = None ELSE ServesAt(d, object.client, object.path)

\* What a receipt the machine waits on tells it.
Tracks(d, m) ==
    /\ m.at = "Opening" => Follows(d, m.tid, m.config, m.path)
    /\ m.at = "Closing" => Follows(d, m.tid, None, None)

\* What it may rely on when every open it asked for has been heard of.
ReliesOn(d, m) ==
    /\ m.at = "Closed" => ~WorksOn(d) /\ served[d] = None
    /\ m.at = "Open" => ~WorksOn(d) /\ ServesAt(d, m.config, m.path)
    /\ m.at = "StartingOpen" => ~WorksOn(d) /\ ServesAsBefore(d, m.prev)
    /\ m.at = "Opening" =>
          Completed(m.tid) \/ seen[m.tid] = "unknown" \/ ServesAsBefore(d, m.prev)

LEMMA UndisturbedFollows ==
    ASSUME DirTypeOK, NEW d \in Dirs, Undisturbed(d), lastTid' \in Nat,
           NEW t \in Tids, NEW c, NEW p, Follows(d, t, c, p)
    PROVE  Follows(d, t, c, p)'
<1>1. t <= lastTid' /\ lastTid \in Nat /\ t \in Nat
  BY NumberFacts, DirectoriesAssumption DEF DirTypeOK, Undisturbed, Follows
<1>2. CASE WorksOn(d) /\ worker' = None
  <2>1. /\ worker.tid = t /\ worker.to = c /\ (c # None => worker.path = p)
    BY <1>2 DEF Follows
  <2>2. ~WorksOn(d)' /\ ~Elsewhere(d, t)'
    BY <1>2 DEF WorksOn, Elsewhere
  <2>3. Completed(t)' => ServesAt(d, c, p)'
    <3>1. CASE WorksOn(d)' <=> WorksOn(d)
      BY <1>2, <2>2, <3>1
    <3>2. ASSUME NEW w, w = worker, Completed(w.tid)', ServesAt(d, w.to, w.path)'
          PROVE  ServesAt(d, c, p)'
      BY <2>1, <3>2 DEF ServesAt
    <3>3. PICK w : w = worker
      OBVIOUS
    <3>4. \/ Completed(w.tid)' /\ ServesAt(d, w.to, w.path)'
          \/ ~Completed(w.tid)'
      BY <1>2, <2>2, <3>3 DEF Undisturbed
    <3>5. w.tid = t
      BY <2>1, <3>3
    <3> QED
      BY <3>2, <3>3, <3>4, <3>5
  <2> QED
    BY <1>1, <2>2, <2>3 DEF Follows
<1>3. CASE ~(WorksOn(d) /\ worker' = None)
  <2>1. /\ WorksOn(d)' <=> WorksOn(d)
        /\ WorksOn(d) => /\ worker'.tid = worker.tid /\ worker'.to = worker.to
                         /\ worker'.path = worker.path
        /\ served'[d] = served[d]
        /\ ~Elsewhere(d, t)' /\ (Completed(t)' => Completed(t))
    BY <1>3 DEF Undisturbed, Follows
  <2>2. ServesAt(d, c, p)' <=> ServesAt(d, c, p)
    BY <2>1 DEF ServesAt
  <2> QED
    BY <1>1, <2>1, <2>2 DEF Follows
<1> QED
  BY <1>2, <1>3

\* A step that is no call about a directory leaves its machine what it may rely on.
LEMMA UndisturbedTracks ==
    ASSUME DirTypeOK, Matches, NEW d \in Dirs, Undisturbed(d), lastTid' \in Nat,
           NEW m, WellFormed(m), Tracks(d, m)
    PROVE  Tracks(d, m)' /\ (ReliesOn(d, m) => ReliesOn(d, m)')
<1>1. m.at \in {"Opening", "Closing"} => m.tid \in Tids
  BY DEF WellFormed
<1>2. Tracks(d, m)'
  BY <1>1, UndisturbedFollows DEF Tracks
<1>3. ASSUME ReliesOn(d, m) PROVE ReliesOn(d, m)'
  <2>1. ASSUME ~WorksOn(d)
        PROVE  /\ ~WorksOn(d)' /\ served'[d] = served[d]
    BY <2>1 DEF Undisturbed
  <2>2. served'[d] = served[d] =>
           /\ ServesAsBefore(d, m.prev)' <=> ServesAsBefore(d, m.prev)
           /\ ServesAt(d, m.config, m.path)' <=> ServesAt(d, m.config, m.path)
    BY DEF ServesAsBefore, ServesAt
  <2>3. ASSUME m.at = "Opening"
        PROVE  Completed(m.tid)' \/ seen'[m.tid] = "unknown" \/ ServesAsBefore(d, m.prev)'
    <3>1. /\ Follows(d, m.tid, m.config, m.path)
          /\ Completed(m.tid) \/ seen[m.tid] = "unknown" \/ ServesAsBefore(d, m.prev)
      BY <1>3, <2>3 DEF Tracks, ReliesOn
    <3>2. CASE WorksOn(d) /\ worker' = None
      <4>1. worker.tid = m.tid /\ ~Completed(m.tid) /\ seen[m.tid] # "unknown"
        BY <3>1, <3>2 DEF Follows, WorksOn, Matches, StatusesMatch, Completed
      <4>2. Completed(m.tid)' \/ served'[d] = served[d]
        BY <3>2, <4>1 DEF Undisturbed, WorksOn
      <4> QED
        BY <2>2, <3>1, <4>1, <4>2
    <3>3. CASE ~(WorksOn(d) /\ worker' = None)
      <4>1. /\ served'[d] = served[d]
            /\ Completed(m.tid) => Completed(m.tid)' \/ seen'[m.tid] = "unknown"
            /\ seen[m.tid] = "unknown" => seen'[m.tid] = "unknown"
        BY <1>1, <2>3, <3>1, <3>3 DEF Undisturbed, Follows
      <4> QED
        BY <2>2, <3>1, <4>1
    <3> QED
      BY <3>2, <3>3
  <2> QED
    BY <1>3, <2>1, <2>2, <2>3 DEF ReliesOn
<1> QED
  BY <1>2, <1>3

-----------------------------------------------------------------------------
(* The steps of the machine.                                               *)

\* The states that replies and statuses lead to.
LEMMA MadeStates ==
    /\ WellFormed(NewMachine)
    /\ \A retried \in BOOLEAN : WellFormed(ClosedAgain(retried))
<1>1. /\ NewMachine = [at |-> "Closed", config |-> None, prev |-> None, path |-> None,
                       tid |-> None, retried |-> FALSE]
      /\ WellFormed(NewMachine)
  BY DEF WellFormed, Machines, NewMachine
<1>2. ASSUME NEW retried \in BOOLEAN PROVE WellFormed(ClosedAgain(retried))
  <2>1. ClosedAgain(retried) = [at |-> "Closed", config |-> None, prev |-> None, path |-> None,
                                tid |-> None, retried |-> retried]
    BY <1>1 DEF ClosedAgain
  <2> QED
    BY <2>1 DEF WellFormed, Machines
<1> QED
  BY <1>1, <1>2

\* The state that a completed open leads to.
LEMMA CompletedOpen ==
    ASSUME NEW m, m.config \in Clients, m.path \in Paths
    PROVE  /\ WellFormed(OpenPolled(m, "complete"))
           /\ OpenPolled(m, "complete").at = "Open"
           /\ OpenPolled(m, "complete").config = m.config
           /\ OpenPolled(m, "complete").path = m.path
<1>1. PICK open : open = [at |-> "Open", config |-> m.config, prev |-> None, path |-> m.path,
                          tid |-> None, retried |-> FALSE]
  OBVIOUS
<1>2. open \in Machines
  BY <1>1 DEF Machines
<1>3. WellFormed(open) /\ open.at = "Open" /\ open.config = m.config /\ open.path = m.path
  BY <1>1, <1>2 DEF WellFormed
<1>4. ASSUME NEW n, n = OpenPolled(m, "complete")
      PROVE  n = open
  <2>1. n = [at |-> "Open", config |-> m.config, prev |-> None, path |-> m.path, tid |-> None,
             retried |-> FALSE]
    BY <1>4 DEF OpenPolled, Opened, NewMachine
  <2> QED
    BY <1>1, <2>1
<1> QED
  BY <1>3, <1>4

\* An open that is asked for begins where the machine had settled.
LEMMA AskingKeeps ==
    ASSUME NEW d \in Dirs, NEW m, WellFormed(m), Tracks(d, m), NEW c \in Clients,
           NEW n, n = Asking(m, c)
    PROVE  /\ WellFormed(n) /\ Tracks(d, n)
           /\ ReliesOn(d, m) => ReliesOn(d, n)
<1>1. CASE m.at = "Closed"
  <2>1. n = [m EXCEPT !.at = "StartingOpen", !.config = c, !.prev = None]
    BY <1>1 DEF Asking
  <2>2. /\ WellFormed(n) /\ n.at = "StartingOpen" /\ n.prev = None
    BY <1>1, <2>1 DEF WellFormed, Machines
  <2> QED
    BY <1>1, <2>2 DEF Tracks, ReliesOn, ServesAsBefore
<1>2. CASE m.at = "Open" /\ m.config # c
  <2>1. PICK object : object = [client |-> m.config, path |-> m.path]
    OBVIOUS
  <2>2. object \in Objects /\ object # None
    BY <1>2, <2>1, ObjectsAssumption DEF Objects, WellFormed
  <2>3. n = [m EXCEPT !.at = "StartingOpen", !.config = c, !.path = None, !.prev = object]
    BY <1>2, <2>1 DEF Asking
  <2>4. WellFormed(n) /\ n.at = "StartingOpen" /\ n.prev = object
    BY <2>2, <2>3 DEF WellFormed, Machines
  <2> QED
    BY <1>2, <2>1, <2>2, <2>4 DEF Tracks, ReliesOn, ServesAsBefore
<1>3. CASE n = m
  BY <1>3
<1> QED
  BY <1>1, <1>2, <1>3 DEF Asking

\* What a reply makes of the machine, and what it says of the module.
LEMMA OpenRepliedFields ==
    ASSUME NEW m, WellFormed(m), m.at = "StartingOpen", NEW reply \in Replies,
           reply.ok => reply.path \in Paths /\ reply.tid \in Tids,
           NEW n, n = OpenReplied(m, reply)
    PROVE  /\ WellFormed(n)
           /\ reply.ok => n.at = "Opening" /\ n.config = m.config /\ n.prev = m.prev
                          /\ n.path = reply.path /\ n.tid = reply.tid
           /\ ~reply.ok /\ m.prev = None => n.at = "Closed"
           /\ ~reply.ok /\ m.prev # None =>
                 n.at = "Open" /\ n.config = m.prev.client /\ n.path = m.prev.path
                 /\ n.config # None
<1>1. CASE reply.ok
  <2>1. n = [m EXCEPT !.at = "Opening", !.path = reply.path, !.tid = reply.tid]
    BY <1>1 DEF OpenReplied
  <2> QED
    BY <1>1, <2>1 DEF WellFormed, Machines
<1>2. CASE ~reply.ok /\ m.prev = None
  <2>1. n = ClosedAgain(FALSE)
    BY <1>2 DEF OpenReplied
  <2> QED
    <3>1. WellFormed(n) /\ n.at = "Closed"
      BY <2>1, MadeStates DEF ClosedAgain, NewMachine
    <3> QED
      BY <1>2, <3>1
<1>3. CASE ~reply.ok /\ m.prev # None
  <2>1. m.prev.client \in Clients /\ m.prev.path \in Paths
    BY <1>3 DEF WellFormed, Machines, Objects
  <2>2. n = [Opened(m, m.prev.client, m.prev.path) EXCEPT !.retried = FALSE]
    BY <1>3 DEF OpenReplied
  <2>3. /\ WellFormed(n) /\ n.at = "Open" /\ n.config = m.prev.client /\ n.path = m.prev.path
        /\ n.config # None
    <3>1. n = [at |-> "Open", config |-> m.prev.client, prev |-> None,
               path |-> m.prev.path, tid |-> None, retried |-> FALSE]
      BY <2>2 DEF Opened, NewMachine
    <3>2. n \in Machines
      BY <2>1, <3>1 DEF Machines
    <3> QED
      BY <2>1, <3>1, <3>2, NumberFacts DEF WellFormed
  <2> QED
    BY <1>3, <2>3
<1> QED
  BY <1>1, <1>2, <1>3

\* An open that the module refuses leaves the machine where it was before, and one
\* that it accepts is followed, whether or not another open of it is under way.
LEMMA OpenCallKeeps ==
    ASSUME ModuleMatches, ModuleMatches', NEW d \in Dirs, NEW m, WellFormed(m),
           m.at = "StartingOpen", NEW reply \in Replies, OpenConfigured(d, m.config, reply),
           NEW n, n = OpenReplied(m, reply)
    PROVE  WellFormed(n) /\ Tracks(d, n)' /\ (ReliesOn(d, m) => ReliesOn(d, n)')
<1>1. /\ DirTypeOK /\ Matches /\ ReceiptsTell /\ m.config \in Clients /\ m.config # None
      /\ lastTid \in Nat
  BY NumberFacts, DirectoriesAssumption DEF ModuleMatches, WellFormed, DirTypeOK
<1>2. ASSUME reply.ok, reply.path \in Paths, reply.tid \in Tids,
             Follows(d, reply.tid, m.config, reply.path)',
             ReliesOn(d, m) =>
                \/ Completed(reply.tid)' \/ seen'[reply.tid] = "unknown"
                \/ ServesAsBefore(d, m.prev)'
      PROVE  WellFormed(n) /\ Tracks(d, n)' /\ (ReliesOn(d, m) => ReliesOn(d, n)')
  <2>1. WellFormed(n) /\ n.at = "Opening" /\ n.config = m.config /\ n.prev = m.prev
        /\ n.path = reply.path /\ n.tid = reply.tid
    BY <1>2, OpenRepliedFields
  <2> QED
    BY <1>2, <2>1 DEF Tracks, ReliesOn
<1>3. CASE /\ pending[d] # None
           /\ pending[d].kind = "OpenConfigured" /\ pending[d].client = m.config
           /\ reply = Accepted(pending[d].path, pending[d].tid)
           /\ UNCHANGED dirVars
  <2>1. /\ reply.ok /\ reply.path = pending[d].path /\ reply.tid = pending[d].tid
    BY <1>3 DEF Accepted
  <2>2. /\ WorksOn(d) /\ worker.tid = reply.tid /\ worker.to = m.config
        /\ worker.path = reply.path /\ worker # None
    BY <1>1, <1>3, <2>1 DEF ReceiptsTell, WorksOn
  <2>3. reply.path \in Paths /\ reply.tid \in Tids /\ reply.tid = lastTid
    BY <1>1, <2>2, WorkerFields DEF Matches, WorkerMatches
  <2>4. Follows(d, reply.tid, m.config, reply.path)
    BY <1>1, <2>2, <2>3 DEF Follows, WorksOn, Elsewhere
  <2>5. Follows(d, reply.tid, m.config, reply.path)'
    BY <1>3, <2>4 DEF dirVars, Follows, WorksOn, Elsewhere, Completed, ServesAt
  <2>6. ~ReliesOn(d, m)
    BY <2>2 DEF ReliesOn
  <2> QED
    BY <1>2, <2>1, <2>3, <2>5, <2>6
<1>4. CASE /\ ~Busy /\ Unchanged(d, m.config, TRUE) /\ AnswerUnchanged(d, reply)
  <2>1. /\ reply.ok /\ reply.path = served[d].path /\ reply.tid = lastTid + 1
        /\ NewTransition("complete") /\ UNCHANGED <<served, worker, publish>>
        /\ worker = None /\ served[d] # None /\ served[d].client = m.config
    BY <1>4 DEF Accepted, AnswerUnchanged, Unchanged, Busy
  <2>2. lastTid' = reply.tid /\ reply.tid \in Tids /\ seen'[reply.tid] = "complete"
    BY <1>1, <2>1, NewTransitionFacts
  <2>3. reply.path \in Paths
    BY <1>1, <2>1 DEF DirTypeOK, ServedRecords
  <2>4. Follows(d, reply.tid, m.config, reply.path)'
    BY <1>1, <2>1, <2>2 DEF Follows, WorksOn, Elsewhere, ServesAt, Tids
  <2>5. Completed(reply.tid)'
    BY <2>2 DEF Completed
  <2> QED
    BY <1>2, <2>1, <2>2, <2>3, <2>4, <2>5
<1>5. CASE ~Busy /\ StartOpen(d, m.config, "OpenConfigured", reply)
  <2>1. /\ reply.ok /\ reply.tid = lastTid + 1 /\ NewTransition("pending")
        /\ worker'.dir = d /\ worker'.tid = reply.tid /\ worker'.path = reply.path
        /\ worker'.to = m.config /\ served' = served /\ publish' = publish /\ worker = None
    BY <1>5 DEF StartOpen, Accepted, Busy
  <2>2. worker' # None /\ worker' \in WorkerRecords
    BY <1>1, <1>5, StartOpenType, NoneAssumption DEF Matches
  <2>3. lastTid' = reply.tid /\ reply.tid \in Tids /\ reply.path \in Paths
    BY <1>1, <2>1, <2>2, NewTransitionFacts DEF WorkerRecords
  <2>4. Follows(d, reply.tid, m.config, reply.path)'
    BY <1>1, <2>1, <2>2, <2>3 DEF Follows, WorksOn, Elsewhere, Tids
  <2>5. ReliesOn(d, m) => ServesAsBefore(d, m.prev)'
    BY <2>1 DEF ReliesOn, ServesAsBefore, ServesAt
  <2> QED
    BY <1>2, <2>1, <2>3, <2>4, <2>5
<1>6. CASE Refuse(reply)
  <2>1. ~reply.ok /\ UNCHANGED dirVars
    BY <1>6 DEF Refuse, Refused
  <2>2. /\ WellFormed(n)
        /\ m.prev = None => n.at = "Closed"
        /\ m.prev # None =>
              n.at = "Open" /\ n.config = m.prev.client /\ n.path = m.prev.path
    BY <2>1, OpenRepliedFields
  <2>3. ReliesOn(d, m) => ReliesOn(d, n)
    BY <2>2 DEF ReliesOn, ServesAsBefore
  <2>4. (ReliesOn(d, n) => ReliesOn(d, n)') /\ Tracks(d, n)'
    BY <2>1, <2>2 DEF dirVars, Tracks, ReliesOn, WorksOn, ServesAt
  <2> QED
    BY <2>2, <2>3, <2>4
<1> QED
  BY <1>3, <1>4, <1>5, <1>6 DEF OpenConfigured, OpenWithClient

\* What the module keeps to itself tells the machine nothing.
LEMMA NothingNew ==
    ASSUME NEW d, NEW m, UNCHANGED dirVars
    PROVE  (Tracks(d, m) => Tracks(d, m)') /\ (ReliesOn(d, m) => ReliesOn(d, m)')
BY DEF dirVars, Tracks, Follows, ReliesOn, ServesAsBefore, ServesAt, WorksOn, Completed, Elsewhere

\* A call that the machine does not hear of leaves it what it relies on, unless it
\* was accepted.
LEMMA LostOpenKeeps ==
    ASSUME NEW d \in Dirs, NEW m, m.at = "StartingOpen", NEW reply,
           OpenConfigured(d, m.config, reply)
    PROVE  Tracks(d, m)' /\ (reply.ok \/ (ReliesOn(d, m) => ReliesOn(d, m)'))
<1>1. Tracks(d, m)'
  BY DEF Tracks
<1>2. reply.ok \/ Refuse(reply)
  BY DEF OpenConfigured, OpenWithClient, AnswerUnchanged, StartOpen, Accepted
<1> QED
  BY <1>1, <1>2, NothingNew DEF Refuse

\* The module's word for the end of the transition a machine follows.
LEMMA EndIsTold ==
    ASSUME Matches, NEW d \in Dirs, NEW t, NEW c, NEW p, Follows(d, t, c, p)
    PROVE  /\ seen[t] = "complete" => ~WorksOn(d) /\ ServesAt(d, c, p)
           /\ seen[t] = "failed" => ~WorksOn(d) /\ ~Completed(t)
<1>1. WorksOn(d) => seen[t] = "pending"
  BY DEF Follows, WorksOn, Matches, StatusesMatch
<1>2. <<t, "complete">> \in publish => seen[t] = "pending"
  BY DEF Matches, StatusesMatch
<1> QED
  BY <1>1, <1>2 DEF Follows, Completed

LEMMA OpenPollKeeps ==
    ASSUME ModuleMatches, NEW d \in Dirs, NEW m, WellFormed(m), m.at = "Opening",
           Tracks(d, m), NEW n, n = OpenPolled(m, TransitionStatus(m.tid))
    PROVE  /\ WellFormed(n) /\ Tracks(d, n)
           /\ seen[m.tid] = "complete" => ReliesOn(d, n)
           /\ seen[m.tid] # "unknown" /\ ReliesOn(d, m) => ReliesOn(d, n)
<1>1. /\ Follows(d, m.tid, m.config, m.path) /\ m.tid \in Tids
      /\ m.config \in Clients /\ m.path \in Paths /\ Matches
      /\ seen[m.tid] \in {"unknown", "pending", "complete", "failed"}
  BY DEF Tracks, WellFormed, ModuleMatches, DirTypeOK
<1>2. CASE seen[m.tid] = "complete"
  <2>1. n = OpenPolled(m, "complete")
    BY <1>2 DEF TransitionStatus
  <2>2. WellFormed(n) /\ n.at = "Open" /\ n.config = m.config /\ n.path = m.path
    BY <1>1, <2>1, CompletedOpen
  <2>3. ~WorksOn(d) /\ ServesAt(d, m.config, m.path)
    BY <1>1, <1>2, EndIsTold
  <2> QED
    BY <2>2, <2>3 DEF Tracks, ReliesOn
<1>3. CASE seen[m.tid] = "pending"
  BY <1>3 DEF OpenPolled, TransitionStatus
<1>4. CASE seen[m.tid] \in {"failed", "unknown"} /\ m.retried
  <2>1. n = [m EXCEPT !.retried = FALSE]
    BY <1>4 DEF OpenPolled, TransitionStatus
  <2>2. WellFormed(n)
    BY <2>1 DEF WellFormed, Machines
  <2>3. n.at = m.at /\ n.tid = m.tid /\ n.config = m.config /\ n.path = m.path /\ n.prev = m.prev
    BY <2>1 DEF WellFormed, Machines
  <2> QED
    BY <1>4, <2>2, <2>3 DEF Tracks, ReliesOn
<1>5. CASE seen[m.tid] \in {"failed", "unknown"} /\ ~m.retried
  <2>1. n = [m EXCEPT !.at = "StartingOpen", !.path = None, !.tid = None, !.retried = TRUE]
    BY <1>5 DEF OpenPolled, TransitionStatus, Reopening
  <2>2. WellFormed(n)
    BY <1>1, <2>1 DEF WellFormed, Machines
  <2>3. n.at = "StartingOpen" /\ n.prev = m.prev
    BY <2>1 DEF WellFormed, Machines
  <2>4. seen[m.tid] = "failed" => ~WorksOn(d) /\ ~Completed(m.tid)
    BY <1>1, EndIsTold
  <2> QED
    BY <1>5, <2>2, <2>3, <2>4 DEF Tracks, ReliesOn
<1> QED
  BY <1>1, <1>2, <1>3, <1>4, <1>5

\* A close that the module accepts is followed; the directory is closed when it says
\* so, at once or of the transition.
LEMMA CloseCallKeeps ==
    ASSUME ModuleMatches, ModuleMatches', NEW d \in Dirs, NEW m, WellFormed(m),
           m.at = "StartingClose", NEW reply, Close(d, reply),
           NEW n, n = CloseReplied(m, reply)
    PROVE  WellFormed(n) /\ Tracks(d, n)' /\ ReliesOn(d, n)'
<1>1. DirTypeOK /\ Matches /\ ReceiptsTell /\ lastTid \in Nat
  BY DirectoriesAssumption DEF ModuleMatches, DirTypeOK
<1>2. ASSUME reply.ok, reply.tid \in Tids, Follows(d, reply.tid, None, None)'
      PROVE  WellFormed(n) /\ Tracks(d, n)' /\ ReliesOn(d, n)'
  <2>1. n = [m EXCEPT !.at = "Closing", !.tid = reply.tid]
    BY <1>2, NumberFacts DEF CloseReplied
  <2>2. WellFormed(n) /\ n.at = "Closing" /\ n.tid = reply.tid
    BY <1>2, <2>1 DEF WellFormed, Machines
  <2> QED
    BY <1>2, <2>2 DEF Tracks, ReliesOn
<1>3. CASE /\ pending[d] # None /\ pending[d].kind = "Close"
           /\ reply = Accepted(None, pending[d].tid) /\ UNCHANGED dirVars
  <2>1. /\ reply.ok /\ reply.tid = pending[d].tid
    BY <1>3 DEF Accepted
  <2>2. WorksOn(d) /\ worker.tid = reply.tid /\ worker.to = None /\ worker # None
    BY <1>1, <1>3, <2>1 DEF ReceiptsTell, WorksOn
  <2>3. reply.tid \in Tids /\ reply.tid = lastTid
    BY <1>1, <2>2, WorkerFields DEF Matches, WorkerMatches
  <2>4. Follows(d, reply.tid, None, None)
    BY <1>1, <2>2, <2>3 DEF Follows, WorksOn, Elsewhere
  <2>5. Follows(d, reply.tid, None, None)'
    BY <1>3, <2>4 DEF dirVars, Follows, WorksOn, Elsewhere, Completed, ServesAt
  <2> QED
    BY <1>2, <2>1, <2>3, <2>5
<1>4. CASE ~Busy /\ served[d] = None /\ reply = AlreadyClosed /\ UNCHANGED dirVars
  <2>1. reply.ok /\ reply.tid = None
    BY <1>4 DEF AlreadyClosed, Accepted
  <2>2. n = ClosedAgain(FALSE)
    BY <2>1 DEF CloseReplied
  <2>3. WellFormed(n) /\ n.at = "Closed"
    BY <2>2, MadeStates DEF ClosedAgain, NewMachine
  <2>4. ~WorksOn(d)' /\ served'[d] = None
    BY <1>4 DEF dirVars, Busy, WorksOn
  <2> QED
    BY <2>3, <2>4 DEF Tracks, ReliesOn
<1>5. CASE ~Busy /\ served[d] # None /\ StartClose(d, reply)
  <2>1. /\ reply.ok /\ reply.tid = lastTid + 1 /\ NewTransition("pending")
        /\ worker'.dir = d /\ worker'.tid = reply.tid /\ worker'.to = None
    BY <1>5 DEF StartClose, Accepted
  <2>2. worker' # None
    BY <1>1, <1>5, StartCloseType, NoneAssumption
  <2>3. lastTid' = reply.tid /\ reply.tid \in Tids
    BY <1>1, <2>1, NewTransitionFacts
  <2>4. Follows(d, reply.tid, None, None)'
    BY <1>1, <2>1, <2>2, <2>3 DEF Follows, WorksOn, Elsewhere, Tids
  <2> QED
    BY <1>2, <2>1, <2>3, <2>4
<1>6. CASE Refuse(reply)
  <2>1. n = m
    BY <1>6 DEF Refuse, Refused, CloseReplied
  <2> QED
    BY <2>1 DEF Tracks, ReliesOn
<1> QED
  BY <1>3, <1>4, <1>5, <1>6 DEF Close

LEMMA ClosePollKeeps ==
    ASSUME ModuleMatches, NEW d \in Dirs, NEW m, WellFormed(m), m.at = "Closing",
           Tracks(d, m), NEW n, n = ClosePolled(m, TransitionStatus(m.tid))
    PROVE  WellFormed(n) /\ Tracks(d, n) /\ ReliesOn(d, n)
<1>1. /\ Follows(d, m.tid, None, None) /\ m.tid \in Tids /\ Matches
      /\ seen[m.tid] \in {"unknown", "pending", "complete", "failed"}
  BY DEF Tracks, WellFormed, ModuleMatches, DirTypeOK
<1>2. CASE seen[m.tid] = "complete"
  <2>1. n = ClosedAgain(FALSE)
    BY <1>2 DEF ClosePolled, TransitionStatus
  <2>2. WellFormed(n) /\ n.at = "Closed"
    BY <2>1, MadeStates DEF ClosedAgain, NewMachine
  <2>3. ~WorksOn(d) /\ served[d] = None
    BY <1>1, <1>2, EndIsTold DEF ServesAt
  <2> QED
    BY <2>2, <2>3 DEF Tracks, ReliesOn
<1>3. CASE seen[m.tid] = "pending"
  BY <1>3 DEF ClosePolled, TransitionStatus, ReliesOn
<1>4. CASE seen[m.tid] \in {"failed", "unknown"} /\ m.retried
  <2>1. n = [m EXCEPT !.retried = FALSE]
    BY <1>4 DEF ClosePolled, TransitionStatus
  <2>2. WellFormed(n)
    BY <2>1 DEF WellFormed, Machines
  <2>3. n.at = m.at /\ n.tid = m.tid
    BY <2>1 DEF WellFormed, Machines
  <2> QED
    BY <2>2, <2>3 DEF Tracks, ReliesOn
<1>5. CASE seen[m.tid] \in {"failed", "unknown"} /\ ~m.retried
  <2>1. n = [m EXCEPT !.at = "StartingClose", !.tid = None, !.retried = TRUE]
    BY <1>5 DEF ClosePolled, TransitionStatus
  <2>2. WellFormed(n) /\ n.at = "StartingClose"
    BY <2>1 DEF WellFormed, Machines
  <2> QED
    BY <2>2 DEF Tracks, ReliesOn
<1> QED
  BY <1>1, <1>2, <1>3, <1>4, <1>5

-----------------------------------------------------------------------------
(* The host.                                                               *)

Kept(d, m) == WellFormed(m) /\ Tracks(d, m) /\ (unsure[d] \/ ReliesOn(d, m))

HostTyped ==
    /\ machine \in [Owned -> Machines]
    /\ client \in [Owned -> {"none", "live", "retiring"}]
    /\ reserved \in [Owned -> BOOLEAN]
    /\ unsure \in [Owned -> BOOLEAN]
    /\ \A d \in Owned : client[d] = "none" => machine[d] = NewMachine

MachinesKept == \A d \in Owned, m \in Machines : machine[d] = m => Kept(d, m)

HostMatches == ModuleMatches /\ HostTyped /\ MachinesKept

\* What one directory's driver makes of its machine, and leaves of the others'.
MachineMoves(d) ==
    /\ \E n : machine' = [machine EXCEPT ![d] = n] /\ Kept(d, n)'
    /\ unsure' \in [Owned -> BOOLEAN]
    /\ \A e \in Owned \ {d} : unsure'[e] = unsure[e] /\ Undisturbed(e)

LEMMA UnchangedUndisturbed ==
    ASSUME DirTypeOK, UNCHANGED dirVars, NEW d \in Dirs
    PROVE  Undisturbed(d)
BY MovingUndisturbed DEF dirVars

LEMMA CallOpenMoves ==
    ASSUME ModuleMatches, ModuleMatches', unsure \in [Owned -> BOOLEAN], NEW d \in Owned,
           NEW m, Kept(d, m), m.at = "StartingOpen", CallOpen(d, m)
    PROVE  MachineMoves(d)
<1>1. PICK reply \in Replies :
        /\ OpenConfigured(d, m.config, reply)
        /\ \/ Becomes(d, OpenReplied(m, reply)) /\ UNCHANGED unsure
           \/ Becomes(d, m) /\ Loses(d, reply)
  BY DEF CallOpen
<1>2. d \in Dirs /\ Owned \subseteq Dirs /\ m.config \in Clients
      /\ DirTypeOK /\ Matches
  BY OwnedAssumption DEF Kept, WellFormed, ModuleMatches
<1>3. \A e \in Owned \ {d} : Undisturbed(e)
  BY <1>1, <1>2, OtherCallUndisturbed
<1>4. CASE Becomes(d, OpenReplied(m, reply)) /\ UNCHANGED unsure
  <2>1. PICK n : n = OpenReplied(m, reply)
    OBVIOUS
  <2>2. Kept(d, n)'
    BY <1>1, <1>2, <1>4, <2>1, OpenCallKeeps DEF Kept
  <2>3. machine' = [machine EXCEPT ![d] = n]
    BY <1>4, <2>1 DEF Becomes
  <2> QED
    BY <1>3, <1>4, <2>2, <2>3 DEF MachineMoves
<1>5. CASE Becomes(d, m) /\ Loses(d, reply)
  <2>1. /\ machine' = [machine EXCEPT ![d] = m]
        /\ unsure' = [unsure EXCEPT ![d] = @ \/ reply.ok]
    BY <1>5 DEF Becomes, Loses
  <2>2. unsure'[d] <=> unsure[d] \/ reply.ok
    BY <2>1
  <2>3. Kept(d, m)'
    BY <1>1, <1>2, <2>2, LostOpenKeeps DEF Kept
  <2>4. unsure' \in [Owned -> BOOLEAN] /\ \A e \in Owned \ {d} : unsure'[e] = unsure[e]
    BY <2>1 DEF Replies
  <2> QED
    BY <1>3, <2>1, <2>3, <2>4 DEF MachineMoves
<1> QED
  BY <1>1, <1>4, <1>5

LEMMA PollOpenMoves ==
    ASSUME ModuleMatches, ModuleMatches', unsure \in [Owned -> BOOLEAN], NEW d \in Owned,
           NEW m, Kept(d, m), m.at = "Opening", PollOpen(d, m)
    PROVE  MachineMoves(d)
<1>1. PICK n : n = OpenPolled(m, TransitionStatus(m.tid))
  OBVIOUS
<1>2. /\ machine' = [machine EXCEPT ![d] = n] /\ UNCHANGED dirVars
      /\ unsure' = [unsure EXCEPT ![d] =
            \/ TRUE /\ seen[m.tid] = "unknown"
            \/ @ /\ seen[m.tid] # "complete"]
  BY <1>1 DEF PollOpen, Becomes, Learns, TransitionStatus
<1>3. d \in Dirs /\ Owned \subseteq Dirs /\ DirTypeOK
  BY OwnedAssumption DEF ModuleMatches
<1>4. unsure'[d] <=> seen[m.tid] = "unknown" \/ (unsure[d] /\ seen[m.tid] # "complete")
  BY <1>2
<1>5. /\ WellFormed(n) /\ Tracks(d, n)
      /\ seen[m.tid] = "complete" => ReliesOn(d, n)
      /\ seen[m.tid] # "unknown" /\ ReliesOn(d, m) => ReliesOn(d, n)
  BY <1>1, <1>3, OpenPollKeeps DEF Kept
<1>6. unsure'[d] \/ ReliesOn(d, n)
  BY <1>4, <1>5 DEF Kept
<1>7. Kept(d, n)'
  BY <1>2, <1>5, <1>6, NothingNew DEF Kept
<1>8. unsure' \in [Owned -> BOOLEAN] /\ \A e \in Owned \ {d} : unsure'[e] = unsure[e]
  BY <1>2
<1> QED
  BY <1>2, <1>3, <1>7, <1>8, UnchangedUndisturbed DEF MachineMoves

LEMMA CallCloseMoves ==
    ASSUME ModuleMatches, ModuleMatches', unsure \in [Owned -> BOOLEAN], NEW d \in Owned,
           NEW m, Kept(d, m), m.at = "StartingClose", CallClose(d, m)
    PROVE  MachineMoves(d)
<1>1. PICK reply \in Replies :
        /\ Close(d, reply)
        /\ Becomes(d, CloseReplied(m, reply)) \/ Becomes(d, m)
        /\ UNCHANGED unsure
  BY DEF CallClose
<1>2. d \in Dirs /\ Owned \subseteq Dirs /\ DirTypeOK /\ Matches
  BY OwnedAssumption DEF ModuleMatches
<1>3. \A e \in Owned \ {d} : Undisturbed(e)
  BY <1>1, <1>2, OtherCallUndisturbed
<1>4. PICK n : n = CloseReplied(m, reply)
  OBVIOUS
<1>5. Kept(d, n)'
  BY <1>1, <1>2, <1>4, CloseCallKeeps DEF Kept
<1>6. Kept(d, m)'
  BY DEF Kept, Tracks, ReliesOn
<1> QED
  BY <1>1, <1>3, <1>4, <1>5, <1>6 DEF MachineMoves, Becomes

LEMMA PollCloseMoves ==
    ASSUME ModuleMatches, ModuleMatches', unsure \in [Owned -> BOOLEAN], NEW d \in Owned,
           NEW m, Kept(d, m), m.at = "Closing", PollClose(d, m)
    PROVE  MachineMoves(d)
<1>1. PICK n : n = ClosePolled(m, TransitionStatus(m.tid))
  OBVIOUS
<1>2. /\ machine' = [machine EXCEPT ![d] = n] /\ UNCHANGED dirVars
      /\ Learns(d, FALSE, seen[m.tid])
  BY <1>1 DEF PollClose, Becomes, TransitionStatus
<1>3. d \in Dirs /\ Owned \subseteq Dirs /\ DirTypeOK
  BY OwnedAssumption DEF ModuleMatches
<1>4. WellFormed(n) /\ Tracks(d, n) /\ ReliesOn(d, n)
  BY <1>1, <1>3, ClosePollKeeps DEF Kept
<1>5. Kept(d, n)'
  BY <1>2, <1>4, NothingNew DEF Kept
<1>6. unsure' \in [Owned -> BOOLEAN] /\ \A e \in Owned \ {d} : unsure'[e] = unsure[e]
  BY <1>2 DEF Learns
<1> QED
  BY <1>2, <1>3, <1>5, <1>6, UnchangedUndisturbed DEF MachineMoves

LEMMA FinishMoves ==
    ASSUME ModuleMatches, ModuleMatches', unsure \in [Owned -> BOOLEAN], NEW d \in Owned,
           NEW m, Kept(d, m), Finish(d, m)
    PROVE  MachineMoves(d)
BY CallOpenMoves, PollOpenMoves, CallCloseMoves, PollCloseMoves DEF Finish

LEMMA OpenStepMoves ==
    ASSUME HostMatches, ModuleMatches', NEW d \in Owned, NEW c \in Clients, OpenStep(d, c)
    PROVE  MachineMoves(d)
<1>1. PICK m \in Machines : m = machine[d] /\ Kept(d, m)
  BY DEF HostMatches, HostTyped, MachinesKept
<1>2. PICK n : n = Asking(m, c)
  OBVIOUS
<1>3. Finish(d, n)
  BY <1>1, <1>2 DEF OpenStep
<1>4. Kept(d, n)
  BY <1>1, <1>2, AskingKeeps, OwnedAssumption DEF Kept
<1> QED
  BY <1>3, <1>4, FinishMoves DEF HostMatches, HostTyped

LEMMA CloseStepMoves ==
    ASSUME HostMatches, ModuleMatches', NEW d \in Owned, CloseStep(d)
    PROVE  MachineMoves(d)
<1>1. PICK m \in Machines : m = machine[d] /\ Kept(d, m)
  BY DEF HostMatches, HostTyped, MachinesKept
<1>2. PICK n : n = IF m.at = "Open" THEN [m EXCEPT !.at = "StartingClose"] ELSE m
  OBVIOUS
<1>3. Finish(d, n)
  BY <1>1, <1>2 DEF CloseStep
<1>4. Kept(d, n)
  <2>1. CASE m.at = "Open"
    <3>1. n = [m EXCEPT !.at = "StartingClose"]
      BY <1>2, <2>1
    <3>2. WellFormed(n) /\ n.at = "StartingClose"
      BY <3>1 DEF WellFormed, Machines
    <3> QED
      BY <3>2 DEF Kept, Tracks, ReliesOn
  <2> QED
    BY <1>1, <1>2, <2>1
<1> QED
  BY <1>3, <1>4, FinishMoves DEF HostMatches, HostTyped

\* A machine that moved, and one that nobody touched.
LEMMA MovedKeeps ==
    ASSUME HostMatches, ModuleMatches', NEW d \in Owned, MachineMoves(d),
           client[d] # "none", UNCHANGED <<client, reserved>>
    PROVE  HostMatches'
<1>1. PICK n : machine' = [machine EXCEPT ![d] = n] /\ Kept(d, n)'
  BY DEF MachineMoves
<1>2. n \in Machines
  BY <1>1 DEF Kept, WellFormed
<1>3. /\ machine \in [Owned -> Machines] /\ Owned \subseteq Dirs /\ DirTypeOK /\ Matches
      /\ lastTid' \in Nat
  BY OwnedAssumption, DirectoriesAssumption DEF HostMatches, HostTyped, ModuleMatches, DirTypeOK
<1>4. /\ machine' \in [Owned -> Machines] /\ machine'[d] = n
      /\ \A e \in Owned \ {d} : machine'[e] = machine[e]
  BY <1>1, <1>2, <1>3
<1>5. HostTyped'
  BY <1>4 DEF HostMatches, HostTyped, MachineMoves
<1>6. ASSUME NEW e \in Owned, NEW m \in Machines, machine'[e] = m
      PROVE  Kept(e, m)'
  <2>1. CASE e = d
    BY <1>1, <1>4, <1>6, <2>1
  <2>2. CASE e # d
    <3>1. Kept(e, m) /\ unsure'[e] = unsure[e] /\ Undisturbed(e)
      BY <1>4, <1>6, <2>2 DEF HostMatches, MachinesKept, MachineMoves
    <3> QED
      BY <1>3, <3>1, UndisturbedTracks DEF Kept
  <2> QED
    BY <2>1, <2>2
<1> QED
  BY <1>5, <1>6 DEF HostMatches, MachinesKept

LEMMA StillKeeps ==
    ASSUME HostMatches, ModuleMatches', \A d \in Owned : Undisturbed(d),
           UNCHANGED <<machine, unsure>>, HostTyped'
    PROVE  HostMatches'
<1>1. /\ Owned \subseteq Dirs /\ DirTypeOK /\ Matches /\ lastTid' \in Nat
  BY OwnedAssumption, DirectoriesAssumption DEF HostMatches, ModuleMatches, DirTypeOK
<1>2. ASSUME NEW e \in Owned, NEW m \in Machines, machine'[e] = m
      PROVE  Kept(e, m)'
  <2>1. Kept(e, m) /\ unsure'[e] = unsure[e] /\ Undisturbed(e)
    BY <1>2 DEF HostMatches, MachinesKept
  <2> QED
    BY <1>1, <2>1, UndisturbedTracks DEF Kept
<1> QED
  BY <1>2 DEF HostMatches, MachinesKept

\* A client that is gone leaves the machine of a new one.
LEMMA FinishCleanupKeeps ==
    ASSUME HostMatches, ModuleMatches', NEW d \in Owned, FinishCleanup(d)
    PROVE  HostMatches'
<1>1. /\ machine \in [Owned -> Machines] /\ UNCHANGED <<dirVars, unsure>>
      /\ machine' = [machine EXCEPT ![d] = NewMachine] /\ machine[d].at = "Closed"
      /\ client' = [client EXCEPT ![d] = "none"] /\ reserved' = [reserved EXCEPT ![d] = FALSE]
  BY DEF HostMatches, HostTyped, FinishCleanup, Becomes
<1>2. WellFormed(NewMachine) /\ NewMachine \in Machines /\ NewMachine.at = "Closed"
  BY MadeStates DEF WellFormed, NewMachine
<1>3. /\ machine' \in [Owned -> Machines] /\ machine'[d] = NewMachine
      /\ \A e \in Owned \ {d} : machine'[e] = machine[e]
  BY <1>1, <1>2
<1>4. HostTyped'
  BY <1>1, <1>3 DEF HostMatches, HostTyped
<1>5. ASSUME NEW e \in Owned, NEW m \in Machines, machine'[e] = m
      PROVE  Kept(e, m)'
  <2>1. Kept(e, m)
    <3>1. CASE e = d
      <4>1. Kept(d, machine[d])
        BY <1>1 DEF HostMatches, MachinesKept
      <4> QED
        BY <1>1, <1>2, <1>3, <1>5, <3>1, <4>1 DEF Kept, Tracks, ReliesOn
    <3>2. CASE e # d
      BY <1>3, <1>5, <3>2 DEF HostMatches, MachinesKept
    <3> QED
      BY <3>1, <3>2
  <2> QED
    BY <1>1, <2>1, NothingNew DEF Kept
<1> QED
  BY <1>4, <1>5 DEF HostMatches, MachinesKept

\* Every step of the host and of the others is a step of the module.
LEMMA FinishIsModules ==
    ASSUME NEW d \in Owned, NEW m, WellFormed(m), Finish(d, m)
    PROVE  [DirNext]_dirVars
<1>1. d \in Dirs /\ (m.at = "StartingOpen" => m.config \in Clients)
  BY OwnedAssumption DEF WellFormed
<1>2. CASE m.at = "StartingOpen" /\ CallOpen(d, m)
  BY <1>1, <1>2 DEF CallOpen, DirNext
<1>3. CASE m.at = "StartingClose" /\ CallClose(d, m)
  BY <1>1, <1>3 DEF CallClose, DirNext
<1> QED
  BY <1>2, <1>3 DEF Finish, PollOpen, PollClose

LEMMA StepIsModules ==
    ASSUME HostMatches, [Next]_vars
    PROVE  [DirNext]_dirVars
<1>1. ASSUME NEW d \in Owned, NEW c \in Clients, OpenStep(d, c)
      PROVE  [DirNext]_dirVars
  <2>1. PICK m \in Machines : m = machine[d] /\ Kept(d, m)
    BY DEF HostMatches, HostTyped, MachinesKept
  <2>2. PICK n : n = Asking(m, c)
    OBVIOUS
  <2> QED
    BY <1>1, <2>1, <2>2, AskingKeeps, FinishIsModules, OwnedAssumption DEF OpenStep, Kept
<1>2. ASSUME NEW d \in Owned, CloseStep(d)
      PROVE  [DirNext]_dirVars
  <2>1. PICK m \in Machines : m = machine[d] /\ Kept(d, m)
    BY DEF HostMatches, HostTyped, MachinesKept
  <2>2. CASE m.at = "Open"
    <3>1. PICK n : n = [m EXCEPT !.at = "StartingClose"]
      OBVIOUS
    <3>2. Finish(d, n)
      BY <1>2, <2>1, <2>2, <3>1 DEF CloseStep
    <3>3. WellFormed(n)
      BY <2>1, <2>2, <3>1 DEF Kept, WellFormed, Machines
    <3> QED
      BY <3>2, <3>3, FinishIsModules
  <2>3. CASE m.at # "Open"
    BY <1>2, <2>1, <2>3, FinishIsModules DEF CloseStep, Kept
  <2> QED
    BY <2>2, <2>3
<1>3. CASE ModuleStep
  BY <1>3 DEF ModuleStep, DirNext
<1>4. CASE UNCHANGED vars
  BY <1>4 DEF vars
<1> QED
  BY <1>1, <1>2, <1>3, <1>4 DEF Next, HostStep, Admit, Retire, FinishCleanup

LEMMA ModuleStepUndisturbs ==
    ASSUME HostMatches, ModuleStep, NEW d \in Owned
    PROVE  Undisturbed(d)
<1>1. DirTypeOK /\ Matches /\ d \in Dirs
  BY OwnedAssumption DEF HostMatches, ModuleMatches
<1>2. ASSUME NEW e \in Dirs \ Owned, NEW reply \in Replies,
             \/ \E c \in Clients : OpenConfigured(e, c, reply)
             \/ Open(e, reply)
             \/ Close(e, reply)
      PROVE  Undisturbed(d)
  BY <1>1, <1>2, OtherCallUndisturbed
<1> QED
  BY <1>1, <1>2, WorkerUndisturbed, PublishUndisturbed, HandlersUndisturbed DEF ModuleStep

\* Whatever any of them does.
LEMMA HostStepKeeps ==
    ASSUME HostMatches, [Next]_vars
    PROVE  HostMatches'
<1>1. ModuleMatches' /\ Owned \subseteq Dirs /\ DirTypeOK /\ HostTyped
  BY StepIsModules, ReceiptsInductive, OwnedAssumption DEF HostMatches, ModuleMatches
<1>2. UNCHANGED dirVars => \A d \in Owned : Undisturbed(d)
  BY <1>1, UnchangedUndisturbed
<1>3. ASSUME NEW d \in Owned, NEW c \in Clients, OpenStep(d, c)
      PROVE  HostMatches'
  BY <1>1, <1>3, OpenStepMoves, MovedKeeps DEF OpenStep
<1>4. ASSUME NEW d \in Owned, CloseStep(d)
      PROVE  HostMatches'
  BY <1>1, <1>4, CloseStepMoves, MovedKeeps DEF CloseStep
<1>5. ASSUME NEW d \in Owned, Admit(d) \/ Retire(d)
      PROVE  HostMatches'
  <2>1. HostTyped' /\ UNCHANGED <<dirVars, machine, unsure>>
    BY <1>1, <1>5 DEF Admit, Retire, HostTyped
  <2> QED
    BY <1>1, <1>2, <2>1, StillKeeps
<1>6. ASSUME NEW d \in Owned, FinishCleanup(d)
      PROVE  HostMatches'
  BY <1>1, <1>6, FinishCleanupKeeps
<1>7. CASE ModuleStep
  <2>1. HostTyped' /\ UNCHANGED <<machine, unsure>>
    BY <1>1, <1>7 DEF ModuleStep, hostVars, HostTyped
  <2> QED
    BY <1>1, <1>7, <2>1, ModuleStepUndisturbs, StillKeeps
<1>8. CASE UNCHANGED vars
  <2>1. HostTyped' /\ UNCHANGED <<dirVars, machine, unsure>>
    BY <1>1, <1>8 DEF vars, hostVars, HostTyped
  <2> QED
    BY <1>1, <1>2, <2>1, StillKeeps
<1> QED
  BY <1>3, <1>4, <1>5, <1>6, <1>7, <1>8 DEF Next, HostStep

LEMMA HostInitKeeps == Init => HostMatches
<1> SUFFICES ASSUME Init PROVE HostMatches
  OBVIOUS
<1>1. DirTypeOK /\ Matches /\ DirInit
  BY InitType, DirInitMatches DEF Init
<1>2. worker = None /\ served \in [Dirs -> {None} \cup ServedRecords]
      /\ \A d \in Dirs : pending[d] = None /\ (d # Root => served[d] = None)
  BY <1>1 DEF DirInit, DirTypeOK
<1>3. WellFormed(NewMachine) /\ NewMachine \in Machines /\ NewMachine.at = "Closed"
  BY MadeStates DEF WellFormed, NewMachine
<1>4. ReceiptsTell
  BY <1>2 DEF ReceiptsTell
<1>5. HostTyped
  BY <1>3 DEF Init, HostTyped
<1>6. ASSUME NEW d \in Owned, NEW m \in Machines, machine[d] = m
      PROVE  Kept(d, m)
  <2>1. m = NewMachine /\ d \in Dirs /\ d # Root
    BY <1>6, OwnedAssumption DEF Init
  <2> QED
    BY <1>2, <1>3, <2>1 DEF Kept, Tracks, ReliesOn, WorksOn
<1> QED
  BY <1>1, <1>4, <1>5, <1>6 DEF HostMatches, ModuleMatches, MachinesKept

LEMMA HostMatchesAlways == Spec => []HostMatches
<1>1. HostMatches /\ [Next]_vars => HostMatches'
  BY HostStepKeeps
<1> QED
  BY <1>1, HostInitKeeps, PTL DEF Spec

\* Whatever hosts and their lost calls do, the module goes through what its own
\* specification allows, and so keeps its promises to them.
THEOREM HostsStayWithinModule == Spec => DirSpec
<1>1. Init => DirInit
  BY DEF Init
<1>2. HostMatches /\ [Next]_vars => [DirNext]_dirVars
  BY StepIsModules
<1> QED
  BY <1>1, <1>2, HostMatchesAlways, PTL DEF Spec, DirSpec

LEMMA MatchesAgree ==
    ASSUME HostMatches
    PROVE  LifecycleInv
<1>1. LifecycleTypeOK
  BY DEF HostMatches, ModuleMatches, HostTyped, LifecycleTypeOK
<1>2. ASSUME NEW d \in Owned, ~unsure[d]
      PROVE  Agrees(d)
  <2>1. PICK m \in Machines : m = machine[d] /\ Kept(d, m)
    BY DEF HostMatches, HostTyped, MachinesKept
  <2>2. ReliesOn(d, m) /\ WellFormed(m) /\ d \in Dirs
    BY <1>2, <2>1, OwnedAssumption DEF Kept
  <2>3. m.at = "Open" => served[d] # None /\ served[d].client = m.config /\ served[d].path = m.path
    BY <2>2, NumberFacts DEF ReliesOn, ServesAt, WellFormed
  <2>4. m.at = "Closed" => served[d] = None /\ pending[d] = None
    BY <2>2, PendingIsWorkers DEF ReliesOn, HostMatches, ModuleMatches
  <2> QED
    BY <2>1, <2>3, <2>4 DEF Agrees
<1> QED
  BY <1>1, <1>2 DEF LifecycleInv, HostAgreesUnlessUnsure

LEMMA FreshIsIdle ==
    ASSUME HostMatches, NEW d \in Owned, client[d] = "none", ~unsure[d]
    PROVE  Serving[d] = None /\ ~(worker # None /\ worker.dir = d)
<1>1. NewMachine.at = "Closed" /\ NewMachine \in Machines
  BY MadeStates DEF NewMachine, WellFormed
<1>2. Kept(d, NewMachine)
  BY <1>1 DEF HostMatches, HostTyped, MachinesKept
<1>3. ~WorksOn(d) /\ served[d] = None
  BY <1>1, <1>2 DEF Kept, ReliesOn
<1>4. Reached(d) = None
  BY <1>3 DEF Reached, Swapped, At, WorksOn
<1>5. DirTypeOK /\ TreeMatches /\ d \in Dirs
  BY OwnedAssumption DEF HostMatches, ModuleMatches, Matches
<1> QED
  BY <1>3, <1>4, <1>5, ServingIsReached DEF WorksOn

\* What a host holds for open or closed is what the module serves, through changes of
\* settings, failed transitions, refusals and cancelled calls, unless an accepted open
\* was never heard of; and no directory changes hands while the module serves it.
\* (tinymcp-bus/src/client_lifecycle/machine.rs:159-160, client_lifecycle/mod.rs:13-15)
THEOREM LifecycleStaysTrue == Spec => LifecycleKeeps
<1>1. HostMatches => LifecycleInv
  BY MatchesAgree
<1>2. HostMatches /\ [Next]_vars =>
        [\A d \in Owned : client[d] = "none" /\ client'[d] = "live" /\ ~unsure[d]
            => Serving[d] = None /\ ~(worker # None /\ worker.dir = d)]_vars
  BY FreshIsIdle
<1> QED
  BY <1>1, <1>2, HostMatchesAlways, PTL DEF Spec, LifecycleKeeps, FreshFindsNothing

=============================================================================
