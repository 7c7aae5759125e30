--------------------------- MODULE RecordsProofs ---------------------------
(* What the host's records guarantee: the declared servers and their         *)
(* snapshots (StaticServers), the rows and streams a store migrates when it  *)
(* is opened (StoreMigration), the audit pages (AuditLog), what the catalog  *)
(* lists (CatalogListing), the replies read out of an event stream           *)
(* (SseReader), and the PATH that stdio servers are launched with            *)
(* (SpawnPath).                                                              *)
EXTENDS CatalogListing, StaticServers, StoreMigration, AuditLog, SseReader, SpawnPath,
        FiniteSetTheorems, SequenceTheorems, TLAPS

-----------------------------------------------------------------------------
(* Induction over the naturals.                                              *)

\* The finite sets are well-founded, so the naturals are: induction, for a set.
LEMMA Induction ==
    ASSUME NEW S, 0 \in S, \A n \in Nat : n \in S => n + 1 \in S
    PROVE  Nat \subseteq S
<1> DEFINE T == {0 .. n : n \in Nat \ S}
<1> DEFINE R == StrictSubsetOrdering(Nat)
<1> DEFINE F == FiniteSubsetsOf(Nat)
<1> SUFFICES ASSUME T # {} PROVE FALSE
  OBVIOUS
<1>1. IsWellFoundedOn(R, F)
  BY ONLY FS_StrictSubsetOrderingWellFounded
<1>2. \A n \in Nat : IsFiniteSet(0 .. n) /\ 0 .. n \in SUBSET Nat
  BY FS_Interval
<1>3. T \subseteq F
  BY <1>2 DEF FiniteSubsetsOf
<1>4. T # {}
  OBVIOUS
<1> HIDE DEF T, R, F
<1>5. \E x \in T : \A y \in T : ~(<<y, x>> \in R)
  BY ONLY <1>1, <1>3, <1>4, WFMin
<1>6. PICK x \in T : \A y \in T : ~(<<y, x>> \in R)
  BY <1>5
<1>7. PICK n \in Nat \ S : x = 0 .. n
  BY DEF T
<1>8. n - 1 \in Nat \ S
  BY <1>7
<1>9. 0 .. (n - 1) \in T
  BY <1>8 DEF T
<1>10. <<0 .. (n - 1), 0 .. n>> \in (SUBSET Nat) \X (SUBSET Nat)
  BY <1>2, <1>7, <1>8
<1>11. 0 .. (n - 1) \subseteq 0 .. n /\ 0 .. (n - 1) # 0 .. n
  <2>1. n \in 0 .. n /\ n \notin 0 .. (n - 1)
    BY <1>7
  <2> QED
    BY <1>7, <2>1
<1>12. <<0 .. (n - 1), x>> \in R
  BY <1>7, <1>10, <1>11 DEF R, StrictSubsetOrdering
<1> QED
  BY <1>6, <1>9, <1>12

-----------------------------------------------------------------------------
(* Folds over sequences: FoldLeft takes the greatest index off first.        *)

LEMMA IndexSets ==
    ASSUME NEW n \in Nat, NEW t \in SUBSET (1 .. n)
    PROVE  IsFiniteSet(t) /\ Cardinality(t) \in Nat /\ Cardinality(t) <= n
<1>1. /\ IsFiniteSet(1 .. n) /\ Cardinality(1 .. n) = n
  BY FS_Interval
<1>2. IsFiniteSet(t) /\ Cardinality(t) <= n
  BY <1>1, FS_Subset
<1> QED
  BY <1>2, FS_CardinalityType

LEMMA MaxIsThere ==
    ASSUME NEW n \in Nat, NEW t \in SUBSET (1 .. n), t # {}
    PROVE  /\ Max(t) \in t /\ Max(t) \in 1 .. n
           /\ t \ {Max(t)} \in SUBSET (1 .. n)
           /\ \A i \in t : i <= Max(t)
           /\ Cardinality(t) \in Nat /\ Cardinality(t) <= n
           /\ Cardinality(t \ {Max(t)}) = Cardinality(t) - 1
<1>2. IsFiniteSet(t) /\ Cardinality(t) \in Nat /\ Cardinality(t) <= n
  BY IndexSets
<1> DEFINE S == {k \in Nat : (\E i \in t : k <= i) => \E m \in t : \A i \in t : i <= m}
<1> DEFINE Back == {k \in Nat : k <= n => n - k \in S}
<1>4. 0 \in Back
  <2>1. ASSUME NEW i \in t, n <= i
        PROVE  i = n /\ \A j \in t : j <= i
    BY <2>1
  <2> QED
    BY <2>1
<1>5. ASSUME NEW k \in Nat, k \in Back
      PROVE  k + 1 \in Back
  <2>1. SUFFICES ASSUME k + 1 <= n, NEW j \in t, n - (k + 1) <= j
                 PROVE  \E m \in t : \A i \in t : i <= m
    OBVIOUS
  <2>2. n - k \in S /\ n - k \in Nat /\ n - k = (n - (k + 1)) + 1
    BY <1>5, <2>1
  <2>3. CASE \E i \in t : n - k <= i
    BY <2>2, <2>3
  <2>4. CASE ~\E i \in t : n - k <= i
    <3>1. \A i \in t : i <= j
      BY <2>1, <2>2, <2>4
    <3> QED
      BY <3>1
  <2> QED
    BY <2>3, <2>4
<1> HIDE DEF Back
<1>6. Nat \subseteq Back
  BY ONLY <1>4, <1>5, Induction
<1>7. PICK m \in t : \A i \in t : i <= m
  <2>1. n \in Back
    BY <1>6
  <2>2. 0 \in S
    BY <2>1 DEF Back
  <2>3. \E i \in t : 0 <= i
    <3>1. PICK i \in t : TRUE
      OBVIOUS
    <3>2. i \in 1 .. n
      BY <3>1
    <3> QED
      BY <3>2
  <2> QED
    BY <2>2, <2>3
<1>8. Max(t) \in t /\ \A i \in t : i <= Max(t)
  <2> DEFINE Is(x) == \A y \in t : x >= y
  <2>1. m \in t /\ Is(m)
    BY <1>7
  <2> HIDE DEF Is
  <2>2. (CHOOSE x \in t : Is(x)) \in t /\ Is(CHOOSE x \in t : Is(x))
    BY <2>1, Zenon
  <2>3. Max(t) = CHOOSE x \in t : Is(x)
    BY DEF Max, Is
  <2>4. Max(t) \in t /\ Is(Max(t))
    BY <2>2, <2>3
  <2> QED
    BY <2>4 DEF Is
<1>9. Cardinality(t \ {Max(t)}) = Cardinality(t) - 1
  BY <1>2, <1>8, FS_RemoveElement
<1> QED
  BY <1>2, <1>8, <1>9

LEMMA MinIsThere ==
    ASSUME NEW n \in Nat, NEW t \in SUBSET (1 .. n), t # {}
    PROVE  Min(t) \in t /\ \A i \in t : Min(t) <= i
<1> DEFINE S == {k \in Nat : \A i \in t : i >= k}
<1>1. 0 \in S
  OBVIOUS
<1>2. PICK m \in t : \A i \in t : m <= i
  <2>1. SUFFICES ASSUME ~\E m \in t : \A i \in t : m <= i PROVE FALSE
    OBVIOUS
  <2>2. ASSUME NEW k \in Nat, k \in S
        PROVE  k + 1 \in S
    <3>1. k \notin t
      BY <2>1, <2>2
    <3>2. \A i \in t : i \in Nat /\ i >= k /\ i # k
      BY <2>2, <3>1
    <3>3. \A i \in t : i >= k + 1
      BY <3>2
    <3> QED
      BY <3>3
  <2> HIDE DEF S
  <2>3. Nat \subseteq S
    BY ONLY <1>1, <2>2, Induction
  <2>4. PICK i \in t : TRUE
    OBVIOUS
  <2>5. i \in Nat /\ i + 1 \in S
    BY <2>3, <2>4
  <2> QED
    BY <2>4, <2>5 DEF S
<1> DEFINE Is(x) == \A y \in t : x =< y
<1>3. m \in t /\ Is(m)
  BY <1>2
<1> HIDE DEF Is
<1>4. (CHOOSE x \in t : Is(x)) \in t /\ Is(CHOOSE x \in t : Is(x))
  BY <1>3, Zenon
<1>5. Min(t) = CHOOSE x \in t : Is(x)
  BY DEF Min, Is
<1>6. Min(t) \in t /\ Is(Min(t))
  BY <1>4, <1>5
<1> QED
  BY <1>6 DEF Is

\* What holds of no index and goes from a set without its greatest index to the
\* set holds of every set of indices.
LEMMA IndexInduction ==
    ASSUME NEW n \in Nat, NEW T, {} \in T,
           \A t \in SUBSET (1 .. n) : t # {} /\ t \ {Max(t)} \in T => t \in T
    PROVE  SUBSET (1 .. n) \subseteq T
<1> DEFINE S == {k \in Nat : \A t \in SUBSET (1 .. n) : Cardinality(t) <= k => t \in T}
<1>0. \A t \in SUBSET (1 .. n) : IsFiniteSet(t) /\ Cardinality(t) \in Nat /\ Cardinality(t) <= n
  BY ONLY IndexSets, n \in Nat
<1>1. 0 \in S
  <2>1. ASSUME NEW t \in SUBSET (1 .. n), Cardinality(t) <= 0
        PROVE  t \in T
    <3>1. Cardinality(t) = 0
      BY <1>0, <2>1
    <3>2. t = {}
      BY <1>0, <3>1, FS_EmptySet
    <3> QED
      BY <3>2
  <2> QED
    BY <2>1
<1>2. ASSUME NEW k \in Nat, k \in S
      PROVE  k + 1 \in S
  <2>1. ASSUME NEW t \in SUBSET (1 .. n), Cardinality(t) <= k + 1
        PROVE  t \in T
    <3>1. CASE t = {}
      BY <3>1
    <3>2. CASE t # {}
      <4>1. t \ {Max(t)} \in SUBSET (1 .. n) /\ Cardinality(t \ {Max(t)}) = Cardinality(t) - 1
            /\ Cardinality(t) \in Nat
        BY <3>2, MaxIsThere
      <4>2. Cardinality(t \ {Max(t)}) <= k
        BY <2>1, <4>1
      <4>3. t \ {Max(t)} \in T
        BY <1>2, <4>1, <4>2
      <4> QED
        BY <3>2, <4>3
    <3> QED
      BY <3>1, <3>2
  <2> QED
    BY <2>1
<1> HIDE DEF S
<1>3. Nat \subseteq S
  BY ONLY <1>1, <1>2, Induction
<1>4. n \in S
  BY <1>3
<1> QED
  BY <1>0, <1>4 DEF S

StepsOver(X, n) == [X \X (1 .. n) -> X]

FoldsUp(f, X, n, base, step) ==
    /\ f \in [SUBSET (1 .. n) -> X]
    /\ \A t \in SUBSET (1 .. n) :
          f[t] = IF t = {} THEN base ELSE step[<<f[t \ {Max(t)}], Max(t)>>]

\* A fold can be defined by recursion.
LEMMA FoldIsThere ==
    ASSUME NEW n \in Nat, NEW X, NEW base \in X, NEW step \in StepsOver(X, n)
    PROVE  \E f : FoldsUp(f, X, n, base, step)
<1> DEFINE Body(f, t) == IF t = {} THEN base ELSE step[<<f[t \ {Max(t)}], Max(t)>>]
<1> DEFINE Fits(f, k) == \A t \in SUBSET (1 .. n) : Cardinality(t) <= k => f[t] = Body(f, t)
<1> DEFINE S == {k \in Nat : \E f \in [SUBSET (1 .. n) -> X] : Fits(f, k)}
<1> USE DEF StepsOver
<1>0. \A t \in SUBSET (1 .. n) : IsFiniteSet(t) /\ Cardinality(t) \in Nat /\ Cardinality(t) <= n
  BY ONLY IndexSets, n \in Nat
<1>1. 0 \in S
  <2> DEFINE f == [t \in SUBSET (1 .. n) |-> base]
  <2>1. ASSUME NEW t \in SUBSET (1 .. n), Cardinality(t) <= 0
        PROVE  f[t] = Body(f, t)
    <3>1. Cardinality(t) = 0
      BY <1>0, <2>1
    <3>2. t = {}
      BY <1>0, <3>1, FS_EmptySet
    <3> QED
      BY <3>2
  <2>2. f \in [SUBSET (1 .. n) -> X]
    OBVIOUS
  <2>3. Fits(f, 0)
    BY ONLY <2>1
  <2> HIDE DEF f, Fits
  <2> QED
    BY <2>2, <2>3
<1>2. ASSUME NEW k \in Nat, k \in S
      PROVE  k + 1 \in S
  <2>1. PICK f \in [SUBSET (1 .. n) -> X] : Fits(f, k)
    BY <1>2
  <2> DEFINE g == [t \in SUBSET (1 .. n) |-> Body(f, t)]
  <2>2. ASSUME NEW t \in SUBSET (1 .. n)
        PROVE  Body(f, t) \in X
    <3>1. CASE t = {}
      BY <3>1
    <3>2. CASE t # {}
      <4>1. t \ {Max(t)} \in SUBSET (1 .. n) /\ Max(t) \in 1 .. n
        BY <3>2, MaxIsThere
      <4> QED
        BY <3>2, <4>1
    <3> QED
      BY <3>1, <3>2
  <2>3. g \in [SUBSET (1 .. n) -> X] /\ \A t \in SUBSET (1 .. n) : g[t] = Body(f, t)
    BY <2>2
  <2>4. ASSUME NEW t \in SUBSET (1 .. n), Cardinality(t) <= k + 1
        PROVE  g[t] = Body(g, t)
    <3>1. CASE t = {}
      BY <3>1, <2>3
    <3>2. CASE t # {}
      <4>1. t \ {Max(t)} \in SUBSET (1 .. n) /\ Cardinality(t \ {Max(t)}) = Cardinality(t) - 1
            /\ Cardinality(t) \in Nat
        BY <3>2, MaxIsThere
      <4>2. Cardinality(t \ {Max(t)}) <= k
        BY <2>4, <4>1
      <4>3. f[t \ {Max(t)}] = Body(f, t \ {Max(t)})
        BY <2>1, <4>1, <4>2
      <4>4. g[t \ {Max(t)}] = f[t \ {Max(t)}]
        BY ONLY <2>3, <4>1, <4>3
      <4>5. g[t] = Body(f, t)
        BY ONLY <2>3, t \in SUBSET (1 .. n)
      <4> HIDE DEF g
      <4> QED
        BY <4>4, <4>5
    <3> QED
      BY <3>1, <3>2
  <2>5. Fits(g, k + 1)
    BY ONLY <2>4
  <2> HIDE DEF g, Fits
  <2> QED
    BY <2>3, <2>5
<1> HIDE DEF S
<1>3. Nat \subseteq S
  BY ONLY <1>1, <1>2, Induction
<1>4. PICK f \in [SUBSET (1 .. n) -> X] : Fits(f, n)
  BY <1>3 DEF S
<1>5. \A t \in SUBSET (1 .. n) : f[t] = Body(f, t)
  BY <1>0, <1>4
<1> QED
  BY <1>5 DEF FoldsUp

-----------------------------------------------------------------------------
(* Sequences put together and cut.                                           *)

LEMMA JoinIs ==
    ASSUME NEW S, NEW s \in Seq(S), NEW t \in Seq(S)
    PROVE  /\ s \o t \in Seq(S) /\ Len(s) \in Nat /\ Len(t) \in Nat
           /\ Len(s \o t) = Len(s) + Len(t)
           /\ \A i \in 1..Len(s) : (s \o t)[i] = s[i]
           /\ \A i \in 1..Len(t) : (s \o t)[Len(s) + i] = t[i]
<1>1. /\ s \o t \in Seq(S) /\ Len(s \o t) = Len(s) + Len(t)
      /\ \A i \in 1..Len(s) + Len(t) :
             (s \o t)[i] = IF i <= Len(s) THEN s[i] ELSE t[i - Len(s)]
  BY ConcatProperties
<1>2. Len(s) \in Nat /\ Len(t) \in Nat
  OBVIOUS
<1>3. \A i \in 1..Len(s) : i \in 1..Len(s) + Len(t) /\ i <= Len(s)
  BY ONLY <1>2
<1>4. \A i \in 1..Len(t) : /\ Len(s) + i \in 1..Len(s) + Len(t) /\ ~(Len(s) + i <= Len(s))
                           /\ (Len(s) + i) - Len(s) = i
  BY ONLY <1>2
<1>5. ASSUME NEW i \in 1..Len(t)
      PROVE  (s \o t)[Len(s) + i] = t[i]
  BY <1>1, <1>4
<1> QED
  BY <1>1, <1>2, <1>3, <1>5

\* The entries after the first `a`, up to `b`.
LEMMA CutIs ==
    ASSUME NEW S, NEW s \in Seq(S), NEW a \in Nat, NEW b \in Nat, b <= Len(s)
    PROVE  /\ SubSeq(s, a + 1, b) \in Seq(S)
           /\ Len(SubSeq(s, a + 1, b)) = IF a < b THEN b - a ELSE 0
           /\ \A i \in 1..(b - a) : SubSeq(s, a + 1, b)[i] = s[a + i]
<1>0. Len(s) \in Nat
  OBVIOUS
<1>1. /\ a + 1 \in Int /\ b \in Int /\ (b - (a + 1)) + 1 = b - a
      /\ (a + 1 <= b) <=> (a < b)
      /\ \A i \in 1..(b - a) : ((a + 1) + i) - 1 = a + i
      /\ \A i \in (a + 1)..b : i \in 1..Len(s)
  BY <1>0
<1>2. \A i \in 1..Len(s) : s[i] \in S
  OBVIOUS
<1>3. \A i \in (a + 1)..b : s[i] \in S
  BY <1>1, <1>2
<1>4. /\ SubSeq(s, a + 1, b) \in Seq(S)
      /\ Len(SubSeq(s, a + 1, b)) = IF a + 1 <= b THEN (b - (a + 1)) + 1 ELSE 0
      /\ \A i \in 1..((b - (a + 1)) + 1) : SubSeq(s, a + 1, b)[i] = s[((a + 1) + i) - 1]
  BY <1>1, <1>3, SubSeqProperties
<1> QED
  BY <1>1, <1>4

LEMMA WiderSeq ==
    ASSUME NEW S, NEW T, S \subseteq T, NEW s \in Seq(S)
    PROVE  s \in Seq(T)
<1>1. Len(s) \in Nat /\ s \in [1..Len(s) -> S]
  OBVIOUS
<1>2. s \in [1..Len(s) -> T]
  BY <1>1
<1> QED
  BY <1>1, <1>2

-----------------------------------------------------------------------------
(* StaticServers: for any configuration, seeds, lists and listings.          *)

Definitions == [allowed : SUBSET ToolNames, disallowed : SUBSET ToolNames,
                source : {"config", "host"}]

\* Each name that is defined has one place.
OnePlace(names, places) ==
    /\ DOMAIN names \subseteq ServerNames
    /\ names = [n \in DOMAIN names |-> names[n]]
    /\ \A n \in DOMAIN names : names[n] \in Definitions
    /\ places \in Seq(ServerNames)
    /\ ToSet(places) = DOMAIN names
    /\ IsInjective(places)

ServerSets ==
    {reg \in [byName : UNION {[names -> Definitions] : names \in SUBSET ServerNames},
              order : Seq(ServerNames)] : OnePlace(reg.byName, reg.order)}

LEMMA ServerSetIs ==
    ASSUME NEW names, NEW places
    PROVE  OnePlace(names, places) <=> [byName |-> names, order |-> places] \in ServerSets
<1>1. ASSUME OnePlace(names, places)
      PROVE  [byName |-> names, order |-> places] \in ServerSets
  <2>1. names \in [DOMAIN names -> Definitions] /\ DOMAIN names \in SUBSET ServerNames
    BY <1>1, Zenon DEF OnePlace
  <2>2. names \in UNION {[ns -> Definitions] : ns \in SUBSET ServerNames}
    BY <2>1
  <2> QED
    BY <1>1, <2>2 DEF ServerSets, OnePlace
<1> QED
  BY <1>1 DEF ServerSets

LEMMA InsertKeepsPlaces ==
    ASSUME NEW reg \in ServerSets, NEW name \in ServerNames, NEW d \in Definitions
    PROVE  InsertDefinition(reg, name, d) \in ServerSets
<1> DEFINE names == [n \in DOMAIN reg.byName \cup {name} |-> IF n = name THEN d ELSE reg.byName[n]]
<1> DEFINE places == IF name \in DOMAIN reg.byName THEN reg.order ELSE Append(reg.order, name)
<1>1. OnePlace(reg.byName, reg.order)
  BY DEF ServerSets
<1>2. /\ DOMAIN names = DOMAIN reg.byName \cup {name}
      /\ names = [n \in DOMAIN names |-> names[n]]
      /\ \A n \in DOMAIN names : names[n] = IF n = name THEN d ELSE reg.byName[n]
  OBVIOUS
<1>3. /\ DOMAIN names \subseteq ServerNames
      /\ \A n \in DOMAIN names : names[n] \in Definitions
  BY <1>1, <1>2 DEF OnePlace
<1>4. places \in Seq(ServerNames) /\ ToSet(places) = DOMAIN names /\ IsInjective(places)
  <2>1. reg.order \in Seq(ServerNames) /\ ToSet(reg.order) = DOMAIN reg.byName
        /\ IsInjective(reg.order)
    BY <1>1 DEF OnePlace
  <2>2. CASE name \in DOMAIN reg.byName
    <3>1. DOMAIN names = DOMAIN reg.byName /\ places = reg.order
      BY <1>2, <2>2
    <3> QED
      BY <2>1, <3>1
  <2>3. CASE name \notin DOMAIN reg.byName
    <3> DEFINE q == reg.order
    <3>1. places = Append(q, name)
      BY <2>3
    <3>2. /\ places \in Seq(ServerNames) /\ DOMAIN places = 1 .. Len(q) + 1
          /\ Len(q) \in Nat /\ DOMAIN q = 1 .. Len(q)
          /\ \A i \in 1 .. Len(q) : places[i] = q[i]
          /\ places[Len(q) + 1] = name
      BY <2>1, <3>1
    <3>3. ToSet(places) = ToSet(q) \cup {name}
      BY <3>2 DEF ToSet
    <3>4. name \notin ToSet(q)
      BY <2>1, <2>3
    <3>5. ASSUME NEW i \in DOMAIN places, NEW j \in DOMAIN places, places[i] = places[j]
          PROVE  i = j
      <4>1. \A k \in 1 .. Len(q) : q[k] \in ToSet(q)
        BY <3>2 DEF ToSet
      <4>2. CASE i \in 1 .. Len(q) /\ j \in 1 .. Len(q)
        BY <2>1, <3>2, <3>5, <4>2 DEF IsInjective
      <4>3. CASE i = Len(q) + 1 \/ j = Len(q) + 1
        <5>1. i \in 1 .. Len(q) => places[i] # name
          BY <3>2, <3>4, <4>1
        <5>2. j \in 1 .. Len(q) => places[j] # name
          BY <3>2, <3>4, <4>1
        <5>3. (i \in 1 .. Len(q) \/ i = Len(q) + 1) /\ (j \in 1 .. Len(q) \/ j = Len(q) + 1)
          BY <3>2
        <5> QED
          BY <3>2, <3>5, <4>3, <5>1, <5>2, <5>3
      <4> QED
        BY <3>2, <4>2, <4>3
    <3>6. IsInjective(places)
      BY <3>5, Zenon DEF IsInjective
    <3> QED
      BY <1>2, <2>1, <3>2, <3>3, <3>6
  <2> QED
    BY <2>2, <2>3
<1> HIDE DEF names, places
<1>5. OnePlace(names, places)
  BY <1>2, <1>3, <1>4 DEF OnePlace
<1>6. [byName |-> names, order |-> places] \in ServerSets
  BY <1>5, ServerSetIs
<1> QED
  BY <1>6 DEF InsertDefinition, names, places

LEMMA RegisterKeepsPlaces ==
    ASSUME EntriesAssumption, NEW reg \in ServerSets, NEW e \in Entries, NEW origin \in {"config", "host"}
    PROVE  Register(reg, e, origin) \in ServerSets
<1>1. e.name \in ServerNames /\ Definition(e, origin) \in Definitions
  BY DEF EntriesAssumption, Definition, Definitions
<1> QED
  BY <1>1, InsertKeepsPlaces DEF Register

\* The set that a configuration makes.
LEMMA ConfigHasPlaces ==
    ASSUME EntriesAssumption, NEW servers \in Seq(Entries)
    PROVE  FromConfig(servers) \in ServerSets
<1> DEFINE n == Len(servers)
<1> DEFINE base == [byName |-> <<>>, order |-> <<>>]
<1> DEFINE step == [p \in ServerSets \X (1 .. n) |-> Register(p[1], servers[p[2]], "config")]
<1> DEFINE Fold1(f) == [t \in SUBSET (1 .. n) |->
               IF t = {} THEN base ELSE Register(f[t \ {Max(t)}], servers[Max(t)], "config")]
<1>1. n \in Nat /\ DOMAIN servers = 1 .. n /\ \A i \in 1 .. n : servers[i] \in Entries
  OBVIOUS
<1>2. base \in ServerSets
  <2>1. OnePlace(<<>>, <<>>)
    <3>1. /\ DOMAIN <<>> = {} /\ <<>> \in Seq(ServerNames)
          /\ <<>> = [m \in DOMAIN <<>> |-> <<>>[m]]
      OBVIOUS
    <3> QED
      BY <3>1 DEF OnePlace, ToSet, IsInjective
  <2> QED
    BY <2>1, ServerSetIs
<1>3. step \in [ServerSets \X (1 .. n) -> ServerSets]
  <2>1. ASSUME NEW p \in ServerSets \X (1 .. n)
        PROVE  Register(p[1], servers[p[2]], "config") \in ServerSets
    BY <1>1, RegisterKeepsPlaces
  <2> QED
    BY <2>1
<1>4. \A reg \in ServerSets, i \in 1 .. n :
         step[<<reg, i>>] = Register(reg, servers[i], "config")
  OBVIOUS
<1> HIDE DEF base, step, n
<1>5. PICK f : FoldsUp(f, ServerSets, n, base, step)
  <2>1. step \in StepsOver(ServerSets, n)
    BY <1>3 DEF StepsOver
  <2> QED
    BY ONLY <1>1, <1>2, <2>1, FoldIsThere
<1>6. f = Fold1(f)
  <2>1. ASSUME NEW t \in SUBSET (1 .. n)
        PROVE  f[t] = IF t = {} THEN base ELSE Register(f[t \ {Max(t)}], servers[Max(t)], "config")
    <3>1. CASE t = {}
      BY <1>5, <3>1 DEF FoldsUp
    <3>2. CASE t # {}
      <4>1. t \ {Max(t)} \in SUBSET (1 .. n) /\ Max(t) \in 1 .. n
        BY <1>1, <3>2, MaxIsThere
      <4>2. f[t \ {Max(t)}] \in ServerSets
        BY <1>5, <4>1 DEF FoldsUp
      <4> QED
        BY <1>4, <1>5, <3>2, <4>1, <4>2 DEF FoldsUp
    <3> QED
      BY <3>1, <3>2
  <2> QED
    BY <1>5, <2>1 DEF FoldsUp
<1> DEFINE iter == CHOOSE g : g = Fold1(g)
<1>7. iter = Fold1(iter)
  BY <1>6
<1>8. FromConfig(servers) = iter[1 .. n]
  BY <1>1, Zenon DEF FromConfig, FoldLeft, MapThenFoldSet, base
<1> HIDE DEF iter
<1>9. \A t \in SUBSET (1 .. n) :
         iter[t] = IF t = {} THEN base ELSE Register(iter[t \ {Max(t)}], servers[Max(t)], "config")
  BY <1>7
<1> DEFINE T == {t \in SUBSET (1 .. n) : iter[t] \in ServerSets}
<1>10. {} \in T
  BY <1>2, <1>9
<1>11. ASSUME NEW t \in SUBSET (1 .. n), t # {}, t \ {Max(t)} \in T
       PROVE  t \in T
  <2>1. Max(t) \in 1 .. n
    BY <1>1, <1>11, MaxIsThere
  <2>2. Register(iter[t \ {Max(t)}], servers[Max(t)], "config") \in ServerSets
    BY <1>1, <1>11, <2>1, RegisterKeepsPlaces
  <2> QED
    BY <1>9, <1>11, <2>2
<1> HIDE DEF T
<1>12. SUBSET (1 .. n) \subseteq T
  BY ONLY <1>1, <1>10, <1>11, IndexInduction
<1> QED
  BY <1>8, <1>12 DEF T

\* A view keeps one place for each server it retains.
LEMMA RetainedKeepsPlaces ==
    ASSUME OnePlace(byName, order), NEW allowed
    PROVE  OnePlace(Retained(allowed).byName, Retained(allowed).order)
<1> DEFINE n == Len(order)
<1> DEFINE kinds == {Fold(a) : a \in allowed}
<1> DEFINE Keep(rest, i) == IF Fold(order[i]) \in kinds THEN Append(rest, order[i]) ELSE rest
<1> DEFINE step == [p \in Seq(ServerNames) \X (1 .. n) |-> Keep(p[1], p[2])]
<1> DEFINE Body(f) == [t \in SUBSET (1 .. n) |->
               IF t = {} THEN <<>> ELSE Keep(f[t \ {Max(t)}], Max(t))]
<1>1. /\ n \in Nat /\ DOMAIN order = 1 .. n /\ \A i \in 1 .. n : order[i] \in ServerNames
      /\ order \in Seq(ServerNames)
  BY DEF OnePlace
<1>2. \A i, j \in 1 .. n : order[i] = order[j] => i = j
  BY <1>1 DEF OnePlace, IsInjective
<1>3. \A i \in 1 .. n : order[i] \in DOMAIN byName
  BY <1>1 DEF OnePlace, ToSet
<1>4. \A rest \in Seq(ServerNames), i \in 1 .. n : Keep(rest, i) \in Seq(ServerNames)
  BY <1>1
<1>5. step \in StepsOver(Seq(ServerNames), n)
      /\ \A rest \in Seq(ServerNames), i \in 1 .. n : step[<<rest, i>>] = Keep(rest, i)
  BY <1>4 DEF StepsOver
<1>6. <<>> \in Seq(ServerNames)
  OBVIOUS
<1> HIDE DEF n, kinds, step
<1>7. PICK f : FoldsUp(f, Seq(ServerNames), n, <<>>, step)
  <2>1. n \in Nat /\ <<>> \in Seq(ServerNames) /\ step \in StepsOver(Seq(ServerNames), n)
    BY <1>1, <1>5, <1>6
  <2> QED
    BY ONLY <2>1, FoldIsThere
<1>8. f = Body(f)
  <2>1. ASSUME NEW t \in SUBSET (1 .. n)
        PROVE  f[t] = IF t = {} THEN <<>> ELSE Keep(f[t \ {Max(t)}], Max(t))
    <3>1. CASE t = {}
      BY <1>7, <3>1 DEF FoldsUp
    <3>2. CASE t # {}
      <4>1. t \ {Max(t)} \in SUBSET (1 .. n) /\ Max(t) \in 1 .. n
        BY <1>1, <3>2, MaxIsThere
      <4>2. f[t \ {Max(t)}] \in Seq(ServerNames)
        BY <1>7, <4>1 DEF FoldsUp
      <4>3. f[t] = step[<<f[t \ {Max(t)}], Max(t)>>]
        BY <1>7, <3>2 DEF FoldsUp
      <4>4. step[<<f[t \ {Max(t)}], Max(t)>>] = Keep(f[t \ {Max(t)}], Max(t))
        BY <1>5, <4>1, <4>2
      <4> QED
        BY <3>2, <4>3, <4>4
    <3> QED
      BY <3>1, <3>2
  <2>2. f \in [SUBSET (1 .. n) -> Seq(ServerNames)]
    BY <1>7 DEF FoldsUp
  <2> HIDE DEF Keep
  <2> QED
    BY <2>1, <2>2
<1> DEFINE iter == CHOOSE g : g = Body(g)
<1> DEFINE kept == iter[1 .. n]
<1>9. iter = Body(iter)
  BY <1>8
<1>10. Retained(allowed) = [byName |-> [m \in ToSet(kept) |-> byName[m]], order |-> kept]
  BY <1>1, Zenon DEF Retained, FoldLeft, MapThenFoldSet, kinds
<1> HIDE DEF iter
<1>11. \A t \in SUBSET (1 .. n) :
          iter[t] = IF t = {} THEN <<>> ELSE Keep(iter[t \ {Max(t)}], Max(t))
  BY <1>9
<1> DEFINE Good(q, t) ==
       /\ q \in Seq(ServerNames)
       /\ \A i \in 1 .. Len(q) : \E k \in t : q[i] = order[k]
       /\ \A i, j \in 1 .. Len(q) : q[i] = q[j] => i = j
<1> DEFINE T == {t \in SUBSET (1 .. n) : Good(iter[t], t)}
<1>12. {} \in T
  <2>1. Good(<<>>, {})
    BY <1>6
  <2> HIDE DEF Good
  <2> QED
    BY <1>11, <2>1
<1>13. ASSUME NEW t \in SUBSET (1 .. n), t # {}, t \ {Max(t)} \in T
       PROVE  t \in T
  <2> DEFINE x == Max(t)
  <2> DEFINE q == iter[t \ {Max(t)}]
  <2>1. x \in 1 .. n /\ x \in t /\ iter[t] = Keep(q, x)
    BY <1>1, <1>11, <1>13, MaxIsThere
  <2>2. Good(q, t \ {x})
    BY <1>13
  <2> HIDE DEF q, x
  <2>3. CASE Keep(q, x) = q
    <3>1. Good(q, t)
      BY <2>2
    <3> HIDE DEF Good, Keep
    <3> QED
      BY <2>1, <2>3, <3>1
  <2>4. CASE Keep(q, x) = Append(q, order[x])
    <3> DEFINE p == Append(q, order[x])
    <3>1. /\ p \in Seq(ServerNames) /\ Len(p) = Len(q) + 1 /\ Len(q) \in Nat
          /\ \A i \in 1 .. Len(q) : p[i] = q[i]
          /\ p[Len(q) + 1] = order[x]
      BY <1>1, <2>1, <2>2
    <3>2. \A i \in 1 .. Len(q) : q[i] # order[x]
      <4>1. ASSUME NEW i \in 1 .. Len(q)
            PROVE  q[i] # order[x]
        <5>1. PICK k \in t \ {x} : q[i] = order[k]
          BY <2>2
        <5>2. k \in 1 .. n /\ k # x
          BY <5>1
        <5> QED
          BY <1>2, <2>1, <5>1, <5>2
      <4> QED
        BY <4>1
    <3> HIDE DEF p
    <3>3. \A i \in 1 .. Len(p) : i \in 1 .. Len(q) \/ i = Len(q) + 1
      BY <3>1
    <3>4. ASSUME NEW i \in 1 .. Len(p)
          PROVE  \E k \in t : p[i] = order[k]
      BY <2>1, <2>2, <3>1, <3>3
    <3>5. ASSUME NEW i \in 1 .. Len(p), NEW j \in 1 .. Len(p), p[i] = p[j]
          PROVE  i = j
      <4>1. CASE i \in 1 .. Len(q) /\ j \in 1 .. Len(q)
        BY <2>2, <3>1, <3>5, <4>1
      <4>2. CASE ~(i \in 1 .. Len(q) /\ j \in 1 .. Len(q))
        BY <3>1, <3>2, <3>3, <3>5, <4>2
      <4> QED
        BY <4>1, <4>2
    <3>6. Good(p, t)
      BY <3>1, <3>4, <3>5
    <3>7. Good(iter[t], t)
      BY <2>1, <2>4, <3>6 DEF p
    <3> HIDE DEF Good
    <3> QED
      BY <3>7
  <2> QED
    BY <2>3, <2>4
<1> HIDE DEF T
<1>14. SUBSET (1 .. n) \subseteq T
  BY ONLY <1>1, <1>12, <1>13, IndexInduction
<1>15. Good(kept, 1 .. n)
  BY <1>14 DEF T
<1> HIDE DEF kept
<1> DEFINE names == [m \in ToSet(kept) |-> byName[m]]
<1>16. DOMAIN kept = 1 .. Len(kept)
  BY <1>15
<1>17. ToSet(kept) \subseteq DOMAIN byName
  BY <1>3, <1>15, <1>16 DEF ToSet
<1>18. DOMAIN names = ToSet(kept) /\ names = [m \in DOMAIN names |-> names[m]]
       /\ \A m \in DOMAIN names : names[m] = byName[m]
  OBVIOUS
<1>19. /\ DOMAIN names \subseteq ServerNames
       /\ \A m \in DOMAIN names : names[m] \in Definitions
  BY <1>17, <1>18 DEF OnePlace
<1>20. kept \in Seq(ServerNames) /\ IsInjective(kept)
  BY <1>15, <1>16 DEF IsInjective
<1> HIDE DEF names
<1>21. OnePlace(names, kept)
  BY <1>18, <1>19, <1>20 DEF OnePlace
<1> QED
  BY <1>10, <1>21 DEF names

-----------------------------------------------------------------------------
(* Listings and the cache.                                                   *)

\* A listing was made, under the lists that it is printed with.
WasListed(entry) ==
    \E l \in seen : /\ l.server = entry.server
                    /\ entry.print = <<l.allowed, l.disallowed>>
                    /\ entry.tools = FilterAllowedTools(l, l.offered)

StaticWorks ==
    /\ OnePlace(byName, order)
    /\ toolCache = [n \in ServerNames |-> toolCache[n]]
    /\ listing = [t \in Listings |-> listing[t]]
    /\ \A n \in ServerNames :
          toolCache[n] # NoListing => toolCache[n].server = n /\ WasListed(toolCache[n])
    /\ \A t \in Listings : listing[t] # NoListing => WasListed(listing[t])

LEMMA StaticStarts == ASSUME StaticInit PROVE StaticWorks
<1>1. OnePlace(<<>>, <<>>)
  <2>1. /\ DOMAIN <<>> = {} /\ <<>> \in Seq(ServerNames)
        /\ <<>> = [m \in DOMAIN <<>> |-> <<>>[m]]
    OBVIOUS
  <2> QED
    BY <2>1 DEF OnePlace, ToSet, IsInjective
<1> QED
  BY <1>1 DEF StaticInit, StaticWorks

\* A change of the set leaves the listings alone.
LEMMA SetChangeKeeps ==
    ASSUME StaticWorks, Changes, OnePlace(byName', order')
    PROVE  StaticWorks'
BY DEF StaticWorks, Changes, WasListed

LEMMA StaticStep ==
    ASSUME EntriesAssumption, StaticWorks, [StaticNext]_staticVars
    PROVE  StaticWorks'
<1>0. OnePlace(byName, order)
  BY DEF StaticWorks
<1>1. ASSUME NEW servers \in SeqOf(Entries, MaxDeclared), Build(servers)
      PROVE  StaticWorks'
  <2>1. servers \in Seq(Entries)
    <3>1. PICK m \in 0 .. MaxDeclared : servers \in [1 .. m -> Entries]
      BY <1>1 DEF SeqOf
    <3> QED
      BY <3>1, SeqDef DEF EntriesAssumption
  <2>2. FromConfig(servers) \in ServerSets
    BY <2>1, ConfigHasPlaces
  <2>3. OnePlace(byName', order')
    BY <1>1, <2>2 DEF Build, Becomes, ServerSets
  <2> QED
    BY <1>1, <2>3, SetChangeKeeps DEF Build
<1>2. ASSUME NEW e \in Entries, SeedHostServer(e)
      PROVE  StaticWorks'
  <2> DEFINE now == [byName |-> byName, order |-> order]
  <2>1. Register(now, e, "host") \in ServerSets
    <3>1. now \in ServerSets
      BY <1>0, ServerSetIs
    <3> QED
      BY <3>1, RegisterKeepsPlaces
  <2>2. OnePlace(byName', order')
    <3>1. CASE Seedable(e)
      <4>1. OnePlace(Register(now, e, "host").byName, Register(now, e, "host").order)
        BY <2>1 DEF ServerSets
      <4> QED
        BY <1>2, <3>1, <4>1 DEF SeedHostServer, Becomes
    <3>2. CASE ~Seedable(e)
      BY <1>0, <1>2, <3>2 DEF SeedHostServer
    <3> QED
      BY <3>1, <3>2
  <2> QED
    BY <1>2, <2>2, SetChangeKeeps DEF SeedHostServer
<1>3. ASSUME NEW allowed \in SUBSET ServerNames, RetainingServers(allowed)
      PROVE  StaticWorks'
  <2>1. OnePlace(byName', order')
    BY <1>0, <1>3, RetainedKeepsPlaces DEF RetainingServers, Becomes
  <2> QED
    BY <1>3, <2>1, SetChangeKeeps DEF RetainingServers
<1>4. ASSUME NEW t \in Listings, NEW n \in ServerNames, ListTools(t, n)
      PROVE  StaticWorks'
  <2> DEFINE d == byName[n]
  <2>1. PICK made, entry :
           /\ made = [server |-> n, allowed |-> d.allowed,
                      disallowed |-> d.disallowed, offered |-> offers[n]]
           /\ entry = [server |-> n, print |-> Fingerprint(d),
                       tools |-> FilterAllowedTools(d, offers[n])]
           /\ seen' = seen \cup {made} /\ listing' = [listing EXCEPT ![t] = entry]
           /\ toolCache' = toolCache /\ byName' = byName /\ order' = order
    BY <1>4 DEF ListTools
  <2>2. FilterAllowedTools(made, made.offered) = FilterAllowedTools(d, offers[n])
    BY <2>1 DEF FilterAllowedTools, IsToolAllowed
  <2>3. entry.print = <<made.allowed, made.disallowed>> /\ made.server = entry.server
        /\ entry.tools = FilterAllowedTools(d, offers[n])
    BY <2>1 DEF Fingerprint
  <2>4. ASSUME NEW x, WasListed(x)
        PROVE  WasListed(x)'
    BY <2>1, <2>4 DEF WasListed
  <2>5. WasListed(entry)'
    <3>1. made \in seen'
      BY <2>1
    <3> QED
      BY <2>2, <2>3, <3>1 DEF WasListed
  <2>6. /\ listing' = [u \in Listings |-> listing'[u]]
        /\ \A u \in Listings : listing'[u] = IF u = t THEN entry ELSE listing[u]
    BY <2>1 DEF StaticWorks
  <2>7. ASSUME NEW u \in Listings, listing'[u] # NoListing
        PROVE  WasListed(listing[u])'
    <3>1. CASE u = t
      BY <2>5, <2>6, <3>1
    <3>2. CASE u # t
      BY <2>4, <2>6, <2>7, <3>2 DEF StaticWorks
    <3> QED
      BY <3>1, <3>2
  <2>8. ASSUME NEW m \in ServerNames, toolCache'[m] # NoListing
        PROVE  toolCache'[m].server = m /\ WasListed(toolCache[m])'
    BY <2>1, <2>4, <2>8 DEF StaticWorks
  <2>9. OnePlace(byName', order') /\ toolCache' = [m \in ServerNames |-> toolCache'[m]]
    BY <1>0, <2>1 DEF StaticWorks
  <2> QED
    BY <2>6, <2>7, <2>8, <2>9 DEF StaticWorks
<1>5. ASSUME NEW t \in Listings, PutCachedTools(t)
      PROVE  StaticWorks'
  <2> DEFINE entry == listing[t]
  <2>1. /\ entry # NoListing /\ seen' = seen /\ byName' = byName /\ order' = order
        /\ listing' = [listing EXCEPT ![t] = NoListing]
        /\ toolCache' = toolCache \/ toolCache' = [toolCache EXCEPT ![entry.server] = entry]
    BY <1>5 DEF PutCachedTools
  <2>2. WasListed(entry)
    BY <2>1 DEF StaticWorks
  <2>3. ASSUME NEW x, WasListed(x)
        PROVE  WasListed(x)'
    BY <2>1, <2>3 DEF WasListed
  <2> HIDE DEF entry
  <2>4. \A m \in ServerNames :
           toolCache'[m] = toolCache[m] \/ (toolCache'[m] = entry /\ entry.server = m)
    BY <2>1 DEF StaticWorks
  <2>5. ASSUME NEW m \in ServerNames, toolCache'[m] # NoListing
        PROVE  toolCache'[m].server = m /\ WasListed(toolCache[m])'
    BY <2>2, <2>3, <2>4, <2>5 DEF StaticWorks
  <2>6. ASSUME NEW u \in Listings, listing'[u] # NoListing
        PROVE  WasListed(listing[u])'
    <3>1. listing'[u] = listing[u] /\ WasListed(listing[u])
      BY <2>1, <2>6 DEF StaticWorks
    <3> QED
      BY <2>3, <3>1
  <2>7. /\ toolCache' = [m \in ServerNames |-> toolCache'[m]]
        /\ listing' = [u \in Listings |-> listing'[u]]
    BY <2>1 DEF StaticWorks
  <2> QED
    BY <1>0, <2>1, <2>5, <2>6, <2>7 DEF StaticWorks
<1>6. ASSUME NEW n \in ServerNames, Offer(n)
      PROVE  StaticWorks'
  BY <1>6 DEF StaticWorks, Offer, WasListed
<1>7. ASSUME UNCHANGED staticVars
      PROVE  StaticWorks'
  BY <1>7 DEF StaticWorks, staticVars, WasListed
<1> QED
  BY <1>1, <1>2, <1>3, <1>4, <1>5, <1>6, <1>7 DEF StaticNext

\* What is served from the cache is what was listed: the print tells the lists, and
\* filtering again changes nothing.
LEMMA CacheServesListings == ASSUME StaticWorks PROVE CachedIsAsListed
<1> SUFFICES ASSUME NEW n \in ServerNames, CachedTools(n) # NoListing
             PROVE  \E l \in seen :
                       /\ l.server = n
                       /\ l.allowed = byName[n].allowed
                       /\ l.disallowed = byName[n].disallowed
                       /\ CachedTools(n).tools = FilterAllowedTools(byName[n], l.offered)
  BY DEF CachedIsAsListed
<1> DEFINE d == byName[n]
<1>1. /\ toolCache[n] # NoListing /\ toolCache[n].print = Fingerprint(d)
      /\ CachedTools(n) = [server |-> n, tools |-> FilterAllowedTools(d, toolCache[n].tools)]
  BY DEF CachedTools
<1>2. toolCache[n].server = n /\ WasListed(toolCache[n])
  BY <1>1 DEF StaticWorks
<1>3. PICK l \in seen : /\ l.server = n
                        /\ toolCache[n].print = <<l.allowed, l.disallowed>>
                        /\ toolCache[n].tools = FilterAllowedTools(l, l.offered)
  BY <1>2 DEF WasListed
<1>4. l.allowed = d.allowed /\ l.disallowed = d.disallowed
  BY <1>1, <1>3 DEF Fingerprint
<1>5. FilterAllowedTools(d, FilterAllowedTools(l, l.offered)) = FilterAllowedTools(d, l.offered)
  BY <1>4 DEF FilterAllowedTools, IsToolAllowed
<1> QED
  BY <1>1, <1>3, <1>4, <1>5

LEMMA SeedsComeAfter ==
    [StaticNext]_staticVars =>
      [\A e \in Entries : SeedHostServer(e) =>
         \A n \in DOMAIN byName : byName[n].source = "config" => byName'[n] = byName[n]]_staticVars
<1>1. ASSUME NEW e \in Entries, SeedHostServer(e), NEW n \in DOMAIN byName
      PROVE  byName'[n] = byName[n]
  <2>1. CASE Seedable(e) /\ e.enabled /\ e.dial # "none"
    <3>1. n # e.name
      BY <2>1 DEF Seedable
    <3>2. byName' = [m \in DOMAIN byName \cup {e.name} |->
                        IF m = e.name THEN Definition(e, "host") ELSE byName[m]]
      BY <1>1, <2>1 DEF SeedHostServer, Becomes, Register, InsertDefinition
    <3> QED
      BY <3>1, <3>2
  <2>2. CASE ~(Seedable(e) /\ e.enabled /\ e.dial # "none")
    BY <1>1, <2>2 DEF SeedHostServer, Becomes, Register
  <2> QED
    BY <2>1, <2>2
<1> QED
  BY <1>1

\* Whatever the configuration declares and the host seeds, retains or lists, each name
\* has one place, a seed takes no name that the configuration has, and what is served
\* from the cache was listed under the very lists that the server has now.
THEOREM EntriesStaySound == StaticSpec => StaticKeeps
<1>1. StaticInit => StaticWorks
  BY StaticStarts
<1>2. StaticWorks /\ [StaticNext]_staticVars => StaticWorks'
  BY StaticStep, EntriesAssumption
<1>3. StaticWorks => StaticInv
  BY CacheServesListings DEF StaticInv, OrderIsTheSet, StaticWorks, OnePlace
<1> QED
  BY <1>1, <1>2, <1>3, SeedsComeAfter, PTL DEF StaticSpec, StaticKeeps, UserEntryWins

-----------------------------------------------------------------------------
(* StoreMigration: for any openers, crashes, servers, pages and windows.     *)

Stored(r) == target[r] # "none" \/ r \in removed

\* The first `from` entries lie in the audit log, up to its first `to` records.
CopiedTo(from, to) ==
    /\ from <= to /\ to <= Len(audit)
    /\ \A i \in 1..from : audit[(to - from) + i] = i

StreamPlaces == {"streams", "length", "progress", "baseline", "keep", "read", "compare",
                 "tail", "append", "advance", "drop", "mark", "open"}

\* What an opener knows of the rows by where it stands: those it has passed are
\* gone, and those of its page are stored or still to be put.
RowsFit(x) ==
    /\ x.at \in {"query", "put", "delete", "save"} => \A q \in legacy : q > x.cursor
    /\ x.at \in {"put", "delete"} =>
          /\ \A q \in legacy \ x.page : ~x.last /\ \A p \in x.page : q > p
          /\ \A r \in x.page \cap Carried : r \in x.puts \/ Stored(r)
    /\ x.at = "delete" => x.puts = {}
    /\ x.at = "save" /\ x.last => legacy = {}
    /\ x.at \in {"finish"} \cup StreamPlaces => legacy = {}

\* And of the streams.
StreamFits(x) ==
    /\ x.at \in {"progress", "baseline", "keep", "read", "compare", "tail", "append",
                 "advance", "drop"} => (x.length = 0 => source = 0)
    /\ x.at \in {"keep", "read", "compare", "tail", "append", "advance"} =>
          CopiedTo(x.from, x.to)
    /\ x.at \in {"compare", "tail", "append"} => x.from < x.length
    /\ x.at = "drop" => source = 0 \/ (x.from = AuditLength /\ CopiedTo(x.from, x.to))
    /\ x.at \in {"mark", "open"} => source = 0

Places == {"idle", "load", "query", "put", "delete", "save", "finish"} \cup StreamPlaces

OpenerStates ==
    [at : Places,
     cursor : 0..RowCount, page : SUBSET Rows, puts : SUBSET Rows, last : BOOLEAN,
     length : {0, AuditLength}, from : 0..AuditLength, to : Nat]

MigrationTypes ==
    /\ legacy \subseteq Rows /\ removed \subseteq Rows
    /\ target \in [Rows -> {"none", "moved", "edited"}]
    /\ ledger \in [cursor : 0..RowCount, done : BOOLEAN]
    /\ source \in {0, AuditLength} /\ writes \in 0..MaxWrites
    /\ audit \in Seq(1..Written) /\ imported \in BOOLEAN

SavedFits ==
    /\ \A q \in legacy : q > ledger.cursor
    /\ ledger.done => legacy = {}
    /\ imported => source = 0
    /\ \/ checkpoint = None
       \/ checkpoint.from \in 0..AuditLength /\ checkpoint.to \in Nat
          /\ CopiedTo(checkpoint.from, checkpoint.to)

SharedWorks == MigrationTypes /\ NothingIsLost /\ AuditIsKept /\ SavedFits

OpenerFits(x) ==
    x \in OpenerStates /\ x.puts \subseteq x.page /\ RowsFit(x) /\ StreamFits(x)

MigrationWorks ==
    /\ SharedWorks
    /\ opener \in [Openers -> OpenerStates]
    /\ \A o \in Openers : OpenerFits(opener[o])

-----------------------------------------------------------------------------
(* Openers that do not move.                                                 *)

\* What only ever happens to the storage.
GoesOn ==
    /\ legacy' \subseteq legacy /\ source' \in {source, 0}
    /\ \A r \in Rows : Stored(r) => Stored(r)'
    /\ \A from \in 0..AuditLength, to \in Nat : CopiedTo(from, to) => CopiedTo(from, to)'

LEMMA OpenersStay ==
    ASSUME NEW x, OpenerFits(x), GoesOn
    PROVE  OpenerFits(x)'
<1>1. /\ x \in OpenerStates /\ x.puts \subseteq x.page /\ RowsFit(x) /\ StreamFits(x)
      /\ x.page \subseteq Rows /\ x.from \in 0..AuditLength /\ x.to \in Nat
  BY DEF OpenerFits, OpenerStates
<1>2. RowsFit(x)'
  <2>1. legacy' \subseteq legacy /\ \A r \in Rows : Stored(r) => Stored(r)'
    BY DEF GoesOn
  <2>2. \A r \in x.page \cap Carried : r \in Rows
    BY <1>1
  <2>3. x.at \in {"query", "put", "delete", "save"} => \A q \in legacy' : q > x.cursor
    BY <1>1, <2>1 DEF RowsFit
  <2>4. ASSUME x.at \in {"put", "delete"}
        PROVE  /\ \A q \in legacy' \ x.page : ~x.last /\ \A p \in x.page : q > p
               /\ \A r \in x.page \cap Carried : r \in x.puts \/ Stored(r)'
    <3>1. \A q \in legacy \ x.page : ~x.last /\ \A p \in x.page : q > p
      BY <1>1, <2>4 DEF RowsFit
    <3>2. \A r \in x.page \cap Carried : r \in x.puts \/ Stored(r)
      BY <1>1, <2>4 DEF RowsFit
    <3> QED
      BY <2>1, <2>2, <3>1, <3>2
  <2>5. /\ x.at = "delete" => x.puts = {}
        /\ x.at = "save" /\ x.last => legacy' = {}
        /\ x.at \in {"finish"} \cup StreamPlaces => legacy' = {}
    BY <1>1, <2>1 DEF RowsFit
  <2> QED
    BY <2>3, <2>4, <2>5 DEF RowsFit
<1>3. StreamFits(x)'
  <2>1. source = 0 => source' = 0
    BY DEF GoesOn
  <2>2. CopiedTo(x.from, x.to) => CopiedTo(x.from, x.to)'
    BY <1>1 DEF GoesOn
  <2> QED
    BY <1>1, <2>1, <2>2 DEF StreamFits
<1> QED
  BY <1>1, <1>2, <1>3 DEF OpenerFits, OpenerStates

\* A step of one opener.
LEMMA OpenerMoves ==
    ASSUME MigrationWorks, NEW o \in Openers, NEW x, opener' = [opener EXCEPT ![o] = x],
           GoesOn, SharedWorks', OpenerFits(x)'
    PROVE  MigrationWorks'
<1>1. x \in OpenerStates
  BY DEF OpenerFits, OpenerStates
<1>2. opener' \in [Openers -> OpenerStates]
  BY <1>1 DEF MigrationWorks
<1>3. ASSUME NEW p \in Openers
      PROVE  OpenerFits(opener[p])'
  <2>1. CASE p = o
    <3>1. opener'[p] = x
      BY <2>1 DEF MigrationWorks
    <3> QED
      BY <3>1
  <2>2. CASE p # o
    <3>1. PICK y : y = opener[p]
      OBVIOUS
    <3>2. opener'[p] = y
      BY <2>2, <3>1 DEF MigrationWorks
    <3>3. OpenerFits(y)
      BY <3>1 DEF MigrationWorks
    <3>4. OpenerFits(y)'
      BY <3>3, OpenersStay
    <3> QED
      BY <3>2, <3>4
  <2> QED
    BY <2>1, <2>2
<1> QED
  BY <1>2, <1>3 DEF MigrationWorks

LEMMA SharedStays ==
    ASSUME SharedWorks, UNCHANGED <<docVars, streamVars>>
    PROVE  SharedWorks' /\ GoesOn
<1>1. /\ legacy' = legacy /\ target' = target /\ ledger' = ledger /\ removed' = removed
      /\ source' = source /\ audit' = audit /\ checkpoint' = checkpoint
      /\ imported' = imported /\ writes' = writes
  BY DEF docVars, streamVars
<1>2. MigrationTypes' /\ NothingIsLost' /\ AuditIsKept'
  BY <1>1 DEF SharedWorks, MigrationTypes, NothingIsLost, AuditIsKept
<1>3. SavedFits'
  BY <1>1 DEF SharedWorks, SavedFits, CopiedTo
<1>4. GoesOn
  BY <1>1 DEF GoesOn, Stored, CopiedTo
<1> QED
  BY <1>2, <1>3, <1>4 DEF SharedWorks

\* A step that only looks at the storage.
LEMMA OpenerLooks ==
    ASSUME MigrationWorks, NEW o \in Openers, NEW x, opener' = [opener EXCEPT ![o] = x],
           UNCHANGED <<docVars, streamVars>>, OpenerFits(x)
    PROVE  MigrationWorks'
<1>1. SharedWorks' /\ GoesOn
  BY SharedStays DEF MigrationWorks
<1>2. OpenerFits(x)'
  BY <1>1, OpenersStay
<1> QED
  BY <1>1, <1>2, OpenerMoves

\* The record of an opener that goes to another place.
LEMMA MovedIs ==
    ASSUME NEW y \in OpenerStates, NEW at \in Places
    PROVE  LET x == [y EXCEPT !.at = at]
           IN  /\ x \in OpenerStates /\ x.at = at /\ x.cursor = y.cursor
               /\ x.page = y.page /\ x.puts = y.puts /\ x.last = y.last
               /\ x.length = y.length /\ x.from = y.from /\ x.to = y.to
BY DEF OpenerStates

LEMMA GotoIs ==
    ASSUME NEW o \in Openers, opener \in [Openers -> OpenerStates], NEW at \in Places, Goto(o, at)
    PROVE  \E x \in OpenerStates :
              /\ opener' = [opener EXCEPT ![o] = x]
              /\ x.at = at /\ x.cursor = opener[o].cursor
              /\ x.page = opener[o].page /\ x.puts = opener[o].puts /\ x.last = opener[o].last
              /\ x.length = opener[o].length /\ x.from = opener[o].from /\ x.to = opener[o].to
<1> DEFINE y == opener[o]
<1> DEFINE x == [y EXCEPT !.at = at]
<1>1. y \in OpenerStates
  OBVIOUS
<1>2. opener' = [opener EXCEPT ![o] = x]
  BY DEF Goto
<1>3. /\ x \in OpenerStates /\ x.at = at /\ x.cursor = y.cursor
      /\ x.page = y.page /\ x.puts = y.puts /\ x.last = y.last
      /\ x.length = y.length /\ x.from = y.from /\ x.to = y.to
  BY <1>1, MovedIs
<1> HIDE DEF x, y
<1> QED
  BY <1>2, <1>3 DEF y

\* A crash, or a step that fails.
LEMMA FailKeeps ==
    ASSUME MigrationAssumption, MigrationWorks, NEW o \in Openers, Fail(o), SharedWorks', GoesOn
    PROVE  MigrationWorks'
<1>1. OpenerFits(Unopened)'
  <2>1. Unopened \in OpenerStates
    BY DEF Unopened, OpenerStates, Places, MigrationAssumption
  <2>2. Unopened.at = "idle" /\ Unopened.puts = {} /\ Unopened.page = {}
    BY DEF Unopened
  <2>3. RowsFit(Unopened)'
    BY <2>2 DEF RowsFit, StreamPlaces, Unopened
  <2>4. StreamFits(Unopened)'
    BY <2>2 DEF StreamFits, StreamPlaces, Unopened
  <2> QED
    BY <2>1, <2>2, <2>3, <2>4 DEF OpenerFits
<1>2. PICK x : x = Unopened
  OBVIOUS
<1>3. opener' = [opener EXCEPT ![o] = x]
  BY <1>2 DEF Fail
<1>4. OpenerFits(x)'
  BY <1>1, <1>2 DEF Unopened
<1> QED
  BY <1>3, <1>4, OpenerMoves
-----------------------------------------------------------------------------
(* The rows.                                                                 *)

LEMMA OpenerTypes ==
    ASSUME MigrationAssumption, MigrationWorks, NEW o \in Openers
    PROVE  LET y == opener[o]
           IN  /\ y \in OpenerStates /\ OpenerFits(y)
               /\ y.cursor \in 0..RowCount /\ y.page \subseteq Rows /\ y.puts \subseteq y.page
               /\ y.length \in {0, AuditLength} /\ y.from \in 0..AuditLength /\ y.to \in Nat
               /\ RowsFit(y) /\ StreamFits(y)
BY DEF MigrationWorks, OpenerFits, OpenerStates

LEMMA BeginKeeps ==
    ASSUME MigrationAssumption, MigrationWorks, NEW o \in Openers, Begin(o) \/ LoadProgress(o)
    PROVE  MigrationWorks'
<1> DEFINE y == opener[o]
<1>0. y \in OpenerStates /\ OpenerFits(y) /\ opener \in [Openers -> OpenerStates]
      /\ y.puts \subseteq y.page
  BY OpenerTypes DEF MigrationWorks
<1>1. CASE Begin(o)
  <2>1. PICK x \in OpenerStates :
          /\ opener' = [opener EXCEPT ![o] = x]
          /\ x.at = "load" /\ x.page = y.page /\ x.puts = y.puts
    BY <1>0, <1>1, GotoIs DEF Begin, Places
  <2>2. OpenerFits(x)
    BY <1>0, <2>1 DEF OpenerFits, RowsFit, StreamFits, StreamPlaces
  <2> QED
    BY <1>1, <2>1, <2>2, OpenerLooks DEF Begin
<1>2. CASE LoadProgress(o)
  <2> DEFINE x == [y EXCEPT !.at = IF ledger.done THEN "streams" ELSE "query",
                            !.cursor = ledger.cursor]
  <2>1. ledger.cursor \in 0..RowCount
    BY DEF MigrationWorks, SharedWorks, MigrationTypes
  <2>2. SavedFits
    BY DEF MigrationWorks, SharedWorks
  <2>3. x \in OpenerStates
    BY <1>0, <2>1 DEF OpenerStates, Places, StreamPlaces
  <2>4. /\ x.at = IF ledger.done THEN "streams" ELSE "query"
        /\ x.cursor = ledger.cursor /\ x.page = y.page /\ x.puts = y.puts
    BY <1>0 DEF OpenerStates
  <2>5. opener' = [opener EXCEPT ![o] = x]
    BY <1>2 DEF LoadProgress
  <2> HIDE DEF x
  <2>6. CASE ledger.done
    <3>1. x.at = "streams" /\ legacy = {}
      BY <2>2, <2>4, <2>6 DEF SavedFits
    <3> QED
      <4>1. OpenerFits(x)
        BY <1>0, <2>3, <2>4, <3>1 DEF OpenerFits, RowsFit, StreamFits, StreamPlaces
      <4>2. PICK z : z = x
        OBVIOUS
      <4> QED
        BY <1>2, <2>5, <4>1, <4>2, OpenerLooks DEF LoadProgress
  <2>7. CASE ~ledger.done
    <3>1. x.at = "query" /\ \A q \in legacy : q > x.cursor
      BY <2>2, <2>4, <2>7 DEF SavedFits
    <3> QED
      <4>1. OpenerFits(x)
        BY <1>0, <2>3, <2>4, <3>1 DEF OpenerFits, RowsFit, StreamFits, StreamPlaces
      <4>2. PICK z : z = x
        OBVIOUS
      <4> QED
        BY <1>2, <2>5, <4>1, <4>2, OpenerLooks DEF LoadProgress
  <2> QED
    BY <2>6, <2>7
<1> QED
  BY <1>1, <1>2

\* A page has the first of the rows that are left, and some if there are any.
LEMMA PageIsFirst ==
    ASSUME MigrationAssumption, legacy \subseteq Rows, NEW cursor \in Nat
    PROVE  /\ PageAfter(cursor) \subseteq After(cursor) /\ After(cursor) \subseteq legacy
           /\ PageAfter(cursor) = {} => After(cursor) = {}
           /\ \A q \in After(cursor) \ PageAfter(cursor), p \in PageAfter(cursor) : q > p
<1> DEFINE A == After(cursor)
<1> DEFINE Lesser(r) == {q \in A : q < r}
<1>1. IsFiniteSet(Rows) /\ A \subseteq Rows /\ RowCount \in Nat
      /\ PageAfter(cursor) = {r \in A : Cardinality(Lesser(r)) < Batch}
  <2>1. RowCount \in Nat /\ IsFiniteSet(Rows)
    <3>1. RowCount \in Nat
      BY DEF MigrationAssumption
    <3>2. IsFiniteSet(1 .. RowCount)
      BY <3>1, FS_Interval
    <3> QED
      BY <3>1, <3>2 DEF Rows
  <2>2. PageAfter(cursor) = {r \in A : Cardinality(Lesser(r)) < Batch}
    BY Zenon DEF PageAfter
  <2>3. A \subseteq Rows
    BY DEF After
  <2> QED
    BY <2>1, <2>2, <2>3
<1>2. \A r \in A : r \in Nat
  BY <1>1 DEF Rows
<1>3. IsFiniteSet(A)
  BY <1>1, FS_Subset
<1> HIDE DEF A
<1>4. ASSUME NEW r \in A
      PROVE  IsFiniteSet(Lesser(r)) /\ Cardinality(Lesser(r)) \in Nat
  BY <1>3, FS_Subset, FS_CardinalityType
<1>5. ASSUME PageAfter(cursor) = {}
      PROVE  A = {}
  <2> DEFINE S == {n \in Nat : \A r \in A : r >= n}
  <2> SUFFICES ASSUME A # {} PROVE FALSE
    OBVIOUS
  <2>1. 0 \in S
    BY <1>2
  <2>2. ASSUME NEW n \in Nat, n \in S
        PROVE  n + 1 \in S
    <3>1. n \notin A
      <4>1. SUFFICES ASSUME n \in A PROVE FALSE
        OBVIOUS
      <4>2. Lesser(n) = {}
        BY <1>2, <2>2
      <4>3. Cardinality(Lesser(n)) = 0
        BY <4>2, FS_EmptySet
      <4> QED
        BY <1>1, <1>5, <4>1, <4>3 DEF MigrationAssumption
    <3> QED
      BY <1>2, <2>2, <3>1
  <2> HIDE DEF S
  <2>3. Nat \subseteq S
    BY ONLY <2>1, <2>2, Induction
  <2>4. PICK r \in A : TRUE
    OBVIOUS
  <2>5. r + 1 \in S /\ r \in Nat
    BY <1>2, <2>3, <2>4
  <2> QED
    BY <2>4, <2>5 DEF S
<1>6. ASSUME NEW q \in A \ PageAfter(cursor), NEW p \in PageAfter(cursor)
      PROVE  q > p
  <2>1. q \in Nat /\ p \in Nat /\ p \in A
    BY <1>1, <1>2
  <2>2. SUFFICES ASSUME q <= p PROVE FALSE
    BY <2>1
  <2>3. Lesser(q) \subseteq Lesser(p)
    <3>1. ASSUME NEW b \in A, b < q
          PROVE  b < p
      <4>1. b \in Nat
        BY <1>2
      <4> QED
        BY <2>1, <2>2, <3>1, <4>1
    <3> QED
      BY <3>1
  <2>4. Cardinality(Lesser(q)) <= Cardinality(Lesser(p))
    BY <1>4, <2>1, <2>3, FS_Subset
  <2>5. Cardinality(Lesser(p)) < Batch /\ ~(Cardinality(Lesser(q)) < Batch)
    BY <1>1
  <2>6. Cardinality(Lesser(p)) \in Nat /\ Cardinality(Lesser(q)) \in Nat /\ Batch \in Nat
    BY <1>4, <2>1 DEF MigrationAssumption
  <2> HIDE DEF Lesser
  <2> QED
    BY <2>4, <2>5, <2>6
<1>7. PageAfter(cursor) \subseteq A /\ A \subseteq legacy
  BY <1>1 DEF After, A
<1> QED
  BY <1>5, <1>6, <1>7 DEF A

LEMMA QueryKeeps ==
    ASSUME MigrationAssumption, MigrationWorks, NEW o \in Openers, QueryPage(o)
    PROVE  MigrationWorks'
<1> DEFINE y == opener[o]
<1> DEFINE page == PageAfter(y.cursor)
<1>0. y \in OpenerStates /\ opener \in [Openers -> OpenerStates]
      /\ y.puts \subseteq y.page /\ y.cursor \in Nat /\ y.at = "query" /\ RowsFit(y)
  BY OpenerTypes, QueryPage(o) DEF MigrationWorks, QueryPage
<1>1. legacy \subseteq Rows
  BY DEF MigrationWorks, SharedWorks, MigrationTypes
<1>2. /\ page \subseteq After(y.cursor) /\ After(y.cursor) \subseteq legacy
      /\ page = {} => After(y.cursor) = {}
      /\ \A q \in After(y.cursor) \ page, p \in page : q > p
  BY <1>0, <1>1, PageIsFirst
<1>3. After(y.cursor) = legacy /\ \A q \in legacy : q > y.cursor
  BY <1>0 DEF RowsFit, After
<1> DEFINE done == [y EXCEPT !.at = "finish"]
<1> DEFINE work == [y EXCEPT !.at = "put", !.page = page, !.puts = page \cap Carried,
                             !.last = LastPage(page, y.cursor)]
<1>4. opener' = [opener EXCEPT ![o] = IF page = {} THEN done ELSE work]
      /\ UNCHANGED <<docVars, streamVars>>
  BY DEF QueryPage
<1>5. /\ done \in OpenerStates /\ done.at = "finish" /\ done.page = y.page /\ done.puts = y.puts
      /\ work.at = "put" /\ work.page = page /\ work.puts = page \cap Carried
      /\ work.cursor = y.cursor
  BY <1>0 DEF OpenerStates, Places
<1>6. work.last = LastPage(page, y.cursor) /\ work.last \in BOOLEAN
  BY <1>0 DEF OpenerStates, LastPage
<1>7. work \in OpenerStates
  <2>1. page \subseteq Rows /\ page \cap Carried \subseteq Rows
    BY <1>1, <1>2
  <2>2. LastPage(page, y.cursor) \in BOOLEAN
    BY DEF LastPage
  <2> HIDE DEF page, y
  <2> QED
    BY <1>0, <2>1, <2>2 DEF OpenerStates, Places
<1> HIDE DEF done, work, page
<1>8. CASE page = {}
  <2>1. legacy = {}
    BY <1>2, <1>3, <1>8
  <2>2. OpenerFits(done)
    BY <1>0, <1>5, <2>1 DEF OpenerFits, RowsFit, StreamFits, StreamPlaces
  <2> QED
    BY <1>4, <1>8, <2>2, OpenerLooks
<1>9. CASE page # {}
  <2>1. RowsFit(work)
    <3>1. \A q \in legacy \ page : ~work.last /\ \A p \in page : q > p
      <4>1. work.last => legacy = page
        BY <1>3, <1>6 DEF LastPage
      <4> QED
        BY <1>2, <1>3, <4>1
    <3> QED
      BY <1>3, <1>5, <3>1 DEF RowsFit, StreamPlaces
  <2>2. StreamFits(work)
    BY <1>5 DEF StreamFits
  <2>3. OpenerFits(work)
    BY <1>5, <1>7, <2>1, <2>2 DEF OpenerFits
  <2> QED
    BY <1>4, <1>9, <2>3, OpenerLooks
<1> QED
  BY <1>8, <1>9

\* A row's copy is written, or the row is stored already.
LEMMA PutKeeps ==
    ASSUME MigrationAssumption, MigrationWorks, NEW o \in Openers, PutNext(o)
    PROVE  MigrationWorks'
<1> DEFINE y == opener[o]
<1>r. PICK r : r = Min(y.puts)
  OBVIOUS
<1>0. /\ y \in OpenerStates /\ OpenerFits(y) /\ opener \in [Openers -> OpenerStates]
      /\ y.puts \subseteq y.page /\ y.page \subseteq Rows /\ y.at = "put"
      /\ RowsFit(y) /\ StreamFits(y) /\ SharedWorks
  BY OpenerTypes, PutNext(o) DEF MigrationWorks, PutNext
<1>1. CASE y.puts = {}
  <2>1. /\ Goto(o, "delete") /\ UNCHANGED <<docVars, streamVars>>
    BY <1>1 DEF PutNext, docVars
  <2>2. PICK x \in OpenerStates :
          /\ opener' = [opener EXCEPT ![o] = x]
          /\ x.at = "delete" /\ x.cursor = y.cursor /\ x.page = y.page
          /\ x.puts = y.puts /\ x.last = y.last
    BY <1>0, <2>1, GotoIs DEF Places
  <2>3. OpenerFits(x)
    <3>1. RowsFit(x)
      BY <1>0, <1>1, <2>2 DEF RowsFit, StreamPlaces
    <3>2. StreamFits(x)
      BY <2>2 DEF StreamFits
    <3> QED
      BY <1>0, <2>2, <3>1, <3>2 DEF OpenerFits
  <2> QED
    BY <2>1, <2>2, <2>3, OpenerLooks
<1>2. CASE y.puts # {}
  <2>1. /\ target' = IF target[r] = "none" THEN [target EXCEPT ![r] = "moved"] ELSE target
        /\ IF target[r] = "edited" THEN Fail(o)
           ELSE opener' = [opener EXCEPT ![o].puts = @ \ {r}]
        /\ legacy' = legacy /\ ledger' = ledger /\ removed' = removed /\ UNCHANGED streamVars
    BY <1>r, <1>2 DEF PutNext, PutAbsent
  <2>2. r \in y.puts /\ r \in Rows
    <3>1. y.puts \subseteq 1 .. RowCount /\ RowCount \in Nat
      BY <1>0 DEF Rows, MigrationAssumption
    <3>2. r \in y.puts
      BY <1>r, <1>2, <3>1, MinIsThere
    <3> QED
      BY <1>0, <3>2
  <2>3. /\ target' \in [Rows -> {"none", "moved", "edited"}]
        /\ target'[r] # "none"
        /\ \A q \in Rows : target[q] # "none" => target'[q] # "none"
    BY <1>0, <2>1, <2>2 DEF SharedWorks, MigrationTypes
  <2>4. \A q \in Rows : Stored(q) => Stored(q)'
    BY <2>1, <2>3 DEF Stored
  <2>5. /\ source' = source /\ audit' = audit /\ checkpoint' = checkpoint
        /\ imported' = imported /\ writes' = writes
    BY <2>1 DEF streamVars
  <2>6. GoesOn
    BY <2>1, <2>4, <2>5 DEF GoesOn, CopiedTo
  <2>7. SharedWorks'
    <3>1. MigrationTypes'
      BY <1>0, <2>1, <2>3, <2>5 DEF SharedWorks, MigrationTypes
    <3>2. NothingIsLost'
      <4>1. \A q \in Carried : q \in Rows => (q \in legacy \/ Stored(q))
        BY <1>0 DEF SharedWorks, NothingIsLost, Stored
      <4>2. Carried \subseteq Rows
        BY DEF MigrationAssumption, Rows
      <4> QED
        BY <2>1, <2>4, <4>1, <4>2 DEF NothingIsLost, Stored
    <3>3. AuditIsKept' /\ SavedFits'
      BY <1>0, <2>1, <2>5 DEF SharedWorks, AuditIsKept, SavedFits, CopiedTo
    <3> QED
      BY <3>1, <3>2, <3>3 DEF SharedWorks
  <2>8. CASE target[r] = "edited"
    BY <2>1, <2>6, <2>7, <2>8, FailKeeps
  <2>9. CASE target[r] # "edited"
    <3> DEFINE x == [y EXCEPT !.puts = y.puts \ {r}]
    <3>1. opener' = [opener EXCEPT ![o] = x]
      BY <2>1, <2>9
    <3>2. /\ x \in OpenerStates /\ x.at = y.at /\ x.cursor = y.cursor /\ x.page = y.page
          /\ x.puts = y.puts \ {r} /\ x.last = y.last
      BY <1>0 DEF OpenerStates
    <3>3. PICK z : z = x
      OBVIOUS
    <3> HIDE DEF x
    <3>4. RowsFit(z)'
      <4>1. \A q \in legacy' : q > z.cursor
        BY <1>0, <2>1, <3>2, <3>3 DEF RowsFit
      <4>2. \A q \in legacy' \ z.page : ~z.last /\ \A p \in z.page : q > p
        BY <1>0, <2>1, <3>2, <3>3 DEF RowsFit
      <4>3. \A q \in y.page \cap Carried : q \in y.puts \/ Stored(q)
        BY <1>0 DEF RowsFit
      <4>4. Stored(r)'
        BY <2>3 DEF Stored
      <4>5. \A q \in z.page \cap Carried : q \in z.puts \/ Stored(q)'
        BY <1>0, <2>4, <3>2, <3>3, <4>3, <4>4
      <4> QED
        BY <1>0, <3>2, <3>3, <4>1, <4>2, <4>5 DEF RowsFit, StreamPlaces
    <3>5. StreamFits(z)'
      BY <1>0, <3>2, <3>3 DEF StreamFits
    <3>6. OpenerFits(z)'
      BY <1>0, <3>2, <3>3, <3>4, <3>5 DEF OpenerFits, OpenerStates
    <3> QED
      BY <2>6, <2>7, <3>1, <3>3, <3>6, OpenerMoves
  <2> QED
    BY <2>8, <2>9
<1> QED
  BY <1>1, <1>2

\* The next row of a page that is stored is deleted, the least one first.
LEMMA DeleteKeeps ==
    ASSUME MigrationAssumption, MigrationWorks, NEW o \in Openers, DeleteNext(o)
    PROVE  MigrationWorks'
<1> DEFINE y == opener[o]
<1>0. /\ y \in OpenerStates /\ OpenerFits(y) /\ opener \in [Openers -> OpenerStates]
      /\ y.puts = {} /\ y.page \subseteq Rows /\ y.at = "delete"
      /\ RowsFit(y) /\ StreamFits(y) /\ SharedWorks
  BY OpenerTypes, DeleteNext(o) DEF MigrationWorks, DeleteNext, RowsFit
<1>1. PICK r \in y.page :
         /\ r = Min(y.page)
         /\ legacy' = legacy \ {r}
         /\ opener' = [opener EXCEPT ![o] = [y EXCEPT !.page = y.page \ {r}, !.cursor = r,
                                        !.at = IF y.page = {r} THEN "save" ELSE y.at]]
         /\ target' = target /\ ledger' = ledger /\ removed' = removed /\ UNCHANGED streamVars
  <2>1. PICK r \in y.page :
           /\ r = Min(y.page) /\ legacy' = legacy \ {r}
           /\ opener' = [opener EXCEPT ![o].page = @ \ {r}, ![o].cursor = r,
                                       ![o].at = IF opener[o].page = {r} THEN "save" ELSE @]
           /\ UNCHANGED <<target, ledger, removed, streamVars>>
    BY DEF DeleteNext, DeleteRow
  <2>2. opener' = [opener EXCEPT ![o] = [y EXCEPT !.page = y.page \ {r}, !.cursor = r,
                                         !.at = IF y.page = {r} THEN "save" ELSE y.at]]
    BY <1>0, <2>1
  <2>3. target' = target /\ ledger' = ledger /\ removed' = removed /\ UNCHANGED streamVars
    BY <2>1
  <2> QED
    BY <2>1, <2>2, <2>3
<1>2. r \in Rows /\ r \in 0..RowCount /\ \A p \in y.page : r <= p
  <2>1. y.page \subseteq 1 .. RowCount /\ RowCount \in Nat
    BY <1>0 DEF Rows, MigrationAssumption
  <2>2. \A p \in y.page : r <= p
    BY <1>1, <2>1, MinIsThere
  <2> QED
    BY <1>0, <1>1, <2>1, <2>2
<1>3. /\ source' = source /\ audit' = audit /\ checkpoint' = checkpoint
      /\ imported' = imported /\ writes' = writes
  BY <1>1 DEF streamVars
<1>4. GoesOn
  BY <1>1, <1>3 DEF GoesOn, Stored, CopiedTo
<1>5. legacy \subseteq Rows /\ \A q \in Rows : q \in Nat
  BY <1>0 DEF SharedWorks, MigrationTypes, Rows
<1>6. SharedWorks'
  <2>1. MigrationTypes'
    BY <1>0, <1>1, <1>3 DEF SharedWorks, MigrationTypes
  <2>2. NothingIsLost'
    <3>1. r \in Carried => Stored(r)
      BY <1>0, <1>1 DEF RowsFit
    <3>2. \A q \in Carried : q \in legacy \/ Stored(q)
      BY <1>0 DEF SharedWorks, NothingIsLost, Stored
    <3> QED
      BY <1>1, <3>1, <3>2 DEF NothingIsLost, Stored
  <2>3. AuditIsKept' /\ SavedFits'
    BY <1>0, <1>1, <1>3 DEF SharedWorks, AuditIsKept, SavedFits, CopiedTo
  <2> QED
    BY <2>1, <2>2, <2>3 DEF SharedWorks
<1>7. PICK x : x = [y EXCEPT !.page = y.page \ {r}, !.cursor = r,
                             !.at = IF y.page = {r} THEN "save" ELSE y.at]
  OBVIOUS
<1>8. /\ x.at = (IF y.page = {r} THEN "save" ELSE "delete") /\ x.cursor = r
      /\ x.page = y.page \ {r} /\ x.puts = {} /\ x.last = y.last
  BY <1>0, <1>7 DEF OpenerStates
<1>9. x \in OpenerStates
  BY <1>0, <1>2, <1>7 DEF OpenerStates, Places
<1>10. RowsFit(x)'
  <2>1. \A q \in legacy \ y.page : ~y.last /\ \A p \in y.page : q > p
    BY <1>0 DEF RowsFit
  <2>2. \A q \in legacy' : q > r
    <3>1. ASSUME NEW q \in legacy, q # r
          PROVE  q > r
      <4>1. CASE q \in y.page
        <5>1. r <= q /\ q \in Nat /\ r \in Nat
          BY <1>2, <1>5, <4>1
        <5> QED
          BY <3>1, <5>1
      <4>2. CASE q \notin y.page
        BY <1>1, <2>1, <4>2
      <4> QED
        BY <4>1, <4>2
    <3> QED
      BY <1>1, <3>1
  <2>3. \A q \in legacy' \ x.page : ~x.last /\ \A p \in x.page : q > p
    BY <1>1, <1>8, <2>1
  <2>4. \A q \in y.page \cap Carried : Stored(q)
    BY <1>0 DEF RowsFit
  <2>5. \A q \in x.page \cap Carried : Stored(q)'
    BY <1>1, <1>8, <2>4 DEF Stored
  <2>6. x.at = "save" /\ x.last => legacy' = {}
    BY <1>1, <1>8, <2>3
  <2> QED
    BY <1>8, <2>2, <2>3, <2>5, <2>6 DEF RowsFit, StreamPlaces
<1>11. StreamFits(x)'
  BY <1>8 DEF StreamFits
<1>12. OpenerFits(x)'
  BY <1>8, <1>9, <1>10, <1>11 DEF OpenerFits, OpenerStates
<1> QED
  BY <1>1, <1>4, <1>6, <1>7, <1>12, OpenerMoves

LEMMA SaveKeeps ==
    ASSUME MigrationAssumption, MigrationWorks, NEW o \in Openers, SaveProgress(o) \/ SaveDone(o)
    PROVE  MigrationWorks'
<1> DEFINE y == opener[o]
<1>0. /\ y \in OpenerStates /\ OpenerFits(y) /\ opener \in [Openers -> OpenerStates]
      /\ y.puts \subseteq y.page /\ y.cursor \in 0..RowCount /\ RowsFit(y) /\ SharedWorks
  BY OpenerTypes DEF MigrationWorks
<1>1. /\ legacy' = legacy /\ target' = target /\ removed' = removed
      /\ source' = source /\ audit' = audit /\ checkpoint' = checkpoint
      /\ imported' = imported /\ writes' = writes
  BY DEF SaveProgress, SaveDone, streamVars
<1>2. GoesOn
  BY <1>1 DEF GoesOn, Stored, CopiedTo
<1>3. ledger'.cursor \in 0..RowCount /\ ledger' \in [cursor : 0..RowCount, done : BOOLEAN]
      /\ (\A q \in legacy : q > ledger'.cursor) /\ (ledger'.done => legacy = {})
  <2>1. CASE SaveProgress(o)
    <3>1. ledger' = [cursor |-> IF y.last THEN 0 ELSE y.cursor, done |-> FALSE]
      BY <2>1 DEF SaveProgress
    <3>2. (\A q \in legacy : q > y.cursor) /\ (y.last => legacy = {})
      BY <1>0, <2>1 DEF SaveProgress, RowsFit
    <3>3. 0 \in 0..RowCount
      BY DEF MigrationAssumption
    <3> QED
      BY <1>0, <3>1, <3>2, <3>3
  <2>2. CASE SaveDone(o)
    <3>1. ledger' = [cursor |-> 0, done |-> TRUE] /\ legacy = {}
      BY <1>0, <2>2 DEF SaveDone, RowsFit
    <3>2. 0 \in 0..RowCount
      BY DEF MigrationAssumption
    <3> QED
      BY <3>1, <3>2
  <2> QED
    BY <2>1, <2>2
<1>4. SharedWorks'
  <2>1. MigrationTypes' /\ NothingIsLost' /\ AuditIsKept'
    BY <1>0, <1>1, <1>3 DEF SharedWorks, MigrationTypes, NothingIsLost, AuditIsKept
  <2>2. SavedFits'
    BY <1>0, <1>1, <1>3 DEF SharedWorks, SavedFits, CopiedTo
  <2> QED
    BY <2>1, <2>2 DEF SharedWorks
<1>5. CASE SaveProgress(o)
  <2> DEFINE at == IF y.last THEN "finish" ELSE "query"
  <2>1. PICK x \in OpenerStates :
          /\ opener' = [opener EXCEPT ![o] = x]
          /\ x.at = at /\ x.cursor = y.cursor /\ x.page = y.page /\ x.puts = y.puts
    BY <1>0, <1>5, GotoIs DEF SaveProgress, Places
  <2>2. (\A q \in legacy : q > y.cursor) /\ (y.last => legacy = {})
    BY <1>0, <1>5 DEF SaveProgress, RowsFit
  <2>3. (x.at = "finish" /\ legacy' = {}) \/ (x.at = "query" /\ \A q \in legacy' : q > x.cursor)
    BY <1>1, <2>1, <2>2
  <2>4. OpenerFits(x)'
    BY <1>0, <2>1, <2>3 DEF OpenerFits, OpenerStates, RowsFit, StreamFits, StreamPlaces
  <2> QED
    BY <1>2, <1>4, <2>1, <2>4, OpenerMoves
<1>6. CASE SaveDone(o)
  <2>1. PICK x \in OpenerStates :
          /\ opener' = [opener EXCEPT ![o] = x]
          /\ x.at = "streams" /\ x.page = y.page /\ x.puts = y.puts
    BY <1>0, <1>6, GotoIs DEF SaveDone, Places, StreamPlaces
  <2>2. legacy' = {}
    BY <1>0, <1>1, <1>6 DEF SaveDone, RowsFit
  <2>3. OpenerFits(x)'
    BY <1>0, <2>1, <2>2 DEF OpenerFits, OpenerStates, RowsFit, StreamFits, StreamPlaces
  <2> QED
    BY <1>2, <1>4, <2>1, <2>3, OpenerMoves
<1> QED
  BY <1>5, <1>6

-----------------------------------------------------------------------------
(* The streams.                                                              *)

\* An opener that only looks: its record changes, and fits.
LEMMA ListStreamsKeeps ==
    ASSUME MigrationAssumption, MigrationWorks, NEW o \in Openers, ListStreams(o)
    PROVE  MigrationWorks'
<1> DEFINE y == opener[o]
<1> DEFINE at == IF imported THEN "open" ELSE IF source = 0 THEN "mark" ELSE "length"
<1>0. /\ y \in OpenerStates /\ opener \in [Openers -> OpenerStates]
      /\ y.puts \subseteq y.page /\ y.at = "streams" /\ RowsFit(y) /\ SharedWorks
  BY OpenerTypes, ListStreams(o) DEF MigrationWorks, ListStreams
<1>1. at \in Places /\ Goto(o, at)
  BY DEF ListStreams, Places, StreamPlaces
<1>2. legacy = {} /\ (imported => source = 0)
  BY <1>0 DEF RowsFit, StreamPlaces, SharedWorks, SavedFits
<1>3. (at = "length") \/ (at \in {"mark", "open"} /\ source = 0)
  BY <1>2
<1> HIDE DEF at
<1>4. PICK x \in OpenerStates :
        opener' = [opener EXCEPT ![o] = x] /\ x.at = at /\ x.page = y.page /\ x.puts = y.puts
  BY <1>0, <1>1, GotoIs
<1>5. OpenerFits(x)
  BY <1>0, <1>2, <1>3, <1>4 DEF OpenerFits, RowsFit, StreamFits, StreamPlaces
<1> QED
  BY <1>4, <1>5, OpenerLooks DEF ListStreams

LEMMA ReadLengthKeeps ==
    ASSUME MigrationAssumption, MigrationWorks, NEW o \in Openers, ReadLength(o)
    PROVE  MigrationWorks'
<1> DEFINE y == opener[o]
<1>0. /\ y \in OpenerStates /\ opener \in [Openers -> OpenerStates]
      /\ y.puts \subseteq y.page /\ y.at = "length" /\ RowsFit(y) /\ SharedWorks
  BY OpenerTypes, ReadLength(o) DEF MigrationWorks, ReadLength
<1> DEFINE x == [y EXCEPT !.length = source, !.at = "progress"]
<1>1. opener' = [opener EXCEPT ![o] = x] /\ UNCHANGED <<docVars, streamVars>>
  BY DEF ReadLength
<1>2. source \in {0, AuditLength} /\ legacy = {}
  BY <1>0 DEF SharedWorks, MigrationTypes, RowsFit, StreamPlaces
<1>3. /\ x \in OpenerStates /\ x.at = "progress" /\ x.length = source
      /\ x.page = y.page /\ x.puts = y.puts
  BY <1>0, <1>2 DEF OpenerStates, Places, StreamPlaces
<1> HIDE DEF x
<1>4. OpenerFits(x)
  BY <1>0, <1>2, <1>3 DEF OpenerFits, RowsFit, StreamFits, StreamPlaces
<1> QED
  BY <1>1, <1>4, OpenerLooks

LEMMA LoadCheckpointKeeps ==
    ASSUME MigrationAssumption, MigrationWorks, NEW o \in Openers, LoadCheckpoint(o)
    PROVE  MigrationWorks'
<1> DEFINE y == opener[o]
<1>0. /\ y \in OpenerStates /\ opener \in [Openers -> OpenerStates]
      /\ y.puts \subseteq y.page /\ y.at = "progress" /\ RowsFit(y) /\ StreamFits(y) /\ SharedWorks
  BY OpenerTypes, LoadCheckpoint(o) DEF MigrationWorks, LoadCheckpoint
<1>1. legacy = {} /\ (y.length = 0 => source = 0)
  BY <1>0 DEF RowsFit, StreamFits, StreamPlaces
<1>2. CASE checkpoint = None
  <2> DEFINE x == [y EXCEPT !.at = "baseline"]
  <2>1. opener' = [opener EXCEPT ![o] = x] /\ UNCHANGED <<docVars, streamVars>>
    BY <1>2 DEF LoadCheckpoint
  <2>2. /\ x \in OpenerStates /\ x.at = "baseline" /\ x.length = y.length
        /\ x.page = y.page /\ x.puts = y.puts
    BY <1>0 DEF OpenerStates, Places, StreamPlaces
  <2> HIDE DEF x
  <2>3. OpenerFits(x)
    BY <1>0, <1>1, <2>2 DEF OpenerFits, RowsFit, StreamFits, StreamPlaces
  <2> QED
    BY <2>1, <2>3, OpenerLooks
<1>3. CASE checkpoint # None
  <2>1. PICK from \in 0..AuditLength, to \in Nat :
          from = checkpoint.from /\ to = checkpoint.to /\ CopiedTo(from, to)
    BY <1>0, <1>3 DEF SharedWorks, SavedFits
  <2> DEFINE x == [y EXCEPT !.at = "read", !.from = from, !.to = to]
  <2>2. opener' = [opener EXCEPT ![o] = x] /\ UNCHANGED <<docVars, streamVars>>
    BY <1>3, <2>1 DEF LoadCheckpoint
  <2>3. /\ x \in OpenerStates /\ x.at = "read" /\ x.length = y.length
        /\ x.page = y.page /\ x.puts = y.puts /\ x.from = from /\ x.to = to
    BY <1>0, <2>1 DEF OpenerStates, Places, StreamPlaces
  <2> HIDE DEF x
  <2>4. CopiedTo(x.from, x.to)
    BY <2>1, <2>3
  <2>5. OpenerFits(x)
    BY <1>0, <1>1, <2>3, <2>4 DEF OpenerFits, RowsFit, StreamFits, StreamPlaces
  <2> QED
    BY <2>2, <2>5, OpenerLooks
<1> QED
  BY <1>2, <1>3

\* Nothing is copied yet.
LEMMA ReadBaselineKeeps ==
    ASSUME MigrationAssumption, MigrationWorks, NEW o \in Openers, ReadBaseline(o)
    PROVE  MigrationWorks'
<1> DEFINE y == opener[o]
<1>0. /\ y \in OpenerStates /\ opener \in [Openers -> OpenerStates]
      /\ y.puts \subseteq y.page /\ y.at = "baseline" /\ RowsFit(y) /\ StreamFits(y) /\ SharedWorks
  BY OpenerTypes, ReadBaseline(o) DEF MigrationWorks, ReadBaseline
<1>1. legacy = {} /\ (y.length = 0 => source = 0)
  BY <1>0 DEF RowsFit, StreamFits, StreamPlaces
<1> DEFINE x == [y EXCEPT !.at = "keep", !.from = 0, !.to = Len(audit)]
<1>2. opener' = [opener EXCEPT ![o] = x] /\ UNCHANGED <<docVars, streamVars>>
  BY DEF ReadBaseline
<1>3. Len(audit) \in Nat /\ 0 \in 0..AuditLength
  BY <1>0 DEF SharedWorks, MigrationTypes, MigrationAssumption
<1>4. /\ x \in OpenerStates /\ x.at = "keep" /\ x.length = y.length
      /\ x.page = y.page /\ x.puts = y.puts /\ x.from = 0 /\ x.to = Len(audit)
  BY <1>0, <1>3 DEF OpenerStates, Places, StreamPlaces
<1> HIDE DEF x
<1>5. CopiedTo(x.from, x.to)
  BY <1>3, <1>4 DEF CopiedTo
<1>6. OpenerFits(x)
  BY <1>0, <1>1, <1>4, <1>5 DEF OpenerFits, RowsFit, StreamFits, StreamPlaces
<1> QED
  BY <1>2, <1>6, OpenerLooks

LEMMA SaveCheckpointKeeps ==
    ASSUME MigrationAssumption, MigrationWorks, NEW o \in Openers, SaveCheckpoint(o)
    PROVE  MigrationWorks'
<1> DEFINE y == opener[o]
<1>0. /\ y \in OpenerStates /\ OpenerFits(y) /\ opener \in [Openers -> OpenerStates]
      /\ y.puts \subseteq y.page /\ y.at \in {"keep", "advance"} /\ RowsFit(y) /\ StreamFits(y)
      /\ SharedWorks /\ y.from \in 0..AuditLength /\ y.to \in Nat
  BY OpenerTypes, SaveCheckpoint(o) DEF MigrationWorks, SaveCheckpoint
<1>1. /\ legacy' = legacy /\ target' = target /\ ledger' = ledger /\ removed' = removed
      /\ source' = source /\ audit' = audit /\ imported' = imported /\ writes' = writes
      /\ checkpoint' = [from |-> y.from, to |-> y.to]
  BY DEF SaveCheckpoint, docVars
<1>2. legacy = {} /\ (y.length = 0 => source = 0) /\ CopiedTo(y.from, y.to)
  BY <1>0 DEF RowsFit, StreamFits, StreamPlaces
<1>3. GoesOn
  BY <1>1 DEF GoesOn, Stored, CopiedTo
<1>4. SharedWorks'
  <2>1. MigrationTypes' /\ NothingIsLost' /\ AuditIsKept'
    BY <1>0, <1>1 DEF SharedWorks, MigrationTypes, NothingIsLost, AuditIsKept
  <2>2. checkpoint'.from = y.from /\ checkpoint'.to = y.to
    BY <1>1
  <2>3. (CopiedTo(checkpoint.from, checkpoint.to))'
    BY <1>1, <1>2, <2>2 DEF CopiedTo
  <2>4. SavedFits'
    BY <1>0, <1>1, <2>2, <2>3 DEF SharedWorks, SavedFits
  <2> QED
    BY <2>1, <2>4 DEF SharedWorks
<1>5. PICK x \in OpenerStates :
        /\ opener' = [opener EXCEPT ![o] = x]
        /\ x.at = "read" /\ x.page = y.page /\ x.puts = y.puts
        /\ x.length = y.length /\ x.from = y.from /\ x.to = y.to
  BY <1>0, GotoIs DEF SaveCheckpoint, Places, StreamPlaces
<1>6. OpenerFits(x)
  <2>1. CopiedTo(x.from, x.to)
    BY <1>2, <1>5
  <2> QED
    BY <1>0, <1>2, <1>5, <2>1 DEF OpenerFits, RowsFit, StreamFits, StreamPlaces
<1>7. OpenerFits(x)'
  BY <1>3, <1>6, OpenersStay
<1> QED
  BY <1>3, <1>4, <1>5, <1>7, OpenerMoves

\* An opener that has read all of the stream may drop it, and one for which it is
\* gone has nothing left to do.
LEMMA ReadSourceKeeps ==
    ASSUME MigrationAssumption, MigrationWorks, NEW o \in Openers, ReadSource(o)
    PROVE  MigrationWorks'
<1> DEFINE y == opener[o]
<1>0. /\ y \in OpenerStates /\ OpenerFits(y) /\ opener \in [Openers -> OpenerStates]
      /\ y.puts \subseteq y.page /\ y.at = "read" /\ RowsFit(y) /\ StreamFits(y)
      /\ SharedWorks /\ y.from \in 0..AuditLength /\ y.to \in Nat /\ y.length \in {0, AuditLength}
  BY OpenerTypes, ReadSource(o) DEF MigrationWorks, ReadSource
<1>1. UNCHANGED <<docVars, streamVars>>
  BY DEF ReadSource
<1>2. legacy = {} /\ (y.length = 0 => source = 0) /\ CopiedTo(y.from, y.to)
  BY <1>0 DEF RowsFit, StreamFits, StreamPlaces
<1>3. AuditLength \in Nat
  BY DEF MigrationAssumption
<1>4. ASSUME NEW at \in Places, Goto(o, at),
             \/ at = "drop" /\ (source = 0 \/ y.from = AuditLength)
             \/ at = "mark" /\ source = 0
             \/ at = "compare" /\ y.from < y.length
      PROVE  MigrationWorks'
  <2>1. PICK x \in OpenerStates :
          /\ opener' = [opener EXCEPT ![o] = x]
          /\ x.at = at /\ x.page = y.page /\ x.puts = y.puts
          /\ x.length = y.length /\ x.from = y.from /\ x.to = y.to
    BY <1>0, <1>4, GotoIs
  <2>2. CopiedTo(x.from, x.to)
    BY <1>2, <2>1
  <2>3. OpenerFits(x)
    BY <1>0, <1>2, <1>4, <2>1, <2>2 DEF OpenerFits, RowsFit, StreamFits, StreamPlaces
  <2> QED
    BY <1>1, <2>1, <2>3, OpenerLooks
<1>5. CASE y.from >= y.length /\ y.from = y.length
  <2>1. Goto(o, "drop")
    BY <1>5 DEF ReadSource
  <2>2. source = 0 \/ y.from = AuditLength
    BY <1>0, <1>2, <1>5
  <2> QED
    BY <1>4, <2>1, <2>2 DEF Places, StreamPlaces
<1>6. CASE y.from >= y.length /\ y.from # y.length
  <2>1. Goto(o, "mark")
    BY <1>6 DEF ReadSource
  <2>2. source = 0
    BY <1>0, <1>2, <1>3, <1>6
  <2> QED
    BY <1>4, <2>1, <2>2 DEF Places, StreamPlaces
<1>7. CASE ~(y.from >= y.length) /\ source > 0
  <2>1. Goto(o, "compare")
    BY <1>7 DEF ReadSource
  <2>2. y.from < y.length
    BY <1>0, <1>3, <1>7
  <2> QED
    BY <1>4, <2>1, <2>2 DEF Places, StreamPlaces
<1>8. CASE ~(y.from >= y.length) /\ ~(source > 0) /\ checkpoint.from >= y.length
  <2>1. PICK from \in 0..AuditLength : from = y.length
    BY <1>0, <1>3
  <2> DEFINE x == [y EXCEPT !.from = from, !.at = "drop"]
  <2>2. opener' = [opener EXCEPT ![o] = x]
    BY <1>8, <2>1 DEF ReadSource
  <2>3. source = 0
    BY <1>0, <1>3, <1>8 DEF SharedWorks, MigrationTypes
  <2>4. /\ x \in OpenerStates /\ x.at = "drop" /\ x.page = y.page /\ x.puts = y.puts
        /\ x.length = y.length
    BY <1>0, <2>1 DEF OpenerStates, Places, StreamPlaces
  <2> HIDE DEF x
  <2>5. OpenerFits(x)
    BY <1>0, <1>2, <2>3, <2>4 DEF OpenerFits, RowsFit, StreamFits, StreamPlaces
  <2> QED
    BY <1>1, <2>2, <2>5, OpenerLooks
<1>9. CASE ~(y.from >= y.length) /\ ~(source > 0) /\ ~(checkpoint.from >= y.length)
  <2>1. Fail(o)
    BY <1>9 DEF ReadSource
  <2>2. SharedWorks' /\ GoesOn
    BY <1>0, <1>1, SharedStays
  <2> QED
    BY <2>1, <2>2, FailKeeps
<1> QED
  BY <1>5, <1>6, <1>7, <1>8, <1>9

\* What a batch is.
LEMMA BatchIs ==
    ASSUME MigrationAssumption, NEW o \in Openers, opener[o].from \in 0..AuditLength,
           opener[o].length \in {0, AuditLength}, opener[o].from < opener[o].length
    PROVE  \E n \in 0..AuditLength :
              /\ BatchEnd(o) = opener[o].from + n /\ opener[o].from + n <= AuditLength
              /\ Values(o) \in Seq(1..AuditLength) /\ Len(Values(o)) = n
              /\ \A i \in 1..n : Values(o)[i] = opener[o].from + i
<1>1. PICK from \in 0..AuditLength, length \in {0, AuditLength} :
         from = opener[o].from /\ length = opener[o].length /\ from < length
  OBVIOUS
<1>2. AuditLength \in Nat /\ Window \in Nat /\ from \in Nat /\ length = AuditLength
  BY <1>1 DEF MigrationAssumption
<1>3. BatchEnd(o) = IF from + Window < length THEN from + Window ELSE length
  BY <1>1 DEF BatchEnd, AtMost
<1>4. PICK n \in 0..AuditLength : BatchEnd(o) = from + n /\ from + n <= AuditLength
  <2>1. CASE from + Window < length
    BY <1>2, <1>3, <2>1
  <2>2. CASE ~(from + Window < length)
    <3>1. BatchEnd(o) = from + (AuditLength - from) /\ AuditLength - from \in 0..AuditLength
      BY <1>1, <1>2, <1>3, <2>2
    <3> QED
      BY <1>2, <3>1
  <2> QED
    BY <2>1, <2>2
<1>5. (from + n) - from = n /\ n \in Nat
  BY <1>2, <1>4
<1>6. Values(o) = [i \in 1..n |-> from + i]
  BY <1>1, <1>4, <1>5 DEF Values
<1>7. \A i \in 1..n : from + i \in 1..AuditLength
  BY <1>2, <1>4, <1>5
<1>8. Values(o) \in Seq(1..AuditLength) /\ Len(Values(o)) = n
  BY <1>5, <1>6, <1>7
<1> QED
  BY <1>1, <1>4, <1>6, <1>8

LEMMA AdvancedIs ==
    ASSUME MigrationAssumption, MigrationWorks, NEW o \in Openers,
           opener[o].at \in {"compare", "append"},
           NEW n \in 0..AuditLength, BatchEnd(o) = opener[o].from + n,
           opener[o].from + n <= AuditLength, Len(Values(o)) = n
    PROVE  \E x \in OpenerStates :
              /\ Advanced(o) = [opener EXCEPT ![o] = x]
              /\ x.at = "advance" /\ x.page = opener[o].page /\ x.puts = opener[o].puts
              /\ x.length = opener[o].length
              /\ x.from = opener[o].from + n /\ x.to = opener[o].to + n
<1> DEFINE y == opener[o]
<1>0. /\ y \in OpenerStates /\ opener \in [Openers -> OpenerStates]
      /\ y.from \in 0..AuditLength /\ y.to \in Nat
  <2>1. opener \in [Openers -> OpenerStates]
    BY DEF MigrationWorks
  <2>2. y \in OpenerStates
    BY <2>1
  <2>3. y.from \in 0..AuditLength /\ y.to \in Nat
    BY ONLY <2>2 DEF OpenerStates
  <2> QED
    BY <2>1, <2>2, <2>3
<1>1. PICK from, to : from = y.from + n /\ to = y.to + n
  OBVIOUS
<1>2. from \in 0..AuditLength /\ to \in Nat
  <2>1. from <= AuditLength /\ n \in Nat /\ AuditLength \in Nat
    BY <1>1 DEF MigrationAssumption
  <2>2. PICK a \in Nat, b \in Nat : a = y.from /\ b = y.to
    BY <1>0, <2>1
  <2>3. from = a + n /\ to = b + n
    BY <1>1, <2>2
  <2> QED
    BY ONLY <2>1, <2>3, a \in Nat, b \in Nat
<1> DEFINE x == [y EXCEPT !.from = from, !.to = to, !.at = "advance"]
<1>3. Advanced(o) = [opener EXCEPT ![o] = x]
  BY <1>0, <1>1 DEF Advanced
<1>4. /\ x \in OpenerStates /\ x.at = "advance" /\ x.page = y.page /\ x.puts = y.puts
      /\ x.length = y.length /\ x.from = from /\ x.to = to
  BY <1>0, <1>2 DEF OpenerStates, Places, StreamPlaces
<1> HIDE DEF x
<1> QED
  BY <1>1, <1>3, <1>4

\* An opener that advances has its batch in the audit log.
LEMMA AdvancedFits ==
    ASSUME MigrationAssumption, NEW y \in OpenerStates, NEW x \in OpenerStates,
           y.at \in {"compare", "append"}, RowsFit(y), StreamFits(y), y.puts \subseteq y.page,
           x.at = "advance", x.page = y.page, x.puts = y.puts, x.length = y.length,
           CopiedTo(x.from, x.to)
    PROVE  OpenerFits(x)
BY DEF OpenerFits, RowsFit, StreamFits, StreamPlaces

\* A batch found where it belongs continues what is copied.
LEMMA FoundIsCopied ==
    ASSUME MigrationAssumption, MigrationTypes, NEW o \in Openers, NEW n \in 0..AuditLength,
           NEW from \in 0..AuditLength, NEW to \in Nat,
           from = opener[o].from, to = opener[o].to, CopiedTo(from, to),
           Values(o) \in Seq(1..AuditLength), Len(Values(o)) = n,
           \A i \in 1..n : Values(o)[i] = from + i,
           InTarget(o) = Values(o)
    PROVE  CopiedTo(from + n, to + n)
<1>1. /\ n \in Nat /\ from \in Nat /\ Len(audit) \in Nat /\ audit \in Seq(1..Written)
      /\ from <= to /\ to <= Len(audit) /\ \A i \in 1..from : audit[(to - from) + i] = i
  BY DEF MigrationTypes, CopiedTo, MigrationAssumption
<1>2. PICK m \in Nat : m = (IF to + n < Len(audit) THEN to + n ELSE Len(audit))
  BY <1>1
<1>3. InTarget(o) = SubSeq(audit, to + 1, m)
  BY <1>2 DEF InTarget, AtMost
<1>4. m <= Len(audit)
  BY <1>1, <1>2
<1>5. /\ Len(SubSeq(audit, to + 1, m)) = (IF to < m THEN m - to ELSE 0)
      /\ \A i \in 1..(m - to) : SubSeq(audit, to + 1, m)[i] = audit[to + i]
  <2>1. audit \in Seq(1..Written)
    BY <1>1
  <2> QED
    BY ONLY <2>1, <1>4, CutIs, to \in Nat, m \in Nat
<1>6. m = to + n
  BY <1>1, <1>2, <1>3, <1>5
<1>7. to + n <= Len(audit)
  BY <1>1, <1>2, <1>6
<1>8. ASSUME NEW i \in 1..n
      PROVE  audit[to + i] = from + i
  <2>1. i \in 1..(m - to)
    <3>1. m - to = n
      BY ONLY <1>1, <1>6, to \in Nat
    <3> QED
      BY ONLY <3>1, i \in 1..n
  <2>2. SubSeq(audit, to + 1, m)[i] = audit[to + i]
    BY <1>5, <2>1
  <2>3. InTarget(o)[i] = audit[to + i]
    BY <1>3, <2>2
  <2>4. Values(o)[i] = from + i
    OBVIOUS
  <2> QED
    BY ONLY <2>3, <2>4, InTarget(o) = Values(o)
<1>9. ASSUME NEW i \in 1..(from + n)
      PROVE  audit[((to + n) - (from + n)) + i] = i
  <2>0. /\ to \in Nat /\ from \in Nat /\ n \in Nat /\ from <= to
        /\ i \in Nat /\ 1 <= i /\ i <= from + n
    BY <1>1
  <2>1. ((to + n) - (from + n)) + i = (to - from) + i
    BY ONLY <2>0
  <2>2. CASE i <= from
    <3>1. i \in 1..from
      BY ONLY <2>0, <2>2
    <3> QED
      BY <1>1, <2>1, <3>1
  <2>3. CASE ~(i <= from)
    <3>1. PICK j \in 1..n : i = from + j
      <4>1. i - from \in 1..n /\ i = from + (i - from)
        BY ONLY <2>0, <2>3
      <4> QED
        BY <4>1
    <3>2. (to - from) + i = to + j
      BY ONLY <2>0, <3>1
    <3> QED
      BY <1>8, <2>1, <3>1, <3>2
  <2> QED
    BY <2>2, <2>3
<1>10. from + n <= to + n
  BY ONLY <1>1, to \in Nat
<1> QED
  BY ONLY <1>7, <1>9, <1>10 DEF CopiedTo

LEMMA CompareKeeps ==
    ASSUME MigrationAssumption, MigrationWorks, NEW o \in Openers, CompareTarget(o) \/ CheckTail(o)
    PROVE  MigrationWorks'
<1> DEFINE y == opener[o]
<1>0. /\ y \in OpenerStates /\ OpenerFits(y) /\ opener \in [Openers -> OpenerStates]
      /\ y.puts \subseteq y.page /\ y.at \in {"compare", "tail"} /\ RowsFit(y) /\ StreamFits(y)
      /\ SharedWorks /\ y.from \in 0..AuditLength /\ y.to \in Nat /\ y.length \in {0, AuditLength}
  BY OpenerTypes, CompareTarget(o) \/ CheckTail(o) DEF MigrationWorks, CompareTarget, CheckTail
<1>1. UNCHANGED <<docVars, streamVars>>
  BY DEF CompareTarget, CheckTail
<1>2. legacy = {} /\ (y.length = 0 => source = 0) /\ CopiedTo(y.from, y.to) /\ y.from < y.length
  BY <1>0 DEF RowsFit, StreamFits, StreamPlaces
<1>3. ASSUME NEW at \in {"tail", "append"}, Goto(o, at)
      PROVE  MigrationWorks'
  <2>1. PICK x \in OpenerStates :
          /\ opener' = [opener EXCEPT ![o] = x]
          /\ x.at = at /\ x.page = y.page /\ x.puts = y.puts
          /\ x.length = y.length /\ x.from = y.from /\ x.to = y.to
    BY <1>0, <1>3, GotoIs DEF Places, StreamPlaces
  <2>2. CopiedTo(x.from, x.to)
    BY <1>2, <2>1
  <2>3. OpenerFits(x)
    BY <1>0, <1>2, <2>1, <2>2 DEF OpenerFits, RowsFit, StreamFits, StreamPlaces
  <2> QED
    BY <1>1, <2>1, <2>3, OpenerLooks
<1>4. CASE CompareTarget(o) /\ InTarget(o) = Values(o)
  <2>1. PICK n \in 0..AuditLength :
           /\ BatchEnd(o) = y.from + n /\ y.from + n <= AuditLength
           /\ Values(o) \in Seq(1..AuditLength) /\ Len(Values(o)) = n
           /\ \A i \in 1..n : Values(o)[i] = y.from + i
    BY <1>0, <1>2, BatchIs
  <2>2. y.at = "compare" /\ opener' = Advanced(o)
    BY <1>4 DEF CompareTarget
  <2>3. PICK x \in OpenerStates :
           /\ opener' = [opener EXCEPT ![o] = x]
           /\ x.at = "advance" /\ x.page = y.page /\ x.puts = y.puts /\ x.length = y.length
           /\ x.from = y.from + n /\ x.to = y.to + n
    BY <2>1, <2>2, AdvancedIs
  <2>4. PICK from \in 0..AuditLength, to \in Nat : from = y.from /\ to = y.to
    BY <1>0
  <2>5. CopiedTo(from + n, to + n)
    BY <1>0, <1>2, <1>4, <2>1, <2>4, FoundIsCopied DEF SharedWorks
  <2>6. CopiedTo(x.from, x.to)
    BY <2>3, <2>4, <2>5
  <2>7. OpenerFits(x)
    BY <1>0, <2>2, <2>3, <2>6, AdvancedFits
  <2> QED
    BY <1>1, <2>3, <2>7, OpenerLooks
<1>5. CASE CompareTarget(o) /\ InTarget(o) # Values(o)
  <2>1. Goto(o, "tail")
    BY <1>5 DEF CompareTarget, Goto
  <2> QED
    BY <1>3, <2>1
<1>6. CASE CheckTail(o) /\ Len(audit) = y.to
  BY <1>3, <1>6 DEF CheckTail
<1>7. CASE CheckTail(o) /\ Len(audit) # y.to
  <2>1. Fail(o)
    BY <1>7 DEF CheckTail
  <2>2. SharedWorks' /\ GoesOn
    BY <1>0, <1>1, SharedStays
  <2> QED
    BY <2>1, <2>2, FailKeeps
<1> QED
  BY <1>4, <1>5, <1>6, <1>7
\* The audit log only grows.
LEMMA CopiedStays ==
    ASSUME audit \in Seq(1..Written), audit' \in Seq(1..Written), Len(audit) <= Len(audit'),
           \A i \in 1..Len(audit) : audit'[i] = audit[i],
           NEW from \in Nat, NEW to \in Nat, CopiedTo(from, to)
    PROVE  CopiedTo(from, to)'
<1>1. from <= to /\ to <= Len(audit) /\ Len(audit) \in Nat /\ Len(audit') \in Nat
  BY DEF CopiedTo
<1>2. to <= Len(audit')
  BY <1>1
<1>3. ASSUME NEW i \in 1..from
      PROVE  audit'[(to - from) + i] = i
  <2>1. audit[(to - from) + i] = i
    BY DEF CopiedTo
  <2>2. (to - from) + i \in 1..Len(audit)
    BY ONLY <1>1, from \in Nat, to \in Nat, i \in 1..from
  <2> QED
    BY <2>1, <2>2
<1> QED
  BY <1>1, <1>2, <1>3 DEF CopiedTo

\* Records appended to it leave alone what was there.
LEMMA AppendedStays ==
    ASSUME MigrationAssumption, SharedWorks, NEW more \in Seq(1..Written),
           audit' = audit \o more, writes' \in 0..MaxWrites,
           UNCHANGED <<docVars, source, checkpoint, imported>>
    PROVE  SharedWorks' /\ GoesOn
<1>1. /\ legacy' = legacy /\ target' = target /\ ledger' = ledger /\ removed' = removed
      /\ source' = source /\ checkpoint' = checkpoint /\ imported' = imported
  BY DEF docVars
<1>2. audit \in Seq(1..Written) /\ MigrationTypes /\ SavedFits /\ AuditIsKept
  BY DEF SharedWorks, MigrationTypes
<1>3. /\ audit' \in Seq(1..Written) /\ Len(audit) <= Len(audit')
      /\ \A i \in 1..Len(audit) : audit'[i] = audit[i]
  <2>1. /\ audit \o more \in Seq(1..Written) /\ Len(audit) \in Nat /\ Len(more) \in Nat
        /\ Len(audit \o more) = Len(audit) + Len(more)
        /\ \A i \in 1..Len(audit) : (audit \o more)[i] = audit[i]
    BY <1>2, JoinIs
  <2> QED
    BY <2>1
<1>4. \A from \in Nat, to \in Nat : CopiedTo(from, to) => CopiedTo(from, to)'
  BY <1>2, <1>3, CopiedStays
<1>5. 0..AuditLength \subseteq Nat
  BY DEF MigrationAssumption
<1>6. GoesOn
  <2>1. \A from \in 0..AuditLength, to \in Nat : CopiedTo(from, to) => CopiedTo(from, to)'
    BY <1>4, <1>5
  <2>2. \A r \in Rows : Stored(r) => Stored(r)'
    BY <1>1 DEF Stored
  <2> QED
    BY <1>1, <2>1, <2>2 DEF GoesOn
<1>7. MigrationTypes' /\ NothingIsLost'
  BY <1>1, <1>2, <1>3 DEF SharedWorks, MigrationTypes, NothingIsLost
<1>8. AuditIsKept'
  <2>1. SUFFICES ASSUME source = 0
                 PROVE  \E first \in 0..(Len(audit') - AuditLength) :
                            \A i \in 1..AuditLength : audit'[first + i] = i
    BY <1>1 DEF AuditIsKept
  <2>2. PICK first \in 0..(Len(audit) - AuditLength) :
           \A i \in 1..AuditLength : audit[first + i] = i
    BY <1>2, <2>1 DEF AuditIsKept
  <2>3. Len(audit) \in Nat /\ Len(audit') \in Nat /\ AuditLength \in Nat
    BY <1>2, <1>3 DEF MigrationAssumption
  <2>4. first \in 0..(Len(audit') - AuditLength)
    BY ONLY <1>3, <2>3, first \in 0..(Len(audit) - AuditLength)
  <2>5. ASSUME NEW i \in 1..AuditLength
        PROVE  first + i \in 1..Len(audit)
    BY <2>2, <2>3
  <2> QED
    BY <1>3, <2>2, <2>4, <2>5
<1>9. SavedFits'
  <2>1. \/ checkpoint' = None
        \/ checkpoint'.from \in 0..AuditLength /\ checkpoint'.to \in Nat
           /\ CopiedTo(checkpoint.from, checkpoint.to)'
    BY <1>1, <1>2, <1>4, <1>5 DEF SavedFits
  <2> QED
    BY <1>1, <1>2, <2>1 DEF SavedFits
<1> QED
  BY <1>6, <1>7, <1>8, <1>9 DEF SharedWorks

LEMMA AppendKeeps ==
    ASSUME MigrationAssumption, MigrationWorks, NEW o \in Openers, AppendBatch(o)
    PROVE  MigrationWorks'
<1> DEFINE y == opener[o]
<1>0. /\ y \in OpenerStates /\ OpenerFits(y) /\ opener \in [Openers -> OpenerStates]
      /\ y.puts \subseteq y.page /\ y.at = "append" /\ RowsFit(y) /\ StreamFits(y)
      /\ SharedWorks /\ y.from \in 0..AuditLength /\ y.to \in Nat /\ y.length \in {0, AuditLength}
  BY OpenerTypes, AppendBatch(o) DEF MigrationWorks, AppendBatch
<1>1. CopiedTo(y.from, y.to) /\ y.from < y.length
  BY <1>0 DEF StreamFits
<1>2. PICK n \in 0..AuditLength :
         /\ BatchEnd(o) = y.from + n /\ y.from + n <= AuditLength
         /\ Values(o) \in Seq(1..AuditLength) /\ Len(Values(o)) = n
         /\ \A i \in 1..n : Values(o)[i] = y.from + i
  BY <1>0, <1>1, BatchIs
<1>3. PICK from \in 0..AuditLength, to \in Nat : from = y.from /\ to = y.to
  BY <1>0
<1>4. MigrationTypes /\ audit \in Seq(1..Written) /\ writes \in 0..MaxWrites
  BY <1>0 DEF SharedWorks, MigrationTypes
<1>5. CASE Len(audit) = y.to
  <2>1. /\ audit' = audit \o Values(o) /\ opener' = Advanced(o)
        /\ writes' \in 0..MaxWrites /\ UNCHANGED <<docVars, source, checkpoint, imported>>
    BY <1>4, <1>5 DEF AppendBatch
  <2>2. Values(o) \in Seq(1..Written)
    <3>1. 1..AuditLength \subseteq 1..Written
      BY DEF Written, MigrationAssumption
    <3> QED
      BY <1>2, <3>1, WiderSeq
  <2>3. SharedWorks' /\ GoesOn
    BY <1>0, <2>1, <2>2, AppendedStays
  <2>4. PICK x \in OpenerStates :
           /\ opener' = [opener EXCEPT ![o] = x]
           /\ x.at = "advance" /\ x.page = y.page /\ x.puts = y.puts /\ x.length = y.length
           /\ x.from = y.from + n /\ x.to = y.to + n
    <3>1. PICK x \in OpenerStates :
             /\ Advanced(o) = [opener EXCEPT ![o] = x]
             /\ x.at = "advance" /\ x.page = y.page /\ x.puts = y.puts /\ x.length = y.length
             /\ x.from = y.from + n /\ x.to = y.to + n
      <4>1. /\ o \in Openers /\ y.at \in {"compare", "append"}
            /\ n \in 0..AuditLength /\ BatchEnd(o) = y.from + n
            /\ y.from + n <= AuditLength /\ Len(Values(o)) = n
        BY <1>0, <1>2
      <4> QED
        BY ONLY MigrationAssumption, MigrationWorks, <4>1, AdvancedIs
    <3> QED
      BY <2>1, <3>1
  <2>5. CopiedTo(from + n, to + n)'
    <3>1. /\ n \in Nat /\ from \in Nat /\ to \in Nat /\ from <= to /\ Len(audit) = to
          /\ \A i \in 1..from : audit[(to - from) + i] = i
      <4>1. AuditLength \in Nat
        BY DEF MigrationAssumption
      <4>2. n \in Nat /\ from \in Nat /\ to \in Nat
        BY ONLY <4>1, n \in 0..AuditLength, from \in 0..AuditLength, to \in Nat
      <4>3. CopiedTo(from, to) /\ Len(audit) = to
        BY ONLY <1>1, <1>3, <1>5
      <4> QED
        BY ONLY <4>2, <4>3 DEF CopiedTo
    <3>2. /\ Len(audit') = to + n
          /\ \A i \in 1..to : audit'[i] = audit[i]
          /\ \A i \in 1..n : audit'[to + i] = from + i
      <4>1. PICK batch \in Seq(1..Written) : batch = Values(o)
        BY <2>2
      <4>2. /\ Len(audit \o batch) = Len(audit) + Len(batch)
            /\ \A i \in 1..Len(audit) : (audit \o batch)[i] = audit[i]
            /\ \A i \in 1..Len(batch) : (audit \o batch)[Len(audit) + i] = batch[i]
        BY <1>4, JoinIs
      <4> QED
        BY <1>2, <1>3, <2>1, <3>1, <4>1, <4>2
    <3>3. ASSUME NEW i \in 1..(from + n)
          PROVE  audit'[((to + n) - (from + n)) + i] = i
      <4>0. i \in Nat /\ 1 <= i /\ i <= from + n
        BY <3>1
      <4>1. ((to + n) - (from + n)) + i = (to - from) + i
        BY ONLY <3>1, <4>0
      <4>2. CASE i <= from
        <5>1. i \in 1..from /\ (to - from) + i \in 1..to
          BY ONLY <3>1, <4>0, <4>2
        <5> QED
          BY <3>1, <3>2, <4>1, <5>1
      <4>3. CASE ~(i <= from)
        <5>1. i - from \in 1..n /\ i = from + (i - from) /\ (to - from) + i = to + (i - from)
          BY ONLY <3>1, <4>0, <4>3
        <5> QED
          BY <3>2, <4>1, <5>1
      <4> QED
        BY <4>2, <4>3
    <3> QED
      BY <3>1, <3>2, <3>3 DEF CopiedTo
  <2>6. OpenerFits(x)'
    <3>1. legacy = {} /\ legacy' = legacy /\ source' = source /\ (y.length = 0 => source = 0)
      BY <1>0, <2>1 DEF RowsFit, StreamFits, StreamPlaces, docVars
    <3>2. CopiedTo(x.from, x.to)'
      BY <1>3, <2>4, <2>5
    <3> QED
      BY <1>0, <2>4, <3>1, <3>2 DEF OpenerFits, OpenerStates, RowsFit, StreamFits, StreamPlaces
  <2> QED
    BY <2>3, <2>4, <2>6, OpenerMoves
<1>6. CASE Len(audit) # y.to
  <2>1. /\ UNCHANGED <<docVars, streamVars>>
        /\ IF InTarget(o) = Values(o) THEN opener' = Advanced(o) ELSE Fail(o)
    BY <1>6 DEF AppendBatch, SameRace, streamVars
  <2>2. CASE InTarget(o) = Values(o)
    <3>1. PICK x \in OpenerStates :
             /\ opener' = [opener EXCEPT ![o] = x]
             /\ x.at = "advance" /\ x.page = y.page /\ x.puts = y.puts /\ x.length = y.length
             /\ x.from = y.from + n /\ x.to = y.to + n
      <4>1. /\ o \in Openers /\ y.at \in {"compare", "append"}
            /\ n \in 0..AuditLength /\ BatchEnd(o) = y.from + n
            /\ y.from + n <= AuditLength /\ Len(Values(o)) = n
        BY <1>0, <1>2
      <4>2. \E x \in OpenerStates :
              /\ Advanced(o) = [opener EXCEPT ![o] = x]
              /\ x.at = "advance" /\ x.page = y.page /\ x.puts = y.puts /\ x.length = y.length
              /\ x.from = y.from + n /\ x.to = y.to + n
        BY ONLY MigrationAssumption, MigrationWorks, <4>1, AdvancedIs
      <4>3. opener' = Advanced(o)
        BY ONLY <2>1, <2>2
      <4> QED
        BY ONLY <4>2, <4>3
    <3>2. CopiedTo(from + n, to + n)
      BY <1>1, <1>2, <1>3, <1>4, <2>2, FoundIsCopied
    <3>3. CopiedTo(x.from, x.to)
      BY <1>3, <3>1, <3>2
    <3>4. OpenerFits(x)
      BY <1>0, <3>1, <3>3, AdvancedFits
    <3> QED
      BY <2>1, <3>1, <3>4, OpenerLooks
  <2>3. CASE InTarget(o) # Values(o)
    <3>1. SharedWorks' /\ GoesOn
      BY <1>0, <2>1, SharedStays
    <3> QED
      BY <2>1, <2>3, <3>1, FailKeeps
  <2> QED
    BY <2>2, <2>3
<1> QED
  BY <1>5, <1>6

\* The stream goes when all of it is in the audit log.
LEMMA DropKeeps ==
    ASSUME MigrationAssumption, MigrationWorks, NEW o \in Openers, DropSource(o) \/ MarkDone(o)
    PROVE  MigrationWorks'
<1> DEFINE y == opener[o]
<1>0. /\ y \in OpenerStates /\ OpenerFits(y) /\ opener \in [Openers -> OpenerStates]
      /\ y.puts \subseteq y.page /\ RowsFit(y) /\ StreamFits(y)
      /\ SharedWorks /\ y.from \in 0..AuditLength /\ y.to \in Nat
  BY OpenerTypes DEF MigrationWorks
<1>1. /\ legacy' = legacy /\ target' = target /\ ledger' = ledger /\ removed' = removed
      /\ audit' = audit /\ checkpoint' = checkpoint /\ writes' = writes
      /\ y.at \in {"drop", "mark"} /\ legacy = {}
  BY <1>0 DEF DropSource, MarkDone, docVars, RowsFit, StreamPlaces
<1>2. /\ source' = 0 /\ (imported' = imported \/ imported' = TRUE)
      /\ y.at = "mark" => source = 0
  BY <1>0, <1>1 DEF DropSource, MarkDone, StreamFits
<1>3. GoesOn
  BY <1>1, <1>2 DEF GoesOn, Stored, CopiedTo
<1>4. AuditIsKept'
  <2>1. CASE source = 0
    BY <1>0, <1>1, <2>1 DEF SharedWorks, AuditIsKept
  <2>2. CASE source # 0
    <3>1. PICK to \in Nat : CopiedTo(AuditLength, to)
      <4>1. y.from = AuditLength /\ CopiedTo(y.from, y.to)
        BY <1>0, <1>1, <1>2, <2>2 DEF StreamFits
      <4> QED
        BY <1>0, <4>1
    <3>2. AuditLength \in Nat /\ Len(audit) \in Nat /\ AuditLength <= to /\ to <= Len(audit)
      BY <1>0, <3>1 DEF CopiedTo, MigrationAssumption, SharedWorks, MigrationTypes
    <3>3. to - AuditLength \in 0..(Len(audit) - AuditLength)
      BY ONLY <3>2, to \in Nat
    <3>4. \A i \in 1..AuditLength : audit'[(to - AuditLength) + i] = i
      BY <1>1, <3>1 DEF CopiedTo
    <3> QED
      BY <1>1, <3>3, <3>4 DEF AuditIsKept
  <2> QED
    BY <2>1, <2>2
<1>5. SharedWorks'
  <2>1. MigrationTypes' /\ NothingIsLost'
    <3>1. source' \in {0, AuditLength} /\ imported' \in BOOLEAN
      BY <1>0, <1>2 DEF SharedWorks, MigrationTypes
    <3> QED
      BY <1>0, <1>1, <3>1 DEF SharedWorks, MigrationTypes, NothingIsLost
  <2>2. SavedFits'
    BY <1>0, <1>1, <1>2 DEF SharedWorks, SavedFits, CopiedTo
  <2> QED
    BY <1>4, <2>1, <2>2 DEF SharedWorks
<1>6. PICK x \in OpenerStates :
        /\ opener' = [opener EXCEPT ![o] = x]
        /\ x.at \in {"mark", "open"} /\ x.page = y.page /\ x.puts = y.puts
  <2>1. CASE DropSource(o)
    BY <1>0, <2>1, GotoIs DEF DropSource, Places, StreamPlaces
  <2>2. CASE MarkDone(o)
    BY <1>0, <2>2, GotoIs DEF MarkDone, Places, StreamPlaces
  <2> QED
    BY <2>1, <2>2
<1>7. OpenerFits(x)'
  BY <1>0, <1>1, <1>2, <1>6 DEF OpenerFits, OpenerStates, RowsFit, StreamFits, StreamPlaces
<1> QED
  BY <1>3, <1>5, <1>6, <1>7, OpenerMoves
-----------------------------------------------------------------------------
(* The servers, and the whole.                                               *)

LEMMA RowsStayFit ==
    ASSUME MigrationWorks, opener' = opener, GoesOn, SharedWorks'
    PROVE  MigrationWorks'
<1>1. ASSUME NEW o \in Openers
      PROVE  OpenerFits(opener[o])'
  <2>1. PICK x : x = opener[o]
    OBVIOUS
  <2>2. OpenerFits(x)'
    BY <2>1, OpenersStay DEF MigrationWorks
  <2> QED
    BY <2>1, <2>2
<1> QED
  BY <1>1 DEF MigrationWorks

\* An edit or a removal of a row that is stored leaves it stored or removed.
LEMMA ServersKeep ==
    ASSUME MigrationAssumption, MigrationWorks, NEW r \in Rows, EditRow(r) \/ RemoveRow(r)
    PROVE  MigrationWorks'
<1>0. SharedWorks /\ MigrationTypes
  BY DEF MigrationWorks, SharedWorks
<1>1. /\ legacy' = legacy /\ ledger' = ledger /\ source' = source /\ audit' = audit
      /\ checkpoint' = checkpoint /\ imported' = imported /\ writes' = writes
      /\ opener' = opener
  BY DEF EditRow, RemoveRow, streamVars
<1>2. /\ target' \in [Rows -> {"none", "moved", "edited"}] /\ removed' \subseteq Rows
      /\ \A q \in Rows : Stored(q) => Stored(q)'
  <2>1. CASE EditRow(r)
    BY <1>0, <2>1 DEF EditRow, MigrationTypes, Stored
  <2>2. CASE RemoveRow(r)
    BY <1>0, <2>2 DEF RemoveRow, MigrationTypes, Stored
  <2> QED
    BY <2>1, <2>2
<1>3. GoesOn
  BY <1>1, <1>2 DEF GoesOn, CopiedTo
<1>4. SharedWorks'
  <2>1. MigrationTypes'
    BY <1>0, <1>1, <1>2 DEF MigrationTypes
  <2>2. NothingIsLost'
    <3>1. Carried \subseteq Rows /\ \A q \in Carried : q \in legacy \/ Stored(q)
      BY <1>0 DEF MigrationAssumption, Rows, SharedWorks, NothingIsLost, Stored
    <3> QED
      BY <1>1, <1>2, <3>1 DEF NothingIsLost, Stored
  <2>3. AuditIsKept' /\ SavedFits'
    BY <1>0, <1>1 DEF SharedWorks, AuditIsKept, SavedFits, CopiedTo
  <2> QED
    BY <2>1, <2>2, <2>3 DEF SharedWorks
<1> QED
  BY <1>1, <1>3, <1>4, RowsStayFit

LEMMA WriteAuditKeeps ==
    ASSUME MigrationAssumption, MigrationWorks, WriteAudit
    PROVE  MigrationWorks'
<1>0. SharedWorks /\ audit \in Seq(1..Written) /\ writes \in 0..MaxWrites
  BY DEF MigrationWorks, SharedWorks, MigrationTypes
<1>1. Written \in 1..Written /\ <<Written>> \in Seq(1..Written) /\ MaxWrites \in Nat
  BY DEF Written, MigrationAssumption
<1>2. /\ audit' = Append(audit, Written) /\ writes' \in 0..MaxWrites
      /\ UNCHANGED <<docVars, source, checkpoint, imported, opener>>
  BY <1>0, <1>1 DEF WriteAudit
<1>3. audit' = audit \o <<Written>>
  BY <1>0, <1>1, <1>2, AppendIsConcat
<1>4. SharedWorks' /\ GoesOn
  BY <1>0, <1>1, <1>2, <1>3, AppendedStays
<1> QED
  BY <1>2, <1>4, RowsStayFit

LEMMA MigrationStarts ==
    ASSUME MigrationAssumption, MigrationInit
    PROVE  MigrationWorks
<1>0. /\ legacy = Rows /\ target = [r \in Rows |-> "none"]
      /\ ledger = [cursor |-> 0, done |-> FALSE]
      /\ source = AuditLength /\ audit \in {<<>>, <<Written>>}
      /\ checkpoint = None /\ imported = FALSE
      /\ opener = [o \in Openers |-> Unopened] /\ removed = {} /\ writes = 0
      /\ RowCount \in Nat /\ AuditLength \in Nat /\ MaxWrites \in Nat /\ Carried \subseteq Rows
  BY DEF MigrationInit, MigrationAssumption, Rows
<1>1. MigrationTypes
  <2>1. audit \in Seq(1..Written)
    <3>1. Written \in 1..Written
      BY <1>0 DEF Written
    <3>2. <<Written>> \in Seq(1..Written) /\ <<>> \in Seq(1..Written)
      BY <3>1
    <3> QED
      BY <1>0, <3>2
  <2>2. 0 \in 0..RowCount /\ 0 \in 0..MaxWrites
    BY <1>0
  <2>3. target \in [Rows -> {"none", "moved", "edited"}]
    BY <1>0
  <2> QED
    BY <1>0, <2>1, <2>2, <2>3 DEF MigrationTypes
<1>2. NothingIsLost
  BY <1>0 DEF NothingIsLost
<1>3. AuditIsKept
  <2>1. SUFFICES ASSUME AuditLength = 0
                 PROVE  \E first \in 0..(Len(audit) - AuditLength) :
                            \A i \in 1..AuditLength : audit[first + i] = i
    BY <1>0 DEF AuditIsKept
  <2>2. Len(audit) \in Nat
    BY <1>1 DEF MigrationTypes
  <2>3. 0 \in 0..(Len(audit) - AuditLength) /\ 1..AuditLength = {}
    BY <2>1, <2>2
  <2> QED
    BY <2>3
<1>4. SavedFits
  BY <1>0 DEF SavedFits, Rows
<1>5. OpenerFits(Unopened)
  BY <1>0 DEF Unopened, OpenerFits, OpenerStates, Places, RowsFit, StreamFits, StreamPlaces
<1>6. Unopened \in OpenerStates
  BY <1>5 DEF OpenerFits
<1> QED
  BY <1>0, <1>1, <1>2, <1>3, <1>4, <1>5, <1>6 DEF MigrationWorks, SharedWorks

LEMMA MigrationWorksOn ==
    ASSUME MigrationAssumption, MigrationWorks, [MigrationNext]_migrationVars
    PROVE  MigrationWorks'
<1>1. CASE UNCHANGED migrationVars
  <2>1. UNCHANGED <<docVars, streamVars>> /\ opener' = opener
    BY <1>1 DEF migrationVars
  <2>2. SharedWorks' /\ GoesOn
    BY <2>1, SharedStays DEF MigrationWorks
  <2> QED
    BY <2>1, <2>2, RowsStayFit
<1>2. ASSUME NEW o \in Openers, Step(o)
      PROVE  MigrationWorks'
  <2>1. CASE OpenerCrash(o)
    <3>1. SharedWorks' /\ GoesOn
      BY <2>1, SharedStays DEF OpenerCrash, MigrationWorks
    <3> QED
      BY <2>1, <3>1, FailKeeps DEF OpenerCrash
  <2>2. CASE Begin(o) \/ LoadProgress(o)
    BY <2>2, BeginKeeps
  <2>3. CASE QueryPage(o)
    BY <2>3, QueryKeeps
  <2>4. CASE PutNext(o)
    BY <2>4, PutKeeps
  <2>5. CASE DeleteNext(o)
    BY <2>5, DeleteKeeps
  <2>6. CASE SaveProgress(o) \/ SaveDone(o)
    BY <2>6, SaveKeeps
  <2>7. CASE ListStreams(o)
    BY <2>7, ListStreamsKeeps
  <2>8. CASE ReadLength(o)
    BY <2>8, ReadLengthKeeps
  <2>9. CASE LoadCheckpoint(o)
    BY <2>9, LoadCheckpointKeeps
  <2>10. CASE ReadBaseline(o)
    BY <2>10, ReadBaselineKeeps
  <2>11. CASE SaveCheckpoint(o)
    BY <2>11, SaveCheckpointKeeps
  <2>12. CASE ReadSource(o)
    BY <2>12, ReadSourceKeeps
  <2>13. CASE CompareTarget(o) \/ CheckTail(o)
    BY <2>13, CompareKeeps
  <2>14. CASE AppendBatch(o)
    BY <2>14, AppendKeeps
  <2>15. CASE DropSource(o) \/ MarkDone(o)
    BY <2>15, DropKeeps
  <2> QED
    BY <1>2, <2>1, <2>2, <2>3, <2>4, <2>5, <2>6, <2>7, <2>8, <2>9, <2>10, <2>11, <2>12,
       <2>13, <2>14, <2>15 DEF Step
<1> QED
  BY <1>1, <1>2, ServersKeep, WriteAuditKeeps DEF MigrationNext

LEMMA MigrationWorksIsEnough ==
    ASSUME MigrationAssumption, MigrationWorks
    PROVE  MigrationInv
<1>1. SharedWorks /\ MigrationTypes /\ NothingIsLost /\ AuditIsKept /\ SavedFits
  BY DEF MigrationWorks, SharedWorks
<1>2. ASSUME NEW o \in Openers
      PROVE  /\ opener[o] \in OpenerStates /\ opener[o].puts \subseteq opener[o].page
             /\ RowsFit(opener[o]) /\ StreamFits(opener[o])
  BY DEF MigrationWorks, OpenerFits
<1>3. ServesAllOfIt
  BY <1>2 DEF ServesAllOfIt, Serving, RowsFit, StreamFits, StreamPlaces
<1>4. \/ checkpoint = None
      \/ checkpoint.from \in 0..AuditLength /\ checkpoint.to \in 0..Len(audit)
  <2>1. CASE checkpoint # None
    <3>1. PICK from, to : from = checkpoint.from /\ to = checkpoint.to
      OBVIOUS
    <3>2. from \in 0..AuditLength /\ to \in Nat /\ to <= Len(audit) /\ Len(audit) \in Nat
      BY <1>1, <2>1, <3>1 DEF SavedFits, CopiedTo, MigrationTypes
    <3> QED
      BY <3>1, <3>2
  <2> QED
    BY <2>1
<1>5. \A o \in Openers :
        /\ opener[o].at \in {"idle", "load", "query", "put", "delete", "save", "finish",
                             "streams", "length", "progress", "baseline", "keep", "read",
                             "compare", "tail", "append", "advance", "drop", "mark", "open"}
        /\ opener[o].page \subseteq Rows /\ opener[o].puts \subseteq opener[o].page
  BY <1>2 DEF OpenerStates, Places, StreamPlaces
<1>6. MigrationTypeOK
  BY <1>1, <1>4, <1>5 DEF MigrationTypeOK, MigrationTypes
<1> QED
  BY <1>1, <1>3, <1>6 DEF MigrationInv

\* Only a put writes a copy, and only where there is none.
LEMMA EditStays ==
    ASSUME MigrationTypes, [MigrationNext]_migrationVars, NEW r \in Rows, target[r] = "edited"
    PROVE  target'[r] # "moved"
<1>0. target \in [Rows -> {"none", "moved", "edited"}]
  BY DEF MigrationTypes
<1>1. CASE target' = target
  BY <1>1
<1>2. ASSUME NEW o \in Openers, PutNext(o)
      PROVE  target'[r] # "moved"
  <2>1. CASE target' = target
    BY <2>1
  <2>2. CASE target' # target
    <3>1. PICK q : PutAbsent(q)
      BY <1>2, <2>2 DEF PutNext
    <3>2. target[q] = "none" /\ target' = [target EXCEPT ![q] = "moved"]
      BY <2>2, <3>1 DEF PutAbsent
    <3> QED
      BY <1>0, <3>2
  <2> QED
    BY <2>1, <2>2
<1>3. ASSUME NEW q \in Rows, EditRow(q) \/ RemoveRow(q)
      PROVE  target'[r] # "moved"
  BY <1>0, <1>3 DEF EditRow, RemoveRow
<1>4. ASSUME NEW o \in Openers, Step(o), ~PutNext(o)
      PROVE  target' = target
  BY <1>4 DEF Step, Begin, LoadProgress, QueryPage, DeleteNext, DeleteRow, SaveProgress,
     SaveDone, ListStreams, ReadLength, LoadCheckpoint, ReadBaseline, SaveCheckpoint,
     ReadSource, CompareTarget, CheckTail, AppendBatch, DropSource, MarkDone, OpenerCrash,
     docVars
<1>5. UNCHANGED migrationVars \/ WriteAudit => target' = target
  BY DEF migrationVars, docVars, WriteAudit
<1> QED
  BY <1>1, <1>2, <1>3, <1>4, <1>5 DEF MigrationNext

\* Whatever the openers, their crashes and the servers behind them do: no row the
\* migration carries over is lost, no edit is undone, a server that serves has left
\* nothing behind, and a stream that was deleted is in the audit log as it was.
\* (storage/local/schema.rs:277-440, storage/migrate.rs:66-180)
THEOREM MigrationLosesNothing == MigrationSpec => MigrationKeeps
<1>1. MigrationInit => MigrationWorks
  BY MigrationStarts, MigrationAssumption
<1>2. MigrationWorks /\ [MigrationNext]_migrationVars => MigrationWorks'
  BY MigrationWorksOn, MigrationAssumption
<1>3. MigrationWorks => MigrationInv
  BY MigrationWorksIsEnough, MigrationAssumption
<1>4. MigrationWorks /\ [MigrationNext]_migrationVars
        => [\A r \in Rows : target[r] = "edited" => target'[r] # "moved"]_migrationVars
  BY EditStays DEF MigrationWorks, SharedWorks
<1> QED
  BY <1>1, <1>2, <1>3, <1>4, PTL DEF MigrationSpec, MigrationKeeps, EditsSurvive
-----------------------------------------------------------------------------
(* AuditLog: for any readers, writes, windows and pages.                     *)

\* Newer is a strict total order of `ids`.
OrdersAll(ids) ==
    /\ \A i \in ids : ~Newer(i, i)
    /\ \A i, j, k \in ids : Newer(i, j) /\ Newer(j, k) => Newer(i, k)
    /\ \A i, j \in ids : i # j => Newer(i, j) \/ Newer(j, i)

LEMMA NewerIsAnOrder ==
    ASSUME AuditAssumption, stream \in Seq(Writes)
    PROVE  OrdersAll(1..Len(stream))
<1>1. ASSUME NEW i \in 1..Len(stream)
      PROVE  stream[i].time \in Nat /\ i \in Nat
  <2>1. stream[i] \in Writes /\ i \in Nat
    OBVIOUS
  <2>2. stream[i].time \in Times
    BY <2>1 DEF Writes
  <2> QED
    BY <2>1, <2>2 DEF AuditAssumption
<1> DEFINE T(i) == stream[i].time
<1>2. \A i \in 1..Len(stream) : T(i) \in Nat /\ i \in Nat
  BY <1>1
<1>3. \A i, j : Newer(i, j) <=> T(i) > T(j) \/ (T(i) = T(j) /\ i > j)
  BY DEF Newer
<1> HIDE DEF T
<1>4. \A i \in 1..Len(stream) : ~Newer(i, i)
  BY <1>2, <1>3
<1>5. ASSUME NEW i \in 1..Len(stream), NEW j \in 1..Len(stream), NEW k \in 1..Len(stream),
             Newer(i, j), Newer(j, k)
      PROVE  Newer(i, k)
  <2>1. /\ T(i) \in Nat /\ T(j) \in Nat /\ T(k) \in Nat /\ i \in Nat /\ j \in Nat /\ k \in Nat
        /\ T(i) > T(j) \/ (T(i) = T(j) /\ i > j)
        /\ T(j) > T(k) \/ (T(j) = T(k) /\ j > k)
    BY <1>2, <1>3, <1>5
  <2>2. T(i) > T(k) \/ (T(i) = T(k) /\ i > k)
    BY ONLY <2>1
  <2> QED
    BY <1>3, <2>2
<1>6. ASSUME NEW i \in 1..Len(stream), NEW j \in 1..Len(stream), i # j
      PROVE  Newer(i, j) \/ Newer(j, i)
  <2>1. T(i) \in Nat /\ T(j) \in Nat /\ i \in Nat /\ j \in Nat
    BY <1>2
  <2>2. \/ T(i) > T(j) \/ (T(i) = T(j) /\ i > j)
        \/ T(j) > T(i) \/ (T(j) = T(i) /\ j > i)
    BY ONLY <2>1, <1>6
  <2> QED
    BY <1>3, <2>2
<1> QED
  BY <1>4, <1>5, <1>6 DEF OrdersAll

\* Those of `ids` that come before i, and the place they leave it.
Earlier(ids, i) == {other \in ids : Newer(other, i)}
PlaceIn(ids, i) == 1 + Cardinality(Earlier(ids, i))

LEMMA PlacesDiffer ==
    ASSUME NEW ids, IsFiniteSet(ids), OrdersAll(ids)
    PROVE  /\ \A i \in ids : /\ IsFiniteSet(Earlier(ids, i))
                             /\ Cardinality(Earlier(ids, i)) \in Nat
                             /\ Cardinality(Earlier(ids, i)) < Cardinality(ids)
           /\ \A i, j \in ids : Newer(i, j) => PlaceIn(ids, i) < PlaceIn(ids, j)
<1>0. Cardinality(ids) \in Nat
  BY FS_CardinalityType
<1>1. ASSUME NEW i \in ids
      PROVE  /\ IsFiniteSet(Earlier(ids, i)) /\ Cardinality(Earlier(ids, i)) \in Nat
             /\ Cardinality(Earlier(ids, i)) < Cardinality(ids)
  <2>1. /\ Earlier(ids, i) \in SUBSET ids /\ Earlier(ids, i) # ids
    BY DEF Earlier, OrdersAll
  <2>2. /\ IsFiniteSet(Earlier(ids, i))
        /\ Cardinality(Earlier(ids, i)) <= Cardinality(ids)
        /\ Cardinality(ids) # Cardinality(Earlier(ids, i))
    BY <2>1, FS_Subset
  <2>3. Cardinality(Earlier(ids, i)) \in Nat
    BY <2>2, FS_CardinalityType
  <2> QED
    BY <1>0, <2>2, <2>3
<1>2. ASSUME NEW i \in ids, NEW j \in ids, Newer(i, j)
      PROVE  PlaceIn(ids, i) < PlaceIn(ids, j)
  <2>1. Earlier(ids, i) \in SUBSET Earlier(ids, j) /\ Earlier(ids, i) # Earlier(ids, j)
    <3>1. i \in Earlier(ids, j) /\ i \notin Earlier(ids, i)
      BY <1>2 DEF Earlier, OrdersAll
    <3>2. \A k \in ids : Newer(k, i) => Newer(k, j)
      BY <1>2 DEF OrdersAll
    <3> QED
      BY <3>1, <3>2 DEF Earlier
  <2>2. /\ Cardinality(Earlier(ids, i)) <= Cardinality(Earlier(ids, j))
        /\ Cardinality(Earlier(ids, j)) # Cardinality(Earlier(ids, i))
    BY <1>1, <2>1, FS_Subset
  <2>3. Cardinality(Earlier(ids, i)) \in Nat /\ Cardinality(Earlier(ids, j)) \in Nat
    BY <1>1
  <2> QED
    BY ONLY <2>2, <2>3 DEF PlaceIn
<1> QED
  BY <1>1, <1>2

InOrder(s, ids) ==
    /\ s \in [1..Cardinality(ids) -> ids]
    /\ \A i, j \in DOMAIN s : i < j => Newer(s[i], s[j])

\* A sequence in that order exists: each id at its place.
LEMMA OrderExists ==
    ASSUME NEW ids, IsFiniteSet(ids), OrdersAll(ids)
    PROVE  \E s : InOrder(s, ids)
<1> DEFINE n == Cardinality(ids)
<1> DEFINE slot == [i \in ids |-> PlaceIn(ids, i)]
<1> DEFINE s == [k \in 1..n |-> CHOOSE i \in ids : PlaceIn(ids, i) = k]
<1>1. n \in Nat
  BY FS_CardinalityType
<1>2. /\ \A i \in ids : Cardinality(Earlier(ids, i)) \in Nat
                        /\ Cardinality(Earlier(ids, i)) < n
      /\ \A i, j \in ids : Newer(i, j) => PlaceIn(ids, i) < PlaceIn(ids, j)
  BY PlacesDiffer
<1> HIDE DEF n
<1>3. \A i \in ids : PlaceIn(ids, i) \in 1..n
  BY <1>1, <1>2 DEF PlaceIn
<1>4. \A i, j \in ids : i # j => PlaceIn(ids, i) # PlaceIn(ids, j)
  BY <1>2, <1>3 DEF OrdersAll
<1>5. slot \in Injection(ids, 1..n)
  BY <1>3, <1>4 DEF Injection, IsInjective
<1>6. /\ IsFiniteSet(1..n) /\ Cardinality(1..n) = n
  BY <1>1, FS_Interval
<1>7. slot \in Surjection(ids, 1..n)
  <2> HIDE DEF slot
  <2>1. Cardinality(ids) = Cardinality(1..n)
    BY <1>6 DEF n
  <2> QED
    BY <1>5, <1>6, <2>1, FS_Injection
<1>8. \A k \in 1..n : \E i \in ids : PlaceIn(ids, i) = k
  BY <1>7 DEF Surjection
<1>9. \A k \in 1..n : s[k] \in ids /\ PlaceIn(ids, s[k]) = k
  BY <1>8
<1>10. s \in [1..n -> ids]
  BY <1>9
<1> HIDE DEF s
<1>11. ASSUME NEW a \in 1..n, NEW b \in 1..n, a < b
       PROVE  Newer(s[a], s[b])
  <2>1. /\ s[a] \in ids /\ s[b] \in ids
        /\ PlaceIn(ids, s[a]) = a /\ PlaceIn(ids, s[b]) = b
    BY <1>9
  <2>2. a \in Nat /\ b \in Nat
    BY <1>1
  <2>3. s[a] # s[b]
    BY <1>11, <2>1, <2>2
  <2>4. ~Newer(s[b], s[a])
    <3>1. SUFFICES ASSUME Newer(s[b], s[a]) PROVE FALSE
      OBVIOUS
    <3>2. b < a
      BY <1>2, <2>1, <3>1
    <3> QED
      BY ONLY <1>11, <2>2, <3>2
  <2> QED
    BY <2>1, <2>3, <2>4 DEF OrdersAll
<1> QED
  BY <1>10, <1>11 DEF InOrder, n

\* And each id is at its slot in any such sequence.
LEMMA OrderIs ==
    ASSUME NEW ids, IsFiniteSet(ids), OrdersAll(ids), NEW s, InOrder(s, ids)
    PROVE  \A k \in 1..Cardinality(ids) : s[k] \in ids /\ PlaceIn(ids, s[k]) = k
<1> DEFINE n == Cardinality(ids)
<1>1. n \in Nat
  BY FS_CardinalityType
<1>2. s \in [1..n -> ids] /\ \A a, b \in 1..n : a < b => Newer(s[a], s[b])
  BY DEF InOrder
<1>3. IsFiniteSet(1..n) /\ Cardinality(1..n) = n
  BY <1>1, FS_Interval
<1> HIDE DEF n
<1>4. ASSUME NEW a \in 1..n, NEW b \in 1..n, s[a] = s[b]
      PROVE  a = b
  <2>1. ~(a < b) /\ ~(b < a)
    BY <1>2, <1>4 DEF OrdersAll
  <2>2. a \in Nat /\ b \in Nat
    BY <1>1
  <2> QED
    BY <2>1, <2>2
<1>5. s \in Injection(1..n, ids)
  BY <1>2, <1>4 DEF Injection, IsInjective
<1>6. s \in Surjection(1..n, ids)
  <2>1. Cardinality(1..n) = Cardinality(ids)
    BY <1>3 DEF n
  <2> QED
    BY <1>5, <2>1, FS_Injection
<1>7. ASSUME NEW k \in 1..n
      PROVE  s[k] \in ids /\ PlaceIn(ids, s[k]) = k
  <2> DEFINE E == Earlier(ids, s[k])
  <2> DEFINE f == [j \in 1..(k - 1) |-> s[j]]
  <2>1. k \in Nat /\ k - 1 \in Nat /\ \A j \in 1..(k - 1) : j \in 1..n /\ j < k
    BY <1>1
  <2>2. \A j \in 1..(k - 1) : s[j] \in E
    BY <1>2, <2>1 DEF Earlier
  <2>3. ASSUME NEW i \in E
        PROVE  \E j \in 1..(k - 1) : s[j] = i
    <3>1. i \in ids /\ Newer(i, s[k]) /\ s[k] \in ids
      BY <1>2 DEF Earlier
    <3>2. PICK j \in 1..n : s[j] = i
      BY <1>6, <3>1 DEF Surjection
    <3>3. j # k /\ ~(k < j)
      BY <1>2, <3>1, <3>2 DEF OrdersAll
    <3>4. j \in 1..(k - 1)
      BY <1>1, <2>1, <3>3
    <3> QED
      BY <3>2, <3>4
  <2>4. \A a, b \in 1..(k - 1) : s[a] = s[b] => a = b
    BY <1>4, <2>1
  <2> HIDE DEF E
  <2>5. f \in Bijection(1..(k - 1), E)
    <3>1. f \in [1..(k - 1) -> E]
      BY <2>2
    <3>2. \A a, b \in 1..(k - 1) : f[a] = f[b] => a = b
      BY <2>4
    <3>3. \A i \in E : \E j \in 1..(k - 1) : f[j] = i
      BY <2>3
    <3> HIDE DEF f
    <3> QED
      BY <3>1, <3>2, <3>3 DEF Bijection, Injection, IsInjective, Surjection
  <2>6. /\ IsFiniteSet(1..(k - 1)) /\ Cardinality(1..(k - 1)) = k - 1
    BY <2>1, FS_Interval
  <2>7. Cardinality(E) = k - 1
    <3>1. ExistsBijection(1..(k - 1), E)
      BY <2>5 DEF ExistsBijection
    <3> QED
      BY <2>6, <3>1, FS_Bijection
  <2> QED
    BY <1>2, <2>1, <2>7 DEF PlaceIn, E
<1> QED
  BY <1>7 DEF n

LEMMA SortedIs ==
    ASSUME NEW ids, IsFiniteSet(ids), OrdersAll(ids)
    PROVE  /\ Sorted(ids) \in Seq(ids) /\ Len(Sorted(ids)) = Cardinality(ids)
           /\ Cardinality(ids) \in Nat
           /\ \A k \in 1..Cardinality(ids) :
                  Sorted(ids)[k] \in ids /\ PlaceIn(ids, Sorted(ids)[k]) = k
<1>1. Cardinality(ids) \in Nat
  BY FS_CardinalityType
<1>2. InOrder(Sorted(ids), ids)
  <2>1. PICK s : InOrder(s, ids)
    BY OrderExists
  <2>2. s \in [1..Cardinality(ids) -> ids] /\ \A i, j \in DOMAIN s : i < j => Newer(s[i], s[j])
    BY <2>1 DEF InOrder
  <2> QED
    BY <2>2 DEF InOrder, Sorted
<1>3. \A k \in 1..Cardinality(ids) : Sorted(ids)[k] \in ids /\ PlaceIn(ids, Sorted(ids)[k]) = k
  BY <1>2, OrderIs
<1>4. Sorted(ids) \in [1..Cardinality(ids) -> ids]
  BY <1>2 DEF InOrder
<1>5. Sorted(ids) \in Seq(ids) /\ Len(Sorted(ids)) = Cardinality(ids)
  BY <1>1, <1>4
<1> QED
  BY <1>1, <1>3, <1>5

\* What the query keeps of the first `length` entries.
Kept(query, length) == {id \in 1..length : Keeps(query, stream[id])}

\* The page is the query's over the first `length` entries.
PageIs(query, page, length) ==
    /\ \A n \in 1..Len(page) : IsAt(query, length, page[n], n)
    /\ \/ Len(page) = ResolvedLimit(query)
       \/ Len(page) < ResolvedLimit(query)
          /\ ~\E id \in 1..length : IsAt(query, length, id, Len(page) + 1)

ListStates ==
    {NoList}
      \union [state : {"reading"}, query : Queries, end : Nat, from : Nat, matched : SUBSET Nat]
      \union [state : {"listed"}, query : Queries, end : Nat, page : Seq(Nat)]

\* A list in progress has matched all that the query keeps of what it has read,
\* and one that has ended answered with the page of one moment.
ListFits(x) ==
    /\ x \in ListStates
    /\ x.state = "reading" =>
           /\ x.end <= Len(stream) /\ x.from <= Len(stream)
           /\ x.matched = Kept(x.query, x.from)
    /\ x.state = "listed" =>
           \E length \in x.end..Len(stream) : PageIs(x.query, x.page, length)

AuditWorks ==
    /\ stream \in Seq(Writes)
    /\ reader \in [Readers -> ListStates]
    /\ \A r \in Readers : ListFits(reader[r])

LEMMA StatesAre ==
    ASSUME NEW x \in ListStates
    PROVE  /\ x.state = "reading" =>
                  /\ x \in [state : {"reading"}, query : Queries, end : Nat, from : Nat,
                            matched : SUBSET Nat]
                  /\ x.query \in Queries /\ x.end \in Nat /\ x.from \in Nat
           /\ x.state = "listed" =>
                  /\ x \in [state : {"listed"}, query : Queries, end : Nat, page : Seq(Nat)]
                  /\ x.query \in Queries /\ x.end \in Nat /\ x.page \in Seq(Nat)
BY DEF ListStates, NoList

LEMMA LimitIs ==
    ASSUME AuditAssumption, NEW query \in Queries
    PROVE  ResolvedLimit(query) \in Nat /\ query.offset \in {0, 1}
BY DEF AuditAssumption, Queries, ResolvedLimit

\* The entries of a list and their places, as IsAt counts them.
LEMMA IsAtIs ==
    ASSUME NEW query, NEW length \in Nat, NEW id, NEW n
    PROVE  IsAt(query, length, id, n) <=>
               id \in Kept(query, length) /\ n + query.offset = PlaceIn(Kept(query, length), id)
<1>1. {other \in 1..length :
           /\ Keeps(query, stream[other])
           /\ \/ stream[other].time > stream[id].time
              \/ stream[other].time = stream[id].time /\ other > id}
        = Earlier(Kept(query, length), id)
  BY DEF Earlier, Kept, Newer
<1> QED
  BY <1>1 DEF IsAt, Kept, PlaceIn

\* A page cut out of the sorted entries.
LEMMA PageOfSorted ==
    ASSUME AuditAssumption, stream \in Seq(Writes), NEW query \in Queries,
           NEW length \in Nat, length <= Len(stream), NEW last \in Nat, NEW page,
           last = query.offset + ResolvedLimit(query),
           page = SubSeq(Sorted(Kept(query, length)), query.offset + 1,
                         IF last < Len(Sorted(Kept(query, length))) THEN last
                         ELSE Len(Sorted(Kept(query, length))))
    PROVE  page \in Seq(Nat) /\ PageIs(query, page, length)
<1>1. PICK M : M = Kept(query, length)
  OBVIOUS
<1>2. M \in SUBSET (1..length) /\ IsFiniteSet(M)
  <2>1. M \in SUBSET (1..length)
    BY <1>1 DEF Kept
  <2> QED
    BY <2>1, IndexSets
<1>3. OrdersAll(M)
  <2>1. Len(stream) \in Nat /\ OrdersAll(1..Len(stream))
    BY NewerIsAnOrder
  <2>2. M \subseteq 1..Len(stream)
    BY <1>2, <2>1
  <2> QED
    BY <2>1, <2>2 DEF OrdersAll
<1>4. PICK s : s = Sorted(M)
  OBVIOUS
<1>5. PICK N \in Nat : N = Cardinality(M)
  BY <1>2, <1>3, SortedIs
<1>6. s \in Seq(M) /\ Len(s) = N /\ \A k \in 1..N : s[k] \in M /\ PlaceIn(M, s[k]) = k
  BY <1>2, <1>3, <1>4, <1>5, SortedIs
<1>7. PICK off \in {0, 1}, limit \in Nat : off = query.offset /\ limit = ResolvedLimit(query)
  BY LimitIs
<1>8. PICK m \in Nat : m = (IF off + limit < N THEN off + limit ELSE N)
  BY <1>5
<1>9. page = SubSeq(s, off + 1, m)
  BY <1>1, <1>4, <1>6, <1>7, <1>8
<1>10. m <= N /\ off \in Nat
  BY <1>8
<1>11. /\ page \in Seq(M) /\ Len(page) = (IF off < m THEN m - off ELSE 0)
       /\ \A n \in 1..(m - off) : page[n] = s[off + n]
  <2>1. m <= Len(s) /\ s \in Seq(M) /\ off \in Nat
    BY <1>6, <1>10
  <2> QED
    BY ONLY <1>9, <2>1, m \in Nat, CutIs
<1>12. page \in Seq(Nat)
  <2>1. M \subseteq Nat
    BY <1>2
  <2>2. page \in Seq(M)
    BY <1>11
  <2> QED
    BY ONLY <2>1, <2>2, WiderSeq
<1>13. ASSUME NEW n \in 1..Len(page)
       PROVE  IsAt(query, length, page[n], n)
  <2>1. n \in Nat /\ n \in 1..(m - off) /\ off + n \in 1..N /\ off + n = n + off
    BY ONLY <1>10, <1>11, n \in 1..Len(page), m \in Nat, N \in Nat
  <2>2. page[n] \in M /\ PlaceIn(M, page[n]) = n + off
    BY <1>6, <1>11, <2>1
  <2> QED
    BY <1>1, <1>7, <2>2, IsAtIs
<1>14. Len(page) <= limit /\ Len(page) \in Nat
  BY ONLY <1>7, <1>8, <1>10, <1>11, limit \in Nat, m \in Nat, N \in Nat
<1>15. ASSUME Len(page) # limit, NEW id \in 1..length, IsAt(query, length, id, Len(page) + 1)
       PROVE  FALSE
  <2>1. id \in M /\ (Len(page) + 1) + off = PlaceIn(M, id)
    <3>1. PICK n : n = Len(page) + 1
      OBVIOUS
    <3>2. IsAt(query, length, id, n)
      BY <1>15, <3>1
    <3>3. id \in Kept(query, length) /\ n + query.offset = PlaceIn(Kept(query, length), id)
      BY ONLY <3>2, IsAtIs, length \in Nat
    <3> QED
      BY ONLY <1>1, <1>7, <3>1, <3>3
  <2>2. PICK c \in Nat : c = Cardinality(Earlier(M, id)) /\ c < N
    BY <1>2, <1>3, <1>5, <2>1, PlacesDiffer
  <2>3. (Len(page) + 1) + off = 1 + c
    BY <2>1, <2>2 DEF PlaceIn
  <2>4. off + Len(page) >= N
    BY ONLY <1>8, <1>10, <1>11, <1>14, <1>15, limit \in Nat, m \in Nat, N \in Nat
  <2> QED
    BY ONLY <1>10, <1>14, <2>2, <2>3, <2>4, c \in Nat, N \in Nat
<1>16. \/ Len(page) = limit
       \/ Len(page) < limit /\ ~\E id \in 1..length : IsAt(query, length, id, Len(page) + 1)
  <2>1. Len(page) = limit \/ Len(page) < limit
    BY ONLY <1>14, limit \in Nat
  <2>2. Len(page) # limit => ~\E id \in 1..length : IsAt(query, length, id, Len(page) + 1)
    BY <1>15
  <2> QED
    BY <2>1, <2>2
<1>17. PageIs(query, page, length)
  BY <1>7, <1>13, <1>16 DEF PageIs
<1> QED
  BY <1>12, <1>17
-----------------------------------------------------------------------------

\* A longer stream has the same pages of its first entries.
LEMMA PageStays ==
    ASSUME NEW length \in Nat, \A i \in 1..length : stream'[i] = stream[i],
           NEW query, NEW page
    PROVE  /\ Kept(query, length)' = Kept(query, length)
           /\ PageIs(query, page, length) => PageIs(query, page, length)'
<1>1. \A i \in 1..length : Keeps(query, stream[i])' <=> Keeps(query, stream[i])
  BY DEF Keeps
<1>2. Kept(query, length)' = Kept(query, length)
  BY <1>1 DEF Kept
<1>3. ASSUME NEW id, NEW n
      PROVE  IsAt(query, length, id, n)' <=> IsAt(query, length, id, n)
  <2>1. CASE id \in 1..length
    <3>1. {other \in 1..length :
              /\ Keeps(query, stream'[other])
              /\ \/ stream'[other].time > stream'[id].time
                 \/ stream'[other].time = stream'[id].time /\ other > id}
           = {other \in 1..length :
              /\ Keeps(query, stream[other])
              /\ \/ stream[other].time > stream[id].time
                 \/ stream[other].time = stream[id].time /\ other > id}
      BY <1>1, <2>1
    <3> QED
      BY <1>1, <2>1, <3>1 DEF IsAt
  <2>2. CASE id \notin 1..length
    BY <2>2 DEF IsAt
  <2> QED
    BY <2>1, <2>2
<1> QED
  BY <1>2, <1>3 DEF PageIs

LEMMA ListsStay ==
    ASSUME stream \in Seq(Writes), stream' \in Seq(Writes), Len(stream) <= Len(stream'),
           \A i \in 1..Len(stream) : stream'[i] = stream[i],
           NEW x, ListFits(x)
    PROVE  ListFits(x)'
<1>1. Len(stream) \in Nat /\ Len(stream') \in Nat /\ x \in ListStates
  BY DEF ListFits
<1>2. ASSUME x.state = "reading"
      PROVE  /\ x.end <= Len(stream') /\ x.from <= Len(stream')
             /\ x.matched = Kept(x.query, x.from)'
  <2>1. x.end \in Nat /\ x.from \in Nat
    BY <1>1, <1>2, StatesAre
  <2>2. x.end <= Len(stream) /\ x.from <= Len(stream) /\ x.matched = Kept(x.query, x.from)
    BY <1>2 DEF ListFits
  <2>3. \A i \in 1..x.from : i \in 1..Len(stream)
    BY ONLY <1>1, <2>1, <2>2
  <2>4. Kept(x.query, x.from)' = Kept(x.query, x.from)
    BY <2>1, <2>3, PageStays
  <2> QED
    BY <1>1, <2>1, <2>2, <2>4
<1>3. ASSUME x.state = "listed"
      PROVE  \E length \in x.end..Len(stream') : PageIs(x.query, x.page, length)'
  <2>1. x.end \in Nat
    BY <1>1, <1>3, StatesAre
  <2>2. PICK length \in x.end..Len(stream) : PageIs(x.query, x.page, length)
    BY <1>3 DEF ListFits
  <2>3. length \in Nat /\ length \in x.end..Len(stream') /\ \A i \in 1..length : i \in 1..Len(stream)
    BY <1>1, <2>1
  <2>4. PageIs(x.query, x.page, length)'
    BY <2>2, <2>3, PageStays
  <2> QED
    BY <2>3, <2>4
<1> QED
  BY <1>1, <1>2, <1>3 DEF ListFits, ListStates, NoList

\* A step of one list.
LEMMA ListMoves ==
    ASSUME AuditWorks, NEW r \in Readers, NEW x, ListFits(x),
           reader' = [reader EXCEPT ![r] = x], stream' = stream
    PROVE  AuditWorks'
<1>1. x \in ListStates
  BY DEF ListFits
<1>2. reader' \in [Readers -> ListStates] /\ stream' \in Seq(Writes)
  BY <1>1 DEF AuditWorks
<1>3. ASSUME NEW p \in Readers
      PROVE  ListFits(reader[p])'
  <2>1. PICK z : z = reader'[p]
    OBVIOUS
  <2>2. ListFits(z)
    BY <2>1 DEF AuditWorks
  <2>3. ListFits(z)'
    <3>1. /\ stream \in Seq(Writes) /\ stream' \in Seq(Writes) /\ Len(stream) <= Len(stream')
          /\ \A i \in 1..Len(stream) : stream'[i] = stream[i]
      BY DEF AuditWorks
    <3> QED
      BY <2>2, <3>1, ListsStay
  <2> QED
    BY <2>1, <2>3
<1> QED
  BY <1>2, <1>3 DEF AuditWorks

LEMMA RecordKeeps ==
    ASSUME AuditWorks, NEW entry \in Writes, RecordWrite(entry)
    PROVE  AuditWorks'
<1>1. /\ stream \in Seq(Writes) /\ stream' = Append(stream, entry) /\ reader' = reader
  BY DEF AuditWorks, RecordWrite
<1>2. /\ stream' \in Seq(Writes) /\ Len(stream) <= Len(stream')
      /\ \A i \in 1..Len(stream) : stream'[i] = stream[i]
  <2>1. /\ stream' \in Seq(Writes) /\ Len(stream') = Len(stream) + 1
        /\ \A i \in 1..Len(stream) : stream'[i] = stream[i]
    BY <1>1, AppendProperties
  <2>2. Len(stream) \in Nat
    BY <1>1
  <2> QED
    BY <2>1, <2>2
<1>3. ASSUME NEW r \in Readers
      PROVE  ListFits(reader[r])'
  <2>1. PICK x : x = reader[r]
    OBVIOUS
  <2>2. ListFits(x)'
    BY <1>1, <1>2, <2>1, ListsStay DEF AuditWorks
  <2> QED
    BY <1>1, <2>1, <2>2
<1> QED
  BY <1>1, <1>2, <1>3 DEF AuditWorks

LEMMA BeginListKeeps ==
    ASSUME AuditWorks, NEW r \in Readers, NEW query \in Queries, BeginList(r, query)
    PROVE  AuditWorks'
<1> DEFINE x == [state |-> "reading", query |-> query, end |-> Len(stream),
                 from |-> 0, matched |-> {}]
<1>1. reader' = [reader EXCEPT ![r] = x] /\ stream' = stream
  BY DEF BeginList
<1>2. Len(stream) \in Nat
  BY DEF AuditWorks
<1>3. /\ x \in ListStates /\ x.state = "reading" /\ x.query = query /\ x.end = Len(stream)
      /\ x.from = 0 /\ x.matched = {}
  BY <1>2 DEF ListStates
<1> HIDE DEF x
<1>4. Kept(query, 0) = {}
  BY DEF Kept
<1>5. ListFits(x)
  BY <1>2, <1>3, <1>4 DEF ListFits
<1> QED
  BY <1>1, <1>5, ListMoves

LEMMA ListWindowKeeps ==
    ASSUME AuditAssumption, AuditWorks, NEW r \in Readers, ListWindow(r)
    PROVE  AuditWorks'
<1>1. PICK y : y = reader[r]
  OBVIOUS
<1>2. ListFits(y) /\ y \in ListStates /\ y.state = "reading"
  BY <1>1 DEF AuditWorks, ListFits, ListWindow
<1>3. PICK query \in Queries, end \in Nat, from \in Nat :
        /\ query = y.query /\ end = y.end /\ from = y.from
        /\ y \in [state : {"reading"}, query : Queries, end : Nat, from : Nat, matched : SUBSET Nat]
  BY <1>2, StatesAre
<1>4. end <= Len(stream) /\ from <= Len(stream) /\ y.matched = Kept(query, from)
  BY <1>2, <1>3 DEF ListFits
<1>5. Len(stream) \in Nat /\ ReadWindow \in Nat
  BY DEF AuditWorks, AuditAssumption
<1>6. PICK next \in Nat : next = NextFrom(from) /\ from <= next /\ next <= Len(stream)
                          /\ next <= from + ReadWindow
                          /\ (next = Len(stream) \/ next = from + ReadWindow)
  <2>1. PICK next : next = NextFrom(from)
    OBVIOUS
  <2>2. next = IF from + ReadWindow < Len(stream) THEN from + ReadWindow ELSE Len(stream)
    BY <2>1 DEF NextFrom
  <2>3. from + ReadWindow \in Nat /\ from <= from + ReadWindow
    BY ONLY <1>5, from \in Nat
  <2>4. next \in Nat /\ from <= next /\ next <= Len(stream) /\ next <= from + ReadWindow
    BY ONLY <1>4, <1>5, <2>2, <2>3, from \in Nat
  <2> QED
    BY <2>1, <2>2, <2>4
<1>7. Kept(query, from) \union {id \in WindowAt(from) : Keeps(query, stream[id])} = Kept(query, next)
  <2>1. ASSUME NEW id
        PROVE  (id \in 1..from \/ id \in WindowAt(from)) <=> id \in 1..next
    BY ONLY <1>4, <1>5, <1>6, from \in Nat, next \in Nat DEF WindowAt
  <2> QED
    BY <2>1 DEF Kept
<1>8. Kept(query, next) \in SUBSET Nat
  BY DEF Kept
<1> DEFINE x == [y EXCEPT !.matched = Kept(query, next), !.from = next]
<1>9. /\ x \in [state : {"reading"}, query : Queries, end : Nat, from : Nat, matched : SUBSET Nat]
      /\ x.state = "reading" /\ x.query = query /\ x.end = end /\ x.from = next
      /\ x.matched = Kept(query, next)
  BY <1>3, <1>8
<1>10. reader' = [reader EXCEPT ![r] = x] /\ stream' = stream
  <2>1. reader' = [reader EXCEPT
           ![r].matched = @ \union {id \in WindowAt(from) : Keeps(query, stream[id])},
           ![r].from = NextFrom(@)] /\ stream' = stream
    BY <1>1, <1>3 DEF ListWindow
  <2> QED
    BY <1>1, <1>3, <1>4, <1>6, <1>7, <2>1 DEF AuditWorks
<1> HIDE DEF x
<1>11. ListFits(x)
  BY <1>4, <1>6, <1>9 DEF ListFits, ListStates
<1> QED
  BY <1>10, <1>11, ListMoves

LEMMA EndListKeeps ==
    ASSUME AuditAssumption, AuditWorks, NEW r \in Readers, EndList(r)
    PROVE  AuditWorks'
<1>1. PICK y : y = reader[r]
  OBVIOUS
<1>2. ListFits(y) /\ y \in ListStates /\ y.state = "reading"
  BY <1>1 DEF AuditWorks, ListFits, EndList
<1>3. PICK query \in Queries, end \in Nat, from \in Nat :
        query = y.query /\ end = y.end /\ from = y.from
  BY <1>2, StatesAre
<1>4. /\ end <= from /\ from <= Len(stream) /\ y.matched = Kept(query, from)
      /\ Len(stream) \in Nat /\ stream \in Seq(Writes)
  BY <1>1, <1>2, <1>3 DEF ListFits, EndList, AuditWorks
<1>5. PICK last \in Nat : last = query.offset + ResolvedLimit(query)
  BY LimitIs
<1>6. PICK page : page = SubSeq(Sorted(Kept(query, from)), query.offset + 1,
                                IF last < Len(Sorted(Kept(query, from))) THEN last
                                ELSE Len(Sorted(Kept(query, from))))
  OBVIOUS
<1>7. page \in Seq(Nat) /\ PageIs(query, page, from)
  BY <1>4, <1>5, <1>6, PageOfSorted
<1> DEFINE x == [state |-> "listed", query |-> query, end |-> end, page |-> page]
<1>8. reader' = [reader EXCEPT ![r] = x] /\ stream' = stream
  BY <1>1, <1>3, <1>4, <1>5, <1>6 DEF EndList
<1>9. x \in ListStates /\ x.state = "listed" /\ x.query = query /\ x.end = end /\ x.page = page
  BY <1>7 DEF ListStates
<1> HIDE DEF x
<1>10. from \in end..Len(stream)
  BY <1>4
<1>11. ListFits(x)
  BY <1>7, <1>9, <1>10 DEF ListFits
<1> QED
  BY <1>8, <1>11, ListMoves

\* Whatever is recorded between the windows of a list, and however the host's clock
\* runs: the page it answers with is the page of the stream as it was at one moment
\* since the list began.
\* (audit/query.rs, audit/store/types.rs)
THEOREM ListsAreOfOneMoment == AuditSpec => []PageIsOfOneMoment
<1>1. AuditInit => AuditWorks
  <2>1. NoList \in ListStates /\ NoList.state = "none"
    BY DEF ListStates, NoList
  <2>2. ListFits(NoList)
    BY <2>1 DEF ListFits
  <2> QED
    BY <2>1, <2>2 DEF AuditInit, AuditWorks
<1>2. AuditWorks /\ [AuditNext]_auditVars => AuditWorks'
  <2> SUFFICES ASSUME AuditWorks, [AuditNext]_auditVars PROVE AuditWorks'
    OBVIOUS
  <2>1. CASE UNCHANGED auditVars
    <3>1. stream' = stream /\ reader' = reader
      BY <2>1 DEF auditVars
    <3>2. ASSUME NEW r \in Readers
          PROVE  ListFits(reader[r])'
      <4>1. PICK x : x = reader[r]
        OBVIOUS
      <4>2. /\ stream' \in Seq(Writes) /\ Len(stream) <= Len(stream')
            /\ \A i \in 1..Len(stream) : stream'[i] = stream[i]
        BY <3>1 DEF AuditWorks
      <4>3. ListFits(x)'
        BY <4>1, <4>2, ListsStay DEF AuditWorks
      <4> QED
        BY <3>1, <4>1, <4>3
    <3> QED
      BY <3>1, <3>2 DEF AuditWorks
  <2>2. CASE AuditNext
    BY <2>2, AuditAssumption, RecordKeeps, BeginListKeeps, ListWindowKeeps, EndListKeeps
       DEF AuditNext
  <2> QED
    BY <2>1, <2>2
<1>3. AuditWorks => PageIsOfOneMoment
  <2> SUFFICES ASSUME AuditWorks, NEW r \in Readers, reader[r].state = "listed"
               PROVE  \E length \in reader[r].end..Len(stream) :
                          PageIs(reader[r].query, reader[r].page, length)
    BY DEF PageIsOfOneMoment, PageIs
  <2> QED
    BY DEF AuditWorks, ListFits
<1> QED
  BY <1>1, <1>2, <1>3, PTL DEF AuditSpec

-----------------------------------------------------------------------------
(* CatalogListing: for any versions and listings.                            *)

\* The first k indices, one at a time.
LEMMA SegmentIs ==
    ASSUME NEW k \in Nat
    PROVE  /\ 1 .. 0 = {} /\ 1 .. (k + 1) # {}
           /\ Max(1 .. (k + 1)) = k + 1 /\ (1 .. (k + 1)) \ {k + 1} = 1 .. k
<1>1. PICK n \in Nat : n = k + 1
  OBVIOUS
<1>2. 1 .. n \in SUBSET (1 .. n) /\ n \in 1 .. n
  BY <1>1
<1>3. Max(1 .. n) \in 1 .. n /\ n <= Max(1 .. n)
  BY <1>2, MaxIsThere
<1>4. Max(1 .. n) = n
  BY ONLY <1>3, n \in Nat
<1>5. 1 .. 0 = {} /\ 1 .. (k + 1) # {} /\ (1 .. (k + 1)) \ {k + 1} = 1 .. k
  BY ONLY k \in Nat
<1> QED
  BY <1>1, <1>4, <1>5

\* into_summaries takes a row.
Takes(chosen, v) ==
    IF ~Worthwhile(v) THEN chosen
    ELSE IF \E c \in chosen : c.name = v.name /\ KeepsCurrent(c) THEN chosen
    ELSE {c \in chosen : c.name # v.name} \cup {v}

\* ... and notes its name.
Notes(noted, v) ==
    IF Worthwhile(v) /\ v.name \notin {noted[i] : i \in DOMAIN noted}
    THEN Append(noted, v.name) ELSE noted

\* What the fold has after each row.
LEMMA ChosenSteps ==
    ASSUME rows \in Seq(Published)
    PROVE  \E at : /\ at[0] = {} /\ Chosen(rows) = at[Len(rows)]
                   /\ \A k \in 0 .. Len(rows) - 1 : at[k + 1] = Takes(at[k], rows[k + 1])
<1> DEFINE n == Len(rows)
<1> DEFINE step == [p \in (SUBSET Published) \X (1 .. n) |-> Takes(p[1], rows[p[2]])]
<1> DEFINE Body(f) == [t \in SUBSET (1 .. n) |->
               IF t = {} THEN {} ELSE Takes(f[t \ {Max(t)}], rows[Max(t)])]
<1>1. n \in Nat /\ DOMAIN rows = 1 .. n /\ \A i \in 1 .. n : rows[i] \in Published
  OBVIOUS
<1>2. step \in StepsOver(SUBSET Published, n)
      /\ \A chosen \in SUBSET Published, i \in 1 .. n : step[<<chosen, i>>] = Takes(chosen, rows[i])
  <2>1. ASSUME NEW chosen \in SUBSET Published, NEW v \in Published
        PROVE  Takes(chosen, v) \in SUBSET Published
    BY DEF Takes
  <2>2. ASSUME NEW p \in (SUBSET Published) \X (1 .. n)
        PROVE  Takes(p[1], rows[p[2]]) \in SUBSET Published
    BY <1>1, <2>1
  <2> QED
    BY <2>2 DEF StepsOver
<1> HIDE DEF n, step
<1>3. PICK f : FoldsUp(f, SUBSET Published, n, {}, step)
  <2>1. {} \in SUBSET Published
    OBVIOUS
  <2> QED
    BY ONLY <1>1, <1>2, <2>1, FoldIsThere
<1>4. f = Body(f)
  <2>1. ASSUME NEW t \in SUBSET (1 .. n)
        PROVE  f[t] = IF t = {} THEN {} ELSE Takes(f[t \ {Max(t)}], rows[Max(t)])
    <3>1. CASE t = {}
      BY <1>3, <3>1 DEF FoldsUp
    <3>2. CASE t # {}
      <4>1. t \ {Max(t)} \in SUBSET (1 .. n) /\ Max(t) \in 1 .. n
        BY <1>1, <3>2, MaxIsThere
      <4>2. f[t \ {Max(t)}] \in SUBSET Published
        BY <1>3, <4>1 DEF FoldsUp
      <4>3. f[t] = step[<<f[t \ {Max(t)}], Max(t)>>]
        BY <1>3, <3>2 DEF FoldsUp
      <4> QED
        BY <1>2, <3>2, <4>1, <4>2, <4>3
    <3> QED
      BY <3>1, <3>2
  <2>2. f \in [SUBSET (1 .. n) -> SUBSET Published]
    BY <1>3 DEF FoldsUp
  <2> QED
    BY <2>1, <2>2
<1> DEFINE iter == CHOOSE g : g = Body(g)
<1>5. iter = Body(iter)
  BY <1>4
<1>6. Chosen(rows) = iter[1 .. n]
  BY <1>1, Zenon DEF Chosen, FoldLeft, MapThenFoldSet, Takes
<1> HIDE DEF iter
<1>7. \A t \in SUBSET (1 .. n) :
         iter[t] = IF t = {} THEN {} ELSE Takes(iter[t \ {Max(t)}], rows[Max(t)])
  BY <1>5
<1> DEFINE at == [k \in 0 .. n |-> iter[1 .. k]]
<1>8. at[0] = {} /\ at[n] = iter[1 .. n]
  <2>1. 0 \in 0 .. n /\ n \in 0 .. n
    BY ONLY <1>1
  <2>2. at[0] = iter[1 .. 0] /\ at[n] = iter[1 .. n]
    BY ONLY <2>1
  <2>3. iter[1 .. 0] = {}
    <3>1. 1 .. 0 = {} /\ {} \in SUBSET (1 .. n)
      BY SegmentIs
    <3>2. iter[{}] = {}
      BY <1>7, <3>1
    <3> QED
      BY <3>1, <3>2
  <2> QED
    BY <2>2, <2>3
<1>9. ASSUME NEW k \in 0 .. n - 1
      PROVE  at[k + 1] = Takes(at[k], rows[k + 1])
  <2>1. k \in Nat /\ k \in 0 .. n /\ k + 1 \in 0 .. n /\ 1 .. (k + 1) \in SUBSET (1 .. n)
    BY <1>1
  <2>2. iter[1 .. (k + 1)] = Takes(iter[1 .. k], rows[k + 1])
    <3>1. PICK t \in SUBSET (1 .. n) : t = 1 .. (k + 1)
      BY <2>1
    <3>2. t # {} /\ Max(t) = k + 1 /\ t \ {k + 1} = 1 .. k
      BY <2>1, <3>1, SegmentIs
    <3>3. iter[t] = Takes(iter[t \ {Max(t)}], rows[Max(t)])
      BY <1>7, <3>2
    <3> QED
      BY <3>1, <3>2, <3>3
  <2> QED
    BY <2>1, <2>2
<1> HIDE DEF at
<1> QED
  BY <1>6, <1>8, <1>9 DEF n

LEMMA OrderSteps ==
    ASSUME rows \in Seq(Published)
    PROVE  \E at : /\ at[0] = <<>> /\ Order(rows) = at[Len(rows)]
                   /\ \A k \in 0 .. Len(rows) - 1 : at[k + 1] = Notes(at[k], rows[k + 1])
<1> DEFINE n == Len(rows)
<1> DEFINE X == Seq({v.name : v \in Published})
<1> DEFINE step == [p \in X \X (1 .. n) |-> Notes(p[1], rows[p[2]])]
<1> DEFINE Body(f) == [t \in SUBSET (1 .. n) |->
               IF t = {} THEN <<>> ELSE Notes(f[t \ {Max(t)}], rows[Max(t)])]
<1>1. n \in Nat /\ DOMAIN rows = 1 .. n /\ \A i \in 1 .. n : rows[i] \in Published
  OBVIOUS
<1>2. step \in StepsOver(X, n)
      /\ \A noted \in X, i \in 1 .. n : step[<<noted, i>>] = Notes(noted, rows[i])
  <2>1. ASSUME NEW noted \in X, NEW v \in Published
        PROVE  Notes(noted, v) \in X
    BY DEF Notes
  <2>2. ASSUME NEW p \in X \X (1 .. n)
        PROVE  Notes(p[1], rows[p[2]]) \in X
    BY <1>1, <2>1
  <2> QED
    BY <2>2 DEF StepsOver
<1>0. <<>> \in X
  OBVIOUS
<1> HIDE DEF n, step, X
<1>3. PICK f : FoldsUp(f, X, n, <<>>, step)
  BY ONLY <1>1, <1>2, <1>0, FoldIsThere
<1>4. f = Body(f)
  <2>1. ASSUME NEW t \in SUBSET (1 .. n)
        PROVE  f[t] = IF t = {} THEN <<>> ELSE Notes(f[t \ {Max(t)}], rows[Max(t)])
    <3>1. CASE t = {}
      BY <1>3, <3>1 DEF FoldsUp
    <3>2. CASE t # {}
      <4>1. t \ {Max(t)} \in SUBSET (1 .. n) /\ Max(t) \in 1 .. n
        BY <1>1, <3>2, MaxIsThere
      <4>2. f[t \ {Max(t)}] \in X
        BY <1>3, <4>1 DEF FoldsUp
      <4>3. f[t] = step[<<f[t \ {Max(t)}], Max(t)>>]
        BY <1>3, <3>2 DEF FoldsUp
      <4> QED
        BY <1>2, <3>2, <4>1, <4>2, <4>3
    <3> QED
      BY <3>1, <3>2
  <2>2. f \in [SUBSET (1 .. n) -> X]
    BY <1>3 DEF FoldsUp
  <2> QED
    BY <2>1, <2>2
<1> DEFINE iter == CHOOSE g : g = Body(g)
<1>5. iter = Body(iter)
  BY <1>4
<1>6. Order(rows) = iter[1 .. n]
  BY <1>1, Zenon DEF Order, FoldLeft, MapThenFoldSet, Notes
<1> HIDE DEF iter
<1>7. \A t \in SUBSET (1 .. n) :
         iter[t] = IF t = {} THEN <<>> ELSE Notes(iter[t \ {Max(t)}], rows[Max(t)])
  BY <1>5
<1> DEFINE at == [k \in 0 .. n |-> iter[1 .. k]]
<1>8. at[0] = <<>> /\ at[n] = iter[1 .. n]
  <2>1. 0 \in 0 .. n /\ n \in 0 .. n
    BY ONLY <1>1
  <2>2. at[0] = iter[1 .. 0] /\ at[n] = iter[1 .. n]
    BY ONLY <2>1
  <2>3. iter[1 .. 0] = <<>>
    <3>1. 1 .. 0 = {} /\ {} \in SUBSET (1 .. n)
      BY SegmentIs
    <3>2. iter[{}] = <<>>
      BY <1>7, <3>1
    <3> QED
      BY <3>1, <3>2
  <2> QED
    BY <2>2, <2>3
<1>9. ASSUME NEW k \in 0 .. n - 1
      PROVE  at[k + 1] = Notes(at[k], rows[k + 1])
  <2>1. k \in Nat /\ k \in 0 .. n /\ k + 1 \in 0 .. n /\ 1 .. (k + 1) \in SUBSET (1 .. n)
    BY <1>1
  <2>2. iter[1 .. (k + 1)] = Notes(iter[1 .. k], rows[k + 1])
    <3>1. PICK t \in SUBSET (1 .. n) : t = 1 .. (k + 1)
      BY <2>1
    <3>2. t # {} /\ Max(t) = k + 1 /\ t \ {k + 1} = 1 .. k
      BY <2>1, <3>1, SegmentIs
    <3>3. iter[t] = Notes(iter[t \ {Max(t)}], rows[Max(t)])
      BY <1>7, <3>2
    <3> QED
      BY <3>1, <3>2, <3>3
  <2> QED
    BY <2>1, <2>2
<1> HIDE DEF at
<1> QED
  BY <1>6, <1>8, <1>9 DEF n

\* The rows into_summaries has after k of them: each server's current one.
CurrentOf(k) == {i \in 1 .. k : IsCurrent(i, k)}

\* Each server with a row worth keeping has one.
EachHasOne(k) ==
    \A i \in 1 .. k : Worthwhile(rows[i]) =>
        \E j \in CurrentOf(k) : rows[j].name = rows[i].name

LEMMA CurrentIs ==
    ASSUME NEW k, NEW i
    PROVE  i \in CurrentOf(k) <=>
              /\ i \in 1 .. k /\ Worthwhile(rows[i])
              /\ \/ /\ Marked(rows[i])
                    /\ \A j \in 1 .. k : rows[j].name = rows[i].name /\ Worthwhile(rows[j])
                                            /\ Marked(rows[j]) => i <= j
                 \/ \A j \in 1 .. k : rows[j].name = rows[i].name /\ Worthwhile(rows[j])
                                         => ~Marked(rows[j]) /\ j <= i
BY DEF CurrentOf, IsCurrent, SameServer

\* A row that is not worth keeping changes nothing.
LEMMA UselessRow ==
    ASSUME NEW k \in Nat, ~Worthwhile(rows[k + 1]), EachHasOne(k)
    PROVE  CurrentOf(k + 1) = CurrentOf(k) /\ EachHasOne(k + 1)
<1>1. \A j : j \in 1 .. k + 1 <=> j \in 1 .. k \/ j = k + 1
  BY ONLY k \in Nat
<1>2. ASSUME NEW i
      PROVE  i \in CurrentOf(k + 1) <=> i \in CurrentOf(k)
  BY <1>1, CurrentIs
<1>3. CurrentOf(k + 1) = CurrentOf(k)
  BY <1>2 DEF CurrentOf
<1>4. EachHasOne(k + 1)
  BY <1>1, <1>3 DEF EachHasOne
<1> QED
  BY <1>3, <1>4

\* Nor does one of a server whose current row is marked.
LEMMA LaterRow ==
    ASSUME NEW k \in Nat, Worthwhile(rows[k + 1]), EachHasOne(k),
           NEW c \in CurrentOf(k), rows[c].name = rows[k + 1].name, Marked(rows[c])
    PROVE  CurrentOf(k + 1) = CurrentOf(k) /\ EachHasOne(k + 1)
<1>1. \A j : j \in 1 .. k + 1 <=> j \in 1 .. k \/ j = k + 1
  BY ONLY k \in Nat
<1>2. c \in 1 .. k /\ Worthwhile(rows[c]) /\ c \in Nat /\ c < k + 1
  BY CurrentIs
<1>3. ~(k + 1 <= c) /\ ~(k + 1 \in 1 .. k)
  BY ONLY <1>2, k \in Nat
<1>4. k + 1 \notin CurrentOf(k + 1)
  BY <1>1, <1>2, <1>3, CurrentIs
<1>5. ASSUME NEW i \in 1 .. k
      PROVE  i \in CurrentOf(k + 1) <=> i \in CurrentOf(k)
  <2>1. i <= k + 1
    BY ONLY i \in 1 .. k, k \in Nat
  <2>2. CASE rows[i].name # rows[k + 1].name
    BY <1>1, <2>2, CurrentIs
  <2>3. CASE rows[i].name = rows[k + 1].name
    BY <1>1, <1>2, <2>1, <2>3, CurrentIs
  <2> QED
    BY <2>2, <2>3
<1>6. CurrentOf(k + 1) \subseteq 1 .. k + 1 /\ CurrentOf(k) \subseteq 1 .. k
  BY DEF CurrentOf
<1>7. CurrentOf(k + 1) = CurrentOf(k)
  BY <1>1, <1>3, <1>4, <1>5, <1>6
<1>8. EachHasOne(k + 1)
  BY <1>1, <1>7 DEF EachHasOne
<1> QED
  BY <1>7, <1>8

\* Any other takes the place of its server's.
LEMMA NewRow ==
    ASSUME NEW k \in Nat, Worthwhile(rows[k + 1]), EachHasOne(k),
           \A c \in CurrentOf(k) : rows[c].name = rows[k + 1].name => ~Marked(rows[c])
    PROVE  /\ CurrentOf(k + 1) =
                  {i \in CurrentOf(k) : rows[i].name # rows[k + 1].name} \cup {k + 1}
           /\ EachHasOne(k + 1)
<1>1. \A j : j \in 1 .. k + 1 <=> j \in 1 .. k \/ j = k + 1
  BY ONLY k \in Nat
<1>2. ~(k + 1 \in 1 .. k) /\ k + 1 <= k + 1 /\ \A j \in 1 .. k : j <= k + 1 /\ ~(k + 1 <= j)
  BY ONLY k \in Nat
<1>3. ASSUME NEW j \in 1 .. k, rows[j].name = rows[k + 1].name, Worthwhile(rows[j])
      PROVE  ~Marked(rows[j])
  <2>1. PICK c \in CurrentOf(k) : rows[c].name = rows[j].name
    BY <1>3 DEF EachHasOne
  <2>2. ~Marked(rows[c])
    BY <1>3, <2>1
  <2> QED
    BY <1>3, <2>1, <2>2, CurrentIs
<1>4. k + 1 \in CurrentOf(k + 1)
  BY <1>1, <1>2, <1>3, CurrentIs
<1>5. ASSUME NEW i \in 1 .. k
      PROVE  i \in CurrentOf(k + 1) <=> i \in CurrentOf(k) /\ rows[i].name # rows[k + 1].name
  <2>1. CASE rows[i].name # rows[k + 1].name
    BY <1>1, <2>1, CurrentIs
  <2>2. CASE rows[i].name = rows[k + 1].name
    BY <1>1, <1>2, <1>3, <2>2, CurrentIs
  <2> QED
    BY <2>1, <2>2
<1>6. CurrentOf(k + 1) \subseteq 1 .. k + 1 /\ CurrentOf(k) \subseteq 1 .. k
  BY DEF CurrentOf
<1>7. CurrentOf(k + 1) = {i \in CurrentOf(k) : rows[i].name # rows[k + 1].name} \cup {k + 1}
  BY <1>1, <1>2, <1>4, <1>5, <1>6
<1>8. ASSUME NEW i \in 1 .. k, Worthwhile(rows[i])
      PROVE  \E j \in CurrentOf(k + 1) : rows[j].name = rows[i].name
  <2>1. CASE rows[i].name = rows[k + 1].name
    BY <1>4, <2>1
  <2>2. CASE rows[i].name # rows[k + 1].name
    <3>1. PICK j \in CurrentOf(k) : rows[j].name = rows[i].name
      BY <1>8 DEF EachHasOne
    <3> QED
      BY <1>7, <2>2, <3>1
  <2> QED
    BY <2>1, <2>2
<1>9. EachHasOne(k + 1)
  BY <1>1, <1>4, <1>8 DEF EachHasOne
<1> QED
  BY <1>7, <1>9

ValuesAt(S) == {rows[i] : i \in S}

LEMMA TakesCurrent ==
    ASSUME NEW k \in Nat, EachHasOne(k)
    PROVE  /\ Takes(ValuesAt(CurrentOf(k)), rows[k + 1]) = ValuesAt(CurrentOf(k + 1))
           /\ EachHasOne(k + 1)
<1> DEFINE v == rows[k + 1]
<1> DEFINE C == ValuesAt(CurrentOf(k))
<1>1. CASE ~Worthwhile(v)
  BY <1>1, UselessRow DEF Takes
<1>2. CASE Worthwhile(v) /\ \E c \in C : c.name = v.name /\ KeepsCurrent(c)
  <2>1. Takes(C, v) = C
    BY <1>2 DEF Takes
  <2>2. PICK c \in CurrentOf(k) : rows[c].name = v.name /\ Marked(rows[c])
    BY <1>2 DEF ValuesAt, KeepsCurrent, Marked
  <2> QED
    BY <1>2, <2>1, <2>2, LaterRow
<1>3. CASE Worthwhile(v) /\ ~\E c \in C : c.name = v.name /\ KeepsCurrent(c)
  <2>1. Takes(C, v) = {c \in C : c.name # v.name} \cup {v}
    BY <1>3 DEF Takes
  <2>2. \A c \in CurrentOf(k) : rows[c].name = v.name => ~Marked(rows[c])
    BY <1>3 DEF ValuesAt, KeepsCurrent, Marked
  <2>3. CurrentOf(k + 1) = {i \in CurrentOf(k) : rows[i].name # v.name} \cup {k + 1}
        /\ EachHasOne(k + 1)
    BY <1>3, <2>2, NewRow
  <2>4. ValuesAt(CurrentOf(k + 1)) = {c \in C : c.name # v.name} \cup {v}
    BY <2>3 DEF ValuesAt
  <2> QED
    BY <2>1, <2>3, <2>4
<1> QED
  BY <1>1, <1>2, <1>3

LEMMA ChosenIs ==
    ASSUME rows \in Seq(Published)
    PROVE  Chosen(rows) = ValuesAt(CurrentOf(Len(rows))) /\ EachHasOne(Len(rows))
<1>1. PICK at : /\ at[0] = {} /\ Chosen(rows) = at[Len(rows)]
                /\ \A k \in 0 .. Len(rows) - 1 : at[k + 1] = Takes(at[k], rows[k + 1])
  BY ChosenSteps
<1>2. Len(rows) \in Nat
  OBVIOUS
<1> DEFINE S == {k \in Nat : k <= Len(rows) => at[k] = ValuesAt(CurrentOf(k)) /\ EachHasOne(k)}
<1>3. 0 \in S
  <2>1. 1 .. 0 = {}
    OBVIOUS
  <2>2. CurrentOf(0) = {} /\ EachHasOne(0)
    BY <2>1 DEF CurrentOf, EachHasOne
  <2>3. ValuesAt({}) = {}
    BY DEF ValuesAt
  <2> QED
    BY <1>1, <2>2, <2>3
<1>4. ASSUME NEW k \in Nat, k \in S
      PROVE  k + 1 \in S
  <2>1. SUFFICES ASSUME k + 1 <= Len(rows)
                 PROVE  at[k + 1] = ValuesAt(CurrentOf(k + 1)) /\ EachHasOne(k + 1)
    OBVIOUS
  <2>2. k <= Len(rows) /\ k \in 0 .. Len(rows) - 1
    BY ONLY <1>2, <2>1, k \in Nat
  <2>3. at[k] = ValuesAt(CurrentOf(k)) /\ EachHasOne(k)
    BY <1>4, <2>2
  <2> QED
    BY <1>1, <2>2, <2>3, TakesCurrent
<1> HIDE DEF S
<1>5. Nat \subseteq S
  BY ONLY <1>3, <1>4, Induction
<1>6. Len(rows) \in S
  BY <1>2, <1>5
<1> QED
  BY <1>1, <1>2, <1>6 DEF S

\* Two current rows of one server are one.
LEMMA CurrentIsOne ==
    ASSUME NEW k \in Nat, NEW i \in CurrentOf(k), NEW j \in CurrentOf(k),
           rows[i].name = rows[j].name
    PROVE  i = j
<1>1. i \in 1 .. k /\ j \in 1 .. k /\ i \in Nat /\ j \in Nat
  BY DEF CurrentOf
<1>2. i <= j /\ j <= i
  BY <1>1, CurrentIs
<1> QED
  BY <1>1, <1>2

\* What holds of the order after k rows: its names are those of rows worth keeping,
\* each of a row before which no later name has one.
Precedes(q, m, i) ==
    \A j \in i + 1 .. Len(q), l \in 1 .. m : rows[l].name = q[j] => ~Worthwhile(rows[l])

OrderFits(q, k) ==
    /\ q \in Seq({v.name : v \in Published})
    /\ \A i \in 1 .. Len(q) :
          \E m \in 1 .. k : rows[m].name = q[i] /\ Worthwhile(rows[m]) /\ Precedes(q, m, i)
    /\ \A m \in 1 .. k : Worthwhile(rows[m]) => \E i \in 1 .. Len(q) : q[i] = rows[m].name

LEMMA NotesFit ==
    ASSUME NEW k \in Nat, NEW q, OrderFits(q, k), rows[k + 1] \in Published
    PROVE  OrderFits(Notes(q, rows[k + 1]), k + 1)
<1> DEFINE v == rows[k + 1]
<1> DEFINE Names == {w.name : w \in Published}
<1>0. q \in Seq(Names) /\ Len(q) \in Nat /\ DOMAIN q = 1 .. Len(q) /\ v.name \in Names
  BY DEF OrderFits
<1>1. \A m : m \in 1 .. k + 1 <=> m \in 1 .. k \/ m = k + 1
  BY ONLY k \in Nat
<1>2. CASE Notes(q, v) = q
  <2>1. Worthwhile(v) => \E i \in 1 .. Len(q) : q[i] = v.name
    <3>1. SUFFICES ASSUME Worthwhile(v), v.name \notin {q[i] : i \in DOMAIN q} PROVE FALSE
      BY <1>0
    <3>2. q = Append(q, v.name)
      BY <1>2, <3>1 DEF Notes
    <3>3. Len(Append(q, v.name)) = Len(q) + 1
      BY <1>0, AppendProperties
    <3>4. Len(Append(q, v.name)) = Len(q)
      BY ONLY <3>2
    <3>5. PICK n \in Nat : n = Len(q)
      BY <1>0
    <3>6. n = n + 1
      BY ONLY <3>3, <3>4, <3>5
    <3> QED
      BY ONLY <3>6, n \in Nat
  <2>2. OrderFits(q, k + 1)
    BY <1>1, <2>1 DEF OrderFits
  <2> QED
    BY <1>2, <2>2
<1>3. CASE Notes(q, v) # q
  <2>1. Worthwhile(v) /\ v.name \notin {q[i] : i \in DOMAIN q} /\ Notes(q, v) = Append(q, v.name)
    BY <1>3 DEF Notes
  <2>2. PICK p : p = Append(q, v.name)
    OBVIOUS
  <2>3. /\ p \in Seq(Names) /\ Len(p) = Len(q) + 1 /\ p[Len(q) + 1] = v.name
        /\ \A i \in 1 .. Len(q) : p[i] = q[i]
    BY <1>0, <2>2, AppendProperties
  <2>4. \A i : i \in 1 .. Len(p) <=> i \in 1 .. Len(q) \/ i = Len(q) + 1
    BY ONLY <1>0, <2>3
  <2>5. ASSUME NEW l \in 1 .. k, rows[l].name = v.name
        PROVE  ~Worthwhile(rows[l])
    BY <1>0, <2>1, <2>5 DEF OrderFits
  <2>6. ASSUME NEW i \in 1 .. Len(q)
        PROVE  \E m \in 1 .. k + 1 :
                   rows[m].name = p[i] /\ Worthwhile(rows[m]) /\ Precedes(p, m, i)
    <3>1. PICK m \in 1 .. k : rows[m].name = q[i] /\ Worthwhile(rows[m]) /\ Precedes(q, m, i)
      BY DEF OrderFits
    <3>2. ASSUME NEW j \in i + 1 .. Len(p), NEW l \in 1 .. m, rows[l].name = p[j]
          PROVE  ~Worthwhile(rows[l])
      <4>1. l \in 1 .. k
        BY ONLY k \in Nat, m \in 1 .. k, l \in 1 .. m
      <4>2. j \in i + 1 .. Len(q) \/ j = Len(q) + 1
        <5>1. PICK n \in Nat : n = Len(q)
          BY <1>0
        <5>2. i \in 1 .. n /\ j \in i + 1 .. n + 1
          BY <2>3, <3>2, <5>1
        <5>3. j \in i + 1 .. n \/ j = n + 1
          BY ONLY <5>2, n \in Nat
        <5> QED
          BY <5>1, <5>3
      <4>3. CASE j \in i + 1 .. Len(q)
        <5>1. j \in 1 .. Len(q)
          BY <1>0, <4>3
        <5>2. p[j] = q[j]
          BY <2>3, <5>1
        <5> QED
          BY <3>1, <3>2, <4>3, <5>2 DEF Precedes
      <4>4. CASE j = Len(q) + 1
        BY <2>3, <2>5, <3>2, <4>1, <4>4
      <4> QED
        BY <4>2, <4>3, <4>4
    <3>3. Precedes(p, m, i)
      BY <3>2 DEF Precedes
    <3> QED
      BY <1>1, <2>3, <3>1, <3>3
  <2>7. Precedes(p, k + 1, Len(q) + 1)
    <3>1. (Len(q) + 1) + 1 .. Len(p) = {}
      BY <1>0, <2>3
    <3> QED
      BY <3>1 DEF Precedes
  <2>8. \A i \in 1 .. Len(p) : \E m \in 1 .. k + 1 :
            rows[m].name = p[i] /\ Worthwhile(rows[m]) /\ Precedes(p, m, i)
    BY <1>1, <2>1, <2>3, <2>4, <2>6, <2>7
  <2>9. ASSUME NEW m \in 1 .. k + 1, Worthwhile(rows[m])
        PROVE  \E i \in 1 .. Len(p) : p[i] = rows[m].name
    <3>1. CASE m \in 1 .. k
      <4>1. PICK i \in 1 .. Len(q) : q[i] = rows[m].name
        BY <2>9, <3>1 DEF OrderFits
      <4> QED
        BY <2>3, <2>4, <4>1
    <3>2. CASE m = k + 1
      BY <2>3, <2>4, <3>2
    <3> QED
      BY <1>1, <3>1, <3>2
  <2>10. OrderFits(p, k + 1)
    BY <2>3, <2>8, <2>9 DEF OrderFits
  <2>11. p = Notes(q, v)
    BY <2>1, <2>2
  <2> QED
    BY <2>10, <2>11
<1> QED
  BY <1>2, <1>3

LEMMA OrderIsFit ==
    ASSUME rows \in Seq(Published)
    PROVE  OrderFits(Order(rows), Len(rows))
<1>1. PICK at : /\ at[0] = <<>> /\ Order(rows) = at[Len(rows)]
                /\ \A k \in 0 .. Len(rows) - 1 : at[k + 1] = Notes(at[k], rows[k + 1])
  BY OrderSteps
<1>2. Len(rows) \in Nat
  OBVIOUS
<1> DEFINE S == {k \in Nat : k <= Len(rows) => OrderFits(at[k], k)}
<1>3. 0 \in S
  <2>1. 1 .. 0 = {} /\ Len(<<>>) = 0 /\ <<>> \in Seq({v.name : v \in Published})
    OBVIOUS
  <2>2. OrderFits(<<>>, 0)
    BY <2>1 DEF OrderFits
  <2> QED
    BY <1>1, <2>2
<1>4. ASSUME NEW k \in Nat, k \in S
      PROVE  k + 1 \in S
  <2>1. SUFFICES ASSUME k + 1 <= Len(rows)
                 PROVE  OrderFits(at[k + 1], k + 1)
    OBVIOUS
  <2>2. k <= Len(rows) /\ k \in 0 .. Len(rows) - 1 /\ k + 1 \in 1 .. Len(rows)
    BY ONLY <1>2, <2>1, k \in Nat
  <2>3. OrderFits(at[k], k) /\ rows[k + 1] \in Published
    BY <1>4, <2>2
  <2> QED
    BY <1>1, <2>2, <2>3, NotesFit
<1> HIDE DEF S
<1>5. Nat \subseteq S
  BY ONLY <1>3, <1>4, Induction
<1>6. Len(rows) \in S
  BY <1>2, <1>5
<1> QED
  BY <1>1, <1>2, <1>6 DEF S

LEMMA OneRowHolds ==
    ASSUME rows \in Seq(Published)
    PROVE  OneRowPerServer /\ OrderIsOfFirstRows
<1>1. /\ Chosen(rows) = ValuesAt(CurrentOf(Len(rows))) /\ EachHasOne(Len(rows))
      /\ OrderFits(Order(rows), Len(rows)) /\ Len(rows) \in Nat
      /\ DOMAIN rows = 1 .. Len(rows)
  BY ChosenIs, OrderIsFit
<1>2. PICK q : q = Order(rows)
  OBVIOUS
<1>3. /\ DOMAIN q = 1 .. Len(q) /\ Len(q) \in Nat /\ OrderFits(q, Len(rows))
  BY <1>1, <1>2 DEF OrderFits
<1>4. ASSUME NEW v \in Chosen(rows), NEW w \in Chosen(rows), v.name = w.name
      PROVE  v = w
  BY <1>1, <1>4, CurrentIsOne DEF ValuesAt
<1>5. {v.name : v \in Chosen(rows)} = {q[i] : i \in DOMAIN q}
  <2>1. ASSUME NEW v \in Chosen(rows)
        PROVE  \E i \in DOMAIN q : q[i] = v.name
    <3>1. PICK m \in CurrentOf(Len(rows)) : v = rows[m]
      BY <1>1 DEF ValuesAt
    <3>2. m \in 1 .. Len(rows) /\ Worthwhile(rows[m])
      BY CurrentIs
    <3> QED
      BY <1>3, <3>1, <3>2 DEF OrderFits
  <2>2. ASSUME NEW i \in DOMAIN q
        PROVE  \E v \in Chosen(rows) : v.name = q[i]
    <3>1. PICK m \in 1 .. Len(rows) : rows[m].name = q[i] /\ Worthwhile(rows[m])
      BY <1>3 DEF OrderFits
    <3>2. PICK c \in CurrentOf(Len(rows)) : rows[c].name = rows[m].name
      BY <1>1, <3>1 DEF EachHasOne
    <3> QED
      BY <1>1, <3>1, <3>2 DEF ValuesAt
  <2> QED
    BY <2>1, <2>2
<1>6. Chosen(rows) = {rows[i] : i \in {j \in DOMAIN rows : IsCurrent(j, Len(rows))}}
  BY <1>1 DEF ValuesAt, CurrentOf
<1>7. ASSUME NEW i \in DOMAIN q, NEW j \in DOMAIN q, i < j
      PROVE  \E k \in DOMAIN rows :
                /\ rows[k].name = q[i] /\ Worthwhile(rows[k])
                /\ \A m \in 1 .. k : rows[m].name = q[j] => ~Worthwhile(rows[m])
  <2>1. PICK k \in 1 .. Len(rows) :
           rows[k].name = q[i] /\ Worthwhile(rows[k]) /\ Precedes(q, k, i)
    BY <1>3 DEF OrderFits
  <2>2. j \in i + 1 .. Len(q)
    BY <1>3, <1>7
  <2> QED
    BY <1>1, <2>1, <2>2 DEF Precedes
<1>8. OneRowPerServer
  <2>1. {v.name : v \in Chosen(rows)} = {Order(rows)[i] : i \in DOMAIN Order(rows)}
    BY ONLY <1>2, <1>5
  <2>2. \A v, w \in Chosen(rows) : v.name = w.name => v = w
    BY ONLY <1>4
  <2> QED
    BY ONLY <1>6, <2>1, <2>2 DEF OneRowPerServer
<1>9. OrderIsOfFirstRows
  <2>1. \A i, j \in DOMAIN q : i < j => \E k \in DOMAIN rows :
                /\ rows[k].name = q[i] /\ Worthwhile(rows[k])
                /\ \A m \in 1 .. k : rows[m].name = q[j] => ~Worthwhile(rows[m])
    BY ONLY <1>7
  <2> QED
    BY ONLY <1>2, <2>1 DEF OrderIsOfFirstRows
<1> QED
  BY <1>8, <1>9

\* A connection's rank, and the form it asks for.
LEMMA RankIs ==
    ASSUME NEW c
    PROVE  Rank(c) \in 0 .. 3 /\ (Hosted(c) <=> Rank(c) < 2)
BY DEF Rank

\* pick_connection takes the first of the lowest rank there is.
LEMMA PickedIs ==
    ASSUME NEW cs, NEW n \in Nat, n > 0, DOMAIN cs = 1 .. n
    PROVE  /\ Picked(cs) \in 1 .. n
           /\ \A i \in 1 .. n : Rank(cs[Picked(cs)]) <= Rank(cs[i])
           /\ \A i \in 1 .. n : Rank(cs[i]) = Rank(cs[Picked(cs)]) => Picked(cs) <= i
<1> DEFINE Pass(rank) == {i \in DOMAIN cs : Rank(cs[i]) = rank}
<1> DEFINE FirstOf(S) == CHOOSE i \in S : \A j \in S : i <= j
<1> DEFINE passes == {r \in 0 .. 3 : Pass(r) # {}}
<1> DEFINE least == CHOOSE r \in passes : \A q \in passes : r <= q
<1>1. \A i \in 1 .. n : Rank(cs[i]) \in passes /\ i \in Pass(Rank(cs[i]))
  BY RankIs
<1>2. passes # {} /\ passes \subseteq 0 .. 3
  <2>1. 1 \in 1 .. n
    BY ONLY n \in Nat, n > 0
  <2>2. passes # {}
    BY <1>1, <2>1
  <2> QED
    BY <2>2
<1>3. \A r \in passes : Pass(r) # {}
  OBVIOUS
<1>4. Picked(cs) = FirstOf(Pass(least))
  BY DEF Picked
<1> HIDE DEF passes
<1>5. \E r \in passes : \A q \in passes : r <= q
  <2>1. \A q \in passes : q = 0 \/ q = 1 \/ q = 2 \/ q = 3
    BY ONLY <1>2
  <2>2. CASE 0 \in passes
    BY ONLY <2>1, <2>2
  <2>3. CASE 0 \notin passes /\ 1 \in passes
    BY ONLY <2>1, <2>3
  <2>4. CASE 0 \notin passes /\ 1 \notin passes /\ 2 \in passes
    BY ONLY <2>1, <2>4
  <2>5. CASE 0 \notin passes /\ 1 \notin passes /\ 2 \notin passes
    <3>1. PICK x : x \in passes
      BY <1>2
    <3>2. \A q \in passes : q = 3
      BY ONLY <2>1, <2>5
    <3>3. 3 <= 3
      OBVIOUS
    <3> QED
      BY ONLY <3>1, <3>2, <3>3
  <2> QED
    BY <2>2, <2>3, <2>4, <2>5
<1>6. least \in passes /\ \A q \in passes : least <= q
  BY <1>5
<1> HIDE DEF least
<1>7. Pass(least) # {} /\ Pass(least) \in SUBSET (1 .. n)
  BY <1>3, <1>6
<1>8. \E i \in Pass(least) : \A j \in Pass(least) : i <= j
  <2>1. PICK S \in SUBSET (1 .. n) : S = Pass(least)
    BY <1>7
  <2>2. S # {}
    BY <1>7, <2>1
  <2>3. Min(S) \in S /\ \A j \in S : Min(S) <= j
    BY ONLY <2>2, MinIsThere, S \in SUBSET (1 .. n), n \in Nat
  <2> QED
    BY <2>1, <2>3
<1>9. /\ FirstOf(Pass(least)) \in Pass(least)
      /\ \A j \in Pass(least) : FirstOf(Pass(least)) <= j
  BY <1>8
<1> HIDE DEF FirstOf
<1>10. Rank(cs[Picked(cs)]) = least /\ Picked(cs) \in 1 .. n
  BY <1>4, <1>9
<1> QED
  BY <1>1, <1>4, <1>6, <1>9, <1>10

\* An endpoint's connection is hosted and a package's is not; no form asks for an
\* input without a name.
LEMMA ConnectionsAre ==
    ASSUME PublishedAssumption, NEW v \in Published, Installable(v)
    PROVE  \E r \in Nat, n \in Nat :
              /\ n > 0 /\ r <= n /\ DOMAIN Connections(v) = 1 .. n
              /\ (r > 0 <=> v.remotes # <<>>)
              /\ \A i \in 1 .. n : Hosted(Connections(v)[i]) <=> i <= r
              /\ \A i \in 1 .. n : \A x \in Connections(v)[i].inputs : x.name # Unnamed
<1> DEFINE Remote(e) == [type |-> "http", published |-> e.published, url |-> e.url,
                         inputs |-> Named(e.headers), launch |-> <<>>]
<1> DEFINE Package(e) == [type |-> "stdio", published |-> e.published, url |-> "none",
                          inputs |-> Named(e.env), launch |-> ExampleConfig(e)]
<1> DEFINE a == [i \in DOMAIN v.remotes |-> Remote(v.remotes[i])]
<1> DEFINE b == [i \in DOMAIN v.packages |-> Package(v.packages[i])]
<1>1. PICK r \in Nat, p \in Nat :
         /\ DOMAIN v.remotes = 1 .. r /\ DOMAIN v.packages = 1 .. p
         /\ (r > 0 <=> v.remotes # <<>>) /\ (p > 0 <=> v.packages # <<>>)
  <2>1. v.remotes \in Seq(ToSet(v.remotes)) /\ v.packages \in Seq(ToSet(v.packages))
    BY DEF PublishedAssumption
  <2>2. ASSUME NEW s, NEW T, s \in Seq(T)
        PROVE  Len(s) \in Nat /\ DOMAIN s = 1 .. Len(s) /\ (Len(s) > 0 <=> s # <<>>)
    BY <2>2
  <2> QED
    BY <2>1, <2>2
<1>2. r + p > 0
  BY <1>1 DEF Installable
<1> DEFINE All == {Remote(v.remotes[i]) : i \in 1 .. r} \cup {Package(v.packages[i]) : i \in 1 .. p}
<1>3. a \in [1 .. r -> All] /\ b \in [1 .. p -> All]
  BY <1>1
<1>4. Connections(v) = a \o b
  BY DEF Connections
<1>5. /\ \A i \in 1 .. r : a[i] = Remote(v.remotes[i])
      /\ \A i \in 1 .. p : b[i] = Package(v.packages[i])
  BY <1>1
<1>6. /\ \A e : Hosted(Remote(e)) /\ ~Hosted(Package(e))
      /\ \A e : \A x \in Remote(e).inputs : x.name # Unnamed
      /\ \A e : \A x \in Package(e).inputs : x.name # Unnamed
  BY DEF Hosted, Named
<1> HIDE DEF Remote, Package, a, b, All
<1>7. a \in Seq(All) /\ b \in Seq(All) /\ Len(a) = r /\ Len(b) = p
  BY <1>3
<1>8. /\ a \o b \in Seq(All) /\ Len(a \o b) = r + p
      /\ \A i \in 1 .. r : (a \o b)[i] = a[i]
      /\ \A i \in 1 .. p : (a \o b)[r + i] = b[i]
  <2>1. PICK s \in Seq(All), t \in Seq(All) : s = a /\ t = b
    BY <1>7
  <2>2. /\ s \o t \in Seq(All) /\ Len(s \o t) = Len(s) + Len(t)
        /\ \A i \in 1 .. Len(s) : (s \o t)[i] = s[i]
        /\ \A i \in 1 .. Len(t) : (s \o t)[Len(s) + i] = t[i]
    BY ONLY JoinIs, s \in Seq(All), t \in Seq(All)
  <2>3. Len(s) = r /\ Len(t) = p
    BY ONLY <1>7, <2>1
  <2> QED
    BY ONLY <2>1, <2>2, <2>3
<1> DEFINE n == r + p
<1>9. \A i \in 1 .. n : (i \in 1 .. r /\ i <= r) \/ (i - r \in 1 .. p /\ r + (i - r) = i /\ ~(i <= r))
  BY ONLY r \in Nat, p \in Nat
<1>10. DOMAIN (a \o b) = 1 .. n
  BY <1>8
<1>11. ASSUME NEW i \in 1 .. n
       PROVE  /\ Hosted((a \o b)[i]) <=> i <= r
              /\ \A x \in (a \o b)[i].inputs : x.name # Unnamed
  <2>1. CASE i \in 1 .. r
    <3>1. (a \o b)[i] = Remote(v.remotes[i]) /\ i <= r
      BY <1>5, <1>8, <2>1
    <3> QED
      BY <1>6, <3>1
  <2>2. CASE i \notin 1 .. r
    <3>1. PICK j \in 1 .. p : r + j = i /\ ~(i <= r)
      BY <1>9, <2>2
    <3>2. (a \o b)[i] = Package(v.packages[j])
      BY <1>5, <1>8, <3>1
    <3> QED
      BY <1>6, <3>1, <3>2
  <2> QED
    BY <2>1, <2>2
<1>12. n \in Nat /\ n > 0 /\ r <= n
  BY ONLY <1>2, r \in Nat, p \in Nat
<1> HIDE DEF n
<1> QED
  BY <1>1, <1>4, <1>10, <1>11, <1>12

LEMMA AsksHolds ==
    ASSUME PublishedAssumption, rows \in Seq(Published)
    PROVE  AsksForWhatItUses
<1> SUFFICES ASSUME NEW v \in Chosen(rows)
             PROVE  LET cs == Connections(v)  picked == cs[Picked(cs)]
                    IN /\ RequiredKeys(cs) \subseteq {i.name : i \in picked.inputs} \ {Unnamed}
                       /\ (v.remotes # <<>>) = Hosted(picked)
                       /\ \A i \in DOMAIN cs : Rank(cs[i]) = Rank(picked) => Picked(cs) <= i
  BY DEF AsksForWhatItUses
<1>1. v \in Published /\ Installable(v)
  <2>1. PICK m \in CurrentOf(Len(rows)) : v = rows[m]
    BY ChosenIs DEF ValuesAt
  <2>2. m \in 1 .. Len(rows) /\ Worthwhile(rows[m])
    BY CurrentIs
  <2> QED
    BY <2>1, <2>2 DEF Worthwhile
<1>2. PICK cs : cs = Connections(v)
  OBVIOUS
<1>3. PICK r \in Nat, n \in Nat :
         /\ n > 0 /\ r <= n /\ DOMAIN cs = 1 .. n /\ (r > 0 <=> v.remotes # <<>>)
         /\ \A i \in 1 .. n : Hosted(cs[i]) <=> i <= r
         /\ \A i \in 1 .. n : \A x \in cs[i].inputs : x.name # Unnamed
  BY <1>1, <1>2, ConnectionsAre
<1>4. PICK p : p = Picked(cs)
  OBVIOUS
<1>5. /\ p \in 1 .. n
      /\ \A i \in 1 .. n : Rank(cs[p]) <= Rank(cs[i])
      /\ \A i \in 1 .. n : Rank(cs[i]) = Rank(cs[p]) => p <= i
  BY <1>3, <1>4, PickedIs
<1>6. v.remotes # <<>> <=> Hosted(cs[p])
  <2>1. CASE r > 0
    <3>1. 1 \in 1 .. n /\ 1 <= r
      BY ONLY <1>3, <2>1, r \in Nat, n \in Nat
    <3>2. Rank(cs[1]) < 2 /\ Rank(cs[p]) <= Rank(cs[1])
      BY <1>3, <1>5, <3>1, RankIs
    <3>3. Rank(cs[1]) \in 0 .. 3 /\ Rank(cs[p]) \in 0 .. 3
      BY RankIs
    <3>4. Rank(cs[p]) < 2
      BY ONLY <3>2, <3>3
    <3> QED
      BY <1>3, <2>1, <3>4, RankIs
  <2>2. CASE ~(r > 0)
    <3>1. ~(p <= r)
      BY ONLY <1>5, <2>2, r \in Nat, n \in Nat
    <3> QED
      BY <1>3, <1>5, <2>2, <3>1
  <2> QED
    BY <2>1, <2>2
<1>7. RequiredKeys(cs) \subseteq {i.name : i \in cs[p].inputs} \ {Unnamed}
  BY <1>3, <1>4, <1>5 DEF RequiredKeys
<1>8. (v.remotes # <<>>) = Hosted(cs[p])
  <2>1. Hosted(cs[p]) \in BOOLEAN /\ (v.remotes # <<>>) \in BOOLEAN
    BY DEF Hosted
  <2> QED
    BY ONLY <1>6, <2>1
<1>9. \A i \in DOMAIN cs : Rank(cs[i]) = Rank(cs[p]) => p <= i
  BY <1>3, <1>5
<1> QED
  BY ONLY <1>2, <1>4, <1>7, <1>8, <1>9, Zenon

RowsAreListed == rows \in Seq(Published)

\* Whatever versions are published and in whichever order they are listed: a listing
\* has one row for each server that can be installed, the first marked one or else the
\* last, in the order of the servers' first rows; and an install's form asks for what
\* the connection it picks needs, a hosted one if there is any.
\* (registry/sources/official/types.rs, registry/ops/install.rs)
THEOREM ListingsAreOfOneRowEach == ListingSpec => []ListingInv
<1>1. ListingInit => RowsAreListed
  BY DEF ListingInit, RowsAreListed
<1>2. RowsAreListed /\ [ListingNext]_rows => RowsAreListed'
  <2>1. ASSUME RowsAreListed, [ListingNext]_rows
        PROVE  rows' \in Seq(Published)
    BY <2>1 DEF ListingNext, ListVersion, RowsAreListed
  <2> QED
    BY <2>1 DEF RowsAreListed
<1>3. RowsAreListed => ListingInv
  BY OneRowHolds, AsksHolds, PublishedAssumption DEF ListingInv, RowsAreListed
<1> QED
  BY <1>1, <1>2, <1>3, PTL DEF ListingSpec

-----------------------------------------------------------------------------
(* SseReader: for any replies and bodies, however they are cut into chunks.  *)

EventKinds == SseReplies \cup {"none", "notice", "broken"}

ParserStates == [events : Seq(EventKinds), named : BOOLEAN, data : Seq(DataLines)]

LEMMA JoinedKind ==
    ASSUME NEW data \in Seq(DataLines)
    PROVE  Joined(data) \in EventKinds
BY DEF Joined, EventKinds, SseReplies

LEMMA FlushIs ==
    ASSUME NEW p \in ParserStates
    PROVE  /\ FlushInto(p) \in ParserStates
           /\ p.data = <<>> /\ ~p.named => FlushInto(p) = p
           /\ ~(p.data = <<>> /\ ~p.named) =>
                 /\ FlushInto(p).events = Append(p.events, Joined(p.data))
                 /\ FlushInto(p).named = FALSE /\ FlushInto(p).data = <<>>
<1>1. p.events \in Seq(EventKinds) /\ p.data \in Seq(DataLines) /\ p.named \in BOOLEAN
  BY DEF ParserStates
<1>2. CASE p.data = <<>> /\ ~p.named
  BY <1>2 DEF FlushInto
<1>3. CASE ~(p.data = <<>> /\ ~p.named)
  <2> DEFINE evs == Append(p.events, Joined(p.data))
  <2>1. evs \in Seq(EventKinds)
    BY <1>1, JoinedKind
  <2>2. FlushInto(p) = [events |-> evs, named |-> FALSE, data |-> <<>>]
    BY <1>3 DEF FlushInto, Empty
  <2> HIDE DEF evs
  <2>3. <<>> \in Seq(DataLines)
    OBVIOUS
  <2>4. FlushInto(p) \in ParserStates
    BY <2>1, <2>2, <2>3 DEF ParserStates
  <2> QED
    BY <1>3, <2>2, <2>4 DEF evs
<1> QED
  BY <1>2, <1>3

LEMMA OnLineIs ==
    ASSUME RepliesAssumption, NEW p \in ParserStates, NEW line \in Lines
    PROVE  /\ OnLine(p, line) \in ParserStates
           /\ line = "blank" => OnLine(p, line) = FlushInto(p)
           /\ line = "comment" => OnLine(p, line) = p
           /\ line = "field" => OnLine(p, line) = [p EXCEPT !.named = TRUE]
           /\ line \in DataLines => OnLine(p, line) = [p EXCEPT !.data = Append(p.data, line)]
           /\ line \in DataLines => line \notin {"blank", "comment", "field"}
<1>1. line \in DataLines => line \notin {"blank", "comment", "field"}
  BY DEF RepliesAssumption, DataLines
<1>2. line \in DataLines \/ line \in {"blank", "comment", "field"}
  BY DEF Lines
<1>3. CASE line = "blank"
  BY <1>1, <1>3, FlushIs DEF OnLine
<1>4. CASE line = "comment"
  BY <1>1, <1>4 DEF OnLine
<1>5. CASE line = "field"
  <2>1. OnLine(p, line) = [p EXCEPT !.named = TRUE]
    BY <1>5 DEF OnLine
  <2>2. [p EXCEPT !.named = TRUE] \in ParserStates
    BY DEF ParserStates
  <2> QED
    BY <1>1, <1>5, <2>1, <2>2
<1>6. CASE line \in DataLines
  <2>1. OnLine(p, line) = [p EXCEPT !.data = Append(p.data, line)]
    BY <1>1, <1>6 DEF OnLine
  <2>2. [p EXCEPT !.data = Append(p.data, line)] \in ParserStates
    <3>1. Append(p.data, line) \in Seq(DataLines)
      BY <1>6 DEF ParserStates
    <3> QED
      BY <3>1 DEF ParserStates
  <2> QED
    BY <1>1, <1>6, <2>1, <2>2
<1> QED
  BY <1>2, <1>3, <1>4, <1>5, <1>6

LEMMA EmptyIs == Empty \in ParserStates /\ Empty.data = <<>> /\ ~Empty.named /\ Empty.events = <<>>
<1>1. <<>> \in Seq(EventKinds) /\ <<>> \in Seq(DataLines)
  OBVIOUS
<1> QED
  BY <1>1 DEF Empty, ParserStates

\* What the parser has after each line.
LEMMA ParseSteps ==
    ASSUME RepliesAssumption, NEW lines \in Seq(Lines)
    PROVE  \E at : /\ at[0] = Empty
                   /\ Events(lines) = FlushInto(at[Len(lines)]).events
                   /\ \A k \in 0 .. Len(lines) - 1 : at[k + 1] = OnLine(at[k], lines[k + 1])
<1> DEFINE n == Len(lines)
<1> DEFINE step == [p \in ParserStates \X (1 .. n) |-> OnLine(p[1], lines[p[2]])]
<1> DEFINE Body(f) == [t \in SUBSET (1 .. n) |->
               IF t = {} THEN Empty ELSE OnLine(f[t \ {Max(t)}], lines[Max(t)])]
<1>1. n \in Nat /\ DOMAIN lines = 1 .. n /\ \A i \in 1 .. n : lines[i] \in Lines
  OBVIOUS
<1>2. step \in StepsOver(ParserStates, n)
      /\ \A p \in ParserStates, i \in 1 .. n : step[<<p, i>>] = OnLine(p, lines[i])
  <2>1. ASSUME NEW p \in ParserStates \X (1 .. n)
        PROVE  OnLine(p[1], lines[p[2]]) \in ParserStates
    BY <1>1, OnLineIs
  <2> QED
    BY <2>1 DEF StepsOver
<1> HIDE DEF n, step
<1>3. PICK f : FoldsUp(f, ParserStates, n, Empty, step)
  BY ONLY <1>1, <1>2, EmptyIs, FoldIsThere
<1>4. f = Body(f)
  <2>1. ASSUME NEW t \in SUBSET (1 .. n)
        PROVE  f[t] = IF t = {} THEN Empty ELSE OnLine(f[t \ {Max(t)}], lines[Max(t)])
    <3>1. CASE t = {}
      BY <1>3, <3>1 DEF FoldsUp
    <3>2. CASE t # {}
      <4>1. t \ {Max(t)} \in SUBSET (1 .. n) /\ Max(t) \in 1 .. n
        BY <1>1, <3>2, MaxIsThere
      <4>2. f[t \ {Max(t)}] \in ParserStates
        BY <1>3, <4>1 DEF FoldsUp
      <4>3. f[t] = step[<<f[t \ {Max(t)}], Max(t)>>]
        BY <1>3, <3>2 DEF FoldsUp
      <4> QED
        BY <1>2, <3>2, <4>1, <4>2, <4>3
    <3> QED
      BY <3>1, <3>2
  <2>2. f \in [SUBSET (1 .. n) -> ParserStates]
    BY <1>3 DEF FoldsUp
  <2> QED
    BY <2>1, <2>2
<1> DEFINE iter == CHOOSE g : g = Body(g)
<1>5. iter = Body(iter)
  BY <1>4
<1>6. FoldLeft(OnLine, Empty, lines) = iter[1 .. n]
  BY <1>1, Zenon DEF FoldLeft, MapThenFoldSet
<1> HIDE DEF iter
<1>7. \A t \in SUBSET (1 .. n) :
         iter[t] = IF t = {} THEN Empty ELSE OnLine(iter[t \ {Max(t)}], lines[Max(t)])
  BY <1>5
<1> DEFINE at == [k \in 0 .. n |-> iter[1 .. k]]
<1>8. at[0] = Empty /\ at[n] = iter[1 .. n]
  <2>1. 0 \in 0 .. n /\ n \in 0 .. n
    BY ONLY <1>1
  <2>2. at[0] = iter[1 .. 0] /\ at[n] = iter[1 .. n]
    BY ONLY <2>1
  <2>3. iter[1 .. 0] = Empty
    <3>1. 1 .. 0 = {} /\ {} \in SUBSET (1 .. n)
      BY SegmentIs
    <3>2. iter[{}] = Empty
      BY <1>7, <3>1
    <3> QED
      BY <3>1, <3>2
  <2> QED
    BY <2>2, <2>3
<1>9. ASSUME NEW k \in 0 .. n - 1
      PROVE  at[k + 1] = OnLine(at[k], lines[k + 1])
  <2>1. k \in Nat /\ k \in 0 .. n /\ k + 1 \in 0 .. n /\ 1 .. (k + 1) \in SUBSET (1 .. n)
    BY <1>1
  <2>2. iter[1 .. (k + 1)] = OnLine(iter[1 .. k], lines[k + 1])
    <3>1. PICK t \in SUBSET (1 .. n) : t = 1 .. (k + 1)
      BY <2>1
    <3>2. t # {} /\ Max(t) = k + 1 /\ t \ {k + 1} = 1 .. k
      BY <2>1, <3>1, SegmentIs
    <3>3. iter[t] = OnLine(iter[t \ {Max(t)}], lines[Max(t)])
      BY <1>7, <3>2
    <3> QED
      BY <3>1, <3>2, <3>3
  <2> QED
    BY <2>1, <2>2
<1> HIDE DEF at
<1>10. Events(lines) = FlushInto(at[n]).events
  BY <1>6, <1>8 DEF Events
<1> QED
  BY <1>8, <1>9, <1>10 DEF n


\* The data lines of lines s..n of the body, in their order.
Lists(data, s, n) ==
    \E pos \in [1..Len(data) -> s..n] :
        /\ \A i, j \in 1..Len(data) : i < j => pos[i] < pos[j]
        /\ \A i \in 1..Len(data) : data[i] = body[pos[i]]
        /\ \A k \in s..n : body[k] \in DataLines <=> \E i \in 1..Len(data) : pos[i] = k

\* The frames of the first n lines.
FramesAt(n) ==
    {f \in (1..n) \X (1..n) :
        /\ f[1] <= f[2]
        /\ f[1] = 1 \/ body[f[1] - 1] = "blank"
        /\ \A k \in f[1]..f[2] : body[k] # "blank"
        /\ f[2] = n \/ body[f[2] + 1] = "blank"}

ClosedAt(n) == {f \in FramesAt(n) : f[2] < n}

Says(f) == DataOf(f[1], f[2])

\* The events are what the frames say, in their order; frames that say nothing may
\* have none.
Tells(events, frames) ==
    \E fr \in [1..Len(events) -> frames] :
        /\ \A i \in 1..Len(events) : events[i] = Says(fr[i])
        /\ \A i, j \in 1..Len(events) : i < j => fr[i][1] < fr[j][1]
        /\ \A f \in frames : Says(f) # "none" => \E i \in 1..Len(events) : fr[i] = f

\* The frame that is being read begins at s.
BeginsAt(s, n) ==
    /\ s \in 1..(n + 1)
    /\ s = 1 \/ body[s - 1] = "blank"
    /\ \A k \in s..n : body[k] # "blank"

ParsesAs(p, n) ==
    /\ Tells(p.events, ClosedAt(n))
    /\ \E s \in 1..(n + 1) : BeginsAt(s, n) /\ Lists(p.data, s, n) /\ (p.named => s <= n)

LEMMA ListsNone ==
    ASSUME NEW s \in Nat, NEW n \in Nat, \A k \in s..n : body[k] \notin DataLines
    PROVE  Lists(<<>>, s, n)
<1>1. <<>> \in [1..0 -> s..n] /\ Len(<<>>) = 0 /\ 1..0 = {}
  OBVIOUS
<1> QED
  BY <1>1 DEF Lists

\* One more line.
LEMMA ListsMore ==
    ASSUME NEW data \in Seq(DataLines), NEW s \in Nat, NEW n \in Nat, s <= n + 1,
           Lists(data, s, n)
    PROVE  /\ body[n + 1] \in DataLines => Lists(Append(data, body[n + 1]), s, n + 1)
           /\ body[n + 1] \notin DataLines => Lists(data, s, n + 1)
<1> DEFINE d == Len(data)
<1>1. PICK pos \in [1..d -> s..n] :
          /\ \A i, j \in 1..d : i < j => pos[i] < pos[j]
          /\ \A i \in 1..d : data[i] = body[pos[i]]
          /\ \A k \in s..n : body[k] \in DataLines <=> \E i \in 1..d : pos[i] = k
  BY DEF Lists
<1>2. d \in Nat /\ n + 1 \in s..(n + 1) /\ s..(n + 1) = (s..n) \cup {n + 1}
  OBVIOUS
<1>3. ASSUME body[n + 1] \in DataLines
      PROVE  Lists(Append(data, body[n + 1]), s, n + 1)
  <2> DEFINE more == Append(data, body[n + 1])
  <2> DEFINE at == [i \in 1..(d + 1) |-> IF i = d + 1 THEN n + 1 ELSE pos[i]]
  <2>1. Len(more) = d + 1 /\ more[d + 1] = body[n + 1] /\ \A i \in 1..d : more[i] = data[i]
    OBVIOUS
  <2>2. 1..(d + 1) = (1..d) \cup {d + 1} /\ d + 1 \notin 1..d
    BY <1>2
  <2>3. at[d + 1] = n + 1 /\ \A i \in 1..d : at[i] = pos[i]
    BY <2>2
  <2>4. at \in [1..(d + 1) -> s..(n + 1)]
    BY <1>1, <1>2, <2>2
  <2> HIDE DEF at, more, d
  <2>5. ASSUME NEW i \in 1..(d + 1), NEW j \in 1..(d + 1), i < j
        PROVE  at[i] < at[j]
    <3>1. i \in 1..d
      BY <1>2, <2>5
    <3>2. at[i] = pos[i] /\ pos[i] \in s..n
      BY <1>1, <2>3, <3>1
    <3>3. CASE j = d + 1
      BY <2>3, <3>2, <3>3
    <3>4. CASE j # d + 1
      <4>1. j \in 1..d
        BY <2>2, <3>4
      <4> QED
        BY <1>1, <2>3, <2>5, <3>1, <3>2, <4>1
    <3> QED
      BY <3>3, <3>4
  <2>6. ASSUME NEW i \in 1..(d + 1)
        PROVE  more[i] = body[at[i]]
    BY <1>1, <2>1, <2>2, <2>3
  <2>7. ASSUME NEW k \in s..(n + 1)
        PROVE  body[k] \in DataLines <=> \E i \in 1..(d + 1) : at[i] = k
    <3>1. CASE k = n + 1
      BY <1>3, <2>2, <2>3, <3>1
    <3>2. CASE k # n + 1
      <4>1. k \in s..n
        BY <1>2, <3>2
      <4> QED
        BY <1>1, <2>2, <2>3, <3>2, <4>1
    <3> QED
      BY <3>1, <3>2
  <2>8. /\ at \in [1..Len(more) -> s..(n + 1)]
        /\ \A i, j \in 1..Len(more) : i < j => at[i] < at[j]
        /\ \A i \in 1..Len(more) : more[i] = body[at[i]]
        /\ \A k \in s..(n + 1) : body[k] \in DataLines <=> \E i \in 1..Len(more) : at[i] = k
    BY ONLY <2>1, <2>4, <2>5, <2>6, <2>7
  <2>9. Lists(more, s, n + 1)
    BY ONLY <2>8 DEF Lists
  <2> QED
    BY <2>9 DEF more
<1>4. ASSUME body[n + 1] \notin DataLines
      PROVE  Lists(data, s, n + 1)
  <2>1. pos \in [1..d -> s..(n + 1)]
    BY <1>1, <1>2
  <2>2. \A i \in 1..d : pos[i] # n + 1
    BY <1>1
  <2>3. \A k \in s..(n + 1) : body[k] \in DataLines <=> \E i \in 1..d : pos[i] = k
    BY <1>1, <1>2, <1>4, <2>2
  <2> QED
    BY <1>1, <2>1, <2>3 DEF Lists
<1> QED
  BY <1>3, <1>4

\* What the parser joins is what the frame says.
LEMMA JoinedIs ==
    ASSUME RepliesAssumption, NEW data \in Seq(DataLines), NEW s \in Nat, NEW n \in Nat,
           Lists(data, s, n)
    PROVE  Joined(data) = DataOf(s, n)
<1> DEFINE d == Len(data)
<1> DEFINE D == {k \in s..n : body[k] \in DataLines}
<1>1. PICK pos \in [1..d -> s..n] :
          /\ \A i, j \in 1..d : i < j => pos[i] < pos[j]
          /\ \A i \in 1..d : data[i] = body[pos[i]]
          /\ \A k \in s..n : body[k] \in DataLines <=> \E i \in 1..d : pos[i] = k
  BY DEF Lists
<1>2. d \in Nat /\ (d = 0 <=> data = <<>>)
  OBVIOUS
<1>3. D = {pos[i] : i \in 1..d}
  BY <1>1
<1>4. DataOf(s, n) =
        CASE D = {} -> "none"
          [] \E k \in D : D = {k} /\ body[k] \in Replies -> body[CHOOSE k \in D : TRUE]
          [] \E k \in D : D = {k} /\ body[k] = "notice" -> "notice"
          [] \E j, k \in D : /\ j < k /\ D = {j, k}
                             /\ body[j] = "half" /\ body[k] = "otherHalf" -> "joined"
          [] OTHER -> "broken"
  BY DEF DataOf
<1>5. \A k \in D : \E i \in 1..d : pos[i] = k
  BY <1>3
<1>6. \A i \in 1..d : pos[i] \in D /\ pos[i] \in Nat
  BY <1>1, <1>3
<1>7. "notice" \notin Replies /\ "half" \notin Replies /\ "otherHalf" \notin Replies
  BY DEF RepliesAssumption
<1> HIDE DEF D, d
<1>10. CASE d = 0
  <2>1. D = {}
    BY <1>3, <1>10
  <2>2. Joined(data) = "none"
    BY <1>2, <1>10 DEF Joined, d
  <2>3. DataOf(s, n) = "none"
    BY <1>4, <2>1
  <2> QED
    BY <2>2, <2>3
<1>11. CASE d = 1
  <2>1. 1 \in 1..d /\ D = {pos[1]} /\ data[1] = body[pos[1]]
    <3>1. 1..d = {1}
      BY <1>11
    <3> QED
      BY <1>1, <1>3, <3>1
  <2>2. (CHOOSE k \in D : TRUE) = pos[1]
    BY <2>1
  <2>3. Joined(data) = IF data[1] \in Replies \cup {"notice"} THEN data[1] ELSE "broken"
    <3>1. data # <<>> /\ data # <<"half", "otherHalf">> /\ Len(data) = 1
      BY <1>2, <1>11 DEF d
    <3> QED
      BY <3>1 DEF Joined
  <2>4. ~\E j, k \in D : j < k
    BY <2>1, <1>6
  <2>5. D # {}
    BY <2>1
  <2>6. CASE data[1] \in Replies
    <3>1. /\ \E k \in D : D = {k} /\ body[k] \in Replies
          /\ ~\E k \in D : D = {k} /\ body[k] = "notice"
      BY <1>7, <2>1, <2>6
    <3>2. DataOf(s, n) = body[pos[1]]
      BY <1>4, <2>2, <2>4, <2>5, <3>1
    <3> QED
      BY <2>1, <2>3, <2>6, <3>2
  <2>7. CASE data[1] = "notice"
    <3>1. /\ ~\E k \in D : D = {k} /\ body[k] \in Replies
          /\ \E k \in D : D = {k} /\ body[k] = "notice"
      BY <1>7, <2>1, <2>7
    <3>2. DataOf(s, n) = "notice"
      BY <1>4, <2>4, <2>5, <3>1
    <3> QED
      BY <2>3, <2>7, <3>2
  <2>8. CASE data[1] \notin Replies \cup {"notice"}
    <3>1. /\ ~\E k \in D : D = {k} /\ body[k] \in Replies
          /\ ~\E k \in D : D = {k} /\ body[k] = "notice"
      BY <2>1, <2>8
    <3>2. DataOf(s, n) = "broken"
      BY <1>4, <2>4, <2>5, <3>1
    <3> QED
      BY <2>3, <2>8, <3>2
  <2> QED
    BY <2>6, <2>7, <2>8
<1>12. CASE d >= 2
  <2>1. 1 \in 1..d /\ 2 \in 1..d
    BY <1>2, <1>12
  <2>2. pos[1] < pos[2] /\ pos[1] \in D /\ pos[2] \in D /\ pos[1] \in Nat /\ pos[2] \in Nat
    BY <1>1, <1>6, <2>1
  <2>3. D # {} /\ \A k \in D : D # {k}
    BY <2>2
  <2>4. Joined(data) = IF data = <<"half", "otherHalf">> THEN "joined" ELSE "broken"
    <3>1. data # <<>>
      BY ONLY <1>2, <1>12
    <3>2. d # 1
      BY ONLY <1>2, <1>12
    <3>3. Len(data) # 1
      BY ONLY <3>2 DEF d
    <3> QED
      BY <3>1, <3>3 DEF Joined
  <2>5. CASE data = <<"half", "otherHalf">>
    <3>1. d = 2 /\ data[1] = "half" /\ data[2] = "otherHalf"
      BY <2>5 DEF d
    <3>2. 1..d = {1, 2}
      BY <3>1
    <3>3. D = {pos[1], pos[2]}
      BY <1>3, <3>2
    <3>4. body[pos[1]] = "half" /\ body[pos[2]] = "otherHalf"
      BY <1>1, <2>1, <3>1
    <3>5. \E j, k \in D : j < k /\ D = {j, k} /\ body[j] = "half" /\ body[k] = "otherHalf"
      BY <2>2, <3>3, <3>4
    <3>6. DataOf(s, n) = "joined"
      BY <1>4, <2>3, <3>5
    <3> QED
      BY <2>4, <2>5, <3>6
  <2>6. CASE data # <<"half", "otherHalf">>
    <3>1. ASSUME NEW j \in D, NEW k \in D, j < k, D = {j, k},
                 body[j] = "half", body[k] = "otherHalf"
          PROVE  FALSE
      <4>1. pos[1] = j /\ pos[2] = k
        <5>1. pos[1] \in {j, k} /\ pos[2] \in {j, k}
          BY <2>2, <3>1
        <5>2. j \in Nat /\ k \in Nat
          BY <1>5, <1>6
        <5> QED
          BY ONLY <2>2, <3>1, <5>1, <5>2
      <4>2. d = 2
        <5>1. SUFFICES ASSUME d >= 3 PROVE FALSE
          BY <1>2, <1>12
        <5>2. 3 \in 1..d /\ 2 < 3 /\ 1 < 3
          BY <1>2, <5>1
        <5>3. pos[2] < pos[3] /\ pos[1] < pos[3] /\ pos[3] \in D /\ pos[3] \in Nat
          BY <1>1, <1>6, <2>1, <5>2
        <5>4. pos[3] = j \/ pos[3] = k
          BY <3>1, <5>3
        <5> QED
          BY ONLY <2>2, <4>1, <5>3, <5>4
      <4>3. data[1] = "half" /\ data[2] = "otherHalf"
        BY <1>1, <2>1, <3>1, <4>1
      <4>4. data = <<"half", "otherHalf">>
        BY <4>2, <4>3 DEF d
      <4> QED
        BY <2>6, <4>4
    <3>2. ~\E j, k \in D : j < k /\ D = {j, k} /\ body[j] = "half" /\ body[k] = "otherHalf"
      BY <3>1
    <3>3. DataOf(s, n) = "broken"
      BY <1>4, <2>3, <3>2
    <3> QED
      BY <2>4, <2>6, <3>3
  <2> QED
    BY <2>5, <2>6
<1> QED
  BY <1>2, <1>10, <1>11, <1>12

\* One more frame, behind the others.
LEMMA TellsMore ==
    ASSUME NEW S, NEW events \in Seq(S), NEW frames, NEW g,
           \A f \in frames : f[1] \in Nat, g[1] \in Nat,
           \A f \in frames : f[1] < g[1], Says(g) \in S,
           Tells(events, frames)
    PROVE  /\ Tells(Append(events, Says(g)), frames \cup {g})
           /\ Says(g) = "none" => Tells(events, frames \cup {g})
<1> DEFINE d == Len(events)
<1>1. PICK fr \in [1..d -> frames] :
          /\ \A i \in 1..d : events[i] = Says(fr[i])
          /\ \A i, j \in 1..d : i < j => fr[i][1] < fr[j][1]
          /\ \A f \in frames : Says(f) # "none" => \E i \in 1..d : fr[i] = f
  BY DEF Tells
<1>2. d \in Nat
  OBVIOUS
<1>3. Tells(Append(events, Says(g)), frames \cup {g})
  <2> DEFINE more == Append(events, Says(g))
  <2> DEFINE at == [i \in 1..(d + 1) |-> IF i = d + 1 THEN g ELSE fr[i]]
  <2>1. Len(more) = d + 1 /\ more[d + 1] = Says(g) /\ \A i \in 1..d : more[i] = events[i]
    OBVIOUS
  <2>2. 1..(d + 1) = (1..d) \cup {d + 1} /\ d + 1 \notin 1..d
    BY <1>2
  <2>3. at[d + 1] = g /\ \A i \in 1..d : at[i] = fr[i]
    BY <2>2
  <2>4. at \in [1..(d + 1) -> frames \cup {g}]
    BY <1>1, <2>2
  <2> HIDE DEF at, more, d
  <2>5. ASSUME NEW i \in 1..(d + 1), NEW j \in 1..(d + 1), i < j
        PROVE  at[i][1] < at[j][1]
    <3>1. i \in 1..d
      BY <1>2, <2>5
    <3>2. at[i] = fr[i] /\ fr[i] \in frames
      BY <1>1, <2>3, <3>1
    <3>3. CASE j = d + 1
      BY <2>3, <3>2, <3>3
    <3>4. CASE j # d + 1
      <4>1. j \in 1..d
        BY <2>2, <3>4
      <4> QED
        BY <1>1, <2>3, <2>5, <3>1, <4>1
    <3> QED
      BY <3>3, <3>4
  <2>6. ASSUME NEW i \in 1..(d + 1)
        PROVE  more[i] = Says(at[i])
    BY <1>1, <2>1, <2>2, <2>3
  <2>7. ASSUME NEW f \in frames \cup {g}, Says(f) # "none"
        PROVE  \E i \in 1..(d + 1) : at[i] = f
    BY <1>1, <2>2, <2>3, <2>7
  <2>8. /\ at \in [1..Len(more) -> frames \cup {g}]
        /\ \A i \in 1..Len(more) : more[i] = Says(at[i])
        /\ \A i, j \in 1..Len(more) : i < j => at[i][1] < at[j][1]
        /\ \A f \in frames \cup {g} : Says(f) # "none" => \E i \in 1..Len(more) : at[i] = f
    BY ONLY <2>1, <2>4, <2>5, <2>6, <2>7
  <2>9. Tells(more, frames \cup {g})
    BY ONLY <2>8 DEF Tells
  <2> QED
    BY <2>9 DEF more
<1>4. ASSUME Says(g) = "none"
      PROVE  Tells(events, frames \cup {g})
  <2>1. fr \in [1..d -> frames \cup {g}]
    BY <1>1
  <2>2. \A f \in frames \cup {g} : Says(f) # "none" => \E i \in 1..d : fr[i] = f
    BY <1>1, <1>4
  <2> QED
    BY <1>1, <2>1, <2>2 DEF Tells
<1> QED
  BY <1>3, <1>4

\* The frames of n lines are those that are closed and the one being read.
LEMMA FramesAre ==
    ASSUME NEW n \in Nat, NEW s \in 1..(n + 1), BeginsAt(s, n)
    PROVE  /\ FramesAt(n) = ClosedAt(n) \cup (IF s <= n THEN {<<s, n>>} ELSE {})
           /\ \A f \in FramesAt(n) : f[1] \in Nat /\ f[2] \in Nat /\ f[1] <= f[2]
           /\ \A f \in ClosedAt(n) : f[2] < s /\ f[1] < s
<1>1. \A f \in FramesAt(n) : /\ f[1] \in Nat /\ f[2] \in Nat /\ f[1] <= f[2]
                             /\ 1 <= f[1] /\ f[2] <= n
                             /\ f = <<f[1], f[2]>>
  BY DEF FramesAt
<1>2. ASSUME NEW f \in ClosedAt(n)
      PROVE  f[2] < s /\ f[1] < s
  <2>1. f \in FramesAt(n) /\ f[2] < n /\ body[f[2] + 1] = "blank"
    BY <1>1 DEF ClosedAt, FramesAt
  <2>2. f[1] \in Nat /\ f[2] \in Nat /\ f[1] <= f[2] /\ f[2] + 1 <= n
    BY <1>1, <2>1
  <2>3. \A k \in s..n : body[k] # "blank"
    BY DEF BeginsAt
  <2>4. f[2] + 1 \notin s..n
    BY <2>1, <2>3
  <2> QED
    BY <2>2, <2>4
<1>3. ASSUME NEW f \in FramesAt(n), f[2] = n
      PROVE  s <= n /\ f = <<s, n>>
  <2>1. /\ f[1] = 1 \/ body[f[1] - 1] = "blank"
        /\ \A k \in f[1]..n : body[k] # "blank"
        /\ f[1] \in 1..n
    BY <1>1, <1>3 DEF FramesAt
  <2>2. /\ s = 1 \/ body[s - 1] = "blank"
        /\ \A k \in s..n : body[k] # "blank"
    BY DEF BeginsAt
  <2>3. ~(f[1] < s)
    <3>1. SUFFICES ASSUME f[1] < s PROVE FALSE
      OBVIOUS
    <3>2. s - 1 \in f[1]..n /\ s # 1
      BY <2>1, <3>1
    <3> QED
      BY <2>1, <2>2, <3>2
  <2>4. ~(s < f[1])
    <3>1. SUFFICES ASSUME s < f[1] PROVE FALSE
      OBVIOUS
    <3>2. f[1] - 1 \in s..n /\ f[1] # 1
      BY <2>1, <3>1
    <3> QED
      BY <2>1, <2>2, <3>2
  <2>5. f[1] = s
    BY <2>1, <2>3, <2>4
  <2> QED
    BY <1>1, <1>3, <2>1, <2>5
<1>4. s <= n => <<s, n>> \in FramesAt(n)
  <2>1. SUFFICES ASSUME s <= n PROVE <<s, n>> \in FramesAt(n)
    OBVIOUS
  <2>2. s \in 1..n /\ n \in 1..n
    BY <2>1
  <2>3. <<s, n>> \in (1..n) \X (1..n) /\ <<s, n>>[1] = s /\ <<s, n>>[2] = n
    BY <2>2
  <2> QED
    BY <2>1, <2>3 DEF FramesAt, BeginsAt
<1>5. \A f \in FramesAt(n) : f \in ClosedAt(n) \/ f[2] = n
  BY <1>1 DEF ClosedAt
<1>6. ClosedAt(n) \subseteq FramesAt(n)
  BY DEF ClosedAt
<1>7. FramesAt(n) = ClosedAt(n) \cup (IF s <= n THEN {<<s, n>>} ELSE {})
  BY <1>3, <1>4, <1>5, <1>6
<1> QED
  BY <1>1, <1>2, <1>7

\* A further line closes the frame, or not.
LEMMA ClosedIs ==
    ASSUME NEW n \in Nat
    PROVE  /\ body[n + 1] = "blank" => ClosedAt(n + 1) = FramesAt(n)
           /\ body[n + 1] # "blank" => ClosedAt(n + 1) = ClosedAt(n)
<1>1. ASSUME NEW m \in Nat, NEW f \in FramesAt(m)
      PROVE  /\ f[1] \in 1..m /\ f[2] \in 1..m /\ f = <<f[1], f[2]>>
             /\ f[1] <= f[2]
             /\ f[1] = 1 \/ body[f[1] - 1] = "blank"
             /\ \A k \in f[1]..f[2] : body[k] # "blank"
             /\ f[2] = m \/ body[f[2] + 1] = "blank"
  BY DEF FramesAt
<1>2. n + 1 \in Nat
  OBVIOUS
<1>3. ASSUME NEW f \in ClosedAt(n + 1)
      PROVE  /\ f \in FramesAt(n)
             /\ f[2] = n => body[n + 1] = "blank"
  <2>1. f \in FramesAt(n + 1) /\ f[2] < n + 1
    BY DEF ClosedAt
  <2>2. f[2] \in 1..(n + 1) /\ f[1] \in 1..(n + 1) /\ f[1] <= f[2]
    BY <1>1, <1>2, <2>1
  <2>3. f[2] \in 1..n /\ f[1] \in 1..n /\ f[2] # n + 1
    BY <2>1, <2>2
  <2>4. body[f[2] + 1] = "blank"
    BY <1>1, <1>2, <2>1, <2>3
  <2>5. f = <<f[1], f[2]>>
    BY <1>1, <1>2, <2>1
  <2>6. f \in (1..n) \X (1..n)
    BY <2>3, <2>5
  <2>7. f \in FramesAt(n)
    BY <1>1, <1>2, <2>1, <2>4, <2>6 DEF FramesAt
  <2> QED
    BY <2>4, <2>7
<1>4. ASSUME NEW f \in FramesAt(n), f[2] < n \/ body[n + 1] = "blank"
      PROVE  f \in ClosedAt(n + 1)
  <2>1. /\ f[1] \in 1..n /\ f[2] \in 1..n /\ f = <<f[1], f[2]>>
        /\ f[1] <= f[2]
        /\ f[1] = 1 \/ body[f[1] - 1] = "blank"
        /\ \A k \in f[1]..f[2] : body[k] # "blank"
        /\ f[2] = n \/ body[f[2] + 1] = "blank"
    BY <1>1
  <2>2. f[1] \in 1..(n + 1) /\ f[2] \in 1..(n + 1) /\ f[2] < n + 1
    BY <2>1
  <2>3. f \in (1..(n + 1)) \X (1..(n + 1))
    BY <2>1, <2>2
  <2>4. body[f[2] + 1] = "blank"
    <3>1. f[2] = n \/ f[2] < n
      BY <2>1
    <3> QED
      BY <1>4, <2>1, <3>1
  <2>5. f \in FramesAt(n + 1)
    BY <2>1, <2>3, <2>4 DEF FramesAt
  <2> QED
    BY <2>2, <2>5 DEF ClosedAt
<1>5. \A f \in FramesAt(n) : f[2] = n \/ f[2] < n
  BY <1>1
<1>6. ASSUME body[n + 1] = "blank"
      PROVE  ClosedAt(n + 1) = FramesAt(n)
  BY <1>3, <1>4, <1>6
<1>7. ASSUME body[n + 1] # "blank"
      PROVE  ClosedAt(n + 1) = ClosedAt(n)
  <2>1. ClosedAt(n + 1) \subseteq ClosedAt(n)
    BY <1>3, <1>5, <1>7 DEF ClosedAt
  <2>2. ClosedAt(n) \subseteq ClosedAt(n + 1)
    <3>1. \A f \in ClosedAt(n) : f \in FramesAt(n) /\ f[2] < n
      BY DEF ClosedAt
    <3> QED
      BY <1>4, <3>1
  <2> QED
    BY <2>1, <2>2
<1> QED
  BY <1>6, <1>7

\* The last event, when the stream ends here or a blank line comes.
LEMMA FlushFits ==
    ASSUME RepliesAssumption, NEW p \in ParserStates, NEW n \in Nat, ParsesAs(p, n)
    PROVE  Tells(FlushInto(p).events, FramesAt(n))
<1>1. PICK s \in 1..(n + 1) : BeginsAt(s, n) /\ Lists(p.data, s, n) /\ (p.named => s <= n)
  BY DEF ParsesAs
<1>2. p.events \in Seq(EventKinds) /\ p.data \in Seq(DataLines)
  BY DEF ParserStates
<1> DEFINE g == <<s, n>>
<1>3. Says(g) = Joined(p.data)
  <2>1. s \in Nat
    OBVIOUS
  <2>2. Joined(p.data) = DataOf(s, n)
    BY <1>1, <1>2, <2>1, JoinedIs
  <2> QED
    BY <2>2 DEF Says
<1>4. /\ FramesAt(n) = ClosedAt(n) \cup (IF s <= n THEN {g} ELSE {})
      /\ \A f \in FramesAt(n) : f[1] \in Nat
      /\ \A f \in ClosedAt(n) : f[1] < s
      /\ g[1] = s /\ s \in Nat
  BY <1>1, FramesAre
<1>5. ClosedAt(n) \subseteq FramesAt(n) /\ Tells(p.events, ClosedAt(n))
  BY DEF ClosedAt, ParsesAs
<1>6. Joined(p.data) \in EventKinds
  BY <1>2, JoinedKind
<1> HIDE DEF g
<1>7. /\ Tells(Append(p.events, Says(g)), ClosedAt(n) \cup {g})
      /\ Says(g) = "none" => Tells(p.events, ClosedAt(n) \cup {g})
  BY <1>2, <1>3, <1>4, <1>5, <1>6, TellsMore
<1>8. CASE p.data = <<>> /\ ~p.named
  <2>1. FlushInto(p) = p
    BY <1>8, FlushIs
  <2>2. Says(g) = "none"
    BY <1>3, <1>8 DEF Joined
  <2> QED
    BY <1>4, <1>5, <1>7, <2>1, <2>2
<1>9. CASE ~(p.data = <<>> /\ ~p.named)
  <2>1. FlushInto(p).events = Append(p.events, Says(g))
    BY <1>3, <1>9, FlushIs
  <2>2. s <= n
    <3>1. CASE p.named
      BY <1>1, <3>1
    <3>2. CASE p.data # <<>>
      <4>1. 1 \in 1..Len(p.data)
        BY <1>2, <3>2
      <4>2. \E pos \in [1..Len(p.data) -> s..n] : TRUE
        BY <1>1 DEF Lists
      <4>3. \E k \in s..n : TRUE
        BY <4>1, <4>2
      <4> QED
        BY <1>4, <4>3
    <3> QED
      BY <1>9, <3>1, <3>2
  <2> QED
    BY <1>4, <1>7, <2>1, <2>2
<1> QED
  BY <1>8, <1>9

LEMMA ParseStarts == ParsesAs(Empty, 0)
<1>1. ClosedAt(0) = {}
  BY DEF ClosedAt, FramesAt
<1>2. Tells(<<>>, {})
  <2>1. <<>> \in [1..0 -> {}] /\ Len(<<>>) = 0 /\ 1..0 = {}
    OBVIOUS
  <2> QED
    BY <2>1 DEF Tells
<1>3. BeginsAt(1, 0) /\ Lists(<<>>, 1, 0)
  <2>1. 1..0 = {} /\ 1 \in 1..(0 + 1) /\ 1 \in Nat /\ 0 \in Nat
    OBVIOUS
  <2> QED
    BY <2>1, ListsNone DEF BeginsAt
<1>4. Empty.events = <<>> /\ Empty.data = <<>> /\ ~Empty.named /\ 1 \in 1..(0 + 1)
  BY EmptyIs
<1>5. Tells(Empty.events, ClosedAt(0))
  BY <1>1, <1>2, <1>4
<1>6. BeginsAt(1, 0) /\ Lists(Empty.data, 1, 0) /\ (Empty.named => 1 <= 0)
  BY <1>3, <1>4
<1> QED
  BY ONLY <1>4, <1>5, <1>6 DEF ParsesAs

\* The parser takes a line of the body.
LEMMA LineFits ==
    ASSUME RepliesAssumption, NEW p \in ParserStates, NEW n \in Nat, ParsesAs(p, n),
           body[n + 1] \in Lines
    PROVE  ParsesAs(OnLine(p, body[n + 1]), n + 1)
<1> DEFINE line == body[n + 1]
<1> DEFINE q == OnLine(p, line)
<1>1. PICK s \in 1..(n + 1) : BeginsAt(s, n) /\ Lists(p.data, s, n) /\ (p.named => s <= n)
  BY DEF ParsesAs
<1>2. p.events \in Seq(EventKinds) /\ p.data \in Seq(DataLines)
  BY DEF ParserStates
<1>3. /\ q \in ParserStates
      /\ line = "blank" => q = FlushInto(p)
      /\ line = "comment" => q = p
      /\ line = "field" => q = [p EXCEPT !.named = TRUE]
      /\ line \in DataLines => q = [p EXCEPT !.data = Append(p.data, line)]
      /\ line \in DataLines => line \notin {"blank", "comment", "field"}
  BY OnLineIs
<1>4. CASE line = "blank"
  <2>1. Tells(q.events, ClosedAt(n + 1))
    BY <1>3, <1>4, FlushFits, ClosedIs
  <2>2. q.data = <<>> /\ ~q.named
    <3> HIDE DEF q
    <3>1. CASE p.data = <<>> /\ ~p.named
      <4>1. FlushInto(p) = p
        BY <3>1, FlushIs
      <4>2. q = p
        BY <1>3, <1>4, <4>1
      <4> QED
        BY <3>1, <4>2
    <3>2. CASE ~(p.data = <<>> /\ ~p.named)
      BY <1>3, <1>4, <3>2, FlushIs
    <3> QED
      BY <3>1, <3>2
  <2>3. /\ n + 2 \in 1..((n + 1) + 1) /\ (n + 2)..(n + 1) = {} /\ (n + 2) - 1 = n + 1
        /\ n + 2 \in Nat /\ n + 1 \in Nat
    OBVIOUS
  <2>4. BeginsAt(n + 2, n + 1)
    BY <1>4, <2>3 DEF BeginsAt
  <2>5. Lists(<<>>, n + 2, n + 1)
    BY <2>3, ListsNone
  <2> QED
    BY <2>1, <2>2, <2>3, <2>4, <2>5 DEF ParsesAs
<1>5. CASE line # "blank"
  <2>1. q.events = p.events
    <3>1. line \in DataLines \/ line \in {"comment", "field"}
      BY <1>5 DEF Lines
    <3>2. p = [events |-> p.events, named |-> p.named, data |-> p.data]
      BY DEF ParserStates
    <3> HIDE DEF q, line
    <3>3. [p EXCEPT !.named = TRUE].events = p.events
      BY <3>2
    <3>4. [p EXCEPT !.data = Append(p.data, line)].events = p.events
      BY <3>2
    <3> QED
      BY <1>3, <3>1, <3>3, <3>4
  <2>2. Tells(q.events, ClosedAt(n + 1))
    BY <1>5, <2>1, ClosedIs DEF ParsesAs
  <2>3. s \in 1..((n + 1) + 1) /\ s <= n + 1 /\ s \in Nat /\ s..(n + 1) = (s..n) \cup {n + 1}
    OBVIOUS
  <2>4. BeginsAt(s, n + 1)
    BY <1>1, <1>5, <2>3 DEF BeginsAt
  <2>5. Lists(q.data, s, n + 1)
    <3>1. /\ line \in DataLines => Lists(Append(p.data, line), s, n + 1)
          /\ line \notin DataLines => Lists(p.data, s, n + 1)
      BY <1>1, <1>2, <2>3, ListsMore
    <3>2. p = [events |-> p.events, named |-> p.named, data |-> p.data]
      BY DEF ParserStates
    <3>3. line \in DataLines \/ line \in {"comment", "field"}
      BY <1>5 DEF Lines
    <3> HIDE DEF q, line
    <3>4. [p EXCEPT !.named = TRUE].data = p.data
      BY <3>2
    <3>5. [p EXCEPT !.data = Append(p.data, line)].data = Append(p.data, line)
      BY <3>2
    <3>6. line \in DataLines => q.data = Append(p.data, line)
      BY <1>3, <3>5
    <3>7. line \notin DataLines => q.data = p.data
      BY <1>3, <3>3, <3>4
    <3> QED
      BY <3>1, <3>6, <3>7
  <2> QED
    BY <2>2, <2>3, <2>4, <2>5 DEF ParsesAs
<1> QED
  BY <1>4, <1>5

\* What the parser knows after the first n lines, and what it says if that is all, or
\* if one line follows.
LEMMA Parsed ==
    ASSUME RepliesAssumption, body \in Seq(Lines), NEW lines \in Seq(Lines), NEW n \in Nat,
           n <= Len(body), n <= Len(lines), \A k \in 1..n : lines[k] = body[k]
    PROVE  \E p \in ParserStates :
               /\ ParsesAs(p, n)
               /\ Len(lines) = n => Events(lines) = FlushInto(p).events
               /\ Len(lines) = n + 1 =>
                     Events(lines) = FlushInto(OnLine(p, lines[n + 1])).events
<1> DEFINE m == Len(lines)
<1>1. PICK at : /\ at[0] = Empty
                /\ Events(lines) = FlushInto(at[m]).events
                /\ \A k \in 0 .. m - 1 : at[k + 1] = OnLine(at[k], lines[k + 1])
  BY ParseSteps
<1>2. m \in Nat /\ Len(body) \in Nat /\ n <= m /\ n <= Len(body)
      /\ \A k \in 1..Len(body) : body[k] \in Lines
  OBVIOUS
<1> HIDE DEF m
<1> DEFINE S == {k \in Nat : k <= n => at[k] \in ParserStates /\ ParsesAs(at[k], k)}
<1>3. 0 \in S
  BY <1>1, EmptyIs, ParseStarts
<1>4. ASSUME NEW k \in Nat, k \in S
      PROVE  k + 1 \in S
  <2>1. SUFFICES ASSUME k + 1 <= n
                 PROVE  at[k + 1] \in ParserStates /\ ParsesAs(at[k + 1], k + 1)
    OBVIOUS
  <2>2. k \in 0 .. m - 1 /\ k + 1 \in 1..n /\ k + 1 \in 1..Len(body) /\ k <= n
    BY <1>2, <2>1
  <2>3. at[k] \in ParserStates /\ ParsesAs(at[k], k)
    BY <1>4, <2>2
  <2>4. body[k + 1] \in Lines /\ lines[k + 1] = body[k + 1]
    BY <1>2, <2>2
  <2>5. at[k + 1] = OnLine(at[k], body[k + 1])
    BY <1>1, <2>2, <2>4
  <2>6. OnLine(at[k], body[k + 1]) \in ParserStates
    BY <2>3, <2>4, OnLineIs
  <2>7. ParsesAs(OnLine(at[k], body[k + 1]), k + 1)
    BY <2>3, <2>4, LineFits
  <2> QED
    BY <2>5, <2>6, <2>7
<1> HIDE DEF S
<1>5. Nat \subseteq S
  BY ONLY <1>3, <1>4, Induction
<1>6. at[n] \in ParserStates /\ ParsesAs(at[n], n)
  BY <1>2, <1>5 DEF S
<1>7. m = n => Events(lines) = FlushInto(at[n]).events
  BY <1>1
<1>8. m = n + 1 => Events(lines) = FlushInto(OnLine(at[n], lines[n + 1])).events
  <2>1. SUFFICES ASSUME m = n + 1
                 PROVE  Events(lines) = FlushInto(OnLine(at[n], lines[n + 1])).events
    OBVIOUS
  <2>2. n \in 0 .. m - 1
    BY <1>2, <2>1
  <2> QED
    BY <1>1, <2>1, <2>2
<1> QED
  BY <1>6, <1>7, <1>8 DEF m

\* The events of the first n lines of the body, also with a comment after them.
LEMMA WholeIsTold ==
    ASSUME RepliesAssumption, body \in Seq(Lines), NEW lines \in Seq(Lines), NEW n \in Nat,
           n <= Len(body), \A k \in 1..n : lines[k] = body[k],
           Len(lines) = n \/ (Len(lines) = n + 1 /\ lines[n + 1] = "comment")
    PROVE  Events(lines) \in Seq(EventKinds) /\ Tells(Events(lines), FramesAt(n))
<1>1. n <= Len(lines)
  OBVIOUS
<1>2. PICK p \in ParserStates :
               /\ ParsesAs(p, n)
               /\ Len(lines) = n => Events(lines) = FlushInto(p).events
               /\ Len(lines) = n + 1 =>
                     Events(lines) = FlushInto(OnLine(p, lines[n + 1])).events
  BY <1>1, Parsed
<1>3. "comment" \in Lines /\ OnLine(p, "comment") = p
  BY OnLineIs DEF Lines
<1>4. Events(lines) = FlushInto(p).events
  BY <1>2, <1>3
<1>5. FlushInto(p).events \in Seq(EventKinds)
  BY FlushIs DEF ParserStates
<1>6. Tells(FlushInto(p).events, FramesAt(n))
  BY <1>2, FlushFits
<1> QED
  BY <1>4, <1>5, <1>6

\* A line that is cut in its data makes the whole unreadable.
LEMMA CutIsMalformed ==
    ASSUME RepliesAssumption, body \in Seq(Lines), NEW lines \in Seq(Lines), NEW n \in Nat,
           n <= Len(body), \A k \in 1..n : lines[k] = body[k],
           Len(lines) = n + 1, lines[n + 1] = "broken", NEW otherwise
    PROVE  FirstResponse(lines, otherwise) = "malformed"
<1>1. n <= Len(lines)
  OBVIOUS
<1>2. PICK p \in ParserStates :
               Len(lines) = n + 1 => Events(lines) = FlushInto(OnLine(p, lines[n + 1])).events
  BY <1>1, Parsed
<1> DEFINE data == Append(p.data, "broken")
<1> DEFINE q == [p EXCEPT !.data = data]
<1>3. "broken" \in DataLines /\ "broken" \in Lines
  BY DEF DataLines, Lines
<1>4. OnLine(p, "broken") = q /\ OnLine(p, "broken") \in ParserStates
  BY <1>3, OnLineIs
<1>5. p.data \in Seq(DataLines)
  BY DEF ParserStates
<1>6. data \in Seq(DataLines) /\ Len(data) = Len(p.data) + 1 /\ data[Len(p.data) + 1] = "broken"
      /\ Len(p.data) \in Nat
  BY <1>3, <1>5
<1>7. q.data = data /\ q.events = p.events /\ p.events \in Seq(EventKinds)
  BY DEF ParserStates
<1> HIDE DEF data, q
<1>8. Joined(data) = "broken"
  <2>1. data # <<>>
    BY <1>6
  <2>2. ~(Len(data) = 1 /\ data[1] \in Replies \cup {"notice"})
    BY <1>6 DEF RepliesAssumption
  <2>3. data # <<"half", "otherHalf">>
    <3>1. SUFFICES ASSUME data = <<"half", "otherHalf">> PROVE FALSE
      OBVIOUS
    <3>2. Len(p.data) + 1 = 2 /\ data[2] = "otherHalf"
      BY <1>6, <3>1
    <3> QED
      BY <1>6, <3>2
  <2> QED
    BY <2>1, <2>2, <2>3 DEF Joined
<1>9. Events(lines) = Append(p.events, "broken")
  <2>1. q.data # <<>>
    BY <1>6, <1>7
  <2>2. FlushInto(q).events = Append(q.events, Joined(q.data))
    BY <1>4, <2>1, FlushIs
  <2> QED
    BY <1>2, <1>4, <1>7, <1>8, <2>2
<1>10. Contains(Events(lines), "broken")
  <2>1. /\ Len(Append(p.events, "broken")) = Len(p.events) + 1
        /\ Append(p.events, "broken")[Len(p.events) + 1] = "broken"
        /\ Len(p.events) + 1 \in 1..(Len(p.events) + 1)
    BY <1>7
  <2> QED
    BY <1>9, <2>1 DEF Contains
<1> QED
  BY <1>10 DEF FirstResponse

Telling == SseReplies \cup {"broken"}

\* How a call ends on what its frames say.
LEMMA ResponseOf ==
    ASSUME RepliesAssumption, NEW lines, NEW frames, NEW otherwise,
           Events(lines) \in Seq(EventKinds), Tells(Events(lines), frames),
           \A f \in frames : f[1] \in Nat
    PROVE  \/ /\ FirstResponse(lines, otherwise) = "malformed"
              /\ \E f \in frames : Says(f) = "broken"
           \/ /\ FirstResponse(lines, otherwise) \in SseReplies
              /\ \E f \in frames : /\ Says(f) = FirstResponse(lines, otherwise)
                                   /\ \A g \in frames : g[1] < f[1] => Says(g) \notin Telling
           \/ /\ FirstResponse(lines, otherwise) = otherwise
              /\ \A f \in frames : Says(f) \notin Telling
<1> DEFINE events == Events(lines)
<1> DEFINE d == Len(events)
<1> DEFINE responses == {k \in 1..d : events[k] \in SseReplies}
<1>1. PICK fr \in [1..d -> frames] :
          /\ \A i \in 1..d : events[i] = Says(fr[i])
          /\ \A i, j \in 1..d : i < j => fr[i][1] < fr[j][1]
          /\ \A f \in frames : Says(f) # "none" => \E i \in 1..d : fr[i] = f
  BY DEF Tells
<1>2. d \in Nat /\ DOMAIN events = 1..d
  OBVIOUS
<1>3. FirstResponse(lines, otherwise) =
         IF \E i \in 1..d : events[i] = "broken" THEN "malformed"
         ELSE IF responses # {} THEN events[Min(responses)]
         ELSE otherwise
  BY <1>2 DEF FirstResponse, Contains
<1>4. "none" \notin Telling
  BY DEF Telling, SseReplies, RepliesAssumption
<1>5. \A f \in frames : Says(f) \in Telling => \E i \in 1..d : fr[i] = f /\ events[i] = Says(f)
  BY <1>1, <1>4
<1> HIDE DEF events, d
<1>6. CASE \E i \in 1..d : events[i] = "broken"
  BY <1>1, <1>3, <1>6
<1>7. CASE (~\E i \in 1..d : events[i] = "broken") /\ responses # {}
  <2>1. responses \in SUBSET (1..d)
    OBVIOUS
  <2>2. Min(responses) \in responses /\ \A i \in responses : Min(responses) <= i
    BY <1>2, <1>7, <2>1, MinIsThere
  <2>3. PICK k \in 1..d : k \in responses /\ k = Min(responses) /\ \A i \in responses : k <= i
    BY <2>2
  <2>4. FirstResponse(lines, otherwise) = events[k] /\ events[k] \in SseReplies
    BY <1>3, <1>7, <2>3
  <2>5. fr[k] \in frames /\ Says(fr[k]) = events[k]
    BY <1>1
  <2>6. ASSUME NEW g \in frames, g[1] < fr[k][1], Says(g) \in Telling
        PROVE  FALSE
    <3>1. PICK j \in 1..d : fr[j] = g /\ events[j] = Says(g)
      BY <1>5, <2>6
    <3>2. events[j] \in SseReplies
      BY <1>7, <2>6, <3>1 DEF Telling
    <3>3. k <= j
      BY <2>3, <3>2
    <3>4. k = j \/ k < j
      BY <1>2, <3>3
    <3>5. g[1] \in Nat /\ fr[k][1] \in Nat
      BY <2>5
    <3>6. fr[k][1] <= fr[j][1]
      BY <1>1, <3>1, <3>4, <3>5
    <3> QED
      BY <2>6, <3>1, <3>5, <3>6
  <2> QED
    BY <2>4, <2>5, <2>6
<1>8. CASE (~\E i \in 1..d : events[i] = "broken") /\ responses = {}
  <2>1. \A f \in frames : Says(f) \notin Telling
    BY <1>5, <1>8 DEF Telling
  <2> QED
    BY <1>3, <1>8, <2>1
<1> QED
  BY <1>6, <1>7, <1>8

LEMMA HalvesAre ==
    ASSUME NEW n \in Nat
    PROVE  n \div 2 \in Nat /\ 2 * (n \div 2) <= n /\ n % 2 \in {0, 1}
<1>1. n \div 2 \in Nat
  OBVIOUS
<1>2. 2 * (n \div 2) <= n
  OBVIOUS
<1>3. n % 2 \in {0, 1}
  OBVIOUS
<1> QED
  BY <1>1, <1>2, <1>3

\* The lines that halves make.
LEMMA BufferIs ==
    ASSUME RepliesAssumption, body \in Seq(Lines), NEW n \in 0..(2 * Len(body)),
           NEW buffer \in Buffers(n), NEW h, h = n \div 2
    PROVE  /\ h \in Nat /\ h <= Len(body) /\ buffer \in Seq(Lines)
           /\ \A k \in 1..h : buffer[k] = body[k]
           /\ n % 2 = 0 => Len(buffer) = h
           /\ n % 2 # 0 => n % 2 = 1 /\ Len(buffer) = h + 1
                           /\ buffer[h + 1] \in {"comment", "broken"}
<1>1. /\ h \in Nat /\ n % 2 \in {0, 1} /\ 2 * h <= n
      /\ n \in Nat /\ Len(body) \in Nat /\ n <= 2 * Len(body)
  <2>1. n \in Nat /\ Len(body) \in Nat /\ n <= 2 * Len(body)
    OBVIOUS
  <2> QED
    BY <2>1, HalvesAre
<1>2. h <= Len(body)
  <2>1. h \in Nat /\ Len(body) \in Nat /\ 2 * h <= 2 * Len(body)
    BY <1>1
  <2> QED
    BY ONLY <2>1
<1> DEFINE whole == SubSeq(body, 1, h)
<1>3. whole \in Seq(Lines) /\ Len(whole) = h /\ \A k \in 1..h : whole[k] = body[k]
  <2>1. /\ SubSeq(body, 0 + 1, h) \in Seq(Lines)
        /\ Len(SubSeq(body, 0 + 1, h)) = IF 0 < h THEN h - 0 ELSE 0
        /\ \A i \in 1..(h - 0) : SubSeq(body, 0 + 1, h)[i] = body[0 + i]
    BY <1>1, <1>2, CutIs
  <2>2. 0 + 1 = 1 /\ h - 0 = h /\ (IF 0 < h THEN h - 0 ELSE 0) = h /\ \A i \in 1..h : 0 + i = i
    BY <1>1
  <2> QED
    BY <2>1, <2>2
<1>4. CASE n % 2 = 0
  <2>1. buffer = whole
    BY <1>4 DEF Buffers
  <2> QED
    BY <1>1, <1>2, <1>3, <1>4, <2>1
<1>5. CASE n % 2 # 0
  <2>1. PICK cut \in CutLine(body[h + 1]) : buffer = Append(whole, cut)
    BY <1>5 DEF Buffers
  <2>2. cut \in {"comment", "broken"}
    BY <2>1 DEF CutLine
  <2>3. cut \in Lines
    BY <2>2 DEF Lines, DataLines
  <2> HIDE DEF whole
  <2>4. /\ buffer \in Seq(Lines) /\ Len(buffer) = h + 1 /\ buffer[h + 1] = cut
        /\ \A k \in 1..h : buffer[k] = whole[k]
    BY ONLY h \in Nat, <1>3, <2>1, <2>3, <1>1
  <2>5. n % 2 = 1
    BY <1>1, <1>5
  <2> QED
    BY <1>1, <1>2, <1>3, <1>5, <2>2, <2>4, <2>5
<1> QED
  BY <1>4, <1>5

\* What is complete of it are the frames that are closed.
LEMMA CompleteIs ==
    ASSUME RepliesAssumption, body \in Seq(Lines), NEW buffer \in Seq(Lines), NEW h \in Nat,
           h <= Len(body), \A k \in 1..h : buffer[k] = body[k],
           Len(buffer) = h \/ (Len(buffer) = h + 1 /\ buffer[h + 1] # "blank")
    PROVE  /\ Complete(buffer) \in Seq(Lines)
           /\ \E m \in 0..h : /\ Len(Complete(buffer)) = m
                              /\ \A k \in 1..m : Complete(buffer)[k] = body[k]
                              /\ FramesAt(m) = ClosedAt(h)
<1> DEFINE d == Len(buffer)
<1> DEFINE blanks == {k \in 1..d : buffer[k] = "blank"}
<1>1. d \in Nat /\ DOMAIN buffer = 1..d /\ h <= d
  OBVIOUS
<1>2. \A k \in blanks : k \in 1..h /\ body[k] = "blank"
  OBVIOUS
<1>3. \A k \in 1..h : body[k] = "blank" => k \in blanks
  <2> HIDE DEF d
  <2>1. SUFFICES ASSUME NEW k \in 1..h, body[k] = "blank" PROVE k \in blanks
    OBVIOUS
  <2>2. k \in 1..d /\ buffer[k] = "blank"
    BY <1>1, <2>1
  <2> QED
    BY <2>2
<1>4. \A f \in FramesAt(h) : /\ f[1] \in 1..h /\ f[2] \in 1..h /\ f = <<f[1], f[2]>>
                             /\ f[1] <= f[2]
                             /\ f[1] = 1 \/ body[f[1] - 1] = "blank"
                             /\ \A k \in f[1]..f[2] : body[k] # "blank"
                             /\ f[2] = h \/ body[f[2] + 1] = "blank"
  BY DEF FramesAt
<1>5. \A f \in ClosedAt(h) : f \in FramesAt(h) /\ f[2] < h
  BY DEF ClosedAt
<1>6. \A f \in ClosedAt(h) : f[2] + 1 \in blanks
  <2>1. SUFFICES ASSUME NEW f \in ClosedAt(h) PROVE f[2] + 1 \in blanks
    OBVIOUS
  <2>2. f[2] + 1 \in 1..h /\ body[f[2] + 1] = "blank"
    BY <1>4, <1>5
  <2> QED
    BY <1>3, <2>2
<1> HIDE DEF d
<1>7. CASE blanks = {}
  <2>1. Complete(buffer) = <<>>
    BY <1>1, <1>7 DEF Complete
  <2>2. FramesAt(0) = {}
    BY DEF FramesAt
  <2>3. ClosedAt(h) = {}
    BY <1>6, <1>7
  <2>4. <<>> \in Seq(Lines) /\ Len(<<>>) = 0 /\ 0 \in 0..h /\ 1..0 = {}
    OBVIOUS
  <2> QED
    BY <2>1, <2>2, <2>3, <2>4
<1>8. CASE blanks # {}
  <2>1. blanks \in SUBSET (1..d)
    OBVIOUS
  <2>2. Max(blanks) \in blanks /\ \A i \in blanks : i <= Max(blanks)
    BY <1>1, <1>8, <2>1, MaxIsThere
  <2>3. PICK m \in blanks : m = Max(blanks) /\ \A i \in blanks : i <= m
    BY <2>2
  <2>4. m \in 1..h /\ body[m] = "blank" /\ m \in Nat /\ m <= d
    BY <1>1, <1>2
  <2>5. Complete(buffer) = SubSeq(buffer, 1, m)
    BY <1>1, <1>8, <2>3 DEF Complete
  <2> HIDE DEF blanks
  <2>6. /\ SubSeq(buffer, 1, m) \in Seq(Lines) /\ Len(SubSeq(buffer, 1, m)) = m
        /\ \A k \in 1..m : SubSeq(buffer, 1, m)[k] = buffer[k]
    <3>1. /\ SubSeq(buffer, 0 + 1, m) \in Seq(Lines)
          /\ Len(SubSeq(buffer, 0 + 1, m)) = IF 0 < m THEN m - 0 ELSE 0
          /\ \A i \in 1..(m - 0) : SubSeq(buffer, 0 + 1, m)[i] = buffer[0 + i]
      BY <2>4, CutIs DEF d
    <3>2. 0 + 1 = 1 /\ m - 0 = m /\ (IF 0 < m THEN m - 0 ELSE 0) = m /\ \A i \in 1..m : 0 + i = i
      BY <2>4
    <3> QED
      BY <3>1, <3>2
  <2>7. \A k \in 1..m : buffer[k] = body[k]
    BY <2>4
  <2>8. ClosedAt(h) \subseteq FramesAt(m)
    <3>1. SUFFICES ASSUME NEW f \in ClosedAt(h) PROVE f \in FramesAt(m)
      OBVIOUS
    <3>2. f[2] + 1 <= m
      BY <1>6, <2>3
    <3>3. f[2] \in 1..m /\ f[1] \in 1..m /\ f = <<f[1], f[2]>>
      BY <1>4, <1>5, <2>4, <3>2
    <3>4. f \in (1..m) \X (1..m)
      BY <3>3
    <3>5. f[2] # h
      BY <1>5
    <3> QED
      BY <1>4, <1>5, <3>4, <3>5 DEF FramesAt
  <2>9. FramesAt(m) \subseteq ClosedAt(h)
    <3>1. SUFFICES ASSUME NEW f \in FramesAt(m) PROVE f \in ClosedAt(h)
      OBVIOUS
    <3>2. /\ f[1] \in 1..m /\ f[2] \in 1..m /\ f = <<f[1], f[2]>>
          /\ f[1] <= f[2]
          /\ f[1] = 1 \/ body[f[1] - 1] = "blank"
          /\ \A k \in f[1]..f[2] : body[k] # "blank"
          /\ f[2] = m \/ body[f[2] + 1] = "blank"
      BY DEF FramesAt
    <3>3. f[2] \in f[1]..f[2]
      BY <3>2
    <3>4. f[2] # m
      BY <2>4, <3>2, <3>3
    <3>5. f[1] \in 1..h /\ f[2] \in 1..h /\ f[2] < h
      BY <2>4, <3>2, <3>4
    <3>6. f \in (1..h) \X (1..h)
      BY <3>2, <3>5
    <3>7. f \in FramesAt(h)
      BY <3>2, <3>4, <3>6 DEF FramesAt
    <3> QED
      BY <3>5, <3>7 DEF ClosedAt
  <2>10. m \in 0..h
    BY <2>4
  <2>11. FramesAt(m) = ClosedAt(h)
    BY <2>8, <2>9
  <2> DEFINE whole == SubSeq(buffer, 1, m)
  <2>12. whole \in Seq(Lines) /\ Len(whole) = m /\ \A k \in 1..m : whole[k] = body[k]
    BY <2>6, <2>7
  <2> HIDE DEF whole
  <2>13. Complete(buffer) = whole
    BY <2>5 DEF whole
  <2> QED
    BY <2>10, <2>11, <2>12, <2>13
<1> QED
  BY <1>7, <1>8

-----------------------------------------------------------------------------
\* What the properties say of the halves that were heard, whether the stream goes on, and
\* the answer.
SseFits(n, o, a) ==
    /\ a \in SseReplies =>
          \E f \in FramesAt(n \div 2) :
              /\ Says(f) = a /\ (o => f[2] < n \div 2)
              /\ \A g \in FramesAt(n \div 2) : g[1] < f[1] => Says(g) \notin Telling
    /\ a = "reading" => \A f \in ClosedAt(n \div 2) : Says(f) \notin Telling
    /\ a = "malformed" =>
          \/ \E f \in FramesAt(n \div 2) : Says(f) = "broken" /\ (o => f[2] < n \div 2)
          \/ ~o /\ (n % 2 = 1 \/ \A f \in FramesAt(n \div 2) : Says(f) \notin SseReplies)

SseAnswers == SseReplies \cup {"reading", "malformed", "transport"}

SseWorks == SseTypeOK /\ body \in Seq(Lines) /\ SseFits(got, open, answer)

LEMMA SseWorksIsEnough == ASSUME SseWorks PROVE ReplyIsTheFirst
<1>1. Frames = FramesAt(Heard)
  BY DEF Frames, Frame, FramesAt
<1>2. /\ got \in Nat /\ open \in BOOLEAN /\ SseTypeOK /\ SseFits(got, open, answer)
  BY DEF SseWorks, SseTypeOK
<1>3. \A f \in FramesAt(Heard) : f[2] < Heard <=> f \in ClosedAt(Heard)
  BY DEF ClosedAt
<1>4. \A what : FramesOf(what) = {f \in FramesAt(Heard) : Says(f) \in what}
  BY <1>1 DEF FramesOf, Says
<1>5. AnswerIsTheFirstReply
  BY <1>1, <1>2, <1>4 DEF AnswerIsTheFirstReply, Terminated, Before, Heard, SseFits, Telling
<1>6. ReadsNoFurther
  BY <1>2, <1>3, <1>4 DEF ReadsNoFurther, Terminated, Heard, SseFits, Telling
<1>7. ChunksAreNoError
  BY <1>2, <1>4 DEF ChunksAreNoError, Terminated, Heard, SseFits
<1> QED
  BY <1>2, <1>5, <1>6, <1>7 DEF ReplyIsTheFirst

LEMMA SseStarts == ASSUME RepliesAssumption, SseInit PROVE SseWorks
<1>1. PICK n \in 1..MaxLines : body \in [1..n -> Lines]
  BY DEF SseInit
<1>2. n \in Nat
  BY DEF RepliesAssumption
<1>3. body \in Seq(Lines) /\ Len(body) = n
  BY <1>1, <1>2
<1>4. got = 0 /\ open = TRUE /\ answer = "reading"
  BY DEF SseInit
<1>5. SseTypeOK
  BY <1>2, <1>3, <1>4 DEF SseTypeOK
<1>6. SseFits(0, TRUE, "reading")
  <2>1. 0 \div 2 = 0
    OBVIOUS
  <2>2. ClosedAt(0) = {}
    BY DEF ClosedAt, FramesAt
  <2>3. "reading" \notin SseReplies
    BY DEF SseReplies, RepliesAssumption
  <2> QED
    BY <2>1, <2>2, <2>3 DEF SseFits
<1> QED
  BY <1>3, <1>4, <1>5, <1>6 DEF SseWorks

LEMMA ChunkFits ==
    ASSUME RepliesAssumption, SseWorks, Chunk
    PROVE  got' \in 0..(2 * Len(body)) /\ answer' \in SseAnswers /\ SseFits(got', TRUE, answer')
<1> DEFINE h == got' \div 2
<1>1. /\ got' \in 0..(2 * Len(body)) /\ got' \in Nat
      /\ body \in Seq(Lines) /\ Len(body) \in Nat
  BY DEF SseWorks, SseTypeOK, Chunk
<1>2. PICK buffer \in Buffers(got') : answer' = FirstResponse(Complete(buffer), "reading")
  BY DEF Chunk
<1>3. /\ h \in Nat /\ h <= Len(body) /\ buffer \in Seq(Lines)
      /\ \A k \in 1..h : buffer[k] = body[k]
      /\ Len(buffer) = h \/ (Len(buffer) = h + 1 /\ buffer[h + 1] # "blank")
  <2>1. /\ h \in Nat /\ h <= Len(body) /\ buffer \in Seq(Lines)
        /\ \A k \in 1..h : buffer[k] = body[k]
        /\ got' % 2 = 0 => Len(buffer) = h
        /\ got' % 2 # 0 => got' % 2 = 1 /\ Len(buffer) = h + 1
                           /\ buffer[h + 1] \in {"comment", "broken"}
    BY <1>1, BufferIs
  <2> HIDE DEF h
  <2> QED
    BY <2>1
<1> HIDE DEF h
<1> DEFINE lines == Complete(buffer)
<1>4. /\ lines \in Seq(Lines)
      /\ \E m \in 0..h : /\ Len(lines) = m
                         /\ \A k \in 1..m : lines[k] = body[k]
                         /\ FramesAt(m) = ClosedAt(h)
  BY <1>1, <1>3, CompleteIs
<1>5. PICK m \in 0..h : /\ Len(lines) = m
                        /\ \A k \in 1..m : lines[k] = body[k]
                        /\ FramesAt(m) = ClosedAt(h)
  BY <1>4
<1>6. m \in Nat /\ m <= Len(body)
  BY <1>1, <1>3
<1> HIDE DEF lines
<1>7. Events(lines) \in Seq(EventKinds) /\ Tells(Events(lines), ClosedAt(h))
  BY <1>1, <1>4, <1>5, <1>6, WholeIsTold
<1>8. /\ \A f \in FramesAt(h) : /\ f[1] \in 1..h /\ f[2] \in 1..h /\ f[1] <= f[2]
                                /\ f[1] = 1 \/ body[f[1] - 1] = "blank"
                                /\ \A k \in f[1]..f[2] : body[k] # "blank"
      /\ ClosedAt(h) = {f \in FramesAt(h) : f[2] < h}
  BY DEF FramesAt, ClosedAt
<1>9. \/ answer' = "malformed" /\ \E f \in ClosedAt(h) : Says(f) = "broken"
      \/ /\ answer' \in SseReplies
         /\ \E f \in ClosedAt(h) : /\ Says(f) = answer'
                                   /\ \A g \in ClosedAt(h) : g[1] < f[1] => Says(g) \notin Telling
      \/ answer' = "reading" /\ \A f \in ClosedAt(h) : Says(f) \notin Telling
  <2>1. \A f \in ClosedAt(h) : f[1] \in Nat
    BY <1>8
  <2>2. answer' = FirstResponse(lines, "reading")
    BY <1>2 DEF lines
  <2> QED
    BY <1>7, <2>1, <2>2, ResponseOf
\* A frame before a closed one is closed.
<1>10. ASSUME NEW f \in ClosedAt(h), NEW g \in FramesAt(h), g[1] < f[1]
       PROVE  g \in ClosedAt(h)
  <2>1. f \in FramesAt(h) /\ f[2] < h
    BY <1>8
  <2>2. f[1] - 1 \notin g[1]..g[2]
    <3>1. f[1] # 1
      BY <1>8, <1>10
    <3>2. body[f[1] - 1] = "blank"
      BY <1>8, <2>1, <3>1
    <3> QED
      BY <1>8, <3>2
  <2>3. g[2] < h
    <3>1. /\ f[1] \in 1..h /\ g[1] \in 1..h /\ g[2] \in 1..h /\ g[1] < f[1]
          /\ h \in Nat
      BY <1>3, <1>8, <1>10, <2>1
    <3> QED
      BY ONLY <2>2, <3>1
  <2> QED
    BY <1>8, <2>3
<1>11. "malformed" \notin SseReplies /\ "reading" \notin SseReplies
  BY DEF SseReplies, RepliesAssumption
<1>12. answer' \in SseAnswers
  BY <1>9 DEF SseAnswers
<1>13. SseFits(got', TRUE, answer')
  <2>1. answer' \in SseReplies =>
          \E f \in FramesAt(h) :
              /\ Says(f) = answer' /\ f[2] < h
              /\ \A g \in FramesAt(h) : g[1] < f[1] => Says(g) \notin Telling
    <3>1. SUFFICES ASSUME answer' \in SseReplies
                   PROVE  \E f \in FramesAt(h) :
                              /\ Says(f) = answer' /\ f[2] < h
                              /\ \A g \in FramesAt(h) : g[1] < f[1] => Says(g) \notin Telling
      OBVIOUS
    <3>2. PICK f \in ClosedAt(h) : /\ Says(f) = answer'
                                   /\ \A g \in ClosedAt(h) : g[1] < f[1] => Says(g) \notin Telling
      BY <1>9, <1>11, <3>1
    <3>3. f \in FramesAt(h) /\ f[2] < h
      BY <1>8
    <3>4. \A g \in FramesAt(h) : g[1] < f[1] => Says(g) \notin Telling
      BY <1>10, <3>2
    <3> QED
      BY <3>2, <3>3, <3>4
  <2>2. answer' = "reading" => \A f \in ClosedAt(h) : Says(f) \notin Telling
    BY <1>9, <1>11
  <2>3. answer' = "malformed" => \E f \in FramesAt(h) : Says(f) = "broken" /\ f[2] < h
    BY <1>8, <1>9, <1>11
  <2> QED
    BY <2>1, <2>2, <2>3 DEF SseFits, h
<1> QED
  BY <1>1, <1>12, <1>13

LEMMA StreamEndsFits ==
    ASSUME RepliesAssumption, SseWorks, StreamEnds
    PROVE  answer' \in SseAnswers /\ SseFits(got, FALSE, answer')
<1> DEFINE h == got \div 2
<1>1. /\ got \in 0..(2 * Len(body)) /\ got \in Nat
      /\ body \in Seq(Lines) /\ Len(body) \in Nat
  BY DEF SseWorks, SseTypeOK
<1>2. PICK buffer \in Buffers(got) : answer' = FirstResponse(buffer, "malformed")
  BY DEF StreamEnds
<1>3. /\ h \in Nat /\ h <= Len(body) /\ buffer \in Seq(Lines)
      /\ \A k \in 1..h : buffer[k] = body[k]
      /\ got % 2 = 0 => Len(buffer) = h
      /\ got % 2 # 0 => got % 2 = 1 /\ Len(buffer) = h + 1
                         /\ buffer[h + 1] \in {"comment", "broken"}
  BY <1>1, BufferIs
<1>4. "malformed" \notin SseReplies /\ "malformed" # "reading"
  BY DEF SseReplies, RepliesAssumption
<1>5. \A f \in FramesAt(h) : f[1] \in Nat
  BY DEF FramesAt
<1>6. "reading" \notin SseReplies
  BY DEF SseReplies, RepliesAssumption
<1>7. CASE got % 2 # 0 /\ buffer[h + 1] = "broken"
  <2> HIDE DEF h
  <2>1. answer' = "malformed"
    BY <1>1, <1>2, <1>3, <1>7, CutIsMalformed
  <2> QED
    BY <1>3, <1>4, <1>7, <2>1 DEF SseFits, SseAnswers
<1>8. CASE got % 2 = 0 \/ buffer[h + 1] = "comment"
  <2> HIDE DEF h
  <2>1. Len(buffer) = h \/ (Len(buffer) = h + 1 /\ buffer[h + 1] = "comment")
    BY <1>3, <1>8
  <2>2. Events(buffer) \in Seq(EventKinds) /\ Tells(Events(buffer), FramesAt(h))
    BY <1>1, <1>3, <2>1, WholeIsTold
  <2>3. \/ answer' = "malformed" /\ \E f \in FramesAt(h) : Says(f) = "broken"
        \/ /\ answer' \in SseReplies
           /\ \E f \in FramesAt(h) : /\ Says(f) = answer'
                                     /\ \A g \in FramesAt(h) : g[1] < f[1] => Says(g) \notin Telling
        \/ answer' = "malformed" /\ \A f \in FramesAt(h) : Says(f) \notin Telling
    BY <1>2, <1>5, <2>2, ResponseOf
  <2>4. answer' \in SseAnswers /\ answer' # "reading"
    BY <1>4, <1>6, <2>3 DEF SseAnswers
  <2>5. answer' \in SseReplies =>
           \E f \in FramesAt(h) : /\ Says(f) = answer'
                                  /\ \A g \in FramesAt(h) : g[1] < f[1] => Says(g) \notin Telling
    BY <1>4, <2>3
  <2>6. answer' = "malformed" => \/ \E f \in FramesAt(h) : Says(f) = "broken"
                                 \/ \A f \in FramesAt(h) : Says(f) \notin SseReplies
    BY <1>4, <2>3 DEF Telling
  <2> QED
    BY <2>4, <2>5, <2>6 DEF SseFits, h
<1> QED
  BY <1>3, <1>7, <1>8

LEMMA SseStep == ASSUME RepliesAssumption, SseWorks, [SseNext]_sseVars PROVE SseWorks'
<1>1. /\ SseTypeOK /\ body \in Seq(Lines) /\ SseFits(got, open, answer)
  BY DEF SseWorks
<1>2. ASSUME body' = body, NEW n, n = got', NEW o, o = open', NEW a, a = answer',
             SseFits(n, o, a)
      PROVE  SseFits(got, open, answer)'
  <2>1. FramesAt(got \div 2)' = FramesAt(n \div 2)
    BY <1>2 DEF FramesAt
  <2>2. ClosedAt(got \div 2)' = ClosedAt(n \div 2)
    BY <1>2, <2>1 DEF ClosedAt
  <2>3. \A f : Says(f)' = Says(f)
    BY <1>2 DEF Says, DataOf
  <2> QED
    BY <1>2, <2>1, <2>2, <2>3 DEF SseFits
<1>3. ASSUME body' = body, got' \in 0..(2 * Len(body)), open' \in BOOLEAN,
             answer' \in SseAnswers
      PROVE  SseTypeOK' /\ (body \in Seq(Lines))'
  BY <1>1, <1>3 DEF SseTypeOK, SseAnswers
<1>4. /\ got \in 0..(2 * Len(body)) /\ open \in BOOLEAN /\ answer \in SseAnswers
  BY <1>1 DEF SseTypeOK, SseAnswers
<1>5. CASE Chunk
  <2>1. /\ got' \in 0..(2 * Len(body)) /\ answer' \in SseAnswers /\ SseFits(got', TRUE, answer')
    BY <1>5, ChunkFits
  <2>2. body' = body /\ open' = TRUE
    BY <1>4, <1>5 DEF Chunk
  <2> QED
    BY <1>2, <1>3, <2>1, <2>2 DEF SseWorks
<1>6. CASE StreamEnds
  <2>1. answer' \in SseAnswers /\ SseFits(got, FALSE, answer')
    BY <1>6, StreamEndsFits
  <2>2. body' = body /\ open' = FALSE /\ got' = got
    BY <1>6 DEF StreamEnds
  <2> QED
    BY <1>2, <1>3, <1>4, <2>1, <2>2 DEF SseWorks
<1>7. CASE ReadFails
  <2>1. body' = body /\ open' = open /\ got' = got /\ answer' = "transport"
    BY <1>7 DEF ReadFails
  <2>2. SseFits(got, open, "transport")
    BY DEF SseFits, SseReplies, RepliesAssumption
  <2>3. "transport" \in SseAnswers
    BY DEF SseAnswers
  <2> QED
    BY <1>2, <1>3, <1>4, <2>1, <2>2, <2>3 DEF SseWorks
<1>8. CASE UNCHANGED sseVars
  <2>1. body' = body /\ open' = open /\ got' = got /\ answer' = answer
    BY <1>8 DEF sseVars
  <2> QED
    BY <1>1, <1>2, <1>3, <1>4, <2>1 DEF SseWorks
<1> QED
  BY <1>5, <1>6, <1>7, <1>8 DEF SseNext

\* However a body is cut into chunks and whenever it stops, the reply is that of the first
\* reply frame, nothing is waited for once it is there, and a call fails only for a frame
\* that is broken as the server sent it or for a stream that ends too early.
\* (transport/http/sse.rs:42-66, transport/http/mod.rs read_sse_payload)
THEOREM RepliesAreRead == SseSpec => []ReplyIsTheFirst
<1>1. SseInit => SseWorks
  BY SseStarts, RepliesAssumption
<1>2. SseWorks /\ [SseNext]_sseVars => SseWorks'
  BY SseStep, RepliesAssumption
<1>3. SseWorks => ReplyIsTheFirst
  BY SseWorksIsEnough
<1> QED
  BY <1>1, <1>2, <1>3, PTL DEF SseSpec

-----------------------------------------------------------------------------
(* SpawnPath: for any PATHs, directories, listings and launches.             *)

\* The directories a PATH may name, and the empty entry.
PathEntries == Dirs \cup {<<>>} \cup {<<"nvm">> \o v : v \in Seq(Nat)}

NvmEntries == [version : Seq(Nat), bin : BOOLEAN]

LEMMA PushIs ==
    ASSUME NEW dirs \in Seq(PathEntries), NEW dir \in PathEntries
    PROVE  PushIfDir(dirs, dir) \in Seq(PathEntries)
BY DEF PushIfDir

LEMMA KeepIs ==
    ASSUME NEW merged \in Seq(PathEntries), NEW entry \in PathEntries
    PROVE  KeepFirst(merged, entry) \in Seq(PathEntries)
BY DEF KeepFirst

LEMMA LaterIs ==
    ASSUME NEW best \in Seq(Nat), NEW entry \in NvmEntries
    PROVE  LaterBin(best, entry) \in Seq(Nat)
BY DEF LaterBin, NvmEntries

\* push_if_dir, directory by directory.
LEMMA PushSteps ==
    ASSUME NEW base \in Seq(PathEntries), NEW s \in Seq(PathEntries)
    PROVE  \E at : /\ at[0] = base /\ FoldLeft(PushIfDir, base, s) = at[Len(s)]
                   /\ \A k \in 0 .. Len(s) - 1 : at[k + 1] = PushIfDir(at[k], s[k + 1])
<1> DEFINE n == Len(s)
<1> DEFINE step == [x \in (Seq(PathEntries)) \X (1 .. n) |-> PushIfDir(x[1], s[x[2]])]
<1> DEFINE Body(f) == [t \in SUBSET (1 .. n) |->
               IF t = {} THEN base ELSE PushIfDir(f[t \ {Max(t)}], s[Max(t)])]
<1>1. n \in Nat /\ DOMAIN s = 1 .. n /\ \A i \in 1 .. n : s[i] \in PathEntries
  OBVIOUS
<1>2. step \in StepsOver(Seq(PathEntries), n)
      /\ \A x \in Seq(PathEntries), i \in 1 .. n : step[<<x, i>>] = PushIfDir(x, s[i])
  <2>1. ASSUME NEW x \in (Seq(PathEntries)) \X (1 .. n)
        PROVE  PushIfDir(x[1], s[x[2]]) \in Seq(PathEntries)
    BY <1>1, PushIs
  <2> QED
    BY <2>1 DEF StepsOver
<1> HIDE DEF n, step
<1>3. PICK f : FoldsUp(f, Seq(PathEntries), n, base, step)
  BY ONLY <1>1, <1>2, base \in Seq(PathEntries), FoldIsThere
<1>4. f = Body(f)
  <2>1. ASSUME NEW t \in SUBSET (1 .. n)
        PROVE  f[t] = IF t = {} THEN base ELSE PushIfDir(f[t \ {Max(t)}], s[Max(t)])
    <3>1. CASE t = {}
      BY <1>3, <3>1 DEF FoldsUp
    <3>2. CASE t # {}
      <4>1. t \ {Max(t)} \in SUBSET (1 .. n) /\ Max(t) \in 1 .. n
        BY <1>1, <3>2, MaxIsThere
      <4>2. f[t \ {Max(t)}] \in Seq(PathEntries)
        BY <1>3, <4>1 DEF FoldsUp
      <4>3. f[t] = step[<<f[t \ {Max(t)}], Max(t)>>]
        BY <1>3, <3>2 DEF FoldsUp
      <4> QED
        BY <1>2, <3>2, <4>1, <4>2, <4>3
    <3> QED
      BY <3>1, <3>2
  <2>2. f \in [SUBSET (1 .. n) -> Seq(PathEntries)]
    BY <1>3 DEF FoldsUp
  <2> QED
    BY <2>1, <2>2
<1> DEFINE iter == CHOOSE g : g = Body(g)
<1>5. iter = Body(iter)
  BY <1>4
<1>6. FoldLeft(PushIfDir, base, s) = iter[1 .. n]
  BY <1>1, Zenon DEF FoldLeft, MapThenFoldSet
<1> HIDE DEF iter
<1>7. \A t \in SUBSET (1 .. n) :
         iter[t] = IF t = {} THEN base ELSE PushIfDir(iter[t \ {Max(t)}], s[Max(t)])
  BY <1>5
<1> DEFINE at == [k \in 0 .. n |-> iter[1 .. k]]
<1>8. at[0] = base /\ at[n] = iter[1 .. n]
  <2>1. 0 \in 0 .. n /\ n \in 0 .. n
    BY ONLY <1>1
  <2>2. at[0] = iter[1 .. 0] /\ at[n] = iter[1 .. n]
    BY ONLY <2>1
  <2>3. 1 .. 0 = {} /\ {} \in SUBSET (1 .. n)
    BY SegmentIs
  <2>4. iter[{}] = base
    BY <1>7, <2>3
  <2> QED
    BY <2>2, <2>3, <2>4
<1>9. ASSUME NEW k \in 0 .. n - 1
      PROVE  at[k + 1] = PushIfDir(at[k], s[k + 1])
  <2>1. k \in Nat /\ k \in 0 .. n /\ k + 1 \in 0 .. n /\ 1 .. (k + 1) \in SUBSET (1 .. n)
    BY <1>1
  <2>2. PICK t \in SUBSET (1 .. n) : t = 1 .. (k + 1)
    BY <2>1
  <2>3. t # {} /\ Max(t) = k + 1 /\ t \ {k + 1} = 1 .. k
    BY <2>1, <2>2, SegmentIs
  <2>4. iter[t] = PushIfDir(iter[t \ {Max(t)}], s[Max(t)])
    BY <1>7, <2>3
  <2> QED
    BY <2>1, <2>2, <2>3, <2>4
<1> HIDE DEF at
<1> QED
  BY <1>6, <1>8, <1>9 DEF n

\* merge_path_strings, entry by entry.
LEMMA KeepSteps ==
    ASSUME NEW base \in Seq(PathEntries), NEW s \in Seq(PathEntries)
    PROVE  \E at : /\ at[0] = base /\ FoldLeft(KeepFirst, base, s) = at[Len(s)]
                   /\ \A k \in 0 .. Len(s) - 1 : at[k + 1] = KeepFirst(at[k], s[k + 1])
<1> DEFINE n == Len(s)
<1> DEFINE step == [x \in (Seq(PathEntries)) \X (1 .. n) |-> KeepFirst(x[1], s[x[2]])]
<1> DEFINE Body(f) == [t \in SUBSET (1 .. n) |->
               IF t = {} THEN base ELSE KeepFirst(f[t \ {Max(t)}], s[Max(t)])]
<1>1. n \in Nat /\ DOMAIN s = 1 .. n /\ \A i \in 1 .. n : s[i] \in PathEntries
  OBVIOUS
<1>2. step \in StepsOver(Seq(PathEntries), n)
      /\ \A x \in Seq(PathEntries), i \in 1 .. n : step[<<x, i>>] = KeepFirst(x, s[i])
  <2>1. ASSUME NEW x \in (Seq(PathEntries)) \X (1 .. n)
        PROVE  KeepFirst(x[1], s[x[2]]) \in Seq(PathEntries)
    BY <1>1, KeepIs
  <2> QED
    BY <2>1 DEF StepsOver
<1> HIDE DEF n, step
<1>3. PICK f : FoldsUp(f, Seq(PathEntries), n, base, step)
  BY ONLY <1>1, <1>2, base \in Seq(PathEntries), FoldIsThere
<1>4. f = Body(f)
  <2>1. ASSUME NEW t \in SUBSET (1 .. n)
        PROVE  f[t] = IF t = {} THEN base ELSE KeepFirst(f[t \ {Max(t)}], s[Max(t)])
    <3>1. CASE t = {}
      BY <1>3, <3>1 DEF FoldsUp
    <3>2. CASE t # {}
      <4>1. t \ {Max(t)} \in SUBSET (1 .. n) /\ Max(t) \in 1 .. n
        BY <1>1, <3>2, MaxIsThere
      <4>2. f[t \ {Max(t)}] \in Seq(PathEntries)
        BY <1>3, <4>1 DEF FoldsUp
      <4>3. f[t] = step[<<f[t \ {Max(t)}], Max(t)>>]
        BY <1>3, <3>2 DEF FoldsUp
      <4> QED
        BY <1>2, <3>2, <4>1, <4>2, <4>3
    <3> QED
      BY <3>1, <3>2
  <2>2. f \in [SUBSET (1 .. n) -> Seq(PathEntries)]
    BY <1>3 DEF FoldsUp
  <2> QED
    BY <2>1, <2>2
<1> DEFINE iter == CHOOSE g : g = Body(g)
<1>5. iter = Body(iter)
  BY <1>4
<1>6. FoldLeft(KeepFirst, base, s) = iter[1 .. n]
  BY <1>1, Zenon DEF FoldLeft, MapThenFoldSet
<1> HIDE DEF iter
<1>7. \A t \in SUBSET (1 .. n) :
         iter[t] = IF t = {} THEN base ELSE KeepFirst(iter[t \ {Max(t)}], s[Max(t)])
  BY <1>5
<1> DEFINE at == [k \in 0 .. n |-> iter[1 .. k]]
<1>8. at[0] = base /\ at[n] = iter[1 .. n]
  <2>1. 0 \in 0 .. n /\ n \in 0 .. n
    BY ONLY <1>1
  <2>2. at[0] = iter[1 .. 0] /\ at[n] = iter[1 .. n]
    BY ONLY <2>1
  <2>3. 1 .. 0 = {} /\ {} \in SUBSET (1 .. n)
    BY SegmentIs
  <2>4. iter[{}] = base
    BY <1>7, <2>3
  <2> QED
    BY <2>2, <2>3, <2>4
<1>9. ASSUME NEW k \in 0 .. n - 1
      PROVE  at[k + 1] = KeepFirst(at[k], s[k + 1])
  <2>1. k \in Nat /\ k \in 0 .. n /\ k + 1 \in 0 .. n /\ 1 .. (k + 1) \in SUBSET (1 .. n)
    BY <1>1
  <2>2. PICK t \in SUBSET (1 .. n) : t = 1 .. (k + 1)
    BY <2>1
  <2>3. t # {} /\ Max(t) = k + 1 /\ t \ {k + 1} = 1 .. k
    BY <2>1, <2>2, SegmentIs
  <2>4. iter[t] = KeepFirst(iter[t \ {Max(t)}], s[Max(t)])
    BY <1>7, <2>3
  <2> QED
    BY <2>1, <2>2, <2>3, <2>4
<1> HIDE DEF at
<1> QED
  BY <1>6, <1>8, <1>9 DEF n

\* nvm_latest_bin_dir, entry by entry.
LEMMA LaterSteps ==
    ASSUME NEW base \in Seq(Nat), NEW s \in Seq(NvmEntries)
    PROVE  \E at : /\ at[0] = base /\ FoldLeft(LaterBin, base, s) = at[Len(s)]
                   /\ \A k \in 0 .. Len(s) - 1 : at[k + 1] = LaterBin(at[k], s[k + 1])
<1> DEFINE n == Len(s)
<1> DEFINE step == [x \in (Seq(Nat)) \X (1 .. n) |-> LaterBin(x[1], s[x[2]])]
<1> DEFINE Body(f) == [t \in SUBSET (1 .. n) |->
               IF t = {} THEN base ELSE LaterBin(f[t \ {Max(t)}], s[Max(t)])]
<1>1. n \in Nat /\ DOMAIN s = 1 .. n /\ \A i \in 1 .. n : s[i] \in NvmEntries
  OBVIOUS
<1>2. step \in StepsOver(Seq(Nat), n)
      /\ \A x \in Seq(Nat), i \in 1 .. n : step[<<x, i>>] = LaterBin(x, s[i])
  <2>1. ASSUME NEW x \in (Seq(Nat)) \X (1 .. n)
        PROVE  LaterBin(x[1], s[x[2]]) \in Seq(Nat)
    BY <1>1, LaterIs
  <2> QED
    BY <2>1 DEF StepsOver
<1> HIDE DEF n, step
<1>3. PICK f : FoldsUp(f, Seq(Nat), n, base, step)
  BY ONLY <1>1, <1>2, base \in Seq(Nat), FoldIsThere
<1>4. f = Body(f)
  <2>1. ASSUME NEW t \in SUBSET (1 .. n)
        PROVE  f[t] = IF t = {} THEN base ELSE LaterBin(f[t \ {Max(t)}], s[Max(t)])
    <3>1. CASE t = {}
      BY <1>3, <3>1 DEF FoldsUp
    <3>2. CASE t # {}
      <4>1. t \ {Max(t)} \in SUBSET (1 .. n) /\ Max(t) \in 1 .. n
        BY <1>1, <3>2, MaxIsThere
      <4>2. f[t \ {Max(t)}] \in Seq(Nat)
        BY <1>3, <4>1 DEF FoldsUp
      <4>3. f[t] = step[<<f[t \ {Max(t)}], Max(t)>>]
        BY <1>3, <3>2 DEF FoldsUp
      <4> QED
        BY <1>2, <3>2, <4>1, <4>2, <4>3
    <3> QED
      BY <3>1, <3>2
  <2>2. f \in [SUBSET (1 .. n) -> Seq(Nat)]
    BY <1>3 DEF FoldsUp
  <2> QED
    BY <2>1, <2>2
<1> DEFINE iter == CHOOSE g : g = Body(g)
<1>5. iter = Body(iter)
  BY <1>4
<1>6. FoldLeft(LaterBin, base, s) = iter[1 .. n]
  BY <1>1, Zenon DEF FoldLeft, MapThenFoldSet
<1> HIDE DEF iter
<1>7. \A t \in SUBSET (1 .. n) :
         iter[t] = IF t = {} THEN base ELSE LaterBin(iter[t \ {Max(t)}], s[Max(t)])
  BY <1>5
<1> DEFINE at == [k \in 0 .. n |-> iter[1 .. k]]
<1>8. at[0] = base /\ at[n] = iter[1 .. n]
  <2>1. 0 \in 0 .. n /\ n \in 0 .. n
    BY ONLY <1>1
  <2>2. at[0] = iter[1 .. 0] /\ at[n] = iter[1 .. n]
    BY ONLY <2>1
  <2>3. 1 .. 0 = {} /\ {} \in SUBSET (1 .. n)
    BY SegmentIs
  <2>4. iter[{}] = base
    BY <1>7, <2>3
  <2> QED
    BY <2>2, <2>3, <2>4
<1>9. ASSUME NEW k \in 0 .. n - 1
      PROVE  at[k + 1] = LaterBin(at[k], s[k + 1])
  <2>1. k \in Nat /\ k \in 0 .. n /\ k + 1 \in 0 .. n /\ 1 .. (k + 1) \in SUBSET (1 .. n)
    BY <1>1
  <2>2. PICK t \in SUBSET (1 .. n) : t = 1 .. (k + 1)
    BY <2>1
  <2>3. t # {} /\ Max(t) = k + 1 /\ t \ {k + 1} = 1 .. k
    BY <2>1, <2>2, SegmentIs
  <2>4. iter[t] = LaterBin(iter[t \ {Max(t)}], s[Max(t)])
    BY <1>7, <2>3
  <2> QED
    BY <2>1, <2>2, <2>3, <2>4
<1> HIDE DEF at
<1> QED
  BY <1>6, <1>8, <1>9 DEF n

-----------------------------------------------------------------------------
(* Versions.                                                                 *)

\* The first place where v and w differ: it is where v ends, or has less.
DiffersAt(v, w, k) ==
    /\ k \in 1 .. Len(w) /\ k <= Len(v) + 1
    /\ \A j \in 1 .. (k - 1) : v[j] = w[j]
    /\ k = Len(v) + 1 \/ v[k] < w[k]

\* The first k of s.
LEMMA FirstOnes ==
    ASSUME NEW s \in Seq(Nat), NEW k \in Nat, k <= Len(s)
    PROVE  /\ SubSeq(s, 1, k) \in Seq(Nat) /\ Len(SubSeq(s, 1, k)) = k
           /\ \A i \in 1..k : SubSeq(s, 1, k)[i] = s[i]
OBVIOUS

LEMMA SubSeqsAgree ==
    ASSUME NEW v \in Seq(Nat), NEW w \in Seq(Nat), NEW k \in Nat, k <= Len(v), k <= Len(w)
    PROVE  SubSeq(v, 1, k) = SubSeq(w, 1, k) <=> \A j \in 1 .. k : v[j] = w[j]
<1> DEFINE a == SubSeq(v, 1, k)
<1> DEFINE b == SubSeq(w, 1, k)
<1>1. a \in Seq(Nat) /\ Len(a) = k /\ \A i \in 1..k : a[i] = v[i]
  BY FirstOnes
<1>2. b \in Seq(Nat) /\ Len(b) = k /\ \A i \in 1..k : b[i] = w[i]
  BY FirstOnes
<1> HIDE DEF a, b
<1>3. a \in [1..k -> Nat] /\ b \in [1..k -> Nat]
  <2>1. \A s \in Seq(Nat) : s \in [1..Len(s) -> Nat]
    OBVIOUS
  <2> QED
    BY ONLY <1>1, <1>2, <2>1
<1>4. a = b <=> \A i \in 1..k : a[i] = b[i]
  BY <1>3
<1>5. a = b <=> \A j \in 1..k : v[j] = w[j]
  BY ONLY <1>1, <1>2, <1>4
<1> QED
  BY <1>5 DEF a, b

LEMMA SameSeq ==
    ASSUME NEW v \in Seq(Nat), NEW w \in Seq(Nat), Len(v) = Len(w),
           \A j \in 1 .. Len(v) : v[j] = w[j]
    PROVE  v = w
<1>1. PICK n \in Nat : n = Len(v)
  OBVIOUS
<1>2. v \in [1 .. n -> Nat] /\ w \in [1 .. n -> Nat]
  BY <1>1
<1> QED
  BY <1>1, <1>2

LEMMA BelowIs ==
    ASSUME NEW v \in Seq(Nat), NEW w \in Seq(Nat)
    PROVE  Below(v, w) <=> \E k \in Nat : DiffersAt(v, w, k)
<1>0. Len(v) \in Nat /\ Len(w) \in Nat
  OBVIOUS
<1>1. ASSUME IsStrictPrefix(v, w)
      PROVE  DiffersAt(v, w, Len(v) + 1)
  <2>1. Len(v) <= Len(w) /\ SubSeq(v, 1, Len(v)) = SubSeq(w, 1, Len(v)) /\ v # w
    BY <1>1 DEF IsStrictPrefix, IsPrefix
  <2>2. \A j \in 1 .. Len(v) : v[j] = w[j]
    BY <1>0, <2>1, SubSeqsAgree
  <2>3. Len(v) # Len(w)
    BY <2>1, <2>2, SameSeq
  <2>4. Len(v) + 1 \in 1 .. Len(w) /\ Len(v) + 1 <= Len(v) + 1 /\ (Len(v) + 1) - 1 = Len(v)
    BY ONLY <1>0, <2>1, <2>3
  <2> QED
    BY ONLY <2>2, <2>4 DEF DiffersAt
<1>2. ASSUME NEW k \in 1 .. Len(v), k <= Len(w),
             SubSeq(v, 1, k - 1) = SubSeq(w, 1, k - 1), v[k] < w[k]
      PROVE  DiffersAt(v, w, k)
  <2>1. k - 1 \in Nat /\ k - 1 <= Len(v) /\ k - 1 <= Len(w) /\ k \in 1 .. Len(w) /\ k <= Len(v) + 1
    BY ONLY <1>0, <1>2, k \in 1 .. Len(v)
  <2>2. \A j \in 1 .. (k - 1) : v[j] = w[j]
    BY <1>2, <2>1, SubSeqsAgree
  <2> QED
    BY ONLY <1>2, <2>1, <2>2 DEF DiffersAt
<1>3. ASSUME NEW k \in Nat, DiffersAt(v, w, k), k = Len(v) + 1
      PROVE  IsStrictPrefix(v, w)
  <2>1. k <= Len(w) /\ \A j \in 1 .. (k - 1) : v[j] = w[j]
    BY <1>0, <1>3 DEF DiffersAt
  <2>2. k - 1 = Len(v) /\ Len(v) <= Len(w) /\ Len(v) # Len(w)
    BY ONLY <1>0, <1>3, <2>1
  <2>3. SubSeq(v, 1, Len(v)) = SubSeq(w, 1, Len(v))
    BY <1>0, <2>1, <2>2, SubSeqsAgree
  <2> QED
    BY <2>2, <2>3 DEF IsStrictPrefix, IsPrefix
<1>4. ASSUME NEW k \in Nat, DiffersAt(v, w, k), k # Len(v) + 1
      PROVE  /\ k \in 1 .. Len(v) /\ k <= Len(w) /\ v[k] < w[k]
             /\ SubSeq(v, 1, k - 1) = SubSeq(w, 1, k - 1)
  <2>1. /\ k \in 1 .. Len(w) /\ k <= Len(v) + 1 /\ v[k] < w[k]
        /\ \A j \in 1 .. (k - 1) : v[j] = w[j]
    BY <1>4 DEF DiffersAt
  <2>2. k \in 1 .. Len(v) /\ k <= Len(w) /\ k - 1 \in Nat /\ k - 1 <= Len(v) /\ k - 1 <= Len(w)
    BY ONLY <1>0, <1>4, <2>1, k \in Nat
  <2>3. SubSeq(v, 1, k - 1) = SubSeq(w, 1, k - 1)
    BY <2>1, <2>2, SubSeqsAgree
  <2> QED
    BY <2>1, <2>2, <2>3
<1>5. ASSUME Below(v, w) PROVE \E k \in Nat : DiffersAt(v, w, k)
  <2>1. CASE IsStrictPrefix(v, w)
    BY <1>0, <1>1, <2>1
  <2>2. ASSUME NEW k \in 1 .. Len(v), k <= Len(w),
               SubSeq(v, 1, k - 1) = SubSeq(w, 1, k - 1), v[k] < w[k]
        PROVE  \E j \in Nat : DiffersAt(v, w, j)
    BY <1>2, <2>2
  <2> QED
    BY <1>5, <2>1, <2>2 DEF Below
<1>6. ASSUME NEW k \in Nat, DiffersAt(v, w, k) PROVE Below(v, w)
  <2>1. CASE k = Len(v) + 1
    BY <1>3, <1>6, <2>1 DEF Below
  <2>2. CASE k # Len(v) + 1
    BY <1>4, <1>6, <2>2 DEF Below
  <2> QED
    BY <2>1, <2>2
<1> QED
  BY <1>5, <1>6

LEMMA BelowIsTransitive ==
    ASSUME NEW v \in Seq(Nat), NEW w \in Seq(Nat), NEW x \in Seq(Nat), Below(v, w), Below(w, x)
    PROVE  Below(v, x)
<1>0. /\ Len(v) \in Nat /\ Len(w) \in Nat /\ Len(x) \in Nat
      /\ \A j \in 1 .. Len(v) : v[j] \in Nat
      /\ \A j \in 1 .. Len(w) : w[j] \in Nat
      /\ \A j \in 1 .. Len(x) : x[j] \in Nat
  OBVIOUS
<1>1. PICK k \in Nat : DiffersAt(v, w, k)
  BY BelowIs
<1>2. PICK m \in Nat : DiffersAt(w, x, m)
  BY BelowIs
<1>3. /\ k \in 1 .. Len(w) /\ k <= Len(v) + 1 /\ \A j \in 1 .. (k - 1) : v[j] = w[j]
      /\ k = Len(v) + 1 \/ v[k] < w[k]
  BY <1>1 DEF DiffersAt
<1>4. /\ m \in 1 .. Len(x) /\ m <= Len(w) + 1 /\ \A j \in 1 .. (m - 1) : w[j] = x[j]
      /\ m = Len(w) + 1 \/ w[m] < x[m]
  BY <1>2 DEF DiffersAt
<1>8. /\ Len(v) \in Nat /\ Len(w) \in Nat /\ Len(x) \in Nat /\ k \in Nat /\ m \in Nat
      /\ k \in 1 .. Len(w) /\ k <= Len(v) + 1 /\ m \in 1 .. Len(x) /\ m <= Len(w) + 1
  BY <1>0, <1>3, <1>4
<1>5. CASE k < m
  <2>1. k \in 1 .. Len(x) /\ k \in 1 .. (m - 1) /\ \A j \in 1 .. (k - 1) : j \in 1 .. (m - 1)
    BY ONLY <1>5, <1>8
  <2>2. w[k] = x[k] /\ \A j \in 1 .. (k - 1) : v[j] = x[j]
    BY ONLY <1>3, <1>4, <2>1
  <2>3. DiffersAt(v, x, k)
    BY ONLY <1>3, <2>1, <2>2 DEF DiffersAt
  <2> QED
    BY <2>3, BelowIs
<1>6. CASE k = m
  <2>1. \A j \in 1 .. (k - 1) : v[j] = x[j]
    BY ONLY <1>3, <1>4, <1>6
  <2>2. m # Len(w) + 1
    BY ONLY <1>0, <1>3, <1>6
  <2>3. k = Len(v) + 1 \/ v[k] < x[k]
    <3>1. CASE k = Len(v) + 1
      BY <3>1
    <3>2. CASE k # Len(v) + 1
      <4>1. k \in 1 .. Len(v) /\ k \in 1 .. Len(w) /\ k \in 1 .. Len(x)
        <5>1. k \in 1 .. Len(v)
          <6>1. PICK n \in Nat : n = Len(v)
            BY ONLY <1>8
          <6>2. k \in Nat /\ k >= 1 /\ k <= n + 1 /\ k # n + 1
            BY ONLY <1>8, <3>2, <6>1
          <6>3. k \in 1 .. n
            BY ONLY <6>2, n \in Nat
          <6> QED
            BY ONLY <6>1, <6>3
        <5>2. k \in 1 .. Len(x)
          BY ONLY <1>6, <1>8
        <5> QED
          BY ONLY <1>8, <5>1, <5>2
      <4>2. v[k] \in Nat /\ w[k] \in Nat /\ x[k] \in Nat /\ v[k] < w[k] /\ w[k] < x[k]
        BY <1>0, <1>3, <1>4, <1>6, <2>2, <3>2, <4>1
      <4> QED
        BY ONLY <4>2
    <3> QED
      BY <3>1, <3>2
  <2>4. DiffersAt(v, x, k)
    BY ONLY <1>3, <1>4, <1>6, <2>1, <2>3 DEF DiffersAt
  <2> QED
    BY <2>4, BelowIs
<1>7. CASE k > m
  <2>1. /\ m \in 1 .. (k - 1) /\ m <= Len(v) + 1 /\ m # Len(w) + 1
        /\ \A j \in 1 .. (m - 1) : j \in 1 .. (k - 1)
    <3>1. PICK p, q : p = Len(v) /\ q = Len(w)
      OBVIOUS
    <3>2. p \in Nat /\ q \in Nat /\ k \in 1 .. q /\ k <= p + 1 /\ m \in Nat /\ m >= 1
      BY ONLY <1>8, <3>1
    <3>3. /\ m \in 1 .. (k - 1) /\ m <= p + 1 /\ m # q + 1
          /\ \A j \in 1 .. (m - 1) : j \in 1 .. (k - 1)
      BY ONLY <1>7, <3>2
    <3> QED
      BY ONLY <3>1, <3>3
  <2>2. v[m] = w[m] /\ w[m] < x[m] /\ \A j \in 1 .. (m - 1) : v[j] = x[j]
    BY ONLY <1>3, <1>4, <2>1
  <2>3. DiffersAt(v, x, m)
    BY ONLY <1>4, <2>1, <2>2 DEF DiffersAt
  <2> QED
    BY <2>3, BelowIs
<1> QED
  BY ONLY <1>3, <1>4, <1>5, <1>6, <1>7

LEMMA BelowIsTotal ==
    ASSUME NEW v \in Seq(Nat), NEW w \in Seq(Nat)
    PROVE  v = w \/ Below(v, w) \/ Below(w, v)
<1> DEFINE n == IF Len(v) <= Len(w) THEN Len(v) ELSE Len(w)
<1> DEFINE D == {k \in 1 .. n : v[k] # w[k]}
<1>1. /\ Len(v) \in Nat /\ Len(w) \in Nat
      /\ \A j \in 1 .. Len(v) : v[j] \in Nat
      /\ \A j \in 1 .. Len(w) : w[j] \in Nat
  OBVIOUS
<1>2. n \in Nat /\ n <= Len(v) /\ n <= Len(w) /\ (n = Len(v) \/ n = Len(w))
  BY ONLY <1>1
<1> HIDE DEF n
<1>3. CASE D # {}
  <2>1. D \in SUBSET (1 .. n)
    OBVIOUS
  <2>2. PICK k : k = Min(D)
    OBVIOUS
  <2>3. k \in D /\ \A i \in D : k <= i
    BY <1>2, <1>3, <2>1, <2>2, MinIsThere
  <2>4. k \in 1 .. n /\ v[k] # w[k]
    BY <2>3
  <2>5. \A j \in 1 .. (k - 1) : v[j] = w[j]
    <3>1. SUFFICES ASSUME NEW j \in 1 .. (k - 1) PROVE v[j] = w[j]
      OBVIOUS
    <3>2. j \in 1 .. n /\ ~(k <= j)
      BY ONLY <1>2, <2>4, j \in 1 .. (k - 1)
    <3>3. j \notin D
      BY <2>3, <3>2
    <3> QED
      BY <3>2, <3>3
  <2>6. k \in Nat /\ k \in 1 .. Len(v) /\ k \in 1 .. Len(w) /\ k <= Len(v) + 1 /\ k <= Len(w) + 1
    BY ONLY <1>1, <1>2, <2>4
  <2>7. v[k] < w[k] \/ w[k] < v[k]
    <3>1. v[k] \in Nat /\ w[k] \in Nat
      BY <1>1, <2>6
    <3> QED
      BY ONLY <2>4, <3>1
  <2>8. DiffersAt(v, w, k) \/ DiffersAt(w, v, k)
    BY ONLY <2>5, <2>6, <2>7 DEF DiffersAt
  <2> QED
    BY <2>6, <2>8, BelowIs
<1>4. CASE D = {}
  <2>1. \A j \in 1 .. n : v[j] = w[j]
    BY <1>4
  <2>2. CASE Len(v) = Len(w)
    <3>1. n = Len(v)
      BY <1>2, <2>2
    <3> QED
      BY <2>1, <2>2, <3>1, SameSeq
  <2>3. CASE Len(v) < Len(w)
    <3>1. /\ n = Len(v) /\ Len(v) + 1 \in 1 .. Len(w) /\ Len(v) + 1 \in Nat
          /\ (Len(v) + 1) - 1 = n /\ Len(v) + 1 <= Len(v) + 1
      BY ONLY <1>1, <1>2, <2>3
    <3>2. DiffersAt(v, w, Len(v) + 1)
      BY ONLY <2>1, <3>1 DEF DiffersAt
    <3> QED
      BY <3>1, <3>2, BelowIs
  <2>4. CASE Len(w) < Len(v)
    <3>1. /\ n = Len(w) /\ Len(w) + 1 \in 1 .. Len(v) /\ Len(w) + 1 \in Nat
          /\ (Len(w) + 1) - 1 = n /\ Len(w) + 1 <= Len(w) + 1
      BY ONLY <1>1, <1>2, <2>4
    <3>2. DiffersAt(w, v, Len(w) + 1)
      BY ONLY <2>1, <3>1 DEF DiffersAt
    <3> QED
      BY <3>1, <3>2, BelowIs
  <2> QED
    BY ONLY <1>1, <2>2, <2>3, <2>4
<1> QED
  BY <1>3, <1>4

\* nvm_latest_bin_dir finds the highest of the usable versions.
LEMMA LatestIs ==
    ASSUME NEW list \in Seq(NvmEntries)
    PROVE  /\ LatestBin(list) \in Seq(Nat)
           /\ LatestBin(list) = <<>> <=>
                 {e \in ToSet(list) : e.bin /\ e.version # <<>>} = {}
           /\ \A e \in ToSet(list) : e.bin /\ e.version # <<>> =>
                 e.version = LatestBin(list) \/ Below(e.version, LatestBin(list))
<1> DEFINE n == Len(list)
<1> DEFINE Usable(i) == list[i].bin /\ list[i].version # <<>>
<1>1. n \in Nat /\ DOMAIN list = 1 .. n
      /\ \A i \in 1 .. n : list[i] \in NvmEntries /\ list[i].version \in Seq(Nat)
  <2>1. n \in Nat /\ DOMAIN list = 1 .. n /\ \A i \in 1 .. n : list[i] \in NvmEntries
    OBVIOUS
  <2>2. \A e \in NvmEntries : e.version \in Seq(Nat)
    BY DEF NvmEntries
  <2> QED
    BY ONLY <2>1, <2>2
<1>2. PICK at : /\ at[0] = <<>> /\ LatestBin(list) = at[n]
                /\ \A k \in 0 .. n - 1 : at[k + 1] = LaterBin(at[k], list[k + 1])
  <2>1. <<>> \in Seq(Nat)
    OBVIOUS
  <2> QED
    BY <2>1, LaterSteps DEF LatestBin
<1> DEFINE Best(k) == /\ at[k] \in Seq(Nat)
                      /\ at[k] = <<>> => \A i \in 1 .. k : ~Usable(i)
                      /\ at[k] # <<>> => \E i \in 1 .. k : Usable(i)
                      /\ \A i \in 1 .. k : Usable(i) =>
                            list[i].version = at[k] \/ Below(list[i].version, at[k])
<1> DEFINE S == {k \in Nat : k <= n => Best(k)}
<1> HIDE DEF n
<1>3. 0 \in S
  <2>1. <<>> \in Seq(Nat) /\ 1 .. 0 = {}
    OBVIOUS
  <2> QED
    BY <1>2, <2>1
<1>4. ASSUME NEW k \in Nat, k \in S
      PROVE  k + 1 \in S
  <2>1. SUFFICES ASSUME k + 1 <= n PROVE Best(k + 1)
    OBVIOUS
  <2>2. k \in 0 .. n - 1 /\ k + 1 \in 1 .. n /\ k <= n /\ 1 .. (k + 1) = (1 .. k) \cup {k + 1}
        /\ \A i \in 1 .. k : i \in 1 .. n
    BY ONLY <1>1, <2>1, k \in Nat
  <2>3. Best(k)
    BY <1>4, <2>2
  <2> DEFINE v == list[k + 1].version
  <2>4. /\ at[k + 1] = LaterBin(at[k], list[k + 1])
        /\ v \in Seq(Nat)
    BY <1>1, <1>2, <2>2
  <2>5. \A i \in 1 .. k : list[i].version \in Seq(Nat)
    BY <1>1, <2>2
  <2>6. CASE ~Usable(k + 1)
    <3>1. at[k + 1] = at[k]
      BY <2>4, <2>6 DEF LaterBin
    <3> HIDE DEF Usable, v
    <3> QED
      BY <2>2, <2>3, <2>6, <3>1
  <2>7. CASE Usable(k + 1) /\ at[k] # <<>> /\ ~Below(at[k], v)
    <3>1. at[k + 1] = at[k]
      BY <2>4, <2>7 DEF LaterBin
    <3>2. v = at[k] \/ Below(v, at[k])
      BY <2>3, <2>4, <2>7, BelowIsTotal
    <3> HIDE DEF Usable
    <3> QED
      BY <2>2, <2>3, <2>7, <3>1, <3>2
  <2>8. CASE Usable(k + 1) /\ (at[k] = <<>> \/ Below(at[k], v))
    <3>1. at[k + 1] = v /\ v # <<>>
      BY <2>4, <2>8 DEF LaterBin
    <3>2. ASSUME NEW i \in 1 .. k, Usable(i)
          PROVE  Below(list[i].version, v)
      <4>1. at[k] # <<>> /\ Below(at[k], v)
        BY <2>3, <2>8, <3>2
      <4>2. list[i].version = at[k] \/ Below(list[i].version, at[k])
        BY <2>3, <3>2
      <4>3. at[k] \in Seq(Nat) /\ list[i].version \in Seq(Nat) /\ v \in Seq(Nat)
        BY <2>3, <2>4, <2>5
      <4> HIDE DEF v
      <4> QED
        BY <4>1, <4>2, <4>3, BelowIsTransitive
    <3> HIDE DEF Usable
    <3> QED
      BY <2>2, <2>4, <2>8, <3>1, <3>2
  <2> HIDE DEF Best, Usable, v
  <2> QED
    BY <2>6, <2>7, <2>8
<1> HIDE DEF S
<1>5. Nat \subseteq S
  BY ONLY <1>3, <1>4, Induction
<1>6. Best(n)
  <2>1. n \in S /\ n <= n
    BY ONLY <1>1, <1>5
  <2> HIDE DEF Best
  <2> QED
    BY ONLY <2>1 DEF S
<1>7. \A e : e \in ToSet(list) <=> \E i \in 1 .. n : list[i] = e
  BY <1>1 DEF ToSet
<1>8. \A e \in ToSet(list) : e.bin /\ e.version # <<>> => \E i \in 1 .. n : list[i] = e /\ Usable(i)
  BY <1>7
<1>9. {e \in ToSet(list) : e.bin /\ e.version # <<>>} = {} <=> \A i \in 1 .. n : ~Usable(i)
  BY <1>7
<1>10. \A e \in ToSet(list) : e.bin /\ e.version # <<>> =>
                 e.version = LatestBin(list) \/ Below(e.version, LatestBin(list))
  BY <1>2, <1>6, <1>8
<1> QED
  BY <1>2, <1>6, <1>9, <1>10

-----------------------------------------------------------------------------
(* Paths.                                                                    *)

Shows(files, d) == d # <<>> /\ d \in files

FoundAt(files, path, k) ==
    /\ k \in 1 .. Len(path) /\ Shows(files, path[k])
    /\ \A j \in 1 .. (k - 1) : ~Shows(files, path[j])

\* A command is found in the first directory that shows it.
LEMMA LocateIs ==
    ASSUME NEW files, NEW path \in Seq(PathEntries)
    PROVE  /\ \A k \in Nat : FoundAt(files, path, k) => Locate(files, path) = path[k]
           /\ Locate(files, path) # <<>> => \E k \in Nat : FoundAt(files, path, k)
           /\ Locate(files, path) = <<>> <=> \A k \in 1 .. Len(path) : ~Shows(files, path[k])
<1> DEFINE n == Len(path)
<1> DEFINE D == {k \in 1 .. n : Shows(files, path[k])}
<1>1. n \in Nat /\ DOMAIN path = 1 .. n
  OBVIOUS
<1>2. Locate(files, path) =
         IF D = {} THEN <<>> ELSE path[CHOOSE k \in D : \A j \in D : k <= j]
  BY <1>1 DEF Locate, Shows
<1>3. D \in SUBSET (1 .. n)
  OBVIOUS
<1> HIDE DEF n
<1>4. ASSUME D # {}
      PROVE  \E k \in D : /\ Locate(files, path) = path[k] /\ k \in Nat
                          /\ \A j \in D : k <= j
  <2> DEFINE First(k) == k \in D /\ \A j \in D : k <= j
  <2>1. First(Min(D))
    BY <1>1, <1>3, <1>4, MinIsThere
  <2>2. First(CHOOSE k \in D : \A j \in D : k <= j)
    BY <2>1
  <2>3. PICK k : k = CHOOSE i \in D : \A j \in D : i <= j
    OBVIOUS
  <2>4. First(k) /\ Locate(files, path) = path[k]
    BY <1>2, <1>4, <2>2, <2>3
  <2>5. k \in Nat
    BY <1>1, <2>4
  <2> QED
    BY <2>4, <2>5
<1>5. D = {} <=> \A k \in 1 .. n : ~Shows(files, path[k])
  OBVIOUS
<1>6. ASSUME NEW k \in Nat, FoundAt(files, path, k)
      PROVE  Locate(files, path) = path[k]
  <2>1. k \in D /\ \A j \in 1 .. (k - 1) : j \notin D
    BY <1>6 DEF FoundAt, n
  <2>2. PICK i \in D : Locate(files, path) = path[i] /\ \A j \in D : i <= j
    BY <1>4, <2>1
  <2>3. i \in 1 .. n /\ k \in 1 .. n /\ i <= k /\ i \notin 1 .. (k - 1)
    BY <2>1, <2>2
  <2>4. i = k
    BY ONLY <1>1, <2>3
  <2> QED
    BY <2>2, <2>4
<1>7. ASSUME D # {}
      PROVE  \E k \in Nat : FoundAt(files, path, k) /\ Locate(files, path) = path[k]
  <2>1. PICK k \in D : /\ Locate(files, path) = path[k] /\ k \in Nat
                       /\ \A j \in D : k <= j
    BY <1>4, <1>7
  <2>2. ASSUME NEW j \in 1 .. (k - 1)
        PROVE  ~Shows(files, path[j])
    <3>1. j \in 1 .. n /\ ~(k <= j)
      BY <1>1, <2>1
    <3> QED
      BY <2>1, <3>1
  <2> QED
    BY <2>1, <2>2 DEF FoundAt, n
<1>8. D # {} => Locate(files, path) # <<>>
  BY <1>7 DEF FoundAt, Shows
<1>9. D = {} => Locate(files, path) = <<>>
  BY <1>2
<1>10. Locate(files, path) # <<>> => \E k \in Nat : FoundAt(files, path, k)
  BY <1>7, <1>9
<1>11. Locate(files, path) = <<>> <=> \A k \in 1 .. Len(path) : ~Shows(files, path[k])
  BY <1>5, <1>8, <1>9 DEF n
<1> QED
  BY <1>6, <1>10, <1>11

LEMMA LocateJoin ==
    ASSUME NEW files, NEW a \in Seq(PathEntries), NEW b \in Seq(PathEntries)
    PROVE  /\ Locate(files, a \o b) =
                 IF Locate(files, a) # <<>> THEN Locate(files, a) ELSE Locate(files, b)
           /\ a \o b \in Seq(PathEntries)
<1> DEFINE c == a \o b
<1>1. /\ c \in Seq(PathEntries) /\ Len(a) \in Nat /\ Len(b) \in Nat
      /\ Len(c) = Len(a) + Len(b)
      /\ \A i \in 1..Len(a) : c[i] = a[i]
      /\ \A i \in 1..Len(b) : c[Len(a) + i] = b[i]
  BY JoinIs
<1> HIDE DEF c
<1>2. ASSUME Locate(files, a) # <<>>
      PROVE  Locate(files, c) = Locate(files, a)
  <2>1. PICK k \in Nat : FoundAt(files, a, k)
    BY <1>2, LocateIs
  <2>2. k \in 1 .. Len(a) /\ Shows(files, a[k]) /\ \A j \in 1 .. (k - 1) : ~Shows(files, a[j])
    BY <2>1 DEF FoundAt
  <2>3. k \in 1 .. Len(c) /\ \A j \in 1 .. (k - 1) : j \in 1 .. Len(a)
    BY ONLY <1>1, <2>2
  <2>4. c[k] = a[k] /\ \A j \in 1 .. (k - 1) : c[j] = a[j]
    BY ONLY <1>1, <2>2, <2>3
  <2>5. FoundAt(files, c, k)
    BY ONLY <2>2, <2>3, <2>4 DEF FoundAt
  <2> QED
    BY <1>1, <2>1, <2>4, <2>5, LocateIs
<1>3. ASSUME Locate(files, a) = <<>>, Locate(files, b) # <<>>
      PROVE  Locate(files, c) = Locate(files, b)
  <2>1. PICK k \in Nat : FoundAt(files, b, k)
    BY <1>3, LocateIs
  <2>2. k \in 1 .. Len(b) /\ Shows(files, b[k]) /\ \A j \in 1 .. (k - 1) : ~Shows(files, b[j])
    BY <2>1 DEF FoundAt
  <2>3. \A j \in 1 .. Len(a) : ~Shows(files, a[j])
    BY <1>3, LocateIs
  <2>4. PICK m \in Nat : m = Len(a) + k
    BY <1>1
  <2>5. m \in 1 .. Len(c) /\ c[m] = b[k]
    BY <1>1, <2>2, <2>4
  <2>6. ASSUME NEW j \in 1 .. (m - 1)
        PROVE  ~Shows(files, c[j])
    <3>1. CASE j <= Len(a)
      <4>1. j \in 1 .. Len(a)
        BY ONLY <1>1, <3>1, j \in 1 .. (m - 1)
      <4> QED
        BY <1>1, <2>3, <4>1
    <3>2. CASE ~(j <= Len(a))
      <4>1. PICK i \in 1 .. (k - 1) : j = Len(a) + i
        <5>1. j - Len(a) \in 1 .. (k - 1) /\ j = Len(a) + (j - Len(a))
          BY ONLY <1>1, <2>4, <3>2, j \in 1 .. (m - 1)
        <5> QED
          BY <5>1
      <4>2. i \in 1 .. Len(b)
        BY ONLY <1>1, <2>2, i \in 1 .. (k - 1)
      <4>3. c[j] = b[i]
        BY ONLY <1>1, <4>1, <4>2
      <4> QED
        BY <2>2, <4>3
    <3> QED
      BY <3>1, <3>2
  <2>7. FoundAt(files, c, m)
    BY ONLY <2>2, <2>5, <2>6 DEF FoundAt
  <2> QED
    BY <1>1, <2>1, <2>5, <2>7, LocateIs
<1>4. ASSUME Locate(files, a) = <<>>, Locate(files, b) = <<>>
      PROVE  Locate(files, c) = <<>>
  <2>1. \A j \in 1 .. Len(a) : ~Shows(files, a[j])
    BY <1>4, LocateIs
  <2>2. \A j \in 1 .. Len(b) : ~Shows(files, b[j])
    BY <1>4, LocateIs
  <2>3. ASSUME NEW j \in 1 .. Len(c)
        PROVE  ~Shows(files, c[j])
    <3>1. CASE j <= Len(a)
      <4>1. j \in 1 .. Len(a)
        BY ONLY <1>1, <3>1, j \in 1 .. Len(c)
      <4> QED
        BY <1>1, <2>1, <4>1
    <3>2. CASE ~(j <= Len(a))
      <4>1. PICK i \in 1 .. Len(b) : j = Len(a) + i
        <5>1. j - Len(a) \in 1 .. Len(b) /\ j = Len(a) + (j - Len(a))
          BY ONLY <1>1, <3>2, j \in 1 .. Len(c)
        <5> QED
          BY <5>1
      <4>2. c[j] = b[i]
        BY ONLY <1>1, <4>1
      <4> QED
        BY <2>2, <4>2
    <3> QED
      BY <3>1, <3>2
  <2> QED
    BY <1>1, <2>3, LocateIs
<1>5. Locate(files, c) = IF Locate(files, a) # <<>> THEN Locate(files, a) ELSE Locate(files, b)
  BY <1>2, <1>3, <1>4
<1> QED
  BY <1>1, <1>5 DEF c

LEMMA LocateAppend ==
    ASSUME NEW files, NEW a \in Seq(PathEntries), NEW d \in PathEntries
    PROVE  Locate(files, Append(a, d)) =
              IF Locate(files, a) # <<>> THEN Locate(files, a)
              ELSE IF Shows(files, d) THEN d ELSE <<>>
<1>1. Append(a, d) = a \o <<d>> /\ <<d>> \in Seq(PathEntries)
  OBVIOUS
<1>2. Locate(files, <<d>>) = IF Shows(files, d) THEN d ELSE <<>>
  <2>1. Len(<<d>>) = 1 /\ <<d>>[1] = d /\ 1 .. 1 = {1} /\ 1 .. (1 - 1) = {} /\ 1 \in Nat
    OBVIOUS
  <2>2. CASE Shows(files, d)
    <3>1. FoundAt(files, <<d>>, 1)
      BY ONLY <2>1, <2>2 DEF FoundAt
    <3> QED
      BY <1>1, <2>1, <2>2, <3>1, LocateIs
  <2>3. CASE ~Shows(files, d)
    <3>1. \A k \in 1 .. Len(<<d>>) : ~Shows(files, <<d>>[k])
      BY ONLY <2>1, <2>3
    <3>2. Locate(files, <<d>>) = <<>>
      BY <1>1, <3>1, LocateIs
    <3> QED
      BY <2>3, <3>2
  <2> QED
    BY <2>2, <2>3
<1>3. Locate(files, a \o <<d>>) =
         IF Locate(files, a) # <<>> THEN Locate(files, a) ELSE Locate(files, <<d>>)
  BY ONLY <1>1, a \in Seq(PathEntries), LocateJoin
<1> QED
  BY ONLY <1>1, <1>2, <1>3

\* Whoever keeps the first of each entry keeps where commands are found.
LEMMA MergedIs ==
    ASSUME NEW all \in Seq(PathEntries)
    PROVE  /\ FoldLeft(KeepFirst, <<>>, all) \in Seq(PathEntries)
           /\ \A files : Locate(files, FoldLeft(KeepFirst, <<>>, all)) = Locate(files, all)
<1> DEFINE n == Len(all)
<1>1. n \in Nat /\ \A i \in 1 .. n : all[i] \in PathEntries
  OBVIOUS
<1>2. PICK at : /\ at[0] = <<>> /\ FoldLeft(KeepFirst, <<>>, all) = at[n]
                /\ \A k \in 0 .. n - 1 : at[k + 1] = KeepFirst(at[k], all[k + 1])
  <2>1. <<>> \in Seq(PathEntries)
    OBVIOUS
  <2> QED
    BY <2>1, KeepSteps
<1> DEFINE Pre(k) == SubSeq(all, 1, k)
<1> DEFINE S == {k \in Nat : k <= n => /\ at[k] \in Seq(PathEntries)
                                       /\ \A files : Locate(files, at[k]) = Locate(files, Pre(k))}
<1>3. Pre(0) = <<>> /\ Pre(n) = all
  OBVIOUS
<1>4. ASSUME NEW k \in 0 .. n - 1
      PROVE  Pre(k) \in Seq(PathEntries) /\ Pre(k + 1) = Append(Pre(k), all[k + 1])
  OBVIOUS
<1> HIDE DEF n, Pre
<1>5. 0 \in S
  <2>1. at[0] = Pre(0) /\ at[0] = <<>>
    BY <1>2, <1>3
  <2>2. <<>> \in Seq(PathEntries) /\ 0 \in Nat
    OBVIOUS
  <2> QED
    BY ONLY <2>1, <2>2
<1>6. ASSUME NEW k \in Nat, k \in S
      PROVE  k + 1 \in S
  <2>1. SUFFICES ASSUME k + 1 <= n
                 PROVE  /\ at[k + 1] \in Seq(PathEntries)
                        /\ \A files : Locate(files, at[k + 1]) = Locate(files, Pre(k + 1))
    OBVIOUS
  <2>2. k \in 0 .. n - 1 /\ k + 1 \in 1 .. n /\ k <= n
    BY ONLY <1>1, <2>1, k \in Nat
  <2>3. at[k] \in Seq(PathEntries) /\ \A files : Locate(files, at[k]) = Locate(files, Pre(k))
    BY <1>6, <2>2
  <2>4. PICK d \in PathEntries : d = all[k + 1]
    BY <1>1, <2>2
  <2>5. /\ at[k + 1] = KeepFirst(at[k], d)
        /\ Pre(k) \in Seq(PathEntries) /\ Pre(k + 1) = Append(Pre(k), d)
    BY <1>2, <1>4, <2>2, <2>4
  <2>6. at[k + 1] \in Seq(PathEntries)
    BY <2>3, <2>5, KeepIs
  <2>7. ASSUME NEW files
        PROVE  Locate(files, at[k + 1]) = Locate(files, Pre(k + 1))
    <3>1. Locate(files, Pre(k + 1)) =
              IF Locate(files, Pre(k)) # <<>> THEN Locate(files, Pre(k))
              ELSE IF Shows(files, d) THEN d ELSE <<>>
      <4>1. Locate(files, Append(Pre(k), d)) =
              IF Locate(files, Pre(k)) # <<>> THEN Locate(files, Pre(k))
              ELSE IF Shows(files, d) THEN d ELSE <<>>
        BY <2>5, LocateAppend
      <4> QED
        BY ONLY <2>5, <4>1
    <3>2. Locate(files, at[k]) = Locate(files, Pre(k))
      BY <2>3
    <3>3. CASE d = <<>> \/ d \in ToSet(at[k])
      <4>1. at[k + 1] = at[k]
        BY <2>5, <3>3 DEF KeepFirst
      <4>2. Shows(files, d) => Locate(files, at[k]) # <<>>
        <5>1. SUFFICES ASSUME Shows(files, d) PROVE Locate(files, at[k]) # <<>>
          OBVIOUS
        <5>2. PICK i \in 1 .. Len(at[k]) : at[k][i] = d
          BY <2>3, <3>3, <5>1 DEF Shows, ToSet
        <5> QED
          BY <2>3, <5>1, <5>2, LocateIs
      <4> QED
        BY <3>1, <3>2, <4>1, <4>2
    <3>4. CASE ~(d = <<>> \/ d \in ToSet(at[k]))
      <4>1. at[k + 1] = Append(at[k], d)
        BY <2>5, <3>4 DEF KeepFirst
      <4>2. Locate(files, Append(at[k], d)) =
              IF Locate(files, at[k]) # <<>> THEN Locate(files, at[k])
              ELSE IF Shows(files, d) THEN d ELSE <<>>
        BY <2>3, LocateAppend
      <4> QED
        BY <3>1, <3>2, <4>1, <4>2
    <3> QED
      BY <3>3, <3>4
  <2> QED
    BY <2>6, <2>7
<1> HIDE DEF S
<1>7. Nat \subseteq S
  BY ONLY <1>5, <1>6, Induction
<1>8. at[n] \in Seq(PathEntries) /\ \A files : Locate(files, at[n]) = Locate(files, Pre(n))
  BY <1>1, <1>7 DEF S
<1> QED
  BY <1>2, <1>3, <1>8

LEMMA FlattenTwo == ASSUME NEW a, NEW b PROVE FlattenSeq(<<a, b>>) = a \o b
<1> DEFINE s == <<a, b>>
<1> DEFINE Body(f) == [i \in 1 .. Len(s) |-> IF i = 1 THEN s[i] ELSE f[i - 1] \o s[i]]
<1> DEFINE g == [i \in 1 .. 2 |-> IF i = 1 THEN a ELSE a \o b]
<1> DEFINE h == CHOOSE f : f = Body(f)
<1>1. Len(s) = 2 /\ s[1] = a /\ s[2] = b
  OBVIOUS
<1>2. 1 \in 1 .. 2 /\ 2 \in 1 .. 2 /\ 2 # 1 /\ 2 - 1 = 1 /\ \A i \in 1 .. 2 : i = 1 \/ i = 2
  OBVIOUS
<1>3. g[1] = a /\ g[2] = a \o b
  BY <1>2
<1>4. FlattenSeq(s) = IF Len(s) = 0 THEN s ELSE h[Len(s)]
  BY DEF FlattenSeq
<1> HIDE DEF s
<1>5. g = Body(g)
  <2>1. ASSUME NEW i \in 1 .. 2
        PROVE  (IF i = 1 THEN a ELSE a \o b) = IF i = 1 THEN s[i] ELSE g[i - 1] \o s[i]
    BY <1>1, <1>2, <1>3
  <2> QED
    BY <1>1, <2>1
<1>6. h = Body(h)
  BY <1>5
<1> HIDE DEF h
<1>7. h[1] = a
  BY <1>1, <1>2, <1>6
<1>8. h[2] = a \o b
  BY <1>1, <1>2, <1>6, <1>7
<1>9. FlattenSeq(s) = a \o b
  BY <1>1, <1>4, <1>8
<1> QED
  BY <1>9 DEF s

LEMMA FlattenThree ==
    ASSUME NEW s, Len(s) = 3, NEW d, d = s[1] \o s[2]
    PROVE  FlattenSeq(s) = d \o s[3]
<1> DEFINE Body(f) == [i \in 1 .. Len(s) |-> IF i = 1 THEN s[i] ELSE f[i - 1] \o s[i]]
<1> DEFINE g == [i \in 1 .. 3 |-> IF i = 1 THEN s[1] ELSE IF i = 2 THEN d ELSE d \o s[3]]
<1> DEFINE h == CHOOSE f : f = Body(f)
<1>1. Len(s) = 3
  OBVIOUS
<1>2. /\ 1 \in 1 .. 3 /\ 2 \in 1 .. 3 /\ 3 \in 1 .. 3 /\ 2 # 1 /\ 3 # 1 /\ 3 # 2
      /\ 2 - 1 = 1 /\ 3 - 1 = 2 /\ \A i \in 1 .. 3 : i = 1 \/ i = 2 \/ i = 3
  OBVIOUS
<1>3. g[1] = s[1] /\ g[2] = d /\ g[3] = d \o s[3]
  BY <1>2
<1>4. FlattenSeq(s) = IF Len(s) = 0 THEN s ELSE h[Len(s)]
  BY DEF FlattenSeq
<1>5. g = Body(g)
  <2>1. ASSUME NEW i \in 1 .. 3
        PROVE  (IF i = 1 THEN s[1] ELSE IF i = 2 THEN d ELSE d \o s[3])
                  = IF i = 1 THEN s[i] ELSE g[i - 1] \o s[i]
    BY <1>1, <1>2, <1>3
  <2> QED
    BY <1>1, <2>1
<1>6. h = Body(h)
  BY <1>5
<1> HIDE DEF h
<1>7. h[1] = s[1]
  BY <1>1, <1>2, <1>6
<1>8. h[2] = d
  BY <1>1, <1>2, <1>6, <1>7
<1>9. h[3] = d \o s[3]
  <2>1. h[3] = IF 3 = 1 THEN s[3] ELSE h[3 - 1] \o s[3]
    BY ONLY <1>1, <1>2, <1>6
  <2> QED
    BY ONLY <1>1, <1>2, <1>8, <2>1
<1> QED
  BY <1>1, <1>4, <1>9

\* version_manager_dirs is a PATH.
LEMMA PushDirs ==
    ASSUME NEW base \in Seq(PathEntries), NEW s \in Seq(PathEntries)
    PROVE  FoldLeft(PushIfDir, base, s) \in Seq(PathEntries)
<1> DEFINE n == Len(s)
<1>1. n \in Nat /\ \A i \in 1 .. n : s[i] \in PathEntries
  OBVIOUS
<1>2. PICK at : /\ at[0] = base /\ FoldLeft(PushIfDir, base, s) = at[n]
                /\ \A k \in 0 .. n - 1 : at[k + 1] = PushIfDir(at[k], s[k + 1])
  BY PushSteps
<1> HIDE DEF n
<1> DEFINE S == {k \in Nat : k <= n => at[k] \in Seq(PathEntries)}
<1>3. 0 \in S
  BY <1>2
<1>4. ASSUME NEW k \in Nat, k \in S
      PROVE  k + 1 \in S
  <2>1. SUFFICES ASSUME k + 1 <= n PROVE at[k + 1] \in Seq(PathEntries)
    OBVIOUS
  <2>2. k \in 0 .. n - 1 /\ k + 1 \in 1 .. n /\ k <= n
    BY ONLY <1>1, <2>1, k \in Nat
  <2>3. at[k] \in Seq(PathEntries) /\ s[k + 1] \in PathEntries
    BY <1>1, <1>4, <2>2
  <2> QED
    BY <1>2, <2>2, <2>3, PushIs
<1> HIDE DEF S
<1>5. Nat \subseteq S
  BY ONLY <1>3, <1>4, Induction
<1> QED
  BY <1>1, <1>2, <1>5 DEF S

\* What the machine has, in the terms of these lemmas.
LEMMA MachineIs ==
    /\ \A p \in Paths : p \in Seq(PathEntries)
    /\ HomeDirs \in Seq(PathEntries) /\ FixedDirs \in Seq(PathEntries)
    /\ \A nvm \in NvmListings : nvm \in Seq(NvmEntries)
<1>1. Dirs \cup {<<>>} \subseteq PathEntries /\ Dirs \subseteq PathEntries
  BY DEF PathEntries
<1>2. Seq(Dirs \cup {<<>>}) \subseteq Seq(PathEntries) /\ Seq(Dirs) \subseteq Seq(PathEntries)
  BY ONLY <1>1, WiderSeq
<1> QED
  BY <1>2, SpawnAssumption DEF NvmEntries

\* The inductive invariant.
SpawnWorks ==
    /\ machine.process \in Seq(PathEntries)
    /\ machine.nvm \in Seq(NvmEntries)
    /\ \/ cell = <<>> \/ cell = <<<<>>>>
       \/ \E p \in Paths : cell = <<<<p>>>>
    /\ place \in [Starters -> {"idle", "waiting", "probing", "launched", "dropped"}]
    /\ shells \subseteq Starters
    /\ NoShellIsLeft
    /\ own \in [Starters -> Seq(Seq(Dirs \cup {<<>>}))]
    /\ \A k, l \in Starters : place[k] = "probing" /\ place[l] = "probing" => k = l
    /\ \A l \in Starters : place[l] = "probing" => cell = <<>>

LEMMA SpawnStarts == SpawnInit => SpawnWorks
<1> SUFFICES ASSUME SpawnInit PROVE SpawnWorks
  OBVIOUS
<1>1. /\ machine.process \in Paths /\ machine.nvm \in NvmListings
      /\ cell = <<>> /\ shells = {} /\ place = [l \in Starters |-> "idle"]
      /\ own \in [Starters -> OwnPaths]
  BY DEF SpawnInit
<1>2. machine.process \in Seq(PathEntries) /\ machine.nvm \in Seq(NvmEntries)
  BY <1>1, MachineIs
<1>3. own \in [Starters -> Seq(Seq(Dirs \cup {<<>>}))]
  BY <1>1, SpawnAssumption
<1> QED
  BY <1>1, <1>2, <1>3 DEF SpawnWorks, NoShellIsLeft

LEMMA SpawnGoesOn == SpawnWorks /\ [SpawnNext]_spawnVars => SpawnWorks'
<1> SUFFICES ASSUME SpawnWorks, [SpawnNext]_spawnVars PROVE SpawnWorks'
  OBVIOUS
<1> DEFINE Still == machine' = machine /\ own' = own
<1>1. ASSUME NEW l \in Starters, NEW there \in {"waiting", "launched", "dropped"},
             place' = [place EXCEPT ![l] = there], Still,
             cell' = cell \/ place[l] = "probing",
             cell' = cell \/ cell' = <<<<>>>> \/ \E p \in Paths : cell' = <<<<p>>>>,
             shells' = shells \ {l} \/ (shells' = shells /\ place[l] # "probing")
      PROVE  SpawnWorks'
  <2>1. /\ place' \in [Starters -> {"idle", "waiting", "probing", "launched", "dropped"}]
        /\ place'[l] = there /\ \A k \in Starters : k # l => place'[k] = place[k]
    BY <1>1 DEF SpawnWorks
  <2>2. \A k \in Starters : place'[k] = "probing" => k # l /\ place[k] = "probing"
    BY <1>1, <2>1
  <2>3. \A k \in shells' : k # l /\ k \in shells /\ place'[k] = "probing"
    BY <1>1, <2>1 DEF SpawnWorks, NoShellIsLeft
  <2>4. \A k \in Starters : place'[k] = "probing" => cell' = <<>>
    BY <1>1, <2>2 DEF SpawnWorks
  <2>5. cell' = <<>> \/ cell' = <<<<>>>> \/ \E p \in Paths : cell' = <<<<p>>>>
    BY <1>1 DEF SpawnWorks
  <2>6. \A k, m \in Starters : place'[k] = "probing" /\ place'[m] = "probing" => k = m
    BY <2>2 DEF SpawnWorks
  <2>7. shells' \subseteq Starters /\ NoShellIsLeft'
    BY <2>3 DEF SpawnWorks, NoShellIsLeft
  <2>8. /\ (machine.process \in Seq(PathEntries))' /\ (machine.nvm \in Seq(NvmEntries))'
        /\ (own \in [Starters -> Seq(Seq(Dirs \cup {<<>>}))])'
    BY <1>1 DEF SpawnWorks
  <2> QED
    BY <2>1, <2>4, <2>5, <2>6, <2>7, <2>8 DEF SpawnWorks
<1>2. ASSUME NEW l \in Starters, Ask(l) PROVE SpawnWorks'
  <2>1. /\ place' = [place EXCEPT ![l] = "waiting"] /\ Still /\ cell' = cell
        /\ shells' = shells /\ place[l] # "probing"
    BY <1>2 DEF Ask, Go
  <2> QED
    BY <1>1, <2>1
<1>3. ASSUME NEW l \in Starters, Probe(l) PROVE SpawnWorks'
  <2>1. /\ cell = <<>> /\ cell' = cell /\ \A k \in Starters : place[k] # "probing"
        /\ place' = [place EXCEPT ![l] = "probing"] /\ Still
        /\ shells' = shells \cup {l}
    BY <1>3 DEF Probe, Go
  <2>2. /\ place' \in [Starters -> {"idle", "waiting", "probing", "launched", "dropped"}]
        /\ place'[l] = "probing" /\ \A k \in Starters : k # l => place'[k] # "probing"
    BY <2>1 DEF SpawnWorks
  <2>3. shells = {}
    BY <2>1 DEF SpawnWorks, NoShellIsLeft
  <2>4. shells' \subseteq Starters /\ NoShellIsLeft'
    BY <2>1, <2>2, <2>3 DEF NoShellIsLeft
  <2>5. /\ (machine.process \in Seq(PathEntries))' /\ (machine.nvm \in Seq(NvmEntries))'
        /\ (own \in [Starters -> Seq(Seq(Dirs \cup {<<>>}))])'
    BY <2>1 DEF SpawnWorks
  <2> QED
    BY <2>1, <2>2, <2>4, <2>5 DEF SpawnWorks
<1>4. ASSUME NEW l \in Starters, ProbeEnds(l) PROVE SpawnWorks'
  <2>1. /\ place[l] = "probing" /\ place' = [place EXCEPT ![l] = "waiting"] /\ Still
        /\ shells' = shells \ {l}
    BY <1>4 DEF ProbeEnds, Go, Ended
  <2>2. cell' = <<<<>>>> \/ \E p \in Paths : cell' = <<<<p>>>>
    BY <1>4 DEF ProbeEnds
  <2> QED
    BY <1>1, <2>1, <2>2
<1>5. ASSUME NEW l \in Starters, Launch(l) PROVE SpawnWorks'
  <2>1. /\ place' = [place EXCEPT ![l] = "launched"] /\ Still /\ cell' = cell
        /\ shells' = shells /\ place[l] # "probing"
    BY <1>5 DEF Launch, Go
  <2> QED
    BY <1>1, <2>1
<1>6. ASSUME NEW l \in Starters, DropStart(l) PROVE SpawnWorks'
  <2>1. /\ place' = [place EXCEPT ![l] = "dropped"] /\ Still /\ cell' = cell
        /\ shells' = shells \ {l} \/ (shells' = shells /\ place[l] # "probing")
    BY <1>6 DEF DropStart, Go, Ended
  <2> QED
    BY <1>1, <2>1
<1>7. CASE UNCHANGED spawnVars
  BY <1>7 DEF spawnVars, SpawnWorks, NoShellIsLeft
<1> QED
  BY <1>2, <1>3, <1>4, <1>5, <1>6, <1>7 DEF SpawnNext

\* The path is set by the one launch that asks, and no one asks once it is set.
LEMMA SetOnce == SpawnWorks /\ [SpawnNext]_spawnVars => [cell = <<>>]_cell
<1> SUFFICES ASSUME SpawnWorks, [SpawnNext]_spawnVars PROVE cell = <<>> \/ cell' = cell
  OBVIOUS
<1>1. ASSUME NEW l \in Starters, ProbeEnds(l) PROVE cell = <<>>
  BY <1>1 DEF ProbeEnds, Go, SpawnWorks
<1>2. ASSUME NEW l \in Starters, Ask(l) \/ Probe(l) \/ Launch(l) \/ DropStart(l)
      PROVE  cell' = cell
  BY <1>2 DEF Ask, Probe, Launch, DropStart
<1> QED
  BY <1>1, <1>2 DEF SpawnNext, spawnVars

LEMMA ManagersIs ==
    ASSUME machine.nvm \in Seq(NvmEntries)
    PROVE  VersionManagerDirs \in Seq(PathEntries)
<1> DEFINE latest == LatestBin(machine.nvm)
<1> DEFINE home == FoldLeft(PushIfDir, <<>>, HomeDirs)
<1>1. <<>> \in Seq(PathEntries)
  OBVIOUS
<1>2. home \in Seq(PathEntries)
  BY <1>1, MachineIs, PushDirs
<1>3. latest \in Seq(Nat)
  BY LatestIs
<1> DEFINE base == IF latest = <<>> THEN home ELSE Append(home, <<"nvm">> \o latest)
<1>4. VersionManagerDirs = FoldLeft(PushIfDir, base, FixedDirs)
  BY DEF VersionManagerDirs
<1> HIDE DEF latest, home
<1>5. <<"nvm">> \o latest \in PathEntries
  BY <1>3 DEF PathEntries
<1>6. base \in Seq(PathEntries)
  <2>1. PICK d \in PathEntries : d = <<"nvm">> \o latest
    BY <1>5
  <2>2. Append(home, d) \in Seq(PathEntries)
    BY <1>2
  <2> QED
    BY <1>2, <2>1, <2>2
<1> HIDE DEF base
<1>7. FixedDirs \in Seq(PathEntries)
  BY MachineIs
<1> QED
  BY ONLY <1>4, <1>6, <1>7, PushDirs

LEMMA JoinOne == ASSUME NEW a, NEW b, NEW c PROVE <<a>> \o <<b, c>> = <<a, b, c>>
<1> DEFINE S == {a, b, c}
<1> DEFINE j == <<a>> \o <<b, c>>
<1>1. <<a>> \in Seq(S) /\ <<b, c>> \in Seq(S)
  OBVIOUS
<1>2. Len(<<a>>) = 1 /\ <<a>>[1] = a /\ Len(<<b, c>>) = 2 /\ <<b, c>>[1] = b /\ <<b, c>>[2] = c
  OBVIOUS
<1>3. /\ j \in Seq(S) /\ Len(<<a>>) \in Nat /\ Len(<<b, c>>) \in Nat
      /\ Len(j) = Len(<<a>>) + Len(<<b, c>>)
      /\ \A i \in 1..Len(<<a>>) : j[i] = <<a>>[i]
      /\ \A i \in 1..Len(<<b, c>>) : j[Len(<<a>>) + i] = <<b, c>>[i]
  BY <1>1, JoinIs
<1> HIDE DEF j, S
<1>4. Len(j) = 3 /\ j[1] = a /\ j[2] = b /\ j[3] = c
  <2>1. 1 \in 1..1 /\ 1 \in 1..2 /\ 2 \in 1..2 /\ 1 + 1 = 2 /\ 1 + 2 = 3
    OBVIOUS
  <2> QED
    BY ONLY <1>2, <1>3, <2>1
<1>5. j \in Seq(S) /\ DOMAIN j = 1 .. 3 /\ j = [i \in 1 .. 3 |-> j[i]]
  BY <1>3, <1>4
<1>6. <<a, b, c>> = [i \in 1 .. 3 |-> j[i]]
  BY <1>4
<1> QED
  BY <1>5, <1>6 DEF j

\* merge_path_strings finds a command where the first of its sources that has it does.
LEMMA MergeOfTwo ==
    ASSUME NEW files, NEW a \in Seq(PathEntries), NEW b \in Seq(PathEntries)
    PROVE  Locate(files, Merge(<<a, b>>)) =
              IF Locate(files, a) # <<>> THEN Locate(files, a) ELSE Locate(files, b)
<1>1. FlattenSeq(<<a, b>>) = a \o b
  BY ONLY FlattenTwo
<1>2. /\ Locate(files, a \o b) =
              IF Locate(files, a) # <<>> THEN Locate(files, a) ELSE Locate(files, b)
      /\ a \o b \in Seq(PathEntries)
  BY LocateJoin
<1>3. Locate(files, FoldLeft(KeepFirst, <<>>, a \o b)) = Locate(files, a \o b)
  BY ONLY <1>2, MergedIs
<1> QED
  BY ONLY <1>1, <1>2, <1>3 DEF Merge

LEMMA MergeOfThree ==
    ASSUME NEW files, NEW a \in Seq(PathEntries), NEW b \in Seq(PathEntries), NEW c \in Seq(PathEntries)
    PROVE  Locate(files, Merge(<<a, b, c>>)) =
              IF Locate(files, a) # <<>> THEN Locate(files, a)
              ELSE IF Locate(files, b) # <<>> THEN Locate(files, b) ELSE Locate(files, c)
<1>1. PICK d : d = a \o b
  OBVIOUS
<1>2. FlattenSeq(<<a, b, c>>) = d \o c
  <2> DEFINE s == <<a, b, c>>
  <2>1. Len(s) = 3 /\ s[1] = a /\ s[2] = b /\ s[3] = c
    OBVIOUS
  <2> HIDE DEF s
  <2>2. d = s[1] \o s[2]
    BY ONLY <1>1, <2>1
  <2>3. FlattenSeq(s) = d \o s[3]
    BY ONLY <2>1, <2>2, FlattenThree
  <2>4. FlattenSeq(s) = d \o c
    BY ONLY <2>1, <2>3
  <2> QED
    BY ONLY <2>4 DEF s
<1>3. /\ Locate(files, d) =
              IF Locate(files, a) # <<>> THEN Locate(files, a) ELSE Locate(files, b)
      /\ d \in Seq(PathEntries)
  BY <1>1, LocateJoin
<1>4. /\ Locate(files, d \o c) =
              IF Locate(files, d) # <<>> THEN Locate(files, d) ELSE Locate(files, c)
      /\ d \o c \in Seq(PathEntries)
  BY <1>3, LocateJoin
<1>5. Locate(files, FoldLeft(KeepFirst, <<>>, d \o c)) = Locate(files, d \o c)
  BY ONLY <1>4, MergedIs
<1>6. Merge(<<a, b, c>>) = FoldLeft(KeepFirst, <<>>, d \o c)
  BY ONLY <1>1, <1>2 DEF Merge
<1> QED
  BY ONLY <1>3, <1>4, <1>5, <1>6

\* Where the resolved path finds a command.
LEMMA ResolvedIs ==
    ASSUME machine.process \in Seq(PathEntries), VersionManagerDirs \in Seq(PathEntries), NEW files
    PROVE  /\ cell = <<<<>>>> =>
                 Locate(files, Resolved) =
                    IF Locate(files, VersionManagerDirs) # <<>>
                    THEN Locate(files, VersionManagerDirs) ELSE Locate(files, machine.process)
           /\ \A p \in Paths : cell = <<<<p>>>> =>
                 Locate(files, Resolved) =
                    IF Locate(files, p) # <<>> THEN Locate(files, p)
                    ELSE IF Locate(files, machine.process) # <<>>
                         THEN Locate(files, machine.process)
                         ELSE Locate(files, VersionManagerDirs)
<1>1. PICK m \in Seq(PathEntries) : m = VersionManagerDirs
  OBVIOUS
<1>2. PICK q \in Seq(PathEntries) : q = machine.process
  OBVIOUS
<1>3. ASSUME cell = <<<<>>>>
      PROVE  Resolved = Merge(<<m, q>>)
  BY <1>1, <1>2, <1>3 DEF Resolved, OrderSources
<1>4. Locate(files, Merge(<<m, q>>)) = IF Locate(files, m) # <<>> THEN Locate(files, m) ELSE Locate(files, q)
  BY MergeOfTwo
<1>5. ASSUME NEW p \in Paths, cell = <<<<p>>>>
      PROVE  Locate(files, Resolved) =
                IF Locate(files, p) # <<>> THEN Locate(files, p)
                ELSE IF Locate(files, q) # <<>> THEN Locate(files, q) ELSE Locate(files, m)
  <2>1. Resolved = Merge(<<p, q, m>>)
    <3>1. cell[1] = <<p>> /\ <<p>> # <<>>
      BY <1>5
    <3>2. Resolved = Merge(<<p>> \o <<q, m>>)
      BY <1>1, <1>2, <3>1 DEF Resolved, OrderSources
    <3>3. <<p>> \o <<q, m>> = <<p, q, m>>
      BY JoinOne
    <3> QED
      BY ONLY <3>2, <3>3
  <2>2. p \in Seq(PathEntries)
    BY MachineIs
  <2> QED
    BY <2>1, <2>2, MergeOfThree
<1> QED
  BY <1>1, <1>2, <1>3, <1>4, <1>5

LEMMA SpawnHolds == SpawnWorks => SpawnInv
<1> SUFFICES ASSUME SpawnWorks PROVE SpawnInv
  OBVIOUS
<1>1. machine.process \in Seq(PathEntries) /\ machine.nvm \in Seq(NvmEntries)
  BY DEF SpawnWorks
<1>2. VersionManagerDirs \in Seq(PathEntries)
  BY <1>1, ManagersIs
<1>3. SpawnTypeOK /\ NoShellIsLeft
  <2>1. Len(cell) \in 0 .. 1
    <3>1. \A x : Len(<<x>>) = 1
      OBVIOUS
    <3> QED
      BY <3>1 DEF SpawnWorks
  <2> QED
    BY <2>1 DEF SpawnWorks, SpawnTypeOK
<1> DEFINE m == VersionManagerDirs
<1> DEFINE q == machine.process
<1>4. ASSUME cell = <<>> PROVE ShellIsAuthority /\ NothingIsHidden
  BY <1>4 DEF ShellIsAuthority, NothingIsHidden
<1>5. ASSUME cell = <<<<>>>> PROVE ShellIsAuthority /\ NothingIsHidden
  <2>1. cell[1] = <<>>
    BY <1>5
  <2>2. \A files : Locate(files, Resolved) =
              IF Locate(files, m) # <<>> THEN Locate(files, m) ELSE Locate(files, q)
    BY <1>1, <1>2, <1>5, ResolvedIs
  <2>3. \A s : s \in ToSet(OrderSources(cell[1])) <=> s = m \/ s = q
    <3>1. OrderSources(cell[1]) = <<m, q>>
      BY <2>1 DEF OrderSources
    <3> HIDE DEF m, q
    <3>2. \A s : s \in ToSet(<<m, q>>) <=> s = m \/ s = q
      BY DEF ToSet
    <3> QED
      BY ONLY <3>1, <3>2
  <2>4. ShellIsAuthority
    <3>1. Leads(m, Resolved)
      BY <2>2 DEF Leads
    <3> QED
      BY <2>1, <3>1 DEF ShellIsAuthority
  <2>5. NothingIsHidden
    <3> HIDE DEF m, q
    <3> QED
      BY ONLY <2>2, <2>3 DEF NothingIsHidden
  <2> QED
    BY <2>4, <2>5
<1>6. ASSUME NEW p \in Paths, cell = <<<<p>>>>
      PROVE  ShellIsAuthority /\ NothingIsHidden
  <2>1. cell[1] = <<p>> /\ cell[1] # <<>> /\ cell[1][1] = p /\ <<p>> \o <<q, m>> = <<p, q, m>>
    <3>1. cell[1] = <<p>> /\ cell[1] # <<>> /\ cell[1][1] = p
      BY <1>6
    <3> HIDE DEF m, q
    <3> QED
      BY <3>1, JoinOne
  <2>2. \A files : Locate(files, Resolved) =
              IF Locate(files, p) # <<>> THEN Locate(files, p)
              ELSE IF Locate(files, q) # <<>> THEN Locate(files, q) ELSE Locate(files, m)
    BY <1>1, <1>2, <1>6, ResolvedIs
  <2>3. \A s : s \in ToSet(OrderSources(cell[1])) <=> s = p \/ s = q \/ s = m
    <3>1. OrderSources(cell[1]) = <<p, q, m>>
      BY <2>1 DEF OrderSources
    <3> HIDE DEF m, q
    <3>2. \A s : s \in ToSet(<<p, q, m>>) <=> s = p \/ s = q \/ s = m
      BY DEF ToSet
    <3> QED
      BY ONLY <3>1, <3>2
  <2>4. ShellIsAuthority
    <3>1. Leads(p, Resolved)
      BY <2>2 DEF Leads
    <3> QED
      BY <2>1, <3>1 DEF ShellIsAuthority
  <2>5. NothingIsHidden
    <3> HIDE DEF m, q
    <3> QED
      BY ONLY <2>2, <2>3 DEF NothingIsHidden
  <2> QED
    BY <2>4, <2>5
<1>7. LatestIsHighest
  BY <1>1, LatestIs DEF LatestIsHighest
<1>8. ChecksWhatTheChildSees
  <2>1. ASSUME NEW l \in Starters
        PROVE  EffectivePath(l) = ChildPath(l)
    <3>1. own[l] \in Seq(Seq(Dirs \cup {<<>>}))
      BY DEF SpawnWorks
    <3> DEFINE o == own[l]
    <3>2. PICK n \in Nat : n = Len(o) /\ (n = 0 <=> o = <<>>)
      BY <3>1
    <3>3. \A r : Len(<<r>> \o o) = n + 1 /\ (<<r>> \o o)[n + 1] = IF n = 0 THEN r ELSE o[n]
      BY <3>1, <3>2
    <3> QED
      BY <3>2, <3>3 DEF EffectivePath, ChildPath, Last
  <2> QED
    BY <2>1 DEF ChecksWhatTheChildSees
<1>9. ShellIsAuthority /\ NothingIsHidden
  BY <1>4, <1>5, <1>6 DEF SpawnWorks
<1> QED
  BY <1>3, <1>7, <1>8, <1>9 DEF SpawnInv

\* Whatever the login shell answers and whoever gives up meanwhile: commands are found where
\* the user's shell finds them and no source hides another, and the path is resolved once.
\* (transport/stdio/spawn_env/mod.rs:26-28, 67-72)
THEOREM OnePathForAll == SpawnSpec => []SpawnInv /\ ResolvedOnce
<1>1. SpawnInit => SpawnWorks
  BY SpawnStarts
<1>2. SpawnWorks /\ [SpawnNext]_spawnVars => SpawnWorks'
  BY SpawnGoesOn
<1>3. SpawnWorks => SpawnInv
  BY SpawnHolds
<1>4. SpawnWorks /\ [SpawnNext]_spawnVars => [cell = <<>>]_cell
  BY SetOnce
<1> QED
  BY <1>1, <1>2, <1>3, <1>4, PTL DEF SpawnSpec, ResolvedOnce

=============================================================================
