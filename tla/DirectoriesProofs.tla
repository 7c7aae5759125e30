------------------------- MODULE DirectoriesProofs -------------------------
(***************************************************************************)
(* Proofs about Directories: for any directories, settings and limits, the *)
(* worker of a transition leaves nothing at work that nobody owns, and the *)
(* module serves what DirectoryStore promises.                             *)
(***************************************************************************)
EXTENDS Directories, FiniteSetTheorems, TLAPS

Swapped == At("stop") \/ At("complete")

\* What callers of a directory reach: once the worker has exported, what it is about to
\* record, and what is recorded otherwise.
Reached(d) ==
    IF ~(Swapped /\ worker.dir = d) THEN served[d]
    ELSE IF worker.to = None THEN None
    ELSE [path |-> worker.path, client |-> worker.to, by |-> worker.tid]

\* The tree leads to what is reached, and to nothing else but the root's empty service.
TreeMatches ==
    /\ \A d \in Dirs : Reached(d) # None =>
          /\ tree[Reached(d).path] = Reached(d).by
          /\ service[Reached(d).by].dir = d
          /\ service[Reached(d).by].client = Reached(d).client
    /\ \A p \in Paths : tree[p] # None =>
          \/ \E d \in Dirs : Reached(d) # None /\ Reached(d).path = p
          \/ p = RootPath /\ service[tree[p]].dir = None

InTree(s) == \E p \in Paths : tree[p] = s

\* What the worker was started on is still so.
WorkerMatches ==
    worker # None =>
        /\ worker.tid = lastTid
        /\ worker.to = None => served[worker.dir] # None
        /\ served[worker.dir] # None =>
              worker.old = served[worker.dir].by /\ worker.path = served[worker.dir].path
        /\ served[worker.dir] = None =>
              /\ worker.old = None /\ worker.path # RootPath
              /\ worker.at \notin {"quiesce", "stop"}
              /\ ~Swapped => tree[worker.path] = None
        /\ At("quiesce") \/ At("export") =>
              /\ ~InTree(worker.tid)
              /\ worker.to # None =>
                    service[worker.tid].dir = worker.dir /\ service[worker.tid].client = worker.to
              /\ worker.to = None => service[worker.tid].dir = None
        /\ At("stop") => ~InTree(worker.old)

\* What works is in the tree, is about to be, or has just been; and handlers run on
\* what is in the tree only.
WorkMatches ==
    \A s \in Services :
        /\ service[s].working <=>
              \/ InTree(s)
              \/ At("stop") /\ s = worker.old
              \/ (At("quiesce") \/ At("export")) /\ Successor # None /\ s = worker.tid
        /\ service[s].calls > 0 => InTree(s)

\* What has not been handed out yet.
NumbersMatch ==
    /\ lastPath <= lastTid
    /\ \A d \in Dirs : served[d] # None =>
          served[d].path <= lastPath /\ served[d].by <= lastTid
    /\ worker # None => worker.path <= lastPath
    /\ \A p \in Paths : tree[p] # None => p <= lastPath /\ tree[p] <= lastTid
    /\ \A s \in Services : s > lastTid => service[s] = NoService

\* A transition is pending while it has a worker or a status to publish, one of them.
StatusesMatch ==
    /\ \A p \in publish : p[1] <= lastTid /\ seen[p[1]] = "pending"
    /\ \A p, q \in publish : p[1] = q[1] => p = q
    /\ worker # None =>
          seen[worker.tid] = "pending" /\ \A p \in publish : p[1] # worker.tid

\* One directory is pending at a time, the worker's.
PendingMatches == \A d \in Dirs : pending[d] # None <=> worker # None /\ worker.dir = d

-----------------------------------------------------------------------------
(* Numbers, observations and shapes.                                       *)

LEMMA NumberFacts ==
    /\ None \notin Services /\ None \notin Paths /\ None \notin Tids /\ None \notin Clients
    /\ None \notin Dirs
    /\ RootPath \in Paths /\ LoadTime \in Services
    /\ Tids \subseteq Services /\ Tids \subseteq Nat /\ Services \subseteq Nat /\ Paths \subseteq Nat
BY DirectoriesAssumption DEF Services, Paths, Tids, RootPath, LoadTime

LEMMA OneMore ==
    ASSUME NEW S, IsFiniteSet(S), NEW x, NEW T \in SUBSET (S \cup {x})
    PROVE  /\ IsFiniteSet(T) /\ Cardinality(T) \in Nat /\ Cardinality(S) \in Nat
           /\ Cardinality(T) <= Cardinality(S) + 1
<1>1. /\ IsFiniteSet(S \cup {x})
      /\ Cardinality(S \cup {x}) = IF x \in S THEN Cardinality(S) ELSE Cardinality(S) + 1
      BY FS_AddElement
<1>2. Cardinality(S) \in Nat
      BY FS_CardinalityType
<1>3. IsFiniteSet(T) /\ Cardinality(T) <= Cardinality(S \cup {x})
      BY <1>1, FS_Subset
<1>4. Cardinality(T) \in Nat
      BY <1>3, FS_CardinalityType
<1> QED BY <1>1, <1>2, <1>3, <1>4

LEMMA ObservedIsFinite ==
    ASSUME NEW st
    PROVE  IsFiniteSet(Observed(st)) /\ Cardinality(Observed(st)) \in Nat
<1>1. IsFiniteSet(Tids)
      BY DirectoriesAssumption, FS_Interval DEF Tids
<1>2. Observed(st) \subseteq Tids
      BY DEF Observed
<1> QED BY <1>1, <1>2, FS_Subset, FS_CardinalityType

Statuses == {"unknown", "pending", "complete", "failed"}

\* What pruning keeps and forgets.
LEMMA PruneKeeps ==
    ASSUME NEW st \in [Tids -> Statuses]
    PROVE  /\ Prune(st) \in [Tids -> Statuses]
           /\ \A t \in Tids : st[t] = "pending" => Prune(st)[t] = "pending"
BY DEF Prune, Statuses

\* A new transition gets a number of its own, and the observations stay within their limit.
LEMMA NewTransitionFacts ==
    ASSUME DirTypeOK, NEW st \in {"pending", "complete"}, NewTransition(st)
    PROVE  /\ lastTid' = lastTid + 1 /\ lastTid' \in Tids /\ lastTid \in Nat
           /\ seen' \in [Tids -> Statuses]
           /\ Cardinality(Observed(seen')) <= MaxSeen
           /\ seen'[lastTid'] = st
           /\ \A t \in Tids : t <= lastTid /\ seen[t] = "pending" => seen'[t] = "pending"
<1>1. lastTid \in 0..MaxTid /\ lastTid < MaxTid /\ lastTid' = lastTid + 1 /\ MaxTid \in Nat
      BY DirectoriesAssumption DEF DirTypeOK, NewTransition
<1>2. lastTid' \in Tids /\ lastTid \in Nat
      BY <1>1 DEF Tids
<1>3. Prune(seen) \in [Tids -> Statuses]
      BY PruneKeeps DEF DirTypeOK, Statuses
<1>4. seen' = [Prune(seen) EXCEPT ![lastTid'] = st]
      BY <1>1 DEF NewTransition
<1>5. seen' \in [Tids -> Statuses]
      BY <1>3, <1>4 DEF Statuses
<1>6. Observed(seen') \subseteq Observed(Prune(seen)) \cup {lastTid'}
      BY <1>3, <1>4 DEF Observed
<1>7. /\ Cardinality(Observed(seen')) <= Cardinality(Observed(Prune(seen))) + 1
      /\ Cardinality(Observed(seen')) \in Nat /\ Cardinality(Observed(Prune(seen))) \in Nat
      BY <1>6, ObservedIsFinite, OneMore
<1>9. Cardinality(Observed(seen')) <= MaxSeen
      BY <1>7, DirectoriesAssumption DEF NewTransition
<1>10. ASSUME NEW t \in Tids, t <= lastTid, seen[t] = "pending"
       PROVE  seen'[t] = "pending"
  <2>1. Prune(seen)[t] = "pending" /\ t # lastTid'
        BY <1>1, <1>2, <1>10, PruneKeeps, NumberFacts DEF DirTypeOK, Statuses
  <2> QED BY <1>3, <1>4, <2>1
<1> QED BY <1>1, <1>2, <1>3, <1>4, <1>5, <1>9, <1>10

\* The records that steps make.
LEMMA MadeRecords ==
    /\ NoService \in ServiceRecords
    /\ \A d \in Dirs \cup {None}, c \in Clients : Working(d, c) \in ServiceRecords
    /\ Default \in Clients
BY DirectoriesAssumption DEF ServiceRecords, NoService, Working

LEMMA InitType == DirInit => DirTypeOK
<1> SUFFICES ASSUME DirInit PROVE DirTypeOK
    OBVIOUS
<1>1. PICK c \in Clients :
        /\ served = [d \in Dirs |-> IF d = Root
                       THEN [path |-> RootPath, client |-> c, by |-> LoadTime] ELSE None]
        /\ legacy = c
        /\ service = [s \in Services |-> IF s = LoadTime THEN Working(Root, c)
                                        ELSE NoService]
        /\ pending = [d \in Dirs |-> None]
        /\ worker = None /\ publish = {}
        /\ seen = [t \in Tids |-> "unknown"]
        /\ tree = [p \in Paths |-> IF p = RootPath THEN LoadTime ELSE None]
        /\ lastTid = 0 /\ lastPath = 0
      BY DEF DirInit
<1>2. served \in [Dirs -> {None} \cup ServedRecords] /\ service \in [Services -> ServiceRecords]
      BY <1>1, NumberFacts, MadeRecords, DirectoriesAssumption DEF ServedRecords
<1>3. tree \in [Paths -> Services \cup {None}]
      BY <1>1, NumberFacts
<1>4. {t \in Tids : seen[t] # "unknown"} = {}
      BY <1>1
<1>5. Cardinality({t \in Tids : seen[t] # "unknown"}) <= MaxSeen
      BY <1>4, FS_EmptySet, DirectoriesAssumption
<1> QED BY <1>1, <1>2, <1>3, <1>5, DirectoriesAssumption DEF DirTypeOK

LEMMA AnswerType ==
    ASSUME DirTypeOK, NEW d \in Dirs, NEW reply, AnswerUnchanged(d, reply)
    PROVE  DirTypeOK'
<1>1. /\ lastTid' \in Tids /\ seen' \in [Tids -> Statuses]
      /\ Cardinality(Observed(seen')) <= MaxSeen
      BY NewTransitionFacts DEF AnswerUnchanged
<1>2. lastTid' \in 0..MaxTid
      BY <1>1, DirectoriesAssumption DEF Tids
<1> QED BY <1>1, <1>2 DEF AnswerUnchanged, DirTypeOK, Observed, Statuses

LEMMA StartOpenType ==
    ASSUME DirTypeOK, NumbersMatch, NEW d \in Dirs, NEW c \in Clients,
           NEW kind \in {"Open", "OpenConfigured"}, NEW reply, StartOpen(d, c, kind, reply)
    PROVE  DirTypeOK' /\ worker' \in WorkerRecords
<1>1. /\ lastTid' = lastTid + 1 /\ lastTid' \in Tids /\ seen' \in [Tids -> Statuses]
      /\ Cardinality(Observed(seen')) <= MaxSeen /\ lastTid \in Nat
      BY NewTransitionFacts DEF StartOpen
<1>2. lastTid' \in 0..MaxTid /\ lastTid' \in Services
      BY <1>1, NumberFacts, DirectoriesAssumption DEF Tids
<1>3. lastPath' \in 0..MaxTid /\ lastPath + 1 \in 0..MaxTid
      BY <1>1, DirectoriesAssumption DEF StartOpen, DirTypeOK, NumbersMatch, Tids
<1> DEFINE path == IF served[d] = None THEN lastPath + 1 ELSE served[d].path
           old == IF served[d] = None THEN None ELSE served[d].by
<1>4. path \in Paths /\ old \in Services \cup {None}
      BY <1>3 DEF DirTypeOK, ServedRecords, Paths
<1>5. worker' \in WorkerRecords
  <2>1. worker' = [dir |-> d, tid |-> lastTid', path |-> path, to |-> c, old |-> old,
                   at |-> IF served[d] = None THEN "export" ELSE "quiesce"]
        BY <1>1 DEF StartOpen
  <2>2. ASSUME NEW at \in {"quiesce", "export"}, NEW p \in Paths, NEW o \in Services \cup {None}
        PROVE  [dir |-> d, tid |-> lastTid', path |-> p, to |-> c, old |-> o, at |-> at]
                 \in WorkerRecords
        BY <1>1 DEF WorkerRecords
  <2> QED BY <1>4, <2>1, <2>2
<1>6. pending' \in [Dirs -> {None} \cup PendingRecords]
  <2>1. pending' = [pending EXCEPT ![d] =
              [tid |-> lastTid', path |-> path, kind |-> kind,
               client |-> IF kind = "OpenConfigured" THEN c ELSE None]]
        BY <1>1 DEF StartOpen
  <2>2. ASSUME NEW p \in Paths
        PROVE  [tid |-> lastTid', path |-> p, kind |-> kind,
                client |-> IF kind = "OpenConfigured" THEN c ELSE None] \in PendingRecords
        BY <1>1 DEF PendingRecords
  <2> QED BY <1>4, <2>1, <2>2 DEF DirTypeOK
<1>7. service' \in [Services -> ServiceRecords]
      BY MadeRecords DEF StartOpen, DirTypeOK
<1> QED BY <1>1, <1>2, <1>3, <1>5, <1>6, <1>7 DEF StartOpen, DirTypeOK, Observed, Statuses

LEMMA StartCloseType ==
    ASSUME DirTypeOK, NEW d \in Dirs, NEW reply, served[d] # None, StartClose(d, reply)
    PROVE  DirTypeOK' /\ worker' \in WorkerRecords
<1>1. /\ lastTid' = lastTid + 1 /\ lastTid' \in Tids /\ seen' \in [Tids -> Statuses]
      /\ Cardinality(Observed(seen')) <= MaxSeen
      BY NewTransitionFacts DEF StartClose
<1>2. lastTid' \in 0..MaxTid
      BY <1>1, DirectoriesAssumption DEF Tids
<1>3. served[d] \in ServedRecords
      BY DEF DirTypeOK
<1>4. served[d].path \in Paths /\ served[d].by \in Services
      BY <1>3 DEF ServedRecords
<1>5. worker' \in WorkerRecords
      BY <1>1, <1>4 DEF StartClose, WorkerRecords
<1>6. pending' \in [Dirs -> {None} \cup PendingRecords]
  <2>1. [tid |-> lastTid', path |-> served[d].path, kind |-> "Close", client |-> None]
          \in PendingRecords
        BY <1>1, <1>4 DEF PendingRecords
  <2> QED BY <1>1, <2>1 DEF StartClose, DirTypeOK
<1>7. service' \in [Services -> ServiceRecords]
      BY MadeRecords DEF StartClose, DirTypeOK
<1> QED BY <1>1, <1>2, <1>5, <1>6, <1>7 DEF StartClose, DirTypeOK, Observed, Statuses

LEMMA MovingWorkerType ==
    ASSUME DirTypeOK, worker # None,
           NEW step \in {"quiesce", "export", "stop", "complete", "fail"}, Goto(step)
    PROVE  worker' \in WorkerRecords
BY DEF DirTypeOK, Goto, WorkerRecords

LEMMA WorkerType ==
    ASSUME DirTypeOK, WorkerMatches, WorkerStep
    PROVE  DirTypeOK'
<1>1. worker # None /\ worker \in WorkerRecords
      BY DEF WorkerStep, Quiesce, Export, ExportFails, Stop, Complete, Fail, At, DirTypeOK
<1>2. /\ worker.dir \in Dirs /\ worker.tid \in Tids /\ worker.path \in Paths
      /\ worker.to \in Clients \cup {None} /\ worker.old \in Services \cup {None}
      BY <1>1 DEF WorkerRecords
<1>3. CASE Quiesce
  <2>1. service' \in [Services -> ServiceRecords]
        BY <1>3 DEF Quiesce, DirTypeOK, ServiceRecords
  <2> QED BY <1>1, <1>3, <2>1, MovingWorkerType DEF Quiesce, DirTypeOK
<1>4. CASE Export
  <2>1. Successor \in Services \cup {None}
        BY <1>2, NumberFacts DEF Successor
  <2>2. tree' \in [Paths -> Services \cup {None}]
        BY <1>2, <1>4, <2>1 DEF Export, DirTypeOK
  <2>3. worker' \in WorkerRecords
        BY <1>1, <1>4, MovingWorkerType DEF Export
  <2> QED BY <1>4, <2>2, <2>3 DEF Export, DirTypeOK
<1>5. CASE ExportFails
  <2>1. ASSUME NEW s \in Services
        PROVE  [service[s] EXCEPT !.accepting = TRUE] \in ServiceRecords
        BY DEF DirTypeOK, ServiceRecords
  <2>2. service' \in [Services -> ServiceRecords]
        BY <1>5, <2>1, MadeRecords DEF ExportFails, DirTypeOK, Drop
  <2>3. worker' \in WorkerRecords
        BY <1>1, <1>5, MovingWorkerType DEF ExportFails
  <2> QED BY <1>5, <2>2, <2>3 DEF ExportFails, DirTypeOK
<1>6. CASE Stop
  <2>1. service' \in [Services -> ServiceRecords]
        BY <1>6 DEF Stop, DirTypeOK, ServiceRecords
  <2>2. worker' \in WorkerRecords
        BY <1>1, <1>6, MovingWorkerType DEF Stop
  <2> QED BY <1>6, <2>1, <2>2 DEF Stop, DirTypeOK
<1>7. ASSUME NEW st \in {"complete", "failed"}, LetGo(st)
      PROVE  /\ pending' \in [Dirs -> {None} \cup PendingRecords]
             /\ worker' = None /\ publish' \subseteq (Tids \X {"complete", "failed"})
      BY <1>2, <1>7 DEF LetGo, DirTypeOK
<1>8. CASE Complete
  <2> DEFINE now == IF worker.to = None THEN None
                    ELSE [path |-> worker.path, client |-> worker.to, by |-> worker.tid]
  <2>1. now \in {None} \cup ServedRecords
        BY <1>2, NumberFacts DEF ServedRecords
  <2>2. served' \in [Dirs -> {None} \cup ServedRecords]
    <3>1. served' = [served EXCEPT ![worker.dir] = now]
          BY <1>8 DEF Complete
    <3> HIDE DEF now
    <3> QED BY <1>2, <2>1, <3>1 DEF DirTypeOK
  <2>3. legacy' \in Clients
        BY <1>8, MadeRecords DEF Complete, DirTypeOK
  <2> QED BY <1>7, <1>8, <2>2, <2>3 DEF Complete, LetGo, DirTypeOK
<1>9. CASE Fail
      BY <1>7, <1>9 DEF Fail, LetGo, DirTypeOK
<1> QED BY <1>3, <1>4, <1>5, <1>6, <1>8, <1>9 DEF WorkerStep

LEMMA PublishType ==
    ASSUME DirTypeOK, StatusesMatch, Publish
    PROVE  DirTypeOK'
<1>1. PICK p \in publish : publish' = publish \ {p} /\ seen' = [seen EXCEPT ![p[1]] = p[2]]
      BY DEF Publish
<1>2. p[1] \in Tids /\ p[2] \in {"complete", "failed"} /\ seen[p[1]] = "pending"
      BY DEF DirTypeOK, StatusesMatch
<1>3. seen' \in [Tids -> {"unknown", "pending", "complete", "failed"}]
      BY <1>1, <1>2 DEF DirTypeOK
<1>4. {t \in Tids : seen'[t] # "unknown"} = {t \in Tids : seen[t] # "unknown"}
      BY <1>1, <1>2 DEF DirTypeOK
<1>5. Cardinality({t \in Tids : seen'[t] # "unknown"}) <= MaxSeen
      BY <1>4 DEF DirTypeOK
<1>6. publish' \subseteq (Tids \X {"complete", "failed"})
      BY <1>1 DEF DirTypeOK
<1>7. UNCHANGED <<served, pending, worker, tree, service, legacy, lastTid, lastPath>>
      BY DEF Publish
<1> QED BY <1>3, <1>5, <1>6, <1>7 DEF DirTypeOK

LEMMA CallType ==
    ASSUME DirTypeOK, NEW s \in Services, BeginCall(s) \/ EndCall(s)
    PROVE  DirTypeOK'
<1>1. service' \in [Services -> ServiceRecords]
      BY DirectoriesAssumption DEF BeginCall, EndCall, DirTypeOK, ServiceRecords
<1> QED BY <1>1 DEF BeginCall, EndCall, DirTypeOK

-----------------------------------------------------------------------------
(* The tree.                                                               *)

LEMMA ReachedType ==
    ASSUME DirTypeOK, NEW d \in Dirs
    PROVE  /\ Reached(d) \in {None} \cup ServedRecords
           /\ Reached(d) # None =>
                 Reached(d).path \in Paths /\ Reached(d).client \in Clients
                 /\ Reached(d).by \in Services
<1>1. served[d] \in {None} \cup ServedRecords
      BY DEF DirTypeOK
<1>2. ASSUME Swapped, worker.to # None
      PROVE  [path |-> worker.path, client |-> worker.to, by |-> worker.tid] \in ServedRecords
  <2>1. worker \in WorkerRecords
        BY <1>2 DEF Swapped, At, DirTypeOK
  <2> QED BY <1>2, <2>1, NumberFacts DEF WorkerRecords, ServedRecords
<1>3. Reached(d) \in {None} \cup ServedRecords
      BY <1>1, <1>2 DEF Reached
<1> QED BY <1>3 DEF ServedRecords

\* A path leads to one directory's service, or to the empty one.
LEMMA PathOfService ==
    ASSUME DirTypeOK, TreeMatches, NEW p \in Paths, tree[p] # None
    PROVE  \/ \E d \in Dirs : /\ Reached(d) # None /\ Reached(d).path = p
                              /\ service[tree[p]].dir = d
                              /\ service[tree[p]].client = Reached(d).client
           \/ p = RootPath /\ service[tree[p]].dir = None
<1>1. CASE p = RootPath /\ service[tree[p]].dir = None
      BY <1>1
<1>2. ASSUME NEW d \in Dirs, Reached(d) # None, Reached(d).path = p
      PROVE  service[tree[p]].dir = d /\ service[tree[p]].client = Reached(d).client
      BY <1>2 DEF TreeMatches
<1> QED BY <1>1, <1>2 DEF TreeMatches

\* No two paths lead to services of one directory, let alone to one service.
LEMMA OnePathEach ==
    ASSUME DirTypeOK, TreeMatches, NEW p \in Paths, NEW q \in Paths,
           tree[p] # None, tree[q] # None, service[tree[p]].dir = service[tree[q]].dir
    PROVE  p = q
BY PathOfService, NumberFacts

\* A step that leaves alone what is reached, the tree, and whose the services in it are.
LEMMA TreeStays ==
    ASSUME DirTypeOK, TreeMatches, tree' = tree,
           \A d \in Dirs : Reached(d)' = Reached(d),
           \A s \in Services : InTree(s) =>
               service'[s].dir = service[s].dir /\ service'[s].client = service[s].client
    PROVE  TreeMatches'
<1>1. ASSUME NEW p \in Paths, tree[p] # None
      PROVE  /\ tree[p] \in Services
             /\ service'[tree[p]].dir = service[tree[p]].dir
             /\ service'[tree[p]].client = service[tree[p]].client
      BY <1>1 DEF InTree, DirTypeOK
<1>2. ASSUME NEW d \in Dirs, Reached(d) # None
      PROVE  /\ tree'[Reached(d).path] = Reached(d).by
             /\ service'[Reached(d).by].dir = d
             /\ service'[Reached(d).by].client = Reached(d).client
  <2>1. /\ tree[Reached(d).path] = Reached(d).by
        /\ service[Reached(d).by].dir = d /\ service[Reached(d).by].client = Reached(d).client
        BY <1>2 DEF TreeMatches
  <2>2. Reached(d).path \in Paths /\ Reached(d).by # None
        BY <1>2, ReachedType, NumberFacts
  <2> QED BY <1>1, <2>1, <2>2
<1>3. ASSUME NEW p \in Paths, tree'[p] # None
      PROVE  \/ \E d \in Dirs : Reached(d)' # None /\ Reached(d)'.path = p
             \/ p = RootPath /\ service'[tree'[p]].dir = None
      BY <1>1, <1>3 DEF TreeMatches
<1> QED BY <1>2, <1>3 DEF TreeMatches

LEMMA IdleReached ==
    ASSUME ~Swapped, NEW d
    PROVE  Reached(d) = served[d]
BY DEF Reached

-----------------------------------------------------------------------------
(* The calls.                                                              *)

Matches ==
    /\ TreeMatches /\ WorkerMatches /\ WorkMatches
    /\ NumbersMatch /\ StatusesMatch /\ PendingMatches

\* A number that is handed out is nobody's yet.
LEMMA NewIsNobodys ==
    ASSUME DirTypeOK, NumbersMatch
    PROVE  /\ ~InTree(lastTid + 1)
           /\ \A d \in Dirs : served[d] # None => served[d].by # lastTid + 1
           /\ lastPath + 1 \in Paths => tree[lastPath + 1] = None
           /\ lastPath + 1 # RootPath
<1>1. lastTid \in Nat /\ lastPath \in Nat
      BY DEF DirTypeOK
<1>2. \A p \in Paths : tree[p] # None => p <= lastPath /\ tree[p] <= lastTid
      BY DEF NumbersMatch
<1>3. \A p \in Paths : tree[p] # lastTid + 1
  <2>1. lastTid + 1 # None
        BY <1>1, DirectoriesAssumption
  <2> QED BY <1>1, <1>2, <2>1
<1>4. \A d \in Dirs : served[d] # None => served[d].by <= lastTid
      BY DEF NumbersMatch
<1>5. lastPath + 1 # RootPath
      BY <1>1 DEF RootPath
<1> QED BY <1>1, <1>2, <1>3, <1>4, <1>5 DEF InTree

LEMMA NewStatuses ==
    ASSUME DirTypeOK, StatusesMatch, NEW st \in {"pending", "complete"}, NewTransition(st),
           worker = None, publish' = publish,
           worker' # None => worker'.tid = lastTid + 1 /\ st = "pending"
    PROVE  StatusesMatch'
<1>1. /\ lastTid' = lastTid + 1 /\ lastTid \in Nat /\ seen'[lastTid'] = st
      /\ \A t \in Tids : t <= lastTid /\ seen[t] = "pending" => seen'[t] = "pending"
      BY NewTransitionFacts
<1>2. ASSUME NEW p \in publish
      PROVE  p[1] <= lastTid /\ p[1] # lastTid + 1 /\ p[1] <= lastTid' /\ seen'[p[1]] = "pending"
  <2>1. p[1] \in Nat /\ p[1] \in Tids
        BY NumberFacts DEF DirTypeOK
  <2> QED BY <1>1, <2>1 DEF StatusesMatch
<1>3. \A p, q \in publish : p[1] = q[1] => p = q
      BY DEF StatusesMatch
<1> QED BY <1>1, <1>2, <1>3 DEF StatusesMatch

LEMMA AnswerMatches ==
    ASSUME DirTypeOK, Matches, worker = None, NEW d \in Dirs, NEW reply, AnswerUnchanged(d, reply)
    PROVE  Matches'
<1>1. UNCHANGED <<served, pending, worker, publish, tree, service, legacy, lastPath>>
      BY DEF AnswerUnchanged
<1>2. lastTid' = lastTid + 1 /\ lastTid \in Nat /\ lastPath \in Nat
      BY NewTransitionFacts DEF AnswerUnchanged, DirTypeOK
<1>3. StatusesMatch'
      BY <1>1, NewStatuses DEF AnswerUnchanged, Matches
<1>4. ~Swapped /\ ~Swapped'
      BY <1>1 DEF Swapped, At
<1>5. TreeMatches'
      BY <1>1, <1>4, IdleReached, TreeStays DEF Matches, Reached
<1>6. WorkMatches' /\ WorkerMatches' /\ PendingMatches'
      BY <1>1 DEF Matches, WorkMatches, WorkerMatches, PendingMatches, At, InTree, Successor
<1>7. NumbersMatch'
  <2>1. \A e \in Dirs : served[e] # None => served[e].by \in Nat
        BY NumberFacts DEF DirTypeOK, ServedRecords
  <2>2. \A p \in Paths : tree[p] # None => tree[p] \in Nat
        BY NumberFacts DEF DirTypeOK
  <2>3. \A s \in Services : s \in Nat
        BY NumberFacts
  <2> QED BY <1>1, <1>2, <2>1, <2>2, <2>3 DEF Matches, NumbersMatch
<1> QED BY <1>3, <1>5, <1>6, <1>7 DEF Matches

\* What a transition starts with, whichever way it goes.
LEMMA StartMatches ==
    ASSUME DirTypeOK, Matches, worker = None, NewTransition("pending"), publish' = publish,
           worker' \in WorkerRecords,
           UNCHANGED <<served, tree>>,
           NEW d \in Dirs,
           worker'.dir = d, worker'.tid = lastTid + 1, worker'.at \in {"quiesce", "export"},
           \A e \in Dirs : pending'[e] # None <=> e = d,
           \A s \in Services : s # lastTid + 1 => service'[s] = service[s],
           lastPath' \in {lastPath, lastPath + 1}, worker'.path <= lastPath',
           \/ Successor' # None /\ service'[lastTid + 1].working
           \/ Successor' = None /\ service'[lastTid + 1] = NoService,
           service'[lastTid + 1].calls = 0,
           worker'.to = None => served[d] # None,
           served[d] # None => worker'.old = served[d].by /\ worker'.path = served[d].path,
           served[d] = None => worker'.old = None /\ worker'.at = "export"
                               /\ worker'.path = lastPath + 1 /\ worker'.path \in Paths,
           worker'.to # None => /\ service'[lastTid + 1].dir = d
                                /\ service'[lastTid + 1].client = worker'.to,
           worker'.to = None => service'[lastTid + 1].dir = None
    PROVE  Matches'
<1>1. /\ lastTid' = lastTid + 1 /\ lastTid' \in Tids /\ lastTid \in Nat /\ lastPath \in Nat
      /\ lastTid + 1 \in Services
      BY NewTransitionFacts, NumberFacts DEF DirTypeOK
<1>2. worker' # None
      BY NoneAssumption
<1>3. StatusesMatch'
      BY <1>2, NewStatuses DEF Matches
<1>4. ~Swapped /\ ~Swapped'
      BY DEF Swapped, At
<1>5. ~InTree(lastTid + 1) /\ \A s : InTree(s)' <=> InTree(s)
      BY NewIsNobodys DEF Matches, InTree
<1>6. TreeMatches'
  <2>1. \A e \in Dirs : Reached(e)' = Reached(e)
        BY <1>4 DEF Reached
  <2>2. \A s \in Services : InTree(s) => service'[s] = service[s]
        BY <1>5
  <2> QED BY <2>1, <2>2, TreeStays DEF Matches
<1>7. WorkerMatches'
  <2>1. served[d] = None => worker'.path # RootPath /\ tree[worker'.path] = None
        BY NewIsNobodys DEF Matches
  <2>2. ~At("stop")' /\ (At("quiesce") \/ At("export"))'
        BY <1>2 DEF At
  <2>3. \A p \in Paths : tree'[p] # worker'.tid
        BY <1>5 DEF InTree
  <2> QED BY <1>1, <1>4, <2>1, <2>2, <2>3 DEF WorkerMatches, At, InTree
<1>8. WorkMatches'
  <2>1. ASSUME NEW s \in Services, s = lastTid + 1
        PROVE  /\ service'[s].working <=> Successor' # None
               /\ service'[s].calls = 0 /\ ~InTree(s)'
        BY <1>5, <2>1 DEF NoService
  <2>2. ASSUME NEW s \in Services, s # lastTid + 1
        PROVE  /\ service'[s].working <=> InTree(s)'
               /\ service'[s].calls > 0 => InTree(s)'
               /\ s # worker'.tid
    <3>1. service'[s] = service[s] /\ InTree(s)' = InTree(s)
          BY <2>2 DEF InTree
    <3> QED BY <2>2, <3>1 DEF Matches, WorkMatches, At
  <2>3. ~At("stop")' /\ (At("quiesce") \/ At("export"))'
        BY <1>2 DEF At
  <2> QED BY <2>1, <2>2, <2>3 DEF WorkMatches
<1>9. NumbersMatch'
  <2>1. \A e \in Dirs : served[e] # None => served[e].by \in Nat /\ served[e].path \in Nat
        BY NumberFacts DEF DirTypeOK, ServedRecords
  <2>2. \A p \in Paths : p \in Nat /\ (tree[p] # None => tree[p] \in Nat)
        BY NumberFacts DEF DirTypeOK
  <2>3. \A s \in Services : s \in Nat
        BY NumberFacts
  <2>4. lastPath <= lastPath' /\ lastPath' <= lastTid' /\ lastPath' \in Nat
        BY <1>1 DEF Matches, NumbersMatch
  <2>5. \A e \in Dirs : served[e] # None => served[e].by <= lastTid' /\ served[e].path <= lastPath'
        BY <1>1, <2>1, <2>4 DEF Matches, NumbersMatch
  <2>6. \A p \in Paths : tree[p] # None => p <= lastPath' /\ tree[p] <= lastTid'
        BY <1>1, <2>2, <2>4 DEF Matches, NumbersMatch
  <2>7. \A s \in Services : s > lastTid' => service'[s] = NoService
    <3>1. ASSUME NEW s \in Services, s > lastTid'
          PROVE  s > lastTid /\ s # lastTid + 1
          BY <1>1, <2>3, <3>1
    <3> QED BY <3>1 DEF Matches, NumbersMatch
  <2> QED BY <2>4, <2>5, <2>6, <2>7 DEF NumbersMatch
<1>10. PendingMatches'
      BY <1>2 DEF PendingMatches
<1> QED BY <1>3, <1>6, <1>7, <1>8, <1>9, <1>10 DEF Matches

LEMMA StartOpenMatches ==
    ASSUME DirTypeOK, Matches, worker = None, NEW d \in Dirs, NEW c \in Clients,
           NEW kind \in {"Open", "OpenConfigured"}, NEW reply, StartOpen(d, c, kind, reply)
    PROVE  Matches'
<1>1. DirTypeOK' /\ worker' \in WorkerRecords
      BY StartOpenType DEF Matches
<1>2. /\ lastTid' = lastTid + 1 /\ lastTid + 1 \in Tids /\ lastTid + 1 \in Services
      /\ lastPath \in Nat
      BY NewTransitionFacts, NumberFacts DEF StartOpen, DirTypeOK
<1>3. \A e \in Dirs : pending[e] = None
      BY DEF Matches, PendingMatches
<1>4. worker' # None /\ worker' \in WorkerRecords /\ worker'.to = c /\ c # None
      /\ worker'.tid = lastTid + 1 /\ worker'.dir = d
      BY <1>1, NumberFacts, NoneAssumption DEF StartOpen
<1>5. Successor' # None
      BY <1>2, <1>4, NumberFacts DEF Successor
<1>6. \A e \in Dirs : pending'[e] # None <=> e = d
  <2>1. ASSUME NEW e \in Dirs, e # d
        PROVE  pending'[e] = None
        BY <1>3, <2>1 DEF StartOpen, DirTypeOK
  <2>2. pending'[d] # None
    <3>1. pending'[d] = [tid |-> lastTid + 1,
              path |-> IF served[d] = None THEN lastPath + 1 ELSE served[d].path, kind |-> kind,
              client |-> IF kind = "OpenConfigured" THEN c ELSE None]
          BY DEF StartOpen, DirTypeOK
    <3>2. (IF served[d] = None THEN lastPath + 1 ELSE served[d].path) \in Paths
      <4>1. served[d] # None => served[d].path \in Paths
            BY DEF DirTypeOK, ServedRecords
      <4>2. served[d] = None => lastPath' = lastPath + 1
            BY DEF StartOpen
      <4> QED BY <1>1, <4>1, <4>2 DEF DirTypeOK, Paths
    <3>3. pending'[d] \in PendingRecords
          BY <1>2, <3>1, <3>2 DEF PendingRecords
    <3> QED BY <3>3, NoneAssumption
  <2> QED BY <2>1, <2>2
<1>7. service'[lastTid + 1] = Working(d, c)
      BY <1>2 DEF StartOpen, DirTypeOK
<1>8. \A s \in Services : s # lastTid + 1 => service'[s] = service[s]
      BY <1>2 DEF StartOpen, DirTypeOK
<1>9. /\ served[d] # None => worker'.old = served[d].by /\ worker'.path = served[d].path
      /\ served[d] = None => worker'.old = None /\ worker'.at = "export"
                               /\ worker'.path = lastPath + 1 /\ lastPath' = lastPath + 1
      /\ worker'.at \in {"quiesce", "export"}
      /\ lastPath' \in {lastPath, lastPath + 1}
      BY DEF StartOpen
<1>10. worker'.path <= lastPath'
  <2>1. CASE served[d] = None
        BY <1>2, <1>9, <2>1
  <2>2. CASE served[d] # None
    <3>1. served[d].path <= lastPath /\ served[d].path \in Nat
          BY <2>2, NumberFacts DEF Matches, NumbersMatch, DirTypeOK, ServedRecords
    <3> QED BY <1>2, <1>9, <2>2, <3>1
  <2> QED BY <2>1, <2>2
<1>11. worker'.path \in Paths
      BY <1>4 DEF WorkerRecords
<1> QED BY <1>4, <1>5, <1>6, <1>7, <1>8, <1>9, <1>10, <1>11, StartMatches DEF StartOpen, Working

LEMMA StartCloseMatches ==
    ASSUME DirTypeOK, Matches, worker = None, NEW d \in Dirs, served[d] # None,
           NEW reply, StartClose(d, reply)
    PROVE  Matches'
<1>1. DirTypeOK' /\ worker' \in WorkerRecords
      BY StartCloseType
<1>2. /\ lastTid' = lastTid + 1 /\ lastTid + 1 \in Tids /\ lastTid + 1 \in Services
      /\ lastPath \in Nat /\ lastTid \in Nat
      BY NewTransitionFacts, NumberFacts DEF StartClose, DirTypeOK
<1>3. \A e \in Dirs : pending[e] = None
      BY DEF Matches, PendingMatches
<1>4. /\ worker' # None /\ worker' \in WorkerRecords /\ worker'.to = None
      /\ worker'.tid = lastTid + 1 /\ worker'.dir = d /\ worker'.at = "quiesce"
      /\ worker'.old = served[d].by /\ worker'.path = served[d].path
      BY <1>1, NoneAssumption DEF StartClose
<1>5. served[d].path \in Paths /\ served[d].path <= lastPath /\ lastPath' = lastPath
      BY DEF StartClose, Matches, NumbersMatch, DirTypeOK, ServedRecords
<1>6. \A e \in Dirs : pending'[e] # None <=> e = d
  <2>1. ASSUME NEW e \in Dirs, e # d
        PROVE  pending'[e] = None
        BY <1>3, <2>1 DEF StartClose, DirTypeOK
  <2>2. pending'[d] = [tid |-> lastTid + 1, path |-> served[d].path, kind |-> "Close", client |-> None]
        BY DEF StartClose, DirTypeOK
  <2>3. pending'[d] \in PendingRecords
        BY <1>2, <1>5, <2>2 DEF PendingRecords
  <2> QED BY <2>1, <2>3, NoneAssumption
<1>7. \A s \in Services : s # lastTid + 1 => service'[s] = service[s]
      BY <1>2 DEF StartClose, DirTypeOK
<1>8. CASE served[d].path = RootPath
  <2>1. Successor' # None
        BY <1>2, <1>4, <1>8, NumberFacts DEF Successor
  <2>2. service'[lastTid + 1] = Working(None, Default)
        BY <1>2, <1>8 DEF StartClose, DirTypeOK
  <2> QED BY <1>4, <1>5, <1>6, <1>7, <2>1, <2>2, StartMatches DEF StartClose, Working
<1>9. CASE served[d].path # RootPath
  <2>1. Successor' = None
        BY <1>4, <1>9 DEF Successor
  <2>2. service'[lastTid + 1] = NoService
    <3>1. service'[lastTid + 1] = service[lastTid + 1]
          BY <1>9 DEF StartClose
    <3>2. lastTid + 1 > lastTid
          BY <1>2
    <3> QED BY <1>2, <3>1, <3>2 DEF Matches, NumbersMatch
  <2>3. service'[lastTid + 1].calls = 0 /\ service'[lastTid + 1].dir = None
        BY <2>2 DEF NoService
  <2>4. NewTransition("pending") /\ publish' = publish /\ UNCHANGED <<served, tree>>
        BY DEF StartClose
  <2> QED BY <1>4, <1>5, <1>6, <1>7, <2>1, <2>2, <2>3, <2>4, StartMatches
<1> QED BY <1>8, <1>9

-----------------------------------------------------------------------------
(* The worker.                                                             *)

LEMMA WorkerFields ==
    ASSUME DirTypeOK, worker # None
    PROVE  /\ worker \in WorkerRecords
           /\ worker.dir \in Dirs /\ worker.tid \in Tids /\ worker.tid \in Services
           /\ worker.path \in Paths
           /\ worker.to \in Clients \cup {None} /\ worker.old \in Services \cup {None}
           /\ worker.at \in {"quiesce", "export", "stop", "complete", "fail"}
           /\ Successor \in {None, worker.tid}
BY NumberFacts DEF DirTypeOK, WorkerRecords, Successor

\* The step that the worker has come to is all that changes of it.
LEMMA GotoKeeps ==
    ASSUME DirTypeOK, worker # None,
           NEW step \in {"quiesce", "export", "stop", "complete", "fail"}, Goto(step)
    PROVE  /\ worker' # None /\ worker'.at = step
           /\ worker'.dir = worker.dir /\ worker'.tid = worker.tid /\ worker'.path = worker.path
           /\ worker'.to = worker.to /\ worker'.old = worker.old
           /\ Successor' = Successor
<1>1. worker' \in WorkerRecords /\ worker \in WorkerRecords
      BY MovingWorkerType, WorkerFields
<1> QED BY <1>1, NoneAssumption DEF Goto, WorkerRecords, Successor

\* What is recorded of a directory is what its old service is.
LEMMA OldIsReached ==
    ASSUME DirTypeOK, Matches, worker # None, served[worker.dir] # None
    PROVE  /\ worker.old \in Services /\ worker.old <= lastTid
           /\ ~Swapped => tree[worker.path] = worker.old
<1>1. worker.dir \in Dirs
      BY WorkerFields
<1>2. worker.old = served[worker.dir].by /\ worker.path = served[worker.dir].path
      BY DEF Matches, WorkerMatches
<1>3. worker.old \in Services /\ worker.old <= lastTid
      BY <1>1, <1>2 DEF DirTypeOK, ServedRecords, Matches, NumbersMatch
<1>4. ASSUME ~Swapped
      PROVE  tree[worker.path] = worker.old
      BY <1>1, <1>2, <1>4, IdleReached DEF Matches, TreeMatches
<1> QED BY <1>3, <1>4

LEMMA QuiesceMatches ==
    ASSUME DirTypeOK, Matches, Quiesce
    PROVE  Matches'
<1>1. /\ worker # None /\ worker.at = "quiesce" /\ Goto("export")
      /\ UNCHANGED <<served, pending, publish, seen, tree, legacy, lastTid, lastPath>>
      BY DEF Quiesce, At
<1>2. /\ worker' # None /\ worker'.at = "export"
      /\ worker'.dir = worker.dir /\ worker'.tid = worker.tid /\ worker'.path = worker.path
      /\ worker'.to = worker.to /\ worker'.old = worker.old /\ Successor' = Successor
      BY <1>1, GotoKeeps
<1>3. served[worker.dir] # None /\ worker.old \in Services /\ worker.old <= lastTid
      BY <1>1, OldIsReached DEF Matches, WorkerMatches
<1>4. ASSUME NEW s \in Services
      PROVE  /\ service'[s].dir = service[s].dir /\ service'[s].client = service[s].client
             /\ service'[s].working = service[s].working /\ service'[s].calls = service[s].calls
             /\ s # worker.old => service'[s] = service[s]
      BY <1>3 DEF Quiesce, DirTypeOK, ServiceRecords
<1>5. ~Swapped /\ ~Swapped' /\ \A s : InTree(s)' <=> InTree(s)
      BY <1>1, <1>2 DEF Swapped, At, InTree
<1>6. TreeMatches'
      BY <1>1, <1>4, <1>5, TreeStays DEF Matches, Reached
<1>7. WorkerMatches'
      BY <1>1, <1>2, <1>3, <1>4, <1>5, WorkerFields DEF Matches, WorkerMatches, At, InTree
<1>8. WorkMatches'
      BY <1>1, <1>2, <1>4, <1>5 DEF Matches, WorkMatches, At
<1>9. NumbersMatch'
  <2>1. \A s \in Services : s > lastTid => service'[s] = NoService
    <3>1. \A s \in Services : s > lastTid => s # worker.old
          BY <1>3, NumberFacts DEF DirTypeOK
    <3> QED BY <1>4, <3>1 DEF Matches, NumbersMatch
  <2> QED BY <1>1, <1>2, <2>1 DEF Matches, NumbersMatch
<1>10. StatusesMatch' /\ PendingMatches'
      BY <1>1, <1>2 DEF Matches, StatusesMatch, PendingMatches
<1> QED BY <1>6, <1>7, <1>8, <1>9, <1>10 DEF Matches

LEMMA StopMatches ==
    ASSUME DirTypeOK, Matches, Stop
    PROVE  Matches'
<1>1. /\ worker # None /\ worker.at = "stop" /\ Goto("complete")
      /\ UNCHANGED <<served, pending, publish, seen, tree, legacy, lastTid, lastPath>>
      BY DEF Stop, At
<1>2. /\ worker' # None /\ worker'.at = "complete"
      /\ worker'.dir = worker.dir /\ worker'.tid = worker.tid /\ worker'.path = worker.path
      /\ worker'.to = worker.to /\ worker'.old = worker.old /\ Successor' = Successor
      BY <1>1, GotoKeeps
<1>3. served[worker.dir] # None /\ worker.old \in Services /\ worker.old <= lastTid
      BY <1>1, OldIsReached DEF Matches, WorkerMatches
<1>4. ASSUME NEW s \in Services
      PROVE  /\ service'[s].dir = service[s].dir /\ service'[s].client = service[s].client
             /\ service'[s].calls = service[s].calls
             /\ s # worker.old => service'[s] = service[s]
             /\ s = worker.old => ~service'[s].working
      BY <1>3 DEF Stop, DirTypeOK, ServiceRecords
<1>5. Swapped /\ Swapped' /\ \A s : InTree(s)' <=> InTree(s)
      BY <1>1, <1>2 DEF Swapped, At, InTree
<1>6. TreeMatches'
      BY <1>1, <1>2, <1>4, <1>5, TreeStays DEF Matches, Reached
<1>7. WorkerMatches'
      BY <1>1, <1>2, <1>3, <1>5 DEF Matches, WorkerMatches, At, InTree
<1>8. ~InTree(worker.old)
      BY <1>1 DEF Matches, WorkerMatches, At
<1>9. WorkMatches'
  <2>1. ASSUME NEW s \in Services
        PROVE  /\ service'[s].working <=> InTree(s)
               /\ service'[s].calls > 0 => InTree(s)
    <3>1. service[s].working <=> InTree(s) \/ s = worker.old
          BY <1>1 DEF Matches, WorkMatches, At
    <3>2. service[s].calls > 0 => InTree(s)
          BY DEF Matches, WorkMatches
    <3> QED BY <1>4, <1>8, <3>1, <3>2
  <2> QED BY <1>2, <1>5, <2>1 DEF WorkMatches, At
<1>10. NumbersMatch'
  <2>1. \A s \in Services : s > lastTid => service'[s] = NoService
    <3>1. \A s \in Services : s > lastTid => s # worker.old
          BY <1>3, NumberFacts DEF DirTypeOK
    <3> QED BY <1>4, <3>1 DEF Matches, NumbersMatch
  <2> QED BY <1>1, <1>2, <2>1 DEF Matches, NumbersMatch
<1>11. StatusesMatch' /\ PendingMatches'
      BY <1>1, <1>2 DEF Matches, StatusesMatch, PendingMatches
<1> QED BY <1>6, <1>7, <1>9, <1>10, <1>11 DEF Matches

LEMMA ExportFailsMatches ==
    ASSUME DirTypeOK, Matches, ExportFails
    PROVE  Matches'
<1>1. /\ worker # None /\ worker.at = "export" /\ Goto("fail") /\ Successor # None
      /\ UNCHANGED <<served, pending, publish, seen, tree, legacy, lastTid, lastPath>>
      BY DEF ExportFails, At
<1>2. /\ worker' # None /\ worker'.at = "fail"
      /\ worker'.dir = worker.dir /\ worker'.tid = worker.tid /\ worker'.path = worker.path
      /\ worker'.to = worker.to /\ worker'.old = worker.old /\ Successor' = Successor
      BY <1>1, GotoKeeps
<1>3. ~Swapped /\ ~Swapped' /\ (\A s : InTree(s)' <=> InTree(s)) /\ ~InTree(worker.tid)
      BY <1>1, <1>2 DEF Swapped, At, InTree, Matches, WorkerMatches
<1>4. ASSUME NEW s \in Services
      PROVE  /\ s # worker.tid => /\ service'[s].dir = service[s].dir
                                  /\ service'[s].client = service[s].client
                                  /\ service'[s].working = service[s].working
                                  /\ service'[s].calls = service[s].calls
             /\ s # worker.tid /\ s # worker.old => service'[s] = service[s]
             /\ s = worker.tid => service'[s] = NoService
      BY DEF ExportFails, Drop, DirTypeOK, ServiceRecords
<1>5. TreeMatches'
      BY <1>1, <1>3, <1>4, TreeStays DEF Matches, Reached
<1>6. WorkerMatches'
      BY <1>1, <1>2, <1>3 DEF Matches, WorkerMatches, At
<1>7. WorkMatches'
  <2>1. ASSUME NEW s \in Services, s # worker.tid
        PROVE  /\ service'[s].working <=> InTree(s)
               /\ service'[s].calls > 0 => InTree(s)
    <3>1. service[s].working <=> InTree(s)
          BY <1>1, <2>1 DEF Matches, WorkMatches, At
    <3> QED BY <1>4, <2>1, <3>1 DEF Matches, WorkMatches
  <2>2. ~service'[worker.tid].working /\ service'[worker.tid].calls = 0
        BY <1>1, <1>4, WorkerFields DEF NoService
  <2> QED BY <1>2, <1>3, <2>1, <2>2 DEF WorkMatches, At
<1>8. NumbersMatch'
  <2>1. worker.old # None => worker.old <= lastTid
        BY <1>1, OldIsReached DEF Matches, WorkerMatches
  <2>2. ASSUME NEW s \in Services, s > lastTid
        PROVE  service'[s] = NoService
    <3>1. s # None /\ s # worker.old
          BY <1>1, <2>1, <2>2, WorkerFields, NumberFacts DEF DirTypeOK
    <3> QED BY <1>4, <2>2, <3>1 DEF Matches, NumbersMatch
  <2> QED BY <1>1, <1>2, <2>2 DEF Matches, NumbersMatch
<1>9. StatusesMatch' /\ PendingMatches'
      BY <1>1, <1>2 DEF Matches, StatusesMatch, PendingMatches
<1> QED BY <1>5, <1>6, <1>7, <1>8, <1>9 DEF Matches

\* The export is the step that counts: what the directory's callers reach changes here.
LEMMA ExportFacts ==
    ASSUME DirTypeOK, Matches, Export
    PROVE  /\ worker # None /\ worker.at = "export" /\ ~Swapped
           /\ worker' # None /\ worker'.at = (IF worker.old = None THEN "complete" ELSE "stop")
           /\ worker'.dir = worker.dir /\ worker'.tid = worker.tid /\ worker'.path = worker.path
           /\ worker'.to = worker.to /\ worker'.old = worker.old /\ Successor' = Successor
           /\ Swapped'
           /\ UNCHANGED <<served, pending, publish, seen, service, legacy, lastTid, lastPath>>
           /\ tree' \in [Paths -> Services \cup {None}]
           /\ tree'[worker.path] = Successor
           /\ \A p \in Paths : p # worker.path => tree'[p] = tree[p]
           /\ \A d \in Dirs : d # worker.dir => Reached(d)' = Reached(d)
           /\ Reached(worker.dir)' =
                 IF worker.to = None THEN None
                 ELSE [path |-> worker.path, client |-> worker.to, by |-> worker.tid]
<1>1. /\ worker # None /\ worker.at = "export"
      /\ Goto(IF worker.old = None THEN "complete" ELSE "stop")
      /\ tree' = [tree EXCEPT ![worker.path] = Successor]
      /\ UNCHANGED <<served, pending, publish, seen, service, legacy, lastTid, lastPath>>
      BY DEF Export, At
<1>2. /\ worker' # None /\ worker'.at = (IF worker.old = None THEN "complete" ELSE "stop")
      /\ worker'.dir = worker.dir /\ worker'.tid = worker.tid /\ worker'.path = worker.path
      /\ worker'.to = worker.to /\ worker'.old = worker.old /\ Successor' = Successor
      BY <1>1, GotoKeeps
<1>3. ~Swapped /\ Swapped'
      BY <1>1, <1>2 DEF Swapped, At
<1>4. /\ tree' \in [Paths -> Services \cup {None}]
      /\ tree'[worker.path] = Successor
      /\ \A p \in Paths : p # worker.path => tree'[p] = tree[p]
      BY <1>1, WorkerFields DEF DirTypeOK
<1>5. /\ \A d \in Dirs : d # worker.dir => Reached(d)' = Reached(d)
      /\ Reached(worker.dir)' =
            IF worker.to = None THEN None
            ELSE [path |-> worker.path, client |-> worker.to, by |-> worker.tid]
      BY <1>1, <1>2, <1>3 DEF Reached
<1> QED BY <1>1, <1>2, <1>3, <1>4, <1>5

\* Nobody else is reached at the worker's path.
LEMMA PathIsWorkers ==
    ASSUME DirTypeOK, Matches, worker # None, ~Swapped,
           NEW d \in Dirs, d # worker.dir, Reached(d) # None
    PROVE  Reached(d).path # worker.path
<1>1. tree[Reached(d).path] = Reached(d).by /\ service[Reached(d).by].dir = d
      /\ Reached(d).by # None
      BY ReachedType, NumberFacts DEF Matches, TreeMatches
<1>2. CASE served[worker.dir] = None
      BY <1>1, <1>2 DEF Matches, WorkerMatches
<1>3. CASE served[worker.dir] # None
  <2>1. Reached(worker.dir) = served[worker.dir] /\ worker.path = served[worker.dir].path
        BY <1>3, IdleReached DEF Matches, WorkerMatches
  <2>2. service[tree[worker.path]].dir = worker.dir
        BY <1>3, <2>1, WorkerFields DEF Matches, TreeMatches
  <2> QED BY <1>1, <2>2
<1> QED BY <1>2, <1>3

LEMMA ExportTree ==
    ASSUME DirTypeOK, Matches, Export
    PROVE  TreeMatches'
<1>1. /\ worker # None /\ ~Swapped /\ worker.dir \in Dirs /\ worker.path \in Paths
      /\ worker.tid \in Services /\ service' = service
      BY ExportFacts, WorkerFields
<1>2. ASSUME NEW d \in Dirs, d # worker.dir, Reached(d)' # None
      PROVE  /\ tree'[Reached(d)'.path] = Reached(d)'.by
             /\ service'[Reached(d)'.by].dir = d
             /\ service'[Reached(d)'.by].client = Reached(d)'.client
  <2>1. Reached(d)' = Reached(d)
        BY <1>2, ExportFacts
  <2>2. Reached(d).path \in Paths /\ Reached(d).path # worker.path
        BY <1>1, <1>2, <2>1, ReachedType, PathIsWorkers
  <2>3. tree'[Reached(d).path] = tree[Reached(d).path]
        BY <2>2, ExportFacts
  <2> QED BY <1>1, <1>2, <2>1, <2>3 DEF Matches, TreeMatches
<1>3. ASSUME Reached(worker.dir)' # None
      PROVE  /\ tree'[Reached(worker.dir)'.path] = Reached(worker.dir)'.by
             /\ service'[Reached(worker.dir)'.by].dir = worker.dir
             /\ service'[Reached(worker.dir)'.by].client = Reached(worker.dir)'.client
  <2>1. /\ worker.to # None
        /\ Reached(worker.dir)' = [path |-> worker.path, client |-> worker.to, by |-> worker.tid]
        BY <1>3, ExportFacts
  <2>2. tree'[worker.path] = worker.tid
        BY <2>1, ExportFacts DEF Successor
  <2>3. service[worker.tid].dir = worker.dir /\ service[worker.tid].client = worker.to
        BY <1>1, <2>1, ExportFacts DEF Matches, WorkerMatches, At
  <2> QED BY <1>1, <2>1, <2>2, <2>3
<1>4. ASSUME NEW p \in Paths, tree'[p] # None, p = worker.path
      PROVE  \/ \E d \in Dirs : Reached(d)' # None /\ Reached(d)'.path = p
             \/ p = RootPath /\ service'[tree'[p]].dir = None
  <2>1. tree'[p] = worker.tid /\ Successor # None
        BY <1>4, WorkerFields, ExportFacts
  <2>2. CASE worker.to = None
    <3>1. p = RootPath /\ service[worker.tid].dir = None
          BY <1>1, <1>4, <2>1, <2>2, ExportFacts DEF Successor, Matches, WorkerMatches, At
    <3> QED BY <1>1, <2>1, <3>1
  <2>3. CASE worker.to # None
    <3>1. [path |-> worker.path, client |-> worker.to, by |-> worker.tid] # None
          BY <1>1, <2>3, WorkerFields, NoneAssumption DEF ServedRecords
    <3> QED BY <1>1, <1>4, <2>3, <3>1, ExportFacts
  <2> QED BY <2>2, <2>3
<1>5. ASSUME NEW p \in Paths, tree'[p] # None, p # worker.path
      PROVE  \/ \E d \in Dirs : Reached(d)' # None /\ Reached(d)'.path = p
             \/ p = RootPath /\ service'[tree'[p]].dir = None
  <2>1. tree'[p] = tree[p]
        BY <1>5, ExportFacts
  <2>2. ASSUME NEW d \in Dirs, Reached(d) # None, Reached(d).path = p
        PROVE  d # worker.dir
        BY <1>1, <1>5, <2>2, IdleReached DEF Matches, WorkerMatches
  <2> QED BY <1>1, <1>5, <2>1, <2>2, ExportFacts DEF Matches, TreeMatches
<1> QED BY ExportFacts, <1>2, <1>3, <1>4, <1>5 DEF TreeMatches

LEMMA ExportMatches ==
    ASSUME DirTypeOK, Matches, Export
    PROVE  Matches'
<1>1. /\ worker # None /\ ~Swapped /\ worker.dir \in Dirs /\ worker.path \in Paths
      /\ worker.tid \in Services /\ service' = service /\ worker.at = "export"
      /\ ~InTree(worker.tid)
      BY ExportFacts, WorkerFields DEF Matches, WorkerMatches, At
<1>2. worker.old # None => served[worker.dir] # None
      BY <1>1 DEF Matches, WorkerMatches
<1>3. tree[worker.path] = worker.old
      BY <1>1, OldIsReached DEF Matches, WorkerMatches
\* what is in the tree now
<1>4. ASSUME NEW s \in Services
      PROVE  InTree(s)' <=> (InTree(s) /\ s # worker.old) \/ s = Successor
  <2>1. ASSUME NEW p \in Paths, tree[p] = s, s # worker.old
        PROVE  tree'[p] = s
        BY <1>3, <2>1, ExportFacts
  <2>2. ASSUME NEW p \in Paths, p # worker.path, tree'[p] = s
        PROVE  tree[p] = s /\ s # worker.old
    <3>1. tree[p] = s /\ tree[p] # None
          BY <2>2, ExportFacts, NumberFacts
    <3>2. ASSUME s = worker.old
          PROVE  p = worker.path
          BY <1>1, <1>3, <3>1, <3>2, OnePathEach DEF Matches
    <3> QED BY <2>2, <3>1, <3>2
  <2>3. tree'[worker.path] = Successor
        BY ExportFacts
  <2> QED BY <1>1, <2>1, <2>2, <2>3 DEF InTree
<1>5. WorkerMatches'
  <2>1. worker.old # None => worker.old \in Services /\ worker.old # worker.tid
        BY <1>1, <1>3, WorkerFields DEF InTree
  <2>2. At("stop")' => ~InTree(worker.old)'
    <3>1. ASSUME worker.old # None
          PROVE  ~InTree(worker.old)'
      <4>1. worker.old # Successor
            BY <2>1, <3>1, WorkerFields, <1>1
      <4>2. \A p \in Paths : tree'[p] # worker.old
        <5>1. ASSUME NEW p \in Paths, tree'[p] = worker.old
              PROVE  FALSE
          <6>1. p # worker.path
                BY <4>1, <5>1, ExportFacts
          <6>2. tree[p] = worker.old
                BY <5>1, <6>1, ExportFacts
          <6> QED BY <1>1, <1>3, <3>1, <6>1, <6>2, OnePathEach DEF Matches
        <5> QED BY <5>1
      <4> QED BY <4>2, ExportFacts DEF InTree
    <3> QED BY <3>1, ExportFacts DEF At
  <2>3. /\ worker'.tid = lastTid' /\ (worker'.to = None => served'[worker'.dir] # None)
        /\ served'[worker'.dir] # None =>
              worker'.old = served'[worker'.dir].by /\ worker'.path = served'[worker'.dir].path
        /\ served'[worker'.dir] = None =>
              worker'.old = None /\ worker'.path # RootPath /\ worker'.at = "complete"
        BY <1>1, ExportFacts DEF Matches, WorkerMatches
  <2>4. \A p \in Paths : At("stop")' => tree'[p] # worker'.old
        BY <2>2, ExportFacts DEF InTree
  <2>5. ~At("quiesce")' /\ ~At("export")' /\ Swapped'
        BY ExportFacts DEF At
  <2> QED BY <2>3, <2>4, <2>5 DEF WorkerMatches, InTree, At
<1>6. WorkMatches'
  <2>1. ASSUME NEW s \in Services
        PROVE  service'[s].calls = 0
        BY <1>1 DEF Export
  <2>2. ASSUME NEW s \in Services
        PROVE  service'[s].working <=> InTree(s)' \/ s = worker.old
    <3>1. service[s].working <=> InTree(s) \/ (Successor # None /\ s = worker.tid)
          BY <1>1 DEF Matches, WorkMatches, At
    <3>2. s = Successor <=> (Successor # None /\ s = worker.tid)
          BY <1>1, WorkerFields, NumberFacts
    <3>3. s = worker.old => InTree(s)
          BY <1>1, <1>3 DEF InTree
    <3> QED BY <1>1, <1>4, <3>1, <3>2, <3>3
  <2>3. ASSUME NEW s \in Services
        PROVE  At("stop")' /\ s = worker'.old <=> s = worker.old
        BY NumberFacts, ExportFacts DEF At
  <2>4. ~At("quiesce")' /\ ~At("export")'
        BY ExportFacts DEF At
  <2> QED BY <2>1, <2>2, <2>3, <2>4 DEF WorkMatches
<1>7. NumbersMatch'
  <2>1. ASSUME NEW p \in Paths, tree'[p] # None
        PROVE  p <= lastPath /\ tree'[p] <= lastTid
    <3>1. CASE p # worker.path
          BY <2>1, <3>1, ExportFacts DEF Matches, NumbersMatch
    <3>2. CASE p = worker.path
      <4>1. tree'[p] = lastTid /\ p <= lastPath /\ lastTid \in Nat
            BY <1>1, <2>1, <3>2, ExportFacts, WorkerFields
               DEF Matches, NumbersMatch, WorkerMatches, DirTypeOK
      <4> QED BY <4>1
    <3> QED BY <3>1, <3>2
  <2> QED BY <1>1, <2>1, ExportFacts DEF Matches, NumbersMatch
<1>8. StatusesMatch' /\ PendingMatches'
      BY <1>1, ExportFacts DEF Matches, StatusesMatch, PendingMatches
<1> QED BY <1>5, <1>6, <1>7, <1>8, ExportTree DEF Matches

\* The end of a transition, which records what has been reached all along.
LEMMA LetGoMatches ==
    ASSUME DirTypeOK, Matches, worker # None, worker.at \in {"complete", "fail"},
           NEW st \in {"complete", "failed"}, LetGo(st),
           \A d \in Dirs : served'[d] = Reached(d)
    PROVE  Matches'
<1>1. /\ worker' = None /\ UNCHANGED <<seen, tree, service, lastTid, lastPath>>
      /\ publish' = publish \cup {<<worker.tid, st>>}
      /\ pending' = [pending EXCEPT ![worker.dir] = None]
      BY DEF LetGo
<1>2. ~Swapped' /\ \A s : InTree(s)' <=> InTree(s)
      BY <1>1 DEF Swapped, At, InTree
<1>3. \A d \in Dirs : Reached(d)' = Reached(d)
      BY <1>2 DEF Reached
<1>4. TreeMatches'
      BY <1>1, <1>3, TreeStays DEF Matches
<1>5. WorkerMatches'
      BY <1>1 DEF WorkerMatches
<1>6. WorkMatches'
      BY <1>1, <1>2 DEF Matches, WorkMatches, At
<1>7. NumbersMatch'
  <2>1. ASSUME NEW d \in Dirs, served'[d] # None
        PROVE  served'[d].path <= lastPath /\ served'[d].by <= lastTid
    <3>1. CASE Reached(d) = served[d]
          BY <2>1, <3>1 DEF Matches, NumbersMatch
    <3>2. CASE Reached(d) # served[d]
      <4>1. Reached(d) = [path |-> worker.path, client |-> worker.to, by |-> worker.tid]
            BY <2>1, <3>2 DEF Reached
      <4>2. worker.tid <= lastTid /\ worker.path <= lastPath
            BY DEF Matches, WorkerMatches, NumbersMatch, DirTypeOK
      <4> QED BY <4>1, <4>2
    <3> QED BY <3>1, <3>2
  <2> QED BY <1>1, <2>1 DEF Matches, NumbersMatch
<1>8. StatusesMatch'
  <2>1. worker.tid <= lastTid
        BY DEF Matches, WorkerMatches, DirTypeOK
  <2>2. seen[worker.tid] = "pending" /\ \A p \in publish : p[1] # worker.tid
        BY DEF Matches, StatusesMatch
  <2>3. ASSUME NEW p \in publish'
        PROVE  p \in publish \/ (p = <<worker.tid, st>> /\ p[1] = worker.tid)
    <3>1. p \in publish \/ p = <<worker.tid, st>>
          BY <1>1
    <3>2. <<worker.tid, st>>[1] = worker.tid
          OBVIOUS
    <3>3. CASE p = <<worker.tid, st>>
          BY <3>2, <3>3
    <3> QED BY <3>1, <3>3
  <2>4. \A p \in publish' : p[1] <= lastTid /\ seen[p[1]] = "pending"
        BY <2>1, <2>2, <2>3 DEF Matches, StatusesMatch
  <2>5. \A p, q \in publish' : p[1] = q[1] => p = q
        BY <2>2, <2>3 DEF Matches, StatusesMatch
  <2> QED BY <1>1, <2>4, <2>5 DEF StatusesMatch
<1>9. PendingMatches'
      BY <1>1 DEF Matches, PendingMatches, DirTypeOK
<1> QED BY <1>4, <1>5, <1>6, <1>7, <1>8, <1>9 DEF Matches

LEMMA EndMatches ==
    ASSUME DirTypeOK, Matches, Complete \/ Fail
    PROVE  Matches'
<1>1. CASE Complete
  <2>1. worker # None /\ worker.at = "complete" /\ LetGo("complete")
        BY <1>1 DEF Complete, At
  <2>2. ASSUME NEW d \in Dirs
        PROVE  served'[d] = Reached(d)
        BY <1>1, <2>1 DEF Complete, Reached, Swapped, At, DirTypeOK
  <2> QED BY <2>1, <2>2, LetGoMatches
<1>2. CASE Fail
  <2>1. worker # None /\ worker.at = "fail" /\ LetGo("failed") /\ served' = served
        BY <1>2 DEF Fail, At
  <2>2. ASSUME NEW d \in Dirs
        PROVE  served'[d] = Reached(d)
        BY <2>1 DEF Reached, Swapped, At
  <2> QED BY <2>1, <2>2, LetGoMatches
<1> QED BY <1>1, <1>2

LEMMA PublishMatches ==
    ASSUME DirTypeOK, Matches, Publish
    PROVE  Matches'
<1>1. PICK p \in publish : publish' = publish \ {p} /\ seen' = [seen EXCEPT ![p[1]] = p[2]]
      BY DEF Publish
<1>2. UNCHANGED <<served, pending, worker, tree, service, legacy, lastTid, lastPath>>
      BY DEF Publish
<1>3. StatusesMatch'
  <2>1. ASSUME NEW t \in Tids, t # p[1]
        PROVE  seen'[t] = seen[t]
        BY <1>1, <2>1 DEF DirTypeOK
  <2>2. ASSUME NEW q \in publish'
        PROVE  q \in publish /\ q[1] \in Tids /\ q[1] # p[1]
    <3>1. q \in publish /\ q # p
          BY <1>1
    <3> QED BY <3>1 DEF Matches, StatusesMatch, DirTypeOK
  <2>3. worker # None => worker.tid \in Tids /\ worker.tid # p[1]
        BY WorkerFields DEF Matches, StatusesMatch
  <2> QED BY <1>2, <2>1, <2>2, <2>3 DEF Matches, StatusesMatch
<1>4. \A d : Reached(d)' = Reached(d)
      BY <1>2 DEF Reached, Swapped, At
<1>5. TreeMatches'
      BY <1>2, <1>4, TreeStays DEF Matches
<1> QED BY <1>2, <1>3, <1>5 DEF Matches, WorkerMatches, WorkMatches, NumbersMatch,
                                PendingMatches, At, Swapped, InTree, Successor

LEMMA CallMatches ==
    ASSUME DirTypeOK, Matches, NEW s \in Services, BeginCall(s) \/ EndCall(s)
    PROVE  Matches'
<1>1. UNCHANGED <<served, pending, worker, publish, seen, tree, legacy, lastTid, lastPath>>
      BY DEF BeginCall, EndCall
<1>2. ASSUME NEW r \in Services
      PROVE  /\ service'[r].dir = service[r].dir /\ service'[r].client = service[r].client
             /\ service'[r].working = service[r].working
             /\ r # s => service'[r] = service[r]
      BY DEF BeginCall, EndCall, DirTypeOK, ServiceRecords
<1>3. InTree(s)
  <2>1. CASE BeginCall(s)
        BY <2>1 DEF BeginCall, Admits, InTree
  <2>2. CASE EndCall(s)
        BY <2>2 DEF EndCall, Matches, WorkMatches
  <2> QED BY <2>1, <2>2
<1>4. s <= lastTid
      BY <1>3, NumberFacts DEF InTree, Matches, NumbersMatch
<1>5. TreeMatches'
  <2>1. \A d \in Dirs : Reached(d)' = Reached(d)
        BY <1>1 DEF Reached, Swapped, At
  <2> QED BY <1>1, <1>2, <2>1, TreeStays DEF Matches
<1>6. WorkerMatches'
      BY <1>1, <1>2, WorkerFields DEF Matches, WorkerMatches, At, Swapped, InTree
<1>7. WorkMatches'
      BY <1>1, <1>2, <1>3 DEF Matches, WorkMatches, At, InTree, Successor
<1>8. NumbersMatch'
  <2>1. \A r \in Services : r > lastTid => r # s
        BY <1>4, NumberFacts DEF DirTypeOK
  <2> QED BY <1>1, <1>2, <2>1 DEF Matches, NumbersMatch
<1>9. StatusesMatch' /\ PendingMatches'
      BY <1>1 DEF Matches, StatusesMatch, PendingMatches
<1> QED BY <1>5, <1>6, <1>7, <1>8, <1>9 DEF Matches

-----------------------------------------------------------------------------
(* The inductive invariant.                                                *)

\* What a call comes to, once the state it has looked at is taken apart.
LEMMA CallCases ==
    ASSUME NEW d \in Dirs, NEW reply,
           \/ \E c \in Clients : OpenConfigured(d, c, reply)
           \/ Open(d, reply)
           \/ Close(d, reply),
           legacy \in Clients
    PROVE  \/ UNCHANGED dirVars
           \/ worker = None /\ AnswerUnchanged(d, reply)
           \/ /\ worker = None
              /\ \E c \in Clients, kind \in {"Open", "OpenConfigured"} :
                    /\ ~Unchanged(d, c, kind = "OpenConfigured") /\ ~Full(d)
                    /\ StartOpen(d, c, kind, reply)
           \/ worker = None /\ served[d] # None /\ StartClose(d, reply)
<1>1. ASSUME NEW c \in Clients, NEW kind \in {"Open", "OpenConfigured"},
             OpenWithClient(d, c, kind, reply)
      PROVE  \/ worker = None /\ AnswerUnchanged(d, reply)
             \/ /\ worker = None
                /\ ~Unchanged(d, c, kind = "OpenConfigured") /\ ~Full(d)
                /\ StartOpen(d, c, kind, reply)
      BY <1>1 DEF OpenWithClient, Busy
<1>2. CASE \E c \in Clients : OpenConfigured(d, c, reply)
      BY <1>1, <1>2 DEF OpenConfigured, Refuse
<1>3. CASE Open(d, reply)
      BY <1>1, <1>3 DEF Open, Refuse
<1>4. CASE Close(d, reply)
      BY <1>4 DEF Close, Refuse, Busy
<1> QED BY <1>2, <1>3, <1>4

LEMMA StutterKeeps ==
    ASSUME DirTypeOK, Matches, UNCHANGED dirVars
    PROVE  DirTypeOK' /\ Matches'
<1>1. DirTypeOK'
      BY DEF dirVars, DirTypeOK
<1>2. \A d : Reached(d)' = Reached(d)
      BY DEF dirVars, Reached, Swapped, At
<1>3. TreeMatches'
      BY <1>2 DEF dirVars, Matches, TreeMatches
<1>4. WorkerMatches' /\ WorkMatches'
      BY DEF dirVars, Matches, WorkerMatches, WorkMatches, At, Swapped, InTree, Successor
<1>5. NumbersMatch' /\ StatusesMatch' /\ PendingMatches'
      BY DEF dirVars, Matches, NumbersMatch, StatusesMatch, PendingMatches
<1> QED BY <1>1, <1>3, <1>4, <1>5 DEF Matches

LEMMA CallKeeps ==
    ASSUME DirTypeOK, Matches, NEW d \in Dirs, NEW reply,
           \/ \E c \in Clients : OpenConfigured(d, c, reply)
           \/ Open(d, reply)
           \/ Close(d, reply)
    PROVE  DirTypeOK' /\ Matches'
<1>1. CASE UNCHANGED dirVars
      BY <1>1, StutterKeeps
<1>2. CASE worker = None /\ AnswerUnchanged(d, reply)
      BY <1>2, AnswerType, AnswerMatches
<1>3. ASSUME worker = None, NEW c \in Clients, NEW kind \in {"Open", "OpenConfigured"},
             StartOpen(d, c, kind, reply)
      PROVE  DirTypeOK' /\ Matches'
      BY <1>3, StartOpenType, StartOpenMatches DEF Matches
<1>4. CASE worker = None /\ served[d] # None /\ StartClose(d, reply)
      BY <1>4, StartCloseType, StartCloseMatches
<1>5. legacy \in Clients
      BY DEF DirTypeOK
<1> QED BY <1>1, <1>2, <1>3, <1>4, <1>5, CallCases

LEMMA DirStepKeeps ==
    ASSUME DirTypeOK, Matches, [DirNext]_dirVars
    PROVE  DirTypeOK' /\ Matches'
<1>1. CASE UNCHANGED dirVars
      BY <1>1, StutterKeeps
<1>2. ASSUME NEW d \in Dirs, NEW reply \in Replies,
             \/ \E c \in Clients : OpenConfigured(d, c, reply)
             \/ Open(d, reply)
             \/ Close(d, reply)
      PROVE  DirTypeOK' /\ Matches'
      BY <1>2, CallKeeps
<1>3. CASE WorkerStep
  <2>1. DirTypeOK'
        BY <1>3, WorkerType DEF Matches
  <2>2. Matches'
        BY <1>3, QuiesceMatches, ExportMatches, ExportFailsMatches, StopMatches, EndMatches
           DEF WorkerStep
  <2> QED BY <2>1, <2>2
<1>4. CASE Publish
      BY <1>4, PublishType, PublishMatches DEF Matches
<1>5. ASSUME NEW s \in Services, BeginCall(s) \/ EndCall(s)
      PROVE  DirTypeOK' /\ Matches'
      BY <1>5, CallType, CallMatches
<1> QED BY <1>1, <1>2, <1>3, <1>4, <1>5 DEF DirNext

LEMMA DirInitMatches == DirInit => Matches
<1> SUFFICES ASSUME DirInit PROVE Matches
    OBVIOUS
<1>1. DirTypeOK
      BY InitType
<1>2. PICK c \in Clients :
        /\ served = [d \in Dirs |-> IF d = Root
                       THEN [path |-> RootPath, client |-> c, by |-> LoadTime] ELSE None]
        /\ legacy = c
        /\ service = [s \in Services |-> IF s = LoadTime THEN Working(Root, c)
                                        ELSE NoService]
        /\ pending = [d \in Dirs |-> None]
        /\ worker = None /\ publish = {}
        /\ seen = [t \in Tids |-> "unknown"]
        /\ tree = [p \in Paths |-> IF p = RootPath THEN LoadTime ELSE None]
        /\ lastTid = 0 /\ lastPath = 0
      BY DEF DirInit
<1>3. ~Swapped
      BY <1>2 DEF Swapped, At
<1>4. \A d \in Dirs : Reached(d) = served[d]
      BY <1>3, IdleReached
<1>5. /\ Root \in Dirs /\ served[Root] = [path |-> RootPath, client |-> c, by |-> LoadTime]
      /\ served[Root] # None
      BY <1>2, NumberFacts, NoneAssumption, DirectoriesAssumption DEF ServedRecords
<1>6. service[LoadTime].dir = Root /\ service[LoadTime].client = c /\ service[LoadTime].working
      /\ service[LoadTime].calls = 0
      BY <1>2, NumberFacts DEF Working
<1>7. \A s \in Services : s # LoadTime => service[s] = NoService
      BY <1>2
<1>8. \A p \in Paths : IF p = RootPath THEN tree[p] = LoadTime ELSE tree[p] = None
      BY <1>2
<1>9. TreeMatches
  <2>1. \A d \in Dirs : Reached(d) # None => d = Root
        BY <1>2, <1>4
  <2>2. tree[RootPath] = LoadTime
        BY <1>8, NumberFacts
  <2>3. Reached(Root) = served[Root] /\ Reached(Root) # None
        BY <1>4, <1>5
  <2>4. \A p \in Paths : tree[p] # None => p = RootPath
        BY <1>8
  <2> QED BY <1>5, <1>6, <2>1, <2>2, <2>3, <2>4 DEF TreeMatches
<1>10. \A s \in Services : InTree(s) <=> s = LoadTime
      BY <1>8, NumberFacts DEF InTree
<1>11. WorkMatches
      BY <1>2, <1>6, <1>7, <1>10 DEF WorkMatches, At, NoService
<1>12. NumbersMatch
  <2>1. \A d \in Dirs : served[d] # None => served[d] = [path |-> RootPath, client |-> c, by |-> LoadTime]
        BY <1>2
  <2>2. \A s \in Services : s > lastTid => s # LoadTime
        BY <1>2 DEF LoadTime
  <2> QED BY <1>2, <1>7, <1>8, <2>1, <2>2 DEF NumbersMatch, RootPath, LoadTime
<1> QED BY <1>2, <1>9, <1>11, <1>12 DEF Matches, WorkerMatches, StatusesMatch, PendingMatches

\* The inductive invariant: what each phase of a transition leaves of the tree, of what
\* works, and of the numbers and statuses handed out.
THEOREM TransitionsMatch == DirSpec => [](DirTypeOK /\ Matches)
<1>1. DirInit => DirTypeOK /\ Matches
      BY InitType, DirInitMatches
<1>2. DirTypeOK /\ Matches /\ [DirNext]_dirVars => (DirTypeOK /\ Matches)'
      BY DirStepKeeps
<1> QED BY <1>1, <1>2, PTL DEF DirSpec

LEMMA MatchesOwnWork ==
    ASSUME DirTypeOK, Matches
    PROVE  WorkIsOwned
<1>1. \A s \in Services : service[s].calls > 0 => service[s].working
      BY DEF Matches, WorkMatches
<1>2. ASSUME worker = None
      PROVE  {s \in Services : service[s].working} =
               {tree[p] : p \in {q \in Paths : tree[q] # None}}
  <2>1. \A s \in Services : service[s].working <=> InTree(s)
        BY <1>2 DEF Matches, WorkMatches, At
  <2>2. \A p \in Paths : tree[p] # None => tree[p] \in Services
        BY DEF DirTypeOK
  <2> QED BY <2>1, <2>2, NumberFacts DEF InTree
<1> QED BY <1>1, <1>2 DEF WorkIsOwned

\* A service stops working when it has been replaced, after its last handler has
\* returned, and nothing that was built and dropped goes on working.
\* (tinybus_module/directories/mod.rs:22-24, service.rs:172-185)
THEOREM WorkStaysOwned == DirSpec => []DirInv
<1>1. DirTypeOK /\ Matches => DirInv
      BY MatchesOwnWork DEF DirInv
<1> QED BY <1>1, TransitionsMatch, PTL

-----------------------------------------------------------------------------
(* The refinement of DirectoryStore.                                       *)

LEMMA ServingIsReached ==
    ASSUME DirTypeOK, TreeMatches, NEW d \in Dirs
    PROVE  Serving[d] = IF Reached(d) = None THEN None ELSE Reached(d).client
<1> DEFINE Leads(p) == tree[p] # None /\ service[tree[p]].dir = d
<1>1. CASE Reached(d) = None
  <2>1. \A p \in Paths : ~Leads(p)
        BY <1>1, PathOfService, NumberFacts
  <2> QED BY <1>1, <2>1 DEF Serving
<1>2. CASE Reached(d) # None
  <2>1. /\ Reached(d).path \in Paths /\ Leads(Reached(d).path)
        /\ service[tree[Reached(d).path]].client = Reached(d).client
        BY <1>2, ReachedType, NumberFacts DEF TreeMatches
  <2>2. \A p \in Paths : Leads(p) => p = Reached(d).path
        BY <2>1, OnePathEach
  <2>3. (CHOOSE p \in Paths : Leads(p)) = Reached(d).path
        BY <2>1, <2>2
  <2>4. Serving[d] = service[tree[CHOOSE p \in Paths : Leads(p)]].client
        BY <2>1 DEF Serving
  <2> QED BY <1>2, <2>1, <2>3, <2>4
<1> QED BY <1>1, <1>2

ServesReached == \A d \in Dirs : Serving[d] = IF Reached(d) = None THEN None ELSE Reached(d).client

LEMMA BothServeReached ==
    /\ DirTypeOK /\ TreeMatches => ServesReached
    /\ (DirTypeOK /\ TreeMatches)' => ServesReached'
<1>1. DirTypeOK /\ TreeMatches => ServesReached
      BY ServingIsReached DEF ServesReached
<1> QED BY <1>1, PTL

LEMMA ServingStays ==
    ASSUME DirTypeOK, TreeMatches, DirTypeOK', TreeMatches',
           \A d \in Dirs : Reached(d)' = Reached(d)
    PROVE  Serving' = Serving
<1>1. \A d \in Dirs : Serving'[d] = Serving[d]
      BY BothServeReached DEF ServesReached
<1>2. Serving = [d \in Dirs |-> Serving[d]] /\ Serving' = [d \in Dirs |-> Serving'[d]]
      BY DEF Serving
<1> QED BY <1>1, <1>2

\* Between transitions callers reach what is recorded.
LEMMA ServedIsServing ==
    ASSUME DirTypeOK, TreeMatches, ~Swapped
    PROVE  /\ \A d \in Dirs : Serving[d] = IF served[d] = None THEN None ELSE served[d].client
           /\ \A d \in Dirs : served[d] # None => served[d].client \in Clients
           /\ {d \in Dirs : Serving[d] # None} = {d \in Dirs : served[d] # None}
<1>1. \A d \in Dirs : Serving[d] = IF served[d] = None THEN None ELSE served[d].client
      BY IdleReached, ServingIsReached
<1>2. \A d \in Dirs : served[d] # None => served[d].client \in Clients
      BY DEF DirTypeOK, ServedRecords
<1> QED BY <1>1, <1>2, NumberFacts

LEMMA ChangingWhileSwapping ==
    ASSUME DirTypeOK
    PROVE  /\ Changing # None <=> At("quiesce") \/ At("export")
           /\ Changing # None => Changing = [dir |-> worker.dir, to |-> worker.to]
<1>1. ASSUME worker # None
      PROVE  [dir |-> worker.dir, to |-> worker.to] \in ChangeRecords
      BY <1>1, WorkerFields DEF ChangeRecords
<1> QED BY <1>1, NoneAssumption DEF Changing, At

\* However many directories there are, those served can be counted.
FewServed == IsFiniteSet({d \in Dirs : served[d] # None})

LEMMA SameCount == \A S : Store!Cardinality(S) = Cardinality(S)
BY DEF Store!Cardinality, Cardinality

LEMMA InitServesRoot ==
    ASSUME DirInit
    PROVE  /\ {d \in Dirs : served[d] # None} = {Root}
           /\ FewServed /\ Cardinality({d \in Dirs : served[d] # None}) <= MaxOpen
           /\ ~Swapped /\ Changing = None
<1>1. \E c \in Clients :
        served = [d \in Dirs |-> IF d = Root
                    THEN [path |-> RootPath, client |-> c, by |-> LoadTime] ELSE None]
      BY DEF DirInit
<1>2. \A c \in Clients : [path |-> RootPath, client |-> c, by |-> LoadTime] # None
      BY NumberFacts, NoneAssumption DEF ServedRecords
<1>3. {d \in Dirs : served[d] # None} = {Root}
      BY <1>1, <1>2, DirectoriesAssumption
<1>4. IsFiniteSet({Root}) /\ Cardinality({Root}) = 1
      BY FS_Singleton
<1>5. worker = None
      BY DEF DirInit
<1> QED BY <1>3, <1>4, <1>5, DirectoriesAssumption DEF FewServed, Swapped, Changing, At

LEMMA OnlyCompleteServes ==
    ASSUME [DirNext]_dirVars, ~Complete, DirTypeOK
    PROVE  served' = served
<1>1. legacy \in Clients
      BY DEF DirTypeOK
<1>2. ASSUME NEW d \in Dirs, NEW reply \in Replies,
             \/ \E c \in Clients : OpenConfigured(d, c, reply)
             \/ Open(d, reply)
             \/ Close(d, reply)
      PROVE  served' = served
      BY <1>1, <1>2, CallCases DEF AnswerUnchanged, StartOpen, StartClose, dirVars
<1> QED BY <1>2 DEF DirNext, dirVars, WorkerStep, Quiesce, Export, ExportFails, Stop, Fail,
                    Publish, BeginCall, EndCall

LEMMA FewStay ==
    ASSUME DirTypeOK, FewServed, [DirNext]_dirVars
    PROVE  FewServed'
<1> DEFINE Some == {d \in Dirs : served[d] # None}
<1>1. CASE ~Complete
      BY <1>1, OnlyCompleteServes DEF FewServed
<1>2. CASE Complete
  <2>1. \A d \in Dirs : d # worker.dir => served'[d] = served[d]
        BY <1>2 DEF Complete, DirTypeOK
  <2>2. {d \in Dirs : served'[d] # None} \in SUBSET (Some \cup {worker.dir})
        BY <2>1
  <2> QED BY <2>2, OneMore DEF FewServed
<1> QED BY <1>1, <1>2

-----------------------------------------------------------------------------
(* Each step is one of DirectoryStore's or leaves what it sees.            *)

LEMMA StartBegins ==
    ASSUME DirTypeOK, Matches, DirTypeOK', Matches', FewServed, worker = None,
           served' = served,
           NEW d \in Dirs, NEW c \in Clients \cup {None},
           worker' # None, worker'.at \in {"quiesce", "export"}, worker'.dir = d, worker'.to = c,
           served[d] = None => c # None /\ ~Full(d),
           served[d] # None => served[d].client # c
    PROVE  Store!Begin(d, c)
<1>1. ~Swapped /\ ~Swapped' /\ Changing = None
      BY DEF Swapped, At, Changing
<1>2. Changing' = [dir |-> d, to |-> c]
      BY DEF Changing, At
<1>3. Serving' = Serving
      BY <1>1, ServingStays DEF Matches, Reached
<1>4. /\ Serving[d] = IF served[d] = None THEN None ELSE served[d].client
      /\ served[d] # None => served[d].client # None
      /\ {e \in Dirs : Serving[e] # None} = {e \in Dirs : served[e] # None}
      BY <1>1, ServedIsServing, NumberFacts DEF Matches
<1>5. Serving[d] # c
      BY <1>4
<1>6. Serving[d] = None => Cardinality({e \in Dirs : Serving[e] # None}) < MaxOpen
  <2>1. ActiveCount \in Nat /\ MaxOpen \in Nat
        BY FS_CardinalityType, DirectoriesAssumption DEF FewServed, ActiveCount
  <2>2. served[d] = None => ActiveCount < MaxOpen
        BY <2>1 DEF Full
  <2> QED BY <1>4, <2>2 DEF ActiveCount
<1> QED BY <1>1, <1>2, <1>3, <1>5, <1>6, SameCount DEF Store!Begin

LEMMA CallIsStores ==
    ASSUME DirTypeOK, Matches, DirTypeOK', Matches', FewServed, NEW d \in Dirs, NEW reply,
           \/ \E c \in Clients : OpenConfigured(d, c, reply)
           \/ Open(d, reply)
           \/ Close(d, reply)
    PROVE  Store!StoreNext \/ UNCHANGED <<Serving, Changing>>
<1>1. CASE UNCHANGED dirVars
      BY <1>1 DEF dirVars, Serving, Changing, At
<1>2. CASE worker = None /\ AnswerUnchanged(d, reply)
      BY <1>2 DEF AnswerUnchanged, Serving, Changing, At
<1>3. ASSUME worker = None, NEW c \in Clients, NEW kind \in {"Open", "OpenConfigured"},
             ~Unchanged(d, c, kind = "OpenConfigured"), ~Full(d), StartOpen(d, c, kind, reply)
      PROVE  Store!StoreNext
  <2>1. /\ served' = served /\ worker' # None /\ worker'.dir = d /\ worker'.to = c
        /\ worker'.at \in {"quiesce", "export"}
    <3>1. worker' \in WorkerRecords
          BY <1>3, StartOpenType DEF Matches
    <3> QED BY <1>3, <3>1, NoneAssumption DEF StartOpen
  <2>2. c # None
        BY NumberFacts
  <2>3. kind = "Open" => served[d] = None
        BY <1>3 DEF Unchanged
  <2>4. served[d] # None => served[d].client # c
        BY <1>3, <2>3 DEF Unchanged
  <2>5. Store!Begin(d, c)
        BY <1>3, <2>1, <2>2, <2>4, StartBegins
  <2> QED BY <2>5 DEF Store!StoreNext
<1>4. CASE worker = None /\ served[d] # None /\ StartClose(d, reply)
  <2>1. /\ served' = served /\ worker' # None /\ worker'.dir = d /\ worker'.to = None
        /\ worker'.at \in {"quiesce", "export"}
    <3>1. worker' \in WorkerRecords
          BY <1>4, StartCloseType
    <3> QED BY <1>4, <3>1, NoneAssumption DEF StartClose
  <2>2. served[d].client # None
        BY <1>4, NumberFacts DEF DirTypeOK, ServedRecords
  <2>3. Store!Begin(d, None)
        BY <1>4, <2>1, <2>2, StartBegins
  <2> QED BY <2>3 DEF Store!StoreNext
<1>5. legacy \in Clients
      BY DEF DirTypeOK
<1> QED BY <1>1, <1>2, <1>3, <1>4, <1>5, CallCases

LEMMA ExportCommits ==
    ASSUME DirTypeOK, Matches, DirTypeOK', Matches', Export
    PROVE  Store!Commit
<1>1. /\ worker # None /\ worker.at = "export" /\ worker'.dir = worker.dir
      /\ worker'.at \in {"complete", "stop"} /\ worker.dir \in Dirs
      /\ worker.to \in Clients \cup {None}
      BY ExportFacts, WorkerFields
<1>2. Changing = [dir |-> worker.dir, to |-> worker.to] /\ Changing # None
      BY <1>1, ChangingWhileSwapping DEF At, Changing
<1>3. Changing' = None
      BY <1>1 DEF Changing, At
<1> DEFINE F(r) == IF r = None THEN None ELSE r.client
<1>4. ASSUME NEW d \in Dirs
      PROVE  Serving'[d] = IF d = worker.dir THEN worker.to ELSE Serving[d]
  <2>1. Serving'[d] = F(Reached(d)') /\ Serving[d] = F(Reached(d))
        BY BothServeReached DEF Matches, ServesReached
  <2>2. CASE d # worker.dir
    <3>1. Reached(d)' = Reached(d)
          BY <2>2, ExportFacts
    <3> QED BY <2>1, <2>2, <3>1
  <2>3. CASE d = worker.dir
    <3>1. Reached(d)' = IF worker.to = None THEN None
             ELSE [path |-> worker.path, client |-> worker.to, by |-> worker.tid]
          BY <2>3, ExportFacts DEF Reached
    <3>2. Reached(d)' # None <=> worker.to # None
          BY <3>1, <1>1, WorkerFields, NoneAssumption DEF ServedRecords
    <3> QED BY <2>1, <2>3, <3>1, <3>2
  <2> QED BY <2>2, <2>3
<1>5. Serving \in [Dirs -> {Serving[d] : d \in Dirs}] /\ Serving' = [d \in Dirs |-> Serving'[d]]
      BY DEF Serving
<1>6. Serving' = [Serving EXCEPT ![Changing.dir] = Changing.to]
      BY <1>2, <1>4, <1>5
<1> QED BY <1>2, <1>3, <1>6 DEF Store!Commit

LEMMA FailedExportAborts ==
    ASSUME DirTypeOK, Matches, DirTypeOK', Matches', ExportFails
    PROVE  Store!Abort
<1>1. worker # None /\ worker.at = "export" /\ Goto("fail") /\ served' = served
      BY DEF ExportFails, At
<1>2. worker'.at = "fail" /\ worker' # None
      BY <1>1, GotoKeeps
<1>3. Changing # None /\ Changing' = None /\ ~Swapped /\ ~Swapped'
      BY <1>1, <1>2, ChangingWhileSwapping DEF At, Changing, Swapped
<1>4. Serving' = Serving
      BY <1>1, <1>3, ServingStays DEF Matches, Reached
<1> QED BY <1>3, <1>4 DEF Store!Abort

LEMMA WorkerIsStores ==
    ASSUME DirTypeOK, Matches, DirTypeOK', Matches', WorkerStep
    PROVE  Store!StoreNext \/ UNCHANGED <<Serving, Changing>>
<1>1. CASE Quiesce
  <2>1. worker # None /\ worker.at = "quiesce" /\ Goto("export") /\ served' = served
        BY <1>1 DEF Quiesce, At
  <2>2. worker' # None /\ worker'.at = "export" /\ worker'.dir = worker.dir /\ worker'.to = worker.to
        BY <2>1, GotoKeeps
  <2>3. Serving' = Serving
        BY <2>1, <2>2, ServingStays DEF Matches, Reached, Swapped, At
  <2>4. Changing' = Changing
        BY <2>1, <2>2 DEF Changing, At
  <2> QED BY <2>3, <2>4
<1>2. CASE Export
      BY <1>2, ExportCommits DEF Store!StoreNext
<1>3. CASE ExportFails
      BY <1>3, FailedExportAborts DEF Store!StoreNext
<1>4. CASE Stop
  <2>1. worker # None /\ worker.at = "stop" /\ Goto("complete") /\ served' = served
        BY <1>4 DEF Stop, At
  <2>2. /\ worker' # None /\ worker'.at = "complete" /\ worker'.dir = worker.dir
        /\ worker'.to = worker.to /\ worker'.path = worker.path /\ worker'.tid = worker.tid
        BY <2>1, GotoKeeps
  <2>3. Serving' = Serving
        BY <2>1, <2>2, ServingStays DEF Matches, Reached, Swapped, At
  <2> QED BY <2>1, <2>2, <2>3 DEF Changing, At
<1>5. CASE Complete \/ Fail
      BY <1>5 DEF Complete, Fail, LetGo, Serving, Changing, At
<1> QED BY <1>1, <1>2, <1>3, <1>4, <1>5 DEF WorkerStep

LEMMA HandlersAreUnseen ==
    ASSUME DirTypeOK, Matches, DirTypeOK', Matches', NEW s \in Services,
           BeginCall(s) \/ EndCall(s)
    PROVE  UNCHANGED <<Serving, Changing>>
<1>1. UNCHANGED <<served, worker>>
      BY DEF BeginCall, EndCall
<1>2. Serving' = Serving
      BY <1>1, ServingStays DEF Matches, Reached, Swapped, At
<1> QED BY <1>1, <1>2 DEF Changing, At

LEMMA StepIsStores ==
    ASSUME DirTypeOK, Matches, DirTypeOK', Matches', FewServed, [DirNext]_dirVars
    PROVE  [Store!StoreNext]_(Store!storeVars)
<1>1. CASE UNCHANGED dirVars
      BY <1>1 DEF dirVars, Serving, Changing, At, Store!storeVars
<1>2. ASSUME NEW d \in Dirs, NEW reply \in Replies,
             \/ \E c \in Clients : OpenConfigured(d, c, reply)
             \/ Open(d, reply)
             \/ Close(d, reply)
      PROVE  Store!StoreNext \/ UNCHANGED <<Serving, Changing>>
      BY <1>2, CallIsStores
<1>3. CASE Publish
      BY <1>3 DEF Publish, Serving, Changing, At, Store!storeVars
<1> QED BY <1>1, <1>2, <1>3, WorkerIsStores, HandlersAreUnseen DEF DirNext, Store!storeVars

LEMMA InitIsStores == DirInit => Store!StoreInit
<1> SUFFICES ASSUME DirInit PROVE Store!StoreInit
    OBVIOUS
<1>1. DirTypeOK /\ Matches
      BY InitType, DirInitMatches
<1>2. /\ \A d \in Dirs : Serving[d] \in Clients \cup {None}
      /\ {d \in Dirs : Serving[d] # None} = {d \in Dirs : served[d] # None}
      BY <1>1, InitServesRoot, ServedIsServing DEF Matches
<1>3. Serving = [d \in Dirs |-> Serving[d]]
      BY DEF Serving
<1>4. Serving \in [Dirs -> Clients \cup {None}]
      BY <1>2, <1>3
<1> QED BY <1>2, <1>4, InitServesRoot, SameCount DEF Store!StoreInit

\* What callers reach changes in one step to what was asked for, one directory at a
\* time, and within the limit, whatever calls come in and whatever fails.
\* (tinybus_module/directories/mod.rs:22-52)
THEOREM DirectoriesRefineStore == DirSpec => ServesAsPromised
<1>1. DirInit => Store!StoreInit /\ FewServed
      BY InitIsStores, InitServesRoot
<1>2. DirTypeOK /\ FewServed /\ [DirNext]_dirVars => FewServed'
      BY FewStay
<1>3. /\ DirTypeOK /\ Matches /\ (DirTypeOK /\ Matches)' /\ FewServed /\ [DirNext]_dirVars
      => [Store!StoreNext]_(Store!storeVars)
      BY StepIsStores
<1> QED BY <1>1, <1>2, <1>3, TransitionsMatch, PTL
        DEF DirSpec, ServesAsPromised, Store!StoreSpec

=============================================================================
