---------------------------- MODULE Directories ----------------------------
(***************************************************************************)
(* The data directories one loaded module serves: DirectoryOpener in       *)
(* tinybus_module/directories/types.rs and the dispatch gate of the        *)
(* services it replaces (tinybus_module/service.rs).                       *)
(*                                                                         *)
(* OpenConfigured, Open and Close only start a transition; its worker      *)
(* drains the old service, changes the object tree and stops the old       *)
(* service's work, holding the transition gate all the while.  A call that *)
(* starts one has no await in it, and what another call can slip between   *)
(* its two looks at the state turns it into a refusal, which Busy admits.  *)
(*                                                                         *)
(* A service is named by the transition that built it, LoadTime is the one *)
(* the module is loaded with.  TinyBus holds its object tree for reading   *)
(* while a handler runs, so an export waits for every handler.             *)
(***************************************************************************)
EXTENDS Naturals, FiniteSets

CONSTANTS
    Dirs,       \* data directories
    Root,       \* the one the module is loaded with
    Clients,    \* client configurations
    Default,    \* the empty one
    None,
    MaxOpen,    \* MAX_OPEN_DIRECTORIES
    MaxSeen,    \* MAX_TRANSITION_OBSERVATIONS
    MaxTid,     \* bounds the transitions of a behaviour
    MaxCalls    \* bounds the handlers that run at once on a service

ASSUME DirectoriesAssumption ==
    /\ Root \in Dirs
    /\ Default \in Clients
    /\ None \notin Dirs \cup Clients \cup Nat
    /\ MaxOpen \in Nat \ {0}
    /\ MaxSeen \in Nat \ {0, 1}
    /\ MaxTid \in Nat
    /\ MaxCalls \in Nat

VARIABLES
    served,    \* the active directories
    pending,   \* pending_by_directory
    worker,    \* the task that holds the transition gate
    publish,   \* workers that let go of the gate and have a status to publish
    seen,      \* the status of each transition
    tree,      \* TinyBus's object tree: the service at each path
    service,   \* what each service is up to
    legacy,    \* the configuration that Open uses
    lastTid, lastPath

dirVars == <<served, pending, worker, publish, seen, tree, service, legacy,
             lastTid, lastPath>>

Tids     == 1..MaxTid
LoadTime == 0
RootPath == 0
Services == 0..MaxTid
Paths    == 0..MaxTid

ServedRecords == [path : Paths, client : Clients, by : Services]

PendingRecords ==
    [tid : Tids, path : Paths, client : Clients \cup {None},
     kind : {"Open", "OpenConfigured", "Close"}]

WorkerRecords ==
    [dir : Dirs, tid : Tids, path : Paths, to : Clients \cup {None},
     old : Services \cup {None}, at : {"quiesce", "export", "stop", "complete", "fail"}]

ServiceRecords ==
    [dir : Dirs \cup {None}, client : Clients \cup {None}, accepting : BOOLEAN,
     working : BOOLEAN, calls : 0..MaxCalls]

ChangeRecords == [dir : Dirs, to : Clients \cup {None}]

ASSUME NoneAssumption ==
    None \notin ServedRecords \cup PendingRecords \cup WorkerRecords \cup ChangeRecords

NoService == [dir |-> None, client |-> None, accepting |-> FALSE,
              working |-> FALSE, calls |-> 0]

DirTypeOK ==
    /\ served \in [Dirs -> {None} \cup ServedRecords]
    /\ pending \in [Dirs -> {None} \cup PendingRecords]
    /\ worker \in {None} \cup WorkerRecords
    /\ publish \subseteq (Tids \X {"complete", "failed"})
    /\ seen \in [Tids -> {"unknown", "pending", "complete", "failed"}]
    /\ tree \in [Paths -> Services \cup {None}]
    /\ service \in [Services -> ServiceRecords]
    /\ Cardinality({t \in Tids : seen[t] # "unknown"}) <= MaxSeen
    /\ legacy \in Clients
    /\ lastTid \in 0..MaxTid /\ lastPath \in 0..MaxTid

\* A service just built accepts calls, and its boot pass and supervisor run.
Working(d, c) == [dir |-> d, client |-> c, accepting |-> TRUE,
                  working |-> TRUE, calls |-> 0]

DirInit ==
    \E c \in Clients :
        /\ served = [d \in Dirs |-> IF d = Root
                       THEN [path |-> RootPath, client |-> c, by |-> LoadTime] ELSE None]
        /\ legacy = c
        /\ service = [s \in Services |-> IF s = LoadTime THEN Working(Root, c)
                                        ELSE NoService]
        /\ pending = [d \in Dirs |-> None]
        /\ worker = None /\ publish = {}
        /\ seen = [t \in Tids |-> "unknown"]
        /\ tree = [p \in Paths |-> IF p = RootPath THEN LoadTime ELSE None]
        /\ lastTid = 0 /\ lastPath = 0

-----------------------------------------------------------------------------
(* Observations of transitions.                                            *)

Observed(st) == {t \in Tids : st[t] # "unknown"}

\* When the observations are at their limit the oldest that have ended are
\* forgotten, until half are left.
Prune(st) ==
    LET ended  == {t \in Tids : st[t] \in {"complete", "failed"}}
        excess == Cardinality(Observed(st)) + 1 - (MaxSeen \div 2)
    IN  IF Cardinality(Observed(st)) < MaxSeen THEN st
        ELSE [t \in Tids |->
                IF t \in ended /\ Cardinality({u \in ended : u < t}) < excess
                THEN "unknown" ELSE st[t]]

\* A limit that is noticed when it has been passed.
NewTransitionOver(st) ==
    /\ lastTid < MaxTid
    /\ Cardinality(Observed(seen)) <= MaxSeen
    /\ lastTid' = lastTid + 1
    /\ seen' = [seen EXCEPT ![lastTid + 1] = st]

\* new_transition_id.
NewTransition(st) ==
    /\ lastTid < MaxTid
    /\ Cardinality(Observed(Prune(seen))) < MaxSeen
    /\ lastTid' = lastTid + 1
    /\ seen' = [Prune(seen) EXCEPT ![lastTid + 1] = st]

\* TransitionStatus.
TransitionStatus(t) == seen[t]

-----------------------------------------------------------------------------
(* The calls.  Each says what it replies.                                  *)

Refused == [ok |-> FALSE, path |-> None, tid |-> None]
Accepted(p, t) == [ok |-> TRUE, path |-> p, tid |-> t]
AlreadyClosed == Accepted(None, None)

Refuse(reply) == reply = Refused /\ UNCHANGED dirVars

\* A gate that one holder has not quite left.
BusyWhileWorking == worker # None /\ worker.at \notin {"complete", "fail"}

\* try_transition_guard fails.
Busy == worker # None

ActiveCount == Cardinality({d \in Dirs : served[d] # None})

\* A count that only knows of the other directories.
FullOfOthers(d) == served[d] = None /\ ActiveCount > MaxOpen

\* existing_directory refuses a directory too many.
Full(d) == served[d] = None /\ ActiveCount >= MaxOpen

\* The directory is served with these settings already, or Open does not care.
Unchanged(d, c, reconfigure) ==
    served[d] # None /\ (reconfigure => served[d].client = c)

AnswerUnchanged(d, reply) ==
    /\ NewTransition("complete")
    /\ reply = Accepted(served[d].path, lastTid + 1)
    /\ UNCHANGED <<served, pending, worker, publish, tree, service, legacy, lastPath>>

\* schedule_serve: a new directory is exported at once, a service that replaces
\* another waits for that one's calls first.
StartOpen(d, c, kind, reply) ==
    LET fresh == served[d] = None
        path  == IF fresh THEN lastPath + 1 ELSE served[d].path
        tid   == lastTid + 1
    IN  /\ NewTransition("pending")
        /\ lastPath' = IF fresh THEN lastPath + 1 ELSE lastPath
        /\ pending' = [pending EXCEPT ![d] =
              [tid |-> tid, path |-> path, kind |-> kind,
               client |-> IF kind = "OpenConfigured" THEN c ELSE None]]
        /\ service' = [service EXCEPT ![tid] = Working(d, c)]
        /\ worker' = [dir |-> d, tid |-> tid, path |-> path, to |-> c,
                      old |-> IF fresh THEN None ELSE served[d].by,
                      at |-> IF fresh THEN "export" ELSE "quiesce"]
        /\ reply = Accepted(path, tid)
        /\ UNCHANGED <<served, publish, tree, legacy>>

\* open_with_client, from the gate on.
OpenWithClient(d, c, kind, reply) ==
    LET reconfigure == kind = "OpenConfigured"
    IN  /\ ~Busy
        /\ \/ Unchanged(d, c, reconfigure) /\ AnswerUnchanged(d, reply)
           \/ /\ ~Unchanged(d, c, reconfigure)
              /\ ~Full(d)
              /\ StartOpen(d, c, kind, reply)

\* A pending transition to the same settings is answered with its receipt.
OpenConfigured(d, c, reply) ==
    \/ /\ pending[d] # None
       /\ pending[d].kind = "OpenConfigured" /\ pending[d].client = c
       /\ reply = Accepted(pending[d].path, pending[d].tid)
       /\ UNCHANGED dirVars
    \/ pending[d] = None /\ OpenWithClient(d, c, "OpenConfigured", reply)
    \/ Refuse(reply)

\* Open(data_dir), with the settings of the load.
Open(d, reply) ==
    \/ /\ pending[d] # None
       /\ pending[d].kind # "Close"
       /\ reply = Accepted(pending[d].path, None)
       /\ UNCHANGED dirVars
    \/ pending[d] = None /\ OpenWithClient(d, legacy, "Open", reply)
    \/ Refuse(reply)

\* The root object stays, over a service with nothing in it.
StartClose(d, reply) ==
    LET tid == lastTid + 1
    IN  /\ NewTransition("pending")
        /\ pending' = [pending EXCEPT ![d] =
              [tid |-> tid, path |-> served[d].path, kind |-> "Close", client |-> None]]
        /\ service' = IF served[d].path = RootPath
                      THEN [service EXCEPT ![tid] = Working(None, Default)] ELSE service
        /\ worker' = [dir |-> d, tid |-> tid, path |-> served[d].path, to |-> None,
                      old |-> served[d].by, at |-> "quiesce"]
        /\ reply = Accepted(None, tid)
        /\ UNCHANGED <<served, publish, tree, legacy, lastPath>>

Close(d, reply) ==
    \/ /\ pending[d] # None
       /\ pending[d].kind = "Close"
       /\ reply = Accepted(None, pending[d].tid)
       /\ UNCHANGED dirVars
    \/ /\ pending[d] = None /\ ~Busy
       /\ \/ served[d] = None /\ reply = AlreadyClosed /\ UNCHANGED dirVars
          \/ served[d] # None /\ StartClose(d, reply)
    \/ Refuse(reply)

Replies == [ok : BOOLEAN, path : Paths \cup {None}, tid : Tids \cup {None}]

-----------------------------------------------------------------------------
(* The worker of a transition.                                             *)

At(step) == worker # None /\ worker.at = step
Goto(step) == worker' = [worker EXCEPT !.at = step]

\* The gate's writer waits for the handlers of the old service.
Drained(s) == service[s].calls = 0

Quiesce ==
    /\ At("quiesce") /\ Drained(worker.old)
    /\ service' = [service EXCEPT ![worker.old].accepting = FALSE]
    /\ Goto("export")
    /\ UNCHANGED <<served, pending, publish, seen, tree, legacy, lastTid, lastPath>>

\* A close that leaves the object of the closed directory in the tree.
SuccessorOrOld == IF worker.to = None THEN worker.old ELSE worker.tid

\* What the path leads to from now on.
Successor == IF worker.to = None /\ worker.path # RootPath THEN None ELSE worker.tid

\* serve_at or unserve, which write the object tree.
Export ==
    /\ At("export")
    /\ \A s \in Services : service[s].calls = 0
    /\ tree' = [tree EXCEPT ![worker.path] = Successor]
    /\ Goto(IF worker.old = None THEN "complete" ELSE "stop")
    /\ UNCHANGED <<served, pending, publish, seen, service, legacy, lastTid, lastPath>>

\* A service that was never exported, whose tasks nobody ends.
DropOnly(s) == [service[s] EXCEPT !.accepting = FALSE]

\* Dropping the service ends its tasks.
Drop(s) == NoService

\* A path that is served can be taken down, an export may fail.  The old service
\* goes on, and the new one is dropped with what it runs.
ExportFails ==
    /\ At("export") /\ Successor # None
    /\ service' = [s \in Services |->
          IF s = worker.tid THEN Drop(s)
          ELSE IF s = worker.old THEN [service[s] EXCEPT !.accepting = TRUE]
          ELSE service[s]]
    /\ Goto("fail")
    /\ UNCHANGED <<served, pending, publish, seen, tree, legacy, lastTid, lastPath>>

\* McpService::shutdown of the old service.
Stop ==
    /\ At("stop")
    /\ service' = [service EXCEPT ![worker.old].working = FALSE]
    /\ Goto("complete")
    /\ UNCHANGED <<served, pending, publish, seen, tree, legacy, lastTid, lastPath>>

\* The task lets go of the gate and publishes its status after that.
LetGo(st) ==
    /\ pending' = [pending EXCEPT ![worker.dir] = None]
    /\ worker' = None
    /\ publish' = publish \cup {<<worker.tid, st>>}
    /\ UNCHANGED <<seen, tree, service, lastTid, lastPath>>

Complete ==
    /\ At("complete")
    /\ served' = [served EXCEPT ![worker.dir] =
          IF worker.to = None THEN None
          ELSE [path |-> worker.path, client |-> worker.to, by |-> worker.tid]]
    /\ legacy' = IF worker.to = None /\ worker.path = RootPath THEN Default ELSE legacy
    /\ LetGo("complete")

Fail ==
    /\ At("fail")
    /\ LetGo("failed")
    /\ UNCHANGED <<served, legacy>>

Publish ==
    \E p \in publish :
        /\ publish' = publish \ {p}
        /\ seen' = [seen EXCEPT ![p[1]] = p[2]]
        /\ UNCHANGED <<served, pending, worker, tree, service, legacy, lastTid, lastPath>>

WorkerStep == Quiesce \/ Export \/ ExportFails \/ Stop \/ Complete \/ Fail

-----------------------------------------------------------------------------
(* DispatchInterface::call of a member other than the four above.          *)

\* A handler that comes while a writer waits, for the service or for the tree,
\* waits behind it.
Admits(s) ==
    /\ \E p \in Paths : tree[p] = s
    /\ service[s].accepting
    /\ ~(At("quiesce") /\ worker.old = s)
    /\ ~At("export")

BeginCall(s) ==
    /\ Admits(s) /\ service[s].calls < MaxCalls
    /\ service' = [service EXCEPT ![s].calls = @ + 1]
    /\ UNCHANGED <<served, pending, worker, publish, seen, tree, legacy, lastTid, lastPath>>

EndCall(s) ==
    /\ service[s].calls > 0
    /\ service' = [service EXCEPT ![s].calls = @ - 1]
    /\ UNCHANGED <<served, pending, worker, publish, seen, tree, legacy, lastTid, lastPath>>

DirNext ==
    \/ \E d \in Dirs, reply \in Replies :
          \/ \E c \in Clients : OpenConfigured(d, c, reply)
          \/ Open(d, reply)
          \/ Close(d, reply)
    \/ WorkerStep
    \/ Publish
    \/ \E s \in Services : BeginCall(s) \/ EndCall(s)

DirSpec == DirInit /\ [][DirNext]_dirVars

\* The worker is a task that is scheduled, and handlers return.
DirFairness ==
    /\ WF_dirVars(WorkerStep)
    /\ WF_dirVars(Publish)
    /\ \A s \in Services : WF_dirVars(EndCall(s))

-----------------------------------------------------------------------------
(* Properties. *)

\* What callers of a directory reach: the settings of the service in the tree.
Serving == [d \in Dirs |->
    IF \E p \in Paths : tree[p] # None /\ service[tree[p]].dir = d
    THEN service[tree[CHOOSE p \in Paths : tree[p] # None /\ service[tree[p]].dir = d]].client
    ELSE None]

\* The change under way, until callers see it or it has failed.
Changing == IF At("quiesce") \/ At("export")
            THEN [dir |-> worker.dir, to |-> worker.to] ELSE None

Store == INSTANCE DirectoryStore WITH serving <- Serving, changing <- Changing

\* What callers reach changes in one step to what was asked for, one directory at a
\* time, and within the limit, whatever calls come in and whatever fails.
\* (tinybus_module/directories/mod.rs:22-52)
ServesAsPromised == Store!StoreSpec

\* A service stops working when it has been replaced, after its last handler has
\* returned, and nothing that was built and dropped goes on working.
\* (tinybus_module/directories/mod.rs:22-24, service.rs:172-185)
WorkIsOwned ==
    /\ \A s \in Services : service[s].calls > 0 => service[s].working
    /\ worker = None => {s \in Services : service[s].working} =
                         {tree[p] : p \in {q \in Paths : tree[q] # None}}

\* Every transition that was accepted ends, so that the module can change again.
TransitionEnds == \A t \in Tids : seen[t] = "pending" ~> seen[t] # "pending"

\* The shapes, and whatever is at work for a directory is owned by it.
DirInv == DirTypeOK /\ WorkIsOwned

=============================================================================
