--------------------------- MODULE ServerSessions ---------------------------
(***************************************************************************)
(* The sessions a host serves MCP through (server/bridge/operations.rs and *)
(* handler.rs): admission, and the operation each session runs.            *)
(*                                                                         *)
(* All calls of the host take the registry's lock.  Most are one section;  *)
(* poll, cancel, close and shutdown may await with the lock held, and      *)
(* metadata awaits after it has let it go.  An operation's worker is a     *)
(* spawned task.  It holds the lock of the session's ClientSession while   *)
(* it runs, and awaits the host's answer to each callback it makes.        *)
(*                                                                         *)
(* The host may repeat, reorder and drop calls.  A repeat that the code    *)
(* answers without a change of state is not an action here.                *)
(***************************************************************************)
EXTENDS Admission

CONSTANTS
    Busy,      \* the sessions whose operations are followed
    MaxOp,     \* bound: operation identifiers are 1..MaxOp
    MaxCalls,  \* bound: callbacks one operation makes
    None       \* no operation, no response, no call, no HTTP context

ASSUME SessionsAssumption ==
    /\ Busy \subseteq Ids
    /\ MaxOp \in Nat
    /\ MaxCalls \in Nat

VARIABLES
    high,       \* Session::operation_sequence
    http,       \* Session::http: None on stdio, else the HTTP session id that
                \* was issued last, 0 before the first
    operation,  \* Session::operation
    worker,     \* the operation's task
    client,     \* who holds the lock of Session::client
    inited,     \* ClientSession::initialized
    reader,     \* a metadata call on the session
    inside,     \* the call that awaits with the registry's lock held
    ran         \* history: operations that were started

sessionVars == <<high, http, operation, worker, client, inited, reader,
                 inside, ran>>
vars == <<admissionVars, sessionVars>>

Terminals == {"complete", "silent", "failed", "cancelled"}
Live      == {"queued", "running", "asking"}

\* HTTP session ids are issued in order; an operation issues one at most.
HttpIds   == 1..MaxOp
Responses == [status : {200, 204, 400, 500, 503}, id : {0} \cup HttpIds]

Operations ==
    [id : 1..MaxOp, init : BOOLEAN, chan : 0..MaxCalls, waiting : 0..MaxCalls,
     terminal : {"none"} \cup Terminals, response : {None} \cup Responses]

\* The calls that await with the registry's lock held, and for whom.
Insides == {"poll", "cancel", "close"} \X SUBSET Busy

ASSUME NoneAssumption == None \notin Nat \cup Operations \cup Responses \cup Insides

(* The shapes of the state. *)
SessionsTypeOK ==
    /\ AdmissionTypeOK
    /\ high \in [Busy -> 0..MaxOp]
    /\ http \in [Busy -> {None, 0} \cup HttpIds]
    /\ operation \in [Busy -> {None} \cup Operations]
    /\ worker \in [Busy -> [state : {"none", "finished"} \cup Live,
                            calls : 0..MaxCalls,
                            aborted : BOOLEAN,
                            outcome : {"none"} \cup Terminals]]
    /\ client \in [Busy -> {"free", "worker", "reader"}]
    /\ inited \in [Busy -> BOOLEAN]
    /\ reader \in [Busy -> {"none", "waiting", "reading"}]
    /\ inside \in {None} \cup Insides
    /\ ran \subseteq Busy \X (1..MaxOp)

NoWorker == [state |-> "none", calls |-> 0, aborted |-> FALSE, outcome |-> "none"]

Init ==
    /\ AdmissionInit
    /\ high = [s \in Busy |-> 0]
    /\ http = [s \in Busy |-> None]
    /\ operation = [s \in Busy |-> None]
    /\ worker = [s \in Busy |-> NoWorker]
    /\ client = [s \in Busy |-> "free"]
    /\ inited = [s \in Busy |-> FALSE]
    /\ reader = [s \in Busy |-> "none"]
    /\ inside = None
    /\ ran = {}

\* A metadata call that awaits the client with the registry's lock held.
LockFreeUnlessReading == inside = None /\ \A s \in Busy : reader[s] # "waiting"

\* The registry's lock can be had.
LockFree == inside = None

Going(s) == operation[s] # None /\ operation[s].terminal = "none"

\* The task has ended and poll or cancel takes its result.
Finished(s) == Going(s) /\ worker[s].state = "finished"

-----------------------------------------------------------------------------
(* open, open_http and submit. *)

\* The session starts on stdio, or over HTTP with no session id issued yet.
OpenSession(s) ==
    /\ LockFree
    /\ Open(s)
    /\ IF s \in Busy THEN \E context \in {None, 0} : http' = [http EXCEPT ![s] = context]
                     ELSE UNCHANGED http
    /\ UNCHANGED <<high, operation, worker, client, inited, reader, inside, ran>>

NewOperation(o, init) ==
    [id |-> o, init |-> init, chan |-> 0, waiting |-> 0,
     terminal |-> "none", response |-> None]

\* An acceptance that only looks at the operation that is still known.
AcceptableUnlessKnown(s, o) ==
    /\ LockFree
    /\ s \in active
    /\ ~Going(s)
    /\ ~(operation[s] # None /\ operation[s].id = o)

\* An operation identifier above the high-water mark, once the operation
\* before it has ended.
Acceptable(s, o) ==
    /\ LockFree
    /\ s \in active
    /\ ~Going(s)
    /\ o > high[s]

\* http_admission_error: whether the headers are refused.
Refused(s, init, header) ==
    ~init /\ http[s] # None /\ (http[s] = 0 \/ header # http[s])

Submit(s, o, init, header) ==
    /\ Acceptable(s, o)
    /\ ~Refused(s, init, header)
    /\ high' = [high EXCEPT ![s] = o]
    /\ operation' = [operation EXCEPT ![s] = NewOperation(o, init)]
    /\ worker' = [worker EXCEPT ![s] = [NoWorker EXCEPT !.state = "queued"]]
    /\ ran' = ran \cup {<<s, o>>}
    /\ UNCHANGED <<admissionVars, http, client, inited, reader, inside>>

\* The operation is over before it starts, and the host never hears of it.
SubmitRefused(s, o, header) ==
    /\ Acceptable(s, o)
    /\ Refused(s, FALSE, header)
    /\ high' = [high EXCEPT ![s] = o]
    /\ operation' = [operation EXCEPT ![s] =
                       [NewOperation(o, FALSE) EXCEPT
                          !.terminal = "silent",
                          !.response = [status |-> 400, id |-> 0]]]
    /\ worker' = [worker EXCEPT ![s] = NoWorker]
    /\ UNCHANGED <<admissionVars, http, client, inited, reader, inside, ran>>

-----------------------------------------------------------------------------
(* The worker. *)

WorkerStart(s) ==
    /\ worker[s].state = "queued"
    /\ client[s] = "free"
    /\ client' = [client EXCEPT ![s] = "worker"]
    /\ worker' = [worker EXCEPT ![s].state = "running"]
    /\ UNCHANGED <<admissionVars, high, http, operation, inited, reader, inside, ran>>

\* CallbackHandler::request: one callback into the channel, then its answer is
\* awaited.  A call that is being stopped has closed the channel.
WorkerAsk(s) ==
    /\ worker[s].state = "running"
    /\ worker[s].calls < MaxCalls
    /\ ~worker[s].aborted /\ operation[s] # None
    /\ worker' = [worker EXCEPT ![s].state = "asking", ![s].calls = @ + 1]
    /\ operation' = [operation EXCEPT ![s].chan = worker[s].calls + 1]
    /\ UNCHANGED <<admissionVars, high, http, client, inited, reader, inside, ran>>

WorkerEnd(s, outcome) ==
    /\ worker' = [worker EXCEPT ![s].state = "finished", ![s].outcome = outcome]
    /\ client' = [client EXCEPT ![s] = IF worker[s].state = "queued" THEN @ ELSE "free"]
    /\ UNCHANGED <<admissionVars, high, http, operation, reader, inside, ran>>

\* The protocol has answered, or had nothing to answer, or ran out of bytes.
\* An answered initialize may have been an error.
WorkerFinish(s) ==
    /\ worker[s].state = "running"
    /\ \/ /\ \E outcome \in {"complete", "silent", "failed"} : WorkerEnd(s, outcome)
          /\ UNCHANGED inited
       \/ /\ operation[s] # None
          /\ operation[s].init
          /\ WorkerEnd(s, "complete")
          /\ inited' = [inited EXCEPT ![s] = TRUE]

\* An aborted task ends where it awaits.
WorkerAborted(s) ==
    /\ worker[s].aborted
    /\ worker[s].state \in Live
    /\ WorkerEnd(s, "failed")
    /\ UNCHANGED inited

WorkerStep(s) == WorkerStart(s) \/ WorkerAsk(s) \/ WorkerFinish(s) \/ WorkerAborted(s)

-----------------------------------------------------------------------------
(* poll and complete. *)

\* A poll that makes the response afresh each time.
NeedsResponseAgain(s) == http[s] # None

\* poll over HTTP, the first time it sees the operation ended: it goes on to
\* await the client's metadata.
NeedsResponse(s) == http[s] # None /\ operation[s].response = None

\* Operation::finish in a poll, and an ended operation polled again.
PollEnded(s) ==
    /\ LockFree
    /\ operation[s] # None
    /\ Finished(s) \/ ~Going(s)
    /\ operation' = [operation EXCEPT ![s].terminal =
                       IF Going(s) THEN worker[s].outcome ELSE @]
    /\ inside' = IF NeedsResponse(s) THEN <<"poll", {s}>> ELSE None
    /\ UNCHANGED <<admissionVars, high, http, worker, client, inited, reader, ran>>

\* A status that only knows the ends a worker reports.
StatusOfWork(terminal) ==
    CASE terminal = "complete" -> 200
      [] terminal = "silent"   -> 204
      [] OTHER                 -> 0

\* The status of an operation's end.  (400 stands for the refusals, 400 and
\* 404.)
Status(terminal) ==
    CASE terminal = "complete"  -> 200
      [] terminal = "silent"    -> 204
      [] terminal = "failed"    -> 500
      [] terminal = "cancelled" -> 503

\* http_response_metadata: an initialize that was answered issues a session id.
PollRespond(s) ==
    /\ inside = <<"poll", {s}>>
    /\ client[s] = "free"
    /\ LET status == Status(operation[s].terminal)
           issues == operation[s].init /\ inited[s] /\ status = 200
       IN  /\ operation' = [operation EXCEPT ![s].response =
                              [status |-> status, id |-> IF issues THEN http[s] + 1 ELSE 0]]
           /\ http' = [http EXCEPT ![s] = IF issues THEN @ + 1 ELSE @]
    /\ inside' = None
    /\ UNCHANGED <<admissionVars, high, worker, client, inited, reader, ran>>

\* A callback that is in the channel becomes the outstanding one, and every
\* poll shows it until it is completed.
PollCallback(s) ==
    /\ LockFree
    /\ Going(s) /\ worker[s].state # "finished"
    /\ operation[s].waiting = 0
    /\ operation[s].chan # 0
    /\ operation' = [operation EXCEPT ![s].waiting = operation[s].chan, ![s].chan = 0]
    /\ UNCHANGED <<admissionVars, high, http, worker, client, inited, reader, inside, ran>>

Poll(s) == PollEnded(s) \/ PollCallback(s)

\* complete.  Only the callback that is outstanding, and so has been polled, is
\* answered; an answer to another one changes nothing.
Complete(s) ==
    /\ LockFree
    /\ Going(s)
    /\ operation[s].waiting # 0
    /\ operation' = [operation EXCEPT ![s].waiting = 0]
    /\ worker' = [worker EXCEPT ![s].state = IF @ = "asking" THEN "running" ELSE @]
    /\ UNCHANGED <<admissionVars, high, http, client, inited, reader, inside, ran>>

-----------------------------------------------------------------------------
(* cancel, close, shutdown: Operation::stop aborts the task and joins it    *)
(* with the registry's lock held.                                           *)

\* A stop that leaves the task to end by itself.
AbortNothing(S) == UNCHANGED worker

\* The tasks of these sessions are told to stop, and their channels go.
Abort(S) ==
    worker' = [s \in Busy |-> IF s \in S /\ worker[s].state \in Live
                              THEN [worker[s] EXCEPT !.aborted = TRUE]
                              ELSE worker[s]]

Joined(S) == \A s \in S : worker[s].state \notin Live

\* An operation that has ended by itself keeps its result.
CancelEnded(s) ==
    /\ LockFree
    /\ Finished(s)
    /\ operation' = [operation EXCEPT ![s].terminal = worker[s].outcome]
    /\ UNCHANGED <<admissionVars, high, http, worker, client, inited, reader, inside, ran>>

Cancel(s) ==
    /\ LockFree
    /\ Going(s) /\ ~Finished(s)
    /\ operation' = [operation EXCEPT ![s].waiting = 0, ![s].chan = 0]
    /\ Abort({s})
    /\ inside' = <<"cancel", {s}>>
    /\ UNCHANGED <<admissionVars, high, http, client, inited, reader, ran>>

CancelJoined(s) ==
    /\ inside = <<"cancel", {s}>>
    /\ Joined({s})
    /\ operation' = [operation EXCEPT ![s].terminal = "cancelled"]
    /\ inside' = None
    /\ UNCHANGED <<admissionVars, high, http, worker, client, inited, reader, ran>>

\* The sessions leave the map, and the call owns their operations.
Take(S) ==
    /\ operation' = [s \in Busy |-> IF s \in S THEN None ELSE operation[s]]
    /\ Abort(S)
    /\ inside' = IF S = {} THEN None ELSE <<"close", S>>
    /\ UNCHANGED <<high, http, client, inited, reader, ran>>

\* close, and close_http_session when the id it is given is the one issued last.
Close(id) ==
    /\ LockFree
    /\ \/ Retire(id) /\ Take({id} \cap Busy)
       \/ Fence(id) /\ UNCHANGED sessionVars

\* shutdown stops one session after another; here all are told at once.
Shutdown ==
    /\ LockFree
    /\ Take(active \cap Busy)
    /\ RetireAll

CloseJoined ==
    /\ inside # None /\ inside[1] = "close"
    /\ Joined(inside[2])
    /\ inside' = None
    /\ UNCHANGED <<admissionVars, high, http, operation, worker, client, inited,
                   reader, ran>>

\* The caller drops a call while it awaits.
Abandon ==
    /\ inside # None
    /\ inside' = None
    /\ UNCHANGED <<admissionVars, high, http, operation, worker, client, inited,
                   reader, ran>>

-----------------------------------------------------------------------------
(* metadata, and http_session's GET: the client is awaited with the         *)
(* registry's lock let go.                                                  *)

Metadata(s) ==
    /\ LockFree
    /\ s \in active
    /\ reader[s] = "none"
    /\ reader' = [reader EXCEPT ![s] = "waiting"]
    /\ UNCHANGED <<admissionVars, high, http, operation, worker, client, inited, inside, ran>>

ReaderLocks(s) ==
    /\ reader[s] = "waiting"
    /\ client[s] = "free"
    /\ client' = [client EXCEPT ![s] = "reader"]
    /\ reader' = [reader EXCEPT ![s] = "reading"]
    /\ UNCHANGED <<admissionVars, high, http, operation, worker, inited, inside, ran>>

ReaderDone(s) ==
    /\ reader[s] = "reading"
    /\ client' = [client EXCEPT ![s] = "free"]
    /\ reader' = [reader EXCEPT ![s] = "none"]
    /\ UNCHANGED <<admissionVars, high, http, operation, worker, inited, inside, ran>>

-----------------------------------------------------------------------------

\* The host's requests.
Host ==
    \/ \E id \in Ids : OpenSession(id) \/ Close(id)
    \/ Shutdown
    \/ Abandon
    \/ \E s \in Busy :
          \/ \E o \in 1..MaxOp, init \in BOOLEAN, header \in {0} \cup HttpIds :
                Submit(s, o, init, header)
          \/ \E o \in 1..MaxOp, header \in {0} \cup HttpIds : SubmitRefused(s, o, header)
          \/ Complete(s)
          \/ Poll(s)
          \/ Cancel(s)
          \/ CancelEnded(s)
          \/ Metadata(s)

Next ==
    \/ Host
    \/ CloseJoined
    \/ \E s \in Busy :
          \/ WorkerStep(s)
          \/ PollRespond(s)
          \/ CancelJoined(s)
          \/ ReaderLocks(s)
          \/ ReaderDone(s)

Spec == Init /\ [][Next]_vars

\* Tasks that can go on do; the client's lock is granted in the order it was
\* asked for.  The host keeps polling and answers the callbacks it sees.
FairSpec ==
    /\ Spec
    /\ WF_vars(CloseJoined)
    /\ \A s \in Busy :
          /\ SF_vars(WorkerStart(s))
          /\ SF_vars(ReaderLocks(s))
          /\ SF_vars(PollRespond(s))
          /\ WF_vars(WorkerAsk(s) \/ WorkerFinish(s) \/ WorkerAborted(s))
          /\ WF_vars(ReaderDone(s))
          /\ WF_vars(CancelJoined(s))
          /\ SF_vars(Poll(s))
          /\ SF_vars(Complete(s))

-----------------------------------------------------------------------------
(* Properties. *)

\* No task works for a session that is closed or an operation that has ended,
\* unless it has been told to stop: close, shutdown and cancel reach every
\* task, also when their caller drops them half way.
WorkerIsOwned ==
    \A s \in Busy : worker[s].state \in Live => worker[s].aborted \/ (s \in active /\ Going(s))

\* An operation is started at most once, however often and however late the
\* host sends its submit.  (README.md of server/bridge: "every older counter is
\* refused")
StartedOnce ==
    [][\A s \in Busy : worker[s].state # "queued" /\ worker'[s].state = "queued"
           => <<s, operation'[s].id>> \notin ran]_vars

\* "Terminal responses remain replayable until a new accepted operation
\* explicitly acknowledges them" (README.md of server/bridge): what an operation
\* ended with, and the HTTP session id it issued, never change while it is the
\* session's operation.
EndIsReplayable ==
    [][\A s \in Busy :
          operation[s] # None /\ operation[s].terminal # "none" /\ operation'[s] # None
            /\ operation'[s].id = operation[s].id
          => /\ operation'[s].terminal = operation[s].terminal
             /\ operation[s].response # None => operation'[s] = operation[s]]_vars

\* A host that polls and answers sees every operation end, whatever metadata
\* calls, cancellations and dropped calls run beside it: no callback is lost
\* and no call waits for the client with the registry locked.
OperationEnds == \A s \in Busy : Going(s) ~> ~Going(s)

\* A call that awaits with the registry's lock held lets it go.
LockIsReleased == (inside # None) ~> (inside = None)

\* The shapes, and every worker is somebody's to end.
SessionsInv == SessionsTypeOK /\ WorkerIsOwned

\* An operation runs once, and its end is the same however often it is asked for.
RunsOnce == StartedOnce /\ EndIsReplayable

\* What was begun ends and gives up the client it held.
OperationsEnd == OperationEnds /\ LockIsReleased

=============================================================================
