---------------------------- MODULE StdioSession ----------------------------
(***************************************************************************)
(* The stdio client: McpStdioClient of transport/stdio/mod.rs.  One child  *)
(* behind one fair lock that is held from a request's first byte to its    *)
(* answer, callers that may drop a request at any await, and close_session *)
(* that has to get past a request the server does not answer.              *)
(***************************************************************************)
EXTENDS Naturals, Sequences, SequencesExt

CONSTANTS
    Callers,      \* tasks that make requests
    Closers,      \* tasks that call close_session
    MaxIds        \* bounds next_id

ASSUME StdioAssumption == MaxIds \in Nat

Tasks == Callers \cup Closers
Ids == 1..MaxIds

VARIABLES
    queue,      \* the lock: its holder, then the tasks that wait for it
    session,    \* a session is in `state`
    child,      \* the running server: none, alive, or exited with its pipes open
    torn,       \* the last line written to it is not complete
    inbox,      \* the requests it has read and not answered
    outbox,     \* the answers in its output pipe
    nextId,
    closing,    \* the generation close_session has bumped
    task        \* each task's position

stdioVars == <<queue, session, child, torn, inbox, outbox, nextId, closing, task>>
pipes == <<child, torn, inbox, outbox>>

Resting == [at |-> "idle", phase |-> "init", id |-> 0, seen |-> 0, got |-> 0]

StdioTypeOK ==
    /\ queue \in Seq(Tasks) /\ IsInjective(queue)
    /\ session \in BOOLEAN /\ torn \in BOOLEAN /\ child \in {"none", "alive", "exited"}
    /\ inbox \subseteq Ids /\ \A i \in 1..Len(outbox) : outbox[i] \in Ids
    /\ nextId \in 1..(MaxIds + 1) /\ closing \in Nat
    /\ task \in [Tasks -> [at : {"idle", "waiting", "half", "reading", "closed"},
                           phase : {"init", "call", "close"}, id : 0..MaxIds,
                           seen : 0..closing, got : 0..MaxIds]]
    /\ session => child # "none"

StdioInit ==
    /\ queue = <<>> /\ session = FALSE /\ child = "none" /\ torn = FALSE
    /\ inbox = {} /\ outbox = <<>> /\ nextId = 1 /\ closing = 0
    /\ task = [t \in Tasks |-> Resting]

Holds(t) == queue # <<>> /\ Head(queue) = t
Without(t) == RemoveAt(queue, CHOOSE i \in DOMAIN queue : queue[i] = t)

\* A dropped session ends its child: kill_on_drop.
Killed ==
    child' = "none" /\ torn' = FALSE /\ inbox' = {} /\ outbox' = <<>>

\* The task gives up the lock, or its place in the queue.
Leave(t) == queue' = Without(t) /\ task' = [task EXCEPT ![t] = Resting]

\* A session dropped without its child.
Orphan(t) == Leave(t) /\ UNCHANGED pipes

\* While the handshake runs, the session belongs to its caller.
LeaveWith(t) ==
    /\ Leave(t)
    /\ IF task[t].phase = "init" /\ task[t].at \in {"half", "reading"}
       THEN Killed ELSE UNCHANGED pipes

-----------------------------------------------------------------------------
\* A request: initialize takes the lock first, then the request takes it again.

Call(c) ==
    /\ task[c].at = "idle" /\ nextId <= MaxIds
    /\ task' = [task EXCEPT ![c] = [Resting EXCEPT !.at = "waiting"]]
    /\ queue' = Append(queue, c)
    /\ UNCHANGED <<session, pipes, nextId, closing>>

\* initialize finds a session: the lock is released and asked for again.
Reuse(c) ==
    /\ Holds(c) /\ task[c].at = "waiting" /\ task[c].phase = "init" /\ session
    /\ task' = [task EXCEPT ![c].phase = "call"]
    /\ queue' = Append(Tail(queue), c)
    /\ UNCHANGED <<session, pipes, nextId, closing>>

\* The first half of a message, with its identifier and its view of `closing`.
BeginMessage(c) ==
    /\ nextId <= MaxIds /\ nextId' = nextId + 1
    /\ task' = [task EXCEPT ![c].at = "half", ![c].id = nextId, ![c].seen = closing]

\* initialize spawns the child and begins the handshake.
Spawn(c) ==
    /\ Holds(c) /\ task[c].at = "waiting" /\ task[c].phase = "init" /\ ~session
    /\ BeginMessage(c)
    /\ child' = "alive" /\ torn' = FALSE /\ inbox' = {} /\ outbox' = <<>>
    /\ UNCHANGED <<queue, session, closing>>

SpawnFails(c) ==
    /\ Holds(c) /\ task[c].at = "waiting" /\ task[c].phase = "init" /\ ~session
    /\ Leave(c)
    /\ UNCHANGED <<session, pipes, nextId, closing>>

BeginRequest(c) ==
    /\ Holds(c) /\ task[c].at = "waiting" /\ task[c].phase = "call" /\ session
    /\ BeginMessage(c)
    /\ UNCHANGED <<queue, session, pipes, closing>>

\* The session was closed between the two locks.
NotInitialized(c) ==
    /\ Holds(c) /\ task[c].at = "waiting" /\ task[c].phase = "call" /\ ~session
    /\ Leave(c)
    /\ UNCHANGED <<session, pipes, nextId, closing>>

\* write_line completes: a message behind half of another one is lost with it.
FinishMessage(c) ==
    /\ task[c].at = "half" /\ child = "alive"
    /\ task' = [task EXCEPT ![c].at = "reading"]
    /\ inbox' = IF torn THEN inbox ELSE inbox \cup {task[c].id}
    /\ torn' = FALSE
    /\ UNCHANGED <<queue, session, child, outbox, nextId, closing>>

\* Only the reply carrying this request's id is returned.
OwnAnswer(c) == outbox # <<>> /\ Head(outbox) = task[c].id

\* The reply: after the handshake the session is kept and the request goes on to
\* take the lock again.
Answered(c) ==
    /\ task[c].at = "reading" /\ OwnAnswer(c)
    /\ outbox' = Tail(outbox)
    /\ \/ /\ task[c].phase = "init"
          /\ session' = TRUE
          /\ queue' = Append(Tail(queue), c)
          /\ task' = [task EXCEPT ![c] = [Resting EXCEPT !.at = "waiting", !.phase = "call"]]
       \/ /\ task[c].phase = "call"
          /\ queue' = Without(c)
          /\ task' = [task EXCEPT ![c] = [Resting EXCEPT !.id = task[c].id,
                                                         !.got = Head(outbox)]]
          /\ UNCHANGED session
    /\ UNCHANGED <<child, torn, inbox, nextId, closing>>

\* A late answer to an earlier request is skipped.
Skipped(c) ==
    /\ task[c].at = "reading" /\ outbox # <<>> /\ ~OwnAnswer(c)
    /\ outbox' = Tail(outbox)
    /\ UNCHANGED <<queue, session, child, torn, inbox, nextId, closing, task>>

\* A reader that does not watch `closing`.
NeverClosing(c) == FALSE

\* closing.changed()
SeesClosing(c) == task[c].seen # closing

\* The read gives up: close_session asked for it, or the output has ended. A write to
\* a server that is gone fails, and so does a handshake's reply that is refused.
RequestFails(c) ==
    /\ \/ task[c].at = "reading" /\ SeesClosing(c)
       \/ task[c].at = "reading" /\ child = "exited" /\ outbox = <<>>
       \/ task[c].at = "half" /\ child = "exited"
       \/ task[c].at = "reading" /\ task[c].phase = "init" /\ OwnAnswer(c)
    /\ LeaveWith(c)
    /\ UNCHANGED <<session, nextId, closing>>

\* A caller drops its request at an await: its own timeout. Half a message may stay in
\* the pipe.
DropRequest(c) ==
    /\ c \in Callers /\ task[c].at \in {"waiting", "half", "reading"}
    /\ IF task[c].at = "half" /\ task[c].phase = "call"
       THEN Leave(c) /\ torn' = TRUE /\ UNCHANGED <<child, inbox, outbox>>
       ELSE LeaveWith(c)
    /\ UNCHANGED <<session, nextId, closing>>

-----------------------------------------------------------------------------
\* close_session: the generation, then the lock, then the child.

Close(k) ==
    /\ task[k].at = "idle"
    /\ closing' = closing + 1
    /\ task' = [task EXCEPT ![k].at = "waiting", ![k].phase = "close"]
    /\ queue' = Append(queue, k)
    /\ UNCHANGED <<session, pipes, nextId>>

Terminate(k) ==
    /\ Holds(k) /\ task[k].phase = "close"
    /\ IF session THEN Killed ELSE UNCHANGED pipes
    /\ session' = FALSE
    /\ queue' = Without(k)
    /\ task' = [task EXCEPT ![k] = [Resting EXCEPT !.at = "closed"]]
    /\ UNCHANGED <<nextId, closing>>

\* The server: it answers in any order, late or never, and may exit.
Serve(i) ==
    /\ child = "alive" /\ i \in inbox
    /\ inbox' = inbox \ {i} /\ outbox' = Append(outbox, i)
    /\ UNCHANGED <<queue, session, child, torn, nextId, closing, task>>

Exit ==
    /\ child = "alive" /\ child' = "exited" /\ inbox' = {}
    /\ UNCHANGED <<queue, session, torn, outbox, nextId, closing, task>>

Progress(t) ==
    \/ Reuse(t) \/ Spawn(t) \/ SpawnFails(t) \/ BeginRequest(t) \/ NotInitialized(t)
    \/ FinishMessage(t) \/ Answered(t) \/ Skipped(t) \/ RequestFails(t) \/ Terminate(t)

StdioNext ==
    \/ \E c \in Callers : Call(c) \/ DropRequest(c)
    \/ \E k \in Closers : Close(k)
    \/ \E t \in Tasks : Progress(t)
    \/ \E i \in Ids : Serve(i)
    \/ Exit

\* The runtime polls a task that can go on. Nothing makes a server answer or a caller
\* lose patience.
StdioFairness == \A t \in Tasks : WF_stdioVars(Progress(t))

StdioSpec == StdioInit /\ [][StdioNext]_stdioVars /\ StdioFairness

-----------------------------------------------------------------------------

\* A request gets the answer to itself, although earlier ones were dropped and their
\* answers come late over the same pipe.
\* (transport/stdio/mod.rs:565-665)
AnswersAreOwn ==
    \A c \in Callers : task[c].got # 0 => task[c].got = task[c].id

\* The child does not outlive the client's use of it: it is the session's, or the handshake of
\* the task that holds the lock is under way, however that handshake is dropped.
\* (transport/stdio/mod.rs:8-25, 344-399)
ChildIsOwned ==
    child # "none" =>
        session \/ \E c \in Callers : Holds(c) /\ task[c].phase = "init"
                                              /\ task[c].at \in {"half", "reading"}

\* A request that waits for the server when close_session is called ends.
\* (transport/stdio/mod.rs:540-552, 585-600)
WaitersAreReleased ==
    \A c \in Callers :
        task[c].at = "reading" /\ task[c].seen # closing ~> task[c].at # "reading"

\* closing_a_session_does_not_wait_for_an_unanswered_request
\* (transport/stdio/mod_tests.rs:410, transport/stdio/mod.rs:540-552)
CloseReturns == \A k \in Closers : task[k].at = "waiting" ~> task[k].at = "closed"

\* Writes one newline-terminated JSON message and flushes it.
\* (transport/stdio/mod.rs:676-700)
MessagesAreWhole == \A c \in Callers : task[c].at = "half" => ~torn

\* What holds of the shared pipe in every state, whatever is dropped or closed when.
StdioInv == StdioTypeOK /\ AnswersAreOwn /\ ChildIsOwned

\* Answers reach the requests they answer, and a request that close_session finds
\* waiting for the server ends.
StdioDelivers == []StdioInv /\ WaitersAreReleased

=============================================================================
