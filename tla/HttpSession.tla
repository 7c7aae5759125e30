----------------------------- MODULE HttpSession -----------------------------
(***************************************************************************)
(* The session of one HTTP client (McpHttpClient in transport/http/mod.rs) *)
(* and the requests that share it.                                         *)
(*                                                                         *)
(* Requests run at once and hold no lock while they await the server: the  *)
(* session's state is read and written in short lock sections, one step    *)
(* each.  A caller may drop a request wherever it awaits, as the           *)
(* supervisor's probe does when its timeout fires.                         *)
(*                                                                         *)
(* A server that issues session ids answers 404 to one that has expired.   *)
(* Nothing in between tells the moment it answers from the moment the      *)
(* client acts on the answer, so they are one step, unless the answer      *)
(* changes the server (a DELETE).                                          *)
(***************************************************************************)
EXTENDS Naturals, FiniteSets

CONSTANTS
    Tasks,     \* the requests that may be under way at once
    Requests,  \* what a caller may ask for
    Sids,      \* session ids
    None       \* no session id

ASSUME SessionAssumption ==
    /\ None \notin Sids
    /\ Requests \subseteq {"list", "call", "close"}

VARIABLES
    sid,        \* SessionState::session_id
    inited,     \* SessionState::initialize is there
    listed,     \* SessionState::cached_tools holds the tool that is called
    pc,         \* each task's next step
    goal,       \* what the task is at: a listing, a call, or the listing that a
                \* call needs first
    attempt,    \* whether it may re-initialize (1) or is the retry (2)
    sent,       \* the session id the request in flight carries
    refused,    \* history: the session id the first attempt was refused on
    server      \* each session at the server: gone, open, or ready once it has
                \* seen notifications/initialized; "dropped" is an open one whose
                \* announcement a caller dropped

clientVars == <<sid, inited, listed>>
vars == <<sid, inited, listed, pc, goal, attempt, sent, refused, server>>

Steps  == {"idle", "init", "hello", "notify", "notified", "lookup", "send",
           "await", "reset", "close", "delete", "forget"}
Awaits == {"hello", "notified", "await", "delete"}

(* The shapes of the state.  A request that has returned leaves nothing      *)
(* behind but the session.                                                  *)
HttpTypeOK ==
    /\ sid \in Sids \cup {None}
    /\ inited \in BOOLEAN
    /\ listed \in BOOLEAN
    /\ pc \in [Tasks -> Steps]
    /\ goal \in [Tasks -> {"list", "call", "list_to_call"}]
    /\ attempt \in [Tasks -> {1, 2}]
    /\ sent \in [Tasks -> Sids \cup {None}]
    /\ refused \in [Tasks -> Sids \cup {None}]
    /\ server \in [Sids -> {"gone", "open", "ready", "dropped"}]
    /\ \A t \in Tasks : pc[t] = "idle" => sent[t] = None /\ refused[t] = None

Init ==
    /\ sid = None
    /\ inited = FALSE
    /\ listed = FALSE
    /\ pc = [t \in Tasks |-> "idle"]
    /\ goal = [t \in Tasks |-> "list"]
    /\ attempt = [t \in Tasks |-> 1]
    /\ sent = [t \in Tasks |-> None]
    /\ refused = [t \in Tasks |-> None]
    /\ server = [s \in Sids |-> "gone"]

-----------------------------------------------------------------------------

Goto(t, step) == pc' = [pc EXCEPT ![t] = step]

Continue(t, step) ==
    /\ Goto(t, step)
    /\ UNCHANGED <<goal, attempt, sent, refused>>

\* A return that leaves the retry's mark behind.
ReturnMarked(t) ==
    /\ Goto(t, "idle")
    /\ goal' = [goal EXCEPT ![t] = "list"]
    /\ attempt' = [attempt EXCEPT ![t] = 1]
    /\ sent' = [sent EXCEPT ![t] = None]
    /\ UNCHANGED refused

\* The request returns, with a result or an error.
Return(t) ==
    /\ Goto(t, "idle")
    /\ goal' = [goal EXCEPT ![t] = "list"]
    /\ attempt' = [attempt EXCEPT ![t] = 1]
    /\ sent' = [sent EXCEPT ![t] = None]
    /\ refused' = [refused EXCEPT ![t] = None]

\* reset_session.
ResetSession == sid' = None /\ inited' = FALSE /\ listed' = FALSE

Begin(t, o) ==
    /\ pc[t] = "idle"
    /\ Goto(t, IF o = "close" THEN "close" ELSE "init")
    /\ goal' = [goal EXCEPT ![t] = IF o = "call" THEN "call" ELSE "list"]
    /\ UNCHANGED <<clientVars, server, attempt, sent, refused>>

-----------------------------------------------------------------------------
(* initialize.                                                             *)

\* Where a request goes once the session is up.
AfterInit(t) == IF goal[t] = "call" /\ attempt[t] = 1 THEN "lookup" ELSE "send"

\* A session that is cached is used as it is.
CheckInit(t) ==
    /\ pc[t] = "init"
    /\ Continue(t, IF inited THEN AfterInit(t) ELSE "hello")
    /\ UNCHANGED <<clientVars, server>>

\* A session the server has.  A request without an id gets any answer.
Known(s) == IF s = None THEN TRUE ELSE server[s] # "gone"

\* A session id that nobody has in hand: servers do not reuse theirs, and one
\* that is out of everybody's sight may stand for a new one.
Fresh(s) ==
    /\ server[s] = "gone"
    /\ s # sid
    /\ \A t \in Tasks : s # sent[t] /\ s # refused[t]

\* The server issues a session id.  What another request has cached meanwhile
\* is replaced.
HelloSession(t) ==
    /\ pc[t] = "hello"
    /\ \E s \in Sids :
          /\ Fresh(s)
          /\ sid' = s
          /\ server' = [server EXCEPT ![s] = "open"]
    /\ inited' = TRUE
    /\ Continue(t, "notify")
    /\ UNCHANGED listed

\* The server does not, or fails.
HelloOther(t) ==
    /\ pc[t] = "hello"
    /\ \/ /\ sid' = None
          /\ inited' = TRUE
          /\ Continue(t, "notify")
       \/ UNCHANGED <<sid, inited>> /\ Return(t)
    /\ UNCHANGED <<listed, server>>

\* apply_standard_headers of the notification.
Notify(t) ==
    /\ pc[t] = "notify"
    /\ Goto(t, "notified")
    /\ sent' = [sent EXCEPT ![t] = sid]
    /\ UNCHANGED <<clientVars, server, goal, attempt, refused>>

\* The server has seen the notification: the request goes on.
Announced(t) ==
    /\ pc[t] = "notified"
    /\ Known(sent[t])
    /\ server' = [s \in Sids |-> IF s = sent[t] THEN "ready" ELSE server[s]]
    /\ Goto(t, AfterInit(t))
    /\ sent' = [sent EXCEPT ![t] = None]
    /\ UNCHANGED <<clientVars, goal, attempt, refused>>

\* A failure that returns with the session cached.
KeepSession(t) == pc[t] = "notified" /\ Return(t) /\ UNCHANGED <<clientVars, server>>

\* The notification fails: whatever session is cached is dropped.
NotAnnounced(t) ==
    /\ pc[t] = "notified"
    /\ ResetSession
    /\ Return(t)
    /\ UNCHANGED server

-----------------------------------------------------------------------------
(* list_tools, call_tool and send_jsonrpc.                                 *)

\* call_tool looks for the tool in the cache, and lists when it is not there.
Lookup(t) ==
    /\ pc[t] = "lookup"
    /\ Goto(t, IF listed THEN "send" ELSE "init")
    /\ goal' = [goal EXCEPT ![t] = IF listed THEN "call" ELSE "list_to_call"]
    /\ UNCHANGED <<clientVars, server, attempt, sent, refused>>

\* apply_standard_headers.
Send(t) ==
    /\ pc[t] = "send"
    /\ Goto(t, "await")
    /\ sent' = [sent EXCEPT ![t] = sid]
    /\ UNCHANGED <<clientVars, server, goal, attempt, refused>>

\* The answer.  A listing is cached, and a call that wanted it goes on with
\* another request, which may re-initialize in its turn.
Answered(t) ==
    /\ pc[t] = "await"
    /\ Known(sent[t])
    /\ listed' = (listed \/ goal[t] # "call")
    /\ \/ /\ goal[t] = "list_to_call"
          /\ Goto(t, "send")
          /\ goal' = [goal EXCEPT ![t] = "call"]
          /\ attempt' = [attempt EXCEPT ![t] = 1]
          /\ sent' = [sent EXCEPT ![t] = None]
          /\ refused' = [refused EXCEPT ![t] = None]
       \/ goal[t] # "list_to_call" /\ Return(t)
    /\ UNCHANGED <<sid, inited, server>>

\* A retry that may be retried.
ExpiredAlways(t) == sid # None

\* No session to blame.
ExpiredNever(t) == FALSE

\* A 404 is taken for an expired session when there is one, and the request is
\* not a retry already.
Expired(t) == attempt[t] = 1 /\ sid # None

NotFound(t) ==
    /\ pc[t] = "await"
    /\ sent[t] = None \/ ~Known(sent[t])
    /\ \/ Expired(t) /\ Continue(t, "reset")
       \/ ~Expired(t) /\ Return(t)
    /\ UNCHANGED <<clientVars, server>>

\* A retry over the session that is cached.
ReinitializeKeeps(t) ==
    /\ pc[t] = "reset"
    /\ Goto(t, "init")
    /\ attempt' = [attempt EXCEPT ![t] = 2]
    /\ refused' = [refused EXCEPT ![t] = sent[t]]
    /\ sent' = [sent EXCEPT ![t] = None]
    /\ UNCHANGED <<clientVars, server, goal>>

\* The session is reset, and the request starts over with initialize.
Reinitialize(t) ==
    /\ pc[t] = "reset"
    /\ ResetSession
    /\ Goto(t, "init")
    /\ attempt' = [attempt EXCEPT ![t] = 2]
    /\ refused' = [refused EXCEPT ![t] = sent[t]]
    /\ sent' = [sent EXCEPT ![t] = None]
    /\ UNCHANGED <<server, goal>>

\* Any other error: of the server, or of the transport.
Failed(t) ==
    /\ pc[t] = "await"
    /\ Return(t)
    /\ UNCHANGED <<clientVars, server>>

-----------------------------------------------------------------------------
(* close_session.                                                          *)

CheckClose(t) ==
    /\ pc[t] = "close"
    /\ \/ /\ sid = None
          /\ Return(t)
       \/ /\ sid # None
          /\ Goto(t, "delete")
          /\ sent' = [sent EXCEPT ![t] = sid]
          /\ UNCHANGED <<goal, attempt, refused>>
    /\ UNCHANGED <<clientVars, server>>

ServerForgets(s) == server' = [server EXCEPT ![s] = "gone"]

\* The server ends the session, or says that it does not do that (405).
Deleted(t) ==
    /\ pc[t] = "delete"
    /\ server[sent[t]] # "gone"
    /\ \/ ServerForgets(sent[t])
       \/ UNCHANGED server
    /\ Continue(t, "forget")
    /\ UNCHANGED clientVars

\* It does not know the session, or the call fails: nothing is forgotten.
NotDeleted(t) ==
    /\ pc[t] = "delete"
    /\ Return(t)
    /\ UNCHANGED <<clientVars, server>>

ForgetClosed(t) ==
    /\ pc[t] = "forget"
    /\ ResetSession
    /\ Return(t)
    /\ UNCHANGED server

-----------------------------------------------------------------------------

\* The caller drops the request where it awaits.  The server may or may not
\* have seen what was sent.
Drop(t) ==
    /\ pc[t] \in Awaits
    /\ server' = [s \in Sids |->
                    IF pc[t] = "notified" /\ sent[t] = s /\ server[s] = "open"
                    THEN "dropped" ELSE server[s]]
    /\ Return(t)
    /\ UNCHANGED clientVars

\* The server forgets a session.
Expire(s) ==
    /\ server[s] # "gone"
    /\ ServerForgets(s)
    /\ UNCHANGED <<clientVars, pc, goal, attempt, sent, refused>>

InitStep(t) ==
    \/ CheckInit(t) \/ HelloSession(t) \/ HelloOther(t)
    \/ Notify(t) \/ Announced(t) \/ NotAnnounced(t)

RequestStep(t) ==
    \/ Lookup(t) \/ Send(t) \/ Answered(t) \/ NotFound(t)
    \/ Reinitialize(t) \/ Failed(t)

CloseStep(t) == CheckClose(t) \/ Deleted(t) \/ NotDeleted(t) \/ ForgetClosed(t)

TaskStep(t) == InitStep(t) \/ RequestStep(t) \/ CloseStep(t)

Next ==
    \/ \E t \in Tasks, o \in Requests : Begin(t, o)
    \/ \E t \in Tasks : TaskStep(t) \/ Drop(t)
    \/ \E s \in Sids : Expire(s)

Spec == Init /\ [][Next]_vars

\* Every exchange with the server ends, by the client's timeout at the latest.
\* The host keeps calling tools, and a server that has forgotten a session
\* gets to say so now and then.
FairSpec ==
    /\ Spec
    /\ \A t \in Tasks : WF_vars(TaskStep(t))
    /\ SF_vars(\E t \in Tasks : Begin(t, "call"))
    /\ SF_vars(\E t \in Tasks : NotFound(t))

-----------------------------------------------------------------------------
(* Properties. *)

\* Nobody is about to announce a session or awaits the answer.
NobodyAnnounces == \A t \in Tasks : pc[t] \notin {"notify", "notified"}

\* "The session is not usable until the server has seen this notification, so a
\* failure must not leave it cached as initialized." (transport/http/mod.rs:533)
CachedIsAnnounced ==
    NobodyAnnounces /\ sid # None => server[sid] \notin {"open", "dropped"}

\* So it is, through overlapping handshakes, resets by other requests and
\* closes, for sessions whose announcement no caller has dropped half way.
AnnouncedUnlessDropped == NobodyAnnounces /\ sid # None => server[sid] # "open"

\* A retry never goes out on the session that its first attempt was refused on,
\* whatever other requests cached in between.  (transport/http/mod.rs:1030-1032)
RetryLeavesExpired ==
    [][\A t \in Tasks :
          pc[t] = "send" /\ pc'[t] = "await" /\ attempt[t] = 2 /\ refused[t] # None
            => sent'[t] # refused[t]]_vars

\* "Sends a JSON-RPC request, retrying once if the session has expired": every
\* request ends, also when every session expires before it is used.
\* (transport/http/mod.rs:973-983)
RequestEnds == \A t \in Tasks : (pc[t] # "idle") ~> (pc[t] = "idle")

\* A session that the server has forgotten does not stay the client's.
ExpiredIsReplaced ==
    (sid # None /\ ~Known(sid)) ~> (sid = None \/ Known(sid))

\* A request ends, and the session it found expired goes.
RequestsMoveOn == RequestEnds /\ ExpiredIsReplaced

=============================================================================
