-------------------------- MODULE HttpSessionProofs --------------------------
(* Theorems about HttpSession, for any number of requests and session ids.   *)
EXTENDS HttpSession, TLAPS

\* A request that is going to announce the cached session, or awaits the
\* answer: while the server waits for the announcement there is one.
Announcing(t) == pc[t] = "notify" \/ (pc[t] = "notified" /\ sent[t] = sid)

OpenIsAnnounced ==
    sid # None /\ server[sid] = "open" => \E t \in Tasks : Announcing(t)

\* The session a request was refused on is not the cached one, nor will be.
RefusedIsGone == \A t \in Tasks : refused[t] # None => refused[t] # sid

HttpInv == HttpTypeOK /\ OpenIsAnnounced /\ RefusedIsGone

-----------------------------------------------------------------------------

\* The initial state satisfies the invariant.
LEMMA HttpInvInit == Init => HttpInv
<1> SUFFICES ASSUME Init PROVE HttpInv
  OBVIOUS
<1>1. HttpTypeOK
  BY DEF Init, HttpTypeOK, Steps
<1>2. OpenIsAnnounced /\ RefusedIsGone
  BY DEF Init, OpenIsAnnounced, RefusedIsGone
<1> QED
  BY <1>1, <1>2 DEF HttpInv

\* A step of a task that announces nothing, and that leaves the session and the
\* server's view of it alone, keeps the announcement.
LEMMA BystanderKeeps ==
  ASSUME HttpTypeOK, OpenIsAnnounced, NEW t \in Tasks,
         pc[t] \notin {"notify", "notified"}, sid' = sid,
         sid # None /\ server'[sid] = "open" => server[sid] = "open",
         \A u \in Tasks \ {t} : pc'[u] = pc[u] /\ sent'[u] = sent[u]
  PROVE  OpenIsAnnounced'
BY DEF OpenIsAnnounced, Announcing

\* The steps of a handshake keep the invariant: a new session is announced by the request
\* that got it, and the announcement is over when the server has heard it, when
\* the session is reset, or when the request has sent it on another session.
LEMMA InitStepKeeps ==
  ASSUME HttpInv, SessionAssumption, NEW t \in Tasks, InitStep(t)
  PROVE  HttpInv'
<1> USE DEF HttpInv, HttpTypeOK, Goto, Continue, Return, ResetSession,
            clientVars, Steps
<1>1. CASE CheckInit(t)
  BY <1>1 DEF CheckInit, AfterInit, OpenIsAnnounced, Announcing, RefusedIsGone
<1>2. CASE HelloSession(t)
  <2>1. PICK s \in Sids : /\ Fresh(s)
                          /\ sid' = s
                          /\ server' = [server EXCEPT ![s] = "open"]
    BY <1>2 DEF HelloSession
  <2>2. HttpTypeOK'
    BY <1>2, <2>1 DEF HelloSession
  <2>3. Announcing(t)'
    BY <1>2 DEF HelloSession, Announcing
  <2>4. RefusedIsGone'
    BY <1>2, <2>1 DEF HelloSession, RefusedIsGone, Fresh
  <2> QED
    BY <2>2, <2>3, <2>4 DEF OpenIsAnnounced
<1>3. CASE HelloOther(t)
  <2>1. CASE sid' = None /\ inited' = TRUE /\ Continue(t, "notify")
    <3>1. HttpTypeOK'
      BY <1>3, <2>1 DEF HelloOther
    <3>2. OpenIsAnnounced' /\ RefusedIsGone'
      BY <2>1 DEF OpenIsAnnounced, RefusedIsGone
    <3> QED
      BY <3>1, <3>2
  <2>2. CASE UNCHANGED <<sid, inited>> /\ Return(t)
    <3>1. HttpTypeOK' /\ RefusedIsGone'
      BY <1>3, <2>2 DEF HelloOther, RefusedIsGone
    <3> QED
      BY <1>3, <2>2, <3>1, BystanderKeeps DEF HelloOther
  <2> QED
    BY <1>3, <2>1, <2>2 DEF HelloOther
<1>4. CASE Notify(t)
  <2>1. HttpTypeOK' /\ RefusedIsGone'
    BY <1>4 DEF Notify, RefusedIsGone
  <2>2. Announcing(t)'
    BY <1>4 DEF Notify, Announcing
  <2> QED
    BY <2>1, <2>2 DEF OpenIsAnnounced
<1>5. CASE Announced(t)
  <2>1. HttpTypeOK' /\ RefusedIsGone'
    BY <1>5 DEF Announced, AfterInit, RefusedIsGone
  <2>2. ASSUME sid' # None, server'[sid'] = "open"
        PROVE  \E u \in Tasks : Announcing(u)'
    <3>1. sid' = sid /\ sent[t] # sid /\ server[sid] = "open"
      BY <1>5, <2>2 DEF Announced, SessionAssumption
    <3>2. PICK u \in Tasks : Announcing(u)
      BY <2>2, <3>1 DEF OpenIsAnnounced
    <3>3. u # t
      BY <1>5, <3>1, <3>2 DEF Announced, Announcing
    <3> QED
      BY <1>5, <3>1, <3>2, <3>3 DEF Announced, Announcing
  <2> QED
    BY <2>1, <2>2 DEF OpenIsAnnounced
<1>6. CASE NotAnnounced(t)
  BY <1>6 DEF NotAnnounced, OpenIsAnnounced, RefusedIsGone
<1> QED
  BY <1>1, <1>2, <1>3, <1>4, <1>5, <1>6 DEF InitStep

\* So do the steps of list_tools, call_tool and send_jsonrpc: a reset leaves no
\* session, and it is what makes a refused session one that is not cached.
LEMMA RequestStepKeeps ==
  ASSUME HttpInv, SessionAssumption, NEW t \in Tasks, RequestStep(t)
  PROVE  HttpInv'
<1> USE DEF HttpInv, HttpTypeOK, Goto, Continue, Return, ResetSession,
            clientVars, Steps
<1>1. CASE Lookup(t)
  <2>1. HttpTypeOK' /\ RefusedIsGone'
    BY <1>1 DEF Lookup, RefusedIsGone
  <2> QED
    BY <1>1, <2>1, BystanderKeeps DEF Lookup
<1>2. CASE Send(t)
  <2>1. HttpTypeOK' /\ RefusedIsGone'
    BY <1>2 DEF Send, RefusedIsGone
  <2> QED
    BY <1>2, <2>1, BystanderKeeps DEF Send
<1>3. CASE Answered(t)
  <2>1. HttpTypeOK' /\ RefusedIsGone'
    BY <1>3 DEF Answered, RefusedIsGone
  <2> QED
    BY <1>3, <2>1, BystanderKeeps DEF Answered
<1>4. CASE NotFound(t)
  <2>1. HttpTypeOK' /\ RefusedIsGone'
    BY <1>4 DEF NotFound, RefusedIsGone
  <2> QED
    BY <1>4, <2>1, BystanderKeeps DEF NotFound
<1>5. CASE Reinitialize(t)
  BY <1>5 DEF Reinitialize, OpenIsAnnounced, RefusedIsGone
<1>6. CASE Failed(t)
  <2>1. HttpTypeOK' /\ RefusedIsGone'
    BY <1>6 DEF Failed, RefusedIsGone
  <2> QED
    BY <1>6, <2>1, BystanderKeeps DEF Failed
<1> QED
  BY <1>1, <1>2, <1>3, <1>4, <1>5, <1>6 DEF RequestStep

\* So do the steps of close_session.
LEMMA CloseStepKeeps ==
  ASSUME HttpInv, SessionAssumption, NEW t \in Tasks, CloseStep(t)
  PROVE  HttpInv'
<1> USE DEF HttpInv, HttpTypeOK, Goto, Continue, Return, ResetSession,
            clientVars, Steps
<1>1. CASE CheckClose(t)
  <2>1. HttpTypeOK' /\ RefusedIsGone'
    BY <1>1 DEF CheckClose, RefusedIsGone
  <2> QED
    BY <1>1, <2>1, BystanderKeeps DEF CheckClose
<1>2. CASE Deleted(t)
  <2>1. HttpTypeOK' /\ RefusedIsGone'
    BY <1>2 DEF Deleted, ServerForgets, RefusedIsGone
  <2> QED
    BY <1>2, <2>1, BystanderKeeps DEF Deleted, ServerForgets
<1>3. CASE NotDeleted(t)
  <2>1. HttpTypeOK' /\ RefusedIsGone'
    BY <1>3 DEF NotDeleted, RefusedIsGone
  <2> QED
    BY <1>3, <2>1, BystanderKeeps DEF NotDeleted
<1>4. CASE ForgetClosed(t)
  BY <1>4 DEF ForgetClosed, OpenIsAnnounced, RefusedIsGone
<1> QED
  BY <1>1, <1>2, <1>3, <1>4 DEF CloseStep

\* A request that is dropped keeps it: the session whose announcement goes with
\* it is no longer counted as open.
LEMMA DropKeeps ==
  ASSUME HttpInv, SessionAssumption, NEW t \in Tasks, Drop(t)
  PROVE  HttpInv'
<1> USE DEF HttpInv, HttpTypeOK, Goto, Return, clientVars, Steps
<1>1. HttpTypeOK' /\ RefusedIsGone'
  BY DEF Drop, RefusedIsGone
<1>2. ASSUME sid' # None, server'[sid'] = "open"
      PROVE  \E u \in Tasks : Announcing(u)'
  <2>1. sid' = sid /\ server[sid] = "open" /\ ~(pc[t] = "notified" /\ sent[t] = sid)
    BY <1>2 DEF Drop
  <2>2. PICK u \in Tasks : Announcing(u)
    BY <1>2, <2>1 DEF OpenIsAnnounced
  <2>3. u # t
    BY <2>1, <2>2 DEF Drop, Announcing, Awaits
  <2> QED
    BY <2>1, <2>2, <2>3 DEF Drop, Announcing
<1> QED
  BY <1>1, <1>2 DEF OpenIsAnnounced

\* The invariant is inductive.
LEMMA HttpInvStep ==
  ASSUME HttpInv, SessionAssumption, [Next]_vars
  PROVE  HttpInv'
<1>1. CASE \E t \in Tasks, o \in Requests : Begin(t, o)
  <2>1. PICK t \in Tasks, o \in Requests : Begin(t, o)
    BY <1>1
  <2>2. HttpTypeOK' /\ RefusedIsGone'
    BY <2>1 DEF Begin, HttpInv, HttpTypeOK, Goto, clientVars, Steps, RefusedIsGone
  <2> QED
    BY <2>1, <2>2, BystanderKeeps DEF Begin, HttpInv, HttpTypeOK, Goto, clientVars
<1>2. CASE \E t \in Tasks : TaskStep(t) \/ Drop(t)
  BY <1>2, InitStepKeeps, RequestStepKeeps, CloseStepKeeps, DropKeeps DEF TaskStep
<1>3. CASE \E s \in Sids : Expire(s)
  BY <1>3 DEF Expire, ServerForgets, HttpInv, HttpTypeOK, OpenIsAnnounced,
              Announcing, RefusedIsGone, clientVars
<1>4. CASE UNCHANGED vars
  BY <1>4 DEF vars, HttpInv, HttpTypeOK, OpenIsAnnounced, Announcing, RefusedIsGone
<1> QED
  BY <1>1, <1>2, <1>3, <1>4 DEF Next

\* Always: what the theorems below are read off from.
THEOREM HttpInvariant == Spec => []HttpInv
<1>1. Init => HttpInv
  BY HttpInvInit
<1>2. HttpInv /\ [Next]_vars => HttpInv'
  BY HttpInvStep, SessionAssumption
<1> QED
  BY <1>1, <1>2, PTL DEF Spec

-----------------------------------------------------------------------------

\* The shapes of the session's state, and that a request that has returned
\* leaves nothing of itself behind.
THEOREM HttpTypeCorrect == Spec => []HttpTypeOK
<1>1. HttpInv => HttpTypeOK
  BY DEF HttpInv
<1> QED
  BY <1>1, HttpInvariant, PTL

\* A session that stays cached has been announced to the server, however
\* handshakes, resets and closes overlapped, unless a caller dropped the
\* request that was announcing it.
THEOREM SessionsAreAnnounced == Spec => []AnnouncedUnlessDropped
<1>1. HttpInv => AnnouncedUnlessDropped
  BY DEF HttpInv, OpenIsAnnounced, Announcing, AnnouncedUnlessDropped, NobodyAnnounces
<1> QED
  BY <1>1, HttpInvariant, PTL

\* A retry never goes out on the session its first attempt was refused on.
THEOREM RetriesLeaveExpired == Spec => RetryLeavesExpired
<1> DEFINE Leaves ==
      \A t \in Tasks :
          pc[t] = "send" /\ pc'[t] = "await" /\ attempt[t] = 2 /\ refused[t] # None
            => sent'[t] # refused[t]
<1>1. ASSUME HttpInv, [Next]_vars
      PROVE  [Leaves]_vars
  <2>1. SUFFICES ASSUME Next, NEW t \in Tasks, pc[t] = "send", pc'[t] = "await",
                        refused[t] # None
                 PROVE  sent'[t] # refused[t]
    BY <1>1
  <2> USE DEF HttpInv, HttpTypeOK, Goto, Continue, Return
  <2>2. CASE \E u \in Tasks, o \in Requests : Begin(u, o)
    BY <1>1, <2>1, <2>2 DEF Begin
  <2>3. CASE \E u \in Tasks : InitStep(u)
    BY <1>1, <2>1, <2>3 DEF InitStep, CheckInit, AfterInit, HelloSession, HelloOther,
                            Notify, Announced, NotAnnounced
  <2>4. CASE \E u \in Tasks : RequestStep(u)
    <3>1. PICK u \in Tasks : RequestStep(u)
      BY <2>4
    <3>2. Send(t)
      BY <1>1, <2>1, <3>1 DEF RequestStep, Lookup, Send, Answered, NotFound,
                              Reinitialize, Failed
    <3> QED
      BY <1>1, <2>1, <3>2 DEF Send, RefusedIsGone
  <2>5. CASE \E u \in Tasks : CloseStep(u) \/ Drop(u)
    BY <1>1, <2>1, <2>5 DEF CloseStep, CheckClose, Deleted, NotDeleted, ForgetClosed, Drop
  <2>6. CASE \E s \in Sids : Expire(s)
    BY <2>1, <2>6 DEF Expire
  <2> QED
    BY <2>1, <2>2, <2>3, <2>4, <2>5, <2>6 DEF Next, TaskStep
<1> QED
  BY <1>1, HttpInvariant, PTL DEF Spec, RetryLeavesExpired

=============================================================================
