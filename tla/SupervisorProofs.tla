-------------------------- MODULE SupervisorProofs --------------------------
(* What the registry guarantees for any servers, any tasks, any answers of   *)
(* the servers' endpoints, and whether or not store calls fail; then what    *)
(* the supervisor guarantees while callers, endpoints and transports do what *)
(* they like, for any delays and run lengths too.                            *)
EXTENDS Supervisor, TLAPS

-----------------------------------------------------------------------------
(* McpRegistry: the types. *)

StoreTypes ==
    /\ row \in [Servers -> Rows]
    /\ secret \in [Servers -> SUBSET Tasks]
    /\ cache \in [Servers -> {None} \cup SUBSET Tasks]

ConnTypes ==
    /\ live \in [Servers -> {None} \cup SUBSET Tasks]
    /\ failures \subseteq Servers
    /\ lapsed \subseteq Servers

TaskTypes ==
    /\ pc \in [Tasks -> Steps]
    /\ op \in [Tasks -> AllOps \cup {"tick"}]
    /\ srv \in [Tasks -> Servers]
    /\ seen \in [Tasks -> SUBSET Tasks]
    /\ err \in [Tasks -> Errors]

LEMMA TypeParts == TypeOK <=> StoreTypes /\ ConnTypes /\ TaskTypes
BY Zenon DEF TypeOK, StoreTypes, ConnTypes, TaskTypes

-----------------------------------------------------------------------------
(* The ways control passes on. *)

LEMMA GotoType ==
    ASSUME TaskTypes, NEW t \in Tasks, NEW step \in Steps, Goto(t, step)
    PROVE  pc' \in [Tasks -> Steps]
BY DEF TaskTypes, Goto

LEMMA ReturnType ==
    ASSUME TaskTypes, NEW t \in Tasks, Return(t)
    PROVE  TaskTypes'
<1>1. "idle" \in Steps /\ "none" \in Errors
  BY DEF Steps, Errors
<1>2. pc' \in [Tasks -> Steps]
  BY <1>1, GotoType DEF Return
<1>3. op' \in [Tasks -> AllOps \cup {"tick"}]
  BY DEF TaskTypes, Return, AllOps
<1>4. srv' \in [Tasks -> Servers] /\ seen' \in [Tasks -> SUBSET Tasks]
  BY DEF TaskTypes, Return
<1>5. err' \in [Tasks -> Errors]
  BY <1>1 DEF TaskTypes, Return
<1> QED
  BY <1>2, <1>3, <1>4, <1>5 DEF TaskTypes

LEMMA ContinueType ==
    ASSUME TaskTypes, NEW t \in Tasks, NEW step \in Steps, Continue(t, step)
    PROVE  TaskTypes'
<1>1. pc' \in [Tasks -> Steps]
  BY GotoType DEF Continue
<1> QED
  BY <1>1 DEF TaskTypes, Continue

LEMMA ForgetType ==
    ASSUME TaskTypes, NEW t \in Tasks, NEW step \in Steps, Forget(t, step)
    PROVE  TaskTypes'
<1>1. pc' \in [Tasks -> Steps]
  BY GotoType DEF Forget
<1>2. seen' \in [Tasks -> SUBSET Tasks]
  BY DEF TaskTypes, Forget
<1> QED
  BY <1>1, <1>2 DEF TaskTypes, Forget

-----------------------------------------------------------------------------
(* Types: one lemma per group of actions. *)

LEMMA BeginType ==
    ASSUME TypeOK, NEW t \in Callers, NEW o \in CallerOps, NEW s \in Servers,
           Begin(t, o, s)
    PROVE  TypeOK'
<1>1. t \in Tasks /\ o \in AllOps
  BY RegistryAssumption
<1>2. Entry(o) \in Steps
  BY <1>1 DEF Entry, AllOps, Steps
<1>3. pc' \in [Tasks -> Steps]
  BY <1>1, <1>2, TypeParts, GotoType DEF Begin
<1>4. op' \in [Tasks -> AllOps \cup {"tick"}]
  BY <1>1 DEF TypeOK, Begin
<1>5. srv' \in [Tasks -> Servers]
  BY <1>1 DEF TypeOK, Begin
<1> QED
  BY <1>3, <1>4, <1>5 DEF TypeOK, Begin, storeVars, connVars

LEMMA ConnectType ==
    ASSUME TypeOK, NEW t \in Tasks, ConnectStep(t)
    PROVE  TypeOK'
<1> USE TypeParts
<1>1. CASE Admit(t)
  <2>1. TaskTypes'
    BY <1>1, ReturnType, ContinueType DEF Admit, Steps
  <2> QED
    BY <1>1, <2>1 DEF Admit, TypeOK, TaskTypes, storeVars, connVars
<1>2. CASE Dial(t)
  <2>1. pc' \in [Tasks -> Steps]
    BY <1>2, GotoType DEF Dial, Steps
  <2>2. seen' \in [Tasks -> SUBSET Tasks]
    BY <1>2 DEF Dial, TaskTypes, StoreTypes
  <2>3. err' \in [Tasks -> Errors]
    BY <1>2 DEF Dial, TaskTypes, Errors
  <2>4. TaskTypes'
    BY <1>2, <2>1, <2>2, <2>3 DEF Dial, TaskTypes
  <2> QED
    BY <1>2, <2>4 DEF Dial, TypeOK, TaskTypes, storeVars, connVars
<1>3. CASE PutCache(t)
  <2>1. TaskTypes'
    BY <1>3, ForgetType DEF PutCache, Steps
  <2>2. cache' \in [Servers -> {None} \cup SUBSET Tasks]
    BY <1>3 DEF PutCache, StoreTypes, TaskTypes
  <2> QED
    BY <1>3, <2>1, <2>2 DEF PutCache, TypeOK, TaskTypes, connVars
<1>4. CASE Recheck(t)
  <2>1. PICK e \in {RecheckError(srv[t])} \cup (IF StoreFaults THEN {"store"} ELSE {}) :
           /\ err' = [err EXCEPT ![t] = e]
           /\ Goto(t, IF e = "none" THEN "record" ELSE "unmap")
    BY <1>4 DEF Recheck
  <2>2. e \in Errors
    BY <2>1 DEF RecheckError, StoreTypes, TaskTypes, Rows, Errors
  <2>3. err' \in [Tasks -> Errors]
    BY <2>1, <2>2 DEF TaskTypes
  <2>4. pc' \in [Tasks -> Steps]
    BY <2>1, GotoType DEF Steps
  <2>5. TaskTypes'
    BY <1>4, <2>3, <2>4 DEF Recheck, TaskTypes
  <2> QED
    BY <1>4, <2>5 DEF Recheck, TypeOK, TaskTypes, storeVars, connVars
<1>5. CASE Record(t)
  <2>1. TaskTypes'
    BY <1>5, ReturnType, ContinueType DEF Record, Steps
  <2>2. failures' \subseteq Servers
    BY <1>5 DEF Record, TaskTypes, ConnTypes
  <2> QED
    BY <1>5, <2>1, <2>2 DEF Record, TypeOK, TaskTypes, storeVars
<1> QED
  BY <1>1, <1>2, <1>3, <1>4, <1>5 DEF ConnectStep

LEMMA ShakeType ==
    ASSUME TypeOK, NEW t \in Tasks, NEW answer \in Worlds, Shake(t, answer)
    PROVE  TypeOK'
<1> USE TypeParts
<1>1. pc' \in [Tasks -> Steps]
  BY GotoType DEF Shake, Continue, Steps
<1>2. live' \in [Servers -> {None} \cup SUBSET Tasks]
  BY DEF Shake, ConnTypes, TaskTypes
<1>3. err' \in [Tasks -> Errors]
  BY DEF Shake, Continue, TaskTypes, Errors
<1>4. TaskTypes'
  BY <1>1, <1>3 DEF Shake, Continue, TaskTypes
<1>5. lapsed' \subseteq Servers
  BY DEF Shake, ConnTypes
<1> QED
  BY <1>2, <1>4, <1>5 DEF Shake, TypeOK, TaskTypes, storeVars

LEMMA DisconnectType ==
    ASSUME TypeOK, NEW t \in Tasks, DisconnectStep(t)
    PROVE  TypeOK'
<1> USE TypeParts
<1>1. CASE Unmap(t)
  <2>1. TaskTypes'
    BY <1>1, ContinueType DEF Unmap, Steps
  <2>2. live' \in [Servers -> {None} \cup SUBSET Tasks]
    BY <1>1 DEF Unmap, ConnTypes
  <2>3. lapsed' \subseteq Servers
    BY <1>1 DEF Unmap, ConnTypes
  <2> QED
    BY <1>1, <2>1, <2>2, <2>3 DEF Unmap, TypeOK, TaskTypes, storeVars
<1>2. CASE Clear(t)
  <2>1. AfterDisconnect(t) \in Steps
    BY DEF AfterDisconnect, Steps
  <2>2. TaskTypes'
    BY <1>2, <2>1, ReturnType, ContinueType DEF Clear
  <2>3. failures' \subseteq Servers
    BY <1>2 DEF Clear, ConnTypes
  <2> QED
    BY <1>2, <2>2, <2>3 DEF Clear, TypeOK, TaskTypes, storeVars
<1> QED
  BY <1>1, <1>2 DEF DisconnectStep

LEMMA SetEnabledType ==
    ASSUME TypeOK, NEW t \in Tasks, SetEnabledStep(t)
    PROVE  TypeOK'
<1> USE TypeParts
<1>1. CASE Check(t)
  <2>1. TaskTypes'
    BY <1>1, ReturnType, ContinueType DEF Check, Steps
  <2> QED
    BY <1>1, <2>1 DEF Check, TypeOK, TaskTypes, storeVars, connVars
<1>2. CASE Write(t)
  <2>1. TaskTypes'
    BY <1>2, ReturnType, ContinueType DEF Write, Steps
  <2>2. row' \in [Servers -> Rows]
    BY <1>2 DEF Write, UpdateRow, Setting, StoreTypes, Rows
  <2>3. lapsed' \subseteq Servers
    BY <1>2 DEF Write, ConnTypes, TaskTypes
  <2> QED
    BY <1>2, <2>1, <2>2, <2>3 DEF Write, TypeOK, TaskTypes
<1>3. CASE ClearError(t)
  <2>1. TaskTypes'
    BY <1>3, ContinueType DEF ClearError, Steps
  <2>2. failures' \subseteq Servers
    BY <1>3 DEF ClearError, ConnTypes
  <2> QED
    BY <1>3, <2>1, <2>2 DEF ClearError, TypeOK, TaskTypes, storeVars
<1> QED
  BY <1>1, <1>2, <1>3 DEF SetEnabledStep

LEMMA CredentialType ==
    ASSUME TypeOK, NEW t \in Tasks, CredentialStep(t)
    PROVE  TypeOK'
<1> USE TypeParts
<1>1. CASE Find(t)
  <2>1. TaskTypes'
    BY <1>1, ReturnType, ContinueType DEF Find, Steps
  <2> QED
    BY <1>1, <2>1 DEF Find, TypeOK, TaskTypes, storeVars, connVars
<1>2. CASE Load(t)
  <2>1. CASE Return(t)
    <3>1. TaskTypes'
      BY <2>1, ReturnType
    <3> QED
      BY <1>2, <3>1 DEF Load, TypeOK, TaskTypes, storeVars, connVars
  <2>2. CASE ~Return(t)
    <3>1. pc' \in [Tasks -> Steps]
      BY <1>2, <2>2, GotoType DEF Load, Steps
    <3>2. seen' \in [Tasks -> SUBSET Tasks]
      BY <1>2, <2>2 DEF Load, StoreTypes, TaskTypes
    <3> QED
      BY <1>2, <2>2, <3>1, <3>2 DEF Load, TypeOK, storeVars, connVars
  <2> QED
    BY <2>1, <2>2
<1>3. CASE StoreSecret(t)
  <2>1. TaskTypes'
    BY <1>3, ReturnType, ForgetType DEF StoreSecret, Steps
  <2>2. secret' \in [Servers -> SUBSET Tasks]
    BY <1>3 DEF StoreSecret, StoreTypes, TaskTypes
  <2> QED
    BY <1>3, <2>1, <2>2 DEF StoreSecret, TypeOK, TaskTypes, connVars
<1>4. CASE Uncache(t)
  <2>1. AfterUncache(t) \in Steps
    BY DEF AfterUncache, Steps
  <2>2. TaskTypes'
    BY <1>4, <2>1, ReturnType, ContinueType DEF Uncache
  <2>3. cache' \in [Servers -> {None} \cup SUBSET Tasks]
    BY <1>4 DEF Uncache, ForgetListing, StoreTypes
  <2> QED
    BY <1>4, <2>2, <2>3 DEF Uncache, TypeOK, TaskTypes, connVars
<1>5. CASE Reread(t)
  <2>1. TaskTypes'
    BY <1>5, ReturnType, ContinueType DEF Reread, Steps
  <2> QED
    BY <1>5, <2>1 DEF Reread, TypeOK, TaskTypes, storeVars, connVars
<1> QED
  BY <1>1, <1>2, <1>3, <1>4, <1>5 DEF CredentialStep

LEMMA DeleteType ==
    ASSUME TypeOK, NEW t \in Tasks, DeleteStep(t)
    PROVE  TypeOK'
<1> USE TypeParts
<1>1. CASE DeleteRow(t)
  <2>1. TaskTypes'
    BY <1>1, ReturnType, ContinueType DEF DeleteRow, Steps
  <2>2. row' \in [Servers -> Rows]
    BY <1>1 DEF DeleteRow, RemoveRow, StoreTypes, Rows
  <2>3. lapsed' \subseteq Servers
    BY <1>1 DEF DeleteRow, ConnTypes
  <2> QED
    BY <1>1, <2>1, <2>2, <2>3 DEF DeleteRow, TypeOK, TaskTypes
<1>2. CASE DeleteCache(t)
  <2>1. TaskTypes'
    BY <1>2, ReturnType, ContinueType DEF DeleteCache, Steps
  <2>2. cache' \in [Servers -> {None} \cup SUBSET Tasks]
    BY <1>2 DEF DeleteCache, ForgetListing, StoreTypes
  <2> QED
    BY <1>2, <2>1, <2>2 DEF DeleteCache, TypeOK, TaskTypes, connVars
<1>3. CASE DeleteSecret(t)
  <2>1. TaskTypes'
    BY <1>3, ReturnType DEF DeleteSecret
  <2>2. secret' \in [Servers -> SUBSET Tasks]
    BY <1>3 DEF DeleteSecret, StoreTypes
  <2> QED
    BY <1>3, <2>1, <2>2 DEF DeleteSecret, TypeOK, TaskTypes, connVars
<1> QED
  BY <1>1, <1>2, <1>3 DEF DeleteStep

LEMMA AbandonType ==
    ASSUME TypeOK, NEW t \in Tasks, Abandon(t)
    PROVE  TypeOK'
<1> USE TypeParts
<1>1. TaskTypes'
  BY ReturnType DEF Abandon
<1>2. lapsed' \subseteq Servers
  BY DEF Abandon, ConnTypes, TaskTypes
<1> QED
  BY <1>1, <1>2 DEF Abandon, TypeOK, TaskTypes, storeVars

LEMMA CallersAreTasks == Callers \subseteq Tasks
BY RegistryAssumption

LEMMA InitType == Init => TypeOK
BY DEF Init, TypeOK, Rows, Errors, Steps, AllOps

LEMMA NextType == TypeOK /\ [Next]_vars => TypeOK'
<1> SUFFICES ASSUME TypeOK, [Next]_vars PROVE TypeOK'
  OBVIOUS
<1>1. ASSUME NEW t \in Callers, NEW o \in CallerOps, NEW s \in Servers,
             Begin(t, o, s)
      PROVE  TypeOK'
  BY <1>1, BeginType
<1>2. ASSUME NEW t \in Tasks, TaskStep(t) PROVE TypeOK'
  BY <1>2, ConnectType, DisconnectType, SetEnabledType, CredentialType,
     DeleteType DEF TaskStep
<1>3. ASSUME NEW t \in Tasks, NEW answer \in Worlds, Shake(t, answer)
      PROVE  TypeOK'
  BY <1>3, ShakeType
<1>4. ASSUME NEW t \in Callers, Abandon(t) PROVE TypeOK'
  BY <1>4, AbandonType, CallersAreTasks
<1>5. CASE UNCHANGED vars
  BY <1>5 DEF vars, TypeOK
<1> QED
  BY <1>1, <1>2, <1>3, <1>4, <1>5 DEF Next

\* The rows, secrets and cached listings, the two maps of Connections and every
\* task's locals keep their shapes through every operation, in any interleaving.
\* (registry/connections/types.rs, registry/ops/types.rs)
THEOREM TypeCorrect == Spec => []TypeOK
BY InitType, NextType, PTL DEF Spec

-----------------------------------------------------------------------------
(* No session of a disabled server goes unwatched.                          *)

Watching == {"cache", "recheck", "unmap"}

\* A step of `t` leaves the other tasks where they are.
OthersStay(t) ==
    \A u \in Tasks \ {t} : pc'[u] = pc[u] /\ srv'[u] = srv[u]

LEMMA GotoStays ==
    ASSUME TypeOK, NEW t \in Tasks, NEW step, Goto(t, step), srv' = srv
    PROVE  OthersStay(t) /\ pc'[t] = step
BY DEF TypeOK, Goto, OthersStay

LEMMA ReturnStays ==
    ASSUME TypeOK, NEW t \in Tasks, Return(t)
    PROVE  OthersStay(t)
BY GotoStays DEF Return

LEMMA ContinueStays ==
    ASSUME TypeOK, NEW t \in Tasks, NEW step, Continue(t, step)
    PROVE  OthersStay(t) /\ pc'[t] = step /\ srv' = srv
BY GotoStays DEF Continue

LEMMA ForgetStays ==
    ASSUME TypeOK, NEW t \in Tasks, NEW step, Forget(t, step)
    PROVE  OthersStay(t) /\ pc'[t] = step /\ srv' = srv
BY GotoStays DEF Forget

\* A server whose watch was cut short stays on record while it is off.
LapseStays(s) == s \in lapsed /\ row'[s] = "off" => s \in lapsed'

\* A step of a task that was not watching anything, that makes no session and
\* turns no server off, leaves every session as well watched as it was.
LEMMA QuietStep ==
    ASSUME DisabledIsCondemned, NEW t \in Tasks, OthersStay(t),
           pc[t] \notin Watching, live' = live,
           \A s \in Servers : row'[s] = "off" => row[s] = "off",
           \A s \in Servers : LapseStays(s)
    PROVE  DisabledIsCondemned'
<1> SUFFICES ASSUME NEW s \in Servers, row'[s] = "off", live'[s] # None,
                    s \notin lapsed'
             PROVE  \E u \in Tasks : srv'[u] = s /\ pc'[u] \in Watching
  BY DEF DisabledIsCondemned, Condemned, Watching
<1>1. PICK u \in Tasks : srv[u] = s /\ pc[u] \in Watching
  BY DEF DisabledIsCondemned, Condemned, Watching, LapseStays
<1>2. u # t
  BY <1>1
<1> QED
  BY <1>1, <1>2 DEF OthersStay

\* The usual case: nothing but the task's own state and the store changes.
LEMMA AsideStep ==
    ASSUME DisabledIsCondemned, NEW t \in Tasks, OthersStay(t),
           pc[t] \notin Watching, live' = live, row' = row, lapsed' = lapsed
    PROVE  DisabledIsCondemned'
BY QuietStep DEF LapseStays

\* A step that looks at one server only.
ElsewhereSame(t) ==
    \A s \in Servers \ {srv[t]} :
        live'[s] = live[s] /\ row'[s] = row[s] /\ LapseStays(s)

\* A step that leaves its task watching its server is enough for that server.
LEMMA WatchfulStep ==
    ASSUME DisabledIsCondemned, NEW t \in Tasks, OthersStay(t),
           srv'[t] = srv[t], pc'[t] \in Watching, ElsewhereSame(t)
    PROVE  DisabledIsCondemned'
<1> SUFFICES ASSUME NEW s \in Servers, row'[s] = "off", live'[s] # None,
                    s \notin lapsed'
             PROVE  \E u \in Tasks : srv'[u] = s /\ pc'[u] \in Watching
  BY DEF DisabledIsCondemned, Condemned, Watching
<1>1. CASE s = srv[t]
  BY <1>1
<1>2. CASE s # srv[t]
  <2>1. PICK u \in Tasks : srv[u] = s /\ pc[u] \in Watching
    BY <1>2 DEF DisabledIsCondemned, Condemned, Watching, ElsewhereSame, LapseStays
  <2>2. u # t
    BY <1>2, <2>1
  <2> QED
    BY <2>1, <2>2 DEF OthersStay
<1> QED
  BY <1>1, <1>2

\* A step after which its server is not off, has no session, or is on record as
\* cut short, may leave.
LEMMA SettledStep ==
    ASSUME DisabledIsCondemned, NEW t \in Tasks, OthersStay(t),
           row'[srv[t]] # "off" \/ live'[srv[t]] = None \/ srv[t] \in lapsed',
           ElsewhereSame(t)
    PROVE  DisabledIsCondemned'
<1> SUFFICES ASSUME NEW s \in Servers, row'[s] = "off", live'[s] # None,
                    s \notin lapsed'
             PROVE  \E u \in Tasks : srv'[u] = s /\ pc'[u] \in Watching
  BY DEF DisabledIsCondemned, Condemned, Watching
<1>1. s # srv[t]
  OBVIOUS
<1>2. PICK u \in Tasks : srv[u] = s /\ pc[u] \in Watching
  BY <1>1 DEF DisabledIsCondemned, Condemned, Watching, ElsewhereSame, LapseStays
<1>3. u # t
  BY <1>1, <1>2
<1> QED
  BY <1>2, <1>3 DEF OthersStay

LEMMA BeginCondemned ==
    ASSUME TypeOK, DisabledIsCondemned, NEW t \in Callers,
           NEW o \in CallerOps, NEW s \in Servers, Begin(t, o, s)
    PROVE  DisabledIsCondemned'
<1>1. t \in Tasks
  BY RegistryAssumption
<1>2. OthersStay(t)
  BY <1>1 DEF Begin, Goto, TypeOK, OthersStay
<1>3. pc[t] \notin Watching
  BY DEF Begin, Watching
<1>4. UNCHANGED <<row, live, lapsed>>
  BY DEF Begin, storeVars, connVars
<1> QED
  BY <1>1, <1>2, <1>3, <1>4, AsideStep

\* A connect that has put its session in the map is bound to look at the row.
LEMMA ConnectCondemned ==
    ASSUME TypeOK, DisabledIsCondemned, NEW t \in Tasks, ConnectStep(t)
    PROVE  DisabledIsCondemned'
<1>1. CASE Admit(t)
  <2>1. OthersStay(t) /\ pc[t] \notin Watching /\ UNCHANGED <<row, live, lapsed>>
    BY <1>1, ReturnStays, ContinueStays
       DEF Admit, Watching, storeVars, connVars
  <2> QED
    BY <2>1, AsideStep
<1>2. CASE Dial(t)
  <2>1. OthersStay(t) /\ pc[t] \notin Watching /\ UNCHANGED <<row, live, lapsed>>
    BY <1>2, GotoStays DEF Dial, Watching, storeVars, connVars
  <2> QED
    BY <2>1, AsideStep
<1>3. CASE PutCache(t)
  <2>1. OthersStay(t) /\ pc'[t] = "recheck" /\ srv' = srv
    BY <1>3, ForgetStays DEF PutCache
  <2>2. UNCHANGED <<row, live, lapsed>>
    BY <1>3 DEF PutCache, connVars
  <2> QED
    BY <2>1, <2>2, WatchfulStep DEF Watching, ElsewhereSame, LapseStays
<1>4. CASE Recheck(t)
  <2>1. PICK e \in {RecheckError(srv[t])} \cup (IF StoreFaults THEN {"store"} ELSE {}) :
           Goto(t, IF e = "none" THEN "record" ELSE "unmap")
    BY <1>4 DEF Recheck
  <2>2. UNCHANGED <<row, live, lapsed, srv>>
    BY <1>4 DEF Recheck, storeVars, connVars
  <2>3. OthersStay(t) /\ pc'[t] = (IF e = "none" THEN "record" ELSE "unmap")
    BY <2>1, <2>2, GotoStays
  <2>4. CASE e = "none"
    <3>1. srv[t] \in Servers /\ row[srv[t]] \in Rows
      BY DEF TypeOK
    <3>2. row[srv[t]] = "on"
      BY <2>1, <2>4, <3>1 DEF RecheckError, Rows
    <3> QED
      BY <2>2, <2>3, <3>2, SettledStep DEF ElsewhereSame, LapseStays
  <2>5. CASE e # "none"
    BY <2>2, <2>3, <2>5, WatchfulStep DEF Watching, ElsewhereSame, LapseStays
  <2> QED
    BY <2>4, <2>5
<1>5. CASE Record(t)
  <2>1. OthersStay(t) /\ pc[t] \notin Watching /\ UNCHANGED <<row, live, lapsed>>
    BY <1>5, ReturnStays, ContinueStays DEF Record, Watching, storeVars
  <2> QED
    BY <2>1, AsideStep
<1> QED
  BY <1>1, <1>2, <1>3, <1>4, <1>5 DEF ConnectStep

LEMMA ShakeCondemned ==
    ASSUME TypeOK, DisabledIsCondemned, NEW t \in Tasks,
           NEW answer \in Worlds, Shake(t, answer)
    PROVE  DisabledIsCondemned'
<1>1. row' = row
  BY DEF Shake, storeVars
<1>2. CASE answer \notin DialErrs
  <2>1. OthersStay(t) /\ pc'[t] = "cache" /\ srv' = srv
    BY <1>2, ContinueStays DEF Shake
  <2>2. ElsewhereSame(t)
    BY <1>1, <1>2 DEF Shake, TypeOK, ElsewhereSame, LapseStays
  <2> QED
    BY <2>1, <2>2, WatchfulStep DEF Watching
<1>3. CASE answer \in DialErrs
  <2>1. OthersStay(t) /\ pc[t] \notin Watching
    BY <1>3, GotoStays DEF Shake, Watching
  <2>2. live' = live /\ lapsed' = lapsed
    BY <1>3 DEF Shake
  <2> QED
    BY <1>1, <2>1, <2>2, AsideStep
<1> QED
  BY <1>2, <1>3

\* A disconnect may stop watching once it has emptied the map.
LEMMA DisconnectCondemned ==
    ASSUME TypeOK, DisabledIsCondemned, NEW t \in Tasks, DisconnectStep(t)
    PROVE  DisabledIsCondemned'
<1>1. CASE Unmap(t)
  <2>1. OthersStay(t)
    BY <1>1, ContinueStays DEF Unmap
  <2>2. srv[t] \in Servers /\ row' = row /\ live' = [live EXCEPT ![srv[t]] = None]
    BY <1>1 DEF Unmap, storeVars, TypeOK
  <2>3. live'[srv[t]] = None
    BY <2>2 DEF TypeOK
  <2>4. ElsewhereSame(t)
    BY <1>1, <2>2 DEF Unmap, TypeOK, ElsewhereSame, LapseStays
  <2> QED
    BY <2>1, <2>2, <2>3, <2>4, SettledStep
<1>2. CASE Clear(t)
  <2>1. OthersStay(t) /\ pc[t] \notin Watching /\ UNCHANGED <<row, live, lapsed>>
    BY <1>2, ReturnStays, ContinueStays DEF Clear, Watching, storeVars, connVars
  <2> QED
    BY <2>1, AsideStep
<1> QED
  BY <1>1, <1>2 DEF DisconnectStep

\* The task that turns a server off goes on to disconnect it.
LEMMA SetEnabledCondemned ==
    ASSUME TypeOK, DisabledIsCondemned, NEW t \in Tasks, SetEnabledStep(t)
    PROVE  DisabledIsCondemned'
<1>1. CASE Check(t)
  <2>1. OthersStay(t) /\ pc[t] \notin Watching /\ UNCHANGED <<row, live, lapsed>>
    BY <1>1, ReturnStays, ContinueStays DEF Check, Watching, storeVars, connVars
  <2> QED
    BY <2>1, AsideStep
<1>2. CASE Write(t)
  <2>1. srv[t] \in Servers /\ live' = live /\ pc[t] \notin Watching
    BY <1>2 DEF Write, TypeOK, Watching
  <2>2. \A s \in Servers : LapseStays(s)
    BY <1>2 DEF Write, LapseStays
  <2>3. \A s \in Servers \ {srv[t]} : row'[s] = row[s]
    BY <1>2, <2>1 DEF Write, UpdateRow, TypeOK
  <2>4. ElsewhereSame(t)
    BY <2>1, <2>2, <2>3 DEF ElsewhereSame
  <2>5. CASE Continue(t, "unmap")
    BY <2>4, <2>5, ContinueStays, WatchfulStep DEF Watching
  <2>6. CASE op[t] = "enable" /\ UpdateRow(srv[t], Setting(t)) /\ Return(t)
    <3>1. row'[srv[t]] # "off"
      BY <2>1, <2>6 DEF UpdateRow, Setting, TypeOK
    <3> QED
      BY <2>4, <2>6, <3>1, ReturnStays, SettledStep
  <2>7. CASE Return(t) /\ (row[srv[t]] = "on" /\ row'[srv[t]] = "off" /\ live[srv[t]] # None
                           => srv[t] \in lapsed')
    <3>1. OthersStay(t)
      BY <2>7, ReturnStays
    <3>2. row[srv[t]] = "off" \/ row[srv[t]] = "on" \/ row'[srv[t]] # "off"
      BY <1>2, <2>1 DEF Write, UpdateRow, TypeOK, Rows
    <3>3. CASE row[srv[t]] = "off"
      BY <2>1, <2>2, <2>3, <3>1, <3>3, QuietStep
    <3>4. CASE row[srv[t]] = "on" \/ row'[srv[t]] # "off"
      BY <2>1, <2>4, <2>7, <3>1, <3>4, SettledStep
    <3> QED
      BY <3>2, <3>3, <3>4
  <2> QED
    BY <1>2, <2>1, <2>5, <2>6, <2>7 DEF Write
<1>3. CASE ClearError(t)
  <2>1. OthersStay(t) /\ pc[t] \notin Watching /\ UNCHANGED <<row, live, lapsed>>
    BY <1>3, ContinueStays DEF ClearError, Watching, storeVars, connVars
  <2> QED
    BY <2>1, AsideStep
<1> QED
  BY <1>1, <1>2, <1>3 DEF SetEnabledStep

LEMMA CredentialCondemned ==
    ASSUME TypeOK, DisabledIsCondemned, NEW t \in Tasks, CredentialStep(t)
    PROVE  DisabledIsCondemned'
<1>1. CASE Find(t)
  <2>1. OthersStay(t) /\ pc[t] \notin Watching /\ UNCHANGED <<row, live, lapsed>>
    BY <1>1, ReturnStays, ContinueStays DEF Find, Watching, storeVars, connVars
  <2> QED
    BY <2>1, AsideStep
<1>2. CASE Load(t)
  <2>1. OthersStay(t) /\ pc[t] \notin Watching /\ UNCHANGED <<row, live, lapsed>>
    BY <1>2, ReturnStays, GotoStays DEF Load, Watching, storeVars, connVars
  <2> QED
    BY <2>1, AsideStep
<1>3. CASE StoreSecret(t)
  <2>1. OthersStay(t) /\ pc[t] \notin Watching /\ UNCHANGED <<row, live, lapsed>>
    BY <1>3, ReturnStays, ForgetStays DEF StoreSecret, Watching, storeVars, connVars
  <2> QED
    BY <2>1, AsideStep
<1>4. CASE Uncache(t)
  <2>1. OthersStay(t) /\ pc[t] \notin Watching /\ UNCHANGED <<row, live, lapsed>>
    BY <1>4, ReturnStays, ContinueStays DEF Uncache, Watching, storeVars, connVars
  <2> QED
    BY <2>1, AsideStep
<1>5. CASE Reread(t)
  <2>1. OthersStay(t) /\ pc[t] \notin Watching /\ UNCHANGED <<row, live, lapsed>>
    BY <1>5, ReturnStays, ContinueStays DEF Reread, Watching, storeVars, connVars
  <2> QED
    BY <2>1, AsideStep
<1> QED
  BY <1>1, <1>2, <1>3, <1>4, <1>5 DEF CredentialStep

LEMMA DeleteCondemned ==
    ASSUME TypeOK, DisabledIsCondemned, NEW t \in Tasks, DeleteStep(t)
    PROVE  DisabledIsCondemned'
<1>1. CASE DeleteRow(t)
  <2>1. OthersStay(t) /\ pc[t] \notin Watching /\ live' = live
    BY <1>1, ReturnStays, ContinueStays DEF DeleteRow, Watching
  <2>2. \A s \in Servers : row'[s] = "off" => row[s] = "off"
    BY <1>1 DEF DeleteRow, RemoveRow, TypeOK
  <2>3. \A s \in Servers : LapseStays(s)
    BY <1>1 DEF DeleteRow, LapseStays
  <2> QED
    BY <2>1, <2>2, <2>3, QuietStep
<1>2. CASE DeleteCache(t)
  <2>1. OthersStay(t) /\ pc[t] \notin Watching /\ UNCHANGED <<row, live, lapsed>>
    BY <1>2, ReturnStays, ContinueStays DEF DeleteCache, Watching, storeVars, connVars
  <2> QED
    BY <2>1, AsideStep
<1>3. CASE DeleteSecret(t)
  <2>1. OthersStay(t) /\ pc[t] \notin Watching /\ UNCHANGED <<row, live, lapsed>>
    BY <1>3, ReturnStays DEF DeleteSecret, Watching, storeVars, connVars
  <2> QED
    BY <2>1, AsideStep
<1> QED
  BY <1>1, <1>2, <1>3 DEF DeleteStep

\* A task that is dropped on its way into a disconnect goes on record.
LEMMA AbandonCondemned ==
    ASSUME TypeOK, DisabledIsCondemned, NEW t \in Tasks, Abandon(t)
    PROVE  DisabledIsCondemned'
<1>1. OthersStay(t) /\ row' = row /\ live' = live
  BY ReturnStays DEF Abandon, storeVars
<1>2. \A s \in Servers : LapseStays(s)
  BY DEF Abandon, LapseStays
<1>3. CASE pc[t] = "unmap"
  <2>1. srv[t] \in Servers
    BY DEF TypeOK
  <2>2. row'[srv[t]] # "off" \/ live'[srv[t]] = None \/ srv[t] \in lapsed'
    BY <1>1, <1>3, <2>1 DEF Abandon
  <2> QED
    BY <1>1, <1>2, <2>1, <2>2, SettledStep DEF ElsewhereSame
<1>4. CASE pc[t] # "unmap"
  <2>1. pc[t] \notin Watching
    BY <1>4 DEF Abandon, Awaits, Watching
  <2> QED
    BY <1>1, <1>2, <2>1, QuietStep
<1> QED
  BY <1>3, <1>4

LEMMA InitCondemned == Init => DisabledIsCondemned
BY DEF Init, DisabledIsCondemned

LEMMA NextCondemned ==
    TypeOK /\ DisabledIsCondemned /\ [Next]_vars => DisabledIsCondemned'
<1> SUFFICES ASSUME TypeOK, DisabledIsCondemned, [Next]_vars
             PROVE  DisabledIsCondemned'
  OBVIOUS
<1>1. ASSUME NEW t \in Callers, NEW o \in CallerOps, NEW s \in Servers,
             Begin(t, o, s)
      PROVE  DisabledIsCondemned'
  BY <1>1, BeginCondemned
<1>2. ASSUME NEW t \in Tasks, TaskStep(t) PROVE DisabledIsCondemned'
  BY <1>2, ConnectCondemned, DisconnectCondemned, SetEnabledCondemned,
     CredentialCondemned, DeleteCondemned DEF TaskStep
<1>3. ASSUME NEW t \in Tasks, NEW answer \in Worlds, Shake(t, answer)
      PROVE  DisabledIsCondemned'
  BY <1>3, ShakeCondemned
<1>4. ASSUME NEW t \in Callers, Abandon(t) PROVE DisabledIsCondemned'
  BY <1>4, AbandonCondemned, CallersAreTasks
<1>5. CASE UNCHANGED vars
  BY <1>5 DEF vars, DisabledIsCondemned, Condemned
<1> QED
  BY <1>1, <1>2, <1>3, <1>4, <1>5 DEF Next

\* At every moment a session of a disabled server has a task bound to take it
\* down: the connect that made it has its recheck to come, or a disconnect is
\* on its way.  Where it has none, a set_enabled reported an error after it had
\* written the row, or a caller dropped the operation at the door of the
\* disconnect, and no disconnect came since.
\* (connections/types.rs:190-203, ops/types.rs:423-430)
THEOREM DisabledSessionsAreWatched == Spec => []DisabledIsCondemned
BY InitCondemned, NextCondemned, TypeCorrect, PTL DEF Spec

\* Once every operation on a disabled server has returned, it has no session,
\* with the same exception.  (connections/types.rs:190-203,
\* ops/types.rs:423-430)
THEOREM DisabledStaysDisconnected == Spec => []DisabledHasNoSession
<1>1. DisabledIsCondemned => DisabledHasNoSession
  BY DEF DisabledIsCondemned, Condemned, DisabledHasNoSession, Working
<1> QED
  BY <1>1, DisabledSessionsAreWatched, PTL

-----------------------------------------------------------------------------
(* Uninstalled identifiers. *)

LEMMA RowWriters ==
    ASSUME NEW t \in Tasks, TaskStep(t), row' # row
    PROVE  Write(t) \/ DeleteRow(t)
BY DEF TaskStep, ConnectStep, DisconnectStep, SetEnabledStep, CredentialStep,
       DeleteStep, Admit, Dial, PutCache, Recheck, Record, Unmap, Clear, Check,
       ClearError, Find, Load, StoreSecret, Uncache, Reread, DeleteCache,
       DeleteSecret, storeVars

\* An identifier that was uninstalled never comes back, whatever updates of its
\* row were in flight.  (store/types.rs:512-534)
THEOREM UninstalledStaysUninstalled == Spec => UninstallIsFinal
<1>1. TypeOK /\ [Next]_vars
        => [\A s \in Servers : row[s] = "absent" => row'[s] = "absent"]_vars
  <2> SUFFICES ASSUME TypeOK, Next, NEW s \in Servers, row[s] = "absent"
               PROVE  row'[s] = "absent"
    BY DEF vars
  <2>1. CASE row' = row
    BY <2>1
  <2>2. CASE row' # row
    <3>1. PICK t \in Tasks : Write(t) \/ DeleteRow(t)
      BY <2>2, RowWriters DEF Next, Begin, Shake, Abandon, storeVars
    <3>2. CASE Write(t)
      BY <3>2 DEF Write, UpdateRow, TypeOK
    <3>3. CASE DeleteRow(t)
      BY <3>3 DEF DeleteRow, RemoveRow, TypeOK
    <3> QED
      BY <3>1, <3>2, <3>3
  <2> QED
    BY <2>1, <2>2
<1> QED
  BY <1>1, TypeCorrect, PTL DEF Spec, UninstallIsFinal

-----------------------------------------------------------------------------
(* Supervisor: the types. *)

PenaltyTypes ==
    /\ backoff \in [Servers -> {None} \cup Penalty]
    /\ timeouts \in [Servers -> 0..(TeardownRun - 1)]
    /\ terminal \subseteq Servers

CycleTypes == todo \subseteq Servers /\ enabled \subseteq Servers

EnvTypes ==
    /\ world \in [Servers -> Worlds]
    /\ dropped \subseteq Servers
    /\ probeLost \in BOOLEAN

LEMMA SupTypeParts ==
    SupTypeOK <=> TypeOK /\ PenaltyTypes /\ CycleTypes /\ EnvTypes
BY Zenon DEF SupTypeOK, PenaltyTypes, CycleTypes, EnvTypes

-----------------------------------------------------------------------------
(* Delays. *)

\* The smaller of two numbers.
LEMMA MinOfTwo ==
    ASSUME NEW a \in Nat, NEW b \in Nat
    PROVE  Min({a, b}) \in {a, b} /\ Min({a, b}) <= a /\ Min({a, b}) <= b
<1>1. \E x \in {a, b} : \A y \in {a, b} : x <= y
  OBVIOUS
<1> QED
  BY <1>1 DEF Min

\* The larger of two numbers.
LEMMA MaxOfTwo ==
    ASSUME NEW a \in Int, NEW b \in Int
    PROVE  Max({a, b}) \in {a, b} /\ Max({a, b}) >= a /\ Max({a, b}) >= b
<1>1. \E x \in {a, b} : \A y \in {a, b} : x >= y
  OBVIOUS
<1> QED
  BY <1>1 DEF Max

\* A delay is never longer than the longest one.
LEMMA DelayBounded ==
    ASSUME NEW n \in 0..FailureCap
    PROVE  Delay(n) \in 0..BackoffMax
<1> USE SupervisorAssumption
<1>1. CASE n = 0
  BY <1>1 DEF Delay
<1>2. CASE n # 0
  <2>1. n - 1 \in 0..FailureCap
    BY <1>2
  <2>2. 2^(n - 1) \in Nat
    BY <2>1, PowersOfTwo
  <2>3. BackoffBase * 2^(n - 1) \in Nat
    BY <2>2
  <2> QED
    BY <1>2, <2>3, MinOfTwo DEF Delay
<1> QED
  BY <1>1, <1>2

\* A failed attempt leaves a penalty.
LEMMA FailedIsPenalty ==
    ASSUME NEW p \in Penalty
    PROVE  Failed(p) \in Penalty
<1> USE SupervisorAssumption
<1>1. p.failures + 1 \in Nat
  BY DEF Penalty
<1> DEFINE n == Min({p.failures + 1, FailureCap})
<1>2. n \in 0..FailureCap
  BY <1>1, MinOfTwo
<1>3. Delay(n) \in 0..BackoffMax
  BY <1>2, DelayBounded
<1> HIDE DEF n
<1>4. [failures |-> n, wait |-> Delay(n)] \in Penalty
  BY <1>2, <1>3 DEF Penalty
<1> QED
  BY <1>4 DEF Failed, n

\* A tick shortens a penalty and keeps it.
LEMMA ShorterIsPenalty ==
    ASSUME NEW p \in Penalty
    PROVE  [p EXCEPT !.wait = Max({@ - TickInterval, 0})] \in Penalty
<1> USE SupervisorAssumption
<1>1. p.wait \in 0..BackoffMax /\ p.wait - TickInterval \in Int
  BY DEF Penalty
<1>2. Max({p.wait - TickInterval, 0}) \in 0..BackoffMax
  <2> DEFINE d == p.wait - TickInterval
  <2>1. d \in Int /\ d <= BackoffMax
    BY <1>1
  <2> HIDE DEF d
  <2>2. Max({d, 0}) \in {d, 0} /\ Max({d, 0}) >= 0
    BY <2>1, MaxOfTwo
  <2> QED
    BY <2>1, <2>2 DEF d
<1>3. ASSUME NEW x \in 0..BackoffMax PROVE [p EXCEPT !.wait = x] \in Penalty
  BY DEF Penalty
<1> QED
  BY <1>2, <1>3

-----------------------------------------------------------------------------
(* The invariant. *)

\* The supervisor's task runs a cycle whenever it is busy, and a cycle takes it
\* through these steps only.
CycleSteps == {"visit", "probe", "gate", "dial", "shake", "cache", "recheck",
               "record", "unmap", "clear", "verdict"}

InCycle ==
    /\ pc[Sup] = "idle" \/ (pc[Sup] \in CycleSteps /\ op[Sup] = "tick")
    /\ pc[Sup] \in {"idle", "visit", "probe", "gate"} => err[Sup] = "none"

\* The supervisor is between the gate it opened and the verdict.  A disconnect
\* without an error is the end of a session whose probe failed.
Attempting ==
    \/ pc[Sup] \in {"dial", "shake", "cache", "recheck", "record", "verdict"}
    \/ pc[Sup] \in {"unmap", "clear"} /\ err[Sup] # "none"

\* An attempt holds a penalty entry, of a server that is not parked.
AttemptHoldsEntry ==
    Attempting => backoff[Probed] \in Penalty /\ Probed \notin terminal

SupervisorInv ==
    /\ SupTypeOK
    /\ InCycle
    /\ AttemptHoldsEntry
    /\ ParkedCarriesNoPenalty
    /\ DisabledIsCondemned

-----------------------------------------------------------------------------
(* The operations' own steps, by the registry's lemmas on TypeOK and         *)
(* DisabledIsCondemned.                                                      *)

LEMMA OperateType ==
    ASSUME TypeOK, NEW t \in Tasks, TaskStep(t)
    PROVE  TypeOK'
BY ConnectType, DisconnectType, SetEnabledType, CredentialType, DeleteType
   DEF TaskStep

LEMMA OperateCondemned ==
    ASSUME TypeOK, DisabledIsCondemned, NEW t \in Tasks, TaskStep(t)
    PROVE  DisabledIsCondemned'
BY ConnectCondemned, DisconnectCondemned, SetEnabledCondemned,
   CredentialCondemned, DeleteCondemned DEF TaskStep

\* What the supervisor's locals say about its cycle.
SupLocals == <<pc[Sup], op[Sup], srv[Sup], err[Sup]>>

LEMMA SupIsTask == Sup \in Tasks /\ Sup \notin Callers
BY SupervisorAssumption

\* The steps of another task leave the supervisor's locals alone.
LEMMA OtherReturns ==
    ASSUME TypeOK, NEW t \in Tasks, t # Sup,
           \/ Return(t)
           \/ \E step : Continue(t, step) \/ Forget(t, step)
    PROVE  UNCHANGED SupLocals
BY SupIsTask DEF TypeOK, Return, Continue, Forget, Goto, SupLocals

LEMMA OtherConnects ==
    ASSUME TypeOK, NEW t \in Tasks, t # Sup, ConnectStep(t)
    PROVE  UNCHANGED SupLocals
<1> USE SupIsTask
<1>1. CASE Admit(t)
  BY <1>1, OtherReturns DEF Admit
<1>2. CASE Dial(t)
  BY <1>2 DEF Dial, Goto, TypeOK, SupLocals
<1>3. CASE PutCache(t)
  BY <1>3, OtherReturns DEF PutCache
<1>4. CASE Recheck(t)
  BY <1>4 DEF Recheck, Goto, TypeOK, SupLocals
<1>5. CASE Record(t)
  BY <1>5, OtherReturns DEF Record
<1> QED
  BY <1>1, <1>2, <1>3, <1>4, <1>5 DEF ConnectStep

LEMMA OtherOperates ==
    ASSUME TypeOK, NEW t \in Tasks, t # Sup, TaskStep(t)
    PROVE  UNCHANGED SupLocals
<1> USE SupIsTask
<1>1. CASE ConnectStep(t)
  BY <1>1, OtherConnects
<1>2. CASE DisconnectStep(t)
  BY <1>2, OtherReturns DEF DisconnectStep, Unmap, Clear
<1>3. CASE SetEnabledStep(t)
  BY <1>3, OtherReturns DEF SetEnabledStep, Check, Write, ClearError
<1>4. CASE CredentialStep(t)
  <2>1. CASE Load(t) /\ ~Return(t)
    BY <2>1 DEF Load, Goto, TypeOK, SupLocals
  <2> QED
    BY <1>4, <2>1, OtherReturns
       DEF CredentialStep, Find, Load, StoreSecret, Uncache, Reread
<1>5. CASE DeleteStep(t)
  BY <1>5, OtherReturns DEF DeleteStep, DeleteRow, DeleteCache, DeleteSecret
<1> QED
  BY <1>1, <1>2, <1>3, <1>4, <1>5 DEF TaskStep

LEMMA OtherAnswers ==
    ASSUME TypeOK, NEW t \in Tasks, t # Sup, NEW answer, Shake(t, answer)
    PROVE  UNCHANGED SupLocals
BY SupIsTask DEF Shake, Continue, Goto, TypeOK, SupLocals

\* The supervisor's own steps inside an operation keep to its cycle and lead
\* into an attempt from nowhere but an attempt.
LEMMA SupOperates ==
    ASSUME TypeOK, InCycle, TaskStep(Sup)
    PROVE  InCycle' /\ srv'[Sup] = srv[Sup] /\ (Attempting' => Attempting)
<1> USE SupIsTask
<1>1. pc[Sup] \in CycleSteps /\ op[Sup] = "tick"
  BY DEF InCycle, TaskStep, ConnectStep, DisconnectStep, SetEnabledStep,
         CredentialStep, DeleteStep, Admit, Dial, PutCache, Recheck, Record,
         Unmap, Clear, Check, Write, ClearError, Find, Load, StoreSecret,
         Uncache, Reread, DeleteRow, DeleteCache, DeleteSecret
<1>2. \/ Dial(Sup) \/ PutCache(Sup) \/ Recheck(Sup) \/ Record(Sup)
      \/ Unmap(Sup) \/ Clear(Sup)
  BY <1>1 DEF CycleSteps, TaskStep, ConnectStep, DisconnectStep,
         SetEnabledStep, CredentialStep, DeleteStep, Admit, Check, Write,
         ClearError, Find, Load, StoreSecret, Uncache, Reread, DeleteRow,
         DeleteCache, DeleteSecret
<1>3. CASE Dial(Sup)
  BY <1>1, <1>3 DEF Dial, Goto, TypeOK, InCycle, CycleSteps, Attempting
<1>4. CASE PutCache(Sup)
  BY <1>1, <1>4 DEF PutCache, Forget, Goto, TypeOK, InCycle, CycleSteps, Attempting
<1>5. CASE Recheck(Sup)
  BY <1>1, <1>5 DEF Recheck, Goto, TypeOK, InCycle, CycleSteps, Attempting
<1>6. CASE Record(Sup)
  BY <1>1, <1>6 DEF Record, Continue, Goto, TypeOK, InCycle, CycleSteps, Attempting
<1>7. CASE Unmap(Sup)
  BY <1>1, <1>7 DEF Unmap, Continue, Goto, TypeOK, InCycle, CycleSteps, Attempting
<1>8. CASE Clear(Sup)
  <2>1. AfterDisconnect(Sup) = IF err[Sup] # "none" THEN "record" ELSE "gate"
    BY <1>1 DEF AfterDisconnect
  <2>2. Continue(Sup, AfterDisconnect(Sup))
    BY <1>8, <2>1 DEF Clear
  <2> QED
    BY <1>1, <1>8, <2>1, <2>2
       DEF Clear, Continue, Goto, TypeOK, InCycle, CycleSteps, Attempting
<1> QED
  BY <1>2, <1>3, <1>4, <1>5, <1>6, <1>7, <1>8

LEMMA SupAnswered ==
    ASSUME TypeOK, InCycle, NEW answer, Shake(Sup, answer)
    PROVE  InCycle' /\ srv'[Sup] = srv[Sup] /\ (Attempting' => Attempting)
BY SupIsTask DEF Shake, Continue, Goto, TypeOK, InCycle, CycleSteps, Attempting

\* So whoever takes it, an operation's step keeps the invariant.
LEMMA LocalsDecide ==
    ASSUME InCycle, AttemptHoldsEntry, UNCHANGED <<backoff, terminal>>,
           \/ UNCHANGED SupLocals
           \/ InCycle' /\ srv'[Sup] = srv[Sup] /\ (Attempting' => Attempting)
    PROVE  InCycle' /\ AttemptHoldsEntry'
BY DEF SupLocals, InCycle, Attempting, AttemptHoldsEntry, Probed

LEMMA OperateSafe ==
    ASSUME SupervisorInv, NEW t \in Tasks, Operate(t)
    PROVE  SupervisorInv'
<1> USE DEF SupervisorInv
<1>1. TypeOK /\ TaskStep(t) /\ UNCHANGED <<supVars, world>>
  BY DEF Operate, SupTypeOK
<1>2. TypeOK'
  BY <1>1, OperateType
<1>3. DisabledIsCondemned'
  BY <1>1, OperateCondemned
<1>4. InCycle' /\ AttemptHoldsEntry'
  BY <1>1, OtherOperates, SupOperates, LocalsDecide DEF supVars
<1>5. ParkedCarriesNoPenalty'
  BY <1>1 DEF ParkedCarriesNoPenalty, supVars
<1>6. EnvTypes'
  BY <1>1, SupTypeParts DEF Operate, EnvTypes
<1>7. PenaltyTypes' /\ CycleTypes'
  BY <1>1, SupTypeParts DEF PenaltyTypes, CycleTypes, supVars
<1> QED
  BY <1>2, <1>3, <1>4, <1>5, <1>6, <1>7
     DEF SupTypeOK, PenaltyTypes, CycleTypes, EnvTypes

LEMMA AnswerSafe ==
    ASSUME SupervisorInv, NEW t \in Tasks, Answer(t)
    PROVE  SupervisorInv'
<1> USE DEF SupervisorInv
<1>1. TypeOK /\ UNCHANGED <<supVars, world>>
  BY DEF Answer, SupTypeOK
<1>2. world[srv[t]] \in Worlds /\ Shake(t, world[srv[t]])
  BY DEF Answer, SupTypeOK, TypeOK
<1>3. TypeOK'
  BY <1>1, <1>2, ShakeType
<1>4. DisabledIsCondemned'
  BY <1>1, <1>2, ShakeCondemned
<1>5. InCycle' /\ AttemptHoldsEntry'
  BY <1>1, <1>2, OtherAnswers, SupAnswered, LocalsDecide DEF supVars
<1>6. ParkedCarriesNoPenalty'
  BY <1>1 DEF ParkedCarriesNoPenalty, supVars
<1>7. EnvTypes'
  BY <1>1, SupTypeParts DEF Answer, EnvTypes
<1>8. PenaltyTypes' /\ CycleTypes'
  BY <1>1, SupTypeParts DEF PenaltyTypes, CycleTypes, supVars
<1> QED
  BY <1>3, <1>4, <1>5, <1>6, <1>7, <1>8
     DEF SupTypeOK, PenaltyTypes, CycleTypes, EnvTypes

LEMMA RequestSafe ==
    ASSUME SupervisorInv, NEW t \in Callers, NEW o \in CallerOps,
           NEW s \in Servers, Request(t, o, s)
    PROVE  SupervisorInv'
<1> USE DEF SupervisorInv
<1>1. TypeOK /\ Begin(t, o, s) /\ UNCHANGED <<supVars, envVars>>
  BY DEF Request, SupTypeOK
<1>2. TypeOK' /\ DisabledIsCondemned'
  BY <1>1, BeginType, BeginCondemned
<1>3. t \in Tasks /\ t # Sup
  BY SupIsTask, RegistryAssumption
<1>4. UNCHANGED SupLocals
  BY <1>1, <1>3, SupIsTask DEF Begin, Goto, TypeOK, SupLocals
<1>5. InCycle' /\ AttemptHoldsEntry'
  BY <1>1, <1>4, LocalsDecide DEF supVars
<1> QED
  BY <1>1, <1>2, <1>5
     DEF SupTypeOK, ParkedCarriesNoPenalty, supVars, envVars

LEMMA GiveUpSafe ==
    ASSUME SupervisorInv, NEW t \in Callers, GiveUp(t)
    PROVE  SupervisorInv'
<1> USE DEF SupervisorInv
<1>1. TypeOK /\ Abandon(t) /\ UNCHANGED <<supVars, envVars>>
  BY DEF GiveUp, SupTypeOK
<1>2. t \in Tasks /\ t # Sup
  BY SupIsTask, RegistryAssumption
<1>3. TypeOK' /\ DisabledIsCondemned'
  BY <1>1, <1>2, AbandonType, AbandonCondemned
<1>4. UNCHANGED SupLocals
  BY <1>1, <1>2, OtherReturns DEF Abandon
<1>5. InCycle' /\ AttemptHoldsEntry'
  BY <1>1, <1>4, LocalsDecide DEF supVars
<1> QED
  BY <1>1, <1>3, <1>5
     DEF SupTypeOK, ParkedCarriesNoPenalty, supVars, envVars

-----------------------------------------------------------------------------
(* The supervisor's own steps. *)

\* They touch neither the store nor the maps, and only the supervisor's locals.
OwnStep ==
    /\ UNCHANGED <<storeVars, connVars>>
    /\ OthersStay(Sup)
    /\ pc[Sup] \notin Watching

LEMMA OwnStepCondemned ==
    ASSUME DisabledIsCondemned, OwnStep
    PROVE  DisabledIsCondemned'
BY SupIsTask, AsideStep DEF OwnStep, storeVars, connVars

LEMMA OwnStepType ==
    ASSUME TypeOK, UNCHANGED <<storeVars, connVars>>, TaskTypes'
    PROVE  TypeOK'
BY TypeParts DEF StoreTypes, ConnTypes, TaskTypes, TypeOK, storeVars, connVars

\* A step that moves the supervisor on and keeps its other locals.
Moves(step) ==
    /\ Goto(Sup, step)
    /\ UNCHANGED <<storeVars, connVars, op, srv, seen, err>>

LEMMA MoveSafe ==
    ASSUME TypeOK, DisabledIsCondemned, NEW step \in Steps, Moves(step),
           pc[Sup] \notin Watching
    PROVE  TypeOK' /\ DisabledIsCondemned' /\ pc'[Sup] = step
<1> USE SupIsTask
<1>1. OthersStay(Sup) /\ pc'[Sup] = step
  BY GotoStays DEF Moves
<1>2. pc' \in [Tasks -> Steps]
  BY TypeParts, GotoType DEF Moves
<1>3. TypeOK'
  BY <1>2 DEF Moves, TypeOK, storeVars, connVars
<1> QED
  BY <1>1, <1>3, OwnStepCondemned DEF OwnStep, Moves

LEMMA TickStartSafe ==
    ASSUME SupervisorInv, TickStart
    PROVE  SupervisorInv'
<1> USE SupIsTask DEF SupervisorInv
<1>1. TypeOK /\ PenaltyTypes /\ EnvTypes
  BY SupTypeParts
<1>2. OthersStay(Sup) /\ pc'[Sup] = "visit" /\ op'[Sup] = "tick" /\ err'[Sup] = "none"
  BY <1>1 DEF TickStart, TypeOK, OthersStay, InCycle
<1>3. TypeOK'
  BY <1>1 DEF TickStart, TypeOK, Steps, storeVars, connVars
<1>4. DisabledIsCondemned'
  BY <1>2, OwnStepCondemned DEF OwnStep, TickStart, Watching
<1>5. InCycle' /\ AttemptHoldsEntry'
  BY <1>2 DEF InCycle, CycleSteps, AttemptHoldsEntry, Attempting
<1>6. ASSUME NEW s \in Servers
      PROVE  backoff'[s] = None \/ (backoff[s] # None /\ backoff'[s] \in Penalty)
  <2>1. CASE backoff[s] = None
    BY <2>1 DEF TickStart
  <2>2. CASE backoff[s] # None
    <3>1. backoff[s] \in Penalty
      BY <1>1, <2>2 DEF PenaltyTypes
    <3>2. backoff'[s] = [backoff[s] EXCEPT !.wait = Max({@ - TickInterval, 0})]
      BY <2>2 DEF TickStart
    <3> QED
      BY <2>2, <3>1, <3>2, ShorterIsPenalty
  <2> QED
    BY <2>1, <2>2
<1>7. PenaltyTypes'
  <2>1. backoff' \in [Servers -> {None} \cup Penalty]
    BY <1>6, Zenon DEF TickStart
  <2> QED
    BY <1>1, <2>1 DEF PenaltyTypes, TickStart
<1>8. ParkedCarriesNoPenalty'
  BY <1>1, <1>6 DEF ParkedCarriesNoPenalty, PenaltyTypes, TickStart
<1> QED
  BY <1>1, <1>3, <1>4, <1>5, <1>7, <1>8
     DEF SupTypeOK, PenaltyTypes, EnvTypes, TickStart, envVars

LEMMA TickEndSafe ==
    ASSUME SupervisorInv, TickEnd
    PROVE  SupervisorInv'
<1> USE SupIsTask DEF SupervisorInv
<1>1. TypeOK /\ PenaltyTypes /\ EnvTypes /\ TaskTypes
  BY SupTypeParts, TypeParts
<1>2. OthersStay(Sup) /\ pc'[Sup] = "idle" /\ err'[Sup] = "none"
  BY <1>1, ReturnStays DEF TickEnd, Return, Goto, TypeOK
<1>3. TypeOK'
  BY <1>1, ReturnType, OwnStepType DEF TickEnd
<1>4. DisabledIsCondemned'
  BY <1>2, OwnStepCondemned DEF OwnStep, TickEnd, Watching
<1>5. InCycle' /\ AttemptHoldsEntry'
  BY <1>2 DEF InCycle, AttemptHoldsEntry, Attempting
<1> QED
  BY <1>3, <1>4, <1>5
     DEF SupTypeOK, ParkedCarriesNoPenalty, TickEnd, envVars

\* Everything a step that changes no penalty and no parking has to keep.
LEMMA Unpenalised ==
    ASSUME ParkedCarriesNoPenalty, NEW s \in Servers, Unpenalise(s),
           backoff \in [Servers -> {None} \cup Penalty],
           terminal \subseteq Servers, terminal' \subseteq terminal \cup {s}
    PROVE  /\ backoff' \in [Servers -> {None} \cup Penalty]
           /\ ParkedCarriesNoPenalty'
BY DEF ParkedCarriesNoPenalty, Unpenalise

LEMMA VisitDisabledSafe ==
    ASSUME SupervisorInv, NEW s \in Servers, VisitDisabled(s)
    PROVE  SupervisorInv'
<1> USE SupIsTask DEF SupervisorInv
<1>1. PenaltyTypes /\ CycleTypes
  BY SupTypeParts
<1>2. backoff' \in [Servers -> {None} \cup Penalty] /\ ParkedCarriesNoPenalty'
  BY <1>1, Unpenalised DEF VisitDisabled, PenaltyTypes
<1>3. timeouts' \in [Servers -> 0..(TeardownRun - 1)]
  BY <1>1, SupervisorAssumption DEF VisitDisabled, PenaltyTypes
<1>4. terminal' \subseteq Servers /\ todo' \subseteq Servers
  BY <1>1 DEF VisitDisabled, PenaltyTypes, CycleTypes
<1>5. TypeOK' /\ DisabledIsCondemned' /\ InCycle'
  BY DEF VisitDisabled, vars, SupTypeOK, TypeOK, DisabledIsCondemned,
         Condemned, InCycle
<1>6. AttemptHoldsEntry'
  BY DEF VisitDisabled, vars, AttemptHoldsEntry, Attempting
<1> QED
  BY <1>2, <1>3, <1>4, <1>5, <1>6 DEF SupTypeOK, VisitDisabled, envVars

LEMMA VisitEnabledSafe ==
    ASSUME SupervisorInv, NEW s \in Servers, VisitEnabled(s)
    PROVE  SupervisorInv'
<1> USE SupIsTask DEF SupervisorInv
<1>1. TypeOK /\ CycleTypes
  BY SupTypeParts
<1>2. OthersStay(Sup) /\ pc'[Sup] \in {"probe", "gate"} /\ op' = op /\ err' = err
  BY <1>1 DEF VisitEnabled, TypeOK, OthersStay
<1>3. TypeOK'
  BY <1>1 DEF VisitEnabled, TypeOK, Steps, storeVars, connVars
<1>4. DisabledIsCondemned'
  BY <1>2, OwnStepCondemned DEF OwnStep, VisitEnabled, Watching
<1>5. InCycle' /\ AttemptHoldsEntry'
  BY <1>2 DEF VisitEnabled, InCycle, CycleSteps, AttemptHoldsEntry, Attempting
<1>6. todo' \subseteq Servers
  BY <1>1 DEF VisitEnabled, CycleTypes
<1> QED
  BY <1>3, <1>4, <1>5, <1>6 DEF SupTypeOK, ParkedCarriesNoPenalty, VisitEnabled

LEMMA ProbeAliveSafe ==
    ASSUME SupervisorInv, ProbeAlive
    PROVE  SupervisorInv'
<1> USE SupIsTask DEF SupervisorInv
<1>1. TypeOK /\ PenaltyTypes /\ Probed \in Servers
  BY SupTypeParts DEF TypeOK, Probed
<1>2. TypeOK' /\ DisabledIsCondemned' /\ pc'[Sup] = "visit"
  BY <1>1, MoveSafe DEF ProbeAlive, Moves, Goto, Steps, Watching
<1>3. backoff' \in [Servers -> {None} \cup Penalty] /\ ParkedCarriesNoPenalty'
  BY <1>1, Unpenalised DEF ProbeAlive, PenaltyTypes
<1>4. timeouts' \in [Servers -> 0..(TeardownRun - 1)]
  BY <1>1, SupervisorAssumption DEF ProbeAlive, PenaltyTypes
<1>5. InCycle' /\ AttemptHoldsEntry'
  BY <1>2 DEF ProbeAlive, InCycle, CycleSteps, AttemptHoldsEntry, Attempting
<1> QED
  BY <1>2, <1>3, <1>4, <1>5 DEF SupTypeOK, ProbeAlive, envVars

\* A probe that failed moves on to the next server, or to a disconnect without
\* an error, and leaves penalties and parkings alone.
LEMMA ProbeFails ==
    ASSUME SupervisorInv, NEW step \in {"visit", "unmap"}, pc[Sup] = "probe",
           Moves(step), timeouts' \in [Servers -> 0..(TeardownRun - 1)],
           UNCHANGED <<backoff, terminal, todo, enabled, envVars>>
    PROVE  SupervisorInv'
<1> USE SupIsTask DEF SupervisorInv
<1>1. TypeOK /\ step \in Steps
  BY SupTypeParts DEF Steps
<1>2. TypeOK' /\ DisabledIsCondemned' /\ pc'[Sup] = step
  BY <1>1, MoveSafe DEF Watching
<1>3. InCycle' /\ AttemptHoldsEntry'
  BY <1>2 DEF Moves, InCycle, CycleSteps, AttemptHoldsEntry, Attempting
<1> QED
  BY <1>2, <1>3 DEF SupTypeOK, ParkedCarriesNoPenalty, envVars

LEMMA ProbeTimedOutSafe ==
    ASSUME SupervisorInv, ProbeTimedOut
    PROVE  SupervisorInv'
<1> USE SupervisorAssumption DEF SupervisorInv
<1>1. TypeOK /\ PenaltyTypes /\ Probed \in Servers
  BY SupTypeParts, SupIsTask DEF TypeOK, Probed
<1>2. timeouts[Probed] \in 0..(TeardownRun - 1)
  BY <1>1 DEF PenaltyTypes
<1>3. timeouts' \in [Servers -> 0..(TeardownRun - 1)]
  <2>1. CASE timeouts' = [timeouts EXCEPT ![Probed] = 0]
    BY <1>1, <2>1 DEF PenaltyTypes
  <2>2. CASE /\ ~EndsSession(timeouts[Probed] + 1)
             /\ timeouts' = [timeouts EXCEPT ![Probed] = @ + 1]
    <3>1. timeouts[Probed] + 1 \in 0..(TeardownRun - 1)
      BY <1>2, <2>2 DEF EndsSession
    <3> QED
      BY <1>1, <2>2, <3>1 DEF PenaltyTypes
  <2> QED
    BY <2>1, <2>2 DEF ProbeTimedOut
<1>4. Moves("visit") \/ Moves("unmap")
  BY DEF ProbeTimedOut, Moves, Goto
<1>5. pc[Sup] = "probe" /\ UNCHANGED <<backoff, terminal, todo, enabled, envVars>>
  BY DEF ProbeTimedOut
<1>6. ASSUME NEW step \in {"visit", "unmap"}, Moves(step) PROVE SupervisorInv'
  BY <1>3, <1>5, <1>6, ProbeFails
<1> QED
  BY <1>4, <1>6

LEMMA ProbeBrokenSafe ==
    ASSUME SupervisorInv, ProbeBroken
    PROVE  SupervisorInv'
<1> USE SupervisorAssumption DEF SupervisorInv
<1>1. timeouts \in [Servers -> 0..(TeardownRun - 1)]
  BY DEF SupTypeOK
<1>2. 0 \in 0..(TeardownRun - 1) /\ timeouts' = [timeouts EXCEPT ![Probed] = 0]
  BY DEF ProbeBroken
<1>3. timeouts' \in [Servers -> 0..(TeardownRun - 1)]
  BY <1>1, <1>2
<1> QED
  BY <1>3, ProbeFails DEF ProbeBroken, Moves, Goto

LEMMA GateShutSafe ==
    ASSUME SupervisorInv, GateShut
    PROVE  SupervisorInv'
<1> USE SupIsTask DEF SupervisorInv
<1>1. TypeOK' /\ DisabledIsCondemned' /\ pc'[Sup] = "visit"
  BY MoveSafe DEF SupTypeOK, GateShut, Moves, Goto, Steps, Watching
<1>2. InCycle' /\ AttemptHoldsEntry'
  BY <1>1 DEF GateShut, InCycle, CycleSteps, AttemptHoldsEntry, Attempting
<1> QED
  BY <1>1, <1>2
     DEF SupTypeOK, ParkedCarriesNoPenalty, GateShut, supVars, envVars

\* The entry that the gate leaves behind is of a server that is not parked.
LEMMA GateOpenSafe ==
    ASSUME SupervisorInv, GateOpen
    PROVE  SupervisorInv'
<1> USE SupIsTask, SupervisorAssumption DEF SupervisorInv
<1>1. TypeOK /\ PenaltyTypes /\ Probed \in Servers
  BY SupTypeParts DEF TypeOK, Probed
<1>2. TypeOK' /\ DisabledIsCondemned' /\ pc'[Sup] = "dial"
  BY <1>1, MoveSafe DEF GateOpen, Moves, Goto, Steps, Watching
<1>3. [failures |-> 0, wait |-> 0] \in Penalty
  BY DEF Penalty
<1>4. backoff'[Probed] \in Penalty
  BY <1>1, <1>3 DEF GateOpen, PenaltyTypes
<1>5. \A s \in Servers \ {Probed} : backoff'[s] = backoff[s]
  BY <1>1 DEF GateOpen, PenaltyTypes
<1>6. backoff' \in [Servers -> {None} \cup Penalty]
  BY <1>1, <1>3 DEF GateOpen, PenaltyTypes
<1>7. ParkedCarriesNoPenalty'
  BY <1>1, <1>5 DEF ParkedCarriesNoPenalty, PenaltyTypes, GateOpen
<1>8. InCycle' /\ AttemptHoldsEntry'
  BY <1>2, <1>4 DEF GateOpen, InCycle, CycleSteps, AttemptHoldsEntry,
                    Attempting, Probed
<1> QED
  BY <1>2, <1>6, <1>7, <1>8 DEF SupTypeOK, GateOpen, envVars

\* An attempt that failed has an entry to count it on, and parks nothing.
LEMMA VerdictSafe ==
    ASSUME SupervisorInv, Verdict
    PROVE  SupervisorInv'
<1> USE SupIsTask, SupervisorAssumption DEF SupervisorInv
<1>1. TypeOK /\ PenaltyTypes /\ Probed \in Servers
  BY SupTypeParts DEF TypeOK, Probed
<1>2. OthersStay(Sup) /\ pc'[Sup] = "visit" /\ op' = op /\ err'[Sup] = "none"
  BY <1>1 DEF Verdict, TypeOK, OthersStay
<1>3. TypeOK'
  BY <1>1 DEF Verdict, TypeOK, Steps, Errors, storeVars, connVars
<1>4. DisabledIsCondemned'
  BY <1>2, OwnStepCondemned DEF OwnStep, Verdict, Watching
<1>5. InCycle' /\ AttemptHoldsEntry'
  BY <1>2 DEF Verdict, InCycle, CycleSteps, AttemptHoldsEntry, Attempting
<1>6. PenaltyTypes' /\ ParkedCarriesNoPenalty'
  <2>1. CASE /\ Unpenalise(Probed)
             /\ timeouts' = [timeouts EXCEPT ![Probed] = 0]
             /\ terminal' = terminal \ {Probed}
    <3>1. timeouts' \in [Servers -> 0..(TeardownRun - 1)]
      BY <1>1, <2>1 DEF PenaltyTypes
    <3> QED
      BY <1>1, <2>1, <3>1, Unpenalised DEF PenaltyTypes
  <2>2. CASE Park(Probed) /\ UNCHANGED timeouts
    BY <1>1, <2>2, Unpenalised DEF Park, PenaltyTypes
  <2>3. CASE backoff' = [backoff EXCEPT ![Probed] = Failed(@)] /\ UNCHANGED <<timeouts, terminal>>
    <3>1. backoff[Probed] \in Penalty /\ Probed \notin terminal
      BY DEF Verdict, AttemptHoldsEntry, Attempting
    <3>2. Failed(backoff[Probed]) \in Penalty
      BY <3>1, FailedIsPenalty
    <3>3. backoff' \in [Servers -> {None} \cup Penalty]
      BY <1>1, <2>3, <3>2 DEF PenaltyTypes
    <3>4. \A s \in Servers \ {Probed} : backoff'[s] = backoff[s]
      BY <1>1, <2>3 DEF PenaltyTypes
    <3> QED
      BY <1>1, <2>3, <3>1, <3>3, <3>4 DEF PenaltyTypes, ParkedCarriesNoPenalty
  <2> QED
    BY <2>1, <2>2, <2>3 DEF Verdict
<1> QED
  BY <1>3, <1>4, <1>5, <1>6 DEF SupTypeOK, PenaltyTypes, Verdict, envVars

\* Endpoints and transports touch nothing the supervisor remembers.
LEMMA EnvironmentSafe ==
    ASSUME SupervisorInv, NEW s \in Servers, ChangeWorld(s) \/ DropTransport(s)
    PROVE  SupervisorInv'
<1> USE DEF SupervisorInv
<1>1. UNCHANGED <<vars, supVars, probeLost>>
  BY DEF ChangeWorld, DropTransport
<1>2. TypeOK' /\ DisabledIsCondemned'
  BY <1>1 DEF SupTypeOK, TypeOK, vars, DisabledIsCondemned, Condemned
<1>3. InCycle' /\ AttemptHoldsEntry' /\ ParkedCarriesNoPenalty'
  BY <1>1 DEF vars, supVars, InCycle, AttemptHoldsEntry, Attempting, Probed,
              ParkedCarriesNoPenalty
<1>4. world' \in [Servers -> Worlds] /\ dropped' \subseteq Servers
  BY DEF ChangeWorld, DropTransport, SupTypeOK
<1> QED
  BY <1>1, <1>2, <1>3, <1>4 DEF SupTypeOK, supVars

-----------------------------------------------------------------------------
(* The theorems. *)

LEMMA SupervisorInit == SupInit => SupervisorInv
<1> SUFFICES ASSUME SupInit PROVE SupervisorInv
  OBVIOUS
<1> USE SupIsTask, SupervisorAssumption
<1>1. TypeOK /\ DisabledIsCondemned
  BY InitType, InitCondemned DEF SupInit
<1>2. timeouts \in [Servers -> 0..(TeardownRun - 1)]
  BY DEF SupInit
<1>3. backoff \in [Servers -> {None} \cup Penalty]
  BY DEF SupInit
<1>4. SupTypeOK
  BY <1>1, <1>2, <1>3 DEF SupInit, SupTypeOK
<1>5. InCycle /\ AttemptHoldsEntry /\ ParkedCarriesNoPenalty
  BY DEF SupInit, Init, InCycle, AttemptHoldsEntry, Attempting,
         ParkedCarriesNoPenalty
<1> QED
  BY <1>1, <1>4, <1>5 DEF SupervisorInv

LEMMA SupervisorStep == SupervisorInv /\ [SupNext]_allVars => SupervisorInv'
<1> SUFFICES ASSUME SupervisorInv, [SupNext]_allVars PROVE SupervisorInv'
  OBVIOUS
<1>1. CASE Supervise
  BY <1>1, TickStartSafe, TickEndSafe, VisitDisabledSafe, VisitEnabledSafe,
     ProbeAliveSafe, ProbeTimedOutSafe, ProbeBrokenSafe, GateShutSafe,
     GateOpenSafe, VerdictSafe DEF Supervise
<1>2. ASSUME NEW t \in Tasks, Operate(t) \/ Answer(t) PROVE SupervisorInv'
  BY <1>2, OperateSafe, AnswerSafe
<1>3. ASSUME NEW t \in Callers, NEW o \in CallerOps, NEW s \in Servers,
             Request(t, o, s)
      PROVE  SupervisorInv'
  BY <1>3, RequestSafe
<1>4. ASSUME NEW t \in Callers, GiveUp(t) PROVE SupervisorInv'
  BY <1>4, GiveUpSafe
<1>5. CASE Environment
  BY <1>5, EnvironmentSafe DEF Environment
<1>6. CASE UNCHANGED allVars
  BY <1>6 DEF allVars, vars, supVars, envVars, SupervisorInv, SupTypeOK, TypeOK,
              InCycle, AttemptHoldsEntry, Attempting, Probed,
              ParkedCarriesNoPenalty, DisabledIsCondemned, Condemned
<1> QED
  BY <1>1, <1>2, <1>3, <1>4, <1>5, <1>6 DEF SupNext

\* Between the gate and the verdict the supervisor holds a penalty entry of a
\* server that is not parked, whatever the other tasks do meanwhile: the
\* inductive invariant.  (supervisor/types.rs:289-371)
THEOREM AttemptsHoldEntries == SupSpec => []SupervisorInv
BY SupervisorInit, SupervisorStep, PTL DEF SupSpec

\* No server is ever both parked and penalised, and no streak of timeouts
\* outgrows its run nor a delay the longest one.  (supervisor/types.rs:555)
THEOREM ParkedStaysUnpenalised == SupSpec => []SupInv
<1>1. SupervisorInv => SupInv
  BY DEF SupervisorInv, SupInv
<1> QED
  BY <1>1, AttemptsHoldEntries, PTL

\* A disabled server loses its session also while the supervisor reconnects what
\* it finds missing: its dials are watched like any caller's.
\* (connections/types.rs:190-203, supervisor/types.rs:289-371)
THEOREM SupervisedSessionsAreWatched ==
    SupSpec => [](DisabledIsCondemned /\ DisabledHasNoSession)
<1>1. SupervisorInv => DisabledIsCondemned /\ DisabledHasNoSession
  BY DEF SupervisorInv, DisabledIsCondemned, Condemned, DisabledHasNoSession,
         Working
<1> QED
  BY <1>1, AttemptsHoldEntries, PTL

=============================================================================
