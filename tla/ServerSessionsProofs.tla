------------------------- MODULE ServerSessionsProofs -------------------------
(***************************************************************************)
(* Proofs about Admission and ServerSessions, for any number of            *)
(* identifiers, any window and any limits: what the admission window       *)
(* guarantees; that the whole session server keeps it, with its workers,   *)
(* polls and dropped calls; and that no operation runs twice or changes    *)
(* its end. And about ServerProtocol: lines of any length under any        *)
(* budget, and any clients of the HTTP transport.                          *)
(***************************************************************************)
EXTENDS ServerSessions, ServerProtocol, FiniteSetTheorems, SequenceTheorems, TLAPS

-----------------------------------------------------------------------------
(* The admission registry.                                                 *)

\* The floor never passes the mark it is computed from, and a mark that moves
\* up takes it along.
LEMMA FloorFacts ==
    ASSUME NEW m \in Nat, NEW n \in Nat, m <= n
    PROVE  /\ Floor(m) \in Nat
           /\ Floor(m) <= Floor(n)
           /\ Floor(m) <= m
           /\ m > 0 => Floor(m) < m
BY AdmissionAssumption DEF Floor

\* What lies within a window of a mark lies within it of a higher mark.
LEMMA Slack ==
    ASSUME NEW r \in Nat, NEW m \in Nat, NEW n \in Nat, NEW w \in Nat,
           m <= n, r <= m + w
    PROVE  r <= n + w
OBVIOUS

LEMMA NearItself == ASSUME NEW m \in Nat, NEW w \in Nat PROVE m <= m + w
OBVIOUS

\* The shapes of the registry's state (operations.rs:82-87).
THEOREM AdmissionTypeCorrect == AdmissionSpec => []AdmissionTypeOK
<1>1. AdmissionInit => AdmissionTypeOK
  BY AdmissionAssumption DEF AdmissionInit, AdmissionTypeOK
<1>2. AdmissionTypeOK /\ [AdmissionNext]_admissionVars => AdmissionTypeOK'
  <2> SUFFICES ASSUME AdmissionTypeOK, [AdmissionNext]_admissionVars
               PROVE  AdmissionTypeOK'
    OBVIOUS
  <2> USE DEF AdmissionTypeOK
  <2>1. ASSUME NEW id \in Ids, Open(id) PROVE AdmissionTypeOK'
    <3>1. sequence' \in 0..MaxId
      BY <2>1, AdmissionAssumption DEF AdmissionAssumption, Open, Advance, Ids
    <3>2. reserved' \subseteq Ids
      BY <2>1 DEF Open, Prune
    <3> QED
      BY <2>1, <3>1, <3>2 DEF Open
  <2>2. ASSUME NEW id \in Ids, Retire(id) PROVE AdmissionTypeOK'
    BY <2>2 DEF Retire
  <2>3. ASSUME NEW id \in Ids, Fence(id) PROVE AdmissionTypeOK'
    BY <2>3 DEF Fence
  <2>4. CASE RetireAll
    BY <2>4 DEF RetireAll
  <2>5. CASE UNCHANGED admissionVars
    BY <2>5 DEF admissionVars
  <2> QED
    BY <2>1, <2>2, <2>3, <2>4, <2>5 DEF AdmissionNext
<1> QED
  BY <1>1, <1>2, PTL DEF AdmissionSpec

\* The induction: what has been spent is remembered or has expired, what is
\* remembered is near the mark, and what is active was opened.
WindowInv ==
    /\ AdmissionTypeOK
    /\ SpentIsRefused
    /\ ReservedIsNear
    /\ active \subseteq opened

LEMMA WindowInvInit == AdmissionInit => WindowInv
BY AdmissionAssumption
   DEF AdmissionInit, WindowInv, AdmissionTypeOK, SpentIsRefused, ReservedIsNear

\* A new session moves the mark, and with it the floor.
LEMMA OpenKeepsWindow ==
    ASSUME WindowInv, NEW id \in Ids, Open(id), AdmissionTypeOK'
    PROVE  WindowInv'
<1>0. Window \in Nat
  BY AdmissionAssumption DEF AdmissionAssumption
<1>1. /\ id \in Nat /\ id > 0
      /\ sequence \in Nat /\ sequence' \in Nat
      /\ sequence <= sequence' /\ id <= sequence'
      /\ sequence' = sequence \/ sequence' = id
  BY DEF Open, Advance, WindowInv, AdmissionTypeOK, Ids
<1>2. /\ Floor(sequence) \in Nat /\ Floor(sequence') \in Nat
      /\ Floor(sequence) <= Floor(sequence')
      /\ Floor(sequence') < id
  <2>1. CASE sequence' = sequence
    BY <2>1, <1>1, FloorFacts DEF Open
  <2>2. CASE sequence' = id
    BY <2>2, <1>1, FloorFacts
  <2> QED
    BY <1>1, <2>1, <2>2
<1>3. reserved' = {r \in reserved : r > Floor(sequence')} \cup {id}
  BY DEF Open, Prune
<1>4. SpentIsRefused'
  <2> SUFFICES ASSUME NEW n \in opened' \cup fenced', n \notin reserved'
               PROVE  n <= Floor(sequence')
    BY DEF SpentIsRefused, Floor
  <2>1. n \in opened \cup fenced /\ n \in Nat
    BY <1>3 DEF Open, WindowInv, AdmissionTypeOK, Ids
  <2>2. CASE n \in reserved
    BY <1>2, <1>3, <2>1, <2>2
  <2>3. CASE n \notin reserved
    BY <1>2, <2>1, <2>3 DEF WindowInv, SpentIsRefused
  <2> QED
    BY <2>2, <2>3
<1>5. ReservedIsNear'
  <2> SUFFICES ASSUME NEW r \in reserved'
               PROVE  Floor(sequence') < r /\ r <= sequence' + Window
    BY DEF ReservedIsNear, Ceiling, Floor
  <2>1. CASE r = id
    <3>1. id <= sequence' + Window
      BY <1>0, <1>1, NearItself, Slack
    <3>2. Floor(sequence') < id
      BY <1>2
    <3> QED
      BY <2>1, <3>1, <3>2
  <2>2. CASE r # id
    <3>1. r \in reserved /\ r \in Nat /\ r > Floor(sequence')
      BY <1>3, <2>2 DEF WindowInv, AdmissionTypeOK, Ids
    <3>2. r <= sequence + Window
      BY <3>1 DEF WindowInv, ReservedIsNear, Ceiling
    <3>3. r <= sequence' + Window
      BY <1>0, <1>1, <3>1, <3>2, Slack
    <3>4. Floor(sequence') < r
      BY <1>2, <3>1
    <3> QED
      BY <3>3, <3>4
  <2> QED
    BY <2>1, <2>2
<1>6. active' \subseteq opened'
  BY DEF WindowInv, Open
<1> QED
  BY <1>4, <1>5, <1>6 DEF WindowInv

LEMMA WindowInvStep ==
    ASSUME WindowInv, [AdmissionNext]_admissionVars, AdmissionTypeOK'
    PROVE  WindowInv'
<1>1. ASSUME NEW id \in Ids, Open(id) PROVE WindowInv'
  BY <1>1, OpenKeepsWindow
<1>2. ASSUME NEW id \in Ids, Retire(id) PROVE WindowInv'
  BY <1>2 DEF Retire, WindowInv, SpentIsRefused, ReservedIsNear, Ceiling, Floor
<1>3. ASSUME NEW id \in Ids, Fence(id) PROVE WindowInv'
  BY <1>3 DEF Fence, WindowInv, SpentIsRefused, ReservedIsNear, Ceiling, Floor
<1>4. CASE RetireAll
  BY <1>4 DEF RetireAll, WindowInv, SpentIsRefused, ReservedIsNear, Ceiling, Floor
<1>5. CASE UNCHANGED admissionVars
  BY <1>5 DEF admissionVars, WindowInv, SpentIsRefused, ReservedIsNear, Ceiling, Floor
<1> QED
  BY <1>1, <1>2, <1>3, <1>4, <1>5 DEF AdmissionNext

\* Whatever opens, closes and shutdowns ran, spent identifiers are remembered
\* or expired and the memory stays near the mark (operations.rs:88-109).
THEOREM WindowInvariant == AdmissionSpec => []WindowInv
<1>1. WindowInv /\ AdmissionTypeOK' /\ [AdmissionNext]_admissionVars => WindowInv'
  BY WindowInvStep
<1> QED
  BY <1>1, WindowInvInit, AdmissionTypeCorrect, PTL DEF AdmissionSpec

\* The memory lies within one window of the mark, on either side.
\* (operations.rs:95-108)
THEOREM ReservedStaysNear == AdmissionSpec => []ReservedIsNear
<1>1. WindowInv => ReservedIsNear
  BY DEF WindowInv
<1> QED
  BY <1>1, WindowInvariant, PTL

\* No identifier is opened twice, nor after it was closed ahead of its open
\* (operations.rs:88-109).
THEOREM AdmissionIsFinal == AdmissionSpec => NeverReadmitted
<1>1. WindowInv /\ [AdmissionNext]_admissionVars
        => [\A id \in Ids : id \in active' /\ id \notin active
               => id \notin opened \cup fenced]_admissionVars
  <2> SUFFICES ASSUME WindowInv, AdmissionNext,
                      NEW id \in Ids, id \in active', id \notin active
               PROVE  id \notin opened \cup fenced
    BY DEF admissionVars
  <2>1. Open(id)
    BY DEF AdmissionNext, Open, Retire, Fence, RetireAll
  <2>2. id \notin reserved /\ ~(id <= Floor(sequence))
    <3>1. id \in Nat /\ Floor(sequence) \in Nat
      BY FloorFacts, AdmissionAssumption DEF WindowInv, AdmissionTypeOK, Ids
    <3> QED
      BY <2>1, <3>1 DEF Open
  <2> QED
    BY <2>2 DEF WindowInv, SpentIsRefused
<1> QED
  BY <1>1, WindowInvariant, PTL DEF AdmissionSpec, NeverReadmitted

\* Retirements, one or all, end sessions that are open.
LEMMA RetirementEnds ==
    ASSUME WindowInv, NEW S \in SUBSET active, active' = active \ S,
           UNCHANGED <<opened, fenced>>
    PROVE  Life!End(S)
<1>1. S \subseteq Ids /\ active \subseteq opened
  BY DEF WindowInv, AdmissionTypeOK
<1>2. \A id \in S : LifeStatus[id] = "open"
  BY <1>1 DEF LifeStatus
<1>3. LifeStatus' = [id \in Ids |-> IF id \in S THEN "spent" ELSE LifeStatus[id]]
  BY <1>1 DEF LifeStatus
<1> QED
  BY <1>2, <1>3 DEF Life!End

\* The window, the mark and the pruned memory implement the promise that an
\* identifier has one session in its life, for any window
\* (operations.rs:88-109, 310).
THEOREM AdmissionImplementsLife == AdmissionSpec => ImplementsLife
<1>1. AdmissionInit => Life!LifeInit
  BY DEF AdmissionInit, Life!LifeInit, LifeStatus
<1>2. WindowInv /\ [AdmissionNext]_admissionVars => [Life!LifeNext]_LifeStatus
  <2> SUFFICES ASSUME WindowInv, [AdmissionNext]_admissionVars
               PROVE  [Life!LifeNext]_LifeStatus
    OBVIOUS
  <2>1. ASSUME NEW id \in Ids, Open(id) PROVE Life!LifeNext
    <3>1. id \notin opened \cup fenced
      <4>1. id \in Nat /\ Floor(sequence) \in Nat
        BY FloorFacts, AdmissionAssumption DEF WindowInv, AdmissionTypeOK, Ids
      <4>2. id \notin reserved /\ ~(id <= Floor(sequence))
        BY <2>1, <4>1 DEF Open
      <4> QED
        BY <4>2 DEF WindowInv, SpentIsRefused
    <3>2. LifeStatus[id] = "unborn"
      BY <2>1, <3>1 DEF LifeStatus, Open
    <3>3. Life!Having("open") = active
      BY DEF Life!Having, LifeStatus, WindowInv, AdmissionTypeOK
    <3>4. LifeStatus' = [LifeStatus EXCEPT ![id] = "open"]
      BY <2>1, <3>1 DEF LifeStatus, Open
    <3>5. Cardinality(active) < MaxActive
      BY <2>1 DEF Open
    <3>6. Life!Cardinality(active) < MaxActive
      BY <3>5 DEF Cardinality, Life!Cardinality
    <3>7. Life!Begin(id)
      BY <3>2, <3>3, <3>4, <3>6 DEF Life!Begin
    <3> QED
      BY <3>7 DEF Life!LifeNext
  <2>2. ASSUME NEW id \in Ids, Retire(id) PROVE Life!LifeNext
    <3>1. {id} \in SUBSET active /\ {id} \in SUBSET Ids
      BY <2>2 DEF Retire
    <3>2. Life!End({id})
      BY <2>2, <3>1, RetirementEnds DEF Retire
    <3> QED
      BY <3>1, <3>2 DEF Life!LifeNext
  <2>3. ASSUME NEW id \in Ids, Fence(id) PROVE Life!LifeNext
    <3>1. id \notin opened \cup fenced
      <4>1. id \in Nat /\ Floor(sequence) \in Nat
        BY FloorFacts, AdmissionAssumption DEF WindowInv, AdmissionTypeOK, Ids
      <4>2. id \notin reserved /\ ~(id <= Floor(sequence))
        BY <2>3, <4>1 DEF Fence
      <4> QED
        BY <4>2 DEF WindowInv, SpentIsRefused
    <3>2. LifeStatus[id] = "unborn"
      BY <2>3, <3>1 DEF LifeStatus, Fence
    <3>3. LifeStatus' = [LifeStatus EXCEPT ![id] = "spent"]
      BY <2>3, <3>1 DEF LifeStatus, Fence
    <3>4. Life!Bar(id)
      BY <3>2, <3>3 DEF Life!Bar
    <3> QED
      BY <3>4 DEF Life!LifeNext
  <2>4. CASE RetireAll
    <3>1. active \in SUBSET active /\ active \in SUBSET Ids
      BY DEF WindowInv, AdmissionTypeOK
    <3>2. active' = active \ active
      BY <2>4 DEF RetireAll
    <3>3. Life!End(active)
      BY <2>4, <3>1, <3>2, RetirementEnds DEF RetireAll
    <3> QED
      BY <3>1, <3>3 DEF Life!LifeNext
  <2>5. CASE UNCHANGED admissionVars
    BY <2>5 DEF admissionVars, LifeStatus
  <2> QED
    BY <2>1, <2>2, <2>3, <2>4, <2>5 DEF AdmissionNext
<1> QED
  BY <1>1, <1>2, WindowInvariant, PTL DEF AdmissionSpec, ImplementsLife, Life!LifeSpec


-----------------------------------------------------------------------------
(* The whole server and its admission registry.                            *)

\* What the tasks do by themselves.
LEMMA TasksLeaveAdmission ==
    ASSUME NEW s \in Busy,
           WorkerStep(s) \/ PollRespond(s) \/ CancelJoined(s) \/ ReaderLocks(s) \/ ReaderDone(s)
    PROVE  UNCHANGED admissionVars
BY DEF WorkerStep, WorkerStart, WorkerAsk, WorkerFinish, WorkerAborted, WorkerEnd,
       PollRespond, CancelJoined, ReaderLocks, ReaderDone

\* Every step of the server is a step of the admission registry, or none of it.
LEMMA StepAdmits == [Next]_vars => [AdmissionNext]_admissionVars
<1> SUFFICES ASSUME [Next]_vars PROVE [AdmissionNext]_admissionVars
  OBVIOUS
<1>1. ASSUME NEW id \in Ids, OpenSession(id) PROVE AdmissionNext
  BY <1>1 DEF OpenSession, AdmissionNext
<1>2. ASSUME NEW id \in Ids, Close(id) PROVE AdmissionNext
  BY <1>2 DEF Close, AdmissionNext
<1>3. CASE Shutdown
  BY <1>3 DEF Shutdown, AdmissionNext
<1>4. CASE Abandon \/ CloseJoined
  BY <1>4 DEF Abandon, CloseJoined
<1>5. ASSUME NEW s \in Busy, NEW o \in 1..MaxOp, NEW init \in BOOLEAN,
             NEW header \in {0} \cup HttpIds, Submit(s, o, init, header)
      PROVE  UNCHANGED admissionVars
  BY <1>5 DEF Submit
<1>6. ASSUME NEW s \in Busy, NEW o \in 1..MaxOp, NEW header \in {0} \cup HttpIds,
             SubmitRefused(s, o, header)
      PROVE  UNCHANGED admissionVars
  BY <1>6 DEF SubmitRefused
<1>7. ASSUME NEW s \in Busy,
             Complete(s) \/ Poll(s) \/ Cancel(s) \/ CancelEnded(s) \/ Metadata(s)
      PROVE  UNCHANGED admissionVars
  BY <1>7 DEF Complete, Poll, PollEnded, PollCallback, Cancel, CancelEnded, Metadata
<1>8. ASSUME NEW s \in Busy,
             WorkerStep(s) \/ PollRespond(s) \/ CancelJoined(s) \/ ReaderLocks(s) \/ ReaderDone(s)
      PROVE  UNCHANGED admissionVars
  BY <1>8, TasksLeaveAdmission
<1>9. CASE UNCHANGED vars
  BY <1>9 DEF vars, admissionVars
<1> QED
  BY <1>1, <1>2, <1>3, <1>4, <1>5, <1>6, <1>7, <1>8, <1>9 DEF Next, Host

\* The session server implements its admission registry
\* (server/bridge/operations.rs: every call goes through one Registry).
THEOREM SessionsImplementAdmission == Spec => AdmissionSpec
<1>1. Init => AdmissionInit
  BY DEF Init
<1> QED
  BY <1>1, StepAdmits, PTL DEF Spec, AdmissionSpec

\* In the whole server, what is remembered stays near the mark
\* (operations.rs:95-108).
THEOREM ServerRemembersNear == Spec => []ReservedIsNear
BY SessionsImplementAdmission, ReservedStaysNear, PTL

\* In the whole server, an identifier has one session in its life: admission
\* composed with the operations, and refined to the promise.
THEOREM ServerImplementsLife == Spec => ImplementsLife
BY SessionsImplementAdmission, AdmissionImplementsLife, PTL

-----------------------------------------------------------------------------
(* The operations.                                                         *)

Workers ==
    [state : {"none", "finished"} \cup Live, calls : 0..MaxCalls, aborted : BOOLEAN,
     outcome : {"none"} \cup Terminals]

OperationsTypeOK ==
    /\ high \in [Busy -> 0..MaxOp]
    /\ http \in [Busy -> {None, 0} \cup HttpIds]
    /\ operation \in [Busy -> {None} \cup Operations]
    /\ worker \in [Busy -> Workers]
    /\ client \in [Busy -> {"free", "worker", "reader"}]
    /\ inited \in [Busy -> BOOLEAN]
    /\ reader \in [Busy -> {"none", "waiting", "reading"}]
    /\ inside \in {None} \cup Insides
    /\ ran \subseteq Busy \X (1..MaxOp)

\* What was started lies below the mark of the session's operations, and so do the HTTP
\* session ids, of which an operation that has no response yet may issue one more.
BelowHigh ==
    \A s \in Busy :
        /\ \A o \in 1..MaxOp : <<s, o>> \in ran => o <= high[s]
        /\ operation[s] # None => operation[s].id <= high[s]
        /\ http[s] # None => http[s] <= high[s]
        /\ http[s] # None /\ operation[s] # None /\ operation[s].response = None
             => http[s] < high[s]

\* What a call that awaits with the lock held has found, and nobody can change.
InsideMatches ==
    \A s \in Busy :
        /\ inside = <<"poll", {s}>> =>
              /\ operation[s] # None /\ operation[s].terminal # "none"
              /\ operation[s].response = None /\ http[s] # None
        /\ inside = <<"cancel", {s}>> => Going(s)

\* A worker that has ended says how.
OutcomesMatch == \A s \in Busy : worker[s].state = "finished" => worker[s].outcome # "none"

OperationsInv ==
    OperationsTypeOK /\ WorkerIsOwned /\ BelowHigh /\ InsideMatches /\ OutcomesMatch

LEMMA NoneIsNothing ==
    /\ None \notin Nat /\ None \notin Operations /\ None \notin Responses /\ None \notin Insides
    /\ HttpIds \subseteq Nat
BY NoneAssumption, SessionsAssumption DEF HttpIds

\* The ways in which steps change the task of an operation.
LEMMA WorkerShapes ==
    ASSUME NEW w \in Workers
    PROVE  /\ [w EXCEPT !.aborted = TRUE] \in Workers
           /\ [w EXCEPT !.state = "running"] \in Workers
           /\ w.calls < MaxCalls =>
                 [w EXCEPT !.state = "asking", !.calls = w.calls + 1] \in Workers
           /\ \A end \in Terminals :
                 [w EXCEPT !.state = "finished", !.outcome = end] \in Workers
           /\ w.state \in {"none", "finished"} \cup Live /\ w.calls \in 0..MaxCalls
           /\ w.aborted \in BOOLEAN /\ w.outcome \in {"none"} \cup Terminals
<1>1. /\ w.state \in {"none", "finished"} \cup Live /\ w.calls \in 0..MaxCalls
      /\ w.aborted \in BOOLEAN /\ w.outcome \in {"none"} \cup Terminals
      BY DEF Workers
<1>2. [w EXCEPT !.aborted = TRUE] \in Workers
      BY DEF Workers
<1>3. [w EXCEPT !.state = "running"] \in Workers
      BY DEF Workers, Live
<1>4. w.calls < MaxCalls => [w EXCEPT !.state = "asking", !.calls = w.calls + 1] \in Workers
  <2>1. w.calls < MaxCalls => w.calls + 1 \in 0..MaxCalls
        BY <1>1, SessionsAssumption
  <2> QED BY <2>1 DEF Workers, Live
<1>5. \A end \in Terminals : [w EXCEPT !.state = "finished", !.outcome = end] \in Workers
      BY DEF Workers
<1> QED BY <1>1, <1>2, <1>3, <1>4, <1>5

\* The ways in which steps change an operation.
LEMMA OperationShapes ==
    ASSUME NEW op \in Operations
    PROVE  /\ \A end \in {"none"} \cup Terminals : [op EXCEPT !.terminal = end] \in Operations
           /\ \A c \in 0..MaxCalls : [op EXCEPT !.chan = c] \in Operations
           /\ [op EXCEPT !.waiting = 0] \in Operations
           /\ [op EXCEPT !.waiting = 0, !.chan = 0] \in Operations
           /\ [op EXCEPT !.waiting = op.chan, !.chan = 0] \in Operations
           /\ \A r \in Responses : [op EXCEPT !.response = r] \in Operations
           /\ op.id \in 1..MaxOp /\ op.terminal \in {"none"} \cup Terminals
<1>1. /\ op.id \in 1..MaxOp /\ op.terminal \in {"none"} \cup Terminals
      /\ op.chan \in 0..MaxCalls /\ 0 \in 0..MaxCalls
      BY SessionsAssumption DEF Operations
<1>2. \A end \in {"none"} \cup Terminals : [op EXCEPT !.terminal = end] \in Operations
      BY DEF Operations
<1>3. \A c \in 0..MaxCalls : [op EXCEPT !.chan = c] \in Operations
      BY DEF Operations
<1>4. \A c, d \in 0..MaxCalls : [op EXCEPT !.waiting = c, !.chan = d] \in Operations
      BY DEF Operations
<1>5. [op EXCEPT !.waiting = 0] \in Operations
      BY <1>1 DEF Operations
<1>6. \A r \in Responses : [op EXCEPT !.response = r] \in Operations
      BY DEF Operations
<1> QED BY <1>1, <1>2, <1>3, <1>4, <1>5, <1>6

\* The operations that a submit makes.
LEMMA MadeOperations ==
    ASSUME NEW o \in 1..MaxOp, NEW init \in BOOLEAN
    PROVE  /\ NewOperation(o, init) \in Operations
           /\ NewOperation(o, init).terminal = "none" /\ NewOperation(o, init).id = o
           /\ [NewOperation(o, init) EXCEPT
                 !.terminal = "silent", !.response = [status |-> 400, id |-> 0]] \in Operations
           /\ NoWorker \in Workers /\ [NoWorker EXCEPT !.state = "queued"] \in Workers
<1>1. 0 \in 0..MaxCalls
      BY SessionsAssumption
<1>2. NewOperation(o, init) \in Operations
      BY <1>1 DEF NewOperation, Operations
<1>3. NewOperation(o, init).terminal = "none" /\ NewOperation(o, init).id = o
      BY DEF NewOperation
<1>4. [NewOperation(o, init) EXCEPT
         !.terminal = "silent", !.response = [status |-> 400, id |-> 0]] \in Operations
  <2>1. [status |-> 400, id |-> 0] \in Responses /\ "silent" \in Terminals
        BY DEF Responses, Terminals
  <2> QED BY <1>2, <2>1 DEF Operations
<1>5. NoWorker \in Workers /\ [NoWorker EXCEPT !.state = "queued"] \in Workers
      BY <1>1 DEF NoWorker, Workers, Live
<1> QED BY <1>2, <1>3, <1>4, <1>5

LEMMA OperationsInit == Init => OperationsInv
<1> SUFFICES ASSUME Init PROVE OperationsInv
    OBVIOUS
<1>1. OperationsTypeOK
  <2>1. 0 \in 0..MaxOp /\ NoWorker \in Workers
        BY SessionsAssumption DEF NoWorker, Workers
  <2> QED BY <2>1 DEF Init, OperationsTypeOK
<1>2. WorkerIsOwned /\ OutcomesMatch
      BY DEF Init, WorkerIsOwned, OutcomesMatch, NoWorker, Live
<1>3. BelowHigh
      BY SessionsAssumption DEF Init, BelowHigh
<1>4. InsideMatches
      BY NoneIsNothing DEF Init, InsideMatches, Insides
<1> QED BY <1>1, <1>2, <1>3, <1>4 DEF OperationsInv

-----------------------------------------------------------------------------
(* The shapes.                                                             *)

LEMMA SubmitsKeepType ==
    ASSUME OperationsTypeOK, NEW s \in Busy, NEW o \in 1..MaxOp, NEW init \in BOOLEAN, NEW header,
           Submit(s, o, init, header) \/ SubmitRefused(s, o, header)
    PROVE  OperationsTypeOK'
<1>1. o \in 0..MaxOp
      OBVIOUS
<1>2. CASE Submit(s, o, init, header)
  <2>1. operation' \in [Busy -> {None} \cup Operations] /\ worker' \in [Busy -> Workers]
        BY <1>2, MadeOperations DEF Submit, OperationsTypeOK
  <2> QED BY <1>1, <1>2, <2>1 DEF Submit, OperationsTypeOK
<1>3. CASE SubmitRefused(s, o, header)
  <2>1. operation' \in [Busy -> {None} \cup Operations] /\ worker' \in [Busy -> Workers]
        BY <1>3, MadeOperations DEF SubmitRefused, OperationsTypeOK
  <2> QED BY <1>1, <1>3, <2>1 DEF SubmitRefused, OperationsTypeOK
<1> QED BY <1>2, <1>3

LEMMA StopsKeepType ==
    ASSUME OperationsTypeOK, NEW S \in SUBSET Busy, Take(S)
    PROVE  OperationsTypeOK'
<1>1. operation' \in [Busy -> {None} \cup Operations]
      BY DEF Take, OperationsTypeOK
<1>2. worker' \in [Busy -> Workers]
      BY WorkerShapes DEF Take, Abort, OperationsTypeOK
<1>3. inside' \in {None} \cup Insides
      BY DEF Take, Insides
<1> QED BY <1>1, <1>2, <1>3 DEF Take, OperationsTypeOK

LEMMA CancelsKeepType ==
    ASSUME OperationsTypeOK, InsideMatches, NEW s \in Busy,
           Cancel(s) \/ CancelJoined(s) \/ CancelEnded(s)
    PROVE  OperationsTypeOK'
<1>1. operation[s] # None /\ operation[s] \in Operations
      BY DEF Cancel, CancelJoined, CancelEnded, Going, Finished, InsideMatches, OperationsTypeOK
<1>2. CASE Cancel(s)
  <2>1. operation' \in [Busy -> {None} \cup Operations]
    <3>1. operation' = [operation EXCEPT ![s] = [@ EXCEPT !.waiting = 0, !.chan = 0]]
          BY <1>2, <1>1 DEF Cancel, OperationsTypeOK
    <3> QED BY <1>1, <3>1, OperationShapes DEF OperationsTypeOK
  <2>2. worker' \in [Busy -> Workers]
        BY <1>2, WorkerShapes DEF Cancel, Abort, OperationsTypeOK
  <2>3. inside' \in {None} \cup Insides
        BY <1>2 DEF Cancel, Insides
  <2> QED BY <1>2, <2>1, <2>2, <2>3 DEF Cancel, OperationsTypeOK
<1>3. CASE CancelJoined(s)
      BY <1>1, <1>3, OperationShapes DEF CancelJoined, OperationsTypeOK, Terminals
<1>4. CASE CancelEnded(s)
  <2>1. worker[s].outcome \in {"none"} \cup Terminals
        BY WorkerShapes DEF OperationsTypeOK
  <2> QED BY <1>1, <1>4, <2>1, OperationShapes DEF CancelEnded, OperationsTypeOK
<1> QED BY <1>2, <1>3, <1>4

LEMMA AnswersKeepType ==
    ASSUME OperationsTypeOK, InsideMatches, BelowHigh, NEW s \in Busy,
           Complete(s) \/ PollEnded(s) \/ PollCallback(s) \/ PollRespond(s)
    PROVE  OperationsTypeOK'
<1>1. operation[s] # None /\ operation[s] \in Operations
      BY DEF Complete, PollEnded, PollCallback, PollRespond, Going, InsideMatches, OperationsTypeOK
<1>2. worker[s] \in Workers /\ worker[s].outcome \in {"none"} \cup Terminals
      BY WorkerShapes DEF OperationsTypeOK
<1>3. CASE Complete(s)
  <2>1. operation' \in [Busy -> {None} \cup Operations]
        BY <1>1, <1>3, OperationShapes DEF Complete, OperationsTypeOK
  <2>2. worker' \in [Busy -> Workers]
    <3>1. worker' = [worker EXCEPT ![s] =
             IF worker[s].state = "asking" THEN [worker[s] EXCEPT !.state = "running"]
             ELSE worker[s]]
          BY <1>2, <1>3 DEF Complete, OperationsTypeOK, Workers
    <3> QED BY <1>2, <3>1, WorkerShapes DEF OperationsTypeOK
  <2> QED BY <1>3, <2>1, <2>2 DEF Complete, OperationsTypeOK
<1>4. CASE PollEnded(s)
  <2> DEFINE end == IF Going(s) THEN worker[s].outcome ELSE operation[s].terminal
  <2>1. end \in {"none"} \cup Terminals
        BY <1>1, <1>2, OperationShapes
  <2>2. operation' = [operation EXCEPT ![s] = [operation[s] EXCEPT !.terminal = end]]
        BY <1>4 DEF PollEnded
  <2>3. operation' \in [Busy -> {None} \cup Operations]
        BY <1>1, <2>1, <2>2, OperationShapes DEF OperationsTypeOK
  <2>4. inside' \in {None} \cup Insides
        BY <1>4 DEF PollEnded, Insides
  <2> QED BY <1>4, <2>3, <2>4 DEF PollEnded, OperationsTypeOK
<1>5. CASE PollCallback(s)
  <2>1. operation' = [operation EXCEPT
           ![s] = [operation[s] EXCEPT !.waiting = operation[s].chan, !.chan = 0]]
        BY <1>1, <1>5 DEF PollCallback, OperationsTypeOK
  <2>2. operation' \in [Busy -> {None} \cup Operations]
        BY <1>1, <2>1, OperationShapes DEF OperationsTypeOK
  <2> QED BY <1>5, <2>2 DEF PollCallback, OperationsTypeOK
<1>6. CASE PollRespond(s)
      BY <1>1, <1>6, NoneIsNothing, SessionsAssumption
         DEF PollRespond, OperationsTypeOK, InsideMatches, BelowHigh, Operations, Responses,
             Status, Terminals, HttpIds
<1> QED BY <1>3, <1>4, <1>5, <1>6

LEMMA WorkerKeepsType ==
    ASSUME OperationsTypeOK, NEW s \in Busy, WorkerStep(s)
    PROVE  OperationsTypeOK'
<1>1. worker[s] \in Workers /\ operation[s] \in {None} \cup Operations
      BY DEF OperationsTypeOK
<1>2. CASE WorkerStart(s)
      BY <1>1, <1>2, WorkerShapes DEF WorkerStart, OperationsTypeOK
<1>3. CASE WorkerAsk(s)
  <2>1. worker[s].calls + 1 \in 0..MaxCalls
    <3>1. worker[s].calls \in 0..MaxCalls /\ worker[s].calls < MaxCalls
          BY <1>1, <1>3, WorkerShapes DEF WorkerAsk
    <3> QED BY <3>1, SessionsAssumption
  <2>2. operation' \in [Busy -> {None} \cup Operations]
        BY <1>1, <1>3, <2>1, OperationShapes DEF WorkerAsk, OperationsTypeOK
  <2>3. worker' \in [Busy -> Workers]
        BY <1>1, <1>3, WorkerShapes DEF WorkerAsk, OperationsTypeOK
  <2> QED BY <1>3, <2>2, <2>3 DEF WorkerAsk, OperationsTypeOK
<1>4. ASSUME NEW end \in Terminals, WorkerEnd(s, end)
      PROVE  /\ worker' \in [Busy -> Workers] /\ client' \in [Busy -> {"free", "worker", "reader"}]
             /\ UNCHANGED <<high, http, operation, reader, inside, ran>>
  <2>1. worker' \in [Busy -> Workers]
        BY <1>1, <1>4, WorkerShapes DEF WorkerEnd, OperationsTypeOK
  <2> QED BY <1>4, <2>1 DEF WorkerEnd, OperationsTypeOK
<1>5. CASE WorkerFinish(s)
      BY <1>4, <1>5 DEF WorkerFinish, OperationsTypeOK, Terminals
<1>6. CASE WorkerAborted(s)
      BY <1>4, <1>6 DEF WorkerAborted, OperationsTypeOK, Terminals
<1> QED BY <1>2, <1>3, <1>5, <1>6 DEF WorkerStep

LEMMA RestKeepsType ==
    ASSUME OperationsTypeOK,
           \/ \E id \in Ids : OpenSession(id)
           \/ Abandon \/ CloseJoined
           \/ \E s \in Busy : Metadata(s) \/ ReaderLocks(s) \/ ReaderDone(s)
    PROVE  OperationsTypeOK'
<1>1. CASE \E id \in Ids : OpenSession(id)
      BY <1>1 DEF OpenSession, OperationsTypeOK
<1>2. CASE Abandon \/ CloseJoined
      BY <1>2 DEF Abandon, CloseJoined, OperationsTypeOK
<1>3. CASE \E s \in Busy : Metadata(s) \/ ReaderLocks(s) \/ ReaderDone(s)
      BY <1>3 DEF Metadata, ReaderLocks, ReaderDone, OperationsTypeOK
<1> QED BY <1>1, <1>2, <1>3

-----------------------------------------------------------------------------
(* Whose a task is, what the numbers say, and what a waiting call found.   *)

\* Tasks that are told to stop may have lost their session or their operation.
LEMMA TakeKeeps ==
    ASSUME OperationsInv, NEW S \in SUBSET Busy, Take(S), inside = None,
           \A s \in Busy \ S : s \in active => s \in active'
    PROVE  WorkerIsOwned' /\ BelowHigh' /\ InsideMatches' /\ OutcomesMatch'
<1>1. /\ \A s \in Busy : operation'[s] = IF s \in S THEN None ELSE operation[s]
      /\ \A s \in Busy : worker'[s] = IF s \in S /\ worker[s].state \in Live
                           THEN [worker[s] EXCEPT !.aborted = TRUE] ELSE worker[s]
      /\ inside' = (IF S = {} THEN None ELSE <<"close", S>>)
      /\ UNCHANGED <<high, http, ran>>
      BY DEF Take, Abort
<1>2. \A s \in Busy :
        /\ worker'[s].state = worker[s].state /\ worker'[s].outcome = worker[s].outcome
        /\ s \in S /\ worker[s].state \in Live => worker'[s].aborted
        /\ s \notin S => worker'[s] = worker[s]
      BY <1>1 DEF OperationsInv, OperationsTypeOK, Workers
<1>3. WorkerIsOwned'
      BY <1>1, <1>2 DEF OperationsInv, WorkerIsOwned, Going
<1>4. BelowHigh'
      BY <1>1 DEF OperationsInv, BelowHigh
<1>5. InsideMatches'
  <2>1. \A s \in Busy : inside' # <<"poll", {s}>> /\ inside' # <<"cancel", {s}>>
        BY <1>1, NoneIsNothing DEF Insides
  <2> QED BY <2>1 DEF InsideMatches
<1>6. OutcomesMatch'
      BY <1>2 DEF OperationsInv, OutcomesMatch
<1> QED BY <1>3, <1>4, <1>5, <1>6

LEMMA HostKeeps ==
    ASSUME OperationsInv,
           \/ \E id \in Ids : OpenSession(id) \/ Close(id)
           \/ Shutdown \/ Abandon \/ CloseJoined
    PROVE  OperationsInv'
<1>1. ASSUME NEW id \in Ids, OpenSession(id) PROVE OperationsInv'
  <2>1. OperationsTypeOK'
        BY <1>1, RestKeepsType DEF OperationsInv
  <2>2. /\ UNCHANGED <<high, operation, worker, inside, ran>> /\ active' = active \cup {id}
        /\ \A s \in Busy : http'[s] = http[s] \/ http'[s] \in {None, 0}
        /\ inside = None
        BY <1>1 DEF OpenSession, Open, LockFree, OperationsInv, OperationsTypeOK
  <2>3. \A s \in Busy : high[s] \in Nat /\ (operation[s] # None => high[s] > 0)
        BY SessionsAssumption DEF OperationsInv, OperationsTypeOK, BelowHigh, Operations
  <2>4. BelowHigh'
        BY <2>2, <2>3, NoneIsNothing DEF OperationsInv, BelowHigh
  <2>5. WorkerIsOwned' /\ OutcomesMatch'
        BY <2>2 DEF OperationsInv, WorkerIsOwned, OutcomesMatch, Going
  <2>6. InsideMatches'
        BY <2>2, NoneIsNothing DEF InsideMatches, Insides
  <2> QED BY <2>1, <2>4, <2>5, <2>6 DEF OperationsInv
<1>2. ASSUME NEW id \in Ids, Close(id) PROVE OperationsInv'
  <2>1. CASE Retire(id) /\ Take({id} \cap Busy)
    <3>1. inside = None /\ \A s \in Busy \ ({id} \cap Busy) : s \in active => s \in active'
          BY <1>2, <2>1 DEF Close, LockFree, Retire
    <3> QED BY <2>1, <3>1, TakeKeeps, StopsKeepType DEF OperationsInv
  <2>2. CASE UNCHANGED <<sessionVars, active>>
        BY <2>2 DEF sessionVars, OperationsInv, OperationsTypeOK, WorkerIsOwned, BelowHigh,
                    InsideMatches, OutcomesMatch, Going
  <2> QED BY <1>2, <2>1, <2>2 DEF Close, Fence
<1>3. CASE Shutdown
  <2>1. /\ inside = None /\ Take(active \cap Busy)
        /\ \A s \in Busy \ (active \cap Busy) : s \in active => s \in active'
        BY <1>3 DEF Shutdown, LockFree
  <2> QED BY <2>1, TakeKeeps, StopsKeepType DEF OperationsInv
<1>4. CASE Abandon \/ CloseJoined
  <2>1. /\ UNCHANGED <<admissionVars, high, http, operation, worker, ran>>
        /\ \A s \in Busy : inside' # <<"poll", {s}>> /\ inside' # <<"cancel", {s}>>
        BY <1>4, NoneIsNothing DEF Abandon, CloseJoined, Insides
  <2>2. OperationsTypeOK'
        BY <1>4, RestKeepsType DEF OperationsInv
  <2> QED BY <2>1, <2>2 DEF OperationsInv, WorkerIsOwned, BelowHigh, InsideMatches,
                            OutcomesMatch, Going, admissionVars
<1> QED BY <1>1, <1>2, <1>3, <1>4

\* A submit, refused or not, makes an operation with a new number.
LEMMA SubmitFacts ==
    ASSUME NEW s \in Busy, NEW o \in 1..MaxOp, NEW init \in BOOLEAN, NEW header,
           Submit(s, o, init, header) \/ SubmitRefused(s, o, header)
    PROVE  \E op \in Operations, w \in Workers :
              /\ operation' = [operation EXCEPT ![s] = op] /\ worker' = [worker EXCEPT ![s] = w]
              /\ op.id = o /\ w.state # "finished" /\ (w.state \in Live => op.terminal = "none")
<1>1. CASE Submit(s, o, init, header)
  <2> DEFINE op == NewOperation(o, init)
             w == [NoWorker EXCEPT !.state = "queued"]
  <2>1. w.state = "queued" /\ "queued" # "finished"
        BY DEF NoWorker
  <2>2. op \in Operations /\ w \in Workers /\ op.id = o /\ op.terminal = "none"
        BY MadeOperations, Zenon DEF NewOperation
  <2>3. operation' = [operation EXCEPT ![s] = op] /\ worker' = [worker EXCEPT ![s] = w]
        BY <1>1 DEF Submit
  <2> HIDE DEF op, w
  <2> QED BY <2>1, <2>2, <2>3
<1>2. CASE SubmitRefused(s, o, header)
  <2> DEFINE op == [NewOperation(o, FALSE) EXCEPT
                      !.terminal = "silent", !.response = [status |-> 400, id |-> 0]]
  <2>1. op.id = o /\ NoWorker.state = "none" /\ "none" # "finished" /\ "none" \notin Live
        BY DEF NewOperation, NoWorker, Live
  <2>2. op \in Operations /\ NoWorker \in Workers
        BY MadeOperations
  <2> QED BY <1>2, <2>1, <2>2 DEF SubmitRefused
<1> QED BY <1>1, <1>2

LEMMA SubmitsKeep ==
    ASSUME OperationsInv, NEW s \in Busy, NEW o \in 1..MaxOp, NEW init \in BOOLEAN, NEW header,
           Submit(s, o, init, header) \/ SubmitRefused(s, o, header)
    PROVE  OperationsInv'
<1>1. OperationsTypeOK'
      BY SubmitsKeepType DEF OperationsInv
<1>2. /\ inside = None /\ s \in active /\ ~Going(s) /\ o > high[s]
      /\ high' = [high EXCEPT ![s] = o]
      /\ UNCHANGED <<active, http, inside>> /\ ran' \subseteq ran \cup {<<s, o>>}
      BY DEF Submit, SubmitRefused, Acceptable, LockFree, admissionVars
<1>3. PICK op \in Operations, w \in Workers :
        /\ operation' = [operation EXCEPT ![s] = op] /\ worker' = [worker EXCEPT ![s] = w]
        /\ op.id = o /\ w.state # "finished" /\ (w.state \in Live => op.terminal = "none")
      BY SubmitFacts
<1>4. /\ \A t \in Busy : t # s => operation'[t] = operation[t] /\ worker'[t] = worker[t]
      /\ operation'[s] # None /\ operation'[s].id = o /\ worker'[s].state # "finished"
      /\ worker'[s].state \in Live => operation'[s].terminal = "none"
      BY <1>3, NoneIsNothing DEF OperationsInv, OperationsTypeOK
<1>5. WorkerIsOwned'
      BY <1>2, <1>4 DEF OperationsInv, WorkerIsOwned, Going
<1>6. BelowHigh'
  <2>1. \A t \in Busy : high[t] \in Nat /\ high'[t] = (IF t = s THEN o ELSE high[t])
        BY <1>2 DEF OperationsInv, OperationsTypeOK
  <2>2. http[s] # None => http[s] \in Nat /\ http[s] <= high[s]
        BY NoneIsNothing DEF OperationsInv, OperationsTypeOK, BelowHigh
  <2>3. \A t \in Busy, p \in 1..MaxOp : <<t, p>> \in ran' =>
              \/ <<t, p>> \in ran
              \/ t = s /\ p = o
    <3> SUFFICES ASSUME NEW t \in Busy, NEW p \in 1..MaxOp, <<t, p>> \in ran', <<t, p>> \notin ran
                 PROVE  t = s /\ p = o
        OBVIOUS
    <3>1. <<t, p>> = <<s, o>>
          BY <1>2
    <3> QED BY <3>1
  <2> QED BY <1>2, <1>4, <2>1, <2>2, <2>3 DEF OperationsInv, BelowHigh
<1>7. InsideMatches'
      BY <1>2, NoneIsNothing DEF InsideMatches, Insides
<1>8. OutcomesMatch'
      BY <1>4 DEF OperationsInv, OutcomesMatch
<1> QED BY <1>1, <1>5, <1>6, <1>7, <1>8 DEF OperationsInv

LEMMA CancelsKeep ==
    ASSUME OperationsInv, NEW s \in Busy, Cancel(s) \/ CancelJoined(s) \/ CancelEnded(s)
    PROVE  OperationsInv'
<1>1. OperationsTypeOK'
      BY CancelsKeepType DEF OperationsInv
<1>2. Going(s) /\ operation[s] # None /\ operation[s] \in Operations
      BY DEF Cancel, CancelJoined, CancelEnded, Going, Finished, OperationsInv, InsideMatches,
             OperationsTypeOK
<1>3. CASE Cancel(s)
  <2>1. /\ \A t \in Busy : t # s => operation'[t] = operation[t]
        /\ operation'[s] = [operation[s] EXCEPT !.waiting = 0, !.chan = 0]
        /\ inside' = <<"cancel", {s}>> /\ UNCHANGED <<active, high, http, ran>>
        BY <1>2, <1>3 DEF Cancel, OperationsInv, OperationsTypeOK, admissionVars
  <2>2. \A t \in Busy :
          /\ worker'[t].state = worker[t].state /\ worker'[t].outcome = worker[t].outcome
          /\ worker[t].aborted => worker'[t].aborted
        BY <1>3 DEF Cancel, Abort, OperationsInv, OperationsTypeOK, Workers
  <2>3. /\ operation'[s] # None /\ operation'[s].terminal = operation[s].terminal
        /\ operation'[s].id = operation[s].id /\ operation'[s].response = operation[s].response
    <3>1. operation'[s] \in Operations
          BY <1>2, <2>1, OperationShapes
    <3> QED BY <1>2, <2>1, <3>1, NoneIsNothing DEF Operations
  <2>4. \A t \in Busy : Going(t)' <=> Going(t)
        BY <1>2, <2>1, <2>3 DEF Going
  <2>5. WorkerIsOwned' /\ OutcomesMatch'
        BY <2>1, <2>2, <2>4 DEF OperationsInv, WorkerIsOwned, OutcomesMatch
  <2>6. BelowHigh'
        BY <2>1, <2>3, <1>2 DEF OperationsInv, BelowHigh
  <2>7. InsideMatches'
        BY <1>2, <2>1, <2>4 DEF InsideMatches
  <2> QED BY <1>1, <2>5, <2>6, <2>7 DEF OperationsInv
<1>4. CASE CancelJoined(s) \/ CancelEnded(s)
  <2>1. PICK end \in {"none"} \cup Terminals :
          /\ operation' = [operation EXCEPT ![s] = [operation[s] EXCEPT !.terminal = end]]
          /\ worker[s].state \notin Live
    <3>1. worker[s].outcome \in {"none"} \cup Terminals
          BY WorkerShapes DEF OperationsInv, OperationsTypeOK
    <3> QED BY <1>2, <1>4, <3>1
            DEF CancelJoined, CancelEnded, Joined, Finished, Live, Terminals
  <2>2. /\ UNCHANGED <<active, high, http, worker, ran>>
        /\ \A t \in Busy : inside' # <<"poll", {t}>> /\ inside' # <<"cancel", {t}>>
        BY <1>4, NoneIsNothing
           DEF CancelJoined, CancelEnded, LockFree, Insides, admissionVars
  <2>3. /\ \A t \in Busy : t # s => operation'[t] = operation[t]
        /\ operation'[s].id = operation[s].id /\ operation'[s].response = operation[s].response
        BY <1>2, <2>1 DEF OperationsInv, OperationsTypeOK, Operations
  <2>4. WorkerIsOwned' /\ OutcomesMatch'
        BY <2>1, <2>2, <2>3 DEF OperationsInv, WorkerIsOwned, OutcomesMatch, Going
  <2>5. BelowHigh'
        BY <1>2, <2>2, <2>3 DEF OperationsInv, BelowHigh
  <2> QED BY <1>1, <2>2, <2>4, <2>5 DEF OperationsInv, InsideMatches
<1> QED BY <1>3, <1>4

\* A response is made of the operation's end and the number of HTTP session ids issued.
LEMMA RespondAnswers ==
    ASSUME OperationsInv, NEW s \in Busy, PollRespond(s)
    PROVE  /\ operation[s] # None /\ operation[s] \in Operations /\ UNCHANGED worker
           /\ \E r \in Responses :
                 operation' = [operation EXCEPT ![s] = [operation[s] EXCEPT !.response = r]]
<1> DEFINE status == Status(operation[s].terminal)
           issues == operation[s].init /\ inited[s] /\ status = 200
           r == [status |-> status, id |-> IF issues THEN http[s] + 1 ELSE 0]
<1>1. /\ operation[s] # None /\ operation[s].terminal # "none" /\ http[s] # None
      /\ operation[s].response = None
      BY DEF PollRespond, OperationsInv, InsideMatches
<1>2. operation[s] \in Operations /\ operation[s].terminal \in Terminals
      BY <1>1 DEF OperationsInv, OperationsTypeOK, Operations
<1>3. status \in {200, 204, 500, 503}
      BY <1>2 DEF Status, Terminals
<1>4. http[s] + 1 \in HttpIds
      BY <1>1, SessionsAssumption, NoneIsNothing
         DEF OperationsInv, OperationsTypeOK, BelowHigh, HttpIds
<1>5. r \in Responses
      BY <1>3, <1>4 DEF Responses
<1>6. operation' = [operation EXCEPT ![s] = [operation[s] EXCEPT !.response = r]]
      BY DEF PollRespond
<1> HIDE DEF r
<1> QED BY <1>1, <1>2, <1>5, <1>6 DEF PollRespond

\* An operation keeps its number, and an end it has come to.
LEMMA AnswersKeep ==
    ASSUME OperationsInv, NEW s \in Busy,
           Complete(s) \/ PollEnded(s) \/ PollCallback(s) \/ PollRespond(s)
    PROVE  OperationsInv'
<1>1. OperationsTypeOK'
      BY AnswersKeepType DEF OperationsInv
<1>2. /\ operation[s] # None /\ operation[s] \in Operations /\ worker[s] \in Workers
      /\ UNCHANGED <<active, high, ran>>
      BY DEF Complete, PollEnded, PollCallback, PollRespond, Going, OperationsInv, InsideMatches,
             OperationsTypeOK, admissionVars
<1>3. /\ \A t \in Busy : t # s => operation'[t] = operation[t] /\ worker'[t] = worker[t]
      /\ operation'[s] # None /\ operation'[s].id = operation[s].id
  <2>1. /\ \A t \in Busy : t # s => operation'[t] = operation[t] /\ worker'[t] = worker[t]
        /\ operation'[s].id = operation[s].id
        BY <1>2 DEF Complete, PollEnded, PollCallback, PollRespond, OperationsInv,
                    OperationsTypeOK, Operations
  <2>2. operation'[s] \in Operations
    <3> USE <1>2, OperationShapes DEF OperationsInv, OperationsTypeOK
    <3>1. CASE Complete(s)
          BY <3>1 DEF Complete
    <3>2. CASE PollCallback(s)
          BY <3>2 DEF PollCallback
    <3>3. CASE PollEnded(s)
          BY <3>3, WorkerShapes DEF PollEnded
    <3>4. CASE PollRespond(s)
      <4>1. PICK r \in Responses :
              operation' = [operation EXCEPT ![s] = [operation[s] EXCEPT !.response = r]]
            BY <3>4, RespondAnswers
      <4> QED BY <4>1
    <3> QED BY <3>1, <3>2, <3>3, <3>4
  <2> QED BY <2>1, <2>2, NoneIsNothing
<1>4. CASE Complete(s) \/ PollCallback(s)
  <2>1. /\ operation'[s].terminal = operation[s].terminal
        /\ operation'[s].response = operation[s].response
        /\ inside = None /\ inside' = None /\ http' = http
        BY <1>2, <1>4
           DEF Complete, PollCallback, LockFree, OperationsInv, OperationsTypeOK, Operations
  <2>2. /\ worker'[s].aborted = worker[s].aborted /\ worker'[s].outcome = worker[s].outcome
        /\ worker'[s].state \in Live <=> worker[s].state \in Live
        /\ worker'[s].state = "finished" <=> worker[s].state = "finished"
        BY <1>2, <1>4 DEF Complete, PollCallback, OperationsInv, OperationsTypeOK, Workers, Live
  <2>3. WorkerIsOwned' /\ OutcomesMatch'
        BY <1>2, <1>3, <2>1, <2>2 DEF OperationsInv, WorkerIsOwned, OutcomesMatch, Going
  <2>4. BelowHigh'
        BY <1>2, <1>3, <2>1 DEF OperationsInv, BelowHigh
  <2>5. InsideMatches'
        BY <2>1, NoneIsNothing DEF InsideMatches, Insides
  <2> QED BY <1>1, <2>3, <2>4, <2>5 DEF OperationsInv
<1>5. CASE PollEnded(s)
  <2>1. /\ operation'[s].terminal =
             (IF Going(s) THEN worker[s].outcome ELSE operation[s].terminal)
        /\ operation'[s].response = operation[s].response
        /\ UNCHANGED <<http, worker>>
        /\ inside' = (IF NeedsResponse(s) THEN <<"poll", {s}>> ELSE None)
        /\ Going(s) => worker[s].state = "finished"
        BY <1>2, <1>5 DEF PollEnded, Finished, OperationsInv, OperationsTypeOK, Operations
  <2>2. operation'[s].terminal # "none"
        BY <1>2, <2>1 DEF Going, OperationsInv, OutcomesMatch
  <2>3. WorkerIsOwned' /\ OutcomesMatch'
        BY <1>2, <1>3, <2>1, <2>2
           DEF OperationsInv, WorkerIsOwned, OutcomesMatch, Going, Live
  <2>4. BelowHigh'
        BY <1>2, <1>3, <2>1 DEF OperationsInv, BelowHigh
  <2>5. InsideMatches'
    <3>1. \A t \in Busy : inside' # <<"cancel", {t}>>
          BY <2>1, NoneIsNothing DEF Insides
    <3>2. \A t \in Busy : inside' = <<"poll", {t}>> => t = s /\ NeedsResponse(s)
          BY <2>1, NoneIsNothing DEF Insides
    <3> QED BY <1>3, <2>1, <2>2, <3>1, <3>2 DEF InsideMatches, NeedsResponse
  <2> QED BY <1>1, <2>3, <2>4, <2>5 DEF OperationsInv
<1>6. CASE PollRespond(s)
  <2>1. /\ operation'[s].terminal = operation[s].terminal /\ operation'[s].response # None
        /\ inside' = None /\ worker' = worker
    <3>1. PICK r \in Responses :
            operation' = [operation EXCEPT ![s] = [operation[s] EXCEPT !.response = r]]
          BY <1>6, RespondAnswers
    <3>2. operation'[s].terminal = operation[s].terminal /\ operation'[s].response = r
          BY <1>2, <3>1 DEF OperationsInv, OperationsTypeOK, Operations
    <3> QED BY <1>6, <3>2, NoneIsNothing DEF PollRespond
  <2>2. /\ http[s] # None /\ http[s] \in Nat /\ http[s] < high[s]
        BY <1>2, <1>6, NoneIsNothing
           DEF PollRespond, OperationsInv, OperationsTypeOK, InsideMatches, BelowHigh
  <2>3. /\ \A t \in Busy : t # s => http'[t] = http[t]
        /\ http'[s] \in {http[s], http[s] + 1}
        BY <1>6 DEF PollRespond, OperationsInv, OperationsTypeOK
  <2>4. BelowHigh'
    <3>1. high[s] \in Nat /\ http'[s] <= high[s]
          BY <2>2, <2>3, SessionsAssumption DEF OperationsInv, OperationsTypeOK
    <3> QED BY <1>2, <1>3, <2>1, <2>3, <3>1 DEF OperationsInv, BelowHigh
  <2>5. WorkerIsOwned' /\ OutcomesMatch'
        BY <1>2, <1>3, <2>1 DEF OperationsInv, WorkerIsOwned, OutcomesMatch, Going
  <2>6. InsideMatches'
        BY <2>1, NoneIsNothing DEF InsideMatches, Insides
  <2> QED BY <1>1, <2>4, <2>5, <2>6 DEF OperationsInv
<1> QED BY <1>4, <1>5, <1>6

\* The task leaves what its operation has come to.
LEMMA WorkerKeeps ==
    ASSUME OperationsInv, NEW s \in Busy, WorkerStep(s)
    PROVE  OperationsInv'
<1>1. OperationsTypeOK'
      BY WorkerKeepsType DEF OperationsInv
<1>2. /\ UNCHANGED <<active, high, http, inside, ran>> /\ worker[s] \in Workers
      /\ \A t \in Busy : t # s => operation'[t] = operation[t] /\ worker'[t] = worker[t]
      BY DEF WorkerStep, WorkerStart, WorkerAsk, WorkerFinish, WorkerAborted, WorkerEnd,
             OperationsInv, OperationsTypeOK, admissionVars
<1>3. /\ operation'[s] = None <=> operation[s] = None
      /\ operation[s] # None =>
            /\ operation'[s].id = operation[s].id
            /\ operation'[s].terminal = operation[s].terminal
            /\ operation'[s].response = operation[s].response
  <2>1. CASE WorkerAsk(s)
    <3>1. operation[s] # None /\ operation[s] \in Operations /\ operation'[s] \in {None} \cup Operations
          BY <1>1, <2>1 DEF WorkerAsk, OperationsInv, OperationsTypeOK
    <3>2. operation'[s] = [operation[s] EXCEPT !.chan = worker[s].calls + 1]
          BY <2>1 DEF WorkerAsk, OperationsInv, OperationsTypeOK
    <3>3. operation'[s] # None
      <4>1. worker[s].calls + 1 \in 0..MaxCalls
        <5>1. worker[s].calls \in 0..MaxCalls /\ worker[s].calls < MaxCalls
              BY <1>2, <2>1, WorkerShapes DEF WorkerAsk
        <5> QED BY <5>1, SessionsAssumption
      <4> QED BY <3>1, <3>2, <4>1, OperationShapes, NoneIsNothing
    <3> QED BY <3>1, <3>2, <3>3 DEF Operations
  <2>2. CASE ~WorkerAsk(s)
        BY <2>2 DEF WorkerStep, WorkerStart, WorkerFinish, WorkerAborted, WorkerEnd
  <2> QED BY <2>1, <2>2
<1>4. /\ worker'[s].state \in Live => worker[s].state \in Live /\ worker'[s].aborted = worker[s].aborted
      /\ worker'[s].state = "finished" => worker'[s].outcome # "none"
  <2>1. CASE WorkerStart(s) \/ WorkerAsk(s)
        BY <1>2, <2>1
           DEF WorkerStart, WorkerAsk, OperationsInv, OperationsTypeOK, Workers, Live
  <2>2. ASSUME NEW end \in Terminals, WorkerEnd(s, end)
        PROVE  worker'[s].state = "finished" /\ worker'[s].outcome # "none"
        BY <1>2, <2>2 DEF WorkerEnd, OperationsInv, OperationsTypeOK, Workers, Terminals
  <2>3. CASE WorkerFinish(s) \/ WorkerAborted(s)
    <3>1. \E end \in Terminals : WorkerEnd(s, end)
          BY <2>3 DEF WorkerFinish, WorkerAborted, Terminals
    <3> QED BY <2>2, <3>1 DEF Live
  <2> QED BY <2>1, <2>3 DEF WorkerStep
<1>5. WorkerIsOwned' /\ OutcomesMatch'
      BY <1>2, <1>3, <1>4 DEF OperationsInv, WorkerIsOwned, OutcomesMatch, Going
<1>6. BelowHigh'
      BY <1>2, <1>3 DEF OperationsInv, BelowHigh
<1>7. InsideMatches'
      BY <1>2, <1>3 DEF OperationsInv, InsideMatches, Going
<1> QED BY <1>1, <1>5, <1>6, <1>7 DEF OperationsInv

LEMMA ReadersKeep ==
    ASSUME OperationsInv, NEW s \in Busy, Metadata(s) \/ ReaderLocks(s) \/ ReaderDone(s)
    PROVE  OperationsInv'
<1>1. OperationsTypeOK'
      BY RestKeepsType DEF OperationsInv
<1> QED BY <1>1 DEF Metadata, ReaderLocks, ReaderDone, admissionVars, OperationsInv,
                    WorkerIsOwned, BelowHigh, InsideMatches, OutcomesMatch, Going

LEMMA OperationsStep == OperationsInv /\ [Next]_vars => OperationsInv'
<1> SUFFICES ASSUME OperationsInv, [Next]_vars PROVE OperationsInv'
    OBVIOUS
<1>1. CASE UNCHANGED vars
      BY <1>1 DEF vars, admissionVars, sessionVars, OperationsInv, OperationsTypeOK,
                  WorkerIsOwned, BelowHigh, InsideMatches, OutcomesMatch, Going
<1> QED BY <1>1, HostKeeps, SubmitsKeep, CancelsKeep, AnswersKeep, WorkerKeeps, ReadersKeep
        DEF Next, Host, Poll

\* What is at work, what the numbers say and what a waiting call relies on
\* (server/bridge/operations.rs).
THEOREM OperationsInvariant == Spec => []OperationsInv
BY OperationsInit, OperationsStep, PTL DEF Spec

\* No task works for a session that is closed or an operation that has ended, unless it
\* has been told to stop, whoever drops a close, a shutdown or a cancel half way
\* (operations.rs, Operation::stop).
THEOREM WorkersStayOwned == Spec => []SessionsInv
<1>1. AdmissionTypeOK /\ OperationsInv => SessionsInv
      BY DEF OperationsInv, OperationsTypeOK, SessionsInv, SessionsTypeOK, Workers
<1> QED BY <1>1, OperationsInvariant, SessionsImplementAdmission, AdmissionTypeCorrect, PTL

-----------------------------------------------------------------------------
(* What a step may never do to an operation.                               *)

\* A task is put in the queue by a submit with a number above all that were started.
LEMMA StartsAreNew ==
    ASSUME OperationsInv, [Next]_vars, NEW s \in Busy,
           worker[s].state # "queued", worker'[s].state = "queued"
    PROVE  <<s, operation'[s].id>> \notin ran
<1>1. CASE UNCHANGED vars
      BY <1>1 DEF vars, sessionVars
<1>2. ASSUME NEW S \in SUBSET Busy, Take(S) \/ \E t \in Busy : Cancel(t)
      PROVE  worker'[s].state = worker[s].state
  <2>1. worker[s] \in Workers
        BY DEF OperationsInv, OperationsTypeOK
  <2>2. \/ worker'[s] = worker[s]
        \/ worker'[s] = [worker[s] EXCEPT !.aborted = TRUE]
        BY <1>2 DEF Take, Cancel, Abort
  <2> QED BY <2>1, <2>2 DEF Workers
<1>3. ASSUME NEW t \in Busy, NEW o \in 1..MaxOp, NEW init \in BOOLEAN, NEW header,
             Submit(t, o, init, header)
      PROVE  <<s, operation'[s].id>> \notin ran
  <2>1. t = s
        BY <1>3 DEF Submit, OperationsInv, OperationsTypeOK
  <2>2. operation'[s].id = o
        BY <1>3, <2>1 DEF Submit, NewOperation, OperationsInv, OperationsTypeOK
  <2>3. o > high[s] /\ high[s] \in Nat
        BY <1>3, <2>1, SessionsAssumption DEF Submit, Acceptable, OperationsInv, OperationsTypeOK
  <2> QED BY <2>2, <2>3 DEF OperationsInv, BelowHigh
<1>4. ASSUME NEW t \in Busy, Complete(t) \/ WorkerStep(t)
      PROVE  worker'[s].state # "queued"
  <2>1. worker[t] \in Workers /\ worker[s] \in Workers
        BY DEF OperationsInv, OperationsTypeOK
  <2>2. CASE Complete(t)
        BY <2>1, <2>2 DEF Complete, OperationsInv, OperationsTypeOK, Workers
  <2>3. CASE WorkerStart(t) \/ WorkerAsk(t)
        BY <2>1, <2>3 DEF WorkerStart, WorkerAsk, OperationsInv, OperationsTypeOK, Workers
  <2>4. ASSUME NEW end, WorkerEnd(t, end)
        PROVE  worker'[s].state # "queued"
        BY <2>1, <2>4 DEF WorkerEnd, OperationsInv, OperationsTypeOK, Workers
  <2> QED BY <1>4, <2>2, <2>3, <2>4 DEF WorkerStep, WorkerFinish, WorkerAborted
<1>5. ASSUME \/ \E id \in Ids : OpenSession(id) \/ Close(id)
             \/ Shutdown \/ Abandon \/ CloseJoined
      PROVE  worker'[s].state # "queued"
  <2>1. \/ worker' = worker
        \/ \E S \in SUBSET Busy : Take(S)
        BY <1>5 DEF OpenSession, Close, Shutdown, Abandon, CloseJoined, sessionVars
  <2> QED BY <1>2, <2>1
<1>6. ASSUME NEW t \in Busy, NEW o \in 1..MaxOp, NEW header, SubmitRefused(t, o, header)
      PROVE  worker'[s].state # "queued"
      BY <1>6 DEF SubmitRefused, NoWorker, OperationsInv, OperationsTypeOK
<1>7. ASSUME NEW t \in Busy,
             \/ Poll(t) \/ PollRespond(t) \/ CancelJoined(t) \/ CancelEnded(t)
             \/ Metadata(t) \/ ReaderLocks(t) \/ ReaderDone(t)
      PROVE  worker' = worker
      BY <1>7 DEF Poll, PollEnded, PollCallback, PollRespond, CancelJoined, CancelEnded,
                  Metadata, ReaderLocks, ReaderDone
<1>8. ASSUME NEW t \in Busy, Cancel(t)
      PROVE  worker'[s].state # "queued"
      BY <1>2, <1>8
<1> QED BY <1>1, <1>3, <1>4, <1>5, <1>6, <1>7, <1>8 DEF Next, Host

\* An operation is started at most once, however often and however late the host sends
\* its submit. (README.md of server/bridge: "every older counter is refused")
THEOREM OperationsStartOnce == Spec => StartedOnce
<1>1. OperationsInv /\ [Next]_vars =>
        [\A s \in Busy : worker[s].state # "queued" /\ worker'[s].state = "queued"
           => <<s, operation'[s].id>> \notin ran]_vars
      BY StartsAreNew
<1> QED BY <1>1, OperationsInvariant, PTL DEF Spec, StartedOnce

\* The operation that a step finds ended and leaves with its number.
Ended(s) == operation[s] # None /\ operation[s].terminal # "none"
Stays(s) == operation'[s] # None /\ operation'[s].id = operation[s].id

LEMMA EndsStay ==
    ASSUME OperationsInv, [Next]_vars, NEW s \in Busy, Ended(s), Stays(s)
    PROVE  /\ operation'[s].terminal = operation[s].terminal
           /\ operation[s].response # None => operation'[s] = operation[s]
<1>1. ASSUME operation'[s] = operation[s]
      PROVE  /\ operation'[s].terminal = operation[s].terminal
             /\ operation[s].response # None => operation'[s] = operation[s]
      BY <1>1
<1>2. ~Going(s) /\ operation[s] \in Operations
      BY DEF Ended, Going, OperationsInv, OperationsTypeOK
<1>3. CASE UNCHANGED vars
      BY <1>1, <1>3 DEF vars, sessionVars
<1>4. ASSUME NEW t \in Busy, NEW o \in 1..MaxOp, NEW init \in BOOLEAN, NEW header,
             Submit(t, o, init, header) \/ SubmitRefused(t, o, header)
      PROVE  operation'[s] = operation[s]
  <2>1. CASE t # s
        BY <1>4, <2>1 DEF Submit, SubmitRefused, OperationsInv, OperationsTypeOK
  <2>2. CASE t = s
    <3>1. operation'[s].id = o
          BY <1>4, <2>2, SubmitFacts DEF OperationsInv, OperationsTypeOK
    <3>2. o > high[s] /\ high[s] \in Nat /\ operation[s].id \in Nat /\ operation[s].id <= high[s]
      <4>1. o > high[s]
            BY <1>4, <2>2 DEF Submit, SubmitRefused, Acceptable
      <4>2. high[s] \in Nat /\ operation[s].id \in Nat
            BY <1>2, SessionsAssumption DEF OperationsInv, OperationsTypeOK, Operations
      <4> QED BY <4>1, <4>2 DEF Ended, OperationsInv, BelowHigh
    <3> QED BY <3>1, <3>2 DEF Stays
  <2> QED BY <2>1, <2>2
<1>5. ASSUME NEW t \in Busy, Complete(t) \/ PollCallback(t) \/ Cancel(t) \/ CancelEnded(t)
      PROVE  operation'[s] = operation[s]
  <2>1. Going(t)
        BY <1>5 DEF Complete, PollCallback, Cancel, CancelEnded, Finished
  <2>2. t # s
        BY <1>2, <2>1
  <2> QED BY <1>5, <2>2 DEF Complete, PollCallback, Cancel, CancelEnded, OperationsInv,
                            OperationsTypeOK
<1>6. ASSUME NEW t \in Busy, CancelJoined(t)
      PROVE  operation'[s] = operation[s]
  <2>1. t # s
        BY <1>2, <1>6 DEF CancelJoined, OperationsInv, InsideMatches
  <2> QED BY <1>6, <2>1 DEF CancelJoined, OperationsInv, OperationsTypeOK
<1>7. ASSUME NEW t \in Busy, PollEnded(t)
      PROVE  operation'[s] = operation[s]
      BY <1>2, <1>7 DEF PollEnded, OperationsInv, OperationsTypeOK, Operations
<1>8. ASSUME NEW t \in Busy, PollRespond(t)
      PROVE  /\ operation'[s].terminal = operation[s].terminal
             /\ operation[s].response # None => operation'[s] = operation[s]
  <2>1. PICK r \in Responses :
          operation' = [operation EXCEPT ![t] = [operation[t] EXCEPT !.response = r]]
        BY <1>8, RespondAnswers
  <2>2. operation[t].response = None
        BY <1>8 DEF PollRespond, OperationsInv, InsideMatches
  <2> QED BY <1>2, <2>1, <2>2 DEF OperationsInv, OperationsTypeOK, Operations
<1>9. ASSUME NEW t \in Busy, WorkerStep(t)
      PROVE  operation'[s] = operation[s]
  <2>1. CASE WorkerAsk(t)
    <3>1. worker[t].state \in Live /\ ~worker[t].aborted
          BY <2>1 DEF WorkerAsk, Live
    <3>2. t # s
          BY <1>2, <3>1 DEF OperationsInv, WorkerIsOwned
    <3> QED BY <2>1, <3>2 DEF WorkerAsk, OperationsInv, OperationsTypeOK
  <2>2. CASE ~WorkerAsk(t)
        BY <1>9, <2>2 DEF WorkerStep, WorkerStart, WorkerFinish, WorkerAborted, WorkerEnd
  <2> QED BY <2>1, <2>2
<1>10. ASSUME \/ \E id \in Ids : OpenSession(id) \/ Close(id)
              \/ Shutdown \/ Abandon \/ CloseJoined
       PROVE  operation'[s] = operation[s]
  <2>1. \/ operation' = operation
        \/ \E S \in SUBSET Busy : Take(S)
        BY <1>10 DEF OpenSession, Close, Shutdown, Abandon, CloseJoined, sessionVars
  <2> QED BY <2>1 DEF Take, Stays
<1>11. ASSUME NEW t \in Busy, Metadata(t) \/ ReaderLocks(t) \/ ReaderDone(t)
       PROVE  operation' = operation
       BY <1>11 DEF Metadata, ReaderLocks, ReaderDone
<1> QED BY <1>1, <1>3, <1>4, <1>5, <1>6, <1>7, <1>8, <1>9, <1>10, <1>11 DEF Next, Host, Poll

\* An operation runs once, and what it ended with, and the HTTP session id it issued, never
\* change while it is the session's operation. "Terminal responses remain replayable until a
\* new accepted operation explicitly acknowledges them" (README.md of server/bridge)
THEOREM OperationsRunOnce == Spec => RunsOnce
<1>1. OperationsInv /\ [Next]_vars =>
        [\A s \in Busy :
          operation[s] # None /\ operation[s].terminal # "none" /\ operation'[s] # None
            /\ operation'[s].id = operation[s].id
          => /\ operation'[s].terminal = operation[s].terminal
             /\ operation[s].response # None => operation'[s] = operation[s]]_vars
      BY EndsStay DEF Ended, Stays
<1> QED BY <1>1, OperationsInvariant, OperationsStartOnce, PTL DEF Spec, EndIsReplayable, RunsOnce

-----------------------------------------------------------------------------
(* Sums over the naturals. *)

\* The finite sets are well-founded, so the naturals are: induction, for a set.
LEMMA Induction ==
    ASSUME NEW S, 0 \in S, \A n \in Nat : n \in S => n + 1 \in S
    PROVE  Nat \subseteq S
<1> DEFINE T == {0 .. n : n \in Nat \ S}
<1> DEFINE R == StrictSubsetOrdering(Nat)
<1> DEFINE F == FiniteSubsetsOf(Nat)
<1> SUFFICES ASSUME T # {} PROVE FALSE
  OBVIOUS
<1>1. IsWellFoundedOn(R, F)
  BY ONLY FS_StrictSubsetOrderingWellFounded
<1>2. \A n \in Nat : IsFiniteSet(0 .. n) /\ 0 .. n \in SUBSET Nat
  BY FS_Interval
<1>3. T \subseteq F
  BY <1>2 DEF FiniteSubsetsOf
<1>4. T # {}
  OBVIOUS
<1> HIDE DEF T, R, F
<1>5. \E x \in T : \A y \in T : ~(<<y, x>> \in R)
  BY ONLY <1>1, <1>3, <1>4, WFMin
<1>6. PICK x \in T : \A y \in T : ~(<<y, x>> \in R)
  BY <1>5
<1>7. PICK n \in Nat \ S : x = 0 .. n
  BY DEF T
<1>8. n - 1 \in Nat \ S
  BY <1>7
<1>9. 0 .. (n - 1) \in T
  BY <1>8 DEF T
<1>10. <<0 .. (n - 1), 0 .. n>> \in (SUBSET Nat) \X (SUBSET Nat)
  BY <1>2, <1>7, <1>8
<1>11. 0 .. (n - 1) \subseteq 0 .. n /\ 0 .. (n - 1) # 0 .. n
  <2>1. n \in 0 .. n /\ n \notin 0 .. (n - 1)
    BY <1>7
  <2> QED
    BY <1>7, <2>1
<1>12. <<0 .. (n - 1), x>> \in R
  BY <1>7, <1>10, <1>11 DEF R, StrictSubsetOrdering
<1> QED
  BY <1>6, <1>9, <1>12

\* Sums of the first terms.
SumsUpTo(w, n) ==
    {g \in [0 .. n -> Nat] : g[0] = 0 /\ \A i \in 1 .. n : g[i] = g[i - 1] + w[i]}

LEMMA OneSum ==
    ASSUME NEW w \in [Nat -> Nat], NEW m \in Nat, NEW n \in Nat,
           NEW g \in SumsUpTo(w, m), NEW h \in SumsUpTo(w, n)
    PROVE  \A i \in Nat : i <= m /\ i <= n => g[i] = h[i]
<1> DEFINE S == {i \in Nat : i <= m /\ i <= n => g[i] = h[i]}
<1>1. 0 \in S
  BY DEF SumsUpTo
<1>2. ASSUME NEW i \in Nat, i \in S
      PROVE  i + 1 \in S
  <2>1. SUFFICES ASSUME i + 1 <= m, i + 1 <= n
                 PROVE  g[i + 1] = h[i + 1]
    OBVIOUS
  <2>2. /\ i + 1 \in 1 .. m /\ i + 1 \in 1 .. n /\ (i + 1) - 1 = i
        /\ i <= m /\ i <= n
    BY <2>1
  <2>3. g[i + 1] = g[(i + 1) - 1] + w[i + 1] /\ h[i + 1] = h[(i + 1) - 1] + w[i + 1]
    BY <2>2 DEF SumsUpTo
  <2>4. g[i] = h[i]
    BY <1>2, <2>2
  <2> QED
    BY <2>2, <2>3, <2>4
<1> HIDE DEF S
<1>3. Nat \subseteq S
  BY ONLY <1>1, <1>2, Induction
<1> QED
  BY <1>3 DEF S

LEMMA SumsAreThere ==
    ASSUME NEW w \in [Nat -> Nat]
    PROVE  \A n \in Nat : SumsUpTo(w, n) # {}
<1> DEFINE S == {n \in Nat : SumsUpTo(w, n) # {}}
<1>1. 0 \in S
  <2> DEFINE g == [i \in 0 .. 0 |-> 0]
  <2>1. g \in SumsUpTo(w, 0)
    BY DEF SumsUpTo
  <2> QED
    BY <2>1
<1>2. ASSUME NEW n \in Nat, n \in S
      PROVE  n + 1 \in S
  <2>1. PICK g \in SumsUpTo(w, n) : TRUE
    BY <1>2
  <2>2. /\ g \in [0 .. n -> Nat] /\ g[0] = 0
        /\ \A i \in 1 .. n : g[i] = g[i - 1] + w[i]
    BY <2>1 DEF SumsUpTo
  <2> DEFINE h == [i \in 0 .. (n + 1) |-> IF i <= n THEN g[i] ELSE g[n] + w[n + 1]]
  <2>3. h \in [0 .. (n + 1) -> Nat] /\ h[0] = 0 /\ h[n + 1] = g[n] + w[n + 1] /\ h[n] = g[n]
    <3>1. 0 \in 0 .. n /\ n \in 0 .. n /\ n + 1 \in 0 .. (n + 1) /\ n + 1 \in Nat
      OBVIOUS
    <3>2. \A i \in 0 .. n : g[i] \in Nat /\ i \in 0 .. (n + 1)
      BY <2>2
    <3>3. g[n] + w[n + 1] \in Nat
      BY <3>1, <3>2
    <3>4. \A i \in 0 .. (n + 1) : (IF i <= n THEN g[i] ELSE g[n] + w[n + 1]) \in Nat
      BY <3>2, <3>3
    <3>5. h \in [0 .. (n + 1) -> Nat]
      BY <3>4
    <3>6. ~(n + 1 <= n) /\ n <= n /\ 0 <= n /\ 0 \in 0 .. (n + 1) /\ n \in 0 .. (n + 1)
      OBVIOUS
    <3>7. h[0] = g[0] /\ h[n] = g[n] /\ h[n + 1] = g[n] + w[n + 1]
      BY <3>1, <3>6, Zenon
    <3> QED
      BY <2>2, <3>5, <3>7
  <2>4. \A i \in 0 .. n : h[i] = g[i]
    OBVIOUS
  <2> HIDE DEF h
  <2>5. ASSUME NEW i \in 1 .. (n + 1)
        PROVE  h[i] = h[i - 1] + w[i]
    <3>1. CASE i = n + 1
      BY <2>3, <3>1
    <3>2. CASE i # n + 1
      <4>1. i \in 1 .. n /\ i \in 0 .. n /\ i - 1 \in 0 .. n
        BY <3>2
      <4> QED
        BY <2>2, <2>4, <4>1
    <3> QED
      BY <3>1, <3>2
  <2>6. h \in SumsUpTo(w, n + 1)
    BY <2>3, <2>5 DEF SumsUpTo
  <2> QED
    BY <2>6
<1> HIDE DEF S
<1>3. Nat \subseteq S
  BY ONLY <1>1, <1>2, Induction
<1> QED
  BY <1>3 DEF S

\* A sum can be defined by recursion.
LEMMA SumIsThere ==
    ASSUME NEW w \in [Nat -> Nat]
    PROVE  \E f \in [Nat -> Nat] :
              f = [n \in Nat |-> IF n = 0 THEN 0 ELSE f[n - 1] + w[n]]
<1> DEFINE sums == [n \in Nat |-> CHOOSE g \in SumsUpTo(w, n) : TRUE]
<1>1. \A n \in Nat : sums[n] \in SumsUpTo(w, n)
  BY SumsAreThere
<1> HIDE DEF sums
<1> DEFINE f == [n \in Nat |-> sums[n][n]]
<1>2. \A n \in Nat : sums[n] \in [0 .. n -> Nat] /\ n \in 0 .. n
  <2>1. \A n \in Nat : sums[n] \in [0 .. n -> Nat]
    BY <1>1, Zenon DEF SumsUpTo
  <2>2. \A n \in Nat : n \in 0 .. n
    OBVIOUS
  <2> QED
    BY <2>1, <2>2
<1>3. f \in [Nat -> Nat] /\ \A n \in Nat : f[n] = sums[n][n]
  BY <1>2
<1> HIDE DEF f
<1>4. ASSUME NEW n \in Nat
      PROVE  f[n] = IF n = 0 THEN 0 ELSE f[n - 1] + w[n]
  <2>1. CASE n = 0
    BY <1>1, <1>3, <2>1 DEF SumsUpTo
  <2>2. CASE n # 0
    <3>1. n - 1 \in Nat /\ n \in 1 .. n /\ n - 1 <= n
      BY <2>2
    <3>2. sums[n][n] = sums[n][n - 1] + w[n]
      BY <1>1, <3>1 DEF SumsUpTo
    <3>3. sums[n] \in SumsUpTo(w, n) /\ sums[n - 1] \in SumsUpTo(w, n - 1)
      BY <1>1, <3>1
    <3>4. \A i \in Nat : i <= n /\ i <= n - 1 => sums[n][i] = sums[n - 1][i]
      BY ONLY <3>1, <3>3, OneSum, w \in [Nat -> Nat], n \in Nat
    <3>5. sums[n][n - 1] = sums[n - 1][n - 1]
      BY <3>1, <3>4
    <3> QED
      BY <1>3, <2>2, <3>1, <3>2, <3>5
  <2> QED
    BY <2>1, <2>2
<1>5. f = [n \in Nat |-> IF n = 0 THEN 0 ELSE f[n - 1] + w[n]]
  BY <1>3, <1>4
<1> QED
  BY <1>3, <1>5

-----------------------------------------------------------------------------
(* ServerProtocol: for any line, budget, clients and sessions.               *)

\* What a message is, and the least its answer takes.
LEMMA MessageShape ==
    ASSUME ProtocolAssumption, NEW m \in Messages
    PROVE  /\ m.length \in Nat
           /\ MinimumResponse(m) \in Nat
           /\ Answers(m) => MinimumResponse(m) <= m.length
           /\ m.kind = "initialize" => m.asks \in Versions /\ m.name \in ClientNames
<1>1. MinLength \in Nat /\ MaxLength \in Nat /\ MinLength <= MaxLength
  BY DEF ProtocolAssumption
<1>2. CASE m \in [kind : {"invalid", "request"}, length : MinLength..MaxLength]
  <2>1. m.kind \in {"invalid", "request"} /\ m.length \in MinLength .. MaxLength
    BY <1>2
  <2> QED
    BY <1>1, <2>1 DEF MinimumResponse
<1>3. CASE m \in [kind : {"initialize"}, length : {MaxLength}, asks : Versions, name : ClientNames]
  <2>1. m.kind = "initialize" /\ m.length = MaxLength /\ m.asks \in Versions /\ m.name \in ClientNames
    BY <1>3
  <2> QED
    BY <1>1, <2>1 DEF MinimumResponse
<1>4. CASE m = [kind |-> "notification", length |-> 0]
  BY <1>1, <1>4 DEF MinimumResponse, Answers
<1> QED
  BY <1>2, <1>3, <1>4 DEF Messages

LineTypes ==
    /\ batch \in BOOLEAN /\ line \in Seq(Messages) /\ (~batch => Len(line) <= 1)
    /\ limit \in Nat /\ done \in 0..Len(line) /\ bytes \in Nat /\ count \in Nat

\* The answers of one message.
AnswerLength(i) == IF i <= Len(line) /\ Answers(line[i]) THEN line[i].length ELSE 0

LEMMA AnsweredLengthIs ==
    ASSUME ProtocolAssumption, LineTypes
    PROVE  /\ AnsweredLength \in [Nat -> Nat]
           /\ AnsweredLength[0] = 0
           /\ \A n \in Nat : AnsweredLength[n + 1] = AnsweredLength[n] + AnswerLength(n + 1)
<1> DEFINE w == [n \in Nat |-> IF n = 0 THEN 0 ELSE AnswerLength(n)]
<1>1. \A n \in Nat \ {0} : AnswerLength(n) \in Nat
  <2>1. \A n \in 1 .. Len(line) : line[n] \in Messages
    BY ElementOfSeq DEF LineTypes
  <2>2. \A n \in Nat \ {0} : n <= Len(line) => n \in 1 .. Len(line)
    BY LenProperties DEF LineTypes
  <2> QED
    BY <2>1, <2>2, MessageShape DEF AnswerLength
<1>2. w \in [Nat -> Nat]
  BY <1>1
<1>3. \A n \in Nat : n # 0 => w[n] = AnswerLength(n)
  OBVIOUS
<1> HIDE DEF w
<1>4. PICK f \in [Nat -> Nat] : f = [n \in Nat |-> IF n = 0 THEN 0 ELSE f[n - 1] + w[n]]
  BY <1>2, SumIsThere
<1>5. f = [n \in Nat |-> IF n = 0 THEN 0
                         ELSE f[n - 1] + (IF n <= Len(line) /\ Answers(line[n])
                                          THEN line[n].length ELSE 0)]
  <2>1. \A n \in Nat : (IF n = 0 THEN 0 ELSE f[n - 1] + w[n]) =
           IF n = 0 THEN 0
           ELSE f[n - 1] + (IF n <= Len(line) /\ Answers(line[n]) THEN line[n].length ELSE 0)
    BY <1>3 DEF AnswerLength
  <2> QED
    BY <1>4, <2>1, Zenon
<1>6. AnsweredLength =
        [n \in Nat |-> IF n = 0 THEN 0
                       ELSE AnsweredLength[n - 1] +
                              (IF n <= Len(line) /\ Answers(line[n])
                               THEN line[n].length ELSE 0)]
  BY <1>5, Zenon DEF AnsweredLength
<1>7. \A n \in Nat : n + 1 \in Nat /\ n + 1 # 0 /\ (n + 1) - 1 = n
  OBVIOUS
<1>8. /\ AnsweredLength[0] = 0
      /\ \A n \in Nat : AnsweredLength[n + 1] = AnsweredLength[n] + AnswerLength(n + 1)
  <2>1. \A n \in Nat : AnsweredLength[n] =
           IF n = 0 THEN 0
           ELSE AnsweredLength[n - 1] +
                (IF n <= Len(line) /\ Answers(line[n]) THEN line[n].length ELSE 0)
    BY ONLY <1>6, Zenon
  <2>2. AnsweredLength[0] = 0
    BY <2>1, 0 \in Nat
  <2>3. ASSUME NEW n \in Nat
        PROVE  AnsweredLength[n + 1] = AnsweredLength[n] + AnswerLength(n + 1)
    <3>1. AnsweredLength[n + 1] =
           IF n + 1 = 0 THEN 0
           ELSE AnsweredLength[(n + 1) - 1] +
                (IF n + 1 <= Len(line) /\ Answers(line[n + 1]) THEN line[n + 1].length ELSE 0)
      BY ONLY <1>7, <2>1, n \in Nat, Zenon
    <3> QED
      BY <1>7, <3>1 DEF AnswerLength
  <2> QED
    BY <2>2, <2>3
<1> DEFINE S == {n \in Nat : AnsweredLength[n] \in Nat}
<1>9. 0 \in S /\ \A n \in Nat : n \in S => n + 1 \in S
  <2>1. 0 \in S
    BY <1>8
  <2>2. ASSUME NEW n \in Nat, n \in S
        PROVE  n + 1 \in S
    <3>1. AnsweredLength[n] \in Nat /\ AnswerLength(n + 1) \in Nat
      BY <1>1, <1>7, <2>2
    <3> QED
      BY <1>8, <3>1
  <2> QED
    BY <2>1, <2>2
<1> HIDE DEF S
<1>10. Nat \subseteq S
  BY ONLY <1>9, Induction
<1>11. AnsweredLength \in [Nat -> Nat]
  BY <1>6, <1>10 DEF S
<1> QED
  BY <1>8, <1>11

LEMMA AnsweredLengthGrows ==
    ASSUME ProtocolAssumption, LineTypes, NEW n \in Nat
    PROVE  \A k \in Nat : n <= k => AnsweredLength[n] <= AnsweredLength[k]
<1> DEFINE S == {k \in Nat : n <= k => AnsweredLength[n] <= AnsweredLength[k]}
<1>1. AnsweredLength \in [Nat -> Nat]
  BY AnsweredLengthIs
<1>2. 0 \in S
  BY <1>1
<1>3. ASSUME NEW k \in Nat, k \in S
      PROVE  k + 1 \in S
  <2>1. CASE n <= k
    <3>1. AnsweredLength[n] <= AnsweredLength[k]
      BY <1>3, <2>1
    <3>2. /\ AnsweredLength[k] \in Nat /\ AnsweredLength[k + 1] \in Nat
          /\ AnsweredLength[k + 1] = AnsweredLength[k] + AnswerLength(k + 1)
      BY <1>1, AnsweredLengthIs
    <3>3. AnswerLength(k + 1) \in Nat
      <4>1. k + 1 <= Len(line) => line[k + 1] \in Messages
        BY ElementOfSeq, LenProperties DEF LineTypes
      <4> QED
        BY <4>1, MessageShape DEF AnswerLength
    <3> QED
      BY <1>1, <3>1, <3>2, <3>3
  <2>2. CASE ~(n <= k)
    <3>1. n <= k + 1 => n = k + 1
      BY <2>2
    <3> QED
      BY <1>1, <3>1
  <2> QED
    BY <2>1, <2>2
<1> HIDE DEF S
<1>4. Nat \subseteq S
  BY ONLY <1>2, <1>3, Induction
<1> QED
  BY <1>4 DEF S

AnswerCount(n) == Cardinality(AnsweredUpTo(n))

LEMMA AnswerCountIs ==
    ASSUME LineTypes, NEW n \in 0 .. Len(line)
    PROVE  /\ AnswerCount(n) \in Nat /\ AnswerCount(n) <= AnswerCount(Len(line))
           /\ AnswerCount(0) = 0
           /\ n < Len(line) =>
                 AnswerCount(n + 1) = AnswerCount(n) + (IF Answers(line[n + 1]) THEN 1 ELSE 0)
<1>1. Len(line) \in Nat /\ n \in Nat
  BY LenProperties DEF LineTypes
<1>2. \A k \in Nat : IsFiniteSet(AnsweredUpTo(k)) /\ AnswerCount(k) \in Nat
  <2>1. ASSUME NEW k \in Nat
        PROVE  IsFiniteSet(AnsweredUpTo(k))
    <3>1. IsFiniteSet(1 .. k)
      BY FS_Interval
    <3>2. AnsweredUpTo(k) \in SUBSET (1 .. k)
      BY DEF AnsweredUpTo
    <3> QED
      BY <3>1, <3>2, FS_Subset
  <2> QED
    BY <2>1, FS_CardinalityType DEF AnswerCount
<1>3. AnswerCount(n) <= AnswerCount(Len(line))
  <2>1. AnsweredUpTo(n) \in SUBSET AnsweredUpTo(Len(line))
    BY <1>1 DEF AnsweredUpTo
  <2> QED
    BY <1>1, <1>2, <2>1, FS_Subset DEF AnswerCount
<1>4. AnswerCount(0) = 0
  <2>1. AnsweredUpTo(0) = {}
    BY DEF AnsweredUpTo
  <2> QED
    BY <2>1, FS_EmptySet DEF AnswerCount
<1>5. ASSUME n < Len(line)
      PROVE  AnswerCount(n + 1) = AnswerCount(n) + (IF Answers(line[n + 1]) THEN 1 ELSE 0)
  <2>1. CASE Answers(line[n + 1])
    <3>1. AnsweredUpTo(n + 1) = AnsweredUpTo(n) \cup {n + 1} /\ n + 1 \notin AnsweredUpTo(n)
      BY <1>1, <2>1 DEF AnsweredUpTo
    <3>2. IsFiniteSet(AnsweredUpTo(n))
      BY <1>1, <1>2
    <3>3. Cardinality(AnsweredUpTo(n) \cup {n + 1}) = Cardinality(AnsweredUpTo(n)) + 1
      BY <3>1, <3>2, FS_AddElement
    <3> QED
      BY <2>1, <3>1, <3>3 DEF AnswerCount
  <2>2. CASE ~Answers(line[n + 1])
    <3>1. AnsweredUpTo(n + 1) = AnsweredUpTo(n)
      BY <1>1, <2>2 DEF AnsweredUpTo
    <3> QED
      BY <1>1, <1>2, <2>2, <3>1 DEF AnswerCount
  <2> QED
    BY <2>1, <2>2
<1> QED
  BY <1>1, <1>2, <1>3, <1>4, <1>5

Inits(n) == {i \in 1..n : line[i].kind = "initialize"}

(* The first and the last initialize are there, if any is.                        *)
InitsMatch ==
    \/ Inits(done) = {} /\ source = "unset" /\ version = "none"
    \/ \E lo, hi \in Inits(done) :
          /\ \A i \in Inits(done) : lo <= i /\ i <= hi
          /\ source = IF line[lo].name = "" THEN "prefix" ELSE line[lo].name
          /\ version = Negotiated(line[hi].asks)

(* What is retained while a line is answered.                                     *)
LengthMatches ==
    verdict = "running" =>
        /\ count = AnswerCount(done)
        /\ bytes = AnsweredLength[done] + (IF batch THEN count ELSE 0)
        /\ count = 0 => bytes = 0
        /\ count > 0 => bytes + (IF batch THEN 1 ELSE 0) <= limit

LineWorks == LineTypes /\ LengthMatches /\ InitsMatch /\ BoundedAgrees

\* The invariant says what the session remembers.
LEMMA InitsAreRemembered == ASSUME LineTypes, InitsMatch PROVE RemembersInitialize
<1>1. CASE Inits(done) = {} /\ source = "unset" /\ version = "none"
  BY <1>1 DEF RemembersInitialize, Inits
<1>2. CASE Inits(done) # {}
  <2>1. PICK lo \in Inits(done), hi \in Inits(done) :
          /\ \A i \in Inits(done) : lo <= i /\ i <= hi
          /\ source = IF line[lo].name = "" THEN "prefix" ELSE line[lo].name
          /\ version = Negotiated(line[hi].asks)
    BY <1>2 DEF InitsMatch
  <2>2. Inits(done) \subseteq Int
    BY LenProperties DEF Inits, LineTypes
  <2>3. Min(Inits(done)) = lo
    <3> DEFINE Is(x) == \A y \in Inits(done) : x =< y
    <3>1. Is(lo) /\ lo \in Inits(done)
      BY <2>1, <2>2
    <3>2. ASSUME NEW x \in Inits(done), Is(x)
          PROVE  x = lo
      <4>1. x =< lo
        BY <2>1, <3>2
      <4>2. lo =< x /\ x \in Int /\ lo \in Int
        BY <2>1, <2>2
      <4> QED
        BY <4>1, <4>2
    <3> HIDE DEF Is
    <3>3. (CHOOSE x \in Inits(done) : Is(x)) = lo
      BY <3>1, <3>2
    <3> QED
      BY <3>3 DEF Min, Is
  <2>4. Max(Inits(done)) = hi
    <3> DEFINE Is(x) == \A y \in Inits(done) : x >= y
    <3>1. Is(hi) /\ hi \in Inits(done)
      BY <2>1, <2>2
    <3>2. ASSUME NEW x \in Inits(done), Is(x)
          PROVE  x = hi
      <4>1. x >= hi
        BY <2>1, <3>2
      <4>2. hi >= x /\ x \in Int /\ hi \in Int
        BY <2>1, <2>2
      <4> QED
        BY <4>1, <4>2
    <3> HIDE DEF Is
    <3>3. (CHOOSE x \in Inits(done) : Is(x)) = hi
      BY <3>1, <3>2
    <3> QED
      BY <3>3 DEF Max, Is
  <2> QED
    BY <1>2, <2>1, <2>3, <2>4 DEF RemembersInitialize, Inits
<1> QED
  BY <1>1, <1>2 DEF InitsMatch

\* Before a message is handled: what has been retained, and what is to come.
LEMMA NextMessage ==
    ASSUME ProtocolAssumption, LineWorks, verdict = "running", done < Len(line)
    PROVE  LET m == line[done + 1]
               whole == AnsweredLength[Len(line)]
               answers == AnswerCount(Len(line))
           IN  /\ m \in Messages /\ m.length \in Nat /\ MinimumResponse(m) \in Nat
               /\ Answers(m) => MinimumResponse(m) <= m.length
               /\ bytes \in Nat /\ count \in Nat /\ limit \in Nat /\ done \in Nat
               /\ done + 1 \in 0 .. Len(line) /\ whole \in Nat /\ answers \in Nat
               /\ AnswerCount(done + 1) = count + (IF Answers(m) THEN 1 ELSE 0)
               /\ AnsweredLength[done + 1] \in Nat
               /\ AnsweredLength[done + 1] + (IF batch THEN count ELSE 0)
                     = bytes + (IF Answers(m) THEN m.length ELSE 0)
               /\ AnsweredLength[done + 1] <= whole
               /\ Answers(m) => count + 1 <= answers
               /\ ~batch => count = 0 /\ bytes = 0
<1> DEFINE m == line[done + 1]
<1>1. /\ LineTypes /\ Len(line) \in Nat /\ done \in 0 .. Len(line) /\ done \in Nat
      /\ bytes \in Nat /\ count \in Nat /\ limit \in Nat
      /\ count = AnswerCount(done) /\ bytes = AnsweredLength[done] + (IF batch THEN count ELSE 0)
      /\ count = 0 => bytes = 0
  BY LenProperties DEF LineWorks, LengthMatches, LineTypes
<1>2. done + 1 \in 0 .. Len(line) /\ done + 1 \in 1 .. Len(line)
  BY <1>1
<1>3. m \in Messages
  BY <1>1, <1>2, ElementOfSeq DEF LineTypes
<1>4. /\ m.length \in Nat /\ MinimumResponse(m) \in Nat
      /\ Answers(m) => MinimumResponse(m) <= m.length
  BY <1>3, MessageShape
<1>5. /\ AnswerCount(done + 1) = count + (IF Answers(m) THEN 1 ELSE 0)
      /\ AnswerCount(done + 1) \in Nat
      /\ AnswerCount(done + 1) <= AnswerCount(Len(line))
      /\ AnswerCount(Len(line)) \in Nat
  <2>1. Len(line) \in 0 .. Len(line)
    BY <1>1
  <2> QED
    BY <1>1, <1>2, <2>1, AnswerCountIs
<1>6. /\ AnsweredLength \in [Nat -> Nat]
      /\ AnsweredLength[done + 1] = AnsweredLength[done] + AnswerLength(done + 1)
  BY <1>1, AnsweredLengthIs
<1>7. AnswerLength(done + 1) = IF Answers(m) THEN m.length ELSE 0
  BY <1>1, <1>2 DEF AnswerLength
<1>8. AnsweredLength[done + 1] <= AnsweredLength[Len(line)]
  <2>1. done + 1 \in Nat /\ done + 1 <= Len(line)
    BY <1>1, <1>2
  <2> QED
    BY <1>1, <2>1, AnsweredLengthGrows
<1>9. /\ AnsweredLength[done + 1] \in Nat /\ AnsweredLength[done] \in Nat
      /\ AnsweredLength[Len(line)] \in Nat
  BY <1>1, <1>2, <1>6
<1>10. ~batch => count = 0
  <2>1. ~batch => done = 0
    BY <1>1, <1>2 DEF LineTypes
  <2> QED
    BY <1>1, <2>1, AnswerCountIs
<1>11. AnsweredLength[done + 1] + (IF batch THEN count ELSE 0)
          = bytes + (IF Answers(m) THEN m.length ELSE 0)
  <2> DEFINE commas == IF batch THEN count ELSE 0
  <2>1. commas \in Nat /\ bytes = AnsweredLength[done] + commas
    BY <1>1
  <2> HIDE DEF commas
  <2>2. CASE Answers(m)
    <3>1. AnsweredLength[done + 1] = AnsweredLength[done] + m.length
      BY <1>6, <1>7, <2>2
    <3>2. AnsweredLength[done + 1] + commas = bytes + m.length
      <4>1. m.length \in Nat /\ AnsweredLength[done] \in Nat
        BY <1>4, <1>9
      <4> HIDE DEF m
      <4> QED
        BY <2>1, <3>1, <4>1
    <3> QED
      BY <2>2, <3>2 DEF commas
  <2>3. CASE ~Answers(m)
    <3>1. AnsweredLength[done + 1] = AnsweredLength[done] + 0
      BY <1>6, <1>7, <2>3
    <3>2. AnsweredLength[done + 1] + commas = bytes + 0
      BY <1>9, <2>1, <3>1
    <3> QED
      BY <2>3, <3>2 DEF commas
  <2> QED
    BY <2>2, <2>3
<1>12. Answers(m) => count + 1 <= AnswerCount(Len(line))
  BY <1>5
<1> HIDE DEF m
<1> QED
  BY <1>1, <1>2, <1>3, <1>4, <1>5, <1>8, <1>9, <1>10, <1>11, <1>12 DEF m

\* The whole answer is that of the line.
LEMMA WholeStays ==
    ASSUME line' = line, batch' = batch
    PROVE  /\ WholeLength' = WholeLength /\ AnsweredLength' = AnsweredLength
           /\ \A n : AnswerCount(n)' = AnswerCount(n)
           /\ \A n : Inits(n)' = Inits(n)
<1>1. AnsweredLength' = AnsweredLength
  BY DEF AnsweredLength
<1>2. \A n : AnsweredUpTo(n)' = AnsweredUpTo(n)
  BY DEF AnsweredUpTo
<1>3. \A n : AnswerCount(n)' = AnswerCount(n)
  BY <1>2 DEF AnswerCount
<1>4. WholeLength' = WholeLength
  BY <1>1, <1>2 DEF WholeLength
<1> QED
  BY <1>1, <1>3, <1>4 DEF Inits

LEMMA WholeIs ==
    WholeLength = AnsweredLength[Len(line)] +
        (IF batch /\ AnswerCount(Len(line)) > 0 THEN (AnswerCount(Len(line)) - 1) + 2 ELSE 0)
BY DEF WholeLength, AnswerCount

LEMMA InitsStay ==
    ASSUME InitsMatch, line' = line, done' = done, source' = source, version' = version
    PROVE  InitsMatch'
<1>1. Inits(done)' = Inits(done)
  BY DEF Inits
<1>2. CASE Inits(done) = {} /\ source = "unset" /\ version = "none"
  BY <1>1, <1>2 DEF InitsMatch
<1>3. ASSUME NEW lo \in Inits(done), NEW hi \in Inits(done),
             \A i \in Inits(done) : lo <= i /\ i <= hi,
             source = IF line[lo].name = "" THEN "prefix" ELSE line[lo].name,
             version = Negotiated(line[hi].asks)
      PROVE  InitsMatch'
  <2>1. \A asks : Negotiated(asks)' = Negotiated(asks)
    BY DEF Negotiated
  <2>2. \A i \in Inits(done)' : lo <= i /\ i <= hi
    BY <1>1, <1>3
  <2>3. /\ source' = IF line'[lo].name = "" THEN "prefix" ELSE line'[lo].name
        /\ version' = Negotiated(line'[hi].asks)
    BY <1>3
  <2> QED
    BY <1>1, <2>1, <2>2, <2>3 DEF InitsMatch, Negotiated
<1> QED
  BY <1>2, <1>3 DEF InitsMatch

\* Another initialize, or none.
LEMMA InitsGrow ==
    ASSUME ProtocolAssumption, LineWorks, done < Len(line), line' = line, done' = done + 1,
           IF line[done + 1].kind = "initialize"
           THEN ObserveParams(line[done + 1]) /\ version' = Negotiated(line[done + 1].asks)
           ELSE UNCHANGED <<source, version>>
    PROVE  InitsMatch'
<1> DEFINE m == line[done + 1]
<1>1. LineTypes /\ InitsMatch /\ done \in Nat /\ Len(line) \in Nat
  BY LenProperties DEF LineWorks, LineTypes
<1>2. Inits(done) \subseteq 1 .. done
  BY DEF Inits
<1>3. \A i \in Inits(done) : i \in Nat /\ i <= done + 1
  BY <1>1, <1>2
<1>4. CASE m.kind # "initialize"
  <2>1. Inits(done + 1) = Inits(done)
    BY <1>1, <1>4 DEF Inits
  <2>2. Inits(done)' = Inits(done)
    BY <2>1 DEF Inits
  <2> QED
    BY <1>1, <1>4, <2>1 DEF InitsMatch, Inits
<1>5. CASE m.kind = "initialize"
  <2>1. Inits(done + 1) = Inits(done) \cup {done + 1}
    BY <1>1, <1>5 DEF Inits
  <2>2. Inits(done)' = Inits(done) \cup {done + 1}
    BY <2>1 DEF Inits
  <2>3. ObserveParams(m) /\ version' = Negotiated(m.asks)
    BY <1>5
  <2>4. m.name # "unset"
    <3>1. m \in Messages
      BY <1>1, ElementOfSeq DEF LineTypes
    <3> QED
      BY <1>5, <3>1, MessageShape DEF ProtocolAssumption
  <2>5. CASE Inits(done) = {} /\ source = "unset"
    <3>1. source' = IF m.name = "" THEN "prefix" ELSE m.name
      BY <2>3, <2>5 DEF ObserveParams
    <3>2. /\ done + 1 \in Inits(done)' /\ \A i \in Inits(done)' : i = done + 1
      BY <2>2, <2>5
    <3>3. /\ \A i \in Inits(done)' : done + 1 <= i /\ i <= done + 1
          /\ line'[done + 1] = m
      BY <1>1, <3>2
    <3> QED
      BY <2>3, <3>1, <3>2, <3>3 DEF InitsMatch, Negotiated
  <2>6. CASE Inits(done) # {}
    <3>1. PICK lo \in Inits(done) :
            /\ \A i \in Inits(done) : lo <= i
            /\ source = IF line[lo].name = "" THEN "prefix" ELSE line[lo].name
      BY <1>1, <2>6 DEF InitsMatch
    <3>2. source # "unset"
      <4>1. line[lo] \in Messages /\ line[lo].kind = "initialize"
        <5>1. lo \in 1 .. Len(line)
          BY <1>1, <1>2
        <5> QED
          BY <1>1, <5>1, ElementOfSeq DEF LineTypes, Inits
      <4> QED
        BY <3>1, <4>1, MessageShape DEF ProtocolAssumption
    <3>3. source' = source
      BY <2>3, <3>2 DEF ObserveParams
    <3>4. ASSUME NEW i \in Inits(done)'
          PROVE  lo <= i /\ i <= done + 1
      <4>1. i \in Inits(done) \/ i = done + 1
        BY <2>2
      <4>2. CASE i \in Inits(done)
        BY <1>3, <3>1, <4>2
      <4>3. CASE i = done + 1
        BY <1>1, <1>3, <4>3
      <4> QED
        BY <4>1, <4>2, <4>3
    <3>5. lo \in Inits(done)' /\ done + 1 \in Inits(done)' /\ line'[lo] = line[lo] /\ line'[done + 1] = m
      BY <2>2
    <3> QED
      BY <2>3, <3>1, <3>3, <3>4, <3>5 DEF InitsMatch, Negotiated
  <2> QED
    BY <1>1, <2>5, <2>6 DEF InitsMatch
<1> QED
  BY <1>4, <1>5

\* A message is handled, or the line refused before it.
LEMMA MessageStepKeeps ==
    ASSUME ProtocolAssumption, LineWorks, HandleSingleMessage
    PROVE  LineWorks'
<1> DEFINE m == line[done + 1]
<1> DEFINE total == AnsweredLength[Len(line)]
<1> DEFINE answers == AnswerCount(Len(line))
<1> DEFINE after == bytes + m.length + (IF batch \/ count > 0 THEN 1 ELSE 0)
<1>1. /\ verdict = "running" /\ done < Len(line) /\ LineTypes /\ InitsMatch
      /\ line' = line /\ batch' = batch /\ limit' = limit
  BY DEF HandleSingleMessage, LineWorks, Refuse
<1>2. /\ m.length \in Nat /\ MinimumResponse(m) \in Nat
      /\ Answers(m) => MinimumResponse(m) <= m.length
      /\ bytes \in Nat /\ count \in Nat /\ limit \in Nat /\ done \in Nat
      /\ done + 1 \in 0 .. Len(line) /\ total \in Nat /\ answers \in Nat
      /\ AnsweredLength[done + 1] \in Nat
      /\ AnsweredLength[done + 1] <= total
      /\ Answers(m) => count + 1 <= answers
      /\ ~batch => count = 0 /\ bytes = 0
  BY <1>1, NextMessage
<1>3. AnswerCount(done + 1) = count + (IF Answers(m) THEN 1 ELSE 0)
  BY <1>1, NextMessage
<1>4. AnsweredLength[done + 1] + (IF batch THEN count ELSE 0)
         = bytes + (IF Answers(m) THEN m.length ELSE 0)
  BY <1>1, NextMessage
<1>5. /\ WholeLength' = WholeLength /\ AnsweredLength' = AnsweredLength
      /\ \A n : AnswerCount(n)' = AnswerCount(n)
      /\ WholeLength = total + (IF batch /\ answers > 0 THEN (answers - 1) + 2 ELSE 0)
  BY <1>1, WholeStays, WholeIs
<1>6. m.kind = "initialize" => Answers(m)
  BY DEF Answers
\* What the whole answer takes at least.
<1>7. Answers(m) => WholeLength >= bytes + m.length + (IF batch THEN 2 ELSE 0)
  <2>1. SUFFICES ASSUME Answers(m)
                 PROVE  WholeLength >= bytes + m.length + (IF batch THEN 2 ELSE 0)
    OBVIOUS
  <2> DEFINE length == m.length
  <2> DEFINE upTo == AnsweredLength[done + 1]
  <2>2. upTo \in Nat /\ length \in Nat /\ upTo <= total /\ count + 1 <= answers
    BY <1>2, <2>1
  <2>3. CASE batch
    <3>1. upTo + count = bytes + length /\ WholeLength = total + ((answers - 1) + 2)
      BY <1>2, <1>4, <1>5, <2>1, <2>2, <2>3
    <3> HIDE DEF upTo, total, answers, length
    <3>2. WholeLength >= bytes + length + 2
      BY <1>2, <2>2, <3>1
    <3> QED
      BY <2>3, <3>2 DEF length
  <2>4. CASE ~batch
    <3>1. upTo + 0 = bytes + length /\ WholeLength = total + 0
      BY <1>2, <1>4, <1>5, <2>1, <2>4
    <3> HIDE DEF upTo, total, answers, length
    <3>2. WholeLength >= bytes + length + 0
      BY <1>2, <2>2, <3>1
    <3> QED
      BY <2>4, <3>2 DEF length
  <2> QED
    BY <2>3, <2>4
<1> HIDE DEF total, answers
<1>8. CASE CannotFit(m)
  <2>1. /\ batch /\ Answers(m) /\ bytes + 1 + MinimumResponse(m) + 1 > limit
        /\ verdict' = "refused" /\ UNCHANGED <<line, batch, limit, done, bytes, count, source, version>>
    BY <1>8 DEF HandleSingleMessage, CannotFit, Refuse
  <2>2. WholeLength > limit
    <3>1. WholeLength >= bytes + m.length + 2
      BY <1>7, <2>1
    <3>2. /\ m.length \in Nat /\ MinimumResponse(m) \in Nat /\ MinimumResponse(m) <= m.length
          /\ WholeLength \in Int /\ bytes \in Nat /\ limit \in Nat
      BY <1>2, <1>5, <2>1
    <3>3. bytes + 1 + MinimumResponse(m) + 1 > limit
      BY <2>1
    <3> DEFINE length == m.length
    <3> DEFINE least == MinimumResponse(m)
    <3> HIDE DEF length, least
    <3>4. length \in Nat /\ least \in Nat /\ least <= length /\ WholeLength >= bytes + length + 2
      BY <3>1, <3>2 DEF length, least
    <3>5. bytes + 1 + least + 1 > limit
      BY <3>3 DEF least
    <3> QED
      BY ONLY <3>2, <3>4, <3>5
  <2>3. LineTypes'
    BY <1>1, <2>1 DEF LineTypes
  <2>4. InitsMatch'
    BY ONLY <1>1, <2>1, InitsStay
  <2> QED
    BY <1>1, <1>5, <2>1, <2>2, <2>3, <2>4 DEF LineWorks, LengthMatches, BoundedAgrees
<1>9. CASE ~CannotFit(m)
  <2>1. /\ IF m.kind = "initialize"
           THEN ObserveParams(m) /\ version' = Negotiated(m.asks)
           ELSE UNCHANGED <<source, version>>
        /\ done' = done + 1
    BY <1>9 DEF HandleSingleMessage
  <2>2. InitsMatch'
    <3>1. IF line[done + 1].kind = "initialize"
          THEN ObserveParams(line[done + 1]) /\ version' = Negotiated(line[done + 1].asks)
          ELSE UNCHANGED <<source, version>>
      BY <2>1
    <3> QED
      BY ONLY <1>1, <2>1, <3>1, ProtocolAssumption, LineWorks, InitsGrow
  <2>3. CASE ~Answers(m)
    <3>1. UNCHANGED <<bytes, count, verdict>>
      BY <1>9, <2>3 DEF HandleSingleMessage
    <3>2. LineTypes'
      BY <1>1, <1>2, <2>1, <3>1 DEF LineTypes
    <3>3. AnswerCount(done + 1) = count
      BY <1>2, <1>3, <2>3
    <3>4. bytes = AnsweredLength[done + 1] + (IF batch THEN count ELSE 0)
      BY <1>2, <1>4, <2>3
    <3>5. LengthMatches'
      BY <1>1, <1>5, <2>1, <3>1, <3>3, <3>4 DEF LineWorks, LengthMatches
    <3> QED
      BY <1>1, <2>2, <3>1, <3>2, <3>5 DEF LineWorks, BoundedAgrees
  <2>4. CASE Answers(m) /\ after + (IF batch THEN 1 ELSE 0) > limit
    <3>1. verdict' = "refused" /\ UNCHANGED <<bytes, count>>
      BY <1>9, <2>4 DEF HandleSingleMessage
    <3>2. LineTypes'
      BY <1>1, <1>2, <2>1, <3>1 DEF LineTypes
    <3>3. WholeLength > limit
      <4> DEFINE length == m.length
      <4>1. length \in Nat /\ WholeLength \in Int
        BY <1>2, <1>5
      <4>2. CASE batch
        <5>1. WholeLength >= bytes + length + 2 /\ bytes + length + 1 + 1 > limit
          BY <1>7, <2>4, <4>2
        <5> HIDE DEF length
        <5> QED
          BY <1>2, <4>1, <5>1
      <4>3. CASE ~batch
        <5>1. count = 0 /\ bytes = 0
          BY <1>2, <4>3
        <5>2. WholeLength >= bytes + length + 0 /\ bytes + length + 0 + 0 > limit
          BY <1>7, <2>4, <4>3, <5>1
        <5> HIDE DEF length
        <5> QED
          BY <1>2, <4>1, <5>2
      <4> QED
        BY <4>2, <4>3
    <3> QED
      BY <1>5, <1>1, <2>2, <3>1, <3>2, <3>3 DEF LineWorks, LengthMatches, BoundedAgrees
  <2>5. CASE Answers(m) /\ ~(after + (IF batch THEN 1 ELSE 0) > limit)
    <3>1. bytes' = after /\ count' = count + 1 /\ verdict' = verdict
      BY <1>9, <2>5 DEF HandleSingleMessage
    <3>2. after \in Nat /\ after + (IF batch THEN 1 ELSE 0) <= limit
      <4> DEFINE comma == IF batch \/ count > 0 THEN 1 ELSE 0
      <4> DEFINE bracket == IF batch THEN 1 ELSE 0
      <4>1. /\ comma \in Nat /\ bracket \in Nat /\ m.length \in Nat
            /\ bytes \in Nat /\ limit \in Nat
        BY <1>2
      <4>2. ~(bytes + m.length + comma + bracket > limit)
        BY <2>5
      <4> HIDE DEF comma, bracket, m
      <4>3. bytes + m.length + comma \in Nat /\ bytes + m.length + comma + bracket <= limit
        BY <4>1, <4>2
      <4> QED
        BY <4>3 DEF comma, bracket
    <3>3. LineTypes'
      BY <1>1, <1>2, <2>1, <3>1, <3>2 DEF LineTypes
    <3>4. AnswerCount(done + 1) = count + 1
      BY <1>3, <2>5
    <3>5. after = AnsweredLength[done + 1] + (IF batch THEN count + 1 ELSE 0)
      <4> DEFINE length == m.length
      <4> DEFINE upTo == AnsweredLength[done + 1]
      <4>1. upTo \in Nat /\ length \in Nat
        BY <1>2
      <4>2. CASE batch
        <5>1. upTo + count = bytes + length /\ after = bytes + length + 1
          BY <1>2, <1>4, <2>5, <4>2
        <5> HIDE DEF upTo, length
        <5>2. bytes + length + 1 = upTo + (count + 1)
          BY <1>2, <4>1, <5>1
        <5>3. after = upTo + (count + 1)
          BY <5>1, <5>2, Zenon
        <5> HIDE DEF after
        <5> QED
          BY <4>2, <5>3 DEF upTo
      <4>3. CASE ~batch
        <5>1. count = 0 /\ bytes = 0
          BY <1>2, <4>3
        <5>2. upTo + 0 = bytes + length /\ after = bytes + length + 0
          BY <1>4, <2>5, <4>3, <5>1
        <5> HIDE DEF after, length
        <5> QED
          BY <4>1, <4>3, <5>1, <5>2 DEF upTo
      <4> QED
        BY <4>2, <4>3
    <3> HIDE DEF after
    <3>6. count' # 0
      BY <1>2, <3>1
    <3>7. LengthMatches'
      BY <1>1, <1>5, <2>1, <3>1, <3>2, <3>4, <3>5, <3>6 DEF LengthMatches
    <3> QED
      BY <1>1, <2>2, <3>1, <3>3, <3>7 DEF LineWorks, BoundedAgrees
  <2> QED
    BY <2>3, <2>4, <2>5
<1> QED
  BY <1>8, <1>9

\* The line is at its end.
LEMMA FinishKeeps ==
    ASSUME ProtocolAssumption, LineWorks, FinishLine
    PROVE  LineWorks'
<1>1. /\ LineTypes /\ InitsMatch /\ verdict = "running" /\ done = Len(line)
      /\ bytes \in Nat /\ count \in Nat /\ limit \in Nat /\ Len(line) \in Nat
      /\ count = AnswerCount(Len(line))
      /\ bytes = AnsweredLength[Len(line)] + (IF batch THEN count ELSE 0)
      /\ count = 0 => bytes = 0
      /\ count > 0 => bytes + (IF batch THEN 1 ELSE 0) <= limit
  BY LenProperties DEF FinishLine, LineWorks, LengthMatches, LineTypes
<1>2. /\ line' = line /\ batch' = batch /\ limit' = limit /\ done' = done /\ count' = count
      /\ source' = source /\ version' = version
      /\ verdict' = IF count = 0 THEN "silent" ELSE "answered"
      /\ bytes' = bytes + (IF batch /\ count > 0 THEN 1 ELSE 0)
  BY DEF FinishLine
<1>3. /\ WholeLength' = WholeLength
      /\ WholeLength = AnsweredLength[Len(line)] + (IF batch /\ count > 0 THEN (count - 1) + 2 ELSE 0)
  BY <1>1, <1>2, WholeStays, WholeIs
<1>4. AnsweredLength[Len(line)] \in Nat
  BY <1>1, AnsweredLengthIs
<1>5. bytes' = WholeLength /\ bytes' <= limit
  <2> DEFINE upTo == AnsweredLength[Len(line)]
  <2>0. upTo \in Nat /\ count \in Nat /\ bytes \in Nat /\ limit \in Nat
    BY <1>1, <1>4
  <2>1. CASE batch /\ count > 0
    <3>1. /\ bytes' = bytes + 1 /\ bytes = upTo + count /\ bytes + 1 <= limit
          /\ WholeLength = upTo + ((count - 1) + 2)
      BY <1>1, <1>2, <1>3, <2>1
    <3> HIDE DEF upTo
    <3> QED
      BY <2>0, <3>1
  <2>2. CASE ~batch /\ count > 0
    <3>1. /\ bytes' = bytes + 0 /\ bytes = upTo + 0 /\ bytes + 0 <= limit
          /\ WholeLength = upTo + 0
      BY <1>1, <1>2, <1>3, <2>2
    <3> HIDE DEF upTo
    <3> QED
      BY <2>0, <3>1
  <2>3. CASE count = 0
    <3>1. /\ bytes' = bytes + 0 /\ bytes = upTo + 0 /\ bytes = 0
          /\ WholeLength = upTo + 0
      BY <1>1, <1>2, <1>3, <2>3
    <3> HIDE DEF upTo
    <3> QED
      BY <2>0, <3>1
  <2>4. batch \in BOOLEAN /\ (count > 0 \/ count = 0)
    BY <1>1, <2>0 DEF LineTypes
  <2> HIDE DEF upTo
  <2> QED
    BY ONLY <2>1, <2>2, <2>3, <2>4
<1>6. bytes' \in Nat
  BY <1>1, <1>2
<1>7. LineTypes'
  BY <1>1, <1>2, <1>6 DEF LineTypes
<1>8. InitsMatch'
  BY ONLY <1>1, <1>2, InitsStay
<1>9. verdict' \in {"silent", "answered"}
  BY <1>2
<1>10. BoundedAgrees'
  BY <1>2, <1>3, <1>5, <1>9 DEF BoundedAgrees
<1> QED
  BY <1>7, <1>8, <1>9, <1>10 DEF LineWorks, LengthMatches

LEMMA LineStarts ==
    ASSUME ProtocolAssumption, LineInit
    PROVE  LineWorks
<1>1. PICK n \in 1..(IF batch THEN MaxBatch ELSE 1) : line \in [1..n -> Messages]
  BY DEF LineInit
<1>2. n \in Nat /\ line \in Seq(Messages) /\ Len(line) = n
  BY <1>1 DEF ProtocolAssumption
<1>3. limit \in Nat
  BY DEF LineInit, ProtocolAssumption
<1>4. LineTypes
  BY <1>1, <1>2, <1>3 DEF LineInit, LineTypes
<1>5. AnsweredLength[0] = 0
  BY <1>4, AnsweredLengthIs
<1>6. AnswerCount(0) = 0
  <2>1. 0 \in 0 .. Len(line)
    BY <1>2
  <2> QED
    BY <1>4, <2>1, AnswerCountIs
<1>7. Inits(0) = {}
  BY DEF Inits
<1>8. /\ done = 0 /\ bytes = 0 /\ count = 0 /\ verdict = "running"
      /\ source = "unset" /\ version = "none"
  BY DEF LineInit
<1>9. LengthMatches
  BY <1>5, <1>6, <1>8 DEF LengthMatches
<1>10. InitsMatch /\ BoundedAgrees
  BY <1>7, <1>8 DEF InitsMatch, BoundedAgrees
<1> QED
  BY <1>4, <1>9, <1>10 DEF LineWorks

-----------------------------------------------------------------------------
\* The HTTP sessions: what a client was told of a session is true until it ends.

ToldMatches ==
    /\ sessions \in [SessionIds -> Versions \cup {"none"}]
    /\ minted \subseteq SessionIds /\ refused \subseteq minted
    /\ knows \in [Clients -> [id : SessionIds \cup {NoId}, version : Versions \cup {"none"}]]
    /\ \A c \in Clients : knows[c].id # NoId =>
          /\ knows[c].id \in minted
          /\ sessions[knows[c].id] = "none" \/ sessions[knows[c].id] = knows[c].version

HttpWorks == ToldMatches /\ ToldIsAdmitted

LEMMA SessionStepKeeps ==
    ASSUME ProtocolAssumption, HttpWorks, HttpNext
    PROVE  HttpWorks'
<1> DEFINE Told == [id : SessionIds \cup {NoId}, version : Versions \cup {"none"}]
<1>1. /\ ToldMatches /\ ToldIsAdmitted /\ knows \in [Clients -> Told]
      /\ sessions \in [SessionIds -> Versions \cup {"none"}]
      /\ \A c \in Clients : knows[c].id \in SessionIds \cup {NoId}
                            /\ knows[c].version \in Versions \cup {"none"}
  BY DEF HttpWorks, ToldMatches
<1>2. ASSUME NEW c \in Clients, HandleInitialize(c)
      PROVE  HttpWorks'
  <2> DEFINE s == CHOOSE x \in SessionIds : x \notin minted
  <2>1. s \in SessionIds /\ s \notin minted
    BY <1>1, <1>2 DEF HandleInitialize, ToldMatches
  <2>2. PICK asks \in Versions :
           /\ minted' = minted \cup {s}
           /\ sessions' = [sessions EXCEPT ![s] = RecordNegotiated(asks)]
           /\ knows' = [knows EXCEPT ![c] = [id |-> s, version |-> Negotiated(asks)]]
    BY <1>2 DEF HandleInitialize
  <2> HIDE DEF s
  <2> DEFINE v == Negotiated(asks)
  <2>3. v \in Versions /\ RecordNegotiated(asks) = v
    BY DEF ProtocolAssumption, Negotiated, RecordNegotiated
  <2> HIDE DEF v
  <2>4. [id |-> s, version |-> v] \in Told
    BY <2>1, <2>3
  <2>5. /\ knows' \in [Clients -> Told] /\ knows'[c].id = s /\ knows'[c].version = v
        /\ \A d \in Clients \ {c} : knows'[d] = knows[d]
    BY <1>1, <2>2, <2>4 DEF v
  <2>6. /\ sessions' \in [SessionIds -> Versions \cup {"none"}] /\ sessions'[s] = v
        /\ \A x \in SessionIds \ {s} : sessions'[x] = sessions[x]
    BY <1>1, <2>1, <2>2, <2>3
  <2>7. refused' = refused
    BY <1>2 DEF HandleInitialize
  <2>8. ASSUME NEW d \in Clients, knows'[d].id # NoId
        PROVE  /\ knows'[d].id \in minted'
               /\ sessions'[knows'[d].id] = "none" \/ sessions'[knows'[d].id] = knows'[d].version
    <3>1. CASE d = c
      BY <2>2, <2>5, <2>6, <3>1
    <3>2. CASE d # c
      BY <1>1, <2>1, <2>2, <2>5, <2>6, <2>8, <3>2 DEF ToldMatches
    <3> QED
      BY <3>1, <3>2
  <2>9. ToldMatches'
    BY <1>1, <2>1, <2>2, <2>5, <2>6, <2>7, <2>8 DEF ToldMatches
  <2>10. ToldIsAdmitted'
    BY <1>1, <2>1, <2>6, <2>7 DEF ToldMatches, ToldIsAdmitted
  <2> QED
    BY <2>9, <2>10 DEF HttpWorks
<1>3. ASSUME NEW c \in Clients, NEW u \in Told,
             knows' = [knows EXCEPT ![c] = u], sessions' = sessions, minted' = minted,
             \/ refused' = refused
             \/ /\ refused' = refused \cup {knows[c].id}
                /\ knows[c].id # NoId /\ RejectSession(knows[c].id, knows[c].version),
             u.id = NoId \/ \E d \in Clients : u = knows[d]
      PROVE  HttpWorks'
  <2>1. /\ knows' \in [Clients -> Told] /\ knows'[c] = u
        /\ \A d \in Clients \ {c} : knows'[d] = knows[d]
    BY <1>1, <1>3
  <2>2. \A d \in Clients : knows'[d].id = NoId \/ \E e \in Clients : knows'[d] = knows[e]
    BY <1>3, <2>1
  <2>3. refused' # refused => knows[c].id \in minted /\ sessions[knows[c].id] = "none"
    BY <1>1, <1>3 DEF ToldMatches, RejectSession
  <2>4. ToldMatches'
    BY <1>1, <1>3, <2>1, <2>2, <2>3 DEF ToldMatches
  <2>5. ToldIsAdmitted'
    BY <1>1, <1>3, <2>3 DEF ToldIsAdmitted
  <2> QED
    BY <2>4, <2>5 DEF HttpWorks
<1>4. ASSUME NEW c \in Clients
      PROVE  /\ [knows[c] EXCEPT !.id = NoId] \in Told /\ [knows[c] EXCEPT !.id = NoId].id = NoId
             /\ [knows EXCEPT ![c].id = NoId] = [knows EXCEPT ![c] = [knows[c] EXCEPT !.id = NoId]]
             /\ knows[c] \in Told
  <2>1. knows[c] \in Told
    BY <1>1
  <2> QED
    BY <2>1
<1>5. ASSUME NEW c \in Clients, HandlePost(c)
      PROVE  HttpWorks'
  <2>1. CASE RejectSession(knows[c].id, knows[c].version)
    <3>1. /\ refused' = refused \cup {knows[c].id} /\ knows[c].id # NoId
          /\ knows' = [knows EXCEPT ![c] = [knows[c] EXCEPT !.id = NoId]]
          /\ sessions' = sessions /\ minted' = minted
      BY <1>4, <1>5, <2>1 DEF HandlePost
    <3> QED
      BY <1>3, <1>4, <2>1, <3>1
  <2>2. CASE ~RejectSession(knows[c].id, knows[c].version)
    <3>1. UNCHANGED <<refused, knows, sessions, minted>>
      BY <1>5, <2>2 DEF HandlePost
    <3> QED
      BY <1>1, <3>1 DEF HttpWorks, ToldMatches, ToldIsAdmitted
  <2> QED
    BY <2>1, <2>2
<1>6. ASSUME NEW c \in Clients, PostReturns(c)
      PROVE  HttpWorks'
  BY <1>1, <1>6 DEF PostReturns, HttpWorks, ToldMatches, ToldIsAdmitted
<1>7. ASSUME NEW c \in Clients, NEW d \in Clients, Share(c, d)
      PROVE  HttpWorks'
  <2>1. /\ knows' = [knows EXCEPT ![d] = knows[c]] /\ sessions' = sessions
        /\ minted' = minted /\ refused' = refused
    BY <1>7 DEF Share
  <2>2. knows[c] \in Told
    BY <1>4
  <2>3. \E e \in Clients : knows[c] = knows[e]
    OBVIOUS
  <2> HIDE DEF Told
  <2> QED
    BY <1>3, <2>1, <2>2, <2>3
<1>8. ASSUME NEW c \in Clients, HandleDelete(c)
      PROVE  HttpWorks'
  <2> DEFINE u == [knows[c] EXCEPT !.id = NoId]
  <2> DEFINE s == knows[c].id
  <2>1. /\ s \in SessionIds /\ s \in minted
        /\ sessions' = [sessions EXCEPT ![s] = "none"] /\ minted' = minted /\ refused' = refused
        /\ knows' = [knows EXCEPT ![c] = u]
    BY <1>1, <1>4, <1>8 DEF HandleDelete, ToldMatches
  <2>2. u \in Told /\ u.id = NoId
    BY <1>4
  <2> HIDE DEF u, s
  <2>3. /\ knows' \in [Clients -> Told] /\ knows'[c] = u
        /\ \A d \in Clients \ {c} : knows'[d] = knows[d]
    BY <1>1, <2>1, <2>2
  <2>4. /\ sessions' \in [SessionIds -> Versions \cup {"none"}] /\ sessions'[s] = "none"
        /\ \A x \in SessionIds \ {s} : sessions'[x] = sessions[x]
    BY <1>1, <2>1
  <2>5. ASSUME NEW d \in Clients, knows'[d].id # NoId
        PROVE  /\ knows'[d].id \in minted'
               /\ sessions'[knows'[d].id] = "none" \/ sessions'[knows'[d].id] = knows'[d].version
    <3>1. knows'[d] = knows[d] /\ knows[d].id # NoId
      BY <2>2, <2>3, <2>5
    <3> QED
      BY <1>1, <2>1, <2>4, <3>1 DEF ToldMatches
  <2>6. ToldMatches'
    BY <1>1, <2>1, <2>3, <2>4, <2>5 DEF ToldMatches
  <2>7. ToldIsAdmitted'
    BY <1>1, <2>1, <2>4 DEF ToldMatches, ToldIsAdmitted
  <2> QED
    BY <2>6, <2>7 DEF HttpWorks
<1> QED
  BY <1>2, <1>5, <1>6, <1>7, <1>8 DEF HttpNext

\* ProtocolKeeps: for lines of any length, messages and answers of any size, any budget,
\* any clients and sessions, ProtocolInv: a line is refused exactly when its whole
\* answer exceeds the budget, the session remembers the first and the last initialize,
\* and a client that says what it was told is refused only on a session that was ended.
THEOREM ProtocolKeeps == ASSUME ProtocolAssumption PROVE ProtocolSpec => []ProtocolInv
<1> DEFINE Works == LineWorks /\ HttpWorks
<1> DEFINE Moves == \/ LineNext /\ UNCHANGED httpVars
                    \/ HttpNext /\ UNCHANGED lineVars
<1>1. LineInit /\ HttpInit => Works
  <2>1. HttpInit => HttpWorks
    BY DEF HttpInit, HttpWorks, ToldMatches, ToldIsAdmitted
  <2> QED
    BY <2>1, LineStarts
<1>2. ASSUME LineWorks, UNCHANGED lineVars
      PROVE  LineWorks'
  <2>1. /\ WholeLength' = WholeLength /\ AnsweredLength' = AnsweredLength
        /\ \A n : AnswerCount(n)' = AnswerCount(n)
    BY <1>2, WholeStays DEF lineVars
  <2>2. LineTypes' /\ InitsMatch'
    BY <1>2, InitsStay DEF lineVars, LineWorks, LineTypes
  <2>3. LengthMatches' /\ BoundedAgrees'
    BY <1>2, <2>1 DEF lineVars, LineWorks, LengthMatches, BoundedAgrees
  <2> QED
    BY <2>2, <2>3 DEF LineWorks
<1>3. ASSUME HttpWorks, UNCHANGED httpVars
      PROVE  HttpWorks'
  BY <1>3 DEF httpVars, HttpWorks, ToldMatches, ToldIsAdmitted
<1>4. Works /\ [Moves]_protocolVars => Works'
  <2> SUFFICES ASSUME LineWorks, HttpWorks, [Moves]_protocolVars
               PROVE  LineWorks' /\ HttpWorks'
    OBVIOUS
  <2>1. CASE LineNext /\ UNCHANGED httpVars
    BY <1>3, <2>1, MessageStepKeeps, FinishKeeps DEF LineNext
  <2>2. CASE HttpNext /\ UNCHANGED lineVars
    BY <1>2, <2>2, SessionStepKeeps
  <2>3. CASE UNCHANGED protocolVars
    <3>1. UNCHANGED lineVars /\ UNCHANGED httpVars
      BY <2>3 DEF protocolVars, lineVars, httpVars
    <3> QED
      BY <1>2, <1>3, <3>1
  <2> QED
    BY <2>1, <2>2, <2>3
<1>5. Works => ProtocolInv
  BY InitsAreRemembered DEF LineWorks, HttpWorks, ProtocolInv
<1> QED
  BY <1>1, <1>4, <1>5, PTL DEF ProtocolSpec

=============================================================================
