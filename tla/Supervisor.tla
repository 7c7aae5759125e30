----------------------------- MODULE Supervisor -----------------------------
(***************************************************************************)
(* The supervisor (registry/supervisor) and the registry it keeps          *)
(* connected.  The supervisor is one more task of McpRegistry: its dials   *)
(* and disconnects are the ones every caller runs, and between its steps   *)
(* callers run theirs.                                                     *)
(*                                                                         *)
(* Time is counted in units of which a tick of the supervisor takes        *)
(* TickInterval.  A penalty's earliest next attempt is kept as the time    *)
(* left until then, which a tick reduces.                                  *)
(***************************************************************************)
EXTENDS McpRegistry, FiniteSetsExt

CONSTANTS
    Sup,            \* the task the supervisor runs on
    BackoffBase,    \* the first delay
    BackoffMax,     \* the longest delay
    TickInterval,   \* the time between two ticks
    TeardownRun,    \* CONSECUTIVE_TIMEOUTS_BEFORE_TEARDOWN
    FailureCap      \* bound: failures from which every delay is BackoffMax

\* delay_after: BackoffBase * 2^(failures - 1), capped.
Delay(n) ==
    IF n = 0 THEN BackoffBase ELSE Min({BackoffBase * 2^(n - 1), BackoffMax})

ASSUME SupervisorAssumption ==
    /\ Sup \in Tasks \ Callers
    /\ BackoffBase \in Nat \ {0}
    /\ BackoffMax \in Nat
    /\ BackoffBase <= BackoffMax
    /\ TickInterval \in Nat \ {0}
    /\ TeardownRun \in Nat \ {0}
    /\ FailureCap \in Nat
    /\ Delay(FailureCap) = BackoffMax

\* Arithmetic that the provers do not know.
ASSUME PowersOfTwo == \A n \in 0..FailureCap : 2^n \in Nat

VARIABLES
    backoff,    \* Supervisor::backoff: a penalty, or none
    timeouts,   \* Supervisor::timeouts: consecutive probe timeouts
    terminal,   \* Supervisor::terminal: the parked servers
    todo,       \* installs of the tick's listing still to visit
    enabled,    \* the installs that were enabled in the tick's listing
    world,      \* how each server's endpoint behaves now
    dropped,    \* servers whose session's transport has dropped silently
    probeLost   \* the session under probe is no longer the one in the map

supVars == <<backoff, timeouts, terminal, todo, enabled>>
envVars == <<world, dropped, probeLost>>
allVars == <<vars, supVars, envVars>>

Penalty == [failures : 0..FailureCap, wait : 0..BackoffMax]

(* The shapes of the supervisor's state.  A streak of timeouts never stands *)
(* at the length that ends a session.                                       *)
SupTypeOK ==
    /\ TypeOK
    /\ backoff \in [Servers -> {None} \cup Penalty]
    /\ timeouts \in [Servers -> 0..(TeardownRun - 1)]
    /\ terminal \subseteq Servers
    /\ todo \subseteq Servers
    /\ enabled \subseteq Servers
    /\ world \in [Servers -> Worlds]
    /\ dropped \subseteq Servers
    /\ probeLost \in BOOLEAN

SupInit ==
    /\ Init
    /\ backoff = [s \in Servers |-> None]
    /\ timeouts = [s \in Servers |-> 0]
    /\ terminal = {}
    /\ todo = {}
    /\ enabled = {}
    /\ world \in [Servers -> Worlds]
    /\ dropped = {}
    /\ probeLost = FALSE

-----------------------------------------------------------------------------
(* One cycle. *)

Unpenalise(s) == backoff' = [backoff EXCEPT ![s] = None]

\* A cycle that never lets a penalty run down.
TickStartFrozen ==
    /\ pc[Sup] = "idle"
    /\ todo' = {s \in Servers : row[s] # "absent"}
    /\ enabled' = {s \in Servers : row[s] = "on"}
    /\ pc' = [pc EXCEPT ![Sup] = "visit"]
    /\ op' = [op EXCEPT ![Sup] = "tick"]
    /\ UNCHANGED <<storeVars, connVars, srv, seen, err, backoff, timeouts, terminal, envVars>>

\* The interval fires (a listing that fails ends the cycle at once, as if it
\* had not fired): the installs are listed once for the whole cycle.
TickStart ==
    /\ pc[Sup] = "idle"
    /\ todo' = {s \in Servers : row[s] # "absent"}
    /\ enabled' = {s \in Servers : row[s] = "on"}
    /\ backoff' = [s \in Servers |->
                     IF backoff[s] = None THEN None
                     ELSE [backoff[s] EXCEPT !.wait = Max({@ - TickInterval, 0})]]
    /\ pc' = [pc EXCEPT ![Sup] = "visit"]
    /\ op' = [op EXCEPT ![Sup] = "tick"]
    /\ UNCHANGED <<storeVars, connVars, srv, seen, err, timeouts, terminal, envVars>>

TickEnd ==
    /\ pc[Sup] = "visit"
    /\ todo = {}
    /\ enabled' = {}
    /\ Return(Sup)
    /\ UNCHANGED <<storeVars, connVars, backoff, timeouts, terminal, todo, envVars>>

\* A server the listing has disabled: everything held against it is dropped.
VisitDisabled(s) ==
    /\ pc[Sup] = "visit"
    /\ s \in todo \ enabled
    /\ todo' = todo \ {s}
    /\ Unpenalise(s)
    /\ timeouts' = [timeouts EXCEPT ![s] = 0]
    /\ terminal' = terminal \ {s}
    /\ UNCHANGED <<vars, enabled, envVars>>

\* A server with an entry in the map is probed, another is dialled.
VisitEnabled(s) ==
    /\ pc[Sup] = "visit"
    /\ s \in todo \cap enabled
    /\ todo' = todo \ {s}
    /\ pc' = [pc EXCEPT ![Sup] = IF live[s] # None THEN "probe" ELSE "gate"]
    /\ srv' = [srv EXCEPT ![Sup] = s]
    /\ probeLost' = FALSE
    /\ UNCHANGED <<storeVars, connVars, op, seen, err, backoff, timeouts,
                   terminal, enabled, world, dropped>>

-----------------------------------------------------------------------------
(* judge_probe: what the answer of the session under probe means.  A       *)
(* session that somebody else ended or replaced meanwhile may answer       *)
(* either way: its client reconnects or reports the closed transport.      *)

Probed == srv[Sup]

ProbeAlive ==
    /\ pc[Sup] = "probe"
    /\ \/ probeLost
       \/ live[Probed] # None /\ Probed \notin dropped
    /\ world[Probed] \in {"ok", "missing_runtime"}
    /\ Unpenalise(Probed)
    /\ timeouts' = [timeouts EXCEPT ![Probed] = 0]
    /\ pc' = [pc EXCEPT ![Sup] = "visit"]
    /\ UNCHANGED <<storeVars, connVars, op, srv, seen, err, terminal, todo,
                   enabled, envVars>>

\* A run of timeouts counted one too far.
LateTeardown(streak) == streak > TeardownRun

EndsSession(streak) == streak >= TeardownRun

\* judge_timeout: a run of timeouts ends the session, a shorter one is counted.
ProbeTimedOut ==
    /\ pc[Sup] = "probe"
    /\ world[Probed] = "slow"
    /\ \/ /\ ~EndsSession(timeouts[Probed] + 1)
          /\ timeouts' = [timeouts EXCEPT ![Probed] = @ + 1]
          /\ pc' = [pc EXCEPT ![Sup] = "visit"]
       \/ /\ EndsSession(timeouts[Probed] + 1)
          /\ timeouts' = [timeouts EXCEPT ![Probed] = 0]
          /\ pc' = [pc EXCEPT ![Sup] = "unmap"]
    /\ UNCHANGED <<storeVars, connVars, op, srv, seen, err, backoff, terminal,
                   todo, enabled, envVars>>

\* A probe that leaves a dead session for the next cycle to look at.
ProbeBrokenKeeps ==
    /\ pc[Sup] = "probe"
    /\ \/ probeLost
       \/ live[Probed] = None
       \/ Probed \in dropped
       \/ world[Probed] \in {"broken", "unauthorized"}
    /\ timeouts' = [timeouts EXCEPT ![Probed] = 0]
    /\ pc' = [pc EXCEPT ![Sup] = "visit"]
    /\ UNCHANGED <<storeVars, connVars, op, srv, seen, err, backoff, terminal,
                   todo, enabled, envVars>>

\* A transport error, or an entry that is gone: the session is ended at once.
ProbeBroken ==
    /\ pc[Sup] = "probe"
    /\ \/ probeLost
       \/ live[Probed] = None
       \/ Probed \in dropped
       \/ world[Probed] \in {"broken", "unauthorized"}
    /\ timeouts' = [timeouts EXCEPT ![Probed] = 0]
    /\ pc' = [pc EXCEPT ![Sup] = "unmap"]
    /\ UNCHANGED <<storeVars, connVars, op, srv, seen, err, backoff, terminal,
                   todo, enabled, envVars>>

-----------------------------------------------------------------------------
(* attempt_connect. *)

\* A parked server is not dialled, and neither is one whose penalty has time
\* left.
GateShut ==
    /\ pc[Sup] = "gate"
    /\ \/ Probed \in terminal
       \/ backoff[Probed] # None /\ backoff[Probed].wait > 0
    /\ pc' = [pc EXCEPT ![Sup] = "visit"]
    /\ UNCHANGED <<storeVars, connVars, op, srv, seen, err, supVars, envVars>>

\* The others are, from the listing's record and without another look at the
\* row.  The lookup of the penalty leaves an entry behind.
GateOpen ==
    /\ pc[Sup] = "gate"
    /\ Probed \notin terminal
    /\ backoff[Probed] # None => backoff[Probed].wait = 0
    /\ backoff' = [backoff EXCEPT ![Probed] =
                     IF @ = None THEN [failures |-> 0, wait |-> 0] ELSE @]
    /\ pc' = [pc EXCEPT ![Sup] = "dial"]
    /\ UNCHANGED <<storeVars, connVars, op, srv, seen, err, timeouts, terminal,
                   todo, enabled, envVars>>

\* BackoffState::record_failure.
Failed(penalty) ==
    LET n == Min({penalty.failures + 1, FailureCap})
    IN  [failures |-> n, wait |-> Delay(n)]

\* A parking that leaves the lookup's penalty entry in place.
ParkPenalised(s) == terminal' = terminal \cup {s} /\ UNCHANGED backoff

\* A server that only its user can bring back: set aside without a penalty.
Park(s) == terminal' = terminal \cup {s} /\ Unpenalise(s)

\* What a finished attempt leaves behind: nothing, a parking, or a penalty.
Verdict ==
    /\ pc[Sup] = "verdict"
    /\ \/ /\ err[Sup] = "none"
          /\ Unpenalise(Probed)
          /\ timeouts' = [timeouts EXCEPT ![Probed] = 0]
          /\ terminal' = terminal \ {Probed}
       \/ /\ err[Sup] \in {"missing_runtime", "unauthorized"}
          /\ Park(Probed)
          /\ UNCHANGED timeouts
       \/ /\ err[Sup] \notin {"none", "missing_runtime", "unauthorized"}
          /\ backoff' = [backoff EXCEPT ![Probed] = Failed(@)]
          /\ UNCHANGED <<timeouts, terminal>>
    /\ pc' = [pc EXCEPT ![Sup] = "visit"]
    /\ err' = [err EXCEPT ![Sup] = "none"]
    /\ seen' = [seen EXCEPT ![Sup] = {}]
    /\ UNCHANGED <<storeVars, connVars, op, srv, todo, enabled, envVars>>

-----------------------------------------------------------------------------
(* The registry's own steps, and the environment. *)

\* A step of an operation.  It may end the session under probe.
Operate(t) ==
    /\ TaskStep(t)
    /\ probeLost' = (probeLost \/ (/\ pc[Sup] = "probe"
                                   /\ live[Probed] # None
                                   /\ live'[Probed] = None))
    /\ dropped' = {s \in dropped : live'[s] # None}
    /\ UNCHANGED <<supVars, world>>

\* A dial ends as the endpoint then behaves.  A new session starts fresh.
Answer(t) ==
    /\ Shake(t, world[srv[t]])
    /\ dropped' = IF pc'[t] = "cache" THEN dropped \ {srv[t]} ELSE dropped
    /\ probeLost' = (probeLost \/ (/\ pc[Sup] = "probe"
                                   /\ srv[t] = Probed
                                   /\ pc'[t] = "cache"))
    /\ UNCHANGED <<supVars, world>>

Request(t, o, s) == Begin(t, o, s) /\ UNCHANGED <<supVars, envVars>>

\* A caller drops its future.  (The supervisor's own goes with its host.)
GiveUp(t) == Abandon(t) /\ UNCHANGED <<supVars, envVars>>

\* The endpoint goes down, comes back, rejects the credentials, and so on.
ChangeWorld(s) ==
    /\ \E w \in Worlds \ {world[s]} : world' = [world EXCEPT ![s] = w]
    /\ UNCHANGED <<vars, supVars, dropped, probeLost>>

\* A transport drops silently: its entry stays in the map.
DropTransport(s) ==
    /\ live[s] # None
    /\ dropped' = dropped \cup {s}
    /\ UNCHANGED <<vars, supVars, world, probeLost>>

-----------------------------------------------------------------------------

Supervise ==
    \/ TickStart
    \/ TickEnd
    \/ \E s \in Servers : VisitDisabled(s) \/ VisitEnabled(s)
    \/ ProbeAlive
    \/ ProbeTimedOut
    \/ ProbeBroken
    \/ GateShut
    \/ GateOpen
    \/ Verdict

Environment == \E s \in Servers : ChangeWorld(s) \/ DropTransport(s)

SupNext ==
    \/ Supervise
    \/ \E t \in Tasks : Operate(t) \/ Answer(t)
    \/ \E t \in Callers, o \in CallerOps, s \in Servers : Request(t, o, s)
    \/ \E t \in Callers : GiveUp(t)
    \/ Environment

SupSpec == SupInit /\ [][SupNext]_allVars

\* The interval keeps firing and every task is scheduled; requests and the
\* endpoints are nobody's promise.
SupFairSpec ==
    /\ SupSpec
    /\ WF_allVars(Supervise)
    /\ \A t \in Tasks : WF_allVars(Operate(t) \/ Answer(t))

-----------------------------------------------------------------------------
(* Properties. *)

\* No server is both parked and penalised: "Disjoint from backed_off_count by
\* construction" (supervisor/types.rs:555), whatever other callers connect or
\* disconnect between the supervisor's steps.
ParkedCarriesNoPenalty == \A s \in terminal : backoff[s] = None

Connected(s) == live[s] # None /\ s \notin dropped

\* A transport that dropped silently does not stay in the map of an enabled
\* server: a probe notices it.
DropIsNoticed ==
    \A s \in Servers :
        (live[s] # None /\ s \in dropped) ~> (live[s] = None \/ s \notin dropped \/ row[s] # "on")

\* A server that is enabled, reachable and not parked from some time on is
\* connected again and again, however often its transport drops, callers
\* disconnect it and earlier failures have penalised it.
ReachableIsReconnected ==
    \A s \in Servers :
        <>[](row[s] = "on" /\ world[s] = "ok" /\ s \notin terminal) => []<>Connected(s)

\* The shapes, and no server both parked and penalised.
SupInv == SupTypeOK /\ ParkedCarriesNoPenalty

\* A drop is noticed, and a reachable server comes back.
ServersComeBack == DropIsNoticed /\ ReachableIsReconnected

=============================================================================
