-------------------------- MODULE ClientLifecycle --------------------------
(***************************************************************************)
(* A host's clients over the directories of a module: ConfiguredLifecycle  *)
(* (the machine of one directory) and ClientTable in tinymcp-bus's         *)
(* client_lifecycle, driven as the module's documentation says: a driver   *)
(* makes the call a step names and feeds the reply back, one call at a     *)
(* time per directory.  The caller of a step may be cancelled while its    *)
(* call is under way; the module accepts the call all the same, and the    *)
(* machine hears nothing of it.                                            *)
(*                                                                         *)
(* Directories that this host does not own are opened and closed by        *)
(* others at any time.                                                     *)
(***************************************************************************)
EXTENDS Directories

CONSTANT Owned   \* the directories whose clients are modelled

ASSUME OwnedAssumption == Owned \subseteq Dirs \ {Root}

VARIABLES
    machine,   \* the state of each directory's lifecycle
    client,    \* its entry in the table
    reserved,  \* whether a cleanup reservation holds the directory
    unsure     \* history: the module may have accepted an open that the machine
               \* knows nothing of, or has forgotten how one ended

hostVars == <<machine, client, reserved, unsure>>
vars == <<dirVars, hostVars>>

Objects == [client : Clients, path : Paths]

ASSUME ObjectsAssumption == None \notin Objects

(* at      which State                                                     *)
(* config  the settings that are asked for or open                         *)
(* prev    StartingOpen, Opening: the object that was open before          *)
(* path    Opening and later: the object's path                            *)
(* tid     Opening, Closing: the receipt's transition                      *)
(* retried retried_terminal                                                *)
Machines ==
    [at : {"Closed", "StartingOpen", "Opening", "Open", "StartingClose", "Closing"},
     config : Clients \cup {None}, prev : Objects \cup {None},
     path : Paths \cup {None}, tid : Tids \cup {None}, retried : BOOLEAN]

NewMachine == [at |-> "Closed", config |-> None, prev |-> None, path |-> None,
               tid |-> None, retried |-> FALSE]

LifecycleTypeOK ==
    /\ DirTypeOK
    /\ machine \in [Owned -> Machines]
    /\ client \in [Owned -> {"none", "live", "retiring"}]
    /\ reserved \in [Owned -> BOOLEAN]
    /\ unsure \in [Owned -> BOOLEAN]
    /\ \A d \in Owned : client[d] = "none" => machine[d] = NewMachine

Init ==
    /\ DirInit
    /\ machine = [d \in Owned |-> NewMachine]
    /\ client = [d \in Owned |-> "none"]
    /\ reserved = [d \in Owned |-> FALSE]
    /\ unsure = [d \in Owned |-> FALSE]

-----------------------------------------------------------------------------
(* ConfiguredLifecycle.                                                    *)

Becomes(d, m) == machine' = [machine EXCEPT ![d] = m]

ClosedAgain(retried) == [NewMachine EXCEPT !.retried = retried]

Opened(m, config, path) ==
    [NewMachine EXCEPT !.at = "Open", !.config = config, !.path = path,
                       !.retried = m.retried]

\* The state in which open_step asks for OpenConfigured: it moves on from Closed
\* and from an object with other settings; an open that has begun is finished
\* with the settings it began with.
Asking(m, c) ==
    CASE m.at = "Closed" ->
            [m EXCEPT !.at = "StartingOpen", !.config = c, !.prev = None]
      [] m.at = "Open" /\ m.config # c ->
            [m EXCEPT !.at = "StartingOpen", !.config = c, !.path = None,
                      !.prev = [client |-> m.config, path |-> m.path]]
      [] OTHER -> m

\* open_replied.
OpenReplied(m, reply) ==
    IF reply.ok
    THEN [m EXCEPT !.at = "Opening", !.path = reply.path, !.tid = reply.tid]
    ELSE IF m.prev = None THEN ClosedAgain(FALSE)
         ELSE [Opened(m, m.prev.client, m.prev.path) EXCEPT !.retried = FALSE]

\* The state a terminal status of an open leads back to.
Reopening(m) == [m EXCEPT !.at = "StartingOpen", !.path = None, !.tid = None,
                          !.retried = TRUE]

\* open_polled.  A second terminal status in a row is a fault, and the state is kept.
OpenPolled(m, st) ==
    CASE st = "pending"  -> m
      [] st = "complete" -> [Opened(m, m.config, m.path) EXCEPT !.retried = FALSE]
      [] OTHER           -> IF m.retried THEN [m EXCEPT !.retried = FALSE]
                            ELSE Reopening(m)

\* close_replied.
CloseReplied(m, reply) ==
    IF ~reply.ok THEN m
    ELSE IF reply.tid = None THEN ClosedAgain(FALSE)
    ELSE [m EXCEPT !.at = "Closing", !.tid = reply.tid]

\* close_polled.
ClosePolled(m, st) ==
    CASE st = "pending"  -> m
      [] st = "complete" -> ClosedAgain(FALSE)
      [] OTHER           -> IF m.retried THEN [m EXCEPT !.retried = FALSE]
                            ELSE [m EXCEPT !.at = "StartingClose", !.tid = None,
                                           !.retried = TRUE]

-----------------------------------------------------------------------------
(* The driver.                                                             *)

\* A reply that is lost may have accepted the open.
Loses(d, reply) == unsure' = [unsure EXCEPT ![d] = @ \/ reply.ok]

\* What a status tells: the module's word for a completion settles it, and of an
\* open it has forgotten nobody knows how it ended.
Learns(d, opening, st) ==
    unsure' = [unsure EXCEPT ![d] =
        \/ opening /\ st = "unknown"
        \/ @ /\ st # "complete"]

\* OpenConfigured with the settings the machine is set on.
CallOpen(d, m) ==
    \E reply \in Replies :
        /\ OpenConfigured(d, m.config, reply)
        /\ \/ Becomes(d, OpenReplied(m, reply)) /\ UNCHANGED unsure
           \/ Becomes(d, m) /\ Loses(d, reply)

PollOpen(d, m) ==
    /\ Becomes(d, OpenPolled(m, TransitionStatus(m.tid)))
    /\ Learns(d, TRUE, TransitionStatus(m.tid))
    /\ UNCHANGED dirVars

CallClose(d, m) ==
    \E reply \in Replies :
        /\ Close(d, reply)
        /\ \/ Becomes(d, CloseReplied(m, reply))
           \/ Becomes(d, m)
        /\ UNCHANGED unsure

PollClose(d, m) ==
    /\ Becomes(d, ClosePolled(m, TransitionStatus(m.tid)))
    /\ Learns(d, FALSE, TransitionStatus(m.tid))
    /\ UNCHANGED dirVars

\* The calls both open_step and close_step make to finish what is under way.
Finish(d, m) ==
    \/ m.at = "StartingOpen" /\ CallOpen(d, m)
    \/ m.at = "Opening" /\ PollOpen(d, m)
    \/ m.at = "StartingClose" /\ CallClose(d, m)
    \/ m.at = "Closing" /\ PollClose(d, m)

\* A request that wants the directory open with settings c.
OpenStep(d, c) ==
    /\ client[d] = "live"
    /\ Finish(d, Asking(machine[d], c))
    /\ UNCHANGED <<client, reserved>>

\* A cleanup that wants it closed.
CloseStep(d) ==
    LET m == machine[d]
    IN  /\ client[d] = "retiring"
        /\ Finish(d, IF m.at = "Open" THEN [m EXCEPT !.at = "StartingClose"] ELSE m)
        /\ UNCHANGED <<client, reserved>>

\* ClientTable::admit.
Admit(d) ==
    /\ client[d] = "none" /\ ~reserved[d]
    /\ client' = [client EXCEPT ![d] = "live"]
    /\ UNCHANGED <<dirVars, machine, reserved, unsure>>

\* retire, and reservation_for.
Retire(d) ==
    /\ client[d] = "live"
    /\ client' = [client EXCEPT ![d] = "retiring"]
    /\ reserved' = [reserved EXCEPT ![d] = TRUE]
    /\ UNCHANGED <<dirVars, machine, unsure>>

\* finish_if_closed: finish_cleanup drops the client and then the reservation.
FinishCleanup(d) ==
    /\ client[d] = "retiring" /\ machine[d].at = "Closed"
    /\ client' = [client EXCEPT ![d] = "none"]
    /\ reserved' = [reserved EXCEPT ![d] = FALSE]
    /\ Becomes(d, NewMachine)
    /\ UNCHANGED <<dirVars, unsure>>

HostStep ==
    \E d \in Owned :
        \/ \E c \in Clients : OpenStep(d, c)
        \/ CloseStep(d) \/ Admit(d) \/ Retire(d) \/ FinishCleanup(d)

\* The module's own steps, and the callers of other directories.
ModuleStep ==
    /\ \/ WorkerStep
       \/ Publish
       \/ \E s \in Services : BeginCall(s) \/ EndCall(s)
       \/ \E d \in Dirs \ Owned, reply \in Replies :
             \/ \E c \in Clients : OpenConfigured(d, c, reply)
             \/ Open(d, reply)
             \/ Close(d, reply)
    /\ UNCHANGED hostVars

Next == HostStep \/ ModuleStep

Spec == Init /\ [][Next]_vars

-----------------------------------------------------------------------------
(* Properties. *)

\* What the machine of a directory holds for settled is what the module serves.
Agrees(d) ==
    /\ machine[d].at = "Open" =>
          /\ served[d] # None
          /\ served[d].client = machine[d].config
          /\ served[d].path = machine[d].path
    /\ machine[d].at = "Closed" => served[d] = None /\ pending[d] = None

\* "Err restores the previous object (or closed), because nothing was accepted."
\* (tinymcp-bus/src/client_lifecycle/machine.rs:159-160)
HostAgrees == \A d \in Owned : Agrees(d)

\* It does, through changes of settings, failed transitions, refusals, retries and
\* cancelled closes, unless an open was accepted whose reply was lost, or the
\* module had forgotten how it ended.
HostAgreesUnlessUnsure == \A d \in Owned : unsure[d] \/ Agrees(d)

\* A directory is handed to a new client after the module has closed it for the
\* last one.  (client_lifecycle/mod.rs:13-15)
FreshFindsNothing ==
    [][\A d \in Owned : client[d] = "none" /\ client'[d] = "live" /\ ~unsure[d]
          => Serving[d] = None /\ ~(worker # None /\ worker.dir = d)]_vars

\* The shapes, and the host agrees with the module on what it holds for settled.
LifecycleInv == LifecycleTypeOK /\ HostAgreesUnlessUnsure

\* The same, and no directory changes hands while the module serves it.
LifecycleKeeps == []LifecycleInv /\ FreshFindsNothing

=============================================================================
