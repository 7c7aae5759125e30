----------------------------- MODULE StdioJail -----------------------------
(***************************************************************************)
(* Servers started in TinyBox's jail: JailedSpawner, ResourceGuard and     *)
(* JailedHandle of transport/stdio/jailed.rs.  A launch is four bus calls; *)
(* each may be refused, and the launch, or later the close, may be dropped *)
(* while one is under way.  TinyBox is external: it has done a call before *)
(* the reply is read, it may have done a call that it answers with an      *)
(* error, and it does a call whose caller has gone away.  The cleanup's    *)
(* calls may fail too: nobody looks at their answers.                      *)
(***************************************************************************)
EXTENDS Naturals

CONSTANTS Launches      \* launches, each with a resource of its own

VARIABLES
    launch,     \* each launch's position
    box,        \* what TinyBox has for it: nothing, a resource, or a running server
    armed,      \* its ResourceGuard will close the resource
    released,   \* its JailedHandle has nothing left to do
    detached,   \* cleanups that run without a caller: none, close or release
    unclosed,   \* history: a Close was refused, and nobody looked
    cleaned     \* history: the cleanups that ran to their end

jailVars == <<launch, box, armed, released, detached, unclosed, cleaned>>
pastVars == <<unclosed, cleaned>>

JailTypeOK ==
    /\ launch \in [Launches -> {"idle", "check", "reserve", "create", "process", "start",
                                "refused", "attached", "kill", "close", "closed", "gone", "lost"}]
    /\ box \in [Launches -> {"none", "resource", "server"}]
    /\ armed \in [Launches -> BOOLEAN] /\ released \in [Launches -> BOOLEAN]
    /\ detached \in [Launches -> {"none", "close", "release"}]
    /\ unclosed \subseteq Launches /\ cleaned \in [Launches -> Nat]

JailInit ==
    /\ launch = [l \in Launches |-> "idle"] /\ box = [l \in Launches |-> "none"]
    /\ armed = [l \in Launches |-> FALSE] /\ released = [l \in Launches |-> FALSE]
    /\ detached = [l \in Launches |-> "none"]
    /\ unclosed = {} /\ cleaned = [l \in Launches |-> 0]

At(l, here, there) == launch[l] = here /\ launch' = [launch EXCEPT ![l] = there]
BoxHas(l, what) == box' = [box EXCEPT ![l] = what]

\* names::CLOSE, the end of every cleanup.  An error is ignored.
CloseCall(l) ==
    /\ cleaned' = [cleaned EXCEPT ![l] = @ + 1]
    /\ \/ BoxHas(l, "none") /\ UNCHANGED unclosed
       \/ box[l] # "none" /\ UNCHANGED box /\ unclosed' = unclosed \cup {l}

\* names::KILL_STDIO.  An error is ignored.
KillCall(l) == BoxHas(l, IF box[l] = "none" THEN "none" ELSE "resource") \/ UNCHANGED box

\* Capabilities: an incompatible module ends the launch with nothing reserved.
Check(l) ==
    /\ At(l, "idle", "check") \/ At(l, "check", "reserve") \/ At(l, "check", "gone")
    /\ UNCHANGED <<box, armed, released, detached, pastVars>>

\* Reserve: the guard is armed once the reply is read.
Reserved(l) ==
    /\ At(l, "reserve", "create")
    /\ BoxHas(l, "resource") /\ armed' = [armed EXCEPT ![l] = TRUE]
    /\ UNCHANGED <<released, detached, pastVars>>

\* An error: the launch is over, with a resource that nobody has heard of when TinyBox
\* had reserved all the same.
ReserveFails(l) ==
    /\ \/ At(l, "reserve", "gone") /\ UNCHANGED box
       \/ At(l, "reserve", "lost") /\ BoxHas(l, "resource")
    /\ UNCHANGED <<armed, released, detached, pastVars>>

\* Create, then Reserve for the process.
Created(l) ==
    /\ At(l, "create", "process") \/ At(l, "process", "start")
    /\ UNCHANGED <<box, armed, released, detached, pastVars>>

\* StartStdio: the server runs and its handle owns the cleanup.
Started(l) ==
    /\ At(l, "start", "attached")
    /\ BoxHas(l, "server") /\ armed' = [armed EXCEPT ![l] = FALSE]
    /\ UNCHANGED <<released, detached, pastVars>>

\* A refusal at any of the three; StartStdio may have started the server all the same.
Refused(l) ==
    /\ \/ At(l, "create", "refused") /\ UNCHANGED box
       \/ At(l, "process", "refused") /\ UNCHANGED box
       \/ At(l, "start", "refused") /\ (UNCHANGED box \/ BoxHas(l, "server"))
    /\ UNCHANGED <<armed, released, detached, pastVars>>

\* The resource is closed inline, then the guard is disarmed, whatever the answer was.
CloseRefused(l) ==
    /\ At(l, "refused", "gone")
    /\ CloseCall(l) /\ armed' = [armed EXCEPT ![l] = FALSE]
    /\ UNCHANGED <<released, detached>>

\* A guard that does not cover a dropped launch.
Unguarded(l) == UNCHANGED detached

\* ResourceGuard::drop
Guarded(l) ==
    detached' = IF armed[l] THEN [detached EXCEPT ![l] = "close"] ELSE detached

\* The launch future is dropped at one of its awaits: the call that was under way may
\* still be carried out.
DropLaunch(l) ==
    /\ launch[l] \in {"check", "reserve", "create", "process", "start", "refused"}
    /\ launch' = [launch EXCEPT ![l] = IF @ = "reserve" THEN "lost" ELSE "gone"]
    /\ \/ UNCHANGED box
       \/ launch[l] = "reserve" /\ BoxHas(l, "resource")
       \/ launch[l] = "start" /\ BoxHas(l, "server")
       \/ launch[l] = "refused" /\ BoxHas(l, "none")
    /\ Guarded(l)
    /\ armed' = [armed EXCEPT ![l] = FALSE]
    /\ UNCHANGED <<released, pastVars>>

-----------------------------------------------------------------------------
\* JailedHandle.

\* terminate: kill, then close, then `released`.
Kill(l) ==
    /\ At(l, "attached", "kill")
    /\ UNCHANGED <<box, armed, released, detached, pastVars>>

KillEnds(l) ==
    /\ At(l, "kill", "close")
    /\ KillCall(l)
    /\ UNCHANGED <<armed, released, detached, pastVars>>

CloseHandle(l) ==
    /\ At(l, "close", "closed")
    /\ CloseCall(l) /\ released' = [released EXCEPT ![l] = TRUE]
    /\ UNCHANGED <<armed, detached>>

\* The handle is dropped with its session: after terminate, without it, or with
\* terminate's future at one of its awaits, whose call may still be carried out.
DropHandle(l) ==
    /\ launch[l] \in {"attached", "kill", "close", "closed"}
    /\ launch' = [launch EXCEPT ![l] = "gone"]
    /\ \/ UNCHANGED box
       \/ launch[l] = "kill" /\ BoxHas(l, "resource")
       \/ launch[l] = "close" /\ BoxHas(l, "none")
    /\ detached' = IF released[l] THEN detached ELSE [detached EXCEPT ![l] = "release"]
    /\ UNCHANGED <<armed, released, pastVars>>

\* run_detached: `release` kills first, and both close.
DetachedKill(l) ==
    /\ detached[l] = "release"
    /\ detached' = [detached EXCEPT ![l] = "close"]
    /\ KillCall(l)
    /\ UNCHANGED <<launch, armed, released, pastVars>>

Detached(l) ==
    /\ detached[l] = "close"
    /\ detached' = [detached EXCEPT ![l] = "none"]
    /\ CloseCall(l)
    /\ UNCHANGED <<launch, armed, released>>

JailNext ==
    \E l \in Launches :
        \/ Check(l) \/ Reserved(l) \/ ReserveFails(l) \/ Created(l) \/ Started(l)
        \/ Refused(l) \/ CloseRefused(l) \/ DropLaunch(l)
        \/ Kill(l) \/ KillEnds(l) \/ CloseHandle(l) \/ DropHandle(l)
        \/ DetachedKill(l) \/ Detached(l)

JailSpec == JailInit /\ [][JailNext]_jailVars

-----------------------------------------------------------------------------

\* What TinyBox holds has somebody who will give it back: a launch, a handle or a
\* cleanup under way, whichever call of the launch was refused and wherever the launch
\* or the close was dropped. Excepted are a resource whose Close was refused, which
\* nobody asks for again, and a launch that never read the answer to its reservation,
\* or was answered with an error. (transport/stdio/jailed.rs:207-250, 396-460)
NothingIsStranded ==
    \A l \in Launches :
        box[l] # "none" /\ launch[l] = "gone" => detached[l] # "none" \/ l \in unclosed

\* "Only now: a close cancelled mid-await leaves this unset, so the drop still runs the
\* cleanup" (transport/stdio/jailed.rs:443): and one that ended does not run again,
\* neither the guard's nor the handle's.
CleanedOnce == \A l \in Launches : cleaned[l] <= 1

\* "including when the launch future is dropped mid-await"
\* (transport/stdio/jailed.rs:396-415)
GuardCoversEveryDrop ==
    \A l \in Launches : launch[l] = "lost" => box[l] = "none" \/ detached[l] # "none"

\* What holds of every launch, whichever await it is dropped at.
JailInv == JailTypeOK /\ NothingIsStranded /\ CleanedOnce

=============================================================================
