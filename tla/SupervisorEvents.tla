-------------------------- MODULE SupervisorEvents --------------------------
(***************************************************************************)
(* The queue between the supervisor and the host's notification adapter:   *)
(* Events in tinybus_module/maintenance/events.rs, recorded by the         *)
(* maintenance task after each cycle and drained over the bus.             *)
(*                                                                         *)
(* Events are numbered in the order the supervisor reports them.           *)
(***************************************************************************)
EXTENDS Naturals, Sequences

CONSTANTS
    MaxEvents,     \* MAX_EVENTS
    MaxDrain,      \* MAX_DRAIN
    Horizon        \* bounds the events of a behaviour

ASSUME EventsAssumption ==
    MaxEvents \in Nat \ {0} /\ MaxDrain \in Nat /\ Horizon \in Nat

VARIABLES
    events,      \* the retained events
    dropped,    \* how many were dropped since the last drain
    produced,   \* events reported by the supervisor
    delivered,  \* history: the events the host was handed, in order
    announced   \* history: how many drops it was told of

eventVars == <<events, dropped, produced, delivered, announced>>

EventsTypeOK ==
    /\ events \in Seq(1..Horizon) /\ Len(events) <= MaxEvents
    /\ dropped \in 0..Horizon /\ produced \in 0..Horizon
    /\ delivered \in Seq(1..Horizon) /\ announced \in 0..Horizon

EventsInit ==
    events = <<>> /\ dropped = 0 /\ produced = 0 /\ delivered = <<>> /\ announced = 0

\* One event of a report: too large, or appended, for which the oldest may go.
RecordOne(q, n, event, large) ==
    IF large THEN [events |-> q, dropped |-> n + 1]
    ELSE IF Len(q) = MaxEvents
         THEN [events |-> Append(Tail(q), event), dropped |-> n + 1]
         ELSE [events |-> Append(q, event), dropped |-> n]

\* record: a cycle's report has any number of events; they are recorded under one
\* lock, here one or two of them.
Record ==
    \E sizes \in {<<s>> : s \in BOOLEAN} \cup (BOOLEAN \X BOOLEAN) :
        LET first == RecordOne(events, dropped, produced + 1, sizes[1])
            all   == IF Len(sizes) = 1 THEN first
                     ELSE RecordOne(first.events, first.dropped, produced + 2, sizes[2])
        IN  /\ produced + Len(sizes) <= Horizon
            /\ produced' = produced + Len(sizes)
            /\ events' = all.events /\ dropped' = all.dropped
            /\ UNCHANGED <<delivered, announced>>

Taken(limit) == IF limit < Len(events) THEN limit ELSE Len(events)

\* A count that is not taken with the batch that reports it.
LeftOver == dropped

\* The count is taken with the batch.
Remaining == 0

\* drain, within its limit.
Drain ==
    \E limit \in 1..MaxDrain :
        LET count == Taken(limit)
        IN  /\ events' = SubSeq(events, count + 1, Len(events))
            /\ delivered' = delivered \o SubSeq(events, 1, count)
            /\ announced' = announced + dropped
            /\ dropped' = Remaining
            /\ UNCHANGED produced

EventsNext == Record \/ Drain

EventsSpec == EventsInit /\ [][EventsNext]_eventVars

-----------------------------------------------------------------------------

\* What the host was handed, in order and without repetition, and the drops it was
\* told of are all there was when the queue has been emptied: no event disappears
\* silently and none is counted twice.
\* (tinybus_module/maintenance/events.rs:19-52)
EventsAreAccounted ==
    /\ Len(delivered) + Len(events) + announced + dropped = produced
    /\ LET all == delivered \o events
       IN  \A i, j \in 1..Len(all) : i < j => all[i] < all[j]

\* What holds of the queue after any cycles and drains.
EventsInv == EventsTypeOK /\ EventsAreAccounted

=============================================================================
