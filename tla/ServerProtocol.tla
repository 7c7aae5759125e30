--------------------------- MODULE ServerProtocol ---------------------------
(***************************************************************************)
(* The serving side of the protocol: one line of JSON-RPC answered under a *)
(* byte budget (handle_line_bounded of server/protocol/mod.rs), what the   *)
(* session remembers of `initialize` (server/session/mod.rs), and the HTTP *)
(* transport's sessions (server/http/mod.rs), used by clients that repeat  *)
(* what they were told.                                                    *)
(*                                                                         *)
(* Of a message only the kind and the length of its answer count.          *)
(***************************************************************************)
EXTENDS Naturals, Sequences, SequencesExt, FiniteSetsExt

CONSTANTS
    Versions, Supported, Latest,  \* protocol versions
    ClientNames,                  \* what normalizes to a slug; "" does not
    MinLength,                    \* of an answer to a request
    MaxLength,
    MaxBatch,
    Clients, SessionIds, NoId     \* of the HTTP transport

ASSUME ProtocolAssumption ==
    /\ Latest \in Supported /\ Supported \subseteq Versions
    /\ "unset" \notin ClientNames
    /\ {MinLength, MaxLength, MaxBatch} \subseteq Nat /\ MinLength <= MaxLength

VARIABLES
    line,       \* the messages to be answered; batch tells an array from a single one
    batch,
    limit,
    done,       \* messages handled so far
    bytes,      \* length of the retained output
    count,      \* answers in it
    verdict,    \* running, answered, silent or refused
    source,     \* client_source_type: unset, the prefix, or a client's name
    version     \* protocol_version, none before an initialize

lineVars == <<line, batch, limit, done, bytes, count, verdict, source, version>>

VARIABLES
    sessions,   \* the HTTP server's sessions: the version each has negotiated
    minted,
    knows,      \* what each client was told: its session and the version
    post,       \* each client's request in flight
    refused     \* history: sessions that a client was refused on, and those deleted
httpVars == <<sessions, minted, knows, post, refused>>

protocolVars == <<lineVars, httpVars>>

\* Not an object, an invalid id, version or method: answered without the handler, at
\* this length. A notification is not answered. A request is answered by the handler,
\* `initialize` by the protocol itself.
Messages ==
    [kind : {"invalid", "request"}, length : MinLength..MaxLength]
    \cup [kind : {"initialize"}, length : {MaxLength}, asks : Versions, name : ClientNames]
    \cup {[kind |-> "notification", length |-> 0]}

Answers(m) == m.kind # "notification"

-----------------------------------------------------------------------------
\* The session.

\* observe_initialize_params: the first one decides, also when it names nobody.
ObserveParams(m) == source' = IF source # "unset" THEN source
                              ELSE IF m.name = "" THEN "prefix" ELSE m.name

Negotiated(asks) == IF asks \in Supported THEN asks ELSE Latest

-----------------------------------------------------------------------------
\* One line.

LineInit ==
    /\ batch \in BOOLEAN
    /\ line \in UNION {[1..n -> Messages] : n \in 1..(IF batch THEN MaxBatch ELSE 1)}
    /\ limit \in 0..(MaxBatch * (MaxLength + 1) + 1)
    /\ done = 0 /\ bytes = 0 /\ count = 0 /\ verdict = "running"
    /\ source = "unset" /\ version = "none"

\* An upper bound taken for the lower one.
MaximumResponse(m) == MaxLength

\* minimum_response_len: of an answer that succeeds with nothing to say, or of the
\* fixed refusal.
MinimumResponse(m) == IF m.kind = "invalid" THEN m.length ELSE MinLength

\* Before a message is dispatched: punctuation, the least answer, the closing bracket.
CannotFit(m) == batch /\ Answers(m) /\ bytes + 1 + MinimumResponse(m) + 1 > limit

Refuse == verdict' = "refused" /\ UNCHANGED <<line, batch, limit, done, bytes, count, source, version>>

HandleSingleMessage ==
    /\ verdict = "running" /\ done < Len(line)
    /\ LET m == line[done + 1]
           after == bytes + m.length + (IF batch \/ count > 0 THEN 1 ELSE 0)
       IN  IF CannotFit(m) THEN Refuse
           ELSE /\ IF m.kind = "initialize"
                   THEN ObserveParams(m) /\ version' = Negotiated(m.asks)
                   ELSE UNCHANGED <<source, version>>
                /\ IF ~Answers(m) THEN UNCHANGED <<bytes, count, verdict>>
                   ELSE IF after + (IF batch THEN 1 ELSE 0) > limit
                        THEN verdict' = "refused" /\ UNCHANGED <<bytes, count>>
                        ELSE bytes' = after /\ count' = count + 1 /\ UNCHANGED verdict
                /\ done' = done + 1
                /\ UNCHANGED <<line, batch, limit>>

FinishLine ==
    /\ verdict = "running" /\ done = Len(line)
    /\ verdict' = IF count = 0 THEN "silent" ELSE "answered"
    /\ bytes' = bytes + (IF batch /\ count > 0 THEN 1 ELSE 0)
    /\ UNCHANGED <<line, batch, limit, done, count, source, version>>

-----------------------------------------------------------------------------
\* HTTP: a session is minted by initialize, named and repeated by the rest.

HttpInit ==
    /\ sessions = [s \in SessionIds |-> "none"] /\ minted = {}
    /\ knows = [c \in Clients |-> [id |-> NoId, version |-> "none"]]
    /\ post = [c \in Clients |-> "none"] /\ refused = {}

\* The version that was asked for, whatever the answer says.
RecordAsked(asks) == asks

\* The version in the answer's result.
RecordNegotiated(asks) == Negotiated(asks)

HandleInitialize(c) ==
    /\ post[c] = "none" /\ minted # SessionIds
    /\ \E asks \in Versions : LET s == CHOOSE x \in SessionIds : x \notin minted
          IN  /\ minted' = minted \cup {s}
              /\ sessions' = [sessions EXCEPT ![s] = RecordNegotiated(asks)]
              /\ knows' = [knows EXCEPT ![c] = [id |-> s, version |-> Negotiated(asks)]]
    /\ UNCHANGED <<post, refused>>

\* reject_session: an unknown session, or another version than it negotiated.
RejectSession(s, v) == sessions[s] = "none" \/ sessions[s] # v

\* handle_post: admitted, it is dispatched without another look at the session.
HandlePost(c) ==
    /\ post[c] = "none" /\ knows[c].id # NoId
    /\ IF RejectSession(knows[c].id, knows[c].version)
       THEN /\ refused' = refused \cup {knows[c].id}
            /\ knows' = [knows EXCEPT ![c].id = NoId]
            /\ UNCHANGED post
       ELSE post' = [post EXCEPT ![c] = "running"] /\ UNCHANGED <<refused, knows>>
    /\ UNCHANGED <<sessions, minted>>

PostReturns(c) ==
    /\ post[c] = "running" /\ post' = [post EXCEPT ![c] = "none"]
    /\ UNCHANGED <<sessions, minted, knows, refused>>

\* Two clients may share a session: one hands the other what it was told.
Share(c, d) ==
    /\ c # d /\ knows[c].id # NoId /\ knows[d].id = NoId /\ post[d] = "none"
    /\ knows' = [knows EXCEPT ![d] = knows[c]]
    /\ UNCHANGED <<sessions, minted, post, refused>>

HandleDelete(c) ==
    /\ knows[c].id # NoId
    /\ sessions' = [sessions EXCEPT ![knows[c].id] = "none"]
    /\ knows' = [knows EXCEPT ![c].id = NoId]
    /\ UNCHANGED <<minted, post, refused>>

HttpNext ==
    \E c \in Clients : \/ HandleInitialize(c) \/ HandlePost(c) \/ PostReturns(c)
                     \/ HandleDelete(c) \/ \E d \in Clients : Share(c, d)

LineNext == HandleSingleMessage \/ FinishLine

\* One line and the sessions, whichever moves.
ProtocolSpec ==
    /\ LineInit /\ HttpInit
    /\ [][\/ LineNext /\ UNCHANGED httpVars
          \/ HttpNext /\ UNCHANGED lineVars]_protocolVars

-----------------------------------------------------------------------------

\* What the first n messages are answered, punctuation aside.
AnsweredLength[n \in Nat] ==
    IF n = 0 THEN 0
    ELSE AnsweredLength[n - 1] +
         (IF n <= Len(line) /\ Answers(line[n]) THEN line[n].length ELSE 0)

AnsweredUpTo(n) == {i \in 1..n : Answers(line[i])}

\* handle_line without a budget: the length of its whole answer, an array with a comma
\* before each answer but the first.
WholeLength ==
    LET answers == Cardinality(AnsweredUpTo(Len(line)))
    IN  AnsweredLength[Len(line)] + (IF batch /\ answers > 0 THEN (answers - 1) + 2 ELSE 0)

\* The budget refuses a line exactly when the whole answer is longer than it, however
\* early it is refused; what is answered has the length of the whole answer.
\* (server/protocol/mod.rs:65-160)
BoundedAgrees ==
    /\ verdict = "refused" => WholeLength > limit
    /\ verdict \in {"answered", "silent"} => bytes = WholeLength /\ bytes <= limit

\* A client that says what it was told is refused only on a session that was ended.
\* (server/http/mod.rs:154-252, 319-354)
ToldIsAdmitted == \A s \in refused : sessions[s] = "none"

\* Who a session is was decided by the first initialize it was sent, and its version
\* by the last one, in whatever batch they came and whether it was answered or not.
\* (server/session/mod.rs:11-14, 40-92)
RemembersInitialize ==
    LET inits == {i \in 1..done : line[i].kind = "initialize"}
    IN  IF inits = {} THEN source = "unset" /\ version = "none"
        ELSE LET first == line[Min(inits)]
             IN  /\ source = IF first.name = "" THEN "prefix" ELSE first.name
                 /\ version = Negotiated(line[Max(inits)].asks)

ProtocolInv == BoundedAgrees /\ RemembersInitialize /\ ToldIsAdmitted

=============================================================================
