----------------------------- MODULE SseReader -----------------------------
(***************************************************************************)
(* Reading a reply out of an event stream: read_sse_payload of             *)
(* transport/http/mod.rs and the parser it uses, transport/http/sse.rs.    *)
(* The body arrives in chunks that end anywhere; after each, what is       *)
(* complete is parsed from its beginning, and the call stops at the first  *)
(* reply.                                                                  *)
(*                                                                         *)
(* A line is blank, a comment, a field that carries no data (event: or     *)
(* id:), or a data line.  The data is a whole reply, a whole message with  *)
(* a method, no JSON at all, or the first or second half of a reply that   *)
(* is spread over two data lines.                                          *)
(***************************************************************************)
EXTENDS Naturals, Sequences, SequencesExt

CONSTANTS
    Replies,    \* replies that fit one data line
    MaxLines    \* bounds the lines of a body

ASSUME RepliesAssumption ==
    /\ MaxLines \in Nat
    /\ Replies \cap {"none", "notice", "broken", "half", "otherHalf", "joined", "blank", "comment",
                     "field", "reading", "malformed", "transport"} = {}

DataLines == Replies \cup {"notice", "broken", "half", "otherHalf"}
Lines == DataLines \cup {"blank", "comment", "field"}
SseReplies == Replies \cup {"joined"}

VARIABLES
    body,     \* the lines the server sends
    got,      \* how much of them has arrived, in halves of a line
    open,     \* the stream has not ended
    answer    \* "reading", a reply, or how the call failed

sseVars == <<body, got, open, answer>>

SseInit ==
    /\ body \in UNION {[1..n -> Lines] : n \in 1..MaxLines}
    /\ got = 0 /\ open = TRUE /\ answer = "reading"

\* The data lines of one event, joined with newlines and read as JSON.
Joined(data) ==
    CASE data = <<>> -> "none"
      [] Len(data) = 1 /\ data[1] \in Replies \cup {"notice"} -> data[1]
      [] data = <<"half", "otherHalf">> -> "joined"
      [] OTHER -> "broken"

Empty == [events |-> <<>>, named |-> FALSE, data |-> <<>>]

\* PendingEvent::flush_into
FlushInto(p) ==
    IF p.data = <<>> /\ ~p.named THEN p
    ELSE [Empty EXCEPT !.events = Append(p.events, Joined(p.data))]

OnLine(p, line) ==
    CASE line = "blank"   -> FlushInto(p)
      [] line = "comment" -> p
      [] line = "field"   -> [p EXCEPT !.named = TRUE]
      [] OTHER            -> [p EXCEPT !.data = Append(@, line)]

\* parse_sse_events: the final event needs no blank line after it.
Events(lines) == FlushInto(FoldLeft(OnLine, Empty, lines)).events

\* The first event that is a response, when every event's data could be read.
FirstResponse(lines, otherwise) ==
    LET events == Events(lines)
        responses == {k \in DOMAIN events : events[k] \in SseReplies}
    IN  IF Contains(events, "broken") THEN "malformed"
        ELSE IF responses # {} THEN events[Min(responses)]
        ELSE otherwise

\* Whatever is in the buffer, a line that is still arriving with it.
Everything(lines) == lines

\* The buffer up to its last blank line.
Complete(lines) ==
    LET blanks == {k \in DOMAIN lines : lines[k] = "blank"}
    IN  IF blanks = {} THEN <<>> ELSE SubSeq(lines, 1, Max(blanks))

\* What a line reads like that was cut: its data is no JSON, or the cut is in the name
\* of its field.
CutLine(line) == IF line \in DataLines THEN {"broken", "comment"} ELSE {"comment"}

\* The lines `n` halves make.
Buffers(n) ==
    LET whole == SubSeq(body, 1, n \div 2)
    IN  IF n % 2 = 0 THEN {whole}
        ELSE {Append(whole, cut) : cut \in CutLine(body[n \div 2 + 1])}

\* A chunk arrives, and the call ends if it completes a response.
Chunk ==
    /\ open /\ answer = "reading"
    /\ \E n \in (got + 1)..(2 * Len(body)) :
           /\ got' = n
           /\ \E buffer \in Buffers(n) : answer' = FirstResponse(Complete(buffer), "reading")
    /\ UNCHANGED <<body, open>>

\* The stream ends, after the body or before: parse_sse_message on all of it.
StreamEnds ==
    /\ open /\ answer = "reading"
    /\ open' = FALSE
    /\ \E buffer \in Buffers(got) : answer' = FirstResponse(buffer, "malformed")
    /\ UNCHANGED <<body, got>>

\* A chunk that is an error, or the timeout of the request.
ReadFails ==
    /\ open /\ answer = "reading"
    /\ answer' = "transport"
    /\ UNCHANGED <<body, got, open>>

SseNext == Chunk \/ StreamEnds \/ ReadFails

SseSpec == SseInit /\ [][SseNext]_sseVars

-----------------------------------------------------------------------------
(* Properties, of the frames of the body as the event stream format has them. *)

Heard == got \div 2

\* Lines first..last are a frame, of those heard.
Frame(first, last) ==
    /\ first = 1 \/ body[first - 1] = "blank"
    /\ \A k \in first..last : body[k] # "blank"
    /\ last = Heard \/ body[last + 1] = "blank"

Terminated(last) == last < Heard

\* What the data lines of a frame say, wherever they stand in it.
DataOf(first, last) ==
    LET data == {k \in first..last : body[k] \in DataLines}
    IN  CASE data = {} -> "none"
          [] \E k \in data : data = {k} /\ body[k] \in Replies -> body[CHOOSE k \in data : TRUE]
          [] \E k \in data : data = {k} /\ body[k] = "notice" -> "notice"
          [] \E j, k \in data : /\ j < k /\ data = {j, k}
                               /\ body[j] = "half" /\ body[k] = "otherHalf" -> "joined"
          [] OTHER -> "broken"

Frames == {f \in (1..Heard) \X (1..Heard) : f[1] <= f[2] /\ Frame(f[1], f[2])}

FramesOf(what) == {f \in Frames : DataOf(f[1], f[2]) \in what}

Before(f) == {g \in Frames : g[1] < f[1]}

SseTypeOK ==
    /\ Len(body) \in 1..MaxLines /\ got \in 0..(2 * Len(body)) /\ open \in BOOLEAN
    /\ answer \in SseReplies \cup {"reading", "malformed", "transport"}

\* The reply is that of the first reply frame; of a stream that goes on, that frame
\* has been received whole.  (transport/http/sse.rs:42-66)
AnswerIsTheFirstReply ==
    answer \in SseReplies =>
        \E f \in FramesOf({answer}) :
            /\ open => Terminated(f[2])
            /\ Before(f) \cap FramesOf(SseReplies \cup {"broken"}) = {}

\* Nothing is waited for once the reply is there: "the caller can stop reading the
\* instant the reply lands".  (transport/http/sse.rs:9-14)
ReadsNoFurther ==
    answer = "reading" => \A f \in FramesOf(SseReplies \cup {"broken"}) : ~Terminated(f[2])

\* However the body is cut into chunks, a call fails only for a frame that is broken
\* as the server sent it, or for a stream that ends without a reply or within a line.
\* "An incomplete tail is never an error."  (transport/http/sse.rs:51-55)
ChunksAreNoError ==
    answer = "malformed" =>
        \/ \E f \in FramesOf({"broken"}) : open => Terminated(f[2])
        \/ ~open /\ (got % 2 = 1 \/ FramesOf(SseReplies) = {})

ReplyIsTheFirst ==
    SseTypeOK /\ AnswerIsTheFirstReply /\ ReadsNoFurther /\ ChunksAreNoError

=============================================================================
