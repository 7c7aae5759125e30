------------------------------ MODULE AuditLog ------------------------------
(***************************************************************************)
(* The record of what MCP tools wrote (audit/store/types.rs, audit/query   *)
(* .rs): an append-only stream that is listed in pages, newest first.  A   *)
(* list reads the stream in windows, up to the length it began with, while *)
(* writes go on; a window that ends past that length brings what was       *)
(* appended meanwhile.  The text of an entry is left out, its time comes   *)
(* from the host's clock and may go back.                                  *)
(***************************************************************************)
EXTENDS Naturals, Sequences, FiniteSets

CONSTANTS
    Readers,       \* calls of list, one each
    Tools,         \* the tools that write
    Times,         \* the timestamps a host may give
    DefaultLimit,  \* the page size of a query without one
    MaxLimit,      \* the largest page
    ReadWindow,    \* how many entries one read asks for
    MaxEntries     \* bound: how long the stream grows

ASSUME AuditAssumption ==
    /\ Times \subseteq Nat
    /\ {DefaultLimit, MaxLimit, ReadWindow, MaxEntries} \subseteq Nat \ {0}

VARIABLES
    stream,  \* the entries, each at its offset plus one
    reader   \* reader -> the list it is in, or the page it got

auditVars == <<stream, reader>>

Writes == [time : Times, tool : Tools, success : BOOLEAN]

\* A query as it comes in; a limit of 0 stands for none, "blank" for a
\* filter that is absent or only spaces.
Queries ==
    [limit : {0, MaxLimit + 1}, offset : {0, 1}, since : Times,
     tool : Tools \union {"blank"}, success : BOOLEAN]

ResolvedLimit(query) ==
    IF query.limit = 0 THEN DefaultLimit
    ELSE IF query.limit > MaxLimit THEN MaxLimit ELSE query.limit

Keeps(query, entry) ==
    /\ entry.time >= query.since
    /\ query.tool \in Tools => entry.tool = query.tool
    /\ query.success => entry.success

NoList == [state |-> "none"]

AuditInit ==
    /\ stream = <<>>
    /\ reader = [r \in Readers |-> NoList]

\* record: the entry's id is its place in the stream.
RecordWrite(entry) ==
    /\ Len(stream) < MaxEntries
    /\ stream' = Append(stream, entry)
    /\ UNCHANGED reader

\* list: the length is read before the first window.
BeginList(r, query) ==
    /\ reader[r] = NoList
    /\ reader' = [reader EXCEPT ![r] =
           [state |-> "reading", query |-> query, end |-> Len(stream),
            from |-> 0, matched |-> {}]]
    /\ UNCHANGED stream

\* The ids of a window that begins after `from` entries.
WindowAt(from) == {id \in 1..Len(stream) : from < id /\ id <= from + ReadWindow}

\* Where the next window begins: after the last entry of this one.
NextFrom(from) == IF from + ReadWindow < Len(stream) THEN from + ReadWindow ELSE Len(stream)

ListWindow(r) ==
    /\ reader[r].state = "reading" /\ reader[r].from < reader[r].end
    /\ reader' = [reader EXCEPT
           ![r].matched = @ \union
               {id \in WindowAt(reader[r].from) : Keeps(reader[r].query, stream[id])},
           ![r].from = NextFrom(@)]
    /\ UNCHANGED stream

\* Mutant: entries of one millisecond are left in the order they were read.
NewerByTime(i, j) ==
    stream[i].time > stream[j].time \/ (stream[i].time = stream[j].time /\ i < j)

\* By time, then by id, so that two writes of one millisecond keep their places.
Newer(i, j) ==
    stream[i].time > stream[j].time \/ (stream[i].time = stream[j].time /\ i > j)

\* sort: the ids in that order.
Sorted(ids) ==
    CHOOSE s \in [1..Cardinality(ids) -> ids] :
        \A i, j \in DOMAIN s : i < j => Newer(s[i], s[j])

EndList(r) ==
    /\ reader[r].state = "reading" /\ reader[r].from >= reader[r].end
    /\ LET query == reader[r].query
           sorted == Sorted(reader[r].matched)
           last == query.offset + ResolvedLimit(query)
       IN  reader' = [reader EXCEPT ![r] =
               [state |-> "listed", query |-> query, end |-> reader[r].end,
                page |-> SubSeq(sorted, query.offset + 1,
                                IF last < Len(sorted) THEN last ELSE Len(sorted))]]
    /\ UNCHANGED stream

AuditNext ==
    \/ \E entry \in Writes : RecordWrite(entry)
    \/ \E r \in Readers :
           \/ \E query \in Queries : BeginList(r, query)
           \/ ListWindow(r)
           \/ EndList(r)

AuditSpec == AuditInit /\ [][AuditNext]_auditVars

-----------------------------------------------------------------------------

\* id has place n of the page of `query` over the first `length` entries:
\* exactly as many entries the query keeps are later as come before it.
IsAt(query, length, id, n) ==
    /\ id \in 1..length /\ Keeps(query, stream[id])
    /\ n + query.offset = 1 + Cardinality({other \in 1..length :
           /\ Keeps(query, stream[other])
           /\ \/ stream[other].time > stream[id].time
              \/ stream[other].time = stream[id].time /\ other > id})

\* A list answers as if it had read, in one moment, a stream that ends no
\* earlier than the one it began with: nothing recorded before it is missing
\* or listed twice, however many writes came between its windows, and no
\* place of the page is skipped.
PageIsOfOneMoment ==
    \A r \in Readers :
        reader[r].state = "listed" =>
            LET query == reader[r].query
                page == reader[r].page
            IN  \E length \in reader[r].end..Len(stream) :
                    /\ \A n \in 1..Len(page) : IsAt(query, length, page[n], n)
                    /\ \/ Len(page) = ResolvedLimit(query)
                       \/ Len(page) < ResolvedLimit(query)
                          /\ ~\E id \in 1..length : IsAt(query, length, id, Len(page) + 1)

=============================================================================
