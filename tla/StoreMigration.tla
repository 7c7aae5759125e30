--------------------------- MODULE StoreMigration ---------------------------
(***************************************************************************)
(* The migration a store runs when it is opened: one document step of      *)
(* Schema::migrate (storage/local/schema.rs) and the audit stream import   *)
(* (storage/migrate.rs), with several openers, crashes anywhere and the    *)
(* servers of the openers that already finished.                           *)
(*                                                                         *)
(* Every storage call is an action of its own: another opener may act      *)
(* between two of them, and a crash leaves what was written so far.        *)
(***************************************************************************)
EXTENDS Naturals, Sequences, SequencesExt, FiniteSets, FiniteSetsExt

CONSTANTS
    Openers,      \* processes that open the same storage
    RowCount,     \* the legacy rows are 1..RowCount, in id order
    Carried,      \* the rows the step's rule converts; it drops the others
    Batch,        \* rows per page
    AuditLength,      \* the legacy audit stream holds 1..AuditLength
    Window,       \* entries per read of a stream
    MaxWrites,    \* bounds the audit records written after the migration
    None

ASSUME MigrationAssumption ==
    /\ {RowCount, AuditLength, Window, MaxWrites} \subseteq Nat /\ Batch \in Nat \ {0}
    /\ Carried \subseteq 1..RowCount

Rows == 1..RowCount
Written == AuditLength + 1      \* an audit record a server wrote itself

VARIABLES
    legacy,      \* rows in the legacy collection
    target,      \* the new collection: none, moved, or edited since
    ledger,      \* the step's progress row
    source,      \* how many entries the legacy stream holds; 0: deleted
    audit,       \* the mcp.audit stream
    checkpoint,  \* the durable StreamProgress, or None
    imported,    \* the stream step is marked done
    opener,      \* each opener's position and what it has read
    removed,     \* history: rows a server removed
    writes       \* audit records written by servers

docVars == <<legacy, target, ledger, removed>>
streamVars == <<source, audit, checkpoint, imported, writes>>
migrationVars == <<docVars, streamVars, opener>>

Unopened == [at |-> "idle", cursor |-> 0, page |-> {}, puts |-> {}, last |-> FALSE,
         length |-> 0, from |-> 0, to |-> 0]

MigrationTypeOK ==
    /\ legacy \subseteq Rows /\ removed \subseteq Rows
    /\ target \in [Rows -> {"none", "moved", "edited"}]
    /\ ledger \in [cursor : 0..RowCount, done : BOOLEAN]
    /\ source \in {0, AuditLength} /\ writes \in 0..MaxWrites
    /\ audit \in Seq(1..Written)
    /\ \/ checkpoint = None
       \/ checkpoint.from \in 0..AuditLength /\ checkpoint.to \in 0..Len(audit)
    /\ imported \in BOOLEAN
    /\ \A o \in Openers :
        /\ opener[o].at \in {"idle", "load", "query", "put", "delete", "save", "finish",
                             "streams", "length", "progress", "baseline", "keep", "read",
                             "compare", "tail", "append", "advance", "drop", "mark", "open"}
        /\ opener[o].page \subseteq Rows /\ opener[o].puts \subseteq opener[o].page

MigrationInit ==
    /\ legacy = Rows /\ target = [r \in Rows |-> "none"]
    /\ ledger = [cursor |-> 0, done |-> FALSE]
    /\ source = AuditLength /\ audit \in {<<>>, <<Written>>}
    /\ checkpoint = None /\ imported = FALSE
    /\ opener = [o \in Openers |-> Unopened]
    /\ removed = {} /\ writes = 0

Goto(o, at) == opener' = [opener EXCEPT ![o].at = at]
Fail(o) == opener' = [opener EXCEPT ![o] = Unopened]

-----------------------------------------------------------------------------
\* Schema::migrate, for one step.

Begin(o) ==
    /\ opener[o].at = "idle"
    /\ Goto(o, "load") /\ UNCHANGED <<docVars, streamVars>>

\* load: a finished step is skipped, an interrupted one resumes after its cursor.
LoadProgress(o) ==
    /\ opener[o].at = "load"
    /\ opener' = [opener EXCEPT ![o].at = IF ledger.done THEN "streams" ELSE "query",
                                ![o].cursor = ledger.cursor]
    /\ UNCHANGED <<docVars, streamVars>>

After(cursor) == {r \in legacy : r > cursor}
PageAfter(cursor) ==
    {r \in After(cursor) : Cardinality({q \in After(cursor) : q < r}) < Batch}

\* Whatever was read is taken for all there is.
OnlyPage(page, cursor) == TRUE

\* A page without a cursor to continue from.
LastPage(page, cursor) == page = After(cursor)

\* query: a page in id order.
QueryPage(o) ==
    /\ opener[o].at = "query"
    /\ LET page == PageAfter(opener[o].cursor)
       IN  opener' = IF page = {} THEN [opener EXCEPT ![o].at = "finish"]
                     ELSE [opener EXCEPT ![o].at = "put", ![o].page = page,
                                         ![o].puts = page \cap Carried,
                                         ![o].last = LastPage(page, opener[o].cursor)]
    /\ UNCHANGED <<docVars, streamVars>>

\* A put that does not ask for the target to be absent.
PutAlways(r) == target' = [target EXCEPT ![r] = "moved"]

\* The write is conditional on the target being absent; one that is there already
\* must be the same document.
PutAbsent(r) ==
    target' = IF target[r] = "none" THEN [target EXCEPT ![r] = "moved"] ELSE target

\* put_with, for the next output: a different document fails the migration.
PutNext(o) ==
    /\ opener[o].at = "put"
    /\ IF opener[o].puts = {} THEN Goto(o, "delete") /\ UNCHANGED target
       ELSE LET r == Min(opener[o].puts)
            IN  /\ PutAbsent(r)
                /\ IF target[r] = "edited" THEN Fail(o)
                   ELSE opener' = [opener EXCEPT ![o].puts = @ \ {r}]
    /\ UNCHANGED <<legacy, ledger, removed, streamVars>>

DeleteRow(o) ==
    \E r \in opener[o].page :
        /\ r = Min(opener[o].page)
        /\ legacy' = legacy \ {r}
        /\ opener' = [opener EXCEPT ![o].page = @ \ {r}, ![o].cursor = r,
                                    ![o].at = IF opener[o].page = {r} THEN "save" ELSE @]
        /\ UNCHANGED <<target, ledger, removed, streamVars>>

\* Rows deleted while the page is still being written.
DeleteEarly(o) == opener[o].at \in {"put", "delete"} /\ DeleteRow(o)

\* delete, row by row, after the writes: one that another opener deleted is no error.
DeleteNext(o) == opener[o].at = "delete" /\ DeleteRow(o)

\* The last page has no cursor to continue from.
SaveProgress(o) ==
    /\ opener[o].at = "save"
    /\ ledger' = [cursor |-> IF opener[o].last THEN 0 ELSE opener[o].cursor, done |-> FALSE]
    /\ Goto(o, IF opener[o].last THEN "finish" ELSE "query")
    /\ UNCHANGED <<legacy, target, removed, streamVars>>

SaveDone(o) ==
    /\ opener[o].at = "finish"
    /\ ledger' = [cursor |-> 0, done |-> TRUE]
    /\ Goto(o, "streams")
    /\ UNCHANGED <<legacy, target, removed, streamVars>>

-----------------------------------------------------------------------------
\* migrate_audit_streams and migrate_audit_source.

ListStreams(o) ==
    /\ opener[o].at = "streams"
    /\ Goto(o, IF imported THEN "open" ELSE IF source = 0 THEN "mark" ELSE "length")
    /\ UNCHANGED <<docVars, streamVars>>

ReadLength(o) ==
    /\ opener[o].at = "length"
    /\ opener' = [opener EXCEPT ![o].length = source, ![o].at = "progress"]
    /\ UNCHANGED <<docVars, streamVars>>

\* stream_progress
LoadCheckpoint(o) ==
    /\ opener[o].at = "progress"
    /\ opener' = IF checkpoint = None THEN [opener EXCEPT ![o].at = "baseline"]
                 ELSE [opener EXCEPT ![o].at = "read", ![o].from = checkpoint.from,
                                     ![o].to = checkpoint.to]
    /\ UNCHANGED <<docVars, streamVars>>

\* The first checkpoint starts after what the target already holds.
ReadBaseline(o) ==
    /\ opener[o].at = "baseline"
    /\ opener' = [opener EXCEPT ![o].at = "keep", ![o].from = 0, ![o].to = Len(audit)]
    /\ UNCHANGED <<docVars, streamVars>>

\* save_stream_progress
SaveCheckpoint(o) ==
    /\ opener[o].at \in {"keep", "advance"}
    /\ checkpoint' = [from |-> opener[o].from, to |-> opener[o].to]
    /\ Goto(o, "read")
    /\ UNCHANGED <<docVars, source, audit, imported, writes>>

AtMost(a, b) == IF a < b THEN a ELSE b

\* A batch that is not cut off at the length read first.
WholeWindow(o) == opener[o].from + Window

BatchEnd(o) == AtMost(opener[o].from + Window, opener[o].length)

Values(o) == [i \in 1..(BatchEnd(o) - opener[o].from) |-> opener[o].from + i]
InTarget(o) ==
    SubSeq(audit, opener[o].to + 1, AtMost(opener[o].to + Len(Values(o)), Len(audit)))

\* source_batch: a stream that is gone was imported by another opener when the
\* durable checkpoint says so; otherwise the import fails.
ReadSource(o) ==
    /\ opener[o].at = "read"
    /\ IF opener[o].from >= opener[o].length
       THEN Goto(o, IF opener[o].from = opener[o].length THEN "drop" ELSE "mark")
       ELSE IF source > 0 THEN Goto(o, "compare")
       ELSE IF checkpoint.from >= opener[o].length
            THEN opener' = [opener EXCEPT ![o].from = opener[o].length, ![o].at = "drop"]
            ELSE Fail(o)
    /\ UNCHANGED <<docVars, streamVars>>

Advanced(o) ==
    [opener EXCEPT ![o].from = BatchEnd(o), ![o].to = @ + Len(Values(o)),
                   ![o].at = "advance"]

\* A batch that is in the target already was copied before a crash.
CompareTarget(o) ==
    /\ opener[o].at = "compare"
    /\ opener' = IF InTarget(o) = Values(o) THEN Advanced(o)
                 ELSE [opener EXCEPT ![o].at = "tail"]
    /\ UNCHANGED <<docVars, streamVars>>

CheckTail(o) ==
    /\ opener[o].at = "tail"
    /\ IF Len(audit) = opener[o].to THEN Goto(o, "append") ELSE Fail(o)
    /\ UNCHANGED <<docVars, streamVars>>

\* A conflict that is taken for this opener's own write.
AnyRace(o) == TRUE

\* Only the identical batch at the expected offset is accepted.
SameRace(o) == InTarget(o) = Values(o)

\* append_batch_if_offset
AppendBatch(o) ==
    /\ opener[o].at = "append"
    /\ IF Len(audit) = opener[o].to
       THEN audit' = audit \o Values(o) /\ opener' = Advanced(o)
       ELSE /\ UNCHANGED audit
            /\ IF SameRace(o) THEN opener' = Advanced(o) ELSE Fail(o)
    /\ UNCHANGED <<docVars, source, checkpoint, imported, writes>>

\* delete_migrated_source
DropSource(o) ==
    /\ opener[o].at = "drop"
    /\ source' = 0
    /\ Goto(o, "mark")
    /\ UNCHANGED <<docVars, audit, checkpoint, imported, writes>>

MarkDone(o) ==
    /\ opener[o].at = "mark"
    /\ imported' = TRUE
    /\ Goto(o, "open")
    /\ UNCHANGED <<docVars, source, audit, checkpoint, writes>>

OpenerCrash(o) ==
    /\ opener[o] # Unopened
    /\ Fail(o)
    /\ UNCHANGED <<docVars, streamVars>>

-----------------------------------------------------------------------------
\* What the servers behind the finished openers do.

Serving == \E o \in Openers : opener[o].at = "open"
Quiet == \A o \in Openers : opener[o].at \in {"idle", "open"}

EditRow(r) ==
    /\ Serving /\ target[r] # "none"
    /\ target' = [target EXCEPT ![r] = "edited"]
    /\ UNCHANGED <<legacy, ledger, removed, streamVars, opener>>

RemoveRow(r) ==
    /\ Serving /\ target[r] # "none"
    /\ target' = [target EXCEPT ![r] = "none"]
    /\ removed' = removed \cup {r}
    /\ UNCHANGED <<legacy, ledger, streamVars, opener>>

\* The host keeps writers away from the streams while they are migrated.
WriteAudit ==
    /\ Serving /\ Quiet /\ writes < MaxWrites
    /\ audit' = Append(audit, Written) /\ writes' = writes + 1
    /\ UNCHANGED <<docVars, source, checkpoint, imported, opener>>

Step(o) ==
    \/ Begin(o) \/ LoadProgress(o) \/ QueryPage(o) \/ PutNext(o) \/ DeleteNext(o)
    \/ SaveProgress(o) \/ SaveDone(o)
    \/ ListStreams(o) \/ ReadLength(o) \/ LoadCheckpoint(o) \/ ReadBaseline(o)
    \/ SaveCheckpoint(o) \/ ReadSource(o) \/ CompareTarget(o) \/ CheckTail(o) \/ AppendBatch(o)
    \/ DropSource(o) \/ MarkDone(o) \/ OpenerCrash(o)

MigrationNext ==
    \/ \E o \in Openers : Step(o)
    \/ \E r \in Rows : EditRow(r) \/ RemoveRow(r)
    \/ WriteAudit

MigrationSpec == MigrationInit /\ [][MigrationNext]_migrationVars

-----------------------------------------------------------------------------

\* A record the step carries over is in one of the two collections until somebody
\* removes it: nothing is deleted before its copy is stored, wherever a crash or
\* another opener comes in between.
\* (storage/local/schema.rs:330-395)
NothingIsLost ==
    \A r \in Carried : r \in legacy \/ target[r] # "none" \/ r \in removed

\* An edit made by a server that is already up survives an opener that still holds
\* the page from before: its put wants the target absent.
\* (storage/local/schema.rs:318-371)
EditsSurvive ==
    [][\A r \in Rows : target[r] = "edited" => target'[r] # "moved"]_migrationVars

\* A server that serves has left nothing behind in the previous schema, whoever
\* migrated it and whichever saved progress it resumed from.
\* (storage/local/schema.rs:277-440, storage/migrate.rs:66-80)
ServesAllOfIt ==
    Serving => legacy = {} /\ source = 0

\* The legacy stream is deleted only when all of its entries have reached the audit
\* log, in their order and with no other record between them.
\* (storage/migrate.rs:89-180)
AuditIsKept ==
    source = 0 =>
        \E first \in 0..(Len(audit) - AuditLength) :
            \A i \in 1..AuditLength : audit[first + i] = i

Copies == SelectSeq(audit, LAMBDA e : e # Written)

\* concurrent_owner_openers_do_not_duplicate_an_audit_batch: no entry is imported
\* twice.
\* (storage/migrate_tests.rs:895, storage/migrate.rs:95-117)
EntriesAreImportedOnce ==
    \A i, j \in 1..Len(Copies) : Copies[i] = Copies[j] => i = j

\* What holds of the two schemas at every step of every opener.
MigrationInv == MigrationTypeOK /\ NothingIsLost /\ ServesAllOfIt /\ AuditIsKept

\* What the file held is served, and what was edited meanwhile is not undone.
MigrationKeeps == []MigrationInv /\ EditsSurvive

=============================================================================
