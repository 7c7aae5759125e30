-------------------------- MODULE ComponentProofs --------------------------
(***************************************************************************)
(* Proofs about the components that stand alone: the update of one row     *)
(* (RowUpdate), the guided setup (SetupFlow), the servers in TinyBox's     *)
(* jail (StdioJail), the session with one (StdioSession), the supervisor's *)
(* events (SupervisorEvents), the searches of the catalogs (CatalogSearch),*)
(* their copy (CatalogIndex) and a client's place in the host's table      *)
(* (ClientTable).                                                          *)
(***************************************************************************)
EXTENDS RowUpdate, SetupFlow, StdioJail, StdioSession, SupervisorEvents, CatalogSearch,
        CatalogIndex, ClientTable, FiniteSetTheorems, SequenceTheorems, TLAPS

-----------------------------------------------------------------------------
(* RowUpdate: for any writers, values and changes, and any budget of         *)
(* attempts, its spec implements AtomicRow.                                  *)

LEMMA Beyond ==
    ASSUME NEW m \in Nat, NEW n \in Nat, m <= n
    PROVE  m <= n + 1 /\ m # n + 1 /\ n + 1 \in Nat
OBVIOUS

\* A write made on the version its writer has read is the change of the row's value.
LEMMA WrittenIsChange ==
    ASSUME RowAssumption, RowInv, NEW w \in Writers, step[w] = "put", SameVersion(w)
    PROVE  /\ row.value # Absent
           /\ row.value = saw[w].value
           /\ row.value \in RowValues
           /\ Rewritten(w).value = Change(w, row.value)
           /\ Rewritten(w).value \in RowValues
<1>1. row.value # Absent /\ row.version = saw[w].version
      BY DEF SameVersion
<1>2. saw[w].value \in RowValues
      BY DEF RowInv, VersionsTell
<1>3. row.value = saw[w].value
      BY <1>1 DEF RowInv, VersionsTell
<1>4. Rewritten(w).value = Change(w, saw[w].value)
      BY DEF Rewritten
<1> QED BY <1>1, <1>2, <1>3, <1>4 DEF RowAssumption

\* A write that was made keeps the invariant, whatever its writer is told of it.
LEMMA WrittenKeepsInv ==
    ASSUME RowAssumption, RowInv,
           NEW w \in Writers, step[w] = "put", SameVersion(w), row' = Rewritten(w),
           NEW how \in {"stored", "failed"}, Return(w, how), saw' = saw, lost' = lost
    PROVE  RowInv'
<1>1. row.version \in Nat /\ row'.version = row.version + 1
      BY DEF RowInv, RowTypeOK, Documents, Rewritten
<1>2. row' = [version |-> row.version + 1, value |-> Change(w, saw[w].value)]
      BY DEF Rewritten
<1>3. Change(w, saw[w].value) \in RowValues
      BY WrittenIsChange, <1>2 DEF Rewritten
<1>4. row' \in Documents
      BY <1>1, <1>2, <1>3 DEF Documents
<1>5. RowTypeOK'
      BY <1>4 DEF RowInv, RowTypeOK, Return
<1>6. ASSUME NEW v \in Writers, step'[v] = "put"
      PROVE  /\ saw'[v].version <= row'.version
             /\ saw'[v].value \in RowValues
             /\ saw'[v].version = row'.version => row'.value \in {saw'[v].value, Absent}
  <2>1. step[v] = "put"
        BY <1>6 DEF RowInv, RowTypeOK, Return
  <2>2. saw[v].version \in Nat
        BY DEF RowInv, RowTypeOK, Documents
  <2>3. saw[v].version <= row.version /\ saw[v].value \in RowValues
        BY <2>1 DEF RowInv, VersionsTell
  <2>4. saw[v].version <= row.version + 1 /\ saw[v].version # row.version + 1
        BY <1>1, <2>2, <2>3, Beyond
  <2> QED BY <1>1, <2>3, <2>4
<1> QED BY <1>5, <1>6 DEF RowInv, VersionsTell

\* What every step of a writer keeps.
LEMMA WriterKeepsInv ==
    ASSUME RowAssumption, RowInv, NEW w \in Writers, WriterStep(w)
    PROVE  RowInv'
<1>1. CASE Get(w)
  <2>1. row.value \in RowValues
        BY <1>1 DEF Get, RowInv, RowTypeOK, Documents
  <2>2. RowTypeOK'
        BY <1>1 DEF Get, RowInv, RowTypeOK
  <2>3. ASSUME NEW v \in Writers, step'[v] = "put"
        PROVE  /\ saw'[v].version <= row'.version
               /\ saw'[v].value \in RowValues
               /\ saw'[v].version = row'.version => row'.value \in {saw'[v].value, Absent}
    <3>1. CASE v = w
      <4>1. saw'[v] = row /\ row' = row /\ row.version \in Nat
            BY <1>1, <3>1 DEF Get, RowInv, RowTypeOK, Documents
      <4> QED BY <2>1, <4>1
    <3>2. CASE v # w
      <4>1. saw'[v] = saw[v] /\ row' = row /\ step[v] = "put"
            BY <1>1, <2>3, <3>2 DEF Get, RowInv, RowTypeOK
      <4> QED BY <4>1 DEF RowInv, VersionsTell
    <3> QED BY <3>1, <3>2
  <2> QED BY <2>2, <2>3 DEF RowInv, VersionsTell
<1>2. CASE GetNothing(w) \/ GetFails(w)
      BY <1>2 DEF GetNothing, GetFails, Return, RowInv, RowTypeOK, VersionsTell
<1>3. CASE Put(w)
      BY <1>3, WrittenKeepsInv DEF Put
<1>4. CASE Conflict(w)
      BY <1>4 DEF Conflict, Return, RowInv, RowTypeOK, VersionsTell
<1>5. CASE PutFails(w)
  <2>1. CASE row' = row
        BY <1>5, <2>1 DEF PutFails, Return, RowInv, RowTypeOK, VersionsTell
  <2>2. CASE SameVersion(w) /\ row' = Rewritten(w)
        BY <1>5, <2>2, WrittenKeepsInv DEF PutFails
  <2> QED BY <1>5, <2>1, <2>2 DEF PutFails
<1> QED BY <1>1, <1>2, <1>3, <1>4, <1>5 DEF WriterStep

LEMMA DeleteKeepsInv ==
    ASSUME RowInv, RowDeleted
    PROVE  RowInv'
<1>1. row' \in Documents /\ row'.version = row.version /\ row'.value = Absent
      BY DEF RowDeleted, RowInv, RowTypeOK, Documents
<1> QED BY <1>1 DEF RowDeleted, RowInv, RowTypeOK, VersionsTell

\* The inductive invariant of the next theorem: what a writer has read is what the row
\* still holds, as long as its version is the row's.
THEOREM VersionsAreTelling == ASSUME RowAssumption PROVE RowUpdateSpec => []RowInv
<1>1. RowUpdateInit => RowInv
      BY DEF RowAssumption, RowUpdateInit, RowInv, RowTypeOK, VersionsTell, Documents
<1>2. RowInv /\ [RowUpdateNext]_rowVars => RowInv'
  <2>1. ASSUME RowInv, UNCHANGED rowVars
        PROVE  RowInv'
        BY <2>1 DEF rowVars, RowInv, RowTypeOK, VersionsTell
  <2> QED BY <2>1, WriterKeepsInv, DeleteKeepsInv DEF RowUpdateNext
<1> QED BY <1>1, <1>2, PTL DEF RowUpdateSpec

\* A writer that has not returned has no outcome yet.
Pending == \A w \in Writers : step[w] # "returned" => outcome[w] = "none"

LEMMA PendingInductive ==
    ASSUME RowInv, Pending, [RowUpdateNext]_rowVars
    PROVE  Pending'
<1>1. ASSUME NEW w \in Writers, WriterStep(w)
      PROVE  Pending'
  <2>1. \/ Get(w)
        \/ Conflict(w) /\ ~Spent(w)
        \/ \E how \in {"stored", "missing", "conflict", "failed"} : Return(w, how)
        BY <1>1 DEF WriterStep, GetNothing, Put, Conflict, GetFails, PutFails
  <2>2. CASE Get(w)
        BY <2>2 DEF Get, Pending, RowInv, RowTypeOK
  <2>3. CASE Conflict(w) /\ ~Spent(w)
        BY <2>3 DEF Conflict, Pending, RowInv, RowTypeOK
  <2>4. ASSUME NEW how \in {"stored", "missing", "conflict", "failed"}, Return(w, how)
        PROVE  Pending'
        BY <2>4 DEF Return, Pending, RowInv, RowTypeOK
  <2> QED BY <2>1, <2>2, <2>3, <2>4
<1>2. CASE RowDeleted
      BY <1>2 DEF RowDeleted, Pending
<1>3. CASE UNCHANGED rowVars
      BY <1>3 DEF rowVars, Pending
<1> QED BY <1>1, <1>2, <1>3 DEF RowUpdateNext

\* A writer that returns ends its update, which had no outcome before.
LEMMA ReturnEnds ==
    ASSUME RowInv, Pending, NEW w \in Writers, step[w] # "returned", NEW how, Return(w, how)
    PROVE  Atomic!Ends(w, how)
BY DEF Return, Pending, Atomic!Ends

\* Every step of a writer makes its change at once, or does nothing to the row.
LEMMA WriterIsAtomic ==
    ASSUME RowAssumption, RowInv, Pending, NEW w \in Writers, WriterStep(w)
    PROVE  [Atomic!RowNext]_<<row.value, outcome>>
<1>1. step[w] # "returned"
      BY DEF WriterStep, Get, GetNothing, Put, Conflict, GetFails, PutFails
<1>2. CASE Get(w)
      BY <1>2 DEF Get
<1>3. CASE GetNothing(w)
  <2>1. Atomic!Ends(w, "missing")
        BY <1>1, <1>3, ReturnEnds DEF GetNothing
  <2> QED BY <1>3, <2>1 DEF GetNothing, Atomic!Miss, Atomic!RowNext
<1>4. ASSUME NEW how \in {"stored", "failed"}, Return(w, how),
             step[w] = "put", SameVersion(w), row' = Rewritten(w)
      PROVE  Atomic!RowNext
  <2>1. Atomic!Ends(w, how)
        BY <1>1, <1>4, ReturnEnds
  <2>2. row.value # Absent /\ row'.value = Change(w, row.value)
        BY <1>4, WrittenIsChange
  <2> QED BY <2>1, <2>2 DEF Atomic!Make, Atomic!RowNext
<1>5. ASSUME NEW how \in {"conflict", "failed"}, Return(w, how), row' = row
      PROVE  Atomic!RowNext
  <2>1. Atomic!Ends(w, how)
        BY <1>1, <1>5, ReturnEnds
  <2> QED BY <1>5, <2>1 DEF Atomic!Fail, Atomic!RowNext
<1>6. CASE Put(w)
      BY <1>4, <1>6 DEF Put
<1>7. CASE Conflict(w)
  <2>1. CASE Spent(w)
        BY <1>5, <1>7, <2>1 DEF Conflict
  <2>2. CASE ~Spent(w)
        BY <1>7, <2>2 DEF Conflict
  <2> QED BY <2>1, <2>2
<1>8. CASE GetFails(w)
      BY <1>5, <1>8 DEF GetFails
<1>9. CASE PutFails(w)
  <2>1. CASE row' = row
        BY <1>5, <1>9, <2>1 DEF PutFails
  <2>2. CASE SameVersion(w) /\ row' = Rewritten(w)
        BY <1>4, <1>9, <2>2 DEF PutFails
  <2> QED BY <1>9, <2>1, <2>2 DEF PutFails
<1> QED BY <1>2, <1>3, <1>6, <1>7, <1>8, <1>9 DEF WriterStep

LEMMA DeleteIsAtomic ==
    ASSUME RowInv, RowDeleted
    PROVE  Atomic!RowNext
<1>1. row'.value = Absent
      BY DEF RowDeleted, RowInv, RowTypeOK, Documents
<1> QED BY <1>1 DEF RowDeleted, Atomic!Disappear, Atomic!RowNext

\* "Read-modify-write one record as a single compare-and-swap loop": whoever else
\* writes the row, an update is one step of AtomicRow, made to the value the row has
\* then, or it is not made.  (storage/local/primitives/repo.rs:226-240)
THEOREM RowUpdateIsAtomic == ASSUME RowAssumption PROVE RowUpdateSpec => UpdatesAreAtomic
<1>1. RowUpdateInit => Pending /\ Atomic!RowInit(First)
      BY DEF RowUpdateInit, Pending, Atomic!RowInit
<1>2. RowInv /\ Pending /\ [RowUpdateNext]_rowVars => Pending'
      BY PendingInductive
<1>3. RowInv /\ Pending /\ [RowUpdateNext]_rowVars
        => [Atomic!RowNext]_<<row.value, outcome>>
  <2>1. ASSUME UNCHANGED rowVars
        PROVE  UNCHANGED <<row.value, outcome>>
        BY <2>1 DEF rowVars
  <2> QED BY <2>1, WriterIsAtomic, DeleteIsAtomic DEF RowUpdateNext
<1> QED BY <1>1, <1>2, <1>3, VersionsAreTelling, PTL DEF RowUpdateSpec, UpdatesAreAtomic

-----------------------------------------------------------------------------
(* Lost swaps.                                                             *)

Gone == IF row.value = Absent THEN 1 ELSE 0

\* Who may have written the row.
Wrote == {w \in Writers : outcome[w] \in {"stored", "failed"}}

\* Every write was some writer's only one, and a writer that is about to put has lost
\* fewer swaps than the row had writes when it read it.
ProgressInv ==
    /\ row.version - 1 <= Cardinality(Wrote)
    /\ 1 <= row.version
    /\ \A w \in Writers :
           /\ lost[w] <= row.version - 1 + Gone
           /\ step[w] = "put" => lost[w] <= saw[w].version - 1
           /\ outcome[w] = "conflict" => Attempts <= Cardinality(Writers)

LEMMA SomeWriters ==
    ASSUME RowAssumption, NEW S \in SUBSET Writers
    PROVE  /\ IsFiniteSet(S) /\ Cardinality(S) \in Nat
           /\ Cardinality(S) <= Cardinality(Writers)
BY FS_Subset, FS_CardinalityType DEF RowAssumption

LEMMA WroteIsFinite ==
    ASSUME RowAssumption
    PROVE  /\ IsFiniteSet(Wrote) /\ Cardinality(Wrote) \in Nat
           /\ IsFiniteSet(Writers) /\ Cardinality(Writers) \in Nat
<1>1. Wrote \subseteq Writers
      BY DEF Wrote
<1> QED BY <1>1, SomeWriters

LEMMA GoneIsNat == Gone \in {0, 1}
BY DEF Gone

\* One writer more may have written, and it had not before.
LEMMA OneMoreWrote ==
    ASSUME RowAssumption, RowInv, Pending, NEW w \in Writers, step[w] # "returned",
           NEW how \in {"stored", "failed"}, Return(w, how)
    PROVE  Cardinality(Wrote') = Cardinality(Wrote) + 1
<1>1. w \notin Wrote
      BY DEF Pending, Wrote
<1>2. Wrote' = Wrote \cup {w}
      BY DEF Wrote, Return, RowInv, RowTypeOK
<1> QED BY <1>1, <1>2, WroteIsFinite, FS_AddElement

\* The writers that lost a swap are not among those that wrote.
LEMMA LoserLeavesRoom ==
    ASSUME RowAssumption, NEW w \in Writers, w \notin Wrote
    PROVE  Cardinality(Wrote) + 1 <= Cardinality(Writers)
<1>1. Wrote \cup {w} \subseteq Writers
      BY DEF Wrote
<1>2. Cardinality(Wrote \cup {w}) <= Cardinality(Writers)
      BY <1>1, SomeWriters
<1>3. Cardinality(Wrote \cup {w}) = Cardinality(Wrote) + 1
      BY WroteIsFinite, FS_AddElement
<1> QED BY <1>2, <1>3

\* A write raises the version, and is its writer's only one.
LEMMA WrittenKeepsProgress ==
    ASSUME RowAssumption, RowInv, Pending, ProgressInv,
           NEW w \in Writers, step[w] = "put", SameVersion(w), row' = Rewritten(w),
           NEW how \in {"stored", "failed"}, Return(w, how), saw' = saw, lost' = lost
    PROVE  ProgressInv'
<1>1. row.version \in Nat /\ row'.version = row.version + 1
      BY DEF RowInv, RowTypeOK, Documents, Rewritten
<1>2. Cardinality(Wrote') = Cardinality(Wrote) + 1
      BY OneMoreWrote
<1>3. Gone = 0 /\ Gone' \in {0, 1}
      BY DEF Gone, SameVersion
<1>4. Cardinality(Wrote) \in Nat
      BY WroteIsFinite
<1>5. ASSUME NEW v \in Writers
      PROVE  /\ lost'[v] <= row'.version - 1 + Gone'
             /\ step'[v] = "put" => lost'[v] <= saw'[v].version - 1
             /\ outcome'[v] = "conflict" => Attempts <= Cardinality(Writers)
  <2>1. lost[v] \in Nat /\ lost[v] <= row.version - 1
        BY <1>3, <1>1 DEF ProgressInv, RowInv, RowTypeOK
  <2>2. step'[v] = "put" => step[v] = "put"
        BY DEF Return, RowInv, RowTypeOK
  <2>3. outcome'[v] = "conflict" => outcome[v] = "conflict"
        BY DEF Return, RowInv, RowTypeOK
  <2>4. lost'[v] <= row'.version - 1 + Gone'
        BY <1>1, <1>3, <2>1
  <2> QED BY <2>2, <2>3, <2>4 DEF ProgressInv
<1>6. row'.version - 1 <= Cardinality(Wrote') /\ 1 <= row'.version
      BY <1>1, <1>2, <1>4 DEF ProgressInv
<1> QED BY <1>5, <1>6 DEF ProgressInv

\* A conflict costs the writer one of the swaps that were lost to a write it has not
\* seen, or to the removal.
LEMMA ConflictKeepsProgress ==
    ASSUME RowAssumption, RowInv, Pending, ProgressInv, NEW w \in Writers, Conflict(w)
    PROVE  ProgressInv'
<1>1. row.version \in Nat /\ saw[w].version \in Nat /\ lost[w] \in Nat
      BY DEF RowInv, RowTypeOK, Documents
<1>2. lost[w] + 1 <= row.version - 1 + Gone
  <2>1. saw[w].version <= row.version /\ lost[w] <= saw[w].version - 1
        BY DEF Conflict, RowInv, VersionsTell, ProgressInv
  <2>2. CASE row.value = Absent
        BY <1>1, <2>1, <2>2 DEF Gone
  <2>3. CASE row.version # saw[w].version
        BY <1>1, <2>1, <2>3, GoneIsNat
  <2> QED BY <2>2, <2>3 DEF Conflict, SameVersion
<1>3. row' = row /\ saw' = saw /\ Gone' = Gone
      BY DEF Conflict, Gone
<1>4. Wrote' = Wrote /\ w \notin Wrote
      BY DEF Wrote, Conflict, Return, RowInv, RowTypeOK, Pending
<1>5. Spent(w) => Attempts <= Cardinality(Writers)
  <2>1. Attempts \in Nat /\ Cardinality(Wrote) \in Nat /\ Cardinality(Writers) \in Nat
        BY WroteIsFinite DEF RowAssumption
  <2>2. Cardinality(Wrote) + 1 <= Cardinality(Writers)
        BY <1>4, LoserLeavesRoom
  <2>3. row.version - 1 <= Cardinality(Wrote)
        BY DEF ProgressInv
  <2> QED BY <1>1, <1>2, <2>1, <2>2, <2>3, GoneIsNat DEF Spent
<1>6. ASSUME NEW v \in Writers
      PROVE  /\ lost'[v] <= row'.version - 1 + Gone'
             /\ step'[v] = "put" => lost'[v] <= saw'[v].version - 1
             /\ outcome'[v] = "conflict" => Attempts <= Cardinality(Writers)
  <2>1. CASE v = w
    <3>1. lost'[v] = lost[w] + 1 /\ step'[v] # "put"
          BY <2>1 DEF Conflict, Return, RowInv, RowTypeOK
    <3>2. outcome'[v] = "conflict" => Spent(w)
          BY <2>1 DEF Conflict, Return, RowInv, RowTypeOK, Pending
    <3> QED BY <1>2, <1>3, <1>5, <3>1, <3>2
  <2>2. CASE v # w
    <3>1. lost'[v] = lost[v] /\ step'[v] = step[v] /\ outcome'[v] = outcome[v]
          BY <2>2 DEF Conflict, Return, RowInv, RowTypeOK
    <3> QED BY <1>3, <3>1 DEF ProgressInv
  <2> QED BY <2>1, <2>2
<1> QED BY <1>3, <1>4, <1>6 DEF ProgressInv

\* Every other step of a writer writes nothing and loses nothing.
LEMMA QuietKeepsProgress ==
    ASSUME RowAssumption, RowInv, Pending, ProgressInv, NEW w \in Writers,
           step[w] # "returned", NEW how \in {"missing", "failed"},
           Return(w, how), UNCHANGED <<row, saw, lost>>
    PROVE  ProgressInv'
<1>1. Gone' = Gone
      BY DEF Gone
<1>2. Cardinality(Wrote) \in Nat /\ Cardinality(Wrote') \in Nat
  <2>1. Wrote' \subseteq Writers
        BY DEF Wrote
  <2> QED BY <2>1, WroteIsFinite, SomeWriters
<1>3. Cardinality(Wrote) <= Cardinality(Wrote')
  <2>1. CASE how = "missing"
    <3>1. Wrote' = Wrote
          BY <2>1 DEF Wrote, Return, RowInv, RowTypeOK, Pending
    <3> QED BY <1>2, <3>1
  <2>2. CASE how = "failed"
        BY <1>2, <2>2, OneMoreWrote
  <2> QED BY <2>1, <2>2
<1>4. row.version \in Nat
      BY DEF RowInv, RowTypeOK, Documents
<1>5. ASSUME NEW v \in Writers
      PROVE  /\ step'[v] = "put" => step[v] = "put"
             /\ outcome'[v] = "conflict" => outcome[v] = "conflict"
      BY DEF Return, RowInv, RowTypeOK
<1>6. row'.version - 1 <= Cardinality(Wrote')
      BY <1>2, <1>3, <1>4 DEF ProgressInv
<1> QED BY <1>1, <1>5, <1>6 DEF ProgressInv

LEMMA WriterKeepsProgress ==
    ASSUME RowAssumption, RowInv, Pending, ProgressInv, NEW w \in Writers, WriterStep(w)
    PROVE  ProgressInv'
<1>1. CASE Get(w)
  <2>1. row' = row /\ lost' = lost /\ outcome' = outcome /\ Gone' = Gone /\ Gone = 0
        BY <1>1 DEF Get, Gone
  <2>2. Wrote' = Wrote
        BY <2>1 DEF Wrote
  <2>3. row.version \in Nat
        BY DEF RowInv, RowTypeOK, Documents
  <2>4. ASSUME NEW v \in Writers, step'[v] = "put"
        PROVE  lost[v] <= saw'[v].version - 1
    <3>1. CASE v = w
      <4>1. saw'[v] = row /\ lost[v] \in Nat
            BY <1>1, <3>1 DEF Get, RowInv, RowTypeOK
      <4>2. lost[v] <= row.version - 1 + 0
            BY <2>1 DEF ProgressInv
      <4> QED BY <2>3, <4>1, <4>2
    <3>2. CASE v # w
          BY <1>1, <2>4, <3>2 DEF Get, RowInv, RowTypeOK, ProgressInv
    <3> QED BY <3>1, <3>2
  <2> QED BY <2>1, <2>2, <2>4 DEF ProgressInv
<1>2. CASE GetNothing(w)
      BY <1>2, QuietKeepsProgress DEF GetNothing
<1>3. CASE Put(w)
      BY <1>3, WrittenKeepsProgress DEF Put
<1>4. CASE Conflict(w)
      BY <1>4, ConflictKeepsProgress
<1>5. CASE GetFails(w)
      BY <1>5, QuietKeepsProgress DEF GetFails
<1>6. CASE PutFails(w)
  <2>1. CASE row' = row
        BY <1>6, <2>1, QuietKeepsProgress DEF PutFails
  <2>2. CASE SameVersion(w) /\ row' = Rewritten(w)
        BY <1>6, <2>2, WrittenKeepsProgress DEF PutFails
  <2> QED BY <1>6, <2>1, <2>2 DEF PutFails
<1> QED BY <1>1, <1>2, <1>3, <1>4, <1>5, <1>6 DEF WriterStep

LEMMA DeleteKeepsProgress ==
    ASSUME RowInv, ProgressInv, RowDeleted
    PROVE  ProgressInv'
<1>1. row.version \in Nat /\ row'.version = row.version
      BY DEF RowInv, RowTypeOK, Documents, RowDeleted
<1>2. Gone = 0 /\ Gone' \in {0, 1} /\ Wrote' = Wrote
      BY DEF RowDeleted, Gone, Wrote
<1>3. ASSUME NEW v \in Writers
      PROVE  lost[v] <= row'.version - 1 + Gone'
  <2>1. lost[v] \in Nat /\ lost[v] <= row.version - 1 + 0
        BY <1>2 DEF RowInv, RowTypeOK, ProgressInv
  <2> QED BY <1>1, <1>2, <2>1
<1> QED BY <1>1, <1>2, <1>3 DEF RowDeleted, ProgressInv

\* "A lost swap means another writer made progress, so the loop converges": a writer
\* with as many attempts as the row has writers, and one more for its removal, never
\* fails for having lost.  (storage/local/primitives/repo.rs:18-22)
THEOREM LosingMeansProgress == ASSUME RowAssumption PROVE RowUpdateSpec => []LostMeansProgress
<1>1. RowUpdateInit => Pending /\ ProgressInv
  <2>1. ASSUME RowUpdateInit
        PROVE  ProgressInv
    <3>1. row.version = 1 /\ Gone \in {0, 1}
          BY <2>1, GoneIsNat DEF RowUpdateInit
    <3> QED BY <2>1, <3>1, WroteIsFinite DEF RowUpdateInit, ProgressInv
  <2> QED BY <2>1 DEF RowUpdateInit, Pending
<1>2. RowInv /\ Pending /\ [RowUpdateNext]_rowVars => Pending'
      BY PendingInductive
<1>3. RowInv /\ Pending /\ ProgressInv /\ [RowUpdateNext]_rowVars => ProgressInv'
  <2>1. ASSUME ProgressInv, UNCHANGED rowVars
        PROVE  ProgressInv'
        BY <2>1 DEF rowVars, ProgressInv, Gone, Wrote
  <2> QED BY <2>1, WriterKeepsProgress, DeleteKeepsProgress DEF RowUpdateNext
<1>4. ProgressInv => LostMeansProgress
      BY DEF ProgressInv, LostMeansProgress, Gone
<1> QED BY <1>1, <1>2, <1>3, <1>4, VersionsAreTelling, PTL DEF RowUpdateSpec

\* All that the run checks of an update, for any writers, values, changes and budget.
THEOREM UpdatesKeepRows == ASSUME RowAssumption PROVE RowUpdateSpec => RowKeeps
BY RowUpdateIsAtomic, VersionsAreTelling, LosingMeansProgress, PTL DEF RowKeeps

-----------------------------------------------------------------------------
(* StdioJail: for any launches. *)

\* Where a launch stands decides what TinyBox may hold for it and who will give
\* it back: nothing is held before the reservation, the guard is armed from there
\* until the handle takes over, no handle is released before its close has
\* ended, and what is held for a launch that is gone has a cleanup, or had one
\* that was refused.
JailPlaces(l) ==
    /\ launch[l] \in {"idle", "check", "reserve"} => box[l] = "none"
    /\ armed[l] <=> launch[l] \in {"create", "process", "start", "refused"}
    /\ released[l] => launch[l] \in {"closed", "gone"} /\ detached[l] = "none"
    /\ launch[l] = "closed" => released[l]
    /\ detached[l] # "none" => launch[l] = "gone"
    /\ launch[l] \in {"closed", "gone"} =>
           box[l] = "none" \/ detached[l] # "none" \/ l \in unclosed

\* A cleanup ends where nobody is left to start another.
JailCleaned(l) ==
    /\ cleaned[l] \in {0, 1}
    /\ cleaned[l] = 1 => launch[l] \in {"closed", "gone"} /\ detached[l] = "none"

JailOwned == JailTypeOK /\ \A l \in Launches : JailPlaces(l) /\ JailCleaned(l)

\* The steps of a launch, and those of its cleanups.
LaunchStep(l) ==
    \/ Check(l) \/ Reserved(l) \/ ReserveFails(l) \/ Created(l) \/ Started(l)
    \/ Refused(l) \/ DropLaunch(l)

CleanupStep(l) ==
    \/ CloseRefused(l) \/ Kill(l) \/ KillEnds(l) \/ CloseHandle(l)
    \/ DropHandle(l) \/ DetachedKill(l) \/ Detached(l)

\* A launch's own steps end no cleanup.
LEMMA LaunchStepOwned ==
    ASSUME JailOwned, NEW l \in Launches, LaunchStep(l)
    PROVE  JailOwned'
<1> USE DEF JailOwned, JailTypeOK, JailPlaces, JailCleaned, At, BoxHas, pastVars
<1>1. CASE Check(l)
  BY <1>1 DEF Check
<1>2. CASE Reserved(l)
  BY <1>2 DEF Reserved
<1>3. CASE ReserveFails(l)
  BY <1>3 DEF ReserveFails
<1>4. CASE Created(l)
  BY <1>4 DEF Created
<1>5. CASE Started(l)
  <2>1. JailTypeOK'
    BY <1>5 DEF Started
  <2>2. ASSUME NEW k \in Launches PROVE JailPlaces(k)' /\ JailCleaned(k)'
    BY <1>5, <2>2 DEF Started
  <2> QED
    BY <2>1, <2>2
<1>6. CASE Refused(l)
  BY <1>6 DEF Refused
<1>7. CASE DropLaunch(l)
  BY <1>7 DEF DropLaunch, Guarded
<1> QED
  BY <1>1, <1>2, <1>3, <1>4, <1>5, <1>6, <1>7 DEF LaunchStep

\* What a Close leaves behind.
LEMMA CloseCallEnds ==
    ASSUME JailTypeOK, NEW l \in Launches, cleaned[l] = 0, CloseCall(l)
    PROVE  /\ box' \in [Launches -> {"none", "resource", "server"}]
           /\ unclosed' \subseteq Launches /\ cleaned' \in [Launches -> Nat]
           /\ cleaned'[l] = 1
           /\ box'[l] = "none" \/ l \in unclosed'
           /\ \A k \in Launches \ {l} :
                  box'[k] = box[k] /\ cleaned'[k] = cleaned[k] /\ (k \in unclosed => k \in unclosed')
BY DEF JailTypeOK, CloseCall, BoxHas

\* What a step of a cleanup leaves behind for its own launch and the others.
LEMMA CleanupStepOwned ==
    ASSUME JailOwned, NEW l \in Launches, CleanupStep(l)
    PROVE  JailOwned'
<1> USE DEF JailOwned, JailPlaces, JailCleaned
<1>1. JailTypeOK /\ JailPlaces(l) /\ JailCleaned(l)
  OBVIOUS
<1>2. CASE CloseRefused(l)
  <2>1. cleaned[l] = 0
    BY <1>2 DEF CloseRefused, At
  <2>2. CloseCall(l)
    BY <1>2 DEF CloseRefused
  <2>3. JailTypeOK'
    BY <1>1, <1>2, <2>1, <2>2, CloseCallEnds DEF CloseRefused, At, JailTypeOK
  <2>4. ASSUME NEW k \in Launches PROVE JailPlaces(k)' /\ JailCleaned(k)'
    BY <1>1, <1>2, <2>1, <2>2, <2>4, CloseCallEnds DEF CloseRefused, At, JailTypeOK
  <2> QED
    BY <2>3, <2>4
<1>3. CASE Kill(l)
  BY <1>3 DEF Kill, At, JailTypeOK, pastVars
<1>4. CASE KillEnds(l)
  BY <1>4 DEF KillEnds, KillCall, BoxHas, At, JailTypeOK, pastVars
<1>5. CASE CloseHandle(l)
  <2>1. cleaned[l] = 0
    BY <1>5 DEF CloseHandle, At
  <2>2. CloseCall(l)
    BY <1>5 DEF CloseHandle
  <2>3. JailTypeOK'
    BY <1>1, <1>5, <2>1, <2>2, CloseCallEnds DEF CloseHandle, At, JailTypeOK
  <2>4. ASSUME NEW k \in Launches PROVE JailPlaces(k)' /\ JailCleaned(k)'
    BY <1>1, <1>5, <2>1, <2>2, <2>4, CloseCallEnds DEF CloseHandle, At, JailTypeOK
  <2> QED
    BY <2>3, <2>4
<1>6. CASE DropHandle(l)
  BY <1>6 DEF DropHandle, BoxHas, JailTypeOK, pastVars
<1>7. CASE DetachedKill(l)
  BY <1>7 DEF DetachedKill, KillCall, BoxHas, JailTypeOK, pastVars
<1>8. CASE Detached(l)
  <2>1. cleaned[l] = 0
    BY <1>8 DEF Detached
  <2>2. CloseCall(l)
    BY <1>8 DEF Detached
  <2>3. JailTypeOK'
    BY <1>1, <1>8, <2>1, <2>2, CloseCallEnds DEF Detached, JailTypeOK
  <2>4. ASSUME NEW k \in Launches PROVE JailPlaces(k)' /\ JailCleaned(k)'
    BY <1>1, <1>8, <2>1, <2>2, <2>4, CloseCallEnds DEF Detached, JailTypeOK
  <2> QED
    BY <2>3, <2>4
<1> QED
  BY <1>2, <1>3, <1>4, <1>5, <1>6, <1>7, <1>8 DEF CleanupStep

\* Whatever TinyBox holds for a launch that is over has a cleanup on its way, or
\* TinyBox refused the Close of one, whichever call was refused and wherever a
\* launch or a close was dropped; and no cleanup runs to its end twice.  For any
\* number of launches.  (transport/stdio/jailed.rs:207-250, 396-460)
THEOREM NothingStaysStranded == JailSpec => []JailInv
<1>1. JailInit => JailOwned
  BY DEF JailInit, JailOwned, JailTypeOK, JailPlaces, JailCleaned
<1>2. JailOwned /\ [JailNext]_jailVars => JailOwned'
  <2>1. ASSUME JailOwned, JailNext PROVE JailOwned'
    BY <2>1, LaunchStepOwned, CleanupStepOwned DEF JailNext, LaunchStep, CleanupStep
  <2>2. ASSUME JailOwned, UNCHANGED jailVars PROVE JailOwned'
    BY <2>2 DEF jailVars, JailOwned, JailTypeOK, JailPlaces, JailCleaned
  <2> QED
    BY <2>1, <2>2
<1>3. JailOwned => JailInv
  BY DEF JailOwned, JailPlaces, JailCleaned, JailInv, NothingIsStranded, CleanedOnce
<1> QED
  BY <1>1, <1>2, <1>3, PTL DEF JailSpec

-----------------------------------------------------------------------------
(* SetupFlow: for any handles, flows and times. *)

\* The shapes of what the type invariant leaves out.
SetupShapes ==
    /\ clock \in 0..MaxSetupTime
    /\ accepted \subseteq Handles
    /\ takenBy \in [Handles -> SUBSET Flows]

\* A value was submitted; once an install has taken it, nobody else has, and it
\* is in the vault no more; what an install holds or has stored was taken.
HomeOf(h) ==
    /\ vault[h] = "answered" => h \in accepted
    /\ takenBy[h] # {} => vault[h] = "absent" /\ h \in accepted
    /\ \A f, g \in takenBy[h] : f = g
    /\ h \in stored => takenBy[h] # {}
    /\ \A f \in Flows :
          flow[f].at = "install" /\ h \in flow[f].handles => takenBy[h] # {}

SetupOwned == SetupTypeOK /\ SetupShapes /\ \A h \in Handles : HomeOf(h)

\* The steps that mint, answer and drop values, and the clock's.
LEMMA VaultStep ==
    ASSUME SetupOwned, NEW h \in Handles,
           Request(h) \/ Submit(h) \/ GiveUp(h) \/ ForgetLate(h) \/ Forget(h)
    PROVE  SetupOwned'
<1> USE DEF SetupOwned, SetupTypeOK, SetupShapes, HomeOf
<1>1. CASE Request(h)
  BY <1>1 DEF Request
<1>2. CASE Submit(h)
  BY <1>2 DEF Submit
<1>3. CASE GiveUp(h)
  BY <1>3 DEF GiveUp, vaultVars
<1>4. CASE ForgetLate(h)
  BY <1>4 DEF ForgetLate
<1>5. CASE Forget(h)
  BY <1>5 DEF Forget
<1> QED
  BY <1>1, <1>2, <1>3, <1>4, <1>5

LEMMA ClockStep ==
    ASSUME SetupOwned,
           Sweep \/ Pass \/ \E handles \in SUBSET Handles : ResolveFails(handles)
    PROVE  SetupOwned'
<1> USE SetupAssumption DEF SetupOwned, SetupTypeOK, SetupShapes, HomeOf
<1>1. CASE Sweep
  BY <1>1 DEF Sweep
<1>2. CASE Pass
  BY <1>2 DEF Pass, vaultVars
<1>3. CASE \E handles \in SUBSET Handles : ResolveFails(handles)
  BY <1>3 DEF ResolveFails, Touch
<1> QED
  BY <1>1, <1>2, <1>3

LEMMA FlowStep ==
    ASSUME SetupOwned, NEW f \in Flows,
           \/ \E handles \in SUBSET Handles : BeginTest(f, handles)
           \/ ListTools(f) \/ CloseTest(f) \/ Install(f)
    PROVE  SetupOwned'
<1> USE DEF SetupOwned, SetupTypeOK, SetupShapes, HomeOf, NoFlow
<1>1. ASSUME NEW handles \in SUBSET Handles, BeginTest(f, handles)
      PROVE  SetupOwned'
  <2>1. touched' \in [Handles -> 0..MaxSetupTime]
    BY <1>1 DEF BeginTest, Touch
  <2>2. CASE UNCHANGED <<flow, probes>>
    BY <1>1, <2>1, <2>2 DEF BeginTest
  <2>3. CASE /\ flow' = [flow EXCEPT ![f] = [at |-> "dialled", handles |-> handles]]
             /\ probes' = probes \cup {f}
    BY <1>1, <2>1, <2>3 DEF BeginTest
  <2> QED
    BY <1>1, <2>2, <2>3 DEF BeginTest
<1>2. CASE ListTools(f)
  BY <1>2 DEF ListTools, vaultVars
<1>3. CASE CloseTest(f)
  BY <1>3 DEF CloseTest, vaultVars
<1>4. CASE Install(f)
  BY <1>4 DEF Install, vaultVars
<1> QED
  BY <1>1, <1>2, <1>3, <1>4

\* The values of an install were in the vault until it took them, so nobody had
\* taken them before.
LEMMA ConsumeStep ==
    ASSUME SetupOwned, NEW f \in Flows, NEW handles \in SUBSET Handles,
           Consume(f, handles)
    PROVE  SetupOwned'
<1> USE DEF SetupOwned, SetupTypeOK, SetupShapes, HomeOf
<1>1. \A h \in handles : takenBy[h] = {} /\ h \in accepted
  BY DEF Consume, Resolvable
<1>2. SetupTypeOK'
  BY DEF Consume, Touch, RemoveEntries
<1>3. SetupShapes'
  BY DEF Consume
<1>4. ASSUME NEW h \in Handles PROVE HomeOf(h)'
  <2>1. CASE h \in handles
    BY <1>1, <2>1 DEF Consume, RemoveEntries
  <2>2. CASE h \notin handles
    BY <2>2 DEF Consume, RemoveEntries
  <2> QED
    BY <2>1, <2>2
<1> QED
  BY <1>2, <1>3, <1>4

LEMMA SetupStart == SetupInit => SetupOwned
BY SetupAssumption
   DEF SetupInit, SetupOwned, SetupTypeOK, SetupShapes, HomeOf, NoFlow

\* A value that was submitted once has one home: the vault, one install that
\* holds it, or the store.  (registry/setup/types.rs:235-262)
THEOREM ValuesHaveOneHome == SetupSpec => []SetupOwned
<1>1. ASSUME SetupOwned, [SetupNext]_setupVars PROVE SetupOwned'
  <2>1. CASE SetupNext
    BY <1>1, <2>1, VaultStep, ClockStep, FlowStep, ConsumeStep DEF SetupNext
  <2>2. CASE UNCHANGED setupVars
    BY <1>1, <2>2 DEF setupVars, vaultVars, SetupOwned, SetupTypeOK,
                      SetupShapes, HomeOf
  <2> QED
    BY <1>1, <2>1, <2>2
<1> QED
  BY <1>1, SetupStart, PTL DEF SetupSpec

\* No two installs ever get one value, and what an install has stored is not in
\* the vault as well, however tests, installs, sweeps and late forgets overlap.
\* (registry/setup/types.rs:235-262, registry/ops/types.rs:930-951)
THEOREM ValuesAreConsumedOnce == SetupSpec => []SetupInv
<1>1. ASSUME SetupOwned, NEW h \in Handles PROVE Cardinality(takenBy[h]) <= 1
  <2>1. CASE takenBy[h] = {}
    BY <2>1, FS_EmptySet
  <2>2. CASE takenBy[h] # {}
    <3>1. PICK f \in takenBy[h] : TRUE
      BY <2>2
    <3>2. takenBy[h] = {f}
      BY <1>1, <3>1 DEF SetupOwned, HomeOf
    <3> QED
      BY <3>2, FS_Singleton
  <2> QED
    BY <2>1, <2>2
<1>2. SetupOwned => SetupInv
  BY <1>1 DEF SetupOwned, SetupTypeOK, SetupShapes, HomeOf, SetupInv, ConsumedOnce
<1> QED
  BY <1>2, ValuesHaveOneHome, PTL

-----------------------------------------------------------------------------
(* SupervisorEvents: for any size of the queue and of a batch. *)

Numbers == 1..Horizon

Rising(q) == \A i, j \in 1..Len(q) : i < j => q[i] < q[j]

\* What was handed out comes before what is in the queue, and nothing in it is
\* yet to be reported.
Follows(q, last) ==
    /\ \A i \in 1..Len(q) : q[i] <= last
    /\ \A i \in 1..Len(q), j \in 1..Len(delivered) : delivered[j] < q[i]

QueueOwned ==
    /\ events \in Seq(Numbers) /\ delivered \in Seq(Numbers)
    /\ Len(events) <= MaxEvents
    /\ dropped \in Nat /\ produced \in 0..Horizon /\ announced \in Nat
    /\ Rising(events) /\ Rising(delivered)
    /\ Follows(events, produced)
    /\ \A j \in 1..Len(delivered) : delivered[j] <= produced
    /\ Len(delivered) + Len(events) + announced + dropped = produced

\* An event that is appended, or takes the place of the oldest, is the last.
LEMMA AppendRises ==
    ASSUME NEW q \in Seq(Numbers), NEW last \in Nat, last + 1 \in Numbers,
           Rising(q), Follows(q, last), delivered \in Seq(Numbers),
           \A j \in 1..Len(delivered) : delivered[j] <= last
    PROVE  LET r == Append(q, last + 1)
           IN  /\ r \in Seq(Numbers) /\ Len(r) = Len(q) + 1
               /\ Rising(r) /\ Follows(r, last + 1)
<1> DEFINE r == Append(q, last + 1)
<1>1. r \in Seq(Numbers) /\ Len(r) = Len(q) + 1
  BY DEF Numbers
<1>2. \A i \in 1..Len(q) : r[i] = q[i] /\ q[i] \in Numbers
  BY ElementOfSeq
<1>3. r[Len(q) + 1] = last + 1 /\ Len(q) \in Nat
  BY DEF Numbers
<1>4. \A j \in 1..Len(delivered) : delivered[j] \in Numbers
  BY ElementOfSeq
<1> HIDE DEF r
<1>5. \A i \in 1..Len(q) : q[i] \in Nat /\ q[i] <= last
  BY <1>2, EventsAssumption DEF Follows, Numbers
<1>6. \A j \in 1..Len(delivered) : delivered[j] \in Nat
  BY <1>4, EventsAssumption DEF Numbers
<1>7. \A i \in 1..Len(r) : i \in 1..Len(q) \/ i = Len(q) + 1
  BY <1>1, <1>3
<1>8. Rising(r)
  <2>1. ASSUME NEW i \in 1..Len(r), NEW j \in 1..Len(r), i < j
        PROVE  r[i] < r[j]
    <3>1. i \in 1..Len(q)
      BY <1>1, <1>3, <2>1
    <3>2. CASE j \in 1..Len(q)
      BY <1>2, <2>1, <3>1, <3>2 DEF Rising
    <3>3. CASE j = Len(q) + 1
      <4>1. r[i] <= last /\ r[i] \in Nat
        BY <1>2, <1>5, <3>1
      <4> QED
        BY <1>3, <3>3, <4>1
    <3> QED
      BY <1>7, <2>1, <3>2, <3>3
  <2> QED
    BY <2>1 DEF Rising
<1>9. Follows(r, last + 1)
  <2>1. ASSUME NEW i \in 1..Len(r) PROVE r[i] <= last + 1
    BY <1>2, <1>3, <1>5, <1>7
  <2>2. ASSUME NEW i \in 1..Len(r), NEW j \in 1..Len(delivered)
        PROVE  delivered[j] < r[i]
    <3>1. CASE i \in 1..Len(q)
      BY <1>2, <2>2, <3>1 DEF Follows
    <3>2. CASE i = Len(q) + 1
      BY <1>3, <1>6, <2>2, <3>2
    <3> QED
      BY <1>7, <2>2, <3>1, <3>2
  <2> QED
    BY <2>1, <2>2 DEF Follows
<1> QED
  BY <1>1, <1>8, <1>9 DEF r

LEMMA TailRises ==
    ASSUME NEW q \in Seq(Numbers), q # <<>>, NEW last \in Nat,
           Rising(q), Follows(q, last)
    PROVE  /\ Tail(q) \in Seq(Numbers) /\ Len(Tail(q)) = Len(q) - 1
           /\ Rising(Tail(q)) /\ Follows(Tail(q), last)
<1>1. /\ Tail(q) \in Seq(Numbers) /\ Len(Tail(q)) = Len(q) - 1
      /\ \A i \in 1..Len(Tail(q)) : Tail(q)[i] = q[i + 1]
  BY HeadTailProperties
<1>2. Len(q) \in Nat
  BY LenProperties
<1>3. Rising(Tail(q))
  BY <1>1, <1>2 DEF Rising
<1>4. Follows(Tail(q), last)
  BY <1>1, <1>2 DEF Follows
<1> QED
  BY <1>1, <1>3, <1>4

\* A queue in order and within its size, whose events are reported already.
Ordered(q, last) ==
    /\ q \in Seq(Numbers) /\ Len(q) <= MaxEvents
    /\ Rising(q) /\ Follows(q, last)

\* What was handed out was reported already.
HandedOut(last) ==
    /\ delivered \in Seq(Numbers)
    /\ \A j \in 1..Len(delivered) : delivered[j] <= last

\* What holds of the queue and the number it has seen last.
Reported(q, n, last) ==
    /\ Ordered(q, last) /\ HandedOut(last)
    /\ n \in Nat /\ last \in Nat
    /\ Len(delivered) + Len(q) + announced + n = last

LEMMA OwnedIsReported ==
    QueueOwned <=>
        /\ Reported(events, dropped, produced)
        /\ produced \in 0..Horizon /\ announced \in Nat /\ Rising(delivered)
BY EventsAssumption DEF QueueOwned, Reported, Ordered, HandedOut

\* One more event, whichever of the two becomes of it.
LEMMA OneMoreReported ==
    ASSUME NEW q, NEW n, NEW last, Reported(q, n, last), announced \in Nat,
           last + 1 <= Horizon, NEW large \in BOOLEAN,
           NEW r, r = RecordOne(q, n, last + 1, large)
    PROVE  Reported(r.events, r.dropped, last + 1)
<1>1. last + 1 \in Numbers /\ last \in Nat /\ n \in Nat
  BY EventsAssumption DEF Numbers, Reported
<1>2. Ordered(q, last) /\ HandedOut(last)
  BY DEF Reported
<1>3. /\ Ordered(r.events, last + 1)
      /\ r.dropped \in Nat
      /\ Len(r.events) + r.dropped = Len(q) + n + 1
  <2> USE DEF Ordered, HandedOut
  <2>1. Len(q) \in Nat /\ \A i \in 1..Len(q) : q[i] \in Numbers
    BY <1>1, <1>2, LenProperties, ElementOfSeq
  <2>2. CASE large
    <3>1. r.events = q /\ r.dropped = n + 1
      BY <2>2 DEF RecordOne
    <3>2. Follows(q, last + 1)
      BY <1>1, <1>2, <2>1, EventsAssumption DEF Follows, Numbers
    <3>3. n + 1 \in Nat /\ Len(q) + (n + 1) = Len(q) + n + 1
      BY <1>1, <2>1
    <3> QED
      BY <1>1, <1>2, <3>1, <3>2, <3>3, Zenon
  <2>3. CASE ~large /\ Len(q) = MaxEvents
    <3>1. q # <<>>
      BY <2>3, EventsAssumption, EmptySeq
    <3>2. r = [events |-> Append(Tail(q), last + 1), dropped |-> n + 1]
      BY <2>3 DEF RecordOne
    <3>3. /\ Tail(q) \in Seq(Numbers) /\ Len(Tail(q)) = Len(q) - 1
          /\ Rising(Tail(q)) /\ Follows(Tail(q), last)
      BY <1>1, <1>2, <3>1, TailRises
    <3> DEFINE a == Append(Tail(q), last + 1)
    <3>4. /\ a \in Seq(Numbers) /\ Len(a) = Len(Tail(q)) + 1
          /\ Rising(a) /\ Follows(a, last + 1)
      BY <1>1, <1>2, <3>3, AppendRises
    <3> HIDE DEF a
    <3>5. r.events = a /\ r.dropped = n + 1
      BY <3>2 DEF a
    <3>6. Len(a) <= MaxEvents /\ n + 1 \in Nat /\ Len(a) + (n + 1) = Len(q) + n + 1
      BY <1>1, <1>2, <2>1, <2>3, <3>3, <3>4, EventsAssumption
    <3> QED
      BY <3>4, <3>5, <3>6, Zenon
  <2>4. CASE ~large /\ Len(q) # MaxEvents
    <3>1. r = [events |-> Append(q, last + 1), dropped |-> n]
      BY <2>4 DEF RecordOne
    <3> DEFINE a == Append(q, last + 1)
    <3>2. /\ a \in Seq(Numbers) /\ Len(a) = Len(q) + 1
          /\ Rising(a) /\ Follows(a, last + 1)
      BY <1>1, <1>2, AppendRises
    <3> HIDE DEF a
    <3>3. r.events = a /\ r.dropped = n
      BY <3>1 DEF a
    <3>4. Len(a) <= MaxEvents /\ Len(a) + n = Len(q) + n + 1
      BY <1>1, <1>2, <2>1, <2>4, <3>2, EventsAssumption
    <3> QED
      BY <1>1, <3>2, <3>3, <3>4, Zenon
  <2> QED
    BY <2>2, <2>3, <2>4
<1>4. HandedOut(last + 1)
  <2>1. \A j \in 1..Len(delivered) : delivered[j] \in Nat
    BY <1>2, ElementOfSeq, EventsAssumption DEF HandedOut, Numbers
  <2> QED
    BY <1>1, <1>2, <2>1 DEF HandedOut
<1>5. Len(delivered) \in Nat /\ Len(q) \in Nat /\ Len(r.events) \in Nat
  BY <1>2, <1>3, LenProperties DEF Ordered, HandedOut
<1>6. Len(delivered) + Len(r.events) + announced + r.dropped = last + 1
  BY <1>1, <1>3, <1>5 DEF Reported
<1> QED
  BY <1>1, <1>3, <1>4, <1>6 DEF Reported

\* A report of one event or of two.
LEMMA RecordKeepsOrder == QueueOwned /\ Record => QueueOwned'
<1> SUFFICES ASSUME QueueOwned, Record PROVE QueueOwned'
  OBVIOUS
<1>1. /\ Reported(events, dropped, produced)
      /\ produced \in Nat /\ announced \in Nat /\ Rising(delivered)
  BY OwnedIsReported
<1>2. UNCHANGED <<delivered, announced>>
  BY DEF Record
<1>3. ASSUME NEW q, NEW n, NEW last, Reported(q, n, last), last <= Horizon,
             events' = q, dropped' = n, produced' = last
      PROVE  QueueOwned'
  BY <1>1, <1>2, <1>3, EventsAssumption
     DEF QueueOwned, Reported, Ordered, HandedOut, Rising, Follows
<1>4. CASE \E a \in BOOLEAN :
              LET f == RecordOne(events, dropped, produced + 1, a)
              IN  /\ produced + 1 <= Horizon /\ produced' = produced + 1
                  /\ events' = f.events /\ dropped' = f.dropped
  <2>1. PICK a \in BOOLEAN :
              LET f == RecordOne(events, dropped, produced + 1, a)
              IN  /\ produced + 1 <= Horizon /\ produced' = produced + 1
                  /\ events' = f.events /\ dropped' = f.dropped
    BY <1>4
  <2> DEFINE f == RecordOne(events, dropped, produced + 1, a)
  <2>2. f = RecordOne(events, dropped, produced + 1, a)
    OBVIOUS
  <2>3. /\ produced + 1 <= Horizon /\ produced' = produced + 1
        /\ events' = f.events /\ dropped' = f.dropped
    BY <2>1
  <2> HIDE DEF f
  <2>4. Reported(f.events, f.dropped, produced + 1)
    BY <1>1, <2>2, <2>3, OneMoreReported
  <2> QED
    BY <1>3, <2>3, <2>4
<1>5. CASE \E a, b \in BOOLEAN :
              LET f == RecordOne(events, dropped, produced + 1, a)
                  g == RecordOne(f.events, f.dropped, produced + 2, b)
              IN  /\ produced + 2 <= Horizon /\ produced' = produced + 2
                  /\ events' = g.events /\ dropped' = g.dropped
  <2>1. PICK a \in BOOLEAN, b \in BOOLEAN :
              LET f == RecordOne(events, dropped, produced + 1, a)
                  g == RecordOne(f.events, f.dropped, produced + 2, b)
              IN  /\ produced + 2 <= Horizon /\ produced' = produced + 2
                  /\ events' = g.events /\ dropped' = g.dropped
    BY <1>5
  <2> DEFINE f == RecordOne(events, dropped, produced + 1, a)
             g == RecordOne(f.events, f.dropped, produced + 2, b)
  <2>2. f = RecordOne(events, dropped, produced + 1, a)
    OBVIOUS
  <2>3. g = RecordOne(f.events, f.dropped, produced + 2, b)
    OBVIOUS
  <2>4. /\ produced + 2 <= Horizon /\ produced' = produced + 2
        /\ events' = g.events /\ dropped' = g.dropped
    BY <2>1
  <2> HIDE DEF f, g
  <2>5. produced + 1 \in Nat /\ produced + 1 <= Horizon /\ (produced + 1) + 1 = produced + 2
    BY <1>1, <2>4, EventsAssumption
  <2>6. Reported(f.events, f.dropped, produced + 1)
    BY <1>1, <2>2, <2>5, OneMoreReported
  <2>7. Reported(g.events, g.dropped, produced + 2)
    <3>1. g = RecordOne(f.events, f.dropped, (produced + 1) + 1, b)
          /\ (produced + 1) + 1 <= Horizon
      BY <2>3, <2>4, <2>5
    <3>2. Reported(g.events, g.dropped, (produced + 1) + 1)
      BY <1>1, <2>6, <3>1, OneMoreReported
    <3> QED
      BY <2>5, <3>2
  <2> QED
    BY <1>3, <2>4, <2>7
<1>6. PICK sizes \in {<<s>> : s \in BOOLEAN} \cup (BOOLEAN \X BOOLEAN) :
        LET first == RecordOne(events, dropped, produced + 1, sizes[1])
            all   == IF Len(sizes) = 1 THEN first
                     ELSE RecordOne(first.events, first.dropped, produced + 2, sizes[2])
        IN  /\ produced + Len(sizes) <= Horizon
            /\ produced' = produced + Len(sizes)
            /\ events' = all.events /\ dropped' = all.dropped
  BY DEF Record
<1>7. CASE \E a \in BOOLEAN : sizes = <<a>>
  <2>1. PICK a \in BOOLEAN : sizes = <<a>>
    BY <1>7
  <2>2. Len(sizes) = 1 /\ sizes[1] = a
    BY <2>1
  <2>3. /\ produced + 1 <= Horizon /\ produced' = produced + 1
        /\ events' = RecordOne(events, dropped, produced + 1, a).events
        /\ dropped' = RecordOne(events, dropped, produced + 1, a).dropped
    BY <1>6, <2>2
  <2> QED
    BY <1>4, <2>3
<1>8. CASE \E a, b \in BOOLEAN : sizes = <<a, b>>
  <2>1. PICK a \in BOOLEAN, b \in BOOLEAN : sizes = <<a, b>>
    BY <1>8
  <2>2. Len(sizes) = 2 /\ sizes[1] = a /\ sizes[2] = b
    BY <2>1
  <2> DEFINE f == RecordOne(events, dropped, produced + 1, a)
             g == RecordOne(f.events, f.dropped, produced + 2, b)
  <2>3. /\ produced + 2 <= Horizon /\ produced' = produced + 2
        /\ events' = g.events /\ dropped' = g.dropped
    BY <1>6, <2>2
  <2> QED
    BY <1>5, <2>3
<1> QED
  BY <1>6, <1>7, <1>8

\* A batch leaves what it does not hand out, and both stay in order.
LEMMA DrainKeepsOrder == QueueOwned /\ Drain => QueueOwned'
<1> SUFFICES ASSUME QueueOwned, Drain PROVE QueueOwned'
  OBVIOUS
<1> USE EventsAssumption
<1>1. PICK limit \in 1..MaxDrain :
        /\ events' = SubSeq(events, Taken(limit) + 1, Len(events))
        /\ delivered' = delivered \o SubSeq(events, 1, Taken(limit))
        /\ announced' = announced + dropped
        /\ dropped' = Remaining
        /\ UNCHANGED produced
  BY DEF Drain
<1> DEFINE count == Taken(limit)
           batch == SubSeq(events, 1, count)
           rest  == SubSeq(events, count + 1, Len(events))
           k     == Len(events)
           d     == Len(delivered)
<1>2. /\ events \in Seq(Numbers) /\ delivered \in Seq(Numbers)
      /\ k \in Nat /\ d \in Nat
  BY LenProperties DEF QueueOwned
<1>3. count \in 0..k
  BY <1>2 DEF Taken
<1>4. /\ batch \in Seq(Numbers) /\ Len(batch) = count
      /\ \A i \in 1..count : batch[i] = events[i]
  BY <1>2, <1>3, SubSeqProperties
<1>5. /\ rest \in Seq(Numbers) /\ Len(rest) = k - count
      /\ \A i \in 1..(k - count) : rest[i] = events[count + i]
  BY <1>2, <1>3, SubSeqProperties
<1>6. /\ delivered \o batch \in Seq(Numbers)
      /\ Len(delivered \o batch) = d + count
      /\ \A i \in 1..(d + count) :
           (delivered \o batch)[i] = IF i <= d THEN delivered[i] ELSE events[i - d]
  BY <1>2, <1>3, <1>4, ConcatProperties
<1> HIDE DEF count, batch, rest
<1>7. /\ events' = rest /\ delivered' = delivered \o batch
      /\ announced' = announced + dropped /\ dropped' = 0 /\ produced' = produced
  BY <1>1 DEF count, batch, rest, Remaining
<1>8. /\ \A i \in 1..k : events[i] \in Nat /\ events[i] <= produced
      /\ \A j \in 1..d : delivered[j] \in Nat /\ delivered[j] <= produced
      /\ \A i \in 1..k, j \in 1..d : delivered[j] < events[i]
      /\ \A i, j \in 1..k : i < j => events[i] < events[j]
      /\ \A i, j \in 1..d : i < j => delivered[i] < delivered[j]
      /\ d + k + announced + dropped = produced /\ k <= MaxEvents
      /\ announced \in Nat /\ dropped \in Nat /\ produced \in 0..Horizon
  <2>1. /\ \A i \in 1..k : events[i] \in Numbers
        /\ \A j \in 1..d : delivered[j] \in Numbers
    BY <1>2, ElementOfSeq
  <2> QED
    BY <2>1 DEF QueueOwned, Follows, Rising, Numbers
<1> DEFINE out == delivered \o batch
<1> HIDE DEF out, k, d
<1>9. /\ out \in Seq(Numbers) /\ Len(out) = d + count
      /\ \A i \in 1..(d + count) :
           out[i] = IF i <= d THEN delivered[i] ELSE events[i - d]
  BY <1>6 DEF out
<1>10. Rising(rest)
  <2>1. ASSUME NEW i \in 1..Len(rest), NEW j \in 1..Len(rest), i < j
        PROVE  rest[i] < rest[j]
    <3>1. /\ count + i \in 1..k /\ count + j \in 1..k /\ count + i < count + j
          /\ i \in 1..(k - count) /\ j \in 1..(k - count)
      <4>1. i \in 1..(k - count) /\ j \in 1..(k - count) /\ i < j
        BY <1>5, <2>1, Zenon
      <4>2. k \in Nat /\ count \in 0..k
        BY <1>2, <1>3
      <4> QED
        BY <4>1, <4>2
    <3>2. rest[i] = events[count + i] /\ rest[j] = events[count + j]
      BY <1>5, <3>1
    <3>3. events[count + i] < events[count + j]
      BY <1>8, <3>1
    <3> QED
      BY <3>2, <3>3
  <2> QED
    BY <2>1 DEF Rising
<1>11. Rising(out)
  <2>1. ASSUME NEW i \in 1..Len(out), NEW j \in 1..Len(out), i < j
        PROVE  out[i] < out[j]
    <3>1. CASE j <= d
      <4>1. /\ i \in 1..d /\ j \in 1..d
            /\ out[i] = delivered[i] /\ out[j] = delivered[j]
        BY <1>2, <1>3, <1>9, <2>1, <3>1
      <4> QED
        BY <1>8, <2>1, <4>1
    <3>2. CASE i <= d /\ d < j
      <4>1. j - d \in 1..k
        BY <1>2, <1>3, <1>9, <2>1, <3>2
      <4> QED
        BY <1>2, <1>3, <1>8, <1>9, <2>1, <3>2, <4>1
    <3>3. CASE d < i
      <4>1. i - d \in 1..k /\ j - d \in 1..k /\ i - d < j - d
        BY <1>2, <1>3, <1>9, <2>1, <3>3
      <4>2. out[i] = events[i - d] /\ out[j] = events[j - d]
        BY <1>2, <1>3, <1>9, <2>1, <3>3
      <4> QED
        BY <1>8, <4>1, <4>2
    <3> QED
      BY <1>2, <1>3, <1>8, <1>9, <2>1, <3>1, <3>2, <3>3
  <2> QED
    BY <2>1 DEF Rising
<1>12. \A j \in 1..Len(out) : out[j] <= produced
  <2>1. SUFFICES ASSUME NEW j \in 1..Len(out) PROVE out[j] <= produced
    OBVIOUS
  <2>2. CASE j <= d
    BY <1>2, <1>3, <1>8, <1>9, <2>1, <2>2
  <2>3. CASE ~(j <= d)
    <3>1. j - d \in 1..k
      BY <1>2, <1>3, <1>9, <2>1, <2>3
    <3> QED
      BY <1>8, <1>9, <2>1, <2>3, <3>1
  <2> QED
    BY <2>2, <2>3
<1>13. /\ \A i \in 1..Len(rest) : rest[i] <= produced
       /\ \A i \in 1..Len(rest), j \in 1..Len(out) : out[j] < rest[i]
  <2>1. ASSUME NEW i \in 1..Len(rest) PROVE count + i \in 1..k
    BY <1>2, <1>3, <1>5
  <2>2. ASSUME NEW i \in 1..Len(rest), NEW j \in 1..Len(out)
        PROVE  out[j] < rest[i]
    <3>0. i \in 1..(k - count) /\ rest[i] = events[count + i]
      BY <1>2, <1>3, <1>5, <2>2
    <3>1. CASE j <= d
      <4>1. j \in 1..d /\ out[j] = delivered[j]
        BY <1>2, <1>3, <1>9, <2>2, <3>1
      <4> QED
        BY <1>8, <2>1, <2>2, <3>0, <4>1
    <3>2. CASE ~(j <= d)
      <4>0. /\ d \in Nat /\ k \in Nat /\ count \in 0..k /\ j \in 1..(d + count)
            /\ out[j] = events[j - d]
        BY <1>2, <1>3, <1>9, <2>2, <3>2
      <4>1. j - d \in 1..k /\ j - d < count + i
        BY ONLY <3>0, <3>2, <4>0
      <4> QED
        BY <1>8, <2>1, <2>2, <3>0, <4>0, <4>1
    <3> QED
      BY <3>1, <3>2
  <2> QED
    BY <1>2, <1>3, <1>5, <1>8, <2>1, <2>2
<1>14. /\ Len(rest) <= MaxEvents
       /\ Len(out) + Len(rest) + (announced + dropped) + 0 = produced
       /\ announced + dropped \in Nat
  BY <1>2, <1>3, <1>5, <1>8, <1>9
<1>15. delivered' = out
  BY <1>7 DEF out
<1>16. Rising(events)' /\ Rising(delivered)' /\ Follows(events, produced)'
  BY <1>7, <1>10, <1>11, <1>13, <1>15 DEF Rising, Follows
<1> QED
  BY <1>5, <1>7, <1>8, <1>9, <1>12, <1>14, <1>15, <1>16 DEF QueueOwned

\* In order one by one, and one before the other, is in order together.
LEMMA OwnedIsAccounted == QueueOwned => EventsInv
<1> SUFFICES ASSUME QueueOwned PROVE EventsInv
  OBVIOUS
<1> USE EventsAssumption
<1> DEFINE all == delivered \o events
           d   == Len(delivered)
           k   == Len(events)
<1>1. d \in Nat /\ k \in Nat
  BY LenProperties DEF QueueOwned
<1>2. /\ Len(all) = d + k
      /\ \A i \in 1..(d + k) : all[i] = IF i <= d THEN delivered[i] ELSE events[i - d]
  BY ConcatProperties DEF QueueOwned
<1> HIDE DEF all
<1>3. ASSUME NEW i \in 1..Len(all), NEW j \in 1..Len(all), i < j
      PROVE  all[i] < all[j]
  <2>1. CASE j <= d
    BY <1>1, <1>2, <1>3, <2>1 DEF QueueOwned, Rising
  <2>2. CASE i <= d /\ d < j
    <3>1. j - d \in 1..k
      BY <1>1, <1>2, <1>3, <2>2
    <3> QED
      BY <1>1, <1>2, <1>3, <2>2, <3>1 DEF QueueOwned, Follows
  <2>3. CASE d < i
    <3>1. i - d \in 1..k /\ j - d \in 1..k /\ i - d < j - d
      BY <1>1, <1>2, <1>3, <2>3
    <3>2. all[i] = events[i - d] /\ all[j] = events[j - d]
      BY <1>1, <1>2, <1>3, <2>3
    <3> QED
      BY <3>1, <3>2 DEF QueueOwned, Rising
  <2> QED
    BY <1>1, <1>2, <1>3, <2>1, <2>2, <2>3
<1>4. EventsAreAccounted
  BY <1>3 DEF EventsAreAccounted, QueueOwned, all
<1>5. EventsTypeOK
  BY <1>1 DEF EventsTypeOK, QueueOwned, Numbers
<1> QED
  BY <1>4, <1>5 DEF EventsInv

\* What the host was handed, in order and without repetition, and the drops it was
\* told of are all there was: for any size of the queue and any limit of a batch
\* no event disappears silently and none is counted twice.
\* (tinybus_module/maintenance/events.rs:19-52)
THEOREM EventsStayAccounted == EventsSpec => []EventsInv
<1>1. EventsInit => QueueOwned
  BY EmptySeq, EventsAssumption DEF EventsInit, QueueOwned, Rising, Follows, Numbers
<1>2. QueueOwned /\ [EventsNext]_eventVars => QueueOwned'
  <2>1. QueueOwned /\ UNCHANGED eventVars => QueueOwned'
    BY DEF eventVars, QueueOwned, Rising, Follows
  <2> QED
    BY <2>1, RecordKeepsOrder, DrainKeepsOrder DEF EventsNext
<1> QED
  BY <1>1, <1>2, OwnedIsAccounted, PTL DEF EventsSpec

-----------------------------------------------------------------------------
(* CatalogSearch: for any calls, catalogs, lengths and bounds, overlapping   *)
(* searches send few requests, follow cursors onwards, report real timeouts  *)
(* and fall back on what was answered.                                       *)

CacheEntries == [body : Bodies, at : 0 .. MaxSearchTime]
Stalls == [url : Catalogs, since : 0 .. MaxSearchTime]
SearchSteps == {"idle", "cache", "cool", "plan", "walk", "send", "keep", "stale", "local", "done"}
SearchCalls ==
    [pc : SearchSteps, kind : Kinds, page : Pages \cup {0}, url : Catalogs \cup {"none"},
     walk : Nat, cursor : CursorsOf \cup {NoCursor}, body : Bodies \cup {NoBody}, sent : Nat,
     error : {"none", "timeout", "down", "refused", "malformed"},
     freshness : {"none", "live", "cached", "local"}, owed : BOOLEAN, rested : BOOLEAN]

SearchShape ==
    /\ base \in Catalogs /\ now \in 0 .. MaxSearchTime /\ begun \in 0 .. MaxAsked
    /\ pageCache \in [Kinds \X Pages -> CacheEntries \cup {NoEntry}]
    /\ cursors \in [ListingKinds \X Pages -> CursorsOf \cup {NoCursor}]
    /\ stalls \in [ListingKinds -> Stalls \cup {NoStall}]
    /\ calls \in [Searches -> SearchCalls]

\* The page a call is after: its own, or that of its walk.
Aim(s) == IF s.walk = 0 THEN s.page ELSE s.walk

(* What a call has sent so far and what it holds. *)
CallFits(s) ==
    /\ s.pc # "idle" => s.page \in Pages /\ s.url \in Catalogs
    /\ s.pc \in {"cool", "plan", "walk", "stale", "local"} => s.kind \in ListingKinds
    /\ s.pc \in {"idle", "cache", "cool", "plan"} =>
          s.sent = 0 /\ s.walk = 0 /\ s.cursor = NoCursor
    /\ s.pc \in {"cache", "cool", "plan", "walk", "send", "keep"} => s.error = "none"
    /\ s.pc = "walk" => s.walk # 0
    /\ s.walk # 0 => s.kind \in ListingKinds /\ s.walk < s.page /\ s.page <= MaxWalk
    /\ s.sent <= s.page /\ s.sent <= MaxWalk
    /\ s.pc \in {"walk", "send"} => s.sent < Aim(s) /\ s.sent < MaxWalk
    /\ s.pc = "keep" => s.sent <= Aim(s)
    /\ s.pc \in {"walk", "send"} /\ s.kind \in ListingKinds =>
          Aim(s) = IF s.cursor = NoCursor THEN 1 ELSE s.cursor.to
    /\ s.pc = "keep" => s.body \in Bodies /\ s.body.page = Aim(s)

(* What a call promises or reports was so: a search that is owed an answer   *)
(* asked for something answered, and fails only by another way; one that     *)
(* rested had a timeout before it.                                           *)
CallTells(s, replied, timeouts) ==
    /\ s.owed => <<s.kind, s.page>> \in replied
    /\ s.owed /\ s.kind \in ListingKinds /\ s.error \in {"timeout", "down"} => s.pc = "stale"
    /\ s.rested => \E t \in timeouts : t[1] = s.kind /\ t[2] = s.url

CachedPagesMatch ==
    \A key \in Kinds \X Pages :
        pageCache[key] # NoEntry => pageCache[key].body.page = key[2]
AnswersAreCached ==
    /\ answered \subseteq Kinds \X Pages
    /\ \A key \in answered \ spoiled : StandsIn(pageCache[key])
StallsWereTimeouts ==
    \A k \in ListingKinds :
        stalls[k] # NoStall => <<k, stalls[k].url, stalls[k].since>> \in timedOut

SearchWorks ==
    /\ SearchShape /\ CachedPagesMatch /\ AnswersAreCached /\ StallsWereTimeouts
    /\ CursorLeadsOn
    /\ \A c \in Searches : CallFits(calls[c]) /\ CallTells(calls[c], answered, timedOut)

LEMMA SearchStarts == ASSUME SearchAssumption, SearchInit PROVE SearchWorks
<1>1. NoCall \in SearchCalls
      BY DEF NoCall, SearchCalls, SearchSteps, Kinds, ListingKinds, NoBody, NoCursor
<1>2. CallFits(NoCall)
      BY DEF NoCall, CallFits, NoCursor, SearchAssumption
<1>3. CallTells(NoCall, answered, timedOut)
      BY DEF NoCall, CallTells
<1>4. SearchShape
      BY <1>1 DEF SearchInit, SearchShape, SearchAssumption
<1>5. CachedPagesMatch /\ AnswersAreCached /\ StallsWereTimeouts /\ CursorLeadsOn
      BY DEF SearchInit, CachedPagesMatch, AnswersAreCached, StallsWereTimeouts, CursorLeadsOn
<1> QED BY <1>2, <1>3, <1>4, <1>5 DEF SearchInit, SearchWorks


LEMMA CallServed ==
    ASSUME NEW s \in SearchCalls, NEW u, NEW x \in Bodies \cup {NoBody},
       NEW f \in {"none", "live", "cached", "local"},
       u = [s EXCEPT !.pc = "done", !.body = x, !.freshness = f, !.error = "none"]
    PROVE  /\ u \in SearchCalls
           /\ u.pc = "done" /\ u.kind = s.kind /\ u.page = s.page /\ u.url = s.url
           /\ u.owed = s.owed /\ u.walk = s.walk /\ u.cursor = s.cursor /\ u.body = x
           /\ u.sent = s.sent /\ u.error = "none" /\ u.rested = s.rested
BY DEF SearchCalls, SearchSteps

\* The call that takes a step is the only one that moves.
LEMMA OneCallMoves ==
    ASSUME SearchWorks, NEW c \in Searches, NEW u \in SearchCalls,
           calls' = [calls EXCEPT ![c] = u],
           CallFits(u), CallTells(u, answered', timedOut'),
           answered \subseteq answered', timedOut \subseteq timedOut'
    PROVE  /\ calls' \in [Searches -> SearchCalls]
           /\ \A d \in Searches : CallFits(calls'[d]) /\ CallTells(calls'[d], answered', timedOut')
<1>1. calls \in [Searches -> SearchCalls]
      BY DEF SearchWorks, SearchShape
<1>2. calls' \in [Searches -> SearchCalls] /\ calls'[c] = u
      BY <1>1
<1>3. \A d \in Searches \ {c} : calls'[d] = calls[d]
      BY <1>1
<1>4. ASSUME NEW d \in Searches
      PROVE  CallFits(calls'[d]) /\ CallTells(calls'[d], answered', timedOut')
  <2>1. CASE d = c
        BY <2>1, <1>2
  <2>2. CASE d # c
    <3>1. calls'[d] = calls[d] /\ CallFits(calls[d]) /\ CallTells(calls[d], answered, timedOut)
          BY <2>2, <1>3 DEF SearchWorks
    <3>2. CallTells(calls[d], answered', timedOut')
          BY <3>1 DEF CallTells
    <3> QED BY <3>1, <3>2
  <2> QED BY <2>1, <2>2
<1> QED BY <1>2, <1>4

\* A step that leaves the cache, its history and the stalls alone.
LEMMA CallStep ==
    ASSUME SearchWorks, NEW c \in Searches, NEW u \in SearchCalls,
           calls' = [calls EXCEPT ![c] = u],
           CallFits(u), CallTells(u, answered, timedOut),
           base' = base, pageCache' = pageCache, now' = now, answered' = answered,
           spoiled' = spoiled, timedOut' = timedOut, begun' \in 0 .. MaxAsked,
           stalls' \in [ListingKinds -> Stalls \cup {NoStall}], StallsWereTimeouts',
           cursors' \in [ListingKinds \X Pages -> CursorsOf \cup {NoCursor}], CursorLeadsOn'
    PROVE  SearchWorks'
<1>1. /\ calls' \in [Searches -> SearchCalls]
      /\ \A d \in Searches : CallFits(calls'[d]) /\ CallTells(calls'[d], answered', timedOut')
      BY OneCallMoves
<1>2. SearchShape'
      BY <1>1 DEF SearchWorks, SearchShape
<1>3. CachedPagesMatch' /\ AnswersAreCached'
      BY DEF SearchWorks, CachedPagesMatch, AnswersAreCached, StandsIn
<1> QED BY <1>1, <1>2, <1>3 DEF SearchWorks

\* What a page's cursor says when it is remembered.
LEMMA RememberedLeadsOn ==
    ASSUME SearchAssumption, SearchWorks, NEW k \in ListingKinds, NEW p \in Pages,
           NEW body \in Bodies, body.page = p, Remember(k, p, body)
    PROVE  /\ cursors' \in [ListingKinds \X Pages -> CursorsOf \cup {NoCursor}]
           /\ CursorLeadsOn'
<1> DEFINE next == NextCursor(body)
<1>1. cursors \in [ListingKinds \X Pages -> CursorsOf \cup {NoCursor}] /\ CursorLeadsOn
      BY DEF SearchWorks, SearchShape
<1>2. CASE next = NoCursor
      BY <1>1, <1>2 DEF Remember, CursorLeadsOn
<1>3. CASE next # NoCursor
  <2>1. next = [of |-> body.of, to |-> p + 1] /\ p < Length
        BY <1>3 DEF NextCursor
  <2>2. next \in CursorsOf /\ next.to = p + 1
        BY <2>1 DEF Pages, CursorsOf, Bodies, SearchAssumption
  <2>3. cursors' = [cursors EXCEPT ![<<k, p>>] = next]
        BY <1>3 DEF Remember
  <2>4. cursors' \in [ListingKinds \X Pages -> CursorsOf \cup {NoCursor}]
        BY <1>1, <2>2, <2>3
  <2>5. ASSUME NEW kp \in ListingKinds \X Pages, cursors'[kp] # NoCursor
        PROVE  cursors'[kp].to = kp[2] + 1
    <3>1. CASE kp = <<k, p>>
          BY <1>1, <2>2, <2>3, <3>1
    <3>2. CASE kp # <<k, p>>
      <4>1. cursors'[kp] = cursors[kp]
            BY <1>1, <2>3, <3>2
      <4> QED BY <1>1, <2>5, <4>1 DEF CursorLeadsOn
    <3> QED BY <3>1, <3>2
  <2> QED BY <2>4, <2>5 DEF CursorLeadsOn
<1> QED BY <1>2, <1>3

\* A cached body is a body, and of the page it is cached under.
LEMMA CachedBody ==
    ASSUME SearchWorks, NEW key \in Kinds \X Pages, pageCache[key] # NoEntry
    PROVE  pageCache[key].body \in Bodies /\ pageCache[key].body.page = key[2]
<1>1. pageCache[key] \in CacheEntries
      BY DEF SearchWorks, SearchShape
<1> QED BY <1>1 DEF SearchWorks, CachedPagesMatch, CacheEntries

\* The state of the call about to step.
LEMMA CallNow ==
    ASSUME SearchWorks, NEW c \in Searches
    PROVE  /\ calls[c] \in SearchCalls
           /\ CallFits(calls[c])
           /\ CallTells(calls[c], answered, timedOut)
           /\ stalls \in [ListingKinds -> Stalls \cup {NoStall}] /\ StallsWereTimeouts
           /\ cursors \in [ListingKinds \X Pages -> CursorsOf \cup {NoCursor}] /\ CursorLeadsOn
           /\ begun \in 0 .. MaxAsked
BY DEF SearchWorks, SearchShape

LEMMA CachedKey ==
    ASSUME NEW s \in SearchCalls, s.page \in Pages
    PROVE  <<s.kind, s.page>> \in Kinds \X Pages
BY DEF SearchCalls

\* A page served - from the cache, from the registry or for want of an answer -
\* ends its call and leaves its cursor behind.
LEMMA ServedWorks ==
    ASSUME SearchAssumption, SearchWorks, NEW c \in Searches,
           calls[c].pc \in {"cache", "keep", "stale"}, calls[c].sent <= calls[c].page,
           NEW body \in Bodies, body.page = calls[c].page,
           NEW freshness \in {"live", "cached"}, ServePage(c, body, freshness),
           answered \subseteq answered', timedOut' = timedOut
    PROVE  \E u \in SearchCalls :
              /\ calls' = [calls EXCEPT ![c] = u]
              /\ CallFits(u) /\ CallTells(u, answered', timedOut')
              /\ cursors' \in [ListingKinds \X Pages -> CursorsOf \cup {NoCursor}]
              /\ CursorLeadsOn'
<1> DEFINE s == calls[c]
           u == [s EXCEPT !.pc = "done", !.body = body, !.freshness = freshness, !.error = "none"]
<1>1. /\ s \in SearchCalls /\ CallFits(s) /\ CallTells(s, answered, timedOut)
      /\ cursors \in [ListingKinds \X Pages -> CursorsOf \cup {NoCursor}] /\ CursorLeadsOn
      BY CallNow
<1>2. calls' = [calls EXCEPT ![c] = u]
      BY DEF ServePage
<1>3. /\ u \in SearchCalls
      /\ u.pc = "done" /\ u.kind = s.kind /\ u.page = s.page /\ u.url = s.url
      /\ u.owed = s.owed /\ u.walk = s.walk /\ u.cursor = s.cursor /\ u.body = body
      /\ u.sent = s.sent /\ u.error = "none" /\ u.rested = s.rested
  <2>1. body \in Bodies \cup {NoBody} /\ freshness \in {"none", "live", "cached", "local"}
        OBVIOUS
  <2>2. s \in SearchCalls
        BY <1>1
  <2> HIDE DEF s
  <2> QED BY ONLY <2>1, <2>2, CallServed
<1> HIDE DEF u
<1>4. CallFits(u)
  <2>1. /\ s.page \in Pages /\ s.url \in Catalogs /\ s.sent <= s.page /\ s.sent <= MaxWalk
        /\ s.walk # 0 => s.kind \in ListingKinds /\ s.walk < s.page /\ s.page <= MaxWalk
        BY <1>1 DEF CallFits
  <2> QED BY <1>3, <2>1 DEF CallFits
<1>5. CallTells(u, answered', timedOut')
      BY <1>1, <1>3 DEF CallTells
<1>6. s.page \in Pages
      BY <1>1 DEF CallFits
<1>7. cursors' \in [ListingKinds \X Pages -> CursorsOf \cup {NoCursor}] /\ CursorLeadsOn'
  <2>1. CASE s.kind \in ListingKinds
    <3>1. Remember(s.kind, s.page, body)
          BY <2>1 DEF ServePage
    <3> QED BY <2>1, <3>1, <1>6, RememberedLeadsOn
  <2>2. CASE s.kind \notin ListingKinds
        BY <2>2, <1>1 DEF ServePage, CursorLeadsOn
  <2> QED BY <2>1, <2>2
<1> QED BY <1>2, <1>3, <1>4, <1>5, <1>7

\* A call fails, whatever it was doing.
LEMMA FailedWorks ==
    ASSUME SearchAssumption, SearchWorks, NEW c \in Searches,
           NEW error \in {"refused", "malformed"}, NEW n \in Nat,
           calls[c].pc # "idle", n <= calls[c].page, n <= MaxWalk,
           calls' = [calls EXCEPT ![c].pc = "done", ![c].error = error, ![c].sent = n],
           answered \subseteq answered', timedOut' = timedOut
    PROVE  \E u \in SearchCalls :
              /\ calls' = [calls EXCEPT ![c] = u]
              /\ CallFits(u) /\ CallTells(u, answered', timedOut')
<1> DEFINE s == calls[c]
           u == [s EXCEPT !.pc = "done", !.error = error, !.sent = n]
<1>1. s \in SearchCalls /\ CallFits(s) /\ CallTells(s, answered, timedOut)
      BY CallNow
<1>2. calls' = [calls EXCEPT ![c] = u]
      OBVIOUS
<1>3. u \in SearchCalls
  <2>1. "done" \in SearchSteps
        BY DEF SearchSteps
  <2>2. u \in SearchCalls
        BY <1>1, <2>1 DEF SearchCalls
  <2> QED BY <2>2
<1>4. /\ u.pc = "done" /\ u.kind = s.kind /\ u.page = s.page /\ u.url = s.url
      /\ u.walk = s.walk /\ u.cursor = s.cursor /\ u.sent = n /\ u.error = error
      BY <1>1 DEF SearchCalls
<1>5. u.owed = s.owed /\ u.rested = s.rested
      BY <1>1 DEF SearchCalls
<1> HIDE DEF u
<1>6. CallFits(u)
  <2>1. s.page \in Pages /\ s.url \in Catalogs
        BY <1>1 DEF CallFits
  <2>2. s.walk # 0 => s.kind \in ListingKinds /\ s.walk < s.page /\ s.page <= MaxWalk
        BY <1>1 DEF CallFits
  <2> QED BY <1>4, <2>1, <2>2 DEF CallFits
<1>7. CallTells(u, answered', timedOut')
      BY <1>1, <1>4, <1>5 DEF CallTells
<1> QED BY <1>2, <1>3, <1>6, <1>7

LEMMA BeginSearchWorks ==
    ASSUME SearchAssumption, SearchWorks, NEW c \in Searches, BeginSearch(c)
    PROVE  SearchWorks'
<1>1. PICK a \in Asked :
          calls' = [calls EXCEPT ![c] = [NoCall EXCEPT
              !.pc = "cache", !.kind = a[1], !.page = a[2], !.url = base,
              !.owed = a \in answered \ spoiled]]
      BY DEF BeginSearch
<1>2. a = <<a[1], a[2]>> /\ a[1] \in Kinds /\ a[2] \in Pages
      BY DEF SearchAssumption, Pages
<1>3. PICK o \in BOOLEAN :
          /\ calls' = [calls EXCEPT ![c] = [NoCall EXCEPT
               !.pc = "cache", !.kind = a[1], !.page = a[2], !.url = base, !.owed = o]]
          /\ o => a \in answered
  <2>1. CASE a \in answered \ spoiled
    <3>1. (a \in answered \ spoiled) = TRUE
          BY <2>1
    <3> QED BY <1>1, <2>1, <3>1
  <2>2. CASE a \notin answered \ spoiled
    <3>1. (a \in answered \ spoiled) = FALSE
          BY <2>2
    <3> QED BY <1>1, <2>2, <3>1
  <2> QED BY <2>1, <2>2
<1> DEFINE k == a[1]
           p == a[2]
           u == [NoCall EXCEPT !.pc = "cache", !.kind = k, !.page = p, !.url = base, !.owed = o]
<1>4. calls' = [calls EXCEPT ![c] = u]
      BY <1>3
<1>5. base \in Catalogs
      BY DEF SearchWorks, SearchShape
<1>6. /\ u \in SearchCalls
      /\ u.pc = "cache" /\ u.kind = k /\ u.page = p /\ u.url = base /\ u.owed = o
      /\ u.walk = 0 /\ u.cursor = NoCursor /\ u.body = NoBody /\ u.sent = 0
      /\ u.error = "none" /\ u.rested = FALSE
  <2>1. NoCall \in SearchCalls
        BY DEF NoCall, SearchCalls, SearchSteps, Kinds, ListingKinds, NoBody, NoCursor
  <2>2. k \in Kinds /\ p \in Pages
        BY <1>2
  <2> HIDE DEF k, p
  <2>3. u \in SearchCalls
    <3>1. "cache" \in SearchSteps
          BY DEF SearchSteps
    <3>2. u \in SearchCalls
          BY <2>1, <2>2, <1>5, <3>1 DEF SearchCalls
    <3> QED BY <3>2
  <2>4. /\ u.pc = "cache" /\ u.kind = k /\ u.page = p /\ u.url = base /\ u.owed = o
        /\ u.walk = NoCall.walk /\ u.cursor = NoCall.cursor /\ u.body = NoCall.body
        /\ u.sent = NoCall.sent /\ u.error = NoCall.error /\ u.rested = NoCall.rested
        BY <2>1 DEF SearchCalls
  <2> QED BY <2>3, <2>4 DEF NoCall
<1> HIDE DEF u
<1>7. u.page \in Nat /\ MaxWalk \in Nat
      BY <1>2, <1>6 DEF Pages, SearchAssumption
<1>8. CallFits(u)
      BY <1>2, <1>5, <1>6, <1>7 DEF CallFits
<1>9. CallTells(u, answered, timedOut)
  <2>1. u.owed => <<u.kind, u.page>> \in answered
        BY <1>2, <1>3, <1>6
  <2> QED BY <2>1, <1>6 DEF CallTells
<1>10. begun' \in 0 .. MaxAsked
      BY CallNow DEF BeginSearch, SearchAssumption
<1>11. StallsWereTimeouts' /\ CursorLeadsOn'
      BY CallNow DEF BeginSearch, StallsWereTimeouts, CursorLeadsOn
<1> QED BY <1>4, <1>6, <1>8, <1>9, <1>10, <1>11, CallStep, CallNow DEF BeginSearch

\* What a step leaves alone of the cursors and the stalls.
LEMMA MapsStay ==
    ASSUME SearchWorks, UNCHANGED <<cursors, stalls, timedOut, begun>>
    PROVE  /\ stalls' \in [ListingKinds -> Stalls \cup {NoStall}] /\ StallsWereTimeouts'
           /\ cursors' \in [ListingKinds \X Pages -> CursorsOf \cup {NoCursor}] /\ CursorLeadsOn'
           /\ begun' \in 0 .. MaxAsked
BY DEF SearchWorks, SearchShape, StallsWereTimeouts, CursorLeadsOn

LEMMA ReadCacheWorks ==
    ASSUME SearchAssumption, SearchWorks, NEW c \in Searches, ReadCache(c)
    PROVE  SearchWorks'
<1> DEFINE s == calls[c]
           found == pageCache[<<s.kind, s.page>>]
<1>1. s \in SearchCalls /\ CallFits(s) /\ CallTells(s, answered, timedOut)
      BY CallNow
<1>2. s.pc = "cache" /\ s.page \in Pages /\ s.url \in Catalogs /\ s.sent = 0 /\ s.walk = 0
      /\ s.cursor = NoCursor /\ s.error = "none" /\ s.page \in Nat /\ MaxWalk \in Nat
      BY <1>1 DEF ReadCache, CallFits, Pages, SearchAssumption
<1>3. <<s.kind, s.page>> \in Kinds \X Pages
      BY <1>1, <1>2, CachedKey
<1>4. CASE FreshEntry(found) /\ ~found.body.odd /\ ServePage(c, found.body, "live")
  <2>1. ServePage(c, found.body, "live")
        BY <1>4
  <2>2. found.body \in Bodies /\ found.body.page = s.page
        BY <1>3, <1>4, CachedBody DEF FreshEntry
  <2>3. PICK u \in SearchCalls :
            /\ calls' = [calls EXCEPT ![c] = u]
            /\ CallFits(u) /\ CallTells(u, answered', timedOut')
            /\ cursors' \in [ListingKinds \X Pages -> CursorsOf \cup {NoCursor}]
            /\ CursorLeadsOn'
    <3>1. calls[c].pc \in {"cache", "keep", "stale"} /\ calls[c].sent <= calls[c].page
          /\ found.body.page = calls[c].page
          BY <1>2, <2>2
    <3>2. answered \subseteq answered' /\ timedOut' = timedOut
          BY DEF ReadCache
    <3>3. found.body \in Bodies /\ "live" \in {"live", "cached"}
          BY <2>2
    <3> HIDE DEF found
    <3> QED BY ONLY <2>1, <3>1, <3>2, <3>3, SearchAssumption, SearchWorks, c \in Searches,
               ServedWorks
  <2>4. stalls' \in [ListingKinds -> Stalls \cup {NoStall}] /\ StallsWereTimeouts'
        /\ begun' \in 0 .. MaxAsked
        BY CallNow DEF ReadCache, StallsWereTimeouts
  <2> QED BY <2>3, <2>4, CallStep DEF ReadCache
<1>5. CASE /\ CallAt(c, IF s.kind \in ListingKinds THEN "cool" ELSE "send")
           /\ UNCHANGED cursors
  <2> DEFINE next == IF s.kind \in ListingKinds THEN "cool" ELSE "send"
             u == [s EXCEPT !.pc = next]
  <2>1. calls' = [calls EXCEPT ![c] = u] /\ UNCHANGED cursors
        BY <1>5 DEF CallAt
  <2>2. /\ u \in SearchCalls
        /\ u.pc = next /\ u.kind = s.kind /\ u.page = s.page /\ u.url = s.url
        /\ u.walk = s.walk /\ u.cursor = s.cursor /\ u.sent = s.sent /\ u.error = s.error
    <3>1. next \in SearchSteps
          BY DEF SearchSteps
    <3>2. u \in SearchCalls
          BY <1>1, <3>1 DEF SearchCalls
    <3>3. /\ u.pc = next /\ u.kind = s.kind /\ u.page = s.page /\ u.url = s.url
          /\ u.walk = s.walk /\ u.cursor = s.cursor /\ u.sent = s.sent
          /\ u.error = s.error
          BY <1>1 DEF SearchCalls
    <3> QED BY <3>2, <3>3
  <2>3. u.owed = s.owed /\ u.rested = s.rested
        BY <1>1 DEF SearchCalls
  <2> HIDE DEF u
  <2>4. CallFits(u)
        BY <1>2, <2>2 DEF CallFits, Aim, Pages, SearchAssumption
  <2>5. CallTells(u, answered, timedOut)
        BY <1>1, <1>2, <2>2, <2>3 DEF CallTells
  <2> QED BY <2>1, <2>2, <2>4, <2>5, CallStep, MapsStay DEF ReadCache
<1> QED BY <1>4, <1>5 DEF ReadCache

LEMMA CheckCooldownWorks ==
    ASSUME SearchAssumption, SearchWorks, NEW c \in Searches, CheckCooldown(c)
    PROVE  SearchWorks'
<1> DEFINE s == calls[c]
<1>1. s \in SearchCalls /\ CallFits(s) /\ CallTells(s, answered, timedOut)
      /\ stalls \in [ListingKinds -> Stalls \cup {NoStall}] /\ StallsWereTimeouts
      BY CallNow
<1>2. s.pc = "cool" /\ s.page \in Pages /\ s.url \in Catalogs /\ s.kind \in ListingKinds
      /\ s.sent = 0 /\ s.walk = 0 /\ s.cursor = NoCursor /\ s.error = "none"
      /\ s.page \in Nat /\ MaxWalk \in Nat
      BY <1>1 DEF CheckCooldown, CallFits, Pages, SearchAssumption
<1>3. cursors' = cursors /\ begun' = begun /\ timedOut' = timedOut
      BY DEF CheckCooldown
<1>4. CASE CoolingDown(stalls[s.kind], s.url)
  <2> DEFINE u == [s EXCEPT !.pc = "stale", !.error = "timeout", !.rested = TRUE]
  <2>1. calls' = [calls EXCEPT ![c] = u] /\ UNCHANGED stalls
        BY <1>4 DEF CheckCooldown
  <2>2. /\ u \in SearchCalls
        /\ u.pc = "stale" /\ u.kind = s.kind /\ u.page = s.page /\ u.url = s.url
        /\ u.walk = s.walk /\ u.cursor = s.cursor /\ u.sent = s.sent /\ u.error = "timeout"
    <3>1. "stale" \in SearchSteps
          BY DEF SearchSteps
    <3>2. u \in SearchCalls
          BY <1>1, <3>1 DEF SearchCalls
    <3>3. /\ u.pc = "stale" /\ u.kind = s.kind /\ u.page = s.page /\ u.url = s.url
          /\ u.walk = s.walk /\ u.cursor = s.cursor /\ u.sent = s.sent
          /\ u.error = "timeout"
          BY <1>1 DEF SearchCalls
    <3> QED BY <3>2, <3>3
  <2>3. u.owed = s.owed
        BY <1>1 DEF SearchCalls
  <2> HIDE DEF u
  <2>4. CallFits(u)
        BY <1>2, <2>2 DEF CallFits
  <2>5. stalls[s.kind] # NoStall /\ stalls[s.kind].url = s.url
    <3>1. "none" # s.url
          BY <1>2 DEF SearchAssumption
    <3> QED BY <1>4, <3>1 DEF CoolingDown, NoStall
  <2>6. <<s.kind, s.url, stalls[s.kind].since>> \in timedOut
        BY <1>1, <1>2, <2>5 DEF StallsWereTimeouts
  <2>7. \E t \in timedOut : t[1] = u.kind /\ t[2] = u.url
        BY <2>2, <2>6
  <2>8. CallTells(u, answered, timedOut)
        BY <1>1, <2>2, <2>3, <2>7 DEF CallTells
  <2>9. /\ stalls' \in [ListingKinds -> Stalls \cup {NoStall}] /\ StallsWereTimeouts'
        /\ cursors' \in [ListingKinds \X Pages -> CursorsOf \cup {NoCursor}] /\ CursorLeadsOn'
        /\ begun' \in 0 .. MaxAsked
        BY <1>3, <2>1, MapsStay
  <2> QED BY <2>1, <2>2, <2>4, <2>8, <2>9, CallStep DEF CheckCooldown
<1>5. CASE ~CoolingDown(stalls[s.kind], s.url)
  <2> DEFINE u == [s EXCEPT !.pc = "plan"]
  <2>1. calls' = [calls EXCEPT ![c] = u] /\ stalls' = [stalls EXCEPT ![s.kind] = NoStall]
        BY <1>5 DEF CheckCooldown, CallAt
  <2>2. /\ u \in SearchCalls
        /\ u.pc = "plan" /\ u.kind = s.kind /\ u.page = s.page /\ u.url = s.url
        /\ u.walk = s.walk /\ u.cursor = s.cursor /\ u.sent = s.sent /\ u.error = s.error
    <3>1. "plan" \in SearchSteps
          BY DEF SearchSteps
    <3>2. u \in SearchCalls
          BY <1>1, <3>1 DEF SearchCalls
    <3>3. /\ u.pc = "plan" /\ u.kind = s.kind /\ u.page = s.page /\ u.url = s.url
          /\ u.walk = s.walk /\ u.cursor = s.cursor /\ u.sent = s.sent
          /\ u.error = s.error
          BY <1>1 DEF SearchCalls
    <3> QED BY <3>2, <3>3
  <2>3. u.owed = s.owed /\ u.rested = s.rested
        BY <1>1 DEF SearchCalls
  <2> HIDE DEF u
  <2>4. CallFits(u)
        BY <1>2, <2>2 DEF CallFits
  <2>5. CallTells(u, answered, timedOut)
        BY <1>1, <1>2, <2>2, <2>3 DEF CallTells
  <2>6. stalls' \in [ListingKinds -> Stalls \cup {NoStall}]
        BY <1>1, <2>1
  <2>7. StallsWereTimeouts'
        BY <1>1, <1>3, <2>1 DEF StallsWereTimeouts
  <2>8. /\ cursors' \in [ListingKinds \X Pages -> CursorsOf \cup {NoCursor}] /\ CursorLeadsOn'
        /\ begun' \in 0 .. MaxAsked
        BY <1>3, CallNow DEF CursorLeadsOn
  <2> QED BY <2>1, <2>2, <2>4, <2>5, <2>6, <2>7, <2>8, CallStep DEF CheckCooldown
<1> QED BY <1>4, <1>5

LEMMA PlanWorks ==
    ASSUME SearchAssumption, SearchWorks, NEW c \in Searches, Plan(c)
    PROVE  SearchWorks'
<1> DEFINE s == calls[c]
           known == IF s.page = 1 THEN NoCursor ELSE cursors[<<s.kind, s.page - 1>>]
<1>1. s \in SearchCalls /\ CallFits(s) /\ CallTells(s, answered, timedOut)
      /\ cursors \in [ListingKinds \X Pages -> CursorsOf \cup {NoCursor}] /\ CursorLeadsOn
      BY CallNow
<1>2. s.pc = "plan" /\ s.page \in Pages /\ s.url \in Catalogs /\ s.kind \in ListingKinds
      /\ s.sent = 0 /\ s.walk = 0 /\ s.cursor = NoCursor /\ s.error = "none"
      BY <1>1 DEF Plan, CallFits
<1>3. s.page \in Nat \ {0} /\ MaxWalk \in Nat \ {0} /\ Length \in Nat
      BY <1>2 DEF Pages, SearchAssumption
<1>4. /\ stalls' \in [ListingKinds -> Stalls \cup {NoStall}] /\ StallsWereTimeouts'
      /\ cursors' \in [ListingKinds \X Pages -> CursorsOf \cup {NoCursor}] /\ CursorLeadsOn'
      /\ begun' \in 0 .. MaxAsked
      BY MapsStay DEF Plan
<1>5. CASE s.page = 1 \/ known # NoCursor
  <2> DEFINE u == [s EXCEPT !.pc = "send", !.cursor = known]
  <2>1. calls' = [calls EXCEPT ![c] = u]
        BY <1>5 DEF Plan
  <2>2. /\ known \in CursorsOf \cup {NoCursor}
        /\ s.page = IF known = NoCursor THEN 1 ELSE known.to
    <3>1. CASE s.page = 1
          BY <3>1
    <3>2. CASE s.page # 1
      <4>1. <<s.kind, s.page - 1>> \in ListingKinds \X Pages
            BY <1>2, <1>3, <3>2 DEF Pages
      <4>2. known = cursors[<<s.kind, s.page - 1>>] /\ known # NoCursor
            BY <1>5, <3>2
      <4>3. known.to = s.page - 1 + 1
            BY <1>1, <4>1, <4>2 DEF CursorLeadsOn
      <4> QED BY <1>1, <1>3, <4>1, <4>2, <4>3
    <3> QED BY <3>1, <3>2
  <2> HIDE DEF known
  <2>3. /\ u \in SearchCalls
        /\ u.pc = "send" /\ u.kind = s.kind /\ u.page = s.page /\ u.url = s.url
        /\ u.walk = s.walk /\ u.cursor = known /\ u.sent = s.sent /\ u.error = s.error
    <3>1. "send" \in SearchSteps
          BY DEF SearchSteps
    <3>2. u \in SearchCalls
          BY <1>1, <2>2, <3>1 DEF SearchCalls
    <3>3. /\ u.pc = "send" /\ u.kind = s.kind /\ u.page = s.page /\ u.url = s.url
          /\ u.walk = s.walk /\ u.cursor = known /\ u.sent = s.sent /\ u.error = s.error
          BY <1>1, <2>2 DEF SearchCalls
    <3> QED BY <3>2, <3>3
  <2>4. u.owed = s.owed /\ u.rested = s.rested
        BY <1>1, <2>2 DEF SearchCalls
  <2> HIDE DEF u
  <2>5. CallFits(u)
        BY <1>2, <1>3, <2>2, <2>3 DEF CallFits, Aim
  <2>6. CallTells(u, answered, timedOut)
        BY <1>1, <1>2, <2>3, <2>4 DEF CallTells
  <2> QED BY <1>4, <2>1, <2>3, <2>5, <2>6, CallStep DEF Plan
<1>6. CASE ~(s.page = 1 \/ known # NoCursor) /\ WithinWalk(s.page)
  <2> DEFINE u == [s EXCEPT !.pc = "walk", !.walk = 1]
  <2>1. calls' = [calls EXCEPT ![c] = u]
        BY <1>6 DEF Plan
  <2>2. /\ u \in SearchCalls
        /\ u.pc = "walk" /\ u.kind = s.kind /\ u.page = s.page /\ u.url = s.url
        /\ u.walk = 1 /\ u.cursor = s.cursor /\ u.sent = s.sent /\ u.error = s.error
    <3>1. "walk" \in SearchSteps
          BY DEF SearchSteps
    <3>2. u \in SearchCalls
          BY <1>1, <3>1 DEF SearchCalls
    <3>3. /\ u.pc = "walk" /\ u.kind = s.kind /\ u.page = s.page /\ u.url = s.url
          /\ u.walk = 1 /\ u.cursor = s.cursor /\ u.sent = s.sent /\ u.error = s.error
          BY <1>1 DEF SearchCalls
    <3> QED BY <3>2, <3>3
  <2>3. u.owed = s.owed /\ u.rested = s.rested
        BY <1>1 DEF SearchCalls
  <2>4. 1 < s.page /\ s.page <= MaxWalk
        BY <1>3, <1>6 DEF WithinWalk
  <2> HIDE DEF u
  <2>5. CallFits(u)
        BY <1>2, <1>3, <2>2, <2>4 DEF CallFits, Aim
  <2>6. CallTells(u, answered, timedOut)
        BY <1>1, <1>2, <2>2, <2>3 DEF CallTells
  <2> QED BY <1>4, <2>1, <2>2, <2>5, <2>6, CallStep DEF Plan
<1>7. CASE ~(s.page = 1 \/ known # NoCursor) /\ ~WithinWalk(s.page)
  <2>1. Fails(c, "malformed")
        BY <1>7 DEF Plan
  <2>2. calls' = [calls EXCEPT ![c].pc = "done", ![c].error = "malformed", ![c].sent = s.sent]
        BY <1>1, <2>1, CallNow DEF Fails, SearchCalls, SearchWorks, SearchShape
  <2>3. s.sent \in Nat /\ s.sent <= s.page /\ s.sent <= MaxWalk /\ s.pc # "idle"
        BY <1>2, <1>3
  <2>4. answered \subseteq answered' /\ timedOut' = timedOut
        BY DEF Plan
  <2>5. PICK u \in SearchCalls :
            /\ calls' = [calls EXCEPT ![c] = u]
            /\ CallFits(u) /\ CallTells(u, answered', timedOut')
    <3>1. "malformed" \in {"refused", "malformed"}
          OBVIOUS
    <3> QED BY ONLY <2>2, <2>3, <2>4, <3>1, SearchAssumption, SearchWorks, c \in Searches,
               FailedWorks
  <2> QED BY <1>4, <2>5, CallStep DEF Plan
<1> QED BY <1>5, <1>6, <1>7

\* The walk with the body of one page in hand: the call has sent no more than
\* the pages it has walked, and the next one is the cursor's.
LEMMA WalkOnWorks ==
    ASSUME SearchAssumption, SearchWorks, NEW c \in Searches,
           calls[c].pc \in {"walk", "keep"}, calls[c].walk # 0,
           calls[c].sent <= calls[c].walk,
           NEW body \in Bodies, body.page = calls[c].walk, WalkOn(c, body),
           answered \subseteq answered', timedOut' = timedOut
    PROVE  \E u \in SearchCalls :
              /\ calls' = [calls EXCEPT ![c] = u]
              /\ CallFits(u) /\ CallTells(u, answered', timedOut')
              /\ cursors' \in [ListingKinds \X Pages -> CursorsOf \cup {NoCursor}]
              /\ CursorLeadsOn'
<1> DEFINE s == calls[c]
           next == NextCursor(body)
<1>1. s \in SearchCalls /\ CallFits(s) /\ CallTells(s, answered, timedOut)
      /\ cursors \in [ListingKinds \X Pages -> CursorsOf \cup {NoCursor}] /\ CursorLeadsOn
      BY CallNow
<1>2. /\ s.page \in Pages /\ s.url \in Catalogs /\ s.kind \in ListingKinds
      /\ s.error = "none" /\ s.walk < s.page /\ s.page <= MaxWalk
      /\ s.sent <= s.page /\ s.sent <= MaxWalk
      BY <1>1 DEF CallFits
<1>3. s.page \in Nat /\ s.walk \in Nat /\ s.sent \in Nat /\ MaxWalk \in Nat /\ Length \in Nat
      BY <1>1, <1>2 DEF Pages, SearchAssumption, SearchCalls
<1>4. CASE body.odd
  <2>1. Fails(c, "malformed") /\ UNCHANGED cursors
        BY <1>4 DEF WalkOn
  <2>2. calls' = [calls EXCEPT ![c].pc = "done", ![c].error = "malformed", ![c].sent = s.sent]
        BY <1>1, <2>1, CallNow DEF Fails, SearchCalls, SearchWorks, SearchShape
  <2>3. s.sent \in Nat /\ s.sent <= s.page /\ s.sent <= MaxWalk /\ s.pc # "idle"
        BY <1>2, <1>3
  <2>4. PICK u \in SearchCalls :
            /\ calls' = [calls EXCEPT ![c] = u]
            /\ CallFits(u) /\ CallTells(u, answered', timedOut')
    <3>1. "malformed" \in {"refused", "malformed"}
          OBVIOUS
    <3> QED BY ONLY <2>2, <2>3, <3>1, SearchAssumption, SearchWorks, c \in Searches,
               answered \subseteq answered', timedOut' = timedOut, FailedWorks
  <2> QED BY <1>1, <2>1, <2>4 DEF CursorLeadsOn
<1>5. CASE ~body.odd
  <2>1. cursors' \in [ListingKinds \X Pages -> CursorsOf \cup {NoCursor}] /\ CursorLeadsOn'
    <3>1. Remember(s.kind, s.walk, body)
          BY <1>5 DEF WalkOn
    <3>2. s.walk \in Pages
          BY <1>2, <1>3 DEF Pages
    <3> QED BY <1>2, <3>1, <3>2, RememberedLeadsOn
  <2>2. /\ next # NoCursor => next.to = s.walk + 1
        /\ next \in CursorsOf \cup {NoCursor}
        BY <1>3 DEF NextCursor, Bodies, CursorsOf, Pages, SearchAssumption
  <2> HIDE DEF next
  <2>3. CASE next = NoCursor
    <3> DEFINE u == [s EXCEPT !.pc = "done", !.freshness = "live", !.body = NoBody]
    <3>1. calls' = [calls EXCEPT ![c] = u]
          BY <1>5, <2>3 DEF WalkOn, next
    <3>2. /\ u \in SearchCalls
          /\ u.pc = "done" /\ u.kind = s.kind /\ u.page = s.page /\ u.url = s.url
          /\ u.walk = s.walk /\ u.cursor = s.cursor /\ u.sent = s.sent /\ u.error = s.error
      <4>1. "done" \in SearchSteps
            BY DEF SearchSteps
      <4>2. u \in SearchCalls
            BY <1>1, <4>1 DEF SearchCalls
      <4>3. /\ u.pc = "done" /\ u.kind = s.kind /\ u.page = s.page /\ u.url = s.url
            /\ u.walk = s.walk /\ u.cursor = s.cursor /\ u.sent = s.sent
            /\ u.error = s.error
            BY <1>1 DEF SearchCalls
      <4> QED BY <4>2, <4>3
    <3>3. u.owed = s.owed /\ u.rested = s.rested
          BY <1>1 DEF SearchCalls
    <3> HIDE DEF u
    <3>4. CallFits(u)
          BY <1>2, <3>2 DEF CallFits
    <3>5. CallTells(u, answered', timedOut')
          BY <1>1, <1>2, <3>2, <3>3 DEF CallTells
    <3> QED BY <2>1, <3>1, <3>2, <3>4, <3>5
  <2>4. CASE next # NoCursor /\ s.walk + 1 = s.page
    <3> DEFINE u == [s EXCEPT !.pc = "send", !.walk = 0, !.cursor = next, !.body = NoBody]
    <3>1. calls' = [calls EXCEPT ![c] = u]
          BY <1>5, <2>4 DEF WalkOn, next
    <3>2. /\ u \in SearchCalls
          /\ u.pc = "send" /\ u.kind = s.kind /\ u.page = s.page /\ u.url = s.url
          /\ u.walk = 0 /\ u.cursor = next /\ u.sent = s.sent /\ u.error = s.error
      <4>1. "send" \in SearchSteps
            BY DEF SearchSteps
      <4>2. u \in SearchCalls
            BY <1>1, <2>2, <4>1 DEF SearchCalls
      <4>3. /\ u.pc = "send" /\ u.kind = s.kind /\ u.page = s.page /\ u.url = s.url
            /\ u.walk = 0 /\ u.cursor = next /\ u.sent = s.sent /\ u.error = s.error
            BY <1>1, <2>2 DEF SearchCalls
      <4> QED BY <4>2, <4>3
    <3>3. u.owed = s.owed /\ u.rested = s.rested
          BY <1>1, <2>2 DEF SearchCalls
    <3>4. s.sent < s.page /\ s.sent < MaxWalk /\ next.to = s.page
          BY <1>2, <1>3, <2>2, <2>4
    <3> HIDE DEF u
    <3>5. CallFits(u)
          BY <1>2, <2>4, <3>2, <3>4 DEF CallFits, Aim
    <3>6. CallTells(u, answered', timedOut')
          BY <1>1, <1>2, <3>2, <3>3 DEF CallTells
    <3> QED BY <2>1, <3>1, <3>2, <3>5, <3>6
  <2>5. CASE next # NoCursor /\ s.walk + 1 # s.page
    <3> DEFINE w == s.walk + 1
               u == [s EXCEPT !.pc = "walk", !.walk = w, !.cursor = next, !.body = NoBody]
    <3>1. calls' = [calls EXCEPT ![c] = u]
          BY <1>5, <2>5 DEF WalkOn, next
    <3> w \in Nat
          BY <1>3
    <3> HIDE DEF w
    <3>2. /\ u \in SearchCalls
          /\ u.pc = "walk" /\ u.kind = s.kind /\ u.page = s.page /\ u.url = s.url
          /\ u.walk = w /\ u.cursor = next /\ u.sent = s.sent /\ u.error = s.error
      <4>1. "walk" \in SearchSteps
            BY DEF SearchSteps
      <4>2. u \in SearchCalls
            BY <1>1, <2>2, <4>1 DEF SearchCalls
      <4>3. /\ u.pc = "walk" /\ u.kind = s.kind /\ u.page = s.page /\ u.url = s.url
            /\ u.walk = w /\ u.cursor = next /\ u.sent = s.sent /\ u.error = s.error
            BY <1>1, <2>2 DEF SearchCalls
      <4> QED BY <4>2, <4>3
    <3>3. u.owed = s.owed /\ u.rested = s.rested
          BY <1>1, <2>2 DEF SearchCalls
    <3> USE DEF w
    <3>4. /\ s.sent < s.walk + 1 /\ s.sent < MaxWalk /\ next.to = s.walk + 1
          /\ s.walk + 1 < s.page /\ s.walk + 1 # 0
          BY <1>2, <1>3, <2>2, <2>5
    <3> HIDE DEF u
    <3>5. CallFits(u)
          BY <1>2, <2>5, <3>2, <3>4 DEF CallFits, Aim
    <3>6. CallTells(u, answered', timedOut')
          BY <1>1, <1>2, <3>2, <3>3 DEF CallTells
    <3> QED BY <2>1, <3>1, <3>2, <3>5, <3>6
  <2> QED BY <2>3, <2>4, <2>5
<1> QED BY <1>4, <1>5

LEMMA WalkWorks ==
    ASSUME SearchAssumption, SearchWorks, NEW c \in Searches, Walk(c)
    PROVE  SearchWorks'
<1> DEFINE s == calls[c]
           found == pageCache[<<s.kind, s.walk>>]
<1>1. s \in SearchCalls /\ CallFits(s) /\ CallTells(s, answered, timedOut)
      BY CallNow
<1>2. /\ s.pc = "walk" /\ s.kind \in ListingKinds /\ s.page \in Pages /\ s.url \in Catalogs
      /\ s.walk # 0 /\ s.walk < s.page /\ s.page <= MaxWalk /\ s.error = "none"
      /\ s.sent < s.walk /\ s.sent < MaxWalk /\ s.sent <= s.page
      /\ s.walk = IF s.cursor = NoCursor THEN 1 ELSE s.cursor.to
      BY <1>1 DEF Walk, CallFits, Aim
<1>3. s.page \in Nat /\ s.walk \in Nat /\ s.sent \in Nat /\ MaxWalk \in Nat /\ Length \in Nat
      BY <1>1, <1>2 DEF Pages, SearchAssumption, SearchCalls
<1>4. <<s.kind, s.walk>> \in Kinds \X Pages
      BY <1>2, <1>3 DEF Pages, Kinds
<1>5. /\ answered \subseteq answered' /\ timedOut' = timedOut /\ begun' = begun
      /\ stalls' = stalls
      BY DEF Walk
<1>6. CASE FreshEntry(found) /\ WalkOn(c, found.body)
  <2>1. WalkOn(c, found.body)
        BY <1>6
  <2>2. found.body \in Bodies /\ found.body.page = calls[c].walk
        BY <1>4, <1>6, CachedBody DEF FreshEntry
  <2>3. calls[c].pc \in {"walk", "keep"} /\ calls[c].walk # 0 /\ calls[c].sent <= calls[c].walk
        BY <1>2, <1>3
  <2> HIDE DEF found
  <2>4. PICK u \in SearchCalls :
            /\ calls' = [calls EXCEPT ![c] = u]
            /\ CallFits(u) /\ CallTells(u, answered', timedOut')
            /\ cursors' \in [ListingKinds \X Pages -> CursorsOf \cup {NoCursor}]
            /\ CursorLeadsOn'
        BY ONLY <1>5, <2>1, <2>2, <2>3, SearchAssumption, SearchWorks, c \in Searches,
           WalkOnWorks
  <2>5. stalls' \in [ListingKinds -> Stalls \cup {NoStall}] /\ StallsWereTimeouts'
        /\ begun' \in 0 .. MaxAsked
        BY <1>5, CallNow DEF StallsWereTimeouts
  <2> QED BY <2>4, <2>5, CallStep DEF Walk
<1>7. CASE CallAt(c, "send") /\ UNCHANGED cursors
  <2> DEFINE u == [s EXCEPT !.pc = "send"]
  <2>1. calls' = [calls EXCEPT ![c] = u] /\ UNCHANGED cursors
        BY <1>7 DEF CallAt
  <2>2. /\ u \in SearchCalls
        /\ u.pc = "send" /\ u.kind = s.kind /\ u.page = s.page /\ u.url = s.url
        /\ u.walk = s.walk /\ u.cursor = s.cursor /\ u.sent = s.sent /\ u.error = s.error
    <3>1. "send" \in SearchSteps
          BY DEF SearchSteps
    <3>2. u \in SearchCalls
          BY <1>1, <3>1 DEF SearchCalls
    <3>3. /\ u.pc = "send" /\ u.kind = s.kind /\ u.page = s.page /\ u.url = s.url
          /\ u.walk = s.walk /\ u.cursor = s.cursor /\ u.sent = s.sent
          /\ u.error = s.error
          BY <1>1 DEF SearchCalls
    <3> QED BY <3>2, <3>3
  <2>3. u.owed = s.owed /\ u.rested = s.rested
        BY <1>1 DEF SearchCalls
  <2> HIDE DEF u
  <2>4. CallFits(u)
        BY <1>2, <1>3, <2>2 DEF CallFits, Aim
  <2>5. CallTells(u, answered, timedOut)
        BY <1>1, <1>2, <2>2, <2>3 DEF CallTells
  <2>6. /\ stalls' \in [ListingKinds -> Stalls \cup {NoStall}] /\ StallsWereTimeouts'
        /\ cursors' \in [ListingKinds \X Pages -> CursorsOf \cup {NoCursor}] /\ CursorLeadsOn'
        /\ begun' \in 0 .. MaxAsked
        BY <1>5, <2>1, MapsStay
  <2> QED BY <2>1, <2>2, <2>4, <2>5, <2>6, CallStep DEF Walk
<1> QED BY <1>6, <1>7 DEF Walk

LEMMA AnswerWorks ==
    ASSUME SearchAssumption, SearchWorks, NEW c \in Searches, Answer(c)
    PROVE  SearchWorks'
<1> DEFINE s == calls[c]
           page == IF s.kind \notin ListingKinds THEN s.page
                   ELSE IF s.cursor = NoCursor THEN 1 ELSE s.cursor.to
           n == s.sent + 1
<1>1. s \in SearchCalls /\ CallFits(s) /\ CallTells(s, answered, timedOut)
      BY CallNow
<1>2. /\ s.pc = "send" /\ s.page \in Pages /\ s.url \in Catalogs /\ s.error = "none"
      /\ s.sent < Aim(s) /\ s.sent < MaxWalk /\ s.sent <= s.page
      /\ s.walk # 0 => s.kind \in ListingKinds /\ s.walk < s.page /\ s.page <= MaxWalk
      /\ s.kind \in ListingKinds => Aim(s) = page
      BY <1>1 DEF Answer, CallFits
<1>3. s.page \in Nat /\ s.walk \in Nat /\ s.sent \in Nat /\ MaxWalk \in Nat /\ Length \in Nat
      BY <1>1, <1>2 DEF Pages, SearchAssumption, SearchCalls
<1>4. page = Aim(s) /\ page \in Pages
  <2>1. s.kind \notin ListingKinds => s.walk = 0
        BY <1>2
  <2>2. Aim(s) \in Pages
        BY <1>2, <1>3 DEF Aim, Pages
  <2> QED BY <1>2, <2>1, <2>2 DEF Aim
<1>5. n \in Nat /\ n <= Aim(s) /\ n <= MaxWalk /\ n <= s.page
      BY <1>2, <1>3 DEF Aim
<1>6. PICK odd \in BOOLEAN, kept \in BOOLEAN :
         calls' = [calls EXCEPT ![c].body = [of |-> s.url, page |-> page, odd |-> odd],
                                ![c].sent = @ + 1,
                                ![c].pc = IF kept THEN "keep" ELSE "done",
                                ![c].error = IF kept THEN "none" ELSE "malformed"]
      BY ZenonT(40) DEF Answer
<1> HIDE DEF page
<1> DEFINE body == [of |-> s.url, page |-> page, odd |-> odd]
           pc == IF kept THEN "keep" ELSE "done"
           error == IF kept THEN "none" ELSE "malformed"
           u == [s EXCEPT !.body = body, !.sent = n, !.pc = pc, !.error = error]
<1>7. calls' = [calls EXCEPT ![c] = u]
      BY <1>6
<1> HIDE DEF n
<1>8. body \in Bodies /\ body.page = Aim(s)
      BY <1>2, <1>4 DEF Bodies
<1>9. pc \in {"keep", "done"} /\ error \in {"none", "malformed"} /\ (pc = "keep" => error = "none")
      OBVIOUS
<1> HIDE DEF body, pc, error
<1>10. /\ u \in SearchCalls
       /\ u.pc = pc /\ u.kind = s.kind /\ u.page = s.page /\ u.url = s.url
       /\ u.walk = s.walk /\ u.cursor = s.cursor /\ u.body = body /\ u.sent = n
       /\ u.error = error
  <2>1. body \in Bodies \cup {NoBody} /\ pc \in SearchSteps
        /\ error \in {"none", "timeout", "down", "refused", "malformed"}
        BY <1>8, <1>9 DEF SearchSteps
  <2>2. u \in SearchCalls
        BY <1>1, <1>5, <2>1 DEF SearchCalls
  <2>3. /\ u.pc = pc /\ u.kind = s.kind /\ u.page = s.page /\ u.url = s.url
        /\ u.walk = s.walk /\ u.cursor = s.cursor /\ u.body = body /\ u.sent = n
        /\ u.error = error
        BY <1>1 DEF SearchCalls
  <2> QED BY <2>2, <2>3
<1>11. u.owed = s.owed /\ u.rested = s.rested
       BY <1>1 DEF SearchCalls
<1> HIDE DEF u
<1>12. CallFits(u)
       BY <1>2, <1>5, <1>8, <1>9, <1>10 DEF CallFits, Aim
<1>13. CallTells(u, answered, timedOut)
       BY <1>1, <1>2, <1>9, <1>10, <1>11 DEF CallTells
<1>14. /\ stalls' \in [ListingKinds -> Stalls \cup {NoStall}] /\ StallsWereTimeouts'
       /\ cursors' \in [ListingKinds \X Pages -> CursorsOf \cup {NoCursor}] /\ CursorLeadsOn'
       /\ begun' \in 0 .. MaxAsked
       BY MapsStay DEF Answer
<1> QED BY <1>7, <1>10, <1>12, <1>13, <1>14, CallStep DEF Answer

\* What the cache holds after a response was kept in it, or was not.
LEMMA KeptIsCached ==
    ASSUME SearchAssumption, SearchWorks, NEW key \in Kinds \X Pages,
           NEW body \in Bodies, body.page = key[2], now' = now,
           \/ /\ pageCache' = [pageCache EXCEPT ![key] = [body |-> body, at |-> now]]
              /\ IF body.odd
                 THEN spoiled' = spoiled \cup {key} /\ UNCHANGED answered
                 ELSE answered' = answered \cup {key} /\ spoiled' = spoiled \ {key}
           \/ UNCHANGED <<pageCache, answered, spoiled>>
    PROVE  /\ pageCache' \in [Kinds \X Pages -> CacheEntries \cup {NoEntry}]
           /\ CachedPagesMatch' /\ AnswersAreCached'
           /\ answered \subseteq answered'
<1>1. /\ pageCache \in [Kinds \X Pages -> CacheEntries \cup {NoEntry}]
      /\ CachedPagesMatch /\ AnswersAreCached /\ now \in 0 .. MaxSearchTime
      BY DEF SearchWorks, SearchShape
<1>2. CASE UNCHANGED <<pageCache, answered, spoiled>>
      BY <1>1, <1>2 DEF CachedPagesMatch, AnswersAreCached, StandsIn
<1>3. CASE pageCache' = [pageCache EXCEPT ![key] = [body |-> body, at |-> now]]
           /\ IF body.odd
              THEN spoiled' = spoiled \cup {key} /\ UNCHANGED answered
              ELSE answered' = answered \cup {key} /\ spoiled' = spoiled \ {key}
  <2> DEFINE found == [body |-> body, at |-> now]
  <2>1. found \in CacheEntries /\ found.body = body
        BY <1>1 DEF CacheEntries
  <2>2. found # NoEntry
    <3>1. body # NoBody
      <4>1. body.of \in Catalogs /\ NoBody.of = "none"
            BY DEF Bodies, NoBody
      <4> QED BY <4>1 DEF SearchAssumption
    <3> QED BY <2>1, <3>1 DEF NoEntry
  <2> HIDE DEF found
  <2>3. /\ pageCache' = [pageCache EXCEPT ![key] = found]
        /\ pageCache' \in [Kinds \X Pages -> CacheEntries \cup {NoEntry}]
        /\ pageCache'[key] = found
        /\ \A other \in Kinds \X Pages : other # key => pageCache'[other] = pageCache[other]
    <3>1. pageCache' = [pageCache EXCEPT ![key] = found]
          BY <1>3 DEF found
    <3> QED BY <1>1, <2>1, <3>1
  <2>4. CachedPagesMatch'
        BY <1>1, <2>1, <2>3 DEF CachedPagesMatch
  <2>5. answered' \subseteq Kinds \X Pages /\ answered \subseteq answered'
        BY <1>1, <1>3 DEF AnswersAreCached
  <2>6. ASSUME NEW other \in answered' \ spoiled'
        PROVE  StandsIn(pageCache'[other])
    <3>1. CASE other = key
      <4>1. ~body.odd
            BY <1>3, <2>6, <3>1
      <4> QED BY <2>1, <2>2, <2>3, <3>1, <4>1 DEF StandsIn
    <3>2. CASE other # key
      <4>1. other \in answered \ spoiled
            BY <1>3, <2>6, <3>2
      <4>2. other \in Kinds \X Pages /\ pageCache'[other] = pageCache[other]
            BY <2>3, <2>5, <2>6, <3>2
      <4> QED BY <1>1, <4>1, <4>2 DEF AnswersAreCached
    <3> QED BY <3>1, <3>2
  <2> QED BY <2>3, <2>4, <2>5, <2>6 DEF AnswersAreCached, StandsIn
<1> QED BY <1>2, <1>3

LEMMA KeepWorks ==
    ASSUME SearchAssumption, SearchWorks, NEW c \in Searches, Keep(c)
    PROVE  SearchWorks'
<1> DEFINE s == calls[c]
           key == <<s.kind, IF s.walk = 0 THEN s.page ELSE s.walk>>
<1>1. s \in SearchCalls /\ CallFits(s) /\ CallTells(s, answered, timedOut)
      /\ cursors \in [ListingKinds \X Pages -> CursorsOf \cup {NoCursor}] /\ CursorLeadsOn
      BY CallNow
<1>2. /\ s.pc = "keep" /\ s.page \in Pages /\ s.url \in Catalogs /\ s.error = "none"
      /\ s.sent <= Aim(s) /\ s.sent <= MaxWalk /\ s.sent <= s.page
      /\ s.walk # 0 => s.kind \in ListingKinds /\ s.walk < s.page /\ s.page <= MaxWalk
      /\ s.body \in Bodies /\ s.body.page = Aim(s)
      BY <1>1 DEF Keep, CallFits
<1>3. s.page \in Nat /\ s.walk \in Nat /\ s.sent \in Nat /\ MaxWalk \in Nat /\ Length \in Nat
      BY <1>1, <1>2 DEF Pages, SearchAssumption, SearchCalls
<1>4. key \in Kinds \X Pages /\ key[2] = Aim(s)
  <2>1. Aim(s) \in Pages
        BY <1>2, <1>3 DEF Aim, Pages
  <2> QED BY <1>1, <2>1 DEF Aim, SearchCalls
<1>5. /\ now' = now
      /\ \/ /\ pageCache' = [pageCache EXCEPT ![key] = [body |-> s.body, at |-> now]]
            /\ IF s.body.odd
               THEN spoiled' = spoiled \cup {key} /\ UNCHANGED answered
               ELSE answered' = answered \cup {key} /\ spoiled' = spoiled \ {key}
         \/ UNCHANGED <<pageCache, answered, spoiled>>
      BY DEF Keep
<1>6. /\ base' = base /\ stalls' = stalls /\ begun' = begun /\ timedOut' = timedOut
      BY DEF Keep
<1>7. s.body.page = key[2]
      BY <1>2, <1>4
<1> HIDE DEF key
<1>8. /\ pageCache' \in [Kinds \X Pages -> CacheEntries \cup {NoEntry}]
      /\ CachedPagesMatch' /\ AnswersAreCached'
      /\ answered \subseteq answered'
      BY <1>2, <1>4, <1>5, <1>7, KeptIsCached
<1>9. \E u \in SearchCalls :
        /\ calls' = [calls EXCEPT ![c] = u]
        /\ CallFits(u) /\ CallTells(u, answered', timedOut')
        /\ cursors' \in [ListingKinds \X Pages -> CursorsOf \cup {NoCursor}]
        /\ CursorLeadsOn'
  <2>1. CASE s.walk # 0
    <3>1. WalkOn(c, s.body)
          BY <2>1 DEF Keep
    <3>2. /\ calls[c].pc \in {"walk", "keep"} /\ calls[c].walk # 0
          /\ calls[c].sent <= calls[c].walk /\ s.body.page = calls[c].walk
          /\ s.body \in Bodies
          BY <1>2, <2>1 DEF Aim
    <3>3. answered \subseteq answered' /\ timedOut' = timedOut
          BY <1>6, <1>8
    <3> QED BY ONLY <3>1, <3>2, <3>3, SearchAssumption, SearchWorks, c \in Searches,
               WalkOnWorks
  <2>2. CASE s.walk = 0 /\ s.body.odd
    <3>1. Fails(c, "malformed") /\ UNCHANGED cursors
          BY <2>2 DEF Keep
    <3>2. calls' = [calls EXCEPT ![c].pc = "done", ![c].error = "malformed", ![c].sent = s.sent]
          BY <1>1, <3>1, CallNow DEF Fails, SearchCalls, SearchWorks, SearchShape
    <3>3. s.sent \in Nat /\ s.sent <= s.page /\ s.sent <= MaxWalk /\ s.pc # "idle"
          BY <1>2, <1>3
    <3>4. answered \subseteq answered' /\ timedOut' = timedOut
          BY <1>6, <1>8
    <3>5. PICK u \in SearchCalls :
              /\ calls' = [calls EXCEPT ![c] = u]
              /\ CallFits(u) /\ CallTells(u, answered', timedOut')
      <4>1. "malformed" \in {"refused", "malformed"}
            OBVIOUS
      <4> QED BY ONLY <3>2, <3>3, <3>4, <4>1, SearchAssumption, SearchWorks, c \in Searches,
                 FailedWorks
    <3> QED BY <1>1, <3>1, <3>5 DEF CursorLeadsOn
  <2>3. CASE s.walk = 0 /\ ~s.body.odd
    <3>1. ServePage(c, s.body, "live")
          BY <2>3 DEF Keep
    <3>2. /\ calls[c].pc \in {"cache", "keep", "stale"} /\ calls[c].sent <= calls[c].page
          /\ s.body.page = calls[c].page /\ s.body \in Bodies
          /\ "live" \in {"live", "cached"}
          BY <1>2, <2>3 DEF Aim
    <3>3. answered \subseteq answered' /\ timedOut' = timedOut
          BY <1>6, <1>8
    <3> QED BY ONLY <3>1, <3>2, <3>3, SearchAssumption, SearchWorks, c \in Searches,
               ServedWorks
  <2> QED BY <2>1, <2>2, <2>3
<1>10. PICK u \in SearchCalls :
        /\ calls' = [calls EXCEPT ![c] = u]
        /\ CallFits(u) /\ CallTells(u, answered', timedOut')
        /\ cursors' \in [ListingKinds \X Pages -> CursorsOf \cup {NoCursor}]
        /\ CursorLeadsOn'
       BY <1>9
<1>11. /\ calls' \in [Searches -> SearchCalls]
       /\ \A d \in Searches : CallFits(calls'[d]) /\ CallTells(calls'[d], answered', timedOut')
       BY <1>6, <1>8, <1>10, OneCallMoves
<1>12. StallsWereTimeouts' /\ SearchShape'
       BY <1>5, <1>6, <1>8, <1>10, <1>11 DEF SearchWorks, SearchShape, StallsWereTimeouts
<1> QED BY <1>8, <1>10, <1>11, <1>12 DEF SearchWorks

LEMMA SearchRefusedWorks ==
    ASSUME SearchAssumption, SearchWorks, NEW c \in Searches, SearchRefused(c)
    PROVE  SearchWorks'
<1> DEFINE s == calls[c]
           n == s.sent + 1
<1>1. s \in SearchCalls /\ CallFits(s)
      BY CallNow
<1>2. /\ s.pc = "send" /\ s.sent < Aim(s) /\ s.sent < MaxWalk /\ s.page \in Pages
      /\ s.walk # 0 => s.walk < s.page
      BY <1>1 DEF SearchRefused, CallFits
<1>3. s.page \in Nat /\ s.walk \in Nat /\ s.sent \in Nat /\ MaxWalk \in Nat
      BY <1>1, <1>2 DEF Pages, SearchAssumption, SearchCalls
<1>4. n \in Nat /\ n <= s.page /\ n <= MaxWalk
      BY <1>2, <1>3 DEF Aim
<1>5. calls' = [calls EXCEPT ![c].pc = "done", ![c].error = "refused", ![c].sent = n]
      BY DEF SearchRefused
<1>6. answered \subseteq answered' /\ timedOut' = timedOut /\ s.pc # "idle"
      BY <1>2 DEF SearchRefused
<1> HIDE DEF n
<1>7. PICK u \in SearchCalls :
          /\ calls' = [calls EXCEPT ![c] = u]
          /\ CallFits(u) /\ CallTells(u, answered', timedOut')
  <2>1. "refused" \in {"refused", "malformed"}
        OBVIOUS
  <2> QED BY ONLY <1>4, <1>5, <1>6, <2>1, SearchAssumption, SearchWorks, c \in Searches,
             FailedWorks
<1>8. /\ stalls' \in [ListingKinds -> Stalls \cup {NoStall}] /\ StallsWereTimeouts'
      /\ cursors' \in [ListingKinds \X Pages -> CursorsOf \cup {NoCursor}] /\ CursorLeadsOn'
      /\ begun' \in 0 .. MaxAsked
      BY MapsStay DEF SearchRefused
<1> QED BY <1>7, <1>8, CallStep DEF SearchRefused

LEMMA UnavailableWorks ==
    ASSUME SearchAssumption, SearchWorks, NEW c \in Searches,
           NEW error \in {"timeout", "down"}, Unavailable(c, error)
    PROVE  SearchWorks'
<1> DEFINE s == calls[c]
           n == s.sent + 1
           to == IF s.kind \in ListingKinds THEN "stale" ELSE "done"
           u == [s EXCEPT !.error = error, !.sent = n, !.pc = to]
<1>1. s \in SearchCalls /\ CallFits(s) /\ CallTells(s, answered, timedOut)
      /\ stalls \in [ListingKinds -> Stalls \cup {NoStall}] /\ StallsWereTimeouts
      BY CallNow
<1>2. /\ s.pc = "send" /\ s.sent < Aim(s) /\ s.sent < MaxWalk /\ s.page \in Pages
      /\ s.url \in Catalogs
      /\ s.walk # 0 => s.kind \in ListingKinds /\ s.walk < s.page /\ s.page <= MaxWalk
      BY <1>1 DEF Unavailable, CallFits
<1>3. s.page \in Nat /\ s.walk \in Nat /\ s.sent \in Nat /\ MaxWalk \in Nat
      BY <1>1, <1>2 DEF Pages, SearchAssumption, SearchCalls
<1>4. n \in Nat /\ n <= s.page /\ n <= MaxWalk
      BY <1>2, <1>3 DEF Aim
<1>5. calls' = [calls EXCEPT ![c] = u]
      BY DEF Unavailable
<1>6. to \in SearchSteps /\ error \in {"none", "timeout", "down", "refused", "malformed"}
      BY DEF SearchSteps
<1>7. /\ s.kind \in ListingKinds => to = "stale"
      /\ s.kind \notin ListingKinds => to = "done"
      OBVIOUS
<1> HIDE DEF n, to
<1>9. u \in SearchCalls
      BY <1>1, <1>4, <1>6 DEF SearchCalls
<1>10. /\ u.pc = to /\ u.kind = s.kind /\ u.page = s.page /\ u.url = s.url
       /\ u.walk = s.walk /\ u.cursor = s.cursor /\ u.sent = n /\ u.error = error
       BY <1>1 DEF SearchCalls
<1>11. u.owed = s.owed /\ u.rested = s.rested
       BY <1>1 DEF SearchCalls
<1> HIDE DEF u
<1>12. CallFits(u)
       BY <1>2, <1>4, <1>7, <1>10 DEF CallFits
<1>13. timedOut \subseteq timedOut' /\ answered' = answered
       BY DEF Unavailable
<1>14. CallTells(u, answered', timedOut')
  <2>1. u.owed => <<u.kind, u.page>> \in answered'
        BY <1>1, <1>10, <1>11, <1>13 DEF CallTells
  <2>2. u.rested => \E t \in timedOut' : t[1] = u.kind /\ t[2] = u.url
        BY <1>1, <1>10, <1>11, <1>13 DEF CallTells
  <2> QED BY <1>7, <1>10, <2>1, <2>2 DEF CallTells
<1>15. /\ calls' \in [Searches -> SearchCalls]
       /\ \A d \in Searches : CallFits(calls'[d]) /\ CallTells(calls'[d], answered', timedOut')
       BY <1>5, <1>9, <1>12, <1>13, <1>14, OneCallMoves
<1>16. now \in 0 .. MaxSearchTime
       BY DEF SearchWorks, SearchShape
<1>17. stalls' \in [ListingKinds -> Stalls \cup {NoStall}] /\ StallsWereTimeouts'
  <2>1. CASE error = "timeout" /\ s.kind \in ListingKinds
    <3> DEFINE stall == [url |-> s.url, since |-> now]
    <3>1. stalls' = [stalls EXCEPT ![s.kind] = stall]
          /\ timedOut' = timedOut \cup {<<s.kind, s.url, now>>}
          BY <2>1 DEF Unavailable
    <3>2. stall \in Stalls /\ stall.url = s.url /\ stall.since = now
          BY <1>2, <1>16 DEF Stalls
    <3> HIDE DEF stall
    <3> QED BY <1>1, <2>1, <3>1, <3>2 DEF StallsWereTimeouts
  <2>2. CASE ~(error = "timeout" /\ s.kind \in ListingKinds)
        BY <1>1, <2>2 DEF Unavailable, StallsWereTimeouts
  <2> QED BY <2>1, <2>2
<1>18. CachedPagesMatch' /\ AnswersAreCached' /\ CursorLeadsOn' /\ SearchShape'
       BY <1>15, <1>17 DEF SearchWorks, SearchShape, Unavailable, CachedPagesMatch,
                           AnswersAreCached, StandsIn, CursorLeadsOn
<1> QED BY <1>15, <1>17, <1>18 DEF SearchWorks

LEMMA StalePageWorks ==
    ASSUME SearchAssumption, SearchWorks, NEW c \in Searches, StalePage(c)
    PROVE  SearchWorks'
<1> DEFINE s == calls[c]
           found == pageCache[<<s.kind, s.page>>]
<1>1. s \in SearchCalls /\ CallFits(s) /\ CallTells(s, answered, timedOut)
      BY CallNow
<1>2. /\ s.pc = "stale" /\ s.page \in Pages /\ s.url \in Catalogs /\ s.kind \in ListingKinds
      /\ s.sent <= s.page /\ s.sent <= MaxWalk
      /\ s.walk # 0 => s.walk < s.page /\ s.page <= MaxWalk
      BY <1>1 DEF StalePage, CallFits
<1>3. <<s.kind, s.page>> \in Kinds \X Pages
      BY <1>1, <1>2, CachedKey
<1>4. /\ answered \subseteq answered' /\ timedOut' = timedOut /\ begun' = begun
      /\ stalls' = stalls
      BY DEF StalePage
<1>5. CASE StandsIn(found) /\ ServePage(c, found.body, "cached")
  <2>1. ServePage(c, found.body, "cached")
        BY <1>5
  <2>2. found.body \in Bodies /\ found.body.page = s.page
        BY <1>3, <1>5, CachedBody DEF StandsIn
  <2>3. PICK u \in SearchCalls :
            /\ calls' = [calls EXCEPT ![c] = u]
            /\ CallFits(u) /\ CallTells(u, answered', timedOut')
            /\ cursors' \in [ListingKinds \X Pages -> CursorsOf \cup {NoCursor}]
            /\ CursorLeadsOn'
    <3>1. /\ calls[c].pc \in {"cache", "keep", "stale"} /\ calls[c].sent <= calls[c].page
          /\ found.body.page = calls[c].page /\ found.body \in Bodies
          /\ "cached" \in {"live", "cached"}
          BY <1>2, <1>5, <2>2
    <3> HIDE DEF found
    <3> QED BY ONLY <2>1, <3>1, <1>4, SearchAssumption, SearchWorks, c \in Searches,
               ServedWorks
  <2>4. stalls' \in [ListingKinds -> Stalls \cup {NoStall}] /\ StallsWereTimeouts'
        /\ begun' \in 0 .. MaxAsked
        BY <1>4, CallNow DEF StallsWereTimeouts
  <2> QED BY <2>3, <2>4, CallStep DEF StalePage
<1> DEFINE to == IF s.kind = "browse" \/ s.page # 1 THEN "done" ELSE "local"
<1>6. ASSUME NEW read \in BOOLEAN, ~(read /\ StandsIn(found)), UNCHANGED cursors,
             calls' = [calls EXCEPT ![c].pc = to,
                           ![c].owed = @ /\ read /\ <<s.kind, s.page>> \notin spoiled]
      PROVE  SearchWorks'
  <2> DEFINE u == [s EXCEPT !.pc = to, !.owed = FALSE]
  <2>1. (s.owed /\ read /\ <<s.kind, s.page>> \notin spoiled) = FALSE
    <3>1. s.owed => <<s.kind, s.page>> \in answered
          BY <1>1 DEF CallTells
    <3>2. <<s.kind, s.page>> \in answered \ spoiled => StandsIn(found)
          BY DEF SearchWorks, AnswersAreCached
    <3> QED BY <1>6, <3>1, <3>2
  <2>2. calls' = [calls EXCEPT ![c] = u]
    <3>1. calls' = [calls EXCEPT ![c].pc = to,
                        ![c].owed = s.owed /\ read /\ <<s.kind, s.page>> \notin spoiled]
          BY <1>6
    <3> QED BY <2>1, <3>1
  <2>3. to \in {"done", "local"} /\ UNCHANGED cursors
        BY <1>6
  <2> HIDE DEF to
  <2>4. u \in SearchCalls
    <3>1. to \in SearchSteps
          BY <2>3 DEF SearchSteps
    <3>2. u \in SearchCalls
          BY <1>1, <2>3, <3>1 DEF SearchCalls
    <3> QED BY <3>2
  <2>5. /\ u.pc = to /\ u.kind = s.kind /\ u.page = s.page /\ u.url = s.url
        /\ u.walk = s.walk /\ u.cursor = s.cursor /\ u.sent = s.sent /\ u.error = s.error
        BY <1>1 DEF SearchCalls
  <2>6. u.owed = FALSE /\ u.rested = s.rested
        BY <1>1 DEF SearchCalls
  <2> HIDE DEF u
  <2>7. CallFits(u)
        BY <1>2, <2>3, <2>5 DEF CallFits
  <2>8. CallTells(u, answered, timedOut)
        BY <1>1, <2>5, <2>6 DEF CallTells
  <2>9. /\ stalls' \in [ListingKinds -> Stalls \cup {NoStall}] /\ StallsWereTimeouts'
        /\ cursors' \in [ListingKinds \X Pages -> CursorsOf \cup {NoCursor}] /\ CursorLeadsOn'
        /\ begun' \in 0 .. MaxAsked
        BY <1>4, <2>3, MapsStay
  <2> QED BY <2>2, <2>4, <2>7, <2>8, <2>9, CallStep DEF StalePage
<1> QED BY <1>5, <1>6 DEF StalePage

LEMMA LocalMatchesWorks ==
    ASSUME SearchAssumption, SearchWorks, NEW c \in Searches, LocalMatches(c)
    PROVE  SearchWorks'
<1> DEFINE s == calls[c]
<1>1. s \in SearchCalls /\ CallFits(s) /\ CallTells(s, answered, timedOut)
      BY CallNow
<1>2. /\ s.pc = "local" /\ s.page \in Pages /\ s.url \in Catalogs /\ s.kind \in ListingKinds
      /\ s.sent <= s.page /\ s.sent <= MaxWalk
      /\ s.walk # 0 => s.walk < s.page /\ s.page <= MaxWalk
      BY <1>1 DEF LocalMatches, CallFits
<1>3. \E freshness \in {"none", "live", "cached", "local"},
         error \in {"none", s.error} :
         calls' = [calls EXCEPT ![c].pc = "done", ![c].freshness = freshness,
                                ![c].error = error]
  <2>1. CASE calls' = [calls EXCEPT ![c].pc = "done", ![c].freshness = "local",
                                    ![c].error = "none"]
        BY <2>1
  <2>2. CASE CallAt(c, "done")
    <3>1. s.freshness \in {"none", "live", "cached", "local"}
          BY <1>1 DEF SearchCalls
    <3>2. calls' = [calls EXCEPT ![c].pc = "done", ![c].freshness = s.freshness,
                                 ![c].error = s.error]
          BY <1>1, <2>2 DEF CallAt, SearchWorks, SearchShape, SearchCalls
    <3> QED BY <3>1, <3>2
  <2> QED BY <2>1, <2>2 DEF LocalMatches
<1>4. PICK freshness \in {"none", "live", "cached", "local"}, error \in {"none", s.error} :
         calls' = [calls EXCEPT ![c].pc = "done", ![c].freshness = freshness,
                                ![c].error = error]
      BY <1>3
<1> DEFINE u == [s EXCEPT !.pc = "done", !.freshness = freshness, !.error = error]
<1>5. calls' = [calls EXCEPT ![c] = u]
      BY <1>4
<1>6. u \in SearchCalls
  <2>1. "done" \in SearchSteps
        BY DEF SearchSteps
  <2>2. u \in SearchCalls
        BY <1>1, <2>1 DEF SearchCalls
  <2> QED BY <2>2
<1>7. /\ u.pc = "done" /\ u.kind = s.kind /\ u.page = s.page /\ u.url = s.url
      /\ u.walk = s.walk /\ u.cursor = s.cursor /\ u.sent = s.sent /\ u.error = error
      BY <1>1 DEF SearchCalls
<1>8. u.owed = s.owed /\ u.rested = s.rested
      BY <1>1 DEF SearchCalls
<1> HIDE DEF u
<1>9. CallFits(u)
      BY <1>2, <1>7 DEF CallFits
<1>10. CallTells(u, answered, timedOut)
       BY <1>1, <1>2, <1>7, <1>8 DEF CallTells
<1>11. /\ stalls' \in [ListingKinds -> Stalls \cup {NoStall}] /\ StallsWereTimeouts'
       /\ cursors' \in [ListingKinds \X Pages -> CursorsOf \cup {NoCursor}] /\ CursorLeadsOn'
       /\ begun' \in 0 .. MaxAsked
       BY MapsStay DEF LocalMatches
<1> QED BY <1>5, <1>6, <1>9, <1>10, <1>11, CallStep DEF LocalMatches

LEMMA SearchStep ==
    ASSUME SearchAssumption, SearchWorks, [SearchNext]_searchVars
    PROVE  SearchWorks'
<1>1. CASE SearchNext
  <2>1. ASSUME NEW c \in Searches,
               \/ BeginSearch(c) \/ ReadCache(c) \/ CheckCooldown(c) \/ Plan(c) \/ Walk(c)
               \/ Answer(c) \/ Keep(c) \/ SearchRefused(c) \/ StalePage(c) \/ LocalMatches(c)
               \/ \E error \in {"timeout", "down"} : Unavailable(c, error)
        PROVE  SearchWorks'
        BY <2>1, BeginSearchWorks, ReadCacheWorks, CheckCooldownWorks, PlanWorks, WalkWorks,
           AnswerWorks, KeepWorks, SearchRefusedWorks, StalePageWorks, LocalMatchesWorks,
           UnavailableWorks
  <2>2. CASE SetCatalog
    <3>1. SearchShape'
          BY <2>2 DEF SetCatalog, SearchWorks, SearchShape
    <3> QED BY <2>2, <3>1 DEF SetCatalog, SearchWorks, CachedPagesMatch, AnswersAreCached,
                              StandsIn, StallsWereTimeouts, CursorLeadsOn
  <2>3. CASE SearchTick
    <3>1. SearchShape'
          BY <2>3 DEF SearchTick, SearchWorks, SearchShape, SearchAssumption
    <3> QED BY <2>3, <3>1 DEF SearchTick, SearchWorks, CachedPagesMatch, AnswersAreCached,
                              StandsIn, StallsWereTimeouts, CursorLeadsOn
  <2> QED BY <1>1, <2>1, <2>2, <2>3 DEF SearchNext
<1>2. CASE UNCHANGED searchVars
  <2>1. SearchShape'
        BY <1>2 DEF searchVars, SearchWorks, SearchShape
  <2> QED BY <1>2, <2>1 DEF searchVars, SearchWorks, CachedPagesMatch, AnswersAreCached,
                            StandsIn, StallsWereTimeouts, CursorLeadsOn
<1> QED BY <1>1, <1>2

LEMMA SearchWorksSuffices == ASSUME SearchAssumption, SearchWorks PROVE SearchInv
<1>1. SearchTypeOK
  <2>1. ASSUME NEW c \in Searches
        PROVE  /\ calls[c].pc \in SearchSteps
               /\ calls[c].error \in {"none", "timeout", "down", "refused", "malformed"}
               /\ calls[c].freshness \in {"none", "live", "cached", "local"}
        BY CallNow DEF SearchCalls
  <2> QED BY <2>1 DEF SearchWorks, SearchShape, SearchTypeOK, SearchSteps, CacheEntries, Stalls
<1>2. RequestsAreBounded
      BY DEF SearchWorks, RequestsAreBounded, CallFits
<1>3. TimeoutIsReal
      BY DEF SearchWorks, TimeoutIsReal, CallTells
<1>4. AnsweredStandsIn
  <2>1. ASSUME NEW c \in Searches, calls[c].pc = "done", calls[c].owed,
               calls[c].kind \in ListingKinds, calls[c].error \in {"timeout", "down"}
        PROVE  FALSE
    <3>1. CallTells(calls[c], answered, timedOut)
          BY DEF SearchWorks
    <3>2. calls[c].pc = "stale"
          BY <2>1, <3>1 DEF CallTells
    <3> QED BY <2>1, <3>2
  <2> QED BY <2>1 DEF AnsweredStandsIn, Ended
<1> QED BY <1>1, <1>2, <1>3, <1>4 DEF SearchWorks, SearchInv

\* SearchesStaySound: for any calls, catalogs, page counts, walk length, cache and
\* cooldown times and any bounds, overlapping searches of the catalogs keep SearchInv
\* in every state: a search sends at most a request for each page up to its own and no
\* more than the walk allows, every remembered cursor leads to the next page, a timeout
\* reported without asking was a timeout of that kind and registry, and a listing that
\* was answered before stands in when the registry cannot answer.
THEOREM SearchesStaySound ==
    ASSUME SearchAssumption
    PROVE  SearchSpec => []SearchInv
<1>1. SearchInit => SearchWorks
      BY SearchStarts
<1>2. SearchWorks /\ [SearchNext]_searchVars => SearchWorks'
      BY SearchStep
<1>3. SearchWorks => SearchInv
      BY SearchWorksSuffices
<1> QED BY <1>1, <1>2, <1>3, PTL DEF SearchSpec

-----------------------------------------------------------------------------
(* CatalogIndex: for any catalogs, pages, settings and times, and wherever    *)
(* the sync is stopped, the copy is what a run read of its catalog.          *)

IndexRows == [base : Bases, at : 0 .. MaxTime]
StateDocs ==
    [base : Bases, cursor : Cursors, pages : Nat, started : -1 .. MaxTime, synced : -1 .. MaxTime]
SyncStages == {"resume", "wipe", "mark", "fetch", "write", "cursor", "finish", "record"}
SyncTasks ==
    [pc : SyncStages, base : Bases, cursor : Cursors, pages : Nat, fetched : 0 .. MaxPages,
     rows : SUBSET Servers, next : Cursors, at : -1 .. MaxTime]

\* The copy holds s as the sync that is recorded as begun wrote it.
Copied(s) == copy[s].base = indexState.base /\ copy[s].at >= indexState.started

(* Rows are of the recorded catalog; those as new as the sync begun were listed   *)
(* since it began, unless its stamps are out of order.                            *)
RowsMatch ==
    \A s \in Servers : copy[s] # NoRow =>
        /\ copy[s].base = indexState.base
        /\ InProgress /\ ~slipped /\ copy[s].at >= indexState.started => s \in listedSince

ListingsMatch ==
    /\ \A b \in Bases : Fixed \subseteq catalog[b]
    /\ InProgress => catalog[indexState.base] \subseteq listedSince

(* Before the state says that a sync has begun: what it was begun over.           *)
BeginsOver ==
    /\ sync.pc = "wipe" => sync.base # indexState.base
    /\ sync.pc \in {"resume", "wipe", "mark"} => sync.cursor = 0 /\ sync.pages = 0
    /\ sync.pc \in {"wipe", "mark"} => sync.at \in 0 .. MaxTime
    /\ sync.pc = "mark" => sync.base = indexState.base \/ \A s \in Servers : copy[s] = NoRow

PageInHand == IF sync.cursor = 0 THEN 1 ELSE sync.cursor

(* A sync under way stands where the state says, and what it is about to write    *)
(* or has written of a page is all that the page lists for good.                  *)
SyncMatches ==
    /\ sync.pc \in {"fetch", "write", "finish", "record"} =>
          InProgress /\ sync.base = indexState.base
    /\ sync.pc \in {"fetch", "write"} =>
          /\ sync.cursor = indexState.cursor /\ sync.pages = indexState.pages
          /\ sync.cursor = 0 => sync.pages = 0
    /\ sync.pc = "write" =>
          /\ sync.at \in 0 .. MaxTime /\ (slipped \/ sync.at >= indexState.started)
          /\ sync.fetched < MaxPages
          /\ sync.rows \subseteq listedSince
          /\ sync.next = IF PageInHand < LastPageOf THEN PageInHand + 1 ELSE 0
          /\ \A s \in Fixed : PageOf[s] = PageInHand =>
                s \in sync.rows \/ wiped \/ slipped \/ Copied(s)
    /\ sync.pc \in {"finish", "record"} => indexState.cursor = 0 /\ indexState.pages > 0
    /\ sync.pc = "record" =>
          \A s \in Servers : copy[s] # NoRow => copy[s].at >= indexState.started

IndexWorks ==
    /\ IndexTypeOK /\ CursorIsBehindRows
    /\ RowsMatch /\ ListingsMatch /\ BeginsOver /\ SyncMatches

LEMMA LastPage ==
    ASSUME IndexAssumption
    PROVE  LastPageOf \in Nat \ {0} /\ \A s \in Servers : PageOf[s] <= LastPageOf
<1> DEFINE P(p) == p \in {PageOf[s] : s \in Servers} /\ \A s \in Servers : PageOf[s] <= p
<1>1. PICK last \in Servers : \A s \in Servers : PageOf[s] <= PageOf[last]
      BY DEF IndexAssumption
<1>2. P(PageOf[last])
      BY <1>1
<1>3. \E p \in {PageOf[s] : s \in Servers} : \A s \in Servers : PageOf[s] <= p
      BY <1>2
<1>4. LastPageOf \in {PageOf[s] : s \in Servers} /\ \A s \in Servers : PageOf[s] <= LastPageOf
      BY <1>3 DEF LastPageOf
<1> QED BY <1>4 DEF IndexAssumption

\* The task and the document that a stage speaks of are there.
LEMMA SyncShape ==
    ASSUME IndexAssumption, IndexTypeOK
    PROVE  /\ sync.pc # "idle" => sync \in SyncTasks
           /\ sync \in SyncTasks => sync.pc # "idle" /\ sync # NoSync
           /\ indexState = NoState \/ indexState \in StateDocs
           /\ InProgress => indexState \in StateDocs
           /\ indexState.base \in Bases => indexState \in StateDocs
           /\ indexState.started \in -1 .. MaxTime /\ indexState.synced \in -1 .. MaxTime
           /\ copy \in [Servers -> IndexRows \cup {NoRow}]
           /\ today \in Nat /\ MaxTime \in Nat
<1>1. sync = NoSync \/ sync \in SyncTasks
      BY DEF IndexTypeOK, SyncTasks, SyncStages
<1>2. NoSync.pc = "idle" /\ \A u \in SyncTasks : u.pc # "idle"
      BY DEF NoSync, SyncTasks, SyncStages
<1>3. indexState = NoState \/ indexState \in StateDocs
      BY DEF IndexTypeOK, StateDocs
<1>4. NoState.started = -1 /\ NoState.synced = -1 /\ NoState.base = "none"
      BY DEF NoState, Never
<1>5. MaxTime \in Nat /\ today \in Nat
      BY DEF IndexAssumption, IndexTypeOK
<1>6. indexState.started \in -1 .. MaxTime /\ indexState.synced \in -1 .. MaxTime
      BY <1>3, <1>4, <1>5 DEF StateDocs
<1>7. copy \in [Servers -> IndexRows \cup {NoRow}]
      BY DEF IndexTypeOK, IndexRows
<1> QED BY <1>1, <1>2, <1>3, <1>4, <1>5, <1>6, <1>7 DEF InProgress, Never, IndexAssumption

\* A copied row, and the lack of one.
LEMMA RowShape ==
    ASSUME IndexAssumption, IndexTypeOK, NEW s \in Servers
    PROVE  /\ copy[s] # NoRow => copy[s].base \in Bases /\ copy[s].at \in 0 .. MaxTime
           /\ NoRow.base \notin Bases /\ NoRow.at = -1
           /\ copy[s].at \in -1 .. MaxTime
<1>1. copy[s] \in IndexRows \cup {NoRow}
      BY SyncShape
<1>2. NoRow.base = "none" /\ NoRow.at = -1
      BY DEF NoRow, Never
<1> QED BY <1>1, <1>2, SyncShape DEF IndexRows, IndexAssumption

LEMMA IndexStarts == ASSUME IndexAssumption, IndexInit PROVE IndexWorks
<1>1. IndexTypeOK
  <2>1. catalog \in [Bases -> SUBSET Servers]
        BY DEF IndexInit
  <2>2. 0 \in 0 .. MaxTime + Cooldown /\ 0 \in 0 .. MaxTime /\ 0 \in 0 .. MaxChanges
        BY DEF IndexAssumption
  <2> QED BY <2>1, <2>2 DEF IndexInit, IndexTypeOK
<1>2. ~InProgress
      BY DEF IndexInit, NoState, InProgress, Never
<1>3. CursorIsBehindRows /\ RowsMatch
      BY <1>2 DEF IndexInit, CursorIsBehindRows, RowsMatch
<1>4. ListingsMatch
      BY <1>2 DEF IndexInit, ListingsMatch
<1>5. BeginsOver /\ SyncMatches
      BY DEF IndexInit, NoSync, BeginsOver, SyncMatches
<1> QED BY <1>1, <1>3, <1>4, <1>5 DEF IndexWorks

LEMMA StartSyncWorks == ASSUME IndexAssumption, IndexWorks, StartSync PROVE IndexWorks'
<1>1. IndexTypeOK /\ configured \in Bases /\ today \in Nat
      BY SyncShape DEF IndexWorks, IndexTypeOK
<1>2. /\ sync'.pc = "resume" /\ sync'.base = configured
      /\ sync'.cursor = 0 /\ sync'.pages = 0 /\ sync'.at = -1
      BY DEF StartSync, NoSync, Never
<1>3. sync' \in SyncTasks
  <2>1. sync' = [pc |-> "resume", base |-> configured, cursor |-> 0, pages |-> 0, fetched |-> 0,
                 rows |-> {}, next |-> 0, at |-> Never]
        BY DEF StartSync, NoSync
  <2>2. MaxTime \in Nat /\ MaxPages \in Nat /\ LastPageOf \in Nat
        BY LastPage DEF IndexAssumption
  <2> QED BY <1>1, <2>1, <2>2 DEF SyncTasks, SyncStages, Cursors, Never
<1>4. IndexTypeOK'
      BY <1>1, <1>3 DEF StartSync, IndexTypeOK, SyncTasks, SyncStages
<1>6. BeginsOver'
      BY <1>2 DEF BeginsOver
<1>7. SyncMatches'
      BY <1>2 DEF StartSync, SyncMatches
<1>8. CursorIsBehindRows' /\ RowsMatch' /\ ListingsMatch'
      BY DEF StartSync, IndexWorks, CursorIsBehindRows, RowsMatch, ListingsMatch, InProgress, Has
<1> QED BY <1>4, <1>6, <1>7, <1>8 DEF IndexWorks

\* A step of the task alone.
LEMMA TaskStep ==
    ASSUME IndexAssumption, IndexWorks,
           UNCHANGED <<catalog, configured, copy, indexState, today, changes, listedSince, wiped>>,
           slipped' \in BOOLEAN, slipped => slipped',
           sync' = NoSync \/ sync' \in SyncTasks, retryAt' \in 0 .. MaxTime + Cooldown,
           BeginsOver', SyncMatches'
    PROVE  IndexWorks'
<1>1. IndexTypeOK'
      BY DEF IndexWorks, IndexTypeOK, SyncTasks, SyncStages
<1>2. CursorIsBehindRows' /\ RowsMatch' /\ ListingsMatch'
      BY DEF IndexWorks, CursorIsBehindRows, RowsMatch, ListingsMatch, InProgress, Has
<1> QED BY <1>1, <1>2 DEF IndexWorks

LEMMA ResumeOrBeginWorks == ASSUME IndexAssumption, IndexWorks, ResumeOrBegin PROVE IndexWorks'
<1>1. /\ IndexTypeOK /\ BeginsOver /\ sync.pc = "resume" /\ sync \in SyncTasks
      /\ retryAt' \in 0 .. MaxTime + Cooldown /\ today \in Nat /\ MaxTime \in Nat
      /\ slipped' = slipped /\ slipped \in BOOLEAN
      BY SyncShape DEF IndexWorks, IndexTypeOK, ResumeOrBegin
<1>2. sync.cursor = 0 /\ sync.pages = 0 /\ today \in 0 .. MaxTime
      BY <1>1 DEF BeginsOver, IndexTypeOK
<1>3. CASE ~Resumable(sync.base)
  <2> DEFINE to == IF indexState.base = sync.base THEN "mark" ELSE "wipe"
  <2>1. sync' = [sync EXCEPT !.pc = to, !.at = today]
        BY <1>3 DEF ResumeOrBegin
  <2>2. to \in {"mark", "wipe"}
        OBVIOUS
  <2>3. /\ to = "mark" => indexState.base = sync.base
        /\ to = "wipe" => indexState.base # sync.base
        OBVIOUS
  <2> HIDE DEF to
  <2>4. sync' \in SyncTasks
    <3>1. to \in SyncStages /\ today \in -1 .. MaxTime
          BY <1>1, <1>2, <2>2 DEF SyncStages
    <3> QED BY <1>1, <2>1, <3>1 DEF SyncTasks
  <2>5. /\ sync'.pc = to /\ sync'.at = today /\ sync'.base = sync.base
        /\ sync'.cursor = 0 /\ sync'.pages = 0
        BY <1>1, <1>2, <2>1 DEF SyncTasks
  <2>7. BeginsOver'
        BY <1>2, <2>2, <2>3, <2>5 DEF ResumeOrBegin, BeginsOver
  <2>8. SyncMatches'
        BY <2>2, <2>5 DEF SyncMatches
  <2> QED BY <1>1, <2>4, <2>7, <2>8, TaskStep DEF ResumeOrBegin
<1>4. CASE Resumable(sync.base)
  <2> DEFINE to == IF indexState.pages > 0 /\ indexState.cursor = 0 THEN "finish" ELSE "fetch"
  <2>1. sync' = [sync EXCEPT !.cursor = indexState.cursor, !.pages = indexState.pages, !.pc = to]
        BY <1>4 DEF ResumeOrBegin
  <2>2. indexState \in StateDocs /\ InProgress /\ indexState.base = sync.base
        BY <1>1, <1>4, SyncShape DEF Resumable
  <2>3. indexState.pages \in Nat /\ indexState.cursor \in Cursors
        BY <2>2 DEF StateDocs
  <2>4. /\ to \in {"finish", "fetch"}
        /\ to = "finish" => indexState.pages > 0 /\ indexState.cursor = 0
        /\ to = "fetch" => (indexState.cursor = 0 => indexState.pages = 0)
        BY <2>3
  <2> HIDE DEF to
  <2>5. sync' \in SyncTasks
    <3>1. to \in SyncStages
          BY <2>4 DEF SyncStages
    <3> QED BY <1>1, <2>1, <2>3, <3>1 DEF SyncTasks
  <2>6. /\ sync'.pc = to /\ sync'.base = sync.base
        /\ sync'.cursor = indexState.cursor /\ sync'.pages = indexState.pages
        BY <1>1, <2>1 DEF SyncTasks
  <2>7. BeginsOver'
        BY <2>4, <2>6 DEF BeginsOver
  <2>8. SyncMatches'
        BY <2>2, <2>4, <2>6 DEF ResumeOrBegin, SyncMatches, InProgress
  <2> QED BY <1>1, <2>5, <2>7, <2>8, TaskStep DEF ResumeOrBegin
<1> QED BY <1>3, <1>4

LEMMA StopWorks ==
    ASSUME IndexAssumption, IndexWorks, PauseSync \/ SyncFails \/ SyncCrash
    PROVE  IndexWorks'
<1>1. sync' = NoSync
      BY DEF PauseSync, SyncFails, SyncCrash
<1>2. UNCHANGED <<catalog, configured, copy, indexState, today, changes, listedSince, wiped, slipped>>
      BY DEF PauseSync, SyncFails, SyncCrash
<1>3. retryAt' \in 0 .. MaxTime + Cooldown
  <2>1. today \in 0 .. MaxTime /\ MaxTime \in Nat /\ Cooldown \in Nat
        BY DEF IndexWorks, IndexTypeOK, IndexAssumption
  <2>2. retryAt' = 0 \/ retryAt' = today + Cooldown
        BY DEF PauseSync, SyncFails, SyncCrash
  <2> QED BY <2>1, <2>2
<1>4. BeginsOver' /\ SyncMatches'
      BY <1>1 DEF NoSync, BeginsOver, SyncMatches
<1>5. slipped \in BOOLEAN
      BY DEF IndexWorks, IndexTypeOK
<1> QED BY <1>1, <1>2, <1>3, <1>4, <1>5, TaskStep

LEMMA WipeWorks == ASSUME IndexAssumption, IndexWorks, Wipe PROVE IndexWorks'
<1>1. /\ IndexTypeOK /\ BeginsOver /\ sync.pc = "wipe" /\ sync \in SyncTasks
      BY SyncShape DEF IndexWorks, Wipe
<1>2. sync' \in SyncTasks
  <2>1. "mark" \in SyncStages
        BY DEF SyncStages
  <2> QED BY <1>1, <2>1 DEF Wipe, SyncTasks
<1>3. /\ sync'.pc = "mark" /\ sync'.base = sync.base /\ sync'.at = sync.at
      /\ sync'.cursor = sync.cursor /\ sync'.pages = sync.pages
      BY <1>1 DEF Wipe, SyncTasks
<1>4. copy' = [s \in Servers |-> NoRow] /\ wiped' = TRUE
      BY DEF Wipe
<1>5. IndexTypeOK'
  <2>1. copy' \in [Servers -> [base : Bases, at : 0 .. MaxTime] \cup {NoRow}]
        BY <1>4
  <2> QED BY <1>1, <1>2, <1>4, <2>1 DEF Wipe, IndexTypeOK, SyncTasks, SyncStages
<1>6. CursorIsBehindRows' /\ RowsMatch'
      BY <1>4 DEF CursorIsBehindRows, RowsMatch
<1>7. ListingsMatch'
      BY DEF Wipe, IndexWorks, ListingsMatch, InProgress
<1>8. BeginsOver'
      BY <1>1, <1>3, <1>4 DEF Wipe, BeginsOver
<1>9. SyncMatches'
      BY <1>3 DEF SyncMatches
<1> QED BY <1>5, <1>6, <1>7, <1>8, <1>9 DEF IndexWorks

LEMMA MarkBegunWorks == ASSUME IndexAssumption, IndexWorks, MarkBegun PROVE IndexWorks'
<1>1. /\ IndexTypeOK /\ BeginsOver /\ sync.pc = "mark" /\ sync \in SyncTasks
      /\ sync.base \in Bases /\ today \in Nat /\ MaxTime \in Nat
      BY SyncShape DEF IndexWorks, MarkBegun, SyncTasks
<1>2. sync.cursor = 0 /\ sync.pages = 0 /\ sync.at \in 0 .. MaxTime
      BY <1>1 DEF BeginsOver
<1>3. /\ indexState'.base = sync.base /\ indexState'.cursor = 0 /\ indexState'.pages = 0
      /\ indexState'.started = sync.at
      BY DEF MarkBegun, Begun
<1>4. indexState' \in StateDocs
  <2> DEFINE synced == IF indexState.base = sync.base THEN indexState.synced ELSE Never
  <2>1. synced \in -1 .. MaxTime
        BY <1>1, SyncShape DEF Never
  <2>2. 0 \in Cursors /\ sync.at \in -1 .. MaxTime
        BY <1>1, <1>2, LastPage DEF Cursors
  <2>3. indexState' = [base |-> sync.base, cursor |-> 0, pages |-> 0, started |-> sync.at,
                       synced |-> synced]
        BY DEF MarkBegun, Begun
  <2> HIDE DEF synced
  <2> QED BY <1>1, <2>1, <2>2, <2>3 DEF StateDocs
<1>5. sync' \in SyncTasks
  <2>1. "fetch" \in SyncStages /\ Never \in -1 .. MaxTime
        BY <1>1 DEF SyncStages, Never
  <2> QED BY <1>1, <2>1 DEF MarkBegun, SyncTasks
<1>6. /\ sync'.pc = "fetch" /\ sync'.base = sync.base
      /\ sync'.cursor = sync.cursor /\ sync'.pages = sync.pages
      BY <1>1 DEF MarkBegun, SyncTasks
<1>7. /\ catalog \in [Bases -> SUBSET Servers]
      /\ listedSince' = catalog[sync.base] /\ catalog' = catalog
      BY <1>1 DEF MarkBegun, IndexTypeOK
<1>8. IndexTypeOK'
  <2>1. listedSince' \subseteq Servers /\ slipped' \in BOOLEAN
        BY <1>1, <1>7 DEF MarkBegun
  <2> QED BY <1>1, <1>4, <1>5, <2>1 DEF MarkBegun, IndexTypeOK, StateDocs, SyncTasks, SyncStages
<1>9. CursorIsBehindRows'
      BY <1>3 DEF CursorIsBehindRows
<1>10. InProgress'
      BY <1>2, <1>3 DEF InProgress, Never
<1>11. RowsMatch'
  <2>1. ASSUME NEW s \in Servers, copy'[s] # NoRow
        PROVE  copy'[s].base = indexState'.base
    <3>1. copy[s] # NoRow /\ copy' = copy
          BY <2>1 DEF MarkBegun
    <3>2. sync.base = indexState.base
          BY <1>1, <3>1 DEF BeginsOver
    <3> QED BY <1>3, <3>1, <3>2 DEF IndexWorks, RowsMatch
  <2>2. ASSUME NEW s \in Servers, copy'[s].at >= indexState'.started PROVE slipped'
        BY <1>3, <2>2 DEF MarkBegun
  <2> QED BY <2>1, <2>2 DEF RowsMatch
<1>12. ListingsMatch'
  <2>1. catalog'[indexState'.base] \subseteq listedSince'
        BY <1>3, <1>7
  <2> QED BY <2>1 DEF MarkBegun, IndexWorks, ListingsMatch
<1>13. BeginsOver' /\ SyncMatches'
      BY <1>2, <1>3, <1>6, <1>10 DEF BeginsOver, SyncMatches
<1> QED BY <1>8, <1>9, <1>11, <1>12, <1>13 DEF IndexWorks

LEMMA FetchWorks == ASSUME IndexAssumption, IndexWorks, Fetch PROVE IndexWorks'
<1>1. /\ IndexTypeOK /\ ListingsMatch /\ SyncMatches /\ sync.pc = "fetch" /\ sync \in SyncTasks
      /\ sync.base \in Bases /\ today \in Nat /\ MaxTime \in Nat /\ today \in 0 .. MaxTime
      /\ retryAt' \in 0 .. MaxTime + Cooldown /\ catalog \in [Bases -> SUBSET Servers]
      BY SyncShape DEF IndexWorks, IndexTypeOK, Fetch, SyncTasks
<1>2. /\ InProgress /\ sync.base = indexState.base
      /\ sync.cursor = indexState.cursor /\ sync.pages = indexState.pages
      /\ sync.cursor = 0 => sync.pages = 0
      BY <1>1 DEF SyncMatches
<1> DEFINE p == PageInHand
           to == IF p < LastPageOf THEN p + 1 ELSE 0
           listed == OnPage(sync.base, p)
<1>3. sync' = [sync EXCEPT !.pc = "write", !.rows = listed, !.at = today, !.next = to]
      BY DEF Fetch, PageInHand
<1>4. sync.fetched < MaxPages
      BY DEF Fetch
<1>5. p \in Nat \ {0} /\ to \in Cursors /\ today \in -1 .. MaxTime
  <2>1. sync.cursor \in Cursors /\ LastPageOf \in Nat \ {0}
        BY <1>1, LastPage DEF SyncTasks
  <2> QED BY <1>1, <2>1 DEF PageInHand, Cursors
<1>6. /\ listed \subseteq Servers /\ listed \subseteq listedSince
      /\ \A s \in Fixed : PageOf[s] = p => s \in listed
  <2>1. catalog[sync.base] \subseteq listedSince /\ Fixed \subseteq catalog[sync.base]
        BY <1>1, <1>2 DEF ListingsMatch
  <2> QED BY <1>1, <2>1 DEF OnPage
<1> HIDE DEF p, to, listed
<1>7. sync' \in SyncTasks
  <2>1. "write" \in SyncStages
        BY DEF SyncStages
  <2> QED BY <1>1, <1>3, <1>5, <1>6, <2>1 DEF SyncTasks
<1>8. /\ sync'.pc = "write" /\ sync'.base = sync.base /\ sync'.cursor = sync.cursor
      /\ sync'.pages = sync.pages /\ sync'.fetched = sync.fetched /\ sync'.rows = listed
      /\ sync'.at = today /\ sync'.next = to
      BY <1>1, <1>3 DEF SyncTasks
<1>9. PageInHand' = p
      BY <1>8 DEF PageInHand, p
<1>10. /\ slipped' \in BOOLEAN
       /\ slipped => slipped'
       /\ today < indexState.started => slipped'
       BY DEF Fetch
<1>11. slipped' \/ today >= indexState.started
  <2>1. today < indexState.started \/ today >= indexState.started
        BY <1>1, SyncShape
  <2> QED BY <1>10, <2>1
<1>12. /\ indexState' = indexState /\ today' = today /\ listedSince' = listedSince
       /\ InProgress' = InProgress
       BY DEF Fetch, InProgress
<1>13. SyncMatches'
      BY <1>1, <1>2, <1>4, <1>6, <1>8, <1>9, <1>11, <1>12 DEF SyncMatches, to
<1>14. BeginsOver'
      BY <1>8 DEF BeginsOver
<1> QED BY <1>1, <1>7, <1>10, <1>13, <1>14, TaskStep DEF Fetch

LEMMA WriteRowsWorks == ASSUME IndexAssumption, IndexWorks, WriteRows PROVE IndexWorks'
<1>1. /\ IndexTypeOK /\ RowsMatch /\ SyncMatches /\ sync.pc = "write" /\ sync \in SyncTasks
      /\ sync.base \in Bases /\ today \in Nat /\ MaxTime \in Nat /\ today \in 0 .. MaxTime
      BY SyncShape DEF IndexWorks, IndexTypeOK, WriteRows, SyncTasks
<1>2. /\ InProgress /\ sync.base = indexState.base
      /\ slipped \/ sync.at >= indexState.started
      /\ sync.rows \subseteq listedSince
      BY <1>1 DEF SyncMatches
<1>3. sync.at \in 0 .. MaxTime
      BY <1>1 DEF SyncMatches
<1> DEFINE written == [base |-> sync.base, at |-> sync.at]
<1>4. PICK chunk \in SUBSET sync.rows :
         /\ copy' = [s \in Servers |-> IF s \in chunk THEN written ELSE copy[s]]
         /\ sync' = [sync EXCEPT !.rows = @ \ chunk]
      BY DEF WriteRows
<1>5. written \in IndexRows /\ written.base = sync.base /\ written.at = sync.at /\ written # NoRow
      BY <1>1, <1>3 DEF IndexRows, NoRow, Never
<1> HIDE DEF written
<1>6. \A s \in Servers : copy'[s] = IF s \in chunk THEN written ELSE copy[s]
      BY <1>4
<1>7. sync' \in SyncTasks
      BY <1>1, <1>4 DEF SyncTasks
<1>8. /\ sync'.pc = "write" /\ sync'.base = sync.base /\ sync'.cursor = sync.cursor
      /\ sync'.pages = sync.pages /\ sync'.fetched = sync.fetched
      /\ sync'.rows = sync.rows \ chunk /\ sync'.at = sync.at /\ sync'.next = sync.next
      BY <1>1, <1>4 DEF SyncTasks
<1>9. /\ indexState' = indexState /\ today' = today /\ listedSince' = listedSince
      /\ wiped' = wiped /\ slipped' = slipped /\ InProgress' = InProgress /\ catalog' = catalog
      BY DEF WriteRows, InProgress
<1>10. IndexTypeOK'
  <2>1. copy' \in [Servers -> IndexRows \cup {NoRow}]
        BY <1>1, <1>4, <1>5, SyncShape
  <2> QED BY <1>1, <1>7, <2>1 DEF WriteRows, IndexTypeOK, IndexRows, SyncTasks, SyncStages
<1>11. ASSUME ~slipped, NEW s \in Servers, Copied(s) \/ s \in chunk
       PROVE  copy'[s].base = indexState.base /\ copy'[s].at >= indexState.started
       BY <1>2, <1>5, <1>6, <1>11 DEF Copied
<1>12. CursorIsBehindRows'
  <2>1. ASSUME ~wiped, ~slipped, NEW s \in Fixed
        PROVE  \/ indexState.cursor = 0 /\ indexState.pages = 0
               \/ indexState.cursor # 0 /\ PageOf[s] >= indexState.cursor
               \/ Copied(s)
        BY <1>2, <2>1 DEF IndexWorks, CursorIsBehindRows, Has, Copied
  <2>2. Fixed \subseteq Servers
        BY DEF IndexAssumption
  <2> QED BY <1>9, <1>11, <2>1, <2>2 DEF CursorIsBehindRows, Has
<1>13. RowsMatch'
  <2>1. ASSUME NEW s \in Servers, copy'[s] # NoRow
        PROVE  /\ copy'[s].base = indexState.base
               /\ ~slipped /\ copy'[s].at >= indexState.started => s \in listedSince
    <3>1. CASE s \in chunk
          BY <1>2, <1>4, <1>5, <1>6, <3>1
    <3>2. CASE s \notin chunk
          BY <1>1, <1>2, <1>6, <2>1, <3>2 DEF RowsMatch
    <3> QED BY <3>1, <3>2
  <2> QED BY <1>2, <1>9, <2>1 DEF RowsMatch
<1>14. ListingsMatch'
       BY <1>9 DEF IndexWorks, ListingsMatch
<1>15. BeginsOver'
       BY <1>8 DEF BeginsOver
<1>16. SyncMatches'
  <2>1. PageInHand' = PageInHand
        BY <1>8 DEF PageInHand
  <2>2. ASSUME NEW s \in Fixed, PageOf[s] = PageInHand
        PROVE  s \in sync'.rows \/ wiped \/ slipped \/ Copied(s)'
    <3>1. s \in Servers
          BY DEF IndexAssumption
    <3>2. s \in sync.rows \/ wiped \/ slipped \/ Copied(s)
          BY <1>1, <2>2 DEF SyncMatches
    <3> QED BY <1>8, <1>9, <1>11, <3>1, <3>2 DEF Copied
  <2> QED BY <1>1, <1>2, <1>3, <1>8, <1>9, <2>1, <2>2 DEF SyncMatches
<1> QED BY <1>10, <1>12, <1>13, <1>14, <1>15, <1>16 DEF IndexWorks

LEMMA StoreCursorWorks == ASSUME IndexAssumption, IndexWorks, StoreCursor PROVE IndexWorks'
<1>1. /\ IndexTypeOK /\ SyncMatches /\ sync.pc = "write" /\ sync \in SyncTasks
      /\ sync.rows = {} /\ MaxTime \in Nat
      BY SyncShape DEF IndexWorks, StoreCursor, MayAdvance
<1>2. /\ InProgress /\ sync.base = indexState.base /\ sync.fetched < MaxPages
      /\ sync.cursor = indexState.cursor /\ sync.pages = indexState.pages
      /\ sync.cursor = 0 => sync.pages = 0
      /\ sync.next = IF PageInHand < LastPageOf THEN PageInHand + 1 ELSE 0
      /\ \A s \in Fixed : PageOf[s] = PageInHand => wiped \/ slipped \/ Copied(s)
      BY <1>1 DEF SyncMatches
<1>3. indexState \in StateDocs
      BY <1>1, <1>2, SyncShape
<1> DEFINE n == sync.pages + 1
           f == sync.fetched + 1
           to == IF sync.next = 0 THEN "finish" ELSE "fetch"
<1>4. /\ n \in Nat /\ n > 0 /\ f \in 0 .. MaxPages /\ sync.next \in Cursors
      /\ sync.cursor \in Cursors
      BY <1>1, <1>2 DEF SyncTasks, IndexAssumption
<1>5. /\ indexState' = [indexState EXCEPT !.cursor = sync.next, !.pages = n]
      /\ sync' = [sync EXCEPT !.rows = {}, !.cursor = sync.next, !.pages = n, !.fetched = f,
                              !.at = Never, !.next = 0, !.pc = to]
      BY <1>1 DEF StoreCursor
<1>6. to \in SyncStages
      BY DEF SyncStages
<1>7. /\ to = "finish" => sync.next = 0
      /\ to # "finish" => to = "fetch" /\ sync.next # 0
      OBVIOUS
<1> HIDE DEF n, f, to
<1>8. indexState' \in StateDocs
      BY <1>3, <1>4, <1>5 DEF StateDocs
<1>9. /\ indexState'.base = indexState.base /\ indexState'.started = indexState.started
      /\ indexState'.cursor = sync.next /\ indexState'.pages = n
      BY <1>3, <1>5 DEF StateDocs
<1>10. sync' \in SyncTasks
  <2>1. Never \in -1 .. MaxTime /\ 0 \in Cursors
        BY <1>1, LastPage DEF Never, Cursors
  <2> QED BY <1>1, <1>4, <1>5, <1>6, <2>1 DEF SyncTasks
<1>11. /\ sync'.pc = to /\ sync'.base = sync.base /\ sync'.cursor = sync.next /\ sync'.pages = n
       BY <1>1, <1>5 DEF SyncTasks
<1>12. /\ copy' = copy /\ today' = today /\ listedSince' = listedSince /\ wiped' = wiped
       /\ slipped' = slipped /\ catalog' = catalog /\ InProgress'
       BY <1>2, <1>9 DEF StoreCursor, InProgress
<1>13. IndexTypeOK'
       BY <1>1, <1>8, <1>10 DEF StoreCursor, IndexTypeOK, StateDocs, SyncTasks, SyncStages
<1>14. CursorIsBehindRows'
  <2>1. ASSUME ~wiped, ~slipped, NEW s \in Fixed
        PROVE  (sync.next # 0 /\ PageOf[s] >= sync.next) \/ Copied(s)
    <3>1. /\ s \in Servers /\ PageOf[s] \in Nat \ {0} /\ PageOf[s] <= LastPageOf
          /\ LastPageOf \in Nat /\ sync.cursor \in Nat
          BY <1>4, LastPage DEF IndexAssumption, Cursors
    <3>2. \/ sync.cursor = 0
          \/ sync.cursor # 0 /\ PageOf[s] >= sync.cursor
          \/ Copied(s)
          BY <1>2, <2>1 DEF IndexWorks, CursorIsBehindRows, Has, Copied
    <3>3. PageOf[s] >= PageInHand \/ Copied(s)
          BY <3>1, <3>2 DEF PageInHand
    <3>4. CASE PageOf[s] = PageInHand
          BY <1>2, <2>1, <3>4
    <3>5. CASE PageOf[s] > PageInHand
          BY <1>2, <3>1, <3>5 DEF PageInHand
    <3> QED BY <3>1, <3>3, <3>4, <3>5 DEF PageInHand
  <2> QED BY <1>9, <1>12, <2>1 DEF CursorIsBehindRows, Has, Copied
<1>15. RowsMatch'
       BY <1>2, <1>9, <1>12 DEF IndexWorks, RowsMatch
<1>16. ListingsMatch'
       BY <1>2, <1>9, <1>12 DEF IndexWorks, ListingsMatch
<1>17. BeginsOver'
       BY <1>7, <1>11 DEF BeginsOver
<1>18. SyncMatches'
       BY <1>2, <1>4, <1>7, <1>9, <1>11, <1>12 DEF SyncMatches
<1> QED BY <1>13, <1>14, <1>15, <1>16, <1>17, <1>18 DEF IndexWorks

LEMMA DropUnseenWorks == ASSUME IndexAssumption, IndexWorks, DropUnseen PROVE IndexWorks'
<1>1. /\ IndexTypeOK /\ RowsMatch /\ SyncMatches /\ sync.pc = "finish" /\ sync \in SyncTasks
      /\ today \in 0 .. MaxTime /\ today \in Nat /\ MaxTime \in Nat
      BY SyncShape DEF IndexWorks, IndexTypeOK, DropUnseen
<1>2. /\ InProgress /\ sync.base = indexState.base
      /\ indexState.cursor = 0 /\ indexState.pages > 0
      BY <1>1 DEF SyncMatches
<1>3. indexState.started \in Int /\ indexState.pages \in Nat
      BY <1>1, <1>2, SyncShape DEF StateDocs
<1>4. copy' = [s \in Servers |-> IF Unseen(s) THEN NoRow ELSE copy[s]]
      BY DEF DropUnseen
<1>5. sync' \in SyncTasks
  <2>1. "record" \in SyncStages /\ today \in -1 .. MaxTime
        BY <1>1 DEF SyncStages
  <2> QED BY <1>1, <2>1 DEF DropUnseen, SyncTasks
<1>6. sync'.pc = "record" /\ sync'.base = sync.base /\ sync'.at = today
      BY <1>1 DEF DropUnseen, SyncTasks
<1>7. /\ indexState' = indexState /\ today' = today /\ listedSince' = listedSince
      /\ wiped' = wiped /\ slipped' = slipped /\ InProgress' = InProgress /\ catalog' = catalog
      BY DEF DropUnseen, InProgress
<1>8. ASSUME NEW s \in Servers, copy'[s] # NoRow
      PROVE  copy'[s] = copy[s] /\ copy[s] # NoRow /\ copy[s].at >= indexState.started
  <2>1. copy'[s] = copy[s] /\ ~Unseen(s)
        BY <1>4, <1>8
  <2>2. copy[s].at \in Int
        BY <1>1, RowShape
  <2> QED BY <1>3, <1>8, <2>1, <2>2 DEF Unseen
<1>9. ASSUME NEW s \in Servers, Copied(s) PROVE copy'[s] = copy[s]
  <2>1. copy[s].at \in Int
        BY <1>1, RowShape
  <2> QED BY <1>3, <1>4, <1>9, <2>1 DEF Copied, Unseen
<1>10. IndexTypeOK'
  <2>1. copy' \in [Servers -> IndexRows \cup {NoRow}]
        BY <1>1, <1>4, SyncShape
  <2> QED BY <1>1, <1>5, <2>1 DEF DropUnseen, IndexTypeOK, IndexRows, SyncTasks, SyncStages
<1>11. CursorIsBehindRows'
  <2>1. ASSUME ~wiped, ~slipped, NEW s \in Fixed PROVE Copied(s) /\ s \in Servers
        BY <1>2, <1>3, <2>1 DEF IndexWorks, CursorIsBehindRows, Has, Copied, IndexAssumption
  <2> QED BY <1>7, <1>9, <2>1 DEF CursorIsBehindRows, Has, Copied
<1>12. RowsMatch'
       BY <1>1, <1>2, <1>7, <1>8 DEF RowsMatch
<1>13. ListingsMatch'
       BY <1>7 DEF IndexWorks, ListingsMatch
<1>14. BeginsOver'
       BY <1>6 DEF BeginsOver
<1>15. SyncMatches'
  <2>1. ASSUME NEW s \in Servers, copy'[s] # NoRow
        PROVE  copy'[s].at >= indexState.started
        BY <1>8, <2>1
  <2> QED BY <1>1, <1>2, <1>6, <1>7, <2>1 DEF SyncMatches
<1> QED BY <1>10, <1>11, <1>12, <1>13, <1>14, <1>15 DEF IndexWorks

\* What is recorded as finished is whole.
LEMMA RecordsWhole ==
    ASSUME IndexAssumption, IndexWorks, RecordFinished, ~wiped
    PROVE  /\ \A s \in Servers : copy'[s] # NoRow => copy'[s].base = indexState'.base
           /\ ~slipped =>
                /\ \A s \in Fixed : copy'[s] # NoRow
                /\ \A s \in Servers : copy'[s] # NoRow => s \in listedSince
<1>1. /\ SyncMatches /\ RowsMatch /\ sync.pc = "record" /\ copy' = copy
      BY DEF IndexWorks, RecordFinished
<1>2. /\ InProgress /\ indexState.cursor = 0 /\ indexState.pages > 0
      /\ \A s \in Servers : copy[s] # NoRow => copy[s].at >= indexState.started
      BY <1>1 DEF SyncMatches
<1>3. indexState \in StateDocs
      BY <1>2, SyncShape DEF IndexWorks
<1>4. indexState'.base = indexState.base
      BY <1>3 DEF RecordFinished, StateDocs
<1>5. ASSUME ~slipped, NEW s \in Fixed PROVE copy[s] # NoRow
  <2>1. copy[s].base = indexState.base /\ indexState.base \in Bases
        BY <1>2, <1>3, <1>5 DEF IndexWorks, CursorIsBehindRows, Has, StateDocs
  <2> QED BY <2>1 DEF NoRow, IndexAssumption
<1>6. \A s \in Servers :
         copy[s] # NoRow => copy[s].base = indexState.base /\ (~slipped => s \in listedSince)
      BY <1>1, <1>2 DEF RowsMatch
<1> QED BY <1>1, <1>4, <1>5, <1>6

LEMMA RecordFinishedWorks ==
    ASSUME IndexAssumption, IndexWorks, RecordFinished
    PROVE  IndexWorks'
<1>1. /\ IndexTypeOK /\ SyncMatches /\ RowsMatch /\ sync.pc = "record" /\ sync \in SyncTasks
      /\ sync' = NoSync /\ MaxTime \in Nat /\ sync.at \in -1 .. MaxTime
      BY SyncShape DEF IndexWorks, RecordFinished, SyncTasks
<1>2. InProgress
      BY <1>1 DEF SyncMatches
<1>3. indexState \in StateDocs
      BY <1>1, <1>2, SyncShape
<1>4. indexState' \in StateDocs
  <2>1. 0 \in Cursors /\ Never \in -1 .. MaxTime
        BY <1>1, LastPage DEF Cursors, Never
  <2> QED BY <1>1, <1>3, <2>1 DEF RecordFinished, StateDocs
<1>5. /\ indexState'.base = indexState.base /\ indexState'.started = Never
      /\ indexState'.synced = sync.at
      BY <1>3 DEF RecordFinished, StateDocs
<1>6. ~InProgress' /\ copy' = copy /\ today' = today /\ catalog' = catalog
      BY <1>5 DEF InProgress, RecordFinished
<1>7. IndexTypeOK'
  <2>1. 0 \in 0 .. MaxTime + Cooldown
        BY DEF IndexAssumption
  <2> QED BY <1>1, <1>4, <2>1 DEF RecordFinished, IndexTypeOK, StateDocs
<1>8. CursorIsBehindRows' /\ ListingsMatch'
      BY <1>6 DEF CursorIsBehindRows, IndexWorks, ListingsMatch
<1>9. RowsMatch'
      BY <1>1, <1>5, <1>6 DEF RowsMatch
<1>10. BeginsOver' /\ SyncMatches'
       BY <1>1 DEF NoSync, BeginsOver, SyncMatches
<1> QED BY <1>7, <1>8, <1>9, <1>10 DEF IndexWorks

LEMMA SetBaseWorks == ASSUME IndexAssumption, IndexWorks, SetBase PROVE IndexWorks'
<1>1. IndexTypeOK'
  <2>1. changes' \in 0 .. MaxChanges /\ configured' \in Bases
        BY DEF SetBase, IndexWorks, IndexTypeOK, IndexAssumption
  <2> QED BY <2>1 DEF SetBase, IndexWorks, IndexTypeOK
<1>2. UNCHANGED <<catalog, copy, indexState, sync, today, listedSince, wiped, slipped>>
      BY DEF SetBase
<1> QED BY <1>1, <1>2 DEF IndexWorks, CursorIsBehindRows, RowsMatch, ListingsMatch, BeginsOver,
                          SyncMatches, InProgress, Has, Copied, PageInHand

LEMMA RelistWorks == ASSUME IndexAssumption, IndexWorks, Relist PROVE IndexWorks'
<1>1. PICK b \in Bases, s \in Servers \ Fixed :
         /\ catalog' = [catalog EXCEPT ![b] = IF s \in @ THEN @ \ {s} ELSE @ \cup {s}]
         /\ listedSince' = IF b = indexState.base THEN listedSince \cup catalog'[b]
                           ELSE listedSince
      BY DEF Relist
<1>2. catalog \in [Bases -> SUBSET Servers] /\ listedSince \subseteq Servers
      BY DEF IndexWorks, IndexTypeOK
<1>3. catalog' \in [Bases -> SUBSET Servers]
      BY <1>1, <1>2
<1>4. listedSince \subseteq listedSince' /\ listedSince' \subseteq Servers
      BY <1>1, <1>2, <1>3
<1>5. IndexTypeOK'
  <2>1. changes' \in 0 .. MaxChanges
        BY DEF Relist, IndexWorks, IndexTypeOK, IndexAssumption
  <2> QED BY <1>3, <1>4, <2>1 DEF Relist, IndexWorks, IndexTypeOK
<1>6. UNCHANGED <<configured, copy, indexState, sync, today, wiped, slipped>>
      BY DEF Relist
<1>7. ListingsMatch'
  <2>1. \A a \in Bases : Fixed \subseteq catalog'[a]
    <3>1. \A a \in Bases : Fixed \subseteq catalog[a]
          BY DEF IndexWorks, ListingsMatch
    <3> QED BY <1>1, <1>2, <3>1
  <2>2. ASSUME InProgress
        PROVE  catalog'[indexState.base] \subseteq listedSince'
    <3>1. indexState.base \in Bases /\ catalog[indexState.base] \subseteq listedSince
          BY <2>2, SyncShape DEF IndexWorks, ListingsMatch, StateDocs
    <3> QED BY <1>1, <1>2, <1>4, <3>1
  <2> QED BY <1>6, <2>1, <2>2 DEF IndexWorks, ListingsMatch, InProgress
<1>8. CursorIsBehindRows' /\ BeginsOver'
      BY <1>6 DEF IndexWorks, CursorIsBehindRows, BeginsOver, InProgress, Has
<1>9. RowsMatch'
      BY <1>4, <1>6 DEF IndexWorks, RowsMatch, InProgress
<1>10. SyncMatches'
  <2>1. sync.pc = "write" => sync.rows \subseteq listedSince'
        BY <1>4 DEF IndexWorks, SyncMatches
  <2> QED BY <1>6, <2>1 DEF IndexWorks, SyncMatches, InProgress, Copied, PageInHand
<1> QED BY <1>5, <1>7, <1>8, <1>9, <1>10 DEF IndexWorks

\* What the clock shows is no part of what holds, however it moves.
LEMMA ClockWorks ==
    ASSUME IndexAssumption, IndexWorks, Tick \/ ClockBack PROVE IndexWorks'
<1>1. UNCHANGED <<catalog, configured, copy, indexState, sync, listedSince, wiped, slipped>>
      BY DEF Tick, ClockBack
<1>2. /\ today \in 0 .. MaxTime /\ retryAt \in 0 .. MaxTime + Cooldown
      /\ changes \in 0 .. MaxChanges
      /\ MaxTime \in Nat /\ Cooldown \in Nat /\ MaxChanges \in Nat
      BY DEF IndexWorks, IndexTypeOK, IndexAssumption
<1>3. /\ today' \in 0 .. MaxTime /\ retryAt' \in 0 .. MaxTime + Cooldown
      /\ changes' \in 0 .. MaxChanges
  <2>1. CASE Tick
        BY <1>2, <2>1 DEF Tick
  <2>2. CASE ClockBack
    <3>1. PICK t \in 0 .. today - 1 :
             today' = t /\ retryAt' = IF retryAt > today THEN t + (retryAt - today) ELSE 0
          BY <2>2 DEF ClockBack
    <3>2. changes < MaxChanges /\ changes' = changes + 1
          BY <2>2 DEF ClockBack
    <3> QED BY <1>2, <3>1, <3>2
  <2> QED BY <2>1, <2>2
<1>4. IndexTypeOK'
      BY <1>1, <1>3 DEF IndexWorks, IndexTypeOK
<1> QED BY <1>1, <1>4 DEF IndexWorks, CursorIsBehindRows, RowsMatch, ListingsMatch, BeginsOver,
                          SyncMatches, InProgress, Has, Copied, PageInHand

LEMMA IndexStep ==
    ASSUME IndexAssumption, IndexWorks, [IndexNext]_indexVars PROVE IndexWorks'
<1>1. CASE IndexNext
      BY <1>1, StartSyncWorks, ResumeOrBeginWorks, WipeWorks, MarkBegunWorks, FetchWorks,
         StopWorks, WriteRowsWorks, StoreCursorWorks, DropUnseenWorks, RecordFinishedWorks,
         SetBaseWorks, RelistWorks, ClockWorks DEF IndexNext, SyncStep
<1>2. CASE UNCHANGED indexVars
  <2>1. UNCHANGED <<catalog, configured, copy, indexState, sync, retryAt, today, changes,
                    listedSince, wiped, slipped>>
        BY <1>2 DEF indexVars
  <2>2. IndexTypeOK'
        BY <2>1 DEF IndexWorks, IndexTypeOK
  <2> QED BY <2>1, <2>2 DEF IndexWorks, CursorIsBehindRows, RowsMatch, ListingsMatch, BeginsOver,
                            SyncMatches, InProgress, Has, Copied, PageInHand
<1> QED BY <1>1, <1>2

\* Only the last step of a sync says that it has finished.
LEMMA FinishesWhole ==
    ASSUME IndexAssumption, IndexWorks, [IndexNext]_indexVars,
           InProgress, indexState'.started = Never, ~wiped
    PROVE  /\ \A s \in Servers : copy'[s] # NoRow => copy'[s].base = indexState'.base
           /\ ~slipped =>
                /\ \A s \in Fixed : copy'[s] # NoRow
                /\ \A s \in Servers : copy'[s] # NoRow => s \in listedSince
<1>1. CASE RecordFinished
      BY <1>1, RecordsWhole
<1>2. CASE MarkBegun
  <2>1. BeginsOver /\ sync.pc = "mark" /\ MaxTime \in Nat
        BY <1>2, SyncShape DEF IndexWorks, MarkBegun
  <2>2. sync.at \in 0 .. MaxTime
        BY <2>1 DEF BeginsOver
  <2>3. indexState'.started = sync.at
        BY <1>2 DEF MarkBegun, Begun
  <2> QED BY <2>1, <2>2, <2>3 DEF Never
<1>3. CASE StoreCursor
  <2>1. indexState \in StateDocs
        BY SyncShape DEF IndexWorks
  <2>2. indexState'.started = indexState.started
        BY <1>3, <2>1 DEF StoreCursor, StateDocs
  <2> QED BY <2>2 DEF InProgress
<1>4. CASE indexState' = indexState
      BY <1>4 DEF InProgress
<1>5. RecordFinished \/ MarkBegun \/ StoreCursor \/ indexState' = indexState
      BY DEF IndexNext, SyncStep, indexVars, StartSync, ResumeOrBegin, Wipe, Fetch, PauseSync,
             WriteRows, DropUnseen, SyncFails, SyncCrash, SetBase, Relist, Tick, ClockBack
<1> QED BY <1>1, <1>2, <1>3, <1>4, <1>5

\* CopyIsWhole: for any catalogs, numbers of pages, page limits and times, with failures
\* and crashes between any two writes, the settings and the catalogs changing meanwhile
\* and the clock put back at any time, IndexKeeps: what lies before the cursor of an
\* unfinished sync is in the copy, and the step that says a sync has finished says it
\* over the rows of one catalog - whole, and without servers that were gone before,
\* unless the clock put the sync's stamps out of order.
THEOREM CopyIsWhole == ASSUME IndexAssumption PROVE IndexSpec => IndexKeeps
<1>1. IndexInit => IndexWorks
      BY IndexStarts
<1>2. IndexWorks /\ [IndexNext]_indexVars => IndexWorks'
      BY IndexStep
<1>3. IndexWorks => IndexInv
      BY DEF IndexWorks, IndexInv
<1>4. IndexWorks /\ [IndexNext]_indexVars =>
         [(InProgress /\ indexState'.started = Never /\ ~wiped) =>
            /\ \A s \in Servers : copy'[s] # NoRow => copy'[s].base = indexState'.base
            /\ ~slipped =>
                 /\ \A s \in Fixed : copy'[s] # NoRow
                 /\ \A s \in Servers : copy'[s] # NoRow => s \in listedSince
         ]_indexVars
      BY FinishesWhole
<1> QED BY <1>1, <1>2, <1>3, <1>4, PTL DEF IndexSpec, IndexKeeps, FinishedIsWhole

-----------------------------------------------------------------------------
(* ClientTable: for any threads, and any clients and reservations, what      *)
(* leaves the table may leave it.                                            *)

Within == {"act", "evict", "release"}

(* A thread that is inside a cleanup holds the lock of its reservation, and only  *)
(* such a thread does; from the action's success on nothing is due there.         *)
CleanupsHold ==
    /\ \A t \in Threads :
          /\ thread[t].at \in Within =>
                thread[t].res \in Tokens /\ holder[thread[t].res] = t
          /\ thread[t].at \in {"set", "check"} => thread[t].res \in Tokens
          /\ thread[t].at \in {"evict", "release"} => ~due[thread[t].res]
    /\ \A r \in Tokens : holder[r] # Nobody =>
          thread[holder[r]].at \in Within /\ thread[holder[r]].res = r

(* What is due is set, on the reservation in the table.                           *)
DueIsSet == \A r \in Tokens : due[r] => action[r] /\ entry = r

TableWorks == TableTypeOK /\ CleanupsHold /\ DueIsSet

ThreadStates == [at : {"idle", "admit", "set", "check", "act", "evict", "release"},
                 client : Tokens \cup {Nobody}, res : Tokens \cup {Nobody}]

\* Threads start and stop as they say.
LEMMA ThreadShape ==
    ASSUME TableTypeOK, NEW t \in Threads
    PROVE  /\ thread \in [Threads -> ThreadStates] /\ thread[t] \in ThreadStates
           /\ thread[t].at \in {"idle", "admit", "set", "check", "act", "evict", "release"}
           /\ thread[t].client \in Tokens \cup {Nobody} /\ thread[t].res \in Tokens \cup {Nobody}
           /\ \A u \in ThreadStates :
                 LET after == [thread EXCEPT ![t] = u]
                 IN  /\ after \in [Threads -> ThreadStates] /\ after[t] = u
                     /\ \A v \in Threads \ {t} : after[v] = thread[v]
           /\ IdleThread \in ThreadStates /\ IdleThread.at = "idle"
<1>1. thread \in [Threads -> ThreadStates]
      BY DEF TableTypeOK, ThreadStates
<1>2. thread[t] \in ThreadStates
      BY <1>1
<1>3. /\ thread[t].at \in {"idle", "admit", "set", "check", "act", "evict", "release"}
      /\ thread[t].client \in Tokens \cup {Nobody} /\ thread[t].res \in Tokens \cup {Nobody}
      BY <1>2 DEF ThreadStates
<1>4. ASSUME NEW u \in ThreadStates
      PROVE  LET after == [thread EXCEPT ![t] = u]
             IN  /\ after \in [Threads -> ThreadStates] /\ after[t] = u
                 /\ \A v \in Threads \ {t} : after[v] = thread[v]
      BY <1>1
<1>5. IdleThread \in ThreadStates /\ IdleThread.at = "idle"
      BY DEF IdleThread, ThreadStates
<1> QED BY <1>1, <1>2, <1>3, <1>4, <1>5

\* A step that moves one thread, which stays outside of a cleanup.
LEMMA OutsideMoves ==
    ASSUME TableAssumption, TableWorks, NEW t \in Threads, NEW u \in ThreadStates,
           thread[t].at \notin Within, u.at \notin Within,
           u.at \in {"set", "check"} => u.res \in Tokens,
           thread' = [thread EXCEPT ![t] = u], holder' = holder,
           \A r \in Tokens : due'[r] => due[r] \/ (holder[r] = Nobody)
    PROVE  /\ thread' \in [Threads -> ThreadStates]
           /\ CleanupsHold'
           /\ \A r \in Tokens : holder'[r] # Nobody => thread'[holder'[r]].res = r
<1>1. TableTypeOK /\ CleanupsHold
      BY DEF TableWorks
<1>2. /\ thread' \in [Threads -> ThreadStates] /\ thread'[t] = u
      /\ \A v \in Threads \ {t} : thread'[v] = thread[v]
      BY <1>1, ThreadShape
<1>3. \A r \in Tokens : holder[r] # t /\ holder[r] \in Threads \cup {Nobody}
      BY <1>1 DEF CleanupsHold, TableTypeOK, TableAssumption
<1>4. ASSUME NEW v \in Threads
      PROVE  /\ thread'[v].at \in Within =>
                   thread'[v].res \in Tokens /\ holder'[thread'[v].res] = v
             /\ thread'[v].at \in {"set", "check"} => thread'[v].res \in Tokens
             /\ thread'[v].at \in {"evict", "release"} => ~due'[thread'[v].res]
  <2>1. CASE v = t
        BY <1>2, <2>1 DEF Within
  <2>2. CASE v # t
    <3>1. thread'[v] = thread[v]
          BY <1>2, <2>2
    <3>2. thread[v].at \in Within => thread[v].res \in Tokens /\ holder[thread[v].res] = v
          BY <1>1 DEF CleanupsHold
    <3>3. thread[v].at \in {"set", "check"} => thread[v].res \in Tokens
          BY <1>1 DEF CleanupsHold
    <3>4. thread[v].at \in {"evict", "release"} => ~due[thread[v].res]
          BY <1>1 DEF CleanupsHold
    <3>5. v # Nobody
          BY DEF TableAssumption
    <3>6. thread[v].at \in {"evict", "release"} => ~due'[thread[v].res]
          BY <3>2, <3>4, <3>5 DEF Within
    <3> QED BY <3>1, <3>2, <3>3, <3>6
  <2> QED BY <2>1, <2>2
<1>5. \A r \in Tokens : holder'[r] # Nobody =>
         thread'[holder'[r]].at \in Within /\ thread'[holder'[r]].res = r
      BY <1>1, <1>2, <1>3 DEF CleanupsHold
<1> QED BY <1>2, <1>4, <1>5 DEF CleanupsHold

FenceStep == \A r \in Tokens : fenced[r] /\ entry = r => entry' = r \/ ~fenced'[r]

EvictStep ==
    \A c \in Tokens : cached = c /\ cached' # c =>
        \/ thread' = thread
        \/ \E t \in Threads : thread[t].client = c /\ thread'[t] # thread[t]

\* What is new has not been there before.
LEMMA FreshIsNew ==
    ASSUME TableTypeOK, NEW kind \in {"client", "reservation"}, created[kind] # Tokens
    PROVE  /\ Fresh(kind) \in Tokens
           /\ Creates(kind) => created' \in [{"client", "reservation"} -> SUBSET Tokens]
<1>1. created[kind] \subseteq Tokens
      BY DEF TableTypeOK
<1>2. \E x \in Tokens : x \notin created[kind]
      BY <1>1
<1>3. Fresh(kind) \in Tokens
      BY <1>2 DEF Fresh
<1>4. Creates(kind) => created' \in [{"client", "reservation"} -> SUBSET Tokens]
      BY <1>3 DEF Creates, TableTypeOK
<1> QED BY <1>3, <1>4

\* A reservation is entered only where there is none.
LEMMA EnteredKeeps ==
    ASSUME TableAssumption, TableWorks, NEW r \in Tokens, Entered(r)
    PROVE  /\ entry' = r /\ created' \in [{"client", "reservation"} -> SUBSET Tokens]
           /\ \A x \in Tokens : entry = x => entry' = x
           /\ \A x \in Tokens : due[x] => action[x] /\ entry' = x
<1>1. TableTypeOK /\ DueIsSet
      BY DEF TableWorks
<1>2. created' \in [{"client", "reservation"} -> SUBSET Tokens]
  <2>1. CASE entry # Nobody
        BY <1>1, <2>1 DEF Entered, TableTypeOK
  <2>2. CASE entry = Nobody
        BY <1>1, <2>2, FreshIsNew DEF Entered
  <2> QED BY <2>1, <2>2
<1>3. entry' = r /\ \A x \in Tokens : entry = x => entry' = x
      BY DEF Entered, TableAssumption
<1>4. \A x \in Tokens : due[x] => action[x] /\ entry' = x
      BY <1>1, <1>3 DEF DueIsSet
<1> QED BY <1>2, <1>3, <1>4

\* The steps of a thread that leave the reservation and its locks alone.
LEMMA ClientStepKeeps ==
    ASSUME TableAssumption, TableWorks, NEW t \in Threads,
           AdmitChecks(t) \/ AdmitInserts(t) \/ Insert(t) \/ Evict(t) \/ BeginCleanup(t)
    PROVE  TableWorks' /\ FenceStep /\ EvictStep
<1>1. /\ TableTypeOK /\ CleanupsHold /\ DueIsSet /\ thread \in [Threads -> ThreadStates]
      /\ \A r \in Tokens : holder[r] # Nobody =>
            thread[holder[r]].at \in Within /\ thread[holder[r]].res = r
      BY ThreadShape DEF TableWorks, CleanupsHold
<1>2. /\ entry' = entry /\ fenced' = fenced /\ action' = action /\ holder' = holder
      /\ due' = due /\ registered' = registered
      BY DEF AdmitChecks, AdmitInserts, Insert, Evict, BeginCleanup
<1>3. /\ cached' \in Tokens \cup {Nobody}
      /\ created' \in [{"client", "reservation"} -> SUBSET Tokens]
  <2>1. CASE UNCHANGED <<cached, created>>
        BY <1>1, <2>1 DEF TableTypeOK
  <2>2. CASE cached' = Nobody /\ created' = created
        BY <1>1, <2>2 DEF TableTypeOK
  <2>3. CASE created["client"] # Tokens /\ cached' = Fresh("client") /\ Creates("client")
        BY <1>1, <2>3, FreshIsNew
  <2> QED BY <2>1, <2>2, <2>3 DEF AdmitChecks, AdmitInserts, Insert, Evict, BeginCleanup
<1>4. \/ thread' = thread
      \/ \E u \in ThreadStates :
            /\ thread[t].at \notin Within /\ u.at \notin Within
            /\ u.at \in {"set", "check"} => u.res \in Tokens
            /\ thread' = [thread EXCEPT ![t] = u]
  <2>1. CASE AdmitChecks(t)
    <3> DEFINE u == [at |-> "admit", client |-> Nobody, res |-> Nobody]
    <3>1. u \in ThreadStates /\ u.at = "admit"
          BY DEF ThreadStates
    <3>2. thread' = [thread EXCEPT ![t] = u] /\ thread[t].at = "idle"
          BY <2>1 DEF AdmitChecks, Goes, IdleAt, IdleThread
    <3> QED BY <3>1, <3>2 DEF Within
  <2>2. CASE AdmitInserts(t)
    <3>1. thread' = [thread EXCEPT ![t] = IdleThread] /\ thread[t].at = "admit"
          BY <2>2 DEF AdmitInserts, Rests
    <3> QED BY <1>1, <3>1, ThreadShape DEF Within
  <2>3. CASE BeginCleanup(t)
    <3>1. PICK r \in created["reservation"], c \in created["client"] \cup {Nobody} :
             IdleAt(t) /\ Goes(t, "check", c, r)
          BY <2>3 DEF BeginCleanup
    <3> DEFINE u == [at |-> "check", client |-> c, res |-> r]
    <3>2. u \in ThreadStates /\ u.at = "check" /\ u.res \in Tokens
          BY <1>1, <3>1 DEF ThreadStates, TableTypeOK
    <3>3. thread' = [thread EXCEPT ![t] = u] /\ thread[t].at = "idle"
          BY <3>1 DEF Goes, IdleAt, IdleThread
    <3> QED BY <3>2, <3>3 DEF Within
  <2> QED BY <2>1, <2>2, <2>3 DEF Insert, Evict
<1>5. /\ thread' \in [Threads -> ThreadStates] /\ CleanupsHold'
      /\ \A r \in Tokens : holder'[r] # Nobody => thread'[holder'[r]].res = r
  <2>1. CASE thread' = thread
        BY <1>1, <1>2, <2>1 DEF CleanupsHold
  <2>2. ASSUME NEW u \in ThreadStates, thread[t].at \notin Within, u.at \notin Within,
               u.at \in {"set", "check"} => u.res \in Tokens,
               thread' = [thread EXCEPT ![t] = u]
        PROVE  /\ thread' \in [Threads -> ThreadStates] /\ CleanupsHold'
               /\ \A r \in Tokens : holder'[r] # Nobody => thread'[holder'[r]].res = r
        BY <1>2, <2>2, OutsideMoves
  <2> QED BY <1>4, <2>1, <2>2
<1>6. TableTypeOK'
      BY <1>1, <1>2, <1>3, <1>5 DEF TableTypeOK, ThreadStates
<1>7. DueIsSet'
      BY <1>1, <1>2 DEF DueIsSet
<1>8. FenceStep
      BY <1>2 DEF FenceStep
<1>9. EvictStep
  <2>1. CASE Insert(t) \/ Evict(t)
        BY <2>1 DEF Insert, Evict, EvictStep
  <2>2. CASE AdmitInserts(t)
        BY <2>2 DEF AdmitInserts, EvictStep, TableAssumption
  <2>3. CASE AdmitChecks(t) \/ BeginCleanup(t)
        BY <2>3 DEF AdmitChecks, BeginCleanup, EvictStep
  <2> QED BY <2>1, <2>2, <2>3
<1> QED BY <1>5, <1>6, <1>7, <1>8, <1>9 DEF TableWorks

\* The steps of a thread that enters, fences, frees or sets a reservation.
LEMMA ReservationStepKeeps ==
    ASSUME TableAssumption, TableWorks, NEW t \in Threads,
           ReserveHostCompletion(t) \/ CompleteHostCleanup(t) \/ WithAction(t) \/ SetAction(t)
    PROVE  TableWorks' /\ FenceStep /\ EvictStep
<1>1. /\ TableTypeOK /\ CleanupsHold /\ DueIsSet /\ thread \in [Threads -> ThreadStates]
      /\ \A r \in Tokens : holder[r] # Nobody =>
            thread[holder[r]].at \in Within /\ thread[holder[r]].res = r
      BY ThreadShape DEF TableWorks, CleanupsHold
<1>2. cached' = cached /\ holder' = holder
      BY DEF ReserveHostCompletion, CompleteHostCleanup, WithAction, SetAction
<1>3. CASE ReserveHostCompletion(t)
  <2>1. PICK r \in Tokens :
           Entered(r) /\ fenced' = [fenced EXCEPT ![r] = TRUE]
        BY <1>3 DEF ReserveHostCompletion
  <2>2. /\ action' = action /\ thread' = thread /\ due' = due /\ registered' = registered
        BY <1>3 DEF ReserveHostCompletion
  <2>3. fenced' \in [Tokens -> BOOLEAN]
        BY <1>1, <2>1 DEF TableTypeOK
  <2>4. TableTypeOK'
        BY <1>1, <1>2, <2>1, <2>2, <2>3, EnteredKeeps DEF TableTypeOK
  <2>5. CleanupsHold'
        BY <1>1, <1>2, <2>2 DEF CleanupsHold
  <2>6. DueIsSet'
        BY <2>1, <2>2, EnteredKeeps DEF DueIsSet
  <2>7. FenceStep
        BY <2>1, EnteredKeeps DEF FenceStep
  <2> QED BY <1>2, <2>4, <2>5, <2>6, <2>7 DEF TableWorks, EvictStep
<1>4. CASE CompleteHostCleanup(t)
  <2>1. PICK r \in created["reservation"] :
           /\ entry = r /\ fenced' = [fenced EXCEPT ![r] = FALSE]
           /\ entry' = IF action[r] THEN r ELSE Nobody
        BY <1>4 DEF CompleteHostCleanup
  <2>2. /\ action' = action /\ thread' = thread /\ due' = due /\ registered' = registered
        /\ created' = created /\ r \in Tokens
        BY <1>1, <1>4, <2>1 DEF CompleteHostCleanup, TableTypeOK
  <2>3. fenced' \in [Tokens -> BOOLEAN] /\ ~fenced'[r]
    <3>1. fenced \in [Tokens -> BOOLEAN]
          BY <1>1 DEF TableTypeOK
    <3> QED BY <2>1, <2>2, <3>1, Zenon
  <2>4. TableTypeOK'
        BY <1>1, <1>2, <2>1, <2>2, <2>3 DEF TableTypeOK
  <2>5. CleanupsHold'
        BY <1>1, <1>2, <2>2 DEF CleanupsHold
  <2>6. DueIsSet'
        BY <1>1, <2>1, <2>2 DEF DueIsSet
  <2>7. FenceStep
        BY <2>1, <2>3 DEF FenceStep
  <2> QED BY <1>2, <2>4, <2>5, <2>6, <2>7 DEF TableWorks, EvictStep
<1>5. CASE WithAction(t)
  <2>1. PICK r \in Tokens :
           IdleAt(t) /\ Entered(r) /\ Goes(t, "set", Nobody, r) /\ registered < MaxActions
        BY <1>5 DEF WithAction
  <2>2. /\ action' = action /\ fenced' = fenced /\ due' = due /\ registered' = registered + 1
        BY <1>5 DEF WithAction
  <2> DEFINE u == [at |-> "set", client |-> Nobody, res |-> r]
  <2>3. u \in ThreadStates /\ u.at = "set" /\ u.res = r
        BY <2>1 DEF ThreadStates
  <2>4. thread' = [thread EXCEPT ![t] = u] /\ thread[t].at = "idle"
        BY <2>1 DEF Goes, IdleAt, IdleThread
  <2> HIDE DEF u
  <2>5. /\ thread' \in [Threads -> ThreadStates] /\ CleanupsHold'
        /\ \A x \in Tokens : holder'[x] # Nobody => thread'[holder'[x]].res = x
        BY <1>2, <2>1, <2>2, <2>3, <2>4, OutsideMoves DEF Within
  <2>6. registered' \in 0 .. MaxActions
        BY <1>1, <2>1, <2>2 DEF TableTypeOK, TableAssumption
  <2>7. TableTypeOK'
        BY <1>1, <1>2, <2>1, <2>2, <2>5, <2>6, EnteredKeeps DEF TableTypeOK, ThreadStates
  <2>8. DueIsSet'
        BY <2>1, <2>2, EnteredKeeps DEF DueIsSet
  <2>9. FenceStep
        BY <2>1, EnteredKeeps DEF FenceStep
  <2> QED BY <1>2, <2>5, <2>7, <2>8, <2>9 DEF TableWorks, EvictStep
<1>6. CASE SetAction(t)
  <2> DEFINE r == thread[t].res
  <2>1. /\ thread[t].at = "set" /\ r \in Tokens /\ holder[r] = Nobody
        /\ entry' = entry /\ fenced' = fenced /\ created' = created /\ registered' = registered
        /\ SetsAction(t, r)
        BY <1>1, <1>6 DEF SetAction, CleanupsHold
  <2> HIDE DEF r
  <2>2. /\ action' \in [Tokens -> BOOLEAN] /\ due' \in [Tokens -> BOOLEAN]
        /\ \A x \in Tokens \ {r} : due'[x] = due[x] /\ action'[x] = action[x]
        /\ due'[r] => (due[r] /\ action'[r] = action[r]) \/ (entry = r /\ action'[r])
    <3>1. action \in [Tokens -> BOOLEAN] /\ due \in [Tokens -> BOOLEAN]
          BY <1>1 DEF TableTypeOK
    <3>2. CASE entry = r
      <4>1. action' = [action EXCEPT ![r] = TRUE] /\ due' = [due EXCEPT ![r] = TRUE]
            BY <2>1, <3>2 DEF SetsAction
      <4> QED BY <2>1, <3>1, <3>2, <4>1, Zenon
    <3>3. CASE entry # r
      <4>1. action' = action /\ due' = due
            BY <2>1, <3>3 DEF SetsAction
      <4> QED BY <3>1, <4>1, Zenon
    <3> QED BY <3>2, <3>3
  <2>3. /\ thread' = [thread EXCEPT ![t] = IdleThread]
        /\ IdleThread \in ThreadStates /\ IdleThread.at = "idle"
        BY <1>1, <2>1, ThreadShape DEF SetsAction, Rests
  <2>4. \A x \in Tokens : due'[x] => due[x] \/ (holder[x] = Nobody)
        BY <2>1, <2>2
  <2>5. /\ thread' \in [Threads -> ThreadStates] /\ CleanupsHold'
        /\ \A x \in Tokens : holder'[x] # Nobody => thread'[holder'[x]].res = x
        BY <1>2, <2>1, <2>3, <2>4, OutsideMoves DEF Within
  <2>6. TableTypeOK'
        BY <1>1, <1>2, <2>1, <2>2, <2>5 DEF TableTypeOK, ThreadStates
  <2>7. DueIsSet'
        BY <1>1, <2>1, <2>2, Zenon DEF DueIsSet
  <2>8. FenceStep
        BY <2>1 DEF FenceStep
  <2> QED BY <1>2, <2>5, <2>6, <2>7, <2>8 DEF TableWorks, EvictStep
<1> QED BY <1>3, <1>4, <1>5, <1>6

\* A step that moves one thread into a cleanup of r, further in it, or out of it.
LEMMA InsideMoves ==
    ASSUME TableAssumption, TableWorks, NEW t \in Threads, NEW r \in Tokens,
           NEW u \in ThreadStates, thread' = [thread EXCEPT ![t] = u],
           holder[r] = Nobody \/ holder[r] = t,
           thread[t].at \in Within => thread[t].res = r,
           u.at \notin {"set", "check"},
           u.at \in Within => u.res = r /\ holder'[r] = t,
           u.at \notin Within => holder'[r] = Nobody,
           u.at \in {"evict", "release"} => ~due'[r],
           \A x \in Tokens \ {r} : holder'[x] = holder[x],
           \A x \in Tokens : due'[x] => due[x]
    PROVE  /\ thread' \in [Threads -> ThreadStates]
           /\ CleanupsHold'
           /\ \A x \in Tokens : holder'[x] # Nobody => thread'[holder'[x]].res = x
<1>1. TableTypeOK /\ CleanupsHold /\ t # Nobody
      BY DEF TableWorks, TableAssumption
<1>2. /\ thread' \in [Threads -> ThreadStates] /\ thread'[t] = u
      /\ \A v \in Threads \ {t} : thread'[v] = thread[v]
      BY <1>1, ThreadShape
<1>3. ASSUME NEW v \in Threads
      PROVE  /\ thread'[v].at \in Within =>
                   thread'[v].res \in Tokens /\ holder'[thread'[v].res] = v
             /\ thread'[v].at \in {"set", "check"} => thread'[v].res \in Tokens
             /\ thread'[v].at \in {"evict", "release"} => ~due'[thread'[v].res]
  <2>1. CASE v = t
        BY <1>2, <2>1 DEF Within
  <2>2. CASE v # t
    <3>1. thread'[v] = thread[v] /\ v # Nobody
          BY <1>2, <2>2 DEF TableAssumption
    <3>2. thread[v].at \in Within =>
             /\ thread[v].res \in Tokens /\ holder[thread[v].res] = v
             /\ holder'[thread[v].res] = v
          BY <1>1, <2>2, <3>1 DEF CleanupsHold
    <3>3. thread[v].at \in {"set", "check"} => thread[v].res \in Tokens
          BY <1>1 DEF CleanupsHold
    <3>4. thread[v].at \in {"evict", "release"} => ~due[thread[v].res]
          BY <1>1 DEF CleanupsHold
    <3>5. thread[v].at \in {"evict", "release"} => ~due'[thread[v].res]
          BY <3>2, <3>4 DEF Within
    <3> QED BY <3>1, <3>2, <3>3, <3>5
  <2> QED BY <2>1, <2>2
<1>4. ASSUME NEW x \in Tokens, holder'[x] # Nobody
      PROVE  thread'[holder'[x]].at \in Within /\ thread'[holder'[x]].res = x
  <2>1. CASE x = r
        BY <1>2, <1>4, <2>1
  <2>2. CASE x # r
    <3>1. /\ holder'[x] = holder[x] /\ holder[x] \in Threads
          /\ thread[holder[x]].at \in Within /\ thread[holder[x]].res = x
          BY <1>1, <1>4, <2>2 DEF CleanupsHold, TableTypeOK
    <3>2. holder[x] # t
          BY <2>2, <3>1
    <3> QED BY <1>2, <3>1, <3>2
  <2> QED BY <2>1, <2>2
<1> QED BY <1>2, <1>3, <1>4 DEF CleanupsHold

\* The steps of a cleanup.
LEMMA CleanupStepKeeps ==
    ASSUME TableAssumption, TableWorks, NEW t \in Threads,
           CheckCleanup(t) \/ RunAction(t) \/ EvictClient(t) \/ ReleaseReservation(t)
    PROVE  TableWorks' /\ FenceStep /\ EvictStep
<1> DEFINE r == thread[t].res
<1> DEFINE c == thread[t].client
<1>1. /\ TableTypeOK /\ CleanupsHold /\ DueIsSet /\ thread \in [Threads -> ThreadStates]
      /\ holder \in [Tokens -> Threads \cup {Nobody}] /\ due \in [Tokens -> BOOLEAN]
      /\ thread[t] \in ThreadStates
      BY ThreadShape DEF TableWorks, TableTypeOK
<1>2. fenced' = fenced /\ action' = action /\ created' = created /\ registered' = registered
      BY DEF CheckCleanup, RunAction, EvictClient, ReleaseReservation
<1>3. /\ r \in Tokens /\ c \in Tokens \cup {Nobody}
      /\ thread[t].at \in Within => holder[r] = t
      BY <1>1, ThreadShape DEF CheckCleanup, RunAction, EvictClient, ReleaseReservation,
                               CleanupsHold, Within
<1>4. IdleThread \in ThreadStates /\ IdleThread.at = "idle"
      BY <1>1, ThreadShape
<1>5. ASSUME NEW at \in Within
      PROVE  /\ [at |-> at, client |-> c, res |-> r] \in ThreadStates
             /\ [at |-> at, client |-> c, res |-> r].at = at
             /\ [at |-> at, client |-> c, res |-> r].res = r
      BY <1>3 DEF ThreadStates, Within
\* Its thread and its lock.
<1>6. LetsGo(t) => /\ holder' \in [Tokens -> Threads \cup {Nobody}] /\ holder'[r] = Nobody
                   /\ \A x \in Tokens \ {r} : holder'[x] = holder[x]
      BY <1>1, <1>3 DEF LetsGo
<1> DEFINE Kept == /\ thread' \in [Threads -> ThreadStates] /\ CleanupsHold'
                   /\ \A x \in Tokens : holder'[x] # Nobody => thread'[holder'[x]].res = x
                   /\ holder' \in [Tokens -> Threads \cup {Nobody}]
<1> HIDE DEF r, c
<1>7. ASSUME thread[t].at \in Within, LetsGo(t), Rests(t), due' = due
      PROVE  Kept
  <2>1. thread' = [thread EXCEPT ![t] = IdleThread]
        BY <1>7 DEF Rests
  <2>2. IdleThread.at \notin Within /\ IdleThread.at \notin {"set", "check"}
        BY <1>4 DEF Within
  <2>3. /\ holder' \in [Tokens -> Threads \cup {Nobody}] /\ holder'[r] = Nobody
        /\ \A x \in Tokens \ {r} : holder'[x] = holder[x]
        BY <1>6, <1>7
  <2>4. holder[r] = t /\ thread[t].res = r /\ r \in Tokens
        BY <1>3, <1>7 DEF r
  <2>5. \A x \in Tokens : due'[x] => due[x]
        BY <1>7
  <2> QED BY <1>4, <2>1, <2>2, <2>3, <2>4, <2>5, InsideMoves DEF Within
<1>8. ASSUME NEW at \in Within, Goes(t, at, c, r), holder[r] = Nobody \/ holder[r] = t,
             holder' \in [Tokens -> Threads \cup {Nobody}], holder'[r] = t,
             \A x \in Tokens \ {r} : holder'[x] = holder[x],
             \A x \in Tokens : due'[x] => due[x], at # "act" => ~due'[r]
      PROVE  Kept
  <2> DEFINE u == [at |-> at, client |-> c, res |-> r]
  <2>1. u \in ThreadStates /\ u.at = at /\ u.res = r
        BY <1>5 DEF r, c
  <2>2. thread' = [thread EXCEPT ![t] = u]
        BY <1>8 DEF Goes
  <2>3. at \notin {"set", "check"} /\ (at \in {"evict", "release"} => ~due'[r])
        BY <1>8 DEF Within
  <2>4. thread[t].res = r /\ r \in Tokens
        BY <1>3 DEF r
  <2> HIDE DEF u
  <2> QED BY <1>8, <2>1, <2>2, <2>3, <2>4, InsideMoves
<1>9. CASE CheckCleanup(t)
  <2>1. /\ thread[t].at = "check" /\ holder[r] = Nobody /\ UNCHANGED <<cached, entry, due>>
        BY <1>9 DEF CheckCleanup, r
  <2>2. Kept
    <3>1. CASE Rests(t) /\ holder' = holder
      <4>1. thread' = [thread EXCEPT ![t] = IdleThread]
            BY <3>1 DEF Rests
      <4>2. \A x \in Tokens : due'[x] => due[x] \/ (holder[x] = Nobody)
            BY <2>1
      <4> QED BY <1>1, <1>4, <2>1, <3>1, <4>1, <4>2, OutsideMoves DEF Within
    <3>2. CASE holder' = [holder EXCEPT ![r] = t] /\ Goes(t, "act", c, r)
      <4>1. "act" \in Within /\ r \in Tokens
            BY <1>3 DEF Within, r
      <4>2. /\ holder' \in [Tokens -> Threads \cup {Nobody}] /\ holder'[r] = t
            /\ \A x \in Tokens \ {r} : holder'[x] = holder[x]
            BY <1>1, <3>2, <4>1
      <4>3. \A x \in Tokens : due'[x] => due[x]
            BY <2>1
      <4> QED BY <1>8, <2>1, <3>2, <4>1, <4>2, <4>3
    <3> QED BY <1>9, <3>1, <3>2 DEF CheckCleanup, r, c
  <2>3. TableTypeOK' /\ DueIsSet'
        BY <1>1, <1>2, <2>1, <2>2 DEF TableTypeOK, DueIsSet, ThreadStates
  <2> QED BY <1>2, <2>1, <2>2, <2>3 DEF TableWorks, FenceStep, EvictStep
<1>10. CASE RunAction(t)
  <2>1. thread[t].at = "act" /\ UNCHANGED <<cached, entry>> /\ holder[r] = t /\ r \in Tokens
        BY <1>3, <1>10 DEF RunAction, Within, r
  <2>2. /\ Kept /\ due' \in [Tokens -> BOOLEAN]
        /\ \A x \in Tokens : due'[x] => due[x]
    <3>1. CASE LetsGo(t) /\ Rests(t) /\ due' = due
          BY <1>1, <1>7, <2>1, <3>1 DEF Within
    <3>2. ASSUME NEW at \in {"release", "evict"}, Goes(t, at, c, r),
                 due' = [due EXCEPT ![r] = FALSE], holder' = holder
          PROVE  /\ Kept /\ due' \in [Tokens -> BOOLEAN]
                 /\ \A x \in Tokens : due'[x] => due[x]
      <4>1. /\ due' \in [Tokens -> BOOLEAN] /\ ~due'[r]
            /\ \A x \in Tokens : due'[x] => due[x]
            BY <1>1, <2>1, <3>2, Zenon
      <4>2. at \in Within
            BY <3>2 DEF Within
      <4> QED BY <1>1, <1>8, <2>1, <3>2, <4>1, <4>2
    <3>3. \/ LetsGo(t) /\ Rests(t) /\ due' = due
          \/ \E at \in {"release", "evict"} :
                Goes(t, at, c, r) /\ due' = [due EXCEPT ![r] = FALSE] /\ holder' = holder
          BY <1>10 DEF RunAction, r, c
    <3> HIDE DEF Kept
    <3> QED BY <3>1, <3>2, <3>3
  <2>3. TableTypeOK' /\ DueIsSet'
        BY <1>1, <1>2, <2>1, <2>2 DEF TableTypeOK, DueIsSet, ThreadStates
  <2> QED BY <1>2, <2>1, <2>2, <2>3 DEF TableWorks, FenceStep, EvictStep
<1>11. CASE EvictClient(t)
  <2>1. /\ thread[t].at = "evict" /\ UNCHANGED <<entry, due>> /\ holder[r] = t /\ r \in Tokens
        /\ ~due[r]
        BY <1>1, <1>3, <1>11 DEF EvictClient, Within, CleanupsHold, r
  <2>2. /\ Kept
        /\ \/ cached' = cached
           \/ cached' = Nobody /\ cached = c /\ Goes(t, "release", c, r)
    <3>1. CASE LetsGo(t) /\ Rests(t) /\ cached' = cached
          BY <1>7, <2>1, <3>1 DEF Within
    <3>2. CASE cached = c /\ cached' = Nobody /\ Goes(t, "release", c, r) /\ holder' = holder
      <4>1. "release" \in Within
            BY DEF Within
      <4> QED BY <1>1, <1>8, <2>1, <3>2, <4>1
    <3> QED BY <1>11, <3>1, <3>2 DEF EvictClient, StillOwned, Owns, r, c
  <2>3. TableTypeOK' /\ DueIsSet'
        BY <1>1, <1>2, <2>1, <2>2 DEF TableTypeOK, DueIsSet, ThreadStates
  <2>4. EvictStep
    <3>1. Goes(t, "release", c, r) => thread'[t].at = "release"
          BY <1>1 DEF Goes
    <3> QED BY <2>1, <2>2, <3>1 DEF EvictStep, c
  <2> QED BY <1>2, <2>1, <2>2, <2>3, <2>4 DEF TableWorks, FenceStep
<1>12. CASE ReleaseReservation(t)
  <2>1. /\ thread[t].at = "release" /\ UNCHANGED <<cached, due>> /\ r \in Tokens
        /\ ~due[r] /\ LetsGo(t) /\ Rests(t)
        /\ entry' = entry \/ (entry = r /\ ~fenced[r] /\ entry' = Nobody)
        BY <1>1, <1>3, <1>12 DEF ReleaseReservation, Releases, Within, CleanupsHold, r
  <2>2. Kept
        BY <1>7, <2>1 DEF Within
  <2>3. TableTypeOK'
        BY <1>1, <1>2, <2>1, <2>2 DEF TableTypeOK, ThreadStates
  <2>4. DueIsSet'
        BY <1>1, <1>2, <2>1 DEF DueIsSet
  <2>5. FenceStep
        BY <1>2, <2>1 DEF FenceStep
  <2> QED BY <2>1, <2>2, <2>3, <2>4, <2>5 DEF TableWorks, EvictStep
<1> QED BY <1>9, <1>10, <1>11, <1>12

\* The empty table.
LEMMA TableStarts == ASSUME TableAssumption, TableInit PROVE TableWorks
<1>1. IdleThread \in ThreadStates /\ IdleThread.at = "idle"
      BY DEF IdleThread, ThreadStates
<1>2. TableTypeOK
      BY <1>1 DEF TableInit, TableTypeOK, TableAssumption, ThreadStates
<1>3. CleanupsHold /\ DueIsSet
      BY <1>1 DEF TableInit, CleanupsHold, DueIsSet, Within
<1> QED BY <1>2, <1>3 DEF TableWorks

\* TableLetsGo: whichever threads open, close, retry and evict, and whatever fails,
\* a fenced reservation outlasts every cleanup, no reservation leaves the table while
\* an action registered on it is due, and a cleanup evicts its own client only.
THEOREM TableLetsGo == ASSUME TableAssumption PROVE TableSpec => TableKeeps
<1>1. TableInit => TableWorks
      BY TableStarts
<1>2. ASSUME TableWorks, [TableNext]_tableVars
      PROVE  TableWorks' /\ FenceStep /\ EvictStep
  <2>1. CASE UNCHANGED tableVars
    <3>1. TableTypeOK' /\ CleanupsHold' /\ DueIsSet'
          BY <1>2, <2>1 DEF tableVars, TableWorks, TableTypeOK, CleanupsHold, DueIsSet
    <3> QED BY <2>1, <3>1 DEF tableVars, TableWorks, FenceStep, EvictStep
  <2>2. ASSUME NEW t \in Threads,
               AdmitChecks(t) \/ AdmitInserts(t) \/ Insert(t) \/ Evict(t) \/ BeginCleanup(t)
        PROVE  TableWorks' /\ FenceStep /\ EvictStep
        BY <1>2, <2>2, ClientStepKeeps
  <2>3. ASSUME NEW t \in Threads,
               ReserveHostCompletion(t) \/ CompleteHostCleanup(t) \/ WithAction(t) \/ SetAction(t)
        PROVE  TableWorks' /\ FenceStep /\ EvictStep
        BY <1>2, <2>3, ReservationStepKeeps
  <2>4. ASSUME NEW t \in Threads,
               CheckCleanup(t) \/ RunAction(t) \/ EvictClient(t) \/ ReleaseReservation(t)
        PROVE  TableWorks' /\ FenceStep /\ EvictStep
        BY <1>2, <2>4, CleanupStepKeeps
  <2> QED BY <1>2, <2>1, <2>2, <2>3, <2>4 DEF TableNext
<1>3. TableWorks => TableInv
      BY DEF TableWorks, TableInv, DueIsSet, ActionsAreRun
<1>4. TableWorks /\ [TableNext]_tableVars =>
         [\A r \in Tokens : fenced[r] /\ entry = r => entry' = r \/ ~fenced'[r]]_tableVars
      BY <1>2 DEF FenceStep
<1>5. TableWorks /\ [TableNext]_tableVars =>
         [\A c \in Tokens : cached = c /\ cached' # c =>
            \/ thread' = thread
            \/ \E t \in Threads : thread[t].client = c /\ thread'[t] # thread[t]]_tableVars
      BY <1>2 DEF EvictStep
<1>6. TableWorks /\ [TableNext]_tableVars => TableWorks'
      BY <1>2
<1> QED BY <1>1, <1>3, <1>4, <1>5, <1>6, PTL
        DEF TableSpec, TableKeeps, TableLetsGoSafely, FenceOutlastsCleanup, EvictsItsOwn

-----------------------------------------------------------------------------
(* StdioSession: for any callers, closers and identifiers.                   *)

Lined == {"waiting", "half", "reading"}
Busy == {"half", "reading"}

InLine == {queue[i] : i \in DOMAIN queue}

StdioStates(seen) ==
    [at : {"idle", "closed"} \cup Lined, phase : {"init", "call", "close"}, id : 0..MaxIds,
     seen : 0..seen, got : 0..MaxIds]

\* A task waits in line or has the lock just while it says so; the lock's holder
\* alone uses the child, and its handshake is of a session that is not there yet.
TaskFits(t) ==
    /\ t \in InLine <=> task[t].at \in Lined
    /\ task[t].at \in Busy =>
          /\ Holds(t) /\ task[t].phase # "close" /\ task[t].id \in Ids
          /\ child # "none" /\ (task[t].phase = "init" => ~session)
    /\ task[t].at \in Lined /\ task[t].phase # "close" => t \in Callers /\ task[t].got = 0
    /\ task[t].got # 0 => task[t].got = task[t].id

\* The pipes hold requests and answers of this client, and none when there is no child.
PipesFit ==
    /\ session \in BOOLEAN /\ torn \in BOOLEAN /\ child \in {"none", "alive", "exited"}
    /\ inbox \subseteq Ids /\ outbox \in Seq(Ids)
    /\ session => child # "none"

StdioWorks ==
    /\ queue \in Seq(Tasks) /\ IsInjective(queue)
    /\ PipesFit /\ ChildIsOwned
    /\ nextId \in 1..(MaxIds + 1) /\ closing \in Nat
    /\ task \in [Tasks -> StdioStates(closing)]
    /\ \A t \in Tasks : TaskFits(t)

LEMMA WorksIsInv == ASSUME StdioWorks PROVE StdioInv
<1>1. \A i \in 1..Len(outbox) : outbox[i] \in Ids
  BY DEF StdioWorks, PipesFit
<1>2. task \in [Tasks -> [at : {"idle", "waiting", "half", "reading", "closed"},
                          phase : {"init", "call", "close"}, id : 0..MaxIds,
                          seen : 0..closing, got : 0..MaxIds]]
  BY DEF StdioWorks, StdioStates, Lined
<1>3. StdioTypeOK
  BY <1>1, <1>2 DEF StdioWorks, PipesFit, StdioTypeOK
<1>4. AnswersAreOwn
  BY DEF StdioWorks, TaskFits, AnswersAreOwn, Tasks
<1> QED
  BY <1>3, <1>4 DEF StdioWorks, StdioInv

\* Whoever leaves the line leaves the others in their order.
LEMMA WithoutIs ==
    ASSUME queue \in Seq(Tasks), IsInjective(queue), NEW t \in InLine
    PROVE  /\ Without(t) \in Seq(Tasks) /\ IsInjective(Without(t))
           /\ {Without(t)[i] : i \in DOMAIN Without(t)} = InLine \ {t}
           /\ \A u : Holds(u) /\ u # t => Without(t) # <<>> /\ Head(Without(t)) = u
<1> DEFINE n == Len(queue)
<1> DEFINE k == CHOOSE i \in DOMAIN queue : queue[i] = t
<1>1. n \in Nat /\ DOMAIN queue = 1..n /\ \A i \in 1..n : queue[i] \in Tasks
  OBVIOUS
<1>2. k \in 1..n /\ queue[k] = t
  BY <1>1 DEF InLine
<1> HIDE DEF n, k
<1> DEFINE a == SubSeq(queue, 1, k - 1)
<1> DEFINE b == SubSeq(queue, k + 1, n)
<1>3. a \in Seq(Tasks) /\ Len(a) = k - 1 /\ \A i \in 1..(k - 1) : a[i] = queue[i]
  <2>1. /\ 1 \in Int /\ k - 1 \in Int /\ \A i \in 1..(k - 1) : i \in 1..n /\ (1 + i) - 1 = i
        /\ (IF 1 <= k - 1 THEN ((k - 1) - 1) + 1 ELSE 0) = k - 1
        /\ ((k - 1) - 1) + 1 = k - 1
    BY ONLY <1>1, <1>2
  <2>2. \A i \in 1..(k - 1) : queue[i] \in Tasks
    BY <1>1, <2>1
  <2>3. /\ a \in Seq(Tasks)
        /\ Len(a) = IF 1 <= k - 1 THEN ((k - 1) - 1) + 1 ELSE 0
        /\ \A i \in 1..(((k - 1) - 1) + 1) : a[i] = queue[(1 + i) - 1]
    BY ONLY <2>1, <2>2, SubSeqProperties
  <2> HIDE DEF a
  <2> QED
    BY <2>1, <2>3
<1>4. b \in Seq(Tasks) /\ Len(b) = n - k /\ \A i \in 1..(n - k) : b[i] = queue[k + i]
  <2>1. /\ k + 1 \in Int /\ n \in Int /\ \A i \in (k + 1)..n : i \in 1..n
        /\ (IF k + 1 <= n THEN (n - (k + 1)) + 1 ELSE 0) = n - k
        /\ (n - (k + 1)) + 1 = n - k
        /\ \A i \in 1..(n - k) : ((k + 1) + i) - 1 = k + i
    BY ONLY <1>1, <1>2
  <2>2. \A i \in (k + 1)..n : queue[i] \in Tasks
    BY <1>1, <2>1
  <2>3. /\ b \in Seq(Tasks)
        /\ Len(b) = IF k + 1 <= n THEN (n - (k + 1)) + 1 ELSE 0
        /\ \A i \in 1..((n - (k + 1)) + 1) : b[i] = queue[((k + 1) + i) - 1]
    BY ONLY <2>1, <2>2, SubSeqProperties
  <2> HIDE DEF b
  <2> QED
    BY <2>1, <2>3
<1> HIDE DEF a, b
<1>5. Without(t) = a \o b
  BY DEF Without, RemoveAt, a, b, n, k
<1> DEFINE w == a \o b
<1>6. /\ w \in Seq(Tasks) /\ Len(w) = n - 1 /\ DOMAIN w = 1..(n - 1)
      /\ \A i \in 1..(k - 1) : w[i] = queue[i]
      /\ \A i \in k..(n - 1) : w[i] = queue[i + 1]
  <2>1. /\ w \in Seq(Tasks) /\ Len(w) = Len(a) + Len(b)
        /\ \A i \in 1..Len(a) + Len(b) : w[i] = IF i <= Len(a) THEN a[i] ELSE b[i - Len(a)]
    BY ONLY <1>3, <1>4, ConcatProperties
  <2>2. Len(a) + Len(b) = n - 1
    BY ONLY <1>1, <1>2, <1>3, <1>4
  <2>3. DOMAIN w = 1..(n - 1)
    BY <2>1, <2>2
  <2>4. ASSUME NEW i \in 1..(k - 1)
        PROVE  w[i] = queue[i]
    <3>1. i \in 1..(n - 1) /\ i <= k - 1
      BY ONLY <1>1, <1>2, i \in 1..(k - 1)
    <3>2. w[i] = a[i]
      BY ONLY <1>3, <2>1, <2>2, <3>1
    <3> QED
      BY <1>3, <3>2
  <2>5. ASSUME NEW i \in k..(n - 1)
        PROVE  w[i] = queue[i + 1]
    <3>1. /\ i \in 1..(n - 1) /\ ~(i <= k - 1) /\ i - (k - 1) \in 1..(n - k)
          /\ k + (i - (k - 1)) = i + 1
      BY ONLY <1>1, <1>2, i \in k..(n - 1)
    <3>2. w[i] = b[i - (k - 1)]
      BY ONLY <1>3, <2>1, <2>2, <3>1
    <3>3. b[i - (k - 1)] = queue[k + (i - (k - 1))]
      BY ONLY <1>4, <3>1
    <3> QED
      BY ONLY <3>1, <3>2, <3>3
  <2> QED
    BY <2>1, <2>2, <2>3, <2>4, <2>5
<1> HIDE DEF w
<1> DEFINE OldPlace(i) == IF i < k THEN i ELSE i + 1
<1>7. /\ \A i \in 1..(n - 1) : OldPlace(i) \in 1..n /\ OldPlace(i) # k /\ w[i] = queue[OldPlace(i)]
      /\ \A i, j \in 1..(n - 1) : OldPlace(i) = OldPlace(j) => i = j
      /\ \A m \in 1..n : m # k => \E i \in 1..(n - 1) : OldPlace(i) = m
  <2>1. ASSUME NEW i \in 1..(n - 1)
        PROVE  /\ OldPlace(i) \in 1..n /\ OldPlace(i) # k
               /\ (i \in 1..(k - 1) /\ OldPlace(i) = i) \/ (i \in k..(n - 1) /\ OldPlace(i) = i + 1)
    <3>1. CASE i < k
      <4>1. i \in 1..n /\ i # k /\ i \in 1..(k - 1) /\ OldPlace(i) = i
        BY ONLY <1>1, <1>2, <3>1, i \in 1..(n - 1)
      <4> HIDE DEF OldPlace
      <4> QED
        BY ONLY <4>1
    <3>2. CASE ~(i < k)
      <4>1. i + 1 \in 1..n /\ i + 1 # k /\ i \in k..(n - 1) /\ OldPlace(i) = i + 1
        BY ONLY <1>1, <1>2, <3>2, i \in 1..(n - 1)
      <4> HIDE DEF OldPlace
      <4> QED
        BY ONLY <4>1
    <3> QED
      BY ONLY <3>1, <3>2
  <2>2. \A i \in 1..(n - 1) : w[i] = queue[OldPlace(i)]
    BY ONLY <1>6, <2>1
  <2>3. \A i, j \in 1..(n - 1) : OldPlace(i) = OldPlace(j) => i = j
    BY ONLY <1>1, <1>2
  <2>4. ASSUME NEW m \in 1..n, m # k
        PROVE  \E i \in 1..(n - 1) : OldPlace(i) = m
    <3>1. CASE m < k
      <4>1. m \in 1..(n - 1) /\ OldPlace(m) = m
        BY ONLY <1>1, <1>2, <3>1, m \in 1..n
      <4> QED
        BY ONLY <4>1
    <3>2. CASE ~(m < k)
      <4>1. m - 1 \in 1..(n - 1) /\ OldPlace(m - 1) = m
        BY ONLY <1>1, <1>2, <2>4, <3>2
      <4> QED
        BY ONLY <4>1
    <3> QED
      BY ONLY <3>1, <3>2
  <2> QED
    BY ONLY <2>1, <2>2, <2>3, <2>4
<1>8. \A i, j \in 1..n : queue[i] = queue[j] => i = j
  BY <1>1 DEF IsInjective
<1>9. IsInjective(w)
  <2>1. ASSUME NEW i \in 1..(n - 1), NEW j \in 1..(n - 1), w[i] = w[j]
        PROVE  i = j
    <3>1. OldPlace(i) = OldPlace(j)
      BY ONLY <1>7, <1>8, <2>1
    <3> QED
      BY ONLY <1>7, <3>1
  <2> QED
    BY <1>6, <2>1 DEF IsInjective
<1>10. {w[i] : i \in DOMAIN w} = InLine \ {t}
  <2>1. ASSUME NEW i \in 1..(n - 1)
        PROVE  w[i] \in InLine \ {t}
    <3>1. PICK m \in 1..n : m # k /\ w[i] = queue[m]
      BY ONLY <1>7
    <3>2. queue[m] # t
      BY <1>2, <1>8, <3>1
    <3> QED
      BY <1>1, <3>1, <3>2 DEF InLine
  <2>2. ASSUME NEW u \in InLine \ {t}
        PROVE  \E i \in 1..(n - 1) : w[i] = u
    <3>1. PICK m \in 1..n : u = queue[m]
      BY <1>1 DEF InLine
    <3>2. m # k
      BY <1>2, <3>1
    <3>3. PICK i \in 1..(n - 1) : OldPlace(i) = m
      BY ONLY <1>7, <3>2
    <3> QED
      BY ONLY <1>7, <3>1, <3>3
  <2> QED
    BY <1>6, <2>1, <2>2
<1>11. ASSUME NEW u, Holds(u), u # t
       PROVE  w # <<>> /\ Head(w) = u
  <2>1. queue # <<>> /\ queue[1] = u /\ 1 \in 1..n
    BY <1>1, <1>11 DEF Holds
  <2>2. k # 1
    BY <1>2, <1>11, <2>1
  <2>3. 1 \in 1..(k - 1) /\ 1 \in 1..(n - 1) /\ n - 1 > 0
    BY ONLY <1>1, <1>2, <2>2
  <2>4. w[1] = u
    BY <1>6, <2>1, <2>3
  <2>5. w # <<>>
    BY <1>6, <2>3
  <2> QED
    BY <1>6, <2>4, <2>5
<1>12. Without(t) = w
  BY <1>5 DEF w
<1> QED
  BY ONLY <1>6, <1>9, <1>10, <1>11, <1>12

LEMMA LeftIs ==
    ASSUME StdioWorks, NEW t \in InLine, queue' = Without(t)
    PROVE  /\ queue' \in Seq(Tasks) /\ IsInjective(queue') /\ InLine' = InLine \ {t}
           /\ \A u : Holds(u) /\ u # t => queue' # <<>> /\ Head(queue') = u
<1>1. queue \in Seq(Tasks) /\ IsInjective(queue)
  BY DEF StdioWorks
<1>2. /\ Without(t) \in Seq(Tasks) /\ IsInjective(Without(t))
      /\ {Without(t)[i] : i \in DOMAIN Without(t)} = InLine \ {t}
      /\ \A u : Holds(u) /\ u # t => Without(t) # <<>> /\ Head(Without(t)) = u
  BY ONLY <1>1, t \in InLine, WithoutIs
<1>3. InLine' = {queue'[i] : i \in DOMAIN queue'}
  BY DEF InLine
<1> QED
  BY ONLY <1>2, <1>3, queue' = Without(t)

\* Whoever lines up comes after all others.
LEMMA LinedUp ==
    ASSUME NEW q, NEW S, q \in Seq(S), IsInjective(q), NEW t \in S,
           t \notin {q[i] : i \in DOMAIN q}
    PROVE  /\ Append(q, t) \in Seq(S) /\ IsInjective(Append(q, t))
           /\ {Append(q, t)[i] : i \in DOMAIN Append(q, t)} = {q[i] : i \in DOMAIN q} \cup {t}
           /\ Append(q, t) # <<>>
           /\ q # <<>> => Head(Append(q, t)) = Head(q)
<1> DEFINE n == Len(q)
<1>1. n \in Nat /\ DOMAIN q = 1..n /\ (q # <<>> => n > 0 /\ Head(q) = q[1])
  OBVIOUS
<1>2. PICK p : p = Append(q, t)
  OBVIOUS
<1>3. /\ p \in Seq(S) /\ Len(p) = n + 1 /\ p[n + 1] = t
      /\ \A i \in 1..n : p[i] = q[i]
  BY <1>2, AppendProperties
<1> HIDE DEF n
<1>4. DOMAIN p = 1..(n + 1) /\ \A i : i \in 1..(n + 1) <=> i \in 1..n \/ i = n + 1
  <2>1. DOMAIN p = 1..(n + 1)
    BY <1>3
  <2> QED
    BY <1>1, <2>1
<1>5. \A i \in 1..n : p[i] # t
  BY <1>1, <1>3
<1>6. IsInjective(p)
  <2>1. ASSUME NEW i \in 1..(n + 1), NEW j \in 1..(n + 1), p[i] = p[j]
        PROVE  i = j
    <3>1. CASE i \in 1..n /\ j \in 1..n
      BY <1>1, <1>3, <2>1, <3>1 DEF IsInjective
    <3>2. CASE i = n + 1 /\ j \in 1..n
      BY <1>3, <1>5, <2>1, <3>2
    <3>3. CASE i \in 1..n /\ j = n + 1
      BY <1>3, <1>5, <2>1, <3>3
    <3> QED
      BY <1>4, <3>1, <3>2, <3>3
  <2> QED
    BY <1>4, <2>1 DEF IsInjective
<1>7. {p[i] : i \in DOMAIN p} = {q[i] : i \in DOMAIN q} \cup {t}
  BY <1>1, <1>3, <1>4
<1>8. p # <<>> /\ Head(p) = p[1]
  BY <1>1, <1>3
<1>9. q # <<>> => Head(p) = Head(q)
  BY <1>1, <1>3, <1>8
<1> QED
  BY <1>2, <1>3, <1>6, <1>7, <1>8, <1>9

\* The holder asks for the lock again.
LEMMA AgainLast ==
    ASSUME queue \in Seq(Tasks), IsInjective(queue), NEW t \in Tasks, Holds(t)
    PROVE  LET q == Append(Tail(queue), t)
           IN  q \in Seq(Tasks) /\ IsInjective(q) /\ {q[i] : i \in DOMAIN q} = InLine
<1> DEFINE n == Len(queue)
<1>1. n \in Nat /\ n > 0 /\ DOMAIN queue = 1..n /\ queue[1] = t
  BY DEF Holds
<1>2. PICK p : p = Tail(queue)
  OBVIOUS
<1>3. p \in Seq(Tasks) /\ Len(p) = n - 1 /\ \A i \in 1..(n - 1) : p[i] = queue[i + 1]
  BY <1>1, <1>2, HeadTailProperties
<1> HIDE DEF n
<1>4. DOMAIN p = 1..(n - 1)
  BY <1>3
<1>5. /\ \A i \in 1..(n - 1) : i + 1 \in 1..n /\ i + 1 # 1
      /\ \A i, j \in 1..(n - 1) : i + 1 = j + 1 => i = j
      /\ \A m \in 1..n : m = 1 \/ (m - 1 \in 1..(n - 1) /\ (m - 1) + 1 = m)
      /\ 1 \in 1..n
  BY ONLY <1>1
<1>6. \A i, j \in 1..n : queue[i] = queue[j] => i = j
  BY <1>1 DEF IsInjective
<1>7. IsInjective(p)
  <2>1. ASSUME NEW i \in 1..(n - 1), NEW j \in 1..(n - 1), p[i] = p[j]
        PROVE  i = j
    <3>1. queue[i + 1] = queue[j + 1]
      BY ONLY <1>3, <2>1
    <3>2. i + 1 = j + 1
      BY ONLY <1>5, <1>6, <3>1
    <3> QED
      BY ONLY <1>5, <3>2
  <2> QED
    BY <1>4, <2>1 DEF IsInjective
<1>8. \A i \in 1..(n - 1) : p[i] # t
  <2>1. ASSUME NEW i \in 1..(n - 1), p[i] = t
        PROVE  FALSE
    <3>1. queue[i + 1] = queue[1]
      BY ONLY <1>1, <1>3, <2>1
    <3> QED
      BY ONLY <1>5, <1>6, <3>1
  <2> QED
    BY <2>1
<1>9. {p[i] : i \in DOMAIN p} \cup {t} = InLine
  <2>1. ASSUME NEW i \in 1..(n - 1)
        PROVE  p[i] \in InLine
    <3>1. PICK m \in 1..n : p[i] = queue[m]
      BY ONLY <1>3, <1>5
    <3> QED
      BY <1>1, <3>1 DEF InLine
  <2>2. t \in InLine
    BY <1>1, <1>5 DEF InLine
  <2>3. ASSUME NEW u \in InLine, u # t
        PROVE  \E i \in 1..(n - 1) : p[i] = u
    <3>1. PICK m \in 1..n : u = queue[m]
      BY <1>1 DEF InLine
    <3>2. m - 1 \in 1..(n - 1) /\ (m - 1) + 1 = m
      BY <1>1, <1>5, <2>3, <3>1
    <3> QED
      BY <1>3, <3>1, <3>2
  <2> QED
    BY <1>4, <2>1, <2>2, <2>3
<1>10. t \notin {p[i] : i \in DOMAIN p}
  BY <1>4, <1>8
<1>11. /\ Append(p, t) \in Seq(Tasks) /\ IsInjective(Append(p, t))
       /\ {Append(p, t)[i] : i \in DOMAIN Append(p, t)} = {p[i] : i \in DOMAIN p} \cup {t}
  <2>1. p \in Seq(Tasks) /\ IsInjective(p) /\ t \notin {p[i] : i \in DOMAIN p}
    BY <1>3, <1>7, <1>10
  <2>2. /\ Append(p, t) \in Seq(Tasks) /\ IsInjective(Append(p, t))
        /\ {Append(p, t)[i] : i \in DOMAIN Append(p, t)} = {p[i] : i \in DOMAIN p} \cup {t}
        /\ Append(p, t) # <<>>
        /\ p # <<>> => Head(Append(p, t)) = Head(p)
    BY ONLY <2>1, t \in Tasks, LinedUp
  <2> QED
    BY ONLY <2>2
<1> QED
  BY ONLY <1>2, <1>9, <1>11

-----------------------------------------------------------------------------
(* One task moves; the others are where they were.                           *)

\* While its lock is held, or when only the line behind the lock changes.
OthersUndisturbed(t) ==
    \/ Holds(t)
    \/ /\ session' = session /\ child' = child
       /\ \A u : Holds(u) /\ u # t => queue' # <<>> /\ Head(queue') = u

LEMMA OthersFit ==
    ASSUME StdioWorks, NEW t \in Tasks, NEW x, task' = [task EXCEPT ![t] = x],
           OthersUndisturbed(t), \A u : u # t => (u \in InLine' <=> u \in InLine),
           NEW u \in Tasks, u # t
    PROVE  TaskFits(u)'
<1>1. task'[u] = task[u] /\ TaskFits(u)
  BY DEF StdioWorks
<1>2. u \in InLine' <=> u \in InLine
  OBVIOUS
<1>3. CASE Holds(t)
  <2>1. ~Holds(u)
    BY <1>3 DEF Holds
  <2>2. task[u].at \notin Busy
    BY <1>1, <2>1 DEF TaskFits
  <2> QED
    BY <1>1, <1>2, <2>2 DEF TaskFits
<1>4. CASE ~Holds(t)
  <2>1. /\ session' = session /\ child' = child
        /\ Holds(u) => queue' # <<>> /\ Head(queue') = u
    BY <1>4 DEF OthersUndisturbed
  <2> QED
    BY <1>1, <1>2, <2>1 DEF TaskFits, Holds
<1> QED
  BY <1>3, <1>4

\* A step of one task.
LEMMA MoverStep ==
    ASSUME StdioWorks, NEW t \in Tasks, NEW x \in StdioStates(closing'),
           task' = [task EXCEPT ![t] = x], closing' \in Nat, closing' >= closing,
           nextId' \in 1..(MaxIds + 1), queue' \in Seq(Tasks), IsInjective(queue'),
           PipesFit', ChildIsOwned',
           OthersUndisturbed(t), \A u : u # t => (u \in InLine' <=> u \in InLine),
           TaskFits(t)'
    PROVE  StdioWorks'
<1>1. task \in [Tasks -> StdioStates(closing)] /\ closing \in Nat
  BY DEF StdioWorks
<1>2. 0..closing \subseteq 0..closing'
  BY ONLY <1>1, closing' \in Nat, closing' >= closing
<1>3. StdioStates(closing) \subseteq StdioStates(closing')
  BY <1>2 DEF StdioStates
<1>4. task \in [Tasks -> StdioStates(closing')]
  BY <1>1, <1>3
<1>5. task' \in [Tasks -> StdioStates(closing')]
  BY <1>4
<1>6. \A u \in Tasks : TaskFits(u)'
  BY OthersFit
<1>7. (task \in [Tasks -> StdioStates(closing)])'
  BY <1>5 DEF StdioStates
<1> QED
  BY <1>6, <1>7 DEF StdioWorks

-----------------------------------------------------------------------------
(* The steps.                                                                *)

LEMMA RestingIs ==
    ASSUME StdioAssumption, NEW n \in Nat
    PROVE  /\ Resting \in StdioStates(n)
           /\ Resting.at = "idle" /\ Resting.phase = "init"
           /\ Resting.id = 0 /\ Resting.seen = 0 /\ Resting.got = 0
<1>1. 0 \in 0..MaxIds /\ 0 \in 0..n
  BY DEF StdioAssumption
<1> QED
  BY <1>1 DEF Resting, StdioStates

LEMMA TaskNow ==
    ASSUME StdioWorks, NEW t \in Tasks
    PROVE  /\ task[t] \in StdioStates(closing) /\ TaskFits(t)
           /\ task \in [Tasks -> StdioStates(closing)]
           /\ Holds(t) => t \in InLine
           /\ session => child # "none"
           /\ child # "none" /\ ~session =>
                 \E c \in Callers : Holds(c) /\ task[c].phase = "init" /\ task[c].at \in Busy
<1>1. Holds(t) => t \in InLine
  <2>1. SUFFICES ASSUME Holds(t) PROVE t \in InLine
    OBVIOUS
  <2>2. queue \in Seq(Tasks) /\ queue # <<>> /\ Head(queue) = t
    BY <2>1 DEF Holds, StdioWorks
  <2>3. 1 \in DOMAIN queue /\ queue[1] = t
    BY <2>2
  <2> QED
    BY <2>3 DEF InLine
<1> QED
  BY <1>1 DEF StdioWorks, PipesFit, ChildIsOwned, Busy

\* A task that is not at its handshake leaves the child to the session.
LEMMA LeaveStays ==
    ASSUME StdioAssumption, StdioWorks, NEW t \in Tasks, t \in InLine, Leave(t),
           UNCHANGED <<session, child, inbox, outbox, nextId, closing>>, torn' \in BOOLEAN,
           ~(task[t].at \in Busy /\ task[t].phase = "init")
    PROVE  StdioWorks'
<1>1. task' = [task EXCEPT ![t] = Resting] /\ queue' = Without(t)
  BY DEF Leave
<1>2. /\ queue' \in Seq(Tasks) /\ IsInjective(queue') /\ InLine' = InLine \ {t}
      /\ \A u : Holds(u) /\ u # t => queue' # <<>> /\ Head(queue') = u
  BY <1>1, LeftIs
<1>3. Resting \in StdioStates(closing')
  BY RestingIs DEF StdioWorks
<1>4. PipesFit' /\ nextId' \in 1..(MaxIds + 1) /\ closing' \in Nat /\ closing' >= closing
  BY DEF StdioWorks, PipesFit
<1>5. ChildIsOwned'
  <2>1. SUFFICES ASSUME child # "none", ~session
                 PROVE  \E c \in Callers : Holds(c)' /\ task'[c].phase = "init"
                                              /\ task'[c].at \in {"half", "reading"}
    BY DEF ChildIsOwned
  <2>2. PICK c \in Callers : Holds(c) /\ task[c].phase = "init" /\ task[c].at \in Busy
    BY <2>1, TaskNow
  <2>3. c # t /\ c \in Tasks
    BY <2>2 DEF Tasks
  <2>4. task'[c] = task[c]
    BY <1>1, <2>3, TaskNow
  <2> QED
    BY <1>2, <2>2, <2>3, <2>4 DEF Holds, Busy
<1>6. OthersUndisturbed(t) /\ \A u : u # t => (u \in InLine' <=> u \in InLine)
  BY <1>2 DEF OthersUndisturbed
<1>7. TaskFits(t)'
  <2>1. task'[t] = Resting
    BY <1>1, TaskNow
  <2> QED
    BY <1>2, <2>1, RestingIs DEF TaskFits, Lined, Busy
<1> QED
  BY <1>1, <1>2, <1>3, <1>4, <1>5, <1>6, <1>7, MoverStep

\* One that is ends it.
LEMMA LeaveEnds ==
    ASSUME StdioAssumption, StdioWorks, NEW t \in Tasks, Leave(t), Killed,
           UNCHANGED <<session, nextId, closing>>,
           task[t].at \in Busy, task[t].phase = "init"
    PROVE  StdioWorks'
<1>1. task' = [task EXCEPT ![t] = Resting] /\ queue' = Without(t)
  BY DEF Leave
<1>0. Holds(t) /\ ~session /\ t \in InLine
  BY TaskNow DEF TaskFits
<1>2. /\ queue' \in Seq(Tasks) /\ IsInjective(queue') /\ InLine' = InLine \ {t}
  BY <1>0, <1>1, LeftIs
<1>3. Resting \in StdioStates(closing')
  BY RestingIs DEF StdioWorks
<1>4. PipesFit' /\ nextId' \in 1..(MaxIds + 1) /\ closing' \in Nat /\ closing' >= closing
  <2>1. <<>> \in Seq(Ids)
    OBVIOUS
  <2>2. session' = FALSE
    BY <1>0 DEF StdioWorks, PipesFit
  <2>3. /\ torn' \in BOOLEAN /\ child' \in {"none", "alive", "exited"}
        /\ inbox' \subseteq Ids /\ outbox' \in Seq(Ids)
    BY <2>1 DEF Killed
  <2>4. PipesFit'
    BY <2>2, <2>3 DEF PipesFit
  <2> QED
    BY <2>4 DEF StdioWorks
<1>5. ChildIsOwned'
  BY DEF ChildIsOwned, Killed
<1>6. OthersUndisturbed(t) /\ \A u : u # t => (u \in InLine' <=> u \in InLine)
  BY <1>0, <1>2 DEF OthersUndisturbed
<1>7. TaskFits(t)'
  <2>1. task'[t] = Resting
    BY <1>1, TaskNow
  <2> QED
    BY <1>2, <2>1, RestingIs DEF TaskFits, Lined, Busy
<1> QED
  BY <1>1, <1>2, <1>3, <1>4, <1>5, <1>6, <1>7, MoverStep

LEMMA LeaveWithKeeps ==
    ASSUME StdioAssumption, StdioWorks, NEW t \in Tasks, task[t].at \in Lined, LeaveWith(t),
           UNCHANGED <<session, nextId, closing>>
    PROVE  StdioWorks'
<1>1. t \in InLine
  BY TaskNow DEF TaskFits
<1>2. CASE task[t].phase = "init" /\ task[t].at \in Busy
  BY <1>2, LeaveEnds DEF LeaveWith, Busy
<1>3. CASE ~(task[t].phase = "init" /\ task[t].at \in Busy)
  <2>1. torn' \in BOOLEAN
    BY <1>3 DEF LeaveWith, pipes, Busy, StdioWorks, PipesFit
  <2> QED
    BY <1>1, <1>3, <2>1, LeaveStays DEF LeaveWith, pipes, Busy
<1> QED
  BY <1>2, <1>3

LEMMA DropKeeps ==
    ASSUME StdioAssumption, StdioWorks, NEW t \in Tasks, DropRequest(t)
    PROVE  StdioWorks'
<1>1. task[t].at \in Lined /\ UNCHANGED <<session, nextId, closing>>
  BY DEF DropRequest, Lined
<1>2. CASE task[t].at = "half" /\ task[t].phase = "call"
  <2>1. t \in InLine
    BY <1>1, TaskNow DEF TaskFits
  <2> QED
    BY <1>1, <1>2, <2>1, LeaveStays DEF DropRequest
<1>3. CASE ~(task[t].at = "half" /\ task[t].phase = "call")
  BY <1>1, <1>3, LeaveWithKeeps DEF DropRequest
<1> QED
  BY <1>2, <1>3

LEMMA RefusalKeeps ==
    ASSUME StdioAssumption, StdioWorks, NEW t \in Tasks,
           SpawnFails(t) \/ NotInitialized(t) \/ RequestFails(t)
    PROVE  StdioWorks'
<1>1. CASE SpawnFails(t) \/ NotInitialized(t)
  <2>1. /\ task[t].at = "waiting" /\ Holds(t) /\ Leave(t)
        /\ UNCHANGED <<session, pipes, nextId, closing>>
    BY <1>1 DEF SpawnFails, NotInitialized
  <2>2. t \in InLine /\ task[t].at \notin Busy /\ torn' \in BOOLEAN
    BY <2>1, TaskNow DEF Busy, pipes, StdioWorks, PipesFit
  <2> QED
    BY <2>1, <2>2, LeaveStays DEF pipes
<1>2. CASE RequestFails(t)
  BY <1>2, LeaveWithKeeps DEF RequestFails, Lined
<1> QED
  BY <1>1, <1>2

\* A task that is not in line steps into it.
LEMMA EnterKeeps ==
    ASSUME StdioWorks, NEW t \in Tasks, task[t].at \notin Lined,
           NEW x \in StdioStates(closing'), task' = [task EXCEPT ![t] = x],
           x.at = "waiting", x.phase # "close" => t \in Callers /\ x.got = 0,
           x.got # 0 => x.got = x.id,
           queue' = Append(queue, t), closing' \in Nat, closing' >= closing,
           UNCHANGED <<session, pipes, nextId>>
    PROVE  StdioWorks'
<1>1. t \notin InLine /\ ~Holds(t)
  BY TaskNow DEF TaskFits
<1>2. /\ queue' \in Seq(Tasks) /\ IsInjective(queue') /\ InLine' = InLine \cup {t}
      /\ \A u : Holds(u) => queue' # <<>> /\ Head(queue') = u
  <2>1. PICK q : q = queue
    OBVIOUS
  <2>2. q \in Seq(Tasks) /\ IsInjective(q) /\ t \notin {q[i] : i \in DOMAIN q}
    BY <1>1, <2>1 DEF StdioWorks, InLine
  <2>3. /\ Append(q, t) \in Seq(Tasks) /\ IsInjective(Append(q, t))
        /\ {Append(q, t)[i] : i \in DOMAIN Append(q, t)} = {q[i] : i \in DOMAIN q} \cup {t}
        /\ Append(q, t) # <<>>
        /\ q # <<>> => Head(Append(q, t)) = Head(q)
    BY ONLY <2>2, t \in Tasks, LinedUp
  <2>4. queue' = Append(q, t)
    BY <2>1
  <2> QED
    BY ONLY <2>1, <2>3, <2>4 DEF InLine, Holds
<1>3. PipesFit' /\ nextId' \in 1..(MaxIds + 1)
  BY DEF StdioWorks, PipesFit, pipes
<1>4. ChildIsOwned'
  <2>1. SUFFICES ASSUME child # "none", ~session
                 PROVE  \E c \in Callers : Holds(c)' /\ task'[c].phase = "init"
                                              /\ task'[c].at \in {"half", "reading"}
    BY DEF ChildIsOwned, pipes
  <2>2. PICK c \in Callers : Holds(c) /\ task[c].phase = "init" /\ task[c].at \in Busy
    BY <2>1, TaskNow
  <2>3. c # t /\ c \in Tasks
    BY <1>1, <2>2 DEF Tasks
  <2>4. task'[c] = task[c]
    BY <2>3, TaskNow
  <2> QED
    BY <1>2, <2>2, <2>3, <2>4 DEF Holds, Busy
<1>5. OthersUndisturbed(t) /\ \A u : u # t => (u \in InLine' <=> u \in InLine)
  BY <1>2 DEF OthersUndisturbed, pipes
<1>6. TaskFits(t)'
  <2>1. task'[t] = x
    BY TaskNow
  <2> QED
    BY <1>2, <2>1 DEF TaskFits, Lined, Busy
<1> QED
  BY <1>2, <1>3, <1>4, <1>5, <1>6, MoverStep

LEMMA ArrivalKeeps ==
    ASSUME StdioAssumption, StdioWorks, NEW t \in Tasks,
           (t \in Callers /\ Call(t)) \/ Close(t)
    PROVE  StdioWorks'
<1>0. closing \in Nat /\ task[t] \in StdioStates(closing) /\ TaskFits(t)
  BY TaskNow DEF StdioWorks
<1>1. CASE t \in Callers /\ Call(t)
  <2> DEFINE x == [Resting EXCEPT !.at = "waiting"]
  <2>1. /\ x \in StdioStates(closing) /\ x.at = "waiting" /\ x.phase = "init" /\ x.got = 0
    BY <1>0, RestingIs DEF StdioStates, Lined
  <2>2. /\ task' = [task EXCEPT ![t] = x] /\ task[t].at = "idle"
        /\ queue' = Append(queue, t) /\ UNCHANGED <<session, pipes, nextId>> /\ closing' = closing
    BY <1>1 DEF Call
  <2> HIDE DEF x
  <2>3. x \in StdioStates(closing') /\ closing' \in Nat /\ closing' >= closing
        /\ task[t].at \notin Lined
    BY <1>0, <2>1, <2>2 DEF Lined
  <2> QED
    BY <1>1, <2>1, <2>2, <2>3, EnterKeeps
<1>2. CASE Close(t)
  <2> DEFINE x == [task[t] EXCEPT !.at = "waiting", !.phase = "close"]
  <2>1. closing' = closing + 1 /\ closing' \in Nat /\ closing' >= closing
        /\ 0..closing \subseteq 0..closing'
    BY <1>0, <1>2 DEF Close
  <2>2. /\ x \in StdioStates(closing') /\ x.at = "waiting" /\ x.phase = "close"
        /\ x.got = task[t].got /\ x.id = task[t].id
    BY <1>0, <2>1 DEF StdioStates, Lined
  <2>3. /\ task' = [task EXCEPT ![t] = x] /\ task[t].at = "idle"
        /\ queue' = Append(queue, t) /\ UNCHANGED <<session, pipes, nextId>>
    BY <1>2, TaskNow DEF Close
  <2> HIDE DEF x
  <2>4. x.got # 0 => x.got = x.id
    BY <1>0, <2>2 DEF TaskFits
  <2>5. task[t].at \notin Lined
    BY <2>3 DEF Lined
  <2> QED
    BY <2>1, <2>2, <2>3, <2>4, <2>5, EnterKeeps
<1> QED
  BY <1>1, <1>2

\* The holder of the lock moves on, without leaving it or its place in line.
LEMMA HolderKeeps ==
    ASSUME StdioWorks, NEW t \in Tasks, Holds(t),
           NEW x \in StdioStates(closing), task' = [task EXCEPT ![t] = x],
           queue' \in Seq(Tasks), IsInjective(queue'), InLine' \in {InLine, InLine \ {t}},
           closing' = closing, nextId' \in 1..(MaxIds + 1), PipesFit', ChildIsOwned',
           TaskFits(t)'
    PROVE  StdioWorks'
<1>1. OthersUndisturbed(t) /\ \A u : u # t => (u \in InLine' <=> u \in InLine)
  BY DEF OthersUndisturbed
<1>2. closing' \in Nat /\ closing' >= closing
  BY DEF StdioWorks
<1> QED
  BY <1>1, <1>2, MoverStep

LEMMA ReuseKeeps ==
    ASSUME StdioWorks, NEW t \in Tasks, Reuse(t)
    PROVE  StdioWorks'
<1> DEFINE x == [task[t] EXCEPT !.phase = "call"]
<1>1. /\ task' = [task EXCEPT ![t] = x] /\ Holds(t) /\ session
      /\ task[t].at = "waiting" /\ task[t].phase = "init"
      /\ queue' = Append(Tail(queue), t) /\ UNCHANGED <<session, pipes, nextId, closing>>
  BY TaskNow DEF Reuse
<1>2. /\ x \in StdioStates(closing) /\ x.at = "waiting" /\ x.phase = "call"
      /\ x.got = task[t].got /\ x.id = task[t].id
  BY <1>1, TaskNow DEF StdioStates
<1> HIDE DEF x
<1>3. queue' \in Seq(Tasks) /\ IsInjective(queue') /\ InLine' = InLine
  BY <1>1, AgainLast DEF StdioWorks, InLine
<1>4. PipesFit' /\ ChildIsOwned' /\ nextId' \in 1..(MaxIds + 1) /\ closing' = closing
  BY <1>1 DEF StdioWorks, PipesFit, pipes, ChildIsOwned
<1>5. TaskFits(t)'
  <2>1. task'[t] = x /\ TaskFits(t)
    BY <1>1, TaskNow
  <2> QED
    BY <1>1, <1>2, <1>3, <2>1 DEF TaskFits, Lined, Busy
<1> QED
  BY <1>1, <1>2, <1>3, <1>4, <1>5, HolderKeeps

\* A message begins: a new child for the handshake, or the session's.
LEMMA BeginKeeps ==
    ASSUME StdioAssumption, StdioWorks, NEW t \in Tasks, Spawn(t) \/ BeginRequest(t)
    PROVE  StdioWorks'
<1> DEFINE x == [task[t] EXCEPT !.at = "half", !.id = nextId, !.seen = closing]
<1>1. /\ task' = [task EXCEPT ![t] = x] /\ Holds(t) /\ task[t].at = "waiting"
      /\ nextId <= MaxIds /\ nextId' = nextId + 1
      /\ UNCHANGED <<queue, session, closing>>
      /\ \/ task[t].phase = "init" /\ ~session /\ child' = "alive" /\ torn' = FALSE
            /\ inbox' = {} /\ outbox' = <<>>
         \/ task[t].phase = "call" /\ session /\ UNCHANGED pipes
  BY TaskNow DEF Spawn, BeginRequest, BeginMessage
<1>2. /\ nextId \in 0..MaxIds /\ nextId \in Ids /\ closing \in 0..closing
      /\ nextId' \in 1..(MaxIds + 1)
  BY <1>1 DEF StdioWorks, Ids, StdioAssumption
<1>3. /\ x \in StdioStates(closing) /\ x.at = "half" /\ x.phase = task[t].phase
      /\ x.got = task[t].got /\ x.id = nextId
  BY <1>2, TaskNow DEF StdioStates, Lined
<1> HIDE DEF x
<1>4. t \in Callers /\ task[t].got = 0 /\ t \in InLine
  BY <1>1, TaskNow DEF TaskFits, Lined
<1>5. PipesFit' /\ child' # "none"
  <2>1. <<>> \in Seq(Ids)
    OBVIOUS
  <2> QED
    BY <1>1, <2>1 DEF StdioWorks, PipesFit, pipes
<1>6. queue' \in Seq(Tasks) /\ IsInjective(queue') /\ InLine' = InLine
  BY <1>1 DEF StdioWorks, InLine
<1>7. task'[t] = x
  BY <1>1, TaskNow
<1>8. Holds(t)'
  BY <1>1 DEF Holds
<1>9. ChildIsOwned'
  <2>1. session' \/ (Holds(t)' /\ task'[t].phase = "init" /\ task'[t].at \in {"half", "reading"})
    BY <1>1, <1>3, <1>7, <1>8
  <2> QED
    BY <1>4, <2>1 DEF ChildIsOwned
<1>10. TaskFits(t)'
  <2>1. task'[t].phase # "close" /\ (task'[t].phase = "init" => ~session')
    BY <1>1, <1>3, <1>7
  <2> QED
    BY <1>2, <1>3, <1>4, <1>5, <1>6, <1>7, <1>8, <2>1 DEF TaskFits, Lined, Busy, Ids
<1> QED
  BY <1>1, <1>2, <1>3, <1>5, <1>6, <1>9, <1>10, HolderKeeps

LEMMA FinishKeeps ==
    ASSUME StdioWorks, NEW t \in Tasks, FinishMessage(t)
    PROVE  StdioWorks'
<1> DEFINE x == [task[t] EXCEPT !.at = "reading"]
<1>1. /\ task' = [task EXCEPT ![t] = x] /\ task[t].at = "half" /\ torn' = FALSE
      /\ inbox' \in {inbox, inbox \cup {task[t].id}}
      /\ UNCHANGED <<queue, session, child, outbox, nextId, closing>>
  BY TaskNow DEF FinishMessage
<1>2. TaskFits(t) /\ Holds(t) /\ task[t].phase # "close" /\ task[t].id \in Ids /\ child # "none"
      /\ (task[t].phase = "init" => ~session) /\ t \in Callers /\ task[t].got = 0 /\ t \in InLine
  BY <1>1, TaskNow DEF TaskFits, Busy, Lined
<1>3. /\ x \in StdioStates(closing) /\ x.at = "reading" /\ x.phase = task[t].phase
      /\ x.got = task[t].got /\ x.id = task[t].id
  BY TaskNow DEF StdioStates, Lined
<1> HIDE DEF x
<1>4. PipesFit' /\ nextId' \in 1..(MaxIds + 1) /\ closing' = closing
  BY <1>1, <1>2 DEF StdioWorks, PipesFit
<1>5. queue' \in Seq(Tasks) /\ IsInjective(queue') /\ InLine' = InLine
  BY <1>1 DEF StdioWorks, InLine
<1>6. task'[t] = x /\ Holds(t)'
  BY <1>1, <1>2, TaskNow DEF Holds
<1>7. ChildIsOwned'
  <2>1. SUFFICES ASSUME ~session PROVE task[t].phase = "init"
    BY <1>1, <1>2, <1>3, <1>6 DEF ChildIsOwned
  <2>2. PICK c \in Callers : Holds(c) /\ task[c].phase = "init"
    BY <1>2, <2>1, TaskNow
  <2> QED
    BY <1>2, <2>2 DEF Holds
<1>8. TaskFits(t)'
  BY <1>1, <1>2, <1>3, <1>5, <1>6 DEF TaskFits, Lined, Busy
<1> QED
  BY <1>1, <1>2, <1>3, <1>4, <1>5, <1>7, <1>8, HolderKeeps

LEMMA RestOfAnswers ==
    ASSUME StdioWorks, outbox # <<>>
    PROVE  Tail(outbox) \in Seq(Ids) /\ Head(outbox) \in Ids
BY HeadTailProperties DEF StdioWorks, PipesFit

LEMMA AnsweredKeeps ==
    ASSUME StdioAssumption, StdioWorks, NEW t \in Tasks, Answered(t)
    PROVE  StdioWorks'
<1>1. /\ task[t].at = "reading" /\ outbox # <<>> /\ Head(outbox) = task[t].id
      /\ outbox' = Tail(outbox) /\ UNCHANGED <<child, torn, inbox, nextId, closing>>
  BY DEF Answered, OwnAnswer
<1>2. /\ Holds(t) /\ t \in InLine /\ t \in Callers /\ child # "none"
      /\ task[t].id \in Ids /\ task[t].got = 0
  BY <1>1, TaskNow DEF TaskFits, Busy, Lined
<1>3. outbox' \in Seq(Ids) /\ task[t].id \in 0..MaxIds /\ closing \in Nat
  BY <1>1, <1>2, RestOfAnswers DEF StdioWorks, Ids
<1>4. CASE task[t].phase = "init"
  <2> DEFINE x == [Resting EXCEPT !.at = "waiting", !.phase = "call"]
  <2>1. session' = TRUE /\ queue' = Append(Tail(queue), t) /\ task' = [task EXCEPT ![t] = x]
    BY <1>4 DEF Answered
  <2>2. x \in StdioStates(closing) /\ x.at = "waiting" /\ x.phase = "call" /\ x.got = 0
    BY <1>3, RestingIs DEF StdioStates, Lined
  <2> HIDE DEF x
  <2>3. queue' \in Seq(Tasks) /\ IsInjective(queue') /\ InLine' = InLine
    BY <1>2, <2>1, AgainLast DEF StdioWorks, InLine
  <2>4. PipesFit' /\ nextId' \in 1..(MaxIds + 1) /\ closing' = closing
    BY <1>1, <1>2, <1>3, <2>1 DEF StdioWorks, PipesFit
  <2>5. ChildIsOwned'
    BY <2>1 DEF ChildIsOwned
  <2>6. task'[t] = x
    BY <2>1, TaskNow
  <2>7. TaskFits(t)'
    BY <1>2, <2>2, <2>3, <2>6 DEF TaskFits, Lined, Busy
  <2> QED
    BY <1>2, <2>1, <2>2, <2>3, <2>4, <2>5, <2>7, HolderKeeps
<1>5. CASE task[t].phase = "call"
  <2> DEFINE x == [Resting EXCEPT !.id = task[t].id, !.got = Head(outbox)]
  <2>1. session' = session /\ queue' = Without(t) /\ task' = [task EXCEPT ![t] = x]
    BY <1>5 DEF Answered
  <2>2. x \in StdioStates(closing) /\ x.at = "idle" /\ x.got = x.id
    BY <1>1, <1>3, RestingIs DEF StdioStates, Lined
  <2> HIDE DEF x
  <2>3. queue' \in Seq(Tasks) /\ IsInjective(queue') /\ InLine' = InLine \ {t}
    BY <1>2, <2>1, LeftIs
  <2>4. PipesFit' /\ nextId' \in 1..(MaxIds + 1) /\ closing' = closing
    BY <1>1, <1>2, <1>3, <2>1 DEF StdioWorks, PipesFit
  <2>5. ChildIsOwned'
    <3>1. session
      <4>1. SUFFICES ASSUME ~session PROVE FALSE
        BY DEF StdioWorks, PipesFit
      <4>2. PICK c \in Callers : Holds(c) /\ task[c].phase = "init"
        BY <1>2, <4>1, TaskNow
      <4> QED
        BY <1>2, <1>5, <4>2 DEF Holds
    <3> QED
      BY <2>1, <3>1 DEF ChildIsOwned
  <2>6. task'[t] = x
    BY <2>1, TaskNow
  <2>7. TaskFits(t)'
    BY <2>2, <2>3, <2>6 DEF TaskFits, Lined, Busy
  <2> QED
    BY <1>2, <2>1, <2>2, <2>3, <2>4, <2>5, <2>7, HolderKeeps
<1> QED
  BY <1>4, <1>5 DEF Answered

LEMMA TerminateKeeps ==
    ASSUME StdioAssumption, StdioWorks, NEW t \in Tasks, Terminate(t)
    PROVE  StdioWorks'
<1> DEFINE x == [Resting EXCEPT !.at = "closed"]
<1>1. /\ Holds(t) /\ task[t].phase = "close" /\ session' = FALSE /\ queue' = Without(t)
      /\ task' = [task EXCEPT ![t] = x] /\ UNCHANGED <<nextId, closing>>
      /\ IF session THEN Killed ELSE UNCHANGED pipes
  BY DEF Terminate
<1>2. t \in InLine /\ closing \in Nat
  BY <1>1, TaskNow DEF StdioWorks
<1>3. x \in StdioStates(closing) /\ x.at = "closed" /\ x.got = 0
  BY <1>2, RestingIs DEF StdioStates
<1> HIDE DEF x
<1>4. queue' \in Seq(Tasks) /\ IsInjective(queue') /\ InLine' = InLine \ {t}
  BY <1>1, <1>2, LeftIs
<1>5. PipesFit' /\ nextId' \in 1..(MaxIds + 1) /\ closing' = closing
  <2>1. <<>> \in Seq(Ids)
    OBVIOUS
  <2> QED
    BY <1>1, <2>1 DEF StdioWorks, PipesFit, Killed, pipes
<1>6. ChildIsOwned'
  <2>1. CASE session
    BY <1>1, <2>1 DEF ChildIsOwned, Killed
  <2>2. CASE ~session
    <3>1. child = "none"
      <4>1. SUFFICES ASSUME child # "none" PROVE FALSE
        OBVIOUS
      <4>2. PICK c \in Callers : Holds(c) /\ task[c].phase = "init"
        BY <2>2, <4>1, TaskNow
      <4> QED
        BY <1>1, <4>2 DEF Holds
    <3> QED
      BY <1>1, <2>2, <3>1 DEF ChildIsOwned, pipes
  <2> QED
    BY <2>1, <2>2
<1>7. task'[t] = x
  BY <1>1, TaskNow
<1>8. TaskFits(t)'
  BY <1>3, <1>4, <1>7 DEF TaskFits, Lined, Busy
<1> QED
  BY <1>1, <1>3, <1>4, <1>5, <1>6, <1>8, HolderKeeps

\* The server answers or exits, and a late answer is skipped: no task moves.
LEMMA PipesKeep ==
    ASSUME StdioWorks, UNCHANGED <<queue, session, nextId, closing, task>>,
           PipesFit', child' = "none" <=> child = "none"
    PROVE  StdioWorks'
<1>1. ASSUME NEW t \in Tasks
      PROVE  TaskFits(t)'
  <2>1. TaskFits(t)
    BY DEF StdioWorks
  <2> QED
    BY <2>1 DEF TaskFits, InLine, Holds
<1>2. ChildIsOwned'
  BY DEF StdioWorks, ChildIsOwned, Holds
<1> QED
  BY <1>1, <1>2 DEF StdioWorks, StdioStates

LEMMA StdioStep ==
    ASSUME StdioAssumption, StdioWorks, [StdioNext]_stdioVars
    PROVE  StdioWorks'
<1>1. CASE UNCHANGED stdioVars
  <2>1. PipesFit'
    BY <1>1 DEF StdioWorks, PipesFit, stdioVars
  <2> QED
    BY <1>1, <2>1, PipesKeep DEF stdioVars
<1>2. ASSUME NEW c \in Callers, Call(c) \/ DropRequest(c)
      PROVE  StdioWorks'
  BY <1>2, ArrivalKeeps, DropKeeps DEF Tasks
<1>3. ASSUME NEW k \in Closers, Close(k)
      PROVE  StdioWorks'
  BY <1>3, ArrivalKeeps DEF Tasks
<1>4. ASSUME NEW t \in Tasks, Progress(t)
      PROVE  StdioWorks'
  <2>1. CASE Skipped(t)
    <3>1. outbox' \in Seq(Ids)
      BY <2>1, RestOfAnswers DEF Skipped
    <3>2. PipesFit'
      BY <2>1, <3>1 DEF Skipped, StdioWorks, PipesFit
    <3> QED
      BY <2>1, <3>2, PipesKeep DEF Skipped
  <2> QED
    BY <1>4, <2>1, ReuseKeeps, BeginKeeps, RefusalKeeps, FinishKeeps, AnsweredKeeps,
       TerminateKeeps DEF Progress
<1>5. ASSUME NEW i \in Ids, Serve(i)
      PROVE  StdioWorks'
  <2>1. outbox' \in Seq(Ids)
    BY <1>5 DEF Serve, StdioWorks, PipesFit
  <2>2. PipesFit'
    BY <1>5, <2>1 DEF Serve, StdioWorks, PipesFit
  <2> QED
    BY <1>5, <2>2, PipesKeep DEF Serve
<1>6. CASE Exit
  <2>1. PipesFit'
    BY <1>6 DEF Exit, StdioWorks, PipesFit
  <2> QED
    BY <1>6, <2>1, PipesKeep DEF Exit
<1> QED
  BY <1>1, <1>2, <1>3, <1>4, <1>5, <1>6 DEF StdioNext

LEMMA StdioStarts == ASSUME StdioAssumption, StdioInit PROVE StdioWorks
<1>1. queue \in Seq(Tasks) /\ IsInjective(queue) /\ InLine = {} /\ queue = <<>>
  <2>1. queue = <<>> /\ DOMAIN queue = {}
    BY DEF StdioInit
  <2> QED
    BY <2>1 DEF IsInjective, InLine
<1>2. PipesFit /\ ChildIsOwned
  <2>1. <<>> \in Seq(Ids)
    OBVIOUS
  <2> QED
    BY <2>1 DEF StdioInit, PipesFit, ChildIsOwned
<1>3. nextId \in 1..(MaxIds + 1) /\ closing \in Nat
  BY DEF StdioInit, StdioAssumption
<1>4. Resting \in StdioStates(closing) /\ Resting.at = "idle" /\ Resting.got = 0
  BY <1>3, RestingIs
<1>5. task \in [Tasks -> StdioStates(closing)] /\ \A t \in Tasks : task[t] = Resting
  BY <1>4 DEF StdioInit
<1>6. \A t \in Tasks : TaskFits(t)
  BY <1>1, <1>4, <1>5 DEF TaskFits, Lined, Busy
<1> QED
  BY <1>1, <1>2, <1>3, <1>5, <1>6 DEF StdioWorks

\* Whoever calls, gives up or closes when: a request gets the answer to itself, and the
\* child is the session's or that of the handshake under way.
\* (transport/stdio/mod.rs:344-399, 565-665)
THEOREM StdioStaysOwned == StdioSpec => []StdioInv
<1>1. StdioInit => StdioWorks
  BY StdioStarts, StdioAssumption
<1>2. StdioWorks /\ [StdioNext]_stdioVars => StdioWorks'
  BY StdioStep, StdioAssumption
<1>3. StdioWorks => StdioInv
  BY WorksIsInv
<1> QED
  BY <1>1, <1>2, <1>3, PTL DEF StdioSpec

=============================================================================
