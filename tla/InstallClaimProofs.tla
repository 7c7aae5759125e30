------------------------- MODULE InstallClaimProofs -------------------------
(***************************************************************************)
(* Proofs about InstallClaim: one name never holds two installs when twice *)
(* Patience is less than the lease, and what is left when all is quiet.    *)
(* And about ConfigDocument, which rewrites installs: a document that was  *)
(* applied is what the store says, and applying it again changes nothing.  *)
(***************************************************************************)
EXTENDS InstallClaim, ConfigDocument, TLAPS

\* An installer that has not written its row yet may still do so.
BeforePut == {"idle", "find", "lookup", "query", "claim", "held", "holder", "lease", "take"}
MayPut(i) == pc[i] \in BeforePut \cup {"put"}

\* Its row is not there and never will be.
Gone(i) == i \notin rows /\ ~MayPut(i)

(* Where rows, claims and what was read of them come from. *)
PlacesMatch ==
    /\ \A i \in rows : pc[i] \in {"verify", "backout", "secret", "installed", "failed", "crashed"}
    /\ claim # None => pc[claim] \notin BeforePut
    /\ \A i \in Installers :
          pc[i] \in {"holder", "lease", "take"} => other[i] # None /\ pc[other[i]] \notin BeforePut
    /\ \A i \in Installers : pc[i] \in {"load", "merge"} => other[i] # None
    /\ \A i \in Installers :
          /\ del[i] # "never" => ~MayPut(i)
          /\ del[i] \in {"secret", "claim", "drop", "forget"} => i \notin rows

(* What the clock says while no insert is late. *)
TimesMatch ==
    /\ \A i \in Installers : at[i] <= clock
    /\ ~late =>
          /\ \A i \in Installers : pc[i] \in Inserting => clock <= at[i] + Patience
          /\ \A i \in Installers : pc[i] = "lease" =>
                Gone(other[i]) \/ at[i] <= at[other[i]] + Patience
          /\ \A i \in Installers : pc[i] = "take" => Gone(other[i])

(* An install that has been verified has the claim for as long as it has a row. *)
VerifiedOwns ==
    ~late => \A i \in rows : pc[i] \in {"secret", "installed"} => claim = i

(* Without a mishap nothing is left by the way. *)
NothingLeft ==
    /\ \A i \in Installers : pc[i] = "backout" => claim # i
    /\ mishaps = 0 =>
          /\ \A i \in rows : pc[i] \in {"verify", "backout", "secret", "installed"}
          /\ claim # None =>
                pc[claim] = "put" \/ claim \in rows \/ del[claim] \in {"secret", "claim", "drop"}


(* The inductive invariant. *)
ClaimInv == InstallTypeOK /\ PlacesMatch /\ TimesMatch /\ VerifiedOwns /\ NothingLeft

-----------------------------------------------------------------------------
(* The steps.                                                              *)

LEMMA ClaimInit == Init => ClaimInv
<1> SUFFICES ASSUME Init PROVE ClaimInv
    OBVIOUS
<1>1. InstallTypeOK
  <2>1. {} \in SUBSET Installers
        OBVIOUS
  <2>2. secret \in [Installers -> SUBSET Installers] /\ merged \in [Installers -> SUBSET Installers]
        BY <2>1 DEF Init
  <2>3. clock \in 0..MaxTime /\ mishaps \in 0..MaxMishaps /\ at \in [Installers -> 0..MaxTime]
        BY InstallAssumption DEF Init
  <2>4. other \in [Installers -> Installers \cup {None}]
        BY DEF Init
  <2> QED BY <2>2, <2>3, <2>4 DEF Init, InstallTypeOK
<1>2. \A i \in Installers : pc[i] = "idle" /\ at[i] = 0 /\ del[i] = "never"
      BY DEF Init
<1>3. PlacesMatch /\ NothingLeft /\ VerifiedOwns
      BY <1>2 DEF Init, PlacesMatch, NothingLeft, VerifiedOwns
<1>4. TimesMatch
      BY <1>2, InstallAssumption DEF Init, TimesMatch, Inserting
<1> QED BY <1>1, <1>3, <1>4 DEF ClaimInv

\* A claim is taken from an owner that is gone: the taker stamped its own claim while the
\* owner was still at work, or found the owner gone, and the lease is more than both take.
LEMMA InstallKeeps ==
    ASSUME ClaimInv, 2 * Patience < Lease, NEW i \in Installers, InstallStep(i)
    PROVE  ClaimInv'
<1> USE InstallAssumption DEF ClaimInv, InstallTypeOK, PlacesMatch, TimesMatch, VerifiedOwns, NothingLeft, Gone,
            MayPut, BeforePut, Inserting, Running, Ended, Deleting
<1>1. CASE Begin(i)
      BY <1>1 DEF Begin, Goto
<1>2. CASE Find(i)
      BY <1>2 DEF Find, FindOr, Goto, LetGo, Fault, Mishap
<1>3. CASE Lost(i)
      BY <1>3 DEF Lost, FindOr, Goto, LetGo, Fault, Mishap
<1>4. CASE Lookup(i)
      BY <1>4 DEF Lookup, ClaimedAt, Goto
<1>5. CASE Query(i)
      BY <1>5 DEF Query, Goto, Fault, Mishap
<1>6. CASE PutClaim(i)
      BY <1>6 DEF PutClaim, Goto, Fault, Mishap
<1>7. CASE GetClaim(i)
      BY <1>7 DEF GetClaim, Goto, Fault, Mishap
<1>8. CASE GetHolder(i)
      BY <1>8 DEF GetHolder, Goto, Fault, Mishap
<1>9. CASE CheckLease(i)
      BY <1>9 DEF CheckLease, Expired, Goto
<1>10. CASE TakeClaim(i)
      BY <1>10 DEF TakeClaim, Goto, LetGo, Fault, Mishap
<1>11. CASE PutRow(i)
      BY <1>11 DEF PutRow, Goto, Fault, Mishap
<1>12. CASE ReleaseClaim(i)
      BY <1>12 DEF ReleaseClaim, Goto, Fault, Mishap
<1>13. CASE DropClaim(i)
      BY <1>13 DEF DropClaim, Goto, Fault, Mishap
<1>14. CASE Verify(i)
      BY <1>14 DEF Verify, Goto, Fault, Mishap
<1>15. CASE BackOut(i)
      BY <1>15 DEF BackOut, Goto, Fault, Mishap
<1>16. CASE StoreSecret(i)
      BY <1>16 DEF StoreSecret, Goto, Fault, Mishap
<1>17. CASE LoadSecret(i)
      BY <1>17 DEF LoadSecret, Goto, Fault, Mishap
<1>18. CASE MergeSecret(i)
      BY <1>18 DEF MergeSecret, Goto, LetGo, Fault, Mishap
<1> QED BY <1>1, <1>2, <1>3, <1>4, <1>5, <1>6, <1>7, <1>8, <1>9, <1>10, <1>11, <1>12, <1>13,
           <1>14, <1>15, <1>16, <1>17, <1>18 DEF InstallStep

\* An uninstall takes away the row before the claim, and its own claim only.
LEMMA DeleteKeeps ==
    ASSUME ClaimInv, 2 * Patience < Lease, NEW i \in Installers, DeleteStep(i)
    PROVE  ClaimInv'
<1> USE InstallAssumption DEF ClaimInv, InstallTypeOK, PlacesMatch, TimesMatch, VerifiedOwns, NothingLeft, Gone,
            MayPut, BeforePut, Inserting, Running, Ended, Deleting
<1>1. CASE BeginDelete(i)
      BY <1>1 DEF BeginDelete, DeleteGoto
<1>2. CASE DeleteGet(i)
      BY <1>2 DEF DeleteGet, DeleteGoto, DeleteFault, Mishap
<1>3. CASE DeleteRow(i)
      BY <1>3 DEF DeleteRow, DeleteGoto, DeleteFault, Mishap
<1>4. CASE DeleteSecret(i)
      BY <1>4 DEF DeleteSecret, DeleteGoto, DeleteFault, Mishap
<1>5. CASE DeleteGetClaim(i)
      BY <1>5 DEF DeleteGetClaim, DeleteGoto, DeleteFault, Mishap
<1>6. CASE DeleteClaim(i)
      BY <1>6 DEF DeleteClaim, DeleteGoto, DeleteFault, Mishap
<1> QED BY <1>1, <1>2, <1>3, <1>4, <1>5, <1>6 DEF DeleteStep

\* The clock moves on, and is past the patience of nobody unless somebody is late.
LEMMA TickKeeps ==
    ASSUME ClaimInv, Tick
    PROVE  ClaimInv'
<1>1. clock' = clock + 1 /\ clock \in Nat /\ clock' \in 0..MaxTime
      BY InstallAssumption DEF Tick, ClaimInv, InstallTypeOK
<1>2. late' \in BOOLEAN
      BY DEF Tick
<1>3. ~late' =>
        ~late /\ \A i \in Installers : ~(pc[i] \in Inserting /\ clock' - at[i] > Patience)
      BY DEF Tick
<1>4. TimesMatch'
  <2>1. \A i \in Installers : at[i] \in Nat /\ at[i] <= clock'
        BY <1>1, InstallAssumption DEF ClaimInv, InstallTypeOK, TimesMatch
  <2>2. ~late' => \A i \in Installers : pc[i] \in Inserting => clock' <= at[i] + Patience
        BY <1>1, <1>3, <2>1, InstallAssumption
  <2> QED BY <1>3, <2>1, <2>2 DEF Tick, ClaimInv, TimesMatch, Gone, MayPut
<1>5. VerifiedOwns'
      BY <1>3 DEF Tick, ClaimInv, VerifiedOwns
<1>6. InstallTypeOK' /\ PlacesMatch' /\ NothingLeft'
      BY <1>1, <1>2
         DEF Tick, ClaimInv, InstallTypeOK, PlacesMatch, NothingLeft, MayPut
<1> QED BY <1>4, <1>5, <1>6 DEF ClaimInv

\* A crash ends what runs and leaves the documents and the clock.
LEMMA CrashKeeps ==
    ASSUME ClaimInv, Crash
    PROVE  ClaimInv'
BY InstallAssumption
   DEF Crash, Mishap, ClaimInv, InstallTypeOK, PlacesMatch, TimesMatch, VerifiedOwns, NothingLeft,
       Gone, MayPut, BeforePut, Inserting, Running, Ended, Deleting

\* Patience and the lease are such that a prompt insert cannot lose its claim.
THEOREM ClaimsMatch ==
    ASSUME 2 * Patience < Lease
    PROVE  Spec => []ClaimInv
<1>1. Init => ClaimInv
      BY ClaimInit
<1>2. ClaimInv /\ [Next]_vars => ClaimInv'
  <2> SUFFICES ASSUME ClaimInv, [Next]_vars PROVE ClaimInv'
      OBVIOUS
  <2>1. CASE UNCHANGED vars
        BY <2>1
           DEF vars, ClaimInv, InstallTypeOK, PlacesMatch, TimesMatch, VerifiedOwns, NothingLeft,
               Gone, MayPut
  <2> QED BY <2>1, InstallKeeps, DeleteKeeps, TickKeeps, CrashKeeps DEF Next
<1> QED BY <1>1, <1>2, PTL DEF Spec

\* One name never holds two installs that were reported as such, whatever the installers,
\* the uninstalls, crashes and failing store calls did, as long as no insert takes longer
\* than Patience. "if it no longer names us, back out so one name never holds two installs"
\* (store/types.rs:291-292)
THEOREM NameHasOneInstall ==
    ASSUME 2 * Patience < Lease
    PROVE  Spec => []OneInstallPerName
<1>1. ClaimInv => OneInstallPerName
      BY DEF ClaimInv, VerifiedOwns, OneInstallPerName, PlacesMatch
<1> QED BY <1>1, ClaimsMatch, PTL

\* When everything has returned and nothing failed, the rows are those that were reported
\* and the claim names the row that is there (store/types.rs:262-316).
THEOREM QuietIsClean ==
    ASSUME 2 * Patience < Lease
    PROVE  Spec => []InstallInv
<1>1. ASSUME ClaimInv, Quiet
      PROVE  RowsAreReported /\ ClaimMatchesRows
  <2>1. \A i \in rows : pc[i] = "installed"
        BY <1>1 DEF ClaimInv, InstallTypeOK, NothingLeft, Quiet, Ended
  <2>2. ~late => \A i \in rows : claim = i /\ i # None
        BY <1>1, <2>1, InstallAssumption DEF ClaimInv, InstallTypeOK, VerifiedOwns
  <2>3. claim # None => claim \in rows
        BY <1>1 DEF ClaimInv, InstallTypeOK, NothingLeft, Quiet, Ended
  <2> QED BY <2>1, <2>2, <2>3 DEF RowsAreReported, ClaimMatchesRows
<1>2. ClaimInv => InstallInv
      BY <1>1 DEF ClaimInv, InstallInv, RowsAreReported, ClaimMatchesRows
<1> QED BY <1>2, ClaimsMatch, PTL

-----------------------------------------------------------------------------
(* ConfigDocument: a document that was applied is what the store says.     *)

(* The shape of the state.  Every store an apply knows of holds such rows.   *)
DocRows == [name : Names, dial : Dials, on : BOOLEAN, names : SUBSET {"user", "signedIn"}]
RowTables == [Ids -> DocRows \cup {NoRow}]
Stages == {"idle", "removing", "rewrite", "insert", "restore", "renames", "merge", "set",
           "names", "session", "done", "failed"}
Working == Stages \ {"idle", "removing", "done", "failed"}
DocTasks ==
    [at : Stages, doc : Documents \cup {<<>>}, snap : RowTables \cup {<<>>},
     left : SUBSET Ids, todo : SUBSET Names, name : Names \cup {"none"}, id : Ids \cup {0},
     stored : Secrets, want : Secrets, moved : BOOLEAN]

StoreShape ==
    /\ row \in RowTables /\ credentials \in [Ids -> Secrets] /\ minted \in 0..MaxIds
    /\ DOMAIN live = Ids
    /\ \A i \in Ids : i > minted => row[i] = NoRow /\ credentials[i] = NoSecret
    /\ \A i \in Ids : live[i] # NoSession => row[i] # NoRow /\ row[i].on

\* What the locals of an apply say, whoever else is at work; top is minted.
TaskFits(t, b, top) ==
    /\ t.at \notin {"idle", "failed"} =>
          t.doc \in Documents /\ t.snap = b.row /\ t.todo \subseteq DOMAIN t.doc
    /\ t.at \in Working => t.id \in 1..top /\ t.name \in DOMAIN t.doc

TaskShape ==
    /\ task \in [Appliers -> DocTasks]
    /\ before \in [Appliers -> [row : RowTables, secret : [Ids -> Secrets]]]
    /\ alone \in [Appliers -> BOOLEAN]
    /\ \A a \in Appliers, i \in Ids : i > minted => before[a].row[i] = NoRow
    /\ \A a \in Appliers : TaskFits(task[a], before[a], minted)

(* An apply compares the store with b, the one it found when it began. *)
Bears(table, i, n) == table[i] # NoRow /\ table[i].name = n
Held(b, n) == {i \in Ids : Bears(b.row, i, n)}
Orderly(b) ==
    /\ \A i, j \in Ids : b.row[i] # NoRow /\ b.row[j] # NoRow /\ b.row[i].name = b.row[j].name => i = j
    /\ \A i \in Ids : b.row[i] # NoRow => b.row[i].names = CredentialNames(b.secret[i])

\* The server an entry comes to: the one that has its name, or else a new one.
Heir(b, i, n) == IF Held(b, n) = {} THEN b.row[i] = NoRow ELSE i \in Held(b, n)
Stored(b, i) == IF b.row[i] = NoRow THEN NoSecret ELSE b.secret[i]
Says1(n, d, s) == [name |-> n, dial |-> d.dial, on |-> d.on, names |-> CredentialNames(s)]

\* An entry whose turn has not come.
Waiting(b, n) ==
    \A i \in Ids : Bears(row, i, n) \/ i \in Held(b, n) =>
        row[i] = b.row[i] /\ credentials[i] = b.secret[i]

\* An entry that is what the store says.
Settled(b, n, d) ==
    \E i \in Ids :
        /\ Heir(b, i, n) /\ \A j \in Ids : Bears(row, j, n) => j = i
        /\ credentials[i] = MergeCredentials(Stored(b, i), d.user)
        /\ row[i] = Says1(n, d, credentials[i])

\* The entry at work, step by step.
AtWork(b, t) ==
    LET k == t.id
        n == t.name
        d == t.doc[n]
        wanted == MergeCredentials(t.stored, d.user)
    IN  /\ k \in Ids /\ n \in DOMAIN t.doc \ t.todo /\ t.left = {}
        /\ Heir(b, k, n) /\ t.stored = Stored(b, k)
        /\ \A j \in Ids : Bears(row, j, n) => j = k
        /\ t.moved => b.row[k] # NoRow
        /\ t.at = "rewrite" => t.moved /\ row[k] = b.row[k]
        /\ t.at = "rewrite" => credentials[k] = b.secret[k]
        /\ t.at = "insert" => t.moved /\ row[k] = NoRow
        /\ t.at \in {"restore", "renames"} => t.moved /\ t.want = t.stored
        /\ t.at \in {"restore", "renames"} => row[k] = ToInstalled(n, d)
        /\ t.at \in {"renames", "merge", "set"} => credentials[k] = t.stored
        /\ t.at \in {"merge", "set", "names"} => row[k] = Says1(n, d, t.stored)
        /\ t.at \in {"set", "names", "session"} => t.want = wanted
        /\ t.at \in {"names", "session"} => credentials[k] = wanted
        /\ t.at = "session" => row[k] = Says1(n, d, wanted)

\* The sessions: one that is not what it was is the entry's whose sessions will end.
SessionsFollow(b, t) ==
    /\ \A i \in Ids : b.row[i] = NoRow => live[i] = NoSession
    /\ \A i \in Ids :
          \/ live[i] = NoSession
          \/ row[i].dial = b.row[i].dial /\ credentials[i].user = b.secret[i].user
          \/ t.at \in {"names", "session"} /\ i = t.id
    /\ t.at \in {"insert", "restore", "renames", "merge", "set", "names", "session"} /\ t.moved
          => live[t.id] = NoSession

(* What an apply that has the store to itself has made of it so far: what is left to *)
(* remove and the other entries, the one at work, and the sessions.                  *)
Rest(b, t) ==
    /\ Orderly(b)
    /\ \A i \in t.left : b.row[i] # NoRow /\ b.row[i].name \notin DOMAIN t.doc /\ row[i] = b.row[i]
    /\ \A i \in Ids : row[i] # NoRow /\ row[i].name \notin DOMAIN t.doc => i \in t.left
    /\ \A n \in t.todo : Waiting(b, n)
    /\ \A n \in DOMAIN t.doc \ t.todo :
          Settled(b, n, t.doc[n]) \/ (t.at \in Working /\ n = t.name)
Follows(b, t) ==
    /\ Rest(b, t) /\ SessionsFollow(b, t)
    /\ t.at \in Working => AtWork(b, t)
    /\ t.at = "done" => t.left = {} /\ t.todo = {}

\* What the store said already is left as it is.
Tells(b, doc) ==
    \A n \in Names :
        IF n \in DOMAIN doc
        THEN \E i \in Held(b, n) :
                /\ SameDial(doc[n], b.row[i])
                /\ MergeCredentials(b.secret[i], doc[n].user) = b.secret[i]
        ELSE Held(b, n) = {}
LeavesAlone(b, t) ==
    Tells(b, t.doc) =>
        /\ t.at \in {"removing", "merge", "done"} /\ t.left = {}
        /\ t.at = "merge" => MergeCredentials(t.stored, t.doc[t.name].user) = t.stored

(* The inductive invariant. *)
DocInv ==
    /\ StoreShape /\ TaskShape
    /\ \A a \in Appliers : \A b \in {before[a]}, t \in {task[a]} :
          alone[a] /\ t.at \notin {"idle", "failed"} => Follows(b, t) /\ LeavesAlone(b, t)

-----------------------------------------------------------------------------
(* The shape of the state.                                                 *)

LEMMA SecretFacts ==
    /\ NoSecret \in Secrets /\ CredentialNames(NoSecret) = {}
    /\ \A s \in Secrets : CredentialNames(s) \in SUBSET {"user", "signedIn"}
    /\ \A s \in Secrets, w \in {"unsaid", "", "v"} : MergeCredentials(s, w) \in Secrets
    /\ \A s \in Secrets : [s EXCEPT !.signedIn = TRUE] \in Secrets
BY DEF NoSecret, Secrets, CredentialNames, MergeCredentials

LEMMA DocumentFacts ==
    ASSUME NEW doc \in Documents
    PROVE  DOMAIN doc \subseteq Names /\ \A n \in DOMAIN doc : doc[n] \in Declarations
<1>1. PICK S \in SUBSET Names : doc \in [S -> Declarations]
      BY DEF Documents
<1> QED
    BY <1>1

LEMMA RowFacts ==
    /\ \A r \in DocRows : r # NoRow
    /\ \A r \in DocRows, s \in SUBSET {"user", "signedIn"} : [r EXCEPT !.names = s] \in DocRows
    /\ \A n \in Names, d \in Declarations : ToInstalled(n, d) \in DocRows
    /\ \A n \in Names, d \in Declarations, s \in Secrets : Says1(n, d, s) \in DocRows
<1>1. \A r \in DocRows : r # NoRow
      BY DocumentAssumption DEF DocRows, NoRow
<1>2. \A r \in DocRows, s \in SUBSET {"user", "signedIn"} : [r EXCEPT !.names = s] \in DocRows
      BY DEF DocRows
<1>3. \A n \in Names, d \in Declarations : ToInstalled(n, d) \in DocRows
      BY DEF DocRows, ToInstalled, Declarations
<1>4. \A n \in Names, d \in Declarations, s \in Secrets : Says1(n, d, s) \in DocRows
      BY SecretFacts DEF DocRows, Says1, Declarations
<1> QED
    BY <1>1, <1>2, <1>3, <1>4

LEMMA ShapeInit == DocInit => StoreShape /\ TaskShape
<1> SUFFICES ASSUME DocInit PROVE StoreShape /\ TaskShape
    OBVIOUS
<1>1. StoreShape
  <2>1. row \in RowTables /\ credentials \in [Ids -> Secrets]
        BY SecretFacts DEF DocInit, RowTables
  <2>2. minted \in 0..MaxIds /\ DOMAIN live = Ids
        BY DocumentAssumption DEF DocInit
  <2>3. \A i \in Ids : row[i] = NoRow /\ credentials[i] = NoSecret /\ live[i] = NoSession
        BY DEF DocInit
  <2> QED
      BY <2>1, <2>2, <2>3 DEF StoreShape
<1>2. Idle \in DocTasks
  <2>1. <<>> \in Documents \cup {<<>>} /\ <<>> \in RowTables \cup {<<>>}
        OBVIOUS
  <2> QED
      BY <2>1, SecretFacts DEF Idle, DocTasks, Stages
<1>3. task \in [Appliers -> DocTasks] /\ alone \in [Appliers -> BOOLEAN]
      BY <1>2 DEF DocInit
<1>4. row \in RowTables /\ credentials \in [Ids -> Secrets]
      BY <1>1 DEF StoreShape
<1>5. before \in [Appliers -> [row : RowTables, secret : [Ids -> Secrets]]]
      BY <1>4 DEF DocInit
<1>6. \A a \in Appliers : TaskFits(task[a], before[a], minted)
      BY DEF DocInit, TaskFits, Idle, Working, Stages
<1>7. \A a \in Appliers, i \in Ids : i > minted => before[a].row[i] = NoRow
      BY DEF DocInit
<1> QED
    BY <1>1, <1>3, <1>5, <1>6, <1>7 DEF TaskShape

\* A task moves on while the stores the applies began with stay.
LEMMA TaskMoves ==
    ASSUME TaskShape, NEW a \in Appliers, NEW u \in DocTasks,
           task' = [task EXCEPT ![a] = u], before' = before, alone' \in [Appliers -> BOOLEAN],
           minted \in Nat, minted' \in Nat, minted' >= minted, TaskFits(u, before[a], minted')
    PROVE  TaskShape'
<1>1. task' \in [Appliers -> DocTasks]
      BY DEF TaskShape
<1>2. \A i \in Ids : i \in Nat
      BY DEF Ids
<1>3. ASSUME NEW c \in Appliers PROVE TaskFits(task'[c], before'[c], minted')
  <2>1. CASE c = a
        BY <2>1 DEF TaskShape
  <2>2. CASE c # a
    <3>1. TaskFits(task[c], before[c], minted) /\ task'[c] = task[c]
          BY <2>2 DEF TaskShape
    <3>2. 1..minted \subseteq 1..minted'
          OBVIOUS
    <3> QED
        BY <3>1, <3>2 DEF TaskFits
  <2> QED
      BY <2>1, <2>2
<1>4. ASSUME NEW c \in Appliers, NEW i \in Ids, i > minted' PROVE before'[c].row[i] = NoRow
      BY <1>2, <1>4, i > minted DEF TaskShape
<1> QED
    BY <1>1, <1>3, <1>4 DEF TaskShape

\* A row or a secret of a server that was minted, while its session stays.
LEMMA StoreMoves ==
    ASSUME StoreShape, NEW k \in Ids, minted' \in 0..MaxIds, minted' >= minted, k <= minted',
           NEW r \in DocRows \cup {NoRow}, NEW s \in Secrets,
           row' = [row EXCEPT ![k] = r], credentials' = [credentials EXCEPT ![k] = s],
           DOMAIN live' = Ids, \A i \in Ids \ {k} : live'[i] = live[i] \/ live'[i] = NoSession,
           live'[k] = NoSession \/ (r # NoRow /\ r.on)
    PROVE  StoreShape'
<1>1. row' \in RowTables /\ credentials' \in [Ids -> Secrets]
      BY DEF StoreShape, RowTables
<1>2. ASSUME NEW i \in Ids, i > minted' PROVE row'[i] = NoRow /\ credentials'[i] = NoSecret
  <2>1. i # k /\ i > minted
        BY <1>2 DEF Ids, StoreShape
  <2> QED
      BY <2>1 DEF StoreShape, RowTables
<1>3. ASSUME NEW i \in Ids, live'[i] # NoSession PROVE row'[i] # NoRow /\ row'[i].on
      BY <1>3 DEF StoreShape, RowTables
<1> QED
    BY <1>1, <1>2, <1>3 DEF StoreShape

\* The parts the steps of an apply are taken with.
LEMMA TaskFacts ==
    ASSUME StoreShape, TaskShape, NEW a \in Appliers
    PROVE  /\ task[a] \in DocTasks /\ before[a] \in [row : RowTables, secret : [Ids -> Secrets]]
           /\ minted \in Nat /\ minted \in 0..MaxIds /\ TaskFits(task[a], before[a], minted)
           /\ Ids \subseteq Nat /\ \A i \in 1..minted : i \in Ids
           /\ \A i \in Ids : before[a].row[i] # NoRow => i \in 1..minted
<1>1. minted \in 0..MaxIds /\ Ids \subseteq Nat
      BY DEF StoreShape, Ids
<1>2. ASSUME NEW i \in Ids, before[a].row[i] # NoRow PROVE i \in 1..minted
      BY <1>1, <1>2 DEF TaskShape, Ids
<1>3. \A i \in 1..minted : i \in Ids
      BY <1>1, DocumentAssumption DEF Ids
<1> QED
    BY <1>1, <1>2, <1>3, DocumentAssumption DEF TaskShape

LEMMA BeginShape ==
    ASSUME StoreShape, TaskShape, NEW a \in Appliers, NEW doc \in Documents, BeginApply(a, doc)
    PROVE  StoreShape' /\ TaskShape'
<1> USE DEF BeginApply
<1>1. StoreShape'
      BY DEF storeVars, StoreShape
<1> DEFINE here == [row |-> row, secret |-> credentials]
           out == {i \in Installed : row[i].name \notin DOMAIN doc}
<1>2. PICK u : u = [Idle EXCEPT !.at = "removing", !.doc = doc, !.snap = row, !.todo = DOMAIN doc,
                                !.left = out]
      OBVIOUS
<1>3. u \in DocTasks /\ u.at = "removing" /\ u.doc = doc /\ u.snap = row /\ u.todo = DOMAIN doc
  <2>1. DOMAIN doc \in SUBSET Names /\ out \in SUBSET Ids /\ row \in RowTables
        BY DocumentFacts DEF Installed, StoreShape
  <2> HIDE DEF out
  <2> QED
      BY <1>2, <2>1, SecretFacts DEF Idle, DocTasks, Stages
<1>4. task' = [task EXCEPT ![a] = u] /\ before' = [before EXCEPT ![a] = here]
      BY <1>2 DEF Moves
<1>5. here \in [row : RowTables, secret : [Ids -> Secrets]]
      BY DEF StoreShape
<1> HIDE DEF here
<1>6. task' \in [Appliers -> DocTasks] /\ alone' \in [Appliers -> BOOLEAN]
  <2>1. (OneRowPerName /\ NamesInStep) \in BOOLEAN
        BY DEF OneRowPerName, NamesInStep
  <2> QED
      BY <2>1, <1>3, <1>4 DEF TaskShape
<1>7. before' \in [Appliers -> [row : RowTables, secret : [Ids -> Secrets]]]
      BY <1>4, <1>5 DEF TaskShape
<1>8. minted' = minted /\ here.row = row
      BY DEF here
<1>9. ASSUME NEW c \in Appliers PROVE TaskFits(task'[c], before'[c], minted')
  <2>1. CASE c = a
    <3>1. task'[c] = u /\ before'[c] = here
          BY <2>1, <1>4 DEF TaskShape
    <3>2. TaskFits(u, here, minted)
          BY <1>3, <1>8 DEF TaskFits, Working
    <3> QED
        BY <3>1, <3>2, <1>8
  <2>2. CASE c # a
        BY <2>2, <1>4, <1>8 DEF TaskShape
  <2> QED
      BY <2>1, <2>2
<1>10. ASSUME NEW c \in Appliers, NEW i \in Ids, i > minted' PROVE before'[c].row[i] = NoRow
  <2>1. CASE c = a
        BY <2>1, <1>4, <1>8, <1>10 DEF TaskShape, StoreShape
  <2>2. CASE c # a
        BY <2>2, <1>4, <1>8, <1>10 DEF TaskShape
  <2> QED
      BY <2>1, <2>2
<1> QED
    BY <1>1, <1>6, <1>7, <1>9, <1>10 DEF TaskShape

LEMMA OtherShape == ASSUME StoreShape, TaskShape, OtherStep PROVE StoreShape' /\ TaskShape'
<1>1. UNCHANGED <<task, before>> /\ alone' \in [Appliers -> BOOLEAN]
      BY DEF OtherStep
<1>2. minted \in Nat /\ minted \in 0..MaxIds /\ Ids \subseteq Nat
      BY DEF StoreShape, Ids
<1>3. ASSUME NEW n \in Names, NEW d \in Dials, Install(n, d)
      PROVE  StoreShape' /\ minted' \in Nat /\ minted' >= minted
  <2>1. minted + 1 \in Ids /\ minted' = minted + 1 /\ minted' \in 0..MaxIds
        BY <1>2, <1>3, DocumentAssumption DEF Install, Ids
  <2>2. PICK r : r = [name |-> n, dial |-> d, on |-> TRUE, names |-> {}]
        OBVIOUS
  <2>3. r \in DocRows
        BY <2>2 DEF DocRows
  <2>4. credentials[minted + 1] \in Secrets /\ DOMAIN live = Ids
        BY <2>1 DEF StoreShape
  <2>5. row' = [row EXCEPT ![minted + 1] = r] /\ UNCHANGED <<credentials, live>>
        BY <1>3, <2>2 DEF Install
  <2>6. credentials' = [credentials EXCEPT ![minted + 1] = credentials[minted + 1]]
        BY <2>5, <2>4 DEF StoreShape
  <2>7. live'[minted + 1] = NoSession /\ DOMAIN live' = Ids
        BY <2>1, <2>5, <1>2 DEF StoreShape
  <2>8. minted' >= minted /\ minted + 1 <= minted' /\ minted' \in Nat
        BY <2>1, <1>2
  <2>9. \A i \in Ids \ {minted + 1} : live'[i] = live[i] \/ live'[i] = NoSession
        BY <2>5
  <2>10. r \in DocRows \cup {NoRow}
        BY <2>3
  <2>11. StoreShape'
        BY ONLY StoreShape, <2>1, <2>4, <2>5, <2>6, <2>7, <2>8, <2>9, <2>10, StoreMoves
  <2> QED
      BY <2>8, <2>11
<1>4. ASSUME NEW i \in Ids, Uninstall(i) PROVE StoreShape' /\ minted' = minted
  <2>1. i <= minted /\ minted' = minted
        BY <1>2, <1>4 DEF Uninstall, Installed, StoreShape
  <2>2. row' = [row EXCEPT ![i] = NoRow] /\ credentials' = [credentials EXCEPT ![i] = NoSecret]
        BY <1>4 DEF Uninstall, DeleteServer
  <2>3. live' = [live EXCEPT ![i] = NoSession]
        BY <1>4 DEF Uninstall, Disconnect
  <2>4. DOMAIN live' = Ids /\ live'[i] = NoSession /\ \A j \in Ids \ {i} : live'[j] = live[j]
        BY <2>3 DEF StoreShape
  <2>5. minted' >= minted /\ i <= minted' /\ minted' \in 0..MaxIds
        BY <2>1, <1>2
  <2>6. NoRow \in DocRows \cup {NoRow} /\ NoSecret \in Secrets
        BY SecretFacts
  <2>7. StoreShape'
        BY ONLY StoreShape, <2>2, <2>4, <2>5, <2>6, StoreMoves
  <2> QED
      BY <2>1, <2>7
<1>5. ASSUME NEW i \in Ids, SignIn(i) PROVE StoreShape' /\ minted' = minted
  <2>1. i <= minted /\ minted' = minted /\ row[i] \in DocRows
        BY <1>2, <1>5 DEF SignIn, Installed, StoreShape, RowTables
  <2>2. PICK s : s = [credentials[i] EXCEPT !.signedIn = TRUE]
        OBVIOUS
  <2>3. s \in Secrets
        BY <2>2, SecretFacts DEF StoreShape
  <2>4. credentials' = [credentials EXCEPT ![i] = s] /\ credentials'[i] = s
        BY <1>5, <2>2 DEF SignIn, StoreShape
  <2>5. PICK r : r = [row[i] EXCEPT !.names = CredentialNames(s)]
        OBVIOUS
  <2>6. r \in DocRows /\ r.on = row[i].on
        BY <2>1, <2>3, <2>5, SecretFacts, RowFacts DEF DocRows
  <2>7. row' = [row EXCEPT ![i] = r]
        BY <1>5, <2>4, <2>5 DEF SignIn, StoreShape, RowTables
  <2>8. live' = live /\ DOMAIN live = Ids /\ (live[i] = NoSession \/ row[i].on)
        BY <1>5 DEF SignIn, StoreShape
  <2>9. minted' >= minted /\ i <= minted' /\ minted' \in 0..MaxIds
        BY <2>1, <1>2
  <2>10. r \in DocRows \cup {NoRow} /\ r # NoRow
        BY <2>6, RowFacts
  <2>11. DOMAIN live' = Ids /\ \A j \in Ids \ {i} : live'[j] = live[j] \/ live'[j] = NoSession
        BY <2>8
  <2>12. live'[i] = NoSession \/ (r # NoRow /\ r.on)
        BY <2>6, <2>8, <2>10
  <2>13. StoreShape'
        BY ONLY StoreShape, i \in Ids, <2>3, <2>4, <2>7, <2>9, <2>10, <2>11, <2>12, StoreMoves
  <2> QED
      BY <2>1, <2>13
<1>6. ASSUME NEW i \in Ids, Connect(i) PROVE StoreShape' /\ minted' = minted
      BY <1>6 DEF Connect, Installed, StoreShape
<1>7. StoreShape' /\ minted' \in Nat /\ minted' >= minted
      BY <1>2, <1>3, <1>4, <1>5, <1>6 DEF OtherStep
<1>8. ASSUME NEW c \in Appliers PROVE TaskFits(task'[c], before'[c], minted')
  <2>1. TaskFits(task[c], before[c], minted) /\ 1..minted \subseteq 1..minted'
        BY <1>2, <1>7 DEF TaskShape
  <2> QED
      BY <1>1, <2>1 DEF TaskFits
<1>9. ASSUME NEW c \in Appliers, NEW i \in Ids, i > minted' PROVE before'[c].row[i] = NoRow
      BY <1>1, <1>2, <1>7, <1>9, i > minted DEF TaskShape
<1> QED
    BY <1>1, <1>7, <1>8, <1>9 DEF TaskShape

\* An apply at work on an entry.
LEMMA WorkFacts ==
    ASSUME StoreShape, TaskShape, NEW a \in Appliers, task[a].at \in Working
    PROVE  /\ task[a].id \in Ids /\ task[a].id <= minted
           /\ task[a].name \in DOMAIN task[a].doc /\ task[a].name \in Names
           /\ task[a].doc \in Documents /\ task[a].doc[task[a].name] \in Declarations
           /\ task[a].stored \in Secrets /\ task[a].want \in Secrets
           /\ row[task[a].id] \in DocRows \cup {NoRow} /\ credentials[task[a].id] \in Secrets
<1>1. task[a].at \notin {"idle", "failed"}
      BY DEF Working
<1>2. /\ task[a].id \in 1..minted /\ task[a].name \in DOMAIN task[a].doc
      /\ task[a].doc \in Documents /\ task[a].stored \in Secrets /\ task[a].want \in Secrets
      BY <1>1, TaskFacts DEF TaskFits, DocTasks
<1>3. task[a].id \in Ids /\ task[a].id <= minted
      BY <1>2, TaskFacts
<1> QED
    BY <1>2, <1>3, DocumentFacts DEF StoreShape, RowTables

\* A step that leaves the store.
LEMMA QuietShape ==
    ASSUME StoreShape, UNCHANGED storeVars, UNCHANGED minted
    PROVE  StoreShape'
BY DEF StoreShape, storeVars

\* A row goes with its session, and the secret may: of no matter which server.
LEMMA RemovedShape ==
    ASSUME StoreShape, NEW i \in Ids, NEW whole \in BOOLEAN,
           Disconnect(i), DeleteServer(i, whole), UNCHANGED minted
    PROVE  StoreShape'
<1>1. row' = [row EXCEPT ![i] = NoRow] /\ live' = [live EXCEPT ![i] = NoSession]
      BY DEF DeleteServer, Disconnect
<1>2. credentials' = credentials \/ credentials' = [credentials EXCEPT ![i] = NoSecret]
      BY DEF DeleteServer
<1>3. row' \in RowTables /\ DOMAIN live' = Ids
      BY <1>1 DEF StoreShape, RowTables
<1>4. credentials' \in [Ids -> Secrets]
      BY <1>2, SecretFacts DEF StoreShape
<1>5. \A j \in Ids : j > minted' => row'[j] = NoRow /\ credentials'[j] = NoSecret
      BY <1>1, <1>2 DEF StoreShape, RowTables
<1>6. \A j \in Ids : live'[j] # NoSession => row'[j] # NoRow /\ row'[j].on
      BY <1>1 DEF StoreShape, RowTables
<1> QED
    BY <1>3, <1>4, <1>5, <1>6 DEF StoreShape

\* A step of a task's own kind: the locals stay in shape.
LEMMA TaskStepShape ==
    ASSUME StoreShape, TaskShape, NEW a \in Appliers, NEW u,
           Moves(a, u), UNCHANGED before, UNCHANGED minted, Disturbs(a), u \in DocTasks,
           TaskFits(u, before[a], minted)
    PROVE  TaskShape'
<1>1. task' = [task EXCEPT ![a] = u] /\ before' = before
      BY DEF Moves
<1>2. alone' \in [Appliers -> BOOLEAN]
      BY DEF Disturbs, TaskShape
<1>3. minted \in Nat /\ minted' \in Nat /\ minted' >= minted
      BY DEF StoreShape
<1>4. TaskFits(u, before[a], minted')
      OBVIOUS
<1> QED
    BY <1>1, <1>2, <1>3, <1>4, TaskMoves

\* What a step within an entry keeps of the locals.
Within(u, t) ==
    /\ u.doc = t.doc /\ u.snap = t.snap /\ u.left = t.left /\ u.todo = t.todo
    /\ u.name = t.name /\ u.id = t.id /\ u.stored = t.stored /\ u.moved = t.moved

Onwards == Working \cup {"removing"}
Onward(t, s, w) == [t EXCEPT !.at = s, !.want = w]

LEMMA WithinFits ==
    ASSUME StoreShape, TaskShape, NEW a \in Appliers, task[a].at \in Working,
           NEW w \in Secrets, NEW s \in Onwards
    PROVE  /\ Onward(task[a], s, w) \in DocTasks
           /\ TaskFits(Onward(task[a], s, w), before[a], minted)
           /\ Within(Onward(task[a], s, w), task[a])
           /\ Onward(task[a], s, w).at = s /\ Onward(task[a], s, w).want = w
<1> DEFINE u == Onward(task[a], s, w)
<1>1. task[a] \in DocTasks /\ TaskFits(task[a], before[a], minted)
      BY TaskFacts
<1>2. u \in DocTasks /\ u.at = s /\ u.want = w /\ Within(u, task[a])
      BY <1>1 DEF DocTasks, Within, Onward, Onwards, Working, Stages
<1>3. task[a].at \notin {"idle", "failed"}
      BY DEF Working
<1> HIDE DEF u
<1>4. TaskFits(u, before[a], minted)
      BY <1>1, <1>2, <1>3 DEF TaskFits, Within, Onwards
<1> QED
    BY <1>2, <1>4 DEF u

\* The step of an entry: where it goes, and what it will write.
Advances(a, u, s, w) ==
    /\ Moves(a, u) /\ u \in DocTasks /\ TaskFits(u, before[a], minted)
    /\ Within(u, task[a]) /\ u.at = s /\ u.want = w

LEMMA EntrySteps ==
    ASSUME StoreShape, TaskShape, NEW a \in Appliers
    PROVE  /\ Delete(a) => \E u : Advances(a, u, "insert", task[a].want)
           /\ Insert(a) => \E u : Advances(a, u, "restore", task[a].stored)
           /\ SetEnvValues(a) =>
                \E u : Advances(a, u, IF task[a].at = "restore" THEN "renames" ELSE "names", task[a].want)
           /\ UpdateEnvKeys(a) =>
                \E u : Advances(a, u, IF task[a].at = "renames" THEN "merge" ELSE "session", task[a].want)
           /\ Reconnect(a) => \E u : Advances(a, u, "removing", task[a].want)
<1>1. task[a] \in DocTasks /\ task[a].want \in Secrets
      BY TaskFacts DEF DocTasks
<1>2. ASSUME NEW s \in {"insert", "renames", "names", "merge", "session", "removing"},
             task[a].at \in Working, Moves(a, [task[a] EXCEPT !.at = s])
      PROVE  \E u : Advances(a, u, s, task[a].want)
  <2>1. PICK u : u = Onward(task[a], s, task[a].want)
        OBVIOUS
  <2>2. u = [task[a] EXCEPT !.at = s]
        BY <1>1, <2>1 DEF DocTasks, Onward
  <2>3. s \in Onwards
        BY DEF Onwards, Stages, Working
  <2>4. u \in DocTasks /\ TaskFits(u, before[a], minted) /\ Within(u, task[a])
        /\ u.at = s /\ u.want = task[a].want
        BY ONLY StoreShape, TaskShape, a \in Appliers, <1>1, <1>2, <2>1, <2>3, WithinFits
  <2> QED
      BY <1>1, <1>2, <2>1, <2>2, <2>3, <2>4 DEF Advances
<1>3. ASSUME Delete(a) PROVE \E u : Advances(a, u, "insert", task[a].want)
      BY <1>2, <1>3 DEF Delete, Working, Stages
<1>4. ASSUME Insert(a) PROVE \E u : Advances(a, u, "restore", task[a].stored)
  <2>1. PICK u : u = Onward(task[a], "restore", task[a].stored)
        OBVIOUS
  <2>2. task[a].at \in Working /\ "restore" \in Onwards
        BY <1>4 DEF Insert, Onwards, Working, Stages
  <2>3. task[a].stored \in Secrets
        BY <1>1 DEF DocTasks
  <2>4. Moves(a, u)
        BY <1>4, <2>1 DEF Insert, Onward
  <2>5. u \in DocTasks /\ TaskFits(u, before[a], minted) /\ Within(u, task[a])
        /\ u.at = "restore" /\ u.want = task[a].stored
        BY ONLY StoreShape, TaskShape, a \in Appliers, <2>1, <2>2, <2>3, WithinFits
  <2> QED
      BY <2>4, <2>5 DEF Advances
<1>5. ASSUME SetEnvValues(a)
      PROVE  \E u : Advances(a, u, IF task[a].at = "restore" THEN "renames" ELSE "names", task[a].want)
  <2>1. PICK s : s = IF task[a].at = "restore" THEN "renames" ELSE "names"
        OBVIOUS
  <2>2. Moves(a, [task[a] EXCEPT !.at = s])
        BY <1>1, <1>5, <2>1 DEF SetEnvValues, DocTasks
  <2>3. task[a].at \in Working
        BY <1>5 DEF SetEnvValues, Working, Stages
  <2> QED
      BY <1>2, <2>1, <2>2, <2>3
<1>6. ASSUME UpdateEnvKeys(a)
      PROVE  \E u : Advances(a, u, IF task[a].at = "renames" THEN "merge" ELSE "session", task[a].want)
  <2>1. PICK s : s = IF task[a].at = "renames" THEN "merge" ELSE "session"
        OBVIOUS
  <2>2. Moves(a, [task[a] EXCEPT !.at = s])
        BY <1>1, <1>6, <2>1 DEF UpdateEnvKeys, DocTasks
  <2>3. task[a].at \in Working
        BY <1>6 DEF UpdateEnvKeys, Working, Stages
  <2> QED
      BY <1>2, <2>1, <2>2, <2>3
<1>7. ASSUME Reconnect(a) PROVE \E u : Advances(a, u, "removing", task[a].want)
      BY <1>2, <1>7 DEF Reconnect, Working, Stages
<1> QED
    BY <1>3, <1>4, <1>5, <1>6, <1>7

LEMMA MergeSteps ==
    ASSUME StoreShape, TaskShape, NEW a \in Appliers, Merge(a), NEW wanted,
           wanted = MergeCredentials(task[a].stored, task[a].doc[task[a].name].user)
    PROVE  /\ wanted = task[a].stored => \E u : Advances(a, u, "removing", task[a].want)
           /\ wanted # task[a].stored => \E u : Advances(a, u, "set", wanted)
<1>1. task[a] \in DocTasks /\ task[a].want \in Secrets
      BY TaskFacts DEF DocTasks
<1>2. task[a].at \in Working /\ "removing" \in Onwards
      /\ "set" \in Onwards
      BY DEF Merge, Onwards, Working, Stages
<1>3. wanted \in Secrets
  <2>1. task[a].doc[task[a].name].user \in {"unsaid", "", "v"}
        BY <1>2, WorkFacts DEF Declarations
  <2> QED
      BY <2>1, <1>2, WorkFacts, SecretFacts
<1>4. ASSUME wanted = task[a].stored PROVE \E u : Advances(a, u, "removing", task[a].want)
  <2>1. PICK u : u = Onward(task[a], "removing", task[a].want)
        OBVIOUS
  <2>2. u = [task[a] EXCEPT !.at = "removing"]
        BY <1>1, <2>1 DEF DocTasks, Onward
  <2>3. Moves(a, u)
        BY <1>4, <2>2 DEF Merge
  <2>4. u \in DocTasks /\ TaskFits(u, before[a], minted) /\ Within(u, task[a])
        /\ u.at = "removing" /\ u.want = task[a].want
        BY ONLY StoreShape, TaskShape, a \in Appliers, <1>1, <1>2, <2>1, WithinFits
  <2> QED
      BY <2>3, <2>4 DEF Advances
<1>5. ASSUME wanted # task[a].stored PROVE \E u : Advances(a, u, "set", wanted)
  <2>1. PICK u : u = Onward(task[a], "set", wanted)
        OBVIOUS
  <2>2. Moves(a, u)
        BY <1>5, <2>1 DEF Merge, Onward
  <2>3. u \in DocTasks /\ TaskFits(u, before[a], minted) /\ Within(u, task[a])
        /\ u.at = "set" /\ u.want = wanted
        BY ONLY StoreShape, TaskShape, a \in Appliers, <1>2, <1>3, <2>1, WithinFits
  <2> QED
      BY <2>2, <2>3 DEF Advances
<1> QED
    BY <1>4, <1>5

\* The locals of an entry that is taken up: its dial has changed when it is rewritten.
Taken(t, n, s, i, x) ==
    [t EXCEPT !.todo = @ \ {n}, !.name = n, !.at = s, !.id = i, !.stored = x, !.moved = (s = "rewrite")]

LEMMA TakenParts ==
    ASSUME NEW t \in DocTasks, NEW n \in Names, NEW s \in {"rewrite", "merge"}, NEW i \in Ids,
           NEW x \in Secrets
    PROVE  LET u == Taken(t, n, s, i, x)
           IN  /\ u \in DocTasks /\ u.at = s /\ u.id = i /\ u.stored = x /\ u.name = n
               /\ u.doc = t.doc /\ u.left = t.left /\ u.todo = t.todo \ {n} /\ u.snap = t.snap
               /\ u.moved <=> s = "rewrite"
<1> DEFINE u == Taken(t, n, s, i, x)
<1>1. t.todo \ {n} \in SUBSET Names /\ s \in Stages /\ (s = "rewrite") \in BOOLEAN
      BY DEF DocTasks, Stages
<1>2. /\ u.at = s /\ u.id = i /\ u.stored = x /\ u.name = n
      /\ u.doc = t.doc /\ u.left = t.left /\ u.todo = t.todo \ {n} /\ u.snap = t.snap
      BY DEF DocTasks, Taken
<1>3. u \in DocTasks
      BY <1>1 DEF DocTasks, Taken
<1>4. u.moved <=> s = "rewrite"
      BY DEF DocTasks, Taken
<1> QED
    BY <1>2, <1>3, <1>4

\* An entry is taken up: its server is found, or a new one is made.
TakesUp(a, t, n, u) ==
    /\ n \in t.todo /\ Moves(a, u) /\ u \in DocTasks /\ TaskFits(u, before[a], minted')
    /\ u.name = n /\ u.doc = t.doc /\ u.left = {} /\ u.todo = t.todo \ {n}
    /\ n \in DOMAIN t.doc /\ n \in Names /\ t.doc[n] \in Declarations
    /\ u.moved <=> u.at = "rewrite"

EntryMakes(a, t, n, u) ==
    /\ Held(before[a], n) = {} /\ minted + 1 \in Ids /\ minted' = minted + 1
    /\ u.id = minted + 1 /\ u.at = "merge" /\ u.stored = NoSecret
    /\ row' = [row EXCEPT ![minted + 1] = ToInstalled(n, t.doc[n])]

EntryFinds(a, t, n, u) ==
    /\ u.id \in Held(before[a], n) /\ minted' = minted /\ row' = row
    /\ u.at = IF SameDial(t.doc[n], before[a].row[u.id]) THEN "merge" ELSE "rewrite"
    /\ u.stored = credentials[u.id]

LEMMA EntryTaken ==
    ASSUME StoreShape, TaskShape, NEW a \in Appliers, NEW t, t = task[a], Entry(a)
    PROVE  /\ t.at = "removing" /\ t.left = {} /\ live' = live /\ credentials' = credentials
           /\ \E n, u :
                TakesUp(a, t, n, u) /\ (EntryMakes(a, t, n, u) \/ EntryFinds(a, t, n, u))
<1>1. /\ t \in DocTasks /\ before[a] \in [row : RowTables, secret : [Ids -> Secrets]]
      /\ minted \in Nat /\ minted \in 0..MaxIds /\ Ids \subseteq Nat
      /\ \A i \in 1..minted : i \in Ids
      /\ \A i \in Ids : before[a].row[i] # NoRow => i \in 1..minted
      BY TaskFacts
<1>2. t.at = "removing" /\ t.left = {} /\ live' = live /\ credentials' = credentials
      BY DEF Entry
<1>3. /\ t.doc \in Documents /\ t.snap = before[a].row /\ t.todo \subseteq DOMAIN t.doc
      BY <1>2, TaskFacts DEF TaskFits
<1> DEFINE found(n) == {i \in Ids : t.snap[i] # NoRow /\ t.snap[i].name = n}
           next(n) == [t EXCEPT !.todo = @ \ {n}, !.name = n]
           Makes(n) == /\ found(n) = {} /\ minted < MaxIds
                       /\ minted' = minted + 1
                       /\ row' = [row EXCEPT ![minted + 1] = ToInstalled(n, t.doc[n])]
                       /\ Moves(a, [next(n) EXCEPT !.at = "merge", !.id = minted + 1,
                                                   !.stored = NoSecret, !.moved = FALSE])
           Finds(n) == /\ \E i \in found(n) :
                            LET moved == ~SameDial(t.doc[n], t.snap[i])
                            IN  Moves(a, [next(n) EXCEPT !.at = IF moved THEN "rewrite" ELSE "merge",
                                             !.id = i, !.stored = StoredBefore(i), !.moved = moved])
                       /\ UNCHANGED <<minted, row>>
<1>4. PICK n \in t.todo : Makes(n) \/ Finds(n)
      BY DEF Entry
<1>5. n \in DOMAIN t.doc /\ n \in Names /\ t.doc[n] \in Declarations
      BY <1>3, DocumentFacts
<1>6. found(n) = Held(before[a], n)
      BY <1>3 DEF Held, Bears
<1>7. ASSUME NEW s \in {"rewrite", "merge"}, NEW i \in Ids, NEW x \in Secrets,
             i \in 1..minted', Moves(a, Taken(t, n, s, i, x))
      PROVE  \E u : /\ TakesUp(a, t, n, u) /\ u.at = s /\ u.id = i /\ u.stored = x
  <2>1. PICK u : u = Taken(t, n, s, i, x)
        OBVIOUS
  <2>2. /\ u \in DocTasks /\ u.at = s /\ u.id = i /\ u.stored = x /\ u.name = n
        /\ u.doc = t.doc /\ u.left = t.left /\ u.todo = t.todo \ {n} /\ u.snap = t.snap
        /\ u.moved <=> s = "rewrite"
        BY <1>1, <1>5, <2>1, TakenParts
  <2>3. TaskFits(u, before[a], minted')
        BY <1>3, <1>5, <1>7, <2>2 DEF TaskFits
  <2>4. TakesUp(a, t, n, u)
        BY <1>2, <1>5, <1>7, <2>1, <2>2, <2>3 DEF TakesUp
  <2> QED
      BY <2>2, <2>4
<1>8. CASE Makes(n)
  <2>1. minted + 1 \in Ids /\ minted + 1 \in 1..minted'
        BY <1>1, <1>8, DocumentAssumption DEF Ids
  <2>2. [next(n) EXCEPT !.at = "merge", !.id = minted + 1, !.stored = NoSecret, !.moved = FALSE]
          = Taken(t, n, "merge", minted + 1, NoSecret)
        BY <1>1 DEF DocTasks, Taken
  <2>3. Moves(a, Taken(t, n, "merge", minted + 1, NoSecret))
        BY <1>8, <2>2
  <2>6. "merge" \in {"rewrite", "merge"} /\ NoSecret \in Secrets
        BY SecretFacts
  <2>4. PICK u : TakesUp(a, t, n, u) /\ u.at = "merge" /\ u.id = minted + 1 /\ u.stored = NoSecret
        BY <1>7, <2>1, <2>3, <2>6
  <2>5. EntryMakes(a, t, n, u)
        BY <1>6, <1>8, <2>1, <2>4 DEF EntryMakes
  <2> QED
      BY <1>2, <2>4, <2>5
<1>9. CASE Finds(n)
  <2>1. PICK i \in found(n) :
            LET moved == ~SameDial(t.doc[n], t.snap[i])
            IN  Moves(a, [next(n) EXCEPT !.at = IF moved THEN "rewrite" ELSE "merge",
                             !.id = i, !.stored = StoredBefore(i), !.moved = moved])
        BY <1>9
  <2>2. PICK s : s = IF SameDial(t.doc[n], t.snap[i]) THEN "merge" ELSE "rewrite"
        OBVIOUS
  <2>3. [next(n) EXCEPT !.at = IF ~SameDial(t.doc[n], t.snap[i]) THEN "rewrite" ELSE "merge",
                        !.id = i, !.stored = StoredBefore(i),
                        !.moved = ~SameDial(t.doc[n], t.snap[i])]
          = Taken(t, n, s, i, credentials[i])
    <3>1. CASE SameDial(t.doc[n], t.snap[i])
          BY <1>1, <2>2, <3>1 DEF DocTasks, Taken, StoredBefore
    <3>2. CASE ~SameDial(t.doc[n], t.snap[i])
          BY <1>1, <2>2, <3>2 DEF DocTasks, Taken, StoredBefore
    <3> QED
        BY <3>1, <3>2
  <2>4. i \in Ids /\ i \in 1..minted /\ i \in Held(before[a], n) /\ t.snap[i] = before[a].row[i]
        BY <1>1, <1>3, <1>6 DEF Held, Bears
  <2>5. s \in {"rewrite", "merge"} /\ credentials[i] \in Secrets
        BY <2>2, <2>4 DEF StoreShape
  <2>6. Moves(a, Taken(t, n, s, i, credentials[i])) /\ minted' = minted /\ row' = row
        BY <1>9, <2>1, <2>3
  <2>7. PICK u : TakesUp(a, t, n, u) /\ u.at = s /\ u.id = i /\ u.stored = credentials[i]
        BY <1>7, <2>4, <2>5, <2>6
  <2>8. EntryFinds(a, t, n, u)
        BY <2>2, <2>4, <2>6, <2>7 DEF EntryFinds
  <2> QED
      BY <1>2, <2>7, <2>8
<1> QED
    BY <1>4, <1>8, <1>9

\* A server the document leaves out is uninstalled.
Removal(a, t, i, u) ==
    /\ i \in t.left /\ i \in Ids /\ Moves(a, u) /\ u \in DocTasks /\ TaskFits(u, before[a], minted)
    /\ Disconnect(i) /\ DeleteServer(i, TRUE) /\ t.at = "removing" /\ u.at = "removing"
    /\ u.doc = t.doc /\ u.todo = t.todo /\ u.left = t.left \ {i}

LEMMA PlainSteps ==
    ASSUME StoreShape, TaskShape, NEW a \in Appliers, NEW t, t = task[a]
    PROVE  /\ Remove(a) => \E i, u : Removal(a, t, i, u)
           /\ Done(a) => \E u :
                /\ Moves(a, u) /\ u \in DocTasks /\ TaskFits(u, before[a], minted)
                /\ t.at = "removing" /\ t.left = {} /\ t.todo = {}
                /\ u.at = "done" /\ u.doc = t.doc /\ u.left = {} /\ u.todo = {}
           /\ FailStep(a) => \E u :
                /\ Moves(a, u) /\ u \in DocTasks /\ TaskFits(u, before[a], minted)
                /\ u.at = "failed"
<1>1. t \in DocTasks /\ TaskFits(t, before[a], minted)
      BY TaskFacts
<1>2. ASSUME Remove(a)
      PROVE  \E i, u : Removal(a, t, i, u)
  <2>1. PICK i \in t.left : Disconnect(i) /\ DeleteServer(i, TRUE)
                            /\ Moves(a, [t EXCEPT !.left = @ \ {i}])
        BY <1>2 DEF Remove
  <2>2. PICK u : u = [t EXCEPT !.left = @ \ {i}]
        OBVIOUS
  <2>3. t.at = "removing" /\ i \in Ids /\ t.left \ {i} \in SUBSET Ids
        BY <1>1, <1>2 DEF Remove, DocTasks
  <2>4. /\ u \in DocTasks /\ u.at = t.at /\ u.doc = t.doc /\ u.snap = t.snap /\ u.todo = t.todo
        /\ u.left = t.left \ {i}
        BY <1>1, <2>2, <2>3 DEF DocTasks
  <2>5. TaskFits(u, before[a], minted)
        BY <1>1, <2>3, <2>4 DEF TaskFits, Working
  <2> QED
      BY <2>1, <2>2, <2>3, <2>4, <2>5 DEF Removal
<1>3. ASSUME Done(a)
      PROVE  \E u :
                /\ Moves(a, u) /\ u \in DocTasks /\ TaskFits(u, before[a], minted)
                /\ t.at = "removing" /\ t.left = {} /\ t.todo = {}
                /\ u.at = "done" /\ u.doc = t.doc /\ u.left = {} /\ u.todo = {}
  <2>1. PICK u : u = [t EXCEPT !.at = "done"]
        OBVIOUS
  <2>2. /\ u \in DocTasks /\ u.at = "done" /\ u.doc = t.doc /\ u.snap = t.snap /\ u.todo = t.todo
        /\ u.left = t.left
        BY <1>1, <2>1 DEF DocTasks, Stages
  <2>3. TaskFits(u, before[a], minted) /\ t.at = "removing" /\ t.left = {} /\ t.todo = {}
        BY <1>1, <1>3, <2>2 DEF TaskFits, Done, Working
  <2>4. Moves(a, u)
        BY <1>3, <2>1 DEF Done
  <2> QED
      BY <2>2, <2>3, <2>4
<1>4. ASSUME FailStep(a)
      PROVE  \E u :
                /\ Moves(a, u) /\ u \in DocTasks /\ TaskFits(u, before[a], minted)
                /\ u.at = "failed"
  <2>1. PICK u : u = [Idle EXCEPT !.at = "failed", !.doc = t.doc]
        OBVIOUS
  <2>2. u \in DocTasks /\ u.at = "failed"
    <3>1. t.doc \in Documents \cup {<<>>} /\ <<>> \in RowTables \cup {<<>>}
          BY <1>1 DEF DocTasks
    <3> QED
        BY <2>1, <3>1, SecretFacts DEF Idle, DocTasks, Stages
  <2>3. TaskFits(u, before[a], minted)
        BY <2>2 DEF TaskFits, Working
  <2>4. Moves(a, u)
        BY <1>4, <2>1 DEF FailStep
  <2> QED
      BY <2>2, <2>3, <2>4
<1> QED
    BY <1>2, <1>3, <1>4

\* A step of an entry changes its row, its secret or its session.
LEMMA EntryStore ==
    ASSUME StoreShape, TaskShape, NEW a \in Appliers,
           Delete(a) \/ Insert(a) \/ SetEnvValues(a) \/ UpdateEnvKeys(a) \/ Merge(a) \/ Reconnect(a)
    PROVE  StoreShape' /\ minted' = minted
<1> DEFINE k == task[a].id
<1>1. task[a].at \in Working /\ minted' = minted
      BY DEF Delete, Insert, SetEnvValues, UpdateEnvKeys, Merge, Reconnect, Working, Stages
<1>2. /\ k \in Ids /\ k <= minted /\ task[a].name \in Names /\ task[a].want \in Secrets
      /\ task[a].doc[task[a].name] \in Declarations
      /\ row[k] \in DocRows \cup {NoRow} /\ credentials[k] \in Secrets
      BY <1>1, WorkFacts
<1> HIDE DEF k
<1>3. minted' >= minted /\ k <= minted' /\ minted' \in 0..MaxIds /\ minted' = minted
      BY <1>1, <1>2 DEF StoreShape
<1>4. /\ DOMAIN live = Ids /\ row = [row EXCEPT ![k] = row[k]]
      /\ credentials = [credentials EXCEPT ![k] = credentials[k]]
      BY <1>2 DEF StoreShape, RowTables
<1>5. live[k] = NoSession \/ (row[k] # NoRow /\ row[k].on)
      BY <1>2 DEF StoreShape
<1>6. CASE Delete(a)
  <2>1. Disconnect(k) /\ DeleteServer(k, TRUE)
        BY <1>6 DEF Delete, k
  <2> QED
      BY <1>1, <1>2, <2>1, RemovedShape
<1>7. CASE Insert(a)
  <2>1. PICK r : r = ToInstalled(task[a].name, task[a].doc[task[a].name])
        OBVIOUS
  <2>2. r \in DocRows \cup {NoRow}
        BY <1>2, <2>1, RowFacts
  <2>3. row' = [row EXCEPT ![k] = r] /\ live' = live /\ row[k] = NoRow /\ credentials' = credentials
        BY <1>7, <2>1 DEF Insert, k
  <2>4. DOMAIN live' = Ids /\ live'[k] = NoSession
        BY <1>4, <1>5, <2>3
  <2>5. \A i \in Ids \ {k} : live'[i] = live[i] \/ live'[i] = NoSession
        BY <2>3
  <2>6. credentials' = [credentials EXCEPT ![k] = credentials[k]]
        BY <1>4, <2>3
  <2> QED
      BY ONLY StoreShape, <1>2, <1>3, <2>2, <2>3, <2>4, <2>5, <2>6, StoreMoves
<1>8. CASE SetEnvValues(a)
  <2>1. credentials' = [credentials EXCEPT ![k] = task[a].want] /\ live' = live /\ row' = row
        BY <1>8 DEF SetEnvValues, k
  <2>2. row' = [row EXCEPT ![k] = row[k]]
        BY <1>4, <2>1
  <2>3. DOMAIN live' = Ids /\ (live'[k] = NoSession \/ (row[k] # NoRow /\ row[k].on))
        BY <1>4, <1>5, <2>1
  <2>4. \A i \in Ids \ {k} : live'[i] = live[i] \/ live'[i] = NoSession
        BY <2>1
  <2> QED
      BY ONLY StoreShape, <1>2, <1>3, <2>1, <2>2, <2>3, <2>4, StoreMoves
<1>9. CASE UpdateEnvKeys(a)
  <2>1. PICK r : r = [row[k] EXCEPT !.names = CredentialNames(task[a].want)]
        OBVIOUS
  <2>2. row[k] \in DocRows /\ row[k] # NoRow
        BY <1>2, <1>9 DEF UpdateEnvKeys, k
  <2>3. r \in DocRows /\ r # NoRow /\ r.on = row[k].on
        BY <1>2, <2>1, <2>2, SecretFacts, RowFacts DEF DocRows
  <2>4. row' = [row EXCEPT ![k] = r] /\ live' = live /\ credentials' = credentials
        BY <1>9, <2>1 DEF UpdateEnvKeys, k
  <2>5. DOMAIN live' = Ids /\ (live'[k] = NoSession \/ (r # NoRow /\ r.on))
        BY <1>4, <1>5, <2>3, <2>4
  <2>6. \A i \in Ids \ {k} : live'[i] = live[i] \/ live'[i] = NoSession
        BY <2>4
  <2>7. r \in DocRows \cup {NoRow} /\ credentials' = [credentials EXCEPT ![k] = credentials[k]]
        BY <1>4, <2>3, <2>4
  <2> QED
      BY ONLY StoreShape, <1>2, <1>3, <2>4, <2>5, <2>6, <2>7, StoreMoves
<1>10. CASE Merge(a)
       BY <1>1, <1>10, QuietShape DEF Merge
<1>11. CASE Reconnect(a)
  <2>1. row' = row /\ credentials' = credentials /\ (live' = live \/ Disconnect(k))
        BY <1>11 DEF Reconnect, SessionEnds, k
  <2>2. DOMAIN live' = Ids /\ \A i \in Ids : live'[i] = live[i] \/ live'[i] = NoSession
        BY <1>4, <2>1 DEF Disconnect
  <2> QED
      BY <1>1, <2>1, <2>2 DEF StoreShape
<1> QED
    BY <1>3, <1>6, <1>7, <1>8, <1>9, <1>10, <1>11

LEMMA ApplyShape ==
    ASSUME StoreShape, TaskShape, NEW a \in Appliers, ApplyStep(a)
    PROVE  StoreShape' /\ TaskShape'
<1>1. UNCHANGED before /\ Disturbs(a)
      BY DEF ApplyStep
<1>2. minted \in Nat /\ minted \in 0..MaxIds
      BY TaskFacts
<1>3. CASE Delete(a) \/ Insert(a) \/ SetEnvValues(a) \/ UpdateEnvKeys(a) \/ Merge(a) \/ Reconnect(a)
  <2>1. StoreShape' /\ minted' = minted
        BY <1>3, EntryStore
  <2>2. \E u, s, w : Advances(a, u, s, w)
        BY <1>3, EntrySteps, MergeSteps
  <2>3. PICK u : Moves(a, u) /\ u \in DocTasks /\ TaskFits(u, before[a], minted)
        BY <2>2 DEF Advances
  <2>4. TaskShape'
        BY <1>1, <2>1, <2>3, TaskStepShape
  <2> QED
      BY <2>1, <2>4
<1>4. CASE Entry(a)
  <2>1. /\ live' = live /\ credentials' = credentials
        /\ \E n, u :
              TakesUp(a, task[a], n, u) /\ (EntryMakes(a, task[a], n, u) \/ EntryFinds(a, task[a], n, u))
        BY <1>4, EntryTaken
  <2>2. PICK n, u :
              TakesUp(a, task[a], n, u) /\ (EntryMakes(a, task[a], n, u) \/ EntryFinds(a, task[a], n, u))
        BY <2>1
  <2>3. /\ task' = [task EXCEPT ![a] = u] /\ u \in DocTasks /\ TaskFits(u, before[a], minted')
        /\ n \in Names /\ task[a].doc[n] \in Declarations
        BY <2>2 DEF TakesUp, Moves
  <2>4. minted' \in Nat /\ minted' >= minted
        BY <1>2, <2>2 DEF EntryMakes, EntryFinds
  <2>5. TaskShape'
    <3>1. alone' \in [Appliers -> BOOLEAN] /\ before' = before
          BY <1>1 DEF Disturbs, TaskShape
    <3> QED
        BY <1>2, <2>3, <2>4, <3>1, TaskMoves
  <2>6. CASE EntryMakes(a, task[a], n, u)
    <3>1. PICK r : r = ToInstalled(n, task[a].doc[n])
          OBVIOUS
    <3>2. PICK k : k = minted + 1
          OBVIOUS
    <3>3. r \in DocRows \cup {NoRow} /\ k \in Ids /\ row' = [row EXCEPT ![k] = r]
          BY <2>3, <2>6, <3>1, <3>2, RowFacts DEF EntryMakes
    <3>4. minted' \in 0..MaxIds /\ minted' >= minted /\ k <= minted' /\ k > minted
          BY <1>2, <2>6, <3>2, DocumentAssumption DEF EntryMakes, Ids
    <3>5. row[k] = NoRow /\ credentials[k] \in Secrets /\ DOMAIN live = Ids
          BY <3>3, <3>4 DEF StoreShape
    <3>6. live'[k] = NoSession /\ DOMAIN live' = Ids
          BY <2>1, <3>3, <3>5 DEF StoreShape
    <3>7. credentials' = [credentials EXCEPT ![k] = credentials[k]]
          BY <2>1 DEF StoreShape
    <3>8. \A i \in Ids \ {k} : live'[i] = live[i] \/ live'[i] = NoSession
          BY <2>1
    <3>9. StoreShape'
          BY ONLY StoreShape, <3>3, <3>4, <3>5, <3>6, <3>7, <3>8, StoreMoves
    <3> QED
        BY <2>5, <3>9
  <2>7. CASE EntryFinds(a, task[a], n, u)
        BY <2>1, <2>5, <2>7, QuietShape DEF EntryFinds, storeVars
  <2> QED
      BY <2>2, <2>6, <2>7
<1>5. CASE Remove(a)
  <2>1. PICK i, u : /\ Moves(a, u) /\ u \in DocTasks /\ TaskFits(u, before[a], minted)
                    /\ Disconnect(i) /\ DeleteServer(i, TRUE) /\ i \in Ids
        BY <1>5, PlainSteps DEF Removal
  <2>2. minted' = minted
        BY <1>5 DEF Remove
  <2>3. TaskShape'
        BY <1>1, <2>1, <2>2, TaskStepShape
  <2> QED
      BY <2>1, <2>2, <2>3, RemovedShape
<1>6. CASE Done(a)
  <2>1. PICK u : Moves(a, u) /\ u \in DocTasks /\ TaskFits(u, before[a], minted)
        BY <1>6, PlainSteps
  <2>2. UNCHANGED storeVars /\ minted' = minted
        BY <1>6 DEF Done
  <2> QED
      BY <1>1, <2>1, <2>2, TaskStepShape, QuietShape
<1>7. CASE FailStep(a)
  <2>1. PICK u : Moves(a, u) /\ u \in DocTasks /\ TaskFits(u, before[a], minted)
        BY <1>7, PlainSteps
  <2>2. minted' = minted
        BY <1>7 DEF FailStep
  <2>3. TaskShape'
        BY <1>1, <2>1, <2>2, TaskStepShape
  <2>4. CASE UNCHANGED storeVars
        BY <2>2, <2>3, <2>4, QuietShape
  <2>5. CASE \E i \in Ids : Disconnect(i) /\ UNCHANGED <<row, credentials>>
        BY <2>2, <2>3, <2>5 DEF StoreShape, Disconnect
  <2>6. CASE \E i \in Ids : Disconnect(i) /\ \E complete \in BOOLEAN : DeleteServer(i, complete)
        BY <2>2, <2>3, <2>6, RemovedShape
  <2> QED
      BY <1>7, <2>4, <2>5, <2>6 DEF FailStep
<1> QED
    BY <1>3, <1>4, <1>5, <1>6, <1>7 DEF ApplyStep

-----------------------------------------------------------------------------
(* The entries: what one step does to the others.                          *)

\* Nothing but server k changes, and k is not m's.
LEMMA OthersStay ==
    ASSUME NEW b, NEW m, NEW d, NEW k \in Ids,
           \A i \in Ids \ {k} : row'[i] = row[i] /\ credentials'[i] = credentials[i],
           ~Bears(row, k, m), ~Bears(row', k, m)
    PROVE  /\ k \notin Held(b, m) /\ Waiting(b, m) => Waiting(b, m)'
           /\ Settled(b, m, d) => Settled(b, m, d)'
<1>1. ASSUME k \notin Held(b, m), Waiting(b, m), NEW i \in Ids, Bears(row', i, m) \/ i \in Held(b, m)
      PROVE  row'[i] = b.row[i] /\ credentials'[i] = b.secret[i]
  <2>1. i # k
        BY <1>1
  <2>2. row'[i] = row[i] /\ credentials'[i] = credentials[i]
        BY <2>1
  <2> QED
      BY <1>1, <2>2 DEF Waiting, Bears
<1>2. ASSUME Settled(b, m, d) PROVE Settled(b, m, d)'
  <2>1. PICK i \in Ids :
            /\ Heir(b, i, m) /\ \A j \in Ids : Bears(row, j, m) => j = i
            /\ credentials[i] = MergeCredentials(Stored(b, i), d.user)
            /\ row[i] = Says1(m, d, credentials[i])
        BY <1>2 DEF Settled
  <2>2. ASSUME i # k
        PROVE  row'[i] = row[i] /\ credentials'[i] = credentials[i]
        BY <2>2
  <2>4. CASE i # k
    <3>1. \A j \in Ids : Bears(row', j, m) => j = i
          BY <2>1 DEF Bears
    <3> QED
        BY <2>1, <2>2, <2>4, <3>1 DEF Settled
  <2>5. CASE i = k
        BY <2>1, <2>5 DEF Bears, Says1, NoRow
  <2> QED
      BY <2>4, <2>5
<1> QED
    BY <1>1, <1>2 DEF Waiting

\* The server of an entry is no other entry's.
LEMMA HeirIsNoOthers ==
    ASSUME NEW b, NEW k \in Ids, NEW n, NEW m, Heir(b, k, n), m # n
    PROVE  k \notin Held(b, m)
BY DEF Heir, Held, Bears

\* A step of the entry at work.
LEMMA WorkKeepsRest ==
    ASSUME NEW b, NEW t, NEW u, Rest(b, t), AtWork(b, t), t.at \in Working,
           u.doc = t.doc, u.left = t.left, u.todo = t.todo, u.name = t.name,
           \A i \in Ids \ {t.id} : row'[i] = row[i] /\ credentials'[i] = credentials[i],
           row[t.id] = NoRow \/ row[t.id].name = t.name,
           row'[t.id] = NoRow \/ row'[t.id].name = t.name,
           u.at \in Working \/ Settled(b, t.name, t.doc[t.name])'
    PROVE  Rest(b, u)'
<1> DEFINE k == t.id
<1>1. /\ k \in Ids /\ t.name \in DOMAIN t.doc /\ t.name \notin t.todo /\ t.left = {}
      /\ Heir(b, k, t.name)
      BY DEF AtWork
<1>2. ASSUME NEW m \in t.todo PROVE Waiting(b, m)'
  <2>1. m # t.name /\ Waiting(b, m)
        BY <1>1 DEF Rest
  <2>2. k \notin Held(b, m) /\ ~Bears(row, k, m) /\ ~Bears(row', k, m)
        BY <1>1, <2>1, HeirIsNoOthers DEF Bears
  <2> QED
      BY <1>1, <2>1, <2>2, OthersStay
<1>3. ASSUME NEW m \in DOMAIN t.doc \ t.todo
      PROVE  Settled(b, m, t.doc[m])' \/ (u.at \in Working /\ m = u.name)
  <2>1. CASE m = t.name
        BY <2>1
  <2>2. CASE m # t.name
    <3>1. Settled(b, m, t.doc[m])
          BY <2>2 DEF Rest
    <3>2. ~Bears(row, k, m) /\ ~Bears(row', k, m)
          BY <2>2 DEF Bears
    <3> QED
        BY <1>1, <3>1, <3>2, OthersStay
  <2> QED
      BY <2>1, <2>2
<1>4. ASSUME NEW i \in Ids, row'[i] # NoRow, row'[i].name \notin DOMAIN t.doc PROVE FALSE
      BY <1>1, <1>4 DEF Rest
<1>5. Orderly(b)
      BY DEF Rest
<1> QED
    BY <1>1, <1>2, <1>3, <1>4, <1>5 DEF Rest

\* What the entry at work may have for a row.
LEMMA WorkRow ==
    ASSUME NEW b, NEW t, AtWork(b, t), t.at \in Working, Orderly(b)
    PROVE  row[t.id] = NoRow \/ row[t.id].name = t.name
<1> DEFINE k == t.id
<1>1. k \in Ids /\ Heir(b, k, t.name)
      BY DEF AtWork
<1>2. CASE t.at = "rewrite"
  <2>1. b.row[k] # NoRow /\ row[k] = b.row[k]
        BY <1>2 DEF AtWork
  <2>2. k \in Held(b, t.name)
        BY <1>1, <2>1 DEF Heir
  <2> QED
      BY <2>1, <2>2 DEF Held, Bears
<1>3. CASE t.at = "insert"
      BY <1>3 DEF AtWork
<1>4. CASE t.at \in {"restore", "renames"}
      BY <1>4 DEF AtWork, ToInstalled
<1>5. CASE t.at \in {"merge", "set", "names", "session"}
      BY <1>5 DEF AtWork, Says1
<1> QED
    BY <1>2, <1>3, <1>4, <1>5 DEF Working, Stages

-----------------------------------------------------------------------------
(* One step of an entry.                                                   *)

\* Where a step of the entry at work leads.
Leads(a, b, t) == \E u : Moves(a, u) /\ Follows(b, u)' /\ LeavesAlone(b, u)

LEMMA WorkLeads ==
    ASSUME NEW a \in Appliers, NEW b, NEW t, NEW u, NEW s, NEW w, b = before[a], t = task[a],
           Advances(a, u, s, w), Follows(b, t), t.at \in Working, s \in Onwards,
           \A i \in Ids \ {t.id} : row'[i] = row[i] /\ credentials'[i] = credentials[i],
           row'[t.id] = NoRow \/ row'[t.id].name = t.name,
           s \in Working => AtWork(b, u)',
           s = "removing" => Settled(b, t.name, t.doc[t.name])',
           SessionsFollow(b, u)'
    PROVE  Follows(b, u)'
<1>1. /\ u.doc = t.doc /\ u.left = t.left /\ u.todo = t.todo /\ u.name = t.name /\ u.at = s
      BY DEF Advances, Within
<1>2. Rest(b, t) /\ AtWork(b, t) /\ Orderly(b)
      BY DEF Follows, Rest
<1>3. row[t.id] = NoRow \/ row[t.id].name = t.name
      BY <1>2, WorkRow
<1>4. u.at \in Working \/ Settled(b, t.name, t.doc[t.name])'
      BY <1>1 DEF Onwards
<1>5. Rest(b, u)'
      BY <1>1, <1>2, <1>3, <1>4, WorkKeepsRest
<1>6. u.at \in Working => AtWork(b, u)'
      BY <1>1
<1>7. u.at # "done"
      BY <1>1 DEF Onwards, Working
<1> QED
    BY <1>5, <1>6, <1>7 DEF Follows

LEMMA DeleteLeads ==
    ASSUME StoreShape, TaskShape, NEW a \in Appliers, NEW b, NEW t, b = before[a], t = task[a],
           Follows(b, t), LeavesAlone(b, t), Delete(a)
    PROVE  Leads(a, b, t)
<1> DEFINE k == t.id
<1>1. t.at = "rewrite" /\ t.at \in Working
      BY DEF Delete, Working, Stages
<1>2. PICK u : Advances(a, u, "insert", t.want)
      BY EntrySteps
<1>3. /\ u.doc = t.doc /\ u.left = t.left /\ u.todo = t.todo /\ u.name = t.name /\ u.id = t.id
      /\ u.stored = t.stored /\ u.moved = t.moved /\ u.at = "insert"
      BY <1>2 DEF Advances, Within
<1>4. /\ row' = [row EXCEPT ![k] = NoRow] /\ credentials' = [credentials EXCEPT ![k] = NoSecret]
      /\ live' = [live EXCEPT ![k] = NoSession]
      BY DEF Delete, DeleteServer, Disconnect
<1>5. k \in Ids /\ row'[k] = NoRow /\ live'[k] = NoSession
      BY <1>1, <1>4, WorkFacts DEF StoreShape, RowTables
<1>6. \A i \in Ids \ {k} : row'[i] = row[i] /\ credentials'[i] = credentials[i] /\ live'[i] = live[i]
      BY <1>4 DEF StoreShape, RowTables
<1>7. AtWork(b, t) /\ SessionsFollow(b, t)
      BY <1>1 DEF Follows
<1>8. AtWork(b, u)'
  <2>1. \A j \in Ids : Bears(row', j, t.name) => j = k
        BY <1>5, <1>6, <1>7 DEF AtWork, Bears
  <2> QED
      BY <1>1, <1>3, <1>5, <1>7, <2>1 DEF AtWork
<1>9. SessionsFollow(b, u)'
      BY <1>1, <1>3, <1>5, <1>6, <1>7 DEF SessionsFollow
<1>10. LeavesAlone(b, u)
      BY <1>1, <1>3 DEF LeavesAlone
<1>11. "insert" \in Onwards /\ "insert" # "removing"
      BY DEF Onwards, Working, Stages
<1>12. Follows(b, u)'
      BY <1>1, <1>2, <1>5, <1>6, <1>8, <1>9, <1>11, WorkLeads
<1> QED
    BY <1>2, <1>10, <1>12 DEF Leads, Advances

LEMMA InsertLeads ==
    ASSUME StoreShape, TaskShape, NEW a \in Appliers, NEW b, NEW t, b = before[a], t = task[a],
           Follows(b, t), LeavesAlone(b, t), Insert(a)
    PROVE  Leads(a, b, t)
<1> DEFINE k == t.id
<1>1. t.at = "insert" /\ t.at \in Working
      BY DEF Insert, Working, Stages
<1>2. PICK u : Advances(a, u, "restore", t.stored)
      BY EntrySteps
<1>3. /\ u.doc = t.doc /\ u.left = t.left /\ u.todo = t.todo /\ u.name = t.name /\ u.id = t.id
      /\ u.stored = t.stored /\ u.moved = t.moved /\ u.at = "restore" /\ u.want = t.stored
      BY <1>2 DEF Advances, Within
<1>4. /\ row' = [row EXCEPT ![k] = ToInstalled(t.name, t.doc[t.name])]
      /\ UNCHANGED <<credentials, live>>
      BY DEF Insert
<1>5. k \in Ids /\ row'[k] = ToInstalled(t.name, t.doc[t.name])
      BY <1>1, <1>4, WorkFacts DEF StoreShape, RowTables
<1>6. \A i \in Ids \ {k} : row'[i] = row[i] /\ credentials'[i] = credentials[i] /\ live'[i] = live[i]
      BY <1>4 DEF StoreShape, RowTables
<1>7. AtWork(b, t) /\ SessionsFollow(b, t)
      BY <1>1 DEF Follows
<1>8. AtWork(b, u)'
  <2>1. \A j \in Ids : Bears(row', j, t.name) => j = k
        BY <1>5, <1>6, <1>7 DEF AtWork, Bears
  <2> QED
      BY <1>1, <1>3, <1>5, <1>7, <2>1 DEF AtWork
<1>9. SessionsFollow(b, u)'
  <2>1. live'[k] = NoSession
        BY <1>1, <1>4, <1>7 DEF SessionsFollow, AtWork
  <2> QED
      BY <1>1, <1>3, <1>4, <1>6, <1>7, <2>1 DEF SessionsFollow
<1>10. LeavesAlone(b, u)
       BY <1>1, <1>3 DEF LeavesAlone
<1>11. "restore" \in Onwards /\ "restore" # "removing" /\ row'[k].name = t.name
       BY <1>5 DEF Onwards, Working, Stages, ToInstalled
<1>12. Follows(b, u)'
       BY <1>1, <1>2, <1>6, <1>8, <1>9, <1>11, WorkLeads
<1> QED
    BY <1>2, <1>10, <1>12 DEF Leads, Advances

LEMMA SetEnvLeads ==
    ASSUME StoreShape, TaskShape, NEW a \in Appliers, NEW b, NEW t, b = before[a], t = task[a],
           Follows(b, t), LeavesAlone(b, t), SetEnvValues(a)
    PROVE  Leads(a, b, t)
<1> DEFINE k == t.id
<1>1. t.at \in {"restore", "set"} /\ t.at \in Working
      BY DEF SetEnvValues, Working, Stages
<1>2. PICK s, u : s = (IF t.at = "restore" THEN "renames" ELSE "names") /\ Advances(a, u, s, t.want)
      BY EntrySteps
<1>3. /\ u.doc = t.doc /\ u.left = t.left /\ u.todo = t.todo /\ u.name = t.name /\ u.id = t.id
      /\ u.stored = t.stored /\ u.moved = t.moved /\ u.at = s /\ u.want = t.want
      BY <1>2 DEF Advances, Within
<1>4. credentials' = [credentials EXCEPT ![k] = t.want] /\ UNCHANGED <<row, live>>
      BY DEF SetEnvValues
<1>5. k \in Ids /\ credentials'[k] = t.want /\ row'[k] = row[k]
      BY <1>1, <1>4, WorkFacts DEF StoreShape
<1>6. \A i \in Ids \ {k} : row'[i] = row[i] /\ credentials'[i] = credentials[i] /\ live'[i] = live[i]
      BY <1>4 DEF StoreShape
<1>7. AtWork(b, t) /\ SessionsFollow(b, t) /\ Orderly(b)
      BY <1>1 DEF Follows, Rest
<1>8. AtWork(b, u)'
  <2>1. \A j \in Ids : Bears(row', j, t.name) => j = k
        BY <1>4, <1>7 DEF AtWork
  <2>2. CASE t.at = "restore"
        BY <1>2, <1>3, <1>5, <1>7, <2>1, <2>2 DEF AtWork
  <2>3. CASE t.at = "set"
        BY <1>2, <1>3, <1>5, <1>7, <2>1, <2>3 DEF AtWork
  <2> QED
      BY <1>1, <2>2, <2>3
<1>9. SessionsFollow(b, u)'
  <2>1. CASE t.at = "restore"
    <3>1. live'[k] = NoSession
          BY <1>4, <1>7, <2>1 DEF SessionsFollow, AtWork
    <3> QED
        BY <1>2, <1>3, <1>4, <1>6, <1>7, <2>1, <3>1 DEF SessionsFollow
  <2>2. CASE t.at = "set"
        BY <1>2, <1>3, <1>4, <1>6, <1>7, <2>2 DEF SessionsFollow
  <2> QED
      BY <1>1, <2>1, <2>2
<1>10. LeavesAlone(b, u)
       BY <1>1, <1>3 DEF LeavesAlone
<1>11. s \in Onwards /\ s # "removing" /\ (row'[k] = NoRow \/ row'[k].name = t.name)
       BY <1>1, <1>2, <1>5, <1>7, WorkRow DEF Onwards, Working, Stages
<1>12. Follows(b, u)'
       BY <1>1, <1>2, <1>6, <1>8, <1>9, <1>11, WorkLeads
<1> QED
    BY <1>2, <1>10, <1>12 DEF Leads, Advances

LEMMA UpdateEnvLeads ==
    ASSUME StoreShape, TaskShape, NEW a \in Appliers, NEW b, NEW t, b = before[a], t = task[a],
           Follows(b, t), LeavesAlone(b, t), UpdateEnvKeys(a)
    PROVE  Leads(a, b, t)
<1> DEFINE k == t.id
           n == t.name
           d == t.doc[t.name]
<1>1. t.at \in {"renames", "names"} /\ t.at \in Working
      BY DEF UpdateEnvKeys, Working, Stages
<1>2. PICK s, u : s = (IF t.at = "renames" THEN "merge" ELSE "session") /\ Advances(a, u, s, t.want)
      BY EntrySteps
<1>3. /\ u.doc = t.doc /\ u.left = t.left /\ u.todo = t.todo /\ u.name = t.name /\ u.id = t.id
      /\ u.stored = t.stored /\ u.moved = t.moved /\ u.at = s /\ u.want = t.want
      BY <1>2 DEF Advances, Within
<1>4. /\ row' = [row EXCEPT ![k] = [@ EXCEPT !.names = CredentialNames(t.want)]]
      /\ UNCHANGED <<credentials, live>>
      BY DEF UpdateEnvKeys
<1>5. k \in Ids /\ credentials'[k] = credentials[k]
      BY <1>1, <1>4, WorkFacts
<1>6. \A i \in Ids \ {k} : row'[i] = row[i] /\ credentials'[i] = credentials[i] /\ live'[i] = live[i]
      BY <1>4 DEF StoreShape, RowTables
<1>7. AtWork(b, t) /\ SessionsFollow(b, t)
      BY <1>1 DEF Follows
<1>8. row'[k] = Says1(n, d, t.want) /\ row'[k].dial = row[k].dial
  <2>1. row'[k] = [row[k] EXCEPT !.names = CredentialNames(t.want)]
        BY <1>4, <1>5 DEF StoreShape, RowTables
  <2>2. CASE t.at = "renames"
    <3>1. row[k] = ToInstalled(n, d)
          BY <1>7, <2>2 DEF AtWork
    <3> QED
        BY <2>1, <3>1 DEF ToInstalled, Says1
  <2>3. CASE t.at = "names"
    <3>1. row[k] = Says1(n, d, t.stored)
          BY <1>7, <2>3 DEF AtWork
    <3> QED
        BY <2>1, <3>1 DEF Says1
  <2> QED
      BY <1>1, <2>2, <2>3
<1>9. row'[k].name = n
      BY <1>8 DEF Says1
<1>10. AtWork(b, u)'
  <2>1. \A j \in Ids : Bears(row', j, t.name) => j = k
        BY <1>6, <1>7 DEF AtWork, Bears
  <2>2. CASE t.at = "renames"
        BY <1>2, <1>3, <1>5, <1>7, <1>8, <2>1, <2>2 DEF AtWork
  <2>3. CASE t.at = "names"
        BY <1>2, <1>3, <1>5, <1>7, <1>8, <2>1, <2>3 DEF AtWork
  <2> QED
      BY <1>1, <2>2, <2>3
<1>11. SessionsFollow(b, u)'
  <2>1. CASE t.at = "renames"
    <3>1. live'[k] = NoSession
          BY <1>4, <1>7, <2>1 DEF SessionsFollow, AtWork
    <3> QED
        BY <1>2, <1>3, <1>4, <1>6, <1>7, <2>1, <3>1 DEF SessionsFollow
  <2>2. CASE t.at = "names"
        BY <1>2, <1>3, <1>4, <1>6, <1>7, <2>2 DEF SessionsFollow
  <2> QED
      BY <1>1, <2>1, <2>2
<1>12. LeavesAlone(b, u)
       BY <1>1, <1>3, <1>7 DEF LeavesAlone
<1>13. s \in Onwards /\ s # "removing"
       BY <1>1, <1>2 DEF Onwards, Working, Stages
<1>14. Follows(b, u)'
       BY <1>1, <1>2, <1>6, <1>9, <1>10, <1>11, <1>13, WorkLeads
<1> QED
    BY <1>2, <1>12, <1>14 DEF Leads, Advances

LEMMA MergeLeads ==
    ASSUME StoreShape, TaskShape, NEW a \in Appliers, NEW b, NEW t, b = before[a], t = task[a],
           Follows(b, t), LeavesAlone(b, t), Merge(a)
    PROVE  Leads(a, b, t)
<1> DEFINE k == t.id
           n == t.name
           d == t.doc[t.name]
<1>1. t.at = "merge" /\ t.at \in Working
      BY DEF Merge, Working, Stages
<1>2. PICK wanted : wanted = MergeCredentials(t.stored, d.user)
      OBVIOUS
<1>3. PICK s, w, u :
         /\ Advances(a, u, s, w)
         /\ (s = "removing" /\ wanted = t.stored) \/ (s = "set" /\ w = wanted /\ wanted # t.stored)
      BY <1>2, MergeSteps
<1>4. /\ u.doc = t.doc /\ u.left = t.left /\ u.todo = t.todo /\ u.name = t.name /\ u.id = t.id
      /\ u.stored = t.stored /\ u.moved = t.moved /\ u.at = s /\ u.want = w
      BY <1>3 DEF Advances, Within
<1>5. UNCHANGED <<row, credentials, live>>
      BY DEF Merge, storeVars
<1>6. \A i \in Ids \ {k} : row'[i] = row[i] /\ credentials'[i] = credentials[i]
      BY <1>5
<1>7. AtWork(b, t) /\ SessionsFollow(b, t) /\ Orderly(b)
      BY <1>1 DEF Follows, Rest
<1>8. s = "set" => AtWork(b, u)'
      BY <1>1, <1>2, <1>3, <1>4, <1>5, <1>7 DEF AtWork
<1>9. s = "removing" => Settled(b, n, d)'
  <2> SUFFICES ASSUME s = "removing" PROVE Settled(b, n, d)'
      OBVIOUS
  <2>1. /\ k \in Ids /\ Heir(b, k, n) /\ \A j \in Ids : Bears(row', j, n) => j = k
        /\ t.stored = Stored(b, k) /\ row'[k] = Says1(n, d, t.stored) /\ credentials'[k] = t.stored
        BY <1>1, <1>5, <1>7 DEF AtWork
  <2>2. t.stored = MergeCredentials(Stored(b, k), d.user)
        BY <1>2, <1>3, <2>1
  <2> QED
      BY <2>1, <2>2 DEF Settled
<1>10. SessionsFollow(b, u)'
       BY <1>1, <1>3, <1>4, <1>5, <1>7 DEF SessionsFollow
<1>11. LeavesAlone(b, u)
       BY <1>1, <1>2, <1>3, <1>4, <1>7 DEF LeavesAlone, AtWork
<1>12. s \in Onwards /\ (s \in Working => s = "set") /\ (row'[k] = NoRow \/ row'[k].name = n)
       BY <1>1, <1>3, <1>5, <1>7, WorkRow DEF Onwards, Working, Stages
<1>13. Follows(b, u)'
       BY <1>1, <1>3, <1>6, <1>8, <1>9, <1>10, <1>12, WorkLeads
<1> QED
    BY <1>3, <1>11, <1>13 DEF Leads, Advances

LEMMA ReconnectLeads ==
    ASSUME StoreShape, TaskShape, NEW a \in Appliers, NEW b, NEW t, b = before[a], t = task[a],
           Follows(b, t), LeavesAlone(b, t), Reconnect(a)
    PROVE  Leads(a, b, t)
<1> DEFINE k == t.id
           n == t.name
           d == t.doc[t.name]
<1>1. t.at = "session" /\ t.at \in Working
      BY DEF Reconnect, Working, Stages
<1>2. PICK u : Advances(a, u, "removing", t.want)
      BY EntrySteps
<1>3. /\ u.doc = t.doc /\ u.left = t.left /\ u.todo = t.todo /\ u.name = t.name /\ u.id = t.id
      /\ u.stored = t.stored /\ u.moved = t.moved /\ u.at = "removing"
      BY <1>2 DEF Advances, Within
<1>4. UNCHANGED <<row, credentials>>
      BY DEF Reconnect
<1>5. \A i \in Ids \ {k} : row'[i] = row[i] /\ credentials'[i] = credentials[i]
      BY <1>4
<1>6. AtWork(b, t) /\ SessionsFollow(b, t) /\ Orderly(b)
      BY <1>1 DEF Follows, Rest
<1>7. k \in Ids /\ row[k] = Says1(n, d, MergeCredentials(t.stored, d.user))
      BY <1>1, <1>6 DEF AtWork
<1>8. Settled(b, n, d)'
  <2>1. /\ Heir(b, k, n) /\ \A j \in Ids : Bears(row', j, n) => j = k
        /\ t.stored = Stored(b, k) /\ credentials'[k] = MergeCredentials(t.stored, d.user)
        BY <1>1, <1>4, <1>6 DEF AtWork
  <2> QED
      BY <1>4, <1>7, <2>1 DEF Settled
<1>9. live'[k] = NoSession /\ \A i \in Ids \ {k} : live'[i] = live[i]
  <2>1. IF d.on /\ ~t.moved /\ t.snap[k] # NoRow
        THEN live' = [live EXCEPT ![k] = NoSession] ELSE live' = live
        BY DEF Reconnect, SessionEnds, Disconnect
  <2>2. DOMAIN live = Ids
        BY DEF StoreShape
  <2>3. CASE d.on /\ ~t.moved /\ t.snap[k] # NoRow
        BY <1>7, <2>1, <2>2, <2>3
  <2>4. CASE t.moved
    <3>1. live[k] = NoSession
          BY <1>1, <1>6, <2>4 DEF SessionsFollow
    <3> QED
        BY <2>1, <2>4, <3>1
  <2>5. CASE ~d.on
    <3>1. row[k].on = d.on
          BY <1>7 DEF Says1
    <3>2. live[k] = NoSession
          BY <1>7, <2>5, <3>1 DEF StoreShape
    <3> QED
        BY <2>1, <2>5, <3>2
  <2>6. CASE t.snap[k] = NoRow
    <3>1. b.row[k] = NoRow
          BY <1>1, <2>6 DEF TaskShape, TaskFits, Working, Stages
    <3>2. live[k] = NoSession
          BY <1>6, <1>7, <3>1 DEF SessionsFollow
    <3> QED
        BY <2>1, <2>6, <3>2
  <2> QED
      BY <2>3, <2>4, <2>5, <2>6
<1>10. SessionsFollow(b, u)'
       BY <1>1, <1>3, <1>4, <1>6, <1>9 DEF SessionsFollow
<1>11. LeavesAlone(b, u)
       BY <1>1, <1>3 DEF LeavesAlone
<1>12. "removing" \in Onwards /\ "removing" \notin Working /\ (row'[k] = NoRow \/ row'[k].name = n)
       BY <1>1, <1>4, <1>6, WorkRow DEF Onwards, Working, Stages
<1>13. Follows(b, u)'
       BY <1>1, <1>2, <1>5, <1>8, <1>10, <1>12, WorkLeads
<1> QED
    BY <1>2, <1>11, <1>13 DEF Leads, Advances

-----------------------------------------------------------------------------
(* The steps between two entries.                                          *)

LEMMA RemoveLeads ==
    ASSUME StoreShape, TaskShape, NEW a \in Appliers, NEW b, NEW t, b = before[a], t = task[a],
           Follows(b, t), LeavesAlone(b, t), Remove(a)
    PROVE  Leads(a, b, t)
<1>1. PICK i, u :
         /\ i \in t.left /\ i \in Ids /\ Moves(a, u) /\ Disconnect(i) /\ DeleteServer(i, TRUE)
         /\ t.at = "removing" /\ u.at = "removing" /\ u.doc = t.doc
         /\ u.todo = t.todo /\ u.left = t.left \ {i}
  <2>1. Remove(a) => \E i, u : Removal(a, task[a], i, u)
        BY PlainSteps
  <2> QED
      BY <2>1 DEF Removal
<1>2. /\ row' = [row EXCEPT ![i] = NoRow] /\ live' = [live EXCEPT ![i] = NoSession]
      /\ credentials' = [credentials EXCEPT ![i] = NoSecret]
      BY <1>1 DEF Disconnect, DeleteServer
<1>3. /\ row'[i] = NoRow /\ live'[i] = NoSession
      /\ \A j \in Ids \ {i} : row'[j] = row[j] /\ credentials'[j] = credentials[j] /\ live'[j] = live[j]
      BY <1>1, <1>2 DEF StoreShape, RowTables
<1>4. Rest(b, t) /\ SessionsFollow(b, t)
      BY DEF Follows
<1>5. b.row[i] # NoRow /\ b.row[i].name \notin DOMAIN t.doc /\ row[i] = b.row[i]
      BY <1>1, <1>4 DEF Rest
<1>6. ASSUME NEW m \in DOMAIN t.doc
      PROVE  (Waiting(b, m) => Waiting(b, m)') /\ (Settled(b, m, t.doc[m]) => Settled(b, m, t.doc[m])')
  <2>1. i \notin Held(b, m) /\ ~Bears(row, i, m) /\ ~Bears(row', i, m)
        BY <1>3, <1>5 DEF Held, Bears
  <2> QED
      BY <1>1, <1>3, <2>1, OthersStay
<1>7. t.todo \subseteq DOMAIN t.doc
      BY <1>1, TaskFacts DEF TaskFits
<1>8. Rest(b, u)'
  <2>1. \A n \in u.todo : Waiting(b, n)'
        BY <1>1, <1>4, <1>6, <1>7 DEF Rest
  <2>2. \A n \in DOMAIN u.doc \ u.todo : Settled(b, n, u.doc[n])'
        BY <1>1, <1>4, <1>6 DEF Rest, Working
  <2>3. ASSUME NEW j \in u.left
        PROVE  b.row[j] # NoRow /\ b.row[j].name \notin DOMAIN t.doc /\ row'[j] = b.row[j]
    <3>1. j \in t.left /\ j \in Ids \ {i}
          BY <1>1, TaskFacts DEF DocTasks
    <3> QED
        BY <1>3, <1>4, <3>1 DEF Rest
  <2>4. ASSUME NEW j \in Ids, row'[j] # NoRow, row'[j].name \notin DOMAIN t.doc PROVE j \in u.left
    <3>1. j # i /\ row'[j] = row[j]
          BY <1>3, <2>4
    <3> QED
        BY <1>1, <1>4, <2>4, <3>1 DEF Rest
  <2>5. Orderly(b)
        BY <1>4 DEF Rest
  <2> QED
      BY <1>1, <2>1, <2>2, <2>3, <2>4, <2>5 DEF Rest
<1>9. SessionsFollow(b, u)'
      BY <1>1, <1>3, <1>4 DEF SessionsFollow
<1>10. LeavesAlone(b, u)
       BY <1>1 DEF LeavesAlone
<1>11. Follows(b, u)'
       BY <1>1, <1>8, <1>9 DEF Follows, Working
<1> QED
    BY <1>1, <1>10, <1>11 DEF Leads

LEMMA DoneLeads ==
    ASSUME StoreShape, TaskShape, NEW a \in Appliers, NEW b, NEW t, b = before[a], t = task[a],
           Follows(b, t), LeavesAlone(b, t), Done(a)
    PROVE  Leads(a, b, t)
<1>1. PICK u : /\ Moves(a, u) /\ t.at = "removing" /\ t.left = {} /\ t.todo = {}
               /\ u.at = "done" /\ u.doc = t.doc /\ u.left = {} /\ u.todo = {}
      BY PlainSteps
<1>2. UNCHANGED <<row, credentials, live>>
      BY DEF Done, storeVars
<1>3. Rest(b, t) /\ SessionsFollow(b, t)
      BY DEF Follows
<1>4. Rest(b, u)'
  <2>1. \A n \in DOMAIN u.doc \ u.todo : Settled(b, n, u.doc[n])'
        BY <1>1, <1>2, <1>3 DEF Rest, Settled, Working
  <2> QED
      BY <1>1, <1>2, <1>3, <2>1 DEF Rest
<1>5. SessionsFollow(b, u)'
      BY <1>1, <1>2, <1>3 DEF SessionsFollow
<1>6. Follows(b, u)' /\ LeavesAlone(b, u)
      BY <1>1, <1>4, <1>5 DEF Follows, LeavesAlone, Working
<1> QED
    BY <1>1, <1>6 DEF Leads

\* The entries that are not taken up, when one is and at most a free server k changes.
LEMMA TakenRest ==
    ASSUME NEW b, NEW t, NEW u, NEW n, NEW k \in Ids, Rest(b, t), t.at = "removing", t.left = {},
           t.todo \subseteq DOMAIN t.doc,
           u.name = n, u.doc = t.doc, u.left = {}, u.todo = t.todo \ {n}, u.at \in Working,
           n \in DOMAIN t.doc, UNCHANGED credentials,
           \/ UNCHANGED row
           \/ /\ row[k] = NoRow /\ row'[k].name = n /\ b.row[k] = NoRow
              /\ \A i \in Ids \ {k} : row'[i] = row[i]
    PROVE  Rest(b, u)'
<1>1. \A i \in Ids \ {k} : row'[i] = row[i] /\ credentials'[i] = credentials[i]
      OBVIOUS
<1>2. ASSUME NEW m \in DOMAIN t.doc, m # n
      PROVE  (Waiting(b, m) => Waiting(b, m)') /\ (Settled(b, m, t.doc[m]) => Settled(b, m, t.doc[m])')
  <2>1. CASE UNCHANGED row
        BY <2>1 DEF Waiting, Settled
  <2>2. CASE row[k] = NoRow /\ row'[k].name = n /\ b.row[k] = NoRow
    <3>1. k \notin Held(b, m) /\ ~Bears(row, k, m) /\ ~Bears(row', k, m)
          BY <1>2, <2>2 DEF Held, Bears
    <3> QED
        BY <1>1, <3>1, OthersStay
  <2> QED
      BY <2>1, <2>2
<1>3. \A m \in u.todo : Waiting(b, m)'
      BY <1>2 DEF Rest
<1>4. \A m \in DOMAIN u.doc \ u.todo : Settled(b, m, u.doc[m])' \/ m = n
      BY <1>2 DEF Rest, Working
<1>5. ASSUME NEW j \in Ids, row'[j] # NoRow, row'[j].name \notin DOMAIN t.doc PROVE FALSE
  <2>1. row'[j] = row[j]
        BY <1>1, <1>5
  <2> QED
      BY <1>5, <2>1 DEF Rest
<1>6. Orderly(b)
      BY DEF Rest
<1> QED
    BY <1>3, <1>4, <1>5, <1>6 DEF Rest

LEMMA EntryLeads ==
    ASSUME StoreShape, TaskShape, NEW a \in Appliers, NEW b, NEW t, b = before[a], t = task[a],
           Follows(b, t), LeavesAlone(b, t), Entry(a)
    PROVE  Leads(a, b, t)
<1>1. t.at = "removing" /\ t.left = {} /\ live' = live /\ credentials' = credentials
      BY EntryTaken
<1>2. PICK n, u :
         TakesUp(a, t, n, u) /\ (EntryMakes(a, t, n, u) \/ EntryFinds(a, t, n, u))
  <2>1. \E n, u : TakesUp(a, task[a], n, u)
                   /\ (EntryMakes(a, task[a], n, u) \/ EntryFinds(a, task[a], n, u))
        BY EntryTaken
  <2> QED
      BY <2>1
<1> DEFINE k == u.id
           d == t.doc[n]
<1>3. /\ n \in t.todo /\ Moves(a, u) /\ u.name = n /\ u.doc = t.doc /\ u.left = {} /\ u.todo = t.todo \ {n}
      /\ n \in DOMAIN t.doc /\ n \in Names /\ d \in Declarations /\ (u.moved <=> u.at = "rewrite")
      BY <1>2 DEF TakesUp
<1>4. Rest(b, t) /\ SessionsFollow(b, t) /\ Orderly(b) /\ Waiting(b, n) /\ t.todo \subseteq DOMAIN t.doc
      BY <1>1, <1>3, TaskFacts DEF Follows, Rest, TaskFits
<1>5. u.at \in {"rewrite", "merge"} /\ u.at \in Working
      BY <1>2 DEF EntryMakes, EntryFinds, Working, Stages
<1>6. CASE EntryMakes(a, t, n, u)
  <2>1. /\ Held(b, n) = {} /\ k \in Ids /\ k > minted /\ u.at = "merge" /\ u.stored = NoSecret
        /\ row' = [row EXCEPT ![k] = ToInstalled(n, d)]
        BY <1>6, TaskFacts DEF EntryMakes
  <2>2. row[k] = NoRow /\ credentials[k] = NoSecret /\ b.row[k] = NoRow
        BY <2>1 DEF StoreShape, TaskShape
  <2>3. row'[k] = ToInstalled(n, d) /\ \A i \in Ids \ {k} : row'[i] = row[i]
        BY <2>1 DEF StoreShape, RowTables
  <2>4. row'[k] = Says1(n, d, NoSecret) /\ row'[k].name = n
    <3>1. CredentialNames(NoSecret) = {}
          BY SecretFacts
    <3>2. Says1(n, d, NoSecret) = ToInstalled(n, d)
          BY <3>1 DEF ToInstalled, Says1
    <3>3. ToInstalled(n, d).name = n
          BY DEF ToInstalled
    <3> QED
        BY <2>3, <3>2, <3>3
  <2>5. ASSUME NEW j \in Ids, Bears(row', j, n) PROVE j = k
    <3>1. SUFFICES ASSUME j # k PROVE FALSE
          OBVIOUS
    <3>2. Bears(row, j, n)
          BY <2>3, <2>5, <3>1 DEF Bears
    <3>3. j \in Held(b, n)
          BY <1>4, <3>2 DEF Waiting, Held, Bears
    <3> QED
        BY <2>1, <3>3
  <2>6. Heir(b, k, n) /\ Stored(b, k) = NoSecret /\ ~u.moved
        BY <1>3, <2>1, <2>2 DEF Heir, Stored
  <2>7. AtWork(b, u)'
        BY <1>1, <1>3, <1>5, <2>1, <2>2, <2>4, <2>5, <2>6 DEF AtWork
  <2>8. SessionsFollow(b, u)'
    <3>1. live'[k] = NoSession
          BY <1>1, <1>4, <2>1, <2>2 DEF SessionsFollow
    <3> QED
        BY <1>1, <1>4, <2>1, <2>3, <2>6, <3>1 DEF SessionsFollow
  <2>9. Rest(b, u)'
        BY <1>1, <1>3, <1>4, <1>5, <2>1, <2>2, <2>3, <2>4, TakenRest
  <2>10. LeavesAlone(b, u)
         BY <1>3, <2>1 DEF LeavesAlone, Tells
  <2>11. Follows(b, u)'
         BY <1>5, <2>7, <2>8, <2>9 DEF Follows
  <2> QED
      BY <1>3, <2>10, <2>11 DEF Leads
<1>7. CASE EntryFinds(a, t, n, u)
  <2>1. /\ k \in Held(b, n) /\ k \in Ids /\ row' = row /\ u.stored = credentials[k]
        /\ u.at = IF SameDial(d, b.row[k]) THEN "merge" ELSE "rewrite"
        BY <1>7 DEF EntryFinds, Held
  <2>2. /\ row[k] = b.row[k] /\ credentials[k] = b.secret[k] /\ b.row[k] # NoRow /\ b.row[k].name = n
        BY <1>4, <2>1 DEF Waiting, Held, Bears
  <2>3. ASSUME NEW j \in Ids, Bears(row, j, n) \/ j \in Held(b, n) PROVE j = k
    <3>1. row[j] = b.row[j]
          BY <1>4, <2>3 DEF Waiting
    <3>2. b.row[j] # NoRow /\ b.row[j].name = n
          BY <2>3, <3>1 DEF Held, Bears
    <3> QED
        BY <1>4, <2>2, <3>2, <2>1 DEF Orderly
  <2>4. Heir(b, k, n) /\ Stored(b, k) = credentials[k]
        BY <2>1, <2>2 DEF Heir, Stored
  <2>5. u.at = "merge" => row[k] = Says1(n, d, credentials[k])
    <3> SUFFICES ASSUME u.at = "merge" PROVE row[k] = Says1(n, d, credentials[k])
        OBVIOUS
    <3>1. d.dial = row[k].dial /\ d.on = row[k].on
          BY <2>1, <2>2 DEF SameDial
    <3>2. row[k].names = CredentialNames(credentials[k])
          BY <1>4, <2>1, <2>2 DEF Orderly
    <3>3. row[k] \in DocRows
          BY <2>1, <2>2 DEF StoreShape, RowTables
    <3> QED
        BY <2>2, <3>1, <3>2, <3>3 DEF DocRows, Says1
  <2>6. AtWork(b, u)'
    <3>1. CASE u.at = "merge"
          BY <1>1, <1>3, <1>5, <2>1, <2>2, <2>3, <2>4, <2>5, <3>1 DEF AtWork
    <3>2. CASE u.at = "rewrite"
          BY <1>1, <1>3, <1>5, <2>1, <2>2, <2>3, <2>4, <3>2 DEF AtWork
    <3> QED
        BY <1>5, <3>1, <3>2
  <2>7. SessionsFollow(b, u)'
        BY <1>1, <1>3, <1>4, <1>5, <2>1 DEF SessionsFollow
  <2>8. Rest(b, u)'
        BY <1>1, <1>3, <1>4, <1>5, <2>1, TakenRest
  <2>9. LeavesAlone(b, u)
    <3> SUFFICES ASSUME Tells(b, t.doc)
                 PROVE  /\ u.at = "merge" /\ u.left = {}
                        /\ MergeCredentials(u.stored, t.doc[n].user) = u.stored
        BY <1>3 DEF LeavesAlone
    <3>1. PICK i \in Held(b, n) : SameDial(d, b.row[i]) /\ MergeCredentials(b.secret[i], d.user) = b.secret[i]
          BY <1>3 DEF Tells
    <3>2. i = k
          BY <2>3, <3>1 DEF Held
    <3> QED
        BY <1>3, <2>1, <2>2, <3>1, <3>2
  <2>10. Follows(b, u)'
         BY <1>5, <2>6, <2>7, <2>8 DEF Follows
  <2> QED
      BY <1>3, <2>9, <2>10 DEF Leads
<1> QED
    BY <1>2, <1>6, <1>7

-----------------------------------------------------------------------------
(* Every step.                                                             *)

\* Where nothing of the store changes, all that was so far stays.
LEMMA FollowsStays ==
    ASSUME NEW b, NEW t, Follows(b, t), UNCHANGED storeVars
    PROVE  Follows(b, t)'
<1>1. row' = row /\ credentials' = credentials /\ live' = live
      BY DEF storeVars
<1>2. \A n, d : (Waiting(b, n) => Waiting(b, n)') /\ (Settled(b, n, d) => Settled(b, n, d)')
      BY <1>1 DEF Waiting, Settled
<1>3. Rest(b, t)'
      BY <1>1, <1>2 DEF Follows, Rest
<1>4. SessionsFollow(b, t)'
      BY <1>1 DEF Follows, SessionsFollow
<1>5. t.at \in Working => AtWork(b, t)'
      BY <1>1 DEF Follows, AtWork
<1> QED
    BY <1>3, <1>4, <1>5 DEF Follows

\* The history an apply begins is the store itself.
LEMMA BeginFollows ==
    ASSUME StoreShape, TaskShape, NEW a \in Appliers, NEW doc \in Documents, BeginApply(a, doc),
           alone'[a]
    PROVE  \A b \in {before'[a]}, t \in {task'[a]} : Follows(b, t)' /\ LeavesAlone(b, t)
<1> DEFINE out == {i \in Installed : row[i].name \notin DOMAIN doc}
<1> SUFFICES ASSUME NEW b, NEW t, b = before'[a], t = task'[a]
             PROVE  Follows(b, t)' /\ LeavesAlone(b, t)
    OBVIOUS
<1>1. b.row = row /\ b.secret = credentials
      BY DEF BeginApply, TaskShape
<1>2. t.at = "removing" /\ t.doc = doc /\ t.todo = DOMAIN doc /\ t.left = out
  <2>1. t = [Idle EXCEPT !.at = "removing", !.doc = doc, !.snap = row, !.todo = DOMAIN doc,
                         !.left = out]
        BY DEF BeginApply, Moves, TaskShape
  <2> HIDE DEF out
  <2> QED
      BY <2>1 DEF Idle
<1>3. row' = row /\ credentials' = credentials /\ live' = live
      BY DEF BeginApply, storeVars
<1>4. OneRowPerName /\ NamesInStep
      BY DEF BeginApply, TaskShape
<1>5. Orderly(b)
      BY <1>1, <1>4 DEF Orderly, OneRowPerName, NamesInStep, Installed
<1>6. Rest(b, t)'
  <2>1. \A n \in t.todo : Waiting(b, n)'
        BY <1>1, <1>3 DEF Waiting
  <2>2. \A i \in t.left : b.row[i] # NoRow /\ b.row[i].name \notin DOMAIN t.doc /\ row'[i] = b.row[i]
        BY <1>1, <1>2, <1>3 DEF Installed
  <2>3. \A i \in Ids : row'[i] # NoRow /\ row'[i].name \notin DOMAIN t.doc => i \in t.left
        BY <1>2, <1>3 DEF Installed
  <2> QED
      BY <1>2, <1>5, <2>1, <2>2, <2>3 DEF Rest
<1>7. SessionsFollow(b, t)'
      BY <1>1, <1>2, <1>3 DEF SessionsFollow, StoreShape
<1>8. LeavesAlone(b, t)
  <2> SUFFICES ASSUME Tells(b, doc), NEW i \in out PROVE FALSE
      BY <1>2 DEF LeavesAlone
  <2>1. i \in Ids /\ row[i] # NoRow /\ row[i].name \notin DOMAIN doc /\ row[i].name \in Names
        BY DEF Installed, StoreShape, RowTables, DocRows
  <2>2. Held(b, row[i].name) = {}
        BY <2>1 DEF Tells
  <2>3. i \in Held(b, row[i].name)
        BY <1>1, <2>1 DEF Held, Bears
  <2> QED
      BY <2>2, <2>3
<1> QED
    BY <1>2, <1>6, <1>7, <1>8 DEF Follows, Working

\* The steps of an apply that has the store to itself.
LEMMA ApplyFollows ==
    ASSUME StoreShape, TaskShape, NEW a \in Appliers, NEW b, NEW t, b = before[a], t = task[a],
           Follows(b, t), LeavesAlone(b, t), ApplyStep(a), task'[a].at # "failed"
    PROVE  \A u \in {task'[a]} : Follows(b, u)' /\ LeavesAlone(b, u)
<1>1. ~FailStep(a)
  <2>1. ASSUME FailStep(a) PROVE FALSE
    <3>1. PICK u : Moves(a, u) /\ u.at = "failed"
          BY <2>1, PlainSteps
    <3> QED
        BY <3>1 DEF Moves, TaskShape
  <2> QED
      BY <2>1
<1>2. Leads(a, b, t)
      BY <1>1, RemoveLeads, EntryLeads, DeleteLeads, InsertLeads, SetEnvLeads, UpdateEnvLeads,
         MergeLeads, ReconnectLeads, DoneLeads DEF ApplyStep
<1>3. PICK u : Moves(a, u) /\ Follows(b, u)' /\ LeavesAlone(b, u)
      BY <1>2 DEF Leads
<1>4. task'[a] = u
      BY <1>3 DEF Moves, TaskShape
<1> QED
    BY <1>3, <1>4

\* What an apply compares the store with.
Alike(a) == \A b \in {before[a]}, t \in {task[a]} :
    alone[a] /\ t.at \notin {"idle", "failed"} => Follows(b, t) /\ LeavesAlone(b, t)

LEMMA AlikeStays ==
    ASSUME TaskShape, NEW c \in Appliers, Alike(c), task'[c] = task[c], before'[c] = before[c],
           alone'[c] => alone[c] /\ UNCHANGED storeVars
    PROVE  Alike(c)'
<1> SUFFICES ASSUME NEW b, NEW t, b = before'[c], t = task'[c],
                    alone'[c], t.at \notin {"idle", "failed"}
             PROVE  Follows(b, t)' /\ LeavesAlone(b, t)
    BY DEF Alike
<1>1. Follows(b, t) /\ LeavesAlone(b, t)
      BY DEF Alike
<1> QED
    BY <1>1, FollowsStays

LEMMA DocNextKeeps == DocInv /\ [DocNext]_docVars => DocInv'
<1> SUFFICES ASSUME DocInv, [DocNext]_docVars PROVE DocInv'
    OBVIOUS
<1>1. StoreShape /\ TaskShape /\ \A c \in Appliers : Alike(c)
      BY DEF DocInv, Alike
<1>2. ASSUME NEW a \in Appliers, NEW doc \in Documents, BeginApply(a, doc) PROVE DocInv'
  <2>1. StoreShape' /\ TaskShape'
        BY <1>1, <1>2, BeginShape
  <2>2. UNCHANGED storeVars
        BY <1>2 DEF BeginApply
  <2>3. ASSUME NEW c \in Appliers PROVE Alike(c)'
    <3>1. CASE c = a
      <4>1. alone'[a] => \A b \in {before'[a]}, t \in {task'[a]} : Follows(b, t)' /\ LeavesAlone(b, t)
            BY <1>1, <1>2, BeginFollows
      <4> QED
          BY <3>1, <4>1 DEF Alike
    <3>2. CASE c # a
      <4>1. task'[c] = task[c] /\ before'[c] = before[c] /\ alone'[c] = alone[c]
            BY <1>1, <1>2, <3>2 DEF BeginApply, Moves, TaskShape
      <4> QED
          BY <1>1, <2>2, <4>1, AlikeStays
    <3> QED
        BY <3>1, <3>2
  <2> QED
      BY <2>1, <2>3 DEF DocInv, Alike
<1>3. ASSUME NEW a \in Appliers, ApplyStep(a) PROVE DocInv'
  <2>1. StoreShape' /\ TaskShape'
        BY <1>1, <1>3, ApplyShape
  <2>2. /\ before' = before /\ task[a].at \notin {"idle", "failed"}
        /\ \A c \in Appliers : alone'[c] => alone[c] /\ (c = a \/ UNCHANGED storeVars)
        /\ \A c \in Appliers \ {a} : task'[c] = task[c]
    <3>1. before' = before /\ \A c \in Appliers : alone'[c] => alone[c] /\ (c = a \/ UNCHANGED storeVars)
          BY <1>3 DEF ApplyStep, Disturbs
    <3>2. \E u : Moves(a, u)
          BY <1>3 DEF ApplyStep, Remove, Entry, Delete, Insert, SetEnvValues, UpdateEnvKeys, Merge,
                      Reconnect, Done, FailStep
    <3>3. \A c \in Appliers \ {a} : task'[c] = task[c]
          BY <3>2 DEF Moves
    <3>4. task[a].at \notin {"idle", "failed"}
          BY <1>3 DEF ApplyStep, Remove, Entry, Delete, Insert, SetEnvValues, UpdateEnvKeys, Merge,
                      Reconnect, Done, FailStep
    <3> QED
        BY <3>1, <3>3, <3>4
  <2>3. ASSUME NEW c \in Appliers PROVE Alike(c)'
    <3>1. CASE c = a
      <4> SUFFICES ASSUME alone'[a], task'[a].at \notin {"idle", "failed"}
                   PROVE  \A b \in {before'[a]}, t \in {task'[a]} : Follows(b, t)' /\ LeavesAlone(b, t)
          BY <3>1 DEF Alike
      <4>1. PICK b, t : b = before[a] /\ t = task[a]
            OBVIOUS
      <4>2. Follows(b, t) /\ LeavesAlone(b, t)
            BY <1>1, <2>2, <4>1 DEF Alike
      <4>3. \A u \in {task'[a]} : Follows(b, u)' /\ LeavesAlone(b, u)
            BY <1>1, <1>3, <4>1, <4>2, ApplyFollows
      <4>4. b = before'[a]
            BY <2>2, <4>1
      <4> QED
          BY <4>3, <4>4
    <3>2. CASE c # a
          BY <1>1, <2>2, <3>2, AlikeStays
    <3> QED
        BY <3>1, <3>2
  <2> QED
      BY <2>1, <2>3 DEF DocInv, Alike
<1>4. ASSUME OtherStep PROVE DocInv'
  <2>1. StoreShape' /\ TaskShape' /\ \A c \in Appliers : ~alone'[c]
        BY <1>1, <1>4, OtherShape DEF OtherStep
  <2> QED
      BY <2>1 DEF DocInv
<1>5. ASSUME UNCHANGED docVars PROVE DocInv'
  <2>1. StoreShape' /\ TaskShape' /\ UNCHANGED <<task, before, alone, storeVars>>
        BY <1>1, <1>5 DEF docVars, storeVars, StoreShape, TaskShape
  <2>2. \A c \in Appliers : Alike(c)'
        BY <1>1, <2>1, AlikeStays
  <2> QED
      BY <2>1, <2>2 DEF DocInv, Alike
<1> QED
    BY <1>2, <1>3, <1>4, <1>5 DEF DocNext

-----------------------------------------------------------------------------
(* Nothing an apply compares is ever out of step.                          *)
LEMMA DocInvAlways == DocSpec => []DocInv
<1>1. DocInit => DocInv
  <2> SUFFICES ASSUME DocInit PROVE DocInv
      OBVIOUS
  <2>1. StoreShape /\ TaskShape
        BY ShapeInit
  <2>2. \A a \in Appliers : ~alone[a]
        BY DEF DocInit
  <2> QED
      BY <2>1, <2>2 DEF DocInv
<1> QED
    BY <1>1, DocNextKeeps, PTL DEF DocSpec

\* What a document that was applied to the end makes of a name.
Declared(b, t, n) ==
    LET was == Says(b.row, b.secret, n)
    IN  IF n \notin DOMAIN t.doc THEN {}
        ELSE {[dial |-> t.doc[n].dial, on |-> t.doc[n].on,
               secret |-> MergeCredentials(s, t.doc[n].user)] :
                 s \in IF was = {} THEN {NoSecret} ELSE {w.secret : w \in was}}

LEMMA DoneSays ==
    ASSUME StoreShape, NEW b, NEW t, Follows(b, t), t.at = "done", NEW n \in Names
    PROVE  Says(row, credentials, n) = Declared(b, t, n)
<1>1. /\ t.left = {} /\ t.todo = {} /\ Orderly(b)
      /\ \A i \in Ids : row[i] # NoRow => row[i].name \in DOMAIN t.doc
      /\ \A m \in DOMAIN t.doc : Settled(b, m, t.doc[m])
      BY DEF Follows, Rest, Working
<1>2. \A table, values : Says(table, values, n) =
         {[dial |-> table[i].dial, on |-> table[i].on, secret |-> values[i]] :
             i \in {j \in Ids : Bears(table, j, n)}}
      BY DEF Says, Bears
<1>3. CASE n \notin DOMAIN t.doc
  <2>1. {j \in Ids : Bears(row, j, n)} = {}
        BY <1>1, <1>3 DEF Bears
  <2> QED
      BY <1>2, <1>3, <2>1 DEF Declared
<1>4. CASE n \in DOMAIN t.doc
  <2> DEFINE d == t.doc[n]
  <2>1. PICK i \in Ids :
            /\ Heir(b, i, n) /\ \A j \in Ids : Bears(row, j, n) => j = i
            /\ credentials[i] = MergeCredentials(Stored(b, i), d.user)
            /\ row[i] = Says1(n, d, credentials[i])
        BY <1>1, <1>4 DEF Settled
  <2>2. row[i].dial = d.dial /\ row[i].on = d.on /\ row[i].name = n /\ row[i] # NoRow
    <3>1. row[i].dial = d.dial /\ row[i].on = d.on /\ row[i].name = n
          BY <2>1 DEF Says1
    <3>2. row[i] # NoRow
          BY <3>1, DocumentAssumption DEF NoRow
    <3> QED
        BY <3>1, <3>2
  <2>3. {j \in Ids : Bears(row, j, n)} = {i}
        BY <2>1, <2>2 DEF Bears
  <2>4. Says(row, credentials, n) =
          {[dial |-> d.dial, on |-> d.on, secret |-> MergeCredentials(Stored(b, i), d.user)]}
        BY <1>2, <2>1, <2>2, <2>3
  <2>5. CASE Held(b, n) = {}
    <3>1. Says(b.row, b.secret, n) = {}
          BY <1>2, <2>5 DEF Held
    <3>2. Stored(b, i) = NoSecret
          BY <2>1, <2>5 DEF Heir, Stored
    <3> QED
        BY <1>4, <2>4, <3>1, <3>2 DEF Declared
  <2>6. CASE Held(b, n) # {}
    <3>1. i \in Held(b, n)
          BY <2>1, <2>6 DEF Heir
    <3>2. {j \in Ids : Bears(b.row, j, n)} = {i}
          BY <1>1, <3>1 DEF Held, Bears, Orderly
    <3>3. PICK w : w = [dial |-> b.row[i].dial, on |-> b.row[i].on, secret |-> b.secret[i]]
          OBVIOUS
    <3>4. Says(b.row, b.secret, n) = {w}
          BY <1>2, <3>2, <3>3
    <3>5. w.secret = Stored(b, i)
          BY <3>1, <3>3 DEF Held, Bears, Stored
    <3> QED
        BY <1>4, <2>4, <3>4, <3>5 DEF Declared
  <2> QED
      BY <2>5, <2>6
<1> QED
    BY <1>3, <1>4

(* A document that was applied to the end, with the store to itself, is what the      *)
(* store says, whatever the store held, and every session that is left was dialled    *)
(* as the store says or was stale before: apply_config_doc of                         *)
(* registry/config_doc/apply.rs.                                                      *)
THEOREM AppliedIsDeclared == DocSpec => []ConfigInv
<1>1. DocInv => ConfigInv
  <2> SUFFICES ASSUME DocInv PROVE ConfigInv
      OBVIOUS
  <2>1. StoreShape /\ TaskShape
        BY DEF DocInv
  <2>2. DocTypeOK
    <3>1. \A i \in Ids : row[i] = NoRow \/ (row[i].name \in Names /\ row[i].dial \in Dials)
          BY <2>1 DEF StoreShape, RowTables, DocRows
    <3> QED
        BY <2>1, <3>1 DEF StoreShape, DocTypeOK
  <2>3. ASSUME NEW a \in Appliers, task[a].at = "done", alone[a]
        PROVE  /\ \A n \in Names :
                    LET was == Says(before[a].row, before[a].secret, n)
                    IN  Says(row, credentials, n) =
                          IF n \notin DOMAIN task[a].doc THEN {}
                          ELSE {[dial |-> task[a].doc[n].dial, on |-> task[a].doc[n].on,
                                 secret |-> MergeCredentials(s, task[a].doc[n].user)] :
                                   s \in IF was = {} THEN {NoSecret} ELSE {w.secret : w \in was}}
               /\ NamesInStep
               /\ \A i \in Ids : \/ live[i] = NoSession
                                 \/ live[i] = [dial |-> row[i].dial, secret |-> credentials[i].user]
                                 \/ live[i] # [dial |-> before[a].row[i].dial,
                                               secret |-> before[a].secret[i].user]
    <3>1. PICK b, t : b = before[a] /\ t = task[a]
          OBVIOUS
    <3>2. Follows(b, t) /\ t.at = "done"
          BY <2>3, <3>1 DEF DocInv
    <3>3. \A n \in Names : Says(row, credentials, n) = Declared(b, t, n)
          BY <2>1, <3>2, DoneSays
    <3>4. NamesInStep
      <4> SUFFICES ASSUME NEW i \in Ids, row[i] # NoRow
                   PROVE  row[i].names = CredentialNames(credentials[i])
          BY DEF NamesInStep, Installed
      <4>1. PICK n : n = row[i].name
            OBVIOUS
      <4>2. n \in DOMAIN t.doc /\ Settled(b, n, t.doc[n])
            BY <3>2, <4>1 DEF Follows, Rest, Working
      <4>3. row[i] = Says1(n, t.doc[n], credentials[i])
            BY <4>1, <4>2 DEF Settled, Bears
      <4> QED
          BY <4>3 DEF Says1
    <3>5. \A i \in Ids : \/ live[i] = NoSession
                         \/ row[i].dial = b.row[i].dial /\ credentials[i].user = b.secret[i].user
          BY <3>2 DEF Follows, SessionsFollow
    <3> QED
        BY <3>1, <3>3, <3>4, <3>5 DEF Declared
  <2>4. AppliedAsDeclared
        BY <2>3 DEF AppliedAsDeclared
  <2>5. NoStaleSession
        BY <2>3 DEF NoStaleSession
  <2> QED
      BY <2>2, <2>4, <2>5 DEF ConfigInv
<1> QED
    BY <1>1, DocInvAlways, PTL

LEMMA SaidIsTold ==
    ASSUME NEW a \in Appliers, Said(a)
    PROVE  Tells(before[a], task[a].doc)
<1> DEFINE b == before[a]
           doc == task[a].doc
<1> SUFFICES ASSUME NEW n \in Names
             PROVE  IF n \in DOMAIN doc
                    THEN \E i \in Held(b, n) :
                            /\ SameDial(doc[n], b.row[i])
                            /\ MergeCredentials(b.secret[i], doc[n].user) = b.secret[i]
                    ELSE Held(b, n) = {}
    BY DEF Tells
<1>1. Says(b.row, b.secret, n) =
         {[dial |-> b.row[i].dial, on |-> b.row[i].on, secret |-> b.secret[i]] : i \in Held(b, n)}
      BY DEF Says, Held, Bears
<1>2. CASE n \in DOMAIN doc
  <2>1. PICK w \in Says(b.row, b.secret, n) :
           /\ w.dial = doc[n].dial /\ w.on = doc[n].on
           /\ MergeCredentials(w.secret, doc[n].user) = w.secret
        BY <1>2 DEF Said
  <2>2. PICK i \in Held(b, n) : w = [dial |-> b.row[i].dial, on |-> b.row[i].on, secret |-> b.secret[i]]
        BY <1>1, <2>1
  <2> QED
      BY <1>2, <2>1, <2>2 DEF SameDial
<1>3. CASE n \notin DOMAIN doc
  <2>1. Says(b.row, b.secret, n) = {}
        BY <1>3 DEF Said
  <2> QED
      BY <1>1, <1>3, <2>1
<1> QED
    BY <1>2, <1>3

(* Applying what the store already says changes nothing and ends no session, at any   *)
(* step and also when a store call fails: apply_config_doc of                         *)
(* registry/config_doc/apply.rs.                                                      *)
THEOREM ReapplyIsQuiet == DocSpec => ReapplyChangesNothing
<1>1. DocInv /\ [DocNext]_docVars =>
        [\A a \in Appliers :
           task[a].at # "idle" /\ alone[a] /\ Said(a) /\ ApplyStep(a) => UNCHANGED storeVars]_docVars
  <2> SUFFICES ASSUME DocInv, NEW a \in Appliers, alone[a], Said(a), ApplyStep(a)
               PROVE  UNCHANGED storeVars
      OBVIOUS
  <2>1. StoreShape /\ TaskShape
        BY DEF DocInv
  <2>2. task[a].at \notin {"idle", "failed"}
        BY DEF ApplyStep, Remove, Entry, Delete, Insert, SetEnvValues, UpdateEnvKeys, Merge,
               Reconnect, Done, FailStep
  <2>3. PICK b, t : b = before[a] /\ t = task[a]
        OBVIOUS
  <2>4. Follows(b, t) /\ LeavesAlone(b, t) /\ Tells(b, t.doc)
        BY <2>2, <2>3, SaidIsTold DEF DocInv
  <2>5. t.at \in {"removing", "merge", "done"} /\ t.left = {}
        BY <2>4 DEF LeavesAlone
  <2>6. CASE Entry(a)
    <3>1. live' = live /\ credentials' = credentials
          BY <2>1, <2>3, <2>6, EntryTaken
    <3>2. PICK n, u :
             TakesUp(a, t, n, u) /\ (EntryMakes(a, t, n, u) \/ EntryFinds(a, t, n, u))
          BY <2>1, <2>3, <2>6, EntryTaken
    <3>3. Held(b, n) # {}
          BY <2>4, <3>2 DEF TakesUp, Tells
    <3>4. row' = row
          BY <2>3, <3>2, <3>3 DEF EntryMakes, EntryFinds
    <3> QED
        BY <3>1, <3>4 DEF storeVars
  <2>7. CASE ~Entry(a)
        BY <2>3, <2>5, <2>7 DEF ApplyStep, Remove, Delete, Insert, SetEnvValues, UpdateEnvKeys, Merge,
               Reconnect, Done, FailStep
  <2> QED
      BY <2>6, <2>7
<1> QED
    BY <1>1, DocInvAlways, PTL DEF DocSpec, ReapplyChangesNothing

=============================================================================
