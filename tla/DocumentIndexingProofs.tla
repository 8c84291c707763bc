----------------------- MODULE DocumentIndexingProofs -----------------------
(***************************************************************************)
(* What holds of DocumentIndexing for every number of requests, versions   *)
(* and deaths.                                                             *)
(***************************************************************************)
EXTENDS DocumentIndexing, TLAPS

-----------------------------------------------------------------------------
(***************************************************************************)
(* Types.                                                                  *)
(***************************************************************************)

\* A commit writes the columns that differ from what was read (the unit of work
\* of the session), and leaves a row.
LEMMA CommitFields ==
    ASSUME doc \in Rows, NEW seen \in Rows, NEW new \in Rows
    PROVE  LET row == Commit(seen, new) IN
           /\ row \in Rows
           /\ row.status = IF new.status = seen.status THEN doc.status ELSE new.status
           /\ row.version = IF new.version = seen.version THEN doc.version ELSE new.version
           /\ row.active = IF new.active = seen.active THEN doc.active ELSE new.active
           /\ row.cleanupPending = IF new.cleanupPending = seen.cleanupPending
                                   THEN doc.cleanupPending ELSE new.cleanupPending
BY DEF Commit, Rows

\* The rows the requests commit, and a request that is over.
LEMMA NewRows ==
    /\ \A seen \in Rows : \A status \in Statuses : [seen EXCEPT !.status = status] \in Rows
    /\ \A seen \in Rows : [seen EXCEPT !.cleanupPending = FALSE] \in Rows
    /\ \A seen \in Rows : FailedStatus(seen.active) \in Statuses
    /\ NewRow("REVIEW_REQUIRED") \in Rows
    /\ IdleIndexer \in IndexSessions
    /\ IdleReconciler \in CleanupSessions
<1>1. 1 \in Versions /\ None \in Versions \union {None}
    BY VersionAssumption DEF Versions
<1>2. NewRow("REVIEW_REQUIRED") \in Rows
    BY <1>1 DEF NewRow, Rows, Statuses
<1>3. IdleIndexer \in IndexSessions /\ IdleReconciler \in CleanupSessions
    BY <1>1, <1>2 DEF IdleIndexer, IdleReconciler, IndexSessions, IndexSteps, CleanupSessions
<1>4. \A seen \in Rows : \A status \in Statuses : [seen EXCEPT !.status = status] \in Rows
    BY DEF Rows
<1>5. \A seen \in Rows : [seen EXCEPT !.cleanupPending = FALSE] \in Rows
    BY DEF Rows
<1>6. \A seen \in Rows : FailedStatus(seen.active) \in Statuses
    BY DEF Statuses, FailedStatus
<1> QED BY <1>2, <1>3, <1>4, <1>5, <1>6

\* A request goes on to another step, with the row it read or a new one, or is
\* over.
LEMMA SessionMoves ==
    ASSUME TypeOK
    PROVE  /\ \A i \in Indexers, step \in IndexSteps :
                Goto(i, step) => indexers' \in [Indexers -> IndexSessions]
           /\ \A i \in Indexers, step \in IndexSteps : \A row \in Rows :
                GotoWith(i, step, row) => indexers' \in [Indexers -> IndexSessions]
           /\ \A i \in Indexers : Finish(i) => indexers' \in [Indexers -> IndexSessions]
           /\ \A r \in Reconcilers, step \in {"idle", "read", "delete", "clear"} :
              \A row \in Rows :
                ReconcilerGoes(r, step, row)
                    => reconcilers' \in [Reconcilers -> CleanupSessions]
<1>1. \A i \in Indexers, step \in IndexSteps :
        Goto(i, step) => indexers' \in [Indexers -> IndexSessions]
    BY DEF TypeOK, IndexSessions, Goto
<1>2. \A i \in Indexers, step \in IndexSteps : \A row \in Rows :
        GotoWith(i, step, row) => indexers' \in [Indexers -> IndexSessions]
    BY DEF TypeOK, IndexSessions, GotoWith
<1>3. \A i \in Indexers : Finish(i) => indexers' \in [Indexers -> IndexSessions]
    BY NewRows DEF TypeOK, Finish
<1>4. \A r \in Reconcilers, step \in {"idle", "read", "delete", "clear"} : \A row \in Rows :
        ReconcilerGoes(r, step, row) => reconcilers' \in [Reconcilers -> CleanupSessions]
    BY DEF TypeOK, CleanupSessions, ReconcilerGoes
<1> QED BY <1>1, <1>2, <1>3, <1>4

\* The row an activation commits.
LEMMA ActivatedRow ==
    ASSUME TypeOK, NEW i \in Indexers
    PROVE  /\ Activated(i) \in Rows
           /\ Activated(i).status = "INDEXED"
           /\ Activated(i).version = indexers[i].seen.version
           /\ Activated(i).active = indexers[i].target
           /\ Activated(i).cleanupPending = HasOlder(i)
BY DEF TypeOK, IndexSessions, Activated, HasOlder, Rows, Statuses, Versions, None

LEMMA TypeInit == Init => TypeOK
BY NewRows, VersionAssumption
   DEF Init, TypeOK, Rows, Statuses, Versions, None, NewRow, IdleIndexer, IdleReconciler

LEMMA TypeStep == TypeOK /\ [Next]_vars => TypeOK'
<1> SUFFICES ASSUME TypeOK, [Next]_vars PROVE TypeOK'
    OBVIOUS
<1>1. \A v \in Versions :
        /\ WithoutVersion(v) \in [Versions -> {"none", "some", "all"}]
        /\ WithoutOlderThan(v) \in [Versions -> {"none", "some", "all"}]
    BY DEF TypeOK, WithoutVersion, WithoutOlderThan
<1>2. WithoutOlderThan(None) \in [Versions -> {"none", "some", "all"}]
    BY DEF TypeOK, WithoutOlderThan, None
<1>3. IdleReconciler.seen \in Rows
    BY NewRows DEF IdleReconciler
<1>4. \A s \in {"idle", "gate", "upsert", "verify", "activate", "cleanup", "clear",
               "recover", "keep", "orphans", "report"} : s \in IndexSteps
    BY DEF IndexSteps
<1>5. ASSUME NEW i \in Indexers, IndexRead(i) PROVE TypeOK'
    BY <1>4, <1>5 DEF TypeOK, IndexRead, IndexSessions, Rows
<1>6. ASSUME NEW i \in Indexers, IndexGate(i) PROVE TypeOK'
  <2>1. indexers[i].seen \in Rows
      BY DEF TypeOK, IndexSessions
  <2>2. "INDEXING" \in Statuses
      BY DEF Statuses
  <2>3. doc' \in Rows
      BY <1>6, <2>1, <2>2, CommitFields, NewRows DEF TypeOK, IndexGate
  <2> QED BY <1>4, <1>6, <2>3, SessionMoves DEF TypeOK, IndexGate
<1>7. ASSUME NEW i \in Indexers, IndexUpsert(i) \/ IndexUpsertFails(i)
      PROVE TypeOK'
  <2>1. points' \in [Versions -> {"none", "some", "all"}]
      BY <1>7 DEF TypeOK, IndexUpsert, IndexUpsertFails
  <2> QED BY <1>4, <1>7, <2>1, SessionMoves DEF TypeOK, IndexUpsert, IndexUpsertFails
<1>8. ASSUME NEW i \in Indexers, IndexVerify(i) \/ IndexFails(i) PROVE TypeOK'
    BY <1>4, <1>8, SessionMoves DEF TypeOK, IndexVerify, IndexFails
<1>9. ASSUME NEW i \in Indexers, IndexActivate(i) PROVE TypeOK'
  <2>1. indexers[i].seen \in Rows /\ indexers[i].target \in Versions
      BY DEF TypeOK, IndexSessions
  <2>2. doc' \in Rows
      BY <1>9, <2>1, CommitFields, ActivatedRow DEF TypeOK, IndexActivate
  <2> QED BY <1>4, <1>9, <2>1, <2>2, SessionMoves DEF TypeOK, IndexActivate
<1>10. ASSUME NEW i \in Indexers, IndexCleanup(i) \/ IndexCleanupFails(i) PROVE TypeOK'
  <2>1. indexers[i].seen.active \in Versions \union {None}
      BY DEF TypeOK, IndexSessions, Rows
  <2>2. points' \in [Versions -> {"none", "some", "all"}]
      BY <1>1, <1>2, <1>10, <2>1 DEF TypeOK, IndexCleanup, IndexCleanupFails
  <2> QED
      BY <1>4, <1>10, <2>2, SessionMoves DEF TypeOK, IndexCleanup, IndexCleanupFails
<1>11. ASSUME NEW i \in Indexers, IndexClear(i) \/ IndexKeeps(i) \/ IndexReports(i)
       PROVE TypeOK'
  <2>1. indexers[i].seen \in Rows
      BY DEF TypeOK, IndexSessions
  <2>2. "INDEXED" \in Statuses
      BY DEF Statuses
  <2>3. doc' \in Rows
      BY <1>11, <2>1, <2>2, CommitFields, NewRows DEF TypeOK, IndexClear, IndexKeeps, IndexReports
  <2> QED
      BY <1>11, <2>3, SessionMoves DEF TypeOK, IndexClear, IndexKeeps, IndexReports
<1>12. ASSUME NEW i \in Indexers, IndexRecover(i) \/ IndexDeletesOrphans(i) PROVE TypeOK'
  <2>1. doc \in Rows /\ indexers[i].target \in Versions
      BY DEF TypeOK, IndexSessions
  <2>2. CASE IndexRecover(i)
    <3>1. StepAfterRead(i, doc) \in {"keep", "orphans", "report"}
        BY DEF StepAfterRead
    <3> QED BY <1>4, <2>1, <2>2, <3>1, SessionMoves DEF TypeOK, IndexRecover
  <2>3. CASE IndexDeletesOrphans(i)
      BY <1>1, <1>4, <2>1, <2>3, SessionMoves DEF TypeOK, IndexDeletesOrphans
  <2> QED BY <1>12, <2>2, <2>3
<1>13. ASSUME NEW i \in Indexers, IndexerDies(i) PROVE TypeOK'
  <2>1. deaths' \in 0..MaxDeaths
      BY <1>13, VersionAssumption DEF TypeOK, IndexerDies
  <2> QED BY <1>13, <2>1, SessionMoves DEF TypeOK, IndexerDies
<1>14. ASSUME NEW r \in Reconcilers, ReconcileList(r) \/ ReconcileRead(r) PROVE TypeOK'
    BY <1>3, <1>14, SessionMoves DEF TypeOK, ReconcileList, ReconcileRead
<1>15. ASSUME NEW r \in Reconcilers, ReconcileDelete(r) \/ ReconcileFails(r) PROVE TypeOK'
  <2>1. reconcilers[r].seen \in Rows /\ reconcilers[r].seen.active \in Versions \union {None}
      BY DEF TypeOK, CleanupSessions, Rows
  <2>2. points' \in [Versions -> {"none", "some", "all"}]
      BY <1>1, <1>2, <1>15, <2>1 DEF TypeOK, ReconcileDelete, ReconcileFails
  <2> QED
      BY <1>3, <1>15, <2>1, <2>2, SessionMoves
         DEF TypeOK, ReconcileDelete, ReconcileFails
<1>16. ASSUME NEW r \in Reconcilers, ReconcileClear(r) PROVE TypeOK'
  <2>1. reconcilers[r].seen \in Rows
      BY DEF TypeOK, CleanupSessions
  <2>2. doc' \in Rows
      BY <1>16, <2>1, CommitFields, NewRows DEF TypeOK, ReconcileClear
  <2> QED BY <1>3, <1>16, <2>2, SessionMoves DEF TypeOK, ReconcileClear
<1>17. ASSUME NEW r \in Reconcilers, ReconcilerDies(r) PROVE TypeOK'
  <2>1. deaths' \in 0..MaxDeaths
      BY <1>17, VersionAssumption DEF TypeOK, ReconcilerDies
  <2> QED BY <1>3, <1>17, <2>1, SessionMoves DEF TypeOK, ReconcilerDies
<1>18. ASSUME Approve \/ Revise PROVE TypeOK'
  <2>1. doc.version + 1 \in Versions
      BY <1>18, VersionAssumption DEF TypeOK, Approve, Revise, Rows, Versions
  <2>2. doc' \in Rows
      BY <1>18, <2>1 DEF TypeOK, Approve, Revise, Rows, Statuses
  <2> QED BY <1>18, <2>2 DEF TypeOK, Approve, Revise
<1>19. CASE UNCHANGED vars
    BY <1>19 DEF TypeOK, vars
<1> QED
    BY <1>5, <1>6, <1>7, <1>8, <1>9, <1>10, <1>11, <1>12, <1>13, <1>14, <1>15, <1>16,
       <1>17, <1>18, <1>19
       DEF Next, IndexerStep, ReconcilerStep

\* The columns and the local variables hold what they can hold, however the
\* requests overlap (indexing_service.py).
THEOREM TypeInvariant == Spec => []TypeOK
BY TypeInit, TypeStep, PTL DEF Spec

-----------------------------------------------------------------------------
(***************************************************************************)
(* What is served, when no two index requests are in flight together.      *)
(***************************************************************************)

\* What a request that is at some step knows of the row: until it activates, its
\* target is later than what is served and nobody else changes that.
IndexerInv(i) ==
    LET step == indexers[i].step
        seen == indexers[i].seen
        target == indexers[i].target
    IN /\ step \in {"gate", "upsert", "verify", "activate"} =>
            /\ seen.active = doc.active
            /\ indexers[i].previous = doc.active
            /\ doc.active < target /\ target <= doc.version
       /\ step \in {"upsert", "verify", "activate"} =>
            seen.status = "INDEXING" /\ doc.status = "INDEXING"
       /\ step = "activate" => points[target] = "all"
       /\ step \in {"cleanup", "clear", "keep", "orphans", "report"} => seen.active = doc.active
       /\ step = "recover" => doc.active <= target /\ target <= doc.version
       /\ step = "keep" => doc.active = target
       /\ step = "orphans" => doc.active < target

OneWorks == \A i, j \in Indexers :
    indexers[i].step # "idle" /\ indexers[j].step # "idle" => i = j

\* A cleanup deletes what is older than something that was served.
ReconcilerInv(r) ==
    reconcilers[r].step \in {"delete", "clear"} => reconcilers[r].seen.active \in 1..doc.active

RowInv ==
    /\ doc.active <= doc.version
    /\ doc.active # None /\ doc.version = doc.active => doc.status = "INDEXED"
    /\ doc.status = "INDEX_FAILED" => doc.active = None

SwitchInv ==
    /\ TypeOK
    /\ RowInv
    /\ ActiveIsComplete
    /\ OneWorks
    /\ \A i \in Indexers : IndexerInv(i)
    /\ \A r \in Reconcilers : ReconcilerInv(r)

\* The types the steps below use.
LEMMA SessionTypes ==
    ASSUME TypeOK
    PROVE  /\ doc.active \in Nat /\ doc.version \in Nat /\ doc.version >= 1
           /\ \A i \in Indexers :
                /\ indexers[i].seen \in Rows
                /\ indexers[i].seen.active \in Nat
                /\ indexers[i].target \in Versions
                /\ indexers[i].target \in Nat /\ indexers[i].target >= 1
           /\ \A r \in Reconcilers :
                /\ reconcilers[r].seen \in Rows
                /\ reconcilers[r].seen.active \in Nat
           /\ \A v \in Versions : v \in Nat /\ v >= 1
           /\ doc.active # None => doc.active \in Versions
BY VersionAssumption DEF TypeOK, IndexSessions, CleanupSessions, Rows, Versions, None

\* What a step of a request does to the requests.
LEMMA SessionSteps ==
    ASSUME TypeOK, NEW i \in Indexers
    PROVE  /\ \A step : Goto(i, step) =>
                /\ \A j \in Indexers \ {i} : indexers'[j] = indexers[j]
                /\ indexers'[i].step = step
                /\ indexers'[i].seen = indexers[i].seen
                /\ indexers'[i].target = indexers[i].target
                /\ indexers'[i].previous = indexers[i].previous
           /\ \A step, seen : GotoWith(i, step, seen) =>
                /\ \A j \in Indexers \ {i} : indexers'[j] = indexers[j]
                /\ indexers'[i].step = step
                /\ indexers'[i].seen = seen
                /\ indexers'[i].target = indexers[i].target
                /\ indexers'[i].previous = indexers[i].previous
           /\ Finish(i) =>
                /\ \A j \in Indexers \ {i} : indexers'[j] = indexers[j]
                /\ indexers'[i].step = "idle"
BY DEF TypeOK, IndexSessions, Goto, GotoWith, Finish, IdleIndexer

\* While a request works the others are idle, and know nothing.
LEMMA OthersIdle ==
    ASSUME TypeOK, OneWorks, NEW i \in Indexers,
           indexers[i].step # "idle",
           \A j \in Indexers \ {i} : indexers'[j] = indexers[j]
    PROVE  /\ OneWorks'
           /\ \A j \in Indexers \ {i} : IndexerInv(j)'
<1>1. \A j \in Indexers \ {i} : indexers'[j].step = "idle"
    BY DEF OneWorks
<1>2. OneWorks'
    BY <1>1 DEF OneWorks
<1>3. ASSUME NEW j \in Indexers \ {i} PROVE IndexerInv(j)'
    BY <1>1 DEF IndexerInv
<1> QED BY <1>2, <1>3

\* A cleanup in flight stays right while what is served does not go back.
LEMMA ReconcilersKept ==
    ASSUME TypeOK, TypeOK', \A r \in Reconcilers : ReconcilerInv(r),
           UNCHANGED reconcilers, doc'.active >= doc.active
    PROVE  \A r \in Reconcilers : ReconcilerInv(r)'
BY SessionTypes DEF ReconcilerInv, TypeOK, Rows, Versions, None

LEMMA SwitchInit == Init => SwitchInv
<1> SUFFICES ASSUME Init PROVE SwitchInv
    OBVIOUS
<1>1. TypeOK
    BY TypeInit
<1>2. doc.active = None /\ doc.version = 1 /\ doc.status \in {"REVIEW_REQUIRED", "INDEX_READY"}
    BY DEF Init, NewRow
<1>3. \A i \in Indexers : indexers[i].step = "idle"
    BY DEF Init, IdleIndexer
<1>4. \A r \in Reconcilers : reconcilers[r].step = "idle"
    BY DEF Init, IdleReconciler
<1> QED
    BY <1>1, <1>2, <1>3, <1>4
       DEF SwitchInv, RowInv, ActiveIsComplete, OneWorks, IndexerInv, ReconcilerInv, None

\* Each step of a request that indexes.
LEMMA SwitchRead ==
    ASSUME OneIndexer, SwitchInv, TypeOK', NEW i \in Indexers, IndexRead(i)
    PROVE  SwitchInv'
<1> USE DEF SwitchInv
<1>1. /\ \A j \in Indexers \ {i} : indexers'[j] = indexers[j] /\ indexers[j].step = "idle"
      /\ indexers'[i] = [step |-> "gate", seen |-> doc, target |-> doc.version,
                         previous |-> doc.active]
    BY DEF IndexRead, Indexing, TypeOK
<1>2. doc.active < doc.version
    BY SessionTypes DEF IndexRead, NothingToDo, RowInv, None
<1>3. OneWorks' /\ \A j \in Indexers : IndexerInv(j)'
    BY <1>1, <1>2, SessionTypes DEF OneWorks, IndexerInv, IndexRead
<1>4. \A r \in Reconcilers : ReconcilerInv(r)'
    BY SessionTypes, ReconcilersKept DEF IndexRead
<1> QED BY <1>3, <1>4 DEF RowInv, ActiveIsComplete, IndexRead

LEMMA SwitchGate ==
    ASSUME SwitchInv, TypeOK', NEW i \in Indexers, IndexGate(i)
    PROVE  /\ SwitchInv' /\ doc'.active = doc.active
           /\ doc'.status = "INDEXING" /\ doc'.cleanupPending = doc.cleanupPending
<1> USE DEF SwitchInv
<1> DEFINE new == [indexers[i].seen EXCEPT !.status = "INDEXING"]
<1>1. /\ indexers[i].seen \in Rows /\ new \in Rows
      /\ new.status = "INDEXING" /\ new.version = indexers[i].seen.version
      /\ new.active = indexers[i].seen.active
      /\ new.cleanupPending = indexers[i].seen.cleanupPending
    BY SessionTypes DEF Rows, Statuses
<1>2. /\ doc'.status = "INDEXING" /\ doc'.version = doc.version /\ doc'.active = doc.active
      /\ doc'.cleanupPending = doc.cleanupPending
    BY <1>1, CommitFields DEF TypeOK, IndexGate, Indexable
<1>3. /\ indexers[i].step = "gate" /\ indexers'[i].step = "upsert"
      /\ indexers'[i].seen = doc' /\ indexers'[i].target = indexers[i].target
      /\ indexers'[i].previous = indexers[i].previous
      /\ \A j \in Indexers \ {i} : indexers'[j] = indexers[j]
    BY SessionSteps DEF IndexGate, At
<1>4. IndexerInv(i)'
    BY <1>2, <1>3 DEF IndexerInv
<1>5. OneWorks' /\ \A j \in Indexers : IndexerInv(j)'
    BY <1>3, <1>4, OthersIdle
<1>6. RowInv'
    BY <1>2, <1>3, SessionTypes DEF RowInv, IndexerInv
<1>7. \A r \in Reconcilers : ReconcilerInv(r)'
    BY <1>2, SessionTypes, ReconcilersKept DEF IndexGate
<1> QED BY <1>2, <1>5, <1>6, <1>7 DEF ActiveIsComplete, IndexGate

\* The steps that leave the row alone and do not delete.
LEMMA SwitchStores ==
    ASSUME SwitchInv, TypeOK', NEW i \in Indexers,
           IndexUpsert(i) \/ IndexUpsertFails(i) \/ IndexVerify(i) \/ IndexFails(i)
    PROVE  SwitchInv'
<1> USE DEF SwitchInv
<1>1. UNCHANGED <<doc, chunkRows, reconcilers>>
    BY DEF IndexUpsert, IndexUpsertFails, IndexVerify, IndexFails
<1>2. \A v \in Versions : points[v] = "all" => points'[v] = "all"
    BY DEF TypeOK, IndexUpsert, IndexUpsertFails, IndexVerify, IndexFails
<1>3. indexers[i].step \in {"gate", "upsert", "verify", "activate"}
    BY DEF IndexUpsert, IndexUpsertFails, IndexVerify, IndexFails, At
<1>4. /\ \A j \in Indexers \ {i} : indexers'[j] = indexers[j]
      /\ indexers'[i].seen = indexers[i].seen
      /\ indexers'[i].target = indexers[i].target
      /\ indexers'[i].previous = indexers[i].previous
      /\ \/ indexers[i].step = "upsert" /\ indexers'[i].step = "verify"
         \/ /\ indexers[i].step = "verify" /\ indexers'[i].step = "activate"
            /\ points'[indexers[i].target] = "all"
         \/ indexers'[i].step = "recover"
    BY SessionSteps DEF IndexUpsert, IndexUpsertFails, IndexVerify, IndexFails, At
<1>5. IndexerInv(i)'
    BY <1>1, <1>3, <1>4, SessionTypes DEF IndexerInv
<1>6. OneWorks' /\ \A j \in Indexers : IndexerInv(j)'
    BY <1>3, <1>4, <1>5, OthersIdle
<1>7. \A r \in Reconcilers : ReconcilerInv(r)'
    BY <1>1, SessionTypes, ReconcilersKept
<1> QED BY <1>1, <1>2, <1>6, <1>7, SessionTypes DEF RowInv, ActiveIsComplete

LEMMA SwitchActivate ==
    ASSUME SwitchInv, TypeOK', NEW i \in Indexers, IndexActivate(i)
    PROVE  /\ SwitchInv'
           /\ doc'.active = indexers[i].target
           /\ indexers[i].target > doc.active
           /\ points[indexers[i].target] = "all"
<1> USE DEF SwitchInv
<1>1. /\ indexers[i].step = "activate" /\ indexers[i].seen.status = "INDEXING"
      /\ indexers[i].seen.active = doc.active /\ points[indexers[i].target] = "all"
      /\ doc.active < indexers[i].target /\ indexers[i].target <= doc.version
    BY DEF IndexActivate, At, IndexerInv
<1>2. /\ doc'.active = indexers[i].target /\ doc'.version = doc.version
      /\ doc'.status = "INDEXED"
    BY <1>1, CommitFields, ActivatedRow, SessionTypes DEF TypeOK, IndexActivate
<1>3. /\ indexers'[i].step \in {"cleanup", "recover"}
      /\ indexers'[i].seen = doc' /\ indexers'[i].target = indexers[i].target
      /\ \A j \in Indexers \ {i} : indexers'[j] = indexers[j]
    BY SessionSteps DEF IndexActivate
<1>4. IndexerInv(i)'
    BY <1>1, <1>2, <1>3, SessionTypes DEF IndexerInv
<1>5. OneWorks' /\ \A j \in Indexers : IndexerInv(j)'
    BY <1>1, <1>3, <1>4, OthersIdle
<1>6. RowInv'
    BY <1>1, <1>2, SessionTypes DEF RowInv
<1>7. \A r \in Reconcilers : ReconcilerInv(r)'
    BY <1>1, <1>2, SessionTypes, ReconcilersKept DEF IndexActivate
<1>8. ActiveIsComplete'
    BY <1>1, <1>2 DEF ActiveIsComplete, IndexActivate
<1> QED BY <1>1, <1>2, <1>5, <1>6, <1>7, <1>8, SessionTypes

\* What is deleted after an activation is older than what is served.
LEMMA SwitchCleanup ==
    ASSUME SwitchInv, TypeOK', NEW i \in Indexers, IndexCleanup(i) \/ IndexCleanupFails(i)
    PROVE  SwitchInv'
<1> USE DEF SwitchInv
<1>1. UNCHANGED <<doc, chunkRows, reconcilers>>
    BY DEF IndexCleanup, IndexCleanupFails
<1>2. indexers[i].step = "cleanup" /\ indexers[i].seen.active = doc.active
    BY DEF IndexCleanup, IndexCleanupFails, At, IndexerInv
<1>3. \A v \in Versions : v >= doc.active => points'[v] = points[v]
    BY <1>2, SessionTypes DEF TypeOK, IndexCleanup, IndexCleanupFails, WithoutOlderThan
<1>4. /\ \A j \in Indexers \ {i} : indexers'[j] = indexers[j]
      /\ \/ indexers'[i].step = "idle"
         \/ indexers'[i].step = "clear" /\ indexers'[i].seen = indexers[i].seen
    BY SessionSteps DEF IndexCleanup, IndexCleanupFails
<1>5. IndexerInv(i)'
    BY <1>1, <1>2, <1>4 DEF IndexerInv
<1>6. OneWorks' /\ \A j \in Indexers : IndexerInv(j)'
    BY <1>2, <1>4, <1>5, OthersIdle
<1>7. \A r \in Reconcilers : ReconcilerInv(r)'
    BY <1>1, SessionTypes, ReconcilersKept
<1>8. ActiveIsComplete'
    BY <1>1, <1>3, SessionTypes DEF ActiveIsComplete
<1> QED BY <1>1, <1>6, <1>7, <1>8 DEF RowInv

\* The commits at the end of a request do not touch what is served.
LEMMA SwitchEnds ==
    ASSUME SwitchInv, TypeOK', NEW i \in Indexers, IndexClear(i) \/ IndexKeeps(i) \/ IndexReports(i)
    PROVE  /\ SwitchInv' /\ doc'.active = doc.active
           /\ \/ doc'.status = doc.status
              \/ doc'.status = "INDEXED" /\ doc.active # None
              \/ doc'.status = "INDEX_FAILED"
           /\ indexers[i].step # "clear" => doc'.cleanupPending = doc.cleanupPending
<1> USE DEF SwitchInv
<1> DEFINE seen == indexers[i].seen
<1>1. /\ indexers[i].step \in {"clear", "keep", "report"}
      /\ seen.active = doc.active
      /\ indexers[i].step = "keep" => doc.active >= 1
    BY SessionTypes DEF IndexClear, IndexKeeps, IndexReports, At, IndexerInv
<1>2. /\ doc'.active = doc.active /\ doc'.version = doc.version
      /\ \/ doc'.status = doc.status
         \/ doc'.status = "INDEXED" /\ doc.active # None
         \/ doc'.status = "INDEX_FAILED" /\ doc.active = None
      /\ indexers[i].step # "clear" => doc'.cleanupPending = doc.cleanupPending
  <2>1. seen \in Rows
      BY SessionTypes
  <2>2. CASE IndexClear(i)
    <3> DEFINE new == [seen EXCEPT !.cleanupPending = FALSE]
    <3>1. /\ new \in Rows /\ new.status = seen.status /\ new.version = seen.version
          /\ new.active = seen.active
        BY <2>1 DEF Rows
    <3>2. doc' = doc \/ doc' = Commit(seen, new)
        BY <2>2 DEF IndexClear
    <3>3. indexers[i].step = "clear"
        BY <2>2 DEF IndexClear, At
    <3>4. CASE doc' = doc
        BY <3>4
    <3>5. CASE doc' = Commit(seen, new)
        BY <2>1, <3>1, <3>3, <3>5, CommitFields DEF TypeOK
    <3> QED BY <3>2, <3>4, <3>5
  <2>3. CASE IndexKeeps(i)
    <3> DEFINE new == [seen EXCEPT !.status = "INDEXED"]
    <3>1. /\ new \in Rows /\ new.status = "INDEXED" /\ new.version = seen.version
          /\ new.active = seen.active /\ new.cleanupPending = seen.cleanupPending
        BY <2>1 DEF Rows, Statuses
    <3>2. doc.active # None
        BY <1>1, <2>3 DEF IndexKeeps, At, None
    <3>3. doc' = Commit(seen, new)
        BY <2>3 DEF IndexKeeps
    <3>4. /\ doc'.active = doc.active /\ doc'.version = doc.version
          /\ doc'.status \in {doc.status, "INDEXED"}
          /\ doc'.cleanupPending = doc.cleanupPending
        BY <2>1, <3>1, <3>3, CommitFields DEF TypeOK
    <3> QED BY <3>2, <3>4
  <2>4. CASE IndexReports(i)
    <3> DEFINE new == [seen EXCEPT !.status = FailedStatus(seen.active)]
    <3>1. /\ new \in Rows /\ new.status = FailedStatus(seen.active)
          /\ new.version = seen.version /\ new.active = seen.active
          /\ new.cleanupPending = seen.cleanupPending
        BY <2>1, NewRows DEF Rows
    <3>2. doc' = Commit(seen, new)
        BY <2>4 DEF IndexReports
    <3>3. FailedStatus(seen.active) = IF doc.active = None THEN "INDEX_FAILED" ELSE "INDEXED"
        BY <1>1 DEF FailedStatus
    <3> QED BY <2>1, <3>1, <3>2, <3>3, CommitFields DEF TypeOK
  <2> QED BY <2>2, <2>3, <2>4
<1>3. indexers'[i].step = "idle" /\ \A j \in Indexers \ {i} : indexers'[j] = indexers[j]
    BY SessionSteps DEF IndexClear, IndexKeeps, IndexReports
<1>4. OneWorks' /\ \A j \in Indexers : IndexerInv(j)'
    BY <1>1, <1>3, OthersIdle DEF IndexerInv
<1>5. \A r \in Reconcilers : ReconcilerInv(r)'
    BY <1>2, SessionTypes, ReconcilersKept DEF IndexClear, IndexKeeps, IndexReports
<1>6. RowInv'
    BY <1>2 DEF RowInv
<1>7. ActiveIsComplete'
    BY <1>2 DEF ActiveIsComplete, IndexClear, IndexKeeps, IndexReports
<1> QED BY <1>2, <1>4, <1>5, <1>6, <1>7

\* What a failed request deletes is not what is served.
LEMMA SwitchRecovers ==
    ASSUME SwitchInv, TypeOK', NEW i \in Indexers, IndexRecover(i) \/ IndexDeletesOrphans(i)
    PROVE  SwitchInv'
<1> USE DEF SwitchInv
<1>1. UNCHANGED <<doc, chunkRows, reconcilers>>
    BY DEF IndexRecover, IndexDeletesOrphans
<1>2. \A j \in Indexers \ {i} : indexers'[j] = indexers[j]
    BY SessionSteps DEF IndexRecover, IndexDeletesOrphans
<1>3. CASE IndexRecover(i)
  <2>1. /\ indexers[i].step = "recover" /\ indexers'[i].seen = doc
        /\ indexers'[i].target = indexers[i].target
        /\ indexers'[i].step = StepAfterRead(i, doc)
      BY <1>3, SessionSteps DEF IndexRecover, At
  <2>2. StepAfterRead(i, doc) = IF indexers[i].target = doc.active THEN "keep" ELSE "orphans"
    <3>1. doc.active <= indexers[i].target
        BY <2>1 DEF IndexerInv
    <3>2. CASE indexers[i].target = doc.active
        BY <3>2, SessionTypes DEF StepAfterRead, None
    <3>3. CASE indexers[i].target > doc.active
        BY <3>3, SessionTypes DEF StepAfterRead, None
    <3> QED BY <3>1, <3>2, <3>3, SessionTypes
  <2>3. IndexerInv(i)'
      BY <1>1, <2>1, <2>2, SessionTypes DEF IndexerInv
  <2>4. OneWorks' /\ \A j \in Indexers : IndexerInv(j)'
      BY <1>2, <2>1, <2>3, OthersIdle
  <2>5. \A r \in Reconcilers : ReconcilerInv(r)'
      BY <1>1, SessionTypes, ReconcilersKept
  <2> QED BY <1>1, <1>3, <2>4, <2>5 DEF RowInv, ActiveIsComplete, IndexRecover
<1>4. CASE IndexDeletesOrphans(i)
  <2>1. /\ indexers[i].step = "orphans" /\ indexers'[i].step = "report"
        /\ indexers'[i].seen = indexers[i].seen
      BY <1>4, SessionSteps DEF IndexDeletesOrphans, At
  <2>2. doc.active < indexers[i].target /\ indexers[i].seen.active = doc.active
      BY <2>1 DEF IndexerInv
  <2>3. OneWorks' /\ \A j \in Indexers : IndexerInv(j)'
      BY <1>1, <1>2, <2>1, <2>2, OthersIdle DEF IndexerInv
  <2>4. \A r \in Reconcilers : ReconcilerInv(r)'
      BY <1>1, SessionTypes, ReconcilersKept
  <2>5. ActiveIsComplete'
      BY <1>1, <1>4, <2>2, SessionTypes
         DEF ActiveIsComplete, IndexDeletesOrphans, WithoutVersion, TypeOK
  <2> QED BY <1>1, <2>3, <2>4, <2>5 DEF RowInv
<1> QED BY <1>3, <1>4

\* The steps of a cleanup request, which change the marker and delete what is
\* older than what is served.
LEMMA SwitchReconciles ==
    ASSUME SwitchInv, TypeOK', NEW r \in Reconcilers, ReconcilerStep(r) \/ ReconcileList(r)
    PROVE  /\ SwitchInv'
           /\ doc'.active = doc.active /\ doc'.status = doc.status
           /\ \A v \in Versions : v >= doc.active => points'[v] = points[v]
<1> USE DEF SwitchInv
<1>1. UNCHANGED <<chunkRows, indexers>>
    BY DEF ReconcilerStep, ReconcileList, ReconcileRead, ReconcileDelete, ReconcileFails,
           ReconcileClear
<1>2. /\ doc'.active = doc.active /\ doc'.version = doc.version
      /\ doc'.status = doc.status
  <2> DEFINE seen == reconcilers[r].seen
             new == [seen EXCEPT !.cleanupPending = FALSE]
  <2>1. /\ seen \in Rows /\ new \in Rows /\ new.status = seen.status
        /\ new.version = seen.version /\ new.active = seen.active
      BY SessionTypes DEF Rows
  <2>2. CASE ReconcileClear(r)
      BY <2>1, <2>2, CommitFields DEF TypeOK, ReconcileClear
  <2>3. CASE ~ReconcileClear(r)
      BY <2>3 DEF ReconcilerStep, ReconcileList, ReconcileRead, ReconcileDelete, ReconcileFails
  <2> QED BY <2>2, <2>3
<1>3. \A v \in Versions : v >= doc.active => points'[v] = points[v]
  <2>1. CASE ReconcileDelete(r) \/ ReconcileFails(r)
      BY <2>1, SessionTypes
         DEF TypeOK, ReconcileDelete, ReconcileFails, WithoutOlderThan, ReconcilerInv
  <2>2. CASE ~(ReconcileDelete(r) \/ ReconcileFails(r))
      BY <2>2 DEF ReconcilerStep, ReconcileList, ReconcileRead, ReconcileClear
  <2> QED BY <2>1, <2>2
<1>4. /\ \A q \in Reconcilers \ {r} : reconcilers'[q] = reconcilers[q]
      /\ \/ reconcilers'[r].step \in {"idle", "read"}
         \/ reconcilers'[r].step = "delete" /\ reconcilers'[r].seen = doc /\ doc.active # None
         \/ /\ reconcilers[r].step = "delete" /\ reconcilers'[r].step = "clear"
            /\ reconcilers'[r].seen = reconcilers[r].seen
    BY DEF TypeOK, ReconcilerStep, ReconcileList, ReconcileRead, ReconcileDelete, ReconcileFails,
           ReconcileClear, ReconcilerGoes
<1>5. \A q \in Reconcilers : ReconcilerInv(q)'
    BY <1>2, <1>4, SessionTypes DEF ReconcilerInv, None
<1>6. OneWorks'
    BY <1>1 DEF OneWorks
<1>7. \A i \in Indexers : IndexerInv(i)'
    BY <1>1, <1>2, <1>3, SessionTypes DEF IndexerInv
<1>8. ActiveIsComplete'
    BY <1>1, <1>2, <1>3, SessionTypes DEF ActiveIsComplete
<1> QED BY <1>2, <1>3, <1>5, <1>6, <1>7, <1>8 DEF RowInv

\* What else happens.
LEMMA SwitchOther ==
    ASSUME SwitchInv, TypeOK',
           \/ \E i \in Indexers : IndexerDies(i)
           \/ \E r \in Reconcilers : ReconcilerDies(r)
           \/ Approve \/ Revise
           \/ UNCHANGED vars
    PROVE  SwitchInv' /\ UNCHANGED points /\ doc'.active = doc.active
<1> USE DEF SwitchInv
<1>1. CASE \E i \in Indexers : IndexerDies(i)
  <2>1. PICK i \in Indexers : IndexerDies(i)
      BY <1>1
  <2>2. /\ indexers[i].step # "idle" /\ indexers'[i].step = "idle"
        /\ \A j \in Indexers \ {i} : indexers'[j] = indexers[j]
      BY <2>1, SessionSteps DEF IndexerDies, At
  <2>3. OneWorks' /\ \A j \in Indexers : IndexerInv(j)'
      BY <2>2, OthersIdle DEF IndexerInv
  <2> QED BY <2>1, <2>3, ReconcilersKept, SessionTypes DEF IndexerDies, RowInv, ActiveIsComplete
<1>2. CASE \E r \in Reconcilers : ReconcilerDies(r)
  <2>1. PICK r \in Reconcilers : ReconcilerDies(r)
      BY <1>2
  <2>2. /\ reconcilers'[r].step = "idle"
        /\ \A q \in Reconcilers \ {r} : reconcilers'[q] = reconcilers[q]
        /\ UNCHANGED <<doc, chunkRows, points, indexers>>
      BY <2>1 DEF TypeOK, ReconcilerDies, ReconcilerGoes
  <2> QED BY <2>2 DEF RowInv, ActiveIsComplete, OneWorks, IndexerInv, ReconcilerInv
<1>3. CASE Approve \/ Revise
  <2>1. /\ UNCHANGED <<chunkRows, points, indexers, reconcilers>>
        /\ doc'.active = doc.active /\ doc'.version = doc.version + 1
        /\ doc'.status = "INDEX_READY" /\ doc.status # "INDEXING"
      BY <1>3 DEF TypeOK, Rows, Approve, Revise
  <2>2. \A i \in Indexers : IndexerInv(i)'
      BY <2>1, SessionTypes DEF IndexerInv
  <2>3. RowInv'
      BY <2>1, SessionTypes DEF RowInv
  <2>4. \A r \in Reconcilers : ReconcilerInv(r)'
      BY <2>1, SessionTypes, ReconcilersKept
  <2> QED BY <2>1, <2>2, <2>3, <2>4 DEF ActiveIsComplete, OneWorks
<1>4. CASE UNCHANGED vars
    BY <1>4 DEF vars, RowInv, ActiveIsComplete, OneWorks, IndexerInv, ReconcilerInv
<1> QED BY <1>1, <1>2, <1>3, <1>4

LEMMA SwitchStep == OneIndexer /\ SwitchInv /\ [Next]_vars => SwitchInv'
<1> SUFFICES ASSUME OneIndexer, SwitchInv, [Next]_vars PROVE SwitchInv'
    OBVIOUS
<1>1. TypeOK'
    BY TypeStep DEF SwitchInv
<1> QED
    BY <1>1, SwitchRead, SwitchGate, SwitchStores, SwitchActivate, SwitchCleanup, SwitchEnds,
       SwitchRecovers, SwitchReconciles, SwitchOther
       DEF Next, IndexerStep

LEMMA SwitchInvariant == ASSUME OneIndexer PROVE Spec => []SwitchInv
BY SwitchInit, SwitchStep, PTL DEF Spec

\* The version a document is served at is complete in the vector store and is
\* the one of its chunk rows, whatever fails (index_document, steps 4 to 7 and
\* the except block).
THEOREM ActiveStaysComplete == ASSUME OneIndexer PROVE Spec => []ActiveIsComplete
<1>1. SwitchInv => ActiveIsComplete
    BY DEF SwitchInv
<1> QED BY <1>1, SwitchInvariant, PTL

\* A document that is served is never INDEX_FAILED (the except block).
THEOREM ServedIsNotFailed == ASSUME OneIndexer PROVE Spec => []SearchableIsNotFailed
<1>1. SwitchInv => SearchableIsNotFailed
    BY DEF SwitchInv, RowInv, SearchableIsNotFailed
<1> QED BY <1>1, SwitchInvariant, PTL

-----------------------------------------------------------------------------
(***************************************************************************)
(* The switch from generation to generation.                               *)
(***************************************************************************)

Complete == {v \in Versions : points[v] = "all"}

\* Three kinds of steps are steps of IndexGenerations.
LEMMA Stutters ==
    ASSUME doc'.active = doc.active, \A v \in Versions : points'[v] = "all" <=> points[v] = "all"
    PROVE  UNCHANGED Generations!vars
BY DEF Generations!vars

LEMMA Builds ==
    ASSUME doc'.active = doc.active, NEW t \in Versions,
           \A v \in Versions : points'[v] = "all" <=> (points[v] = "all" \/ v = t)
    PROVE  Generations!Next
BY DEF Generations!Next, Generations!Build

LEMMA Drops ==
    ASSUME doc'.active = doc.active, NEW gone \in SUBSET Versions, doc.active \notin gone,
           \A v \in Versions : points'[v] = "all" <=> (points[v] = "all" /\ v \notin gone)
    PROVE  Generations!Next
<1>1. Generations!Drop(gone)
    BY DEF Generations!Drop
<1> QED BY <1>1 DEF Generations!Next

LEMMA GenerationsInit == Init => Generations!Init
BY DEF Init, Generations!Init, NewRow, None

\* Points are deleted that are older than something that was served.
LEMMA DropsOlder ==
    ASSUME TypeOK, NEW a \in Nat, a <= doc.active, doc'.active = doc.active,
           points' \in {points, WithoutOlderThan(a)}
    PROVE  [Generations!Next]_(Generations!vars)
<1>1. CASE points' = points
    BY <1>1, Stutters
<1>2. CASE points' = WithoutOlderThan(a)
  <2> DEFINE gone == {v \in Versions : v < a}
  <2>1. \A v \in Versions : points'[v] = "all" <=> (points[v] = "all" /\ v \notin gone)
      BY <1>2 DEF WithoutOlderThan
  <2>2. doc.active \notin gone
      BY SessionTypes
  <2> HIDE DEF gone
  <2>3. gone \in SUBSET Versions
      BY DEF gone
  <2> QED BY <2>1, <2>2, <2>3, Drops
<1> QED BY <1>1, <1>2

LEMMA GenerationsStep ==
    ASSUME OneIndexer, SwitchInv, [Next]_vars
    PROVE  [Generations!Next]_(Generations!vars)
<1>1. TypeOK /\ TypeOK'
    BY TypeStep DEF SwitchInv
<1>2. ASSUME NEW i \in Indexers, IndexRead(i) \/ IndexGate(i) \/ IndexVerify(i) \/ IndexFails(i)
                                   \/ IndexRecover(i)
      PROVE  [Generations!Next]_(Generations!vars)
  <2>1. doc'.active = doc.active /\ points' = points
      BY <1>1, <1>2, SwitchGate DEF IndexRead, IndexGate, IndexVerify, IndexFails, IndexRecover
  <2> QED BY <2>1, Stutters
<1>3. ASSUME NEW i \in Indexers, IndexUpsert(i) \/ IndexUpsertFails(i)
      PROVE  [Generations!Next]_(Generations!vars)
  <2>1. doc' = doc /\ indexers[i].target \in Versions
      BY <1>1, <1>3, SessionTypes DEF IndexUpsert, IndexUpsertFails
  <2>2. \/ \A v \in Versions :
             points'[v] = "all" <=> (points[v] = "all" \/ v = indexers[i].target)
        \/ \A v \in Versions : points'[v] = "all" <=> points[v] = "all"
      BY <1>1, <1>3, <2>1 DEF TypeOK, IndexUpsert, IndexUpsertFails
  <2> QED BY <2>1, <2>2, Builds, Stutters
<1>4. ASSUME NEW i \in Indexers, IndexActivate(i) PROVE [Generations!Next]_(Generations!vars)
  <2>1. /\ doc'.active = indexers[i].target /\ indexers[i].target > doc.active
        /\ points[indexers[i].target] = "all" /\ points' = points
        /\ indexers[i].target \in Versions
      BY <1>1, <1>4, SwitchActivate, SessionTypes DEF IndexActivate
  <2>2. Generations!Switch(indexers[i].target)
      BY <2>1 DEF Generations!Switch
  <2> QED BY <2>1, <2>2 DEF Generations!Next
<1>5. ASSUME NEW i \in Indexers, IndexCleanup(i) \/ IndexCleanupFails(i)
      PROVE  [Generations!Next]_(Generations!vars)
  <2>1. indexers[i].seen.active = doc.active /\ doc' = doc
      BY <1>5 DEF SwitchInv, IndexerInv, IndexCleanup, IndexCleanupFails, At
  <2>2. points' \in {points, WithoutOlderThan(doc.active)}
      BY <1>5, <2>1 DEF IndexCleanup, IndexCleanupFails
  <2> QED BY <1>1, <2>1, <2>2, SessionTypes, DropsOlder
<1>6. ASSUME NEW i \in Indexers, IndexClear(i) \/ IndexKeeps(i) \/ IndexReports(i)
      PROVE  [Generations!Next]_(Generations!vars)
  <2>1. doc'.active = doc.active /\ points' = points
      BY <1>1, <1>6, SwitchEnds DEF IndexClear, IndexKeeps, IndexReports
  <2> QED BY <2>1, Stutters
<1>7. ASSUME NEW i \in Indexers, IndexDeletesOrphans(i)
      PROVE  [Generations!Next]_(Generations!vars)
  <2>1. /\ indexers[i].target \in Versions /\ doc' = doc
        /\ doc.active < indexers[i].target
      BY <1>1, <1>7, SessionTypes DEF SwitchInv, IndexerInv, IndexDeletesOrphans, At
  <2>2. CASE points' = points
      BY <2>1, <2>2, Stutters
  <2>3. CASE points' = WithoutVersion(indexers[i].target)
    <3>1. \A v \in Versions :
             points'[v] = "all" <=> (points[v] = "all" /\ v \notin {indexers[i].target})
        BY <1>1, <2>3 DEF WithoutVersion, TypeOK
    <3>2. doc.active \notin {indexers[i].target} /\ {indexers[i].target} \in SUBSET Versions
        BY <1>1, <2>1, SessionTypes
    <3> QED BY <2>1, <3>1, <3>2, Drops
  <2> QED BY <1>7, <2>2, <2>3 DEF IndexDeletesOrphans
<1>8. ASSUME NEW r \in Reconcilers, ReconcilerStep(r) \/ ReconcileList(r)
      PROVE  [Generations!Next]_(Generations!vars)
  <2>1. doc'.active = doc.active
      BY <1>1, <1>8, SwitchReconciles
  <2>2. CASE points' = points
      BY <2>1, <2>2, Stutters
  <2>3. CASE ReconcileDelete(r) \/ ReconcileFails(r)
    <3>1. points' \in {points, WithoutOlderThan(reconcilers[r].seen.active)}
        BY <2>3 DEF ReconcileDelete, ReconcileFails
    <3>2. reconcilers[r].seen.active <= doc.active
        BY <1>1, <2>3, SessionTypes DEF SwitchInv, ReconcilerInv, ReconcileDelete, ReconcileFails
    <3> QED BY <1>1, <2>1, <3>1, <3>2, SessionTypes, DropsOlder
  <2> QED
      BY <1>8, <2>2, <2>3
         DEF ReconcilerStep, ReconcileList, ReconcileRead, ReconcileClear
<1>9. ASSUME \/ \E i \in Indexers : IndexerDies(i)
             \/ \E r \in Reconcilers : ReconcilerDies(r)
             \/ Approve \/ Revise
             \/ UNCHANGED vars
      PROVE  [Generations!Next]_(Generations!vars)
    BY <1>1, <1>9, SwitchOther, Stutters
<1> QED
    BY <1>2, <1>3, <1>4, <1>5, <1>6, <1>7, <1>8, <1>9 DEF Next, IndexerStep

\* Indexing keeps its promise to the searches: a complete generation is served,
\* and only a later one replaces it (index_document).
THEOREM GenerationsAreSwitched == ASSUME OneIndexer PROVE Spec => GenerationsSpec
<1>1. OneIndexer /\ SwitchInv /\ [Next]_vars => [Generations!Next]_(Generations!vars)
    BY GenerationsStep
<1> QED
    BY <1>1, GenerationsInit, SwitchInvariant, PTL DEF Spec, GenerationsSpec, Generations!Spec

-----------------------------------------------------------------------------
(***************************************************************************)
(* What is left behind, when in addition no cleanup request is in flight   *)
(* with an index request.                                                  *)
(***************************************************************************)

NothingOlder == \A v \in Versions : v < doc.active => points[v] = "none"

\* A request that will activate knows the marker; one that will activate the
\* first version has the store to itself.
MarkIndexer(i) ==
    LET step == indexers[i].step
        seen == indexers[i].seen
    IN /\ step = "gate" /\ seen.status = "INDEXED" => doc.active # None
       /\ step = "gate" /\ seen.status = "INDEX_READY" => doc.status = "INDEX_READY"
       /\ step \in {"upsert", "verify", "activate"} =>
             /\ seen.cleanupPending = doc.cleanupPending
             /\ doc.active = None =>
                  \A v \in Versions \ {indexers[i].target} : points[v] = "none"
       /\ step = "clear" => NothingOlder

MarkReconciler(r) ==
    /\ reconcilers[r].step \in {"delete", "clear"} => reconcilers[r].seen.active = doc.active
    /\ reconcilers[r].step = "clear" => NothingOlder

Apart == \A i \in Indexers, r \in Reconcilers :
    indexers[i].step = "idle" \/ reconcilers[r].step = "idle"

MarkInv ==
    /\ SwitchInv
    /\ StaleGenerationsAreMarked
    /\ Apart
    /\ doc.status = "INDEXED" => doc.active # None
    /\ doc.active = None /\ doc.status \in {"REVIEW_REQUIRED", "INDEX_READY"} =>
          \A v \in Versions : points[v] = "none"
    /\ \A i \in Indexers : MarkIndexer(i)
    /\ \A r \in Reconcilers : MarkReconciler(r)

LEMMA MarkInit == Init => MarkInv
<1> SUFFICES ASSUME Init PROVE MarkInv
    OBVIOUS
<1>1. SwitchInv
    BY SwitchInit
<1>2. /\ doc.active = None /\ doc.status \in {"REVIEW_REQUIRED", "INDEX_READY"}
      /\ \A v \in Versions : points[v] = "none"
      /\ \A i \in Indexers : indexers[i].step = "idle"
      /\ \A r \in Reconcilers : reconcilers[r].step = "idle"
    BY DEF Init, NewRow, IdleIndexer, IdleReconciler
<1> QED
    BY <1>1, <1>2 DEF MarkInv, StaleGenerationsAreMarked, Apart, MarkIndexer, MarkReconciler

\* While one request works, all the others are idle.
LEMMA OnlyOneWorks ==
    ASSUME MarkInv, NEW i \in Indexers, indexers[i].step # "idle",
           \A j \in Indexers \ {i} : indexers'[j] = indexers[j], UNCHANGED reconcilers
    PROVE  /\ Apart'
           /\ \A j \in Indexers \ {i} : MarkIndexer(j)'
           /\ \A r \in Reconcilers : MarkReconciler(r)'
<1>1. \A r \in Reconcilers : reconcilers'[r].step = "idle"
    BY DEF MarkInv, Apart
<1>2. \A j \in Indexers \ {i} : indexers'[j].step = "idle"
    BY DEF MarkInv, SwitchInv, OneWorks
<1> QED BY <1>1, <1>2 DEF Apart, MarkIndexer, MarkReconciler

LEMMA MarkRead ==
    ASSUME CleanupApart, MarkInv, SwitchInv', NEW i \in Indexers, IndexRead(i)
    PROVE  MarkInv'
<1>1. \A r \in Reconcilers : reconcilers[r].step = "idle"
    BY DEF IndexRead, Cleaning
<1>2. \A j \in Indexers : \/ indexers'[j] = indexers[j]
                          \/ indexers'[j].step = "gate" /\ indexers'[j].seen = doc
    BY DEF IndexRead, MarkInv, SwitchInv, TypeOK
<1>3. \A j \in Indexers : MarkIndexer(j)'
    BY <1>2 DEF MarkIndexer, MarkInv, NothingOlder, IndexRead
<1> QED
    BY <1>1, <1>3
       DEF MarkInv, StaleGenerationsAreMarked, Apart, MarkReconciler, IndexRead

LEMMA MarkGate ==
    ASSUME MarkInv, SwitchInv', NEW i \in Indexers, IndexGate(i)
    PROVE  MarkInv'
<1>1. /\ doc'.active = doc.active /\ doc'.status = "INDEXING"
      /\ doc'.cleanupPending = doc.cleanupPending /\ UNCHANGED <<points, reconcilers>>
    BY SwitchGate DEF MarkInv, SwitchInv, IndexGate
<1>2. /\ indexers[i].step = "gate" /\ indexers[i].seen.status \in Indexable
      /\ indexers'[i].step = "upsert" /\ indexers'[i].seen = doc'
      /\ \A j \in Indexers \ {i} : indexers'[j] = indexers[j]
    BY SessionSteps DEF MarkInv, SwitchInv, IndexGate, At
<1>3. doc.active = None => \A v \in Versions : points[v] = "none"
    BY <1>2 DEF MarkInv, MarkIndexer, Indexable
<1>4. MarkIndexer(i)'
    BY <1>1, <1>2, <1>3 DEF MarkIndexer
<1> QED BY <1>1, <1>2, <1>4, OnlyOneWorks DEF MarkInv, StaleGenerationsAreMarked

LEMMA MarkStores ==
    ASSUME MarkInv, SwitchInv', NEW i \in Indexers,
           IndexUpsert(i) \/ IndexUpsertFails(i) \/ IndexVerify(i) \/ IndexFails(i)
    PROVE  MarkInv'
<1> USE DEF MarkInv, SwitchInv
<1>1. UNCHANGED <<doc, reconcilers>>
    BY DEF IndexUpsert, IndexUpsertFails, IndexVerify, IndexFails
<1>2. /\ indexers[i].step \in {"gate", "upsert", "verify", "activate"}
      /\ doc.active < indexers[i].target
      /\ \A v \in Versions \ {indexers[i].target} : points'[v] = points[v]
      /\ points' = points \/ doc.status = "INDEXING"
    BY DEF IndexUpsert, IndexUpsertFails, IndexVerify, IndexFails, At, IndexerInv, TypeOK
<1>3. /\ \A j \in Indexers \ {i} : indexers'[j] = indexers[j]
      /\ indexers'[i].seen = indexers[i].seen
      /\ indexers'[i].target = indexers[i].target
      /\ \/ indexers[i].step = "upsert" /\ indexers'[i].step = "verify"
         \/ indexers[i].step = "verify" /\ indexers'[i].step = "activate"
         \/ indexers'[i].step = "recover"
    BY SessionSteps DEF IndexUpsert, IndexUpsertFails, IndexVerify, IndexFails, At
<1>4. MarkIndexer(i)'
    BY <1>1, <1>2, <1>3 DEF MarkIndexer
<1>5. StaleGenerationsAreMarked'
    BY <1>1, <1>2, SessionTypes DEF StaleGenerationsAreMarked
<1> QED BY <1>1, <1>2, <1>3, <1>4, <1>5, OnlyOneWorks

\* The activation sets the marker when there is something older.
LEMMA MarkActivate ==
    ASSUME MarkInv, SwitchInv', NEW i \in Indexers, IndexActivate(i)
    PROVE  MarkInv'
<1> USE DEF MarkInv, SwitchInv
<1>1. /\ indexers[i].step = "activate" /\ indexers[i].previous = doc.active
      /\ indexers[i].seen.cleanupPending = doc.cleanupPending
      /\ doc.active < indexers[i].target
      /\ doc.active = None => \A v \in Versions \ {indexers[i].target} : points[v] = "none"
    BY DEF IndexActivate, At, IndexerInv, MarkIndexer
<1>2. UNCHANGED <<points, reconcilers>> /\ doc'.active = indexers[i].target
    BY SwitchActivate DEF IndexActivate
<1>3. doc'.cleanupPending = IF HasOlder(i) = doc.cleanupPending THEN doc.cleanupPending
                                                                ELSE HasOlder(i)
    BY <1>1, CommitFields, ActivatedRow, SessionTypes DEF TypeOK, IndexActivate
<1>4. doc.active # None => HasOlder(i)
    BY <1>1, SessionTypes DEF HasOlder
<1>5. StaleGenerationsAreMarked'
    BY <1>1, <1>2, <1>3, <1>4, SessionTypes DEF StaleGenerationsAreMarked
<1>6. doc'.status = "INDEXED" /\ doc'.active # None
    BY <1>1, <1>2, CommitFields, ActivatedRow, SessionTypes
       DEF TypeOK, IndexActivate, IndexerInv, None
<1>7. /\ indexers'[i].step \in {"cleanup", "recover"}
      /\ \A j \in Indexers \ {i} : indexers'[j] = indexers[j]
    BY SessionSteps DEF IndexActivate
<1>8. MarkIndexer(i)'
    BY <1>7 DEF MarkIndexer
<1> QED BY <1>1, <1>2, <1>5, <1>6, <1>7, <1>8, OnlyOneWorks

LEMMA MarkDeletes ==
    ASSUME MarkInv, SwitchInv', NEW i \in Indexers,
           \/ IndexCleanup(i) \/ IndexCleanupFails(i)
           \/ IndexRecover(i) \/ IndexDeletesOrphans(i)
    PROVE  MarkInv'
<1> USE DEF MarkInv, SwitchInv
<1>1. UNCHANGED <<doc, reconcilers>>
    BY DEF IndexCleanup, IndexCleanupFails, IndexRecover, IndexDeletesOrphans
<1>2. \A v \in Versions : points'[v] \in {points[v], "none"}
    BY SessionTypes
       DEF TypeOK, IndexCleanup, IndexCleanupFails, IndexRecover, IndexDeletesOrphans,
           WithoutOlderThan, WithoutVersion
<1>3. /\ indexers[i].step # "idle"
      /\ \A j \in Indexers \ {i} : indexers'[j] = indexers[j]
    BY SessionSteps
       DEF IndexCleanup, IndexCleanupFails, IndexRecover, IndexDeletesOrphans, At
<1>4. MarkIndexer(i)'
  <2>1. CASE IndexCleanup(i)
    <3>1. NothingOlder'
        BY <2>1, SessionTypes
           DEF TypeOK, IndexCleanup, WithoutOlderThan, NothingOlder, IndexerInv, At
    <3>2. indexers'[i].step \in {"clear", "idle"}
        BY <2>1, SessionSteps DEF IndexCleanup
    <3> QED BY <3>1, <3>2 DEF MarkIndexer
  <2>2. CASE ~IndexCleanup(i)
    <3>1. indexers'[i].step \in {"idle", "keep", "orphans", "report"}
        BY <2>2, SessionSteps
           DEF IndexCleanupFails, IndexRecover, IndexDeletesOrphans, StepAfterRead
    <3> QED BY <3>1 DEF MarkIndexer
  <2> QED BY <2>1, <2>2
<1>5. StaleGenerationsAreMarked'
    BY <1>1, <1>2 DEF StaleGenerationsAreMarked
<1> QED BY <1>1, <1>2, <1>3, <1>4, <1>5, OnlyOneWorks

LEMMA MarkEnds ==
    ASSUME MarkInv, SwitchInv', NEW i \in Indexers, IndexClear(i) \/ IndexKeeps(i) \/ IndexReports(i)
    PROVE  MarkInv'
<1> USE DEF MarkInv, SwitchInv
<1>1. /\ UNCHANGED <<points, reconcilers>> /\ doc'.active = doc.active
      /\ \/ doc'.status = doc.status
         \/ doc'.status = "INDEXED" /\ doc.active # None
         \/ doc'.status = "INDEX_FAILED"
      /\ indexers[i].step # "clear" => doc'.cleanupPending = doc.cleanupPending
    BY SwitchEnds DEF IndexClear, IndexKeeps, IndexReports
<1>2. /\ indexers[i].step # "idle" /\ indexers'[i].step = "idle"
      /\ \A j \in Indexers \ {i} : indexers'[j] = indexers[j]
    BY SessionSteps DEF IndexClear, IndexKeeps, IndexReports, At
<1>3. StaleGenerationsAreMarked'
    BY <1>1 DEF StaleGenerationsAreMarked, MarkIndexer, NothingOlder
<1>4. MarkIndexer(i)'
    BY <1>2 DEF MarkIndexer
<1> QED BY <1>1, <1>2, <1>3, <1>4, OnlyOneWorks

\* A cleanup clears the marker after it has deleted what is older, and what is
\* served has not changed since.
LEMMA MarkReconciles ==
    ASSUME CleanupApart, MarkInv, SwitchInv', NEW r \in Reconcilers,
           ReconcilerStep(r) \/ ReconcileList(r)
    PROVE  MarkInv'
<1> USE DEF MarkInv, SwitchInv
<1>1. UNCHANGED indexers /\ doc'.active = doc.active /\ doc'.status = doc.status
    BY SwitchReconciles
       DEF ReconcilerStep, ReconcileList, ReconcileRead, ReconcileDelete, ReconcileFails,
           ReconcileClear
<1>2. \A i \in Indexers : indexers[i].step = "idle"
    BY DEF ReconcilerStep, ReconcileList, ReconcileRead, ReconcileDelete, ReconcileFails,
           ReconcileClear, Apart, Indexing
<1>3. \A v \in Versions : points'[v] \in {points[v], "none"}
    BY DEF TypeOK, ReconcilerStep, ReconcileList, ReconcileRead, ReconcileDelete,
           ReconcileFails, ReconcileClear, WithoutOlderThan
<1>4. NothingOlder => NothingOlder'
    BY <1>1, <1>3 DEF NothingOlder
<1>5. \A q \in Reconcilers \ {r} : reconcilers'[q] = reconcilers[q]
    BY DEF TypeOK, ReconcilerStep, ReconcileList, ReconcileRead, ReconcileDelete, ReconcileFails,
           ReconcileClear, ReconcilerGoes
<1>6. MarkReconciler(r)'
  <2>1. CASE ReconcileDelete(r)
    <3>1. NothingOlder'
        BY <1>1, <2>1, SessionTypes
           DEF TypeOK, ReconcileDelete, WithoutOlderThan, NothingOlder, MarkReconciler
    <3> QED
        BY <1>1, <2>1, <3>1 DEF TypeOK, MarkReconciler, ReconcileDelete, ReconcilerGoes
  <2>2. CASE ~ReconcileDelete(r)
    <3>1. \/ reconcilers'[r].step \in {"idle", "read"}
          \/ reconcilers'[r].step = "delete" /\ reconcilers'[r].seen = doc
        BY <2>2
           DEF TypeOK, ReconcilerStep, ReconcileList, ReconcileRead, ReconcileFails,
               ReconcileClear, ReconcilerGoes
    <3> QED BY <1>1, <3>1 DEF MarkReconciler
  <2> QED BY <2>1, <2>2
<1>7. \A q \in Reconcilers : MarkReconciler(q)'
    BY <1>1, <1>4, <1>5, <1>6 DEF MarkReconciler
<1>8. StaleGenerationsAreMarked'
  <2>1. CASE ReconcileClear(r)
      BY <1>1, <1>3, <2>1 DEF ReconcileClear, MarkReconciler, NothingOlder, StaleGenerationsAreMarked
  <2>2. CASE ~ReconcileClear(r)
    <3>1. doc' = doc
        BY <2>2 DEF ReconcilerStep, ReconcileList, ReconcileRead, ReconcileDelete, ReconcileFails
    <3> QED BY <1>3, <3>1 DEF StaleGenerationsAreMarked
  <2> QED BY <2>1, <2>2
<1>9. \A i \in Indexers : MarkIndexer(i)'
    BY <1>1, <1>2 DEF MarkIndexer
<1>10. Apart'
    BY <1>1, <1>2 DEF Apart
<1> QED BY <1>1, <1>3, <1>7, <1>8, <1>9, <1>10

LEMMA MarkOther ==
    ASSUME MarkInv, SwitchInv',
           \/ \E i \in Indexers : IndexerDies(i)
           \/ \E r \in Reconcilers : ReconcilerDies(r)
           \/ Approve \/ Revise
           \/ UNCHANGED vars
    PROVE  MarkInv'
<1> USE DEF MarkInv, SwitchInv
<1>1. CASE \E i \in Indexers : IndexerDies(i)
  <2>1. PICK i \in Indexers : IndexerDies(i)
      BY <1>1
  <2>2. /\ indexers[i].step # "idle" /\ indexers'[i].step = "idle"
        /\ \A j \in Indexers \ {i} : indexers'[j] = indexers[j]
        /\ UNCHANGED <<doc, points, reconcilers>>
      BY <2>1, SessionSteps DEF IndexerDies, At
  <2>3. MarkIndexer(i)'
      BY <2>2 DEF MarkIndexer
  <2> QED BY <2>2, <2>3, OnlyOneWorks DEF StaleGenerationsAreMarked
<1>2. CASE \E r \in Reconcilers : ReconcilerDies(r)
  <2>1. PICK r \in Reconcilers : ReconcilerDies(r)
      BY <1>2
  <2>2. /\ reconcilers'[r].step = "idle"
        /\ \A q \in Reconcilers \ {r} : reconcilers'[q] = reconcilers[q]
        /\ UNCHANGED <<doc, chunkRows, points, indexers>>
      BY <2>1 DEF TypeOK, ReconcilerDies, ReconcilerGoes
  <2> QED
      BY <2>2 DEF StaleGenerationsAreMarked, Apart, MarkIndexer, MarkReconciler, NothingOlder
<1>3. CASE Approve \/ Revise
  <2>1. /\ UNCHANGED <<points, indexers, reconcilers>>
        /\ doc'.active = doc.active /\ doc'.cleanupPending = doc.cleanupPending
        /\ doc'.status = "INDEX_READY"
        /\ doc.status = "REVIEW_REQUIRED" \/ (doc.status = "INDEXED" /\ doc.active # None)
      BY <1>3 DEF TypeOK, Rows, Approve, Revise
  <2>2. \A i \in Indexers : MarkIndexer(i)'
      BY <2>1 DEF MarkIndexer, NothingOlder
  <2>3. \A r \in Reconcilers : MarkReconciler(r)'
      BY <2>1 DEF MarkReconciler, NothingOlder
  <2>4. Apart' /\ StaleGenerationsAreMarked'
      BY <2>1 DEF Apart, StaleGenerationsAreMarked
  <2> QED BY <2>1, <2>2, <2>3, <2>4
<1>4. CASE UNCHANGED vars
    BY <1>4
       DEF vars, StaleGenerationsAreMarked, Apart, MarkIndexer, MarkReconciler, NothingOlder
<1> QED BY <1>1, <1>2, <1>3, <1>4

LEMMA MarkStep == OneIndexer /\ CleanupApart /\ MarkInv /\ [Next]_vars => MarkInv'
<1> SUFFICES ASSUME OneIndexer, CleanupApart, MarkInv, [Next]_vars PROVE MarkInv'
    OBVIOUS
<1>1. SwitchInv'
    BY SwitchStep DEF MarkInv
<1> QED
    BY <1>1, MarkRead, MarkGate, MarkStores, MarkActivate, MarkDeletes, MarkEnds,
       MarkReconciles, MarkOther
       DEF Next, IndexerStep

\* Points of versions older than the one served are never forgotten, whatever
\* fails or dies (the activation commit and reconcile_pending_cleanups).
THEOREM StaleStaysMarked ==
    ASSUME OneIndexer, CleanupApart PROVE Spec => []StaleGenerationsAreMarked
<1>1. MarkInv => StaleGenerationsAreMarked
    BY DEF MarkInv
<1>2. Init => MarkInv
    BY MarkInit
<1>3. MarkInv /\ [Next]_vars => MarkInv'
    BY MarkStep
<1> QED BY <1>1, <1>2, <1>3, PTL DEF Spec

-----------------------------------------------------------------------------
(***************************************************************************)
(* What IndexGenerations promises, and so what indexing keeps.             *)
(***************************************************************************)

PromiseInv ==
    doc.active = 0 \/ (doc.active \in Versions /\ points[doc.active] = "all")

LEMMA PromiseInit == Generations!Init => PromiseInv
BY DEF Generations!Init, PromiseInv

LEMMA PromiseStep ==
    ASSUME PromiseInv, [Generations!Next]_(Generations!vars)
    PROVE  PromiseInv' /\ (doc'.active # doc.active => doc'.active > doc.active)
<1> DEFINE complete == {v \in Versions : points[v] = "all"}
<1>1. doc'.active = 0 \/ doc'.active \in complete' => PromiseInv'
    BY DEF PromiseInv
<1>2. doc.active = 0 \/ doc.active \in complete
    BY DEF PromiseInv
<1>3. 0 \notin Versions
    BY DEF Versions
<1>4. CASE UNCHANGED Generations!vars
  <2>1. complete' = complete /\ doc'.active = doc.active
      BY <1>4 DEF Generations!vars
  <2> HIDE DEF complete
  <2> QED BY <1>1, <1>2, <2>1
<1>5. ASSUME NEW g \in Versions, Generations!Build(g)
      PROVE  doc'.active = doc.active /\ PromiseInv'
  <2>1. complete' = complete \union {g} /\ doc'.active = doc.active
      BY <1>5 DEF Generations!Build
  <2> HIDE DEF complete
  <2> QED BY <1>1, <1>2, <2>1
<1>6. ASSUME NEW gone \in SUBSET Versions, Generations!Drop(gone)
      PROVE  doc'.active = doc.active /\ PromiseInv'
  <2>1. complete' = complete \ gone /\ doc'.active = doc.active /\ doc.active \notin gone
      BY <1>6 DEF Generations!Drop
  <2> HIDE DEF complete
  <2> QED BY <1>1, <1>2, <2>1
<1>7. ASSUME NEW g \in Versions, Generations!Switch(g)
      PROVE  doc'.active > doc.active /\ PromiseInv'
  <2>1. g \in complete /\ g > doc.active /\ doc'.active = g /\ complete' = complete
      BY <1>7 DEF Generations!Switch
  <2> HIDE DEF complete
  <2> QED BY <1>1, <2>1
<1> QED BY <1>4, <1>5, <1>6, <1>7 DEF Generations!Next, Generations!vars

(***************************************************************************)
(* The abstract specification says what it is for: what is served is       *)
(* complete, from when it takes over to when a later one does.             *)
(***************************************************************************)
THEOREM GenerationsKeepThePromise ==
    GenerationsSpec => [](doc.active = 0 \/ (doc.active \in Versions /\ points[doc.active] = "all"))
BY PromiseInit, PromiseStep, PTL DEF GenerationsSpec, Generations!Spec, PromiseInv

(***************************************************************************)
(* With one index request at a time the searches never go back to an       *)
(* earlier version, whatever fails, dies or is cleaned up (index_document, *)
(* reconcile_pending_cleanups).                                            *)
(***************************************************************************)
THEOREM ServedOnlyMovesOn ==
    ASSUME OneIndexer PROVE Spec => [][doc'.active > doc.active]_(doc.active)
<1>1. Init => PromiseInv
    BY GenerationsInit, PromiseInit
<1>2. OneIndexer /\ SwitchInv /\ PromiseInv /\ [Next]_vars =>
        PromiseInv' /\ [doc'.active > doc.active]_(doc.active)
    BY GenerationsStep, PromiseStep
<1> QED BY <1>1, <1>2, SwitchInvariant, PTL DEF Spec
=============================================================================
