-------------------------- MODULE DocumentIndexing --------------------------
(***************************************************************************)
(* Indexing of one document (services/retrieval/indexing_service.py): the  *)
(* requests that index it, the requests that finish a cleanup an indexing  *)
(* left behind, and the two stores they write, the database and the vector *)
(* store.  No transaction spans the two.  Documents do not affect one      *)
(* another here, so one is enough.                                         *)
(*                                                                         *)
(* A request holds the document's row as it read it and decides by that.   *)
(* When it commits, only the columns that differ from what it read are     *)
(* written (the unit of work of its session), so two requests may each     *)
(* have a part of their state in the row.                                  *)
(***************************************************************************)
EXTENDS Naturals

CONSTANTS
    Indexers,       \* the index requests that can be in flight (a bound)
    Reconcilers,    \* the cleanup requests that can be in flight (a bound)
    OneIndexer,     \* no two index requests are in flight together
    CleanupApart,   \* no cleanup request is in flight with an index request
    MaxVersion,     \* bound of the versions of the document
    MaxDeaths       \* bound of the requests that die on the way

ASSUME VersionAssumption == MaxVersion \in Nat \ {0} /\ MaxDeaths \in Nat
ASSUME OverlapAssumption == OneIndexer \in BOOLEAN /\ CleanupApart \in BOOLEAN

VARIABLES
    doc,            \* the documents row
    chunkRows,      \* the version of the document_chunks rows, 0 for no rows
    points,         \* for each version, how much of it is in the vector store
    indexers,
    reconcilers,
    deaths

vars == <<doc, chunkRows, points, indexers, reconcilers, deaths>>

Versions == 1..MaxVersion
None == 0       \* active_index_version IS NULL

\* The states of a document indexing meets; REVIEW_REQUIRED stands for all
\* those the privacy gate does not accept.
Statuses == {"REVIEW_REQUIRED", "INDEX_READY", "INDEXING", "INDEXED", "INDEX_FAILED"}
Rows == [status : Statuses, version : Versions, active : Versions \union {None},
         cleanupPending : BOOLEAN]

NewRow(status) ==
    [status |-> status, version |-> 1, active |-> None, cleanupPending |-> FALSE]

\* seen: the row as the session holds it; target and previous: the local
\* variables target_version and previous_active_version.
IdleIndexer ==
    [step |-> "idle", seen |-> NewRow("REVIEW_REQUIRED"), target |-> 1, previous |-> None]
IdleReconciler == [step |-> "idle", seen |-> NewRow("REVIEW_REQUIRED")]

Init ==
    /\ \E status \in {"REVIEW_REQUIRED", "INDEX_READY"} : doc = NewRow(status)
    /\ chunkRows = None
    /\ points = [v \in Versions |-> "none"]
    /\ indexers = [i \in Indexers |-> IdleIndexer]
    /\ reconcilers = [r \in Reconcilers |-> IdleReconciler]
    /\ deaths = 0

Indexing == \E i \in Indexers : indexers[i].step # "idle"
Cleaning == \E r \in Reconcilers : reconcilers[r].step # "idle"

\* The commit of a session that read seen and wants the row to be new.
Commit(seen, new) ==
    [doc EXCEPT !.status = IF new.status = seen.status THEN @ ELSE new.status,
                !.version = IF new.version = seen.version THEN @ ELSE new.version,
                !.active = IF new.active = seen.active THEN @ ELSE new.active,
                !.cleanupPending = IF new.cleanupPending = seen.cleanupPending
                                   THEN @ ELSE new.cleanupPending]

\* Fault: the version given goes too.
WithoutUpTo(v) == [w \in Versions |-> IF w <= v THEN "none" ELSE points[w]]

\* delete_stale_chunks and delete_version_chunks.
WithoutOlderThan(v) == [w \in Versions |-> IF w < v THEN "none" ELSE points[w]]
WithoutVersion(v) == [points EXCEPT ![v] = "none"]
-----------------------------------------------------------------------------
(* index_document *)

At(i, step) == indexers[i].step = step
Goto(i, step) == indexers' = [indexers EXCEPT ![i].step = step]
GotoWith(i, step, seen) ==
    indexers' = [indexers EXCEPT ![i] =
        [step |-> step, seen |-> seen, target |-> @.target, previous |-> @.previous]]
\* A session forgets the row it read once its request is over.
Finish(i) == indexers' = [indexers EXCEPT ![i] = IdleIndexer]

\* The document is served as it is: index_document checks that and returns,
\* or fails, and changes nothing either way.
NothingToDo ==
    doc.active # None /\ doc.version = doc.active /\ doc.status = "INDEXED"

IndexRead(i) ==
    /\ At(i, "idle")
    /\ OneIndexer => ~Indexing
    /\ CleanupApart => ~Cleaning
    /\ ~NothingToDo
    /\ indexers' = [indexers EXCEPT ![i] =
         [step |-> "gate", seen |-> doc, target |-> doc.version, previous |-> doc.active]]
    /\ UNCHANGED <<doc, chunkRows, points, reconcilers, deaths>>

\* The states the privacy gate accepts and from which a document may become
\* INDEXING: the gate accepts INDEXING too, which validate_transition refuses.
Indexable == {"INDEX_READY", "INDEXED"}

\* The privacy gate lets the document pass; commit and refresh.
IndexGate(i) ==
    LET seen == indexers[i].seen IN
    /\ At(i, "gate")
    /\ seen.status \in Indexable
    /\ doc' = Commit(seen, [seen EXCEPT !.status = "INDEXING"])
    /\ GotoWith(i, "upsert", doc')
    /\ UNCHANGED <<chunkRows, points, reconcilers, deaths>>

IndexUpsert(i) ==
    /\ At(i, "upsert")
    /\ points' = [points EXCEPT ![indexers[i].target] = "all"]
    /\ Goto(i, "verify")
    /\ UNCHANGED <<doc, chunkRows, reconcilers, deaths>>

\* The call reports an error; a part of the points may be stored all the same.
IndexUpsertFails(i) ==
    /\ At(i, "upsert")
    /\ \E stored \in {"some", "all"} :
         points' = [points EXCEPT ![indexers[i].target] = IF @ = "all" THEN @ ELSE stored]
    /\ Goto(i, "recover")
    /\ UNCHANGED <<doc, chunkRows, reconcilers, deaths>>

IndexVerify(i) ==
    /\ At(i, "verify")
    /\ points[indexers[i].target] = "all"
    /\ Goto(i, "activate")
    /\ UNCHANGED <<doc, chunkRows, points, reconcilers, deaths>>

\* The gate, the chunking, the embedding, a call to the vector store or the
\* activation commit raises before anything has changed.
IndexFails(i) ==
    /\ indexers[i].step \in {"gate", "upsert", "verify", "activate"}
    /\ Goto(i, "recover")
    /\ UNCHANGED <<doc, chunkRows, points, reconcilers, deaths>>

HasOlder(i) == indexers[i].previous \notin {None, indexers[i].target}

\* Fault: the marker that asks for a cleanup is not set.
ActivatedUnmarked(i) ==
    [indexers[i].seen EXCEPT !.status = "INDEXED", !.active = indexers[i].target]

\* The row the activation commits.
Activated(i) ==
    [indexers[i].seen EXCEPT !.status = "INDEXED", !.active = indexers[i].target,
                             !.cleanupPending = HasOlder(i)]

\* The activation commit.  When the refresh after it raises, the request goes
\* on as if it had not committed.
IndexActivate(i) ==
    /\ At(i, "activate")
    /\ doc' = Commit(indexers[i].seen, Activated(i))
    /\ chunkRows' = indexers[i].target
    /\ GotoWith(i, "cleanup", doc') \/ GotoWith(i, "recover", doc')
    /\ UNCHANGED <<points, reconcilers, deaths>>

IndexCleanup(i) ==
    LET active == indexers[i].seen.active IN
    /\ At(i, "cleanup")
    /\ active # None
    /\ points' = WithoutOlderThan(active)
    /\ IF HasOlder(i) /\ indexers[i].seen.cleanupPending THEN Goto(i, "clear") ELSE Finish(i)
    /\ UNCHANGED <<doc, chunkRows, reconcilers, deaths>>

\* The deletion of the older points reports an error, done or not: the request
\* has succeeded all the same.
IndexCleanupFails(i) ==
    /\ At(i, "cleanup")
    /\ points' \in {points, WithoutOlderThan(indexers[i].seen.active)}
    /\ Finish(i)
    /\ UNCHANGED <<doc, chunkRows, reconcilers, deaths>>

\* The marker is cleared; the commit may fail.
IndexClear(i) ==
    LET seen == indexers[i].seen IN
    /\ At(i, "clear")
    /\ doc' \in {doc, Commit(seen, [seen EXCEPT !.cleanupPending = FALSE])}
    /\ Finish(i)
    /\ UNCHANGED <<chunkRows, points, reconcilers, deaths>>
-----------------------------------------------------------------------------
(* The except block of index_document. *)

\* Fault: the points of the version the request was after are taken for orphans
\* whatever the database says.
StepAfterReadUnguarded(i, seen) == "orphans"

\* "If activation already committed, NEVER delete or revert the newly active
\* generation!"
StepAfterRead(i, seen) ==
    CASE indexers[i].target = seen.active -> "keep"
      [] seen.active = None \/ indexers[i].target > seen.active -> "orphans"
      [] OTHER -> "report"

\* Rollback, and the row is read again.
IndexRecover(i) ==
    /\ At(i, "recover")
    /\ GotoWith(i, StepAfterRead(i, doc), doc)
    /\ UNCHANGED <<doc, chunkRows, points, reconcilers, deaths>>

IndexKeeps(i) ==
    LET seen == indexers[i].seen IN
    /\ At(i, "keep")
    /\ doc' = Commit(seen, [seen EXCEPT !.status = "INDEXED"])
    /\ Finish(i)
    /\ UNCHANGED <<chunkRows, points, reconcilers, deaths>>

\* Best effort: what this leaves behind stays.
IndexDeletesOrphans(i) ==
    /\ At(i, "orphans")
    /\ points' \in {points, WithoutVersion(indexers[i].target)}
    /\ Goto(i, "report")
    /\ UNCHANGED <<doc, chunkRows, reconcilers, deaths>>

\* Faults: every failed indexing is reported as one of a first index; a failed
\* first index is reported as a failed extraction.
FailedStatusOfFirst(active) == "INDEX_FAILED"
FailedStatusOfExtraction(active) == IF active = None THEN "EXTRACTION_FAILED" ELSE "INDEXED"

\* "Failed reindex preserves previous active generation as searchable".
FailedStatus(active) == IF active = None THEN "INDEX_FAILED" ELSE "INDEXED"

\* Fault: only the audit log is told.
IndexReportsToAudit(i) ==
    /\ At(i, "report")
    /\ Finish(i)
    /\ UNCHANGED <<doc, chunkRows, points, reconcilers, deaths>>

IndexReports(i) ==
    LET seen == indexers[i].seen IN
    /\ At(i, "report")
    /\ doc' = Commit(seen, [seen EXCEPT !.status = FailedStatus(seen.active)])
    /\ Finish(i)
    /\ UNCHANGED <<chunkRows, points, reconcilers, deaths>>
-----------------------------------------------------------------------------
(* reconcile_pending_cleanups, for this document. *)

ReconcilerGoes(r, step, seen) ==
    reconcilers' = [reconcilers EXCEPT ![r] = [step |-> step, seen |-> seen]]

\* The document is on the list of those to clean up.
ReconcileList(r) ==
    /\ reconcilers[r].step = "idle"
    /\ CleanupApart => ~Indexing
    /\ doc.cleanupPending
    /\ ReconcilerGoes(r, "read", IdleReconciler.seen)
    /\ UNCHANGED <<doc, chunkRows, points, indexers, deaths>>

\* Its turn has come; without an active version nothing more is done.
ReconcileRead(r) ==
    /\ reconcilers[r].step = "read"
    /\ IF doc.active = None THEN ReconcilerGoes(r, "idle", IdleReconciler.seen)
                            ELSE ReconcilerGoes(r, "delete", doc)
    /\ UNCHANGED <<doc, chunkRows, points, indexers, deaths>>

ReconcileDelete(r) ==
    /\ reconcilers[r].step = "delete"
    /\ points' = WithoutOlderThan(reconcilers[r].seen.active)
    /\ ReconcilerGoes(r, "clear", reconcilers[r].seen)
    /\ UNCHANGED <<doc, chunkRows, indexers, deaths>>

\* The deletion, or the commit after it, fails: the marker stays.
ReconcileFails(r) ==
    /\ reconcilers[r].step \in {"delete", "clear"}
    /\ points' \in {points, WithoutOlderThan(reconcilers[r].seen.active)}
    /\ ReconcilerGoes(r, "idle", IdleReconciler.seen)
    /\ UNCHANGED <<doc, chunkRows, indexers, deaths>>

ReconcileClear(r) ==
    LET seen == reconcilers[r].seen IN
    /\ reconcilers[r].step = "clear"
    /\ doc' = Commit(seen, [seen EXCEPT !.cleanupPending = FALSE])
    /\ ReconcilerGoes(r, "idle", IdleReconciler.seen)
    /\ UNCHANGED <<chunkRows, points, indexers, deaths>>
-----------------------------------------------------------------------------
(* What else happens to the document and to the requests. *)

\* approve_redactions: the review makes the document ready at a new version.
Approve ==
    /\ doc.status = "REVIEW_REQUIRED"
    /\ doc.version < MaxVersion
    /\ doc' = [doc EXCEPT !.status = "INDEX_READY", !.version = @ + 1]
    /\ UNCHANGED <<chunkRows, points, indexers, reconcilers, deaths>>

\* A document that has been indexed gets a new version.
Revise ==
    /\ doc.status = "INDEXED"
    /\ doc.version < MaxVersion
    /\ doc' = [doc EXCEPT !.status = "INDEX_READY", !.version = @ + 1]
    /\ UNCHANGED <<chunkRows, points, indexers, reconcilers, deaths>>

\* A request ends without running its except block: the process stops, or the
\* database fails once more in there.
IndexerDies(i) ==
    /\ ~At(i, "idle")
    /\ deaths < MaxDeaths
    /\ deaths' = deaths + 1
    /\ Finish(i)
    /\ UNCHANGED <<doc, chunkRows, points, reconcilers>>

ReconcilerDies(r) ==
    /\ reconcilers[r].step # "idle"
    /\ deaths < MaxDeaths
    /\ deaths' = deaths + 1
    /\ ReconcilerGoes(r, "idle", IdleReconciler.seen)
    /\ UNCHANGED <<doc, chunkRows, points, indexers>>

IndexerStep(i) ==
    \/ IndexGate(i) \/ IndexUpsert(i) \/ IndexUpsertFails(i) \/ IndexVerify(i)
    \/ IndexFails(i) \/ IndexActivate(i) \/ IndexCleanup(i) \/ IndexCleanupFails(i)
    \/ IndexClear(i) \/ IndexRecover(i) \/ IndexKeeps(i) \/ IndexDeletesOrphans(i)
    \/ IndexReports(i)

ReconcilerStep(r) ==
    ReconcileRead(r) \/ ReconcileDelete(r) \/ ReconcileFails(r) \/ ReconcileClear(r)

Next ==
    \/ \E i \in Indexers : IndexRead(i) \/ IndexerStep(i) \/ IndexerDies(i)
    \/ \E r \in Reconcilers : ReconcileList(r) \/ ReconcilerStep(r) \/ ReconcilerDies(r)
    \/ Approve
    \/ Revise

Spec == Init /\ [][Next]_vars

\* A request goes on until it is over, and somebody asks again to index a
\* document that is not served as it is.
RetriedSpec ==
    /\ Spec
    /\ \A i \in Indexers : WF_vars(IndexerStep(i))
    /\ \A r \in Reconcilers : WF_vars(ReconcilerStep(r))
    /\ WF_vars(\E i \in Indexers : IndexRead(i))
-----------------------------------------------------------------------------
(* Properties *)

IndexSteps == {"idle", "gate", "upsert", "verify", "activate", "cleanup", "clear",
               "recover", "keep", "orphans", "report"}
IndexSessions == [step : IndexSteps, seen : Rows,
                  target : Versions, previous : Versions \union {None}]
CleanupSessions == [step : {"idle", "read", "delete", "clear"}, seen : Rows]

\* Columns and local variables hold what they can hold.
TypeOK ==
    /\ doc \in Rows
    /\ chunkRows \in Versions \union {None}
    /\ points \in [Versions -> {"none", "some", "all"}]
    /\ indexers \in [Indexers -> IndexSessions]
    /\ reconcilers \in [Reconcilers -> CleanupSessions]
    /\ deaths \in 0..MaxDeaths

\* The version a document is served at is complete in the vector store, and is
\* the one its chunk rows are of, whatever failed or died on the way there.
ActiveIsComplete ==
    doc.active # None => points[doc.active] = "all" /\ chunkRows = doc.active

\* A document that can be searched is never reported as one whose first index
\* failed, the state no request leads out of.
SearchableIsNotFailed == doc.status = "INDEX_FAILED" => doc.active = None

\* While the vector store has points of versions older than the one served,
\* the row says so, also when the request that should delete them is gone.
StaleGenerationsAreMarked ==
    \A v \in Versions : v < doc.active /\ points[v] # "none" => doc.cleanupPending

\* A cleanup that fails leaves the marker: points of older versions that no
\* request is about to delete are marked.
FailuresPreserveTheMarker == ~Indexing /\ ~Cleaning => StaleGenerationsAreMarked

\* The document is not left INDEXING: the next request to index it ends what
\* one that died has begun.
IndexingEnds == doc.status = "INDEXING" ~> doc.status # "INDEXING"

\* The switch from version to version the searches are promised.
Generations == INSTANCE IndexGenerations WITH
    Generations <- Versions,
    complete <- {v \in Versions : points[v] = "all"},
    served <- doc.active
GenerationsSpec == Generations!Spec
=============================================================================
