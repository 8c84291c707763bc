------------------------- MODULE DocumentLifecycle -------------------------
(***************************************************************************)
(* One document from its upload to the searches (services/redaction.py):   *)
(* its text is extracted and scanned for personal data, reviewers decide   *)
(* about each finding, an approval masks what was accepted, and the masked *)
(* text is indexed.  The four kinds of request share rows no lock          *)
(* protects: each reads, works, and commits later what it changed of what  *)
(* it had read.                                                            *)
(*                                                                         *)
(* The indexing is told here by what it reads and leaves of those rows;    *)
(* DocumentIndexing has its steps, and the vector store.  The rows of an   *)
(* extraction are known by its number; its pages hold the same text in     *)
(* every extraction, so a text is told by the findings masked in it.       *)
(***************************************************************************)
EXTENDS Naturals

CONSTANTS
    Requests,           \* the requests that can be in flight (a bound)
    Findings,           \* the personal data in the text
    HighConfidence,     \* the findings at or above the threshold of accept-all
    Detectable,         \* those the detector finds in the masked text as well
    ExtractionApart,    \* no extraction is in flight with another extraction,
                        \* an approval or an indexing
    MaxExtractions,     \* bounds: extractions begun,
    MaxDecisions,       \*         the version of a finding,
    MaxDeaths           \*         requests that die on the way

ASSUME FindingsAssumption == HighConfidence \subseteq Findings /\ Detectable \subseteq Findings
ASSUME BoundsAssumption == /\ ExtractionApart \in BOOLEAN
                           /\ {MaxExtractions, MaxDecisions, MaxDeaths} \subseteq Nat

VARIABLES
    doc,            \* the documents row
    pages,          \* the document_pages rows of each extraction
    findings,       \* the redaction_findings rows of each extraction
    served,         \* the texts of the active chunks
    requests,
    extractions,    \* how many extractions have begun
    deaths

vars == <<doc, pages, findings, served, requests, extractions, deaths>>

Ids == 1..MaxExtractions
None == 0       \* active_index_version IS NULL

\* DocumentState; REDACTION_APPROVED is passed through within one transaction.
Statuses == {"ENCRYPTED", "EXTRACTION_QUEUED", "EXTRACTING", "EXTRACTION_FAILED",
             "REVIEW_REQUIRED", "INDEX_READY", "INDEXING", "INDEXED", "INDEX_FAILED"}
Document == [status : Statuses, version : Nat, active : Nat]
Pages == [state : {"none", "raw", "masked"}, hidden : SUBSET Findings]
Finding == [status : {"NONE", "PENDING", "ACCEPTED", "REJECTED"}, version : Nat]

\* A finding's row as a reviewer's request read it, and the decision.
Edits == [id : Ids, finding : Findings, seen : Finding, decision : {"ACCEPTED", "REJECTED"}]

NoPages == [state |-> "none", hidden |-> {}]
NoFinding == [status |-> "NONE", version |-> 0]
Uploaded == [status |-> "ENCRYPTED", version |-> 1, active |-> None]

\* seen: the document as the session holds it; read: the extractions whose
\* pages it read; hidden and text: what those told; target: target_version.
Idle == [step |-> "idle", seen |-> Uploaded, id |-> 0, read |-> {}, edits |-> {},
         hidden |-> {}, text |-> {}, target |-> 0]

\* accept_document: the row is there when the encrypted file is.
Init ==
    /\ doc = Uploaded
    /\ pages = [e \in Ids |-> NoPages]
    /\ findings = [e \in Ids |-> [f \in Findings |-> NoFinding]]
    /\ served = {}
    /\ requests = [s \in Requests |-> Idle]
    /\ extractions = 0
    /\ deaths = 0

\* The commit of a session that read seen and wants the row to be new: the
\* columns that differ are written.
Commit(seen, new) ==
    [doc EXCEPT !.status = IF new.status = seen.status THEN @ ELSE new.status,
                !.version = IF new.version = seen.version THEN @ ELSE new.version,
                !.active = IF new.active = seen.active THEN @ ELSE new.active]

At(s, step) == requests[s].step = step
Goto(s, session) == requests' = [requests EXCEPT ![s] = session]
Finish(s) == Goto(s, Idle)

ExtractSteps == {"queue", "start", "extract", "store", "fail"}
InFlight(steps) == \E s \in Requests : requests[s].step \in steps
OthersInFlight == InFlight({"mask", "approve", "gate", "index", "report"})

Stored == {e \in Ids : pages[e].state # "none"}
Undecided == \E e \in Ids, f \in Findings : findings[e][f].status = "PENDING"
-----------------------------------------------------------------------------
(* start_document_extraction *)

ExtractRead(s) ==
    /\ At(s, "idle")
    /\ ExtractionApart => ~InFlight(ExtractSteps) /\ ~OthersInFlight
    /\ doc.status \in {"ENCRYPTED", "EXTRACTION_FAILED"}
    /\ extractions < MaxExtractions
    /\ extractions' = extractions + 1
    /\ Goto(s, [Idle EXCEPT !.step = "queue", !.seen = doc, !.id = extractions + 1])
    /\ UNCHANGED <<doc, pages, findings, served, deaths>>

\* The job is queued; commit and refresh.
ExtractQueue(s) ==
    LET seen == requests[s].seen IN
    /\ At(s, "queue")
    /\ doc' = Commit(seen, [seen EXCEPT !.status = "EXTRACTION_QUEUED"])
    /\ Goto(s, [requests[s] EXCEPT !.step = "start", !.seen = doc'])
    /\ UNCHANGED <<pages, findings, served, extractions, deaths>>

ExtractStart(s) ==
    LET seen == requests[s].seen IN
    /\ At(s, "start")
    /\ seen.status = "EXTRACTION_QUEUED"
    /\ doc' = Commit(seen, [seen EXCEPT !.status = "EXTRACTING"])
    /\ Goto(s, [requests[s] EXCEPT !.step = "extract", !.seen.status = "EXTRACTING"])
    /\ UNCHANGED <<pages, findings, served, extractions, deaths>>

\* The text is extracted; the rows of earlier extractions are to be deleted.
ExtractText(s) ==
    /\ At(s, "extract")
    /\ Goto(s, [requests[s] EXCEPT !.step = "store", !.read = Stored])
    /\ UNCHANGED <<doc, pages, findings, served, extractions, deaths>>

\* New pages and findings.  When a refresh after the commit raises, the request
\* goes on as if it had not committed.
ExtractDone(s) ==
    LET seen == requests[s].seen
        me == requests[s].id
        old == requests[s].read
    IN  /\ At(s, "store")
        /\ doc' = Commit(seen, [seen EXCEPT !.status = "REVIEW_REQUIRED", !.version = @ + 1])
        /\ findings' = [e \in Ids |-> [f \in Findings |->
               IF e = me THEN [status |-> "PENDING", version |-> 1]
               ELSE IF e \in old THEN NoFinding ELSE findings[e][f]]]
        /\ pages' = [e \in Ids |-> IF e = me THEN [state |-> "raw", hidden |-> {}]
                                   ELSE IF e \in old THEN NoPages ELSE pages[e]]
        /\ Finish(s) \/ Goto(s, [requests[s] EXCEPT !.step = "fail"])
        /\ UNCHANGED <<served, extractions, deaths>>

\* Decryption, extraction or the storing raises, or the status does not allow
\* what comes next: rollback, and the row is read again.
ExtractFails(s) ==
    /\ requests[s].step \in {"start", "extract", "store"}
    /\ Goto(s, [requests[s] EXCEPT !.step = "fail"])
    /\ UNCHANGED <<doc, pages, findings, served, extractions, deaths>>

\* Fault: the failure is told to the caller and the audit log only.
ExtractReportsToAudit(s) ==
    /\ At(s, "fail")
    /\ Finish(s)
    /\ UNCHANGED <<doc, pages, findings, served, extractions, deaths>>

ExtractReports(s) ==
    /\ At(s, "fail")
    /\ doc' = [doc EXCEPT !.status = "EXTRACTION_FAILED", !.version = @ + 1]
    /\ Finish(s)
    /\ UNCHANGED <<pages, findings, served, extractions, deaths>>
-----------------------------------------------------------------------------
(* update_finding_decision and accept_all_high_confidence: neither asks for  *)
(* the status of the document.                                               *)

EditOf(e, f, decision) ==
    [id |-> e, finding |-> f, seen |-> findings[e][f], decision |-> decision]

\* The reviewer names the version they have seen, which is compared here.
DecideRead(s) ==
    /\ At(s, "idle")
    /\ \E e \in Ids, f \in Findings, decision \in {"ACCEPTED", "REJECTED"} :
         /\ findings[e][f].status # "NONE"
         /\ findings[e][f].version < MaxDecisions
         /\ Goto(s, [Idle EXCEPT !.step = "decide", !.edits = {EditOf(e, f, decision)}])
    /\ UNCHANGED <<doc, pages, findings, served, extractions, deaths>>

AcceptAllRead(s) ==
    LET pending == {p \in Ids \X HighConfidence : findings[p[1]][p[2]].status = "PENDING"}
    IN  /\ At(s, "idle")
        /\ pending # {}
        /\ Goto(s, [Idle EXCEPT !.step = "decide",
                                !.edits = {EditOf(p[1], p[2], "ACCEPTED") : p \in pending}])
        /\ UNCHANGED <<doc, pages, findings, served, extractions, deaths>>

\* Again only the columns that differ from what was read are written.
Edited(edit) ==
    LET now == findings[edit.id][edit.finding]
    IN  [status |-> IF edit.decision = edit.seen.status THEN now.status ELSE edit.decision,
         version |-> edit.seen.version + 1]

\* All the rows are there still; else the commit raises (RequestFails).
DecideCommit(s) ==
    LET edits == requests[s].edits
        On(e, f) == {edit \in edits : edit.id = e /\ edit.finding = f}
    IN  /\ At(s, "decide")
        /\ \A edit \in edits : findings[edit.id][edit.finding].status # "NONE"
        /\ findings' = [e \in Ids |-> [f \in Findings |->
               IF On(e, f) = {} THEN findings[e][f] ELSE Edited(CHOOSE edit \in On(e, f) : TRUE)]]
        /\ Finish(s)
        /\ UNCHANGED <<doc, pages, served, extractions, deaths>>
-----------------------------------------------------------------------------
(* approve_redactions *)

\* Fault: findings nobody has decided about do not stop the approval.
ApprovableUndecided == doc.status = "REVIEW_REQUIRED"

Approvable == doc.status = "REVIEW_REQUIRED" /\ ~Undecided

ApproveRead(s) ==
    /\ At(s, "idle")
    /\ ExtractionApart => ~InFlight(ExtractSteps)
    /\ Approvable
    /\ Goto(s, [Idle EXCEPT !.step = "mask", !.seen = doc])
    /\ UNCHANGED <<doc, pages, findings, served, extractions, deaths>>

\* The pages are read, and the findings accepted by now, on whichever
\* extraction's rows.
ApproveMask(s) ==
    /\ At(s, "mask")
    /\ Goto(s, [requests[s] EXCEPT !.step = "approve", !.read = Stored,
                 !.hidden = {f \in Findings : \E e \in Ids : findings[e][f].status = "ACCEPTED"}])
    /\ UNCHANGED <<doc, pages, findings, served, extractions, deaths>>

\* Fault: the first of the two transitions of the approval is the last.
ApprovedStatusOfReview == "REDACTION_APPROVED"

ApprovedStatus == "INDEX_READY"

\* All the pages are there still; else the commit raises (RequestFails).
ApproveCommit(s) ==
    LET seen == requests[s].seen
        read == requests[s].read
    IN  /\ At(s, "approve")
        /\ read \subseteq Stored
        /\ doc' = Commit(seen, [seen EXCEPT !.status = ApprovedStatus, !.version = @ + 1])
        /\ pages' = [e \in Ids |-> IF e \in read
                                   THEN [state |-> "masked", hidden |-> requests[s].hidden]
                                   ELSE pages[e]]
        /\ Finish(s)
        /\ UNCHANGED <<findings, served, extractions, deaths>>
-----------------------------------------------------------------------------
(* index_document, as far as these rows can tell. *)

IndexRead(s) ==
    /\ At(s, "idle")
    /\ ExtractionApart => ~InFlight(ExtractSteps)
    /\ ~(doc.status = "INDEXED" /\ doc.active = doc.version)
    /\ Goto(s, [Idle EXCEPT !.step = "gate", !.seen = doc, !.target = doc.version])
    /\ UNCHANGED <<doc, pages, findings, served, extractions, deaths>>

\* The texts of the pages that have one, and their scan.
MaskedTexts == {pages[e].hidden : e \in {p \in Ids : pages[p].state = "masked"}}
IsClean(text) == Detectable \subseteq text

\* validate_document_for_indexing lets the document pass, and it becomes
\* INDEXING; commit and refresh.
IndexGate(s) ==
    LET seen == requests[s].seen IN
    /\ At(s, "gate")
    /\ seen.status \in {"INDEX_READY", "INDEXED"}
    /\ ~Undecided
    /\ Stored # {}
    /\ \A text \in MaskedTexts : IsClean(text)
    /\ doc' = Commit(seen, [seen EXCEPT !.status = "INDEXING"])
    /\ Goto(s, [requests[s] EXCEPT !.step = "index", !.seen = doc', !.text = MaskedTexts])
    /\ UNCHANGED <<pages, findings, served, extractions, deaths>>

\* Fault: the commit of INDEXING expires what the session has read.
TextToIndexExpired(s) == MaskedTexts

\* The pages the gate returned, as the session holds them.
TextToIndex(s) == requests[s].text

\* The activation commit.
IndexDone(s) ==
    LET seen == requests[s].seen IN
    /\ At(s, "index")
    /\ TextToIndex(s) # {}
    /\ doc' = Commit(seen, [seen EXCEPT !.status = "INDEXED", !.active = requests[s].target])
    /\ served' = TextToIndex(s)
    /\ Finish(s)
    /\ UNCHANGED <<pages, findings, extractions, deaths>>

\* Something raises: rollback, and the row is read again.
IndexFails(s) ==
    /\ requests[s].step \in {"gate", "index"}
    /\ Goto(s, [requests[s] EXCEPT !.step = "report", !.seen = doc])
    /\ UNCHANGED <<doc, pages, findings, served, extractions, deaths>>

IndexReports(s) ==
    LET seen == requests[s].seen
        status == IF seen.active = None THEN "INDEX_FAILED" ELSE "INDEXED"
    IN  /\ At(s, "report")
        /\ doc' = Commit(seen, [seen EXCEPT !.status = status])
        /\ Finish(s)
        /\ UNCHANGED <<pages, findings, served, extractions, deaths>>
-----------------------------------------------------------------------------
\* A request without an except block raises, or the process stops: what was
\* not committed is rolled back.
RequestFails(s) ==
    /\ requests[s].step \in {"queue", "decide", "mask", "approve"}
    /\ Finish(s)
    /\ UNCHANGED <<doc, pages, findings, served, extractions, deaths>>

\* A request does not get to its except block, or not through it.
RequestDies(s) ==
    /\ requests[s].step \in {"start", "extract", "store", "fail", "gate", "index", "report"}
    /\ deaths < MaxDeaths
    /\ deaths' = deaths + 1
    /\ Finish(s)
    /\ UNCHANGED <<doc, pages, findings, served, extractions>>

Begin(s) ==
    ExtractRead(s) \/ DecideRead(s) \/ AcceptAllRead(s) \/ ApproveRead(s) \/ IndexRead(s)

\* The request of s goes on.
Step(s) ==
    \/ ExtractQueue(s) \/ ExtractStart(s) \/ ExtractText(s) \/ ExtractDone(s)
    \/ ExtractFails(s) \/ ExtractReports(s)
    \/ DecideCommit(s)
    \/ ApproveMask(s) \/ ApproveCommit(s)
    \/ IndexGate(s) \/ IndexDone(s) \/ IndexFails(s) \/ IndexReports(s)
    \/ RequestFails(s)

Next == \E s \in Requests : Begin(s) \/ Step(s) \/ RequestDies(s)

Spec == Init /\ [][Next]_vars

\* A request that has begun is run to its end by the server's thread pool.
FairSpec == Spec /\ \A s \in Requests : WF_vars(Step(s))
-----------------------------------------------------------------------------
(* Properties *)

Sessions == [step : {"idle", "decide", "mask", "approve", "gate", "index", "report"}
                      \union ExtractSteps,
             seen : Document, id : Nat, read : SUBSET Ids, edits : SUBSET Edits,
             hidden : SUBSET Findings, text : SUBSET SUBSET Findings, target : Nat]

\* Columns and local variables hold what they can hold; in particular no
\* commit leaves a document REDACTION_APPROVED.
TypeOK ==
    /\ doc \in Document
    /\ pages \in [Ids -> Pages]
    /\ findings \in [Ids -> [Findings -> Finding]]
    /\ served \in SUBSET SUBSET Findings
    /\ requests \in [Requests -> Sessions]
    /\ extractions \in Nat
    /\ deaths \in Nat

\* The searches get text the privacy gate has scanned: personal data it can
\* detect is masked in every chunk that was activated, although the scan and
\* the activation are in different transactions, and reviewers may change
\* their decisions, and approve again, between the two.
ServedTextIsMasked == \A text \in served : IsClean(text)

\* A document that is past its review has been reviewed: every finding was
\* decided about and every page masked, whatever overlaps with the approval
\* and whatever extraction failed before (start_document_extraction,
\* approve_redactions, index_document).
ReadyMeansDecided ==
    doc.status \in {"INDEX_READY", "INDEXING", "INDEXED"} =>
        /\ ~Undecided
        /\ \A e \in Stored : pages[e].state = "masked"

\* A document does not stay with the extraction: it comes to its review, or
\* fails and can be extracted again, unless a request died.
ExtractionEnds ==
    doc.status \in {"EXTRACTION_QUEUED", "EXTRACTING"} ~>
        (doc.status \notin {"EXTRACTION_QUEUED", "EXTRACTING"} \/ deaths > 0)

\* VALID_DOCUMENT_TRANSITIONS; REDACTION_APPROVED, which no commit leaves, is
\* left out: what follows it follows REVIEW_REQUIRED.
ValidDocumentTransitions ==
    [status \in Statuses |->
        CASE status = "ENCRYPTED"         -> {"EXTRACTION_QUEUED"}
          [] status = "EXTRACTION_QUEUED" -> {"EXTRACTING", "EXTRACTION_FAILED"}
          [] status = "EXTRACTING"        -> {"REVIEW_REQUIRED", "INDEX_READY", "EXTRACTION_FAILED"}
          [] status = "EXTRACTION_FAILED" -> {"EXTRACTION_QUEUED"}
          [] status = "REVIEW_REQUIRED"   -> {"INDEX_READY", "EXTRACTION_FAILED"}
          [] status = "INDEX_READY"       -> {"INDEXING"}
          [] status = "INDEXING"          -> {"INDEXED", "INDEX_FAILED"}
          [] status = "INDEXED"           -> {"INDEXING"}
          [] OTHER                        -> {"INDEXING", "INDEX_READY"}]

\* The table of the document's states is followed by everybody, also by the
\* except blocks, which set a status without asking validate_transition.
StatusesFollowTheTable ==
    [][doc'.status # doc.status
          => doc'.status \in ValidDocumentTransitions[doc.status]]_vars

\* "Applies a human review decision to an individual PII finding with version
\* locking": a decision that takes the place of another one was made by
\* somebody who had seen it.
DecisionsAreLocked ==
    [][\A e \in Ids, f \in Findings :
          LET before == findings[e][f]
              after == findings'[e][f]
          IN  before.status # "NONE" /\ after.status \notin {"NONE", before.status}
                  => after.version > before.version]_vars
=============================================================================
