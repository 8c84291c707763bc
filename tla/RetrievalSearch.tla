-------------------------- MODULE RetrievalSearch --------------------------
(***************************************************************************)
(* Searches, answers and page images (services/retrieval/hybrid_search.py, *)
(* api/routes/retrieval.py) while the document they are about is indexed   *)
(* again.  A search reads which version is active, embeds the query, and   *)
(* asks the vector store twice, outside of any transaction; an answer goes *)
(* on with page images and the local model; the request for a page image   *)
(* reads the vector store and three tables one after the other.            *)
(*                                                                         *)
(* DocumentIndexing is extended with the readers: its actions are the ones *)
(* that change what is read.  Of the pages, which it leaves out, this      *)
(* module has the version of the masked image.  The points of other        *)
(* tenants and documents are not told apart: a hit whose payload the       *)
(* search refuses is Refused.                                              *)
(***************************************************************************)
EXTENDS DocumentIndexing, Sequences, FiniteSets

CONSTANTS
    Queries,        \* the requests that can be in flight (a bound)
    Chunks,         \* the chunks of the document, in every version
    Refused,        \* a hit whose payload is not accepted
    Invented,       \* a chunk the model cites and was not given
    K,              \* retrieval_rrf_k
    Unit,           \* what the scores are counted in (see RankFusion)
    MaxTopK         \* bound of the results a caller asks for

ASSUME ChunksAssumption ==
    IsFiniteSet(Chunks) /\ Chunks # {} /\ {Refused, Invented} \cap Chunks = {}
ASSUME TopKAssumption == MaxTopK \in Nat \ {0}
ASSUME UnitAssumption ==
    /\ {K, Unit} \subseteq Nat
    /\ \A rank \in 1..(Cardinality(Chunks) + 1) : Unit % (K + rank) = 0

VARIABLES
    image,      \* the version of the approved masked image, None for none
    queries

searchVars == <<vars, image, queries>>

Fusion == INSTANCE RankFusion

\* version: the version of the document in active_document_versions, or of the
\* point whose page is asked for; shown: the version of the image handed out,
\* to the model or to the caller; residual: whether the text of the answer has
\* personal data the detector finds.
IdleQuery ==
    [step |-> "idle", kind |-> "search", version |-> None, topK |-> 1,
     dense |-> <<>>, sparse |-> <<>>, found |-> {}, shown |-> None,
     cited |-> {}, policy |-> "NONE", residual |-> FALSE]

SearchInit ==
    /\ Init
    /\ image = None
    /\ queries = [q \in Queries |-> IdleQuery]

QueryAt(q, step) == queries[q].step = step
GoOn(q, session) ==
    /\ queries' = [queries EXCEPT ![q] = session]
    /\ UNCHANGED <<vars, image>>
-----------------------------------------------------------------------------
(* HybridRetrievalService.search *)

\* Fault: the version of the document is taken for the one that is active.
VersionToSearchNewest == IF doc.active = None THEN None ELSE doc.version

\* active_index_version, None when there is none or the caller is not permitted.
VersionToSearch == doc.active

SearchBegin(q) ==
    /\ QueryAt(q, "idle")
    /\ \E permitted \in BOOLEAN :
         LET version == IF permitted THEN VersionToSearch ELSE None IN
         GoOn(q, [IdleQuery EXCEPT !.step = IF version = None THEN "fuse" ELSE "dense",
                                   !.version = version])

\* The points the filter of a query lets through.
Stored(version) ==
    CASE points[version] = "all" -> {Chunks}
      [] points[version] = "some" -> SUBSET Chunks \ {{}}
      [] OTHER -> {{}}

\* Lists without repetitions of these hits, in any order.
Orders(hits) ==
    {list \in [1..Cardinality(hits) -> hits] :
        \A r, s \in DOMAIN list : r # s => list[r] # list[s]}
Ranked(chunks) == Orders(chunks) \union Orders(chunks \union {Refused})

SearchDense(q) ==
    /\ QueryAt(q, "dense")
    /\ \E chunks \in Stored(queries[q].version) : \E list \in Ranked(chunks) :
         GoOn(q, [queries[q] EXCEPT !.step = "sparse", !.dense = list])

\* Only points that share a word with the query.
SearchSparse(q) ==
    /\ QueryAt(q, "sparse")
    /\ \E chunks \in Stored(queries[q].version) : \E sharing \in SUBSET chunks :
       \E list \in Orders(sharing) :
         GoOn(q, [queries[q] EXCEPT !.step = "fuse", !.sparse = list])

\* The embedding or the vector store raises: nothing is on record.
SearchFails(q) ==
    /\ queries[q].step \in {"dense", "sparse"}
    /\ GoOn(q, IdleQuery)

Found(session, topK) == Fusion!Top(session.dense, session.sparse, topK)

\* The results, and RETRIEVAL_QUERY_EXECUTED; an answer without evidence ends
\* here.  Whether the caller wants an answer, and how many results, has not
\* mattered before: the limit of a query is above the number of chunks.
SearchFuse(q) ==
    /\ QueryAt(q, "fuse")
    /\ \E kind \in {"search", "answer"}, topK \in 1..MaxTopK :
         LET found == Found(queries[q], topK)
             next == [queries[q] EXCEPT !.dense = <<>>, !.sparse = <<>>,
                                        !.kind = kind, !.topK = topK, !.found = found]
         IN  GoOn(q, CASE kind = "search" ->
                            [next EXCEPT !.step = "sent", !.policy = "ALLOWED"]
                       [] kind = "answer" /\ found = {} ->
                            [next EXCEPT !.step = "sent", !.policy = "INSUFFICIENT_EVIDENCE"]
                       [] OTHER -> [next EXCEPT !.step = "images"])
-----------------------------------------------------------------------------
(* answer_retrieval, after its search *)

\* The image of a page goes along when it is of the version that was found, and
\* can be decrypted.
Attachable(version) == IF image = version THEN {image, None} ELSE {None}

AnswerImages(q) ==
    /\ QueryAt(q, "images")
    /\ \E shown \in Attachable(queries[q].version) :
         GoOn(q, [queries[q] EXCEPT !.step = "generate", !.shown = shown])

\* check_health_and_capability, and the completion; a client that cannot be
\* made raises before the request has begun.
PreflightFailures == {"MODEL_UNAVAILABLE", "MODEL_RESPONSE_INVALID", "MODEL_INCAPABLE"}
CompletionFailures == {"MODEL_UNAVAILABLE", "MODEL_RESPONSE_INVALID"}

\* Each is told to the audit log as OUTPUT_BLOCKED.
AnswerFails(q) ==
    /\ QueryAt(q, "generate")
    /\ \E failure \in PreflightFailures \union CompletionFailures :
         GoOn(q, [queries[q] EXCEPT !.step = "sent", !.policy = failure])

\* What the model may say.
Outputs == [cited : SUBSET (Chunks \union {Invented}), insufficient : BOOLEAN,
            text : {"clean", "masked_clean", "masked_residual"}]

\* Fault: what the model cites is believed.
ValidCitationsBelieved(found, output) == output.cited

\* valid_cids: grounding validation.
ValidCitations(found, output) == output.cited \intersect found

\* The truthful policy result; the fixed text of an answer without evidence has
\* no personal data.
Policy(insufficient, text) ==
    CASE insufficient -> "INSUFFICIENT_EVIDENCE"
      [] ~insufficient /\ text = "masked_residual" -> "OUTPUT_BLOCKED"
      [] ~insufficient /\ text = "masked_clean" -> "OUTPUT_REDACTED"
      [] OTHER -> "ALLOWED"

Answered == {"ALLOWED", "OUTPUT_REDACTED"}

AnswerGenerate(q) ==
    /\ QueryAt(q, "generate")
    /\ \E output \in Outputs :
         LET valid == ValidCitations(queries[q].found, output)
             policy == Policy(output.insufficient \/ valid = {}, output.text)
         IN  GoOn(q, [queries[q] EXCEPT !.step = "sent", !.policy = policy,
                        !.cited = IF policy \in Answered THEN valid ELSE {},
                        !.residual = policy \in Answered /\ output.text = "masked_residual"])
-----------------------------------------------------------------------------
(* get_authorized_evidence_page_image: every read is of what is committed at *)
(* that time; whatever does not fit is "Evidence not found".                 *)

ImageNotFound(q) == GoOn(q, IdleQuery)

\* retrieve_points: some version of the chunk is in the store.
ImagePoint(q) ==
    /\ QueryAt(q, "idle")
    /\ \E v \in Versions :
         /\ points[v] # "none"
         /\ GoOn(q, [IdleQuery EXCEPT !.step = "document", !.kind = "image", !.version = v])

ImageDocument(q) ==
    /\ QueryAt(q, "document")
    /\ IF doc.status = "INDEXED" /\ doc.active = queries[q].version
       THEN GoOn(q, [queries[q] EXCEPT !.step = "chunk"])
       ELSE ImageNotFound(q)

\* Authoritative chunk validation.
ImageChunk(q) ==
    /\ QueryAt(q, "chunk")
    /\ IF chunkRows = queries[q].version
       THEN GoOn(q, [queries[q] EXCEPT !.step = "page"])
       ELSE ImageNotFound(q)

\* Fault: an image that is approved is shown, whichever version it is of.
ImageMayBeShownApproved(version) == image # None

\* visual_privacy_status and visual_redaction_version.
ImageMayBeShown(version) == image = version

\* The page's row, and the decryption of the file it names.
ImagePage(q) ==
    /\ QueryAt(q, "page")
    /\ \/ /\ ImageMayBeShown(queries[q].version)
          /\ GoOn(q, [queries[q] EXCEPT !.step = "sent", !.shown = image])
       \/ ImageNotFound(q)
-----------------------------------------------------------------------------
\* The caller has the response, or the request died.
QueryEnds(q) == queries[q].step # "idle" /\ GoOn(q, IdleQuery)

QueryStep(q) ==
    \/ SearchBegin(q) \/ SearchDense(q) \/ SearchSparse(q) \/ SearchFails(q) \/ SearchFuse(q)
    \/ AnswerImages(q) \/ AnswerFails(q) \/ AnswerGenerate(q)
    \/ ImagePoint(q) \/ ImageDocument(q) \/ ImageChunk(q) \/ ImagePage(q)
    \/ QueryEnds(q)

\* The approval makes a masked image of its version, or blocks it.
ApproveWithImage ==
    /\ Approve
    /\ image' \in {doc'.version, None}
    /\ UNCHANGED queries

\* A new version comes with an image of its own, or not.
ReviseWithImage ==
    /\ Revise
    /\ image' \in {doc'.version, image, None}
    /\ UNCHANGED queries

RequestStep ==
    /\ \/ \E i \in Indexers : IndexRead(i) \/ IndexerStep(i) \/ IndexerDies(i)
       \/ \E r \in Reconcilers : ReconcileList(r) \/ ReconcilerStep(r) \/ ReconcilerDies(r)
    /\ UNCHANGED <<image, queries>>

SearchNext ==
    \/ \E q \in Queries : QueryStep(q)
    \/ ApproveWithImage
    \/ ReviseWithImage
    \/ RequestStep

SearchSpec == SearchInit /\ [][SearchNext]_searchVars
-----------------------------------------------------------------------------
(* Properties *)

QuerySteps == {"idle", "dense", "sparse", "fuse", "images", "generate",
               "document", "chunk", "page", "sent"}
Policies == {"NONE", "ALLOWED", "OUTPUT_REDACTED", "OUTPUT_BLOCKED", "INSUFFICIENT_EVIDENCE"}
                \union PreflightFailures \union CompletionFailures
QuerySessions ==
    [step : QuerySteps, kind : {"search", "answer", "image"},
     version : Versions \union {None}, topK : 1..MaxTopK,
     dense : Seq(Chunks \union {Refused}), sparse : Seq(Chunks \union {Refused}),
     found : SUBSET Chunks, shown : Versions \union {None},
     cited : SUBSET (Chunks \union {Invented}), policy : Policies, residual : BOOLEAN]

SearchTypeOK ==
    /\ TypeOK
    /\ image \in Versions \union {None}
    /\ queries \in [Queries -> QuerySessions]

\* A search misses nothing as long as the version it asks for is served: when
\* it has fewer results than were asked for and the document has, the version
\* it read was replaced in the meantime (the steps of
\* HybridRetrievalService.search against index_document, its failures and its
\* cleanups).
Asked(session) == IF session.topK < Cardinality(Chunks) THEN session.topK ELSE Cardinality(Chunks)
HasResults(session) ==
    session.step \in {"images", "generate", "sent"} /\ session.kind # "image"
SearchMissesNothing ==
    \A q \in Queries : LET session == queries[q] IN
        HasResults(session) /\ session.version # None /\ session.version = doc.active
            => Cardinality(session.found) >= Asked(session)

\* Fusion does not turn the lists around: a chunk neither list ranks below
\* another is ahead of it in the results, refused hits and ties or not.
RankingRespectsTheLists ==
    \A q \in Queries : QueryAt(q, "fuse") => Fusion!Respected(queries[q].dense, queries[q].sparse)

\* An answer that is given cites chunks the search has found, of which it has
\* at least one, and has no personal data the detector finds; an answer that
\* is not given cites nothing (answer_retrieval).
AnswersAreGrounded ==
    \A q \in Queries : QueryAt(q, "sent") /\ queries[q].kind = "answer" =>
        /\ queries[q].cited \subseteq queries[q].found
        /\ queries[q].cited # {} <=> queries[q].policy \in Answered
        /\ ~queries[q].residual

\* A page image that is handed out, to the caller or to the model, is of the
\* version the document is served in, which is complete in the vector store, or
\* of one that was replaced since: never of a version that is approved and not
\* yet indexed, or whose indexing has failed, however approvals, index requests
\* and cleanups come between the reads of the request (answer_retrieval,
\* get_authorized_evidence_page_image).
ImagesAreOfServedVersions ==
    \A q \in Queries : LET shown == queries[q].shown IN
        shown # None => shown <= doc.active /\ (shown = doc.active => points[shown] = "all")

\* What the timeline says of a document (build_document_lifecycle_timeline).
RetrievalEligible == doc.status = "INDEXED"

\* A document the timeline calls eligible for retrieval is found by a search,
\* complete; the reverse is not so, as a document that is indexed again is
\* served all the time.
EligibleIsSearchable ==
    RetrievalEligible => VersionToSearch # None /\ points[VersionToSearch] = "all"
=============================================================================
