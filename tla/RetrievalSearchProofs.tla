----------------------- MODULE RetrievalSearchProofs -----------------------
(***************************************************************************)
(* What holds of RetrievalSearch for every number of requests, versions,   *)
(* chunks and results, and for every constant of the fusion.               *)
(***************************************************************************)
EXTENDS RetrievalSearch, DocumentIndexingProofs, FiniteSetTheorems, SequenceTheorems,
        WellFoundedInduction

-----------------------------------------------------------------------------
(***************************************************************************)
(* The searches only read.                                                 *)
(***************************************************************************)

LEMMA SearchReads == [SearchNext]_searchVars => [Next]_vars
<1> SUFFICES ASSUME [SearchNext]_searchVars PROVE [Next]_vars
    OBVIOUS
<1>1. ASSUME NEW q \in Queries, QueryStep(q) PROVE UNCHANGED vars
    BY <1>1 DEF QueryStep, SearchBegin, SearchDense, SearchSparse, SearchFails, SearchFuse,
                AnswerImages, AnswerFails, AnswerGenerate, ImagePoint, ImageDocument,
                ImageChunk, ImagePage, QueryEnds, ImageNotFound, GoOn
<1>2. ApproveWithImage \/ ReviseWithImage \/ RequestStep => Next
    BY DEF ApproveWithImage, ReviseWithImage, RequestStep, Next
<1>3. UNCHANGED searchVars => UNCHANGED vars
    BY DEF searchVars
<1> QED BY <1>1, <1>2, <1>3 DEF SearchNext

\* Whatever the searches, answers and page images do, the indexing behaves as
\* it does without them (hybrid_search.py and routes/retrieval.py write nothing
\* the indexing reads).
THEOREM SearchesOnlyRead == SearchSpec => Spec
<1>1. SearchInit => Init
    BY DEF SearchInit
<1> QED BY <1>1, SearchReads, PTL DEF SearchSpec, Spec

\* A document the timeline calls eligible for retrieval has an active version
\* that is complete in the vector store (build_document_lifecycle_timeline,
\* index_document).
THEOREM EligibleStaysSearchable ==
    ASSUME OneIndexer, CleanupApart PROVE SearchSpec => []EligibleIsSearchable
<1>1. MarkInv => EligibleIsSearchable
    BY DEF MarkInv, SwitchInv, ActiveIsComplete, EligibleIsSearchable, RetrievalEligible,
           VersionToSearch
<1>2. Init => MarkInv
    BY MarkInit
<1>3. MarkInv /\ [Next]_vars => MarkInv'
    BY MarkStep
<1> QED BY <1>1, <1>2, <1>3, SearchesOnlyRead, PTL DEF Spec
-----------------------------------------------------------------------------
(***************************************************************************)
(* A request on its own.                                                   *)
(***************************************************************************)

Hits == Chunks \union {Refused}

\* A list of hits has each of them once at the most.
Ranking(list) ==
    /\ list \in Seq(Hits)
    /\ \A r, s \in DOMAIN list : r # s => list[r] # list[s]

Grounded(session) ==
    /\ session.cited \subseteq session.found
    /\ session.cited # {} <=> session.policy \in Answered
    /\ ~session.residual

\* What a request holds at any of its steps.
Sound(session) ==
    /\ session \in QuerySessions
    /\ Ranking(session.dense) /\ Ranking(session.sparse)
    /\ session.step \in {"document", "chunk", "page"} => session.kind = "image"
    /\ session.step # "sent" => session.cited = {} /\ session.residual = FALSE
    /\ session.shown # None => session.shown = session.version
    /\ session.step = "sent" /\ session.kind = "answer" => Grounded(session)

SearchInv ==
    /\ TypeOK
    /\ image \in Versions \union {None}
    /\ queries \in [Queries -> QuerySessions]
    /\ \A q \in Queries : Sound(queries[q])

LEMMA EmptyRanking == Ranking(<<>>)
BY DEF Ranking

LEMMA OrdersAreRankings == \A hits \in SUBSET Hits : \A list \in Orders(hits) : Ranking(list)
<1> SUFFICES ASSUME NEW hits \in SUBSET Hits, NEW list \in Orders(hits) PROVE Ranking(list)
    OBVIOUS
<1>1. IsFiniteSet(Hits)
    BY ChunksAssumption, FS_AddElement DEF Hits
<1>2. Cardinality(hits) \in Nat
    BY <1>1, FS_Subset, FS_CardinalityType
<1>3. list \in [1..Cardinality(hits) -> Hits]
    BY DEF Orders
<1>4. list \in Seq(Hits)
    BY <1>2, <1>3, SeqDef
<1> QED BY <1>4 DEF Orders, Ranking

LEMMA IdleIsSound ==
    /\ Sound(IdleQuery)
    /\ IdleQuery.shown = None /\ IdleQuery.cited = {} /\ IdleQuery.residual = FALSE
BY EmptyRanking, TopKAssumption
   DEF Sound, IdleQuery, QuerySessions, QuerySteps, Policies, Ranking, Hits, None, Grounded

\* A request that goes on to a sound session leaves the requests sound.
LEMMA SoundMoves ==
    ASSUME SearchInv, NEW q \in Queries, NEW session, Sound(session), GoOn(q, session)
    PROVE  SearchInv'
<1>1. TypeOK'
    BY DEF SearchInv, GoOn, vars, TypeOK
<1>2. queries' = [queries EXCEPT ![q] = session] /\ image' = image
    BY DEF GoOn
<1>3. session \in QuerySessions
    BY DEF Sound
<1> QED BY <1>1, <1>2, <1>3 DEF SearchInv

LEMMA StoredAreChunks == \A version : \A chunks \in Stored(version) : chunks \in SUBSET Chunks
<1> SUFFICES ASSUME NEW version, NEW chunks \in Stored(version) PROVE chunks \in SUBSET Chunks
    OBVIOUS
<1>1. Stored(version) \in {{Chunks}, SUBSET Chunks \ {{}}, {{}}}
    BY DEF Stored
<1> QED BY <1>1

\* Only an answer that is neither insufficient nor has personal data in it is
\* given.
LEMMA PolicyIsTruthful ==
    ASSUME NEW output \in Outputs, NEW insufficient \in BOOLEAN
    PROVE  LET policy == Policy(insufficient, output.text) IN
           /\ policy \in Policies
           /\ policy \in Answered => ~insufficient /\ output.text # "masked_residual"
BY DEF Outputs, Policy, Policies, Answered

LEMMA SearchSound ==
    ASSUME SearchInv, NEW q \in Queries,
           SearchBegin(q) \/ SearchDense(q) \/ SearchSparse(q) \/ SearchFails(q) \/ SearchFuse(q)
    PROVE  SearchInv'
<1>1. Sound(queries[q]) /\ doc.active \in Versions \union {None}
    BY DEF SearchInv, TypeOK, Rows
<1>2. CASE SearchBegin(q)
  <2>1. PICK version \in {VersionToSearch, None} :
          GoOn(q, [IdleQuery EXCEPT !.step = IF version = None THEN "fuse" ELSE "dense",
                                    !.version = version])
      BY <1>2 DEF SearchBegin
  <2>2. version \in Versions \union {None}
      BY <1>1 DEF VersionToSearch
  <2>3. ASSUME NEW step \in {"fuse", "dense"}
        PROVE  Sound([IdleQuery EXCEPT !.step = step, !.version = version])
      BY <2>2, IdleIsSound DEF Sound, QuerySessions, QuerySteps
  <2> QED BY <2>1, <2>3, SoundMoves
<1>3. CASE SearchDense(q)
  <2>1. PICK chunks \in Stored(queries[q].version) : \E list \in Ranked(chunks) :
          GoOn(q, [queries[q] EXCEPT !.step = "sparse", !.dense = list])
      BY <1>3 DEF SearchDense
  <2>2. PICK list \in Ranked(chunks) :
          GoOn(q, [queries[q] EXCEPT !.step = "sparse", !.dense = list])
      BY <2>1
  <2>3. chunks \in SUBSET Chunks
      BY StoredAreChunks
  <2>4. Ranking(list)
      BY <2>3, OrdersAreRankings DEF Ranked, Hits
  <2>5. queries[q].step # "sent"
      BY <1>3 DEF SearchDense, QueryAt
  <2>6. Sound([queries[q] EXCEPT !.step = "sparse", !.dense = list])
      BY <1>1, <2>4, <2>5 DEF Sound, QuerySessions, QuerySteps, Ranking, Hits
  <2> QED BY <2>2, <2>6, SoundMoves
<1>4. CASE SearchSparse(q)
  <2>0. PICK chunks \in Stored(queries[q].version) :
          \E sharing \in SUBSET chunks : \E list \in Orders(sharing) :
             GoOn(q, [queries[q] EXCEPT !.step = "fuse", !.sparse = list])
      BY <1>4 DEF SearchSparse
  <2>1. PICK sharing \in SUBSET chunks : \E list \in Orders(sharing) :
             GoOn(q, [queries[q] EXCEPT !.step = "fuse", !.sparse = list])
      BY <2>0
  <2>2. PICK list \in Orders(sharing) :
          GoOn(q, [queries[q] EXCEPT !.step = "fuse", !.sparse = list])
      BY <2>1
  <2>3. chunks \in SUBSET Chunks
      BY StoredAreChunks
  <2>4. Ranking(list)
      BY <2>3, OrdersAreRankings DEF Hits
  <2>5. queries[q].step # "sent"
      BY <1>4 DEF SearchSparse, QueryAt
  <2>6. Sound([queries[q] EXCEPT !.step = "fuse", !.sparse = list])
      BY <1>1, <2>4, <2>5 DEF Sound, QuerySessions, QuerySteps, Ranking, Hits
  <2> QED BY <2>2, <2>6, SoundMoves
<1>5. CASE SearchFails(q)
    BY <1>5, IdleIsSound, SoundMoves DEF SearchFails
<1>6. CASE SearchFuse(q)
  <2>1. PICK kind \in {"search", "answer"}, topK \in 1..MaxTopK :
          LET found == Found(queries[q], topK)
              next == [queries[q] EXCEPT !.dense = <<>>, !.sparse = <<>>,
                                         !.kind = kind, !.topK = topK, !.found = found]
          IN  GoOn(q, CASE kind = "search" ->
                             [next EXCEPT !.step = "sent", !.policy = "ALLOWED"]
                        [] kind = "answer" /\ found = {} ->
                             [next EXCEPT !.step = "sent", !.policy = "INSUFFICIENT_EVIDENCE"]
                        [] OTHER -> [next EXCEPT !.step = "images"])
      BY <1>6 DEF SearchFuse
  <2> DEFINE found == Found(queries[q], topK)
             next == [queries[q] EXCEPT !.dense = <<>>, !.sparse = <<>>,
                                        !.kind = kind, !.topK = topK, !.found = found]
  <2>2. found \in SUBSET Chunks
      BY DEF Found, Fusion!Top, Fusion!Candidates
  <2>3. queries[q].step # "sent"
      BY <1>6 DEF SearchFuse, QueryAt
  <2>4. /\ next \in QuerySessions /\ Ranking(next.dense) /\ Ranking(next.sparse)
        /\ next.cited = {} /\ next.residual = FALSE /\ next.kind = kind
        /\ next.shown # None => next.shown = next.version
        /\ next.step # "sent"
    <3>1. queries[q] \in QuerySessions /\ queries[q].cited = {} /\ queries[q].residual = FALSE
          /\ (queries[q].shown # None => queries[q].shown = queries[q].version)
        BY <1>1, <2>3 DEF Sound
    <3>2. <<>> \in Seq(Chunks \union {Refused})
        BY EmptyRanking DEF Ranking, Hits
    <3> HIDE DEF found
    <3>3. /\ next.dense = <<>> /\ next.sparse = <<>> /\ next.kind = kind /\ next.step = queries[q].step
          /\ next.cited = {} /\ next.residual = FALSE /\ next.shown = queries[q].shown
          /\ next.version = queries[q].version
        BY <3>1 DEF QuerySessions
    <3>4. next \in QuerySessions
        BY <2>1, <2>2, <3>1, <3>2 DEF QuerySessions
    <3> HIDE DEF next
    <3> QED BY <2>3, <3>1, <3>3, <3>4, EmptyRanking
  <2> HIDE DEF next, found
  <2>5. Sound([next EXCEPT !.step = "images"])
      BY <2>4 DEF Sound, QuerySessions, QuerySteps
  <2>6. Sound([next EXCEPT !.step = "sent", !.policy = "INSUFFICIENT_EVIDENCE"])
      BY <2>4 DEF Sound, QuerySessions, QuerySteps, Policies, Grounded, Answered
  <2>7. kind = "search" => Sound([next EXCEPT !.step = "sent", !.policy = "ALLOWED"])
      BY <2>4 DEF Sound, QuerySessions, QuerySteps, Policies
  <2>8. CASE kind = "search"
      BY <2>1, <2>7, <2>8, SoundMoves DEF next, found
  <2>9. CASE kind # "search" /\ found = {}
      BY <2>1, <2>6, <2>9, SoundMoves DEF next, found
  <2>10. CASE kind # "search" /\ found # {}
      BY <2>1, <2>5, <2>10, SoundMoves DEF next, found
  <2> QED BY <2>8, <2>9, <2>10
<1> QED BY <1>2, <1>3, <1>4, <1>5, <1>6

LEMMA AnswerSound ==
    ASSUME SearchInv, NEW q \in Queries, AnswerImages(q) \/ AnswerFails(q) \/ AnswerGenerate(q)
    PROVE  SearchInv'
<1>1. Sound(queries[q]) /\ image \in Versions \union {None}
    BY DEF SearchInv
<1>2. queries[q].step # "sent"
    BY DEF AnswerImages, AnswerFails, AnswerGenerate, QueryAt
<1>3. CASE AnswerImages(q)
  <2>1. PICK shown \in Attachable(queries[q].version) :
          GoOn(q, [queries[q] EXCEPT !.step = "generate", !.shown = shown])
      BY <1>3 DEF AnswerImages
  <2>2. shown \in Versions \union {None} /\ (shown # None => shown = queries[q].version)
      BY <1>1 DEF Attachable, None
  <2>3. Sound([queries[q] EXCEPT !.step = "generate", !.shown = shown])
      BY <1>1, <1>2, <2>2 DEF Sound, QuerySessions, QuerySteps
  <2> QED BY <2>1, <2>3, SoundMoves
<1>4. CASE AnswerFails(q)
  <2>1. PICK failure \in PreflightFailures \union CompletionFailures :
          GoOn(q, [queries[q] EXCEPT !.step = "sent", !.policy = failure])
      BY <1>4 DEF AnswerFails
  <2>2. failure \in Policies /\ failure \notin Answered
      BY DEF Policies, Answered, PreflightFailures, CompletionFailures
  <2>3. Sound([queries[q] EXCEPT !.step = "sent", !.policy = failure])
      BY <1>1, <1>2, <2>2 DEF Sound, QuerySessions, QuerySteps, Grounded
  <2> QED BY <2>1, <2>3, SoundMoves
<1>5. CASE AnswerGenerate(q)
  <2>1. PICK output \in Outputs :
          LET valid == ValidCitations(queries[q].found, output)
              policy == Policy(output.insufficient \/ valid = {}, output.text)
          IN  GoOn(q, [queries[q] EXCEPT !.step = "sent", !.policy = policy,
                         !.cited = IF policy \in Answered THEN valid ELSE {},
                         !.residual = policy \in Answered /\ output.text = "masked_residual"])
      BY <1>5 DEF AnswerGenerate
  <2> DEFINE valid == ValidCitations(queries[q].found, output)
             policy == Policy(output.insufficient \/ valid = {}, output.text)
             cited == IF policy \in Answered THEN valid ELSE {}
             residual == policy \in Answered /\ output.text = "masked_residual"
  <2>2. policy \in Policies /\ (policy \in Answered => valid # {} /\ output.text # "masked_residual")
      BY PolicyIsTruthful
  <2>3. valid \in SUBSET queries[q].found /\ queries[q].found \in SUBSET Chunks
      BY <1>1 DEF ValidCitations, Sound, QuerySessions
  <2>4. cited \subseteq queries[q].found /\ (cited # {} <=> policy \in Answered)
    <3> HIDE DEF valid, policy
    <3> QED BY <2>2, <2>3
  <2>5. residual = FALSE
    <3> HIDE DEF policy
    <3> QED BY <2>2
  <2>6. GoOn(q, [queries[q] EXCEPT !.step = "sent", !.policy = policy, !.cited = cited,
                                   !.residual = residual])
      BY <2>1
  <2> HIDE DEF valid, policy, cited, residual
  <2>7. Sound([queries[q] EXCEPT !.step = "sent", !.policy = policy, !.cited = cited,
                                 !.residual = residual])
      BY <1>1, <2>2, <2>3, <2>4, <2>5 DEF Sound, QuerySessions, QuerySteps, Grounded
  <2> QED BY <2>6, <2>7, SoundMoves
<1> QED BY <1>3, <1>4, <1>5

LEMMA ImageSound ==
    ASSUME SearchInv, NEW q \in Queries,
           ImagePoint(q) \/ ImageDocument(q) \/ ImageChunk(q) \/ ImagePage(q) \/ QueryEnds(q)
    PROVE  SearchInv'
<1>1. Sound(queries[q]) /\ image \in Versions \union {None}
    BY DEF SearchInv
<1>2. GoOn(q, IdleQuery) => SearchInv'
    BY IdleIsSound, SoundMoves
<1>3. CASE ImagePoint(q)
  <2>1. PICK v \in Versions :
          GoOn(q, [IdleQuery EXCEPT !.step = "document", !.kind = "image", !.version = v])
      BY <1>3 DEF ImagePoint
  <2>2. Sound([IdleQuery EXCEPT !.step = "document", !.kind = "image", !.version = v])
      BY IdleIsSound DEF Sound, QuerySessions, QuerySteps
  <2> QED BY <2>1, <2>2, SoundMoves
<1>4. CASE ImageDocument(q)
  <2>1. queries[q].step = "document"
      BY <1>4 DEF ImageDocument, QueryAt
  <2>2. Sound([queries[q] EXCEPT !.step = "chunk"])
      BY <1>1, <2>1 DEF Sound, QuerySessions, QuerySteps
  <2> QED BY <1>2, <1>4, <2>2, SoundMoves DEF ImageDocument, ImageNotFound
<1>5. CASE ImageChunk(q)
  <2>1. queries[q].step = "chunk"
      BY <1>5 DEF ImageChunk, QueryAt
  <2>2. Sound([queries[q] EXCEPT !.step = "page"])
      BY <1>1, <2>1 DEF Sound, QuerySessions, QuerySteps
  <2> QED BY <1>2, <1>5, <2>2, SoundMoves DEF ImageChunk, ImageNotFound
<1>6. CASE ImagePage(q)
  <2>1. CASE ImageNotFound(q)
      BY <1>2, <2>1 DEF ImageNotFound
  <2>2. CASE image = queries[q].version
             /\ GoOn(q, [queries[q] EXCEPT !.step = "sent", !.shown = image])
    <3>1. queries[q].step # "sent" /\ queries[q].kind = "image"
        BY <1>1, <1>6 DEF ImagePage, QueryAt, Sound
    <3>2. Sound([queries[q] EXCEPT !.step = "sent", !.shown = image])
        BY <1>1, <2>2, <3>1 DEF Sound, QuerySessions, QuerySteps
    <3> QED BY <2>2, <3>2, SoundMoves
  <2> QED BY <1>6, <2>1, <2>2 DEF ImagePage, ImageMayBeShown
<1>7. CASE QueryEnds(q)
    BY <1>2, <1>7 DEF QueryEnds
<1> QED BY <1>3, <1>4, <1>5, <1>6, <1>7

LEMMA SearchInvInit == SearchInit => SearchInv
BY TypeInit, IdleIsSound DEF SearchInit, SearchInv, Sound, None

LEMMA SearchInvStep == SearchInv /\ [SearchNext]_searchVars => SearchInv'
<1> SUFFICES ASSUME SearchInv, [SearchNext]_searchVars PROVE SearchInv'
    OBVIOUS
<1>1. TypeOK'
    BY SearchReads, TypeStep DEF SearchInv
<1>2. doc'.version \in Versions
    BY <1>1 DEF TypeOK, Rows
<1>3. CASE ApproveWithImage \/ ReviseWithImage \/ RequestStep \/ UNCHANGED searchVars
    BY <1>1, <1>2, <1>3
       DEF ApproveWithImage, ReviseWithImage, RequestStep, searchVars, SearchInv, None
<1>4. ASSUME NEW q \in Queries, QueryStep(q) PROVE SearchInv'
    BY <1>4, SearchSound, AnswerSound, ImageSound DEF QueryStep
<1> QED BY <1>3, <1>4 DEF SearchNext

\* The local variables of the requests hold what they can hold.
THEOREM SearchTypeInvariant == SearchSpec => []SearchTypeOK
<1>1. SearchInv => SearchTypeOK
    BY DEF SearchInv, SearchTypeOK
<1> QED BY <1>1, SearchInvInit, SearchInvStep, PTL DEF SearchSpec

\* An answer that is given cites chunks that were found and has no personal data
\* the detector finds, whatever the model says and whatever is indexed in the
\* meantime (answer_retrieval).
THEOREM AnswersStayGrounded == SearchSpec => []AnswersAreGrounded
<1>1. SearchInv => AnswersAreGrounded
    BY DEF SearchInv, Sound, Grounded, AnswersAreGrounded, QueryAt
<1> QED BY <1>1, SearchInvInit, SearchInvStep, PTL DEF SearchSpec

-----------------------------------------------------------------------------
(***************************************************************************)
(* The fusion of the lists.                                                *)
(***************************************************************************)

\* A lower rank never counts for more.
LEMMA IncrementFalls ==
    ASSUME NEW r \in Nat, NEW s \in Nat, 1 <= r, r <= s
    PROVE  /\ Fusion!Increment(r) \in Nat
           /\ Fusion!Increment(s) \in Nat
           /\ Fusion!Increment(s) <= Fusion!Increment(r)
<1> DEFINE a == Unit \div (K + r)
           b == Unit \div (K + s)
<1>1. Unit \in Nat /\ K \in Nat /\ K + r \in Nat \ {0} /\ K + s \in Nat \ {0} /\ K + r <= K + s
    BY UnitAssumption
<1>2. \A n \in Nat, d \in Nat \ {0} :
        /\ n \div d \in Nat
        /\ n >= d * (n \div d)
        /\ n < d * ((n \div d) + 1)
    OBVIOUS
<1>3. a \in Nat /\ b \in Nat /\ Unit >= (K + s) * b /\ Unit < (K + r) * (a + 1)
    BY <1>1, <1>2
<1>4. \A x, y, m, n \in Nat : x <= y /\ m <= n => x * m <= y * n
    OBVIOUS
<1>5. ASSUME a < b PROVE FALSE
  <2> HIDE DEF a, b
  <2>1. (K + r) * (a + 1) <= (K + s) * b
      BY <1>1, <1>3, <1>4, <1>5
  <2>2. (K + r) * (a + 1) \in Nat /\ (K + s) * b \in Nat
      BY <1>1, <1>3
  <2> QED BY <1>1, <1>3, <2>1, <2>2
<1> QED BY <1>3, <1>5 DEF Fusion!Increment

\* The one rank a hit has in a list.
LEMMA PositionIsUnique ==
    ASSUME NEW list, Ranking(list), NEW chunk, NEW r \in Fusion!Positions(list, chunk)
    PROVE  /\ Fusion!Positions(list, chunk) = {r}
           /\ r \in Nat /\ 1 <= r /\ r <= Len(list) /\ list[r] = chunk
           /\ Fusion!ScoreIn(list, chunk) = Fusion!Increment(r)
<1>1. list \in Seq(Hits) /\ r \in DOMAIN list /\ list[r] = chunk
    BY DEF Ranking, Fusion!Positions
<1>2. Fusion!Positions(list, chunk) = {r}
    BY <1>1 DEF Ranking, Fusion!Positions
<1>3. (CHOOSE p \in Fusion!Positions(list, chunk) : TRUE) = r
    BY <1>2
<1>4. r \in 1..Len(list) /\ Len(list) \in Nat
    BY <1>1
<1> QED BY <1>1, <1>2, <1>3, <1>4 DEF Fusion!ScoreIn

\* In either list a chunk that is at least as high has at least the score.
LEMMA HigherScores ==
    ASSUME NEW list, Ranking(list), NEW c, NEW d, Fusion!AtLeastAsHigh(list, c, d)
    PROVE  /\ Fusion!ScoreIn(list, c) \in Nat
           /\ Fusion!ScoreIn(list, d) \in Nat
           /\ Fusion!ScoreIn(list, d) <= Fusion!ScoreIn(list, c)
<1>1. \A chunk : Fusion!ScoreIn(list, chunk) \in Nat
  <2> SUFFICES ASSUME NEW chunk PROVE Fusion!ScoreIn(list, chunk) \in Nat
      OBVIOUS
  <2>1. CASE Fusion!Positions(list, chunk) = {}
      BY <2>1 DEF Fusion!ScoreIn
  <2>2. CASE Fusion!Positions(list, chunk) # {}
    <3>1. PICK r : r \in Fusion!Positions(list, chunk)
        BY <2>2
    <3> QED BY <3>1, PositionIsUnique, IncrementFalls
  <2> QED BY <2>1, <2>2
<1>2. CASE Fusion!Positions(list, d) = {}
  <2>1. Fusion!ScoreIn(list, d) = 0
      BY <1>2 DEF Fusion!ScoreIn
  <2> QED BY <1>1, <2>1
<1>3. CASE Fusion!Positions(list, d) # {}
  <2>1. PICK s : s \in Fusion!Positions(list, d)
      BY <1>3
  <2>2. PICK r \in Fusion!Positions(list, c) : r <= s
      BY <2>1 DEF Fusion!AtLeastAsHigh
  <2> QED BY <1>1, <2>1, <2>2, PositionIsUnique, IncrementFalls
<1> QED BY <1>2, <1>3

\* A chunk that is at least as high in both lists is seen first.
LEMMA HigherIsSeenFirst ==
    ASSUME NEW dense, Ranking(dense), NEW sparse, Ranking(sparse),
           NEW c \in Fusion!Candidates(dense, sparse), NEW d \in Fusion!Candidates(dense, sparse),
           c # d, Fusion!AtLeastAsHigh(dense, c, d), Fusion!AtLeastAsHigh(sparse, c, d)
    PROVE  Fusion!SeenFirst(dense, sparse, c, d) /\ ~Fusion!SeenFirst(dense, sparse, d, c)
<1> DEFINE hits == dense \o sparse
           n == Len(dense)
<1>1. /\ dense \in Seq(Hits) /\ sparse \in Seq(Hits) /\ n \in Nat /\ Len(sparse) \in Nat
      /\ DOMAIN dense = 1..n /\ DOMAIN sparse = 1..Len(sparse)
    BY DEF Ranking
<1>2. /\ DOMAIN hits = 1..(n + Len(sparse))
      /\ \A p \in 1..(n + Len(sparse)) : hits[p] = IF p <= n THEN dense[p] ELSE sparse[p - n]
    BY <1>1
<1>3. \A chunk : \A p \in Fusion!Positions(hits, chunk) :
         /\ p \in Nat
         /\ p <= n => p \in Fusion!Positions(dense, chunk)
         /\ p > n => p - n \in Fusion!Positions(sparse, chunk)
    BY <1>1, <1>2 DEF Fusion!Positions
<1>4. \A chunk : \A p \in Fusion!Positions(dense, chunk) :
         p \in Nat /\ p <= n /\ p \in Fusion!Positions(hits, chunk)
    BY <1>1, <1>2 DEF Fusion!Positions
<1>5. \A chunk : \A p \in Fusion!Positions(sparse, chunk) :
         p \in Nat /\ 1 <= p /\ p + n \in Fusion!Positions(hits, chunk)
    BY <1>1, <1>2 DEF Fusion!Positions
<1>6. \A p \in Fusion!Positions(hits, d) : p \notin Fusion!Positions(hits, c)
    BY DEF Fusion!Positions
<1> HIDE DEF hits, n
<1>7. \E r \in Fusion!Positions(hits, c) : \A s \in Fusion!Positions(hits, d) : r < s
  <2>1. CASE \E p : p \in Fusion!Positions(dense, c)
    <3>1. PICK p : p \in Fusion!Positions(dense, c)
        BY <2>1
    <3>2. \A s \in Fusion!Positions(dense, d) : p <= s
        BY <3>1, PositionIsUnique DEF Fusion!AtLeastAsHigh
    <3>3. \A s \in Fusion!Positions(hits, d) : p < s
      <4> SUFFICES ASSUME NEW s \in Fusion!Positions(hits, d) PROVE p < s
          OBVIOUS
      <4>1. p # s
          BY <1>4, <1>6, <3>1
      <4> QED BY <1>1, <1>3, <1>4, <3>1, <3>2, <4>1 DEF n
    <3> QED BY <1>4, <3>1, <3>3
  <2>2. CASE Fusion!Positions(dense, c) = {}
    <3>1. Fusion!Positions(dense, d) = {}
        BY <2>2 DEF Fusion!AtLeastAsHigh
    <3>2. PICK p : p \in Fusion!Positions(sparse, c)
        BY <2>2 DEF Fusion!Candidates
    <3>3. \A s \in Fusion!Positions(sparse, d) : p <= s
        BY <3>2, PositionIsUnique DEF Fusion!AtLeastAsHigh
    <3>4. \A s \in Fusion!Positions(hits, d) : p + n < s
      <4> SUFFICES ASSUME NEW s \in Fusion!Positions(hits, d) PROVE p + n < s
          OBVIOUS
      <4>1. p + n # s
          BY <1>5, <1>6, <3>2
      <4>2. n \in Nat
          BY <1>1
      <4>3. s \in Nat /\ s > n /\ s - n \in Fusion!Positions(sparse, d)
          BY <1>3, <3>1, <4>2
      <4> QED BY <1>5, <3>2, <3>3, <4>1, <4>2, <4>3
    <3> QED BY <1>5, <3>2, <3>4
  <2> QED BY <2>1, <2>2
<1>8. ~ \E s \in Fusion!Positions(hits, d) : \A r \in Fusion!Positions(hits, c) : s < r
    BY <1>3, <1>7
<1> QED BY <1>7, <1>8 DEF hits, Fusion!SeenFirst

LEMMA FusionRespects ==
    ASSUME NEW dense, Ranking(dense), NEW sparse, Ranking(sparse)
    PROVE  Fusion!Respected(dense, sparse)
<1> SUFFICES ASSUME NEW c \in Fusion!Candidates(dense, sparse),
                    NEW d \in Fusion!Candidates(dense, sparse), c # d,
                    Fusion!AtLeastAsHigh(dense, c, d), Fusion!AtLeastAsHigh(sparse, c, d)
             PROVE  Fusion!Ahead(dense, sparse, c, d) /\ ~Fusion!Ahead(dense, sparse, d, c)
    BY DEF Fusion!Respected
<1>1. /\ Fusion!Score(dense, sparse, c) \in Nat /\ Fusion!Score(dense, sparse, d) \in Nat
      /\ Fusion!Score(dense, sparse, d) <= Fusion!Score(dense, sparse, c)
    BY HigherScores DEF Fusion!Score
<1> QED BY <1>1, HigherIsSeenFirst DEF Fusion!Ahead

\* Whatever the lists and the constant of the fusion, a chunk neither list ranks
\* below another one is ahead of it (HybridRetrievalService.search).
THEOREM RankingStaysRespectful == SearchSpec => []RankingRespectsTheLists
<1>1. SearchInv => RankingRespectsTheLists
    BY FusionRespects DEF SearchInv, Sound, RankingRespectsTheLists
<1> QED BY <1>1, SearchInvInit, SearchInvStep, PTL DEF SearchSpec
-----------------------------------------------------------------------------
(***************************************************************************)
(* The results are all there are.                                          *)
(***************************************************************************)

\* What is induction over numbers elsewhere: a set of numbers has a least one.
LEMMA LeastNumber ==
    ASSUME NEW T, T \subseteq Nat, T # {} PROVE \E n \in T : \A m \in T : n <= m
<1>1. IsWellFoundedOn({x \in Nat \X Nat : x[1] < x[2]}, Nat)
    BY NatLessThanWellFounded DEF OpToRel
<1>2. PICK n \in T : \A m \in T : ~(<<m, n>> \in {x \in Nat \X Nat : x[1] < x[2]})
    BY <1>1, WFMin
<1>3. \A m \in T : m \in Nat /\ n \in Nat
    OBVIOUS
<1>4. \A m \in T : ~(m < n)
    BY <1>2, <1>3
<1> QED BY <1>3, <1>4

\* The order of the results is one.
LEMMA AheadIsAnOrder ==
    ASSUME NEW dense, Ranking(dense), NEW sparse, Ranking(sparse)
    PROVE  /\ \A c : ~Fusion!Ahead(dense, sparse, c, c) \/ c \notin Fusion!Candidates(dense, sparse)
           /\ \A c, d, e \in Fusion!Candidates(dense, sparse) :
                Fusion!Ahead(dense, sparse, c, d) /\ Fusion!Ahead(dense, sparse, d, e)
                    => Fusion!Ahead(dense, sparse, c, e)
<1>1. \A c : Fusion!Score(dense, sparse, c) \in Nat
  <2> SUFFICES ASSUME NEW c PROVE Fusion!Score(dense, sparse, c) \in Nat
      OBVIOUS
  <2>1. Fusion!AtLeastAsHigh(dense, c, c) /\ Fusion!AtLeastAsHigh(sparse, c, c)
      BY PositionIsUnique DEF Fusion!AtLeastAsHigh
  <2> QED BY <2>1, HigherScores DEF Fusion!Score
<1>2. \A c : \A r \in Fusion!Positions(dense \o sparse, c) : r \in Nat
    BY DEF Ranking, Fusion!Positions
<1>3. \A c : ~Fusion!SeenFirst(dense, sparse, c, c)
    BY <1>2 DEF Fusion!SeenFirst
<1>4. ASSUME NEW c, NEW d, NEW e,
             Fusion!SeenFirst(dense, sparse, c, d), Fusion!SeenFirst(dense, sparse, d, e)
      PROVE  Fusion!SeenFirst(dense, sparse, c, e)
  <2>1. PICK r \in Fusion!Positions(dense \o sparse, c) :
          \A s \in Fusion!Positions(dense \o sparse, d) : r < s
      BY <1>4 DEF Fusion!SeenFirst
  <2>2. PICK s \in Fusion!Positions(dense \o sparse, d) :
          \A t \in Fusion!Positions(dense \o sparse, e) : s < t
      BY <1>4 DEF Fusion!SeenFirst
  <2>3. \A t \in Fusion!Positions(dense \o sparse, e) : r < t
      BY <1>2, <2>1, <2>2
  <2> QED BY <2>1, <2>3 DEF Fusion!SeenFirst
<1> QED BY <1>1, <1>3, <1>4 DEF Fusion!Ahead

LEMMA SameCardinality == \A S : Fusion!Cardinality(S) = Cardinality(S)
BY Zenon DEF Fusion!Cardinality, Cardinality

\* As many results as were asked for, or every candidate.
LEMMA TopIsFull ==
    ASSUME NEW dense, Ranking(dense), NEW sparse, Ranking(sparse), NEW k \in Nat
    PROVE  \/ Fusion!Top(dense, sparse, k) = Fusion!Candidates(dense, sparse)
           \/ Cardinality(Fusion!Top(dense, sparse, k)) >= k
<1> DEFINE candidates == Fusion!Candidates(dense, sparse)
           Better(c) == {d \in candidates : Fusion!Ahead(dense, sparse, d, c)}
           top == {c \in candidates : Cardinality(Better(c)) < k}
           rest == candidates \ top
<1>1. IsFiniteSet(candidates)
    BY ChunksAssumption, FS_Subset DEF Fusion!Candidates
<1>2. \A S \in SUBSET candidates : IsFiniteSet(S) /\ Cardinality(S) \in Nat
    BY <1>1, FS_Subset, FS_CardinalityType
<1>3. Fusion!Top(dense, sparse, k) = top
    BY Zenon, SameCardinality DEF Fusion!Top
<1>4. ASSUME rest # {}, Cardinality(top) < k PROVE FALSE
  <2> DEFINE ranks == {Cardinality(Better(c)) : c \in rest}
  <2>1. ranks \subseteq Nat /\ ranks # {}
      BY <1>2, <1>4
  <2>2. PICK n \in ranks : \A m \in ranks : n <= m
      BY <2>1, LeastNumber
  <2>3. PICK c \in rest : n = Cardinality(Better(c))
      BY <2>2
  <2>4. \A d \in rest : Cardinality(Better(c)) <= Cardinality(Better(d))
      BY <2>2, <2>3
  <2>5. ASSUME NEW d \in Better(c), d \notin top PROVE FALSE
    <3>1. d \in candidates /\ d \in rest /\ Fusion!Ahead(dense, sparse, d, c)
        BY <2>5
    <3>2. Better(d) \subseteq Better(c) /\ d \notin Better(d)
        BY <2>3, <3>1, AheadIsAnOrder
    <3>3. Better(d) # Better(c)
        BY <2>5, <3>2
    <3>4. Cardinality(Better(d)) <= Cardinality(Better(c))
          /\ Cardinality(Better(d)) # Cardinality(Better(c))
      <4> HIDE DEF candidates
      <4>1. Better(c) \in SUBSET candidates /\ Better(d) \in SUBSET Better(c)
          BY <3>2
      <4> HIDE DEF Better
      <4> QED BY <1>2, <3>3, <4>1, FS_Subset
    <3>5. Cardinality(Better(d)) \in Nat /\ Cardinality(Better(c)) \in Nat
        BY <1>2
    <3> HIDE DEF Better, rest
    <3> QED BY <2>4, <3>1, <3>4, <3>5
  <2>6. Better(c) \in SUBSET top
      BY <2>5
  <2>7. top \in SUBSET candidates
      OBVIOUS
  <2>8. Cardinality(Better(c)) <= Cardinality(top)
    <3> HIDE DEF Better, top
    <3> QED BY <1>2, <2>6, <2>7, FS_Subset
  <2>9. Cardinality(Better(c)) \in Nat /\ Cardinality(top) \in Nat
      BY <1>2, <2>7
  <2>10. Cardinality(Better(c)) < k
    <3> HIDE DEF Better, top
    <3> QED BY <1>4, <2>8, <2>9
  <2>11. c \in top
      BY <2>3, <2>10
  <2> QED BY <2>3, <2>11
<1>5. Cardinality(top) \in Nat
    BY <1>2
<1>6. CASE rest = {}
    BY <1>3, <1>6
<1>7. CASE ~(Cardinality(top) < k)
  <2> HIDE DEF top
  <2> QED BY <1>3, <1>5, <1>7
<1> QED BY <1>4, <1>6, <1>7

\* A list of all points of a version has every chunk.
HasAll(list) == \A c \in Chunks : Fusion!Positions(list, c) # {}

LEMMA FullRankingHasAll == \A list \in Ranked(Chunks) : HasAll(list)
<1> SUFFICES ASSUME NEW list \in Ranked(Chunks), NEW c \in Chunks
             PROVE  Fusion!Positions(list, c) # {}
    BY DEF HasAll
<1>1. PICK hits \in {Chunks, Chunks \union {Refused}} : list \in Orders(hits)
    BY DEF Ranked
<1>2. IsFiniteSet(hits)
    BY ChunksAssumption, FS_AddElement
<1> DEFINE n == Cardinality(hits)
<1>3. n \in Nat
    BY <1>2, FS_CardinalityType
<1>4. Cardinality(1..n) = n
    BY <1>3, FS_Interval
<1>5. list \in [1..n -> hits] /\ \A r, s \in 1..n : r # s => list[r] # list[s]
    BY <1>1, <1>3 DEF Orders
<1>6. list \in Injection(1..n, hits)
    BY <1>5 DEF Injection, IsInjective
<1>7. list \in Surjection(1..n, hits)
    BY <1>2, <1>4, <1>6, FS_Injection
<1>8. PICK r \in 1..n : list[r] = c
    BY <1>1, <1>7 DEF Surjection
<1> QED BY <1>5, <1>8 DEF Fusion!Positions

\* What is served never goes back.
LEMMA ActiveGrows ==
    ASSUME OneIndexer, SwitchInv, [Next]_vars
    PROVE  doc.active \in Nat /\ doc'.active \in Nat /\ doc.active <= doc'.active
<1>1. TypeOK /\ TypeOK'
    BY TypeStep DEF SwitchInv
<1>2. doc.active \in Nat /\ doc'.active \in Nat
    BY <1>1, SessionTypes DEF TypeOK, Rows, Versions, None
<1>3. [Generations!Next]_(Generations!vars)
    BY GenerationsStep
<1> QED
    BY <1>2, <1>3
       DEF Generations!Next, Generations!vars, Generations!Build, Generations!Drop,
           Generations!Switch

\* A request whose version is still served has all there is.
UpToDate(session) ==
    /\ session.step \in {"dense", "sparse", "fuse"} => session.kind = "search"
    /\ session.kind # "image" /\ session.version # None =>
        /\ session.version <= doc.active
        /\ session.version = doc.active =>
            /\ session.step \in {"sparse", "fuse"} => HasAll(session.dense)
            /\ session.step \in {"images", "generate", "sent"}
                    => Cardinality(session.found) >= Asked(session)

CompleteInv ==
    /\ SwitchInv
    /\ SearchInv
    /\ \A q \in Queries : UpToDate(queries[q])

\* What is fused is all there is, when the dense list has it all.
LEMMA FoundIsComplete ==
    ASSUME NEW session, Ranking(session.dense), Ranking(session.sparse),
           HasAll(session.dense), NEW topK \in 1..MaxTopK
    PROVE  \/ Found(session, topK) = Chunks
           \/ Cardinality(Found(session, topK)) >= topK
<1>1. Fusion!Candidates(session.dense, session.sparse) = Chunks
    BY DEF HasAll, Fusion!Candidates
<1>2. topK \in Nat
    BY TopKAssumption
<1> QED BY <1>1, <1>2, TopIsFull DEF Found

LEMMA CompleteMoves ==
    ASSUME CompleteInv, NEW q \in Queries, NEW session, UpToDate(session), GoOn(q, session)
    PROVE  \A p \in Queries : UpToDate(queries[p])'
<1>1. queries' = [queries EXCEPT ![q] = session] /\ doc' = doc
    BY DEF GoOn, vars
<1>2. DOMAIN queries = Queries
    BY DEF CompleteInv, SearchInv
<1> QED BY <1>1, <1>2 DEF CompleteInv, UpToDate, Asked

LEMMA SearchComplete ==
    ASSUME CompleteInv, NEW q \in Queries, QueryStep(q)
    PROVE  \A p \in Queries : UpToDate(queries[p])'
<1> DEFINE s == queries[q]
<1>1. Sound(s) /\ UpToDate(s) /\ s \in QuerySessions
    BY DEF CompleteInv, SearchInv
<1>2. UpToDate(IdleQuery)
    BY DEF UpToDate, IdleQuery
<1>3. doc.active \in Nat /\ (doc.active # None => points[doc.active] = "all")
    BY SessionTypes DEF CompleteInv, SwitchInv, ActiveIsComplete
<1>4. CASE SearchBegin(q)
  <2>1. PICK permitted \in BOOLEAN :
          LET version == IF permitted THEN VersionToSearch ELSE None IN
          GoOn(q, [IdleQuery EXCEPT !.step = IF version = None THEN "fuse" ELSE "dense",
                                    !.version = version])
      BY <1>4 DEF SearchBegin
  <2> DEFINE version == IF permitted THEN VersionToSearch ELSE None
             new == [IdleQuery EXCEPT !.step = IF version = None THEN "fuse" ELSE "dense",
                                      !.version = version]
  <2>2. UpToDate(new)
      BY <1>3 DEF UpToDate, IdleQuery, VersionToSearch, None
  <2> QED BY <2>1, <2>2, CompleteMoves
<1>5. CASE SearchDense(q)
  <2>1. PICK chunks \in Stored(s.version) : \E list \in Ranked(chunks) :
          GoOn(q, [s EXCEPT !.step = "sparse", !.dense = list])
      BY <1>5 DEF SearchDense
  <2>2. PICK list \in Ranked(chunks) :
          GoOn(q, [s EXCEPT !.step = "sparse", !.dense = list])
      BY <2>1
  <2> DEFINE new == [s EXCEPT !.step = "sparse", !.dense = list]
  <2>3. s.version # None /\ s.version = doc.active => HasAll(list)
      BY <1>3, <2>1, <2>2, FullRankingHasAll DEF Stored
  <2>4. s.step = "dense"
      BY <1>5 DEF SearchDense, QueryAt
  <2>5. UpToDate(new)
      BY <1>1, <2>3, <2>4 DEF UpToDate, QuerySessions
  <2> QED BY <2>2, <2>5, CompleteMoves
<1>6. CASE SearchSparse(q)
  <2>1. PICK list : GoOn(q, [s EXCEPT !.step = "fuse", !.sparse = list])
      BY <1>6 DEF SearchSparse
  <2>2. s.step = "sparse"
      BY <1>6 DEF SearchSparse, QueryAt
  <2>3. UpToDate([s EXCEPT !.step = "fuse", !.sparse = list])
      BY <1>1, <2>2 DEF UpToDate, QuerySessions
  <2> QED BY <2>1, <2>3, CompleteMoves
<1>7. CASE SearchFuse(q)
  <2>1. PICK kind \in {"search", "answer"}, topK \in 1..MaxTopK :
          LET found == Found(s, topK)
              next == [s EXCEPT !.dense = <<>>, !.sparse = <<>>,
                                !.kind = kind, !.topK = topK, !.found = found]
          IN  GoOn(q, CASE kind = "search" ->
                             [next EXCEPT !.step = "sent", !.policy = "ALLOWED"]
                        [] kind = "answer" /\ found = {} ->
                             [next EXCEPT !.step = "sent", !.policy = "INSUFFICIENT_EVIDENCE"]
                        [] OTHER -> [next EXCEPT !.step = "images"])
      BY <1>7 DEF SearchFuse
  <2>2. s.step = "fuse" /\ s.kind # "image"
      BY <1>1, <1>7 DEF SearchFuse, QueryAt, UpToDate
  <2> DEFINE found == Found(s, topK)
             next == [s EXCEPT !.dense = <<>>, !.sparse = <<>>,
                               !.kind = kind, !.topK = topK, !.found = found]
  <2>3. next.version = s.version /\ next.topK = topK /\ next.found = found
        /\ \A step, policy :
             LET new == [next EXCEPT !.step = step, !.policy = policy] IN
             /\ new.version = s.version /\ new.topK = topK /\ new.found = found
             /\ new.step = step
      BY <1>1 DEF QuerySessions
  <2>4. \A step :
             LET new == [next EXCEPT !.step = step] IN
             /\ new.version = s.version /\ new.topK = topK /\ new.found = found
             /\ new.step = step
      BY <1>1 DEF QuerySessions
  <2>5. s.version # None => s.version <= doc.active
      BY <1>1, <2>2 DEF UpToDate
  <2>6. ASSUME s.version # None, s.version = doc.active
        PROVE  Cardinality(found) >= (IF topK < Cardinality(Chunks) THEN topK
                                      ELSE Cardinality(Chunks))
    <3>1. HasAll(s.dense)
        BY <1>1, <2>2, <2>6 DEF UpToDate
    <3>2. found = Chunks \/ Cardinality(found) >= topK
        BY <1>1, <3>1, FoundIsComplete DEF Sound
    <3>3. found \in SUBSET Chunks
        BY DEF Found, Fusion!Top, Fusion!Candidates
    <3>4. Cardinality(found) \in Nat /\ Cardinality(Chunks) \in Nat
        BY <3>3, ChunksAssumption, FS_Subset, FS_CardinalityType
    <3>5. topK \in Nat
        BY TopKAssumption
    <3> QED BY <3>2, <3>4, <3>5
  <2> HIDE DEF found, next
  <2>7. \A step \in {"sent", "images"} : \A policy :
          UpToDate([next EXCEPT !.step = step, !.policy = policy])
      BY <2>3, <2>5, <2>6 DEF UpToDate, Asked
  <2>8. UpToDate([next EXCEPT !.step = "images"])
      BY <2>4, <2>5, <2>6 DEF UpToDate, Asked
  <2>9. \/ GoOn(q, [next EXCEPT !.step = "sent", !.policy = "ALLOWED"])
        \/ GoOn(q, [next EXCEPT !.step = "sent", !.policy = "INSUFFICIENT_EVIDENCE"])
        \/ GoOn(q, [next EXCEPT !.step = "images"])
      BY <2>1 DEF next, found
  <2> QED BY <2>7, <2>8, <2>9, CompleteMoves
<1>8. CASE AnswerImages(q)
  <2>1. PICK shown : GoOn(q, [s EXCEPT !.step = "generate", !.shown = shown])
      BY <1>8 DEF AnswerImages
  <2>2. s.step = "images"
      BY <1>8 DEF AnswerImages, QueryAt
  <2>3. UpToDate([s EXCEPT !.step = "generate", !.shown = shown])
      BY <1>1, <2>2 DEF UpToDate, QuerySessions, Asked
  <2> QED BY <2>1, <2>3, CompleteMoves
<1>9. CASE AnswerFails(q)
  <2>1. PICK failure : GoOn(q, [s EXCEPT !.step = "sent", !.policy = failure])
      BY <1>9 DEF AnswerFails
  <2>2. s.step = "generate"
      BY <1>9 DEF AnswerFails, QueryAt
  <2>3. UpToDate([s EXCEPT !.step = "sent", !.policy = failure])
      BY <1>1, <2>2 DEF UpToDate, QuerySessions, Asked
  <2> QED BY <2>1, <2>3, CompleteMoves
<1>10. CASE AnswerGenerate(q)
  <2>1. PICK policy, cited, residual :
          GoOn(q, [s EXCEPT !.step = "sent", !.policy = policy, !.cited = cited,
                            !.residual = residual])
      BY <1>10 DEF AnswerGenerate
  <2>2. s.step = "generate"
      BY <1>10 DEF AnswerGenerate, QueryAt
  <2>3. UpToDate([s EXCEPT !.step = "sent", !.policy = policy, !.cited = cited,
                           !.residual = residual])
      BY <1>1, <2>2 DEF UpToDate, QuerySessions, Asked
  <2> QED BY <2>1, <2>3, CompleteMoves
<1>11. CASE ImagePoint(q)
  <2>1. PICK v \in Versions :
          GoOn(q, [IdleQuery EXCEPT !.step = "document", !.kind = "image", !.version = v])
      BY <1>11 DEF ImagePoint
  <2>2. UpToDate([IdleQuery EXCEPT !.step = "document", !.kind = "image", !.version = v])
      BY DEF UpToDate, IdleQuery
  <2> QED BY <2>1, <2>2, CompleteMoves
<1>12. CASE ImageDocument(q) \/ ImageChunk(q) \/ ImagePage(q)
  <2>1. s.kind = "image"
      BY <1>1, <1>12 DEF Sound, ImageDocument, ImageChunk, ImagePage, QueryAt
  <2>2. \A step \in {"chunk", "page", "sent"} : \A shown :
          /\ UpToDate([s EXCEPT !.step = step])
          /\ UpToDate([s EXCEPT !.step = step, !.shown = shown])
      BY <1>1, <2>1 DEF UpToDate, QuerySessions
  <2>3. \/ GoOn(q, IdleQuery)
        \/ \E step \in {"chunk", "page"} : GoOn(q, [s EXCEPT !.step = step])
        \/ \E shown : GoOn(q, [s EXCEPT !.step = "sent", !.shown = shown])
      BY <1>12 DEF ImageDocument, ImageChunk, ImagePage, ImageNotFound
  <2> QED BY <1>2, <2>2, <2>3, CompleteMoves
<1>13. CASE SearchFails(q) \/ QueryEnds(q)
    BY <1>2, <1>13, CompleteMoves DEF SearchFails, QueryEnds
<1> QED BY <1>4, <1>5, <1>6, <1>7, <1>8, <1>9, <1>10, <1>11, <1>12, <1>13 DEF QueryStep

LEMMA CompleteStep ==
    ASSUME OneIndexer, CompleteInv, [SearchNext]_searchVars PROVE CompleteInv'
<1>1. [Next]_vars
    BY SearchReads
<1>2. SwitchInv' /\ SearchInv'
    BY <1>1, SwitchStep, SearchInvStep DEF CompleteInv
<1>3. ASSUME NEW q \in Queries, QueryStep(q) PROVE CompleteInv'
    BY <1>2, <1>3, SearchComplete DEF CompleteInv
<1>4. CASE ApproveWithImage \/ ReviseWithImage \/ RequestStep \/ UNCHANGED searchVars
  <2>1. queries' = queries
      BY <1>4 DEF ApproveWithImage, ReviseWithImage, RequestStep, searchVars
  <2>2. doc.active \in Nat /\ doc'.active \in Nat /\ doc.active <= doc'.active
      BY <1>1, ActiveGrows DEF CompleteInv
  <2>3. \A q \in Queries : queries[q].version \in Nat
      BY DEF CompleteInv, SearchInv, QuerySessions, Versions, None
  <2>4. \A q \in Queries : UpToDate(queries[q])'
      BY <2>1, <2>2, <2>3 DEF CompleteInv, UpToDate, Asked
  <2> QED BY <1>2, <2>4 DEF CompleteInv
<1> QED BY <1>3, <1>4 DEF SearchNext

\* A search misses nothing as long as the version it asks for is served,
\* whatever is indexed, cleaned up or fails between its steps
\* (HybridRetrievalService.search, index_document).
THEOREM SearchesMissNothing == ASSUME OneIndexer PROVE SearchSpec => []SearchMissesNothing
<1>1. SearchInit => CompleteInv
    BY SwitchInit, SearchInvInit DEF SearchInit, CompleteInv, UpToDate, IdleQuery
<1>2. CompleteInv => SearchMissesNothing
    BY DEF CompleteInv, UpToDate, SearchMissesNothing, HasResults
<1>3. CompleteInv /\ [SearchNext]_searchVars => CompleteInv'
    BY CompleteStep
<1> QED BY <1>1, <1>2, <1>3, PTL DEF SearchSpec
-----------------------------------------------------------------------------
(***************************************************************************)
(* The images that are handed out.                                         *)
(***************************************************************************)

\* A request that has seen its version served has seen it of the version that
\* is served still, or of an earlier one; before that it hands out nothing.
Served(session) ==
    IF session.step \in {"idle", "document"} THEN session.shown = None
    ELSE session.version <= doc.active

ServedInv ==
    /\ SwitchInv
    /\ SearchInv
    /\ \A q \in Queries : Served(queries[q])

LEMMA ServedMoves ==
    ASSUME ServedInv, NEW q \in Queries, NEW session, Served(session), GoOn(q, session)
    PROVE  \A p \in Queries : Served(queries[p])'
<1>1. queries' = [queries EXCEPT ![q] = session] /\ doc' = doc
    BY DEF GoOn, vars
<1>2. DOMAIN queries = Queries
    BY DEF ServedInv, SearchInv
<1> QED BY <1>1, <1>2 DEF ServedInv, Served

LEMMA ServedQuery ==
    ASSUME ServedInv, NEW q \in Queries, QueryStep(q)
    PROVE  \A p \in Queries : Served(queries[p])'
<1> DEFINE s == queries[q]
<1>1. Served(s) /\ s \in QuerySessions /\ doc.active \in Nat
    BY SessionTypes DEF ServedInv, SearchInv, SwitchInv
<1>2. Served(IdleQuery)
    BY DEF Served, IdleQuery
\* What a request goes on with that has seen its version served.
<1>3. ASSUME NEW next, GoOn(q, next), next.version = s.version,
             s.step \notin {"idle", "document"}, next.step \notin {"idle", "document"}
      PROVE  \A p \in Queries : Served(queries[p])'
  <2>1. Served(next)
      BY <1>1, <1>3 DEF Served
  <2> QED BY <1>3, <2>1, ServedMoves
<1>4. CASE SearchBegin(q)
  <2>1. PICK version \in {VersionToSearch, None} :
          GoOn(q, [IdleQuery EXCEPT !.step = IF version = None THEN "fuse" ELSE "dense",
                                    !.version = version])
      BY <1>4 DEF SearchBegin
  <2>2. version <= doc.active
      BY <1>1 DEF VersionToSearch, None
  <2>3. Served([IdleQuery EXCEPT !.step = IF version = None THEN "fuse" ELSE "dense",
                                 !.version = version])
      BY <2>2 DEF Served, IdleQuery
  <2> QED BY <2>1, <2>3, ServedMoves
<1>5. CASE ImagePoint(q)
  <2>1. PICK v \in Versions :
          GoOn(q, [IdleQuery EXCEPT !.step = "document", !.kind = "image", !.version = v])
      BY <1>5 DEF ImagePoint
  <2>2. Served([IdleQuery EXCEPT !.step = "document", !.kind = "image", !.version = v])
      BY DEF Served, IdleQuery
  <2> QED BY <2>1, <2>2, ServedMoves
<1>6. CASE ImageDocument(q)
  <2>1. CASE GoOn(q, IdleQuery)
      BY <1>2, <2>1, ServedMoves
  <2>2. CASE doc.active = s.version /\ GoOn(q, [s EXCEPT !.step = "chunk"])
    <3>1. Served([s EXCEPT !.step = "chunk"])
        BY <1>1, <2>2 DEF Served, QuerySessions
    <3> QED BY <2>2, <3>1, ServedMoves
  <2> QED BY <1>6, <2>1, <2>2 DEF ImageDocument, ImageNotFound
<1>7. CASE SearchFails(q) \/ QueryEnds(q)
    BY <1>2, <1>7, ServedMoves DEF SearchFails, QueryEnds
<1>8. CASE SearchDense(q)
  <2>1. PICK list : GoOn(q, [s EXCEPT !.step = "sparse", !.dense = list])
      BY <1>8 DEF SearchDense
  <2>2. s.step = "dense"
      BY <1>8 DEF SearchDense, QueryAt
  <2> DEFINE next == [s EXCEPT !.step = "sparse", !.dense = list]
  <2>3. next.version = s.version /\ next.step = "sparse"
      BY <1>1 DEF QuerySessions
  <2> QED BY <1>3, <2>1, <2>2, <2>3
<1>9. CASE SearchSparse(q)
  <2>1. PICK list : GoOn(q, [s EXCEPT !.step = "fuse", !.sparse = list])
      BY <1>9 DEF SearchSparse
  <2>2. s.step = "sparse"
      BY <1>9 DEF SearchSparse, QueryAt
  <2> DEFINE next == [s EXCEPT !.step = "fuse", !.sparse = list]
  <2>3. next.version = s.version /\ next.step = "fuse"
      BY <1>1 DEF QuerySessions
  <2> QED BY <1>3, <2>1, <2>2, <2>3
<1>10. CASE SearchFuse(q)
  <2>1. PICK kind \in {"search", "answer"}, topK \in 1..MaxTopK :
          LET found == Found(s, topK)
              next == [s EXCEPT !.dense = <<>>, !.sparse = <<>>,
                                !.kind = kind, !.topK = topK, !.found = found]
          IN  GoOn(q, CASE kind = "search" ->
                             [next EXCEPT !.step = "sent", !.policy = "ALLOWED"]
                        [] kind = "answer" /\ found = {} ->
                             [next EXCEPT !.step = "sent", !.policy = "INSUFFICIENT_EVIDENCE"]
                        [] OTHER -> [next EXCEPT !.step = "images"])
      BY <1>10 DEF SearchFuse
  <2>2. s.step = "fuse"
      BY <1>10 DEF SearchFuse, QueryAt
  <2> DEFINE found == Found(s, topK)
             next == [s EXCEPT !.dense = <<>>, !.sparse = <<>>,
                               !.kind = kind, !.topK = topK, !.found = found]
  <2>3. \/ GoOn(q, [next EXCEPT !.step = "sent", !.policy = "ALLOWED"])
        \/ GoOn(q, [next EXCEPT !.step = "sent", !.policy = "INSUFFICIENT_EVIDENCE"])
        \/ GoOn(q, [next EXCEPT !.step = "images"])
      BY <2>1
  <2>4. ASSUME NEW policy, GoOn(q, [next EXCEPT !.step = "sent", !.policy = policy])
        PROVE  \A p \in Queries : Served(queries[p])'
    <3> DEFINE new == [next EXCEPT !.step = "sent", !.policy = policy]
    <3>1. new.version = s.version /\ new.step = "sent"
        BY <1>1 DEF QuerySessions
    <3> HIDE DEF next
    <3> QED BY <1>3, <2>2, <2>4, <3>1
  <2>5. CASE GoOn(q, [next EXCEPT !.step = "images"])
    <3> DEFINE new == [next EXCEPT !.step = "images"]
    <3>1. new.version = s.version /\ new.step = "images"
        BY <1>1 DEF QuerySessions
    <3> HIDE DEF next
    <3> QED BY <1>3, <2>2, <2>5, <3>1
  <2> HIDE DEF next, found
  <2> QED BY <2>3, <2>4, <2>5
<1>11. CASE AnswerImages(q)
  <2>1. PICK shown : GoOn(q, [s EXCEPT !.step = "generate", !.shown = shown])
      BY <1>11 DEF AnswerImages
  <2>2. s.step = "images"
      BY <1>11 DEF AnswerImages, QueryAt
  <2> DEFINE next == [s EXCEPT !.step = "generate", !.shown = shown]
  <2>3. next.version = s.version /\ next.step = "generate"
      BY <1>1 DEF QuerySessions
  <2> QED BY <1>3, <2>1, <2>2, <2>3
<1>12. CASE AnswerFails(q)
  <2>1. PICK failure : GoOn(q, [s EXCEPT !.step = "sent", !.policy = failure])
      BY <1>12 DEF AnswerFails
  <2>2. s.step = "generate"
      BY <1>12 DEF AnswerFails, QueryAt
  <2> DEFINE next == [s EXCEPT !.step = "sent", !.policy = failure]
  <2>3. next.version = s.version /\ next.step = "sent"
      BY <1>1 DEF QuerySessions
  <2> QED BY <1>3, <2>1, <2>2, <2>3
<1>13. CASE AnswerGenerate(q)
  <2>1. PICK policy, cited, residual :
          GoOn(q, [s EXCEPT !.step = "sent", !.policy = policy, !.cited = cited,
                            !.residual = residual])
      BY <1>13 DEF AnswerGenerate
  <2>2. s.step = "generate"
      BY <1>13 DEF AnswerGenerate, QueryAt
  <2> DEFINE next == [s EXCEPT !.step = "sent", !.policy = policy, !.cited = cited,
                               !.residual = residual]
  <2>3. next.version = s.version /\ next.step = "sent"
      BY <1>1 DEF QuerySessions
  <2> QED BY <1>3, <2>1, <2>2, <2>3
<1>14. CASE ImageChunk(q)
  <2>1. CASE GoOn(q, IdleQuery)
      BY <1>2, <2>1, ServedMoves
  <2>2. CASE GoOn(q, [s EXCEPT !.step = "page"])
    <3>1. s.step = "chunk"
        BY <1>14 DEF ImageChunk, QueryAt
    <3> DEFINE next == [s EXCEPT !.step = "page"]
    <3>2. next.version = s.version /\ next.step = "page"
        BY <1>1 DEF QuerySessions
    <3> QED BY <1>3, <2>2, <3>1, <3>2
  <2> QED BY <1>14, <2>1, <2>2 DEF ImageChunk, ImageNotFound
<1>15. CASE ImagePage(q)
  <2>1. CASE GoOn(q, IdleQuery)
      BY <1>2, <2>1, ServedMoves
  <2>2. CASE GoOn(q, [s EXCEPT !.step = "sent", !.shown = image])
    <3>1. s.step = "page"
        BY <1>15 DEF ImagePage, QueryAt
    <3> DEFINE next == [s EXCEPT !.step = "sent", !.shown = image]
    <3>2. next.version = s.version /\ next.step = "sent"
        BY <1>1 DEF QuerySessions
    <3> QED BY <1>3, <2>2, <3>1, <3>2
  <2> QED BY <1>15, <2>1, <2>2 DEF ImagePage, ImageNotFound
<1> QED
    BY <1>4, <1>5, <1>6, <1>7, <1>8, <1>9, <1>10, <1>11, <1>12, <1>13, <1>14, <1>15 DEF QueryStep

LEMMA ServedStep ==
    ASSUME OneIndexer, ServedInv, [SearchNext]_searchVars PROVE ServedInv'
<1>1. [Next]_vars
    BY SearchReads
<1>2. SwitchInv' /\ SearchInv'
    BY <1>1, SwitchStep, SearchInvStep DEF ServedInv
<1>3. ASSUME NEW q \in Queries, QueryStep(q) PROVE ServedInv'
    BY <1>2, <1>3, ServedQuery DEF ServedInv
<1>4. CASE ApproveWithImage \/ ReviseWithImage \/ RequestStep \/ UNCHANGED searchVars
  <2>1. queries' = queries
      BY <1>4 DEF ApproveWithImage, ReviseWithImage, RequestStep, searchVars
  <2>2. doc.active \in Nat /\ doc'.active \in Nat /\ doc.active <= doc'.active
      BY <1>1, ActiveGrows DEF ServedInv
  <2>3. \A q \in Queries : queries[q].version \in Nat
      BY DEF ServedInv, SearchInv, QuerySessions, Versions, None
  <2>4. \A q \in Queries : Served(queries[q])'
      BY <2>1, <2>2, <2>3 DEF ServedInv, Served
  <2> QED BY <1>2, <2>4 DEF ServedInv
<1> QED BY <1>3, <1>4 DEF SearchNext

\* With one index request at a time, an image that is handed out is of the
\* version served, which is complete, or of one replaced since: the version of
\* the request was served when it looked, the image is of that version, and what
\* is served is only ever replaced by a later version (answer_retrieval,
\* get_authorized_evidence_page_image, index_document).
THEOREM ImagesStayOfServedVersions ==
    ASSUME OneIndexer PROVE SearchSpec => []ImagesAreOfServedVersions
<1>1. SearchInit => ServedInv
    BY SwitchInit, SearchInvInit DEF SearchInit, ServedInv, Served, IdleQuery
<1>2. ServedInv => ImagesAreOfServedVersions
  <2> SUFFICES ASSUME ServedInv, NEW q \in Queries, queries[q].shown # None
               PROVE  /\ queries[q].shown <= doc.active
                      /\ queries[q].shown = doc.active => points[queries[q].shown] = "all"
      BY DEF ImagesAreOfServedVersions
  <2>1. queries[q].shown = queries[q].version /\ Served(queries[q])
      BY DEF ServedInv, SearchInv, Sound
  <2>2. queries[q].shown <= doc.active
      BY <2>1 DEF Served
  <2>3. doc.active # None => points[doc.active] = "all"
      BY DEF ServedInv, SwitchInv, ActiveIsComplete
  <2> QED BY <2>2, <2>3
<1>3. ServedInv /\ [SearchNext]_searchVars => ServedInv'
    BY ServedStep
<1> QED BY <1>1, <1>2, <1>3, PTL DEF SearchSpec
=============================================================================
