# KoshShield AI: specifications, model checking and proofs

KoshShield AI is a private assistant for procurement documents. A document is
uploaded and encrypted, its text is extracted and scanned for personal data,
reviewers decide about every finding, the accepted ones are masked, and the
masked text is indexed for search. An agent proposes tool calls on indexed
documents, which somebody else has to approve before they run. All of that is
written to a hash-chained audit log.

This directory holds TLA+ modules of that program, TLC configurations that
check them on small instances, and proofs that TLAPS checks for all values of
the constants. `K` stands for `src/apps/api/src/koshshield`.
`PROJECT.json` maps every definition to the lines it models, and lists the
runs, their properties, the hazards and the theorems.

## 1. Inventory

All state is in one SQL database (SQLite by default, `K/config.py:20`;
`README.md:20` names PostgreSQL for the metadata), in the Qdrant vector store,
and in the vault's files. Requests are served by FastAPI handlers in a thread
pool, each with a session of its own. The sessions are made with
`autoflush=False, expire_on_commit=False` (`K/database/__init__.py`): a query
does not see what its own session has added and not flushed, and a row that was
read keeps its values after a commit until it is refreshed. The unit of work
writes only the columns that differ from what was read, and no table has a
version column the ORM checks. Components share rows; none of them sends
messages to another.

| Component | State | Operations | What is hard | What makes it correct |
|---|---|---|---|---|
| Agent governance (`K/services/agent/`, `K/api/routes/agent.py`) | `agent_runs`, `agent_approvals`; reads `documents` | `propose_action`, `decide_approval`, `execute_action`, `_fail_closed` | row locks that exist on one database only; a tool call outside the transaction; time limit, document version and digest checked at three times; process death | a tool runs once, after an independent approval, in time, for the approved version; run and approval agree; a refused run never runs |
| Audit log (`K/services/audit.py`) | `audit_events` | `append_audit_event`, `verify_audit_chain` | appends inside other transactions that overlap; events of one transaction; timestamps as order | the service never breaks its own chain; a change in place stays detectable |
| Document indexing (`K/services/retrieval/indexing_service.py`, `vector_store/`) | `documents`, `document_chunks`, points in Qdrant | `index_document`, `reconcile_pending_cleanups` | two stores without a common transaction; failure path from a re-read row; overlapping requests; deferred deletion | what is served is complete; generations move forward; stale points can be found |
| Extraction and redaction review (`K/services/redaction.py`) | `documents`, `document_pages`, `redaction_findings`, jobs | `start_document_extraction`, `update_finding_decision`, `accept_all_high_confidence`, `approve_redactions` | rows read by several queries while reviewers write them; except blocks that run after a commit; process death between commits | no document is past its review undecided or unmasked; a decision is not lost; extraction ends |
| Privacy gate and PII detection (`K/services/retrieval/privacy_gate.py`, `K/security/pii/`) | none | `validate_document_for_indexing`, `detect` | what was scanned must be what is indexed | no detectable personal data is served |
| Hybrid search and answering (`K/services/retrieval/hybrid_search.py`, `K/api/routes/retrieval.py`) | none of its own | search, answer, page image | active versions are read before the vector store is asked, twice; a page image is authorised by four reads; the model may cite and say anything | what is served is found; an answer rests on what was found; an image is never of a version that is approved and not served |
| Chunking, masking, page images (`K/services/retrieval/chunking.py`, `image_redaction.py`, `K/services/evidence.py`, `K/security/pii/`) | the pages' masked text and images | choosing findings among matches, replacing them, snippets, chunk windows, painting boxes | overlapping matches, offsets that move, windows that are drawn back, boxes that grow while they are merged, rounding, images that are turned before they are painted | everything matched is covered and nothing else changed; chunks are the page; every pixel of a finding is black |
| Embeddings and provider registry | process-wide singletons | get, override, reset | double-checked locking | one provider, never `None` |
| Deliverables and tool sandbox | none; a container per call | build, run a tool | a timeout against a container that goes on | a deliverable shows what was approved |
| Document vault | encrypted files | store, open | rename before commit | every row names a readable file |
| Schema migration (`K/database/migration.py`, `src/apps/api/alembic/`) | schema, `alembic_version` | `inspect_schema_state`, `bootstrap_and_upgrade`, stamp, upgrade, `check_schema_at_head` | crashes between and within the steps, on SQLite halfway through a revision; two migrations at once; databases of others | a recorded revision is there; what could be migrated still can be; what is refused is untouched; the application runs at head only |
| Smoke harness (`K/smoke.py`) | a report; a scratch database, vault and collection per variant | nine stages per variant, grading, exit code, cleanup | any call fails at any stage; three-valued verdicts are combined | nothing is reported PASSED that was not; nothing is left behind |
| Lifecycle timeline (`K/services/lifecycle.py`) | none | one read of a document's rows | it goes by the status, the search by the active version | what it calls eligible can be found |
| Readiness and preflight, runtime provisioning, procurement evaluation, request context, web interface | none | reads, scripts, headers | none that needs interleavings | (not modelled, see section 8) |

How they interact: extraction, review, approval and indexing change the same
`documents` row and read each other's pages and findings; the agent reads the
document's status and version; search and page images read the active version,
the chunk rows and the vector store while they change; the snippets of the evidence
catalog are cut out of the pages by the offsets of the chunks; every request
appends to the audit log in its own transaction, so that an audit event is
rolled back with the work it tells of.

## 2. Plan

Written, in this order:

1. `ApprovalGate` (abstract) and `AgentGovernance`, which implements it:
   the promise the product is built around.
2. `AuditChain`: the other promise, on which every component depends.
3. `IndexGenerations` (abstract) and `DocumentIndexing`, which implements it.
4. `DocumentLifecycle`: extraction, review, approval and gate over the rows they
   share with the indexing.
5. `RetrievalSearch`, which composes searches, answers and page images with
   `DocumentIndexing`, and `RankFusion`, the order of its results.
6. `PiiText` and `PageImage`, operators on a page's text and image, and
   `PageRedaction`, which takes a page from the matches to the chunks.
7. `SchemaMigration`.
8. `SmokeHarness`.
9. The proofs, each in a module named after the one it is about:
   `AgentGovernanceProofs`, `AuditChainProofs`, `DocumentIndexingProofs`,
   `DocumentLifecycleProofs`, `RetrievalSearchProofs`, `PageRedactionProofs`,
   `SchemaMigrationProofs`, `SmokeHarnessProofs`.

What would come next: the vault (rename against commit, two writers of one
temporary name), the provider registry (double-checked singletons), the
deliverables and the sandbox, the aggregation of readiness, and the agent composed with the
document lifecycle (its document environment is free at present: see section 8).

## 3. Modules and code

**`ApprovalGate`** says what the governance promises of one tool call: it is
authorised before it is started, it is started at most once, and refusal is
final. `phase` and `calls` are its only variables.

**`AgentGovernance`** has the rows of runs and approvals and one session per
handler. `decide_approval` and `execute_action` are each a reading step
(`DecideRead`, `ExecuteRead`: all guards and early returns of the function) and
a committing step that writes from what was read. After the commit of
`EXECUTING` the session is at step `tool`; `ToolCompletes` and `ToolFails`
(a `NOT_EXECUTED` answer or a `ToolRunnerError`) are the commits after it, `HandlerDies` is a process that stops,
or an exception that is not a `ToolRunnerError`. The constant `RowLocks` is
`SELECT ... FOR UPDATE`: PostgreSQL honours it, SQLite compiles it away. The
document's status and version, the clock and the integrity secret change in
steps of the environment (`IndexingStep`, `NewDocumentVersion`, `Tick`,
`RotateSecret`). `toolCalls`, `grants` and `abandoned` are history no action reads.

**`AuditChain`** has the log, the sessions of the requests with the events they
have added and not committed, and the clock. `PreviousHashes` is the query of
`append_audit_event`, `Verified` the loop of `verify_audit_chain`. A hash is the
tuple of what is hashed. `EditEvent`, `RedateEvent` and `RemoveEvent` stand for
whoever changes the table without the service; an event removed at the end
leaves a valid log, so the model does not claim that one is noticed.

**`IndexGenerations`** promises that the generation served is complete and stays
so while it is served, and that generations are replaced by later ones only.

**`DocumentIndexing`** has the document's row, the version of its chunk rows, how
much of each version is in the vector store, and the sessions of index and
cleanup requests. `index_document` is `IndexRead`, `IndexGate`, `IndexUpsert`,
`IndexVerify`, `IndexActivate`, `IndexCleanup`, `IndexClear`, with
`IndexUpsertFails`, `IndexFails` and `IndexCleanupFails` where a call may raise, and
its except block is `IndexRecover` with `IndexKeeps`, `IndexDeletesOrphans` and
`IndexReports`. `reconcile_pending_cleanups` is `ReconcileList` to `ReconcileClear`.
`Commit` writes only what differs from what the session read, as the unit of
work does. `OneIndexer` and `CleanupApart` restrict which requests overlap.

**`DocumentLifecycle`** has the document's row, the pages and findings of each
extraction, and the texts that are served. A text is told by the findings
masked in it: `hidden`. Each of the four kinds of request is a sequence of reads and
one commit per commit in the code; the except blocks (`ExtractReports`,
`IndexReports`) read the row again, as the code does. The indexing's vector store
is left to `DocumentIndexing`. `ExtractionApart` keeps extractions apart from each
other, from approvals and from indexings; decisions overlap with everything.

**`RetrievalSearch`** extends `DocumentIndexing`: its readers run against the very
actions the indexing is made of, and `SearchSpec` is shown to imply `Spec`. A query is a
session: `SearchBegin` reads the active version, `SearchDense` and `SearchSparse`
ask the vector store at different times, `SearchFuse` ranks; an answer goes on
with `AnswerImages` and with `AnswerGenerate`, where the model's output is
whatever a model may say, or with `AnswerFails`. `ImagePoint` to `ImagePage` are
the four reads of `get_authorized_evidence_page_image`. The filter on tenant, document
and version is what `Stored` says of the version; a payload the search
refuses is the hit `Refused`. **`RankFusion`** has reciprocal ranks counted in a `Unit`
all of them divide.

**`PageRedaction`** takes one page through `Detect`, `ApproveText` (or
`ApproveImage`), `ChunkPage` and `NextWindow`, one step per window. A character is known by
where it comes from: `<<i, 0>>` is the i-th of the page, `<<i, k>>` the k-th of the
placeholder of the finding that starts at i; so that a text can say whether anything was
lost, repeated or moved. What the patterns match is free: any spans with any confidences.
**`PiiText`** has `_deduplicate_findings`, the replacement loop, the snippets and
the Verhoeff tables; **`PageImage`** the padding, scaling, merging and painting of
boxes on a raster whose scale is a fraction. An image is the page as it is rendered, or the
image that was uploaded, with one of the eight orientations EXIF knows: `Raster` is what
`ImageOps.exif_transpose` makes of it, `StoredPixel` says where a pixel of that was
stored, and the boxes stay where the OCR of the stored image has seen them, as in the code. The OCR that
reads the painted image again is the obstacle `BLOCKED_RESIDUAL_PII`: it may come, and what it
sees is free.

**`SchemaMigration`** has a database as far as `inspect_schema_state` tells databases apart, and
migrators whose steps are the transactions of `bootstrap_and_upgrade` and of
`env.py`. With `relativeUrl`, which is
chosen in the beginning, there are two databases: `db`, which `env.py` stamps and upgrades after
resolving the URL against `apps/`, and `opened`, which `bootstrap_and_upgrade` inspects
and the application opens after resolving it against the directory it is started in (`Opened`).
Nothing of the code writes `opened`. `backend` decides how much of an upgrade commits early. `fit`,
`overlapped` and `cutShort` are history: whether the database could be migrated
at the beginning, and whether one of the two things has happened after which it cannot be promised.

**`SmokeHarness`** takes the variants through the stages of `run_smoke`; every call has
all its outcomes. `probes` (the ground truth) and `client` (what
`generate_grounded_answer` returns) are inputs, because the harness cannot pass
with this program's client, and the report has to be right for either.

**`MC...`** modules give the constants their values.

## 4. Runs

| Run | Configuration | What is checked | Result |
|---|---|---|---|
| agent_locked | `AgentGovernance.cfg` | with row locks: types, one call, authorised calls, agreement of the rows, reviewer on record, the approval table, doomed runs, `ApprovalGate`, resolution | holds |
| agent_double_execution | `AgentGovernanceDoubleExecution.cfg` | one call, without row locks | violated |
| audit_serial | `AuditChain.cfg` | the chain verifies, modifications are detected; one event per request, requests of a tenant one after the other | holds |
| audit_overlap | `AuditChainOverlap.cfg` | verification fails exactly on forks and ties | holds |
| audit_two_events | `AuditChainTwoEvents.cfg` | the chain verifies, with requests of two events | violated |
| indexing_serial | `DocumentIndexing.cfg` | types, completeness, no served document is failed, `IndexGenerations`, a document left `INDEXING` is freed | holds |
| indexing_overlap | `DocumentIndexingOverlap.cfg` | completeness with two overlapping index requests | violated |
| lifecycle | `DocumentLifecycle.cfg` | types, served text is scanned text, ready means decided, extraction ends | holds |
| search | `RetrievalSearch.cfg` | a search misses nothing of the version it asks for while that is served, the order respects both lists, answers are grounded, images are never of a version approved and not served, eligible documents are searchable, stale points are marked | holds |
| text | `PageRedaction.cfg` | findings cover the matches and snippets show none of them, the masked text is exactly the page with its findings replaced, chunks are the page, placeholders survive the windows, images painted as they are stored are black where they have to be, the checksum detects what it should | holds |
| migration | `SchemaMigration.cfg` | the application runs at head only, what could be migrated still can be, recorded revisions are there, refused databases are untouched, migration succeeds in the end; with a relative URL only the first of these | holds |
| smoke | `SmokeHarness.cfg` | reports are truthful, collections are removed | holds |

Disagreements between the code and what its documents, comments or tests say of it.
The first three are shown by a run that is violated:

1. **Two executors start a tool twice on SQLite** (agent_double_execution). Nothing but
   `FOR UPDATE` keeps them apart; the UPDATE has no condition on the run's version.
   `docs/agent_governance_workflow.md:93` promises a 409.
2. **A request that appends two events breaks the chain** (audit_two_events). The second append
   does not see the first, so both have the same predecessor. Every proposal and every
   successful indexing does this, with nothing else going on.
3. **A failing index request deletes the generation another one has just
   activated** (indexing_overlap), because it decides by a row it read before. The document is
   `INDEXED` with no points.
The others were met while modelling. No run is dedicated to them; a definition that no run checks
states what is promised, or a history variable, an input or a precondition of the model has what
the code does:

4. **A cleanup clears the marker of a reindexing that overlapped with it**; when
   that one's own deletion fails, stale points are unmarked. `FailuresPreserveTheMarker` is the
   promise; `CleanupApart` keeps the two apart in what is checked.
5. **Two reviewers who have seen the same version of a finding both decide**;
   the later commit replaces the earlier decision at the same version. `DecisionsAreLocked` is the promise.
6. **Two extractions that have read `ENCRYPTED` both go on.** The later
   one may replace the findings between the check and the commit of an approval: the document is
   `INDEX_READY` with findings nobody has decided about. `ExtractionApart` excludes it.
7. **A request to index a document that is not ready makes it `INDEX_FAILED`**,
   from whatever state it is in. `VALID_DOCUMENT_TRANSITIONS` does not have that
   transition (`StatusesFollowTheTable`), and no request leads on from `INDEX_FAILED`.
8. **Alembic and the application resolve the default relative SQLite URL against different
   directories**, so that `make migrate` upgrades another file, however often it is run.
   `relativeUrl` has it: the run explores it, and every property of the migration but
   `ServingIsAtHead` excuses it, since without that excuse each of them is violated.
9. **An uploaded image is turned by its orientation before it is painted, and the boxes of
   its findings are not**: the rectangles are not over the findings. The OCR that reads
   the result again is all that may still stop the image; what it overlooks is approved.
   `FindingsAreBlack` is the promise, and `ImageIsSafe` what is left of it.
10. **An upgrade that ends halfway on SQLite cannot be repeated.** SQLite commits the
    first changes of the schema on their own; an upgrade that dies in 0003, or that 0004 refuses
    because of duplicates, leaves columns the next upgrade trips over, and the advice
    is to run it again. `cutShort` is the history of it.
11. **Two migrations of a database from before Alembic that overlap can set its row back
    to 0001 over a schema at head**, which is refused from then on. `overlapped` is the
    history of it.
12. **The placeholders the masking inserts are not the ones the chunker protects**:
    `[AADHAAR_REDACTED]` against `[REDACTED_...]`. They are cut like other text;
    `PlaceholdersAreWholeSomewhere` is what is left of the promise.
13. **The evidence catalog cuts snippets out of the stored text by offsets of the stripped text.**
    `CatalogShowsTheChunks` is stated for pages that do not begin with blanks.
14. **The smoke harness reads attributes of a dict**, and reports every answer
    `ANSWERING_FAILED`; and it hands the evidence over under a key the client does not
    read. `client` and `Earned` have the first.
15. **Every visual probe of the harness is `NOT_EXECUTED`**, because the image is decrypted
    by another name than it was encrypted by. `probes` has it.
16. **A collection whose payload indexes cannot be made stays behind**, as it is not yet on
    record as created. `excused` has it.

## 5. Bounds, and why they are enough

* Agent: one run and two handlers. Runs share nothing but documents, and what
  goes wrong between handlers goes wrong between two (a reader and a
  committer). Two tenants with a user who has every role, so that separation
  of duties and of tenants can fail; `Ttl` 1 and `MaxTime` 2 let a run expire before,
  between and after the checks; two versions and two secrets make a document
  stale and a digest wrong. The theorems are for any numbers.
* Audit: two tenants and two writers, five events (four where they overlap): a
  migrated event, two events on either side of a modified one.
* Indexing: three versions (one served, one that replaces it, one more while a
  cleanup is pending), two index requests, one cleanup, two deaths: a death on the
  way, and another in the recovery from it.
* Lifecycle: two requests in flight, two extractions (one that fails after its
  commit and the one that replaces its rows), one finding, decided up to two
  times, one death. What one finding shows, the others repeat:
  no step treats a finding differently because of another one.
* Search: one query against one index request, one cleanup and two deaths, with three
  versions as above: the query reads while generations are added,
  switched and removed, and a second query would only read as well. Two
  chunks and a hit that is refused give every order of two lists, with ties, and answers that are cut
  off (`MaxTopK` 2).
* Text: a page of seven characters with up to three matches (a match can
  overlap two that do not overlap each other), up to two accepted (one moves the
  offsets of the other), placeholders shorter, as long and longer than what they
  replace; windows of six with an overlap of two, so that a page of up to
  nine characters has several, with up to two blanks anywhere (or only blanks), and a protected
  text of up to two characters. Pages of 3 by 2 points, rendered on a raster of 4 by 3 pixels,
  which makes rounding matter, or uploaded as an image in each of the eight orientations, of which
  four change width and height; with up to three boxes: a box that grows can
  touch one that was passed. The text and its image are separate behaviours, since neither
  reads the other.
* Migration: two migrators, two crashes, both backends, and every database
  `Init` lists: one crash for each half of a migration, or one of each migrator. A database that has
  drifted is one with tables of others, or with the first change of the revision after
  the last it has in full (`partial`); one with some later column alone is not among them. On SQLite with one URL
  and with a relative one, and then every pair of databases. About 700,000 states.
* The violated runs have the smallest instance that shows what they are for.
* Smoke: two variants and two questions: a variant that fails before or after
  one that passes, a question that fails or is skipped before or after
  one that is answered. About 6.4 million states.
* Symmetry is used for the writers of the audit log only, in runs without
  liveness.
* Deadlock is not checked (except in `migration`, where somebody can always run another one): a
  finished run, a full log, a document that failed for good, a page that is
  chunked or a report that is printed is a state the system does stop in.

## 6. Fairness

Weak fairness is assumed of a handler that has begun: FastAPI runs it to its end
in the thread pool, calls to the tool and to the vector store have timeouts, and
an error takes the except block. It is not assumed of a death, of a new request
or of a step of the environment. `FairSpec` of `AgentGovernance` and of
`DocumentLifecycle` assume just that; their liveness properties excuse a request
that died, since nothing in the code picks up what it left. `RetriedSpec` of
`DocumentIndexing` assumes in addition that somebody asks again to index a
document that is not served as it is: the property is then that the retry frees
a document left `INDEXING`, which is not obvious, as `INDEXING` has no transition to
itself and the retry can only fail. `RetriedSpec` of `SchemaMigration` assumes that a
migration that runs goes on, that as long as the application has not started somebody runs
`make migrate` again and resolves the duplicates it complains about, and that the application
is started when it can be; deaths stay possible, so the property is that all of this
leads somewhere unless disagreement 8, 10 or 11 of section 4 is in the way. `PageRedaction`
assumes that the loop over the windows goes on; no property there needs it.

## 7. What is proved

The proof modules prove, for every value of the constants that the named assumptions
admit:

| Theorem | Assumes | Along which invariant |
|---|---|---|
| `AgentGovernanceProofs!TypeInvariant` | | `TypeOK` is inductive |
| `IndependentApproval` | | `GrantInv` |
| `ToolRunsOnce`, `RecordsAgree`, `ReviewerApproved`, `TableIsFollowed`, `GateIsImplemented` | `RowLocks` | `LockInv` |
| `DoomedStayOut` | `RowLocks` | `LockInv` and `VersionInv` |
| `GateKeepsItsPromise` (of `ApprovalGate`) | | `PromiseInv` |
| `EndedRunsStayEnded` | `RowLocks` | `PromiseInv`, by `GateIsImplemented`'s steps |
| `AuditChainProofs!ChainIsValid`, `ModificationsAreDetected` | `OneEventAtATime` | `ChainInv` |
| `OnlyForksAndTies`, `ForksAndTiesStay` | | `HistoryInv` |
| `DocumentIndexingProofs!TypeInvariant` | | `TypeOK` is inductive |
| `ActiveStaysComplete`, `ServedIsNotFailed`, `GenerationsAreSwitched` | `OneIndexer` | `SwitchInv` |
| `StaleStaysMarked` | `OneIndexer`, `CleanupApart` | `MarkInv` |
| `GenerationsKeepThePromise` (of `IndexGenerations`) | | `PromiseInv` |
| `ServedOnlyMovesOn` | `OneIndexer` | `PromiseInv`, by `GenerationsAreSwitched`'s steps |
| `DocumentLifecycleProofs!TypeInvariant` | | `TypeOK` is inductive |
| `ServedIsScanned` | | `ScanInv` |
| `ReadyIsReviewed` | `ExtractionApart` | `ReviewInv` |
| `RetrievalSearchProofs!SearchesOnlyRead` | | every step of `SearchNext` is one of `Next` or leaves `vars` alone |
| `EligibleStaysSearchable` | `OneIndexer`, `CleanupApart` | `MarkInv`, by `SearchesOnlyRead` |
| `SearchTypeInvariant`, `AnswersStayGrounded` | | `SearchInv` |
| `ImagesStayOfServedVersions` | `OneIndexer` | `ServedInv` |
| `RankingStaysRespectful` | | `SearchInv`, and the lemmas on `RankFusion` |
| `SearchesMissNothing` | `OneIndexer` | `CompleteInv` |
| `SchemaMigrationProofs!TypeInvariant` | | `TypeOK` is inductive |
| `ServedAtHead` | | it is inductive |
| `RecordedStaysBuilt`, `RefusedStaysUntouched`, `NothingStaysStranded` | (the properties say `~relativeUrl`) | one invariant each, see below |
| `SmokeHarnessProofs!ReportsStayTruthful`, `CollectionsGetRemoved` | | `SmokeInv` |
| `SmokeHarnessProofs!TypeInvariant` | | `SmokeInv` and `PlaceInv` |
| `PageRedactionProofs!MatchesAreCovered` | | induction on the set of matches |
| `TextStaysExactlyMasked`, `FindingsStaySafe` | | `MaskInv` |
| `ChunksStayFaithful` | | `WindowInv` |
| `TokensStayWhole` | `Placeholder <= OverlapChars` | `WindowInv` |
| `WindowsMoveOn` | | `WindowInv` |
| `PageRedactionProofs!TypeInvariant` | | `WindowInv` and `ShapeInv` |
| `MergedAreApart`, `ImagesStaySafe` | | induction on the passes of the merging |
| `OneWrongDigitShows`, `SwappedNeighboursShow`, `CheckDigitIsRight`, `ChecksumsAlwaysDetect` | | induction on the digits |

* `GrantInv` carries the approval from the decision to the call: a session that is
  about to commit an approval belongs to an approver of the tenant who is not the
  requester, and a run that is approved, or being executed by somebody, has such a
  grant. None of this needs a lock, because it only ever looks back at
  commits that have happened; so independence of the approval holds on SQLite
  too, and multiplicity does not.
* `LockInv` adds that at most one session has a run between its read and its
  commit, that what it read is still what the rows say, and that the number of
  calls is told by the status. `RunMatchesApproval` alone is not inductive: the
  commit writes from what was read, so the invariant has to say that the
  read is current.
* `VersionInv` bounds the version a run is bound to by the document's version: a
  document that has moved on never comes back.
* The abstract specifications have a `PromiseInv` each, which says what they are for: a tool's
  calls are told by the run's phase, and the generation served is complete.
  As every step of the handlers is one of theirs, what holds of their steps holds of
  the code: an ended run stays ended, and a version served gives way to later ones only.
* `HistoryInv` drops the restriction `OneEventAtATime` of `ChainInv`, and says what is left:
  every event, committed or not, names an event that was committed before it and is in its
  tenant's log for good, and no two have one id. Nothing of it says where the new
  one stands in the order of times, which is what overlapping requests get wrong. That a log without forks and
  ties is accepted follows from the event of the least time whose predecessor in
  the order is not the one it names; a log with either is rejected, because of two events
  that name the same one only one can stand behind it. The clock of this theorem may stand still
  for as long as it likes; it does not go back.
* `ChainInv` says that committed and pending events are linked to the event before
  them, that ids and times are below the next ones, and, after a modification, that some
  event stays broken whatever is appended: an append adds an
  event after all others, and never repairs one.
* `SwitchInv` says for every step of an index request what the vector store holds of
  its target and of the active version, that the request's copy of the row is
  current as far as it will write it, and that a cleanup holds an active version no
  newer than the present one. `ActiveIsComplete` alone says nothing of the moment
  between verification and activation, where a failure would break it.
* `MarkInv` adds that nothing older than the active version is stored unless
  it is marked or the session at work is about to mark or delete it.
* `ScanInv` says of a request between the gate and the activation that the text it
  holds is clean: it is the request's own copy, so nobody can change it, which is
  why this theorem needs no assumption on what overlaps. (The mutant that reads
  the pages again after the gate's commit is what
  `expire_on_commit=True` would do.)
* `ReviewInv` adds to `ReadyMeansDecided` what each request has found out by the step it
  is at: an approval, that nothing is undecided and which pages there are; an
  indexing past the gate, that the document was reviewed; a failed indexing of a
  document with an active version, likewise. An extraction can invalidate all of
  them, which is what `ExtractionApart` excludes.

* `SearchInv` says of every query what it can know at its step: that a list it holds has no
  chunk twice, that what it has found, cited and shown fits together. None of it
  mentions the indexing, which is why these theorems need no assumption on what overlaps.
  `CompleteInv` relates the two: as long as the version a query asks for is the
  active one, it has been complete since the query began, because versions are
  only ever replaced by later ones; so what the query has been told by the vector store was all of it.
  `ServedInv` adds to `SwitchInv` and `SearchInv` that the version of a query, once it was seen to be served, is no
  later than the active one: approvals make images of later versions meanwhile, and only the steps of the
  indexing move the active version, forward. An index request that overlaps with another one could take it back,
  hence `OneIndexer`.
* The lemmas on `RankFusion` (`IncrementFalls`, `HigherScores`, `HigherIsSeenFirst`,
  `TopIsFull`) say that a better rank in either list gives a higher score, that the
  first time a chunk is seen is no later, and that the answer is as long as it can be.
* `SchemaMigration`: what a migrator that has been told to insert, stamp or upgrade may still
  find is different after another one has run. `RecordedStaysBuilt` needs that the tables a migrator is about
  to record are there, which no other migrator takes away; `RefusedStaysUntouched`
  that a migrator on a database that cannot be migrated never gets as far as a
  write; `NothingStaysStranded`, in addition, what the
  database looks like at every step of the only migrator there is.
* `SmokeInv` splits what is on record of a variant into what its stages have done
  (`Kept`), what was seen (`Shown`), what was told (`Told`, `Reported`) and what was
  created (`Accounted`), and says it of the variants before, at and after the present one.
* `MaskInv` says that the findings of a page are apart and, once approved, that the
  text is `MaskedAs` they say. `MaskedAs` is what makes the replacement loop inductive: what comes
  before the first finding that was replaced is the page still, character by
  character, so the next replacement hits what it was found at; and every placeholder that is
  there has moved by what the ones before it have added (`Placed`, `FirstMoves`).
  The recursion over sets of findings is taken apart by `SubsetsGrow`, which is
  proved from the least number of a set of naturals: a family of subsets that has every
  subset all of whose smaller ones it has, has them all; and `SubsetsFold` says that the
  recursive functions of `PiiText` exist.
* `WindowInv` goes on from `MaskInv`: the masked text is `Laid`, that is, the text that looks
  like `[REDACTED_*]` to the chunker is one piece of at most `MaxToken` characters (a page of
  the model has at most one), and the placeholders the masking puts in (`[*_REDACTED]`, which
  the chunker does not know) are all there. Every window fits the page and does not cut
  the piece the chunker knows (`AllFit`); each adds characters to those before it (`Adds`); and
  what lies before the next start is `Covered`: its characters are in some window, and the
  placeholders beginning there are whole in one. `Underway` adds that the next start is behind
  the starts of all windows, and before the end of none of them by more than the overlap.
  It takes `SizesAssumption`: a window that is not the last is longer than the overlap,
  however far its end is drawn back. A placeholder that is no longer than the overlap
  and begins before the next start is whole in a window; for longer ones nothing is promised.
* `ShapeInv` and `PlaceInv` add to `WindowInv` and `SmokeInv` where the page and the harness are, which
  no other theorem needs.
* The merging of boxes is a loop that ends a pass when nothing has changed, and the model makes
  as many passes as there are boxes. `PassKeeps` says why that is enough: a pass covers all boxes the
  one before it has covered, and leaves either fewer of them or ones that are apart, which no later
  pass changes. `PaddedCovers` and `ShownIsPainted` take the boxes to pixels: the lower edge is rounded down and
  the upper edge up (`FloorBelow`, `CeilingAbove`), so no pixel that shows a part of a box is left out.
  That takes `ImageAssumption`: the sizes of page and raster are positive. `ImagesStaySafe` says it of images that
  are painted as they are stored; of an image that is turned it says only that the rectangles do not touch.
* The checksum is a product in the group the table `D` stands for: `Product` has inverses and is
  associative, so that what differs after one digit differs after all that follow (`DifferenceStays`),
  and each row of the table `P` is a permutation (`RowsPermute`) that treats two neighbours
  differently (`NeighboursDiffer`). The tables are checked entry by entry; numbers are of any length.
* Loops are recursive functions on sequences. The induction theorems of
  the library are out of reach (they take an operator); `CountingUp` and `CountedUp`, proved from the
  least number of a set of naturals, stand in for them: a set of naturals that has 0 and each next number
  has all of them, and a function that is defined by counting up exists.

The assumptions are the restrictions under which the promise holds, and the
violated runs show of three that they are needed: `RowLocks` (agent_double_execution),
`OneEventAtATime` (audit_two_events) and `OneIndexer` (indexing_overlap). `CleanupApart` is needed
because of disagreement 4, `ExtractionApart` because of 6. The theorems on the migration assume
nothing of the constants; their properties say `~relativeUrl` (disagreement 8), because with two
files, what is inspected says nothing of what is stamped and upgraded.

Only model-checked: the four liveness properties (`CallsAreResolved`,
`IndexingEnds`, `ExtractionEnds`, `MigratedInTheEnd`), which the prover has no means
for. Every invariant and every action property that a run checks is a theorem, under the
assumptions of the table.

## 8. What the models leave out

* Agent: the rules of the policy engine and the argument schemas count by
  their verdict. Where a document's version comes from is free: any INDEXED
  document may leave that state and come back with a later version. It is not free to come back with an
  earlier one: two extractions that overlap may write one (disagreement 6), and what `DoomedRunsNeverStart` says then
  is not explored. The foreign key from
  `audit_events.resource_id` to `documents.id`, which the agent's events do not satisfy,
  counts as not enforced (SQLite does not).
* Audit: lists of events are reads. That cutting off the end of a log is not
  noticed is told here and not claimed. An event of the first version of the hash does
  not hash its tenant, so one that is moved to another tenant is noticed by its place
  in the chain only; the model moves events in time, not between tenants.
* Indexing: chunk texts, vectors and batches. `Revise`, a new version of an
  indexed document, is how the tests make one
  (`apps/api/tests/test_reindexing_safety.py:70-75`): no request of the
  service does so one after the other. A write that reaches the vector store after its
  request has given up is not modelled.
* Lifecycle: job rows, visual regions and page images. A decision made after the
  approval is accepted by the code, changes the record and not the masked text; nothing
  promises otherwise, and no property covers it. The models have the
  dead end at `INDEX_FAILED` (disagreement 7), and `SearchableIsNotFailed` bounds it to documents that were never served.
  Two extractions that overlap can also take an indexed document back to its review, and to an earlier version:
  `ExtractionApart` excludes that in the run lifecycle; disagreement 6 is one
  thing they can do.
* Search: which points share words or meaning with a query; other tenants and documents (the filter's
  conditions are on the point a search may get, and a refused payload is `Refused`). A search whose version is
  replaced while it asks the vector store may find less or nothing: `SearchMissesNothing` excuses that, and
  nothing in the code prevents it.
  The branches for `SSRF_BLOCKED` and `MODEL_ERROR` of an answer are not in the model: the client raises
  the first in its constructor, before the request has begun, and nothing
  raises the second. An error of the search inside `answer_retrieval` is not mapped and leaves
  the request with a 500 (`SearchFails`). At most two images go to the model;
  one page cannot reach that. The timeline says "not eligible" of a document that is
  served while it is indexed again: only the other direction is claimed.
* Text and images: the approval's OCR of a painted image finds whatever it finds. What the library
  makes of a rotated page of a PDF is not in the model. All placeholders have one length. Several findings of one page with one value get the box
  of the first block that contains it (`ocr` provides no more), a rejected finding's text makes an image
  `BLOCKED_RESIDUAL_PII`, and the caption path (`K/services/retrieval/visuals.py`) reads an attribute findings
  do not have: these are properties of the data, which the model does not have.
  The four kinds of places the chunker prefers are two here, tried in the same order.
* Migration: downgrades, which nothing calls. `ServedAtHead` holds for either URL; the other properties are
  claimed where the database inspected is the one upgraded (`~relativeUrl`), and nothing is claimed of a relative URL.
  The two files are unrelated in the beginning; a migration and an application started from `apps/` have one. Revisions count by what they add, and the
  contract by which of them it finds complete.
* Smoke: what the stages do is in the other modules; here it passes, fails, or shows
  personal data. `check_llama_cpp` of the preflight (`K/runtime_preflight.py`) reads attributes of a dict, like
  the harness; `BLOCKED_OCR_UNAVAILABLE` outweighs other reasons an image is blocked for.
* Audit events of the other components are left to `AuditChain`.
* Not modelled at all: the vault, the provider registry, deliverables and the tool sandbox (section 2: single
  reads, pure functions and double-checked singletons; the vault's renames are the ones worth a
  model); readiness and preflight, which are reads; provisioning, the
  evaluation of procurement cases, request context and web interface, which keep no
  state of the system.

## 9. Running it

    tlc -config DocumentIndexing.cfg MCDocumentIndexing
    tlc -config RetrievalSearch.cfg MCRetrievalSearch
    tlapm DocumentIndexingProofs.tla

Operators whose comment begins with "Fault" are plausible bugs of the code, each of
which breaks the property `PROJECT.json` names for it when it takes the place of
the definition beside it.
