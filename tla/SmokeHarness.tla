---------------------------- MODULE SmokeHarness ----------------------------
(***************************************************************************)
(* `make smoke-local` (smoke.py): every variant of a synthetic document is *)
(* taken through the program, from the vault to answers that are graded,   *)
(* with a database, a vault and a collection of its own, and the report    *)
(* says which of nine stages passed.  Any call may fail at any stage; most *)
(* failures end the variant, and what it has created is removed at the end *)
(* of each.                                                                *)
(*                                                                         *)
(* The ground truth is an input: which questions are put with a page image *)
(* (evaluation/visuals.py).  So is what the client's                       *)
(* generate_grounded_answer returns: a dict in this program, an object     *)
(* with attributes in what the harness was written for.                    *)
(***************************************************************************)
EXTENDS Naturals, FiniteSets

CONSTANTS
    VariantCount,       \* len(input_variants)
    QuestionCount       \* len(questions)

ASSUME CountsAssumption == {VariantCount, QuestionCount} \subseteq Nat \ {0}

Variants == 1..VariantCount
Questions == 1..QuestionCount

VARIABLES
    probes, client,     \* the ground truth's, and what the client returns
    step, variant, question,
    runs,               \* what is on record of each variant, and what was so
    collections,        \* the variants that have a collection in the vector store
    exit                \* of the process, None while it runs

vars == <<probes, client, step, variant, question, runs, collections, exit>>

None == "none"
Stages == {"vault_ingestion", "extraction", "pii_review", "masked_text_verification",
           "visual_derivative_verification", "embedding_and_indexing", "retrieval",
           "grounded_answering", "answer_validation"}
Statuses == {"PASSED", "FAILED", "NOT_EXECUTED"}
Providers == {"bge_m3", "qdrant", "ocr", "llama_cpp"}

\* pages: what the approved text has, a leak of synthetic personal data or not;
\* visuals: the visual_privacy_status of the pages that have an image; leaks:
\* where else personal data was found; created: created_qdrant_collection;
\* excused: the collection could not be completed, or not be deleted.
NoRun ==
    [stages |-> [s \in Stages |-> None], checks |-> [q \in Questions |-> None],
     clean |-> None, executed |-> {}, created |-> FALSE, status |-> None,
     pages |-> None, visuals |-> {}, leaks |-> {}, excused |-> FALSE]

Init ==
    /\ probes \in SUBSET Questions
    /\ client \in {"dict", "object"}
    /\ step = "start" /\ variant = 1 /\ question = 1
    /\ runs = [v \in Variants |-> NoRun]
    /\ collections = {}
    /\ exit = None

Run == runs[variant]
Recorded(stage, status) == [Run.stages EXCEPT ![stage] = status]
Update(run) == runs' = [runs EXCEPT ![variant] = run]
Same == UNCHANGED <<probes, client, variant, exit>>
-----------------------------------------------------------------------------
(* _compile_variant_report *)

\* Stages that are not on record were not executed.
Marked(stages) == [s \in Stages |-> IF stages[s] = None THEN "NOT_EXECUTED" ELSE stages[s]]

Validated(stages, checks) ==
    IF stages["answer_validation"] = "PASSED" /\ \E q \in Questions : checks[q] # "PASSED"
    THEN [stages EXCEPT !["answer_validation"] = "FAILED"] ELSE stages

VariantStatus(stages) ==
    CASE \E s \in Stages : stages[s] = "FAILED" -> "FAILED"
      [] \A s \in Stages : stages[s] = "PASSED" -> "PASSED"
      [] OTHER -> "NOT_EXECUTED"

Compiled(run) ==
    LET stages == Validated(Marked(run.stages), run.checks)
    IN  [run EXCEPT !.stages = stages, !.status = VariantStatus(stages)]

\* The run goes on after the stage, or ends with it; cleanup comes in either case.
GoesOn(next, run) == step' = next /\ Update(run)
Returns(run) == step' = "cleanup" /\ Update(Compiled(run))
-----------------------------------------------------------------------------
\* The fixtures and the ground truth are read and checked.
LoadFixtures ==
    /\ step = "start"
    /\ \/ step' = "setup" /\ exit' = exit
       \/ step' = "end" /\ exit' = "1"          \* _failed_smoke_report
    /\ UNCHANGED <<probes, client, variant, question, runs, collections>>

\* Scratch database, vault and clients; what raises here leaves no report.
Setup ==
    /\ step = "setup"
    /\ step' \in {"vault_ingestion", "raised"}
    /\ UNCHANGED <<probes, client, variant, question, runs, collections, exit>>

\* A stage that either passes or fails.
SimpleStage(stage, next) ==
    /\ step = stage
    /\ \/ GoesOn(next, [Run EXCEPT !.stages = Recorded(stage, "PASSED")])
       \/ Returns([Run EXCEPT !.stages = Recorded(stage, "FAILED")])
    /\ Same /\ UNCHANGED <<question, collections>>

Ingest == SimpleStage("vault_ingestion", "extraction")
Review == SimpleStage("pii_review", "masked_text_verification")
Retrieve == SimpleStage("retrieval", "capability")

\* OCR that is not there is no failure.
Extract ==
    /\ step = "extraction"
    /\ \/ \E executed \in SUBSET {"ocr"} :
            GoesOn("pii_review", [Run EXCEPT !.stages = Recorded("extraction", "PASSED"),
                                             !.executed = @ \union executed])
       \/ \E status \in {"NOT_EXECUTED", "FAILED"} :
            Returns([Run EXCEPT !.stages = Recorded("extraction", status)])
    /\ Same /\ UNCHANGED <<question, collections>>

\* What is approved may still have personal data, in a page or the audit log.
VerifyText ==
    LET stage == "masked_text_verification" IN
    /\ step = stage
    /\ \/ \E visuals \in SUBSET {"APPROVED", "BLOCKED_OCR_UNAVAILABLE", "BLOCKED"} :
            GoesOn("visual_derivative_verification",
                   [Run EXCEPT !.stages = Recorded(stage, "PASSED"), !.clean = "clean",
                               !.pages = "clean", !.visuals = visuals])
       \/ Returns([Run EXCEPT !.stages = Recorded(stage, "FAILED"), !.clean = "leaked",
                              !.pages = "leaking", !.leaks = {"pages"}])
       \/ Returns([Run EXCEPT !.stages = Recorded(stage, "FAILED")])
    /\ Same /\ UNCHANGED <<question, collections>>

\* Fault: an image that could not be verified does not count.
VisualStatusLenient(visuals) ==
    IF "BLOCKED" \in visuals THEN "FAILED" ELSE "PASSED"

\* A page without OCR outweighs one that is blocked for another reason.
VisualStatus(visuals) ==
    CASE visuals \subseteq {"APPROVED"} -> "PASSED"
      [] "BLOCKED_OCR_UNAVAILABLE" \in visuals -> "NOT_EXECUTED"
      [] OTHER -> "FAILED"

\* The stage does not end the run, whatever it comes to; reading the pages may
\* fail.
VerifyVisuals ==
    LET stage == "visual_derivative_verification"
        seen == IF "APPROVED" \in Run.visuals THEN {"ocr"} ELSE {} IN
    /\ step = stage
    /\ \/ GoesOn("embedding_and_indexing",
              [Run EXCEPT !.stages = Recorded(stage, VisualStatus(Run.visuals)),
                          !.executed = @ \union seen])
       \/ GoesOn("embedding_and_indexing", [Run EXCEPT !.stages = Recorded(stage, "FAILED")])
    /\ Same /\ UNCHANGED <<question, collections>>

\* Fault: created_qdrant_collection is only set once the index is filled.
CreatedOnEnsureLate == FALSE

\* created_qdrant_collection is set as soon as the collection is complete.
CreatedOnEnsure == TRUE

\* The embedding model or the vector store is not there; or ensure_collection,
\* which creates the collection and then its payload indexes, gives up before
\* the first or after it.
EnsureCollection ==
    LET stage == "embedding_and_indexing" IN
    /\ step = stage
    /\ \/ /\ \E status \in {"NOT_EXECUTED", "FAILED"} :
               Returns([Run EXCEPT !.stages = Recorded(stage, status)])
          /\ UNCHANGED collections
       \/ /\ Returns([Run EXCEPT !.stages = Recorded(stage, "FAILED"), !.excused = TRUE])
          /\ collections' = collections \union {variant}
       \/ /\ GoesOn("index", [Run EXCEPT !.created = CreatedOnEnsure])
          /\ collections' = collections \union {variant}
    /\ Same /\ UNCHANGED question

IndexVariant ==
    LET stage == "embedding_and_indexing" IN
    /\ step = "index"
    /\ \/ GoesOn("retrieval", [Run EXCEPT !.stages = Recorded(stage, "PASSED"), !.created = TRUE,
                                          !.executed = @ \union {"bge_m3", "qdrant"}])
       \/ Returns([Run EXCEPT !.stages = Recorded(stage, "FAILED")])
    /\ Same /\ UNCHANGED <<question, collections>>

\* check_health_and_capability
CheckCapability ==
    /\ step = "capability"
    /\ \/ GoesOn("questions", Run)
       \/ \E status \in {"NOT_EXECUTED", "FAILED"} :
            Returns([Run EXCEPT !.stages = Recorded("grounded_answering", status)])
    /\ question' = 1
    /\ Same /\ UNCHANGED collections
-----------------------------------------------------------------------------
(* The questions, one after the other *)

AnsweringFailed(run) ==
    [run EXCEPT !.stages = [@ EXCEPT !["grounded_answering"] = "FAILED",
                                     !["answer_validation"] = "FAILED"]]

\* prepare_model_evidence refuses what was found, the model does not answer, or
\* what it is to be shown has personal data.
QuestionFails ==
    /\ step = "questions" /\ question \in Questions
    /\ \/ Returns(AnsweringFailed(Run))
       \/ Returns(AnsweringFailed([Run EXCEPT !.clean = "leaked", !.leaks = @ \union {"context"}]))
    /\ Same /\ UNCHANGED <<question, collections>>

Checked(run, status) == [run EXCEPT !.checks[question] = status]

\* load_probe_images finds no evidence of the page, or no approved image; and
\* the one it finds it decrypts by another name than it was encrypted by.
ProbeIsNotExecuted ==
    /\ step = "questions" /\ question \in probes
    /\ GoesOn("questions", Checked(Run, "NOT_EXECUTED"))
    /\ question' = question + 1
    /\ Same /\ UNCHANGED collections

\* Whether check_citations, insufficient_evidence and numeric_facts_present are
\* content.
QuestionPassed(matched, clean) == matched /\ clean = "clean"

\* The answer is graded; one that is a dict has no attributes, which the harness
\* only notices after it has counted the provider as executed.
AnswerIsGraded ==
    /\ step = "questions" /\ question \in Questions \ probes
    /\ LET asked == [Run EXCEPT !.executed = @ \union {"llama_cpp"}] IN
       IF client = "dict" THEN Returns(AnsweringFailed(asked)) /\ UNCHANGED question
       ELSE \E matched, leaking \in BOOLEAN :
              LET clean == IF leaking THEN "leaked" ELSE Run.clean
                  status == IF QuestionPassed(matched, clean) THEN "PASSED" ELSE "FAILED"
              IN  /\ GoesOn("questions",
                       Checked([asked EXCEPT !.clean = clean,
                                  !.leaks = @ \union (IF leaking THEN {"answer"} ELSE {})], status))
                  /\ question' = question + 1
    /\ Same /\ UNCHANGED collections

\* answer_validation: passed, failed or not executed like its questions.
Grading(checks) ==
    CASE \A q \in Questions : checks[q] = "PASSED" -> "PASSED"
      [] \E q \in Questions : checks[q] = "FAILED" -> "FAILED"
      [] OTHER -> "NOT_EXECUTED"

QuestionsEnd ==
    /\ step = "questions" /\ question > QuestionCount
    /\ LET skipped == \E q \in Questions : Run.checks[q] = "NOT_EXECUTED" IN
       Returns([Run EXCEPT !.stages =
                  [@ EXCEPT !["grounded_answering"] = IF skipped THEN "NOT_EXECUTED" ELSE "PASSED",
                            !["answer_validation"] = Grading(Run.checks)]])
    /\ Same /\ UNCHANGED <<question, collections>>
-----------------------------------------------------------------------------
(* finally, and run_smoke *)

\* main returns 0 for a report in which every stage of every variant passed.
ExitCode == IF \A v \in Variants : runs'[v].status = "PASSED" THEN "0" ELSE "1"

Cleanup ==
    /\ step \in {"cleanup", "raised"}
    /\ \E deleted \in {Run.created, FALSE} :
         /\ collections' = IF deleted THEN collections \ {variant} ELSE collections
         /\ Update([Run EXCEPT !.excused = @ \/ (Run.created /\ ~deleted)])
    /\ IF step = "cleanup" /\ variant < VariantCount
       THEN step' = "setup" /\ variant' = variant + 1 /\ exit' = exit
       ELSE step' = "end" /\ variant' = variant /\ exit' = ExitCode
    /\ question' = 1
    /\ UNCHANGED <<probes, client>>

Next ==
    \/ LoadFixtures \/ Setup
    \/ Ingest \/ Extract \/ Review \/ VerifyText \/ VerifyVisuals
    \/ EnsureCollection \/ IndexVariant \/ Retrieve
    \/ CheckCapability \/ QuestionFails \/ ProbeIsNotExecuted \/ AnswerIsGraded \/ QuestionsEnd
    \/ Cleanup

Spec == Init /\ [][Next]_vars
-----------------------------------------------------------------------------
(* Properties *)

TypeOK ==
    /\ probes \subseteq Questions /\ client \in {"dict", "object"}
    /\ step \in Stages \union {"start", "setup", "raised", "index", "capability", "questions",
                               "cleanup", "end"}
    /\ variant \in Variants /\ question \in 1..(QuestionCount + 1)
    /\ runs \in [Variants ->
         [stages : [Stages -> Statuses \union {None}], checks : [Questions -> Statuses \union {None}],
          clean : {None, "clean", "leaked"}, executed : SUBSET Providers, created : BOOLEAN,
          status : Statuses \union {None}, pages : {None, "clean", "leaking"},
          visuals : SUBSET {"APPROVED", "BLOCKED_OCR_UNAVAILABLE", "BLOCKED"},
          leaks : SUBSET {"pages", "context", "answer"}, excused : BOOLEAN]]
    /\ collections \subseteq Variants
    /\ exit \in {None, "0", "1"}

\* A variant that is reported PASSED was taken all the way: its text was
\* verified, every page image was approved, the real providers were executed,
\* every question was answered as expected, and no personal data was seen
\* anywhere.
Earned(v) ==
    LET run == runs[v] IN
    /\ run.pages = "clean" /\ run.visuals \subseteq {"APPROVED"}
    /\ {"bge_m3", "qdrant", "llama_cpp"} \subseteq run.executed
    /\ run.visuals # {} => "ocr" \in run.executed
    /\ \A q \in Questions : run.checks[q] = "PASSED"
    /\ run.leaks = {} /\ probes = {} /\ client = "object"

\* "Returns nonzero exit code whenever a required stage is failed or not
\* executed" (smoke.py:14), and "synthetic_pii_clean is null until verification
\* checks execute" (smoke.py:10): the exit code, the status of a
\* variant and synthetic_pii_clean are true, whatever fails where.  Neither a fixture with a visual probe nor this
\* program's client can pass.
ReportsAreTruthful ==
    /\ exit = "0" => \A v \in Variants : Earned(v)
    /\ \A v \in Variants :
         /\ runs[v].status = "PASSED" => Earned(v)
         /\ runs[v].clean = "clean" <=> runs[v].pages = "clean" /\ runs[v].leaks = {}
         /\ runs[v].clean = "leaked" <=> runs[v].leaks # {}

\* No collection of a run is left in the vector store, which is the one the
\* program uses, unless it could not be completed or not be deleted.
CollectionsAreRemoved ==
    step = "end" => \A v \in collections : runs[v].excused
=============================================================================
