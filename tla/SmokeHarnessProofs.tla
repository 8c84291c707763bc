------------------------- MODULE SmokeHarnessProofs -------------------------
(***************************************************************************)
(* What holds of SmokeHarness for every number of variants and questions,  *)
(* and for every ground truth.                                             *)
(***************************************************************************)
EXTENDS SmokeHarness, TLAPS

Checks == [Questions -> Statuses \union {None}]
RunRecords ==
    [stages : [Stages -> Statuses \union {None}], checks : Checks,
     clean : {None, "clean", "leaked"}, executed : SUBSET Providers, created : BOOLEAN,
     status : Statuses \union {None}, pages : {None, "clean", "leaking"},
     visuals : SUBSET {"APPROVED", "BLOCKED_OCR_UNAVAILABLE", "BLOCKED"},
     leaks : SUBSET {"pages", "context", "answer"}, excused : BOOLEAN]

\* synthetic_pii_clean says what was seen.
Told(run) ==
    /\ run.clean = "clean" <=> run.pages = "clean" /\ run.leaks = {}
    /\ run.clean = "leaked" <=> run.leaks # {}

\* What a stage that passed, and a question that passed, have shown; a leak
\* that was seen has failed one of them.
Shown(p, c, run) ==
    /\ run.stages["masked_text_verification"] = "PASSED" => run.pages = "clean"
    /\ run.stages["visual_derivative_verification"] = "PASSED" =>
         run.visuals \subseteq {"APPROVED"} /\ (run.visuals # {} => "ocr" \in run.executed)
    /\ run.stages["embedding_and_indexing"] = "PASSED" => {"bge_m3", "qdrant"} \subseteq run.executed
    /\ run.stages["answer_validation"] = "PASSED" => \A q \in Questions : run.checks[q] = "PASSED"
    /\ \A q \in Questions : run.checks[q] = "PASSED" =>
         q \notin p /\ c = "object" /\ "llama_cpp" \in run.executed
    /\ run.leaks # {} =>
         \/ \E q \in Questions : run.checks[q] = "FAILED"
         \/ "FAILED" \in {run.stages["masked_text_verification"], run.stages["answer_validation"]}

\* A record of a run that goes on.
Kept(p, c, run) == run \in RunRecords /\ Told(run) /\ Shown(p, c, run)

\* A record of a variant that was taken all the way.
Passes(p, c, run) ==
    /\ run.pages = "clean" /\ run.visuals \subseteq {"APPROVED"}
    /\ {"bge_m3", "qdrant", "llama_cpp"} \subseteq run.executed
    /\ run.visuals # {} => "ocr" \in run.executed
    /\ \A q \in Questions : run.checks[q] = "PASSED"
    /\ run.leaks = {} /\ p = {} /\ c = "object"

\* A record that is compiled.
Reported(p, c, run) ==
    run \in RunRecords /\ Told(run) /\ (run.status = "PASSED" => Passes(p, c, run))

LEMMA NoRunIsKept ==
    ASSUME NEW p, NEW c
    PROVE  Kept(p, c, NoRun) /\ NoRun.leaks = {} /\ NoRun.status = None
           /\ \A q \in Questions : NoRun.checks[q] = None
<1>1. [s \in Stages |-> None] \in [Stages -> Statuses \union {None}]
    OBVIOUS
<1>2. [q \in Questions |-> None] \in Checks
    BY DEF Checks
<1>3. NoRun \in RunRecords
    BY <1>1, <1>2 DEF NoRun, RunRecords
<1>4. /\ NoRun.leaks = {} /\ NoRun.status = None /\ NoRun.clean = None /\ NoRun.pages = None
      /\ \A q \in Questions : NoRun.checks[q] = None
      /\ \A s \in Stages : NoRun.stages[s] = None
    BY DEF NoRun
<1> QED BY <1>3, <1>4 DEF Kept, Told, Shown, None, Stages

\* Whatever a run has come to, its report is true: a variant passes only when
\* all its stages are on record as passed (_compile_variant_report).
LEMMA CompiledIsReported ==
    ASSUME NEW p, p \subseteq Questions, NEW c, NEW run, Kept(p, c, run)
    PROVE  /\ Reported(p, c, Compiled(run))
           /\ Compiled(run).created = run.created /\ Compiled(run).excused = run.excused
<1> DEFINE marked == Marked(run.stages)
           stages == Validated(marked, run.checks)
<1>1. run \in RunRecords /\ run.stages \in [Stages -> Statuses \union {None}]
    BY DEF Kept, RunRecords
<1>2. marked \in [Stages -> Statuses]
    BY <1>1 DEF Marked, Statuses, None
<1>3. stages \in [Stages -> Statuses]
    BY <1>2 DEF Validated, Statuses, Stages
<1>4. VariantStatus(stages) \in Statuses
    BY DEF VariantStatus, Statuses
<1>5. VariantStatus(stages) = "PASSED" => \A s \in Stages : run.stages[s] = "PASSED"
  <2> SUFFICES ASSUME VariantStatus(stages) = "PASSED", NEW s \in Stages
               PROVE  run.stages[s] = "PASSED"
      OBVIOUS
  <2>1. \A t \in Stages : stages[t] = "PASSED"
      BY DEF VariantStatus
  <2>2. marked[s] = "PASSED"
      BY <1>2, <2>1 DEF Validated
  <2> QED BY <2>2 DEF Marked
<1>6. /\ Compiled(run) \in RunRecords
      /\ Compiled(run).status = VariantStatus(stages)
      /\ Compiled(run).checks = run.checks /\ Compiled(run).clean = run.clean
      /\ Compiled(run).executed = run.executed /\ Compiled(run).pages = run.pages
      /\ Compiled(run).visuals = run.visuals /\ Compiled(run).leaks = run.leaks
      /\ Compiled(run).created = run.created /\ Compiled(run).excused = run.excused
  <2> DEFINE status == VariantStatus(stages)
  <2>1. Compiled(run) = [run EXCEPT !.stages = stages, !.status = status]
      BY DEF Compiled
  <2>2. stages \in [Stages -> Statuses \union {None}] /\ status \in Statuses \union {None}
      BY <1>3, <1>4
  <2>3. status = VariantStatus(stages)
      OBVIOUS
  <2> HIDE DEF stages, status
  <2> QED BY <1>1, <2>1, <2>2, <2>3 DEF RunRecords
<1>7. (\A s \in Stages : run.stages[s] = "PASSED") => Passes(p, c, run)
  <2> SUFFICES ASSUME \A s \in Stages : run.stages[s] = "PASSED" PROVE Passes(p, c, run)
      OBVIOUS
  <2>1. /\ run.stages["masked_text_verification"] = "PASSED"
        /\ run.stages["visual_derivative_verification"] = "PASSED"
        /\ run.stages["embedding_and_indexing"] = "PASSED"
        /\ run.stages["answer_validation"] = "PASSED"
      BY DEF Stages
  <2>2. \A q \in Questions : run.checks[q] = "PASSED"
      BY <2>1 DEF Kept, Shown
  <2>3. 1 \in Questions
      BY CountsAssumption DEF Questions
  <2>4. \A q \in Questions : q \notin p /\ c = "object" /\ "llama_cpp" \in run.executed
      BY <2>2 DEF Kept, Shown
  <2> QED BY <2>1, <2>2, <2>3, <2>4 DEF Kept, Shown, Passes
<1>8. Told(Compiled(run))
    BY <1>6 DEF Kept, Told
<1> QED BY <1>5, <1>6, <1>7, <1>8 DEF Reported, Passes
-----------------------------------------------------------------------------
Over == {"cleanup", "end"}
BeforeTheText == {"start", "setup", "raised", "vault_ingestion", "extraction", "pii_review",
                  "masked_text_verification"}

Fresh(run) == run.leaks = {} /\ run.stages["visual_derivative_verification"] = None

\* The answers of a run that goes on have not been validated.
Going(run) == run.status = None /\ run.stages["answer_validation"] = None

\* What is left to remove, or is excused.
Accounted(v) == v \in collections =>
    runs[v].excused \/ (v = variant /\ step # "end" /\ runs[v].created)

SmokeInv ==
    /\ probes \subseteq Questions /\ client \in {"dict", "object"}
    /\ variant \in Variants /\ question \in Nat
    /\ runs \in [Variants -> RunRecords]
    /\ \A v \in Variants : v < variant => Reported(probes, client, runs[v])
    /\ \A v \in Variants : v > variant => runs[v] = NoRun /\ v \notin collections
    /\ step \in Over => Reported(probes, client, Run)
    /\ step \notin Over =>
         /\ Kept(probes, client, Run)
         /\ Going(Run)
         /\ \A q \in Questions : Run.checks[q] # None => step = "questions" /\ q < question
    /\ step \in BeforeTheText => Fresh(Run) /\ variant \notin collections
    /\ exit = "0" => step = "end" /\ \A v \in Variants : runs[v].status = "PASSED"
    /\ \A v \in collections : v \in Variants /\ Accounted(v)

\* A record that goes on, and where.
LEMMA GoesOnKeeps ==
    ASSUME SmokeInv, NEW next, NEW run, step \notin Over, next \notin Over,
           GoesOn(next, run), Same, Kept(probes, client, run), Going(run),
           \A q \in Questions : run.checks[q] # None => next = "questions" /\ q < question',
           next \in BeforeTheText => Fresh(run) /\ variant \notin collections',
           question' \in Nat,
           \/ UNCHANGED collections /\ (Run.created => run.created) /\ (Run.excused => run.excused)
           \/ collections' = collections \union {variant} /\ run.created
    PROVE  SmokeInv'
<1>1. /\ runs' = [runs EXCEPT ![variant] = run] /\ step' = next
      /\ UNCHANGED <<probes, client, variant, exit>>
    BY DEF GoesOn, Update, Same
<1>2. run \in RunRecords /\ variant \in Variants /\ Variants \subseteq Nat
    BY DEF Kept, SmokeInv, Variants
<1>3. runs'[variant] = run /\ \A v \in Variants \ {variant} : runs'[v] = runs[v]
    BY <1>1, <1>2 DEF SmokeInv
<1>4. runs' \in [Variants -> RunRecords]
    BY <1>1, <1>2 DEF SmokeInv
<1>5. \A v \in collections' : v \in Variants /\ Accounted(v)'
    BY <1>1, <1>2, <1>3 DEF SmokeInv, Accounted, Run, Over
<1>6. exit' = "0" => FALSE
    BY <1>1 DEF SmokeInv, Over
<1>7. \A v \in Variants : /\ v < variant' => Reported(probes', client', runs'[v])
                          /\ v > variant' => runs'[v] = NoRun /\ v \notin collections'
    BY <1>1, <1>2, <1>3 DEF SmokeInv
<1> QED BY <1>1, <1>2, <1>3, <1>4, <1>5, <1>6, <1>7 DEF SmokeInv, Run

\* A run that ends.
LEMMA ReturnsReports ==
    ASSUME SmokeInv, NEW run, step \notin Over, Returns(run), Same, Kept(probes, client, run),
           question' \in Nat,
           \/ UNCHANGED collections /\ (Run.created => run.created) /\ (Run.excused => run.excused)
           \/ collections' = collections \union {variant} /\ run.excused
    PROVE  SmokeInv'
<1> DEFINE report == Compiled(run)
<1>1. /\ runs' = [runs EXCEPT ![variant] = report] /\ step' = "cleanup"
      /\ UNCHANGED <<probes, client, variant, exit>>
    BY DEF Returns, Update, Same
<1>2. /\ Reported(probes, client, report) /\ report.created = run.created
      /\ report.excused = run.excused
    BY CompiledIsReported DEF SmokeInv
<1> HIDE DEF report
<1>3. report \in RunRecords /\ variant \in Variants /\ Variants \subseteq Nat
    BY <1>2 DEF Reported, SmokeInv, Variants
<1>4. runs'[variant] = report /\ \A v \in Variants \ {variant} : runs'[v] = runs[v]
    BY <1>1, <1>3 DEF SmokeInv
<1>5. runs' \in [Variants -> RunRecords]
    BY <1>1, <1>3 DEF SmokeInv
<1>6. \A v \in collections' : v \in Variants /\ Accounted(v)'
    BY <1>1, <1>2, <1>3, <1>4 DEF SmokeInv, Accounted, Run, Over
<1>7. exit' = "0" => FALSE
    BY <1>1 DEF SmokeInv, Over
<1>8. \A v \in Variants : /\ v < variant' => Reported(probes', client', runs'[v])
                          /\ v > variant' => runs'[v] = NoRun /\ v \notin collections'
    BY <1>1, <1>3, <1>4 DEF SmokeInv
<1> QED BY <1>1, <1>2, <1>3, <1>4, <1>5, <1>6, <1>7, <1>8 DEF SmokeInv, Run, Over, BeforeTheText

\* The variant that is on its way.
LEMMA Current ==
    ASSUME SmokeInv, step \notin Over
    PROVE  /\ Run \in RunRecords /\ Run.status = None /\ Going(Run)
           /\ Told(Run) /\ Shown(probes, client, Run)
           /\ step # "questions" => \A q \in Questions : Run.checks[q] = None
           /\ question \in Nat
BY DEF SmokeInv, Kept, Going

\* To have one more stage on record leaves what the others have shown.
LEMMA StageKept ==
    ASSUME SmokeInv, step \notin Over, NEW stage \in Stages, NEW status \in Statuses,
           status = "PASSED" =>
              stage \notin {"masked_text_verification", "visual_derivative_verification",
                            "embedding_and_indexing", "answer_validation"},
           Run.leaks = {} \/ stage \notin {"masked_text_verification", "answer_validation"}
    PROVE  LET run == [Run EXCEPT !.stages = Recorded(stage, status)] IN
           /\ Kept(probes, client, run)
           /\ run.status = None /\ run.checks = Run.checks /\ run.leaks = Run.leaks
           /\ run.created = Run.created /\ run.excused = Run.excused
           /\ stage # "visual_derivative_verification" /\ Fresh(Run) => Fresh(run)
           /\ stage # "answer_validation" => Going(run)
<1> DEFINE stages == Recorded(stage, status)
           run == [Run EXCEPT !.stages = stages]
<1>1. Run \in RunRecords /\ Run.status = None /\ Told(Run) /\ Shown(probes, client, Run)
    BY Current
<1>2. /\ stages \in [Stages -> Statuses \union {None}]
      /\ stages[stage] = status
      /\ \A t \in Stages \ {stage} : stages[t] = Run.stages[t]
    BY <1>1 DEF Recorded, RunRecords
<1> HIDE DEF stages
<1>3. /\ run \in RunRecords /\ run.stages = stages /\ run.status = None
      /\ run.checks = Run.checks /\ run.leaks = Run.leaks /\ run.clean = Run.clean
      /\ run.pages = Run.pages /\ run.visuals = Run.visuals /\ run.executed = Run.executed
      /\ run.created = Run.created /\ run.excused = Run.excused
    BY <1>1, <1>2 DEF RunRecords
<1> HIDE DEF run
<1>4. Told(run)
    BY <1>1, <1>3 DEF Told
<1>5. Shown(probes, client, run)
    BY <1>1, <1>2, <1>3 DEF Shown, Stages
<1>6. stage # "visual_derivative_verification" /\ Fresh(Run) => Fresh(run)
    BY <1>2, <1>3 DEF Fresh, Stages
<1>7. stage # "answer_validation" => Going(run)
    BY <1>2, <1>3, Current DEF Going, Stages
<1> QED BY <1>3, <1>4, <1>5, <1>6, <1>7 DEF run, stages, Kept

LEMMA SimpleStageKeeps ==
    ASSUME SmokeInv, NEW next,
           \/ Ingest /\ next = "extraction"
           \/ Review /\ next = "masked_text_verification"
           \/ Retrieve /\ next = "capability"
    PROVE  SmokeInv'
<1>1. PICK stage \in {"vault_ingestion", "pii_review", "retrieval"} : SimpleStage(stage, next)
    BY DEF Ingest, Review, Retrieve
<1>2. /\ stage \in Stages /\ step = stage /\ step \notin Over /\ next \notin Over
      /\ step # "questions" /\ next # "questions"
    BY <1>1 DEF SimpleStage, Stages, Over
<1>3. Same /\ question' = question /\ collections' = collections /\ question \in Nat
    BY <1>1, <1>2, Current DEF SimpleStage
<1>4. next \in BeforeTheText => Fresh(Run) /\ variant \notin collections
    BY <1>2 DEF SmokeInv, BeforeTheText, Ingest, Review, Retrieve, SimpleStage
<1>5. CASE GoesOn(next, [Run EXCEPT !.stages = Recorded(stage, "PASSED")])
  <2> DEFINE run == [Run EXCEPT !.stages = Recorded(stage, "PASSED")]
  <2>1. /\ Kept(probes, client, run) /\ run.status = None /\ run.checks = Run.checks
        /\ run.leaks = Run.leaks /\ run.created = Run.created /\ run.excused = Run.excused
        /\ Fresh(Run) => Fresh(run)
        /\ Going(run)
      BY <1>1, <1>2, StageKept DEF Statuses
  <2>2. \A q \in Questions : run.checks[q] = None
      BY <1>2, <2>1, Current
  <2>3. GoesOn(next, run)
      BY <1>5
  <2> HIDE DEF run
  <2> QED BY <1>2, <1>3, <1>4, <2>1, <2>2, <2>3, GoesOnKeeps
<1>6. CASE Returns([Run EXCEPT !.stages = Recorded(stage, "FAILED")])
  <2> DEFINE run == [Run EXCEPT !.stages = Recorded(stage, "FAILED")]
  <2>1. /\ Kept(probes, client, run) /\ run.status = None /\ run.checks = Run.checks
        /\ run.leaks = Run.leaks /\ run.created = Run.created /\ run.excused = Run.excused
      BY <1>1, <1>2, StageKept DEF Statuses
  <2>2. Returns(run)
      BY <1>6
  <2> HIDE DEF run
  <2> QED BY <1>2, <1>3, <2>1, <2>2, ReturnsReports
<1> QED BY <1>1, <1>5, <1>6 DEF SimpleStage

LEMMA ExtractKeeps == ASSUME SmokeInv, Extract PROVE SmokeInv'
<1>1. step = "extraction" /\ step \notin Over /\ Same /\ UNCHANGED <<question, collections>>
    BY DEF Extract, Over
<1>2. "extraction" \in Stages /\ Fresh(Run) /\ question' \in Nat /\ variant \notin collections
    BY <1>1, Current DEF Stages, SmokeInv, BeforeTheText
<1>3. ASSUME NEW executed \in SUBSET {"ocr"},
             GoesOn("pii_review", [Run EXCEPT !.stages = Recorded("extraction", "PASSED"),
                                              !.executed = @ \union executed])
      PROVE  SmokeInv'
  <2> DEFINE staged == [Run EXCEPT !.stages = Recorded("extraction", "PASSED")]
             run == [staged EXCEPT !.executed = @ \union executed]
  <2>1. /\ Kept(probes, client, staged) /\ staged.status = None /\ staged.checks = Run.checks
        /\ staged.created = Run.created /\ staged.excused = Run.excused /\ Fresh(staged)
        /\ Going(staged)
      BY <1>1, <1>2, StageKept DEF Statuses, Fresh
  <2>2. run = [Run EXCEPT !.stages = Recorded("extraction", "PASSED"),
                          !.executed = @ \union executed]
      BY <1>1, Current DEF RunRecords
  <2>3. \A q \in Questions : Run.checks[q] = None
      BY <1>1, Current
  <2> HIDE DEF staged
  <2>4. /\ run \in RunRecords /\ run.status = None /\ run.checks = Run.checks
        /\ run.leaks = staged.leaks /\ run.created = Run.created /\ run.excused = Run.excused
        /\ run.clean = staged.clean /\ run.pages = staged.pages /\ run.visuals = staged.visuals
        /\ run.stages = staged.stages /\ staged.executed \subseteq run.executed
        /\ run.checks = staged.checks
      BY <2>1 DEF Kept, RunRecords, Providers
  <2> HIDE DEF run
  <2>5. Told(run) /\ Fresh(run) /\ Going(run)
      BY <2>1, <2>4 DEF Kept, Told, Fresh, Going
  <2>6. Shown(probes, client, run)
      BY <2>1, <2>4 DEF Kept, Shown
  <2>7. GoesOn("pii_review", run)
      BY <1>3, <2>2
  <2> QED
      BY <1>1, <1>2, <2>3, <2>4, <2>5, <2>6, <2>7, GoesOnKeeps DEF Over, Kept
<1>4. ASSUME NEW status \in {"NOT_EXECUTED", "FAILED"},
             Returns([Run EXCEPT !.stages = Recorded("extraction", status)])
      PROVE  SmokeInv'
  <2> DEFINE run == [Run EXCEPT !.stages = Recorded("extraction", status)]
  <2>1. Kept(probes, client, run) /\ run.created = Run.created /\ run.excused = Run.excused
      BY <1>1, <1>2, <1>4, StageKept DEF Statuses, Fresh
  <2>2. Returns(run)
      BY <1>4
  <2> HIDE DEF run
  <2> QED BY <1>1, <1>2, <2>1, <2>2, ReturnsReports
<1> QED BY <1>1, <1>3, <1>4 DEF Extract

LEMMA RecordedStages ==
    ASSUME SmokeInv, step \notin Over, NEW stage \in Stages, NEW status \in Statuses
    PROVE  LET stages == Recorded(stage, status) IN
           /\ stages \in [Stages -> Statuses \union {None}]
           /\ stages[stage] = status
           /\ \A t \in Stages \ {stage} : stages[t] = Run.stages[t]
BY Current DEF Recorded, RunRecords

\* A stage that does not pass ends the run, with nothing else on record.
LEMMA StageEnds ==
    ASSUME SmokeInv, step \notin Over, NEW stage \in Stages, NEW status \in {"NOT_EXECUTED", "FAILED"},
           Run.leaks = {} \/ stage \notin {"masked_text_verification", "answer_validation"},
           Returns([Run EXCEPT !.stages = Recorded(stage, status)]), Same, question' \in Nat,
           UNCHANGED collections
    PROVE  SmokeInv'
<1> DEFINE run == [Run EXCEPT !.stages = Recorded(stage, status)]
<1>0. status \in Statuses /\ status # "PASSED"
    BY DEF Statuses
<1>1. Kept(probes, client, run) /\ run.created = Run.created /\ run.excused = Run.excused
    BY <1>0, StageKept
<1>2. Returns(run)
    OBVIOUS
<1> HIDE DEF run
<1> QED BY <1>1, <1>2, ReturnsReports

LEMMA VerifyTextKeeps == ASSUME SmokeInv, VerifyText PROVE SmokeInv'
<1> DEFINE stage == "masked_text_verification"
<1>1. step = stage /\ step \notin Over /\ Same /\ UNCHANGED <<question, collections>>
    BY DEF VerifyText, Over
<1>2. stage \in Stages /\ Fresh(Run) /\ question' \in Nat
    BY <1>1, Current DEF Stages, SmokeInv, BeforeTheText
<1>3. Run \in RunRecords /\ Run.status = None /\ Told(Run) /\ Shown(probes, client, Run)
      /\ Going(Run) /\ \A q \in Questions : Run.checks[q] = None
    BY <1>1, Current
<1>4. ASSUME NEW visuals \in SUBSET {"APPROVED", "BLOCKED_OCR_UNAVAILABLE", "BLOCKED"},
             GoesOn("visual_derivative_verification",
                    [Run EXCEPT !.stages = Recorded(stage, "PASSED"), !.clean = "clean",
                                !.pages = "clean", !.visuals = visuals])
      PROVE  SmokeInv'
  <2> DEFINE stages == Recorded(stage, "PASSED")
             run == [Run EXCEPT !.stages = stages, !.clean = "clean",
                                !.pages = "clean", !.visuals = visuals]
  <2>1. /\ stages \in [Stages -> Statuses \union {None}] /\ stages[stage] = "PASSED"
        /\ \A t \in Stages \ {stage} : stages[t] = Run.stages[t]
      BY <1>1, <1>2, RecordedStages DEF Statuses
  <2>2. GoesOn("visual_derivative_verification", run)
      BY <1>4
  <2> HIDE DEF stages
  <2>3. /\ run \in RunRecords /\ run.status = None /\ run.checks = Run.checks
        /\ run.leaks = Run.leaks /\ run.created = Run.created /\ run.excused = Run.excused
        /\ run.clean = "clean" /\ run.pages = "clean" /\ run.visuals = visuals
        /\ run.stages = stages /\ run.executed = Run.executed
      BY <1>3, <2>1 DEF RunRecords
  <2> HIDE DEF run
  <2>4. Told(run)
      BY <1>2, <2>3 DEF Told, Fresh
  <2>5. Shown(probes, client, run)
      BY <1>2, <1>3, <2>1, <2>3 DEF Shown, Fresh, Stages, None
  <2>6. Going(run)
      BY <1>3, <2>1, <2>3 DEF Going, Stages
  <2> QED BY <1>1, <1>2, <1>3, <2>2, <2>3, <2>4, <2>5, <2>6, GoesOnKeeps
         DEF Over, Kept, BeforeTheText
<1>5. ASSUME Returns([Run EXCEPT !.stages = Recorded(stage, "FAILED"), !.clean = "leaked",
                                 !.pages = "leaking", !.leaks = {"pages"}])
      PROVE  SmokeInv'
  <2> DEFINE stages == Recorded(stage, "FAILED")
             run == [Run EXCEPT !.stages = stages, !.clean = "leaked",
                                !.pages = "leaking", !.leaks = {"pages"}]
  <2>1. /\ stages \in [Stages -> Statuses \union {None}] /\ stages[stage] = "FAILED"
        /\ \A t \in Stages \ {stage} : stages[t] = Run.stages[t]
      BY <1>1, <1>2, RecordedStages DEF Statuses
  <2>2. Returns(run)
      BY <1>5
  <2> HIDE DEF stages
  <2>3. /\ run \in RunRecords /\ run.checks = Run.checks
        /\ run.leaks = {"pages"} /\ run.created = Run.created /\ run.excused = Run.excused
        /\ run.clean = "leaked" /\ run.pages = "leaking" /\ run.visuals = Run.visuals
        /\ run.stages = stages /\ run.executed = Run.executed
      BY <1>3, <2>1 DEF RunRecords
  <2> HIDE DEF run
  <2>4. Told(run)
      BY <2>3 DEF Told
  <2>5. Shown(probes, client, run)
      BY <1>3, <2>1, <2>3 DEF Shown, Stages, None
  <2> QED BY <1>1, <1>2, <2>2, <2>3, <2>4, <2>5, ReturnsReports DEF Kept
<1>6. ASSUME Returns([Run EXCEPT !.stages = Recorded(stage, "FAILED")]) PROVE SmokeInv'
    BY <1>1, <1>2, <1>6, StageEnds DEF Fresh
<1> QED BY <1>1, <1>4, <1>5, <1>6 DEF VerifyText

LEMMA VerifyVisualsKeeps == ASSUME SmokeInv, VerifyVisuals PROVE SmokeInv'
<1> DEFINE stage == "visual_derivative_verification"
           seen == IF "APPROVED" \in Run.visuals THEN {"ocr"} ELSE {}
<1>1. step = stage /\ step \notin Over /\ Same /\ UNCHANGED <<question, collections>>
    BY DEF VerifyVisuals, Over
<1>2. stage \in Stages /\ question' \in Nat
    BY <1>1, Current DEF Stages
<1>3. Run \in RunRecords /\ Run.status = None /\ Told(Run) /\ Shown(probes, client, Run)
      /\ Going(Run) /\ \A q \in Questions : Run.checks[q] = None
    BY <1>1, Current
<1>4. PICK status \in Statuses, executed \in {Run.executed, Run.executed \union seen} :
        /\ GoesOn("embedding_and_indexing",
                  [Run EXCEPT !.stages = Recorded(stage, status), !.executed = executed])
        /\ status = "PASSED" => Run.visuals \subseteq {"APPROVED"} /\ executed = Run.executed \union seen
  <2>1. VisualStatus(Run.visuals) \in Statuses
        /\ (VisualStatus(Run.visuals) = "PASSED" => Run.visuals \subseteq {"APPROVED"})
      BY DEF VisualStatus, Statuses
  <2>2. CASE GoesOn("embedding_and_indexing",
               [Run EXCEPT !.stages = Recorded(stage, VisualStatus(Run.visuals)),
                           !.executed = @ \union seen])
    <3>1. [Run EXCEPT !.stages = Recorded(stage, VisualStatus(Run.visuals)), !.executed = @ \union seen]
          = [Run EXCEPT !.stages = Recorded(stage, VisualStatus(Run.visuals)),
                        !.executed = Run.executed \union seen]
        BY <1>3 DEF RunRecords
    <3> QED BY <2>1, <2>2, <3>1
  <2>3. CASE GoesOn("embedding_and_indexing", [Run EXCEPT !.stages = Recorded(stage, "FAILED")])
    <3>1. [Run EXCEPT !.stages = Recorded(stage, "FAILED")]
          = [Run EXCEPT !.stages = Recorded(stage, "FAILED"), !.executed = Run.executed]
        BY <1>3 DEF RunRecords
    <3> QED BY <2>3, <3>1 DEF Statuses
  <2> QED BY <1>1, <2>2, <2>3 DEF VerifyVisuals
<1> DEFINE stages == Recorded(stage, status)
           run == [Run EXCEPT !.stages = stages, !.executed = executed]
<1>5. /\ stages \in [Stages -> Statuses \union {None}] /\ stages[stage] = status
      /\ \A t \in Stages \ {stage} : stages[t] = Run.stages[t]
    BY <1>1, <1>2, RecordedStages
<1>6. GoesOn("embedding_and_indexing", run)
    BY <1>4
<1>7. executed \in SUBSET Providers /\ Run.executed \subseteq executed
    BY <1>3, <1>4 DEF RunRecords, Providers
<1> HIDE DEF stages
<1>8. /\ run \in RunRecords /\ run.status = None /\ run.checks = Run.checks
      /\ run.leaks = Run.leaks /\ run.created = Run.created /\ run.excused = Run.excused
      /\ run.clean = Run.clean /\ run.pages = Run.pages /\ run.visuals = Run.visuals
      /\ run.stages = stages /\ run.executed = executed
    BY <1>3, <1>5, <1>7 DEF RunRecords
<1> HIDE DEF run
<1>9. Told(run)
    BY <1>3, <1>8 DEF Told
<1>10. Shown(probes, client, run)
  <2>1. stages[stage] = "PASSED" =>
          run.visuals \subseteq {"APPROVED"} /\ (run.visuals # {} => "ocr" \in run.executed)
      BY <1>4, <1>5, <1>8
  <2>2. \A t \in {"masked_text_verification", "embedding_and_indexing", "answer_validation"} :
          run.stages[t] = Run.stages[t]
      BY <1>5, <1>8 DEF Stages
  <2> QED BY <1>3, <1>7, <1>8, <2>1, <2>2 DEF Shown
<1>11. Going(run)
    BY <1>3, <1>5, <1>8 DEF Going, Stages
<1> QED BY <1>1, <1>2, <1>3, <1>6, <1>8, <1>9, <1>10, <1>11, GoesOnKeeps
        DEF Over, Kept, BeforeTheText

LEMMA EnsureKeeps == ASSUME SmokeInv, EnsureCollection PROVE SmokeInv'
<1> DEFINE stage == "embedding_and_indexing"
<1>1. step = stage /\ step \notin Over /\ Same /\ UNCHANGED question
    BY DEF EnsureCollection, Over
<1>2. stage \in Stages /\ question' \in Nat
    BY <1>1, Current DEF Stages
<1>3. Run \in RunRecords /\ Run.status = None /\ Told(Run) /\ Shown(probes, client, Run)
      /\ Going(Run) /\ \A q \in Questions : Run.checks[q] = None
    BY <1>1, Current
<1>4. ASSUME NEW status \in {"NOT_EXECUTED", "FAILED"},
             Returns([Run EXCEPT !.stages = Recorded(stage, status)]), UNCHANGED collections
      PROVE  SmokeInv'
    BY <1>1, <1>2, <1>4, StageEnds
<1>5. ASSUME Returns([Run EXCEPT !.stages = Recorded(stage, "FAILED"), !.excused = TRUE]),
             collections' = collections \union {variant}
      PROVE  SmokeInv'
  <2> DEFINE stages == Recorded(stage, "FAILED")
             run == [Run EXCEPT !.stages = stages, !.excused = TRUE]
  <2>1. /\ stages \in [Stages -> Statuses \union {None}] /\ stages[stage] = "FAILED"
        /\ \A t \in Stages \ {stage} : stages[t] = Run.stages[t]
      BY <1>1, <1>2, RecordedStages DEF Statuses
  <2>2. Returns(run)
      BY <1>5
  <2> HIDE DEF stages
  <2>3. /\ run \in RunRecords /\ run.checks = Run.checks
        /\ run.leaks = Run.leaks /\ run.excused = TRUE
        /\ run.clean = Run.clean /\ run.pages = Run.pages /\ run.visuals = Run.visuals
        /\ run.stages = stages /\ run.executed = Run.executed
      BY <1>3, <2>1 DEF RunRecords
  <2> HIDE DEF run
  <2>4. Told(run)
      BY <1>3, <2>3 DEF Told
  <2>5. Shown(probes, client, run)
      BY <1>3, <2>1, <2>3 DEF Shown, Stages
  <2>6. run.excused
      BY <2>3
  <2> QED BY <1>1, <1>2, <1>5, <2>2, <2>3, <2>4, <2>5, <2>6, ReturnsReports DEF Kept
<1>6. ASSUME GoesOn("index", [Run EXCEPT !.created = CreatedOnEnsure]),
             collections' = collections \union {variant}
      PROVE  SmokeInv'
  <2> DEFINE run == [Run EXCEPT !.created = CreatedOnEnsure]
  <2>1. /\ run \in RunRecords /\ run.status = None /\ run.checks = Run.checks
        /\ run.leaks = Run.leaks /\ run.created = TRUE
        /\ run.clean = Run.clean /\ run.pages = Run.pages /\ run.visuals = Run.visuals
        /\ run.stages = Run.stages /\ run.executed = Run.executed
      BY <1>3 DEF RunRecords, CreatedOnEnsure
  <2>2. GoesOn("index", run)
      BY <1>6
  <2> HIDE DEF run
  <2>3. Told(run) /\ Shown(probes, client, run)
      BY <1>3, <2>1 DEF Told, Shown
  <2>4. run.created
      BY <2>1
  <2> QED
      BY <1>1, <1>2, <1>3, <1>6, <2>1, <2>2, <2>3, <2>4, GoesOnKeeps
         DEF Over, Kept, BeforeTheText, Going
<1> QED BY <1>1, <1>4, <1>5, <1>6 DEF EnsureCollection

LEMMA IndexKeeps == ASSUME SmokeInv, IndexVariant PROVE SmokeInv'
<1> DEFINE stage == "embedding_and_indexing"
<1>1. step = "index" /\ step \notin Over /\ Same /\ UNCHANGED <<question, collections>>
    BY DEF IndexVariant, Over
<1>2. stage \in Stages /\ question' \in Nat
    BY <1>1, Current DEF Stages
<1>3. Run \in RunRecords /\ Run.status = None /\ Told(Run) /\ Shown(probes, client, Run)
      /\ Going(Run) /\ \A q \in Questions : Run.checks[q] = None
    BY <1>1, Current
<1>4. ASSUME GoesOn("retrieval", [Run EXCEPT !.stages = Recorded(stage, "PASSED"), !.created = TRUE,
                                             !.executed = @ \union {"bge_m3", "qdrant"}])
      PROVE  SmokeInv'
  <2> DEFINE stages == Recorded(stage, "PASSED")
             executed == Run.executed \union {"bge_m3", "qdrant"}
             run == [Run EXCEPT !.stages = stages, !.created = TRUE, !.executed = executed]
  <2>1. /\ stages \in [Stages -> Statuses \union {None}] /\ stages[stage] = "PASSED"
        /\ \A t \in Stages \ {stage} : stages[t] = Run.stages[t]
      BY <1>1, <1>2, RecordedStages DEF Statuses
  <2>2. run = [Run EXCEPT !.stages = Recorded(stage, "PASSED"), !.created = TRUE,
                          !.executed = @ \union {"bge_m3", "qdrant"}]
      BY <1>3 DEF RunRecords
  <2>3. executed \in SUBSET Providers /\ Run.executed \subseteq executed
        /\ {"bge_m3", "qdrant"} \subseteq executed
      BY <1>3 DEF RunRecords, Providers
  <2>4. GoesOn("retrieval", run)
      BY <1>4, <2>2
  <2> HIDE DEF stages, executed
  <2>5. /\ run \in RunRecords /\ run.status = None /\ run.checks = Run.checks
        /\ run.leaks = Run.leaks /\ run.created = TRUE /\ run.excused = Run.excused
        /\ run.clean = Run.clean /\ run.pages = Run.pages /\ run.visuals = Run.visuals
        /\ run.stages = stages /\ run.executed = executed
      BY <1>3, <2>1, <2>3 DEF RunRecords
  <2> HIDE DEF run
  <2>6. Told(run)
      BY <1>3, <2>5 DEF Told
  <2>7. Shown(probes, client, run)
      BY <1>3, <2>1, <2>3, <2>5 DEF Shown, Stages
  <2>8. Going(run)
      BY <1>3, <2>1, <2>5 DEF Going, Stages
  <2> QED
      BY <1>1, <1>2, <1>3, <2>4, <2>5, <2>6, <2>7, <2>8, GoesOnKeeps
         DEF Over, Kept, BeforeTheText
<1>5. ASSUME Returns([Run EXCEPT !.stages = Recorded(stage, "FAILED")]) PROVE SmokeInv'
    BY <1>1, <1>2, <1>5, StageEnds
<1> QED BY <1>1, <1>4, <1>5 DEF IndexVariant

LEMMA CapabilityKeeps == ASSUME SmokeInv, CheckCapability PROVE SmokeInv'
<1>1. /\ step = "capability" /\ step \notin Over /\ Same /\ UNCHANGED collections
      /\ question' = 1
    BY DEF CheckCapability, Over
<1>2. "grounded_answering" \in Stages /\ question' \in Nat
    BY <1>1 DEF Stages
<1>3. Run \in RunRecords /\ Run.status = None /\ Told(Run) /\ Shown(probes, client, Run)
      /\ Going(Run) /\ \A q \in Questions : Run.checks[q] = None
    BY <1>1, Current
<1>4. ASSUME GoesOn("questions", Run) PROVE SmokeInv'
    BY <1>1, <1>2, <1>3, <1>4, GoesOnKeeps
         DEF Over, Kept, BeforeTheText, Going
<1>5. ASSUME NEW status \in {"NOT_EXECUTED", "FAILED"},
             Returns([Run EXCEPT !.stages = Recorded("grounded_answering", status)])
      PROVE  SmokeInv'
    BY <1>1, <1>2, <1>5, StageEnds
<1> QED BY <1>1, <1>4, <1>5 DEF CheckCapability

\* An answer that fails fails the validation, whatever was seen with it.
LEMMA AnsweringFailedKeeps ==
    ASSUME SmokeInv, step \notin Over, NEW run \in RunRecords, Told(run),
           run.stages = Run.stages, run.checks = Run.checks, run.pages = Run.pages,
           run.visuals = Run.visuals, Run.executed \subseteq run.executed,
           run.created = Run.created, run.excused = Run.excused,
           Returns(AnsweringFailed(run)), Same, question' \in Nat, UNCHANGED collections
    PROVE  SmokeInv'
<1> DEFINE stages == [run.stages EXCEPT !["grounded_answering"] = "FAILED",
                                        !["answer_validation"] = "FAILED"]
           failed == [run EXCEPT !.stages = stages]
<1>1. AnsweringFailed(run) = failed
    BY DEF AnsweringFailed, RunRecords
<1>2. /\ stages \in [Stages -> Statuses \union {None}]
      /\ stages["answer_validation"] = "FAILED"
      /\ \A t \in Stages \ {"grounded_answering", "answer_validation"} : stages[t] = run.stages[t]
    BY DEF RunRecords, Stages, Statuses
<1> HIDE DEF stages
<1>3. /\ failed \in RunRecords /\ failed.stages = stages /\ failed.checks = run.checks
      /\ failed.clean = run.clean /\ failed.executed = run.executed /\ failed.created = run.created
      /\ failed.pages = run.pages /\ failed.visuals = run.visuals /\ failed.leaks = run.leaks
      /\ failed.excused = run.excused
    BY <1>2 DEF RunRecords
<1> HIDE DEF failed
<1>4. Told(failed)
    BY <1>3 DEF Told
<1>5. Shown(probes, client, failed)
    BY <1>2, <1>3, Current DEF Shown, Stages
<1> QED BY <1>1, <1>3, <1>4, <1>5, ReturnsReports DEF Kept

LEMMA QuestionFailsKeeps == ASSUME SmokeInv, QuestionFails PROVE SmokeInv'
<1>1. /\ step = "questions" /\ step \notin Over /\ Same /\ UNCHANGED <<question, collections>>
      /\ question' \in Nat
    BY Current DEF QuestionFails, Over
<1>2. Run \in RunRecords /\ Told(Run)
    BY <1>1, Current
<1>3. ASSUME Returns(AnsweringFailed(Run)) PROVE SmokeInv'
    BY <1>1, <1>2, <1>3, AnsweringFailedKeeps
<1>4. ASSUME Returns(AnsweringFailed([Run EXCEPT !.clean = "leaked",
                                                 !.leaks = @ \union {"context"}]))
      PROVE  SmokeInv'
  <2> DEFINE run == [Run EXCEPT !.clean = "leaked", !.leaks = @ \union {"context"}]
  <2>1. /\ run \in RunRecords /\ run.clean = "leaked" /\ run.leaks = Run.leaks \union {"context"}
        /\ run.stages = Run.stages /\ run.checks = Run.checks /\ run.pages = Run.pages
        /\ run.visuals = Run.visuals /\ run.executed = Run.executed
        /\ run.created = Run.created /\ run.excused = Run.excused
      BY <1>2 DEF RunRecords
  <2>2. Returns(AnsweringFailed(run))
      BY <1>4
  <2> HIDE DEF run
  <2>3. Told(run)
      BY <2>1 DEF Told
  <2> QED BY <1>1, <2>1, <2>2, <2>3, AnsweringFailedKeeps
<1> QED BY <1>1, <1>3, <1>4 DEF QuestionFails

\* A question is checked and the next one comes.
LEMMA CheckedKeeps ==
    ASSUME SmokeInv, step = "questions", question \in Questions,
           NEW run \in RunRecords, Told(run), NEW status \in Statuses,
           run.stages = Run.stages, run.checks = Run.checks, run.pages = Run.pages,
           run.visuals = Run.visuals, Run.executed \subseteq run.executed,
           run.created = Run.created, run.excused = Run.excused, run.status = None,
           status = "PASSED" =>
              question \notin probes /\ client = "object" /\ "llama_cpp" \in run.executed,
           run.leaks = Run.leaks \/ status = "FAILED",
           GoesOn("questions", Checked(run, status)), question' = question + 1, Same,
           UNCHANGED collections
    PROVE  SmokeInv'
<1> DEFINE checks == [run.checks EXCEPT ![question] = status]
           checked == [run EXCEPT !.checks = checks]
<1>1. Checked(run, status) = checked
    BY DEF Checked, RunRecords
<1>2. /\ checks \in Checks /\ checks[question] = status
      /\ \A q \in Questions \ {question} : checks[q] = Run.checks[q]
    BY DEF RunRecords, Checks
<1>3. /\ Shown(probes, client, Run) /\ Going(Run)
      /\ \A q \in Questions : Run.checks[q] # None => q < question
      /\ question \in Nat /\ Questions \subseteq Nat
    BY DEF SmokeInv, Kept, Over, Questions
<1> HIDE DEF checks
<1>4. /\ checked \in RunRecords /\ checked.checks = checks /\ checked.stages = Run.stages
      /\ checked.clean = run.clean /\ checked.executed = run.executed
      /\ checked.created = Run.created /\ checked.pages = Run.pages
      /\ checked.visuals = Run.visuals /\ checked.leaks = run.leaks
      /\ checked.excused = Run.excused /\ checked.status = None
    BY <1>2 DEF RunRecords
<1> HIDE DEF checked
<1>5. Told(checked)
    BY <1>4 DEF Told
<1>6. Run.checks[question] = None
    BY <1>3
<1>7. Shown(probes, client, checked)
  <2>1. \A q \in Questions : checks[q] = "PASSED" =>
          q \notin probes /\ client = "object" /\ "llama_cpp" \in run.executed
    <3> SUFFICES ASSUME NEW q \in Questions, checks[q] = "PASSED"
                 PROVE  q \notin probes /\ client = "object" /\ "llama_cpp" \in run.executed
        OBVIOUS
    <3>1. CASE q = question
        BY <1>2, <3>1
    <3>2. CASE q # question
        BY <1>2, <1>3, <3>2 DEF Shown
    <3> QED BY <3>1, <3>2
  <2>2. run.leaks # {} =>
          \/ \E q \in Questions : checks[q] = "FAILED"
          \/ "FAILED" \in {Run.stages["masked_text_verification"], Run.stages["answer_validation"]}
    <3>1. CASE status = "FAILED"
        BY <1>2, <3>1
    <3>2. CASE status # "FAILED"
        BY <1>2, <1>3, <1>6, <3>2 DEF Shown, None
    <3> QED BY <3>1, <3>2
  <2>3. Run.stages["answer_validation"] # "PASSED"
      BY <1>3 DEF Going, None
  <2> QED BY <1>3, <1>4, <2>1, <2>2, <2>3 DEF Shown
<1>8. \A q \in Questions : checks[q] # None => q < question + 1
    BY <1>2, <1>3
<1> QED
    BY <1>1, <1>3, <1>4, <1>5, <1>7, <1>8, GoesOnKeeps DEF Kept, Going, Over, BeforeTheText

LEMMA ProbeKeeps == ASSUME SmokeInv, ProbeIsNotExecuted PROVE SmokeInv'
<1>1. /\ step = "questions" /\ question \in Questions /\ Same /\ UNCHANGED collections
      /\ question' = question + 1 /\ GoesOn("questions", Checked(Run, "NOT_EXECUTED"))
    BY DEF ProbeIsNotExecuted, SmokeInv
<1>2. step \notin Over
    BY <1>1 DEF Over
<1>3. Run \in RunRecords /\ Told(Run) /\ Run.status = None
    BY <1>2, Current
<1> QED BY <1>1, <1>3, CheckedKeeps DEF Statuses

LEMMA GradedKeeps == ASSUME SmokeInv, AnswerIsGraded PROVE SmokeInv'
<1> DEFINE asked == [Run EXCEPT !.executed = @ \union {"llama_cpp"}]
<1>1. /\ step = "questions" /\ question \in Questions \ probes /\ Same /\ UNCHANGED collections
      /\ client \in {"dict", "object"} /\ question \in Nat
    BY DEF AnswerIsGraded, SmokeInv
<1>2. step \notin Over
    BY <1>1 DEF Over
<1>3. Run \in RunRecords /\ Told(Run) /\ Run.status = None
    BY <1>2, Current
<1>4. /\ asked \in RunRecords /\ asked.executed = Run.executed \union {"llama_cpp"}
      /\ asked.stages = Run.stages /\ asked.checks = Run.checks /\ asked.pages = Run.pages
      /\ asked.visuals = Run.visuals /\ asked.leaks = Run.leaks /\ asked.clean = Run.clean
      /\ asked.created = Run.created /\ asked.excused = Run.excused /\ asked.status = None
    BY <1>3 DEF RunRecords, Providers
<1>5. CASE client = "dict"
  <2>1. Returns(AnsweringFailed(asked)) /\ UNCHANGED question
      BY <1>5 DEF AnswerIsGraded
  <2> HIDE DEF asked
  <2>2. Told(asked)
      BY <1>3, <1>4 DEF Told
  <2> QED BY <1>1, <1>2, <1>4, <2>1, <2>2, AnsweringFailedKeeps
<1>6. CASE client # "dict"
  <2>1. PICK matched \in BOOLEAN, leaking \in BOOLEAN :
          LET clean == IF leaking THEN "leaked" ELSE Run.clean
              status == IF QuestionPassed(matched, clean) THEN "PASSED" ELSE "FAILED"
          IN  /\ GoesOn("questions",
                   Checked([asked EXCEPT !.clean = clean,
                              !.leaks = @ \union (IF leaking THEN {"answer"} ELSE {})], status))
              /\ question' = question + 1
      BY <1>6 DEF AnswerIsGraded
  <2> DEFINE clean == IF leaking THEN "leaked" ELSE Run.clean
             status == IF QuestionPassed(matched, clean) THEN "PASSED" ELSE "FAILED"
             leaks == Run.leaks \union (IF leaking THEN {"answer"} ELSE {})
             run == [asked EXCEPT !.clean = clean, !.leaks = leaks]
  <2>2. /\ clean \in {None, "clean", "leaked"} /\ leaks \in SUBSET {"pages", "context", "answer"}
        /\ leaking => clean = "leaked" /\ leaks # {} /\ status = "FAILED"
        /\ ~leaking => clean = Run.clean /\ leaks = Run.leaks
        /\ status \in {"PASSED", "FAILED"}
      BY <1>3 DEF RunRecords, QuestionPassed
  <2>3. GoesOn("questions", Checked(run, status)) /\ question' = question + 1
    <3>1. run = [asked EXCEPT !.clean = clean,
                              !.leaks = @ \union (IF leaking THEN {"answer"} ELSE {})]
        BY <1>4 DEF RunRecords
    <3> QED BY <2>1, <3>1
  <2> HIDE DEF asked, clean, status, leaks
  <2>4. /\ run \in RunRecords /\ run.executed = asked.executed /\ run.leaks = leaks
        /\ run.clean = clean /\ run.stages = asked.stages /\ run.checks = asked.checks
        /\ run.pages = asked.pages /\ run.visuals = asked.visuals
        /\ run.created = asked.created /\ run.excused = asked.excused /\ run.status = None
      BY <1>4, <2>2 DEF RunRecords
  <2> HIDE DEF run
  <2>5. Told(run)
      BY <1>3, <1>4, <2>2, <2>4 DEF Told
  <2>6. status \in Statuses /\ (run.leaks = Run.leaks \/ status = "FAILED")
      BY <2>2, <2>4 DEF Statuses
  <2>7. question \notin probes /\ client = "object" /\ "llama_cpp" \in run.executed
      BY <1>1, <1>4, <1>6, <2>4
  <2> QED BY <1>1, <1>4, <2>3, <2>4, <2>5, <2>6, <2>7, CheckedKeeps
<1> QED BY <1>5, <1>6

LEMMA QuestionsEndKeeps == ASSUME SmokeInv, QuestionsEnd PROVE SmokeInv'
<1>1. /\ step = "questions" /\ step \notin Over /\ Same /\ UNCHANGED <<question, collections>>
      /\ question' \in Nat
    BY Current DEF QuestionsEnd, Over
<1>2. Run \in RunRecords /\ Told(Run) /\ Shown(probes, client, Run) /\ Going(Run)
    BY <1>1, Current
<1> DEFINE skipped == \E q \in Questions : Run.checks[q] = "NOT_EXECUTED"
           answering == IF skipped THEN "NOT_EXECUTED" ELSE "PASSED"
           stages == [Run.stages EXCEPT !["grounded_answering"] = answering,
                                        !["answer_validation"] = Grading(Run.checks)]
           run == [Run EXCEPT !.stages = stages]
<1>3. Returns(run)
  <2>1. run = [Run EXCEPT !.stages =
                 [@ EXCEPT !["grounded_answering"] = IF skipped THEN "NOT_EXECUTED" ELSE "PASSED",
                           !["answer_validation"] = Grading(Run.checks)]]
      BY <1>2 DEF RunRecords
  <2> QED BY <1>1, <2>1 DEF QuestionsEnd
<1>4. /\ Grading(Run.checks) \in Statuses /\ answering \in Statuses
      /\ Grading(Run.checks) = "PASSED" => \A q \in Questions : Run.checks[q] = "PASSED"
      /\ (\E q \in Questions : Run.checks[q] = "FAILED") => Grading(Run.checks) = "FAILED"
    BY DEF Grading, Statuses
<1> HIDE DEF answering
<1>5. /\ stages \in [Stages -> Statuses \union {None}]
      /\ stages["answer_validation"] = Grading(Run.checks)
      /\ \A t \in Stages \ {"grounded_answering", "answer_validation"} : stages[t] = Run.stages[t]
    BY <1>2, <1>4 DEF RunRecords, Stages
<1> HIDE DEF stages
<1>6. /\ run \in RunRecords /\ run.stages = stages /\ run.checks = Run.checks
      /\ run.clean = Run.clean /\ run.executed = Run.executed /\ run.created = Run.created
      /\ run.pages = Run.pages /\ run.visuals = Run.visuals /\ run.leaks = Run.leaks
      /\ run.excused = Run.excused
    BY <1>2, <1>5 DEF RunRecords
<1> HIDE DEF run
<1>7. Told(run)
    BY <1>2, <1>6 DEF Told
<1>8. Shown(probes, client, run)
  <2>1. run.leaks # {} =>
          \/ \E q \in Questions : run.checks[q] = "FAILED"
          \/ run.stages["masked_text_verification"] = "FAILED"
      BY <1>2, <1>5, <1>6 DEF Shown, Going, Stages, None
  <2> QED BY <1>2, <1>4, <1>5, <1>6, <2>1 DEF Shown, Stages
<1> QED BY <1>1, <1>3, <1>6, <1>7, <1>8, ReturnsReports DEF Kept

LEMMA StartKeeps == ASSUME SmokeInv, LoadFixtures \/ Setup PROVE SmokeInv'
<1>1. /\ step \in {"start", "setup"} /\ step' \in {"setup", "vault_ingestion", "raised", "end"}
      /\ UNCHANGED <<probes, client, variant, question, runs, collections>>
      /\ exit' \in {exit, "1"}
    BY DEF LoadFixtures, Setup
<1>2. /\ Kept(probes, client, Run) /\ Going(Run) /\ Fresh(Run) /\ variant \notin collections
      /\ \A q \in Questions : Run.checks[q] = None
      /\ exit # "0"
    BY <1>1 DEF SmokeInv, Over, BeforeTheText
<1>3. Reported(probes, client, Run)
    BY <1>2 DEF Kept, Reported, Going, None
<1>4. \A v \in collections : v \in Variants /\ Accounted(v)'
    BY <1>1, <1>2 DEF SmokeInv, Accounted
<1> QED BY <1>1, <1>2, <1>3, <1>4 DEF SmokeInv, Run, Over

LEMMA CleanupKeeps == ASSUME SmokeInv, Cleanup PROVE SmokeInv'
<1>1. step \in {"cleanup", "raised"} /\ UNCHANGED <<probes, client>> /\ question' = 1 /\ exit # "0"
    BY DEF Cleanup, SmokeInv
<1>2. PICK deleted \in {Run.created, FALSE} :
        /\ collections' = IF deleted THEN collections \ {variant} ELSE collections
        /\ Update([Run EXCEPT !.excused = @ \/ (Run.created /\ ~deleted)])
    BY DEF Cleanup
<1>3. Reported(probes, client, Run)
    BY <1>1 DEF SmokeInv, Over, Kept, Reported, Going, None
<1>4. Run \in RunRecords /\ variant \in Variants /\ Variants \subseteq Nat
    BY <1>3 DEF Reported, SmokeInv, Variants
<1> DEFINE excused == Run.excused \/ (Run.created /\ ~deleted)
           run == [Run EXCEPT !.excused = excused]
<1>5. run = [Run EXCEPT !.excused = @ \/ (Run.created /\ ~deleted)]
    BY <1>4 DEF RunRecords
<1>6. runs' = [runs EXCEPT ![variant] = run]
    BY <1>2, <1>5 DEF Update
<1>7. /\ excused \in BOOLEAN /\ (Run.excused => excused) /\ deleted \in BOOLEAN
      /\ Run.created => deleted \/ excused
    BY <1>4 DEF RunRecords
<1> HIDE DEF excused
<1>8. /\ run \in RunRecords /\ run.stages = Run.stages /\ run.checks = Run.checks
      /\ run.clean = Run.clean /\ run.executed = Run.executed
      /\ run.pages = Run.pages /\ run.visuals = Run.visuals /\ run.leaks = Run.leaks
      /\ run.excused = excused /\ run.status = Run.status
    BY <1>4, <1>7 DEF RunRecords
<1> HIDE DEF run
<1>9. Reported(probes, client, run)
    BY <1>3, <1>8 DEF Reported, Told, Passes
<1>10. /\ runs' \in [Variants -> RunRecords] /\ runs'[variant] = run
       /\ \A v \in Variants \ {variant} : runs'[v] = runs[v]
    BY <1>4, <1>6, <1>8 DEF SmokeInv
<1>11. \A v \in collections' : v \in Variants /\ runs'[v].excused
  <2> SUFFICES ASSUME NEW v \in collections' PROVE v \in Variants /\ runs'[v].excused
      OBVIOUS
  <2>1. v \in collections /\ (v = variant => ~deleted)
      BY <1>2
  <2>2. v \in Variants /\ Accounted(v)
      BY <2>1 DEF SmokeInv
  <2>3. CASE v # variant
      BY <1>10, <2>1, <2>2, <2>3 DEF Accounted
  <2>4. CASE v = variant
      BY <1>7, <1>8, <1>10, <2>1, <2>2, <2>4 DEF Accounted, Run
  <2> QED BY <2>2, <2>3, <2>4
<1>12. \A v \in Variants : v > variant => runs'[v] = NoRun /\ v \notin collections'
    BY <1>2, <1>4, <1>10 DEF SmokeInv
<1>13. \A v \in Variants : v <= variant => Reported(probes, client, runs'[v])
    BY <1>4, <1>9, <1>10 DEF SmokeInv
<1>14. CASE step = "cleanup" /\ variant < VariantCount
  <2>1. step' = "setup" /\ variant' = variant + 1 /\ exit' = exit
      BY <1>14 DEF Cleanup
  <2>2. variant' \in Variants /\ variant' > variant
      BY <1>4, <1>14, <2>1, CountsAssumption DEF Variants
  <2>3. Run' = NoRun /\ variant' \notin collections'
      BY <1>12, <2>2 DEF Run
  <2>4. /\ Kept(probes, client, Run)' /\ Going(Run)' /\ Fresh(Run)'
        /\ (\A q \in Questions : Run.checks[q] = None)'
    <3>1. NoRun.stages = [s \in Stages |-> None]
        BY DEF NoRun
    <3>2. Going(NoRun) /\ Fresh(NoRun)
        BY <3>1, NoRunIsKept DEF Going, Fresh, Stages
    <3> QED BY <1>1, <2>3, <3>2, NoRunIsKept DEF Going, Fresh
  <2>5. \A v \in Variants : /\ v < variant' => Reported(probes', client', runs'[v])
                            /\ v > variant' => runs'[v] = NoRun /\ v \notin collections'
      BY <1>1, <1>4, <1>12, <1>13, <2>1
  <2>6. \A v \in collections' : v \in Variants /\ Accounted(v)'
      BY <1>11 DEF Accounted
  <2> QED
      BY <1>1, <1>10, <2>1, <2>2, <2>3, <2>4, <2>5, <2>6 DEF SmokeInv, Over
<1>15. CASE ~(step = "cleanup" /\ variant < VariantCount)
  <2>1. step' = "end" /\ variant' = variant /\ exit' = ExitCode
      BY <1>15 DEF Cleanup
  <2>2. exit' = "0" => \A v \in Variants : runs'[v].status = "PASSED"
      BY <2>1 DEF ExitCode
  <2>3. \A v \in collections' : v \in Variants /\ Accounted(v)'
      BY <1>11 DEF Accounted
  <2>4. Run' = run
      BY <1>10, <2>1 DEF Run
  <2> QED
      BY <1>1, <1>4, <1>9, <1>10, <1>12, <1>13, <2>1, <2>2, <2>3, <2>4
         DEF SmokeInv, Over, BeforeTheText
<1> QED BY <1>14, <1>15

LEMMA SmokeInit == Init => SmokeInv
<1> SUFFICES ASSUME Init PROVE SmokeInv
    OBVIOUS
<1>1. /\ probes \subseteq Questions /\ client \in {"dict", "object"} /\ step = "start"
      /\ variant = 1 /\ question = 1 /\ runs = [v \in Variants |-> NoRun] /\ collections = {}
      /\ exit = None
    BY DEF Init
<1>2. 1 \in Variants /\ \A v \in Variants : ~(v < 1)
    BY CountsAssumption DEF Variants
<1>3. Run = NoRun
    BY <1>1, <1>2 DEF Run
<1>4. Kept(probes, client, NoRun) /\ NoRun \in RunRecords
    BY NoRunIsKept DEF Kept
<1>5. Going(NoRun) /\ Fresh(NoRun)
  <2>1. NoRun.stages = [s \in Stages |-> None]
      BY DEF NoRun
  <2> QED BY <2>1, NoRunIsKept DEF Going, Fresh, Stages
<1> QED
    BY <1>1, <1>2, <1>3, <1>4, <1>5, NoRunIsKept DEF SmokeInv, Over, None

LEMMA SmokeStep == SmokeInv /\ [Next]_vars => SmokeInv'
<1> SUFFICES ASSUME SmokeInv, [Next]_vars PROVE SmokeInv'
    OBVIOUS
<1>1. CASE UNCHANGED vars
    BY <1>1 DEF vars, SmokeInv, Run, Accounted
<1>2. CASE Ingest \/ Review \/ Retrieve
    BY <1>2, SimpleStageKeeps
<1>3. CASE Next /\ ~(Ingest \/ Review \/ Retrieve)
    BY <1>3, StartKeeps, ExtractKeeps, VerifyTextKeeps, VerifyVisualsKeeps, EnsureKeeps, IndexKeeps,
       CapabilityKeeps, QuestionFailsKeeps, ProbeKeeps, GradedKeeps, QuestionsEndKeeps, CleanupKeeps
       DEF Next
<1> QED BY <1>1, <1>2, <1>3

\* The exit code, the status of a variant and synthetic_pii_clean are true,
\* whatever fails at whatever stage (run_smoke, _compile_variant_report).
THEOREM ReportsStayTruthful == Spec => []ReportsAreTruthful
<1>1. SmokeInv => ReportsAreTruthful
  <2> SUFFICES ASSUME SmokeInv PROVE ReportsAreTruthful
      OBVIOUS
  <2>1. \A v \in Variants : v < variant \/ v = variant \/ v > variant
      BY DEF SmokeInv, Variants
  <2>2. \A v \in Variants : Told(runs[v]) /\ (runs[v].status = "PASSED" => Passes(probes, client, runs[v]))
    <3> SUFFICES ASSUME NEW v \in Variants
                 PROVE  Told(runs[v]) /\ (runs[v].status = "PASSED" => Passes(probes, client, runs[v]))
        OBVIOUS
    <3>1. CASE v < variant
        BY <3>1 DEF SmokeInv, Reported
    <3>2. CASE v = variant
        BY <3>2 DEF SmokeInv, Reported, Run, Kept, Going, None
    <3>3. CASE v > variant
        BY <3>3, NoRunIsKept DEF SmokeInv, Kept, None
    <3> QED BY <2>1, <3>1, <3>2, <3>3
  <2>3. exit = "0" => \A v \in Variants : runs[v].status = "PASSED"
      BY DEF SmokeInv
  <2> QED BY <2>2, <2>3 DEF ReportsAreTruthful, Told, Passes, Earned
<1> QED BY <1>1, SmokeInit, SmokeStep, PTL DEF Spec

\* No collection of a run is left behind but one that could not be completed or
\* deleted (_run_variant_smoke, its finally).
THEOREM CollectionsGetRemoved == Spec => []CollectionsAreRemoved
<1>1. SmokeInv => CollectionsAreRemoved
    BY DEF SmokeInv, CollectionsAreRemoved, Accounted
<1> QED BY <1>1, SmokeInit, SmokeStep, PTL DEF Spec

Steps == Stages \union {"start", "setup", "raised", "index", "capability", "questions",
                        "cleanup", "end"}

\* Where the process is, which question it is at, and how it ended.
PlaceInv == step \in Steps /\ question \in 1..(QuestionCount + 1) /\ exit \in {None, "0", "1"}

LEMMA PlaceInit == Init => PlaceInv
BY CountsAssumption DEF Init, PlaceInv, Steps

LEMMA PlaceStep == SmokeInv /\ PlaceInv /\ [Next]_vars => PlaceInv'
<1> SUFFICES ASSUME SmokeInv, PlaceInv, [Next]_vars PROVE PlaceInv'
    OBVIOUS
<1>1. QuestionCount \in Nat \ {0} /\ 1 \in 1..(QuestionCount + 1)
    BY CountsAssumption
<1>2. CASE UNCHANGED vars
    BY <1>2 DEF vars, PlaceInv
<1>3. CASE LoadFixtures \/ Setup
    BY <1>3 DEF LoadFixtures, Setup, PlaceInv, Steps, Stages
<1>4. CASE Ingest \/ Review \/ Retrieve
    BY <1>4 DEF Ingest, Review, Retrieve, SimpleStage, GoesOn, Returns, Same, PlaceInv, Steps, Stages
<1>5. CASE Extract \/ VerifyText \/ VerifyVisuals
    BY <1>5 DEF Extract, VerifyText, VerifyVisuals, GoesOn, Returns, Same, PlaceInv, Steps, Stages
<1>6. CASE EnsureCollection \/ IndexVariant
    BY <1>6 DEF EnsureCollection, IndexVariant, GoesOn, Returns, Same, PlaceInv, Steps, Stages
<1>7. CASE CheckCapability
    BY <1>1, <1>7 DEF CheckCapability, GoesOn, Returns, Same, PlaceInv, Steps
<1>8. CASE QuestionFails \/ QuestionsEnd
    BY <1>8 DEF QuestionFails, QuestionsEnd, GoesOn, Returns, Same, PlaceInv, Steps
<1>9. CASE ProbeIsNotExecuted \/ AnswerIsGraded
  <2>1. question \in Questions /\ question' \in {question, question + 1}
        /\ step' \in {"questions", "cleanup"} /\ exit' = exit
      BY <1>9 DEF ProbeIsNotExecuted, AnswerIsGraded, GoesOn, Returns, Same, SmokeInv
  <2> QED BY <1>1, <2>1 DEF PlaceInv, Steps, Questions
<1>10. CASE Cleanup
    BY <1>1, <1>10 DEF Cleanup, ExitCode, PlaceInv, Steps
<1> QED BY <1>2, <1>3, <1>4, <1>5, <1>6, <1>7, <1>8, <1>9, <1>10 DEF Next

\* The harness keeps its records in shape.
THEOREM TypeInvariant == Spec => []TypeOK
<1>1. SmokeInv /\ PlaceInv => TypeOK
    BY DEF SmokeInv, PlaceInv, Steps, RunRecords, Checks, TypeOK
<1> QED BY <1>1, SmokeInit, SmokeStep, PlaceInit, PlaceStep, PTL DEF Spec
=============================================================================
