---------------------- MODULE DocumentLifecycleProofs ----------------------
(***************************************************************************)
(* Proofs about the way of a document to the searches, for any numbers of  *)
(* requests, findings, extractions and deaths.                             *)
(***************************************************************************)
EXTENDS DocumentLifecycle, TLAPS

-----------------------------------------------------------------------------
(* Type correctness. *)

\* A commit leaves a row of the type: each column is old or new.
LEMMA CommitType ==
    ASSUME doc \in Document, NEW seen \in Document, NEW new \in Document
    PROVE  Commit(seen, new) \in Document
  BY DEF Commit, Document

LEMMA MoveType ==
    ASSUME TypeOK, NEW s \in Requests, NEW session \in Sessions, Goto(s, session)
    PROVE  requests' \in [Requests -> Sessions]
  BY DEF TypeOK, Goto

LEMMA IdleType == Idle \in Sessions
  BY DEF Idle, Sessions, Uploaded, Document, Statuses, None

LEMMA FinishType ==
    ASSUME TypeOK, NEW s \in Requests, Finish(s)
    PROVE  requests' \in [Requests -> Sessions]
  BY IdleType, MoveType DEF Finish

LEMMA EditTypes ==
    ASSUME TypeOK, NEW e \in Ids, NEW f \in Findings, NEW d \in {"ACCEPTED", "REJECTED"}
    PROVE  EditOf(e, f, d) \in Edits
  BY DEF EditOf, Edits, TypeOK

\* The texts the gate scans are texts.
LEMMA TextTypes == TypeOK => MaskedTexts \in SUBSET SUBSET Findings
  BY DEF MaskedTexts, TypeOK, Pages

LEMMA TypeInit == Init => TypeOK
<1> SUFFICES ASSUME Init PROVE TypeOK
  OBVIOUS
<1>1. doc \in Document
  BY DEF Init, Uploaded, Document, Statuses, None
<1>2. pages \in [Ids -> Pages] /\ findings \in [Ids -> [Findings -> Finding]]
  BY DEF Init, NoPages, Pages, NoFinding, Finding
<1>3. requests \in [Requests -> Sessions]
  BY IdleType DEF Init
<1>4. QED
  BY <1>1, <1>2, <1>3 DEF Init, TypeOK

LEMMA TypeBegin ==
    ASSUME TypeOK, NEW s \in Requests, Begin(s)
    PROVE  TypeOK'
<1>1. doc \in Document /\ doc.version \in Nat
  BY DEF TypeOK, Document
<1>2. CASE ExtractRead(s)
  <2>1. extractions + 1 \in Nat
    BY DEF TypeOK
  <2>2. [Idle EXCEPT !.step = "queue", !.seen = doc, !.id = extractions + 1] \in Sessions
    BY <1>1, <2>1, IdleType DEF Sessions, ExtractSteps
  <2>3. QED
    BY <1>2, <2>1, <2>2, MoveType DEF ExtractRead, TypeOK
<1>3. CASE DecideRead(s)
  <2>1. PICK e \in Ids, f \in Findings, d \in {"ACCEPTED", "REJECTED"} :
           Goto(s, [Idle EXCEPT !.step = "decide", !.edits = {EditOf(e, f, d)}])
    BY <1>3 DEF DecideRead
  <2>2. {EditOf(e, f, d)} \in SUBSET Edits
    BY EditTypes
  <2>3. [Idle EXCEPT !.step = "decide", !.edits = {EditOf(e, f, d)}] \in Sessions
    BY <2>2, IdleType DEF Sessions
  <2>4. QED
    BY <1>3, <2>1, <2>3, MoveType DEF DecideRead, TypeOK
<1>4. CASE AcceptAllRead(s)
  <2> DEFINE pending == {p \in Ids \X HighConfidence : findings[p[1]][p[2]].status = "PENDING"}
             edits == {EditOf(p[1], p[2], "ACCEPTED") : p \in pending}
  <2>1. Goto(s, [Idle EXCEPT !.step = "decide", !.edits = edits])
    BY <1>4 DEF AcceptAllRead
  <2>2. edits \in SUBSET Edits
    <3>1. \A p \in pending : p[1] \in Ids /\ p[2] \in Findings
      BY FindingsAssumption
    <3>2. QED
      BY <3>1, EditTypes
  <2> HIDE DEF edits
  <2>3. [Idle EXCEPT !.step = "decide", !.edits = edits] \in Sessions
    BY <2>2, IdleType DEF Sessions
  <2>4. QED
    BY <1>4, <2>1, <2>3, MoveType DEF AcceptAllRead, TypeOK
<1>5. CASE ApproveRead(s)
  <2>1. [Idle EXCEPT !.step = "mask", !.seen = doc] \in Sessions
    BY <1>1, IdleType DEF Sessions
  <2>2. QED
    BY <1>5, <2>1, MoveType DEF ApproveRead, TypeOK
<1>6. CASE IndexRead(s)
  <2>1. [Idle EXCEPT !.step = "gate", !.seen = doc, !.target = doc.version] \in Sessions
    BY <1>1, IdleType DEF Sessions
  <2>2. QED
    BY <1>6, <2>1, MoveType DEF IndexRead, TypeOK
<1>7. QED
  BY <1>2, <1>3, <1>4, <1>5, <1>6 DEF Begin

\* What a request holds of the row, and the rows it may want to commit.
LEMMA SeenTypes ==
    ASSUME TypeOK, NEW s \in Requests
    PROVE  /\ requests[s] \in Sessions
           /\ requests[s].seen \in Document
           /\ \A status \in Statuses : [requests[s].seen EXCEPT !.status = status] \in Document
           /\ \A status \in Statuses :
                 [requests[s].seen EXCEPT !.status = status, !.version = @ + 1] \in Document
           /\ \A status \in Statuses :
                 [requests[s].seen EXCEPT !.status = status, !.active = requests[s].target]
                    \in Document
<1>1. requests[s] \in Sessions
  BY DEF TypeOK
<1>2. requests[s].seen \in Document /\ requests[s].target \in Nat
  BY <1>1 DEF Sessions
<1>3. requests[s].seen.version + 1 \in Nat
  BY <1>2 DEF Document
<1>4. \A status \in Statuses : [requests[s].seen EXCEPT !.status = status] \in Document
  BY <1>2 DEF Document
<1>5. \A status \in Statuses :
         [requests[s].seen EXCEPT !.status = status, !.version = @ + 1] \in Document
  BY <1>2, <1>3 DEF Document
<1>6. \A status \in Statuses :
         [requests[s].seen EXCEPT !.status = status, !.active = requests[s].target] \in Document
  BY <1>2 DEF Document
<1>7. QED
  BY <1>1, <1>2, <1>4, <1>5, <1>6

LEMMA TypeExtract ==
    ASSUME TypeOK, NEW s \in Requests,
           \/ ExtractQueue(s) \/ ExtractStart(s) \/ ExtractText(s) \/ ExtractDone(s)
           \/ ExtractFails(s) \/ ExtractReports(s)
    PROVE  TypeOK'
<1> DEFINE seen == requests[s].seen
<1>1. requests[s] \in Sessions /\ seen \in Document /\ doc \in Document
  BY SeenTypes DEF TypeOK
<1>2. CASE ExtractQueue(s)
  <2>1. doc' \in Document
    BY <1>1, <1>2, SeenTypes, CommitType DEF ExtractQueue, Statuses
  <2>2. [requests[s] EXCEPT !.step = "start", !.seen = doc'] \in Sessions
    BY <1>1, <2>1 DEF Sessions, ExtractSteps
  <2>3. QED
    BY <1>2, <2>1, <2>2, MoveType DEF ExtractQueue, TypeOK
<1>3. CASE ExtractStart(s)
  <2>1. doc' \in Document
    BY <1>1, <1>3, SeenTypes, CommitType DEF ExtractStart, Statuses
  <2>2. [requests[s] EXCEPT !.step = "extract", !.seen.status = "EXTRACTING"] \in Sessions
    BY <1>1 DEF Sessions, ExtractSteps, Document, Statuses
  <2>3. QED
    BY <1>3, <2>1, <2>2, MoveType DEF ExtractStart, TypeOK
<1>4. CASE ExtractText(s)
  <2>1. [requests[s] EXCEPT !.step = "store", !.read = Stored] \in Sessions
    BY <1>1 DEF Sessions, ExtractSteps, Stored
  <2>2. QED
    BY <1>4, <2>1, MoveType DEF ExtractText, TypeOK
<1>5. CASE ExtractDone(s)
  <2>1. doc' \in Document
    BY <1>1, <1>5, SeenTypes, CommitType DEF ExtractDone, Statuses
  <2>2. findings' \in [Ids -> [Findings -> Finding]]
    <3>1. [status |-> "PENDING", version |-> 1] \in Finding /\ NoFinding \in Finding
      BY DEF Finding, NoFinding
    <3>2. QED
      BY <1>5, <3>1 DEF ExtractDone, TypeOK
  <2>3. pages' \in [Ids -> Pages]
    BY <1>5 DEF ExtractDone, TypeOK, Pages, NoPages
  <2>4. [requests[s] EXCEPT !.step = "fail"] \in Sessions
    BY <1>1 DEF Sessions, ExtractSteps
  <2>5. requests' \in [Requests -> Sessions]
    BY <1>5, <2>4, MoveType, FinishType DEF ExtractDone
  <2>6. QED
    BY <1>5, <2>1, <2>2, <2>3, <2>5 DEF ExtractDone, TypeOK
<1>6. CASE ExtractFails(s)
  <2>1. [requests[s] EXCEPT !.step = "fail"] \in Sessions
    BY <1>1 DEF Sessions, ExtractSteps
  <2>2. QED
    BY <1>6, <2>1, MoveType DEF ExtractFails, TypeOK
<1>7. CASE ExtractReports(s)
  <2>1. doc.version + 1 \in Nat
    BY <1>1 DEF Document
  <2>2. doc' \in Document
    BY <1>1, <1>7, <2>1 DEF ExtractReports, Document, Statuses
  <2>3. QED
    BY <1>7, <2>2, FinishType DEF ExtractReports, TypeOK
<1>8. QED
  BY <1>2, <1>3, <1>4, <1>5, <1>6, <1>7

LEMMA TypeDecide ==
    ASSUME TypeOK, NEW s \in Requests, DecideCommit(s)
    PROVE  TypeOK'
<1> DEFINE edits == requests[s].edits
           On(e, f) == {edit \in edits : edit.id = e /\ edit.finding = f}
<1>1. edits \in SUBSET Edits
  BY DEF TypeOK, Sessions
<1>2. ASSUME NEW e \in Ids, NEW f \in Findings, On(e, f) # {}
      PROVE  Edited(CHOOSE edit \in On(e, f) : TRUE) \in Finding
  <2>1. PICK edit : edit = CHOOSE x \in On(e, f) : TRUE
    OBVIOUS
  <2>2. edit \in Edits /\ edit.id = e /\ edit.finding = f
    BY <1>1, <1>2, <2>1
  <2>3. findings[edit.id][edit.finding] \in Finding
    BY <2>2 DEF TypeOK
  <2>4. Edited(edit) \in Finding
    BY <2>2, <2>3 DEF Edited, Edits, Finding
  <2>5. QED
    BY <2>1, <2>4
<1>3. findings' = [e \in Ids |-> [f \in Findings |->
         IF On(e, f) = {} THEN findings[e][f] ELSE Edited(CHOOSE edit \in On(e, f) : TRUE)]]
  BY DEF DecideCommit
<1> HIDE DEF On
<1>4. findings' \in [Ids -> [Findings -> Finding]]
  BY <1>2, <1>3 DEF TypeOK
<1>5. QED
  BY <1>4, FinishType DEF DecideCommit, TypeOK

LEMMA TypeReview ==
    ASSUME TypeOK, NEW s \in Requests, ApproveMask(s) \/ ApproveCommit(s)
    PROVE  TypeOK'
<1>1. requests[s] \in Sessions /\ requests[s].seen \in Document /\ doc \in Document
  BY SeenTypes DEF TypeOK
<1>2. CASE ApproveMask(s)
  <2> DEFINE hidden == {f \in Findings : \E e \in Ids : findings[e][f].status = "ACCEPTED"}
  <2>1. [requests[s] EXCEPT !.step = "approve", !.read = Stored, !.hidden = hidden] \in Sessions
    <3>1. hidden \in SUBSET Findings /\ Stored \in SUBSET Ids
      BY DEF Stored
    <3> HIDE DEF hidden
    <3>2. QED
      BY <1>1, <3>1 DEF Sessions
  <2>2. QED
    BY <1>2, <2>1, MoveType DEF ApproveMask, TypeOK
<1>3. CASE ApproveCommit(s)
  <2>1. doc' \in Document
    BY <1>1, <1>3, SeenTypes, CommitType DEF ApproveCommit, ApprovedStatus, Statuses
  <2>2. [state |-> "masked", hidden |-> requests[s].hidden] \in Pages
    BY <1>1 DEF Sessions, Pages
  <2>3. pages' \in [Ids -> Pages]
    BY <1>3, <2>2 DEF ApproveCommit, TypeOK
  <2>4. QED
    BY <1>3, <2>1, <2>3, FinishType DEF ApproveCommit, TypeOK
<1>4. QED
  BY <1>2, <1>3

LEMMA TypeIndex ==
    ASSUME TypeOK, NEW s \in Requests,
           IndexGate(s) \/ IndexDone(s) \/ IndexFails(s) \/ IndexReports(s)
    PROVE  TypeOK'
<1>1. requests[s] \in Sessions /\ requests[s].seen \in Document /\ doc \in Document
  BY SeenTypes DEF TypeOK
<1>2. CASE IndexGate(s)
  <2>1. doc' \in Document
    BY <1>1, <1>2, SeenTypes, CommitType DEF IndexGate, Statuses
  <2>2. [requests[s] EXCEPT !.step = "index", !.seen = doc', !.text = MaskedTexts] \in Sessions
    BY <1>1, <2>1, TextTypes DEF Sessions
  <2>3. QED
    BY <1>2, <2>1, <2>2, MoveType DEF IndexGate, TypeOK
<1>3. CASE IndexDone(s)
  <2>1. doc' \in Document
    BY <1>1, <1>3, SeenTypes, CommitType DEF IndexDone, Statuses
  <2>2. served' \in SUBSET SUBSET Findings
    BY <1>1, <1>3 DEF IndexDone, TextToIndex, Sessions
  <2>3. QED
    BY <1>3, <2>1, <2>2, FinishType DEF IndexDone, TypeOK
<1>4. CASE IndexFails(s)
  <2>1. [requests[s] EXCEPT !.step = "report", !.seen = doc] \in Sessions
    BY <1>1 DEF Sessions
  <2>2. QED
    BY <1>4, <2>1, MoveType DEF IndexFails, TypeOK
<1>5. CASE IndexReports(s)
  <2>1. doc' \in Document
    BY <1>1, <1>5, SeenTypes, CommitType DEF IndexReports, Statuses
  <2>2. QED
    BY <1>5, <2>1, FinishType DEF IndexReports, TypeOK
<1>6. QED
  BY <1>2, <1>3, <1>4, <1>5

LEMMA TypeStep == TypeOK /\ [Next]_vars => TypeOK'
<1> SUFFICES ASSUME TypeOK, [Next]_vars PROVE TypeOK'
  OBVIOUS
<1>1. CASE UNCHANGED vars
  BY <1>1 DEF vars, TypeOK
<1>2. ASSUME NEW s \in Requests, Begin(s) PROVE TypeOK'
  BY <1>2, TypeBegin
<1>3. ASSUME NEW s \in Requests, Step(s) PROVE TypeOK'
  <2>1. CASE RequestFails(s)
    BY <2>1, FinishType DEF RequestFails, TypeOK
  <2>2. QED
    BY <1>3, <2>1, TypeExtract, TypeDecide, TypeReview, TypeIndex DEF Step
<1>4. ASSUME NEW s \in Requests, RequestDies(s) PROVE TypeOK'
  BY <1>4, FinishType DEF RequestDies, TypeOK
<1>5. QED
  BY <1>1, <1>2, <1>3, <1>4 DEF Next

\* The rows, the sessions and the bounds stay in their types, and no commit
\* leaves a document REDACTION_APPROVED.
THEOREM TypeInvariant == Spec => []TypeOK
  BY TypeInit, TypeStep, PTL DEF Spec
-----------------------------------------------------------------------------
(***************************************************************************)
(* Where a request goes, and what it takes with it.                        *)
(***************************************************************************)

Goes(s, step) ==
    /\ requests'[s].step = step
    /\ \A t \in Requests : t # s => requests'[t] = requests[t]

LEMMA Moves ==
    ASSUME TypeOK, NEW s \in Requests, NEW session, Goto(s, session)
    PROVE  requests'[s] = session /\ Goes(s, session.step)
  BY DEF TypeOK, Goto, Goes

LEMMA FinishMoves ==
    ASSUME TypeOK, NEW s \in Requests, Finish(s)
    PROVE  Goes(s, "idle")
  BY Moves DEF Finish, Idle

LEMMA BeginMoves ==
    ASSUME TypeOK, NEW s \in Requests
    PROVE  /\ ExtractRead(s) => Goes(s, "queue") /\ requests'[s].seen = doc
           /\ DecideRead(s) \/ AcceptAllRead(s) => Goes(s, "decide")
           /\ ApproveRead(s) => Goes(s, "mask") /\ requests'[s].seen = doc
           /\ IndexRead(s) => Goes(s, "gate") /\ requests'[s].seen = doc
<1>1. ASSUME ExtractRead(s) PROVE Goes(s, "queue") /\ requests'[s].seen = doc
  <2>1. LET n == [Idle EXCEPT !.step = "queue", !.seen = doc, !.id = extractions + 1]
        IN  requests'[s] = n /\ Goes(s, n.step)
    BY <1>1, Moves DEF ExtractRead
  <2>2. QED
    BY <2>1 DEF Idle
<1>2. ASSUME DecideRead(s) PROVE Goes(s, "decide")
  <2>1. PICK e \in Ids, f \in Findings, d \in {"ACCEPTED", "REJECTED"} :
           Goto(s, [Idle EXCEPT !.step = "decide", !.edits = {EditOf(e, f, d)}])
    BY <1>2 DEF DecideRead
  <2>2. Goes(s, [Idle EXCEPT !.step = "decide", !.edits = {EditOf(e, f, d)}].step)
    BY <2>1, Moves
  <2>3. QED
    BY <2>2 DEF Idle
<1>3. ASSUME AcceptAllRead(s) PROVE Goes(s, "decide")
  <2>1. PICK edits : Goto(s, [Idle EXCEPT !.step = "decide", !.edits = edits])
    BY <1>3 DEF AcceptAllRead
  <2>2. Goes(s, [Idle EXCEPT !.step = "decide", !.edits = edits].step)
    BY <2>1, Moves
  <2>3. QED
    BY <2>2 DEF Idle
<1>4. ASSUME ApproveRead(s) PROVE Goes(s, "mask") /\ requests'[s].seen = doc
  <2>1. LET n == [Idle EXCEPT !.step = "mask", !.seen = doc]
        IN  requests'[s] = n /\ Goes(s, n.step)
    BY <1>4, Moves DEF ApproveRead
  <2>2. QED
    BY <2>1 DEF Idle
<1>5. ASSUME IndexRead(s) PROVE Goes(s, "gate") /\ requests'[s].seen = doc
  <2>1. LET n == [Idle EXCEPT !.step = "gate", !.seen = doc, !.target = doc.version]
        IN  requests'[s] = n /\ Goes(s, n.step)
    BY <1>5, Moves DEF IndexRead
  <2>2. QED
    BY <2>1 DEF Idle
<1>6. QED
  BY <1>1, <1>2, <1>3, <1>4, <1>5

LEMMA StepMoves ==
    ASSUME TypeOK, NEW s \in Requests
    PROVE  /\ ExtractQueue(s) => Goes(s, "start")
           /\ ExtractStart(s) => Goes(s, "extract") /\ requests'[s].seen.status = "EXTRACTING"
           /\ ExtractText(s) => Goes(s, "store") /\ requests'[s].seen = requests[s].seen
           /\ ExtractDone(s) => Goes(s, "idle") \/ Goes(s, "fail")
           /\ ExtractFails(s) => Goes(s, "fail")
           /\ ApproveMask(s) => /\ Goes(s, "approve")
                                /\ requests'[s].seen = requests[s].seen
                                /\ requests'[s].read = Stored
           /\ IndexGate(s) => /\ Goes(s, "index")
                              /\ requests'[s].seen = doc'
                              /\ requests'[s].text = MaskedTexts
           /\ IndexFails(s) => Goes(s, "report") /\ requests'[s].seen = doc
<1> DEFINE r == requests[s]
<1>1. r \in Sessions /\ r.seen \in Document
  BY SeenTypes
<1>2. ASSUME ExtractQueue(s) PROVE Goes(s, "start")
  <2>1. Goes(s, [r EXCEPT !.step = "start", !.seen = doc'].step)
    BY <1>2, Moves DEF ExtractQueue
  <2>2. QED
    BY <1>1, <2>1 DEF Sessions
<1>3. ASSUME ExtractStart(s)
      PROVE  Goes(s, "extract") /\ requests'[s].seen.status = "EXTRACTING"
  <2>1. LET n == [r EXCEPT !.step = "extract", !.seen.status = "EXTRACTING"]
        IN  requests'[s] = n /\ Goes(s, n.step)
    BY <1>3, Moves DEF ExtractStart
  <2>2. QED
    BY <1>1, <2>1 DEF Sessions, Document
<1>4. ASSUME ExtractText(s) PROVE Goes(s, "store") /\ requests'[s].seen = r.seen
  <2>1. LET n == [r EXCEPT !.step = "store", !.read = Stored]
        IN  requests'[s] = n /\ Goes(s, n.step)
    BY <1>4, Moves DEF ExtractText
  <2>2. QED
    BY <1>1, <2>1 DEF Sessions
<1>5. ASSUME ExtractDone(s) PROVE Goes(s, "idle") \/ Goes(s, "fail")
  <2>1. Finish(s) \/ Goes(s, [r EXCEPT !.step = "fail"].step)
    BY <1>5, Moves DEF ExtractDone
  <2>2. QED
    BY <1>1, <2>1, FinishMoves DEF Sessions
<1>6. ASSUME ExtractFails(s) PROVE Goes(s, "fail")
  <2>1. Goes(s, [r EXCEPT !.step = "fail"].step)
    BY <1>6, Moves DEF ExtractFails
  <2>2. QED
    BY <1>1, <2>1 DEF Sessions
<1>7. ASSUME ApproveMask(s)
      PROVE  Goes(s, "approve") /\ requests'[s].seen = r.seen /\ requests'[s].read = Stored
  <2>1. PICK h : LET n == [r EXCEPT !.step = "approve", !.read = Stored, !.hidden = h]
                 IN  Goto(s, n)
    BY <1>7 DEF ApproveMask
  <2>2. LET n == [r EXCEPT !.step = "approve", !.read = Stored, !.hidden = h]
        IN  requests'[s] = n /\ Goes(s, n.step)
    BY <2>1, Moves
  <2>3. QED
    BY <1>1, <2>2 DEF Sessions
<1>8. ASSUME IndexGate(s)
      PROVE  /\ Goes(s, "index") /\ requests'[s].seen = doc'
             /\ requests'[s].text = MaskedTexts
  <2>1. LET n == [r EXCEPT !.step = "index", !.seen = doc', !.text = MaskedTexts]
        IN  requests'[s] = n /\ Goes(s, n.step)
    BY <1>8, Moves DEF IndexGate
  <2>2. QED
    BY <1>1, <2>1 DEF Sessions
<1>9. ASSUME IndexFails(s) PROVE Goes(s, "report") /\ requests'[s].seen = doc
  <2>1. LET n == [r EXCEPT !.step = "report", !.seen = doc]
        IN  requests'[s] = n /\ Goes(s, n.step)
    BY <1>9, Moves DEF IndexFails
  <2>2. QED
    BY <1>1, <2>1 DEF Sessions
<1>10. QED
  BY <1>2, <1>3, <1>4, <1>5, <1>6, <1>7, <1>8, <1>9
-----------------------------------------------------------------------------
(***************************************************************************)
(* What is served has been scanned.                                        *)
(***************************************************************************)

\* What the gate has passed to a request is clean until it is served: nobody
\* but the request has it.
ScanInv ==
    /\ TypeOK
    /\ ServedTextIsMasked
    /\ \A s \in Requests : At(s, "index") => \A text \in requests[s].text : IsClean(text)

LEMMA ScanInit == Init => ScanInv
  BY TypeInit DEF Init, ScanInv, ServedTextIsMasked, At, Idle

\* Only the gate lets a request index, and only the activation serves.
LEMMA OthersDoNotServe ==
    ASSUME TypeOK, NEW s \in Requests, Begin(s) \/ Step(s) \/ RequestDies(s),
           ~IndexGate(s), ~IndexDone(s)
    PROVE  /\ served' = served
           /\ \A t \in Requests : t # s => requests'[t] = requests[t]
           /\ requests'[s].step # "index"
<1>1. CASE Begin(s)
  <2>1. served' = served
    BY <1>1 DEF Begin, ExtractRead, DecideRead, AcceptAllRead, ApproveRead, IndexRead
  <2>2. QED
    BY <1>1, <2>1, BeginMoves DEF Begin, Goes
<1>2. CASE \/ ExtractQueue(s) \/ ExtractStart(s) \/ ExtractText(s) \/ ExtractDone(s)
           \/ ExtractFails(s) \/ ApproveMask(s) \/ IndexFails(s)
  <2>1. served' = served
    BY <1>2 DEF ExtractQueue, ExtractStart, ExtractText, ExtractDone, ExtractFails,
                ApproveMask, IndexFails
  <2>2. QED
    BY <1>2, <2>1, StepMoves DEF Goes
<1>3. CASE \/ ExtractReports(s) \/ DecideCommit(s) \/ ApproveCommit(s)
           \/ IndexReports(s) \/ RequestFails(s) \/ RequestDies(s)
  <2>1. served' = served /\ Finish(s)
    BY <1>3 DEF ExtractReports, DecideCommit, ApproveCommit, IndexReports, RequestFails,
                RequestDies
  <2>2. QED
    BY <2>1, FinishMoves DEF Goes
<1>4. QED
  BY <1>1, <1>2, <1>3 DEF Step

LEMMA ScanStep == ScanInv /\ [Next]_vars => ScanInv'
<1> SUFFICES ASSUME ScanInv, [Next]_vars PROVE ScanInv'
  OBVIOUS
<1>1. TypeOK' /\ TypeOK
  BY TypeStep DEF ScanInv
<1>2. CASE UNCHANGED vars
  BY <1>1, <1>2 DEF vars, ScanInv, ServedTextIsMasked, At
<1>3. ASSUME NEW s \in Requests, Begin(s) \/ Step(s) \/ RequestDies(s),
             ~IndexGate(s), ~IndexDone(s)
      PROVE  ScanInv'
  BY <1>1, <1>3, OthersDoNotServe DEF ScanInv, ServedTextIsMasked, At
<1>4. ASSUME NEW s \in Requests, IndexGate(s) PROVE ScanInv'
  <2>1. served' = served /\ \A text \in MaskedTexts : IsClean(text)
    BY <1>4 DEF IndexGate
  <2>2. QED
    BY <1>1, <1>4, <2>1, StepMoves DEF ScanInv, ServedTextIsMasked, At, Goes
<1>5. ASSUME NEW s \in Requests, IndexDone(s) PROVE ScanInv'
  <2>1. served' = requests[s].text /\ At(s, "index") /\ Finish(s)
    BY <1>5 DEF IndexDone, TextToIndex
  <2>2. QED
    BY <1>1, <2>1, FinishMoves DEF ScanInv, ServedTextIsMasked, At, Goes
<1>6. QED
  BY <1>2, <1>3, <1>4, <1>5 DEF Next

\* The searches get text the privacy gate has scanned, however many extractions,
\* reviews, approvals and indexings of the document overlap.
THEOREM ServedIsScanned == Spec => []ServedTextIsMasked
<1>1. ScanInv => ServedTextIsMasked
  BY DEF ScanInv
<1>2. QED
  BY <1>1, ScanInit, ScanStep, PTL DEF Spec
-----------------------------------------------------------------------------
(***************************************************************************)
(* What is past its review has been reviewed, as long as extractions are   *)
(* apart from the other requests on the document.                          *)
(***************************************************************************)

Ready == {"INDEX_READY", "INDEXING", "INDEXED"}
Unreviewed == {"ENCRYPTED", "EXTRACTION_QUEUED", "EXTRACTING", "EXTRACTION_FAILED",
               "REVIEW_REQUIRED"}
Working == {"mask", "approve", "gate", "index", "report"}

AllMasked == \A e \in Stored : pages[e].state = "masked"
Reviewed == ~Undecided /\ AllMasked

\* Nothing takes a document with an active version back to its review.
DocInv ==
    /\ doc.status \in Ready => Reviewed
    /\ doc.active # None => Reviewed /\ doc.status \notin Unreviewed

\* What a request has found to be so is so when it commits.
SessionInv(s) ==
    LET step == requests[s].step
        seen == requests[s].seen
    IN  /\ step \in ExtractSteps => doc.status \in Unreviewed
        /\ step = "queue" => seen.status \in {"ENCRYPTED", "EXTRACTION_FAILED"}
        /\ step \in {"extract", "store"} => seen.status = "EXTRACTING"
        /\ step \in {"mask", "approve"} => seen.status = "REVIEW_REQUIRED" /\ ~Undecided
        /\ step = "approve" => Stored \subseteq requests[s].read
        /\ step = "gate" /\ seen.status \in {"INDEX_READY", "INDEXED"} => Reviewed
        /\ step = "index" => seen.status = "INDEXING" /\ Reviewed
        /\ step = "report" /\ seen.active # None => Reviewed

Apart ==
    \A s, t \in Requests :
        s # t /\ requests[s].step \in ExtractSteps
            => requests[t].step \notin ExtractSteps \union Working

ReviewInv ==
    /\ TypeOK
    /\ DocInv
    /\ Apart
    /\ \A s \in Requests : SessionInv(s)

\* Steps that undo nothing of a review.
ReviewKept ==
    /\ Stored' = Stored
    /\ ~Undecided => ~Undecided'
    /\ AllMasked => AllMasked'

LEMMA RowsKept == pages' = pages /\ findings' = findings => ReviewKept
  BY DEF ReviewKept, Stored, Undecided, AllMasked

\* A step of one request that undoes nothing.
LEMMA OneGoes ==
    ASSUME ReviewInv, TypeOK', NEW s \in Requests, Goes(s, requests'[s].step),
           ReviewKept, DocInv', SessionInv(s)',
           requests'[s].step \in ExtractSteps =>
               \/ requests[s].step \in ExtractSteps
               \/ ~InFlight(ExtractSteps) /\ ~OthersInFlight,
           requests'[s].step \in Working =>
               requests[s].step \in Working \/ ~InFlight(ExtractSteps),
           requests[s].step \in ExtractSteps \union Working \/ doc' = doc
    PROVE  ReviewInv'
<1>1. ASSUME NEW t \in Requests, t # s PROVE requests'[t] = requests[t]
  BY <1>1 DEF Goes
<1>2. ASSUME NEW t \in Requests, t # s PROVE SessionInv(t)'
  <2>1. requests[t].step \in ExtractSteps => doc' = doc
    BY <1>2 DEF ReviewInv, Apart
  <2>2. QED
    BY <1>1, <1>2, <2>1 DEF ReviewInv, SessionInv, ReviewKept, Reviewed
<1>3. Apart'
  BY <1>1 DEF ReviewInv, Apart, InFlight, OthersInFlight, Working
<1>4. QED
  BY <1>2, <1>3 DEF ReviewInv

LEMMA ReviewInit == Init => ReviewInv
<1> SUFFICES ASSUME Init PROVE ReviewInv
  OBVIOUS
<1>1. doc.status \notin Ready /\ doc.active = None
  BY DEF Init, Uploaded, Ready
<1>2. \A s \in Requests : requests[s].step = "idle"
  BY DEF Init, Idle
<1>3. QED
  BY <1>1, <1>2, TypeInit DEF ReviewInv, DocInv, Apart, SessionInv, ExtractSteps

\* A request begins with the document as it is.
LEMMA ReviewBegins ==
    ASSUME ExtractionApart, ReviewInv, TypeOK', NEW s \in Requests, Begin(s)
    PROVE  ReviewInv'
<1>1. TypeOK /\ DocInv
  BY DEF ReviewInv
<1>2. doc' = doc /\ pages' = pages /\ findings' = findings
  BY DEF Begin, ExtractRead, DecideRead, AcceptAllRead, ApproveRead, IndexRead
<1>3. ReviewKept /\ DocInv'
  BY <1>1, <1>2, RowsKept DEF ReviewKept, DocInv, Reviewed
<1>4. CASE ExtractRead(s)
  <2>1. /\ doc.status \in {"ENCRYPTED", "EXTRACTION_FAILED"}
        /\ ~InFlight(ExtractSteps) /\ ~OthersInFlight
    BY <1>4 DEF ExtractRead
  <2>2. Goes(s, "queue") /\ requests'[s].step = "queue" /\ requests'[s].seen = doc
    BY <1>1, <1>4, BeginMoves DEF Goes
  <2>3. SessionInv(s)'
    BY <1>2, <2>1, <2>2 DEF SessionInv, ExtractSteps, Unreviewed
  <2>4. QED
    BY <1>2, <1>3, <2>1, <2>2, <2>3, OneGoes DEF ExtractSteps, Working
<1>5. CASE DecideRead(s) \/ AcceptAllRead(s)
  <2>1. Goes(s, "decide") /\ requests'[s].step = "decide"
    BY <1>1, <1>5, BeginMoves DEF Goes
  <2>2. SessionInv(s)'
    BY <2>1 DEF SessionInv, ExtractSteps
  <2>3. QED
    BY <1>2, <1>3, <2>1, <2>2, OneGoes DEF ExtractSteps, Working
<1>6. CASE ApproveRead(s)
  <2>1. doc.status = "REVIEW_REQUIRED" /\ ~Undecided /\ ~InFlight(ExtractSteps)
    BY <1>6 DEF ApproveRead, Approvable
  <2>2. Goes(s, "mask") /\ requests'[s].step = "mask" /\ requests'[s].seen = doc
    BY <1>1, <1>6, BeginMoves DEF Goes
  <2>3. SessionInv(s)'
    BY <1>3, <2>1, <2>2 DEF SessionInv, ExtractSteps, ReviewKept
  <2>4. QED
    BY <1>2, <1>3, <2>1, <2>2, <2>3, OneGoes DEF ExtractSteps, Working
<1>7. CASE IndexRead(s)
  <2>1. ~InFlight(ExtractSteps)
    BY <1>7 DEF IndexRead
  <2>2. Goes(s, "gate") /\ requests'[s].step = "gate" /\ requests'[s].seen = doc
    BY <1>1, <1>7, BeginMoves DEF Goes
  <2>3. SessionInv(s)'
    BY <1>1, <1>3, <2>2 DEF SessionInv, ExtractSteps, ReviewKept, DocInv, Reviewed, Ready
  <2>4. QED
    BY <1>2, <1>3, <2>1, <2>2, <2>3, OneGoes DEF ExtractSteps, Working
<1>8. QED
  BY <1>4, <1>5, <1>6, <1>7 DEF Begin

LEMMA ReviewEnds ==
    ASSUME ReviewInv, TypeOK', NEW s \in Requests, Finish(s), ReviewKept, DocInv',
           requests[s].step \in ExtractSteps \union Working \/ doc' = doc
    PROVE  ReviewInv'
<1>1. Goes(s, "idle") /\ requests'[s].step = "idle"
  BY FinishMoves DEF ReviewInv, Goes
<1>2. SessionInv(s)'
  BY <1>1 DEF SessionInv, ExtractSteps
<1>3. QED
  BY <1>1, <1>2, OneGoes DEF ExtractSteps, Working

\* What a commit does to the two columns that matter here.
LEMMA CommitColumns ==
    ASSUME doc \in Document, NEW seen \in Document, NEW new \in Document
    PROVE  /\ Commit(seen, new).status =
                 IF new.status = seen.status THEN doc.status ELSE new.status
           /\ new.active = seen.active => Commit(seen, new).active = doc.active
  BY DEF Commit, Document

LEMMA StatusCommit ==
    ASSUME TypeOK, NEW s \in Requests, NEW status \in Statuses,
           \/ doc' = Commit(requests[s].seen, [requests[s].seen EXCEPT !.status = status])
           \/ doc' = Commit(requests[s].seen,
                            [requests[s].seen EXCEPT !.status = status, !.version = @ + 1])
    PROVE  /\ doc'.status = IF status = requests[s].seen.status THEN doc.status ELSE status
           /\ doc'.active = doc.active
<1> DEFINE seen == requests[s].seen
<1>1. seen \in Document /\ doc \in Document
  BY SeenTypes DEF TypeOK
<1>2. PICK new \in {[seen EXCEPT !.status = status],
                    [seen EXCEPT !.status = status, !.version = @ + 1]} :
         doc' = Commit(seen, new)
  OBVIOUS
<1>3. new \in Document
  BY <1>2, SeenTypes
<1>4. new.status = status /\ new.active = seen.active
  BY <1>1, <1>2 DEF Document
<1>5. QED
  BY <1>1, <1>2, <1>3, <1>4, CommitColumns

\* While an extraction is in flight nothing is served and nobody reviews.
LEMMA ReviewExtracts ==
    ASSUME ReviewInv, TypeOK', NEW s \in Requests,
           \/ ExtractQueue(s) \/ ExtractStart(s) \/ ExtractText(s)
           \/ ExtractFails(s) \/ ExtractReports(s)
    PROVE  ReviewInv'
<1>1. TypeOK /\ DocInv /\ SessionInv(s) /\ doc \in Document
  BY DEF ReviewInv, TypeOK
<1>2. requests[s].step \in ExtractSteps
  BY DEF ExtractQueue, ExtractStart, ExtractText, ExtractFails, ExtractReports, At,
         ExtractSteps
<1>3. doc.status \in Unreviewed /\ doc.active = None
  BY <1>1, <1>2 DEF SessionInv, DocInv
<1>4. ReviewKept
  <2>1. pages' = pages /\ findings' = findings
    BY DEF ExtractQueue, ExtractStart, ExtractText, ExtractFails, ExtractReports
  <2>2. QED
    BY <2>1, RowsKept
<1>5. doc'.status \in Unreviewed /\ doc'.active = None
  <2>1. CASE ExtractQueue(s)
    <3>1. doc'.status = "EXTRACTION_QUEUED" /\ doc'.active = doc.active
      BY <1>1, <2>1, StatusCommit DEF ExtractQueue, At, SessionInv, Statuses
    <3>2. QED
      BY <1>3, <3>1 DEF Unreviewed
  <2>2. CASE ExtractStart(s)
    <3>1. doc'.status = "EXTRACTING" /\ doc'.active = doc.active
      BY <1>1, <2>2, StatusCommit DEF ExtractStart, Statuses
    <3>2. QED
      BY <1>3, <3>1 DEF Unreviewed
  <2>3. CASE ExtractText(s) \/ ExtractFails(s)
    BY <1>3, <2>3 DEF ExtractText, ExtractFails
  <2>4. CASE ExtractReports(s)
    <3>1. doc'.status = "EXTRACTION_FAILED" /\ doc'.active = doc.active
      BY <1>1, <2>4 DEF ExtractReports, Document
    <3>2. QED
      BY <1>3, <3>1 DEF Unreviewed
  <2>5. QED
    BY <2>1, <2>2, <2>3, <2>4
<1>6. DocInv'
  BY <1>5 DEF DocInv, Ready, Unreviewed, None
<1>7. CASE ExtractReports(s)
  BY <1>2, <1>4, <1>6, <1>7, ReviewEnds DEF ExtractReports
<1>8. CASE ExtractQueue(s) \/ ExtractStart(s) \/ ExtractText(s) \/ ExtractFails(s)
  <2>1. /\ requests'[s].step \in {"start", "extract", "store", "fail"}
        /\ Goes(s, requests'[s].step)
        /\ requests'[s].step \in {"extract", "store"} =>
              requests'[s].seen.status = "EXTRACTING"
    <3>1. ExtractText(s) => requests[s].step = "extract"
      BY DEF ExtractText, At
    <3>2. QED
      BY <1>1, <1>8, <3>1, StepMoves DEF Goes, SessionInv
  <2>2. SessionInv(s)'
    BY <1>5, <2>1 DEF SessionInv
  <2>3. QED
    BY <1>2, <1>4, <1>6, <2>1, <2>2, OneGoes DEF Working
<1>9. QED
  BY <1>7, <1>8

\* New pages and findings take the place of others; the document is to be
\* reviewed, and no other request has read more than findings.
LEMMA ReviewStarts ==
    ASSUME ReviewInv, TypeOK', NEW s \in Requests, ExtractDone(s)
    PROVE  ReviewInv'
<1>1. TypeOK /\ DocInv /\ SessionInv(s) /\ requests[s].step = "store"
  BY DEF ReviewInv, ExtractDone, At
<1>2. doc.status \in Unreviewed /\ doc.active = None /\ requests[s].seen.status = "EXTRACTING"
  BY <1>1 DEF SessionInv, DocInv, ExtractSteps
<1>3. doc'.status = "REVIEW_REQUIRED" /\ doc'.active = None
  BY <1>1, <1>2, StatusCommit DEF ExtractDone, Statuses
<1>4. Goes(s, requests'[s].step) /\ requests'[s].step \in {"idle", "fail"}
  BY <1>1, StepMoves DEF Goes
<1>5. \A t \in Requests : t # s => /\ requests'[t] = requests[t]
                                   /\ requests[t].step \notin ExtractSteps \union Working
  BY <1>1, <1>4 DEF Goes, ReviewInv, Apart, ExtractSteps
<1>6. DocInv'
  BY <1>3 DEF DocInv, Ready, None
<1>7. \A t \in Requests : SessionInv(t)'
  BY <1>3, <1>4, <1>5 DEF SessionInv, ExtractSteps, Working, Unreviewed
<1>8. Apart'
  BY <1>4, <1>5 DEF Apart, ExtractSteps, Working
<1>9. QED
  BY <1>6, <1>7, <1>8 DEF ReviewInv

\* A decision changes the decided, and leaves nothing undecided.
LEMMA ReviewDecides ==
    ASSUME ReviewInv, TypeOK', NEW s \in Requests, DecideCommit(s)
    PROVE  ReviewInv'
<1> DEFINE edits == requests[s].edits
           On(e, f) == {edit \in edits : edit.id = e /\ edit.finding = f}
<1>1. TypeOK /\ DocInv /\ edits \in SUBSET Edits
  BY DEF ReviewInv, TypeOK, Sessions
<1>2. pages' = pages /\ doc' = doc
  BY DEF DecideCommit
<1>3. ASSUME NEW e \in Ids, NEW f \in Findings, findings[e][f].status # "PENDING"
      PROVE  findings'[e][f].status # "PENDING"
  <2>1. findings'[e][f] = IF On(e, f) = {} THEN findings[e][f]
                          ELSE Edited(CHOOSE edit \in On(e, f) : TRUE)
    BY DEF DecideCommit
  <2>2. CASE On(e, f) = {}
    BY <1>3, <2>1, <2>2
  <2>3. CASE On(e, f) # {}
    <3>1. PICK edit : edit = CHOOSE x \in On(e, f) : TRUE
      OBVIOUS
    <3>2. edit \in Edits /\ edit.id = e /\ edit.finding = f
      BY <1>1, <2>3, <3>1
    <3>3. Edited(edit).status # "PENDING"
      BY <1>3, <3>2 DEF Edited, Edits
    <3>4. findings'[e][f] = Edited(edit)
      BY <2>1, <2>3, <3>1
    <3>5. QED
      BY <3>3, <3>4
  <2>4. QED
    BY <2>2, <2>3
<1>4. ReviewKept
  BY <1>2, <1>3 DEF ReviewKept, Undecided, Stored, AllMasked
<1>5. DocInv'
  BY <1>1, <1>2, <1>4 DEF DocInv, Reviewed, ReviewKept
<1>6. QED
  BY <1>2, <1>4, <1>5, ReviewEnds DEF DecideCommit

\* The pages an approval has read are all there are.
LEMMA ReviewApproves ==
    ASSUME ReviewInv, TypeOK', NEW s \in Requests, ApproveMask(s) \/ ApproveCommit(s)
    PROVE  ReviewInv'
<1>1. TypeOK /\ DocInv /\ SessionInv(s)
  BY DEF ReviewInv
<1>2. requests[s].step \in {"mask", "approve"}
  BY DEF ApproveMask, ApproveCommit, At
<1>3. requests[s].seen.status = "REVIEW_REQUIRED" /\ ~Undecided
  BY <1>1, <1>2 DEF SessionInv
<1>4. CASE ApproveMask(s)
  <2>1. doc' = doc /\ pages' = pages /\ findings' = findings
    BY <1>4 DEF ApproveMask
  <2>2. ReviewKept /\ DocInv'
    BY <1>1, <2>1, RowsKept DEF ReviewKept, DocInv, Reviewed
  <2>3. /\ Goes(s, "approve") /\ requests'[s].step = "approve"
        /\ requests'[s].seen = requests[s].seen /\ requests'[s].read = Stored
    BY <1>1, <1>4, StepMoves DEF Goes
  <2>4. SessionInv(s)'
    BY <1>3, <2>2, <2>3 DEF SessionInv, ExtractSteps, ReviewKept
  <2>5. QED
    BY <1>2, <2>1, <2>2, <2>3, <2>4, OneGoes DEF ExtractSteps, Working
<1>5. CASE ApproveCommit(s)
  <2>1. requests[s].read = Stored
    BY <1>1, <1>5 DEF ApproveCommit, At, SessionInv
  <2>2. /\ findings' = findings
        /\ pages' = [e \in Ids |-> IF e \in Stored
                                   THEN [state |-> "masked", hidden |-> requests[s].hidden]
                                   ELSE pages[e]]
    BY <1>5, <2>1 DEF ApproveCommit
  <2>3. Stored' = Stored /\ AllMasked'
    BY <2>2 DEF Stored, AllMasked
  <2>4. ReviewKept /\ Reviewed'
    BY <1>3, <2>2, <2>3 DEF ReviewKept, Reviewed, Undecided
  <2>5. doc'.status = "INDEX_READY"
    BY <1>1, <1>3, <1>5, StatusCommit DEF ApproveCommit, ApprovedStatus, Statuses
  <2>6. DocInv'
    BY <2>4, <2>5 DEF DocInv, Unreviewed
  <2>7. QED
    BY <1>2, <1>5, <2>4, <2>6, ReviewEnds DEF ApproveCommit, Working
<1>6. QED
  BY <1>4, <1>5

\* The gate is passed, and an active version kept, by reviewed documents only.
LEMMA ReviewIndexes ==
    ASSUME ReviewInv, TypeOK', NEW s \in Requests,
           IndexGate(s) \/ IndexDone(s) \/ IndexFails(s) \/ IndexReports(s)
    PROVE  ReviewInv'
<1>1. TypeOK /\ DocInv /\ SessionInv(s)
  BY DEF ReviewInv
<1>2. requests[s].step \in {"gate", "index", "report"}
  BY DEF IndexGate, IndexDone, IndexFails, IndexReports, At
<1>3. pages' = pages /\ findings' = findings /\ ReviewKept
  BY RowsKept DEF IndexGate, IndexDone, IndexFails, IndexReports
<1>4. Reviewed => Reviewed'
  BY <1>3 DEF Reviewed, ReviewKept
<1>5. CASE IndexGate(s)
  <2>1. Reviewed /\ requests[s].seen.status \in {"INDEX_READY", "INDEXED"}
    BY <1>1, <1>5 DEF IndexGate, SessionInv, At
  <2>2. doc'.status = "INDEXING" /\ doc'.active = doc.active
    BY <1>1, <1>5, <2>1, StatusCommit DEF IndexGate, Statuses
  <2>3. Goes(s, "index") /\ requests'[s].step = "index" /\ requests'[s].seen = doc'
    BY <1>1, <1>5, StepMoves DEF Goes
  <2>4. SessionInv(s)' /\ DocInv'
    BY <1>4, <2>1, <2>2, <2>3 DEF SessionInv, DocInv, ExtractSteps, Unreviewed
  <2>5. QED
    BY <1>2, <1>3, <2>3, <2>4, OneGoes DEF ExtractSteps, Working
<1>6. CASE IndexDone(s)
  <2>1. Reviewed /\ requests[s].seen.status = "INDEXING"
    BY <1>1, <1>6 DEF IndexDone, SessionInv, At
  <2>2. doc'.status = "INDEXED"
    <3> DEFINE seen == requests[s].seen
               new == [seen EXCEPT !.status = "INDEXED", !.active = requests[s].target]
    <3>1. seen \in Document /\ doc \in Document /\ new \in Document
      BY <1>1, SeenTypes DEF Statuses, TypeOK
    <3>2. new.status = "INDEXED" /\ doc' = Commit(seen, new)
      BY <1>6, <3>1 DEF IndexDone, Document
    <3>3. QED
      BY <2>1, <3>1, <3>2, CommitColumns
  <2>3. DocInv'
    BY <1>4, <2>1, <2>2 DEF DocInv, Unreviewed
  <2>4. QED
    BY <1>2, <1>3, <1>6, <2>3, ReviewEnds DEF IndexDone, Working
<1>7. CASE IndexFails(s)
  <2>1. doc' = doc
    BY <1>7 DEF IndexFails
  <2>2. Goes(s, "report") /\ requests'[s].step = "report" /\ requests'[s].seen = doc
    BY <1>1, <1>7, StepMoves DEF Goes
  <2>3. DocInv' /\ SessionInv(s)'
    BY <1>1, <1>4, <2>1, <2>2 DEF DocInv, SessionInv, ExtractSteps
  <2>4. QED
    BY <1>2, <1>3, <2>2, <2>3, OneGoes DEF ExtractSteps, Working
<1>8. CASE IndexReports(s)
  <2> DEFINE seen == requests[s].seen
             status == IF seen.active = None THEN "INDEX_FAILED" ELSE "INDEXED"
  <2>1. seen.active # None => Reviewed
    BY <1>1, <1>8 DEF IndexReports, SessionInv, At
  <2>2. /\ doc'.status = IF status = seen.status THEN doc.status ELSE status
        /\ doc'.active = doc.active
    <3>1. status \in Statuses /\ doc' = Commit(seen, [seen EXCEPT !.status = status])
      BY <1>8 DEF IndexReports, Statuses
    <3> HIDE DEF status
    <3>2. QED
      BY <1>1, <3>1, StatusCommit
  <2>3. DocInv'
    BY <1>1, <1>4, <2>1, <2>2 DEF DocInv, Unreviewed, Ready
  <2>4. QED
    BY <1>2, <1>3, <1>8, <2>3, ReviewEnds DEF IndexReports, Working
<1>9. QED
  BY <1>5, <1>6, <1>7, <1>8

LEMMA ReviewStep == ExtractionApart /\ ReviewInv /\ [Next]_vars => ReviewInv'
<1> SUFFICES ASSUME ExtractionApart, ReviewInv, [Next]_vars PROVE ReviewInv'
  OBVIOUS
<1>1. TypeOK' /\ DocInv
  BY TypeStep DEF ReviewInv
<1>2. CASE UNCHANGED vars
  BY <1>1, <1>2 DEF vars, ReviewInv, DocInv, Reviewed, AllMasked, Stored, Undecided, Apart,
                    SessionInv
<1>3. ASSUME NEW s \in Requests, RequestFails(s) \/ RequestDies(s) PROVE ReviewInv'
  <2>1. doc' = doc /\ pages' = pages /\ findings' = findings /\ Finish(s)
    BY <1>3 DEF RequestFails, RequestDies
  <2>2. ReviewKept /\ DocInv'
    BY <1>1, <2>1, RowsKept DEF ReviewKept, DocInv, Reviewed
  <2>3. QED
    BY <1>1, <2>1, <2>2, ReviewEnds
<1>4. QED
  BY <1>1, <1>2, <1>3, ReviewBegins, ReviewExtracts, ReviewStarts, ReviewDecides,
     ReviewApproves, ReviewIndexes DEF Next, Step

\* A document that is past its review has been reviewed, for any numbers of
\* requests and findings, as long as extractions are apart.
THEOREM ReadyIsReviewed == ASSUME ExtractionApart PROVE Spec => []ReadyMeansDecided
<1>1. ReviewInv => ReadyMeansDecided
  BY DEF ReviewInv, DocInv, Ready, Reviewed, AllMasked, ReadyMeansDecided
<1>2. ExtractionApart
  OBVIOUS
<1>3. QED
  BY <1>1, <1>2, ReviewInit, ReviewStep, PTL DEF Spec
=============================================================================
