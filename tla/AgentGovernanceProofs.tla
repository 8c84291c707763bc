----------------------- MODULE AgentGovernanceProofs -----------------------
(***************************************************************************)
(* What holds of AgentGovernance for every number of runs, users,          *)
(* documents and handlers, and for every value of the bounds.              *)
(***************************************************************************)
EXTENDS AgentGovernance, TLAPS

-----------------------------------------------------------------------------
(***************************************************************************)
(* The inductive invariants.                                               *)
(***************************************************************************)

\* u was entitled to approve r: another user, of r's tenant, with the role.
Entitled(u, r) == /\ u \in Approvers
                  /\ u # runs[r].actor
                  /\ TenantOf[u] = TenantOf[runs[r].actor]

\* r was approved, by a committed decision of someone entitled to it.
Granted(r) == \E u \in grants[r] : Entitled(u, r)

\* The document of r, if it has one, is of r's tenant.
OwnDocument(r) ==
    runs[r].doc # NoDoc => TenantOf[runs[r].doc] = TenantOf[runs[r].actor]

\* What a handler has established about its run by the step it is at.
SessionGrant(s) ==
    LET r == sessions[s].run
    IN  /\ sessions[s].step # "idle" => runs[r].status # "NONE"
        /\ sessions[s].step = "decide" /\ sessions[s].choice = "APPROVED"
              => Entitled(sessions[s].user, r)
        /\ sessions[s].step = "execute" =>
              /\ Granted(r)
              /\ sessions[s].choice = "proceed" => OwnDocument(r)

RunGrant(r) ==
    /\ runs[r].status = "NONE" => toolCalls[r] = 0 /\ approvals[r].decision = "NONE"
    /\ approvals[r].decision = "APPROVED" => Granted(r)
    /\ toolCalls[r] > 0 => Granted(r) /\ OwnDocument(r)

\* With or without row locks.
GrantInv == /\ TypeOK
            /\ \A s \in Sessions : SessionGrant(s)
            /\ \A r \in Runs : RunGrant(r)

\* With row locks, what a handler read is what the rows still hold.
SessionLock(s) ==
    LET r == sessions[s].run
    IN  /\ sessions[s].step = "decide" => runs[r].status = "APPROVAL_PENDING"
        /\ sessions[s].step = "execute" => runs[r].status = "APPROVED"
        /\ sessions[s].step = "tool" => runs[r].status = "EXECUTING"

\* A run is in the hands of one handler.
SoleHandler ==
    \A s, t \in Sessions :
        /\ sessions[s].step # "idle"
        /\ sessions[t].step # "idle"
        /\ sessions[s].run = sessions[t].run
        => s = t

RunLock(r) ==
    /\ runs[r].status \in {"NONE", "APPROVAL_PENDING", "APPROVED"} => toolCalls[r] = 0
    /\ toolCalls[r] \in 0..1
    /\ toolCalls[r] > 0 => approvals[r].reviewer \in grants[r]
    /\ approvals[r].decision = "APPROVED" => approvals[r].reviewer \in grants[r]

LockInv == /\ GrantInv
           /\ RunMatchesApproval
           /\ SoleHandler
           /\ \A s \in Sessions : SessionLock(s)
           /\ \A r \in Runs : RunLock(r)

-----------------------------------------------------------------------------
(***************************************************************************)
(* Type correctness.                                                       *)
(***************************************************************************)

\* What a handler holds in its locals at each step (the variables of
\* decide_approval and of execute_action).
LEMMA SessionTypes ==
    ASSUME TypeOK, NEW s \in Sessions
    PROVE  /\ sessions[s] \in SessionRecord
           /\ sessions[s].step \in {"idle", "decide", "execute", "tool"}
           /\ sessions[s].step # "idle" => /\ sessions[s].run \in Runs
                                          /\ sessions[s].user \in Users
                                          /\ sessions[s].version \in Nat
           /\ sessions[s].step = "idle" => sessions[s] = Idle
           /\ sessions[s].step = "decide" => sessions[s].choice \in {"APPROVED", "REJECTED"}
           /\ sessions[s].step \in {"execute", "tool"} =>
                 sessions[s].choice \in {"proceed", "tampered", "denied"}
<1>1. sessions[s] \in SessionRecord
  BY DEF TypeOK
<1>2. QED
  BY <1>1 DEF SessionRecord, Idle

\* A handler that writes a status and a version writes a well-formed run row.
LEMMA RunWrite ==
    ASSUME TypeOK, NEW r \in Runs, NEW status \in RunStates, NEW v \in Nat
    PROVE  [runs EXCEPT ![r].status = status, ![r].version = v] \in [Runs -> RunRecord]
BY DEF TypeOK, RunRecord

\* The same of the approval row.
LEMMA ApprovalWrite ==
    ASSUME TypeOK, NEW r \in Runs, NEW decision \in ApprovalDecisions
    PROVE  /\ [approvals EXCEPT ![r].decision = decision] \in [Runs -> ApprovalRecord]
           /\ \A u \in Users :
                 [approvals EXCEPT ![r].decision = decision, ![r].reviewer = u]
                    \in [Runs -> ApprovalRecord]
BY DEF TypeOK, ApprovalRecord

\* A handler that gives up leaves a well-formed session.
LEMMA SessionEnds ==
    ASSUME TypeOK, NEW s \in Sessions
    PROVE  [sessions EXCEPT ![s] = Idle] \in [Sessions -> SessionRecord]
BY DEF TypeOK, SessionRecord

\* Every record a handler writes is well formed (models.py: AgentRunRecord,
\* AgentApprovalRecord, and the locals of the handlers).
LEMMA TypeStep == TypeOK /\ [Next]_vars => TypeOK'
<1> SUFFICES ASSUME TypeOK, [Next]_vars PROVE TypeOK'
  OBVIOUS
<1> USE DEF rows, history
<1>1. ASSUME NEW u \in Users, NEW r \in Runs, NEW input \in ToolInputs,
             NEW wellFormed \in BOOLEAN, Propose(u, r, input, wellFormed)
      PROVE  TypeOK'
  <2>1. input.requiresDoc \in BOOLEAN /\ input.doc \in Docs \cup {NoDoc}
    BY DEF ToolInputs
  <2>2. Visible(input.doc, TenantOf[u]) => documents[input.doc].version \in Nat
    BY DEF Visible, TypeOK, DocumentRecord
  <2>3. runs' \in [Runs -> RunRecord]
    BY <1>1, <2>1, <2>2 DEF Propose, TypeOK, RunRecord, RunStates
  <2>4. approvals' \in [Runs -> ApprovalRecord]
    BY <1>1 DEF Propose, TypeOK, ApprovalRecord, ApprovalDecisions
  <2>5. QED
    BY <1>1, <2>3, <2>4 DEF Propose, TypeOK
<1>2. ASSUME NEW s \in Sessions, NEW u \in Users, NEW r \in Runs,
             NEW d \in {"APPROVED", "REJECTED"}, DecideRead(s, u, r, d)
      PROVE  TypeOK'
  <2>1. sessions' \in [Sessions -> SessionRecord]
    BY <1>2 DEF DecideRead, TypeOK, SessionRecord, RunRecord
  <2>2. QED
    BY <1>2, <2>1 DEF DecideRead, TypeOK
<1>3. ASSUME NEW s \in Sessions, NEW u \in Users, NEW r \in Runs, ExecuteRead(s, u, r)
      PROVE  TypeOK'
  <2>1. Verdict(r) \in {"tampered", "denied", "proceed"}
    BY DEF Verdict
  <2>2. sessions' \in [Sessions -> SessionRecord]
    BY <1>3, <2>1 DEF ExecuteRead, TypeOK, SessionRecord, RunRecord
  <2>3. QED
    BY <1>3, <2>2 DEF ExecuteRead, TypeOK
<1>4. ASSUME NEW s \in Sessions, HandlerStep(s)
      PROVE  TypeOK'
  <2> DEFINE r == sessions[s].run
  <2>1. sessions[s].step # "idle"
    BY <1>4 DEF HandlerStep, DecideCommit, ExecuteRefused, ExecuteCommit, ToolCompletes, ToolFails
  <2>2. r \in Runs /\ sessions[s].user \in Users /\ sessions[s].version + 1 \in Nat
    BY <2>1, SessionTypes
  <2>3. CASE DecideCommit(s)
    <3>1. sessions[s].choice \in {"APPROVED", "REJECTED"}
      BY <2>3, SessionTypes DEF DecideCommit
    <3>2. sessions[s].choice \in RunStates /\ sessions[s].choice \in ApprovalDecisions
      BY <3>1 DEF RunStates, ApprovalDecisions
    <3>3. runs' \in [Runs -> RunRecord]
      BY <2>2, <2>3, <3>2, RunWrite DEF DecideCommit
    <3>4. approvals' \in [Runs -> ApprovalRecord]
      BY <2>2, <2>3, <3>2, ApprovalWrite DEF DecideCommit
    <3>5. grants' \in [Runs -> SUBSET Users]
      BY <2>2, <2>3 DEF DecideCommit, TypeOK
    <3>6. QED
      BY <2>3, <3>3, <3>4, <3>5, SessionEnds DEF DecideCommit, TypeOK
  <2>4. ASSUME NEW status \in {"FAILED", "REJECTED"}, FailClosed(s, status)
        PROVE  TypeOK'
    <3>1. status \in RunStates /\ "FAILED" \in ApprovalDecisions
      BY DEF RunStates, ApprovalDecisions
    <3>2. runs' \in [Runs -> RunRecord] /\ approvals' \in [Runs -> ApprovalRecord]
      BY <2>2, <2>4, <3>1, RunWrite, ApprovalWrite DEF FailClosed
    <3>3. QED
      BY <2>4, <3>2, SessionEnds DEF FailClosed, TypeOK
  <2>5. CASE ExecuteCommit(s)
    <3>1. runs' \in [Runs -> RunRecord]
      BY <2>2, <2>5, RunWrite DEF ExecuteCommit, RunStates
    <3>2. sessions' \in [Sessions -> SessionRecord]
      BY <2>2, <2>5 DEF ExecuteCommit, TypeOK, SessionRecord
    <3>3. toolCalls' \in [Runs -> Nat]
      BY <2>2, <2>5 DEF ExecuteCommit, TypeOK
    <3>4. QED
      BY <2>5, <3>1, <3>2, <3>3 DEF ExecuteCommit, TypeOK
  <2>6. CASE ToolCompletes(s)
    <3>1. runs' \in [Runs -> RunRecord] /\ approvals' \in [Runs -> ApprovalRecord]
      BY <2>2, <2>6, RunWrite, ApprovalWrite DEF ToolCompletes, RunStates, ApprovalDecisions
    <3>2. QED
      BY <2>6, <3>1, SessionEnds DEF ToolCompletes, TypeOK
  <2>7. QED
    BY <1>4, <2>3, <2>4, <2>5, <2>6 DEF HandlerStep, ExecuteRefused, ToolFails
<1>5. ASSUME NEW s \in Sessions, HandlerDies(s)
      PROVE  TypeOK'
  BY <1>5, SessionEnds, SessionTypes DEF HandlerDies, TypeOK
<1>6. ASSUME NEW d \in Docs, IndexingStep(d) \/ NewDocumentVersion(d)
      PROVE  TypeOK'
  <2>1. documents' \in [Docs -> DocumentRecord]
    BY <1>6 DEF IndexingStep, NewDocumentVersion, TypeOK, DocumentRecord
  <2>2. QED
    BY <1>6, <2>1 DEF IndexingStep, NewDocumentVersion, TypeOK
<1>7. CASE Tick \/ RotateSecret
  BY <1>7 DEF Tick, RotateSecret, TypeOK
<1>8. CASE UNCHANGED vars
  BY <1>8 DEF vars, TypeOK
<1>9. QED
  BY <1>1, <1>2, <1>3, <1>4, <1>5, <1>6, <1>7, <1>8 DEF Next

\* No run, no approval and no handler is a state of the right types.
LEMMA TypeInit == Init => TypeOK
BY DEF Init, TypeOK, NoRunRecord, NoApproval, RunRecord, ApprovalRecord, DocumentRecord,
       SessionRecord, RunStates, ApprovalDecisions

\* Type correctness of the agent rows and handlers, for every instance.
THEOREM TypeInvariant == Spec => []TypeOK
BY TypeInit, TypeStep, PTL DEF Spec

-----------------------------------------------------------------------------
(***************************************************************************)
(* No tool runs without an independent approval, locks or no locks.        *)
(***************************************************************************)

\* What a handler that goes on touches: its own session, and the rows of its
\* run, of which it leaves the requester and the arguments alone.
LEMMA HandlerFrame ==
    ASSUME TypeOK, NEW s \in Sessions, HandlerStep(s)
    PROVE  /\ sessions[s].step # "idle"
           /\ sessions[s].run \in Runs
           /\ \A q \in Runs : /\ runs'[q].actor = runs[q].actor
                             /\ runs'[q].doc = runs[q].doc
                             /\ grants[q] \subseteq grants'[q]
           /\ \A q \in Runs \ {sessions[s].run} :
                 /\ runs'[q] = runs[q]
                 /\ approvals'[q] = approvals[q]
                 /\ toolCalls'[q] = toolCalls[q]
                 /\ grants'[q] = grants[q]
           /\ \A t \in Sessions \ {s} : sessions'[t] = sessions[t]
           /\ runs'[sessions[s].run].status \in
                 {"APPROVED", "REJECTED", "FAILED", "EXECUTING", "COMPLETED"}
<1> DEFINE r == sessions[s].run
<1>1. sessions[s].step # "idle"
  BY DEF HandlerStep, DecideCommit, ExecuteRefused, ExecuteCommit, ToolCompletes, ToolFails
<1>2. r \in Runs /\ sessions[s].user \in Users
  BY <1>1, SessionTypes
<1>3. /\ runs \in [Runs -> RunRecord] /\ approvals \in [Runs -> ApprovalRecord]
      /\ sessions \in [Sessions -> SessionRecord] /\ toolCalls \in [Runs -> Nat]
      /\ grants \in [Runs -> SUBSET Users]
  BY DEF TypeOK
<1>4. CASE DecideCommit(s)
  <2>1. sessions[s].choice \in {"APPROVED", "REJECTED"}
    BY <1>4, SessionTypes DEF DecideCommit
  <2>2. QED
    BY <1>1, <1>2, <1>3, <1>4, <2>1 DEF DecideCommit, RunRecord
<1>5. ASSUME NEW status \in {"FAILED", "REJECTED"}, FailClosed(s, status)
      PROVE  /\ \A q \in Runs : /\ runs'[q].actor = runs[q].actor
                               /\ runs'[q].doc = runs[q].doc
             /\ \A q \in Runs \ {r} : runs'[q] = runs[q] /\ approvals'[q] = approvals[q]
             /\ \A t \in Sessions \ {s} : sessions'[t] = sessions[t]
             /\ runs'[r].status \in {"REJECTED", "FAILED"}
             /\ toolCalls' = toolCalls /\ grants' = grants
  BY <1>2, <1>3, <1>5 DEF FailClosed, RunRecord, history
<1>6. CASE ExecuteRefused(s) \/ ToolFails(s)
  BY <1>1, <1>2, <1>3, <1>5, <1>6 DEF ExecuteRefused, ToolFails
<1>7. CASE ExecuteCommit(s)
  BY <1>1, <1>2, <1>3, <1>7 DEF ExecuteCommit, RunRecord
<1>8. CASE ToolCompletes(s)
  BY <1>1, <1>2, <1>3, <1>8 DEF ToolCompletes, RunRecord, history
<1>9. QED
  BY <1>4, <1>6, <1>7, <1>8 DEF HandlerStep

\* Approvals are forgotten by no step that leaves requester and document of
\* the run alone.
LEMMA GrantStable ==
    ASSUME NEW r \in Runs, runs'[r].actor = runs[r].actor, runs'[r].doc = runs[r].doc,
           grants[r] \subseteq grants'[r]
    PROVE  /\ Granted(r) => Granted(r)'
           /\ OwnDocument(r) => OwnDocument(r)'
           /\ \A u : Entitled(u, r) => Entitled(u, r)'
BY DEF Granted, OwnDocument, Entitled

\* A step that leaves the rows, the history and all sessions but s alone keeps
\* the invariant if it keeps it for s.
LEMMA GrantReadStep ==
    ASSUME GrantInv, TypeOK', NEW s \in Sessions,
           UNCHANGED <<runs, approvals, toolCalls, grants>>,
           \A t \in Sessions \ {s} : sessions'[t] = sessions[t],
           SessionGrant(s)'
    PROVE  GrantInv'
<1>1. ASSUME NEW t \in Sessions PROVE SessionGrant(t)'
  <2>1. CASE t = s
    BY <2>1
  <2>2. CASE t # s
    BY <2>2 DEF GrantInv, SessionGrant, Granted, OwnDocument, Entitled
  <2>3. QED
    BY <2>1, <2>2
<1>2. ASSUME NEW r \in Runs PROVE RunGrant(r)'
  BY DEF GrantInv, RunGrant, Granted, OwnDocument, Entitled
<1>3. QED
  BY <1>1, <1>2 DEF GrantInv

\* A proposed run is new: nothing was approved or started for it (propose_action).
LEMMA GrantPropose ==
    ASSUME GrantInv, TypeOK', NEW u \in Users, NEW r \in Runs, NEW input \in ToolInputs,
           NEW wellFormed \in BOOLEAN, Propose(u, r, input, wellFormed)
    PROVE  GrantInv'
<1>1. /\ runs[r].status = "NONE"
      /\ sessions' = sessions /\ toolCalls' = toolCalls /\ grants' = grants
      /\ \A q \in Runs \ {r} : runs'[q] = runs[q] /\ approvals'[q] = approvals[q]
      /\ runs'[r].status \in {"APPROVAL_PENDING", "REJECTED"}
      /\ approvals'[r].decision \in {"PENDING", "NONE"}
  BY DEF Propose, history, GrantInv, RunGrant, TypeOK, RunRecord, ApprovalRecord
<1>2. ASSUME NEW q \in Runs \ {r}
      PROVE  /\ Granted(q) => Granted(q)'
             /\ OwnDocument(q) => OwnDocument(q)'
             /\ \A v : Entitled(v, q) => Entitled(v, q)'
  BY <1>1, GrantStable
<1>3. ASSUME NEW s \in Sessions PROVE SessionGrant(s)'
  <2>1. CASE sessions[s].step = "idle"
    BY <1>1, <2>1 DEF SessionGrant
  <2>2. CASE sessions[s].step # "idle"
    <3>1. sessions[s].run \in Runs \ {r}
      BY <1>1, <2>2, SessionTypes DEF GrantInv, SessionGrant
    <3>2. QED
      BY <1>1, <1>2, <3>1 DEF GrantInv, SessionGrant
  <2>3. QED
    BY <2>1, <2>2
<1>4. ASSUME NEW q \in Runs PROVE RunGrant(q)'
  <2>1. CASE q = r
    BY <1>1, <2>1 DEF GrantInv, RunGrant
  <2>2. CASE q # r
    BY <1>1, <1>2, <2>2 DEF GrantInv, RunGrant
  <2>3. QED
    BY <2>1, <2>2
<1>5. QED
  BY <1>3, <1>4 DEF GrantInv

\* execute_action goes on only with an approved run, and only with a document
\* found in the run's tenant.
LEMMA GrantExecuteRead ==
    ASSUME GrantInv, TypeOK', NEW s \in Sessions, NEW u \in Users, NEW r \in Runs,
           ExecuteRead(s, u, r)
    PROVE  GrantInv'
<1>1. /\ UNCHANGED <<runs, approvals, toolCalls, grants>>
      /\ \A t \in Sessions \ {s} : sessions'[t] = sessions[t]
      /\ sessions'[s].step = "execute" /\ sessions'[s].run = r
      /\ sessions'[s].choice = Verdict(r)
      /\ runs[r].status # "NONE"
  BY DEF ExecuteRead, GetRunForUpdate, GrantInv, TypeOK, rows, history
<1>2. Granted(r)
  BY DEF ExecuteRead, ExecutionPrerequisites, GrantInv, RunGrant
<1>3. Verdict(r) = "proceed" => OwnDocument(r)
  BY DEF ExecuteRead, PayloadCanBeBuilt, ResourceIsAuthorized, Visible, OwnDocument
<1>4. SessionGrant(s)'
  BY <1>1, <1>2, <1>3 DEF SessionGrant, Granted, OwnDocument, Entitled
<1>5. QED
  BY <1>1, <1>4, GrantReadStep

\* A commit acts on what its handler established when it read the rows.
LEMMA GrantHandlerStep ==
    ASSUME GrantInv, TypeOK', NEW s \in Sessions, HandlerStep(s)
    PROVE  GrantInv'
<1> DEFINE r == sessions[s].run
<1>1. TypeOK /\ SessionGrant(s)
  BY DEF GrantInv
<1>2. r \in Runs
  BY <1>1, HandlerFrame
<1>3. ASSUME NEW q \in Runs
      PROVE  /\ Granted(q) => Granted(q)'
             /\ OwnDocument(q) => OwnDocument(q)'
             /\ \A u : Entitled(u, q) => Entitled(u, q)'
  BY <1>1, HandlerFrame, GrantStable
<1>4. /\ \A q \in Runs : runs'[q].status = "NONE" => q # r
      /\ \A q \in Runs : runs[q].status # "NONE" => runs'[q].status # "NONE"
  BY <1>1, <1>2, HandlerFrame
<1>5. SessionGrant(s)'
  <2>1. sessions'[s].step = "idle" \/ (sessions'[s].step = "tool" /\ sessions'[s].run = r)
    BY <1>1 DEF HandlerStep, DecideCommit, ExecuteRefused, ExecuteCommit, ToolCompletes,
                ToolFails, FailClosed, TypeOK, Idle
  <2>2. QED
    BY <1>2, <1>4, <2>1 DEF SessionGrant
<1>6. ASSUME NEW t \in Sessions \ {s} PROVE SessionGrant(t)'
  <2>1. sessions'[t] = sessions[t] /\ SessionGrant(t)
    BY <1>1, HandlerFrame DEF GrantInv
  <2>2. CASE sessions[t].step = "idle"
    BY <2>1, <2>2 DEF SessionGrant
  <2>3. CASE sessions[t].step # "idle"
    <3>1. sessions[t].run \in Runs
      BY <1>1, <2>3, SessionTypes
    <3>2. QED
      BY <1>3, <1>4, <2>1, <3>1 DEF SessionGrant
  <2>4. QED
    BY <2>2, <2>3
<1>7. ASSUME NEW q \in Runs \ {r} PROVE RunGrant(q)'
  BY <1>1, <1>3, HandlerFrame DEF GrantInv, RunGrant
<1>8. ASSUME NEW q \in Runs, q = r PROVE RunGrant(q)'
  <2>1. runs'[q].status # "NONE" /\ RunGrant(q)
    BY <1>1, <1>8, HandlerFrame DEF GrantInv
  <2>2. CASE DecideCommit(s)
    <3>1. ASSUME approvals'[q].decision = "APPROVED" PROVE Granted(q)'
      <4>1. /\ sessions[s].step = "decide" /\ sessions[s].choice = "APPROVED"
            /\ sessions[s].user \in grants'[q]
        BY <1>1, <1>8, <2>2, <3>1 DEF DecideCommit, TypeOK, ApprovalRecord
      <4>2. PICK u : u = sessions[s].user
        OBVIOUS
      <4>3. Entitled(u, q)
        BY <1>1, <1>8, <4>1, <4>2 DEF SessionGrant
      <4>4. Entitled(u, q)' /\ u \in grants'[q]
        BY <1>3, <4>1, <4>2, <4>3
      <4>5. QED
        BY <4>4 DEF Granted
    <3>2. toolCalls' = toolCalls
      BY <2>2 DEF DecideCommit
    <3>3. QED
      BY <1>3, <2>1, <3>1, <3>2 DEF RunGrant
  <2>3. ASSUME NEW status \in {"FAILED", "REJECTED"}, FailClosed(s, status) PROVE RunGrant(q)'
    <3>1. approvals'[q].decision = "FAILED" /\ toolCalls' = toolCalls
      BY <1>1, <1>8, <2>3 DEF FailClosed, history, TypeOK, ApprovalRecord
    <3>2. QED
      BY <1>3, <2>1, <3>1 DEF RunGrant
  <2>4. CASE ExecuteCommit(s)
    <3>1. Granted(q) /\ OwnDocument(q)
      BY <1>1, <1>8, <2>4 DEF ExecuteCommit, SessionGrant
    <3>2. QED
      BY <1>3, <2>1, <3>1 DEF RunGrant
  <2>5. CASE ToolCompletes(s)
    <3>1. approvals'[q].decision = "EXECUTED" /\ toolCalls' = toolCalls
      BY <1>1, <1>8, <2>5 DEF ToolCompletes, history, TypeOK, ApprovalRecord
    <3>2. QED
      BY <1>3, <2>1, <3>1 DEF RunGrant
  <2>6. QED
    BY <2>2, <2>3, <2>4, <2>5 DEF HandlerStep, ExecuteRefused, ToolFails
<1>9. QED
  BY <1>5, <1>6, <1>7, <1>8 DEF GrantInv

\* Authorisation survives every step, with or without row locks.
LEMMA GrantStep == GrantInv /\ [Next]_vars => GrantInv'
<1> SUFFICES ASSUME GrantInv, [Next]_vars PROVE GrantInv'
  OBVIOUS
<1>1. TypeOK /\ TypeOK'
  BY TypeStep DEF GrantInv
<1>2. ASSUME NEW u \in Users, NEW r \in Runs, NEW input \in ToolInputs,
             NEW wellFormed \in BOOLEAN, Propose(u, r, input, wellFormed)
      PROVE  GrantInv'
  BY <1>1, <1>2, GrantPropose
<1>3. ASSUME NEW s \in Sessions, NEW u \in Users, NEW r \in Runs,
             NEW d \in {"APPROVED", "REJECTED"}, DecideRead(s, u, r, d)
      PROVE  GrantInv'
  <2>1. /\ UNCHANGED <<runs, approvals, toolCalls, grants>>
        /\ \A t \in Sessions \ {s} : sessions'[t] = sessions[t]
        /\ sessions'[s].step = "decide" /\ sessions'[s].run = r
        /\ sessions'[s].choice = d /\ sessions'[s].user = u
    BY <1>1, <1>3 DEF DecideRead, TypeOK, rows, history
  <2>2. runs[r].status # "NONE" /\ (d = "APPROVED" => Entitled(u, r))
    BY <1>3 DEF DecideRead, MayDecide, GetRunForUpdate, Entitled
  <2>3. SessionGrant(s)'
    BY <2>1, <2>2 DEF SessionGrant, Entitled
  <2>4. QED
    BY <1>1, <2>1, <2>3, GrantReadStep
<1>4. ASSUME NEW s \in Sessions, NEW u \in Users, NEW r \in Runs, ExecuteRead(s, u, r)
      PROVE  GrantInv'
  BY <1>1, <1>4, GrantExecuteRead
<1>5. ASSUME NEW s \in Sessions, HandlerStep(s) PROVE GrantInv'
  BY <1>1, <1>5, GrantHandlerStep
<1>6. ASSUME NEW s \in Sessions, HandlerDies(s) PROVE GrantInv'
  <2>1. /\ UNCHANGED <<runs, approvals, toolCalls, grants>>
        /\ \A t \in Sessions \ {s} : sessions'[t] = sessions[t]
        /\ sessions'[s] = Idle
    BY <1>1, <1>6 DEF HandlerDies, TypeOK, rows
  <2>2. SessionGrant(s)'
    BY <2>1 DEF SessionGrant, Idle
  <2>3. QED
    BY <1>1, <2>1, <2>2, GrantReadStep
<1>7. ASSUME UNCHANGED <<runs, approvals, sessions, toolCalls, grants>> PROVE GrantInv'
  BY <1>1, <1>7 DEF GrantInv, SessionGrant, RunGrant, Granted, OwnDocument, Entitled
<1>8. ASSUME NEW d \in Docs, IndexingStep(d) \/ NewDocumentVersion(d) PROVE GrantInv'
  BY <1>7, <1>8 DEF IndexingStep, NewDocumentVersion, history
<1>9. CASE Tick \/ RotateSecret \/ UNCHANGED vars
  BY <1>7, <1>9 DEF Tick, RotateSecret, vars, rows, history
<1>10. QED
  BY <1>2, <1>3, <1>4, <1>5, <1>6, <1>8, <1>9 DEF Next

\* At the start nothing was approved or started.
LEMMA GrantInit == Init => GrantInv
<1> SUFFICES ASSUME Init PROVE GrantInv
  OBVIOUS
<1>1. TypeOK
  BY TypeInit
<1>2. QED
  BY <1>1 DEF Init, GrantInv, SessionGrant, RunGrant, Idle, NoRunRecord, NoApproval

\* Whatever the database does with locks: a tool runs only after the committed
\* approval of an entitled user other than the requester, on a document of
\* their tenant.
THEOREM IndependentApproval == Spec => []CallsWereAuthorised
<1>1. Spec => []GrantInv
  BY GrantInit, GrantStep, PTL DEF Spec
<1>2. GrantInv => CallsWereAuthorised
  BY DEF GrantInv, RunGrant, Granted, OwnDocument, Entitled, CallsWereAuthorised
<1>3. QED
  BY <1>1, <1>2, PTL

-----------------------------------------------------------------------------
(***************************************************************************)
(* With row locks a run is in the hands of one handler, and the tool runs  *)
(* once.                                                                   *)
(***************************************************************************)

\* A proposal writes both rows of its run at once (propose_action).
LEMMA LockPropose ==
    ASSUME LockInv, TypeOK', NEW u \in Users, NEW r \in Runs, NEW input \in ToolInputs,
           NEW wellFormed \in BOOLEAN, Propose(u, r, input, wellFormed)
    PROVE  /\ \A s \in Sessions : SessionLock(s)'
           /\ \A q \in Runs : RowsAgree(q)' /\ RunLock(q)'
<1>1. /\ runs[r].status = "NONE" /\ toolCalls[r] = 0
      /\ sessions' = sessions /\ toolCalls' = toolCalls /\ grants' = grants
      /\ \A q \in Runs \ {r} : runs'[q] = runs[q] /\ approvals'[q] = approvals[q]
      /\ \/ runs'[r].status = "APPROVAL_PENDING" /\ approvals'[r].decision = "PENDING"
         \/ runs'[r].status = "REJECTED" /\ approvals'[r].decision = "NONE"
  BY DEF Propose, history, LockInv, GrantInv, RunGrant, TypeOK, RunRecord, ApprovalRecord
<1>2. ASSUME NEW s \in Sessions PROVE SessionLock(s)'
  <2>1. CASE sessions[s].step = "idle"
    BY <1>1, <2>1 DEF SessionLock
  <2>2. CASE sessions[s].step # "idle"
    <3>1. sessions[s].run \in Runs \ {r}
      BY <1>1, <2>2, SessionTypes DEF LockInv, GrantInv, SessionGrant
    <3>2. QED
      BY <1>1, <3>1 DEF LockInv, SessionLock
  <2>3. QED
    BY <2>1, <2>2
<1>3. ASSUME NEW q \in Runs PROVE RowsAgree(q)' /\ RunLock(q)'
  <2>1. CASE q = r
    BY <1>1, <2>1 DEF RowsAgree, RunLock
  <2>2. CASE q # r
    BY <1>1, <2>2 DEF LockInv, RunMatchesApproval, RowsAgree, RunLock
  <2>3. QED
    BY <2>1, <2>2
<1>4. QED
  BY <1>2, <1>3

\* A handler that got the lock of r while r waits for it is the only one that
\* has r: the others hold no lock, and the one that runs the tool has left r
\* EXECUTING.
LEMMA LockRead ==
    ASSUME LockInv, RowLocks, NEW s \in Sessions, NEW r \in Runs, ~Locked(r),
           runs[r].status # "EXECUTING", NEW t \in Sessions, sessions[t].step # "idle"
    PROVE  sessions[t].run # r
BY SessionTypes DEF LockInv, GrantInv, SessionLock, Locked

\* Whoever reads a run holds its row, and no other handler does (get_run).
LEMMA LockReadStep ==
    ASSUME LockInv, NEW s \in Sessions, NEW r \in Runs,
           UNCHANGED <<runs, approvals, toolCalls, grants>>,
           \A t \in Sessions \ {s} : sessions'[t] = sessions[t],
           sessions'[s].step = "idle" \/ sessions'[s].run = r,
           SessionLock(s)',
           \A t \in Sessions \ {s} : sessions'[s].step # "idle" /\ sessions[t].step # "idle"
                                         => sessions[t].run # r
    PROVE  /\ \A t \in Sessions : SessionLock(t)'
           /\ \A q \in Runs : RowsAgree(q)' /\ RunLock(q)'
           /\ SoleHandler'
<1>1. ASSUME NEW t \in Sessions PROVE SessionLock(t)'
  BY DEF LockInv, SessionLock
<1>2. \A q \in Runs : RowsAgree(q)' /\ RunLock(q)'
  BY DEF LockInv, RunMatchesApproval, RowsAgree, RunLock
<1>3. SoleHandler'
  BY DEF LockInv, SoleHandler
<1>4. QED
  BY <1>1, <1>2, <1>3

\* A handler's step leaves its own run consistent.
LEMMA LockHandlerRun ==
    ASSUME LockInv, NEW s \in Sessions, HandlerStep(s), NEW q \in Runs, q = sessions[s].run
    PROVE  /\ SessionLock(s)'
           /\ RowsAgree(q)'
           /\ RunLock(q)'
           /\ sessions'[s].step = "idle" \/ sessions'[s].run = q
<1> DEFINE Before == /\ sessions[s].step # "idle"
                     /\ RowsAgree(q) /\ RunLock(q) /\ SessionLock(s)
<1>1. TypeOK /\ Before
  BY HandlerFrame DEF LockInv, GrantInv, RunMatchesApproval
<1>2. /\ runs \in [Runs -> RunRecord] /\ approvals \in [Runs -> ApprovalRecord]
      /\ sessions \in [Sessions -> SessionRecord] /\ toolCalls \in [Runs -> Nat]
      /\ grants \in [Runs -> SUBSET Users]
  BY <1>1 DEF TypeOK
<1>3. CASE DecideCommit(s)
  <2>1. /\ sessions[s].choice \in {"APPROVED", "REJECTED"}
        /\ sessions[s].user \in Users
    BY <1>1, <1>3, SessionTypes DEF DecideCommit
  <2>2. /\ runs[q].status = "APPROVAL_PENDING" /\ toolCalls' = toolCalls
        /\ runs'[q].status = sessions[s].choice
        /\ approvals'[q].decision = sessions[s].choice
        /\ sessions'[s].step = "idle"
    BY <1>1, <1>2, <1>3 DEF DecideCommit, SessionLock, RunRecord, ApprovalRecord, Idle
  <2>3. sessions[s].choice = "APPROVED" => approvals'[q].reviewer \in grants'[q]
    BY <1>2, <1>3, <2>1 DEF DecideCommit, ApprovalRecord
  <2>4. QED
    BY <1>1, <2>1, <2>2, <2>3 DEF SessionLock, RowsAgree, RunLock
<1>4. ASSUME NEW status \in {"FAILED", "REJECTED"}, FailClosed(s, status),
             \/ status = "FAILED" /\ runs[q].status \in {"APPROVED", "EXECUTING"}
             \/ runs[q].status = "APPROVED"
      PROVE  SessionLock(s)' /\ RowsAgree(q)' /\ RunLock(q)' /\ sessions'[s].step = "idle"
  <2>1. /\ toolCalls' = toolCalls /\ grants' = grants /\ sessions'[s].step = "idle"
        /\ runs'[q].status = status /\ approvals'[q].decision = "FAILED"
        /\ approvals'[q].reviewer = approvals[q].reviewer
    BY <1>2, <1>4 DEF FailClosed, RunRecord, ApprovalRecord, Idle, history
  <2>2. QED
    BY <1>1, <1>4, <2>1 DEF SessionLock, RowsAgree, RunLock
<1>5. CASE ExecuteRefused(s)
  BY <1>1, <1>4, <1>5 DEF ExecuteRefused, SessionLock
<1>6. CASE ToolFails(s)
  BY <1>1, <1>4, <1>6 DEF ToolFails, SessionLock
<1>7. CASE ExecuteCommit(s)
  <2>1. /\ runs[q].status = "APPROVED" /\ runs'[q].status = "EXECUTING"
        /\ approvals' = approvals /\ grants' = grants
        /\ toolCalls'[q] = toolCalls[q] + 1
        /\ sessions'[s].step = "tool" /\ sessions'[s].run = q
    BY <1>1, <1>2, <1>7 DEF ExecuteCommit, SessionLock, RunRecord
  <2>2. QED
    BY <1>1, <2>1 DEF SessionLock, RowsAgree, RunLock
<1>8. CASE ToolCompletes(s)
  <2>1. /\ runs[q].status = "EXECUTING" /\ runs'[q].status = "COMPLETED"
        /\ approvals'[q].decision = "EXECUTED"
        /\ approvals'[q].reviewer = approvals[q].reviewer
        /\ grants' = grants /\ toolCalls' = toolCalls /\ sessions'[s].step = "idle"
    BY <1>1, <1>2, <1>8 DEF ToolCompletes, SessionLock, RunRecord, ApprovalRecord, Idle, history
  <2>2. QED
    BY <1>1, <2>1 DEF SessionLock, RowsAgree, RunLock
<1>9. QED
  BY <1>3, <1>5, <1>6, <1>7, <1>8, <1>4 DEF HandlerStep

\* A handler's step leaves the other runs and the other handlers alone.
LEMMA LockHandlerStep ==
    ASSUME LockInv, NEW s \in Sessions, HandlerStep(s)
    PROVE  /\ \A t \in Sessions : SessionLock(t)'
           /\ \A q \in Runs : RowsAgree(q)' /\ RunLock(q)'
           /\ SoleHandler'
<1>1. PICK r \in Runs : r = sessions[s].run /\ sessions[s].step # "idle"
  BY HandlerFrame DEF LockInv, GrantInv
<1>2. /\ \A q \in Runs \ {r} : /\ runs'[q] = runs[q] /\ approvals'[q] = approvals[q]
                               /\ toolCalls'[q] = toolCalls[q] /\ grants'[q] = grants[q]
      /\ \A t \in Sessions \ {s} : sessions'[t] = sessions[t]
  BY <1>1, HandlerFrame DEF LockInv, GrantInv
<1>3. /\ SessionLock(s)' /\ RowsAgree(r)' /\ RunLock(r)'
      /\ sessions'[s].step = "idle" \/ sessions'[s].run = r
  BY <1>1, LockHandlerRun
<1>4. ASSUME NEW t \in Sessions \ {s} PROVE SessionLock(t)'
  <2>1. CASE sessions[t].step = "idle"
    BY <1>2, <2>1 DEF SessionLock
  <2>2. CASE sessions[t].step # "idle"
    <3>1. sessions[t].run \in Runs \ {r}
      BY <1>1, <2>2, SessionTypes DEF LockInv, GrantInv, SoleHandler
    <3>2. QED
      BY <1>2, <3>1 DEF LockInv, SessionLock
  <2>3. QED
    BY <2>1, <2>2
<1>5. ASSUME NEW q \in Runs \ {r} PROVE RowsAgree(q)' /\ RunLock(q)'
  BY <1>2 DEF LockInv, RunMatchesApproval, RowsAgree, RunLock
<1>6. SoleHandler'
  BY <1>1, <1>2, <1>3 DEF LockInv, SoleHandler
<1>7. QED
  BY <1>3, <1>4, <1>5, <1>6

\* With row locks every step keeps the two rows of each run in agreement.
LEMMA LockStep == RowLocks /\ LockInv /\ [Next]_vars => LockInv'
<1> SUFFICES ASSUME RowLocks, LockInv, [Next]_vars PROVE LockInv'
  OBVIOUS
<1> DEFINE Kept == /\ \A t \in Sessions : SessionLock(t)'
                   /\ \A q \in Runs : RowsAgree(q)' /\ RunLock(q)'
                   /\ SoleHandler'
<1>1. GrantInv' /\ TypeOK /\ TypeOK'
  BY GrantStep DEF LockInv, GrantInv
<1>2. ASSUME NEW u \in Users, NEW r \in Runs, NEW input \in ToolInputs,
             NEW wellFormed \in BOOLEAN, Propose(u, r, input, wellFormed)
      PROVE  Kept
  BY <1>1, <1>2, LockPropose DEF Propose, LockInv, SoleHandler
<1>3. ASSUME NEW s \in Sessions, NEW u \in Users, NEW r \in Runs,
             NEW d \in {"APPROVED", "REJECTED"}, DecideRead(s, u, r, d)
      PROVE  Kept
  <2>1. /\ UNCHANGED <<runs, approvals, toolCalls, grants>>
        /\ \A t \in Sessions \ {s} : sessions'[t] = sessions[t]
        /\ sessions'[s].step = "decide" /\ sessions'[s].run = r
    BY <1>1, <1>3 DEF DecideRead, TypeOK, rows, history
  <2>2. ~Locked(r) /\ runs[r].status = "APPROVAL_PENDING"
    BY <1>3 DEF DecideRead, GetRunForUpdate
  <2>3. SessionLock(s)' /\ \A t \in Sessions : sessions[t].step # "idle" => sessions[t].run # r
    BY <2>1, <2>2, LockRead DEF SessionLock
  <2>4. QED
    BY <2>1, <2>3, LockReadStep
<1>4. ASSUME NEW s \in Sessions, NEW u \in Users, NEW r \in Runs, ExecuteRead(s, u, r)
      PROVE  Kept
  <2>1. /\ UNCHANGED <<runs, approvals, toolCalls, grants>>
        /\ \A t \in Sessions \ {s} : sessions'[t] = sessions[t]
        /\ sessions'[s].step = "execute" /\ sessions'[s].run = r
    BY <1>1, <1>4 DEF ExecuteRead, TypeOK, rows, history
  <2>2. ~Locked(r) /\ runs[r].status = "APPROVED"
    BY <1>4 DEF ExecuteRead, ExecutableStates, ExecutionPrerequisites, GetRunForUpdate, LockInv,
                RunMatchesApproval, RowsAgree
  <2>3. SessionLock(s)' /\ \A t \in Sessions : sessions[t].step # "idle" => sessions[t].run # r
    BY <2>1, <2>2, LockRead DEF SessionLock
  <2>4. QED
    BY <2>1, <2>3, LockReadStep
<1>5. ASSUME NEW s \in Sessions, HandlerStep(s) PROVE Kept
  BY <1>5, LockHandlerStep
<1>6. ASSUME NEW s \in Sessions, HandlerDies(s) PROVE Kept
  <2>1. /\ UNCHANGED <<runs, approvals, toolCalls, grants>>
        /\ \A t \in Sessions \ {s} : sessions'[t] = sessions[t]
        /\ sessions'[s].step = "idle" /\ sessions[s].run \in Runs
    BY <1>1, <1>6, SessionTypes DEF HandlerDies, TypeOK, rows, Idle
  <2>2. SessionLock(s)'
    BY <2>1 DEF SessionLock
  <2>3. QED
    BY <2>1, <2>2, LockReadStep
<1>7. ASSUME UNCHANGED <<runs, approvals, sessions, toolCalls, grants>> PROVE Kept
  BY <1>7 DEF LockInv, RunMatchesApproval, RowsAgree, RunLock, SessionLock, SoleHandler
<1>8. ASSUME NEW d \in Docs, IndexingStep(d) \/ NewDocumentVersion(d) PROVE Kept
  BY <1>7, <1>8 DEF IndexingStep, NewDocumentVersion, history
<1>9. ASSUME Tick \/ RotateSecret \/ UNCHANGED vars PROVE Kept
  BY <1>7, <1>9 DEF Tick, RotateSecret, vars, rows, history
<1>10. Kept
  BY <1>2, <1>3, <1>4, <1>5, <1>6, <1>8, <1>9 DEF Next
<1>11. QED
  BY <1>1, <1>10 DEF LockInv, RunMatchesApproval

\* At the start all rows agree.
LEMMA LockInit == Init => LockInv
<1> SUFFICES ASSUME Init PROVE LockInv
  OBVIOUS
<1>1. GrantInv
  BY GrantInit
<1>2. QED
  BY <1>1 DEF Init, LockInv, RunMatchesApproval, RowsAgree, SoleHandler, SessionLock, RunLock,
              Idle, NoRunRecord, NoApproval

\* The invariant of the handlers that hold their rows (get_run).
LEMMA LockInvariant == ASSUME RowLocks PROVE Spec => []LockInv
BY LockInit, LockStep, PTL DEF Spec

\* With row locks the tool of a run is started once at the most, whoever asks
\* for it and whatever fails (execute_action).
THEOREM ToolRunsOnce == ASSUME RowLocks PROVE Spec => []AtMostOneToolCall
<1>1. LockInv => AtMostOneToolCall
  BY DEF LockInv, RunLock, AtMostOneToolCall
<1>2. QED
  BY <1>1, LockInvariant, PTL

\* With row locks the run and its approval always agree (decide_approval,
\* execute_action, _fail_closed).
THEOREM RecordsAgree == ASSUME RowLocks PROVE Spec => []RunMatchesApproval
<1>1. LockInv => RunMatchesApproval
  BY DEF LockInv
<1>2. QED
  BY <1>1, LockInvariant, PTL

\* With row locks the reviewer on record of a run that was started is one whose
\* approval was committed: no later decision overwrites it (decide_approval).
THEOREM ReviewerApproved == ASSUME RowLocks PROVE Spec => []ReviewerOnRecordApproved
<1>1. LockInv => ReviewerOnRecordApproved
  BY DEF LockInv, RunLock, ReviewerOnRecordApproved
<1>2. QED
  BY <1>1, LockInvariant, PTL

-----------------------------------------------------------------------------
(***************************************************************************)
(* With row locks every step moves one run along the approval gate.        *)
(***************************************************************************)

Holds(r, status, decision) == runs[r].status = status /\ approvals[r].decision = decision

\* What a step may make of the two rows of r.
RowsMove(r) ==
    \/ Holds(r, "NONE", "NONE") /\ Holds(r, "APPROVAL_PENDING", "PENDING")'
    \/ Holds(r, "NONE", "NONE") /\ Holds(r, "REJECTED", "NONE")'
    \/ Holds(r, "APPROVAL_PENDING", "PENDING") /\ Holds(r, "APPROVED", "APPROVED")'
    \/ Holds(r, "APPROVAL_PENDING", "PENDING") /\ Holds(r, "REJECTED", "REJECTED")'
    \/ Holds(r, "APPROVED", "APPROVED") /\ Holds(r, "REJECTED", "FAILED")'
    \/ Holds(r, "APPROVED", "APPROVED") /\ Holds(r, "FAILED", "FAILED")'
    \/ Holds(r, "EXECUTING", "APPROVED") /\ Holds(r, "FAILED", "FAILED")'
    \/ Holds(r, "EXECUTING", "APPROVED") /\ Holds(r, "COMPLETED", "EXECUTED")'

\* The step in which the tool of r is started.
ToolStarts(r) == /\ Holds(r, "APPROVED", "APPROVED")
                 /\ Holds(r, "EXECUTING", "APPROVED")'
                 /\ toolCalls' = [toolCalls EXCEPT ![r] = @ + 1]

Unmoved(r) == /\ runs'[r].status = runs[r].status
              /\ approvals'[r].decision = approvals[r].decision

OneRunMoves == \E r \in Runs : /\ (RowsMove(r) /\ toolCalls' = toolCalls) \/ ToolStarts(r)
                              /\ \A q \in Runs \ {r} : Unmoved(q)

NoRunMoves == toolCalls' = toolCalls /\ \A q \in Runs : Unmoved(q)

\* A handler moves both rows of its run together, or starts the tool.
LEMMA HandlerMove ==
    ASSUME LockInv, NEW s \in Sessions, HandlerStep(s), NEW q \in Runs, q = sessions[s].run
    PROVE  (RowsMove(q) /\ toolCalls' = toolCalls) \/ ToolStarts(q)
<1>1. TypeOK /\ RowsAgree(q) /\ SessionLock(s)
  BY DEF LockInv, GrantInv, RunMatchesApproval
<1>2. runs \in [Runs -> RunRecord] /\ approvals \in [Runs -> ApprovalRecord]
  BY <1>1 DEF TypeOK
<1>3. CASE DecideCommit(s)
  <2>1. sessions[s].choice \in {"APPROVED", "REJECTED"}
    BY <1>1, <1>3, SessionTypes DEF DecideCommit
  <2>2. /\ Holds(q, "APPROVAL_PENDING", "PENDING")
        /\ runs'[q].status = sessions[s].choice
        /\ approvals'[q].decision = sessions[s].choice
        /\ toolCalls' = toolCalls
    BY <1>1, <1>2, <1>3
       DEF DecideCommit, SessionLock, RowsAgree, Holds, RunRecord, ApprovalRecord
  <2>3. QED
    BY <2>1, <2>2 DEF RowsMove, Holds
<1>4. ASSUME NEW status \in {"FAILED", "REJECTED"}, FailClosed(s, status)
      PROVE  Holds(q, status, "FAILED")' /\ toolCalls' = toolCalls
  BY <1>2, <1>4 DEF FailClosed, Holds, RunRecord, ApprovalRecord, history
<1>5. CASE ExecuteRefused(s)
  <2>1. Holds(q, "APPROVED", "APPROVED")
    BY <1>1, <1>5 DEF ExecuteRefused, SessionLock, RowsAgree, Holds
  <2>2. QED
    BY <1>4, <1>5, <2>1 DEF ExecuteRefused, RowsMove
<1>6. CASE ToolFails(s)
  <2>1. Holds(q, "EXECUTING", "APPROVED")
    BY <1>1, <1>6 DEF ToolFails, SessionLock, RowsAgree, Holds
  <2>2. QED
    BY <1>4, <1>6, <2>1 DEF ToolFails, RowsMove
<1>7. CASE ExecuteCommit(s)
  BY <1>1, <1>2, <1>7 DEF ExecuteCommit, SessionLock, RowsAgree, Holds, ToolStarts, RunRecord
<1>8. CASE ToolCompletes(s)
  <2>1. Holds(q, "EXECUTING", "APPROVED") /\ toolCalls' = toolCalls
    BY <1>1, <1>8 DEF ToolCompletes, SessionLock, RowsAgree, Holds, history
  <2>2. Holds(q, "COMPLETED", "EXECUTED")'
    BY <1>2, <1>8 DEF ToolCompletes, Holds, RunRecord, ApprovalRecord
  <2>3. QED
    BY <2>1, <2>2 DEF RowsMove
<1>9. QED
  BY <1>3, <1>5, <1>6, <1>7, <1>8 DEF HandlerStep

\* A step moves the rows of one run, or of none.
LEMMA EveryStepMoves == LockInv /\ [Next]_vars => OneRunMoves \/ NoRunMoves
<1> SUFFICES ASSUME LockInv, [Next]_vars PROVE OneRunMoves \/ NoRunMoves
  OBVIOUS
<1>1. TypeOK
  BY DEF LockInv, GrantInv
<1>2. ASSUME NEW u \in Users, NEW r \in Runs, NEW input \in ToolInputs,
             NEW wellFormed \in BOOLEAN, Propose(u, r, input, wellFormed)
      PROVE  OneRunMoves
  <2>1. toolCalls' = toolCalls /\ Holds(r, "NONE", "NONE")
    BY <1>2 DEF Propose, history, LockInv, GrantInv, RunGrant, Holds
  <2>2. Holds(r, "APPROVAL_PENDING", "PENDING")' \/ Holds(r, "REJECTED", "NONE")'
    BY <1>1, <1>2, <2>1 DEF Propose, Holds, TypeOK, RunRecord, ApprovalRecord
  <2>3. \A q \in Runs \ {r} : Unmoved(q)
    BY <1>1, <1>2 DEF Propose, Unmoved, TypeOK, RunRecord, ApprovalRecord
  <2>4. QED
    BY <2>1, <2>2, <2>3 DEF OneRunMoves, RowsMove
<1>3. ASSUME NEW s \in Sessions, HandlerStep(s) PROVE OneRunMoves
  <2>1. PICK r \in Runs : r = sessions[s].run
    BY <1>1, <1>3, HandlerFrame
  <2>2. \A q \in Runs \ {r} : Unmoved(q)
    BY <1>1, <1>3, <2>1, HandlerFrame DEF Unmoved
  <2>3. QED
    BY <1>3, <2>1, <2>2, HandlerMove DEF OneRunMoves
<1>4. CASE UNCHANGED <<runs, approvals, toolCalls>>
  BY <1>4 DEF NoRunMoves, Unmoved
<1>5. ASSUME NEW s \in Sessions, NEW u \in Users, NEW r \in Runs,
             ExecuteRead(s, u, r) \/ \E d \in {"APPROVED", "REJECTED"} : DecideRead(s, u, r, d)
      PROVE  NoRunMoves
  BY <1>4, <1>5 DEF ExecuteRead, DecideRead, rows, history, NoRunMoves, Unmoved
<1>6. ASSUME NEW s \in Sessions, HandlerDies(s) PROVE NoRunMoves
  BY <1>4, <1>6 DEF HandlerDies, rows, NoRunMoves, Unmoved
<1>7. ASSUME NEW d \in Docs, IndexingStep(d) \/ NewDocumentVersion(d) PROVE NoRunMoves
  BY <1>4, <1>7 DEF IndexingStep, NewDocumentVersion, history, NoRunMoves, Unmoved
<1>8. CASE Tick \/ RotateSecret \/ UNCHANGED vars
  BY <1>4, <1>8 DEF Tick, RotateSecret, vars, rows, history
<1>9. QED
  BY <1>2, <1>3, <1>5, <1>6, <1>7, <1>8 DEF Next

\* The approval row follows VALID_APPROVAL_TRANSITIONS, though execute_action
\* and _fail_closed write it without asking that table.
THEOREM TableIsFollowed == ASSUME RowLocks PROVE Spec => ApprovalsFollowTheTable
<1> DEFINE Follows(r) ==
      LET before == approvals[r].decision
          after == approvals'[r].decision
      IN  after # before => \/ before = "NONE" /\ after = "PENDING"
                            \/ after \in ValidApprovalTransitions[before]
<1>1. /\ {"APPROVED", "REJECTED"} \subseteq ValidApprovalTransitions["PENDING"]
      /\ {"EXECUTED", "FAILED"} \subseteq ValidApprovalTransitions["APPROVED"]
  BY DEF ValidApprovalTransitions, ApprovalDecisions
<1>2. LockInv /\ [Next]_vars => \A r \in Runs : Follows(r)
  BY <1>1, EveryStepMoves DEF OneRunMoves, NoRunMoves, RowsMove, ToolStarts, Holds, Unmoved
<1>3. QED
  BY <1>2, LockInvariant, PTL DEF Spec, ApprovalsFollowTheTable

\* The first states map to the first state of ApprovalGate.
LEMMA GateInit == Init => Gate!Init
BY DEF Init, Gate!Init, Phase, NoRunRecord

\* Every step maps to a step of ApprovalGate, or to none.
LEMMA GateStep == LockInv /\ [Next]_vars => [Gate!Next]_(Gate!vars)
<1> SUFFICES ASSUME LockInv, [Next]_vars PROVE [Gate!Next]_(Gate!vars)
  OBVIOUS
<1> DEFINE phase == [r \in Runs |-> Phase(r)]
<1>1. ASSUME NEW q \in Runs, Unmoved(q) PROVE Phase(q)' = Phase(q)
  BY <1>1 DEF Phase, Unmoved
<1>2. CASE NoRunMoves
  BY <1>1, <1>2 DEF NoRunMoves, Gate!vars
<1>3. ASSUME NEW r \in Runs, (RowsMove(r) /\ toolCalls' = toolCalls) \/ ToolStarts(r),
             \A q \in Runs \ {r} : Unmoved(q)
      PROVE  Gate!Next
  <2>1. phase' = [phase EXCEPT ![r] = Phase(r)']
    BY <1>1, <1>3
  <2>2. CASE RowsMove(r) /\ toolCalls' = toolCalls
    <3>1. \/ Phase(r) = "absent" /\ Phase(r)' = "pending"
          \/ Phase(r) = "pending" /\ Phase(r)' = "authorised"
          \/ Phase(r) \in {"absent", "pending", "authorised"} /\ Phase(r)' = "refused"
          \/ Phase(r) = "running" /\ Phase(r)' = "done"
          \/ Phase(r) \in {"authorised", "running"} /\ Phase(r)' = "failed"
      BY <2>2 DEF RowsMove, Holds, Phase
    <3>2. QED
      BY <2>1, <2>2, <3>1
         DEF Gate!Next, Gate!Submit, Gate!Authorise, Gate!Refuse, Gate!Finish, Gate!Fail, Gate!Move
  <2>3. CASE ToolStarts(r)
    <3>1. Phase(r) = "authorised" /\ Phase(r)' = "running"
      BY <2>3 DEF ToolStarts, Holds, Phase
    <3>2. QED
      BY <2>1, <2>3, <3>1 DEF ToolStarts, Gate!Next, Gate!Start, Gate!Move
  <2>4. QED
    BY <1>3, <2>2, <2>3
<1>4. QED
  BY <1>2, <1>3, EveryStepMoves DEF OneRunMoves

\* With row locks the handlers of propose_action, decide_approval and
\* execute_action implement ApprovalGate.
THEOREM GateIsImplemented == ASSUME RowLocks PROVE Spec => GateSpec
BY GateInit, GateStep, LockInvariant, PTL DEF Spec, GateSpec, Gate!Spec

-----------------------------------------------------------------------------
(***************************************************************************)
(* With row locks a run whose time or whose document has passed stays out  *)
(* of the sandbox.                                                         *)
(***************************************************************************)

\* No run is bound to a version its document has not reached: versions grow.
VersionBound(r) ==
    Visible(runs[r].doc, TenantOf[runs[r].actor])
        => runs[r].docVersion <= documents[runs[r].doc].version

VersionInv == TypeOK /\ \A r \in Runs : VersionBound(r)

\* A document version never comes back (redaction.py counts them up).
LEMMA VersionsGrow ==
    ASSUME TypeOK, [Next]_vars, NEW d \in Docs
    PROVE  documents'[d].version >= documents[d].version
<1>1. documents \in [Docs -> DocumentRecord] /\ documents[d].version \in Nat
  BY DEF TypeOK, DocumentRecord
<1>2. CASE documents' = documents
  BY <1>1, <1>2
<1>3. ASSUME NEW e \in Docs, IndexingStep(e) \/ NewDocumentVersion(e)
      PROVE  documents'[d].version >= documents[d].version
  BY <1>1, <1>3 DEF IndexingStep, NewDocumentVersion, DocumentRecord
<1>4. ASSUME NEW s \in Sessions, HandlerStep(s) \/ HandlerDies(s) PROVE documents' = documents
  BY <1>4 DEF HandlerStep, HandlerDies, DecideCommit, ExecuteRefused, ExecuteCommit,
              ToolCompletes, ToolFails, FailClosed, rows
<1>5. QED
  BY <1>2, <1>3, <1>4 DEF Next, Propose, DecideRead, ExecuteRead, Tick, RotateSecret, rows, vars

\* What a run was proposed with is written once.
LEMMA BindingFixed ==
    ASSUME TypeOK, [Next]_vars, NEW r \in Runs
    PROVE  \/ /\ runs'[r].actor = runs[r].actor
              /\ runs'[r].doc = runs[r].doc
              /\ runs'[r].docVersion = runs[r].docVersion
              /\ runs[r].status # "NONE" => approvals'[r].createdAt = approvals[r].createdAt
           \/ /\ runs[r].status = "NONE"
              /\ Visible(runs'[r].doc, TenantOf[runs'[r].actor])
                    => runs'[r].docVersion = documents[runs'[r].doc].version
<1> DEFINE Fixed == /\ runs'[r].actor = runs[r].actor
                    /\ runs'[r].doc = runs[r].doc
                    /\ runs'[r].docVersion = runs[r].docVersion
                    /\ approvals'[r].createdAt = approvals[r].createdAt
<1>1. runs \in [Runs -> RunRecord] /\ approvals \in [Runs -> ApprovalRecord]
  BY DEF TypeOK
<1>2. CASE runs' = runs /\ approvals' = approvals
  BY <1>2
<1>3. ASSUME NEW u \in Users, NEW q \in Runs, NEW input \in ToolInputs,
             NEW wellFormed \in BOOLEAN, Propose(u, q, input, wellFormed), q # r
      PROVE  Fixed
  BY <1>1, <1>3 DEF Propose
<1>4. ASSUME NEW u \in Users, NEW input \in ToolInputs,
             NEW wellFormed \in BOOLEAN, Propose(u, r, input, wellFormed)
      PROVE  /\ runs[r].status = "NONE"
             /\ Visible(runs'[r].doc, TenantOf[runs'[r].actor])
                   => runs'[r].docVersion = documents[runs'[r].doc].version
  BY <1>1, <1>4, NullAssumption DEF Propose, Visible
<1>5. ASSUME NEW s \in Sessions, HandlerStep(s) PROVE Fixed
  <2>1. sessions[s].run \in Runs
    BY <1>5, HandlerFrame
  <2>2. CASE DecideCommit(s)
    BY <1>1, <2>1, <2>2 DEF DecideCommit, RunRecord, ApprovalRecord
  <2>3. ASSUME NEW status \in {"FAILED", "REJECTED"}, FailClosed(s, status) PROVE Fixed
    BY <1>1, <2>1, <2>3 DEF FailClosed, RunRecord, ApprovalRecord
  <2>4. CASE ExecuteCommit(s)
    BY <1>1, <2>1, <2>4 DEF ExecuteCommit, RunRecord
  <2>5. CASE ToolCompletes(s)
    BY <1>1, <2>1, <2>5 DEF ToolCompletes, RunRecord, ApprovalRecord
  <2>6. QED
    BY <1>5, <2>2, <2>3, <2>4, <2>5 DEF HandlerStep, ExecuteRefused, ToolFails
<1>6. ASSUME NEW s \in Sessions, HandlerDies(s) PROVE Fixed
  BY <1>6 DEF HandlerDies, rows
<1>7. QED
  BY <1>2, <1>3, <1>4, <1>5, <1>6
     DEF Next, DecideRead, ExecuteRead, IndexingStep, NewDocumentVersion, Tick, RotateSecret,
         rows, vars

\* No run is bound to a version its document has yet to reach.
LEMMA VersionStep == VersionInv /\ [Next]_vars => VersionInv'
<1> SUFFICES ASSUME VersionInv, [Next]_vars PROVE VersionInv'
  OBVIOUS
<1>1. TypeOK /\ TypeOK'
  BY TypeStep DEF VersionInv
<1>2. ASSUME NEW r \in Runs PROVE VersionBound(r)'
  <2>1. SUFFICES ASSUME Visible(runs'[r].doc, TenantOf[runs'[r].actor])
                 PROVE  runs'[r].docVersion <= documents'[runs'[r].doc].version
    BY DEF VersionBound, Visible
  <2>2. PICK d \in Docs : d = runs'[r].doc
    BY <2>1 DEF Visible
  <2>3. /\ documents[d].version \in Nat /\ documents'[d].version \in Nat
        /\ documents'[d].version >= documents[d].version
        /\ runs[r].docVersion \in Nat /\ runs'[r].docVersion \in Nat
    BY <1>1, VersionsGrow DEF TypeOK, DocumentRecord, RunRecord
  <2>4. runs'[r].docVersion <= documents[d].version
    BY <1>1, <2>1, <2>2, <2>3, BindingFixed DEF VersionInv, VersionBound
  <2>5. QED
    BY <2>2, <2>3, <2>4
<1>3. QED
  BY <1>1, <1>2 DEF VersionInv

\* At the start no run is bound to anything.
LEMMA VersionInit == Init => VersionInv
<1> SUFFICES ASSUME Init PROVE VersionInv
  OBVIOUS
<1>1. TypeOK
  BY TypeInit
<1>2. ASSUME NEW r \in Runs PROVE VersionBound(r)
  BY NullAssumption DEF Init, VersionBound, Visible, NoRunRecord
<1>3. QED
  BY <1>1, <1>2 DEF VersionInv

\* Once doomed, a pending or approved run that nobody validates stays doomed.
LEMMA DoomStays ==
    ASSUME VersionInv, [Next]_vars, NEW r \in Runs, Doomed(r),
           runs'[r].status \in {"APPROVAL_PENDING", "APPROVED"}, ~Validated(r)'
    PROVE  Doomed(r)'
<1>1. TypeOK /\ TypeOK'
  BY TypeStep DEF VersionInv
<1>2. /\ runs'[r].actor = runs[r].actor
      /\ runs'[r].doc = runs[r].doc
      /\ runs'[r].docVersion = runs[r].docVersion
      /\ approvals'[r].createdAt = approvals[r].createdAt
  BY <1>1, BindingFixed DEF Doomed
<1>3. now' >= now /\ now \in Nat
  <2>1. now \in Nat
    BY <1>1 DEF TypeOK
  <2>2. now' = now \/ Tick
    BY DEF Next, Propose, DecideRead, ExecuteRead, HandlerStep, DecideCommit, ExecuteRefused,
           ExecuteCommit, ToolCompletes, ToolFails, FailClosed, HandlerDies, IndexingStep,
           NewDocumentVersion, RotateSecret, vars
  <2>3. QED
    BY <2>1, <2>2 DEF Tick
<1>4. CASE IsApprovalExpired(r)
  <2>1. approvals[r].createdAt \in Nat /\ Ttl \in Nat /\ now' \in Nat
    BY <1>1, BoundsAssumption DEF TypeOK, ApprovalRecord
  <2>2. IsApprovalExpired(r)'
    BY <1>2, <1>3, <1>4, <2>1 DEF IsApprovalExpired
  <2>3. QED
    BY <2>2 DEF Doomed
<1>5. CASE DocumentIsStale(r)
  <2>1. PICK d \in Docs : d = runs[r].doc
    BY <1>5 DEF DocumentIsStale, Visible
  <2>2. /\ documents[d].version \in Nat /\ documents'[d].version \in Nat
        /\ documents'[d].version >= documents[d].version
        /\ runs[r].docVersion \in Nat
    BY <1>1, VersionsGrow DEF TypeOK, DocumentRecord, RunRecord
  <2>3. runs[r].docVersion < documents'[d].version
    BY <1>5, <2>1, <2>2 DEF DocumentIsStale, VersionInv, VersionBound
  <2>4. DocumentIsStale(r)'
    BY <1>2, <1>5, <2>1, <2>2, <2>3 DEF DocumentIsStale, Visible
  <2>5. QED
    BY <2>4 DEF Doomed
<1>6. QED
  BY <1>4, <1>5 DEF Doomed

\* No step validates a doomed run.
LEMMA NobodyValidates ==
    ASSUME TypeOK, [Next]_vars, NEW r \in Runs, Doomed(r)
    PROVE  ~Validated(r)'
<1>1. sessions \in [Sessions -> SessionRecord] /\ ~Validated(r)
  BY DEF TypeOK, Doomed
<1>2. CASE sessions' = sessions
  BY <1>1, <1>2 DEF Validated
<1>3. ASSUME NEW s \in Sessions,
             \A t \in Sessions \ {s} : sessions'[t] = sessions[t],
             sessions'[s].run = r /\ sessions'[s].step = "execute" => sessions'[s].choice # "proceed"
      PROVE  ~Validated(r)'
  BY <1>1, <1>3 DEF Validated
<1>4. ASSUME NEW s \in Sessions, NEW u \in Users, NEW q \in Runs,
             NEW d \in {"APPROVED", "REJECTED"}, DecideRead(s, u, q, d)
      PROVE  ~Validated(r)'
  BY <1>1, <1>3, <1>4 DEF DecideRead
<1>5. ASSUME NEW s \in Sessions, NEW u \in Users, NEW q \in Runs, ExecuteRead(s, u, q)
      PROVE  ~Validated(r)'
  <2>1. /\ sessions'[s].run = q /\ sessions'[s].choice = Verdict(q)
        /\ \A t \in Sessions \ {s} : sessions'[t] = sessions[t]
    BY <1>1, <1>5 DEF ExecuteRead
  <2>2. Verdict(q) = "proceed" => ~IsApprovalExpired(q) /\ ~DocumentIsStale(q)
    BY <1>5 DEF ExecuteRead, ExecutionPrerequisites, Verdict
  <2>3. QED
    BY <1>3, <2>1, <2>2 DEF Doomed
<1>6. ASSUME NEW s \in Sessions, HandlerStep(s) \/ HandlerDies(s) PROVE ~Validated(r)'
  <2>1. /\ \A t \in Sessions \ {s} : sessions'[t] = sessions[t]
        /\ sessions'[s].step # "execute"
    BY <1>1, <1>6 DEF HandlerStep, HandlerDies, DecideCommit, ExecuteRefused, ExecuteCommit,
                      ToolCompletes, ToolFails, FailClosed, Idle
  <2>2. QED
    BY <1>3, <2>1
<1>7. QED
  BY <1>2, <1>4, <1>5, <1>6
     DEF Next, Propose, IndexingStep, NewDocumentVersion, Tick, RotateSecret, vars

\* A doomed run stays doomed, or is refused or failed.
LEMMA DoomStep ==
    ASSUME LockInv, VersionInv, [Next]_vars, NEW r \in Runs, Doomed(r)
    PROVE  Doomed(r)' \/ runs'[r].status \in {"REJECTED", "FAILED"}
<1>1. TypeOK /\ ~Validated(r)'
  BY NobodyValidates DEF VersionInv
<1>2. runs'[r].status \in {"APPROVAL_PENDING", "APPROVED", "REJECTED", "FAILED"}
  <2>1. ASSUME NEW s \in Sessions, ExecuteCommit(s) PROVE sessions[s].run # r
    BY <2>1 DEF ExecuteCommit, Doomed, Validated
  <2>2. ASSUME ToolStarts(r) PROVE FALSE
    <3>1. toolCalls'[r] # toolCalls[r]
      BY <1>1, <2>2 DEF ToolStarts, TypeOK
    <3>2. ASSUME NEW s \in Sessions, ExecuteCommit(s) PROVE FALSE
      BY <1>1, <2>1, <3>1, <3>2 DEF ExecuteCommit, TypeOK
    <3>3. QED
      BY <3>1, <3>2
         DEF Next, Propose, DecideRead, ExecuteRead, HandlerStep, DecideCommit, ExecuteRefused,
             ToolCompletes, ToolFails, FailClosed, HandlerDies, IndexingStep, NewDocumentVersion,
             Tick, RotateSecret, vars, history
  <2>3. QED
    BY <2>2, EveryStepMoves DEF OneRunMoves, NoRunMoves, RowsMove, ToolStarts, Holds, Unmoved, Doomed
<1>3. QED
  BY <1>1, <1>2, DoomStays

\* With row locks, once the approval window has passed or the document has
\* moved on, a run that nobody has validated in time never starts: it waits,
\* is rejected, or fails (is_approval_expired, validate_execution_prerequisites).
THEOREM DoomedStayOut == ASSUME RowLocks PROVE Spec => DoomedRunsNeverStart
<1>1. LockInv /\ VersionInv /\ [Next]_vars =>
        \A r \in Runs : StaysDoomed(r)
  BY DoomStep DEF StaysDoomed
<1>2. Spec => []VersionInv
  BY VersionInit, VersionStep, PTL DEF Spec
<1>3. QED
  BY <1>1, <1>2, LockInvariant, PTL DEF Spec, DoomedRunsNeverStart

-----------------------------------------------------------------------------
(***************************************************************************)
(* What ApprovalGate promises, and so what the handlers keep.              *)
(***************************************************************************)

\* A run's tool was started once if the run is or was under way, and not at all
\* before that or when it was refused; one that has failed may have died
\* on either side.
Promised(r) ==
    /\ Phase(r) \in {"absent", "pending", "authorised", "refused"} => toolCalls[r] = 0
    /\ Phase(r) \in {"running", "done"} => toolCalls[r] = 1
    /\ Phase(r) = "failed" => toolCalls[r] \in 0..1

PromiseInv ==
    /\ \A r \in Runs : Phase(r) \in Gate!Phases /\ Promised(r)
    /\ toolCalls \in [Runs -> 0..1]

\* A step moves one run from where a step may begin.
LEMMA GateMoves ==
    ASSUME NEW r \in Runs, NEW from, NEW to, Gate!Move(r, from, to)
    PROVE  Phase(r) \in from /\ Phase(r)' = to /\ \A q \in Runs \ {r} : Phase(q)' = Phase(q)
<1> DEFINE phase == [q \in Runs |-> Phase(q)]
<1>1. phase[r] \in from /\ phase' = [phase EXCEPT ![r] = to]
    BY DEF Gate!Move
<1>2. \A q \in Runs : phase[q] = Phase(q) /\ phase'[q] = Phase(q)'
    OBVIOUS
<1>3. \A q \in Runs : phase'[q] = IF q = r THEN to ELSE phase[q]
    BY <1>1
<1> HIDE DEF phase
<1> QED BY <1>1, <1>2, <1>3

\* What a step of ApprovalGate does to a run.
Progress(r) ==
    \/ Phase(r)' = Phase(r) /\ toolCalls'[r] = toolCalls[r]
    \/ /\ Phase(r) = "authorised" /\ Phase(r)' = "running"
       /\ toolCalls'[r] = toolCalls[r] + 1
    \/ /\ toolCalls'[r] = toolCalls[r]
       /\ \/ Phase(r) = "absent" /\ Phase(r)' = "pending"
          \/ Phase(r) = "pending" /\ Phase(r)' = "authorised"
          \/ Phase(r) \in {"absent", "pending", "authorised"} /\ Phase(r)' = "refused"
          \/ Phase(r) = "running" /\ Phase(r)' = "done"
          \/ Phase(r) \in {"authorised", "running"} /\ Phase(r)' = "failed"

LEMMA GateProgress ==
    ASSUME PromiseInv, [Gate!Next]_(Gate!vars)
    PROVE  toolCalls' \in [Runs -> Nat] /\ \A r \in Runs : Progress(r)
<1>1. toolCalls \in [Runs -> 0..1]
    BY DEF PromiseInv
<1>2. CASE UNCHANGED Gate!vars
  <2> DEFINE phase == [q \in Runs |-> Phase(q)]
  <2>1. phase' = phase /\ toolCalls' = toolCalls
      BY <1>2 DEF Gate!vars
  <2>2. \A q \in Runs : phase[q] = Phase(q) /\ phase'[q] = Phase(q)'
      OBVIOUS
  <2> HIDE DEF phase
  <2> QED BY <1>1, <2>1, <2>2 DEF Progress
<1>3. ASSUME NEW r \in Runs, Gate!Submit(r) PROVE toolCalls' = toolCalls /\ \A q \in Runs : Progress(q)
  <2>1. Gate!Move(r, {"absent"}, "pending") /\ toolCalls' = toolCalls
      BY <1>3 DEF Gate!Submit
  <2> QED BY <2>1, GateMoves DEF Progress
<1>4. ASSUME NEW r \in Runs, Gate!Authorise(r) PROVE toolCalls' = toolCalls /\ \A q \in Runs : Progress(q)
  <2>1. Gate!Move(r, {"pending"}, "authorised") /\ toolCalls' = toolCalls
      BY <1>4 DEF Gate!Authorise
  <2> QED BY <2>1, GateMoves DEF Progress
<1>5. ASSUME NEW r \in Runs, Gate!Refuse(r) PROVE toolCalls' = toolCalls /\ \A q \in Runs : Progress(q)
  <2>1. Gate!Move(r, {"absent", "pending", "authorised"}, "refused") /\ toolCalls' = toolCalls
      BY <1>5 DEF Gate!Refuse
  <2> QED BY <2>1, GateMoves DEF Progress
<1>6. ASSUME NEW r \in Runs, Gate!Finish(r) PROVE toolCalls' = toolCalls /\ \A q \in Runs : Progress(q)
  <2>1. Gate!Move(r, {"running"}, "done") /\ toolCalls' = toolCalls
      BY <1>6 DEF Gate!Finish
  <2> QED BY <2>1, GateMoves DEF Progress
<1>7. ASSUME NEW r \in Runs, Gate!Fail(r) PROVE toolCalls' = toolCalls /\ \A q \in Runs : Progress(q)
  <2>1. Gate!Move(r, {"authorised", "running"}, "failed") /\ toolCalls' = toolCalls
      BY <1>7 DEF Gate!Fail
  <2> QED BY <2>1, GateMoves DEF Progress
<1>8. ASSUME NEW r \in Runs, Gate!Start(r)
      PROVE  toolCalls' \in [Runs -> Nat] /\ \A q \in Runs : Progress(q)
  <2>1. /\ Gate!Move(r, {"authorised"}, "running")
        /\ toolCalls' = [toolCalls EXCEPT ![r] = @ + 1]
      BY <1>8 DEF Gate!Start
  <2>2. /\ Phase(r) = "authorised" /\ Phase(r)' = "running"
        /\ \A q \in Runs \ {r} : Phase(q)' = Phase(q)
      BY <2>1, GateMoves
  <2>3. /\ toolCalls' \in [Runs -> Nat] /\ toolCalls'[r] = toolCalls[r] + 1
        /\ \A q \in Runs \ {r} : toolCalls'[q] = toolCalls[q]
      BY <1>1, <2>1
  <2> QED BY <2>2, <2>3 DEF Progress
<1> QED BY <1>1, <1>2, <1>3, <1>4, <1>5, <1>6, <1>7, <1>8 DEF Gate!Next, Gate!vars

LEMMA PromiseInit == Gate!Init => PromiseInv
<1> SUFFICES ASSUME Gate!Init PROVE PromiseInv
    OBVIOUS
<1> DEFINE phase == [q \in Runs |-> Phase(q)]
<1>1. phase = [q \in Runs |-> "absent"] /\ toolCalls = [q \in Runs |-> 0]
    BY DEF Gate!Init
<1>2. \A q \in Runs : phase[q] = Phase(q)
    OBVIOUS
<1> HIDE DEF phase
<1> QED BY <1>1, <1>2 DEF PromiseInv, Promised, Gate!Phases

LEMMA PromiseStep == PromiseInv /\ [Gate!Next]_(Gate!vars) => PromiseInv'
<1> SUFFICES ASSUME PromiseInv, [Gate!Next]_(Gate!vars) PROVE PromiseInv'
    OBVIOUS
<1>1. toolCalls' \in [Runs -> Nat] /\ \A r \in Runs : Progress(r)
    BY GateProgress
<1>2. ASSUME NEW r \in Runs
      PROVE  Phase(r)' \in Gate!Phases /\ Promised(r)' /\ toolCalls'[r] \in 0..1
  <2>1. Phase(r) \in Gate!Phases /\ Promised(r) /\ toolCalls[r] \in 0..1
      BY DEF PromiseInv
  <2> QED BY <1>1, <2>1 DEF Progress, Promised, Gate!Phases
<1> QED BY <1>1, <1>2 DEF PromiseInv

(***************************************************************************)
(* The abstract specification says what it is for: a tool is started once  *)
(* at the most, never for a request that nobody has authorised or that was *)
(* refused.                                                                *)
(***************************************************************************)
THEOREM GateKeepsItsPromise == GateSpec => [](\A r \in Runs : Promised(r))
<1>1. PromiseInv => \A r \in Runs : Promised(r)
    BY DEF PromiseInv
<1> QED BY <1>1, PromiseInit, PromiseStep, PTL DEF GateSpec, Gate!Spec

Ended(r) == Phase(r) \in {"refused", "failed", "done"}

(***************************************************************************)
(* With row locks a run that was refused, has failed or is completed stays *)
(* what it is, and its tool is not started any more (execute_action,       *)
(* decide_approval).                                                       *)
(***************************************************************************)
THEOREM EndedRunsStayEnded ==
    ASSUME RowLocks
    PROVE  Spec => [][\A r \in Runs : Ended(r) =>
                        Phase(r)' = Phase(r) /\ toolCalls'[r] = toolCalls[r]]_vars
<1> DEFINE Kept == \A r \in Runs : Ended(r) => Phase(r)' = Phase(r) /\ toolCalls'[r] = toolCalls[r]
<1>1. PromiseInv /\ [Gate!Next]_(Gate!vars) => Kept
  <2> SUFFICES ASSUME PromiseInv, [Gate!Next]_(Gate!vars), NEW r \in Runs, Ended(r)
               PROVE  Phase(r)' = Phase(r) /\ toolCalls'[r] = toolCalls[r]
      OBVIOUS
  <2>1. Progress(r)
      BY GateProgress
  <2> QED BY <2>1 DEF Progress, Ended
<1> HIDE DEF Kept
<1>2. LockInv /\ PromiseInv /\ [Next]_vars => [Kept]_vars /\ PromiseInv'
    BY <1>1, GateStep, PromiseStep
<1>3. Init => PromiseInv
    BY GateInit, PromiseInit
<1>4. Spec => [][Kept]_vars
    BY <1>2, <1>3, LockInvariant, PTL DEF Spec
<1> QED BY <1>4 DEF Kept
=============================================================================
