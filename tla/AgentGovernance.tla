-------------------------- MODULE AgentGovernance --------------------------
(***************************************************************************)
(* The agent service (services/agent): a requester proposes a tool call, a *)
(* policy decides whether it may be proposed at all, an approver approves  *)
(* or rejects it, an executor has the approved call run in the sandbox.    *)
(*                                                                         *)
(* Every request is served by a handler with its own database session.  A  *)
(* handler of decide_approval or execute_action reads its rows, checks     *)
(* them, and commits later from the values it read: one step reads, the    *)
(* next one commits.  get_run asks for the run FOR UPDATE, which orders    *)
(* the handlers of one run on PostgreSQL and does nothing on SQLite, the   *)
(* default database: the constant RowLocks tells the two apart.  The tool  *)
(* itself runs after the commit, with no lock held.                        *)
(*                                                                         *)
(* Arguments, classifications and texts are abstracted to what the guards  *)
(* read of them: the document named by the arguments, whether the tool     *)
(* needs it, the version it was bound to, and the secret of their digest.  *)
(***************************************************************************)
EXTENDS Naturals, FiniteSets

CONSTANTS
    Runs,           \* the runs that can be proposed (a bound)
    Users,          \* the actors
    Docs,           \* the documents
    Sessions,       \* the handlers that can be in flight (a bound)
    Requesters,     \* users with the role requester, executor or admin
    Approvers,      \* users with the role approver or admin
    Executors,      \* users with the role executor or admin
    TenantOf,       \* the tenant of each user and of each document
    NoRun, NoUser, NoDoc,
    RowLocks,       \* SELECT ... FOR UPDATE locks the row
    Ttl,            \* how long an approval request is good for
    MaxTime,        \* bound of the clock
    MaxDocVersion,  \* bound of the document versions
    MaxEpoch        \* bound of the changes of the integrity secret

ASSUME RolesAssumption == /\ Requesters \subseteq Users
                          /\ Approvers \subseteq Users
                          /\ Executors \subseteq Users
ASSUME NullAssumption == /\ NoRun \notin Runs
                         /\ NoUser \notin Users
                         /\ NoDoc \notin Docs
ASSUME BoundsAssumption == /\ RowLocks \in BOOLEAN
                           /\ {Ttl, MaxTime, MaxDocVersion, MaxEpoch} \subseteq Nat

VARIABLES
    runs,         \* the agent_runs rows
    approvals,    \* the agent_approvals rows
    documents,    \* what the agent reads of the documents rows
    sessions,     \* the handlers in flight, and what each of them has read
    now,          \* the wall clock
    epoch,        \* which integrity secret the service is configured with
    \* History, read by no action
    toolCalls,    \* how often the tool of each run was started
    grants,       \* the approvers whose APPROVED was committed, per run
    abandoned     \* the runs whose handler died while their tool ran

rows == <<runs, approvals, documents>>
history == <<toolCalls, grants, abandoned>>
vars == <<rows, sessions, now, epoch, history>>

-----------------------------------------------------------------------------
\* Types

\* AgentRunState; "NONE" is a run that was not proposed.  REQUESTED,
\* POLICY_EVALUATED and VERIFYING occur in state_history only: no commit
\* leaves a run in them.
RunStates == {"NONE", "APPROVAL_PENDING", "APPROVED", "EXECUTING",
              "COMPLETED", "REJECTED", "FAILED"}

\* ApprovalDecision; "NONE" is a run without an approval row.
ApprovalDecisions == {"NONE", "PENDING", "APPROVED", "REJECTED", "EXPIRED",
                      "EXECUTED", "FAILED"}

\* docVersion is 0 when the arguments carry no document_version.
RunRecord == [status: RunStates, version: Nat, actor: Users \cup {NoUser},
              doc: Docs \cup {NoDoc}, requiresDoc: BOOLEAN, docVersion: Nat,
              digest: Nat]

ApprovalRecord == [decision: ApprovalDecisions, reviewer: Users \cup {NoUser},
                   createdAt: Nat]

\* The agent only asks whether a document is INDEXED, and its version.
DocumentRecord == [status: {"INDEXED", "NOT_INDEXED"}, version: Nat]

\* step: between the reads and the commit of decide_approval ("decide") or of
\* execute_action ("execute"), or waiting for the tool ("tool").
\* choice: the decision asked for, or what the checks of execute_action found.
Idle == [step |-> "idle", run |-> NoRun, user |-> NoUser, choice |-> "none", version |-> 0]
SessionRecord ==
    {Idle}
    \cup [step: {"decide"}, run: Runs, user: Users,
          choice: {"APPROVED", "REJECTED"}, version: Nat]
    \cup [step: {"execute", "tool"}, run: Runs, user: Users,
          choice: {"proceed", "tampered", "denied"}, version: Nat]

NoRunRecord == [status |-> "NONE", version |-> 0, actor |-> NoUser, doc |-> NoDoc,
                requiresDoc |-> FALSE, docVersion |-> 0, digest |-> 0]
NoApproval == [decision |-> "NONE", reviewer |-> NoUser, createdAt |-> 0]

TypeOK ==
    /\ runs \in [Runs -> RunRecord]
    /\ approvals \in [Runs -> ApprovalRecord]
    /\ documents \in [Docs -> DocumentRecord]
    /\ sessions \in [Sessions -> SessionRecord]
    /\ now \in Nat
    /\ epoch \in Nat
    /\ toolCalls \in [Runs -> Nat]
    /\ grants \in [Runs -> SUBSET Users]
    /\ abandoned \in SUBSET Runs

-----------------------------------------------------------------------------
\* What the handlers ask of the rows

\* is_approval_expired: strictly later than created_at + ttl.
IsApprovalExpired(r) == now > approvals[r].createdAt + Ttl

\* VALID_APPROVAL_TRANSITIONS
ValidApprovalTransitions ==
    [d \in ApprovalDecisions |->
        CASE d = "PENDING"  -> {"APPROVED", "REJECTED", "EXPIRED"}
          [] d = "APPROVED" -> {"EXECUTED", "FAILED", "EXPIRED"}
          [] OTHER          -> {}]

\* validate_approval_transition
ApprovalMayBecome(r, target) ==
    /\ approvals[r].decision \notin {"REJECTED", "EXPIRED", "EXECUTED", "FAILED"}
    /\ ~IsApprovalExpired(r)
    /\ target \in ValidApprovalTransitions[approvals[r].decision]

\* The query for a document of the tenant finds a row.
Visible(d, tenant) == d \in Docs /\ TenantOf[d] = tenant

\* _resource_is_authorized: true of arguments that name no document.
ResourceIsAuthorized(d, tenant) ==
    d # NoDoc => Visible(d, tenant) /\ documents[d].status = "INDEXED"

\* AgentPolicyEngine.evaluate: the verdict on tool, classification and
\* arguments (wellFormed) never changes; the one on the document may.
PolicyAllows(wellFormed, requiresDoc, d, tenant) ==
    /\ wellFormed
    /\ requiresDoc => ResourceIsAuthorized(d, tenant)

\* Fault: one of the two handlers asks for the row without FOR UPDATE.
LockedByDeciders(r) == \E s \in Sessions : sessions[s].run = r /\ sessions[s].step = "decide"
LockedByExecutors(r) == \E s \in Sessions : sessions[s].run = r /\ sessions[s].step = "execute"

\* A transaction of another session holds the run's row.
Locked(r) == \E s \in Sessions : sessions[s].run = r /\ sessions[s].step \in {"decide", "execute"}

\* get_run(lock=True): the row exists in the tenant of the caller, and the
\* caller has waited for its lock.
GetRunForUpdate(r, u) ==
    /\ runs[r].status # "NONE"
    /\ TenantOf[runs[r].actor] = TenantOf[u]
    /\ RowLocks => ~Locked(r)

-----------------------------------------------------------------------------
Init ==
    /\ runs = [r \in Runs |-> NoRunRecord]
    /\ approvals = [r \in Runs |-> NoApproval]
    /\ documents \in [Docs -> [status: {"INDEXED", "NOT_INDEXED"}, version: {1}]]
    /\ sessions = [s \in Sessions |-> Idle]
    /\ now = 0
    /\ epoch = 0
    /\ toolCalls = [r \in Runs |-> 0]
    /\ grants = [r \in Runs |-> {}]
    /\ abandoned = {}

(***************************************************************************)
(* propose_action: one transaction that inserts new rows.                  *)
(***************************************************************************)
\* The tools: with a mandatory document_id (summarize, draft_*, report), with
\* an optional one (calculate_procurement_comparison), or with none.
ToolInputs == [requiresDoc: {TRUE}, doc: Docs] \cup [requiresDoc: {FALSE}, doc: Docs \cup {NoDoc}]

Propose(u, r, input, wellFormed) ==
    LET tenant == TenantOf[u]
        allowed == PolicyAllows(wellFormed, input.requiresDoc, input.doc, tenant)
    IN  /\ u \in Requesters
        /\ runs[r].status = "NONE"
        /\ runs' = [runs EXCEPT ![r] =
               [status |-> IF allowed THEN "APPROVAL_PENDING" ELSE "REJECTED",
                version |-> 1,
                actor |-> u,
                \* the arguments of a rejected proposal are not stored
                doc |-> IF allowed THEN input.doc ELSE NoDoc,
                requiresDoc |-> input.requiresDoc,
                \* a version supplied for a document that is not found
                \* is never compared with anything: it counts as none
                docVersion |-> IF allowed /\ Visible(input.doc, tenant)
                               THEN documents[input.doc].version ELSE 0,
                digest |-> epoch]]
        /\ approvals' = IF allowed
                        THEN [approvals EXCEPT ![r] = [decision |-> "PENDING",
                                                       reviewer |-> NoUser,
                                                       createdAt |-> now]]
                        ELSE approvals
        /\ UNCHANGED <<documents, sessions, now, epoch, history>>

(***************************************************************************)
(* decide_approval                                                         *)
(***************************************************************************)
\* Fault: requesters may decide about their own runs.
AnyoneMayDecide(u, r, decision) == TRUE

\* The requester may reject their own action, and not approve it.
MayDecide(u, r, decision) == decision = "APPROVED" => u # runs[r].actor

DecideRead(s, u, r, decision) ==
    /\ sessions[s].step = "idle"
    /\ u \in Approvers
    /\ GetRunForUpdate(r, u)
    /\ runs[r].status = "APPROVAL_PENDING"
    /\ MayDecide(u, r, decision)
    /\ ApprovalMayBecome(r, decision)
    /\ sessions' = [sessions EXCEPT ![s] = [step |-> "decide", run |-> r, user |-> u,
                                            choice |-> decision,
                                            version |-> runs[r].version]]
    /\ UNCHANGED <<rows, now, epoch, history>>

\* The session writes the columns it changed, whatever the rows hold by now.
DecideCommit(s) ==
    LET r == sessions[s].run
        decision == sessions[s].choice
    IN  /\ sessions[s].step = "decide"
        /\ approvals' = [approvals EXCEPT ![r].decision = decision,
                                          ![r].reviewer = sessions[s].user]
        /\ runs' = [runs EXCEPT ![r].status = decision,
                                ![r].version = sessions[s].version + 1]
        /\ grants' = IF decision = "APPROVED"
                     THEN [grants EXCEPT ![r] = @ \cup {sessions[s].user}]
                     ELSE grants
        /\ sessions' = [sessions EXCEPT ![s] = Idle]
        /\ UNCHANGED <<documents, now, epoch, toolCalls, abandoned>>

(***************************************************************************)
(* execute_action                                                          *)
(***************************************************************************)
\* validate_execution_prerequisites, the document part: the version is
\* compared when the row is found and the arguments carry a version.
DocumentIsStale(r) ==
    /\ Visible(runs[r].doc, TenantOf[runs[r].actor])
    /\ runs[r].docVersion # 0
    /\ runs[r].docVersion # documents[runs[r].doc].version

\* Fault: the version the run was bound to is not compared.
PrerequisitesWithoutVersion(r) ==
    approvals[r].decision = "APPROVED" /\ ~IsApprovalExpired(r)

\* validate_execution_prerequisites; a digest that does not match is found
\* before the version is compared, and is not refused but failed closed.
ExecutionPrerequisites(r) ==
    /\ approvals[r].decision = "APPROVED"
    /\ ~IsApprovalExpired(r)
    /\ runs[r].digest = epoch => ~DocumentIsStale(r)

\* What the checks after the lock come to.  The document row is read once: the
\* later queries of the session return the object it already holds.
Verdict(r) ==
    LET tenant == TenantOf[runs[r].actor]
    IN  CASE runs[r].digest # epoch -> "tampered"
          [] ~PolicyAllows(TRUE, runs[r].requiresDoc, runs[r].doc, tenant) -> "denied"
          [] OTHER -> "proceed"

\* _build_runner_payload raises a conflict for a document that is not indexed,
\* also when the policy does not ask for it.
PayloadCanBeBuilt(r) == ResourceIsAuthorized(runs[r].doc, TenantOf[runs[r].actor])

\* Fault: a run whose handler died may be executed again.
ExecutableAndStuckStates == {"APPROVED", "FAILED", "EXECUTING"}

\* FAILED is there for retries, which the approval of a failed run rules out.
ExecutableStates == {"APPROVED", "FAILED"}

ExecuteRead(s, u, r) ==
    /\ sessions[s].step = "idle"
    /\ u \in Executors
    /\ GetRunForUpdate(r, u)
    /\ runs[r].status \in ExecutableStates
    /\ ExecutionPrerequisites(r)
    /\ Verdict(r) = "proceed" => PayloadCanBeBuilt(r)
    /\ sessions' = [sessions EXCEPT ![s] = [step |-> "execute", run |-> r, user |-> u,
                                            choice |-> Verdict(r),
                                            version |-> runs[r].version]]
    /\ UNCHANGED <<rows, now, epoch, history>>

\* Faults: the approval is left APPROVED; it is given the status of the run;
\* the run of an approval that has expired is given the state of one.
FailClosedRunOnly(s, status) ==
    /\ runs' = [runs EXCEPT ![sessions[s].run].status = status,
                            ![sessions[s].run].version = sessions[s].version + 1]
    /\ sessions' = [sessions EXCEPT ![s] = Idle]
    /\ UNCHANGED <<approvals, documents, now, epoch, history>>
FailClosedSameState(s, status) ==
    /\ runs' = [runs EXCEPT ![sessions[s].run].status = status,
                            ![sessions[s].run].version = sessions[s].version + 1]
    /\ approvals' = [approvals EXCEPT ![sessions[s].run].decision = status]
    /\ sessions' = [sessions EXCEPT ![s] = Idle]
    /\ UNCHANGED <<documents, now, epoch, history>>
FailClosedAsExpired(s, status) ==
    FailClosedSameState(s, IF IsApprovalExpired(sessions[s].run) THEN "EXPIRED" ELSE status)

\* _fail_closed; the approval object is the one the session has read.
FailClosed(s, status) ==
    LET r == sessions[s].run
    IN  /\ runs' = [runs EXCEPT ![r].status = status,
                                ![r].version = sessions[s].version + 1]
        /\ approvals' = [approvals EXCEPT ![r].decision = "FAILED"]
        /\ sessions' = [sessions EXCEPT ![s] = Idle]
        /\ UNCHANGED <<documents, now, epoch, history>>

ExecuteRefused(s) ==
    /\ sessions[s].step = "execute"
    /\ \/ sessions[s].choice = "tampered" /\ FailClosed(s, "FAILED")
       \/ sessions[s].choice = "denied" /\ FailClosed(s, "REJECTED")

\* EXECUTING is committed, which releases the row, and the tool is started.
ExecuteCommit(s) ==
    LET r == sessions[s].run
    IN  /\ sessions[s].step = "execute"
        /\ sessions[s].choice = "proceed"
        /\ runs' = [runs EXCEPT ![r].status = "EXECUTING",
                                ![r].version = sessions[s].version + 1]
        /\ toolCalls' = [toolCalls EXCEPT ![r] = @ + 1]
        /\ sessions' = [sessions EXCEPT ![s] = [step |-> "tool", run |-> r,
                                                user |-> @.user, choice |-> "proceed",
                                                version |-> @.version + 1]]
        /\ UNCHANGED <<approvals, documents, now, epoch, grants, abandoned>>

\* The tool answered, and its output was verified.
ToolCompletes(s) ==
    LET r == sessions[s].run
    IN  /\ sessions[s].step = "tool"
        /\ runs' = [runs EXCEPT ![r].status = "COMPLETED",
                                ![r].version = sessions[s].version + 1]
        /\ approvals' = [approvals EXCEPT ![r].decision = "EXECUTED"]
        /\ sessions' = [sessions EXCEPT ![s] = Idle]
        /\ UNCHANGED <<documents, now, epoch, history>>

\* Fault: the error of the tool is reported to the caller, and not recorded.
ToolFailsUnrecorded(s) == /\ sessions[s].step = "tool"
                          /\ sessions' = [sessions EXCEPT ![s] = Idle]
                          /\ UNCHANGED <<rows, now, epoch, history>>

\* NOT_EXECUTED (no local model), or a ToolRunnerError: sandbox missing, timed
\* out, or output refused.
ToolFails(s) == sessions[s].step = "tool" /\ FailClosed(s, "FAILED")

\* The process stops, or the handler is ended by an error it does not catch:
\* what was not committed is rolled back.
HandlerDies(s) ==
    /\ sessions[s].step # "idle"
    /\ sessions' = [sessions EXCEPT ![s] = Idle]
    /\ abandoned' = IF sessions[s].step = "tool"
                    THEN abandoned \cup {sessions[s].run} ELSE abandoned
    /\ UNCHANGED <<rows, now, epoch, toolCalls, grants>>

(***************************************************************************)
(* The rest of the system, as far as the agent can see it.                 *)
(***************************************************************************)
\* index_document activates a generation, or takes an indexed document back
\* to INDEXING; the version is left alone.
IndexingStep(d) ==
    /\ documents' = [documents EXCEPT ![d].status = IF @ = "INDEXED" THEN "NOT_INDEXED"
                                                                     ELSE "INDEXED"]
    /\ UNCHANGED <<runs, approvals, sessions, now, epoch, history>>

\* An extraction or a review is committed: a new version, to be indexed.
NewDocumentVersion(d) ==
    /\ documents[d].version < MaxDocVersion
    /\ documents' = [documents EXCEPT ![d] = [status |-> "NOT_INDEXED", version |-> @.version + 1]]
    /\ UNCHANGED <<runs, approvals, sessions, now, epoch, history>>

Tick == /\ now < MaxTime
        /\ now' = now + 1
        /\ UNCHANGED <<rows, sessions, epoch, history>>

\* The service is restarted with another agent_integrity_secret.
RotateSecret == /\ epoch < MaxEpoch
                /\ \A s \in Sessions : sessions[s].step = "idle"
                /\ epoch' = epoch + 1
                /\ UNCHANGED <<rows, sessions, now, history>>

-----------------------------------------------------------------------------
\* The handler of s goes on.
HandlerStep(s) == \/ DecideCommit(s)
                  \/ ExecuteRefused(s)
                  \/ ExecuteCommit(s)
                  \/ ToolCompletes(s)
                  \/ ToolFails(s)

Next ==
    \/ \E u \in Users, r \in Runs, input \in ToolInputs, wellFormed \in BOOLEAN :
          Propose(u, r, input, wellFormed)
    \/ \E s \in Sessions, u \in Users, r \in Runs, d \in {"APPROVED", "REJECTED"} :
          DecideRead(s, u, r, d)
    \/ \E s \in Sessions, u \in Users, r \in Runs : ExecuteRead(s, u, r)
    \/ \E s \in Sessions : HandlerStep(s)
    \/ \E s \in Sessions : HandlerDies(s)
    \/ \E d \in Docs : IndexingStep(d)
    \/ \E d \in Docs : NewDocumentVersion(d)
    \/ Tick
    \/ RotateSecret

Spec == Init /\ [][Next]_vars

\* A handler that was started is run to its end by the server's thread pool;
\* the tool answers, fails, or is stopped by its timeout.
Fairness == \A s \in Sessions : WF_vars(HandlerStep(s))

FairSpec == Spec /\ Fairness

-----------------------------------------------------------------------------
(***************************************************************************)
(* Properties                                                              *)
(***************************************************************************)

\* A tool is started once per approved run, however many executors press the
\* button at the same time (execute_action; the workflow's replay protection).
AtMostOneToolCall == \A r \in Runs : toolCalls[r] <= 1

\* A tool that was started had been approved by a committed decision of an
\* approver of the run's tenant who is not its requester, and works on a
\* document of that tenant only (decide_approval, execute_action).  This one
\* needs no row lock.
CallsWereAuthorised ==
    \A r \in Runs : toolCalls[r] > 0 =>
        /\ \E u \in grants[r] : /\ u \in Approvers
                              /\ u # runs[r].actor
                              /\ TenantOf[u] = TenantOf[runs[r].actor]
        /\ runs[r].doc # NoDoc => TenantOf[runs[r].doc] = TenantOf[runs[r].actor]

RowsAgree(r) ==
    LET status == runs[r].status
        decision == approvals[r].decision
    IN  /\ status = "APPROVAL_PENDING" <=> decision = "PENDING"
        /\ status \in {"APPROVED", "EXECUTING"} <=> decision = "APPROVED"
        /\ status = "COMPLETED" <=> decision = "EXECUTED"
        /\ status = "FAILED" => decision = "FAILED"
        /\ status = "REJECTED" => /\ decision \in {"NONE", "REJECTED", "FAILED"}
                                 /\ toolCalls[r] = 0

\* The two rows of a run, written by separate statements of three handlers,
\* tell the same story; a run that ended refused never reached the tool.
RunMatchesApproval == \A r \in Runs : RowsAgree(r)

\* The reviewer on record of a run that was started is the one whose approval
\* let it start.
ReviewerOnRecordApproved ==
    \A r \in Runs : toolCalls[r] > 0 => approvals[r].reviewer \in grants[r]

\* An approval row moves along VALID_APPROVAL_TRANSITIONS only, though
\* execute_action and _fail_closed set it without asking that table.
ApprovalsFollowTheTable ==
    [][\A r \in Runs :
          LET before == approvals[r].decision
              after == approvals'[r].decision
          IN  after # before => \/ before = "NONE" /\ after = "PENDING"
                                \/ after \in ValidApprovalTransitions[before]]_vars

\* A run whose window has passed, or whose document has moved on to another
\* version, and which no executor has validated in time: it can still be
\* decided about or fail, but never start (the TTL and the version binding
\* are checked by different handlers, at different times).
Validated(r) == \E s \in Sessions : /\ sessions[s].run = r
                                    /\ sessions[s].step = "execute"
                                    /\ sessions[s].choice = "proceed"
Doomed(r) == /\ runs[r].status \in {"APPROVAL_PENDING", "APPROVED"}
             /\ IsApprovalExpired(r) \/ DocumentIsStale(r)
             /\ ~Validated(r)
StaysDoomed(r) == Doomed(r) => Doomed(r)' \/ runs'[r].status \in {"REJECTED", "FAILED"}
DoomedRunsNeverStart == [][\A r \in Runs : StaysDoomed(r)]_vars

\* A run whose tool was started ends COMPLETED or FAILED, unless its handler
\* died: nothing else ever picks it up (execute_action, after its commit).
CallsAreResolved ==
    \A r \in Runs : runs[r].status = "EXECUTING" ~>
        (runs[r].status \in {"COMPLETED", "FAILED"} \/ r \in abandoned)

\* The promise of ApprovalGate, with every run in the phase its status tells.
Phase(r) == CASE runs[r].status = "NONE" -> "absent"
              [] runs[r].status = "APPROVAL_PENDING" -> "pending"
              [] runs[r].status = "APPROVED" -> "authorised"
              [] runs[r].status = "EXECUTING" -> "running"
              [] runs[r].status = "COMPLETED" -> "done"
              [] runs[r].status = "REJECTED" -> "refused"
              [] runs[r].status = "FAILED" -> "failed"

Gate == INSTANCE ApprovalGate WITH phase <- [r \in Runs |-> Phase(r)],
                                   calls <- toolCalls

\* The handlers implement ApprovalGate when the row locks work.
GateSpec == Gate!Spec
=============================================================================
