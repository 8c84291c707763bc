----------------------------- MODULE AuditChain -----------------------------
(***************************************************************************)
(* The audit log (services/audit.py).  Each tenant has a log of events;    *)
(* append_audit_event stores in a new event the hash of the latest one it  *)
(* finds, and verify_audit_chain, which reads the log by created_at, wants *)
(* every event to hold the hash of the event before it.                    *)
(*                                                                         *)
(* Events are appended inside the transaction of the request they are      *)
(* about.  The sessions do not flush before a query, so an append finds    *)
(* committed events only: neither those of the other requests in flight,   *)
(* nor those its own request has appended.                                 *)
(*                                                                         *)
(* A hash is modelled as what is hashed, so that hashes are equal exactly  *)
(* when all of it is.                                                      *)
(***************************************************************************)
EXTENDS Naturals, FiniteSets

CONSTANTS
    Tenants,
    LegacyTenant,   \* the tenant of the events from before there were tenants
    NoTenant,
    Writers,        \* the requests that can be in flight (a bound)
    EventCounts,    \* how many events a request appends: 1, or 2 for a
                    \* proposal and for an indexing that succeeds
    OneAtATime,     \* the requests of a tenant are served one after the other
    Advances,       \* by how much the clock moves on from one append to the next
    MaxEvents       \* bound of the events appended

ASSUME TenantsAssumption == LegacyTenant \in Tenants /\ NoTenant \notin Tenants
ASSUME CountsAssumption == EventCounts \subseteq {1, 2} /\ OneAtATime \in BOOLEAN
ASSUME ClockAssumption == Advances \subseteq {0, 1} /\ MaxEvents \in Nat

VARIABLES
    log,        \* the audit_events rows
    writers,    \* the requests in flight
    nextId,     \* the next event id: ids are never used twice
    clock,      \* the created_at of the latest append
    modified    \* some row was changed or removed by other means

vars == <<log, writers, nextId, clock, modified>>

-----------------------------------------------------------------------------
\* The previous_hash of the first event of a log: ids start at 1.
NoHash == [id |-> 0]

\* Fault: what happened is not part of what is hashed.
HashWithoutContent(e) ==
    [id |-> e.id, tenant |-> IF e.version = "v1" THEN NoTenant ELSE e.tenant,
     content |-> "original", prev |-> e.prev, createdAt |-> e.createdAt]

\* calculate_event_hash: v1 is older than the tenants and leaves them out.
HashOf(e) ==
    [id |-> e.id, tenant |-> IF e.version = "v1" THEN NoTenant ELSE e.tenant,
     content |-> e.content, prev |-> e.prev, createdAt |-> e.createdAt]

\* AuditEvent; content stands for the actor, the type, the resource and the
\* details.
Event(id, tenant, version, prev, createdAt) ==
    LET e == [id |-> id, tenant |-> tenant, version |-> version,
              content |-> "original", prev |-> prev, createdAt |-> createdAt]
    IN  [id |-> id, tenant |-> tenant, version |-> version, content |-> "original",
         prev |-> prev, createdAt |-> createdAt, hash |-> HashOf(e)]

Idle == [tenant |-> NoTenant, left |-> 0, pending |-> {}]

EventsOf(t) == {e \in log : e.tenant = t}

Latest(events) == {e \in events : \A f \in events : f.createdAt <= e.createdAt}

Before(e, events) == {f \in events : f.createdAt < e.createdAt}

\* verify_audit_chain succeeds in whatever order the database returns events
\* of the same time: of two such events each would have to follow the other.
Verified(events) ==
    \A e \in events :
        /\ e.hash = HashOf(e)
        /\ IF Before(e, events) = {}
           THEN e.prev = NoHash
           ELSE \E f \in Latest(Before(e, events)) : e.prev = f.hash
        /\ \A f \in events : f.createdAt = e.createdAt => f = e

AuditValid(t) == Verified(EventsOf(t))

-----------------------------------------------------------------------------
\* A new database, or one migrated with an event of the version v1.
Init == /\ \/ log = {} /\ nextId = 1
           \/ log = {Event(1, LegacyTenant, "v1", NoHash, 0)} /\ nextId = 2
        /\ writers = [w \in Writers |-> Idle]
        /\ clock = 0
        /\ modified = FALSE

\* A request starts.
Begin(w, t, n) ==
    /\ writers[w] = Idle
    /\ OneAtATime => \A v \in Writers : writers[v].tenant # t
    /\ writers' = [writers EXCEPT ![w] = [tenant |-> t, left |-> n, pending |-> {}]]
    /\ UNCHANGED <<log, nextId, clock, modified>>

\* Fault: the previous event is looked for in the logs of all tenants.
PreviousOfAnyTenant(t) == IF log = {} THEN {NoHash} ELSE {e.hash : e \in Latest(log)}

\* Fault: the first event is taken for the last one.
PreviousIsTheFirst(t) ==
    IF EventsOf(t) = {} THEN {NoHash}
    ELSE {e.hash : e \in {f \in EventsOf(t) : Before(f, EventsOf(t)) = {}}}

\* The query for the latest event: of several with the same created_at it
\* returns the one with the greatest id, which is random.
PreviousHashes(t) ==
    IF EventsOf(t) = {} THEN {NoHash} ELSE {e.hash : e \in Latest(EventsOf(t))}

\* append_audit_event: the event is added to the session, not yet to the log.
Append(w) ==
    /\ writers[w].left > 0
    /\ nextId <= MaxEvents
    /\ \E previous \in PreviousHashes(writers[w].tenant), advance \in Advances :
          LET e == Event(nextId, writers[w].tenant, "v2", previous, clock + advance)
          IN  /\ clock' = clock + advance
              /\ writers' = [writers EXCEPT ![w] = [tenant |-> @.tenant, left |-> @.left - 1,
                                                    pending |-> @.pending \cup {e}]]
    /\ nextId' = nextId + 1
    /\ UNCHANGED <<log, modified>>

\* The request commits its transaction, the events with it.
Commit(w) ==
    /\ writers[w].tenant # NoTenant
    /\ writers[w].left = 0
    /\ log' = log \cup writers[w].pending
    /\ writers' = [writers EXCEPT ![w] = Idle]
    /\ UNCHANGED <<nextId, clock, modified>>

\* The request fails, or the process stops.
Rollback(w) ==
    /\ writers[w].tenant # NoTenant
    /\ writers' = [writers EXCEPT ![w] = Idle]
    /\ UNCHANGED <<log, nextId, clock, modified>>

(***************************************************************************)
(* Somebody changes the table without the service: once, and leaving the   *)
(* hashes of the rows as they are.                                         *)
(***************************************************************************)
Modify(rows) == /\ ~modified
                /\ modified' = TRUE
                /\ log' = rows
                /\ UNCHANGED <<writers, nextId, clock>>

EditEvent(e) ==
    Modify((log \ {e}) \cup {[e EXCEPT !.content = "edited"]})

RedateEvent(e, time) ==
    /\ time # e.createdAt
    /\ Modify((log \ {e}) \cup {[e EXCEPT !.createdAt = time]})

\* Not the latest event of its log: a log that ends earlier is a valid log.
RemoveEvent(e) == /\ e \notin Latest(EventsOf(e.tenant))
                  /\ Modify(log \ {e})

Next == \/ \E w \in Writers, t \in Tenants, n \in EventCounts : Begin(w, t, n)
        \/ \E w \in Writers : Append(w) \/ Commit(w) \/ Rollback(w)
        \/ \E e \in log : EditEvent(e)
        \/ \E e \in log, time \in 0..clock : RedateEvent(e, time)
        \/ \E e \in log : RemoveEvent(e)

Spec == Init /\ [][Next]_vars

-----------------------------------------------------------------------------
(***************************************************************************)
(* Properties                                                              *)
(***************************************************************************)

\* Every event holds the hash of the event before it in its tenant's log, as
\* verify_audit_chain wants it, as long as only the service writes the log:
\* append_audit_event never makes a log that counts as tampered with.
ChainStaysValid == ~modified => \A t \in Tenants : AuditValid(t)

\* A row that was changed, moved or removed in place is noticed, and stays
\* noticed whatever the service appends afterwards (verify_audit_chain).
ModificationIsDetected == modified => \E t \in Tenants : ~AuditValid(t)

\* When requests overlap, or append two events, or the clock is too coarse,
\* the verification of a log nobody has modified fails; and it does so exactly
\* when two events of one tenant were appended after the same event, or at the
\* same time (append_audit_event, verify_audit_chain).
OnlyForksAndTiesBreakTheChain ==
    ~modified => \A t \in Tenants :
        AuditValid(t) <=> \A e, f \in EventsOf(t) :
            e.prev = f.prev \/ e.createdAt = f.createdAt => e = f

\* A log that has come apart stays so: nothing the service appends makes
\* verify_audit_chain accept it again.
BrokenLogsStayBroken ==
    [][\A t \in Tenants : ~modified' /\ ~AuditValid(t) => ~AuditValid(t)']_vars

=============================================================================
