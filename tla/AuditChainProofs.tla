-------------------------- MODULE AuditChainProofs --------------------------
(***************************************************************************)
(* What holds of AuditChain for every number of tenants, requests and      *)
(* events: first when the requests of a tenant come one at a time, append  *)
(* one event each, and no two events have the same time; then whatever     *)
(* overlaps.                                                               *)
(***************************************************************************)
EXTENDS AuditChain, WellFoundedInduction, TLAPS

OneEventAtATime == OneAtATime /\ EventCounts = {1} /\ Advances = {1}

-----------------------------------------------------------------------------
(***************************************************************************)
(* The inductive invariant.                                                *)
(***************************************************************************)

UsedIds == {i \in Nat : 1 <= i /\ i < nextId}

\* e is a record with the columns of a row.
IsEvent(e) == e = [id |-> e.id, tenant |-> e.tenant, version |-> e.version,
                   content |-> e.content, prev |-> e.prev,
                   createdAt |-> e.createdAt, hash |-> e.hash]

\* A row of the log, modified or not.
RowInv(e) == /\ IsEvent(e)
             /\ e.id \in UsedIds
             /\ e.tenant \in Tenants
             /\ e.createdAt \in 0..clock
             /\ e.hash.id = e.id
             /\ e.prev # NoHash => e.prev.id \in UsedIds

\* An event that was appended and is not committed: the log does not know it.
PendingInv(e, t) ==
    /\ e.tenant = t
    /\ e.version = "v2"
    /\ e.content = "original"
    /\ e.hash = HashOf(e)
    /\ RowInv(e)
    /\ \A f \in log : f.id # e.id /\ (f.prev # NoHash => f.prev.id # e.id)

\* With the log of the tenant as it was when e was appended.
FollowsTheLog(e, t) == /\ e.prev \in PreviousHashes(t)
                       /\ \A f \in EventsOf(t) : f.createdAt < e.createdAt

WriterInv(w) ==
    \/ writers[w] = Idle
    \/ /\ writers[w] = [tenant |-> writers[w].tenant, left |-> writers[w].left,
                         pending |-> writers[w].pending]
       /\ writers[w].tenant \in Tenants
       /\ \/ writers[w].left = 1 /\ writers[w].pending = {}
          \/ /\ writers[w].left = 0
             /\ \E e : /\ writers[w].pending = {e}
                       /\ PendingInv(e, writers[w].tenant)
                       /\ ~modified => FollowsTheLog(e, writers[w].tenant)

\* One writer per tenant; and what two writers are about to commit is about
\* different ids, and refers to what is committed.
SoleWriter ==
    \A v, w \in Writers :
        /\ writers[v].tenant # NoTenant /\ writers[v].tenant = writers[w].tenant => v = w
        /\ \A e \in writers[v].pending, f \in writers[w].pending :
              /\ e.id = f.id => v = w
              /\ e.prev # NoHash => e.prev.id # f.id

\* Every event but the latest of its log is referred to by another one.
Linked(events) ==
    \A e \in events : e \in Latest(events) \/ \E f \in events : f.prev = e.hash

\* What the verification stumbles over.
Broken(e) == \/ e.hash # HashOf(e)
             \/ e.prev # NoHash /\ \A f \in log : f.hash # e.prev

ChainInv ==
    /\ nextId \in Nat /\ nextId >= 1
    /\ clock \in Nat
    /\ modified \in BOOLEAN
    /\ DOMAIN writers = Writers
    /\ \A e \in log : RowInv(e)
    /\ \A e, f \in log : e.id = f.id => e = f
    /\ \A w \in Writers : WriterInv(w)
    /\ SoleWriter
    /\ ~modified => /\ \A e \in log : e.content = "original"
                    /\ \A t \in Tenants : AuditValid(t) /\ Linked(EventsOf(t))
    /\ modified => \E e \in log : Broken(e)

-----------------------------------------------------------------------------
(***************************************************************************)
(* What the verification makes of a log.                                   *)
(***************************************************************************)

\* A hash can be told from the hash of any other event, and from none at all
\* (calculate_event_hash: all of the event is hashed).
LEMMA HashFacts ==
    ASSUME NEW e, NEW f, e.id \in Nat, e.id >= 1
    PROVE  /\ HashOf(e).id = e.id
           /\ HashOf(e).content = e.content
           /\ HashOf(e).createdAt = e.createdAt
           /\ HashOf(e).prev = e.prev
           /\ HashOf(e) # NoHash
           /\ HashOf(e) = HashOf(f) => e.id = f.id
BY DEF HashOf, NoHash

\* A later event that holds the hash of the latest one continues a verified log
\* (append_audit_event, as verify_audit_chain sees it).
LEMMA VerifiedExtends ==
    ASSUME NEW S, NEW e, Verified(S), e.hash = HashOf(e), e.createdAt \in Nat,
           \A f \in S : f.createdAt \in Nat /\ f.createdAt < e.createdAt,
           IF S = {} THEN e.prev = NoHash ELSE \E f \in Latest(S) : e.prev = f.hash
    PROVE  Verified(S \cup {e})
<1> DEFINE T == S \cup {e}
<1>1. Before(e, T) = S
  BY DEF Before
<1>2. ASSUME NEW f \in S PROVE Before(f, T) = Before(f, S)
  BY <1>2 DEF Before
<1>3. ASSUME NEW f \in T, NEW g \in T, g.createdAt = f.createdAt PROVE g = f
  BY <1>3 DEF Verified
<1>4. ASSUME NEW f \in T
      PROVE  /\ f.hash = HashOf(f)
             /\ IF Before(f, T) = {} THEN f.prev = NoHash
                ELSE \E g \in Latest(Before(f, T)) : f.prev = g.hash
  <2>1. CASE f \in S
    BY <2>1, <1>2 DEF Verified
  <2>2. CASE f = e
    BY <2>2, <1>1
  <2>3. QED
    BY <2>1, <2>2
<1>5. QED
  BY <1>3, <1>4 DEF Verified

\* It also becomes the only event nobody refers to.
LEMMA LinkedExtends ==
    ASSUME NEW S, NEW e, Verified(S), Linked(S), e.createdAt \in Nat,
           \A f \in S : f.createdAt \in Nat /\ f.createdAt < e.createdAt,
           S # {} => \E f \in Latest(S) : e.prev = f.hash
    PROVE  Linked(S \cup {e})
<1> DEFINE T == S \cup {e}
<1>1. e \in Latest(T)
  BY DEF Latest
<1>2. ASSUME NEW f \in S PROVE \E g \in T : g.prev = f.hash
  <2>1. CASE f \in Latest(S)
    <3>1. PICK g \in Latest(S) : e.prev = g.hash
      BY <1>2
    <3>2. g \in S /\ g.createdAt = f.createdAt
      BY <2>1, <3>1 DEF Latest
    <3>3. g = f
      BY <3>2, <1>2 DEF Verified
    <3>4. QED
      BY <3>1, <3>3
  <2>2. CASE f \notin Latest(S)
    BY <2>2, <1>2 DEF Linked
  <2>3. QED
    BY <2>1, <2>2
<1>3. QED
  BY <1>1, <1>2 DEF Linked

\* A log with a broken row does not pass (verify_audit_chain).
LEMMA BrokenIsDetected ==
    ASSUME NEW e \in log, Broken(e) PROVE ~AuditValid(e.tenant)
<1> SUFFICES ASSUME AuditValid(e.tenant) PROVE FALSE
  OBVIOUS
<1>1. e \in EventsOf(e.tenant)
  BY DEF EventsOf
<1>2. /\ e.hash = HashOf(e)
      /\ IF Before(e, EventsOf(e.tenant)) = {} THEN e.prev = NoHash
         ELSE \E f \in Latest(Before(e, EventsOf(e.tenant))) : e.prev = f.hash
  BY <1>1 DEF AuditValid, Verified
<1>3. e.prev # NoHash => \E f \in log : e.prev = f.hash
  BY <1>2 DEF Latest, Before, EventsOf
<1>4. QED
  BY <1>2, <1>3 DEF Broken

-----------------------------------------------------------------------------
(***************************************************************************)
(* The steps of the service.                                               *)
(***************************************************************************)

\* A new or migrated database satisfies the invariant.
LEMMA ChainInit == Init => ChainInv
<1> SUFFICES ASSUME Init PROVE ChainInv
  OBVIOUS
<1> DEFINE e == Event(1, LegacyTenant, "v1", NoHash, 0)
<1>1. /\ e.id = 1 /\ e.tenant = LegacyTenant /\ e.content = "original"
      /\ e.prev = NoHash /\ e.createdAt = 0 /\ e.hash = HashOf(e) /\ IsEvent(e)
      /\ e.hash.id = 1
  BY DEF Event, HashOf, IsEvent
<1>2. log \subseteq {e} /\ nextId \in Nat /\ nextId >= 1 /\ (log # {} => nextId = 2)
  BY DEF Init
<1>3. \A f \in log : RowInv(f) /\ f.content = "original"
  BY <1>1, <1>2, TenantsAssumption DEF RowInv, UsedIds, Init
<1>4. ASSUME NEW t \in Tenants PROVE AuditValid(t) /\ Linked(EventsOf(t))
  <2>1. ASSUME NEW f \in EventsOf(t)
        PROVE  /\ f.hash = HashOf(f) /\ f.prev = NoHash /\ Before(f, EventsOf(t)) = {}
               /\ f \in Latest(EventsOf(t))
               /\ \A g \in EventsOf(t) : g = f
    BY <1>1, <1>2 DEF EventsOf, Before, Latest
  <2>2. QED
    BY <2>1 DEF AuditValid, Verified, Linked
<1>5. SoleWriter
  BY DEF Init, SoleWriter, Idle
<1>6. \A w \in Writers : WriterInv(w)
  BY DEF Init, WriterInv
<1>7. QED
  BY <1>2, <1>3, <1>4, <1>5, <1>6 DEF Init, ChainInv

\* A row stays well formed when ids and the clock move on.
LEMMA RowKept ==
    ASSUME NEW e, RowInv(e), nextId \in Nat, clock \in Nat,
           nextId' \in Nat, nextId' >= nextId, clock' \in Nat, clock' >= clock
    PROVE  RowInv(e)'
BY DEF RowInv, UsedIds, IsEvent

\* A request in flight is not touched by one that leaves the log alone
\* (SessionLocal: every request has a session of its own).
LEMMA WriterKept ==
    ASSUME ChainInv, NEW v \in Writers, writers'[v] = writers[v], log' = log,
           modified' = modified,
           nextId' \in Nat, nextId' >= nextId, clock' \in Nat, clock' >= clock
    PROVE  WriterInv(v)'
<1>1. CASE writers[v] = Idle
  BY <1>1 DEF WriterInv
<1>2. CASE writers[v] # Idle
  <2> DEFINE t == writers[v].tenant
  <2>1. /\ writers[v] = [tenant |-> t, left |-> writers[v].left, pending |-> writers[v].pending]
        /\ t \in Tenants
        /\ \/ writers[v].left = 1 /\ writers[v].pending = {}
           \/ /\ writers[v].left = 0
              /\ \E e : /\ writers[v].pending = {e}
                        /\ PendingInv(e, t)
                        /\ ~modified => FollowsTheLog(e, t)
    BY <1>2 DEF ChainInv, WriterInv
  <2>2. CASE writers[v].left = 1 /\ writers[v].pending = {}
    BY <2>1, <2>2 DEF WriterInv
  <2>3. CASE ~(writers[v].left = 1 /\ writers[v].pending = {})
    <3>1. PICK e : /\ writers[v].pending = {e}
                   /\ PendingInv(e, t)
                   /\ ~modified => FollowsTheLog(e, t)
      BY <2>1, <2>3
    <3>2. RowInv(e)'
      BY <3>1, RowKept DEF PendingInv, ChainInv
    <3>3. /\ e.tenant = t /\ e.version = "v2" /\ e.content = "original"
          /\ e.hash = HashOf(e)
          /\ \A f \in log' : f.id # e.id /\ (f.prev # NoHash => f.prev.id # e.id)
      BY <3>1 DEF PendingInv
    <3>4. ~modified' => e.prev \in PreviousHashes(t)' /\ \A f \in EventsOf(t)' : f.createdAt < e.createdAt
      BY <3>1 DEF FollowsTheLog, PreviousHashes, EventsOf
    <3>5. QED
      BY <2>1, <2>3, <3>1, <3>2, <3>3, <3>4 DEF WriterInv, PendingInv, FollowsTheLog
  <2>4. QED
    BY <2>2, <2>3
<1>3. QED
  BY <1>1, <1>2

\* What is said of the log alone stays true while the log does.
LEMMA LogKept ==
    ASSUME ChainInv, log' = log, modified' = modified,
           nextId' \in Nat, nextId' >= nextId, clock' \in Nat, clock' >= clock
    PROVE  /\ \A e \in log' : RowInv(e)'
           /\ \A e, f \in log' : e.id = f.id => e = f
           /\ ~modified' => /\ \A e \in log' : e.content = "original"
                            /\ \A t \in Tenants : AuditValid(t)' /\ Linked(EventsOf(t)')
           /\ modified' => \E e \in log' : Broken(e)'
<1>1. \A e \in log' : RowInv(e)'
  BY RowKept DEF ChainInv
<1>2. QED
  BY <1>1 DEF ChainInv, AuditValid, EventsOf, Broken

\* A request starts, and no other request of its tenant is in flight.
LEMMA BeginStep ==
    ASSUME OneEventAtATime, ChainInv, NEW w \in Writers, NEW t \in Tenants,
           NEW n \in EventCounts, Begin(w, t, n)
    PROVE  ChainInv'
<1>1. writers' = [writers EXCEPT ![w] = [tenant |-> t, left |-> 1, pending |-> {}]]
  BY DEF Begin, OneEventAtATime
<1>2. DOMAIN writers' = Writers /\ \A v \in Writers : v # w => writers'[v] = writers[v]
  BY <1>1 DEF ChainInv
<1>3. writers'[w] = [tenant |-> t, left |-> 1, pending |-> {}]
  BY <1>1 DEF ChainInv
<1>4. /\ log' = log /\ modified' = modified
      /\ nextId' \in Nat /\ nextId' >= nextId /\ nextId' >= 1 /\ clock' \in Nat /\ clock' >= clock
  BY DEF Begin, ChainInv
<1>5. \A v \in Writers : WriterInv(v)'
  BY <1>2, <1>3, <1>4, WriterKept DEF WriterInv
<1>6. \A v \in Writers : writers[v].tenant # t
  BY DEF Begin, OneEventAtATime
<1>7. SoleWriter'
  BY <1>2, <1>3, <1>6 DEF ChainInv, SoleWriter
<1>8. QED
  BY <1>2, <1>4, <1>5, <1>7, LogKept DEF ChainInv

\* A request fails: what it appended is gone.
LEMMA RollbackStep ==
    ASSUME ChainInv, NEW w \in Writers, Rollback(w)
    PROVE  ChainInv'
<1>1. DOMAIN writers' = Writers /\ \A v \in Writers : v # w => writers'[v] = writers[v]
  BY DEF ChainInv, Rollback
<1>2. writers'[w] = Idle
  BY DEF ChainInv, Rollback
<1>3. /\ log' = log /\ modified' = modified
      /\ nextId' \in Nat /\ nextId' >= nextId /\ nextId' >= 1 /\ clock' \in Nat /\ clock' >= clock
  BY DEF Rollback, ChainInv
<1>4. \A v \in Writers : WriterInv(v)'
  BY <1>1, <1>2, <1>3, WriterKept DEF WriterInv
<1>5. SoleWriter'
  BY <1>1, <1>2, TenantsAssumption DEF ChainInv, SoleWriter, Idle
<1>6. QED
  BY <1>1, <1>3, <1>4, <1>5, LogKept DEF ChainInv

\* The event that is appended is new, and follows the log it found.
LEMMA AppendStep ==
    ASSUME OneEventAtATime, ChainInv, NEW w \in Writers, Append(w)
    PROVE  ChainInv'
<1>1. /\ writers[w].left = 1 /\ writers[w].pending = {} /\ writers[w].tenant \in Tenants
  BY DEF ChainInv, WriterInv, Append, Idle
<1>2. PICK t \in Tenants : t = writers[w].tenant
  BY <1>1
<1>3. PICK previous, e :
         /\ previous \in PreviousHashes(t)
         /\ e = Event(nextId, t, "v2", previous, clock + 1)
         /\ clock' = clock + 1
         /\ writers' = [writers EXCEPT ![w] = [tenant |-> t, left |-> 0, pending |-> {e}]]
  <2>1. PICK previous \in PreviousHashes(t) :
           LET e == Event(nextId, t, "v2", previous, clock + 1)
           IN  /\ clock' = clock + 1
               /\ writers' = [writers EXCEPT ![w] = [tenant |-> @.tenant, left |-> @.left - 1,
                                                    pending |-> @.pending \cup {e}]]
    BY <1>2 DEF Append, OneEventAtATime
  <2>2. writers[w].left - 1 = 0 /\ \A e : writers[w].pending \cup {e} = {e}
    BY <1>1
  <2>3. QED
    BY <1>2, <2>1, <2>2
<1>4. /\ e.id = nextId /\ e.tenant = t /\ e.version = "v2" /\ e.content = "original"
      /\ e.prev = previous /\ e.createdAt = clock + 1 /\ e.hash = HashOf(e)
      /\ e.hash.id = nextId /\ IsEvent(e)
  BY <1>3 DEF Event, HashOf, IsEvent
<1>5. DOMAIN writers' = Writers /\ \A v \in Writers : v # w => writers'[v] = writers[v]
  BY <1>3 DEF ChainInv
<1>6. writers'[w] = [tenant |-> t, left |-> 0, pending |-> {e}]
  BY <1>3 DEF ChainInv
<1>7. /\ log' = log /\ modified' = modified /\ nextId' = nextId + 1 /\ clock' = clock + 1
      /\ nextId \in Nat /\ nextId >= 1 /\ clock \in Nat
      /\ nextId' \in Nat /\ nextId' >= nextId /\ nextId' >= 1 /\ clock' \in Nat /\ clock' >= clock
  BY <1>3 DEF Append, ChainInv
<1>8. e.prev # NoHash => /\ e.prev.id \in UsedIds
                         /\ \E g \in log : g.id = e.prev.id
  BY <1>3, <1>4 DEF PreviousHashes, Latest, EventsOf, ChainInv, RowInv
<1>9. PendingInv(e, t)'
  <2>1. RowInv(e)'
    BY <1>4, <1>7, <1>8 DEF RowInv, UsedIds, IsEvent
  <2>2. \A f \in log : f.id # e.id /\ (f.prev # NoHash => f.prev.id # e.id)
    BY <1>4, <1>7 DEF ChainInv, RowInv, UsedIds
  <2>3. QED
    BY <1>4, <1>7, <2>1, <2>2 DEF PendingInv
<1>10. FollowsTheLog(e, t)'
  <2>1. \A f \in log : f.createdAt < e.createdAt
    BY <1>4, <1>7 DEF ChainInv, RowInv
  <2>2. QED
    BY <1>3, <1>4, <1>7, <2>1 DEF FollowsTheLog, PreviousHashes, EventsOf
<1>11. WriterInv(w)'
  BY <1>6, <1>9, <1>10 DEF WriterInv
<1>12. \A v \in Writers : WriterInv(v)'
  BY <1>5, <1>7, <1>11, WriterKept
<1>13. ASSUME NEW v \in Writers, NEW f \in writers[v].pending, v # w
       PROVE  /\ f.id # e.id
              /\ e.prev # NoHash => e.prev.id # f.id
              /\ f.prev # NoHash => f.prev.id # e.id
  <2>1. PendingInv(f, writers[v].tenant)
    BY <1>13 DEF ChainInv, WriterInv, Idle
  <2>2. QED
    BY <2>1, <1>4, <1>7, <1>8 DEF PendingInv, RowInv, UsedIds
<1>14. SoleWriter'
  <2>1. e.prev # NoHash => e.prev.id # e.id
    BY <1>4, <1>7, <1>8 DEF UsedIds
  <2>2. QED
    BY <1>2, <1>5, <1>6, <1>13, <2>1 DEF ChainInv, SoleWriter
<1>15. QED
  BY <1>5, <1>7, <1>12, <1>14, LogKept DEF ChainInv

\* A committed event continues its tenant's log and leaves the others alone.
LEMMA CommitStep ==
    ASSUME ChainInv, NEW w \in Writers, Commit(w)
    PROVE  ChainInv'
<1>1. PICK t, e :
         /\ t \in Tenants
         /\ writers[w].tenant = t /\ writers[w].pending = {e}
         /\ PendingInv(e, t)
         /\ ~modified => FollowsTheLog(e, t)
  BY DEF ChainInv, WriterInv, Commit, Idle
<1>2. /\ log' = log \cup {e} /\ writers' = [writers EXCEPT ![w] = Idle]
      /\ nextId' = nextId /\ clock' = clock /\ modified' = modified
  BY <1>1 DEF Commit
<1>3. /\ DOMAIN writers' = Writers /\ writers'[w] = Idle
      /\ \A v \in Writers : v # w => writers'[v] = writers[v]
  BY <1>2 DEF ChainInv
<1>4. /\ \A f \in log' : RowInv(f)'
      /\ \A f, g \in log' : f.id = g.id => f = g
  BY <1>1, <1>2 DEF ChainInv, PendingInv, RowInv, UsedIds, IsEvent
<1>5. EventsOf(t)' = EventsOf(t) \cup {e} /\ \A u \in Tenants : u # t => EventsOf(u)' = EventsOf(u)
  BY <1>1, <1>2 DEF EventsOf, PendingInv
<1>6. ASSUME NEW v \in Writers PROVE WriterInv(v)'
  <2>1. CASE v = w
    BY <2>1, <1>3 DEF WriterInv
  <2>2. CASE v # w /\ (writers[v] = Idle \/ writers[v].pending = {})
    BY <2>2, <1>3 DEF WriterInv, ChainInv
  <2>3. CASE v # w /\ writers[v] # Idle /\ writers[v].pending # {}
    <3>1. PICK u, f :
             /\ u \in Tenants
             /\ writers[v].tenant = u /\ writers[v].pending = {f} /\ writers[v].left = 0
             /\ writers[v] = [tenant |-> u, left |-> 0, pending |-> {f}]
             /\ PendingInv(f, u)
             /\ ~modified => FollowsTheLog(f, u)
      BY <2>3 DEF WriterInv, ChainInv
    <3>2. u # t /\ e.id # f.id /\ (e.prev # NoHash => e.prev.id # f.id)
      BY <1>1, <2>3, <3>1, TenantsAssumption DEF ChainInv, SoleWriter
    <3>3. PendingInv(f, u)'
      BY <1>2, <3>1, <3>2 DEF PendingInv, RowInv, UsedIds
    <3>4. ~modified' => FollowsTheLog(f, u)'
      BY <1>2, <1>5, <3>1, <3>2 DEF FollowsTheLog, PreviousHashes
    <3>5. QED
      BY <1>3, <2>3, <3>1, <3>3, <3>4 DEF WriterInv
  <2>4. QED
    BY <2>1, <2>2, <2>3
<1>7. SoleWriter'
  BY <1>3, TenantsAssumption DEF ChainInv, SoleWriter, Idle
<1>8. ASSUME ~modified'
      PROVE  /\ \A f \in log' : f.content = "original"
             /\ \A u \in Tenants : AuditValid(u)' /\ Linked(EventsOf(u)')
  <2> DEFINE S == EventsOf(t)
  <2>1. Verified(S) /\ Linked(S)
    BY <1>1, <1>2, <1>8 DEF ChainInv, AuditValid
  <2>2. e.hash = HashOf(e) /\ e.createdAt \in Nat
    BY <1>1 DEF PendingInv, RowInv, ChainInv
  <2>3. \A f \in S : f.createdAt \in Nat /\ f.createdAt < e.createdAt
    BY <1>1, <1>2, <1>8 DEF FollowsTheLog, EventsOf, ChainInv, RowInv
  <2>4. IF S = {} THEN e.prev = NoHash ELSE \E f \in Latest(S) : e.prev = f.hash
    BY <1>1, <1>2, <1>8 DEF FollowsTheLog, PreviousHashes
  <2>5. Verified(S \cup {e})
    BY <2>1, <2>2, <2>3, <2>4, VerifiedExtends
  <2>6. Linked(S \cup {e})
    BY <2>1, <2>2, <2>3, <2>4, LinkedExtends
  <2>7. \A u \in Tenants : AuditValid(u)' /\ Linked(EventsOf(u)')
    BY <1>2, <1>5, <1>8, <2>5, <2>6 DEF ChainInv, AuditValid
  <2>8. QED
    BY <1>1, <1>2, <1>8, <2>7 DEF ChainInv, PendingInv
<1>9. ASSUME modified' PROVE \E r \in log' : Broken(r)'
  <2>1. PICK r \in log : Broken(r)
    BY <1>2, <1>9 DEF ChainInv
  <2>2. r.prev # NoHash => e.hash # r.prev
    BY <1>1 DEF PendingInv, RowInv
  <2>3. QED
    BY <1>2, <2>1, <2>2 DEF Broken
<1>10. QED
  BY <1>2, <1>3, <1>4, <1>6, <1>7, <1>8, <1>9 DEF ChainInv

-----------------------------------------------------------------------------
(***************************************************************************)
(* A modification leaves a broken row behind.                              *)
(***************************************************************************)

\* What a modified log has to satisfy for the invariant to go on.
LEMMA ModifyStep ==
    ASSUME ChainInv, NEW rows, Modify(rows),
           \A e \in rows : RowInv(e) /\ \E f \in log : f.id = e.id /\ f.prev = e.prev,
           \A e, f \in rows : e.id = f.id => e = f,
           \E e \in rows : \/ e.hash # HashOf(e)
                           \/ e.prev # NoHash /\ \A f \in rows : f.hash # e.prev
    PROVE  ChainInv'
<1>1. /\ log' = rows /\ modified' = TRUE
      /\ writers' = writers /\ nextId' = nextId /\ clock' = clock
  BY DEF Modify
<1>2. \A e \in log' : RowInv(e)'
  BY <1>1 DEF RowInv, UsedIds
<1>3. ASSUME NEW w \in Writers PROVE WriterInv(w)'
  <2>1. CASE writers[w] = Idle \/ writers[w].pending = {}
    BY <1>1, <2>1 DEF ChainInv, WriterInv
  <2>2. CASE writers[w] # Idle /\ writers[w].pending # {}
    <3>1. PICK u, f :
             /\ u \in Tenants
             /\ writers[w] = [tenant |-> u, left |-> 0, pending |-> {f}]
             /\ PendingInv(f, u)
      BY <2>2 DEF WriterInv, ChainInv
    <3>2. PendingInv(f, u)'
      BY <1>1, <3>1 DEF PendingInv, RowInv, UsedIds
    <3>3. QED
      BY <1>1, <3>1, <3>2 DEF WriterInv
  <2>3. QED
    BY <2>1, <2>2
<1>4. SoleWriter'
  BY <1>1 DEF ChainInv, SoleWriter
<1>5. \E e \in log' : Broken(e)'
  BY <1>1 DEF Broken
<1>6. QED
  BY <1>1, <1>2, <1>3, <1>4, <1>5 DEF ChainInv

\* A changed content is not what was hashed (calculate_event_hash).
LEMMA EditStep ==
    ASSUME ChainInv, NEW e \in log, EditEvent(e)
    PROVE  ChainInv'
<1> DEFINE x == [e EXCEPT !.content = "edited"]
           rows == (log \ {e}) \cup {x}
<1>1. RowInv(e) /\ ~modified /\ e.content = "original"
  BY DEF ChainInv, EditEvent, Modify
<1>2. /\ x.id = e.id /\ x.tenant = e.tenant /\ x.version = e.version /\ x.content = "edited"
      /\ x.prev = e.prev /\ x.createdAt = e.createdAt /\ x.hash = e.hash /\ IsEvent(x)
  BY <1>1 DEF RowInv, IsEvent
<1>3. \A f \in rows : RowInv(f) /\ \E g \in log : g.id = f.id /\ g.prev = f.prev
  BY <1>1, <1>2 DEF ChainInv, RowInv
<1>4. \A f, g \in rows : f.id = g.id => f = g
  BY <1>2 DEF ChainInv
<1>5. x.hash # HashOf(x)
  <2>1. e.hash = HashOf(e)
    BY <1>1 DEF ChainInv, AuditValid, Verified, EventsOf, RowInv
  <2>2. HashOf(e).content = "original" /\ HashOf(x).content = "edited"
    BY <1>1, <1>2 DEF HashOf
  <2>3. QED
    BY <1>2, <2>1, <2>2
<1>6. Modify(rows)
  BY DEF EditEvent
<1>7. QED
  BY <1>3, <1>4, <1>5, <1>6, ModifyStep

\* Neither is a changed time.
LEMMA RedateStep ==
    ASSUME ChainInv, NEW e \in log, NEW time \in 0..clock, RedateEvent(e, time)
    PROVE  ChainInv'
<1> DEFINE x == [e EXCEPT !.createdAt = time]
           rows == (log \ {e}) \cup {x}
<1>1. RowInv(e) /\ ~modified /\ time # e.createdAt
  BY DEF ChainInv, RedateEvent, Modify
<1>2. /\ x.id = e.id /\ x.tenant = e.tenant /\ x.version = e.version /\ x.content = e.content
      /\ x.prev = e.prev /\ x.createdAt = time /\ x.hash = e.hash /\ IsEvent(x)
  BY <1>1 DEF RowInv, IsEvent
<1>3. \A f \in rows : RowInv(f) /\ \E g \in log : g.id = f.id /\ g.prev = f.prev
  BY <1>1, <1>2 DEF ChainInv, RowInv
<1>4. \A f, g \in rows : f.id = g.id => f = g
  BY <1>2 DEF ChainInv
<1>5. x.hash # HashOf(x)
  <2>1. e.hash = HashOf(e)
    BY <1>1 DEF ChainInv, AuditValid, Verified, EventsOf, RowInv
  <2>2. HashOf(e).createdAt = e.createdAt /\ HashOf(x).createdAt = time
    BY <1>2 DEF HashOf
  <2>3. QED
    BY <1>1, <1>2, <2>1, <2>2
<1>6. Modify(rows)
  BY DEF RedateEvent
<1>7. QED
  BY <1>3, <1>4, <1>5, <1>6, ModifyStep

\* The event after a removed one refers to a hash no row has (verify_audit_chain).
LEMMA RemoveStep ==
    ASSUME ChainInv, NEW e \in log, RemoveEvent(e)
    PROVE  ChainInv'
<1> DEFINE t == e.tenant
           rows == log \ {e}
<1>1. RowInv(e) /\ ~modified /\ Modify(rows) /\ e \notin Latest(EventsOf(t))
  BY DEF ChainInv, RemoveEvent, Modify
<1>2. t \in Tenants /\ e \in EventsOf(t)
  BY <1>1 DEF RowInv, EventsOf
<1>3. PICK f \in EventsOf(t) : f.prev = e.hash
  BY <1>1, <1>2 DEF ChainInv, Linked
<1>4. e.hash.id = e.id /\ e.id \in Nat /\ e.id >= 1
  BY <1>1 DEF RowInv, UsedIds
<1>5. f.prev # NoHash
  BY <1>3, <1>4 DEF NoHash
<1>6. f # e
  <2>1. SUFFICES ASSUME f = e PROVE FALSE
    OBVIOUS
  <2>2. PICK g \in Before(e, EventsOf(t)) : e.prev = g.hash
    BY <1>1, <1>2, <1>5, <2>1 DEF ChainInv, AuditValid, Verified, Latest
  <2>3. g \in log /\ g.createdAt < e.createdAt
    BY <2>2 DEF Before, EventsOf
  <2>4. g.id = e.id
    BY <1>3, <2>1, <2>2, <2>3 DEF ChainInv, RowInv
  <2>5. g = e
    BY <2>3, <2>4 DEF ChainInv
  <2>6. e.createdAt \in Nat
    BY <1>1 DEF RowInv, ChainInv
  <2>7. QED
    BY <2>3, <2>5, <2>6
<1>7. \A g \in rows : g.hash # f.prev
  BY <1>3 DEF ChainInv, RowInv
<1>8. f \in rows
  BY <1>6 DEF EventsOf
<1>9. /\ \A g \in rows : RowInv(g) /\ \E h \in log : h.id = g.id /\ h.prev = g.prev
      /\ \A g, h \in rows : g.id = h.id => g = h
  BY DEF ChainInv
<1>10. QED
  BY <1>1, <1>5, <1>7, <1>8, <1>9, ModifyStep

-----------------------------------------------------------------------------
(***************************************************************************)
(* The theorems.                                                           *)
(***************************************************************************)

\* Every step of the service, and every modification, preserves the invariant.
LEMMA ChainStep == OneEventAtATime /\ ChainInv /\ [Next]_vars => ChainInv'
<1> SUFFICES ASSUME OneEventAtATime, ChainInv, [Next]_vars PROVE ChainInv'
  OBVIOUS
<1>1. CASE \E w \in Writers, t \in Tenants, n \in EventCounts : Begin(w, t, n)
  BY <1>1, BeginStep
<1>2. CASE \E w \in Writers : Append(w) \/ Commit(w) \/ Rollback(w)
  BY <1>2, AppendStep, CommitStep, RollbackStep
<1>3. CASE \E e \in log : EditEvent(e)
  BY <1>3, EditStep
<1>4. CASE \E e \in log, time \in 0..clock : RedateEvent(e, time)
  BY <1>4, RedateStep
<1>5. CASE \E e \in log : RemoveEvent(e)
  BY <1>5, RemoveStep
<1>6. CASE UNCHANGED vars
  <2>1. /\ log' = log /\ modified' = modified /\ nextId' = nextId /\ clock' = clock
        /\ writers' = writers
    BY <1>6 DEF vars
  <2>2. \A w \in Writers : WriterInv(w)'
    BY <2>1, WriterKept DEF ChainInv
  <2>3. QED
    BY <2>1, <2>2, LogKept DEF ChainInv, SoleWriter
<1>7. QED
  BY <1>1, <1>2, <1>3, <1>4, <1>5, <1>6 DEF Next

\* The invariant holds under the assumptions of this module's head.
LEMMA ChainInvariant == ASSUME OneEventAtATime PROVE Spec => []ChainInv
<1>1. ChainInv /\ [Next]_vars => ChainInv'
  BY ChainStep
<1>2. QED
  BY <1>1, ChainInit, PTL DEF Spec

\* Requests that come one at a time and append one event each keep a log that
\* verify_audit_chain accepts, in every tenant.
THEOREM ChainIsValid == ASSUME OneEventAtATime PROVE Spec => []ChainStaysValid
<1>1. ChainInv => ChainStaysValid
  BY DEF ChainInv, ChainStaysValid
<1>2. QED
  BY <1>1, ChainInvariant, PTL

\* A row that was changed or removed in place makes verify_audit_chain fail,
\* and no later event makes it succeed again.
THEOREM ModificationsAreDetected ==
    ASSUME OneEventAtATime PROVE Spec => []ModificationIsDetected
<1>1. ChainInv => ModificationIsDetected
  <2> SUFFICES ASSUME ChainInv, modified PROVE \E t \in Tenants : ~AuditValid(t)
    BY DEF ModificationIsDetected
  <2>1. PICK e \in log : Broken(e)
    BY DEF ChainInv
  <2>2. e.tenant \in Tenants
    BY DEF ChainInv, RowInv
  <2>3. QED
    BY <2>1, <2>2, BrokenIsDetected
<1>2. QED
  BY <1>1, ChainInvariant, PTL

-----------------------------------------------------------------------------
(***************************************************************************)
(* Requests that overlap, or append two events, and clocks that stand      *)
(* still: what is left of the chain.                                       *)
(***************************************************************************)

\* The committed events, and those about to be.
Known == log \union UNION {writers[w].pending : w \in Writers}

\* The event a new one names is committed, and in its tenant's log for good.
Genuine(e) ==
    /\ e.id \in UsedIds
    /\ e.createdAt \in 0..clock
    /\ e.hash = HashOf(e)
    /\ e.prev # NoHash =>
         \E f \in EventsOf(e.tenant) : f.hash = e.prev /\ f.id < e.id /\ f.createdAt <= e.createdAt

HistoryInv ==
    /\ nextId \in Nat /\ nextId >= 1
    /\ clock \in Nat
    /\ DOMAIN writers = Writers
    /\ ~modified => /\ \A e \in Known : Genuine(e)
                    /\ \A e, f \in Known : e.id = f.id => e = f

\* Nothing is forgotten that an event may name.
LEMMA GenuineKept ==
    ASSUME NEW e, Genuine(e), log \subseteq log', nextId \in Nat, clock \in Nat,
           nextId' \in Nat, nextId' >= nextId, clock' \in Nat, clock' >= clock
    PROVE  Genuine(e)'
<1>1. e.id \in UsedIds' /\ e.createdAt \in 0..(clock')
  BY DEF Genuine, UsedIds
<1>2. EventsOf(e.tenant) \subseteq EventsOf(e.tenant)'
  BY DEF EventsOf
<1>3. QED
  BY <1>1, <1>2 DEF Genuine

\* A step that appends nothing and takes no row away.
LEMMA HistoryKept ==
    ASSUME HistoryInv, Known' \subseteq Known, log \subseteq log', DOMAIN writers' = Writers,
           nextId' = nextId, clock' = clock, modified' = modified
    PROVE  HistoryInv'
<1>1. ASSUME ~modified', NEW e \in Known' PROVE Genuine(e)'
  <2>1. Genuine(e)
    BY <1>1 DEF HistoryInv
  <2>2. QED
    BY <2>1, GenuineKept DEF HistoryInv
<1>2. QED
  BY <1>1 DEF HistoryInv

LEMMA HistoryInit == Init => HistoryInv
<1> SUFFICES ASSUME Init PROVE HistoryInv
  OBVIOUS
<1> DEFINE first == Event(1, LegacyTenant, "v1", NoHash, 0)
<1>1. first.id = 1 /\ first.prev = NoHash /\ first.createdAt = 0 /\ first.hash = HashOf(first)
  BY DEF Event, HashOf
<1>2. Known = log
  BY DEF Init, Idle, Known
<1> HIDE DEF first
<1>3. log \subseteq {first} /\ nextId \in Nat /\ nextId >= 1 /\ (log # {} => nextId = 2) /\ clock = 0
  BY DEF Init, first
<1>4. \A e \in Known : Genuine(e)
  BY <1>1, <1>2, <1>3 DEF Genuine, UsedIds
<1>5. QED
  BY <1>2, <1>3, <1>4 DEF HistoryInv, Init

LEMMA HistoryAppend ==
    ASSUME HistoryInv, NEW w \in Writers, Append(w)
    PROVE  HistoryInv'
<1>1. PICK previous \in PreviousHashes(writers[w].tenant), advance \in Advances :
         LET e == Event(nextId, writers[w].tenant, "v2", previous, clock + advance)
         IN  /\ clock' = clock + advance
             /\ writers' = [writers EXCEPT ![w] = [tenant |-> @.tenant, left |-> @.left - 1,
                                                   pending |-> @.pending \cup {e}]]
  BY DEF Append
<1>2. PICK e :
         /\ writers' = [writers EXCEPT ![w] = [tenant |-> @.tenant, left |-> @.left - 1,
                                               pending |-> @.pending \cup {e}]]
         /\ e.id = nextId /\ e.tenant = writers[w].tenant /\ e.prev = previous
         /\ e.createdAt = clock + advance /\ e.hash = HashOf(e)
  <2> DEFINE e == Event(nextId, writers[w].tenant, "v2", previous, clock + advance)
  <2>1. /\ e.id = nextId /\ e.tenant = writers[w].tenant /\ e.prev = previous
        /\ e.createdAt = clock + advance /\ e.hash = HashOf(e)
    BY DEF Event, HashOf
  <2>2. writers' = [writers EXCEPT ![w] = [tenant |-> @.tenant, left |-> @.left - 1,
                                           pending |-> @.pending \cup {e}]]
    BY <1>1
  <2> HIDE DEF e
  <2>3. QED
    BY <2>1, <2>2
<1>4. /\ log' = log /\ modified' = modified /\ nextId' = nextId + 1
      /\ nextId \in Nat /\ nextId >= 1 /\ clock \in Nat /\ advance \in Nat
      /\ clock' = clock + advance /\ clock' \in Nat /\ clock' >= clock
      /\ nextId' \in Nat /\ nextId' >= nextId /\ nextId' >= 1
  BY <1>1, ClockAssumption DEF Append, HistoryInv
<1>5. DOMAIN writers' = Writers
      /\ \A v \in Writers : writers'[v].pending \subseteq writers[v].pending \union {e}
  BY <1>2 DEF HistoryInv
<1>6. Known' \subseteq Known \union {e}
  BY <1>4, <1>5 DEF Known
<1>7. ASSUME ~modified
      PROVE  /\ \A f \in Known' : Genuine(f)'
             /\ \A f, g \in Known' : f.id = g.id => f = g
  <2>1. \A f \in Known : Genuine(f) /\ Genuine(f)'
    BY <1>4, <1>7, GenuineKept DEF HistoryInv
  <2>2. ASSUME e.prev # NoHash
        PROVE  \E f \in EventsOf(e.tenant) :
                 f.hash = e.prev /\ f.id < e.id /\ f.createdAt <= e.createdAt
    <3>1. PICK f \in EventsOf(e.tenant) : f.hash = e.prev
      BY <1>2, <2>2 DEF PreviousHashes, Latest
    <3>2. f \in Known
      BY <3>1 DEF EventsOf, Known
    <3>3. f.createdAt \in 0..clock /\ f.id \in Nat /\ f.id < nextId
      BY <2>1, <3>2 DEF Genuine, UsedIds
    <3>4. QED
      BY <1>2, <1>4, <3>1, <3>3
  <2>3. EventsOf(e.tenant)' = EventsOf(e.tenant)
    BY <1>4 DEF EventsOf
  <2>4. Genuine(e)'
    BY <1>2, <1>4, <2>2, <2>3 DEF Genuine, UsedIds
  <2>5. \A f \in Known : f.id # e.id
    BY <1>2, <1>4, <2>1 DEF Genuine, UsedIds
  <2>6. QED
    BY <1>6, <1>7, <2>1, <2>4, <2>5 DEF HistoryInv
<1>8. QED
  BY <1>4, <1>5, <1>7 DEF HistoryInv

\* Only the append makes new events; everything else leaves, commits or drops them.
LEMMA HistoryStep == HistoryInv /\ [Next]_vars => HistoryInv'
<1> SUFFICES ASSUME HistoryInv, [Next]_vars PROVE HistoryInv'
  OBVIOUS
<1>1. CASE \E w \in Writers, t \in Tenants, n \in EventCounts : Begin(w, t, n)
  <2>1. PICK w \in Writers, t \in Tenants, n \in EventCounts : Begin(w, t, n)
    BY <1>1
  <2>2. /\ writers' = [writers EXCEPT ![w] = [tenant |-> t, left |-> n, pending |-> {}]]
        /\ log' = log /\ nextId' = nextId /\ clock' = clock /\ modified' = modified
    BY <2>1 DEF Begin
  <2>3. DOMAIN writers' = Writers
        /\ \A v \in Writers : writers'[v].pending \subseteq writers[v].pending
    BY <2>2 DEF HistoryInv
  <2>4. QED
    BY <2>2, <2>3, HistoryKept DEF Known
<1>2. ASSUME NEW w \in Writers, Append(w) \/ Commit(w) \/ Rollback(w) PROVE HistoryInv'
  <2>1. CASE Append(w)
    BY <2>1, HistoryAppend
  <2>2. CASE Commit(w)
    <3>1. /\ writers' = [writers EXCEPT ![w] = Idle] /\ log' = log \cup writers[w].pending
          /\ nextId' = nextId /\ clock' = clock /\ modified' = modified
      BY <2>2 DEF Commit
    <3>2. DOMAIN writers' = Writers
          /\ \A v \in Writers : writers'[v].pending \subseteq writers[v].pending
      BY <3>1 DEF HistoryInv, Idle
    <3>3. QED
      BY <3>1, <3>2, HistoryKept DEF Known
  <2>3. CASE Rollback(w)
    <3>1. /\ writers' = [writers EXCEPT ![w] = Idle] /\ log' = log
          /\ nextId' = nextId /\ clock' = clock /\ modified' = modified
      BY <2>3 DEF Rollback
    <3>2. DOMAIN writers' = Writers
          /\ \A v \in Writers : writers'[v].pending \subseteq writers[v].pending
      BY <3>1 DEF HistoryInv, Idle
    <3>3. QED
      BY <3>1, <3>2, HistoryKept DEF Known
  <2>4. QED
    BY <1>2, <2>1, <2>2, <2>3
<1>3. ASSUME NEW rows, Modify(rows) PROVE HistoryInv'
  BY <1>3 DEF Modify, HistoryInv
<1>4. CASE \E e \in log : EditEvent(e)
  BY <1>3, <1>4 DEF EditEvent
<1>5. CASE \E e \in log, time \in 0..clock : RedateEvent(e, time)
  BY <1>3, <1>5 DEF RedateEvent
<1>6. CASE \E e \in log : RemoveEvent(e)
  BY <1>3, <1>6 DEF RemoveEvent
<1>7. CASE UNCHANGED vars
  BY <1>7, HistoryKept DEF vars, HistoryInv, Known
<1>8. QED
  BY <1>1, <1>2, <1>4, <1>5, <1>6, <1>7 DEF Next

-----------------------------------------------------------------------------
(***************************************************************************)
(* Such a log is in order unless an event is named twice, or two events    *)
(* have one time.                                                          *)
(***************************************************************************)

\* A log of events that name earlier ones of it.
History(events) ==
    /\ \A e \in events :
         /\ e.id \in Nat /\ e.id >= 1
         /\ e.createdAt \in Nat
         /\ e.hash = HashOf(e)
         /\ e.prev # NoHash =>
              \E f \in events : f.hash = e.prev /\ f.id < e.id /\ f.createdAt <= e.createdAt
    /\ \A e, f \in events : e.id = f.id => e = f

ForksOrTies(e, f) == e.prev = f.prev \/ e.createdAt = f.createdAt

LEMMA EarliestTime == ASSUME NEW T, T \subseteq Nat, T # {} PROVE \E n \in T : \A m \in T : n <= m
<1>1. IsWellFoundedOn({x \in Nat \X Nat : x[1] < x[2]}, Nat)
  BY NatLessThanWellFounded DEF OpToRel
<1>2. PICK n \in T : \A m \in T : ~(<<m, n>> \in {x \in Nat \X Nat : x[1] < x[2]})
  BY <1>1, WFMin
<1>3. \A m \in T : m \in Nat /\ n \in Nat
  OBVIOUS
<1>4. \A m \in T : ~(m < n)
  BY <1>2, <1>3
<1>5. QED
  BY <1>3, <1>4

LEMMA EarliestEvent ==
    ASSUME NEW S, S # {}, \A e \in S : e.createdAt \in Nat
    PROVE  \E e \in S : \A f \in S : e.createdAt <= f.createdAt
<1> DEFINE times == {e.createdAt : e \in S}
<1>1. times \subseteq Nat /\ times # {}
  OBVIOUS
<1>2. PICK n \in times : \A m \in times : n <= m
  BY <1>1, EarliestTime
<1>3. QED
  BY <1>2

LEMMA LatestEvent ==
    ASSUME NEW S, S # {}, NEW last \in Nat, \A e \in S : e.createdAt \in Nat /\ e.createdAt <= last
    PROVE  Latest(S) # {}
<1> DEFINE back == {last - e.createdAt : e \in S}
<1>1. back \subseteq Nat /\ back # {}
  OBVIOUS
<1>2. PICK n \in back : \A m \in back : n <= m
  BY <1>1, EarliestTime
<1>3. PICK e \in S : n = last - e.createdAt
  BY <1>2
<1>4. \A f \in S : f.createdAt <= e.createdAt
  <2>1. ASSUME NEW f \in S PROVE f.createdAt <= e.createdAt
    <3>1. last - e.createdAt <= last - f.createdAt
      BY <1>2, <1>3
    <3>2. f.createdAt \in Nat /\ e.createdAt \in Nat
      OBVIOUS
    <3> QED BY <3>1, <3>2
  <2> QED BY <2>1
<1>5. QED
  BY <1>4 DEF Latest

LEMMA SameHash ==
    ASSUME NEW S, History(S), NEW e \in S, NEW f \in S, e.hash = f.hash PROVE e = f
BY HashFacts DEF History

LEMMA NoHashIsNone ==
    ASSUME NEW S, History(S), NEW e \in S PROVE e.hash # NoHash
BY HashFacts DEF History

LEMMA VerifiedHasNoForks ==
    ASSUME NEW S, History(S), Verified(S), NEW e \in S, NEW f \in S, ForksOrTies(e, f)
    PROVE  e = f
<1>1. \A g, h \in S : g.createdAt = h.createdAt => g = h
  BY DEF Verified
<1>2. CASE e.createdAt = f.createdAt
  BY <1>1, <1>2
<1>3. ASSUME NEW g \in S, NEW h \in S, g.prev = h.prev, g.createdAt < h.createdAt PROVE FALSE
  <2>1. g \in Before(h, S)
    BY <1>3 DEF Before
  <2>2. PICK p \in Latest(Before(h, S)) : h.prev = p.hash
    BY <2>1 DEF Verified
  <2>3. p \in S /\ g.createdAt <= p.createdAt
    BY <2>1, <2>2 DEF Latest, Before
  <2>4. g.prev = p.hash /\ g.prev # NoHash
    BY <1>3, <2>2, <2>3, NoHashIsNone
  <2>5. PICK q \in Before(g, S) : g.prev = q.hash
    BY <2>4 DEF Verified, Latest
  <2>6. q \in S /\ q.createdAt < g.createdAt
    BY <2>5 DEF Before
  <2>7. q = p
    BY <2>3, <2>4, <2>5, <2>6, SameHash
  <2>8. g.createdAt \in Nat /\ p.createdAt \in Nat
    BY <2>3 DEF History
  <2>9. QED
    BY <2>3, <2>6, <2>7, <2>8
<1>4. e.createdAt \in Nat /\ f.createdAt \in Nat
  BY DEF History
<1>5. CASE e.createdAt # f.createdAt
  <2>1. e.prev = f.prev
    BY <1>5 DEF ForksOrTies
  <2>2. e.createdAt < f.createdAt \/ f.createdAt < e.createdAt
    BY <1>4, <1>5
  <2>3. QED
    BY <1>3, <2>1, <2>2
<1>6. QED
  BY <1>2, <1>5

LEMMA WithoutForksVerified ==
    ASSUME NEW S, History(S), \A e, f \in S : ForksOrTies(e, f) => e = f
    PROVE  Verified(S)
<1> DEFINE InOrder(e) == IF Before(e, S) = {} THEN e.prev = NoHash
                         ELSE \E f \in Latest(Before(e, S)) : e.prev = f.hash
           wrong == {e \in S : ~InOrder(e)}
<1>1. \A e \in S : e.createdAt \in Nat
  BY DEF History
<1>2. wrong = {}
  <2> SUFFICES ASSUME wrong # {} PROVE FALSE
    OBVIOUS
  <2>1. \A e \in wrong : e.createdAt \in Nat
    BY <1>1
  <2>2. PICK e \in wrong : \A f \in wrong : e.createdAt <= f.createdAt
    <3> HIDE DEF wrong
    <3> QED BY <2>1, EarliestEvent
  <2>3. e \in S /\ ~InOrder(e)
    BY <2>2
  <2>4. \A f \in S : f.createdAt < e.createdAt => InOrder(f)
    <3>1. \A f \in S : f.createdAt < e.createdAt => f \notin wrong
      <4> HIDE DEF wrong
      <4> QED BY <1>1, <2>2, <2>3
    <3> QED BY <3>1
  <2> HIDE DEF wrong
  \* Only the first event names none.
  <2>5. PICK first \in S : \A f \in S : first.createdAt <= f.createdAt
    BY <1>1, <2>3, EarliestEvent
  <2>6. first.prev = NoHash
    <3>1. SUFFICES ASSUME first.prev # NoHash PROVE FALSE
      OBVIOUS
    <3>2. PICK p \in S : p.id < first.id /\ p.createdAt <= first.createdAt
      BY <3>1 DEF History
    <3>3. p.createdAt = first.createdAt
      BY <1>1, <2>5, <3>2
    <3>4. p = first
      BY <3>2, <3>3 DEF ForksOrTies
    <3>5. first.id \in Nat
      BY DEF History
    <3> QED BY <3>2, <3>4, <3>5
  <2>7. CASE Before(e, S) = {}
    <3>1. e.createdAt <= first.createdAt
      BY <1>1, <2>3, <2>7 DEF Before
    <3>2. e.createdAt = first.createdAt
      BY <1>1, <2>3, <2>5, <3>1
    <3>3. e = first
      BY <2>3, <3>2 DEF ForksOrTies
    <3> QED BY <2>3, <2>6, <2>7, <3>3
  <2>8. CASE Before(e, S) # {}
    <3>1. PICK g \in Latest(Before(e, S)) : TRUE
      <4>1. \A f \in Before(e, S) : f.createdAt \in Nat /\ f.createdAt <= e.createdAt
        BY <1>1, <2>3 DEF Before
      <4> QED BY <1>1, <2>3, <2>8, <4>1, LatestEvent
    <3>2. g \in S /\ g.createdAt < e.createdAt
      BY <3>1 DEF Latest, Before
    <3>3. e.prev # NoHash
      <4>1. SUFFICES ASSUME e.prev = NoHash PROVE FALSE
        OBVIOUS
      <4>2. e = first
        BY <2>3, <2>6, <4>1 DEF ForksOrTies
      <4> QED BY <1>1, <2>5, <3>2, <4>2
    <3>4. PICK p \in S : p.hash = e.prev /\ p.id < e.id /\ p.createdAt <= e.createdAt
      BY <2>3, <3>3 DEF History
    <3>5. p # e
      BY <2>3, <3>4 DEF History
    <3>6. p.createdAt < e.createdAt
      BY <1>1, <2>3, <3>4, <3>5 DEF ForksOrTies
    <3>7. p # g
      BY <2>3, <2>8, <3>1, <3>4
    <3>8. p.createdAt < g.createdAt
      <4>1. p \in Before(e, S)
        BY <3>4, <3>6 DEF Before
      <4>2. p.createdAt <= g.createdAt
        BY <3>1, <4>1 DEF Latest
      <4> QED BY <1>1, <3>2, <3>4, <3>7, <4>2 DEF ForksOrTies
    \* The event after the one e names is not e, and names it as well.
    <3> DEFINE after == {f \in S : p.createdAt < f.createdAt}
    <3>9. PICK h \in after : \A f \in after : h.createdAt <= f.createdAt
      BY <1>1, <3>2, <3>8, EarliestEvent
    <3>10. h \in S /\ p.createdAt < h.createdAt /\ h.createdAt < e.createdAt
      <4>1. g \in after
        BY <3>2, <3>8
      <4>2. h \in S /\ h.createdAt <= g.createdAt /\ p.createdAt < h.createdAt
        BY <3>9, <4>1
      <4> QED BY <1>1, <2>3, <3>2, <4>2
    <3>11. p \in Before(h, S) /\ InOrder(h)
      BY <2>4, <3>4, <3>10 DEF Before
    <3>12. PICK q \in Latest(Before(h, S)) : h.prev = q.hash
      BY <3>11
    <3>13. q \in S /\ p.createdAt <= q.createdAt /\ q.createdAt < h.createdAt
      BY <3>11, <3>12 DEF Latest, Before
    <3>14. q = p
      <4>1. q \notin after
        BY <1>1, <3>9, <3>10, <3>13
      <4>2. q.createdAt = p.createdAt
        BY <1>1, <3>4, <3>13, <4>1
      <4> QED BY <3>4, <3>13, <4>2 DEF ForksOrTies
    <3>15. h = e
      BY <2>3, <3>4, <3>10, <3>12, <3>14 DEF ForksOrTies
    <3> QED BY <1>1, <2>3, <3>10, <3>15
  <2> QED BY <2>7, <2>8
<1>3. \A e \in S : e.hash = HashOf(e) /\ \A f \in S : f.createdAt = e.createdAt => f = e
  BY DEF History, ForksOrTies
<1>4. QED
  BY <1>2, <1>3 DEF Verified

LEMMA HistoryTells == HistoryInv => OnlyForksAndTiesBreakTheChain
<1> SUFFICES ASSUME HistoryInv, ~modified, NEW t \in Tenants
             PROVE  AuditValid(t) <=> \A e, f \in EventsOf(t) :
                        e.prev = f.prev \/ e.createdAt = f.createdAt => e = f
  BY DEF OnlyForksAndTiesBreakTheChain
<1>1. \A e \in EventsOf(t) : e \in Known /\ e.tenant = t
  BY DEF EventsOf, Known
<1>2. History(EventsOf(t))
  BY <1>1 DEF HistoryInv, History, Genuine, UsedIds
<1>3. AuditValid(t) => \A e, f \in EventsOf(t) : ForksOrTies(e, f) => e = f
  BY <1>2, VerifiedHasNoForks DEF AuditValid
<1>4. (\A e, f \in EventsOf(t) : ForksOrTies(e, f) => e = f) => AuditValid(t)
  BY <1>2, WithoutForksVerified DEF AuditValid
<1>5. QED
  BY <1>3, <1>4 DEF ForksOrTies

\* Whatever overlaps, however many events a request appends and however coarse
\* the clock is: verify_audit_chain rejects the log of a tenant that nobody has
\* modified exactly when two of its events name the same event, or have the
\* same time (append_audit_event).
THEOREM OnlyForksAndTies == Spec => []OnlyForksAndTiesBreakTheChain
BY HistoryTells, HistoryInit, HistoryStep, PTL DEF Spec

\* The service takes no row away.
LEMMA LogGrows == [Next]_vars /\ ~modified' => log \subseteq log' /\ ~modified
<1> SUFFICES ASSUME [Next]_vars, ~modified' PROVE log \subseteq log' /\ ~modified
  OBVIOUS
<1>1. \A rows : ~Modify(rows)
  BY DEF Modify
<1>2. CASE \E w \in Writers, t \in Tenants, n \in EventCounts : Begin(w, t, n)
  BY <1>2 DEF Begin
<1>3. CASE \E w \in Writers : Append(w) \/ Commit(w) \/ Rollback(w)
  BY <1>3 DEF Append, Commit, Rollback
<1>4. CASE UNCHANGED vars
  BY <1>4 DEF vars
<1>5. QED
  BY <1>1, <1>2, <1>3, <1>4 DEF Next, EditEvent, RedateEvent, RemoveEvent

\* A fork or a tie that overlapping requests have left in a log cannot be
\* undone by appending to it, as append_audit_event is the only writer.
THEOREM ForksAndTiesStay == Spec => BrokenLogsStayBroken
<1>1. HistoryInv => OnlyForksAndTiesBreakTheChain
  BY HistoryTells
<1>2. (HistoryInv => OnlyForksAndTiesBreakTheChain)'
  BY HistoryTells, PTL
<1>3. HistoryInv /\ HistoryInv' /\ [Next]_vars
        => [\A t \in Tenants : ~modified' /\ ~AuditValid(t) => ~AuditValid(t)']_vars
  <2> SUFFICES ASSUME HistoryInv, HistoryInv', [Next]_vars, NEW t \in Tenants, ~modified',
                      ~AuditValid(t)
               PROVE  ~AuditValid(t)'
    OBVIOUS
  <2>1. log \subseteq log' /\ ~modified
    BY LogGrows
  <2>2. PICK e \in EventsOf(t), f \in EventsOf(t) :
          (e.prev = f.prev \/ e.createdAt = f.createdAt) /\ e # f
    BY <1>1, <2>1 DEF OnlyForksAndTiesBreakTheChain
  <2>3. e \in EventsOf(t)' /\ f \in EventsOf(t)'
    BY <2>1, <2>2 DEF EventsOf
  <2>4. AuditValid(t)' <=> \A g, h \in EventsOf(t)' :
          g.prev = h.prev \/ g.createdAt = h.createdAt => g = h
    BY <1>2 DEF OnlyForksAndTiesBreakTheChain
  <2>5. QED
    BY <2>2, <2>3, <2>4
<1>4. QED
  BY <1>3, HistoryInit, HistoryStep, PTL DEF Spec, BrokenLogsStayBroken
=============================================================================
