--------------------------- MODULE SchemaMigration ---------------------------
(***************************************************************************)
(* The migration of the database's schema (database/migration.py,          *)
(* alembic/env.py, alembic/versions) and the check the application makes   *)
(* when it starts (main.py).  `make migrate` inspects the database, stamps *)
(* one that is older than Alembic, and upgrades it; the stamp and the      *)
(* upgrade each run env.py, which inspects it once more.                   *)
(*                                                                         *)
(* PostgreSQL runs all of an upgrade in one transaction.  On SQLite a      *)
(* statement that changes the schema commits on its own until the first    *)
(* statement that changes rows has begun a transaction, so the first       *)
(* changes of an upgrade outlive its failure.                              *)
(*                                                                         *)
(* The URL of the database is resolved twice.  A relative one of SQLite is *)
(* relative to the working directory for `make migrate` and for the        *)
(* application, and to apps/ for env.py: the stamp and the upgrade then    *)
(* work on another file.                                                   *)
(***************************************************************************)
EXTENDS Naturals, FiniteSets

CONSTANTS
    Migrators,      \* the migrations that can run at the same time (a bound)
    MaxCrashes      \* bound of the migrations that are killed

ASSUME CrashAssumption == MaxCrashes \in Nat

VARIABLES
    backend,        \* "postgresql" or "sqlite"
    relativeUrl,    \* database_url is a relative path of SQLite, as it is by default
    db,             \* the schema and alembic_version, of the database of env.py
    opened,         \* of the other file, with a relative URL
    duplicates,     \* two document_visual_regions have the same provenance
    serving,        \* an application has started
    migrators,
    crashes,
    fit,            \* history: db could be migrated at the beginning
    overlapped,     \* history: two migrations have run at the same time
    cutShort        \* history: an upgrade has ended between its first change
                    \* of the schema and its commit

vars == <<backend, relativeUrl, db, opened, duplicates, serving, migrators,
          crashes, fit, overlapped, cutShort>>

Baseline == 1       \* 0001_initial_schema
Head == 4           \* 0004_visual_region_uniqueness
Revisions == Baseline..Head

\* done: the last revision the tables have all of; partial: the first change of
\* the next one is there too (for Head: a copy of a table was left behind);
\* foreign: there are tables no revision has; versioned and rows: the table
\* alembic_version and what it contains.
Databases == [done : 0..Head, partial : BOOLEAN, foreign : BOOLEAN,
              versioned : BOOLEAN, rows : SUBSET Revisions]
-----------------------------------------------------------------------------
(* validate_schema_against_contract and inspect_schema_state *)

\* Nothing of the revision is missing, no table is unknown, and no column the
\* revision forbids is there: only the baseline forbids columns, those the next
\* revision adds.  A revision has no objection to the columns of later ones.
\* 0004 copies a table under another name first.
MatchesContract(d, revision) ==
    /\ d.done >= revision
    /\ ~d.foreign
    /\ revision = Baseline => d.done = Baseline /\ ~d.partial
    /\ ~(d.partial /\ d.done >= Head - 1)

Empty(d) == d.done = 0 /\ ~d.partial /\ ~d.foreign /\ ~d.versioned

\* Fault: what alembic_version says is believed.
InspectBelieved(d) ==
    CASE Empty(d) -> "empty"
      [] d.versioned /\ Cardinality(d.rows) = 1 -> "managed"
      [] ~d.versioned /\ MatchesContract(d, Baseline) -> "legacy"
      [] OTHER -> "incompatible"

Inspect(d) ==
    CASE Empty(d) -> "empty"
      [] d.versioned /\ \E r \in Revisions : d.rows = {r} /\ MatchesContract(d, r) -> "managed"
      [] ~d.versioned /\ MatchesContract(d, Baseline) -> "legacy"
      [] OTHER -> "incompatible"

AtHead(d) == Inspect(d) = "managed" /\ d.rows = {Head}
-----------------------------------------------------------------------------
\* resolve_database_url: the database that bootstrap_and_upgrade inspects and
\* the application opens.
Opened == IF relativeUrl THEN opened ELSE db

IdleMigrator == [step |-> "idle", from |-> 0]
At(m, step) == migrators[m].step = step
Goto(m, step) == migrators' = [migrators EXCEPT ![m].step = step]
Ends(m) == migrators' = [migrators EXCEPT ![m] = IdleMigrator]
Running == \E m \in Migrators : ~At(m, "idle")

\* Whether an upgrade that begins at this revision gets past its first change.
FirstChangeFits(d, from) ==
    /\ ~d.partial
    /\ d.done = from \/ (backend = "sqlite" /\ from = Head - 1 /\ d.done = Head)

\* The revision alembic_version names, 0 for none.
Recorded(d) == IF d.rows = {} THEN 0 ELSE CHOOSE r \in d.rows : TRUE

\* A database that can be brought to head, once there are no duplicates: the
\* tables and alembic_version fit together, and what comes next is not there.
Fit(d) ==
    /\ ~d.foreign
    /\ IF d.versioned
       THEN \E r \in Revisions :
              /\ d.rows = {r} /\ d.done >= r
              /\ IF r = Head THEN ~d.partial ELSE FirstChangeFits(d, r)
       ELSE d.done \in {0, Baseline} /\ ~d.partial

\* An empty database, one from before Alembic, and one at some revision; and
\* databases that are none of these: with tables of others, with a change of a
\* revision they are not at, with no row in alembic_version, with a row that is
\* not true.
Found == {d \in Databases : Cardinality(d.rows) <= 1 /\ (d.rows # {} => d.versioned)}

Init ==
    /\ backend \in {"postgresql", "sqlite"}
    /\ relativeUrl \in BOOLEAN /\ (relativeUrl => backend = "sqlite")
    /\ db \in Found
    /\ opened \in (IF relativeUrl THEN Found ELSE {db})
    /\ duplicates \in BOOLEAN /\ (duplicates => db.done \in Baseline..(Head - 1))
    /\ serving = FALSE
    /\ migrators = [m \in Migrators |-> IdleMigrator]
    /\ crashes = 0
    /\ fit = Fit(db)
    /\ overlapped = FALSE
    /\ cutShort = FALSE

\* What a step of a migration does not touch.
Aside == UNCHANGED <<backend, relativeUrl, opened, duplicates, serving, crashes, fit, overlapped, cutShort>>
-----------------------------------------------------------------------------
(* bootstrap_and_upgrade, and alembic's own upgrade command *)

Begins(m, step) ==
    /\ migrators' = [migrators EXCEPT ![m].step = step]
    /\ overlapped' = (overlapped \/ Running)
    /\ UNCHANGED <<backend, relativeUrl, db, opened, duplicates, serving, crashes, fit, cutShort>>

\* A database that is not understood ends the migration here.
Bootstrap(m) ==
    /\ At(m, "idle")
    /\ Inspect(Opened) # "incompatible"
    /\ Begins(m, IF Inspect(Opened) = "legacy" THEN "stamp" ELSE "upgrade")

UpgradeCommand(m) == At(m, "idle") /\ Begins(m, "upgrade")

(* run_migrations_online of the stamp, and then of the upgrade *)

StampInspects(m) ==
    /\ At(m, "stamp")
    /\ CASE Inspect(db) = "incompatible" -> Ends(m)
         [] Inspect(db) = "legacy" -> Goto(m, "insert_for_stamp")
         [] OTHER -> Goto(m, "set")
    /\ UNCHANGED db /\ Aside

UpgradeInspects(m) ==
    /\ At(m, "upgrade")
    /\ CASE Inspect(db) = "incompatible" -> Ends(m)
         [] Inspect(db) = "legacy" -> Goto(m, "insert")
         [] OTHER -> Goto(m, "run")
    /\ UNCHANGED db /\ Aside

\* Fault: the database is recorded as one that needs no upgrade.
BaselineRowOfHead == Head

\* The row inserted for a database from before Alembic.
BaselineRow == Baseline

\* The row of a database from before Alembic, committed; the insertion of a
\* row that is there already fails.
InsertsBaseline(m) ==
    /\ migrators[m].step \in {"insert_for_stamp", "insert"}
    /\ IF BaselineRow \in db.rows
       THEN db' = db /\ Ends(m)
       ELSE /\ db' = [db EXCEPT !.versioned = TRUE, !.rows = @ \union {BaselineRow}]
            /\ Goto(m, IF At(m, "insert") THEN "run" ELSE "upgrade")
    /\ Aside

\* The stamp of a database another migration has seen to in the meantime, or of
\* another file.
StampSets(m) ==
    /\ At(m, "set")
    /\ db' = [db EXCEPT !.versioned = TRUE, !.rows = IF Baseline \in @ THEN @ ELSE {Baseline}]
    /\ Goto(m, "upgrade")
    /\ Aside

\* The upgrade reads where to begin.
RunReads(m) ==
    /\ At(m, "run")
    /\ IF Head \in db.rows THEN Ends(m)
       ELSE migrators' = [migrators EXCEPT ![m] = [step |-> "change", from |-> Recorded(db)]]
    /\ UNCHANGED db /\ Aside

\* On SQLite the first change of the schema stays, whatever comes after; 0004
\* looks for duplicates before it.
RunChanges(m) ==
    LET from == migrators[m].from IN
    /\ backend = "sqlite"
    /\ At(m, "change")
    /\ IF FirstChangeFits(db, from) /\ ~(from = Head - 1 /\ duplicates)
       THEN /\ db' = [db EXCEPT !.partial = TRUE, !.versioned = TRUE]
            /\ Goto(m, "commit")
       ELSE db' = db /\ Ends(m)
    /\ Aside

\* Fault: the row is not written.
UpgradedUnrecorded(d) == [d EXCEPT !.done = Head, !.partial = FALSE, !.versioned = TRUE]

\* What the upgrade commits, and whether it gets as far as that: what it has
\* read is as it was, and 0004 has found no duplicates.
Upgraded(d) == [d EXCEPT !.done = Head, !.partial = FALSE, !.versioned = TRUE, !.rows = {Head}]
MayCommit(d, from) == d.rows = (IF from = 0 THEN {} ELSE {from}) /\ ~duplicates

RunCommits(m) ==
    LET from == migrators[m].from
        ready == IF backend = "sqlite" THEN At(m, "commit")
                 ELSE At(m, "change") /\ FirstChangeFits(db, from)
    IN
    /\ ready
    /\ MayCommit(db, from)
    /\ db' = Upgraded(db)
    /\ Ends(m)
    /\ Aside

\* A revision raises, or the row is not the one that was read: rolled back, but
\* for what SQLite has committed.
RunFails(m) ==
    LET from == migrators[m].from IN
    /\ \/ At(m, "commit") /\ ~MayCommit(db, from)
       \/ /\ At(m, "change") /\ backend = "postgresql"
          /\ ~(FirstChangeFits(db, from) /\ MayCommit(db, from))
    /\ cutShort' = (cutShort \/ At(m, "commit"))
    /\ Ends(m)
    /\ UNCHANGED <<backend, relativeUrl, db, opened, duplicates, serving, crashes, fit, overlapped>>

\* The process is killed, or loses the database.  On SQLite alembic_version may
\* have been created and its row not inserted.
Crashes(m) ==
    /\ ~At(m, "idle")
    /\ crashes < MaxCrashes
    /\ crashes' = crashes + 1
    /\ db' \in {db} \union
         (IF backend = "sqlite" /\ migrators[m].step \in {"insert_for_stamp", "insert", "set"}
          THEN {[db EXCEPT !.versioned = TRUE]} ELSE {})
    /\ cutShort' = (cutShort \/ At(m, "commit") \/ db' # db)
    /\ Ends(m)
    /\ UNCHANGED <<backend, relativeUrl, opened, duplicates, serving, fit, overlapped>>
-----------------------------------------------------------------------------
\* "Resolve duplicate visual regions before running this migration."
ResolveDuplicates ==
    /\ duplicates
    /\ duplicates' = FALSE
    /\ UNCHANGED <<backend, relativeUrl, db, opened, serving, migrators, crashes, fit, overlapped, cutShort>>

\* Fault: a database that is managed is good enough.
MayServeManaged(d) == Inspect(d) = "managed"

\* check_schema_at_head
MayServe(d) == AtHead(d)

\* lifespan
ApplicationStarts ==
    /\ ~serving
    /\ MayServe(Opened)
    /\ serving' = TRUE
    /\ UNCHANGED <<backend, relativeUrl, db, opened, duplicates, migrators, crashes, fit, overlapped, cutShort>>

MigratorStep(m) ==
    \/ StampInspects(m) \/ UpgradeInspects(m) \/ InsertsBaseline(m) \/ StampSets(m)
    \/ RunReads(m) \/ RunChanges(m) \/ RunCommits(m) \/ RunFails(m)

Next ==
    \/ \E m \in Migrators : Bootstrap(m) \/ UpgradeCommand(m) \/ MigratorStep(m) \/ Crashes(m)
    \/ ResolveDuplicates
    \/ ApplicationStarts

Spec == Init /\ [][Next]_vars

\* A migration that runs goes on; as long as the application does not start
\* somebody resolves what he is told to and runs `make migrate` again.
RetriedSpec ==
    /\ Spec
    /\ \A m \in Migrators : WF_vars(MigratorStep(m))
    /\ WF_vars(ResolveDuplicates)
    /\ WF_vars(\E m \in Migrators : Bootstrap(m))
    /\ WF_vars(ApplicationStarts)
-----------------------------------------------------------------------------
(* Properties *)

TypeOK ==
    /\ backend \in {"postgresql", "sqlite"}
    /\ relativeUrl \in BOOLEAN
    /\ {db, opened} \subseteq Databases
    /\ migrators \in [Migrators ->
         [step : {"idle", "stamp", "insert_for_stamp", "set", "upgrade", "insert", "run",
                  "change", "commit"},
          from : 0..Head]]
    /\ crashes \in 0..MaxCrashes
    /\ {duplicates, serving, fit, overlapped, cutShort} \subseteq BOOLEAN

\* The application only runs on tables that have every revision, whatever
\* alembic_version said of the database before, and whoever migrates it now
\* (check_schema_at_head).
ServingIsAtHead == serving => Opened.done = Head /\ ~Opened.foreign

\* A database that could be migrated still can be, or is at head, after any
\* crash, unless it is not the one that was inspected, two migrations have
\* overlapped or, on SQLite, an upgrade has ended halfway: `make migrate` leaves
\* no database behind that it refuses.
NothingIsStranded ==
    fit /\ ~relativeUrl /\ ~Running /\ ~overlapped /\ ~cutShort => Fit(db)

\* The row of alembic_version is true: no revision is recorded of which tables
\* or columns are missing, whatever overlaps or is cut short, unless the
\* database is not the one that was inspected.
RecordedIsBuilt == fit /\ ~relativeUrl => \A r \in db.rows : db.done >= r

\* A database that cannot be migrated is left as it is, by the bootstrap, the
\* stamp and the upgrade: "without modifying database or creating
\* alembic_version on validation failure" (docs/solo-roadmap.md:110); if it is
\* the one that was inspected.
RefusedIsUntouched == [][~fit /\ ~relativeUrl => db' = db]_vars

\* A database that can be migrated gets to head, and the application starts,
\* when `make migrate` is run again after every failure and no two run at the
\* same time; on SQLite, unless an upgrade ends halfway, or works on another
\* file than the application.  "Run 'make migrate' before starting the
\* application" (migration.py:626), it is told until then.
MigratedInTheEnd == fit /\ ~relativeUrl ~> serving \/ overlapped \/ cutShort
=============================================================================
