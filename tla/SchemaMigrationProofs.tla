------------------------ MODULE SchemaMigrationProofs ------------------------
(***************************************************************************)
(* Proofs about the migration of the schema, for any number of migrations  *)
(* that overlap and of crashes, on either backend and from any database    *)
(* the inspection tells apart.                                             *)
(***************************************************************************)
EXTENDS SchemaMigration, TLAPS

Steps == {"idle", "stamp", "insert_for_stamp", "set", "upgrade", "insert", "run", "change",
          "commit"}
MigratorSessions == [step : Steps, from : 0..Head]

\* One step, with the migration whose step it is.
StepOf(m) == Bootstrap(m) \/ UpgradeCommand(m) \/ MigratorStep(m) \/ Crashes(m)
-----------------------------------------------------------------------------
(* Type correctness, and what no step does. *)

LEMMA RecordedType == ASSUME NEW d \in Databases PROVE Recorded(d) \in 0..Head
<1>1. CASE d.rows = {}
  BY <1>1 DEF Recorded, Head
<1>2. CASE d.rows # {}
  <2>1. Recorded(d) \in d.rows
    BY <1>2 DEF Recorded
  <2> QED
    BY <2>1 DEF Databases, Revisions, Baseline, Head
<1> QED BY <1>1, <1>2

LEMMA MigratorMoves ==
    ASSUME TypeOK, NEW m \in Migrators
    PROVE  /\ \A step \in Steps : Goto(m, step) => migrators' \in [Migrators -> MigratorSessions]
           /\ Ends(m) => migrators' \in [Migrators -> MigratorSessions]
<1>1. migrators \in [Migrators -> MigratorSessions]
  BY DEF TypeOK, MigratorSessions, Steps
<1>2. ASSUME NEW step \in Steps, Goto(m, step)
      PROVE  migrators' \in [Migrators -> MigratorSessions]
  <2>1. [migrators[m] EXCEPT !.step = step] \in MigratorSessions
    BY <1>1 DEF MigratorSessions
  <2> QED BY <1>1, <1>2, <2>1 DEF Goto
<1>3. IdleMigrator \in MigratorSessions
  BY DEF IdleMigrator, MigratorSessions, Steps, Head
<1> QED BY <1>1, <1>2, <1>3 DEF Ends

LEMMA TypeInit == Init => TypeOK
<1> SUFFICES ASSUME Init PROVE TypeOK
  OBVIOUS
<1>1. IdleMigrator \in MigratorSessions
  BY DEF IdleMigrator, MigratorSessions, Steps, Head
<1>2. fit \in BOOLEAN
  BY DEF Init, Fit, FirstChangeFits, Databases
<1>3. db \in Databases /\ opened \in Databases /\ duplicates \in BOOLEAN /\ crashes \in 0..MaxCrashes
  BY CrashAssumption DEF Init, Found
<1>4. migrators \in [Migrators -> MigratorSessions]
  BY <1>1 DEF Init
<1> QED
  BY <1>2, <1>3, <1>4 DEF Init, TypeOK, MigratorSessions, Steps

LEMMA RowTypes ==
    /\ Baseline \in Revisions /\ Head \in Revisions
    /\ Baseline \in 0..Head /\ Head \in 0..Head
  BY DEF Baseline, Head, Revisions

LEMMA TypeBegin ==
    ASSUME TypeOK, NEW m \in Migrators, Bootstrap(m) \/ UpgradeCommand(m)
    PROVE  TypeOK'
<1>1. PICK step \in {"stamp", "upgrade"} : Begins(m, step)
  BY DEF Bootstrap, UpgradeCommand
<1>2. migrators' \in [Migrators -> MigratorSessions]
  BY <1>1 DEF TypeOK, Begins, Steps, MigratorSessions
<1>3. (overlapped \/ Running) \in BOOLEAN
  BY DEF Running
<1> QED
  BY <1>1, <1>2, <1>3 DEF TypeOK, Begins, Steps, MigratorSessions

LEMMA TypeMigrator ==
    ASSUME TypeOK, NEW m \in Migrators, MigratorStep(m)
    PROVE  TypeOK'
<1>1. CASE StampInspects(m)
  BY <1>1, MigratorMoves DEF StampInspects, TypeOK, Aside, Steps, MigratorSessions
<1>2. CASE UpgradeInspects(m)
  BY <1>2, MigratorMoves DEF UpgradeInspects, TypeOK, Aside, Steps, MigratorSessions
<1>3. CASE InsertsBaseline(m)
  <2>1. db' = db \/ db' = [db EXCEPT !.versioned = TRUE, !.rows = @ \union {Baseline}]
    BY <1>3 DEF InsertsBaseline, BaselineRow
  <2>2. db \in Databases
    BY DEF TypeOK
  <2>3. db' \in Databases
    BY <2>1, <2>2, RowTypes DEF Databases
  <2>4. migrators' \in [Migrators -> MigratorSessions]
    BY <1>3, MigratorMoves DEF InsertsBaseline, Steps
  <2> QED
    BY <1>3, <2>3, <2>4 DEF InsertsBaseline, TypeOK, Aside, Steps, MigratorSessions
<1>4. CASE StampSets(m)
  <2>1. db' \in Databases
    BY <1>4, RowTypes DEF StampSets, TypeOK, Databases
  <2>2. migrators' \in [Migrators -> MigratorSessions]
    BY <1>4, MigratorMoves DEF StampSets, Steps
  <2> QED
    BY <1>4, <2>1, <2>2 DEF StampSets, TypeOK, Aside, Steps, MigratorSessions
<1>5. CASE RunReads(m)
  <2>1. migrators' \in [Migrators -> MigratorSessions]
    <3>1. CASE Head \in db.rows
      BY <1>5, <3>1, MigratorMoves DEF RunReads
    <3>2. CASE Head \notin db.rows
      <4>1. [step |-> "change", from |-> Recorded(db)] \in MigratorSessions
        BY RecordedType DEF TypeOK, MigratorSessions, Steps
      <4> QED
        BY <1>5, <3>2, <4>1 DEF RunReads, TypeOK, MigratorSessions, Steps
    <3> QED BY <3>1, <3>2
  <2> QED
    BY <1>5, <2>1 DEF RunReads, TypeOK, Aside, Steps, MigratorSessions
<1>6. CASE RunChanges(m)
  <2>1. db' \in Databases
    BY <1>6 DEF RunChanges, TypeOK, Databases
  <2>2. migrators' \in [Migrators -> MigratorSessions]
    BY <1>6, MigratorMoves DEF RunChanges, Steps
  <2> QED
    BY <1>6, <2>1, <2>2 DEF RunChanges, TypeOK, Aside, Steps, MigratorSessions
<1>7. CASE RunCommits(m)
  <2>1. db' \in Databases
    BY <1>7, RowTypes DEF RunCommits, Upgraded, TypeOK, Databases
  <2>2. migrators' \in [Migrators -> MigratorSessions]
    BY <1>7, MigratorMoves DEF RunCommits
  <2> QED
    BY <1>7, <2>1, <2>2 DEF RunCommits, TypeOK, Aside, Steps, MigratorSessions
<1>8. CASE RunFails(m)
  <2>1. cutShort' \in BOOLEAN
    BY <1>8 DEF RunFails, TypeOK, At
  <2>2. migrators' \in [Migrators -> MigratorSessions]
    BY <1>8, MigratorMoves DEF RunFails
  <2> QED
    BY <1>8, <2>1, <2>2 DEF RunFails, TypeOK, Steps, MigratorSessions
<1> QED
  BY <1>1, <1>2, <1>3, <1>4, <1>5, <1>6, <1>7, <1>8 DEF MigratorStep

LEMMA TypeCrash ==
    ASSUME TypeOK, NEW m \in Migrators, Crashes(m)
    PROVE  TypeOK'
<1>1. db' \in Databases
  BY DEF Crashes, TypeOK, Databases
<1>2. migrators' \in [Migrators -> MigratorSessions]
  BY MigratorMoves DEF Crashes
<1>3. crashes' \in 0..MaxCrashes
  <2>1. crashes < MaxCrashes /\ crashes' = crashes + 1
    BY DEF Crashes
  <2>2. crashes \in 0..MaxCrashes
    BY DEF TypeOK
  <2> QED BY <2>1, <2>2, CrashAssumption
<1>4. cutShort' \in BOOLEAN
  BY DEF Crashes, TypeOK, At
<1> QED
  BY <1>1, <1>2, <1>3, <1>4 DEF Crashes, TypeOK, Steps, MigratorSessions

LEMMA TypeStep == TypeOK /\ [Next]_vars => TypeOK'
<1> SUFFICES ASSUME TypeOK, [Next]_vars PROVE TypeOK'
  OBVIOUS
<1>1. CASE \E m \in Migrators : Bootstrap(m) \/ UpgradeCommand(m) \/ MigratorStep(m) \/ Crashes(m)
  BY <1>1, TypeBegin, TypeMigrator, TypeCrash
<1>2. CASE ResolveDuplicates
  BY <1>2 DEF ResolveDuplicates, TypeOK
<1>3. CASE ApplicationStarts
  BY <1>3 DEF ApplicationStarts, TypeOK
<1>4. CASE UNCHANGED vars
  BY <1>4 DEF vars, TypeOK
<1> QED BY <1>1, <1>2, <1>3, <1>4 DEF Next

\* Every variable keeps its type, whatever overlaps or crashes.
THEOREM TypeInvariant == Spec => []TypeOK
<1>1. QED BY TypeInit, TypeStep, PTL DEF Spec
-----------------------------------------------------------------------------
(* What a step does to the migrations, and what no step does to the tables. *)

LEMMA MigratorSteps ==
    ASSUME TypeOK, NEW m \in Migrators
    PROVE  /\ \A step : Goto(m, step) =>
                /\ migrators'[m].step = step /\ migrators'[m].from = migrators[m].from
                /\ \A n \in Migrators \ {m} : migrators'[n] = migrators[n]
           /\ Ends(m) =>
                /\ migrators'[m].step = "idle"
                /\ \A n \in Migrators \ {m} : migrators'[n] = migrators[n]
           /\ \A step : Begins(m, step) =>
                /\ migrators'[m].step = step /\ migrators'[m].from = migrators[m].from
                /\ \A n \in Migrators \ {m} : migrators'[n] = migrators[n]
<1>1. migrators \in [Migrators -> MigratorSessions]
  BY DEF TypeOK, MigratorSessions, Steps
<1>2. migrators[m] \in MigratorSessions
  BY <1>1
<1>3. ASSUME NEW step, migrators' = [migrators EXCEPT ![m].step = step]
      PROVE  /\ migrators'[m].step = step /\ migrators'[m].from = migrators[m].from
             /\ \A n \in Migrators \ {m} : migrators'[n] = migrators[n]
  BY <1>1, <1>2, <1>3 DEF MigratorSessions
<1>4. Ends(m) =>
        /\ migrators'[m].step = "idle"
        /\ \A n \in Migrators \ {m} : migrators'[n] = migrators[n]
  BY <1>1 DEF Ends, IdleMigrator
<1> QED BY <1>3, <1>4 DEF Goto, Begins

\* Only the migration whose step it is moves.
LEMMA OthersStay ==
    ASSUME TypeOK, NEW m \in Migrators, StepOf(m)
    PROVE  \A n \in Migrators \ {m} : migrators'[n] = migrators[n]
<1>1. CASE Bootstrap(m) \/ UpgradeCommand(m)
  BY <1>1, MigratorSteps DEF Bootstrap, UpgradeCommand
<1>2. CASE StampInspects(m) \/ UpgradeInspects(m)
  BY <1>2, MigratorSteps DEF StampInspects, UpgradeInspects
<1>3. CASE InsertsBaseline(m) \/ StampSets(m)
  BY <1>3, MigratorSteps DEF InsertsBaseline, StampSets
<1>4. CASE RunReads(m)
  BY <1>4, MigratorSteps DEF RunReads, TypeOK
<1>5. CASE RunChanges(m) \/ RunCommits(m) \/ RunFails(m) \/ Crashes(m)
  BY <1>5, MigratorSteps DEF RunChanges, RunCommits, RunFails, Crashes
<1> QED
  BY <1>1, <1>2, <1>3, <1>4, <1>5 DEF StepOf, MigratorStep

\* Tables are not taken back, nobody's tables are removed, and the table
\* alembic_version stays.
LEMMA TablesStay ==
    ASSUME TypeOK, [Next]_vars
    PROVE  /\ db'.done \in Nat /\ db.done \in Nat
           /\ db'.done >= db.done
           /\ db'.foreign = db.foreign
           /\ db.versioned => db'.versioned
           /\ UNCHANGED <<backend, fit, relativeUrl, opened>>
<1>1. db.done \in 0..Head /\ db \in Databases
  BY DEF TypeOK, Databases
<1>2. ASSUME NEW m \in Migrators, Bootstrap(m) \/ UpgradeCommand(m) \/ StampInspects(m)
                                   \/ UpgradeInspects(m) \/ RunReads(m) \/ RunFails(m)
      PROVE  db' = db /\ UNCHANGED <<backend, fit, relativeUrl, opened>>
  BY <1>2 DEF Bootstrap, UpgradeCommand, Begins, StampInspects, UpgradeInspects, RunReads,
              RunFails, Aside
<1>3. ASSUME NEW m \in Migrators, InsertsBaseline(m) \/ StampSets(m) \/ RunChanges(m) \/ Crashes(m)
      PROVE  /\ db'.done = db.done /\ db'.foreign = db.foreign
             /\ db.versioned => db'.versioned
             /\ UNCHANGED <<backend, fit, relativeUrl, opened>>
  BY <1>1, <1>3 DEF InsertsBaseline, StampSets, RunChanges, Crashes, Aside, Databases
<1>4. ASSUME NEW m \in Migrators, RunCommits(m)
      PROVE  /\ db'.done = Head /\ db'.foreign = db.foreign /\ db'.versioned
             /\ UNCHANGED <<backend, fit, relativeUrl, opened>>
  BY <1>1, <1>4 DEF RunCommits, Upgraded, Aside, Databases
<1>5. CASE ResolveDuplicates \/ ApplicationStarts \/ UNCHANGED vars
  BY <1>1, <1>5 DEF ResolveDuplicates, ApplicationStarts, vars, Head
<1> QED
  BY <1>1, <1>2, <1>3, <1>4, <1>5 DEF Next, MigratorStep, Head
-----------------------------------------------------------------------------
(* The application runs on a schema that is at head. *)

\* A database at head has every table of head, and nobody else's.
LEMMA HeadIsComplete ==
    ASSUME NEW d \in Databases, AtHead(d)
    PROVE  d.done = Head /\ ~d.foreign
<1>1. PICK r \in Revisions : d.rows = {r} /\ MatchesContract(d, r)
  BY DEF AtHead, Inspect
<1>2. r = Head
  BY <1>1 DEF AtHead
<1> QED
  BY <1>1, <1>2 DEF MatchesContract, Databases, Head

\* The application only runs on tables that have every revision, whoever
\* migrates the database meanwhile (check_schema_at_head).
THEOREM ServedAtHead == Spec => []ServingIsAtHead
<1>1. Init => ServingIsAtHead
  BY DEF Init, ServingIsAtHead
<1>2. TypeOK /\ TypeOK' /\ ServingIsAtHead /\ [Next]_vars => ServingIsAtHead'
  <2> SUFFICES ASSUME TypeOK, TypeOK', ServingIsAtHead, [Next]_vars, serving'
               PROVE  Opened'.done = Head /\ ~Opened'.foreign
    BY DEF ServingIsAtHead
  <2>1. db'.done \in 0..Head /\ Opened \in Databases
    BY DEF TypeOK, Databases, Opened
  <2>2. CASE serving
    <3>1. Opened.done = Head /\ ~Opened.foreign
      BY <2>2 DEF ServingIsAtHead
    <3>2. CASE relativeUrl
      BY <3>1, <3>2, TablesStay DEF Opened
    <3>3. CASE ~relativeUrl
      BY <2>1, <3>1, <3>3, TablesStay DEF Opened, Head
    <3> QED BY <3>2, <3>3
  <2>3. CASE ~serving
    <3>1. ApplicationStarts
      BY <2>3 DEF Next, MigratorStep, Bootstrap, UpgradeCommand, Begins, StampInspects,
                  UpgradeInspects, InsertsBaseline, StampSets, RunReads, RunChanges, RunCommits,
                  RunFails, Crashes, ResolveDuplicates, Aside, vars
    <3>2. Opened' = Opened
      BY <3>1 DEF ApplicationStarts, Opened
    <3> QED
      BY <2>1, <3>1, <3>2, HeadIsComplete DEF ApplicationStarts, MayServe
  <2> QED BY <2>2, <2>3
<1> QED
  BY <1>1, <1>2, TypeInvariant, PTL DEF Spec
-----------------------------------------------------------------------------
(* No revision is on record that is not built. *)

\* A migration that is about to stamp has seen the tables of the baseline.
StampsBuilt ==
    \A m \in Migrators :
        migrators[m].step \in {"stamp", "insert_for_stamp", "set", "insert"} => db.done >= Baseline

LEMMA LegacyIsBuilt ==
    ASSUME NEW d \in Databases, Inspect(d) = "legacy"
    PROVE  d.done = Baseline /\ ~d.partial /\ ~d.foreign /\ ~d.versioned
  BY DEF Inspect, MatchesContract

LEMMA StampsStep == ~relativeUrl /\ TypeOK /\ StampsBuilt /\ [Next]_vars => StampsBuilt'
<1> SUFFICES ASSUME ~relativeUrl, TypeOK, StampsBuilt, [Next]_vars,
                    NEW n \in Migrators,
                    migrators'[n].step \in {"stamp", "insert_for_stamp", "set", "insert"}
             PROVE  db'.done >= Baseline
  BY DEF StampsBuilt
<1>0. db.done >= Baseline => db'.done >= Baseline
  BY TablesStay DEF Baseline
<1>1. CASE migrators'[n] = migrators[n]
  <2>1. db.done >= Baseline
    BY <1>1 DEF StampsBuilt
  <2> QED BY <1>0, <2>1
<1>2. CASE migrators'[n] # migrators[n]
  <2>1. StepOf(n)
    <3>1. PICK m \in Migrators : StepOf(m)
      BY <1>2 DEF Next, StepOf, ResolveDuplicates, ApplicationStarts, vars
    <3> QED BY <1>2, <3>1, OthersStay
  <2>2. CASE Bootstrap(n)
    <3>1. ~(Inspect(db) = "legacy") => Begins(n, "upgrade")
      BY <2>2 DEF Bootstrap, Opened
    <3>2. Begins(n, "upgrade") => migrators'[n].step = "upgrade"
      BY MigratorSteps
    <3> QED BY <1>0, <3>1, <3>2, LegacyIsBuilt DEF TypeOK, Baseline
  <2>3. CASE StampInspects(n)
    BY <1>0, <2>3 DEF StampsBuilt, StampInspects, At, Baseline
  <2>4. CASE UpgradeInspects(n)
    <3>1. ~(Inspect(db) = "legacy") => Ends(n) \/ Goto(n, "run")
      BY <2>4 DEF UpgradeInspects
    <3>2. Ends(n) \/ Goto(n, "run") => migrators'[n].step \in {"idle", "run"}
      BY MigratorSteps
    <3> QED BY <1>0, <3>1, <3>2, LegacyIsBuilt DEF TypeOK, Baseline
  <2>5. CASE InsertsBaseline(n) \/ StampSets(n) \/ RunChanges(n) \/ UpgradeCommand(n)
    <3>1. PICK step \in {"run", "upgrade", "commit"} :
            Ends(n) \/ Goto(n, step) \/ Begins(n, step)
      BY <2>5 DEF InsertsBaseline, StampSets, RunChanges, UpgradeCommand
    <3>2. migrators'[n].step \in {"idle", step}
      BY <3>1, MigratorSteps
    <3> QED BY <3>1, <3>2
  <2>6. CASE RunReads(n)
    <3>1. Ends(n) \/ migrators'[n].step = "change"
      BY <2>6 DEF RunReads, TypeOK
    <3> QED BY <3>1, MigratorSteps
  <2>7. CASE RunCommits(n) \/ RunFails(n) \/ Crashes(n)
    BY <2>7, MigratorSteps DEF RunCommits, RunFails, Crashes
  <2> QED
    BY <2>1, <2>2, <2>3, <2>4, <2>5, <2>6, <2>7 DEF StepOf, MigratorStep
<1> QED BY <1>1, <1>2

BuiltInv == TypeOK /\ StampsBuilt /\ RecordedIsBuilt

LEMMA BuiltInit == Init => BuiltInv
<1> SUFFICES ASSUME Init PROVE BuiltInv
  OBVIOUS
<1>1. TypeOK
  BY TypeInit
<1>2. StampsBuilt
  BY DEF Init, IdleMigrator, StampsBuilt
<1>3. RecordedIsBuilt
  BY DEF Init, Found, RecordedIsBuilt, Fit, Databases
<1> QED BY <1>1, <1>2, <1>3 DEF BuiltInv

LEMMA BuiltStep == ~relativeUrl /\ BuiltInv /\ [Next]_vars => BuiltInv'
<1> SUFFICES ASSUME ~relativeUrl, BuiltInv, [Next]_vars PROVE BuiltInv'
  OBVIOUS
<1> USE DEF BuiltInv
<1>1. TypeOK' /\ StampsBuilt'
  BY TypeStep, StampsStep
<1>2. ASSUME fit', NEW r \in db'.rows PROVE db'.done >= r
  <2>0. db.done \in Nat /\ db'.done \in Nat /\ db'.done >= db.done /\ fit
    BY <1>2, TablesStay
  <2>1. \A q \in db.rows : q \in Nat /\ db.done >= q
    <3>1. db.rows \in SUBSET Revisions
      BY DEF TypeOK, Databases
    <3>2. Revisions \subseteq Nat
      BY DEF Revisions, Baseline, Head
    <3> QED BY <2>0, <3>1, <3>2 DEF RecordedIsBuilt
  <2>2. CASE r \in db.rows
    BY <2>0, <2>1, <2>2
  <2>3. CASE r \notin db.rows
    <3>1. ASSUME NEW m \in Migrators, InsertsBaseline(m) \/ StampSets(m)
          PROVE  r = Baseline /\ db.done >= Baseline
      <4>0. db \in Databases
        BY DEF TypeOK
      <4>3. db'.rows \subseteq db.rows \union {Baseline}
        BY <3>1, <4>0 DEF InsertsBaseline, StampSets, BaselineRow, Databases
      <4>1. r = Baseline
        BY <1>2, <2>3, <4>3
      <4>2. db.done >= Baseline
        BY <3>1 DEF InsertsBaseline, StampSets, At, StampsBuilt
      <4> QED BY <4>1, <4>2
    <3>2. ASSUME NEW m \in Migrators, RunCommits(m)
          PROVE  r = Head /\ db'.done = Head
      BY <3>2 DEF RunCommits, Upgraded, TypeOK, Databases
    <3>3. \E m \in Migrators : InsertsBaseline(m) \/ StampSets(m) \/ RunCommits(m)
      <4>1. db'.rows # db.rows
        BY <2>3
      <4>2. ASSUME NEW m \in Migrators, RunChanges(m) \/ Crashes(m) PROVE db'.rows = db.rows
        BY <4>2 DEF RunChanges, Crashes, TypeOK, Databases
      <4> QED
        BY <4>1, <4>2 DEF Next, MigratorStep, Bootstrap, UpgradeCommand, Begins, StampInspects,
                  UpgradeInspects, RunReads, RunFails, ResolveDuplicates, ApplicationStarts,
                  Aside, vars
    <3> QED
      BY <2>0, <3>1, <3>2, <3>3 DEF Baseline, Head
  <2> QED BY <2>2, <2>3
<1> QED
  BY <1>1, <1>2 DEF RecordedIsBuilt

\* Of another database than the one inspected the stamp knows nothing.
BuiltIfInspected == ~relativeUrl => BuiltInv

LEMMA BuiltIfInspectedStep == TypeOK /\ BuiltIfInspected /\ [Next]_vars => BuiltIfInspected'
<1> SUFFICES ASSUME TypeOK, BuiltIfInspected, [Next]_vars, ~relativeUrl' PROVE BuiltInv'
  BY DEF BuiltIfInspected
<1>1. ~relativeUrl
  BY TablesStay
<1> QED BY <1>1, BuiltStep DEF BuiltIfInspected

\* No revision is recorded of which tables or columns are missing, in a database
\* that could be migrated and was inspected before (the stamp and the upgrade of
\* env.py).
THEOREM RecordedStaysBuilt == Spec => []RecordedIsBuilt
<1>1. Init => BuiltIfInspected
  BY BuiltInit DEF BuiltIfInspected
<1>2. BuiltIfInspected => RecordedIsBuilt
  BY DEF BuiltIfInspected, BuiltInv, RecordedIsBuilt
<1> QED
  BY <1>1, <1>2, BuiltIfInspectedStep, TypeInvariant, PTL DEF Spec
-----------------------------------------------------------------------------
(* A database that cannot be migrated is not touched. *)

\* Of a database that cannot be brought to head the inspection says so, or that
\* it is managed, and then the first change of its upgrade does not fit.
LEMMA NotFit ==
    ASSUME db \in Databases, ~Fit(db)
    PROVE  /\ Inspect(db) \in {"managed", "incompatible"}
           /\ Inspect(db) = "managed" =>
                \E r \in Revisions : db.rows = {r} /\ r # Head /\ ~FirstChangeFits(db, r)
<1>1. Inspect(db) # "legacy"
  BY LegacyIsBuilt DEF Fit
<1>2. Inspect(db) # "empty"
  BY DEF Inspect, Empty, Fit
<1>3. ASSUME Inspect(db) = "managed"
      PROVE  \E r \in Revisions : db.rows = {r} /\ r # Head /\ ~FirstChangeFits(db, r)
  <2>1. PICK r \in Revisions : db.versioned /\ db.rows = {r} /\ MatchesContract(db, r)
    BY <1>3 DEF Inspect
  <2>2. ~db.foreign /\ db.done >= r
    BY <2>1 DEF MatchesContract
  <2>3. ~(IF r = Head THEN ~db.partial ELSE FirstChangeFits(db, r))
    BY <2>1, <2>2 DEF Fit
  <2>4. r = Head => ~db.partial
    BY <2>1, <2>2 DEF MatchesContract, Databases, Head
  <2> QED BY <2>1, <2>3, <2>4
<1>4. Inspect(db) \in {"empty", "managed", "legacy", "incompatible"}
  BY DEF Inspect
<1> QED BY <1>1, <1>2, <1>3, <1>4

LEMMA FitSame == UNCHANGED <<db, backend>> => (Fit(db)' <=> Fit(db))
  BY Zenon DEF Fit, FirstChangeFits

RefusedInv ==
    ~fit /\ ~relativeUrl =>
        /\ ~Fit(db)
        /\ \A m \in Migrators :
             /\ migrators[m].step \in {"idle", "upgrade", "run", "change"}
             /\ At(m, "run") => Inspect(db) = "managed"
             /\ At(m, "change") => ~FirstChangeFits(db, migrators[m].from)

LEMMA RefusedStep ==
    ASSUME ~relativeUrl, TypeOK, RefusedInv, ~fit, [Next]_vars
    PROVE  db' = db /\ RefusedInv'
<1>1. ~Fit(db) /\ db \in Databases
  BY DEF RefusedInv, TypeOK
<1>2. \A m \in Migrators :
        /\ migrators[m].step \in {"idle", "upgrade", "run", "change"}
        /\ migrators[m].step = "run" => Inspect(db) = "managed"
        /\ migrators[m].step = "change" => ~FirstChangeFits(db, migrators[m].from)
  BY DEF RefusedInv, At
<1>3. UNCHANGED <<backend, fit>>
  BY TablesStay
\* Enough: the database is untouched, and the migration that moves is where it
\* may be.
<1>4. ASSUME NEW m \in Migrators, StepOf(m), db' = db,
             migrators'[m].step \in {"idle", "upgrade", "run", "change"},
             migrators'[m].step = "run" => Inspect(db) = "managed",
             migrators'[m].step = "change" => ~FirstChangeFits(db, migrators'[m].from)
      PROVE  db' = db /\ RefusedInv'
  <2>1. ~Fit(db)'
    BY <1>1, <1>3, <1>4, FitSame
  <2>2. \A n \in Migrators :
          /\ migrators'[n].step \in {"idle", "upgrade", "run", "change"}
          /\ migrators'[n].step = "run" => Inspect(db) = "managed"
          /\ migrators'[n].step = "change" => ~FirstChangeFits(db, migrators'[n].from)
    BY <1>2, <1>4, OthersStay
  <2>3. \A n \in Migrators :
          /\ migrators'[n].step = "run" => Inspect(db') = "managed"
          /\ migrators'[n].step = "change" => ~FirstChangeFits(db, migrators[n].from)'
    BY <1>3, <1>4, <2>2 DEF FirstChangeFits
  <2> QED
    BY <1>4, <2>1, <2>2, <2>3 DEF RefusedInv, At
<1>5. CASE \E m \in Migrators : StepOf(m)
  <2>1. PICK m \in Migrators : StepOf(m)
    BY <1>5
  <2>2. CASE Bootstrap(m)
    <3>1. db' = db /\ Begins(m, "upgrade")
      BY <1>1, <2>2, NotFit DEF Bootstrap, Begins, Opened
    <3> QED BY <1>4, <2>1, <3>1, MigratorSteps
  <2>3. CASE UpgradeCommand(m)
    <3>1. db' = db /\ Begins(m, "upgrade")
      BY <2>3 DEF UpgradeCommand, Begins
    <3> QED BY <1>4, <2>1, <3>1, MigratorSteps
  <2>4. CASE UpgradeInspects(m)
    <3>1. db' = db /\ (Ends(m) \/ (Goto(m, "run") /\ Inspect(db) = "managed"))
      BY <1>1, <2>4, NotFit DEF UpgradeInspects
    <3> QED BY <1>4, <2>1, <3>1, MigratorSteps
  <2>5. CASE RunReads(m)
    <3>1. Inspect(db) = "managed"
      BY <1>2, <2>5 DEF RunReads, At
    <3>2. PICK r \in Revisions : db.rows = {r} /\ r # Head /\ ~FirstChangeFits(db, r)
      BY <1>1, <3>1, NotFit
    <3>3. Recorded(db) = r
      BY <3>2 DEF Recorded
    <3>4. db' = db /\ migrators' = [migrators EXCEPT ![m] = [step |-> "change", from |-> r]]
      BY <2>5, <3>2, <3>3 DEF RunReads
    <3>5. migrators'[m] = [step |-> "change", from |-> r]
      BY <3>4 DEF TypeOK
    <3> QED BY <1>4, <2>1, <3>2, <3>4, <3>5
  <2>6. CASE RunChanges(m)
    <3>1. db' = db /\ Ends(m)
      BY <1>2, <2>6 DEF RunChanges, At
    <3> QED BY <1>4, <2>1, <3>1, MigratorSteps
  <2>7. CASE RunFails(m)
    BY <1>4, <2>1, <2>7, MigratorSteps DEF RunFails
  <2>8. CASE Crashes(m)
    <3>1. db' = db /\ Ends(m)
      BY <1>2, <2>8 DEF Crashes
    <3> QED BY <1>4, <2>1, <3>1, MigratorSteps
  <2>9. ~StampInspects(m) /\ ~InsertsBaseline(m) /\ ~StampSets(m) /\ ~RunCommits(m)
    BY <1>2 DEF StampInspects, InsertsBaseline, StampSets, RunCommits, At
  <2> QED
    BY <2>1, <2>2, <2>3, <2>4, <2>5, <2>6, <2>7, <2>8, <2>9 DEF StepOf, MigratorStep
<1>6. CASE ResolveDuplicates \/ ApplicationStarts \/ UNCHANGED vars
  <2>1. UNCHANGED <<db, migrators>>
    BY <1>6 DEF ResolveDuplicates, ApplicationStarts, vars
  <2>2. ~Fit(db)'
    BY <1>1, <1>3, <2>1, FitSame
  <2>3. \A m \in Migrators : FirstChangeFits(db, migrators[m].from)' <=> FirstChangeFits(db, migrators[m].from)
    BY <1>3, <2>1 DEF FirstChangeFits
  <2> QED
    BY <1>2, <2>1, <2>2, <2>3 DEF RefusedInv, At
<1> QED BY <1>5, <1>6 DEF Next, StepOf

\* A database that cannot be migrated and was inspected is left as it is, by the
\* bootstrap, the stamp and the upgrade, in whatever order they run
\* (bootstrap_and_upgrade and env.py).
THEOREM RefusedStaysUntouched == Spec => RefusedIsUntouched
<1>1. Init => RefusedInv
  BY DEF Init, RefusedInv, IdleMigrator, At
<1>2. TypeOK /\ RefusedInv /\ [Next]_vars => RefusedInv'
  <2> SUFFICES ASSUME TypeOK, RefusedInv, [Next]_vars PROVE RefusedInv'
    OBVIOUS
  <2>1. fit' = fit /\ relativeUrl' = relativeUrl
    BY TablesStay
  <2>2. CASE fit \/ relativeUrl
    BY <2>1, <2>2, Zenon DEF RefusedInv
  <2> QED BY <2>2, RefusedStep
<1>3. TypeOK /\ RefusedInv /\ [Next]_vars => [~fit /\ ~relativeUrl => db' = db]_vars
  BY RefusedStep
<1> QED
  BY <1>1, <1>2, <1>3, TypeInvariant, PTL DEF Spec, RefusedIsUntouched
-----------------------------------------------------------------------------
(* No database is stranded by migrations that follow each other. *)

Quiet == fit /\ ~overlapped /\ ~cutShort

\* The row of alembic_version is in a table.
Recorder ==
    /\ db.rows # {} => db.versioned
    /\ \A m \in Migrators : At(m, "set") => db.versioned

OneMigrates == \A m, n \in Migrators : ~At(m, "idle") /\ ~At(n, "idle") => m = n

\* Between two changes of it a migration knows the database as it is.
Migratable ==
    Quiet =>
        /\ ~db.foreign
        /\ OneMigrates
        /\ (\A m \in Migrators : ~At(m, "commit")) => Fit(db)
        /\ \A m \in Migrators :
             /\ ~At(m, "set")
             /\ migrators[m].step \in {"stamp", "insert_for_stamp", "insert"} =>
                  Inspect(db) = "legacy"

LEMMA RecorderStep == TypeOK /\ StampsBuilt /\ Recorder /\ [Next]_vars => Recorder'
<1> SUFFICES ASSUME TypeOK, StampsBuilt, Recorder, [Next]_vars PROVE Recorder'
  OBVIOUS
<1>0. db \in Databases /\ (db.versioned => db'.versioned)
  BY TablesStay DEF TypeOK
<1>1. db'.rows # {} => db'.versioned
  <2>1. ASSUME NEW m \in Migrators, InsertsBaseline(m) \/ RunCommits(m) \/ RunChanges(m)
        PROVE  db' = db \/ db'.versioned
    BY <1>0, <2>1 DEF InsertsBaseline, RunCommits, RunChanges, Upgraded, Databases
  <2>2. ASSUME NEW m \in Migrators, StampSets(m)
        PROVE  db'.versioned
    BY <1>0, <2>2 DEF StampSets, Recorder
  <2>3. ASSUME NEW m \in Migrators, Crashes(m)
        PROVE  db'.rows = db.rows
    BY <1>0, <2>3 DEF Crashes, Databases
  <2>4. CASE \E m \in Migrators : InsertsBaseline(m) \/ RunCommits(m) \/ RunChanges(m)
                                   \/ StampSets(m) \/ Crashes(m)
    BY <1>0, <2>1, <2>2, <2>3, <2>4 DEF Recorder
  <2>5. CASE UNCHANGED db
    BY <2>5 DEF Recorder
  <2> QED
    BY <2>4, <2>5 DEF Next, MigratorStep, Bootstrap, UpgradeCommand, Begins, StampInspects,
                  UpgradeInspects, RunReads, RunFails, ResolveDuplicates, ApplicationStarts,
                  Aside, vars
<1>2. ASSUME NEW m \in Migrators, migrators'[m].step = "set"
      PROVE  db'.versioned
  <2>1. CASE migrators'[m] = migrators[m]
    BY <1>0, <1>2, <2>1 DEF Recorder, At
  <2>2. CASE migrators'[m] # migrators[m]
    <3>1. StepOf(m)
      <4>1. PICK n \in Migrators : StepOf(n)
        BY <2>2 DEF Next, StepOf, ResolveDuplicates, ApplicationStarts, vars
      <4> QED BY <2>2, <4>1, OthersStay
    <3>2. CASE StampInspects(m)
      <4>1. db.done >= Baseline /\ db' = db
        BY <3>2 DEF StampInspects, StampsBuilt, At
      <4>2. Inspect(db) \in {"empty", "managed"}
        <5>1. Inspect(db) = "incompatible" => Ends(m)
          BY <3>2 DEF StampInspects
        <5>2. Inspect(db) = "legacy" => Goto(m, "insert_for_stamp")
          BY <3>2 DEF StampInspects
        <5>3. Inspect(db) \in {"empty", "managed", "legacy", "incompatible"}
          BY DEF Inspect
        <5> QED BY <1>2, <5>1, <5>2, <5>3, MigratorSteps
      <4>3. Inspect(db) # "empty"
        BY <1>0, <4>1 DEF Inspect, Empty, Baseline, Databases
      <4> QED BY <4>1, <4>2, <4>3 DEF Inspect
    <3>3. ~StampInspects(m) => migrators'[m].step # "set"
      <4>1. Bootstrap(m) \/ UpgradeCommand(m) => Begins(m, "stamp") \/ Begins(m, "upgrade")
        BY DEF Bootstrap, UpgradeCommand
      <4>2. UpgradeInspects(m) => Ends(m) \/ Goto(m, "insert") \/ Goto(m, "run")
        BY DEF UpgradeInspects
      <4>3. InsertsBaseline(m) => Ends(m) \/ Goto(m, "run") \/ Goto(m, "upgrade")
        BY DEF InsertsBaseline
      <4>4. StampSets(m) => Goto(m, "upgrade")
        BY DEF StampSets
      <4>5. RunReads(m) => Ends(m) \/ migrators'[m].step = "change"
        BY DEF RunReads, TypeOK
      <4>6. RunChanges(m) => Ends(m) \/ Goto(m, "commit")
        BY DEF RunChanges
      <4>7. RunCommits(m) \/ RunFails(m) \/ Crashes(m) => Ends(m)
        BY DEF RunCommits, RunFails, Crashes
      <4> QED
        BY <3>1, <4>1, <4>2, <4>3, <4>4, <4>5, <4>6, <4>7, MigratorSteps DEF StepOf, MigratorStep
    <3> QED BY <1>2, <3>2, <3>3
  <2> QED BY <2>1, <2>2
<1> QED BY <1>1, <1>2 DEF Recorder, At

\* The states below are as long as nothing overlaps or is cut short.
LEMMA QuietStays ==
    ASSUME TypeOK, [Next]_vars, Quiet'
    PROVE  Quiet
<1>1. fit' = fit
  BY TablesStay
<1>2. (overlapped => overlapped') /\ (cutShort => cutShort')
  <2>1. ASSUME NEW m \in Migrators, Bootstrap(m) \/ UpgradeCommand(m)
        PROVE  overlapped' = (overlapped \/ Running) /\ cutShort' = cutShort
    BY <2>1, Zenon DEF Bootstrap, UpgradeCommand, Begins
  <2>2. ASSUME NEW m \in Migrators, StampInspects(m) \/ UpgradeInspects(m) \/ InsertsBaseline(m)
                                     \/ StampSets(m) \/ RunReads(m) \/ RunChanges(m) \/ RunCommits(m)
        PROVE  overlapped' = overlapped /\ cutShort' = cutShort
    BY <2>2 DEF StampInspects, UpgradeInspects, InsertsBaseline, StampSets, RunReads, RunChanges,
                RunCommits, Aside
  <2>3. ASSUME NEW m \in Migrators, RunFails(m)
        PROVE  overlapped' = overlapped /\ cutShort' = (cutShort \/ At(m, "commit"))
    BY <2>3, Zenon DEF RunFails
  <2>4. ASSUME NEW m \in Migrators, Crashes(m)
        PROVE  overlapped' = overlapped /\ cutShort' = (cutShort \/ At(m, "commit") \/ db' # db)
    BY <2>4, Zenon DEF Crashes
  <2>5. CASE ResolveDuplicates \/ ApplicationStarts \/ UNCHANGED vars
    BY <2>5 DEF ResolveDuplicates, ApplicationStarts, vars
  <2> QED
    BY <2>1, <2>2, <2>3, <2>4, <2>5, Zenon DEF Next, MigratorStep
<1> QED BY <1>1, <1>2 DEF Quiet

\* What a step of the migration leaves is as it should be, if the migration is
\* the only one and the database fits what it knows.
LEMMA MigratableMoves ==
    ASSUME TypeOK, [Next]_vars, NEW m \in Migrators, StepOf(m),
           \A n \in Migrators \ {m} : At(n, "idle"),
           Quiet, Migratable,
           migrators'[m].step # "set",
           migrators'[m].step # "commit" => Fit(db)',
           migrators'[m].step \in {"stamp", "insert_for_stamp", "insert"} => Inspect(db') = "legacy"
    PROVE  Migratable'
<1>1. \A n \in Migrators \ {m} : migrators'[n].step = "idle"
  BY OthersStay DEF At
<1>2. ~db'.foreign
  BY TablesStay DEF Migratable
<1>3. OneMigrates'
  BY <1>1 DEF OneMigrates, At
<1>4. (\A n \in Migrators : ~At(n, "commit"))' => Fit(db)'
  BY DEF At
<1>5. \A n \in Migrators :
        /\ migrators'[n].step # "set"
        /\ migrators'[n].step \in {"stamp", "insert_for_stamp", "insert"} => Inspect(db') = "legacy"
  BY <1>1
<1> QED
  BY <1>2, <1>3, <1>4, <1>5 DEF Migratable, At

LEMMA MigratableStep ==
    ASSUME ~relativeUrl, TypeOK, Recorder, Migratable, [Next]_vars
    PROVE  Migratable'
<1> SUFFICES ASSUME Quiet' PROVE Migratable'
  BY DEF Migratable
<1>1. Quiet
  BY QuietStays
<1>2. /\ ~db.foreign /\ db \in Databases
      /\ OneMigrates
      /\ \A m \in Migrators : migrators[m].step # "set"
      /\ \A m \in Migrators : migrators[m].step \in {"stamp", "insert_for_stamp", "insert"} =>
           Inspect(db) = "legacy"
  BY <1>1 DEF Migratable, TypeOK, At
<1>3. UNCHANGED <<backend, fit>>
  BY TablesStay
<1>4. CASE \E m \in Migrators : StepOf(m)
  <2>1. PICK m \in Migrators : StepOf(m)
    BY <1>4
  <2>2. \A n \in Migrators \ {m} : migrators[n].step = "idle"
    <3>1. CASE ~At(m, "idle")
      BY <1>2, <3>1 DEF OneMigrates, At
    <3>2. CASE At(m, "idle")
      <4>1. Bootstrap(m) \/ UpgradeCommand(m)
        BY <2>1, <3>2 DEF StepOf, MigratorStep, StampInspects, UpgradeInspects, InsertsBaseline,
                          StampSets, RunReads, RunChanges, RunCommits, RunFails, Crashes, At
      <4>2. overlapped' = (overlapped \/ Running)
        BY <4>1 DEF Bootstrap, UpgradeCommand, Begins
      <4>3. ~Running
        BY <4>2 DEF Quiet
      <4> QED BY <4>3 DEF Running, At
    <3> QED BY <3>1, <3>2
  <2>3. migrators[m].step # "commit" => Fit(db)
    <3>1. migrators[m].step # "commit" => \A n \in Migrators : ~At(n, "commit")
      BY <2>2 DEF At
    <3> QED BY <1>1, <3>1 DEF Migratable
  \* Enough, of a step that changes nothing or leaves a database that fits.
  <2>4. ASSUME migrators'[m].step # "set",
               migrators'[m].step # "commit" => Fit(db)',
               migrators'[m].step \in {"stamp", "insert_for_stamp", "insert"} => Inspect(db') = "legacy"
        PROVE  Migratable'
    BY <1>1, <2>1, <2>2, <2>4, MigratableMoves DEF At
  <2>5. db' = db => (Fit(db)' <=> Fit(db))
    BY <1>3, FitSame
  <2>6. CASE Bootstrap(m) \/ UpgradeCommand(m)
    <3>1. db' = db /\ migrators[m].step = "idle"
      BY <2>6 DEF Bootstrap, UpgradeCommand, Begins, At
    <3>2. \/ Begins(m, "upgrade")
          \/ Begins(m, "stamp") /\ Inspect(db) = "legacy"
      BY <2>6 DEF Bootstrap, UpgradeCommand, Opened
    <3> QED BY <2>3, <2>4, <2>5, <3>1, <3>2, MigratorSteps
  <2>7. CASE StampInspects(m)
    <3>1. db' = db /\ migrators[m].step = "stamp" /\ Inspect(db) = "legacy"
      BY <1>2, <2>7 DEF StampInspects, At
    <3>2. Goto(m, "insert_for_stamp")
      BY <2>7, <3>1 DEF StampInspects
    <3> QED BY <2>3, <2>4, <2>5, <3>1, <3>2, MigratorSteps
  <2>8. CASE UpgradeInspects(m)
    <3>1. db' = db /\ migrators[m].step = "upgrade"
      BY <2>8 DEF UpgradeInspects, At
    <3>2. \/ Ends(m) \/ Goto(m, "run")
          \/ Goto(m, "insert") /\ Inspect(db) = "legacy"
      BY <2>8 DEF UpgradeInspects
    <3> QED BY <2>3, <2>4, <2>5, <3>1, <3>2, MigratorSteps
  <2>9. CASE InsertsBaseline(m)
    <3>1. Inspect(db) = "legacy" /\ migrators[m].step \in {"insert_for_stamp", "insert"}
      BY <1>2, <2>9 DEF InsertsBaseline
    <3>2. db.done = Baseline /\ ~db.partial /\ ~db.versioned
      BY <1>2, <3>1, LegacyIsBuilt
    <3>3. db.rows = {}
      BY <3>2 DEF Recorder
    <3>4. db' = [db EXCEPT !.versioned = TRUE, !.rows = {Baseline}]
      BY <2>9, <3>3 DEF InsertsBaseline, BaselineRow
    <3>5. /\ db'.versioned /\ db'.rows = {Baseline} /\ db'.done = Baseline
          /\ ~db'.partial /\ ~db'.foreign
      BY <1>2, <3>2, <3>4 DEF Databases
    <3>6. Fit(db)'
      <4>1. FirstChangeFits(db, Baseline)'
        BY <3>5 DEF FirstChangeFits
      <4>2. Baseline \in Revisions /\ Baseline # Head /\ db'.done >= Baseline
        BY <3>5 DEF Revisions, Baseline, Head
      <4> QED BY <3>5, <4>1, <4>2 DEF Fit
    <3>7. Goto(m, "run") \/ Goto(m, "upgrade")
      BY <2>9, <3>3 DEF InsertsBaseline
    <3> QED BY <2>4, <3>6, <3>7, MigratorSteps
  <2>10. CASE RunReads(m)
    <3>1. db' = db /\ migrators[m].step = "run"
      BY <2>10 DEF RunReads, At
    <3>2. Ends(m) \/ migrators'[m].step = "change"
      BY <2>10 DEF RunReads, TypeOK
    <3> QED BY <2>3, <2>4, <2>5, <3>1, <3>2, MigratorSteps
  <2>11. CASE RunChanges(m)
    <3>1. migrators[m].step = "change"
      BY <2>11 DEF RunChanges, At
    <3>2. Goto(m, "commit") \/ (db' = db /\ Ends(m))
      BY <2>11 DEF RunChanges
    <3> QED BY <2>3, <2>4, <2>5, <3>1, <3>2, MigratorSteps
  <2>12. CASE RunCommits(m)
    <3>1. Ends(m) /\ db' = Upgraded(db)
      BY <2>12 DEF RunCommits
    <3>2. /\ db'.versioned /\ db'.rows = {Head} /\ db'.done = Head
          /\ ~db'.partial /\ ~db'.foreign
      BY <1>2, <3>1 DEF Upgraded, Databases
    <3>3. Head \in Revisions /\ db'.done >= Head
      BY <3>2 DEF Revisions, Baseline, Head
    <3>4. Fit(db)'
      BY <3>2, <3>3 DEF Fit
    <3> QED BY <2>4, <3>1, <3>4, MigratorSteps
  <2>13. CASE RunFails(m)
    <3>1. db' = db /\ Ends(m) /\ cutShort' = (cutShort \/ At(m, "commit"))
      BY <2>13 DEF RunFails
    <3>2. migrators[m].step # "commit"
      BY <3>1 DEF Quiet, At
    <3> QED BY <2>3, <2>4, <2>5, <3>1, <3>2, MigratorSteps
  <2>14. CASE Crashes(m)
    <3>1. Ends(m) /\ cutShort' = (cutShort \/ At(m, "commit") \/ db' # db)
      BY <2>14 DEF Crashes
    <3>2. migrators[m].step # "commit" /\ db' = db
      BY <3>1 DEF Quiet, At
    <3> QED BY <2>3, <2>4, <2>5, <3>1, <3>2, MigratorSteps
  <2>15. ~StampSets(m)
    BY <1>2 DEF StampSets, At
  <2> QED
    BY <2>1, <2>6, <2>7, <2>8, <2>9, <2>10, <2>11, <2>12, <2>13, <2>14, <2>15
       DEF StepOf, MigratorStep
<1>5. CASE ResolveDuplicates \/ ApplicationStarts \/ UNCHANGED vars
  <2>1. UNCHANGED <<db, migrators>>
    BY <1>5 DEF ResolveDuplicates, ApplicationStarts, vars
  <2>2. Fit(db)' <=> Fit(db)
    BY <1>3, <2>1, FitSame
  <2>3. (\A m \in Migrators : migrators[m].step # "commit") => Fit(db)
    BY <1>1 DEF Migratable, At
  <2> QED
    BY <1>2, <2>1, <2>2, <2>3 DEF Migratable, OneMigrates, At
<1> QED BY <1>4, <1>5 DEF Next, StepOf

MigratableIfInspected == ~relativeUrl => Recorder /\ Migratable

\* As long as no two migrations overlap and none is cut short on SQLite, a
\* database that was inspected can be migrated whenever no migration is running,
\* whatever else has failed or crashed: `make migrate` leaves nothing behind
\* that it refuses.
THEOREM NothingStaysStranded == Spec => []NothingIsStranded
<1>1. Init => BuiltIfInspected /\ MigratableIfInspected
  <2>1. Init => Recorder /\ Migratable
    BY DEF Init, Found, Recorder, Migratable, Quiet, Fit, OneMigrates, IdleMigrator, At
  <2> QED BY <2>1, BuiltInit DEF BuiltIfInspected, MigratableIfInspected
<1>2. TypeOK /\ BuiltIfInspected /\ MigratableIfInspected /\ [Next]_vars
          => MigratableIfInspected'
  <2> SUFFICES ASSUME TypeOK, BuiltIfInspected, MigratableIfInspected, [Next]_vars,
                      ~relativeUrl'
               PROVE  Recorder' /\ Migratable'
    BY DEF MigratableIfInspected
  <2>1. ~relativeUrl
    BY TablesStay
  <2>2. BuiltInv /\ Recorder /\ Migratable
    BY <2>1 DEF BuiltIfInspected, MigratableIfInspected
  <2> QED BY <2>1, <2>2, RecorderStep, MigratableStep DEF BuiltInv
<1>3. MigratableIfInspected => NothingIsStranded
  <2> SUFFICES ASSUME MigratableIfInspected, fit, ~relativeUrl, ~Running, ~overlapped, ~cutShort
               PROVE  Fit(db)
    BY DEF NothingIsStranded
  <2>1. \A m \in Migrators : ~At(m, "commit")
    BY DEF Running, At
  <2> QED BY <2>1 DEF MigratableIfInspected, Migratable, Quiet
<1> QED
  BY <1>1, <1>2, <1>3, BuiltIfInspectedStep, TypeInvariant, PTL DEF Spec
=============================================================================
