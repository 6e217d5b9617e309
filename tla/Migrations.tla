----------------------------- MODULE Migrations -----------------------------
(* The migration runner (database/migrate.js): runs that apply what is        *)
(* pending, or roll the last migration back, each in one database             *)
(* transaction, possibly at the same time.                                    *)
(*                                                                            *)
(* A run reads what is applied before its transaction begins. NOW() is the    *)
(* time a transaction began, so that the rows of one run have one date, and   *)
(* the runner orders by this date alone. A transaction is one step here, when *)
(* it commits: it sees what was committed, and a row it conflicts with makes  *)
(* it wait. Files on disk change only by new ones being added.                *)
EXTENDS Integers, FiniteSets, FiniteSetsExt

CONSTANTS Run,        \* runs of the runner that may overlap
          Migrations, \* migrations are numbered in the order of their prefix
          Unsafe,     \* migrations with a pattern the runner warns about
          MaxTime     \* bound on transactions

MigrationsAssumption ==
  /\ IsFiniteSet(Run) /\ Migrations \in Nat /\ Unsafe \subseteq 1..Migrations /\ MaxTime \in Nat

VARIABLES schema,            \* migrations whose tables are there
          schema_migrations, \* the rows: migration -> date, or 0
          files,             \* how many migrations are on disk
          run,               \* the step of each run, what it is to do, and its date
          time,
          torn,              \* history: a migration was rolled back that was not the last
          mixed              \* history: a run applied several migrations, or runs overlapped

migrationVars == <<schema, schema_migrations, files, run, time, torn, mixed>>

Migration == 1..Migrations
Quiet == [step |-> "none", todo |-> {}, at |-> 0]

Init ==
  /\ schema = {} /\ schema_migrations = [m \in Migration |-> 0]
  /\ files \in 0..Migrations
  /\ run = [r \in Run |-> Quiet]
  /\ time = 0 /\ torn = FALSE /\ mixed = FALSE

Applied == {m \in Migration : schema_migrations[m] # 0}
At(r, step) == run[r].step = step
End(r) == run' = [run EXCEPT ![r] = Quiet]
Overlap(r) == mixed' = (mixed \/ \E q \in Run \ {r} : run[q] # Quiet)

AddFile ==
  /\ files < Migrations /\ files' = files + 1
  /\ UNCHANGED <<schema, schema_migrations, run, time, torn, mixed>>

-----------------------------------------------------------------------------
(* migrateUp.                                                               *)

\* What is pending is analysed; without --force a warning ends the run.
FindPending(r, force) ==
  LET pending == (1..files) \ Applied
  IN
  /\ run[r] = Quiet /\ pending # {}
  /\ force \/ pending \cap Unsafe = {}
  /\ run' = [run EXCEPT ![r] = [step |-> "up", todo |-> pending, at |-> 0]]
  /\ Overlap(r)
  /\ UNCHANGED <<schema, schema_migrations, files, time, torn>>

\* BEGIN: the date of all its rows.
Begin(r) ==
  /\ run[r].step \in {"up", "down"} /\ run[r].at = 0 /\ time < MaxTime
  /\ time' = time + 1 /\ run' = [run EXCEPT ![r].at = time + 1]
  /\ UNCHANGED <<schema, schema_migrations, files, torn, mixed>>

\* The files in order, a row for each, COMMIT; the primary key refuses a migration
\* that another run has applied meanwhile.
CommitUp(r) ==
  /\ At(r, "up") /\ run[r].at # 0
  /\ run[r].todo \cap Applied = {}
  /\ schema' = schema \union run[r].todo
  /\ schema_migrations' = [m \in Migration |->
       IF m \in run[r].todo THEN run[r].at ELSE schema_migrations[m]]
  /\ mixed' = (mixed \/ Cardinality(run[r].todo) > 1)
  /\ End(r)
  /\ UNCHANGED <<files, time, torn>>

\* A statement fails, or the run dies: ROLLBACK.
RollBackRun(r) ==
  /\ run[r].step \in {"up", "down"}
  /\ End(r)
  /\ UNCHANGED <<schema, schema_migrations, files, time, torn, mixed>>

-----------------------------------------------------------------------------
(* rollbackLast.                                                            *)

\* The rows with the latest date: the runner takes any of them.
Latest == {m \in Applied : \A n \in Applied : schema_migrations[n] <= schema_migrations[m]}

FindLast(r) ==
  /\ run[r] = Quiet
  /\ \E m \in Latest :
       run' = [run EXCEPT ![r] = [step |-> "down", todo |-> {m}, at |-> 0]]
  /\ Overlap(r)
  /\ UNCHANGED <<schema, schema_migrations, files, time, torn>>

\* The down file (DROP ... IF EXISTS) and the DELETE, which may find nothing.
CommitDown(r) ==
  /\ At(r, "down") /\ run[r].at # 0
  /\ schema' = schema \ run[r].todo
  /\ schema_migrations' = [m \in Migration |-> IF m \in run[r].todo THEN 0 ELSE schema_migrations[m]]
  /\ torn' = (torn \/ \E m \in run[r].todo \cap Applied : m # Max(Applied))
  /\ End(r)
  /\ UNCHANGED <<files, time, mixed>>

Next ==
  \/ AddFile
  \/ \E r \in Run :
       \/ \E force \in BOOLEAN : FindPending(r, force)
       \/ Begin(r) \/ CommitUp(r) \/ RollBackRun(r) \/ FindLast(r) \/ CommitDown(r)

-----------------------------------------------------------------------------
TypeOK ==
  /\ schema \subseteq Migration
  /\ schema_migrations \in [Migration -> 0..MaxTime]
  /\ files \in 0..Migrations
  /\ run \in [Run -> [step : {"none", "up", "down"}, todo : SUBSET Migration, at : 0..MaxTime]]
  /\ time \in 0..MaxTime /\ torn \in BOOLEAN /\ mixed \in BOOLEAN

\* The table says which migrations the schema has, over failures and overlapping runs.
SchemaAsRecorded == schema = Applied

\* What is rolled back is the last migration there is, as long as runs do not overlap
\* and each applies one migration.
LastRolledBack == torn => mixed
=============================================================================
