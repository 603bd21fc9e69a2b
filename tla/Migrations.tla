------------------------------ MODULE Migrations ------------------------------
(* The schema migrations every console-api process runs at boot                *)
(* (src/console/console-api/src/db/migrate.ts): the versions already applied   *)
(* are read once, then each of the others is run in a transaction of its own   *)
(* that also inserts the version, a primary key.                               *)
EXTENDS ConsoleProcess, Sequences, FiniteSets

CONSTANT Migration      \* how many migrations there are: they are 1 .. Migration

ASSUME MigrationAssumption == Migration \in Nat

VARIABLES schema,       \* migrations whose statements took effect, in order
          migrator      \* each process's run of migrate()

migrations == <<schema, migrator>>

MIGRATIONS == 1 .. Migration

Idle == [pc |-> "idle", done |-> {}, at |-> 0]

InitMigrations == schema = <<>> /\ migrator = [i \in Instance |-> Idle]

\* schema_migrations: its rows are committed together with the statements.
Versions == {schema[k] : k \in DOMAIN schema}

\* migrate() is not awaited: the process serves and its timers run meanwhile.
BootMigrations(i) ==
  /\ migrator' = [migrator EXCEPT ![i] = [Idle EXCEPT !.pc = "list"]]
  /\ UNCHANGED schema

EndMigrations(i) == migrator' = [migrator EXCEPT ![i] = Idle] /\ UNCHANGED schema

\* ensureMigrationTable and appliedVersions.
AppliedVersions(i) ==
  /\ migrator[i].pc = "list"
  /\ migrator' = [migrator EXCEPT ![i] = [pc |-> "loop", done |-> Versions, at |-> 1]]
  /\ UNCHANGED schema

\* One turn of the loop: skip what was applied when the list was read, or begin.
NextMigration(i) ==
  LET m == migrator[i] IN
  /\ m.pc = "loop"
  /\ migrator' = [migrator EXCEPT ![i] =
       IF m.at \notin MIGRATIONS THEN Idle
       ELSE IF m.at \in m.done THEN [m EXCEPT !.at = @ + 1]
       ELSE [m EXCEPT !.pc = "transaction"]]
  /\ UNCHANGED schema

\* The INSERT waits for another transaction's insert of the same version and
\* fails on the primary key once that one has committed.
\* (mutant: version is no key)
Conflict_Never(v) == FALSE
Conflict(v) == v \in Versions

CommitMigration(i) ==
  LET m == migrator[i] IN
  /\ m.pc = "transaction" /\ ~Conflict(m.at)
  /\ schema' = Append(schema, m.at)
  /\ migrator' = [migrator EXCEPT ![i] = [m EXCEPT !.pc = "loop", !.at = @ + 1]]

\* Any statement's error: ROLLBACK, and the throw ends migrate() for this boot.
AfterError(m) == Idle

RollBack(i) ==
  LET m == migrator[i] IN
  /\ m.pc = "transaction"
  /\ migrator' = [migrator EXCEPT ![i] = AfterError(m)]
  /\ UNCHANGED schema

\* The list itself cannot be read: the error is logged and nothing is applied.
ListFails(i) ==
  /\ migrator[i].pc = "list"
  /\ migrator' = [migrator EXCEPT ![i] = Idle]
  /\ UNCHANGED schema

StepMigrations ==
  \E i \in Instance : AppliedVersions(i) \/ ListFails(i) \/ NextMigration(i)
                      \/ CommitMigration(i) \/ RollBack(i)

MigrationsTypeOK ==
  /\ schema \in Seq(MIGRATIONS)
  /\ migrator \in [Instance -> [pc : {"idle", "list", "loop", "transaction"},
                                done : SUBSET MIGRATIONS, at : 0 .. Migration + 1]]

(* However many processes boot at once, fail or die, every migration takes     *)
(* effect at most once and only after all those before it (migrate).           *)
MigrationsInOrder == \A k \in DOMAIN schema : schema[k] = k
=============================================================================
