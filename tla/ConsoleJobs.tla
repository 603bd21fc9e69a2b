------------------------------ MODULE ConsoleJobs ------------------------------
(* The jobs console-api starts at boot (src/console/console-api/src/index.ts), *)
(* with processes that boot, stop and die at any point.  The three share the   *)
(* processes and none of their tables, so a behaviour shows one of them.       *)
EXTENDS Migrations, UsageCron, BudgetAlerts

VARIABLE job            \* the job this behaviour shows

vars == <<job, process, migrations, usage, alerts>>

Init ==
  /\ job \in {"migrate", "usage", "alerts"}
  /\ InitProcess /\ InitMigrations /\ InitUsage /\ InitAlerts

\* A step of the job that is shown; the tables of the others stay as they are.
Job(migrating, counting, alerting) ==
  /\ UNCHANGED job
  /\ \/ job = "migrate" /\ migrating /\ UNCHANGED <<usage, alerts>>
     \/ job = "usage" /\ counting /\ UNCHANGED <<migrations, alerts>>
     \/ job = "alerts" /\ alerting /\ UNCHANGED <<migrations, usage>>

Boot(i) == BootProcess(i) /\ Job(BootMigrations(i), BootUsage(i), BootAlerts(i))

Stop(i) ==
  StopProcess(i) /\ Job(UNCHANGED migrations, StopUsage(i), UNCHANGED alerts)

\* The exit waits for the clients in use, or is forced, or the process dies:
\* what is under way then is lost.
End(i) == EndProcess(i) /\ Job(EndMigrations(i), EndUsage(i), EndAlerts(i))

Step == UNCHANGED process /\ Job(StepMigrations, StepUsage, StepAlerts)

Next == Step \/ \E i \in Instance : Boot(i) \/ Stop(i) \/ End(i)

Spec == Init /\ [][Next]_vars

\* Type invariant.
TypeOK == ProcessTypeOK /\ MigrationsTypeOK /\ UsageTypeOK /\ AlertsTypeOK

\* However often and wherever processes boot and die, what migrate.ts applied is
\* a prefix of its list, each migration once.
SchemaInOrder == TypeOK /\ MigrationsInOrder
=============================================================================
