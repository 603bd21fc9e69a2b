---------------------------- MODULE ConsoleProofs ----------------------------
(***************************************************************************)
(* The console.  For any number of console-api processes, boots,           *)
(* migrations, requests and hours: the schema grows in order, and usage is *)
(* billed once unless the lock was lost under its owner.  For any users,   *)
(* tokens, rows and calls of a browser: what a page says is true, changes  *)
(* are made by those who may make them, and sessions end for a cause.      *)
(***************************************************************************)
EXTENDS ConsoleJobs, ConsoleSession, FiniteSetTheorems, SequenceTheorems, TLAPS

-----------------------------------------------------------------------------
(* usageCron.ts *)

\* What a run that has read its window is about to bill: rows of that window, and
\* all of them but the late.
RowsOfWindow ==
  \A i \in Instance : txn[i].pc \in {"upsert", "commit"} =>
    /\ \A e \in txn[i].rows : e \in raw /\ completed[e] = txn[i].window
    /\ \A e \in raw \ late : completed[e] = txn[i].window => e \in txn[i].rows

\* As long as the lock was not lost, only its holder works, on a window nobody has
\* logged.
OneAtWork ==
  lost = FALSE =>
    /\ \A i \in Instance : cronOwner[i] = TRUE => holder = i
    /\ \A i \in Instance : txn[i].pc # "idle" => holder = i
    /\ \A w \in 0 .. MaxHour : log[w] <= 1
    /\ \A i \in Instance : txn[i].pc \in {"aggregate", "upsert", "commit"} =>
         log[txn[i].window] = 0

Unbilled == \A e \in Event : completed[e] = 0 => billed[e] = 0 /\ e \notin raw

UsageInv ==
  /\ UsageTypeOK /\ RowsOfWindow /\ OneAtWork /\ Unbilled
  /\ LoggedIsBilled /\ BilledIsLogged

LEMMA UsageInvSafe == UsageInv => UsageTypeOK /\ UsageBilled
BY DEF UsageInv, UsageTypeOK, OneAtWork, BilledIsLogged, UsageBilled, BilledOnceUnlessLockLost

LEMMA UsageInvInit == InitUsage => UsageInv
<1> SUFFICES ASSUME InitUsage PROVE UsageInv
  OBVIOUS
<1> USE CronAssumption DEF InitUsage, NoTxn
<1>1. UsageTypeOK
  <2>1. txn \in [Instance -> [pc : {"idle", "check", "aggregate", "upsert", "commit"},
                            window : 0 .. MaxHour, rows : SUBSET Event]]
    OBVIOUS
  <2>2. log \in [0 .. MaxHour -> Nat] /\ billed \in [Event -> Nat] /\ lost \in BOOLEAN
    OBVIOUS
  <2>3. /\ hour \in 1 .. MaxHour /\ completed \in [Event -> 0 .. MaxHour] /\ raw \subseteq Event
        /\ late \subseteq raw
    OBVIOUS
  <2>4. cronOwner \in [Instance -> BOOLEAN] /\ due \in [Instance -> BOOLEAN]
    OBVIOUS
  <2> QED
    BY <2>1, <2>2, <2>3, <2>4 DEF UsageTypeOK, Hours
<1>2. RowsOfWindow /\ OneAtWork /\ Unbilled
  BY DEF RowsOfWindow, OneAtWork, Unbilled
<1>3. LoggedIsBilled /\ BilledIsLogged
  BY DEF LoggedIsBilled, BilledIsLogged
<1> QED
  BY <1>1, <1>2, <1>3 DEF UsageInv

\* The requests and the clock: what is written late is marked so.
LEMMA OutsideUsageInv ==
  ASSUME UsageInv, PassHour \/ \E e \in Event : Complete(e) \/ WriteRow(e)
  PROVE  UsageInv'
<1> USE CronAssumption DEF UsageInv, UsageTypeOK, Hours, RowsOfWindow, OneAtWork, Unbilled,
                           LoggedIsBilled, BilledIsLogged
<1>1. CASE PassHour
  BY <1>1 DEF PassHour
<1>2. ASSUME NEW e \in Event, Complete(e) PROVE UsageInv'
  BY <1>2 DEF Complete
<1>3. ASSUME NEW e \in Event, WriteRow(e) PROVE UsageInv'
  BY <1>3 DEF WriteRow, WindowRead
<1> QED
  BY <1>1, <1>2, <1>3

\* A process's run goes on to t, and the lock changes hands only as it may.
LEMMA RunGoesOn ==
  ASSUME UsageInv, NEW i \in Instance,
         NEW t \in [pc : {"idle", "check", "aggregate", "upsert", "commit"},
                    window : 0 .. MaxHour, rows : SUBSET Event],
         txn' = [txn EXCEPT ![i] = t], UNCHANGED <<events, money, lost>>,
         due' \in [Instance -> BOOLEAN], cronOwner' \in [Instance -> BOOLEAN],
         holder' \in Instance \cup {"nobody"},
         lost = FALSE =>
           /\ \A j \in Instance : cronOwner'[j] = TRUE => holder' = j
           /\ \A j \in Instance : txn[j].pc # "idle" => holder' = j
           /\ t.pc # "idle" => holder' = i
           /\ t.pc \in {"aggregate", "upsert", "commit"} => log[t.window] = 0,
         t.pc \in {"upsert", "commit"} =>
           /\ \A e \in t.rows : e \in raw /\ completed[e] = t.window
           /\ \A e \in raw \ late : completed[e] = t.window => e \in t.rows
  PROVE  UsageInv'
<1>1. UsageTypeOK /\ RowsOfWindow /\ OneAtWork /\ Unbilled /\ LoggedIsBilled /\ BilledIsLogged
  BY DEF UsageInv
<1>2. \A j \in Instance : txn'[j] = IF j = i THEN t ELSE txn[j]
  BY <1>1 DEF UsageTypeOK
<1>3. /\ UNCHANGED <<hour, completed, raw, late>> /\ UNCHANGED <<log, billed>> /\ lost' = lost
  BY DEF events, money
<1>4. UsageTypeOK'
  <2>1. txn' \in [Instance -> [pc : {"idle", "check", "aggregate", "upsert", "commit"},
                               window : 0 .. MaxHour, rows : SUBSET Event]]
    BY <1>1 DEF UsageTypeOK
  <2> QED
    BY <1>1, <1>3, <2>1 DEF UsageTypeOK, Hours
<1>5. RowsOfWindow'
  BY <1>1, <1>2, <1>3 DEF RowsOfWindow
<1>6. OneAtWork'
  <2> SUFFICES ASSUME lost = FALSE
               PROVE  /\ \A j \in Instance : cronOwner'[j] = TRUE => holder' = j
                      /\ \A j \in Instance : txn'[j].pc # "idle" => holder' = j
                      /\ \A w \in 0 .. MaxHour : log'[w] <= 1
                      /\ \A j \in Instance : txn'[j].pc \in {"aggregate", "upsert", "commit"} =>
                           log'[txn'[j].window] = 0
    BY <1>3 DEF OneAtWork
  <2>1. /\ \A w \in 0 .. MaxHour : log[w] <= 1
        /\ \A j \in Instance : txn[j].pc \in {"aggregate", "upsert", "commit"} =>
             log[txn[j].window] = 0
    BY <1>1 DEF OneAtWork
  <2>2. \A j \in Instance : txn'[j].pc # "idle" => holder' = j
    BY <1>2
  <2>3. \A j \in Instance : txn'[j].pc \in {"aggregate", "upsert", "commit"} =>
          log[txn'[j].window] = 0
    BY <1>2, <2>1
  <2> QED
    BY <1>3, <2>1, <2>2, <2>3
<1>7. Unbilled' /\ LoggedIsBilled' /\ BilledIsLogged'
  BY <1>1, <1>3 DEF Unbilled, LoggedIsBilled, BilledIsLogged
<1> QED
  BY <1>4, <1>5, <1>6, <1>7 DEF UsageInv

\* A tick: an owner goes on, another process takes the lock only if it is free.
LEMMA TickUsageInv ==
  ASSUME UsageInv, NEW i \in Instance, Tick(i)
  PROVE  UsageInv'
<1>1. UsageTypeOK /\ OneAtWork
  BY DEF UsageInv
<1>2. /\ UNCHANGED <<events, money, lost>> /\ due' \in [Instance -> BOOLEAN]
      /\ txn[i].pc = "idle"
  BY <1>1 DEF Tick, UsageTypeOK
<1>3. PICK t \in [pc : {"idle", "check", "aggregate", "upsert", "commit"},
                  window : 0 .. MaxHour, rows : SUBSET Event] : t = Begun /\ t.pc = "check"
  <2>1. hour - 1 \in 0 .. MaxHour
    BY <1>1, CronAssumption DEF UsageTypeOK, Hours
  <2>2. Begun \in [pc : {"idle", "check", "aggregate", "upsert", "commit"},
                   window : 0 .. MaxHour, rows : SUBSET Event] /\ Begun.pc = "check"
    BY <2>1 DEF Begun
  <2> QED
    BY <2>2
<1>4. CASE UNCHANGED <<txn, lock>>
  <2>1. txn' = [txn EXCEPT ![i] = txn[i]] /\ UNCHANGED <<holder, cronOwner>>
    BY <1>1, <1>4 DEF UsageTypeOK, lock
  <2>2. /\ cronOwner \in [Instance -> BOOLEAN] /\ holder \in Instance \cup {"nobody"}
        /\ txn[i] \in [pc : {"idle", "check", "aggregate", "upsert", "commit"},
                       window : 0 .. MaxHour, rows : SUBSET Event]
    BY <1>1 DEF UsageTypeOK
  <2>3. lost = FALSE => /\ \A j \in Instance : cronOwner[j] = TRUE => holder = j
                        /\ \A j \in Instance : txn[j].pc # "idle" => holder = j
    BY <1>1 DEF OneAtWork
  <2> QED
    BY <1>2, <2>1, <2>2, <2>3, RunGoesOn
<1>5. CASE cronOwner[i] = TRUE /\ UNCHANGED lock /\ txn' = [txn EXCEPT ![i] = t]
  <2>1. UNCHANGED <<holder, cronOwner>>
    BY <1>5 DEF lock
  <2>2. cronOwner \in [Instance -> BOOLEAN] /\ holder \in Instance \cup {"nobody"}
    BY <1>1 DEF UsageTypeOK
  <2>3. lost = FALSE => /\ \A j \in Instance : cronOwner[j] = TRUE => holder = j
                        /\ \A j \in Instance : txn[j].pc # "idle" => holder = j
                        /\ holder = i
    BY <1>1, <1>5 DEF OneAtWork
  <2> QED
    BY <1>2, <1>3, <1>5, <2>1, <2>2, <2>3, RunGoesOn
<1>6. CASE /\ holder = "nobody" /\ holder' = i /\ cronOwner' = [cronOwner EXCEPT ![i] = TRUE]
           /\ txn' = [txn EXCEPT ![i] = t]
  <2>1. cronOwner' \in [Instance -> BOOLEAN] /\ holder' \in Instance \cup {"nobody"}
    BY <1>1, <1>6 DEF UsageTypeOK
  <2>2. lost = FALSE => /\ \A j \in Instance : cronOwner[j] # TRUE
                        /\ \A j \in Instance : txn[j].pc = "idle"
    BY <1>1, <1>6, CronAssumption DEF OneAtWork
  <2>3. \A j \in Instance : cronOwner'[j] = TRUE => j = i \/ cronOwner[j] = TRUE
    BY <1>1, <1>6 DEF UsageTypeOK
  <2>4. lost = FALSE => /\ \A j \in Instance : cronOwner'[j] = TRUE => holder' = j
                        /\ \A j \in Instance : txn[j].pc # "idle" => holder' = j
                        /\ holder' = i
    BY <1>6, <2>2, <2>3
  <2> QED
    BY <1>2, <1>3, <1>6, <2>1, <2>4, RunGoesOn
<1> QED
  BY <1>1, <1>3, <1>4, <1>5, <1>6 DEF Tick, Acquires, UsageTypeOK

\* The statements of a run.
LEMMA TxnUsageInv ==
  ASSUME UsageInv, NEW i \in Instance,
         CheckLog(i) \/ Aggregate(i) \/ Upsert(i) \/ Commit(i) \/ Fail(i)
  PROVE  UsageInv'
<1>a. UsageTypeOK /\ RowsOfWindow /\ OneAtWork
  BY DEF UsageInv
<1>b. /\ txn[i] \in [pc : {"idle", "check", "aggregate", "upsert", "commit"},
                     window : 0 .. MaxHour, rows : SUBSET Event]
      /\ cronOwner \in [Instance -> BOOLEAN] /\ holder \in Instance \cup {"nobody"}
      /\ due \in [Instance -> BOOLEAN]
  BY <1>a DEF UsageTypeOK
<1>c. ASSUME NEW t \in [pc : {"idle", "check", "aggregate", "upsert", "commit"},
                        window : 0 .. MaxHour, rows : SUBSET Event],
             txn[i].pc # "idle", txn' = [txn EXCEPT ![i] = t],
             UNCHANGED <<events, money, lock, due, lost>>,
             t.pc \in {"aggregate", "upsert", "commit"} /\ lost = FALSE => log[t.window] = 0,
             t.pc \in {"upsert", "commit"} =>
               /\ \A e \in t.rows : e \in raw /\ completed[e] = t.window
               /\ \A e \in raw \ late : completed[e] = t.window => e \in t.rows
      PROVE  UsageInv'
  <2>1. UNCHANGED <<holder, cronOwner, due>>
    BY <1>c DEF lock
  <2>2. lost = FALSE => /\ \A j \in Instance : cronOwner[j] = TRUE => holder = j
                        /\ \A j \in Instance : txn[j].pc # "idle" => holder = j
                        /\ holder = i
    BY <1>a, <1>c DEF OneAtWork
  <2> QED
    BY <1>b, <1>c, <2>1, <2>2, RunGoesOn
<1>d. txn[i].pc \in {"aggregate", "upsert", "commit"} /\ lost = FALSE => log[txn[i].window] = 0
  BY <1>a DEF OneAtWork
<1>1. CASE CheckLog(i)
  <2>1. txn[i].pc = "check" /\ UNCHANGED <<events, money, lock, due, lost>>
    BY <1>1 DEF CheckLog
  <2>2. CASE AlreadyAggregated(txn[i].window)
    <3>1. txn' = [txn EXCEPT ![i] = NoTxn]
      BY <1>1, <2>2 DEF CheckLog
    <3>2. NoTxn \in [pc : {"idle", "check", "aggregate", "upsert", "commit"},
                     window : 0 .. MaxHour, rows : SUBSET Event] /\ NoTxn.pc = "idle"
      BY CronAssumption DEF NoTxn
    <3> QED
      BY <1>c, <2>1, <3>1, <3>2
  <2>3. CASE ~AlreadyAggregated(txn[i].window)
    <3>1. log[txn[i].window] = 0
      BY <1>a, <1>b, <2>3 DEF AlreadyAggregated, UsageTypeOK
    <3>2. txn' = [txn EXCEPT ![i] = Further(i, "aggregate", {})]
      BY <1>1, <2>3 DEF CheckLog
    <3>3. /\ Further(i, "aggregate", {}) \in
               [pc : {"idle", "check", "aggregate", "upsert", "commit"},
                window : 0 .. MaxHour, rows : SUBSET Event]
          /\ Further(i, "aggregate", {}).pc = "aggregate"
          /\ Further(i, "aggregate", {}).window = txn[i].window
      BY <1>b DEF Further
    <3> QED
      BY <1>c, <2>1, <3>1, <3>2, <3>3
  <2> QED
    BY <2>2, <2>3
<1>2. CASE Aggregate(i)
  <2> DEFINE read == {e \in raw : completed[e] = txn[i].window}
             t == Further(i, "upsert", read)
  <2>1. /\ txn[i].pc = "aggregate" /\ txn' = [txn EXCEPT ![i] = t]
        /\ UNCHANGED <<events, money, lock, due, lost>>
    BY <1>2 DEF Aggregate
  <2>2. read \in SUBSET Event
    BY <1>a DEF UsageTypeOK
  <2>3. t.pc = "upsert" /\ t.window = txn[i].window /\ t.rows = read
    BY DEF Further
  <2>4. t \in [pc : {"idle", "check", "aggregate", "upsert", "commit"},
               window : 0 .. MaxHour, rows : SUBSET Event]
    BY <1>b, <2>2 DEF Further
  <2>5. /\ \A e \in read : e \in raw /\ completed[e] = txn[i].window
        /\ \A e \in raw \ late : completed[e] = txn[i].window => e \in read
    OBVIOUS
  <2> HIDE DEF read, t
  <2> QED
    BY <1>c, <1>d, <2>1, <2>3, <2>4, <2>5
<1>3. CASE Upsert(i)
  <2> DEFINE t == Further(i, "commit", txn[i].rows)
  <2>1. /\ txn[i].pc = "upsert" /\ txn' = [txn EXCEPT ![i] = t]
        /\ UNCHANGED <<events, money, lock, due, lost>>
    BY <1>3 DEF Upsert
  <2>2. t.pc = "commit" /\ t.window = txn[i].window /\ t.rows = txn[i].rows
    BY DEF Further
  <2>3. t \in [pc : {"idle", "check", "aggregate", "upsert", "commit"},
               window : 0 .. MaxHour, rows : SUBSET Event]
    BY <1>b DEF Further
  <2>4. /\ \A e \in txn[i].rows : e \in raw /\ completed[e] = txn[i].window
        /\ \A e \in raw \ late : completed[e] = txn[i].window => e \in txn[i].rows
    BY <1>a, <2>1 DEF RowsOfWindow
  <2> HIDE DEF t
  <2> QED
    BY <1>c, <1>d, <2>1, <2>2, <2>3, <2>4
<1>4. CASE Commit(i)
  <2> USE CronAssumption DEF UsageInv, UsageTypeOK, Hours, RowsOfWindow, OneAtWork, Unbilled,
                             LoggedIsBilled, BilledIsLogged, NoTxn, Further, events, money, lock
  <2> DEFINE w == txn[i].window
  <2>1. /\ w \in 0 .. MaxHour /\ txn[i].pc = "commit"
        /\ log' = [log EXCEPT ![w] = log[w] + 1]
        /\ billed' = [e \in Event |-> IF e \in txn[i].rows THEN billed[e] + 1 ELSE billed[e]]
        /\ txn' = [txn EXCEPT ![i] = NoTxn]
        /\ UNCHANGED <<events, lock, due, lost>>
    BY <1>4 DEF Commit, Billed
  <2>2. \A j \in Instance : txn'[j] = IF j = i THEN NoTxn ELSE txn[j]
    BY <2>1
  <2>3. \A v \in 0 .. MaxHour : log'[v] = IF v = w THEN log[v] + 1 ELSE log[v]
    BY <2>1
  <2>4. \A e \in Event : billed'[e] = IF e \in txn[i].rows THEN billed[e] + 1 ELSE billed[e]
    BY <2>1
  <2>5. UsageTypeOK'
    BY <2>1
  <2>6. RowsOfWindow' /\ Unbilled'
    BY <2>1, <2>2, <2>4
  <2>7. OneAtWork'
    <3> SUFFICES ASSUME lost = FALSE
                 PROVE  /\ \A j \in Instance : cronOwner'[j] = TRUE \/ txn'[j].pc # "idle" => holder' = j
                        /\ \A v \in 0 .. MaxHour : log'[v] <= 1
                        /\ \A j \in Instance : txn'[j].pc \in {"aggregate", "upsert", "commit"} =>
                             log'[txn'[j].window] = 0
      BY <2>1
    <3>1. log[w] = 0 /\ holder = i
      BY <2>1
    <3>2. \A j \in Instance : cronOwner'[j] = TRUE \/ txn'[j].pc # "idle" => holder' = j
      BY <2>1, <2>2
    <3>3. \A v \in 0 .. MaxHour : log'[v] <= 1
      <4>1. \A v \in 0 .. MaxHour : log[v] <= 1 /\ log[v] \in Nat
        OBVIOUS
      <4> HIDE DEF UsageInv
      <4> QED
        BY <2>3, <3>1, <4>1
    <3>4. \A j \in Instance : txn'[j].pc = "idle"
      BY <2>1, <2>2, <3>1
    <3> QED
      BY <3>2, <3>3, <3>4
  <2>8. LoggedIsBilled' /\ BilledIsLogged'
    BY <2>1, <2>3, <2>4
  <2> QED
    BY <2>5, <2>6, <2>7, <2>8
<1>5. CASE Fail(i)
  <2>1. billed' = billed
    BY <1>5, <1>a DEF Fail, Billed, KeptOfFailed, UsageTypeOK
  <2>2. txn[i].pc # "idle" /\ txn' = [txn EXCEPT ![i] = NoTxn]
        /\ UNCHANGED <<events, money, lock, due, lost>>
    BY <1>5, <2>1 DEF Fail, money
  <2>3. NoTxn \in [pc : {"idle", "check", "aggregate", "upsert", "commit"},
                   window : 0 .. MaxHour, rows : SUBSET Event] /\ NoTxn.pc = "idle"
    BY CronAssumption DEF NoTxn
  <2> QED
    BY <1>c, <2>2, <2>3
<1> QED
  BY <1>1, <1>2, <1>3, <1>4, <1>5

\* The lock comes and goes with sessions and processes.
LEMMA LockUsageInv ==
  ASSUME UsageInv,
         SessionEnds \/ \E i \in Instance : BootUsage(i) \/ StopUsage(i) \/ EndUsage(i)
  PROVE  UsageInv'
<1> USE CronAssumption DEF UsageInv, UsageTypeOK, Hours, RowsOfWindow, OneAtWork, Unbilled,
                           LoggedIsBilled, BilledIsLogged, NoTxn, events, money, lock
<1>1. CASE SessionEnds
  BY <1>1 DEF SessionEnds
<1>2. ASSUME NEW i \in Instance, BootUsage(i) PROVE UsageInv'
  BY <1>2 DEF BootUsage
<1>3. ASSUME NEW i \in Instance, StopUsage(i) PROVE UsageInv'
  <2>1. lost' \in BOOLEAN /\ (lost' = FALSE => lost = FALSE /\ txn[i].pc = "idle")
    BY <1>3 DEF StopUsage
  <2>2. /\ holder' \in {"nobody", holder} /\ (holder = i => holder' = "nobody")
        /\ (holder # i => holder' = holder)
    BY <1>3 DEF StopUsage
  <2>3. OneAtWork'
    BY <1>3, <2>1, <2>2 DEF StopUsage
  <2> QED
    BY <1>3, <2>1, <2>2, <2>3 DEF StopUsage
<1>4. ASSUME NEW i \in Instance, EndUsage(i) PROVE UsageInv'
  <2>1. \A j \in Instance : txn'[j] = IF j = i THEN NoTxn ELSE txn[j]
    BY <1>4 DEF EndUsage
  <2>2. UsageTypeOK'
    BY <1>4 DEF EndUsage
  <2>3. RowsOfWindow'
    BY <1>4, <2>1 DEF EndUsage
  <2>4. OneAtWork'
    BY <1>4, <2>1 DEF EndUsage
  <2> QED
    BY <1>4, <2>2, <2>3, <2>4 DEF EndUsage
<1> QED
  BY <1>1, <1>2, <1>3, <1>4

\* Every step of the job, and of the processes as they touch it.
LEMMA StepUsageInv ==
  ASSUME UsageInv,
         \/ StepUsage \/ UNCHANGED usage
         \/ \E i \in Instance : BootUsage(i) \/ StopUsage(i) \/ EndUsage(i)
  PROVE  UsageInv'
<1>1. CASE UNCHANGED usage
  BY <1>1 DEF usage, UsageInv, UsageTypeOK, Hours, RowsOfWindow, OneAtWork, Unbilled,
              LoggedIsBilled, BilledIsLogged
<1>2. CASE PassHour \/ \E e \in Event : Complete(e) \/ WriteRow(e)
  BY <1>2, OutsideUsageInv
<1>3. CASE \E i \in Instance : Tick(i)
  BY <1>3, TickUsageInv
<1>4. CASE \E i \in Instance : CheckLog(i) \/ Aggregate(i) \/ Upsert(i) \/ Commit(i) \/ Fail(i)
  BY <1>4, TxnUsageInv
<1>5. CASE SessionEnds \/ \E i \in Instance : BootUsage(i) \/ StopUsage(i) \/ EndUsage(i)
  BY <1>5, LockUsageInv
<1> QED
  BY <1>1, <1>2, <1>3, <1>4, <1>5 DEF StepUsage

-----------------------------------------------------------------------------
(* migrate.ts *)

\* A run in its loop has behind it only versions that are in the table.
Behind ==
  \A i \in Instance :
    /\ migrator[i].done \subseteq 1 .. Len(schema)
    /\ migrator[i].pc \in {"loop", "transaction"} => migrator[i].at \in 1 .. Len(schema) + 1
    /\ migrator[i].pc = "transaction" => migrator[i].at \in MIGRATIONS

SchemaInv == MigrationsTypeOK /\ MigrationsInOrder /\ Behind

LEMMA VersionsInOrder ==
  ASSUME MigrationsTypeOK, MigrationsInOrder
  PROVE  Versions = 1 .. Len(schema) /\ Len(schema) \in Nat
BY DEF MigrationsTypeOK, MigrationsInOrder, Versions

LEMMA SchemaInvInit == InitMigrations => SchemaInv
<1> SUFFICES ASSUME InitMigrations PROVE SchemaInv
  OBVIOUS
<1>1. schema \in Seq(MIGRATIONS) /\ Len(schema) = 0
  BY DEF InitMigrations
<1>2. migrator = [i \in Instance |-> Idle]
  BY DEF InitMigrations
<1>3. 0 \in 0 .. Migration + 1
  BY MigrationAssumption
<1> QED
  BY <1>1, <1>2, <1>3 DEF SchemaInv, MigrationsTypeOK, MigrationsInOrder, Behind, Idle

\* Steps that leave the table as it is.
LEMMA ListSchemaInv ==
  ASSUME SchemaInv, NEW i \in Instance,
         \/ BootMigrations(i) \/ EndMigrations(i) \/ AppliedVersions(i) \/ ListFails(i)
         \/ NextMigration(i) \/ RollBack(i)
  PROVE  SchemaInv'
<1> USE MigrationAssumption DEF SchemaInv, MigrationsTypeOK, MigrationsInOrder, Behind
<1>1. schema' = schema /\ Len(schema) \in Nat /\ Versions = 1 .. Len(schema)
  BY VersionsInOrder DEF BootMigrations, EndMigrations, AppliedVersions, ListFails,
                         NextMigration, RollBack
<1>2. CASE migrator' = [migrator EXCEPT ![i] = Idle]
  BY <1>1, <1>2 DEF Idle
<1>3. CASE BootMigrations(i)
  BY <1>1, <1>3 DEF BootMigrations, Idle
<1>4. CASE AppliedVersions(i)
  <2>1. Len(schema) <= Migration
    BY <1>1 DEF MIGRATIONS
  <2> QED
    BY <1>1, <1>4, <2>1 DEF AppliedVersions, MIGRATIONS
<1>5. CASE NextMigration(i)
  <2> DEFINE m == migrator[i]
  <2>1. m.pc = "loop" /\ m.at \in 1 .. Len(schema) + 1 /\ m.at \in 0 .. Migration + 1
    BY <1>5 DEF NextMigration
  <2>2. CASE m.at \notin MIGRATIONS
    BY <1>2, <1>5, <2>2 DEF NextMigration
  <2>3. CASE m.at \in MIGRATIONS /\ m.at \in m.done
    BY <1>1, <1>5, <2>1, <2>3 DEF NextMigration, MIGRATIONS
  <2>4. CASE m.at \in MIGRATIONS /\ m.at \notin m.done
    BY <1>1, <1>5, <2>1, <2>4 DEF NextMigration
  <2> QED
    BY <2>2, <2>3, <2>4
<1> QED
  BY <1>2, <1>3, <1>4, <1>5 DEF EndMigrations, ListFails, RollBack, AfterError

\* A version that is not in the table, with all before it there, is the next.
LEMMA CommitSchemaInv ==
  ASSUME SchemaInv, NEW i \in Instance, CommitMigration(i)
  PROVE  SchemaInv'
<1> USE MigrationAssumption DEF SchemaInv, MigrationsTypeOK, MigrationsInOrder, Behind
<1> DEFINE m == migrator[i]
<1>1. Versions = 1 .. Len(schema) /\ Len(schema) \in Nat
  BY VersionsInOrder
<1>2. m.at = Len(schema) + 1 /\ m.at \in MIGRATIONS
  BY <1>1 DEF CommitMigration, Conflict
<1>3. /\ schema' = Append(schema, m.at)
      /\ Len(schema') = Len(schema) + 1
      /\ \A k \in 1 .. Len(schema) : schema'[k] = schema[k]
      /\ schema'[Len(schema) + 1] = m.at
  BY <1>2 DEF CommitMigration
<1>4. migrator' = [migrator EXCEPT ![i] = [m EXCEPT !.pc = "loop", !.at = m.at + 1]]
  BY DEF CommitMigration
<1>5. MigrationsTypeOK'
  <2>1. schema' \in Seq(MIGRATIONS)
    BY <1>2, <1>3
  <2>2. m.at + 1 \in 0 .. Migration + 1
    BY <1>2 DEF MIGRATIONS
  <2> QED
    BY <1>4, <2>1, <2>2
<1>6. MigrationsInOrder'
  BY <1>1, <1>2, <1>3
<1>7. Behind'
  BY <1>1, <1>2, <1>3, <1>4
<1> QED
  BY <1>5, <1>6, <1>7

LEMMA StepSchemaInv ==
  ASSUME SchemaInv,
         \/ StepMigrations \/ UNCHANGED migrations
         \/ \E i \in Instance : BootMigrations(i) \/ EndMigrations(i)
  PROVE  SchemaInv'
<1>1. CASE UNCHANGED migrations
  BY <1>1 DEF migrations, SchemaInv, MigrationsTypeOK, MigrationsInOrder, Behind
<1> QED
  BY <1>1, ListSchemaInv, CommitSchemaInv DEF StepMigrations

-----------------------------------------------------------------------------
(* notificationService.ts: types only *)

AlertsInv ==
  /\ AlertsTypeOK
  /\ \A i \in Instance : check[i].pc \in {"send", "log"} => check[i].at \in DOMAIN Thresholds

CheckState ==
  [pc : {"idle", "next", "send", "log"}, over : SUBSET Labels,
   at : 1 .. Len(Thresholds) + 1, channel : 1 .. Len(Channels)]

\* A check that moves on within its lists stays well formed.
LEMMA CheckMoves ==
  ASSUME AlertsInv, NEW i \in Instance, NEW pc \in {"next", "send", "log"},
         NEW at \in 1 .. Len(Thresholds) + 1, NEW channel \in 1 .. Len(Channels),
         pc \in {"send", "log"} => at \in DOMAIN Thresholds,
         check' = [check EXCEPT ![i] = Turned(i, pc, at, channel)]
  PROVE  /\ check' \in [Instance -> CheckState]
         /\ \A j \in Instance : check'[j].pc \in {"send", "log"} => check'[j].at \in DOMAIN Thresholds
<1>1. check \in [Instance -> CheckState]
  BY DEF AlertsInv, AlertsTypeOK, CheckState
<1>2. Turned(i, pc, at, channel) \in CheckState
  BY <1>1 DEF Turned, CheckState
<1>3. Turned(i, pc, at, channel).pc = pc /\ Turned(i, pc, at, channel).at = at
  BY DEF Turned
<1>4. check' \in [Instance -> CheckState]
  BY <1>1, <1>2
<1>5. ASSUME NEW j \in Instance, check'[j].pc \in {"send", "log"}
      PROVE  check'[j].at \in DOMAIN Thresholds
  <2>1. CASE j = i
    BY <2>1, <1>1, <1>3, <1>5
  <2>2. CASE j # i
    BY <2>2, <1>1, <1>5 DEF AlertsInv
  <2> QED
    BY <2>1, <2>2
<1> QED
  BY <1>4, <1>5

LEMMA AlertsInvInit == InitAlerts => AlertsInv
<1> SUFFICES ASSUME InitAlerts PROVE AlertsInv
  OBVIOUS
<1> USE DEF InitAlerts
<1>1. check = [i \in Instance |-> NoCheck] /\ fired = [i \in Instance |-> FALSE]
  OBVIOUS
<1>2. NoCheck \in [pc : {"idle", "next", "send", "log"}, over : SUBSET Labels,
                  at : 1 .. Len(Thresholds) + 1, channel : 1 .. Len(Channels)]
  BY AlertAssumption DEF NoCheck
<1>3. notices \in [Labels \X Channel -> Nat] /\ changes \in 0 .. MaxChanges
  BY AlertAssumption
<1> QED
  BY <1>1, <1>2, <1>3 DEF AlertsInv, AlertsTypeOK, NoCheck

\* The outside, and what a process does without a turn of its check.
LEMMA OutsideAlertsInv ==
  ASSUME AlertsInv,
         \/ SwitchOff \/ \E l \in Labels : Spend(l) \/ WindowEnds(l)
         \/ \E i \in Instance : TickAlerts(i) \/ BootAlerts(i) \/ EndAlerts(i)
  PROVE  AlertsInv'
<1> USE AlertAssumption DEF AlertsInv, AlertsTypeOK
<1>1. CASE SwitchOff
  <2>1. changes < MaxChanges /\ changes' = changes + 1 /\ enabled' = FALSE
        /\ UNCHANGED <<exceeded, noted, fired, check, notices, excused>>
    BY <1>1 DEF SwitchOff
  <2>2. changes' \in 0 .. MaxChanges
    BY <2>1
  <2>3. enabled' \in BOOLEAN
    BY <2>1
  <2>4. /\ exceeded' \subseteq Labels /\ noted' \subseteq Labels \X Channel
        /\ fired' \in [Instance -> BOOLEAN] /\ excused' \subseteq Labels
        /\ notices' \in [Labels \X Channel -> Nat]
        /\ check' \in [Instance -> CheckState]
    BY <2>1 DEF CheckState
  <2>5. \A i \in Instance : check'[i].pc \in {"send", "log"} => check'[i].at \in DOMAIN Thresholds
    BY <2>1
  <2> QED
    BY <2>2, <2>3, <2>4, <2>5 DEF CheckState
<1>2. ASSUME NEW l \in Labels, Spend(l) PROVE AlertsInv'
  BY <1>2 DEF Spend
<1>3. ASSUME NEW l \in Labels, WindowEnds(l) PROVE AlertsInv'
  BY <1>3 DEF WindowEnds
<1>4. ASSUME NEW i \in Instance, TickAlerts(i) PROVE AlertsInv'
  BY <1>4 DEF TickAlerts
<1>5. ASSUME NEW i \in Instance, BootAlerts(i) PROVE AlertsInv'
  BY <1>5 DEF BootAlerts
<1>6. ASSUME NEW i \in Instance, EndAlerts(i) PROVE AlertsInv'
  BY <1>6 DEF EndAlerts, NoCheck, HalfSent
<1> QED
  BY <1>1, <1>2, <1>3, <1>4, <1>5, <1>6

LEMMA CheckAlertsInv ==
  ASSUME AlertsInv, NEW i \in Instance,
         Start(i) \/ Consider(i) \/ Send(i) \/ LogNotification(i) \/ QueryFails(i) \/ Finish(i)
  PROVE  AlertsInv'
<1> USE AlertAssumption DEF AlertsInv, AlertsTypeOK
<1>1. CASE Start(i)
  <2>1. [pc |-> "next", over |-> exceeded, at |-> 1, channel |-> 1]
          \in [pc : {"idle", "next", "send", "log"}, over : SUBSET Labels,
              at : 1 .. Len(Thresholds) + 1, channel : 1 .. Len(Channels)]
    OBVIOUS
  <2>2. \/ UNCHANGED check
        \/ check' = [check EXCEPT ![i] = [pc |-> "next", over |-> exceeded, at |-> 1, channel |-> 1]]
    BY <1>1 DEF Start
  <2> QED
    BY <1>1, <2>1, <2>2 DEF Start
<1>2. CASE Consider(i)
  <2>1. check[i].at \in DOMAIN Thresholds /\ UNCHANGED <<exceeded, enabled, noted, fired, notices, changes>>
    BY <1>2 DEF Consider, Turn
  <2>2. PICK l \in Labels :
          /\ \/ check' = [check EXCEPT ![i] = Turned(i, "send", check[i].at, 1)]
             \/ check' = [check EXCEPT ![i] = Turned(i, "next", check[i].at + 1, 1)]
          /\ excused' \in {excused, excused \cup {l}}
    BY <1>2 DEF Consider
  <2>3. /\ DOMAIN Thresholds = 1 .. Len(Thresholds) /\ Len(Thresholds) \in Nat
        /\ 1 \in 1 .. Len(Channels)
    OBVIOUS
  <2>4. /\ check' \in [Instance -> CheckState]
        /\ \A j \in Instance : check'[j].pc \in {"send", "log"} => check'[j].at \in DOMAIN Thresholds
    <3>1. CASE check' = [check EXCEPT ![i] = Turned(i, "send", check[i].at, 1)]
      BY <3>1, <2>1, <2>3, CheckMoves
    <3>2. CASE check' = [check EXCEPT ![i] = Turned(i, "next", check[i].at + 1, 1)]
      <4>1. check[i].at + 1 \in 1 .. Len(Thresholds) + 1
        BY <2>1, <2>3
      <4> QED
        BY <3>2, <4>1, <2>3, CheckMoves
    <3> QED
      BY <3>1, <3>2, <2>2
  <2>5. excused' \subseteq Labels
    BY <2>2
  <2> QED
    BY <2>1, <2>4, <2>5 DEF CheckState
<1>3. CASE Send(i)
  <2>1. /\ check[i].at \in DOMAIN Thresholds /\ check[i].channel \in DOMAIN Channels
        /\ check' = [check EXCEPT ![i] = Turned(i, "log", check[i].at, check[i].channel)]
        /\ UNCHANGED <<exceeded, enabled, noted, fired, excused, changes>>
    BY <1>3 DEF Send
  <2>2. <<Thresholds[check[i].at], Channels[check[i].channel]>> \in Labels \X Channel
    BY <2>1
  <2>3. notices' \in [Labels \X Channel -> Nat]
    BY <1>3, <2>2 DEF Send
  <2> QED
    BY <2>1, <2>3 DEF Turned
<1>4. CASE LogNotification(i)
  <2>1. /\ check[i].at \in DOMAIN Thresholds /\ check[i].channel \in DOMAIN Channels
        /\ noted' = noted \cup {<<Thresholds[check[i].at], Channels[check[i].channel]>>}
        /\ UNCHANGED <<exceeded, enabled, fired, notices, excused, changes>>
    BY <1>4 DEF LogNotification
  <2>2. noted' \subseteq Labels \X Channel
    BY <2>1
  <2>3. \/ /\ check[i].channel < Len(Channels)
           /\ check' = [check EXCEPT ![i] = Turned(i, "send", check[i].at, check[i].channel + 1)]
        \/ check' = [check EXCEPT ![i] = Turned(i, "next", check[i].at + 1, 1)]
    BY <1>4 DEF LogNotification
  <2>4. /\ DOMAIN Thresholds = 1 .. Len(Thresholds) /\ Len(Thresholds) \in Nat
        /\ DOMAIN Channels = 1 .. Len(Channels) /\ Len(Channels) \in Nat \ {0}
    OBVIOUS
  <2>5. /\ check' \in [Instance -> CheckState]
        /\ \A j \in Instance : check'[j].pc \in {"send", "log"} => check'[j].at \in DOMAIN Thresholds
    <3>1. CASE /\ check[i].channel < Len(Channels)
               /\ check' = [check EXCEPT ![i] = Turned(i, "send", check[i].at, check[i].channel + 1)]
      <4>1. check[i].channel + 1 \in 1 .. Len(Channels) /\ check[i].at \in 1 .. Len(Thresholds) + 1
        BY <3>1, <2>1, <2>4
      <4> QED
        BY <3>1, <4>1, <2>1, CheckMoves
    <3>2. CASE check' = [check EXCEPT ![i] = Turned(i, "next", check[i].at + 1, 1)]
      <4>1. check[i].at + 1 \in 1 .. Len(Thresholds) + 1 /\ 1 \in 1 .. Len(Channels)
        BY <2>1, <2>4
      <4> QED
        BY <3>2, <4>1, CheckMoves
    <3> QED
      BY <3>1, <3>2, <2>3
  <2> QED
    BY <2>1, <2>2, <2>5 DEF CheckState
<1>5. CASE QueryFails(i)
  BY <1>5 DEF QueryFails, NoCheck, HalfSent
<1>6. CASE Finish(i)
  BY <1>6 DEF Finish, NoCheck
<1> QED
  BY <1>1, <1>2, <1>3, <1>4, <1>5, <1>6

LEMMA StepAlertsInv ==
  ASSUME AlertsInv,
         StepAlerts \/ UNCHANGED alerts \/ \E i \in Instance : BootAlerts(i) \/ EndAlerts(i)
  PROVE  AlertsInv'
<1>1. CASE UNCHANGED alerts
  BY <1>1 DEF alerts, AlertsInv, AlertsTypeOK
<1> QED
  BY <1>1, OutsideAlertsInv, CheckAlertsInv DEF StepAlerts

-----------------------------------------------------------------------------
(* Who was told.  A label that nobody excused is in one check's hands at most; *)
(* the channels before that check's have been told and have their rows, those  *)
(* after it neither; and when no check has it, all were told or none.          *)

Told(l, m) == notices[<<l, Channels[m]>>] = 1 /\ <<l, Channels[m]>> \in noted
Untold(l, m) == notices[<<l, Channels[m]>>] = 0 /\ <<l, Channels[m]>> \notin noted

OneSender(l) == \A i, j \in Instance : Sending(i, l) /\ Sending(j, l) => i = j
AllOrNone(l) ==
  (\A i \in Instance : ~ Sending(i, l)) =>
    (\A m \in DOMAIN Channels : Untold(l, m)) \/ (\A m \in DOMAIN Channels : Told(l, m))
InHand(l) ==
  \A i \in Instance : Sending(i, l) =>
    /\ \A m \in DOMAIN Channels : m < check[i].channel => Told(l, m)
    /\ \A m \in DOMAIN Channels : m > check[i].channel => Untold(l, m)
    /\ check[i].pc = "send" => Untold(l, check[i].channel)
    /\ check[i].pc = "log" => notices[<<l, Channels[check[i].channel]>>] = 1

Orderly(l) == OneSender(l) /\ AllOrNone(l) /\ InHand(l)
OnceInv == \A l \in Labels \ excused : Orderly(l)

LEMMA OnceInvInit == InitAlerts => OnceInv
<1> SUFFICES ASSUME InitAlerts, NEW l \in Labels PROVE Orderly(l)
  BY DEF OnceInv
<1>1. \A i \in Instance : ~ Sending(i, l)
  BY DEF InitAlerts, NoCheck, Sending
<1>2. \A m \in DOMAIN Channels : Untold(l, m)
  BY AlertAssumption DEF InitAlerts, Untold, Channel
<1> QED
  BY <1>1, <1>2 DEF Orderly, OneSender, AllOrNone, InHand

\* A label whose senders, notices and rows stay is as orderly as before.
LEMMA OrderlyStays ==
  ASSUME NEW l \in Labels, Orderly(l),
         \A i \in Instance : Sending(i, l)' <=> Sending(i, l),
         \A i \in Instance : Sending(i, l) =>
           check'[i].channel = check[i].channel /\ check'[i].pc = check[i].pc,
         \A m \in DOMAIN Channels :
           /\ notices'[<<l, Channels[m]>>] = notices[<<l, Channels[m]>>]
           /\ <<l, Channels[m]>> \in noted' <=> <<l, Channels[m]>> \in noted,
         AlertsTypeOK
  PROVE  Orderly(l)'
<1>1. \A m \in DOMAIN Channels : (Told(l, m)' <=> Told(l, m)) /\ (Untold(l, m)' <=> Untold(l, m))
  BY DEF Told, Untold
<1>2. \A i \in Instance : check[i].channel \in DOMAIN Channels
  BY AlertAssumption DEF AlertsTypeOK
<1>3. OneSender(l)'
  BY DEF Orderly, OneSender
<1>4. AllOrNone(l)'
  BY <1>1 DEF Orderly, AllOrNone
<1>5. InHand(l)'
  BY <1>1, <1>2 DEF Orderly, InHand
<1> QED
  BY <1>3, <1>4, <1>5 DEF Orderly

\* The check that has a label lets go of it or never had it; nobody else does.
LEMMA OnceInvLeaves ==
  ASSUME AlertsInv, OnceInv, NEW i \in Instance,
         check' = [check EXCEPT ![i] = NoCheck],
         excused' = excused \cup HalfSent(i), UNCHANGED <<noted, notices>>
  PROVE  OnceInv'
<1> SUFFICES ASSUME NEW l \in Labels, l \notin excused' PROVE Orderly(l)'
  BY DEF OnceInv
<1>1. Orderly(l) /\ AlertsTypeOK
  BY DEF OnceInv, AlertsInv
<1>2. ~ Sending(i, l)' /\ \A j \in Instance \ {i} : check'[j] = check[j]
  BY <1>1 DEF Sending, NoCheck, AlertsTypeOK
<1>3. \A j \in Instance \ {i} : Sending(j, l)' <=> Sending(j, l)
  BY <1>2 DEF Sending
<1>4. CASE ~ Sending(i, l)
  BY <1>1, <1>2, <1>3, <1>4, OrderlyStays
<1>5. CASE Sending(i, l)
  <2>1. check[i].pc = "send" /\ check[i].channel \in DOMAIN Channels /\ check[i].channel = 1
    BY <1>1, <1>5, AlertAssumption DEF HalfSent, Sending, AlertsTypeOK
  <2>2. \A m \in DOMAIN Channels : Untold(l, m)
    <3>1. \A m \in DOMAIN Channels : m = 1 \/ m > 1
      BY AlertAssumption
    <3>2. /\ \A m \in DOMAIN Channels : m > check[i].channel => Untold(l, m)
          /\ Untold(l, check[i].channel)
      BY <1>1, <1>5, <2>1 DEF Orderly, InHand
    <3> QED
      BY <2>1, <3>1, <3>2
  <2>3. \A m \in DOMAIN Channels : Untold(l, m)'
    BY <2>2 DEF Untold
  <2>4. \A j \in Instance : ~ Sending(j, l)'
    BY <1>1, <1>2, <1>3, <1>5 DEF Orderly, OneSender
  <2> QED
    BY <2>3, <2>4 DEF Orderly, OneSender, AllOrNone, InHand
<1> QED
  BY <1>4, <1>5

LEMMA OnceInvConsider ==
  ASSUME AlertsInv, OnceInv, NEW i \in Instance, Consider(i)
  PROVE  OnceInv'
<1>1. PICK k \in Labels :
        /\ Turn(i, k)
        /\ \/ /\ check' = [check EXCEPT ![i] = Turned(i, "send", check[i].at, 1)]
              /\ ~ WasRecentlyNotified(k)
              /\ (\E j \in Instance \ {i} : Sending(j, k)) => excused' = excused \cup {k}
           \/ check' = [check EXCEPT ![i] = Turned(i, "next", check[i].at + 1, 1)]
        /\ excused \subseteq excused'
  BY DEF Consider
<1>2. UNCHANGED <<noted, notices>> /\ AlertsTypeOK
  BY DEF Consider, AlertsInv
<1> SUFFICES ASSUME NEW l \in Labels, l \notin excused' PROVE Orderly(l)'
  BY DEF OnceInv
<1>3. Orderly(l)
  BY <1>1 DEF OnceInv
<1>4. ~ Sending(i, l) /\ \A j \in Instance \ {i} : check'[j] = check[j]
  BY <1>1, <1>2 DEF Sending, Turn, AlertsTypeOK
<1>5. \A j \in Instance \ {i} : Sending(j, l)' <=> Sending(j, l)
  BY <1>4 DEF Sending
<1>6. CASE ~ Sending(i, l)'
  BY <1>2, <1>3, <1>4, <1>5, <1>6, OrderlyStays
<1>7. CASE Sending(i, l)'
  <2>1. /\ check'[i] = Turned(i, "send", check[i].at, 1) /\ l = k
        /\ ~ WasRecentlyNotified(l) /\ \A j \in Instance \ {i} : ~ Sending(j, l)
    BY <1>1, <1>2, <1>7 DEF Sending, Turn, Turned, AlertsTypeOK
  <2>2. 1 \in DOMAIN Channels
    BY AlertAssumption
  <2>3. \A m \in DOMAIN Channels : Untold(l, m)
    <3>1. ~ Told(l, 1)
      BY <2>1 DEF WasRecentlyNotified, Told
    <3> QED
      BY <1>3, <1>4, <2>1, <2>2, <3>1 DEF Orderly, AllOrNone
  <2>4. \A m \in DOMAIN Channels : Untold(l, m)'
    BY <1>2, <2>3 DEF Untold
  <2>5. \A j \in Instance : Sending(j, l)' => j = i
    BY <1>5, <2>1
  <2>6. check'[i].channel = 1 /\ check'[i].pc = "send"
    BY <2>1 DEF Turned
  <2>7. \A m \in DOMAIN Channels : ~ (m < 1)
    BY AlertAssumption
  <2> QED
    BY <1>7, <2>2, <2>4, <2>5, <2>6, <2>7 DEF Orderly, OneSender, AllOrNone, InHand
<1> QED
  BY <1>6, <1>7

LEMMA OnceInvSend ==
  ASSUME AlertsInv, OnceInv, NEW i \in Instance, Send(i)
  PROVE  OnceInv'
<1> DEFINE k == check[i].channel
           a == check[i].at
<1>1. /\ check[i].pc = "send" /\ a \in DOMAIN Thresholds /\ k \in DOMAIN Channels
      /\ notices \in [Labels \X Channel -> Nat] /\ AlertsTypeOK
  BY AlertAssumption DEF Send, AlertsInv, AlertsTypeOK
<1>2. /\ notices' = [notices EXCEPT ![<<Thresholds[a], Channels[k]>>] = @ + 1]
      /\ check' = [check EXCEPT ![i] = Turned(i, "log", a, k)]
      /\ UNCHANGED <<noted, excused>>
  BY DEF Send
<1> SUFFICES ASSUME NEW l \in Labels, l \notin excused' PROVE Orderly(l)'
  BY DEF OnceInv
<1>3. Orderly(l)
  BY <1>2 DEF OnceInv
<1>4. /\ check'[i].pc = "log" /\ check'[i].at = a /\ check'[i].channel = k
      /\ \A j \in Instance \ {i} : check'[j] = check[j]
  BY <1>1, <1>2 DEF Turned, AlertsTypeOK
<1>5. \A j \in Instance : Sending(j, l)' <=> Sending(j, l)
  BY <1>1, <1>4 DEF Sending
<1>6. \A m \in DOMAIN Channels : <<l, Channels[m]>> \in DOMAIN notices
  BY <1>1 DEF Channel
<1>7. CASE l # Thresholds[a]
  <2>1. ~ Sending(i, l)
    BY <1>7 DEF Sending
  <2>2. \A m \in DOMAIN Channels : notices'[<<l, Channels[m]>>] = notices[<<l, Channels[m]>>]
    BY <1>2, <1>6, <1>7
  <2>3. \A j \in Instance : Sending(j, l) =>
          check'[j].channel = check[j].channel /\ check'[j].pc = check[j].pc
    BY <1>4, <2>1
  <2> QED
    BY <1>1, <1>2, <1>3, <1>5, <2>2, <2>3, OrderlyStays
<1>8. CASE l = Thresholds[a]
  <2>1. Sending(i, l)
    BY <1>1, <1>8 DEF Sending
  <2>2. /\ \A m \in DOMAIN Channels : m < k => Told(l, m)
        /\ \A m \in DOMAIN Channels : m > k => Untold(l, m)
        /\ Untold(l, k)
    BY <1>1, <1>3, <2>1 DEF Orderly, InHand
  <2>3. \A m \in DOMAIN Channels : m # k => Channels[m] # Channels[k]
    BY <1>1, AlertAssumption
  <2>4. /\ notices'[<<l, Channels[k]>>] = notices[<<l, Channels[k]>>] + 1
        /\ \A m \in DOMAIN Channels : m # k =>
             notices'[<<l, Channels[m]>>] = notices[<<l, Channels[m]>>]
    BY <1>1, <1>2, <1>6, <1>8, <2>3
  <2>5. /\ \A m \in DOMAIN Channels : m < k => Told(l, m)'
        /\ \A m \in DOMAIN Channels : m > k => Untold(l, m)'
        /\ notices'[<<l, Channels[k]>>] = 1
    <3>1. \A m \in DOMAIN Channels : m \in Int /\ k \in Int
      BY <1>1, AlertAssumption
    <3>2. \A m \in DOMAIN Channels : (m < k => m # k) /\ (m > k => m # k)
      BY <3>1
    <3> QED
      BY <1>2, <2>2, <2>4, <3>2 DEF Told, Untold
  <2>6. \A j \in Instance : Sending(j, l)' => j = i
    BY <1>3, <1>5, <2>1 DEF Orderly, OneSender
  <2> QED
    BY <1>4, <1>5, <2>1, <2>5, <2>6 DEF Orderly, OneSender, AllOrNone, InHand
<1> QED
  BY <1>7, <1>8

LEMMA OnceInvLog ==
  ASSUME AlertsInv, OnceInv, NEW i \in Instance, LogNotification(i)
  PROVE  OnceInv'
<1> DEFINE k == check[i].channel
           a == check[i].at
<1>1. /\ check[i].pc = "log" /\ a \in DOMAIN Thresholds /\ k \in DOMAIN Channels
      /\ AlertsTypeOK
  BY AlertAssumption DEF LogNotification, AlertsInv, AlertsTypeOK
<1>2. /\ noted' = noted \cup {<<Thresholds[a], Channels[k]>>}
      /\ UNCHANGED <<notices, excused>>
  BY DEF LogNotification
<1>3. \/ /\ k < Len(Channels)
         /\ check' = [check EXCEPT ![i] = Turned(i, "send", a, k + 1)]
      \/ /\ ~ (k < Len(Channels))
         /\ check' = [check EXCEPT ![i] = Turned(i, "next", a + 1, 1)]
  BY DEF LogNotification
<1> SUFFICES ASSUME NEW l \in Labels, l \notin excused' PROVE Orderly(l)'
  BY DEF OnceInv
<1>4. Orderly(l)
  BY <1>2 DEF OnceInv
<1>5. \A j \in Instance \ {i} : check'[j] = check[j]
  BY <1>1, <1>3 DEF AlertsTypeOK
<1>6. \A j \in Instance \ {i} : Sending(j, l)' <=> Sending(j, l)
  BY <1>5 DEF Sending
<1>7. CASE l # Thresholds[a]
  <2>1. ~ Sending(i, l) /\ ~ Sending(i, l)'
    BY <1>1, <1>3, <1>7 DEF Sending, Turned, AlertsTypeOK
  <2>2. \A m \in DOMAIN Channels : <<l, Channels[m]>> \in noted' <=> <<l, Channels[m]>> \in noted
    BY <1>2, <1>7
  <2> QED
    BY <1>1, <1>2, <1>4, <1>5, <1>6, <2>1, <2>2, OrderlyStays
<1>8. CASE l = Thresholds[a]
  <2>1. Sending(i, l)
    BY <1>1, <1>8 DEF Sending
  <2>2. /\ \A m \in DOMAIN Channels : m < k => Told(l, m)
        /\ \A m \in DOMAIN Channels : m > k => Untold(l, m)
        /\ notices[<<l, Channels[k]>>] = 1
    BY <1>1, <1>4, <2>1 DEF Orderly, InHand
  <2>3. \A m \in DOMAIN Channels : m # k => Channels[m] # Channels[k]
    BY <1>1, AlertAssumption
  <2>4. DOMAIN Channels = 1 .. Len(Channels) /\ Len(Channels) \in Nat
    BY AlertAssumption
  <2>5. /\ \A m \in DOMAIN Channels : m <= k => Told(l, m)'
        /\ \A m \in DOMAIN Channels : m > k => Untold(l, m)'
    <3>1. \A m \in DOMAIN Channels : (m <= k => m < k \/ m = k) /\ (m > k => m # k)
      BY <1>1, <2>4
    <3>2. \A m \in DOMAIN Channels : m # k =>
            (<<l, Channels[m]>> \in noted' <=> <<l, Channels[m]>> \in noted)
      BY <1>2, <1>8, <2>3
    <3>3. <<l, Channels[k]>> \in noted'
      BY <1>2, <1>8
    <3> QED
      BY <1>2, <2>2, <3>1, <3>2, <3>3 DEF Told, Untold
  <2>6. \A j \in Instance : Sending(j, l)' => j = i
    BY <1>4, <1>6, <2>1 DEF Orderly, OneSender
  <2>7. CASE k < Len(Channels)
    <3>1. /\ check'[i].pc = "send" /\ check'[i].at = a /\ check'[i].channel = k + 1
      BY <1>1, <1>3, <2>7 DEF Turned, AlertsTypeOK
    <3>2. Sending(i, l)'
      BY <1>8, <3>1 DEF Sending
    <3>3. /\ \A m \in DOMAIN Channels : m < k + 1 => m <= k
          /\ \A m \in DOMAIN Channels : m > k + 1 => m > k
          /\ k + 1 \in DOMAIN Channels /\ k + 1 > k
      BY <1>1, <2>4, <2>7
    <3> QED
      BY <2>5, <2>6, <3>1, <3>2, <3>3 DEF Orderly, OneSender, AllOrNone, InHand
  <2>8. CASE ~ (k < Len(Channels))
    <3>1. check'[i].pc = "next"
      BY <1>1, <1>3, <2>8 DEF Turned, AlertsTypeOK
    <3>2. \A j \in Instance : ~ Sending(j, l)'
      BY <2>6, <3>1 DEF Sending
    <3>3. \A m \in DOMAIN Channels : m <= k
      BY <1>1, <2>4, <2>8
    <3> QED
      BY <2>5, <3>2, <3>3 DEF Orderly, OneSender, AllOrNone, InHand
  <2> QED
    BY <2>7, <2>8
<1> QED
  BY <1>7, <1>8

\* The window's end takes the label's rows and notices together.
LEMMA OnceInvWindow ==
  ASSUME AlertsInv, OnceInv, NEW w \in Labels, WindowEnds(w)
  PROVE  OnceInv'
<1>1. /\ \A i \in Instance : ~ Sending(i, w)
      /\ noted' = {row \in noted : row[1] # w}
      /\ notices' = [p \in DOMAIN notices |-> IF p[1] = w THEN 0 ELSE notices[p]]
      /\ excused' = excused \ {w} /\ check' = check
  BY DEF WindowEnds
<1>2. AlertsTypeOK /\ DOMAIN notices = Labels \X Channel
  BY DEF AlertsInv, AlertsTypeOK
<1> SUFFICES ASSUME NEW l \in Labels, l \notin excused' PROVE Orderly(l)'
  BY DEF OnceInv
<1>3. \A j \in Instance : Sending(j, l)' <=> Sending(j, l)
  BY <1>1 DEF Sending
<1>4. \A m \in DOMAIN Channels : <<l, Channels[m]>> \in DOMAIN notices /\ <<l, Channels[m]>>[1] = l
  BY <1>2 DEF Channel
<1>5. CASE l = w
  <2>1. \A m \in DOMAIN Channels : Untold(l, m)'
    BY <1>1, <1>4, <1>5 DEF Untold
  <2> QED
    BY <1>1, <1>3, <1>5, <2>1 DEF Orderly, OneSender, AllOrNone, InHand
<1>6. CASE l # w
  <2>1. Orderly(l)
    BY <1>1, <1>6 DEF OnceInv
  <2>2. \A m \in DOMAIN Channels :
          /\ notices'[<<l, Channels[m]>>] = notices[<<l, Channels[m]>>]
          /\ <<l, Channels[m]>> \in noted' <=> <<l, Channels[m]>> \in noted
    BY <1>1, <1>4, <1>6
  <2> QED
    BY <1>1, <1>2, <1>3, <2>1, <2>2, OrderlyStays
<1> QED
  BY <1>5, <1>6

\* A check that begins or ends its loop has no label in hand.
LEMMA OnceInvLoop ==
  ASSUME AlertsInv, OnceInv, NEW i \in Instance, Start(i) \/ Finish(i)
  PROVE  OnceInv'
<1>1. /\ check[i].pc \in {"idle", "next"} /\ check'[i].pc \in {"idle", "next"}
      /\ \A j \in Instance \ {i} : check'[j] = check[j]
  BY DEF Start, Finish, NoCheck, AlertsInv, AlertsTypeOK
<1>2. UNCHANGED <<noted, notices, excused>> /\ AlertsTypeOK
  BY DEF Start, Finish, AlertsInv
<1> SUFFICES ASSUME NEW l \in Labels, l \notin excused' PROVE Orderly(l)'
  BY DEF OnceInv
<1>3. Orderly(l)
  BY <1>2 DEF OnceInv
<1>4. ~ Sending(i, l) /\ ~ Sending(i, l)' /\ \A j \in Instance \ {i} : Sending(j, l)' <=> Sending(j, l)
  BY <1>1 DEF Sending
<1> QED
  BY <1>1, <1>2, <1>3, <1>4, OrderlyStays

LEMMA StepOnceInv ==
  ASSUME AlertsInv, OnceInv,
         StepAlerts \/ UNCHANGED alerts \/ \E i \in Instance : BootAlerts(i) \/ EndAlerts(i)
  PROVE  OnceInv'
<1>1. CASE UNCHANGED <<check, noted, notices, excused>>
  <2> SUFFICES ASSUME NEW l \in Labels, l \notin excused' PROVE Orderly(l)'
    BY DEF OnceInv
  <2>1. Orderly(l) /\ AlertsTypeOK /\ \A i \in Instance : Sending(i, l)' <=> Sending(i, l)
    BY <1>1 DEF OnceInv, AlertsInv, Sending
  <2> QED
    BY <1>1, <2>1, OrderlyStays
<1>2. ASSUME NEW i \in Instance, QueryFails(i) \/ EndAlerts(i) PROVE OnceInv'
  BY <1>2, OnceInvLeaves DEF QueryFails, EndAlerts
<1>3. ASSUME NEW i \in Instance, TickAlerts(i) \/ BootAlerts(i) PROVE OnceInv'
  BY <1>1, <1>3 DEF TickAlerts, BootAlerts
<1>4. CASE SwitchOff \/ \E l \in Labels : Spend(l)
  BY <1>1, <1>4 DEF SwitchOff, Spend
<1> QED
  BY <1>1, <1>2, <1>3, <1>4, OnceInvConsider, OnceInvSend, OnceInvLog, OnceInvWindow, OnceInvLoop
     DEF StepAlerts, alerts

-----------------------------------------------------------------------------
(* The jobs together *)

JobsInv == ProcessTypeOK /\ SchemaInv /\ UsageInv /\ AlertsInv /\ OnceInv

LEMMA JobsInvInit == Init => JobsInv
<1> SUFFICES ASSUME Init PROVE JobsInv
  OBVIOUS
<1>1. ProcessTypeOK
  BY ProcessAssumption DEF Init, InitProcess, ProcessTypeOK
<1> QED
  BY <1>1, SchemaInvInit, UsageInvInit, AlertsInvInit, OnceInvInit DEF Init, JobsInv

LEMMA JobsInvStep == JobsInv /\ [Next]_vars => JobsInv'
<1> SUFFICES ASSUME JobsInv, [Next]_vars PROVE JobsInv'
  OBVIOUS
<1>1. ProcessTypeOK'
  <2> USE ProcessAssumption DEF JobsInv, ProcessTypeOK
  <2>1. CASE UNCHANGED process
    BY <2>1 DEF process
  <2>2. ASSUME NEW i \in Instance, BootProcess(i) \/ StopProcess(i) \/ EndProcess(i)
        PROVE  ProcessTypeOK'
    BY <2>2 DEF BootProcess, StopProcess, EndProcess
  <2> QED
    BY <2>1, <2>2 DEF Next, Step, Boot, Stop, End, vars
<1>2. SchemaInv'
  BY StepSchemaInv DEF JobsInv, Next, Step, Boot, Stop, End, Job, vars
<1>3. UsageInv'
  BY StepUsageInv DEF JobsInv, Next, Step, Boot, Stop, End, Job, vars
<1>4. AlertsInv'
  BY StepAlertsInv DEF JobsInv, Next, Step, Boot, Stop, End, Job, vars
<1>5. OnceInv'
  BY StepOnceInv DEF JobsInv, Next, Step, Boot, Stop, End, Job, vars
<1> QED
  BY <1>1, <1>2, <1>3, <1>4, <1>5 DEF JobsInv

\* However many processes boot at once, fail, stop or die, and however many
\* migrations there are, what has been applied is a prefix of the list.  (migrate)
THEOREM SchemaAlwaysInOrder == Spec => []SchemaInOrder
<1>1. JobsInv => SchemaInOrder
  BY UsageInvSafe DEF JobsInv, SchemaInv, AlertsInv, SchemaInOrder, TypeOK
<1> QED
  BY <1>1, JobsInvInit, JobsInvStep, PTL DEF Spec

\* For any processes, requests and hours: an event is billed at most once unless
\* the lock was lost under its owner, and a logged window has billed all its
\* events but the late.  (aggregateUsage)
THEOREM UsageAlwaysBilled == Spec => []UsageBilled
<1>1. JobsInv => UsageBilled
  BY UsageInvSafe DEF JobsInv
<1> QED
  BY <1>1, JobsInvInit, JobsInvStep, PTL DEF Spec

\* For any processes, thresholds and channels: each channel is told once in a
\* window and all are told together, but for the excused.  (checkAndSendBudgetAlerts)
THEOREM AlwaysAlertedOnce == Spec => []AlertedOnce
<1>1. JobsInv => AlertedOnce
  <2> SUFFICES ASSUME JobsInv, NEW l \in Labels \ excused
               PROVE  /\ \A c \in Channel : notices[<<l, c>>] <= 1
                      /\ (\A i \in Instance : ~ Sending(i, l)) =>
                           Cardinality({c \in Channel : notices[<<l, c>>] = 1}) \in {0, Cardinality(Channel)}
    BY DEF AlertedOnce
  <2>1. Orderly(l) /\ AlertsTypeOK
    BY DEF JobsInv, OnceInv, AlertsInv
  <2>2. ASSUME NEW m \in DOMAIN Channels PROVE notices[<<l, Channels[m]>>] \in {0, 1}
    <3>1. CASE \A i \in Instance : ~ Sending(i, l)
      BY <2>1, <2>2, <3>1 DEF Orderly, AllOrNone, Told, Untold
    <3>2. ASSUME NEW i \in Instance, Sending(i, l) PROVE notices[<<l, Channels[m]>>] \in {0, 1}
      <4>1. check[i].channel \in DOMAIN Channels /\ check[i].pc \in {"send", "log"}
        BY <2>1, <3>2, AlertAssumption DEF AlertsTypeOK, Sending
      <4>2. m < check[i].channel \/ m = check[i].channel \/ m > check[i].channel
        BY <2>2, <4>1, AlertAssumption
      <4> QED
        BY <2>1, <2>2, <3>2, <4>1, <4>2 DEF Orderly, InHand, Told, Untold
    <3> QED
      BY <3>1, <3>2
  <2>3. \A c \in Channel : notices[<<l, c>>] <= 1
    BY <2>2 DEF Channel
  <2>4. ASSUME \A i \in Instance : ~ Sending(i, l)
        PROVE  Cardinality({c \in Channel : notices[<<l, c>>] = 1}) \in {0, Cardinality(Channel)}
    <3> DEFINE told == {c \in Channel : notices[<<l, c>>] = 1}
    <3>1. told = {} \/ told = Channel
      BY <2>1, <2>4 DEF Orderly, AllOrNone, Told, Untold, Channel
    <3> HIDE DEF told
    <3>2. Cardinality({}) = 0
      BY FS_EmptySet
    <3>3. Cardinality(told) \in {0, Cardinality(Channel)}
      BY <3>1, <3>2
    <3> QED
      BY <3>3 DEF told
  <2> QED
    BY <2>3, <2>4
<1> QED
  BY <1>1, JobsInvInit, JobsInvStep, PTL DEF Spec

-----------------------------------------------------------------------------
(* console-ui: the session and the calls of a tab *)

Jwt == Token \cup {"none", "empty", "undefined"}
Sendable == Token \cup {"none", "undefined"}

Call ==
  [op : {"none", "over", "list"} \cup Changes \cup Public, row : Row \cup {"none"},
   token : Sendable, net : {"idle", "sent", "answered", "done"},
   ui : {"idle", "pending", "unknown", "ok", "refused", "failed", "over"},
   tries : Nat, status : Nat, json : BOOLEAN,
   login : [user : User \cup {"none"}, jwt : Jwt],
   shown : User \cup {"none"}, ran : Nat, audit : User \cup {"none", "null"}]

States == {"none", "active", "importing", "revoked", "gone", "scaled", "rolling_back"}
Tables == [Row -> [owner : User \cup {"none"}, state : States]]

Types ==
  /\ resource \in Resources /\ table \in Tables
  /\ issued \in [Token -> User \cup {"none"}] /\ age \in [Token -> {"fresh", "ending", "expired"}]
  /\ gone \subseteq User
  /\ store \in [user : User \cup {"none"}, jwt : Jwt]
  /\ tab \in [user : User \cup {"none"}, jwt : Token \cup {"none", "empty"}]
  /\ cookie \in Token \cup {"none"}
  /\ req \in [Request -> Call]
  /\ probes \subseteq [jwt : Token, token : Sendable]

\* A session the tab or the browser knows of is one the server made for that
\* user, its token is the cookie's, and a probe asks about the session it shows.
Sessions ==
  /\ tab.jwt \in Token => tab.user = issued[tab.jwt] /\ cookie = tab.jwt
                          /\ store.jwt \in {tab.jwt, "none"}
  /\ store.jwt \in Token => store.user = issued[store.jwt] /\ cookie = store.jwt
  /\ cookie \in Token => issued[cookie] # "none"
  /\ \A p \in probes :
       /\ issued[p.jwt] # "none"
       /\ p.jwt = tab.jwt /\ p.token \in Token => p.token = tab.jwt

\* The answer to a login brings a token, and nobody has it yet.
Brings(c) == c.op = "login" /\ c.net = "answered" /\ c.login.jwt \in Token

Fresh(c) ==
  Brings(c) => /\ issued[c.login.jwt] = c.login.user
               /\ c.login.jwt # cookie /\ \A p \in probes : p.jwt # c.login.jwt

Logins ==
  /\ \A r \in Request : Fresh(req[r])
  /\ \A r, s \in Request :
       Brings(req[r]) /\ Brings(req[s]) /\ req[s].login.jwt = req[r].login.jwt => r = s

\* The pages offer what the routes of their table know.
Offered(op) ==
  /\ op \in {"create", "delete"} => resource # "deployments"
  /\ op \in {"scale", "rollback"} => resource = "deployments"

\* How far a call is, and what was done for it by then.
Progress(c) ==
  /\ c.tries <= Retries /\ c.ran <= 1
  /\ c.op \in {"none", "over"} => c.net = "idle" /\ c.ui # "pending"
  /\ c.ui \in {"ok", "refused"} => c.op = "over"
  /\ c.ran > 0 => c.op \in Changes \cup {"over"}
  /\ c.op \in Changes /\ c.net = "sent" => c.ran = 0
  /\ c.op \in Changes /\ c.net = "answered" =>
       /\ c.status < 300 /\ c.json => c.ran = 1
       /\ c.status \in 400 .. 499 => c.ran = 0
  /\ c.ui = "ok" => c.ran = 1
  /\ c.ui = "refused" => c.ran = 0

\* Whose call it is.
Origin(c) ==
  /\ c.op = "create" => c.row = "none"
  /\ c.op \in Changes \ {"create"} => c.row \in Row
  /\ c.op \in Changes => Offered(c.op)
  /\ c.op \in Changes /\ c.shown # "none" => c.token \in Token /\ issued[c.token] = c.shown
  /\ c.op \notin Public /\ c.net = "answered" /\ c.status = 401 /\ c.token \in Token =>
       issued[c.token] = "none" \/ age[c.token] = "expired"
  /\ c.token \in Token => issued[c.token] # "none"
  /\ c.op = "login" /\ c.net = "sent" => c.login.user \in User /\ c.login.jwt = "none"
  /\ c.op = "login" /\ c.net = "answered" =>
       \/ c.status >= 400 /\ c.login.jwt = "none"
       \/ c.login.user \in User /\ c.login.jwt \in Token \cup {"empty"}

\* Who made a change, and to which row.
Made(c) ==
  c.op # "over" /\ c.ran > 0 =>
    /\ c.token \in Token
    /\ RoleLevel[RoleOf[issued[c.token]]] >= RoleLevel.developer
    /\ c.row # "none" => table[c.row].state # "none" /\ (Shared \/ table[c.row].owner = issued[c.token])
    /\ c.audit \in {"none", issued[c.token]}

CallOK(c) == Progress(c) /\ Origin(c) /\ Made(c)
Calls == \A r \in Request : CallOK(req[r])

SessionInv == Types /\ Sessions /\ Logins /\ Calls

-----------------------------------------------------------------------------
(* middleware/rbac.ts *)

\* The third part of a path is the first after /v1/admin.
LEMMA AfterAdmin ==
  ASSUME NEW S, NEW rest \in Seq(S), Len(rest) >= 1, "v1" \in S, "admin" \in S
  PROVE  LET path == <<"v1", "admin">> \o rest
         IN  path \in Seq(S) /\ Len(path) = Len(rest) + 2 /\ path[3] = rest[1]
<1>1. <<"v1", "admin">> \in Seq(S) /\ Len(<<"v1", "admin">>) = 2
  OBVIOUS
<1> QED
  BY <1>1, ConcatProperties

\* What the pages change takes a developer at least.
LEMMA ChangesTakeDeveloper ==
  ASSUME resource \in Resources, NEW op \in Changes, NEW role \in DOMAIN RoleLevel,
         Permitted(role, op)
  PROVE  RoleLevel[role] >= RoleLevel.developer
<1> DEFINE path == Path(op)
           rules == Matching(Method(op), path)
           Parts == {"v1", "admin", "models", "registry", "id", resource}
<1>1. path \in Seq(Parts) /\ Len(path) >= 3 /\ path[3] = resource
  <2>1. CASE resource = "models"
    <3>1. path = <<"v1", "admin">> \o <<"models", "registry", "id">>
      BY <2>1 DEF Path, Changes
    <3>2. <<"models", "registry", "id">> \in Seq(Parts)
      OBVIOUS
    <3> HIDE DEF path
    <3> QED
      BY <3>1, <3>2, <2>1, AfterAdmin
  <2>2. CASE resource # "models"
    <3>1. path = <<"v1", "admin">> \o <<resource, "id">>
      BY <2>2 DEF Path, Changes
    <3>2. <<resource, "id">> \in Seq(Parts)
      OBVIOUS
    <3> HIDE DEF path
    <3> QED
      BY <3>1, <3>2, AfterAdmin
  <2> QED
    BY <2>1, <2>2
<1>2. Method(op) \in {"POST", "DELETE"}
  BY DEF Method, Changes
<1>3. ASSUME NEW rule \in rules PROVE rule.role \in {"developer", "admin"}
  <2>1. rule \in PERMISSIONS /\ IsPrefix(rule.path, path)
        /\ (rule.methods = {} \/ Method(op) \in rule.methods)
    BY DEF Matching
  <2>2. rule.role # "readonly"
    <3> SUFFICES ASSUME rule.role = "readonly" PROVE FALSE
      OBVIOUS
    <3>1. rule.methods = {"GET"}
      BY <2>1 DEF PERMISSIONS, Rules
    <3> QED
      BY <3>1, <2>1, <1>2
  <2>3. rule.role # "billing"
    <3> SUFFICES ASSUME rule.role = "billing" PROVE FALSE
      OBVIOUS
    <3>1. rule.path \in {<<"v1", "admin">> \o <<"billing">>, <<"v1", "admin">> \o <<"cost-analytics">>}
      BY <2>1 DEF PERMISSIONS, Rules
    <3>2. /\ Len(rule.path) = 3 /\ rule.path[3] \in {"billing", "cost-analytics"}
          /\ rule.path \in Seq({"v1", "admin", "billing", "cost-analytics"})
      <4> DEFINE Words == {"v1", "admin", "billing", "cost-analytics"}
      <4>1. <<"billing">> \in Seq(Words) /\ <<"cost-analytics">> \in Seq(Words)
        OBVIOUS
      <4>2. Len(<<"billing">>) = 1 /\ Len(<<"cost-analytics">>) = 1
        OBVIOUS
      <4>3. PICK rest \in Seq(Words) :
              /\ rule.path = <<"v1", "admin">> \o rest /\ Len(rest) = 1
              /\ rest[1] \in {"billing", "cost-analytics"}
        BY <4>1, <4>2, <3>1
      <4>4. "v1" \in Words /\ "admin" \in Words /\ Len(rest) >= 1
        BY <4>3
      <4> HIDE DEF Words
      <4>5. rule.path \in Seq(Words) /\ Len(rule.path) = Len(rest) + 2 /\ rule.path[3] = rest[1]
        BY <4>3, <4>4, AfterAdmin
      <4> QED
        BY <4>3, <4>5 DEF Words
    <3>3. /\ SubSeq(path, 1, 3)[3] = path[3] 
          /\ SubSeq(rule.path, 1, 3)[3] = rule.path[3]
      <4> HIDE DEF path
      <4> QED
        BY <1>1, <3>2
    <3>4. rule.path[3] = resource
      BY <3>2, <3>3, <2>1, <1>1 DEF IsPrefix
    <3> QED
      BY <3>2, <3>4 DEF Resources
  <2> QED
    BY <2>1, <2>2, <2>3 DEF PERMISSIONS, Rules
<1>4. RequiredRole(Method(op), path) \in {"developer"} \cup {rule.role : rule \in rules}
  BY DEF RequiredRole
<1>5. RoleLevel[RequiredRole(Method(op), path)] \in Int /\ RoleLevel[RequiredRole(Method(op), path)] >= 40
  BY <1>3, <1>4 DEF RoleLevel
<1>6. RoleLevel[role] >= RoleLevel[RequiredRole(Method(op), path)] /\ RoleLevel[role] \in Int
  BY DEF Permitted, RoleLevel
<1> QED
  <2> DEFINE needed == RoleLevel[RequiredRole(Method(op), path)]
             level == RoleLevel[role]
  <2> HIDE DEF needed, level
  <2>1. level >= needed /\ needed >= 40 /\ level \in Int /\ needed \in Int
    BY <1>5, <1>6 DEF needed, level
  <2>2. level >= 40
    BY <2>1
  <2> QED
    BY <2>2 DEF level, RoleLevel

-----------------------------------------------------------------------------
(* The routes *)

\* A row that was once written stays its owner's.
Kept(t) ==
  /\ t \in Tables
  /\ \A x \in Row : table[x].state # "none" => t[x].state # "none" /\ t[x].owner = table[x].owner

\* What an answer says of the change is so.
RouteOK(op, row, user, a) ==
  /\ a \in [status : Nat \ {401}, json : BOOLEAN, table : Tables, changes : {0, 1}] /\ Kept(a.table)
  /\ op \in Changes /\ a.status < 300 /\ a.json => a.changes = 1
  /\ op = "list" \/ a.status \in 400 .. 499 => a.changes = 0
  /\ a.changes = 1 /\ op # "create" => Owned(row, user)

LEMMA RefusalOK ==
  ASSUME table \in Tables, NEW op, NEW row, NEW user, NEW status \in Nat \ {401},
         op = "list" \/ status >= 300
  PROVE  RouteOK(op, row, user, Refusal(status))
BY DEF RouteOK, Refusal, Kept, Changes

LEMMA InsertOK ==
  ASSUME table \in Tables, NEW row, NEW user \in User, NEW state \in States, NEW a \in Insert(user, state)
  PROVE  RouteOK("create", row, user, a)
<1>1. PICK x \in Row : /\ table[x].state = "none"
                       /\ a = [Refusal(201) EXCEPT
                                 !.table = [table EXCEPT ![x] = [owner |-> user, state |-> state]],
                                 !.changes = 1]
  BY DEF Insert
<1> DEFINE t == [table EXCEPT ![x] = [owner |-> user, state |-> state]]
<1>2. a = [status |-> 201, json |-> TRUE, table |-> t, changes |-> 1]
  BY <1>1 DEF Refusal
<1>3. Kept(t)
  BY <1>1 DEF Kept, Tables
<1> HIDE DEF t
<1>4. t \in Tables
  BY <1>3 DEF Kept
<1> QED
  BY <1>2, <1>3, <1>4 DEF RouteOK

LEMMA WriteOK ==
  ASSUME table \in Tables, NEW op, NEW row \in Row, NEW user, NEW state \in States \ {"none"},
         NEW status \in 200 .. 299, NEW json \in BOOLEAN, op # "list",
         NEW a \in Write(row, user, state, status, json)
  PROVE  RouteOK(op, row, user, a)
<1>1. CASE Owned(row, user)
  <2> DEFINE t == [table EXCEPT ![row].state = state]
  <2>1. a = [status |-> status, json |-> json, table |-> t, changes |-> 1]
    <3>1. a = [Refusal(status) EXCEPT !.json = json, !.table = t, !.changes = 1]
      BY <1>1 DEF Write
    <3> HIDE DEF t
    <3> QED
      BY <3>1 DEF Refusal
  <2>2. Kept(t) /\ t \in Tables
    BY DEF Kept, Tables
  <2> HIDE DEF t
  <2> QED
    BY <1>1, <2>1, <2>2 DEF RouteOK
<1>2. CASE ~Owned(row, user)
  <2>1. a = [status |-> 404, json |-> json, table |-> table, changes |-> 0]
    BY <1>2 DEF Write, Refusal
  <2> QED
    BY <2>1 DEF RouteOK, Kept
<1> QED
  BY <1>1, <1>2

\* What the routes of the pages answer, if the query does not fail.
LEMMA RoutesOK ==
  ASSUME resource \in Resources, table \in Tables, NEW user \in User,
         NEW op \in Changes \cup {"list"}, op \in Changes => Offered(op), NEW row,
         op \in Changes \ {"create"} => row \in Row,
         NEW a \in Route(op, row, user)
  PROVE  RouteOK(op, row, user, a)
<1>1. CASE op = "list"
  <2>1. a \in Select(row, user)
    BY <1>1 DEF Route, ApiKeys, Endpoints, BatchJobs, Deployments, ModelRegistry, Resources
  <2>2. a \in {Refusal(200), Refusal(404)}
    BY <2>1 DEF Select
  <2> QED
    BY <1>1, <2>2, RefusalOK
<1>2. CASE op = "create"
  <2>1. a = Refusal(400) \/ \E state \in {"active", "importing"} : a \in Insert(user, state)
    BY <1>2 DEF Route, ApiKeys, Endpoints, BatchJobs, Deployments, ModelRegistry, Resources,
         Offered, Changes
  <2> QED
    BY <1>2, <2>1, RefusalOK, InsertOK DEF States
<1>3. CASE op = "delete"
  <2>1. \/ a \in Write(row, user, "revoked", 200, TRUE)
        \/ a \in Write(row, user, "gone", 204, FALSE)
        \/ a \in Write(row, user, "gone", 200, TRUE)
    BY <1>3 DEF Route, ApiKeys, Endpoints, BatchJobs, Deployments, ModelRegistry, Resources,
         Offered, Changes
  <2>2. row \in Row /\ op # "list" /\ "revoked" \in States \ {"none"} /\ "gone" \in States \ {"none"}
    BY <1>3 DEF States, Changes
  <2>3. PICK state \in States \ {"none"}, status \in 200 .. 299, json \in BOOLEAN :
          a \in Write(row, user, state, status, json)
    <3>1. 200 \in 200 .. 299 /\ 204 \in 200 .. 299 /\ TRUE \in BOOLEAN /\ FALSE \in BOOLEAN
      OBVIOUS
    <3> QED
      BY <2>1, <2>2, <3>1, Zenon
  <2> QED
    BY <2>2, <2>3, WriteOK
<1>4. CASE op \in {"scale", "rollback"}
  <2>1. \/ a = Refusal(400)
        \/ a \in Write(row, user, "scaled", 200, TRUE)
        \/ a \in Write(row, user, "rolling_back", 200, TRUE)
    BY <1>4 DEF Route, ApiKeys, Endpoints, BatchJobs, Deployments, ModelRegistry, Offered, Changes
  <2>2. row \in Row /\ op # "list"
        /\ "scaled" \in States \ {"none"} /\ "rolling_back" \in States \ {"none"}
    BY <1>4 DEF States, Changes
  <2>3. CASE a = Refusal(400)
    BY <2>3, RefusalOK
  <2>4. CASE a # Refusal(400)
    <3>1. PICK state \in States \ {"none"}, status \in 200 .. 299, json \in BOOLEAN :
            a \in Write(row, user, state, status, json)
      <4>1. 200 \in 200 .. 299 /\ TRUE \in BOOLEAN
        OBVIOUS
      <4> QED
        BY <2>1, <2>2, <2>4, <4>1, Zenon
    <3> QED
      BY <2>2, <3>1, WriteOK
  <2> QED
    BY <2>3, <2>4
<1> QED
  BY <1>1, <1>2, <1>3, <1>4 DEF Changes

\* What a query that may fail answers.
LEMMA FailingAnswers ==
  ASSUME NEW answers, NEW a \in OrFails(answers)
  PROVE  \/ a = Refusal(500)
         \/ \E b \in answers : a = b \/ a = [b EXCEPT !.status = 500, !.json = TRUE]
<1>1. \/ a \in answers \/ a \in {Refusal(500)}
      \/ a \in {[b EXCEPT !.status = 500, !.json = TRUE] : b \in answers}
  BY DEF OrFails
<1>2. CASE a \in answers
  BY <1>2
<1>3. CASE a \in {[b EXCEPT !.status = 500, !.json = TRUE] : b \in answers}
  <2>1. PICK b \in answers : a = [b EXCEPT !.status = 500, !.json = TRUE]
    BY <1>3
  <2> QED
    BY <2>1
<1>4. CASE a \in {Refusal(500)}
  BY <1>4
<1> QED
  BY <1>1, <1>2, <1>3, <1>4

AnswerOK(op, row, token, a) ==
  /\ a.status \in Nat /\ a.json \in BOOLEAN /\ a.changes \in {0, 1} /\ Kept(a.table)
  /\ op \in Changes /\ a.status < 300 /\ a.json => a.changes = 1
  /\ op = "list" \/ a.status \in 400 .. 499 => a.changes = 0
  /\ a.status = 401 => ~Verified(token)
  /\ a.changes = 1 =>
       /\ Verified(token) /\ RoleLevel[RoleOf[issued[token]]] >= RoleLevel.developer
       /\ op # "create" => Owned(row, issued[token])

\* A change is made for a session of a user who may make it.
LEMMA AnswersOK ==
  ASSUME Types, NEW op \in Changes \cup {"list"}, op \in Changes => Offered(op),
         NEW row, op \in Changes \ {"create"} => row \in Row,
         NEW token, NEW a \in Answers(op, row, token)
  PROVE  AnswerOK(op, row, token, a)
<1> DEFINE user == issued[token]
<1>1. CASE ~Verified(token) \/ ~Permitted(RoleOf[user], op)
  <2>1. (a = Refusal(401) /\ ~Verified(token)) \/ a = Refusal(403)
    BY <1>1 DEF Answers
  <2>2. PICK status \in {401, 403} :
          a = [status |-> status, json |-> TRUE, table |-> table, changes |-> 0]
    BY <2>1 DEF Refusal
  <2>3. a.status = 401 => ~Verified(token)
    BY <2>1 DEF Refusal
  <2> QED
    BY <2>2, <2>3 DEF AnswerOK, Kept, Types
<1>2. CASE Verified(token) /\ Permitted(RoleOf[user], op)
  <2>1. a \in OrFails(Route(op, row, user))
    BY <1>2 DEF Answers
  <2>2. user \in User /\ RoleOf[user] \in DOMAIN RoleLevel
    BY <1>2, SessionAssumption DEF Verified, Types
  <2>3. op \in Changes => RoleLevel[RoleOf[user]] >= RoleLevel.developer
    BY <1>2, <2>2, ChangesTakeDeveloper DEF Types
  <2>4. CASE a = Refusal(500)
    BY <2>4 DEF AnswerOK, Kept, Types, Refusal
  <2>5. CASE \E b \in Route(op, row, user) : a = b \/ a = [b EXCEPT !.status = 500, !.json = TRUE]
    <3>1. PICK b \in Route(op, row, user) : a = b \/ a = [b EXCEPT !.status = 500, !.json = TRUE]
      BY <2>5
    <3>2. RouteOK(op, row, user, b)
      BY <2>2, <3>1, RoutesOK DEF Types
    <3> HIDE DEF user
    <3>3. CASE a = [b EXCEPT !.status = 500, !.json = TRUE]
      <4>1. a.status = 500 /\ a.json = TRUE /\ a.table = b.table /\ a.changes = b.changes
        <5>1. b \in [status : Nat \ {401}, json : BOOLEAN, table : Tables, changes : {0, 1}]
          BY <3>2 DEF RouteOK
        <5> QED
          BY <3>3, <5>1
      <4>2. /\ Kept(b.table) /\ b.changes \in {0, 1}
            /\ op = "list" => b.changes = 0
            /\ b.changes = 1 /\ op # "create" => Owned(row, user)
        BY <3>2 DEF RouteOK
      <4> QED
        <5>1. a.changes = 1 => Verified(token) /\ RoleLevel[RoleOf[issued[token]]] >= RoleLevel.developer
          BY <1>2, <2>3, <4>1, <4>2 DEF user
        <5>2. a.changes = 1 /\ op # "create" => Owned(row, issued[token])
          BY <4>1, <4>2 DEF user
        <5>3. /\ a.status \in Nat /\ a.status \notin 400 .. 499 /\ a.status # 401 /\ ~(a.status < 300)
              /\ a.changes \in {0, 1} /\ (op = "list" => a.changes = 0)
          <6>1. 500 \in Nat /\ 500 \notin 400 .. 499 /\ 500 # 401 /\ ~(500 < 300)
            OBVIOUS
          <6> QED
            BY <4>1, <4>2, <6>1
        <5>4. a.json \in BOOLEAN
          BY <4>1, Zenon
        <5>5. Kept(a.table)
          BY <4>1, <4>2
        <5> QED
          BY <5>1, <5>2, <5>3, <5>4, <5>5 DEF AnswerOK
    <3>4. CASE a = b
      BY <1>2, <2>3, <3>2, <3>4 DEF RouteOK, AnswerOK, user
    <3> QED
      BY <3>1, <3>3, <3>4
  <2>6. \/ a = Refusal(500)
        \/ \E b \in Route(op, row, user) : a = b \/ a = [b EXCEPT !.status = 500, !.json = TRUE]
    BY <2>1, FailingAnswers
  <2> QED
    BY <2>4, <2>5, <2>6
<1> QED
  BY <1>1, <1>2

-----------------------------------------------------------------------------
(* What a step leaves alone *)

ServerKept ==
  /\ resource' = resource /\ Kept(table')
  /\ \A t \in Token : /\ issued[t] # "none" => issued'[t] = issued[t]
                      /\ age[t] = "expired" => age'[t] = "expired"

LEMMA SameServer ==
  ASSUME Types, UNCHANGED api
  PROVE  ServerKept
BY DEF ServerKept, Kept, Types, api

LEMMA CallKept ==
  ASSUME Types, ServerKept, NEW c \in Call, CallOK(c)
  PROVE  CallOK(c)'
<1>1. Progress(c)'
  BY DEF CallOK, Progress
<1>2. Origin(c)'
  BY DEF CallOK, Origin, Offered, ServerKept, Call
<1>3. Made(c)'
  <2> SUFFICES ASSUME c.op # "over", c.ran > 0
               PROVE  Made(c)'
    BY DEF Made
  <2>1. /\ c.token \in Token /\ issued'[c.token] = issued[c.token]
        /\ RoleLevel[RoleOf[issued[c.token]]] >= RoleLevel.developer
        /\ c.audit \in {"none", issued[c.token]}
    BY DEF CallOK, Origin, Made, ServerKept
  <2>2. ASSUME c.row # "none"
        PROVE  table'[c.row].state # "none" /\ (Shared' \/ table'[c.row].owner = issued'[c.token])
    BY <2>1, <2>2 DEF CallOK, Made, ServerKept, Kept, Shared, Call
  <2> QED
    BY <2>1, <2>2 DEF Made
<1> QED
  BY <1>1, <1>2, <1>3 DEF CallOK

LEMMA CallsKept ==
  ASSUME Types, Calls, ServerKept,
         \A s \in Request : req'[s] = req[s] \/ \E c \in Call : req'[s] = c /\ CallOK(c)'
  PROVE  Calls'
<1> SUFFICES ASSUME NEW s \in Request PROVE CallOK(req[s])'
  BY DEF Calls
<1>1. PICK c \in Call : req'[s] = c /\ CallOK(c)'
  <2>1. CASE req'[s] = req[s]
    <3>1. PICK c \in Call : c = req[s]
      BY DEF Types
    <3>2. CallOK(c)
      BY <3>1 DEF Calls
    <3> QED
      BY <2>1, <3>1, <3>2, CallKept
  <2> QED
    BY <2>1
<1> QED
  BY <1>1 DEF CallOK, Progress, Origin, Made, Offered, Shared

LEMMA BringsForUser ==
  ASSUME Types, Calls, NEW s \in Request, Brings(req[s])
  PROVE  req[s].login.user \in User
BY SessionAssumption DEF Calls, CallOK, Origin, Brings

LEMMA LoginsKept ==
  ASSUME Types, Calls, Logins, ServerKept, cookie' = cookie,
         \A p \in probes' : p.jwt = cookie \/ \E q \in probes : q.jwt = p.jwt,
         \A s \in Request : req'[s] = req[s] \/ ~Brings(req'[s])
  PROVE  Logins'
<1>1. ASSUME NEW s \in Request, Brings(req'[s])
      PROVE  req'[s] = req[s] /\ Brings(req[s])
  BY <1>1
<1>2. ASSUME NEW s \in Request, Brings(req'[s])
      PROVE  /\ issued'[req'[s].login.jwt] = req'[s].login.user
             /\ req'[s].login.jwt # cookie' /\ \A p \in probes' : p.jwt # req'[s].login.jwt
  <2>1. req'[s] = req[s] /\ Brings(req[s]) /\ Fresh(req[s])
    BY <1>1, <1>2 DEF Logins
  <2>2. issued[req[s].login.jwt] = req[s].login.user /\ req[s].login.jwt \in Token
        /\ req[s].login.jwt # cookie /\ \A p \in probes : p.jwt # req[s].login.jwt
    BY <2>1 DEF Fresh, Brings
  <2>3. req[s].login.user # "none"
    BY <2>1, BringsForUser, SessionAssumption
  <2> QED
    BY <2>1, <2>2, <2>3 DEF ServerKept
<1>3. \A s \in Request : Fresh(req[s])'
  BY <1>2 DEF Fresh, Brings
<1>4. \A r, s \in Request :
        Brings(req'[r]) /\ Brings(req'[s]) /\ req'[s].login.jwt = req'[r].login.jwt => r = s
  BY <1>1 DEF Logins
<1> QED
  BY <1>3, <1>4 DEF Logins, Brings

LEMMA SessionsKept ==
  ASSUME Types, Sessions, ServerKept, UNCHANGED <<store, cookie, tab, probes>>
  PROVE  Sessions'
<1>1. cookie \in Token => issued'[cookie] = issued[cookie]
  BY DEF Sessions, ServerKept
<1>2. \A p \in probes : issued'[p.jwt] = issued[p.jwt]
  BY DEF Sessions, ServerKept, Types
<1> QED
  BY <1>1, <1>2 DEF Sessions

\* The steps after which no login has come back that had not before.
LEMMA SessionStep ==
  ASSUME SessionInv, Types', Sessions', ServerKept, cookie' = cookie,
         \A p \in probes' : p.jwt = cookie \/ \E q \in probes : q.jwt = p.jwt,
         \A s \in Request : req'[s] = req[s] \/ \E c \in Call : req'[s] = c /\ CallOK(c)' /\ ~Brings(c)
  PROVE  SessionInv'
<1>1. Calls'
  BY CallsKept DEF SessionInv
<1>2. Logins'
  BY LoginsKept DEF SessionInv
<1> QED
  BY <1>1, <1>2 DEF SessionInv

LEMMA TabStep ==
  ASSUME SessionInv, Types', Sessions', UNCHANGED <<api, cookie>>,
         \A p \in probes' : p.jwt = cookie \/ \E q \in probes : q.jwt = p.jwt,
         \A s \in Request : req'[s] = req[s] \/ \E c \in Call : req'[s] = c /\ CallOK(c) /\ ~Brings(c)
  PROVE  SessionInv'
<1>1. ServerKept
  BY SameServer DEF SessionInv
<1>2. \A s \in Request : req'[s] = req[s] \/ \E c \in Call : req'[s] = c /\ CallOK(c)' /\ ~Brings(c)
  BY <1>1, CallKept DEF SessionInv
<1> QED
  BY <1>1, <1>2, SessionStep

\* A call alone has moved.
LEMMA CallStep ==
  ASSUME SessionInv, UNCHANGED <<api, store, cookie, tab, probes>>,
         NEW r \in Request, NEW c \in Call, CallOK(c), ~Brings(c), req' = [req EXCEPT ![r] = c]
  PROVE  SessionInv'
<1>1. Types'
  BY DEF SessionInv, Types, api
<1>2. Sessions'
  BY SameServer, SessionsKept DEF SessionInv
<1>3. \A s \in Request : req'[s] = req[s] \/ \E d \in Call : req'[s] = d /\ CallOK(d) /\ ~Brings(d)
  BY DEF SessionInv, Types
<1> QED
  BY <1>1, <1>2, <1>3, TabStep

-----------------------------------------------------------------------------
(* Calls *)

LEMMA CarriedOK ==
  ASSUME SessionInv
  PROVE  /\ Carried \in Sendable /\ (Carried \in Token => issued[Carried] # "none")
         /\ tab.jwt \in Token /\ Carried \in Token => Carried = tab.jwt
         /\ tab.jwt \in Token /\ store.jwt = tab.jwt => Carried = tab.jwt
BY SessionAssumption DEF SessionInv, Types, Sessions, Carried, ExtractToken, Jwt, Sendable

LEMMA UnusedOK == Unused \in Call
<1>1. Nobody \in [user : User \cup {"none"}, jwt : Jwt]
  BY DEF Nobody, Jwt
<1> QED
  BY <1>1 DEF Unused, Call, Sendable

LEMMA OverTyped ==
  ASSUME NEW c \in Call, NEW n \in Nat, NEW ui \in {"unknown", "ok", "refused", "failed", "over"}
  PROVE  [c EXCEPT !.op = "over", !.ui = ui, !.ran = n] \in Call
BY DEF Call

LEMMA OverOK ==
  ASSUME NEW c \in Call, CallOK(c), NEW ui \in {"unknown", "ok", "refused", "failed", "over"},
         ui = "ok" => c.ran = 1, ui = "refused" => c.ran = 0
  PROVE  Over(c, ui) \in Call /\ CallOK(Over(c, ui)) /\ ~Brings(Over(c, ui))
<1> DEFINE d == Over(c, ui)
<1>1. /\ d.op = "over" /\ d.row = "none" /\ d.token = "none" /\ d.net = "idle" /\ d.ui = ui
      /\ d.tries = 0 /\ d.shown = "none" /\ d.ran = c.ran
  BY DEF Over, Unused
<1>2. Unused \in Call
  BY UnusedOK
<1>3. c.ran \in Nat /\ c.ran <= 1
  BY DEF Call, CallOK, Progress
<1>4. d \in Call
  BY <1>2, <1>3, OverTyped DEF Over
<1> HIDE DEF d
<1>5. Progress(d)
  BY <1>1, <1>3, SessionAssumption DEF Progress, Changes
<1>6. Origin(d) /\ Made(d)
  BY <1>1, SessionAssumption DEF Origin, Made, Changes, Public
<1> QED
  BY <1>1, <1>4, <1>5, <1>6 DEF CallOK, Brings, d

LEMMA AbandonedOK ==
  ASSUME SessionInv, NEW r \in Request, req[r].ui = "pending", NEW net \in {"done", req[r].net}
  PROVE  LET c == Abandoned(r, net) IN c \in Call /\ CallOK(c) /\ ~Brings(c)
<1>1. PICK c \in Call : c = req[r] /\ CallOK(c)
  BY DEF SessionInv, Types, Calls
<1>2. CASE net = "sent" /\ c.op \in Changes
  <2> DEFINE d == [c EXCEPT !.ui = "unknown"]
  <2>1. Abandoned(r, net) = d
    BY <1>1, <1>2 DEF Abandoned
  <2>2. /\ d \in Call /\ d.op = c.op /\ d.row = c.row /\ d.token = c.token /\ d.net = c.net
        /\ d.ui = "unknown" /\ d.tries = c.tries /\ d.status = c.status /\ d.json = c.json
        /\ d.login = c.login /\ d.shown = c.shown /\ d.ran = c.ran /\ d.audit = c.audit
    BY DEF Call
  <2> HIDE DEF d
  <2>3. CallOK(d)
    <3>1. Progress(d)
      BY <1>1, <1>2, <2>2 DEF CallOK, Progress, Changes
    <3>2. Origin(d) /\ Made(d)
      BY <1>1, <2>2 DEF CallOK, Origin, Made
    <3> QED
      BY <3>1, <3>2 DEF CallOK
  <2> QED
    BY <1>2, <2>1, <2>2, <2>3 DEF Brings, Changes
<1>3. CASE ~(net = "sent" /\ c.op \in Changes)
  <2>1. PICK ui \in {"unknown", "over"} : Abandoned(r, net) = Over(c, ui)
    BY <1>1, <1>3 DEF Abandoned
  <2> QED
    BY <1>1, <2>1, OverOK
<1> QED
  BY <1>2, <1>3

LEMMA AgainOK ==
  ASSUME SessionInv, NEW r \in Request, req[r].ui = "pending", Another(r)
  PROVE  \E c \in Call : Again(r) = [req EXCEPT ![r] = c] /\ CallOK(c) /\ ~Brings(c)
<1>1. PICK c \in Call : c = req[r] /\ CallOK(c)
  BY DEF SessionInv, Types, Calls
<1>2. c.op = "list" /\ c.tries < Retries /\ c.tries \in Nat /\ c.ran = 0
  BY <1>1 DEF Another, SafeRetry, Method, Call, CallOK, Progress, Changes, Public
<1>3. PICK token \in Sendable : token = Carried /\ (token \in Token => issued[token] # "none")
  BY CarriedOK
<1> DEFINE d == [c EXCEPT !.tries = c.tries + 1, !.token = token, !.net = "sent"]
<1>4. Again(r) = [req EXCEPT ![r] = d]
  BY <1>1, <1>3 DEF Again, SessionInv, Types, Call
<1>5. /\ d \in Call /\ d.op = c.op /\ d.row = c.row /\ d.token = token /\ d.net = "sent"
      /\ d.ui = c.ui /\ d.tries = c.tries + 1 /\ d.status = c.status /\ d.json = c.json
      /\ d.login = c.login /\ d.shown = c.shown /\ d.ran = c.ran /\ d.audit = c.audit
  <2>1. c.tries + 1 \in Nat
    BY <1>2
  <2>2. d \in Call
    <3> SUFFICES ASSUME NEW n \in Nat
                 PROVE  [c EXCEPT !.tries = n, !.token = token, !.net = "sent"] \in Call
      BY <2>1
    <3> QED
      BY DEF Call
  <2> QED
    BY <2>2 DEF Call
<1> HIDE DEF d
<1>6. Progress(d)
  BY <1>1, <1>2, <1>5, SessionAssumption DEF CallOK, Progress, Changes
<1>7. Origin(d) /\ Made(d)
  BY <1>2, <1>3, <1>5 DEF Origin, Made, Changes
<1> QED
  BY <1>2, <1>4, <1>5, <1>6, <1>7 DEF CallOK, Brings

\* A field of a call is changed to a value of its kind.
LEMMA CallEdits ==
  ASSUME NEW c \in Call
  PROVE  /\ \A op \in {"none", "over", "list"} \cup Changes \cup Public : [c EXCEPT !.op = op] \in Call
         /\ \A row \in Row \cup {"none"} : [c EXCEPT !.row = row] \in Call
         /\ \A login \in [user : User \cup {"none"}, jwt : Jwt] : [c EXCEPT !.login = login] \in Call
         /\ \A token \in Sendable : [c EXCEPT !.token = token] \in Call
         /\ \A net \in {"idle", "sent", "answered", "done"} : [c EXCEPT !.net = net] \in Call
         /\ \A ui \in {"idle", "pending", "unknown", "ok", "refused", "failed", "over"} :
              [c EXCEPT !.ui = ui] \in Call
         /\ \A status \in Nat : [c EXCEPT !.status = status] \in Call
         /\ \A json \in BOOLEAN : [c EXCEPT !.json = json] \in Call
         /\ \A shown \in User \cup {"none"} : [c EXCEPT !.shown = shown] \in Call
         /\ \A ran \in Nat : [c EXCEPT !.ran = ran] \in Call
         /\ \A audit \in User \cup {"none", "null"} : [c EXCEPT !.audit = audit] \in Call
<1>1. \A op \in {"none", "over", "list"} \cup Changes \cup Public : [c EXCEPT !.op = op] \in Call
  BY DEF Call
<1>2. \A row \in Row \cup {"none"} : [c EXCEPT !.row = row] \in Call
  BY DEF Call
<1>3. \A login \in [user : User \cup {"none"}, jwt : Jwt] : [c EXCEPT !.login = login] \in Call
  BY DEF Call
<1>4. \A token \in Sendable : [c EXCEPT !.token = token] \in Call
  BY DEF Call
<1>5. \A net \in {"idle", "sent", "answered", "done"} : [c EXCEPT !.net = net] \in Call
  BY DEF Call
<1>6. \A ui \in {"idle", "pending", "unknown", "ok", "refused", "failed", "over"} : [c EXCEPT !.ui = ui] \in Call
  BY DEF Call
<1>7. \A status \in Nat : [c EXCEPT !.status = status] \in Call
  BY DEF Call
<1>8. \A json \in BOOLEAN : [c EXCEPT !.json = json] \in Call
  BY DEF Call
<1>9. \A shown \in User \cup {"none"} : [c EXCEPT !.shown = shown] \in Call
  BY DEF Call
<1>10. \A ran \in Nat : [c EXCEPT !.ran = ran] \in Call
  BY DEF Call
<1>11. \A audit \in User \cup {"none", "null"} : [c EXCEPT !.audit = audit] \in Call
  BY DEF Call
<1> QED
  BY <1>1, <1>2, <1>3, <1>4, <1>5, <1>6, <1>7, <1>8, <1>9, <1>10, <1>11

\* What a page can start.
LEMMA StartOK ==
  ASSUME SessionInv, NEW r \in Request, NEW op \in {"list"} \cup Changes \cup Public,
         NEW row \in Row \cup {"none"}, NEW login \in [user : User \cup {"none"}, jwt : {"none"}],
         op = "create" => row = "none", op \in Changes \ {"create"} => row \in Row,
         op \in Changes => Offered(op), op = "login" => login.user \in User,
         StartCall(r, op, row, login)
  PROVE  SessionInv'
<1>1. PICK token \in Sendable : token = Carried /\ (token \in Token => issued[token] # "none")
  BY CarriedOK
<1>2. PICK shown \in User \cup {"none"} :
        /\ shown = IF store.jwt = tab.jwt /\ tab.jwt \in Token THEN tab.user ELSE "none"
        /\ shown # "none" => token \in Token /\ issued[token] = shown
  <2>1. CASE store.jwt = tab.jwt /\ tab.jwt \in Token
    BY <1>1, <2>1, CarriedOK DEF SessionInv, Types, Sessions
  <2>2. CASE ~(store.jwt = tab.jwt /\ tab.jwt \in Token)
    BY <2>2
  <2> QED
    BY <2>1, <2>2
<1> DEFINE c == [Unused EXCEPT !.op = op, !.row = row, !.login = login, !.token = token,
                               !.net = "sent", !.ui = "pending", !.shown = shown]
<1>3. req' = [req EXCEPT ![r] = c] /\ UNCHANGED <<api, store, cookie, tab, probes>>
  BY <1>1, <1>2 DEF StartCall
<1>4. c \in Call
  <2>1. login \in [user : User \cup {"none"}, jwt : Jwt]
    BY DEF Jwt
  <2> SUFFICES ASSUME NEW base \in Call
               PROVE  [base EXCEPT !.op = op, !.row = row, !.login = login, !.token = token,
                                   !.net = "sent", !.ui = "pending", !.shown = shown] \in Call
    BY UnusedOK
  <2>2. PICK c1 \in Call : c1 = [base EXCEPT !.op = op, !.row = row]
    <3>1. [base EXCEPT !.op = op] \in Call
      BY CallEdits
    <3> QED
      BY <3>1, CallEdits
  <2>3. PICK c2 \in Call : c2 = [c1 EXCEPT !.login = login, !.token = token]
    <3>1. [c1 EXCEPT !.login = login] \in Call
      BY <2>1, CallEdits
    <3> QED
      BY <3>1, CallEdits
  <2>4. PICK c3 \in Call : c3 = [c2 EXCEPT !.net = "sent", !.ui = "pending"]
    <3>1. [c2 EXCEPT !.net = "sent"] \in Call
      BY CallEdits
    <3> QED
      BY <3>1, CallEdits
  <2>5. [c3 EXCEPT !.shown = shown] \in Call
    BY CallEdits
  <2> QED
    BY <2>2, <2>3, <2>4, <2>5
<1>5. /\ c.op = op /\ c.row = row /\ c.login = login /\ c.token = token /\ c.net = "sent"
      /\ c.ui = "pending" /\ c.shown = shown /\ c.tries = 0 /\ c.ran = 0
  BY DEF Unused
<1> HIDE DEF c
<1>6. Progress(c)
  BY <1>5, SessionAssumption DEF Progress, Changes, Public
<1>7. Origin(c) /\ Made(c)
  BY <1>1, <1>2, <1>5 DEF Origin, Made
<1>8. CallOK(c) /\ ~Brings(c)
  BY <1>5, <1>6, <1>7 DEF CallOK, Brings
<1> QED
  BY <1>3, <1>4, <1>8, CallStep

LEMMA PageStep == ASSUME SessionInv, NEW r \in Request, Page(r) PROVE SessionInv'
<1>1. Nobody \in [user : User \cup {"none"}, jwt : {"none"}]
  BY DEF Nobody
<1>2. ASSUME NEW row \in Row \cup {"none"}, Read(r, row) PROVE SessionInv'
  <2>1. StartCall(r, "list", row, Nobody) /\ "list" \notin Changes \cup {"login"}
    BY <1>2 DEF Read, Changes
  <2> QED
    BY <1>1, <2>1, StartOK
<1>3. ASSUME Create(r), resource # "deployments" PROVE SessionInv'
  <2>1. StartCall(r, "create", "none", Nobody) /\ "create" \in Changes /\ Offered("create")
    BY <1>3 DEF Create, Changes, Offered
  <2> QED
    BY <1>1, <2>1, StartOK
<1>4. ASSUME NEW row \in Row, Delete(r, row), resource # "deployments" PROVE SessionInv'
  <2>1. StartCall(r, "delete", row, Nobody) /\ "delete" \in Changes /\ Offered("delete")
    BY <1>4 DEF Delete, Changes, Offered
  <2> QED
    BY <1>1, <2>1, StartOK
<1>5. ASSUME NEW row \in Row, NEW op \in {"scale", "rollback"},
             StartCall(r, op, row, Nobody), resource = "deployments"
      PROVE  SessionInv'
  <2>1. op \in Changes /\ Offered(op) /\ op # "create" /\ op # "login"
    BY <1>5 DEF Changes, Offered
  <2> QED
    BY <1>1, <1>5, <2>1, StartOK
<1> QED
  BY <1>2, <1>3, <1>4, <1>5
  DEF Page, CreateKeyModal, CreateEndpointPage, CreateBatchJobPage, DeploymentList, ImportModelModal,
      KeyList, EndpointList, EndpointDetailPage, BatchJobList, BatchJobDetailPage,
      DeploymentDetailPage, ModelRegistryPage, On

LEMMA FormStep ==
  ASSUME SessionInv, NEW r \in Request, SubmitInvitation(r) \/ \E u \in User : SubmitLogin(r, u)
  PROVE  SessionInv'
<1>1. CASE SubmitInvitation(r)
  <2>1. StartCall(r, "accept", "none", Nobody) /\ "accept" \in Public \ Changes
        /\ Nobody \in [user : User \cup {"none"}, jwt : {"none"}]
    BY <1>1 DEF SubmitInvitation, Public, Changes, Nobody
  <2> QED
    BY <2>1, StartOK
<1>2. ASSUME NEW u \in User, SubmitLogin(r, u) PROVE SessionInv'
  <2> DEFINE login == [user |-> u, jwt |-> "none"]
  <2>1. StartCall(r, "login", "none", login) /\ "login" \in Public \ Changes
        /\ login \in [user : User \cup {"none"}, jwt : {"none"}] /\ login.user \in User
    BY <1>2 DEF SubmitLogin, Public, Changes
  <2> HIDE DEF login
  <2> QED
    BY <2>1, StartOK
<1> QED
  BY <1>1, <1>2

-----------------------------------------------------------------------------
(* AuthContext *)

\* No call moves: the session and the probes are what they should be.
LEMMA QuietStep ==
  ASSUME SessionInv, UNCHANGED <<api, cookie, req>>, Types', Sessions',
         \A p \in probes' : \E q \in probes : q.jwt = p.jwt
  PROVE  SessionInv'
BY TabStep

LEMMA LogoutStep ==
  ASSUME SessionInv, tab' \in {tab, Nobody}, store' = Nobody, UNCHANGED <<api, cookie, req>>,
         probes' \subseteq probes
  PROVE  SessionInv'
<1>1. Types'
  BY DEF SessionInv, Types, api, Nobody, Jwt
<1>2. Sessions'
  BY SessionAssumption DEF SessionInv, Sessions, Types, api, Nobody
<1> QED
  BY <1>1, <1>2, QuietStep

LEMMA ProbeFailsStep ==
  ASSUME SessionInv, NEW p \in probes, NEW again \in BOOLEAN, ProbeFails(p, again)
  PROVE  SessionInv'
<1>1. PICK token \in Sendable :
        /\ token = Carried /\ (tab.jwt \in Token /\ token \in Token => token = tab.jwt)
  BY CarriedOK
<1> DEFINE q == [p EXCEPT !.token = token]
<1>2. p \in [jwt : Token, token : Sendable]
  BY DEF SessionInv, Types
<1>3. q \in [jwt : Token, token : Sendable] /\ q.jwt = p.jwt /\ q.token = token
  BY <1>2
<1>4. UNCHANGED <<api, store, cookie, tab, req>> /\ probes' \subseteq probes \cup {q}
  BY <1>1 DEF ProbeFails
<1> HIDE DEF q
<1>5. Types'
  BY <1>3, <1>4 DEF SessionInv, Types, api
<1>6. Sessions'
  BY <1>1, <1>2, <1>3, <1>4 DEF SessionInv, Sessions, Types, api
<1>7. \A x \in probes' : \E y \in probes : y.jwt = x.jwt
  BY <1>3, <1>4
<1> QED
  BY <1>4, <1>5, <1>6, <1>7, QuietStep

LEMMA ProbeAnsweredStep ==
  ASSUME SessionInv, NEW p \in probes, ProbeAnswered(p) PROVE SessionInv'
<1>1. CASE tab' = Nobody /\ store' = Nobody
  BY <1>1, LogoutStep DEF ProbeAnswered
<1>2. CASE /\ MeStatus(p.token) = 200 /\ UNCHANGED store
           /\ tab' = IF p.jwt = tab.jwt THEN [tab EXCEPT !.user = issued[p.token]] ELSE tab
  <2>1. tab' = tab
    <3>1. p.jwt \in Token /\ p.token \in Token
      BY <1>2 DEF SessionInv, Types, Verified, MeStatus
    <3>2. p.jwt = tab.jwt => p.token = tab.jwt /\ issued[p.token] = tab.user
      BY <3>1 DEF SessionInv, Sessions
    <3> QED
      BY <1>2, <3>2 DEF SessionInv, Types
  <2>2. UNCHANGED <<api, store, cookie, tab, req>> /\ probes' \subseteq probes
    BY <1>2, <2>1 DEF ProbeAnswered
  <2>3. Types'
    BY <2>2 DEF SessionInv, Types, api
  <2>4. Sessions'
    BY <2>2 DEF SessionInv, Sessions, api
  <2> QED
    BY <2>2, <2>3, <2>4, QuietStep
<1> QED
  BY <1>1, <1>2 DEF ProbeAnswered

LEMMA ReloadStep == ASSUME SessionInv, Reload PROVE SessionInv'
<1> DEFINE kept == store.user # "none" /\ ~Expired(store.jwt)
           probe == [jwt |-> store.jwt, token |-> store.jwt]
<1>1. kept => store.jwt \in Token
  BY DEF Expired
<1>2. /\ store' = IF kept THEN store ELSE Nobody
      /\ tab' = store' /\ probes' = IF kept THEN {probe} ELSE {}
      /\ UNCHANGED <<api, cookie>>
  BY DEF Reload
<1> HIDE DEF kept
<1>3. Types'
  <2>1. store' \in [user : User \cup {"none"}, jwt : Jwt]
        /\ tab' \in [user : User \cup {"none"}, jwt : Token \cup {"none", "empty"}]
    BY <1>1, <1>2 DEF SessionInv, Types, Nobody, Jwt
  <2>2. probes' \subseteq [jwt : Token, token : Sendable]
    BY <1>1, <1>2 DEF Sendable
  <2>3. ASSUME NEW s \in Request
        PROVE  /\ req[s].ui = "pending" => Abandoned(s, req[s].net) \in Call
               /\ req[s].ui # "pending" => req[s] \in Call
    BY AbandonedOK DEF SessionInv, Types
  <2>4. req' \in [Request -> Call]
    BY <2>3 DEF Reload
  <2> QED
    BY <1>2, <2>1, <2>2, <2>4 DEF SessionInv, Types, api
<1>4. Sessions'
  BY <1>1, <1>2, SessionAssumption DEF SessionInv, Sessions, Types, api, Nobody
<1>5. \A p \in probes' : p.jwt = cookie
  BY <1>1, <1>2 DEF SessionInv, Sessions
<1>6. ASSUME NEW s \in Request
      PROVE  req'[s] = req[s] \/ \E c \in Call : req'[s] = c /\ CallOK(c) /\ ~Brings(c)
  <2>1. CASE req[s].ui = "pending"
    <3>1. req'[s] = Abandoned(s, req[s].net)
      BY <2>1 DEF Reload
    <3>2. PICK c \in Call : c = Abandoned(s, req[s].net) /\ CallOK(c) /\ ~Brings(c)
      BY <2>1, AbandonedOK
    <3> QED
      BY <3>1, <3>2
  <2>2. CASE req[s].ui # "pending"
    BY <2>2 DEF Reload
  <2> QED
    BY <2>1, <2>2
<1> QED
  BY <1>2, <1>3, <1>4, <1>5, <1>6, TabStep

-----------------------------------------------------------------------------
(* api/client.ts *)

LEMMA LoseStep == ASSUME SessionInv, NEW r \in Request, Lose(r) PROVE SessionInv'
<1>1. CASE Another(r) /\ req' = Again(r)
  BY <1>1, AgainOK, CallStep DEF Lose
<1>2. ASSUME NEW net \in {"done", req[r].net}, req' = [req EXCEPT ![r] = Abandoned(r, net)]
      PROVE  SessionInv'
  BY <1>2, AbandonedOK, CallStep DEF Lose
<1> QED
  BY <1>1, <1>2 DEF Lose

LEMMA TimeoutStep == ASSUME SessionInv, NEW r \in Request, Timeout(r) PROVE SessionInv'
<1>1. PICK net \in {"done", req[r].net} : req' = [req EXCEPT ![r] = Abandoned(r, net)]
  BY DEF Timeout
<1> QED
  BY <1>1, AbandonedOK, CallStep DEF Timeout

LEMMA SettleOK ==
  ASSUME SessionInv, NEW r \in Request, NEW ui \in {"unknown", "ok", "refused", "failed"},
         req[r].op \in Changes /\ ui = "ok" => req[r].ran = 1,
         req[r].op \in Changes /\ ui = "refused" => req[r].ran = 0
  PROVE  \E c \in Call : Settle(r, ui) = [req EXCEPT ![r] = c] /\ CallOK(c) /\ ~Brings(c)
<1>1. PICK c \in Call : c = req[r] /\ CallOK(c)
  BY DEF SessionInv, Types, Calls
<1>2. PICK say \in {"unknown", "ok", "refused", "failed", "over"} :
        /\ say = IF c.op \in Changes THEN ui ELSE "over"
        /\ say = "ok" => c.ran = 1 
        /\ say = "refused" => c.ran = 0
  BY <1>1
<1>3. Settle(r, ui) = [req EXCEPT ![r] = Over(c, say)]
  BY <1>1, <1>2 DEF Settle, SessionInv, Types
<1> QED
  BY <1>1, <1>2, <1>3, OverOK

LEMMA ReceiveNothingStep == ASSUME SessionInv, NEW r \in Request, ReceiveNothing(r) PROVE SessionInv'
<1>1. PICK c \in Call : req' = [req EXCEPT ![r] = c] /\ CallOK(c) /\ ~Brings(c)
  BY SettleOK DEF ReceiveNothing
<1> QED
  BY <1>1, CallStep DEF ReceiveNothing

LEMMA ReceiveErrorStep == ASSUME SessionInv, NEW r \in Request, ReceiveError(r) PROVE SessionInv'
<1>1. CASE Another(r) /\ req' = Again(r) /\ UNCHANGED <<store, tab, probes>>
  BY <1>1, AgainOK, CallStep DEF ReceiveError, Answered
<1>2. CASE /\ req' = Settle(r, IF req[r].status < 500 THEN "refused" ELSE "failed")
           /\ UNCHANGED <<store, tab, probes>> \/ Logout
  <2>1. PICK d \in Call : d = req[r] /\ CallOK(d)
    BY DEF SessionInv, Types, Calls
  <2>2. d.op \in Changes /\ d.status < 500 => d.ran = 0
    BY <2>1 DEF ReceiveError, Answered, CallOK, Progress, Call
  <2>3. PICK c \in Call : req' = [req EXCEPT ![r] = c] /\ CallOK(c) /\ ~Brings(c)
    <3>1. CASE d.status < 500
      BY <1>2, <2>1, <2>2, <3>1, SettleOK
    <3>2. CASE ~(d.status < 500)
      BY <1>2, <2>1, <3>2, SettleOK
    <3> QED
      BY <3>1, <3>2
  <2>4. CASE UNCHANGED <<store, tab, probes>>
    BY <2>3, <2>4, CallStep DEF ReceiveError
  <2>5. CASE Logout
    <3>1. UNCHANGED <<api, cookie, probes>> /\ tab' = Nobody /\ store' = Nobody
      BY <2>5 DEF Logout, ReceiveError
    <3>2. Types'
      BY <2>3, <3>1 DEF SessionInv, Types, api, Nobody, Jwt
    <3>3. Sessions'
      BY <3>1, SessionAssumption DEF SessionInv, Sessions, Types, api, Nobody
    <3>4. \A s \in Request : req'[s] = req[s] \/ \E x \in Call : req'[s] = x /\ CallOK(x) /\ ~Brings(x)
      BY <2>3 DEF SessionInv, Types
    <3> QED
      BY <3>1, <3>2, <3>3, <3>4, TabStep
  <2> QED
    BY <1>2, <2>4, <2>5
<1> QED
  BY <1>1, <1>2 DEF ReceiveError

\* The answer to a login starts the session it brings.
LEMMA LoginArrives ==
  ASSUME SessionInv, NEW r \in Request, Brings(req[r]), ReceiveOk(r) PROVE SessionInv'
<1>1. PICK d \in Call : d = req[r] /\ CallOK(d)
  BY DEF SessionInv, Types, Calls
<1> DEFINE user == d.login.user
           jwt == d.login.jwt
           probe == [jwt |-> jwt, token |-> jwt]
<1>2. user \in User /\ user # "none" /\ jwt \in Token /\ jwt # "empty" /\ issued[jwt] = user
      /\ jwt # cookie /\ \A p \in probes : p.jwt # jwt
  BY <1>1, BringsForUser, SessionAssumption DEF SessionInv, Logins, Fresh, Brings
<1>3. PICK c \in Call : req' = [req EXCEPT ![r] = c] /\ CallOK(c) /\ ~Brings(c)
  <2>1. d.op \notin Changes
    BY <1>1 DEF Brings, Changes
  <2> QED
    BY <1>1, <2>1, SettleOK DEF ReceiveOk
<1>4. /\ UNCHANGED api /\ cookie' = jwt
      /\ tab' = [user |-> user, jwt |-> jwt] /\ store' = [user |-> user, jwt |-> jwt]
      /\ probes' \subseteq probes \cup {probe}
  <2>1. d.op = "login"
    BY <1>1 DEF Brings
  <2> QED
    BY <1>1, <1>2, <2>1 DEF ReceiveOk, SaveAuth, Begin
<1> HIDE DEF user, jwt
<1>5. Types'
  BY <1>2, <1>3, <1>4 DEF SessionInv, Types, api, Jwt, Sendable
<1>6. Sessions'
  BY <1>2, <1>4 DEF SessionInv, Sessions, api
<1>7. Calls'
  <2>1. ServerKept
    BY <1>4, SameServer DEF SessionInv
  <2>2. CallOK(c)'
    BY <1>3, <2>1, CallKept DEF SessionInv
  <2> QED
    BY <1>3, <2>1, <2>2, CallsKept DEF SessionInv, Types
<1>8. Logins'
  <2>1. ASSUME NEW s \in Request, Brings(req'[s])
        PROVE  req'[s] = req[s] /\ Brings(req[s]) /\ req[s].login.jwt # jwt
    <3>1. s # r /\ req'[s] = req[s]
      BY <1>3, <2>1 DEF SessionInv, Types
    <3> QED
      BY <1>1, <2>1, <3>1 DEF SessionInv, Logins, jwt
  <2>2. \A s \in Request : Fresh(req[s])'
    <3> SUFFICES ASSUME NEW s \in Request, Brings(req'[s]) PROVE Fresh(req[s])'
      BY DEF Fresh, Brings
    <3>1. Fresh(req[s]) /\ req'[s] = req[s] /\ Brings(req[s]) /\ req[s].login.jwt # jwt
      BY <2>1 DEF SessionInv, Logins
    <3> QED
      BY <1>4, <3>1 DEF Fresh, api, Brings
  <2>3. \A x, y \in Request :
          Brings(req'[x]) /\ Brings(req'[y]) /\ req'[y].login.jwt = req'[x].login.jwt => x = y
    BY <2>1 DEF SessionInv, Logins
  <2> QED
    BY <2>2, <2>3 DEF Logins, Brings
<1> QED
  BY <1>5, <1>6, <1>7, <1>8 DEF SessionInv

LEMMA ReceiveOkStep == ASSUME SessionInv, NEW r \in Request, ReceiveOk(r) PROVE SessionInv'
<1>1. PICK d \in Call : d = req[r] /\ CallOK(d)
  BY DEF SessionInv, Types, Calls
<1>2. d.status < 300 /\ d.json /\ d.net = "answered" /\ UNCHANGED api
  BY <1>1 DEF ReceiveOk, Answered
<1>3. PICK c \in Call : req' = [req EXCEPT ![r] = c] /\ CallOK(c) /\ ~Brings(c)
  BY <1>1, <1>2, SettleOK DEF ReceiveOk, CallOK, Progress
<1>4. \A s \in Request : req'[s] = req[s] \/ \E x \in Call : req'[s] = x /\ CallOK(x) /\ ~Brings(x)
  BY <1>3 DEF SessionInv, Types
<1>5. CASE d.op = "login"
  <2>1. CASE d.login.jwt \in Token
    BY <1>1, <1>2, <1>5, <2>1, LoginArrives DEF Brings
  <2>2. CASE d.login.jwt \notin Token
    <3>1. d.login.jwt = "empty" /\ d.login.user \in User
      BY <1>1, <1>2, <1>5, <2>2 DEF CallOK, Origin, Call
    <3>2. /\ UNCHANGED <<api, cookie, probes>>
          /\ tab' = [user |-> d.login.user, jwt |-> "empty"]
          /\ store' = [user |-> d.login.user, jwt |-> "empty"]
      BY <1>1, <1>2, <1>5, <3>1, SessionAssumption DEF ReceiveOk, SaveAuth, Begin
    <3>3. Types'
      BY <1>3, <3>1, <3>2 DEF SessionInv, Types, api, Jwt
    <3>4. Sessions'
      BY <3>2, SessionAssumption DEF SessionInv, Sessions, Types, api
    <3> QED
      BY <1>4, <3>2, <3>3, <3>4, TabStep
  <2> QED
    BY <2>1, <2>2
<1>6. CASE d.op = "accept"
  <2>1. /\ UNCHANGED <<api, cookie, probes>>
        /\ tab' = Nobody /\ store' = [user |-> "none", jwt |-> "undefined"]
    BY <1>1, <1>2, <1>6, SessionAssumption DEF ReceiveOk, SaveAuth, Begin, Nobody
  <2>2. Types'
    BY <1>3, <2>1 DEF SessionInv, Types, api, Jwt, Nobody
  <2>3. Sessions'
    BY <2>1, SessionAssumption DEF SessionInv, Sessions, Types, api, Nobody
  <2> QED
    BY <1>4, <2>1, <2>2, <2>3, TabStep
<1>7. CASE d.op \notin {"login", "accept"}
  BY <1>1, <1>2, <1>3, <1>7, CallStep DEF ReceiveOk
<1> QED
  BY <1>5, <1>6, <1>7

-----------------------------------------------------------------------------
(* console-api *)

\* The server gives an answer that brings no login.
LEMMA ServerStep ==
  ASSUME SessionInv, ServerKept, issued' \in [Token -> User \cup {"none"}],
         age' \in [Token -> {"fresh", "ending", "expired"}], gone' \subseteq User,
         UNCHANGED <<store, cookie, tab, probes>>,
         req' = req \/ \E r \in Request, c \in Call :
                         req' = [req EXCEPT ![r] = c] /\ CallOK(c)' /\ ~Brings(c)
  PROVE  SessionInv'
<1>1. Types'
  BY DEF SessionInv, Types, ServerKept, Kept
<1>2. Sessions'
  BY SessionsKept DEF SessionInv
<1>3. \A s \in Request : req'[s] = req[s] \/ \E c \in Call : req'[s] = c /\ CallOK(c)' /\ ~Brings(c)
  BY DEF SessionInv, Types
<1> QED
  BY <1>1, <1>2, <1>3, SessionStep

LEMMA ReplyTyped ==
  ASSUME NEW c \in Call, NEW net \in {"answered", "done"}, NEW status \in Nat, NEW json \in BOOLEAN,
         NEW ran \in Nat, NEW audit \in User \cup {"none", "null"}
  PROVE  [c EXCEPT !.net = net, !.status = status, !.json = json, !.ran = ran, !.audit = audit] \in Call
<1>1. PICK c1 \in Call : c1 = [c EXCEPT !.net = net, !.status = status]
  <2>1. [c EXCEPT !.net = net] \in Call
    BY CallEdits
  <2> QED
    BY <2>1, CallEdits
<1>2. PICK c2 \in Call : c2 = [c1 EXCEPT !.json = json, !.ran = ran]
  <2>1. [c1 EXCEPT !.json = json] \in Call
    BY CallEdits
  <2> QED
    BY <2>1, CallEdits
<1>3. [c2 EXCEPT !.audit = audit] \in Call
  BY CallEdits
<1> QED
  BY <1>1, <1>2, <1>3

ReplyTo(r, net, status, json, ran, audit) ==
  [req[r] EXCEPT !.net = net, !.status = status, !.json = json, !.ran = ran, !.audit = audit]

LEMMA ReplyCall ==
  ASSUME SessionInv, NEW r \in Request, NEW answer, NEW audit
  PROVE  Reply(r, answer, audit) =
           [req EXCEPT ![r] =
              ReplyTo(r, IF req[r].ui = "pending" THEN "answered" ELSE "done",
                      answer.status, answer.json, req[r].ran + answer.changes, audit)]
BY DEF Reply, ReplyTo, SessionInv, Types, Call

LEMMA ServeStep == ASSUME SessionInv, NEW r \in Request, Serve(r) PROVE SessionInv'
<1>1. PICK d \in Call : d = req[r] /\ CallOK(d)
  BY DEF SessionInv, Types, Calls
<1>0. PICK answer \in Answers(d.op, d.row, d.token) :
        table' = answer.table /\ \E e \in Trail(d.op, answer, Caller(r)) : req' = Reply(r, answer, e)
  BY <1>1 DEF Serve
<1>2. PICK entry \in Trail(d.op, answer, Caller(r)) :
        table' = answer.table /\ req' = Reply(r, answer, entry)
  BY <1>0
<1>3. d.net = "sent" /\ d.op \in Changes \cup {"list"} /\ d.ran = 0
  BY <1>1 DEF Serve, CallOK, Progress, Call, Public, Changes
<1>4. AnswerOK(d.op, d.row, d.token, answer)
  BY <1>1, <1>2, <1>3, AnswersOK DEF SessionInv, CallOK, Origin
<1>5. UNCHANGED <<resource, issued, age, gone, store, cookie, tab, probes>>
  BY DEF Serve
<1>6. ServerKept
  BY <1>2, <1>4, <1>5 DEF ServerKept, AnswerOK
<1>7. PICK net \in {"answered", "done"}, status \in Nat, json \in BOOLEAN, ran \in {0, 1},
           audit \in User \cup {"none", "null"} :
        /\ status = answer.status /\ json = answer.json /\ ran = answer.changes
        /\ audit = entry
        /\ net = IF d.ui = "pending" THEN "answered" ELSE "done"
  <2>1. entry \in User \cup {"none", "null"}
    BY <1>2 DEF Trail
  <2> QED
    BY <1>4, <2>1 DEF AnswerOK
<1> DEFINE c == [d EXCEPT !.net = net, !.status = status, !.json = json, !.ran = ran, !.audit = audit]
<1>8. req' = [req EXCEPT ![r] = c]
  <2>1. req \in [Request -> Call] /\ answer.changes \in {0, 1}
    BY <1>4 DEF SessionInv, Types, AnswerOK
  <2>2. req' = [req EXCEPT ![r] = [d EXCEPT !.net = net, !.status = status, !.json = json,
                                            !.ran = @ + ran, !.audit = audit]]
    <3>1. req' = [req EXCEPT ![r] = ReplyTo(r, net, status, json, req[r].ran + ran, audit)]
      <4>1. req' = [req EXCEPT ![r] =
              ReplyTo(r, IF req[r].ui = "pending" THEN "answered" ELSE "done",
                      answer.status, answer.json, req[r].ran + answer.changes, entry)]
        BY <1>2, ReplyCall
      <4> QED
        BY <1>1, <1>7, <4>1
    <3> QED
      BY <1>1, <3>1 DEF ReplyTo
  <2>3. d.ran + ran = ran
    BY <1>3
  <2> QED
    BY <2>2, <2>3
<1>9. c \in Call
  BY ReplyTyped
<1>10. /\ c.op = d.op /\ c.row = d.row /\ c.token = d.token /\ c.net = net /\ c.ui = d.ui
       /\ c.tries = d.tries /\ c.status = status /\ c.json = json /\ c.login = d.login
       /\ c.shown = d.shown /\ c.ran = ran /\ c.audit = audit
  BY DEF Call
<1> HIDE DEF c
<1>11. Progress(c)
  BY <1>1, <1>3, <1>4, <1>7, <1>10 DEF CallOK, Progress, AnswerOK, Changes
<1>12. Origin(c)'
  <2>1. c.status = 401 => ~Verified(c.token)
    BY <1>4, <1>7, <1>10 DEF AnswerOK
  <2> QED
    BY <1>1, <1>3, <1>5, <1>10, <2>1 DEF CallOK, Origin, Offered, Verified, Changes
<1>13. Made(c)'
  <2> SUFFICES ASSUME ran = 1 PROVE Made(c)'
    BY <1>7, <1>10 DEF Made
  <2>1. /\ Verified(d.token) /\ RoleLevel[RoleOf[issued[d.token]]] >= RoleLevel.developer
        /\ d.op # "create" => Owned(d.row, issued[d.token])
        /\ d.op \in Changes
    BY <1>3, <1>4, <1>7 DEF AnswerOK
  <2>2. audit \in {"none", issued[d.token]}
    BY <1>1, <1>2, <1>7, <2>1 DEF Trail, Changes, Public, Caller
  <2>3. ASSUME d.row # "none"
        PROVE  table'[d.row].state # "none" /\ (Shared \/ table'[d.row].owner = issued[d.token])
    <3>1. d.row \in Row /\ d.op # "create"
      BY <1>1, <2>3 DEF CallOK, Origin, Call
    <3>2. table[d.row].state # "none" /\ (Shared \/ table[d.row].owner = issued[d.token])
      BY <2>1, <3>1 DEF Owned, Present
    <3> QED
      BY <1>6, <3>1, <3>2 DEF ServerKept, Kept
  <2> QED
    BY <1>5, <1>10, <2>1, <2>2, <2>3 DEF Made, Verified, Shared
<1>14. CallOK(c)'
  BY <1>11, <1>12, <1>13 DEF CallOK, Progress
<1>15. ~Brings(c)
  BY <1>3, <1>10 DEF Brings, Changes
<1> QED
  BY <1>5, <1>6, <1>8, <1>9, <1>14, <1>15, ServerStep DEF SessionInv, Types

LEMMA ImportStep == ASSUME SessionInv, NEW row \in Row, Import(row) PROVE SessionInv'
<1>1. UNCHANGED <<resource, issued, age, gone, session>>
  BY DEF Import
<1>2. Kept(table')
  BY DEF Import, ImportDone, Kept, SessionInv, Types, Tables, States
<1>3. ServerKept
  BY <1>1, <1>2 DEF ServerKept
<1> QED
  BY <1>1, <1>3, ServerStep DEF SessionInv, Types, session

LEMMA RemoveUserStep == ASSUME SessionInv, NEW u \in User, RemoveUser(u) PROVE SessionInv'
<1>1. UNCHANGED <<resource, table, issued, age, session>> /\ gone' \subseteq User
  BY DEF RemoveUser, UserRemoved, SessionInv, Types
<1>2. ServerKept
  BY <1>1 DEF ServerKept, Kept, SessionInv, Types
<1> QED
  BY <1>1, <1>2, ServerStep DEF SessionInv, Types, session

LEMMA AgeStep == ASSUME SessionInv, NEW t \in Token, Age(t) PROVE SessionInv'
<1>1. UNCHANGED <<resource, table, issued, gone, session>>
  BY DEF Age
<1>2. age' \in [Token -> {"fresh", "ending", "expired"}]
      /\ \A x \in Token : age[x] = "expired" => age'[x] = "expired"
  BY DEF Age, SessionInv, Types
<1>3. ServerKept
  BY <1>1, <1>2 DEF ServerKept, Kept, SessionInv, Types
<1> QED
  BY <1>1, <1>2, <1>3, ServerStep DEF SessionInv, Types, session

\* An answer to a call without a session: nothing else of the call has changed.
SameBut(c, d, status) ==
  /\ c.op = d.op /\ c.row = d.row /\ c.token = d.token /\ c.net \in {"answered", "done"} /\ c.ui = d.ui
  /\ c.tries = d.tries /\ c.status = status /\ c.shown = d.shown /\ c.ran = 0

LEMMA PublicAnswer ==
  ASSUME SessionInv, NEW r \in Request, req[r].op \in Public, req[r].net = "sent", NEW status \in Nat
  PROVE  \E c \in Call : /\ Reply(r, Refusal(status), "none") = [req EXCEPT ![r] = c]
                         /\ SameBut(c, req[r], status) /\ c.login = req[r].login
<1>1. PICK d \in Call : d = req[r] /\ CallOK(d)
  BY DEF SessionInv, Types, Calls
<1>2. d.op \in Public /\ d.net = "sent" /\ d.ran = 0
  BY <1>1 DEF CallOK, Progress, Public, Changes, Call
<1>3. PICK net \in {"answered", "done"}, code \in Nat, json \in BOOLEAN, ran \in Nat,
           audit \in User \cup {"none", "null"} :
        /\ net = IF d.ui = "pending" THEN "answered" ELSE "done"
        /\ code = Refusal(status).status /\ json = Refusal(status).json
        /\ ran = Refusal(status).changes
        /\ audit = "none"
  <2>1. Refusal(status).status = status /\ Refusal(status).json \in BOOLEAN /\ Refusal(status).changes = 0
    BY DEF Refusal
  <2> QED
    BY <1>1, <1>2, <2>1
<1>4. code = status /\ ran = 0
  BY <1>3 DEF Refusal
<1> DEFINE b == ReplyTo(r, net, code, json, d.ran + ran, audit)
<1>5. Reply(r, Refusal(status), "none") = [req EXCEPT ![r] = b]
  <2>1. PICK answer : answer = Refusal(status)
    OBVIOUS
  <2>2. Reply(r, answer, audit) =
          [req EXCEPT ![r] = ReplyTo(r, net, code, json, req[r].ran + ran, audit)]
    <3>1. Reply(r, answer, audit) =
           [req EXCEPT ![r] =
              ReplyTo(r, IF req[r].ui = "pending" THEN "answered" ELSE "done",
                      answer.status, answer.json, req[r].ran + answer.changes, audit)]
      BY ReplyCall
    <3> QED
      BY <1>1, <1>3, <2>1, <3>1
  <2> QED
    BY <1>1, <1>3, <2>1, <2>2, Zenon
<1>6. b \in Call
  <2>1. d.ran + ran \in Nat
    BY <1>2, <1>4
  <2>2. b = [d EXCEPT !.net = net, !.status = code, !.json = json, !.ran = d.ran + ran,
                      !.audit = audit]
    BY <1>1 DEF ReplyTo
  <2> HIDE DEF b
  <2> QED
    BY <2>1, <2>2, ReplyTyped
<1>7. SameBut(b, d, status) /\ b.login = d.login
  BY <1>1, <1>2, <1>3, <1>4 DEF ReplyTo, Call, SameBut
<1> HIDE DEF b
<1> QED
  BY <1>1, <1>5, <1>6, <1>7

LEMMA PublicOK ==
  ASSUME SessionInv, NEW r \in Request, req[r].op \in Public, req[r].net = "sent", NEW status \in Nat,
         NEW c \in Call, SameBut(c, req[r], status),
         req[r].op = "login" => \/ status >= 400 /\ c.login.jwt = "none"
                                \/ c.login.user \in User /\ c.login.jwt \in Token \cup {"empty"}
  PROVE  CallOK(c)
<1>1. PICK d \in Call : d = req[r] /\ CallOK(d)
  BY DEF SessionInv, Types, Calls
<1>2. d.op \in Public /\ d.op \notin Changes \cup {"none", "over", "create"} /\ d.net = "sent"
  BY <1>1 DEF Public, Changes
<1>3. SameBut(c, d, status)
  BY <1>1
<1>4. Progress(c)
  BY <1>1, <1>2, <1>3 DEF CallOK, Progress, SameBut
<1>5. Origin(c) /\ Made(c)
  BY <1>1, <1>2, <1>3 DEF CallOK, Origin, Made, SameBut
<1> QED
  BY <1>4, <1>5 DEF CallOK

WithLogin(calls, r, login) == [calls EXCEPT ![r].login = login]

LEMMA PublicReply ==
  ASSUME SessionInv, NEW r \in Request, req[r].op \in Public, req[r].net = "sent",
         NEW status \in Nat, NEW login \in [user : User \cup {"none"}, jwt : Jwt],
         req[r].op = "login" => \/ status >= 400 /\ login.jwt = "none"
                                \/ login.user \in User /\ login.jwt \in Token \cup {"empty"}
  PROVE  \E c \in Call : /\ WithLogin(Reply(r, Refusal(status), "none"), r, login) = [req EXCEPT ![r] = c]
                         /\ CallOK(c) /\ c.login = login
<1>1. PICK b \in Call : /\ Reply(r, Refusal(status), "none") = [req EXCEPT ![r] = b]
                        /\ SameBut(b, req[r], status)
  BY PublicAnswer
<1> DEFINE c == [b EXCEPT !.login = login]
<1>2. c \in Call /\ c.login = login
  BY DEF Call
<1>3. SameBut(c, req[r], status)
  BY <1>1 DEF Call, SameBut
<1>4. WithLogin(Reply(r, Refusal(status), "none"), r, login) = [req EXCEPT ![r] = c]
  BY <1>1 DEF SessionInv, Types, WithLogin
<1> HIDE DEF c
<1>5. CallOK(c)
  BY <1>2, <1>3, PublicOK
<1> QED
  BY <1>2, <1>4, <1>5

LEMMA ServeInvitationStep == ASSUME SessionInv, NEW r \in Request, ServeInvitation(r) PROVE SessionInv'
<1>1. PICK status \in Nat : req' = Reply(r, Refusal(status), "none")
  BY DEF ServeInvitation
<1>2. req[r].op = "accept" /\ req[r].net = "sent" /\ "accept" \in Public
  BY DEF ServeInvitation, Public
<1>3. PICK c \in Call : req' = [req EXCEPT ![r] = c] /\ SameBut(c, req[r], status)
  BY <1>1, <1>2, PublicAnswer
<1>4. CallOK(c) /\ c.op = "accept"
  BY <1>2, <1>3, PublicOK DEF SameBut
<1> QED
  BY <1>3, <1>4, CallStep DEF ServeInvitation, Brings

\* A token is made for the login.
LEMMA TokenStep ==
  ASSUME SessionInv, NEW r \in Request, NEW t \in Token, NEW c \in Call,
         req[r].op = "login", issued[t] = "none", c.login.user \in User, c.login.jwt = t, CallOK(c),
         issued' = [issued EXCEPT ![t] = c.login.user], req' = [req EXCEPT ![r] = c],
         UNCHANGED <<resource, table, age, gone, store, cookie, tab, probes>>
  PROVE  SessionInv'
<1>1. ServerKept
  BY DEF SessionInv, Types, ServerKept, Kept
<1>2. Types'
  BY DEF SessionInv, Types
<1>3. Sessions'
  BY <1>1, SessionsKept DEF SessionInv
<1>4. Calls'
  BY <1>1, CallKept, CallsKept DEF SessionInv, Types
<1>5. \A s \in Request : s # r => req'[s] = req[s]
  BY DEF SessionInv, Types
<1>6. req'[r] = c /\ issued'[t] = c.login.user
  BY DEF SessionInv, Types
<1>7. t # cookie /\ \A p \in probes : p.jwt # t
  BY DEF SessionInv, Sessions
<1>8. ASSUME NEW s \in Request, s # r, Brings(req[s])
      PROVE  /\ req[s].login.jwt # t /\ req[s].login.jwt # cookie
             /\ issued'[req[s].login.jwt] = req[s].login.user
             /\ \A p \in probes : p.jwt # req[s].login.jwt
  <2>1. Fresh(req[s]) /\ req[s].login.user # "none" /\ req[s].login.jwt \in Token
    BY <1>8, BringsForUser, SessionAssumption DEF SessionInv, Logins, Brings
  <2>2. issued[req[s].login.jwt] = req[s].login.user
    BY <1>8, <2>1 DEF Fresh
  <2> QED
    BY <1>1, <1>8, <2>1, <2>2 DEF Fresh, ServerKept
<1>9. \A s \in Request : Fresh(req[s])'
  <2> SUFFICES ASSUME NEW s \in Request, Brings(req'[s]) PROVE Fresh(req[s])'
    BY DEF Fresh, Brings
  <2>1. CASE s = r
    BY <1>6, <1>7, <2>1 DEF Fresh, Brings
  <2>2. CASE s # r
    BY <1>5, <1>8, <2>2 DEF Fresh, Brings
  <2> QED
    BY <2>1, <2>2
<1>10. \A x, y \in Request :
         Brings(req'[x]) /\ Brings(req'[y]) /\ req'[y].login.jwt = req'[x].login.jwt => x = y
  BY <1>5, <1>6, <1>8 DEF SessionInv, Logins
<1>11. Logins'
  BY <1>9, <1>10 DEF Logins, Brings
<1> QED
  BY <1>2, <1>3, <1>4, <1>11 DEF SessionInv

LEMMA ServeLoginStep == ASSUME SessionInv, NEW r \in Request, ServeLogin(r) PROVE SessionInv'
<1>1. /\ req[r].op = "login" /\ "login" \in Public /\ req[r].net = "sent"
      /\ UNCHANGED <<resource, table, age, gone, store, cookie, tab, probes>>
  BY DEF ServeLogin, Public
<1>2. PICK was \in [user : User, jwt : {"none"}] : was = req[r].login
  BY <1>1 DEF SessionInv, Types, Calls, CallOK, Origin, Call
<1>3. was \in [user : User \cup {"none"}, jwt : Jwt] /\ was.jwt = "none" /\ was.user \in User
  BY DEF Jwt
<1>4. CASE req' = Reply(r, Refusal(403), "none") /\ UNCHANGED issued
  <2>1. PICK c \in Call : /\ req' = [req EXCEPT ![r] = c]
                          /\ SameBut(c, req[r], 403) /\ c.login = was
    BY <1>1, <1>2, <1>4, PublicAnswer
  <2>2. CallOK(c)
    BY <1>1, <1>3, <2>1, PublicOK
  <2> QED
    BY <1>1, <1>3, <1>4, <2>1, <2>2, SessionAssumption, CallStep DEF Brings, api
<1>5. ASSUME NEW answer \in {"totp", "wrong", "down"}, UNCHANGED issued,
             req' = [Reply(r, Refusal(LoginStatus[answer]), "none") EXCEPT
                       ![r].login = IF answer = "totp" THEN [@ EXCEPT !.jwt = "empty"] ELSE Nobody]
      PROVE  SessionInv'
  <2>1. PICK login \in [user : User \cup {"none"}, jwt : Jwt], status \in Nat :
          /\ login.jwt \notin Token
          /\ \/ status >= 400 /\ login.jwt = "none"
             \/ login.user \in User /\ login.jwt \in Token \cup {"empty"}
          /\ req' = WithLogin(Reply(r, Refusal(status), "none"), r, login)
    <3>1. CASE answer = "totp"
      <4> DEFINE login == [was EXCEPT !.jwt = "empty"]
      <4>1. login \in [user : User \cup {"none"}, jwt : Jwt] /\ login.user \in User
            /\ login.jwt = "empty"
        BY <1>3 DEF Jwt
      <4>2. Reply(r, Refusal(200), "none")[r].login = was
        BY <1>1, <1>2, PublicAnswer DEF SessionInv, Types
      <4>3. req' = WithLogin(Reply(r, Refusal(200), "none"), r, login)
        BY <1>5, <3>1, <4>2 DEF LoginStatus, WithLogin
      <4> HIDE DEF login
      <4> QED
        BY <4>1, <4>3, SessionAssumption
    <3>2. CASE answer # "totp"
      <4>1. Nobody \in [user : User \cup {"none"}, jwt : Jwt] /\ Nobody.jwt = "none"
        BY DEF Nobody, Jwt
      <4>2. PICK status \in {401, 503} : req' = WithLogin(Reply(r, Refusal(status), "none"), r, Nobody)
        BY <1>5, <3>2 DEF LoginStatus, WithLogin
      <4> QED
        BY <4>1, <4>2, SessionAssumption
    <3> QED
      BY <3>1, <3>2
  <2>2. PICK c \in Call : req' = [req EXCEPT ![r] = c] /\ CallOK(c) /\ c.login = login
    BY <1>1, <2>1, PublicReply
  <2> QED
    BY <1>1, <1>5, <2>1, <2>2, CallStep DEF Brings, api
<1>6. ASSUME NEW t \in Token, issued[t] = "none", issued' = [issued EXCEPT ![t] = req[r].login.user],
             req' = [Reply(r, Refusal(LoginStatus.token), "none") EXCEPT ![r].login.jwt = t]
      PROVE  SessionInv'
  <2> DEFINE login == [was EXCEPT !.jwt = t]
  <2>1. login \in [user : User \cup {"none"}, jwt : Jwt] /\ login.user = was.user /\ login.jwt = t
    BY <1>3 DEF Jwt
  <2>2. Reply(r, Refusal(200), "none")[r].login = was
    BY <1>1, <1>2, PublicAnswer DEF SessionInv, Types
  <2>3. req' = WithLogin(Reply(r, Refusal(200), "none"), r, login)
    BY <1>6, <2>2 DEF LoginStatus, WithLogin
  <2> HIDE DEF login
  <2>4. PICK c \in Call : req' = [req EXCEPT ![r] = c] /\ CallOK(c) /\ c.login = login
    BY <1>1, <1>3, <2>1, <2>3, PublicReply
  <2> QED
    BY <1>1, <1>2, <1>3, <1>6, <2>1, <2>4, TokenStep
<1> QED
  BY <1>4, <1>5, <1>6 DEF ServeLogin

-----------------------------------------------------------------------------
(* The invariant *)

LEMMA SessionInvInit == SessionInit => SessionInv
<1> SUFFICES ASSUME SessionInit PROVE SessionInv
  OBVIOUS
<1>1. req = [r \in Request |-> Unused] /\ store = tab /\ cookie = tab.jwt
  BY DEF SessionInit
<1>2. /\ resource \in Resources /\ table \in Tables /\ age \in [Token -> {"fresh", "ending", "expired"}]
      /\ gone = {}
  BY DEF SessionInit, Tables, States
<1>3. /\ issued \in [Token -> User \cup {"none"}]
      /\ tab \in [user : User \cup {"none"}, jwt : Token \cup {"none"}]
      /\ tab.jwt \in Token => tab.user \in User /\ issued[tab.jwt] = tab.user
      /\ \A p \in probes : p \in [jwt : {tab.jwt}, token : {tab.jwt}] /\ tab.jwt \in Token
  <2>1. CASE tab = Nobody /\ issued = [t \in Token |-> "none"] /\ probes = {}
    BY <2>1, SessionAssumption DEF Nobody
  <2>2. CASE \E u \in User, t \in Token :
               /\ tab = [user |-> u, jwt |-> t]
               /\ issued = [x \in Token |-> IF x = t THEN u ELSE "none"]
               /\ probes = {[jwt |-> t, token |-> t]}
    BY <2>2
  <2> QED
    BY <2>1, <2>2 DEF SessionInit
<1>4. Types
  BY <1>1, <1>2, <1>3, UnusedOK DEF Types, Jwt, Sendable
<1>5. Sessions
  BY <1>1, <1>3, SessionAssumption DEF Sessions
<1>6. Unused.op = "none" /\ Unused.net = "idle" /\ Unused.ui = "idle" /\ Unused.tries = 0
      /\ Unused.ran = 0 /\ Unused.token = "none" /\ Unused.row = "none"
  BY DEF Unused
<1>7. Calls
  BY <1>1, <1>6, SessionAssumption DEF Calls, CallOK, Progress, Origin, Made, Changes, Public
<1>8. Logins
  BY <1>1, <1>6 DEF Logins, Fresh, Brings
<1> QED
  BY <1>4, <1>5, <1>7, <1>8 DEF SessionInv

LEMMA SessionInvStutters == ASSUME SessionInv, UNCHANGED sessionVars PROVE SessionInv'
<1>1. UNCHANGED <<api, store, cookie, tab, req, probes>>
  BY DEF sessionVars, session
<1>2. Types'
  BY <1>1 DEF SessionInv, Types, api
<1>3. Sessions'
  BY <1>1 DEF SessionInv, Sessions, api
<1> QED
  BY <1>1, <1>2, <1>3, QuietStep

LEMMA SessionInvNext == SessionInv /\ [SessionNext]_sessionVars => SessionInv'
<1> SUFFICES ASSUME SessionInv, [SessionNext]_sessionVars PROVE SessionInv'
  OBVIOUS
<1>1. ASSUME NEW r \in Request,
             \/ Page(r) \/ SubmitInvitation(r) \/ \E u \in User : SubmitLogin(r, u)
      PROVE  SessionInv'
  BY <1>1, PageStep, FormStep
<1>2. ASSUME NEW r \in Request, Serve(r) \/ ServeLogin(r) \/ ServeInvitation(r) PROVE SessionInv'
  BY <1>2, ServeStep, ServeLoginStep, ServeInvitationStep
<1>3. ASSUME NEW r \in Request,
             Lose(r) \/ Timeout(r) \/ ReceiveNothing(r) \/ ReceiveOk(r) \/ ReceiveError(r)
      PROVE  SessionInv'
  BY <1>3, LoseStep, TimeoutStep, ReceiveNothingStep, ReceiveOkStep, ReceiveErrorStep
<1>4. ASSUME NEW p \in probes, ProbeAnswered(p) \/ \E again \in BOOLEAN : ProbeFails(p, again)
      PROVE  SessionInv'
  BY <1>4, ProbeAnsweredStep, ProbeFailsStep
<1>5. CASE ClickLogout \/ TimerLogout \/ OtherTabLogout
  <2>1. UNCHANGED <<api, cookie, req, probes>> /\ store' = Nobody /\ tab' \in {tab, Nobody}
    BY <1>5 DEF ClickLogout, TimerLogout, OtherTabLogout, Logout
  <2> QED
    BY <2>1, LogoutStep
<1>6. CASE Reload
  BY <1>6, ReloadStep
<1>7. CASE \E t \in Token : Age(t)
  BY <1>7, AgeStep
<1>8. CASE \E row \in Row : Import(row)
  BY <1>8, ImportStep
<1>9. CASE \E u \in User : RemoveUser(u)
  BY <1>9, RemoveUserStep
<1>10. CASE UNCHANGED sessionVars
  BY <1>10, SessionInvStutters
<1> QED
  BY <1>1, <1>2, <1>3, <1>4, <1>5, <1>6, <1>7, <1>8, <1>9, <1>10 DEF SessionNext

LEMMA SessionInvariant == SessionSpec => []SessionInv
BY SessionInvInit, SessionInvNext, PTL DEF SessionSpec

\* What a page says of a call is true of the tables, and no call makes its change
\* twice (client.ts's retries, timeouts and answers, the routes).
THEOREM PagesTellTheTruth == SessionSpec => []OutcomeTruthful
<1>1. SessionInv => OutcomeTruthful
  <2> SUFFICES ASSUME SessionInv PROVE OutcomeTruthful
    OBVIOUS
  <2>1. SessionTypeOK
    BY DEF SessionInv, Types, Calls, CallOK, Progress, Call, SessionTypeOK, Tables, States, Jwt
  <2>2. \A r \in Request : /\ req[r].ran <= 1
                           /\ req[r].ui = "ok" => req[r].ran = 1
                           /\ req[r].ui = "refused" => req[r].ran = 0
    BY DEF SessionInv, Calls, CallOK, Progress
  <2> QED
    BY <2>1, <2>2 DEF OutcomeTruthful
<1> QED
  BY <1>1, SessionInvariant, PTL

\* A change is made by the row's owner, whose role allows it, under the name of the
\* user on the screen, and the audit trail blames nobody else for it, if it has it at
\* all (auth.ts, rbac.ts, auditLog.ts, the routes).
THEOREM ChangesAreTheOwners == SessionSpec => []ChangesByOwner
<1>1. SessionInv => ChangesByOwner
  <2> SUFFICES ASSUME SessionInv, NEW r \in Request, req[r].ran > 0, req[r].op # "over"
               PROVE  LET by == issued[req[r].token]
                      IN  /\ by \in User /\ RoleLevel[RoleOf[by]] >= RoleLevel.developer
                          /\ req[r].row # "none" => Shared \/ table[req[r].row].owner = by
                          /\ req[r].shown # "none" => by = req[r].shown
                          /\ req[r].audit \in {"none", by}
    BY DEF ChangesByOwner
  <2>1. req[r].op \in Changes
    BY DEF SessionInv, Calls, CallOK, Progress
  <2> QED
    BY <2>1 DEF SessionInv, Types, Calls, CallOK, Origin, Made
<1> QED
  BY <1>1, SessionInvariant, PTL

\* A session whose token the server still accepts ends by the user's own act, by the
\* answer to a request that carried another token, or because the user's row is gone
\* (AuthContext.tsx, client.ts, GET /auth/me).
THEOREM SessionsEndForCause == SessionSpec => SessionEndsForCause
<1>1. SessionInv /\ [SessionNext]_sessionVars => [EndsForCause]_sessionVars
  <2> SUFFICES ASSUME SessionInv, SessionNext,
                      tab.user # "none", tab.jwt \in Token, age[tab.jwt] = "fresh", tab'.user = "none"
               PROVE  EndsForCause
    BY DEF EndsForCause
  <2>1. issued[tab.jwt] = tab.user /\ tab.user \in User /\ Verified(tab.jwt)
    BY DEF SessionInv, Types, Sessions, Verified
  <2>2. tab' # tab
    OBVIOUS
  <2>3. ASSUME NEW r \in Request, ReceiveOk(r) PROVE EndsForCause
    <3>1. req[r].op # "login"
      <4> SUFFICES ASSUME req[r].op = "login" PROVE FALSE
        OBVIOUS
      <4>1. tab'.user = req[r].login.user
        BY <2>3 DEF ReceiveOk, SaveAuth, Begin
      <4>2. req[r].login.user \in User
        BY <2>3 DEF ReceiveOk, Answered, SessionInv, Types, Call, Calls, CallOK, Origin
      <4> QED
        BY <4>1, <4>2, SessionAssumption
    <3>2. req[r].op = "accept"
      BY <2>2, <2>3, <3>1 DEF ReceiveOk
    <3> QED
      BY <2>3, <3>2 DEF EndsForCause
  <2>4. ASSUME NEW r \in Request, ReceiveError(r) PROVE EndsForCause
    <3>1. req[r].status = 401 /\ req[r].op \notin Public /\ req[r].net = "answered"
      BY <2>2, <2>4 DEF ReceiveError, Answered, SkipAuthExpired
    <3>2. req[r].token # tab.jwt
      BY <2>1, <3>1 DEF SessionInv, Calls, CallOK, Origin, Verified
    <3> QED
      BY <2>4, <3>2 DEF EndsForCause
  <2>5. ASSUME NEW p \in probes, ProbeAnswered(p) PROVE EndsForCause
    <3>1. p.token # tab.jwt \/ tab.user \in gone
      <4> SUFFICES ASSUME p.token = tab.jwt, tab.user \notin gone PROVE FALSE
        OBVIOUS
      <4>1. MeStatus(p.token) \notin {401, 404}
        BY <2>1 DEF MeStatus
      <4>2. tab' = IF p.jwt = tab.jwt THEN [tab EXCEPT !.user = issued[p.token]] ELSE tab
        BY <2>5, <4>1 DEF ProbeAnswered
      <4>3. tab'.user = tab.user
        BY <2>1, <4>2 DEF SessionInv, Types
      <4> QED
        BY <4>3
    <3> QED
      BY <2>5, <3>1 DEF EndsForCause
  <2>6. CASE Reload
    <3>1. store.jwt # tab.jwt
      <4> SUFFICES ASSUME store.jwt = tab.jwt PROVE FALSE
        OBVIOUS
      <4>1. store.user = tab.user /\ ~Expired(store.jwt)
        BY <2>1 DEF SessionInv, Sessions, Expired
      <4> QED
        BY <2>6, <4>1 DEF Reload
    <3> QED
      BY <2>6, <3>1 DEF EndsForCause
  <2>7. CASE ClickLogout
    BY <2>7 DEF EndsForCause
  <2>8. ~TimerLogout
    BY DEF TimerLogout
  <2>9. ASSUME UNCHANGED tab PROVE EndsForCause
    BY <2>2, <2>9
  <2>10. ASSUME NEW r \in Request,
               \/ Page(r) \/ SubmitInvitation(r) \/ \E u \in User : SubmitLogin(r, u)
               \/ Serve(r) \/ ServeLogin(r) \/ ServeInvitation(r)
               \/ Lose(r) \/ Timeout(r) \/ ReceiveNothing(r)
        PROVE  UNCHANGED tab
    <3>1. CASE Page(r)
      BY <3>1 DEF Page, CreateKeyModal, CreateEndpointPage, CreateBatchJobPage, DeploymentList,
         ImportModelModal, KeyList, EndpointList, EndpointDetailPage, BatchJobList, BatchJobDetailPage,
         DeploymentDetailPage, ModelRegistryPage, Read, Create, Delete, StartCall
    <3>2. CASE SubmitInvitation(r) \/ \E u \in User : SubmitLogin(r, u)
      BY <3>2 DEF SubmitInvitation, SubmitLogin, StartCall
    <3>3. CASE Serve(r) \/ ServeLogin(r) \/ ServeInvitation(r)
      BY <3>3 DEF Serve, ServeLogin, ServeInvitation
    <3>4. CASE Lose(r) \/ Timeout(r) \/ ReceiveNothing(r)
      BY <3>4 DEF Lose, Timeout, ReceiveNothing
    <3> QED
      BY <2>10, <3>1, <3>2, <3>3, <3>4
  <2>11. \/ OtherTabLogout \/ \E t \in Token : Age(t)
         \/ (\E row \in Row : Import(row)) \/ \E u \in User : RemoveUser(u)
         => UNCHANGED tab
    BY DEF OtherTabLogout, Age, Import, RemoveUser, session
  <2>12. (\E p \in probes, again \in BOOLEAN : ProbeFails(p, again)) => UNCHANGED tab
    BY DEF ProbeFails
  <2> QED
    BY <2>3, <2>4, <2>5, <2>6, <2>7, <2>8, <2>9, <2>10, <2>11, <2>12 DEF SessionNext
<1> QED
  BY <1>1, SessionInvariant, PTL DEF SessionSpec, SessionEndsForCause
=============================================================================
