------------------------------- MODULE UsageCron -------------------------------
(* The hourly aggregation of raw_usage_events into billing_summary             *)
(* (src/console/console-api/src/services/usageCron.ts).  Processes compete for *)
(* an advisory lock that belongs to a PostgreSQL session, and keep the result  *)
(* of winning it in the module variable cronOwner; a window is the hour before *)
(* the current one, billed in one READ COMMITTED transaction.                  *)
EXTENDS ConsoleProcess, FiniteSets

CONSTANTS Event,        \* completed requests
          MaxHour       \* bound: the clock stops at this hour

ASSUME CronAssumption == MaxHour \in Nat \ {0} /\ "nobody" \notin Instance

VARIABLES hour,
          completed,    \* the hour of each event's completed_at, 0 while running
          raw,          \* events the gateway has written to raw_usage_events
          log,          \* rows of usage_aggregation_log for each window
          billed,       \* how often billing_summary counts each event
          holder,       \* the process whose pooled session holds the lock
          cronOwner,
          due,          \* a timer of the process has fired
          txn,          \* each process's run of aggregateUsage
          late,         \* history: events written after their window was read
          lost          \* history: the lock went while its owner was at work

usage == <<hour, completed, raw, log, billed, holder, cronOwner, due, txn, late, lost>>

Hours == 1 .. MaxHour
NoTxn == [pc |-> "idle", window |-> 0, rows |-> {}]

InitUsage ==
  /\ hour = 1 /\ completed = [e \in Event |-> 0] /\ raw = {}
  /\ log = [w \in 0 .. MaxHour |-> 0] /\ billed = [e \in Event |-> 0]
  /\ holder = "nobody" /\ cronOwner = [i \in Instance |-> FALSE]
  /\ due = [i \in Instance |-> FALSE] /\ txn = [i \in Instance |-> NoTxn]
  /\ late = {} /\ lost = FALSE

money == <<log, billed>>
events == <<hour, completed, raw, late>>
lock == <<holder, cronOwner>>

-----------------------------------------------------------------------------
(* The gateway: a request completes, and its row arrives a while later *)

Complete(e) ==
  /\ completed[e] = 0
  /\ completed' = [completed EXCEPT ![e] = hour]
  /\ UNCHANGED <<hour, raw, log, billed, holder, cronOwner, due, txn, late, lost>>

\* A window is read when its transaction aggregates; a row that comes later is
\* not in it, and no later window covers it.
WindowRead(w) ==
  log[w] > 0 \/ \E i \in Instance : txn[i].pc \in {"upsert", "commit"} /\ txn[i].window = w

WriteRow(e) ==
  /\ completed[e] # 0 /\ e \notin raw
  /\ raw' = raw \cup {e}
  /\ late' = IF WindowRead(completed[e]) THEN late \cup {e} ELSE late
  /\ UNCHANGED <<hour, completed, log, billed, holder, cronOwner, due, txn, lost>>

\* The hour passes and every interval fires once within the next; a timer that
\* is late enough slips into the hour after.
PassHour ==
  /\ hour < MaxHour
  /\ hour' = hour + 1
  /\ due' = [i \in Instance |-> up[i] = "up"]
  /\ UNCHANGED <<completed, raw, log, billed, holder, cronOwner, txn, late, lost>>

-----------------------------------------------------------------------------
(* aggregateUsage, an action for each statement it awaits *)

Begun == [pc |-> "check", window |-> hour - 1, rows |-> {}]
Further(i, pc, rows) == [pc |-> pc, window |-> txn[i].window, rows |-> rows]

\* Before the transaction: an owner goes on, another process tries the lock.
Acquires(i) == holder = "nobody"

Tick(i) ==
  /\ due[i] /\ up[i] = "up" /\ txn[i].pc = "idle"
  /\ due' = [due EXCEPT ![i] = FALSE]
  /\ \/ /\ cronOwner[i]
        /\ txn' = [txn EXCEPT ![i] = Begun]
        /\ UNCHANGED lock
     \/ /\ ~cronOwner[i] /\ Acquires(i)
        /\ holder' = i
        /\ cronOwner' = [cronOwner EXCEPT ![i] = TRUE]
        /\ txn' = [txn EXCEPT ![i] = Begun]
     \/ /\ ~cronOwner[i] /\ ~Acquires(i)
        /\ UNCHANGED <<txn, lock>>
  /\ UNCHANGED <<events, money, lost>>

\* SELECT id FROM usage_aggregation_log: committed rows only.
\* (mutant: there is no such query)
AlreadyAggregated_Never(w) == FALSE
AlreadyAggregated(w) == log[w] > 0

CheckLog(i) ==
  /\ txn[i].pc = "check"
  /\ txn' = [txn EXCEPT ![i] =
       IF AlreadyAggregated(txn[i].window) THEN NoTxn ELSE Further(i, "aggregate", {})]
  /\ UNCHANGED <<events, money, lock, due, lost>>

Aggregate(i) ==
  /\ txn[i].pc = "aggregate"
  /\ txn' = [txn EXCEPT ![i] =
       Further(i, "upsert", {e \in raw : completed[e] = txn[i].window})]
  /\ UNCHANGED <<events, money, lock, due, lost>>

\* The upserts add to billing_summary, waiting for a row that another
\* transaction has changed; nobody sees the sums before COMMIT.
Billed(rows) == [e \in Event |-> IF e \in rows THEN billed[e] + 1 ELSE billed[e]]

Upsert(i) ==
  /\ txn[i].pc = "upsert"
  /\ txn' = [txn EXCEPT ![i] = Further(i, "commit", txn[i].rows)]
  /\ UNCHANGED <<events, money, lock, due, lost>>

Commit(i) ==
  LET t == txn[i] IN
  /\ t.pc = "commit"
  /\ billed' = Billed(t.rows)
  /\ log' = [log EXCEPT ![t.window] = @ + 1]
  /\ txn' = [txn EXCEPT ![i] = NoTxn]
  /\ UNCHANGED <<events, lock, due, lost>>

\* A statement fails: ROLLBACK.  Nothing retries the window later.
KeptOfFailed(t) == {}

Fail(i) ==
  LET t == txn[i] IN
  /\ t.pc # "idle"
  /\ billed' = Billed(KeptOfFailed(t))
  /\ txn' = [txn EXCEPT ![i] = NoTxn]
  /\ UNCHANGED <<events, log, lock, due, lost>>

-----------------------------------------------------------------------------
(* The life of the lock *)

\* The client that took the lock went back to the pool, which closes a client
\* after ten idle seconds; PostgreSQL then frees the lock, and nobody tells the
\* process.
SessionEnds ==
  /\ holder # "nobody"
  /\ holder' = "nobody"
  /\ lost' = TRUE
  /\ UNCHANGED <<events, money, cronOwner, due, txn>>

\* startUsageCron: its first timer fires five seconds after boot.
BootUsage(i) ==
  /\ due' = [due EXCEPT ![i] = TRUE]
  /\ UNCHANGED <<events, money, lock, txn, lost>>

\* shutdown: releaseUsageCronLock comes before pool.end waits for the
\* transaction that may still be running.
StopUsage(i) ==
  /\ holder' = IF holder = i THEN "nobody" ELSE holder
  /\ cronOwner' = [cronOwner EXCEPT ![i] = FALSE]
  /\ due' = [due EXCEPT ![i] = FALSE]
  /\ lost' = (lost \/ txn[i].pc # "idle")
  /\ UNCHANGED <<events, money, txn>>

\* The process is gone: its sessions end, its transaction rolls back.
EndUsage(i) ==
  /\ holder' = IF holder = i THEN "nobody" ELSE holder
  /\ cronOwner' = [cronOwner EXCEPT ![i] = FALSE]
  /\ due' = [due EXCEPT ![i] = FALSE]
  /\ txn' = [txn EXCEPT ![i] = NoTxn]
  /\ UNCHANGED <<events, money, lost>>

StepUsage ==
  \/ PassHour \/ SessionEnds
  \/ \E e \in Event : Complete(e) \/ WriteRow(e)
  \/ \E i \in Instance : Tick(i) \/ CheckLog(i) \/ Aggregate(i) \/ Upsert(i)
                         \/ Commit(i) \/ Fail(i)

UsageTypeOK ==
  /\ hour \in Hours /\ completed \in [Event -> 0 .. MaxHour] /\ raw \subseteq Event
  /\ log \in [0 .. MaxHour -> Nat] /\ billed \in [Event -> Nat]
  /\ holder \in Instance \cup {"nobody"} /\ cronOwner \in [Instance -> BOOLEAN]
  /\ due \in [Instance -> BOOLEAN] /\ late \subseteq raw /\ lost \in BOOLEAN
  /\ txn \in [Instance -> [pc : {"idle", "check", "aggregate", "upsert", "commit"},
                           window : 0 .. MaxHour, rows : SUBSET Event]]

(* While no lock session ends under its owner's feet and no process is told to *)
(* stop in mid-transaction, an event is billed at most once, whatever fails,   *)
(* dies or is retried by another process; and a window that is logged has      *)
(* billed all its events but those written after it was read.                  *)
BilledOnceUnlessLockLost == \A e \in Event : billed[e] > 1 => lost
LoggedIsBilled ==
  \A e \in raw \ late : log[completed[e]] > 0 => billed[e] > 0
BilledIsLogged == \A e \in Event : billed[e] <= log[completed[e]]
UsageBilled == BilledOnceUnlessLockLost /\ LoggedIsBilled /\ BilledIsLogged
=============================================================================
