# A TLA+ model of Ultralisk

Ultralisk is an inference cloud: a Rust inference engine (`zealot`), a Rust
gateway in front of it (`gateway`), a service for keys and sessions
(`auth-service`), a management API and its front end (`console`). This directory
models the parts whose correctness depends on the order of events: the engine's
scheduler and block pool, the threads and streams around it, the life of the
loaded model, the gateway's shared caches and queues, the console's incident
engine, remediation and background jobs, and a browser tab's session against the
console's API. Every definition is translated from the source; `PROJECT.json`
("map") names the lines each one stands for.

## 1. The system

| part | state it keeps | operations | talks to |
|---|---|---|---|
| zealot block manager (`block_manager.rs`) | free list, refcount and generation of each KV block | allocate, free, reference, check | called by the scheduler and, through PyO3, by Python |
| zealot scheduler (`scheduler.rs`) | waiting list ordered by (priority, arrival), prefilling and decoding lists, per-sequence position, chunk, output and block handles | add, schedule (chunks, promotion, preemption), advance_prefill, finish, cancel | block manager; called by the engine step |
| zealot engine and runner (`engine.rs`, `model_runner_py.rs`) | preempted ids, per-request KV state of the runner | submit, cancel, step | scheduler, model runner |
| zealot gRPC backend (`bin/zealot-backend.rs`) | command queue, map of stream senders, bounded channels | Infer, CANCEL, disconnect, the engine thread's loop | engine; tonic streams |
| zealot model slot (same file) | `EngineSlot` under a mutex: Empty, Loading, Ready | LoadModel, UnloadModel, Infer's look-up | spawns and stops the engine thread |
| gateway authentication (`middleware/auth.rs`, `revocation.rs`) | in-flight map of Notifys; the Redis key cache it shares with the other instances | authenticate; the revocation subscriber | Redis, auth-service |
| gateway batch windows (`batch.rs`) | slots of queued requests, one timer each; a lease in Redis | enqueue, forward to the owner, flush | Redis, other instances, the chat proxy |
| gateway routing (`route/*`, `health_checker.rs`, `passive_checker.rs`) | route table and health map, each swapped as a whole; outcome windows and breakers | resolve, upsert/remove/weight, reload, check_all, report_outcome | pods, KAI, Kubernetes |
| gateway cold start (`cold_start.rs`, `app.rs`) | waiting queue and Notify per model | wait_for_ready, notify_ready | KAI scheduler |
| gateway rate limit and usage (`rate_limit.rs`, `proxy/*`) | sorted set per key in Redis; usage rows | check, record | Redis, Postgres |
| auth-service | key, user and refresh-token rows | validate, create, revoke, login, refresh, TOTP | Postgres, Redis |
| console-api incidents (`incidentEngine.ts`, `routes/incidents.ts`) | incidents and alerts tables | Alertmanager webhooks, threshold ticks, stale resolution, the console's writes | Postgres, ClickHouse |
| console-api remediation (`aiDiagnosisService.ts`, `autoRemediationService.ts`, `slackBotService.ts`) | an incident's `action_log` and conversation, the policy row | diagnose, remediate, approve, note, ask | an LLM, Slack, other routes |
| console-api jobs (`index.ts`, `migrate.ts`, `usageCron.ts`, `notificationService.ts`) | schema versions; billing rows, window log and an advisory lock; notification log | boot, stop; migrate; aggregate; check budgets | Postgres, e-mail, Slack |
| console-api REST (`middleware/*`, `routes/*`) | the tables of keys, endpoints, batch jobs, deployments, models; the audit log | list, create, delete, scale, roll back, import | auth-service, Postgres |
| console-ui | localStorage, React state, the cookie; react-query's cache | login, logout, probe, reload; the pages' calls | console-api |

What is hard in it: preemption and recompute under memory pressure; the engine
thread, which drains commands only between steps and blocks on slow readers;
futures dropped at an await when a caller goes away; caches, leases and locks
that expire, or are deleted by somebody else, under the code that relies on them;
state that is read under one lock, or in one statement, and written in the next;
several console processes on one database; answers that are late or lost.
"hazards" in `PROJECT.json` lists them at their lines, with the properties that
watch them.

Correct means, part by part:

* *block manager*: no block handed out twice; a legitimate handle stays valid; a
  recycled one is refused.
* *scheduler, engine*: no block leaked or shared; a request is in one queue; the
  step's budget; order of admission; a request streams what it is billed for,
  within its limit; every step ends, and every request unless it starves (section 7).
* *backend*: one terminal frame, last; every open stream ends; no token skipped.
* *model slot*: what is published runs, what is not published stops.
* *authentication*: a revoked key stays out; a good one is not refused; waiters
  are woken; the auth service is asked once.
* *batch windows*: a request in a window goes out, and once.
* *cold start*: who waits has a reason to; who is woken finds a pod.
* *incidents*: one incident per outage unless two runs overlap, no incident
  goes back by itself, a resolved alert leaves none active.
* *remediation*: what was done is in the log; a press runs what its button says,
  once; what runs without one is what the settings allow; what was announced is
  reported.
* *jobs*: migrations once and in order; an event billed once; one message per
  threshold, channel and window.
* *REST and front end*: what a page says of a call is true; a change is the owner's
  and nobody else is blamed for it; a session ends for a cause.

## 2. Modules

| module | models | state / actions against the code |
|---|---|---|
| `BlockPool` | abstract | what the block pool promises: a block is acquired only when nobody owns it |
| `Generation` | abstract | the life of a request: accepted, tokens up to a limit, one end |
| `BlockManager` | `block_manager.rs` | `free_list`, `refcount`, `generation` as in the struct; `Check` is `check`, bounds first. `held` and `released` are the callers' handles, `overfreed` counts the frees accepted from owners of nothing. `Free` and `FreeAgain` are `try_free` by an owner, and by somebody with an old handle or one of another pool |
| `Scheduler` | `scheduler.rs` | the three queues and the `Sequence` fields the control depends on; `Schedule` is the function `schedule`, run in `phase`s of one loop iteration each, so that victims and indices are those of the loop |
| `Engine` | `engine.rs`, the runner's KV state | `Submit`, `Cancel` between steps; `RunnerStep`, `RunnerFail`, `AdvancePrefill`, `FinishSeq` are the parts of `step`; `TakeResult` hands the step to its caller |
| `EngineProps` | | properties of `Engine`, and its two refinement mappings |
| `EngineActor` | `zealot-backend.rs`, `run_engine`, `handle_cmd`, `infer` | uses `Generation` for the engine (which `Engine` implements); `cmds` is the unbounded channel, `frames`/`read` the bounded one, `outbox` the frames the thread still has to send with `blocking_send` |
| `ModelSlot` | `zealot-backend.rs`, `load_model`, `unload_model` | every critical section of the slot's mutex is an action; engines are named by the load that made them; senders decide when an engine thread may end |
| `AuthCache` | gateway `auth.rs`, `revocation.rs`; auth-service keys | one key; what is between two awaits is an action; `Hangup` drops a handler at an await and undoes nothing |
| `Batch` | gateway `batch.rs` | one model; a request is at the last instance of its `path`; `timer` counts sleeping flush tasks, `drained` those between the slot and the DEL |
| `ColdStart` | gateway `cold_start.rs`, `app.rs`, `route/table.rs`, `route/watcher.rs` | one model's entry of the route table; writers `Load` a snapshot and `Store` a new table in two actions, as on two threads; `Register` is `enqueue` with `notified()` |
| `Incidents` | `incidentEngine.ts`, the routes that write the same rows | the two tables; `delivery` and `tick` say where each webhook delivery and each timer tick under way is between two SQL statements - a Node process has any number of both in hand (`webhooks.ts:27`, `incidentEngine.ts:404-411`), so they are counted by run and not by process; `met` and `raced` record whose runs overlapped; `Patch`, `Suppress`, `CreateByHand` are the console's pages |
| `IncidentRecord` | `aiDiagnosisService.ts`, `autoRemediationService.ts`, `slackBotService.ts`, `routes/incidents.ts`, `routes/settings.ts` | one incident's `action_log` and conversation and the policy row, each read whole and written back whole; a button is a position in the log, as in the code. The policy's lists of allowed actions are the row's (`Relist`), `inForce` is the row when the pipeline read it; `LosesAsker` breaks the connection to who asked, and the route goes on |
| `ConsoleProcess` | `index.ts` | processes that boot, stop (`stopping` is the callback of `server.close`) and end |
| `Migrations`, `UsageCron`, `BudgetAlerts` | `migrate.ts`, `usageCron.ts`, `notificationService.ts` | each extends `ConsoleProcess`; one action per awaited statement |
| `ConsoleJobs` | the three together | the jobs share processes and no table, so a behaviour shows one of them (`job`), which keeps the state space a sum and not a product |
| `ConsoleApi` | `middleware/auth.ts`, `rbac.ts`, `auditLog.ts`, five routers | one request as a function of its caller, role and table: the answers it may get, what it leaves, and whether the audit trail gets its entry (`Trail`: nobody awaits the INSERT). `gone` are users whose row is no longer there |
| `ConsoleSession` | `AuthContext.tsx`, `api/client.ts`, the pages | a tab: store, cookie, React state, probes and calls under way, over `ConsoleApi` |
| `BlockManagerProofs`, `EngineProofs`, `BackendProofs` (slot and engine thread), `AuthCacheProofs`, `BatchProofs`, `ColdStartProofs`, `IncidentsProofs` (incidents and the remediation record), `ConsoleProofs` (jobs and session) | | theorems, see 5 |
| `MC*` | | definitions and symmetry for TLC |

`Engine` extends `Scheduler`; `EngineActor` extends `Generation` and so stands on
`Engine` by refinement rather than by size: the composition of both would
multiply their states and show nothing the refinement does not. `ConsoleSession`
extends `ConsoleApi`: every call of a page is served by it. Where one module of
proofs is about two components it extends both, so the generic names of the second
carry a prefix: `SlotInit` and `SlotNext`, `SessionInit`, `RecordInit`.

## 3. Runs

| run | what it asks | bounds, and why they are enough |
|---|---|---|
| `BlockManager` | exact free list, valid handles, whom a double free harms, refinement of `BlockPool` | two blocks, two holders, blocks handed out at two generations: sharing, exhaustion, recycling, a double free that robs the sharer or leaves it one reference short, every stale use and a handle out of range occur |
| `Engine` | all safety of scheduler and engine, two refinements, order of promotion; that nothing but preemption starves a request | three requests with prompts of 2, 3 and 5 tokens (the last is refused), limit 2, two priorities; a pool of three blocks of two tokens, so that no two requests fit to their end; chunk 2, budget 3; one model error, cancels anywhere. Two running sequences suffice for preemption inside either queue and for a waiting third. Requests arrive in the order of their numbers, which loses nothing since none is distinguished by name, and unlike a symmetry set is sound with liveness. |
| `EngineLiveness` | does every accepted request end? It does not: TLC returns a behaviour in which two prompts evict each other for ever (section 7) | two requests of equal priority with prompts of 8 tokens on a pool of 10; no cancels and no errors, which would end requests by themselves |
| `EngineActor` | stream frames, in-flight map, billing, and that streams end | two streams, two tokens, channels of one frame: the thread blocks on a reader at every step; one error, one unload, one cancel |
| `ModelSlot` | the slot and the engine threads agree; orphans exit | three loads, two unloads, two streams, hangups: a load can fail, be overtaken, and be put back by an unload that saw it |
| `AuthCache` | refusals, revocation, deduplication, wake-ups | three requests (asker, waiter, late-comer) at two instances |
| `Batch` | timers, single sending, no request stuck | three requests, two instances, one hand-over each, a restart, Redis faults, leases that go at any time |
| `ColdStart` | who waits, and why; the woken find a pod; everyone is answered | two requests, two KAI pods, one pod in the file, one reload and one weight update: two writers overlap, the pool fills and empties between a request's look-up and its registration |
| `Incidents` | duplicates, late and half-done resolutions, going back | two deliveries and two ticks at a time, in one process or several, one alert, one rule, two incidents - a duplicate is a pair - and two acts of an operator; any part of the runs under way may die together |
| `IncidentRecord` | lost entries, stale buttons, double runs, silent failures | diagnoses of two and three recommendations that cover every tier, both unimplemented executors and an ambiguous text; three presses and a note, so that a press can meet a log two others have changed; or two questions, each of which may lose its asker; or two clients of the settings, who flip two switches or store lists that let tier 1 reboot nodes and tier 3 do nothing; one restart |
| `ConsoleJobs` | schema, billing, alerts under several processes | two processes that boot three times in all, so that one restarts beside another; three migrations; three hours and two events: a window, the one after and one that is late; two thresholds, one on GPUs, and two channels |
| `ConsoleSession` | what a page says, who changes what, why sessions end | a developer, whose row may be removed, and a reader, two tokens, one row, two calls under way, one retry: a call of one session is answered in the next one; the forms that need no session are tried beside calls of one page only, since a call under way differs from another by page, not by what the forms do |

Bounds, all named: `MaxGeneration`, `MaxFailures`, `MaxCancels`, `MaxUnloads`, `MaxHops`,
`MaxCrashes`, `MaxReloads`, `MaxWeights`, `MaxOps`, `MaxToggles`, `MaxBoots`,
`MaxHour`, `MaxChanges`, `FormPages`, `Retries` (the code's own limit), and the sets of
requests, blocks, instances, loads, streams, processes, incidents, events and
tokens. Deadlock is off in every run because the requests are finite and the
system may come to rest; that nothing waits for ever is said by the liveness
properties.

Every property of a passing run has a mutant: a plausible bug in a helper of the module (written
beside it as `Name_What`) with which TLC finds the property violated.

## 4. Fairness

* `Engine`, `FairSpec`: the engine thread runs steps while it is not idle
  (`run_engine` loops without waiting then), so the parts of a step are weakly
  fair. Arrivals and cancels are not.
* `EngineActor`: the thread is weakly fair and callers read what is sent to them.
  The last is an assumption about clients: `blocking_send` makes the one engine
  thread wait for a reader that neither reads nor leaves. Nothing is assumed of the
  engine: `StreamsEnd` says that a stream ends unless the engine keeps its request for
  ever, which by `EndsUnlessPreempted` only endless preemption can do.
* `ModelSlot`: handlers and threads that can go on do; streams end.
* `Batch`: a flush task wakes and goes on (a tokio timer). Nothing else: handlers
  may stop at any await.
* `ColdStart`: a request that can register, time out or look up again does.
* `IncidentRecord`: the pipeline's job and a press under way go on; executors, the
  model and the database answer or fail in time. The diagnosis has a timeout for that
  (aiDiagnosisService.ts:147); of executors and database it is an assumption.

`AuthCache` states safety only; its waits have no timeout in the code, and
behind a caller that went away they need not end (section 7). `Incidents`,
`ConsoleJobs` and `ConsoleSession` state safety only as well: a process may stop
after any statement and nothing takes up what it had in hand.

## 5. Proofs

TLAPS checks the following for every value of the constants. Each invariant was
model-checked first; the invariant named is the inductive one.

* **Block pool** (`BlockManagerProofs`): `HandlesSafe` and the refinement of
  `BlockPool`, whatever callers do with the handles they have: a second free, which
  the code accepts while somebody else shares the block (section 7), is among their
  steps, and the property says what is left of the promise: only an owner of that very
  handle can be told it is stale. `PoolInv` adds that references and frees by owners of
  nothing add up to the owners of the *current* generation, and that handles of the
  future do not exist: without the latter a recycled block could meet a handle already
  in circulation.
* **Scheduler and engine** (`EngineProofs`), in six layers, each resting on those
  before it:
  1. `TypeOK` and the partition of the blocks give `BlocksSafe` and
     `ImplementsPool`. Typing carries weight here, since queues are edited by position
     and a victim's index must be in range.
  2. `QueuesApart` (nobody in two queues or twice in one) and `WaitingInOrder` (the
     waiting list is sorted) give `PromotionInOrder`. The step that matters is
     `insert_waiting`: the positions before a key's partition point are a
     downward-closed set of positions, hence exactly 1 to its cardinality
     (`PlaceInOrder`), so that insertion keeps the list sorted.
  3. `RequestsOK`, one predicate for each request and what a step has in hand
     (`StepShape`), says what a request has in each queue: prompt restarted while it
     waits, chunk within the prompt while it prefills, a last token while it decodes,
     blocks only while it runs, output equal to what was streamed and below the limit
     unless it is about to finish, and the runner's state equal to the scheduler's
     position. It gives `QueueDiscipline`, `UsageMatchesStream` and `PromptFedOnce`. A
     step touches one request, or the batch; a frame lemma carries the others over.
  4. With it every step maps to a step of `Generation` or to none:
     `ImplementsGeneration`.
  5. That every step ends (`EveryStepEnds`), with the preemptions inside it: the phases
     left, what is left of the loop and the free blocks fall lexicographically with
     each action, and no loop misses what it looks for. `ensure_blocks` moves the
     requester's index back when it removes somebody in front of it, so that loop is
     measured by twice its queue's length less the index. That a victim exists rests on
     the well-founded order of the naturals (`LeastNat`).
  6. `BatchInv` gives `BatchRunnable`. Behind the head of the prefilling queue everybody
     had its blocks when it last ran, so only who has a chunk, and will be in the batch,
     can be short of any: whoever preempts in loop 3 leaves something to run, itself.
     Loop 1 never breaks at the head; when nobody runs all blocks are free, and the head
     of the waiting list, which admission control let in because it fits the pool, is
     promoted. The chunks assigned, counted as a set of tokens, stay within this step's
     budget and one more for each error. The theorem assumes `prefill_chunk_size <=
     max_prefill_tokens`, as in `SchedulerConfig::default()`, which is all the backend
     uses (zealot-backend.rs:313); section 7 says what happens otherwise.
* **Model slot** (`BackendProofs`): `SlotSound`. `SlotInv` adds at which stage of
  its load an engine exists and that a published engine was never sent Shutdown.
* **Engine thread** (`BackendProofs`): `EndsOnceWithReason`, `InflightTracksEngine` and
  `TokensAccounted`. `ActorInv` follows a stream's frames along the four places they can
  be at (computed, in the outbox, in the channel, read): tokens in order from 1, at most
  one final frame, and behind it nothing; and it says which commands of a request can
  still be queued, so that a sender leaves the map exactly when its last frame is on its
  way, its client is gone, or the engine forgot it.
* **Batch windows** (`BatchProofs`): `OneTimerPerWindow` (slots and timers move
  together in every action; the lease does not matter) and `SentOnce`, whose invariant
  ties the place a request is at to the one window that holds it.
* **Authentication** (`AuthCacheProofs`): all four invariants of the module. `Inv`
  says who holds an instance's in-flight entry, whom a waiter waits for, what a
  request may have learned at each point, and how far a revocation is.
* **Cold start** (`ColdStartProofs`): `WaitsForReason` and `WokenIsRouted`, with what a
  pod's callback and a writer's snapshot may hold.
* **Incidents** (`IncidentsProofs`): `OnlyOperatorsReopen`, `ActiveMeansFiring`
  (`FiringInv`: no alert row outlives the reason it was linked for), and
  `DuplicatesAreRaces`: a run that has looked and not yet written has met every row that
  was made for its alert or rule since, and before it looked there was none that counts;
  so whatever is open beside its own row is in its `met`, and the pair in `raced`.
* **Console jobs** (`ConsoleProofs`): `SchemaInOrder` (the versions are 1 to their
  number, whoever migrates is at or behind that), `UsageBilled` (the lock's holder is
  the only one at work while it has the lock, and a transaction's rows are those of its
  window) and `AlertedOnce` (one process at a time is sending a threshold, having
  told a prefix of the channels).
* **Remediation record** (`IncidentsProofs`): `OnlyOverlapsLose`, `ApprovesWhatWasShown`
  and `RunsOnceAndWithApproval`. `RecordInv` says that, while no stale copy was written
  over the log, the log is what was logged, in order; that in such a log a recommendation
  has one pending entry; and that a run which is still to be reported has a press under
  way, two runs two presses. Only a press that overlapped another writer can then have
  shown one thing and run another, or run a thing twice. The job goes by a copy of the
  policy, which is the one in force when it was read, or the default and a failed read.
* **Session** (`ConsoleProofs`): `OutcomeTruthful`, `ChangesByOwner` and
  `SessionEndsForCause`. `SessionInv` has three parts: the tab's session and what may
  have ended it; probes and logins under way; and for each call under way how far it is,
  whose cookie it carried and under which role, and what it has changed. The last is what
  a late answer is judged by: a call that outlives its session still speaks for the one
  that started it.

Assumptions: the named ASSUMEs of the modules, which say that sizes are naturals,
block sizes and limits positive, requests, blocks, processes and incidents finite,
channels listed once, diagnoses lists of recommendations with the tiers the code knows,
and that the values "nobody", "other" and "weigh" are not names
of instances, rules or pods. TLC evaluates them in each run.

Only model-checked: all liveness (`EndsUnlessPreempted`, `StreamsEnd`,
`UnpublishedEngineExits`, `QueuedIsSent`, `EveryoneAnswered`, `RunsAreReported`), since
fairness and ENABLED are outside what the provers here can do. Every other property of
the runs is proved.

## 6. Abstractions

* Tokens are counted, not computed; the runner answers with any set of ends. EOS
  and limits are kept.
* Prompts, messages, keys and payloads are model values; one model, one key, one
  organization, one tab.
* Redis commands and SQL statements are atomic and may fail where the code handles
  it; a TTL may end at any time, which includes when it should. A transaction's
  statements take effect at its COMMIT.
* An HTTP or gRPC call is one action at the callee, with a failure outcome; where the
  answer matters to the caller it is an action of its own and may be lost.
* Request ids are used once: the backend makes one where the client gives none, and
  takes the client's without a check (`zealot-backend.rs:121-122`, `408-412`); a second
  request with an id in flight would replace the first one's sender.
* A caller of the block pool has handles it was given, and one out of range; a handle
  made up by hand with a block in range and a generation of its choice, which the Python
  binding does not prevent, is left out.
* A reload of the route file may happen at any time; `app.rs:59` drops the watcher's
  sender, so it may also never happen, which the model allows as well.
* A user's row may go at any time nothing refers to it (`REFERENCES users(id)` in
  `drizzle/002_phase1_tables.sql` and its like; nothing in console-api deletes one). The
  audit trail's own reference to it is not kept: who has entries there may be removed.
* The role check in `index.ts` is asked for the Prometheus webhook's path too, which is
  exempt from authentication only; `Incidents` starts behind it.
* A dropped future stops at the await it is in; a Node process may die at any await.
* Times are reduced to what the code compares: hours of billing windows, whether a
  cooldown or a suppression window has passed, whether a token has expired.

### Not modelled

* arithmetic and text: `sampling.rs`, `tokenizer.rs`, `attention/*`, the CUDA runner,
  constrained decoding (not connected to the engine step), JWT, password, TOTP and
  signature primitives, prices and formatting;
* single queries and views: the read-only routes, fixtures, analytics clients, the
  settings and organization pages, the pages that only show; configuration, metrics,
  the HTTP shells;
* code without a caller or behind a feature that is off: `remove_pod`,
  `notify_failed`, the CRD watcher, `modelShaping`, PATCH of an endpoint;
* playground sessions, the Slack connection, ClickHouse's migrations, development
  login: one row each, with nothing that races for it;
* with behaviour of their own, and left for later (section 8): the gateway's health
  checkers and breaker, rate limiter and usage recording; refresh tokens and TOTP
  enrolment in the auth service; `POST /analyze` of the console;
* `proto` calls that the backend answers with a stub.

## 7. Where the code does not do what it, or its documents, say

Found while modelling. The first has a run of its own, which expects the violation; for
the others the modules do what the code does, and the properties say what holds
nevertheless.

*zealot*

* `scheduler.rs:346`: **two long prompts can starve each other for ever.** A running
  sequence that needs a block evicts anybody else in its queue, also one that arrived
  earlier, has a higher priority or is further along in its prompt. The victim gives up
  its whole prompt and waits; since its blocks are now free it is soon promoted again,
  behind the one that evicted it, and when the pool is full it evicts in turn. In run
  `EngineLiveness` this goes round with a period of four engine steps, and neither request
  gets a token, although each fits the pool and the admission check is there to avoid what
  can never be scheduled (comment at 207-208). It takes two prompts which together exceed
  the pool and an unlucky distance between their arrivals. `EndsUnlessPreempted` shows that
  requests starve in no other way, `EveryStepEnds` that no single step hangs. Evicting only
  what sorts after the requester would let the first in order finish, but the requester
  would then have to be able to evict itself: with `Victims_Lower` alone, `BatchRunnable`
  fails.
* `block_manager.rs:118`: freeing one handle twice is accepted while another holder
  shares the block, and takes that holder's reference; zealot/docs/architecture.md (lines
  224, 233-236, 296-300) promises `StaleHandle` for any use of a freed handle.
  `HandlesSafe` confines the harm to the sharers of that lifetime of that block. The
  scheduler never shares a block and frees each handle once.
* `scheduler.rs:371`: a sequence alone in its queue joins the batch short of blocks
  (comment at 329); `BatchRunnable` confines it. `scheduler.rs:346`: eviction looks at
  one queue only (zealot/README.md:80).
* `scheduler.rs:116`: `step_input` feeds all output again with every chunk of a
  recomputed prompt (101-102). `engine.rs:145`: after a runner error the next batch may
  exceed the budget (scheduler.rs:147); `BatchRunnable` states by how much.
* `scheduler.rs:260`: with a chunk larger than the budget, which nothing forbids and
  engine.rs:261 configures for its tests (256 and 512), loop 1 breaks at the head as long
  as more than a budget of its prompt is left: a long prompt gets its first chunk when it
  is promoted and never another, and a batch can be empty while it waits.
* `engine.rs:121`: a request cancelled while it waits after a preemption is billed no
  tokens, although some were streamed (proto/runtime/v1/runtime.proto:24).
* `zealot-backend.rs:137`: an unload overtakes a CANCEL, and no final frame is sent
  (runtime.proto:24). `zealot-backend.rs:280`: two LoadModel calls can both pass the
  check, and a caller that goes away leaves the slot Loading for good (267-269).

*gateway*

* `auth.rs:156`: a cached negative answer counts as a miss; `auth.rs:244`: an answer
  fetched before a revocation is written after it and stays for a TTL (ADR-008 promises
  less than 100 ms); `auth.rs:235-240`: an asker whose caller goes away leaves its
  in-flight entry, and later requests with that key wait for ever (250, 254);
  `revocation.rs:119` resynchronises nothing.
* `batch.rs:279`: flush deletes the lease of whoever holds it, so two windows can be
  open at once.
* `cold_start.rs:64`: a request that finds the pool empty, and registers after the model
  became ready, sleeps its whole timeout and is told that the cold start timed out;
  `table.rs:57`: two writers at once lose one's pod or weight; a reload that fills a pool
  wakes nobody. `passive_checker` keys its verdicts by pod address (`app.rs:242`),
  `resolver.rs:63` looks them up by pod id.

*console-api: incidents and remediation*

* `incidentEngine.ts:320`: mitigated incidents should close by themselves; the pages
  send a status only, `mitigated_at` stays NULL, and those mitigated by hand never do.
  Deduplication ignores mitigated ones. A failed INSERT of an alert leaves an incident
  without one. Incidents of thresholds have no organization and are analysed but not
  remediated.
* Between `findExistingOpenIncident` (`incidentEngine.ts:126`) and the insertions
  (168-216), and between a rule's cooldown and its row (257-307), nothing keeps another
  delivery or tick out, of the same process or another, and no unique index of the tables
  would: as many duplicates as runs that overlap.
* `routes/settings.ts` stores what the page calls `operations`; `loadPolicy` reads
  `allowedActions`, which any client of the route may set to anything for any tier. The
  page sends the whole configuration from a copy that may be old. Where the row cannot be
  read the pipeline goes by the default policy, even if it was switched off
  (`autoRemediationService.ts:182-184`).
* The card pushed to Slack is built from the row as inserted and has no buttons; a
  button names a position in a log that may have changed since.
* `autoRemediationService.ts:98` and `:125`, `slackBotService.ts:187` call console-api
  without a token and get 401 unless something in front adds one.
  `011_slack_bot_fields.sql` is not in the list of migrations, so the bot does not start
  unless it is applied by hand.
* A stream that ends without `[DONE]` is shown as an answer and not saved; the panel
  swallows an SSE error (`AiAssistantPanel.tsx:78-85`); who lost the connection is shown
  an error (99-106) for a question whose answer is stored (`routes/incidents.ts:223-233`).

*console-api: jobs*

* `usageCron.ts:135-136`: the advisory lock belongs to a database session; pg-pool closes
  idle clients after ten seconds while `cronOwner` stays true, so two processes can own
  the job and bill twice. The unlock at shutdown goes through any session.
* The window is the last full hour, though lines 5-8 and 32 say the one before; late rows
  are never billed, and failed or missed windows are never retried. `SUM()::BIGINT`
  arrives as strings and is concatenated in `total_tokens`.
* Budget alerts of two processes are sent twice; a crash between e-mail and Slack
  suppresses the latter; failed deliveries are logged as sent.

*console: sessions and pages*

* `index.ts:107` says public routes come first; the role check does, and lets nobody
  below `developer` log in, log out or accept an invitation by `index.ts` alone;
  `/auth/me` matches no rule, and readers and billing users get 403.
* The log-out button never calls the route. A TOTP login answers with an empty
  `access_token`: the tab shows the new user and sends the earlier cookie. Accepting an
  invitation answers `{ok: true}`, which ends the session.
* A 204 makes `res.json()` reject, so a deletion that worked is reported as failed; 204
  and 404 answers by `send()` are not audited (`007_audit_logs.sql:2`). Nothing awaits
  the INSERT of the others, and its failure is only logged (`auditLog.ts:33-35`): the
  trail may miss any change.
* The probe logs out on 401 and 404, whichever session it was about
  (`AuthContext.tsx:92`); with a good token 404 means that the user's row is gone
  (`routes/auth.ts:132`).
* `CreateKeyModal` shows `secret`, the server returns `key`. The page for endpoints sends
  `reserved` without `tps_guarantee`, and the scale dialog allows 0: both get 400. The
  query cache survives a log-out. A model's import is lost with the process, and its
  timer brings back the row of a model deleted meanwhile. A role is stale until the next
  login.

## 8. Left to do

1. *Health* (gateway): `check_all` replacing the health map under `passive_checker`'s
   load and store; breaker, half-open probe and concurrent reports; `resolve_healthy`.
   What a verdict survives; a breaker closes by a probe only.
2. *Usage and rate limit* (gateway): what is recorded when a stream ends, breaks or is
   left; members of the sorted set that collide.
3. *Sessions* (auth-service): rotation of refresh tokens under concurrent use, lockout.
4. Proofs that the modules of 1 to 3 keep what they are written for.
