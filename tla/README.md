# Verification of the Self-Optimizing Competitive Intelligence Engine

TLA+ models of the core of the engine (`src/core`), the TLC
configurations that check them, and theorems about them that TLAPS proves.
The code is asyncio Python. Almost everything that is hard about it is what
may happen at an `await`: another coroutine runs, the task is cancelled, a
timeout fires, a live list or dict changes under an iteration. The models are
cut along these awaits.

1. [The system](#1-the-system) - components, state, interactions, hard behaviours
2. [The modules](#2-the-modules) - which module models what, and how
3. [The runs](#3-the-runs) - questions, bounds, fairness
4. [The proofs](#4-the-proofs) - theorems, invariants, assumptions
5. [Where code and documentation part](#5-where-code-and-documentation-part)
6. [What is not modelled](#6-what-is-not-modelled)
7. [Plan](#7-plan)

To run one configuration: `tlc -config WorkerPool_tasks.cfg MCWorkerPool.tla`;
to check one proof module: `tlapm WorkerPool_proofs.tla`.

## 1. The system

The engine collects signals about companies, analyses them with agents and
language models, stores what it finds, and notifies people. The layers are the
usual ones: `core/domain` (entities and value objects), `core/application`
(services, use cases, agents, an orchestrator), `core/infrastructure` (worker
pool, scaling, resilience, rate limits, caches, messaging, websockets,
webhooks, security, deployment, storage, ML) and `core/interfaces` (REST, CLI,
events, websockets). The parts are loosely coupled: most are a class with
dictionaries of its own, an `asyncio.Lock`, and one background task.

### Components that keep state and run concurrently

| component (file under `src/core`) | state | operations | what must hold |
|---|---|---|---|
| `WorkerPool` (`infrastructure/scaling/workers.py`) | heap of tasks, results, `_running`, statistics, an `asyncio.Event`, worker coroutines | `submit`, `submit_many`, `start`, `stop`, the worker loop, `_execute_task` with timeout, retry, callback | no submit lost, counted twice or run beside its own retry; no lost wakeup; every task settles; `stop` returns |
| `JobScheduler` (same file) | jobs, their `next_run`, `runs`, `enabled` | `schedule_job`, `cancel_job`, `start`, `stop`, one pass per second that submits due jobs to the pool | run limits respected, nothing runs after a cancel, scheduled jobs run |
| `CircuitBreaker` (`infrastructure/resilience/patterns.py`) | state, window of outcomes, lock | `call`, recording, transitions | opens at the threshold, half-open lets few calls through |
| `Bulkhead` (same file) | semaphore, metrics | `execute` with a timeout on the wait | permits conserved, waiters served in order, at most *n* calls inside |
| `RateLimitManager`, `TokenBucketLimiter`, `SlidingWindowLimiter`, `FixedWindowLimiter`, `QuotaManager` (`infrastructure/rate_limiting/limiter.py`) | tokens, request times, period counters | `acquire`, `check_limit`, quotas | what is granted in any interval stays in the limit's envelope |
| `MultiTierCache` (`infrastructure/advanced_caching/multi_tier.py`) | L1, L2, queue of write-backs and its task | `get`, `set` under four coherence protocols, `delete`, `start`, `stop` | no stale value after calm operations; queued values reach L2 |
| `EventBus` (`interfaces/events`) | handlers per type, history | `subscribe`, `unsubscribe`, `publish`, `publish_sync` | each event once to each subscriber, in order, none after unsubscribing |
| `MessageRouter` (`infrastructure/messaging/router.py`) | rules, cache of matches, statistics, middlewares | `add_rule`, `remove_rule`, `route` under a lock | the cache follows the rules, priorities are kept, retries end |
| `InMemoryBroker` (`infrastructure/messaging/broker.py`) | bounded queues, bindings, subscribers | publish, bind, declare, purge, subscribe, unsubscribe | queues hold the latest messages in order, consumers take them |
| `ConnectionManager`, `WebSocketManager` (`infrastructure/websocket`) | connections and indexes by user, company, metric, KPI | connect, disconnect, subscribe, clean-up, broadcasts | indexes name exactly the connected; broadcasts reach their audience |
| `AlertService`, `AlertQueue` (`application/services/alert_service.py`) | bounded queue, history, throttled rules, listeners | create, evaluate rules, resolve, the processing task | alerts are not lost, urgent ones are kept and go first |
| `WebhookManager` (`infrastructure/webhooks`) | webhooks, deliveries, retry queue, counters | register, update, delete, trigger, the delivery worker | attempts bounded, each delivery ends once, counters true |
| `AlertDeliveryManager` (`infrastructure/alerts`) | providers, retry queue, records | `send_alert`, the retry worker | retries bounded, nothing after a success |
| `StreamingService`, `StreamBuffer` (`application/services/streaming_service.py`) | bounded priority buffer, subscribers, history | emit, subscribe, the batch task | events in priority order, held once, low ones dropped first |
| `Resilience`, `ResilienceManager` (`infrastructure/resilience/patterns.py`) | handlers by name | `execute` with retries, delays, fallback | a call gives up after every attempt and not before |
| users, roles, tokens, audit log (`infrastructure/security`, `interfaces/api/v1/security_router.py`) | users, roles, registry of tokens, log of events | routes, `revoke_token`, clean-up, roles assigned, deleted and made again | a revocation holds while the token is to live; no role comes back to anybody by its id |
| request middleware (`core/middleware`) | request times and blocks per client | filters, limits, logging on the way back | limits hold in every span; blocks last |
| `ComplianceManager`, `SecureConfigManager` (`infrastructure/security`) | consents, requirements, settings, secrets | record, withdraw, verify, set, rotate, delete | an ended consent does not revive; percentages follow what is met |
| `ScalingOrchestrator` (`infrastructure/scaling/orchestration.py`) | policies, metrics, counts, last scalings | policies added and removed, metrics, the loop's pass, `scale_service` | no scaling before a policy's cooldown has passed, by the load, within bounds; counts agree |
| `ServiceRegistry`, `LoadBalancer`, `HealthChecker` (`infrastructure/distributed/load_balancing.py`) | instances, positions, sticky clients, failures | register, heartbeat, select, checks | rotation fair, clients keep what can still be selected |
| `DeploymentPipeline`, monitor, canaries (`infrastructure/deployment/pipeline.py`) | deployments, stages, statistics | create, execute, roll back, canaries | the status tells what the stages did |
| `IntegrationRegistry` and adapters (`infrastructure/integrations`) | adapters, sessions, status, metrics | activate, deactivate, sync, send | active means connected |
| monitoring (`infrastructure/monitoring`, `advanced_monitoring.py`) | health checks, metrics, alerts, rules, logs | requests, records, evaluation passes | checks registered without a race are run; an alert tells the last value; rules fire after their duration |
| `InMemoryCache`, `RedisCache`, query cache, warmer, coherency (`infrastructure/caching`, `optimization`, `advanced_caching`) | entries, tags, counts, plans, tasks | get, set, delete by tag, expiry, analyse, warm, synchronize | entries accounted for, tags find them, nothing written after a removal |
| sockets of `interfaces/websocket` | lists of sockets by channel | connect, disconnect, receivers, broadcasts | the table tells who is connected; a walk sends once |
| `RabbitMQBroker` (`infrastructure/messaging/broker.py`) | connection, channel, consumers, statistics | declare, publish, subscribe, acknowledge, purge | no message lost but by expiry or a purge; none acknowledged unhandled |
| `WorkflowOrchestrator`, agents, `AgentCommunicator` (`application/orchestrators`, `application/agents`) | workflows, agents' memories, channels | workflows and their tasks, execution, cancellation | tasks settle in the order of what they depend on |
| use cases and services (`application/use_cases`, `application/services`) | one browser shared by all searches | searches, analyses, reports | a search alone uses the pages it opened and closes them; what is said to be made was saved |

### Components that compute

| component | what must hold |
|---|---|
| entities and value objects (`domain`): policies, reports, events, signals, confidence, time stamps, money | life cycles over any sequence of calls; arithmetic at the ends of months and scales |
| `infrastructure/ml`: detectors, market analysis, forecasts, preprocessing | identities of trends, means, shares and measures; what a shared object was last fitted with |

### How they interact

- `JobScheduler` submits to `WorkerPool` (one object per job, submitted again
  at every run) and shares the event loop with it.
- `AlertService` and the REST layer call `WebSocketManager`, which writes
  through `ConnectionManager`; a broadcast may disconnect the clients it failed
  to reach, and a client's own receive loop may go on after that.
- `Resilience.execute` wraps a function in a breaker, a bulkhead and retries.
- The routes of security and of health call the managers below them, in one
  step or, for health, in threads.
- The parts of the platform (scaling, balancing, deployments, integrations,
  monitoring, learning, caches, sockets, RabbitMQ) and of messaging, limits,
  webhooks, alert delivery and streams are used side by side: they neither
  share state nor call each other. What is shared *within* a part is where its
  difficulties lie: one browser by all searches, one forecaster by all
  predictors, one memory of an agent by all workflows.

Some packages of this commit cannot be imported as a whole: for instance
`core/infrastructure/database/models.py:177` uses `MarketEventDuration.TEMPORARY`,
which does not exist, and `core/infrastructure/__init__.py` imports it;
`security/encryption.py:8` imports a `PBKDF2` that the library does not have, and
`security/__init__.py` imports that module. The models describe the code of each module as it behaves when it is loaded by
itself, with what it imports. Where the code of a module itself cannot run, it
is not modelled (section 6).

### What is hard in this code

- **Suspension points.** State read before an await is used after it: the
  broadcast over a live index, `publish_sync` over a live list, the write-back
  over a snapshot, the scheduler's due list.
- **Locks that are not re-entrant** (the breaker waits for itself), and locks
  that turn out to guard nothing because their bodies never suspend.
- **Cancellation and timeouts** in every window: `wait_for` cancels an
  `acquire` that has just been granted; a `CancelledError` is no `Exception`
  and skips every `except Exception`.
- **Retries** whose count lives in a fresh object, in a shared object, or in a
  middleware that early returns skip.
- **Bounded containers**: alert queue, stream buffer, deque of the broker,
  histories. Each has its own rule for what it gives up.
- **Stop and restart** of background tasks between any two of their steps.
- **Numbers at a boundary**: sliding windows, refills, quota periods, ends of
  months, scores beyond their scale, series too short for a window.
- **Ids used again**: roles, instances, segments and policies are
  replaced under an id that others still hold.
- **Threads**: the RLocks of monitoring and deployments span whole calls; the
  functions that make the one instance of a manager have no lock, and requests
  reach them in threads.
- **Clocks**: a naive UTC time read as local time, a time to live that several
  keys share, a fraction of a second cut off.
- **A connection that goes away**: RabbitMQ requeues what it had handed out,
  integrations close a session under a call, a socket leaves during a walk.

`PROJECT.json` lists these hazards at the line where they bite, with the
property that covers each. Hazards that no property can cover without asking
more than the source promises are in section 5.

## 2. The modules

Names follow the code. Each variable's comment says which attribute it is;
variables marked *history* in the comments are bookkeeping for properties and
are read by no action of the code. `CONSTANTS` commented *bound* limit the
state space and stand for nothing in the code. Operators commented *Mutated
form* are variants of a definition with a plausible bug; no specification uses
them, and each is listed in `PROJECT.json` with the property it breaks.

The rule for atomicity is the same everywhere: **a coroutine keeps the event
loop until it really suspends**. An `async with lock` whose bodies never
suspend never waits, so such a critical section is one step together with the
code around it. Awaits of functions handed in by others (task functions,
handlers, providers, sockets, an L2 cache) are suspensions, with any outcome
the code can tell apart: it returns, returns `False`, raises, is cancelled.

| module | models | one step is |
|---|---|---|
| `WorkerPool` | `WorkerPool` and its worker coroutines | a submit; a pop; a wakeup; the end of a task function, with the retry or the recording of its result; the end of a callback; stop |
| `JobScheduler` (extends `WorkerPool`) | `JobScheduler` over a real pool | a client call; one whole pass of the loop, with all its submits |
| `Bulkhead` | `Bulkhead.execute` over `asyncio.Semaphore` and `wait_for` of Python 3.11 (external) | asking; the grant's resumption; entering; leaving; a timeout; a cancellation |
| `Isolation` | what the bulkhead promises: *Max* permits, one per call inside | letting in, letting out, handing over |
| `CircuitBreaker` | `CircuitBreaker` with the non-re-entrant lock | the gate of `call`; the function's end; the recording of its outcome up to the next suspension |
| `Resilience` (extends `Bulkhead`, `CircuitBreaker`) | the handler around both, with retries, delays and fallback | a start; the end of an attempt; a wake-up; an abandonment |
| `Security` | users, roles, tokens, the audit log and the routes over them; consents, requirements, settings and secrets | a route; an operation of a manager; half a second; a day |
| `Requests` | one endpoint of `RateLimitManager`: token bucket and sliding window; `ClientQuota`, `QuotaManager`, `FixedWindowLimiter`; the middleware around a handler | a check; adding or removing a quota; admission through filters and limits; the way back; a tick |
| `MultiTierCache` | one key of the cache and the write-back task | the code between two awaits of a tier |
| `Guards` (extends the three above) | everything between a caller and the engine, side by side | as above |
| `EventBus` | one event type | publish, which starts a task per handler; a handler's start; each step of `publish_sync` |
| `MessageRouter` | the router of `get_message_router` with its three middlewares | taking the lock up to the first handler; a handler's end; rules added or removed in between |
| `InMemoryBroker` | queues, bindings, consumers | a client call; a round of a consumer |
| `Messaging` | the three side by side | as above |
| `Connections` | `ConnectionManager`, the client handler of `WebSocketManager` | a connect, a message of the client, a disconnect, a clean-up; one send of a broadcast |
| `AlertService` (extends `Connections`) | `AlertService`, `AlertQueue` | a client call; a dequeue; a send; a listener |
| `WebhookManager` | webhooks, deliveries, the worker | a client call; taking a delivery; its answer; a listener |
| `AlertDelivery` | `AlertDeliveryManager` | a call, an answer of a provider, a step of the retry worker |
| `StreamingService` | `StreamingService`, `StreamBuffer` | an emit; one subscriber of a pass; taking a batch |
| `Delivery` | alerts over connections, webhooks, alert channels and streams side by side | as above |
| `Scaling` | `ScalingOrchestrator`; registry, balancer, health checks | a call; a whole pass of the loop; the start of a round of checks; one check; a tick |
| `Deployment` | pipeline, monitor, canaries | a call, an execution with all its commands included |
| `Integrations` | registry with `sync_all`, Slack, Jira and ServiceNow adapters | the code between two awaits of the other side |
| `Monitoring` | health checks, metrics, alerts, the evaluation engine, logs | a call; the reading and the writing of a manager by a thread; a pass |
| `Domain` | policies, reports, events, signals, confidence, dates, money | a method that answers with a new version |
| `Learning` | detectors, market, series, predictors | a call |
| `Workflows` | orchestrator, agents, communicator | the code between two calls of an LLM or a tool |
| `UseCases` | the use cases and services over repositories, with the browser they share | a use case; a search between two calls of the browser |
| `Stores` | `InMemoryCache`, `RedisCache`, query cache and analyzer, warmer, coherency | a call; for Redis the code between two awaits; an expiry |
| `Sockets` | `interfaces/websocket` | a connect; one send of a walk; a receiver's end |
| `RabbitMQBroker` | the broker, with pika and the server (external) | a method; a delivery with its callback; the loss of the connection |
| `Platform` (extends the eleven above) | the parts that work for themselves, side by side | as above |
| `Lists` | Python's list comprehension (`Only`) and `sorted` (`Ranked`) | no state |

The `MC*` modules only give values to constants. The `*_proofs` modules hold the
theorems of the module they are named after and of those it extends:
`WorkerPool_proofs` those of `JobScheduler` too, `Guards_proofs` also those of
`MultiTierCache`, `Platform_proofs` what is true of `Platform` and of the parts
that run it and make its answers, `Parts_proofs` the invariants of its other parts
(`Stores`, `Sockets`, `RabbitMQBroker`, `Monitoring`, `Domain`, `Learning`).
`Lemmas` holds what several of them share.

The operators are written so that the provers can reason about them. `Only` is
`SelectSeq` with a set in place of the test, and `Ranked` an element of `SortSeq`:
both are defined by what they return and not through an operator that TLC
overrides. Sums are folds of the community modules, alternatives in expressions
that a proof unfolds are IF and not CASE.

**Side by side.** `Guards`, `Resilience`, `Messaging`, `Delivery` and `Platform`
compose parts that share nothing. Their behaviours pick one part at the start
(`guard`, `pattern`, `channel`, `path`, `part`) and use that one: interleaving
independent parts would multiply states and show nothing. `JobScheduler` and
`AlertService` do compose parts that interact, and there every interleaving is
in; so is every interleaving of the calls within a part.

### Correspondence worth knowing

- *Pool.* `queue` is a set of pairs of a task and the ordinal of its submit,
  since only `__lt__` (priority, then creation time) orders the heap. Time is
  reduced to whether a task's `scheduled_for` is still ahead (`delayed`).
  `retries` is not a variable: the code compares the `retries` of a
  `JobResult` it has just created, which is 0 (`RetriesSoFar`).
- *Scheduler.* `next_run` is none, in the future, or due. CRON and PERIODIC
  jobs get none, as in the code.
- *Bulkhead.* `before` is the order of `semaphore._waiters` as a relation;
  `value` is `_value`. `Finish` includes the `finally` that gives the permit
  back and wakes the next waiter. `self._queue` is never filled, so no call is
  turned away before asking.
- *Breaker.* `Enter` reads the state under the lock, `RecordFailure` runs up to
  the second `acquire` of the lock it holds: from then on the caller is
  `"stuck"`. The half-open and open branches are all in the model, and the
  theorem `BreakerNeverOpens` says they are unreachable.
- *Limits.* Tokens are counted in units of a `Second`th of a token, so a tick
  refills a whole number of units and floating point plays no part.
- *Cache.* Values are numbered by the sets that wrote them; 0 is `None`. L1
  entries may expire at any time; L2 calls may fail. Write times and hit counts
  are left out.
- *Connections.* Client ids are fresh for every connection, so a client
  connects once. Users and companies are `Groups`, metrics and KPIs `Topics`:
  the code treats the two of each alike. A broadcast keeps the set it has yet
  to visit and the size the container had: Python raises `RuntimeError` when
  the size has changed at the next step (`Resized`, `Raises`).
- *Alerts.* The condition of a rule is a choice. Alerts are numbered by
  creation; `Older` and `Before` are the two sorts of `enqueue`.
- *Webhooks.* Deliveries keep `attempt` as the code does: it is counted up by
  failures only. `next_retry` is not modelled since nothing reads it.
- *Router.* Validation, logging and retry are the middlewares that
  `get_message_router` installs. The lock is FIFO (`waiting`), rules change
  without it. `ends` counts how the calls for a
  message came to their end, `handed` how often it was given to handlers, and
  `cutOff` how often that was ended by a cancellation, which no middleware sees.
- *Handler.* What bulkhead and breaker do to an attempt (refuse it, keep it,
  let its outcome through) is one of the ways the attempt may end. A plain value
  is not awaitable, so a function that answered with one raises `TypeError` in
  `execute` and is called again.
- *Tokens.* `zone` is how far the server's local time is behind UTC. `iat` and
  `exp` are made from a naive `utcnow()` by `timestamp()`, which reads it as local
  time, so that both are late by `zone` and cut off to whole seconds; the
  registry's `expires_at`, by which the clean-up forgets a token, is neither. A
  tick is half a second. The library is taken to refuse a token whose `iat` lies
  ahead, as PyJWT does from 2.6 on; the repository names no version.
- *Broker.* `Active` looks for the id of the subscription among the callbacks, as
  `broker.py:467` does, and `ConsumerRound` has both branches; that a callback is
  never an id is an assumption on callbacks, not part of the loop.
- *Scaling.* A pass is one step since nothing in it suspends; means of the last
  metrics are compared by multiplying out. A policy has its own cooldown, the
  time of the last scaling belongs to the service (`Rested`). An instance is an
  object with an id and a name, and may be registered in place of another with
  its id, under its name or another.
- *Integrations.* A call is a record of what it is going to do next and of the
  session its request is made on (`s`); every `connect` opens another one.
  `openOnes` are the sessions nobody has closed.
- *Health.* `get_health_check_manager` is split in three: whether there is a
  manager, its making, and the second read of the global at the return.
- *Rules.* `Triggers` is the code's sequence of tests, in which ">" is found in
  ">=" before ">=" is asked for; `Satisfies` is what the condition says.
- *Browser.* `shared` has the browser, context and page of the provider, each
  named by the search that made it, and `open` what has not been closed. An
  `initialize` is three calls and a `close` three others, and either may end after
  any of them.
- *Dates.* `PlusMonths` is the arithmetic of `add_months` with the lengths of the
  months; a moved date is compared with the one moved back.
- *Series.* Functions over short sequences of integers; fractions are pairs,
  floats play no part. `NoValue` is NaN.
- *Workflows.* A task is started by the orchestrator's single pass over its list,
  so a dependency that stands later cannot have been met. Agents are named by
  their kind and keep one memory for all workflows.
- *Redis.* Keys with one tag; every call of the server is a suspension that may
  fail. Keys live as long as they were set to, and so does the set of the tag, by
  the last key that was put into it. *Local* entries carry their tags, and an expired one is dropped by the
  call that meets it.
- *Sockets.* `table` maps a channel to the number of a list in `socketLists`; a
  list that was deleted stays there for the walks that still go over it.
- *Warmer.* The fetch and the `set` of each item are awaits; the strategy may be
  removed, and its task cancelled, at every one. The pass of `warm_on_startup` is
  the caller's own, before there is a task.
- *RabbitMQ.* A ready message may reach its time to live. Deliveries held for a channel are ready again when it ends; pika
  may hold deliveries that were made before that. The code consumes nothing by
  itself, so the calls of its consumers are the environment's.

## 3. The runs

Twelve configurations; each asks one question of one component or composition.
`CHECK_DEADLOCK FALSE` is set everywhere: every model is of finitely many
clients who may stop calling, and may do so in any state. Where a standstill
would be wrong, a liveness property says what must still happen.

| run | states | properties |
|---|---|---|
| `WorkerPool_tasks` | ~9 000 | `TypeOK`, `Accounting`, `EventCoversQueue`, `Placement`, `SettledForGood`, `PoolLives` |
| `WorkerPool_retries` | counterexample | `RetriesBounded` |
| `JobScheduler_jobs` | ~348 000 | `JobsTypeOK`, `RunsCounted`, `CancelledStaysQuiet`, `JobsAreRun` |
| `Resilience_calls` | ~64 000 | `TypeOK`, `Conserved`, `BreakerHolds`, `RetriesHold`, `NobodyPasses`, `Isolates`, `WaitersGetIn` |
| `Resilience_plain` | counterexample | `PlainReturned` |
| `CircuitBreaker_opens` | counterexample | `OpensOnFailures` |
| `Guards_hold` | ~1 238 000 | `GuardsTypeOK`, `LimitsHold`, `AccessConsistent`, `NothingRevived`, `Coherent`, `PendingDrains` |
| `Messaging_dispatch` | ~854 000 | `TypeOK`, `DeliveredOnce`, `InOrder`, `RulesAndQueues`, `RetriesEnd` |
| `Caching_writeback` | counterexample | `LastWriteKept` |
| `Delivery_paths` | ~2 300 000 | `TypeOK`, `IndexesAgree`, `NothingAstray`, `BroadcastsComplete`, `LimitsSpareUrgent` |
| `Delivery_priority` | counterexample | `CriticalFirst` |
| `Platform_parts` | ~2 778 000 | `PlatformTypeOK`, `OperationsSound`, `ObservedIsReported`, `KnowledgeSound`, `AnswersSound`, `StorageSound`, `LoadIsServed` |

Where a run looks at parts side by side, a property is the conjunction of what
is asked of each: `LimitsHold` of `BucketEnvelope`, `MinuteEnvelope`,
`AcceptedWithinBoth`, `LongRun`, `ClientEnvelopes` and `BlocksHold`, and so on;
the conjuncts are stated, each with its own comment, in the module of the part.

The runs that end in a counterexample check what a comment or a test of the
repository says and the code does not do; see section 5. Every property of
every other run is broken by at least one mutated form of the code.

### Bounds, and why they are enough

- **WorkerPool_tasks**: two workers and two tasks. `a` is urgent and not
  retried; `b` is retried, has a coroutine callback, may time out and may
  surface a `CancelledError`. Two workers are needed for every race of the pool
  (one pops while the other records, one dies while the other goes on), and two
  tasks for priorities and for a task that waits behind another. `MaxFailures`
  2 is one more than the retry limit of `b`.
- **WorkerPool_retries**: one worker suffices for three executions of a task
  whose `max_retries` is 1.
- **JobScheduler_jobs**: a ONCE and an INTERVAL job with at most two runs, two
  workers (the recurring task overlaps with itself), two calls of
  `schedule_job` (scheduling again after a cancel), one failure per task.
- **Resilience_calls**: two permits and four callers are the smallest bulkhead
  in which two wait behind two inside, so that order among waiters and a timeout
  in front of another waiter occur; six calls let callers come back. Two
  failures in a window of three outcomes open the breaker, so the window can
  slide over a failure; three callers are the stuck one, one behind it and one
  inside the function. Two calls of the handler, one with a fallback, each with
  three attempts: delays double once and could be one too many.
- **Resilience_plain**: one attempt without a fallback is enough to lose a value.
- **Guards_hold**: eight ticks hold two windows of four ticks, four seconds of
  two ticks and two quota periods of three ticks, in every alignment; capacity
  2, window limit 3 and three requests per tick overrun every limit. Four
  requests of one client against one in a minute of two ticks and two in an hour
  of five are refused by the minute alone and, at 4 after 0 and 2, by the hour
  alone; six ticks outlast a block. Two users
  and a role that is deleted and made again, two tokens that live one and three
  half seconds, so that `exp` cuts off a fraction, a log of two: a role, a token and
  the log each pass their end. The server stands a second east of UTC, at UTC, or
  two seconds west of it: longer than a token lives, as hours are longer than the
  30 minutes of an access token, so that a revocation can be forgotten while the
  token is still accepted. Two ids of one consent and three settings over
  two keys let one lie behind another. Of the cache two clients, all four
  protocols, three sets, two attempts: a read that overlaps a write, a write that
  overlaps the write-back, a third value to tell "older" from "latest".
- **Messaging_dispatch**: two handlers and three events over a history of two;
  three messages of two keys, one without a body, three rules with two
  priorities and four calls, one retry; two queues of length two, three
  messages, a queue bound twice, two subscriptions. Each container overflows and
  each list changes under an iteration; four calls are two more than the retry
  limit allows to fail.
- **Delivery_paths**: two clients of one company with one topic and two
  broadcasts at a time; three alerts over a queue of two and a history of one;
  two webhooks, two deliveries, two attempts; two calls with four items over
  two channels and two retries; two subscribers of a stream whose buffer holds
  two of three events of two priorities. In the alert path one client comes
  and goes; broadcasts among several are the path next to it. Listeners of alerts
  and subscribers of a stream are interchangeable and reduced by symmetry, which
  is sound since the run checks no liveness and no definition tells them apart.
- **Platform_parts**, part by part. *Scaling*: three policies of one service, two
  of them under one id, with cooldowns of one and of two ticks, three scalings: a
  policy replaces another, two ask for the same service, and one has rested while
  the other has not. Of the balancer: two instances of a service and one more
  under the id of the first and the name of another service, three registrations,
  a failure threshold of one: an instance comes back under its id, as another
  object, and an id moves to another service. *Deployment*: two deployments of
  which one is kept, two steps, two executions; canaries begin with 40, 60 or all
  of the traffic. *Integrations*: four adapters of three kinds with and
  without secrets over two ids, two calls at a time, five in all: two activations
  of one adapter overlap, a deactivation comes between, and `sync_all` goes on to
  an adapter that was deactivated meanwhile. *Monitoring*: three requests of
  which two race; two alerts under one id, registered in each other's place and
  again; conditions of which two are met by one value, and values on the
  threshold of a rule with ">=" and of one with "<="; six values over a series of
  two of which the last is read back; three entries of a log. *Domain*:
  eight uses of strategies (6 successes make a policy effective), from the last
  of January in a leap year by -13, -1, 1 and 12 months, scores below 0 and
  above 100. *Learning*: series of up to six of four values (a trend window, two
  RSI periods), trainings of none, two and three values, baselines of up to
  eight values, since 8 is the length from which a deviation can show.
  *Workflows*: the orchestrator's plans, and a client's plan with a dependency
  forward and one that does not exist; two workflows over shared agents. *Use
  cases*: two searches of two queries over one browser, each call of it failing or
  not, titles that occur twice; three answers. *Stores*: two keys, two tags, room
  for two entries, four sets; two Redis clients, two keys of one tag, living one
  tick or two; a warmer of two items; two nodes to synchronize. *Sockets*: three,
  of which two share a channel, and two walks. *RabbitMQ*: two messages, a
  prefetch of one, two subscriptions, a connection lost and made again.

The code's own limits (1000 alerts, 1000 events, 10000 records, deque of 1000,
history of 100) are constants of the modules, set small enough to be reached.
A limit that is written into a formula of the code (a score of 91, 30 days, three
deviations) is the code's own number.

### Fairness

Only four runs check liveness, under assumptions that the event loop justifies:

- A coroutine that is ready runs: weak fairness of each worker's, caller's and
  loop's steps. An asyncio loop runs its ready queue in order, so no ready task
  is passed over for ever.
- Functions and callbacks handed to the pool and the bulkhead end, and so do
  calls on L2. A function that never ends blocks its worker; that is the
  caller's contract (`timeout` exists for it), and without it nothing could be
  promised.
- The function of a task raises finitely often (`MaxFailures`). Since retries
  are unbounded in this code, a task that always raises never settles.
- A job that is scheduled comes due (time passes), and the loop makes its pass.
- The one-second poll of `_tasks_event` is *not* assumed while the pool is
  running: `TasksSettle`, a conjunct of `PoolLives`, shows that workers are woken
  by the event alone. When the pool stops it *is* assumed, since `stop` sets no
  event and idle workers leave through it.
- Of the cache, the step of the write-back task is weakly fair (`WriteBackFair`),
  in which `Guards_hold` has its fairness; the clients are not.
- No timeout, cancellation or client call is assumed to happen.

`WaitersGetIn` and `OpensOnFailures` hold, or fail, without any help from a
caller's timeout. The other runs check safety only and state no fairness.

### What the runs show

- *Pool*: from any interleaving of submits, pops, retries, timeouts,
  cancellations and a stop, the statistics add up, no task is in two places,
  `_running` is right, a settled result stays, tasks settle and `stop` returns.
  The order in `_execute_task` (submit the retry first, record "retrying"
  afterwards) is harmless because no suspension lies in between.
- *Scheduler*: `max_runs` and a cancel are respected, also by a pass that has
  picked the job already, since a pass does not suspend before it submits.
- *Bulkhead*: a timeout or cancel just after the grant neither loses nor
  duplicates a permit; waiters are served in their order; the bulkhead
  implements `Isolation`.
- *Breaker*: it never opens; from the threshold on its lock is held for ever,
  and so no later call enters the function (`BreakerHolds`, `NobodyPasses`).
- *Handler*: a call gives up after every attempt and not before, with doubled
  delays between them (`RetriesHold`).
- *Limits*: bursts stay in the envelopes at every alignment, and no interval
  of one quota period is granted more than two quotas (and it may be two).
- *Access*: a revocation holds as long as the token was to live, and for good at
  UTC and east of it. A refused token is accepted later west of UTC only, and there
  in two cases: its `iat` was still ahead, or its revocation was forgotten before
  its `exp` was reached. A role made again under a deleted id has no holders, the
  log is trimmed without gaps; a consent that ended does not come back, and a
  secret hides every plain setting of its key.
- *Messaging*: live lists and tasks in flight neither lose nor double an
  event; the router's cache is never stale, although rules change while the
  lock is held. Handlers are given a message at most `max_retries + 1` times beyond
  its successes and the calls that were cancelled (`AttemptsBounded`). What a
  queue of the broker no longer has, a full deque gave up or a consumer is counted
  for.
- *Cache*: operations that do not overlap are coherent under all protocols
  whenever L1 expires and the write-back runs, except the two cases of section 5.
- *Delivery*: indexes stay exact through every way to lose a client, a
  broadcast is not disturbed by its own clean-up, retries of webhooks and items
  are bounded and counted, and a full queue gives up the least urgent entry.
- *Operation*: however many policies a service has, a pass scales it once at most,
  by its load, and not before some policy's cooldown has passed; rotation is fair
  while the choice stays, and a client keeps what can still be selected; a
  deployment's last stage tells its status; an adapter given out as active has an
  open session, also after two activations at a time, with the one exception in
  section 5.
- *Monitoring*: checks registered while no other thread makes a manager are kept;
  counters and their series agree; an alert tells the last value whatever is
  registered in its place; a rule that fires has held for its duration, and one
  that has fires, but for ">=" and "<=".
- *Knowledge*: a completed report was generated at its first completion, months
  moved and moved back meet, trends and forecasts keep the identities of series,
  a prediction is from its own data unless that was too short.
- *Application*: a task runs only after what it depends on, and the rest of a
  workflow settles; a search that no other overlaps uses the pages it opened and
  leaves nothing open when it is over; the use cases tell what they saved.
- *Storage*: tags find their entries, entries are accounted for, a strategy that
  was removed writes nothing but the item on its way; a tag of Redis reaches every
  key but in the cases of section 5; a walk over a list that others change
  sends to nobody twice; RabbitMQ loses no message but by expiry or a purge, and
  acknowledges none that was not handled.

## 4. The proofs

TLC's instances are small; the theorems hold for every value of the constants
that the modules' named `ASSUME`s allow, and for behaviours of any length.

| theorem | specification | statement |
|---|---|---|
| `TypeCorrect`, `AccountingCorrect`, `NoLostWakeup`, `PlacementCorrect`, `SettledResultsStay` (`WorkerPool_proofs`) | `Spec` of `WorkerPool` | `TypeOK`, `Accounting`, `EventCoversQueue`, `Placement`, `SettledForGood` |
| `JobsTypeCorrect`, `RunsAlwaysCounted`, `CancelledJobsStayQuiet` (same) | `SchedulerSpec` | `JobsTypeOK`, `RunsCounted`, `CancelledStaysQuiet` |
| `SchedulerCorrect`, `PoolCorrectBelowScheduler` (same) | `SchedulerSpec` | `JobsInv /\ PoolInv`; the pool's `Accounting` and `EventCoversQueue` when the scheduler submits too |
| `BulkheadCorrect`, `BulkheadIsolates`, `PermitsHandedOver` (`Resilience_proofs`) | `Spec` of `Bulkhead` | `Conserved`; the bulkhead implements `Isolation`; `HandOver` |
| `BreakerNeverOpens`, `NothingPasses` (same) | `BreakerSpec` | `BreakerHolds`: the breaker stays closed, its lock is free or held by a caller stuck at the threshold; `NothingPassesStuck` |
| `PatternsTyped`, `PatternsConserve`, `PatternsBreakerHolds`, `PatternsIsolate`, `RetriesCorrect`, `NobodyIsPassed` (same) | `ResilienceSpec` | the same for the composition with the retry loop, and `RetriesHold`, `NobodyPasses` |
| `GuardsTyped`, `EveryLimitHolds`, `AccessIsConsistent`, `NothingComesBack`, and `GuardsCorrect` (`Guards_proofs`) | `GuardsSpec` | `GuardsTypeOK`, `LimitsHold`, `AccessConsistent`, `NothingRevived`, and the invariant they follow from |
| `MessagingTyped`, `EventsDeliveredOnce`, `EventsInOrder`, `RulesAndQueuesHold`, `RoutingEnds` (`Messaging_proofs`) | `Spec` of `Messaging` | `TypeOK`, `DeliveredOnce`, `InOrder`, `RulesAndQueues`, `RetriesEnd` |
| `CacheCoherent` (`Guards_proofs`) | `GuardsSpec` | `Coherent` |
| `IndexesAlwaysAgree`, `BroadcastsAlwaysComplete` (`Delivery_proofs`) | `ConnSpec` | `IndexesAgree`, `BroadcastsComplete` |
| `AlwaysTyped`, `NothingEverAstray`, `LimitsAlwaysSpareUrgent`, `IndexesAgreeThroughout`, `BroadcastsCompleteThroughout` (same) | `Spec` of `Delivery` | `TypeOK`, `NothingAstray`, `LimitsSpareUrgent`, `IndexesAgree`, `BroadcastsComplete` |
| `PlatformTyped`, `OperationsAlwaysSound`, `LoadAlwaysServed`, `ObservedAlwaysReported`, `KnowledgeAlwaysSound`, `AnswersAlwaysSound`, `StorageAlwaysSound` (`Platform_proofs`) | `PlatformSpec` | `PlatformTypeOK`, `OperationsSound`, `LoadIsServed`, `ObservedIsReported`, `KnowledgeSound`, `AnswersSound`, `StorageSound` |

With them every safety property of every passing run is a theorem, whether of a
state or of a step; the runs had shown each of them on a small instance before.

### The assumptions

They are the named `ASSUME`s of the modules, which TLC evaluates in the runs:
limits, rates and spans are natural numbers, or positive ones where the code
divides by them or keeps at least one entry (`LimiterAssumption`,
`AlertsAssumption`, `StreamAssumption`, `HooksAssumption`, `BreakerAssumption`);
sets whose members are counted are finite (`PoolAssumption`,
`BulkheadAssumption`, `SchedulerAssumption`, `BrokerAssumption`); names of one
kind are no names of another (targets of broadcasts, system and custom roles,
`None` and tasks, callables and subscription ids); a rule has a priority that is
a number, and there is at most one default handler (`RouterAssumption`); an item
of an alert belongs to one call (`ItemsAssumption`); the server stands at a fixed
distance from UTC, of any size and on either side (`SecurityAssumption`). Of the parts of `Platform`:
rules of the evaluation engine with one id are one rule, since the engine keeps
them by id, and the requests to the health checks are finitely many
(`MonitoringAssumption`); data, shares and points are natural numbers, NaN apart
(`LearningAssumption`); dates move by at most 28 days or months in a call, and
begin at a date of the calendar (`DomainAssumption`, `FirstDateAssumption`). The
*bounds* of the models
(numbers of events, alerts, ticks) are arbitrary in the theorems.

### The inductive invariants

The invariants that are inductive are stated next to the properties, in the
modules themselves, or at the head of the part of the proof module that uses
them.

- **`PoolInv`** (`WorkerPool`) adds three facts to the type invariant,
  `Accounting` and `EventCoversQueue`: ordinals on the heap are not above
  `total` (`Fresh`: so a push really adds an element and `queued` grows by
  one), a busy worker holds an entry, and a worker in a callback already has a
  verdict. Lemmas about the cardinality of the busy workers (`BusyTake`,
  `BusyLeave`) carry the statistics; `PushAdds` and `RecordFrees` are what
  every submit and every recorded result does, used by all actions.
- **`Placed`** (`OnePlace` and `RunningIsHeld`) is inductive relative to
  `PoolInv`. The step that matters is `RetryPlaced`: the task is pushed while
  the worker still holds it, and is released in the same step.
  `SettledResultsStay` follows: whoever records a result holds the task, and a
  settled task is not held.
- **`JobsInv`** (`JobScheduler`) is `RunsCounted` with what the counts need:
  a ONCE job that ran is disabled and counted as completed, a cancelled one is
  disabled. A pass submits any number of jobs at once: that there are distinct
  ordinals for all of them is `PlacesExist`, and the pool's heap then grows by
  just as many as `total`.
- **`BulkheadInv`** is inductive with nothing added, once `ChangeConserves`
  says how the owners of permits change in each kind of step. The refinement
  maps the owners to `inside` and the semaphore's value to `permits`; every
  action is a `LetIn`, a `LetOut`, a `Replace` or a stutter.
- **`BreakerInv`** (`Resilience_proofs`): the state is closed and the lock is
  either free or held by a stuck caller. It is inductive because the only way
  out of the closed state begins with recording a failure that acquires the
  lock and ends in acquiring it again.
- **`HandlerInv`** (`Resilience`): `RetriesHold` with where a call stands in each
  of its places. That the delays double is a fact about a recursive function
  (`Doubled`).
- **`LimitsInv`** (`Requests`) relates what the logs of granted requests say
  about *every* interval to the limiter's own few variables: the tokens left
  and what was granted since any instant stay in the capacity and the refill
  since then; a request still in the window is in the limiter's list; a period
  that ended gave at most its quota. **`SecurityInv`** is `RolesInv` (an
  assigned role exists), `TokensInv` (a token the registry forgot is past the
  expiry the registry had for it, and its `exp` is at most the server's distance
  from UTC behind that) and `TrailInv` (the
  trail is the end of the log, without gaps). **`RequestsInv`** keeps that what
  was admitted and still counts is in its client's list. **`ComplianceInv`**
  keeps ids of consents unique and each store at what was last set. Together
  they are `GuardsInv`.
- **`BusInv`** (`EventBus`) says of each walk how far it is in which list, of
  each task that its handler starts events in the order of their publication,
  and that whatever is due and not started has a task or a walk. **`RouterInv`**
  says that the rules are sorted, that the cache holds exactly what the rules
  say, and that retries are the failures counted; `AttemptsExplained` beside it
  says of every handing over how it ended. **`BrokerInv`** is the type of the queues
  with `QueuesHoldTheLatest`, for consumers that take messages as for those of the
  code, which do not.
- **`CacheInv`** (`MultiTierCache`): how far each await leaves the tiers from
  being settled (`ClientWay`), that a client under way is alone, that the
  write-back works on what is queued (`ProcessorWay`), and who uses the queue
  (`QueueUse`). `Coherent` only speaks of quiet states and is not inductive.
- **`ConnInv`** (`Delivery_proofs`, as the following) adds to `IndexesAgree` that
  a client that is not connected has no subscriptions: this is what makes a late
  subscription harmless and the removal by the client's own memory complete.
- **`WalkInv`**: an undisturbed broadcast still has the audience it started
  with, and what it visited is part of it. With it, a broadcast that ends
  cannot have met a resized container.
- **`AlertInv`**: the queue, the alert in hand and the settled ones share
  nothing; the history is in the order of creation, and what is missing from it
  was pushed out by enough that came later (`HistoryInv`); while nobody leaves,
  the listeners called are those before the position (`ListenersInv`). That the
  queue sorted by its key exists at all, and holds what was put into it, is a
  lemma of its own (`SortedIs`). Each step of the alerts is a step of the
  connections or leaves them alone (`AlertsConnect`), so `ConnInv` and `WalkInv`
  carry over; the other way round, others who broadcast never take away the
  broadcast of an alert (`BroadcastsStay`).
- **`HooksInv`**: each delivery is in exactly one of four places, tries and
  completion agree, and the counters of a webhook are the sum of the tries and
  the number of successes over *its* deliveries. The sum is a fold over a set
  that grows; `TriesAdded` turns it into a function that lemmas can add to.
- **`ItemsInv`**: items not yet tried are untouched, a failed one is queued or
  in the worker's hands once, with the count of its tries, and a record of a
  success is the last of its item.
- **`StreamInv`**: the buffer is in order of priority and age; what has been
  handed over and what is still to come of an event (its emitter's pass, and
  its place in buffer or batch) are two at most; a pass nobody left during has
  called exactly the subscribers before its position.

Of the parts of `Platform`, in `Platform_proofs`:

- **`ScalingInv`** is `CountsAgree` with the types; the two action properties need
  an analysis of a pass, which folds one policy after another over the same
  services. Proving `LoadDecides` showed that its first form was false outside
  the run's constants: the policy whose minimum is reached need not be the
  governing one, but may be one whose mean is below. The statement now says so.
- **`BalancingInv`** keeps for every name the list the rotation goes over and the
  places it gave out (`TurnsAround`): they follow each other cyclically, so any
  two instances differ by at most one turn. Ids in `byId` are apart.
- **`DeploymentInv`** is `StatusTellsStages` for every deployment made, kept or
  forgotten. **`IntegrationsInv`**: an adapter that is active has an open session
  or a call under way that will settle its status; an activation that waits for its
  second answer on an earlier session has a later one open, unless it was overtaken
  (`NewestCall`).
- **`WorkflowsInv`** relates what each workflow has done, the results it keeps
  and the status of the client's tasks (`WorkOK`, `ForwardOK`); **`MemoryInv`**
  bounds the thoughts of an agent from below by the sum over all workflows of
  what they spent on it (`Spending`). **`CommunicatorInv`**: an agent without a
  channel was never sent anything.
- **`SearchInv`**: a search that is alone has in `shared` what it opened, as far as
  it has got, and nothing else of it is open; **`AnswersInv`** says of every use
  case what it can have answered and saved.
- **`SeriesInv`** is only the type of a series. What follows from it are the
  identities of `SeriesHold` and `SeriesMeasured`, proved for series of every
  length: sums are followed from element to element (`Runs`), the slope of a
  series turned round or raised by a constant (`SlopeTurned`, `SlopeShifted`), the
  relative strength of one turned round (`RsiTurns`), how many values the quartiles
  leave (`OutliersAreFew`), means of parts between minimum and maximum
  (`ResampledAddsUp`), and that n times the sum of the squares is at least the
  square of the sum, with equality for a constant series only (`SpreadIs`).

and in `Parts_proofs`:

- **`LocalInv`**: every tag of an entry finds it in the index, and what was set is
  there, deleted, evicted or expired. **`RedisInv`** says of a live key that
  the tag has it and lives as long, but for the cases `TagReaches` names, and of
  each client what it has got to between its awaits; **`QueryInv`** has one plan per query;
  **`WarmInv`** no warmer
  awake without a strategy, but for the item on its way.
- **`SocketsInv`**: the lists and the table tell who is connected (`Books`), and a
  walk has sent to the sockets before its position or to some that left since
  (`WalkSends`, `WalkOver`).
- **`RabbitInv`**: each message is ready, held or settled, and in one place
  (`QueueOK`); held ones are of the live channel and at most a prefetch for each
  consumer (`ChannelOK`); the statistics are sums over the messages (`CountsOK`).
- **`HealthInv`** says where each thread is, and that the manager a thread was given
  while none was being made is the one that stays (`Settled`). **`MetricsInv`**: the values of a counter rise to its count;
  **`AlertsInv`**: an alert is on exactly when the last value triggers it;
  **`EngineInv`** knows the state of a rule from how long its condition held;
  **`JournalsInv`**: a log is the end of what it was told, and in time.
- **`PolicyInv`** bounds the effectiveness by the best that so many successes can
  give. **`RecordsInv`** and **`ValuesInv`** keep reports, events, signals,
  confidences, dates and money well formed; that a date moved and moved back is
  the same, or the last of its month, is shown over the lengths of months.
- **`DetectorInv`** tells who was isolated from the scores that were seen. That no
  value of a baseline of up to seven deviates is Samuelson's inequality (a value
  is at most sqrt(n - 1) deviations from the mean), proved from the squares.
  **`MarketInv`**: the total counts each segment made, its sizes each id once;
  **`PredictorInv`**: the forecaster holds the data of the last call that gave
  enough (`IsCall`).

The invariants of a composition are the conjunction of those of its parts
(`GuardsInv`, `PartsInv` of `Delivery_proofs`; `OperationsInv`, `MonitoringInv`,
`KnowledgeInv`, `ApplicationInv`, `StorageInv` of `Platform_proofs`), since a step
moves one part only.

### Lemmas

`Lemmas` holds what several proofs need and no component is about. Induction is
over well-founded sets (`LeastElement`, `SetInduction`, `SubsetInduction`): the
library states the principle with an operator for a parameter, which the provers
cannot instantiate, so here it is stated with a *set* of the values for which the
claim holds. From it come functions defined by recursion (`Recursion`,
`RecursiveFunction`), sums over finite sets in any order (`SumAnyOrder`,
`SumSplit`, `SumChanges`; that the folds of the models are such sums is shown
where they are used), sorting (`SortExists`), filtering (`SiftStep`, `OnlySteps`, `OnlyRange`), counting
the values of a list (`RangeCounts`), and lists as Python uses them: what `append`, `pop`, `remove`,
`insert` and slices make of a list's elements, order and length.

### Model-checked only

- Liveness: `PoolLives`, `JobsAreRun`, `WaitersGetIn`, `PendingDrains`. It rests
  on fairness and on `ENABLED`, which these provers do not treat.
- That the models of the four runs with a counterexample fail as they do is
  shown by the counterexamples, and needs no proof.

No module uses a `RECURSIVE` operator.

## 5. Where code and documentation part

### Shown by a run

- **Retries are unbounded** (`WorkerPool_retries`). `workers.py:300` compares
  the retries of a result made afresh for each attempt.
- **The breaker deadlocks instead of opening** (`CircuitBreaker_opens`).
  `patterns.py:144` awaits `_transition` under the lock it asks for again.
- **A write-back forgets a newer value** (`Caching_writeback`).
  `multi_tier.py:267` removes by key what a `set` queued during the write.
- **Critical alerts go last** (`Delivery_priority`). `alert_service.py:123`
  sorts with `reverse=True` by a key that is true for the others.
- **A plain value is never returned** (`Resilience_plain`). `patterns.py:328`
  awaits what the function answered inside the only timeout: a function that
  returned a plain value is run again and its call ends as failed, where
  `tests/test_step16_advanced_features.py:541` asserts its value. (A function
  that hangs is not timed out either.)

### Against a comment, a docstring or a test, without a run

The models do what the code does; a property that says what the text says would
fail in them. None of the properties of the runs that pass claims the text's side,
and none says that the code's side is right.

- *A revoked token is accepted again.* `revoke_token` is to "add to blacklist"
  (`jwt_handler.py`). West of UTC the `exp` of a token lies hours after the
  expiry of the registry (`jwt_handler.py:57`, `90`: `timestamp()` of a naive
  `utcnow()`), and `cleanup_expired_tokens` (188) forgets the revocation by the
  latter. `RevocationsHold` and `RefusedForGood` say exactly when that happens.
- *Nothing is audited.* "Automatic audit logging" (`audit_middleware.py:22`):
  every call of the audit logger (98, 204, 294) passes a `context` that it does
  not take and raises `TypeError` instead, also when the request took effect. The
  way back of the middleware in `Requests` ends so.
- *The in-memory broker never delivers.* "Subscribe to in-memory queue"
  (`broker.py:462`): the callback gets nothing. The loop of `subscribe` looks
  for the id of the subscription in a set of callbacks (467) and ends in its
  first round; `unsubscribe` discards an id from sets of callbacks.
  `QueuesHoldTheLatest` holds for consumers that take messages as well.
- *Attempts are not bounded by `max_retries`.* The retry middleware counts a
  message after it was routed (`router.py:136`), which a call that was cancelled
  skips: it may be handed to handlers again without end (`AttemptsBounded`).
- *Broadcasts of events reach nobody.* The event broadcaster is to "broadcast
  system events to WebSocket clients"; it sends to `workflow:{id}`
  (`connection.py:219`), the routes keep sockets under `workflow:{id}:{client}`
  (`routes.py:27`). `TableTells` is about the channels the routes do connect.
- *An engine rule with ">=" is evaluated as ">", and "<=" as "<"*: the tests for
  ">" and "<" in the condition come first (`advanced_monitoring.py:268` to 271),
  so that those of 274 to 277 are never reached. `FiresAfterDuration` leaves these
  two conditions out of "whenever it has held".
- *A signal cannot be verified.* `Signal.verify` uses `Confidence.HIGH`, which
  does not exist (`signal.py:164`), and raises; `tests/unit/domain/test_entities.py:33`
  verifies one. `is_expired` of a market event (`market_event.py:154`) is never
  true of one that was ended, for it asks for an ongoing event; with `Signal.verify`
  a step without effect, `Domain` has no property about either.
- *Health checks get lost.* `get_health_check_manager` is to give the one manager;
  two threads that find none make two (`metrics.py:622`), and checks registered
  with the first are never run.
- *Reports and signals are never made.* `Report.create` and `Signal.create` are
  given keywords they do not have and not all they need, where a use case is to
  "generate comprehensive competitive intelligence reports"
  (`competitive_intelligence_usecases.py:297`): such a call ends in a failed
  answer, or the signal is passed over. `ToldIsSaved` is about what the answers say was made.
- *A detector that "isolates"* calls a score isolated when it is further from the
  training data than the score before it (`anomaly_detection.py:127`): the
  threshold is the last score and no quantile.

### Seen while modelling, in the models

The source promises nothing that these break, or the promise is a mere name:

- `WorkerPool.get_result` returns a result of status RETRYING although the task
  will be executed again (`workers.py:221`).
- CRON and PERIODIC jobs are accepted and never run: only INTERVAL and ONCE get
  a `next_run`.
- The bulkhead's capacity test reads a queue nothing is put on
  (`patterns.py:222`): any number of calls wait.
- `requests_per_hour` and `burst_size` are enforced by nothing
  (`limiter.py:372`); the remaining-requests header is computed from a
  cumulative count and goes below zero (`limiter.py:424`); a request refused by
  one limiter still uses up the other's budget (`limiter.py:419`), so that less
  than either allows may be granted.
- A message without a handler, or refused by a middleware, is never counted by
  the retry middleware (`router.py:207`). A handler that routes a message
  itself would wait for the router's lock for ever (`router.py:188`).
- When L1 expires while a write-back is queued, a get reads the older value
  from L2 and puts it back into L1 (`multi_tier.py:145`). `Coherent` excludes
  this case (`calm`).
- The result of `l2.set` is ignored: a cache that reports failure by returning
  `False`, as `RedisCache` does, loses the queued value (`multi_tier.py:264`).
- A get that missed L1 may fill it with what L2 held before a set or delete
  that ran meanwhile (`multi_tier.py:152`).
- A broadcast that raises leaves the clients it found dead connected
  (`connection_manager.py:233`).
- Alerts made by rules never enter the history, so they are never active and
  cannot be resolved (`alert_service.py:280`). A full queue drops a queued
  alert even for a less urgent newcomer.
- `next_retry` of a webhook delivery is computed with "Exponential backoff" and
  never consulted (`webhook_manager.py:255`); `get_webhook_stats` counts a
  delivery once per attempt, all by its last outcome (`webhook_manager.py:360`).
- Every stream event is handed to its subscribers twice, by the task that
  emitted it and by the processing task; a stop loses the batch in hand
  (`streaming_service.py:294`).

Of the guards:

- A plain setting made after a secret of the same key is never read
  (`SecretsShadow`). The overall compliance percentage leaves out shares of zero
  and may therefore fall when a first requirement is verified
  (`compliance.py:340`); a consent recorded again keeps its place.
- `authentication_middleware.py:84` cannot be imported, and
  `SecurityHeadersMiddleware` (`security_middleware.py:102`) not constructed.

Of what runs the engine:

- Every health check of an instance fails: `ClientTimeout` has no argument
  `seconds` (`load_balancing.py:403`). Nothing raises `connection_count`, by which
  LEAST_CONNECTIONS chooses. Failures counted under an id are those of the next
  instance with that id, too.
- `IntegrationConfig` has no `get_secret`, which Jira and ServiceNow ask for
  (`jira_adapter.py:74`); a client's config that has one is needed. An
  activation of an adapter that another one, and a deactivation, overtake leaves it
  active with a closed session (`integration_registry.py:70`); the session that is
  replaced is never closed. A sync counts as a success although its metadata could not be fetched.
- `check_metric` answers with the last alert only, and the alert history holds live
  objects.
- Cooldowns are a policy's, the time of the last scaling is the service's
  (`orchestration.py:316`): a service that was scaled by one policy may be scaled by
  another before the cooldown of the first has passed (`OncePerCooldown`).

Of what makes its answers:

- `boost` lowers a score above 95, `reduce` raises one below 5
  (`confidence.py:156`, `161`). A policy's effectiveness never passes 91.
  `days_until` rounds down and `days_since` up. `mark_ended` accepts an end before
  the start; `with_file_path` completes any report, a failed one too.
- A flat baseline hides every outlier. A segment created twice is
  counted twice (`market_analysis.py:91`). A forecaster fitted with less than two
  values keeps those of the predictor that used it before (`predictive_models.py:63`).
- The orchestrator gives analysis, strategy and report agents no services
  (`orchestrators/__init__.py:94`), so their tasks fail and the workflow is
  COMPLETED all the same. The id of a market workflow is made of the number of
  its markets (`:237`), so later ones take the place of earlier ones.
- Companies of the domain have a name that is a plain string, on which
  `company.name.value` raises. Unverified
  signals are dropped by default, and a search makes no others
  (`competitive_intelligence_usecases.py:119`).
- Every `initialize` of the browser provider launches another browser
  (`playwright_provider.py:65`) over the one there was, which nobody closes then;
  a failure half way, or a cancellation, leaves what was opened; and `close` closes
  what is there by then, another search's included (`BrowserOwned`). A search that
  asks a closed page answers as if it had found nothing 
  (`competitive_intelligence_usecases.py:100`).
- The results of the browser provider have no `get`, by which the search reads
  them (`competitive_intelligence_usecases.py:168`), so that none becomes a signal;
  the model lets some, as the dicts of the browser in the tests do. And the packages `vector_store` and `knowledge_graph`
  that other code imports are not in the repository (`.gitignore:51`, `55`).

Of what it stores and sends:

- `optimize_query` says full scan where `analyze` says index seek (`query.py:353`,
  `173`). A put into a full query cache evicts another entry also when it replaces
  its own. `active_keys` of a `RedisCache` grows with every set of one key
  (`cache.py:266`); `delete_by_tag` deletes a key that was set again without the
  tag. The set of a tag lives as long as the last key put into it
  (`cache.py:261`), so that it may be gone before a key that was put there earlier;
  and a deletion that overlaps a set may take the tag's entry and leave the key
  (`TagReaches`). Two `synchronize` of one key end each other's pending state, and
  a cancelled one leaves it (`multi_tier.py:437` to 446). The item that a warmer is
  writing when its strategy is removed may still be written (`WarmingStops`).
- A member that leaves during a broadcast shifts the list, and another is
  skipped (`WalksReach`).
- `RabbitMQBroker` counts a message as acknowledged before it acknowledges it, and
  without `enable_ack` it counts and never does (`broker.py:306`), so that a
  channel stops at its prefetch. A callback that always raises gets its message
  again for ever. `unsubscribe` only forgets the callback. A failed declare, bind
  or purge closes the channel, and nothing opens it again but `connect`.

## 6. What is not modelled

| part | why |
|---|---|
| LLM providers and router (`llm/providers.py`) | the provider classes leave abstract methods unimplemented: none can be constructed, and the router needs one |
| tool registry (`tools/tool_registry.py`) | imports `ToolProvider`, which `core.domain` does not have |
| repositories and tables (`database`) | SQL; `models.py:177` cannot be imported |
| authentication middleware | cannot be imported (section 5) |
| `IntegrationMonitor` | `check_all_integrations` calls `.items()` on a list and raises before it records anything (`integration_monitor.py:101`) |
| deployment configuration (`deployment/config.py`) | `load_from_env` raises `TypeError` for every environment; the rest is constant text |
| analytics (`analytics`, `analytics_service.py`, `analytics_use_cases.py`) | figures over samples that the code makes up; a name they import does not exist |
| `infrastructure/monitoring.py` | hidden by the package of the same name |
| `Company` | an immutable record of fields |
| browser provider (`browser/playwright_provider.py`) | a wrapper around Playwright; `UseCases` has `initialize`, `close` and the pages that searches share |
| report generation (`reporting_service.py`) | imports names that `core.infrastructure.monitoring` does not have (line 21) |
| REST routers and CLI | validation, formatting, constants; health and security routes are modelled |
| `src/agents`, `src/memory`, `src/config` | stubs and settings |

Within the modelled components the following is left out: durations, time
stamps that nothing compares, logging, the text of errors, and getters; the
LEAKY_BUCKET strategy, which has no code; `remove_middleware` of the router,
rules of `AlertService` being registered or disabled, `exclude_client_id` of a
broadcast; LEAST_CONNECTIONS, RANDOM and IP_HASH; `health_check_all` of the
integrations, which iterates over a dict across awaits; Slack's, Jira's and
ServiceNow's ways back from data they refuse without a request; `TaskScheduler` of the
orchestrator and `AdaptiveCache`, whose entries nothing uses; `get_cache` and the
`cached` decorator; features of text, MACD and tracing. `PROJECT.json` names for
each component what its status *partly* stands for.

Threads are in the models only where requests meet them (`Monitoring`): all
other code runs on one event loop, and the RLocks elsewhere span whole calls.

## 7. Plan

Done: every component of section 2 is modelled and checked, and the safety of all
of them is proved.

Left, the most important first:

1. **Operations left out**: the remaining algorithms of the balancer, the handlers
   of `health_check_all`, `TaskScheduler`, `get_cache`, features of text and MACD.
2. **Stronger statements about series**: the identities proved are those a reader
   of the code would expect; error bounds of the forecasts against data of a given
   shape are not stated.
3. **Liveness of the parts of `Platform`**: what of it must eventually happen is
   left to time and to clients in the models; a fair loop of the orchestrator, of
   the warmer and of a walk over sockets could be stated and checked.
