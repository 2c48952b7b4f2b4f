# A TLA+ model of SprinGo

SprinGo is a Go framework in the manner of Spring Boot: dependency injection,
transactions with propagation, an event bus with a transactional outbox and a
dead letter queue, a job scheduler with a database lock, migrations, an ordered
start and shutdown, and a web layer with middlewares, interceptors and
authentication. This directory holds TLA+ modules of its stateful parts, TLC
configurations that check them on small instances, and TLAPS proofs of what
matters most for every instance.

Paths below are relative to `src/`; line numbers are in `PROJECT.json` ("map").

## 1. Inventory

| Component | State | Operations | Talks to |
|---|---|---|---|
| Worker pool (`framework/event/event_bus.go`) | current pool, its queue and three WaitGroups, rejection policy, discard counter | `StartWorkerPool`, `StopWorkerPool`, `dispatchToHandler`, worker loop | listeners (which may publish), the poller goroutine |
| Transactional outbox (same file) | rows of `springo_outbox`, the in-memory `outboxCounters`, the poller lock row | `Publish`, post-commit `DispatchPendingEvents`, `pollPendingEvents`, `finishListener` | transactions, worker pool, DLQ, other replicas through the database |
| Dead letter queue (`retry_manager.go`, `web/actuator_handlers.go`) | rows of `springo_failed_events` | `handleFailure`, `ProcessDLQ`, actuator retry and purge | scheduler (the retry job), other replicas |
| Scheduler (`framework/scheduler/manager.go`) | `schedulerRunning`, stop channel, cron engine, loop goroutines | startup sequence, start, stop, manual trigger | lock table, application lifecycle |
| Job lock (same file) | one row per job in `springo_shedlock` | acquire and release in `executeWithLock` | other replicas |
| Transactions (`framework/database/transaction.go`) | physical transaction and event buffer in the context | `Transactional` under seven propagations, post-commit hook | event bus |
| Migrations (`framework/database/migrat*.go`) | lock row, migration records, schema | migrate, rollback, reset, refresh, heartbeat | other replicas |
| IoC container (`framework/ioc/container.go`) | definitions, `sync.Once` per singleton, bean cache | register, get, replace, clear | every component |
| Application (`framework/app.go`, `framework/lifecycle`) | server, shutdown-once, cleanups, hooks | bootstrap, run, shutdown | all of the above, in a fixed order |
| Key cache (`framework/security/jwks_client.go`) | keys, two timestamps, fetch mutex | `GetPublicKeyWithContext` | key server |
| Requests (`framework/web`: dispatcher, interceptors, middlewares) | per request: interceptors passed, transaction, temporary files, registry; shared: the pool of request states | the chain of `CreateDefaultRouter`, `Dispatch`, `DispatchTx` | security, container, transactions, span exporter |
| Span exporter (`framework/web/tracing.go`) | bounded queue, batch, stop channel | capture, flush, close | requests, collector |
| Security decisions (`framework/security`, `web/security_middleware.go`) | none | configuration, token and claim validation, roles, LDAP | key cache, directory |
| Cache (`framework/cache`) | bounded map with expiry | get, set, evict, increment | services |
| Configuration, validation, response capture, i18n, auditing, repositories, CLI, demo | none that several actors share | translation and lookup | |

The hard behaviours, and what makes each component correct:

* **Worker pool.** Publishers, workers, fallback goroutines and the poller race a
  shutdown. No send may meet a closed channel, no accepted task may be lost or
  survive the shutdown, drops are counted, the shutdown ends.
* **Outbox.** A row is complete only when every listener ran or was discarded by the
  pool (or when its publisher had no listener for it, section 6), is never taken up
  again, and reaches every listener in the end across crashes.
* **DLQ.** One retry of an event at a time over all replicas and the actuator, no
  resurrection of a recovered event, nothing stuck.
* **Scheduler.** Start and stop in any order, no second loop of a job, nothing that
  runs after the stop, critical startup jobs first.
* **Job lock.** One pod at a time within the lease, lock-at-least-for honoured, no
  lock for ever.
* **Transactions.** Events are dispatched exactly when the writes of their scope
  are committed.
* **Migrations.** One migrator at a time over all replicas, as long as its heart
  beats; the control table says what the schema is, after every crash, failed
  statement and broken lock.
* **Container.** One instance of a singleton however goroutines race for it; a
  resolution ends, with an error for a goroutine that walks a cycle of bean
  definitions (a cycle through a plain factory is not found, section 6).
* **Application.** Everything that was opened is closed, once, producers before
  consumers, whether the bootstrap failed, a signal came or several goroutines
  shut down at once.
* **Requests.** What a request took it gives back, wherever it was refused, failed
  or panicked; the client is answered, once (in a transaction the answer may be cut,
  or followed by an error); identities do not mix.
* **Span exporter.** What was accepted leaves in a batch, also when the exporter is
  closed around it; a batch that cannot be posted is discarded.
* **Key cache.** The key server is spared; a key that was withdrawn dies.

## 2. Modules

| Module | Models | Proofs |
|---|---|---|
| `WorkerPool` | worker pool and its shutdown, statement by statement | `WorkerPoolProofs` |
| `Outbox` | one published event: row, dispatches, counters, pollers, crashes | `OutboxProofs` |
| `DLQ` | one failed event: retry jobs, manual retries, purges, faults | `DLQProofs` |
| `Scheduler` | startup sequence, start and stop calls, loops, cron, manual triggers | `SchedulerProofs` |
| `Lease` | what a job lock promises (abstract) | |
| `ShedLock` | `executeWithLock`, implements `Lease` | `SchedulerProofs` |
| `Transaction` | nested calls of `Transactional` in one goroutine | `DatabaseProofs` |
| `Migration` | replicas that migrate, roll back, reset and refresh one database | `DatabaseProofs` |
| `Container` | goroutines that resolve beans | `ContainerProofs` |
| `Application` | bootstrap, `Run`, `Shutdown`, hooks, and what uses the database | `ApplicationProofs` |
| `Paths` | matching of paths by interceptors and by the security middleware (operators) | |
| `Request` | requests through middlewares, interceptors and dispatcher; the exporter | `WebProofs` |
| `Security` | configuration, tokens, claims, roles, LDAP (operators, with their own checks) | |
| `Jwks` | requests that authenticate with cached keys | `WebProofs` |

Each `MC` module gives the constants of one of them values that a configuration
file cannot write down. Where the proofs about two modules share a module, one of
the two has longer names for its specification: `LockSpec` of `ShedLock`, `TxSpec` of
`Transaction`, `KeysSpec` of `Jwks`.

The modules meet at named places: the pool treats a listener as a task and the
outbox treats the pool as "a queued task runs or is dropped"; the outbox takes the
poller lock as held or free, the protocol behind it being that of `ShedLock`
(`acquirePollerLock` is the same code with other constants); the scheduler takes a
skipped lock as a job that returns; the DLQ's retry job is a job of the scheduler;
`Transaction` ends where the post-commit hook hands the buffer to the event bus,
and `Outbox` starts with the commit of a publishing transaction. `Application`
starts and stops the parts the other modules model and reduces each to what a
shutdown waits for (`tasks`, `running`, `inflight`). `Request` takes a token as
accepted or not and a transaction as committed or not, which are the subjects of
`Jwks` and `Transaction`. `Jwks` EXTENDS `Security`, `Request` EXTENDS `Paths`.

### How state and actions correspond to the code

* **WorkerPool.** `currentPool`, `poolStopped`, `rejPolicy`, `discardedEvents` are
  the package variables of the same name; `accepting`, `queue`, `closed`, `worker`
  are the fields and goroutines of a pool. `dispatch[t]` is where the publishing
  goroutine is in `dispatchToHandler`: between `poolMu.RUnlock` and `pool.mu.Lock`
  ("registered"), before the send ("accepted"), before `handleUnsentTask`
  ("unsent"), before the deferred `publishers.Done` ("returning"). `exec[t]` is what
  became of the listener. The WaitGroups are the sets they count. `stopPc` walks
  through `StopWorkerPool`, one action per statement that can block or be seen.
  `Publisher[t]` makes re-entrance explicit: a listener that publishes is blocked
  until its call returns.
* **Outbox.** `row` is the status column, `counterOf` and `counter` are
  `outboxCounters`. `finishListener` takes four steps, as in the code: look up,
  decrement, delete the entry, complete the row. Time is what the code compares:
  `aged` (5 s), `stuck` (5 min), an expired lock. `knows` are the replicas that have
  listeners for the type of the event, any subset, and `readable` says whether
  `json.Unmarshal` accepts the payload. A replica without listeners completes the row
  at once as the publisher (`PostCommitUnheard`) and leaves it PROCESSING as the poller
  (`PollUnknownType`). `dropped` is history: the listeners whose task the pool discarded,
  which `finishListener` counts like the others. One abstraction: replicas have the
  same listeners for the type, or none; one with some of them would complete the row
  after its own, just as one with none does.
* **DLQ.** `row` has the columns the WHERE clauses read; `snapshot` is the copy
  `ProcessDLQ` carries into `db.Save`.
* **Scheduler.** `running`, `stopChan`, `cronManager` are the package variables; a
  start call names the channel and the cron engine it makes. A loop goroutine reads
  the stop channel in an action of its own because the code evaluates it inside the
  new goroutine.
* **ShedLock.** One row, one `pc` per call of `executeWithLock`; `start` is the
  `now` the call has read, which it uses in its WHERE clauses later.
* **Transaction.** `stack` holds the calls under way with what their context
  carries (`txKey`, `eventsKey`) and, for a savepoint, what it remembers. `doomed[t]`
  is `tx.Error`, `buffer[t]` is `eventBuffer`, `pending[t]` the uncommitted writes, each
  named by the depth of the call that began the transaction. An error and a panic
  differ only where the code treats them differently (the buffer, when the
  rollback to a savepoint fails). A caller that swallows an error is one that
  goes on after the action in which its callee fails.
* **Migration.** `lock` is the row of `springo_migrations_lock`, `records` the control
  table, `effect[m]` how often `Up` of a migration was committed less how often
  `Down` was. `run[r]` is where a replica is in `Migrate`, `Rollback`, `Reset` or
  `Refresh`, with the record of the migrations it read before (`seen`, `todo`), which
  another replica may make stale. The heartbeat is part of `Tick`; a replica in
  `stalled` misses it. The comparison of versions is translated literally:
  numeric parts first, then the strings, given by their rank. What `sort.Slice`
  and the filter of the baseline leave is any order in which each name comes
  before the next one (`Orders`); versions and ranks allow one.
* **Container.** `once[d]` is the `sync.Once` of a definition (with the goroutine
  inside), `beans` the cache of finished instances, `typeMatches` the cache of type
  look-ups. The stack of a goroutine is its calls of `GetBeanScoped`; the cycle check
  looks at the names in it, which is what the code carries in the context.
* **Application.** `pc` walks through `BootstrapE`, `Start` and `Run`; `cleanups` is the
  list of deferred functions; `once` and `stage` are `shutdownOnce` and the place in
  `doShutdown`. `resource[r]` is what was opened. Callers of `Shutdown` are the main
  goroutine, the watcher of the context, and others.
* **Request.** `req[r].at` names the middleware a request is in, on the way in and out;
  `panicking` is a panic on its way up, which each deferred function meets in its
  turn. `pre` counts the interceptors that let it pass, `after` the calls of
  `AfterCompletion`. `holder[s]` is the identity a pooled state carries, `free` the
  pool. `answers` are the statuses written, in order, of which the client sees the
  first: "cut" is a success whose encoder panicked after the status, "blank" the empty
  200 that `net/http` sends when an interceptor refuses without writing. Bodies of
  errors are taken to encode, and controllers to answer by what they return, not by
  writing to the `ResponseWriter`. `queue`, `batch` and `exporter` are the fields of the
  exporter; `sent` and `lost` are history: spans of batches that were posted, and of
  batches discarded because they could not be marshalled or posted.
* **Jwks.** `keys`, `lastSuccess`, `lastAttempt`, `fetchMu` are the fields of `JwksClient`;
  `published`, `goneAt`, `asked` are the other side's. The fast path, the second look
  under the lock, the answer of the server and its arrival are separate steps.

## 3. Runs

| Run | Configuration | Question |
|---|---|---|
| `worker_pool` | 1 pool, 1 worker, queue of 1, 3 tasks (request, publishing listener, poller), 2 stops, 4 policies | are tasks safe against the shutdown, and does everything end |
| `shedlock` | 3 runs, 2 pods, durations 3 and 2, clock to 7 | does the lock implement the lease |
| `scheduler` | 3 startup jobs, 1 delay and 1 cron job, 2 starts, 2 stops | start and stop in every order |
| `outbox` | 2 replicas of which any may lack the listeners, 2 listeners, a payload readable or not, 2 faults | counters, claims, delivery |
| `dlq` | 2 workers, 2 manual retries, 2 attempts, 2 faults | exclusion, recovery |
| `transaction` | calls 4 deep, 3 writes that publish | do events and writes share their fate in every nesting |
| `migration` | 3 replicas, one of an older build; 3 migrations, 3 operations, 1 crash, 1 stall, with and without a baseline | one migrator; do records and schema agree |
| `container` | bootstrap and 2 goroutines, 5 beans in 6 graphs (a cycle of bean definitions, one of plain factories, one of both; one where a plain factory needs a later one), 1 fault or reset | one instance; does every resolution end |
| `application` | every subset of 4 optional parts, 2 datasources, 3 components with hooks, 2 requests, 1 further caller | the order and the completeness of the teardown |
| `request` | 5 programs: all middlewares with 4 routes and 2 interceptors, or 2 requests that share the pool or the exporter | is everything given back and answered |
| `jwks` | 2 requests, 2 keys, lifetime 3, interval 1, timeout 2, clock to 5 | is the key server spared, does a withdrawn key die |
| `outbox_slow` | as `outbox`, with listeners slower than the poller | a promise the code does not keep (section 6) |

**Why the bounds are enough.** One worker and a queue of one make "full", "empty"
and "worker busy" reachable with three tasks, and the three publishers cover the
three kinds of goroutine that publish; a second stop call shows the one that finds
nothing. Two pods are enough for every conflict over a row, and the third run is a
latecomer to a conflict of two; the clock reaches beyond two full leases. Two
starts and two stops give stop-start-stop and every overlap. Two listeners are
enough for a counter that is wrong by one. Two faults in `outbox` are crashes or
failed statements at any two points: one makes the poller take the row up, the
second leaves it PROCESSING with nobody at work. Four calls deep is a transaction,
a savepoint or a second transaction within it, a joined scope and one more; three writes are one before, one within and one after the scope that fails.
Three replicas migrate so that two can fight over the lock of a third that is
dead or late; the older build makes a record that a replica has no migration for;
three names have versions whose order as numbers differs from that as strings.
Two goroutines are enough to meet in one `Once` from two sides, and the graphs let
a bean be reached by name, by type, and through another. One further caller of
`Shutdown` makes three with the main goroutine and the watcher. The programs of
`request` switch on one thing at a time, since requests meet only in the pool and
in the exporter. The clock of `jwks` reaches one lifetime and one timeout beyond
the start, which is when a withdrawn key has to be dead. Bounds that cut behaviour off are constants
(`MaxTime`, `MaxRuns`, `MaxDepth`, `MaxOps`, `MaxTasks`, `Slots`,
`MaxFaults`, `MaxCrashes`, `MaxStalls`) or the history counters that stop at a
value the properties do not go beyond (`executed`, `attempts`).

Deadlock is not checked: every model may come to rest (all tasks done, the pool
stopped, the clock at its bound, the row gone).

### What the properties say

* `NoSendOnClosedQueue`, `DrainedWhenStopped`, `OnlyDiscardDrops`,
  `DiscardsCounted`: the shutdown of the pool. `StopReturns` and `QueuedTaskRuns`
  hold unless a listener publishes into its own full queue under "block".
* `CompletedMeansHandled`, `CompletedIsFinal`, `NoDoubleExecution`, `Delivered`: the
  outbox, under `Timely`. The first holds but for a publisher that has no listener of
  the type, and takes a discarded task for handled, as the code does. `Delivered` is
  about readable events that every replica knows: any other row may go from
  PROCESSING to PENDING and back for ever.
* `OneRetryAtATime`, `RecoveredStaysRecovered`, `RetryEnds`: the DLQ.
* `CriticalFirst`, `NeverPanics`, `StoppedIsQuiet`, `LoopJobsDoNotOverlap`,
  `StopReturns`: the scheduler. Where a start and a stop overlap, the code promises
  less, and the history variable `overlapped` says so in each property: the cron
  engine may be missing (a nil dereference), and a loop may keep a nil channel.
* `LeaseSpec` (refinement), `AtLeastHonoured`, `LockRunsOut`: the job lock.
* `EventsMatchWrites`, `FailedScopeLeavesNothing`, `DoomedNeverCommits`: transactions.
  They rest on one rule with a price: a joined scope that fails inside a savepoint
  dooms the whole transaction, because `tx.Error` stays set and the rollback to the
  savepoint is then refused.
* `OneMigrator`, `SchemaMatchesRecords`: migrations. A lock can be broken under a
  replica whose heartbeat is late; two replicas then migrate side by side, and the
  second property holds all the same, because the unique name of a record undoes
  the second `Up` with its transaction.
* `OneInstance`, `Resolves`: the container. `OneInstance` leaves out the plain beans
  that a factory called no later than theirs may need: the bootstrap calls their
  factory a second time (section 6). `Resolves` has two exceptions, both in a cycle of
  beans: two goroutines that enter it at different beans, each holding the `Once` the
  other waits for, and one goroutine that comes back to its own `Once` through a plain
  factory (`WaitsForItself`), whose `GetBean` forgets the names on the way. A cycle of
  bean definitions alone has to end in the error.
* `DatabaseOutlivesUsers`, `TeardownComplete`, `StopsOnSignal`: start and shutdown, with
  the exceptions of the code named in the properties.
* `Unwound`, `Answered`, `OwnIdentity`: a request. The exceptions of `Answered` are those
  of `DispatchTx`: an error after the answer, when the transaction fails, and a success
  that is cut and not followed by anything, when its encoder panics.
* `SpansAreFlushed`: the exporter. A span leaves the queue and the worker's hand in a
  batch, posted or discarded; it says nothing of the collector.
* `FetchesSpaced`, `RevokedKeyExpires`: the cache of keys.

What the operators of `Security` mean is stated as assumptions over small inputs in
that module, which the run `jwks` evaluates: where roles come from, which
settings that pass validation can verify a token, when LDAP lets a user in.

## 4. Fairness and assumptions

Weak fairness of a goroutine's next step is the Go scheduler: a goroutine that can
run does run, and listeners and jobs return. Strong fairness is used in two places.
`PollerExit` and `LoopExit`: a `select` with a ready ticker and a closed stop
channel picks at random, so the stop case is not passed over for ever. `PollLock`:
the tickers of the replicas are not in step, so none is late every single time.
Handlers and listeners that a shutdown waits for return (`EndJob`, `EndTask` in
`Application`); clients of the server need not: the drain has a timeout. Publishing, starting, stopping, crashing,
purging, migrating and requests are never fair.

`Timely` in `Outbox` and `DLQ` says that work ends before the interval that
declares it abandoned (5 s between commit and poll, 45 s of poller lock, 5 min of
processing). The code does not enforce it; the properties that need it say so, and
`outbox_slow` shows what happens without it. `Overlapping = FALSE` in `ShedLock` says
that a pod does not start a run of a job while it is in another one: fixed-rate and
fixed-delay loops guarantee it, cron entries do not (section 6).

In `Migration` a transaction is one step, as databases with transactional DDL give,
and only a replica in `Migrate` may stall: the Down of an operation that lost its lock
is not undone by a unique name, so for rollback, reset and refresh the code relies on
the heartbeat. No replica registers one name twice in Go code: `RegisterMigration` does
not look, and the second record would fail on the unique name. `Jwks` assumes what the constants of the code say, that the interval
and the timeout of the HTTP client are shorter than the lifetime of the keys.

The pods of `ShedLock` share one clock; the code compares clocks of different
machines, so skew is outside the model. The database executes each statement
atomically; a transaction that reads and then updates is two steps. Of GORM,
`Transaction` assumes that an error added to the `*gorm.DB` of a transaction stays
there and that later statements on it are not executed.

## 5. Proofs

The numbers of replicas, tasks, calls, migrations and so on, the durations and the
history bounds are arbitrary in all theorems; what a theorem assumes beyond the
assumptions of its module is in its statement.

* **WorkerPoolProofs**: `TypeCorrect`, `NoSendOnClosed`, `StopDrains`,
  `OnlyDiscardDropsAlways`, `DropsAreCounted`, for any tasks, workers, pools, stop calls, capacity,
  policies and publishers. None of the safety properties is inductive by itself.
  The invariant says, for each pool, how far its shutdown is and what that excludes:
  a captured pool has one stop call working on it, after `accepting = FALSE` no
  task becomes "accepted", after the wait for publishers none is left (and none can
  come, for the pool is no longer current), the queue is closed only then, workers
  exit only from a closed and empty queue, and tasks are in the queue exactly when
  they are marked so. Draining follows from the last two. For the count of drops
  the invariant adds that a queue holds a task once and that a worker runs a task
  no queue holds, so that no path drops a task that was dropped before.
* **SchedulerProofs**, the lock: `TypeCorrect`, `LockRunsOutAlways`, and, assuming
  `~Overlapping`, `ImplementsLease`, `OnePod` and `AtLeastHonouredAlways`. The invariant
  of the refinement: a run within its lease owns the row, the row expires no sooner
  than its lease, and no other run of its host is active, so nobody but the owner
  shortens it. For lock-at-least-for the row remembers the shorter duration of
  whoever had the lock last, and a run about to release whose host the row names
  is that one: a late release cannot cut the lock of a successor short.
* **DLQProofs**: `TypeCorrect`, `RetriesExclude`, `RecoveredIsFinal`. While somebody
  retries, the row is RETRYING and not stale, or gone, and after a recovery there is
  no row and nobody who could write one.
* **SchedulerProofs**, the jobs: `CriticalJobsFirst`, `NoPanic`, `QuietWhenStopped`, `LoopsExclude`
  and `StopReachesLoops`, for any jobs, start calls and stop calls. The invariant says
  of the channels, overlap or not, that a closed one is not that of a running scheduler.
  For as long as no start and stop overlapped it says more: one call is under way
  at a time, and the active cron engine and the loops that are left belong to the
  scheduler that runs, or to the one that the stop call under way is ending.
  `StopReachesLoops` is the safety that `StopReturns` rests on: a loop that a stop call
  waits for listens to the closed channel, or will read it when its goroutine begins.
* **OutboxProofs**: `CompletedRowsWereHandled`, `AtMostOnce` and `CompletedRowsStay`, all
  assuming `Timely`, for any replicas, listeners, dispatches in flight and faults. The
  invariant: one dispatch is under way at a time; its counter is the number of its
  listeners that have not yet decremented it, and one of them finds it used up; a
  poller that is past its lock statement has the lock, so the row it selected is
  PENDING until it claims it and PROCESSING until it dispatches it; a row that is old
  enough to be selected or stuck has no dispatch under way. Every task that the
  counter has seen ran or is in `dropped`; a row completed by a publisher without
  listeners is the one case apart (`Unheard`). Without faults the row
  never gets that old, which is why no listener runs twice then.
* **DatabaseProofs**, transactions: `TypeCorrect`, `EventsAlwaysMatchWrites`,
  `FailedScopesLeaveNothing`, `DoomedIsLost` and `CutsStayInRange`, for any items
  and any depth. The invariant: contexts point to open transactions at or below their depth; what is
  not open is empty; the buffer of a transaction without an error holds exactly its
  writes; a savepoint remembers a prefix of the buffer and the writes of that prefix,
  and inner savepoints remember longer prefixes, so that a rollback to one does not
  cut into what an outer one remembers; a write is pending in one transaction at
  most, and those of a failed scope in none that can still commit.
* **DatabaseProofs**, migrations: `LockExcludes` and `TableTellsTheTruth`, for any replicas, builds,
  migrations and timeouts. `OneMigrator` says nothing of the lock row; the invariant
  says that who holds with a beating heart is named by the row, whose heartbeat is
  at most one interval old, and that who is about to break the row read it no
  earlier than one interval ago and found it older than the timeout. So at a break
  no heart beats for the row, which is what the compare-and-set on the heartbeat is
  for. `TableTellsTheTruth` proves `SchemaMatchesRecords` under `BaselineDescribes`: where
  baseline-on-migrate is set, the baseline covers the migrations whose tables exist
  and no others, every build has them, and none of them has a Down. A baseline that
  is wrong about the database makes records that are wrong, and a reset that
  reverts baselined migrations empties the table, after which the next Migrate
  baselines again. The invariant ties `effect` to `records`, whose ids and names are
  distinct; once there is a record, each baselined migration has one; what a
  replica plans to apply was not there first (it may be recorded meanwhile, which
  the unique name catches), and what a replica plans to revert is recorded, once,
  since by `OneMigrator` nobody else reverts.
* **ContainerProofs**: `ContainerInvariant` and `OneInstanceHolds`, for any beans, types,
  graphs, goroutines and faults. `OneInstance` speaks of what was handed out; a call
  hands out what it finds in the cache or what its own factory made. The invariant
  says what lies between. `Kept`: every cache has instances under the name of their
  bean, and the cache of types beans of the type. `Stacked`: in a goroutine all calls
  but the last wait for a dependency, and that of `InitializeAllBeans` is the first.
  `Owned`: a call that is past its look-up of a singleton is inside the `Once`, is
  the only one there, and no cache has the bean yet. `Agree`: what was handed out is
  what the cache has, and so is what a finished `Once` keeps. `Turns` and `Reached`
  are about the bootstrap, which takes no `Once` for a plain bean: before its turn
  such a bean is not cached, unless the factories called so far can reach it. This
  last part is what fails for the beans the property leaves out.
* **ApplicationProofs**: `ApplicationInvariant`, `DatabaseOutlivesUsersHolds`,
  `TeardownCompleteHolds` and `HooksInOrder`, for any components, hooks, datasources,
  further callers of `Shutdown` and tasks. `Booting` is the argument for a
  bootstrap that fails: what is open has a cleanup (`Covered`), and the cleanup of
  the database is registered after that of telemetry at most (`Lowest`) and before
  those of the pool and of the hooks (`Layered`), so that it runs after them. `Stopped` and `Served` are the
  argument for a shutdown: each stage leaves behind what it stopped, and the server
  is down and drained, or the drain was forced, before the scheduler is looked at.
  `Entered` says that one caller is inside `shutdownOnce` and that nobody returns
  before the stages are through. `Prefix` and `HooksInOrder`: the hooks that have run
  are the beginning of the order, which has each component once.
* **WebProofs**, requests: `RequestInvariant`, `UnwoundHolds`, `OwnIdentityHolds` and
  `AnsweredHolds`, for any requests, pooled states, routes, interceptors, paths and
  settings, with a panic wherever user code, a resolver or an encoder runs. The invariant is a conjunct for each concern, about the record of one
  request and the place it is at: which interceptors it has passed and whether their
  `AfterCompletion` ran (`Passing`), what it holds (`Holding`), what was answered and
  whether it panics (`Answering`), whose identity it knows (`Knowing`). A lemma for
  each outcome of each handler says that the record stays `Sound`. What relates
  requests is `Pooled`: a request that has a state has it alone, outside the
  pool, and with its own identity or none; a state in the pool, and one no request has,
  carries none. `OwnIdentity` follows from the last, since a controller runs while its
  request holds the state. The listeners it leaves behind run when the state may
  have gone to another request, which is why they are exempt with pooling.
* **WebProofs**, keys: `ServerIsSpared` and `RevokedKeysExpire`, for any requests, keys,
  tokens and durations. The
  property speaks of what the server sees, the code guards what the client knows:
  the invariant says that the two agree (`asked = lastAttempt`) and that the lock is
  held by exactly the request whose answer is outstanding. `RevokedKeysExpire` assumes
  RS256 and a JWKS address, as the instance of the run has: then a key comes from the
  cache and from nowhere else. Its invariant: no key in an answer on its way was
  withdrawn before the request for it was sent, and no key in the cache more than
  one timeout before it was stored; an attempt that ended renewed the cache or is
  known to have failed.

**Model-checked only.** Every safety property of the runs is a theorem. The liveness
properties (`StopReturns` of the pool and of the scheduler, `QueuedTaskRuns`, `Delivered`,
`RetryEnds`, `Resolves`, `StopsOnSignal`, `SpansAreFlushed`) are checked by TLC alone, since fairness and
ENABLED are outside the prover's reach. So are the assumptions of `Paths` and `Security`
that compare the code's operators with what they should mean over bounded inputs:
they compute by recursion over data. The proofs about `Request` hold whatever
`MatchPath` answers.

## 6. What the documentation says and the code does not do

`outbox_slow` shows one of these as a counterexample: slow listeners make the poller
dispatch a row again, both dispatches count on one counter, and an event can be lost
in a crash. The others are part of the models (a guard, a disjunct, an exception
named in a property) without a run of their own; `PROJECT.json` quotes the sentences.

* Event bus: a replica that publishes without a listener of its own completes the
  outbox row, and the listeners of the other replicas never run; a discarded task
  counts as delivered; a row that cannot be unmarshalled, or that the poller's replica
  does not know, is polled for ever. A send under "block" can block for ever, when the
  workers are in such sends themselves. Two replicas that select a failed event together make one attempt
  more than `max-retries`. A manual retry reads no listener name and so runs every
  listener.
* Scheduler: "exactly one pod executes the task at any time" fails for a cron job that
  outlives its lease, even within the lease of its successor, since the release
  matches the host and not the run. `StopBackgroundJobs` does not wait for cron
  entries or manual triggers.
* Migrations: a baseline V2 does not cover V2__orders.
* Container: `InitializeAllBeans` calls the factory of a plain bean again when an
  earlier factory asked for that bean, and the first taker keeps another instance than
  later ones. A cycle of bean definitions is reported to a goroutine that walks it
  alone; two that walk it from two sides wait for each other for ever. A cycle through
  a plain factory is reported to nobody: one goroutine is enough, and the bootstrap
  with it, to wait for itself for ever.
* Application: initializers run after the worker pool has started. A `Shutdown` before
  `Run` has published the server is the only one there will be, and finds none.
* Requests: `DispatchTx` answers before the commit and removes no temporary files; when
  the encoder of its answer panics, the client has the status of a success whose
  transaction is rolled back; a
  panic in `PreHandle` leaves the earlier interceptors without `AfterCompletion`; the
  documented key that enables pooled states is not the one the code reads; a listener
  that outlives its request reads a state that was released. A flush under response
  capture repeats the body.
* Security: routes that ask for "ADMIN" do not accept the role the token filter makes of
  it; "rs256" is valid and refuses every token; the interval between fetches is
  shorter than the timeout of a fetch; LDAP has one host.

## 7. Plan

Done: the event bus (pool, outbox, DLQ), the scheduler and its lock, transactions,
migrations, the container, the application, requests with their exporter, keys.

Next, in this order:

1. `Cache`: expiry, bounded size, cache-aside against eviction.
2. Response capture within `Request`, and the health aggregation as an operator.

## 8. Not modelled

* Configuration loading, tag validation, content types, i18n, route registration:
  translation at start or within a request, without state that several actors share.
* Response capture and payload transformation: optional middlewares over one body.
* Health indicators, asked one after the other within a request; auditing, which
  writes one row per change in the caller's transaction; the generic repository.
* Parsing: SQL scripts, cron expressions, LDAP filters, headers, multipart forms.
* Cryptography: a signature is the name of the key that verifies it.
* Logging, errors, JSON, version, the command line tool, the demo, test helpers.

`PROJECT.json` lists every component with what is modelled of it.
