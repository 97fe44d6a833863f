# A formal model of pg-transactional-outbox

TLA+ modules for the transactional outbox in this repository: what the code does
when workers, relays, consumers, timers and the database interleave, fail and
restart. TLC checks small instances; TLAPS proves the properties that matter
most for every value of the constants. All paths below start at the repository's
root (`src/...` is its TypeScript).

## 1. The system

An application inserts events into the `outbox` table in its own transaction.
Processes claim rows under a lease, publish them to a broker, and mark them
COMPLETED, FAILED (to be retried) or DEAD_LETTER. Consumers keep an `inbox`
table so that an event that is delivered twice takes effect once.

| Component | State it keeps | Operations | Talks to |
|---|---|---|---|
| outbox table, `PostgresOutboxRepository`, `OutboxEvent` | rows: status, retry_count, lock_token, locked_until | insert, claimBatch, markCompleted, markFailed, markDeadLetter, renewLease, recoverStaleEvents, redrive, cleanup, queries | shared by all below |
| `OutboxWorker` | running, pollTimer, reaperTimer, heartbeatTimers, batches in flight | start, stop, poll, processBatch, processEvent, handleFailure, heartbeat, reaper | table, broker, `Semaphore` |
| `Semaphore` | permits, waiting | acquire, release | one per batch of an `OutboxWorker` |
| `ProcessOutboxUseCase`, `ReapStaleEventsUseCase`, `PollingRelay`, `NotifyRelay`, `PgNotificationListener` | isRunning, pollTimer, debounceTimer, the connection | start, stop, poll, process, onNotification, execute, reap | table, broker, LISTEN/NOTIFY |
| `PublishEventUseCase` | none | execute | table |
| `IdempotentExecutor`, `PostgresIdempotencyStore` | the `inbox` table | withIdempotency, getRecord, markProcessed, cleanup | the consumer's code |
| `RetryPolicy` | none | calculateBackoff (the worker drops its result) | |
| `BacklogLimiter` | none | checkLimit, getUtilization | counts in the table |
| `HealthChecker`, `MetricsCollector`, `WorkerMonitor`, `AlertWebhook` | lastHealth, lastAlertTime | check, collect, checkAndRecover, sendAlert | counts in the table, reaper statement |
| `EventStream`, `ReplayService`, `SnapshotManager` | iterator position, snapshots | iterate, replay, save | reads the table |
| `LogicalReplicationAdapter`, `CDCEventTransformer`, Debezium config | running, lastLSN, counters; the replication slot | start, stop, processMessage, getStatus, fromDebeziumMessage | the write-ahead log, `toggle-cdc` |
| `DashboardApi` | none; the client keeps its page | getRecentEvents | reads the table |
| `main.ts`, `EventSimulator` | the pool, timers, producers, producerIndex | checkConnection, shutdown, the HTTP endpoints | table, slot, everything above |
| `RetentionPolicy` | rules | addRule, removeRule, apply | cleanup of the table |
| `AuditLogger`, telemetry, encryption, redaction, upcasting, scripts | little or none | | |

What is hard here:

- **Leases against slow holders.** A lease can run out under a process that is
  alive; its marks arrive after the row has gone to somebody else, and only
  `WHERE lock_token = $2` stands in between.
- **One token per process.** `OutboxWorker` draws its token in the constructor,
  `ProcessOutboxUseCase` takes `Date.now()`. Overlapping batches of one process
  do not fence each other off.
- **Lost answers.** Every statement and every publish may take effect and report
  failure. The catch blocks then call `handleFailure` for rows that may already
  be settled.
- **Restarts with work in flight.** `stop()` waits for nothing; after `start()`
  the old batch and the new loop share timers and maps.
- **Wake-ups.** A `NotifyRelay` claims only when told to; notifications are
  debounced, may come before LISTEN, and are not repeated.
- **Two clocks.** Events are dated by the database, snapshots by the process that
  saves them, and a replay compares the dates.
- **Check, then act** in `withIdempotency`, `BacklogLimiter` and `toggle-cdc`.
- **One number for many calls.** The replication adapter reports one `lastLSN`,
  while calls of `processMessage` overlap and resolve in any order.
- **Several reads of a moving table**: the pages of a stream or a dashboard, the
  four queries of a health check, a list of rules that is spliced while it is
  walked.
- **Handlers nobody awaits.** Most HTTP handlers have no catch block, so one
  failing statement ends the process, with every timer it had set.

What makes each component correct: at-least-once delivery and settled rows that
stay settled (table); exclusive leases, bounded retries and concurrency, no
heartbeat that outlives its attempt, every event settled in the end (worker);
permits conserved, no lost wake-up, order (semaphore); no lost notification,
fencing, recovery (relays); one effect per consumer and event (consumer); no
event missed without a trace, and little lost in a crash (change data capture);
verdicts the table deserved (health); pages without gaps (streams, dashboard);
nothing left behind but by a failure (control plane). The
hazards, each with its line, are in `PROJECT.json`.

## 2. The modules

| Module | Models | Kind |
|---|---|---|
| `OutboxTable` | the rows, and one operator per SQL statement, from table to table | no variables; extended by the actors |
| `OutboxWorker` | any number of `OutboxWorker` instances over one table | state machine |
| `OutboxDelivery` | at-least-once delivery, as seen by the code that inserts | abstract specification |
| `Semaphore`, `PermitPool` | the semaphore of a batch, and the pool it implements | state machine, abstract specification |
| `Relays` | `PollingRelay`s and `NotifyRelay`s over one table | state machine |
| `IdempotentConsumer` | concurrent `withIdempotency` calls over one inbox | state machine |
| `EventStream` | the stream's iterator and concurrent replays over a changing table | state machine |
| `Monitoring` | the backlog limiter and its producers, the monitor's recovery, the alert webhook | state machine |
| `Health` | `Monitoring`, with the health checker and the worker monitor | extends `Monitoring` |
| `Dashboard` | `EventStream`, with a client that turns the dashboard's pages | extends `EventStream` |
| `Retention` | `Dashboard`, with a retention policy whose rules change | extends `Dashboard` |
| `Replication` | the replication adapter, a Debezium consumer, `toggle-cdc` | state machine |
| `ControlPlane` | `Replication`, with the process of `main.ts`, its endpoints and the simulator | extends `Replication` |
| `MC...` | the named fault limits and symmetry sets of the runs; `MCCallers` puts `Semaphore` and `IdempotentConsumer` side by side | for TLC |
| `...Proofs` | theorems, one module per subject | for TLAPS |

### OutboxTable

A row keeps `status`, `retry_count`, `lock_token` and `locked_until`; everything
else in the table is payload. `locked_until` is reduced to what the statements
ask of it: NULL (`"none"`), in the future (`"live"`), past (`"expired"`). Two
statuses are added for ids that were not inserted yet (`"NEW"`) and that cleanup
has removed (`"DELETED"`). Each statement is one round trip in autocommit, so it
is atomic; rows that `FOR UPDATE SKIP LOCKED` would skip for the length of a
statement are not modelled, the next claim sees them. `Batches` is
`ORDER BY created_at LIMIT n`; ids stand for `created_at`, and because
application transactions commit in any order, rows appear in any order.

`Claimable` is `WHERE status IN ('PENDING','FAILED') AND (locked_until IS NULL OR
locked_until < NOW())`: PROCESSING rows are not in it, whatever their lease.
`cleanup` has no age in the code and none here. All events share `max_retries`.

### OutboxWorker

JavaScript runs a callback up to its next `await`, so an action is the code
between two awaits together with the statement it ends with.

| Code | Module |
|---|---|
| `start`, `stop`, end of the process | `Start`, `Stop`, `Crash` |
| `poll` up to `claimBatch`; its answer or exception; `setTimeout`/`setImmediate` | `Poll`, `ClaimBatch`, `ClaimFails`, `BatchDone`, `ScheduleNextPoll` |
| `semaphore.acquire()` returns, `startHeartbeat`, `publish` is called | `BeginEvent` |
| `publish` answers, or throws | `PublishSucceeds`, `PublishFails` |
| `markCompleted`, `handleFailure`, `finally` | `Mark` (with `Settle`) |
| the same, throwing in the try block; throwing in the catch block | `MarkThrows`; `RescueThrows` (`Promise.all` rejects) |
| the heartbeat interval, the reaper interval | `Heartbeat`, `Reap` |
| time | `LeaseExpires` (nobody attends the row), `LeaseLapses` (somebody does) |
| `PublishEventUseCase`, redrive, cleanup | `Insert`, `Redrive`, `Cleanup` |

`loop[w][s]` is an activation of `poll()` in *slot* `s`. A worker that is
stopped and started again with a batch in flight, or whose `Promise.all` was
rejected, has several; the number of slots is a bound of the model.
`heartbeatTimers[w]` holds the keys of the Map, `timers[w][e]` how many
intervals really run: the two differ once an entry has been overwritten. The
semaphore appears as the guard of `BeginEvent`; that the code of `Semaphore`
is such a guard is what `IsPermitPool` says. A heartbeat's UPDATE is taken when
its interval fires. An instance does not come back after `Crash`: a new process
draws a new token and is another member of `Workers`.

Assumed: the application listens to `"error"`, as `src/src/main.ts:470` does
(`emit("error")` would throw otherwise).

### Relays

`task[r][s]` is an activation of `poll()` or `process()`: where it stands, the
event in hand, the rest of the batch, the snapshots of `retryCount`, and whether
the batch was full. `execute()` goes through its batch one event at a time and
renews no lease. For a `NotifyRelay`, `notified` is a notification that reached
the connection, `debounce` the timer; `NotifyTrigger` models the SQL trigger
that `notify-relay.ts` gives only as a comment (it is in no schema of the
repository, hence external). `claimedBy` is a history variable: the relay whose
claim was the row's last. `TokenOf` maps relays to tokens, since `Date.now()`
need not tell them apart.

### IdempotentConsumer

One call is `getRecord`, `markProcessed`, then `fn`, each committed on its own.
`primaryKey` is chosen in `Init`: in `src/docker/init-db/01-schema.sql` the
primary key is `tracking_id`, in `src/docs/outbox-schema.sql` it is not, and
`ON CONFLICT (tracking_id, consumer_id)` means different things under the two.
`begun` and `cleaned` count executions of `fn` and removed records.

### EventStream

Of a row the module keeps whether its id was drawn (`"INSERTED"`: the transaction
is open), whether it was committed (`"OPEN"`), completed or deleted. Ids only
order the pages. A page is one `findRecent`: without a cursor
the newest rows, with one the oldest rows beyond it, either way returned newest
first, so the cursor of the next page is the oldest row of this one. Reading a
page and handing on its events is one step, since between them the iterator
looks at nothing that others write.

| Code | Module |
|---|---|
| `replay`, `replayAggregate`, `dryRun` | `Replay`, `StreamPage` |
| `replayToState` up to the loop, the loop, `save` | `ReplayToState`, `FoldPage`, `Save` |
| `SnapshotManager.delete` | `DeleteSnapshot` |
| a query or a reducer that throws, a caller that leaves the loop | `Abandon` |
| transactions, workers, cleanup | `BeginTransaction`, `Insert`, `Commit`, `Complete`, `Cleanup` |

Dates come from two clocks. `created_at` is `DEFAULT NOW()`, the database's time
at which the event's transaction began (`01-schema.sql:31`), so a row may be
inserted, and completed, long after its date. A snapshot's `createdAt` is
`new Date()` of the process that saves it (`snapshot-manager.ts:99`), and
`matchesFilters` drops the events dated before it (`event-stream.ts:84`). `now`
is the database's clock, and `NewDate` what the process's may say: up to `Lag`
behind it, up to `Lead` ahead. Time is counted in transactions of the aggregate
that is replayed, since no other event's date is compared with anything; `Lag` is
then the number of them that can begin while the clock is behind, or in the
millisecond in which the snapshot is dated. `version` is counted up to
`snapshotFrequency`, which is all `shouldSnapshot` asks of it. `read` and `owed` are
history variables, what the iterator has returned and what it could have seen.

### Monitoring

Rows are reduced to what the counts tell apart: `"LEASED"` and `"STALE"` are
PROCESSING before and after the lease ends, `"GONE"` is COMPLETED or deleted. A
producer is past `checkLimit` (`allowed`) until its insert commits or rolls back;
callers are taken to obey the limiter, as the repository has none. `fresh` is a
history variable: PENDING rows that were inserted and not yet claimed, as
opposed to those the monitor or a redrive put back.

A check of `AlertWebhook` waits for its two queries (`ReadLag`,
`ReadDeadLetters`, in any order), compares (`Compare`), and waits for the answers
to its alerts (`Answer`). `setInterval` does not wait for the check before it, so
checks overlap; how many is a bound. Ages and cooldowns are kept as the outcome
of their comparison, so the age of the oldest PENDING row is "over" whenever
there is one and the environment says so.

### Modules that extend others, and the observer chosen first

`Health`, `Dashboard`, `Retention` and `ControlPlane` extend a module with
components that live beside it. Where two of them only read the shared state, or
do to it what the environment may do anyhow, no behaviour of one depends on the
other, and their product would multiply states without adding a behaviour of
either. The initial state therefore chooses which one the behaviour follows
(`observer`, `viewer`, `policy`, `life = "elsewhere"`, and `follows` of `MCCallers`,
whose two components share nothing at all), and the others do not
take steps. What interacts stays together: the table, its writers and the
observer in `Health`, the table and the reader in `Dashboard`, requests, shutdown
and timers in `ControlPlane`.

### Health

| Code | Module |
|---|---|
| `HealthChecker.check`, `isAlive` | `HealthCheck` ... `Conclude`, `ProbeFails`, `IsAlive` |
| the queries of `MetricsCollector.collect` | `CollectPending`, `CollectDeadLetters`, `CollectAge` |
| `checkBacklog`, `checkDeadLetter` | `BacklogStatus`, `DeadLetterStatus` |
| `WorkerMonitor.checkAndRecover`, `triggerCheck` | `CheckAndRecover`, `RecoveryAnswered`, `RecoveryFails` |

The queries of `collect()` are answered one by one, in any order, while rows
move. `pendingSeen` and `deadSeen` are history variables, the counts the table
had since the check began; `lapses`, `reported` and `restarts` count leases that
ran out, rows that `onStaleDetected` was told of, and calls of
`onRestartNeeded`.

### Dashboard

One request is one `findRecent` for `limit + 1` rows, of which `Items` drops the
one too many at the right end. A client goes on by the ids at the ends of its
page. `due`, `span` and `shown` are history variables: the rows that were there
all the time, the ids its pages lie around, and the events it was shown.

### Retention

`apply` awaits `cleanup()` once, then once per rule that deletes. JavaScript's
array iterator is an index, so a `splice` while it waits moves rules under it:
`passed` is that index, `seen` the entries found at it, `dropped` the removals
since the call began.

### Replication

The log is what logical decoding hands out, and an LSN is a position in it.

| Code | Module |
|---|---|
| `start`, `stop`, end of the process | `Start`, `Stop`, `Crash` |
| `processMessage` up to `onEvent`; `onEvent` resolves, rejects | `ProcessMessage`; `Handled`, `HandlerThrows` |
| `getStatus().lastLSN` confirmed to the slot by the application's stream | `Confirm` |
| the stream itself (the adapter leaves it to the application) | `OpenStream`, `CloseStream` |
| `toggle-cdc`: SELECT, then create or drop | `ReadSlots`, `CreateSlot`, `DropSlot`, `ToggleFails` |
| Debezium's snapshot and stream; `fromDebeziumMessage` | `Snapshot`, `ConsumeRow`, `ConsumeChange`, with `Transformed` |
| INSERT, UPDATE, DELETE of the outbox, other tables | `Insert`, `Update`, `Delete`, `OtherTable` |

`owed` is a history variable: the inserts since the slot was created. `received`
and `errors` are the sets that the adapter's two counters count.

### ControlPlane

The process connects (`CheckConnection`, a bounded number of attempts), serves
requests, and dies: killed, at the end of a shutdown (`Exit`), on a second
signal (`pool.end()` throws when it is called twice), or because a handler
without a catch block rejected (`Rejects`). Of the handlers the module keeps
which of them catch (`Unguarded`, `Guarded`), since nothing else about most of
them outlives the request. `simulate-bloat` is modelled in full: INSERT, ANALYZE,
two timers whose statements may fail, and the cleanups and other requests that
delete its rows as well. The simulator is its list of producers and the index
that goes round; `toggle-traffic` and bursts generate events aside from the
requests. `abandoned`, `removals` and `orphans` are history variables.

### Abstract specifications

`OutboxDelivery` knows only the fate of an event and whether the broker has it:
an event waits from its insertion until it is completed, which needs a delivery,
or given up; an operator may resume or remove settled ones. `OutboxWorker` and
`Relays` implement it (`AtLeastOnceDelivery`) under the mapping `Fate`.
`PermitPool` is a set of at most `Permits` holders, implemented by `Semaphore`.

## 3. The runs

Faults are charged to budgets: `Limit` in `OutboxWorker` (how many crashes,
stops, failed statements, lapsed leases, redrives), `FaultBudget` in `Relays`
(how many kinds, once each), `Cleanups` in `IdempotentConsumer`. The budgets,
`Slots`, `Calls` and the sets of events and processes are bounds of the model,
everything else is unbounded (publishes fail, events are cleaned up, messages are
redelivered as often as they like).

| Run | Instance | Shows |
|---|---|---|
| `worker_leases` | 2 workers, 2 events, 1 slot, 1 retry, a crash, a lapse, a redrive | `LockDiscipline`, `RetriesAreBounded`, `HeartbeatsEnd`, `LiveLeaseIsExclusive`, `FinalStates`, `AtLeastOnceDelivery` |
| `worker_faults` | 1 worker, 2 events, 2 slots, no retry, a restart, 2 failed statements, a lapse | `TypeOK`, `CompletedWasDelivered`, `AtLeastOnceDelivery` |
| `worker_recovery` | 2 workers, 1 event, 2 slots, a crash, a restart, a redrive, fairness | `SingleOwner`, `EveryEventSettles` |
| `callers` | 5 tasks, 2 permits, fairness; or 2 consumers, 1 event, 3 calls, 1 cleanup of each record | `PermitsAreConserved`, `WaitersMeanFull`, `NobodyOvertakes`, `IsPermitPool`, `EveryWaiterRuns`; `InboxTypeOK`, `EffectsFollowRecords` |
| `relay_wakeups` | 1 `NotifyRelay`, 2 activations, 3 events in batches of 2, 2 kinds of fault | `TypeOK`, `FreshEventsAreNoticed` |
| `relay_recovery` | 1 `PollingRelay`, 1 `NotifyRelay`, 2 activations each, 1 event, 1 retry, 2 kinds of fault, fairness | `StaleAttemptsAreFenced`, `AtLeastOnceDelivery`, `EveryEventSettles` |
| `monitors` | 3 rows, 2 producers, a limit of 1, 2 overlapping checks of the webhook or of the monitor (4 lapses), or a probe | `HealthTypeOK`, `OvershootIsBounded`, `AlertsPerCooldown`, `DeadLettersAreNotHidden`, `RecoveriesWereLapses`, `VerdictsAreJustified` |
| `streams` | 3 rows; 2 replays in pages of 2, an aggregate of 2 events, a snapshot after each, `Lag` 1; or a client with pages of 1; or a policy of up to 3 rules and 2 removals per call | `RetentionTypeOK`, `NoGaps`, `RepetitionIsBounded`, `PagesSkipNothing`, `RulesAreMissedForRemovals` |
| `replication` | 2 rows, a log of 3 changes, 2 overlapping calls, 2 toggles; 1 request beside 2 requests to `simulate-bloat`, 2 attempts to connect, 3 producers, 2 removals | `PlaneTypeOK`, `NothingIsMissed`, `LossIsBounded`, `SnapshotMissesNothing`, `BloatIsTransient`, `OrphansAreBounded` |

Why these bounds. Two events are enough for a batch with one event in hand and
one in the queue, and for a batch that is full or not; three events in batches of
two leave one behind. Two workers are one that loses a row and one that gains it;
a third would do what the second does. Two slots are an old activation and a new
one. Where a run has one slot or one event, that is because the other dimension is
covered by its neighbour: `worker_leases` is about competing workers,
`worker_faults` about overlapping batches of one, `worker_recovery` about both
on one row. `worker_faults` has `MaxRetries` 0, which makes every failure a dead
letter and leaves room for two failed statements; that FAILED rows and their retries
stay in the abstract queue is checked in `worker_leases`, and for relays in
`relay_recovery`. Three calls are a winner, a loser and a latecomer, of two consumers, and
one cleanup lets one of them begin `fn` a second time. Three rows
in pages of two make a stream continue beyond its first page, and two replays
overlap between reading a snapshot and saving one; with two events to date, a
clock that is one of them behind errs by half of all there is. A clock that is ahead
dates a snapshot later, which drops events and repeats none: the run leaves it out
(`Lead` 0), the theorem does not. Three rows are one more than
two producers may put into a backlog of one, and enough for every verdict about
bounds of 1 and 2. Pages of one row make a client turn several; three rules, one
of them archived, are one the loop waits at, one that a removal moves out of its
way and one behind it, and calls of `apply` share nothing but the list, so one is
enough. Three changes are two inserts whose calls overlap and a later update or
deletion of one; two toggles both read before either acts. One request of another
kind at a time suffices beside `simulate-bloat` because requests share only the
process and the rows, and two requests to `simulate-bloat` meet in each other's
timers. Three producers and two removals leave the index behind the list twice.
The sets of equal values are symmetric where no property tells their members
apart. Every run checks for
deadlock, and none of the models has a state without a successor. That an iterator ends is
not checked; with a finite table it does, because each full page raises the cursor.

Some properties hold only under the conditions of their run, and the model says
so rather than hide it:

- `SingleOwner` and `RetriesAreBounded` need one of two circumstances. Either
  an instance works one batch at a time (`OneBatchAtATime`): it is not stopped
  and started again, and no statement fails while others of its batch run. Or
  no attempt outlives its lease and the database answers (`AttemptsAreInTime`);
  then it may be restarted as often as it likes. The token is the worker's and
  `canRetry()` reads a snapshot, so an old attempt of an instance is not fenced
  off from a new claim of the same instance. With one worker, two slots and two
  events TLC finds both properties violated by a restart and a lapsed lease, by
  a restart and one failed statement, by a failed statement and a lapse, and by
  two failed statements.
- `HeartbeatsEnd` needs the first of the two: a second attempt of one worker
  overwrites the heartbeat entry of the first.
- `StaleAttemptsAreFenced` needs relays with different tokens.
- `RepetitionIsBounded` is as good as the clock: no event is folded on both sides
  of a snapshot only if no process's clock is behind the database's (`Lag = 0`,
  `ClocksNotBehindRepeatNothing`). It says nothing of events that are lost.
- `FreshEventsAreNoticed` ends with the first statement that fails: a claim of a
  `NotifyRelay` that throws is never repeated.

### What the code does and its documents do not say

Three runs expect a violation and end with a behaviour that shows it.

- `publish_without_lease`: an event waits for a permit, its lease lapses, the
  reaper takes it back, and the worker publishes it all the same
  (`outbox-worker.ts:207`; `.agent/rules/020-processing-and-lease-rules.md:194`).
- `stream_skips`: the first page is the newest rows and the cursor moves only
  forward from there, so whatever is older than one page is never returned
  (`event-stream.ts:45`; `tests/unit/event-stream.spec.ts:62` iterates over all
  events).
- `inbox_per_consumer`: a consumer skips an event because another one has a record
  of it (`postgres-idempotency.store.ts:76` asks for the tracking id alone), and
  where `tracking_id` is the primary key (`docker/init-db/01-schema.sql:91`) its
  INSERT would be refused besides. `docs/ARCHITECTURE_FAQ.md:47-48` says that
  idempotency is per consumer, and `tests/integration/idempotency.store.spec.ts:75`
  that one tracking id is allowed for different consumers. `EffectsFollowRecords`
  is what remains: the code may do too little for a consumer, never too much.

Other behaviours of the models have no run of their own. When the rescue of one
event rejects `Promise.all`, the next poll claims a batch with a semaphore of its
own while the first one still publishes, so that more than `config.concurrency`
events are published at once (`outbox-worker.ts:205`). A
lapsed lease, a restart and one lost answer of `claimBatch` leave a heartbeat
interval nobody can clear and a row it renews for ever (`outbox-worker.ts:298`):
`EveryEventSettles` holds for `OutboxWorker` only without that combination. And
because a snapshot is dated when it is saved, an event dated before that but
not yet COMPLETED when the page was read is in no later replay
(`snapshot-manager.ts:99`); the process's clock being ahead, or the event's
transaction being long, makes more of them. If the clock is behind, the events in
between are folded once more, and within one replay those of the newest page are
folded again when the pages are full (the behaviour `stream_skips` shows). An elevated number of PENDING rows masks a critical
lag (`health-checker.ts:99`), which `VerdictsAreJustified` states as its
exception. `WorkerMonitor` answers unhealthy when its statement fails, but
`lastHealth` keeps the last good check (`worker-monitor.ts:101`). The position the
adapter reports may lie ahead of events still in flight
(`logical-replication-adapter.ts:132`): `LossIsBounded` says how many a crash then
loses, and none are lost if the stream waits for each call. A row of
`simulate-bloat` stays when ANALYZE fails after the INSERT (`main.ts:300`). A rule
that is removed while `apply` waits makes it pass over another
(`retention-policy.ts:100`), `rulesApplied` counting that one too; and `cleanup`
knows no age, so the ages of the rules have no effect.

## 4. Fairness

`EveryEventSettles` and `EveryWaiterRuns` assume weak fairness of: starting an
instance, callbacks that are due (timers, immediates, resolved promises,
notifications, the reaper's interval), the return of a publish and of a
statement, and the passing of time for a lease nobody attends. Node's event loop
runs what is due, drivers and brokers answer or time out, and clocks advance.
Nothing is assumed of faults, of inserting, redriving or cleaning up. Publishing is fair only
as "succeeds or fails": a broker may refuse for ever, and the event then ends in
DEAD_LETTER. Heartbeats need no fairness because a lease of an attended row
lapses only as a fault. In `Relays` the property is conditional: some
`PollingRelay` must go on, for only it has a reaper and comes back on its own.
The other modules state safety only, and assume no fairness.

## 5. The proofs

`tlapm` checks every step; assumptions are only the named ASSUMEs on constants
(finite set of events, naturals, a null token outside the tokens, ...), which
TLC evaluates in the runs.

**The table** (`OutboxTableProofs`). For every statement: it maps tables to
tables, keeps `WellLocked`, and does to each row one of a few things. For the abstract queue there is what each
does to a row's fate, for exclusion which claims it keeps, for retries what it
does to the count. These lemmas are all that the proofs about workers and relays
know of SQL.

**The worker** (`OutboxWorkerProofs`). `TypeCorrect` is not inductive without
the fact that a key of `heartbeatTimers` has at least one interval running,
since `Stop` and `StopHeartbeat` subtract one. The invariant also needs
`LockDiscipline` (only a PROCESSING row has a token, so fenced marks touch only
PROCESSING rows) and that every event at markCompleted was delivered; with them
`CompletionFollowsDelivery`, `SettledRowsAreFinal` and `LeasesExclude` follow
action by action. They hold for any number of workers, slots and faults,
overlapping batches included.

`OutboxImplementsDelivery` is the refinement: the initial states map to initial
states, and every step maps to one of the abstract queue or a stutter. A step of
one row needs only what the statement lemmas say of that row; the invariant
supplies that the broker had the event.

`HeartbeatsEndWithTheirAttempts`, `OwnersAreSingle` and `RetriesStopAtTheBound`
assume the circumstances named in section 3, as conditions on `Limit` and
`BatchSize` that the runs of these properties meet. Under the first, the
invariant says that at most one activation of an instance has a batch
(`SerialOK`), so that each event has at most one attempt of an instance and the
intervals that run are those of the attempts (`BeatsOK`). Under the second, an
event in flight is held by its instance until it settles (`HeldOK`), so that a
claim never finds a row some attempt still works on. Either way an attempt that
can still write has a snapshot of `retryCount` that is the row's
(`AttemptsAreSound`), which is what bounds the retries. They hold for any number
of instances and events, slots included.

**The relays** (`RelaysProofs`). The types are proved together with the fact that
an event in hand was inserted and is not in the rest of its batch, that the
broker has what is about to be marked completed, that a locked row bears the
token of the relay whose claim was the last, and that a row nobody has claimed is
new or PENDING. `RelaysImplementDelivery` and `AttemptsAreFenced` follow
action by action; the latter assumes different tokens for different relays, the
former nothing. `NoNotificationIsLost` goes through every step of a
`NotifyRelay` that could end its last intention to claim (`NoticedStays`): an
activation whose batch was full stays awake until its next claim, a claim that is
not full leaves no fresh row behind, and every insertion notifies.

**The semaphore** (`SemaphoreProofs`). The strengthening says that the queue
holds exactly the waiting tasks, once each; from it follow conservation, no lost
wake-up, order, and the refinement of `PermitPool`.

**The consumer** (`IdempotentConsumerProofs`). `EffectsFollowRecords` is
inductive together with the types; it bounds `begun` in turn.

**The monitors** (`MonitoringProofs`). Whoever passes the limiter has seen a count
that includes every fresh row (`FreshIsPending`), and after that producers only
move from `allowed` to `fresh`. For the alerts, nothing has been accepted outside
a cooldown (`AcceptedWhileCooling`), so a check that begins to post finds only
other checks posting. `HealthKeepsMonitoring` shows that the observers `Health`
adds take no step `Monitoring` does not have, so all this holds beside them.
`VerdictsWereDeserved` needs that what a probe has read so far is among the counts
the table had since it began. `RecoveriesAreReportedOnce` balances what was
reported, what checks have under way and what is stale now against the leases
that ran out. The middle term is a sum over the checks. The lemmas about
`SumFunction` it needs (a sum of naturals is one, changing one summand changes the
sum by as much) are an induction over data; it is done without the library's
induction theorems, by taking a smallest set for which the claim fails
(`LeastOf`, `SmallestOf`, from the well-foundedness of `<` and of strict
inclusion) and finding a smaller one.

**The stream** (`EventStreamProofs`). `NoGaps` speaks of replays that have
ended; the invariant says of running ones that what is missing lies beyond the
cursor (`GapsAreAhead`), that what is owed is still visible, and that nothing was
read before the first page. `RepetitionIsBounded` rests on two facts about dates:
what was folded has a date (`FoldedWasCreated`), and no two events have the same
(`DatesDiffer`), so that the events dated after some time are no more than the
transactions begun since (`EventsSince`, an injection into an interval). A snapshot
is dated at most `Lag` before `now`, and transactions that begin later concern events
that are not in it. For the dashboard the invariant is
that `due` stays visible and the pages turned so far skip none of it
(`DashboardKeepsStream`, `PagingSkipsNothing`). For the policy it is that of the
places its loop has passed, those beyond the end of a list that has become
shorter included, no more are without a rule it looked at than rules were removed
(`MissedForRemovals`); a removal needs an injection of the missed places after it
into those before it and one more. `RetentionKeepsDashboard` carries the rest
over. `RetentionTypeCorrect` needs that a page that is not empty has a newest and
an oldest event (`PagesHaveEnds`), by the same kind of induction.

**The readers of the log and the process** (`ReplicationProofs`). Every step of
the control plane is a step of `Replication`, or forgets requests to
`toggle-cdc`, or leaves its variables alone (`PlaneStepsAreReplicationSteps`), so
one proof serves both. `NothingIsMissed` speaks of what the slot has confirmed;
the invariant `ReachedIsAccounted` says the same of everything the open stream
and `lastLSN` have reached. `LossIsBounded` needs that LSNs in flight behind the
positions reported leave one call at least that is not among them (`FewAreStale`).
`PassedIsSeen` says that every present row the connector has passed was seen or
waits in the snapshot. For the process, `OrphansArePaid`: an index behind the list
has been paid for by a removal not yet spent on an event without producer.

So every type invariant, every safety invariant, every action property and both
refinements that the passing runs check are theorems.

Only model-checked: liveness (`EveryEventSettles` of the workers and of the
relays, `EveryWaiterRuns`), since fairness and ENABLED are out of the prover's
reach, and the three properties the code violates, which are refuted and not
proved. That the two circumstances for `SingleOwner` and `RetriesAreBounded` are
nearly necessary is also TLC's answer, for the small instance named above.

## 6. What is not modelled, and what could follow

Left out:

- Payloads and what only transforms them: encryption, redaction, upcasting, the
  parsing of CDC rows, the SQL that `debezium-config.ts` generates.
- `RetryPolicy`: `calculateBackoff` is pure, and its one caller drops the result.
- `AuditLogger`: a list in memory that is appended to and filtered; no code calls
  it.
- Metrics export and tracing, which only observe; formatting, static files, the
  mock publisher's delays and the `toggle-slow` flag of `main.ts`.
- Migrations and schemas, run once before anything else;
  `src/docs/outbox-schema.sql` has stored procedures the TypeScript never calls.
- The counts a `RetentionPolicy` returns, its dry run and its preview.
- Delays themselves (backoff, poll and heartbeat intervals, debouncing), which are
  reduced to their order.

What could follow, in this order:

1. `OutboxDelivery` composed with the consumer: how often an event may take effect
   when delivery is at least once and the inbox is cleaned up.
2. The circumstances of `SingleOwner` and `RetriesAreBounded` as conditions on
   states instead of budgets: which single fault is harmless at which moment.
3. What the theorems say of deployments that combine workers and relays over one
   table, whose tokens then come from two different sources.
