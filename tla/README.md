# Hadrian in TLA+

Hadrian is an LLM gateway: replicas of one server process share a database and
a cache and forward OpenAI-style requests to providers. Most request paths are
stateless translations. This project models the parts that keep state across
tasks, requests or replicas:

* the Responses API with `store: true`, where a response is a row that several
  tasks on several replicas create, execute, retry, cancel, settle, reap and
  prune, with an event log that is replayed while it is written;
* the lock-free circuit breaker in front of each provider;
* the reservations behind budgets and rate limits;
* the usage buffer and the webhook dispatcher with the dead-letter queue that
  they fall back on;
* shell containers, whose sessions are shared by requests and reaped when idle.

## Inventory

| Component | State | Operations | Hard behaviour | Module |
|---|---|---|---|---|
| `services/responses_store.rs`, `db/*/responses.rs` | `responses` rows; per replica the `cancel_senders` map of watch channels | create, get, update (guarded when terminal), cancel, delete, reap, prune, poll | several writers of one final status; two maps and one table updated in separate steps | `ResponseLifecycle` |
| `jobs/background_responses.rs`, `services/background_executor.rs` | a semaphore, the attempt counter | claim, dispatch, drain, retry, mark as failed | retries after a timeout while the old attempt's task lives on; crashes | `ResponseLifecycle` |
| `services/response_persister.rs` | sequence number, captured status | read chunks, log events, react to cancel, synthesise a terminal event, final update | cancel against end of stream; client gone; errors | `ResponseLifecycle`, `ResponseEventLog` |
| `services/response_event_buffer.rs`, `db/*/response_events.rs` | bounded channel, batch, `response_events`, `last_sequence_number` | push, flush, insert_sync, shutdown, drain | order of the log across a buffered and a direct path; full channel; shutdown | `ResponseEventLog` |
| `routes/api/responses_lookup.rs` | cursor of a reader | get, cancel, delete, `?stream=true` replay | reading a log while it is written; termination | both |
| `jobs/responses_cancel_poller.rs` | ids it is about to trip | query, trip | cancels across replicas | `ResponseLifecycle` |
| `jobs/responses_retention.rs` | - | reap, prune | timers against live executions | `ResponseLifecycle` |
| `services/responses_webhook.rs` | bounded queue, delivery permits | enqueue, deliver with retry, dead-letter | full queue, a target that never answers | `DeadLetters` |
| `usage_buffer.rs`, `usage_sink.rs`, `dlq/file.rs`, `dlq/worker.rs`, `routes/admin/dlq.rs` | channel, index, directory | push, flush, drain, retry, evict, prune, purge | three tasks on one directory; a restart between index and file; bounds | `DeadLetters` |
| `providers/circuit_breaker.rs`, `retry.rs`, `jobs/provider_health_check.rs` | four atomics | check, record_success, record_failure | transitions of several stores without a lock | `CircuitBreaker` |
| `middleware/layers/api.rs`, `rate_limit.rs`, `middleware/util/budget.rs`, `cache/` | counters with or without expiry | reserve, refund, settle, rotate | a batch of checks is not atomic; settlement after a day boundary; clients that leave | `RequestLimits` |
| `services/containers.rs`, `container_session.rs`, `shell_tool.rs`, `routes/api/containers.rs`, `jobs/containers_*.rs`, `jobs/leader_lock.rs` | rows, files, a session registry per replica, an advisory lock | boot, attach, replay, exec, capture, upload, delete, expire, evict, clean up | two boots of one container; expiry while a command runs; replicas with sessions of their own | `Containers` |
| MCP approvals | pending approvals | claim, expire | claimed twice | - |
| tool loop, fallback, guardrails, caches, vector stores, auth, SCIM, event bus, routing, provider adapters | request scoped or plain tables | - | mostly I/O and translation | - |

How they interact: `POST /v1/responses` reserves its cost, passes the breaker of
its provider, inserts a row and a cancel sender. A background row is claimed by
the worker of any replica, which calls the provider, registers for cancellation
and wraps the body in a persister task. The persister numbers each event, hands
it to the event buffer (whose drainer task batches inserts) and at the end
settles the row. `cancel` trips the local sender and settles the row; on other
replicas the poller finds the cancelled row and trips the sender there. The
writer whose guarded UPDATE matched the row removes the sender and enqueues the
webhook, which is delivered or becomes a dead letter. A shell tool call takes
the session of its container from the registry of its replica, or boots one.
Usage goes to the buffer, to the database, and when that is down to the
dead-letter queue.

What makes each part correct: one final status that never changes, announced
at most once and truthfully; `cancelled` only when asked; one executing replica
per response; every background response settles; a cancel reaches the executor;
a replay that ends is complete; a reader ends; a flush returns. An open circuit
rests for its timeout, opens again while its provider is down and closes once it
is up. What is reserved and spent stays within the limit, and is given back
once. No usage entry and no webhook event vanishes without a rule that says so.
The requests of a replica share one session, which has the files they stored;
an idle container expires once, and its VMs are freed on every replica.

## Modules

* `ResponseContract` - the abstract specification: a response is absent, open,
  settled with one outcome, or removed; at most one announcement, with that
  outcome.
* `ResponseLifecycle` - rows, replicas, worker, persister (as a writer of the
  status), cancel, delete, poller, retention, time, crashes. Implements
  `ResponseContract` when the retry loop is disabled.
* `ResponseEventLog` - one response's events: persister tasks of its attempts,
  event buffer and drainer, tables, replaying reader, shutdown.
* `CircuitBreaker` - one provider's breaker, atomic operation by atomic
  operation, under its callers and a health check.
* `RequestLimits` - the limits of one API key and the requests that share them.
* `DeadLetters` - usage buffer, webhook dispatcher, file dead-letter queue,
  retry worker, administrators.
* `Containers` - one container on several replicas.
* `ResponseLifecycle_proofs`, `ResponseContract_proofs`,
  `ResponseEventLog_proofs`, `CircuitBreaker_proofs`,
  `RequestLimits_proofs`, `DeadLetters_proofs`, `Containers_proofs` - the
  theorems about them.
* `MC*` - the modules that TLC runs, one for each specification; the
  configurations give the constants their values.

`ResponseLifecycle` and `ResponseEventLog` describe the persister from two
sides (the row's status; the log); the enqueue at the end of the first is the
`Enqueue` of `DeadLetters`. The other modules share no state with each other.

Operators marked "Mutant" are deliberately wrong variants of the definition
that follows them; no specification uses them. They show that each property can
fail.

### ResponseLifecycle and the code

An action is the code between two await points: one database statement or one
critical section of the `cancel_senders` mutex. `status ... expired` are the
columns of the row the properties need; `senders[p][r]` is the watch value in
replica p's map, `sig[r][k]` what attempt k's receiver can still observe.
Dropping a sender resolves `changed()` as well, hence `closedTrue` and
`closedFalse`. `send(true)` on a channel without receivers leaves the value, as
tokio does. Timestamps are `fresh` or `old` (past `max_in_progress`).
`wpc`, `ppc`, `cpc`, `dpc` are the program counters of `run_with_retry`, the
persister tasks, `cancel` and `delete`.

| Code | Actions |
|---|---|
| `create` | `CreateInsert`, then `CreateRegister` or `CreateForeground` |
| worker loop, `claim_queued` | `Claim` |
| `execute_persisted_response` | `DispatchOk`, `DispatchRefused`, `DispatchRejected`, `DispatchRejectedAfterRegister`, `DispatchFailed`, `DrainOk`, `DrainFailed` |
| `run_with_retry` | `AfterTransient`, `RetryBump`, `RetryReload` |
| `mark_background_failure` | `MarkFailure`, `MarkFailureAnnounce` |
| `wrap_streaming_with_persistence` | `PersisterHeartbeat`, `PersisterCancelled`, `PersisterStreamEnd`, `PersisterStreamError`, `PersisterComplete`, `PersisterAnnounce` |
| `persist_non_streaming` | `UnaryBody`, then the same two |
| `cancel` | `CancelRead`, `CancelTrip`, `CancelComplete`, `CancelAnnounce`, `CancelLost` |
| `delete` | `DeleteRow`, `DeleteSender` |
| `poll_external_cancels` | `PollQuery`, `PollTrip` |
| `reap_stuck`, `prune_expired` | `Reap`, `Prune` |
| clock, operating system | `Age`, `Expire`, `Crash`, `Restart` |

Abstracted: payloads, outputs and errors; the provider (it answers, refuses or
fails, ends its stream with any status, breaks it, or never ends it); routing,
tools and containers inside the executor. Database faults are modelled on the
terminal writes only. `DispatchRefused` is a provider that answers with an HTTP
error: `execute_with_fallback` returns it as `Ok` and the pipeline hands it on
unwrapped, so that the attempt has no persister (`ppc` is `refused`) and its
body is drained as it is. Foreground responses take the unary path or a stream;
the bridge that folds a forced stream into one JSON answer
(`chat.rs:2535`-`2632`), where the stream's persister and
`persist_non_streaming` both write the final status, is left out: it is one more
pair of guarded writers of one row. The SQLite statements are the reference; the
Postgres ones have the same conditions. `Finished` lets a behaviour stop once
all the bounded responses are used up.

### ResponseEventLog and the code

An event is its number, attempt, kind and whether the persister made it up.
`Task*` actions are the persister's loop, `Drain*` the drainer's select and its
write, `Reader*` the replay loop. `push`, `flush` and `insert_sync` are split
where the code awaits. `Disturbances` selects what else happens: `cut` (the
body ends without a terminal event), `error`, `cancel`, `disconnect` (the
streaming client leaves), `shutdown`. `MaxFaults` statements may fail.
`OtherPush` is another response that shares the channel. The reader's own reads
do not fail here, and a chunk holds complete events: splitting bytes into
events is left out, and so are partial trailing bytes, which are forwarded
and never logged. An attempt that a provider answered with an HTTP error has
no persister and logs nothing; it is no attempt here. The properties of the
content of the log are checked with one attempt, those of what is stored
(`LogIsStable`) with two.

### CircuitBreaker and the code

A caller's `pc` is the next atomic operation of `check`, `record_success`,
`record_failure` or a `transition_to_*`; what it has loaded is in `seen`, `age`
and `n`. `word` is the packed state and counter. Time is kept as ages (what the
code computes as now minus `opened_at`), which stop at `MaxTimeout`. Two pairs
are merged: the clock is read in the step that stores `opened_at`, and the clock
and `current_timeout_millis` are read in the step that compares them.

| Code | Actions |
|---|---|
| `check` | `CheckLoad`, `CheckOpenedAt`, `CheckDecide`, `TransitionToHalfOpen` |
| `with_retry`, `is_retryable_error` | `Attempt` |
| `run_single_health_check` | `HealthCheck` |
| `record_success`, `record_failure` | `RecordLoad`, `CompareExchange`, `SpuriousFailure` |
| `transition_to_open` | `OpenCount`, `OpenTimeout`, `OpenTime`, `OpenWord` |
| `transition_to_closed` | `CloseCount`, `CloseTimeout`, `CloseWord` |
| clock, provider, connections | `Tick`, `ProviderFlips`, `Abandon` |

The `state()` reads that only feed logs, metrics and events are left out.

### RequestLimits and the code

`counter` holds the keys of `cache/keys.rs`: the spend key carries its date, the
windows' keys do not. Each Redis script (and each CAS loop of the in-memory
cache) is one step; the pipeline of `check_limits_batch`, the refunds and the
settlement are several. `Expires` chooses Redis (TRUE) or the in-memory cache,
whose counters have no expiry.

| Code | Actions |
|---|---|
| `check_all_limits_batch`, `check_limits_batch` | `BeginCheck`, `Check`, `CheckError` |
| `refund_reservations` and its variants | `Apply`, `ApplyFails` in `"refund"` |
| `track_usage_async`, `adjust_*_reservation` | `Succeed`, `Fail`, then `Apply`, `ApplyFails` in `"settle"` |
| `rotate`, `invalidate_api_key_cache` | `RotateKey`, `DeleteCounter` |
| Redis, calendar, connections | `Expire`, `NextPeriod`, `ClientLeaves` |

Money and tokens are small numbers; one key is modelled, IP limits are not. A
call to the cache that fails has no effect. The retries of `adjust_*` and of the
refunds (`budget.rs:139`, `rate_limit.rs:499`) repeat an `INCRBY` also when only
its reply was lost, and then apply it twice: that is not modelled.
`BooksBalance` is about the spend counter; the token counters are reserved,
refunded and settled by the same actions, but nothing is claimed of them beyond
`WindowReopens`.

### DeadLetters and the code

A letter is a usage entry or a webhook event and names its dead letter. `task`
has the flush worker, the retry worker, an administrator, and one delivery task
per event. `index` is the queue's map, `files` its directory, both as the
`retry_count` of an entry; `Torn` is a file that `load_from_disk` cannot parse,
because `fs::write` was cut off, failed, or met another `fs::write` of the same
file (`Written`). `fs::write` may fail at the open or after the truncation:
`CreateFails` for a push, `TruncateFails` and `RewriteFails` for `mark_retried`,
whose callers log the error and go on. `retry_count` is only compared with
`max_retries`; it is counted up to `MaxCount`, one above. `excused` records the
losses that the code itself announces.

| Code | Actions |
|---|---|
| `UsageLogBuffer` | `Push`, `Drain`, `CheckShutdown` |
| `DatabaseSink::write_batch` | `WriteBatch` |
| `enqueue`, `drain_events`, `deliver_or_dlq` | `Enqueue`, `Receive`, `Acquire`, `Deliver` |
| `FileDlq::push`, `enforce_max_files` | `Create`, `CreateFails`, `Insert`, `Enforce`, `Evict`, `UnlinkVictim` |
| `remove`, `mark_retried` | `RemoveEntry`, `Unlink`; `Mark`, `Truncate`, `Rewrite`, `TruncateFails`, `RewriteFails` |
| `process_batch`, `prune_old_entries` | `List`, `ProcessEntry`, `PruneOld` |
| admin endpoints | `AdminRetry`, `AdminProcess`, `AdminDelete`, `AdminPrune`, `AdminPurge` |
| environment | `DbFails`, `DbReturns`, `Shutdown`, `Restart` |

`clear` unlinks under the write lock and is one step. An `unlink` that fails
leaves what a stop between the index and the file leaves (and makes a prune give
up on the victims behind it), a stop within the first write of a file what a
stop before it does; neither is an action of its own. Which entries have waited
out their backoff is nondeterministic.

### Containers and the code

One container, `cntr_...`. A session is named by the request that booted its VM
and stands for the shared `Arc<Mutex<ContainerSession>>`: `TearDown` drops every
VM to which neither a registry nor a request refers. Files have the name of the
request that writes them. `saved` and `displaced` are ghosts. A database
statement, a registry operation and a call to the VM are one step each, except
that the start of a VM is merged with the statement after it (nobody else sees
the VM), `try_acquire` with the statement after it, and the spawned unlock with
the end of the pass. `Ensure` reads the row and inserts it when it is missing,
in one step. A pass of the reaper that finds nothing is no step.

| Code | Actions |
|---|---|
| `start_new`, `boot_inner`, `registry.insert` | `StartNew`, `Provision`, `ProvisionFails`, `BootFails`, `Insert` |
| container hint, `get_or_try_insert_with`, `start_attached` | `Resolve`, `Lookup`, `Ensure`, `EnsureFails`, `Replay`, `ReplayFails`, `Register` |
| a shell call | `Lock`, `Ingest`, `IngestFails`, `Exec`, `ExecFails`, `Capture`, `CaptureFails`, `Leave`, `Finish` |
| containers API | `Create`, `DeleteRow`, `DeleteSession`, `UploadBegin`, `UploadEnd`, `DeleteFile` |
| reaper, leader lock | `MarkExpiredIdle`, `Reconcile`, `Evict`, `ReapFails` |
| cleanup worker | `HardDelete` (its delay may be 0) |
| clock, operating system | `IdlePasses`, `Crash` |

Left out: the quotas of a capture (`max_files_per_exec`, byte budgets), external
file storage, the output of commands.

## Runs

Passing runs. Each finishes within about four minutes:

| Run | Checks | Instance |
|---|---|---|
| `lifecycle_contract` | `KeepsContract`, `CancelAnswersTerminal`, `CancelledOnlyIfAsked`, `CancelReachesOtherReplica` | 2 replicas, one serves requests and either executes; all three kinds, cancel, delete, 1 crash, 1 failing write; 653k states |
| `lifecycle_retry` | `TypeOK`, `WorkerDoneMeansSettled`, `SingleExecutor`, `BackgroundSettles` | 2 replicas, 2 attempts, HTTP errors, 1 crash, 1 failing write; 626k states |
| `log_replay` | `TypeOK`, `TerminalClosesReplay`, `ReaderMissesNothing`, `ProviderStatusRecorded` | 4 events, chunks of 2, channel of 1, noise, two terminal kinds |
| `log_finish` | `StatusIsInLog`, `FlushReturns`, `ReaderFinishes` | cut, cancel, disconnect, shutdown |
| `log_attempts` | `LogIsStable` | 2 attempts, error, 1 fault |
| `breaker` | `TypeOK`, `OpenCoolsDown`, `Recovers`, `KeepsTripping` | 2 callers, one of them also a health check; thresholds of 2, timeouts 1 and 2; 255k states |
| `limits` | `TypeOK`, `SpendWithinLimit`, `BudgetHolds`, `BooksBalance`, `WindowReopens` | 2 requests, budget of 3 for estimates of 2 and costs of 3, 2 days, 1 rotation, 1 fault; 582k states |
| `dead_letters` | `TypeOK`, `NothingVanishes`, `ListedIsDurable`, `ShutdownFlushes`, `PushEvicts`, `LettersSettle` | 2 letters of either type, buffers, permits and directory of 1, 1 trouble (an outage, a failed write, a shutdown, a stop or an admin request), the database up or down at first; 381k states |
| `containers` | `TypeOK`, `OneSession`, `SessionKeepsFiles`, `TerminalIsFinal`, `IdleExpires`, `SessionsFreed` | 2 requests, 2 replicas, 1 command each, staged files, 1 trouble; 223k states |

Runs that find a statement of the documentation violated by the code
(PROJECT.json quotes the statement of each):

| Run | What happens |
|---|---|
| `doc_cancel_final` | The unguarded update before a retry reopens a cancelled row; it later settles and is announced again. |
| `doc_stream_budget` | A streamed call settles at a cost of 0, so any number of them, one after the other, passes the budget check. |
| `doc_displaced` | A container's row is visible before its session is registered; a request that finds it registers first, and `insert` then pushes its session out of the registry while it is in use. |

The models have further behaviours that a reader of the documentation would
not expect. They are not runs of their own.

Responses:

* A reaped row, or one whose writer dies before the enqueue, is never announced
  (`Reap` leaves `hooks` alone).
* An HTTP error of the provider is no `Execution` error: the worker neither
  retries the response nor marks it as failed, unless the body itself breaks
  off. The row stays `in_progress` until the reaper settles it
  (`BackgroundSettles`), although `background_executor.rs:120` says that the row
  has its terminal status before the function exits. `WorkerDoneMeansSettled`
  excludes such an attempt; without the exclusion TLC's counterexample is
  `CreateInsert`, `Claim`, `DispatchRefused`, `DrainOk`.
* The reaper prefers an old heartbeat to the `started_at` that a retry has
  bumped (`background_responses.rs:131`), and may fail a fresh attempt.
* Settling a response removes the sender on the settling replica only
  (`AnnounceTerminal`); the one that created it keeps its entry.
* A registration that `create` replaces, or that `cancel` removes after its
  trip, leaves a persister whose receiver is `closedFalse`; it streams on after
  the cancel. `CancelReachesOtherReplica` is about the other replicas only.
* A foreground row whose stream failed, or whose process died, stays
  `in_progress`: it has no `started_at`, so `Quiet` never holds of it.
* A client that leaves makes `TaskForward` drop the rest of the chunk, and the
  row becomes `incomplete` although the terminal event had been read.
* A cancel after a logged terminal event settles the row as `cancelled` while
  the log says `completed`; `StatusIsInLog` leaves cancelled rows out.
* The synthetic terminal event is inserted without a flush: it can be in the
  log before events that came first.
* A second attempt numbers its events from the stored high-water mark, and
  collides with events of the failed one that are still in the buffer.
* A reader of a response that the worker failed after its first events finds no
  terminal event and polls for ever.
* After `Shutdown`, `TryPush` drops events while `TaskInsert` still commits the
  terminal one; a batch lost to a fault is acknowledged (`WriteEnded`) as if it
  were written. `TerminalClosesReplay` is checked without either.

Circuit breaker:

* A half-open circuit admits every request, although the header of the file
  (`circuit_breaker.rs:10`) speaks of limited probe requests.
* A late `HALF_OPEN` store overwrites a circuit that has just been opened again;
  the failure of a call made before the circuit opened reopens a half-open one;
  two callers may count one opening twice, which lengthens its timeout.
  `Recovers` and `KeepsTripping` say that none of this lasts.

Limits:

* A client that leaves during the call, and a cache error in the middle of a
  batch, leave their reservations in the counters until the end of the period.
* Background `POST`s settle at a cost of 0 as well: the answer of the accepted
  request carries no cost header.
* When a limit refuses, what limits behind it in the batch have reserved stays
  until their window ends (`RefundNames` lists only those before it).
* A rotation deletes the counters of the key: the budget is granted once more
  (`BudgetHolds` counts it).
* With the in-memory cache no counter ever expires, so that a window that is
  used up stays so; `WindowReopens` is checked for Redis.

Dead letters:

* Webhook letters are never retried and keep a `retry_count` of 0. As the worker
  takes the newest `BatchSize` entries (`worker.rs:72`), enough of them keep it
  from the usage entries behind them: `LettersSettle` is checked with a batch
  that holds all letters, and fails with `BatchSize = 1`.
* A write of `mark_retried` that fails after the truncation, or that overlaps
  with another one of the same entry, leaves a listed entry with a file that the
  next start skips; until then the entry is listed and retried as usual
  (`ListedIsDurable` says that only such entries are exposed).
* `mark_retried` writes its file after it has released the lock. An entry
  removed in between comes back at the next start; inserts are idempotent on
  `request_id`, so that it does no harm.
* The admin retry refuses `responses_webhook` entries, which
  `responses_webhook.rs:17` says operators can replay.
* A push by a detached task after the last drain of a shutdown is lost.

Containers:

* Two requests that race on one hint boot two VMs, and the loser's is dropped,
  although the comments (`container_session.rs:147`, `shell_tool.rs:2023`) speak
  of exactly one boot. `OneSession` says that they end up with the same session.
* `last_active_at` moves when a command starts, not when it ends: a container
  may expire under a command that runs for longer than the idle time.
* A row that is removed while a session lives is not among the rows that the
  reaper asks for: nobody frees that VM (`SessionsFreed` excludes it). A later
  boot on a removed row inserts it again; `OneSession` and `SessionKeepsFiles`
  are about the first life of a row.
* A replay that fails is logged, and later requests of the replica use the
  incomplete session (`SessionKeepsFiles` excludes it); when the rows of a
  capture cannot be written, the snapshot has moved on and no later capture
  stores them.
* Sessions of two replicas diverge, files uploaded through the API do not reach
  live sessions, and files that a command removed come back with a replay.

Bounds. Every race in the response modules is between tasks of one response, so
their runs have one; how responses share the queue, the permits and the
retention passes is left to the proofs, which hold for any set of them. Two
replicas are the replica that executes and the one that does not; two attempts
are an attempt and its rival. A channel of one event is full as soon as it can
be, a batch of two lets it end by size and by time, a page of two makes the
reader stop inside a log of three or more. In the other modules two callers,
requests or letters are a step and its rival; thresholds of two are the least
that a counter can approach; a timeout of 1 that triples past a cap of 2 shows
backoff and cap; a budget of 3 admits one call of estimate 2 and refuses the
second until the first is refunded; a directory, a queue and a buffer of one
entry are full at once. One crash, fault or trouble at every possible moment
covers each single failure; combinations are limited to one of each. The passing
runs leave out exactly the disturbances under which their property is said
above, or shown by a `doc_*` run, to fail.

`limits` and `containers` do not check for deadlock: their requests are made
once, and when all are done nothing is left to do.

Fairness (`Fairness` in each module). Tokio polls ready tasks and timers fire.

* Responses: the poller, the retention worker and the reader loop for ever, and
  a crashed process is restarted, so these steps are weakly fair. Nothing is
  assumed of clients. A provider may keep a stream open for ever, except in
  `SpecBodiesEnd`, used in `lifecycle_retry` (a stream that sends chunks for
  ever is kept alive by its heartbeat, rightly). Idle timeouts are allowed, not
  assumed.
* Circuit breaker: the clock and each caller are weakly fair; calls keep coming,
  and nothing is assumed of the provider.
* Limits: only Redis' expiry is weakly fair.
* Dead letters: the tasks are weakly fair and the database comes back. The round
  of the worker that finds everything it lists past its backoff is strongly fair:
  an entry stays ready until it is retried, so that rounds without end include
  such ones.
* Containers: requests run to their end (a command has a timeout), every
  replica's reaper ticks, a delete that has begun goes on. Nothing is assumed of
  clients, of the clock or of the cleanup worker.

## Proofs

`ResponseLifecycle_proofs` proves, for any replicas, responses, attempts,
crashes and faults:

* `TypeCorrect` - `Spec => []TypeOK`. Inductive with `RetriesLeft`: a task in
  backoff or about to reload has an attempt left, without which the increment
  of the attempt counter leaves its range.
* `OneExecutor` - `Spec => SingleExecutor`. `home` changes only in `Claim` and
  `CreateForeground`, which need a row that is queued or being created; the
  invariant says that such a row has no executor yet (`Unclaimed`, `Placed`).
  The retry's unguarded update writes `in_progress`, never `queued`: that is
  what the proof rests on.
* `CancelIsAsked` - `Spec => []CancelledOnlyIfAsked`. `CancelsAsked` follows
  the request from the client to the row: cancelled rows, tasks that saw or
  will write a cancel, receivers that hold `true`, senders that were tripped,
  and poller snapshots all belong to a response that was asked for.
* `WorkerSettles` - `Spec => []WorkerDoneMeansSettled`. `Settling` says that,
  while no write has failed, a persister that ended normally leaves a row that
  is not live unless the worker's retry is on its way. It also says that the
  worker only holds background rows, so that no handler gives a response a
  persister whose last attempt got none (an HTTP error, which the property
  excludes).

`ResponseContract_proofs` builds on it, with the hypothesis `MaxAttempts = 1`
(retries disabled) that both properties need; with two attempts TLC refutes
either of them:

* `ContractKept` - `Spec => KeepsContract`: `ResponseLifecycle` implements
  `ResponseContract`. By `NextMovesRows` every step moves rows as the contract
  allows (`MovesRows`) or sends the first webhook of a row (`AnnouncesRow`);
  `MovesRefine` and `AnnounceRefines` map these to steps of the contract or to
  stuttering. The webhook part needs `OneWinner`: between the guarded update
  that settles a row and the webhook, the winner (worker, persister or one
  `cancel()`) is alone, nothing was announced yet, and the row keeps the
  winner's status or is gone.
* `CancelSettles` - `Spec => []CancelAnswersTerminal`, with `Answered`: a
  `cancel()` that lost its race lost it to a writer whose status stays.

The assumption is `LifecycleAssumption`: finite responses, at least one attempt
and one permit, request targets among the replicas.

`ResponseEventLog_proofs` has two theorems for any attempts, faults and
disturbances, and four about a single attempt:

* `EventLogTyped` - `Spec => []TypeOK`; `LogStable` - `Spec => LogIsStable`.
  `LogInv` follows an event from the task that numbers it through channel and
  batch to the log: every event was numbered by the attempt it names
  (`LogKnown`, `HeldKnown`, `CurKnown`); how many numbers an attempt can have
  used, by where its task is (`Numbers`, which keeps the numbers of all
  attempts within the log); who waits for which flush (`FlushWaits`,
  `FlushState`); and that a ratchet never runs ahead of its insert (`Durable`,
  the reason why `last_sequence_number` always names a stored event).
* `StatusLogged`, `ProviderRecorded`, `ReplayComplete`, `ReaderComplete` -
  `StatusIsInLog`, `ProviderStatusRecorded`, `TerminalClosesReplay` and
  `ReaderMissesNothing`. They rest on `OneInv`: with one attempt the number at
  hand is larger than every number on its way (`FreshNumber`), and when a flush
  returns nothing of the response is on its way (`Flushed`), since the task that
  could push waits for it. `StatusInv` adds where the captured status is while
  its event is stored, `ProviderInv` that the first terminal status sent is
  captured or still in the chunk, `CoverInv` that every number given out is
  stored, on its way or at hand, `ReaderInv` that events reach the log in the
  order of their numbers and that the cursor is on a stored one.
  Each has the hypotheses that its property really needs, in terms of the
  constants: a second attempt reuses numbers, a failed statement drops events,
  a shut-down buffer drops what is pushed later, a client that leaves makes the
  persister drop the rest of a chunk and make a terminal event up, which is
  inserted without a flush. TLC has counterexamples without them. The runs
  `log_replay` and `log_finish` are instances.

`CircuitBreaker_proofs`, for any callers, thresholds, timeouts and retries:

* `BreakerTyped` - `Spec => []TypeOK`. Inductive with `IncrementFits`: a caller
  about to exchange an increment loaded a word that is one short of its
  threshold, otherwise the CAS could store a counter past it.
* `CoolsDown` - `Spec => []OpenCoolsDown`, from `OpenedBeforeWord`: `opened_at`
  is never older than the transition behind an open word, because the word is
  stored last; so it is for every caller between its loads and its decision.

Besides `BreakerAssumption` they use `PowersAssumption`, that the powers of the
multiplier are at least 1 up to the largest exponent. It follows from a
multiplier of at least 1 by an induction over the exponent, which the prover
cannot do; TLC evaluates it.

`RequestLimits_proofs`, for any requests, periods, prices and limits:

* `LimitsTyped` - `Spec => []TypeOK`.
* `SpendLimited` - `Spec => []SpendWithinLimit`; `BudgetKept` - `BudgetHolds`,
  and `BooksAreExact` - `BooksBalance`, both for a key with a budget and
  without streamed calls (the run `doc_stream_budget` shows why). A counter is
  compared with a sum over all requests of what each has still to add or to
  give back. `Tally` states such a sum without recursion, as the size of a
  union of disjoint sets, and `TallyUpdate` what a change of one summand does
  to it. Every action is first shown to be one of a few kinds of change
  (`Reserves`, `GivesBack`, `Charges`, `Adjusts`, `Loses`, `Idle`), and the
  invariants `Within`, `Backed` and `Exact` are shown for these.

`DeadLetters_proofs`, for any letters, bounds, outages, stops and admin
requests. `Shapes` says what each task holds at each step; every action is
first shown to set one task's step and letters (`Sets`, `Resumes`), and the
rest is argued about these.

* `NoneVanishes` - `Spec => []NothingVanishes`. Inductive with `Kept` (usage
  that is not safe is in the buffer or in the flush worker's own batch, an event
  that is not safe has its task), `Owned` (the letter of a push is safe from its
  insertion until the push ends) and `Disposable` (what is taken off the queue
  was recorded, or its loss named). Safe is what is listed, recorded, delivered
  or excused; `GrowsStep` says that only a restart makes a safe letter unsafe,
  and `Restart` excuses those that it does not find on the disk.
* `TypeCorrect` - `Spec => []TypeOK`. That each letter is pushed to the queue
  once needs `Orderly`: batch, buffer and dispatcher's channel hold different
  letters, none of which is a dead letter yet.
* `ShutdownLosesNothing` - `Spec => []ShutdownFlushes`. `Flushed`: in the last
  round the worker leaves its drain only when the buffer holds nothing that it
  owes. The drain's limit is then no limit: a batch of different letters that is
  as long as there are letters leaves none for the buffer (`InjectiveCovers`).
* `ListedSurvives` - `Spec => []ListedIsDurable`, from `Unlinked` (a file that
  is being unlinked is of no entry of the index), `Apart`, which keeps it so
  (between the creation of a file and its entry in the index no other task knows
  of the letter, and nothing is listed before it was pushed), and `Counting` (a
  task about to truncate or rewrite the file of a listed entry has counted a
  retry of it): whichever writes fail, only such a file becomes unreadable, and
  none disappears.
* `PushesEvictEnough` - `Spec => PushEvicts`, from `RoomMade`: for every set of
  pushes that are evicting, the index without their victims has at most
  `max_files` entries and one more for every other push. One push alone does not
  make an inductive statement, since the victims of two overlap. `OldestEnough`
  counts what `enforce_max_files` picks: the entries that stay have different
  numbers of older ones.

The assumption is `DlqAssumption`: finitely many letters, tasks that are
different from each other and from the letters, limits of at least 1 but for
`max_files` and `max_retries`.

`Containers_proofs`, for any requests, replicas, files and commands:

* `ContainersTyped` - `Spec => []TypeOK`, which includes that a command runs
  under its session's mutex on a VM that is up. `ContainersInv` adds who may
  hold which session (`Handles`, `OneHome`), what keeps a VM up (`VmsUp`), and
  how the row's lives relate to the requests (`LivesBound`, `FirstLife`).
* `SharedSession` - `Spec => []OneSession`; `FilesStay` -
  `Spec => []SessionKeepsFiles`, with what a replica saved is in the row's
  files (`SavedInFiles`) and a boot under way keeps to them (`BootKeepsFiles`).
* `TerminalStays` - `Spec => TerminalIsFinal`.

Only model-checked: the liveness properties, which need fairness and are
outside the reach of the prover. The `doc_*` runs have nothing to prove.

## Not modelled

Postgres read replicas (reads see the last commit); the leader lock outside the
container reaper (the other passes it guards are single statements); the MCP
sweep of the retention pass; payload rewriting; authorization; IP rate limits;
the Redis and database dead-letter queues and the OTLP sink (`pop` has no
caller); the three direct attempts that record streamed usage; the choice of a
fallback provider, which is stateless; and the components marked `not_modelled`
in PROJECT.json with their reasons. They are most of the repository's lines:
translations between wire formats, CRUD routes and queries, configuration and
documents, with no state that a step of another actor could disturb.

## Plan

1. `ResponseLifecycle`, `ResponseContract`, `ResponseEventLog`,
   `CircuitBreaker`, `RequestLimits`, `DeadLetters`, `Containers`: done.
2. Proofs of the safety properties of these modules: done.
3. Further components: MCP approvals (claim against expiry), the tool loop's
   turns, the Redis dead-letter queue.
