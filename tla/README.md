# A TLA+ verification of KafPy

KafPy is a Kafka consumer framework for Python whose runtime is written in Rust
(tokio, rdkafka, PyO3). A message travels from Kafka through the runner's channel, the
dispatcher and a bounded queue to a worker, which calls the user's Python handler,
retries, dead-letters, acks. A tracker turns acks into a contiguous cursor per
partition, a background task commits that cursor to Kafka, rebalance callbacks commit
and seek, and a shutdown coordinator brings all of it to a stop. This directory models
that path, and the producer beside it, checks them with TLC and proves with TLAPS, for every
value of the constants, every safety property that the passing runs check.

What the project is about is **at-least-once delivery**: no position committed to Kafka
covers an offset that nobody processed or dead-lettered; nothing that was dispatched is
lost, doubled or stuck; and every task ends when it is told to. The code keeps this but for the
exceptions that sections 4 and 7 list; the properties name them where they would be false
without.

## 1. Inventory

| component (source under `src/src/`) | state | operations | talks to |
|---|---|---|---|
| Offset tracker (`offset/offset_tracker.rs`) | per partition: cursor `committed_offset`, `pending_offsets`, `failed_offsets`, `has_terminal`; one mutex | `record_ack`, `mark_failed`, `should_commit`, `highest_contiguous`, `flush_failed_to_dlq`, `graceful_shutdown` | written by workers, read by committer and rebalance callbacks |
| Offset committer (`offset/commit_task.rs`) | watch channel, throttle, the cycle's list | `run` (biased select), `process_ready_partitions`, `commit_partition` | reads the tracker, calls runner `store_offset` / `commit`, ends when the coordinator is Done |
| Worker loop (`worker_pool/worker.rs`, `mod.rs`) | `WorkerState`, the message in hand | `poll_for_work`, `handle_execution_result`, `handle_execution_failure`, retry sleep | handler, retry coordinator, queue counters, tracker, dead-letter producer |
| Handler invocation and concurrency (`execution/callback.rs`, `worker_pool/concurrency.rs`) | a task on a thread of the shared blocking pool, a semaphore per handler | `invoke`, `invoke_mode_with_timeout`, `acquire` | workers, Python |
| Retry coordinator (`retry/`) | per message: attempt, Exhausted, absent | `record_failure`, `record_success` | called by the workers |
| Worker pool (`worker_pool/pool.rs`) | JoinSet, token, which topics have a worker | `new`, `run`, `shutdown` | workers, tracker, shutdown coordinator |
| Batch worker (`worker_pool/batch_loop.rs`, `accumulator.rs`, `execution/batch.rs`) | one buffer and deadline per partition, `BatchState` | select of three branches, `add`, `flush_all`, `flush_partition`, batch results | as the worker loop |
| Fan-out (`worker_pool/fan_out.rs`, `worker.rs`) | atomics `total`, `completed`, `inflight`; list of results; Notify | `register_branch`, `record_branch_result`, `wait_all`, `release_slot` | one task per sink, one collector |
| Dispatcher (`dispatcher/`) | bounded queue per topic, `queue_depth`, `inflight`, permits, `paused_topics`, `partition_handles` | `send`, `ack`, pause, `check_resume` | runner's stream, workers, rdkafka |
| Runner (`consumer/runner.rs`) | channel of 1000, broadcast for stop | `run`, `store_offset`, `commit`, `stop`, pre-fetch of committed offsets | rdkafka |
| Rebalance callbacks (`consumer/context.rs`) | startup offsets, paused set | `pre_rebalance`, `post_rebalance` | tracker, rdkafka, the rest of the group |
| Shutdown coordinator, runtime, Python binding (`shutdown/`, `runtime/builder.rs`, `consumer/runtime.rs`) | phase, token, the spawned tasks; the handler maps | `begin_draining`, `begin_finalizing`, `set_done`; `build`, `run`, `run_with_sigterm`; `add_handler`, `register_fanout`, `start`, `stop`, `status` | everything above |
| Observability (`observability/runtime_snapshot.rs`) | workers' states, one global snapshot per process | `set_active`, `set_idle`, `poll_and_update` | workers, `status()` |
| Dead-letter producer (`dlq/produce.rs`) | bounded channel, one task | `produce_async`, the producing task | workers, tracker's flush |
| Producer (`producer/runtime.rs`) | stored sender and JoinHandle, one worker thread per `init()`, `producer_lock` | `init`, `send`, `flush`, `in_flight_count`, `drop` | Python callers under the GIL, the log |
| Logging (`log.rs`) | bounded channel, logger cache | `log`, the log thread | every component; needs the GIL |
| Metrics, middleware, configuration, bindings | see section 8 | | |

What is hard here, and what the properties are for: acks, failures and redeliveries of one
partition meet in any order; the committer reads and writes the tracker and Kafka in
separate steps while workers report; the watch channel forgets signals and the throttle
skips cycles; a handler that timed out keeps its thread and answers late, and others wait for
that thread; cancellation meets a retry sleep, an unbiased select or a half-filled batch;
the queue, the semaphore and the dead-letter channel run full; a pause or resume fails
half way; a partition leaves with messages of it still queued and the tracker outlives the
assignment; a crash loses everything but the committed positions; a signal, `stop()` and
worker panics race through four phases guarded by assertions; a consumer is started again with
the token and handlers of its first run; a producer call waits with the
GIL in hand for a thread that logs, and the log, where an application installs it, needs the GIL. `hazards` in `PROJECT.json`
lists them line by line with the properties that would catch each.

## 2. Modules

```
PartitionState ── OffsetTracker ─┬─ OffsetCommitter ──implements──> CommitFrontier
                                 ├─ Worker  (with RetryCoordinator)
                                 ├─ BatchWorker
                                 ├─ Dispatcher
                                 └─ Rebalance
Shutdown ── Lifecycle            FanOut            Producer

MC<module> + .cfg: one TLC instance each
<module>Proofs:    its theorems (TLAPS); those of OffsetCommitter, Worker, BatchWorker,
                   Dispatcher and Rebalance extend OffsetTrackerProofs, LifecycleProofs
                   has those of Shutdown too, Producer has none
```

* **PartitionState** – the pure state machine of one partition. The loop of `ack` is
  `Contiguous`: the least place at or after the cursor where the next offset is not
  pending. There is no recursion in it, so it can be proved about.
* **OffsetTracker** – the map of partitions behind its mutex; each operation is one step.
  The workers are an environment that acks and fails any offset at any time, redelivered
  ones included. `acked` and `base` (the first offset acked) are history variables. Every
  module that holds a tracker extends this one and uses the same `ack` and `mark_failed`,
  so the seeding of the cursor, and what it may cover, is the same everywhere.
* **CommitFrontier** – the abstract specification: messages are processed in any order, and
  the committed position of a partition only moves forward, over processed offsets.
* **OffsetCommitter** – the committer task: biased select, throttle, one scan over the
  partitions in which `should_commit` and `highest_contiguous` are two steps (two takings of
  the lock), `store_offset` and `commit` one partition at a time, each may fail, and Kafka
  applies or rejects the asynchronous request later. The `message_count` threshold is not
  modelled as a variable: the code never counts it up.
* **RetryCoordinator**, **Worker** – one worker per topic with its channel, the retry
  decision, the dead-letter channel and its task, cancellation, JoinSet abort, and the
  pool's flush of failed offsets. A handler is a task that waits for (`queued`) and then holds
  (`running`) one of the blocking pool's threads; `handler_timeout` ends the worker's wait and
  leaves the task as it is, so the handler may end late, begin late or hang for ever. The
  permit of the handler's semaphore is held from the invocation to the end of a retry sleep. A
  handler's result and all the worker does about it (queue ack, tracker, coordinator, dead
  letter) happen without an await and are one action.
* **Dispatcher** – poll loop, stream channel, `send` with its four outcomes, pause and
  resume with their errors, the queue's three counters, and a worker at the far end. The topic
  has a handler; a message of one without (`HandlerNotRegistered`, `dispatcher/mod.rs:168-172`)
  is skipped before any state changes. The semaphore is modelled as `send` has it, but the
  runtime gives no handler one: `runtime/builder.rs:161` always passes `None`, with a capacity of
  at least 1000.
* **BatchWorker** – the batch loop with its accumulator. Batches are taken out of the
  buffers in one step (one lock) and reported message by message while new ones arrive. After a
  cancellation the worker drains its buffers, but the pool waits for one worker to exit and
  aborts the others at whatever await they are (`PoolAborts`).
* **Rebalance** – a group around one process: assign with a seek that may fail, revoke with
  a commit that may fail, another member that goes on meanwhile, a crash and restart. A message
  goes through the runner's channel (`stream`) to the handler's queue, or is dropped there: at
  any time, since the queue may be full of the topic's other partitions. `dropped` is what was
  lost so after the partition's first ack and since its assignment, `exposed` what was lost
  before that ack, where the first ack seeds the cursor behind it. The committer is one step
  here, and the pause after a drop is left out: it only takes polls away.
* **Shutdown** – phase, token, signal task, `Consumer.stop()`, pool, dispatch loop,
  committer and `Runtime::run`, each an own process: one run of a consumer.
* **Lifecycle** – the consumer around it: registration, `start()` with its failures, `build`
  in the three steps in which it takes the lock of the handler map, the dealing of topics to
  workers, the running system (every step of `Shutdown`, through `During`), the drop of the
  tokio runtime, which waits for handler threads, and a second `start()`. What belongs to the
  `Consumer` (token, handlers, fan-out handlers) and to the process (the global snapshot)
  survives, all else is built anew; `generation` counts the runtimes. `add_handler` and
  `register_fanout` borrow the consumer mutably, which PyO3 refuses while `start()` runs, and
  that is what makes the separate reads of `build` agree. There is one `start()` at a time;
  the code does not refuse a second from another thread.
* **FanOut** – one dispatch: branches and the collector over atomics, every load, update and
  notification a step of its own. `set_fan_out` has no caller, so no handler takes this path today; the
  module describes the code as it would run.
* **Producer** – calls from Python, the worker threads that `init()` starts, the log channel
  and its thread (nothing in the repository installs the logger, so that thread runs only in an
  application that does). A method of `PyProducer` does not release the GIL while it blocks, so there
  is one call at a time; the log thread competes for the GIL. Two workers overlap only when
  the first is still logging its initialization (with `producer_lock` held) while a second
  `init()` runs.

Definitions keep the names of the code where TLA+ allows it; `map` in `PROJECT.json` gives
the lines of each. Operators commented "Mutant" are plausible wrong versions of the
definition they precede and are used by no specification: replacing the definition by the
mutant must violate the property named in `PROJECT.json`, which shows that the property
depends on the code.

## 3. Runs that pass

Counts are distinct states. All runs explore the whole state space of their instance.

| run | instance | properties beyond the type invariant |
|---|---|---|
| `tracker` (12 128) | 1 partition, 5 offsets | `CursorIsProcessed`, `NothingStuck`, `CursorNeverMovesBack`, `FailedHoldsCursor` |
| `committer` (200 194) | 2 partitions, 3 offsets on one and 1 on the other, 1 error | `FinalCycleCommits`, `RefinesFrontier`, `CommitsCatchUp` |
| `worker` (44 415) | 2 topics with 2 and 1 messages, `max_attempts` 2, dead-letter channel of 1, 1 handler thread, 1 permit | `QueueAccounting`, `OneDisposition`, `AttemptsBounded`, `UnfinishedNotCovered`, `EveryMessageSettles` |
| `dispatcher` (36 142) | 2 partitions of 4 messages, queue 4, stream 2, 5 permits, 1 failing pause or resume | `CountersAgree`, `DroppedHoldsCursor`, `PausedIsPaused`, `StreamDrains` |
| `shutdown` (233 203) | `Lifecycle`: 2 workers, a fan-out sink and a batch topic, 2 runtimes | `NoPhasePanics`, `FinalizeAfterDrain`, `HandlersServed`, `StartReturns`, `PoolReturns`, `StatusCatchesUp` |
| `rebalance` (1 007 328) | 1 partition, 3 offsets, 3 assignments, 1 crash, channel 1, queue 1, drops | `CommittedIsSettled`, `NothingSkipped`, `EverythingSettles` |
| `batch` (197 153) | 2 partitions of 3 messages, batches of 2, queue 2 | `PartitionOrder`, `InflightIsUnsettled`, `CancelLosesNothing`, `NoBatchWaitsForever` |
| `producer` (6 783) | 3 `init()` calls, log channel of 2 | `CallsReturn`, `ThreadsEnd` |
| `fanout` (1 482 736) | 3 sinks | `FailedBranchesRouted`, `ArmedWaiterWakes` |

* `tracker`: from a partition's first ack up to the cursor everything was acked; an ack
  ahead of the cursor stays pending or failed; the cursor never moves back and passes a
  failed offset only when that very offset is acked. Partitions do not interact inside the
  tracker, so one is enough; five offsets leave room for two gaps and a redelivery.
* `committer`: committer plus Kafka implement `CommitFrontier`, although what is committed
  was read several steps earlier; lost signals, throttled cycles and a failed store, commit
  or broker request never leave a position behind for good; a final cycle that the throttle
  lets run commits every partition that may commit. Two partitions are needed for a
  signal to overwrite another's, three offsets for an ack to wait behind a gap.
* `worker`: each dispatched message is in exactly one of queue, hand, acked, handed to the
  dead-letter producer (which drops a dead letter when its channel is full);
  `inflight` counts the first two; a handler runs at most `max_attempts` times per message;
  whatever was interrupted stays ahead of the cursor; every message is settled unless the
  pool is cancelled, although handlers may hang for ever: the timeout alone gets the worker
  on. A late result changes nothing. Two workers make the dead-letter channel (capacity 1)
  overflow and meet in the one handler thread, which a hanging handler keeps.
* `dispatcher`: both counters equal what is queued or processed through every mixture of
  refused sends; a message dropped after the first ack of its partition holds the cursor, so
  it is delivered again; `paused_topics` never claims a pause that is not there; the dispatch
  loop is never wedged. Both limits are reached: queue full and permits used up (a refused
  send keeps its permit, so five permits run out behind a queue of four).
* `shutdown`: no assertion of the coordinator fails in any order of signal, `stop()`, panics
  and timeouts, in a first or a second run; Finalizing is reached only when the workers have
  ended or the timeout expired; with workers enough, every topic with a handler has a worker
  and a handler of its mode, in any order of registrations and starts; a drain that began
  while the pool was still running, with the dispatch loop subscribed, ends `start()`; a
  cancelled pool always returns, also when the token was cancelled before the pool was built;
  `status()` catches up with the workers of the first runtime. Two workers let one be inside a
  handler while the other notices the cancellation, two runtimes show what is left of the first.
* `rebalance`: the committed position covers no offset that nobody settled, unless it was
  dropped before its partition's first ack (the loss `dispatcher_loss` shows); what lies before
  this process's position is covered in that sense, underway, or was dropped under the present
  assignment, and is then fetched again at the next. Every offset is settled in the end if this
  process drops nothing of the partition or if another member has it for good; a partition kept
  after a drop may stay paused (`dispatcher_resume`) and its dropped messages are not fetched
  again while it is kept, so nothing is claimed of it. Three assignments and a crash allow the
  tracker to be stale, to be lost and to be stale again; a channel and a queue of one message
  each are enough for old deliveries of a partition to be in front of new ones and for drops
  between them. `auto.offset.reset` is earliest here.
* `batch`: the pipeline (being flushed, buffered, in hand, queued) is at every moment exactly
  the dispatched and unreported offsets in order; buffers stay below `max_batch_size` outside
  the add (part of `BatchTypeOK`); a cancelled worker that stops by itself has drained its
  buffers, and what one that the pool aborts in its drain leaves behind, buffered, in a batch or
  queued, lies ahead of the cursor; no partial batch waits for ever, although deadlines are never
  cleared.
* `producer`: every call and the drop end and let go of the GIL, with the log channel full,
  with a worker that never got its runtime, and with a worker that was replaced; a replaced
  worker ends. With a `log()` that waited for room the first would fail: the call holds the
  GIL, the worker waits for the log thread, the log thread for the GIL. Three `init()` calls
  replace a worker twice; a channel of two fills up while one call runs.
* `fanout`: push before count before notify, and `completed` loaded before `total`: no failed
  branch that had registered when `wait_all` compared goes without its dead letter, and a
  collector that waits for branches still running is woken, provided that no branch was about to
  notify when it began to wait. Without that proviso TLC finds a lost wakeup: a branch compares
  with a `total` that another is about to raise, its late notification wakes the collector, and
  the real one comes before the collector waits again (section 7).

`CHECK_DEADLOCK FALSE` is set where a run really may stop: when the bounded log is used up,
or after a shutdown. `producer` and `fanout` have no type invariant among their properties:
their variables are bounded by what the actions assign.

## 4. Runs that end in a violation

Each states what the repository says, and TLC shows the code do something else.

* `dispatcher_resume` / `PausedResumes`. `docs/guides.md:88` "When in-flight drops below the
  limit, the partition is **resumed**". `check_resume` runs only after a successful send;
  when the stream is empty and its partitions are paused there is none, and the partitions
  stay paused. The counterexample is under the fairness of section 5.
* `dispatcher_loss` / `CursorCoversProcessed`. `offset/mod.rs:3-4` promises at-least-once. A
  message dropped on a full queue before the partition's first ack lies below the seeded
  cursor; it is committed and never delivered again. `runtime/builder.rs:152-153` says that a full
  queue pauses the partition "rather than silently dropping messages"; it does both.
* `shutdown_stop` / `StopReachesDone`. `kafpy/consumer.py:68-70` says `stop()` goes through
  the four phases. It only cancels the token; the phase stays Running, and the committer,
  which `start()` awaits, waits for Done for ever. TLC's trace also has a signal before the
  stop; it is not needed.

## 5. Fairness

Weak fairness on what a tokio task does by itself: a task that is ready is polled again. So
each worker, the pool, the committer's cycle, the dispatch loop, the poll loop, the
dead-letter task, the signal task after the signal, the runtime and every fan-out task get
WF, and so do the producer's and the log's threads and a call in progress, which the operating
system schedules. Time passes (`IntervalElapses`, `DeadlineElapses`), Kafka answers a request
(`BrokerApplies`, with a bounded number of errors), and a member that owns a partition
works on it. In `Worker` a handler need not end: `handler_timeout` is taken to be configured
and the timer is fair, the handler is not. Elsewhere handlers end: the batch invocations have
no timeout in the code, the threads that `start()` waits for at its end have none either, and
so this is an assumption about the user's handler. In `Lifecycle` a `start()` that was called
goes on, the snapshot task ticks, and the tasks of `Shutdown` are fair while a runtime is
there. There is no fairness on the environment:
nobody has to send messages, assign or revoke, crash, raise a signal, register a handler, call
`start()`, `stop()` or a method of the producer. No strong fairness is used.

## 6. What is proved

All theorems are about the specification without fairness (`Spec`, `SafetySpec`,
`CommitterSafetySpec`, ...), which the specification that TLC checks has as a conjunct. They
hold for every value of the constants that meets the named `ASSUME`s of the modules:

| assumption | says | why the code justifies it |
|---|---|---|
| `MaxOffsetAssumption` | the log's last offset is a natural number | offsets start at 0; the bound is the model's |
| `DeliveredAssumption`, `ArrivalsAssumption`, `RegistrationAssumption` | the instance's inputs are of their type | inputs of the environment |
| `MaxErrorsAssumption`, `RebalanceAssumption`, `MaxStartsAssumption` | how often the environment fails, reassigns, restarts is a natural number | bounds of the model, any size |
| `MaxAttemptsAssumption`, `DispatcherAssumption` | `max_attempts`, limits are naturals, 0 included; capacities are positive | unsigned configuration values; `mpsc::channel(0)` panics |
| `ConcurrencyAssumption`, `BlockingThreadsAssumption`, `DlqCapacityAssumption`, `BatchAssumption` | positive | a semaphore, thread pool, channel or batch of 0 does nothing |
| `NoPartitionAssumption` | the marker for "none" is not a partition | an `Option` in the code |
| `FiniteAssumption` | topics and workers are finite sets | maps and vectors |
| `SinkCountAssumption` | 1 to 255 sinks | `total` and `completed` are `AtomicU8` and wrap from 256 on; the documented degree is at most 64 (`worker_pool/fan_out.rs:4`), which nothing enforces on the list of sinks |

No assumption is made on the sets of partitions, which may be infinite. Each module has one
inductive invariant; TLC checked it on the run's instance before it was proved. Every proof
has one lemma (or one step) per action.

**`OffsetTrackerProofs`**, about the tracker alone:

| theorem | statement |
|---|---|
| `Invariance` | `Spec => []IInv` |
| `TypeCorrect` | `Spec => []TypeOK` |
| `CursorSafety` | `Spec => []CursorIsProcessed` |
| `NoAckForgotten` | `Spec => []NothingStuck` |
| `CursorMonotone` | `Spec => CursorNeverMovesBack` |
| `FailureBlocks` | `Spec => FailedHoldsCursor` |

`IInv` says of every registered partition (`PartitionInv`) what the two invariants say plus
two strengthenings without which it is not inductive: pending offsets are acked (the cursor
moves over pending offsets only, so otherwise it could come to cover anything), and no
offset is both pending and failed (otherwise the cursor could run over a failed one). Of
an unregistered partition it says that its state is fresh. The argument: the least natural
number of a nonempty set exists (`LeastNatural`), hence the loop of `ack` stops, having
passed pending offsets only (`ContiguousStops`); hence one ack (`AckKeepsPartition`) and one
failure (`FailKeepsPartition`) keep `PartitionInv`; `StepInvariant` lifts this to the tracker
and `StepCursor` gives the two action properties. The modules that hold a tracker reuse
`StepInvariant`, because their `ack` and `mark_failed` are the tracker's.

**`OffsetCommitterProofs`**:

| theorem | statement |
|---|---|
| `CommitterInvariance` | `CommitterSafetySpec => []CommitterInv` |
| `CommitterTypeCorrect` | `CommitterSafetySpec => []CommitterTypeOK` |
| `FinalCycleComplete` | `CommitterSafetySpec => []FinalCycleCommits` |
| `CommitterRefinesFrontier` | `CommitterSafetySpec => RefinesFrontier` |

`CommitterInv` adds to `IInv` that broker, requested, stored position and cursor + 1 are in
this order and lie behind acked offsets (`PositionsOrdered`); that a pair the cycle has read is
between the stored position and the cursor and that there is one per partition (`CycleInv`),
without which a late store could move the position back; and, for the final cycle, where a
partition that may commit is (`FinalInv`). The refinement follows step by step: only
`BrokerApplies` moves the committed position, to one that `PositionsOrdered` says is covered,
and an ack of a worker is the abstract `Process`.

**`RebalanceProofs`**:

| theorem | statement |
|---|---|
| `RebalanceInvariance` | `RebalanceSafetySpec => []RebalanceInv` |
| `RebalanceTypeCorrect` | `RebalanceSafetySpec => []RebalanceTypeOK` |
| `AtLeastOnce` | `RebalanceSafetySpec => []CommittedIsSettled` |
| `SeekSkipsNothing` | `RebalanceSafetySpec => []NothingSkipped` |

The first ack of a partition seeds the cursor wherever it is, so at-least-once needs that
nothing before it is neither settled nor exposed. `PathInOrder` is the strengthening that says so:
while a partition has no ack, whatever lies before a message underway (in queue or channel) is
covered or underway in front of it, although reassignments append new deliveries behind old ones.
After that ack the tracker's own invariant takes over, because a dropped message is not acked.
`CursorCovered` and `StartupCovered` then say of everything a commit or a seek may use that what
lies before it is covered.

**`WorkerProofs`**:

| theorem | statement |
|---|---|
| `WorkerInvariance` | `WorkerSafetySpec => []WorkerInv` |
| `WorkerTypeCorrect` | `WorkerSafetySpec => []WorkerTypeOK` |
| `InflightExact` | `WorkerSafetySpec => []QueueAccounting` |
| `DispositionUnique` | `WorkerSafetySpec => []OneDisposition` |
| `RetriesBounded` | `WorkerSafetySpec => []AttemptsBounded` |
| `UnfinishedIsAhead` | `WorkerSafetySpec => []UnfinishedNotCovered` |

`PlacedInv`: the channel holds the offsets from `Front(p)` on in order, the hand the one before
or nothing, and all others below `Front(p)` are acked or routed and not both. So a held offset
is not acked, and the tracker's invariant keeps the cursor in front of it. `AttemptInv` relates
three counts: the coordinator's, the runs that began, and a run that waits for its thread, which
may begin after the worker has given it up; the bound on the runs is not inductive without it.
`StageInv` says what a worker holds in each state, its permit included.

**`BatchWorkerProofs`**:

| theorem | statement |
|---|---|
| `BatchInvariance` | `BatchSafetySpec => []BatchInv` |
| `BatchTypeCorrect` | `BatchSafetySpec => []BatchTypeOK` |
| `OrderKept` | `BatchSafetySpec => []PartitionOrder` |
| `BatchInflightExact` | `BatchSafetySpec => []InflightIsUnsettled` |
| `CancelSafe` | `BatchSafetySpec => []CancelLosesNothing` |

`OrderInv` is `PartitionOrder` place by place: the batch, the buffer, the hand and the channel
hold a partition's offsets from `settled` to `next` one behind the other, and `TakeHead` and
`AddLast` say what taking from and sending to the channel does to that. It needs `StageInv`: a
buffer is flushed only when the batches before it have been reported, and a message in hand is
one that the loop will come back to. `AckedReported` (only reported offsets are acked) is what
`CancelSafe` needs of an aborted worker. `Consecutive` puts the places together again.

**`DispatcherProofs`**:

| theorem | statement |
|---|---|
| `DispatcherInvariance` | `DispatcherSafetySpec => []DispatcherInv` |
| `DispatcherTypeCorrect` | `DispatcherSafetySpec => []DispatcherTypeOK` |
| `CountersExact` | `DispatcherSafetySpec => []CountersAgree` |
| `PauseTruthful` | `DispatcherSafetySpec => []PausedIsPaused` |
| `DroppedIsRedelivered` | `DispatcherSafetySpec => []DroppedHoldsCursor` |

`Placement`: a polled message is on the stream once, or dropped, or taken by the queue, the
worker or the tracker, never two of these. So a dropped message is never acked, and the tracker's
invariant stops the cursor in front of it. `PauseInv`, `ClosedInv` and `HeldInv` are what the
pause and the counters need: a pause finds partitions, a dropped receiver takes its messages
with it, the worker has one message at a time.

**`LifecycleProofs`**, first about one runtime (`Shutdown`), then about a `Consumer` that is
started any number of times (`Lifecycle`):

| theorem | statement |
|---|---|
| `Invariance` | `SafetySpec => []IInv` |
| `TypeCorrect` | `SafetySpec => []ShutdownTypeOK` |
| `NoPanic` | `SafetySpec => []NoPhasePanics` |
| `FinalizeLast` | `SafetySpec => []FinalizeAfterDrain` |
| `LifecycleInvariance` | `LifecycleSafetySpec => []LifecycleInv` |
| `LifecycleTypeCorrect` | `LifecycleSafetySpec => []LifecycleTypeOK` |
| `NoPanicOverRestarts` | `LifecycleSafetySpec => []NoPhasePanics` |
| `FinalizeLastOverRestarts` | `LifecycleSafetySpec => []FinalizeAfterDrain` |
| `EveryHandlerServed` | `LifecycleSafetySpec => []HandlersServed` |

`IInv` adds who owns the phase (`PhaseOwner`: the signal task has not passed
`begin_draining` exactly while the phase is Running; the pool is about to finalize only in
Draining and to finish exactly in Finalizing) and that past the drain every worker has ended
unless the timeout expired (`DrainedPool`). Without the first an assertion could fail,
without the second the phase could reach Finalizing over a running worker. `LifecycleInv` has
`PhaseOwner` only while a runtime is there (dropping it ends the signal task in any phase), and
adds that a runtime is built with no thread left over (`BuildInv`) and that what each read of
the handler map found is still true at the next (`ReadsAgree`).

**`FanOutProofs`**:

| theorem | statement |
|---|---|
| `FanOutInvariance` | `FanOutSafetySpec => []FanOutInv` |
| `FailuresReachDlq` | `FanOutSafetySpec => []FailedBranchesRouted` |

The argument is a count (`CountersInv`): `total` is the number of branches registered, `completed`
of those counted, and the second set is a subset of the first. `completed` is loaded before
`total`, so `done >= total` makes the sets equal: all registered branches have pushed
(`WaitedInv`), and a branch that registers later gets an id of at least `done`. `SnapshotInv`
carries that over the clone.

**Only model-checked**: all liveness (`CommitsCatchUp`, `EveryMessageSettles`, `StreamDrains`,
`StartReturns`, `PoolReturns`, `StatusCatchesUp`, `EverythingSettles`, `NoBatchWaitsForever`,
`CallsReturn`, `ThreadsEnd`, `ArmedWaiterWakes`), because the prover does not handle fairness and
ENABLED. `Producer` has no other property, so it has no proofs. `PartitionOrder` is stated with
positions in the channel and not with `SelectSeq`, and `InflightIsUnsettled` as a cardinality and
not as a sum: what a fold returns for every sequence would need induction over data, which this
prover cannot do.

## 7. Other things the models made visible

**Tests and comments the code does not satisfy.** On each of these the model follows the code, a
property that passes says what the code does, and the test of the repository says something else
(`findings` in `PROJECT.json`):

| test | says | the code, and the property |
|---|---|---|
| `multiple_partitions_independent` (`offset/offset_tracker.rs:482-483`) | acks of 10 and 12 only put the cursor at 12 | stays at 10: 11 was not acked (`CursorIsProcessed`) |
| `failed_offset_does_not_advance_cursor` (`offset_tracker.rs:437-448`) | the cursor, at 12, is at 11 after `mark_failed(11)` | stays at 12 (`CursorNeverMovesBack`) |
| `max_attempts_exceeded_returns_no_retry` (`retry/retry_coordinator.rs:200-222`), with `policy.rs:12`, `kafpy/config.py:217`, `docs/api.md:134` | with `max_attempts` 2 two failures are retried, three runs of the handler | the second failure exhausts the message, two runs (`AttemptsBounded`, checked with 2) |
| `should_commit_true_when_next_offset_pending` (`offset_tracker.rs:427`), `first_ack_advances_from_minus_one` (`:466`), with the comments `:10` and `:187` | `should_commit` is false unless the next offset is pending | true of every seeded partition without a terminal failure (`ReadyToCommit`) |

The following break no property the runs check but differ from what comments suggest, or are easy to
miss:

* `mark_failed` on a partition that has never acked is forgotten: the partition has no entry.
* Redelivered offsets at or below the cursor stay in `pending_offsets` or `failed_offsets`.
* `commit_task.rs:90` says the committer "drains all pending offsets before exiting"; its last
  cycle is throttled like any other, so within `commit_interval_ms` of the cycle before it the
  task ends with acked offsets uncommitted. They are delivered again after a restart.
* `message_count`, compared with `commit_max_messages`, is never counted up.
* A second `init()` of the producer is not refused: the first worker ends by itself and is
  never joined.
* A handler that times out goes on in its blocking thread; only its result is given up. Its
  permit is returned all the same, so more handlers run at once than `concurrency` says
  (`worker_pool/concurrency.rs:3`). A timeout is terminal: there is no retry after it. Hanging handlers use up
  the blocking pool; then messages time out and are dead-lettered whose handler never ran,
  and a queued one may still run after its message was dead-lettered.
* The permit is held through the retry sleep, so a failing message keeps others of its handler
  waiting. Batch invocations ignore `handler_timeout`.
* A second `start()` after `stop()` or a signal meets the cancelled token: it processes
  nothing, its phase stays Running and its committer waits for Done, so it never returns.
* `status()` shows the frozen snapshot of the first runtime after a second `start()`; a worker
  that panicked or was aborted in a handler is shown active for ever; status callbacks
  are stored and never called.
* Topics beyond the number of workers are not served. One single-message handler among batch
  handlers makes the pool run all of them message by message. `add_handler` after
  `register_fanout` of the same topic is shadowed by the fan-out handler.
* `pool.run` waits for its workers and not for the token: the drain timeout begins when the
  first of them ends.
* `should_commit` is true of any seeded partition without a terminal failure, whether or not
  there is anything new; after one terminal failure a partition is never committed again by
  the committer, but `pre_rebalance` commits it all the same.
* `max_attempts` counts calls of the handler, not retries (table above); the attempt count written into a
  dead letter of an exhausted message is 0, because the state it is read from has become
  Exhausted. Exhausted entries are never removed.
* Failed offsets are dead-lettered when they fail and once more by `flush_failed_to_dlq`.
* On Full or Closed `send` takes back `inflight` but not the semaphore's permit;
  `queue_depth` includes the message being processed, so the resume threshold compares with
  more than the queue.
* `partition_handles` are filled once: a partition assigned later is not paused.
* The stop broadcast is lost when the poll loop has not subscribed yet.
* `JoinSet::shutdown` aborts at once, so the drain timeout is not time for handlers to end, and
  of several batch workers only the first to exit after a cancellation is sure to drain.
* The batch loop's `BatchState` never returns to Normal, it dead-letters failures the retry
  coordinator wants retried, and a passed deadline of an emptied buffer makes the loop spin
  until the next message.
* In the fan-out path a branch may register after `wait_all` has compared the counters; a
  `notify_waiters` between the compare and the wait is lost, and so is one that comes while the
  collector was woken by another branch's late notification, made on an old `total`, so `wait_all`
  ("Wait for all fan-out branches to reach terminal state", `worker_pool/fan_out.rs:282`) may
  wait for ever; `release_slot` has no matching
  acquire, and results in completion order are zipped with topics in configuration order.

## 8. Not modelled

* The crossing into Python (`execution/callback.rs`): a handler is a thread and an outcome; the
  arguments made for it, the event loop of an async handler and the trace context are left out.
* **FanOutSlotManager, CallbackRegistry**: nothing calls them.
* **Dead-letter metadata and routing, failure classification**: stateless tables and
  formatting; the three failure categories are kept.
* **Metrics, trace headers, middleware**, the logger cache and formatting of `log.rs`: they
  report, and no component reads them back. The queue depths and the lag in the snapshot are
  copies of what `Dispatcher` and `OffsetTracker` model.
* **Configuration, bindings, Python facade**: records, validation and conversion; the values
  become constants.
* Two `start()` calls at once, and the Windows signal handler, which never cancels.
* Message contents, headers, wall-clock durations, retry delays (only that time passes).
* Kafka itself: per partition a log, a stored, a requested and a committed position.

## 9. Plan

Done: all modules above, and the proof of every safety property of the passing runs. Next:

1. Lemmas that say more about the composition: that `Dispatcher`'s queue is a `Worker`'s channel,
   so that the two modules' theorems can be read as one about the path from stream to ack.
2. Action properties of the modules that hold a tracker (the cursor never moves back under them,
   which `StepCursor` gives them already).
3. A composition of dispatcher, worker and committer that shows the frontier end to end.
