------------------------------- MODULE Worker -------------------------------
(***************************************************************************)
(* src/src/worker_pool/worker.rs with what it drives: the handler          *)
(* invocation, the retry coordinator, the dispatcher's queue counters, the *)
(* offset tracker and the dead-letter producer.  Each topic has one worker *)
(* task that takes the messages of its channel one at a time; a topic is   *)
(* modelled with one partition.  A handler runs on a thread of the         *)
(* runtime's blocking pool, which all workers share; handler_timeout ends  *)
(* the wait for it and never the thread.  The worker pool's shutdown       *)
(* (pool.rs) cancels the workers, aborts the ones that have not stopped    *)
(* and flushes the failed offsets.  A handler result and everything the    *)
(* worker does about it happen without an await in between, so they are    *)
(* one step.                                                               *)
(***************************************************************************)
EXTENDS OffsetTracker, RetryCoordinator, Sequences, FiniteSets

CONSTANTS
    Arrivals,        \* bound: how many messages each topic receives
    DlqCapacity,     \* capacity of the dead-letter producer's channel
    Concurrency,     \* permits of a handler's semaphore
    BlockingThreads  \* threads of the runtime's blocking pool

ASSUME ArrivalsAssumption == Arrivals \in [Partitions -> 0 .. MaxOffset + 1]

ASSUME DlqCapacityAssumption == DlqCapacity \in Nat \ {0}

ASSUME ConcurrencyAssumption == Concurrency \in Nat \ {0}

ASSUME BlockingThreadsAssumption == BlockingThreads \in Nat \ {0}

VARIABLES
    next,        \* the next offset the dispatcher puts into a channel
    channel,     \* the bounded channel of each worker
    inflight,    \* QueueManager's inflight count of each topic
    worker,      \* WorkerState of each worker, or where it stopped
    held,        \* the message a worker has taken and not settled
    retries,     \* RetryCoordinator's state per message
    permits,     \* HandlerConcurrency: the permits left to each handler
    thread,      \* the blocking task that runs a message's handler
    dlq_channel, \* messages waiting for the dead-letter producer
    cancelled,   \* the pool's shutdown token
    pool,        \* WorkerPool: "run", "flush", "stopped"
    flushing,    \* offsets flush_failed_to_dlq has still to produce
    invocations, \* history: how often each message's handler began to run
    routed       \* history: the messages sent to the DLQ when they failed

NoMessage == -1

Messages == Partitions \X Offsets

queueVars  == <<next, channel, inflight>>
callVars   == <<permits, thread, invocations>>
workerVars == <<worker, held, retries, callVars, routed>>
poolVars   == <<cancelled, pool, flushing>>
vars == <<trackerVars, queueVars, workerVars, dlq_channel, poolVars>>

\* The messages whose handlers hold a thread of the blocking pool.
Running == {m \in Messages : thread[m] = "running"}

WorkerTypeOK ==
    /\ TypeOK
    /\ next \in [Partitions -> 0 .. MaxOffset + 1]
    /\ channel \in [Partitions -> Seq(Offsets)]
    /\ inflight \in [Partitions -> 0 .. MaxOffset + 1]
    /\ worker \in [Partitions -> {"idle", "processing", "invoking", "sleeping",
                                "stopped"}]
    /\ held \in [Partitions -> Offsets \cup {NoMessage}]
    /\ retries \in [Messages -> RetryStates]
    /\ permits \in [Partitions -> 0 .. Concurrency]
    /\ thread \in [Messages -> {"none", "queued", "running"}]
    /\ Cardinality(Running) <= BlockingThreads
    /\ dlq_channel \in Seq(Messages) /\ Len(dlq_channel) <= DlqCapacity
    /\ cancelled \in BOOLEAN
    /\ pool \in {"run", "flush", "stopped"}
    /\ flushing \in SUBSET Messages
    /\ invocations \in [Messages -> Nat]
    /\ routed \in SUBSET Messages

WorkerInit ==
    /\ Init
    /\ next = [p \in Partitions |-> 0]
    /\ channel = [p \in Partitions |-> <<>>]
    /\ inflight = [p \in Partitions |-> 0]
    /\ worker = [p \in Partitions |-> "idle"]
    /\ held = [p \in Partitions |-> NoMessage]
    /\ retries = [m \in Messages |-> Absent]
    /\ permits = [p \in Partitions |-> Concurrency]
    /\ thread = [m \in Messages |-> "none"]
    /\ dlq_channel = <<>>
    /\ cancelled = FALSE /\ pool = "run" /\ flushing = {}
    /\ invocations = [m \in Messages |-> 0]
    /\ routed = {}
-----------------------------------------------------------------------------
\* The dispatcher's successful send, to a worker that still has its receiver;
\* what it does on a full or closed queue is the Dispatcher module's subject.
Dispatch(p) ==
    /\ next[p] < Arrivals[p] /\ worker[p] # "stopped"
    /\ channel' = [channel EXCEPT ![p] = Append(@, next[p])]
    /\ inflight' = [inflight EXCEPT ![p] = @ + 1]
    /\ next' = [next EXCEPT ![p] = @ + 1]
    /\ UNCHANGED <<trackerVars, workerVars, dlq_channel, poolVars>>

\* The select of poll_for_work is not biased: a worker may still take a
\* message after cancellation.
poll_for_work(p) ==
    /\ worker[p] = "idle" /\ channel[p] # <<>>
    /\ worker' = [worker EXCEPT ![p] = "processing"]
    /\ held' = [held EXCEPT ![p] = Head(channel[p])]
    /\ channel' = [channel EXCEPT ![p] = Tail(@)]
    /\ UNCHANGED <<trackerVars, next, inflight, retries, callVars, routed,
                   dlq_channel, poolVars>>

poll_cancelled(p) ==
    /\ worker[p] = "idle" /\ cancelled
    /\ worker' = [worker EXCEPT ![p] = "stopped"]
    /\ UNCHANGED <<trackerVars, queueVars, held, retries, callVars, routed,
                   dlq_channel, poolVars>>

\* Mutant: the counter is not decremented.
queue_ack_none(p) == UNCHANGED inflight

\* QueueManager::ack(topic, 1): the counters saturate at zero.
queue_ack(p) ==
    inflight' = [inflight EXCEPT ![p] = IF @ = 0 THEN 0 ELSE @ - 1]

\* Mutant: the channel is not bounded.
produce_async_unbounded(m) == dlq_channel' = Append(dlq_channel, m)

\* produce_async: a message that finds the channel full is dropped.
produce_async(m) ==
    dlq_channel' = IF Len(dlq_channel) < DlqCapacity
                   THEN Append(dlq_channel, m) ELSE dlq_channel
-----------------------------------------------------------------------------
(* The handler invocation.                                                 *)

\* The permit is dropped where the block around the invocation is left.
release(p) == permits' = [permits EXCEPT ![p] = @ + 1]

\* acquire, then spawn_blocking: the closure waits for a thread.
Invoke(p) ==
    /\ worker[p] = "processing" /\ permits[p] > 0
    /\ permits' = [permits EXCEPT ![p] = @ - 1]
    /\ thread' = [thread EXCEPT ![<<p, held[p]>>] = "queued"]
    /\ worker' = [worker EXCEPT ![p] = "invoking"]
    /\ UNCHANGED <<trackerVars, queueVars, held, retries, invocations, routed,
                   dlq_channel, poolVars>>

\* A thread of the blocking pool is free and runs the handler, whether
\* anybody still waits for its result or not.
ThreadStarts(m) ==
    /\ thread[m] = "queued" /\ Cardinality(Running) < BlockingThreads
    /\ thread' = [thread EXCEPT ![m] = "running"]
    /\ invocations' = [invocations EXCEPT ![m] = @ + 1]
    /\ UNCHANGED <<trackerVars, queueVars, worker, held, retries, permits, routed,
                   dlq_channel, poolVars>>

\* The worker of a message is waiting for its handler's result.
Awaited(m) == worker[m[1]] = "invoking" /\ held[m[1]] = m[2]

\* The handler of p's message ends while the worker waits for it.
HandlerEnds(p) ==
    /\ worker[p] = "invoking" /\ thread[<<p, held[p]>>] = "running"
    /\ thread' = [thread EXCEPT ![<<p, held[p]>>] = "none"]
    /\ UNCHANGED invocations

\* Mutant: the late result is recorded as if somebody waited for it.
LateReturnAcks(m) ==
    /\ thread[m] = "running" /\ ~ Awaited(m)
    /\ thread' = [thread EXCEPT ![m] = "none"]
    /\ ack(m[1], m[2])
    /\ UNCHANGED <<queueVars, worker, held, retries, permits, invocations, routed,
                   dlq_channel, poolVars>>

\* A handler that timed out or whose worker was aborted ends after all: its
\* result has no receiver any more.
LateReturn(m) ==
    /\ thread[m] = "running" /\ ~ Awaited(m)
    /\ thread' = [thread EXCEPT ![m] = "none"]
    /\ UNCHANGED <<trackerVars, queueVars, worker, held, retries, permits,
                   invocations, routed, dlq_channel, poolVars>>
-----------------------------------------------------------------------------
(* handle_execution_result and the rest of the loop's body.                *)

\* The message is settled; a cancelled worker stops here.
Settle(p) ==
    /\ worker' = [worker EXCEPT ![p] = IF cancelled THEN "stopped" ELSE "idle"]
    /\ held' = [held EXCEPT ![p] = NoMessage]
    /\ release(p)

\* The handler returned: whatever it returned counts as success.
HandlerOk(p) ==
    /\ HandlerEnds(p)
    /\ retries' = [retries EXCEPT ![<<p, held[p]>>] = Absent]
    /\ queue_ack(p)
    /\ ack(p, held[p])
    /\ Settle(p)
    /\ UNCHANGED <<next, channel, routed, dlq_channel, poolVars>>

\* Mutant: a failed message is acked before the retry decision.
handle_failure_acks(p, category) ==
    LET m == <<p, held[p]>>
        decision == record_failure(retries[m], category)
    IN  /\ ack(p, held[p])
        /\ retries' = [retries EXCEPT ![m] = decision.state]
        /\ IF decision.retry
           THEN /\ worker' = [worker EXCEPT ![p] = "sleeping"]
                /\ UNCHANGED <<inflight, held, permits, routed, dlq_channel>>
           ELSE /\ produce_async(m)
                /\ queue_ack(p)
                /\ Settle(p)
                /\ UNCHANGED routed
        /\ UNCHANGED <<next, channel, poolVars>>

\* mark_failed and handle_execution_failure: retry after a sleep, during
\* which the permit is kept, or route to the DLQ.
handle_failure(p, category) ==
    LET m == <<p, held[p]>>
        decision == record_failure(retries[m], category)
    IN  /\ mark_failed(p, held[p], category)
        /\ retries' = [retries EXCEPT ![m] = decision.state]
        /\ IF decision.retry
           THEN /\ worker' = [worker EXCEPT ![p] = "sleeping"]
                /\ UNCHANGED <<inflight, held, permits, routed, dlq_channel>>
           ELSE /\ produce_async(m)
                /\ routed' = routed \cup {m}
                /\ queue_ack(p)
                /\ Settle(p)
        /\ UNCHANGED <<next, channel, poolVars>>

\* The handler raised, with the category the classifier finds for the
\* exception, or panicked, which is Terminal.
HandlerFails(p, category) ==
    /\ HandlerEnds(p)
    /\ handle_failure(p, category)

\* Mutant: the timer runs inside the blocking task.
HandlerTimesOutRunning(p) ==
    /\ worker[p] = "invoking" /\ thread[<<p, held[p]>>] = "running"
    /\ handle_failure(p, "Terminal")
    /\ UNCHANGED <<thread, invocations>>

\* handler_timeout expires, whether the handler runs or still waits for a
\* thread: a Terminal failure.  The thread is left to itself.
HandlerTimesOut(p) ==
    /\ worker[p] = "invoking"
    /\ handle_failure(p, "Terminal")
    /\ UNCHANGED <<thread, invocations>>

\* The retry sleep ends and the same message is processed again.
RetryWakes(p) ==
    /\ worker[p] = "sleeping" /\ ~ cancelled
    /\ worker' = [worker EXCEPT ![p] = "processing"]
    /\ release(p)
    /\ UNCHANGED <<trackerVars, queueVars, held, retries, thread, invocations,
                   routed, dlq_channel, poolVars>>

\* Cancelled while sleeping: the worker returns and the message with it.
RetryCancelled(p) ==
    /\ worker[p] = "sleeping" /\ cancelled
    /\ worker' = [worker EXCEPT ![p] = "stopped"]
    /\ release(p)
    /\ UNCHANGED <<trackerVars, queueVars, held, retries, thread, invocations,
                   routed, dlq_channel, poolVars>>
-----------------------------------------------------------------------------
(* The dead-letter producer's task: a produce that fails is only logged.   *)

DlqProduces ==
    /\ dlq_channel # <<>>
    /\ dlq_channel' = Tail(dlq_channel)
    /\ UNCHANGED <<trackerVars, queueVars, workerVars, poolVars>>
-----------------------------------------------------------------------------
(* WorkerPool.                                                             *)

Cancel ==
    /\ ~ cancelled
    /\ cancelled' = TRUE
    /\ UNCHANGED <<trackerVars, queueVars, workerVars, dlq_channel, pool, flushing>>

\* JoinSet::shutdown aborts every worker that has not stopped, wherever it
\* is suspended, and the pool starts to flush the failed offsets.  Handlers
\* run on.
PoolShutdown ==
    /\ cancelled /\ pool = "run"
    /\ worker' = [p \in Partitions |-> "stopped"]
    /\ permits' = [p \in Partitions |-> Concurrency]
    /\ pool' = "flush"
    /\ flushing' = {m \in Messages : m[1] \in registered /\ m[2] \in failed(m[1])}
    /\ UNCHANGED <<trackerVars, queueVars, held, retries, thread, invocations,
                   routed, dlq_channel, cancelled>>

flush_failed_to_dlq(m) ==
    /\ pool = "flush" /\ m \in flushing
    /\ produce_async(m)
    /\ flushing' = flushing \ {m}
    /\ UNCHANGED <<trackerVars, queueVars, workerVars, cancelled, pool>>

FlushEnds ==
    /\ pool = "flush" /\ flushing = {}
    /\ pool' = "stopped"
    /\ UNCHANGED <<trackerVars, queueVars, workerVars, dlq_channel, cancelled, flushing>>
-----------------------------------------------------------------------------
WorkerStep(p) ==
    \/ poll_for_work(p) \/ poll_cancelled(p)
    \/ Invoke(p) \/ HandlerTimesOut(p)
    \/ RetryWakes(p) \/ RetryCancelled(p)

HandlerStep ==
    \/ \E m \in Messages : ThreadStarts(m) \/ LateReturn(m)
    \/ \E p \in Partitions : HandlerOk(p)
    \/ \E p \in Partitions, category \in Categories : HandlerFails(p, category)

PoolStep ==
    PoolShutdown \/ (\E m \in Messages : flush_failed_to_dlq(m)) \/ FlushEnds

WorkerNext ==
    \/ \E p \in Partitions : Dispatch(p) \/ WorkerStep(p)
    \/ HandlerStep
    \/ DlqProduces
    \/ Cancel \/ PoolStep

WorkerSafetySpec == WorkerInit /\ [][WorkerNext]_vars

(***************************************************************************)
(* Workers, the pool and the dead-letter task are polled by the runtime,   *)
(* and so is the timer of handler_timeout, which is taken to be configured *)
(* (without it the behaviours are the ones in which it never expires).     *)
(* Nothing is assumed of the handlers: one may hang for ever and keep its  *)
(* thread.  Nobody has to send messages or to stop the pool.               *)
(***************************************************************************)
WorkerSpec ==
    /\ WorkerSafetySpec
    /\ \A p \in Partitions : WF_vars(WorkerStep(p))
    /\ WF_vars(PoolStep)
    /\ WF_vars(DlqProduces)
-----------------------------------------------------------------------------
(* Properties.                                                             *)

\* inflight, which drives backpressure, counts exactly the messages queued
\* and the one the worker holds: across retries, dead-lettering and success
\* each message is counted down once, and never while it is being retried.
QueueAccounting ==
    \A p \in Partitions :
        inflight[p] = Len(channel[p]) + (IF held[p] = NoMessage THEN 0 ELSE 1)

\* The offsets waiting in a worker's channel.
Queued(p) == {channel[p][i] : i \in DOMAIN channel[p]}

\* A dispatched message is always in one place and never in two: queued (in
\* the channel of a stopped worker, too), held by the worker, acked, or handed
\* to produce_async, which itself drops a dead letter when its channel is
\* full.  A handler that answers after its timeout does not get the message
\* acked as well.
OneDisposition ==
    \A p \in Partitions : \A o \in 0 .. next[p] - 1 :
        Cardinality({place \in {"queued", "held", "acked", "routed"} :
            \/ place = "queued" /\ o \in Queued(p)
            \/ place = "held"   /\ o = held[p]
            \/ place = "acked"  /\ o \in acked[p]
            \/ place = "routed" /\ <<p, o>> \in routed}) = 1

\* Retrying is bounded: a message's handler runs at most max_attempts times
\* (once when max_attempts is 0), the runs nobody waits for any more included.
AttemptsBounded ==
    \A m \in Messages :
        invocations[m] <= IF MaxAttempts = 0 THEN 1 ELSE MaxAttempts

\* A message still queued or held, whether it was never tried, is being
\* retried or was abandoned by cancellation or abort, is ahead of the cursor:
\* no commit covers it, and it is delivered again after a restart.
UnfinishedNotCovered ==
    \A p \in registered :
        /\ \A o \in Queued(p) : o > cursor(p)
        /\ held[p] # NoMessage => held[p] > cursor(p)

\* Every dispatched message is eventually acked or routed to the DLQ, unless
\* the pool is cancelled: no message is retried forever and none keeps the
\* worker from the ones behind it, even when handlers hang and hold every
\* thread of the blocking pool.
EveryMessageSettles ==
    \A p \in Partitions, o \in Offsets :
        (o < next[p]) ~> (o \in acked[p] \/ <<p, o>> \in routed \/ cancelled)
=============================================================================
