---------------------------- MODULE BatchWorker ----------------------------
(***************************************************************************)
(* src/src/worker_pool/batch_loop.rs: the worker of a topic whose handler  *)
(* takes batches, with its accumulator (src/src/execution/batch.rs,        *)
(* src/src/worker_pool/accumulator.rs), the queue counters and the offset  *)
(* tracker it reports to.  A buffer per partition fills until it has       *)
(* max_batch_size messages, the deadline of some buffer passes, the queue  *)
(* is at capacity, or the worker is cancelled.  The batch handler runs     *)
(* while messages keep arriving, and its result is reported message by     *)
(* message.  The loop tells the retry coordinator of failures and ignores  *)
(* its answer, so the coordinator's state is left out.  The channel never  *)
(* closes under the worker (the QueueManager it holds owns the sender),    *)
(* and the flush before an add never finds a full buffer (BatchTypeOK):    *)
(* both branches are left out.  Time is one bit per buffer: whether its    *)
(* deadline has passed.  Offsets number the messages that the dispatcher   *)
(* found room for: one dropped at a full queue never gets here.            *)
(***************************************************************************)
EXTENDS OffsetTracker, Sequences, FiniteSets

CONSTANTS
    MaxBatchSize, \* batch_policy.max_batch_size
    Capacity      \* of the topic's channel

ASSUME BatchAssumption ==
    MaxBatchSize \in Nat \ {0} /\ Capacity \in Nat \ {0}

VARIABLES
    next,        \* the next offset the dispatcher sends, per partition
    rx,          \* the channel
    inflight,    \* QueueManager's count
    buffers,     \* PerPartitionBuffer.messages
    deadline,    \* PerPartitionBuffer.deadline: not set, ahead, or passed
    batch_state, \* "Normal" or "Backpressure"
    pc,          \* "select", "add", "flush", "settle", "stopped" or "aborted"
    msg,         \* the message taken from the channel and not yet added
    flushing,    \* batches taken out of the buffers, per partition
    batch,       \* while settling: partition and outcome of the batch
    resume,      \* where the loop goes on after the flush
    routed,      \* messages sent to the dead-letter producer
    cancelled,   \* the shutdown token
    settled      \* history: how many messages of each partition were reported

Messages == Partitions \X Offsets
None == <<>>

queueVars  == <<next, rx, inflight>>
bufferVars == <<buffers, deadline>>
loopVars   == <<batch_state, pc, msg, flushing, batch, resume>>
resultVars == <<routed, settled>>
vars == <<trackerVars, queueVars, bufferVars, loopVars, resultVars, cancelled>>

BatchTypeOK ==
    /\ TypeOK
    /\ next \in [Partitions -> 0 .. MaxOffset + 1]
    /\ rx \in Seq(Messages) /\ Len(rx) <= Capacity
    /\ inflight \in Nat
    /\ buffers \in [Partitions -> Seq(Offsets)]
    /\ \A p \in Partitions : Len(buffers[p]) < MaxBatchSize
    /\ deadline \in [Partitions -> {"none", "ahead", "passed"}]
    /\ batch_state \in {"Normal", "Backpressure"}
    /\ pc \in {"select", "add", "flush", "settle", "stopped", "aborted"}
    /\ msg \in Messages \cup {None}
    /\ flushing \in [Partitions -> Seq(Offsets)]
    /\ batch \in (Partitions \X (Categories \cup {"AllSuccess"})) \cup {None}
    /\ resume \in {"select", "add", "stopped"}
    /\ routed \in SUBSET Messages
    /\ cancelled \in BOOLEAN
    /\ settled \in [Partitions -> 0 .. MaxOffset + 1]

Empty == [p \in Partitions |-> <<>>]

BatchInit ==
    /\ Init
    /\ next = [p \in Partitions |-> 0] /\ rx = <<>> /\ inflight = 0
    /\ buffers = Empty /\ flushing = Empty
    /\ deadline = [p \in Partitions |-> "none"]
    /\ batch_state = "Normal" /\ pc = "select" /\ resume = "select"
    /\ msg = None /\ batch = None
    /\ routed = {}
    /\ cancelled = FALSE
    /\ settled = [p \in Partitions |-> 0]
-----------------------------------------------------------------------------
(* The world: the dispatcher, the clock and the shutdown.                  *)

\* Once the worker's task has ended its channel is closed.
Dispatch(p) ==
    /\ next[p] <= MaxOffset /\ Len(rx) < Capacity
    /\ pc \notin {"stopped", "aborted"}
    /\ rx' = Append(rx, <<p, next[p]>>)
    /\ next' = [next EXCEPT ![p] = @ + 1]
    /\ inflight' = inflight + 1
    /\ UNCHANGED <<trackerVars, bufferVars, loopVars, resultVars, cancelled>>

\* max_wait passes; a deadline outlives the batch it was set for.
DeadlineElapses(p) ==
    /\ deadline[p] = "ahead"
    /\ deadline' = [deadline EXCEPT ![p] = "passed"]
    /\ UNCHANGED <<trackerVars, queueVars, buffers, loopVars, resultVars,
                   cancelled>>

Cancel ==
    /\ ~ cancelled
    /\ cancelled' = TRUE
    /\ UNCHANGED <<trackerVars, queueVars, bufferVars, loopVars, resultVars>>

\* After the cancellation the pool waits for one worker to exit and aborts
\* the others, at the select or while a batch handler runs.
PoolAborts ==
    /\ cancelled
    /\ pc = "select" \/ (pc = "flush" /\ flushing # Empty)
    /\ pc' = "aborted"
    /\ UNCHANGED <<trackerVars, queueVars, bufferVars, batch_state, msg, flushing,
                   batch, resume, resultVars, cancelled>>
-----------------------------------------------------------------------------
(* The three branches of the select, which is not biased.                  *)

IsEmpty == buffers = Empty

\* flush_all: the buffers are emptied, their deadlines stay.
flush_all(then) ==
    /\ flushing' = buffers
    /\ buffers' = Empty
    /\ pc' = "flush" /\ resume' = then
    /\ UNCHANGED deadline

\* With an empty accumulator the branch does nothing, and the loop spins.
DeadlineFires ==
    /\ pc = "select" /\ ~ IsEmpty
    /\ \E p \in Partitions : deadline[p] = "passed"
    /\ flush_all("select")
    /\ UNCHANGED <<trackerVars, queueVars, batch_state, msg, batch, resultVars,
                   cancelled>>

\* Mutant: the loop goes on after the flush without the message.
ReceiveAtCapacityDrops ==
    /\ pc = "select" /\ rx # <<>>
    /\ batch_state = "Normal" /\ inflight >= Capacity
    /\ rx' = Tail(rx)
    /\ batch_state' = "Backpressure"
    /\ flush_all("select")
    /\ UNCHANGED <<trackerVars, next, inflight, msg, batch, resultVars,
                   cancelled>>

\* At capacity for the first time: flush everything, then add the message.
ReceiveAtCapacity ==
    /\ pc = "select" /\ rx # <<>>
    /\ batch_state = "Normal" /\ inflight >= Capacity
    /\ msg' = Head(rx) /\ rx' = Tail(rx)
    /\ batch_state' = "Backpressure"
    /\ flush_all("add")
    /\ UNCHANGED <<trackerVars, next, inflight, batch, resultVars, cancelled>>

Receive ==
    /\ pc = "select" /\ rx # <<>>
    /\ batch_state = "Backpressure" \/ inflight < Capacity
    /\ msg' = Head(rx) /\ rx' = Tail(rx)
    /\ pc' = "add"
    /\ UNCHANGED <<trackerVars, next, inflight, bufferVars, batch_state, flushing,
                   batch, resume, resultVars, cancelled>>

\* Mutant: the buffers are not flushed.
CancelledStops ==
    /\ pc = "select" /\ cancelled
    /\ pc' = "stopped"
    /\ UNCHANGED <<trackerVars, queueVars, bufferVars, batch_state, msg,
                   flushing, batch, resume, resultVars, cancelled>>

CancelledDrains ==
    /\ pc = "select" /\ cancelled
    /\ flush_all("stopped")
    /\ UNCHANGED <<trackerVars, queueVars, batch_state, msg, batch, resultVars,
                   cancelled>>
-----------------------------------------------------------------------------
(* accumulator.add, and the flush when the buffer is full after it.        *)

\* Mutant: only a full buffer sets the deadline.
StartTimerLate(p) ==
    IF Len(buffers[p]) + 1 = MaxBatchSize THEN "ahead" ELSE deadline[p]

\* start_timer, for a buffer's first message, keeps a deadline that is there.
StartTimer(p) ==
    IF buffers[p] = <<>> /\ deadline[p] = "none" THEN "ahead" ELSE deadline[p]

\* Mutant: the size is looked at before the message is in.
FullAfterAddLate(p) == Len(buffers[p]) >= MaxBatchSize

\* would_fill_partition, right after the add.
FullAfterAdd(p) == Len(buffers[p]) + 1 >= MaxBatchSize

Add ==
    /\ pc = "add"
    /\ LET p == msg[1]
           batched == Append(buffers[p], msg[2])
       IN  IF FullAfterAdd(p)
           THEN /\ flushing' = [Empty EXCEPT ![p] = batched]
                /\ buffers' = [buffers EXCEPT ![p] = <<>>]
                /\ pc' = "flush" /\ resume' = "select"
           ELSE /\ buffers' = [buffers EXCEPT ![p] = batched]
                /\ pc' = "select" /\ UNCHANGED <<flushing, resume>>
    /\ deadline' = [deadline EXCEPT ![msg[1]] = StartTimer(msg[1])]
    /\ msg' = None
    /\ UNCHANGED <<trackerVars, queueVars, batch_state, batch, resultVars,
                   cancelled>>
-----------------------------------------------------------------------------
(* flush_partition_batch for one partition after the other: the handler    *)
(* has one outcome for the batch, which is reported message by message.    *)

\* All of a batch succeeds, or all of it fails for the reason of the one
\* exception (a panic is Terminal).
Outcomes == Categories \cup {"AllSuccess"}

InvokeBatch(p, outcome) ==
    /\ pc = "flush" /\ flushing[p] # <<>>
    /\ batch' = <<p, outcome>>
    /\ pc' = "settle"
    /\ UNCHANGED <<trackerVars, queueVars, bufferVars, batch_state, msg, flushing,
                   resume, resultVars, cancelled>>

FlushEnds ==
    /\ pc = "flush" /\ flushing = Empty
    /\ pc' = resume
    /\ UNCHANGED <<trackerVars, queueVars, bufferVars, batch_state, msg, flushing,
                   batch, resume, resultVars, cancelled>>

\* The next message of the batch leaves it; QueueManager::ack counts it down.
SettleNext(p) ==
    LET left == Tail(flushing[p])
    IN  /\ flushing' = [flushing EXCEPT ![p] = left]
        /\ settled' = [settled EXCEPT ![p] = @ + 1]
        /\ inflight' = IF inflight = 0 THEN 0 ELSE inflight - 1
        /\ pc' = IF left = <<>> THEN "flush" ELSE "settle"
        /\ batch' = IF left = <<>> THEN None ELSE batch
        /\ UNCHANGED <<next, rx, bufferVars, batch_state, msg, resume,
                       cancelled>>

\* AllSuccess: queue ack and record_ack.
AckNext(p) ==
    /\ pc = "settle" /\ batch = <<p, "AllSuccess">>
    /\ ack(p, Head(flushing[p]))
    /\ SettleNext(p)
    /\ UNCHANGED routed

\* Mutant: a failed message is not counted down.
FailNextLeaks(p, category) ==
    LET m == <<p, Head(flushing[p])>>
        left == Tail(flushing[p])
    IN  /\ pc = "settle" /\ batch = <<p, category>>
        /\ mark_failed(p, m[2], category)
        /\ routed' = routed \cup {m}
        /\ flushing' = [flushing EXCEPT ![p] = left]
        /\ settled' = [settled EXCEPT ![p] = @ + 1]
        /\ pc' = IF left = <<>> THEN "flush" ELSE "settle"
        /\ batch' = IF left = <<>> THEN None ELSE batch
        /\ UNCHANGED <<queueVars, bufferVars, batch_state, msg, resume,
                       cancelled>>

\* AllFailure: mark_failed, the dead-letter queue whether the coordinator
\* says retry or not, and queue ack.
FailNext(p, category) ==
    LET m == <<p, Head(flushing[p])>>
    IN  /\ pc = "settle" /\ batch = <<p, category>>
        /\ mark_failed(p, m[2], category)
        /\ routed' = routed \cup {m}
        /\ SettleNext(p)
-----------------------------------------------------------------------------
Loop ==
    \/ DeadlineFires \/ ReceiveAtCapacity \/ Receive \/ CancelledDrains
    \/ Add \/ FlushEnds
    \/ \E p \in Partitions :
          \/ \E outcome \in Outcomes : InvokeBatch(p, outcome)
          \/ AckNext(p)
          \/ \E category \in Categories : FailNext(p, category)

Clock == \E p \in Partitions : DeadlineElapses(p)

BatchNext ==
    \/ \E p \in Partitions : Dispatch(p)
    \/ Clock \/ Cancel \/ PoolAborts \/ Loop

BatchSafetySpec == BatchInit /\ [][BatchNext]_vars

(***************************************************************************)
(* The worker is polled while a branch is ready, handlers end and time     *)
(* passes; nobody has to send messages or to cancel.                       *)
(***************************************************************************)
BatchSpec == BatchSafetySpec /\ WF_vars(Loop) /\ WF_vars(Clock)
-----------------------------------------------------------------------------
(* Properties.                                                             *)

\* What the worker has of partition p, the oldest message first.
Held(p) ==
    flushing[p] \o buffers[p]
        \o (IF msg # None /\ msg[1] = p THEN <<msg[2]>> ELSE <<>>)

\* Where the messages of p are in the channel.
Queued(p) == {i \in 1 .. Len(rx) : rx[i][1] = p}

\* Order within a partition is preserved and nothing is lost or doubled:
\* what is being flushed, buffered, in hand and queued is, in that order,
\* exactly the offsets dispatched and not yet reported.
PartitionOrder ==
    \A p \in Partitions :
        LET n == Len(Held(p))
        IN  /\ Held(p) = [i \in 1 .. n |-> settled[p] + i - 1]
            /\ {rx[i][2] : i \in Queued(p)} = settled[p] + n .. next[p] - 1
            /\ \A i, j \in Queued(p) : i < j => rx[i][2] < rx[j][2]

\* The messages dispatched and not yet reported.
Unsettled ==
    {m \in Messages : settled[m[1]] <= m[2] /\ m[2] < next[m[1]]}

\* inflight, which backpressure reads, is the number of messages dispatched
\* and not yet reported, for successful and failed batches alike.
InflightIsUnsettled == inflight = Cardinality(Unsettled)

\* A cancellation loses nothing for good: a worker that stops by itself has
\* flushed and reported its buffers, and of what one that the pool aborts
\* leaves behind, in its hands or in the channel, nothing is covered by the
\* cursor, so the final commit leaves all of it to be delivered again.
CancelLosesNothing ==
    /\ pc = "stopped" => IsEmpty /\ flushing = Empty /\ msg = None
    /\ \A m \in Unsettled : m[1] \in registered => cursor(m[1]) < m[2]

\* A partial batch does not wait for ever: every message dispatched is acked
\* or dead-lettered unless the worker is cancelled.
NoBatchWaitsForever ==
    \A p \in Partitions :
        (settled[p] < next[p]) ~> (settled[p] = next[p] \/ cancelled)
=============================================================================
