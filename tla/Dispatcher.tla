----------------------------- MODULE Dispatcher -----------------------------
(***************************************************************************)
(* The path of a message from Kafka to a worker, for one topic:            *)
(* src/src/consumer/runner.rs (the poll loop and its channel),             *)
(* src/src/dispatcher/{mod,queue_manager,backpressure,                     *)
(* consumer_dispatcher}.rs (the dispatch loop, the bounded handler queue   *)
(* and the pause and resume of the consumer), the worker at the far end,   *)
(* and the offset tracker it acks to.  The topic has several partitions,   *)
(* which share its queue.  send and ack hold the handlers mutex, so each   *)
(* is one step; the dispatch loop does not await between a send and the    *)
(* pause or resume that follows it.  The consumer gains partitions while   *)
(* it runs; losing them is the Rebalance module's subject.  The topic has  *)
(* a handler: a message of one without (HandlerNotRegistered) is skipped.  *)
(* The runtime registers every handler with a capacity of 1000 or more and *)
(* no semaphore; register_handler takes any capacity and limit.            *)
(***************************************************************************)
EXTENDS OffsetTracker, Sequences, FiniteSets

CONSTANTS
    Capacity,      \* of the handler's bounded channel
    StreamCapacity,\* of the runner's channel (1000 in the code)
    UseSemaphore,  \* whether the handler has a concurrency semaphore
    Limit,         \* semaphore_limit
    MaxErrors      \* how many pause and resume calls may fail

ASSUME DispatcherAssumption ==
    /\ Capacity \in Nat \ {0} /\ StreamCapacity \in Nat \ {0}
    /\ UseSemaphore \in BOOLEAN /\ Limit \in Nat /\ MaxErrors \in Nat

VARIABLES
    assigned,          \* the consumer's assignment
    position,          \* rdkafka: the next offset of each partition
    paused,            \* rdkafka: the partitions that are paused
    stream,            \* the runner's channel
    queue,             \* the handler's channel
    rx_open,           \* the handler's receiver exists
    held,              \* the message the worker processes, as a set
    queue_depth, inflight, outstanding_permits, \* HandlerMetadata
    partition_handles, \* what populate_partitions last stored
    paused_topics,     \* whether the topic is in ConsumerDispatcher's set
    errors,            \* failed pause and resume calls so far
    dropped            \* history: messages taken off the stream and not queued

kafkaVars    == <<assigned, position, paused>>
counterVars  == <<queue_depth, inflight, outstanding_permits>>
workerVars   == <<rx_open, held>>
pauseVars    == <<partition_handles, paused_topics, errors>>
vars == <<trackerVars, kafkaVars, stream, queue, workerVars, counterVars,
          pauseVars, dropped>>

Messages == Partitions \X Offsets

DispatcherTypeOK ==
    /\ TypeOK
    /\ assigned \in SUBSET Partitions
    /\ position \in [Partitions -> 0 .. MaxOffset + 1]
    /\ paused \in SUBSET Partitions
    /\ stream \in Seq(Messages) /\ Len(stream) <= StreamCapacity
    /\ queue \in Seq(Messages) /\ Len(queue) <= Capacity
    /\ rx_open \in BOOLEAN
    /\ held \in SUBSET Messages /\ Cardinality(held) <= 1
    /\ queue_depth \in Nat /\ inflight \in Nat /\ outstanding_permits \in Nat
    /\ partition_handles \in SUBSET Partitions
    /\ paused_topics \in BOOLEAN
    /\ errors \in 0 .. MaxErrors
    /\ dropped \in SUBSET Messages

\* run() starts the stream and tries to fill the handles before anything is
\* assigned.
DispatcherInit ==
    /\ Init
    /\ assigned = {} /\ paused = {}
    /\ position = [p \in Partitions |-> 0]
    /\ stream = <<>> /\ queue = <<>>
    /\ rx_open = TRUE /\ held = {}
    /\ queue_depth = 0 /\ inflight = 0 /\ outstanding_permits = 0
    /\ partition_handles = {} /\ paused_topics = FALSE
    /\ errors = 0 /\ dropped = {}
-----------------------------------------------------------------------------
(* Kafka and the runner.                                                   *)

Assign(p) ==
    /\ p \notin assigned
    /\ assigned' = assigned \cup {p}
    /\ UNCHANGED <<trackerVars, position, paused, stream, queue, workerVars,
                   counterVars, pauseVars, dropped>>

\* The poll loop waits for room in its channel; a paused partition delivers
\* nothing.
Poll(p) ==
    /\ p \in assigned \ paused
    /\ position[p] <= MaxOffset
    /\ Len(stream) < StreamCapacity
    /\ stream' = Append(stream, <<p, position[p]>>)
    /\ position' = [position EXCEPT ![p] = @ + 1]
    /\ UNCHANGED <<trackerVars, assigned, paused, queue, workerVars,
                   counterVars, pauseVars, dropped>>
-----------------------------------------------------------------------------
(* HandlerMetadata.                                                        *)

PermitAvailable == ~ UseSemaphore \/ outstanding_permits < Limit

\* try_acquire_semaphore, when it returns true.
AcquirePermit ==
    outstanding_permits' = outstanding_permits + (IF UseSemaphore THEN 1 ELSE 0)

Saturating(n) == IF n = 0 THEN 0 ELSE n - 1

\* Mutant: only queue_depth is counted down.
QueueAckDepthOnly ==
    /\ queue_depth' = Saturating(queue_depth)
    /\ UNCHANGED <<inflight, outstanding_permits>>

\* ack(topic, 1): counters down, one permit back.
QueueAck ==
    /\ queue_depth' = Saturating(queue_depth)
    /\ inflight' = Saturating(inflight)
    /\ outstanding_permits' = Saturating(outstanding_permits)
-----------------------------------------------------------------------------
(* The dispatch loop.                                                      *)

\* resume_threshold is one half of the capacity, rounded down.
Threshold == Capacity \div 2

\* check_resume: the topic leaves paused_topics before the resume is tried,
\* and a failed resume is only logged.
check_resume(depth) ==
    IF depth < Threshold /\ paused_topics
    THEN /\ paused_topics' = FALSE
         /\ \/ /\ paused' = paused \ partition_handles
               /\ UNCHANGED errors
            \/ /\ errors < MaxErrors
               /\ errors' = errors + 1
               /\ UNCHANGED paused
    ELSE UNCHANGED <<paused_topics, paused, errors>>

\* Mutant: the handles are refreshed after the pause instead of before.
PauseThenRefresh ==
    /\ partition_handles' = assigned
    /\ paused' = paused \cup partition_handles
    /\ paused_topics' = TRUE
    /\ UNCHANGED errors

\* A Backpressure error: the handles are filled if they are still empty, and
\* the partitions in them paused; when the assignment cannot be read or
\* rdkafka refuses the pause, the error is only logged.
Pause ==
    LET handles == IF partition_handles = {} THEN assigned ELSE partition_handles
    IN  \/ /\ partition_handles' = handles
           /\ paused' = paused \cup handles
           /\ paused_topics' = TRUE
           /\ UNCHANGED errors
        \/ /\ errors < MaxErrors
           /\ errors' = errors + 1
           /\ partition_handles' \in {partition_handles, handles}
           /\ UNCHANGED <<paused, paused_topics>>

TakeFromStream ==
    /\ stream # <<>>
    /\ stream' = Tail(stream)

\* Mutant: nothing is dispatched to a topic while it is paused.
SendOkUnlessPaused ==
    /\ ~ paused_topics
    /\ TakeFromStream
    /\ PermitAvailable /\ rx_open /\ Len(queue) < Capacity
    /\ AcquirePermit
    /\ inflight' = inflight + 1
    /\ queue' = Append(queue, Head(stream))
    /\ queue_depth' = queue_depth + 1
    /\ UNCHANGED <<trackerVars, kafkaVars, workerVars, pauseVars, dropped>>

\* Mutant: the queue takes one message too many.
SendOkUnbounded ==
    /\ TakeFromStream
    /\ rx_open /\ Len(queue) <= Capacity
    /\ AcquirePermit
    /\ inflight' = inflight + 1
    /\ queue' = Append(queue, Head(stream))
    /\ queue_depth' = queue_depth + 1
    /\ check_resume(queue_depth')
    /\ UNCHANGED <<trackerVars, assigned, position, workerVars,
                   partition_handles, dropped>>

SendOk ==
    /\ TakeFromStream
    /\ PermitAvailable /\ rx_open /\ Len(queue) < Capacity
    /\ AcquirePermit
    /\ inflight' = inflight + 1
    /\ queue' = Append(queue, Head(stream))
    /\ queue_depth' = queue_depth + 1
    /\ check_resume(queue_depth')
    /\ UNCHANGED <<trackerVars, assigned, position, workerVars,
                   partition_handles, dropped>>

\* try_acquire_semaphore says no: the message is gone, the topic is paused.
SendNoPermit ==
    /\ TakeFromStream
    /\ ~ PermitAvailable
    /\ Pause
    /\ dropped' = dropped \cup {Head(stream)}
    /\ UNCHANGED <<trackerVars, assigned, position, queue, workerVars, counterVars>>

\* TrySendError::Full: inflight is undone, the permit is not; the message is
\* gone, the topic is paused.
SendFull ==
    /\ TakeFromStream
    /\ PermitAvailable /\ rx_open /\ Len(queue) = Capacity
    /\ AcquirePermit
    /\ Pause
    /\ dropped' = dropped \cup {Head(stream)}
    /\ UNCHANGED <<trackerVars, assigned, position, queue, workerVars,
                   queue_depth, inflight>>

\* TrySendError::Closed: the error is only logged.
SendClosed ==
    /\ TakeFromStream
    /\ PermitAvailable /\ ~ rx_open
    /\ AcquirePermit
    /\ dropped' = dropped \cup {Head(stream)}
    /\ UNCHANGED <<trackerVars, kafkaVars, queue, workerVars, queue_depth,
                   inflight, pauseVars>>
-----------------------------------------------------------------------------
(* The worker.                                                             *)

Receive ==
    /\ rx_open /\ held = {} /\ queue # <<>>
    /\ held' = {Head(queue)}
    /\ queue' = Tail(queue)
    /\ UNCHANGED <<trackerVars, kafkaVars, stream, rx_open, counterVars,
                   pauseVars, dropped>>

\* The handler succeeded: queue ack and offset ack.
Complete(p, o) ==
    /\ held = {<<p, o>>}
    /\ held' = {}
    /\ QueueAck
    /\ ack(p, o)
    /\ UNCHANGED <<kafkaVars, stream, queue, rx_open, pauseVars, dropped>>

\* The worker is cancelled or aborted: its receiver and what it holds go.
ReceiverDropped ==
    /\ rx_open
    /\ rx_open' = FALSE /\ queue' = <<>> /\ held' = {}
    /\ UNCHANGED <<trackerVars, kafkaVars, stream, counterVars, pauseVars, dropped>>
-----------------------------------------------------------------------------
Send == SendOk \/ SendNoPermit \/ SendFull \/ SendClosed

WorkerProgress == Receive \/ \E p \in Partitions, o \in Offsets : Complete(p, o)

DispatcherNext ==
    \/ \E p \in Partitions : Assign(p) \/ Poll(p)
    \/ Send
    \/ WorkerProgress \/ ReceiverDropped

DispatcherSafetySpec == DispatcherInit /\ [][DispatcherNext]_vars

(***************************************************************************)
(* The runner, the dispatch loop and the worker are tokio tasks that keep  *)
(* being polled, and handlers end; nobody has to assign a partition or to  *)
(* stop the worker.                                                        *)
(***************************************************************************)
DispatcherSpec ==
    /\ DispatcherSafetySpec
    /\ \A p \in Partitions : WF_vars(Poll(p))
    /\ WF_vars(Send)
    /\ WF_vars(WorkerProgress)
-----------------------------------------------------------------------------
(* Properties.                                                             *)

\* Whatever mixture of sends, refused sends and acks came before, inflight
\* and queue_depth both count the messages queued or being processed, so
\* the counters neither drift nor saturate while the worker lives.
CountersAgree ==
    rx_open => /\ inflight = Len(queue) + Cardinality(held)
               /\ queue_depth = inflight

\* A message that backpressure dropped after the partition's first ack holds
\* the committed cursor back: the broker's position never passes it, so a
\* restart delivers it again.
DroppedHoldsCursor ==
    \A m \in dropped :
        m[1] \in registered /\ base[m[1]] < m[2] => cursor(m[1]) < m[2]

\* paused_topics does not claim too much: while the topic is in it, every
\* partition that has a handle is paused, so nothing of those partitions
\* enters the stream until check_resume lets it.
PausedIsPaused == paused_topics => partition_handles \subseteq paused

\* Every message the runner read leaves the stream, and what is queued is
\* processed unless the worker stops: refused sends and pauses never wedge
\* the dispatch loop.
StreamDrains ==
    \A m \in Messages :
        (m[2] < position[m[1]]) ~>
            (m[2] \in acked[m[1]] \/ m \in dropped \/ ~ rx_open)
-----------------------------------------------------------------------------
(* What docs and comments of the repository say and the code does not do.  *)

\* docs/guides.md:88: when in-flight drops below the limit, the partition is
\* resumed.
PausedResumes == (paused # {}) ~> (paused = {} \/ ~ rx_open)

\* offset/mod.rs:4: at-least-once delivery.  No offset the runner was given
\* is covered by the cursor without having been processed.
CursorCoversProcessed ==
    \A p \in registered : \A o \in Offsets : o <= cursor(p) => o \in acked[p]
=============================================================================
