------------------------------ MODULE Rebalance ------------------------------
(***************************************************************************)
(* A consumer group around one KafPy process: the rebalance callbacks of   *)
(* src/src/consumer/context.rs, the offsets ConsumerRunner::new fetches at *)
(* start (src/src/consumer/runner.rs), and the in-memory tracker, which    *)
(* outlives an assignment.  A message goes from the runner's channel to    *)
(* the handler's queue, or is lost when the dispatcher finds that queue    *)
(* full.  When a partition is taken away, another member of the group goes *)
(* on from the committed position; what this process has of it is still    *)
(* processed here.  The process may also crash and start again.  The       *)
(* partitions of a topic are independent of each other here, and the       *)
(* committer is one step (its own module has the detail).  The pause that  *)
(* follows a drop only takes polls away: Dispatcher.tla has it.            *)
(***************************************************************************)
EXTENDS OffsetTracker, Sequences

CONSTANTS
    StreamBound,   \* messages of a partition in the runner's channel
    QueueBound,    \* messages of a partition in the handler's queue
    MaxRebalances, \* assignments over the whole behaviour
    MaxRestarts    \* crashes over the whole behaviour

ASSUME RebalanceAssumption ==
    /\ StreamBound \in Nat /\ QueueBound \in Nat
    /\ MaxRebalances \in Nat /\ MaxRestarts \in Nat

VARIABLES
    owned,           \* the partitions assigned to this process
    position,        \* the next offset it fetches
    stream,          \* polled and not yet dispatched
    queue,           \* dispatched and not yet processed
    startup_offsets, \* committed positions fetched at start, or -1
    broker,          \* the group's committed position, or -1
    settled,         \* history: processed or dead-lettered by any member
    dropped,         \* history: lost at a full queue since the assignment
    exposed,         \* history: lost before the partition's first ack
    rebalances, restarts

groupVars == <<owned, position, startup_offsets, broker>>
boundVars == <<rebalances, restarts>>
pathVars == <<stream, queue>>
historyVars == <<settled, dropped, exposed>>
vars == <<trackerVars, groupVars, pathVars, historyVars, boundVars>>

NoOffset == -1

RebalanceTypeOK ==
    /\ TypeOK
    /\ owned \in SUBSET Partitions
    /\ position \in [Partitions -> 0 .. MaxOffset + 1]
    /\ stream \in [Partitions -> Seq(Offsets)]
    /\ queue \in [Partitions -> Seq(Offsets)]
    /\ \A p \in Partitions :
          Len(stream[p]) <= StreamBound /\ Len(queue[p]) <= QueueBound
    /\ startup_offsets \in [Partitions -> -1 .. MaxOffset + 1]
    /\ broker \in [Partitions -> -1 .. MaxOffset + 1]
    /\ settled \in [Partitions -> SUBSET Offsets]
    /\ dropped \in [Partitions -> SUBSET Offsets]
    /\ exposed \in [Partitions -> SUBSET Offsets]
    /\ rebalances \in 0 .. MaxRebalances /\ restarts \in 0 .. MaxRestarts

RebalanceInit ==
    /\ Init
    /\ owned = {}
    /\ position = [p \in Partitions |-> 0]
    /\ stream = [p \in Partitions |-> <<>>]
    /\ queue = [p \in Partitions |-> <<>>]
    /\ startup_offsets = [p \in Partitions |-> NoOffset]
    /\ broker = [p \in Partitions |-> NoOffset]
    /\ settled = [p \in Partitions |-> {}]
    /\ dropped = [p \in Partitions |-> {}]
    /\ exposed = [p \in Partitions |-> {}]
    /\ rebalances = 0 /\ restarts = 0
-----------------------------------------------------------------------------
(* The callbacks.                                                          *)

\* Where Kafka starts a member that does not seek: the committed position,
\* or the earliest offset (auto.offset.reset).
DefaultPosition(p) == IF broker[p] = NoOffset THEN 0 ELSE broker[p]

\* Mutant: the tracker's offset is taken for the last one fetched.
SeekTargetPlusTwo(p) ==
    IF p \in registered THEN cursor(p) + 2 ELSE DefaultPosition(p)

\* post_rebalance: the tracker first, then the offsets fetched at start.
SeekTarget(p) ==
    IF p \in registered THEN cursor(p) + 1
    ELSE IF startup_offsets[p] # NoOffset THEN startup_offsets[p]
    ELSE DefaultPosition(p)

\* A seek that fails is only logged.  Both positions lie before what was
\* dropped after the partition's first ack, which is fetched again.
Assign(p) ==
    /\ p \notin owned /\ rebalances < MaxRebalances
    /\ rebalances' = rebalances + 1
    /\ owned' = owned \cup {p}
    /\ position' \in {[position EXCEPT ![p] = SeekTarget(p)],
                      [position EXCEPT ![p] = DefaultPosition(p)]}
    /\ dropped' = [dropped EXCEPT ![p] = {}]
    /\ UNCHANGED <<trackerVars, pathVars, startup_offsets, broker, settled,
                   exposed, restarts>>

\* Mutant: everything polled is committed when the partition goes.
RevokeCommitsPolled(p) ==
    /\ p \in owned
    /\ owned' = owned \ {p}
    /\ broker' = [broker EXCEPT ![p] = position[p]]
    /\ UNCHANGED <<trackerVars, position, startup_offsets, pathVars,
                   historyVars, boundVars>>

\* pre_rebalance: what the tracker's cursor covers is stored and committed,
\* has_terminal or not; an error is only logged.
Revoke(p) ==
    /\ p \in owned
    /\ owned' = owned \ {p}
    /\ broker' \in {broker} \cup
          (IF p \in registered THEN {[broker EXCEPT ![p] = cursor(p) + 1]} ELSE {})
    /\ UNCHANGED <<trackerVars, position, startup_offsets, pathVars,
                   historyVars, boundVars>>

\* The member that has the partition now processes and commits one message.
OtherMember(p) ==
    LET o == DefaultPosition(p)
    IN  /\ p \notin owned /\ o <= MaxOffset
        /\ broker' = [broker EXCEPT ![p] = o + 1]
        /\ settled' = [settled EXCEPT ![p] = @ \cup {o}]
        /\ UNCHANGED <<trackerVars, owned, position, startup_offsets, pathVars,
                       dropped, exposed, boundVars>>
-----------------------------------------------------------------------------
(* The process.                                                            *)

\* The runner's channel is bounded; its task waits for room.
Poll(p) ==
    /\ p \in owned /\ position[p] <= MaxOffset /\ Len(stream[p]) < StreamBound
    /\ stream' = [stream EXCEPT ![p] = Append(@, position[p])]
    /\ position' = [position EXCEPT ![p] = @ + 1]
    /\ UNCHANGED <<trackerVars, owned, startup_offsets, broker, queue,
                   historyVars, boundVars>>

\* The dispatcher's try_send finds room in the handler's queue.
Dispatch(p) ==
    /\ stream[p] # <<>> /\ Len(queue[p]) < QueueBound
    /\ stream' = [stream EXCEPT ![p] = Tail(@)]
    /\ queue' = [queue EXCEPT ![p] = Append(@, Head(stream[p]))]
    /\ UNCHANGED <<trackerVars, groupVars, historyVars, boundVars>>

\* The queue is full, perhaps of messages of the topic's other partitions:
\* the message is lost.  Before the first ack of the partition nothing keeps
\* that ack from seeding the cursor behind it (the run dispatcher_loss).
Drop(p) ==
    /\ stream[p] # <<>>
    /\ stream' = [stream EXCEPT ![p] = Tail(@)]
    /\ IF p \in registered
       THEN /\ dropped' = [dropped EXCEPT ![p] = @ \cup {Head(stream[p])}]
            /\ UNCHANGED exposed
       ELSE /\ exposed' = [exposed EXCEPT ![p] = @ \cup {Head(stream[p])}]
            /\ UNCHANGED dropped
    /\ UNCHANGED <<trackerVars, groupVars, queue, settled, boundVars>>

\* A worker settles the next message, by an ack or by the dead-letter queue;
\* whether the partition is still assigned is not asked.
Work(p) ==
    /\ queue[p] # <<>>
    /\ LET o == Head(queue[p])
       IN  /\ \/ ack(p, o)
              \/ \E category \in Categories : mark_failed(p, o, category)
           /\ settled' = [settled EXCEPT ![p] = @ \cup {o}]
    /\ queue' = [queue EXCEPT ![p] = Tail(@)]
    /\ UNCHANGED <<groupVars, stream, dropped, exposed, boundVars>>

\* The committer's cycle; rdkafka refuses to store an offset of a partition
\* that is not assigned.
Commit(p) ==
    /\ p \in owned /\ should_commit(p)
    /\ broker[p] # cursor(p) + 1
    /\ broker' = [broker EXCEPT ![p] = cursor(p) + 1]
    /\ UNCHANGED <<trackerVars, owned, position, startup_offsets, pathVars,
                   historyVars, boundVars>>

\* A crash loses the tracker, the channel and the queues; the new process
\* fetches the committed positions before it polls.
Restart ==
    /\ restarts < MaxRestarts
    /\ restarts' = restarts + 1
    /\ registered' = {}
    /\ partitions' = [p \in Partitions |-> NewPartitionState]
    /\ acked' = [p \in Partitions |-> {}]
    /\ base' = [p \in Partitions |-> -1]
    /\ owned' = {}
    /\ stream' = [p \in Partitions |-> <<>>]
    /\ queue' = [p \in Partitions |-> <<>>]
    /\ dropped' = [p \in Partitions |-> {}]
    /\ startup_offsets' = broker
    /\ UNCHANGED <<position, broker, settled, exposed, rebalances>>
-----------------------------------------------------------------------------
Process(p) == Poll(p) \/ Dispatch(p) \/ Drop(p) \/ Work(p)

RebalanceNext ==
    \/ \E p \in Partitions : \/ Assign(p) \/ Revoke(p) \/ OtherMember(p)
                             \/ Process(p) \/ Commit(p)
    \/ Restart

RebalanceSafetySpec == RebalanceInit /\ [][RebalanceNext]_vars

(***************************************************************************)
(* A member that has the partition polls it, dispatches and works; nobody  *)
(* has to rebalance or to crash.  Polling goes on only while the topic is  *)
(* not paused, so what this gives is used for behaviours without a drop.   *)
(***************************************************************************)
RebalanceSpec ==
    /\ RebalanceSafetySpec
    /\ \A p \in Partitions : WF_vars(Process(p)) /\ WF_vars(OtherMember(p))
-----------------------------------------------------------------------------
(* Properties.                                                             *)

\* What p's committed position may cover: an offset that some member
\* processed or dead-lettered, or one lost before the partition's first ack.
Covered(p) == settled[p] \cup exposed[p]

\* What the process has polled of p and not yet settled, the oldest first.
Underway(p) == queue[p] \o stream[p]

\* At-least-once across rebalances and crashes, but for the one loss that the
\* run dispatcher_loss shows: the group's committed position covers nothing
\* else that no member processed or dead-lettered, although the tracker
\* outlives assignments, commits and seeks fail, later messages are dropped,
\* and messages of a lost partition are still processed.
CommittedIsSettled ==
    \A p \in Partitions, o \in Offsets : o < broker[p] => o \in Covered(p)

\* A seek never skips work: whatever lies before this process's position is
\* covered, underway, or was dropped under this very assignment.
NothingSkipped ==
    \A p \in owned : \A o \in Offsets :
        o < position[p] =>
            \/ o \in Covered(p) \cup dropped[p]
            \/ \E i \in DOMAIN Underway(p) : Underway(p)[i] = o

\* Every offset is settled by somebody in the end (or was lost before the
\* first ack), wherever the rebalances leave the partition: if this process
\* drops nothing of it, or if another member has it for good.  A partition
\* that is kept after a drop may stay paused (the run dispatcher_resume).
EverythingSettles ==
    \A p \in Partitions :
        (\/ [](dropped[p] = {} /\ exposed[p] = {})
         \/ <>[](p \notin owned))
            => <>(Offsets \subseteq Covered(p))
=============================================================================
