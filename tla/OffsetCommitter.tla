--------------------------- MODULE OffsetCommitter ---------------------------
(***************************************************************************)
(* src/src/offset/commit_task.rs: the background task that commits what    *)
(* the tracker's cursor covers.  Workers ack and fail while it runs.  The  *)
(* watch channel keeps only the latest partition signalled; the throttle   *)
(* skips a cycle when commit_interval_ms has not elapsed since the last    *)
(* one (the message_count threshold is never counted up, so it never       *)
(* fires); store_offset and commit may fail and are only logged.  Kafka is *)
(* two positions per partition: the one stored in the client and the one   *)
(* committed on the broker, with an asynchronous request in between.       *)
(***************************************************************************)
EXTENDS OffsetTracker

CONSTANTS
    Delivered, \* the offsets of each partition that reach the workers
    MaxErrors  \* how many store, commit and broker errors may happen

ASSUME DeliveredAssumption == Delivered \in [Partitions -> SUBSET Offsets]

ASSUME MaxErrorsAssumption == MaxErrors \in Nat

VARIABLES
    signal,         \* the unseen value of the watch channel, if any
    interval_ready, \* no last_commit, or commit_interval_ms elapsed since
    pc,             \* where the committer task is
    final,          \* the cycle is the one run() exits after
    todo,           \* partitions this cycle has still to examine
    checked,        \* the partition should_commit just said yes to, if any
    commits,        \* the pairs of partition and offset this cycle commits
    done,           \* coordinator.is_done()
    stored,         \* Kafka client: position stored by store_offset
    requested,      \* Kafka client: positions of the commit in flight
    broker,         \* Kafka: committed position
    errors          \* errors so far

NoPartition == "none"

\* An Option of the code: no partition is taken for its absence.
ASSUME NoPartitionAssumption == NoPartition \notin Partitions

cycleVars == <<final, todo, checked, commits>>
taskVars  == <<signal, interval_ready, pc, done, cycleVars>>
kafkaVars == <<stored, requested, broker, errors>>
vars == <<trackerVars, taskVars, kafkaVars>>

Positions == [Partitions -> 0 .. MaxOffset + 1]

CommitterTypeOK ==
    /\ TypeOK
    /\ signal \in Partitions \cup {NoPartition}
    /\ interval_ready \in BOOLEAN
    /\ pc \in {"select", "scan", "store", "commit", "exited"}
    /\ final \in BOOLEAN
    /\ todo \in SUBSET Partitions
    /\ checked \in Partitions \cup {NoPartition}
    /\ commits \in SUBSET (Partitions \X Offsets)
    /\ done \in BOOLEAN
    /\ stored \in Positions /\ requested \in Positions /\ broker \in Positions
    /\ errors \in 0 .. MaxErrors

CommitterInit ==
    /\ Init
    /\ signal = NoPartition /\ interval_ready = TRUE /\ done = FALSE
    /\ pc = "select" /\ final = FALSE
    /\ todo = {} /\ checked = NoPartition /\ commits = {}
    /\ stored = [p \in Partitions |-> 0]
    /\ requested = [p \in Partitions |-> 0]
    /\ broker = [p \in Partitions |-> 0]
    /\ errors = 0
-----------------------------------------------------------------------------
(* The workers, and the shutdown that ends them.  The stream is finite:    *)
(* every delivered offset is acked at most once, in any order.             *)

WorkerAck(p, o) ==
    /\ ~ done
    /\ o \notin acked[p]
    /\ ack(p, o)
    /\ signal' = p
    /\ UNCHANGED <<interval_ready, pc, done, cycleVars, kafkaVars>>

WorkerFailure(p, o, category) ==
    /\ ~ done
    /\ o \notin acked[p]
    /\ mark_failed(p, o, category)
    /\ UNCHANGED <<taskVars, kafkaVars>>

set_done ==
    /\ ~ done
    /\ done' = TRUE
    /\ UNCHANGED <<trackerVars, signal, interval_ready, pc, cycleVars, kafkaVars>>

IntervalElapses ==
    /\ ~ interval_ready
    /\ interval_ready' = TRUE
    /\ UNCHANGED <<trackerVars, signal, pc, done, cycleVars, kafkaVars>>
-----------------------------------------------------------------------------
(* The biased select of run(): the shutdown branch first, then the watch   *)
(* channel, then the ticker.                                               *)

\* A cycle over the partitions in keys; a throttled one returns before it
\* looks at any of them, and run() goes on (or, when last, exits).
Process(keys, last) ==
    /\ IF interval_ready
       THEN /\ pc' = "scan"
            /\ todo' = keys
            /\ final' = last
       ELSE /\ pc' = IF last THEN "exited" ELSE "select"
            /\ UNCHANGED <<todo, final>>
    /\ UNCHANGED <<trackerVars, kafkaVars, interval_ready, checked, commits, done>>

\* Mutant: the tick has no partitions of its own to look at.
SelectTickIdle ==
    /\ pc = "select" /\ ~ done /\ signal = NoPartition
    /\ Process({}, FALSE)
    /\ UNCHANGED signal

\* Mutant: the final cycle looks only at the partition last signalled.
SelectDoneSignalled ==
    /\ pc = "select" /\ done
    /\ Process({signal} \ {NoPartition}, TRUE)
    /\ UNCHANGED signal

SelectDone ==
    /\ pc = "select" /\ done
    /\ Process(registered, TRUE)
    /\ UNCHANGED signal

SelectSignal ==
    /\ pc = "select" /\ ~ done /\ signal # NoPartition
    /\ signal' = NoPartition
    /\ Process({signal}, FALSE)

SelectTick ==
    /\ pc = "select" /\ ~ done /\ signal = NoPartition
    /\ Process(registered, FALSE)
    /\ UNCHANGED signal
-----------------------------------------------------------------------------
(* One cycle.  should_commit and highest_contiguous take the tracker's     *)
(* lock one after the other, so workers may report in between; the offsets *)
(* read are committed one partition at a time while workers go on.         *)

CheckPartition(p) ==
    /\ pc = "scan" /\ checked = NoPartition /\ p \in todo
    /\ todo' = todo \ {p}
    /\ checked' = IF should_commit(p) THEN p ELSE NoPartition
    /\ UNCHANGED <<trackerVars, kafkaVars, signal, interval_ready, pc, done,
                   final, commits>>

\* Mutant: the offset read is the highest acked one, gap or no gap.
ReadPartitionHighest ==
    /\ pc = "scan" /\ checked # NoPartition
    /\ \E o \in pending(checked) \cup {cursor(checked)} :
          /\ \A x \in pending(checked) \cup {cursor(checked)} : x <= o
          /\ commits' = commits \cup {<<checked, o>>}
    /\ checked' = NoPartition
    /\ UNCHANGED <<trackerVars, kafkaVars, signal, interval_ready, pc, done,
                   final, todo>>

ReadPartition ==
    /\ pc = "scan" /\ checked # NoPartition
    /\ commits' = commits \cup {<<checked, cursor(checked)>>}
    /\ checked' = NoPartition
    /\ UNCHANGED <<trackerVars, kafkaVars, signal, interval_ready, pc, done,
                   final, todo>>

EndScan ==
    /\ pc = "scan" /\ checked = NoPartition /\ todo = {}
    /\ pc' = "store"
    /\ UNCHANGED <<trackerVars, kafkaVars, signal, interval_ready, done, cycleVars>>

\* Mutant: the caller adds one as well.
StoreOffsetPlusOne(p, o) ==
    /\ pc = "store" /\ <<p, o>> \in commits
    /\ commits' = commits \ {<<p, o>>}
    /\ stored' = [stored EXCEPT ![p] = o + 2]
    /\ pc' = "commit"
    /\ UNCHANGED <<trackerVars, signal, interval_ready, done, final, todo,
                   checked, requested, broker, errors>>

\* store_offset(N) makes N + 1 the position to commit.
StoreOffset(p, o) ==
    /\ pc = "store" /\ <<p, o>> \in commits
    /\ commits' = commits \ {<<p, o>>}
    /\ stored' = [stored EXCEPT ![p] = o + 1]
    /\ pc' = "commit"
    /\ UNCHANGED <<trackerVars, signal, interval_ready, done, final, todo,
                   checked, requested, broker, errors>>

\* The error is logged and this partition's commit skipped.
StoreOffsetFails(p, o) ==
    /\ pc = "store" /\ <<p, o>> \in commits /\ errors < MaxErrors
    /\ commits' = commits \ {<<p, o>>}
    /\ errors' = errors + 1
    /\ UNCHANGED <<trackerVars, signal, interval_ready, pc, done, final, todo,
                   checked, stored, requested, broker>>

\* commit() asks for every stored position, or fails at once.
RequestCommit ==
    /\ pc = "commit"
    /\ pc' = "store"
    /\ \/ requested' = stored /\ UNCHANGED errors
       \/ /\ errors < MaxErrors
          /\ errors' = errors + 1
          /\ UNCHANGED requested
    /\ UNCHANGED <<trackerVars, signal, interval_ready, done, cycleVars,
                   stored, broker>>

\* reset(): the throttle starts anew, whether or not anything was committed.
EndCycle ==
    /\ pc = "store" /\ commits = {}
    /\ interval_ready' = FALSE
    /\ pc' = IF final THEN "exited" ELSE "select"
    /\ UNCHANGED <<trackerVars, kafkaVars, signal, done, cycleVars>>
-----------------------------------------------------------------------------
(* Kafka's answer to the asynchronous commit.                              *)

BrokerApplies ==
    /\ requested # broker
    /\ broker' = requested
    /\ UNCHANGED <<trackerVars, taskVars, stored, requested, errors>>

BrokerRejects ==
    /\ requested # broker /\ errors < MaxErrors
    /\ requested' = broker
    /\ errors' = errors + 1
    /\ UNCHANGED <<trackerVars, taskVars, stored, broker>>

Cycle ==
    \/ SelectDone \/ SelectSignal \/ SelectTick
    \/ \E p \in Partitions : CheckPartition(p)
    \/ ReadPartition \/ EndScan
    \/ \E p \in Partitions, o \in Offsets :
          StoreOffset(p, o) \/ StoreOffsetFails(p, o)
    \/ RequestCommit \/ EndCycle

Workers ==
    \E p \in Partitions : \E o \in Delivered[p] :
        \/ WorkerAck(p, o)
        \/ \E category \in Categories : WorkerFailure(p, o, category)

CommitterNext ==
    \/ Workers \/ set_done \/ IntervalElapses
    \/ Cycle \/ BrokerApplies \/ BrokerRejects

(***************************************************************************)
(* The committer is a tokio task that keeps being polled, time passes, and *)
(* Kafka answers.  Nothing obliges a worker to ack or anyone to stop.      *)
(***************************************************************************)
Fairness ==
    /\ WF_vars(Cycle)
    /\ WF_vars(IntervalElapses)
    /\ WF_vars(BrokerApplies)

CommitterSafetySpec == CommitterInit /\ [][CommitterNext]_vars

CommitterSpec == CommitterSafetySpec /\ Fairness
-----------------------------------------------------------------------------
(* Properties.                                                             *)

\* The committer implements the frontier: what Kafka is told only moves
\* forward and never covers an offset that was not acked, although cursors
\* are read, stored and committed in separate steps while workers report.
Frontier == INSTANCE CommitFrontier
                WITH processed <- acked, first <- base, position <- broker

RefinesFrontier == Frontier!Spec

\* The final cycle, when the throttle lets it run, leaves nothing behind: the
\* last commit request holds the cursor of every partition that may commit,
\* unless storing or committing failed.  (A throttled final cycle returns at
\* once; run() exits all the same.)
FinalCycleCommits ==
    (pc = "exited" /\ final /\ errors = 0) =>
        \A p \in Partitions : should_commit(p) => requested[p] = cursor(p) + 1

\* No commit is left behind for good: once acks stop coming, the position of
\* every partition that may commit reaches its cursor, although the watch
\* channel forgets signals, cycles are throttled and commits may fail.
CommitsCatchUp ==
    \A p \in Partitions :
        should_commit(p) ~> (broker[p] = cursor(p) + 1 \/ ~ should_commit(p) \/ done)
=============================================================================
