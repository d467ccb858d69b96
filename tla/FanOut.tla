------------------------------- MODULE FanOut -------------------------------
(***************************************************************************)
(* One fan-out dispatch: process_fan_out of src/src/worker_pool/worker.rs  *)
(* and the FanOutTracker of src/src/worker_pool/fan_out.rs.  One task per  *)
(* sink registers itself, runs the sink's handler, records its result and  *)
(* releases a slot; a collector task runs wait_all and sends the failed    *)
(* branches' messages to the dead letter topic.  The tracker's counters    *)
(* are atomics, so every load and every update is a step of its own.       *)
(***************************************************************************)
EXTENDS Naturals, Sequences, FiniteSets

CONSTANT SinkCount \* FanOutConfig::sinks, in the order of the configuration

\* The counters are AtomicU8: with up to 255 sinks they do not wrap.
ASSUME SinkCountAssumption == SinkCount \in 1 .. 255

Sinks == 1 .. SinkCount

VARIABLES
    branch,    \* where each sink's task is
    branch_id, \* what register_branch returned to it
    total,     \* FanOutTracker::total
    completed, \* FanOutTracker::completed
    prev,      \* what a branch's fetch_add on completed returned
    results,   \* FanOutTracker::results, in the order they were pushed
    inflight,  \* FanOutTracker::inflight
    collector, \* where the collector task is
    done,      \* the collector's load of completed
    snapshot,  \* what wait_all returned
    dlq        \* the records given to produce_async

tracker == <<total, completed, results, inflight>>
collectorVars == <<collector, done, snapshot, dlq>>
vars == <<branch, branch_id, prev, tracker, collectorVars>>

Init ==
    /\ branch = [s \in Sinks |-> "spawned"]
    /\ branch_id = [s \in Sinks |-> 0]
    /\ total = 0 /\ completed = 0 /\ inflight = 0
    /\ prev = [s \in Sinks |-> 0]
    /\ results = <<>>
    /\ collector = "load" /\ done = 0 /\ snapshot = <<>> /\ dlq = {}
-----------------------------------------------------------------------------
(* A sink's task.                                                          *)

Goes(s, from, to) ==
    /\ branch[s] = from
    /\ branch' = [branch EXCEPT ![s] = to]

register_branch(s) ==
    /\ Goes(s, "spawned", "running")
    /\ branch_id' = [branch_id EXCEPT ![s] = total]
    /\ total' = total + 1
    /\ UNCHANGED <<completed, prev, results, inflight, collectorVars>>

\* A task that panics records nothing; only the JoinSet hears of it.
Panics(s) ==
    /\ Goes(s, "running", "panicked")
    /\ UNCHANGED <<branch_id, prev, tracker, collectorVars>>

\* record_branch_result: the push, under the lock of results.
PushResult(s, ok) ==
    /\ Goes(s, "running", "count")
    /\ results' = Append(results,
                         [sink |-> s, branch_id |-> branch_id[s], ok |-> ok])
    /\ UNCHANGED <<branch_id, prev, total, completed, inflight, collectorVars>>

\* record_branch_result: completed.fetch_add(1).
CountBranch(s) ==
    /\ Goes(s, "count", "compare")
    /\ prev' = [prev EXCEPT ![s] = completed]
    /\ completed' = completed + 1
    /\ UNCHANGED <<branch_id, total, results, inflight, collectorVars>>

\* Mutant: prev is compared instead of prev + 1.
AllDoneLate(s) == prev[s] >= total

AllDone(s) == prev[s] + 1 >= total

\* record_branch_result: the load of total decides whether to notify; other
\* tasks run before the notification itself.
CompareTotal(s) ==
    /\ branch[s] = "compare"
    /\ branch' = [branch EXCEPT ![s] = IF AllDone(s) THEN "notify" ELSE "release"]
    /\ UNCHANGED <<branch_id, prev, tracker, collectorVars>>

\* record_branch_result: notify_waiters wakes the collector only if it is
\* already waiting; no permit is stored for a later wait.
NotifyWaiters(s) ==
    /\ Goes(s, "notify", "release")
    /\ collector' = IF collector = "waiting" THEN "load" ELSE collector
    /\ UNCHANGED <<branch_id, prev, tracker, done, snapshot, dlq>>

\* fetch_sub on an AtomicU8 wraps; no branch calls try_acquire_slot.
release_slot(s) ==
    /\ Goes(s, "release", "ended")
    /\ inflight' = (inflight + 255) % 256
    /\ UNCHANGED <<branch_id, prev, total, completed, results, collectorVars>>
-----------------------------------------------------------------------------
(* The collector: wait_all, then the dead letters, then the JoinSet.       *)

LoadCompleted ==
    /\ collector = "load"
    /\ collector' = "compare"
    /\ done' = completed
    /\ UNCHANGED <<branch, branch_id, prev, tracker, snapshot, dlq>>

\* Mutant: the last branch is not waited for.
LoadTotalEarly ==
    /\ collector = "compare"
    /\ collector' = IF done + 1 >= total /\ done > 0 THEN "clone" ELSE "arm"
    /\ UNCHANGED <<branch, branch_id, prev, tracker, done, snapshot, dlq>>

LoadTotal ==
    /\ collector = "compare"
    /\ collector' = IF done >= total /\ done > 0 THEN "clone" ELSE "arm"
    /\ UNCHANGED <<branch, branch_id, prev, tracker, done, snapshot, dlq>>

CloneResults ==
    /\ collector = "clone"
    /\ collector' = "route"
    /\ snapshot' = results
    /\ UNCHANGED <<branch, branch_id, prev, tracker, done, dlq>>

\* notify.notified(): from here on a notify_waiters is seen.
Arm ==
    /\ collector = "arm"
    /\ collector' = "waiting"
    /\ UNCHANGED <<branch, branch_id, prev, tracker, done, snapshot, dlq>>

\* The topics of the configuration are zipped with the results as pushed.
ZippedDlq ==
    {[branch_id |-> snapshot[i].branch_id, topic |-> i,
      sink |-> snapshot[i].sink] :
        i \in {j \in 1 .. Len(snapshot) : ~ snapshot[j].ok}}

RouteFailures ==
    /\ collector = "route"
    /\ collector' = "join"
    /\ dlq' = ZippedDlq
    /\ UNCHANGED <<branch, branch_id, prev, tracker, done, snapshot>>

JoinAll ==
    /\ collector = "join"
    /\ \A s \in Sinks : branch[s] \in {"ended", "panicked"}
    /\ collector' = "ended"
    /\ UNCHANGED <<branch, branch_id, prev, tracker, done, snapshot, dlq>>
-----------------------------------------------------------------------------
Branch(s) ==
    \/ register_branch(s)
    \/ \E ok \in BOOLEAN : PushResult(s, ok)
    \/ CountBranch(s) \/ CompareTotal(s) \/ NotifyWaiters(s) \/ release_slot(s)

Collector == \/ LoadCompleted \/ LoadTotal \/ CloneResults \/ Arm
             \/ RouteFailures \/ JoinAll

Next == Collector \/ \E s \in Sinks : Branch(s) \/ Panics(s)

FanOutSafetySpec == Init /\ [][Next]_vars

\* Every task is polled while it is ready, and sink handlers return (at the
\* sink's or the handler's timeout at the latest when one is configured).
FanOutSpec ==
    /\ FanOutSafetySpec
    /\ WF_vars(Collector)
    /\ \A s \in Sinks : WF_vars(Branch(s))
-----------------------------------------------------------------------------
(* Properties.                                                             *)

\* No failed branch that had registered when wait_all compared the counters
\* goes without its dead letter: completed and total are loaded one after the
\* other while branches register, push and count, the list is cloned later
\* still, and the branch's own id has to be the one on its record.  (Which
\* sink topic the record names is a matter of completion order.)
FailedBranchesRouted ==
    collector \in {"join", "ended"} =>
        \A s \in Sinks :
            (/\ branch[s] # "spawned" /\ branch_id[s] < done
             /\ \E i \in 1 .. Len(results) : results[i].sink = s /\ ~ results[i].ok) =>
                \E r \in dlq : r.sink = s /\ r.branch_id = branch_id[s]

\* A collector that waits when all sinks have registered and not all have
\* been counted is woken by the last one, unless a branch panics or another
\* branch, which saw every branch counted before the last ones registered,
\* has still to notify: that notification ends the wait too early, and the
\* last one's may come before the collector waits again.
ArmedWaiterWakes ==
    (/\ collector = "waiting" /\ total = SinkCount /\ completed < SinkCount
     /\ \A s \in Sinks : branch[s] # "notify")
        ~> (collector = "ended" \/ \E s \in Sinks : branch[s] = "panicked")
=============================================================================
