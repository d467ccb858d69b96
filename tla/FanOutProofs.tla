---------------------------- MODULE FanOutProofs ----------------------------
(***************************************************************************)
(* No failed branch that wait_all waited for goes without its dead letter, *)
(* for every number of sinks a configuration may have.  The argument is a  *)
(* count: completed is the number of branches counted, total the number    *)
(* registered, and a branch is registered before it is counted.  The       *)
(* collector loads completed first, so when it finds done >= total the two *)
(* sets are the same: every branch that has registered has pushed its      *)
(* result, and a branch that registers later gets an id of at least done.  *)
(***************************************************************************)
EXTENDS FanOut, FiniteSetTheorems, TLAPS

Registered == {s \in Sinks : branch[s] # "spawned"}

Counted == {s \in Sinks : branch[s] \in {"compare", "notify", "release", "ended"}}

Results == [sink : Sinks, branch_id : Nat, ok : BOOLEAN]

FanOutTypeOK ==
    /\ branch \in [Sinks -> {"spawned", "running", "panicked", "count", "compare",
                             "notify", "release", "ended"}]
    /\ branch_id \in [Sinks -> Nat]
    /\ total \in Nat /\ completed \in Nat /\ done \in Nat
    /\ results \in Seq(Results) /\ snapshot \in Seq(Results)
    /\ collector \in {"load", "compare", "clone", "arm", "waiting", "route",
                      "join", "ended"}

\* The atomics count what they say.
CountersInv ==
    /\ total = Cardinality(Registered)
    /\ completed = Cardinality(Counted)
    /\ done <= completed
    /\ \A s \in Registered : branch_id[s] < total

\* A result is its branch's own, and the branch has stopped running.
ResultsInv ==
    \A i \in 1 .. Len(results) :
        /\ branch[results[i].sink] \in {"count", "compare", "notify", "release", "ended"}
        /\ results[i].branch_id = branch_id[results[i].sink]

\* Past the comparison, the branches it was about have been counted.
WaitedInv ==
    collector \in {"clone", "route", "join", "ended"} =>
        \A s \in Registered : branch_id[s] < done => s \in Counted

\* The clone has all of their results, and the dead letters come from it.
SnapshotInv ==
    /\ collector \in {"route", "join", "ended"} =>
          \A i \in 1 .. Len(results) : results[i].branch_id < done =>
              \E j \in 1 .. Len(snapshot) : snapshot[j] = results[i]
    /\ collector \in {"join", "ended"} => dlq = ZippedDlq

\* The inductive invariant.
FanOutInv ==
    /\ FanOutTypeOK /\ CountersInv /\ ResultsInv /\ WaitedInv /\ SnapshotInv
-----------------------------------------------------------------------------
\* The sets counted are finite, and a branch registers before it is counted.
LEMMA FiniteBranches ==
    ASSUME FanOutTypeOK
    PROVE  /\ IsFiniteSet(Registered) /\ Cardinality(Registered) \in Nat
           /\ IsFiniteSet(Counted) /\ Cardinality(Counted) \in Nat
           /\ Counted \subseteq Registered
           /\ Cardinality(Counted) <= Cardinality(Registered)
           /\ Cardinality(Registered) = Cardinality(Counted) => Registered = Counted
<1>1. IsFiniteSet(Sinks)
  BY SinkCountAssumption, FS_Interval DEF Sinks
<1>2. Registered \in SUBSET Sinks /\ Counted \in SUBSET Registered
  BY DEF Registered, Counted
<1>3. IsFiniteSet(Registered)
  BY <1>1, <1>2, FS_Subset
<1> QED BY <1>2, <1>3, FS_Subset, FS_CardinalityType

\* A recorded result names the sink whose task pushed it.
LEMMA ResultSinks ==
    ASSUME FanOutTypeOK, NEW i \in 1 .. Len(results)
    PROVE  results[i].sink \in Sinks
<1>1. results[i] \in Results
  <2>1. results \in Seq(Results)
    BY DEF FanOutTypeOK
  <2> HIDE DEF Results
  <2> QED BY <2>1
<1> QED BY <1>1 DEF Results

\* No task has been polled.
LEMMA FanOutInitInvariant == Init => FanOutInv
<1> SUFFICES ASSUME Init PROVE FanOutInv
  OBVIOUS
<1>1. FanOutTypeOK
  BY DEF Init, FanOutTypeOK
<1>2. Registered = {} /\ Counted = {}
  BY DEF Init, Registered, Counted
<1>3. CountersInv
  BY <1>2, FS_EmptySet DEF Init, CountersInv
<1>4. ResultsInv /\ WaitedInv /\ SnapshotInv
  BY DEF Init, ResultsInv, WaitedInv, SnapshotInv
<1> QED BY <1>1, <1>3, <1>4 DEF FanOutInv

\* A branch takes the next id, which is not below what the collector loaded.
LEMMA RegisterKeeps ==
    ASSUME FanOutInv, NEW s \in Sinks, register_branch(s)
    PROVE  FanOutInv'
<1>1. /\ branch[s] = "spawned" /\ branch' = [branch EXCEPT ![s] = "running"]
      /\ branch_id' = [branch_id EXCEPT ![s] = total] /\ total' = total + 1
      /\ UNCHANGED <<completed, results, collector, done, snapshot, dlq>>
  BY DEF register_branch, Goes, collectorVars
<1>2. FanOutTypeOK
  BY DEF FanOutInv
<1>3. FanOutTypeOK'
  BY <1>1, <1>2 DEF FanOutTypeOK
<1>4. /\ \A u \in Sinks : branch'[u] = IF u = s THEN "running" ELSE branch[u]
      /\ \A u \in Sinks : branch_id'[u] = IF u = s THEN total ELSE branch_id[u]
  BY <1>1, <1>2 DEF FanOutTypeOK
<1>5. Registered' = Registered \cup {s} /\ s \notin Registered /\ Counted' = Counted
  BY <1>1, <1>4 DEF Registered, Counted
<1>6. Cardinality(Registered') = Cardinality(Registered) + 1
  BY <1>2, <1>5, FiniteBranches, FS_AddElement
<1>7. done <= total /\ done \in Nat /\ total \in Nat
  BY <1>2, FiniteBranches DEF FanOutInv, CountersInv, FanOutTypeOK
<1>8. CountersInv'
  <2>1. \A u \in Registered' : branch_id'[u] < total'
    BY <1>1, <1>2, <1>4, <1>5, <1>7
       DEF FanOutInv, CountersInv, FanOutTypeOK, Registered
  <2> QED BY <1>1, <1>5, <1>6, <2>1 DEF FanOutInv, CountersInv
<1>9. \A i \in 1 .. Len(results) : results[i].sink \in Sinks /\ results[i].sink # s
  BY <1>1, <1>2, ResultSinks DEF FanOutInv, ResultsInv
<1>10. ResultsInv'
  BY <1>1, <1>4, <1>9 DEF FanOutInv, ResultsInv
<1>11. WaitedInv'
  <2>1. ASSUME NEW u \in Registered', branch_id'[u] < done
        PROVE  u \in Registered /\ branch_id[u] < done
    BY <1>4, <1>5, <1>7, <2>1 DEF Registered
  <2> QED BY <1>1, <1>5, <2>1 DEF FanOutInv, WaitedInv
<1>12. SnapshotInv'
  BY <1>1 DEF FanOutInv, SnapshotInv, ZippedDlq
<1> QED BY <1>3, <1>8, <1>10, <1>11, <1>12 DEF FanOutInv

\* A branch's push: past the comparison only a branch with a later id is
\* still running.
LEMMA PushKeeps ==
    ASSUME FanOutInv, NEW s \in Sinks, NEW ok \in BOOLEAN, PushResult(s, ok)
    PROVE  FanOutInv'
<1> DEFINE r == [sink |-> s, branch_id |-> branch_id[s], ok |-> ok]
<1>1. /\ branch[s] = "running" /\ branch' = [branch EXCEPT ![s] = "count"]
      /\ results' = Append(results, r)
      /\ UNCHANGED <<branch_id, total, completed, collector, done, snapshot, dlq>>
  BY DEF PushResult, Goes, collectorVars
<1>2. FanOutTypeOK
  BY DEF FanOutInv
<1>3. /\ r \in Results /\ r.sink = s /\ r.branch_id = branch_id[s]
  BY <1>2 DEF FanOutTypeOK, Results
<1> HIDE DEF r
<1>4. /\ results \in Seq(Results) /\ results' \in Seq(Results)
      /\ Len(results') = Len(results) + 1
      /\ \A i \in 1 .. Len(results') :
            \/ i \in 1 .. Len(results) /\ results'[i] = results[i]
            \/ i = Len(results) + 1 /\ results'[i] = r
  <2>1. results \in Seq(Results)
    BY <1>2 DEF FanOutTypeOK
  <2> QED BY <1>1, <1>3, <2>1
<1>5. FanOutTypeOK'
  <2>1. branch' \in [Sinks -> {"spawned", "running", "panicked", "count",
                               "compare", "notify", "release", "ended"}]
    BY <1>1, <1>2 DEF FanOutTypeOK
  <2> QED BY <1>1, <1>2, <1>4, <2>1 DEF FanOutTypeOK
<1>6. \A u \in Sinks : branch'[u] = IF u = s THEN "count" ELSE branch[u]
  BY <1>1, <1>2 DEF FanOutTypeOK
<1>7. Registered' = Registered /\ Counted' = Counted
  BY <1>1, <1>6 DEF Registered, Counted
<1>8. CountersInv' /\ WaitedInv'
  BY <1>1, <1>7 DEF FanOutInv, CountersInv, WaitedInv
<1>9. ResultsInv'
  <2>1. \A i \in 1 .. Len(results) : results[i].sink \in Sinks
    BY <1>2, ResultSinks
  <2> SUFFICES ASSUME NEW i \in 1 .. Len(results')
               PROVE  /\ branch'[results'[i].sink] \in
                             {"count", "compare", "notify", "release", "ended"}
                      /\ results'[i].branch_id = branch_id[results'[i].sink]
    BY <1>1 DEF ResultsInv
  <2>2. CASE i \in 1 .. Len(results) /\ results'[i] = results[i]
    BY <1>6, <2>1, <2>2 DEF FanOutInv, ResultsInv
  <2>3. CASE results'[i] = r
    BY <1>3, <1>6, <2>3
  <2> QED BY <1>4, <2>2, <2>3
<1>10. SnapshotInv'
  <2>1. collector \in {"route", "join", "ended"} => ~ (r.branch_id < done)
    BY <1>1, <1>3 DEF FanOutInv, WaitedInv, Registered, Counted
  <2>2. collector \in {"route", "join", "ended"} =>
           \A i \in 1 .. Len(results') : results'[i].branch_id < done =>
              \E j \in 1 .. Len(snapshot) : snapshot[j] = results'[i]
    BY <1>4, <2>1 DEF FanOutInv, SnapshotInv
  <2> QED BY <1>1, <2>2 DEF FanOutInv, SnapshotInv, ZippedDlq
<1> QED BY <1>5, <1>8, <1>9, <1>10 DEF FanOutInv

\* completed counts one branch more.
LEMMA CountKeeps ==
    ASSUME FanOutInv, NEW s \in Sinks, CountBranch(s)
    PROVE  FanOutInv'
<1>1. /\ branch[s] = "count" /\ branch' = [branch EXCEPT ![s] = "compare"]
      /\ completed' = completed + 1
      /\ UNCHANGED <<branch_id, total, results, collector, done, snapshot, dlq>>
  BY DEF CountBranch, Goes, collectorVars
<1>2. FanOutTypeOK
  BY DEF FanOutInv
<1>3. FanOutTypeOK'
  BY <1>1, <1>2 DEF FanOutTypeOK
<1>4. \A u \in Sinks : branch'[u] = IF u = s THEN "compare" ELSE branch[u]
  BY <1>1, <1>2 DEF FanOutTypeOK
<1>5. Registered' = Registered /\ Counted' = Counted \cup {s} /\ s \notin Counted
  BY <1>1, <1>4 DEF Registered, Counted
<1>6. Cardinality(Counted') = Cardinality(Counted) + 1
  BY <1>2, <1>5, FiniteBranches, FS_AddElement
<1>7. CountersInv'
  BY <1>1, <1>2, <1>5, <1>6 DEF FanOutInv, CountersInv, FanOutTypeOK
<1>8. ResultsInv'
  <2>1. \A i \in 1 .. Len(results) : results[i].sink \in Sinks
    BY <1>2, ResultSinks
  <2> QED BY <1>1, <1>4, <2>1 DEF FanOutInv, ResultsInv
<1>9. WaitedInv' /\ SnapshotInv'
  BY <1>1, <1>5 DEF FanOutInv, WaitedInv, SnapshotInv, ZippedDlq
<1> QED BY <1>3, <1>7, <1>8, <1>9 DEF FanOutInv

\* A branch panics, loads total, notifies or gives its slot back: it stays on
\* its side of both counters, and the collector is at most woken up.
LEMMA BranchKeeps ==
    ASSUME FanOutInv, NEW s \in Sinks,
           Panics(s) \/ CompareTotal(s) \/ NotifyWaiters(s) \/ release_slot(s)
    PROVE  FanOutInv'
<1>1. /\ \/ branch[s] = "running" /\ branch' = [branch EXCEPT ![s] = "panicked"]
         \/ branch[s] = "compare" /\ branch' = [branch EXCEPT ![s] = "notify"]
         \/ /\ branch[s] \in {"compare", "notify"}
            /\ branch' = [branch EXCEPT ![s] = "release"]
         \/ branch[s] = "release" /\ branch' = [branch EXCEPT ![s] = "ended"]
      /\ collector' = collector \/ collector' = "load"
      /\ UNCHANGED <<branch_id, total, completed, results, done, snapshot, dlq>>
  BY DEF Panics, CompareTotal, NotifyWaiters, release_slot, Goes, tracker, collectorVars
<1>2. FanOutTypeOK
  BY DEF FanOutInv
<1>3. FanOutTypeOK'
  <2>1. branch' \in [Sinks -> {"spawned", "running", "panicked", "count",
                               "compare", "notify", "release", "ended"}]
    BY <1>1, <1>2 DEF FanOutTypeOK
  <2> QED BY <1>1, <1>2, <2>1 DEF FanOutTypeOK
<1>4. \A u \in Sinks :
         /\ branch'[u] = "spawned" <=> branch[u] = "spawned"
         /\ branch'[u] \in {"compare", "notify", "release", "ended"}
               <=> branch[u] \in {"compare", "notify", "release", "ended"}
         /\ branch[u] = "count" => branch'[u] = "count"
  BY <1>1, <1>2 DEF FanOutTypeOK
<1>5. Registered' = Registered /\ Counted' = Counted
  BY <1>4 DEF Registered, Counted
<1>6. CountersInv'
  BY <1>1, <1>5 DEF FanOutInv, CountersInv
<1>7. ResultsInv'
  <2>1. \A i \in 1 .. Len(results) : results[i].sink \in Sinks
    BY <1>2, ResultSinks
  <2> QED BY <1>1, <1>4, <2>1 DEF FanOutInv, ResultsInv
<1>8. WaitedInv' /\ SnapshotInv'
  BY <1>1, <1>5 DEF FanOutInv, WaitedInv, SnapshotInv, ZippedDlq
<1> QED BY <1>3, <1>6, <1>7, <1>8 DEF FanOutInv

\* The collector.  The comparison succeeds only when every branch that has
\* registered has been counted.
LEMMA CollectorKeeps == ASSUME FanOutInv, Collector PROVE FanOutInv'
<1>1. UNCHANGED <<branch, branch_id, total, completed, results>>
  BY DEF Collector, LoadCompleted, LoadTotal, CloneResults, Arm, RouteFailures,
         JoinAll, tracker
<1>2. FanOutTypeOK
  BY DEF FanOutInv
<1>3. FanOutTypeOK'
  <2>1. /\ collector' \in {"load", "compare", "clone", "arm", "waiting", "route",
                           "join", "ended"}
        /\ done' \in Nat /\ snapshot' \in Seq(Results)
    BY <1>2 DEF Collector, LoadCompleted, LoadTotal, CloneResults, Arm,
                RouteFailures, JoinAll, FanOutTypeOK
  <2> QED BY <1>1, <1>2, <2>1 DEF FanOutTypeOK
<1>4. Registered' = Registered /\ Counted' = Counted
  BY <1>1 DEF Registered, Counted
<1>5. CountersInv'
  <2>1. done' <= completed
    BY <1>2 DEF Collector, LoadCompleted, LoadTotal, CloneResults, Arm,
                RouteFailures, JoinAll, FanOutInv, CountersInv, FanOutTypeOK
  <2> QED BY <1>1, <1>4, <2>1 DEF FanOutInv, CountersInv
<1>6. ResultsInv'
  BY <1>1 DEF FanOutInv, ResultsInv
<1>7. WaitedInv'
  <2>1. CASE LoadCompleted \/ Arm
    BY <2>1 DEF LoadCompleted, Arm, WaitedInv
  <2>2. CASE LoadTotal
    <3>1. CASE done >= total
      <4>1. Registered = Counted
        BY <1>2, <3>1, FiniteBranches DEF FanOutInv, CountersInv, FanOutTypeOK
      <4> QED BY <1>4, <4>1 DEF WaitedInv
    <3>2. CASE ~ (done >= total)
      BY <2>2, <3>2 DEF LoadTotal, WaitedInv
    <3> QED BY <3>1, <3>2
  <2>3. CASE CloneResults \/ RouteFailures \/ JoinAll
    BY <1>1, <1>4, <2>3
       DEF CloneResults, RouteFailures, JoinAll, FanOutInv, WaitedInv
  <2> QED BY <2>1, <2>2, <2>3 DEF Collector
<1>8. SnapshotInv'
  <2>1. CASE LoadCompleted \/ Arm \/ LoadTotal
    BY <2>1 DEF LoadCompleted, Arm, LoadTotal, SnapshotInv
  <2>2. CASE CloneResults
    BY <1>1, <2>2 DEF CloneResults, SnapshotInv
  <2>3. CASE RouteFailures \/ JoinAll
    BY <1>1, <2>3 DEF RouteFailures, JoinAll, FanOutInv, SnapshotInv, ZippedDlq
  <2> QED BY <2>1, <2>2, <2>3 DEF Collector
<1> QED BY <1>3, <1>5, <1>6, <1>7, <1>8 DEF FanOutInv

\* Every step keeps the invariant.
LEMMA FanOutStepInvariant == FanOutInv /\ [Next]_vars => FanOutInv'
<1> SUFFICES ASSUME FanOutInv, [Next]_vars PROVE FanOutInv'
  OBVIOUS
<1>1. CASE UNCHANGED vars
  <2>1. UNCHANGED <<branch, branch_id, total, completed, results, collector, done,
                    snapshot, dlq>>
    BY <1>1 DEF vars, tracker, collectorVars
  <2> QED BY <2>1 DEF FanOutInv, FanOutTypeOK, CountersInv, ResultsInv, WaitedInv,
                      SnapshotInv, Registered, Counted, ZippedDlq
<1>2. CASE Next
  BY <1>2, RegisterKeeps, PushKeeps, CountKeeps, BranchKeeps, CollectorKeeps
     DEF Next, Branch
<1> QED BY <1>1, <1>2

\* The invariant holds throughout.
THEOREM FanOutInvariance == FanOutSafetySpec => []FanOutInv
  BY FanOutInitInvariant, FanOutStepInvariant, PTL DEF FanOutSafetySpec

\* Every failed branch that wait_all waited for has its dead letter, under
\* its own id, in whatever order the branches register, push and count.
THEOREM FailuresReachDlq == FanOutSafetySpec => []FailedBranchesRouted
<1>1. FanOutInv => FailedBranchesRouted
  <2> SUFFICES ASSUME FanOutInv, collector \in {"join", "ended"},
                      NEW s \in Sinks, branch_id[s] < done,
                      NEW i \in 1 .. Len(results),
                      results[i].sink = s, ~ results[i].ok
               PROVE  \E r \in dlq : r.sink = s /\ r.branch_id = branch_id[s]
    BY DEF FailedBranchesRouted
  <2>1. results[i].branch_id = branch_id[s]
    BY DEF FanOutInv, ResultsInv
  <2>2. PICK j \in 1 .. Len(snapshot) : snapshot[j] = results[i]
    BY <2>1 DEF FanOutInv, SnapshotInv
  <2> DEFINE r == [branch_id |-> snapshot[j].branch_id, topic |-> j,
                   sink |-> snapshot[j].sink]
  <2>3. r \in dlq
    BY <2>2 DEF FanOutInv, SnapshotInv, ZippedDlq
  <2>4. r.sink = s /\ r.branch_id = branch_id[s]
    BY <2>1, <2>2
  <2> QED BY <2>3, <2>4
<1> QED BY <1>1, FanOutInvariance, PTL
=============================================================================
