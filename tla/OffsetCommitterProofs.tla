------------------------ MODULE OffsetCommitterProofs ------------------------
(***************************************************************************)
(* The committer with Kafka implements the commit frontier, and its final  *)
(* cycle leaves nothing behind, for every set of partitions, every log,    *)
(* every choice of delivered offsets and every number of errors.  The      *)
(* argument: the tracker's own invariant holds under the committer too     *)
(* (TrackerStep), and a cursor only moves forward (TrackerMoves), so what  *)
(* a cycle read stays covered however late it is stored, requested and     *)
(* applied; and since a cycle reads each partition once, the positions on  *)
(* the way to Kafka are ordered: broker, requested, stored, cursor + 1.    *)
(***************************************************************************)
EXTENDS OffsetCommitter, OffsetTrackerProofs

\* Position n is either still the initial one or covered by p's cursor.
Covered(p, n) ==
    n = 0 \/ (p \in registered /\ base[p] < n /\ n <= cursor(p) + 1)

\* The positions on their way to Kafka never overtake each other.
PositionsOrdered ==
    \A p \in Partitions :
        /\ broker[p] <= requested[p] /\ requested[p] <= stored[p]
        /\ Covered(p, broker[p]) /\ Covered(p, requested[p])
        /\ Covered(p, stored[p])

\* What a cycle has read: one pair for a partition, no older than what is
\* stored and no newer than the cursor, and none for a partition that is
\* still to be read.
CycleInv ==
    /\ pc # "scan" => todo = {} /\ checked = NoPartition
    /\ pc \in {"select", "exited"} => commits = {}
    /\ checked # NoPartition => checked \in registered /\ checked \notin todo
    /\ \A p \in Partitions, o \in Offsets : <<p, o>> \in commits =>
          /\ p \in registered /\ p \notin todo /\ p # checked
          /\ base[p] <= o /\ o <= cursor(p) /\ stored[p] <= o + 1
    /\ \A p \in Partitions, o, x \in Offsets :
          <<p, o>> \in commits /\ <<p, x>> \in commits => o = x

\* The final cycle: it begins after the workers have ended, and without an
\* error a partition that may commit is still to be read, has been read, or
\* is stored up to its cursor.
FinalInv ==
    /\ final => done /\ pc # "select"
    /\ errors = 0 /\ pc # "commit" => requested = stored
    /\ final /\ errors = 0 =>
          \A p \in Partitions : should_commit(p) =>
              \/ p \in todo \/ p = checked
              \/ <<p, cursor(p)>> \in commits
              \/ stored[p] = cursor(p) + 1

\* The inductive invariant of the committer.
CommitterInv ==
    /\ CommitterTypeOK
    /\ IInv
    /\ PositionsOrdered
    /\ CycleInv
    /\ FinalInv
-----------------------------------------------------------------------------
\* Every step of the committer, of Kafka and of the workers is a step of the
\* tracker or leaves it alone.
LEMMA TrackerStep == ASSUME CommitterNext PROVE [Next]_trackerVars
<1>1. CASE Workers
  BY <1>1, DeliveredAssumption
     DEF Workers, WorkerAck, WorkerFailure, Next
<1>2. CASE set_done \/ IntervalElapses
  BY <1>2 DEF set_done, IntervalElapses
<1>3. CASE Cycle
  BY <1>3 DEF Cycle, SelectDone, SelectSignal, SelectTick, Process,
              CheckPartition, ReadPartition, EndScan, StoreOffset,
              StoreOffsetFails, RequestCommit, EndCycle
<1>4. CASE BrokerApplies \/ BrokerRejects
  BY <1>4 DEF BrokerApplies, BrokerRejects
<1> QED BY <1>1, <1>2, <1>3, <1>4 DEF CommitterNext

\* A step of the tracker forgets no partition, keeps its base and moves its
\* cursor forward only.
LEMMA TrackerMoves ==
    ASSUME IInv, [Next]_trackerVars, NEW p \in registered
    PROVE  /\ p \in registered' /\ base'[p] = base[p]
           /\ cursor(p) <= cursor(p)'
<1>1. p \in Partitions
  BY DEF IInv, TypeOK
<1>2. cursor(p) <= cursor(p)'
  BY <1>1, StepCursor
<1>3. p \in registered' /\ base'[p] = base[p]
  BY <1>1 DEF IInv, TypeOK, Next, ack, mark_failed, trackerVars
<1> QED BY <1>2, <1>3

\* A registered partition has a cursor at or past its base.
LEMMA RegisteredCursor ==
    ASSUME IInv, NEW p \in registered
    PROVE  /\ p \in Partitions /\ cursor(p) \in Offsets
           /\ base[p] \in Offsets /\ base[p] <= cursor(p)
<1>1. p \in Partitions
  BY DEF IInv, TypeOK
<1>2. PartitionInv(partitions[p], acked[p], base[p])
  BY <1>1 DEF IInv
<1>3. partitions[p] \in PartitionStates /\ base[p] \in -1 .. MaxOffset
  BY <1>1 DEF IInv, TypeOK
<1> QED BY <1>1, <1>2, <1>3, MaxOffsetAssumption
        DEF PartitionInv, PartitionStates, Offsets, cursor

\* What is covered stays covered.
LEMMA CoveredStays ==
    ASSUME IInv, IInv', [Next]_trackerVars, NEW p \in Partitions,
           NEW n \in 0 .. MaxOffset + 1, Covered(p, n)
    PROVE  Covered(p, n)'
<1>1. CASE n = 0
  BY <1>1 DEF Covered
<1>2. CASE n # 0
  <2>1. p \in registered /\ base[p] < n /\ n <= cursor(p) + 1
    BY <1>2 DEF Covered
  <2>2. p \in registered' /\ base'[p] = base[p] /\ cursor(p) <= cursor(p)'
    BY <2>1, TrackerMoves
  <2>3. cursor(p) \in Int
    BY <2>1, RegisteredCursor DEF Offsets
  <2>4. cursor(p)' \in Int
    BY MaxOffsetAssumption DEF IInv, TypeOK, PartitionStates, cursor
  <2>5. n <= cursor(p)' + 1
    BY <2>1, <2>2, <2>3, <2>4, MaxOffsetAssumption
  <2> QED BY <2>1, <2>2, <2>5 DEF Covered
<1> QED BY <1>1, <1>2
-----------------------------------------------------------------------------
\* The invariant holds before anything was acked.
LEMMA CommitterInitInvariant == CommitterInit => CommitterInv
<1> SUFFICES ASSUME CommitterInit PROVE CommitterInv
  OBVIOUS
<1>1. IInv
  BY InitInvariant DEF CommitterInit
<1>2. CommitterTypeOK
  <2>1. TypeOK
    BY <1>1 DEF IInv
  <2>2. stored \in Positions /\ requested \in Positions /\ broker \in Positions
    BY MaxOffsetAssumption DEF CommitterInit, Positions
  <2>3. errors \in 0 .. MaxErrors
    BY MaxErrorsAssumption DEF CommitterInit
  <2> QED BY <2>1, <2>2, <2>3 DEF CommitterInit, CommitterTypeOK
<1>3. PositionsOrdered
  BY DEF CommitterInit, PositionsOrdered, Covered
<1>4. CycleInv /\ FinalInv
  BY DEF CommitterInit, CycleInv, FinalInv
<1> QED BY <1>1, <1>2, <1>3, <1>4 DEF CommitterInv

\* The workers move cursors, and stop when the final cycle may begin.
LEMMA WorkersKeep ==
    ASSUME CommitterInv, IInv', Workers PROVE CommitterInv'
<1> USE DEF CommitterInv
<1>1. /\ [Next]_trackerVars
      /\ UNCHANGED <<interval_ready, pc, done, cycleVars, kafkaVars>>
      /\ ~ done /\ (signal' = signal \/ signal' \in Partitions)
  BY TrackerStep DEF Workers, WorkerAck, WorkerFailure, CommitterNext, taskVars
<1>2. CommitterTypeOK'
  BY <1>1 DEF CommitterTypeOK, IInv, cycleVars, kafkaVars, Positions
<1>3. PositionsOrdered'
  <2> SUFFICES ASSUME NEW p \in Partitions
               PROVE  /\ Covered(p, broker[p])' /\ Covered(p, requested[p])'
                      /\ Covered(p, stored[p])'
    BY <1>1 DEF PositionsOrdered, kafkaVars
  <2>1. /\ broker[p] \in 0 .. MaxOffset + 1 /\ requested[p] \in 0 .. MaxOffset + 1
        /\ stored[p] \in 0 .. MaxOffset + 1
    BY DEF CommitterTypeOK, Positions
  <2>2. Covered(p, broker[p]) /\ Covered(p, requested[p]) /\ Covered(p, stored[p])
    BY DEF PositionsOrdered
  <2>3. \A n \in 0 .. MaxOffset + 1 : Covered(p, n) =>
            n = 0 \/ (p \in registered' /\ base'[p] < n /\ n <= cursor(p)' + 1)
    BY <1>1, CoveredStays DEF Covered
  <2> QED BY <1>1, <2>1, <2>2, <2>3 DEF Covered, kafkaVars
<1>4. CycleInv'
  <2>1. \A p \in registered : /\ p \in registered' /\ base'[p] = base[p]
                              /\ cursor(p) <= cursor(p)'
    BY <1>1, TrackerMoves
  <2>2. \A p \in Partitions : cursor(p) \in Int /\ cursor(p)' \in Int
    BY MaxOffsetAssumption DEF IInv, TypeOK, PartitionStates, cursor
  <2>3. ASSUME NEW p \in Partitions, NEW o \in Offsets, <<p, o>> \in commits
        PROVE  /\ p \in registered' /\ p \notin todo /\ p # checked
               /\ base'[p] <= o /\ o <= cursor(p)' /\ stored[p] <= o + 1
    BY <2>1, <2>2, <2>3 DEF CycleInv, Offsets
  <2>4. UNCHANGED <<pc, todo, checked, commits, stored>>
    BY <1>1 DEF cycleVars, kafkaVars
  <2>5. checked # NoPartition => checked \in registered' /\ checked \notin todo
    BY <2>1 DEF CycleInv
  <2> HIDE DEF CommitterInv
  <2> QED BY <2>3, <2>4, <2>5 DEF CycleInv, CommitterInv
<1>5. FinalInv'
  BY <1>1 DEF FinalInv, cycleVars, kafkaVars
<1> QED BY <1>2, <1>3, <1>4, <1>5

\* Steps that leave the tracker and what Kafka was told alone.
LEMMA ControlKeeps ==
    ASSUME CommitterInv,
           \/ set_done \/ IntervalElapses \/ SelectDone \/ SelectSignal
           \/ SelectTick \/ EndScan \/ EndCycle
    PROVE  CommitterInv'
<1> USE DEF CommitterInv
<1>1. UNCHANGED <<trackerVars, kafkaVars, checked, commits>>
  BY DEF set_done, IntervalElapses, SelectDone, SelectSignal, SelectTick,
         Process, EndScan, EndCycle, cycleVars
<1>2. IInv' /\ TypeOK' /\ PositionsOrdered'
  BY <1>1 DEF IInv, TypeOK, PositionsOrdered, Covered, cursor, trackerVars,
              kafkaVars
<1>3. CommitterTypeOK'
  <2>1. registered \subseteq Partitions
    BY DEF IInv, TypeOK
  <2> QED BY <1>1, <1>2, <2>1
          DEF CommitterTypeOK, set_done, IntervalElapses, SelectDone,
              SelectSignal, SelectTick, Process, EndScan, EndCycle, cycleVars,
              kafkaVars, Positions
<1>4. CycleInv'
  BY <1>1 DEF CycleInv, set_done, IntervalElapses, SelectDone, SelectSignal,
              SelectTick, Process, EndScan, EndCycle, cycleVars, kafkaVars,
              trackerVars, cursor
<1>5. FinalInv'
  BY <1>1 DEF FinalInv, CycleInv, set_done, IntervalElapses, SelectDone,
              SelectSignal, SelectTick, Process, EndScan, EndCycle, cycleVars,
              kafkaVars, trackerVars, cursor, should_commit
<1> QED BY <1>2, <1>3, <1>4, <1>5

\* The two reads of one partition, between which workers may have moved its
\* cursor: the offset read is the cursor of the second.
LEMMA ReadKeeps ==
    ASSUME CommitterInv, ReadPartition \/ \E p \in Partitions : CheckPartition(p)
    PROVE  CommitterInv'
<1> USE DEF CommitterInv
<1>1. UNCHANGED <<trackerVars, kafkaVars, signal, interval_ready, pc, done, final>>
  BY DEF ReadPartition, CheckPartition
<1>2. IInv' /\ TypeOK' /\ PositionsOrdered'
  BY <1>1 DEF IInv, TypeOK, PositionsOrdered, Covered, cursor, trackerVars,
              kafkaVars
<1>3. CASE ReadPartition
  <2> USE <1>3 DEF ReadPartition
  <2>1. /\ checked \in registered /\ checked \in Partitions
        /\ cursor(checked) \in Offsets /\ base[checked] \in Offsets
        /\ base[checked] <= cursor(checked)
    BY RegisteredCursor DEF CycleInv
  <2>2. stored[checked] <= cursor(checked) + 1
    BY <2>1 DEF PositionsOrdered, Covered, Offsets
  <2>3. CommitterTypeOK'
    BY <1>1, <1>2, <2>1 DEF CommitterTypeOK, kafkaVars, Positions
  <2>4. CycleInv'
    <3>1. ASSUME NEW q \in Partitions, NEW x \in Offsets, <<q, x>> \in commits'
          PROVE  /\ q \in registered /\ q \notin todo /\ q # NoPartition
                 /\ base[q] <= x /\ x <= cursor(q) /\ stored[q] <= x + 1
                 /\ q = checked => x = cursor(checked)
      BY <2>1, <2>2, <3>1, NoPartitionAssumption DEF CycleInv, Offsets
    <3>2. ASSUME NEW q \in Partitions, NEW x \in Offsets, NEW y \in Offsets,
                 <<q, x>> \in commits', <<q, y>> \in commits'
          PROVE  x = y
      BY <3>1, <3>2 DEF CycleInv
    <3> QED BY <1>1, <3>1, <3>2 DEF CycleInv, kafkaVars, trackerVars, cursor
  <2>5. FinalInv'
    BY <1>1 DEF FinalInv, kafkaVars, trackerVars, cursor, should_commit
  <2> QED BY <1>2, <2>3, <2>4, <2>5
<1>4. ASSUME NEW p \in Partitions, CheckPartition(p) PROVE CommitterInv'
  <2> USE <1>4 DEF CheckPartition
  <2>3. CommitterTypeOK'
    BY <1>1, <1>2 DEF CommitterTypeOK, kafkaVars, Positions
  <2>4. CycleInv'
    BY <1>1, NoPartitionAssumption
       DEF CycleInv, kafkaVars, trackerVars, cursor, should_commit
  <2>5. FinalInv'
    BY <1>1, NoPartitionAssumption
       DEF FinalInv, kafkaVars, trackerVars, cursor, should_commit
  <2> QED BY <1>2, <2>3, <2>4, <2>5
<1> QED BY <1>3, <1>4

\* Storing one partition's offset, or failing to.
LEMMA StoreKeeps ==
    ASSUME CommitterInv, NEW p \in Partitions, NEW o \in Offsets,
           StoreOffset(p, o) \/ StoreOffsetFails(p, o)
    PROVE  CommitterInv'
<1> USE DEF CommitterInv
<1>1. /\ <<p, o>> \in commits /\ commits' = commits \ {<<p, o>>}
      /\ UNCHANGED <<trackerVars, signal, interval_ready, done, final, todo,
                     checked, requested, broker>>
      /\ pc = "store" /\ pc' \in {"store", "commit"}
  BY DEF StoreOffset, StoreOffsetFails
<1>2. IInv' /\ TypeOK'
  BY <1>1 DEF IInv, TypeOK, trackerVars
<1>3. /\ p \in registered /\ base[p] <= o /\ o <= cursor(p)
      /\ stored[p] <= o + 1
  BY <1>1 DEF CycleInv
<1>4. cursor(p) \in Offsets /\ base[p] \in Offsets
  BY <1>3, RegisteredCursor
<1>5. CASE StoreOffset(p, o)
  <2>1. stored' = [stored EXCEPT ![p] = o + 1] /\ errors' = errors /\ pc' = "commit"
    BY <1>5 DEF StoreOffset
  <2>2. CommitterTypeOK'
    BY <1>1, <1>2, <2>1, MaxOffsetAssumption DEF CommitterTypeOK, Positions, Offsets
  <2>3. PositionsOrdered'
    <3> SUFFICES ASSUME NEW q \in Partitions
                 PROVE  requested[q] <= stored'[q] /\ Covered(q, stored[q])'
      BY <1>1 DEF PositionsOrdered, Covered, cursor, trackerVars
    <3>1. CASE q = p
      BY <1>1, <1>3, <1>4, <2>1, <3>1
         DEF PositionsOrdered, Covered, cursor, trackerVars, CommitterTypeOK,
             Positions, Offsets
    <3>2. CASE q # p
      BY <1>1, <2>1, <3>2
         DEF PositionsOrdered, Covered, cursor, trackerVars, CommitterTypeOK,
             Positions
    <3> QED BY <3>1, <3>2
  <2>4. CycleInv'
    <3>1. ASSUME NEW q \in Partitions, NEW x \in Offsets, <<q, x>> \in commits'
          PROVE  stored'[q] <= x + 1
      BY <1>1, <2>1, <3>1 DEF CycleInv, CommitterTypeOK, Positions
    <3> QED BY <1>1, <2>1, <3>1 DEF CycleInv, trackerVars, cursor
  <2>5. FinalInv'
    <3>1. ASSUME final, errors = 0, NEW q \in Partitions, should_commit(q)
          PROVE  \/ q \in todo \/ q = checked
                 \/ <<q, cursor(q)>> \in commits'
                 \/ stored'[q] = cursor(q) + 1
      <4>1. CASE q = p /\ cursor(q) = o
        BY <2>1, <4>1 DEF CommitterTypeOK, Positions
      <4>2. CASE q # p
        BY <1>1, <2>1, <3>1, <4>2 DEF FinalInv, CommitterTypeOK, Positions
      <4>3. CASE q = p /\ cursor(q) # o
        <5>1. <<q, cursor(q)>> \notin commits
          BY <1>1, <1>4, <4>3 DEF CycleInv
        <5>2. q \notin todo /\ q # checked
          BY <1>1, <4>3 DEF CycleInv
        <5>3. stored[q] = cursor(q) + 1
          BY <3>1, <5>1, <5>2 DEF FinalInv
        <5> QED BY <1>3, <1>4, <4>3, <5>3 DEF Offsets
      <4> QED BY <4>1, <4>2, <4>3
    <3> QED BY <1>1, <2>1, <3>1
            DEF FinalInv, trackerVars, cursor, should_commit
  <2> QED BY <1>2, <2>2, <2>3, <2>4, <2>5
<1>6. CASE StoreOffsetFails(p, o)
  <2>1. stored' = stored /\ errors' = errors + 1 /\ errors < MaxErrors /\ pc' = pc
    BY <1>6 DEF StoreOffsetFails
  <2>2. CommitterTypeOK'
    BY <1>1, <1>2, <2>1, MaxErrorsAssumption DEF CommitterTypeOK, Positions
  <2>3. PositionsOrdered'
    BY <1>1, <2>1 DEF PositionsOrdered, Covered, cursor, trackerVars
  <2>4. CycleInv'
    BY <1>1, <2>1 DEF CycleInv, trackerVars, cursor
  <2>5. FinalInv'
    BY <1>1, <2>1 DEF FinalInv, CommitterTypeOK
  <2> QED BY <1>2, <2>2, <2>3, <2>4, <2>5
<1> QED BY <1>5, <1>6

\* The commit request, and Kafka's answer to it.
LEMMA RequestKeeps ==
    ASSUME CommitterInv, RequestCommit \/ BrokerApplies \/ BrokerRejects
    PROVE  CommitterInv'
<1> USE DEF CommitterInv
<1>1. /\ UNCHANGED <<trackerVars, signal, interval_ready, done, final, todo,
                     checked, commits, stored>>
      /\ errors' = errors \/ (errors < MaxErrors /\ errors' = errors + 1)
      /\ pc' = pc \/ (pc = "commit" /\ pc' = "store")
      /\ requested' \in {requested, stored, broker}
      /\ broker' \in {broker, requested}
      /\ requested' = broker => broker' = broker
      /\ broker' = requested => requested' \in {requested, stored}
  BY DEF RequestCommit, BrokerApplies, BrokerRejects, taskVars, cycleVars
<1>2. IInv' /\ TypeOK'
  BY <1>1 DEF IInv, TypeOK, trackerVars
<1>3. CommitterTypeOK'
  BY <1>1, <1>2, MaxErrorsAssumption DEF CommitterTypeOK, Positions
<1>4. PositionsOrdered'
  <2>1. \A p \in Partitions :
           /\ broker[p] \in Int /\ requested[p] \in Int /\ stored[p] \in Int
           /\ broker[p] <= requested[p] /\ requested[p] <= stored[p]
    BY DEF PositionsOrdered, CommitterTypeOK, Positions
  <2> QED BY <1>1, <2>1 DEF PositionsOrdered, Covered, cursor, trackerVars
<1>5. CycleInv'
  BY <1>1 DEF CycleInv, trackerVars, cursor
<1>6. FinalInv'
  <2>1. errors \in Nat
    BY DEF CommitterTypeOK
  <2>2. errors' = 0 /\ pc' # "commit" => requested' = stored'
    BY <2>1 DEF FinalInv, RequestCommit, BrokerApplies, BrokerRejects, taskVars
  <2> QED BY <1>1, <2>1, <2>2
          DEF FinalInv, trackerVars, cursor, should_commit
<1> QED BY <1>2, <1>3, <1>4, <1>5, <1>6

\* Every step keeps the invariant.
LEMMA CommitterStepInvariant ==
    CommitterInv /\ [CommitterNext]_vars => CommitterInv'
<1> SUFFICES ASSUME CommitterInv, [CommitterNext]_vars PROVE CommitterInv'
  OBVIOUS
<1>1. CASE CommitterNext
  <2>1. IInv'
    BY <1>1, TrackerStep, StepInvariant DEF CommitterInv
  <2> QED BY <1>1, <2>1, WorkersKeep, ControlKeeps, ReadKeeps, StoreKeeps,
             RequestKeeps DEF CommitterNext, Cycle
<1>2. CASE UNCHANGED vars
  BY <1>2 DEF vars, CommitterInv, CommitterTypeOK, IInv, TypeOK, Positions,
              PositionsOrdered, Covered, CycleInv, FinalInv, trackerVars,
              taskVars, cycleVars, kafkaVars, cursor, should_commit
<1> QED BY <1>1, <1>2
-----------------------------------------------------------------------------
\* The invariant holds throughout.
THEOREM CommitterInvariance == CommitterSafetySpec => []CommitterInv
  BY CommitterInitInvariant, CommitterStepInvariant, PTL DEF CommitterSafetySpec

\* Type correctness of the committer, of its cycle and of what Kafka holds.
THEOREM CommitterTypeCorrect == CommitterSafetySpec => []CommitterTypeOK
<1>1. CommitterInv => CommitterTypeOK
  BY DEF CommitterInv
<1> QED BY <1>1, CommitterInvariance, PTL

\* A final cycle that the throttle lets run commits the cursor of every
\* partition that may commit, unless storing or committing failed.
THEOREM FinalCycleComplete == CommitterSafetySpec => []FinalCycleCommits
<1>1. CommitterInv => FinalCycleCommits
  BY NoPartitionAssumption
     DEF CommitterInv, FinalInv, CycleInv, FinalCycleCommits
<1> QED BY <1>1, CommitterInvariance, PTL
-----------------------------------------------------------------------------
(* The refinement of CommitFrontier.                                       *)

\* A covered position may be committed: its offsets have been acked.
LEMMA CoveredCommittable ==
    ASSUME IInv, NEW p \in Partitions, NEW n \in 1 .. MaxOffset + 1,
           Covered(p, n)
    PROVE  Frontier!Committable(p, n)
<1>1. p \in registered /\ base[p] < n /\ n <= cursor(p) + 1
  BY MaxOffsetAssumption DEF Covered
<1>2. PartitionInv(partitions[p], acked[p], base[p])
  BY <1>1 DEF IInv
<1>3. cursor(p) \in Offsets /\ base[p] \in Offsets
  BY <1>1, RegisteredCursor
<1>4. ASSUME NEW o \in 0 .. MaxOffset, base[p] <= o, o < n PROVE o \in acked[p]
  BY <1>1, <1>2, <1>3, <1>4, MaxOffsetAssumption DEF PartitionInv, cursor, Offsets
<1> QED BY <1>1, <1>3, <1>4, MaxOffsetAssumption DEF Frontier!Committable, Offsets

\* An ack of the tracker is a processed message of the frontier.
LEMMA AckProcesses ==
    ASSUME CommitterInv, NEW p \in Partitions, NEW o \in Offsets, WorkerAck(p, o)
    PROVE  Frontier!Process(p, o)
<1>1. p \in registered <=> base[p] # -1
  BY RegisteredCursor DEF CommitterInv, IInv, Offsets
<1> QED BY <1>1 DEF WorkerAck, ack, Frontier!Process, kafkaVars

\* Kafka applying the request is a commit of the frontier: every position
\* that changes moves forward to a covered one.
LEMMA ApplyCommits ==
    ASSUME CommitterInv, BrokerApplies PROVE Frontier!Commit
<1>1. broker' = requested /\ acked' = acked /\ base' = base
  BY DEF BrokerApplies, trackerVars
<1>2. requested \in [Partitions -> 0 .. MaxOffset + 1]
  BY DEF CommitterInv, CommitterTypeOK, Positions
<1>3. ASSUME NEW p \in Partitions, requested[p] # broker[p]
      PROVE  broker[p] < requested[p] /\ Frontier!Committable(p, requested[p])
  <2>1. broker[p] \in 0 .. MaxOffset + 1 /\ requested[p] \in 0 .. MaxOffset + 1
    BY DEF CommitterInv, CommitterTypeOK, Positions
  <2>2. broker[p] <= requested[p] /\ Covered(p, requested[p])
    BY DEF CommitterInv, PositionsOrdered
  <2>3. broker[p] < requested[p] /\ requested[p] \in 1 .. MaxOffset + 1
    BY <1>3, <2>1, <2>2, MaxOffsetAssumption
  <2> QED BY <2>2, <2>3, CoveredCommittable DEF CommitterInv
<1> QED BY <1>1, <1>2, <1>3 DEF Frontier!Commit

\* Every step of committer, workers and Kafka is a step of the frontier, or
\* a stutter.
LEMMA FrontierStep ==
    CommitterInv /\ [CommitterNext]_vars => [Frontier!Next]_(Frontier!vars)
<1> SUFFICES ASSUME CommitterInv, [CommitterNext]_vars
             PROVE  [Frontier!Next]_(Frontier!vars)
  OBVIOUS
<1> USE DEF Frontier!vars
<1>1. ASSUME NEW p \in Partitions, NEW o \in Delivered[p], WorkerAck(p, o)
      PROVE  Frontier!Next
  <2>1. o \in Offsets
    BY DeliveredAssumption
  <2> QED BY <1>1, <2>1, AckProcesses DEF Frontier!Next, Offsets
<1>2. CASE \E p \in Partitions : \E o \in Delivered[p], category \in Categories :
              WorkerFailure(p, o, category)
  BY <1>2 DEF WorkerFailure, mark_failed, kafkaVars
<1>3. CASE set_done \/ IntervalElapses \/ BrokerRejects \/ Cycle
  BY <1>3 DEF set_done, IntervalElapses, BrokerRejects, Cycle, SelectDone,
              SelectSignal, SelectTick, Process, CheckPartition, ReadPartition,
              EndScan, StoreOffset, StoreOffsetFails, RequestCommit, EndCycle,
              trackerVars, kafkaVars
<1>4. CASE BrokerApplies
  BY <1>4, ApplyCommits DEF Frontier!Next
<1>5. CASE UNCHANGED vars
  BY <1>5 DEF vars, trackerVars, kafkaVars
<1> QED BY <1>1, <1>2, <1>3, <1>4, <1>5 DEF CommitterNext, Workers

\* The committer with Kafka implements the frontier: the committed position
\* only moves forward, over acked offsets, although cursors are read, stored
\* and committed in separate steps while workers report and calls fail.
THEOREM CommitterRefinesFrontier == CommitterSafetySpec => RefinesFrontier
<1>1. CommitterInit => Frontier!Init
  BY DEF CommitterInit, Init, Frontier!Init
<1> QED BY <1>1, FrontierStep, CommitterInvariance, PTL
        DEF CommitterSafetySpec, RefinesFrontier, Frontier!Spec
=============================================================================
