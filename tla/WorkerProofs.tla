---------------------------- MODULE WorkerProofs ----------------------------
(***************************************************************************)
(* The worker loop keeps its promises for any number of topics, messages,  *)
(* attempts, permits and threads.  The channel holds the offsets from      *)
(* Front(p) on, in order; the worker holds the offset before Front(p) or   *)
(* nothing; every other offset below Front(p) is acked or routed, and not  *)
(* both.  So a held offset is neither acked nor below the first acked one, *)
(* and the tracker's invariant keeps the cursor in front of it.            *)
(***************************************************************************)
EXTENDS Worker, OffsetTrackerProofs, FiniteSetTheorems

\* The first offset the worker has not taken.
Front(p) == next[p] - Len(channel[p])

\* Where the dispatched offsets of a topic are.
PlacedAt(p) ==
    /\ Len(channel[p]) <= next[p]
    /\ \A i \in 1 .. Len(channel[p]) : channel[p][i] = Front(p) + i - 1
    /\ held[p] # NoMessage => held[p] = Front(p) - 1
    /\ \A o \in Offsets :
          /\ o < Front(p) <=> o = held[p] \/ o \in acked[p] \/ <<p, o>> \in routed
          /\ o = held[p] => o \notin acked[p] /\ <<p, o>> \notin routed
          /\ ~ (o \in acked[p] /\ <<p, o>> \in routed)

PlacedInv == \A p \in Partitions : PlacedAt(p)

\* What a worker has in each of its states.
StageInv ==
    \A p \in Partitions :
        /\ worker[p] = "idle" => held[p] = NoMessage
        /\ worker[p] \in {"processing", "invoking", "sleeping"}
              => held[p] # NoMessage
        /\ permits[p] = IF worker[p] \in {"invoking", "sleeping"}
                        THEN Concurrency - 1 ELSE Concurrency

AttemptLimit == IF MaxAttempts = 0 THEN 1 ELSE MaxAttempts

\* The runs of a handler that have begun or will begin without the worker.
Begun(m) == invocations[m] + (IF thread[m] = "queued" THEN 1 ELSE 0)

\* The worker's side of a message that it works on.
Working(m, states) == held[m[1]] = m[2] /\ worker[m[1]] \in states

\* The coordinator's count is the number of runs that ended before this one.
AttemptOf(m) ==
    /\ Begun(m) <= AttemptLimit
    /\ m[2] >= Front(m[1]) => /\ thread[m] = "none" /\ invocations[m] = 0
                              /\ retries[m] = Absent
    /\ Working(m, {"processing", "sleeping"}) =>
          /\ thread[m] = "none" /\ invocations[m] = retries[m]
          /\ 0 <= retries[m] /\ retries[m] < AttemptLimit
    /\ Working(m, {"invoking"}) =>
          /\ Begun(m) = retries[m] + 1
          /\ 0 <= retries[m] /\ retries[m] < AttemptLimit

AttemptInv == \A m \in Messages : AttemptOf(m)

\* The inductive invariant.
WorkerInv ==
    /\ WorkerTypeOK
    /\ IInv
    /\ QueueAccounting
    /\ PlacedInv /\ StageInv /\ AttemptInv
    /\ IsFiniteSet(Running)
-----------------------------------------------------------------------------
\* Nothing was dispatched and no handler has run.
LEMMA WorkerInitInvariant == WorkerInit => WorkerInv
<1> SUFFICES ASSUME WorkerInit PROVE WorkerInv
  OBVIOUS
<1>1. IInv /\ TypeOK
  BY InitInvariant DEF WorkerInit, IInv
<1>2. Running = {}
  BY DEF WorkerInit, Running
<1>3. IsFiniteSet(Running) /\ Cardinality(Running) <= BlockingThreads
  BY <1>2, FS_EmptySet, BlockingThreadsAssumption
<1>4. \A p \in Partitions : Len(channel[p]) = 0 /\ next[p] = 0 /\ held[p] = -1
  BY DEF WorkerInit, NoMessage
<1>5. WorkerTypeOK
  <2>1. /\ next \in [Partitions -> 0 .. MaxOffset + 1]
        /\ inflight \in [Partitions -> 0 .. MaxOffset + 1]
    BY MaxOffsetAssumption DEF WorkerInit
  <2>2. /\ channel \in [Partitions -> Seq(Offsets)]
        /\ dlq_channel \in Seq(Messages) /\ Len(dlq_channel) <= DlqCapacity
    BY DlqCapacityAssumption DEF WorkerInit
  <2>3. /\ held \in [Partitions -> Offsets \cup {NoMessage}]
        /\ worker \in [Partitions -> {"idle", "processing", "invoking",
                                      "sleeping", "stopped"}]
        /\ thread \in [Messages -> {"none", "queued", "running"}]
    BY DEF WorkerInit
  <2>4. /\ retries \in [Messages -> RetryStates]
        /\ invocations \in [Messages -> Nat]
    BY MaxAttemptsAssumption DEF WorkerInit, RetryStates, Absent
  <2>5. permits \in [Partitions -> 0 .. Concurrency]
    BY ConcurrencyAssumption DEF WorkerInit
  <2>6. /\ cancelled \in BOOLEAN /\ pool \in {"run", "flush", "stopped"}
        /\ flushing \in SUBSET Messages /\ routed \in SUBSET Messages
    BY DEF WorkerInit
  <2> QED BY <1>1, <1>3, <2>1, <2>2, <2>3, <2>4, <2>5, <2>6 DEF WorkerTypeOK
<1>6. QueueAccounting
  BY <1>4 DEF WorkerInit, QueueAccounting, NoMessage
<1>7. PlacedInv
  BY <1>4 DEF WorkerInit, Init, PlacedInv, PlacedAt, Front, NoMessage, Offsets
<1>8. StageInv
  BY DEF WorkerInit, StageInv
<1>9. AttemptInv
  <2>1. \A m \in Messages : m[1] \in Partitions
    BY DEF Messages
  <2>2. 1 <= AttemptLimit /\ AttemptLimit \in Nat
    BY MaxAttemptsAssumption DEF AttemptLimit
  <2>3. \A m \in Messages : Begun(m) = 0
    BY DEF WorkerInit, Begun
  <2>4. \A m \in Messages : worker[m[1]] = "idle"
    BY <2>1 DEF WorkerInit
  <2>5. \A m \in Messages :
           thread[m] = "none" /\ invocations[m] = 0 /\ retries[m] = Absent
    BY DEF WorkerInit
  <2> QED BY <2>2, <2>3, <2>4, <2>5 DEF AttemptInv, AttemptOf, Working
<1> QED BY <1>1, <1>3, <1>5, <1>6, <1>7, <1>8, <1>9 DEF WorkerInv

\* Messages stay where they are when the variables that say so do.
LEMMA PlacedFrame ==
    ASSUME WorkerInv, UNCHANGED <<acked, next, channel, held, routed>>
    PROVE  PlacedInv'
  BY DEF WorkerInv, PlacedInv, PlacedAt, Front

\* A worker that stops keeps the bounds of its message, and so does one that
\* does not move.
LEMMA StopAttempt ==
    ASSUME WorkerInv,
           UNCHANGED <<next, channel, held, retries, thread, invocations>>,
           \A p \in Partitions : worker'[p] \in {worker[p], "stopped"}
    PROVE  AttemptInv'
<1>1. \A m \in Messages : m[1] \in Partitions
  BY DEF Messages
<1>2. \A m \in Messages :
         /\ Working(m, {"processing", "sleeping"})'
               => Working(m, {"processing", "sleeping"})
         /\ Working(m, {"invoking"})' => Working(m, {"invoking"})
  BY <1>1 DEF Working
<1>3. \A m \in Messages : Begun(m)' = Begun(m) /\ Front(m[1])' = Front(m[1])
  BY DEF Begun, Front
<1> QED BY <1>2, <1>3 DEF WorkerInv, AttemptInv, AttemptOf

\* The dead-letter channel keeps to its capacity: a message that finds it
\* full is dropped.
LEMMA ProduceBounded ==
    ASSUME WorkerTypeOK, NEW m \in Messages, produce_async(m)
    PROVE  dlq_channel' \in Seq(Messages) /\ Len(dlq_channel') <= DlqCapacity
<1>1. dlq_channel \in Seq(Messages) /\ Len(dlq_channel) <= DlqCapacity
  BY DEF WorkerTypeOK
<1>2. CASE Len(dlq_channel) < DlqCapacity
  <2>1. dlq_channel' = Append(dlq_channel, m)
    BY <1>2 DEF produce_async
  <2> QED BY <1>1, <1>2, <2>1, DlqCapacityAssumption
<1>3. CASE ~ (Len(dlq_channel) < DlqCapacity)
  BY <1>1, <1>3 DEF produce_async
<1> QED BY <1>2, <1>3

\* Steps of the pool, of the dead-letter task and of nobody.
LEMMA QuietKeeps ==
    ASSUME WorkerInv,
           UNCHANGED <<trackerVars, queueVars, workerVars>>,
           dlq_channel' \in Seq(Messages), Len(dlq_channel') <= DlqCapacity,
           cancelled' \in BOOLEAN, pool' \in {"run", "flush", "stopped"},
           flushing' \in SUBSET Messages
    PROVE  WorkerInv'
<1>1. UNCHANGED <<registered, partitions, acked, base, next, channel, inflight,
                  worker, held, retries, permits, thread, invocations, routed>>
  BY DEF trackerVars, queueVars, workerVars, callVars
<1>2. IInv' /\ TypeOK'
  BY <1>1 DEF WorkerInv, IInv, TypeOK
<1>3. Running' = Running
  BY <1>1 DEF Running
<1>4. WorkerTypeOK'
  BY <1>1, <1>2, <1>3 DEF WorkerInv, WorkerTypeOK
<1>5. PlacedInv' /\ AttemptInv'
  BY <1>1, PlacedFrame, StopAttempt
<1>6. QueueAccounting' /\ StageInv'
  BY <1>1 DEF WorkerInv, QueueAccounting, StageInv
<1> QED BY <1>2, <1>3, <1>4, <1>5, <1>6 DEF WorkerInv

\* A worker stops: at its select, in its retry sleep or aborted by the pool.
LEMMA StopKeeps ==
    ASSUME WorkerInv,
           UNCHANGED <<trackerVars, queueVars, held, retries, thread,
                       invocations, routed>>,
           worker' \in [Partitions -> {"idle", "processing", "invoking",
                                       "sleeping", "stopped"}],
           permits' \in [Partitions -> 0 .. Concurrency],
           \A p \in Partitions :
              \/ worker'[p] = "stopped" /\ permits'[p] = Concurrency
              \/ worker'[p] = worker[p] /\ permits'[p] = permits[p],
           dlq_channel' = dlq_channel,
           cancelled' \in BOOLEAN, pool' \in {"run", "flush", "stopped"},
           flushing' \in SUBSET Messages
    PROVE  WorkerInv'
<1>1. UNCHANGED <<registered, partitions, acked, base, next, channel, inflight,
                  held, retries, thread, invocations, routed>>
  BY DEF trackerVars, queueVars
<1>2. IInv' /\ TypeOK'
  BY <1>1 DEF WorkerInv, IInv, TypeOK
<1>3. Running' = Running
  BY <1>1 DEF Running
<1>4. WorkerTypeOK'
  BY <1>1, <1>2, <1>3 DEF WorkerInv, WorkerTypeOK
<1>5. PlacedInv' /\ AttemptInv'
  BY <1>1, PlacedFrame, StopAttempt
<1>6. QueueAccounting'
  BY <1>1 DEF WorkerInv, QueueAccounting
<1>7. StageInv'
  BY <1>1 DEF WorkerInv, StageInv
<1> QED BY <1>2, <1>3, <1>4, <1>5, <1>6, <1>7 DEF WorkerInv
-----------------------------------------------------------------------------
\* Facts about one topic that every step on it uses.
LEMMA TopicFacts ==
    ASSUME WorkerInv, NEW p \in Partitions
    PROVE  /\ next[p] \in 0 .. MaxOffset + 1 /\ Len(channel[p]) \in Nat
           /\ channel[p] \in Seq(Offsets)
           /\ held[p] \in -1 .. MaxOffset /\ inflight[p] \in 0 .. MaxOffset + 1
           /\ Front(p) \in 0 .. MaxOffset + 1
           /\ held[p] # NoMessage =>
                 held[p] \in Offsets /\ <<p, held[p]>> \in Messages
           /\ permits[p] \in 0 .. Concurrency
<1>1. /\ next[p] \in 0 .. MaxOffset + 1 /\ channel[p] \in Seq(Offsets)
      /\ held[p] \in Offsets \cup {-1} /\ permits[p] \in 0 .. Concurrency
      /\ Len(channel[p]) <= next[p] /\ inflight[p] \in 0 .. MaxOffset + 1
  BY DEF WorkerInv, WorkerTypeOK, PlacedInv, PlacedAt, NoMessage
<1>2. Len(channel[p]) \in Nat
  BY <1>1
<1>3. Front(p) \in 0 .. MaxOffset + 1
  BY <1>1, <1>2, MaxOffsetAssumption DEF Front
<1>4. held[p] \in -1 .. MaxOffset
  BY <1>1, MaxOffsetAssumption DEF Offsets
<1> QED BY <1>1, <1>2, <1>3, <1>4 DEF Messages, NoMessage

\* The dispatcher appends the next offset.
LEMMA DispatchKeeps ==
    ASSUME WorkerInv, NEW p \in Partitions, Dispatch(p)
    PROVE  WorkerInv'
<1> DEFINE c == Append(channel[p], next[p])
<1>1. /\ next[p] < Arrivals[p]
      /\ channel' = [channel EXCEPT ![p] = c]
      /\ inflight' = [inflight EXCEPT ![p] = inflight[p] + 1]
      /\ next' = [next EXCEPT ![p] = next[p] + 1]
      /\ UNCHANGED <<trackerVars, worker, held, retries, permits, thread,
                     invocations, routed, dlq_channel, cancelled, pool, flushing>>
  BY DEF Dispatch, workerVars, callVars, poolVars
<1>2. /\ next[p] \in Offsets /\ Len(channel[p]) \in Nat
      /\ channel[p] \in Seq(Offsets) /\ Front(p) \in 0 .. MaxOffset + 1
      /\ held[p] \in -1 .. MaxOffset
  <2>1. /\ next[p] \in 0 .. MaxOffset + 1 /\ Len(channel[p]) \in Nat
        /\ channel[p] \in Seq(Offsets) /\ Front(p) \in 0 .. MaxOffset + 1
        /\ held[p] \in -1 .. MaxOffset
    BY TopicFacts
  <2>2. next[p] \in Offsets
    BY <1>1, <2>1, ArrivalsAssumption, MaxOffsetAssumption DEF Offsets
  <2> QED BY <2>1, <2>2
<1>3. /\ c \in Seq(Offsets) /\ Len(c) = Len(channel[p]) + 1
      /\ \A i \in 1 .. Len(c) :
            c[i] = IF i = Len(channel[p]) + 1 THEN next[p] ELSE channel[p][i]
  BY <1>2
<1> HIDE DEF c
<1>4. /\ channel'[p] = c /\ next'[p] = next[p] + 1
      /\ \A q \in Partitions \ {p} : channel'[q] = channel[q] /\ next'[q] = next[q]
      /\ \A q \in Partitions :
            inflight'[q] = IF q = p THEN inflight[p] + 1 ELSE inflight[q]
  BY <1>1 DEF WorkerInv, WorkerTypeOK
<1>5. \A q \in Partitions : next'[q] - Len(channel'[q]) = Front(q)
  <2>1. (next[p] + 1) - Len(c) = Front(p)
    BY <1>2, <1>3 DEF Front, Offsets
  <2> QED BY <1>4, <2>1 DEF Front
<1>6. IInv' /\ TypeOK'
  BY <1>1 DEF WorkerInv, IInv, TypeOK, trackerVars
<1>7. PlacedInv'
  <2>1. \A q \in Partitions :
           /\ Len(channel'[q]) <= next'[q]
           /\ \A i \in 1 .. Len(channel'[q]) : channel'[q][i] = Front(q) + i - 1
    <3>1. /\ Len(channel[p]) <= next[p]
          /\ \A i \in 1 .. Len(channel[p]) : channel[p][i] = Front(p) + i - 1
      BY DEF WorkerInv, PlacedInv, PlacedAt
    <3>2. \A i \in 1 .. Len(c) :
             i \in 1 .. Len(channel[p]) \/ i = Len(channel[p]) + 1
      BY <1>2, <1>3
    <3>3. next[p] = Front(p) + (Len(channel[p]) + 1) - 1
      BY <1>2 DEF Front, Offsets
    <3>4. \A i \in 1 .. Len(c) : c[i] = Front(p) + i - 1
      BY <1>2, <1>3, <3>1, <3>2, <3>3
    <3>5. Len(c) <= next[p] + 1
      BY <1>2, <1>3, <3>1 DEF Offsets
    <3> QED BY <1>4, <3>4, <3>5 DEF WorkerInv, PlacedInv, PlacedAt
  <2>2. UNCHANGED <<held, acked, routed>>
    BY <1>1 DEF trackerVars
  <2> QED BY <1>5, <2>1, <2>2 DEF WorkerInv, PlacedInv, PlacedAt, Front
<1>8. QueueAccounting' /\ inflight'[p] <= MaxOffset + 1
  <2>1. inflight[p] = Len(channel[p]) + (IF held[p] = NoMessage THEN 0 ELSE 1)
    BY DEF WorkerInv, QueueAccounting
  <2>2. inflight[p] <= next[p]
    <3>1. CASE held[p] = NoMessage
      BY <1>2, <2>1, <3>1 DEF WorkerInv, PlacedInv, PlacedAt, Offsets
    <3>2. CASE held[p] # NoMessage
      <4>1. held[p] = Front(p) - 1 /\ 0 <= held[p]
        BY <1>2, <3>2 DEF WorkerInv, PlacedInv, PlacedAt, NoMessage
      <4> QED BY <1>2, <2>1, <3>2, <4>1 DEF Front, Offsets
    <3> QED BY <3>1, <3>2
  <2> DEFINE k == IF held[p] = NoMessage THEN 0 ELSE 1
  <2>3. inflight'[p] = Len(c) + k
    <3>1. k \in Nat
      OBVIOUS
    <3>2. inflight[p] = Len(channel[p]) + k
      BY <2>1
    <3> HIDE DEF k
    <3> QED BY <1>2, <1>3, <1>4, <3>1, <3>2
  <2>4. QueueAccounting'
    <3> SUFFICES ASSUME NEW q \in Partitions
                 PROVE  inflight'[q] = Len(channel'[q])
                                       + (IF held[q] = NoMessage THEN 0 ELSE 1)
      BY <1>1 DEF QueueAccounting
    <3>1. CASE q = p
      BY <1>4, <2>3, <3>1
    <3>2. CASE q # p
      BY <1>4, <3>2 DEF WorkerInv, QueueAccounting
    <3> QED BY <3>1, <3>2
  <2>5. inflight[p] \in Int
    <3>1. inflight[p] \in 0 .. MaxOffset + 1
      BY TopicFacts
    <3> QED BY <3>1
  <2> QED BY <1>2, <1>4, <2>2, <2>4, <2>5, MaxOffsetAssumption DEF Offsets
<1>9. WorkerTypeOK'
  <2>1. /\ next' \in [Partitions -> 0 .. MaxOffset + 1]
        /\ channel' \in [Partitions -> Seq(Offsets)]
    BY <1>1, <1>2, <1>3, MaxOffsetAssumption
       DEF WorkerInv, WorkerTypeOK, Offsets
  <2>2. inflight' \in [Partitions -> 0 .. MaxOffset + 1]
    BY <1>1, <1>4, <1>8, TopicFacts, MaxOffsetAssumption
       DEF WorkerInv, WorkerTypeOK
  <2>3. Running' = Running
    BY <1>1 DEF Running
  <2> QED BY <1>1, <1>6, <2>1, <2>2, <2>3 DEF WorkerInv, WorkerTypeOK
<1>10. StageInv' /\ IsFiniteSet(Running')
  BY <1>1 DEF WorkerInv, StageInv, Running
<1>11. AttemptInv'
  <2>1. \A m \in Messages :
           /\ m[1] \in Partitions
           /\ Begun(m)' = Begun(m) /\ Front(m[1])' = Front(m[1])
           /\ Working(m, {"processing", "sleeping"})'
                <=> Working(m, {"processing", "sleeping"})
           /\ Working(m, {"invoking"})' <=> Working(m, {"invoking"})
    BY <1>1, <1>5 DEF Messages, Begun, Front, Working
  <2> QED BY <1>1, <2>1 DEF WorkerInv, AttemptInv, AttemptOf
<1> QED BY <1>6, <1>7, <1>8, <1>9, <1>10, <1>11 DEF WorkerInv

\* An idle worker takes the head of its channel, which nobody has touched.
LEMMA PollKeeps ==
    ASSUME WorkerInv, NEW p \in Partitions, poll_for_work(p)
    PROVE  WorkerInv'
<1> DEFINE h == Head(channel[p])
           c == Tail(channel[p])
<1>1. /\ worker[p] = "idle" /\ channel[p] # <<>>
      /\ worker' = [worker EXCEPT ![p] = "processing"]
      /\ held' = [held EXCEPT ![p] = h]
      /\ channel' = [channel EXCEPT ![p] = c]
      /\ UNCHANGED <<trackerVars, next, inflight, retries, permits, thread,
                     invocations, routed, dlq_channel, cancelled, pool, flushing>>
  BY DEF poll_for_work, callVars, poolVars
<1>2. /\ channel[p] \in Seq(Offsets) /\ next[p] \in 0 .. MaxOffset + 1
      /\ Front(p) \in 0 .. MaxOffset + 1 /\ held[p] = NoMessage
      /\ Len(channel[p]) <= next[p]
      /\ \A i \in 1 .. Len(channel[p]) : channel[p][i] = Front(p) + i - 1
  BY <1>1, TopicFacts DEF WorkerInv, StageInv, PlacedInv, PlacedAt
<1>3. /\ Len(channel[p]) \in Nat \ {0} /\ h = channel[p][1] /\ h \in Offsets
      /\ c \in Seq(Offsets) /\ Len(c) = Len(channel[p]) - 1
      /\ \A i \in 1 .. Len(c) : c[i] = channel[p][i + 1]
  BY <1>1, <1>2
<1> HIDE DEF c, h
<1>4. /\ h = Front(p) /\ next[p] - Len(c) = Front(p) + 1 /\ Len(c) <= next[p]
      /\ \A i \in 1 .. Len(c) : c[i] = (Front(p) + 1) + i - 1
  <2>1. 1 \in 1 .. Len(channel[p])
    BY <1>3
  <2>2. \A i \in 1 .. Len(c) : i + 1 \in 1 .. Len(channel[p])
    BY <1>3
  <2>3. h = Front(p) + 1 - 1
    BY <1>2, <1>3, <2>1
  <2>4. \A i \in 1 .. Len(c) : c[i] = Front(p) + (i + 1) - 1
    BY <1>2, <1>3, <2>2
  <2> QED BY <1>2, <1>3, <2>3, <2>4 DEF Front
<1>5. /\ channel'[p] = c /\ held'[p] = h /\ worker'[p] = "processing"
      /\ \A q \in Partitions \ {p} :
            /\ channel'[q] = channel[q] /\ held'[q] = held[q]
            /\ worker'[q] = worker[q]
  BY <1>1 DEF WorkerInv, WorkerTypeOK
<1>6. IInv' /\ TypeOK'
  BY <1>1 DEF WorkerInv, IInv, TypeOK, trackerVars
<1>7. WorkerTypeOK' /\ IsFiniteSet(Running')
  <2>1. /\ channel' \in [Partitions -> Seq(Offsets)]
        /\ held' \in [Partitions -> Offsets \cup {NoMessage}]
    BY <1>1, <1>3 DEF WorkerInv, WorkerTypeOK
  <2>2. worker' \in [Partitions -> {"idle", "processing", "invoking",
                                    "sleeping", "stopped"}]
    BY <1>1 DEF WorkerInv, WorkerTypeOK
  <2>3. Running' = Running
    BY <1>1 DEF Running
  <2> QED BY <1>1, <1>6, <2>1, <2>2, <2>3 DEF WorkerInv, WorkerTypeOK
<1>8. /\ Front(p)' = Front(p) + 1
      /\ \A q \in Partitions \ {p} : Front(q)' = Front(q)
  BY <1>1, <1>4, <1>5 DEF Front
<1>9. h # NoMessage
  BY <1>3 DEF Offsets, NoMessage
<1>10. QueueAccounting'
  <2>1. inflight[p] = Len(channel[p]) + 0
    BY <1>2 DEF WorkerInv, QueueAccounting
  <2>2. inflight[p] = Len(c) + 1
    BY <1>3, <2>1
  <2> QED BY <1>1, <1>5, <1>9, <2>2 DEF WorkerInv, QueueAccounting
<1>11. StageInv'
  BY <1>1, <1>5, <1>9 DEF WorkerInv, StageInv
<1>12. PlacedInv'
  <2>1. UNCHANGED <<acked, routed>>
    BY <1>1 DEF trackerVars
  <2>2. \A o \in Offsets :
           /\ o < Front(p) + 1 <=> \/ o = h \/ o \in acked[p]
                                   \/ <<p, o>> \in routed
           /\ o = h => o \notin acked[p] /\ <<p, o>> \notin routed
           /\ ~ (o \in acked[p] /\ <<p, o>> \in routed)
    <3>1. \A o \in Offsets :
             /\ o < Front(p) <=> o \in acked[p] \/ <<p, o>> \in routed
             /\ ~ (o \in acked[p] /\ <<p, o>> \in routed)
      BY <1>2 DEF WorkerInv, PlacedInv, PlacedAt, NoMessage, Offsets
    <3>2. \A o \in Offsets : o < Front(p) + 1 <=> o < Front(p) \/ o = h
      BY <1>2, <1>4 DEF Offsets
    <3>3. ~ (h < Front(p))
      BY <1>2, <1>4
    <3> QED BY <3>1, <3>2, <3>3
  <2>3. h = (Front(p) + 1) - 1
    BY <1>2, <1>4
  <2> SUFFICES ASSUME NEW q \in Partitions PROVE PlacedAt(q)'
    BY DEF PlacedInv, PlacedAt
  <2>4. CASE q = p
    BY <1>1, <1>4, <1>5, <1>8, <2>1, <2>2, <2>3, <2>4 DEF PlacedAt
  <2>5. CASE q # p
    BY <1>1, <1>5, <1>8, <2>1, <2>5 DEF WorkerInv, PlacedInv, PlacedAt
  <2> QED BY <2>4, <2>5
<1>13. AttemptInv'
  <2> SUFFICES ASSUME NEW m \in Messages PROVE AttemptOf(m)'
    BY DEF AttemptInv, AttemptOf
  <2>1. /\ m[1] \in Partitions /\ m[2] \in Offsets
        /\ UNCHANGED <<thread, invocations, retries>>
    BY <1>1 DEF Messages
  <2>2. Begun(m)' = Begun(m)
    BY <2>1 DEF Begun
  <2>3. CASE m[1] # p
    BY <1>5, <1>8, <2>1, <2>2, <2>3 DEF WorkerInv, AttemptInv, AttemptOf, Working
  <2>4. CASE m[1] = p /\ m[2] # h
    <3>1. ~ Working(m, {"processing", "sleeping"})' /\ ~ Working(m, {"invoking"})'
      BY <1>5, <2>4 DEF Working
    <3>2. m[2] >= Front(p) + 1 => m[2] >= Front(p)
      BY <1>2, <2>1 DEF Offsets
    <3> QED BY <1>8, <2>1, <2>2, <2>4, <3>1, <3>2
            DEF WorkerInv, AttemptInv, AttemptOf
  <2>5. CASE m[1] = p /\ m[2] = h
    <3>1. thread[m] = "none" /\ invocations[m] = 0 /\ retries[m] = 0
      BY <1>2, <1>4, <2>5 DEF WorkerInv, AttemptInv, AttemptOf, Absent
    <3>2. 0 < AttemptLimit
      BY MaxAttemptsAssumption DEF AttemptLimit
    <3>3. ~ (m[2] >= Front(p) + 1) /\ ~ Working(m, {"invoking"})'
      BY <1>2, <1>4, <1>5, <2>5 DEF Working
    <3> QED BY <1>8, <2>1, <2>2, <2>5, <3>1, <3>2, <3>3
            DEF WorkerInv, AttemptInv, AttemptOf
  <2> QED BY <2>3, <2>4, <2>5
<1> QED BY <1>6, <1>7, <1>10, <1>11, <1>12, <1>13 DEF WorkerInv
-----------------------------------------------------------------------------
\* A step on a handler's thread, or of a worker that keeps its message,
\* moves no message.
LEMMA UnmovedKeeps ==
    ASSUME WorkerInv,
           UNCHANGED <<trackerVars, queueVars, held, routed>>
    PROVE  IInv' /\ TypeOK' /\ QueueAccounting' /\ PlacedInv'
<1>1. UNCHANGED <<registered, partitions, acked, base, next, channel, inflight,
                  held, routed>>
  BY DEF trackerVars, queueVars
<1>2. IInv' /\ TypeOK'
  BY <1>1 DEF WorkerInv, IInv, TypeOK
<1>3. QueueAccounting'
  BY <1>1 DEF WorkerInv, QueueAccounting
<1> QED BY <1>1, <1>2, <1>3, PlacedFrame

\* A worker takes a permit and hands its message to the blocking pool: the
\* next run is the one after those the coordinator counted.
LEMMA InvokeKeeps ==
    ASSUME WorkerInv, NEW p \in Partitions, Invoke(p)
    PROVE  WorkerInv'
<1> DEFINE h == <<p, held[p]>>
<1>1. /\ worker[p] = "processing" /\ permits[p] > 0
      /\ permits' = [permits EXCEPT ![p] = permits[p] - 1]
      /\ thread' = [thread EXCEPT ![h] = "queued"]
      /\ worker' = [worker EXCEPT ![p] = "invoking"]
      /\ UNCHANGED <<trackerVars, queueVars, held, retries, invocations, routed,
                     dlq_channel, cancelled, pool, flushing>>
  BY DEF Invoke, poolVars
<1>2. held[p] # NoMessage /\ permits[p] = Concurrency
  BY <1>1 DEF WorkerInv, StageInv
<1>3. h \in Messages /\ permits[p] \in 0 .. Concurrency
  BY <1>2, TopicFacts
<1>4. /\ thread[h] = "none" /\ invocations[h] = retries[h]
      /\ 0 <= retries[h] /\ retries[h] < AttemptLimit
  BY <1>1, <1>3 DEF WorkerInv, AttemptInv, AttemptOf, Working
<1>5. /\ \A m \in Messages :
            thread'[m] = IF m = h THEN "queued" ELSE thread[m]
      /\ \A q \in Partitions :
            /\ worker'[q] = IF q = p THEN "invoking" ELSE worker[q]
            /\ permits'[q] = IF q = p THEN Concurrency - 1 ELSE permits[q]
  BY <1>1, <1>2 DEF WorkerInv, WorkerTypeOK
<1>6. IInv' /\ TypeOK' /\ QueueAccounting' /\ PlacedInv'
  BY <1>1, UnmovedKeeps
<1>7. Running' = Running
  BY <1>4, <1>5 DEF Running
<1>8. WorkerTypeOK'
  <2>1. permits' \in [Partitions -> 0 .. Concurrency]
    <3>1. permits[p] - 1 \in 0 .. Concurrency
      BY <1>1, <1>3, ConcurrencyAssumption
    <3> QED BY <1>1, <3>1 DEF WorkerInv, WorkerTypeOK
  <2>2. /\ thread' \in [Messages -> {"none", "queued", "running"}]
        /\ worker' \in [Partitions -> {"idle", "processing", "invoking",
                                       "sleeping", "stopped"}]
    BY <1>1 DEF WorkerInv, WorkerTypeOK
  <2>3. UNCHANGED <<next, channel, inflight>>
    BY <1>1 DEF queueVars
  <2> QED BY <1>1, <1>6, <1>7, <2>1, <2>2, <2>3 DEF WorkerInv, WorkerTypeOK
<1>9. StageInv'
  BY <1>1, <1>2, <1>5 DEF WorkerInv, StageInv
<1>10. AttemptInv'
  <2> SUFFICES ASSUME NEW m \in Messages PROVE AttemptOf(m)'
    BY DEF AttemptInv
  <2>1. /\ m[1] \in Partitions /\ m[2] \in Offsets /\ m = <<m[1], m[2]>>
        /\ UNCHANGED <<next, channel, held, retries, invocations>>
    BY <1>1 DEF Messages, queueVars
  <2>2. Front(m[1])' = Front(m[1])
    BY <2>1 DEF Front
  <2>3. CASE m = h
    <3>1. m[1] = p /\ thread'[m] = "queued" /\ worker'[m[1]] = "invoking"
      BY <1>5, <2>1, <2>3
    <3>2. invocations[m] \in Nat /\ retries[m] \in Int /\ AttemptLimit \in Nat
      BY MaxAttemptsAssumption
         DEF WorkerInv, WorkerTypeOK, RetryStates, AttemptLimit
    <3>3. Begun(m)' = retries[m] + 1 /\ Begun(m)' <= AttemptLimit
      BY <1>4, <2>1, <2>3, <3>1, <3>2 DEF Begun
    <3>4. ~ (m[2] >= Front(m[1]))
      BY <1>2, <2>3, <3>1, TopicFacts, MaxOffsetAssumption
         DEF WorkerInv, PlacedInv, PlacedAt
    <3> QED BY <1>4, <2>1, <2>2, <2>3, <3>1, <3>3, <3>4 DEF AttemptOf, Working
  <2>4. CASE m # h
    <3>1. thread'[m] = thread[m] /\ Begun(m)' = Begun(m)
      BY <1>5, <2>1, <2>4 DEF Begun
    <3>2. held[m[1]] = m[2] => m[1] # p
      BY <2>1, <2>4
    <3>3. held[m[1]] = m[2] => worker'[m[1]] = worker[m[1]]
      BY <1>5, <2>1, <3>2
    <3> QED BY <2>1, <2>2, <3>1, <3>3
            DEF WorkerInv, AttemptInv, AttemptOf, Working
  <2> QED BY <2>3, <2>4
<1> QED BY <1>6, <1>7, <1>8, <1>9, <1>10 DEF WorkerInv

\* A thread of the pool starts or leaves a handler: the runs that have begun
\* or will begin stay the same.
LEMMA ThreadKeeps ==
    ASSUME WorkerInv, NEW m \in Messages, ThreadStarts(m) \/ LateReturn(m)
    PROVE  WorkerInv'
<1>1. /\ UNCHANGED <<trackerVars, queueVars, worker, held, retries, permits,
                     routed, dlq_channel, cancelled, pool, flushing>>
      /\ UNCHANGED <<next, channel, inflight>>
  BY DEF ThreadStarts, LateReturn, poolVars, queueVars
<1>2. IInv' /\ TypeOK' /\ QueueAccounting' /\ PlacedInv'
  BY <1>1, UnmovedKeeps
<1>3. StageInv'
  BY <1>1 DEF WorkerInv, StageInv
<1>4. /\ thread \in [Messages -> {"none", "queued", "running"}]
      /\ invocations \in [Messages -> Nat]
      /\ IsFiniteSet(Running) /\ Cardinality(Running) <= BlockingThreads
      /\ Cardinality(Running) \in Nat
  BY FS_CardinalityType DEF WorkerInv, WorkerTypeOK
<1>5. /\ thread' \in [Messages -> {"none", "queued", "running"}]
      /\ invocations' \in [Messages -> Nat]
      /\ thread[m] # "none" /\ thread'[m] \in {"none", "running"}
      /\ \A n \in Messages \ {m} :
            thread'[n] = thread[n] /\ invocations'[n] = invocations[n]
      /\ invocations'[m] = Begun(m)
  BY <1>4 DEF ThreadStarts, LateReturn, Begun
<1>6. IsFiniteSet(Running') /\ Cardinality(Running') <= BlockingThreads
  <2>1. CASE ThreadStarts(m)
    <3>1. m \notin Running /\ Cardinality(Running) < BlockingThreads
      BY <2>1 DEF ThreadStarts, Running
    <3>2. Running' = Running \cup {m}
      BY <1>4, <2>1 DEF ThreadStarts, Running
    <3>3. /\ IsFiniteSet(Running \cup {m})
          /\ Cardinality(Running \cup {m}) = Cardinality(Running) + 1
      BY <1>4, <3>1, FS_AddElement
    <3> QED BY <1>4, <3>1, <3>2, <3>3, BlockingThreadsAssumption
  <2>2. CASE LateReturn(m)
    <3>1. Running' = Running \ {m} /\ m \in Running
      BY <1>4, <2>2 DEF LateReturn, Running
    <3>2. /\ IsFiniteSet(Running \ {m})
          /\ Cardinality(Running \ {m}) = Cardinality(Running) - 1
      BY <1>4, <3>1, FS_RemoveElement
    <3> QED BY <1>4, <3>1, <3>2, BlockingThreadsAssumption
  <2> QED BY <2>1, <2>2
<1>7. WorkerTypeOK'
  BY <1>1, <1>2, <1>5, <1>6 DEF WorkerInv, WorkerTypeOK
<1>8. AttemptInv'
  <2> SUFFICES ASSUME NEW n \in Messages PROVE AttemptOf(n)'
    BY DEF AttemptInv
  <2>1. /\ Front(n[1])' = Front(n[1])
        /\ Working(n, {"processing", "sleeping"})'
              <=> Working(n, {"processing", "sleeping"})
        /\ Working(n, {"invoking"})' <=> Working(n, {"invoking"})
    BY <1>1 DEF Front, Working
  <2>2. CASE n = m
    <3>1. Begun(m)' = Begun(m)
      BY <1>4, <1>5 DEF Begun
    <3>2. ~ (n[2] >= Front(n[1])) /\ ~ Working(n, {"processing", "sleeping"})
      BY <1>5, <2>2 DEF WorkerInv, AttemptInv, AttemptOf
    <3> QED BY <1>1, <2>1, <2>2, <3>1, <3>2 DEF WorkerInv, AttemptInv, AttemptOf
  <2>3. CASE n # m
    <3>1. Begun(n)' = Begun(n)
      BY <1>5, <2>3 DEF Begun
    <3> QED BY <1>1, <1>5, <2>1, <2>3, <3>1 DEF WorkerInv, AttemptInv, AttemptOf
  <2> QED BY <2>2, <2>3
<1> QED BY <1>2, <1>3, <1>6, <1>7, <1>8 DEF WorkerInv

\* The retry sleep ends; the permit is given back until the next acquire.
LEMMA WakeKeeps ==
    ASSUME WorkerInv, NEW p \in Partitions, RetryWakes(p)
    PROVE  WorkerInv'
<1>1. /\ worker[p] = "sleeping"
      /\ worker' = [worker EXCEPT ![p] = "processing"]
      /\ permits' = [permits EXCEPT ![p] = permits[p] + 1]
      /\ UNCHANGED <<trackerVars, queueVars, held, retries, thread, invocations,
                     routed, dlq_channel, cancelled, pool, flushing>>
      /\ UNCHANGED <<next, channel, inflight>>
  BY DEF RetryWakes, release, poolVars, queueVars
<1>2. held[p] # NoMessage /\ permits[p] = Concurrency - 1
  BY <1>1 DEF WorkerInv, StageInv
<1>3. \A q \in Partitions :
         /\ worker'[q] = IF q = p THEN "processing" ELSE worker[q]
         /\ permits'[q] = IF q = p THEN Concurrency ELSE permits[q]
  BY <1>1, <1>2, ConcurrencyAssumption DEF WorkerInv, WorkerTypeOK
<1>4. IInv' /\ TypeOK' /\ QueueAccounting' /\ PlacedInv'
  BY <1>1, UnmovedKeeps
<1>5. Running' = Running
  BY <1>1 DEF Running
<1>6. WorkerTypeOK'
  <2>1. permits' \in [Partitions -> 0 .. Concurrency]
    BY <1>1, <1>2, ConcurrencyAssumption DEF WorkerInv, WorkerTypeOK
  <2>2. worker' \in [Partitions -> {"idle", "processing", "invoking",
                                    "sleeping", "stopped"}]
    BY <1>1 DEF WorkerInv, WorkerTypeOK
  <2> QED BY <1>1, <1>4, <1>5, <2>1, <2>2 DEF WorkerInv, WorkerTypeOK
<1>7. StageInv'
  BY <1>1, <1>2, <1>3 DEF WorkerInv, StageInv
<1>8. AttemptInv'
  <2>1. \A m \in Messages :
           /\ m[1] \in Partitions
           /\ Begun(m)' = Begun(m) /\ Front(m[1])' = Front(m[1])
    BY <1>1 DEF Messages, Begun, Front
  <2>2. \A m \in Messages :
           /\ Working(m, {"processing", "sleeping"})'
                <=> Working(m, {"processing", "sleeping"})
           /\ Working(m, {"invoking"})' <=> Working(m, {"invoking"})
    BY <1>1, <1>3, <2>1 DEF Working
  <2> QED BY <1>1, <2>1, <2>2 DEF WorkerInv, AttemptInv, AttemptOf
<1> QED BY <1>4, <1>5, <1>6, <1>7, <1>8 DEF WorkerInv
-----------------------------------------------------------------------------
\* The coordinator's decision: a retry is counted and stays below the limit.
LEMMA RetryDecision ==
    ASSUME NEW r \in RetryStates, NEW category \in Categories
    PROVE  /\ record_failure(r, category).state \in RetryStates
           /\ record_failure(r, category).retry \in BOOLEAN
           /\ record_failure(r, category).retry =>
                 /\ category = "Retryable"
                 /\ record_failure(r, category).state = r + 1
                 /\ r + 1 < MaxAttempts
<1>1. r \in Int /\ -1 <= r /\ r <= MaxAttempts
  BY MaxAttemptsAssumption DEF RetryStates
<1>2. CASE category # "Retryable" \/ r = Exhausted
  BY <1>2 DEF record_failure
<1>3. CASE ~ (category # "Retryable" \/ r = Exhausted) /\ r + 1 >= MaxAttempts
  BY <1>3, MaxAttemptsAssumption DEF record_failure, RetryStates, Exhausted
<1>4. CASE ~ (category # "Retryable" \/ r = Exhausted) /\ ~ (r + 1 >= MaxAttempts)
  <2>1. record_failure(r, category) = [state |-> r + 1, retry |-> TRUE]
    BY <1>4 DEF record_failure
  <2>2. r + 1 \in RetryStates /\ r + 1 < MaxAttempts
    BY <1>1, <1>4, MaxAttemptsAssumption DEF RetryStates
  <2> QED BY <1>4, <2>1, <2>2
<1> QED BY <1>2, <1>3, <1>4

\* The message a worker waits for has been counted once more than before.
LEMMA InvokingFacts ==
    ASSUME WorkerInv, NEW p \in Partitions, worker[p] = "invoking"
    PROVE  /\ held[p] \in Offsets /\ <<p, held[p]>> \in Messages
           /\ held[p] # NoMessage /\ held[p] = Front(p) - 1
           /\ held[p] \notin acked[p] /\ <<p, held[p]>> \notin routed
           /\ Begun(<<p, held[p]>>) = retries[<<p, held[p]>>] + 1
           /\ permits[p] = Concurrency - 1
           /\ inflight[p] = Len(channel[p]) + 1
<1>1. held[p] # NoMessage /\ permits[p] = Concurrency - 1
  BY DEF WorkerInv, StageInv
<1>2. held[p] \in Offsets /\ <<p, held[p]>> \in Messages
  BY <1>1, TopicFacts
<1>3. /\ held[p] = Front(p) - 1
      /\ held[p] \notin acked[p] /\ <<p, held[p]>> \notin routed
  BY <1>1, <1>2 DEF WorkerInv, PlacedInv, PlacedAt
<1>4. Begun(<<p, held[p]>>) = retries[<<p, held[p]>>] + 1
  BY <1>2 DEF WorkerInv, AttemptInv, AttemptOf, Working
<1>5. inflight[p] = Len(channel[p]) + 1
  BY <1>1 DEF WorkerInv, QueueAccounting
<1> QED BY <1>1, <1>2, <1>3, <1>4, <1>5

\* A settled message is acked or routed, and counted down once.
LEMMA SettleMoves ==
    ASSUME WorkerInv, NEW p \in Partitions, worker[p] = "invoking",
           held' = [held EXCEPT ![p] = NoMessage], queue_ack(p),
           UNCHANGED <<next, channel>>,
           \/ /\ acked' = [acked EXCEPT ![p] = @ \cup {held[p]}]
              /\ routed' = routed
           \/ /\ acked' = acked
              /\ routed' = routed \cup {<<p, held[p]>>}
    PROVE  /\ PlacedInv' /\ QueueAccounting'
           /\ inflight' \in [Partitions -> 0 .. MaxOffset + 1]
<1>1. /\ held[p] \in Offsets /\ <<p, held[p]>> \in Messages
      /\ held[p] = Front(p) - 1 /\ inflight[p] = Len(channel[p]) + 1
      /\ held[p] \notin acked[p] /\ <<p, held[p]>> \notin routed
  BY InvokingFacts
<1>2. /\ Len(channel[p]) \in Nat /\ Front(p) \in 0 .. MaxOffset + 1
      /\ inflight[p] \in 0 .. MaxOffset + 1
  BY TopicFacts
<1>3. \A q \in Partitions :
         /\ held'[q] = IF q = p THEN NoMessage ELSE held[q]
         /\ inflight'[q] = IF q = p THEN Len(channel[p]) ELSE inflight[q]
         /\ Front(q)' = Front(q)
  BY <1>1, <1>2 DEF WorkerInv, WorkerTypeOK, queue_ack, Front
<1>4. \A q \in Partitions : \A o \in Offsets :
         /\ q # p => /\ o \in acked'[q] <=> o \in acked[q]
                     /\ <<q, o>> \in routed' <=> <<q, o>> \in routed
         /\ o # held[p] => /\ o \in acked'[p] <=> o \in acked[p]
                           /\ <<p, o>> \in routed' <=> <<p, o>> \in routed
         /\ \/ held[p] \in acked'[p] /\ <<p, held[p]>> \notin routed'
            \/ held[p] \notin acked'[p] /\ <<p, held[p]>> \in routed'
  BY <1>1 DEF WorkerInv, WorkerTypeOK, TypeOK
<1>5. PlacedInv'
  <2> SUFFICES ASSUME NEW q \in Partitions PROVE PlacedAt(q)'
    BY DEF PlacedInv
  <2>1. PlacedAt(q)
    BY DEF WorkerInv, PlacedInv
  <2>2. CASE q = p
    <3>1. \A o \in Offsets : o # NoMessage
      BY DEF Offsets, NoMessage
    <3>2. held[p] < Front(p)
      BY <1>1, <1>2 DEF Offsets
    <3>3. \A o \in Offsets :
             /\ o < Front(p) <=> o \in acked'[p] \/ <<p, o>> \in routed'
             /\ ~ (o \in acked'[p] /\ <<p, o>> \in routed')
      BY <1>1, <1>4, <2>1, <2>2, <3>2 DEF PlacedAt
    <3> QED BY <1>3, <2>1, <2>2, <3>1, <3>3 DEF PlacedAt
  <2>3. CASE q # p
    BY <1>3, <1>4, <2>1, <2>3 DEF PlacedAt
  <2> QED BY <2>2, <2>3
<1>6. QueueAccounting'
  <2> SUFFICES ASSUME NEW q \in Partitions
               PROVE  inflight'[q] = Len(channel[q])
                                     + (IF held'[q] = NoMessage THEN 0 ELSE 1)
    BY DEF QueueAccounting
  <2>1. CASE q = p
    <3>1. held'[p] = NoMessage /\ inflight'[p] = Len(channel[p])
      BY <1>3
    <3>2. Len(channel[p]) = Len(channel[p]) + 0
      BY <1>2
    <3> QED BY <2>1, <3>1, <3>2
  <2>2. CASE q # p
    BY <1>3, <2>2 DEF WorkerInv, QueueAccounting
  <2> QED BY <2>1, <2>2
<1>7. inflight' \in [Partitions -> 0 .. MaxOffset + 1]
  <2>1. Len(channel[p]) \in 0 .. MaxOffset + 1
    BY <1>1, <1>2, MaxOffsetAssumption
  <2>2. inflight' = [inflight EXCEPT ![p] = Len(channel[p])]
    <3>1. (IF inflight[p] = 0 THEN 0 ELSE inflight[p] - 1) = Len(channel[p])
      BY <1>1, <1>2
    <3> QED BY <3>1 DEF queue_ack
  <2> QED BY <2>1, <2>2 DEF WorkerInv, WorkerTypeOK
<1> QED BY <1>5, <1>6, <1>7

\* The thread of a handler that ended is free; one that timed out goes on.
LEMMA ThreadReleased ==
    ASSUME WorkerInv, NEW m \in Messages,
           \/ thread' = thread
           \/ thread[m] = "running" /\ thread' = [thread EXCEPT ![m] = "none"]
    PROVE  /\ IsFiniteSet(Running') /\ Cardinality(Running') <= BlockingThreads
           /\ thread' \in [Messages -> {"none", "queued", "running"}]
<1>1. /\ thread \in [Messages -> {"none", "queued", "running"}]
      /\ IsFiniteSet(Running) /\ Cardinality(Running) <= BlockingThreads
      /\ Cardinality(Running) \in Nat
  BY FS_CardinalityType DEF WorkerInv, WorkerTypeOK
<1>2. CASE thread' = thread
  BY <1>1, <1>2 DEF Running
<1>3. CASE thread[m] = "running" /\ thread' = [thread EXCEPT ![m] = "none"]
  <2>1. Running' = Running \ {m} /\ m \in Running
    BY <1>1, <1>3 DEF Running
  <2>2. /\ IsFiniteSet(Running \ {m})
        /\ Cardinality(Running \ {m}) = Cardinality(Running) - 1
    BY <1>1, <2>1, FS_RemoveElement
  <2>3. thread' \in [Messages -> {"none", "queued", "running"}]
    BY <1>1, <1>3
  <2> QED BY <1>1, <2>1, <2>2, <2>3, BlockingThreadsAssumption
<1> QED BY <1>2, <1>3

\* The end of a message: acked when the handler returned, routed to the DLQ
\* when it failed for good or timed out.
LEMMA SettleKeeps ==
    ASSUME WorkerInv, NEW p \in Partitions, worker[p] = "invoking",
           \/ thread' = thread
           \/ /\ thread[<<p, held[p]>>] = "running"
              /\ thread' = [thread EXCEPT ![<<p, held[p]>>] = "none"],
           Settle(p), queue_ack(p), IInv',
           \/ /\ acked' = [acked EXCEPT ![p] = @ \cup {held[p]}]
              /\ routed' = routed
           \/ /\ acked' = acked
              /\ routed' = routed \cup {<<p, held[p]>>},
           NEW r \in RetryStates, retries' = [retries EXCEPT ![<<p, held[p]>>] = r],
           dlq_channel' \in Seq(Messages), Len(dlq_channel') <= DlqCapacity,
           UNCHANGED <<next, channel, invocations, cancelled, pool, flushing>>
    PROVE  WorkerInv'
<1> DEFINE h == <<p, held[p]>>
<1>1. /\ h \in Messages /\ held[p] \in Offsets /\ held[p] = Front(p) - 1
      /\ permits[p] = Concurrency - 1
  BY InvokingFacts
<1>2. /\ held' = [held EXCEPT ![p] = NoMessage]
      /\ permits' = [permits EXCEPT ![p] = permits[p] + 1]
      /\ worker' = [worker EXCEPT ![p] = IF cancelled THEN "stopped" ELSE "idle"]
  BY DEF Settle, release
<1>3. /\ PlacedInv' /\ QueueAccounting'
      /\ inflight' \in [Partitions -> 0 .. MaxOffset + 1]
  BY <1>2, SettleMoves
<1>4. /\ IsFiniteSet(Running') /\ Cardinality(Running') <= BlockingThreads
      /\ thread' \in [Messages -> {"none", "queued", "running"}]
  BY <1>1, ThreadReleased
<1>5. \A q \in Partitions :
         /\ held'[q] = IF q = p THEN NoMessage ELSE held[q]
         /\ permits'[q] = IF q = p THEN Concurrency ELSE permits[q]
         /\ q = p => worker'[q] \in {"stopped", "idle"}
         /\ q # p => worker'[q] = worker[q]
  BY <1>1, <1>2, ConcurrencyAssumption DEF WorkerInv, WorkerTypeOK
<1>6. WorkerTypeOK'
  <2>1. held' \in [Partitions -> Offsets \cup {NoMessage}]
    BY <1>2 DEF WorkerInv, WorkerTypeOK
  <2>2. permits' \in [Partitions -> 0 .. Concurrency]
    BY <1>1, <1>2, ConcurrencyAssumption DEF WorkerInv, WorkerTypeOK
  <2>3. worker' \in [Partitions -> {"idle", "processing", "invoking",
                                    "sleeping", "stopped"}]
    BY <1>2 DEF WorkerInv, WorkerTypeOK
  <2>4. retries' \in [Messages -> RetryStates] /\ routed' \in SUBSET Messages
    BY <1>1 DEF WorkerInv, WorkerTypeOK
  <2>5. TypeOK'
    BY DEF IInv
  <2>6. /\ next' \in [Partitions -> 0 .. MaxOffset + 1]
        /\ channel' \in [Partitions -> Seq(Offsets)]
        /\ cancelled' \in BOOLEAN /\ pool' \in {"run", "flush", "stopped"}
        /\ flushing' \in SUBSET Messages /\ invocations' \in [Messages -> Nat]
    BY DEF WorkerInv, WorkerTypeOK
  <2> QED BY <1>3, <1>4, <2>1, <2>2, <2>3, <2>4, <2>5, <2>6 DEF WorkerTypeOK
<1>7. StageInv'
  BY <1>5 DEF WorkerInv, StageInv
<1>8. AttemptInv'
  <2> SUFFICES ASSUME NEW m \in Messages PROVE AttemptOf(m)'
    BY DEF AttemptInv
  <2>1. /\ m[1] \in Partitions /\ m[2] \in Offsets /\ m = <<m[1], m[2]>>
    BY DEF Messages
  <2>2. Front(m[1])' = Front(m[1])
    BY DEF Front
  <2>3. AttemptOf(m)
    BY DEF WorkerInv, AttemptInv
  <2>4. CASE m[1] = p
    <3>1. ~ Working(m, {"processing", "sleeping"})' /\ ~ Working(m, {"invoking"})'
      BY <1>5, <2>1, <2>4 DEF Working
    <3>2. Begun(m)' <= Begun(m) /\ Begun(m) \in Nat /\ AttemptLimit \in Nat
      <4>1. invocations[m] \in Nat /\ invocations'[m] = invocations[m]
        BY DEF WorkerInv, WorkerTypeOK
      <4>2. thread'[m] = "queued" => thread[m] = "queued"
        BY <1>1 DEF WorkerInv, WorkerTypeOK
      <4>3. Begun(m)' <= Begun(m) /\ Begun(m) \in Nat
        BY <4>1, <4>2 DEF Begun
      <4>4. AttemptLimit \in Nat
        BY MaxAttemptsAssumption DEF AttemptLimit
      <4> QED BY <4>3, <4>4
    <3>3. Begun(m)' <= AttemptLimit
      <4>1. Begun(m)' \in Nat
        BY <1>4 DEF Begun, WorkerInv, WorkerTypeOK
      <4> QED BY <2>3, <3>2, <4>1 DEF AttemptOf
    <3>4. CASE m = h
      <4>1. ~ (m[2] >= Front(m[1]))
        BY <1>1, <2>1, <2>4, <3>4, TopicFacts DEF Offsets
      <4> QED BY <2>2, <3>1, <3>3, <4>1 DEF AttemptOf
    <3>5. CASE m # h
      BY <1>1, <2>2, <2>3, <3>1, <3>3, <3>5
         DEF WorkerInv, WorkerTypeOK, AttemptOf
    <3> QED BY <3>4, <3>5
  <2>5. CASE m[1] # p
    <3>1. m # h
      BY <2>5
    <3>2. thread'[m] = thread[m] /\ retries'[m] = retries[m]
      BY <1>1, <3>1 DEF WorkerInv, WorkerTypeOK
    <3>3. Begun(m)' = Begun(m)
      BY <3>2 DEF Begun
    <3> QED BY <1>5, <2>1, <2>2, <2>3, <2>5, <3>2, <3>3 DEF AttemptOf, Working
  <2> QED BY <2>4, <2>5
<1> QED BY <1>3, <1>4, <1>6, <1>7, <1>8 DEF WorkerInv

\* A failure that is retried keeps the message and counts the run.
LEMMA RetryKeeps ==
    ASSUME WorkerInv, NEW p \in Partitions, HandlerEnds(p),
           worker' = [worker EXCEPT ![p] = "sleeping"],
           retries[<<p, held[p]>>] + 1 \in RetryStates,
           retries[<<p, held[p]>>] + 1 < MaxAttempts,
           retries' = [retries EXCEPT ![<<p, held[p]>>] = @ + 1],
           IInv', acked' = acked,
           UNCHANGED <<queueVars, held, permits, routed, dlq_channel, poolVars>>
    PROVE  WorkerInv'
<1> DEFINE h == <<p, held[p]>>
<1>1. /\ worker[p] = "invoking" /\ thread[h] = "running"
      /\ thread' = [thread EXCEPT ![h] = "none"]
      /\ UNCHANGED <<next, channel, inflight, held, permits, routed, dlq_channel,
                     invocations, cancelled, pool, flushing>>
  BY DEF HandlerEnds, queueVars, poolVars
<1>2. /\ h \in Messages /\ held[p] \in Offsets /\ held[p] = Front(p) - 1
      /\ Begun(h) = retries[h] + 1 /\ permits[p] = Concurrency - 1
      /\ held[p] # NoMessage
  BY <1>1, InvokingFacts
<1>3. /\ IsFiniteSet(Running') /\ Cardinality(Running') <= BlockingThreads
      /\ thread' \in [Messages -> {"none", "queued", "running"}]
  BY <1>1, <1>2, ThreadReleased
<1>4. PlacedInv' /\ QueueAccounting'
  BY <1>1, PlacedFrame DEF WorkerInv, QueueAccounting
<1>5. \A q \in Partitions :
         worker'[q] = IF q = p THEN "sleeping" ELSE worker[q]
  BY DEF WorkerInv, WorkerTypeOK
<1>6. WorkerTypeOK'
  <2>1. TypeOK'
    BY DEF IInv
  <2>2. worker' \in [Partitions -> {"idle", "processing", "invoking",
                                    "sleeping", "stopped"}]
    BY DEF WorkerInv, WorkerTypeOK
  <2>3. retries' \in [Messages -> RetryStates]
    BY DEF WorkerInv, WorkerTypeOK
  <2> QED BY <1>1, <1>3, <2>1, <2>2, <2>3 DEF WorkerInv, WorkerTypeOK
<1>7. StageInv'
  BY <1>1, <1>2, <1>5 DEF WorkerInv, StageInv
<1>8. AttemptInv'
  <2> SUFFICES ASSUME NEW m \in Messages PROVE AttemptOf(m)'
    BY DEF AttemptInv
  <2>1. /\ m[1] \in Partitions /\ m[2] \in Offsets /\ m = <<m[1], m[2]>>
    BY DEF Messages
  <2>2. Front(m[1])' = Front(m[1])
    BY <1>1 DEF Front
  <2>3. AttemptOf(m)
    BY DEF WorkerInv, AttemptInv
  <2>4. CASE m = h
    <3>1. /\ thread'[m] = "none" /\ retries'[m] = retries[m] + 1
          /\ invocations'[m] = invocations[m] /\ invocations[m] = Begun(m)
          /\ invocations[m] \in Nat /\ retries[m] \in Int
      BY <1>1, <1>2, <2>4, MaxAttemptsAssumption
         DEF WorkerInv, WorkerTypeOK, Begun, RetryStates
    <3>2. Begun(m)' = invocations[m]
      BY <3>1 DEF Begun
    <3>3. invocations[m] = retries[m] + 1 /\ retries[m] + 1 < AttemptLimit
      BY <1>2, <2>4, <3>1, MaxAttemptsAssumption DEF AttemptLimit
    <3>4. AttemptLimit \in Nat
      BY MaxAttemptsAssumption DEF AttemptLimit
    <3>5. ~ (m[2] >= Front(m[1])) /\ ~ Working(m, {"invoking"})'
      BY <1>2, <1>5, <2>1, <2>4, TopicFacts DEF Offsets, Working
    <3> QED BY <2>2, <3>1, <3>2, <3>3, <3>4, <3>5 DEF AttemptOf
  <2>5. CASE m # h
    <3>1. thread'[m] = thread[m] /\ retries'[m] = retries[m]
      BY <1>1, <1>2, <2>5 DEF WorkerInv, WorkerTypeOK
    <3>2. Begun(m)' = Begun(m)
      BY <1>1, <3>1 DEF Begun
    <3>3. held[m[1]] = m[2] => worker'[m[1]] = worker[m[1]]
      BY <1>5, <2>1, <2>5
    <3> QED BY <1>1, <2>2, <2>3, <3>1, <3>2, <3>3 DEF AttemptOf, Working
  <2> QED BY <2>4, <2>5
<1> QED BY <1>3, <1>4, <1>6, <1>7, <1>8 DEF WorkerInv

\* The handler returned.
LEMMA OkKeeps ==
    ASSUME WorkerInv, NEW p \in Partitions, HandlerOk(p)
    PROVE  WorkerInv'
<1> DEFINE h == <<p, held[p]>>
<1>1. /\ worker[p] = "invoking" /\ thread[h] = "running"
      /\ thread' = [thread EXCEPT ![h] = "none"]
      /\ retries' = [retries EXCEPT ![h] = Absent]
      /\ queue_ack(p) /\ ack(p, held[p]) /\ Settle(p)
      /\ UNCHANGED <<next, channel, invocations, routed, dlq_channel, cancelled,
                     pool, flushing>>
  BY DEF HandlerOk, HandlerEnds, poolVars
<1>2. held[p] \in Offsets
  BY <1>1, InvokingFacts
<1>3. IInv'
  BY <1>1, <1>2, StepInvariant DEF WorkerInv, Next
<1>4. acked' = [acked EXCEPT ![p] = @ \cup {held[p]}]
  BY <1>1 DEF ack
<1>5. Absent \in RetryStates
  BY MaxAttemptsAssumption DEF RetryStates, Absent
<1>6. dlq_channel' \in Seq(Messages) /\ Len(dlq_channel') <= DlqCapacity
  BY <1>1 DEF WorkerInv, WorkerTypeOK
<1> QED BY <1>1, <1>3, <1>4, <1>5, <1>6, SettleKeeps

\* A failure: retried after a sleep, or routed to the DLQ.  A timeout, which
\* leaves the thread alone, is Terminal and never retried.
LEMMA FailureKeeps ==
    ASSUME WorkerInv, NEW p \in Partitions, NEW category \in Categories,
           handle_failure(p, category), worker[p] = "invoking",
           HandlerEnds(p) \/ (category = "Terminal" /\ thread' = thread),
           UNCHANGED invocations
    PROVE  WorkerInv'
<1> DEFINE h == <<p, held[p]>>
           decision == record_failure(retries[h], category)
<1>1. /\ mark_failed(p, held[p], category)
      /\ retries' = [retries EXCEPT ![h] = decision.state]
      /\ UNCHANGED <<next, channel, cancelled, pool, flushing>>
      /\ IF decision.retry
         THEN /\ worker' = [worker EXCEPT ![p] = "sleeping"]
              /\ UNCHANGED <<inflight, held, permits, routed, dlq_channel>>
         ELSE /\ produce_async(h)
              /\ routed' = routed \cup {h}
              /\ queue_ack(p)
              /\ Settle(p)
  BY DEF handle_failure, poolVars
<1>2. held[p] \in Offsets /\ h \in Messages
  BY InvokingFacts
<1>3. retries[h] \in RetryStates
  BY <1>2 DEF WorkerInv, WorkerTypeOK
<1>4. /\ decision.state \in RetryStates /\ decision.retry \in BOOLEAN
      /\ decision.retry => /\ category = "Retryable"
                           /\ decision.state = retries[h] + 1
                           /\ retries[h] + 1 < MaxAttempts
  BY <1>3, RetryDecision
<1> HIDE DEF decision
<1>5. IInv' /\ acked' = acked
  BY <1>1, <1>2, StepInvariant DEF WorkerInv, Next, mark_failed
<1>6. CASE decision.retry
  BY <1>1, <1>4, <1>5, <1>6, RetryKeeps DEF queueVars, poolVars
<1>7. CASE ~ decision.retry
  <2>1. dlq_channel' \in Seq(Messages) /\ Len(dlq_channel') <= DlqCapacity
    BY <1>1, <1>2, <1>7, ProduceBounded DEF WorkerInv
  <2>2. \/ thread' = thread
        \/ thread[h] = "running" /\ thread' = [thread EXCEPT ![h] = "none"]
    BY DEF HandlerEnds
  <2> QED BY <1>1, <1>4, <1>5, <1>7, <2>1, <2>2, SettleKeeps
<1> QED BY <1>4, <1>6, <1>7
-----------------------------------------------------------------------------
\* Every step keeps the invariant.
LEMMA WorkerStepInvariant == WorkerInv /\ [WorkerNext]_vars => WorkerInv'
<1> SUFFICES ASSUME WorkerInv, [WorkerNext]_vars PROVE WorkerInv'
  OBVIOUS
<1>1. /\ worker \in [Partitions -> {"idle", "processing", "invoking",
                                    "sleeping", "stopped"}]
      /\ permits \in [Partitions -> 0 .. Concurrency]
      /\ dlq_channel \in Seq(Messages) /\ Len(dlq_channel) <= DlqCapacity
      /\ cancelled \in BOOLEAN /\ pool \in {"run", "flush", "stopped"}
      /\ flushing \in SUBSET Messages
  BY DEF WorkerInv, WorkerTypeOK
<1>2. ASSUME NEW p \in Partitions, WorkerStep(p) PROVE WorkerInv'
  <2>1. CASE poll_for_work(p)
    BY <2>1, PollKeeps
  <2>2. CASE poll_cancelled(p) \/ RetryCancelled(p)
    <3>1. /\ worker' = [worker EXCEPT ![p] = "stopped"]
          /\ permits' = [permits EXCEPT ![p] = Concurrency]
      <4>1. CASE poll_cancelled(p)
        <5>1. permits[p] = Concurrency
          BY <4>1 DEF poll_cancelled, WorkerInv, StageInv
        <5> QED BY <1>1, <4>1, <5>1 DEF poll_cancelled, callVars
      <4>2. CASE RetryCancelled(p)
        <5>1. permits[p] = Concurrency - 1
          BY <4>2 DEF RetryCancelled, WorkerInv, StageInv
        <5> QED BY <4>2, <5>1, ConcurrencyAssumption DEF RetryCancelled, release
      <4> QED BY <2>2, <4>1, <4>2
    <3>2. UNCHANGED <<trackerVars, queueVars, held, retries, thread, invocations,
                      routed, dlq_channel, cancelled, pool, flushing>>
      BY <2>2 DEF poll_cancelled, RetryCancelled, callVars, poolVars
    <3>3. /\ worker' \in [Partitions -> {"idle", "processing", "invoking",
                                         "sleeping", "stopped"}]
          /\ permits' \in [Partitions -> 0 .. Concurrency]
      BY <1>1, <3>1, ConcurrencyAssumption
    <3>4. \A q \in Partitions :
             \/ worker'[q] = "stopped" /\ permits'[q] = Concurrency
             \/ worker'[q] = worker[q] /\ permits'[q] = permits[q]
      BY <1>1, <3>1
    <3> QED BY <1>1, <3>2, <3>3, <3>4, StopKeeps
  <2>3. CASE Invoke(p)
    BY <2>3, InvokeKeeps
  <2>4. CASE HandlerTimesOut(p)
    BY <2>4, FailureKeeps DEF HandlerTimesOut, Categories
  <2>5. CASE RetryWakes(p)
    BY <2>5, WakeKeeps
  <2> QED BY <1>2, <2>1, <2>2, <2>3, <2>4, <2>5 DEF WorkerStep
<1>3. CASE HandlerStep
  <2>1. ASSUME NEW p \in Partitions, NEW category \in Categories,
               HandlerFails(p, category)
        PROVE  WorkerInv'
    BY <2>1, FailureKeeps DEF HandlerFails, HandlerEnds
  <2> QED BY <1>3, <2>1, ThreadKeeps, OkKeeps DEF HandlerStep
<1>4. CASE DlqProduces
  <2>1. dlq_channel # <<>> /\ dlq_channel' = Tail(dlq_channel)
    BY <1>4 DEF DlqProduces
  <2>2. dlq_channel' \in Seq(Messages) /\ Len(dlq_channel') <= DlqCapacity
    BY <1>1, <2>1, DlqCapacityAssumption
  <2> QED BY <1>1, <1>4, <2>2, QuietKeeps DEF DlqProduces, poolVars
<1>5. CASE Cancel
  BY <1>1, <1>5, QuietKeeps DEF Cancel
<1>6. CASE PoolShutdown
  <2>1. /\ worker' = [p \in Partitions |-> "stopped"]
        /\ permits' = [p \in Partitions |-> Concurrency]
        /\ pool' = "flush" /\ flushing' \in SUBSET Messages
        /\ UNCHANGED <<trackerVars, queueVars, held, retries, thread, invocations,
                       routed, dlq_channel, cancelled>>
    BY <1>6 DEF PoolShutdown
  <2>2. /\ worker' \in [Partitions -> {"idle", "processing", "invoking",
                                       "sleeping", "stopped"}]
        /\ permits' \in [Partitions -> 0 .. Concurrency]
    BY <2>1, ConcurrencyAssumption
  <2>3. \A p \in Partitions : worker'[p] = "stopped" /\ permits'[p] = Concurrency
    BY <2>1
  <2> QED BY <1>1, <2>1, <2>2, <2>3, StopKeeps
<1>7. ASSUME NEW m \in Messages, flush_failed_to_dlq(m) PROVE WorkerInv'
  <2>1. dlq_channel' \in Seq(Messages) /\ Len(dlq_channel') <= DlqCapacity
    BY <1>7, ProduceBounded DEF WorkerInv, flush_failed_to_dlq
  <2> QED BY <1>1, <1>7, <2>1, QuietKeeps DEF flush_failed_to_dlq
<1>8. CASE FlushEnds
  BY <1>1, <1>8, QuietKeeps DEF FlushEnds
<1>9. CASE UNCHANGED vars
  BY <1>1, <1>9, QuietKeeps DEF vars, poolVars
<1>10. ASSUME NEW p \in Partitions, Dispatch(p) PROVE WorkerInv'
  BY <1>10, DispatchKeeps
<1> QED BY <1>2, <1>3, <1>4, <1>5, <1>6, <1>7, <1>8, <1>9, <1>10
        DEF WorkerNext, PoolStep

\* The invariant holds throughout.
THEOREM WorkerInvariance == WorkerSafetySpec => []WorkerInv
  BY WorkerInitInvariant, WorkerStepInvariant, PTL DEF WorkerSafetySpec

\* The dead-letter channel and the blocking pool stay within their limits,
\* and no permit is given back twice.
THEOREM WorkerTypeCorrect == WorkerSafetySpec => []WorkerTypeOK
<1>1. WorkerInv => WorkerTypeOK
  BY DEF WorkerInv
<1> QED BY <1>1, WorkerInvariance, PTL

\* inflight counts the queued messages and the held one, across retries,
\* timeouts, dead-lettering and the pool's shutdown.
THEOREM InflightExact == WorkerSafetySpec => []QueueAccounting
<1>1. WorkerInv => QueueAccounting
  BY DEF WorkerInv
<1> QED BY <1>1, WorkerInvariance, PTL

\* A dispatched message is at one place: queued, held, acked or routed.
THEOREM DispositionUnique == WorkerSafetySpec => []OneDisposition
<1>1. WorkerInv => OneDisposition
  <2> SUFFICES ASSUME WorkerInv, NEW p \in Partitions, NEW o \in 0 .. next[p] - 1
               PROVE  Cardinality({place \in {"queued", "held", "acked", "routed"} :
                          \/ place = "queued" /\ o \in Queued(p)
                          \/ place = "held"   /\ o = held[p]
                          \/ place = "acked"  /\ o \in acked[p]
                          \/ place = "routed" /\ <<p, o>> \in routed}) = 1
    BY DEF OneDisposition
  <2> DEFINE places == {place \in {"queued", "held", "acked", "routed"} :
                          \/ place = "queued" /\ o \in Queued(p)
                          \/ place = "held"   /\ o = held[p]
                          \/ place = "acked"  /\ o \in acked[p]
                          \/ place = "routed" /\ <<p, o>> \in routed}
  <2>1. /\ next[p] \in 0 .. MaxOffset + 1 /\ Len(channel[p]) \in Nat
        /\ channel[p] \in Seq(Offsets) /\ Front(p) \in 0 .. MaxOffset + 1
    BY TopicFacts
  <2>2. o \in Offsets
    BY <2>1, MaxOffsetAssumption DEF Offsets
  <2>3. PlacedAt(p)
    BY DEF WorkerInv, PlacedInv
  <2>4. o \in Queued(p) <=> ~ (o < Front(p))
    <3>1. ASSUME o \in Queued(p) PROVE ~ (o < Front(p))
      <4>1. PICK i \in 1 .. Len(channel[p]) : o = channel[p][i]
        BY <2>1, <3>1 DEF Queued
      <4>2. o = Front(p) + i - 1
        BY <2>3, <4>1 DEF PlacedAt
      <4> QED BY <2>1, <4>1, <4>2
    <3>2. ASSUME ~ (o < Front(p)) PROVE o \in Queued(p)
      <4>1. o - Front(p) + 1 \in 1 .. Len(channel[p])
        BY <2>1, <3>2 DEF Front
      <4>2. channel[p][o - Front(p) + 1] = Front(p) + (o - Front(p) + 1) - 1
        BY <2>3, <4>1 DEF PlacedAt
      <4>3. channel[p][o - Front(p) + 1] = o
        BY <2>1, <2>2, <4>2 DEF Offsets
      <4> QED BY <2>1, <4>1, <4>3 DEF Queued
    <3> QED BY <3>1, <3>2
  <2>5. \E place : places = {place}
    <3>1. CASE o \in Queued(p)
      <4>1. places = {"queued"}
        BY <2>2, <2>3, <2>4, <3>1 DEF PlacedAt
      <4> QED BY <4>1
    <3>2. CASE o = held[p]
      <4>1. places = {"held"}
        BY <2>2, <2>3, <2>4, <3>2 DEF PlacedAt
      <4> QED BY <4>1
    <3>3. CASE o \in acked[p]
      <4>1. places = {"acked"}
        BY <2>2, <2>3, <2>4, <3>3 DEF PlacedAt
      <4> QED BY <4>1
    <3>4. CASE <<p, o>> \in routed
      <4>1. places = {"routed"}
        BY <2>2, <2>3, <2>4, <3>4 DEF PlacedAt
      <4> QED BY <4>1
    <3> QED BY <2>2, <2>3, <2>4, <3>1, <3>2, <3>3, <3>4 DEF PlacedAt
  <2> QED BY <2>5, FS_Singleton
<1> QED BY <1>1, WorkerInvariance, PTL

\* A handler runs at most max_attempts times for a message, the runs nobody
\* waits for included.
THEOREM RetriesBounded == WorkerSafetySpec => []AttemptsBounded
<1>1. WorkerInv => AttemptsBounded
  <2> SUFFICES ASSUME WorkerInv, NEW m \in Messages
               PROVE  invocations[m] <= AttemptLimit
    BY DEF AttemptsBounded, AttemptLimit
  <2>1. Begun(m) <= AttemptLimit /\ invocations[m] \in Nat
    BY DEF WorkerInv, WorkerTypeOK, AttemptInv, AttemptOf
  <2>2. AttemptLimit \in Nat
    BY MaxAttemptsAssumption DEF AttemptLimit
  <2> QED BY <2>1, <2>2 DEF Begun
<1> QED BY <1>1, WorkerInvariance, PTL

\* The cursor stays in front of every message that is queued or held, the
\* ones that a shutdown abandoned included.
THEOREM UnfinishedIsAhead == WorkerSafetySpec => []UnfinishedNotCovered
<1>1. WorkerInv => UnfinishedNotCovered
  <2> SUFFICES ASSUME WorkerInv, NEW p \in registered
               PROVE  /\ \A o \in Queued(p) : o > cursor(p)
                      /\ held[p] # NoMessage => held[p] > cursor(p)
    BY DEF UnfinishedNotCovered
  <2>1. p \in Partitions /\ partitions[p] \in PartitionStates
    BY DEF WorkerInv, IInv, TypeOK
  <2>2. /\ PartitionInv(partitions[p], acked[p], base[p])
        /\ base[p] \in -1 .. MaxOffset
    BY <2>1 DEF WorkerInv, IInv, TypeOK
  <2>3. cursor(p) \in Offsets /\ base[p] \in Offsets /\ base[p] <= cursor(p)
    BY <2>1, <2>2, MaxOffsetAssumption
       DEF cursor, PartitionInv, PartitionStates, Offsets
  <2>4. cursor(p) \in acked[p] /\ base[p] \in acked[p]
    BY <2>2, <2>3 DEF cursor, PartitionInv, Offsets
  <2>5. /\ Front(p) \in 0 .. MaxOffset + 1 /\ channel[p] \in Seq(Offsets)
        /\ Len(channel[p]) \in Nat
        /\ held[p] # NoMessage => held[p] \in Offsets
    BY <2>1, TopicFacts
  <2>6. PlacedAt(p)
    BY <2>1 DEF WorkerInv, PlacedInv
  <2>7. cursor(p) < Front(p) /\ base[p] < Front(p)
    BY <2>3, <2>4, <2>6 DEF PlacedAt
  <2>8. ASSUME NEW o \in Queued(p) PROVE o > cursor(p)
    <3>1. PICK i \in 1 .. Len(channel[p]) : o = channel[p][i]
      BY <2>5 DEF Queued
    <3>2. o = Front(p) + i - 1
      BY <2>6, <3>1 DEF PlacedAt
    <3> QED BY <2>3, <2>5, <2>7, <3>1, <3>2 DEF Offsets
  <2>9. ASSUME held[p] # NoMessage PROVE held[p] > cursor(p)
    <3>1. held[p] = Front(p) - 1 /\ held[p] \in Offsets /\ held[p] \notin acked[p]
      BY <2>5, <2>6, <2>9 DEF PlacedAt
    <3>2. base[p] <= held[p]
      BY <2>3, <2>5, <2>7, <3>1 DEF Offsets
    <3>3. ~ (held[p] <= cursor(p))
      BY <2>2, <3>1, <3>2 DEF PartitionInv, cursor
    <3> QED BY <2>3, <3>1, <3>3 DEF Offsets
  <2> QED BY <2>8, <2>9
<1> QED BY <1>1, WorkerInvariance, PTL
=============================================================================
