-------------------------- MODULE DispatcherProofs --------------------------
(***************************************************************************)
(* The dispatch path keeps its promises for every set of partitions, every *)
(* log, every capacity, with or without a semaphore, and for any number of *)
(* failing pause and resume calls.  The argument for dropped messages: a   *)
(* message is in one place (Placement), so one that a refused send dropped *)
(* is never acked; by the tracker's invariant the cursor covers acked      *)
(* offsets only, so it stops in front of it.                               *)
(***************************************************************************)
EXTENDS Dispatcher, OffsetTrackerProofs, FiniteSetTheorems

\* The runner has read the message.
Polled(m) == m[2] < position[m[1]]

\* The handler's queue or the worker has taken the message, or it is acked.
Taken(m) ==
    \/ \E i \in 1 .. Len(queue) : queue[i] = m
    \/ m \in held
    \/ m[2] \in acked[m[1]]

\* A polled message is once on the stream, or dropped, or taken.
Placement ==
    /\ \A i \in 1 .. Len(stream) :
          Polled(stream[i]) /\ stream[i] \notin dropped /\ ~ Taken(stream[i])
    /\ \A i, j \in 1 .. Len(stream) : i # j => stream[i] # stream[j]
    /\ \A m \in dropped : Polled(m) /\ ~ Taken(m)
    /\ \A m \in Messages : Taken(m) => Polled(m)

\* A pause finds partitions: a message on the stream comes from one.
PauseInv ==
    /\ stream # <<>> => assigned # {}
    /\ paused_topics => partition_handles # {}

\* A dropped receiver takes its messages with it.
ClosedInv == ~ rx_open => queue = <<>> /\ held = {}

\* The worker processes one message at a time.
HeldInv == held = {} \/ \E m \in Messages : held = {m}

\* The inductive invariant.
DispatcherInv ==
    /\ DispatcherTypeOK
    /\ IInv
    /\ CountersAgree /\ PausedIsPaused
    /\ Placement /\ PauseInv /\ ClosedInv /\ HeldInv
-----------------------------------------------------------------------------
\* The invariant holds before anything is assigned.
LEMMA DispatcherInitInvariant == DispatcherInit => DispatcherInv
<1> SUFFICES ASSUME DispatcherInit PROVE DispatcherInv
  OBVIOUS
<1>1. IInv /\ TypeOK
  BY InitInvariant DEF DispatcherInit, IInv
<1>2. Cardinality({}) = 0
  BY FS_EmptySet
<1>3. DispatcherTypeOK
  <2>1. /\ stream \in Seq(Messages) /\ Len(stream) <= StreamCapacity
        /\ queue \in Seq(Messages) /\ Len(queue) <= Capacity
    BY DispatcherAssumption DEF DispatcherInit
  <2>2. /\ position \in [Partitions -> 0 .. MaxOffset + 1]
        /\ errors \in 0 .. MaxErrors
    BY MaxOffsetAssumption, DispatcherAssumption DEF DispatcherInit
  <2>3. held \in SUBSET Messages /\ Cardinality(held) <= 1
    BY <1>2 DEF DispatcherInit
  <2>4. /\ assigned \in SUBSET Partitions /\ paused \in SUBSET Partitions
        /\ rx_open \in BOOLEAN /\ paused_topics \in BOOLEAN
        /\ queue_depth \in Nat /\ inflight \in Nat /\ outstanding_permits \in Nat
        /\ partition_handles \in SUBSET Partitions /\ dropped \in SUBSET Messages
    BY DEF DispatcherInit
  <2> QED BY <1>1, <2>1, <2>2, <2>3, <2>4 DEF DispatcherTypeOK
<1>4. CountersAgree /\ PausedIsPaused /\ PauseInv /\ ClosedInv /\ HeldInv
  BY <1>2 DEF DispatcherInit, CountersAgree, PausedIsPaused, PauseInv,
              ClosedInv, HeldInv
<1>5. Placement
  BY DEF DispatcherInit, Init, Placement, Taken, Messages
<1> QED BY <1>1, <1>3, <1>4, <1>5 DEF DispatcherInv

\* What the dispatch loop takes from the stream, and what it leaves there.
LEMMA StreamHead ==
    ASSUME DispatcherInv, TakeFromStream
    PROVE  /\ Head(stream) \in Messages
           /\ Polled(Head(stream)) /\ Head(stream) \notin dropped
           /\ ~ Taken(Head(stream))
           /\ stream' \in Seq(Messages) /\ Len(stream') <= StreamCapacity
           /\ \A i \in 1 .. Len(stream') :
                 /\ stream'[i] # Head(stream)
                 /\ i + 1 \in 1 .. Len(stream) /\ stream'[i] = stream[i + 1]
           /\ assigned # {}
<1>1. /\ stream \in Seq(Messages) /\ stream # <<>> /\ stream' = Tail(stream)
      /\ Len(stream) <= StreamCapacity
  BY DEF DispatcherInv, DispatcherTypeOK, TakeFromStream
<1>2. /\ Len(stream) \in Nat \ {0} /\ Head(stream) = stream[1]
      /\ stream' \in Seq(Messages) /\ Len(stream') = Len(stream) - 1
      /\ \A i \in 1 .. Len(stream') : stream'[i] = stream[i + 1]
  BY <1>1
<1>3. 1 \in 1 .. Len(stream)
  BY <1>2
<1>4. \A i \in 1 .. Len(stream') : i + 1 \in 1 .. Len(stream) /\ i + 1 # 1
  BY <1>2
<1>5. \A i \in 1 .. Len(stream') : stream'[i] # Head(stream)
  BY <1>2, <1>3, <1>4 DEF DispatcherInv, Placement
<1>6. Head(stream) \in Messages /\ Len(stream') <= StreamCapacity
  BY <1>1, <1>2, DispatcherAssumption
<1> QED BY <1>1, <1>2, <1>3, <1>4, <1>5, <1>6
        DEF DispatcherInv, Placement, PauseInv

\* A pause, successful or not, keeps paused_topics truthful.
LEMMA PauseKeeps ==
    ASSUME DispatcherInv, assigned # {}, Pause
    PROVE  /\ paused' \in SUBSET Partitions
           /\ partition_handles' \in SUBSET Partitions
           /\ paused_topics' \in BOOLEAN /\ errors' \in 0 .. MaxErrors
           /\ PausedIsPaused'
           /\ paused_topics' => partition_handles' # {}
<1> USE DEF DispatcherInv, DispatcherTypeOK
<1> DEFINE handles == IF partition_handles = {} THEN assigned ELSE partition_handles
<1>1. handles \in SUBSET Partitions /\ handles # {}
  OBVIOUS
<1>2. partition_handles # {} => handles = partition_handles
  OBVIOUS
<1>3. \/ /\ partition_handles' = handles
         /\ paused' = paused \cup handles
         /\ paused_topics' = TRUE
         /\ UNCHANGED errors
      \/ /\ errors < MaxErrors
         /\ errors' = errors + 1
         /\ partition_handles' \in {partition_handles, handles}
         /\ UNCHANGED <<paused, paused_topics>>
  BY DEF Pause
<1> HIDE DEF handles
<1>4. errors' \in 0 .. MaxErrors
  BY <1>3, DispatcherAssumption
<1>5. CASE /\ partition_handles' = handles
           /\ paused' = paused \cup handles
           /\ paused_topics' = TRUE
  BY <1>1, <1>4, <1>5 DEF PausedIsPaused
<1>6. CASE /\ partition_handles' \in {partition_handles, handles}
           /\ UNCHANGED <<paused, paused_topics>>
  <2>1. paused_topics => partition_handles' = partition_handles
    BY <1>2, <1>6 DEF PauseInv
  <2>2. partition_handles' \in SUBSET Partitions
    BY <1>1, <1>6
  <2> QED BY <1>4, <1>6, <2>1, <2>2 DEF PausedIsPaused, PauseInv
<1> QED BY <1>3, <1>5, <1>6

\* A refused send: the message has left the stream for good.
LEMMA DroppedKeepsPlacement ==
    ASSUME DispatcherInv, TakeFromStream,
           dropped' = dropped \cup {Head(stream)},
           UNCHANGED <<trackerVars, position, queue, held>>
    PROVE  Placement'
<1> DEFINE h == Head(stream)
<1>1. /\ h \in Messages /\ Polled(h) /\ ~ Taken(h)
      /\ \A i \in 1 .. Len(stream') :
            /\ stream'[i] # h
            /\ i + 1 \in 1 .. Len(stream) /\ stream'[i] = stream[i + 1]
      /\ stream' \in Seq(Messages)
  BY StreamHead
<1>2. \A m : (Taken(m)' <=> Taken(m)) /\ (Polled(m)' <=> Polled(m))
  BY DEF Taken, Polled, trackerVars
<1> HIDE DEF h
<1>3. \A i \in 1 .. Len(stream') :
         Polled(stream'[i]) /\ stream'[i] \notin dropped' /\ ~ Taken(stream'[i])
  BY <1>1 DEF DispatcherInv, Placement, h
<1>4. ASSUME NEW i \in 1 .. Len(stream'), NEW j \in 1 .. Len(stream'), i # j
      PROVE  stream'[i] # stream'[j]
  <2>1. i + 1 # j + 1
    BY <1>1, <1>4
  <2> QED BY <1>1, <2>1 DEF DispatcherInv, Placement
<1>5. \A m \in dropped' : Polled(m) /\ ~ Taken(m)
  BY <1>1 DEF DispatcherInv, Placement, h
<1> QED BY <1>2, <1>3, <1>4, <1>5 DEF DispatcherInv, Placement

\* Everything that is neither Placement nor the tracker, for a refused send.
LEMMA RefusedKeeps ==
    ASSUME DispatcherInv, SendNoPermit \/ SendFull \/ SendClosed
    PROVE  DispatcherInv'
<1>1. /\ TakeFromStream /\ dropped' = dropped \cup {Head(stream)}
      /\ UNCHANGED <<trackerVars, assigned, position, queue, rx_open, held,
                     queue_depth, inflight>>
      /\ outstanding_permits' \in {outstanding_permits, outstanding_permits + 1}
  BY DEF SendNoPermit, SendFull, SendClosed, kafkaVars, workerVars, counterVars,
         AcquirePermit, DispatcherInv, DispatcherTypeOK
<1>2. Placement'
  BY <1>1, DroppedKeepsPlacement
<1>3. /\ Head(stream) \in Messages /\ stream' \in Seq(Messages)
      /\ Len(stream') <= StreamCapacity /\ assigned # {}
  BY <1>1, StreamHead
<1>4. /\ paused' \in SUBSET Partitions
      /\ partition_handles' \in SUBSET Partitions
      /\ paused_topics' \in BOOLEAN /\ errors' \in 0 .. MaxErrors
      /\ PausedIsPaused'
      /\ paused_topics' => partition_handles' # {}
  <2>1. CASE Pause
    BY <1>3, <2>1, PauseKeeps
  <2>2. CASE UNCHANGED <<paused, pauseVars>>
    BY <2>2 DEF pauseVars, DispatcherInv, DispatcherTypeOK, PausedIsPaused, PauseInv
  <2> QED BY <2>1, <2>2 DEF SendNoPermit, SendFull, SendClosed, kafkaVars
<1>5. IInv' /\ TypeOK'
  BY <1>1 DEF DispatcherInv, IInv, TypeOK, trackerVars
<1>6. DispatcherTypeOK'
  BY <1>1, <1>3, <1>4, <1>5 DEF DispatcherInv, DispatcherTypeOK
<1>7. CountersAgree' /\ PauseInv' /\ ClosedInv' /\ HeldInv'
  BY <1>1, <1>3, <1>4
     DEF DispatcherInv, CountersAgree, PauseInv, ClosedInv, HeldInv
<1> QED BY <1>2, <1>4, <1>5, <1>6, <1>7 DEF DispatcherInv

\* A step that takes no new message keeps every message in its place.
LEMMA PlacementStays ==
    ASSUME DispatcherInv, UNCHANGED <<position, stream, dropped>>,
           \A m \in Messages : Taken(m)' => Taken(m)
    PROVE  Placement'
<1>1. \A m : Polled(m)' <=> Polled(m)
  BY DEF Polled
<1>2. \A i \in 1 .. Len(stream) : stream[i] \in Messages
  BY DEF DispatcherInv, DispatcherTypeOK
<1>3. dropped \subseteq Messages
  BY DEF DispatcherInv, DispatcherTypeOK
<1>4. \A i \in 1 .. Len(stream) : ~ Taken(stream[i])'
  BY <1>2 DEF DispatcherInv, Placement
<1>5. \A m \in dropped : ~ Taken(m)'
  BY <1>3 DEF DispatcherInv, Placement
<1>6. \A m \in Messages : Taken(m)' => Polled(m)
  BY DEF DispatcherInv, Placement
<1> QED BY <1>1, <1>4, <1>5, <1>6 DEF DispatcherInv, Placement

\* The worker holds at most one message.
LEMMA CardinalityHeld ==
    ASSUME HeldInv
    PROVE  Cardinality(held) = IF held = {} THEN 0 ELSE 1
<1>1. CASE held = {}
  BY <1>1, FS_EmptySet
<1>2. ASSUME NEW m \in Messages, held = {m} PROVE Cardinality(held) = 1 /\ held # {}
  <2>1. Cardinality({m}) = 1
    BY FS_Singleton
  <2> QED BY <1>2, <2>1
<1> QED BY <1>1, <1>2 DEF HeldInv

\* A message that is queued leaves the stream and is taken.
LEMMA SendOkKeeps ==
    ASSUME DispatcherInv, SendOk
    PROVE  DispatcherInv'
<1> DEFINE h == Head(stream)
<1>1. /\ TakeFromStream /\ rx_open /\ Len(queue) < Capacity
      /\ inflight' = inflight + 1 /\ queue_depth' = queue_depth + 1
      /\ outstanding_permits' \in {outstanding_permits, outstanding_permits + 1}
      /\ queue' = Append(queue, h) /\ check_resume(queue_depth')
      /\ UNCHANGED <<trackerVars, assigned, position, rx_open, held,
                     partition_handles, dropped>>
  BY DEF SendOk, AcquirePermit, workerVars, DispatcherInv, DispatcherTypeOK
<1>2. /\ h \in Messages /\ Polled(h) /\ h \notin dropped /\ ~ Taken(h)
      /\ \A i \in 1 .. Len(stream') :
            /\ stream'[i] # h
            /\ i + 1 \in 1 .. Len(stream) /\ stream'[i] = stream[i + 1]
      /\ stream' \in Seq(Messages) /\ Len(stream') <= StreamCapacity
      /\ assigned # {}
  BY <1>1, StreamHead
<1> HIDE DEF h
<1>3. /\ queue \in Seq(Messages) /\ queue' \in Seq(Messages)
      /\ Len(queue') = Len(queue) + 1 /\ Len(queue') <= Capacity
      /\ \A i \in 1 .. Len(queue') :
            queue'[i] = IF i = Len(queue) + 1 THEN h ELSE queue[i]
  <2>1. queue \in Seq(Messages) /\ queue' = Append(queue, h)
    BY <1>1 DEF DispatcherInv, DispatcherTypeOK
  <2> QED BY <1>1, <1>2, <2>1, DispatcherAssumption
<1>4. IInv' /\ TypeOK'
  BY <1>1 DEF DispatcherInv, IInv, TypeOK, trackerVars
<1>5. /\ paused' \in SUBSET Partitions /\ paused_topics' \in BOOLEAN
      /\ errors' \in 0 .. MaxErrors
      /\ PausedIsPaused'
      /\ paused_topics' => partition_handles' # {}
  <2>1. CASE UNCHANGED <<paused_topics, paused, errors>>
    BY <1>1, <2>1
       DEF DispatcherInv, DispatcherTypeOK, PausedIsPaused, PauseInv
  <2>2. CASE /\ paused_topics' = FALSE
             /\ \/ paused' = paused \ partition_handles /\ UNCHANGED errors
                \/ errors < MaxErrors /\ errors' = errors + 1 /\ UNCHANGED paused
    <3>1. paused \in SUBSET Partitions /\ errors \in 0 .. MaxErrors
      BY DEF DispatcherInv, DispatcherTypeOK
    <3>2. paused' \in SUBSET Partitions
      BY <2>2, <3>1
    <3>3. errors' \in 0 .. MaxErrors
      BY <2>2, <3>1, DispatcherAssumption
    <3> QED BY <2>2, <3>2, <3>3 DEF PausedIsPaused
  <2> QED BY <1>1, <2>1, <2>2 DEF check_resume
<1>6. DispatcherTypeOK'
  BY <1>1, <1>2, <1>3, <1>4, <1>5 DEF DispatcherInv, DispatcherTypeOK
<1>7. CountersAgree' /\ PauseInv' /\ ClosedInv' /\ HeldInv'
  <2>1. CountersAgree'
    <3>1. /\ inflight = Len(queue) + Cardinality(held)
          /\ queue_depth = inflight
      BY <1>1 DEF DispatcherInv, CountersAgree
    <3>2. inflight \in Nat /\ queue_depth \in Nat /\ Len(queue) \in Nat
      BY <1>3 DEF DispatcherInv, DispatcherTypeOK
    <3>3. Cardinality(held') = Cardinality(held)
      BY <1>1
    <3>4. inflight' = Len(queue') + Cardinality(held')
      <4>1. Cardinality(held) \in Int
        BY CardinalityHeld DEF DispatcherInv
      <4> QED BY <1>1, <1>3, <3>1, <3>2, <3>3, <4>1
    <3> QED BY <1>1, <3>1, <3>4 DEF CountersAgree
  <2> QED BY <1>1, <1>2, <1>5, <2>1 DEF DispatcherInv, PauseInv, ClosedInv, HeldInv
<1>8. \A m \in Messages : m # h /\ ~ Taken(m) =>
         /\ \A i \in 1 .. Len(queue') : queue'[i] # m
         /\ m \notin held' /\ m[2] \notin acked'[m[1]]
  BY <1>1, <1>3 DEF Taken, trackerVars
<1>9. Placement'
  <2>1. \A m : m[2] < position'[m[1]] <=> Polled(m)
    BY <1>1 DEF Polled
  <2>2. \A i \in 1 .. Len(stream') :
           /\ stream'[i] \in Messages /\ stream'[i] # h
           /\ Polled(stream'[i]) /\ stream'[i] \notin dropped
           /\ ~ Taken(stream'[i])
    BY <1>2 DEF DispatcherInv, Placement
  <2>3. ASSUME NEW i \in 1 .. Len(stream'), NEW j \in 1 .. Len(stream'), i # j
        PROVE  stream'[i] # stream'[j]
    <3>1. i + 1 # j + 1
      BY <1>2, <2>3
    <3> QED BY <1>2, <3>1 DEF DispatcherInv, Placement
  <2>4. \A m \in dropped : m \in Messages /\ m # h /\ Polled(m) /\ ~ Taken(m)
    BY <1>2 DEF DispatcherInv, DispatcherTypeOK, Placement
  <2>5. (\A m \in Messages : Taken(m) => Polled(m))'
    <3>1. \A m \in Messages : Taken(m) \/ m = h => Polled(m)
      BY <1>2 DEF DispatcherInv, Placement
    <3> QED BY <1>8, <2>1, <3>1 DEF Taken, Polled
  <2>6. (\A i \in 1 .. Len(stream) :
           Polled(stream[i]) /\ stream[i] \notin dropped /\ ~ Taken(stream[i]))'
    <3> SUFFICES ASSUME NEW i \in 1 .. Len(stream')
                 PROVE  /\ Polled(stream'[i]) /\ stream'[i] \notin dropped
                        /\ \A k \in 1 .. Len(queue') : queue'[k] # stream'[i]
                        /\ stream'[i] \notin held'
                        /\ stream'[i][2] \notin acked'[stream'[i][1]]
      BY <1>1, <2>1 DEF Taken, Polled
    <3> QED BY <1>8, <2>2
  <2>7. (\A m \in dropped : Polled(m) /\ ~ Taken(m))'
    BY <1>1, <1>8, <2>1, <2>4 DEF Taken, Polled
  <2> QED BY <2>3, <2>5, <2>6, <2>7 DEF Placement
<1> QED BY <1>4, <1>5, <1>6, <1>7, <1>9 DEF DispatcherInv

\* A polled message is new: it is on no list yet.
LEMMA PollKeeps ==
    ASSUME DispatcherInv, NEW p \in Partitions, Poll(p)
    PROVE  DispatcherInv'
<1> DEFINE n == <<p, position[p]>>
<1>1. /\ p \in assigned /\ position[p] <= MaxOffset
      /\ Len(stream) < StreamCapacity
      /\ stream' = Append(stream, n)
      /\ position' = [position EXCEPT ![p] = position[p] + 1]
      /\ UNCHANGED <<trackerVars, assigned, paused, queue, rx_open, held,
                     queue_depth, inflight, outstanding_permits,
                     partition_handles, paused_topics, errors, dropped>>
  BY DEF Poll, workerVars, counterVars, pauseVars
<1>2. /\ position \in [Partitions -> 0 .. MaxOffset + 1]
      /\ position[p] \in Offsets /\ n \in Messages
  BY <1>1, MaxOffsetAssumption
     DEF DispatcherInv, DispatcherTypeOK, Offsets, Messages
<1>3. ~ Polled(n)
  BY <1>2 DEF Polled, Offsets
<1>4. position' \in [Partitions -> 0 .. MaxOffset + 1]
  BY <1>1, <1>2, MaxOffsetAssumption DEF Offsets
<1>5. \A m \in Messages : Polled(m) \/ m = n => m[2] < position'[m[1]]
  BY <1>1, <1>2, MaxOffsetAssumption DEF Polled, Messages, Offsets
<1> HIDE DEF n
<1>6. /\ stream \in Seq(Messages) /\ stream' \in Seq(Messages)
      /\ Len(stream') = Len(stream) + 1 /\ Len(stream') <= StreamCapacity
      /\ \A i \in 1 .. Len(stream') :
            IF i \in 1 .. Len(stream) THEN stream'[i] = stream[i]
                                      ELSE stream'[i] = n /\ i = Len(stream) + 1
  <2>1. stream \in Seq(Messages) /\ stream' = Append(stream, n)
    BY <1>1 DEF DispatcherInv, DispatcherTypeOK
  <2> QED BY <1>1, <1>2, <2>1, DispatcherAssumption
<1>7. IInv' /\ TypeOK'
  BY <1>1 DEF DispatcherInv, IInv, TypeOK, trackerVars
<1>8. DispatcherTypeOK'
  BY <1>1, <1>4, <1>6, <1>7 DEF DispatcherInv, DispatcherTypeOK
<1>9. /\ CountersAgree' /\ PausedIsPaused' /\ PauseInv' /\ ClosedInv'
      /\ HeldInv'
  BY <1>1 DEF DispatcherInv, CountersAgree, PausedIsPaused, PauseInv, ClosedInv,
              HeldInv
<1>10. Placement'
  <2>1. \A m : Taken(m)' <=> Taken(m)
    BY <1>1 DEF Taken, trackerVars
  <2>2. ~ Taken(n) /\ n \notin dropped
    BY <1>2, <1>3 DEF DispatcherInv, Placement
  <2>3. \A i \in 1 .. Len(stream) :
           /\ stream[i] \in Messages /\ stream[i] # n /\ Polled(stream[i])
           /\ stream[i] \notin dropped /\ ~ Taken(stream[i])
    BY <1>3, <1>6 DEF DispatcherInv, Placement
  <2>4. (\A i \in 1 .. Len(stream) :
           Polled(stream[i]) /\ stream[i] \notin dropped /\ ~ Taken(stream[i]))'
    <3> SUFFICES ASSUME NEW i \in 1 .. Len(stream')
                 PROVE  /\ stream'[i][2] < position'[stream'[i][1]]
                        /\ stream'[i] \notin dropped /\ ~ Taken(stream'[i])
      BY <1>1 DEF Polled, Taken, trackerVars
    <3>1. CASE i \in 1 .. Len(stream)
      BY <1>5, <1>6, <2>3, <3>1
    <3>2. CASE i \notin 1 .. Len(stream)
      BY <1>2, <1>5, <1>6, <2>2, <3>2
    <3> QED BY <3>1, <3>2
  <2>5. \A i, j \in 1 .. Len(stream') : i # j => stream'[i] # stream'[j]
    BY <1>6, <2>3 DEF DispatcherInv, Placement
  <2>6. (\A m \in dropped : Polled(m) /\ ~ Taken(m))'
    <3>1. \A m \in dropped : m \in Messages /\ Polled(m) /\ ~ Taken(m)
      BY DEF DispatcherInv, DispatcherTypeOK, Placement
    <3> QED BY <1>1, <1>5, <2>1, <3>1 DEF Polled
  <2>7. (\A m \in Messages : Taken(m) => Polled(m))'
    <3>1. \A m \in Messages : Taken(m) => Polled(m)
      BY DEF DispatcherInv, Placement
    <3> QED BY <1>5, <2>1, <3>1 DEF Polled
  <2> QED BY <2>4, <2>5, <2>6, <2>7 DEF Placement
<1> QED BY <1>7, <1>8, <1>9, <1>10 DEF DispatcherInv

\* The worker takes the head of its queue.
LEMMA ReceiveKeeps ==
    ASSUME DispatcherInv, Receive
    PROVE  DispatcherInv'
<1> DEFINE h == Head(queue)
<1>1. /\ rx_open /\ held = {} /\ queue # <<>> /\ held' = {h}
      /\ queue' = Tail(queue) /\ queue \in Seq(Messages) /\ Len(queue) <= Capacity
      /\ UNCHANGED <<trackerVars, assigned, position, paused, stream, rx_open,
                     queue_depth, inflight, outstanding_permits,
                     partition_handles, paused_topics, errors, dropped>>
  BY DEF Receive, kafkaVars, counterVars, pauseVars, DispatcherInv,
         DispatcherTypeOK
<1>2. /\ Len(queue) \in Nat \ {0} /\ h = queue[1]
      /\ queue' \in Seq(Messages) /\ Len(queue') = Len(queue) - 1
      /\ \A i \in 1 .. Len(queue') : queue'[i] = queue[i + 1]
  BY <1>1
<1> HIDE DEF h
<1>3. /\ h \in Messages /\ Len(queue') <= Capacity /\ 1 \in 1 .. Len(queue)
      /\ \A i \in 1 .. Len(queue') : i + 1 \in 1 .. Len(queue)
  BY <1>1, <1>2, DispatcherAssumption
<1>4. HeldInv' /\ Cardinality(held) = 0 /\ Cardinality(held') = 1
  <2>1. Cardinality({}) = 0 /\ Cardinality({h}) = 1
    BY FS_EmptySet, FS_Singleton
  <2> QED BY <1>1, <1>3, <2>1 DEF HeldInv
<1>5. IInv' /\ TypeOK'
  BY <1>1 DEF DispatcherInv, IInv, TypeOK, trackerVars
<1>6. DispatcherTypeOK'
  BY <1>1, <1>2, <1>3, <1>4, <1>5 DEF DispatcherInv, DispatcherTypeOK
<1>7. CountersAgree'
  <2>1. inflight = Len(queue) + 0 /\ queue_depth = inflight
    BY <1>1, <1>4 DEF DispatcherInv, CountersAgree
  <2>2. inflight = Len(queue') + 1
    BY <1>2, <2>1
  <2> QED BY <1>1, <1>4, <2>1, <2>2 DEF CountersAgree
<1>8. PausedIsPaused' /\ PauseInv' /\ ClosedInv'
  BY <1>1 DEF DispatcherInv, PausedIsPaused, PauseInv, ClosedInv
<1>9. \A m \in Messages : Taken(m)' => Taken(m)
  BY <1>1, <1>2, <1>3 DEF Taken, trackerVars
<1>10. Placement'
  BY <1>1, <1>9, PlacementStays
<1> QED BY <1>4, <1>5, <1>6, <1>7, <1>8, <1>10 DEF DispatcherInv

\* A completed message is acked to the queue and to the tracker.
LEMMA CompleteKeeps ==
    ASSUME DispatcherInv, NEW p \in Partitions, NEW o \in Offsets, Complete(p, o)
    PROVE  DispatcherInv'
<1>1. /\ held = {<<p, o>>} /\ held' = {} /\ QueueAck /\ ack(p, o)
      /\ UNCHANGED <<assigned, position, paused, stream, queue, rx_open,
                     partition_handles, paused_topics, errors, dropped>>
  BY DEF Complete, kafkaVars, pauseVars
<1>2. IInv'
  BY <1>1, StepInvariant DEF DispatcherInv, Next
<1>3. HeldInv' /\ Cardinality(held) = 1 /\ Cardinality(held') = 0
  BY <1>1, FS_EmptySet, FS_Singleton DEF HeldInv
<1>4. /\ queue_depth' = Saturating(queue_depth)
      /\ inflight' = Saturating(inflight)
      /\ queue_depth' \in Nat /\ inflight' \in Nat /\ outstanding_permits' \in Nat
  BY <1>1 DEF QueueAck, Saturating, DispatcherInv, DispatcherTypeOK
<1>5. DispatcherTypeOK'
  <2>1. TypeOK'
    BY <1>2 DEF IInv
  <2>2. held' \in SUBSET Messages
    BY <1>1
  <2> QED BY <1>1, <1>3, <1>4, <2>1, <2>2 DEF DispatcherInv, DispatcherTypeOK
<1>6. CountersAgree'
  <2>1. rx_open
    BY <1>1 DEF DispatcherInv, ClosedInv
  <2>2. inflight = Len(queue) + 1 /\ queue_depth = inflight /\ Len(queue) \in Nat
    BY <1>3, <2>1 DEF DispatcherInv, CountersAgree, DispatcherTypeOK
  <2>3. inflight' = Len(queue) + 0
    BY <1>4, <2>2 DEF Saturating
  <2> QED BY <1>1, <1>3, <1>4, <2>2, <2>3 DEF CountersAgree
<1>7. PausedIsPaused' /\ PauseInv' /\ ClosedInv'
  BY <1>1 DEF DispatcherInv, PausedIsPaused, PauseInv, ClosedInv
<1>8. ASSUME NEW m \in Messages, Taken(m)' PROVE Taken(m)
  <2>1. acked'[m[1]] \subseteq IF m[1] = p THEN acked[p] \cup {o} ELSE acked[m[1]]
    BY <1>1 DEF ack, DispatcherInv, DispatcherTypeOK, TypeOK, Messages
  <2>2. m = <<m[1], m[2]>>
    BY DEF Messages
  <2> QED BY <1>1, <1>8, <2>1, <2>2 DEF Taken
<1>9. Placement'
  BY <1>1, <1>8, PlacementStays
<1> QED BY <1>2, <1>3, <1>5, <1>6, <1>7, <1>9 DEF DispatcherInv
-----------------------------------------------------------------------------
\* Every step of the dispatch path keeps the invariant.
LEMMA DispatcherStepInvariant == DispatcherInv /\ [DispatcherNext]_vars => DispatcherInv'
<1> SUFFICES ASSUME DispatcherInv, [DispatcherNext]_vars PROVE DispatcherInv'
  OBVIOUS
<1>1. ASSUME NEW p \in Partitions, Assign(p) PROVE DispatcherInv'
  <2>1. /\ assigned' = assigned \cup {p}
        /\ UNCHANGED <<trackerVars, position, paused, stream, queue, rx_open,
                       held, queue_depth, inflight, outstanding_permits,
                       partition_handles, paused_topics, errors, dropped>>
    BY <1>1 DEF Assign, workerVars, counterVars, pauseVars
  <2>2. IInv' /\ TypeOK'
    BY <2>1 DEF DispatcherInv, IInv, TypeOK, trackerVars
  <2>3. DispatcherTypeOK'
    BY <2>1, <2>2 DEF DispatcherInv, DispatcherTypeOK
  <2>4. /\ CountersAgree' /\ PausedIsPaused' /\ PauseInv' /\ ClosedInv'
        /\ HeldInv'
    BY <2>1 DEF DispatcherInv, CountersAgree, PausedIsPaused, PauseInv,
                ClosedInv, HeldInv
  <2>5. Placement'
    <3>1. \A m \in Messages : Taken(m)' => Taken(m)
      BY <2>1 DEF Taken, trackerVars
    <3> QED BY <2>1, <3>1, PlacementStays
  <2> QED BY <2>2, <2>3, <2>4, <2>5 DEF DispatcherInv
<1>2. ASSUME NEW p \in Partitions, Poll(p) PROVE DispatcherInv'
  BY <1>2, PollKeeps
<1>3. CASE Send
  BY <1>3, SendOkKeeps, RefusedKeeps DEF Send
<1>4. CASE WorkerProgress
  BY <1>4, ReceiveKeeps, CompleteKeeps DEF WorkerProgress
<1>5. CASE ReceiverDropped
  <2>1. /\ rx_open' = FALSE /\ queue' = <<>> /\ held' = {}
        /\ UNCHANGED <<trackerVars, assigned, position, paused, stream,
                       queue_depth, inflight, outstanding_permits,
                       partition_handles, paused_topics, errors, dropped>>
    BY <1>5 DEF ReceiverDropped, kafkaVars, counterVars, pauseVars
  <2>2. IInv' /\ TypeOK'
    BY <2>1 DEF DispatcherInv, IInv, TypeOK, trackerVars
  <2>3. /\ queue' \in Seq(Messages) /\ Len(queue') = 0
        /\ held' \in SUBSET Messages /\ Cardinality(held') = 0
    BY <2>1, FS_EmptySet
  <2>4. Len(queue') <= Capacity /\ Cardinality(held') <= 1
    BY <2>3, DispatcherAssumption
  <2>5. DispatcherTypeOK'
    BY <2>1, <2>2, <2>3, <2>4 DEF DispatcherInv, DispatcherTypeOK
  <2>6. /\ CountersAgree' /\ PausedIsPaused' /\ PauseInv' /\ ClosedInv'
        /\ HeldInv'
    BY <2>1 DEF DispatcherInv, CountersAgree, PausedIsPaused, PauseInv,
                ClosedInv, HeldInv
  <2>7. Placement'
    <3>1. \A m \in Messages : Taken(m)' => Taken(m)
      BY <2>1, <2>3 DEF Taken, trackerVars
    <3> QED BY <2>1, <3>1, PlacementStays
  <2> QED BY <2>2, <2>5, <2>6, <2>7 DEF DispatcherInv
<1>6. CASE UNCHANGED vars
  <2>1. UNCHANGED <<trackerVars, assigned, position, paused, stream, queue,
                    rx_open, held, queue_depth, inflight, outstanding_permits,
                    partition_handles, paused_topics, errors, dropped>>
    BY <1>6 DEF vars, kafkaVars, workerVars, counterVars, pauseVars
  <2>2. IInv' /\ TypeOK'
    BY <2>1 DEF DispatcherInv, IInv, TypeOK, trackerVars
  <2>3. DispatcherTypeOK'
    BY <2>1, <2>2 DEF DispatcherInv, DispatcherTypeOK
  <2>4. /\ CountersAgree' /\ PausedIsPaused' /\ PauseInv' /\ ClosedInv'
        /\ HeldInv'
    BY <2>1 DEF DispatcherInv, CountersAgree, PausedIsPaused, PauseInv,
                ClosedInv, HeldInv
  <2>5. Placement'
    <3>1. \A m \in Messages : Taken(m)' => Taken(m)
      BY <2>1 DEF Taken, trackerVars
    <3> QED BY <2>1, <3>1, PlacementStays
  <2> QED BY <2>2, <2>3, <2>4, <2>5 DEF DispatcherInv
<1> QED BY <1>1, <1>2, <1>3, <1>4, <1>5, <1>6 DEF DispatcherNext

\* The invariant holds throughout.
THEOREM DispatcherInvariance == DispatcherSafetySpec => []DispatcherInv
  BY DispatcherInitInvariant, DispatcherStepInvariant, PTL
     DEF DispatcherSafetySpec

\* Both channels stay within their capacity, and the worker holds at most
\* one message.
THEOREM DispatcherTypeCorrect == DispatcherSafetySpec => []DispatcherTypeOK
<1>1. DispatcherInv => DispatcherTypeOK
  BY DEF DispatcherInv
<1> QED BY <1>1, DispatcherInvariance, PTL

\* HandlerMetadata's counters count the messages queued or being processed,
\* whatever mixture of sends, refused sends and acks came before.
THEOREM CountersExact == DispatcherSafetySpec => []CountersAgree
<1>1. DispatcherInv => CountersAgree
  BY DEF DispatcherInv
<1> QED BY <1>1, DispatcherInvariance, PTL

\* While the topic is in paused_topics every partition with a handle is
\* paused, failed pause and resume calls included.
THEOREM PauseTruthful == DispatcherSafetySpec => []PausedIsPaused
<1>1. DispatcherInv => PausedIsPaused
  BY DEF DispatcherInv
<1> QED BY <1>1, DispatcherInvariance, PTL

\* A message that a refused send dropped after the partition's first ack
\* keeps the cursor in front of it, so a restart delivers it again.
THEOREM DroppedIsRedelivered == DispatcherSafetySpec => []DroppedHoldsCursor
<1>1. DispatcherInv => DroppedHoldsCursor
  <2> SUFFICES ASSUME DispatcherInv, NEW m \in dropped,
                      m[1] \in registered, base[m[1]] < m[2]
               PROVE  cursor(m[1]) < m[2]
    BY DEF DroppedHoldsCursor
  <2>1. m[1] \in Partitions /\ m[2] \in Offsets /\ m[2] \notin acked[m[1]]
    BY DEF DispatcherInv, DispatcherTypeOK, Placement, Taken, Messages
  <2>2. /\ partitions[m[1]] \in PartitionStates /\ base[m[1]] \in -1 .. MaxOffset
        /\ PartitionInv(partitions[m[1]], acked[m[1]], base[m[1]])
    BY <2>1 DEF DispatcherInv, IInv, TypeOK
  <2>3. ~ (m[2] <= partitions[m[1]].committed_offset)
    BY <2>1, <2>2, MaxOffsetAssumption DEF PartitionInv, Offsets
  <2> QED BY <2>1, <2>2, <2>3, MaxOffsetAssumption
          DEF cursor, PartitionStates, Offsets
<1> QED BY <1>1, DispatcherInvariance, PTL
=============================================================================
