------------------------- MODULE BatchWorkerProofs --------------------------
(***************************************************************************)
(* The batch worker reports every message once and in order, for any set   *)
(* of partitions and any sizes of batches and channel.  The argument: the  *)
(* offsets of a partition from settled to next are lined up behind one     *)
(* another in the batch, the buffer, the hand and the channel, and every   *)
(* step moves messages over one of the borders from the right end of one   *)
(* place to the left end of the next.  A batch is taken out of a buffer    *)
(* only when the batch before it has been reported (StageInv), so nothing  *)
(* overtakes, and the message in hand is not forgotten during a flush.     *)
(* Acks come with the reports (AckedReported), so the cursor, which stands *)
(* on an acked offset, is below everything that is not yet reported.       *)
(***************************************************************************)
EXTENDS BatchWorker, OffsetTrackerProofs, FiniteSetTheorems, SequenceTheorems

InHand(p) == msg # None /\ msg[1] = p

\* The first offset of p that the worker has not taken from the channel.
Front(p) == settled[p] + Len(flushing[p]) + Len(buffers[p])
               + (IF InHand(p) THEN 1 ELSE 0)

\* The offsets below Front(p), in the order of the places they are in.
HeldOf(p) ==
    /\ \A i \in 1 .. Len(flushing[p]) : flushing[p][i] = settled[p] + i - 1
    /\ \A i \in 1 .. Len(buffers[p]) :
          buffers[p][i] = settled[p] + Len(flushing[p]) + i - 1
    /\ InHand(p) => msg[2] = Front(p) - 1

\* The messages of p in the sequence s are those from f up to n, in order.
QueuedIn(s, p, f, n) ==
    /\ f <= n
    /\ \A o \in Offsets : f <= o /\ o < n => \E i \in 1 .. Len(s) : s[i] = <<p, o>>
    /\ \A i \in 1 .. Len(s) : s[i][1] = p => f <= s[i][2] /\ s[i][2] < n
    /\ \A i, j \in 1 .. Len(s) :
          i < j /\ s[i][1] = p /\ s[j][1] = p => s[i][2] < s[j][2]

OrderInv ==
    \A p \in Partitions : HeldOf(p) /\ QueuedIn(rx, p, Front(p), next[p])

\* The loop is at this place, or goes on there after the flush.
At(place) == pc = place \/ (pc \in {"flush", "settle"} /\ resume = place)

\* What the loop has taken out of the buffers and of the channel in each of
\* its states.
StageInv ==
    /\ pc \in {"select", "add", "stopped"} => flushing = Empty
    /\ pc # "aborted" => (msg # None <=> At("add"))
    /\ At("stopped") => IsEmpty
    /\ pc = "settle" => batch # None /\ flushing[batch[1]] # <<>>

\* Only what was reported can have been acked.
AckedReported == \A p \in Partitions : \A o \in acked[p] : o < settled[p]

\* The inductive invariant.
BatchInv ==
    /\ BatchTypeOK /\ IInv
    /\ OrderInv /\ StageInv /\ AckedReported
    /\ InflightIsUnsettled /\ IsFiniteSet(Unsettled)
-----------------------------------------------------------------------------
\* A message is a pair, and not the None of an empty hand.
LEMMA MessagePair ==
    ASSUME NEW m \in Messages
    PROVE  /\ m[1] \in Partitions /\ m[2] \in Offsets /\ m = <<m[1], m[2]>>
           /\ m # None
<1>1. m[1] \in Partitions /\ m[2] \in Offsets /\ m = <<m[1], m[2]>>
  BY DEF Messages
<1>2. Len(m) = 2 /\ Len(<<>>) = 0
  BY <1>1
<1> QED BY <1>1, <1>2 DEF None

\* The offsets of a sequence of messages.
LEMMA MessageAt ==
    ASSUME NEW s \in Seq(Messages), NEW i \in 1 .. Len(s)
    PROVE  /\ s[i] \in Messages /\ s[i][1] \in Partitions /\ s[i][2] \in Offsets
           /\ s[i] = <<s[i][1], s[i][2]>>
<1>1. s[i] \in Messages
  OBVIOUS
<1> QED BY <1>1, MessagePair

\* The channel's first message is the first of its partition.
LEMMA TakeHead ==
    ASSUME NEW s \in Seq(Messages), s # <<>>, NEW p \in Partitions,
           NEW f \in Nat, NEW n \in 0 .. MaxOffset + 1, QueuedIn(s, p, f, n)
    PROVE  /\ Head(s)[1] = p => /\ Head(s)[2] = f /\ f < n
                                 /\ QueuedIn(Tail(s), p, f + 1, n)
           /\ Head(s)[1] # p => QueuedIn(Tail(s), p, f, n)
<1>1. /\ Len(s) \in Nat /\ Len(s) >= 1 /\ Head(s) = s[1]
      /\ Len(Tail(s)) = Len(s) - 1
      /\ \A i \in 1 .. Len(s) - 1 : Tail(s)[i] = s[i + 1]
  OBVIOUS
<1>2. \A i \in 1 .. Len(s) : s[i][2] \in Nat /\ s[i] = <<s[i][1], s[i][2]>>
  BY MessageAt, MaxOffsetAssumption DEF Offsets
<1>3. ASSUME Head(s)[1] = p PROVE Head(s)[2] = f /\ f < n
  <2>1. f <= s[1][2] /\ s[1][2] < n
    BY <1>1, <1>3 DEF QueuedIn
  <2>2. f \in Offsets /\ f <= f /\ f < n
    BY <1>1, <1>2, <2>1, MaxOffsetAssumption DEF Offsets
  <2>3. PICK i \in 1 .. Len(s) : s[i] = <<p, f>>
    BY <2>2, Zenon DEF QueuedIn
  <2>4. s[i][1] = p /\ s[i][2] = f
    BY <2>3
  <2>5. i = 1
    BY <1>1, <1>2, <1>3, <2>1, <2>4 DEF QueuedIn
  <2> QED BY <1>1, <2>2, <2>4, <2>5
<1>4. ASSUME NEW g \in {f, f + 1}, g = f + 1 <=> Head(s)[1] = p
      PROVE  QueuedIn(Tail(s), p, g, n)
  <2>1. g <= n
    BY <1>3, <1>4 DEF QueuedIn
  <2>2. ASSUME NEW o \in Offsets, g <= o, o < n
        PROVE  \E i \in 1 .. Len(Tail(s)) : Tail(s)[i] = <<p, o>>
    <3>1. o \in Nat /\ f <= o
      BY <1>4, <2>2, MaxOffsetAssumption DEF Offsets
    <3>2. PICK i \in 1 .. Len(s) : s[i] = <<p, o>>
      BY <2>2, <3>1 DEF QueuedIn
    <3>3. i # 1
      <4>1. s[i][1] = p /\ s[i][2] = o
        BY <3>2
      <4> QED BY <1>1, <1>3, <1>4, <2>2, <3>1, <4>1
    <3>4. i - 1 \in 1 .. Len(Tail(s)) /\ Tail(s)[i - 1] = <<p, o>>
      BY <1>1, <3>2, <3>3
    <3> QED BY <3>4
  <2>3. ASSUME NEW i \in 1 .. Len(Tail(s)), Tail(s)[i][1] = p
        PROVE  g <= Tail(s)[i][2] /\ Tail(s)[i][2] < n
    <3>1. i + 1 \in 1 .. Len(s) /\ 1 \in 1 .. Len(s) /\ Tail(s)[i] = s[i + 1]
      BY <1>1
    <3>2. f <= s[i + 1][2] /\ s[i + 1][2] < n
      BY <2>3, <3>1 DEF QueuedIn
    <3>3. Head(s)[1] = p => f < s[i + 1][2]
      BY <1>1, <1>2, <1>3, <2>3, <3>1 DEF QueuedIn
    <3> QED BY <1>2, <1>4, <3>1, <3>2, <3>3
  <2>4. ASSUME NEW i \in 1 .. Len(Tail(s)), NEW j \in 1 .. Len(Tail(s)), i < j,
               Tail(s)[i][1] = p, Tail(s)[j][1] = p
        PROVE  Tail(s)[i][2] < Tail(s)[j][2]
    <3>1. /\ i + 1 \in 1 .. Len(s) /\ j + 1 \in 1 .. Len(s) /\ i + 1 < j + 1
          /\ Tail(s)[i] = s[i + 1] /\ Tail(s)[j] = s[j + 1]
      BY <1>1, <2>4
    <3> QED BY <2>4, <3>1 DEF QueuedIn
  <2> QED BY <2>1, <2>2, <2>3, <2>4 DEF QueuedIn
<1> QED BY <1>3, <1>4

\* A message sent to the channel is the last of its partition.
LEMMA AddLast ==
    ASSUME NEW s \in Seq(Messages), NEW p \in Partitions, NEW q \in Partitions,
           NEW f \in Nat, NEW n \in 0 .. MaxOffset + 1, NEW o \in Offsets,
           QueuedIn(s, p, f, n), q = p => o = n
    PROVE  QueuedIn(Append(s, <<q, o>>), p, f, IF q = p THEN n + 1 ELSE n)
<1> DEFINE t == Append(s, <<q, o>>)
           k == IF q = p THEN n + 1 ELSE n
<1>1. <<q, o>> \in Messages
  BY DEF Messages
<1>2. /\ Len(s) \in Nat /\ Len(t) = Len(s) + 1 /\ t[Len(s) + 1] = <<q, o>>
      /\ \A i \in 1 .. Len(s) : t[i] = s[i]
  BY <1>1
<1> HIDE DEF t
<1>3. \A i \in 1 .. Len(s) : s[i][2] \in Nat
  BY MessageAt, MaxOffsetAssumption DEF Offsets
<1>4. f <= k
  BY DEF QueuedIn
<1>5. ASSUME NEW x \in Offsets, f <= x, x < k
      PROVE  \E i \in 1 .. Len(t) : t[i] = <<p, x>>
  <2>1. CASE x < n
    <3>1. PICK i \in 1 .. Len(s) : s[i] = <<p, x>>
      BY <1>5, <2>1 DEF QueuedIn
    <3>2. i \in 1 .. Len(t) /\ t[i] = <<p, x>>
      BY <1>2, <3>1
    <3> QED BY <3>2
  <2>2. CASE ~ (x < n)
    <3>1. q = p /\ x = o
      BY <1>5, <2>2, MaxOffsetAssumption DEF Offsets
    <3>2. Len(s) + 1 \in 1 .. Len(t)
      BY <1>2
    <3> QED BY <1>2, <3>1, <3>2
  <2> QED BY <2>1, <2>2
<1>6. ASSUME NEW i \in 1 .. Len(t), t[i][1] = p
      PROVE  f <= t[i][2] /\ t[i][2] < k
  <2>1. CASE i \in 1 .. Len(s)
    BY <1>2, <1>3, <1>6, <2>1 DEF QueuedIn
  <2>2. CASE i = Len(s) + 1
    <3>1. t[i][1] = q /\ t[i][2] = o
      BY <1>2, <2>2
    <3> QED BY <1>6, <3>1 DEF QueuedIn
  <2> QED BY <1>2, <2>1, <2>2
<1>7. ASSUME NEW i \in 1 .. Len(t), NEW j \in 1 .. Len(t), i < j,
             t[i][1] = p, t[j][1] = p
      PROVE  t[i][2] < t[j][2]
  <2>1. i \in 1 .. Len(s) /\ t[i] = s[i]
    BY <1>2, <1>7
  <2>2. CASE j \in 1 .. Len(s)
    BY <1>2, <1>7, <2>1, <2>2 DEF QueuedIn
  <2>3. CASE j = Len(s) + 1
    <3>1. t[j][1] = q /\ t[j][2] = o
      BY <1>2, <2>3
    <3> QED BY <1>7, <2>1, <3>1 DEF QueuedIn
  <2> QED BY <1>2, <2>2, <2>3
<1> QED BY <1>4, <1>5, <1>6, <1>7 DEF QueuedIn, t
-----------------------------------------------------------------------------
\* Empty buffers.
LEMMA EmptyBuffers ==
    /\ Empty \in [Partitions -> Seq(Offsets)]
    /\ \A p \in Partitions : Empty[p] = <<>> /\ Len(Empty[p]) = 0
  BY DEF Empty

\* The sizes that the order of a partition is stated with.
LEMMA Sizes ==
    ASSUME BatchTypeOK, NEW p \in Partitions
    PROVE  /\ flushing[p] \in Seq(Offsets) /\ buffers[p] \in Seq(Offsets)
           /\ Len(flushing[p]) \in Nat /\ Len(buffers[p]) \in Nat
           /\ settled[p] \in Nat /\ settled[p] <= MaxOffset + 1
           /\ next[p] \in Nat /\ next[p] \in 0 .. MaxOffset + 1
           /\ Front(p) \in Nat
<1>1. /\ flushing[p] \in Seq(Offsets) /\ buffers[p] \in Seq(Offsets)
      /\ settled[p] \in 0 .. MaxOffset + 1 /\ next[p] \in 0 .. MaxOffset + 1
  BY DEF BatchTypeOK
<1>2. Len(flushing[p]) \in Nat /\ Len(buffers[p]) \in Nat
  BY <1>1
<1>3. settled[p] \in Nat /\ next[p] \in Nat /\ settled[p] <= MaxOffset + 1
  BY <1>1, MaxOffsetAssumption
<1>4. Front(p) \in Nat
  BY <1>2, <1>3 DEF Front
<1> QED BY <1>1, <1>2, <1>3, <1>4

\* Nothing has been sent.
LEMMA BatchInitInvariant == BatchInit => BatchInv
<1> SUFFICES ASSUME BatchInit PROVE BatchInv
  OBVIOUS
<1>1. IInv /\ TypeOK
  BY InitInvariant DEF BatchInit, IInv
<1>2. \A p \in Partitions :
         /\ flushing[p] = <<>> /\ buffers[p] = <<>> /\ next[p] = 0 /\ settled[p] = 0
         /\ Len(flushing[p]) = 0 /\ Len(buffers[p]) = 0
  BY EmptyBuffers DEF BatchInit
<1>3. BatchTypeOK
  <2>1. /\ next \in [Partitions -> 0 .. MaxOffset + 1]
        /\ settled \in [Partitions -> 0 .. MaxOffset + 1]
    BY MaxOffsetAssumption DEF BatchInit
  <2>2. rx \in Seq(Messages) /\ Len(rx) <= Capacity
    BY BatchAssumption DEF BatchInit
  <2>3. \A p \in Partitions : Len(buffers[p]) < MaxBatchSize
    BY <1>2, BatchAssumption
  <2>4. /\ buffers \in [Partitions -> Seq(Offsets)]
        /\ flushing \in [Partitions -> Seq(Offsets)]
    BY EmptyBuffers DEF BatchInit
  <2> QED BY <1>1, <2>1, <2>2, <2>3, <2>4 DEF BatchInit, BatchTypeOK
<1>4. OrderInv
  <2> SUFFICES ASSUME NEW p \in Partitions
               PROVE  HeldOf(p) /\ QueuedIn(rx, p, Front(p), next[p])
    BY DEF OrderInv
  <2>1. ~ InHand(p) /\ Front(p) = 0 /\ Len(rx) = 0
    BY <1>2 DEF BatchInit, InHand, Front
  <2> QED BY <1>2, <2>1 DEF HeldOf, QueuedIn, Offsets
<1>5. StageInv
  BY DEF BatchInit, StageInv, At, IsEmpty
<1>6. Unsettled = {}
  <2> SUFFICES ASSUME NEW m \in Unsettled PROVE FALSE
    OBVIOUS
  <2>1. m \in Messages /\ settled[m[1]] <= m[2] /\ m[2] < next[m[1]]
    BY DEF Unsettled
  <2> QED BY <1>2, <2>1, MessagePair DEF Offsets
<1>7. InflightIsUnsettled /\ IsFiniteSet(Unsettled)
  BY <1>6, FS_EmptySet DEF BatchInit, InflightIsUnsettled
<1>8. AckedReported
  BY DEF BatchInit, Init, AckedReported
<1> QED BY <1>1, <1>3, <1>4, <1>5, <1>7, <1>8 DEF BatchInv

\* Steps that neither take nor move a message.
LEMMA QuietKeeps ==
    ASSUME BatchInv, StageInv',
           UNCHANGED <<trackerVars, queueVars, buffers, msg, flushing, resultVars>>,
           deadline' \in [Partitions -> {"none", "ahead", "passed"}],
           UNCHANGED batch_state,
           pc' \in {"select", "add", "flush", "settle", "stopped", "aborted"},
           batch' \in (Partitions \X (Categories \cup {"AllSuccess"})) \cup {None},
           UNCHANGED resume, cancelled' \in BOOLEAN
    PROVE  BatchInv'
<1>1. UNCHANGED <<registered, partitions, acked, base, next, rx, inflight, routed,
                  settled>>
  BY DEF trackerVars, queueVars, resultVars
<1>2. BatchTypeOK'
  BY <1>1 DEF BatchInv, BatchTypeOK, TypeOK
<1>3. IInv'
  BY <1>1 DEF BatchInv, IInv, TypeOK
<1>4. OrderInv'
  BY <1>1 DEF BatchInv, OrderInv, HeldOf, Front, InHand
<1>5. InflightIsUnsettled' /\ IsFiniteSet(Unsettled)'
  BY <1>1 DEF BatchInv, InflightIsUnsettled, Unsettled
<1>6. AckedReported'
  BY <1>1 DEF BatchInv, AckedReported
<1> QED BY <1>2, <1>3, <1>4, <1>5, <1>6 DEF BatchInv

\* The dispatcher sends: the message goes behind the others of its partition.
LEMMA DispatchKeeps ==
    ASSUME BatchInv, NEW p \in Partitions, Dispatch(p)
    PROVE  BatchInv'
<1> DEFINE m == <<p, next[p]>>
<1>1. /\ next[p] <= MaxOffset /\ Len(rx) < Capacity /\ rx' = Append(rx, m)
      /\ next' = [next EXCEPT ![p] = next[p] + 1] /\ inflight' = inflight + 1
      /\ UNCHANGED <<trackerVars, buffers, deadline, loopVars, resultVars, cancelled>>
  BY DEF Dispatch, bufferVars
<1>2. UNCHANGED <<registered, partitions, acked, base, batch_state, pc, msg, flushing,
                  batch, resume, routed, settled>>
  BY <1>1 DEF trackerVars, loopVars, resultVars
<1>3. BatchTypeOK /\ rx \in Seq(Messages)
  BY DEF BatchInv, BatchTypeOK
<1>4. next[p] \in Offsets /\ m \in Messages
  BY <1>1, <1>3, Sizes, MaxOffsetAssumption DEF Offsets, Messages
<1>5. rx' \in Seq(Messages) /\ Len(rx') <= Capacity
  BY <1>1, <1>3, <1>4, BatchAssumption
<1>6. next' \in [Partitions -> 0 .. MaxOffset + 1] /\ inflight' \in Nat
  BY <1>1, <1>3, MaxOffsetAssumption DEF BatchTypeOK
<1>7. BatchTypeOK'
  BY <1>1, <1>2, <1>3, <1>5, <1>6 DEF BatchTypeOK, TypeOK
<1>8. IInv'
  BY <1>2 DEF BatchInv, IInv, TypeOK
<1>9. \A q \in Partitions : next'[q] = IF p = q THEN next[q] + 1 ELSE next[q]
  BY <1>1, <1>3 DEF BatchTypeOK
<1>10. OrderInv'
  <2> SUFFICES ASSUME NEW q \in Partitions
               PROVE  HeldOf(q)' /\ QueuedIn(rx', q, Front(q)', next'[q])
    BY DEF OrderInv
  <2>1. HeldOf(q) /\ QueuedIn(rx, q, Front(q), next[q])
    BY DEF BatchInv, OrderInv
  <2>2. HeldOf(q)' /\ Front(q)' = Front(q)
    BY <1>1, <1>2, <2>1 DEF HeldOf, Front, InHand
  <2>3. Front(q) \in Nat /\ next[q] \in 0 .. MaxOffset + 1
    BY <1>3, Sizes
  <2>4. QueuedIn(Append(rx, m), q, Front(q), IF p = q THEN next[q] + 1 ELSE next[q])
    BY <1>3, <1>4, <2>1, <2>3, AddLast
  <2> QED BY <1>1, <1>9, <2>2, <2>4
<1>11. StageInv'
  BY <1>1, <1>2 DEF BatchInv, StageInv, At, IsEmpty
<1>12. Unsettled' = Unsettled \cup {m} /\ m \notin Unsettled
  <2>1. m[1] = p /\ m[2] = next[p] /\ settled[p] <= next[p]
    <3>1. Front(p) <= next[p]
      BY DEF BatchInv, OrderInv, QueuedIn
    <3> QED BY <1>3, <3>1, Sizes DEF Front
  <2>2. m \notin Unsettled
    BY <1>3, <2>1, Sizes DEF Unsettled
  <2>3. ASSUME NEW x \in Messages PROVE x \in Unsettled' <=> x \in Unsettled \cup {m}
    <3>1. x[1] \in Partitions /\ x[2] \in Offsets /\ x = <<x[1], x[2]>>
      BY MessagePair
    <3>2. x = m <=> x[1] = p /\ x[2] = next[p]
      BY <3>1
    <3>3. x[2] \in Nat /\ next[x[1]] \in Nat
      BY <1>3, <3>1, Sizes, MaxOffsetAssumption DEF Offsets
    <3>4. x \in Unsettled' <=> settled[x[1]] <= x[2] /\ x[2] < next'[x[1]]
      BY <1>2 DEF Unsettled
    <3>5. CASE x[1] = p
      BY <1>9, <2>1, <3>1, <3>2, <3>3, <3>4, <3>5 DEF Unsettled
    <3>6. CASE x[1] # p
      BY <1>9, <3>1, <3>2, <3>4, <3>6 DEF Unsettled
    <3> QED BY <3>5, <3>6
  <2>4. Unsettled' \subseteq Messages /\ Unsettled \cup {m} \subseteq Messages
    BY <1>4 DEF Unsettled
  <2> QED BY <2>2, <2>3, <2>4
<1>13. InflightIsUnsettled' /\ IsFiniteSet(Unsettled)'
  <2>1. IsFiniteSet(Unsettled) /\ inflight = Cardinality(Unsettled)
    BY DEF BatchInv, InflightIsUnsettled
  <2>2. IsFiniteSet(Unsettled') /\ Cardinality(Unsettled') = Cardinality(Unsettled) + 1
    BY <1>12, <2>1, FS_AddElement
  <2> QED BY <1>1, <2>1, <2>2 DEF InflightIsUnsettled
<1>14. AckedReported'
  BY <1>2 DEF BatchInv, AckedReported
<1> QED BY <1>7, <1>8, <1>10, <1>11, <1>13, <1>14 DEF BatchInv

\* The two things a branch of the select may do to the messages.
MayFlush ==
    \/ flushing' = flushing /\ buffers' = buffers
    \/ flushing' = buffers /\ buffers' = Empty

MayTake ==
    \/ rx' = rx /\ msg' = msg
    \/ rx # <<>> /\ msg' = Head(rx) /\ rx' = Tail(rx)

\* At the select the worker has only its buffers.  A flush moves them to the
\* batches, and the message taken from the channel goes behind them.
LEMMA SelectOrder ==
    ASSUME BatchInv, pc = "select", UNCHANGED <<next, settled>>, MayFlush, MayTake
    PROVE  /\ OrderInv'
           /\ flushing' \in [Partitions -> Seq(Offsets)]
           /\ buffers' \in [Partitions -> Seq(Offsets)]
           /\ \A p \in Partitions : Len(buffers'[p]) < MaxBatchSize
           /\ rx' \in Seq(Messages) /\ Len(rx') <= Capacity
           /\ msg' \in Messages \cup {None}
<1>1. /\ BatchTypeOK /\ flushing = Empty /\ msg = None
      /\ rx \in Seq(Messages) /\ Len(rx) <= Capacity /\ Capacity \in Nat
      /\ buffers \in [Partitions -> Seq(Offsets)]
      /\ \A p \in Partitions : Len(buffers[p]) < MaxBatchSize
  BY BatchAssumption DEF BatchInv, BatchTypeOK, StageInv, At
<1>2. /\ flushing' \in [Partitions -> Seq(Offsets)]
      /\ buffers' \in [Partitions -> Seq(Offsets)]
      /\ \A p \in Partitions : Len(buffers'[p]) < MaxBatchSize
  BY <1>1, EmptyBuffers, BatchAssumption DEF MayFlush
<1>3. rx # <<>> => Head(rx) \in Messages /\ Head(rx) # None
  <2>1. rx # <<>> => Head(rx) \in Messages
    BY <1>1
  <2> QED BY <2>1, MessagePair
<1>4. /\ rx' \in Seq(Messages) /\ Len(rx') <= Capacity
      /\ msg' \in Messages \cup {None}
  <2>1. CASE rx' = rx /\ msg' = msg
    BY <1>1, <2>1
  <2>2. CASE rx # <<>> /\ msg' = Head(rx) /\ rx' = Tail(rx)
    <3>1. Tail(rx) \in Seq(Messages) /\ Len(Tail(rx)) <= Capacity
      BY <1>1, <2>2
    <3> QED BY <1>1, <1>3, <2>2, <3>1
  <2> QED BY <2>1, <2>2 DEF MayTake
<1>5. ASSUME NEW p \in Partitions
      PROVE  HeldOf(p)' /\ QueuedIn(rx', p, Front(p)', next'[p])
  <2>1. HeldOf(p) /\ QueuedIn(rx, p, Front(p), next[p])
    BY DEF BatchInv, OrderInv
  <2>2. /\ Len(flushing[p]) = 0 /\ ~ InHand(p)
        /\ Front(p) = settled[p] + Len(buffers[p])
        /\ Len(buffers[p]) \in Nat /\ settled[p] \in Nat /\ Front(p) \in Nat
        /\ next[p] \in 0 .. MaxOffset + 1
    BY <1>1, EmptyBuffers, Sizes DEF InHand, Front
  <2>0. settled'[p] = settled[p] /\ next'[p] = next[p]
    OBVIOUS
  <2>3. \A i \in 1 .. Len(buffers[p]) : buffers[p][i] = settled[p] + i - 1
    BY <2>1, <2>2 DEF HeldOf
  <2>4. /\ Len(flushing'[p]) + Len(buffers'[p]) = Len(buffers[p])
        /\ \A i \in 1 .. Len(flushing'[p]) : flushing'[p][i] = settled'[p] + i - 1
        /\ \A i \in 1 .. Len(buffers'[p]) :
              buffers'[p][i] = settled'[p] + Len(flushing'[p]) + i - 1
        /\ Len(flushing'[p]) \in Nat /\ Len(buffers'[p]) \in Nat
    <3>1. CASE flushing' = flushing /\ buffers' = buffers
      <4>1. Len(flushing'[p]) = 0 /\ Len(buffers'[p]) = Len(buffers[p])
        BY <2>2, <3>1
      <4>2. \A i \in 1 .. Len(buffers'[p]) :
               buffers'[p][i] = settled'[p] + Len(flushing'[p]) + i - 1
        BY <2>0, <2>2, <2>3, <3>1, <4>1
      <4>3. \A i \in 1 .. Len(flushing'[p]) : flushing'[p][i] = settled'[p] + i - 1
        BY <4>1
      <4> QED BY <2>2, <4>1, <4>2, <4>3
    <3>2. CASE flushing' = buffers /\ buffers' = Empty
      <4>1. Len(buffers'[p]) = 0
        BY <3>2, EmptyBuffers
      <4> QED BY <2>0, <2>2, <2>3, <3>2, <4>1
    <3> QED BY <3>1, <3>2 DEF MayFlush
  <2>5. Front(p)' = Front(p) + (IF InHand(p)' THEN 1 ELSE 0)
    <3>1. Front(p)' = settled'[p] + Len(flushing'[p]) + Len(buffers'[p])
                         + (IF InHand(p)' THEN 1 ELSE 0)
      BY DEF Front
    <3>2. settled'[p] + Len(flushing'[p]) + Len(buffers'[p]) = Front(p)
      <4>1. /\ Len(flushing'[p]) + Len(buffers'[p]) = Len(buffers[p])
            /\ Len(flushing'[p]) \in Nat /\ Len(buffers'[p]) \in Nat
        BY <2>4
      <4>2. Front(p) = settled'[p] + Len(buffers[p]) /\ settled'[p] \in Nat
        BY <2>0, <2>2
      <4> DEFINE a == settled'[p]
                 x == Len(flushing'[p])
                 y == Len(buffers'[p])
      <4>3. a \in Nat /\ x \in Nat /\ y \in Nat /\ Front(p) = a + (x + y)
        BY <4>1, <4>2
      <4> HIDE DEF a, x, y
      <4>4. a + x + y = Front(p)
        BY <4>3
      <4> QED BY <4>4 DEF a, x, y
    <3> QED BY <3>1, <3>2
  <2>6. CASE ~ InHand(p)'
    <3>1. Front(p)' = Front(p) /\ HeldOf(p)'
      BY <2>2, <2>4, <2>5, <2>6 DEF HeldOf
    <3>2. QueuedIn(rx', p, Front(p), next[p])
      <4>1. CASE rx' = rx
        BY <2>1, <4>1
      <4>2. CASE rx # <<>> /\ msg' = Head(rx) /\ rx' = Tail(rx)
        <5>1. Head(rx)[1] # p
          BY <1>3, <2>6, <4>2 DEF InHand
        <5> QED BY <1>1, <2>1, <2>2, <4>2, <5>1, TakeHead
      <4> QED BY <4>1, <4>2 DEF MayTake
    <3> QED BY <2>0, <3>1, <3>2
  <2>7. CASE InHand(p)'
    <3>1. rx # <<>> /\ msg' = Head(rx) /\ rx' = Tail(rx) /\ Head(rx)[1] = p
      BY <1>1, <2>7 DEF InHand, MayTake
    <3>2. Head(rx)[2] = Front(p) /\ QueuedIn(Tail(rx), p, Front(p) + 1, next[p])
      BY <1>1, <2>1, <2>2, <3>1, TakeHead
    <3>3. Front(p)' = Front(p) + 1
      BY <2>5, <2>7
    <3>4. HeldOf(p)'
      BY <2>2, <2>4, <2>7, <3>1, <3>2, <3>3 DEF HeldOf
    <3> QED BY <2>0, <3>1, <3>2, <3>3, <3>4
  <2> QED BY <2>6, <2>7
<1> QED BY <1>2, <1>4, <1>5 DEF OrderInv

\* The branches of the select: a deadline, a message with the queue at
\* capacity or below it, and the cancellation.
LEMMA SelectKeeps ==
    ASSUME BatchInv,
           DeadlineFires \/ ReceiveAtCapacity \/ Receive \/ CancelledDrains
    PROVE  BatchInv'
<1>1. /\ pc = "select" /\ UNCHANGED <<trackerVars, next, inflight, deadline, batch,
                                      resultVars, cancelled>>
      /\ \/ flushing' = flushing /\ buffers' = buffers
            /\ pc' = "add" /\ resume' = resume
         \/ flushing' = buffers /\ buffers' = Empty /\ pc' = "flush"
      /\ \/ rx' = rx /\ msg' = msg /\ pc' = "flush"
            /\ resume' \in {"select", "stopped"}
         \/ rx # <<>> /\ msg' = Head(rx) /\ rx' = Tail(rx)
            /\ (pc' = "add" \/ resume' = "add")
      /\ batch_state' \in {"Normal", "Backpressure"}
      /\ resume' \in {"select", "add", "stopped"}
  <2>0. resume \in {"select", "add", "stopped"} /\
        batch_state \in {"Normal", "Backpressure"}
    BY DEF BatchInv, BatchTypeOK
  <2>1. CASE DeadlineFires
    BY <2>0, <2>1 DEF DeadlineFires, flush_all, queueVars
  <2>2. CASE ReceiveAtCapacity
    BY <2>0, <2>2 DEF ReceiveAtCapacity, flush_all
  <2>3. CASE Receive
    BY <2>0, <2>3 DEF Receive, bufferVars
  <2>4. CASE CancelledDrains
    BY <2>0, <2>4 DEF CancelledDrains, flush_all, queueVars
  <2> QED BY <2>1, <2>2, <2>3, <2>4
<1>2. UNCHANGED <<registered, partitions, acked, base, next, inflight, deadline,
                  batch, routed, settled, cancelled>>
  BY <1>1 DEF trackerVars, resultVars
<1>3. /\ OrderInv'
      /\ flushing' \in [Partitions -> Seq(Offsets)]
      /\ buffers' \in [Partitions -> Seq(Offsets)]
      /\ \A p \in Partitions : Len(buffers'[p]) < MaxBatchSize
      /\ rx' \in Seq(Messages) /\ Len(rx') <= Capacity
      /\ msg' \in Messages \cup {None}
  BY <1>1, <1>2, SelectOrder DEF MayFlush, MayTake
<1>4. BatchTypeOK'
  BY <1>1, <1>2, <1>3 DEF BatchInv, BatchTypeOK, TypeOK
<1>5. IInv'
  BY <1>2 DEF BatchInv, IInv, TypeOK
<1>6. StageInv'
  <2>1. flushing = Empty /\ msg = None
    BY <1>1 DEF BatchInv, StageInv, At
  <2>2. rx # <<>> /\ msg' = Head(rx) => msg' # None
    <3>1. rx # <<>> => Head(rx) \in Messages
      BY DEF BatchInv, BatchTypeOK
    <3> QED BY <3>1, MessagePair
  <2> QED BY <1>1, <2>1, <2>2 DEF StageInv, At, IsEmpty
<1>7. InflightIsUnsettled' /\ IsFiniteSet(Unsettled)'
  BY <1>2 DEF BatchInv, InflightIsUnsettled, Unsettled
<1>8. AckedReported'
  BY <1>2 DEF BatchInv, AckedReported
<1> QED BY <1>3, <1>4, <1>5, <1>6, <1>7, <1>8 DEF BatchInv

\* The message in hand goes to the end of its buffer, or with the buffer to
\* the batch when that makes it full.
LEMMA AddKeeps == ASSUME BatchInv, Add PROVE BatchInv'
<1> DEFINE p == msg[1]
           batched == Append(buffers[p], msg[2])
<1>1. /\ pc = "add" /\ BatchTypeOK /\ flushing = Empty /\ msg # None
      /\ msg \in Messages
  BY DEF Add, BatchInv, BatchTypeOK, StageInv, At
<1>2. p \in Partitions /\ msg[2] \in Offsets
  BY <1>1, MessagePair
<1>3. /\ \/ /\ flushing' = [Empty EXCEPT ![p] = batched]
            /\ buffers' = [buffers EXCEPT ![p] = <<>>]
            /\ pc' = "flush" /\ resume' = "select"
         \/ /\ flushing' = flushing
            /\ buffers' = [buffers EXCEPT ![p] = batched]
            /\ pc' = "select" /\ resume' = resume
            /\ ~ FullAfterAdd(p)
      /\ deadline' = [deadline EXCEPT ![p] = StartTimer(p)]
      /\ msg' = None
      /\ UNCHANGED <<trackerVars, queueVars, batch_state, batch, resultVars, cancelled>>
  BY DEF Add
<1>4. UNCHANGED <<registered, partitions, acked, base, next, rx, inflight, routed,
                  settled>>
  BY <1>3 DEF trackerVars, queueVars, resultVars
<1>5. /\ buffers[p] \in Seq(Offsets) /\ Len(buffers[p]) \in Nat
      /\ batched \in Seq(Offsets) /\ Len(batched) = Len(buffers[p]) + 1
      /\ \A i \in 1 .. Len(buffers[p]) : batched[i] = buffers[p][i]
      /\ batched[Len(buffers[p]) + 1] = msg[2]
  BY <1>1, <1>2, Sizes
<1>6. \A q \in Partitions :
         /\ InHand(q) <=> q = p
         /\ Len(flushing[q]) = 0
         /\ Front(q) = settled[q] + Len(buffers[q]) + (IF q = p THEN 1 ELSE 0)
         /\ \A i \in 1 .. Len(buffers[q]) : buffers[q][i] = settled[q] + i - 1
  <2> TAKE q \in Partitions
  <2>1. InHand(q) <=> q = p
    BY <1>1 DEF InHand
  <2>2. Len(flushing[q]) = 0 /\ Len(buffers[q]) \in Nat /\ settled[q] \in Nat
    BY <1>1, EmptyBuffers, Sizes
  <2>3. HeldOf(q)
    BY DEF BatchInv, OrderInv
  <2> QED BY <2>1, <2>2, <2>3 DEF Front, HeldOf
<1>7. msg[2] = settled[p] + Len(buffers[p]) /\ settled[p] \in Nat
  <2>1. HeldOf(p) /\ InHand(p)
    BY <1>2, <1>6 DEF BatchInv, OrderInv
  <2>2. settled[p] \in Nat
    BY <1>1, <1>2, Sizes
  <2> QED BY <1>2, <1>5, <1>6, <2>1, <2>2 DEF HeldOf
<1>8. \A i \in 1 .. Len(batched) : batched[i] = settled[p] + i - 1
  <2> TAKE i \in 1 .. Len(batched)
  <2>1. CASE i \in 1 .. Len(buffers[p])
    BY <1>2, <1>5, <1>6, <2>1
  <2>2. CASE i = Len(buffers[p]) + 1
    BY <1>5, <1>7, <2>2
  <2> QED BY <1>5, <2>1, <2>2
<1> HIDE DEF p, batched
<1>9. ASSUME NEW q \in Partitions
      PROVE  \/ /\ flushing'[q] = <<>> /\ q # p
                /\ buffers'[q] = buffers[q]
             \/ /\ flushing'[q] = <<>> /\ q = p
                /\ buffers'[q] = batched /\ ~ FullAfterAdd(p)
             \/ /\ flushing'[q] = batched /\ q = p
                /\ buffers'[q] = <<>>
  <2>1. flushing[q] = <<>> /\ Empty[q] = <<>>
    BY <1>1, EmptyBuffers
  <2>2. buffers \in [Partitions -> Seq(Offsets)]
    BY <1>1 DEF BatchTypeOK
  <2> QED BY <1>2, <1>3, <2>1, <2>2, EmptyBuffers
<1>10. /\ flushing' \in [Partitions -> Seq(Offsets)]
       /\ buffers' \in [Partitions -> Seq(Offsets)]
  <2>1. /\ buffers \in [Partitions -> Seq(Offsets)]
        /\ flushing \in [Partitions -> Seq(Offsets)]
    BY <1>1 DEF BatchTypeOK
  <2> QED BY <1>2, <1>3, <1>5, <2>1, EmptyBuffers
<1>11. \A q \in Partitions : Len(buffers'[q]) < MaxBatchSize
  <2>1. ~ FullAfterAdd(p) => Len(batched) < MaxBatchSize
    BY <1>5, BatchAssumption DEF FullAfterAdd
  <2>2. \A q \in Partitions : Len(buffers[q]) < MaxBatchSize
    BY <1>1 DEF BatchTypeOK
  <2>3. Len(<<>>) < MaxBatchSize
    BY BatchAssumption
  <2> QED BY <1>9, <2>1, <2>2, <2>3
<1>12. BatchTypeOK'
  <2>1. deadline' \in [Partitions -> {"none", "ahead", "passed"}]
    BY <1>1, <1>2, <1>3 DEF BatchTypeOK, StartTimer
  <2>2. /\ pc' \in {"select", "flush"} /\ resume' \in {"select", "add", "stopped"}
    BY <1>1, <1>3 DEF BatchTypeOK
  <2> QED BY <1>1, <1>3, <1>4, <1>10, <1>11, <2>1, <2>2 DEF BatchTypeOK, TypeOK
<1>13. IInv'
  BY <1>4 DEF BatchInv, IInv, TypeOK
<1>14. ASSUME NEW q \in Partitions
       PROVE  HeldOf(q)' /\ QueuedIn(rx', q, Front(q)', next'[q])
  <2>1. QueuedIn(rx, q, Front(q), next[q])
    BY DEF BatchInv, OrderInv
  <2>2. Len(buffers[q]) \in Nat /\ settled[q] \in Nat /\ settled'[q] = settled[q]
    BY <1>1, <1>4, Sizes
  <2>3. ~ InHand(q)'
    BY <1>3 DEF InHand
  <2>4. Front(q)' = settled'[q] + Len(flushing'[q]) + Len(buffers'[q])
    <3>1. Len(flushing'[q]) \in Nat /\ Len(buffers'[q]) \in Nat
      BY <1>10
    <3> QED BY <2>2, <2>3, <3>1 DEF Front
  <2>5. CASE flushing'[q] = <<>> /\ q # p /\ buffers'[q] = buffers[q]
    <3>1. Len(flushing'[q]) = 0 /\ Front(q)' = Front(q)
      BY <1>6, <2>2, <2>4, <2>5
    <3>2. HeldOf(q)'
      BY <1>6, <2>2, <2>3, <2>5, <3>1 DEF HeldOf
    <3> QED BY <1>4, <2>1, <3>1, <3>2
  <2>6. CASE flushing'[q] = <<>> /\ q = p /\ buffers'[q] = batched
    <3>1. Len(flushing'[q]) = 0 /\ Front(q)' = Front(q)
      BY <1>5, <1>6, <2>2, <2>4, <2>6
    <3>2. HeldOf(q)'
      BY <1>5, <1>8, <2>2, <2>3, <2>6, <3>1 DEF HeldOf
    <3> QED BY <1>4, <2>1, <3>1, <3>2
  <2>7. CASE flushing'[q] = batched /\ q = p /\ buffers'[q] = <<>>
    <3>1. Len(buffers'[q]) = 0 /\ Front(q)' = Front(q)
      BY <1>5, <1>6, <2>2, <2>4, <2>7
    <3>2. HeldOf(q)'
      BY <1>5, <1>8, <2>2, <2>3, <2>7, <3>1 DEF HeldOf
    <3> QED BY <1>4, <2>1, <3>1, <3>2
  <2> QED BY <1>9, <2>5, <2>6, <2>7
<1>15. StageInv'
  BY <1>1, <1>3 DEF StageInv, At
<1>16. InflightIsUnsettled' /\ IsFiniteSet(Unsettled)'
  BY <1>4 DEF BatchInv, InflightIsUnsettled, Unsettled
<1>17. AckedReported'
  BY <1>4 DEF BatchInv, AckedReported
<1> QED BY <1>12, <1>13, <1>14, <1>15, <1>16, <1>17 DEF BatchInv, OrderInv

\* A batch that is being reported has a message left, the oldest of its
\* partition.
LEMMA NextToSettle ==
    ASSUME BatchInv, pc = "settle", NEW p \in Partitions, NEW x, batch = <<p, x>>
    PROVE  /\ flushing[p] # <<>> /\ Head(flushing[p]) = settled[p]
           /\ settled[p] \in Offsets /\ settled[p] < next[p]
<1>1. /\ BatchTypeOK /\ HeldOf(p) /\ QueuedIn(rx, p, Front(p), next[p])
      /\ flushing[p] # <<>>
  BY DEF BatchInv, OrderInv, StageInv
<1>2. /\ flushing[p] \in Seq(Offsets) /\ Len(flushing[p]) \in Nat
      /\ Len(buffers[p]) \in Nat /\ settled[p] \in Nat /\ next[p] \in Nat
      /\ next[p] <= MaxOffset + 1
  BY <1>1, Sizes
<1>3. Len(flushing[p]) >= 1 /\ Head(flushing[p]) = flushing[p][1]
  BY <1>1, <1>2
<1>4. flushing[p][1] = settled[p]
  BY <1>1, <1>2, <1>3 DEF HeldOf
<1>5. settled[p] < next[p]
  <2>1. Front(p) <= next[p]
    BY <1>1 DEF QueuedIn
  <2> QED BY <1>2, <1>3, <2>1 DEF Front
<1> QED BY <1>1, <1>2, <1>3, <1>4, <1>5, MaxOffsetAssumption DEF Offsets

\* The oldest message of a partition is reported and counted down.
LEMMA SettleKeeps ==
    ASSUME BatchInv, pc = "settle", NEW p \in Partitions, NEW x, batch = <<p, x>>,
           SettleNext(p), IInv', routed' \in SUBSET Messages,
           \A q \in Partitions : \A o \in acked'[q] :
              o \in acked[q] \/ (q = p /\ o = settled[p])
    PROVE  BatchInv'
<1> DEFINE left == Tail(flushing[p])
           m == <<p, settled[p]>>
<1>1. /\ flushing' = [flushing EXCEPT ![p] = left]
      /\ settled' = [settled EXCEPT ![p] = settled[p] + 1]
      /\ inflight' = IF inflight = 0 THEN 0 ELSE inflight - 1
      /\ pc' = IF left = <<>> THEN "flush" ELSE "settle"
      /\ batch' = IF left = <<>> THEN None ELSE batch
      /\ UNCHANGED <<next, rx, buffers, deadline, batch_state, msg, resume, cancelled>>
  BY DEF SettleNext, bufferVars
<1>2. /\ BatchTypeOK /\ flushing[p] \in Seq(Offsets) /\ flushing[p] # <<>>
      /\ settled[p] \in Offsets /\ settled[p] < next[p] /\ settled[p] \in Nat
      /\ next[p] \in 0 .. MaxOffset + 1
  BY NextToSettle, Sizes DEF BatchInv
<1>3. /\ left \in Seq(Offsets) /\ Len(flushing[p]) \in Nat
      /\ Len(left) = Len(flushing[p]) - 1 /\ Len(left) \in Nat
      /\ \A i \in 1 .. Len(left) : left[i] = flushing[p][i + 1]
  BY <1>2
<1> HIDE DEF left
<1>4. \A q \in Partitions :
         /\ flushing'[q] = IF q = p THEN left ELSE flushing[q]
         /\ settled'[q] = IF q = p THEN settled[q] + 1 ELSE settled[q]
  BY <1>1, <1>2 DEF BatchTypeOK
<1>5. m \in Messages /\ m[1] = p /\ m[2] = settled[p]
  BY <1>2 DEF Messages
<1>6. Unsettled' = Unsettled \ {m} /\ m \in Unsettled
  <2>1. m \in Unsettled
    BY <1>2, <1>5 DEF Unsettled
  <2>2. ASSUME NEW y \in Messages PROVE y \in Unsettled' <=> y \in Unsettled \ {m}
    <3>1. y[1] \in Partitions /\ y[2] \in Offsets /\ y = <<y[1], y[2]>>
      BY MessagePair
    <3>2. y = m <=> y[1] = p /\ y[2] = settled[p]
      BY <3>1
    <3>3. y[2] \in Nat
      BY <3>1, MaxOffsetAssumption DEF Offsets
    <3>4. y \in Unsettled' <=> settled'[y[1]] <= y[2] /\ y[2] < next[y[1]]
      BY <1>1 DEF Unsettled
    <3>5. CASE y[1] = p
      BY <1>2, <1>4, <3>1, <3>2, <3>3, <3>4, <3>5 DEF Unsettled
    <3>6. CASE y[1] # p
      BY <1>4, <3>1, <3>2, <3>4, <3>6 DEF Unsettled
    <3> QED BY <3>5, <3>6
  <2>3. Unsettled' \subseteq Messages /\ Unsettled \subseteq Messages
    BY DEF Unsettled
  <2> QED BY <2>1, <2>2, <2>3
<1>7. InflightIsUnsettled' /\ IsFiniteSet(Unsettled)' /\ inflight' \in Nat
  <2>1. IsFiniteSet(Unsettled) /\ inflight = Cardinality(Unsettled)
    BY DEF BatchInv, InflightIsUnsettled
  <2>2. /\ IsFiniteSet(Unsettled')
        /\ Cardinality(Unsettled') = Cardinality(Unsettled) - 1
        /\ Cardinality(Unsettled') \in Nat /\ Cardinality(Unsettled) \in Nat
    BY <1>6, <2>1, FS_RemoveElement, FS_CardinalityType
  <2> QED BY <1>1, <2>1, <2>2 DEF InflightIsUnsettled
<1>8. BatchTypeOK'
  <2>1. flushing' \in [Partitions -> Seq(Offsets)]
    BY <1>1, <1>2, <1>3 DEF BatchTypeOK
  <2>2. settled[p] + 1 \in 0 .. MaxOffset + 1
    BY <1>2, MaxOffsetAssumption
  <2>3. settled' \in [Partitions -> 0 .. MaxOffset + 1]
    BY <1>1, <1>2, <2>2 DEF BatchTypeOK
  <2>4. pc' \in {"flush", "settle"} /\ batch' \in {batch, None}
    BY <1>1
  <2> QED BY <1>1, <1>2, <1>7, <2>1, <2>3, <2>4 DEF BatchTypeOK, IInv
<1>9. ASSUME NEW q \in Partitions
      PROVE  HeldOf(q)' /\ QueuedIn(rx', q, Front(q)', next'[q])
  <2>1. HeldOf(q) /\ QueuedIn(rx, q, Front(q), next[q])
    BY DEF BatchInv, OrderInv
  <2>2. /\ Len(flushing[q]) \in Nat /\ Len(buffers[q]) \in Nat
        /\ settled[q] \in Nat
    BY <1>2, Sizes
  <2>3. InHand(q)' = InHand(q) /\ next' = next /\ rx' = rx
        /\ msg' = msg /\ buffers' = buffers
    BY <1>1 DEF InHand
  <2>4. CASE q # p
    BY <1>4, <2>1, <2>3, <2>4 DEF HeldOf, Front
  <2>5. CASE q = p
    <3>1. /\ flushing'[q] = left /\ settled'[q] = settled[q] + 1
          /\ Len(flushing'[q]) = Len(flushing[q]) - 1
          /\ Len(flushing'[q]) \in Nat
      BY <1>3, <1>4, <2>5
    <3>2. Front(q)' = Front(q)
      <4> DEFINE f == Len(flushing[q])
                 g == Len(flushing'[q])
                 h == Len(buffers[q])
                 k == IF InHand(q) THEN 1 ELSE 0
      <4>1. /\ Front(q) = settled[q] + f + h + k
            /\ Front(q)' = settled'[q] + g + h + k
        BY <2>3 DEF Front
      <4>2. /\ f \in Nat /\ g \in Nat /\ h \in Nat /\ k \in Nat /\ g = f - 1
            /\ settled[q] \in Nat /\ settled'[q] = settled[q] + 1
        BY <2>2, <3>1
      <4> HIDE DEF f, g, h, k
      <4> QED BY <4>1, <4>2
    <3>3. \A i \in 1 .. Len(flushing'[q]) : flushing'[q][i] = settled'[q] + i - 1
      <4> TAKE i \in 1 .. Len(flushing'[q])
      <4>1. i + 1 \in 1 .. Len(flushing[q]) /\ flushing'[q][i] = flushing[q][i + 1]
        BY <1>3, <2>2, <2>5, <3>1
      <4>2. flushing[q][i + 1] = settled[q] + (i + 1) - 1
        BY <2>1, <4>1 DEF HeldOf
      <4> QED BY <2>2, <3>1, <4>1, <4>2
    <3>4. settled'[q] + Len(flushing'[q]) = settled[q] + Len(flushing[q])
      BY ONLY <2>2, <3>1
    <3>5. HeldOf(q)'
      BY <2>1, <2>3, <3>2, <3>3, <3>4 DEF HeldOf
    <3> QED BY <2>1, <2>3, <3>2, <3>5
  <2> QED BY <2>4, <2>5
<1>10. StageInv'
  <2>1. batch[1] = p /\ flushing'[p] = left
    BY <1>4
  <2>2. At("add")' <=> At("add")
    BY <1>1 DEF At
  <2>3. At("stopped")' <=> At("stopped")
    BY <1>1 DEF At
  <2>4. IsEmpty' = IsEmpty
    BY <1>1 DEF IsEmpty
  <2>5. pc' = "settle" => batch' # None /\ flushing'[batch'[1]] # <<>>
    BY <1>1, <2>1 DEF BatchInv, StageInv
  <2>6. pc' \in {"flush", "settle"}
    BY <1>1
  <2> QED BY <1>1, <2>2, <2>3, <2>4, <2>5, <2>6 DEF BatchInv, StageInv
<1>11. AckedReported'
  <2> SUFFICES ASSUME NEW q \in Partitions, NEW o \in acked'[q] PROVE o < settled'[q]
    BY DEF AckedReported
  <2>1. o \in acked[q] => o \in Nat /\ o < settled[q]
    BY MaxOffsetAssumption DEF BatchInv, AckedReported, IInv, TypeOK, Offsets
  <2>2. settled[q] \in Nat
    BY <1>2, Sizes
  <2> QED BY <1>4, <2>1, <2>2
<1> QED BY <1>7, <1>8, <1>9, <1>10, <1>11 DEF BatchInv, OrderInv

\* A message of a batch that succeeded, and one of a batch that failed.
LEMMA ReportKeeps ==
    ASSUME BatchInv, NEW p \in Partitions,
           AckNext(p) \/ \E category \in Categories : FailNext(p, category)
    PROVE  BatchInv'
<1>1. CASE AckNext(p)
  <2>1. /\ pc = "settle" /\ batch = <<p, "AllSuccess">>
        /\ ack(p, Head(flushing[p])) /\ SettleNext(p) /\ routed' = routed
    BY <1>1 DEF AckNext
  <2>2. Head(flushing[p]) \in Offsets
    BY <2>1, NextToSettle
  <2>3. IInv'
    BY <2>1, <2>2, StepInvariant DEF BatchInv, Next
  <2>4. routed' \in SUBSET Messages
    BY <2>1 DEF BatchInv, BatchTypeOK
  <2>5. \A q \in Partitions : \A o \in acked'[q] :
           o \in acked[q] \/ (q = p /\ o = settled[p])
    <3>1. Head(flushing[p]) = settled[p]
      BY <2>1, NextToSettle
    <3> QED BY <2>1, <3>1 DEF ack, BatchInv, IInv, TypeOK
  <2> QED BY <2>1, <2>3, <2>4, <2>5, SettleKeeps
<1>2. ASSUME NEW category \in Categories, FailNext(p, category) PROVE BatchInv'
  <2>1. /\ pc = "settle" /\ batch = <<p, category>>
        /\ mark_failed(p, <<p, Head(flushing[p])>>[2], category) /\ SettleNext(p)
        /\ routed' = routed \cup {<<p, Head(flushing[p])>>}
    BY <1>2 DEF FailNext
  <2>2. Head(flushing[p]) \in Offsets
    BY <2>1, NextToSettle
  <2>3. <<p, Head(flushing[p])>>[2] \in Offsets
    BY <2>2
  <2>4. IInv'
    BY <2>1, <2>3, StepInvariant DEF BatchInv, Next
  <2>5. routed' \in SUBSET Messages
    BY <2>1, <2>2 DEF BatchInv, BatchTypeOK, Messages
  <2>6. acked' = acked
    BY <2>1 DEF mark_failed
  <2> QED BY <2>1, <2>4, <2>5, <2>6, SettleKeeps
<1> QED BY <1>1, <1>2

\* The clock, the cancellation and the abort, and the flush going from one
\* batch to the next and back to the loop.
LEMMA ControlKeeps ==
    ASSUME BatchInv,
           \/ \E p \in Partitions : DeadlineElapses(p)
           \/ Cancel \/ PoolAborts \/ FlushEnds
           \/ \E p \in Partitions, outcome \in Outcomes : InvokeBatch(p, outcome)
    PROVE  BatchInv'
<1>0. BatchTypeOK /\ StageInv
  BY DEF BatchInv
<1>1. ASSUME NEW p \in Partitions, DeadlineElapses(p) PROVE BatchInv'
  <2>1. /\ deadline' = [deadline EXCEPT ![p] = "passed"]
        /\ UNCHANGED <<trackerVars, queueVars, buffers, batch_state, pc, msg,
                       flushing, batch, resume, resultVars, cancelled>>
    BY <1>1 DEF DeadlineElapses, loopVars
  <2>2. deadline' \in [Partitions -> {"none", "ahead", "passed"}]
    BY <1>0, <2>1 DEF BatchTypeOK
  <2>3. StageInv'
    BY <1>0, <2>1 DEF StageInv, At, IsEmpty
  <2> QED BY <1>0, <2>1, <2>2, <2>3, QuietKeeps DEF BatchTypeOK
<1>2. CASE Cancel
  <2>1. /\ cancelled' = TRUE
        /\ UNCHANGED <<trackerVars, queueVars, buffers, deadline, batch_state, pc, msg,
                       flushing, batch, resume, resultVars>>
    BY <1>2 DEF Cancel, loopVars, bufferVars
  <2>2. StageInv'
    BY <1>0, <2>1 DEF StageInv, At, IsEmpty
  <2> QED BY <1>0, <2>1, <2>2, QuietKeeps DEF BatchTypeOK
<1>3. CASE FlushEnds
  <2>1. /\ pc = "flush" /\ flushing = Empty /\ pc' = resume
        /\ UNCHANGED <<trackerVars, queueVars, buffers, deadline, batch_state, msg,
                       flushing, batch, resume, resultVars, cancelled>>
    BY <1>3 DEF FlushEnds, bufferVars
  <2>2. resume \in {"select", "add", "stopped"}
    BY <1>0 DEF BatchTypeOK
  <2>3. StageInv'
    BY <1>0, <2>1, <2>2 DEF StageInv, At, IsEmpty
  <2> QED BY <1>0, <2>1, <2>2, <2>3, QuietKeeps DEF BatchTypeOK
<1>4. ASSUME NEW p \in Partitions, NEW outcome \in Outcomes, InvokeBatch(p, outcome)
      PROVE  BatchInv'
  <2>1. /\ pc = "flush" /\ flushing[p] # <<>> /\ batch' = <<p, outcome>>
        /\ pc' = "settle"
        /\ UNCHANGED <<trackerVars, queueVars, buffers, deadline, batch_state, msg,
                       flushing, resume, resultVars, cancelled>>
    BY <1>4 DEF InvokeBatch, bufferVars
  <2>2. /\ batch' \in Partitions \X (Categories \cup {"AllSuccess"})
        /\ batch'[1] = p
    BY <2>1 DEF Outcomes
  <2>3. batch' # None
    <3>1. Len(batch') = 2 /\ Len(<<>>) = 0
      BY <2>1
    <3> QED BY <3>1 DEF None
  <2>4. StageInv'
    BY <1>0, <2>1, <2>2, <2>3 DEF StageInv, At, IsEmpty
  <2> QED BY <1>0, <2>1, <2>2, <2>4, QuietKeeps DEF BatchTypeOK
<1>5. CASE PoolAborts
  <2>1. /\ pc' = "aborted"
        /\ UNCHANGED <<trackerVars, queueVars, buffers, deadline, batch_state, msg,
                       flushing, batch, resume, resultVars, cancelled>>
    BY <1>5 DEF PoolAborts, bufferVars
  <2>2. StageInv'
    BY <2>1 DEF StageInv, At
  <2> QED BY <1>0, <2>1, <2>2, QuietKeeps DEF BatchTypeOK
<1> QED BY <1>1, <1>2, <1>3, <1>4, <1>5

\* Every step keeps the invariant.
LEMMA BatchStepInvariant == BatchInv /\ [BatchNext]_vars => BatchInv'
<1> SUFFICES ASSUME BatchInv, [BatchNext]_vars PROVE BatchInv'
  OBVIOUS
<1>1. CASE UNCHANGED vars
  <2>1. UNCHANGED <<trackerVars, queueVars, buffers, deadline, batch_state, pc, msg,
                    flushing, batch, resume, resultVars, cancelled>>
    BY <1>1 DEF vars, bufferVars, loopVars
  <2>2. BatchTypeOK /\ StageInv
    BY DEF BatchInv
  <2>3. StageInv'
    BY <2>1, <2>2 DEF StageInv, At, IsEmpty
  <2> QED BY <2>1, <2>2, <2>3, QuietKeeps DEF BatchTypeOK
<1>2. CASE BatchNext
  BY <1>2, DispatchKeeps, SelectKeeps, AddKeeps, ReportKeeps, ControlKeeps
     DEF BatchNext, Loop, Clock
<1> QED BY <1>1, <1>2
-----------------------------------------------------------------------------
\* The invariant holds throughout.
THEOREM BatchInvariance == BatchSafetySpec => []BatchInv
  BY BatchInitInvariant, BatchStepInvariant, PTL DEF BatchSafetySpec

\* The worker's state stays well typed; in particular no buffer is ever full
\* when a message is added to it, which is why the code's flush before the
\* add never happens.
THEOREM BatchTypeCorrect == BatchSafetySpec => []BatchTypeOK
<1>1. BatchInv => BatchTypeOK
  BY DEF BatchInv
<1> QED BY <1>1, BatchInvariance, PTL

\* inflight counts the messages dispatched and not yet reported.
THEOREM BatchInflightExact == BatchSafetySpec => []InflightIsUnsettled
<1>1. BatchInv => InflightIsUnsettled
  BY DEF BatchInv
<1> QED BY <1>1, BatchInvariance, PTL

\* A worker that stops on cancellation has flushed and reported its buffers,
\* and what one aborted by the pool leaves behind is above the cursor.
THEOREM CancelSafe == BatchSafetySpec => []CancelLosesNothing
<1>1. BatchInv => CancelLosesNothing
  <2> SUFFICES ASSUME BatchInv PROVE CancelLosesNothing
    OBVIOUS
  <2>1. pc = "stopped" => IsEmpty /\ flushing = Empty /\ msg = None
    BY DEF BatchInv, StageInv, At
  <2>2. ASSUME NEW m \in Unsettled, m[1] \in registered PROVE cursor(m[1]) < m[2]
    <3> DEFINE p == m[1]
    <3>1. p \in Partitions /\ m[2] \in Nat /\ settled[p] <= m[2]
      BY MessagePair, MaxOffsetAssumption DEF Unsettled, Offsets
    <3>2. /\ PartitionInv(partitions[p], acked[p], base[p])
          /\ partitions[p] \in PartitionStates /\ settled[p] \in Nat
          /\ base[p] \in -1 .. MaxOffset
      BY <2>2, <3>1, Sizes DEF BatchInv, IInv, TypeOK
    <3>3. cursor(p) \in Nat /\ cursor(p) \in acked[p]
      BY <3>2, MaxOffsetAssumption
         DEF PartitionInv, PartitionStates, Offsets, cursor
    <3>4. cursor(p) < settled[p]
      BY <3>1, <3>3 DEF BatchInv, AckedReported
    <3> QED BY <3>1, <3>2, <3>3, <3>4
  <2> QED BY <2>1, <2>2 DEF CancelLosesNothing
<1> QED BY <1>1, BatchInvariance, PTL

\* Two sequences of consecutive offsets, one behind the other.
LEMMA Consecutive ==
    ASSUME NEW s \in Seq(Offsets), NEW t \in Seq(Offsets), NEW k \in Nat,
           \A i \in 1 .. Len(s) : s[i] = k + i - 1,
           \A i \in 1 .. Len(t) : t[i] = k + Len(s) + i - 1
    PROVE  /\ s \o t \in Seq(Offsets) /\ Len(s \o t) = Len(s) + Len(t)
           /\ \A i \in 1 .. Len(s \o t) : (s \o t)[i] = k + i - 1
<1>1. /\ s \o t \in Seq(Offsets) /\ Len(s \o t) = Len(s) + Len(t)
      /\ \A i \in 1 .. Len(s) + Len(t) :
            (s \o t)[i] = IF i <= Len(s) THEN s[i] ELSE t[i - Len(s)]
  BY ConcatProperties
<1> DEFINE m == Len(s)
           n == Len(t)
<1>2. m \in Nat /\ n \in Nat
  OBVIOUS
<1>3. ASSUME NEW i \in 1 .. m + n
      PROVE  (IF i <= m THEN s[i] ELSE t[i - m]) = k + i - 1
  <2>1. CASE i <= m
    BY <1>2, <2>1
  <2>2. CASE ~ (i <= m)
    <3> HIDE DEF m, n
    <3>1. i - m \in 1 .. n /\ k + m + (i - m) - 1 = k + i - 1
      BY <1>2, <2>2
    <3> QED BY <2>2, <3>1 DEF m, n
  <2> QED BY <2>1, <2>2
<1> QED BY <1>1, <1>3

\* Order within a partition is kept and nothing is lost or doubled, however
\* sizes, deadlines, backpressure and cancellation cut the batches.
THEOREM OrderKept == BatchSafetySpec => []PartitionOrder
<1>1. BatchInv => PartitionOrder
  <2> SUFFICES ASSUME BatchInv, NEW p \in Partitions
               PROVE  LET n == Len(Held(p))
                      IN  /\ Held(p) = [i \in 1 .. n |-> settled[p] + i - 1]
                          /\ {rx[i][2] : i \in Queued(p)}
                                = settled[p] + n .. next[p] - 1
                          /\ \A i, j \in Queued(p) : i < j => rx[i][2] < rx[j][2]
    BY DEF PartitionOrder
  <2> DEFINE a == flushing[p]
             b == buffers[p]
             c == IF InHand(p) THEN <<msg[2]>> ELSE <<>>
  <2>1. /\ BatchTypeOK /\ HeldOf(p) /\ QueuedIn(rx, p, Front(p), next[p])
    BY DEF BatchInv, OrderInv
  <2>2. /\ a \in Seq(Offsets) /\ b \in Seq(Offsets) /\ Len(a) \in Nat /\ Len(b) \in Nat
        /\ settled[p] \in Nat /\ Front(p) \in Nat /\ next[p] \in 0 .. MaxOffset + 1
    BY <2>1, Sizes
  <2>3. /\ c \in Seq(Offsets) /\ Len(c) = IF InHand(p) THEN 1 ELSE 0
        /\ \A i \in 1 .. Len(c) : i = 1 /\ c[i] = msg[2] /\ InHand(p)
    <3>1. CASE InHand(p)
      <4>1. msg[2] \in Offsets
        BY <2>1, <3>1, MessagePair DEF InHand, BatchTypeOK
      <4> QED BY <3>1, <4>1
    <3>2. CASE ~ InHand(p)
      BY <3>2
    <3> QED BY <3>1, <3>2
  <2>4. Held(p) = a \o b \o c
    BY DEF Held, InHand
  <2>5. /\ \A i \in 1 .. Len(a) : a[i] = settled[p] + i - 1
        /\ \A i \in 1 .. Len(b) : b[i] = settled[p] + Len(a) + i - 1
    BY <2>1 DEF HeldOf
  <2>6. Front(p) = settled[p] + Len(a) + Len(b) + Len(c) /\ Len(c) \in Nat
    BY <2>3 DEF Front
  <2>7. \A i \in 1 .. Len(c) : c[i] = settled[p] + (Len(a) + Len(b)) + i - 1
    <3>1. InHand(p) => msg[2] = Front(p) - 1
      BY <2>1 DEF HeldOf
    <3>2. \A i \in 1 .. Len(c) : i = 1 /\ c[i] = Front(p) - 1 /\ Len(c) = 1
      BY <2>3, <3>1
    <3> HIDE DEF a, b, c
    <3> QED BY <2>2, <2>6, <3>2
  <2> HIDE DEF a, b, c
  <2> DEFINE d == a \o b
  <2>8. /\ d \in Seq(Offsets) /\ Len(d) = Len(a) + Len(b)
        /\ \A i \in 1 .. Len(d) : d[i] = settled[p] + i - 1
        /\ Held(p) = d \o c
    BY <2>2, <2>4, <2>5, Consecutive
  <2> HIDE DEF d
  <2>9. /\ Held(p) \in Seq(Offsets) /\ Len(Held(p)) = Len(a) + Len(b) + Len(c)
        /\ \A i \in 1 .. Len(Held(p)) : Held(p)[i] = settled[p] + i - 1
    <3>1. \A i \in 1 .. Len(c) : c[i] = settled[p] + Len(d) + i - 1
      BY <2>7, <2>8
    <3>2. /\ d \o c \in Seq(Offsets) /\ Len(d \o c) = Len(d) + Len(c)
          /\ \A i \in 1 .. Len(d \o c) : (d \o c)[i] = settled[p] + i - 1
      BY <2>2, <2>3, <2>8, <3>1, Consecutive
    <3> QED BY <2>8, <3>2
  <2>10. Held(p) = [i \in 1 .. Len(Held(p)) |-> settled[p] + i - 1]
    <3>1. Held(p) = [i \in 1 .. Len(Held(p)) |-> Held(p)[i]]
      BY <2>9, LenProperties
    <3> QED BY <2>9, <3>1
  <2>11. settled[p] + Len(Held(p)) = Front(p)
    BY <2>2, <2>6, <2>9
  <2>12. {rx[i][2] : i \in Queued(p)} = Front(p) .. next[p] - 1
    <3>1. rx \in Seq(Messages)
      BY <2>1 DEF BatchTypeOK
    <3>2. ASSUME NEW i \in Queued(p) PROVE rx[i][2] \in Front(p) .. next[p] - 1
      <4>1. i \in 1 .. Len(rx) /\ rx[i][1] = p
        BY DEF Queued
      <4>2. rx[i][2] \in Nat
        BY <3>1, <4>1, MessageAt, MaxOffsetAssumption DEF Offsets
      <4>3. Front(p) <= rx[i][2] /\ rx[i][2] < next[p]
        BY <2>1, <4>1 DEF QueuedIn
      <4> QED BY <2>2, <4>2, <4>3
    <3>3. ASSUME NEW o \in Front(p) .. next[p] - 1
          PROVE  \E i \in Queued(p) : rx[i][2] = o
      <4>1. o \in Offsets /\ Front(p) <= o /\ o < next[p]
        BY <2>2, MaxOffsetAssumption DEF Offsets
      <4>2. PICK i \in 1 .. Len(rx) : rx[i] = <<p, o>>
        BY <2>1, <4>1, Zenon DEF QueuedIn
      <4>3. i \in Queued(p) /\ rx[i][2] = o
        BY <4>2 DEF Queued
      <4> QED BY <4>3
    <3> QED BY <3>2, <3>3
  <2>13. \A i, j \in Queued(p) : i < j => rx[i][2] < rx[j][2]
    BY <2>1 DEF QueuedIn, Queued
  <2> QED BY <2>10, <2>11, <2>12, <2>13
<1> QED BY <1>1, BatchInvariance, PTL
=============================================================================
