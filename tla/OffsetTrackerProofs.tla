------------------------- MODULE OffsetTrackerProofs -------------------------
(***************************************************************************)
(* The tracker keeps its promises for every set of partitions and every    *)
(* log length.  The argument: AckedState moves the cursor exactly over the *)
(* consecutive pending offsets (ContiguousStops), so one ack keeps the     *)
(* per-partition invariant (AckKeepsPartition), and so does one failure    *)
(* (FailKeepsPartition); the theorems lift this to the tracker.            *)
(***************************************************************************)
EXTENDS OffsetTracker, TLAPS, WellFoundedInduction

(***************************************************************************)
(* The inductive invariant, per partition: what a registered partition's   *)
(* state s says about the offsets acked so far (A) and the first of them   *)
(* (b).  Two conjuncts are strengthenings: CursorIsProcessed needs         *)
(* pending_offsets \subseteq A, because the cursor only moves over pending *)
(* offsets; FailedHoldsCursor needs pending and failed to be disjoint.     *)
(***************************************************************************)
PartitionInv(s, A, b) ==
    /\ 0 <= b /\ b <= s.committed_offset
    /\ \A o \in Offsets : b <= o /\ o <= s.committed_offset => o \in A
    /\ s.committed_offset + 1 \notin s.pending_offsets
    /\ s.pending_offsets \subseteq A
    /\ s.pending_offsets \cap s.failed_offsets = {}
    /\ \A o \in A : o > s.committed_offset
                       => o \in s.pending_offsets \cup s.failed_offsets

IInv ==
    /\ TypeOK
    /\ \A p \in Partitions :
          IF p \in registered
          THEN PartitionInv(partitions[p], acked[p], base[p])
          ELSE /\ partitions[p] = NewPartitionState
               /\ acked[p] = {} /\ base[p] = -1
-----------------------------------------------------------------------------
\* Every nonempty set of natural numbers has a least element.
LEMMA LeastNatural ==
    ASSUME NEW T \in SUBSET Nat, T # {}
    PROVE  \E x \in T : \A y \in T : x <= y
<1>1. PICK x \in T : \A y \in T : ~ (<<y, x>> \in OpToRel(<, Nat))
  BY NatLessThanWellFounded, WFMin
<1>2. \A y \in T : ~ (y < x)
  BY <1>1 DEF OpToRel
<1> QED BY <1>2

\* The loop of PartitionState::ack stops, and where it stops every offset it
\* went over was pending and the next one is not.
LEMMA ContiguousStops ==
    ASSUME NEW c \in -1 .. MaxOffset, NEW P \in SUBSET Offsets
    PROVE  LET n == Contiguous(c, P)
           IN  /\ n \in c .. MaxOffset
               /\ n + 1 \notin P
               /\ \A m \in Int : c < m /\ m <= n => m \in P
<1> DEFINE T == { k \in Nat : k - 1 \in Stops(c, P) }
<1>1. MaxOffset + 1 \in T
  BY MaxOffsetAssumption DEF Stops, Offsets
<1>2. PICK x \in T : \A y \in T : x <= y
  BY <1>1, LeastNatural
<1>3. x - 1 \in Stops(c, P)
  BY <1>2
<1>4. \A m \in Stops(c, P) : x - 1 <= m
  <2> TAKE m \in Stops(c, P)
  <2>1. m \in Int /\ -1 <= m
    BY MaxOffsetAssumption DEF Stops
  <2>2. m + 1 \in T
    BY <2>1
  <2> QED BY <2>1, <2>2, <1>2
<1>5. \E n \in Stops(c, P) : \A m \in Stops(c, P) : n <= m
  BY <1>3, <1>4
<1> DEFINE n == Contiguous(c, P)
<1>6. n \in Stops(c, P) /\ \A m \in Stops(c, P) : n <= m
  BY <1>5 DEF Contiguous
<1> HIDE DEF n
<1>7. n \in c .. MaxOffset /\ n + 1 \notin P
  BY <1>6 DEF Stops
<1>8. ASSUME NEW m \in Int, c < m, m <= n PROVE m \in P
  <2>1. m - 1 \in c .. MaxOffset /\ ~ (n <= m - 1)
    BY <1>7, <1>8, MaxOffsetAssumption
  <2>2. m - 1 \notin Stops(c, P)
    BY <2>1, <1>6
  <2>3. (m - 1) + 1 \in P
    BY <2>1, <2>2 DEF Stops
  <2> QED BY <2>3
<1> QED BY <1>7, <1>8 DEF n

\* One ack keeps the partition's invariant, the first ack of a partition and
\* the ack of a redelivered offset included, and never moves a seeded cursor
\* back.
LEMMA AckKeepsPartition ==
    ASSUME NEW s \in PartitionStates, NEW A \in SUBSET Offsets,
           NEW b \in -1 .. MaxOffset, NEW o \in Offsets,
           \/ PartitionInv(s, A, b)
           \/ s = NewPartitionState /\ A = {} /\ b = o
    PROVE  /\ AckedState(s, o) \in PartitionStates
           /\ PartitionInv(AckedState(s, o), A \cup {o}, b)
           /\ s.committed_offset <= AckedState(s, o).committed_offset
           /\ \A x \in Offsets :
                 /\ x \in s.failed_offsets
                 /\ s.committed_offset < x
                 /\ x <= AckedState(s, o).committed_offset
                 => x = o
<1> DEFINE c == SeededCursor(s, o)
           P == s.pending_offsets \cup {o}
           n == Contiguous(c, P)
           t == AckedState(s, o)
<1>1. c \in -1 .. MaxOffset /\ P \in SUBSET Offsets /\ s.committed_offset <= c
  BY MaxOffsetAssumption
     DEF SeededCursor, PartitionStates, Offsets
<1>2. /\ n \in c .. MaxOffset /\ n + 1 \notin P
      /\ \A m \in Int : c < m /\ m <= n => m \in P
  BY <1>1, ContiguousStops
<1>3. /\ t = [committed_offset |-> n, pending_offsets |-> P \ (c + 1 .. n),
              failed_offsets |-> s.failed_offsets \ {o},
              has_terminal |-> s.has_terminal]
  BY DEF AckedState, PartitionStates
<1> HIDE DEF c, P, n, t
<1>4. n \in -1 .. MaxOffset
  BY <1>1, <1>2, MaxOffsetAssumption
<1>5. t \in PartitionStates
  BY <1>1, <1>3, <1>4 DEF PartitionStates
<1>6. PartitionInv(t, A \cup {o}, b)
  <2>1. CASE PartitionInv(s, A, b)
    <3>1. c = s.committed_offset /\ 0 <= c
      BY <2>1 DEF c, SeededCursor, PartitionInv, PartitionStates
    <3>2. 0 <= b /\ b <= n
      BY <2>1, <3>1, <1>1, <1>2, <1>4, MaxOffsetAssumption DEF PartitionInv
    <3>3. P \subseteq A \cup {o}
      BY <2>1 DEF P, PartitionInv
    <3>4. ASSUME NEW x \in Offsets, b <= x, x <= n PROVE x \in A \cup {o}
      <4>1. CASE x <= c
        BY <4>1, <3>1, <3>4, <2>1 DEF PartitionInv
      <4>2. CASE c < x
        BY <4>2, <3>3, <3>4, <1>2 DEF Offsets
      <4> QED BY <4>1, <4>2, <3>1 DEF Offsets, PartitionStates
    <3>5. n + 1 \notin P \ (c + 1 .. n)
      BY <1>2
    <3>6. ASSUME NEW x \in A \cup {o}, x > n
          PROVE  x \in (P \ (c + 1 .. n)) \cup (s.failed_offsets \ {o})
      <4>1. x \in Int /\ x > s.committed_offset /\ x \notin c + 1 .. n
        BY <3>1, <3>6, <1>1, <1>2, <1>4, MaxOffsetAssumption DEF Offsets
      <4>2. x \in P \cup s.failed_offsets
        BY <4>1, <2>1 DEF P, PartitionInv
      <4> QED BY <4>1, <4>2 DEF P
    <3>7. (P \ (c + 1 .. n)) \cap (s.failed_offsets \ {o}) = {}
      BY <2>1 DEF P, PartitionInv
    <3> QED BY <1>3, <3>2, <3>3, <3>4, <3>5, <3>6, <3>7 DEF PartitionInv
  <2>2. CASE s = NewPartitionState /\ A = {} /\ b = o
    <3>1. c = o - 1 /\ P = {o}
      BY <2>2 DEF c, P, SeededCursor, NewPartitionState
    <3>2. n = o
      <4>1. n = o - 1 => n + 1 \in P
        BY <3>1 DEF Offsets
      <4>2. n > o => o + 1 \in P
        BY <3>1, <1>2, <1>4 DEF Offsets
      <4>3. n \in Int /\ n >= o - 1
        BY <3>1, <1>2, <1>4, MaxOffsetAssumption
      <4> QED BY <4>1, <4>2, <4>3, <3>1, <1>2 DEF Offsets
    <3>3. P \ (c + 1 .. n) = {}
      BY <3>1, <3>2 DEF Offsets
    <3> QED BY <1>3, <2>2, <3>2, <3>3 DEF PartitionInv, Offsets
  <2> QED BY <2>1, <2>2
<1>7. s.committed_offset <= t.committed_offset
  BY <1>1, <1>2, <1>3, MaxOffsetAssumption DEF PartitionStates
<1>8. ASSUME NEW x \in Offsets, x \in s.failed_offsets,
             s.committed_offset < x, x <= t.committed_offset
      PROVE  x = o
  <2>1. CASE PartitionInv(s, A, b)
    <3>1. c = s.committed_offset
      BY <2>1 DEF c, SeededCursor, PartitionInv, PartitionStates
    <3>2. x \in P
      BY <3>1, <1>8, <1>2, <1>3 DEF PartitionStates, Offsets
    <3> QED BY <3>2, <2>1, <1>8 DEF P, PartitionInv
  <2>2. CASE s = NewPartitionState
    BY <2>2, <1>8 DEF NewPartitionState
  <2> QED BY <2>1, <2>2
<1> QED BY <1>3, <1>5, <1>6, <1>7, <1>8 DEF t

\* A failure keeps the partition's invariant and does not move the cursor.
LEMMA FailKeepsPartition ==
    ASSUME NEW s \in PartitionStates, NEW A \in SUBSET Offsets,
           NEW b \in -1 .. MaxOffset, NEW o \in Offsets,
           NEW category \in Categories, PartitionInv(s, A, b)
    PROVE  /\ FailedState(s, o, category) \in PartitionStates
           /\ PartitionInv(FailedState(s, o, category), A, b)
           /\ FailedState(s, o, category).committed_offset = s.committed_offset
<1> DEFINE t == FailedState(s, o, category)
<1>1. t = [committed_offset |-> s.committed_offset,
           pending_offsets |-> s.pending_offsets \ {o},
           failed_offsets |-> s.failed_offsets \cup {o},
           has_terminal |-> s.has_terminal \/ category = "Terminal"]
  BY DEF FailedState, PartitionStates
<1>2. (s.has_terminal \/ category = "Terminal") \in BOOLEAN
  OBVIOUS
<1> HIDE DEF t
<1>3. t \in PartitionStates
  BY <1>1, <1>2 DEF PartitionStates
<1>4. PartitionInv(t, A, b)
  BY <1>1 DEF PartitionInv
<1> QED BY <1>1, <1>3, <1>4 DEF t
-----------------------------------------------------------------------------
\* IInv holds of the empty tracker.
LEMMA InitInvariant == Init => IInv
  BY MaxOffsetAssumption
     DEF Init, IInv, TypeOK, NewPartitionState, PartitionStates, Offsets

\* Every ack and every failure keeps the invariant of all partitions.
LEMMA StepInvariant == IInv /\ [Next]_trackerVars => IInv'
<1> SUFFICES ASSUME IInv, [Next]_trackerVars PROVE IInv'
  OBVIOUS
<1> USE DEF IInv
<1>1. ASSUME NEW p \in Partitions, NEW o \in Offsets, ack(p, o) PROVE IInv'
  <2> DEFINE t == AckedState(partitions[p], o)
  <2>1. PICK b \in -1 .. MaxOffset :
           /\ base'[p] = b
           /\ \/ PartitionInv(partitions[p], acked[p], b)
              \/ partitions[p] = NewPartitionState /\ acked[p] = {} /\ b = o
    BY <1>1, MaxOffsetAssumption DEF ack, TypeOK, Offsets
  <2>2. t \in PartitionStates /\ PartitionInv(t, acked[p] \cup {o}, b)
    BY <2>1, AckKeepsPartition DEF TypeOK
  <2>3. /\ partitions' = [partitions EXCEPT ![p] = t]
        /\ acked' = [acked EXCEPT ![p] = acked[p] \cup {o}]
        /\ registered' = registered \cup {p}
        /\ \A q \in Partitions \ {p} : base'[q] = base[q]
        /\ base' \in [Partitions -> -1 .. MaxOffset]
    BY <1>1, MaxOffsetAssumption DEF ack, TypeOK, Offsets
  <2> HIDE DEF t
  <2>4. TypeOK'
    BY <2>2, <2>3 DEF TypeOK
  <2>5. ASSUME NEW q \in Partitions
        PROVE  IF q \in registered'
               THEN PartitionInv(partitions'[q], acked'[q], base'[q])
               ELSE /\ partitions'[q] = NewPartitionState
                    /\ acked'[q] = {} /\ base'[q] = -1
    <3>1. CASE q = p
      BY <3>1, <2>1, <2>2, <2>3 DEF TypeOK
    <3>2. CASE q # p
      BY <3>2, <2>3 DEF TypeOK
    <3> QED BY <3>1, <3>2
  <2> QED BY <2>4, <2>5
<1>2. ASSUME NEW p \in Partitions, NEW o \in Offsets,
             NEW category \in Categories, mark_failed(p, o, category)
      PROVE  IInv'
  <2> DEFINE t == FailedState(partitions[p], o, category)
  <2>1. CASE p \notin registered
    BY <2>1, <1>2 DEF mark_failed, TypeOK
  <2>2. CASE p \in registered
    <3>1. t \in PartitionStates /\ PartitionInv(t, acked[p], base[p])
      BY <2>2, FailKeepsPartition DEF TypeOK
    <3>2. /\ partitions' = [partitions EXCEPT ![p] = t]
          /\ UNCHANGED <<registered, acked, base>>
      BY <2>2, <1>2 DEF mark_failed
    <3> HIDE DEF t
    <3>3. TypeOK'
      BY <3>1, <3>2 DEF TypeOK
    <3>4. \A q \in Partitions :
             partitions'[q] = IF q = p THEN t ELSE partitions[q]
      BY <3>2 DEF TypeOK
    <3> QED BY <2>2, <3>1, <3>2, <3>3, <3>4
  <2> QED BY <2>1, <2>2
<1>3. CASE UNCHANGED trackerVars
  BY <1>3 DEF trackerVars, TypeOK
<1> QED BY <1>1, <1>2, <1>3 DEF Next

\* The invariant holds throughout.
THEOREM Invariance == Spec => []IInv
  BY InitInvariant, StepInvariant, PTL DEF Spec

\* Type correctness of the tracker's state.
THEOREM TypeCorrect == Spec => []TypeOK
<1>1. IInv => TypeOK
  BY DEF IInv
<1> QED BY <1>1, Invariance, PTL

\* The cursor covers acked offsets only, whatever the order of acks,
\* failures and redeliveries, for every log and every set of partitions.
THEOREM CursorSafety == Spec => []CursorIsProcessed
<1>1. IInv => CursorIsProcessed
  BY DEF IInv, TypeOK, PartitionInv, CursorIsProcessed, cursor
<1> QED BY <1>1, Invariance, PTL

\* No ack is forgotten and the cursor never stops before a pending offset.
THEOREM NoAckForgotten == Spec => []NothingStuck
<1>1. IInv => NothingStuck
  BY DEF IInv, TypeOK, PartitionInv, NothingStuck, cursor, pending, failed
<1> QED BY <1>1, Invariance, PTL

\* What one step does to one partition's cursor and failed offsets.
LEMMA StepCursor ==
    ASSUME IInv, [Next]_trackerVars, NEW q \in Partitions
    PROVE  /\ cursor(q) <= cursor(q)'
           /\ \A x \in failed(q) :
                 cursor(q) < x /\ x <= cursor(q)' => x \notin failed(q)'
<1> USE DEF IInv
<1> USE DEF cursor, failed
<1>1. ASSUME NEW p \in Partitions, NEW o \in Offsets, ack(p, o)
      PROVE  /\ cursor(q) <= cursor(q)'
             /\ \A x \in failed(q) :
                   cursor(q) < x /\ x <= cursor(q)' => x \notin failed(q)'
  <2> DEFINE t == AckedState(partitions[p], o)
  <2>1. PICK b \in -1 .. MaxOffset :
           \/ PartitionInv(partitions[p], acked[p], b)
           \/ partitions[p] = NewPartitionState /\ acked[p] = {} /\ b = o
    BY MaxOffsetAssumption DEF TypeOK, Offsets
  <2>0. partitions[p] \in PartitionStates /\ acked[p] \in SUBSET Offsets
    BY DEF TypeOK
  <2>2. /\ partitions[p].committed_offset <= t.committed_offset
        /\ t.failed_offsets = partitions[p].failed_offsets \ {o}
        /\ \A x \in partitions[p].failed_offsets :
              partitions[p].committed_offset < x /\ x <= t.committed_offset
                 => x = o
    <3> HIDE DEF IInv
    <3>1. partitions[p].committed_offset <= t.committed_offset
      BY <2>0, <2>1, AckKeepsPartition
    <3>2. t.failed_offsets = partitions[p].failed_offsets \ {o}
      BY DEF AckedState
    <3>3. ASSUME NEW x \in partitions[p].failed_offsets,
                 partitions[p].committed_offset < x, x <= t.committed_offset
          PROVE  x = o
      <4>1. x \in Offsets
        BY <2>0 DEF PartitionStates
      <4> QED BY <2>0, <2>1, <3>3, <4>1, AckKeepsPartition
    <3> QED BY <3>1, <3>2, <3>3
  <2>3. partitions' = [partitions EXCEPT ![p] = t]
    BY <1>1 DEF ack
  <2> HIDE DEF t
  <2>4. CASE q = p
    BY <2>2, <2>3, <2>4 DEF TypeOK
  <2>5. CASE q # p
    BY <2>3, <2>5, MaxOffsetAssumption DEF TypeOK, PartitionStates, Offsets
  <2> QED BY <2>4, <2>5
<1>2. ASSUME NEW p \in Partitions, NEW o \in Offsets,
             NEW category \in Categories, mark_failed(p, o, category)
      PROVE  cursor(q)' = cursor(q)
  BY <1>2 DEF mark_failed, FailedState, TypeOK
<1>3. CASE UNCHANGED trackerVars
  BY <1>3, MaxOffsetAssumption DEF trackerVars, TypeOK, PartitionStates, Offsets
<1>4. cursor(q)' = cursor(q) =>
         /\ cursor(q) <= cursor(q)'
         /\ \A x \in failed(q) : ~ (cursor(q) < x /\ x <= cursor(q)')
  BY MaxOffsetAssumption DEF TypeOK, PartitionStates, Offsets
<1> QED BY <1>1, <1>2, <1>3, <1>4 DEF Next

\* committed_offset never moves back.
THEOREM CursorMonotone == Spec => CursorNeverMovesBack
<1>1. IInv /\ [Next]_trackerVars
        => [\A p \in Partitions : cursor(p) <= cursor(p)']_trackerVars
  BY StepCursor
<1> QED BY <1>1, Invariance, PTL DEF Spec, CursorNeverMovesBack

\* A failed offset holds the cursor until that offset itself is acked.
THEOREM FailureBlocks == Spec => FailedHoldsCursor
<1>1. IInv /\ [Next]_trackerVars
        => [\A p \in Partitions : \A o \in failed(p) :
              cursor(p) < o /\ o <= cursor(p)' => o \notin failed(p)']_trackerVars
  BY StepCursor
<1> QED BY <1>1, Invariance, PTL DEF Spec, FailedHoldsCursor
=============================================================================
