--------------------------- MODULE RebalanceProofs ---------------------------
(***************************************************************************)
(* At-least-once delivery across rebalances and crashes, for every set of  *)
(* partitions, every log, all bounds of channel and queue and any number   *)
(* of assignments and restarts.  The argument: until a partition's first   *)
(* ack, whatever lies before a message underway is covered (settled, or    *)
(* lost before that ack) or underway in front of it (PathInOrder),         *)
(* although assignments leave old deliveries in front of new ones; so that *)
(* ack finds everything before it covered.  After it the tracker's own     *)
(* invariant takes over: a message that is dropped is not acked, the       *)
(* cursor stays below it, and everything up to the cursor is covered       *)
(* (CursorCovered).  Commits and seeks use nothing but cursors and         *)
(* committed positions.                                                    *)
(***************************************************************************)
EXTENDS Rebalance, OffsetTrackerProofs, SequenceTheorems

\* Everything before n is covered.
CoveredBefore(p, n) == \A o \in Offsets : o < n => o \in Covered(p)

\* Before the first ack, a message underway is preceded by everything before
\* it that is not covered.
PathInOrder ==
    \A p \in Partitions \ registered :
        /\ dropped[p] = {}
        /\ \A i \in 1 .. Len(Underway(p)), o \in Offsets :
              o < Underway(p)[i] =>
                  \/ o \in Covered(p)
                  \/ \E j \in 1 .. i - 1 : Underway(p)[j] = o

\* Everything before a partition's first ack is covered, and what was acked
\* is settled.
CursorCovered ==
    \A p \in Partitions :
        /\ acked[p] \subseteq settled[p]
        /\ p \in registered => CoveredBefore(p, base[p])

\* What the process found committed at its start is covered.
StartupCovered == \A p \in Partitions : CoveredBefore(p, startup_offsets[p])

\* The inductive invariant.
RebalanceInv ==
    /\ RebalanceTypeOK
    /\ IInv
    /\ CommittedIsSettled /\ NothingSkipped
    /\ PathInOrder /\ CursorCovered /\ StartupCovered
-----------------------------------------------------------------------------
(* What the steps do to the sequence of messages underway.                 *)

\* Taking the first message off a sequence, and putting one behind it.
LEMMA EndsOfSequence ==
    /\ \A s \in Seq(Offsets) :
          /\ Len(s) \in Nat
          /\ s # <<>> => /\ Head(s) \in Offsets /\ Tail(s) \in Seq(Offsets)
                         /\ Len(Tail(s)) = Len(s) - 1
    /\ \A s \in Seq(Offsets), x \in Offsets :
          Append(s, x) \in Seq(Offsets) /\ Len(Append(s, x)) = Len(s) + 1
  OBVIOUS

\* A concatenation, element by element.
LEMMA PathElements ==
    ASSUME NEW q \in Seq(Offsets), NEW s \in Seq(Offsets)
    PROVE  /\ q \o s \in Seq(Offsets) /\ Len(q \o s) = Len(q) + Len(s)
           /\ Len(q) \in Nat /\ Len(s) \in Nat
           /\ \A i \in 1 .. Len(q) : (q \o s)[i] = q[i]
           /\ \A i \in 1 .. Len(s) : (q \o s)[Len(q) + i] = s[i]
<1>1. /\ q \o s \in Seq(Offsets) /\ Len(q \o s) = Len(q) + Len(s)
      /\ \A i \in 1 .. Len(q) + Len(s) :
            (q \o s)[i] = IF i <= Len(q) THEN q[i] ELSE s[i - Len(q)]
  BY ConcatProperties
<1> DEFINE m == Len(q)
           n == Len(s)
<1>2. m \in Nat /\ n \in Nat
  OBVIOUS
<1> HIDE DEF m, n
<1>3. \A i \in 1 .. m : i \in 1 .. m + n /\ i <= m
  BY <1>2
<1>4. \A i \in 1 .. n : m + i \in 1 .. m + n /\ ~ (m + i <= m) /\ (m + i) - m = i
  BY <1>2
<1> QED BY <1>1, <1>2, <1>3, <1>4 DEF m, n

\* A poll puts a message at the end.
LEMMA PathAppend ==
    ASSUME NEW q \in Seq(Offsets), NEW s \in Seq(Offsets), NEW x \in Offsets
    PROVE  /\ q \o Append(s, x) \in Seq(Offsets)
           /\ Len(q \o s) \in Nat
           /\ Len(q \o Append(s, x)) = Len(q \o s) + 1
           /\ \A i \in 1 .. Len(q \o s) : (q \o Append(s, x))[i] = (q \o s)[i]
           /\ (q \o Append(s, x))[Len(q \o s) + 1] = x
<1> DEFINE r == Append(s, x)
           m == Len(q)
           n == Len(s)
<1>1. /\ r \in Seq(Offsets) /\ Len(r) = n + 1 /\ r[n + 1] = x
      /\ \A i \in 1 .. n : r[i] = s[i]
  OBVIOUS
<1> HIDE DEF r
<1>2. /\ q \o s \in Seq(Offsets) /\ Len(q \o s) = m + n /\ m \in Nat /\ n \in Nat
      /\ \A i \in 1 .. m : (q \o s)[i] = q[i]
      /\ \A i \in 1 .. n : (q \o s)[m + i] = s[i]
  BY PathElements
<1>3. /\ q \o r \in Seq(Offsets) /\ Len(q \o r) = m + Len(r)
      /\ \A i \in 1 .. m : (q \o r)[i] = q[i]
      /\ \A i \in 1 .. Len(r) : (q \o r)[m + i] = r[i]
  BY <1>1, PathElements
<1> HIDE DEF m, n
<1>4. ASSUME NEW i \in 1 .. m + n PROVE (q \o r)[i] = (q \o s)[i]
  <2>1. CASE i \in 1 .. m
    BY <1>2, <1>3, <2>1
  <2>2. CASE i \notin 1 .. m
    <3>1. /\ i - m \in 1 .. n /\ i - m \in 1 .. Len(r) /\ m + (i - m) = i
      BY <1>1, <1>2, <2>2
    <3> QED BY <1>1, <1>2, <1>3, <3>1
  <2> QED BY <2>1, <2>2
<1>5. (q \o r)[m + (n + 1)] = x
  BY <1>1, <1>2, <1>3
<1> QED BY <1>1, <1>2, <1>3, <1>4, <1>5 DEF r, m, n

\* A message dispatched stays where it is in the sequence.
LEMMA PathMove ==
    ASSUME NEW q \in Seq(Offsets), NEW s \in Seq(Offsets), s # <<>>
    PROVE  /\ Append(q, Head(s)) \o Tail(s) \in Seq(Offsets)
           /\ Len(Append(q, Head(s)) \o Tail(s)) = Len(q \o s)
           /\ \A i \in 1 .. Len(q \o s) :
                 (Append(q, Head(s)) \o Tail(s))[i] = (q \o s)[i]
<1> DEFINE r == Append(q, Head(s))
           u == Tail(s)
           m == Len(q)
           n == Len(s)
<1>1. /\ r \in Seq(Offsets) /\ Len(r) = m + 1 /\ r[m + 1] = s[1]
      /\ \A i \in 1 .. m : r[i] = q[i]
      /\ u \in Seq(Offsets) /\ Len(u) = n - 1 /\ n > 0
      /\ \A i \in 1 .. n - 1 : u[i] = s[i + 1]
  OBVIOUS
<1> HIDE DEF r, u
<1>2. /\ Len(q \o s) = m + n /\ m \in Nat /\ n \in Nat
      /\ \A i \in 1 .. m : (q \o s)[i] = q[i]
      /\ \A i \in 1 .. n : (q \o s)[m + i] = s[i]
  BY PathElements
<1>3. /\ r \o u \in Seq(Offsets) /\ Len(r \o u) = Len(r) + Len(u)
      /\ \A i \in 1 .. Len(r) : (r \o u)[i] = r[i]
      /\ \A i \in 1 .. Len(u) : (r \o u)[Len(r) + i] = u[i]
  BY <1>1, PathElements
<1> HIDE DEF m, n
<1>4. ASSUME NEW i \in 1 .. m + n PROVE (r \o u)[i] = (q \o s)[i]
  <2>1. CASE i \in 1 .. m
    BY <1>1, <1>2, <1>3, <2>1
  <2>2. CASE i = m + 1
    BY <1>1, <1>2, <1>3, <2>2
  <2>3. CASE i > m + 1
    <3> DEFINE k == i - (m + 1)
    <3>1. /\ k + 1 \in 1 .. n /\ m + (k + 1) = i
          /\ k \in 1 .. n - 1 /\ (m + 1) + k = i
      BY <1>2, <2>3
    <3> HIDE DEF k
    <3>2. (r \o u)[i] = u[k]
      BY <1>1, <1>3, <3>1
    <3>3. (q \o s)[i] = s[k + 1]
      BY <1>2, <3>1
    <3> QED BY <1>1, <3>1, <3>2, <3>3
  <2>4. i \in 1 .. m \/ i = m + 1 \/ i > m + 1
    BY ONLY <1>2, i \in 1 .. m + n
  <2> QED BY <2>1, <2>2, <2>3, <2>4
<1>5. Len(r \o u) = m + n
  BY <1>1, <1>2, <1>3
<1> QED BY <1>2, <1>3, <1>4, <1>5 DEF r, u, m, n

\* A message dropped leaves a gap that closes.
LEMMA PathRemove ==
    ASSUME NEW q \in Seq(Offsets), NEW s \in Seq(Offsets), s # <<>>
    PROVE  /\ q \o Tail(s) \in Seq(Offsets)
           /\ Len(q \o s) \in Nat /\ Len(q) \in Nat /\ Len(q) < Len(q \o s)
           /\ Len(q \o Tail(s)) = Len(q \o s) - 1
           /\ (q \o s)[Len(q) + 1] = Head(s)
           /\ \A i \in 1 .. Len(q \o s) - 1 :
                 (q \o Tail(s))[i] = (q \o s)[IF i <= Len(q) THEN i ELSE i + 1]
<1> DEFINE u == Tail(s)
           m == Len(q)
           n == Len(s)
<1>1. /\ u \in Seq(Offsets) /\ Len(u) = n - 1 /\ n > 0
      /\ \A i \in 1 .. n - 1 : u[i] = s[i + 1]
      /\ Head(s) = s[1]
  OBVIOUS
<1> HIDE DEF u
<1>2. /\ Len(q \o s) = m + n /\ m \in Nat /\ n \in Nat
      /\ \A i \in 1 .. m : (q \o s)[i] = q[i]
      /\ \A i \in 1 .. n : (q \o s)[m + i] = s[i]
  BY PathElements
<1>3. /\ q \o u \in Seq(Offsets) /\ Len(q \o u) = m + Len(u)
      /\ \A i \in 1 .. m : (q \o u)[i] = q[i]
      /\ \A i \in 1 .. Len(u) : (q \o u)[m + i] = u[i]
  BY <1>1, PathElements
<1> HIDE DEF m, n
<1>4. ASSUME NEW i \in 1 .. (m + n) - 1
      PROVE  (q \o u)[i] = (q \o s)[IF i <= m THEN i ELSE i + 1]
  <2>1. CASE i <= m
    BY <1>2, <1>3, <2>1
  <2>2. CASE ~ (i <= m)
    <3>1. /\ i - m \in 1 .. n - 1 /\ m + (i - m) = i
          /\ (i - m) + 1 \in 1 .. n /\ m + ((i - m) + 1) = i + 1
      BY <1>2, <2>2
    <3>2. (q \o u)[i] = u[i - m] /\ (q \o s)[i + 1] = s[(i - m) + 1]
      BY <1>1, <1>2, <1>3, <3>1
    <3> QED BY <1>1, <2>2, <3>1, <3>2
  <2> QED BY <2>1, <2>2
<1>5. Len(q \o u) = (m + n) - 1 /\ m < m + n /\ (q \o s)[m + 1] = Head(s)
  BY <1>1, <1>2, <1>3
<1> QED BY <1>2, <1>3, <1>4, <1>5 DEF u, m, n

\* A message settled is the first of the sequence.
LEMMA PathTail ==
    ASSUME NEW q \in Seq(Offsets), NEW s \in Seq(Offsets), q # <<>>
    PROVE  /\ Tail(q) \o s \in Seq(Offsets)
           /\ Len(q \o s) \in Nat \ {0}
           /\ Len(Tail(q) \o s) = Len(q \o s) - 1
           /\ (q \o s)[1] = Head(q)
           /\ \A i \in 1 .. Len(q \o s) - 1 : (Tail(q) \o s)[i] = (q \o s)[i + 1]
<1> DEFINE r == Tail(q)
           m == Len(q)
           n == Len(s)
<1>1. /\ r \in Seq(Offsets) /\ Len(r) = m - 1 /\ m > 0
      /\ \A i \in 1 .. m - 1 : r[i] = q[i + 1]
      /\ Head(q) = q[1]
  OBVIOUS
<1> HIDE DEF r
<1>2. /\ Len(q \o s) = m + n /\ m \in Nat /\ n \in Nat
      /\ \A i \in 1 .. m : (q \o s)[i] = q[i]
      /\ \A i \in 1 .. n : (q \o s)[m + i] = s[i]
  BY PathElements
<1>3. /\ r \o s \in Seq(Offsets) /\ Len(r \o s) = Len(r) + n
      /\ \A i \in 1 .. Len(r) : (r \o s)[i] = r[i]
      /\ \A i \in 1 .. n : (r \o s)[Len(r) + i] = s[i]
  BY <1>1, PathElements
<1> HIDE DEF m, n
<1>4. ASSUME NEW i \in 1 .. (m + n) - 1 PROVE (r \o s)[i] = (q \o s)[i + 1]
  <2>1. CASE i \in 1 .. m - 1
    BY <1>1, <1>2, <1>3, <2>1
  <2>2. CASE i \notin 1 .. m - 1
    <3>1. /\ i - (m - 1) \in 1 .. n /\ (m - 1) + (i - (m - 1)) = i
          /\ m + (i - (m - 1)) = i + 1
      BY <1>1, <1>2, <2>2
    <3> QED BY <1>1, <1>2, <1>3, <3>1
  <2> QED BY <2>1, <2>2
<1>5. Len(r \o s) = (m + n) - 1 /\ (q \o s)[1] = Head(q) /\ m + n \in Nat \ {0}
  BY <1>1, <1>2, <1>3
<1> QED BY <1>2, <1>3, <1>4, <1>5 DEF r, m, n
-----------------------------------------------------------------------------
(* What the tracker's cursor and the committed positions cover.            *)

\* Everything up to the tracker's cursor is covered.
LEMMA CursorCovers ==
    ASSUME RebalanceInv, NEW p \in registered
    PROVE  /\ p \in Partitions /\ cursor(p) \in Offsets
           /\ CoveredBefore(p, cursor(p) + 1)
<1>1. p \in Partitions
  BY DEF RebalanceInv, IInv, TypeOK
<1>2. PartitionInv(partitions[p], acked[p], base[p])
  BY <1>1 DEF RebalanceInv, IInv
<1>3. partitions[p] \in PartitionStates /\ base[p] \in -1 .. MaxOffset
  BY <1>1 DEF RebalanceInv, IInv, TypeOK
<1>4. cursor(p) \in Offsets
  BY <1>2, <1>3, MaxOffsetAssumption DEF PartitionInv, PartitionStates, Offsets, cursor
<1>5. ASSUME NEW o \in Offsets, o < cursor(p) + 1 PROVE o \in Covered(p)
  <2>1. CASE o < base[p]
    BY <1>1, <2>1 DEF RebalanceInv, CursorCovered, CoveredBefore
  <2>2. CASE base[p] <= o
    <3>1. o \in acked[p]
      BY <1>2, <1>4, <1>5, <2>2 DEF PartitionInv, cursor, Offsets
    <3> QED BY <1>1, <3>1 DEF RebalanceInv, CursorCovered, Covered
  <2> QED BY <1>3, <2>1, <2>2, MaxOffsetAssumption DEF Offsets
<1> QED BY <1>1, <1>4, <1>5 DEF CoveredBefore

\* Wherever an assignment starts, everything before it is covered.
LEMMA StartsCovered ==
    ASSUME RebalanceInv, NEW p \in Partitions
    PROVE  /\ DefaultPosition(p) \in 0 .. MaxOffset + 1
           /\ CoveredBefore(p, DefaultPosition(p))
           /\ SeekTarget(p) \in 0 .. MaxOffset + 1
           /\ CoveredBefore(p, SeekTarget(p))
<1>1. /\ broker[p] \in -1 .. MaxOffset + 1
      /\ startup_offsets[p] \in -1 .. MaxOffset + 1
  BY DEF RebalanceInv, RebalanceTypeOK
<1>2. /\ DefaultPosition(p) \in 0 .. MaxOffset + 1
      /\ CoveredBefore(p, DefaultPosition(p))
  BY <1>1, MaxOffsetAssumption
     DEF RebalanceInv, CommittedIsSettled, DefaultPosition, CoveredBefore,
         NoOffset, Offsets
<1>3. /\ SeekTarget(p) \in 0 .. MaxOffset + 1
      /\ CoveredBefore(p, SeekTarget(p))
  <2>1. CASE p \in registered
    BY <2>1, CursorCovers, MaxOffsetAssumption DEF SeekTarget, Offsets
  <2>2. CASE p \notin registered /\ startup_offsets[p] # NoOffset
    BY <1>1, <2>2, MaxOffsetAssumption
       DEF RebalanceInv, StartupCovered, SeekTarget, NoOffset
  <2>3. CASE p \notin registered /\ startup_offsets[p] = NoOffset
    BY <1>2, <2>3 DEF SeekTarget
  <2> QED BY <2>1, <2>2, <2>3
<1> QED BY <1>2, <1>3
-----------------------------------------------------------------------------
\* The invariant holds before the first assignment.
LEMMA RebalanceInitInvariant == RebalanceInit => RebalanceInv
<1> SUFFICES ASSUME RebalanceInit PROVE RebalanceInv
  OBVIOUS
<1>1. IInv
  BY InitInvariant DEF RebalanceInit
<1>2. RebalanceTypeOK
  <2>1. TypeOK
    BY <1>1 DEF IInv
  <2>2. /\ queue \in [Partitions -> Seq(Offsets)]
        /\ stream \in [Partitions -> Seq(Offsets)]
        /\ \A p \in Partitions :
              Len(stream[p]) <= StreamBound /\ Len(queue[p]) <= QueueBound
    BY RebalanceAssumption DEF RebalanceInit
  <2> QED BY <2>1, <2>2, MaxOffsetAssumption, RebalanceAssumption
          DEF RebalanceInit, RebalanceTypeOK, NoOffset
<1>3. CommittedIsSettled /\ NothingSkipped /\ StartupCovered
  BY DEF RebalanceInit, CommittedIsSettled, NothingSkipped,
         StartupCovered, CoveredBefore, NoOffset, Offsets
<1>4. PathInOrder
  <2>1. \A p \in Partitions : dropped[p] = {} /\ Len(Underway(p)) = 0
    <3> TAKE p \in Partitions
    <3>1. queue[p] = <<>> /\ stream[p] = <<>> /\ dropped[p] = {}
      BY DEF RebalanceInit
    <3>2. Len(<<>> \o <<>>) = 0
      OBVIOUS
    <3> QED BY <3>1, <3>2 DEF Underway
  <2> QED BY <2>1 DEF PathInOrder
<1>5. CursorCovered
  BY DEF RebalanceInit, Init, CursorCovered
<1> QED BY <1>1, <1>2, <1>3, <1>4, <1>5 DEF RebalanceInv

\* An assignment: the position is sought where everything is covered, and
\* nothing has been dropped since.
LEMMA AssignKeeps ==
    ASSUME RebalanceInv, NEW p \in Partitions, Assign(p) PROVE RebalanceInv'
<1> USE DEF RebalanceInv
<1>1. /\ UNCHANGED <<trackerVars, pathVars, startup_offsets, broker, settled,
                     exposed, restarts>>
      /\ owned' = owned \cup {p} /\ rebalances' = rebalances + 1
      /\ rebalances < MaxRebalances
      /\ dropped' = [dropped EXCEPT ![p] = {}]
  BY DEF Assign
<1>2. PICK n \in 0 .. MaxOffset + 1 :
         position' = [position EXCEPT ![p] = n] /\ CoveredBefore(p, n)
  BY StartsCovered DEF Assign
<1>3. IInv' /\ TypeOK'
  BY <1>1 DEF IInv, TypeOK, trackerVars
<1>4. RebalanceTypeOK'
  BY <1>1, <1>2, <1>3, RebalanceAssumption DEF RebalanceTypeOK, pathVars
<1>5. \A q \in Partitions : Covered(q)' = Covered(q) /\ Underway(q)' = Underway(q)
  BY <1>1 DEF Covered, Underway, pathVars
<1>6. CommittedIsSettled' /\ CursorCovered' /\ StartupCovered'
  BY <1>1, <1>5
     DEF CommittedIsSettled, CursorCovered, StartupCovered, CoveredBefore, trackerVars
<1>7. \A q \in Partitions : dropped'[q] = IF q = p THEN {} ELSE dropped[q]
  BY <1>1 DEF RebalanceTypeOK
<1>8. PathInOrder'
  BY <1>1, <1>5, <1>7 DEF PathInOrder, trackerVars
<1>9. NothingSkipped'
  <2> SUFFICES ASSUME NEW q \in owned', NEW o \in Offsets, o < position'[q]
               PROVE  \/ o \in Covered(q)' \cup dropped'[q]
                      \/ \E i \in DOMAIN Underway(q)' : Underway(q)'[i] = o
    BY DEF NothingSkipped
  <2>1. q \in Partitions
    BY <1>1 DEF RebalanceTypeOK
  <2>2. CASE q = p
    BY <1>2, <1>5, <2>1, <2>2 DEF CoveredBefore, RebalanceTypeOK
  <2>3. CASE q # p
    <3>1. q \in owned /\ position'[q] = position[q]
      BY <1>1, <1>2, <2>1, <2>3 DEF RebalanceTypeOK
    <3> QED BY <1>5, <1>7, <2>1, <2>3, <3>1 DEF NothingSkipped
  <2> QED BY <2>2, <2>3
<1> QED BY <1>3, <1>4, <1>6, <1>8, <1>9

\* Commits of this process and of the member that owns the partition: the
\* position committed has everything before it covered.
LEMMA CommitKeeps ==
    ASSUME RebalanceInv, NEW p \in Partitions,
           Revoke(p) \/ OtherMember(p) \/ Commit(p)
    PROVE  RebalanceInv'
<1> USE DEF RebalanceInv
<1>1. /\ UNCHANGED <<trackerVars, position, pathVars, startup_offsets, dropped,
                     exposed, boundVars>>
      /\ owned' \in SUBSET owned
  BY DEF Revoke, OtherMember, Commit, historyVars
<1>2. /\ settled' \in [Partitions -> SUBSET Offsets]
      /\ \A q \in Partitions : settled[q] \subseteq settled'[q]
  <2>1. CASE OtherMember(p)
    <3>1. DefaultPosition(p) \in Offsets
      BY <2>1, StartsCovered, MaxOffsetAssumption DEF OtherMember, Offsets
    <3> QED BY <2>1, <3>1 DEF OtherMember, RebalanceTypeOK
  <2>2. CASE UNCHANGED settled
    BY <2>2 DEF RebalanceTypeOK
  <2> QED BY <2>1, <2>2 DEF Revoke, Commit, historyVars
<1>3. \A q \in Partitions : /\ Covered(q) \subseteq Covered(q)'
                            /\ Underway(q)' = Underway(q)
  BY <1>1, <1>2 DEF Covered, Underway, pathVars
<1>4. PICK n \in -1 .. MaxOffset + 1 :
         /\ broker' = [broker EXCEPT ![p] = n]
         /\ \A o \in Offsets : o < n => o \in Covered(p)'
  <2>1. broker \in [Partitions -> -1 .. MaxOffset + 1]
    BY DEF RebalanceTypeOK
  <2>2. broker[p] \in -1 .. MaxOffset + 1 /\ broker = [broker EXCEPT ![p] = broker[p]]
    BY <2>1
  <2>3. p \in registered => cursor(p) + 1 \in -1 .. MaxOffset + 1
    BY CursorCovers, MaxOffsetAssumption DEF Offsets
  <2>4. CASE UNCHANGED broker
    BY <1>3, <2>2, <2>4 DEF CommittedIsSettled
  <2>5. CASE /\ p \in registered /\ broker' = [broker EXCEPT ![p] = cursor(p) + 1]
    BY <1>3, <2>3, <2>5, CursorCovers DEF CoveredBefore
  <2>6. CASE OtherMember(p)
    <3> DEFINE o == DefaultPosition(p)
    <3>1. o \in Offsets /\ CoveredBefore(p, o)
      BY <2>6, StartsCovered, MaxOffsetAssumption DEF OtherMember, Offsets
    <3>2. /\ broker' = [broker EXCEPT ![p] = o + 1]
          /\ settled'[p] = settled[p] \cup {o}
      BY <2>6 DEF OtherMember, RebalanceTypeOK
    <3> HIDE DEF o
    <3>3. o + 1 \in -1 .. MaxOffset + 1
      BY <3>1, MaxOffsetAssumption DEF Offsets
    <3>4. o \in Covered(p)'
      BY <3>2 DEF Covered
    <3>5. \A x \in Offsets : x < o + 1 => x \in Covered(p)'
      BY <1>3, <3>1, <3>4 DEF CoveredBefore, Offsets
    <3> QED BY <3>2, <3>3, <3>5
  <2> QED BY <2>4, <2>5, <2>6 DEF Revoke, Commit, should_commit
<1>5. IInv' /\ TypeOK'
  BY <1>1 DEF IInv, TypeOK, trackerVars
<1>6. RebalanceTypeOK'
  BY <1>1, <1>2, <1>4, <1>5 DEF RebalanceTypeOK, boundVars, pathVars
<1>7. CommittedIsSettled'
  BY <1>3, <1>4 DEF CommittedIsSettled, RebalanceTypeOK
<1>8. NothingSkipped'
  BY <1>1, <1>3 DEF NothingSkipped, RebalanceTypeOK
<1>9. PathInOrder'
  <2>1. registered' = registered
    BY <1>1 DEF trackerVars
  <2> QED BY <1>1, <1>3, <2>1 DEF PathInOrder
<1>10. CursorCovered'
  BY <1>1, <1>2, <1>3 DEF CursorCovered, CoveredBefore, trackerVars
<1>11. StartupCovered'
  BY <1>1, <1>3 DEF StartupCovered, CoveredBefore
<1> QED BY <1>5, <1>6, <1>7, <1>8, <1>9, <1>10, <1>11

\* A polled message goes behind everything before it that is not covered.
LEMMA PollKeeps ==
    ASSUME RebalanceInv, NEW p \in Partitions, Poll(p) PROVE RebalanceInv'
<1> USE DEF RebalanceInv
<1> DEFINE n == Len(Underway(p))
<1>1. /\ UNCHANGED <<trackerVars, owned, startup_offsets, broker, queue,
                     settled, dropped, exposed, boundVars>>
      /\ p \in owned /\ position[p] <= MaxOffset /\ Len(stream[p]) < StreamBound
      /\ stream' = [stream EXCEPT ![p] = Append(stream[p], position[p])]
      /\ position' = [position EXCEPT ![p] = position[p] + 1]
  BY DEF Poll, historyVars
<1>2. position[p] \in Offsets /\ stream[p] \in Seq(Offsets) /\ queue[p] \in Seq(Offsets)
  BY <1>1, MaxOffsetAssumption DEF RebalanceTypeOK, Offsets
<1>3. /\ stream'[p] = Append(stream[p], position[p])
      /\ \A q \in Partitions \ {p} : stream'[q] = stream[q]
  BY <1>1 DEF RebalanceTypeOK
<1>4. /\ Underway(p)' \in Seq(Offsets) /\ n \in Nat
      /\ Len(Underway(p)') = n + 1
      /\ \A i \in 1 .. n : Underway(p)'[i] = Underway(p)[i]
      /\ Underway(p)'[n + 1] = position[p]
  <2> DEFINE q == queue[p]
             s == stream[p]
             x == position[p]
  <2>1. q \in Seq(Offsets) /\ s \in Seq(Offsets) /\ x \in Offsets
    BY <1>2
  <2>2. Underway(p) = q \o s /\ Underway(p)' = q \o Append(s, x)
    BY <1>1, <1>3 DEF Underway
  <2> HIDE DEF q, s, x
  <2>3. /\ q \o Append(s, x) \in Seq(Offsets) /\ Len(q \o s) \in Nat
        /\ Len(q \o Append(s, x)) = Len(q \o s) + 1
        /\ \A i \in 1 .. Len(q \o s) : (q \o Append(s, x))[i] = (q \o s)[i]
        /\ (q \o Append(s, x))[Len(q \o s) + 1] = x
    BY <2>1, PathAppend
  <2> QED BY <2>2, <2>3 DEF x
<1>5. \A q \in Partitions \ {p} : Underway(q)' = Underway(q)
  BY <1>1, <1>3 DEF Underway
<1>6. \A q \in Partitions : Covered(q)' = Covered(q)
  BY <1>1 DEF Covered
<1>7. IInv' /\ TypeOK'
  BY <1>1 DEF IInv, TypeOK, trackerVars
<1>8. RebalanceTypeOK'
  <2>1. stream'[p] \in Seq(Offsets) /\ Len(stream'[p]) = Len(stream[p]) + 1
    BY <1>2, <1>3
  <2>2. stream' \in [Partitions -> Seq(Offsets)]
    BY <1>1, <1>2, <2>1 DEF RebalanceTypeOK
  <2>3. \A q \in Partitions : Len(stream'[q]) <= StreamBound
    BY <1>1, <1>2, <1>3, <2>1, RebalanceAssumption DEF RebalanceTypeOK
  <2>4. position' \in [Partitions -> 0 .. MaxOffset + 1]
    BY <1>1, <1>2, MaxOffsetAssumption DEF RebalanceTypeOK, Offsets
  <2> QED BY <1>1, <1>7, <2>2, <2>3, <2>4 DEF RebalanceTypeOK, boundVars
<1> HIDE DEF n
<1>9. \A o \in Offsets : o < position[p] =>
         \/ o \in Covered(p) \cup dropped[p]
         \/ \E j \in 1 .. n : Underway(p)[j] = o
  <2>1. DOMAIN Underway(p) = 1 .. n
    <3>1. Underway(p) \in Seq(Offsets)
      BY <1>2, PathElements DEF Underway
    <3> QED BY <3>1 DEF n
  <2> QED BY <1>1, <2>1 DEF NothingSkipped
<1>10. NothingSkipped'
  <2> SUFFICES ASSUME NEW q \in owned, NEW o \in Offsets, o < position'[q]
               PROVE  \/ o \in Covered(q) \cup dropped[q]
                      \/ \E i \in DOMAIN Underway(q)' : Underway(q)'[i] = o
    <3>1. \A q \in owned : q \in Partitions
      BY DEF RebalanceTypeOK
    <3> QED BY <1>1, <1>6, <3>1 DEF NothingSkipped
  <2>0. q \in Partitions
    BY DEF RebalanceTypeOK
  <2>1. CASE q # p
    <3>1. position'[q] = position[q]
      BY <1>1, <2>0, <2>1 DEF RebalanceTypeOK
    <3> QED BY <1>5, <2>0, <2>1, <3>1 DEF NothingSkipped
  <2>2. CASE q = p
    <3>1. DOMAIN Underway(p)' = 1 .. n + 1
      BY <1>4
    <3>2. o < position[p] \/ o = position[p]
      BY <1>1, <1>2, <2>2 DEF RebalanceTypeOK, Offsets
    <3>3. CASE o = position[p]
      <4>1. n + 1 \in DOMAIN Underway(p)'
        BY <1>4, <3>1
      <4> QED BY <1>4, <2>2, <3>3, <4>1
    <3>4. CASE o < position[p] /\ o \notin Covered(p) \cup dropped[p]
      <4>1. PICK j \in 1 .. n : Underway(p)[j] = o
        BY <1>9, <3>4
      <4>2. j \in DOMAIN Underway(p)' /\ Underway(p)'[j] = o
        BY <1>4, <3>1, <4>1
      <4> QED BY <2>2, <4>2
    <3> QED BY <2>2, <3>2, <3>3, <3>4
  <2> QED BY <2>1, <2>2
<1>11. PathInOrder'
  <2>0. registered' = registered
    BY <1>1 DEF trackerVars
  <2> SUFFICES ASSUME NEW q \in Partitions \ registered,
                      NEW i \in 1 .. Len(Underway(q)'),
                      NEW o \in Offsets, o < Underway(q)'[i]
               PROVE  \/ o \in Covered(q)
                      \/ \E j \in 1 .. i - 1 : Underway(q)'[j] = o
    BY <1>1, <1>6, <2>0 DEF PathInOrder
  <2>1. CASE q # p
    BY <1>5, <2>1 DEF PathInOrder
  <2>2. CASE q = p /\ i = n + 1
    <3>1. dropped[p] = {}
      BY <2>2 DEF PathInOrder
    <3>2. o < position[p]
      BY <1>4, <2>2
    <3>3. CASE \E j \in 1 .. n : Underway(p)[j] = o
      BY <1>4, <2>2, <3>3
    <3> QED BY <1>9, <2>2, <3>1, <3>2, <3>3
  <2>3. CASE q = p /\ i # n + 1
    <3>1. i \in 1 .. n /\ o < Underway(p)[i]
      BY <1>4, <2>3
    <3>2. o \in Covered(p) \/ \E j \in 1 .. i - 1 : Underway(p)[j] = o
      BY <2>3, <3>1 DEF PathInOrder, n
    <3> QED BY <1>4, <2>3, <3>1, <3>2
  <2> QED BY <2>1, <2>2, <2>3
<1>12. CommittedIsSettled' /\ CursorCovered' /\ StartupCovered'
  BY <1>1, <1>6 DEF CommittedIsSettled, CursorCovered, StartupCovered, CoveredBefore,
                    trackerVars
<1> QED BY <1>7, <1>8, <1>10, <1>11, <1>12

\* A dispatched message stays where it is among those underway.
LEMMA DispatchKeeps ==
    ASSUME RebalanceInv, NEW p \in Partitions, Dispatch(p) PROVE RebalanceInv'
<1> USE DEF RebalanceInv
<1>1. /\ UNCHANGED <<trackerVars, groupVars, historyVars, boundVars>>
      /\ stream[p] # <<>> /\ Len(queue[p]) < QueueBound
      /\ stream' = [stream EXCEPT ![p] = Tail(stream[p])]
      /\ queue' = [queue EXCEPT ![p] = Append(queue[p], Head(stream[p]))]
  BY DEF Dispatch
<1>2. stream[p] \in Seq(Offsets) /\ queue[p] \in Seq(Offsets)
  BY DEF RebalanceTypeOK
<1>3. /\ stream'[p] = Tail(stream[p]) /\ queue'[p] = Append(queue[p], Head(stream[p]))
      /\ \A q \in Partitions \ {p} : stream'[q] = stream[q] /\ queue'[q] = queue[q]
  BY <1>1 DEF RebalanceTypeOK
<1>4. /\ Len(Underway(p)') = Len(Underway(p))
      /\ \A i \in 1 .. Len(Underway(p)) : Underway(p)'[i] = Underway(p)[i]
      /\ Underway(p) \in Seq(Offsets) /\ Underway(p)' \in Seq(Offsets)
  <2> DEFINE q == queue[p]
             s == stream[p]
             r == Append(q, Head(s)) \o Tail(s)
  <2>1. q \in Seq(Offsets) /\ s \in Seq(Offsets) /\ s # <<>>
    BY <1>1, <1>2
  <2>2. Underway(p) = q \o s /\ Underway(p)' = r
    BY <1>3 DEF Underway
  <2> HIDE DEF q, s
  <2>3. /\ r \in Seq(Offsets) /\ Len(r) = Len(q \o s)
        /\ \A i \in 1 .. Len(q \o s) : r[i] = (q \o s)[i]
    BY <2>1, PathMove
  <2>4. q \o s \in Seq(Offsets)
    BY <2>1, PathElements
  <2> HIDE DEF r
  <2> QED BY <2>2, <2>3, <2>4
<1>5. ASSUME NEW q \in Partitions
      PROVE  /\ Covered(q)' = Covered(q)
             /\ Len(Underway(q)') = Len(Underway(q))
             /\ DOMAIN Underway(q)' = DOMAIN Underway(q)
             /\ \A i \in 1 .. Len(Underway(q)) : Underway(q)'[i] = Underway(q)[i]
             /\ \A i \in DOMAIN Underway(q) : Underway(q)'[i] = Underway(q)[i]
             /\ Len(Underway(q)) \in Nat
  <2>1. Covered(q)' = Covered(q)
    BY <1>1 DEF Covered, historyVars
  <2>2. CASE q = p
    BY <1>4, <2>1, <2>2
  <2>3. CASE q # p
    <3>1. Underway(q)' = Underway(q)
      BY <1>3, <2>3 DEF Underway
    <3>2. queue[q] \in Seq(Offsets) /\ stream[q] \in Seq(Offsets)
      BY DEF RebalanceTypeOK
    <3>3. Underway(q) \in Seq(Offsets)
      BY <3>2, PathElements DEF Underway
    <3> QED BY <2>1, <3>1, <3>3
  <2> QED BY <2>2, <2>3
<1>6. IInv' /\ TypeOK'
  BY <1>1 DEF IInv, TypeOK, trackerVars
<1>7. RebalanceTypeOK'
  <2>1. /\ stream'[p] \in Seq(Offsets) /\ Len(stream'[p]) = Len(stream[p]) - 1
        /\ queue'[p] \in Seq(Offsets) /\ Len(queue'[p]) = Len(queue[p]) + 1
        /\ Len(stream[p]) \in Nat /\ Len(queue[p]) \in Nat
    BY <1>1, <1>2, <1>3, EndsOfSequence
  <2>2. /\ stream' \in [Partitions -> Seq(Offsets)]
        /\ queue' \in [Partitions -> Seq(Offsets)]
    BY <1>1, <1>3, <2>1 DEF RebalanceTypeOK
  <2>3. Len(stream[p]) <= StreamBound /\ StreamBound \in Nat /\ QueueBound \in Nat
    BY RebalanceAssumption DEF RebalanceTypeOK
  <2>4. Len(stream'[p]) <= StreamBound /\ Len(queue'[p]) <= QueueBound
    BY ONLY <1>1, <2>1, <2>3
  <2>5. \A q \in Partitions :
           Len(stream'[q]) <= StreamBound /\ Len(queue'[q]) <= QueueBound
    BY <1>3, <2>4 DEF RebalanceTypeOK
  <2> QED BY <1>1, <1>6, <2>2, <2>5
          DEF RebalanceTypeOK, groupVars, historyVars, boundVars
<1>8. CommittedIsSettled' /\ CursorCovered' /\ StartupCovered'
  BY <1>1, <1>5 DEF CommittedIsSettled, CursorCovered, StartupCovered, CoveredBefore,
                    trackerVars, groupVars, historyVars
<1>9. NothingSkipped'
  <2> SUFFICES ASSUME NEW q \in owned, NEW o \in Offsets, o < position[q]
               PROVE  \/ o \in Covered(q)' \cup dropped[q]
                      \/ \E i \in DOMAIN Underway(q)' : Underway(q)'[i] = o
    BY <1>1 DEF NothingSkipped, groupVars, historyVars
  <2>1. q \in Partitions
    BY DEF RebalanceTypeOK
  <2>2. \/ o \in Covered(q) \cup dropped[q]
        \/ \E i \in DOMAIN Underway(q) : Underway(q)[i] = o
    BY DEF NothingSkipped
  <2> QED BY <1>5, <2>1, <2>2
<1>10. PathInOrder'
  <2> SUFFICES ASSUME NEW q \in Partitions \ registered,
                      NEW i \in 1 .. Len(Underway(q)'),
                      NEW o \in Offsets, o < Underway(q)'[i]
               PROVE  \/ o \in Covered(q)'
                      \/ \E j \in 1 .. i - 1 : Underway(q)'[j] = o
    BY <1>1 DEF PathInOrder, trackerVars, historyVars
  <2>1. i \in 1 .. Len(Underway(q)) /\ o < Underway(q)[i]
    BY <1>5
  <2>2. o \in Covered(q) \/ \E j \in 1 .. i - 1 : Underway(q)[j] = o
    BY <2>1 DEF PathInOrder
  <2>3. \A j \in 1 .. i - 1 : j \in 1 .. Len(Underway(q))
    BY <1>5, <2>1
  <2> QED BY <1>5, <2>2, <2>3
<1> QED BY <1>6, <1>7, <1>8, <1>9, <1>10

\* A message dropped is noted: before the first ack it counts as covered,
\* after it the cursor waits before it.
LEMMA DropKeeps ==
    ASSUME RebalanceInv, NEW p \in Partitions, Drop(p) PROVE RebalanceInv'
<1> USE DEF RebalanceInv
<1> DEFINE x == Head(stream[p])
           m == Len(queue[p])
           n == Len(Underway(p))
<1>1. /\ UNCHANGED <<trackerVars, groupVars, queue, settled, boundVars>>
      /\ stream[p] # <<>>
      /\ stream' = [stream EXCEPT ![p] = Tail(stream[p])]
  BY DEF Drop
<1>2. stream[p] \in Seq(Offsets) /\ queue[p] \in Seq(Offsets)
  BY DEF RebalanceTypeOK
<1>3. /\ stream'[p] = Tail(stream[p]) /\ x \in Offsets
      /\ \A q \in Partitions \ {p} : stream'[q] = stream[q]
  BY <1>1, <1>2 DEF RebalanceTypeOK
<1>4. /\ Underway(p)' \in Seq(Offsets) /\ Underway(p) \in Seq(Offsets)
      /\ n \in Nat /\ m \in Nat /\ m < n
      /\ Len(Underway(p)') = n - 1
      /\ Underway(p)[m + 1] = x
      /\ \A i \in 1 .. n - 1 :
            Underway(p)'[i] = Underway(p)[IF i <= m THEN i ELSE i + 1]
  <2> DEFINE q == queue[p]
             s == stream[p]
  <2>1. q \in Seq(Offsets) /\ s \in Seq(Offsets) /\ s # <<>>
    BY <1>1, <1>2
  <2>2. Underway(p) = q \o s /\ Underway(p)' = q \o Tail(s) /\ x = Head(s) /\ m = Len(q)
    BY <1>1, <1>3 DEF Underway
  <2> HIDE DEF q, s, x, m
  <2>3. /\ q \o Tail(s) \in Seq(Offsets)
        /\ Len(q \o s) \in Nat /\ Len(q) \in Nat /\ Len(q) < Len(q \o s)
        /\ Len(q \o Tail(s)) = Len(q \o s) - 1
        /\ (q \o s)[Len(q) + 1] = Head(s)
        /\ \A i \in 1 .. Len(q \o s) - 1 :
              (q \o Tail(s))[i] = (q \o s)[IF i <= Len(q) THEN i ELSE i + 1]
    BY <2>1, PathRemove
  <2>4. q \o s \in Seq(Offsets)
    BY <2>1, PathElements
  <2> QED BY <2>2, <2>3, <2>4
<1>5. \A q \in Partitions \ {p} : Underway(q)' = Underway(q)
  BY <1>1, <1>3 DEF Underway
<1>6. /\ dropped' \in [Partitions -> SUBSET Offsets]
      /\ exposed' \in [Partitions -> SUBSET Offsets]
      /\ \A q \in Partitions : /\ dropped[q] \subseteq dropped'[q]
                               /\ exposed[q] \subseteq exposed'[q]
      /\ x \in dropped'[p] \cup exposed'[p]
      /\ p \notin registered => x \in exposed'[p]
      /\ \A q \in Partitions \ registered : dropped'[q] = dropped[q]
  <2>1. /\ dropped \in [Partitions -> SUBSET Offsets]
        /\ exposed \in [Partitions -> SUBSET Offsets]
    BY DEF RebalanceTypeOK
  <2>2. CASE p \in registered
    <3>1. dropped' = [dropped EXCEPT ![p] = dropped[p] \cup {x}] /\ exposed' = exposed
      BY <2>2 DEF Drop
    <3> HIDE DEF x
    <3> QED BY <1>3, <2>1, <2>2, <3>1
  <2>3. CASE p \notin registered
    <3>1. exposed' = [exposed EXCEPT ![p] = exposed[p] \cup {x}] /\ dropped' = dropped
      BY <2>3 DEF Drop
    <3> HIDE DEF x
    <3> QED BY <1>3, <2>1, <2>3, <3>1
  <2> QED BY <2>2, <2>3
<1> HIDE DEF x, m, n
<1>7. /\ \A q \in Partitions : Covered(q) \subseteq Covered(q)'
      /\ x \in Covered(p)' \cup dropped'[p]
      /\ p \notin registered => x \in Covered(p)'
  BY <1>1, <1>6 DEF Covered
<1>8. IInv' /\ TypeOK'
  BY <1>1 DEF IInv, TypeOK, trackerVars
<1>9. RebalanceTypeOK'
  <2>1. /\ stream'[p] \in Seq(Offsets) /\ Len(stream'[p]) = Len(stream[p]) - 1
        /\ Len(stream[p]) \in Nat
    BY <1>1, <1>2, <1>3, EndsOfSequence
  <2>2. stream' \in [Partitions -> Seq(Offsets)]
    BY <1>1, <1>3, <2>1 DEF RebalanceTypeOK
  <2>3. Len(stream[p]) <= StreamBound /\ StreamBound \in Nat
    BY RebalanceAssumption DEF RebalanceTypeOK
  <2>4. Len(stream'[p]) <= StreamBound
    BY ONLY <2>1, <2>3
  <2>5. \A q \in Partitions :
           Len(stream'[q]) <= StreamBound /\ Len(queue'[q]) <= QueueBound
    BY <1>1, <1>3, <2>4 DEF RebalanceTypeOK
  <2> QED BY <1>1, <1>6, <1>8, <2>2, <2>5 DEF RebalanceTypeOK, groupVars, boundVars
<1>10. CommittedIsSettled' /\ CursorCovered' /\ StartupCovered'
  BY <1>1, <1>7 DEF CommittedIsSettled, CursorCovered, StartupCovered, CoveredBefore,
                    trackerVars, groupVars
<1>11. ASSUME NEW i \in 1 .. n, i # m + 1
       PROVE  \E k \in 1 .. n - 1 :
                 /\ Underway(p)'[k] = Underway(p)[i]
                 /\ k = IF i <= m THEN i ELSE i - 1
  <2>1. CASE i <= m
    BY <1>4, <2>1
  <2>2. CASE ~ (i <= m)
    <3>1. i - 1 \in 1 .. n - 1 /\ ~ (i - 1 <= m) /\ (i - 1) + 1 = i
      BY <1>4, <1>11, <2>2
    <3> QED BY <1>4, <2>2, <3>1
  <2> QED BY <2>1, <2>2
<1>12. NothingSkipped'
  <2> SUFFICES ASSUME NEW q \in owned, NEW o \in Offsets, o < position[q]
               PROVE  \/ o \in Covered(q)' \cup dropped'[q]
                      \/ \E i \in DOMAIN Underway(q)' : Underway(q)'[i] = o
    BY <1>1 DEF NothingSkipped, groupVars
  <2>1. q \in Partitions
    BY DEF RebalanceTypeOK
  <2>2. \/ o \in Covered(q) \cup dropped[q]
        \/ \E i \in DOMAIN Underway(q) : Underway(q)[i] = o
    BY DEF NothingSkipped
  <2>3. CASE o \in Covered(q) \cup dropped[q]
    BY <1>6, <1>7, <2>1, <2>3
  <2>4. CASE q # p
    BY <1>5, <1>6, <1>7, <2>1, <2>2, <2>4
  <2>5. CASE q = p /\ \E i \in DOMAIN Underway(q) : Underway(q)[i] = o
    <3>1. PICK i \in 1 .. n : Underway(p)[i] = o
      BY <1>4, <2>5 DEF n
    <3>2. CASE i = m + 1
      BY <1>4, <1>7, <2>5, <3>1, <3>2
    <3>3. CASE i # m + 1
      <4>1. PICK k \in 1 .. n - 1 : Underway(p)'[k] = o
        BY <1>11, <3>1, <3>3
      <4>2. k \in DOMAIN Underway(p)'
        BY <1>4, <4>1
      <4> QED BY <2>5, <4>1, <4>2
    <3> QED BY <3>2, <3>3
  <2> QED BY <2>2, <2>3, <2>4, <2>5
<1>13. PathInOrder'
  <2> SUFFICES ASSUME NEW q \in Partitions \ registered,
                      NEW i \in 1 .. Len(Underway(q)'),
                      NEW o \in Offsets, o < Underway(q)'[i], o \notin Covered(q)'
               PROVE  \E j \in 1 .. i - 1 : Underway(q)'[j] = o
    <3>1. \A q \in Partitions \ registered : dropped'[q] = {}
      BY <1>6 DEF PathInOrder
    <3> QED BY <1>1, <3>1 DEF PathInOrder, trackerVars
  <2>1. CASE q # p
    BY <1>5, <1>7, <2>1 DEF PathInOrder
  <2>2. CASE q = p
    <3> DEFINE l == IF i <= m THEN i ELSE i + 1
    <3>1. i \in 1 .. n - 1 /\ l \in 1 .. n /\ Underway(p)'[i] = Underway(p)[l]
      BY <1>4, <2>2
    <3>2. o \notin Covered(p) /\ o < Underway(p)[l]
      BY <1>7, <2>2, <3>1
    <3> HIDE DEF l
    <3>3. PICK j \in 1 .. l - 1 : Underway(p)[j] = o
      BY <2>2, <3>1, <3>2 DEF PathInOrder, n
    <3>4. j \in 1 .. n /\ j # m + 1
      BY <1>4, <1>7, <2>2, <3>1, <3>3
    <3>5. PICK k \in 1 .. n - 1 : /\ Underway(p)'[k] = o
                                  /\ k = IF j <= m THEN j ELSE j - 1
      BY <1>11, <3>3, <3>4
    <3>6. k \in 1 .. i - 1
      <4>1. l \in Nat /\ l = IF i <= m THEN i ELSE i + 1
        BY <3>1 DEF l
      <4> QED BY ONLY <1>4, <3>1, <3>3, <3>4, <3>5, <4>1
    <3> QED BY <2>2, <3>5, <3>6
  <2> QED BY <2>1, <2>2
<1> QED BY <1>8, <1>9, <1>10, <1>12, <1>13

\* The message a worker settles is the first underway: before the first ack
\* everything before it is covered, so it may become the partition's base.
LEMMA WorkKeeps ==
    ASSUME RebalanceInv, NEW p \in Partitions, Work(p) PROVE RebalanceInv'
<1> USE DEF RebalanceInv
<1> DEFINE o == Head(queue[p])
           n == Len(Underway(p))
<1>1. /\ queue[p] # <<>>
      /\ ack(p, o) \/ \E category \in Categories : mark_failed(p, o, category)
      /\ settled' = [settled EXCEPT ![p] = settled[p] \cup {o}]
      /\ queue' = [queue EXCEPT ![p] = Tail(queue[p])]
      /\ UNCHANGED <<groupVars, stream, dropped, exposed, boundVars>>
  BY DEF Work
<1>2. queue[p] \in Seq(Offsets) /\ stream[p] \in Seq(Offsets)
  BY DEF RebalanceTypeOK
<1>3. /\ o \in Offsets
      /\ queue'[p] = Tail(queue[p]) /\ queue'[p] \in Seq(Offsets)
      /\ Len(queue'[p]) = Len(queue[p]) - 1 /\ Len(queue[p]) \in Nat
      /\ \A q \in Partitions \ {p} : queue'[q] = queue[q]
  BY <1>1, <1>2, EndsOfSequence DEF RebalanceTypeOK
<1>4. /\ Underway(p)' \in Seq(Offsets) /\ Underway(p) \in Seq(Offsets)
      /\ n \in Nat \ {0} /\ Len(Underway(p)') = n - 1 /\ Underway(p)[1] = o
      /\ \A i \in 1 .. n - 1 : Underway(p)'[i] = Underway(p)[i + 1]
  <2> DEFINE q == queue[p]
             s == stream[p]
  <2>1. q \in Seq(Offsets) /\ s \in Seq(Offsets) /\ q # <<>>
    BY <1>1, <1>2
  <2>2. Underway(p) = q \o s /\ Underway(p)' = Tail(q) \o s /\ o = Head(q)
    BY <1>1, <1>3 DEF Underway
  <2> HIDE DEF q, s, o
  <2>3. /\ Tail(q) \o s \in Seq(Offsets) /\ Len(q \o s) \in Nat \ {0}
        /\ Len(Tail(q) \o s) = Len(q \o s) - 1 /\ (q \o s)[1] = Head(q)
        /\ \A i \in 1 .. Len(q \o s) - 1 : (Tail(q) \o s)[i] = (q \o s)[i + 1]
    BY <2>1, PathTail
  <2>4. q \o s \in Seq(Offsets)
    BY <2>1, PathElements
  <2> QED BY <2>2, <2>3, <2>4
<1>5. \A q \in Partitions \ {p} : Underway(q)' = Underway(q)
  BY <1>1, <1>3 DEF Underway
<1> HIDE DEF o, n
<1>6. /\ settled' \in [Partitions -> SUBSET Offsets]
      /\ \A q \in Partitions : settled[q] \subseteq settled'[q]
      /\ o \in settled'[p]
  BY <1>1, <1>3 DEF RebalanceTypeOK
<1>7. /\ \A q \in Partitions : Covered(q) \subseteq Covered(q)'
      /\ o \in Covered(p)'
  BY <1>1, <1>6 DEF Covered
<1>8. p \notin registered => CoveredBefore(p, o)
  BY <1>4 DEF PathInOrder, CoveredBefore, n
<1>9. IInv' /\ TypeOK'
  <2>1. Next
    BY <1>1, <1>3 DEF Next
  <2> QED BY <2>1, StepInvariant DEF IInv
<1>10. RebalanceTypeOK'
  <2>1. queue' \in [Partitions -> Seq(Offsets)]
    BY <1>1, <1>3 DEF RebalanceTypeOK
  <2>2. Len(queue[p]) <= QueueBound /\ QueueBound \in Nat
    BY RebalanceAssumption DEF RebalanceTypeOK
  <2>3. Len(queue'[p]) <= QueueBound
    BY ONLY <1>3, <2>2
  <2>4. \A q \in Partitions :
           Len(stream[q]) <= StreamBound /\ Len(queue'[q]) <= QueueBound
    BY <1>3, <2>3 DEF RebalanceTypeOK
  <2> QED BY <1>1, <1>6, <1>9, <2>1, <2>4 DEF RebalanceTypeOK, groupVars, boundVars
<1>11. CommittedIsSettled' /\ StartupCovered'
  BY <1>1, <1>7 DEF CommittedIsSettled, StartupCovered, CoveredBefore, groupVars
<1>12. /\ registered \subseteq registered' /\ registered' \subseteq registered \cup {p}
       /\ ack(p, o) \/ UNCHANGED <<registered, acked, base>>
  BY <1>1 DEF ack, mark_failed
<1>13. CursorCovered'
  <2> SUFFICES ASSUME NEW q \in Partitions
               PROVE  /\ acked'[q] \subseteq settled'[q]
                      /\ q \in registered' =>
                            \A x \in Offsets : x < base'[q] => x \in Covered(q)'
    BY DEF CursorCovered, CoveredBefore
  <2>1. CASE ack(p, o)
    BY <1>3, <1>6, <1>7, <1>8, <2>1
       DEF ack, CursorCovered, CoveredBefore, IInv, TypeOK
  <2>2. CASE UNCHANGED <<registered, acked, base>>
    BY <1>6, <1>7, <2>2 DEF CursorCovered, CoveredBefore
  <2> QED BY <1>12, <2>1, <2>2
<1>14. NothingSkipped'
  <2> SUFFICES ASSUME NEW q \in owned, NEW x \in Offsets, x < position[q]
               PROVE  \/ x \in Covered(q)' \cup dropped[q]
                      \/ \E i \in DOMAIN Underway(q)' : Underway(q)'[i] = x
    BY <1>1 DEF NothingSkipped, groupVars
  <2>1. q \in Partitions
    BY DEF RebalanceTypeOK
  <2>2. \/ x \in Covered(q) \cup dropped[q]
        \/ \E i \in DOMAIN Underway(q) : Underway(q)[i] = x
    BY DEF NothingSkipped
  <2>3. CASE x \in Covered(q) \cup dropped[q]
    BY <1>7, <2>1, <2>3
  <2>4. CASE q # p
    BY <1>5, <1>7, <2>1, <2>2, <2>4
  <2>5. CASE q = p /\ \E i \in DOMAIN Underway(q) : Underway(q)[i] = x
    <3>1. PICK i \in 1 .. n : Underway(p)[i] = x
      BY <1>4, <2>5 DEF n
    <3>2. CASE i = 1
      BY <1>4, <1>7, <2>5, <3>1, <3>2
    <3>3. CASE i # 1
      <4>1. i - 1 \in 1 .. n - 1 /\ (i - 1) + 1 = i
        BY <1>4, <3>1, <3>3
      <4>2. i - 1 \in DOMAIN Underway(p)' /\ Underway(p)'[i - 1] = x
        BY <1>4, <3>1, <4>1
      <4> QED BY <2>5, <4>2
    <3> QED BY <3>2, <3>3
  <2> QED BY <2>2, <2>3, <2>4, <2>5
<1>15. PathInOrder'
  <2> SUFFICES ASSUME NEW q \in Partitions \ registered,
                      NEW i \in 1 .. Len(Underway(q)'),
                      NEW x \in Offsets, x < Underway(q)'[i], x \notin Covered(q)'
               PROVE  \E j \in 1 .. i - 1 : Underway(q)'[j] = x
    BY <1>1, <1>12 DEF PathInOrder
  <2>1. CASE q # p
    BY <1>5, <1>7, <2>1 DEF PathInOrder
  <2>2. CASE q = p
    <3>1. i \in 1 .. n - 1 /\ i + 1 \in 1 .. n /\ Underway(p)'[i] = Underway(p)[i + 1]
      BY <1>4, <2>2
    <3>2. x \notin Covered(p) /\ x < Underway(p)[i + 1]
      BY <1>7, <2>2, <3>1
    <3>3. PICK j \in 1 .. (i + 1) - 1 : Underway(p)[j] = x
      BY <2>2, <3>1, <3>2 DEF PathInOrder, n
    <3>4. j # 1
      BY <1>4, <1>7, <2>2, <3>3
    <3>5. j - 1 \in 1 .. i - 1 /\ j - 1 \in 1 .. n - 1 /\ (j - 1) + 1 = j
      BY <1>4, <3>1, <3>3, <3>4
    <3>6. Underway(p)'[j - 1] = x
      BY <1>4, <3>3, <3>5
    <3> QED BY <2>2, <3>5, <3>6
  <2> QED BY <2>1, <2>2
<1> QED BY <1>9, <1>10, <1>11, <1>13, <1>14, <1>15

\* A crash leaves the committed positions, which are covered.
LEMMA RestartKeeps == ASSUME RebalanceInv, Restart PROVE RebalanceInv'
<1> USE DEF RebalanceInv
<1>1. IInv' /\ TypeOK'
  BY MaxOffsetAssumption
     DEF Restart, IInv, TypeOK, NewPartitionState, PartitionStates, Offsets
<1>2. \A p \in Partitions : /\ queue'[p] = <<>> /\ stream'[p] = <<>>
                            /\ acked'[p] = {} /\ dropped'[p] = {}
  BY DEF Restart
<1>3. RebalanceTypeOK'
  <2>1. /\ queue' \in [Partitions -> Seq(Offsets)]
        /\ stream' \in [Partitions -> Seq(Offsets)]
        /\ dropped' \in [Partitions -> SUBSET Offsets]
    BY DEF Restart
  <2>2. \A p \in Partitions :
           Len(stream'[p]) <= StreamBound /\ Len(queue'[p]) <= QueueBound
    BY <1>2, RebalanceAssumption
  <2> QED BY <1>1, <2>1, <2>2, RebalanceAssumption DEF Restart, RebalanceTypeOK
<1>4. CommittedIsSettled' /\ NothingSkipped' /\ StartupCovered'
  BY DEF Restart, CommittedIsSettled, NothingSkipped, StartupCovered, CoveredBefore,
         Covered
<1>5. PathInOrder'
  <2>1. \A p \in Partitions : Len(Underway(p)') = 0
    <3> TAKE p \in Partitions
    <3>1. Len(<<>> \o <<>>) = 0
      OBVIOUS
    <3> QED BY <1>2, <3>1 DEF Underway
  <2> QED BY <1>2, <2>1 DEF PathInOrder
<1>6. CursorCovered'
  BY <1>2 DEF Restart, CursorCovered
<1> QED BY <1>1, <1>3, <1>4, <1>5, <1>6

\* Every step keeps the invariant.
LEMMA RebalanceStepInvariant ==
    RebalanceInv /\ [RebalanceNext]_vars => RebalanceInv'
<1> SUFFICES ASSUME RebalanceInv, [RebalanceNext]_vars PROVE RebalanceInv'
  OBVIOUS
<1>1. CASE RebalanceNext
  BY <1>1, AssignKeeps, CommitKeeps, PollKeeps, DispatchKeeps, DropKeeps, WorkKeeps,
     RestartKeeps DEF RebalanceNext, Process
<1>2. CASE UNCHANGED vars
  <2> USE <1>2 DEF vars, RebalanceInv, trackerVars, groupVars, pathVars, historyVars,
                   boundVars
  <2>1. RebalanceTypeOK' /\ IInv'
    BY DEF RebalanceTypeOK, IInv, TypeOK
  <2>2. \A p : Covered(p)' = Covered(p) /\ Underway(p)' = Underway(p)
    BY DEF Covered, Underway
  <2>3. CommittedIsSettled' /\ NothingSkipped' /\ PathInOrder'
    BY <2>2 DEF CommittedIsSettled, NothingSkipped, PathInOrder
  <2>4. CursorCovered' /\ StartupCovered'
    BY <2>2 DEF CursorCovered, StartupCovered, CoveredBefore
  <2> QED BY <2>1, <2>3, <2>4
<1> QED BY <1>1, <1>2
-----------------------------------------------------------------------------
\* The invariant holds throughout.
THEOREM RebalanceInvariance == RebalanceSafetySpec => []RebalanceInv
  BY RebalanceInitInvariant, RebalanceStepInvariant, PTL DEF RebalanceSafetySpec

\* Type correctness; channel and queue never exceed their bounds.
THEOREM RebalanceTypeCorrect == RebalanceSafetySpec => []RebalanceTypeOK
<1>1. RebalanceInv => RebalanceTypeOK
  BY DEF RebalanceInv
<1> QED BY <1>1, RebalanceInvariance, PTL

\* At-least-once across rebalances, crashes and drops: the group's committed
\* position covers no offset but those some member settled and those lost at
\* a full queue before the partition's first ack.
THEOREM AtLeastOnce == RebalanceSafetySpec => []CommittedIsSettled
<1>1. RebalanceInv => CommittedIsSettled
  BY DEF RebalanceInv
<1> QED BY <1>1, RebalanceInvariance, PTL

\* No seek skips an offset that is neither covered nor underway nor dropped
\* since that seek.
THEOREM SeekSkipsNothing == RebalanceSafetySpec => []NothingSkipped
<1>1. RebalanceInv => NothingSkipped
  BY DEF RebalanceInv
<1> QED BY <1>1, RebalanceInvariance, PTL
=============================================================================
