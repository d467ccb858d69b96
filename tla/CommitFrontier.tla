--------------------------- MODULE CommitFrontier ---------------------------
(***************************************************************************)
(* What the tracker, the committer and Kafka promise together, without     *)
(* saying how: messages are processed in any order, and the position       *)
(* committed to Kafka for a partition only moves forward, over offsets     *)
(* that were processed.  A restarted consumer resumes at that position, so *)
(* an offset below it is never delivered again.                            *)
(***************************************************************************)
EXTENDS Integers

CONSTANTS Partitions, MaxOffset

VARIABLES processed, \* the offsets processed on each partition
          first,     \* the first offset processed on each partition, or -1
          position   \* the next offset to fetch after a restart

vars == <<processed, first, position>>

Init ==
    /\ processed = [p \in Partitions |-> {}]
    /\ first = [p \in Partitions |-> -1]
    /\ position = [p \in Partitions |-> 0]

Process(p, o) ==
    /\ processed' = [processed EXCEPT ![p] = @ \cup {o}]
    /\ first' = IF first[p] = -1 THEN [first EXCEPT ![p] = o] ELSE first
    /\ UNCHANGED position

\* Position n of p may be committed: all of first .. n-1 was processed.
Committable(p, n) ==
    /\ 0 <= first[p] /\ first[p] < n /\ n <= MaxOffset + 1
    /\ \A o \in 0 .. MaxOffset : first[p] <= o /\ o < n => o \in processed[p]

Commit ==
    /\ position' \in [Partitions -> 0 .. MaxOffset + 1]
    /\ \A p \in Partitions :
          position'[p] # position[p] =>
              position[p] < position'[p] /\ Committable(p, position'[p])
    /\ UNCHANGED <<processed, first>>

Next == \/ \E p \in Partitions, o \in 0 .. MaxOffset : Process(p, o)
        \/ Commit

Spec == Init /\ [][Next]_vars
=============================================================================
