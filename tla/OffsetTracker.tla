---------------------------- MODULE OffsetTracker ----------------------------
(***************************************************************************)
(* src/src/offset/offset_tracker.rs: the tracker every worker reports to   *)
(* and the committer and the rebalance callbacks read.  All of its state   *)
(* is behind one mutex, so each operation is one step.  The workers are    *)
(* the environment: acks and failures arrive in any order, an offset may   *)
(* fail several times before it is acked (retries), and an offset that was *)
(* already acked may be acked or fail again, because a rebalance seeks     *)
(* back to the cursor while older deliveries are still queued.             *)
(***************************************************************************)
EXTENDS PartitionState

CONSTANT Partitions \* the topic-partitions of the assignment

VARIABLES
    registered, \* keys of the partition map: created by the first ack
    partitions, \* the PartitionState of every key
    acked,      \* history: offsets acked so far
    base        \* history: the first offset acked on a partition, or -1

trackerVars == <<registered, partitions, acked, base>>

TypeOK ==
    /\ registered \in SUBSET Partitions
    /\ partitions \in [Partitions -> PartitionStates]
    /\ acked \in [Partitions -> SUBSET Offsets]
    /\ base \in [Partitions -> -1 .. MaxOffset]

Init ==
    /\ registered = {}
    /\ partitions = [p \in Partitions |-> NewPartitionState]
    /\ acked = [p \in Partitions |-> {}]
    /\ base = [p \in Partitions |-> -1]

cursor(p) == partitions[p].committed_offset

pending(p) == partitions[p].pending_offsets

failed(p) == partitions[p].failed_offsets

should_commit(p) == p \in registered /\ ReadyToCommit(partitions[p])
-----------------------------------------------------------------------------
ack(p, o) ==
    /\ registered' = registered \cup {p}
    /\ partitions' = [partitions EXCEPT ![p] = AckedState(@, o)]
    /\ acked' = [acked EXCEPT ![p] = @ \cup {o}]
    /\ base' = IF p \in registered THEN base ELSE [base EXCEPT ![p] = o]

\* A failure on a partition that has no entry yet is not recorded.
mark_failed(p, o, category) ==
    /\ partitions' = IF p \in registered
                     THEN [partitions EXCEPT ![p] = FailedState(@, o, category)]
                     ELSE partitions
    /\ UNCHANGED <<registered, acked, base>>

Next == \E p \in Partitions, o \in Offsets :
            \/ ack(p, o)
            \/ \E category \in Categories : mark_failed(p, o, category)

Spec == Init /\ [][Next]_trackerVars
-----------------------------------------------------------------------------
(* Properties.                                                             *)

\* The cursor never covers an offset that was not acked: from the first
\* acked offset of the partition up to committed_offset, every offset was
\* acked, in whatever order acks, failures and redeliveries came in.
CursorIsProcessed ==
    \A p \in registered :
        /\ 0 <= base[p] /\ base[p] <= cursor(p)
        /\ \A o \in Offsets : base[p] <= o /\ o <= cursor(p) => o \in acked[p]

\* No ack is lost or left behind: an acked offset ahead of the cursor is
\* still pending or has failed since, and the cursor does not stop in front
\* of a pending offset.
NothingStuck ==
    \A p \in registered :
        /\ cursor(p) + 1 \notin pending(p)
        /\ \A o \in acked[p] : o > cursor(p) => o \in pending(p) \cup failed(p)

\* committed_offset never moves back, redelivered acks included: the
\* committer would otherwise commit work a second time.
CursorNeverMovesBack ==
    [][\A p \in Partitions : cursor(p) <= cursor(p)']_trackerVars

\* A failed offset holds the cursor: only the ack of that very offset, which
\* takes it out of failed_offsets, lets the cursor pass it.
FailedHoldsCursor ==
    [][\A p \in Partitions : \A o \in failed(p) :
          cursor(p) < o /\ o <= cursor(p)' => o \notin failed(p)']_trackerVars
=============================================================================
