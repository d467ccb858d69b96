--------------------------- MODULE PartitionState ---------------------------
(***************************************************************************)
(* The per-partition offset state machine of src/src/offset/               *)
(* offset_tracker.rs: a contiguous cursor, the acks that arrived ahead of  *)
(* it, and the offsets whose processing failed.  The operators are pure:   *)
(* the modules that hold a tracker apply them to the state they keep.      *)
(* The text of the last failure (last_failure_reason) only feeds DLQ       *)
(* headers and is left out.                                                *)
(***************************************************************************)
EXTENDS Integers

CONSTANT MaxOffset \* the largest offset of a partition's log (a bound)

ASSUME MaxOffsetAssumption == MaxOffset \in Nat

Offsets == 0 .. MaxOffset

Categories == {"Retryable", "Terminal", "NonRetryable"}

PartitionStates ==
    [committed_offset : -1 .. MaxOffset,
     pending_offsets  : SUBSET Offsets,
     failed_offsets   : SUBSET Offsets,
     has_terminal     : BOOLEAN]

NewPartitionState ==
    [committed_offset |-> -1, pending_offsets |-> {},
     failed_offsets |-> {}, has_terminal |-> FALSE]

(***************************************************************************)
(* Where the loop of ack stops: the cursor moves from c over every         *)
(* consecutive pending offset, and no further.                             *)
(***************************************************************************)
Stops(c, P) == { n \in c .. MaxOffset : n + 1 \notin P }

\* Mutant: the cursor jumps over the gap to the highest pending offset.
ContiguousJump(c, P) ==
    CHOOSE n \in P \cup {c} : \A m \in P \cup {c} : m <= n

\* Mutant: one offset per ack, an if where the code has a loop.
ContiguousOnce(c, P) == IF c + 1 \in P THEN c + 1 ELSE c

Contiguous(c, P) == CHOOSE n \in Stops(c, P) : \A m \in Stops(c, P) : n <= m

\* Mutant: the seed is off by one.
SeededCursorLow(s, o) ==
    IF s.committed_offset = -1 THEN o - 2 ELSE s.committed_offset

\* Mutant: a redelivered offset seeds the cursor again.
SeededCursorAgain(s, o) ==
    IF s.committed_offset = -1 \/ o <= s.committed_offset
    THEN o - 1 ELSE s.committed_offset

\* The cursor the loop starts from: the first ack of a partition seeds it.
SeededCursor(s, o) ==
    IF s.committed_offset = -1 THEN o - 1 ELSE s.committed_offset

AckedState(s, o) ==
    LET c == SeededCursor(s, o)
        P == s.pending_offsets \cup {o}
        n == Contiguous(c, P)
    IN  [committed_offset |-> n,
         pending_offsets  |-> P \ (c + 1 .. n),
         failed_offsets   |-> s.failed_offsets \ {o},
         has_terminal     |-> s.has_terminal]

\* Mutant: the failed offset is left among the pending ones.
FailedStateKeepsPending(s, o, category) ==
    [s EXCEPT !.failed_offsets  = @ \cup {o},
              !.has_terminal    = @ \/ category = "Terminal"]

\* OffsetCoordinator::mark_failed on a registered partition.
FailedState(s, o, category) ==
    [committed_offset |-> s.committed_offset,
     pending_offsets  |-> s.pending_offsets \ {o},
     failed_offsets   |-> s.failed_offsets \cup {o},
     has_terminal     |-> s.has_terminal \/ category = "Terminal"]

\* should_commit on a registered partition.
ReadyToCommit(s) ==
    /\ ~ s.has_terminal
    /\ s.pending_offsets # {} \/ s.committed_offset >= 0
=============================================================================
