-------------------------- MODULE RetryCoordinator --------------------------
(***************************************************************************)
(* The retry decision of src/src/retry/retry_coordinator.rs.  The state    *)
(* kept for a message is the number of the attempt it is retrying (1, 2,   *)
(* ...), Exhausted, or absent from the map.  Delays are left out: a retry  *)
(* happens some time later.                                                *)
(***************************************************************************)
EXTENDS Integers

CONSTANT MaxAttempts \* RetryPolicy::max_attempts

ASSUME MaxAttemptsAssumption == MaxAttempts \in Nat

Absent == 0

Exhausted == -1

RetryStates == -1 .. MaxAttempts

\* Mutant: exhaustion is tested with > instead of >=.
RecordFailureLate(r, category) ==
    IF category # "Retryable" \/ r = Exhausted THEN [state |-> r, retry |-> FALSE]
    ELSE IF r + 1 > MaxAttempts THEN [state |-> Exhausted, retry |-> FALSE]
    ELSE [state |-> r + 1, retry |-> TRUE]

\* The state after a failure and whether to retry; a failure that is not
\* retried goes to the DLQ.
record_failure(r, category) ==
    IF category # "Retryable" \/ r = Exhausted THEN [state |-> r, retry |-> FALSE]
    ELSE IF r + 1 >= MaxAttempts THEN [state |-> Exhausted, retry |-> FALSE]
    ELSE [state |-> r + 1, retry |-> TRUE]
=============================================================================
