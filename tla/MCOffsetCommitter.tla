------------------------- MODULE MCOffsetCommitter --------------------------
(***************************************************************************)
(* Two partitions, so that one's signal overwrites the other's and one's   *)
(* cycle throttles the other's.  Three offsets on one of them, so that an  *)
(* ack can wait behind a gap and a partition be ready again after a        *)
(* commit; one on the other.  One error.                                   *)
(***************************************************************************)
EXTENDS OffsetCommitter, TLC

CONSTANTS p1, p2

Deliveries == p1 :> 0 .. 2 @@ p2 :> {0}
=============================================================================
