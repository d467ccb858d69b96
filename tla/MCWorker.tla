------------------------------ MODULE MCWorker ------------------------------
(***************************************************************************)
(* Two topics with their workers, which meet in the dead-letter channel of *)
(* one place and in the one thread that runs handlers; two attempts, so    *)
(* that a message is retried once; two offsets in one topic, so that a     *)
(* failure lies before or after an ack and a handler that hangs is in the  *)
(* way of the next message's as well as of the other topic's.              *)
(***************************************************************************)
EXTENDS Worker, TLC

CONSTANTS p1, p2

MCPartitions == {p1, p2}

MCArrivals == p1 :> 2 @@ p2 :> 1
=============================================================================
