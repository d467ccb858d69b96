---------------------------- MODULE MCRebalance -----------------------------
(***************************************************************************)
(* One partition, since partitions are independent here, with a log of     *)
(* three offsets, a channel and a queue of one: the partition is lost with *)
(* messages underway, the other member passes them, and it comes back with *)
(* the old messages still there, more than once, with drops before and     *)
(* after the first ack and a crash in between.                             *)
(***************************************************************************)
EXTENDS Rebalance
=============================================================================
