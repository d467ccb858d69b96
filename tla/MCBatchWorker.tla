--------------------------- MODULE MCBatchWorker ----------------------------
(***************************************************************************)
(* Two partitions in one worker, batches of two and three messages each:   *)
(* a full batch, a partial one beside it and a second window; a queue of   *)
(* two, so that it is at capacity while messages are in the buffers.       *)
(***************************************************************************)
EXTENDS BatchWorker
=============================================================================
