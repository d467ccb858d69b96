---------------------------- MODULE MCDispatcher ----------------------------
(***************************************************************************)
(* Two partitions of one topic compete for a queue of four places: the     *)
(* resume threshold is then two, and a smaller queue could never resume,   *)
(* the depth being read after the increment.  Eight messages fill the      *)
(* queue and run out of the five permits (a full queue comes first when    *)
(* the worker holds nothing), the stream buffers two messages past a       *)
(* pause, and one pause or resume may fail.                                *)
(***************************************************************************)
EXTENDS Dispatcher
=============================================================================
