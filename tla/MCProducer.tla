----------------------------- MODULE MCProducer -----------------------------
(***************************************************************************)
(* Three init() calls, so that a worker is replaced twice, and a log       *)
(* channel of two, which fills up while a call holds the GIL.              *)
(***************************************************************************)
EXTENDS Producer
=============================================================================
