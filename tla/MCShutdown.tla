----------------------------- MODULE MCShutdown -----------------------------
(***************************************************************************)
(* Two workers: one may be inside a handler, or have panicked, while the   *)
(* other notices the cancellation.  Everything else is one task each.      *)
(***************************************************************************)
EXTENDS Shutdown
=============================================================================
