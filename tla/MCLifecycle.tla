---------------------------- MODULE MCLifecycle -----------------------------
(***************************************************************************)
(* Two topics and two workers, so that both are served, one is, or none:   *)
(* one worker may be inside a handler, or have panicked, while the other   *)
(* notices the cancellation.  One topic is a fan-out sink and the other    *)
(* has a batch handler, so that the pool runs batch workers or single      *)
(* ones.  Two runtimes, so that the second meets the first one's token,    *)
(* handlers and snapshot.                                                  *)
(***************************************************************************)
EXTENDS Lifecycle, TLC

CONSTANTS t1, t2

MCTopics == {t1, t2}

MCAddedModes == t1 :> {} @@ t2 :> {"BatchSync"}

MCSinkGroups == {{t1}}
=============================================================================
