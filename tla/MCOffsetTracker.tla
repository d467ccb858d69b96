-------------------------- MODULE MCOffsetTracker ---------------------------
(***************************************************************************)
(* One partition, since an operation touches only the partition it names,  *)
(* with a log of five offsets: enough for a first ack in the middle, two   *)
(* gaps at once and redeliveries below the cursor.                         *)
(***************************************************************************)
EXTENDS OffsetTracker
=============================================================================
