------------------------------ MODULE MCFanOut ------------------------------
(***************************************************************************)
(* Three sinks: one may have finished while a second runs and a third has  *)
(* not registered, and two may finish in either order before the third.    *)
(***************************************************************************)
EXTENDS FanOut
=============================================================================
