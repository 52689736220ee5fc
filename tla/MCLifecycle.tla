---------------------------- MODULE MCLifecycle ----------------------------
(* A TLC instance of Lifecycle.  Of the texts one is a number, a duration and
   a probability, one is empty and one is a key of two blocks. *)
EXTENDS Lifecycle, TLC

MCInts == "0" :> 0
MCDurations == "0" :> 0
MCFloats == "0" :> 0
=============================================================================
