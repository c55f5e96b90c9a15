---------------------------- MODULE MCHandover ----------------------------
(* Instances of Handover: one call, and a few attempts to hand it over. *)
EXTENDS Handover
==============================================================================
