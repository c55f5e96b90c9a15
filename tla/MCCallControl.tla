---------------------------- MODULE MCCallControl ----------------------------
(* Instances of CallControl: one call, started by the phone or by the remote party. *)
EXTENDS CallControl
==============================================================================
