------------------------------ MODULE MCSMQueue ------------------------------
(* Instances of SMQueue: an ordinary message, in hex, and one that registers, as text/plain;
   both have a double quote in their text.                                                   *)
EXTENDS SMQueue

CONSTANTS m1, m2
=============================================================================
