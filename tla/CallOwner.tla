------------------------------ MODULE CallOwner ------------------------------
(***************************************************************************)
(* What a handover promises about a call: it is served by one base         *)
(* station at a time.  It leaves BS1, and either returns there, before the *)
(* remote party is told to send its media to BS2, or arrives at BS2 after  *)
(* that.  It does not come back from BS2, and not after it has ended.  The *)
(* media are not redirected while a base station serves the call; but they *)
(* may be when it is over, since BS2 sends its INVITE also for a handover  *)
(* that it has aborted.                                                    *)
(***************************************************************************)

VARIABLES
  owner,  \* who serves the call: a base station, "moving" or "none"
  media   \* the base station to which the remote party talks

Init ==
  /\ owner = "BS1"
  /\ media = "BS1"

Leave == owner = "BS1" /\ owner' = "moving" /\ UNCHANGED media

\* The call moves on, or has ended, or ends by it.
Redirect ==
  /\ owner \in {"moving", "none"}
  /\ owner' \in {owner, "none"}
  /\ media = "BS1"
  /\ media' = "BS2"

Return == owner = "moving" /\ media = "BS1" /\ owner' = "BS1" /\ UNCHANGED media

Arrive == owner = "moving" /\ media = "BS2" /\ owner' = "BS2" /\ UNCHANGED media

End == owner # "none" /\ owner' = "none" /\ UNCHANGED media

Next == Leave \/ Redirect \/ Return \/ Arrive \/ End

Spec == Init /\ [][Next]_<<owner, media>>
==============================================================================
