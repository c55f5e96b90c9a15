-------------------------- MODULE LAPDmContention --------------------------
(***************************************************************************)
(* Contention resolution (GSM 04.06 5.4.1.4): several handsets that took   *)
(* the same assignment for theirs call the base station on one channel.    *)
(* The base station is the LAPDm entity of SAP0; its UA repeats the        *)
(* payload of the SABM it accepts, and a handset that hears another's      *)
(* payload leaves.  The handsets are external: they do what GSM 04.06      *)
(* says.  Layer 3 of the base station listens.                             *)
(***************************************************************************)
EXTENDS LAPDmEntity

CONSTANTS
  Phone,      \* the handsets
  Identity,   \* Identity[p]: the payload of p's SABM, a paging response with p's identity
  UpBound,    \* bound: frames on the uplink
  MaxFrames   \* bound: frames a handset sends

ASSUME ContentionAssumption ==
  /\ SAPI = 0
  /\ Identity \in [Phone -> Segment]
  /\ UpBound \in Nat
  /\ MaxFrames \in Nat

VARIABLES
  ent,        \* the entity of the base station
  phone,      \* phone[p]: where handset p is
  uplink,     \* frames on their way to the base station
  frames,     \* frames[p]: how many frames p has sent
  heard       \* history: the payloads of the SABMs that reached the entity, in order

vars == <<ent, phone, uplink, frames, heard>>

\* The type invariant.
TypeOK ==
  /\ ent \in Entity
  /\ phone \in [Phone -> {"calling", "connected", "gone"}]
  /\ uplink \in Seq(Frame)
  /\ frames \in [Phone -> 0 .. MaxFrames]
  /\ heard \in Seq(Segment)

Init ==
  /\ ent = open(NewEntity)
  /\ phone = [p \in Phone |-> "calling"]
  /\ uplink = <<>>
  /\ frames = [p \in Phone |-> 0]
  /\ heard = <<>>

----------------------------------------------------------------------------
(* The handsets *)

Send(p, state, f) ==
  /\ phone[p] = state
  /\ frames[p] < MaxFrames
  /\ Len(uplink) < UpBound
  /\ uplink' = Append(uplink, f)
  /\ frames' = [frames EXCEPT ![p] = @ + 1]

\* First attempt and repetitions after T200 alike.
Call(p) == Send(p, "calling", UFrame("SABM", TRUE, <<Identity[p]>>)) /\ UNCHANGED <<ent, phone, heard>>

\* The first I-frame of a connected handset; nothing was sent to it yet.
Speak(p) == Send(p, "connected", IFrame(0, 0, FALSE, Identity[p])) /\ UNCHANGED <<ent, phone, heard>>

HangUp(p) ==
  /\ Send(p, "connected", UFrame("DISC", TRUE, <<>>))
  /\ phone' = [phone EXCEPT ![p] = "gone"]
  /\ UNCHANGED <<ent, heard>>

\* What p does when it hears f.
Hear(p, f) ==
  CASE f.type = "UA" /\ phone[p] = "calling" ->
         IF f.data = <<Identity[p]>> THEN "connected" ELSE "gone"
    [] f.type = "DM" -> "gone"
    [] OTHER -> phone[p]

\* Every handset is tuned to the channel; each hears the next frame or misses it.
Downlink ==
  /\ ent.tx # <<>>
  /\ \E hearing \in SUBSET Phone :
       phone' = [p \in Phone |-> IF p \in hearing THEN Hear(p, Head(ent.tx)) ELSE phone[p]]
  /\ ent' = [ent EXCEPT !.tx = Tail(@)]
  /\ UNCHANGED <<uplink, frames, heard>>

----------------------------------------------------------------------------
(* The base station *)

Receive ==
  /\ uplink # <<>>
  /\ ent' = topOfServiceLoop(fromL1(ent, Head(uplink)), FALSE)
  /\ uplink' = Tail(uplink)
  /\ heard' = IF ent.l1 # "closed" /\ Head(uplink).type = "SABM"
              THEN heard \o Head(uplink).data ELSE heard
  /\ UNCHANGED <<phone, frames>>

Lose ==
  /\ uplink # <<>>
  /\ uplink' = Tail(uplink)
  /\ UNCHANGED <<ent, phone, frames, heard>>

HardRelease ==
  /\ ent' = hardRelease(ent)
  /\ UNCHANGED <<phone, uplink, frames, heard>>

Next ==
  \/ \E p \in Phone : Call(p) \/ Speak(p) \/ HangUp(p)
  \/ Downlink
  \/ Receive
  \/ Lose
  \/ HardRelease

Spec == Init /\ [][Next]_vars

----------------------------------------------------------------------------
Connected == {p \in Phone : phone[p] = "connected"}

\* Handsets on the link, and those that an echo on the air can still bring there.
Admitted ==
  Connected \cup
    {p \in Phone : \E i \in 1 .. Len(ent.tx) :
       ent.tx[i].type = "UA" /\ ent.tx[i].data = <<Identity[p]>>}

\* Of two handsets that call with different checksums the station admits the one that it heard
\* first; the other only if it calls after a second SABM with the first one's checksum, on
\* which the code takes the contention for resolved and echoes whoever calls.
OnlyTheContender ==
  \A p \in Admitted :
    \/ Sum[Identity[p]] = Sum[heard[1]]
    \/ \E i \in 2 .. Len(heard), j \in 2 .. Len(heard) :
         i < j /\ Sum[heard[i]] = Sum[heard[1]] /\ heard[j] = Identity[p]

\* Once the link has carried a frame that ends the establishment, no further handset is
\* admitted to it, whatever SABMs are still repeated.
NoLateHandset ==
  [][inMultiframe(ent) /\ ~ent.estInProgress => Admitted' \subseteq Admitted]_vars
============================================================================
