---------------------------- MODULE HandoverProofs ----------------------------
(***************************************************************************)
(* Proofs about Handover, for any number of handovers that BS2 prepares    *)
(* and of messages under way, and a phone that is quiet when it leaves.    *)
(***************************************************************************)
EXTENDS Handover, TLAPS

----------------------------------------------------------------------------
(* The inductive invariant *)

\* BS2 has sent the INVITE for the entry, or has yet to send it after an abort.
Seized(r) == new[r].pc \in {"invite", "indicate", "wrong", "call"}

\* While the phone is on its way or has arrived, BS1 does not run the call and has nothing to read.
Parted ==
  phone.at \in {"access", "new"} \/ (\E r \in Ref : Seized(r)) => old.pc # "call" /\ up = <<>>

\* A phone that BS1 may hear again has not been taken over.
NotBack == phone.at \in {"old", "access"} => \A r \in Ref : ~Seized(r)

\* BS1 waits as long as the phone sends access bursts, and has a reference to command.
Underway ==
  /\ phone.at = "access" => old.pc = "transfer"
  /\ phone.at \in {"access", "new"} => phone.ref \in Ref
  /\ old.gsm = "HandoverOutbound" => old.ref \in Ref

\* The phone on the channel of BS2 has been heard there, and nobody else's entry goes on.
Heard ==
  /\ phone.at = "new" => new[phone.ref].pc \notin {"none", "idle", "burst"}
  /\ \A r \in Ref : Seized(r) /\ phone.at = "new" => r = phone.ref
  /\ \A r, s \in Ref : Seized(r) /\ Seized(s) => r = s

\* When the remote party has been told to send its media to BS2, the phone does not come back.
Told ==
  /\ remote.leg = "BS2" =>
       /\ phone.at \in {"new", "gone"} /\ up = <<>> /\ old.pc # "call"
       /\ phone.at = "new" => new[phone.ref].pc # "access"
  /\ \A r \in Ref : new[r].pc \in {"indicate", "call"} => remote.leg = "BS2"
  /\ \A r \in Ref : new[r].pc = "invite" /\ new[r].answer = "OK" => remote.leg = "BS2"

Course == Parted /\ NotBack /\ Underway /\ Heard /\ Told

HandoverInv == TypeOK /\ Course

----------------------------------------------------------------------------
(* Types *)

\* What is sent is a message.
LEMMA Messages ==
  /\ REQ \in Message
  /\ \A t \in {"RSP", "COMPLETE", "FAILURE", "ACK"}, r \in Ref : Msg(t, r) \in Message
  BY DEF REQ, Msg, Message

\* Sending adds at most that message.
LEMMA SendTypes ==
  ASSUME net \subseteq Message, NEW m \in Message, Send(m)
  PROVE  net' \subseteq Message
  BY DEF Send

\* The transactions and the phone that are left behind have their types.
LEMMA LeftTypes ==
  ASSUME TypeOK
  PROVE  /\ Removed \in Old
         /\ Gone \in Phone
         /\ \A r \in Ref : Left(r) \in New
  BY DEF TypeOK, Removed, Old, Gone, Phone, Left, Unused, New

\* A BYE changes the remote party alone.
LEMMA ByeTypes ==
  ASSUME TypeOK, SendBYE
  PROVE  remote' \in Remote /\ remote'.leg = remote.leg
  BY DEF TypeOK, SendBYE, Remote

----------------------------------------------------------------------------
(* What keeps the course of a handover *)

\* The phone stays where it is, or is lost.
Stays == (phone'.at = phone.at /\ phone'.ref = phone.ref) \/ phone'.at = "gone"

\* So does one that nothing happens to, or that is lost.
LEMMA LostStays ==
  ASSUME TypeOK, phone' = phone \/ phone' = Gone
  PROVE  phone' \in Phone /\ Stays
<1>1. CASE phone' = phone
  BY <1>1 DEF TypeOK, Stays
<1>2. CASE phone' = Gone
  <2>1. phone'.at = "gone"
    BY <1>2 DEF Gone
  <2> QED  BY <1>2, <2>1, LeftTypes DEF Stays
<1> QED  BY <1>1, <1>2

\* A step that neither starts nor fails a transfer, and takes nothing over at BS2.
LEMMA OldStep ==
  ASSUME HandoverInv, UNCHANGED new, Stays, remote'.leg = remote.leg,
         old'.pc = "call" => old.pc = "call",
         phone'.at = "access" => old'.pc = old.pc,
         old'.gsm = "HandoverOutbound" => old'.ref \in Ref,
         up = <<>> => up' = <<>>
  PROVE  Course'
<1>1. Course
  BY DEF HandoverInv
<1>2. Parted' /\ NotBack'
  BY <1>1 DEF Course, Parted, NotBack, Stays, Seized
<1>3. Underway'
  BY <1>1 DEF Course, Underway, Stays
<1>4. Heard'
  BY <1>1 DEF Course, Heard, Stays, Seized
<1>5. Told'
  BY <1>1 DEF Course, Told, Stays
<1> QED  BY <1>2, <1>3, <1>4, <1>5 DEF Course

\* A step of BS2 that sends no INVITE: nothing is taken over that was not.
LEMMA NewStep ==
  ASSUME HandoverInv, NEW r \in Ref, NEW n \in New, new' = [new EXCEPT ![r] = n],
         UNCHANGED <<old, up>>, Stays, remote'.leg = remote.leg,
         n.pc \in {"invite", "indicate", "wrong", "call"} => Seized(r),
         n.pc = "invite" => n = new[r],
         n.pc \in {"indicate", "call"} => remote.leg = "BS2",
         n.pc \in {"none", "idle", "burst"} => new[r].pc \in {"none", "idle", "burst"},
         n.pc = "access" => new[r].pc \in {"burst", "access"}
  PROVE  Course'
<1>1. Course /\ new \in [Ref -> New]
  BY DEF HandoverInv, TypeOK
<1>2. \A q \in Ref : Seized(q)' => Seized(q)
  BY <1>1 DEF Seized
<1>3. Parted' /\ NotBack'
  BY <1>1, <1>2 DEF Course, Parted, NotBack, Stays
<1>4. Underway'
  BY <1>1 DEF Course, Underway, Stays
<1>5. Heard'
  BY <1>1, <1>2, <1>4 DEF Course, Heard, Underway, Stays
<1>6. Told'
  BY <1>1, <1>4 DEF Course, Told, Heard, Underway, Stays
<1> QED  BY <1>3, <1>4, <1>5, <1>6 DEF Course

----------------------------------------------------------------------------
(* BS1 keeps the invariant *)

\* A message that clears the call leaves the phone where it is.
LEMMA ClearPhoneStays ==
  ASSUME TypeOK, ClearPhone
  PROVE  phone' \in Phone /\ Stays
  BY DEF TypeOK, ClearPhone, Phone, Stays

\* The end of the call at BS1.
LEMMA EndsInv ==
  ASSUME HandoverInv, old.pc = "call", OldEnds, remote' \in Remote, remote'.leg = remote.leg
  PROVE  HandoverInv'
<1>1. TypeOK'
  BY LeftTypes DEF HandoverInv, TypeOK, OldEnds
<1>2. Stays /\ phone'.at # "access"
  BY DEF HandoverInv, Course, Underway, OldEnds, Stays, Gone
<1>3. old'.pc = "done" /\ old'.gsm = "Clearing" /\ up' = <<>> /\ UNCHANGED new
  BY DEF OldEnds, Removed
<1>4. Course'
  BY <1>2, <1>3, OldStep
<1> QED  BY <1>1, <1>4 DEF HandoverInv

LEMMA ReadFrameInv ==
  ASSUME HandoverInv, ReadFrame
  PROVE  HandoverInv'
<1>0. TypeOK /\ Course
  BY DEF HandoverInv
<1>1. old.pc = "call" /\ up # <<>>
  BY DEF ReadFrame
<1>2. Tail(up) \in Seq(Frame) /\ phone.at # "access"
  BY <1>0, <1>1 DEF TypeOK, Course, Underway
<1>3. CASE Head(up) = "Disconnect"
  <2>1. /\ old' = [old EXCEPT !.gsm = "Clearing", !.timer = TRUE, !.sip = "Cleared"]
        /\ SendBYE \/ UNCHANGED remote
        /\ up' = Tail(up) /\ ClearPhone /\ UNCHANGED <<new, net>>
    BY <1>3 DEF ReadFrame
  <2>2. remote' \in Remote /\ remote'.leg = remote.leg
    BY <1>0, <2>1, ByeTypes DEF TypeOK
  <2>3. old' \in Old /\ old'.pc = "call" /\ old'.gsm = "Clearing"
    BY <1>0, <1>1, <2>1 DEF TypeOK, Old
  <2>4. TypeOK'
    BY <1>0, <1>2, <2>1, <2>2, <2>3, ClearPhoneStays DEF TypeOK
  <2>5. Course'
    BY <1>0, <1>1, <2>1, <2>2, <2>3, ClearPhoneStays, OldStep
  <2> QED  BY <2>4, <2>5 DEF HandoverInv
<1>4. CASE Head(up) = "Cleared"
  BY <1>0, <1>1, <1>4, EndsInv DEF ReadFrame, TypeOK
<1>5. CASE Head(up) \in {"Failure", "Other"}
  <2>1. up' = Tail(up) /\ UNCHANGED <<old, new, phone, net, remote>>
    BY <1>5 DEF ReadFrame
  <2>2. TypeOK'
    BY <1>0, <1>2, <2>1 DEF TypeOK
  <2>3. Course'
    BY <1>0, <1>1, <2>1, OldStep DEF Stays, Course, Underway
  <2> QED  BY <2>2, <2>3 DEF HandoverInv
<1> QED  BY <1>3, <1>4, <1>5 DEF ReadFrame

LEMMA ReceiveBYEInv ==
  ASSUME HandoverInv, ReceiveBYE
  PROVE  HandoverInv'
<1>0. TypeOK /\ Course
  BY DEF HandoverInv
<1>1. old' \in Old /\ old'.pc = old.pc /\ old'.gsm = "Clearing"
  BY <1>0 DEF ReceiveBYE, TypeOK, Old
<1>2. phone' \in Phone /\ Stays
  BY <1>0, ClearPhoneStays DEF ReceiveBYE, TypeOK, Stays
<1>3. UNCHANGED <<new, up, net, remote>>
  BY DEF ReceiveBYE
<1>4. TypeOK'
  BY <1>0, <1>1, <1>2, <1>3 DEF TypeOK
<1>5. Course'
  BY <1>1, <1>2, <1>3, OldStep
<1> QED  BY <1>4, <1>5 DEF HandoverInv

LEMMA AbortOldInv ==
  ASSUME HandoverInv, AbortOld
  PROVE  HandoverInv'
<1>1. SendBYE \/ UNCHANGED remote
  BY DEF AbortOld
<1>2. remote' \in Remote /\ remote'.leg = remote.leg
  BY <1>1, ByeTypes DEF HandoverInv, TypeOK
<1> QED  BY <1>2, EndsInv DEF AbortOld

\* Messages between the peers.
LEMMA PeeringInv ==
  ASSUME HandoverInv,
         \/ HandoverDetermination
         \/ \E r \in Ref :
              processHandoverResponse(r) \/ processHandoverComplete(r) \/ processHandoverFailure(r)
  PROVE  HandoverInv'
<1>0. TypeOK /\ Course
  BY DEF HandoverInv
<1>1. UNCHANGED <<new, phone, up, remote>>
  BY DEF HandoverDetermination, processHandoverResponse, processHandoverComplete,
         processHandoverFailure
<1>2. old' \in Old /\ old'.pc = old.pc /\ (old'.gsm = "HandoverOutbound" => old'.ref \in Ref)
  BY <1>0 DEF TypeOK, Course, Underway, Old, HandoverDetermination, processHandoverResponse,
              processHandoverComplete, processHandoverFailure
<1>3. net' \subseteq Message
  <2>1. REQ \in Message /\ \A r \in Ref : Msg("ACK", r) \in Message
    BY Messages
  <2>2. CASE HandoverDetermination
    <3>1. Send(REQ) /\ net \subseteq Message
      BY <1>0, <2>2 DEF HandoverDetermination, TypeOK
    <3> QED  BY <2>1, <3>1, SendTypes
  <2>3. CASE \E r \in Ref : processHandoverResponse(r) \/ processHandoverComplete(r)
                           \/ processHandoverFailure(r)
    <3>1. net' \subseteq net \cup {Msg("ACK", r) : r \in Ref}
      BY <2>3 DEF processHandoverResponse, processHandoverComplete, processHandoverFailure
    <3> QED  BY <1>0, <2>1, <3>1 DEF TypeOK
  <2> QED  BY <2>2, <2>3
<1>4. TypeOK'
  BY <1>0, <1>1, <1>2, <1>3 DEF TypeOK
<1>5. Course'
  BY <1>1, <1>2, OldStep DEF Stays
<1> QED  BY <1>4, <1>5 DEF HandoverInv

\* The phone that follows the command has left nothing to read, and is not taken over yet.
LEMMA CommandInv ==
  ASSUME HandoverInv, Quiet, Command
  PROVE  HandoverInv'
<1>0. TypeOK /\ Course
  BY DEF HandoverInv
<1>1. old.pc = "call" /\ up = <<>> /\ old.ref \in Ref /\ UNCHANGED <<new, up, net, remote>>
  BY <1>0 DEF Command, Course, Underway
<1>2. old' = [old EXCEPT !.pc = "transfer"]
  BY DEF Command
<1>3. old' \in Old /\ old'.pc = "transfer" /\ old'.ref = old.ref
  BY <1>0, <1>2 DEF TypeOK, Old
<1>4. phone.at \in {"old", "gone"} /\ \A r \in Ref : ~Seized(r)
  BY <1>0, <1>1 DEF TypeOK, Phone, Course, Parted
<1>5. /\ phone' \in Phone
      /\ \/ phone'.at = "access" /\ phone'.ref = old.ref
         \/ phone' = phone /\ phone.at = "gone"
  BY <1>0, <1>1, <1>4 DEF Command, TypeOK, Phone
<1>6. TypeOK'
  BY <1>0, <1>1, <1>3, <1>5 DEF TypeOK
<1>7. \A r \in Ref : ~Seized(r)'
  BY <1>1, <1>4 DEF Seized
<1>8. remote.leg # "BS2"
  BY <1>0, <1>1 DEF Course, Told
<1>9. Course'
  BY <1>1, <1>3, <1>5, <1>7, <1>8 DEF Course, Parted, NotBack, Underway, Heard, Told, Seized
<1> QED  BY <1>6, <1>9 DEF HandoverInv

\* A frame is there to be read only when nobody has taken the call over.
LEMMA TransferFailedInv ==
  ASSUME HandoverInv, TransferFailed
  PROVE  HandoverInv'
<1>0. TypeOK /\ Course
  BY DEF HandoverInv
<1>1. up # <<>> /\ up' = Tail(up) /\ UNCHANGED <<new, phone, net, remote>>
  BY DEF TransferFailed
<1>2. old' \in Old /\ old'.pc = "call" /\ old'.gsm = "Active"
  BY <1>0 DEF TransferFailed, TypeOK, Old
<1>3. up' \in Seq(Frame)
  BY <1>0, <1>1 DEF TypeOK
<1>4. phone.at \notin {"access", "new"} /\ \A r \in Ref : ~Seized(r)
  BY <1>0, <1>1 DEF Course, Parted
<1>5. TypeOK'
  BY <1>0, <1>1, <1>2, <1>3 DEF TypeOK
<1>6. remote.leg # "BS2"
  BY <1>0, <1>1 DEF Course, Told
<1>7. Course'
  BY <1>0, <1>1, <1>2, <1>4, <1>6 DEF Course, Parted, NotBack, Underway, Heard, Told, Seized
<1> QED  BY <1>5, <1>7 DEF HandoverInv

LEMMA T3103ExpiresInv ==
  ASSUME HandoverInv, T3103Expires
  PROVE  HandoverInv'
<1>0. TypeOK /\ Course
  BY DEF HandoverInv
<1>1. old' = Removed /\ phone.at # "access" /\ UNCHANGED <<new, up, net, remote>>
  BY DEF T3103Expires
<1>2. phone' \in Phone /\ Stays /\ phone'.at # "access"
  BY <1>0, <1>1, LeftTypes DEF T3103Expires, TypeOK, Stays, Gone
<1>3. old' \in Old /\ old'.pc = "done" /\ old'.gsm = "Clearing"
  BY <1>0, <1>1, LeftTypes DEF Removed
<1>4. TypeOK'
  BY <1>0, <1>1, <1>2, <1>3 DEF TypeOK
<1>5. Course'
  BY <1>1, <1>2, <1>3, OldStep
<1> QED  BY <1>4, <1>5 DEF HandoverInv

----------------------------------------------------------------------------
(* BS2 keeps the invariant *)

\* Preparing a channel, and losing the reservation.
LEMMA PrepareInv ==
  ASSUME HandoverInv, NEW r \in Ref,
         processHandoverRequest(r) \/ ChannelExpires(r) \/ EntryExpires(r)
  PROVE  HandoverInv'
<1>0. TypeOK /\ Course
  BY DEF HandoverInv
<1>1. UNCHANGED <<old, phone, up, remote>>
  BY DEF processHandoverRequest, ChannelExpires, EntryExpires
<1>2. net' \subseteq Message
  <2>1. Msg("RSP", r) \in Message
    BY Messages
  <2> QED  BY <1>0, <2>1 DEF TypeOK, processHandoverRequest, Accept, ChannelExpires, EntryExpires
<1>3. CASE UNCHANGED new
  <2>1. TypeOK'
    BY <1>0, <1>1, <1>2, <1>3 DEF TypeOK
  <2>2. Course'
    BY <1>0, <1>1, <1>3, OldStep DEF Stays, Course, Underway
  <2> QED  BY <2>1, <2>2 DEF HandoverInv
<1>4. CASE \E n \in New : /\ new' = [new EXCEPT ![r] = n]
                          /\ n.pc \notin {"invite", "indicate", "wrong", "call"}
                          /\ n.pc \in {"none", "idle", "burst"} => new[r].pc \in {"none", "idle", "burst"}
                          /\ n.pc = "access" => new[r].pc = "access"
  <2>1. PICK n \in New : /\ new' = [new EXCEPT ![r] = n]
                         /\ n.pc \notin {"invite", "indicate", "wrong", "call"}
                         /\ n.pc \in {"none", "idle", "burst"} => new[r].pc \in {"none", "idle", "burst"}
                         /\ n.pc = "access" => new[r].pc = "access"
    BY <1>4
  <2>2. TypeOK'
    BY <1>0, <1>1, <1>2, <2>1 DEF TypeOK
  <2>3. Course'
    BY <1>1, <2>1, NewStep DEF Stays
  <2> QED  BY <2>2, <2>3 DEF HandoverInv
<1>5. CASE processHandoverRequest(r) /\ ~UNCHANGED new
  <2> DEFINE n == [Unused EXCEPT !.pc = "idle", !.reserved = TRUE, !.pending = TRUE]
  <2>1. new' = [new EXCEPT ![r] = n] /\ new[r].pc = "none"
    BY <1>5 DEF processHandoverRequest, Ref
  <2>2. n \in New /\ n.pc = "idle"
    BY DEF New, Unused
  <2> QED  BY <1>4, <2>1, <2>2
<1>6. CASE ChannelExpires(r)
  <2> DEFINE n == [new[r] EXCEPT !.reserved = FALSE]
  <2>1. new' = [new EXCEPT ![r] = n] /\ n \in New /\ n.pc = new[r].pc
        /\ new[r].pc \in {"idle", "burst", "access"}
    BY <1>0, <1>6 DEF ChannelExpires, TypeOK, New
  <2> QED  BY <1>4, <2>1
<1>7. CASE EntryExpires(r)
  <2>1. new' = [new EXCEPT ![r] = Left(r)] /\ Left(r) \in New /\ Left(r).pc = "done"
    BY <1>0, <1>7, LeftTypes DEF EntryExpires, Left, Unused
  <2> QED  BY <1>4, <2>1
<1> QED  BY <1>3, <1>5, <1>6, <1>7

\* A request that is refused changes nothing.
LEMMA CongestionInv ==
  ASSUME HandoverInv, Congestion
  PROVE  HandoverInv'
<1>1. UNCHANGED <<old, new, phone, up, remote>> /\ net' \subseteq net
  BY DEF Congestion
<1>2. TypeOK'
  BY <1>1 DEF HandoverInv, TypeOK
<1>3. Course'
  BY <1>1, OldStep DEF HandoverInv, Course, Underway, Stays
<1> QED  BY <1>2, <1>3 DEF HandoverInv

\* Access bursts, and the Physical Information that is not answered.
LEMMA AccessInv ==
  ASSUME HandoverInv, NEW r \in Ref,
         SaveHandoverAccess(r) \/ ProcessHandoverAccess(r) \/ AccessTimesOut(r)
  PROVE  HandoverInv'
<1>0. TypeOK /\ Course
  BY DEF HandoverInv
<1>1. UNCHANGED <<old, phone, up, remote>>
  BY DEF SaveHandoverAccess, ProcessHandoverAccess, AccessTimesOut
<1>2. net' \subseteq Message
  <2>1. Msg("FAILURE", r) \in Message
    BY Messages
  <2> QED  BY <1>0, <2>1, SendTypes
           DEF TypeOK, SaveHandoverAccess, ProcessHandoverAccess, AccessTimesOut, Abort
<1>3. PICK n \in New :
        /\ new' = [new EXCEPT ![r] = n]
        /\ n.pc \in {"idle", "burst", "access", "done", "fail"}
        /\ n.pc \in {"idle", "burst"} => new[r].pc \in {"idle", "burst"}
        /\ n.pc = "access" => new[r].pc \in {"burst", "access"}
  <2>1. CASE SaveHandoverAccess(r)
    <3>1. new[r] \in New /\ new[r].pc \in {"idle", "burst"}
      BY <1>0, <2>1 DEF SaveHandoverAccess, TypeOK
    <3>2. \/ new' = [new EXCEPT ![r] = [new[r] EXCEPT !.pc = "burst"]]
          \/ new' = [new EXCEPT ![r] = [new[r] EXCEPT !.l1 = TRUE]]
      BY <2>1 DEF SaveHandoverAccess
    <3>3. /\ [new[r] EXCEPT !.pc = "burst"] \in New /\ [new[r] EXCEPT !.pc = "burst"].pc = "burst"
          /\ [new[r] EXCEPT !.l1 = TRUE] \in New /\ [new[r] EXCEPT !.l1 = TRUE].pc = new[r].pc
      BY <3>1 DEF New
    <3> QED  BY <3>1, <3>2, <3>3
  <2>2. CASE ProcessHandoverAccess(r)
    <3> DEFINE a == [new[r] EXCEPT !.pc = "access", !.pending = FALSE]
    <3>1. new[r] \in New /\ new[r].pc = "burst"
      BY <1>0, <2>2 DEF ProcessHandoverAccess, TypeOK
    <3>2. new' = [new EXCEPT ![r] = a] \/ new' = [new EXCEPT ![r] = Left(r)]
      BY <2>2 DEF ProcessHandoverAccess
    <3>3. a \in New /\ a.pc = "access"
      BY <3>1 DEF New
    <3>4. Left(r) \in New /\ Left(r).pc = "done"
      BY <1>0, LeftTypes DEF Left, Unused
    <3> HIDE DEF a
    <3> QED  BY <3>1, <3>2, <3>3, <3>4
  <2>3. CASE AccessTimesOut(r)
    <3>1. new[r] \in New /\ new' = [new EXCEPT ![r] = [new[r] EXCEPT !.pc = "fail"]]
      BY <1>0, <2>3 DEF AccessTimesOut, Abort, TypeOK
    <3>2. [new[r] EXCEPT !.pc = "fail"] \in New /\ [new[r] EXCEPT !.pc = "fail"].pc = "fail"
      BY <3>1 DEF New
    <3> QED  BY <3>1, <3>2
  <2> QED  BY <2>1, <2>2, <2>3
<1>4. TypeOK'
  BY <1>0, <1>1, <1>2, <1>3 DEF TypeOK
<1>5. Course'
  BY <1>1, <1>3, NewStep DEF Stays
<1> QED  BY <1>4, <1>5 DEF HandoverInv

\* The phone is on the channel of the entry, so that BS1 is past the call: the entry may go on to
\* whatever BS2 does about it, the INVITE included.
LEMMA ArrivedInv ==
  ASSUME HandoverInv, NEW r \in Ref, NEW n \in New, new' = [new EXCEPT ![r] = n],
         new[r].pc = "access", phone.at = "new", phone.ref = r,
         UNCHANGED <<old, phone, up>>, net' \subseteq Message, remote' \in Remote,
         n.pc \in {"invite", "wrong", "fail", "done"},
         remote'.leg = remote.leg \/ remote'.leg = "BS2",
         n.pc = "invite" /\ n.answer = "OK" => remote'.leg = "BS2"
  PROVE  HandoverInv'
<1>0. TypeOK /\ Course
  BY DEF HandoverInv
<1>1. TypeOK'
  BY <1>0 DEF TypeOK
<1>2. old.pc # "call" /\ up = <<>>
  BY <1>0 DEF Course, Parted
<1>3. \A q \in Ref : Seized(q) => q = r
  BY <1>0 DEF Course, Heard
<1>4. new \in [Ref -> New] /\ new'[r] = n /\ \A q \in Ref \ {r} : new'[q] = new[q]
  BY <1>0 DEF TypeOK
<1>5. \A q \in Ref \ {r} : ~Seized(q)'
  BY <1>3, <1>4 DEF Seized
<1>6. Parted' /\ NotBack' /\ Underway'
  BY <1>0, <1>2 DEF Course, Parted, NotBack, Underway
<1>7. Heard'
  BY <1>4, <1>5 DEF Heard
<1>8. Told'
  <2>1. \A q \in Ref : new'[q].pc \notin {"indicate", "call"}
    BY <1>4, <1>5 DEF Seized
  <2>2. \A q \in Ref : new'[q].pc = "invite" => q = r
    BY <1>5 DEF Seized
  <2> QED  BY <1>2, <1>4, <2>1, <2>2 DEF Told
<1> QED  BY <1>1, <1>6, <1>7, <1>8 DEF HandoverInv, Course

\* The process of BS2 ends: nothing is taken over, and a phone on its channel is lost.
LEMMA RestartInv ==
  ASSUME HandoverInv, Restart, UNCHANGED <<old, up, remote>>
  PROVE  HandoverInv'
<1>0. TypeOK /\ Course
  BY DEF HandoverInv
<1> DEFINE d == [Unused EXCEPT !.pc = "done"]
<1>1. d \in New /\ d.pc = "done"
  BY DEF Unused, New
<1> HIDE DEF d
<1>2. new' = [r \in Ref |-> IF new[r].pc = "none" THEN new[r] ELSE d]
  BY DEF Restart, d
<1>3. new' \in [Ref -> New] /\ \A r \in Ref : new'[r].pc \in {"none", "done"}
  BY <1>0, <1>1, <1>2 DEF TypeOK
<1>4. phone' = phone \/ phone' = Gone
  BY DEF Restart
<1>5. phone' \in Phone /\ Stays
  BY <1>0, <1>4, LostStays
<1>6. phone'.at # "new"
  BY DEF Restart, Gone
<1>7. TypeOK'
  BY <1>0, <1>3, <1>5 DEF TypeOK, Restart
<1>8. \A r \in Ref : ~Seized(r)'
  BY <1>3 DEF Seized
<1>9. Parted' /\ NotBack' /\ Underway' /\ Heard'
  BY <1>0, <1>5, <1>6, <1>8 DEF Course, Parted, NotBack, Underway, Heard, Stays
<1>10. Told'
  BY <1>0, <1>3, <1>5, <1>6 DEF Course, Told, Stays
<1> QED  BY <1>7, <1>9, <1>10 DEF HandoverInv, Course

\* The Handover Complete, or another message in its place.
LEMMA HandoverCompleteInv ==
  ASSUME HandoverInv, NEW r \in Ref, HandoverComplete(r)
  PROVE  HandoverInv'
<1>0. TypeOK /\ Course
  BY DEF HandoverInv
<1>1. /\ new[r] \in New /\ new[r].pc = "access" /\ phone.at = "new" /\ phone.ref = r
      /\ UNCHANGED <<old, up>>
  BY <1>0 DEF HandoverComplete, OnChannel, TypeOK
<1>2. ASSUME NEW pc \in {"fail", "wrong"}, Abort(r, pc), UNCHANGED <<phone, remote>>
      PROVE  HandoverInv'
  <2> DEFINE n == [new[r] EXCEPT !.pc = pc]
  <2>1. new' = [new EXCEPT ![r] = n] /\ n \in New /\ n.pc = pc
    BY <1>1, <1>2 DEF Abort, New
  <2>2. net' \subseteq Message
    BY <1>0, <1>2, Messages, SendTypes DEF TypeOK, Abort
  <2>3. remote' \in Remote
    BY <1>0, <1>2 DEF TypeOK
  <2> HIDE DEF n
  <2> QED  BY <1>1, <1>2, <2>1, <2>2, <2>3, ArrivedInv
<1>3. CASE SendINVITE(r) /\ UNCHANGED phone
  <2>1. PICK answer \in {"lost", "OK", "Fail"} :
          /\ new' = [new EXCEPT ![r] = IF new[r].removed THEN Left(r)
                                       ELSE [@ EXCEPT !.pc = "invite", !.answer = answer]]
          /\ \/ answer # "OK" /\ UNCHANGED remote
             \/ remote' = [remote EXCEPT !.leg = "BS2"]
          /\ UNCHANGED net
    BY <1>3 DEF SendINVITE
  <2> DEFINE i == [new[r] EXCEPT !.pc = "invite", !.answer = answer]
  <2>2. i \in New /\ i.pc = "invite" /\ i.answer = answer
    BY <1>1 DEF New
  <2>3. Left(r) \in New /\ Left(r).pc = "done"
    BY <1>0, LeftTypes DEF Left, Unused
  <2>4. PICK n \in New : /\ new' = [new EXCEPT ![r] = n]
                         /\ n.pc \in {"invite", "done"}
                         /\ n.pc = "invite" => n.answer = answer
    <3>1. new' = [new EXCEPT ![r] = i] \/ new' = [new EXCEPT ![r] = Left(r)]
      BY <2>1
    <3> HIDE DEF i
    <3> QED  BY <2>2, <2>3, <3>1
  <2>5. remote' \in Remote /\ (remote' = remote \/ remote'.leg = "BS2")
        /\ (answer = "OK" => remote'.leg = "BS2")
    BY <1>0, <2>1 DEF TypeOK, Remote
  <2>6. net' \subseteq Message
    BY <1>0, <2>1 DEF TypeOK
  <2> HIDE DEF i
  <2> QED  BY <1>1, <1>3, <2>4, <2>5, <2>6, ArrivedInv
<1>4. CASE Restart /\ UNCHANGED remote
  BY <1>1, <1>4, RestartInv
<1> QED  BY <1>2, <1>3, <1>4 DEF HandoverComplete

\* The answer to the INVITE.
LEMMA CheckForOKInv ==
  ASSUME HandoverInv, NEW r \in Ref, inboundHandoverCheckForOK(r)
  PROVE  HandoverInv'
<1>0. TypeOK /\ Course
  BY DEF HandoverInv
<1>1. new[r] \in New /\ new[r].pc = "invite" /\ UNCHANGED <<old, phone, up, remote>>
  BY <1>0 DEF inboundHandoverCheckForOK, TypeOK
<1>2. net' \subseteq Message
  BY <1>0, Messages, SendTypes DEF TypeOK, inboundHandoverCheckForOK, Abort
<1>3. PICK n \in New : /\ new' = [new EXCEPT ![r] = n]
                       /\ \/ n.pc = "indicate" /\ new[r].answer = "OK"
                          \/ n.pc = "fail"
  <2>1. \/ new' = [new EXCEPT ![r] = [new[r] EXCEPT !.pc = "indicate"]] /\ new[r].answer = "OK"
        \/ new' = [new EXCEPT ![r] = [new[r] EXCEPT !.pc = "fail"]]
    BY DEF inboundHandoverCheckForOK, Abort
  <2>2. /\ [new[r] EXCEPT !.pc = "indicate"] \in New
        /\ [new[r] EXCEPT !.pc = "indicate"].pc = "indicate"
        /\ [new[r] EXCEPT !.pc = "fail"] \in New
        /\ [new[r] EXCEPT !.pc = "fail"].pc = "fail"
    BY <1>1 DEF New
  <2> QED  BY <2>1, <2>2
<1>4. TypeOK'
  BY <1>0, <1>1, <1>2, <1>3 DEF TypeOK
<1>5. new[r].answer = "OK" => remote.leg = "BS2"
  BY <1>0, <1>1 DEF Course, Told
<1>6. Course'
  BY <1>1, <1>3, <1>5, NewStep DEF Stays, Seized
<1> QED  BY <1>4, <1>6 DEF HandoverInv

\* What follows an indication: the call is taken over, or the entry is left.
LEMMA IndicationInv ==
  ASSUME HandoverInv, NEW r \in Ref, SendAgain(r) \/ ReadACK(r) \/ GiveUp(r)
  PROVE  HandoverInv'
<1>0. TypeOK /\ Course
  BY DEF HandoverInv
<1>1. UNCHANGED <<old, up>>
  BY DEF SendAgain, ReadACK, GiveUp
<1>2. net' \subseteq Message
  <2>1. Msg("COMPLETE", r) \in Message /\ Msg("FAILURE", r) \in Message
    BY Messages
  <2> QED  BY <1>0, <2>1, SendTypes DEF TypeOK, SendAgain, ReadACK, GiveUp
<1>3. CASE SendAgain(r)
  <2>1. UNCHANGED <<new, phone, remote>>
    BY <1>3 DEF SendAgain
  <2>2. TypeOK'
    BY <1>0, <1>1, <1>2, <2>1 DEF TypeOK
  <2>3. Course'
    BY <1>0, <1>1, <2>1, OldStep DEF Stays, Course, Underway
  <2> QED  BY <2>2, <2>3 DEF HandoverInv
<1>4. CASE AfterIndication(r)
  <2>1. new[r] \in New
    BY <1>0 DEF TypeOK
  <2>2. Left(r) \in New /\ Left(r).pc = "done"
    BY <1>0, LeftTypes DEF Left, Unused
  <2>3. phone' \in Phone /\ Stays
    <3>1. phone' = phone \/ phone' = Gone
      BY <1>4 DEF AfterIndication, Indicated, Aborted
    <3> QED  BY <1>0, <3>1, LostStays
  <2>4. CASE Indicated(r) /\ new[r].pc = "wrong"
    <3>1. new' = [new EXCEPT ![r] = Left(r)] /\ phone'.at # "new"
      <4>1. phone.at = "new" => OnChannel(r)
        BY <1>0, <2>4 DEF Course, Heard, Seized, OnChannel
      <4> QED  BY <2>4, <4>1 DEF Indicated, Gone
    <3>2. remote' \in Remote /\ (remote'.leg = remote.leg \/ remote'.leg = "BS2")
      BY <1>0, <2>4 DEF Indicated, INVITEAfterAbort, TypeOK, Remote
    <3>3. TypeOK'
      BY <1>0, <1>1, <1>2, <2>2, <2>3, <3>1, <3>2 DEF TypeOK
    <3>4. \A q \in Ref \ {r} : ~Seized(q) /\ new'[q] = new[q]
      BY <1>0, <2>4, <3>1 DEF Course, Heard, Seized, TypeOK
    <3>5. new'[r].pc = "done" /\ \A q \in Ref : ~Seized(q)'
      BY <1>0, <2>2, <3>1, <3>4 DEF Seized, TypeOK
    <3>6. phone'.at = "gone" /\ old.pc # "call" /\ up = <<>>
      BY <1>0, <2>3, <2>4, <3>1 DEF Course, Parted, NotBack, Seized, TypeOK, Phone, Stays
    <3>7. Parted' /\ NotBack' /\ Underway' /\ Heard'
      BY <1>0, <1>1, <3>5, <3>6 DEF Course, Parted, NotBack, Underway, Heard
    <3>8. Told'
      BY <1>1, <3>5, <3>6 DEF Told, Seized
    <3> QED  BY <3>3, <3>7, <3>8 DEF HandoverInv, Course
  <2>5. CASE (Indicated(r) /\ new[r].pc \in {"indicate", "fail"}) \/ Aborted(r)
    <3> DEFINE a == [new[r] EXCEPT !.l1 = FALSE, !.removed = TRUE]
               c == [new[r] EXCEPT !.pc = "call"]
    <3>1. a \in New /\ c \in New /\ c.pc = "call" /\ a.pc = new[r].pc /\ a.answer = new[r].answer
      BY <2>1 DEF New
    <3>2. /\ UNCHANGED remote
          /\ \/ new' = [new EXCEPT ![r] = c] /\ new[r].pc = "indicate"
             \/ new' = [new EXCEPT ![r] = Left(r)]
             \/ new' = [new EXCEPT ![r] = a]
      BY <2>5 DEF Indicated, Aborted
    <3> HIDE DEF a, c
    <3>3. PICK n \in New : /\ new' = [new EXCEPT ![r] = n]
                           /\ \/ n.pc = "call" /\ new[r].pc = "indicate"
                              \/ n.pc = "done"
                              \/ n.pc = new[r].pc /\ n.answer = new[r].answer
      BY <2>2, <3>1, <3>2
    <3>4. TypeOK'
      BY <1>0, <1>1, <1>2, <2>3, <3>2, <3>3 DEF TypeOK
    <3>5. CASE n.pc = "done" \/ (n.pc = "call" /\ new[r].pc = "indicate")
      <4>1. n.pc = "call" => Seized(r) /\ remote.leg = "BS2"
        BY <1>0, <3>5 DEF Seized, Course, Told
      <4>2. Course'
        BY <1>1, <2>3, <3>2, <3>3, <3>5, <4>1, NewStep
      <4> QED  BY <3>4, <4>2 DEF HandoverInv
    <3>6. CASE n.pc = new[r].pc /\ n.answer = new[r].answer
      <4>1. \A q \in Ref : new'[q].pc = new[q].pc /\ new'[q].answer = new[q].answer
        BY <1>0, <3>3, <3>6 DEF TypeOK
      <4>2. \A q \in Ref : Seized(q)' <=> Seized(q)
        BY <4>1 DEF Seized
      <4>3. Parted' /\ NotBack' /\ Underway'
        BY <1>0, <1>1, <2>3, <4>2 DEF Course, Parted, NotBack, Underway, Stays
      <4>4. Heard'
        BY <1>0, <2>3, <4>1, <4>2 DEF Course, Heard, Underway, Stays
      <4>5. Told'
        BY <1>0, <1>1, <2>3, <3>2, <4>1 DEF Course, Told, Underway, Stays
      <4> QED  BY <3>4, <4>3, <4>4, <4>5 DEF HandoverInv, Course
    <3> QED  BY <3>3, <3>5, <3>6
  <2> QED  BY <1>4, <2>4, <2>5 DEF AfterIndication
<1> QED  BY <1>3, <1>4 DEF ReadACK, GiveUp

LEMMA EndCallInv ==
  ASSUME HandoverInv, NEW r \in Ref, EndCall(r)
  PROVE  HandoverInv'
<1>0. TypeOK /\ Course
  BY DEF HandoverInv
<1>1. new' = [new EXCEPT ![r] = Left(r)] /\ phone' = Gone /\ UNCHANGED <<old, up, net>>
  BY DEF EndCall
<1>2. remote' \in Remote /\ remote'.leg = remote.leg
  BY <1>0, ByeTypes DEF EndCall
<1>3. Left(r) \in New /\ Left(r).pc = "done"
  BY <1>0, LeftTypes DEF Left, Unused
<1>4. phone' \in Phone /\ Stays
  BY <1>0, <1>1, LeftTypes DEF Stays, Gone
<1>5. TypeOK'
  BY <1>0, <1>1, <1>2, <1>3, <1>4 DEF TypeOK
<1>6. Course'
  BY <1>1, <1>2, <1>3, <1>4, NewStep
<1> QED  BY <1>5, <1>6 DEF HandoverInv

----------------------------------------------------------------------------
(* The phone, the remote party and the network keep the invariant *)

\* What the phone says on the channel at BS1.
LEMMA FrameInv ==
  ASSUME HandoverInv, UserHangsUp \/ PhoneAnswers \/ PhoneSends
  PROVE  HandoverInv'
<1>0. TypeOK /\ Course
  BY DEF HandoverInv
<1>1. PICK m \in Frame : FrameFromPhone(m)
  BY DEF UserHangsUp, PhoneAnswers, PhoneSends, Frame
<1>2. phone.at = "old" /\ up' = Append(up, m) /\ UNCHANGED <<old, new, net, remote>>
  BY <1>1 DEF FrameFromPhone
<1>3. phone' \in Phone /\ phone'.at = "old"
  BY <1>0, <1>2 DEF UserHangsUp, PhoneAnswers, PhoneSends, TypeOK, Phone
<1>4. up' \in Seq(Frame)
  BY <1>0, <1>2 DEF TypeOK
<1>5. TypeOK'
  BY <1>0, <1>2, <1>3, <1>4 DEF TypeOK
<1>6. Course'
  BY <1>0, <1>2, <1>3 DEF Course, Parted, NotBack, Underway, Heard, Told, Seized
<1> QED  BY <1>5, <1>6 DEF HandoverInv

\* The phone arrives at BS2.
LEMMA SeizeInv ==
  ASSUME HandoverInv, Seize
  PROVE  HandoverInv'
<1>0. TypeOK /\ Course
  BY DEF HandoverInv
<1>1. /\ phone.at = "access" /\ phone.ref \in Ref /\ new[phone.ref].pc = "access"
      /\ UNCHANGED <<old, new, up, net, remote>>
  BY <1>0 DEF Seize, Course, Underway
<1>2. phone' \in Phone /\ phone'.at = "new" /\ phone'.ref = phone.ref
  BY <1>0 DEF Seize, TypeOK, Phone
<1>3. TypeOK'
  BY <1>0, <1>1, <1>2 DEF TypeOK
<1>4. (\A r \in Ref : ~Seized(r)) /\ remote.leg # "BS2" /\ old.pc # "call" /\ up = <<>>
  BY <1>0, <1>1 DEF Course, NotBack, Told, Parted
<1>5. Course'
  BY <1>0, <1>1, <1>2, <1>4 DEF Course, Parted, NotBack, Underway, Heard, Told, Seized
<1> QED  BY <1>3, <1>5 DEF HandoverInv

\* It goes back, heard by nobody at BS2.
LEMMA ComeBackInv ==
  ASSUME HandoverInv, ComeBack
  PROVE  HandoverInv'
<1>0. TypeOK /\ Course
  BY DEF HandoverInv
<1>1. phone.at = "access" /\ old.pc = "transfer" /\ UNCHANGED <<old, new, net, remote>>
  BY <1>0 DEF ComeBack, Course, Underway
<1>2. phone' = [phone EXCEPT !.at = "old", !.ref = 0] /\ up' = Append(up, "Failure")
  BY <1>1 DEF ComeBack
<1>3. phone' \in Phone /\ phone'.at = "old" /\ up' \in Seq(Frame)
  <2>1. phone' \in Phone /\ phone'.at = "old"
    BY <1>0, <1>2 DEF TypeOK, Phone
  <2>2. "Failure" \in Frame
    BY DEF Frame
  <2>3. up' \in Seq(Frame)
    BY <1>0, <1>2, <2>2 DEF TypeOK
  <2> QED  BY <2>1, <2>3
<1>4. TypeOK'
  BY <1>0, <1>1, <1>3 DEF TypeOK
<1>5. (\A r \in Ref : ~Seized(r)) /\ remote.leg # "BS2"
  BY <1>0, <1>1 DEF Course, NotBack, Told
<1>6. Course'
  BY <1>0, <1>1, <1>3, <1>5 DEF Course, Parted, NotBack, Underway, Heard, Told, Seized
<1> QED  BY <1>4, <1>6 DEF HandoverInv

\* The radio link fails, the remote party hangs up, or a message is lost.
LEMMA LossInv ==
  ASSUME HandoverInv, LinkFails \/ RemoteHangsUp \/ \E m \in Message : Lose(m)
  PROVE  HandoverInv'
<1>0. TypeOK /\ Course
  BY DEF HandoverInv
<1>1. UNCHANGED <<old, new, up>> /\ net' \subseteq net
  BY DEF LinkFails, RemoteHangsUp, Lose
<1>2. phone' = phone \/ phone' = Gone
  BY DEF LinkFails, RemoteHangsUp, Lose
<1>3. phone' \in Phone /\ Stays
  BY <1>0, <1>2, LostStays
<1>4. remote' \in Remote /\ remote'.leg = remote.leg
  BY <1>0 DEF LinkFails, RemoteHangsUp, Lose, TypeOK, Remote
<1>5. TypeOK'
  BY <1>0, <1>1, <1>3, <1>4 DEF TypeOK
<1>6. Course'
  BY <1>0, <1>1, <1>3, <1>4, OldStep DEF Course, Underway
<1> QED  BY <1>5, <1>6 DEF HandoverInv

----------------------------------------------------------------------------
(* Theorems *)

LEMMA InitInv == Init => HandoverInv
<1> SUFFICES ASSUME Init PROVE HandoverInv
  OBVIOUS
<1>1. TypeOK
  BY DEF Init, TypeOK, Old, New, Phone, Remote, Unused
<1>2. \A r \in Ref : new[r].pc = "none"
  BY DEF Init, Unused
<1>3. Course
  BY <1>2 DEF Init, Course, Parted, NotBack, Underway, Heard, Told, Seized
<1> QED  BY <1>1, <1>3 DEF HandoverInv

LEMMA StutterInv == ASSUME HandoverInv, UNCHANGED vars PROVE HandoverInv'
<1>1. TypeOK'
  BY DEF HandoverInv, TypeOK, vars
<1>2. Course'
  BY OldStep DEF HandoverInv, Course, Underway, Stays, vars
<1> QED  BY <1>1, <1>2 DEF HandoverInv

\* Every step keeps the invariant, if the phone is quiet when it leaves BS1.
LEMMA NextInv ==
  ASSUME Quiet, HandoverInv, Next
  PROVE  HandoverInv'
<1>1. CASE BS1
  BY <1>1, ReadFrameInv, ReceiveBYEInv, AbortOldInv, PeeringInv, CommandInv, TransferFailedInv,
     T3103ExpiresInv DEF BS1
<1>2. CASE BS2
  BY <1>2, PrepareInv, AccessInv, HandoverCompleteInv, CheckForOKInv, IndicationInv, EndCallInv,
     CongestionInv DEF BS2
<1>3. CASE Others
  BY <1>3, FrameInv, SeizeInv, ComeBackInv, LossInv DEF Others
<1> QED  BY <1>1, <1>2, <1>3 DEF Next

\* The inductive invariant of every handover: while the phone is away, or its entry at BS2 goes
\* on, BS1 does not run the call and has nothing to read; a phone that comes back has not been
\* taken over; the remote party sends its media to BS2 only once the phone has arrived there.
THEOREM HandoverInvariant == Quiet => (Spec => []HandoverInv)
<1> SUFFICES ASSUME Quiet PROVE Spec => []HandoverInv
  OBVIOUS
<1>1. ASSUME HandoverInv, [Next]_vars PROVE HandoverInv'
  BY <1>1, NextInv, StutterInv
<1> QED  BY <1>1, InitInv, PTL DEF Spec

\* The types of both stations, the phone, its frames, the network and the remote party, TypeOK.
THEOREM HandoverTypes == Quiet => (Spec => []TypeOK)
<1>1. HandoverInv => TypeOK
  BY DEF HandoverInv
<1> QED  BY <1>1, HandoverInvariant, PTL

\* The two base stations never both run the call, OneOwner, for any number of handovers and
\* messages under way, if the phone has sent nothing unread when it leaves.
THEOREM NeverTwoOwners == Quiet => (Spec => []OneOwner)
<1>1. HandoverInv => OneOwner
  BY DEF HandoverInv, Course, Parted, OneOwner, Seized
<1> QED  BY <1>1, HandoverInvariant, PTL

----------------------------------------------------------------------------
(* One entry *)

\* Only a request makes an entry, and only when there is none.
LEMMA EntryStep ==
  ASSUME HandoverInv, OneEntry, Next
  PROVE  OneEntry'
<1>0. new \in [Ref -> New]
  BY DEF HandoverInv, TypeOK
<1>1. CASE \A q \in Ref : Entry(q)' => Entry(q)
  BY <1>1 DEF OneEntry
<1>2. CASE UNCHANGED new
  BY <1>1, <1>2 DEF Entry
<1>3. ASSUME NEW r \in Ref, NEW n \in New, new' = [new EXCEPT ![r] = n],
             n.pc \notin {"none", "done"} /\ ~n.removed => Entry(r)
      PROVE  OneEntry'
  BY <1>0, <1>1, <1>3 DEF Entry
<1>4. ASSUME NEW r \in Ref, processHandoverRequest(r)
      PROVE  OneEntry'
  <2>1. CASE \E q \in Ref : Found(q)
    BY <1>2, <1>4, <2>1 DEF processHandoverRequest
  <2>2. CASE \A q \in Ref : ~Found(q)
    BY <1>0, <1>4, <2>2 DEF processHandoverRequest, Found, Entry, OneEntry
  <2> QED  BY <2>1, <2>2
<1>5. ASSUME NEW r \in Ref,
             \/ ChannelExpires(r) \/ SaveHandoverAccess(r) \/ AccessTimesOut(r)
             \/ inboundHandoverCheckForOK(r)
      PROVE  OneEntry'
  <2>1. /\ \A q \in Ref \ {r} : new'[q] = new[q]
        /\ new[r].pc \notin {"none", "done"} /\ new'[r].removed = new[r].removed
    BY <1>0, <1>5 DEF ChannelExpires, SaveHandoverAccess, AccessTimesOut, inboundHandoverCheckForOK,
                      Abort, New
  <2> QED  BY <1>1, <2>1 DEF Entry
<1>6. ASSUME NEW r \in Ref, EntryExpires(r) \/ EndCall(r)
      PROVE  OneEntry'
  <2>1. (\A q \in Ref \ {r} : new'[q] = new[q]) /\ new'[r].pc = "done"
    BY <1>0, <1>6 DEF EntryExpires, EndCall, Left, Unused
  <2> QED  BY <1>1, <2>1 DEF Entry
<1>7. ASSUME NEW r \in Ref,
             \/ ProcessHandoverAccess(r) \/ AfterIndication(r)
             \/ HandoverComplete(r) /\ ~Restart
      PROVE  OneEntry'
  <2>1. /\ \A q \in Ref \ {r} : new'[q] = new[q]
        /\ \/ new'[r].pc = "done" \/ new'[r].removed
           \/ new[r].pc \notin {"none", "done"} /\ new'[r].removed = new[r].removed
    <3>1. CASE ProcessHandoverAccess(r)
      BY <1>0, <3>1 DEF ProcessHandoverAccess, Left, Unused, New
    <3>2. CASE HandoverComplete(r) /\ ~Restart
      <4>1. new[r] \in New /\ new[r].pc = "access"
        BY <1>0, <3>2 DEF HandoverComplete
      <4>2. PICK a, pc : \/ new' = [new EXCEPT ![r] = Left(r)]
                         \/ new' = [new EXCEPT ![r] = [new[r] EXCEPT !.pc = "invite", !.answer = a]]
                         \/ new' = [new EXCEPT ![r] = [new[r] EXCEPT !.pc = pc]]
        BY <3>2 DEF HandoverComplete, SendINVITE, Abort
      <4>3. PICK n : /\ new' = [new EXCEPT ![r] = n]
                     /\ n.pc = "done" \/ n.removed = new[r].removed
        <5>1. Left(r).pc = "done"
          BY DEF Left, Unused
        <5>2. /\ [new[r] EXCEPT !.pc = "invite", !.answer = a].removed = new[r].removed
              /\ [new[r] EXCEPT !.pc = pc].removed = new[r].removed
          BY <4>1 DEF New
        <5> QED  BY <4>2, <5>1, <5>2
      <4>4. DOMAIN new = Ref
        BY <1>0
      <4>5. (\A q \in Ref \ {r} : new'[q] = new[q]) /\ new'[r] = n
        BY <4>3, <4>4
      <4>6. new[r].pc \notin {"none", "done"}
        BY <4>1
      <4> QED  BY <4>3, <4>5, <4>6
    <3>3. CASE AfterIndication(r)
      <4>0. new[r] \in New /\ DOMAIN new = Ref
        BY <1>0, <1>7
      <4>1. CASE new[r].pc \in {"indicate", "fail", "wrong"} /\ Indicated(r)
        <5>1. CASE new' = [new EXCEPT ![r] = Left(r)]
          <6>1. Left(r).pc = "done"
            BY DEF Left, Unused
          <6> QED  BY <4>0, <5>1, <6>1
        <5>2. CASE new' = [new EXCEPT ![r] = [@ EXCEPT !.pc = "call"]]
          <6>1. [new[r] EXCEPT !.pc = "call"].removed = new[r].removed
            BY <4>0 DEF New
          <6> QED  BY <4>0, <4>1, <5>2, <6>1
        <5> QED  BY <4>1, <5>1, <5>2 DEF Indicated
      <4>2. CASE Aborted(r)
        <5>1. (\A q \in Ref \ {r} : new'[q] = new[q]) /\ new'[r].removed
          BY <4>0, <4>2 DEF Aborted, New
        <5> QED  BY <5>1
      <4> QED  BY <3>3, <4>1, <4>2 DEF AfterIndication
    <3> QED  BY <1>7, <3>1, <3>2, <3>3
  <2> QED  BY <1>1, <2>1 DEF Entry
<1>8. CASE Restart
  <2>1. \A q \in Ref : new'[q].pc \in {"none", "done"}
    BY <1>0, <1>8 DEF Restart, Unused
  <2> QED  BY <2>1 DEF OneEntry, Entry
<1>9. CASE BS1
  BY <1>2, <1>9 DEF BS1, ReadFrame, ReceiveBYE, AbortOld, OldEnds, HandoverDetermination, Command,
     TransferFailed, T3103Expires, processHandoverResponse, processHandoverComplete,
     processHandoverFailure
<1>10. CASE BS2
  BY <1>2, <1>4, <1>5, <1>6, <1>7, <1>8, <1>10 DEF BS2, Congestion, SendAgain, ReadACK, GiveUp
<1>11. CASE Others
  BY <1>2, <1>11 DEF Others, UserHangsUp, PhoneAnswers, PhoneSends, FrameFromPhone, Seize, ComeBack,
     LinkFails, RemoteHangsUp, Lose
<1> QED  BY <1>9, <1>10, <1>11 DEF Next

\* BS2 never keeps two entries of the call, OneEntry, however often a request comes.
THEOREM NeverTwoEntries == Quiet => (Spec => []OneEntry)
<1> SUFFICES ASSUME Quiet PROVE Spec => []OneEntry
  OBVIOUS
<1>1. Init => OneEntry
  BY DEF Init, OneEntry, Entry, Unused
<1>2. HandoverInv /\ OneEntry /\ [Next]_vars => OneEntry'
  BY EntryStep DEF vars, OneEntry, Entry
<1> QED  BY <1>1, <1>2, HandoverInvariant, PTL DEF Spec

----------------------------------------------------------------------------
(* The refinement of CallOwner *)

Serves == \E r \in Ref : new[r].pc = "call"
Moves == Away \/ \E r \in Ref : Moving(r)

\* One step of CallOwner, or none.
OwnerMoves == [CallOwner!Next]_<<Owner, remote.leg>>

\* Who serves the call, from where its two ends are.
Served ==
  /\ Serves => Owner = "BS2"
  /\ old.pc = "call" => Owner = "BS1" /\ ~Serves
  /\ ~Serves /\ old.pc # "call" /\ Moves => Owner = "moving"
  /\ ~Serves /\ old.pc # "call" /\ ~Moves => Owner = "none"

\* It is so in every state, and in the next one.
LEMMA OwnerIs == (HandoverInv => Served) /\ (HandoverInv => Served)'
<1>1. HandoverInv /\ old.pc = "call" => ~Serves
  BY DEF HandoverInv, Course, Parted, Serves, Seized
<1>2. HandoverInv' /\ old'.pc = "call" => ~Serves'
  BY DEF HandoverInv, Course, Parted, Serves, Seized
<1>3. HandoverInv => Served
  BY <1>1 DEF Served, Owner, Serves, Moves
<1>4. HandoverInv' => Served'
  BY <1>2 DEF Served, Owner, Serves, Moves
<1> QED  BY <1>3, <1>4

\* A step that leaves the call where it is, or at most ends it on the way.
LEMMA OwnerStep ==
  ASSUME HandoverInv, HandoverInv', remote'.leg = remote.leg,
         old'.pc = "call" <=> old.pc = "call", Serves' <=> Serves,
         old.pc # "call" /\ ~Serves /\ Moves' => Moves
  PROVE  OwnerMoves
<1>1. CASE old.pc = "call"
  <2>1. Owner = "BS1" /\ Owner' = "BS1"
    BY <1>1, OwnerIs DEF Served
  <2> QED  BY <2>1 DEF OwnerMoves
<1>2. CASE Serves
  <2>1. Owner = "BS2" /\ Owner' = "BS2"
    BY <1>2, OwnerIs DEF Served
  <2> QED  BY <2>1 DEF OwnerMoves
<1>3. CASE old.pc # "call" /\ ~Serves
  <2>1. /\ Owner \in {"moving", "none"} /\ Owner' \in {"moving", "none"}
        /\ Owner = "none" => Owner' = "none"
    BY <1>3, OwnerIs DEF Served
  <2> QED  BY <2>1 DEF OwnerMoves, CallOwner!Next, CallOwner!End
<1> QED  BY <1>1, <1>2, <1>3

\* The call ends, at BS1 or at BS2.
LEMMA OwnerEnds ==
  ASSUME HandoverInv, HandoverInv', remote'.leg = remote.leg, old.pc = "call" \/ Serves,
         old'.pc # "call", ~Serves', ~Moves'
  PROVE  OwnerMoves
<1>1. Owner # "none" /\ Owner' = "none"
  BY OwnerIs DEF Served
<1> QED  BY <1>1 DEF OwnerMoves, CallOwner!Next, CallOwner!End

\* The steps of BS1.
LEMMA OwnerBS1 ==
  ASSUME HandoverInv, HandoverInv', BS1
  PROVE  OwnerMoves
<1>0. TypeOK /\ Course /\ Course'
  BY DEF HandoverInv
<1>1. UNCHANGED new
  BY DEF BS1, ReadFrame, ReceiveBYE, AbortOld, OldEnds, HandoverDetermination, Command,
     TransferFailed, T3103Expires, processHandoverResponse, processHandoverComplete,
     processHandoverFailure
<1>2. Serves' <=> Serves
  BY <1>1 DEF Serves
<1>3. remote'.leg = remote.leg
  <2>1. UNCHANGED remote \/ SendBYE
    BY DEF BS1, ReadFrame, ReceiveBYE, AbortOld, OldEnds, HandoverDetermination, Command,
       TransferFailed, T3103Expires, processHandoverResponse, processHandoverComplete,
       processHandoverFailure
  <2> QED  BY <1>0, <2>1, ByeTypes
<1>4. CASE OldEnds /\ old.pc = "call"
  <2>1. phone.at \notin {"access", "new"} /\ old'.pc = "done" /\ ~Serves
    BY <1>0, <1>4 DEF Course, Parted, OldEnds, Removed, Serves, Seized
  <2>2. phone'.at \notin {"access", "new"} /\ \A r \in Ref : ~Seized(r)
    BY <1>0, <1>4, <2>1 DEF OldEnds, Gone, Course, Parted
  <2>3. ~Moves'
    BY <1>1, <2>1, <2>2 DEF Moves, Away, Moving, OnChannel, Seized
  <2> QED  BY <1>2, <1>3, <1>4, <2>1, <2>3, OwnerEnds
<1>5. CASE old'.pc = old.pc /\ old.pc = "call"
  BY <1>2, <1>3, <1>5, OwnerStep
<1>6. CASE old'.pc = old.pc /\ UNCHANGED <<phone, up>>
  BY <1>1, <1>2, <1>3, <1>6, OwnerStep DEF Moves, Away, Moving, OnChannel
<1>7. CASE Command
  <2>1. old.pc = "call" /\ old'.pc = "transfer"
    BY <1>0, <1>7 DEF Command, TypeOK, Old
  <2>2. Owner = "BS1" /\ Owner' \in {"moving", "none"}
    BY <1>2, <2>1, OwnerIs DEF Served
  <2> QED  BY <1>3, <2>2 DEF OwnerMoves, CallOwner!Next, CallOwner!Leave, CallOwner!End
<1>8. CASE TransferFailed
  <2>1. /\ old.pc = "transfer" /\ up # <<>> /\ old'.pc = "call"
    BY <1>0, <1>8 DEF TransferFailed, TypeOK, Old
  <2>2. Owner = "moving" /\ Owner' = "BS1"
    BY <1>2, <2>1, OwnerIs DEF Served, Moves, Away
  <2>3. remote.leg = "BS1"
    BY <1>0, <2>1 DEF Course, Told, TypeOK, Remote
  <2> QED  BY <1>3, <2>2, <2>3 DEF OwnerMoves, CallOwner!Next, CallOwner!Return
<1>9. CASE T3103Expires
  <2>1. old.pc = "transfer" /\ old'.pc = "done" /\ (phone' = phone \/ phone' = Gone)
    BY <1>9 DEF T3103Expires, Removed
  <2>2. Moves' => Moves
    BY <1>1, <2>1 DEF Moves, Away, Moving, OnChannel, Gone
  <2> QED  BY <1>2, <1>3, <2>1, <2>2, OwnerStep
<1>10. \/ OldEnds /\ old.pc = "call"
       \/ old'.pc = old.pc /\ old.pc = "call"
       \/ old'.pc = old.pc /\ UNCHANGED <<phone, up>>
       \/ Command \/ TransferFailed \/ T3103Expires
  BY <1>0 DEF BS1, ReadFrame, ReceiveBYE, AbortOld, HandoverDetermination, processHandoverResponse,
     processHandoverComplete, processHandoverFailure, TypeOK, Old
<1> QED  BY <1>4, <1>5, <1>6, <1>7, <1>8, <1>9, <1>10

\* The steps of BS2.
LEMMA OwnerBS2 ==
  ASSUME HandoverInv, HandoverInv', BS2
  PROVE  OwnerMoves
<1>0. TypeOK /\ Course /\ Course'
  BY DEF HandoverInv
<1>1. UNCHANGED <<old, up>>
  BY DEF BS2, Congestion, processHandoverRequest, ChannelExpires, EntryExpires, SaveHandoverAccess,
     ProcessHandoverAccess, AccessTimesOut, HandoverComplete, inboundHandoverCheckForOK, SendAgain,
     ReadACK, GiveUp, EndCall
<1>2. ASSUME NEW r \in Ref, NEW n \in New, new' = [new EXCEPT ![r] = n],
             remote'.leg = remote.leg, phone' = phone \/ phone' = Gone,
             n.pc = "call" <=> new[r].pc = "call",
             n.pc \in {"invite", "indicate"} => new[r].pc \in {"invite", "indicate"},
             n.pc = "access" => new[r].pc = "access" \/ ~OnChannel(r)
      PROVE  OwnerMoves
  <2>1. \A q \in Ref \ {r} : new'[q] = new[q]
    BY <1>0, <1>2 DEF TypeOK
  <2>2. new'[r] = n
    BY <1>0, <1>2 DEF TypeOK
  <2>3. Serves' <=> Serves
    BY <1>2, <2>1, <2>2 DEF Serves
  <2>4. \A q \in Ref : Moving(q)' => Moving(q)
    BY <1>2, <2>1, <2>2 DEF Moving, OnChannel, Gone
  <2>5. Away' => Away
    BY <1>1, <1>2 DEF Away, Gone
  <2>6. Moves' => Moves
    BY <2>4, <2>5 DEF Moves
  <2> QED  BY <1>1, <1>2, <2>3, <2>6, OwnerStep
<1>3. CASE UNCHANGED <<new, phone, remote>>
  BY <1>1, <1>3, OwnerStep DEF Serves, Moves, Away, Moving, OnChannel
<1>4. ASSUME NEW r \in Ref,
             \/ processHandoverRequest(r) \/ ChannelExpires(r) \/ EntryExpires(r)
             \/ SaveHandoverAccess(r) \/ ProcessHandoverAccess(r) \/ AccessTimesOut(r)
             \/ inboundHandoverCheckForOK(r)
      PROVE  OwnerMoves
  <2>1. UNCHANGED <<phone, remote>>
    BY <1>4 DEF processHandoverRequest, ChannelExpires, EntryExpires, SaveHandoverAccess,
                ProcessHandoverAccess, AccessTimesOut, inboundHandoverCheckForOK
  <2>2. new[r] \in New /\ new' \in [Ref -> New]
    BY <1>0 DEF TypeOK, HandoverInv
  <2>3. CASE UNCHANGED new
    BY <1>3, <2>1, <2>3
  <2>4. CASE ~UNCHANGED new
    <3>1. /\ new' = [new EXCEPT ![r] = new'[r]]
          /\ new'[r].pc = "call" <=> new[r].pc = "call"
          /\ new'[r].pc \in {"invite", "indicate"} => new[r].pc \in {"invite", "indicate"}
          /\ new'[r].pc = "access" => new[r].pc \in {"access", "burst"}
      <4>1. CASE processHandoverRequest(r)
        <5>1. new' = [new EXCEPT ![r] = [Unused EXCEPT !.pc = "idle", !.reserved = TRUE,
                                                      !.pending = TRUE]]
              /\ new[r].pc = "none"
          BY <2>4, <4>1 DEF processHandoverRequest, Ref
        <5> QED  BY <1>0, <5>1 DEF TypeOK, Unused
      <4>2. CASE ChannelExpires(r)
        BY <1>0, <2>2, <4>2 DEF ChannelExpires, TypeOK, New
      <4>3. CASE EntryExpires(r)
        BY <1>0, <2>2, <4>3 DEF EntryExpires, TypeOK, Left, Unused
      <4>4. CASE SaveHandoverAccess(r)
        BY <1>0, <2>2, <4>4 DEF SaveHandoverAccess, TypeOK, New
      <4>5. CASE ProcessHandoverAccess(r)
        BY <1>0, <2>2, <4>5 DEF ProcessHandoverAccess, TypeOK, Left, Unused, New
      <4>6. CASE AccessTimesOut(r)
        BY <1>0, <2>2, <4>6 DEF AccessTimesOut, Abort, TypeOK, New
      <4>7. CASE inboundHandoverCheckForOK(r)
        BY <1>0, <2>2, <4>7 DEF inboundHandoverCheckForOK, Abort, TypeOK, New
      <4> QED  BY <1>4, <4>1, <4>2, <4>3, <4>4, <4>5, <4>6, <4>7
    <3>2. new[r].pc = "burst" => ~OnChannel(r)
      BY <1>0 DEF Course, Heard, OnChannel
    <3> QED  BY <1>2, <2>1, <2>2, <3>1, <3>2
  <2> QED  BY <2>3, <2>4
<1>5. ASSUME NEW r \in Ref, HandoverComplete(r)
      PROVE  OwnerMoves
  <2>1. /\ new[r] \in New /\ new[r].pc = "access" /\ OnChannel(r)
        /\ phone.at = "new" /\ phone.ref = r
    BY <1>0, <1>5 DEF HandoverComplete, TypeOK, OnChannel
  <2>2. ASSUME NEW pc \in {"fail", "wrong"}, Abort(r, pc), UNCHANGED <<phone, remote>>
        PROVE  OwnerMoves
    <3> DEFINE n == [new[r] EXCEPT !.pc = pc]
    <3>1. new' = [new EXCEPT ![r] = n]
      BY <2>2 DEF Abort
    <3>2. n \in New /\ n.pc \in {"fail", "wrong"}
      BY <2>1 DEF New
    <3> HIDE DEF n
    <3> QED  BY <1>2, <2>1, <2>2, <3>1, <3>2
  <2>3. CASE Restart /\ UNCHANGED remote
    <3>1. (\A q \in Ref : ~Seized(q) \/ new[q].pc # "call") /\ ~Serves
      BY <1>0, <2>1 DEF Course, Heard, Seized, Serves
    <3>2. \A q \in Ref : new'[q].pc \in {"none", "done"}
      BY <1>0, <2>3 DEF Restart, Unused
    <3>3. ~Serves' /\ (phone' = phone \/ phone' = Gone) /\ Moves
      BY <2>1, <2>3, <3>2 DEF Restart, Serves, Moves, Moving
    <3> QED  BY <1>1, <2>3, <3>1, <3>3, OwnerStep
  <2>4. CASE SendINVITE(r) /\ UNCHANGED phone
    <3>1. old.pc # "call" /\ (\A q \in Ref : ~Seized(q)) /\ remote.leg = "BS1"
      BY <1>0, <2>1 DEF Course, Parted, Heard, Told, Seized, TypeOK, Remote
    <3>2. Owner = "moving"
      BY <2>1, <3>1, OwnerIs DEF Served, Moves, Moving, Serves, Seized
    <3>3. \A q \in Ref : new'[q].pc # "call"
      <4>1. PICK a : \/ new' = [new EXCEPT ![r] = Left(r)]
                     \/ new' = [new EXCEPT ![r] = [new[r] EXCEPT !.pc = "invite", !.answer = a]]
        BY <2>4 DEF SendINVITE
      <4>2. Left(r).pc = "done" /\ [new[r] EXCEPT !.pc = "invite", !.answer = a].pc = "invite"
        BY <2>1 DEF Left, Unused, New
      <4> QED  BY <1>0, <3>1, <4>1, <4>2 DEF TypeOK, Seized
    <3>4. Owner' \in {"moving", "none"}
      BY <1>1, <3>1, <3>3, OwnerIs DEF Served, Serves
    <3>5. remote'.leg = remote.leg \/ remote'.leg = "BS2"
      BY <1>0, <2>4 DEF SendINVITE, TypeOK, Remote
    <3> QED  BY <3>1, <3>2, <3>4, <3>5 DEF OwnerMoves, CallOwner!Next, CallOwner!Redirect, CallOwner!End
  <2> QED  BY <1>5, <2>2, <2>3, <2>4 DEF HandoverComplete
<1>6. ASSUME NEW r \in Ref, AfterIndication(r)
      PROVE  OwnerMoves
  <2>1. new[r] \in New /\ (phone' = phone \/ phone' = Gone)
    BY <1>0, <1>6 DEF TypeOK, AfterIndication, Indicated, Aborted
  <2>2. Left(r) \in New /\ Left(r).pc = "done"
    BY <1>0, LeftTypes DEF Left, Unused
  <2>3. CASE Indicated(r) /\ new[r].pc = "wrong"
    <3>1. old.pc # "call" /\ ~Serves
      BY <1>0, <2>3 DEF Course, Parted, Heard, Seized, Serves
    <3>2. new' = [new EXCEPT ![r] = Left(r)]
      BY <2>3 DEF Indicated
    <3>3. remote'.leg = remote.leg \/ (remote.leg = "BS1" /\ remote'.leg = "BS2")
      BY <1>0, <2>3 DEF Indicated, INVITEAfterAbort, TypeOK, Remote
    <3>4. CASE remote'.leg = remote.leg
      BY <1>2, <2>1, <2>2, <3>2, <2>3, <3>4
    <3>5. CASE remote.leg = "BS1" /\ remote'.leg = "BS2"
      <4>1. \A q \in Ref : Moving(q)' => Moving(q)
        <5>1. new'[r] = Left(r) /\ \A q \in Ref \ {r} : new'[q] = new[q]
          BY <1>0, <3>2 DEF TypeOK
        <5> QED  BY <2>1, <2>2, <5>1 DEF Moving, OnChannel, Gone
      <4>2. (Away' => Away) /\ (Moves' => Moves)
        BY <1>1, <2>1, <4>1 DEF Away, Moves, Gone
      <4>3. ~Serves'
        BY <1>0, <2>2, <3>1, <3>2 DEF Serves, TypeOK
      <4>4. Owner \in {"moving", "none"} /\ Owner' \in {Owner, "none"}
        BY <1>1, <3>1, <4>2, <4>3, OwnerIs DEF Served
      <4> QED  BY <3>5, <4>4 DEF OwnerMoves, CallOwner!Next, CallOwner!Redirect
    <3> QED  BY <3>3, <3>4, <3>5
  <2>4. ~(Indicated(r) /\ new[r].pc = "wrong") => UNCHANGED remote
    BY <1>6 DEF AfterIndication, Indicated, Aborted
  <2>5. CASE /\ new' = [new EXCEPT ![r] = [new[r] EXCEPT !.pc = "call"]] /\ new[r].pc = "indicate"
             /\ UNCHANGED remote
    <3>1. old.pc # "call" /\ ~Serves /\ Moves /\ remote.leg = "BS2"
      BY <1>0, <2>5 DEF Course, Parted, Heard, Told, Seized, Serves, Moves, Moving
    <3>2. Serves'
      BY <1>0, <2>1, <2>5 DEF Serves, TypeOK, New
    <3>3. Owner = "moving" /\ Owner' = "BS2"
      BY <3>1, <3>2, OwnerIs DEF Served
    <3> QED  BY <2>5, <3>1, <3>3 DEF OwnerMoves, CallOwner!Next, CallOwner!Arrive
  <2>6. CASE /\ new' = [new EXCEPT ![r] = Left(r)] /\ new[r].pc \in {"indicate", "fail"}
             /\ UNCHANGED remote
    BY <1>2, <2>1, <2>2, <2>6
  <2>7. CASE /\ new' = [new EXCEPT ![r] = [new[r] EXCEPT !.l1 = FALSE, !.removed = TRUE]]
             /\ UNCHANGED remote
    <3> DEFINE a == [new[r] EXCEPT !.l1 = FALSE, !.removed = TRUE]
    <3>1. a \in New /\ a.pc = new[r].pc
      BY <2>1 DEF New
    <3> HIDE DEF a
    <3>2. new' = [new EXCEPT ![r] = a]
      BY <2>7 DEF a
    <3> QED  BY <1>2, <2>1, <2>7, <3>1, <3>2
  <2> QED  BY <1>6, <2>3, <2>4, <2>5, <2>6, <2>7 DEF AfterIndication, Indicated, Aborted
<1>7. ASSUME NEW r \in Ref, EndCall(r)
      PROVE  OwnerMoves
  <2>1. new[r].pc = "call" /\ new' = [new EXCEPT ![r] = Left(r)] /\ phone' = Gone /\ SendBYE
    BY <1>7 DEF EndCall
  <2>2. old.pc # "call" /\ up = <<>> /\ \A q \in Ref : Seized(q) => q = r
    BY <1>0, <2>1 DEF Course, Parted, Heard, Seized
  <2>3. new'[r].pc = "done" /\ \A q \in Ref \ {r} : new'[q] = new[q]
    BY <1>0, <2>1 DEF TypeOK, Left, Unused
  <2>4. \A q \in Ref : new'[q].pc \notin {"invite", "indicate", "call"}
    BY <2>2, <2>3 DEF Seized
  <2>5. Serves /\ ~Serves' /\ ~Moves'
    BY <1>1, <2>1, <2>2, <2>4 DEF Serves, Moves, Away, Moving, OnChannel, Gone
  <2>6. remote'.leg = remote.leg
    BY <1>0, <2>1, ByeTypes
  <2> QED  BY <1>1, <2>2, <2>5, <2>6, OwnerEnds
<1> QED  BY <1>3, <1>4, <1>5, <1>6, <1>7 DEF BS2, Congestion, SendAgain, ReadACK, GiveUp

\* The steps of the phone, the remote party and the network.
LEMMA OwnerOthers ==
  ASSUME HandoverInv, HandoverInv', Others
  PROVE  OwnerMoves
<1>0. TypeOK /\ Course
  BY DEF HandoverInv
<1>1. UNCHANGED <<old, new>>
  BY DEF Others, UserHangsUp, PhoneAnswers, PhoneSends, FrameFromPhone, Seize, ComeBack, LinkFails,
         RemoteHangsUp, Lose
<1>2. remote'.leg = remote.leg
  BY <1>0 DEF Others, UserHangsUp, PhoneAnswers, PhoneSends, FrameFromPhone, Seize, ComeBack,
         LinkFails, RemoteHangsUp, Lose, TypeOK, Remote
<1>3. Serves' <=> Serves
  BY <1>1 DEF Serves
<1>4. ASSUME Moves' => Moves PROVE OwnerMoves
  BY <1>1, <1>2, <1>3, <1>4, OwnerStep
<1>5. CASE phone.at = "old" /\ phone'.at = "old"
  BY <1>1, <1>4, <1>5 DEF Moves, Away, Moving, OnChannel
<1>6. CASE phone.at = "access"
  <2>1. Away
    BY <1>0, <1>6 DEF Course, Underway, Away
  <2> QED  BY <1>4, <2>1 DEF Moves
<1>7. CASE UNCHANGED up /\ (phone' = phone \/ phone' = Gone)
  BY <1>1, <1>4, <1>7 DEF Moves, Away, Moving, OnChannel, Gone
<1>8. \/ phone.at = "old" /\ phone'.at = "old"
      \/ phone.at = "access"
      \/ UNCHANGED up /\ (phone' = phone \/ phone' = Gone)
  BY <1>0 DEF Others, UserHangsUp, PhoneAnswers, PhoneSends, FrameFromPhone, Seize, ComeBack,
         LinkFails, RemoteHangsUp, Lose, TypeOK, Phone
<1> QED  BY <1>5, <1>6, <1>7, <1>8

\* Handover implements CallOwner: the call is with one base station, or on its way from BS1 to BS2
\* with the media redirected before it arrives, or ended, whatever is lost, late or repeated; and
\* also the INVITE that follows an abort redirects no call that a base station serves.
THEOREM HandoverImplementsCallOwner == Quiet => (Spec => OwnedCall)
<1> SUFFICES ASSUME Quiet PROVE Spec => OwnedCall
  OBVIOUS
<1>1. Init => CallOwner!Init
  <2>1. ASSUME Init PROVE Owner = "BS1" /\ remote.leg = "BS1"
    BY <2>1, InitInv, OwnerIs DEF Init, Served
  <2> QED  BY <2>1 DEF CallOwner!Init
<1>2. HandoverInv /\ HandoverInv' /\ [Next]_vars => OwnerMoves
  <2>1. ASSUME HandoverInv, HandoverInv', Next PROVE OwnerMoves
    BY <2>1, OwnerBS1, OwnerBS2, OwnerOthers DEF Next
  <2>2. ASSUME UNCHANGED vars PROVE OwnerMoves
    BY <2>2 DEF vars, OwnerMoves, Owner, Away, Moving, OnChannel
  <2> QED  BY <2>1, <2>2
<1> QED  BY <1>1, <1>2, HandoverInvariant, PTL DEF Spec, OwnedCall, CallOwner!Spec, OwnerMoves
==============================================================================
