------------------------------- MODULE Handover -------------------------------
(***************************************************************************)
(* The handover of a call from one base station (BS1) to another (BS2):    *)
(* Peering/Peering.cpp, the inbound side in Control/RadioResource.cpp, and *)
(* the outbound side in pollInCall() (Control/CallControl.cpp).            *)
(*                                                                         *)
(* At BS1 the SACCH thread asks for a handover, the peering thread takes   *)
(* the answer, and the controller of the call commands the phone.  At BS2  *)
(* the peering thread prepares a channel, the receiver hears the phone's   *)
(* access bursts, and the dispatcher of the channel takes the call over.   *)
(* The peers exchange UDP messages, which are lost and reordered; those    *)
(* that matter are sent again, so that they are repeated too.              *)
(***************************************************************************)
EXTENDS Naturals, Sequences, FiniteSets

CONSTANTS
  MaxRef,  \* bound: handovers that BS2 prepares
  MaxNet,  \* bound: messages under way; a further one is lost
  Quiet    \* the phone has sent nothing that BS1 has not read when it follows the command

ASSUME HandoverAssumption ==
  /\ MaxRef \in Nat
  /\ MaxNet \in Nat
  /\ Quiet \in BOOLEAN

VARIABLES
  old,     \* the transaction at BS1 and the thread of its channel
  new,     \* the inbound transactions at BS2, by reference, and their channels
  phone,
  up,      \* frames of the phone at BS1, not read yet
  net,     \* messages between the peers
  remote   \* the remote party

vars == <<old, new, phone, up, net, remote>>

Ref == 1..MaxRef

\* pc: in callManagementLoop(), in outboundHandoverTransfer(), or returned.  "Clearing" is
\* ReleaseRequest or DisconnectIndication, with its timer.
Old ==
  [pc : {"call", "transfer", "done"},
   gsm : {"Active", "Clearing", "HandoverOutbound"},
   sip : {"Active", "MTDClearing", "Cleared"},
   timer : BOOLEAN,             \* T305 or T308 is running, or has expired
   ref : {0} \cup Ref]          \* mOutboundReference

\* pc: the dispatcher of the channel waits ("idle"), has a HANDOVER_ACCESS to read ("burst"),
\* sends Physical Information ("access"), waits for the answer to its INVITE ("invite"), or
\* sends an indication to BS1 until it is acknowledged ("indicate", "fail", and "wrong" if it
\* goes on to the INVITE all the same).
New ==
  [pc : {"none", "idle", "burst", "access", "invite", "indicate", "fail", "wrong", "call", "done"},
   reserved : BOOLEAN,          \* T3101 of the channel has not expired, or a frame has stopped it
   pending : BOOLEAN,           \* mHandoverPending of the channel
   removed : BOOLEAN,
   l1 : BOOLEAN,                \* the receiver aborts the handover, until that is acknowledged
   answer : {"none", "OK", "Fail", "lost"}]

\* at: on the channel at BS1, sending access bursts to ref, on the channel at BS2, or lost.
\* It owes an answer to a message that clears the call.
Phone ==
  [at : {"old", "access", "new", "gone"}, ref : {0} \cup Ref, active : BOOLEAN, owes : BOOLEAN]

Frame == {"Disconnect", "Cleared", "Failure", "Other"}

Message == [type : {"REQ"}, ref : {0}] \cup [type : {"RSP", "COMPLETE", "FAILURE", "ACK"}, ref : Ref]
REQ == [type |-> "REQ", ref |-> 0]
Msg(type, r) == [type |-> type, ref |-> r]

\* sendMessage(): a datagram.
Send(m) == net' = IF Cardinality(net) < MaxNet THEN net \cup {m} ELSE net

\* The remote party is in the call, and sends its media and its BYE to leg.
Remote == [up : BOOLEAN, leg : {"BS1", "BS2"}]

TypeOK ==
  /\ old \in Old
  /\ new \in [Ref -> New]
  /\ phone \in Phone
  /\ up \in Seq(Frame)
  /\ net \subseteq Message
  /\ remote \in Remote

Unused ==
  [pc |-> "none", reserved |-> FALSE, pending |-> FALSE, removed |-> FALSE, l1 |-> FALSE,
   answer |-> "none"]

\* A transaction is removed: none of it is read again, only the receiver may still be at it.
Removed == [pc |-> "done", gsm |-> "Clearing", sip |-> "Cleared", timer |-> FALSE, ref |-> 0]
Left(r) == [Unused EXCEPT !.pc = "done", !.l1 = new[r].l1]
Gone == [at |-> "gone", ref |-> 0, active |-> FALSE, owes |-> FALSE]

Init ==
  /\ old = [pc |-> "call", gsm |-> "Active", sip |-> "Active", timer |-> FALSE, ref |-> 0]
  /\ new = [r \in Ref |-> Unused]
  /\ phone = [at |-> "old", ref |-> 0, active |-> TRUE, owes |-> FALSE]
  /\ up = <<>>
  /\ net = {}
  /\ remote = [up |-> TRUE, leg |-> "BS1"]

----------------------------------------------------------------------------
(* BS1: the call, as far as a handover meets its clearing (see CallControl) *)

\* A message that clears the call reaches the phone on the channel at BS1.
ClearPhone == phone' = [phone EXCEPT !.active = @ /\ phone.at # "old", !.owes = @ \/ phone.at = "old"]

\* A BYE of a base station ends the dialog, if it arrives.
SendBYE == remote' \in {remote, [remote EXCEPT !.up = FALSE]}

\* The controller is done with the call, and the phone off the channel.
OldEnds ==
  /\ old' = Removed
  /\ phone' = IF phone.at = "old" THEN Gone ELSE phone
  /\ up' = <<>>
  /\ UNCHANGED <<new, net>>

\* Mutant: the BYE is sent, and its answer not awaited.
ReadFrameNoWait ==
  /\ old.pc = "call"
  /\ up # <<>>
  /\ Head(up) = "Disconnect"
  /\ old' = [old EXCEPT !.gsm = "Clearing", !.timer = TRUE, !.sip = "MODClearing"]
  /\ IF old.sip = "Active" THEN SendBYE ELSE UNCHANGED remote
  /\ up' = Tail(up)
  /\ ClearPhone
  /\ UNCHANGED <<new, net>>

\* callManagementDispatchGSM(): of the frames, Disconnect and what completes the clearing count.
ReadFrame ==
  /\ old.pc = "call"
  /\ up # <<>>
  /\ \/ /\ Head(up) = "Disconnect"
        /\ old' = [old EXCEPT !.gsm = "Clearing", !.timer = TRUE, !.sip = "Cleared"]
        /\ IF old.sip = "Active" THEN SendBYE ELSE UNCHANGED remote
        /\ up' = Tail(up)
        /\ ClearPhone
        /\ UNCHANGED <<new, net>>
     \/ Head(up) = "Cleared" /\ OldEnds /\ UNCHANGED remote
     \/ /\ Head(up) \in {"Failure", "Other"}
        /\ up' = Tail(up)
        /\ UNCHANGED <<old, new, phone, net, remote>>

\* updateSIPSignalling(): a BYE has come, and the GSM side is cleared, or the BYE answered.
ReceiveBYE ==
  /\ old.pc = "call"
  /\ \/ old.sip = "Active" /\ ~remote.up /\ remote.leg = "BS1"
     \/ old.sip = "MTDClearing"
  /\ IF old.gsm = "Clearing"
     THEN old' = [old EXCEPT !.sip = "Cleared"] /\ UNCHANGED phone
     ELSE /\ old' = [old EXCEPT !.gsm = "Clearing", !.timer = TRUE, !.sip = "MTDClearing"]
          /\ ClearPhone
  /\ UNCHANGED <<new, up, net, remote>>

\* abortCall() after T305 or T308, or a radio link failure.
AbortOld ==
  /\ old.pc = "call"
  /\ old.timer \/ phone.at # "old"
  /\ IF old.sip = "Active" THEN SendBYE ELSE UNCHANGED remote
  /\ OldEnds

----------------------------------------------------------------------------
(* BS1: the handover *)

\* HandoverDetermination(), on a measurement report; the hold-off of the neighbour has passed.
HandoverDetermination ==
  /\ phone.at = "old"
  /\ old.pc # "done"
  /\ old.gsm = "Active"
  /\ Send(REQ)
  /\ UNCHANGED <<old, new, phone, up, remote>>

\* setOutboundHandover() does not look at the state of the call.
processHandoverResponse(r) ==
  /\ Msg("RSP", r) \in net
  /\ net' = net \ {Msg("RSP", r)}
  /\ old' = IF old.pc = "done" THEN old ELSE [old EXCEPT !.gsm = "HandoverOutbound", !.ref = r]
  /\ UNCHANGED <<new, phone, up, remote>>

\* The Handover Command; the phone leaves the channel.
Command ==
  /\ old.pc = "call"
  /\ old.gsm = "HandoverOutbound"
  /\ Quiet => up = <<>>
  /\ old' = [old EXCEPT !.pc = "transfer"]
  /\ phone' = IF phone.at = "old" THEN [phone EXCEPT !.at = "access", !.ref = old.ref] ELSE phone
  /\ UNCHANGED <<new, up, net, remote>>

\* Mutant: the failed handover stops the timers of the call.
TransferFailedUntimed ==
  /\ old.pc = "transfer"
  /\ up # <<>>
  /\ old' = [old EXCEPT !.pc = "call", !.gsm = "Active", !.timer = FALSE]
  /\ up' = Tail(up)
  /\ UNCHANGED <<new, phone, net, remote>>

\* Any frame tells that the handover has failed; the call goes on as an active one.
TransferFailed ==
  /\ old.pc = "transfer"
  /\ up # <<>>
  /\ old' = [old EXCEPT !.pc = "call", !.gsm = "Active"]
  /\ up' = Tail(up)
  /\ UNCHANGED <<new, phone, net, remote>>

\* Mutant: a transfer that is not answered in time is taken back.
T3103ExpiresKept ==
  /\ old.pc = "transfer"
  /\ up = <<>>
  /\ phone.at # "access"
  /\ old' = [old EXCEPT !.pc = "call", !.gsm = "Active"]
  /\ UNCHANGED <<new, phone, up, net, remote>>

\* T3103 (5 s) is longer than a phone looks for its new channel: HARDRELEASE, and the controller
\* removes the transaction, without a word to the remote party.
T3103Expires ==
  /\ old.pc = "transfer"
  /\ up = <<>>
  /\ phone.at # "access"
  /\ old' = Removed
  /\ phone' = IF phone.at = "old" THEN Gone ELSE phone
  /\ UNCHANGED <<new, up, net, remote>>

processHandoverComplete(r) ==
  /\ Msg("COMPLETE", r) \in net
  /\ net' = (net \ {Msg("COMPLETE", r)}) \cup {Msg("ACK", r)}
  /\ UNCHANGED <<old, new, phone, up, remote>>

\* The neighbour is not asked again for a while.
processHandoverFailure(r) ==
  /\ Msg("FAILURE", r) \in net
  /\ net' = (net \ {Msg("FAILURE", r)}) \cup {Msg("ACK", r)}
  /\ UNCHANGED <<old, new, phone, up, remote>>

----------------------------------------------------------------------------
(* BS2: preparing a channel *)

\* The table has an entry of the call: it is not removed, whatever it is doing.
Entry(r) == new[r].pc \notin {"none", "done"} /\ ~new[r].removed

\* Mutant: only an entry that still waits for the phone counts.
EntryWaiting(r) == new[r].pc = "idle" /\ ~new[r].removed

\* find(mobileID, oldTransID).
Found(r) == Entry(r)

Accept(r) == net' = (net \ {REQ}) \cup {Msg("RSP", r)}

\* A new entry, with a channel; a repeated request is answered as before.
processHandoverRequest(r) ==
  /\ REQ \in net
  /\ \/ Found(r) /\ UNCHANGED new
     \/ /\ \A s \in Ref : ~Found(s)
        /\ \A s \in Ref : new[s].pc = "none" <=> s >= r
        /\ new' = [new EXCEPT ![r] = [Unused EXCEPT !.pc = "idle", !.reserved = TRUE,
                                                    !.pending = TRUE]]
  /\ Accept(r)
  /\ UNCHANGED <<old, phone, up, remote>>

\* There is no channel, or it took too long to get it.
Congestion ==
  /\ REQ \in net
  /\ \A r \in Ref : ~Found(r)
  /\ net' = net \ {REQ}
  /\ UNCHANGED <<old, new, phone, up, remote>>

OnChannel(r) == phone.at = "new" /\ phone.ref = r

\* T3101 expires: the channel is free for other calls.
ChannelExpires(r) ==
  /\ new[r].pc \in {"idle", "burst", "access"}
  /\ new[r].reserved
  /\ ~OnChannel(r)
  /\ new' = [new EXCEPT ![r].reserved = FALSE]
  /\ UNCHANGED <<old, phone, up, net, remote>>

\* dead(): after 30 s in SIP state HandoverInbound.
EntryExpires(r) ==
  /\ new[r].pc = "idle"
  /\ Entry(r)
  /\ ~new[r].l1
  /\ new' = [new EXCEPT ![r] = Left(r)]
  /\ UNCHANGED <<old, phone, up, net, remote>>

----------------------------------------------------------------------------
(* BS2: the phone comes *)

\* An access burst: SaveHandoverAccess(), by the receiver, which stays in it while it aborts a
\* handover for its timing advance.
SaveHandoverAccess(r) ==
  /\ phone.at = "access"
  /\ phone.ref = r
  /\ new[r].pc \in {"idle", "burst"}
  /\ new[r].pending
  /\ new[r].reserved
  /\ Entry(r)
  /\ ~new[r].l1
  /\ \/ new' = [new EXCEPT ![r].pc = "burst"] /\ UNCHANGED net
     \/ new' = [new EXCEPT ![r].l1 = TRUE] /\ Send(Msg("FAILURE", r))
  /\ UNCHANGED <<old, phone, up, remote>>

\* ProcessHandoverAccess() begins; without an entry it releases the channel.
ProcessHandoverAccess(r) ==
  /\ new[r].pc = "burst"
  /\ new' = [new EXCEPT ![r] = IF Entry(r) THEN [@ EXCEPT !.pc = "access", !.pending = FALSE]
                               ELSE Left(r)]
  /\ UNCHANGED <<old, phone, up, net, remote>>

\* abortInboundHandover() by the dispatcher, which waits at pc.
Abort(r, pc) ==
  /\ new' = [new EXCEPT ![r].pc = pc]
  /\ Send(Msg("FAILURE", r))

\* The last of Ny1 Physical Informations is not answered.
AccessTimesOut(r) ==
  /\ new[r].pc = "access"
  /\ Abort(r, "fail")
  /\ UNCHANGED <<old, phone, up, remote>>

\* inboundHandoverSendINVITE(): the INVITE is not sent again, nor awaited for a limited time.
\* The remote party takes it, and its answer or the INVITE itself may be lost.
SendINVITE(r) ==
  \E answer \in {"lost", IF remote.up THEN "OK" ELSE "Fail"} :
    /\ new' = [new EXCEPT ![r] = IF new[r].removed THEN Left(r)
                                 ELSE [@ EXCEPT !.pc = "invite", !.answer = answer]]
    /\ \/ answer # "OK" /\ UNCHANGED remote
       \/ remote.up /\ remote' = [remote EXCEPT !.leg = "BS2"]
    /\ UNCHANGED net

\* The process ends, and BS2 begins anew.
Restart ==
  /\ new' = [r \in Ref |-> IF new[r].pc = "none" THEN new[r] ELSE [Unused EXCEPT !.pc = "done"]]
  /\ phone' = IF phone.at = "new" THEN Gone ELSE phone
  /\ UNCHANGED net

\* ESTABLISH, and then Handover Complete, or a frame that cannot be parsed, or another message.
\* That one aborts the handover too, but does not return; and it deletes its frame twice, which
\* the process may survive.  If the receiver has removed the transaction, the INVITE is sent
\* before that is noticed.
HandoverComplete(r) ==
  /\ new[r].pc = "access"
  /\ OnChannel(r)
  /\ new[r].reserved
  /\ \/ SendINVITE(r) /\ UNCHANGED phone
     \/ Abort(r, "fail") /\ UNCHANGED <<phone, remote>>
     \/ Abort(r, "wrong") /\ UNCHANGED <<phone, remote>>
     \/ Restart /\ UNCHANGED remote
  /\ UNCHANGED <<old, up>>

\* Mutant: an answer that does not come counts as one.
inboundHandoverCheckForOKLate(r) ==
  /\ new[r].pc = "invite"
  /\ \/ /\ new[r].answer \in {"OK", "lost"}
        /\ new' = [new EXCEPT ![r].pc = "indicate"]
        /\ Send(Msg("COMPLETE", r))
     \/ new[r].answer = "Fail" /\ Abort(r, "fail")
  /\ UNCHANGED <<old, phone, up, remote>>

inboundHandoverCheckForOK(r) ==
  /\ new[r].pc = "invite"
  /\ \/ /\ new[r].answer = "OK"
        /\ new' = [new EXCEPT ![r].pc = "indicate"]
        /\ Send(Msg("COMPLETE", r))
     \/ new[r].answer = "Fail" /\ Abort(r, "fail")
  /\ UNCHANGED <<old, phone, up, remote>>

----------------------------------------------------------------------------
(* BS2: sendUntilAck(), and what follows it *)

\* The INVITE of a transaction that has been removed: the remote party may take it.
INVITEAfterAbort == remote' = remote \/ (remote.up /\ remote' = [remote EXCEPT !.leg = "BS2"])

\* The dispatcher goes on: it takes the call, or releases the channel.  A transaction that was
\* removed meanwhile is noticed when the call is to become active, and the channel is left.
Indicated(r) ==
  /\ new' = [new EXCEPT ![r] = IF new[r].pc = "indicate" /\ ~new[r].removed
                               THEN [@ EXCEPT !.pc = "call"] ELSE Left(r)]
  /\ phone' = IF new[r].pc \in {"fail", "wrong"} /\ OnChannel(r) THEN Gone ELSE phone
  /\ IF new[r].pc = "wrong" THEN INVITEAfterAbort ELSE UNCHANGED remote

Aborted(r) ==
  /\ new' = [new EXCEPT ![r].l1 = FALSE, ![r].removed = TRUE]
  /\ UNCHANGED <<phone, remote>>

\* Both threads may be waiting; whoever reads first takes the acknowledgement.
AfterIndication(r) ==
  \/ new[r].pc \in {"indicate", "fail", "wrong"} /\ Indicated(r)
  \/ new[r].l1 /\ Aborted(r)

SendAgain(r) ==
  /\ \/ new[r].pc = "indicate" /\ Send(Msg("COMPLETE", r))
     \/ /\ \/ new[r].pc \in {"fail", "wrong"}
           \/ new[r].l1
        /\ Send(Msg("FAILURE", r))
  /\ UNCHANGED <<old, new, phone, up, remote>>

ReadACK(r) ==
  /\ Msg("ACK", r) \in net
  /\ AfterIndication(r)
  /\ net' = net \ {Msg("ACK", r)}
  /\ UNCHANGED <<old, up>>

\* Mutant: it sends until there is an acknowledgement.
GiveUpNever(r) == FALSE /\ UNCHANGED vars

\* Peering.ResendCount times.
GiveUp(r) ==
  /\ AfterIndication(r)
  /\ UNCHANGED <<old, up, net>>

\* callManagementLoop() at BS2 returns: either side has hung up, or the phone is lost.
EndCall(r) ==
  /\ new[r].pc = "call"
  /\ new' = [new EXCEPT ![r] = Left(r)]
  /\ phone' = Gone
  /\ SendBYE
  /\ UNCHANGED <<old, up, net>>

----------------------------------------------------------------------------
(* The phone, the remote party and the network *)

FrameFromPhone(m) ==
  /\ phone.at = "old"
  /\ Len(up) < 2  \* bound
  /\ up' = Append(up, m)
  /\ UNCHANGED <<old, new, net, remote>>

UserHangsUp == phone.active /\ phone' = [phone EXCEPT !.active = FALSE] /\ FrameFromPhone("Disconnect")
PhoneAnswers == phone.owes /\ phone' = [phone EXCEPT !.owes = FALSE] /\ FrameFromPhone("Cleared")
PhoneSends == FrameFromPhone("Other") /\ UNCHANGED phone

\* It has heard the Physical Information, and establishes the link; what it says from here on is
\* the matter of BS2.
Seize ==
  /\ phone.at = "access"
  /\ new[phone.ref].pc = "access"
  /\ new[phone.ref].reserved
  /\ phone' = [phone EXCEPT !.at = "new", !.active = FALSE, !.owes = FALSE]
  /\ UNCHANGED <<old, new, up, net, remote>>

\* T3124 expires: it goes back, and says so, if the channel is still there.
ComeBack ==
  /\ phone.at = "access"
  /\ IF old.pc = "done" THEN phone' = Gone /\ UNCHANGED up
     ELSE phone' = [phone EXCEPT !.at = "old", !.ref = 0] /\ up' = Append(up, "Failure")
  /\ UNCHANGED <<old, new, net, remote>>

LinkFails ==
  /\ phone.at # "gone"
  /\ phone' = Gone
  /\ UNCHANGED <<old, new, up, net, remote>>

RemoteHangsUp ==
  /\ remote.up
  /\ remote' = [remote EXCEPT !.up = FALSE]
  /\ UNCHANGED <<old, new, phone, up, net>>

Lose(m) ==
  /\ m \in net
  /\ net' = net \ {m}
  /\ UNCHANGED <<old, new, phone, up, remote>>

----------------------------------------------------------------------------

BS1 ==
  \/ ReadFrame \/ ReceiveBYE \/ AbortOld
  \/ HandoverDetermination \/ Command \/ TransferFailed \/ T3103Expires
  \/ \E r \in Ref :
       processHandoverResponse(r) \/ processHandoverComplete(r) \/ processHandoverFailure(r)

BS2 ==
  \/ Congestion
  \/ \E r \in Ref :
       \/ processHandoverRequest(r) \/ ChannelExpires(r) \/ EntryExpires(r)
       \/ SaveHandoverAccess(r) \/ ProcessHandoverAccess(r) \/ AccessTimesOut(r)
       \/ HandoverComplete(r) \/ inboundHandoverCheckForOK(r)
       \/ SendAgain(r) \/ ReadACK(r) \/ GiveUp(r) \/ EndCall(r)

Others ==
  \/ UserHangsUp \/ PhoneAnswers \/ PhoneSends \/ Seize \/ ComeBack \/ LinkFails \/ RemoteHangsUp
  \/ \E m \in Message : Lose(m)

Next == BS1 \/ BS2 \/ Others

Spec == Init /\ [][Next]_vars

\* The threads run and timers expire, T305 and T308 at the next turn of the loop, and a phone
\* that sends access bursts goes on or back.
Fairness ==
  /\ WF_vars(ReadFrame)
  /\ SF_vars(AbortOld)
  /\ WF_vars(Command)
  /\ WF_vars(TransferFailed)
  /\ WF_vars(T3103Expires)
  /\ WF_vars(ComeBack)
  /\ \A r \in Ref :
       /\ WF_vars(EntryExpires(r))
       /\ WF_vars(ProcessHandoverAccess(r))
       /\ WF_vars(AccessTimesOut(r))
       /\ WF_vars(inboundHandoverCheckForOK(r))
       /\ WF_vars(GiveUp(r))

LiveSpec == Spec /\ Fairness

----------------------------------------------------------------------------

(* Properties *)

\* The two base stations never both run the call (callManagementLoop(), CallControl.cpp:831).
OneOwner == ~(old.pc = "call" /\ \E r \in Ref : new[r].pc = "call")

\* However often a request is repeated, BS2 keeps one transaction, with one channel, for the
\* call (processHandoverRequest(), Peering.cpp:241).
OneEntry == \A r, s \in Ref : Entry(r) /\ Entry(s) => r = s

Moving(r) == new[r].pc \in {"invite", "indicate"} \/ (new[r].pc = "access" /\ OnChannel(r))

\* The phone is on its way from BS1, or has come back unheard.
Away == old.pc = "transfer" /\ (phone.at # "gone" \/ up # <<>>)

Owner ==
  IF \E r \in Ref : new[r].pc = "call" THEN "BS2"
  ELSE IF old.pc = "call" THEN "BS1"
  ELSE IF Away \/ \E r \in Ref : Moving(r) THEN "moving"
  ELSE "none"

CallOwner == INSTANCE CallOwner WITH owner <- Owner, media <- remote.leg

\* Seen from outside, the call is handed over as CallOwner says, the INVITE that follows an aborted
\* handover included.
OwnedCall == CallOwner!Spec

\* A call that is being cleared ends at BS1, though an answer of BS2 may overwrite its state.
ClearingEnds == old.sip # "Active" ~> old.pc = "done"

Busy(r) ==
  \/ new[r].pc = "idle" /\ ~new[r].removed
  \/ new[r].pc \in {"burst", "access", "indicate", "fail", "wrong"}
  \/ new[r].pc = "invite" /\ new[r].answer # "lost"

\* An inbound handover ends, unless the answer to its INVITE is lost.
InboundEnds == \A r \in Ref : Busy(r) ~> ~Busy(r)
==============================================================================
