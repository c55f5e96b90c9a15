----------------------------- MODULE CallControl -----------------------------
(***************************************************************************)
(* One call: the controllers of Control/CallControl.cpp (MTCStarter,       *)
(* assignTCHF, MTCController, MOCController, callManagementLoop) on the    *)
(* thread of a channel, with the SIP engine of the transaction             *)
(* (SIP/SIPEngine.cpp), between a phone and a remote SIP user agent.       *)
(*                                                                         *)
(* The thread reads the phone's messages and the SIP messages in turn; a   *)
(* read that blocks is an action of its own, and the sends are part of the *)
(* step that makes them.  SIP messages are lost, delayed and reordered,    *)
(* and repeated by their senders; a layer 3 message arrives late but in    *)
(* order, while the phone is on its channel.  The repetition of an INVITE  *)
(* and the removal of dead transactions by other threads are the subject   *)
(* of MTTransactions.                                                      *)
(***************************************************************************)
EXTENDS Naturals, Sequences, FiniteSets

CONSTANTS
  Kind,       \* the calls looked at: "MO", started by the phone, and "MT"
  Keys,       \* the calls in which keys are pressed, which go to the remote party as INFO
  Quick,      \* no step of the set-up takes 30 s
  MaxNet      \* bound: SIP messages under way at a time

ASSUME CallAssumption ==
  /\ Kind \subseteq {"MO", "MT"}
  /\ Keys \subseteq Kind
  /\ Quick \in BOOLEAN
  /\ MaxNet \in Nat

VARIABLES
  tr,      \* the TransactionEntry with its SIPEngine
  thread,  \* where the controller is
  phone,   \* the call control entity of the phone
  up,      \* layer 3 messages from the phone, not read yet
  fifo,    \* the SIP message that is in the FIFO of the call, if any
  net,     \* SIP messages on their way, or further back in the FIFO
  peer     \* the remote party

vars == <<tr, thread, phone, up, fifo, net, peer>>

GSMState == {"Null", "CallPresent", "MTCConfirmed", "MOCProceeding", "CallReceived",
             "ConnectIndication", "Active", "DisconnectIndication", "ReleaseRequest"}
SIPState == {"Timeout", "Starting", "Proceeding", "Ringing", "Busy", "Connecting", "Active",
             "MODClearing", "MODCanceling", "MTDClearing", "MTDCanceling", "Canceled",
             "Cleared", "Fail"}
Timer == {"301", "303", "305", "308", "313"}

\* age: time since GSMState() was last set, below 30 s (0), 180 s (1) or above (2).
Transaction ==
  [kind : Kind, gsm : GSMState, sip : SIPState, age : 0..2, removed : BOOLEAN,
   saved : SUBSET {"BYE", "CANCEL", "Response"},  \* mBYE, mCANCEL, mLastResponse
   timers : SUBSET Timer,                         \* running, or expired
   terminate : BOOLEAN]                           \* mTerminationRequested

\* pc: the loop the thread is in.  turn: what comes next there.  wait: the wait of the SIP
\* engine that it is in, before that.
Loop == {"confirm", "assign", "alerting", "connecting", "ringing", "answer", "ack", "call"}
Turn == {"gsm", "cleared", "sip", "check", "remove", "leave"}
Wait == {"none", "BYEOK", "CANCELOK", "CANCELOK and 487", "487", "ERRORACK", "INFO"}
Thread == [pc : Loop \cup {"done", "crashed"}, turn : Turn, wait : Wait]

L3Message == {"CallConfirmed", "Alerting", "Connect", "ConnectAck", "Disconnect", "Release",
              "ReleaseComplete", "Status", "IMSIDetach", "StartDTMF"}

\* The call state of the phone; it may owe a Status for a message it did not expect.
PhoneState == {"present", "confirmed", "alerting", "connecting", "proceeding", "delivered",
               "active", "discSent", "relSent", "null"}
Phone == [cc : PhoneState, link : BOOLEAN, owes : BOOLEAN]

\* "Busy" are the codes 486, 600 and 603, "Error" is any other final error.
SIPMessage == {"Trying", "Ringing", "OK-INVITE", "OK-BYE", "OK-CANCEL", "OK-INFO", "Busy", "Error",
               "487", "ACK", "BYE", "CANCEL"}
Empty == "empty"
Status200 == {"OK-INVITE", "OK-BYE", "OK-CANCEL", "OK-INFO"}

\* "calling" and "cancelling" are of an MT call, "invited" to "answered" of an MO call.  A party
\* that has "ended" never had the call up; one that is "over" has answered it, or was answered.
PeerState == {"none", "invited", "ringing", "answered", "calling", "cancelling", "up", "bye",
              "ended", "over"}

TypeOK ==
  /\ tr \in Transaction
  /\ thread \in Thread
  /\ phone \in Phone
  /\ up \in Seq(L3Message)
  /\ fifo \in SIPMessage \cup {Empty}
  /\ net \subseteq SIPMessage
  /\ peer \in PeerState

NewTransaction(kind) ==
  [kind |-> kind, gsm |-> IF kind = "MO" THEN "MOCProceeding" ELSE "CallPresent",
   sip |-> IF kind = "MO" THEN "Starting" ELSE "Proceeding", age |-> 0, removed |-> FALSE,
   saved |-> {}, timers |-> IF kind = "MO" THEN {} ELSE {"303"}, terminate |-> FALSE]

\* MOCStarter() has sent the INVITE, which may be lost, and Call Proceeding; MTCStarter() has
\* sent Setup and the first 100 Trying.
Init ==
  \E kind \in Kind :
    /\ tr = NewTransaction(kind)
    /\ thread = [pc |-> IF kind = "MO" THEN "assign" ELSE "confirm", turn |-> "gsm",
                 wait |-> "none"]
    /\ phone = [cc |-> IF kind = "MO" THEN "proceeding" ELSE "present", link |-> TRUE,
                owes |-> FALSE]
    /\ up = <<>>
    /\ fifo = Empty
    /\ \/ kind = "MO" /\ peer = "none" /\ net = {}
       \/ kind = "MO" /\ peer = "invited" /\ net = {"Trying"}
       \/ kind = "MT" /\ peer = "calling" /\ net = {}

----------------------------------------------------------------------------
(* The transaction *)

dead(e) ==
  \/ e.age >= 1 /\ e.sip \in {"Fail", "Proceeding", "Canceled", "Cleared"}
  \/ e.age = 2 /\ (e.removed \/ e.gsm # "Active" \/ e.sip # "Active")

deadOrRemoved(e) == e.removed \/ dead(e)

SIPFinished(e) == e.sip \in {"Cleared", "Canceled", "Fail"}

\* Mutant: only the clearing that the remote party starts counts.
clearingFromSIP(e) == e.gsm = "DisconnectIndication"

clearingGSM(e) == e.gsm \in {"ReleaseRequest", "DisconnectIndication"}

setGSM(e, state) == [e EXCEPT !.gsm = state, !.age = 0]

resetTimers(e) == [e EXCEPT !.timers = {}]

setTimer(e, t) == [e EXCEPT !.timers = @ \cup {t}]

resetTimer(e, t) == [e EXCEPT !.timers = @ \ {t}]

setSIP(e, state) == [e EXCEPT !.sip = state]

save(e, m) == [e EXCEPT !.saved = @ \cup {m}]

instigator(e) == e.kind = "MO"

\* The thread spends its time in the reads that block.
Blocked == thread.pc \in Loop /\ (thread.wait # "none" \/ thread.turn \in {"gsm", "sip"})

\* When the phone, the remote party and their users act.
OthersTurn == Blocked \/ thread.pc = "done"

\* Time passes, where a turn begins; no timer and no wait lasts 180 s.
Tick ==
  /\ thread.pc \in Loop
  /\ thread.wait = "none"
  /\ thread.turn = "gsm"
  /\ tr.age < 2
  /\ tr.age = 0 => ~(Quick /\ thread.pc # "call")
  /\ tr.age = 1 => tr.timers = {}
  /\ tr' = [tr EXCEPT !.age = @ + 1]
  /\ UNCHANGED <<thread, phone, up, fifo, net, peer>>

\* Another thread or the CLI asks for the end of the call.
Terminate ==
  /\ thread.pc = "call"
  /\ ~tr.terminate
  /\ tr' = [tr EXCEPT !.terminate = TRUE]
  /\ UNCHANGED <<thread, phone, up, fifo, net, peer>>

----------------------------------------------------------------------------
(* The remote party and the network: a user agent after RFC 3261 *)

PeerAfter(m) ==
  CASE m = "INVITE" /\ peer = "none" -> "invited"
    [] m = "ACK" /\ peer = "answered" -> "up"
    [] m = "OK" /\ peer = "calling" -> "up"
    [] m = "OK" /\ peer = "cancelling" -> "bye"
    [] m = "ERROR" /\ peer \in {"calling", "cancelling"} -> "ended"
    [] m = "CANCEL" /\ peer \in {"invited", "ringing"} -> "ended"
    [] m = "BYE" /\ peer \in {"answered", "up", "bye"} -> "over"
    [] m = "BYEOK" /\ peer = "bye" -> "over"
    [] OTHER -> peer

PeerReply(m) ==
  CASE m = "INVITE" /\ peer \in {"none", "invited"} -> {"Trying"}
    [] m = "OK" /\ peer \in {"calling", "up"} -> {"ACK"}
    [] m = "OK" /\ peer \in {"cancelling", "bye"} -> {"ACK", "BYE"}
    [] m = "ERROR" /\ peer \in {"calling", "cancelling"} -> {"ACK"}
    [] m = "CANCEL" /\ peer \in {"invited", "ringing"} -> {"OK-CANCEL", "487"}
    [] m = "CANCEL" /\ tr.kind = "MO" /\ peer \in {"answered", "up", "bye"} -> {"OK-CANCEL"}
    [] m = "CANCEL" /\ (tr.kind = "MT" \/ peer \in {"ended", "over"}) -> {"Error"}
    [] m = "BYE" /\ peer \in {"answered", "up", "bye"} -> {"OK-BYE"}
    [] m = "INFO" /\ peer = "up" -> {"OK-INFO"}
    [] OTHER -> {}

\* SIPInterface::write(): the message is lost, or the remote party acts on it.
Send(m) ==
  \/ UNCHANGED <<peer, net>>
  \/ /\ Cardinality(net \cup PeerReply(m)) <= MaxNet
     /\ peer' = PeerAfter(m)
     /\ net' = net \cup PeerReply(m)

PeerSends(next, m) ==
  /\ OthersTurn
  /\ Cardinality(net \cup {m}) <= MaxNet
  /\ peer' = next
  /\ net' = net \cup {m}
  /\ UNCHANGED <<tr, thread, phone, up, fifo>>

PeerRings   == peer = "invited" /\ PeerSends("ringing", "Ringing")
PeerAnswers == peer \in {"invited", "ringing"} /\ PeerSends("answered", "OK-INVITE")
PeerRejects == peer \in {"invited", "ringing"} /\ \E m \in {"Busy", "Error"} : PeerSends("ended", m)
PeerCancels == peer = "calling" /\ PeerSends("cancelling", "CANCEL")
PeerHangsUp == peer \in {"answered", "up"} /\ PeerSends("bye", "BYE")

PeerRepeats ==
  /\ \/ peer = "answered" /\ PeerSends(peer, "OK-INVITE")
     \/ peer = "cancelling" /\ PeerSends(peer, "CANCEL")
     \/ peer = "bye" /\ PeerSends(peer, "BYE")

\* It has repeated for long enough.
PeerGivesUp ==
  /\ OthersTurn
  /\ peer \in {"answered", "cancelling", "bye"}
  /\ peer' = IF peer = "cancelling" THEN "ended" ELSE "over"
  /\ UNCHANGED <<tr, thread, phone, up, fifo, net>>

Lose(m) ==
  /\ m \in net
  /\ net' = net \ {m}
  /\ UNCHANGED <<tr, thread, phone, up, fifo, peer>>

\* SIPInterface::drive() puts a message in the FIFO of the call.  The network does not keep the
\* order, so that what waits behind another message may as well be on its way.
Deliver(m) ==
  /\ m \in net
  /\ fifo = Empty
  /\ thread.pc \in Loop
  /\ thread.wait # "none" \/ thread.turn \in {"sip", "cleared"}
  /\ net' = net \ {m}
  /\ fifo' = m
  /\ UNCHANGED <<tr, thread, phone, up, peer>>

----------------------------------------------------------------------------
(* The phone, after GSM 04.08 *)

PhoneSends(cc, m) ==
  /\ OthersTurn
  /\ phone.link
  /\ phone' = [phone EXCEPT !.cc = cc]
  /\ up' = Append(up, m)
  /\ UNCHANGED <<tr, thread, fifo, net, peer>>

\* A message is sent in the state the phone is in, or with a change of it.
PhoneConfirms == phone.cc = "present" /\ PhoneSends("confirmed", "CallConfirmed")
PhoneAlerts   == phone.cc = "confirmed" /\ PhoneSends("alerting", "Alerting")
UserAnswers   == phone.cc \in {"confirmed", "alerting"} /\ PhoneSends("connecting", "Connect")
PhoneRejects  == phone.cc = "present" /\ PhoneSends("null", "ReleaseComplete")

UserHangsUp ==
  /\ phone.cc \notin {"present", "discSent", "relSent", "null"}
  /\ PhoneSends("discSent", "Disconnect")

UserSwitchesOff == phone.cc # "null" /\ PhoneSends("null", "IMSIDetach")

PhoneReports ==
  /\ OthersTurn
  /\ phone.cc = "discSent"
  /\ phone.owes
  /\ phone.link
  /\ phone' = [phone EXCEPT !.owes = FALSE]
  /\ up' = Append(up, "Status")
  /\ UNCHANGED <<tr, thread, fifo, net, peer>>

UserPressesKey ==
  /\ tr.kind \in Keys
  /\ phone.cc = "active"
  /\ \A i \in DOMAIN up : up[i] # "StartDTMF"  \* bound: one at a time
  /\ PhoneSends("active", "StartDTMF")

LinkFails ==
  /\ OthersTurn
  /\ phone.link
  /\ phone' = [phone EXCEPT !.link = FALSE]
  /\ UNCHANGED <<tr, thread, up, fifo, net, peer>>

\* What the phone makes of a message, and what it answers.
Reaction(m) ==
  CASE m = "Disconnect" /\ phone.cc # "null" -> "relSent"
    [] m = "Release" -> "null"
    [] m = "Alerting" /\ phone.cc = "proceeding" -> "delivered"
    [] m = "Connect" /\ phone.cc \in {"proceeding", "delivered"} -> "active"
    [] m = "ConnectAck" /\ phone.cc = "connecting" -> "active"
    [] OTHER -> phone.cc

Reply(m) ==
  CASE m = "Disconnect" /\ phone.cc \notin {"relSent", "null"} -> <<"Release">>
    [] m = "Release" /\ phone.cc # "relSent" -> <<"ReleaseComplete">>
    [] m = "Connect" /\ phone.cc \in {"proceeding", "delivered"} -> <<"ConnectAck">>
    [] OTHER -> <<>>

Unexpected(m) == phone.cc = "discSent" /\ m \in {"Alerting", "Connect", "ConnectAck"}

\* LCH->send().
SendL3(m) ==
  IF phone.link
  THEN /\ phone' = [phone EXCEPT !.cc = Reaction(m),
                      !.owes = @ \/ Unexpected(m)]
       /\ up' = up \o Reply(m)
  ELSE UNCHANGED <<phone, up>>

\* Channel Release, or the release of the data link.
ReleaseChannel == phone' = [phone EXCEPT !.link = FALSE] /\ UNCHANGED up

----------------------------------------------------------------------------
(* Clearing *)

Go(pc, turn) == thread' = [pc |-> pc, turn |-> turn, wait |-> "none"]
Then(turn) == Go(thread.pc, turn)
WaitFor(w, turn) == thread' = [thread EXCEPT !.wait = w, !.turn = turn]
Done == Go("done", "gsm")

\* A failed assertion ends the process.
Crash ==
  /\ Go("crashed", "gsm")
  /\ UNCHANGED <<tr, phone, up, fifo, net, peer>>

\* The engine operations that begin the clearing of the SIP side, and their waits.
MODSendBYE(e, turn) ==
  tr' = save(setSIP(e, "MODClearing"), "BYE") /\ Send("BYE") /\ WaitFor("BYEOK", turn)

MODSendCANCEL(e, w, turn) ==
  tr' = save(setSIP(e, "MODCanceling"), "CANCEL") /\ Send("CANCEL") /\ WaitFor(w, turn)

MODSendERROR(e, turn) ==
  tr' = setSIP(e, "MODCanceling") /\ Send("ERROR") /\ WaitFor("ERRORACK", turn)

\* forceSIPClearing() of e, which the rest of the step has made; turn comes next.
forceSIPClearing(e, turn) ==
  \/ /\ deadOrRemoved(e) \/ SIPFinished(e)
     /\ tr' = e
     /\ Then(turn)
     /\ UNCHANGED <<peer, net>>
  \/ /\ ~deadOrRemoved(e)
     /\ ~SIPFinished(e)
     /\ \/ e.sip = "Active" /\ MODSendBYE(e, turn)
        \/ e.sip # "Active" /\ instigator(e) /\ MODSendCANCEL(e, "CANCELOK", turn)
        \/ e.sip # "Active" /\ ~instigator(e) /\ MODSendERROR(e, turn)

\* forceGSMClearing(): Disconnect, Release Complete and Channel Release leave the phone off
\* the channel.
GSMCleared(e) == IF e.gsm = "Null" THEN e ELSE setGSM(resetTimers(e), "Null")
\* Mutant: a clearing that has begun is left to take its course.
forceGSMClearingOnce(e) ==
  IF e.gsm = "Null" \/ clearingGSM(e) THEN UNCHANGED <<phone, up>> ELSE ReleaseChannel

forceGSMClearing(e) == IF e.gsm = "Null" THEN UNCHANGED <<phone, up>> ELSE ReleaseChannel

\* abortCall() of e, which the rest of the step has made.
abortCall(e, turn) ==
  /\ forceGSMClearing(e)
  /\ IF deadOrRemoved(e)
     THEN tr' = GSMCleared(e) /\ Then(turn) /\ UNCHANGED <<peer, net>>
     ELSE forceSIPClearing(GSMCleared(e), turn)

\* With a transaction that is defunct it does nothing.
abortAndRemoveCall(e) ==
  IF deadOrRemoved(e) THEN tr' = e /\ Done /\ UNCHANGED <<phone, up, peer, net>>
  ELSE abortCall(e, "remove")

\* gTransactionTable.remove(), and the controller returns.
Remove ==
  /\ thread.pc \in Loop
  /\ thread.wait = "none"
  /\ thread.turn = "remove"
  /\ tr' = [tr EXCEPT !.removed = TRUE, !.age = 0]
  /\ Done
  /\ UNCHANGED <<phone, up, fifo, net, peer>>

Leave ==
  /\ thread.pc \in Loop
  /\ thread.wait = "none"
  /\ thread.turn = "leave"
  /\ Done
  /\ UNCHANGED <<tr, phone, up, fifo, net, peer>>

----------------------------------------------------------------------------
(* The waits of the SIP engine, which release the lock of the transaction *)

After(w) == IF w = "CANCELOK and 487" THEN "487" ELSE "none"
Waited(w, e) ==
  CASE w = "BYEOK" -> setSIP(e, "Cleared")
    [] w \in {"CANCELOK", "CANCELOK and 487", "ERRORACK"} -> setSIP(e, "Canceled")
    [] OTHER -> e

\* Whatever comes ends the wait, but that for the answer to an INFO, which reads on.
WaitReads ==
  /\ thread.wait # "none"
  /\ fifo # Empty
  /\ fifo' = Empty
  /\ IF thread.wait = "INFO" THEN UNCHANGED <<tr, thread>>
     ELSE /\ tr' = IF thread.wait = "487" THEN tr
                   ELSE save(Waited(thread.wait, tr), "Response")
          /\ thread' = [thread EXCEPT !.wait = After(@)]
  /\ UNCHANGED <<phone, up, net, peer>>

\* Timer E expires, and what was sent is sent again.
WaitRepeats ==
  /\ thread.wait \notin {"none", "487"}
  /\ fifo = Empty
  /\ LET m == CASE thread.wait = "BYEOK" -> "BYE"
                [] thread.wait = "ERRORACK" -> "ERROR"
                [] thread.wait = "INFO" -> "INFO"
                [] OTHER -> "CANCEL"
         saved == CASE m = "BYE" -> tr.sip = "MODClearing" /\ "BYE" \in tr.saved
                    [] m = "CANCEL" -> "CANCEL" \in tr.saved
                    [] OTHER -> TRUE
     IN  IF saved THEN Send(m) /\ UNCHANGED <<tr, thread, phone, up, fifo>> ELSE Crash

\* Mutant: the wait for the answer to BYE has no Timer F.
WaitEndsButForBYE ==
  /\ thread.wait \notin {"none", "BYEOK"}
  /\ fifo = Empty \/ thread.wait = "INFO"
  /\ tr' = Waited(thread.wait, tr)
  /\ thread' = [thread EXCEPT !.wait = After(@)]
  /\ UNCHANGED <<phone, up, fifo, net, peer>>

\* Timer F expires.
WaitEnds ==
  /\ thread.wait # "none"
  /\ fifo = Empty \/ thread.wait = "INFO"
  /\ tr' = Waited(thread.wait, tr)
  /\ thread' = [thread EXCEPT !.wait = After(@)]
  /\ UNCHANGED <<phone, up, fifo, net, peer>>

----------------------------------------------------------------------------
(* callManagementDispatchGSM(): yes follows if it returns true, no if false *)

\* Mutant: Alerting starts the T310 that it is to stop.
SetUpWithT310(m) ==
  CASE m = "CallConfirmed" -> setGSM(setTimer(resetTimer(tr, "303"), "301"), "MTCConfirmed")
    [] m = "Alerting" -> setGSM(setTimer(tr, "310"), "CallReceived")
    [] OTHER -> setGSM(resetTimers(tr), "Active")

\* The transaction after a message of the set-up.
SetUp(m) ==
  CASE m = "CallConfirmed" -> setGSM(setTimer(resetTimer(tr, "303"), "301"), "MTCConfirmed")
    [] m = "Alerting" -> setGSM(setTimer(tr, "301"), "CallReceived")
    [] OTHER -> setGSM(resetTimers(tr), "Active")

dispatchSetup(m, no) ==
  /\ tr' = SetUp(m)
  /\ Then(no)
  /\ up' = Tail(up)
  /\ UNCHANGED <<phone, peer, net>>

\* The rest of the queue, with what the phone answers to Release.
AnswerRelease == IF phone.link THEN Tail(up) \o Reply("Release") ELSE Tail(up)
PhoneAfterRelease == IF phone.link THEN [phone EXCEPT !.cc = "null"] ELSE phone

dispatchDisconnect(no) ==
  LET e == setGSM(setTimer(resetTimers(tr), "308"), "ReleaseRequest") IN
  /\ phone' = PhoneAfterRelease
  /\ up' = AnswerRelease
  /\ \/ tr.sip = "Active" /\ MODSendBYE(e, no)
     \/ tr.sip # "Active" /\ instigator(tr) /\ MODSendCANCEL(e, "CANCELOK and 487", no)
     \/ tr.sip # "Active" /\ ~instigator(tr) /\ MODSendERROR(e, no)

MTDSendBYEOK(e) == tr' = setSIP(e, "Cleared") /\ Send("BYEOK")

dispatchRelease(yes) ==
  IF "BYE" \notin tr.saved THEN Crash
  ELSE /\ MTDSendBYEOK(setGSM(resetTimers(tr), "Null"))
       /\ Then(yes)
       /\ phone' = [phone EXCEPT !.link = FALSE]
       /\ up' = Tail(up)

dispatchReleaseComplete(yes) ==
  /\ tr' = setGSM(resetTimers(tr), "Null")
  /\ Then(yes)
  /\ phone' = [phone EXCEPT !.link = FALSE]
  /\ up' = Tail(up)
  /\ UNCHANGED <<peer, net>>

\* The call is cancelled on the SIP side, with no wait for the answer.
dispatchStatus(yes) ==
  /\ tr' = save(setSIP(setGSM(setTimer(resetTimers(tr), "308"), "ReleaseRequest"), "MODCanceling"),
                "CANCEL")
  /\ Send("CANCEL")
  /\ phone' = PhoneAfterRelease
  /\ up' = AnswerRelease
  /\ Then(yes)

dispatchDetach(yes) ==
  /\ forceSIPClearing(tr, yes)
  /\ phone' = [phone EXCEPT !.link = FALSE]
  /\ up' = Tail(up)

dispatchDTMF(no) ==
  /\ Send("INFO")
  /\ WaitFor("INFO", no)
  /\ up' = Tail(up)
  /\ UNCHANGED <<tr, phone>>

callManagementDispatchGSM(yes, no) ==
  LET m == Head(up) IN
  /\ up # <<>>
  /\ \/ m \in {"CallConfirmed", "Alerting", "Connect", "ConnectAck"} /\ dispatchSetup(m, no)
     \/ m = "Disconnect" /\ dispatchDisconnect(no)
     \/ m = "Release" /\ dispatchRelease(yes)
     \/ m = "ReleaseComplete" /\ dispatchReleaseComplete(yes)
     \/ m = "Status" /\ dispatchStatus(yes)
     \/ m = "IMSIDetach" /\ dispatchDetach(yes)
     \/ m = "StartDTMF" /\ dispatchDTMF(no)
  /\ UNCHANGED fifo

At(pc, turn) == thread.pc = pc /\ thread.wait = "none" /\ thread.turn = turn

----------------------------------------------------------------------------
(* updateGSMSignalling(), which each loop calls *)

\* The loops that look for a defunct transaction, where they begin.
Defunct ==
  /\ deadOrRemoved(tr)
  /\ \/ thread.pc \in {"ringing", "ack", "call"} /\ thread.turn = "gsm"
     \/ thread.pc = "answer" /\ thread.turn = "sip"

QuitDefunct ==
  /\ thread.wait = "none"
  /\ Defunct
  /\ ReleaseChannel
  /\ Done
  /\ UNCHANGED <<tr, fifo, net, peer>>

AfterGSM == IF thread.pc \in {"answer", "ack"} THEN "check" ELSE "sip"

Updates == (\E pc \in Loop \ {"assign"} : At(pc, "gsm")) /\ ~Defunct

\* The GSM side is cleared, or the data link reports an error.
Cleared ==
  /\ Updates
  /\ tr.gsm = "Null" \/ (up = <<>> /\ ~phone.link)
  /\ Then("cleared")
  /\ UNCHANGED <<tr, phone, up, fifo, net, peer>>

TimerExpired ==
  /\ Updates
  /\ tr.gsm # "Null"
  /\ tr.timers # {}
  /\ abortCall(tr, "cleared")
  /\ UNCHANGED fifo

Dispatched ==
  /\ Updates
  /\ tr.gsm # "Null"
  /\ callManagementDispatchGSM("cleared", AfterGSM)

\* The read times out; what the phone has sent may still be on its way.
NothingRead ==
  /\ Updates
  /\ tr.gsm # "Null"
  /\ phone.link
  /\ Then(AfterGSM)
  /\ UNCHANGED <<tr, phone, up, fifo, net, peer>>

updateGSMSignalling == Cleared \/ TimerExpired \/ Dispatched \/ NothingRead

\* The set-up was cleared by the phone or a timer.  MTCStarter() leaves it at the release of the
\* channel; the other loops clear the SIP side too.
SetupCleared ==
  /\ \/ At("confirm", "cleared") /\ ReleaseChannel /\ Done /\ UNCHANGED <<tr, peer, net>>
     \/ /\ \E pc \in {"alerting", "connecting", "ringing", "answer", "ack"} : At(pc, "cleared")
        /\ abortAndRemoveCall(tr)
  /\ UNCHANGED fifo

----------------------------------------------------------------------------
(* MTCStarter(), assignTCHF() and MTCController() *)

\* MTCCheckForCancel(), and the abort if it has read anything.
CancelledOrFailed(e) ==
  /\ fifo # Empty
  /\ fifo' = Empty
  /\ abortAndRemoveCall(IF fifo = "CANCEL" THEN save(setSIP(e, "Canceled"), "CANCEL")
                        ELSE setSIP(e, "Fail"))

\* A turn of the loop in MTCStarter(); the next begins with another 100 Trying.
Confirm ==
  /\ At("confirm", "sip")
  /\ \/ CancelledOrFailed(tr)
     \/ /\ fifo = Empty
        /\ IF tr.gsm = "MTCConfirmed" THEN Go("assign", "gsm") /\ UNCHANGED tr
           ELSE Then("gsm") /\ tr' = setSIP(tr, "Proceeding")
        /\ UNCHANGED <<phone, up, fifo, net, peer>>

\* A stray message on the old channel; what the dispatch returns is not looked at.
AssignStray ==
  /\ At("assign", "gsm")
  /\ callManagementDispatchGSM("gsm", "gsm")

\* The phone appears on the TCH: AssignmentCompleteHandler() looks for its transaction.
Assigned ==
  /\ At("assign", "gsm")
  /\ up = <<>>
  /\ phone.link
  /\ IF dead(tr) THEN ReleaseChannel /\ Done
     ELSE /\ IF tr.kind = "MO" THEN Go("ringing", "gsm")
             ELSE Go("alerting", IF tr.gsm = "Active" THEN "sip" ELSE "gsm")
          /\ UNCHANGED <<phone, up>>
  /\ UNCHANGED <<tr, fifo, net, peer>>

AssignmentFails ==
  /\ At("assign", "gsm")
  /\ phone.link
  /\ ReleaseChannel
  /\ forceSIPClearing(tr, "leave")
  /\ UNCHANGED fifo

\* Silence on the old channel is taken for success, but the phone is gone.
AssignmentLost ==
  /\ At("assign", "gsm")
  /\ up = <<>>
  /\ ~phone.link
  /\ Done
  /\ UNCHANGED <<tr, phone, up, fifo, net, peer>>

MTCSendOK(e) == tr' = setSIP(e, "Connecting") /\ Send("OK") /\ Go("connecting", "gsm")

\* While the phone rings, each turn sends another 180.
AwaitConnect ==
  LET e == IF tr.gsm = "CallReceived" THEN setSIP(tr, "Proceeding") ELSE tr IN
  /\ At("alerting", "sip")
  /\ \/ tr.gsm = "Active" /\ MTCSendOK(tr) /\ UNCHANGED <<phone, up, fifo>>
     \/ tr.gsm # "Active" /\ SIPFinished(e) /\ abortAndRemoveCall(e) /\ UNCHANGED fifo
     \/ tr.gsm # "Active" /\ ~SIPFinished(e) /\ CancelledOrFailed(e)
     \/ /\ tr.gsm # "Active"
        /\ ~SIPFinished(e)
        /\ fifo = Empty
        /\ tr' = e
        /\ Then("gsm")
        /\ UNCHANGED <<phone, up, fifo, net, peer>>

\* MTCCheckForACK(); without an answer, the 200 is sent again.
AwaitACK ==
  /\ At("connecting", "sip")
  /\ \/ fifo = Empty /\ MTCSendOK(tr) /\ UNCHANGED <<phone, up, fifo>>
     \/ /\ fifo # Empty
        /\ fifo = "ACK"
        /\ fifo' = Empty
        /\ tr' = setSIP(tr, "Active")
        /\ SendL3("ConnectAck")
        /\ Go("call", "gsm")
        /\ UNCHANGED <<net, peer>>
     \/ fifo # Empty /\ fifo # "ACK" /\ CancelledOrFailed(tr)

----------------------------------------------------------------------------
(* MOCController() *)

\* Mutants: the response is not saved; an early one, with sound, is taken for an answer.
CheckedForOKUnsaved(m) ==
  setSIP(tr, CASE m = "Trying" -> "Proceeding"
               [] m = "Ringing" -> "Ringing"
               [] m \in Status200 -> "Active"
               [] m = "Busy" -> "Busy"
               [] OTHER -> "Fail")
CheckedForOKEarly(m) ==
  save(setSIP(tr, CASE m = "Trying" -> "Proceeding"
                    [] m \in Status200 \cup {"Ringing"} -> "Active"
                    [] m = "Busy" -> "Busy"
                    [] OTHER -> "Fail"), "Response")

\* MOCCheckForOK() has read m: the final errors are acknowledged at once.
CheckedForOK(m) ==
  save(setSIP(tr, CASE m = "Trying" -> "Proceeding"
                    [] m = "Ringing" -> "Ringing"
                    [] m \in Status200 -> "Active"
                    [] m = "Busy" -> "Busy"
                    [] OTHER -> "Fail"), "Response")

\* It has timed out.
NothingHeard == IF tr.sip = "Proceeding" THEN tr ELSE setSIP(tr, "Timeout")

AwaitRinging ==
  /\ At("ringing", "sip")
  /\ \/ clearingGSM(tr) /\ abortAndRemoveCall(tr) /\ UNCHANGED fifo
     \/ /\ ~clearingGSM(tr)
        /\ fifo = Empty
        /\ tr' = NothingHeard
        /\ IF tr.sip = "Proceeding" THEN UNCHANGED <<net, peer>> ELSE Send("INVITE")
        /\ Then("gsm")
        /\ UNCHANGED <<phone, up, fifo>>
     \/ /\ ~clearingGSM(tr)
        /\ fifo # Empty
        /\ fifo' = Empty
        /\ LET e == CheckedForOK(fifo) IN
           \/ /\ e.sip = "Ringing"
              /\ tr' = setGSM(e, "CallReceived")
              /\ SendL3("Alerting")
              /\ Go("answer", "sip")
              /\ UNCHANGED <<net, peer>>
           \/ /\ e.sip = "Active"
              /\ tr' = setGSM(e, "CallReceived")
              /\ Go("answer", "check")
              /\ UNCHANGED <<phone, up, net, peer>>
           \/ /\ e.sip = "Proceeding"
              /\ tr' = e
              /\ Then("gsm")
              /\ UNCHANGED <<phone, up, net, peer>>
           \/ e.sip = "Fail" /\ abortAndRemoveCall(e)
           \/ /\ e.sip = "Busy"
              /\ tr' = GSMCleared(e)
              /\ forceGSMClearing(e)
              /\ Then("remove")
              /\ UNCHANGED <<net, peer>>

AwaitAnswer ==
  /\ At("answer", "sip")
  /\ ~Defunct
  /\ \/ fifo = Empty /\ tr' = NothingHeard /\ UNCHANGED fifo
     \/ fifo # Empty /\ fifo' = Empty /\ tr' = CheckedForOK(fifo)
  /\ Then("gsm")
  /\ UNCHANGED <<phone, up, net, peer>>

\* MOCSendACK() asserts that there was a response.
Answered ==
  /\ At("answer", "check")
  /\ \/ /\ clearingGSM(tr) \/ tr.sip \in {"Busy", "Fail"}
        /\ abortAndRemoveCall(tr)
     \/ /\ ~clearingGSM(tr)
        /\ tr.sip \notin {"Busy", "Fail", "Active"}
        /\ Then("sip")
        /\ UNCHANGED <<tr, phone, up, net, peer>>
     \/ /\ ~clearingGSM(tr)
        /\ tr.sip = "Active"
        /\ IF "Response" \notin tr.saved THEN Crash
           ELSE /\ tr' = setGSM(setTimer(tr, "313"), "ConnectIndication")
                /\ SendL3("Connect")
                /\ Send("ACK")
                /\ Go("ack", "gsm")
  /\ UNCHANGED fifo

Acknowledged ==
  /\ At("ack", "check")
  /\ Go(IF tr.gsm = "Active" THEN "call" ELSE "ack", "gsm")
  /\ UNCHANGED <<tr, phone, up, fifo, net, peer>>

----------------------------------------------------------------------------
(* callManagementLoop() *)

RadioFailure ==
  /\ At("call", "gsm")
  /\ ~Defunct
  /\ ~phone.link
  /\ forceSIPClearing(tr, "remove")
  /\ UNCHANGED <<phone, up, fifo>>

\* Mutant: the GSM side alone decides.
PolledGSM(e) ==
  /\ tr' = e
  /\ Then(IF thread.turn = "cleared" THEN "remove" ELSE "check")

\* The end of updateSignalling(): both sides are cleared, or the poll goes on.
Polled(e) ==
  /\ tr' = e
  /\ Then(IF thread.turn = "cleared" /\ SIPFinished(e) THEN "remove" ELSE "check")

\* updateSIPSignalling() knows of a BYE: it clears the GSM side, or answers.
ActOnBYE(e) ==
  IF thread.turn = "cleared" \/ clearingGSM(e)
  THEN Polled(setSIP(e, "Cleared")) /\ Send("BYEOK") /\ UNCHANGED <<phone, up>>
  ELSE /\ Polled(setGSM(setTimer(e, "305"), "DisconnectIndication"))
       /\ SendL3("Disconnect")
       /\ UNCHANGED <<net, peer>>

\* updateSIPSignalling(): MTDCheckBYE() reads a message if the call is active, and takes any
\* 200 for a repeated answer to its INVITE.
updateSIPSignalling ==
  /\ At("call", "sip") \/ At("call", "cleared")
  /\ \/ /\ tr.sip = "Active"
        /\ fifo # Empty
        /\ fifo' = Empty
        /\ LET m == fifo IN
           \/ m = "BYE" /\ ActOnBYE(save(setSIP(tr, "MTDClearing"), "BYE"))
           \/ /\ m \in Status200
              /\ "Response" \in tr.saved
              /\ Polled(tr)
              /\ Send("ACK")
              /\ UNCHANGED <<phone, up>>
           \/ /\ m \in Status200
              /\ "Response" \notin tr.saved
              /\ Go("crashed", "gsm")
              /\ UNCHANGED <<tr, phone, up, net, peer>>
           \/ m \notin Status200 \cup {"BYE"} /\ Polled(tr) /\ UNCHANGED <<phone, up, net, peer>>
     \/ tr.sip = "MTDClearing" /\ ActOnBYE(tr) /\ UNCHANGED fifo
     \/ /\ tr.sip = "Active" => fifo = Empty
        /\ tr.sip # "MTDClearing"
        /\ Polled(tr)
        /\ UNCHANGED <<phone, up, fifo, net, peer>>

CheckTermination ==
  /\ At("call", "check")
  /\ IF tr.terminate THEN abortCall([tr EXCEPT !.terminate = FALSE], "remove")
     ELSE Then("gsm") /\ UNCHANGED <<tr, phone, up, net, peer>>
  /\ UNCHANGED fifo

----------------------------------------------------------------------------

Controller ==
  \/ QuitDefunct \/ updateGSMSignalling \/ SetupCleared
  \/ Confirm \/ AssignStray \/ Assigned \/ AssignmentFails \/ AssignmentLost
  \/ AwaitConnect \/ AwaitACK
  \/ AwaitRinging \/ AwaitAnswer \/ Answered \/ Acknowledged
  \/ RadioFailure \/ updateSIPSignalling \/ CheckTermination
  \/ WaitReads \/ WaitRepeats \/ WaitEnds
  \/ Remove \/ Leave

RemoteParty ==
  PeerRings \/ PeerAnswers \/ PeerRejects \/ PeerCancels \/ PeerHangsUp \/ PeerRepeats \/ PeerGivesUp

User ==
  \/ PhoneConfirms \/ PhoneAlerts \/ UserAnswers \/ PhoneRejects \/ UserHangsUp
  \/ UserSwitchesOff \/ PhoneReports \/ UserPressesKey \/ LinkFails

Next ==
  \/ Controller
  \/ Tick
  \/ Terminate
  \/ \E m \in SIPMessage : Deliver(m) \/ Lose(m)
  \/ RemoteParty
  \/ User

Spec == Init /\ [][Next]_vars

\* The channel's thread runs, and what the data link holds is read in the end.  Time passes:
\* Timer F ends a wait, a Q.931 timer that is not stopped expires, and the decoder notices a
\* phone that has left.
Fairness ==
  /\ WF_vars(Controller)
  /\ WF_vars(WaitEnds)
  /\ SF_vars(Dispatched)
  /\ SF_vars(TimerExpired)
  /\ SF_vars(RadioFailure)
  /\ SF_vars(Tick)

LiveSpec == Spec /\ Fairness

----------------------------------------------------------------------------

(* Properties *)

\* No assertion of the SIP engine fails: what is resent or answered has been saved
\* (MOCSendACK(), MODResendBYE(), MODResendCANCEL(), MTDSendBYEOK(), SIP/SIPEngine.cpp).
NoFailedAssertion == thread.pc # "crashed"

\* When the controller returns, the phone has been told to leave the channel, or is gone.
PhoneReleased == thread.pc = "done" => ~phone.link

\* When the controller removes a transaction, the phone is off the channel, and the SIP side has
\* ended; or the remote party was busy (its answer has been acknowledged), and the GSM side is Null.
RemovedIsCleared ==
  tr.removed => ~phone.link /\ (SIPFinished(tr) \/ (tr.sip = "Busy" /\ tr.gsm = "Null"))

\* A call that is up towards the phone, or that waits for the phone's Connect Acknowledge, is one
\* that the remote party has answered, or has seen answered: no late answer to another request,
\* no early response and no rejection passes for it.
NoPhantomCall ==
  thread.pc \in {"ack", "call"} /\ tr.gsm \in {"ConnectIndication", "Active"} =>
    peer \in {"answered", "up", "bye", "over"}

\* A call that is being cleared towards the phone is not set up again.
ClearingIsFinal ==
  [][tr.gsm \in {"DisconnectIndication", "ReleaseRequest", "Null"} =>
       tr'.gsm \in {"DisconnectIndication", "ReleaseRequest", "Null"}]_vars

\* A call that the user has left, or that is being cleared, ends.
HangupEnds ==
  phone.cc \in {"discSent", "relSent", "null"} \/ tr.gsm \in {"DisconnectIndication", "ReleaseRequest"} ~> thread.pc = "done"

==============================================================================
