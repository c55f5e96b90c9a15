------------------------------- MODULE SMQueue -------------------------------
(***************************************************************************)
(* smqueue, the store-and-forward server of short messages: the queue, the *)
(* state machine of an entry and the answers to what was sent              *)
(* (smqueue.cpp, smqueue.h), the registration of a phone by a short code   *)
(* (smcommands.cpp), and the backup that a restart replays                 *)
(* (diskbackup.cpp).                                                       *)
(*                                                                         *)
(* One thread waits for a datagram or for the time of the head of the      *)
(* queue, and then serves the head until it is not due.  Phones submit     *)
(* messages through their base station, which sends a message again when   *)
(* the answer is late; what smqueue sends is answered late, more than once *)
(* or never; the process dies at any time.                                 *)
(***************************************************************************)
EXTENDS Integers, Sequences, FiniteSets, SequencesExt

CONSTANTS
  Message,      \* the short messages
  Registering,  \* those sent to the short code that registers the phone
  Quoted,       \* those whose text has a double quote in it
  Plain,        \* those that the base station sends as text/plain (SMS.MIMEType), not in hex
  Row,          \* rows of the backup: the timestamp that names an entry
  Relayed,      \* unknown numbers that may have to go to the global relay: "phone", "code"
  Short, Resend, Acked, Long,  \* 1-2 s, 15 s, 60 s (TT) and 6000 s (NT)
  MaxWire,      \* bound: datagrams under way; a further one is lost
  MaxEvents     \* bound: submissions and crashes

ASSUME SMQueueAssumption ==
  /\ Registering \subseteq Message
  /\ Quoted \subseteq Message
  /\ Plain \subseteq Message
  /\ Relayed \subseteq {"phone", "code"}
  /\ IsFiniteSet(Row) /\ Row # {}
  /\ {Short, Resend, Acked, Long} \subseteq Nat \ {0}
  /\ \A t \in {Short, Resend, Acked} : t <= Long
  /\ MaxWire \in Nat
  /\ MaxEvents \in Nat

VARIABLES
  pc,        \* the main loop: waiting for a datagram, serving the queue, or not running
  queue,     \* time_sorted_list
  backup,    \* the table MESSAGES
  wire,      \* what was sent, and may be answered yet
  linked,    \* phones, by their registering message, that the HLR has a number for
  accepted,  \* messages that were answered 202
  over,      \* messages that somebody has been told the end of, or that are lost for good
  charged,   \* debits, by message
  copies,    \* submissions, by message
  excused,   \* debits that a crash came after, before the message was removed
  events     \* submissions and crashes so far

vars == <<pc, queue, backup, wire, linked, accepted, over, charged, copies, excused, events>>
ghosts == <<accepted, over, charged, copies, excused>>

\* A message of a phone, an answer of a short code to it, a notice of Bounce.Code about it,
\* or the REGISTER that it causes.
Kind == {"sms", "reply", "bounce", "REGISTER"}
Dest == {"SMSC", "register", "phone", "IMSI", "code", "HLR"}
SMState ==
  {"NO_STATE", "INITIAL_STATE", "REQUEST_FROM_ADDRESS_LOOKUP", "REQUEST_DESTINATION_IMSI",
   "REQUEST_DESTINATION_SIPURL", "REQUEST_MSG_DELIVERY", "DELETE_ME_STATE",
   "AWAITING_REGISTER_HANDSET", "ASKED_TO_REGISTER_HANDSET"}

\* left: next_action_time, from now.  What is late, or has the time 0 of a new entry, has -1.
Entry ==
  [row : Row, kind : Kind, m : Message, dest : Dest, state : SMState, left : -1..Long]
Saved == [row : Row, kind : Kind, m : Message, dest : Dest]
Answer == {"later", "ok", "refused", "elsewhere"}
Request ==
  [tag : ({"sms"} \X Message) \cup ({"own"} \X Row), kind : Kind, m : Message]

TypeOK ==
  /\ pc \in {"down", "select", "serve"}
  /\ queue \in Seq(Entry)
  /\ backup \subseteq Saved
  /\ wire \subseteq Request
  /\ linked \subseteq Message
  /\ accepted \subseteq Message
  /\ over \subseteq Message
  /\ charged \in [Message -> Nat]
  /\ copies \in [Message -> 0..MaxEvents]
  /\ excused \in [Message -> 0..MaxEvents]
  /\ events \in 0..MaxEvents

Init ==
  /\ pc = "select"
  /\ queue = <<>>
  /\ backup = {}
  /\ wire = {}
  /\ linked = {}
  /\ accepted = {}
  /\ over = {}
  /\ charged = [m \in Message |-> 0]
  /\ copies = charged
  /\ excused = charged
  /\ events = 0

-----------------------------------------------------------------------------
(* Entries                                                                 *)

\* qtag: CSeq and From tag, which a message keeps when it is sent again or submitted again.
qtag(e) == IF e.kind = "sms" THEN <<"sms", e.m>> ELSE <<"own", e.row>>

\* The table of timeouts, as far as its entries are reached.
timeout(from, to) ==
  CASE to \in {"NO_STATE", "DELETE_ME_STATE"}              -> 0
    [] to = "INITIAL_STATE"                                -> IF from = to THEN 0 ELSE Long
    [] to = "ASKED_TO_REGISTER_HANDSET"                    -> IF from = "INITIAL_STATE" THEN Long ELSE Short
    [] to = "AWAITING_REGISTER_HANDSET"                    -> Short
    [] to = "REQUEST_DESTINATION_SIPURL"                   -> IF from = "REQUEST_MSG_DELIVERY" THEN Resend ELSE 0
    [] to = "REQUEST_DESTINATION_IMSI"                     ->
         IF from \in {"REQUEST_FROM_ADDRESS_LOOKUP", "NO_STATE", "DELETE_ME_STATE"} THEN 0 ELSE Long
    [] OTHER                                               -> 0

\* Mutant: the timeout is added to the old time.
InStateAfter(e, s) == [e EXCEPT !.state = s, !.left = e.left + timeout(e.state, s)]
InState(e, s) == [e EXCEPT !.state = s, !.left = timeout(e.state, s)]

\* SMq::set_state(): e, which is out of the queue q, goes before the first that is not sooner.
set_state(q, e) ==
  LET sooner == {i \in DOMAIN q : \A k \in 1..i : q[k].left < e.left}
  IN  InsertAt(q, Cardinality(sooner) + 1, e)

\* A row has the text that was inserted, not what became of it.
RowOf(e) == [row |-> e.row, kind |-> e.kind, m |-> e.m, dest |-> e.dest]
NewEntry(r, kind, m, dest, s) ==
  [row |-> r, kind |-> kind, m |-> m, dest |-> dest, state |-> s, left |-> -1]
RowsUsed == {queue[i].row : i \in DOMAIN queue} \cup {b.row : b \in backup}
\* Bound: what comes from outside finds rows enough for what it will cause.
Spare == Cardinality(Row \ RowsUsed) >= 4
NewRow == CHOOSE r \in Row : r \notin RowsUsed \/ RowsUsed = Row

\* Mutant: the row of what is done is not removed.
withoutNone(r) == backup
without(r) == {b \in backup : b.row # r}

\* What is on its way under the name of an old entry is not taken for the new one's.
Forget(w, r) == {d \in w : d.tag # <<"own", r>>}

due(q) == q # <<>> /\ Head(q).left <= 0

\* The loop of process_timeout() goes on with the queue q, or returns to the main loop.
Loop(q) ==
  /\ queue' = q
  /\ pc' = IF due(q) THEN "serve" ELSE "select"

\* originate_sm(), originate_half_sm() and handle_datagram(): the new entry e and its row; w is
\* what is on its way otherwise.
Originate(e, w) ==
  /\ e.row \notin RowsUsed
  /\ wire' = Forget(w, e.row)
  /\ backup' = backup \cup {RowOf(e)}

\* The same for an entry with the text of the message in it: the INSERT of a text with a double
\* quote fails, which insert_new_message() only logs.
OriginateText(e, w) ==
  /\ e.row \notin RowsUsed
  /\ wire' = Forget(w, e.row)
  /\ backup' = IF e.m \in Quoted THEN backup ELSE backup \cup {RowOf(e)}

\* A notice to the number of a short code: nobody will read it.
Lost(e) == IF e.dest = "code" THEN {e.m} ELSE {}

-----------------------------------------------------------------------------
(* bounce_message(): the notice, and the state of what is bounced          *)

\* The sender is an IMSI, or a number once it has been looked up.
Notices(e) ==
  LET notice(dest, s) == NewEntry(NewRow, "bounce", e.m, dest, s)
      toIMSI == notice("IMSI", "REQUEST_DESTINATION_SIPURL")
  IN  CASE e.kind = "sms"      -> {toIMSI, notice("phone", "REQUEST_DESTINATION_IMSI")}
        [] e.kind = "REGISTER" -> {toIMSI}
        [] e.kind = "reply"    -> {notice("code", "REQUEST_DESTINATION_IMSI")}
        [] OTHER               -> {}

-----------------------------------------------------------------------------
(* The phones and base stations                                            *)

\* handle_datagram() of a MESSAGE: backed up, if that succeeds, put at the front, answered 202
\* in any case, served.
Submit(m) ==
  LET e == NewEntry(NewRow, "sms", m, "SMSC", "INITIAL_STATE") IN
  /\ pc = "select"
  /\ Spare
  /\ events < MaxEvents
  /\ events' = events + 1
  /\ IF m \in Plain THEN OriginateText(e, wire) ELSE Originate(e, wire)
  /\ Loop(<<e>> \o queue)
  /\ accepted' = accepted \cup {m}
  /\ copies' = [copies EXCEPT ![m] = @ + 1]
  /\ UNCHANGED <<linked, over, charged, excused>>

-----------------------------------------------------------------------------
(* handle_response(): the first entry with the tag, wherever it is         *)

First(q, t) == {i \in DOMAIN q : qtag(q[i]) = t /\ \A k \in 1..(i - 1) : qtag(q[k]) # t}

\* The message whose REGISTER was answered is handled again.
\* Mutant: it is left to its timeout.
RerunLater(q, m) == q
Rerun(q, m) ==
  [i \in DOMAIN q |->
     IF /\ i \in First(q, <<"sms", m>>)
        /\ q[i].state \in {"AWAITING_REGISTER_HANDSET", "ASKED_TO_REGISTER_HANDSET"}
     THEN InState(q[i], "INITIAL_STATE")
     ELSE q[i]]

\* The cost of a message is known once it has been handled.
Costs(e) == e.kind = "sms" /\ e.state # "INITIAL_STATE"
debited(e) == IF Costs(e) THEN [charged EXCEPT ![e.m] = @ + 1] ELSE charged

\* Who has the message, or what was said about it, once d has been answered ok.
Told(d) == IF d.kind = "REGISTER" THEN {} ELSE {d.m}

ResponseUnknown(d, answer) ==
  /\ pc = "select"
  /\ First(queue, d.tag) = {}
  /\ wire' = wire \ {d}
  /\ over' = IF answer = "ok" THEN over \cup Told(d) ELSE over
  /\ Loop(queue)
  /\ UNCHANGED <<backup, linked, accepted, charged, copies, excused, events>>

\* 1xx, 480, 486 and 5xx: increase_acked_msg_timeout().  3xx and 6xx: look it up again.
\* Neither sorts the queue.
ResponseInPlace(d, answer) ==
  /\ pc = "select"
  /\ answer \in {"later", "elsewhere"}
  /\ \E i \in First(queue, d.tag) :
       Loop(ReplaceAt(queue, i,
              IF answer = "later" THEN [queue[i] EXCEPT !.left = Acked]
              ELSE InState(queue[i], "REQUEST_DESTINATION_IMSI")))
  /\ wire' = wire \ {d}
  /\ UNCHANGED <<backup, linked, ghosts, events>>

\* 2xx: the entry is paid for and deleted, with its row.
ResponseOK(d) ==
  /\ pc = "select"
  /\ \E i \in First(queue, d.tag) :
       LET e == queue[i]
           q == IF e.kind = "REGISTER" THEN Rerun(queue, e.m) ELSE queue
       IN  /\ charged' = debited(e)
           /\ Loop(RemoveAt(q, i))
           /\ backup' = without(e.row)
  /\ wire' = wire \ {d}
  /\ over' = over \cup Told(d)
  /\ UNCHANGED <<linked, accepted, copies, excused, events>>

\* Any other 4xx: bounced.  The notice is put at the front, the entry stays where it is.
ResponseRefused(d) ==
  /\ pc = "select"
  /\ Spare
  /\ \E i \in First(queue, d.tag) :
       \/ \E n \in Notices(queue[i]) :
            /\ OriginateText(n, wire \ {d})
            /\ Loop(<<n>> \o ReplaceAt(queue, i, InState(queue[i], "DELETE_ME_STATE")))
            /\ over' = over \cup Lost(n)
       \/ /\ Notices(queue[i]) = {}
          /\ wire' = wire \ {d}
          /\ Loop(ReplaceAt(queue, i, InState(queue[i], "NO_STATE")))
          /\ UNCHANGED <<backup, over>>
  /\ UNCHANGED <<linked, accepted, charged, copies, excused, events>>

-----------------------------------------------------------------------------
(* process_timeout(): one turn, for the head of the queue                  *)

Serving(states) == pc = "serve" /\ Head(queue).state \in states
head == Head(queue)

\* The head moves on to e, and an entry n that it has originated is before it.
Moves(e) ==
  /\ Loop(set_state(Tail(queue), e))
  /\ UNCHANGED <<backup, wire>>
MovesWith(e, n) == Loop(set_state(<<n>> \o Tail(queue), e))

\* A message, an answer or a notice is told no more than this.
\* Mutant: the answer is not backed up.
RepliesUnsaved(n) ==
  /\ n.row \notin RowsUsed
  /\ wire' = Forget(wire, n.row)
  /\ MovesWith(InState(head, "DELETE_ME_STATE"), n)
  /\ over' = over \cup Lost(n)
  /\ UNCHANGED backup
Replies(n) ==
  /\ Originate(n, wire)
  /\ MovesWith(InState(head, "DELETE_ME_STATE"), n)
  /\ over' = over \cup Lost(n)

\* A replayed REGISTER, which is no MESSAGE.
ServeInvalid ==
  /\ Serving({"INITIAL_STATE"})
  /\ head.kind = "REGISTER"
  /\ Moves(InState(head, "NO_STATE"))
  /\ UNCHANGED <<linked, ghosts, events>>

\* shortcode_smsc(): the number that was dialled, and SCA_RESTART_PROCESSING.
ServeSMSC ==
  /\ Serving({"INITIAL_STATE"})
  /\ head.dest = "SMSC"
  /\ Moves([InState(head, "INITIAL_STATE") EXCEPT
              !.dest = IF head.m \in Registering THEN "register" ELSE "phone"])
  /\ UNCHANGED <<linked, ghosts, events>>

\* verify_funds() and submitSMS(): the notice of a low balance.  The balance is that of the
\* From address, which of an answer or a notice is the short code; whether a code is prepaid
\* is not known, and a variable that was not set is read.
ServeLowFunds ==
  /\ Serving({"INITIAL_STATE"})
  /\ head.kind # "REGISTER"
  /\ head.dest # "register" /\ (head.dest = "SMSC" => head.m \notin Registering)
  /\ Replies(NewEntry(NewRow, "bounce", head.m, IF head.kind = "sms" THEN "IMSI" ELSE "code",
                      "REQUEST_DESTINATION_SIPURL"))
  /\ UNCHANGED <<linked, accepted, charged, copies, excused, events>>

ServeOrdinary ==
  /\ Serving({"INITIAL_STATE"})
  /\ head.kind # "REGISTER"
  /\ head.dest \notin {"SMSC", "register"}
  /\ Moves(InState(head, "REQUEST_FROM_ADDRESS_LOOKUP"))
  /\ UNCHANGED <<linked, ghosts, events>>

\* register_handset(): a REGISTER is sent for the phone, from state s on.
Registers(s) ==
  LET n == NewEntry(NewRow, "REGISTER", head.m, "HLR", "REQUEST_MSG_DELIVERY") IN
  /\ Originate(n, wire)
  /\ MovesWith([head EXCEPT !.state = "ASKED_TO_REGISTER_HANDSET",
                           !.left = timeout(s, "ASKED_TO_REGISTER_HANDSET")], n)

\* shortcode_register() of a phone without a number: addUser() makes two insertions.  If it
\* fails, the first may have been made.
ServeRegister ==
  /\ Serving({"INITIAL_STATE"})
  /\ head.dest = "register"
  /\ head.m \notin linked
  /\ \/ /\ Registers("INITIAL_STATE")
        /\ linked' = linked \cup {head.m}
        /\ UNCHANGED over
     \/ /\ Replies(NewEntry(NewRow, "reply", head.m, "IMSI", "REQUEST_DESTINATION_SIPURL"))
        /\ linked' \in {linked, linked \cup {head.m}}
  /\ UNCHANGED <<accepted, charged, copies, excused, events>>

\* The same of a phone with a number: welcome, or registered already.
ServeRegistered ==
  /\ Serving({"INITIAL_STATE"})
  /\ head.dest = "register"
  /\ head.m \in linked
  /\ Replies(NewEntry(NewRow, "reply", head.m, "IMSI", "REQUEST_DESTINATION_SIPURL"))
  /\ UNCHANGED <<linked, accepted, charged, copies, excused, events>>

\* lookup_from_address(): the number of the sender, if there is one.
ServeFromAddress ==
  /\ Serving({"REQUEST_FROM_ADDRESS_LOOKUP"})
  /\ Moves(InState(head, "REQUEST_DESTINATION_IMSI"))
  /\ UNCHANGED <<linked, ghosts, events>>

\* lookup_uri_imsi(): an IMSI needs no translation, a number is found in the HLR, or goes to
\* the global relay, if the HLR says so (useGateway()).  A REGISTER has no user name.
ServeIMSI ==
  /\ Serving({"REQUEST_DESTINATION_IMSI"})
  /\ \/ /\ head.kind = "REGISTER"
        /\ Moves(InState(head, "NO_STATE"))
     \/ /\ head.dest \in {"IMSI", "phone"}
        /\ Moves([InState(head, "REQUEST_DESTINATION_SIPURL") EXCEPT !.dest = "IMSI"])
     \/ /\ head.dest \in Relayed
        /\ Moves(InState(head, "REQUEST_DESTINATION_SIPURL"))
  /\ UNCHANGED <<linked, ghosts, events>>

\* A number that is not found is bounced otherwise.
ServeBounce ==
  /\ Serving({"REQUEST_DESTINATION_IMSI"})
  /\ head.dest \notin {"IMSI", "HLR"}
  /\ \/ \E n \in Notices(head) :
          /\ OriginateText(n, wire)
          /\ MovesWith(InState(head, "DELETE_ME_STATE"), n)
          /\ over' = over \cup Lost(n)
     \/ /\ Notices(head) = {}
        /\ Moves(InState(head, "NO_STATE"))
        /\ UNCHANGED over
  /\ UNCHANGED <<linked, accepted, charged, copies, excused, events>>

\* lookup_uri_hostport().
ServeHostPort ==
  /\ Serving({"REQUEST_DESTINATION_SIPURL"})
  /\ Moves(InState(head, IF head.kind = "REGISTER" THEN "NO_STATE" ELSE "REQUEST_MSG_DELIVERY"))
  /\ UNCHANGED <<linked, ghosts, events>>

\* deliver_msg_datagram().  A number that is not in the HLR is reached by the relay alone.
Reached(e) == e.dest \in {"IMSI", "HLR"} \cup Relayed
Sent(e) == [tag |-> qtag(e), kind |-> e.kind, m |-> e.m]
ServeDelivery ==
  /\ Serving({"REQUEST_MSG_DELIVERY"})
  /\ wire' = IF Reached(head) /\ Cardinality(wire) < MaxWire THEN wire \cup {Sent(head)} ELSE wire
  /\ Loop(set_state(Tail(queue), InState(head, "REQUEST_DESTINATION_SIPURL")))
  /\ UNCHANGED <<backup, linked, ghosts, events>>

ServeAskedToRegister ==
  /\ Serving({"ASKED_TO_REGISTER_HANDSET"})
  /\ Moves(InState(head, "AWAITING_REGISTER_HANDSET"))
  /\ UNCHANGED <<linked, ghosts, events>>

\* ready_to_register(): the HLR has a number for the phone.
ServeAwaitingRegister ==
  /\ Serving({"AWAITING_REGISTER_HANDSET"})
  /\ head.m \in linked
  /\ Registers("REGISTER_HANDSET")
  /\ UNCHANGED <<linked, ghosts, events>>

\* NO_STATE and DELETE_ME_STATE: the entry and its row go.  A notice with an error is told
\* to nobody.
ServeDelete ==
  /\ Serving({"NO_STATE", "DELETE_ME_STATE"})
  /\ Loop(Tail(queue))
  /\ backup' = without(head.row)
  /\ over' = IF head.state = "NO_STATE" /\ head.kind = "bounce" THEN over \cup {head.m} ELSE over
  /\ UNCHANGED <<wire, linked, accepted, charged, copies, excused, events>>

-----------------------------------------------------------------------------
(* main_loop(), and the process                                            *)

\* poll() returns without a datagram.
Wake ==
  /\ pc = "select"
  /\ due(queue)
  /\ pc' = "serve"
  /\ UNCHANGED <<queue, backup, wire, linked, ghosts, events>>

\* Time passes only while the main loop waits.
Tick ==
  /\ pc = "select"
  /\ queue # <<>>
  /\ head.left > 0
  /\ queue' = [i \in DOMAIN queue |-> [queue[i] EXCEPT !.left = IF @ > -1 THEN @ - 1 ELSE @]]
  /\ UNCHANGED <<pc, backup, wire, linked, ghosts, events>>

\* The INSERT of the entry fails, because of its text.
Unsavable(e) ==
  e.m \in Quoted /\ e.kind \in IF e.m \in Plain THEN {"sms", "bounce"} ELSE {"bounce"}

\* Messages that are in the queue alone: a crash takes them, and no restart brings them back.
Unsaved ==
  {m \in Message :
     /\ \E i \in DOMAIN queue : queue[i].m = m /\ Unsavable(queue[i])
     /\ \A b \in backup : b.m = m => b.kind = "REGISTER"}

Dies ==
  /\ events < MaxEvents
  /\ events' = events + 1
  /\ pc' = "down"
  /\ queue' = <<>>

Crash ==
  /\ pc # "down"
  /\ Dies
  /\ over' = over \cup Unsaved
  /\ UNCHANGED <<backup, wire, linked, accepted, charged, copies, excused>>

\* The process dies after the debit, and before the row is removed.
CrashAfterDebit(d) ==
  /\ pc = "select"
  /\ \E i \in First(queue, d.tag) :
       /\ Costs(queue[i])
       /\ charged' = debited(queue[i])
       /\ excused' = [excused EXCEPT ![queue[i].m] = @ + 1]
  /\ Dies
  /\ over' = over \cup Unsaved \cup Told(d)
  /\ wire' = wire \ {d}
  /\ UNCHANGED <<backup, linked, accepted, copies>>

\* get_stored_messages() deletes what is older than 72 hours; the rest is put at the front
\* as it comes.
Restart ==
  /\ pc = "down"
  /\ \E old \in SUBSET backup :
       /\ backup' = backup \ old
       /\ over' = over \cup {b.m : b \in {r \in old : r.kind # "REGISTER"}}
       /\ \E s \in SetToSeqs(backup \ old) :
            queue' = [i \in DOMAIN s |->
                        NewEntry(s[i].row, s[i].kind, s[i].m, s[i].dest, "INITIAL_STATE")]
  /\ pc' = "select"
  /\ UNCHANGED <<wire, linked, accepted, charged, copies, excused, events>>

Serve ==
  \/ ServeInvalid \/ ServeSMSC \/ ServeLowFunds \/ ServeOrdinary
  \/ ServeRegister \/ ServeRegistered \/ ServeFromAddress \/ ServeIMSI \/ ServeBounce
  \/ ServeHostPort \/ ServeDelivery \/ ServeAskedToRegister \/ ServeAwaitingRegister
  \/ ServeDelete

ReceiveResponse(d) ==
  \/ \E answer \in Answer : ResponseUnknown(d, answer) \/ ResponseInPlace(d, answer)
  \/ ResponseOK(d) \/ ResponseRefused(d)

Next ==
  \/ \E m \in Message : Submit(m)
  \/ \E d \in wire : ReceiveResponse(d) \/ CrashAfterDebit(d)
  \/ Serve
  \/ Wake \/ Tick
  \/ Crash \/ Restart

Spec == Init /\ [][Next]_vars

\* Whoever is asked again and again answers in time at last.
AnsweredOK(m, kinds) == \E d \in wire : d.m = m /\ d.kind \in kinds /\ ResponseOK(d)
AnsweredLate == \E d \in wire : ResponseUnknown(d, "ok")

\* The thread runs, time passes, and the process is started again.
LiveSpec ==
  /\ Spec
  /\ WF_vars(Serve) /\ WF_vars(Wake) /\ WF_vars(Tick) /\ WF_vars(Restart)
  /\ SF_vars(AnsweredLate)
  /\ \A m \in Message : SF_vars(AnsweredOK(m, Kind \ {"REGISTER"}))
  /\ \A m \in Registering : SF_vars(AnsweredOK(m, {"REGISTER"}))

-----------------------------------------------------------------------------
(* Properties                                                              *)

\* A message that was answered 202, of which nobody has been told the end, has a row, or an
\* answer or a notice about it has: whatever crash, answer or repetition comes.  The exception is
\* a text with a double quote, whose INSERT fails and is answered 202 all the same: of it the
\* message, if it came as text/plain, and any notice are in the queue alone, until a crash.
AcceptedIsKept ==
  \A m \in accepted \ over :
    \/ \E b \in backup : b.m = m /\ b.kind # "REGISTER"
    \/ \E i \in DOMAIN queue : queue[i].m = m /\ Unsavable(queue[i])

\* A phone pays once at most for a message, as often as it was submitted, whatever is sent
\* again, answered twice or replayed; a crash between the debit and the removal excepted.
FairCharge == \A m \in Message : charged[m] <= copies[m] + excused[m]

\* Whatever is answered late, refused or redirected, and however often the process dies: each
\* message that was answered 202 comes to an end.  Somebody is told of it, or it is lost in one of
\* the ways that the code has: the notice is refused itself or goes to the number of a short code,
\* 72 hours pass while the process is down, or a crash comes and the INSERT of it, or of the
\* notice, had failed.
AcceptedIsTold == \A m \in Message : m \in accepted ~> m \in over
=============================================================================
