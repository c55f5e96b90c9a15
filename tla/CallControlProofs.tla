-------------------------- MODULE CallControlProofs --------------------------
(***************************************************************************)
(* Proofs about CallControl, for any bound on the messages under way.  The *)
(* inductive invariant CallInv says why no assertion of the SIP engine     *)
(* fails: what an engine operation asserts to be saved was saved by the    *)
(* step that made its state, or that let the phone send what leads to it,  *)
(* and a 200 that is read in an active MT call would have to answer a BYE  *)
(* or an INFO, of which there is none.  EndInv says how the call ends, and *)
(* FinalInv why it is not set up again: the phone sends in order.          *)
(* AnswerInv says why what answers a clearing does not pass for the answer *)
(* to the call: the call is cleared before.                                *)
(***************************************************************************)
EXTENDS CallControl, TLAPS

\* The keys go to the remote party in calls that the phone has started.
NoKeys == "MT" \notin Keys

KindOf(pc) ==
  CASE pc \in {"ringing", "answer", "ack"} -> {"MO"}
    [] pc \in {"confirm", "alerting", "connecting"} -> {"MT"}
    [] OTHER -> {"MO", "MT"}

\* The transaction, of a thread at pc: its SIP state tells what has been saved, and how far an
\* MT call has come.
GoodTr(e, pc) ==
  /\ e \in Transaction
  /\ e.sip = "MTDClearing" => "BYE" \in e.saved
  /\ e.kind = "MO" /\ e.sip = "Active" => "Response" \in e.saved
  /\ e.kind = "MT" /\ e.sip \in {"Active", "MODClearing"} => pc \in {"call", "done"}

\* The thread: what its wait sends again is there.
GoodThread(e, t) ==
  /\ t \in Thread
  /\ t.pc # "crashed"
  /\ e.kind \in KindOf(t.pc)
  /\ t.pc = "done" => t.wait = "none"
  /\ t.wait = "BYEOK" => e.sip = "MODClearing" /\ "BYE" \in e.saved
  /\ t.wait \in {"CANCELOK", "CANCELOK and 487"} => "CANCEL" \in e.saved
  /\ t.wait = "INFO" => e.kind \in Keys

GoodMessage(e, m) ==
  /\ m \in L3Message
  /\ m = "Release" => "BYE" \in e.saved
  /\ m = "StartDTMF" => e.kind \in Keys

\* The phone sends a Release only after a BYE.
GoodUp(e, u) ==
  /\ u \in Seq(L3Message)
  /\ \A i \in DOMAIN u : GoodMessage(e, u[i])

Caller == {"calling", "cancelling", "up", "bye", "ended", "over"}

\* A caller has no 200 for an INVITE or a CANCEL, and one for a BYE only after the call.
GoodNet(e, pc, f, n, p) ==
  /\ f \in SIPMessage \cup {Empty}
  /\ n \subseteq SIPMessage
  /\ p \in PeerState
  /\ e.kind = "MT" => /\ p \in Caller
                      /\ \/ f \notin Status200 /\ n \cap Status200 = {}
                         \/ pc \in {"call", "done"} /\ e.sip # "Active"

CallInv ==
  /\ GoodTr(tr, thread.pc)
  /\ GoodThread(tr, thread)
  /\ GoodUp(tr, up)
  /\ GoodNet(tr, thread.pc, fifo, net, peer)
  /\ phone \in Phone

----------------------------------------------------------------------------
(* The transaction's helpers *)

\* f is e with another GSM side.
Alike(f, e) ==
  /\ f \in Transaction
  /\ f.kind = e.kind
  /\ f.sip = e.sip
  /\ f.saved = e.saved
  /\ f.removed = e.removed
  /\ f.age \in {0, e.age}

LEMMA GSMSide ==
  ASSUME NEW e \in Transaction
  PROVE  /\ \A s \in GSMState : /\ Alike(setGSM(e, s), e)
                                /\ setGSM(e, s).gsm = s /\ setGSM(e, s).age = 0
         /\ \A t \in Timer : Alike(setTimer(e, t), e) /\ Alike(resetTimer(e, t), e)
         /\ Alike(resetTimers(e), e)
         /\ Alike(GSMCleared(e), e) /\ GSMCleared(e).gsm = "Null"
<1>1. \A f \in Transaction, s \in GSMState :
        Alike(setGSM(f, s), f) /\ setGSM(f, s).gsm = s /\ setGSM(f, s).age = 0
  <2> TAKE f \in Transaction, s \in GSMState
  <2> DEFINE g == [f EXCEPT !.gsm = s, !.age = 0]
  <2>1. 0 \in 0..2
    OBVIOUS
  <2>2. g \in Transaction
    BY <2>1 DEF Transaction
  <2>3. /\ g.kind = f.kind /\ g.sip = f.sip /\ g.saved = f.saved /\ g.removed = f.removed
        /\ g.age = 0 /\ g.gsm = s
    BY DEF Transaction
  <2> QED  BY <2>2, <2>3 DEF setGSM, Alike
<1>2. \A t \in Timer : Alike(setTimer(e, t), e) /\ Alike(resetTimer(e, t), e)
  BY DEF setTimer, resetTimer, Alike, Transaction
<1>3. Alike(resetTimers(e), e)
  BY DEF resetTimers, Alike, Transaction
<1>4. Alike(GSMCleared(e), e) /\ GSMCleared(e).gsm = "Null"
  BY <1>1, <1>3 DEF GSMCleared, Alike, GSMState, Transaction
<1> QED  BY <1>1, <1>2, <1>3, <1>4

LEMMA SIPSide ==
  ASSUME NEW e \in Transaction
  PROVE  /\ \A s \in SIPState : /\ setSIP(e, s) \in Transaction
                                /\ setSIP(e, s).kind = e.kind
                                /\ setSIP(e, s).sip = s
                                /\ setSIP(e, s).saved = e.saved
                                /\ setSIP(e, s).removed = e.removed
                                /\ setSIP(e, s).gsm = e.gsm
                                /\ setSIP(e, s).age = e.age
         /\ \A m \in {"BYE", "CANCEL", "Response"} :
              /\ save(e, m) \in Transaction
              /\ save(e, m).kind = e.kind
              /\ save(e, m).sip = e.sip
              /\ save(e, m).saved = e.saved \cup {m}
              /\ save(e, m).removed = e.removed
              /\ save(e, m).gsm = e.gsm
              /\ save(e, m).age = e.age
  BY DEF setSIP, save, Transaction

LEMMA SetAndSave ==
  ASSUME NEW e \in Transaction, NEW s \in SIPState, NEW m \in {"BYE", "CANCEL", "Response"}
  PROVE  /\ save(setSIP(e, s), m) \in Transaction
         /\ save(setSIP(e, s), m).kind = e.kind
         /\ save(setSIP(e, s), m).sip = s
         /\ save(setSIP(e, s), m).saved = e.saved \cup {m}
         /\ save(setSIP(e, s), m).removed = e.removed
         /\ save(setSIP(e, s), m).gsm = e.gsm
         /\ save(setSIP(e, s), m).age = e.age
<1> DEFINE g == setSIP(e, s)
<1>1. /\ g \in Transaction /\ g.kind = e.kind /\ g.sip = s /\ g.saved = e.saved
      /\ g.removed = e.removed /\ g.gsm = e.gsm /\ g.age = e.age
  BY SIPSide
<1>2. /\ save(g, m) \in Transaction /\ save(g, m).kind = g.kind /\ save(g, m).sip = g.sip
      /\ save(g, m).saved = g.saved \cup {m} /\ save(g, m).removed = g.removed
      /\ save(g, m).gsm = g.gsm /\ save(g, m).age = g.age
  BY <1>1, SIPSide
<1> HIDE DEF g
<1>3. /\ save(g, m) \in Transaction /\ save(g, m).kind = e.kind /\ save(g, m).sip = s
      /\ save(g, m).saved = e.saved \cup {m} /\ save(g, m).removed = e.removed
      /\ save(g, m).gsm = e.gsm /\ save(g, m).age = e.age
  BY <1>1, <1>2
<1> QED  BY <1>3 DEF g

----------------------------------------------------------------------------
(* What a send and a step keep *)

LEMMA SendNet ==
  ASSUME NEW pc, GoodNet(tr, pc, fifo, net, peer), NEW m, Send(m)
  PROVE  /\ net' \subseteq SIPMessage
         /\ peer' \in PeerState
         /\ tr.kind = "MT" => /\ peer' \in Caller
                              /\ m \notin {"BYE", "INFO"} => net' \cap Status200 = net \cap Status200
<1>1. CASE UNCHANGED <<peer, net>>
  BY <1>1 DEF GoodNet
<1>2. CASE peer' = PeerAfter(m) /\ net' = net \cup PeerReply(m)
  <2>1. PeerAfter(m) \in PeerState /\ PeerReply(m) \subseteq SIPMessage
    BY DEF GoodNet, PeerAfter, PeerReply, PeerState, SIPMessage
  <2>2. ASSUME tr.kind = "MT"
        PROVE  /\ PeerAfter(m) \in Caller
               /\ m \notin {"BYE", "INFO"} => PeerReply(m) \cap Status200 = {}
    <3>1. peer \in Caller
      BY <2>2 DEF GoodNet
    <3>2. PeerAfter(m) \in Caller
      BY <3>1 DEF PeerAfter, Caller
    <3>3. ASSUME m \notin {"BYE", "INFO"} PROVE PeerReply(m) \subseteq {"Trying", "ACK", "BYE", "Error"}
      BY <2>2, <3>1, <3>3 DEF PeerReply, Caller
    <3> QED  BY <3>2, <3>3 DEF Status200
  <2>3. /\ net' \subseteq SIPMessage /\ peer' \in PeerState
        /\ tr.kind = "MT" => /\ peer' \in Caller
                             /\ m \notin {"BYE", "INFO"} => net' \cap Status200 = net \cap Status200
    BY <1>2, <2>1, <2>2 DEF GoodNet
  <2> QED  BY <2>3
<1> QED  BY <1>1, <1>2 DEF Send

\* The queue of the phone's messages, when what is saved is kept.
Kept(e) == e.kind = tr.kind /\ tr.saved \subseteq e.saved

LEMMA UpKept ==
  ASSUME GoodUp(tr, up), NEW e, Kept(e)
  PROVE  /\ GoodUp(e, up)
         /\ up # <<>> => GoodUp(e, Tail(up)) /\ GoodMessage(tr, Head(up))
<1>1. GoodUp(e, up)
  BY DEF GoodUp, Kept, GoodMessage
<1>2. ASSUME up # <<>> PROVE GoodUp(e, Tail(up)) /\ GoodMessage(tr, Head(up))
  <2>1. /\ Tail(up) \in Seq(L3Message) /\ Len(Tail(up)) = Len(up) - 1
        /\ \A i \in 1..Len(Tail(up)) : Tail(up)[i] = up[i + 1] /\ i + 1 \in DOMAIN up
        /\ Head(up) = up[1] /\ 1 \in DOMAIN up
    BY <1>2 DEF GoodUp
  <2>2. DOMAIN Tail(up) = 1..Len(Tail(up))
    BY <2>1
  <2> QED  BY <1>1, <2>1, <2>2 DEF GoodUp
<1> QED  BY <1>1, <1>2

LEMMA UpAppend ==
  ASSUME NEW e, NEW u, GoodUp(e, u), NEW m, GoodMessage(e, m)
  PROVE  GoodUp(e, Append(u, m)) /\ GoodUp(e, u \o <<m>>)
<1>1. u \in Seq(L3Message) /\ m \in L3Message
  BY DEF GoodUp, GoodMessage
<1>2. Append(u, m) \in Seq(L3Message) /\ Append(u, m) = u \o <<m>>
  BY <1>1
<1>3. DOMAIN Append(u, m) = 1..Len(u) + 1 /\ DOMAIN u = 1..Len(u)
  BY <1>1, <1>2
<1>4. ASSUME NEW i \in DOMAIN Append(u, m) PROVE GoodMessage(e, Append(u, m)[i])
  <2>1. Append(u, m)[i] = IF i = Len(u) + 1 THEN m ELSE u[i]
    BY <1>1, <1>3
  <2>2. i # Len(u) + 1 => i \in DOMAIN u
    BY <1>1, <1>3
  <2> QED  BY <2>1, <2>2 DEF GoodUp
<1> QED  BY <1>2, <1>4 DEF GoodUp
----------------------------------------------------------------------------
(* Clearing *)

\* A step of the thread that has made e of the transaction: what it leaves to be cleared.
InHand(e) ==
  /\ GoodTr(e, thread.pc)
  /\ Kept(e)
  /\ e.sip = "Active" => tr.sip = "Active" \/ e.kind = "MO"

Clears ==
  /\ GoodTr(tr', thread'.pc)
  /\ GoodThread(tr', thread')
  /\ GoodNet(tr', thread'.pc, fifo', net', peer')
  /\ Kept(tr')

\* A thread that goes on in its loop, or leaves, with no 200 that it would not have had.
LEMMA GoesOn ==
  ASSUME CallInv, thread.pc \in Loop, thread.wait = "none",
         NEW turn \in Turn, NEW w \in Wait, NEW pc \in {thread.pc, "done"}, NEW e, InHand(e),
         thread' = [pc |-> pc, turn |-> turn, wait |-> w], tr' = e,
         fifo' \in {fifo, Empty},
         GoodThread(e, thread'),
         net' \subseteq SIPMessage, peer' \in PeerState,
         tr.kind = "MT" => peer' \in Caller /\ net' \cap Status200 = net \cap Status200
  PROVE  Clears
<1>1. GoodTr(tr', thread'.pc)
  BY DEF InHand, GoodTr
<1>2. GoodNet(tr', thread'.pc, fifo', net', peer')
  BY DEF CallInv, GoodNet, InHand, Kept, Empty, Status200
<1> QED  BY <1>1, <1>2 DEF Clears, InHand, Kept

\* The waits that a step in hand may begin.
LEMMA WaitBegins ==
  ASSUME CallInv, thread.pc \in Loop, thread.wait = "none", NEW turn \in Turn, NEW e, InHand(e)
  PROVE  /\ GoodThread(e, [pc |-> thread.pc, turn |-> turn, wait |-> "none"])
         /\ GoodThread(e, [pc |-> thread.pc, turn |-> turn, wait |-> "ERRORACK"])
         /\ "CANCEL" \in e.saved =>
              \A w \in {"CANCELOK", "CANCELOK and 487"} :
                GoodThread(e, [pc |-> thread.pc, turn |-> turn, wait |-> w])
         /\ GoodThread(e, [pc |-> "done", turn |-> turn, wait |-> "none"])
<1>1. /\ thread \in Thread /\ e.kind \in KindOf(thread.pc) /\ e.kind \in {"MO", "MT"}
      /\ thread.pc \notin {"done", "crashed"}
  <2>1. e \in Transaction /\ e.kind = tr.kind
    BY DEF InHand, Kept, GoodTr
  <2>2. e.kind \in {"MO", "MT"}
    BY <2>1, CallAssumption DEF Transaction
  <2>3. thread \in Thread /\ tr.kind \in KindOf(thread.pc)
    BY DEF CallInv, GoodThread
  <2> QED  BY <2>1, <2>2, <2>3 DEF Loop
<1>2. KindOf("done") = {"MO", "MT"}
  BY DEF KindOf
<1> QED  BY <1>1, <1>2 DEF GoodThread, Thread, Wait

LEMMA SendsBYE ==
  ASSUME CallInv, thread.pc \in Loop, thread.wait = "none", fifo' \in {fifo, Empty},
         NEW turn \in Turn, NEW e, InHand(e), e.sip = "Active", MODSendBYE(e, turn)
  PROVE  Clears
<1>0. e \in Transaction /\ thread \in Thread
  BY DEF InHand, GoodTr, CallInv, GoodThread
<1> DEFINE f == save(setSIP(e, "MODClearing"), "BYE")
<1>1. /\ f \in Transaction /\ f.kind = e.kind /\ f.sip = "MODClearing"
      /\ f.saved = e.saved \cup {"BYE"}
  BY <1>0, SetAndSave DEF SIPState
<1>2. tr' = f /\ Send("BYE") /\ thread' = [thread EXCEPT !.wait = "BYEOK", !.turn = turn]
  BY DEF MODSendBYE, WaitFor
<1>3. thread' \in Thread /\ thread'.pc = thread.pc /\ thread'.wait = "BYEOK"
  BY <1>0, <1>2 DEF Thread, Wait
<1> HIDE DEF f
<1>4. GoodTr(f, thread.pc) /\ Kept(f)
  BY <1>1 DEF InHand, GoodTr, Kept
<1>5. GoodThread(f, thread')
  BY <1>1, <1>3, <1>4 DEF CallInv, GoodThread, Kept, Loop
<1>6. GoodNet(f, thread.pc, fifo', net', peer')
  <2>1. f.kind = "MT" => thread.pc \in {"call", "done"}
    BY <1>1 DEF InHand, GoodTr
  <2>2. GoodNet(tr, thread.pc, fifo, net, peer)
    BY DEF CallInv
  <2> QED  BY <1>1, <1>2, <1>4, <2>1, <2>2, SendNet DEF GoodNet, Empty, Status200, Kept
<1> QED  BY <1>2, <1>3, <1>4, <1>5, <1>6 DEF Clears

LEMMA SendsCANCEL ==
  ASSUME CallInv, thread.pc \in Loop, thread.wait = "none", fifo' \in {fifo, Empty},
         NEW turn \in Turn, NEW e, InHand(e), NEW w \in {"CANCELOK", "CANCELOK and 487"},
         MODSendCANCEL(e, w, turn)
  PROVE  Clears
<1>0. e \in Transaction /\ thread \in Thread
  BY DEF InHand, GoodTr, CallInv, GoodThread
<1> DEFINE f == save(setSIP(e, "MODCanceling"), "CANCEL")
<1>1. /\ f \in Transaction /\ f.kind = e.kind /\ f.sip = "MODCanceling"
      /\ f.saved = e.saved \cup {"CANCEL"}
  <2>1. "MODCanceling" \in SIPState /\ "CANCEL" \in {"BYE", "CANCEL", "Response"}
    BY DEF SIPState
  <2> QED  BY <1>0, <2>1, SetAndSave
<1>2. tr' = f /\ Send("CANCEL") /\ thread' = [thread EXCEPT !.wait = w, !.turn = turn]
  BY DEF MODSendCANCEL, WaitFor
<1>3. thread' = [pc |-> thread.pc, turn |-> turn, wait |-> w]
  BY <1>0, <1>2 DEF Thread
<1> HIDE DEF f
<1>4. InHand(f)
  BY <1>1 DEF InHand, GoodTr, Kept
<1>5. GoodThread(f, thread')
  BY <1>1, <1>3, <1>4, WaitBegins
<1>6. GoodNet(tr, thread.pc, fifo, net, peer)
  BY DEF CallInv
<1>7. /\ net' \subseteq SIPMessage /\ peer' \in PeerState
      /\ tr.kind = "MT" => peer' \in Caller /\ net' \cap Status200 = net \cap Status200
  <2>1. Send("CANCEL") /\ "CANCEL" \notin {"BYE", "INFO"}
    BY <1>2
  <2> QED  BY <1>6, <2>1, SendNet
<1>8. w \in Wait
  BY DEF Wait
<1> QED  BY <1>2, <1>3, <1>4, <1>5, <1>7, <1>8, GoesOn

LEMMA SendsERROR ==
  ASSUME CallInv, thread.pc \in Loop, thread.wait = "none", fifo' \in {fifo, Empty},
         NEW turn \in Turn, NEW e, InHand(e), MODSendERROR(e, turn)
  PROVE  Clears
<1>0. e \in Transaction /\ thread \in Thread
  BY DEF InHand, GoodTr, CallInv, GoodThread
<1> DEFINE f == setSIP(e, "MODCanceling")
<1>1. /\ f \in Transaction /\ f.kind = e.kind /\ f.sip = "MODCanceling" /\ f.saved = e.saved
  BY <1>0, SIPSide DEF SIPState
<1>2. tr' = f /\ Send("ERROR") /\ thread' = [thread EXCEPT !.wait = "ERRORACK", !.turn = turn]
  BY DEF MODSendERROR, WaitFor
<1>3. thread' = [pc |-> thread.pc, turn |-> turn, wait |-> "ERRORACK"]
  BY <1>0, <1>2 DEF Thread
<1> HIDE DEF f
<1>4. InHand(f)
  BY <1>1 DEF InHand, GoodTr, Kept
<1>5. GoodThread(f, thread')
  BY <1>3, <1>4, WaitBegins
<1>6. GoodNet(tr, thread.pc, fifo, net, peer)
  BY DEF CallInv
<1>7. /\ net' \subseteq SIPMessage /\ peer' \in PeerState
      /\ tr.kind = "MT" => peer' \in Caller /\ net' \cap Status200 = net \cap Status200
  BY <1>2, <1>6, SendNet
<1>8. "ERRORACK" \in Wait
  BY DEF Wait
<1> QED  BY <1>2, <1>3, <1>4, <1>5, <1>7, <1>8, GoesOn

LEMMA SIPClearing ==
  ASSUME CallInv, thread.pc \in Loop, thread.wait = "none", fifo' \in {fifo, Empty},
         NEW turn \in Turn, NEW e, InHand(e), forceSIPClearing(e, turn)
  PROVE  Clears
<1>0. e \in Transaction /\ thread \in Thread
  BY DEF InHand, GoodTr, CallInv, GoodThread
<1>1. CASE tr' = e /\ Then(turn) /\ UNCHANGED <<peer, net>>
  <2>1. GoodThread(e, [pc |-> thread.pc, turn |-> turn, wait |-> "none"])
    BY WaitBegins
  <2>2. GoodNet(tr, thread.pc, fifo, net, peer)
    BY DEF CallInv
  <2> QED  BY <1>1, <2>1, <2>2, GoesOn DEF Then, Go, Wait, GoodNet
<1>2. "CANCELOK" \in {"CANCELOK", "CANCELOK and 487"}
  OBVIOUS
<1> QED  BY <1>1, <1>2, SendsBYE, SendsCANCEL, SendsERROR DEF forceSIPClearing

LEMMA SideEffects ==
  ASSUME CallInv
  PROVE  /\ phone \in Phone
         /\ ReleaseChannel => phone' \in Phone /\ up' = up
         /\ \A e : forceGSMClearing(e) => phone' \in Phone /\ up' = up
  BY DEF CallInv, Phone, ReleaseChannel, forceGSMClearing

LEMMA CallClearing ==
  ASSUME CallInv, thread.pc \in Loop, thread.wait = "none", fifo' \in {fifo, Empty},
         NEW turn \in Turn, NEW e, InHand(e), abortCall(e, turn)
  PROVE  Clears /\ phone' \in Phone /\ up' = up
<1>1. phone' \in Phone /\ up' = up
  BY SideEffects DEF abortCall
<1>2. e \in Transaction
  BY DEF InHand, GoodTr
<1>3. InHand(GSMCleared(e))
  BY <1>2, GSMSide DEF InHand, GoodTr, Kept, Alike
<1>4. CASE deadOrRemoved(e)
  <2>1. tr' = GSMCleared(e) /\ Then(turn) /\ UNCHANGED <<peer, net>>
    BY <1>4 DEF abortCall
  <2>2. GoodThread(GSMCleared(e), [pc |-> thread.pc, turn |-> turn, wait |-> "none"])
    BY <1>3, WaitBegins
  <2>3. GoodNet(tr, thread.pc, fifo, net, peer)
    BY DEF CallInv
  <2> QED  BY <1>1, <1>3, <2>1, <2>2, <2>3, GoesOn DEF Then, Go, Wait, GoodNet
<1>5. CASE ~deadOrRemoved(e)
  BY <1>1, <1>3, <1>5, SIPClearing DEF abortCall
<1> QED  BY <1>4, <1>5

LEMMA CallRemoval ==
  ASSUME CallInv, thread.pc \in Loop, thread.wait = "none", fifo' \in {fifo, Empty},
         NEW e, InHand(e), abortAndRemoveCall(e)
  PROVE  CallInv'
<1>1. CASE deadOrRemoved(e)
  <2>1. tr' = e /\ thread' = [pc |-> "done", turn |-> "gsm", wait |-> "none"]
        /\ UNCHANGED <<phone, up, peer, net>>
    BY <1>1 DEF abortAndRemoveCall, Done, Go
  <2>2. GoodThread(e, [pc |-> "done", turn |-> "gsm", wait |-> "none"])
    BY WaitBegins DEF Turn
  <2>3. GoodNet(tr, thread.pc, fifo, net, peer)
    BY DEF CallInv
  <2>4. Clears
    BY <2>1, <2>2, <2>3, GoesOn DEF Wait, Turn, GoodNet
  <2> QED  BY <2>1, <2>4, UpKept DEF CallInv, Clears
<1>2. CASE ~deadOrRemoved(e)
  <2>1. Clears /\ phone' \in Phone /\ up' = up
    BY <1>2, CallClearing DEF abortAndRemoveCall, Turn
  <2> QED  BY <2>1, UpKept DEF CallInv, Clears
<1> QED  BY <1>1, <1>2

LEMMA SelfInHand ==
  ASSUME CallInv
  PROVE  InHand(tr) /\ tr \in Transaction
  BY DEF CallInv, InHand, GoodTr, Kept

\* A step that keeps the transaction's SIP side, and sends nothing but what lemma SendNet allows.
LEMMA LoopStep ==
  ASSUME CallInv, thread.pc \in Loop, thread.wait = "none", fifo' \in {fifo, Empty},
         NEW turn \in Turn, NEW e, InHand(e), tr' = e,
         NEW pc \in Loop \cup {"done"}, thread' = [pc |-> pc, turn |-> turn, wait |-> "none"],
         e.kind \in KindOf(pc),
         e.kind = "MT" /\ thread.pc = "call" => pc \in {"call", "done"},
         \/ UNCHANGED <<peer, net>>
         \/ \E m \in {"INVITE", "OK", "ACK", "BYEOK", "CANCEL", "ERROR"} : Send(m),
         phone' \in Phone, GoodUp(e, up')
  PROVE  CallInv'
<1>1. GoodNet(tr, thread.pc, fifo, net, peer)
  BY DEF CallInv
<1>2. /\ net' \subseteq SIPMessage /\ peer' \in PeerState
      /\ tr.kind = "MT" => peer' \in Caller /\ net' \cap Status200 = net \cap Status200
  BY <1>1, SendNet DEF GoodNet
<1>3. GoodTr(tr', thread'.pc)
  BY DEF InHand, GoodTr, Kept, Loop
<1>4. GoodThread(tr', thread')
  BY DEF GoodThread, Thread, Wait, Loop
<1>5. GoodNet(tr', thread'.pc, fifo', net', peer')
  BY <1>1, <1>2 DEF GoodNet, InHand, Kept, Empty, Status200, Loop
<1> QED  BY <1>3, <1>4, <1>5 DEF CallInv

----------------------------------------------------------------------------
(* callManagementDispatchGSM() *)

LEMMA QueueServed ==
  ASSUME CallInv, up # <<>>, NEW e, Kept(e)
  PROVE  /\ GoodUp(e, Tail(up)) /\ GoodMessage(tr, Head(up))
         /\ GoodUp(e, AnswerRelease)
         /\ PhoneAfterRelease \in Phone /\ [phone EXCEPT !.link = FALSE] \in Phone
<1>1. GoodUp(e, Tail(up)) /\ GoodMessage(tr, Head(up))
  BY UpKept DEF CallInv
<1>2. Reply("Release") \in {<<>>, <<"ReleaseComplete">>}
  BY DEF Reply
<1>3. GoodUp(e, Tail(up) \o <<"ReleaseComplete">>)
  BY <1>1, UpAppend DEF GoodMessage, L3Message
<1>4. Tail(up) \o <<>> = Tail(up)
  BY <1>1 DEF GoodUp
<1>5. PhoneAfterRelease \in Phone /\ [phone EXCEPT !.link = FALSE] \in Phone
  BY DEF CallInv, Phone, PhoneAfterRelease, PhoneState
<1> QED  BY <1>1, <1>2, <1>3, <1>4, <1>5 DEF AnswerRelease

LEMMA DispatchStep ==
  ASSUME NoKeys, CallInv, thread.pc \in Loop, thread.wait = "none",
         NEW yes \in Turn, NEW no \in Turn, callManagementDispatchGSM(yes, no)
  PROVE  CallInv'
<1> DEFINE m == Head(up)
<1>0. /\ tr \in Transaction /\ thread \in Thread /\ up # <<>> /\ fifo' = fifo /\ InHand(tr)
      /\ tr.kind \in KindOf(thread.pc) /\ Kept(tr) /\ GoodMessage(tr, m)
  BY SelfInHand, QueueServed DEF CallInv, GoodThread, callManagementDispatchGSM, InHand
<1>1. ASSUME NEW n \in L3Message, dispatchSetup(n, no)
      PROVE  CallInv'
  <2>1. Alike(SetUp(n), tr)
    <3>1. /\ {"MTCConfirmed", "CallReceived", "Active"} \subseteq GSMState
          /\ {"301", "303"} \subseteq Timer
      BY DEF GSMState, Timer
    <3>2. ASSUME NEW f \in Transaction, Alike(f, tr)
          PROVE  /\ \A st \in GSMState : Alike(setGSM(f, st), tr)
                 /\ \A t \in Timer : Alike(setTimer(f, t), tr) /\ Alike(resetTimer(f, t), tr)
                 /\ Alike(resetTimers(f), tr)
      <4>1. \A g : Alike(g, f) => Alike(g, tr)
        BY <3>2 DEF Alike
      <4> QED  BY <4>1, GSMSide
    <3>3. Alike(tr, tr) /\ \A f : Alike(f, tr) => f \in Transaction
      BY <1>0 DEF Alike
    <3> QED  BY <3>1, <3>2, <3>3 DEF SetUp
  <2>2. InHand(SetUp(n))
    BY <1>0, <2>1 DEF Alike, InHand, GoodTr, Kept
  <2>3. /\ tr' = SetUp(n) /\ up' = Tail(up) /\ UNCHANGED <<phone, peer, net>>
        /\ thread' = [pc |-> thread.pc, turn |-> no, wait |-> "none"]
    BY <1>1 DEF dispatchSetup, Then, Go
  <2>4. GoodUp(SetUp(n), up') /\ phone' \in Phone
    BY <1>0, <2>2, <2>3, QueueServed DEF InHand, CallInv
  <2> QED  BY <1>0, <2>2, <2>3, <2>4, LoopStep DEF InHand, Kept
<1>2. ASSUME dispatchDisconnect(no) PROVE CallInv'
  <2> DEFINE e == setGSM(setTimer(resetTimers(tr), "308"), "ReleaseRequest")
  <2>1. Alike(e, tr)
    BY <1>0, GSMSide DEF Alike, GSMState, Timer
  <2>2. e \in Transaction
    BY <2>1 DEF Alike
  <2>3. phone' = PhoneAfterRelease /\ up' = AnswerRelease
    BY <1>2 DEF dispatchDisconnect
  <2>4. \/ tr.sip = "Active" /\ MODSendBYE(e, no)
        \/ tr.sip # "Active" /\ (MODSendCANCEL(e, "CANCELOK and 487", no) \/ MODSendERROR(e, no))
    BY <1>2 DEF dispatchDisconnect
  <2> HIDE DEF e
  <2>5. InHand(e)
    BY <1>0, <2>1 DEF Alike, InHand, GoodTr, Kept
  <2>6. Clears
    <3>1. e.sip = tr.sip
      BY <2>1 DEF Alike
    <3> QED  BY <1>0, <2>4, <2>5, <3>1, SendsBYE, SendsCANCEL, SendsERROR
  <2>7. GoodUp(tr', up') /\ phone' \in Phone
    BY <1>0, <2>3, <2>6, QueueServed DEF Clears
  <2> QED  BY <2>6, <2>7 DEF CallInv, Clears
<1>3. ASSUME dispatchRelease(yes), m = "Release" PROVE CallInv'
  <2> DEFINE e == setSIP(setGSM(resetTimers(tr), "Null"), "Cleared")
  <2>1. "BYE" \in tr.saved
    BY <1>0, <1>3 DEF GoodMessage
  <2>2. /\ tr' = e /\ Send("BYEOK") /\ phone' = [phone EXCEPT !.link = FALSE] /\ up' = Tail(up)
        /\ thread' = [pc |-> thread.pc, turn |-> yes, wait |-> "none"]
    BY <1>3, <2>1 DEF dispatchRelease, MTDSendBYEOK, Then, Go
  <2>3. e \in Transaction /\ e.kind = tr.kind /\ e.sip = "Cleared" /\ e.saved = tr.saved
    <3>1. Alike(setGSM(resetTimers(tr), "Null"), tr)
      BY <1>0, GSMSide DEF Alike, GSMState
    <3> QED  BY <3>1, SIPSide DEF Alike, SIPState
  <2> HIDE DEF e
  <2>4. InHand(e)
    BY <2>3 DEF InHand, GoodTr, Kept
  <2>5. GoodUp(e, up') /\ phone' \in Phone
    BY <1>0, <2>2, <2>4, QueueServed DEF InHand
  <2> QED  BY <1>0, <2>2, <2>3, <2>4, <2>5, LoopStep
<1>4. ASSUME dispatchReleaseComplete(yes) PROVE CallInv'
  <2> DEFINE e == setGSM(resetTimers(tr), "Null")
  <2>1. Alike(e, tr)
    BY <1>0, GSMSide DEF Alike, GSMState
  <2>2. /\ tr' = e /\ UNCHANGED <<peer, net>> /\ phone' = [phone EXCEPT !.link = FALSE]
        /\ up' = Tail(up) /\ thread' = [pc |-> thread.pc, turn |-> yes, wait |-> "none"]
    BY <1>4 DEF dispatchReleaseComplete, Then, Go
  <2> HIDE DEF e
  <2>3. InHand(e) /\ e.kind = tr.kind
    BY <1>0, <2>1 DEF Alike, InHand, GoodTr, Kept
  <2>4. GoodUp(e, up') /\ phone' \in Phone
    BY <1>0, <2>2, <2>3, QueueServed DEF InHand
  <2> QED  BY <1>0, <2>2, <2>3, <2>4, LoopStep
<1>5. ASSUME dispatchStatus(yes) PROVE CallInv'
  <2> DEFINE g == setGSM(setTimer(resetTimers(tr), "308"), "ReleaseRequest")
             e == save(setSIP(g, "MODCanceling"), "CANCEL")
  <2>1. g \in Transaction /\ Alike(g, tr)
    BY <1>0, GSMSide DEF Alike, GSMState, Timer
  <2>2. /\ tr' = e /\ Send("CANCEL") /\ phone' = PhoneAfterRelease /\ up' = AnswerRelease
        /\ thread' = [pc |-> thread.pc, turn |-> yes, wait |-> "none"]
    BY <1>5 DEF dispatchStatus, Then, Go
  <2> HIDE DEF g
  <2>3. /\ e \in Transaction /\ e.kind = tr.kind /\ e.sip = "MODCanceling"
        /\ e.saved = tr.saved \cup {"CANCEL"}
    BY <2>1, SetAndSave DEF Alike, SIPState
  <2> HIDE DEF e
  <2>4. InHand(e)
    BY <2>3 DEF InHand, GoodTr, Kept
  <2>5. GoodUp(e, up') /\ phone' \in Phone
    BY <1>0, <2>2, <2>4, QueueServed DEF InHand
  <2> QED  BY <1>0, <2>2, <2>3, <2>4, <2>5, LoopStep
<1>6. ASSUME dispatchDetach(yes) PROVE CallInv'
  <2>1. Clears
    BY <1>0, <1>6, SIPClearing DEF dispatchDetach
  <2>2. GoodUp(tr', up') /\ phone' \in Phone
    BY <1>0, <1>6, <2>1, QueueServed DEF Clears, dispatchDetach
  <2> QED  BY <2>1, <2>2 DEF CallInv, Clears
<1>7. ASSUME dispatchDTMF(no), m = "StartDTMF" PROVE CallInv'
  <2>1. tr.kind \in Keys
    BY <1>0, <1>7 DEF GoodMessage
  <2>2. /\ thread' = [thread EXCEPT !.wait = "INFO", !.turn = no] /\ Send("INFO")
        /\ up' = Tail(up) /\ UNCHANGED <<tr, phone>>
    BY <1>7 DEF dispatchDTMF, WaitFor
  <2>3. thread' \in Thread /\ thread'.pc = thread.pc /\ thread'.wait = "INFO"
    BY <1>0, <2>2 DEF Thread, Wait
  <2>4. GoodThread(tr', thread') /\ GoodTr(tr', thread'.pc)
    BY <2>1, <2>2, <2>3 DEF CallInv, GoodThread, Loop
  <2>5. GoodNet(tr', thread'.pc, fifo', net', peer')
    <3>1. GoodNet(tr, thread.pc, fifo, net, peer)
      BY DEF CallInv
    <3> QED  BY <1>0, <2>1, <2>2, <2>3, <3>1, SendNet DEF GoodNet, NoKeys
  <2>6. GoodUp(tr', up') /\ phone' \in Phone
    BY <1>0, <2>2, QueueServed DEF CallInv
  <2> QED  BY <2>4, <2>5, <2>6 DEF CallInv
<1> QED  BY <1>1, <1>2, <1>3, <1>4, <1>5, <1>6, <1>7 DEF callManagementDispatchGSM, GoodMessage, L3Message

----------------------------------------------------------------------------
(* updateGSMSignalling() and the loops *)

LEMMA ThreadAt ==
  ASSUME CallInv, NEW pc \in Loop, NEW turn, At(pc, turn)
  PROVE  /\ thread.pc = pc /\ thread.pc \in Loop /\ thread.wait = "none" /\ thread.turn = turn
         /\ tr \in Transaction /\ tr.kind \in KindOf(pc) /\ InHand(tr) /\ GoodUp(tr, up)
         /\ phone \in Phone /\ Kept(tr)
  BY SelfInHand DEF CallInv, At, GoodThread, InHand

\* A loop begins its next turn, or the thread leaves, with nothing sent by SIP.
LEMMA TurnStep ==
  ASSUME CallInv, thread.pc \in Loop, thread.wait = "none", fifo' \in {fifo, Empty},
         NEW turn \in Turn, NEW e, InHand(e), tr' = e, NEW pc \in {thread.pc, "done"},
         thread' = [pc |-> pc, turn |-> turn, wait |-> "none"],
         UNCHANGED <<up, peer, net>>, phone' \in Phone
  PROVE  CallInv'
<1>1. e.kind \in KindOf(thread.pc) /\ e.kind \in KindOf("done")
  BY WaitBegins DEF InHand, Kept, CallInv, GoodThread
<1>2. GoodUp(e, up')
  BY UpKept DEF CallInv, InHand
<1> QED  BY <1>1, <1>2, LoopStep

LEMMA StepQuitDefunct ==
  ASSUME CallInv, QuitDefunct
  PROVE  CallInv'
<1>1. thread.pc \in Loop
  BY DEF QuitDefunct, Defunct, Loop
<1> QED  BY <1>1, TurnStep, SelfInHand, SideEffects DEF QuitDefunct, Done, Go, Turn, ReleaseChannel

LEMMA StepSignalling ==
  ASSUME NoKeys, CallInv, updateGSMSignalling
  PROVE  CallInv'
<1>1. thread.pc \in Loop /\ thread.wait = "none" /\ InHand(tr) /\ phone \in Phone
  BY SelfInHand DEF updateGSMSignalling, Cleared, TimerExpired, Dispatched, NothingRead, Updates, At,
     CallInv
<1>2. AfterGSM \in Turn /\ "cleared" \in Turn
  BY DEF AfterGSM, Turn
<1>3. CASE Cleared
  BY <1>1, <1>2, <1>3, TurnStep DEF Cleared, Then, Go
<1>4. CASE TimerExpired
  <2>1. Clears /\ phone' \in Phone /\ up' = up
    BY <1>1, <1>2, <1>4, CallClearing DEF TimerExpired
  <2> QED  BY <2>1, UpKept DEF CallInv, Clears
<1>5. CASE Dispatched
  BY <1>1, <1>2, <1>5, DispatchStep DEF Dispatched
<1>6. CASE NothingRead
  BY <1>1, <1>2, <1>6, TurnStep DEF NothingRead, Then, Go
<1> QED  BY <1>3, <1>4, <1>5, <1>6 DEF updateGSMSignalling

LEMMA StepSetupCleared ==
  ASSUME CallInv, SetupCleared
  PROVE  CallInv'
<1>1. thread.pc \in Loop /\ thread.wait = "none" /\ InHand(tr) /\ phone \in Phone
  BY SelfInHand DEF SetupCleared, At, Loop, CallInv
<1>2. CASE ReleaseChannel /\ Done /\ UNCHANGED <<tr, peer, net, fifo>>
  BY <1>1, <1>2, TurnStep, SideEffects DEF Done, Go, Turn
<1>3. CASE abortAndRemoveCall(tr) /\ UNCHANGED fifo
  BY <1>1, <1>3, CallRemoval
<1> QED  BY <1>2, <1>3 DEF SetupCleared

\* The transaction after MTCCheckForCancel().
LEMMA StepCancelled ==
  ASSUME CallInv, thread.pc \in Loop, thread.wait = "none", NEW e, InHand(e), CancelledOrFailed(e)
  PROVE  CallInv'
<1> DEFINE f == IF fifo = "CANCEL" THEN save(setSIP(e, "Canceled"), "CANCEL")
                ELSE setSIP(e, "Fail")
<1>1. e \in Transaction
  BY DEF InHand, GoodTr
<1>2. "Canceled" \in SIPState /\ "Fail" \in SIPState /\ "CANCEL" \in {"BYE", "CANCEL", "Response"}
  BY DEF SIPState
<1>3. /\ f \in Transaction /\ f.kind = e.kind /\ f.sip \in {"Canceled", "Fail"}
      /\ e.saved \subseteq f.saved
  <2>1. CASE fifo = "CANCEL"
    <3> DEFINE g == save(setSIP(e, "Canceled"), "CANCEL")
    <3>1. /\ g \in Transaction /\ g.kind = e.kind /\ g.sip = "Canceled"
          /\ g.saved = e.saved \cup {"CANCEL"}
      BY <1>1, <1>2, SetAndSave
    <3>2. f = g
      BY <2>1
    <3> HIDE DEF f, g
    <3> QED  BY <3>1, <3>2
  <2>2. CASE fifo # "CANCEL"
    BY <1>1, <1>2, <2>2, SIPSide
  <2> QED  BY <2>1, <2>2
<1>4. abortAndRemoveCall(f) /\ fifo' = Empty
  BY DEF CancelledOrFailed
<1> HIDE DEF f
<1>5. InHand(f)
  BY <1>3 DEF InHand, GoodTr, Kept
<1> QED  BY <1>4, <1>5, CallRemoval

LEMMA StepConfirm ==
  ASSUME CallInv, Confirm
  PROVE  CallInv'
<1>1. /\ thread.pc = "confirm" /\ thread.pc \in Loop /\ thread.wait = "none" /\ InHand(tr)
      /\ tr \in Transaction /\ GoodUp(tr, up) /\ phone \in Phone
  BY ThreadAt DEF Confirm, Loop
<1>2. CASE CancelledOrFailed(tr)
  BY <1>1, <1>2, StepCancelled
<1>3. CASE /\ IF tr.gsm = "MTCConfirmed" THEN Go("assign", "gsm") /\ UNCHANGED tr
              ELSE Then("gsm") /\ tr' = setSIP(tr, "Proceeding")
           /\ UNCHANGED <<phone, up, fifo, net, peer>>
  <2>1. CASE tr.gsm = "MTCConfirmed"
    <3>1. tr.kind \in KindOf("assign")
      BY <1>1, CallAssumption DEF KindOf, Transaction
    <3> QED  BY <1>1, <1>3, <2>1, <3>1, LoopStep DEF Go, Turn, Loop
  <2>2. CASE tr.gsm # "MTCConfirmed"
    <3>1. InHand(setSIP(tr, "Proceeding"))
      BY <1>1, SIPSide DEF InHand, GoodTr, Kept, SIPState
    <3> QED  BY <1>1, <1>3, <2>2, <3>1, TurnStep DEF Then, Go, Turn
  <2> QED  BY <2>1, <2>2
<1> QED  BY <1>2, <1>3 DEF Confirm

LEMMA StepAssign ==
  ASSUME NoKeys, CallInv, AssignStray \/ Assigned \/ AssignmentFails \/ AssignmentLost
  PROVE  CallInv'
<1>1. /\ thread.pc = "assign" /\ thread.pc \in Loop /\ thread.wait = "none" /\ InHand(tr)
      /\ tr \in Transaction /\ GoodUp(tr, up) /\ phone \in Phone
  BY ThreadAt DEF AssignStray, Assigned, AssignmentFails, AssignmentLost, Loop
<1>2. CASE AssignStray
  BY <1>1, <1>2, DispatchStep DEF AssignStray, Turn
<1>3. CASE Assigned
  <2>1. CASE ReleaseChannel /\ Done
    BY <1>1, <1>3, <2>1, TurnStep, SideEffects DEF Assigned, Done, Go, Turn
  <2>2. CASE tr.kind = "MO" /\ Go("ringing", "gsm") /\ UNCHANGED <<phone, up>>
    BY <1>1, <1>3, <2>2, LoopStep DEF Assigned, Go, Turn, Loop, KindOf
  <2>3. CASE tr.kind # "MO" /\ Go("alerting", IF tr.gsm = "Active" THEN "sip" ELSE "gsm")
             /\ UNCHANGED <<phone, up>>
    <3>1. tr.kind \in KindOf("alerting")
      BY <1>1, <2>3, CallAssumption DEF KindOf, Transaction
    <3> QED  BY <1>1, <1>3, <2>3, <3>1, LoopStep DEF Assigned, Go, Turn, Loop
  <2> QED  BY <1>3, <2>1, <2>2, <2>3 DEF Assigned
<1>4. CASE AssignmentFails
  <2>1. Clears
    BY <1>1, <1>4, SIPClearing DEF AssignmentFails, Turn
  <2> QED  BY <1>4, <2>1, SideEffects, UpKept DEF AssignmentFails, CallInv, Clears
<1>5. CASE AssignmentLost
  BY <1>1, <1>5, TurnStep DEF AssignmentLost, Done, Go, Turn
<1> QED  BY <1>2, <1>3, <1>4, <1>5

LEMMA StepMTCSendOK ==
  ASSUME CallInv, thread.pc \in {"alerting", "connecting"}, thread.wait = "none",
         MTCSendOK(tr), UNCHANGED <<phone, up, fifo>>
  PROVE  CallInv'
<1>1. tr \in Transaction /\ tr.kind \in KindOf(thread.pc) /\ GoodUp(tr, up) /\ phone \in Phone
  BY DEF CallInv, GoodTr, GoodThread
<1>2. tr.kind = "MT"
  BY <1>1 DEF KindOf
<1> DEFINE e == setSIP(tr, "Connecting")
<1>3. e \in Transaction /\ e.kind = "MT" /\ e.sip = "Connecting" /\ e.saved = tr.saved
  BY <1>1, <1>2, SIPSide DEF SIPState
<1>4. tr' = e /\ Send("OK") /\ thread' = [pc |-> "connecting", turn |-> "gsm", wait |-> "none"]
  BY DEF MTCSendOK, Go
<1> HIDE DEF e
<1>5. InHand(e) /\ GoodUp(e, up)
  BY <1>1, <1>2, <1>3, UpKept DEF InHand, GoodTr, Kept
<1>6. e.kind \in KindOf("connecting")
  BY <1>3 DEF KindOf
<1> QED  BY <1>1, <1>3, <1>4, <1>5, <1>6, LoopStep DEF Loop, Turn

LEMMA StepAwaitConnect ==
  ASSUME CallInv, AwaitConnect
  PROVE  CallInv'
<1> DEFINE e == IF tr.gsm = "CallReceived" THEN setSIP(tr, "Proceeding") ELSE tr
<1>1. /\ thread.pc = "alerting" /\ thread.pc \in Loop /\ thread.wait = "none" /\ InHand(tr)
      /\ tr \in Transaction /\ GoodUp(tr, up) /\ phone \in Phone
  BY ThreadAt DEF AwaitConnect, Loop
<1>2. InHand(e)
  BY <1>1, SIPSide DEF InHand, GoodTr, Kept, SIPState
<1>3. \/ MTCSendOK(tr) /\ UNCHANGED <<phone, up, fifo>>
      \/ abortAndRemoveCall(e) /\ UNCHANGED fifo
      \/ CancelledOrFailed(e)
      \/ tr' = e /\ Then("gsm") /\ UNCHANGED <<phone, up, fifo, net, peer>>
  BY DEF AwaitConnect
<1> HIDE DEF e
<1>4. CASE MTCSendOK(tr) /\ UNCHANGED <<phone, up, fifo>>
  BY <1>1, <1>4, StepMTCSendOK
<1>5. CASE abortAndRemoveCall(e) /\ UNCHANGED fifo
  BY <1>1, <1>2, <1>5, CallRemoval
<1>6. CASE CancelledOrFailed(e)
  BY <1>1, <1>2, <1>6, StepCancelled
<1>7. CASE tr' = e /\ Then("gsm") /\ UNCHANGED <<phone, up, fifo, net, peer>>
  BY <1>1, <1>2, <1>7, TurnStep DEF Then, Go, Turn
<1> QED  BY <1>3, <1>4, <1>5, <1>6, <1>7

LEMMA L3Send ==
  ASSUME CallInv, NEW m \in {"Alerting", "Connect", "ConnectAck", "Disconnect"}, SendL3(m),
         NEW e, Kept(e), m = "Disconnect" => "BYE" \in e.saved
  PROVE  phone' \in Phone /\ GoodUp(e, up')
<1>1. phone \in Phone /\ GoodUp(e, up) /\ up \in Seq(L3Message)
  BY UpKept DEF CallInv, GoodUp
<1>2. CASE UNCHANGED <<phone, up>>
  BY <1>1, <1>2
<1>3. CASE /\ phone' = [phone EXCEPT !.cc = Reaction(m), !.owes = @ \/ Unexpected(m)]
           /\ up' = up \o Reply(m)
  <2>1. Reaction(m) \in PhoneState
    BY <1>1 DEF Reaction, Phone, PhoneState
  <2>2. (phone.owes \/ Unexpected(m)) \in BOOLEAN
    BY <1>1 DEF Phone, Unexpected
  <2>3. phone' \in Phone
    BY <1>1, <1>3, <2>1, <2>2 DEF Phone
  <2>4. \/ Reply(m) = <<>>
        \/ Reply(m) = <<"Release">> /\ m = "Disconnect"
        \/ Reply(m) = <<"ConnectAck">>
    BY DEF Reply
  <2>5. CASE Reply(m) = <<>>
    <3>1. up \o <<>> = up
      BY <1>1
    <3> QED  BY <1>1, <1>3, <2>3, <2>5, <3>1
  <2>6. CASE Reply(m) = <<"Release">> /\ m = "Disconnect"
    <3>1. GoodMessage(e, "Release")
      BY <2>6 DEF GoodMessage, L3Message
    <3> QED  BY <1>1, <1>3, <2>3, <2>6, <3>1, UpAppend
  <2>7. CASE Reply(m) = <<"ConnectAck">>
    <3>1. GoodMessage(e, "ConnectAck")
      BY DEF GoodMessage, L3Message
    <3> QED  BY <1>1, <1>3, <2>3, <2>7, <3>1, UpAppend
  <2> QED  BY <2>4, <2>5, <2>6, <2>7
<1> QED  BY <1>2, <1>3 DEF SendL3

\* The ACK makes an MT call active: none of the 200s that would be fatal is there.
LEMMA StepAwaitACK ==
  ASSUME CallInv, AwaitACK
  PROVE  CallInv'
<1>1. /\ thread.pc = "connecting" /\ thread.pc \in Loop /\ thread.wait = "none" /\ InHand(tr)
      /\ tr \in Transaction /\ tr.kind \in KindOf("connecting") /\ phone \in Phone
      /\ thread \in Thread
  BY ThreadAt DEF AwaitACK, Loop, CallInv, GoodThread
<1>2. CASE MTCSendOK(tr) /\ UNCHANGED <<phone, up, fifo>>
  BY <1>1, <1>2, StepMTCSendOK
<1>3. CASE /\ fifo = "ACK" /\ fifo' = Empty /\ tr' = setSIP(tr, "Active") /\ SendL3("ConnectAck")
           /\ Go("call", "gsm") /\ UNCHANGED <<net, peer>>
  <2> DEFINE e == setSIP(tr, "Active")
  <2>1. e \in Transaction /\ e.kind = tr.kind /\ e.sip = "Active" /\ e.saved = tr.saved
    BY <1>1, SIPSide DEF SIPState
  <2>2. tr' = e /\ thread' = [pc |-> "call", turn |-> "gsm", wait |-> "none"]
    BY <1>3 DEF Go
  <2> HIDE DEF e
  <2>3. e.kind = "MT"
    BY <1>1, <2>1 DEF KindOf
  <2>4. phone' \in Phone /\ GoodUp(e, up')
    BY <1>3, <2>1, L3Send DEF Kept
  <2>5. GoodTr(e, "call")
    BY <2>1, <2>3 DEF GoodTr
  <2>6. GoodThread(e, thread')
    BY <2>2, <2>3 DEF GoodThread, Thread, Loop, Turn, Wait, KindOf
  <2>7. GoodNet(e, "call", Empty, net, peer)
    <3>1. GoodNet(tr, thread.pc, fifo, net, peer)
      BY DEF CallInv
    <3> QED  BY <1>1, <2>1, <1>3, <3>1 DEF GoodNet, Empty, Status200
  <2> QED  BY <1>3, <2>2, <2>4, <2>5, <2>6, <2>7 DEF CallInv
<1>4. CASE CancelledOrFailed(tr)
  BY <1>1, <1>4, StepCancelled
<1> QED  BY <1>2, <1>3, <1>4 DEF AwaitACK

----------------------------------------------------------------------------
(* The controller of a call that the phone starts *)

LEMMA Checked ==
  ASSUME CallInv, tr.kind = "MO"
  PROVE  /\ CheckedForOK(fifo) \in Transaction
         /\ CheckedForOK(fifo).kind = "MO"
         /\ CheckedForOK(fifo).sip \in {"Proceeding", "Ringing", "Active", "Busy", "Fail"}
         /\ InHand(CheckedForOK(fifo))
<1> DEFINE s == CASE fifo = "Trying" -> "Proceeding"
                  [] fifo = "Ringing" -> "Ringing"
                  [] fifo \in Status200 -> "Active"
                  [] fifo = "Busy" -> "Busy"
                  [] OTHER -> "Fail"
           e == save(setSIP(tr, s), "Response")
<1>1. s \in {"Proceeding", "Ringing", "Active", "Busy", "Fail"}
  BY DEF Status200
<1>2. e = CheckedForOK(fifo) /\ tr \in Transaction
  BY SelfInHand DEF CheckedForOK
<1> HIDE DEF s
<1>3. s \in SIPState /\ "Response" \in {"BYE", "CANCEL", "Response"}
  BY <1>1 DEF SIPState
<1>4. /\ e \in Transaction /\ e.kind = "MO" /\ e.sip = s
      /\ e.saved = tr.saved \cup {"Response"}
  BY <1>2, <1>3, SetAndSave
<1> HIDE DEF e
<1>5. InHand(e)
  BY <1>1, <1>4 DEF InHand, GoodTr, Kept
<1> QED  BY <1>1, <1>2, <1>4, <1>5

LEMMA Heard ==
  ASSUME CallInv, tr.kind = "MO"
  PROVE  InHand(NothingHeard)
  BY SelfInHand, SIPSide DEF NothingHeard, InHand, GoodTr, Kept, SIPState

LEMMA StepAwaitRinging ==
  ASSUME CallInv, AwaitRinging
  PROVE  CallInv'
<1>1. /\ thread.pc = "ringing" /\ thread.pc \in Loop /\ thread.wait = "none" /\ InHand(tr)
      /\ tr \in Transaction /\ tr.kind \in KindOf("ringing") /\ phone \in Phone /\ GoodUp(tr, up)
  BY ThreadAt DEF AwaitRinging, Loop
<1>2. tr.kind = "MO"
  BY <1>1 DEF KindOf
<1>3. CASE abortAndRemoveCall(tr) /\ UNCHANGED fifo
  BY <1>1, <1>3, CallRemoval
<1>4. CASE /\ tr' = NothingHeard
           /\ UNCHANGED <<net, peer>> \/ Send("INVITE")
           /\ Then("gsm")
           /\ UNCHANGED <<phone, up, fifo>>
  <2>1. InHand(NothingHeard) /\ GoodUp(NothingHeard, up)
    BY <1>2, Heard, UpKept DEF InHand, CallInv
  <2>2. NothingHeard.kind \in KindOf("ringing")
    BY <1>1, <2>1 DEF InHand, Kept
  <2> QED  BY <1>1, <1>2, <1>4, <2>1, <2>2, LoopStep DEF Then, Go, Turn
<1> DEFINE e == CheckedForOK(fifo)
<1>5. /\ InHand(e) /\ e \in Transaction /\ e.kind = "MO" /\ GoodUp(e, up)
  BY <1>2, Checked, UpKept DEF InHand, CallInv
<1>6. CASE /\ fifo' = Empty /\ tr' = setGSM(e, "CallReceived") /\ SendL3("Alerting")
           /\ Go("answer", "sip") /\ UNCHANGED <<net, peer>>
  <2> DEFINE f == setGSM(e, "CallReceived")
  <2> HIDE DEF e
  <2>1. InHand(f) /\ f.kind = "MO"
    BY <1>5, GSMSide DEF Alike, GSMState, InHand, GoodTr, Kept
  <2>2. tr' = f /\ thread' = [pc |-> "answer", turn |-> "sip", wait |-> "none"]
    BY <1>6 DEF Go
  <2> HIDE DEF f
  <2>3. phone' \in Phone /\ GoodUp(f, up')
    BY <1>6, <2>1, L3Send DEF InHand
  <2> QED  BY <1>1, <1>2, <1>6, <2>1, <2>2, <2>3, LoopStep DEF Turn, Loop, KindOf
<1>7. CASE /\ fifo' = Empty /\ tr' = setGSM(e, "CallReceived")
           /\ Go("answer", "check") /\ UNCHANGED <<phone, up, net, peer>>
  <2> DEFINE f == setGSM(e, "CallReceived")
  <2> HIDE DEF e
  <2>1. InHand(f) /\ f.kind = "MO"
    BY <1>5, GSMSide DEF Alike, GSMState, InHand, GoodTr, Kept
  <2>2. tr' = f /\ thread' = [pc |-> "answer", turn |-> "check", wait |-> "none"]
    BY <1>7 DEF Go
  <2> HIDE DEF f
  <2>3. phone' \in Phone /\ GoodUp(f, up')
    BY <1>1, <1>7, <2>1, UpKept DEF InHand, CallInv
  <2> QED  BY <1>1, <1>2, <1>7, <2>1, <2>2, <2>3, LoopStep DEF Turn, Loop, KindOf
<1>8. CASE fifo' = Empty /\ tr' = e /\ Then("gsm") /\ UNCHANGED <<phone, up, net, peer>>
  <2> HIDE DEF e
  <2> QED  BY <1>1, <1>5, <1>8, TurnStep DEF Then, Go, Turn
<1>9. CASE fifo' = Empty /\ abortAndRemoveCall(e)
  <2> HIDE DEF e
  <2> QED  BY <1>1, <1>5, <1>9, CallRemoval
<1>10. CASE /\ fifo' = Empty /\ tr' = GSMCleared(e) /\ forceGSMClearing(e) /\ Then("remove")
            /\ UNCHANGED <<net, peer>>
  <2> HIDE DEF e
  <2>1. InHand(GSMCleared(e))
    BY <1>5, GSMSide DEF Alike, InHand, GoodTr, Kept
  <2>2. phone' \in Phone /\ up' = up
    BY <1>10, SideEffects
  <2> QED  BY <1>1, <1>10, <2>1, <2>2, TurnStep DEF Then, Go, Turn
<1> QED  BY <1>3, <1>4, <1>6, <1>7, <1>8, <1>9, <1>10 DEF AwaitRinging

LEMMA StepAwaitAnswer ==
  ASSUME CallInv, AwaitAnswer
  PROVE  CallInv'
<1>1. /\ thread.pc = "answer" /\ thread.pc \in Loop /\ thread.wait = "none" /\ phone \in Phone
      /\ tr.kind \in KindOf("answer")
  BY ThreadAt DEF AwaitAnswer, Loop
<1>2. tr.kind = "MO"
  BY <1>1 DEF KindOf
<1>3. PICK e : InHand(e) /\ tr' = e /\ fifo' \in {fifo, Empty}
  BY <1>2, Heard, Checked DEF AwaitAnswer
<1> QED  BY <1>1, <1>3, TurnStep DEF AwaitAnswer, Then, Go, Turn

LEMMA StepAnswered ==
  ASSUME CallInv, Answered
  PROVE  CallInv'
<1>1. /\ thread.pc = "answer" /\ thread.pc \in Loop /\ thread.wait = "none" /\ InHand(tr)
      /\ tr \in Transaction /\ tr.kind \in KindOf("answer") /\ phone \in Phone
  BY ThreadAt DEF Answered, Loop
<1>2. tr.kind = "MO"
  BY <1>1 DEF KindOf
<1>3. CASE abortAndRemoveCall(tr) /\ UNCHANGED fifo
  BY <1>1, <1>3, CallRemoval
<1>4. CASE Then("sip") /\ UNCHANGED <<tr, phone, up, net, peer, fifo>>
  BY <1>1, <1>4, TurnStep DEF Then, Go, Turn
<1>5. CASE /\ tr.sip = "Active" /\ UNCHANGED fifo
           /\ IF "Response" \notin tr.saved THEN Crash
              ELSE /\ tr' = setGSM(setTimer(tr, "313"), "ConnectIndication")
                   /\ SendL3("Connect")
                   /\ Send("ACK")
                   /\ Go("ack", "gsm")
  <2>1. "Response" \in tr.saved
    BY <1>2, <1>5 DEF CallInv, GoodTr
  <2> DEFINE e == setGSM(setTimer(tr, "313"), "ConnectIndication")
  <2>2. InHand(e) /\ e.kind = "MO"
    <3>1. Alike(e, tr)
      BY <1>1, GSMSide DEF Alike, GSMState, Timer
    <3> HIDE DEF e
    <3> QED  BY <1>1, <1>2, <3>1 DEF Alike, InHand, GoodTr, Kept
  <2>3. tr' = e /\ SendL3("Connect") /\ Send("ACK")
        /\ thread' = [pc |-> "ack", turn |-> "gsm", wait |-> "none"]
    BY <1>5, <2>1 DEF Go
  <2> HIDE DEF e
  <2>4. phone' \in Phone /\ GoodUp(e, up')
    BY <2>2, <2>3, L3Send DEF InHand
  <2> QED  BY <1>1, <1>2, <1>5, <2>2, <2>3, <2>4, LoopStep DEF Turn, Loop, KindOf
<1> QED  BY <1>3, <1>4, <1>5 DEF Answered

LEMMA StepAcknowledged ==
  ASSUME CallInv, Acknowledged
  PROVE  CallInv'
<1>1. /\ thread.pc = "ack" /\ thread.pc \in Loop /\ thread.wait = "none" /\ InHand(tr)
      /\ tr \in Transaction /\ tr.kind \in KindOf("ack") /\ phone \in Phone /\ GoodUp(tr, up)
  BY ThreadAt DEF Acknowledged, Loop
<1>2. tr.kind = "MO" /\ tr.kind \in KindOf("call")
  BY <1>1 DEF KindOf
<1>3. /\ thread' = [pc |-> IF tr.gsm = "Active" THEN "call" ELSE "ack", turn |-> "gsm", wait |-> "none"]
      /\ UNCHANGED <<tr, phone, up, fifo, net, peer>>
  BY DEF Acknowledged, Go
<1>4. (IF tr.gsm = "Active" THEN "call" ELSE "ack") \in {"call", "ack"}
  OBVIOUS
<1> QED  BY <1>1, <1>2, <1>3, <1>4, LoopStep DEF Turn, Loop

----------------------------------------------------------------------------
(* callManagementLoop() *)

LEMMA StepRadioFailure ==
  ASSUME CallInv, RadioFailure
  PROVE  CallInv'
<1>1. /\ thread.pc \in Loop /\ thread.wait = "none" /\ InHand(tr) /\ phone \in Phone
  BY ThreadAt DEF RadioFailure, Loop
<1>2. Clears
  BY <1>1, SIPClearing DEF RadioFailure, Turn
<1> QED  BY <1>1, <1>2, UpKept DEF RadioFailure, CallInv, Clears

LEMMA PollStep ==
  ASSUME CallInv, thread.pc = "call", thread.wait = "none", fifo' \in {fifo, Empty},
         NEW e, InHand(e), Polled(e),
         UNCHANGED <<peer, net>> \/ \E m \in {"ACK", "BYEOK"} : Send(m),
         phone' \in Phone, GoodUp(e, up')
  PROVE  CallInv'
<1>1. PICK turn \in Turn : /\ thread' = [pc |-> "call", turn |-> turn, wait |-> "none"]
                          /\ tr' = e
  BY DEF Polled, Then, Go, Turn
<1>2. e.kind \in KindOf("call")
  BY WaitBegins DEF CallInv, GoodThread, InHand, Kept
<1> QED  BY <1>1, <1>2, LoopStep DEF Loop

LEMMA BYEStep ==
  ASSUME CallInv, thread.pc = "call", thread.wait = "none", fifo' \in {fifo, Empty},
         NEW e, InHand(e), "BYE" \in e.saved, ActOnBYE(e)
  PROVE  CallInv'
<1>1. e \in Transaction /\ Kept(e) /\ GoodUp(e, up) /\ phone \in Phone
  BY UpKept DEF InHand, GoodTr, CallInv
<1>2. CASE Polled(setSIP(e, "Cleared")) /\ Send("BYEOK") /\ UNCHANGED <<phone, up>>
  <2> DEFINE f == setSIP(e, "Cleared")
  <2>1. InHand(f)
    BY <1>1, SIPSide DEF SIPState, InHand, GoodTr, Kept
  <2>2. Polled(f)
    BY <1>2
  <2> HIDE DEF f
  <2>3. GoodUp(f, up)
    BY <2>1, UpKept DEF InHand, CallInv
  <2> QED  BY <1>1, <1>2, <2>1, <2>2, <2>3, PollStep
<1>3. CASE /\ Polled(setGSM(setTimer(e, "305"), "DisconnectIndication"))
           /\ SendL3("Disconnect")
           /\ UNCHANGED <<net, peer>>
  <2> DEFINE f == setGSM(setTimer(e, "305"), "DisconnectIndication")
  <2>1. Alike(f, e)
    BY <1>1, GSMSide DEF Alike, GSMState, Timer
  <2>2. Polled(f)
    BY <1>3
  <2> HIDE DEF f
  <2>3. InHand(f)
    BY <1>1, <2>1 DEF Alike, InHand, GoodTr, Kept
  <2>4. phone' \in Phone /\ GoodUp(f, up')
    BY <1>3, <2>1, <2>3, L3Send DEF Alike, InHand
  <2> QED  BY <1>3, <2>2, <2>3, <2>4, PollStep
<1> QED  BY <1>2, <1>3 DEF ActOnBYE

LEMMA StepSIPSignalling ==
  ASSUME CallInv, updateSIPSignalling
  PROVE  CallInv'
<1>1. /\ thread.pc = "call" /\ thread.wait = "none" /\ InHand(tr) /\ tr \in Transaction
      /\ phone \in Phone /\ GoodUp(tr, up)
  BY ThreadAt DEF updateSIPSignalling, Loop
<1>2. CASE /\ fifo' = Empty
           /\ ActOnBYE(save(setSIP(tr, "MTDClearing"), "BYE"))
  <2> DEFINE e == save(setSIP(tr, "MTDClearing"), "BYE")
  <2>1. /\ e \in Transaction /\ e.kind = tr.kind /\ e.sip = "MTDClearing"
        /\ e.saved = tr.saved \cup {"BYE"}
    <3>1. "MTDClearing" \in SIPState /\ "BYE" \in {"BYE", "CANCEL", "Response"}
      BY DEF SIPState
    <3> QED  BY <1>1, <3>1, SetAndSave
  <2>2. ActOnBYE(e)
    BY <1>2
  <2> HIDE DEF e
  <2>3. InHand(e)
    BY <2>1 DEF InHand, GoodTr, Kept
  <2> QED  BY <1>1, <1>2, <2>1, <2>2, <2>3, BYEStep
<1>3. CASE fifo' \in {fifo, Empty} /\ Polled(tr) /\ (Send("ACK") \/ UNCHANGED <<net, peer>>)
           /\ UNCHANGED <<phone, up>>
  BY <1>1, <1>3, PollStep
<1>4. CASE tr.sip = "Active" /\ fifo \in Status200 /\ "Response" \notin tr.saved
  <2>1. tr.kind \in {"MO", "MT"}
    BY <1>1, CallAssumption DEF Transaction
  <2> QED  BY <1>4, <2>1 DEF CallInv, GoodTr, GoodNet
<1>5. CASE tr.sip = "MTDClearing" /\ ActOnBYE(tr) /\ UNCHANGED fifo
  BY <1>1, <1>5, BYEStep DEF CallInv, GoodTr
<1> QED  BY <1>2, <1>3, <1>4, <1>5 DEF updateSIPSignalling

LEMMA StepTermination ==
  ASSUME CallInv, CheckTermination
  PROVE  CallInv'
<1>1. /\ thread.pc \in Loop /\ thread.wait = "none" /\ InHand(tr) /\ tr \in Transaction
      /\ phone \in Phone
  BY ThreadAt DEF CheckTermination, Loop
<1>2. CASE abortCall([tr EXCEPT !.terminate = FALSE], "remove") /\ UNCHANGED fifo
  <2>1. InHand([tr EXCEPT !.terminate = FALSE])
    BY <1>1 DEF InHand, GoodTr, Kept, Transaction
  <2>2. Clears /\ phone' \in Phone /\ up' = up
    BY <1>1, <1>2, <2>1, CallClearing DEF Turn
  <2> QED  BY <2>2, UpKept DEF CallInv, Clears
<1>3. CASE Then("gsm") /\ UNCHANGED <<tr, phone, up, net, peer, fifo>>
  BY <1>1, <1>3, TurnStep DEF Then, Go, Turn
<1> QED  BY <1>2, <1>3 DEF CheckTermination

LEMMA StepReturns ==
  ASSUME CallInv, Remove \/ Leave
  PROVE  CallInv'
<1>1. /\ thread.pc \in Loop /\ thread.wait = "none" /\ InHand(tr) /\ tr \in Transaction
      /\ phone \in Phone
  BY SelfInHand DEF Remove, Leave, CallInv
<1>2. InHand([tr EXCEPT !.removed = TRUE, !.age = 0])
  <2> DEFINE e == [tr EXCEPT !.removed = TRUE, !.age = 0]
  <2>1. 0 \in 0..2 /\ TRUE \in BOOLEAN
    OBVIOUS
  <2>2. e \in Transaction /\ e.kind = tr.kind /\ e.sip = tr.sip /\ e.saved = tr.saved
    BY <1>1, <2>1 DEF Transaction
  <2> HIDE DEF e
  <2>3. InHand(e)
    BY <1>1, <2>2 DEF InHand, GoodTr, Kept
  <2> QED  BY <2>3 DEF e
<1> QED  BY <1>1, <1>2, TurnStep DEF Remove, Leave, Done, Go, Turn

----------------------------------------------------------------------------
(* The waits *)

\* A wait ends with e of the transaction, and the thread goes on with turn.
LEMMA WaitOver ==
  ASSUME CallInv, thread.wait \notin {"none", "INFO"}, NEW e,
         e \in Transaction, Kept(e),
         e.sip \in {tr.sip, "Cleared", "Canceled"}, tr' = e,
         thread' = [thread EXCEPT !.wait = After(@)],
         fifo' \in {fifo, Empty}, UNCHANGED <<phone, up, net, peer>>
  PROVE  CallInv'
<1>1. /\ thread \in Thread /\ thread.pc \notin {"done", "crashed"} /\ After(thread.wait) \in {"none", "487"}
      /\ tr.kind \in KindOf(thread.pc)
  BY DEF CallInv, GoodThread, After
<1>2. /\ thread' \in Thread /\ thread'.pc = thread.pc /\ thread'.wait \in {"none", "487"}
  BY <1>1 DEF Thread, Wait
<1>3. GoodTr(tr', thread'.pc)
  BY <1>2 DEF CallInv, GoodTr, Kept
<1>4. GoodThread(tr', thread')
  BY <1>1, <1>2 DEF GoodThread, Kept
<1>5. GoodUp(tr', up')
  BY UpKept DEF CallInv
<1>6. GoodNet(tr', thread'.pc, fifo', net', peer')
  BY <1>2 DEF CallInv, GoodNet, Kept, Empty, Status200
<1> QED  BY <1>3, <1>4, <1>5, <1>6 DEF CallInv

LEMMA WaitedTr ==
  ASSUME CallInv, NEW w
  PROVE  /\ Waited(w, tr) \in Transaction /\ Waited(w, tr).kind = tr.kind
         /\ Waited(w, tr).saved = tr.saved /\ Waited(w, tr).removed = tr.removed
         /\ Waited(w, tr).gsm = tr.gsm /\ Waited(w, tr).age = tr.age
         /\ Waited(w, tr).sip \in {tr.sip, "Cleared", "Canceled"}
<1>1. tr \in Transaction /\ "Cleared" \in SIPState /\ "Canceled" \in SIPState
  BY SelfInHand DEF SIPState
<1>2. \/ Waited(w, tr) = setSIP(tr, "Cleared")
      \/ Waited(w, tr) = setSIP(tr, "Canceled")
      \/ Waited(w, tr) = tr
  BY DEF Waited
<1> QED  BY <1>1, <1>2, SIPSide

LEMMA StepWaitReads ==
  ASSUME CallInv, WaitReads
  PROVE  CallInv'
<1>1. tr \in Transaction
  BY SelfInHand
<1>2. CASE UNCHANGED <<tr, thread, phone, up, net, peer>> /\ fifo' = Empty
  BY <1>2 DEF CallInv, GoodNet, Empty, Status200, GoodThread, GoodTr, GoodUp, GoodMessage
<1>3. CASE /\ thread.wait \notin {"none", "INFO"} /\ fifo' = Empty
           /\ tr' = IF thread.wait = "487" THEN tr ELSE save(Waited(thread.wait, tr), "Response")
           /\ thread' = [thread EXCEPT !.wait = After(@)]
           /\ UNCHANGED <<phone, up, net, peer>>
  <2>1. /\ tr' \in Transaction /\ Kept(tr')
        /\ tr'.sip \in {tr.sip, "Cleared", "Canceled"}
    <3>1. CASE tr' = tr
      BY <1>1, <3>1 DEF Kept
    <3>2. CASE tr' = save(Waited(thread.wait, tr), "Response")
      <4> DEFINE g == Waited(thread.wait, tr)
      <4>1. /\ g \in Transaction /\ g.kind = tr.kind /\ g.saved = tr.saved
            /\ g.sip \in {tr.sip, "Cleared", "Canceled"}
        BY WaitedTr
      <4>2. tr' = save(g, "Response")
        BY <3>2
      <4> HIDE DEF g
      <4> QED  BY <4>1, <4>2, SIPSide DEF Kept
    <3> QED  BY <1>3, <3>1, <3>2
  <2> QED  BY <1>3, <2>1, WaitOver
<1> QED  BY <1>2, <1>3 DEF WaitReads

LEMMA StepWaitEnds ==
  ASSUME CallInv, WaitEnds
  PROVE  CallInv'
<1>1. CASE thread.wait # "INFO"
  BY <1>1, WaitOver, WaitedTr DEF WaitEnds, Kept
<1>2. CASE thread.wait = "INFO"
  <2>1. tr' = tr /\ thread' = [thread EXCEPT !.wait = "none"] /\ thread \in Thread
        /\ UNCHANGED <<phone, up, fifo, net, peer>>
    BY <1>2 DEF WaitEnds, Waited, After, CallInv, GoodThread
  <2>2. thread' \in Thread /\ thread'.pc = thread.pc /\ thread'.wait = "none"
    BY <2>1 DEF Thread, Wait
  <2> QED  BY <2>1, <2>2 DEF CallInv, GoodTr, GoodThread, GoodUp, GoodMessage, GoodNet
<1> QED  BY <1>1, <1>2

LEMMA StepWaitRepeats ==
  ASSUME NoKeys, CallInv, WaitRepeats
  PROVE  CallInv'
<1>1. GoodThread(tr, thread) /\ GoodTr(tr, thread.pc) /\ GoodNet(tr, thread.pc, fifo, net, peer)
  BY DEF CallInv
<1>2. thread.wait \in {"BYEOK", "CANCELOK", "CANCELOK and 487", "ERRORACK", "INFO"}
  BY <1>1 DEF WaitRepeats, GoodThread, Thread, Wait
<1>3. PICK m : /\ m = "BYE" => thread.wait = "BYEOK"
               /\ m = "INFO" => thread.wait = "INFO"
               /\ Send(m) /\ UNCHANGED <<tr, thread, phone, up, fifo>>
  BY <1>1, <1>2 DEF WaitRepeats, GoodThread
<1>4. GoodNet(tr, thread.pc, fifo, net', peer')
  <2>1. CASE m \in {"BYE", "INFO"}
    <3>1. tr.kind = "MT" => tr.sip = "MODClearing" /\ thread.pc \in {"call", "done"}
      BY <1>1, <1>3, <2>1 DEF GoodThread, GoodTr, NoKeys
    <3> QED  BY <1>1, <1>3, <3>1, SendNet DEF GoodNet
  <2>2. CASE m \notin {"BYE", "INFO"}
    BY <1>1, <1>3, <2>2, SendNet DEF GoodNet
  <2> QED  BY <2>1, <2>2
<1> QED  BY <1>3, <1>4 DEF CallInv, GoodTr, GoodThread, GoodUp, GoodMessage, GoodNet

----------------------------------------------------------------------------
(* Time, the network, the remote party and the phone *)

LEMMA StepTime ==
  ASSUME CallInv, Tick \/ Terminate
  PROVE  CallInv'
<1>1. tr \in Transaction /\ InHand(tr) /\ UNCHANGED <<thread, phone, up, fifo, net, peer>>
  BY SelfInHand DEF Tick, Terminate
<1>2. /\ tr' \in Transaction /\ tr'.kind = tr.kind /\ tr'.sip = tr.sip /\ tr'.saved = tr.saved
  <2>1. CASE Tick
    <3>1. tr.age + 1 \in 0..2 /\ tr' = [tr EXCEPT !.age = tr.age + 1]
      BY <1>1, <2>1 DEF Tick, Transaction
    <3> QED  BY <1>1, <3>1 DEF Transaction
  <2>2. CASE Terminate
    BY <1>1, <2>2 DEF Terminate, Transaction
  <2> QED  BY <2>1, <2>2
<1> QED  BY <1>1, <1>2 DEF CallInv, GoodTr, GoodThread, GoodUp, GoodMessage, GoodNet

\* A step that leaves the transaction and the thread alone.
LEMMA OthersStep ==
  ASSUME CallInv, UNCHANGED <<tr, thread>>, phone' \in Phone, GoodUp(tr, up'),
         GoodNet(tr, thread.pc, fifo', net', peer')
  PROVE  CallInv'
  BY DEF CallInv, GoodTr, GoodThread, GoodUp, GoodMessage, GoodNet

LEMMA StepNetwork ==
  ASSUME CallInv, NEW m \in SIPMessage, Deliver(m) \/ Lose(m)
  PROVE  CallInv'
<1>1. GoodNet(tr, thread.pc, fifo, net, peer)
  BY DEF CallInv
<1>2. GoodNet(tr, thread.pc, fifo', net', peer')
  BY <1>1 DEF GoodNet, Deliver, Lose, Empty, Status200
<1> QED  BY <1>2, OthersStep DEF Deliver, Lose, CallInv

LEMMA StepRemoteParty ==
  ASSUME CallInv, RemoteParty
  PROVE  CallInv'
<1>1. GoodNet(tr, thread.pc, fifo, net, peer)
  BY DEF CallInv
<1>2. CASE PeerGivesUp
  <2>1. GoodNet(tr, thread.pc, fifo', net', peer')
    BY <1>1, <1>2 DEF PeerGivesUp, GoodNet, Caller, PeerState
  <2> QED  BY <1>2, <2>1, OthersStep DEF PeerGivesUp, CallInv
<1>3. ASSUME NEW next \in PeerState, NEW m \in SIPMessage, PeerSends(next, m),
             peer \in Caller => next \in Caller /\ m \notin Status200
      PROVE  CallInv'
  <2>1. GoodNet(tr, thread.pc, fifo', net', peer')
    BY <1>1, <1>3 DEF PeerSends, GoodNet
  <2> QED  BY <1>3, <2>1, OthersStep DEF PeerSends, CallInv
<1>4. peer \in PeerState
  BY <1>1 DEF GoodNet
<1> QED  BY <1>2, <1>3, <1>4 DEF RemoteParty, PeerRings, PeerAnswers, PeerRejects, PeerCancels,
           PeerHangsUp, PeerRepeats, Caller, PeerState, SIPMessage, Status200

LEMMA StepUser ==
  ASSUME CallInv, User
  PROVE  CallInv'
<1>1. GoodNet(tr, thread.pc, fifo, net, peer) /\ GoodUp(tr, up) /\ phone \in Phone
  BY DEF CallInv
<1>2. ASSUME NEW cc \in PhoneState, NEW m, PhoneSends(cc, m), GoodMessage(tr, m)
      PROVE  CallInv'
  <2>1. phone' \in Phone
    BY <1>1, <1>2 DEF PhoneSends, Phone
  <2>2. GoodUp(tr, up')
    BY <1>1, <1>2, UpAppend DEF PhoneSends
  <2> QED  BY <1>1, <1>2, <2>1, <2>2, OthersStep DEF PhoneSends
<1>3. CASE PhoneReports
  <2>1. phone' \in Phone
    BY <1>1, <1>3 DEF PhoneReports, Phone
  <2>2. GoodUp(tr, up')
    BY <1>1, <1>3, UpAppend DEF PhoneReports, GoodMessage, L3Message
  <2> QED  BY <1>1, <1>3, <2>1, <2>2, OthersStep DEF PhoneReports
<1>4. CASE LinkFails
  <2>1. phone' \in Phone
    BY <1>1, <1>4 DEF LinkFails, Phone
  <2> QED  BY <1>1, <1>4, <2>1, OthersStep DEF LinkFails
<1>5. CASE UserPressesKey
  <2>1. GoodMessage(tr, "StartDTMF") /\ "active" \in PhoneState
    BY <1>5 DEF UserPressesKey, GoodMessage, L3Message, PhoneState
  <2> QED  BY <1>2, <1>5, <2>1 DEF UserPressesKey
<1>6. \A m \in {"CallConfirmed", "Alerting", "Connect", "ReleaseComplete", "Disconnect", "IMSIDetach"} :
        GoodMessage(tr, m)
  BY DEF GoodMessage, L3Message
<1>7. {"confirmed", "alerting", "connecting", "null", "discSent"} \subseteq PhoneState
  BY DEF PhoneState
<1> QED  BY <1>2, <1>3, <1>4, <1>5, <1>6, <1>7 DEF User, PhoneConfirms, PhoneAlerts, UserAnswers,
           PhoneRejects, UserHangsUp, UserSwitchesOff

----------------------------------------------------------------------------
(* The theorems *)

LEMMA InitCall == Init => CallInv
<1> SUFFICES ASSUME NEW kind \in Kind,
                    tr = NewTransaction(kind),
                    thread = [pc |-> IF kind = "MO" THEN "assign" ELSE "confirm", turn |-> "gsm",
                              wait |-> "none"],
                    phone = [cc |-> IF kind = "MO" THEN "proceeding" ELSE "present",
                             link |-> TRUE, owes |-> FALSE],
                    up = <<>>, fifo = Empty,
                    \/ kind = "MO" /\ peer = "none" /\ net = {}
                    \/ kind = "MO" /\ peer = "invited" /\ net = {"Trying"}
                    \/ kind = "MT" /\ peer = "calling" /\ net = {}
             PROVE  CallInv
  BY DEF Init
<1>1. kind \in {"MO", "MT"}
  BY CallAssumption
<1>2. tr \in Transaction /\ tr.kind = kind /\ tr.sip \in {"Starting", "Proceeding"}
  BY <1>1 DEF NewTransaction, Transaction, GSMState, SIPState, Timer
<1>3. GoodTr(tr, thread.pc)
  BY <1>2 DEF GoodTr
<1>4. GoodThread(tr, thread)
  BY <1>1, <1>2 DEF GoodThread, Thread, Loop, Turn, Wait, KindOf
<1>5. GoodUp(tr, up)
  BY DEF GoodUp
<1>6. GoodNet(tr, thread.pc, fifo, net, peer)
  BY <1>1, <1>2 DEF GoodNet, Empty, SIPMessage, PeerState, Caller, Status200
<1>7. phone \in Phone
  BY DEF Phone, PhoneState
<1> QED  BY <1>3, <1>4, <1>5, <1>6, <1>7 DEF CallInv

LEMMA NextCall ==
  ASSUME NoKeys, CallInv, [Next]_vars
  PROVE  CallInv'
<1>1. CASE Controller
  BY <1>1, StepQuitDefunct, StepSignalling, StepSetupCleared, StepConfirm, StepAssign,
     StepAwaitConnect, StepAwaitACK, StepAwaitRinging, StepAwaitAnswer, StepAnswered,
     StepAcknowledged, StepRadioFailure, StepSIPSignalling, StepTermination, StepWaitReads,
     StepWaitRepeats, StepWaitEnds, StepReturns DEF Controller
<1>2. CASE UNCHANGED vars
  BY <1>2 DEF vars, CallInv, GoodTr, GoodThread, GoodUp, GoodMessage, GoodNet
<1> QED  BY <1>1, <1>2, StepTime, StepNetwork, StepRemoteParty, StepUser DEF Next

\* Every reachable state has the invariant, for any bound on the messages under way and however
\* long the set-up takes, if keys go to the remote party only in calls that the phone started.
THEOREM CallInvariant == NoKeys => (Spec => []CallInv)
<1> SUFFICES ASSUME NoKeys PROVE Spec => []CallInv
  OBVIOUS
<1>1. CallInv /\ [Next]_vars => CallInv'
  BY NextCall
<1> QED  BY <1>1, InitCall, PTL DEF Spec

\* The types of the transaction, the thread, the phone, the queues and the remote party, TypeOK.
THEOREM CallTypes == NoKeys => (Spec => []TypeOK)
<1>1. CallInv => TypeOK
  BY DEF CallInv, GoodTr, GoodThread, GoodUp, GoodNet, TypeOK
<1> QED  BY <1>1, CallInvariant, PTL

\* No assertion of the SIP engine fails, NoFailedAssertion, whatever is lost, repeated or late:
\* every message that is sent again or answered has been saved.
THEOREM NeverFails == NoKeys => (Spec => []NoFailedAssertion)
<1>1. CallInv => NoFailedAssertion
  BY DEF CallInv, GoodThread, NoFailedAssertion
<1> QED  BY <1>1, CallInvariant, PTL

----------------------------------------------------------------------------
(* The end of the call *)

Clearing == {"BYEOK", "CANCELOK", "CANCELOK and 487", "ERRORACK"}

\* How the SIP side of a transaction ends that is removed.
EndOfSIP(e) == SIPFinished(e) \/ (e.sip = "Busy" /\ e.gsm = "Null")

\* A transaction is removed, and one that is dead seen from callManagementLoop(), only when the
\* SIP side has ended or a wait will end it; whoever is about to leave has released the channel.
EndInv ==
  /\ tr.removed => thread.pc = "done" /\ EndOfSIP(tr) /\ ~phone.link
  /\ thread.pc \in Loop /\ thread.turn = "remove" => EndOfSIP(tr) \/ thread.wait \in Clearing
  /\ thread.pc = "call" /\ thread.turn \in {"sip", "cleared", "check"} /\ dead(tr)
       => SIPFinished(tr) \/ thread.wait \in Clearing
  /\ tr.gsm = "Null" => ~phone.link
  /\ thread.turn \in {"remove", "leave"} => ~phone.link
  /\ thread.turn = "cleared" /\ phone.link
       => /\ tr.age = 0 /\ tr.gsm = "ReleaseRequest" /\ tr.sip = "MODCanceling"
          /\ thread.wait = "none"
  /\ Quick => /\ thread.pc = "done" => ~phone.link
              /\ thread.pc \notin {"call", "done"} => tr.age = 0

LEMMA YoungAlive ==
  ASSUME NEW e, e.age = 0, ~e.removed
  PROVE  ~dead(e) /\ ~deadOrRemoved(e)
  BY DEF dead, deadOrRemoved

\* In its loop the thread has its transaction.
LEMMA AtWork ==
  ASSUME CallInv, EndInv, thread.pc \in Loop
  PROVE  /\ tr \in Transaction /\ ~tr.removed /\ thread \in Thread /\ phone \in Phone
         /\ thread.pc \notin {"done", "crashed"}
  BY DEF CallInv, EndInv, GoodTr, GoodThread, Loop

\* What forceSIPClearing() leaves.
LEMMA SIPEnds ==
  ASSUME thread \in Thread, NEW turn, NEW e \in Transaction, forceSIPClearing(e, turn)
  PROVE  /\ thread'.pc = thread.pc /\ thread'.turn = turn
         /\ tr'.removed = e.removed /\ tr'.gsm = e.gsm /\ tr'.age = e.age
         /\ \/ thread'.wait \in Clearing
            \/ tr' = e /\ thread'.wait = "none" /\ (deadOrRemoved(e) \/ SIPFinished(e))
<1>1. CASE tr' = e /\ Then(turn) /\ (deadOrRemoved(e) \/ SIPFinished(e))
  BY <1>1 DEF Then, Go
<1>2. \A w \in Clearing : thread' = [thread EXCEPT !.wait = w, !.turn = turn] =>
        thread'.pc = thread.pc /\ thread'.turn = turn /\ thread'.wait \in Clearing
  BY DEF Thread
<1>3. /\ "MODClearing" \in SIPState /\ "MODCanceling" \in SIPState
      /\ "BYE" \in {"BYE", "CANCEL", "Response"} /\ "CANCEL" \in {"BYE", "CANCEL", "Response"}
  BY DEF SIPState
<1>4. CASE MODSendBYE(e, turn)
  <2>1. tr' = save(setSIP(e, "MODClearing"), "BYE") /\ thread' = [thread EXCEPT !.wait = "BYEOK", !.turn = turn]
    BY <1>4 DEF MODSendBYE, WaitFor
  <2> QED  BY <1>2, <1>3, <2>1, SetAndSave DEF Clearing
<1>5. CASE MODSendCANCEL(e, "CANCELOK", turn)
  <2>1. /\ tr' = save(setSIP(e, "MODCanceling"), "CANCEL")
        /\ thread' = [thread EXCEPT !.wait = "CANCELOK", !.turn = turn]
    BY <1>5 DEF MODSendCANCEL, WaitFor
  <2> QED  BY <1>2, <1>3, <2>1, SetAndSave DEF Clearing
<1>6. CASE MODSendERROR(e, turn)
  <2>1. tr' = setSIP(e, "MODCanceling") /\ thread' = [thread EXCEPT !.wait = "ERRORACK", !.turn = turn]
    BY <1>6 DEF MODSendERROR, WaitFor
  <2> QED  BY <1>2, <1>3, <2>1, SIPSide DEF Clearing
<1> QED  BY <1>1, <1>4, <1>5, <1>6 DEF forceSIPClearing

\* What abortCall() leaves.
LEMMA CallEnds ==
  ASSUME thread \in Thread, phone \in Phone, NEW turn, NEW e \in Transaction, ~e.removed,
         e.gsm = "Null" => ~phone.link, abortCall(e, turn)
  PROVE  /\ thread'.pc = thread.pc /\ thread'.turn = turn
         /\ ~tr'.removed /\ tr'.gsm = "Null" /\ tr'.age \in {0, e.age} /\ ~phone'.link
         /\ \/ thread'.wait \in Clearing
            \/ thread'.wait = "none" /\ tr'.sip = e.sip /\ (dead(e) \/ SIPFinished(tr'))
<1> DEFINE f == GSMCleared(e)
<1>1. Alike(f, e) /\ f.gsm = "Null" /\ f \in Transaction
  BY GSMSide DEF Alike
<1>2. ~phone'.link
  BY DEF abortCall, forceGSMClearing, ReleaseChannel, Phone
<1>3. CASE deadOrRemoved(e)
  <2>1. tr' = f /\ thread' = [pc |-> thread.pc, turn |-> turn, wait |-> "none"]
    BY <1>3 DEF abortCall, Then, Go
  <2> HIDE DEF f
  <2> QED  BY <1>1, <1>2, <1>3, <2>1 DEF Alike, deadOrRemoved
<1>4. CASE ~deadOrRemoved(e)
  <2>1. forceSIPClearing(f, turn)
    BY <1>4 DEF abortCall
  <2>2. ~deadOrRemoved(f)
    <3>1. CASE e.gsm = "Null"
      BY <1>4, <3>1 DEF GSMCleared
    <3>2. CASE e.gsm # "Null"
      <4>1. f = setGSM(resetTimers(e), "Null") /\ resetTimers(e) \in Transaction
        BY <3>2, GSMSide DEF GSMCleared, Alike
      <4>2. f.age = 0
        BY <4>1, GSMSide DEF GSMState
      <4> HIDE DEF f
      <4> QED  BY <1>1, <4>2, YoungAlive DEF Alike
    <3> QED  BY <3>1, <3>2
  <2> HIDE DEF f
  <2> QED  BY <1>1, <1>2, <2>1, <2>2, SIPEnds DEF Alike
<1> QED  BY <1>3, <1>4

\* The two together, at the end of the set-up or in it.
LEMMA RemovalEnds ==
  ASSUME CallInv, EndInv, thread.pc \in Loop \ {"call"}, NEW e \in Transaction,
         e.removed = tr.removed, e.age = tr.age, e.gsm = tr.gsm, abortAndRemoveCall(e)
  PROVE  EndInv'
<1>0. ~tr.removed /\ thread \in Thread /\ phone \in Phone /\ thread.pc \notin {"call", "done"}
  BY AtWork
<1>1. CASE deadOrRemoved(e)
  <2>1. tr' = e /\ thread' = [pc |-> "done", turn |-> "gsm", wait |-> "none"] /\ phone' = phone
    BY <1>1 DEF abortAndRemoveCall, Done, Go
  <2>2. ~Quick
    BY <1>0, <1>1, YoungAlive DEF EndInv
  <2> QED  BY <1>0, <2>1, <2>2 DEF EndInv, Loop
<1>2. CASE ~deadOrRemoved(e)
  <2>1. abortCall(e, "remove")
    BY <1>2 DEF abortAndRemoveCall
  <2>2. e.gsm = "Null" => ~phone.link
    BY DEF EndInv
  <2>3. /\ thread'.pc = thread.pc /\ thread'.turn = "remove"
        /\ ~tr'.removed /\ tr'.gsm = "Null" /\ tr'.age \in {0, e.age} /\ ~phone'.link
        /\ thread'.wait \in Clearing \/ SIPFinished(tr')
    BY <1>0, <1>2, <2>1, <2>2, CallEnds DEF deadOrRemoved
  <2> QED  BY <1>0, <2>3 DEF EndInv, EndOfSIP
<1> QED  BY <1>1, <1>2

\* A step that keeps the channel and stays in a loop, short of the end.
LEMMA TurnEnds ==
  ASSUME CallInv, EndInv, thread.pc \in Loop, ~tr'.removed,
         thread'.turn \in {"gsm", "sip", "check"} \/ ~phone'.link,
         thread'.pc \in Loop, thread'.turn # "remove",
         tr'.gsm = "Null" => ~phone'.link,
         thread'.turn = "leave" => ~phone'.link,
         thread'.pc = "call" /\ thread'.turn # "gsm" /\ dead(tr')
           => SIPFinished(tr') \/ thread'.wait \in Clearing,
         thread'.pc # "call" /\ Quick => tr'.age = 0
  PROVE  EndInv'
<1>1. thread'.pc # "done"
  BY DEF Loop
<1>2. SIPFinished(tr)' <=> SIPFinished(tr')
  BY DEF SIPFinished
<1>3. dead(tr)' <=> dead(tr')
  BY DEF dead
<1> QED  BY <1>1, <1>2, <1>3 DEF EndInv

\* The thread leaves, off the channel.
LEMMA DoneEnds ==
  ASSUME CallInv, EndInv, thread.pc \in Loop, tr' = tr, Done, ~phone'.link
  PROVE  EndInv'
<1>1. ~tr.removed
  BY AtWork
<1>2. thread'.pc = "done" /\ thread'.turn = "gsm"
  BY DEF Done, Go
<1> QED  BY <1>1, <1>2 DEF EndInv, Loop

LEMMA Left ==
  ASSUME phone \in Phone, ReleaseChannel
  PROVE  ~phone'.link
  BY DEF ReleaseChannel, Phone

\* The dispatch of a layer 3 message, to a transaction that is not dead.
LEMMA DispatchEnds ==
  ASSUME CallInv, EndInv, thread.pc \in Loop, thread.wait = "none",
         NEW yes \in {"cleared", "gsm"}, NEW no \in {"gsm", "sip", "check"},
         thread.pc = "call" => ~dead(tr),
         callManagementDispatchGSM(yes, no)
  PROVE  EndInv'
<1> DEFINE m == Head(up)
<1>0. /\ tr \in Transaction /\ ~tr.removed /\ thread \in Thread /\ phone \in Phone
      /\ thread.pc # "done" /\ up # <<>> /\ GoodMessage(tr, m)
      /\ Quick /\ thread.pc # "call" => tr.age = 0
      /\ tr.gsm = "Null" => ~phone.link
  BY AtWork, QueueServed DEF callManagementDispatchGSM, Kept, EndInv
<1>1. ASSUME NEW n \in L3Message, dispatchSetup(n, no)
      PROVE  EndInv'
  <2>1. ~SetUp(n).removed /\ SetUp(n).gsm # "Null" /\ SetUp(n).age = 0
    <3>1. /\ {"MTCConfirmed", "CallReceived", "Active"} \subseteq GSMState
          /\ {"301", "303"} \subseteq Timer
      BY DEF GSMState, Timer
    <3>2. \E f \in Transaction, st \in {"MTCConfirmed", "CallReceived", "Active"} :
            SetUp(n) = setGSM(f, st) /\ f.removed = tr.removed
      <4>1. resetTimer(tr, "303") \in Transaction /\ resetTimer(tr, "303").removed = tr.removed
        BY <1>0, <3>1, GSMSide DEF Alike
      <4>2. /\ setTimer(resetTimer(tr, "303"), "301") \in Transaction
            /\ setTimer(resetTimer(tr, "303"), "301").removed = tr.removed
        BY <3>1, <4>1, GSMSide DEF Alike
      <4>3. setTimer(tr, "301") \in Transaction /\ setTimer(tr, "301").removed = tr.removed
        BY <1>0, <3>1, GSMSide DEF Alike
      <4>4. resetTimers(tr) \in Transaction /\ resetTimers(tr).removed = tr.removed
        BY <1>0, GSMSide DEF Alike
      <4> QED  BY <4>2, <4>3, <4>4 DEF SetUp
    <3> QED  BY <1>0, <3>1, <3>2, GSMSide DEF Alike
  <2>2. tr' = SetUp(n) /\ thread' = [pc |-> thread.pc, turn |-> no, wait |-> "none"]
    BY <1>1 DEF dispatchSetup, Then, Go
  <2>3. ~dead(tr')
    BY <2>1, <2>2, YoungAlive
  <2> QED  BY <1>0, <2>1, <2>2, <2>3, TurnEnds
<1>2. ASSUME dispatchDisconnect(no) PROVE EndInv'
  <2> DEFINE e == setGSM(setTimer(resetTimers(tr), "308"), "ReleaseRequest")
  <2>1. e \in Transaction /\ ~e.removed /\ e.gsm = "ReleaseRequest" /\ e.age = 0
    <3>1. resetTimers(tr) \in Transaction /\ ~resetTimers(tr).removed
      BY <1>0, GSMSide DEF Alike
    <3>2. /\ setTimer(resetTimers(tr), "308") \in Transaction
          /\ ~setTimer(resetTimers(tr), "308").removed
      BY <3>1, GSMSide DEF Alike, Timer
    <3> QED  BY <3>2, GSMSide DEF Alike, GSMState
  <2>2. \/ MODSendBYE(e, no) \/ MODSendCANCEL(e, "CANCELOK and 487", no) \/ MODSendERROR(e, no)
    BY <1>2 DEF dispatchDisconnect
  <2> HIDE DEF e
  <2>3. /\ tr'.removed = e.removed /\ tr'.gsm = e.gsm /\ tr'.age = e.age
    <3>1. /\ "MODClearing" \in SIPState /\ "MODCanceling" \in SIPState
          /\ "BYE" \in {"BYE", "CANCEL", "Response"} /\ "CANCEL" \in {"BYE", "CANCEL", "Response"}
      BY DEF SIPState
    <3>2. CASE tr' = save(setSIP(e, "MODClearing"), "BYE")
      BY <2>1, <3>1, <3>2, SetAndSave
    <3>3. CASE tr' = save(setSIP(e, "MODCanceling"), "CANCEL")
      BY <2>1, <3>1, <3>3, SetAndSave
    <3>4. CASE tr' = setSIP(e, "MODCanceling")
      BY <2>1, <3>1, <3>4, SIPSide
    <3> QED  BY <2>2, <3>2, <3>3, <3>4 DEF MODSendBYE, MODSendCANCEL, MODSendERROR
  <2>4. thread'.pc = thread.pc /\ thread'.turn = no
    BY <1>0, <2>2 DEF MODSendBYE, MODSendCANCEL, MODSendERROR, WaitFor, Thread
  <2>5. ~dead(tr')
    BY <2>1, <2>3, YoungAlive
  <2> QED  BY <1>0, <2>1, <2>3, <2>4, <2>5, TurnEnds
<1>3. ASSUME \/ dispatchRelease(yes) /\ m = "Release"
             \/ dispatchReleaseComplete(yes)
      PROVE  EndInv'
  <2> DEFINE e == setGSM(resetTimers(tr), "Null")
  <2>1. "BYE" \in tr.saved \/ m # "Release"
    BY <1>0 DEF GoodMessage
  <2>2. /\ tr' = e \/ tr' = setSIP(e, "Cleared")
        /\ phone' = [phone EXCEPT !.link = FALSE]
        /\ thread' = [pc |-> thread.pc, turn |-> yes, wait |-> "none"]
    BY <1>3, <2>1 DEF dispatchRelease, dispatchReleaseComplete, MTDSendBYEOK, Then, Go
  <2>3. e \in Transaction /\ ~e.removed /\ e.age = 0
    <3>1. resetTimers(tr) \in Transaction /\ ~resetTimers(tr).removed
      BY <1>0, GSMSide DEF Alike
    <3> QED  BY <3>1, GSMSide DEF Alike, GSMState
  <2> HIDE DEF e
  <2>4. ~tr'.removed /\ tr'.age = 0
    BY <2>2, <2>3, SIPSide DEF SIPState
  <2>5. ~dead(tr') /\ ~phone'.link
    BY <1>0, <2>2, <2>4, YoungAlive DEF Phone
  <2> QED  BY <1>0, <2>2, <2>4, <2>5, TurnEnds
<1>4. ASSUME dispatchStatus(yes) PROVE EndInv'
  <2> DEFINE e == setGSM(setTimer(resetTimers(tr), "308"), "ReleaseRequest")
  <2>1. e \in Transaction /\ ~e.removed /\ e.gsm = "ReleaseRequest" /\ e.age = 0
    <3>1. resetTimers(tr) \in Transaction /\ ~resetTimers(tr).removed
      BY <1>0, GSMSide DEF Alike
    <3>2. /\ setTimer(resetTimers(tr), "308") \in Transaction
          /\ ~setTimer(resetTimers(tr), "308").removed
      BY <3>1, GSMSide DEF Alike, Timer
    <3> QED  BY <3>2, GSMSide DEF Alike, GSMState
  <2>2. /\ tr' = save(setSIP(e, "MODCanceling"), "CANCEL")
        /\ thread' = [pc |-> thread.pc, turn |-> yes, wait |-> "none"]
    BY <1>4 DEF dispatchStatus, Then, Go
  <2> HIDE DEF e
  <2>3. ~tr'.removed /\ tr'.gsm = "ReleaseRequest" /\ tr'.age = 0 /\ tr'.sip = "MODCanceling"
    <3>1. "MODCanceling" \in SIPState /\ "CANCEL" \in {"BYE", "CANCEL", "Response"}
      BY DEF SIPState
    <3> QED  BY <2>1, <2>2, <3>1, SetAndSave
  <2>4. ~dead(tr)'
    BY <2>3 DEF dead
  <2> QED  BY <1>0, <2>2, <2>3, <2>4 DEF EndInv, Loop
<1>5. ASSUME dispatchDetach(yes) PROVE EndInv'
  <2>1. phone' = [phone EXCEPT !.link = FALSE] /\ forceSIPClearing(tr, yes)
    BY <1>5 DEF dispatchDetach
  <2>2. ~phone'.link
    BY <1>0, <2>1 DEF Phone
  <2> QED  BY <1>0, <2>1, <2>2, SIPEnds, TurnEnds DEF deadOrRemoved
<1>6. ASSUME dispatchDTMF(no) PROVE EndInv'
  <2>1. /\ thread' = [thread EXCEPT !.wait = "INFO", !.turn = no] /\ UNCHANGED <<tr, phone>>
    BY <1>6 DEF dispatchDTMF, WaitFor
  <2>2. thread'.pc = thread.pc /\ thread'.turn = no
    BY <1>0, <2>1 DEF Thread
  <2> QED  BY <1>0, <2>1, <2>2, TurnEnds
<1> QED  BY <1>0, <1>1, <1>2, <1>3, <1>4, <1>5, <1>6 DEF callManagementDispatchGSM, GoodMessage, L3Message

LEMMA EndSignalling ==
  ASSUME CallInv, EndInv, updateGSMSignalling
  PROVE  EndInv'
<1>0. /\ thread.pc \in Loop /\ thread.wait = "none" /\ ~Defunct
      /\ thread.turn = "gsm"
  BY DEF updateGSMSignalling, Cleared, TimerExpired, Dispatched, NothingRead, Updates, At
<1>1. /\ tr \in Transaction /\ ~tr.removed /\ thread \in Thread /\ phone \in Phone
      /\ thread.pc = "call" => ~dead(tr)
      /\ Quick /\ thread.pc # "call" => tr.age = 0
      /\ tr.gsm = "Null" => ~phone.link
  BY <1>0, AtWork DEF Defunct, deadOrRemoved, EndInv, Loop
<1>2. AfterGSM \in {"gsm", "sip", "check"} /\ "cleared" \in {"cleared", "gsm"}
  BY DEF AfterGSM
<1>3. CASE Cleared
  <2>1. UNCHANGED <<tr, phone>> /\ thread' = [pc |-> thread.pc, turn |-> "cleared", wait |-> "none"]
    BY <1>3 DEF Cleared, Then, Go
  <2>2. ~phone.link
    BY <1>1, <1>3 DEF Cleared
  <2> QED  BY <1>0, <1>1, <2>1, <2>2, TurnEnds
<1>4. CASE TimerExpired
  <2>1. abortCall(tr, "cleared")
    BY <1>4 DEF TimerExpired
  <2>2. /\ thread'.pc = thread.pc /\ thread'.turn = "cleared"
        /\ ~tr'.removed /\ tr'.gsm = "Null" /\ tr'.age \in {0, tr.age} /\ ~phone'.link
        /\ \/ thread'.wait \in Clearing
           \/ thread'.wait = "none" /\ tr'.sip = tr.sip /\ (dead(tr) \/ SIPFinished(tr'))
    BY <1>1, <2>1, CallEnds
  <2> QED  BY <1>0, <1>1, <2>2, TurnEnds
<1>5. CASE Dispatched
  BY <1>0, <1>1, <1>2, <1>5, DispatchEnds DEF Dispatched
<1>6. CASE NothingRead
  <2>1. UNCHANGED <<tr, phone>> /\ thread' = [pc |-> thread.pc, turn |-> AfterGSM, wait |-> "none"]
    BY <1>6 DEF NothingRead, Then, Go
  <2> QED  BY <1>0, <1>1, <1>2, <2>1, TurnEnds
<1> QED  BY <1>3, <1>4, <1>5, <1>6 DEF updateGSMSignalling

LEMMA EndQuit ==
  ASSUME CallInv, EndInv, QuitDefunct
  PROVE  EndInv'
<1>1. thread.pc \in Loop
  BY DEF QuitDefunct, Defunct, Loop
<1> QED  BY <1>1, AtWork, Left, DoneEnds DEF QuitDefunct

LEMMA EndSetupCleared ==
  ASSUME CallInv, EndInv, SetupCleared
  PROVE  EndInv'
<1>1. thread.pc \in Loop \ {"call"}
  BY DEF SetupCleared, At, Loop
<1>2. CASE ReleaseChannel /\ Done /\ UNCHANGED tr
  BY <1>1, <1>2, AtWork, Left, DoneEnds
<1>3. CASE abortAndRemoveCall(tr)
  BY <1>1, <1>3, AtWork, RemovalEnds
<1> QED  BY <1>2, <1>3 DEF SetupCleared

\* The transaction has another SIP side, and the loop goes on or another begins.
LEMMA SetupEnds ==
  ASSUME CallInv, EndInv, thread.pc \in Loop \ {"call"}, thread.turn # "cleared",
         ~tr'.removed, tr'.gsm = tr.gsm, tr'.age = tr.age, phone'.link => phone.link,
         NEW pc \in Loop \ {"call"}, NEW turn \in {"gsm", "sip", "check"}, Go(pc, turn)
  PROVE  EndInv'
<1>1. thread' = [pc |-> pc, turn |-> turn, wait |-> "none"]
  BY DEF Go
<1>2. /\ tr'.gsm = "Null" => ~phone'.link
      /\ Quick => tr'.age = 0
  BY AtWork DEF EndInv
<1> QED  BY <1>1, <1>2, TurnEnds

LEMMA EndCancelled ==
  ASSUME CallInv, EndInv, thread.pc \in Loop \ {"call"}, NEW e \in Transaction,
         e.removed = tr.removed, e.age = tr.age, e.gsm = tr.gsm, CancelledOrFailed(e)
  PROVE  EndInv'
<1>1. /\ "Canceled" \in SIPState /\ "Fail" \in SIPState /\ "CANCEL" \in {"BYE", "CANCEL", "Response"}
  BY DEF SIPState
<1>2. CASE fifo = "CANCEL"
  <2> DEFINE g == save(setSIP(e, "Canceled"), "CANCEL")
  <2>1. g \in Transaction /\ g.removed = tr.removed /\ g.age = tr.age /\ g.gsm = tr.gsm
    BY <1>1, SetAndSave
  <2>2. abortAndRemoveCall(g)
    BY <1>2 DEF CancelledOrFailed
  <2> HIDE DEF g
  <2> QED  BY <2>1, <2>2, RemovalEnds
<1>3. CASE fifo # "CANCEL"
  <2> DEFINE g == setSIP(e, "Fail")
  <2>1. g \in Transaction /\ g.removed = tr.removed /\ g.age = tr.age /\ g.gsm = tr.gsm
    BY <1>1, SIPSide
  <2>2. abortAndRemoveCall(g)
    BY <1>3 DEF CancelledOrFailed
  <2> HIDE DEF g
  <2> QED  BY <2>1, <2>2, RemovalEnds
<1> QED  BY <1>2, <1>3

LEMMA EndConfirm ==
  ASSUME CallInv, EndInv, Confirm
  PROVE  EndInv'
<1>1. /\ thread.pc \in Loop \ {"call"} /\ thread.pc = "confirm" /\ thread.turn = "sip"
      /\ tr \in Transaction /\ ~tr.removed
  BY AtWork DEF Confirm, At, Loop
<1>2. CASE CancelledOrFailed(tr)
  BY <1>1, <1>2, EndCancelled
<1>3. CASE Go("assign", "gsm") /\ UNCHANGED <<tr, phone>>
  BY <1>1, <1>3, SetupEnds DEF Loop
<1>4. CASE Then("gsm") /\ tr' = setSIP(tr, "Proceeding") /\ UNCHANGED phone
  BY <1>1, <1>4, SetupEnds, SIPSide DEF SIPState, Then
<1> QED  BY <1>2, <1>3, <1>4 DEF Confirm

LEMMA EndAssign ==
  ASSUME CallInv, EndInv, AssignStray \/ Assigned \/ AssignmentFails \/ AssignmentLost
  PROVE  EndInv'
<1>1. /\ thread.pc \in Loop \ {"call"} /\ thread.pc = "assign" /\ thread.turn = "gsm"
      /\ thread.wait = "none" /\ tr \in Transaction /\ ~tr.removed /\ phone \in Phone
      /\ thread \in Thread
  BY AtWork DEF AssignStray, Assigned, AssignmentFails, AssignmentLost, At, Loop
<1>2. CASE AssignStray
  BY <1>1, <1>2, DispatchEnds DEF AssignStray
<1>3. CASE Assigned
  <2>1. CASE ReleaseChannel /\ Done
    BY <1>1, <1>3, <2>1, Left, DoneEnds DEF Assigned
  <2>2. CASE Go("ringing", "gsm") /\ UNCHANGED phone
    BY <1>1, <1>3, <2>2, SetupEnds DEF Assigned, Loop
  <2>3. CASE Go("alerting", IF tr.gsm = "Active" THEN "sip" ELSE "gsm") /\ UNCHANGED phone
    BY <1>1, <1>3, <2>3, SetupEnds DEF Assigned, Loop
  <2> QED  BY <1>3, <2>1, <2>2, <2>3 DEF Assigned
<1>4. CASE AssignmentFails
  <2>1. ~phone'.link
    BY <1>1, <1>4, Left DEF AssignmentFails
  <2>2. /\ thread'.pc = "assign" /\ thread'.turn = "leave"
        /\ tr'.removed = tr.removed /\ tr'.gsm = tr.gsm /\ tr'.age = tr.age
    BY <1>1, <1>4, SIPEnds DEF AssignmentFails
  <2> QED  BY <1>1, <2>1, <2>2, TurnEnds DEF EndInv, Loop
<1>5. CASE AssignmentLost
  BY <1>1, <1>5, DoneEnds DEF AssignmentLost
<1> QED  BY <1>2, <1>3, <1>4, <1>5

LEMMA EndAwaitConnect ==
  ASSUME CallInv, EndInv, AwaitConnect
  PROVE  EndInv'
<1> DEFINE e == IF tr.gsm = "CallReceived" THEN setSIP(tr, "Proceeding") ELSE tr
<1>1. /\ thread.pc \in Loop \ {"call"} /\ thread.pc = "alerting" /\ thread.turn = "sip"
      /\ tr \in Transaction /\ ~tr.removed
  BY AtWork DEF AwaitConnect, At, Loop
<1>2. e \in Transaction /\ e.removed = tr.removed /\ e.age = tr.age /\ e.gsm = tr.gsm
  BY <1>1, SIPSide DEF SIPState
<1>3. \/ MTCSendOK(tr) /\ UNCHANGED phone
      \/ abortAndRemoveCall(e)
      \/ CancelledOrFailed(e)
      \/ tr' = e /\ Then("gsm") /\ UNCHANGED phone
  BY DEF AwaitConnect
<1> HIDE DEF e
<1>4. CASE MTCSendOK(tr) /\ UNCHANGED phone
  BY <1>1, <1>4, SetupEnds, SIPSide DEF MTCSendOK, SIPState, Loop
<1>5. CASE tr' = e /\ Then("gsm") /\ UNCHANGED phone
  BY <1>1, <1>2, <1>5, SetupEnds DEF Then
<1> QED  BY <1>1, <1>2, <1>3, <1>4, <1>5, RemovalEnds, EndCancelled

\* Nothing that the network sends to the phone brings it back.
LEMMA L3Link ==
  ASSUME phone \in Phone, NEW m, SendL3(m)
  PROVE  phone'.link => phone.link
  BY DEF SendL3, Phone

LEMMA EndAwaitACK ==
  ASSUME CallInv, EndInv, AwaitACK
  PROVE  EndInv'
<1>1. /\ thread.pc \in Loop \ {"call"} /\ thread.pc = "connecting" /\ thread.turn = "sip"
      /\ tr \in Transaction /\ ~tr.removed /\ phone \in Phone /\ (tr.gsm = "Null" => ~phone.link)
  BY AtWork DEF AwaitACK, At, Loop, EndInv
<1>2. CASE MTCSendOK(tr) /\ UNCHANGED phone
  BY <1>1, <1>2, SetupEnds, SIPSide DEF MTCSendOK, SIPState, Loop
<1>3. CASE tr' = setSIP(tr, "Active") /\ SendL3("ConnectAck") /\ Go("call", "gsm")
  <2>1. ~tr'.removed /\ tr'.gsm = tr.gsm
    BY <1>1, <1>3, SIPSide DEF SIPState
  <2>2. thread' = [pc |-> "call", turn |-> "gsm", wait |-> "none"]
    BY <1>3 DEF Go
  <2>3. phone'.link => phone.link
    BY <1>1, <1>3, L3Link
  <2> QED  BY <1>1, <2>1, <2>2, <2>3, TurnEnds DEF Loop
<1>4. CASE CancelledOrFailed(tr)
  BY <1>1, <1>4, EndCancelled
<1> QED  BY <1>2, <1>3, <1>4 DEF AwaitACK

LEMMA CheckedKeeps ==
  ASSUME tr \in Transaction, NEW m
  PROVE  /\ CheckedForOK(m) \in Transaction /\ CheckedForOK(m).removed = tr.removed
         /\ CheckedForOK(m).age = tr.age /\ CheckedForOK(m).gsm = tr.gsm
         /\ NothingHeard \in Transaction /\ NothingHeard.removed = tr.removed
         /\ NothingHeard.age = tr.age /\ NothingHeard.gsm = tr.gsm
<1> DEFINE s == CASE m = "Trying" -> "Proceeding"
                  [] m = "Ringing" -> "Ringing"
                  [] m \in Status200 -> "Active"
                  [] m = "Busy" -> "Busy"
                  [] OTHER -> "Fail"
           e == save(setSIP(tr, s), "Response")
<1>1. s \in SIPState /\ "Response" \in {"BYE", "CANCEL", "Response"}
  BY DEF SIPState, Status200
<1>2. e = CheckedForOK(m)
  BY DEF CheckedForOK
<1> HIDE DEF s
<1>3. e \in Transaction /\ e.removed = tr.removed /\ e.age = tr.age /\ e.gsm = tr.gsm
  BY <1>1, SetAndSave
<1>4. /\ NothingHeard \in Transaction /\ NothingHeard.removed = tr.removed
      /\ NothingHeard.age = tr.age /\ NothingHeard.gsm = tr.gsm
  BY SIPSide DEF NothingHeard, SIPState
<1> HIDE DEF e
<1> QED  BY <1>2, <1>3, <1>4

LEMMA EndAwaitRinging ==
  ASSUME CallInv, EndInv, AwaitRinging
  PROVE  EndInv'
<1>1. /\ thread.pc \in Loop \ {"call"} /\ thread.pc = "ringing" /\ thread.turn = "sip"
      /\ tr \in Transaction /\ ~tr.removed /\ phone \in Phone /\ (tr.gsm = "Null" => ~phone.link)
      /\ Quick => tr.age = 0
  BY AtWork DEF AwaitRinging, At, Loop, EndInv
<1>2. CASE abortAndRemoveCall(tr)
  BY <1>1, <1>2, RemovalEnds
<1>3. CASE tr' = NothingHeard /\ Then("gsm") /\ UNCHANGED phone
  BY <1>1, <1>3, CheckedKeeps, SetupEnds DEF Then
<1> DEFINE e == CheckedForOK(fifo)
<1>4. e \in Transaction /\ e.removed = tr.removed /\ e.age = tr.age /\ e.gsm = tr.gsm
  BY <1>1, CheckedKeeps
<1>5. CASE /\ tr' = setGSM(e, "CallReceived")
           /\ \/ Go("answer", "sip") /\ SendL3("Alerting")
              \/ Go("answer", "check") /\ UNCHANGED phone
  <2> DEFINE f == setGSM(e, "CallReceived")
  <2> HIDE DEF e
  <2>1. ~f.removed /\ f.age = 0 /\ f.gsm = "CallReceived"
    BY <1>1, <1>4, GSMSide DEF Alike, GSMState
  <2>2. tr' = f
    BY <1>5
  <2> HIDE DEF f
  <2>3. /\ thread'.pc = "answer" /\ thread'.turn \in {"sip", "check"}
    BY <1>5 DEF Go
  <2> QED  BY <1>1, <2>1, <2>2, <2>3, TurnEnds DEF Loop
<1>6. CASE tr' = e /\ Then("gsm") /\ UNCHANGED phone
  <2> HIDE DEF e
  <2> QED  BY <1>1, <1>4, <1>6, SetupEnds DEF Then
<1>7. CASE abortAndRemoveCall(e)
  <2> HIDE DEF e
  <2> QED  BY <1>1, <1>4, <1>7, RemovalEnds
<1>8. CASE e.sip = "Busy" /\ tr' = GSMCleared(e) /\ forceGSMClearing(e) /\ Then("remove")
  <2> HIDE DEF e
  <2>1. ~tr'.removed /\ tr'.gsm = "Null" /\ tr'.sip = "Busy" /\ tr'.age \in {0, tr.age}
    BY <1>1, <1>4, <1>8, GSMSide DEF Alike
  <2>2. thread'.pc = "ringing" /\ thread'.turn = "remove"
    BY <1>1, <1>8 DEF Then, Go
  <2>3. ~phone'.link
    BY <1>1, <1>4, <1>8, Left DEF forceGSMClearing
  <2> QED  BY <1>1, <2>1, <2>2, <2>3 DEF EndInv, EndOfSIP
<1> QED  BY <1>2, <1>3, <1>5, <1>6, <1>7, <1>8 DEF AwaitRinging

LEMMA EndAwaitAnswer ==
  ASSUME CallInv, EndInv, AwaitAnswer
  PROVE  EndInv'
<1>1. /\ thread.pc \in Loop \ {"call"} /\ thread.turn = "sip" /\ tr \in Transaction /\ ~tr.removed
  BY AtWork DEF AwaitAnswer, At, Loop
<1>2. tr' = NothingHeard \/ tr' = CheckedForOK(fifo)
  BY DEF AwaitAnswer
<1>3. tr'.removed = tr.removed /\ tr'.gsm = tr.gsm /\ tr'.age = tr.age
  BY <1>1, <1>2, CheckedKeeps
<1> QED  BY <1>1, <1>3, SetupEnds DEF AwaitAnswer, Then

LEMMA EndAnswered ==
  ASSUME CallInv, EndInv, Answered
  PROVE  EndInv'
<1>1. /\ thread.pc \in Loop \ {"call"} /\ thread.pc = "answer" /\ thread.turn = "check"
      /\ tr \in Transaction /\ ~tr.removed /\ tr.kind \in KindOf("answer")
  BY AtWork DEF Answered, At, Loop, CallInv, GoodThread
<1>2. CASE abortAndRemoveCall(tr)
  BY <1>1, <1>2, RemovalEnds
<1>3. CASE Then("sip") /\ UNCHANGED <<tr, phone>>
  BY <1>1, <1>3, SetupEnds DEF Then
<1>4. CASE /\ tr.sip = "Active"
           /\ IF "Response" \notin tr.saved THEN Crash
              ELSE /\ tr' = setGSM(setTimer(tr, "313"), "ConnectIndication")
                   /\ SendL3("Connect")
                   /\ Send("ACK")
                   /\ Go("ack", "gsm")
  <2>1. "Response" \in tr.saved
    BY <1>1, <1>4 DEF CallInv, GoodTr, KindOf
  <2> DEFINE e == setGSM(setTimer(tr, "313"), "ConnectIndication")
  <2>2. ~e.removed /\ e.age = 0 /\ e.gsm = "ConnectIndication"
    <3>1. setTimer(tr, "313") \in Transaction /\ setTimer(tr, "313").removed = tr.removed
      BY <1>1, GSMSide DEF Alike, Timer
    <3> QED  BY <1>1, <3>1, GSMSide DEF Alike, GSMState
  <2>3. tr' = e /\ thread' = [pc |-> "ack", turn |-> "gsm", wait |-> "none"]
    BY <1>4, <2>1 DEF Go
  <2> HIDE DEF e
  <2> QED  BY <1>1, <2>2, <2>3, TurnEnds DEF Loop
<1> QED  BY <1>2, <1>3, <1>4 DEF Answered

LEMMA EndAcknowledged ==
  ASSUME CallInv, EndInv, Acknowledged
  PROVE  EndInv'
<1>1. /\ thread.pc = "ack" /\ thread.pc \in Loop /\ ~tr.removed /\ (tr.gsm = "Null" => ~phone.link)
      /\ Quick => tr.age = 0
  BY AtWork DEF Acknowledged, At, Loop, EndInv
<1>2. /\ UNCHANGED <<tr, phone>> /\ thread'.pc \in {"call", "ack"} /\ thread'.turn = "gsm"
  BY DEF Acknowledged, Go
<1> QED  BY <1>1, <1>2, TurnEnds DEF Loop

LEMMA EndRadioFailure ==
  ASSUME CallInv, EndInv, RadioFailure
  PROVE  EndInv'
<1>1. /\ thread.pc = "call" /\ thread.pc \in Loop /\ ~tr.removed /\ tr \in Transaction /\ thread \in Thread
      /\ thread.turn = "gsm" /\ ~phone.link /\ UNCHANGED phone
      /\ ~deadOrRemoved(tr)
  BY AtWork DEF RadioFailure, At, Loop, Defunct
<1>2. forceSIPClearing(tr, "remove")
  BY DEF RadioFailure
<1>3. /\ thread'.pc = "call" /\ thread'.turn = "remove" /\ ~tr'.removed
      /\ thread'.wait \in Clearing \/ SIPFinished(tr')
  BY <1>1, <1>2, SIPEnds
<1> QED  BY <1>1, <1>3 DEF EndInv, EndOfSIP

LEMMA PollEnds ==
  ASSUME CallInv, EndInv, thread.pc = "call", NEW e, ~e.removed, Polled(e),
         e.gsm = "Null" => ~phone'.link,
         thread.turn = "cleared" /\ SIPFinished(e) => ~phone'.link,
         dead(e) => SIPFinished(e) \/ thread'.wait \in Clearing
  PROVE  EndInv'
<1>1. /\ tr' = e /\ thread'.pc = "call" /\ thread'.turn \in {"check", "remove"}
      /\ thread'.turn = "remove" => thread.turn = "cleared" /\ SIPFinished(e)
  BY DEF Polled, Then, Go
<1> QED  BY <1>1 DEF EndInv, EndOfSIP, Loop, SIPFinished, dead

LEMMA EndBYE ==
  ASSUME CallInv, EndInv, thread.pc = "call", NEW e \in Transaction, ~e.removed, e.gsm = tr.gsm,
         thread.turn = "cleared" => ~phone.link, ActOnBYE(e)
  PROVE  EndInv'
<1>1. phone \in Phone /\ (tr.gsm = "Null" => ~phone.link)
  BY DEF CallInv, EndInv
<1>2. CASE Polled(setSIP(e, "Cleared")) /\ UNCHANGED phone
  <2> DEFINE f == setSIP(e, "Cleared")
  <2>1. ~f.removed /\ f.gsm = tr.gsm /\ f.sip = "Cleared"
    BY SIPSide DEF SIPState
  <2>2. Polled(f)
    BY <1>2
  <2> HIDE DEF f
  <2> QED  BY <1>1, <1>2, <2>1, <2>2, PollEnds DEF SIPFinished
<1>3. CASE Polled(setGSM(setTimer(e, "305"), "DisconnectIndication")) /\ SendL3("Disconnect")
  <2> DEFINE f == setGSM(setTimer(e, "305"), "DisconnectIndication")
  <2>1. ~f.removed /\ f.gsm = "DisconnectIndication" /\ f.age = 0
    <3>1. setTimer(e, "305") \in Transaction /\ ~setTimer(e, "305").removed
      BY GSMSide DEF Alike, Timer
    <3> QED  BY <3>1, GSMSide DEF Alike, GSMState
  <2>2. Polled(f)
    BY <1>3
  <2> HIDE DEF f
  <2>3. ~dead(f) /\ (phone'.link => phone.link)
    BY <1>1, <1>3, <2>1, L3Link, YoungAlive
  <2> QED  BY <2>1, <2>2, <2>3, PollEnds
<1> QED  BY <1>2, <1>3 DEF ActOnBYE

LEMMA EndSIPSignalling ==
  ASSUME CallInv, EndInv, updateSIPSignalling
  PROVE  EndInv'
<1>1. /\ thread.pc = "call" /\ thread.pc \in Loop /\ thread.turn \in {"sip", "cleared"}
      /\ thread.wait = "none"
      /\ tr \in Transaction /\ ~tr.removed
      /\ dead(tr) => SIPFinished(tr)
      /\ tr.gsm = "Null" => ~phone.link
      /\ thread.turn = "cleared" /\ tr.sip # "MODCanceling" => ~phone.link
  BY AtWork DEF updateSIPSignalling, At, Loop, EndInv, Clearing
<1>2. CASE tr.sip = "Active" /\ ActOnBYE(save(setSIP(tr, "MTDClearing"), "BYE"))
  <2> DEFINE e == save(setSIP(tr, "MTDClearing"), "BYE")
  <2>1. e \in Transaction /\ ~e.removed /\ e.gsm = tr.gsm
    <3>1. "MTDClearing" \in SIPState /\ "BYE" \in {"BYE", "CANCEL", "Response"}
      BY DEF SIPState
    <3> QED  BY <1>1, <3>1, SetAndSave
  <2>2. ActOnBYE(e)
    BY <1>2
  <2> HIDE DEF e
  <2> QED  BY <1>1, <1>2, <2>1, <2>2, EndBYE
<1>3. CASE Polled(tr) /\ UNCHANGED phone
  <2>1. thread.turn = "cleared" /\ SIPFinished(tr) => ~phone.link
    BY <1>1 DEF SIPFinished
  <2> QED  BY <1>1, <1>3, <2>1, PollEnds
<1>4. CASE tr.sip = "Active" /\ fifo \in Status200 /\ "Response" \notin tr.saved
  <2>1. tr.kind \in {"MO", "MT"}
    BY <1>1, CallAssumption DEF Transaction
  <2> QED  BY <1>4, <2>1 DEF CallInv, GoodTr, GoodNet
<1>5. CASE tr.sip = "MTDClearing" /\ ActOnBYE(tr)
  BY <1>1, <1>5, EndBYE
<1> QED  BY <1>2, <1>3, <1>4, <1>5 DEF updateSIPSignalling

LEMMA EndTermination ==
  ASSUME CallInv, EndInv, CheckTermination
  PROVE  EndInv'
<1>1. /\ thread.pc = "call" /\ thread.pc \in Loop /\ thread.turn = "check" /\ thread.wait = "none"
      /\ tr \in Transaction /\ ~tr.removed /\ thread \in Thread /\ phone \in Phone
      /\ dead(tr) => SIPFinished(tr)
      /\ tr.gsm = "Null" => ~phone.link
  BY AtWork DEF CheckTermination, At, Loop, EndInv, Clearing
<1>2. CASE abortCall([tr EXCEPT !.terminate = FALSE], "remove")
  <2> DEFINE e == [tr EXCEPT !.terminate = FALSE]
  <2>1. /\ e \in Transaction /\ ~e.removed /\ e.gsm = tr.gsm /\ e.sip = tr.sip
        /\ e.age = tr.age
    BY <1>1 DEF Transaction
  <2>2. abortCall(e, "remove")
    BY <1>2
  <2>3. (dead(e) => SIPFinished(e)) /\ SIPFinished(e) = SIPFinished(tr)
    BY <1>1, <2>1 DEF dead, SIPFinished
  <2> HIDE DEF e
  <2>4. /\ thread'.pc = "call" /\ thread'.turn = "remove" /\ ~tr'.removed
        /\ ~phone'.link /\ (thread'.wait \in Clearing \/ SIPFinished(tr'))
    BY <1>1, <2>1, <2>2, <2>3, CallEnds DEF SIPFinished
  <2> QED  BY <1>1, <2>4 DEF EndInv, EndOfSIP
<1>3. CASE Then("gsm") /\ UNCHANGED <<tr, phone>>
  <2>1. thread' = [pc |-> "call", turn |-> "gsm", wait |-> "none"]
    BY <1>1, <1>3 DEF Then, Go
  <2> QED  BY <1>1, <1>3, <2>1, TurnEnds
<1> QED  BY <1>2, <1>3 DEF CheckTermination

\* A wait for the end of the SIP side reaches it.
LEMMA EndWaits ==
  ASSUME CallInv, EndInv, WaitReads \/ WaitEnds
  PROVE  EndInv'
<1>1. thread \in Thread /\ tr \in Transaction /\ thread.wait # "none" /\ thread.pc # "done"
      /\ UNCHANGED phone
  BY SelfInHand DEF CallInv, GoodThread, WaitReads, WaitEnds
<1>2. /\ thread'.pc = thread.pc /\ thread'.turn = thread.turn
      /\ thread.wait = "INFO" => thread'.wait \in {"INFO", "none"}
  BY <1>1 DEF WaitReads, WaitEnds, Thread, After
<1>3. /\ tr'.removed = tr.removed /\ tr'.gsm = tr.gsm /\ tr'.age = tr.age
      /\ tr'.sip = Waited(thread.wait, tr).sip
  <2>1. CASE tr' = Waited(thread.wait, tr)
    BY <2>1, WaitedTr
  <2>2. CASE tr' = save(Waited(thread.wait, tr), "Response")
    <3> DEFINE g == Waited(thread.wait, tr)
    <3>1. g \in Transaction /\ g.removed = tr.removed /\ g.gsm = tr.gsm /\ g.age = tr.age
      BY WaitedTr
    <3>2. tr' = save(g, "Response") /\ "Response" \in {"BYE", "CANCEL", "Response"}
      BY <2>2
    <3>3. tr'.removed = tr.removed /\ tr'.gsm = tr.gsm /\ tr'.age = tr.age /\ tr'.sip = g.sip
      <4> HIDE DEF g
      <4> QED  BY <3>1, <3>2, SIPSide
    <3> QED  BY <3>3
  <2>3. CASE tr' = tr /\ thread.wait \in {"INFO", "487"}
    BY <2>3 DEF Waited
  <2> QED  BY <2>1, <2>2, <2>3 DEF WaitReads, WaitEnds
<1>4. \/ thread.wait \in Clearing /\ tr'.sip \in {"Cleared", "Canceled"}
      \/ thread.wait \notin Clearing /\ tr'.sip = tr.sip
  <2>1. tr \in Transaction /\ "Cleared" \in SIPState /\ "Canceled" \in SIPState
    BY <1>1 DEF SIPState
  <2>2. CASE thread.wait \in Clearing
    <3>1. Waited(thread.wait, tr) = setSIP(tr, IF thread.wait = "BYEOK" THEN "Cleared" ELSE "Canceled")
      BY <2>2 DEF Waited, Clearing
    <3> QED  BY <1>3, <2>1, <2>2, <3>1, SIPSide
  <2>3. CASE thread.wait \notin Clearing
    <3>1. Waited(thread.wait, tr) = tr
      BY <2>3 DEF Waited, Clearing
    <3> QED  BY <1>3, <2>3, <3>1
  <2> QED  BY <2>2, <2>3
<1>5. ~tr.removed
  BY <1>1 DEF EndInv
<1>6. /\ SIPFinished(tr)' <=> tr'.sip \in {"Cleared", "Canceled", "Fail"}
      /\ SIPFinished(tr) <=> tr.sip \in {"Cleared", "Canceled", "Fail"}
  BY DEF SIPFinished
<1>7. thread'.pc \in Loop /\ thread'.turn = "remove" => EndOfSIP(tr)'
  BY <1>2, <1>3, <1>4, <1>6 DEF EndInv, EndOfSIP, SIPFinished
<1>8. /\ thread'.pc = "call" /\ thread'.turn \in {"sip", "cleared", "check"} /\ dead(tr)'
           => SIPFinished(tr)'
  <2>1. tr'.sip = tr.sip => (dead(tr)' <=> dead(tr))
    BY <1>3 DEF dead
  <2> QED  BY <1>2, <1>4, <1>6, <2>1 DEF EndInv
<1>9. ~(thread'.turn = "cleared" /\ phone'.link)
  BY <1>1, <1>2 DEF EndInv
<1> QED  BY <1>1, <1>2, <1>3, <1>5, <1>7, <1>8, <1>9 DEF EndInv

LEMMA EndReturns ==
  ASSUME CallInv, EndInv, Remove \/ Leave
  PROVE  EndInv'
<1>1. /\ tr \in Transaction /\ UNCHANGED phone /\ ~phone.link
      /\ thread' = [pc |-> "done", turn |-> "gsm", wait |-> "none"]
  BY SelfInHand DEF Remove, Leave, Done, Go, EndInv
<1>2. CASE Remove
  <2>1. tr'.sip = tr.sip /\ tr'.gsm = tr.gsm /\ EndOfSIP(tr)
    BY <1>1, <1>2 DEF Remove, Transaction, EndInv, Clearing
  <2> QED  BY <1>1, <2>1 DEF EndInv, EndOfSIP, SIPFinished, Loop
<1>3. CASE Leave
  <2>1. tr' = tr /\ ~tr.removed
    BY <1>3, AtWork DEF Leave
  <2> QED  BY <1>1, <2>1 DEF EndInv, Loop
<1> QED  BY <1>2, <1>3

LEMMA EndTime ==
  ASSUME CallInv, EndInv, Tick \/ Terminate
  PROVE  EndInv'
<1>1. /\ tr \in Transaction /\ thread.pc \in Loop /\ ~tr.removed /\ UNCHANGED <<thread, phone>>
  BY AtWork DEF Tick, Terminate, Loop
<1>2. CASE Tick
  <2>1. tr'.removed = tr.removed /\ tr'.gsm = tr.gsm /\ thread.turn = "gsm"
    BY <1>1, <1>2 DEF Tick, Transaction
  <2>2. thread.pc # "call" => ~Quick
    BY <1>1, <1>2 DEF Tick, EndInv, Loop
  <2> QED  BY <1>1, <2>1, <2>2, TurnEnds DEF EndInv
<1>3. CASE Terminate
  <2>1. /\ tr'.removed = tr.removed /\ tr'.gsm = tr.gsm /\ tr'.age = tr.age /\ tr'.sip = tr.sip
    BY <1>1, <1>3 DEF Terminate, Transaction
  <2>2. (dead(tr)' <=> dead(tr)) /\ (SIPFinished(tr)' <=> SIPFinished(tr)) /\ (EndOfSIP(tr)' <=> EndOfSIP(tr))
    BY <2>1 DEF dead, SIPFinished, EndOfSIP
  <2> QED  BY <1>1, <2>1, <2>2 DEF EndInv
<1> QED  BY <1>2, <1>3

\* A step that leaves the transaction and the thread alone, and brings no phone back.
LEMMA OthersEnd ==
  ASSUME EndInv, UNCHANGED <<tr, thread>>, phone'.link => phone.link
  PROVE  EndInv'
  BY DEF EndInv, dead, SIPFinished, EndOfSIP

LEMMA EndOthers ==
  ASSUME CallInv, EndInv,
         \/ WaitRepeats \/ RemoteParty \/ User
         \/ \E m \in SIPMessage : Deliver(m) \/ Lose(m)
  PROVE  EndInv'
<1>1. phone \in Phone
  BY DEF CallInv
<1>2. CASE WaitRepeats
  <2>1. /\ thread.wait \in {"BYEOK", "CANCELOK", "CANCELOK and 487", "ERRORACK", "INFO"}
        /\ GoodThread(tr, thread)
    BY <1>2 DEF WaitRepeats, CallInv, GoodThread, Thread, Wait
  <2>2. UNCHANGED <<tr, thread, phone>>
    BY <1>2, <2>1 DEF WaitRepeats, GoodThread
  <2> QED  BY <2>2, OthersEnd
<1>3. CASE RemoteParty
  BY <1>3, OthersEnd DEF RemoteParty, PeerRings, PeerAnswers, PeerRejects, PeerCancels, PeerHangsUp,
     PeerRepeats, PeerGivesUp, PeerSends
<1>4. CASE User
  <2>1. UNCHANGED <<tr, thread>> /\ (phone'.link => phone.link)
    BY <1>1, <1>4 DEF User, PhoneConfirms, PhoneAlerts, UserAnswers, PhoneRejects, UserHangsUp,
       UserSwitchesOff, PhoneReports, UserPressesKey, LinkFails, PhoneSends, Phone
  <2> QED  BY <2>1, OthersEnd
<1>5. CASE \E m \in SIPMessage : Deliver(m) \/ Lose(m)
  BY <1>5, OthersEnd DEF Deliver, Lose
<1> QED  BY <1>2, <1>3, <1>4, <1>5

LEMMA EndInit == Init => EndInv
  BY DEF Init, EndInv, NewTransaction, Loop

LEMMA EndNext ==
  ASSUME CallInv, EndInv, [Next]_vars
  PROVE  EndInv'
<1>1. CASE Controller
  BY <1>1, EndQuit, EndSignalling, EndSetupCleared, EndConfirm, EndAssign, EndAwaitConnect,
     EndAwaitACK, EndAwaitRinging, EndAwaitAnswer, EndAnswered, EndAcknowledged, EndRadioFailure,
     EndSIPSignalling, EndTermination, EndWaits, EndOthers, EndReturns DEF Controller
<1>2. CASE UNCHANGED vars
  BY <1>2, OthersEnd DEF vars
<1> QED  BY <1>1, <1>2, EndTime, EndOthers DEF Next

LEMMA CallEnd == NoKeys => (Spec => []EndInv)
<1> SUFFICES ASSUME NoKeys PROVE Spec => []EndInv
  OBVIOUS
<1>1. CallInv /\ EndInv /\ [Next]_vars => EndInv'
  BY EndNext
<1> QED  BY <1>1, EndInit, CallInvariant, PTL DEF Spec

\* When the controller removes a transaction the phone is off the channel, and the SIP side has
\* ended, or was busy with the GSM side Null, RemovedIsCleared, however long the set-up takes.
THEOREM RemovedAlwaysCleared == NoKeys => (Spec => []RemovedIsCleared)
<1>1. EndInv => RemovedIsCleared
  BY DEF EndInv, EndOfSIP, RemovedIsCleared
<1> QED  BY <1>1, CallEnd, PTL

\* When the controller returns the phone has been told to leave the channel, PhoneReleased, if no
\* step of the set-up takes 30 s.
THEOREM PhoneAlwaysReleased == NoKeys /\ Quick => (Spec => []PhoneReleased)
<1>1. Quick /\ EndInv => PhoneReleased
  BY DEF EndInv, PhoneReleased
<1> SUFFICES ASSUME NoKeys, Quick PROVE Spec => []PhoneReleased
  OBVIOUS
<1>2. EndInv => PhoneReleased
  BY <1>1
<1> QED  BY <1>2, CallEnd, PTL

----------------------------------------------------------------------------
(* Clearing is final *)

\* The messages of the set-up: those that a phone sends before it answers, or is answered, and
\* the two that end it.
Begins == {"CallConfirmed", "Alerting"}
SetupMessage == Begins \cup {"Connect", "ConnectAck"}

\* A phone that sends no message of the set-up any more.
Settled == {"connecting", "active", "discSent", "relSent", "null"}

\* The GSM states that only a phone that is settled brings about, and those of the property.
SettledGSM == {"Active", "DisconnectIndication", "ReleaseRequest"}
Ended == {"DisconnectIndication", "ReleaseRequest", "Null"}

\* The queue u of a phone in state cc, which sends in order; late if the set-up is over.
Queue(u, cc, late) ==
  /\ u \in Seq(L3Message)
  /\ \A i, j \in 1 .. Len(u) : i < j /\ u[i] \notin Begins => u[j] \notin SetupMessage
  /\ cc \notin Settled => \A i \in 1 .. Len(u) : u[i] \in Begins
  /\ late => cc \in Settled /\ \A i \in 1 .. Len(u) : u[i] \notin SetupMessage

\* A transaction for which no message of the set-up may come.  During the assignment messages are
\* dispatched whatever the GSM state is.
Late(e, pc) == e.gsm \in SettledGSM \/ (e.gsm = "Null" /\ pc = "assign")

\* Where the thread is with the GSM side in state g: it sets a call up only after it has looked
\* whether the phone has cleared it.
Placed(g, t) ==
  /\ t.pc \in {"connecting", "call"} => g \in SettledGSM \cup {"Null"}
  /\ (t.pc \in {"ringing", "call"} /\ t.turn = "sip") \/ (t.pc = "answer" /\ t.turn = "check")
       => g # "Null"

FinalInv ==
  /\ Queue(up, phone.cc, Late(tr, thread.pc))
  /\ Placed(tr.gsm, thread)

\* What each step is shown to do.
StaysFinal == FinalInv' /\ (tr.gsm \in Ended => tr'.gsm \in Ended)

\* The first message of the queue; one that begins nothing shows that the set-up is over.
LEMMA QueueTail ==
  ASSUME NEW u, NEW cc, NEW late, Queue(u, cc, late), u # <<>>
  PROVE  /\ Queue(Tail(u), cc, late)
         /\ Head(u) \notin Begins => Queue(Tail(u), cc, TRUE)
         /\ late => Head(u) \notin SetupMessage
<1>1. /\ u \in Seq(L3Message) /\ Tail(u) \in Seq(L3Message)
      /\ Head(u) = u[1] /\ 1 \in 1 .. Len(u)
      /\ \A i \in 1 .. Len(Tail(u)) : i + 1 \in 1 .. Len(u) /\ 1 < i + 1 /\ Tail(u)[i] = u[i + 1]
  BY DEF Queue
<1>2. Queue(Tail(u), cc, late)
  <2>1. \A i, j \in 1 .. Len(Tail(u)) : i < j => i + 1 < j + 1
    BY <1>1
  <2> QED  BY <1>1, <2>1 DEF Queue
<1>3. ASSUME Head(u) \notin Begins PROVE Queue(Tail(u), cc, TRUE)
  <2>1. cc \in Settled
    BY <1>1, <1>3 DEF Queue
  <2>2. \A j \in 1 .. Len(Tail(u)) : Tail(u)[j] \notin SetupMessage
    BY <1>1, <1>3 DEF Queue
  <2> QED  BY <1>2, <2>1, <2>2 DEF Queue
<1>4. late => Head(u) \notin SetupMessage
  BY <1>1 DEF Queue
<1> QED  BY <1>2, <1>3, <1>4

\* A phone sends m and goes on in state cd.
LEMMA QueueAppend ==
  ASSUME NEW u, NEW cc, NEW late, Queue(u, cc, late), NEW m \in L3Message, NEW cd,
         m \in SetupMessage => cc \notin Settled,
         m \notin Begins => cd \in Settled,
         cc \in Settled => cd \in Settled
  PROVE  Queue(Append(u, m), cd, late)
<1> DEFINE v == Append(u, m)
<1>1. /\ u \in Seq(L3Message) /\ v \in Seq(L3Message)
      /\ \A i \in 1 .. Len(v) : (i \in 1 .. Len(u) /\ v[i] = u[i]) \/ (i = Len(v) /\ v[i] = m)
  BY DEF Queue
<1> HIDE DEF v
<1>2. ASSUME NEW i \in 1 .. Len(v), NEW j \in 1 .. Len(v), i < j, v[i] \notin Begins
      PROVE  v[j] \notin SetupMessage
  <2>1. i \in 1 .. Len(u) /\ v[i] = u[i]
    BY <1>1, <1>2
  <2>2. CASE j \in 1 .. Len(u) /\ v[j] = u[j]
    BY <1>2, <2>1, <2>2 DEF Queue
  <2>3. CASE v[j] = m
    BY <1>2, <2>1, <2>3 DEF Queue
  <2> QED  BY <1>1, <2>2, <2>3
<1>3. cd \notin Settled => \A i \in 1 .. Len(v) : v[i] \in Begins
  BY <1>1 DEF Queue
<1>4. late => cd \in Settled /\ \A i \in 1 .. Len(v) : v[i] \notin SetupMessage
  BY <1>1 DEF Queue
<1> QED  BY <1>1, <1>2, <1>3, <1>4 DEF Queue, v

\* A settled phone stays settled when the network sends to it.
LEMMA Reacts ==
  ASSUME NEW m
  PROVE  phone.cc \in Settled => Reaction(m) \in Settled
  BY DEF Reaction, Settled

\* The network sends to the phone, which answers at the end of its queue.
LEMMA QueueSend ==
  ASSUME CallInv, NEW late, Queue(up, phone.cc, late), NEW m, SendL3(m)
  PROVE  Queue(up', phone'.cc, late)
<1>1. phone \in Phone
  BY DEF CallInv
<1>2. CASE UNCHANGED <<phone, up>>
  BY <1>2
<1>3. CASE phone' = [phone EXCEPT !.cc = Reaction(m), !.owes = @ \/ Unexpected(m)] /\ up' = up \o Reply(m)
  <2>1. phone'.cc = Reaction(m) /\ up \in Seq(L3Message)
    BY <1>1, <1>3 DEF Phone, Queue
  <2>2. CASE Reply(m) = <<>>
    <3>1. up' = up
      BY <1>3, <2>1, <2>2
    <3> QED  BY <2>1, <3>1, Reacts DEF Queue
  <2>3. ASSUME NEW a \in {"Release", "ReleaseComplete", "ConnectAck"}, Reply(m) = <<a>>,
               a = "ConnectAck" => phone.cc \notin Settled,
               Reaction(m) \in Settled
        PROVE  Queue(up', phone'.cc, late)
    <3>1. up' = Append(up, a) /\ a \in L3Message
      BY <1>3, <2>1, <2>3 DEF L3Message
    <3>2. Queue(Append(up, a), Reaction(m), late)
      BY <2>3, <3>1, QueueAppend DEF SetupMessage, Begins
    <3> QED  BY <2>1, <3>1, <3>2
  <2>4. CASE m = "Disconnect" /\ phone.cc \notin {"relSent", "null"}
    BY <2>3, <2>4 DEF Reply, Reaction, Settled
  <2>5. CASE m = "Release" /\ phone.cc # "relSent"
    BY <2>3, <2>5 DEF Reply, Reaction, Settled
  <2>6. CASE m = "Connect" /\ phone.cc \in {"proceeding", "delivered"}
    BY <2>3, <2>6 DEF Reply, Reaction, Settled
  <2> QED  BY <2>2, <2>4, <2>5, <2>6 DEF Reply
<1> QED  BY <1>2, <1>3 DEF SendL3

\* The two ways to leave the phone's state alone.
LEMMA QueueKept ==
  ASSUME CallInv, FinalInv
  PROVE  /\ UNCHANGED <<phone, up>> => Queue(up', phone'.cc, Late(tr, thread.pc))
         /\ ReleaseChannel => Queue(up', phone'.cc, Late(tr, thread.pc))
         /\ \A e : forceGSMClearing(e) => Queue(up', phone'.cc, Late(tr, thread.pc))
<1>1. phone \in Phone /\ Queue(up, phone.cc, Late(tr, thread.pc))
  BY DEF CallInv, FinalInv
<1>2. ReleaseChannel => phone'.cc = phone.cc /\ up' = up
  BY <1>1 DEF ReleaseChannel, Phone
<1> QED  BY <1>1, <1>2 DEF forceGSMClearing

\* A step that keeps the GSM state, or clears it outside the assignment.
LEMMA GoesFinal ==
  ASSUME FinalInv, Queue(up', phone'.cc, Late(tr, thread.pc)),
         \/ tr'.gsm = tr.gsm /\ (thread'.pc = "assign" => thread.pc = "assign" \/ tr.gsm # "Null")
         \/ tr'.gsm = "Null" /\ thread'.pc # "assign",
         Placed(tr'.gsm, thread')
  PROVE  StaysFinal
<1>1. Late(tr', thread'.pc) => Late(tr, thread.pc)
  BY DEF Late, SettledGSM
<1>2. Queue(up', phone'.cc, Late(tr', thread'.pc))
  BY <1>1 DEF Queue
<1>3. tr.gsm \in Ended => tr'.gsm \in Ended
  BY DEF Ended
<1> QED  BY <1>2, <1>3 DEF StaysFinal, FinalInv, Late

\* A thread that is not about to set up, where it was.
LEMMA PlacedThere ==
  ASSUME FinalInv, NEW t, t.pc = thread.pc, t.turn \notin {"sip", "check"} \/ t.turn = thread.turn
  PROVE  Placed(tr.gsm, t) /\ (t.turn \notin {"sip", "check"} => Placed("Null", t))
  BY DEF FinalInv, Placed

\* abortCall() and abortAndRemoveCall().
LEMMA AbortFinal ==
  ASSUME CallInv, EndInv, FinalInv, thread.pc \in Loop \ {"assign"},
         NEW turn \in {"cleared", "remove"}, NEW e \in Transaction, e.gsm = tr.gsm, ~e.removed,
         abortCall(e, turn)
  PROVE  StaysFinal
<1>1. thread \in Thread /\ phone \in Phone
  BY AtWork
<1>2. thread'.pc = thread.pc /\ thread'.turn = turn /\ tr'.gsm = "Null"
  BY <1>1, CallEnds DEF EndInv
<1>3. Queue(up', phone'.cc, Late(tr, thread.pc))
  BY QueueKept DEF abortCall
<1>4. Placed(tr'.gsm, thread')
  BY <1>2, PlacedThere
<1> QED  BY <1>2, <1>3, <1>4, GoesFinal

\* The thread leaves.
LEMMA DoneFinal ==
  ASSUME CallInv, FinalInv, tr'.gsm = tr.gsm, Done,
         ReleaseChannel \/ UNCHANGED <<phone, up>>
  PROVE  StaysFinal
<1>1. thread'.pc = "done" /\ thread'.turn = "gsm"
  BY DEF Done, Go
<1> QED  BY <1>1, QueueKept, GoesFinal DEF Placed

LEMMA RemovalFinal ==
  ASSUME CallInv, EndInv, FinalInv, thread.pc \in Loop \ {"assign"},
         NEW e \in Transaction, e.gsm = tr.gsm, e.removed = tr.removed, abortAndRemoveCall(e)
  PROVE  StaysFinal
<1>1. ~e.removed
  BY AtWork
<1> QED  BY <1>1, AbortFinal, DoneFinal DEF abortAndRemoveCall

\* A step of the set-up that keeps the GSM state and sends nothing to the phone.
LEMMA GoFinal ==
  ASSUME CallInv, FinalInv, tr'.gsm = tr.gsm, UNCHANGED <<phone, up>>, NEW pc, NEW turn, Go(pc, turn),
         pc = "assign" => tr.gsm # "Null",
         Placed(tr.gsm, [pc |-> pc, turn |-> turn, wait |-> "none"])
  PROVE  StaysFinal
<1>1. thread' = [pc |-> pc, turn |-> turn, wait |-> "none"]
  BY DEF Go
<1> QED  BY <1>1, QueueKept, GoesFinal

\* A message of the phone is dispatched: outside the assignment, only with a GSM side that is not
\* cleared.
LEMMA DispatchFinal ==
  ASSUME CallInv, EndInv, FinalInv, thread.pc \in Loop, thread.wait = "none",
         NEW yes \in {"cleared", "gsm"}, NEW no,
         tr.gsm = "Null" => thread.pc = "assign",
         \A g \in GSMState \ {"Null"} : g \in SettledGSM \/ thread.pc \notin {"connecting", "call"}
           => Placed(g, [pc |-> thread.pc, turn |-> no, wait |-> "none"]),
         thread.pc = "assign" => no = "gsm",
         callManagementDispatchGSM(yes, no)
  PROVE  StaysFinal
<1> DEFINE m == Head(up)
           late == Late(tr, thread.pc)
<1>0. /\ tr \in Transaction /\ ~tr.removed /\ thread \in Thread /\ phone \in Phone
      /\ up # <<>> /\ GoodMessage(tr, m) /\ Queue(up, phone.cc, late)
  BY AtWork, QueueServed DEF callManagementDispatchGSM, Kept, FinalInv
<1>1. /\ Queue(Tail(up), phone.cc, late) /\ (m \notin Begins => Queue(Tail(up), phone.cc, TRUE))
      /\ late => m \notin SetupMessage
  BY <1>0, QueueTail
<1>2. ASSUME NEW n \in SetupMessage, m = n, dispatchSetup(n, no) PROVE StaysFinal
  <2>1. /\ thread' = [pc |-> thread.pc, turn |-> no, wait |-> "none"] /\ tr' = SetUp(n)
        /\ up' = Tail(up) /\ UNCHANGED phone
    BY <1>2 DEF dispatchSetup, Then, Go
  <2>2. tr'.gsm = CASE n = "CallConfirmed" -> "MTCConfirmed"
                    [] n = "Alerting" -> "CallReceived"
                    [] OTHER -> "Active"
    BY <1>0, <2>1 DEF SetUp, setGSM, setTimer, resetTimer, resetTimers, Transaction
  <2>3. ~late
    BY <1>1, <1>2
  <2>4. thread.pc \notin {"connecting", "call"} /\ tr.gsm \notin Ended
    BY <1>0, <2>3 DEF FinalInv, Placed, Late, Ended, SettledGSM
  <2>5. Queue(up', phone'.cc, Late(tr', thread'.pc))
    <3>1. CASE n \in Begins
      <4>1. ~Late(tr', thread'.pc)
        BY <2>2, <3>1 DEF Late, SettledGSM, Begins
      <4> QED  BY <1>1, <2>1, <4>1 DEF Queue
    <3>2. CASE n \notin Begins
      BY <1>1, <1>2, <2>1, <3>2 DEF Queue
    <3> QED  BY <3>1, <3>2
  <2>6. Placed(tr'.gsm, thread')
    <3>1. tr'.gsm \in GSMState \ {"Null"}
      BY <2>2 DEF GSMState
    <3> QED  BY <2>1, <2>4, <3>1
  <2> QED  BY <2>4, <2>5, <2>6 DEF StaysFinal, FinalInv, Late
<1>3. ASSUME tr'.gsm \in Ended, tr'.gsm # "Null" \/ yes = thread'.turn, m \notin Begins,
             up' \in {Tail(up), AnswerRelease},
             phone'.cc = phone.cc \/ phone'.cc = "null",
             up' = AnswerRelease => phone'.cc = "null" \/ up' = Tail(up),
             thread'.pc = thread.pc, tr'.gsm = "Null" \/ tr'.gsm \in SettledGSM,
             thread'.turn \in {yes, no}
      PROVE  StaysFinal
  <2>1. Queue(Tail(up), phone.cc, TRUE)
    BY <1>1, <1>3
  <2>2. Queue(Tail(up), phone'.cc, TRUE)
    BY <1>3, <2>1 DEF Queue, Settled
  <2>3. Queue(up', phone'.cc, TRUE)
    <3>1. CASE up' = Tail(up)
      BY <2>2, <3>1
    <3>2. CASE up' # Tail(up)
      <4>1. Reply("Release") \in {<<>>, <<"ReleaseComplete">>} /\ Tail(up) \in Seq(L3Message)
        BY <2>1 DEF Reply, Queue
      <4>2. Tail(up) \o <<>> = Tail(up) /\ Tail(up) \o <<"ReleaseComplete">> = Append(Tail(up), "ReleaseComplete")
        BY <4>1
      <4>3. up' = Append(Tail(up), "ReleaseComplete") /\ phone'.cc = "null"
        BY <1>3, <3>2, <4>1, <4>2 DEF AnswerRelease
      <4>4. "ReleaseComplete" \in L3Message /\ "ReleaseComplete" \notin SetupMessage /\ "null" \in Settled
        BY DEF L3Message, SetupMessage, Begins, Settled
      <4> QED  BY <2>1, <4>3, <4>4, QueueAppend
    <3> QED  BY <3>1, <3>2
  <2>4. Placed(tr'.gsm, thread')
    BY <1>3 DEF Placed
  <2> QED  BY <1>3, <2>3, <2>4 DEF StaysFinal, FinalInv, Queue, Late
<1>4. CASE m = "Disconnect" /\ dispatchDisconnect(no)
  <2> DEFINE e == setGSM(setTimer(resetTimers(tr), "308"), "ReleaseRequest")
  <2>1. e \in Transaction /\ e.gsm = "ReleaseRequest"
    <3>1. resetTimers(tr) \in Transaction
      BY <1>0, GSMSide DEF Alike
    <3>2. setTimer(resetTimers(tr), "308") \in Transaction
      BY <3>1, GSMSide DEF Alike, Timer
    <3> QED  BY <3>2, GSMSide DEF Alike, GSMState
  <2>2. \/ MODSendBYE(e, no) \/ MODSendCANCEL(e, "CANCELOK and 487", no) \/ MODSendERROR(e, no)
    BY <1>4 DEF dispatchDisconnect
  <2> HIDE DEF e
  <2>3. tr'.gsm = e.gsm
    BY <2>1, <2>2 DEF MODSendBYE, MODSendCANCEL, MODSendERROR, save, setSIP, Transaction
  <2>4. thread'.pc = thread.pc /\ thread'.turn = no
    BY <1>0, <2>2 DEF MODSendBYE, MODSendCANCEL, MODSendERROR, WaitFor, Thread
  <2>5. /\ up' = AnswerRelease /\ phone' = PhoneAfterRelease
    BY <1>4 DEF dispatchDisconnect
  <2>6. /\ phone'.cc = phone.cc \/ phone'.cc = "null"
        /\ up' = AnswerRelease => phone'.cc = "null" \/ up' = Tail(up)
    BY <1>0, <2>5 DEF AnswerRelease, PhoneAfterRelease, Phone
  <2> QED  BY <1>3, <1>4, <2>1, <2>3, <2>4, <2>5, <2>6 DEF Begins, Ended, SettledGSM
<1>5. CASE m = "Status" /\ dispatchStatus(yes)
  <2> DEFINE e == setGSM(setTimer(resetTimers(tr), "308"), "ReleaseRequest")
  <2>1. e \in Transaction /\ e.gsm = "ReleaseRequest"
    <3>1. resetTimers(tr) \in Transaction
      BY <1>0, GSMSide DEF Alike
    <3>2. setTimer(resetTimers(tr), "308") \in Transaction
      BY <3>1, GSMSide DEF Alike, Timer
    <3> QED  BY <3>2, GSMSide DEF Alike, GSMState
  <2>2. tr' = save(setSIP(e, "MODCanceling"), "CANCEL")
    BY <1>5 DEF dispatchStatus
  <2> HIDE DEF e
  <2>3. tr'.gsm = e.gsm
    BY <2>1, <2>2 DEF save, setSIP, Transaction
  <2>4. thread'.pc = thread.pc /\ thread'.turn = yes
    BY <1>5 DEF dispatchStatus, Then, Go
  <2>5. /\ up' = AnswerRelease /\ phone' = PhoneAfterRelease
    BY <1>5 DEF dispatchStatus
  <2>6. /\ phone'.cc = phone.cc \/ phone'.cc = "null"
        /\ up' = AnswerRelease => phone'.cc = "null" \/ up' = Tail(up)
    BY <1>0, <2>5 DEF AnswerRelease, PhoneAfterRelease, Phone
  <2> QED  BY <1>3, <1>5, <2>1, <2>3, <2>4, <2>5, <2>6 DEF Begins, Ended, SettledGSM
<1>6. CASE \/ m = "Release" /\ dispatchRelease(yes)
           \/ m = "ReleaseComplete" /\ dispatchReleaseComplete(yes)
  <2> DEFINE e == setGSM(resetTimers(tr), "Null")
  <2>1. "BYE" \in tr.saved \/ m # "Release"
    BY <1>0 DEF GoodMessage
  <2>2. /\ tr' = e \/ tr' = setSIP(e, "Cleared")
        /\ phone' = [phone EXCEPT !.link = FALSE] /\ up' = Tail(up)
        /\ thread' = [pc |-> thread.pc, turn |-> yes, wait |-> "none"]
    BY <1>6, <2>1 DEF dispatchRelease, dispatchReleaseComplete, MTDSendBYEOK, Then, Go
  <2>3. e \in Transaction /\ e.gsm = "Null"
    <3>1. resetTimers(tr) \in Transaction
      BY <1>0, GSMSide DEF Alike
    <3> QED  BY <3>1, GSMSide DEF Alike, GSMState
  <2> HIDE DEF e
  <2>4. tr'.gsm = "Null" /\ phone'.cc = phone.cc
    BY <1>0, <2>2, <2>3 DEF setSIP, Transaction, Phone
  <2>5. thread'.pc = thread.pc /\ thread'.turn = yes
    BY <2>2
  <2> QED  BY <1>3, <1>6, <2>2, <2>4, <2>5 DEF Begins, Ended
<1>7. ASSUME tr'.gsm = tr.gsm, up' = Tail(up), phone'.cc = phone.cc, thread'.pc = thread.pc,
             thread'.turn = yes \/ (thread'.turn = no /\ tr.gsm # "Null")
                \/ (thread'.turn = no /\ no = "gsm")
      PROVE  StaysFinal
  <2>1. Placed(tr.gsm, thread')
    BY <1>0, <1>7 DEF FinalInv, Placed, Transaction
  <2> QED  BY <1>1, <1>7, <2>1, GoesFinal
<1>8. CASE m = "IMSIDetach" /\ dispatchDetach(yes)
  <2>1. /\ phone' = [phone EXCEPT !.link = FALSE] /\ forceSIPClearing(tr, yes) /\ up' = Tail(up)
    BY <1>8 DEF dispatchDetach
  <2>2. tr'.gsm = tr.gsm /\ thread'.pc = thread.pc /\ thread'.turn = yes
    BY <1>0, <2>1, SIPEnds
  <2>3. phone'.cc = phone.cc
    BY <1>0, <2>1 DEF Phone
  <2> QED  BY <1>7, <2>1, <2>2, <2>3
<1>9. CASE m = "StartDTMF" /\ dispatchDTMF(no)
  <2>1. /\ thread' = [thread EXCEPT !.wait = "INFO", !.turn = no] /\ UNCHANGED <<tr, phone>>
        /\ up' = Tail(up)
    BY <1>9 DEF dispatchDTMF, WaitFor
  <2>2. thread'.pc = thread.pc /\ thread'.turn = no
    BY <1>0, <2>1 DEF Thread
  <2> QED  BY <1>7, <2>1, <2>2
<1> QED
  BY <1>2, <1>4, <1>5, <1>6, <1>8, <1>9 DEF callManagementDispatchGSM, SetupMessage, Begins
\* A message that follows is the answer of the network to the phone, which it may set up: the GSM
\* side is neither cleared nor being cleared.
LEMMA SetsUp ==
  ASSUME FinalInv, Queue(up', phone'.cc, Late(tr, thread.pc)), tr.gsm \notin Ended,
         tr'.gsm \notin SettledGSM \cup {"Null"}, thread'.pc \notin {"connecting", "call"}
  PROVE  StaysFinal
<1>1. ~Late(tr', thread'.pc)
  BY DEF Late
<1>2. Queue(up', phone'.cc, Late(tr', thread'.pc))
  BY <1>1 DEF Queue
<1> QED  BY <1>2 DEF StaysFinal, FinalInv, Placed, Late

\* A step of another, or of a wait.
LEMMA OthersFinal ==
  ASSUME FinalInv, Queue(up', phone'.cc, Late(tr, thread.pc)), tr'.gsm = tr.gsm,
         thread'.pc = thread.pc, thread'.turn = thread.turn
  PROVE  StaysFinal
  BY GoesFinal, PlacedThere

LEMMA FinalSignalling ==
  ASSUME CallInv, EndInv, FinalInv, updateGSMSignalling
  PROVE  StaysFinal
<1>0. /\ thread.pc \in Loop \ {"assign"} /\ thread.wait = "none" /\ thread.turn = "gsm"
  BY DEF updateGSMSignalling, Cleared, TimerExpired, Dispatched, NothingRead, Updates, At
<1>1. tr \in Transaction /\ ~tr.removed /\ thread \in Thread
  BY <1>0, AtWork
<1>2. \A g \in GSMState \ {"Null"} : g \in SettledGSM \/ thread.pc \notin {"connecting", "call"}
        => Placed(g, [pc |-> thread.pc, turn |-> AfterGSM, wait |-> "none"])
  BY DEF Placed
<1>3. CASE Cleared
  <2>1. Go(thread.pc, "cleared") /\ UNCHANGED <<tr, phone, up>>
    BY <1>3 DEF Cleared, Then
  <2>2. Placed(tr.gsm, [pc |-> thread.pc, turn |-> "cleared", wait |-> "none"])
    BY PlacedThere
  <2> QED  BY <1>0, <2>1, <2>2, GoFinal
<1>4. CASE TimerExpired
  BY <1>0, <1>1, <1>4, AbortFinal DEF TimerExpired
<1>5. CASE Dispatched
  BY <1>0, <1>2, <1>5, DispatchFinal DEF Dispatched, Loop
<1>6. CASE NothingRead
  <2>1. Go(thread.pc, AfterGSM) /\ UNCHANGED <<tr, phone, up>> /\ tr.gsm # "Null"
    BY <1>6 DEF NothingRead, Then
  <2>2. Placed(tr.gsm, [pc |-> thread.pc, turn |-> AfterGSM, wait |-> "none"])
    <3>1. tr.gsm \in GSMState /\ (thread.pc \in {"connecting", "call"} => tr.gsm \in SettledGSM)
      BY <1>1, <2>1 DEF FinalInv, Placed, Transaction
    <3> QED  BY <1>2, <2>1, <3>1
  <2> QED  BY <1>0, <2>1, <2>2, GoFinal
<1> QED  BY <1>3, <1>4, <1>5, <1>6 DEF updateGSMSignalling

LEMMA FinalCancelled ==
  ASSUME CallInv, EndInv, FinalInv, thread.pc \in Loop \ {"assign"}, NEW e \in Transaction,
         e.removed = tr.removed, e.gsm = tr.gsm, CancelledOrFailed(e)
  PROVE  StaysFinal
<1>1. /\ "Canceled" \in SIPState /\ "Fail" \in SIPState /\ "CANCEL" \in {"BYE", "CANCEL", "Response"}
  BY DEF SIPState
<1>2. CASE fifo = "CANCEL"
  <2> DEFINE g == save(setSIP(e, "Canceled"), "CANCEL")
  <2>1. g \in Transaction /\ g.removed = tr.removed /\ g.gsm = tr.gsm
    BY <1>1, SetAndSave
  <2>2. abortAndRemoveCall(g)
    BY <1>2 DEF CancelledOrFailed
  <2> HIDE DEF g
  <2> QED  BY <2>1, <2>2, RemovalFinal
<1>3. CASE fifo # "CANCEL"
  <2> DEFINE g == setSIP(e, "Fail")
  <2>1. g \in Transaction /\ g.removed = tr.removed /\ g.gsm = tr.gsm
    BY <1>1, SIPSide
  <2>2. abortAndRemoveCall(g)
    BY <1>3 DEF CancelledOrFailed
  <2> HIDE DEF g
  <2> QED  BY <2>1, <2>2, RemovalFinal
<1> QED  BY <1>2, <1>3

\* MTCStarter() and assignTCHF().
LEMMA FinalSetup ==
  ASSUME CallInv, EndInv, FinalInv,
         \/ QuitDefunct \/ SetupCleared \/ Confirm
         \/ AssignStray \/ Assigned \/ AssignmentFails \/ AssignmentLost
  PROVE  StaysFinal
<1>0. /\ thread.pc \in Loop /\ thread.wait = "none"
      /\ AssignStray \/ Assigned \/ AssignmentFails \/ AssignmentLost =>
           thread.pc = "assign" /\ thread.turn = "gsm"
  BY DEF QuitDefunct, Defunct, SetupCleared, Confirm, AssignStray, Assigned, AssignmentFails,
     AssignmentLost, At, Loop
<1>1. tr \in Transaction /\ ~tr.removed /\ thread \in Thread /\ phone \in Phone
  BY <1>0, AtWork
<1>2. CASE QuitDefunct
  BY <1>2, DoneFinal DEF QuitDefunct
<1>3. CASE SetupCleared
  <2>1. CASE ReleaseChannel /\ Done /\ UNCHANGED tr
    BY <2>1, DoneFinal
  <2>2. CASE (\E pc \in {"alerting", "connecting", "ringing", "answer", "ack"} : At(pc, "cleared"))
             /\ abortAndRemoveCall(tr)
    BY <1>0, <1>1, <2>2, RemovalFinal DEF At
  <2> QED  BY <1>3, <2>1, <2>2 DEF SetupCleared
<1>4. CASE Confirm
  <2>1. thread.pc = "confirm"
    BY <1>4 DEF Confirm, At
  <2>2. CASE CancelledOrFailed(tr)
    BY <1>0, <1>1, <2>1, <2>2, FinalCancelled
  <2>3. CASE tr.gsm = "MTCConfirmed" /\ Go("assign", "gsm") /\ UNCHANGED <<tr, phone, up>>
    BY <2>3, GoFinal DEF Placed
  <2>4. CASE Then("gsm") /\ tr' = setSIP(tr, "Proceeding") /\ UNCHANGED <<phone, up>>
    <3>1. tr'.gsm = tr.gsm
      BY <1>1, <2>4, SIPSide DEF SIPState
    <3> QED  BY <2>1, <2>4, <3>1, GoFinal DEF Placed, Then
  <2> QED  BY <1>4, <2>2, <2>3, <2>4 DEF Confirm
<1>5. CASE AssignStray
  <2>1. \A g \in GSMState : Placed(g, [pc |-> thread.pc, turn |-> "gsm", wait |-> "none"])
    BY <1>0, <1>5 DEF Placed
  <2> QED  BY <1>0, <1>5, <2>1, DispatchFinal DEF AssignStray
<1>6. CASE Assigned
  <2>1. CASE ReleaseChannel /\ Done
    BY <1>6, <2>1, DoneFinal DEF Assigned
  <2>2. CASE Go("ringing", "gsm") /\ UNCHANGED <<phone, up>>
    BY <1>6, <2>2, GoFinal DEF Assigned, Placed
  <2>3. CASE Go("alerting", IF tr.gsm = "Active" THEN "sip" ELSE "gsm") /\ UNCHANGED <<phone, up>>
    <3>1. Placed(tr.gsm, [pc |-> "alerting", turn |-> IF tr.gsm = "Active" THEN "sip" ELSE "gsm",
                          wait |-> "none"])
      BY DEF Placed
    <3> QED  BY <1>6, <2>3, <3>1, GoFinal DEF Assigned
  <2> QED  BY <1>6, <2>1, <2>2, <2>3 DEF Assigned
<1>7. CASE AssignmentFails
  <2>1. /\ thread'.pc = "assign" /\ thread'.turn = "leave" /\ tr'.gsm = tr.gsm
    BY <1>0, <1>1, <1>7, SIPEnds DEF AssignmentFails
  <2>2. Queue(up', phone'.cc, Late(tr, thread.pc))
    BY <1>7, QueueKept DEF AssignmentFails
  <2> QED  BY <1>0, <1>7, <2>1, <2>2, GoesFinal DEF Placed
<1>8. CASE AssignmentLost
  BY <1>8, DoneFinal DEF AssignmentLost
<1> QED  BY <1>2, <1>3, <1>4, <1>5, <1>6, <1>7, <1>8

\* MTCController().
LEMMA FinalMTC ==
  ASSUME CallInv, EndInv, FinalInv, AwaitConnect \/ AwaitACK
  PROVE  StaysFinal
<1>1. /\ thread.pc \in Loop \ {"assign"} /\ thread.turn = "sip"
      /\ AwaitConnect => thread.pc = "alerting"
      /\ AwaitACK => thread.pc = "connecting"
      /\ tr \in Transaction /\ ~tr.removed
  BY AtWork DEF AwaitConnect, AwaitACK, At, Loop
<1>2. ASSUME tr.gsm \in SettledGSM \cup {"Null"}, MTCSendOK(tr), UNCHANGED <<phone, up>>
      PROVE  StaysFinal
  <2>1. Go("connecting", "gsm") /\ tr'.gsm = tr.gsm
    BY <1>1, <1>2, SIPSide DEF MTCSendOK, SIPState
  <2> QED  BY <1>2, <2>1, GoFinal DEF Placed
<1>3. CASE AwaitConnect
  <2> DEFINE e == IF tr.gsm = "CallReceived" THEN setSIP(tr, "Proceeding") ELSE tr
  <2>1. e \in Transaction /\ e.removed = tr.removed /\ e.gsm = tr.gsm
    BY <1>1, SIPSide DEF SIPState
  <2>2. \/ tr.gsm = "Active" /\ MTCSendOK(tr) /\ UNCHANGED <<phone, up>>
        \/ abortAndRemoveCall(e)
        \/ CancelledOrFailed(e)
        \/ tr' = e /\ Then("gsm") /\ UNCHANGED <<phone, up>>
    BY <1>3 DEF AwaitConnect
  <2> HIDE DEF e
  <2>3. CASE tr' = e /\ Then("gsm") /\ UNCHANGED <<phone, up>>
    BY <1>1, <1>3, <2>1, <2>3, GoFinal DEF Then, Placed
  <2> QED  BY <1>1, <1>2, <2>1, <2>2, <2>3, RemovalFinal, FinalCancelled DEF SettledGSM
<1>4. CASE AwaitACK
  <2>1. tr.gsm \in SettledGSM \cup {"Null"}
    BY <1>1, <1>4 DEF FinalInv, Placed
  <2>2. CASE tr' = setSIP(tr, "Active") /\ SendL3("ConnectAck") /\ Go("call", "gsm")
    <3>1. tr'.gsm = tr.gsm /\ thread'.pc = "call" /\ thread'.turn = "gsm"
      BY <1>1, <2>2, SIPSide DEF SIPState, Go
    <3>2. Queue(up', phone'.cc, Late(tr, thread.pc))
      BY <2>2, QueueSend DEF FinalInv
    <3> QED  BY <2>1, <3>1, <3>2, GoesFinal DEF Placed
  <2> QED  BY <1>1, <1>2, <1>4, <2>1, <2>2, FinalCancelled DEF AwaitACK
<1> QED  BY <1>3, <1>4

\* MOCController().
LEMMA FinalMOC ==
  ASSUME CallInv, EndInv, FinalInv, AwaitRinging \/ AwaitAnswer \/ Answered \/ Acknowledged
  PROVE  StaysFinal
<1>1. /\ thread.pc \in Loop \ {"assign"} /\ tr \in Transaction /\ ~tr.removed
      /\ AwaitRinging => thread.pc = "ringing" /\ thread.turn = "sip"
      /\ AwaitAnswer => thread.pc = "answer"
      /\ Answered => thread.pc = "answer" /\ thread.turn = "check"
      /\ Acknowledged => thread.pc = "ack"
      /\ tr.kind \in {"MO", "MT"}
  BY AtWork, CallAssumption DEF AwaitRinging, AwaitAnswer, Answered, Acknowledged, At, Loop, Transaction
<1>2. AwaitRinging \/ Answered => tr.gsm \notin Ended \/ clearingGSM(tr)
  BY <1>1 DEF FinalInv, Placed, Ended, clearingGSM
<1>3. CASE AwaitRinging
  <2> DEFINE e == CheckedForOK(fifo)
  <2>1. e \in Transaction /\ e.removed = tr.removed /\ e.gsm = tr.gsm /\ NothingHeard.gsm = tr.gsm
    BY <1>1, CheckedKeeps
  <2>2. \/ abortAndRemoveCall(tr)
        \/ tr' = NothingHeard /\ Then("gsm") /\ UNCHANGED <<phone, up>>
        \/ /\ ~clearingGSM(tr)
           /\ tr' = setGSM(e, "CallReceived")
           /\ \/ Go("answer", "sip") /\ SendL3("Alerting")
              \/ Go("answer", "check") /\ UNCHANGED <<phone, up>>
        \/ tr' = e /\ Then("gsm") /\ UNCHANGED <<phone, up>>
        \/ abortAndRemoveCall(e)
        \/ tr' = GSMCleared(e) /\ forceGSMClearing(e) /\ Then("remove")
    BY <1>3 DEF AwaitRinging
  <2> HIDE DEF e
  <2>3. ASSUME tr'.gsm = tr.gsm, Then("gsm"), UNCHANGED <<phone, up>> PROVE StaysFinal
    BY <1>1, <1>3, <2>3, GoFinal DEF Then, Placed
  <2>4. CASE /\ ~clearingGSM(tr)
             /\ tr' = setGSM(e, "CallReceived")
             /\ \/ Go("answer", "sip") /\ SendL3("Alerting")
                \/ Go("answer", "check") /\ UNCHANGED <<phone, up>>
    <3>1. tr'.gsm = "CallReceived"
      BY <2>1, <2>4, GSMSide DEF GSMState
    <3>2. thread'.pc = "answer"
      BY <2>4 DEF Go
    <3>3. Queue(up', phone'.cc, Late(tr, thread.pc))
      BY <2>4, QueueSend, QueueKept DEF FinalInv
    <3> QED  BY <1>2, <1>3, <2>4, <3>1, <3>2, <3>3, SetsUp DEF SettledGSM
  <2>5. CASE tr' = GSMCleared(e) /\ forceGSMClearing(e) /\ Then("remove")
    <3>1. tr'.gsm = "Null" /\ thread'.pc = "ringing" /\ thread'.turn = "remove"
      BY <1>1, <1>3, <2>1, <2>5, GSMSide DEF Then, Go
    <3>2. Queue(up', phone'.cc, Late(tr, thread.pc))
      BY <2>5, QueueKept
    <3> QED  BY <3>1, <3>2, GoesFinal DEF Placed
  <2> QED  BY <1>1, <2>1, <2>2, <2>3, <2>4, <2>5, RemovalFinal
<1>4. CASE AwaitAnswer
  <2>1. tr'.gsm = tr.gsm /\ Then("gsm") /\ UNCHANGED <<phone, up>>
    BY <1>1, <1>4, CheckedKeeps DEF AwaitAnswer
  <2> QED  BY <1>1, <1>4, <2>1, GoFinal DEF Then, Placed
<1>5. CASE Answered
  <2>1. CASE abortAndRemoveCall(tr)
    BY <1>1, <2>1, RemovalFinal
  <2>2. CASE Then("sip") /\ UNCHANGED <<tr, phone, up>>
    BY <1>1, <1>5, <2>2, GoFinal DEF Then, Placed
  <2>3. CASE /\ ~clearingGSM(tr)
             /\ tr.sip = "Active"
             /\ IF "Response" \notin tr.saved THEN Crash
                ELSE /\ tr' = setGSM(setTimer(tr, "313"), "ConnectIndication")
                     /\ SendL3("Connect")
                     /\ Send("ACK")
                     /\ Go("ack", "gsm")
    <3>1. "Response" \in tr.saved
      BY <1>1, <1>5, <2>3 DEF CallInv, GoodTr, GoodThread, KindOf
    <3>2. tr'.gsm = "ConnectIndication"
      <4>1. setTimer(tr, "313") \in Transaction
        BY <1>1, GSMSide DEF Alike, Timer
      <4> QED  BY <2>3, <3>1, <4>1, GSMSide DEF GSMState
    <3>3. thread'.pc = "ack"
      BY <2>3, <3>1 DEF Go
    <3>4. Queue(up', phone'.cc, Late(tr, thread.pc))
      BY <2>3, <3>1, QueueSend DEF FinalInv
    <3> QED  BY <1>2, <1>5, <2>3, <3>2, <3>3, <3>4, SetsUp DEF SettledGSM
  <2> QED  BY <1>5, <2>1, <2>2, <2>3 DEF Answered
<1>6. CASE Acknowledged
  <2>1. Go(IF tr.gsm = "Active" THEN "call" ELSE "ack", "gsm") /\ UNCHANGED <<tr, phone, up>>
    BY <1>6 DEF Acknowledged
  <2>2. Placed(tr.gsm, [pc |-> IF tr.gsm = "Active" THEN "call" ELSE "ack", turn |-> "gsm",
                        wait |-> "none"])
    BY DEF Placed, SettledGSM
  <2> QED  BY <2>1, <2>2, GoFinal
<1> QED  BY <1>3, <1>4, <1>5, <1>6

\* updateSIPSignalling() ends with a poll, which leaves the thread in the loop.
LEMMA PollFinal ==
  ASSUME FinalInv, Queue(up', phone'.cc, Late(tr, thread.pc)), thread.pc = "call",
         NEW e, Polled(e), e.gsm = tr.gsm
  PROVE  StaysFinal
<1>1. tr' = e /\ thread'.pc = "call" /\ thread'.turn \in {"check", "remove"}
  BY DEF Polled, Then, Go
<1>2. Placed(tr.gsm, thread')
  BY <1>1 DEF FinalInv, Placed
<1> QED  BY <1>1, <1>2, GoesFinal

LEMMA BYEFinal ==
  ASSUME CallInv, EndInv, FinalInv, thread.pc = "call", thread.turn \in {"sip", "cleared"},
         NEW e \in Transaction, e.gsm = tr.gsm, ActOnBYE(e)
  PROVE  StaysFinal
<1>1. CASE Polled(setSIP(e, "Cleared")) /\ UNCHANGED <<phone, up>>
  <2> DEFINE f == setSIP(e, "Cleared")
  <2>1. f.gsm = tr.gsm /\ Polled(f)
    BY <1>1, SIPSide DEF SIPState
  <2> HIDE DEF f
  <2> QED  BY <1>1, <2>1, PollFinal, QueueKept
<1>2. CASE /\ thread.turn # "cleared"
           /\ Polled(setGSM(setTimer(e, "305"), "DisconnectIndication")) /\ SendL3("Disconnect")
  <2> DEFINE f == setGSM(setTimer(e, "305"), "DisconnectIndication")
  <2>1. f.gsm = "DisconnectIndication" /\ Polled(f)
    <3>1. setTimer(e, "305") \in Transaction
      BY GSMSide DEF Alike, Timer
    <3> QED  BY <1>2, <3>1, GSMSide DEF GSMState
  <2> HIDE DEF f
  <2>2. tr' = f /\ thread'.pc = "call" /\ thread'.turn \in {"check", "remove"}
    BY <2>1 DEF Polled, Then, Go
  <2>3. Late(tr, thread.pc)
    BY <1>2 DEF FinalInv, Placed, Late
  <2>4. Queue(up', phone'.cc, Late(tr', thread'.pc))
    <3>1. Queue(up', phone'.cc, Late(tr, thread.pc))
      BY <1>2, QueueSend DEF FinalInv
    <3> QED  BY <2>3, <3>1 DEF Queue
  <2> QED  BY <2>1, <2>2, <2>4 DEF StaysFinal, FinalInv, Placed, SettledGSM, Ended
<1> QED  BY <1>1, <1>2 DEF ActOnBYE

\* callManagementLoop().
LEMMA FinalCall ==
  ASSUME CallInv, EndInv, FinalInv, RadioFailure \/ updateSIPSignalling \/ CheckTermination
  PROVE  StaysFinal
<1>1. /\ thread.pc = "call" /\ thread.pc \in Loop \ {"assign"}
      /\ tr \in Transaction /\ ~tr.removed /\ thread \in Thread
  BY AtWork DEF RadioFailure, updateSIPSignalling, CheckTermination, At, Loop
<1>2. CASE RadioFailure
  <2>1. tr'.gsm = tr.gsm /\ thread'.pc = "call" /\ thread'.turn = "remove"
    BY <1>1, <1>2, SIPEnds DEF RadioFailure
  <2>2. Placed(tr.gsm, thread')
    BY <1>1, <2>1, PlacedThere
  <2>3. Queue(up', phone'.cc, Late(tr, thread.pc))
    BY <1>2, QueueKept DEF RadioFailure
  <2> QED  BY <2>1, <2>2, <2>3, GoesFinal
<1>3. CASE updateSIPSignalling
  <2>1. thread.turn \in {"sip", "cleared"}
    BY <1>3 DEF updateSIPSignalling, At
  <2>2. CASE ActOnBYE(save(setSIP(tr, "MTDClearing"), "BYE"))
    <3> DEFINE e == save(setSIP(tr, "MTDClearing"), "BYE")
    <3>1. e \in Transaction /\ e.gsm = tr.gsm /\ ActOnBYE(e)
      <4>1. "MTDClearing" \in SIPState /\ "BYE" \in {"BYE", "CANCEL", "Response"}
        BY DEF SIPState
      <4> QED  BY <1>1, <2>2, <4>1, SetAndSave
    <3> HIDE DEF e
    <3> QED  BY <1>1, <2>1, <3>1, BYEFinal
  <2>3. CASE Polled(tr) /\ UNCHANGED <<phone, up>>
    BY <1>1, <2>3, PollFinal, QueueKept
  <2>4. CASE tr.sip = "Active" /\ fifo \in Status200 /\ "Response" \notin tr.saved
    <3>1. tr.kind \in {"MO", "MT"}
      BY <1>1, CallAssumption DEF Transaction
    <3> QED  BY <2>4, <3>1 DEF CallInv, GoodTr, GoodNet
  <2>5. CASE ActOnBYE(tr)
    BY <1>1, <2>1, <2>5, BYEFinal
  <2> QED  BY <1>3, <2>2, <2>3, <2>4, <2>5 DEF updateSIPSignalling
<1>4. CASE CheckTermination
  <2>1. CASE abortCall([tr EXCEPT !.terminate = FALSE], "remove")
    <3> DEFINE e == [tr EXCEPT !.terminate = FALSE]
    <3>1. e \in Transaction /\ ~e.removed /\ e.gsm = tr.gsm /\ abortCall(e, "remove")
      BY <1>1, <2>1 DEF Transaction
    <3> HIDE DEF e
    <3> QED  BY <1>1, <3>1, AbortFinal
  <2>2. CASE Then("gsm") /\ UNCHANGED <<tr, phone, up>>
    <3>1. Placed(tr.gsm, [pc |-> thread.pc, turn |-> "gsm", wait |-> "none"])
      BY PlacedThere
    <3> QED  BY <1>1, <2>2, <3>1, GoFinal DEF Then
  <2> QED  BY <1>4, <2>1, <2>2 DEF CheckTermination
<1> QED  BY <1>2, <1>3, <1>4

LEMMA FinalReturns ==
  ASSUME CallInv, EndInv, FinalInv, Remove \/ Leave
  PROVE  StaysFinal
<1>1. Done /\ UNCHANGED <<phone, up>> /\ tr \in Transaction
  BY AtWork DEF Remove, Leave
<1>2. tr'.gsm = tr.gsm
  BY <1>1 DEF Remove, Leave, Transaction
<1> QED  BY <1>1, <1>2, DoneFinal

LEMMA FinalWaits ==
  ASSUME CallInv, EndInv, FinalInv, WaitReads \/ WaitEnds \/ WaitRepeats
  PROVE  StaysFinal
<1>1. thread \in Thread /\ tr \in Transaction /\ thread.pc # "done" /\ UNCHANGED <<phone, up>>
  BY SelfInHand DEF CallInv, GoodThread, WaitReads, WaitEnds, WaitRepeats, Crash
<1>2. CASE WaitRepeats
  <2>1. /\ thread.wait \in {"BYEOK", "CANCELOK", "CANCELOK and 487", "ERRORACK", "INFO"}
        /\ GoodThread(tr, thread)
    BY <1>2 DEF WaitRepeats, CallInv, GoodThread, Thread, Wait
  <2>2. UNCHANGED <<tr, thread>>
    BY <1>2, <2>1 DEF WaitRepeats, GoodThread
  <2> QED  BY <1>1, <2>2, OthersFinal, QueueKept
<1>3. CASE WaitReads \/ WaitEnds
  <2>1. /\ thread'.pc = thread.pc /\ thread'.turn = thread.turn
    BY <1>1, <1>3 DEF WaitReads, WaitEnds, Thread
  <2>2. tr'.gsm = tr.gsm
    <3> DEFINE g == Waited(thread.wait, tr)
    <3>1. g \in Transaction /\ g.gsm = tr.gsm
      BY <1>1, WaitedTr
    <3>2. tr' = g \/ tr' = save(g, "Response") \/ tr' = tr
      BY <1>3 DEF WaitReads, WaitEnds
    <3> HIDE DEF g
    <3> QED  BY <3>1, <3>2, SIPSide
  <2> QED  BY <1>1, <2>1, <2>2, OthersFinal, QueueKept
<1> QED  BY <1>2, <1>3

\* The phone sends in the order of its states.
LEMMA FinalUser ==
  ASSUME CallInv, FinalInv, User
  PROVE  StaysFinal
<1>1. phone \in Phone /\ UNCHANGED <<tr, thread>>
  BY DEF CallInv, User, PhoneConfirms, PhoneAlerts, UserAnswers, PhoneRejects, UserHangsUp,
     UserSwitchesOff, PhoneReports, UserPressesKey, LinkFails, PhoneSends
<1> DEFINE late == Late(tr, thread.pc)
<1>2. Queue(up, phone.cc, late)
  BY DEF FinalInv
<1>3. ASSUME NEW m \in L3Message, NEW cd \in PhoneState, up' = Append(up, m), phone'.cc = cd,
             m \in SetupMessage => phone.cc \notin Settled,
             m \notin Begins => cd \in Settled,
             phone.cc \in Settled => cd \in Settled
      PROVE  StaysFinal
  <2>1. Queue(up', phone'.cc, late)
    <3> HIDE DEF late
    <3> QED  BY <1>2, <1>3, QueueAppend
  <2> QED  BY <1>1, <2>1, OthersFinal
<1>4. ASSUME NEW m, NEW cd, PhoneSends(cd, m)
      PROVE  up' = Append(up, m) /\ phone'.cc = cd
  BY <1>1, <1>4 DEF PhoneSends, Phone
<1>5. CASE PhoneConfirms
  <2>1. PhoneSends("confirmed", "CallConfirmed") /\ phone.cc = "present"
    BY <1>5 DEF PhoneConfirms
  <2>2. up' = Append(up, "CallConfirmed") /\ phone'.cc = "confirmed"
    BY <1>4, <2>1
  <2> QED  BY <1>3, <2>1, <2>2 DEF L3Message, PhoneState, SetupMessage, Begins, Settled
<1>6. CASE PhoneAlerts
  <2>1. PhoneSends("alerting", "Alerting") /\ phone.cc = "confirmed"
    BY <1>6 DEF PhoneAlerts
  <2>2. up' = Append(up, "Alerting") /\ phone'.cc = "alerting"
    BY <1>4, <2>1
  <2> QED  BY <1>3, <2>1, <2>2 DEF L3Message, PhoneState, SetupMessage, Begins, Settled
<1>7. CASE UserAnswers
  <2>1. PhoneSends("connecting", "Connect") /\ phone.cc \in {"confirmed", "alerting"}
    BY <1>7 DEF UserAnswers
  <2>2. up' = Append(up, "Connect") /\ phone'.cc = "connecting"
    BY <1>4, <2>1
  <2> QED  BY <1>3, <2>1, <2>2 DEF L3Message, PhoneState, SetupMessage, Begins, Settled
<1>8. ASSUME NEW cd \in {"discSent", "null", "active"},
             NEW m \in {"Disconnect", "ReleaseComplete", "IMSIDetach", "StartDTMF"}, PhoneSends(cd, m)
      PROVE  StaysFinal
  <2>1. up' = Append(up, m) /\ phone'.cc = cd
    BY <1>4, <1>8
  <2>2. m \in L3Message /\ m \notin SetupMessage /\ cd \in Settled /\ cd \in PhoneState
    BY DEF L3Message, PhoneState, SetupMessage, Begins, Settled
  <2> QED  BY <1>3, <2>1, <2>2 DEF SetupMessage
<1>9. CASE PhoneReports
  <2>1. up' = Append(up, "Status") /\ phone'.cc = "discSent"
    BY <1>1, <1>9 DEF PhoneReports, Phone
  <2> QED  BY <1>3, <2>1 DEF L3Message, PhoneState, SetupMessage, Begins, Settled
<1>10. CASE LinkFails
  <2>1. up' = up /\ phone'.cc = phone.cc
    BY <1>1, <1>10 DEF LinkFails, Phone
  <2> QED  BY <1>1, <1>2, <2>1, OthersFinal
<1> HIDE DEF late
<1> QED
  BY <1>5, <1>6, <1>7, <1>8, <1>9, <1>10
  DEF User, PhoneRejects, UserHangsUp, UserSwitchesOff, UserPressesKey

LEMMA FinalOthers ==
  ASSUME CallInv, EndInv, FinalInv,
         \/ Tick \/ Terminate \/ RemoteParty
         \/ \E m \in SIPMessage : Deliver(m) \/ Lose(m)
  PROVE  StaysFinal
<1>1. UNCHANGED <<thread, phone, up>> /\ tr \in Transaction
  BY DEF Tick, Terminate, RemoteParty, PeerRings, PeerAnswers, PeerRejects, PeerCancels, PeerHangsUp,
     PeerRepeats, PeerGivesUp, PeerSends, Deliver, Lose, CallInv, GoodTr
<1>2. tr'.gsm = tr.gsm
  BY <1>1 DEF Tick, Terminate, RemoteParty, PeerRings, PeerAnswers, PeerRejects, PeerCancels,
     PeerHangsUp, PeerRepeats, PeerGivesUp, PeerSends, Deliver, Lose, Transaction
<1> QED  BY <1>1, <1>2, OthersFinal, QueueKept

LEMMA FinalInit == Init => FinalInv
<1> SUFFICES ASSUME Init PROVE FinalInv
  OBVIOUS
<1>1. up = <<>> /\ up \in Seq(L3Message) /\ Len(up) = 0
  BY DEF Init
<1>2. \/ tr.gsm = "MOCProceeding" /\ thread.pc = "assign" /\ thread.turn = "gsm"
      \/ tr.gsm = "CallPresent" /\ thread.pc = "confirm" /\ thread.turn = "gsm"
  BY CallAssumption DEF Init, NewTransaction
<1>3. ~Late(tr, thread.pc) /\ Placed(tr.gsm, thread)
  BY <1>2 DEF Late, Placed, SettledGSM
<1>4. Queue(up, phone.cc, FALSE)
  BY <1>1 DEF Queue
<1> QED  BY <1>3, <1>4 DEF FinalInv, Queue, Late

LEMMA FinalNext ==
  ASSUME CallInv, EndInv, FinalInv, [Next]_vars
  PROVE  StaysFinal
<1>1. CASE Controller
  BY <1>1, FinalSignalling, FinalSetup, FinalMTC, FinalMOC, FinalCall, FinalReturns, FinalWaits
  DEF Controller
<1>2. CASE UNCHANGED vars
  BY <1>2, OthersFinal, QueueKept DEF vars
<1> QED  BY <1>1, <1>2, FinalOthers, FinalUser DEF Next

\* A call that is being cleared towards the phone is not set up again, ClearingIsFinal: whatever the
\* phone has sent before, and however late callManagementDispatchGSM() reads it.
THEOREM ClearingStaysFinal == NoKeys => (Spec => ClearingIsFinal)
<1> SUFFICES ASSUME NoKeys PROVE Spec => ClearingIsFinal
  OBVIOUS
<1>1. CallInv /\ EndInv /\ FinalInv /\ [Next]_vars => FinalInv'
  BY FinalNext DEF StaysFinal
<1>2. CallInv /\ EndInv /\ FinalInv /\ [Next]_vars =>
        [tr.gsm \in {"DisconnectIndication", "ReleaseRequest", "Null"} =>
           tr'.gsm \in {"DisconnectIndication", "ReleaseRequest", "Null"}]_vars
  BY FinalNext DEF StaysFinal, Ended
<1> QED  BY <1>1, <1>2, FinalInit, CallInvariant, CallEnd, PTL DEF Spec, ClearingIsFinal

----------------------------------------------------------------------------
(* No phantom call *)

\* The remote party has answered the call, or has seen it answered.
Talked(p) == p \in {"answered", "up", "bye", "over"}

\* The 200s that only such a party has sent, the answers that another may have sent to a clearing,
\* and the waits that send it CANCEL or a final error again.
CallAnswer == {"OK-INVITE", "OK-BYE", "OK-INFO"}
LateAnswer == {"OK-CANCEL", "ACK"}
Rejecting == {"CANCELOK", "CANCELOK and 487", "ERRORACK"}

\* The thread does not set the call up any more: g is the state of the GSM side, link the phone's.
Over(g, t, link) ==
  \/ g \in Ended
  \/ t.pc = "done"
  \/ t.turn \in {"cleared", "remove", "leave"}
  \/ t.pc = "assign" /\ ~link

\* A call is not answered by the answer to a clearing: one that is cleared before it is answered is
\* not set up.
AnswerInv ==
  /\ CallAnswer \cap (net \cup {fifo}) # {} => Talked(peer)
  /\ \/ LateAnswer \cap (net \cup {fifo}) # {}
     \/ thread.wait \in Rejecting
     \/ tr.sip = "Active"
     => Talked(peer) \/ Over(tr.gsm, thread, phone.link)
  /\ thread.pc \in {"ack", "call"} => Talked(peer) \/ tr.gsm \in Ended

\* What the thread does to the network and the remote party.
Sends ==
  /\ fifo' \in {fifo, Empty}
  /\ UNCHANGED <<net, peer>> \/ \E m : Send(m)

LEMMA TalkedStays ==
  ASSUME AnswerInv, Sends
  PROVE  /\ Talked(peer) => Talked(peer')
         /\ CallAnswer \cap (net' \cup {fifo'}) # {} => Talked(peer')
<1>1. Empty \notin CallAnswer
  BY DEF Empty, CallAnswer
<1>2. CASE UNCHANGED <<net, peer>>
  BY <1>1, <1>2 DEF Sends, AnswerInv
<1>3. ASSUME NEW m, peer' = PeerAfter(m), net' = net \cup PeerReply(m)
      PROVE  /\ Talked(peer) => Talked(peer')
             /\ CallAnswer \cap (net' \cup {fifo'}) # {} => Talked(peer')
  <2>1. Talked(peer) => Talked(PeerAfter(m))
    BY DEF PeerAfter, Talked
  <2>2. CallAnswer \cap PeerReply(m) # {} => Talked(peer)
    BY DEF PeerReply, CallAnswer, Talked
  <2> QED  BY <1>1, <1>3, <2>1, <2>2 DEF Sends, AnswerInv
<1> QED  BY <1>2, <1>3 DEF Sends, Send

\* A step after which the call is answered or not set up any more.
LEMMA Settles ==
  ASSUME AnswerInv, Sends,
         \/ Talked(peer)
         \/ tr'.gsm \in Ended
         \/ Over(tr'.gsm, thread', phone'.link) /\ thread'.pc \notin {"ack", "call"}
  PROVE  AnswerInv'
<1>1. Talked(peer') \/ Over(tr'.gsm, thread', phone'.link)
  BY TalkedStays DEF Over
<1>2. thread'.pc \in {"ack", "call"} => Talked(peer') \/ tr'.gsm \in Ended
  BY TalkedStays
<1> QED  BY <1>1, <1>2, TalkedStays DEF AnswerInv

\* A step that goes on, and sends no rejection.
LEMMA Passes ==
  ASSUME AnswerInv, Sends,
         UNCHANGED <<net, peer>> \/ \E m \in {"INVITE", "OK", "INFO", "BYE"} : Send(m),
         Over(tr.gsm, thread, phone.link) => Over(tr'.gsm, thread', phone'.link),
         thread'.wait \in Rejecting => thread.wait \in Rejecting,
         tr'.sip = "Active" => tr.sip = "Active",
         thread'.pc \notin {"ack", "call"}
  PROVE  AnswerInv'
<1>1. LateAnswer \cap (net' \cup {fifo'}) # {} =>
        Talked(peer') \/ LateAnswer \cap (net \cup {fifo}) # {}
  <2>1. Empty \notin LateAnswer
    BY DEF Empty, LateAnswer
  <2>2. CASE UNCHANGED <<net, peer>>
    BY <2>1, <2>2 DEF Sends
  <2>3. ASSUME NEW m \in {"INVITE", "OK", "INFO", "BYE"},
               peer' = PeerAfter(m), net' = net \cup PeerReply(m)
        PROVE  LateAnswer \cap (net' \cup {fifo'}) # {} =>
                 Talked(peer') \/ LateAnswer \cap (net \cup {fifo}) # {}
    <3>1. LateAnswer \cap PeerReply(m) # {} => Talked(PeerAfter(m))
      BY <2>3 DEF PeerReply, PeerAfter, LateAnswer, Talked
    <3> QED  BY <2>1, <2>3, <3>1 DEF Sends
  <2> QED  BY <2>2, <2>3 DEF Send
<1>2. LateAnswer \cap (net' \cup {fifo'}) # {} \/ thread'.wait \in Rejecting \/ tr'.sip = "Active"
        => Talked(peer') \/ Over(tr'.gsm, thread', phone'.link)
  BY <1>1, TalkedStays DEF AnswerInv
<1> QED  BY <1>2, TalkedStays DEF AnswerInv

LEMMA WaitSends ==
  ASSUME CallInv, WaitReads \/ WaitEnds \/ WaitRepeats
  PROVE  Sends
<1>1. CASE WaitRepeats
  <2>1. /\ thread.wait \in {"BYEOK", "CANCELOK", "CANCELOK and 487", "ERRORACK", "INFO"}
        /\ GoodThread(tr, thread)
    BY <1>1 DEF WaitRepeats, CallInv, GoodThread, Thread, Wait
  <2> QED  BY <1>1, <2>1 DEF WaitRepeats, GoodThread, Sends
<1> QED  BY <1>1 DEF WaitReads, WaitEnds, Sends

LEMMA ClearingSends ==
  ASSUME NEW e, NEW turn, fifo' \in {fifo, Empty},
         forceSIPClearing(e, turn) \/ abortCall(e, turn) \/ abortAndRemoveCall(e)
  PROVE  Sends
  BY DEF forceSIPClearing, MODSendBYE, MODSendCANCEL, MODSendERROR, abortCall, abortAndRemoveCall, Sends

LEMMA DispatchSends ==
  ASSUME NEW yes, NEW no, callManagementDispatchGSM(yes, no)
  PROVE  Sends
<1> DEFINE m == Head(up)
<1>1. fifo' = fifo
  BY DEF callManagementDispatchGSM
<1>2. CASE dispatchSetup(m, no) \/ dispatchReleaseComplete(yes) \/ dispatchStatus(yes) \/ dispatchDTMF(no)
  BY <1>1, <1>2 DEF dispatchSetup, dispatchReleaseComplete, dispatchStatus, dispatchDTMF, Sends
<1>3. CASE dispatchDisconnect(no)
  BY <1>1, <1>3 DEF dispatchDisconnect, MODSendBYE, MODSendCANCEL, MODSendERROR, Sends
<1>4. CASE dispatchRelease(yes)
  BY <1>1, <1>4 DEF dispatchRelease, MTDSendBYEOK, Crash, Sends
<1>5. CASE dispatchDetach(yes)
  BY <1>1, <1>5, ClearingSends DEF dispatchDetach
<1> QED  BY <1>2, <1>3, <1>4, <1>5 DEF callManagementDispatchGSM

LEMMA CancelledSends ==
  ASSUME NEW e, CancelledOrFailed(e)
  PROVE  Sends
  BY ClearingSends DEF CancelledOrFailed

\* The thread reads a message at most, and sends one at most.
LEMMA ControllerSends ==
  ASSUME CallInv, Controller
  PROVE  Sends
<1>1. CASE QuitDefunct \/ Assigned \/ AssignmentLost \/ AwaitAnswer \/ Acknowledged \/ Remove \/ Leave
  BY <1>1 DEF QuitDefunct, ReleaseChannel, Assigned, AssignmentLost, AwaitAnswer, Acknowledged, Remove, Leave, Sends
<1>2. CASE updateGSMSignalling
  BY <1>2, ClearingSends, DispatchSends
  DEF updateGSMSignalling, Cleared, TimerExpired, Dispatched, NothingRead, Sends
<1>3. CASE SetupCleared \/ AssignmentFails \/ RadioFailure
  BY <1>3, ClearingSends DEF SetupCleared, AssignmentFails, RadioFailure, Sends
<1>4. CASE Confirm
  BY <1>4, CancelledSends DEF Confirm, Sends
<1>5. CASE AssignStray
  BY <1>5, DispatchSends DEF AssignStray
<1>6. CASE AwaitConnect
  BY <1>6, CancelledSends, ClearingSends DEF AwaitConnect, MTCSendOK, Sends
<1>7. CASE AwaitACK
  BY <1>7, CancelledSends DEF AwaitACK, MTCSendOK, Sends
<1>8. CASE AwaitRinging
  BY <1>8, ClearingSends DEF AwaitRinging, Sends
<1>9. CASE Answered
  BY <1>9, ClearingSends DEF Answered, Crash, Sends
<1>10. CASE updateSIPSignalling
  <2>1. \A e : ActOnBYE(e) => UNCHANGED <<net, peer>> \/ \E m : Send(m)
    BY DEF ActOnBYE
  <2> QED  BY <1>10, <2>1 DEF updateSIPSignalling, Sends
<1>11. CASE CheckTermination
  BY <1>11, ClearingSends DEF CheckTermination, Sends
<1>12. CASE WaitReads \/ WaitEnds \/ WaitRepeats
  BY <1>12, WaitSends
<1> QED
  BY <1>1, <1>2, <1>3, <1>4, <1>5, <1>6, <1>7, <1>8, <1>9, <1>10, <1>11, <1>12 DEF Controller

\* The call is not answered, and not cleared.
Unanswered == ~Talked(peer) /\ tr.gsm \notin Ended

\* Where the thread goes on after a read, nothing that answers the call is there.
LEMMA NotYet ==
  ASSUME AnswerInv, Unanswered, thread.pc \in Loop \ {"assign"}, thread.turn \in {"gsm", "sip", "check"}
  PROVE  /\ ~Over(tr.gsm, thread, phone.link)
         /\ fifo \notin Status200 \cup {"ACK"}
         /\ tr.sip # "Active"
         /\ thread.pc \notin {"ack", "call"}
         /\ thread.wait \notin Rejecting
<1>1. thread.pc # "done"
  BY DEF Loop
<1>2. ~Over(tr.gsm, thread, phone.link)
  BY <1>1 DEF Over, Unanswered
<1>3. Status200 \cup {"ACK"} = CallAnswer \cup LateAnswer
  BY DEF Status200, CallAnswer, LateAnswer
<1> QED  BY <1>2, <1>3 DEF AnswerInv, Unanswered

\* abortCall() and abortAndRemoveCall() settle it.
LEMMA AbortSettles ==
  ASSUME CallInv, EndInv, AnswerInv, thread.pc \in Loop, fifo' \in {fifo, Empty},
         NEW e \in Transaction, e.gsm = tr.gsm, e.removed = tr.removed,
         abortAndRemoveCall(e) \/ \E turn : abortCall(e, turn)
  PROVE  AnswerInv'
<1>1. thread \in Thread /\ phone \in Phone /\ ~e.removed
  BY AtWork
<1>2. Sends
  BY ClearingSends
<1>3. CASE Done
  <2>1. thread'.pc = "done"
    BY <1>3 DEF Done, Go
  <2> QED  BY <1>2, <2>1, Settles DEF Over
<1>4. ASSUME NEW turn, abortCall(e, turn) PROVE AnswerInv'
  <2>1. tr'.gsm = "Null"
    BY <1>1, <1>4, CallEnds DEF EndInv
  <2> QED  BY <1>2, <2>1, Settles DEF Ended
<1> QED  BY <1>3, <1>4 DEF abortAndRemoveCall

LEMMA CancelSettles ==
  ASSUME CallInv, EndInv, AnswerInv, thread.pc \in Loop, NEW e \in Transaction,
         e.gsm = tr.gsm, e.removed = tr.removed, CancelledOrFailed(e)
  PROVE  AnswerInv'
<1>1. /\ "Canceled" \in SIPState /\ "Fail" \in SIPState /\ "CANCEL" \in {"BYE", "CANCEL", "Response"}
      /\ fifo' = Empty
  BY DEF SIPState, CancelledOrFailed
<1>2. CASE fifo = "CANCEL"
  <2> DEFINE g == save(setSIP(e, "Canceled"), "CANCEL")
  <2>1. g \in Transaction /\ g.removed = tr.removed /\ g.gsm = tr.gsm
    BY <1>1, SetAndSave
  <2>2. abortAndRemoveCall(g)
    BY <1>2 DEF CancelledOrFailed
  <2> HIDE DEF g
  <2> QED  BY <1>1, <2>1, <2>2, AbortSettles
<1>3. CASE fifo # "CANCEL"
  <2> DEFINE g == setSIP(e, "Fail")
  <2>1. g \in Transaction /\ g.removed = tr.removed /\ g.gsm = tr.gsm
    BY <1>1, SIPSide
  <2>2. abortAndRemoveCall(g)
    BY <1>3 DEF CancelledOrFailed
  <2> HIDE DEF g
  <2> QED  BY <1>1, <2>1, <2>2, AbortSettles
<1> QED  BY <1>2, <1>3

\* A message of the phone is dispatched: one that clears settles it.
LEMMA DispatchAnswers ==
  ASSUME CallInv, EndInv, AnswerInv, thread.pc \in Loop, thread.wait = "none", thread.turn = "gsm",
         thread.pc \notin {"ack", "call"}, NEW yes, yes = "cleared" \/ thread.pc = "assign", NEW no,
         tr.gsm \notin Ended,
         callManagementDispatchGSM(yes, no)
  PROVE  AnswerInv'
<1> DEFINE m == Head(up)
<1>0. /\ tr \in Transaction /\ thread \in Thread /\ phone \in Phone /\ thread.pc # "done"
      /\ up # <<>> /\ GoodMessage(tr, m) /\ Sends
  BY AtWork, QueueServed, DispatchSends DEF callManagementDispatchGSM, Kept
<1>1. Over(tr.gsm, thread, phone.link) => thread.pc = "assign" /\ ~phone.link
  BY <1>0 DEF Over
<1>2. ASSUME thread'.pc = thread.pc, thread'.wait \notin Rejecting, tr'.sip = tr.sip,
             phone' = phone, UNCHANGED <<net, peer>> \/ Send("INFO")
      PROVE  AnswerInv'
  BY <1>0, <1>1, <1>2, Passes DEF Over
<1>3. CASE dispatchSetup(m, no)
  <2>1. tr'.sip = tr.sip
    <3>1. /\ {"MTCConfirmed", "CallReceived", "Active"} \subseteq GSMState
          /\ {"301", "303"} \subseteq Timer
      BY DEF GSMState, Timer
    <3>2. \E f \in Transaction, st \in {"MTCConfirmed", "CallReceived", "Active"} :
            SetUp(m) = setGSM(f, st) /\ f.sip = tr.sip
      <4>1. resetTimer(tr, "303") \in Transaction /\ resetTimer(tr, "303").sip = tr.sip
        BY <1>0, <3>1, GSMSide DEF Alike
      <4>2. /\ setTimer(resetTimer(tr, "303"), "301") \in Transaction
            /\ setTimer(resetTimer(tr, "303"), "301").sip = tr.sip
        BY <3>1, <4>1, GSMSide DEF Alike
      <4>3. setTimer(tr, "301") \in Transaction /\ setTimer(tr, "301").sip = tr.sip
        BY <1>0, <3>1, GSMSide DEF Alike
      <4>4. resetTimers(tr) \in Transaction /\ resetTimers(tr).sip = tr.sip
        BY <1>0, GSMSide DEF Alike
      <4> QED  BY <4>2, <4>3, <4>4 DEF SetUp
    <3>3. PICK f \in Transaction, st \in {"MTCConfirmed", "CallReceived", "Active"} :
            SetUp(m) = setGSM(f, st) /\ f.sip = tr.sip
      BY <3>2
    <3>4. setGSM(f, st).sip = f.sip
      BY <3>1, GSMSide DEF Alike
    <3>5. tr' = SetUp(m)
      BY <1>3 DEF dispatchSetup
    <3> QED  BY <3>3, <3>4, <3>5
  <2> QED  BY <1>2, <1>3, <2>1 DEF dispatchSetup, Then, Go, Rejecting
<1>4. CASE dispatchDTMF(no)
  <2>1. thread'.pc = thread.pc /\ thread'.wait = "INFO"
    BY <1>0, <1>4 DEF dispatchDTMF, WaitFor, Thread
  <2> QED  BY <1>2, <1>4, <2>1 DEF dispatchDTMF, Rejecting
<1>5. {"Null", "ReleaseRequest"} \subseteq Ended \cap GSMState
  BY DEF Ended, GSMState
<1>6. resetTimers(tr) \in Transaction
  BY <1>0, GSMSide DEF Alike
<1>7. ASSUME tr'.gsm \in Ended PROVE AnswerInv'
  BY <1>0, <1>7, Settles
<1>8. CASE dispatchReleaseComplete(yes)
  BY <1>5, <1>6, <1>7, <1>8, GSMSide DEF dispatchReleaseComplete
<1>9. CASE m = "Release" /\ dispatchRelease(yes)
  <2>1. "BYE" \in tr.saved
    BY <1>0, <1>9 DEF GoodMessage
  <2> DEFINE e == setGSM(resetTimers(tr), "Null")
  <2>2. e \in Transaction /\ e.gsm = "Null"
    BY <1>5, <1>6, GSMSide DEF Alike
  <2>3. tr' = setSIP(e, "Cleared")
    BY <1>9, <2>1 DEF dispatchRelease, MTDSendBYEOK
  <2> HIDE DEF e
  <2>4. tr'.gsm = "Null"
    BY <2>2, <2>3, SIPSide DEF SIPState
  <2> QED  BY <1>5, <1>7, <2>4
<1> DEFINE r == setGSM(setTimer(resetTimers(tr), "308"), "ReleaseRequest")
<1>10. r \in Transaction /\ r.gsm = "ReleaseRequest"
  <2>1. setTimer(resetTimers(tr), "308") \in Transaction
    BY <1>6, GSMSide DEF Alike, Timer
  <2> QED  BY <1>5, <2>1, GSMSide DEF Alike
<1>11. {"BYE", "CANCEL"} \subseteq {"BYE", "CANCEL", "Response"} /\ {"MODClearing", "MODCanceling"} \subseteq SIPState
  BY DEF SIPState
<1>12. CASE dispatchStatus(yes)
  <2>1. tr' = save(setSIP(r, "MODCanceling"), "CANCEL")
    BY <1>12 DEF dispatchStatus
  <2> HIDE DEF r
  <2>2. tr'.gsm = "ReleaseRequest"
    BY <1>10, <1>11, <2>1, SetAndSave
  <2> QED  BY <1>5, <1>7, <2>2
<1>13. CASE dispatchDisconnect(no)
  <2>1. MODSendBYE(r, no) \/ MODSendCANCEL(r, "CANCELOK and 487", no) \/ MODSendERROR(r, no)
    BY <1>13 DEF dispatchDisconnect
  <2> HIDE DEF r
  <2>2. \/ tr' = save(setSIP(r, "MODClearing"), "BYE")
        \/ tr' = save(setSIP(r, "MODCanceling"), "CANCEL")
        \/ tr' = setSIP(r, "MODCanceling")
    BY <2>1 DEF MODSendBYE, MODSendCANCEL, MODSendERROR
  <2>3. tr'.gsm = "ReleaseRequest"
    <3>1. /\ save(setSIP(r, "MODClearing"), "BYE").gsm = r.gsm
          /\ save(setSIP(r, "MODCanceling"), "CANCEL").gsm = r.gsm
      <4>1. /\ "BYE" \in {"BYE", "CANCEL", "Response"} /\ "CANCEL" \in {"BYE", "CANCEL", "Response"}
            /\ "MODClearing" \in SIPState /\ "MODCanceling" \in SIPState
        BY DEF SIPState
      <4> QED  BY <1>10, <4>1, SetAndSave
    <3>2. setSIP(r, "MODCanceling").gsm = r.gsm
      BY <1>10, <1>11, SIPSide
    <3> QED  BY <1>10, <2>2, <3>1, <3>2
  <2> QED  BY <1>5, <1>7, <2>3
<1>14. CASE dispatchDetach(yes)
  <2>1. thread'.pc = thread.pc /\ thread'.turn = yes
    BY <1>0, <1>14, SIPEnds DEF dispatchDetach
  <2>2. ~phone'.link
    BY <1>0, <1>14 DEF dispatchDetach, Phone
  <2> QED  BY <1>0, <2>1, <2>2, Settles DEF Over
<1> QED
  BY <1>3, <1>4, <1>8, <1>9, <1>12, <1>13, <1>14 DEF callManagementDispatchGSM

LEMMA AnswerSignalling ==
  ASSUME CallInv, EndInv, AnswerInv, Unanswered, updateGSMSignalling
  PROVE  AnswerInv'
<1>0. /\ thread.pc \in Loop \ {"assign"} /\ thread.wait = "none" /\ thread.turn = "gsm"
  BY DEF updateGSMSignalling, Cleared, TimerExpired, Dispatched, NothingRead, Updates, At
<1>1. /\ ~Over(tr.gsm, thread, phone.link) /\ thread.pc \notin {"ack", "call"} /\ tr \in Transaction
  BY <1>0, NotYet, AtWork
<1>2. CASE Cleared
  <2>1. thread'.pc = thread.pc /\ thread'.turn = "cleared" /\ Sends
    BY <1>2 DEF Cleared, Then, Go, Sends
  <2> QED  BY <1>1, <2>1, Settles DEF Over
<1>3. CASE TimerExpired
  BY <1>0, <1>1, <1>3, AbortSettles DEF TimerExpired
<1>4. CASE Dispatched
  BY <1>0, <1>1, <1>4, DispatchAnswers DEF Dispatched, Unanswered
<1>5. CASE NothingRead
  <2>1. thread'.pc = thread.pc /\ thread'.wait = "none" /\ Sends
    BY <1>5 DEF NothingRead, Then, Go, Sends
  <2> QED  BY <1>1, <1>5, <2>1, Passes DEF NothingRead, Rejecting
<1> QED  BY <1>2, <1>3, <1>4, <1>5 DEF updateGSMSignalling

\* MTCStarter() and assignTCHF().
LEMMA AnswerSetup ==
  ASSUME CallInv, EndInv, AnswerInv, Unanswered,
         \/ QuitDefunct \/ SetupCleared \/ Confirm
         \/ AssignStray \/ Assigned \/ AssignmentFails \/ AssignmentLost
  PROVE  AnswerInv'
<1>0. /\ thread.pc \in Loop /\ thread.wait = "none"
      /\ AssignStray \/ Assigned \/ AssignmentFails \/ AssignmentLost =>
           thread.pc = "assign" /\ thread.turn = "gsm"
  BY DEF QuitDefunct, Defunct, SetupCleared, Confirm, AssignStray, Assigned, AssignmentFails,
     AssignmentLost, At, Loop
<1>1. /\ tr \in Transaction /\ ~tr.removed /\ thread \in Thread /\ phone \in Phone
      /\ thread.pc # "done" /\ tr.gsm \notin Ended
  BY <1>0, AtWork DEF Unanswered
<1>2. Sends
  <2>1. Controller
    BY DEF Controller
  <2> QED  BY <2>1, ControllerSends
<1>3. ASSUME Done PROVE AnswerInv'
  <2>1. thread'.pc = "done"
    BY <1>3 DEF Done, Go
  <2> QED  BY <1>2, <2>1, Settles DEF Over
<1>4. CASE QuitDefunct
  BY <1>3, <1>4 DEF QuitDefunct
<1>5. CASE SetupCleared
  BY <1>0, <1>1, <1>3, <1>5, AbortSettles DEF SetupCleared
<1>6. CASE Confirm
  <2>1. thread.pc = "confirm" /\ thread.turn = "sip"
    BY <1>6 DEF Confirm, At
  <2>2. ~Over(tr.gsm, thread, phone.link) /\ tr.sip # "Active"
    BY <1>0, <2>1, NotYet
  <2>3. CASE CancelledOrFailed(tr)
    BY <1>0, <1>1, <2>3, CancelSettles
  <2>4. CASE Go("assign", "gsm") /\ UNCHANGED <<tr, phone, net, peer>>
    <3>1. thread'.pc = "assign" /\ thread'.wait = "none"
      BY <2>4 DEF Go
    <3> QED  BY <1>2, <2>2, <2>4, <3>1, Passes DEF Rejecting
  <2>5. CASE Then("gsm") /\ tr' = setSIP(tr, "Proceeding") /\ UNCHANGED <<net, peer>>
    <3>1. thread'.pc = "confirm" /\ thread'.wait = "none"
      BY <2>1, <2>5 DEF Then, Go
    <3>2. tr'.sip = "Proceeding"
      BY <1>1, <2>5, SIPSide DEF SIPState
    <3> QED  BY <1>2, <2>2, <2>5, <3>1, <3>2, Passes DEF Rejecting
  <2> QED  BY <1>6, <2>3, <2>4, <2>5 DEF Confirm
<1>7. CASE AssignStray
  BY <1>0, <1>1, <1>7, DispatchAnswers DEF AssignStray
<1>8. CASE Assigned
  <2>1. ~Over(tr.gsm, thread, phone.link)
    BY <1>0, <1>1, <1>8 DEF Over, Assigned
  <2>2. ASSUME NEW pc \in {"ringing", "alerting"}, NEW turn, Go(pc, turn) PROVE AnswerInv'
    <3>1. thread'.pc = pc /\ thread'.wait = "none"
      BY <2>2 DEF Go
    <3> QED  BY <1>2, <1>8, <2>1, <3>1, Passes DEF Assigned, Rejecting
  <2> QED  BY <1>3, <1>8, <2>2 DEF Assigned
<1>9. CASE AssignmentFails
  <2>1. thread'.pc = "assign"
    BY <1>0, <1>1, <1>9, SIPEnds DEF AssignmentFails
  <2>2. ~phone'.link
    BY <1>1, <1>9, Left DEF AssignmentFails
  <2> QED  BY <1>2, <2>1, <2>2, Settles DEF Over
<1>10. CASE AssignmentLost
  BY <1>3, <1>10 DEF AssignmentLost
<1> QED  BY <1>4, <1>5, <1>6, <1>7, <1>8, <1>9, <1>10

\* MTCController(): an ACK is that of the 200.
LEMMA AnswerMTC ==
  ASSUME CallInv, EndInv, AnswerInv, Unanswered, AwaitConnect \/ AwaitACK
  PROVE  AnswerInv'
<1>1. /\ thread.pc \in Loop \ {"assign"} /\ thread.turn = "sip" /\ thread.wait = "none"
      /\ AwaitConnect => thread.pc = "alerting"
      /\ AwaitACK => thread.pc = "connecting"
      /\ tr \in Transaction /\ ~tr.removed
  BY AtWork DEF AwaitConnect, AwaitACK, At, Loop
<1>2. /\ ~Over(tr.gsm, thread, phone.link) /\ fifo # "ACK" /\ tr.sip # "Active"
  BY <1>1, NotYet
<1>3. Sends
  <2>1. Controller
    BY DEF Controller
  <2> QED  BY <2>1, ControllerSends
<1>4. ASSUME MTCSendOK(tr) PROVE AnswerInv'
  <2>1. thread'.pc = "connecting" /\ thread'.wait = "none"
    BY <1>4 DEF MTCSendOK, Go
  <2>2. tr'.sip = "Connecting"
    BY <1>1, <1>4, SIPSide DEF MTCSendOK, SIPState
  <2> QED  BY <1>2, <1>3, <1>4, <2>1, <2>2, Passes DEF MTCSendOK, Rejecting
<1>5. CASE AwaitConnect
  <2> DEFINE e == IF tr.gsm = "CallReceived" THEN setSIP(tr, "Proceeding") ELSE tr
  <2>1. e \in Transaction /\ e.removed = tr.removed /\ e.gsm = tr.gsm /\ e.sip # "Active"
    BY <1>1, <1>2, SIPSide DEF SIPState
  <2>2. \/ MTCSendOK(tr)
        \/ abortAndRemoveCall(e) /\ fifo' = fifo
        \/ CancelledOrFailed(e)
        \/ tr' = e /\ Then("gsm") /\ UNCHANGED <<phone, net, peer>>
    BY <1>5 DEF AwaitConnect
  <2> HIDE DEF e
  <2>3. CASE tr' = e /\ Then("gsm") /\ UNCHANGED <<phone, net, peer>>
    <3>1. thread'.pc = "alerting" /\ thread'.wait = "none"
      BY <1>1, <1>5, <2>3 DEF Then, Go
    <3> QED  BY <1>2, <1>3, <2>1, <2>3, <3>1, Passes DEF Rejecting
  <2> QED  BY <1>1, <1>4, <2>1, <2>2, <2>3, AbortSettles, CancelSettles
<1>6. CASE AwaitACK
  BY <1>1, <1>2, <1>4, <1>6, CancelSettles DEF AwaitACK
<1> QED  BY <1>5, <1>6

\* MOCCheckForOK() has read no answer.
LEMMA CheckedSIP ==
  ASSUME tr \in Transaction, NEW m, m \notin Status200
  PROVE  CheckedForOK(m).sip # "Active" /\ (tr.sip # "Active" => NothingHeard.sip # "Active")
<1> DEFINE s == CASE m = "Trying" -> "Proceeding"
                  [] m = "Ringing" -> "Ringing"
                  [] m \in Status200 -> "Active"
                  [] m = "Busy" -> "Busy"
                  [] OTHER -> "Fail"
           e == save(setSIP(tr, s), "Response")
<1>1. s \in SIPState /\ s # "Active" /\ "Response" \in {"BYE", "CANCEL", "Response"}
  BY DEF SIPState
<1>2. e = CheckedForOK(m)
  BY DEF CheckedForOK
<1> HIDE DEF s
<1>3. e.sip # "Active"
  BY <1>1, SetAndSave
<1>4. tr.sip # "Active" => NothingHeard.sip # "Active"
  BY SIPSide DEF NothingHeard, SIPState
<1> HIDE DEF e
<1> QED  BY <1>2, <1>3, <1>4

\* MOCController(): a 200 is that of the INVITE.
LEMMA AnswerMOC ==
  ASSUME CallInv, EndInv, FinalInv, AnswerInv, Unanswered,
         AwaitRinging \/ AwaitAnswer \/ Answered \/ Acknowledged
  PROVE  AnswerInv'
<1>1. /\ thread.pc \in Loop \ {"assign"} /\ tr \in Transaction /\ ~tr.removed
      /\ thread.turn \in {"sip", "check"} /\ thread.wait = "none"
      /\ AwaitRinging => thread.pc = "ringing"
      /\ AwaitAnswer \/ Answered => thread.pc = "answer"
      /\ Acknowledged => thread.pc = "ack"
  BY AtWork DEF AwaitRinging, AwaitAnswer, Answered, Acknowledged, At, Loop
<1>2. /\ ~Over(tr.gsm, thread, phone.link) /\ fifo \notin Status200 /\ tr.sip # "Active"
      /\ thread.pc # "ack"
  BY <1>1, NotYet
<1>3. Sends
  <2>1. Controller
    BY DEF Controller
  <2> QED  BY <2>1, ControllerSends
<1> DEFINE e == CheckedForOK(fifo)
<1>4. /\ e \in Transaction /\ e.removed = tr.removed /\ e.gsm = tr.gsm /\ e.sip # "Active"
      /\ NothingHeard.sip # "Active"
  BY <1>1, <1>2, CheckedKeeps, CheckedSIP
<1>5. ASSUME NEW pc \in {"ringing", "answer"}, NEW turn, Go(pc, turn), tr'.sip # "Active",
             UNCHANGED <<net, peer>> \/ Send("INVITE")
      PROVE  AnswerInv'
  <2>1. thread'.pc = pc /\ thread'.wait = "none"
    BY <1>5 DEF Go
  <2> QED  BY <1>2, <1>3, <1>5, <2>1, Passes DEF Rejecting
<1>6. CASE AwaitRinging
  <2>1. \/ abortAndRemoveCall(tr) /\ fifo' = fifo
        \/ /\ tr' = NothingHeard /\ Go("ringing", "gsm")
           /\ UNCHANGED <<net, peer>> \/ Send("INVITE")
        \/ /\ e.sip = "Ringing" /\ tr' = setGSM(e, "CallReceived") /\ Go("answer", "sip")
           /\ UNCHANGED <<net, peer>>
        \/ tr' = e /\ Go("ringing", "gsm") /\ UNCHANGED <<net, peer>>
        \/ abortAndRemoveCall(e) /\ fifo' = Empty
        \/ tr' = GSMCleared(e)
    BY <1>1, <1>4, <1>6 DEF AwaitRinging, Then
  <2> HIDE DEF e
  <2>2. setGSM(e, "CallReceived").sip = e.sip /\ GSMCleared(e).gsm = "Null"
    BY <1>4, GSMSide DEF Alike, GSMState
  <2>3. CASE tr' = GSMCleared(e)
    BY <1>3, <2>2, <2>3, Settles DEF Ended
  <2> QED  BY <1>1, <1>4, <1>5, <2>1, <2>2, <2>3, AbortSettles
<1>7. CASE AwaitAnswer
  <2>1. (tr' = NothingHeard \/ tr' = e) /\ Go("answer", "gsm") /\ UNCHANGED <<net, peer>>
    BY <1>1, <1>7 DEF AwaitAnswer, Then
  <2> HIDE DEF e
  <2> QED  BY <1>4, <1>5, <2>1
<1>8. CASE Answered
  <2>1. \/ abortAndRemoveCall(tr) /\ fifo' = fifo
        \/ Go("answer", "sip") /\ UNCHANGED <<tr, net, peer>>
    BY <1>1, <1>2, <1>8 DEF Answered, Then
  <2> HIDE DEF e
  <2> QED  BY <1>1, <1>2, <1>5, <2>1, AbortSettles
<1> QED  BY <1>1, <1>2, <1>6, <1>7, <1>8

LEMMA AnswerWaits ==
  ASSUME CallInv, AnswerInv, WaitReads \/ WaitEnds \/ WaitRepeats
  PROVE  AnswerInv'
<1>1. thread \in Thread /\ tr \in Transaction /\ GoodThread(tr, thread) /\ phone' = phone /\ Sends
  BY SelfInHand, WaitSends DEF CallInv, GoodThread, WaitReads, WaitEnds, WaitRepeats, Crash
<1>2. CASE WaitRepeats
  <2>1. /\ thread.wait \in {"BYEOK", "CANCELOK", "CANCELOK and 487", "ERRORACK", "INFO"}
    BY <1>1, <1>2 DEF WaitRepeats, Thread, Wait
  <2>2. UNCHANGED <<tr, thread>>
    BY <1>1, <1>2, <2>1 DEF WaitRepeats, GoodThread
  <2>3. CASE thread.wait \in Rejecting
    <3>1. Talked(peer) \/ Over(tr.gsm, thread, phone.link)
      BY <2>3 DEF AnswerInv
    <3>2. thread.pc \in {"ack", "call"} => Talked(peer) \/ tr.gsm \in Ended
      BY DEF AnswerInv
    <3> QED  BY <1>1, <2>2, <3>1, <3>2, Settles
  <2>4. CASE thread.wait \in {"BYEOK", "INFO"}
    <3>1. Send("BYE") \/ Send("INFO")
      BY <1>1, <1>2, <2>1, <2>4 DEF WaitRepeats, GoodThread
    <3>2. CASE thread.pc \in {"ack", "call"}
      BY <1>1, <2>2, <3>2, Settles DEF AnswerInv
    <3>3. CASE thread.pc \notin {"ack", "call"}
      BY <1>1, <2>2, <3>1, <3>3, Passes
    <3> QED  BY <3>2, <3>3
  <2> QED  BY <2>1, <2>3, <2>4 DEF Rejecting
<1>3. CASE WaitReads \/ WaitEnds
  <2>1. /\ thread'.pc = thread.pc /\ thread'.turn = thread.turn
        /\ thread'.wait \in Rejecting => thread.wait \in Rejecting
    BY <1>1, <1>3 DEF WaitReads, WaitEnds, Thread, After, Rejecting
  <2>2. tr'.gsm = tr.gsm /\ (tr'.sip = "Active" => tr.sip = "Active")
    <3> DEFINE g == Waited(thread.wait, tr)
    <3>1. g \in Transaction /\ g.gsm = tr.gsm
      BY <1>1, WaitedTr
    <3>2. g.sip = "Active" => tr.sip = "Active"
      BY <1>1, SIPSide DEF Waited, SIPState
    <3>3. tr' = g \/ tr' = save(g, "Response") \/ tr' = tr
      BY <1>3 DEF WaitReads, WaitEnds
    <3> HIDE DEF g
    <3> QED  BY <3>1, <3>2, <3>3, SIPSide
  <2>3. UNCHANGED <<net, peer>>
    BY <1>3 DEF WaitReads, WaitEnds
  <2>4. CASE thread.pc \in {"ack", "call"}
    BY <1>1, <2>2, <2>4, Settles DEF AnswerInv
  <2>5. CASE thread.pc \notin {"ack", "call"}
    BY <1>1, <2>1, <2>2, <2>3, <2>5, Passes DEF Over
  <2> QED  BY <2>4, <2>5
<1> QED  BY <1>2, <1>3

\* The remote party answers, and what it has sent is lost or comes.
LEMMA AnswerOthers ==
  ASSUME CallInv, AnswerInv,
         \/ Tick \/ Terminate \/ RemoteParty \/ User
         \/ \E m \in SIPMessage : Deliver(m) \/ Lose(m)
  PROVE  AnswerInv'
<1>1. tr \in Transaction /\ phone \in Phone
  BY DEF CallInv, GoodTr
<1>2. thread' = thread /\ tr'.gsm = tr.gsm /\ tr'.sip = tr.sip
  BY <1>1 DEF Tick, Terminate, RemoteParty, PeerRings, PeerAnswers, PeerRejects, PeerCancels, PeerHangsUp,
     PeerRepeats, PeerGivesUp, PeerSends, Deliver, Lose, Transaction, User, PhoneConfirms,
     PhoneAlerts, UserAnswers, PhoneRejects, UserHangsUp, UserSwitchesOff, PhoneReports,
     UserPressesKey, LinkFails, PhoneSends
<1>3. ~phone.link => ~phone'.link
  BY <1>1 DEF Tick, Terminate, RemoteParty, PeerRings, PeerAnswers, PeerRejects, PeerCancels, PeerHangsUp,
     PeerRepeats, PeerGivesUp, PeerSends, Deliver, Lose, Phone, User, PhoneConfirms,
     PhoneAlerts, UserAnswers, PhoneRejects, UserHangsUp, UserSwitchesOff, PhoneReports,
     UserPressesKey, LinkFails, PhoneSends
<1>4. Over(tr.gsm, thread, phone.link) => Over(tr'.gsm, thread', phone'.link)
  BY <1>2, <1>3 DEF Over
<1>5. ASSUME Talked(peer) => Talked(peer'),
             CallAnswer \cap (net' \cup {fifo'}) # {} => Talked(peer'),
             LateAnswer \cap (net' \cup {fifo'}) # {} =>
               Talked(peer') \/ LateAnswer \cap (net \cup {fifo}) # {}
      PROVE  AnswerInv'
  BY <1>2, <1>4, <1>5 DEF AnswerInv
<1>6. CASE Tick \/ Terminate \/ User
  <2>1. UNCHANGED <<net, fifo, peer>>
    BY <1>6 DEF Tick, Terminate, User, PhoneConfirms, PhoneAlerts, UserAnswers, PhoneRejects,
       UserHangsUp, UserSwitchesOff, PhoneReports, UserPressesKey, LinkFails, PhoneSends
  <2> QED  BY <1>5, <2>1 DEF AnswerInv
<1>7. CASE \E m \in SIPMessage : Deliver(m) \/ Lose(m)
  <2>1. net' \cup {fifo'} \subseteq net \cup {fifo} /\ peer' = peer
    BY <1>7 DEF Deliver, Lose
  <2> QED  BY <1>5, <2>1 DEF AnswerInv
<1>8. CASE PeerGivesUp
  <2>1. UNCHANGED <<net, fifo>> /\ (Talked(peer) => Talked(peer'))
    BY <1>8 DEF PeerGivesUp, Talked
  <2> QED  BY <1>5, <2>1 DEF AnswerInv
<1>9. ASSUME NEW next, NEW m, PeerSends(next, m), Talked(peer) => Talked(next),
             m \notin LateAnswer, m \in CallAnswer => Talked(next)
      PROVE  AnswerInv'
  <2>1. peer' = next /\ net' = net \cup {m} /\ fifo' = fifo
    BY <1>9 DEF PeerSends
  <2> QED  BY <1>5, <1>9, <2>1 DEF AnswerInv
<1>10. CASE RemoteParty
  BY <1>8, <1>9, <1>10 DEF RemoteParty, PeerRings, PeerAnswers, PeerRejects, PeerCancels, PeerHangsUp,
     PeerRepeats, Talked, CallAnswer, LateAnswer
<1> QED  BY <1>6, <1>7, <1>10

LEMMA AnswerInit == Init => AnswerInv
<1> SUFFICES ASSUME Init PROVE AnswerInv
  OBVIOUS
<1>1. tr.sip \in {"Starting", "Proceeding"} /\ thread.pc \in {"assign", "confirm"} /\ thread.wait = "none"
  BY CallAssumption DEF Init, NewTransaction
<1>2. fifo = Empty /\ net \subseteq {"Trying"}
  BY DEF Init
<1> QED  BY <1>1, <1>2 DEF AnswerInv, CallAnswer, LateAnswer, Rejecting, Empty

LEMMA AnswerNext ==
  ASSUME CallInv, EndInv, FinalInv, AnswerInv, [Next]_vars
  PROVE  AnswerInv'
<1>1. CASE Controller /\ ~Unanswered
  <2>1. Sends
    BY <1>1, ControllerSends
  <2>2. tr.gsm \in Ended => tr'.gsm \in Ended
    BY FinalNext DEF StaysFinal
  <2> QED  BY <1>1, <2>1, <2>2, Settles DEF Unanswered
<1>2. CASE Controller /\ Unanswered
  <2>1. CASE RadioFailure \/ updateSIPSignalling \/ CheckTermination
    <3>1. thread.pc = "call"
      BY <2>1 DEF RadioFailure, updateSIPSignalling, CheckTermination, At
    <3> QED  BY <1>2, <3>1 DEF AnswerInv, Unanswered
  <2>2. CASE Remove \/ Leave
    <3>1. thread'.pc = "done" /\ Sends
      BY <2>2 DEF Remove, Leave, Done, Go, Sends
    <3> QED  BY <3>1, Settles DEF Over
  <2> QED  BY <1>2, <2>1, <2>2, AnswerSignalling, AnswerSetup, AnswerMTC, AnswerMOC, AnswerWaits DEF Controller
<1>3. CASE UNCHANGED vars
  BY <1>3 DEF vars, AnswerInv
<1> QED  BY <1>1, <1>2, <1>3, AnswerOthers DEF Next

\* A call that is up towards the phone, or waits for its Connect Acknowledge, is one that the remote
\* party has answered or has seen answered, NoPhantomCall: the 200 that answers a late CANCEL and the
\* ACK of a final error come only to a call that is cleared towards the phone before.
THEOREM NeverPhantom == NoKeys => (Spec => []NoPhantomCall)
<1> SUFFICES ASSUME NoKeys PROVE Spec => []NoPhantomCall
  OBVIOUS
<1>1. AnswerInv => NoPhantomCall
  BY DEF AnswerInv, NoPhantomCall, Talked, Ended
<1>2. CallInv /\ EndInv /\ FinalInv /\ [Next]_vars => FinalInv'
  BY FinalNext DEF StaysFinal
<1>3. CallInv /\ EndInv /\ FinalInv /\ AnswerInv /\ [Next]_vars => AnswerInv'
  BY AnswerNext
<1> QED  BY <1>1, <1>2, <1>3, FinalInit, AnswerInit, CallInvariant, CallEnd, PTL DEF Spec

==============================================================================
