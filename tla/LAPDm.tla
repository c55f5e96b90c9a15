------------------------------- MODULE LAPDm -------------------------------
(***************************************************************************)
(* A data link between the base station and a phone: two LAPDm entities of *)
(* the same class (mC = 1 and mC = 0), each with its layer 3 thread and    *)
(* its service loop, over a radio path that loses frames and, towards the  *)
(* phone, repeats the last one (the filler table of the transceiver).  The *)
(* channel serves one phone after another; each starts a session.          *)
(***************************************************************************)
EXTENDS LAPDmEntity

CONSTANTS
  Message,       \* Message[e]: the L3 messages e has to send, in order
  Standard,      \* the ends that are phones built to GSM 04.06, not copies of the class
  PromptTimer,   \* the thread in sendUFrameSABM() starts T200 before an answer is received
  PatientT200,   \* T200 is longer than a round trip: it expires only once the path is empty
  MaxRequests,   \* bound: MaxRequests[e], the requests of the L3 of e, beside its messages
  MaxSessions    \* bound: phones the channel serves

End == {"BTS", "MS"}

ASSUME LinkAssumption ==
  /\ Message \in [End -> Seq(Seq(Segment) \ {<<>>})]
  /\ Standard \subseteq {"MS"}
  /\ PromptTimer \in BOOLEAN
  /\ PatientT200 \in BOOLEAN
  /\ MaxRequests \in [End -> Nat]
  /\ MaxSessions \in Nat

VARIABLES
  ent,        \* the two entities
  sent,       \* sent[e]: how many of its messages the L3 of e has handed over
  sap0,       \* sap0[e]: the link of SAP0 is up at e, for another SAP's mMaster
  session,    \* number of the phone the channel serves
  base,       \* base[e]: sent[e] when the session started
  requests    \* requests[e]: how many requests the L3 of e has made

vars == <<ent, sent, sap0, session, base, requests>>

Peer(e) == IF e = "BTS" THEN "MS" ELSE "BTS"

\* The type invariant.
TypeOK ==
  /\ ent \in [End -> Entity]
  /\ sent \in [End -> Nat]
  /\ sap0 \in [End -> BOOLEAN]
  /\ session \in Nat
  /\ base \in [End -> Nat]
  /\ requests \in [End -> Nat]

----------------------------------------------------------------------------
(* Where a session starts *)

\* A standard phone looks at T200 whenever it runs.
Sleeps(e, s) == [s EXCEPT !.asleep = @ /\ e \notin Standard]

\* Only the signalling entity of the base station waits for the first frame of the phone:
\* the phone is tuned to the channel, and another SAP starts after SAP0 has been used.
Opened(e, s) ==
  Sleeps(e, [open(s) EXCEPT !.l1 = IF SAPI = 0 /\ e = "BTS" THEN "fresh" ELSE "open"])

Init ==
  /\ ent = [e \in End |-> Opened(e, NewEntity)]
  /\ sent = [e \in End |-> 0]
  /\ sap0 = [e \in End |-> TRUE]
  /\ session = 1
  /\ base = [e \in End |-> 0]
  /\ requests = [e \in End |-> 0]

\* The channel is opened for another phone.  L1 is recyclable only some time (T3109, T3111)
\* after it was closed: the air is empty.  The thread of the last session may still have to
\* return from a send or a release, but it has sent the DISC of a RELEASE: that wait was
\* signalled when the link was released, and the DISC follows it at once.
Reopen ==
  /\ SAPI = 0
  /\ session < MaxSessions
  /\ ent["BTS"].l1 = "closed"
  /\ ent["BTS"].thread \in {"idle", "data", "disc"}
  /\ \A e \in End : ent[e].tx = <<>>
  /\ ent' = [e \in End |-> Opened(e, IF e = "BTS" THEN ent[e] ELSE NewEntity)]
  /\ session' = session + 1
  /\ base' = sent
  /\ UNCHANGED <<sent, sap0, requests>>

----------------------------------------------------------------------------
(* The radio path and the service loop of e *)

\* A turn of the loop that leaves the entity in s goes on to the top of the loop.
Turn(e, s) == Sleeps(e, topOfServiceLoop(s, ~sap0[e]))

MayReceive(e) == PromptTimer => ent[e].thread \notin {"sabm", "sabmT200"}

Receive(e) ==
  LET p == Peer(e) IN
  /\ MayReceive(e)
  /\ ent[p].tx # <<>>
  /\ ent' = [ent EXCEPT ![p].tx = Tail(@), ![e] = Turn(e, fromL1(@, Head(ent[p].tx)))]
  /\ UNCHANGED <<sent, sap0, session, base, requests>>

\* The transceiver repeats the last burst it was given until it gets another.
ReceiveRepeated ==
  /\ MayReceive("MS")
  /\ Len(ent["BTS"].tx) = 1
  /\ ent' = [ent EXCEPT !["MS"] = Turn("MS", fromL1(@, Head(ent["BTS"].tx)))]
  /\ UNCHANGED <<sent, sap0, session, base, requests>>

Lose(e) ==
  /\ ent[e].tx # <<>>
  /\ ent' = [ent EXCEPT ![e].tx = Tail(@)]
  /\ UNCHANGED <<sent, sap0, session, base, requests>>

\* The code sends mSentFrame as it was; a phone that follows GSM 04.06 refreshes N(R).
Resent(e) ==
  LET f == ent[e].sentFrame
  IN  IF e \in Standard /\ f.type = "I" THEN [f EXCEPT !.nr = ent[e].VR] ELSE f

T200Expires(e) ==
  /\ ent[e].T200
  /\ ~ent[e].asleep
  /\ PatientT200 => \A x \in End : ent[x].tx = <<>>
  /\ ent' = [ent EXCEPT ![e] = Turn(e, T200Expiration(@, Resent(e)))]
  /\ UNCHANGED <<sent, sap0, session, base, requests>>

\* The loop waits for a frame in vain.
IdleTurn(e) ==
  /\ ~ent[e].asleep
  /\ ent' = [ent EXCEPT ![e] = Turn(e, @)]
  /\ UNCHANGED <<sent, sap0, session, base, requests>>

----------------------------------------------------------------------------
(* The layer 3 thread of e *)

\* In SAP0 only the phone establishes (GSM 04.06 5.4.1.1, asserted by the code).
MayEstablish(e) == SAPI # 0 \/ e = "MS"

Request(e, s) ==
  /\ requests[e] < MaxRequests[e]
  /\ ent' = [ent EXCEPT ![e] = s]
  /\ requests' = [requests EXCEPT ![e] = @ + 1]
  /\ UNCHANGED <<sent, sap0, session, base>>

Establish(e) ==
  /\ MayEstablish(e)
  /\ ent[e].thread = "idle"
  /\ ent[e].state # "AwaitingEstablish"
  /\ Request(e, establishRequest(ent[e]))

Release(e) == ent[e].thread = "idle" /\ Request(e, releaseRequest(ent[e]))

ForceRelease(e) == ent[e].thread = "idle" /\ Request(e, abnormalRelease(ent[e]))

\* Sent from another channel's thread once the phone has left this one, in SAP0 alone.
HardRelease(e) == SAPI = 0 /\ Request(e, hardRelease(ent[e]))

\* L3 waits for the ESTABLISH primitive before it sends (SMSControl.cpp, deliverSMSToMS).
Data(e) ==
  /\ ent[e].thread = "idle"
  /\ ent[e].state # "AwaitingEstablish"
  /\ sent[e] < Len(Message[e])
  /\ ent' = [ent EXCEPT ![e] = sendMultiframeData(@, Message[e][sent[e] + 1])]
  /\ sent' = [sent EXCEPT ![e] = @ + 1]
  /\ UNCHANGED <<sap0, session, base, requests>>

Continue(e, thread, s) ==
  /\ ent[e].thread = thread
  /\ ent' = [ent EXCEPT ![e] = s]
  /\ UNCHANGED <<sent, sap0, session, base, requests>>

AwaitEstablish(e) == Continue(e, "establish", awaitEstablish(ent[e]))

WriteSABM(e) == Continue(e, "sabm", writeSABM(ent[e]))

StartSABMTimer(e) == Continue(e, "sabmT200", startSABMTimer(ent[e]))

SendSegment(e) == ackWaitOver(ent[e]) /\ Continue(e, "data", sendSegment(ent[e]))

SendDISC(e) == mayDisconnect(ent[e]) /\ Continue(e, "release", sendDISC(ent[e]))

Released(e) ==
  ackWaitOver(ent[e]) /\ Continue(e, "disc", [ent[e] EXCEPT !.thread = "idle"])

ThreadStep(e) ==
  \/ AwaitEstablish(e)
  \/ WriteSABM(e)
  \/ StartSABMTimer(e)
  \/ SendSegment(e)
  \/ SendDISC(e)
  \/ Released(e)

----------------------------------------------------------------------------

\* SAP0 as seen from another SAP: its release closes L1, and the service loop of the other
\* SAP follows at its next turn.
MasterReleases(e) ==
  /\ SAPI # 0
  /\ sap0[e]
  /\ sap0' = [sap0 EXCEPT ![e] = FALSE]
  /\ ent' = [ent EXCEPT ![e].l1 = "closed"]
  /\ UNCHANGED <<sent, session, base, requests>>

ServiceLoop(e) == Receive(e) \/ T200Expires(e) \/ IdleTurn(e)

Layer3(e) ==
  \/ Establish(e)
  \/ Release(e)
  \/ ForceRelease(e)
  \/ HardRelease(e)
  \/ Data(e)
  \/ ThreadStep(e)

Next ==
  \/ \E e \in End : ServiceLoop(e) \/ Layer3(e) \/ Lose(e) \/ MasterReleases(e)
  \/ ReceiveRepeated
  \/ Reopen

Spec == Init /\ [][Next]_vars

\* Threads run and timers expire; nothing is assumed of the radio path, which may lose
\* every frame.
FairSpec ==
  /\ Spec
  /\ \A e \in End : /\ WF_vars(Receive(e))
                    /\ WF_vars(T200Expires(e))
                    /\ WF_vars(IdleTurn(e))
                    /\ WF_vars(ThreadStep(e))

----------------------------------------------------------------------------
(* Safety *)

Outstanding(s) == inMultiframe(s) /\ s.VS # s.VA

\* At most one I-frame of the base station is unacknowledged (k = 1): waitForAck() lets a
\* segment out only after the last one was acknowledged, whatever resets, acknowledgements
\* and retransmissions come between.
WindowOne == Outstanding(ent["BTS"]) => ent["BTS"].VS = Next8(ent["BTS"].VA)

\* While the base station has an unacknowledged I-frame, T200 runs and the service loop
\* will look at it: a writer blocked in waitForAck() is never forgotten.
OutstandingIsTimed == Outstanding(ent["BTS"]) => ent["BTS"].T200 /\ ~ent["BTS"].asleep

\* Layer 3 has been told the state of the link: in multiframe mode the last primitive it
\* was given is ESTABLISH, and with the link released it is not (but for another SAP that
\* has to follow a released SAP0, which serviceLoop() does silently).
Layer3Knows ==
  \A e \in End :
    /\ inMultiframe(ent[e]) => ent[e].l3 = "ESTABLISH"
    /\ sap0[e] /\ ent[e].state = "LinkReleased" => ent[e].l3 # "ESTABLISH"

\* A phone that is still to be heard on a reopened channel meets a link without a past:
\* released, with no timer, no message half received, and with a thread that has nothing more
\* to send: one that is still blocked in the last phone's message drops the rest of it.
FreshMeansReleased ==
  \A e \in End : ent[e].l1 = "fresh" =>
    /\ ent[e].state = "LinkReleased"
    /\ ~ent[e].T200
    /\ ent[e].recvBuffer = <<>>
    /\ ent[e].got = <<>>
    /\ ent[e].thread \in {"idle", "data", "disc"}
    /\ ent[e].thread = "data" => ent[e].discard

\* The link gives each L3 what DataLinkService promises.
DLS == INSTANCE DataLinkService WITH
         up <- [e \in End |-> ent[e].l3 = "ESTABLISH"],
         offered <- sent,
         got <- [e \in End |-> ent[e].got]

LinkService == DLS!Spec

----------------------------------------------------------------------------
(* Liveness, for the base station *)

\* writeHighSide(DATA) returns: a sender blocked in waitForAck() gets its acknowledgement
\* or the link is given up.
SendReturns == ent["BTS"].thread = "data" ~> ent["BTS"].thread # "data"

\* writeHighSide(RELEASE) returns once it has sent its DISC, if the service loop was awake
\* then: the DISC is answered or T200 ends the wait.
ReleaseReturns ==
  ent["BTS"].thread = "disc" /\ ~ent["BTS"].asleep ~> ent["BTS"].thread = "idle"
============================================================================
