-------------------------- MODULE LAPDmEntityProofs --------------------------
(***************************************************************************)
(* What each method of an LAPDm entity does, for every SAP, N200 and       *)
(* modulus: that it keeps the type of the entity; what it does to the      *)
(* state of the link and to what layer 3 knows of it (Tells); what it      *)
(* hands to L1 (Says), and whether it closes the link (Closes) or takes an *)
(* acknowledgement (Acked).                                                *)
(***************************************************************************)
EXTENDS LAPDmEntity, SequenceTheorems, TLAPS

----------------------------------------------------------------------------
(* The methods keep the type of the entity *)

\* The unnumbered frames are frames.
LEMMA UFrameType ==
  ASSUME NEW type \in FrameType, NEW pf \in BOOLEAN, NEW d \in Seq(Segment)
  PROVE  UFrame(type, pf, d) \in Frame
  BY EntityAssumption DEF UFrame, Frame, SeqNo

\* RR and REJ frames are frames, their N(R) being a sequence number.
LEMMA SFrameType ==
  ASSUME NEW type \in {"RR", "REJ"}, NEW pf \in BOOLEAN, NEW nr \in SeqNo
  PROVE  SFrame(type, pf, nr) \in Frame
  BY EntityAssumption DEF SFrame, Frame, FrameType, SeqNo

\* I-frames are frames, their N(S) and N(R) being sequence numbers.
LEMMA IFrameType ==
  ASSUME NEW ns \in SeqNo, NEW nr \in SeqNo, NEW m \in BOOLEAN, NEW seg \in Segment
  PROVE  IFrame(ns, nr, m, seg) \in Frame
  BY DEF IFrame, Frame, FrameType

\* The successor of a sequence number, modulo SeqMod, is one.
LEMMA NextType == ASSUME NEW n \in SeqNo PROVE Next8(n) \in SeqNo
  BY EntityAssumption DEF Next8, SeqNo

\* Handing a frame to L1 keeps the entity an entity, also when the path is full.
LEMMA writeL1Type ==
  ASSUME NEW s \in Entity, NEW f \in Frame
  PROVE  writeL1(s, f) \in Entity
<1>1. Append(s.tx, f) \in Seq(Frame)
  BY DEF Entity
<1>2. [s EXCEPT !.tx = Append(@, f)] \in Entity
  BY <1>1 DEF Entity
<1> QED  BY <1>2 DEF writeL1

\* writeL1Ack() records a frame as mSentFrame.
LEMMA writeL1AckType ==
  ASSUME NEW s \in Entity, NEW f \in Frame
  PROVE  writeL1Ack(s, f) \in Entity
<1>1. writeL1(s, f) \in Entity
  BY writeL1Type
<1> QED  BY <1>1 DEF writeL1Ack, Entity

\* What the counters and buffers are reset to has their types.
LEMMA EmptyTypes == 0 \in SeqNo /\ <<>> \in Seq(Segment) /\ <<>> \in Seq(Seq(Segment))
  BY EntityAssumption DEF SeqNo

\* clearCounters() resets fields to values of their types.
LEMMA clearCountersType ==
  ASSUME NEW s \in Entity
  PROVE  clearCounters(s) \in Entity
  BY EmptyTypes DEF clearCounters, Entity

\* releaseLink() reports a link primitive.
LEMMA releaseLinkType ==
  ASSUME NEW s \in Entity, NEW r \in {"RELEASE", "HARDRELEASE"}
  PROVE  releaseLink(s, r) \in Entity
  BY DEF releaseLink, Entity, LAPDState

\* clearState() is clearCounters() and releaseLink().
LEMMA clearStateType ==
  ASSUME NEW s \in Entity
  PROVE  clearState(s) \in Entity
  BY clearCountersType, releaseLinkType DEF clearState

\* The idle frame is a frame.
LEMMA IdleFrameType == IdleFrame \in Frame
  BY UFrameType, EmptyTypes DEF IdleFrame, FrameType

\* The methods that answer with UA, DM or an idle frame keep the type.
LEMMA sendUFrameType ==
  ASSUME NEW s \in Entity
  PROVE  /\ \A f \in Frame : sendUFrameUA(s, f) \in Entity
         /\ \A pf \in BOOLEAN : sendUFrameDM(s, pf) \in Entity
         /\ \A pf \in BOOLEAN : writeL1(s, UFrame("UA", pf, <<>>)) \in Entity
         /\ sendIdle(s) \in Entity
<1> SUFFICES ASSUME NEW f \in Frame, NEW pf \in BOOLEAN
             PROVE  /\ sendUFrameUA(s, f) \in Entity
                    /\ sendUFrameDM(s, pf) \in Entity
                    /\ writeL1(s, UFrame("UA", pf, <<>>)) \in Entity
                    /\ sendIdle(s) \in Entity
  BY IdleFrameType
<1>1. {"UA", "DM"} \subseteq FrameType
  BY DEF FrameType
<1>2. f.pf \in BOOLEAN /\ f.data \in Seq(Segment)
  BY DEF Frame
<1>3. UFrame("UA", f.pf, f.data) \in Frame
  BY <1>1, <1>2, UFrameType
<1>4. UFrame("UA", pf, <<>>) \in Frame /\ UFrame("DM", pf, <<>>) \in Frame
  BY <1>1, UFrameType, EmptyTypes
<1> QED  BY <1>3, <1>4, IdleFrameType, writeL1Type DEF sendUFrameUA, sendUFrameDM, sendIdle

\* abnormalRelease() keeps the type; unexpectedMessage() is the same.
LEMMA abnormalReleaseType ==
  ASSUME NEW s \in Entity
  PROVE  abnormalRelease(s) \in Entity /\ unexpectedMessage(s) \in Entity
<1>1. sendUFrameDM(s, TRUE) \in Entity
  BY sendUFrameType
<1> QED  BY <1>1, clearStateType DEF abnormalRelease, unexpectedMessage

\* processAck() stores an N(R), which is a sequence number.
LEMMA processAckType ==
  ASSUME NEW s \in Entity, NEW nr \in SeqNo
  PROVE  processAck(s, nr) \in Entity
  BY DEF processAck, Entity

\* Reassembly extends the buffer or delivers it.
LEMMA bufferIFrameDataType ==
  ASSUME NEW s \in Entity, NEW f \in Frame
  PROVE  bufferIFrameData(s, f) \in Entity
<1>1. s.recvBuffer \o f.data \in Seq(Segment)
  BY DEF Entity, Frame
<1>2. Append(s.got, s.recvBuffer \o f.data) \in Seq(Seq(Segment))
  BY <1>1 DEF Entity
<1> QED  BY <1>1, <1>2, EmptyTypes DEF bufferIFrameData, Entity

\* A retransmission counts in Nat: mRC is not bounded by the type.
LEMMA retransmissionProcedureType ==
  ASSUME NEW s \in Entity, NEW f \in Frame
  PROVE  retransmissionProcedure(s, f) \in Entity
<1> DEFINE w == writeL1(s, f)
<1>1. w \in Entity
  BY writeL1Type
<1> HIDE DEF w
<1>2. w.RC + 1 \in Nat
  BY <1>1 DEF Entity
<1>3. [w EXCEPT !.RC = @ + 1, !.T200 = TRUE] \in Entity
  BY <1>1, <1>2 DEF Entity
<1> QED  BY <1>3 DEF retransmissionProcedure, w

\* sendIFrame() numbers the frame V(S) and goes on to the next.
LEMMA sendIFrameType ==
  ASSUME NEW s \in Entity, NEW seg \in Segment, NEW m \in BOOLEAN
  PROVE  sendIFrame(s, seg, m) \in Entity
<1>1. [s EXCEPT !.VS = Next8(@)] \in Entity
  BY NextType DEF Entity
<1>2. IFrame(s.VS, s.VR, m, seg) \in Frame
  BY IFrameType DEF Entity
<1> QED  BY <1>1, <1>2, writeL1AckType DEF sendIFrame

\* open() keeps the type.
LEMMA openType == ASSUME NEW s \in Entity PROVE open(s) \in Entity
<1> DEFINE c == clearCounters(s)
           o == [c EXCEPT !.state = "LinkReleased", !.l3 = "RELEASE", !.l1 = "fresh",
                          !.tx = <<>>]
<1>1. c \in Entity
  BY clearCountersType
<1> HIDE DEF c
<1>2. <<>> \in Seq(Frame) /\ "LinkReleased" \in LAPDState
  BY DEF LAPDState
<1>3. o \in Entity
  BY <1>1, <1>2 DEF Entity
<1> HIDE DEF o
<1>4. sendIdle(o) \in Entity
  BY <1>3, sendUFrameType
<1> QED  BY <1>3, <1>4 DEF open, o, c

\* The expiry of T200 keeps the type, whatever frame is resent.
LEMMA T200ExpirationType ==
  ASSUME NEW s \in Entity, NEW f \in Frame
  PROVE  T200Expiration(s, f) \in Entity
<1> DEFINE r == [s EXCEPT !.T200 = FALSE]
<1>1. r \in Entity
  BY DEF Entity
<1> QED
  BY <1>1, releaseLinkType, abnormalReleaseType, retransmissionProcedureType
  DEF T200Expiration

\* A received SABM keeps the type, its checksum being a number.
LEMMA receiveUFrameSABMType ==
  ASSUME NEW s \in Entity, NEW f \in Frame
  PROVE  receiveUFrameSABM(s, f) \in Entity
<1> DEFINE c == clearCounters(s)
           cleared == [c EXCEPT !.estInProgress = TRUE, !.l3 = "ESTABLISH"]
           contending == [cleared EXCEPT !.state = "ContentionResolution",
                                         !.check = sumOf(f), !.got = <<f.data>>]
<1>1. f.pf \in BOOLEAN /\ f.data \in Seq(Segment)
  BY DEF Frame
<1>2. sumOf(f) \in Nat
  BY <1>1, EntityAssumption DEF sumOf
<1>3. <<f.data>> \in Seq(Seq(Segment))
  BY <1>1
<1>4. c \in Entity
  BY clearCountersType
<1> HIDE DEF c
<1>5. cleared \in Entity
  BY <1>4 DEF Entity
<1> HIDE DEF cleared
<1>6. contending \in Entity
  BY <1>2, <1>3, <1>5 DEF Entity, LAPDState
<1>7. [cleared EXCEPT !.state = "LinkEstablished"] \in Entity
  BY <1>5 DEF Entity, LAPDState
<1>8. [s EXCEPT !.state = "LinkEstablished"] \in Entity
  BY DEF Entity, LAPDState
<1> HIDE DEF contending
<1>9. clearCounters(sendUFrameUA(s, f)) \in Entity
  BY sendUFrameType, clearCountersType
<1>10. CASE ~f.pf
  BY <1>10 DEF receiveUFrameSABM
<1>11. CASE f.pf /\ s.state = "LinkReleased"
  BY <1>11, <1>6, <1>7, sendUFrameType DEF receiveUFrameSABM, contending, cleared, c
<1>12. CASE f.pf /\ s.state = "ContentionResolution"
  BY <1>12, <1>8, sendUFrameType DEF receiveUFrameSABM
<1>13. CASE f.pf /\ s.state = "LinkEstablished"
  BY <1>13, <1>9, sendUFrameType, abnormalReleaseType DEF receiveUFrameSABM
<1>14. CASE f.pf /\ s.state \in {"AwaitingEstablish", "AwaitingRelease"}
  BY <1>14, <1>1, sendUFrameType DEF receiveUFrameSABM
<1>15. s.state \in LAPDState
  BY DEF Entity
<1> QED  BY <1>10, <1>11, <1>12, <1>13, <1>14, <1>15 DEF LAPDState

\* A received DISC keeps the type.
LEMMA receiveUFrameDISCType ==
  ASSUME NEW s \in Entity, NEW f \in Frame
  PROVE  receiveUFrameDISC(s, f) \in Entity
<1> DEFINE r == [s EXCEPT !.estInProgress = FALSE]
<1>1. r \in Entity
  BY DEF Entity
<1>2. f.pf \in BOOLEAN
  BY DEF Frame
<1> HIDE DEF r
<1>3. /\ sendUFrameDM(r, f.pf) \in Entity
      /\ writeL1(r, UFrame("UA", f.pf, <<>>)) \in Entity
  BY <1>1, <1>2, sendUFrameType
<1>4. /\ clearState(r) \in Entity
      /\ clearState(sendUFrameDM(r, f.pf)) \in Entity
      /\ clearState(writeL1(r, UFrame("UA", f.pf, <<>>))) \in Entity
  BY <1>1, <1>3, clearStateType
<1> QED  BY <1>3, <1>4 DEF receiveUFrameDISC, r

\* A received UA keeps the type.
LEMMA receiveUFrameUAType ==
  ASSUME NEW s \in Entity, NEW f \in Frame
  PROVE  receiveUFrameUA(s, f) \in Entity
<1> DEFINE c == clearCounters(s)
<1>1. c \in Entity
  BY clearCountersType
<1> HIDE DEF c
<1>2. [c EXCEPT !.state = "LinkEstablished", !.l3 = "ESTABLISH"] \in Entity
  BY <1>1 DEF Entity, LAPDState
<1> QED  BY <1>2, clearStateType, abnormalReleaseType DEF receiveUFrameUA, c

\* A received DM keeps the type.
LEMMA receiveUFrameDMType ==
  ASSUME NEW s \in Entity, NEW f \in Frame
  PROVE  receiveUFrameDM(s, f) \in Entity
  BY clearStateType DEF receiveUFrameDM

\* A received RR keeps the type.
LEMMA receiveSFrameRRType ==
  ASSUME NEW s \in Entity, NEW f \in Frame
  PROVE  receiveSFrameRR(s, f) \in Entity
<1> DEFINE e == [s EXCEPT !.state = "LinkEstablished"]
<1>1. e \in Entity /\ e.VR \in SeqNo
  BY DEF Entity, LAPDState
<1>2. f.nr \in SeqNo
  BY DEF Frame
<1> HIDE DEF e
<1>3. writeL1(e, SFrame("RR", TRUE, e.VR)) \in Entity
  BY <1>1, SFrameType, writeL1Type
<1> QED  BY <1>1, <1>2, <1>3, processAckType DEF receiveSFrameRR, e

\* A received REJ keeps the type.
LEMMA receiveSFrameREJType ==
  ASSUME NEW s \in Entity, NEW f \in Frame
  PROVE  receiveSFrameREJ(s, f) \in Entity
<1> DEFINE acked == processAck([s EXCEPT !.state = "LinkEstablished"], f.nr)
<1>1. [s EXCEPT !.state = "LinkEstablished"] \in Entity /\ f.nr \in SeqNo
  BY DEF Entity, LAPDState, Frame
<1>2. acked \in Entity
  BY <1>1, processAckType
<1> HIDE DEF acked
<1>3. acked.VR \in SeqNo
  BY <1>2 DEF Entity
<1>4. writeL1(acked, SFrame("RR", TRUE, acked.VR)) \in Entity
  BY <1>2, <1>3, SFrameType, writeL1Type
<1>5. /\ sendIdle(sendIdle(acked)) \in Entity
      /\ sendIdle(sendIdle(writeL1(acked, SFrame("RR", TRUE, acked.VR)))) \in Entity
  BY <1>2, <1>4, sendUFrameType
<1> QED  BY <1>2, <1>5, sendUFrameType, abnormalReleaseType DEF receiveSFrameREJ, acked

\* A received I-frame keeps the type, in or out of sequence.
LEMMA receiveIFrameType ==
  ASSUME NEW s \in Entity, NEW f \in Frame
  PROVE  receiveIFrame(s, f) \in Entity
<1> DEFINE r == [s EXCEPT !.estInProgress = FALSE]
           acked == processAck([r EXCEPT !.state = "LinkEstablished"], f.nr)
           counted == [acked EXCEPT !.VR = Next8(@)]
           next == bufferIFrameData(counted, f)
<1>1. /\ r \in Entity
      /\ [r EXCEPT !.state = "LinkEstablished"] \in Entity
      /\ f.nr \in SeqNo /\ f.pf \in BOOLEAN
  BY DEF Entity, LAPDState, Frame
<1>2. acked \in Entity
  BY <1>1, processAckType
<1> HIDE DEF acked, r
<1>3. acked.VR \in SeqNo /\ Next8(acked.VR) \in SeqNo
  BY <1>2, NextType DEF Entity
<1>4. counted \in Entity
  BY <1>2, <1>3 DEF Entity
<1> HIDE DEF counted
<1>5. next \in Entity
  BY <1>4, bufferIFrameDataType
<1> HIDE DEF next
<1>6. next.VR \in SeqNo
  BY <1>5 DEF Entity
<1>7. /\ writeL1(next, SFrame("RR", f.pf, next.VR)) \in Entity
      /\ writeL1(acked, SFrame("REJ", f.pf, acked.VR)) \in Entity
  BY <1>1, <1>2, <1>3, <1>5, <1>6, SFrameType, writeL1Type
<1> QED  BY <1>1, <1>7 DEF receiveIFrame, next, counted, acked, r

\* receiveFrame() keeps the type, by the kind of the frame.
LEMMA receiveFrameType ==
  ASSUME NEW s \in Entity, NEW f \in Frame
  PROVE  receiveFrame(s, f) \in Entity
<1>1. [s EXCEPT !.estInProgress = FALSE] \in Entity
  BY DEF Entity
<1>2. receiveSFrame(s, f) \in Entity
  BY <1>1, receiveSFrameRRType, receiveSFrameREJType DEF receiveSFrame
<1>3. f.type \in FrameType
  BY DEF Frame
<1> QED
  BY <1>2, <1>3, receiveIFrameType, receiveUFrameSABMType, receiveUFrameDISCType,
     receiveUFrameUAType, receiveUFrameDMType
  DEF receiveFrame, FrameType

\* A frame that L1 drops, announces or passes on keeps the type.
LEMMA fromL1Type ==
  ASSUME NEW s \in Entity, NEW f \in Frame
  PROVE  fromL1(s, f) \in Entity
<1>1. [s EXCEPT !.l1 = "open"] \in Entity
  BY DEF Entity
<1>2. s.l1 \in {"closed", "fresh", "open"}
  BY DEF Entity
<1> QED  BY <1>1, <1>2, clearCountersType, receiveFrameType DEF fromL1

----------------------------------------------------------------------------
(* The layer 3 thread *)

\* A turn of the sending loop, which has a segment left, keeps the type.
LEMMA sendSegmentType ==
  ASSUME NEW s \in Entity, s.todo # <<>>
  PROVE  sendSegment(s) \in Entity
<1> DEFINE r == [s EXCEPT !.todo = Tail(@)]
           seg == Head(s.todo)
           m == Len(s.todo) > 1
           out == sendIFrame(r, seg, m)
<1>1. s.todo \in Seq(Segment)
  BY DEF Entity
<1>2. Tail(s.todo) \in Seq(Segment) /\ seg \in Segment /\ m \in BOOLEAN
  BY <1>1
<1>3. r \in Entity
  BY <1>2 DEF Entity
<1> HIDE DEF r, seg, m
<1>4. out \in Entity
  BY <1>2, <1>3, sendIFrameType
<1> HIDE DEF out
<1>5. [out EXCEPT !.thread = "idle"] \in Entity
  BY <1>4 DEF Entity, Thread
<1>6. [s EXCEPT !.todo = <<>>, !.thread = "idle"] \in Entity
  BY EmptyTypes DEF Entity, Thread
<1> QED  BY <1>4, <1>5, <1>6 DEF sendSegment, out, r, seg, m

\* Taking a message that is not empty keeps the type.
LEMMA sendMultiframeDataType ==
  ASSUME NEW s \in Entity, NEW msg \in Seq(Segment), msg # <<>>
  PROVE  sendMultiframeData(s, msg) \in Entity
<1> DEFINE begun == [s EXCEPT !.discard = FALSE, !.todo = msg, !.thread = "data"]
<1>1. begun \in Entity /\ begun.todo # <<>>
  BY DEF Entity, Thread
<1> HIDE DEF begun
<1>2. sendSegment(begun) \in Entity
  BY <1>1, sendSegmentType
<1> QED  BY <1>1, <1>2, abnormalReleaseType DEF sendMultiframeData, begun

\* The first, unlocked part of ESTABLISH and of RELEASE keeps the type.
LEMMA requestTypes ==
  ASSUME NEW s \in Entity
  PROVE  /\ establishRequest(s) \in Entity
         /\ releaseRequest(s) \in Entity
         /\ hardRelease(s) \in Entity
<1>1. /\ [s EXCEPT !.thread = "establish"] \in Entity
      /\ [s EXCEPT !.thread = "release"] \in Entity
  BY DEF Entity, Thread
<1>2. releaseLink(clearCounters(s), "HARDRELEASE") \in Entity
  BY clearCountersType, releaseLinkType
<1> QED  BY <1>1, <1>2 DEF establishRequest, releaseRequest, hardRelease

\* The later parts of ESTABLISH keep the type.
LEMMA establishTypes ==
  ASSUME NEW s \in Entity
  PROVE  /\ awaitEstablish(s) \in Entity
         /\ writeSABM(s) \in Entity
         /\ startSABMTimer(s) \in Entity
<1> DEFINE c == clearCounters(s)
           f == UFrame("SABM", TRUE, <<>>)
           w == writeL1(s, f)
<1>1. c \in Entity /\ f \in Frame
  BY clearCountersType, UFrameType, EmptyTypes DEF FrameType
<1> HIDE DEF c, f
<1>2. w \in Entity
  BY <1>1, writeL1Type
<1> HIDE DEF w
<1>3. [c EXCEPT !.state = "AwaitingEstablish", !.thread = "sabm"] \in Entity
  BY <1>1 DEF Entity, LAPDState, Thread
<1>4. [w EXCEPT !.sentFrame = f, !.thread = "sabmT200"] \in Entity
  BY <1>1, <1>2 DEF Entity, Thread
<1>5. [s EXCEPT !.T200 = TRUE, !.thread = "idle"] \in Entity
  BY DEF Entity, Thread
<1> QED  BY <1>3, <1>4, <1>5 DEF awaitEstablish, writeSABM, startSABMTimer, c, f, w

\* The later part of RELEASE keeps the type.
LEMMA sendDISCType == ASSUME NEW s \in Entity PROVE sendDISC(s) \in Entity
<1> DEFINE c == clearCounters(s)
           d == [c EXCEPT !.estInProgress = FALSE, !.state = "AwaitingRelease",
                          !.thread = "disc"]
<1>1. c \in Entity
  BY clearCountersType
<1> HIDE DEF c
<1>2. d \in Entity
  BY <1>1 DEF Entity, LAPDState, Thread
<1>3. UFrame("DISC", TRUE, <<>>) \in Frame
  BY UFrameType, EmptyTypes DEF FrameType
<1> HIDE DEF d
<1> QED  BY <1>2, <1>3, writeL1AckType DEF sendDISC, d, c

\* The top of serviceLoop() keeps the type.
LEMMA topOfServiceLoopType ==
  ASSUME NEW s \in Entity, NEW masterReleased
  PROVE  topOfServiceLoop(s, masterReleased) \in Entity
<1> DEFINE state == IF masterReleased THEN "LinkReleased" ELSE s.state
           asleep == (state = "LinkReleased" /\ ~s.T200)
<1>1. state \in LAPDState /\ asleep \in BOOLEAN
  BY DEF Entity, LAPDState
<1> HIDE DEF state, asleep
<1>2. [s EXCEPT !.state = state, !.asleep = asleep] \in Entity
  BY <1>1 DEF Entity
<1> QED  BY <1>2 DEF topOfServiceLoop, state, asleep

\* The constructor makes an entity.
LEMMA NewEntityType == NewEntity \in Entity
<1>1. /\ IdleFrame \in Frame
      /\ <<>> \in Seq(Frame)
      /\ "LinkReleased" \in LAPDState
      /\ "idle" \in Thread
  BY IdleFrameType DEF LAPDState, Thread
<1> QED  BY <1>1, EmptyTypes DEF NewEntity, Entity

----------------------------------------------------------------------------
(* What the steps of the service loop do to the state of the link, to what layer 3 was     *)
(* told of it, to L1 and to a thread blocked in the entity.                                *)

Tells(s, t) ==
  /\ t.thread = s.thread /\ t.todo = s.todo
  /\ t.l1 \in {s.l1, "closed"}
  /\ inMultiframe(t) => t.l3 = "ESTABLISH" \/ (inMultiframe(s) /\ t.l3 = s.l3)
  /\ t.state = "LinkReleased" =>
       t.l3 # "ESTABLISH" \/ (s.state = "LinkReleased" /\ t.l3 = s.l3)

\* Tells composes: calls nest.
LEMMA TellsTransitive ==
  ASSUME NEW r, NEW s, NEW t, Tells(r, s), Tells(s, t)
  PROVE  Tells(r, t)
  BY DEF Tells, inMultiframe

\* Doing nothing tells layer 3 nothing.
LEMMA TellsSelf == ASSUME NEW s PROVE Tells(s, s)
  BY DEF Tells

\* Handing a frame to L1 leaves the link as it is.
LEMMA writeL1Tells ==
  ASSUME NEW s \in Entity, NEW f
  PROVE  Tells(s, writeL1(s, f))
<1>1. Tells(s, [s EXCEPT !.tx = Append(@, f)])
  BY DEF Tells, inMultiframe, Entity
<1> QED  BY <1>1, TellsSelf DEF writeL1

\* So do the methods that answer with one.
LEMMA sendUFrameTells ==
  ASSUME NEW s \in Entity
  PROVE  /\ \A f : Tells(s, sendUFrameUA(s, f))
         /\ \A pf : Tells(s, sendUFrameDM(s, pf))
         /\ Tells(s, sendIdle(s))
  BY writeL1Tells DEF sendUFrameUA, sendUFrameDM, sendIdle

\* clearCounters() changes no state that layer 3 knows of.
LEMMA clearCountersTells ==
  ASSUME NEW s \in Entity
  PROVE  Tells(s, clearCounters(s))
  BY DEF Tells, inMultiframe, Entity, clearCounters

\* clearState() releases the link and says so.
LEMMA clearStateTells ==
  ASSUME NEW s \in Entity
  PROVE  Tells(s, clearState(s))
<1> DEFINE c == clearCounters(s)
<1>1. c \in Entity /\ Tells(s, c)
  BY clearCountersType, clearCountersTells
<1> HIDE DEF c
<1>2. Tells(c, releaseLink(c, "RELEASE"))
  BY <1>1 DEF Tells, inMultiframe, Entity, releaseLink
<1> QED  BY <1>1, <1>2, TellsTransitive DEF clearState, c

\* abnormalRelease() releases the link and says so.
LEMMA abnormalReleaseTells ==
  ASSUME NEW s \in Entity
  PROVE  Tells(s, abnormalRelease(s)) /\ Tells(s, unexpectedMessage(s))
<1> DEFINE d == sendUFrameDM(s, TRUE)
<1>1. d \in Entity /\ Tells(s, d)
  BY sendUFrameType, sendUFrameTells
<1> HIDE DEF d
<1>2. Tells(d, clearState(d))
  BY <1>1, clearStateTells
<1> QED  BY <1>1, <1>2, TellsTransitive DEF abnormalRelease, unexpectedMessage, d

\* An acknowledgement changes no state that layer 3 knows of.
LEMMA processAckTells ==
  ASSUME NEW s \in Entity, NEW nr
  PROVE  Tells(s, processAck(s, nr))
  BY DEF Tells, inMultiframe, Entity, processAck

\* Nor does reassembly.
LEMMA bufferIFrameDataTells ==
  ASSUME NEW s \in Entity, NEW f
  PROVE  Tells(s, bufferIFrameData(s, f))
  BY DEF Tells, inMultiframe, Entity, bufferIFrameData

\* A link in multiframe mode may settle: layer 3 knows it is up.
LEMMA establishedTells ==
  ASSUME NEW s \in Entity, inMultiframe(s)
  PROVE  Tells(s, [s EXCEPT !.state = "LinkEstablished"])
  BY DEF Tells, inMultiframe, Entity

\* The expiry of T200 releases the link with notice or not at all.
LEMMA T200ExpirationTells ==
  ASSUME NEW s \in Entity, NEW f \in Frame
  PROVE  Tells(s, T200Expiration(s, f))
<1> DEFINE r == [s EXCEPT !.T200 = FALSE]
           w == writeL1(r, f)
<1>1. r \in Entity /\ Tells(s, r)
  BY DEF Entity, Tells, inMultiframe
<1> HIDE DEF r
<1>2. w \in Entity /\ Tells(r, w)
  BY <1>1, writeL1Type, writeL1Tells
<1> HIDE DEF w
<1>3. Tells(w, [w EXCEPT !.RC = @ + 1, !.T200 = TRUE])
  BY <1>2 DEF Entity, Tells, inMultiframe
<1>4. Tells(r, retransmissionProcedure(r, f))
  BY <1>2, <1>3, TellsTransitive DEF retransmissionProcedure, w
<1>5. Tells(r, releaseLink(r, "RELEASE"))
  BY <1>1 DEF Tells, inMultiframe, Entity, releaseLink
<1>6. Tells(r, abnormalRelease(r))
  BY <1>1, abnormalReleaseTells
<1>7. \/ T200Expiration(s, f) = r
      \/ T200Expiration(s, f) = releaseLink(r, "RELEASE")
      \/ T200Expiration(s, f) = abnormalRelease(r)
      \/ T200Expiration(s, f) = retransmissionProcedure(r, f)
  BY DEF T200Expiration, r
<1> QED  BY <1>1, <1>4, <1>5, <1>6, <1>7, TellsTransitive

\* A SABM that brings the link up is announced; no other changes its state.
LEMMA receiveUFrameSABMTells ==
  ASSUME NEW s \in Entity, NEW f \in Frame
  PROVE  Tells(s, receiveUFrameSABM(s, f))
<1> DEFINE c == clearCounters(s)
           cleared == [c EXCEPT !.estInProgress = TRUE, !.l3 = "ESTABLISH"]
           contending == [cleared EXCEPT !.state = "ContentionResolution",
                                         !.check = sumOf(f), !.got = <<f.data>>]
           up == [cleared EXCEPT !.state = "LinkEstablished"]
           again == [s EXCEPT !.state = "LinkEstablished"]
<1>1. f.pf \in BOOLEAN /\ f.data \in Seq(Segment)
  BY DEF Frame
<1>2. sumOf(f) \in Nat /\ <<f.data>> \in Seq(Seq(Segment))
  BY <1>1, EntityAssumption DEF sumOf
<1>3. c \in Entity /\ Tells(s, c)
  BY clearCountersType, clearCountersTells
<1> HIDE DEF c
<1>4. up \in Entity /\ contending \in Entity
  BY <1>2, <1>3 DEF Entity, LAPDState
<1>5. Tells(c, up) /\ Tells(c, contending)
  BY <1>3 DEF Entity, Tells, inMultiframe
<1>6. again \in Entity
  BY DEF Entity, LAPDState
<1> HIDE DEF up, contending, again
<1>7. Tells(s, sendUFrameUA(up, f)) /\ Tells(s, sendUFrameUA(contending, f))
  BY <1>3, <1>4, <1>5, sendUFrameTells, TellsTransitive
<1>8. CASE f.pf /\ s.state = "LinkReleased"
  BY <1>7, <1>8 DEF receiveUFrameSABM, up, contending, c
<1>9. CASE f.pf /\ s.state = "ContentionResolution"
  <2>1. Tells(s, again)
    BY <1>9, establishedTells DEF inMultiframe, again
  <2>2. Tells(again, sendUFrameUA(again, f))
    BY <1>6, sendUFrameTells
  <2>3. Tells(s, sendUFrameUA(again, f))
    BY <2>1, <2>2, TellsTransitive
  <2> QED  BY <1>9, <2>3, TellsSelf DEF receiveUFrameSABM, again
<1>10. CASE f.pf /\ s.state = "LinkEstablished"
  <2> DEFINE u == sendUFrameUA(s, f)
  <2>1. u \in Entity /\ Tells(s, u)
    BY sendUFrameType, sendUFrameTells
  <2> HIDE DEF u
  <2>2. Tells(s, clearCounters(u))
    BY <2>1, clearCountersTells, TellsTransitive
  <2> QED  BY <1>10, <2>1, <2>2, abnormalReleaseTells DEF receiveUFrameSABM, u
<1>11. CASE f.pf /\ s.state \in {"AwaitingEstablish", "AwaitingRelease"}
  BY <1>11, writeL1Tells, sendUFrameTells DEF receiveUFrameSABM
<1>12. CASE ~f.pf
  BY <1>12, TellsSelf DEF receiveUFrameSABM
<1>13. s.state \in LAPDState
  BY DEF Entity
<1> QED  BY <1>1, <1>8, <1>9, <1>10, <1>11, <1>12, <1>13 DEF LAPDState

\* A DISC that takes the link down is announced.
LEMMA receiveUFrameDISCTells ==
  ASSUME NEW s \in Entity, NEW f \in Frame
  PROVE  Tells(s, receiveUFrameDISC(s, f))
<1> DEFINE r == [s EXCEPT !.estInProgress = FALSE]
           ua == writeL1(r, UFrame("UA", f.pf, <<>>))
           dm == sendUFrameDM(r, f.pf)
<1>1. r \in Entity /\ Tells(s, r)
  BY DEF Entity, Tells, inMultiframe
<1>2. f.pf \in BOOLEAN
  BY DEF Frame
<1> HIDE DEF r
<1>3. ua \in Entity /\ dm \in Entity
  BY <1>1, <1>2, sendUFrameType
<1>4. Tells(s, ua) /\ Tells(s, dm)
  BY <1>1, writeL1Tells, sendUFrameTells, TellsTransitive
<1> HIDE DEF ua, dm
<1>5. Tells(s, clearState(r)) /\ Tells(s, clearState(ua)) /\ Tells(s, clearState(dm))
  BY <1>1, <1>3, <1>4, clearStateTells, TellsTransitive
<1> QED  BY <1>4, <1>5 DEF receiveUFrameDISC, r, ua, dm

\* A UA that brings the link up or takes it down is announced.
LEMMA receiveUFrameUATells ==
  ASSUME NEW s \in Entity, NEW f \in Frame
  PROVE  Tells(s, receiveUFrameUA(s, f))
<1> DEFINE c == clearCounters(s)
           up == [c EXCEPT !.state = "LinkEstablished", !.l3 = "ESTABLISH"]
<1>1. c \in Entity /\ Tells(s, c)
  BY clearCountersType, clearCountersTells
<1> HIDE DEF c
<1>2. Tells(c, up)
  BY <1>1 DEF Entity, Tells, inMultiframe
<1>3. Tells(s, up)
  BY <1>1, <1>2, TellsTransitive
<1> QED
  BY <1>3, clearStateTells, abnormalReleaseTells, TellsSelf DEF receiveUFrameUA, c

\* A DM that takes the link down is announced.
LEMMA receiveUFrameDMTells ==
  ASSUME NEW s \in Entity, NEW f \in Frame
  PROVE  Tells(s, receiveUFrameDM(s, f))
  BY clearStateTells, TellsSelf DEF receiveUFrameDM

\* A supervisory frame settles a link or releases it with notice.
LEMMA receiveSFrameTells ==
  ASSUME NEW s \in Entity, NEW f \in Frame
  PROVE  Tells(s, receiveSFrameRR(s, f)) /\ Tells(s, receiveSFrameREJ(s, f))
<1> DEFINE e == [s EXCEPT !.state = "LinkEstablished"]
<1>1. CASE inMultiframe(s)
  <2>1. e \in Entity /\ Tells(s, e) /\ f.nr \in SeqNo
    BY <1>1, establishedTells DEF Entity, LAPDState, Frame
  <2>2. e.VR \in SeqNo
    BY <2>1 DEF Entity
  <2> HIDE DEF e
  <2> DEFINE rr == writeL1(e, SFrame("RR", TRUE, e.VR))
             acked == processAck(e, f.nr)
             reply == writeL1(acked, SFrame("RR", TRUE, acked.VR))
  <2>3. rr \in Entity /\ Tells(s, rr)
    BY <2>1, <2>2, SFrameType, writeL1Type, writeL1Tells, TellsTransitive
  <2>4. acked \in Entity /\ Tells(s, acked)
    BY <2>1, processAckType, processAckTells, TellsTransitive
  <2> HIDE DEF rr, acked
  <2>5. Tells(s, processAck(rr, f.nr))
    BY <2>3, processAckTells, TellsTransitive
  <2>6. Tells(s, receiveSFrameRR(s, f))
    BY <1>1, <2>4, <2>5 DEF receiveSFrameRR, rr, acked, e
  <2>7. acked.VR \in SeqNo
    BY <2>4 DEF Entity
  <2>8. reply \in Entity /\ Tells(s, reply)
    BY <2>4, <2>7, SFrameType, writeL1Type, writeL1Tells, TellsTransitive
  <2> HIDE DEF reply
  <2>9. /\ Tells(s, sendIdle(sendIdle(acked)))
        /\ Tells(s, sendIdle(sendIdle(reply)))
    BY <2>4, <2>8, sendUFrameType, sendUFrameTells, TellsTransitive
  <2>10. Tells(s, unexpectedMessage(acked))
    BY <2>4, abnormalReleaseTells, TellsTransitive
  <2>11. Tells(s, receiveSFrameREJ(s, f))
    BY <1>1, <2>9, <2>10 DEF receiveSFrameREJ, reply, acked, e
  <2> QED  BY <2>6, <2>11
<1>2. CASE ~inMultiframe(s)
  BY <1>2, TellsSelf, sendUFrameTells DEF receiveSFrameRR, receiveSFrameREJ
<1> QED  BY <1>1, <1>2

\* An I-frame settles a link that is up.
LEMMA receiveIFrameTells ==
  ASSUME NEW s \in Entity, NEW f \in Frame
  PROVE  Tells(s, receiveIFrame(s, f))
<1> DEFINE r == [s EXCEPT !.estInProgress = FALSE]
           e == [r EXCEPT !.state = "LinkEstablished"]
           acked == processAck(e, f.nr)
           counted == [acked EXCEPT !.VR = Next8(@)]
           next == bufferIFrameData(counted, f)
<1>1. r \in Entity /\ Tells(s, r) /\ f.nr \in SeqNo /\ f.pf \in BOOLEAN
  BY DEF Entity, Tells, inMultiframe, Frame
<1>2. CASE inMultiframe(s)
  <2>1. inMultiframe(r)
    BY <1>2 DEF inMultiframe, Entity
  <2> HIDE DEF r
  <2>2. e \in Entity /\ Tells(s, e)
    BY <1>1, <2>1, establishedTells, TellsTransitive DEF Entity, LAPDState
  <2> HIDE DEF e
  <2>3. acked \in Entity /\ Tells(s, acked)
    BY <1>1, <2>2, processAckType, processAckTells, TellsTransitive
  <2> HIDE DEF acked
  <2>4. acked.VR \in SeqNo /\ Next8(acked.VR) \in SeqNo
    BY <2>3, NextType DEF Entity
  <2>5. counted \in Entity /\ Tells(acked, counted)
    BY <2>3, <2>4 DEF Entity, Tells, inMultiframe
  <2> HIDE DEF counted
  <2>6. next \in Entity /\ Tells(s, next)
    BY <2>3, <2>5, bufferIFrameDataType, bufferIFrameDataTells, TellsTransitive
  <2> HIDE DEF next
  <2>7. next.VR \in SeqNo
    BY <2>6 DEF Entity
  <2>8. /\ Tells(s, writeL1(next, SFrame("RR", f.pf, next.VR)))
        /\ Tells(s, writeL1(acked, SFrame("REJ", f.pf, acked.VR)))
    BY <2>3, <2>6, writeL1Tells, TellsTransitive
  <2> QED  BY <1>2, <2>8 DEF receiveIFrame, next, counted, acked, e, r
<1>3. CASE ~inMultiframe(s)
  BY <1>1, <1>3 DEF receiveIFrame
<1> QED  BY <1>2, <1>3

\* Whatever the frame, layer 3 is told of what it does to the link.
LEMMA receiveFrameTells ==
  ASSUME NEW s \in Entity, NEW f \in Frame
  PROVE  Tells(s, receiveFrame(s, f))
<1> DEFINE r == [s EXCEPT !.estInProgress = FALSE]
<1>1. r \in Entity /\ Tells(s, r)
  BY DEF Entity, Tells, inMultiframe
<1> HIDE DEF r
<1>2. Tells(s, receiveSFrame(s, f))
  BY <1>1, receiveSFrameTells, TellsTransitive DEF receiveSFrame, r
<1>3. f.type \in FrameType
  BY DEF Frame
<1> QED
  BY <1>2, <1>3, TellsSelf, receiveIFrameTells, receiveUFrameSABMTells,
     receiveUFrameDISCTells, receiveUFrameUATells, receiveUFrameDMTells
  DEF receiveFrame, FrameType

----------------------------------------------------------------------------
(* What a method hands to L1 *)

Ack == {"I", "RR", "REJ"}

\* r is q with frames of A behind it.
Grows(q, r, A) ==
  /\ Len(q) <= Len(r)
  /\ \A i \in 1 .. Len(q) : r[i] = q[i]
  /\ \A i \in 1 .. Len(r) : i > Len(q) => r[i] \in A

\* All fields that the window rests on, but for tx.
Kept(s, t) ==
  /\ t.state = s.state /\ t.VS = s.VS /\ t.VA = s.VA /\ t.VR = s.VR
  /\ t.T200 = s.T200 /\ t.estInProgress = s.estInProgress /\ t.sentFrame = s.sentFrame
  /\ t.thread = s.thread /\ t.l1 = s.l1 /\ t.asleep = s.asleep

\* A method that does nothing but hand frames of A to L1.
Says(s, t, A) == t \in Entity /\ Kept(s, t) /\ Grows(s.tx, t.tx, A)

\* Nothing is added.
LEMMA GrowsSelf == ASSUME NEW q, NEW A, Len(q) \in Nat PROVE Grows(q, q, A)
  BY DEF Grows

\* What is added in two steps is added.
LEMMA GrowsTwice ==
  ASSUME NEW q \in Seq(Frame), NEW r \in Seq(Frame), NEW t \in Seq(Frame), NEW A,
         Grows(q, r, A), Grows(r, t, A)
  PROVE  Grows(q, t, A)
<1>1. Len(q) \in Nat /\ Len(r) \in Nat /\ Len(t) \in Nat
  OBVIOUS
<1>2. \A i \in 1 .. Len(q) : i \in 1 .. Len(r)
  BY <1>1 DEF Grows
<1>3. \A i \in 1 .. Len(q) : t[i] = q[i]
  BY <1>2 DEF Grows
<1>4. ASSUME NEW i \in 1 .. Len(t), i > Len(q) PROVE t[i] \in A
  <2>1. CASE i \in 1 .. Len(r)
    BY <1>4, <2>1 DEF Grows
  <2>2. CASE i \notin 1 .. Len(r)
    BY <1>1, <1>4, <2>2 DEF Grows
  <2> QED  BY <2>1, <2>2
<1> QED  BY <1>1, <1>3, <1>4 DEF Grows

\* Frames of A are frames of any larger set.
LEMMA GrowsMore ==
  ASSUME NEW q, NEW r, NEW A, NEW B, A \subseteq B, Grows(q, r, A)
  PROVE  Grows(q, r, B)
  BY DEF Grows

\* writeL1() adds its frame, or nothing when the path is full.
LEMMA writeL1Says ==
  ASSUME NEW s \in Entity, NEW A, NEW f \in Frame, f \in A
  PROVE  Says(s, writeL1(s, f), A)
<1>1. s.tx \in Seq(Frame)
  BY DEF Entity
<1>2. Grows(s.tx, Append(s.tx, f), A) /\ Grows(s.tx, s.tx, A)
  BY <1>1 DEF Grows
<1>3. Kept(s, writeL1(s, f))
  BY DEF Kept, writeL1, Entity
<1>4. writeL1(s, f).tx \in {s.tx, Append(s.tx, f)}
  BY DEF writeL1, Entity
<1> QED  BY <1>2, <1>3, <1>4, writeL1Type DEF Says

\* Two methods that only hand frames of A to L1.
LEMMA SaysTwice ==
  ASSUME NEW s \in Entity, NEW t, NEW u, NEW A, Says(s, t, A), Says(t, u, A)
  PROVE  Says(s, u, A)
<1>1. s.tx \in Seq(Frame) /\ t.tx \in Seq(Frame) /\ u.tx \in Seq(Frame)
  BY DEF Says, Entity
<1>2. Grows(s.tx, u.tx, A)
  BY <1>1, GrowsTwice DEF Says
<1> QED  BY <1>2 DEF Says, Kept

\* Frames that answer without a number.
Quiet == {f \in Frame : f.type \in {"UA", "DM", "UI"}}

\* Frames that, where they acknowledge, have N(R) = n.
Replies(n) == {f \in Frame : f.type # "SABM" /\ (f.type \in Ack => f.nr = n)}

\* What a station sends that is asked nothing.
Idle == {f \in Frame : f.type \in {"UI", "DM"}}

\* The unnumbered answers, one by one.
LEMMA AnswersSay ==
  ASSUME NEW s \in Entity, NEW f \in Frame, NEW pf \in BOOLEAN
  PROVE  /\ Says(s, sendUFrameUA(s, f), Quiet)
         /\ Says(s, writeL1(s, UFrame("UA", pf, <<>>)), Quiet)
         /\ Says(s, sendUFrameDM(s, pf), Idle)
         /\ Says(s, sendIdle(s), Idle)
<1>1. {"UA", "DM", "UI"} \subseteq FrameType
  BY DEF FrameType
<1>2. f.pf \in BOOLEAN /\ f.data \in Seq(Segment)
  BY DEF Frame
<1>3. /\ UFrame("UA", f.pf, f.data) \in Frame /\ UFrame("UA", pf, <<>>) \in Frame
      /\ UFrame("DM", pf, <<>>) \in Frame /\ UFrame("UI", FALSE, <<>>) \in Frame
  BY <1>1, <1>2, UFrameType, EmptyTypes
<1>4. /\ UFrame("UA", f.pf, f.data).type = "UA" /\ UFrame("UA", pf, <<>>).type = "UA"
      /\ UFrame("DM", pf, <<>>).type = "DM" /\ UFrame("UI", FALSE, <<>>).type = "UI"
  BY DEF UFrame
<1>5. /\ \A x \in Frame : x.type = "UA" => x \in Quiet
      /\ \A x \in Frame : x.type \in {"UI", "DM"} => x \in Idle
  BY DEF Quiet, Idle, Ack
<1>6. /\ UFrame("UA", f.pf, f.data) \in Quiet /\ UFrame("UA", pf, <<>>) \in Quiet
      /\ UFrame("DM", pf, <<>>) \in Idle /\ UFrame("UI", FALSE, <<>>) \in Idle
  BY <1>3, <1>4, <1>5
<1> QED  BY <1>3, <1>6, writeL1Says DEF sendUFrameUA, sendUFrameDM, sendIdle, IdleFrame

\* Saying nothing.
LEMMA SaysNothing == ASSUME NEW s \in Entity, NEW A PROVE Says(s, s, A)
<1>1. Len(s.tx) \in Nat
  BY DEF Entity
<1> QED  BY <1>1, GrowsSelf DEF Says, Kept

\* Frames that, if they acknowledge, are supervisory and have N(R) = n.
Supervisory(n) == {f \in Frame : f.type = "UI" \/ (f.type \in {"RR", "REJ"} /\ f.nr = n)}

\* What is idle is quiet; what is supervisory or quiet is a reply.
LEMMA FrameSets ==
  /\ Idle \subseteq Quiet
  /\ \A n : Quiet \subseteq Replies(n) /\ Supervisory(n) \subseteq Replies(n)
  BY DEF Idle, Quiet, Replies, Supervisory, Ack

\* Frames of A are frames of any larger set.
LEMMA SaysMore ==
  ASSUME NEW s, NEW t, NEW A, NEW B, A \subseteq B, Says(s, t, A)
  PROVE  Says(s, t, B)
  BY GrowsMore DEF Says

\* The supervisory answers carry V(R); an idle frame acknowledges nothing.
LEMMA SFrameSays ==
  ASSUME NEW s \in Entity, NEW type \in {"RR", "REJ"}, NEW pf \in BOOLEAN
  PROVE  /\ Says(s, writeL1(s, SFrame(type, pf, s.VR)), Supervisory(s.VR))
         /\ Says(s, sendIdle(s), Supervisory(s.VR))
<1>1. s.VR \in SeqNo
  BY DEF Entity
<1>2. SFrame(type, pf, s.VR) \in Frame
  BY <1>1, SFrameType
<1>3. SFrame(type, pf, s.VR) \in Supervisory(s.VR)
  BY <1>2 DEF Supervisory, SFrame
<1>4. IdleFrame.type = "UI"
  BY DEF IdleFrame, UFrame
<1>5. IdleFrame \in Supervisory(s.VR)
  BY <1>4, IdleFrameType DEF Supervisory
<1> QED  BY <1>2, <1>3, <1>5, writeL1Says, IdleFrameType DEF sendIdle

\* The link is given up, which closes the receiver in SAP0, after frames of A.
Closes(s, t, A) ==
  /\ t \in Entity
  /\ t.state = "LinkReleased" /\ t.l1 = "closed" /\ t.thread = s.thread
  /\ t.sentFrame = s.sentFrame
  /\ Grows(s.tx, t.tx, A)

\* clearState(), after frames of A, closes the link; only the thread and mSentFrame are left.
LEMMA clearStateCloses ==
  ASSUME SAPI = 0, NEW s, NEW t \in Entity, NEW A,
         t.thread = s.thread, t.sentFrame = s.sentFrame, Grows(s.tx, t.tx, A)
  PROVE  Closes(s, clearState(t), A)
<1>1. clearState(t) \in Entity
  BY clearStateType
<1>2. /\ clearState(t).state = "LinkReleased" /\ clearState(t).l1 = "closed"
      /\ clearState(t).thread = t.thread /\ clearState(t).sentFrame = t.sentFrame
      /\ clearState(t).tx = t.tx
  BY DEF clearState, clearCounters, releaseLink, Entity
<1> QED  BY <1>1, <1>2 DEF Closes

\* Every way to give the link up closes it, and says at most that it does.
LEMMA releasesClose ==
  ASSUME SAPI = 0, NEW s \in Entity
  PROVE  /\ Closes(s, clearState(s), Idle) /\ Closes(s, abnormalRelease(s), Idle)
         /\ Closes(s, unexpectedMessage(s), Idle) /\ Closes(s, hardRelease(s), Idle)
         /\ Closes(s, releaseLink(s, "RELEASE"), Idle)
<1>1. Says(s, s, Idle) /\ Says(s, sendUFrameDM(s, TRUE), Idle)
  BY SaysNothing, AnswersSay, IdleFrameType
<1>2. Closes(s, clearState(s), Idle) /\ Closes(s, abnormalRelease(s), Idle)
  BY <1>1, clearStateCloses DEF abnormalRelease, Says, Kept
<1>3. Closes(s, hardRelease(s), Idle)
  <2>1. hardRelease(s) \in Entity
    BY requestTypes
  <2>2. /\ hardRelease(s).state = "LinkReleased" /\ hardRelease(s).l1 = "closed"
        /\ hardRelease(s).thread = s.thread /\ hardRelease(s).sentFrame = s.sentFrame
        /\ hardRelease(s).tx = s.tx
    BY DEF hardRelease, clearCounters, releaseLink, Entity
  <2> QED  BY <1>1, <2>1, <2>2 DEF Closes, Says
<1>4. Closes(s, releaseLink(s, "RELEASE"), Idle)
  <2>1. releaseLink(s, "RELEASE") \in Entity
    BY releaseLinkType
  <2>2. /\ releaseLink(s, "RELEASE").state = "LinkReleased"
        /\ releaseLink(s, "RELEASE").l1 = "closed"
        /\ releaseLink(s, "RELEASE").thread = s.thread
        /\ releaseLink(s, "RELEASE").sentFrame = s.sentFrame
        /\ releaseLink(s, "RELEASE").tx = s.tx
    BY DEF releaseLink, Entity
  <2> QED  BY <1>1, <2>1, <2>2 DEF Closes, Says
<1> QED  BY <1>2, <1>3, <1>4 DEF unexpectedMessage

\* A link that is up reads an acknowledgement, and says frames of A.
Acked(s, t, nr, A) ==
  /\ t \in Entity /\ t.state = "LinkEstablished" /\ ~t.estInProgress
  /\ t.VS = s.VS /\ t.VA = nr /\ (t.T200 <=> s.T200 /\ nr # s.VS)
  /\ t.sentFrame = s.sentFrame /\ t.thread = s.thread /\ t.l1 = s.l1
  /\ Grows(s.tx, t.tx, A)

\* processAck() and the state that every numbered frame leads to.
LEMMA processAckAcked ==
  ASSUME NEW s \in Entity, NEW nr \in SeqNo, NEW A
  PROVE  LET t == processAck([s EXCEPT !.estInProgress = FALSE, !.state = "LinkEstablished"], nr)
         IN  Acked(s, t, nr, A) /\ t.VR = s.VR /\ t.tx = s.tx
<1> DEFINE r == [s EXCEPT !.estInProgress = FALSE, !.state = "LinkEstablished"]
           t == processAck(r, nr)
<1>1. r \in Entity
  BY DEF Entity, LAPDState
<1>2. t \in Entity
  BY <1>1, processAckType
<1>3. /\ t.state = "LinkEstablished" /\ ~t.estInProgress
      /\ t.VS = s.VS /\ t.VA = nr /\ (t.T200 <=> s.T200 /\ nr # s.VS)
      /\ t.sentFrame = s.sentFrame /\ t.thread = s.thread /\ t.l1 = s.l1 /\ t.tx = s.tx /\ t.VR = s.VR
  BY DEF processAck, Entity
<1>4. Grows(s.tx, t.tx, A)
  BY <1>3, SaysNothing DEF Says
<1> QED  BY <1>2, <1>3, <1>4 DEF Acked

\* What is said after an acknowledgement.
LEMMA AckedSays ==
  ASSUME NEW s \in Entity, NEW t, NEW u, NEW nr, NEW A, Acked(s, t, nr, A), Says(t, u, A)
  PROVE  Acked(s, u, nr, A) /\ u.VR = t.VR
<1>1. s.tx \in Seq(Frame) /\ t.tx \in Seq(Frame) /\ u.tx \in Seq(Frame)
  BY DEF Acked, Says, Entity
<1>2. Grows(s.tx, u.tx, A)
  BY <1>1, GrowsTwice DEF Acked, Says
<1> QED  BY <1>2 DEF Acked, Says, Kept

\* A numbered frame that a link that is up reads acknowledges, or a wrong REJ releases.
LEMMA SFrameAcked ==
  ASSUME SAPI = 0, NEW s \in Entity, inMultiframe(s), NEW f \in Frame
  PROVE  \/ /\ Acked(s, receiveSFrame(s, f), f.nr, Supervisory(s.VR))
            /\ receiveSFrame(s, f).VR = s.VR
         \/ Closes(s, receiveSFrame(s, f), Idle)
<1> DEFINE A == Supervisory(s.VR)
           r == [s EXCEPT !.estInProgress = FALSE]
           e == [s EXCEPT !.estInProgress = FALSE, !.state = "LinkEstablished"]
           a == processAck(e, f.nr)
<1>1. f.nr \in SeqNo /\ f.pf \in BOOLEAN /\ inMultiframe(r) /\ r \in Entity /\ e \in Entity
  BY DEF Frame, inMultiframe, Entity, LAPDState
<1>2. Acked(s, a, f.nr, A) /\ a.VR = s.VR /\ a \in Entity /\ a.tx = s.tx
  <2>1. Acked(s, a, f.nr, A) /\ a.VR = s.VR /\ a.tx = s.tx
    BY <1>1, processAckAcked
  <2> QED  BY <1>1, <2>1, processAckType
<1>3. [r EXCEPT !.state = "LinkEstablished"] = e
  BY DEF Entity
<1>4. CASE f.type = "RR"
  <2> DEFINE w == writeL1(e, SFrame("RR", TRUE, e.VR))
  <2>1. Says(e, w, A)
    <3>1. Says(e, w, Supervisory(e.VR)) /\ e.VR = s.VR
      BY <1>1, SFrameSays DEF Entity
    <3> QED  BY <3>1
  <2>2. receiveSFrame(s, f) = processAck(IF f.cmd /\ f.pf THEN w ELSE e, f.nr)
    BY <1>1, <1>3, <1>4 DEF receiveSFrame, receiveSFrameRR
  <2>3. Acked(s, processAck(w, f.nr), f.nr, A) /\ processAck(w, f.nr).VR = s.VR
    <3>1. w \in Entity
      BY <2>1 DEF Says
    <3>2. [w EXCEPT !.estInProgress = FALSE, !.state = "LinkEstablished"] = w
      BY <2>1, <3>1 DEF Says, Kept, Entity
    <3>3. Acked(w, processAck(w, f.nr), f.nr, A) /\ processAck(w, f.nr).VR = w.VR /\ processAck(w, f.nr).tx = w.tx
      BY <1>1, <3>1, <3>2, processAckAcked
    <3> HIDE DEF w, e
    <3>4. Grows(s.tx, processAck(w, f.nr).tx, A)
      BY <2>1, <3>3 DEF Says, e
    <3>5. Kept(e, w)
      BY <2>1 DEF Says
    <3>6. e.VS = s.VS /\ e.T200 = s.T200 /\ e.sentFrame = s.sentFrame /\ e.thread = s.thread
          /\ e.l1 = s.l1 /\ e.VR = s.VR
      BY DEF e, Entity
    <3> QED  BY <3>3, <3>4, <3>5, <3>6 DEF Acked, Kept
  <2> QED  BY <1>2, <2>2, <2>3
<1>5. CASE f.type # "RR"
  <2> DEFINE w == writeL1(a, SFrame("RR", TRUE, a.VR))
             reply == IF f.pf THEN w ELSE a
  <2>1. receiveSFrame(s, f) = IF f.pf /\ ~f.cmd THEN unexpectedMessage(a)
                              ELSE sendIdle(sendIdle(reply))
    BY <1>1, <1>3, <1>5 DEF receiveSFrame, receiveSFrameREJ
  <2>2. Says(a, w, A)
    <3>1. Says(a, w, Supervisory(a.VR)) /\ a.VR = s.VR
      BY <1>2, SFrameSays
    <3> QED  BY <3>1
  <2> HIDE DEF w, a, A
  <2>3. Says(a, reply, A) /\ reply \in Entity
    BY <1>2, <2>2, SaysNothing DEF Says
  <2>4. reply.VR = s.VR
    BY <1>2, <2>3 DEF Says, Kept
  <2> HIDE DEF reply
  <2>5. Says(reply, sendIdle(reply), A) /\ sendIdle(reply) \in Entity /\ sendIdle(reply).VR = s.VR
    <3>1. Says(reply, sendIdle(reply), Supervisory(reply.VR))
      BY <2>3, SFrameSays
    <3> QED  BY <2>4, <3>1 DEF Says, Kept, A
  <2>6. Says(sendIdle(reply), sendIdle(sendIdle(reply)), A)
    <3>1. Says(sendIdle(reply), sendIdle(sendIdle(reply)), Supervisory(sendIdle(reply).VR))
      BY <2>5, SFrameSays
    <3> QED  BY <2>5, <3>1 DEF A
  <2>7. Says(a, sendIdle(sendIdle(reply)), A)
    BY <1>2, <2>3, <2>5, <2>6, SaysTwice
  <2>8. Acked(s, sendIdle(sendIdle(reply)), f.nr, A) /\ sendIdle(sendIdle(reply)).VR = s.VR
    BY <1>2, <2>7, AckedSays
  <2>9. Closes(s, unexpectedMessage(a), Idle)
    <3>1. Closes(a, unexpectedMessage(a), Idle)
      BY <1>2, releasesClose
    <3> QED  BY <1>2, <3>1 DEF Closes, Acked
  <2> QED  BY <2>1, <2>8, <2>9 DEF A
<1> QED  BY <1>4, <1>5

\* An I-frame acknowledges too, and is answered with the next number that is expected.
LEMMA IFrameAcked ==
  ASSUME NEW s \in Entity, inMultiframe(s), NEW f \in Frame
  PROVE  LET t == receiveIFrame(s, f)
         IN  \/ Acked(s, t, f.nr, Supervisory(s.VR)) /\ t.VR = s.VR
             \/ /\ f.ns = s.VR /\ t.VR = Next8(s.VR)
                /\ Acked(s, t, f.nr, Supervisory(Next8(s.VR)))
<1> DEFINE e == [s EXCEPT !.estInProgress = FALSE, !.state = "LinkEstablished"]
           a == processAck(e, f.nr)
           c == [a EXCEPT !.VR = Next8(@)]
           n == bufferIFrameData(c, f)
<1>1. f.nr \in SeqNo /\ f.pf \in BOOLEAN
  BY DEF Frame
<1>2. \A A : Acked(s, a, f.nr, A) /\ a.VR = s.VR /\ a \in Entity /\ a.tx = s.tx
  <2>1. SUFFICES ASSUME NEW A
                 PROVE  Acked(s, a, f.nr, A) /\ a.VR = s.VR /\ a \in Entity /\ a.tx = s.tx
    OBVIOUS
  <2>2. Acked(s, a, f.nr, A) /\ a.VR = s.VR /\ a.tx = s.tx
    BY <1>1, processAckAcked
  <2>3. e \in Entity
    BY DEF Entity, LAPDState
  <2> QED  BY <1>1, <2>2, <2>3, processAckType
<1>3. [[s EXCEPT !.estInProgress = FALSE] EXCEPT !.state = "LinkEstablished"] = e
  BY DEF Entity
<1>4. receiveIFrame(s, f) = IF f.ns = s.VR THEN writeL1(n, SFrame("RR", f.pf, n.VR))
                            ELSE writeL1(a, SFrame("REJ", f.pf, a.VR))
  BY <1>3 DEF receiveIFrame
<1> HIDE DEF a
<1>5. Acked(s, writeL1(a, SFrame("REJ", f.pf, a.VR)), f.nr, Supervisory(s.VR))
      /\ writeL1(a, SFrame("REJ", f.pf, a.VR)).VR = s.VR
  <2>1. Says(a, writeL1(a, SFrame("REJ", f.pf, a.VR)), Supervisory(s.VR))
    BY <1>1, <1>2, SFrameSays
  <2> QED  BY <1>2, <2>1, AckedSays
<1>6. c \in Entity /\ c.VR = Next8(s.VR)
  <2>1. a.VR \in SeqNo
    BY <1>2 DEF Entity
  <2> QED  BY <1>2, <2>1, NextType DEF Entity
<1>7. n \in Entity
  BY <1>6, bufferIFrameDataType
<1>8. Kept(c, n) /\ n.tx = c.tx
  BY <1>6 DEF bufferIFrameData, Kept, Entity
<1>9. \A A : Acked(s, n, f.nr, A)
  <2>1. SUFFICES ASSUME NEW A PROVE Acked(s, n, f.nr, A)
    OBVIOUS
  <2>2. /\ c.state = a.state /\ c.VS = a.VS /\ c.VA = a.VA /\ c.T200 = a.T200
        /\ c.estInProgress = a.estInProgress /\ c.sentFrame = a.sentFrame
        /\ c.thread = a.thread /\ c.l1 = a.l1 /\ c.tx = a.tx
    BY <1>2 DEF Entity
  <2> HIDE DEF n, c
  <2> QED  BY <1>2, <1>7, <1>8, <2>2 DEF Acked, Kept
<1> HIDE DEF n
<1>10. n.VR = Next8(s.VR)
  BY <1>6, <1>8 DEF Kept
<1>11. Acked(s, writeL1(n, SFrame("RR", f.pf, n.VR)), f.nr, Supervisory(Next8(s.VR)))
       /\ writeL1(n, SFrame("RR", f.pf, n.VR)).VR = Next8(s.VR)
  <2>1. Says(n, writeL1(n, SFrame("RR", f.pf, n.VR)), Supervisory(Next8(s.VR)))
    BY <1>1, <1>7, <1>10, SFrameSays
  <2> QED  BY <1>9, <1>10, <2>1, AckedSays
<1> QED  BY <1>4, <1>5, <1>11

----------------------------------------------------------------------------
(* Methods of either end *)

\* Closing after idle frames is closing after quiet ones.
LEMMA ClosesQuietly ==
  ASSUME NEW s, NEW t, Closes(s, t, Idle)
  PROVE  Closes(s, t, Quiet)
  BY FrameSets, GrowsMore DEF Closes

\* Only its receiver clears mEstablishmentInProgress for good.
LEMMA ClearsFlag ==
  ASSUME NEW s \in Entity
  PROVE  LET r == [s EXCEPT !.estInProgress = FALSE]
         IN  /\ r \in Entity /\ r.tx = s.tx /\ r.state = s.state /\ r.l1 = s.l1 /\ r.VR = s.VR
             /\ r.VS = s.VS /\ r.VA = s.VA /\ r.T200 = s.T200 /\ r.sentFrame = s.sentFrame
             /\ r.thread = s.thread /\ r.asleep = s.asleep /\ ~r.estInProgress
             /\ \A t, A : Closes(r, t, A) => Closes(s, t, A)
<1> DEFINE r == [s EXCEPT !.estInProgress = FALSE]
<1>1. /\ r \in Entity /\ r.tx = s.tx /\ r.state = s.state /\ r.l1 = s.l1 /\ r.VR = s.VR
      /\ r.VS = s.VS /\ r.VA = s.VA /\ r.T200 = s.T200 /\ r.sentFrame = s.sentFrame
      /\ r.thread = s.thread /\ r.asleep = s.asleep /\ ~r.estInProgress
  BY DEF Entity
<1> HIDE DEF r
<1>2. \A t, A : Closes(r, t, A) => Closes(s, t, A)
  BY <1>1 DEF Closes
<1> QED  BY <1>1, <1>2 DEF r

\* A DISC is answered with UA or DM, and ends every link but one that ends already.
LEMMA DISCEnds ==
  ASSUME SAPI = 0, NEW s \in Entity, NEW f \in Frame
  PROVE  LET r == [s EXCEPT !.estInProgress = FALSE]
             t == receiveUFrameDISC(s, f)
         IN  /\ s.state = "AwaitingRelease" => Says(r, t, Quiet)
             /\ s.state \in {"LinkReleased", "AwaitingEstablish"} => Closes(s, t, Idle)
             /\ inMultiframe(s) => Closes(s, t, Quiet)
<1> DEFINE r == [s EXCEPT !.estInProgress = FALSE]
           ua == writeL1(r, UFrame("UA", f.pf, <<>>))
           dm == sendUFrameDM(r, f.pf)
           t == receiveUFrameDISC(s, f)
<1>1. /\ r \in Entity /\ r.thread = s.thread /\ r.sentFrame = s.sentFrame /\ r.tx = s.tx
      /\ \A u, A : Closes(r, u, A) => Closes(s, u, A)
  BY ClearsFlag
<1>2. f.pf \in BOOLEAN
  BY DEF Frame
<1>3. receiveUFrameDISC(s, f) =
        CASE s.state = "AwaitingEstablish" -> clearState(r)
          [] s.state = "LinkReleased" -> clearState(dm)
          [] s.state = "AwaitingRelease" -> ua
          [] OTHER -> clearState(ua)
  BY DEF receiveUFrameDISC
<1> HIDE DEF r
<1>4. Says(r, ua, Quiet) /\ Says(r, dm, Idle)
  BY <1>1, <1>2, AnswersSay
<1> HIDE DEF ua, dm
<1>5. /\ Closes(s, clearState(ua), Quiet) /\ Closes(s, clearState(dm), Idle)
      /\ Closes(s, clearState(r), Idle)
  BY <1>1, <1>4, clearStateCloses, releasesClose DEF Says, Kept
<1>6. s.state = "AwaitingRelease" => Says(r, t, Quiet)
  BY <1>3, <1>4
<1>7. s.state \in {"LinkReleased", "AwaitingEstablish"} => Closes(s, t, Idle)
  BY <1>3, <1>5
<1>8. inMultiframe(s) => Closes(s, t, Quiet)
  BY <1>3, <1>5 DEF inMultiframe
<1> QED  BY <1>6, <1>7, <1>8 DEF r

\* A method that leaves the link alone: the thread goes on, the timer is started or stopped.
Same(s, t) ==
  /\ t \in Entity /\ t.state = s.state /\ t.VS = s.VS /\ t.VA = s.VA /\ t.VR = s.VR
  /\ t.estInProgress = s.estInProgress /\ t.l1 = s.l1 /\ t.asleep = s.asleep

\* A method that leaves the link alone but for its thread and what it says.
Turns(s, t, thread) ==
  Same(s, t) /\ t.T200 = s.T200 /\ t.sentFrame = s.sentFrame /\ t.thread = thread /\ t.tx = s.tx

\* The thread moves on.
LEMMA ThreadTurns ==
  ASSUME NEW s \in Entity, NEW thread \in Thread
  PROVE  Turns(s, [s EXCEPT !.thread = thread], thread)
  BY DEF Turns, Same, Entity

\* The expiry of T200 sends f again, gives the link up, or finds none.
LEMMA T200Does ==
  ASSUME SAPI = 0, NEW s \in Entity, NEW f \in Frame
  PROVE  LET t == T200Expiration(s, f)
         IN  \/ Closes(s, t, Idle)
             \/ /\ s.state = "LinkReleased"
                /\ Same(s, t) /\ t.thread = s.thread /\ t.sentFrame = s.sentFrame /\ ~t.T200
                /\ t.tx = s.tx
             \/ /\ s.state \notin {"LinkReleased", "AwaitingRelease"}
                /\ Same(s, t) /\ t.thread = s.thread /\ t.sentFrame = s.sentFrame /\ t.T200
                /\ Grows(s.tx, t.tx, {f})
<1> DEFINE r == [s EXCEPT !.T200 = FALSE]
           w == writeL1(r, f)
           t == T200Expiration(s, f)
<1>1. Same(s, r) /\ r.thread = s.thread /\ r.sentFrame = s.sentFrame /\ ~r.T200 /\ r.tx = s.tx
  BY DEF Same, Entity
<1>2. t = CASE s.state = "AwaitingRelease" -> releaseLink(r, "RELEASE")
            [] s.state = "LinkReleased" -> r
            [] OTHER -> IF s.RC > N200 THEN abnormalRelease(r) ELSE [w EXCEPT !.RC = @ + 1, !.T200 = TRUE]
  BY DEF T200Expiration, retransmissionProcedure
<1>3. t \in Entity
  BY T200ExpirationType
<1> HIDE DEF r, t
<1>4. Closes(s, releaseLink(r, "RELEASE"), Idle) /\ Closes(s, abnormalRelease(r), Idle)
  <2>1. Closes(r, releaseLink(r, "RELEASE"), Idle) /\ Closes(r, abnormalRelease(r), Idle)
    BY <1>1, releasesClose DEF Same
  <2> QED  BY <1>1, <2>1 DEF Closes
<1>5. Says(r, w, {f})
  BY <1>1, writeL1Says DEF Same
<1> HIDE DEF w
<1>6. CASE s.state \notin {"LinkReleased", "AwaitingRelease"} /\ ~(s.RC > N200)
  <2>1. t = [w EXCEPT !.RC = @ + 1, !.T200 = TRUE]
    BY <1>2, <1>6
  <2>2. /\ t.state = w.state /\ t.VS = w.VS /\ t.VA = w.VA /\ t.VR = w.VR
        /\ t.estInProgress = w.estInProgress /\ t.l1 = w.l1 /\ t.asleep = w.asleep
        /\ t.thread = w.thread /\ t.sentFrame = w.sentFrame /\ t.T200 /\ t.tx = w.tx
    BY <1>5, <2>1 DEF Says, Entity
  <2>3. Same(s, t) /\ t.thread = s.thread /\ t.sentFrame = s.sentFrame /\ t.T200
    BY <1>1, <1>3, <1>5, <2>2 DEF Same, Says, Kept
  <2>4. Grows(s.tx, t.tx, {f})
    BY <1>1, <1>5, <2>2 DEF Says
  <2> QED  BY <1>6, <2>3, <2>4 DEF t
<1>7. CASE s.state = "LinkReleased"
  BY <1>1, <1>2, <1>7 DEF t
<1>8. CASE s.state = "AwaitingRelease" \/ (s.state # "LinkReleased" /\ s.RC > N200)
  BY <1>2, <1>4, <1>8 DEF t
<1> QED  BY <1>6, <1>7, <1>8

\* sendMultiframeData() sends a segment as the next I-frame and starts T200, or gives up.
LEMMA SegmentDoes ==
  ASSUME NEW s \in Entity, s.todo # <<>>
  PROVE  LET t == sendSegment(s)
         IN  \/ Turns(s, t, "idle")
             \/ /\ inMultiframe(s) /\ t \in Entity
                /\ t.state = s.state /\ t.VA = s.VA /\ t.VR = s.VR /\ t.l1 = s.l1
                /\ t.estInProgress = s.estInProgress /\ t.asleep = s.asleep
                /\ t.thread \in {"idle", s.thread}
                /\ t.VS = Next8(s.VS) /\ t.T200
                /\ t.sentFrame.type = "I" /\ t.sentFrame.ns = s.VS
                /\ Grows(s.tx, t.tx, {f \in Frame : f.type = "I" /\ f.ns = s.VS /\ f.nr = s.VR})
<1> DEFINE r == [s EXCEPT !.todo = Tail(@)]
           n == [r EXCEPT !.VS = Next8(@)]
           m == Len(s.todo) > 1
           f == IFrame(r.VS, r.VR, m, Head(s.todo))
           w == writeL1(n, f)
           sent1 == [w EXCEPT !.sentFrame = f, !.T200 = TRUE]
           t == sendSegment(s)
<1>1. t \in Entity
  BY sendSegmentType
<1>2. t = IF s.discard \/ ~inMultiframe(s) THEN [s EXCEPT !.todo = <<>>, !.thread = "idle"]
          ELSE IF Len(s.todo) = 1 THEN [sent1 EXCEPT !.thread = "idle"] ELSE sent1
  BY DEF sendSegment, sendIFrame, writeL1Ack
<1> HIDE DEF t
<1>3. CASE s.discard \/ ~inMultiframe(s)
  <2>1. t = [s EXCEPT !.todo = <<>>, !.thread = "idle"]
    BY <1>2, <1>3
  <2>2. Turns(s, t, "idle")
    BY <1>1, <2>1 DEF Turns, Same, Entity
  <2> QED  BY <2>2 DEF t
<1>4. CASE ~s.discard /\ inMultiframe(s)
  <2>1. /\ s.todo \in Seq(Segment) /\ Head(s.todo) \in Segment /\ Tail(s.todo) \in Seq(Segment)
        /\ m \in BOOLEAN /\ s.VS \in SeqNo /\ s.VR \in SeqNo
    <3>1. s.todo \in Seq(Segment)
      BY DEF Entity
    <3> QED  BY <3>1 DEF Entity
  <2>2. r \in Entity /\ r.VS = s.VS /\ r.VR = s.VR
    BY <2>1 DEF Entity
  <2>3. f \in Frame /\ f.type = "I" /\ f.ns = s.VS /\ f.nr = s.VR
    <3>1. f \in Frame
      BY <2>1, <2>2, IFrameType
    <3> QED  BY <2>2, <3>1 DEF IFrame
  <2>4. /\ n \in Entity /\ n.state = s.state /\ n.VA = s.VA /\ n.VR = s.VR /\ n.l1 = s.l1
        /\ n.estInProgress = s.estInProgress /\ n.asleep = s.asleep /\ n.thread = s.thread
        /\ n.VS = Next8(s.VS) /\ n.tx = s.tx
    <3>1. Next8(s.VS) \in SeqNo
      BY <2>1, NextType
    <3> QED  BY <2>1, <3>1 DEF Entity
  <2> HIDE DEF n, f, r, m
  <2> DEFINE A == {x \in Frame : x.type = "I" /\ x.ns = s.VS /\ x.nr = s.VR}
  <2>5. Says(n, w, A)
    BY <2>3, <2>4, writeL1Says
  <2> HIDE DEF w, A
  <2>6. /\ t.state = w.state /\ t.VA = w.VA /\ t.VR = w.VR /\ t.l1 = w.l1
        /\ t.estInProgress = w.estInProgress /\ t.asleep = w.asleep
        /\ t.thread \in {"idle", w.thread}
        /\ t.VS = w.VS /\ t.T200 /\ t.sentFrame = f /\ t.tx = w.tx
    BY <1>2, <1>4, <2>5 DEF Says, Entity
  <2>7. /\ t.state = s.state /\ t.VA = s.VA /\ t.VR = s.VR /\ t.l1 = s.l1
        /\ t.estInProgress = s.estInProgress /\ t.asleep = s.asleep
        /\ t.thread \in {"idle", s.thread}
        /\ t.VS = Next8(s.VS) /\ t.T200 /\ t.sentFrame = f /\ Grows(s.tx, t.tx, A)
    BY <2>4, <2>5, <2>6 DEF Says, Kept
  <2> QED  BY <1>1, <1>4, <2>3, <2>7 DEF t, A
<1> QED  BY <1>3, <1>4

\* A release sends its DISC.
LEMMA DISCDoes ==
  ASSUME NEW s \in Entity
  PROVE  LET t == sendDISC(s)
         IN  /\ t \in Entity /\ t.state = "AwaitingRelease" /\ t.thread = "disc" /\ t.l1 = s.l1
             /\ t.sentFrame.type = "DISC" /\ Grows(s.tx, t.tx, {f \in Frame : f.type = "DISC"})
<1> DEFINE c == clearCounters(s)
           d == [c EXCEPT !.estInProgress = FALSE, !.state = "AwaitingRelease", !.thread = "disc"]
           f == UFrame("DISC", TRUE, <<>>)
           w == writeL1(d, f)
           t == sendDISC(s)
<1>1. t \in Entity
  BY sendDISCType
<1>2. t = [w EXCEPT !.sentFrame = f, !.T200 = TRUE]
  BY DEF sendDISC, writeL1Ack
<1>3. f \in Frame /\ f.type = "DISC"
  <2>1. f \in Frame
    BY UFrameType, EmptyTypes DEF FrameType
  <2> QED  BY <2>1 DEF UFrame
<1>4. d \in Entity /\ d.state = "AwaitingRelease" /\ d.thread = "disc" /\ d.l1 = s.l1 /\ d.tx = s.tx
  <2>1. c \in Entity /\ c.l1 = s.l1 /\ c.tx = s.tx
    <3>1. c \in Entity
      BY clearCountersType
    <3> QED  BY <3>1 DEF clearCounters, Entity
  <2> HIDE DEF c
  <2> QED  BY <2>1 DEF Entity, LAPDState, Thread
<1> HIDE DEF t, d, f
<1> DEFINE A == {x \in Frame : x.type = "DISC"}
<1>5. Says(d, w, A)
  BY <1>3, <1>4, writeL1Says
<1> HIDE DEF w, A
<1>6. t.state = w.state /\ t.thread = w.thread /\ t.l1 = w.l1 /\ t.sentFrame = f /\ t.tx = w.tx
  BY <1>2, <1>5 DEF Says, Entity
<1> QED  BY <1>1, <1>3, <1>4, <1>5, <1>6 DEF Says, Kept, t, A
============================================================================
