---------------------------- MODULE LAPDmProofs ----------------------------
(***************************************************************************)
(* Proofs about LAPDm, for every N200, modulus, traffic and bound.         *)
(*                                                                         *)
(* The first half holds for every SAP: each step of the link preserves the *)
(* inductive invariant LinkInv, which says what layer 3 knows.  The second *)
(* half is about SAP0 with a standard phone that starts its timer in time: *)
(* each step keeps WindowInv, which says how the frames in flight and the  *)
(* counters of the two ends go together.                                   *)
(***************************************************************************)
EXTENDS LAPDm, LAPDmEntityProofs

----------------------------------------------------------------------------
(* The service loop and the opening of the channel *)

\* A standard phone that stays awake is an entity.
LEMMA SleepsType ==
  ASSUME NEW s \in Entity, NEW e \in End
  PROVE  Sleeps(e, s) \in Entity
<1>1. (s.asleep /\ e \notin Standard) \in BOOLEAN
  OBVIOUS
<1> QED  BY <1>1 DEF Sleeps, Entity

\* The top of serviceLoop() keeps the type.
LEMMA TurnType ==
  ASSUME NEW s \in Entity, NEW e \in End
  PROVE  Turn(e, s) \in Entity
<1>1. topOfServiceLoop(s, ~sap0[e]) \in Entity
  BY topOfServiceLoopType
<1> QED  BY <1>1, SleepsType DEF Turn

\* A channel opens with entities at both ends.
LEMMA OpenedType ==
  ASSUME NEW s \in Entity, NEW e \in End
  PROVE  Opened(e, s) \in Entity
<1> DEFINE o == open(s)
           l1 == IF SAPI = 0 /\ e = "BTS" THEN "fresh" ELSE "open"
<1>1. o \in Entity
  BY openType
<1> HIDE DEF o
<1>2. l1 \in {"closed", "fresh", "open"}
  OBVIOUS
<1> HIDE DEF l1
<1>3. [o EXCEPT !.l1 = l1] \in Entity
  BY <1>1, <1>2 DEF Entity
<1> QED  BY <1>3, SleepsType DEF Opened, o, l1

----------------------------------------------------------------------------
(* The inductive invariant.  EndInv(e, s, up) is its part for the entity s of e whose SAP0  *)
(* is up or not.                                                                           *)

Fresh(e, s) ==
  /\ SAPI = 0 /\ e = "BTS"
  /\ s.state = "LinkReleased" /\ s.thread \in {"idle", "data", "disc"}
  /\ s.thread = "data" => s.discard
  /\ ~s.T200 /\ s.recvBuffer = <<>> /\ s.got = <<>>

EndInv(e, s, up) ==
  /\ s.thread = "data" => s.todo # <<>>
  /\ inMultiframe(s) => s.l3 = "ESTABLISH"
  /\ up /\ s.state = "LinkReleased" => s.l3 # "ESTABLISH"
  /\ s.l1 = "fresh" => Fresh(e, s)

LinkInv ==
  /\ TypeOK
  /\ \A e \in End : EndInv(e, ent[e], sap0[e])

\* A method that tells layer 3 keeps the invariant of an end whose receiver has heard the phone.
LEMMA TellsEndInv ==
  ASSUME NEW e, NEW up, NEW s \in Entity, NEW t \in Entity,
         EndInv(e, s, up), Tells(s, t), s.l1 # "fresh"
  PROVE  EndInv(e, t, up)
  BY DEF EndInv, Tells

\* The invariant of an end says nothing of the frames on the way.
LEMMA txEndInv ==
  ASSUME NEW e, NEW up, NEW s \in Entity, EndInv(e, s, up), NEW tx \in Seq(Frame)
  PROVE  [s EXCEPT !.tx = tx] \in Entity /\ EndInv(e, [s EXCEPT !.tx = tx], up)
<1>1. [s EXCEPT !.tx = tx] \in Entity
  BY DEF Entity
<1>2. EndInv(e, [s EXCEPT !.tx = tx], up)
  BY DEF Entity, EndInv, Fresh, inMultiframe
<1> QED  BY <1>1, <1>2

\* A frame from L1 keeps the invariant of an end, the first one on a channel included.
LEMMA fromL1EndInv ==
  ASSUME NEW e, NEW up, NEW s \in Entity, EndInv(e, s, up), NEW f \in Frame
  PROVE  EndInv(e, fromL1(s, f), up)
<1> DEFINE o == [s EXCEPT !.l1 = "open"]
           c == clearCounters(o)
<1>1. s.l1 \in {"closed", "fresh", "open"}
  BY DEF Entity
<1>2. CASE s.l1 = "closed"
  BY <1>2 DEF fromL1
<1>3. CASE s.l1 = "open"
  BY <1>3, receiveFrameType, receiveFrameTells, TellsEndInv DEF fromL1
<1>4. CASE s.l1 = "fresh"
  <2>1. o \in Entity /\ EndInv(e, o, up) /\ o.l1 = "open"
    BY <1>4 DEF Entity, EndInv, Fresh, inMultiframe
  <2> HIDE DEF o
  <2>2. c \in Entity /\ Tells(o, c)
    BY <2>1, clearCountersType, clearCountersTells
  <2> HIDE DEF c
  <2>3. Tells(o, receiveFrame(c, f)) /\ receiveFrame(c, f) \in Entity
    BY <2>2, receiveFrameType, receiveFrameTells, TellsTransitive
  <2>4. EndInv(e, receiveFrame(c, f), up)
    BY <2>1, <2>3, TellsEndInv
  <2> QED  BY <1>4, <2>4 DEF fromL1, c, o
<1> QED  BY <1>1, <1>2, <1>3, <1>4

\* The top of serviceLoop() keeps it; a slave SAP follows its released master.
LEMMA TurnEndInv ==
  ASSUME NEW e \in End, NEW s \in Entity, EndInv(e, s, sap0[e])
  PROVE  EndInv(e, Turn(e, s), sap0[e])
<1> DEFINE t == topOfServiceLoop(s, ~sap0[e])
<1>1. EndInv(e, t, sap0[e]) /\ t \in Entity
  <2> DEFINE state == IF ~sap0[e] THEN "LinkReleased" ELSE s.state
             asleep == (state = "LinkReleased" /\ ~s.T200)
             r == [s EXCEPT !.state = state, !.asleep = asleep]
  <2>1. state \in LAPDState /\ asleep \in BOOLEAN
    BY DEF Entity, LAPDState
  <2>2. sap0[e] => state = s.state
    OBVIOUS
  <2>3. state \in {s.state, "LinkReleased"}
    OBVIOUS
  <2> HIDE DEF state, asleep
  <2>4. r \in Entity
    BY <2>1 DEF Entity
  <2>5. /\ r.state = state /\ r.l3 = s.l3 /\ r.l1 = s.l1 /\ r.thread = s.thread
        /\ r.discard = s.discard /\ r.todo = s.todo /\ r.T200 = s.T200 /\ r.recvBuffer = s.recvBuffer
        /\ r.got = s.got
    BY DEF Entity
  <2> HIDE DEF r
  <2>6. EndInv(e, r, sap0[e])
    BY <2>2, <2>3, <2>5 DEF EndInv, Fresh, inMultiframe
  <2> QED  BY <2>4, <2>6 DEF topOfServiceLoop, state, asleep, r
<1> HIDE DEF t
<1>2. EndInv(e, [t EXCEPT !.asleep = @ /\ e \notin Standard], sap0[e])
  BY <1>1 DEF EndInv, Entity, Fresh, inMultiframe
<1> QED  BY <1>2 DEF Turn, Sleeps, t

\* Opening the channel establishes it, if the thread has no part of ESTABLISH or RELEASE to do.
LEMMA OpenedEndInv ==
  ASSUME NEW e \in End, NEW up, NEW s \in Entity, s.thread \in {"idle", "data", "disc"},
         s.thread = "data" => s.todo # <<>>
  PROVE  EndInv(e, Opened(e, s), up)
<1> DEFINE c == clearCounters(s)
           o == [c EXCEPT !.state = "LinkReleased", !.l3 = "RELEASE", !.l1 = "fresh",
                          !.tx = <<>>]
           l1 == IF SAPI = 0 /\ e = "BTS" THEN "fresh" ELSE "open"
           p == open(s)
           q == [p EXCEPT !.l1 = l1]
<1>1. /\ c \in Entity /\ ~c.T200 /\ c.recvBuffer = <<>> /\ c.got = <<>> /\ c.discard
      /\ c.thread = s.thread /\ c.todo = s.todo
  BY clearCountersType DEF clearCounters, Entity
<1> HIDE DEF c
<1>2. /\ o.state = "LinkReleased" /\ o.l3 = "RELEASE" /\ ~o.T200 /\ o.discard
      /\ o.recvBuffer = <<>> /\ o.got = <<>> /\ o.thread = s.thread /\ o.todo = s.todo
  BY <1>1 DEF Entity
<1>3. o \in Entity
  <2>1. <<>> \in Seq(Frame) /\ "LinkReleased" \in LAPDState
    BY DEF LAPDState
  <2> QED  BY <1>1, <2>1 DEF Entity
<1> HIDE DEF o
<1>4. /\ p \in Entity
      /\ p.state = "LinkReleased" /\ p.l3 = "RELEASE" /\ ~p.T200 /\ p.discard
      /\ p.recvBuffer = <<>> /\ p.got = <<>> /\ p.thread = s.thread /\ p.todo = s.todo
  <2>1. \A f : LET w == writeL1(o, f) IN
          /\ w.state = o.state /\ w.l3 = o.l3 /\ w.thread = o.thread /\ w.T200 = o.T200
          /\ w.recvBuffer = o.recvBuffer /\ w.got = o.got
          /\ w.discard = o.discard /\ w.todo = o.todo
    BY <1>3 DEF writeL1, Entity
  <2> QED  BY <1>2, <2>1, openType DEF open, sendIdle, o, c
<1> HIDE DEF p
<1>5. l1 = "fresh" => SAPI = 0 /\ e = "BTS"
  OBVIOUS
<1> HIDE DEF l1
<1>6. EndInv(e, [q EXCEPT !.asleep = @ /\ e \notin Standard], up)
  BY <1>4, <1>5 DEF EndInv, Entity, Fresh, inMultiframe
<1> QED  BY <1>6 DEF Opened, Sleeps, q, p, l1

\* The releases layer 3 forces keep it.
LEMMA releasesEndInv ==
  ASSUME NEW e, NEW up, NEW s \in Entity, EndInv(e, s, up)
  PROVE  EndInv(e, abnormalRelease(s), up) /\ EndInv(e, hardRelease(s), up)
<1> DEFINE d == sendUFrameDM(s, TRUE)
           c == clearCounters(s)
           cd == clearCounters(d)
           a == releaseLink(cd, "RELEASE")
           h == releaseLink(c, "HARDRELEASE")
<1>1. d \in Entity /\ Tells(s, d) /\ c \in Entity /\ Tells(s, c)
  BY sendUFrameType, sendUFrameTells, clearCountersType, clearCountersTells
<1> HIDE DEF c, d
<1>2. cd \in Entity /\ Tells(s, cd)
  BY <1>1, clearCountersType, clearCountersTells, TellsTransitive
<1> HIDE DEF cd
<1>3. s.l1 # "fresh" \/ SAPI = 0
  BY DEF EndInv, Fresh
<1>4. EndInv(e, a, up)
  BY <1>2, <1>3 DEF EndInv, Tells, releaseLink, Entity, inMultiframe
<1>5. EndInv(e, h, up)
  BY <1>1, <1>3 DEF EndInv, Tells, releaseLink, Entity, inMultiframe
<1> QED  BY <1>4, <1>5 DEF abnormalRelease, clearState, hardRelease, a, h, c, cd, d

\* A turn of the sending loop keeps it.
LEMMA sendSegmentEndInv ==
  ASSUME NEW e, NEW up, NEW s \in Entity, EndInv(e, s, up), s.thread = "data"
  PROVE  EndInv(e, sendSegment(s), up)
<1> DEFINE r == [s EXCEPT !.todo = Tail(@)]
           v == [r EXCEPT !.VS = Next8(@)]
           seg == Head(s.todo)
           m == Len(s.todo) > 1
           f == IFrame(r.VS, r.VR, m, seg)
           w == writeL1(v, f)
           out == [w EXCEPT !.sentFrame = f, !.T200 = TRUE]
<1>1. s.todo \in Seq(Segment) /\ s.todo # <<>> /\ (s.discard \/ s.l1 # "fresh")
  BY DEF Entity, EndInv, Fresh
<1>2. Tail(s.todo) \in Seq(Segment) /\ seg \in Segment /\ m \in BOOLEAN
  BY <1>1
<1>3. r \in Entity /\ r.todo = Tail(s.todo)
  BY <1>2 DEF Entity
<1>4. /\ r.state = s.state /\ r.l3 = s.l3 /\ r.l1 = s.l1 /\ r.thread = "data"
  BY DEF Entity
<1> HIDE DEF r
<1>5. v \in Entity /\ Tells(r, v)
  BY <1>3, NextType DEF Entity, Tells, inMultiframe
<1>6. f \in Frame
  BY <1>2, <1>3, IFrameType DEF Entity
<1> HIDE DEF v, f
<1>7. w \in Entity /\ Tells(r, w)
  BY <1>5, <1>6, writeL1Type, writeL1Tells, TellsTransitive
<1> HIDE DEF w
<1>8. out \in Entity /\ Tells(w, out)
  BY <1>6, <1>7 DEF Entity, Tells, inMultiframe
<1> HIDE DEF out
<1>9. out \in Entity /\ Tells(r, out)
  BY <1>7, <1>8, TellsTransitive
<1>10. sendIFrame(r, seg, m) = out
  BY DEF sendIFrame, writeL1Ack, out, w, v, f
<1>11. EndInv(e, [s EXCEPT !.todo = <<>>, !.thread = "idle"], up)
  BY <1>1 DEF EndInv, Entity, inMultiframe, Fresh
<1>12. s.l1 # "fresh" => EndInv(e, [out EXCEPT !.thread = "idle"], up)
  BY <1>1, <1>4, <1>9 DEF EndInv, Entity, Tells, inMultiframe
<1>13. CASE s.discard
  BY <1>11, <1>13 DEF sendSegment
<1>14. CASE s.l1 # "fresh" /\ Len(s.todo) = 1
  BY <1>10, <1>11, <1>12, <1>14 DEF sendSegment, r, seg, m
<1>15. CASE s.l1 # "fresh" /\ Len(s.todo) # 1
  <2>1. Tail(s.todo) # <<>>
    <3>1. Len(s.todo) \in Nat \ {0, 1}
      BY <1>1, <1>15, EmptySeq
    <3>2. Len(Tail(s.todo)) = Len(s.todo) - 1
      BY <1>1, HeadTailProperties
    <3> DEFINE n == Len(s.todo)
               rest == Tail(s.todo)
    <3>3. n \in Nat \ {0, 1} /\ Len(rest) = n - 1
      BY <3>1, <3>2
    <3> HIDE DEF n, rest
    <3>4. Len(rest) # 0
      BY <3>3
    <3>5. rest # <<>>
      BY <3>4, EmptySeq
    <3> QED  BY <3>5 DEF rest
  <2>2. EndInv(e, out, up)
    BY <2>1, <1>1, <1>3, <1>4, <1>9, <1>15 DEF EndInv, Tells, inMultiframe
  <2> QED  BY <1>10, <1>11, <1>15, <2>2 DEF sendSegment, r, seg, m
<1> QED  BY <1>1, <1>13, <1>14, <1>15

\* Taking a message keeps it; on a released link it releases once more.
LEMMA sendMultiframeDataEndInv ==
  ASSUME NEW e, NEW up, NEW s \in Entity, EndInv(e, s, up),
         NEW msg \in Seq(Segment), msg # <<>>
  PROVE  EndInv(e, sendMultiframeData(s, msg), up)
<1> DEFINE begun == [s EXCEPT !.discard = FALSE, !.todo = msg, !.thread = "data"]
<1>1. CASE s.state = "LinkReleased"
  BY <1>1, releasesEndInv DEF sendMultiframeData
<1>2. CASE s.state # "LinkReleased"
  <2>1. begun \in Entity /\ begun.thread = "data"
    BY DEF Entity, Thread
  <2>2. EndInv(e, begun, up)
    BY <1>2 DEF EndInv, Entity, Fresh, inMultiframe
  <2> HIDE DEF begun
  <2>3. EndInv(e, sendSegment(begun), up)
    BY <2>1, <2>2, sendSegmentEndInv
  <2> QED  BY <1>2, <2>2, <2>3 DEF sendMultiframeData, begun
<1> QED  BY <1>1, <1>2

\* The thread may become idle on a fresh channel too.
LEMMA idleEndInv ==
  ASSUME NEW e, NEW up, NEW s \in Entity, EndInv(e, s, up)
  PROVE  EndInv(e, [s EXCEPT !.thread = "idle"], up)
  BY DEF EndInv, Entity, inMultiframe, Fresh

\* The parts of ESTABLISH and RELEASE keep it; none runs while a channel is fresh.
LEMMA threadEndInv ==
  ASSUME NEW e, NEW up, NEW s \in Entity, EndInv(e, s, up),
         s.thread \notin {"idle", "data", "disc"}
  PROVE  /\ EndInv(e, awaitEstablish(s), up)
         /\ EndInv(e, writeSABM(s), up)
         /\ EndInv(e, startSABMTimer(s), up)
         /\ EndInv(e, sendDISC(s), up)
<1> DEFINE c == clearCounters(s)
           f == UFrame("SABM", TRUE, <<>>)
           w == writeL1(s, f)
           d == [c EXCEPT !.estInProgress = FALSE, !.state = "AwaitingRelease",
                          !.thread = "disc"]
           g == UFrame("DISC", TRUE, <<>>)
           x == writeL1(d, g)
<1>1. s.l1 # "fresh"
  BY DEF EndInv, Fresh
<1>2. c \in Entity /\ Tells(s, c) /\ f \in Frame /\ g \in Frame
  BY clearCountersType, clearCountersTells, UFrameType, EmptyTypes DEF FrameType
<1> HIDE DEF c, f, g
<1>3. w \in Entity /\ Tells(s, w)
  BY <1>2, writeL1Type, writeL1Tells
<1> HIDE DEF w
<1>4. d \in Entity
  BY <1>2 DEF Entity, LAPDState, Thread
<1>5. EndInv(e, d, up) /\ d.l1 # "fresh"
  BY <1>1, <1>2 DEF EndInv, Entity, Tells, inMultiframe
<1> HIDE DEF d
<1>6. x \in Entity /\ EndInv(e, x, up) /\ x.l1 # "fresh"
  <2>1. x \in Entity /\ Tells(d, x)
    BY <1>2, <1>4, writeL1Type, writeL1Tells
  <2> HIDE DEF x
  <2> QED  BY <1>4, <1>5, <2>1, TellsEndInv DEF Tells
<1> HIDE DEF x
<1>7. EndInv(e, [x EXCEPT !.sentFrame = g, !.T200 = TRUE], up)
  BY <1>6 DEF EndInv, Entity, inMultiframe
<1>8. EndInv(e, [c EXCEPT !.state = "AwaitingEstablish", !.thread = "sabm"], up)
  BY <1>1, <1>2 DEF EndInv, Entity, Tells, inMultiframe
<1>9. EndInv(e, [w EXCEPT !.sentFrame = f, !.thread = "sabmT200"], up)
  BY <1>1, <1>3 DEF EndInv, Entity, Tells, inMultiframe
<1>10. EndInv(e, [s EXCEPT !.T200 = TRUE, !.thread = "idle"], up)
  BY <1>1 DEF EndInv, Entity, inMultiframe
<1> QED
  BY <1>7, <1>8, <1>9, <1>10
  DEF awaitEstablish, writeSABM, startSABMTimer, sendDISC, writeL1Ack, x, d, c, w, f, g

----------------------------------------------------------------------------
(* The steps of the link *)

\* A step that changes the entity of e alone, or that and what its peer has on the air.
LEMMA OneEnd ==
  ASSUME LinkInv, NEW e \in End, NEW t \in Entity, EndInv(e, t, sap0[e]),
         ent' = [ent EXCEPT ![e] = t], sap0' = sap0
  PROVE  /\ ent' \in [End -> Entity]
         /\ \A x \in End : EndInv(x, ent'[x], sap0'[x])
  BY DEF LinkInv, TypeOK

\* One end receives, the other gives up frames: LinkInv holds of the pair.
LEMMA Moved ==
  ASSUME LinkInv, NEW e \in End, NEW p \in End, p # e, NEW tx \in Seq(Frame),
         NEW t \in Entity, EndInv(e, t, sap0[e]),
         ent' = [ent EXCEPT ![p].tx = tx, ![e] = t], sap0' = sap0
  PROVE  /\ ent' \in [End -> Entity]
         /\ \A x \in End : EndInv(x, ent'[x], sap0'[x])
<1> DEFINE q == [ent[p] EXCEPT !.tx = tx]
<1>1. ent[p] \in Entity /\ EndInv(p, ent[p], sap0[p])
  BY DEF LinkInv, TypeOK
<1>2. q \in Entity /\ EndInv(p, q, sap0[p])
  BY <1>1, txEndInv
<1> HIDE DEF q
<1>3. ent' = [ent EXCEPT ![p] = q, ![e] = t]
  BY DEF q
<1> QED  BY <1>2, <1>3 DEF LinkInv, TypeOK

\* LinkInv holds initially.
LEMMA InitLinkInv == Init => LinkInv
<1> SUFFICES ASSUME Init PROVE LinkInv
  OBVIOUS
<1>1. NewEntity \in Entity /\ NewEntity.thread = "idle"
  BY NewEntityType DEF NewEntity
<1>2. \A e \in End : Opened(e, NewEntity) \in Entity
  BY <1>1, OpenedType
<1>3. \A e \in End : EndInv(e, Opened(e, NewEntity), TRUE)
  BY <1>1, OpenedEndInv
<1>4. TypeOK
  BY <1>2 DEF Init, TypeOK
<1>5. \A e \in End : EndInv(e, ent[e], sap0[e])
  BY <1>3 DEF Init
<1> QED  BY <1>4, <1>5 DEF LinkInv

\* Receiving, receiving again and losing a frame preserve LinkInv.
LEMMA ReceiveLinkInv ==
  ASSUME LinkInv, NEW e \in End, Receive(e) \/ ReceiveRepeated \/ Lose(e)
  PROVE  LinkInv'
<1>1. /\ ent \in [End -> Entity] /\ \A x \in End : EndInv(x, ent[x], sap0[x])
      /\ \A x \in End : ent[x].tx \in Seq(Frame)
  BY DEF LinkInv, TypeOK, Entity
<1>2. \A x, y \in End : ent[y].tx # <<>> =>
        LET t == Turn(x, fromL1(ent[x], Head(ent[y].tx)))
        IN  t \in Entity /\ EndInv(x, t, sap0[x])
  <2> SUFFICES ASSUME NEW x \in End, NEW y \in End, ent[y].tx # <<>>
               PROVE  LET t == Turn(x, fromL1(ent[x], Head(ent[y].tx)))
                      IN  t \in Entity /\ EndInv(x, t, sap0[x])
    OBVIOUS
  <2>1. Head(ent[y].tx) \in Frame
    BY <1>1
  <2>2. /\ fromL1(ent[x], Head(ent[y].tx)) \in Entity
        /\ EndInv(x, fromL1(ent[x], Head(ent[y].tx)), sap0[x])
    BY <1>1, <2>1, fromL1Type, fromL1EndInv
  <2> QED  BY <2>2, TurnType, TurnEndInv
<1>3. \A x \in End : ent[x].tx # <<>> => Tail(ent[x].tx) \in Seq(Frame)
  BY <1>1
<1>4. CASE Receive(e)
  <2> DEFINE p == Peer(e)
             tx == Tail(ent[p].tx)
             t == Turn(e, fromL1(ent[e], Head(ent[p].tx)))
  <2>1. p \in End /\ p # e
    BY DEF Peer, End
  <2>2. t \in Entity /\ EndInv(e, t, sap0[e]) /\ tx \in Seq(Frame)
    BY <1>2, <1>3, <1>4, <2>1 DEF Receive
  <2>3. ent' = [ent EXCEPT ![p].tx = tx, ![e] = t] /\ sap0' = sap0
    BY <1>4, <2>1 DEF Receive
  <2> HIDE DEF p, tx, t
  <2>4. /\ ent' \in [End -> Entity]
        /\ \A x \in End : EndInv(x, ent'[x], sap0'[x])
    BY <2>1, <2>2, <2>3, Moved
  <2> QED  BY <1>4, <2>4 DEF Receive, LinkInv, TypeOK
<1>5. CASE ReceiveRepeated
  <2> DEFINE t == Turn("MS", fromL1(ent["MS"], Head(ent["BTS"].tx)))
  <2>1. ent["BTS"].tx # <<>> /\ "MS" \in End /\ "BTS" \in End
    BY <1>5 DEF ReceiveRepeated, End
  <2>2. t \in Entity /\ EndInv("MS", t, sap0["MS"])
    BY <1>2, <2>1
  <2>3. ent' = [ent EXCEPT !["MS"] = t] /\ sap0' = sap0
    BY <1>5 DEF ReceiveRepeated
  <2> HIDE DEF t
  <2>4. /\ ent' \in [End -> Entity]
        /\ \A x \in End : EndInv(x, ent'[x], sap0'[x])
    BY <2>1, <2>2, <2>3, OneEnd
  <2> QED  BY <1>5, <2>4 DEF ReceiveRepeated, LinkInv, TypeOK
<1>6. CASE Lose(e)
  <2> DEFINE t == [ent[e] EXCEPT !.tx = Tail(@)]
  <2>1. t \in Entity /\ EndInv(e, t, sap0[e])
    BY <1>1, <1>3, <1>6, txEndInv DEF Lose
  <2>2. ent' = [ent EXCEPT ![e] = t] /\ sap0' = sap0
    BY <1>6 DEF Lose
  <2> HIDE DEF t
  <2>3. /\ ent' \in [End -> Entity]
        /\ \A x \in End : EndInv(x, ent'[x], sap0'[x])
    BY <2>1, <2>2, OneEnd
  <2> QED  BY <1>6, <2>3 DEF Lose, LinkInv, TypeOK
<1> QED  BY <1>4, <1>5, <1>6

\* The expiry of T200 and an idle turn of serviceLoop() preserve LinkInv.
LEMMA TimerLinkInv ==
  ASSUME LinkInv, NEW e \in End, T200Expires(e) \/ IdleTurn(e)
  PROVE  LinkInv'
<1>1. ent[e] \in Entity /\ EndInv(e, ent[e], sap0[e])
  BY DEF LinkInv, TypeOK
<1> DEFINE x == T200Expiration(ent[e], Resent(e))
<1>2. CASE T200Expires(e)
  <2>1. Resent(e) \in Frame
    <3>1. ent[e].sentFrame \in Frame /\ ent[e].VR \in SeqNo
      BY <1>1 DEF Entity
    <3>2. [ent[e].sentFrame EXCEPT !.nr = ent[e].VR] \in Frame
      BY <3>1 DEF Frame
    <3> QED  BY <3>1, <3>2 DEF Resent
  <2>2. ent[e].l1 # "fresh"
    BY <1>1, <1>2 DEF T200Expires, EndInv, Fresh
  <2>3. x \in Entity /\ EndInv(e, x, sap0[e])
    BY <1>1, <2>1, <2>2, T200ExpirationType, T200ExpirationTells, TellsEndInv
  <2>4. ent' = [ent EXCEPT ![e] = Turn(e, x)] /\ sap0' = sap0
    BY <1>2 DEF T200Expires
  <2> HIDE DEF x
  <2>5. Turn(e, x) \in Entity /\ EndInv(e, Turn(e, x), sap0[e])
    BY <2>3, TurnType, TurnEndInv
  <2>6. /\ ent' \in [End -> Entity]
        /\ \A y \in End : EndInv(y, ent'[y], sap0'[y])
    BY <2>4, <2>5, OneEnd
  <2> QED  BY <1>2, <2>6 DEF T200Expires, LinkInv, TypeOK
<1>3. CASE IdleTurn(e)
  <2>1. Turn(e, ent[e]) \in Entity /\ EndInv(e, Turn(e, ent[e]), sap0[e])
    BY <1>1, TurnType, TurnEndInv
  <2>2. ent' = [ent EXCEPT ![e] = Turn(e, ent[e])] /\ sap0' = sap0
    BY <1>3 DEF IdleTurn
  <2>3. /\ ent' \in [End -> Entity]
        /\ \A y \in End : EndInv(y, ent'[y], sap0'[y])
    BY <2>1, <2>2, OneEnd
  <2> QED  BY <1>3, <2>3 DEF IdleTurn, LinkInv, TypeOK
<1> QED  BY <1>2, <1>3

\* A request of layer 3 that keeps the invariant of its end preserves LinkInv.
LEMMA RequestLinkInv ==
  ASSUME LinkInv, NEW e \in End, NEW t \in Entity, EndInv(e, t, sap0[e]), Request(e, t)
  PROVE  LinkInv'
<1>1. /\ ent' \in [End -> Entity]
      /\ \A x \in End : EndInv(x, ent'[x], sap0'[x])
  BY OneEnd DEF Request
<1>2. requests' \in [End -> Nat]
  BY DEF Request, LinkInv, TypeOK
<1> QED  BY <1>1, <1>2 DEF Request, LinkInv, TypeOK

\* Each request of layer 3 preserves LinkInv.
LEMMA RequestsLinkInv ==
  ASSUME LinkInv, NEW e \in End,
         Establish(e) \/ Release(e) \/ ForceRelease(e) \/ HardRelease(e)
  PROVE  LinkInv'
<1> DEFINE s == ent[e]
<1>1. s \in Entity /\ EndInv(e, s, sap0[e])
  BY DEF LinkInv, TypeOK
<1>2. CASE Establish(e)
  <2>1. s.l1 # "fresh"
    BY <1>1, <1>2 DEF EndInv, Fresh, Establish, MayEstablish
  <2>2. EndInv(e, [s EXCEPT !.thread = "establish"], sap0[e])
    BY <1>1, <2>1 DEF EndInv, Entity, inMultiframe
  <2>3. EndInv(e, establishRequest(s), sap0[e]) /\ establishRequest(s) \in Entity
    BY <1>1, <2>2, requestTypes DEF establishRequest
  <2> QED  BY <1>2, <2>3, RequestLinkInv DEF Establish
<1>3. CASE Release(e)
  <2>1. s.state # "LinkReleased" => EndInv(e, [s EXCEPT !.thread = "release"], sap0[e])
    BY <1>1 DEF EndInv, Fresh, Entity, inMultiframe
  <2>2. EndInv(e, releaseRequest(s), sap0[e]) /\ releaseRequest(s) \in Entity
    BY <1>1, <2>1, requestTypes DEF releaseRequest
  <2> QED  BY <1>3, <2>2, RequestLinkInv DEF Release
<1>4. CASE ForceRelease(e)
  <2>1. EndInv(e, abnormalRelease(s), sap0[e]) /\ abnormalRelease(s) \in Entity
    BY <1>1, releasesEndInv, abnormalReleaseType
  <2> QED  BY <1>4, <2>1, RequestLinkInv DEF ForceRelease
<1>5. CASE HardRelease(e)
  <2>1. EndInv(e, hardRelease(s), sap0[e]) /\ hardRelease(s) \in Entity
    BY <1>1, releasesEndInv, requestTypes
  <2> QED  BY <1>5, <2>1, RequestLinkInv DEF HardRelease
<1> QED  BY <1>2, <1>3, <1>4, <1>5

\* Handing over a message preserves LinkInv.
LEMMA DataLinkInv ==
  ASSUME LinkInv, NEW e \in End, Data(e)
  PROVE  LinkInv'
<1> DEFINE msg == Message[e][sent[e] + 1]
           t == sendMultiframeData(ent[e], msg)
<1>1. ent[e] \in Entity /\ EndInv(e, ent[e], sap0[e]) /\ sent[e] \in Nat
  BY DEF LinkInv, TypeOK
<1>2. msg \in Seq(Segment) /\ msg # <<>>
  <2>1. Message[e] \in Seq(Seq(Segment) \ {<<>>})
    BY LinkAssumption
  <2>2. sent[e] + 1 \in 1 .. Len(Message[e])
    BY <1>1, <2>1, LenProperties DEF Data
  <2>3. msg \in Seq(Segment) \ {<<>>}
    BY <2>1, <2>2, ElementOfSeq
  <2> QED  BY <2>3
<1>3. ent' = [ent EXCEPT ![e] = t] /\ sap0' = sap0
  BY DEF Data
<1> HIDE DEF msg
<1>4. t \in Entity /\ EndInv(e, t, sap0[e])
  BY <1>1, <1>2, sendMultiframeDataType, sendMultiframeDataEndInv
<1> HIDE DEF t
<1>5. /\ ent' \in [End -> Entity]
      /\ \A x \in End : EndInv(x, ent'[x], sap0'[x])
  BY <1>3, <1>4, OneEnd
<1>6. sent' \in [End -> Nat]
  BY DEF Data, LinkInv, TypeOK
<1> QED  BY <1>5, <1>6 DEF Data, LinkInv, TypeOK

\* The steps of the blocked layer 3 thread preserve LinkInv.
LEMMA ThreadStepLinkInv ==
  ASSUME LinkInv, NEW e \in End, ThreadStep(e)
  PROVE  LinkInv'
<1> DEFINE s == ent[e]
<1>1. s \in Entity /\ EndInv(e, s, sap0[e])
  BY DEF LinkInv, TypeOK
<1>2. ASSUME NEW t \in Entity, EndInv(e, t, sap0[e]), NEW thread, Continue(e, thread, t)
      PROVE  LinkInv'
  <2>1. /\ ent' \in [End -> Entity]
        /\ \A x \in End : EndInv(x, ent'[x], sap0'[x])
    BY <1>2, OneEnd DEF Continue
  <2> QED  BY <1>2, <2>1 DEF Continue, LinkInv, TypeOK
<1>3. CASE SendSegment(e)
  <2>1. s.thread = "data" /\ s.todo # <<>>
    BY <1>1, <1>3 DEF SendSegment, Continue, EndInv
  <2>2. sendSegment(s) \in Entity /\ EndInv(e, sendSegment(s), sap0[e])
    BY <1>1, <2>1, sendSegmentType, sendSegmentEndInv
  <2> QED  BY <1>2, <1>3, <2>2 DEF SendSegment
<1>4. CASE Released(e)
  <2>1. [s EXCEPT !.thread = "idle"] \in Entity
    BY <1>1 DEF Entity, Thread
  <2> QED  BY <1>1, <1>2, <1>4, <2>1, idleEndInv DEF Released
<1>5. CASE AwaitEstablish(e) \/ WriteSABM(e) \/ StartSABMTimer(e) \/ SendDISC(e)
  <2>1. s.thread \notin {"idle", "data", "disc"}
    BY <1>5 DEF AwaitEstablish, WriteSABM, StartSABMTimer, SendDISC, Continue
  <2>2. \A t \in {awaitEstablish(s), writeSABM(s), startSABMTimer(s), sendDISC(s)} :
          t \in Entity /\ EndInv(e, t, sap0[e])
    BY <1>1, <2>1, establishTypes, sendDISCType, threadEndInv
  <2>3. \E t \in {awaitEstablish(s), writeSABM(s), startSABMTimer(s), sendDISC(s)},
           thread \in Thread : Continue(e, thread, t)
    BY <1>5 DEF AwaitEstablish, WriteSABM, StartSABMTimer, SendDISC, Thread
  <2> QED  BY <1>2, <2>2, <2>3
<1> QED  BY <1>3, <1>4, <1>5 DEF ThreadStep

\* The release of SAP0 preserves LinkInv of another SAP.
LEMMA MasterLinkInv ==
  ASSUME LinkInv, NEW e \in End, MasterReleases(e)
  PROVE  LinkInv'
<1> DEFINE t == [ent[e] EXCEPT !.l1 = "closed"]
<1>1. ent[e] \in Entity /\ EndInv(e, ent[e], sap0[e])
  BY DEF LinkInv, TypeOK
<1>2. t \in Entity /\ EndInv(e, t, FALSE)
  BY <1>1 DEF Entity, EndInv, inMultiframe
<1> HIDE DEF t
<1>3. ent' = [ent EXCEPT ![e] = t] /\ sap0' = [sap0 EXCEPT ![e] = FALSE]
  BY DEF MasterReleases, t
<1>4. ent' \in [End -> Entity] /\ sap0' \in [End -> BOOLEAN]
  BY <1>2, <1>3 DEF LinkInv, TypeOK
<1>5. \A x \in End : EndInv(x, ent'[x], sap0'[x])
  BY <1>2, <1>3 DEF LinkInv, TypeOK
<1> QED  BY <1>4, <1>5 DEF MasterReleases, LinkInv, TypeOK

\* Reopening the channel for another phone preserves LinkInv.
LEMMA ReopenLinkInv ==
  ASSUME LinkInv, Reopen
  PROVE  LinkInv'
<1> DEFINE was(e) == IF e = "BTS" THEN ent[e] ELSE NewEntity
<1>1. NewEntity \in Entity /\ NewEntity.thread = "idle"
  BY NewEntityType DEF NewEntity
<1>2. \A e \in End : /\ was(e) \in Entity /\ was(e).thread \in {"idle", "data", "disc"}
                     /\ was(e).thread = "data" => was(e).todo # <<>>
  BY <1>1 DEF LinkInv, TypeOK, Reopen, EndInv
<1> HIDE DEF was
<1>3. ASSUME NEW e \in End
      PROVE  Opened(e, was(e)) \in Entity /\ EndInv(e, Opened(e, was(e)), sap0[e])
  <2>1. /\ was(e) \in Entity /\ was(e).thread \in {"idle", "data", "disc"}
        /\ was(e).thread = "data" => was(e).todo # <<>>
    BY <1>2
  <2> QED  BY <2>1, OpenedType, OpenedEndInv
<1>4. ent' = [e \in End |-> Opened(e, was(e))] /\ sap0' = sap0
  BY DEF Reopen, was
<1>5. ent' \in [End -> Entity] /\ \A e \in End : EndInv(e, ent'[e], sap0'[e])
  BY <1>3, <1>4
<1>6. session' \in Nat /\ base' \in [End -> Nat]
  BY DEF Reopen, LinkInv, TypeOK
<1> QED  BY <1>5, <1>6 DEF Reopen, LinkInv, TypeOK

\* LinkInv is inductive.
LEMMA NextLinkInv == LinkInv /\ [Next]_vars => LinkInv'
<1> SUFFICES ASSUME LinkInv, [Next]_vars PROVE LinkInv'
  OBVIOUS
<1>1. ASSUME NEW e \in End, ServiceLoop(e) \/ Lose(e) PROVE LinkInv'
  BY <1>1, ReceiveLinkInv, TimerLinkInv DEF ServiceLoop
<1>2. ASSUME NEW e \in End, Layer3(e) PROVE LinkInv'
  BY <1>2, RequestsLinkInv, DataLinkInv, ThreadStepLinkInv DEF Layer3
<1>3. ASSUME NEW e \in End, MasterReleases(e) PROVE LinkInv'
  BY <1>3, MasterLinkInv
<1>4. CASE ReceiveRepeated
  BY <1>4, ReceiveLinkInv DEF End
<1>5. CASE Reopen
  BY <1>5, ReopenLinkInv
<1>6. CASE UNCHANGED vars
  BY <1>6 DEF vars, LinkInv, TypeOK
<1> QED  BY <1>1, <1>2, <1>3, <1>4, <1>5, <1>6 DEF Next

\* LinkInv holds of every reachable state, whatever the SAP, the retransmission limit, the
\* modulus, the traffic of layer 3 and the losses on the air.
THEOREM LinkInvariant == Spec => []LinkInv
<1> QED  BY InitLinkInv, NextLinkInv, PTL DEF Spec

\* Every variable keeps its type: in particular no frame is built or buffered that the
\* entity could not have been given, and no frame number leaves its range.
THEOREM TypeCorrect == Spec => []TypeOK
<1>1. LinkInv => TypeOK
  BY DEF LinkInv
<1> QED  BY LinkInvariant, <1>1, PTL

\* Layer 3 always knows the state of its link, at both ends, in SAP0 and beside it.
THEOREM Layer3AlwaysKnows == Spec => []Layer3Knows
<1>1. LinkInv => Layer3Knows
  BY DEF LinkInv, EndInv, Layer3Knows
<1> QED  BY LinkInvariant, <1>1, PTL

\* A phone that starts on a reopened channel never meets the state of the last one.
THEOREM FreshAlwaysReleased == Spec => []FreshMeansReleased
<1>1. LinkInv => FreshMeansReleased
  BY DEF LinkInv, EndInv, Fresh, FreshMeansReleased
<1> QED  BY LinkInvariant, <1>1, PTL

----------------------------------------------------------------------------
(* The invariant: phases of a link, and what is in flight in each *)

Lacks(q, T) == \A i \in 1 .. Len(q) : q[i].type \notin T

\* An end that has not had a link in this session; a phone that asks for one; a link.
New(s) == s.state = "LinkReleased" /\ s.l1 # "closed"
Calling(s) == s.state = "AwaitingEstablish" /\ s.l1 = "open"
Up(s) == inMultiframe(s)

\* The phone: what its thread and its timer go with.
PhoneInv(s) ==
  /\ s \in Entity
  /\ s.l1 # "fresh" /\ s.state # "ContentionResolution"
  /\ s.state = "LinkEstablished" =>
       s.l1 = "open" /\ s.thread \notin {"establish", "sabm", "sabmT200"}
  /\ s.thread = "establish" => s.state = "LinkReleased"
  /\ s.thread \in {"sabm", "sabmT200", "release"} => ~New(s)
  /\ s.state = "AwaitingRelease" => s.thread = "disc"
  /\ s.thread = "sabmT200" => s.sentFrame.type = "SABM"
  /\ s.state = "AwaitingEstablish" =>
       /\ s.VR = 0
       /\ s.T200 => s.sentFrame.type = "SABM" /\ s.thread # "sabm"
  /\ s.state = "LinkEstablished" /\ s.T200 => s.sentFrame.type = "I"

\* The base station, which never calls: its window and its timer.
StationOK(s) ==
  /\ s \in Entity
  /\ s.l1 = "fresh" => s.state = "LinkReleased"
  /\ s.state # "AwaitingEstablish" /\ s.thread \notin {"establish", "sabm", "sabmT200"}
  /\ s.sentFrame.type # "SABM"
  /\ Up(s) =>
       /\ s.l1 = "open"
       /\ s.VS = s.VA \/ s.VS = Next8(s.VA)
       /\ s.T200 <=> s.VS # s.VA
       /\ s.VS # s.VA => s.sentFrame.type = "I" /\ s.sentFrame.ns = s.VA

StationInv(s) == StationOK(s) /\ (Up(s) => ~s.asleep)

\* What is in flight before there is a link.
Beginning(b, m) ==
  /\ Lacks(b.tx, {"SABM"})
  /\ New(b) => Lacks(m.tx, Ack) /\ Lacks(b.tx, {"UA", "I"}) /\ ~Up(m)
  /\ New(m) => ~Up(b) /\ Lacks(m.tx, Ack \cup {"SABM", "DISC"}) /\ Lacks(b.tx, {"UA", "I"})
  /\ Calling(m) => Lacks(m.tx, Ack) /\ (Up(b) => b.estInProgress /\ b.VA = 0)

\* The acknowledgements on their way to the station are of its window, in their order.
Uplink(b, m) ==
  Up(b) =>
    /\ \A i \in 1 .. Len(m.tx) : m.tx[i].type \in Ack => m.tx[i].nr \in {b.VA, b.VS}
    /\ \A i, j \in 1 .. Len(m.tx) :
         i < j /\ m.tx[i].type \in Ack /\ m.tx[j].type \in Ack /\ m.tx[i].nr = b.VS
         => m.tx[j].nr = b.VS

\* A SABM that will be followed by acknowledgements has none before it, and finds the
\* station still establishing: it does not reset the window.
Calls(b, m) ==
  Up(b) =>
    \A i \in 1 .. Len(m.tx) :
      /\ m.tx[i].type = "SABM"
      /\ Up(m) \/ \E j \in 1 .. Len(m.tx) : i < j /\ m.tx[j].type \in Ack
      => b.estInProgress /\ \A k \in 1 .. Len(m.tx) : k < i => m.tx[k].type \notin Ack

\* The phone has received the last I-frame of the station, or all but that; what is in
\* flight of older ones comes first.
Downlink(b, m) ==
  Up(b) /\ (Calling(m) \/ Up(m)) =>
    /\ m.VR \in {b.VA, b.VS}
    /\ \A i \in 1 .. Len(m.tx) : m.tx[i].type \in Ack /\ m.tx[i].nr = b.VS => m.VR = b.VS
    /\ \A n \in 1 .. Len(b.tx) :
         b.tx[n].type = "I" =>
           \/ Next8(b.tx[n].ns) = m.VR
           \/ b.tx[n].ns = m.VR /\ b.VA = m.VR /\ b.VS = Next8(m.VR)
    /\ \A n, k \in 1 .. Len(b.tx) :
         n < k /\ b.tx[n].type = "I" /\ b.tx[k].type = "I" /\ b.tx[n].ns = m.VR
         => b.tx[k].ns = m.VR

WindowLink(b, m) ==
  /\ PhoneInv(m) /\ StationInv(b)
  /\ Beginning(b, m) /\ Uplink(b, m) /\ Calls(b, m) /\ Downlink(b, m)

WindowInv ==
  /\ WindowLink(ent["BTS"], ent["MS"])
  /\ \A e \in End : sap0[e]

----------------------------------------------------------------------------
(* What a step may do to the phone, and that it keeps the link *)

\* A step of the phone that receives nothing, or nothing that counts.
PhoneStep(s, t) ==
  \/ /\ ~Up(s) /\ ~Up(t)
     /\ New(t) => New(s)
     /\ Calling(t) => New(s) \/ Calling(s)
     /\ Grows(s.tx, t.tx, {f \in Frame : f.type \notin Ack /\ (New(s) => f \in Quiet)})
  \/ /\ Up(s) /\ ~Up(t) /\ ~New(t) /\ ~Calling(t)
     /\ Grows(s.tx, t.tx, {f \in Frame : f.type \notin Ack \cup {"SABM"}})
  \/ /\ Up(s) /\ Up(t) /\ t.VR = s.VR
     /\ Grows(s.tx, t.tx, Replies(t.VR))

\* The phone reads frame f.
PhoneHears(s, t, f) ==
  \/ PhoneStep(s, t)
  \/ Calling(s) /\ Up(t) /\ f.type = "UA" /\ t.VR = 0 /\ t.tx = s.tx
  \/ /\ Up(s) /\ Up(t) /\ f.type = "I" /\ f.ns = s.VR /\ t.VR = Next8(s.VR)
     /\ Grows(s.tx, t.tx, Replies(t.VR))

\* A number and its successor differ.
LEMMA NextDiffers == ASSUME NEW n \in SeqNo PROVE Next8(n) # n
<1>1. n \in 0 .. SeqMod - 1 /\ SeqMod \in Nat /\ SeqMod > 1
  BY EntityAssumption DEF SeqNo
<1>2. CASE n = SeqMod - 1
  <2>1. (n + 1) % SeqMod = 0
    BY <1>1, <1>2
  <2> QED  BY <1>1, <1>2, <2>1 DEF Next8
<1>3. CASE n < SeqMod - 1
  <2>1. (n + 1) % SeqMod = n + 1
    BY <1>1, <1>3
  <2> QED  BY <1>1, <2>1 DEF Next8
<1> QED  BY <1>1, <1>2, <1>3

\* The phases exclude one another.
LEMMA Phases ==
  ASSUME NEW s
  PROVE  (New(s) => ~Up(s) /\ ~Calling(s)) /\ (Up(s) => ~Calling(s))
  BY DEF New, Up, Calling, inMultiframe

\* What the link says of the types of its ends.
LEMMA LinkTypes ==
  ASSUME NEW b, NEW m, WindowLink(b, m)
  PROVE  /\ b \in Entity /\ m \in Entity
         /\ b.tx \in Seq(Frame) /\ m.tx \in Seq(Frame)
         /\ Len(b.tx) \in Nat /\ Len(m.tx) \in Nat
         /\ b.VA \in SeqNo /\ b.VS \in SeqNo /\ m.VR \in SeqNo
<1>1. b \in Entity /\ m \in Entity
  BY DEF WindowLink, PhoneInv, StationInv, StationOK
<1> QED  BY <1>1 DEF Entity

\* A step of the phone keeps what is in flight in order.
LEMMA PhoneStepKeeps ==
  ASSUME NEW b, NEW m, NEW n, WindowLink(b, m), PhoneInv(n), PhoneStep(m, n)
  PROVE  WindowLink(b, n)
<1> DEFINE q == m.tx
           r == n.tx
<1>1. Len(q) \in Nat /\ Len(r) \in Nat /\ m.VR \in SeqNo /\ n.VR \in SeqNo
  BY DEF WindowLink, PhoneInv, Entity
<1>2. CASE ~Up(m) /\ ~Up(n)
  <2> DEFINE A == {f \in Frame : f.type \notin Ack /\ (New(m) => f \in Quiet)}
  <2>1. /\ New(n) => New(m)
        /\ Calling(n) => New(m) \/ Calling(m)
        /\ Grows(q, r, A)
    BY <1>2 DEF PhoneStep
  <2>2. /\ \A i \in 1 .. Len(r) : r[i].type \in Ack => i \in 1 .. Len(q) /\ r[i] = q[i]
        /\ \A i \in 1 .. Len(q) : i \in 1 .. Len(r) /\ r[i] = q[i]
        /\ \A i \in 1 .. Len(r) : New(m) /\ r[i].type \in {"SABM", "DISC"} =>
             i \in 1 .. Len(q) /\ r[i] = q[i]
    BY <1>1, <2>1 DEF Grows, Quiet
  <2> HIDE DEF q, r
  <2>3. Beginning(b, n)
    BY <1>2, <2>1, <2>2 DEF WindowLink, Beginning, Lacks, q, r
  <2>4. Uplink(b, n)
    BY <2>2 DEF WindowLink, Uplink, q, r
  <2>5. Calls(b, n)
    <3> SUFFICES ASSUME Up(b), NEW i \in 1 .. Len(r), r[i].type = "SABM",
                        NEW j \in 1 .. Len(r), i < j, r[j].type \in Ack
                 PROVE  b.estInProgress /\ \A k \in 1 .. Len(r) : k < i => r[k].type \notin Ack
      BY <1>2 DEF Calls, r
    <3>1. j \in 1 .. Len(q) /\ q[j].type \in Ack
      BY <2>2
    <3>2. i \in 1 .. Len(q) /\ q[i].type = "SABM"
      <4>1. i \in 1 .. Len(q)
        BY <1>1, <3>1
      <4> QED  BY <2>2, <4>1
    <3>3. b.estInProgress /\ \A k \in 1 .. Len(q) : k < i => q[k].type \notin Ack
      BY <3>1, <3>2 DEF WindowLink, Calls, q
    <3>4. \A k \in 1 .. Len(r) : k < i => k \in 1 .. Len(q) /\ r[k] = q[k]
      BY <1>1, <2>2, <3>2
    <3> QED  BY <3>3, <3>4
  <2>6. Downlink(b, n)
    BY <1>2, <2>1, <2>2 DEF WindowLink, Downlink, Beginning, PhoneInv, Calling, q, r
  <2> QED  BY <2>3, <2>4, <2>5, <2>6 DEF WindowLink
<1>3. CASE Up(m) /\ ~Up(n)
  <2>1. ~New(n) /\ ~Calling(n) /\ Grows(q, r, {f \in Frame : f.type \notin Ack \cup {"SABM"}})
    BY <1>3 DEF PhoneStep
  <2>2. \A i \in 1 .. Len(r) : r[i].type \in Ack \cup {"SABM"} => i \in 1 .. Len(q) /\ r[i] = q[i]
    BY <1>1, <2>1 DEF Grows, Quiet
  <2>3. \A i \in 1 .. Len(q) : i \in 1 .. Len(r) /\ r[i] = q[i]
    BY <1>1, <2>1 DEF Grows
  <2> HIDE DEF q, r
  <2>4. Beginning(b, n)
    BY <1>3, <2>1, <2>2 DEF WindowLink, Beginning, Lacks, q, r
  <2>5. Uplink(b, n)
    BY <2>2 DEF WindowLink, Uplink, q, r
  <2>6. Calls(b, n)
    BY <1>3, <2>2, <2>3 DEF WindowLink, Calls, q, r
  <2>7. Downlink(b, n)
    BY <1>3, <2>1 DEF WindowLink, Downlink
  <2> QED  BY <2>4, <2>5, <2>6, <2>7 DEF WindowLink
<1>4. CASE Up(m) /\ Up(n)
  <2>1. n.VR = m.VR /\ Grows(q, r, Replies(m.VR))
    BY <1>4 DEF PhoneStep
  <2>2. /\ \A i \in 1 .. Len(q) : i \in 1 .. Len(r) /\ r[i] = q[i]
        /\ \A i \in 1 .. Len(r) : r[i].type = "SABM" => i \in 1 .. Len(q)
        /\ \A i \in 1 .. Len(r) : r[i].type \in Ack => i \in 1 .. Len(q) \/ r[i].nr = m.VR
        /\ \A i, j \in 1 .. Len(r) : i < j /\ j \in 1 .. Len(q) => i \in 1 .. Len(q)
    BY <1>1, <2>1 DEF Grows, Replies
  <2> HIDE DEF q, r
  <2>3. ~New(n) /\ ~Calling(n)
    BY <1>4, Phases
  <2>4. Beginning(b, n)
    BY <1>4, <2>3 DEF WindowLink, Beginning
  <2>5. Uplink(b, n)
    BY <1>4, <2>1, <2>2 DEF WindowLink, Uplink, Downlink, q, r
  <2>6. Calls(b, n)
    BY <1>4, <2>2 DEF WindowLink, Calls, q, r
  <2>7. Downlink(b, n)
    BY <1>4, <2>1, <2>2 DEF WindowLink, Downlink, q, r
  <2> QED  BY <2>4, <2>5, <2>6, <2>7 DEF WindowLink
<1> QED  BY <1>2, <1>3, <1>4 DEF PhoneStep

\* A frame that the phone reads at the head of the downlink keeps what is in flight in order,
\* whether it stays there (the transceiver repeats it) or not.
LEMMA PhoneHearsKeeps ==
  ASSUME NEW b, NEW m, NEW n, WindowLink(b, m), PhoneInv(n),
         Len(b.tx) >= 1, PhoneHears(m, n, b.tx[1])
  PROVE  WindowLink(b, n)
<1> DEFINE q == m.tx
           r == n.tx
<1>1. Len(q) \in Nat /\ Len(r) \in Nat /\ m.VR \in SeqNo /\ n.VR \in SeqNo /\ Len(b.tx) \in Nat
  <2>1. n \in Entity
    BY DEF PhoneInv
  <2> QED  BY <2>1, LinkTypes DEF Entity
<1>2. CASE PhoneStep(m, n)
  BY <1>2, PhoneStepKeeps
<1>3. CASE Calling(m) /\ Up(n) /\ b.tx[1].type = "UA" /\ n.VR = 0 /\ n.tx = m.tx
  <2>1. ~New(n) /\ ~Calling(n) /\ m.VR = 0 /\ ~New(m)
    BY <1>3, Phases DEF WindowLink, PhoneInv, Calling, New
  <2>2. ~New(b)
    BY <1>1, <1>3 DEF WindowLink, Beginning, Lacks
  <2>3. Beginning(b, n)
    BY <1>3, <2>1, <2>2 DEF WindowLink, Beginning, Lacks
  <2>4. Uplink(b, n)
    BY <1>3 DEF WindowLink, Uplink
  <2>5. Calls(b, n)
    BY <1>3 DEF WindowLink, Calls, Beginning, Lacks
  <2>6. Downlink(b, n)
    BY <1>3, <2>1 DEF WindowLink, Downlink
  <2> QED  BY <2>3, <2>4, <2>5, <2>6 DEF WindowLink
<1>4. CASE /\ Up(m) /\ Up(n) /\ b.tx[1].type = "I" /\ b.tx[1].ns = m.VR /\ n.VR = Next8(m.VR)
           /\ Grows(m.tx, n.tx, Replies(n.VR))
  <2>1. ~New(n) /\ ~Calling(n)
    BY <1>4, Phases
  <2>2. /\ \A i \in 1 .. Len(q) : i \in 1 .. Len(r) /\ r[i] = q[i]
        /\ \A i \in 1 .. Len(r) : r[i].type = "SABM" => i \in 1 .. Len(q)
        /\ \A i \in 1 .. Len(r) : r[i].type \in Ack => i \in 1 .. Len(q) \/ r[i].nr = n.VR
        /\ \A i, j \in 1 .. Len(r) : i < j /\ j \in 1 .. Len(q) => i \in 1 .. Len(q)
    BY <1>1, <1>4 DEF Grows, Replies
  <2>3. Next8(m.VR) # m.VR
    BY <1>1, NextDiffers
  <2>4. Up(b) => b.VA = m.VR /\ b.VS = n.VR /\ b.VS # m.VR
    BY <1>1, <1>4, <2>3 DEF WindowLink, Downlink
  <2> HIDE DEF q, r
  <2>5. Beginning(b, n)
    <3>1. ~New(b)
      BY <1>4 DEF WindowLink, Beginning
    <3> QED  BY <2>1, <3>1 DEF WindowLink, Beginning
  <2>6. Up(b) => \A i \in 1 .. Len(q) : q[i].type \in Ack => q[i].nr # b.VS
    BY <1>4, <2>4 DEF WindowLink, Downlink, q
  <2>7. Uplink(b, n)
    BY <1>4, <2>2, <2>4, <2>6 DEF WindowLink, Uplink, q, r
  <2>8. Calls(b, n)
    BY <1>4, <2>2 DEF WindowLink, Calls, q, r
  <2>9. ASSUME Up(b), NEW k \in 1 .. Len(b.tx), b.tx[k].type = "I"
        PROVE  b.tx[k].ns = m.VR
    BY <1>1, <1>4, <2>9 DEF WindowLink, Downlink
  <2>10. Downlink(b, n)
    BY <1>4, <2>2, <2>3, <2>4, <2>9 DEF WindowLink, Downlink, q, r
  <2> QED  BY <2>5, <2>7, <2>8, <2>10 DEF WindowLink
<1> QED  BY <1>2, <1>3, <1>4 DEF PhoneHears

----------------------------------------------------------------------------
(* What a step may do to the station, and that it keeps the link *)

\* Frames that neither call, nor carry data, nor answer a call.
Silent == {f \in Frame : f.type \notin {"SABM", "UA", "I"}}

\* Frames that neither call nor carry data.
Dataless == {f \in Frame : f.type \notin {"SABM", "I"}}

\* A step of the station that receives nothing, or nothing that counts.
StationStep(s, t) ==
  \/ /\ ~Up(s) /\ ~Up(t)
     /\ New(t) => New(s)
     /\ Grows(s.tx, t.tx, Silent)
  \/ /\ Up(s) /\ ~Up(t) /\ ~New(t)
     /\ Grows(s.tx, t.tx, {f \in Frame : f.type # "SABM"})
  \/ /\ Up(s) /\ Up(t) /\ t.VA = s.VA /\ (t.estInProgress <=> s.estInProgress)
     /\ t.VS = s.VS \/ (s.VS = s.VA /\ t.VS = Next8(s.VA))
     /\ Grows(s.tx, t.tx,
              {f \in Frame : f.type # "SABM" /\ (f.type = "I" => f.ns = t.VA /\ t.VS = Next8(t.VA))})

\* The station reads frame f: an acknowledgement, or a call that starts a link or resets one.
StationHears(s, t, f) ==
  \/ StationStep(s, t)
  \/ /\ ~New(s) /\ ~Up(s) /\ ~New(t) /\ ~Up(t) /\ f.type = "DISC"
     /\ Grows(s.tx, t.tx, Dataless)
  \/ /\ Up(s) /\ Up(t) /\ f.type \in Ack /\ t.VS = s.VS /\ t.VA = f.nr /\ ~t.estInProgress
     /\ Grows(s.tx, t.tx, Dataless)
  \/ /\ New(s) /\ Up(t) /\ f.type = "SABM" /\ t.VS = 0 /\ t.VA = 0 /\ t.estInProgress
     /\ Grows(s.tx, t.tx, Dataless)
  \/ /\ Up(s) /\ Up(t) /\ f.type = "SABM" /\ t.VS = 0 /\ t.VA = 0 /\ ~s.estInProgress
     /\ Grows(s.tx, t.tx, Dataless)

\* A step of the station keeps what is in flight in order.
LEMMA StationStepKeeps ==
  ASSUME NEW b, NEW c, NEW m, WindowLink(b, m), StationInv(c), StationStep(b, c)
  PROVE  WindowLink(c, m)
<1> DEFINE q == b.tx
           r == c.tx
<1>1. Len(q) \in Nat /\ Len(r) \in Nat /\ m.VR \in SeqNo /\ Len(m.tx) \in Nat /\ b.VA \in SeqNo
  BY DEF WindowLink, PhoneInv, StationInv, StationOK, Entity
<1>2. /\ \A i \in 1 .. Len(q) : i \in 1 .. Len(r) /\ r[i] = q[i]
      /\ \A i \in 1 .. Len(r) : r[i].type = "SABM" => i \in 1 .. Len(q) /\ r[i] = q[i]
  <2> DEFINE A == {f \in Frame : f.type # "SABM"}
  <2>1. Silent \subseteq A
    BY DEF Silent
  <2>2. Grows(q, r, A)
    <3>1. CASE ~Up(b) /\ ~Up(c)
      BY <2>1, <3>1, GrowsMore DEF StationStep
    <3>2. CASE Up(b) /\ ~Up(c)
      BY <3>2 DEF StationStep
    <3>3. CASE Up(b) /\ Up(c)
      <4> DEFINE B == {f \in Frame : f.type # "SABM" /\ (f.type = "I" => f.ns = c.VA /\ c.VS = Next8(c.VA))}
      <4>1. B \subseteq A
        OBVIOUS
      <4>2. Grows(q, r, B)
        BY <3>3 DEF StationStep
      <4> HIDE DEF A, B
      <4> QED  BY <4>1, <4>2, GrowsMore
    <3> QED  BY <3>1, <3>2, <3>3 DEF StationStep
  <2> QED  BY <1>1, <2>2 DEF Grows
<1>3. Lacks(c.tx, {"SABM"})
  BY <1>2 DEF WindowLink, Beginning, Lacks
<1>4. CASE ~Up(b) /\ ~Up(c)
  <2>1. New(c) => New(b)
    BY <1>4 DEF StationStep
  <2>2. \A i \in 1 .. Len(r) : r[i].type \in {"UA", "I"} => i \in 1 .. Len(q) /\ r[i] = q[i]
    BY <1>1, <1>4 DEF StationStep, Grows, Silent
  <2>3. Beginning(c, m)
    <3>1. Lacks(b.tx, {"UA", "I"}) => Lacks(c.tx, {"UA", "I"})
      BY <2>2 DEF Lacks
    <3> QED  BY <1>3, <1>4, <2>1, <3>1 DEF WindowLink, Beginning
  <2> QED  BY <1>4, <2>3 DEF WindowLink, Uplink, Calls, Downlink
<1>5. CASE Up(b) /\ ~Up(c)
  <2>1. ~New(c) /\ ~New(m)
    BY <1>5 DEF StationStep, WindowLink, Beginning
  <2>2. Beginning(c, m)
    BY <1>3, <1>5, <2>1 DEF WindowLink, Beginning
  <2> QED  BY <1>5, <2>2 DEF WindowLink, Uplink, Calls, Downlink
<1>6. CASE Up(b) /\ Up(c)
  <2>1. /\ c.VA = b.VA /\ (c.estInProgress <=> b.estInProgress)
        /\ c.VS = b.VS \/ (b.VS = b.VA /\ c.VS = Next8(b.VA))
    BY <1>6 DEF StationStep
  <2>2. \A i \in 1 .. Len(r) :
          /\ r[i].type = "I"
          => (i \in 1 .. Len(q) /\ r[i] = q[i]) \/ (r[i].ns = c.VA /\ c.VS = Next8(c.VA) /\ i > Len(q))
    BY <1>1, <1>6 DEF StationStep, Grows
  <2>3. ~New(c) /\ ~New(m) /\ Next8(b.VA) # b.VA
    BY <1>1, <1>6, Phases, NextDiffers DEF WindowLink, Beginning
  <2>4. c.VS # b.VS => \A i \in 1 .. Len(m.tx) : m.tx[i].type \in Ack => m.tx[i].nr = c.VA /\ m.tx[i].nr # c.VS
    BY <1>6, <2>1, <2>3 DEF WindowLink, Uplink
  <2>5. Beginning(c, m)
    BY <1>3, <1>6, <2>1, <2>3 DEF WindowLink, Beginning
  <2>6. Uplink(c, m)
    BY <1>6, <2>1, <2>4 DEF WindowLink, Uplink
  <2>7. Calls(c, m)
    BY <1>6, <2>1 DEF WindowLink, Calls
  <2>8. ASSUME Calling(m) \/ Up(m) PROVE Downlink(c, m)
    <3>1. m.VR \in {c.VA, c.VS}
      BY <1>6, <2>1, <2>8 DEF WindowLink, Downlink
    <3>2. \A i \in 1 .. Len(m.tx) : m.tx[i].type \in Ack /\ m.tx[i].nr = c.VS => m.VR = c.VS
      BY <1>6, <2>1, <2>4, <2>8 DEF WindowLink, Downlink
    <3>3. /\ \A i \in 1 .. Len(q) : q[i].type = "I" =>
               Next8(q[i].ns) = m.VR \/ (q[i].ns = m.VR /\ c.VA = m.VR /\ c.VS = Next8(m.VR) /\ c.VS = b.VS)
      <4>1. Next8(m.VR) # m.VR
        BY <1>1, NextDiffers
      <4> QED  BY <1>6, <2>1, <2>3, <2>8, <4>1 DEF WindowLink, Downlink
    <3>4. \A i \in 1 .. Len(r) : r[i].type = "I" =>
               Next8(r[i].ns) = m.VR \/ (r[i].ns = m.VR /\ c.VA = m.VR /\ c.VS = Next8(m.VR))
      <4>1. c.VS = Next8(c.VA) => m.VR = Next8(c.VA) \/ m.VR = c.VA
        BY <3>1
      <4> QED  BY <2>2, <3>3, <4>1
    <3>5. \A i, j \in 1 .. Len(r) :
            i < j /\ r[i].type = "I" /\ r[j].type = "I" /\ r[i].ns = m.VR => r[j].ns = m.VR
      <4>1. SUFFICES ASSUME NEW i \in 1 .. Len(r), NEW j \in 1 .. Len(r), i < j,
                            r[i].type = "I", r[j].type = "I", r[i].ns = m.VR
                     PROVE  r[j].ns = m.VR
        OBVIOUS
      <4>2. Next8(m.VR) # m.VR
        BY <1>1, NextDiffers
      <4>3. c.VA = m.VR
        BY <3>4, <4>1, <4>2
      <4>4. CASE j > Len(q)
        BY <1>1, <2>2, <4>1, <4>3, <4>4
      <4>5. CASE j \in 1 .. Len(q)
        <5>1. i \in 1 .. Len(q) /\ r[i] = q[i] /\ r[j] = q[j]
          BY <1>1, <1>2, <4>1, <4>5
        <5> QED  BY <1>6, <2>8, <4>1, <4>5, <5>1 DEF WindowLink, Downlink
      <4> QED  BY <1>1, <4>4, <4>5
    <3> QED  BY <3>1, <3>2, <3>4, <3>5 DEF Downlink
  <2>9. Downlink(c, m)
    BY <2>8 DEF Downlink
  <2> QED  BY <2>5, <2>6, <2>7, <2>9 DEF WindowLink
<1> QED  BY <1>4, <1>5, <1>6 DEF StationStep

\* A frame that the station reads at the head of the uplink keeps what is in flight in order.
LEMMA StationHearsKeeps ==
  ASSUME NEW b, NEW c, NEW m, WindowLink(b, m), StationInv(c),
         Len(m.tx) >= 1, StationHears(b, c, m.tx[1])
  PROVE  WindowLink(c, m)
<1> DEFINE q == b.tx
           r == c.tx
<1>1. /\ Len(q) \in Nat /\ Len(r) \in Nat /\ m.VR \in SeqNo /\ Len(m.tx) \in Nat
      /\ b.VA \in SeqNo /\ b.VS \in SeqNo /\ 0 \in SeqNo
  <2>1. c \in Entity
    BY DEF StationInv, StationOK
  <2>2. Len(c.tx) \in Nat
    BY <2>1 DEF Entity
  <2> QED  BY <2>2, LinkTypes, EmptyTypes
<1>2. CASE StationStep(b, c)
  BY <1>2, StationStepKeeps
<1>3. ASSUME Grows(q, r, Dataless)
      PROVE  /\ \A i \in 1 .. Len(q) : i \in 1 .. Len(r) /\ r[i] = q[i]
             /\ \A i \in 1 .. Len(r) : r[i].type \in {"I", "SABM"} => i \in 1 .. Len(q) /\ r[i] = q[i]
             /\ Lacks(r, {"SABM"})
  BY <1>1, <1>3 DEF Grows, Dataless, WindowLink, Beginning, Lacks
<1>4. CASE /\ ~New(b) /\ ~Up(b) /\ ~New(c) /\ ~Up(c) /\ m.tx[1].type = "DISC"
           /\ Grows(b.tx, c.tx, Dataless)
  <2>1. ~New(m)
    BY <1>1, <1>4 DEF WindowLink, Beginning, Lacks
  <2>2. Beginning(c, m)
    BY <1>3, <1>4, <2>1 DEF WindowLink, Beginning
  <2> QED  BY <1>4, <2>2 DEF WindowLink, Uplink, Calls, Downlink
<1>5. CASE /\ Up(b) /\ Up(c) /\ m.tx[1].type \in Ack /\ c.VS = b.VS /\ c.VA = m.tx[1].nr
           /\ ~c.estInProgress /\ Grows(b.tx, c.tx, Dataless)
  <2>1. ~Calling(m) /\ ~New(m) /\ ~New(c)
    BY <1>1, <1>5, Phases DEF WindowLink, Beginning, Lacks
  <2>2. c.VA \in {b.VA, b.VS}
    BY <1>1, <1>5 DEF WindowLink, Uplink
  <2>3. c.VA = b.VS => \A i \in 1 .. Len(m.tx) : m.tx[i].type \in Ack => m.tx[i].nr = c.VA
    <3>1. 1 \in 1 .. Len(m.tx) /\ \A i \in 1 .. Len(m.tx) : i = 1 \/ 1 < i
      BY <1>1
    <3>2. \A i \in 1 .. Len(m.tx) :
            1 < i /\ m.tx[i].type \in Ack /\ m.tx[1].nr = b.VS => m.tx[i].nr = b.VS
      BY <1>5, <3>1 DEF WindowLink, Uplink
    <3> QED  BY <1>5, <3>1, <3>2
  <2>4. Beginning(c, m)
    BY <1>3, <1>5, <2>1 DEF WindowLink, Beginning
  <2>5. Uplink(c, m)
    BY <1>5, <2>2, <2>3 DEF WindowLink, Uplink
  <2>6. Calls(c, m)
    <3>1. \A i \in 1 .. Len(m.tx) : m.tx[i].type = "SABM" => i > 1
      BY <1>5 DEF Ack
    <3>2. ASSUME NEW i \in 1 .. Len(m.tx), m.tx[i].type = "SABM",
                 Up(m) \/ \E j \in 1 .. Len(m.tx) : i < j /\ m.tx[j].type \in Ack
          PROVE  FALSE
      BY <1>1, <1>5, <3>1, <3>2 DEF WindowLink, Calls
    <3> QED  BY <3>2 DEF Calls
  <2>7. ASSUME Up(m) PROVE Downlink(c, m)
    <3>1. c.VA = b.VS => m.VR = c.VA
      <4>1. 1 \in 1 .. Len(m.tx)
        BY <1>1
      <4>2. m.tx[1].type \in Ack /\ m.tx[1].nr = b.VS => m.VR = b.VS
        BY <1>5, <2>7, <4>1 DEF WindowLink, Downlink
      <4> QED  BY <1>5, <4>2
    <3>2. Next8(m.VR) # m.VR
      BY <1>1, NextDiffers
    <3>3. m.VR \in {c.VA, c.VS}
      BY <1>5, <2>2, <2>7, <3>1 DEF WindowLink, Downlink
    <3>4. \A i \in 1 .. Len(m.tx) : m.tx[i].type \in Ack /\ m.tx[i].nr = c.VS => m.VR = c.VS
      BY <1>5, <2>7 DEF WindowLink, Downlink
    <3>5. \A i \in 1 .. Len(q) : q[i].type = "I" =>
            Next8(q[i].ns) = m.VR \/ (q[i].ns = m.VR /\ c.VA = m.VR /\ c.VS = Next8(m.VR))
      BY <1>5, <2>2, <2>7, <3>1, <3>2 DEF WindowLink, Downlink
    <3>6. \A i, j \in 1 .. Len(q) :
            i < j /\ q[i].type = "I" /\ q[j].type = "I" /\ q[i].ns = m.VR => q[j].ns = m.VR
      BY <1>5, <2>7 DEF WindowLink, Downlink
    <3> HIDE DEF q, r
    <3> QED  BY <1>3, <1>5, <3>3, <3>4, <3>5, <3>6 DEF Downlink, q, r
  <2>8. Downlink(c, m)
    BY <2>1, <2>7 DEF Downlink
  <2> QED  BY <2>4, <2>5, <2>6, <2>8 DEF WindowLink
<1>6. CASE /\ New(b) /\ Up(c) /\ m.tx[1].type = "SABM" /\ c.VS = 0 /\ c.VA = 0
           /\ c.estInProgress /\ Grows(b.tx, c.tx, Dataless)
  <2>1. /\ Lacks(m.tx, Ack) /\ Lacks(b.tx, {"UA", "I"}) /\ ~Up(m) /\ ~New(c)
    BY <1>6, Phases DEF WindowLink, Beginning
  <2>2. ~New(m)
    BY <1>1, <1>6 DEF WindowLink, Beginning, Lacks
  <2>3. \A i \in 1 .. Len(c.tx) : c.tx[i].type # "I"
    BY <1>3, <1>6, <2>1 DEF Lacks
  <2>4. Beginning(c, m)
    BY <1>3, <1>6, <2>1, <2>2 DEF WindowLink, Beginning
  <2>5. Uplink(c, m)
    BY <2>1 DEF Uplink, Lacks
  <2>6. Calls(c, m)
    BY <1>6, <2>1 DEF Calls, Lacks
  <2>7. Downlink(c, m)
    <3>1. Calling(m) => m.VR = 0
      BY DEF WindowLink, PhoneInv, Calling
    <3> QED  BY <1>6, <2>1, <2>3, <3>1 DEF Downlink, Lacks
  <2> QED  BY <2>4, <2>5, <2>6, <2>7 DEF WindowLink
<1>7. CASE /\ Up(b) /\ Up(c) /\ m.tx[1].type = "SABM" /\ c.VS = 0 /\ c.VA = 0
           /\ ~b.estInProgress /\ Grows(b.tx, c.tx, Dataless)
  <2>1. ~Calling(m) /\ ~New(m) /\ ~New(c)
    BY <1>7, Phases DEF WindowLink, Beginning
  <2>2. ~Up(m) /\ \A j \in 1 .. Len(m.tx) : 1 < j => m.tx[j].type \notin Ack
    BY <1>1, <1>7 DEF WindowLink, Calls
  <2>3. \A j \in 1 .. Len(m.tx) : m.tx[j].type \notin Ack
    BY <1>7, <2>2 DEF Ack
  <2>4. Beginning(c, m)
    BY <1>3, <1>7, <2>1 DEF WindowLink, Beginning
  <2>5. Uplink(c, m) /\ Calls(c, m) /\ Downlink(c, m)
    BY <2>1, <2>2, <2>3 DEF Uplink, Calls, Downlink
  <2> QED  BY <2>4, <2>5 DEF WindowLink
<1> QED  BY <1>2, <1>4, <1>5, <1>6, <1>7 DEF StationHears

----------------------------------------------------------------------------
(* Frames that are received or lost *)

\* Without its first frame a path holds the others, in their order.
LEMMA TailOf ==
  ASSUME NEW q \in Seq(Frame), q # <<>>
  PROVE  /\ Tail(q) \in Seq(Frame) /\ Len(q) \in Nat /\ Len(q) >= 1 /\ Len(Tail(q)) = Len(q) - 1
         /\ \A i \in 1 .. Len(Tail(q)) : i + 1 \in 1 .. Len(q) /\ Tail(q)[i] = q[i + 1]
         /\ \A i, j \in 1 .. Len(Tail(q)) : i < j => i + 1 < j + 1
  OBVIOUS

\* The link keeps its order when the phone's next frame is received or lost.
LEMMA UplinkDrops ==
  ASSUME NEW b, NEW m, WindowLink(b, m), m.tx # <<>>
  PROVE  WindowLink(b, [m EXCEPT !.tx = Tail(@)])
<1> DEFINE q == m.tx
           r == Tail(q)
           n == [m EXCEPT !.tx = r]
<1>1. m \in Entity /\ q \in Seq(Frame)
  BY LinkTypes
<1>2. /\ r \in Seq(Frame) /\ Len(r) \in Nat
      /\ \A i \in 1 .. Len(r) : i + 1 \in 1 .. Len(q) /\ r[i] = q[i + 1]
      /\ \A i, j \in 1 .. Len(r) : i < j => i + 1 < j + 1
  BY <1>1, TailOf
<1>3. /\ n \in Entity /\ n.tx = r /\ n.state = m.state /\ n.l1 = m.l1 /\ n.VR = m.VR /\ n.thread = m.thread
      /\ n.sentFrame = m.sentFrame /\ n.T200 = m.T200
  BY <1>1, <1>2 DEF Entity
<1> HIDE DEF r, n
<1>4. PhoneInv(n) /\ (New(n) <=> New(m)) /\ (Calling(n) <=> Calling(m)) /\ (Up(n) <=> Up(m))
  BY <1>3 DEF WindowLink, PhoneInv, New, Calling, Up, inMultiframe
<1> HIDE DEF q
<1>5. \A T : Lacks(q, T) => Lacks(r, T)
  BY <1>2 DEF Lacks
<1>6. Beginning(b, n)
  BY <1>3, <1>4, <1>5 DEF WindowLink, Beginning, q
<1>7. Uplink(b, n)
  <2>1. SUFFICES ASSUME Up(b) PROVE Uplink(b, n)
    BY DEF Uplink
  <2>2. /\ \A i \in 1 .. Len(q) : q[i].type \in Ack => q[i].nr \in {b.VA, b.VS}
        /\ \A i, j \in 1 .. Len(q) :
              i < j /\ q[i].type \in Ack /\ q[j].type \in Ack /\ q[i].nr = b.VS => q[j].nr = b.VS
    BY <2>1 DEF WindowLink, Uplink, q
  <2> QED  BY <1>2, <1>3, <2>2 DEF Uplink
<1>8. Calls(b, n)
  <2>1. SUFFICES ASSUME Up(b), NEW i \in 1 .. Len(r), r[i].type = "SABM",
                        Up(m) \/ \E j \in 1 .. Len(r) : i < j /\ r[j].type \in Ack
                 PROVE  b.estInProgress /\ \A k \in 1 .. Len(r) : k < i => r[k].type \notin Ack
    BY <1>3, <1>4 DEF Calls
  <2>2. \A h \in 1 .. Len(q) :
          q[h].type = "SABM" /\ (Up(m) \/ \E j \in 1 .. Len(q) : h < j /\ q[j].type \in Ack)
          => b.estInProgress /\ \A k \in 1 .. Len(q) : k < h => q[k].type \notin Ack
    BY <2>1 DEF WindowLink, Calls, q
  <2>3. Up(m) \/ \E j \in 1 .. Len(q) : i + 1 < j /\ q[j].type \in Ack
    BY <1>2, <2>1
  <2>4. b.estInProgress /\ \A k \in 1 .. Len(q) : k < i + 1 => q[k].type \notin Ack
    BY <1>2, <2>1, <2>2, <2>3
  <2> QED  BY <1>2, <2>4
<1>9. Downlink(b, n)
  <2>1. SUFFICES ASSUME Up(b), Calling(m) \/ Up(m) PROVE Downlink(b, n)
    BY <1>4 DEF Downlink
  <2>2. \A i \in 1 .. Len(q) : q[i].type \in Ack /\ q[i].nr = b.VS => m.VR = b.VS
    BY <2>1 DEF WindowLink, Downlink, q
  <2>3. \A i \in 1 .. Len(r) : r[i].type \in Ack /\ r[i].nr = b.VS => m.VR = b.VS
    BY <1>2, <2>2
  <2> QED  BY <1>3, <2>1, <2>3 DEF WindowLink, Downlink
<1>10. WindowLink(b, n)
  BY <1>4, <1>6, <1>7, <1>8, <1>9 DEF WindowLink
<1> QED  BY <1>10 DEF n, r, q

\* The link keeps its order when the station's next frame is received or lost.
LEMMA DownlinkDrops ==
  ASSUME NEW b, NEW m, WindowLink(b, m), b.tx # <<>>
  PROVE  WindowLink([b EXCEPT !.tx = Tail(@)], m)
<1> DEFINE q == b.tx
           r == Tail(q)
           c == [b EXCEPT !.tx = r]
<1>1. b \in Entity /\ q \in Seq(Frame)
  BY LinkTypes
<1>2. /\ r \in Seq(Frame) /\ Len(r) \in Nat
      /\ \A i \in 1 .. Len(r) : i + 1 \in 1 .. Len(q) /\ r[i] = q[i + 1]
      /\ \A i, j \in 1 .. Len(r) : i < j => i + 1 < j + 1
  BY <1>1, TailOf
<1>3. /\ c \in Entity /\ c.tx = r /\ c.state = b.state /\ c.l1 = b.l1 /\ c.VS = b.VS /\ c.VA = b.VA
      /\ c.thread = b.thread /\ c.sentFrame = b.sentFrame /\ c.T200 = b.T200
      /\ c.estInProgress = b.estInProgress /\ c.asleep = b.asleep
  BY <1>1, <1>2 DEF Entity
<1> HIDE DEF r, c
<1>4. StationInv(c) /\ (New(c) <=> New(b)) /\ (Up(c) <=> Up(b))
  BY <1>3 DEF WindowLink, StationInv, StationOK, New, Up, inMultiframe
<1> HIDE DEF q
<1>5. \A T : Lacks(q, T) => Lacks(r, T)
  BY <1>2 DEF Lacks
<1>6. Beginning(c, m) /\ Uplink(c, m) /\ Calls(c, m)
  BY <1>3, <1>4, <1>5 DEF WindowLink, Beginning, Uplink, Calls, q
<1>7. Downlink(c, m)
  <2>1. SUFFICES ASSUME Up(b), Calling(m) \/ Up(m) PROVE Downlink(c, m)
    BY <1>4 DEF Downlink
  <2>2. /\ \A n \in 1 .. Len(q) :
             q[n].type = "I" =>
               Next8(q[n].ns) = m.VR \/ (q[n].ns = m.VR /\ b.VA = m.VR /\ b.VS = Next8(m.VR))
        /\ \A n, k \in 1 .. Len(q) :
             n < k /\ q[n].type = "I" /\ q[k].type = "I" /\ q[n].ns = m.VR => q[k].ns = m.VR
        /\ m.VR \in {b.VA, b.VS}
        /\ \A i \in 1 .. Len(m.tx) : m.tx[i].type \in Ack /\ m.tx[i].nr = b.VS => m.VR = b.VS
    BY <2>1 DEF WindowLink, Downlink, q
  <2>3. \A n \in 1 .. Len(r) :
          r[n].type = "I" =>
            Next8(r[n].ns) = m.VR \/ (r[n].ns = m.VR /\ b.VA = m.VR /\ b.VS = Next8(m.VR))
    BY <1>2, <2>2
  <2>4. \A n, k \in 1 .. Len(r) :
          n < k /\ r[n].type = "I" /\ r[k].type = "I" /\ r[n].ns = m.VR => r[k].ns = m.VR
    BY <1>2, <2>2
  <2> QED  BY <1>3, <2>2, <2>3, <2>4 DEF Downlink
<1>8. WindowLink(c, m)
  BY <1>4, <1>6, <1>7 DEF WindowLink
<1> QED  BY <1>8 DEF c, r, q

----------------------------------------------------------------------------
(* The methods of the phone *)

\* The phone gives its link up.
LEMMA PhoneCloses ==
  ASSUME NEW s, NEW t, PhoneInv(s), Closes(s, t, Quiet)
  PROVE  PhoneInv(t) /\ PhoneStep(s, t)
<1> DEFINE Q == {f \in Frame : f.type \notin Ack /\ (New(s) => f \in Quiet)}
           D == {f \in Frame : f.type \notin Ack \cup {"SABM"}}
<1>1. Quiet \subseteq Q /\ Quiet \subseteq D
  BY DEF Quiet, Ack
<1>2. Grows(s.tx, t.tx, Q) /\ Grows(s.tx, t.tx, D)
  BY <1>1, GrowsMore DEF Closes
<1>3. ~Up(t) /\ ~New(t) /\ ~Calling(t)
  BY DEF Closes, Up, inMultiframe, New, Calling
<1>4. PhoneInv(t)
  BY <1>3 DEF PhoneInv, Closes, New
<1> QED  BY <1>2, <1>3, <1>4 DEF PhoneStep

\* The phone only says something that neither calls nor acknowledges.
LEMMA PhoneSays ==
  ASSUME NEW s, NEW t, PhoneInv(s), Says(s, t, Quiet)
  PROVE  PhoneInv(t) /\ PhoneStep(s, t)
<1> DEFINE Q == {f \in Frame : f.type \notin Ack /\ (New(s) => f \in Quiet)}
<1>1. Quiet \subseteq Q /\ Quiet \subseteq Replies(t.VR)
  BY DEF Quiet, Ack, Replies
<1>2. Grows(s.tx, t.tx, Q) /\ Grows(s.tx, t.tx, Replies(t.VR))
  BY <1>1, GrowsMore DEF Says
<1>3. (Up(t) <=> Up(s)) /\ (New(t) <=> New(s)) /\ (Calling(t) <=> Calling(s)) /\ t.VR = s.VR
  BY DEF Says, Kept, Up, inMultiframe, New, Calling
<1>4. PhoneInv(t)
  BY <1>3 DEF PhoneInv, Says, Kept
<1> QED  BY <1>2, <1>3, <1>4 DEF PhoneStep

\* The phone acknowledges, or is acknowledged, and answers with supervisory frames.
LEMMA PhoneAcked ==
  ASSUME NEW s, NEW t, NEW nr, PhoneInv(s), Up(s), Acked(s, t, nr, Supervisory(t.VR))
  PROVE  PhoneInv(t) /\ Up(t) /\ Grows(s.tx, t.tx, Replies(t.VR))
<1>1. Grows(s.tx, t.tx, Replies(t.VR))
  BY FrameSets, GrowsMore DEF Acked
<1>2. s.state = "LinkEstablished"
  BY DEF PhoneInv, Up, inMultiframe
<1>3. Up(t) /\ PhoneInv(t)
  BY <1>2 DEF Acked, PhoneInv, Up, inMultiframe, New
<1> QED  BY <1>1, <1>3

\* The phone receives a numbered frame.
LEMMA PhoneHearsNumbered ==
  ASSUME SAPI = 0, NEW s, PhoneInv(s), NEW f \in Frame, f.type \in Ack
  PROVE  LET t == IF f.type = "I" THEN receiveIFrame(s, f) ELSE receiveSFrame(s, f)
         IN  PhoneInv(t) /\ PhoneHears(s, t, f)
<1> DEFINE r == [s EXCEPT !.estInProgress = FALSE]
<1>1. s \in Entity
  BY DEF PhoneInv
<1>2. r \in Entity /\ r.tx = s.tx /\ r.state = s.state /\ r.l1 = s.l1 /\ r.VR = s.VR
      /\ r.T200 = s.T200 /\ r.sentFrame = s.sentFrame /\ r.thread = s.thread
  BY <1>1, ClearsFlag
<1>3. CASE ~inMultiframe(s)
  <2>1. receiveIFrame(s, f) = r
    BY <1>3 DEF receiveIFrame
  <2>2. f.type # "I" => receiveSFrame(s, f) \in {r, sendIdle(r)}
    BY <1>2, <1>3 DEF receiveSFrame, receiveSFrameRR, receiveSFrameREJ, inMultiframe
  <2> HIDE DEF r
  <2>3. PhoneInv(r) /\ (New(r) <=> New(s)) /\ (Calling(r) <=> Calling(s)) /\ ~Up(r)
    BY <1>2, <1>3 DEF PhoneInv, New, Calling, Up, inMultiframe
  <2>4. Says(r, r, Quiet) /\ Says(r, sendIdle(r), Quiet)
    BY <1>2, IdleFrameType, SaysNothing, AnswersSay, FrameSets, SaysMore
  <2>5. \A t : Says(r, t, Quiet) => PhoneInv(t) /\ PhoneStep(s, t)
    <3>1. SUFFICES ASSUME NEW t, Says(r, t, Quiet) PROVE PhoneInv(t) /\ PhoneStep(s, t)
      OBVIOUS
    <3>2. PhoneInv(t) /\ PhoneStep(r, t)
      BY <2>3, <3>1, PhoneSays
    <3>3. ~Up(s)
      BY <1>3 DEF Up
    <3> QED  BY <1>2, <2>3, <3>2, <3>3 DEF PhoneStep
  <2> QED  BY <2>1, <2>2, <2>4, <2>5 DEF PhoneHears
<1>4. CASE inMultiframe(s) /\ f.type = "I"
  <2> DEFINE t == receiveIFrame(s, f)
  <2>1. \/ Acked(s, t, f.nr, Supervisory(s.VR)) /\ t.VR = s.VR
        \/ /\ f.ns = s.VR /\ t.VR = Next8(s.VR)
           /\ Acked(s, t, f.nr, Supervisory(Next8(s.VR)))
    BY <1>1, <1>4, IFrameAcked
  <2> HIDE DEF t
  <2>2. PhoneInv(t) /\ Up(t) /\ Grows(s.tx, t.tx, Replies(t.VR))
    <3>1. Acked(s, t, f.nr, Supervisory(t.VR)) /\ Up(s)
      BY <1>4, <2>1 DEF Up
    <3> QED  BY <3>1, PhoneAcked
  <2>3. PhoneHears(s, t, f)
    BY <1>4, <2>1, <2>2 DEF PhoneHears, PhoneStep, Up
  <2> QED  BY <1>4, <2>2, <2>3 DEF t
<1>5. CASE inMultiframe(s) /\ f.type # "I"
  <2> DEFINE t == receiveSFrame(s, f)
  <2>1. \/ Acked(s, t, f.nr, Supervisory(s.VR)) /\ t.VR = s.VR
        \/ Closes(s, t, Idle)
    BY <1>1, <1>5, SFrameAcked
  <2> HIDE DEF t
  <2>2. PhoneInv(t) /\ PhoneStep(s, t)
    <3>1. CASE Closes(s, t, Idle)
      BY <3>1, ClosesQuietly, PhoneCloses
    <3>2. CASE Acked(s, t, f.nr, Supervisory(s.VR)) /\ t.VR = s.VR
      <4>1. PhoneInv(t) /\ Up(t) /\ Grows(s.tx, t.tx, Replies(t.VR)) /\ Up(s)
        BY <1>5, <3>2, PhoneAcked DEF Up
      <4> QED  BY <3>2, <4>1 DEF PhoneStep
    <3> QED  BY <2>1, <3>1, <3>2
  <2> QED  BY <1>5, <2>2 DEF PhoneHears, t
<1> QED  BY <1>3, <1>4, <1>5

\* The phone receives an unnumbered frame, but a SABM, while its thread is not about to start
\* the timer of one.
LEMMA PhoneHearsUnnumbered ==
  ASSUME SAPI = 0, NEW s, PhoneInv(s), s.l1 = "open", s.thread \notin {"sabm", "sabmT200"},
         NEW f \in Frame
  PROVE  /\ f.type = "UA" => /\ PhoneInv(receiveUFrameUA(s, f))
                             /\ PhoneHears(s, receiveUFrameUA(s, f), f)
         /\ PhoneInv(receiveUFrameDM(s, f)) /\ PhoneStep(s, receiveUFrameDM(s, f))
         /\ PhoneInv(receiveUFrameDISC(s, f)) /\ PhoneStep(s, receiveUFrameDISC(s, f))
<1>1. s \in Entity
  BY DEF PhoneInv
<1>2. \A t : Closes(s, t, Idle) => PhoneInv(t) /\ PhoneStep(s, t)
  BY ClosesQuietly, PhoneCloses
<1>3. PhoneInv(s) /\ PhoneStep(s, s)
  BY <1>1, SaysNothing, PhoneSays
<1>4. /\ Closes(s, clearState(s), Idle) /\ Closes(s, abnormalRelease(s), Idle)
      /\ Closes(s, unexpectedMessage(s), Idle)
  BY <1>1, releasesClose
<1>5. PhoneInv(receiveUFrameDM(s, f)) /\ PhoneStep(s, receiveUFrameDM(s, f))
  <2>1. receiveUFrameDM(s, f) \in {s, clearState(s)}
    BY DEF receiveUFrameDM
  <2> QED  BY <1>2, <1>3, <1>4, <2>1
<1>6. PhoneInv(receiveUFrameDISC(s, f)) /\ PhoneStep(s, receiveUFrameDISC(s, f))
  <2> DEFINE r == [s EXCEPT !.estInProgress = FALSE]
             t == receiveUFrameDISC(s, f)
  <2>1. /\ s.state = "AwaitingRelease" => Says(r, t, Quiet)
        /\ s.state \in {"LinkReleased", "AwaitingEstablish"} => Closes(s, t, Idle)
        /\ inMultiframe(s) => Closes(s, t, Quiet)
    BY <1>1, DISCEnds
  <2>2. r \in Entity /\ r.tx = s.tx /\ r.state = s.state /\ r.l1 = s.l1 /\ r.VR = s.VR
        /\ r.T200 = s.T200 /\ r.sentFrame = s.sentFrame /\ r.thread = s.thread
    BY <1>1, ClearsFlag
  <2> HIDE DEF r, t
  <2>3. CASE s.state = "AwaitingRelease"
    <3>1. PhoneInv(r) /\ ~New(r) /\ ~New(s) /\ ~Up(r) /\ ~Up(s) /\ ~Calling(r)
      BY <2>2, <2>3 DEF PhoneInv, New, Calling, Up, inMultiframe
    <3>2. PhoneInv(t) /\ PhoneStep(r, t)
      BY <2>1, <2>3, <3>1, PhoneSays
    <3> QED  BY <2>2, <3>1, <3>2 DEF PhoneStep, t
  <2>4. CASE s.state # "AwaitingRelease"
    <3>1. Closes(s, t, Idle) \/ Closes(s, t, Quiet)
      BY <1>1, <2>1, <2>4 DEF inMultiframe, Entity, LAPDState
    <3> QED  BY <1>2, <3>1, PhoneCloses DEF t
  <2> QED  BY <2>3, <2>4
<1>7. ASSUME f.type = "UA"
      PROVE  PhoneInv(receiveUFrameUA(s, f)) /\ PhoneHears(s, receiveUFrameUA(s, f), f)
  <2> DEFINE c == clearCounters(s)
             up == [c EXCEPT !.state = "LinkEstablished", !.l3 = "ESTABLISH"]
  <2>1. \/ receiveUFrameUA(s, f) \in {s, clearState(s), unexpectedMessage(s)}
        \/ s.state = "AwaitingEstablish" /\ receiveUFrameUA(s, f) = up
    BY DEF receiveUFrameUA
  <2>2. CASE receiveUFrameUA(s, f) \in {s, clearState(s), unexpectedMessage(s)}
    BY <1>2, <1>3, <1>4, <2>2 DEF PhoneHears
  <2>3. CASE s.state = "AwaitingEstablish" /\ receiveUFrameUA(s, f) = up
    <3>1. /\ up.state = "LinkEstablished" /\ up.VR = 0 /\ up.tx = s.tx /\ up.l1 = s.l1
          /\ up.thread = s.thread /\ ~up.T200
      BY <1>1 DEF clearCounters, Entity
    <3>2. up \in Entity
      <4>1. c \in Entity
        BY <1>1, clearCountersType
      <4> HIDE DEF c
      <4> QED  BY <4>1 DEF Entity, LAPDState
    <3> HIDE DEF up
    <3>3. Up(up) /\ Calling(s) /\ s.thread # "establish"
      BY <2>3, <3>1 DEF Up, inMultiframe, Calling, PhoneInv
    <3>4. PhoneInv(up)
      BY <3>1, <3>2, <3>3 DEF PhoneInv, New
    <3> QED  BY <1>7, <2>3, <3>1, <3>3, <3>4 DEF PhoneHears
  <2> QED  BY <2>1, <2>2, <2>3
<1> QED  BY <1>5, <1>6, <1>7

\* The phone receives any frame but a SABM.
LEMMA PhonefromL1 ==
  ASSUME SAPI = 0, NEW s, PhoneInv(s), s.thread \notin {"sabm", "sabmT200"},
         NEW f \in Frame, f.type # "SABM"
  PROVE  PhoneInv(fromL1(s, f)) /\ PhoneHears(s, fromL1(s, f), f)
<1>1. s \in Entity /\ s.l1 \in {"closed", "open"}
  BY DEF PhoneInv, Entity
<1>2. PhoneInv(s) /\ PhoneStep(s, s)
  BY <1>1, SaysNothing, PhoneSays
<1>3. CASE s.l1 = "closed"
  BY <1>2, <1>3 DEF fromL1, PhoneHears
<1>4. CASE s.l1 = "open"
  <2>1. fromL1(s, f) = receiveFrame(s, f)
    BY <1>4 DEF fromL1
  <2>2. f.type \in {"I", "RR", "REJ", "DISC", "UA", "DM", "UI"}
    BY DEF Frame, FrameType
  <2>3. CASE f.type \in Ack
    <3>1. receiveFrame(s, f) = IF f.type = "I" THEN receiveIFrame(s, f) ELSE receiveSFrame(s, f)
      BY <2>3 DEF receiveFrame, Ack
    <3> QED  BY <2>1, <2>3, <3>1, PhoneHearsNumbered
  <2>4. CASE f.type \notin Ack
    <3>1. /\ f.type = "UA" => receiveFrame(s, f) = receiveUFrameUA(s, f)
          /\ f.type = "DM" => receiveFrame(s, f) = receiveUFrameDM(s, f)
          /\ f.type = "DISC" => receiveFrame(s, f) = receiveUFrameDISC(s, f)
          /\ f.type = "UI" => receiveFrame(s, f) = s
      BY DEF receiveFrame
    <3>2. /\ f.type = "UA" => /\ PhoneInv(receiveUFrameUA(s, f))
                              /\ PhoneHears(s, receiveUFrameUA(s, f), f)
          /\ PhoneInv(receiveUFrameDM(s, f)) /\ PhoneStep(s, receiveUFrameDM(s, f))
          /\ PhoneInv(receiveUFrameDISC(s, f)) /\ PhoneStep(s, receiveUFrameDISC(s, f))
      BY <1>4, PhoneHearsUnnumbered
    <3> QED  BY <1>2, <2>1, <2>2, <2>4, <3>1, <3>2 DEF PhoneHears, Ack
  <2> QED  BY <2>3, <2>4
<1> QED  BY <1>1, <1>3, <1>4

\* The phone's link as it was, whatever its thread and its timer do.
LEMMA SamePhone ==
  ASSUME NEW s, NEW t, Same(s, t)
  PROVE  (Up(t) <=> Up(s)) /\ (New(t) <=> New(s)) /\ (Calling(t) <=> Calling(s)) /\ t.VR = s.VR
  BY DEF Same, Up, inMultiframe, New, Calling

\* Nothing said.
LEMMA PhoneSame ==
  ASSUME NEW s \in Entity, NEW t, Same(s, t), t.tx = s.tx
  PROVE  PhoneStep(s, t)
<1>1. \A A : Grows(s.tx, t.tx, A)
  BY SaysNothing DEF Says
<1> QED  BY <1>1, SamePhone DEF PhoneStep

\* The phone sends mSentFrame again, with the N(R) of the moment, or gives its link up.
LEMMA PhoneT200 ==
  ASSUME SAPI = 0, NEW s, PhoneInv(s), s.T200, NEW f \in Frame,
         f.type = s.sentFrame.type, f.type = "I" => f.nr = s.VR
  PROVE  PhoneInv(T200Expiration(s, f)) /\ PhoneStep(s, T200Expiration(s, f))
<1> DEFINE t == T200Expiration(s, f)
<1>1. s \in Entity
  BY DEF PhoneInv
<1>2. \/ Closes(s, t, Idle)
      \/ /\ s.state = "LinkReleased"
         /\ Same(s, t) /\ t.thread = s.thread /\ t.sentFrame = s.sentFrame /\ ~t.T200
         /\ t.tx = s.tx
      \/ /\ s.state \notin {"LinkReleased", "AwaitingRelease"}
         /\ Same(s, t) /\ t.thread = s.thread /\ t.sentFrame = s.sentFrame /\ t.T200
         /\ Grows(s.tx, t.tx, {f})
  BY <1>1, T200Does
<1> HIDE DEF t
<1>3. CASE Closes(s, t, Idle)
  BY <1>3, ClosesQuietly, PhoneCloses DEF t
<1>4. CASE /\ s.state = "LinkReleased"
           /\ Same(s, t) /\ t.thread = s.thread /\ t.sentFrame = s.sentFrame /\ ~t.T200
           /\ t.tx = s.tx
  <2>1. PhoneInv(t)
    BY <1>4 DEF PhoneInv, Same, New
  <2> QED  BY <1>1, <1>4, <2>1, PhoneSame DEF t
<1>5. CASE /\ s.state \notin {"LinkReleased", "AwaitingRelease"}
           /\ Same(s, t) /\ t.thread = s.thread /\ t.sentFrame = s.sentFrame /\ t.T200
           /\ Grows(s.tx, t.tx, {f})
  <2>1. PhoneInv(t)
    BY <1>5 DEF PhoneInv, Same, New
  <2>2. CASE s.state = "AwaitingEstablish"
    <3>1. f.type = "SABM" /\ ~Up(s) /\ ~Up(t) /\ ~New(s)
      BY <1>5, <2>2, SamePhone DEF PhoneInv, Up, inMultiframe, New
    <3>2. {f} \subseteq {x \in Frame : x.type \notin Ack /\ (New(s) => x \in Quiet)}
      BY <3>1 DEF Ack
    <3>3. Grows(s.tx, t.tx, {x \in Frame : x.type \notin Ack /\ (New(s) => x \in Quiet)})
      BY <1>5, <3>2, GrowsMore
    <3> QED  BY <1>5, <2>1, <3>1, <3>3, SamePhone DEF PhoneStep, t
  <2>3. CASE s.state = "LinkEstablished"
    <3>1. f.type = "I" /\ f.nr = s.VR /\ Up(s) /\ Up(t) /\ t.VR = s.VR
      BY <1>5, <2>3, SamePhone DEF PhoneInv, Up, inMultiframe
    <3>2. {f} \subseteq Replies(t.VR)
      BY <3>1 DEF Replies
    <3>3. Grows(s.tx, t.tx, Replies(t.VR))
      BY <1>5, <3>2, GrowsMore
    <3> QED  BY <2>1, <3>1, <3>3 DEF PhoneStep, t
  <2> QED  BY <1>1, <1>5, <2>2, <2>3 DEF PhoneInv, Entity, LAPDState
<1> QED  BY <1>2, <1>3, <1>4, <1>5

\* The phone's layer 3 asks for a link or its release.
LEMMA PhoneRequests ==
  ASSUME SAPI = 0, NEW s, PhoneInv(s)
  PROVE  /\ s.thread = "idle" /\ s.state # "AwaitingEstablish" =>
              PhoneInv(establishRequest(s)) /\ PhoneStep(s, establishRequest(s))
         /\ s.thread = "idle" =>
              PhoneInv(releaseRequest(s)) /\ PhoneStep(s, releaseRequest(s))
         /\ PhoneInv(abnormalRelease(s)) /\ PhoneStep(s, abnormalRelease(s))
         /\ PhoneInv(hardRelease(s)) /\ PhoneStep(s, hardRelease(s))
<1>1. s \in Entity
  BY DEF PhoneInv
<1>2. PhoneInv(s) /\ PhoneStep(s, s)
  BY <1>1, SaysNothing, PhoneSays
<1>3. ASSUME s.thread = "idle", s.state # "AwaitingEstablish"
      PROVE  PhoneInv(establishRequest(s)) /\ PhoneStep(s, establishRequest(s))
  <2> DEFINE t == [s EXCEPT !.thread = "establish"]
  <2>1. Turns(s, t, "establish")
    BY <1>1, ThreadTurns DEF Thread
  <2> HIDE DEF t
  <2>2. s.state # "LinkEstablished" => PhoneInv(t)
    BY <1>1, <1>3, <2>1 DEF PhoneInv, Turns, Same, New, Entity, LAPDState
  <2>3. PhoneStep(s, t)
    BY <1>1, <2>1, PhoneSame DEF Turns
  <2> QED  BY <1>2, <2>2, <2>3 DEF establishRequest, t
<1>4. ASSUME s.thread = "idle"
      PROVE  PhoneInv(releaseRequest(s)) /\ PhoneStep(s, releaseRequest(s))
  <2> DEFINE t == [s EXCEPT !.thread = "release"]
  <2>1. Turns(s, t, "release")
    BY <1>1, ThreadTurns DEF Thread
  <2> HIDE DEF t
  <2>2. s.state # "LinkReleased" => PhoneInv(t)
    BY <1>4, <2>1 DEF PhoneInv, Turns, Same, New
  <2>3. PhoneStep(s, t)
    BY <1>1, <2>1, PhoneSame DEF Turns
  <2> QED  BY <1>2, <2>2, <2>3 DEF releaseRequest, t
<1>5. Closes(s, abnormalRelease(s), Idle) /\ Closes(s, hardRelease(s), Idle)
  BY <1>1, releasesClose
<1> QED  BY <1>3, <1>4, <1>5, ClosesQuietly, PhoneCloses

\* The phone's thread sends a segment.
LEMMA PhoneSegment ==
  ASSUME NEW s, PhoneInv(s), s.thread = "data", s.todo # <<>>
  PROVE  PhoneInv(sendSegment(s)) /\ PhoneStep(s, sendSegment(s))
<1> DEFINE t == sendSegment(s)
<1>1. s \in Entity
  BY DEF PhoneInv
<1>2. \/ Turns(s, t, "idle")
      \/ /\ inMultiframe(s) /\ t \in Entity
         /\ t.state = s.state /\ t.VA = s.VA /\ t.VR = s.VR /\ t.l1 = s.l1
         /\ t.estInProgress = s.estInProgress /\ t.asleep = s.asleep
         /\ t.thread \in {"idle", s.thread}
         /\ t.VS = Next8(s.VS) /\ t.T200
         /\ t.sentFrame.type = "I" /\ t.sentFrame.ns = s.VS
         /\ Grows(s.tx, t.tx, {f \in Frame : f.type = "I" /\ f.ns = s.VS /\ f.nr = s.VR})
  BY <1>1, SegmentDoes
<1> HIDE DEF t
<1>3. CASE Turns(s, t, "idle")
  <2>1. PhoneInv(t)
    BY <1>3 DEF PhoneInv, Turns, Same, New
  <2> QED  BY <1>1, <1>3, <2>1, PhoneSame DEF Turns, t
<1>4. CASE /\ inMultiframe(s) /\ t \in Entity
           /\ t.state = s.state /\ t.VA = s.VA /\ t.VR = s.VR /\ t.l1 = s.l1
           /\ t.thread \in {"idle", s.thread} /\ t.T200 /\ t.sentFrame.type = "I"
           /\ Grows(s.tx, t.tx, {f \in Frame : f.type = "I" /\ f.ns = s.VS /\ f.nr = s.VR})
  <2>1. PhoneInv(t)
    BY <1>4 DEF PhoneInv, inMultiframe, New
  <2>2. {f \in Frame : f.type = "I" /\ f.ns = s.VS /\ f.nr = s.VR} \subseteq Replies(t.VR)
    BY <1>4 DEF Replies
  <2>3. Grows(s.tx, t.tx, Replies(t.VR)) /\ Up(s) /\ Up(t)
    BY <1>4, <2>2, GrowsMore DEF Up, inMultiframe
  <2> QED  BY <1>4, <2>1, <2>3 DEF PhoneStep, t
<1> QED  BY <1>2, <1>3, <1>4

\* The phone's layer 3 hands over a message.
LEMMA PhoneData ==
  ASSUME SAPI = 0, NEW s, PhoneInv(s), s.thread = "idle",
         NEW msg \in Seq(Segment), msg # <<>>
  PROVE  PhoneInv(sendMultiframeData(s, msg)) /\ PhoneStep(s, sendMultiframeData(s, msg))
<1> DEFINE begun == [s EXCEPT !.discard = FALSE, !.todo = msg, !.thread = "data"]
<1>1. s \in Entity
  BY DEF PhoneInv
<1>2. /\ Same(s, begun) /\ begun.tx = s.tx /\ begun.T200 = s.T200 /\ begun.sentFrame = s.sentFrame
      /\ begun.thread = "data" /\ begun.todo = msg
  <2>1. "data" \in Thread
    BY DEF Thread
  <2> QED  BY <1>1, <2>1 DEF Same, Entity
<1>3. sendMultiframeData(s, msg) \in {abnormalRelease(s), sendSegment(begun), begun}
  BY DEF sendMultiframeData
<1> HIDE DEF begun
<1>4. PhoneInv(begun)
  BY <1>2 DEF PhoneInv, Same, New
<1>5. PhoneStep(s, begun)
  BY <1>1, <1>2, PhoneSame
<1>6. PhoneInv(sendSegment(begun)) /\ PhoneStep(begun, sendSegment(begun))
  BY <1>2, <1>4, PhoneSegment
<1>7. PhoneStep(s, sendSegment(begun))
  <2>1. (Up(begun) <=> Up(s)) /\ (New(begun) <=> New(s)) /\ (Calling(begun) <=> Calling(s))
        /\ begun.VR = s.VR /\ begun.tx = s.tx
    BY <1>2, SamePhone
  <2> QED  BY <1>6, <2>1 DEF PhoneStep
<1> QED  BY <1>3, <1>4, <1>5, <1>6, <1>7, PhoneRequests

\* The phone's thread sends its SABM in three steps.
LEMMA PhoneEstablishes ==
  ASSUME NEW s, PhoneInv(s)
  PROVE  /\ s.thread = "establish" => PhoneInv(awaitEstablish(s)) /\ PhoneStep(s, awaitEstablish(s))
         /\ s.thread = "sabm" => PhoneInv(writeSABM(s)) /\ PhoneStep(s, writeSABM(s))
         /\ s.thread = "sabmT200" =>
              PhoneInv(startSABMTimer(s)) /\ PhoneStep(s, startSABMTimer(s))
<1>1. s \in Entity
  BY DEF PhoneInv
<1>2. ASSUME s.thread = "establish"
      PROVE  PhoneInv(awaitEstablish(s)) /\ PhoneStep(s, awaitEstablish(s))
  <2> DEFINE c == clearCounters(s)
             t == awaitEstablish(s)
  <2>1. t \in Entity
    BY <1>1, establishTypes
  <2>2. /\ t.state = "AwaitingEstablish" /\ t.thread = "sabm" /\ t.VR = 0 /\ ~t.T200 /\ t.l1 = s.l1
        /\ t.tx = s.tx
    BY <1>1 DEF awaitEstablish, clearCounters, Entity
  <2> HIDE DEF t
  <2>3. PhoneInv(t)
    BY <2>1, <2>2 DEF PhoneInv, New
  <2>4. \A A : Grows(s.tx, t.tx, A)
    BY <1>1, <2>2, SaysNothing DEF Says
  <2>5. ~Up(s) /\ ~Up(t) /\ ~New(t) /\ (Calling(t) => New(s))
    BY <1>2, <2>2 DEF PhoneInv, Up, inMultiframe, New, Calling
  <2> QED  BY <2>3, <2>4, <2>5 DEF PhoneStep, t
<1>3. ASSUME s.thread = "sabm"
      PROVE  PhoneInv(writeSABM(s)) /\ PhoneStep(s, writeSABM(s))
  <2> DEFINE f == UFrame("SABM", TRUE, <<>>)
             w == writeL1(s, f)
             t == writeSABM(s)
             A == {x \in Frame : x.type \notin Ack /\ (New(s) => x \in Quiet)}
  <2>1. t \in Entity
    BY <1>1, establishTypes
  <2>2. f \in Frame /\ f.type = "SABM"
    <3>1. f \in Frame
      BY UFrameType, EmptyTypes DEF FrameType
    <3> QED  BY <3>1 DEF UFrame
  <2>3. ~Up(s) /\ ~New(s)
    BY <1>3 DEF PhoneInv, Up, inMultiframe
  <2>4. Says(s, w, A)
    <3>1. f \in A
      BY <2>2, <2>3 DEF Ack
    <3> QED  BY <1>1, <2>2, <3>1, writeL1Says
  <2>5. t = [w EXCEPT !.sentFrame = f, !.thread = "sabmT200"]
    BY DEF writeSABM
  <2> HIDE DEF t, w, A, f
  <2>6. /\ t.state = w.state /\ t.T200 = w.T200 /\ t.VR = w.VR /\ t.l1 = w.l1 /\ t.tx = w.tx
        /\ t.thread = "sabmT200" /\ t.sentFrame = f
    BY <2>4, <2>5 DEF Says, Entity
  <2>7. /\ t.state = s.state /\ t.T200 = s.T200 /\ t.VR = s.VR /\ t.l1 = s.l1 /\ t.thread = "sabmT200"
        /\ t.sentFrame = f /\ Grows(s.tx, t.tx, A)
    BY <2>4, <2>6 DEF Says, Kept
  <2>8. PhoneInv(t) /\ ~Up(t) /\ ~New(t) /\ (Calling(t) => Calling(s))
    BY <1>3, <2>1, <2>2, <2>3, <2>7 DEF PhoneInv, New, Calling, Up, inMultiframe
  <2> QED  BY <2>3, <2>7, <2>8 DEF PhoneStep, t, A
<1>4. ASSUME s.thread = "sabmT200"
      PROVE  PhoneInv(startSABMTimer(s)) /\ PhoneStep(s, startSABMTimer(s))
  <2> DEFINE t == startSABMTimer(s)
  <2>1. Same(s, t) /\ t.tx = s.tx /\ t.T200 /\ t.thread = "idle" /\ t.sentFrame = s.sentFrame
    <3>1. t \in Entity
      BY <1>1, establishTypes
    <3> QED  BY <1>1, <3>1 DEF startSABMTimer, Same, Entity
  <2> HIDE DEF t
  <2>2. PhoneInv(t)
    BY <1>4, <2>1 DEF PhoneInv, Same, New
  <2> QED  BY <1>1, <2>1, <2>2, PhoneSame DEF t
<1> QED  BY <1>2, <1>3, <1>4

\* The phone's thread sends its DISC, and finds its link released.
LEMMA PhoneReleases ==
  ASSUME NEW s, PhoneInv(s)
  PROVE  /\ s.thread = "release" => PhoneInv(sendDISC(s)) /\ PhoneStep(s, sendDISC(s))
         /\ s.thread = "disc" /\ ackWaitOver(s) =>
              PhoneInv([s EXCEPT !.thread = "idle"]) /\ PhoneStep(s, [s EXCEPT !.thread = "idle"])
<1>1. s \in Entity
  BY DEF PhoneInv
<1>2. ASSUME s.thread = "release"
      PROVE  PhoneInv(sendDISC(s)) /\ PhoneStep(s, sendDISC(s))
  <2> DEFINE t == sendDISC(s)
             D == {f \in Frame : f.type = "DISC"}
             A == {f \in Frame : f.type \notin Ack /\ (New(s) => f \in Quiet)}
             B == {f \in Frame : f.type \notin Ack \cup {"SABM"}}
  <2>1. /\ t \in Entity /\ t.state = "AwaitingRelease" /\ t.thread = "disc" /\ t.l1 = s.l1
        /\ t.sentFrame.type = "DISC" /\ Grows(s.tx, t.tx, D)
    BY <1>1, DISCDoes
  <2>2. ~New(s)
    BY <1>2 DEF PhoneInv
  <2>3. D \subseteq A /\ D \subseteq B
    BY <2>2 DEF Ack
  <2> HIDE DEF t, A, B, D
  <2>4. Grows(s.tx, t.tx, A) /\ Grows(s.tx, t.tx, B)
    BY <2>1, <2>3, GrowsMore
  <2>5. PhoneInv(t) /\ ~Up(t) /\ ~New(t) /\ ~Calling(t)
    BY <2>1 DEF PhoneInv, Up, inMultiframe, New, Calling
  <2> QED  BY <2>4, <2>5 DEF PhoneStep, t, A, B
<1>3. ASSUME s.thread = "disc", ackWaitOver(s)
      PROVE  /\ PhoneInv([s EXCEPT !.thread = "idle"])
             /\ PhoneStep(s, [s EXCEPT !.thread = "idle"])
  <2> DEFINE t == [s EXCEPT !.thread = "idle"]
  <2>1. Turns(s, t, "idle")
    BY <1>1, ThreadTurns DEF Thread
  <2> HIDE DEF t
  <2>2. PhoneInv(t)
    BY <1>3, <2>1 DEF PhoneInv, Turns, Same, New, ackWaitOver, inMultiframe
  <2> QED  BY <1>1, <2>1, <2>2, PhoneSame DEF Turns, t
<1> QED  BY <1>2, <1>3

----------------------------------------------------------------------------
(* The methods of the station *)

\* The kinds of answers.
LEMMA AnswerKinds ==
  /\ Idle \subseteq Silent /\ Quiet \subseteq Dataless
  /\ Quiet \subseteq {f \in Frame : f.type # "SABM"}
  /\ \A n : Supervisory(n) \subseteq Dataless
  BY DEF Idle, Quiet, Silent, Dataless, Supervisory

\* The station gives its link up.
LEMMA StationCloses ==
  ASSUME NEW s, NEW t, StationOK(s), Closes(s, t, Idle) \/ (Up(s) /\ Closes(s, t, Quiet))
  PROVE  StationOK(t) /\ ~Up(t) /\ StationStep(s, t)
<1>1. ~Up(t) /\ ~New(t) /\ StationOK(t)
  BY DEF Closes, Up, inMultiframe, New, StationOK
<1>2. ~Up(s) => Grows(s.tx, t.tx, Silent)
  BY AnswerKinds, GrowsMore DEF Closes
<1>3. Grows(s.tx, t.tx, {f \in Frame : f.type # "SABM"})
  <2>1. Closes(s, t, Quiet)
    BY ClosesQuietly
  <2> QED  BY <2>1, AnswerKinds, GrowsMore DEF Closes
<1> QED  BY <1>1, <1>2, <1>3 DEF StationStep

\* The station only answers.
LEMMA StationSays ==
  ASSUME NEW s, NEW t, StationOK(s), Says(s, t, Idle) \/ (Up(s) /\ Says(s, t, Quiet))
  PROVE  StationOK(t) /\ StationStep(s, t)
<1> DEFINE B == {f \in Frame : f.type # "SABM" /\ (f.type = "I" => f.ns = t.VA /\ t.VS = Next8(t.VA))}
<1>1. (Up(t) <=> Up(s)) /\ (New(t) <=> New(s)) /\ StationOK(t)
  BY DEF Says, Kept, Up, inMultiframe, New, StationOK
<1>2. ~Up(s) => Grows(s.tx, t.tx, Silent)
  BY AnswerKinds, GrowsMore DEF Says
<1>3. Quiet \subseteq B /\ Idle \subseteq B
  BY DEF Quiet, Idle
<1>4. Grows(s.tx, t.tx, B)
  BY <1>3, GrowsMore DEF Says
<1> QED  BY <1>1, <1>2, <1>4 DEF StationStep, Says, Kept

\* What a step does to a station without a link depends on little of it.
LEMMA StationLike ==
  ASSUME NEW s, NEW r, NEW t, NEW f, r.tx = s.tx, ~Up(s), ~Up(r), New(r) <=> New(s),
         StationHears(r, t, f)
  PROVE  StationHears(s, t, f)
  BY DEF StationHears, StationStep

\* The station receives a numbered frame.
LEMMA StationHearsNumbered ==
  ASSUME SAPI = 0, NEW s, StationOK(s), NEW f \in Frame, f.type \in Ack,
         Up(s) => f.nr \in {s.VA, s.VS}
  PROVE  LET t == IF f.type = "I" THEN receiveIFrame(s, f) ELSE receiveSFrame(s, f)
         IN  StationOK(t) /\ StationHears(s, t, f)
<1> DEFINE r == [s EXCEPT !.estInProgress = FALSE]
           t == IF f.type = "I" THEN receiveIFrame(s, f) ELSE receiveSFrame(s, f)
<1>1. s \in Entity
  BY DEF StationOK
<1>2. CASE ~inMultiframe(s)
  <2>1. receiveIFrame(s, f) = r
    BY <1>2 DEF receiveIFrame
  <2>2. r \in Entity /\ r.tx = s.tx /\ r.state = s.state /\ r.l1 = s.l1
        /\ r.sentFrame = s.sentFrame /\ r.thread = s.thread
    BY <1>1, ClearsFlag
  <2>3. f.type # "I" => receiveSFrame(s, f) \in {r, sendIdle(r)}
    BY <1>2, <2>2 DEF receiveSFrame, receiveSFrameRR, receiveSFrameREJ, inMultiframe
  <2> HIDE DEF r
  <2>4. StationOK(r) /\ (New(r) <=> New(s)) /\ ~Up(r) /\ ~Up(s)
    BY <1>2, <2>2 DEF StationOK, New, Up, inMultiframe
  <2>5. Says(r, r, Idle) /\ Says(r, sendIdle(r), Idle)
    BY <2>2, IdleFrameType, SaysNothing, AnswersSay
  <2>6. \A u : Says(r, u, Idle) => StationOK(u) /\ StationHears(s, u, f)
    BY <2>2, <2>4, StationSays, StationLike DEF StationHears
  <2> QED  BY <2>1, <2>3, <2>5, <2>6
<1>3. CASE inMultiframe(s)
  <2>1. \/ \E n : Acked(s, t, f.nr, Supervisory(n))
        \/ Closes(s, t, Idle)
    BY <1>1, <1>3, IFrameAcked, SFrameAcked
  <2> HIDE DEF t
  <2>2. CASE Closes(s, t, Idle)
    BY <2>2, StationCloses DEF StationHears, t
  <2>3. CASE \E n : Acked(s, t, f.nr, Supervisory(n))
    <3>1. PICK n : Acked(s, t, f.nr, Supervisory(n))
      BY <2>3
    <3>2. Grows(s.tx, t.tx, Dataless)
      BY <3>1, AnswerKinds, GrowsMore DEF Acked
    <3>3. Up(s) /\ f.nr \in {s.VA, s.VS}
      BY <1>3 DEF Up
    <3>4. /\ s.l1 = "open" /\ (s.VS = s.VA \/ s.VS = Next8(s.VA)) /\ (s.T200 <=> s.VS # s.VA)
          /\ s.VS # s.VA => s.sentFrame.type = "I" /\ s.sentFrame.ns = s.VA
      BY <3>3 DEF StationOK
    <3>5. Up(t) /\ StationOK(t)
      BY <3>1, <3>3, <3>4 DEF Acked, Up, inMultiframe, StationOK
    <3> QED  BY <3>1, <3>2, <3>3, <3>5 DEF StationHears, Acked, t
  <2> QED  BY <2>1, <2>2, <2>3
<1> QED  BY <1>2, <1>3

\* The station receives an unnumbered frame other than a SABM.
LEMMA StationHearsUnnumbered ==
  ASSUME SAPI = 0, NEW s, StationOK(s), NEW f \in Frame
  PROVE  /\ StationOK(receiveUFrameUA(s, f)) /\ StationStep(s, receiveUFrameUA(s, f))
         /\ StationOK(receiveUFrameDM(s, f)) /\ StationStep(s, receiveUFrameDM(s, f))
         /\ f.type = "DISC" => /\ StationOK(receiveUFrameDISC(s, f))
                               /\ StationHears(s, receiveUFrameDISC(s, f), f)
<1>1. s \in Entity
  BY DEF StationOK
<1>2. \A t : Closes(s, t, Idle) => StationOK(t) /\ StationStep(s, t)
  BY StationCloses
<1>3. StationOK(s) /\ StationStep(s, s)
  BY <1>1, SaysNothing, StationSays
<1>4. Closes(s, clearState(s), Idle) /\ Closes(s, unexpectedMessage(s), Idle)
  BY <1>1, releasesClose
<1>5. /\ receiveUFrameUA(s, f) \in {s, clearState(s), unexpectedMessage(s)}
      /\ receiveUFrameDM(s, f) \in {s, clearState(s)}
  BY DEF receiveUFrameUA, receiveUFrameDM, StationOK
<1>6. ASSUME f.type = "DISC"
      PROVE  StationOK(receiveUFrameDISC(s, f)) /\ StationHears(s, receiveUFrameDISC(s, f), f)
  <2> DEFINE r == [s EXCEPT !.estInProgress = FALSE]
             t == receiveUFrameDISC(s, f)
  <2>1. /\ s.state = "AwaitingRelease" => Says(r, t, Quiet)
        /\ s.state \in {"LinkReleased", "AwaitingEstablish"} => Closes(s, t, Idle)
        /\ inMultiframe(s) => Closes(s, t, Quiet)
    BY <1>1, DISCEnds
  <2>2. /\ r \in Entity /\ r.tx = s.tx /\ r.state = s.state /\ r.l1 = s.l1
        /\ r.sentFrame = s.sentFrame /\ r.thread = s.thread
    BY <1>1, ClearsFlag
  <2> HIDE DEF r, t
  <2>3. CASE s.state = "AwaitingRelease"
    <3>1. /\ t \in Entity /\ t.state = "AwaitingRelease" /\ t.l1 = s.l1 /\ t.thread = s.thread
          /\ t.sentFrame = s.sentFrame /\ Grows(s.tx, t.tx, Quiet)
      BY <2>1, <2>2, <2>3 DEF Says, Kept
    <3>2. Grows(s.tx, t.tx, Dataless)
      BY <3>1, AnswerKinds, GrowsMore
    <3>3. ~New(s) /\ ~Up(s) /\ ~New(t) /\ ~Up(t)
      BY <2>3, <3>1 DEF New, Up, inMultiframe
    <3>4. StationOK(t)
      BY <2>3, <3>1, <3>3 DEF StationOK
    <3> QED  BY <1>6, <3>2, <3>3, <3>4 DEF StationHears, t
  <2>4. CASE s.state # "AwaitingRelease"
    <3>1. Closes(s, t, Idle) \/ (Up(s) /\ Closes(s, t, Quiet))
      BY <1>1, <2>1, <2>4 DEF inMultiframe, Up, Entity, LAPDState
    <3>2. StationOK(t) /\ StationStep(s, t)
      BY <3>1, StationCloses
    <3> QED  BY <3>2 DEF StationHears, t
  <2> QED  BY <2>3, <2>4
<1> QED  BY <1>2, <1>3, <1>4, <1>5, <1>6

\* The station receives a SABM: it starts a link, echoes, resets its window or refuses.
LEMMA StationHearsSABM ==
  ASSUME SAPI = 0, NEW s, StationOK(s), s.l1 = "open", NEW f \in Frame, f.type = "SABM"
  PROVE  StationOK(receiveUFrameSABM(s, f)) /\ StationHears(s, receiveUFrameSABM(s, f), f)
<1> DEFINE c == clearCounters(s)
           cleared == [c EXCEPT !.estInProgress = TRUE, !.l3 = "ESTABLISH"]
           plain == [cleared EXCEPT !.state = "LinkEstablished"]
           contending == [cleared EXCEPT !.state = "ContentionResolution", !.check = sumOf(f),
                                         !.got = <<f.data>>]
           echoed == sendUFrameUA(s, f)
           up == [s EXCEPT !.state = "LinkEstablished"]
           t == receiveUFrameSABM(s, f)
<1>1. s \in Entity /\ f.pf \in BOOLEAN
  BY DEF StationOK, Frame
<1>2. StationOK(s) /\ StationStep(s, s)
  BY <1>1, SaysNothing, StationSays
<1>3. CASE ~f.pf \/ (s.state = "ContentionResolution" /\ sumOf(f) # s.check)
  <2>1. t = s
    BY <1>3 DEF receiveUFrameSABM
  <2> QED  BY <1>2, <2>1 DEF StationHears
<1>4. CASE f.pf /\ s.state = "LinkReleased"
  <2> DEFINE o == IF f.data = <<>> THEN plain ELSE contending
  <2>1. t = sendUFrameUA(o, f)
    BY <1>4 DEF receiveUFrameSABM
  <2>2. t \in Entity
    BY <1>1, receiveUFrameSABMType
  <2>3. /\ o.state \in {"LinkEstablished", "ContentionResolution"} /\ o.VS = 0 /\ o.VA = 0
        /\ ~o.T200 /\ o.estInProgress /\ o.l1 = s.l1 /\ o.thread = s.thread
        /\ o.sentFrame = s.sentFrame /\ o.tx = s.tx
    BY <1>1 DEF clearCounters, Entity
  <2>4. o \in Entity
    <3>1. c \in Entity
      BY <1>1, clearCountersType
    <3>2. plain \in Entity
      BY <3>1 DEF Entity, LAPDState
    <3>3. sumOf(f) \in Nat /\ <<f.data>> \in Seq(Seq(Segment))
      <4>1. f.data \in Seq(Segment)
        BY DEF Frame
      <4>2. f.data # <<>> => f.data[1] \in Segment
        BY <4>1
      <4> QED  BY <4>1, <4>2, EntityAssumption DEF sumOf
    <3>4. contending \in Entity
      BY <3>1, <3>3 DEF Entity, LAPDState
    <3> QED  BY <3>2, <3>4
  <2> HIDE DEF o, t
  <2>5. Says(o, t, Quiet)
    BY <1>1, <2>1, <2>4, AnswersSay
  <2>6. /\ Up(t) /\ t.VS = 0 /\ t.VA = 0 /\ ~t.T200 /\ t.estInProgress /\ t.l1 = s.l1
        /\ t.thread = s.thread /\ t.sentFrame = s.sentFrame /\ Grows(s.tx, t.tx, Quiet)
    BY <2>3, <2>5 DEF Says, Kept, Up, inMultiframe
  <2>7. StationOK(t)
    BY <2>2, <2>6 DEF StationOK, Up, inMultiframe
  <2>8. New(s) /\ Grows(s.tx, t.tx, Dataless)
    BY <1>4, <2>6, AnswerKinds, GrowsMore DEF New
  <2> QED  BY <2>6, <2>7, <2>8 DEF StationHears, t
<1>5. CASE f.pf /\ s.state = "ContentionResolution" /\ sumOf(f) = s.check
  <2>1. t = sendUFrameUA(up, f)
    BY <1>5 DEF receiveUFrameSABM
  <2>2. /\ up \in Entity /\ up.state = "LinkEstablished" /\ up.VS = s.VS /\ up.VA = s.VA
        /\ up.T200 = s.T200 /\ up.estInProgress = s.estInProgress /\ up.l1 = s.l1
        /\ up.thread = s.thread /\ up.sentFrame = s.sentFrame /\ up.tx = s.tx
    BY <1>1 DEF Entity, LAPDState
  <2> HIDE DEF up, t
  <2>3. StationOK(up) /\ Up(up) /\ Up(s)
    BY <1>5, <2>2 DEF StationOK, Up, inMultiframe
  <2>4. StationOK(t) /\ StationStep(up, t)
    <3>1. Says(up, t, Quiet)
      BY <1>1, <2>1, <2>2, AnswersSay
    <3> QED  BY <2>3, <3>1, StationSays
  <2>5. StationStep(s, t)
    BY <2>2, <2>3, <2>4 DEF StationStep
  <2> QED  BY <2>4, <2>5 DEF StationHears, t
<1>6. CASE f.pf /\ s.state = "AwaitingRelease"
  <2>1. t = sendUFrameDM(s, f.pf)
    BY <1>6 DEF receiveUFrameSABM
  <2>2. Says(s, t, Idle)
    BY <1>1, <2>1, AnswersSay
  <2> HIDE DEF t
  <2> QED  BY <2>2, StationSays DEF StationHears, t
<1>7. CASE f.pf /\ s.state = "LinkEstablished"
  <2>1. t = IF s.estInProgress THEN echoed
            ELSE IF f.data # <<>> THEN abnormalRelease(s) ELSE clearCounters(echoed)
    BY <1>7 DEF receiveUFrameSABM
  <2>2. Says(s, echoed, Quiet) /\ Up(s)
    BY <1>1, <1>7, AnswersSay DEF Up, inMultiframe
  <2> HIDE DEF echoed, t
  <2>3. CASE s.estInProgress
    BY <2>1, <2>2, <2>3, StationSays DEF StationHears, t
  <2>4. CASE ~s.estInProgress /\ f.data # <<>>
    <3>1. Closes(s, t, Idle)
      BY <1>1, <2>1, <2>4, releasesClose
    <3> QED  BY <3>1, StationCloses DEF StationHears, t
  <2>5. CASE ~s.estInProgress /\ f.data = <<>>
    <3>1. t = clearCounters(echoed) /\ echoed \in Entity
      BY <2>1, <2>2, <2>5 DEF Says
    <3>2. t \in Entity
      BY <3>1, clearCountersType
    <3>3. /\ t.state = echoed.state /\ t.VS = 0 /\ t.VA = 0 /\ ~t.T200 /\ t.l1 = echoed.l1
          /\ t.thread = echoed.thread /\ t.sentFrame = echoed.sentFrame /\ t.tx = echoed.tx
      BY <3>1 DEF clearCounters, Entity
    <3>4. /\ t.state = s.state /\ t.VS = 0 /\ t.VA = 0 /\ ~t.T200 /\ t.l1 = s.l1
          /\ t.thread = s.thread /\ t.sentFrame = s.sentFrame /\ Grows(s.tx, t.tx, Quiet)
      BY <2>2, <3>3 DEF Says, Kept
    <3>5. Up(t) /\ StationOK(t)
      BY <1>7, <3>2, <3>4 DEF StationOK, Up, inMultiframe
    <3>6. Grows(s.tx, t.tx, Dataless)
      BY <3>4, AnswerKinds, GrowsMore
    <3> QED  BY <2>2, <2>5, <3>4, <3>5, <3>6 DEF StationHears, t
  <2> QED  BY <2>3, <2>4, <2>5
<1>8. s.state \in {"LinkReleased", "AwaitingRelease", "LinkEstablished", "ContentionResolution"}
  BY <1>1 DEF StationOK, Entity, LAPDState
<1> QED  BY <1>1, <1>3, <1>4, <1>5, <1>6, <1>7, <1>8

\* The station receives any frame on an open channel.
LEMMA StationreceiveFrame ==
  ASSUME SAPI = 0, NEW s, StationOK(s), s.l1 = "open", NEW f \in Frame,
         Up(s) /\ f.type \in Ack => f.nr \in {s.VA, s.VS}
  PROVE  StationOK(receiveFrame(s, f)) /\ StationHears(s, receiveFrame(s, f), f)
<1>1. f.type \in {"I", "RR", "REJ", "DISC", "UA", "DM", "UI", "SABM"}
  BY DEF Frame, FrameType
<1>2. CASE f.type \in Ack
  <2>1. receiveFrame(s, f) = IF f.type = "I" THEN receiveIFrame(s, f) ELSE receiveSFrame(s, f)
    BY <1>2 DEF receiveFrame, Ack
  <2> QED  BY <1>2, <2>1, StationHearsNumbered
<1>3. CASE f.type \notin Ack
  <2>1. /\ f.type = "UA" => receiveFrame(s, f) = receiveUFrameUA(s, f)
        /\ f.type = "DM" => receiveFrame(s, f) = receiveUFrameDM(s, f)
        /\ f.type = "DISC" => receiveFrame(s, f) = receiveUFrameDISC(s, f)
        /\ f.type = "SABM" => receiveFrame(s, f) = receiveUFrameSABM(s, f)
        /\ f.type = "UI" => receiveFrame(s, f) = s
    BY DEF receiveFrame
  <2>2. StationOK(s) /\ StationStep(s, s)
    <3>1. s \in Entity
      BY DEF StationOK
    <3> QED  BY <3>1, SaysNothing, StationSays
  <2>3. /\ StationOK(receiveUFrameUA(s, f)) /\ StationStep(s, receiveUFrameUA(s, f))
        /\ StationOK(receiveUFrameDM(s, f)) /\ StationStep(s, receiveUFrameDM(s, f))
        /\ f.type = "DISC" => /\ StationOK(receiveUFrameDISC(s, f))
                              /\ StationHears(s, receiveUFrameDISC(s, f), f)
    BY StationHearsUnnumbered
  <2>4. f.type = "SABM" => /\ StationOK(receiveUFrameSABM(s, f))
                           /\ StationHears(s, receiveUFrameSABM(s, f), f)
    BY StationHearsSABM
  <2> QED  BY <1>1, <1>3, <2>1, <2>2, <2>3, <2>4 DEF StationHears, Ack
<1> QED  BY <1>2, <1>3

\* The station receives any frame: on a closed channel none, on a fresh one the first.
LEMMA StationfromL1 ==
  ASSUME SAPI = 0, NEW s, StationOK(s), NEW f \in Frame,
         Up(s) /\ f.type \in Ack => f.nr \in {s.VA, s.VS}
  PROVE  StationOK(fromL1(s, f)) /\ StationHears(s, fromL1(s, f), f)
<1>1. s \in Entity /\ s.l1 \in {"closed", "fresh", "open"}
  BY DEF StationOK, Entity
<1>2. CASE s.l1 = "closed"
  <2>1. fromL1(s, f) = s /\ StationStep(s, s)
    BY <1>1, <1>2, SaysNothing, StationSays DEF fromL1
  <2> QED  BY <2>1 DEF StationHears
<1>3. CASE s.l1 = "open"
  BY <1>3, StationreceiveFrame DEF fromL1
<1>4. CASE s.l1 = "fresh"
  <2> DEFINE o == [s EXCEPT !.l1 = "open"]
             c == clearCounters(o)
  <2>1. o \in Entity /\ fromL1(s, f) = receiveFrame(c, f)
    BY <1>1, <1>4 DEF fromL1, Entity
  <2>2. c \in Entity
    BY <2>1, clearCountersType
  <2>3. c.state = s.state /\ c.l1 = "open" /\ c.thread = s.thread /\ c.sentFrame = s.sentFrame
        /\ c.tx = s.tx
    BY <1>1 DEF clearCounters, Entity
  <2> HIDE DEF c
  <2>4. StationOK(c) /\ ~Up(c) /\ ~Up(s) /\ (New(c) <=> New(s))
    BY <1>4, <2>2, <2>3 DEF StationOK, Up, inMultiframe, New
  <2>5. StationOK(receiveFrame(c, f)) /\ StationHears(c, receiveFrame(c, f), f)
    BY <2>3, <2>4, StationreceiveFrame
  <2> QED  BY <2>1, <2>3, <2>4, <2>5, StationLike
<1> QED  BY <1>1, <1>2, <1>3, <1>4

\* The station's link as it was, with its timer.
LEMMA StationSame ==
  ASSUME NEW s, StationOK(s), NEW t, Same(s, t), t.tx = s.tx,
         ~Up(s) \/ (t.T200 = s.T200 /\ t.sentFrame = s.sentFrame),
         t.sentFrame.type # "SABM", t.thread \notin {"establish", "sabm", "sabmT200"}
  PROVE  StationOK(t) /\ (StationInv(s) => StationInv(t)) /\ StationStep(s, t)
<1>1. s \in Entity
  BY DEF StationOK
<1>2. \A A : Grows(s.tx, t.tx, A)
  BY <1>1, SaysNothing DEF Says
<1>3. (Up(t) <=> Up(s)) /\ (New(t) <=> New(s))
  BY SamePhone
<1>4. StationOK(t)
  BY <1>3 DEF StationOK, Same
<1>5. StationInv(s) => StationInv(t)
  BY <1>3, <1>4 DEF StationInv, Same
<1> QED  BY <1>2, <1>3, <1>4, <1>5 DEF StationStep, Same

\* The station sends its outstanding I-frame again, as it was, or gives its link up.
LEMMA StationT200 ==
  ASSUME SAPI = 0, NEW s, StationOK(s), s.T200
  PROVE  /\ StationOK(T200Expiration(s, s.sentFrame))
         /\ StationStep(s, T200Expiration(s, s.sentFrame))
<1> DEFINE f == s.sentFrame
           t == T200Expiration(s, f)
<1>1. s \in Entity /\ f \in Frame
  BY DEF StationOK, Entity
<1>2. \/ Closes(s, t, Idle)
      \/ /\ s.state = "LinkReleased"
         /\ Same(s, t) /\ t.thread = s.thread /\ t.sentFrame = s.sentFrame /\ ~t.T200
         /\ t.tx = s.tx
      \/ /\ s.state \notin {"LinkReleased", "AwaitingRelease"}
         /\ Same(s, t) /\ t.thread = s.thread /\ t.sentFrame = s.sentFrame /\ t.T200
         /\ Grows(s.tx, t.tx, {f})
  BY <1>1, T200Does
<1> HIDE DEF t
<1>3. CASE Closes(s, t, Idle)
  BY <1>3, StationCloses DEF t
<1>4. CASE /\ s.state = "LinkReleased"
           /\ Same(s, t) /\ t.thread = s.thread /\ t.sentFrame = s.sentFrame /\ ~t.T200
           /\ t.tx = s.tx
  <2>1. ~Up(s) /\ t.sentFrame.type # "SABM" /\ t.thread \notin {"establish", "sabm", "sabmT200"}
    BY <1>4 DEF Up, inMultiframe, StationOK
  <2> QED  BY <1>4, <2>1, StationSame DEF t
<1>5. CASE /\ s.state \notin {"LinkReleased", "AwaitingRelease"}
           /\ Same(s, t) /\ t.thread = s.thread /\ t.sentFrame = s.sentFrame /\ t.T200
           /\ Grows(s.tx, t.tx, {f})
  <2>1. Up(s) /\ Up(t)
    BY <1>1, <1>5 DEF Up, inMultiframe, StationOK, Entity, LAPDState, Same
  <2>2. s.VS # s.VA /\ s.VS = Next8(s.VA) /\ f.type = "I" /\ f.ns = s.VA
    BY <2>1 DEF StationOK
  <2>3. StationOK(t)
    BY <1>5, <2>1 DEF StationOK, Same
  <2> DEFINE B == {x \in Frame : x.type # "SABM" /\ (x.type = "I" => x.ns = t.VA /\ t.VS = Next8(t.VA))}
  <2>4. {f} \subseteq B
    BY <1>1, <1>5, <2>2 DEF Same
  <2> HIDE DEF f
  <2>5. Grows(s.tx, t.tx, B)
    BY <1>5, <2>4, GrowsMore
  <2> QED  BY <1>5, <2>1, <2>3, <2>5 DEF StationStep, Same, t, f
<1> QED  BY <1>2, <1>3, <1>4, <1>5

\* The station's thread sends a segment once the last one was acknowledged.
LEMMA StationSegment ==
  ASSUME NEW s, StationInv(s), s.thread = "data", s.todo # <<>>, ackWaitOver(s)
  PROVE  StationInv(sendSegment(s)) /\ StationStep(s, sendSegment(s))
<1> DEFINE t == sendSegment(s)
           I == {f \in Frame : f.type = "I" /\ f.ns = s.VS /\ f.nr = s.VR}
<1>1. s \in Entity /\ StationOK(s)
  BY DEF StationInv, StationOK
<1>2. \/ Turns(s, t, "idle")
      \/ /\ inMultiframe(s) /\ t \in Entity
         /\ t.state = s.state /\ t.VA = s.VA /\ t.VR = s.VR /\ t.l1 = s.l1
         /\ t.estInProgress = s.estInProgress /\ t.asleep = s.asleep
         /\ t.thread \in {"idle", s.thread}
         /\ t.VS = Next8(s.VS) /\ t.T200
         /\ t.sentFrame.type = "I" /\ t.sentFrame.ns = s.VS
         /\ Grows(s.tx, t.tx, I)
  BY <1>1, SegmentDoes
<1> HIDE DEF t, I
<1>3. CASE Turns(s, t, "idle")
  <2>1. t.sentFrame.type # "SABM"
    BY <1>1, <1>3 DEF Turns, StationOK
  <2> QED  BY <1>1, <1>3, <2>1, StationSame DEF Turns, t, StationOK
<1>4. CASE /\ inMultiframe(s) /\ t \in Entity
           /\ t.state = s.state /\ t.VA = s.VA /\ t.VR = s.VR /\ t.l1 = s.l1
           /\ t.estInProgress = s.estInProgress /\ t.asleep = s.asleep
           /\ t.thread \in {"idle", s.thread}
           /\ t.VS = Next8(s.VS) /\ t.T200
           /\ t.sentFrame.type = "I" /\ t.sentFrame.ns = s.VS
           /\ Grows(s.tx, t.tx, I)
  <2>1. s.VS = s.VA /\ Up(s) /\ Up(t) /\ s.VA \in SeqNo
    BY <1>1, <1>4 DEF ackWaitOver, Up, inMultiframe, Entity
  <2>2. t.VS = Next8(t.VA) /\ t.VS # t.VA /\ t.sentFrame.ns = t.VA
    BY <1>4, <2>1, NextDiffers
  <2>3. StationInv(t)
    <3>1. StationOK(t)
      BY <1>1, <1>4, <2>1, <2>2 DEF StationOK, inMultiframe
    <3> QED  BY <1>4, <2>1, <3>1 DEF StationInv
  <2> DEFINE B == {f \in Frame : f.type # "SABM" /\ (f.type = "I" => f.ns = t.VA /\ t.VS = Next8(t.VA))}
  <2>4. I \subseteq B
    BY <1>4, <2>1, <2>2 DEF I
  <2>5. Grows(s.tx, t.tx, B)
    BY <1>4, <2>4, GrowsMore
  <2>6. t.VA = s.VA /\ t.VS = Next8(s.VA) /\ (t.estInProgress <=> s.estInProgress)
    BY <1>4, <2>1
  <2> QED  BY <2>1, <2>3, <2>5, <2>6 DEF StationStep, t
<1> QED  BY <1>2, <1>3, <1>4

\* The station's layer 3 hands over a message.
LEMMA StationData ==
  ASSUME SAPI = 0, NEW s, StationInv(s), NEW msg \in Seq(Segment), msg # <<>>
  PROVE  StationInv(sendMultiframeData(s, msg)) /\ StationStep(s, sendMultiframeData(s, msg))
<1> DEFINE begun == [s EXCEPT !.discard = FALSE, !.todo = msg, !.thread = "data"]
<1>1. s \in Entity /\ StationOK(s)
  BY DEF StationInv, StationOK
<1>2. /\ Same(s, begun) /\ begun.tx = s.tx /\ begun.T200 = s.T200 /\ begun.sentFrame = s.sentFrame
      /\ begun.thread = "data" /\ begun.todo = msg
  <2>1. "data" \in Thread
    BY DEF Thread
  <2> QED  BY <1>1, <2>1 DEF Same, Entity
<1>3. \/ sendMultiframeData(s, msg) \in {abnormalRelease(s), begun}
      \/ ackWaitOver(begun) /\ sendMultiframeData(s, msg) = sendSegment(begun)
  BY DEF sendMultiframeData
<1> HIDE DEF begun
<1>4. StationInv(begun) /\ StationStep(s, begun)
  <2>1. begun.sentFrame.type # "SABM"
    BY <1>1, <1>2 DEF StationOK
  <2> QED  BY <1>1, <1>2, <2>1, StationSame
<1>5. ackWaitOver(begun) => StationInv(sendSegment(begun)) /\ StationStep(begun, sendSegment(begun))
  BY <1>2, <1>4, StationSegment
<1>6. ackWaitOver(begun) => StationStep(s, sendSegment(begun))
  <2>1. (Up(begun) <=> Up(s)) /\ (New(begun) <=> New(s))
    BY <1>2, SamePhone
  <2> QED  BY <1>2, <1>5, <2>1 DEF StationStep, Same
<1>7. Closes(s, abnormalRelease(s), Idle)
  BY <1>1, releasesClose
<1>8. StationInv(abnormalRelease(s)) /\ StationStep(s, abnormalRelease(s))
  BY <1>1, <1>7, StationCloses DEF StationInv
<1> QED  BY <1>3, <1>4, <1>5, <1>6, <1>8

\* The station's layer 3 asks for a release, its thread sends the DISC and finds the link
\* released.
LEMMA StationReleases ==
  ASSUME SAPI = 0, NEW s, StationInv(s)
  PROVE  /\ StationInv(releaseRequest(s)) /\ StationStep(s, releaseRequest(s))
         /\ StationInv(abnormalRelease(s)) /\ StationStep(s, abnormalRelease(s))
         /\ StationInv(hardRelease(s)) /\ StationStep(s, hardRelease(s))
         /\ s.l1 # "fresh" => StationInv(sendDISC(s)) /\ StationStep(s, sendDISC(s))
         /\ StationInv([s EXCEPT !.thread = "idle"]) /\ StationStep(s, [s EXCEPT !.thread = "idle"])
<1>1. s \in Entity /\ StationOK(s)
  BY DEF StationInv, StationOK
<1>2. ASSUME NEW thread \in {"idle", "release"}
      PROVE  /\ StationInv([s EXCEPT !.thread = thread])
             /\ StationStep(s, [s EXCEPT !.thread = thread])
  <2> DEFINE t == [s EXCEPT !.thread = thread]
  <2>1. Turns(s, t, thread)
    BY <1>1, ThreadTurns DEF Thread
  <2> HIDE DEF t
  <2>2. t.sentFrame.type # "SABM"
    BY <1>1, <2>1 DEF Turns, StationOK
  <2> QED  BY <1>1, <2>1, <2>2, StationSame DEF Turns, t, StationOK
<1>3. StationStep(s, s)
  BY <1>1, SaysNothing, StationSays
<1>4. Closes(s, abnormalRelease(s), Idle) /\ Closes(s, hardRelease(s), Idle)
  BY <1>1, releasesClose
<1>5. ASSUME s.l1 # "fresh"
      PROVE  StationInv(sendDISC(s)) /\ StationStep(s, sendDISC(s))
  <2> DEFINE t == sendDISC(s)
             D == {f \in Frame : f.type = "DISC"}
             B == {f \in Frame : f.type # "SABM"}
  <2>1. /\ t \in Entity /\ t.state = "AwaitingRelease" /\ t.thread = "disc" /\ t.l1 = s.l1
        /\ t.sentFrame.type = "DISC" /\ Grows(s.tx, t.tx, D)
    BY <1>1, DISCDoes
  <2>2. D \subseteq Silent /\ D \subseteq B
    BY DEF Silent
  <2> HIDE DEF t, D, B
  <2>3. Grows(s.tx, t.tx, Silent) /\ Grows(s.tx, t.tx, B)
    BY <2>1, <2>2, GrowsMore
  <2>4. StationInv(t) /\ ~Up(t) /\ ~New(t)
    BY <1>5, <2>1 DEF StationInv, StationOK, Up, inMultiframe, New
  <2> QED  BY <2>3, <2>4 DEF StationStep, t, B
<1>6. releaseRequest(s) \in {s, [s EXCEPT !.thread = "release"]}
  BY DEF releaseRequest
<1>7. \A t : Closes(s, t, Idle) => StationInv(t) /\ StationStep(s, t)
  BY <1>1, StationCloses DEF StationInv
<1> QED  BY <1>2, <1>3, <1>4, <1>5, <1>6, <1>7

----------------------------------------------------------------------------
(* The steps of the system: one end moves, the other does not *)

\* The top of the service loop, with SAP0 up, changes nothing but whether the loop sleeps; it
\* does not while there is a link.
LEMMA TurnOnlySleeps ==
  ASSUME NEW e \in End, NEW s \in Entity, sap0[e]
  PROVE  LET t == Turn(e, s)
         IN  /\ t \in Entity
             /\ t.state = s.state /\ t.VS = s.VS /\ t.VA = s.VA /\ t.VR = s.VR
             /\ t.T200 = s.T200 /\ t.estInProgress = s.estInProgress /\ t.sentFrame = s.sentFrame
             /\ t.thread = s.thread /\ t.l1 = s.l1 /\ t.tx = s.tx
             /\ Up(t) => ~t.asleep
<1> DEFINE u == topOfServiceLoop(s, ~sap0[e])
           t == Turn(e, s)
<1>1. t \in Entity
  BY TurnType
<1>2. u = [s EXCEPT !.state = s.state, !.asleep = (s.state = "LinkReleased" /\ ~s.T200)]
  BY DEF topOfServiceLoop
<1>3. /\ u.state = s.state /\ u.VS = s.VS /\ u.VA = s.VA /\ u.VR = s.VR
      /\ u.T200 = s.T200 /\ u.estInProgress = s.estInProgress /\ u.sentFrame = s.sentFrame
      /\ u.thread = s.thread /\ u.l1 = s.l1 /\ u.tx = s.tx
      /\ u.asleep = (s.state = "LinkReleased" /\ ~s.T200)
      /\ t = [u EXCEPT !.asleep = @ /\ e \notin Standard]
      /\ "asleep" \in DOMAIN u
  BY <1>2 DEF Turn, Sleeps, Entity
<1> HIDE DEF u, t
<1>4. /\ t.state = u.state /\ t.VS = u.VS /\ t.VA = u.VA /\ t.VR = u.VR
      /\ t.T200 = u.T200 /\ t.estInProgress = u.estInProgress /\ t.sentFrame = u.sentFrame
      /\ t.thread = u.thread /\ t.l1 = u.l1 /\ t.tx = u.tx
      /\ t.asleep = (u.asleep /\ e \notin Standard)
  BY <1>3
<1>5. Up(t) => ~t.asleep
  BY <1>3, <1>4 DEF Up, inMultiframe
<1> QED  BY <1>1, <1>3, <1>4, <1>5 DEF t

\* What was said of an end before that turn holds after it.
LEMMA TurnKeeps ==
  ASSUME NEW e \in End, NEW s \in Entity, sap0[e]
  PROVE  LET t == Turn(e, s)
         IN  /\ PhoneInv(s) => PhoneInv(t)
             /\ \A r, f : PhoneHears(r, s, f) => PhoneHears(r, t, f)
             /\ \A r : PhoneStep(r, s) => PhoneStep(r, t)
             /\ StationOK(s) => StationInv(t)
             /\ \A r, f : StationHears(r, s, f) => StationHears(r, t, f)
             /\ \A r : StationStep(r, s) => StationStep(r, t)
<1> DEFINE t == Turn(e, s)
<1>1. /\ t \in Entity
      /\ t.state = s.state /\ t.VS = s.VS /\ t.VA = s.VA /\ t.VR = s.VR
      /\ t.T200 = s.T200 /\ t.estInProgress = s.estInProgress /\ t.sentFrame = s.sentFrame
      /\ t.thread = s.thread /\ t.l1 = s.l1 /\ t.tx = s.tx
      /\ Up(t) => ~t.asleep
  BY TurnOnlySleeps
<1> HIDE DEF t
<1>2. (Up(t) <=> Up(s)) /\ (New(t) <=> New(s)) /\ (Calling(t) <=> Calling(s))
  BY <1>1 DEF Up, inMultiframe, New, Calling
<1>3. PhoneInv(s) => PhoneInv(t)
  BY <1>1, <1>2 DEF PhoneInv
<1>4. StationOK(s) => StationInv(t)
  BY <1>1, <1>2 DEF StationOK, StationInv
<1>5. \A r : PhoneStep(r, s) => PhoneStep(r, t)
  BY <1>1, <1>2 DEF PhoneStep
<1>6. \A r, f : PhoneHears(r, s, f) => PhoneHears(r, t, f)
  BY <1>1, <1>2, <1>5 DEF PhoneHears
<1>7. \A r : StationStep(r, s) => StationStep(r, t)
  BY <1>1, <1>2 DEF StationStep
<1>8. \A r, f : StationHears(r, s, f) => StationHears(r, t, f)
  BY <1>1, <1>2, <1>7 DEF StationHears
<1> QED  BY <1>3, <1>4, <1>5, <1>6, <1>7, <1>8 DEF t

\* The types of the state and the link of WindowInv.
LEMMA WindowState ==
  ASSUME LinkInv, WindowInv
  PROVE  /\ ent \in [End -> Entity] /\ "BTS" \in End /\ "MS" \in End
         /\ WindowLink(ent["BTS"], ent["MS"]) /\ PhoneInv(ent["MS"]) /\ StationInv(ent["BTS"])
         /\ StationOK(ent["BTS"]) /\ \A e \in End : sap0[e] /\ ent[e].tx \in Seq(Frame)
<1>1. \A e \in End : ent[e].tx \in Seq(Frame)
  BY DEF LinkInv, TypeOK, Entity
<1> QED  BY <1>1 DEF LinkInv, TypeOK, WindowInv, WindowLink, StationInv, End

\* A step of the phone alone.
LEMMA PhoneMoves ==
  ASSUME LinkInv, WindowInv, NEW n, PhoneInv(n), PhoneStep(ent["MS"], n),
         ent' = [ent EXCEPT !["MS"] = n], sap0' = sap0
  PROVE  WindowInv'
<1>1. WindowLink(ent["BTS"], n)
  BY WindowState, PhoneStepKeeps
<1>2. ent'["BTS"] = ent["BTS"] /\ ent'["MS"] = n
  BY WindowState
<1> QED  BY <1>1, <1>2 DEF WindowInv

\* A step of the station alone.
LEMMA StationMoves ==
  ASSUME LinkInv, WindowInv, NEW c, StationInv(c), StationStep(ent["BTS"], c),
         ent' = [ent EXCEPT !["BTS"] = c], sap0' = sap0
  PROVE  WindowInv'
<1>1. WindowLink(c, ent["MS"])
  BY WindowState, StationStepKeeps
<1>2. ent'["MS"] = ent["MS"] /\ ent'["BTS"] = c
  BY WindowState
<1> QED  BY <1>1, <1>2 DEF WindowInv

\* What the phone reads, once or again, keeps the link.
LEMMA PhoneReads ==
  ASSUME SAPI = 0, PromptTimer, LinkInv, WindowInv, MayReceive("MS"), ent["BTS"].tx # <<>>
  PROVE  WindowLink(ent["BTS"], Turn("MS", fromL1(ent["MS"], Head(ent["BTS"].tx))))
<1> DEFINE b == ent["BTS"]
           m == ent["MS"]
           f == Head(b.tx)
           n == fromL1(m, f)
<1>1. /\ WindowLink(b, m) /\ PhoneInv(m) /\ sap0["MS"] /\ "MS" \in End /\ b.tx \in Seq(Frame)
      /\ m \in Entity
  BY WindowState, LinkTypes
<1>2. f \in Frame /\ f = b.tx[1] /\ Len(b.tx) >= 1
  BY <1>1
<1>3. f.type # "SABM"
  <2>1. 1 \in 1 .. Len(b.tx)
    BY <1>1, <1>2
  <2> QED  BY <1>1, <1>2, <2>1 DEF WindowLink, Beginning, Lacks
<1>4. m.thread \notin {"sabm", "sabmT200"}
  BY DEF MayReceive
<1> HIDE DEF b, m, f
<1>5. PhoneInv(n) /\ PhoneHears(m, n, f)
  BY <1>1, <1>2, <1>3, <1>4, PhonefromL1
<1>6. n \in Entity
  BY <1>5 DEF PhoneInv
<1> HIDE DEF n
<1>7. PhoneInv(Turn("MS", n)) /\ PhoneHears(m, Turn("MS", n), f)
  BY <1>1, <1>5, <1>6, TurnKeeps
<1>8. WindowLink(b, Turn("MS", n))
  BY <1>1, <1>2, <1>7, PhoneHearsKeeps
<1> QED  BY <1>8 DEF n, f, b, m

\* What the station reads keeps the link.
LEMMA StationReads ==
  ASSUME SAPI = 0, LinkInv, WindowInv, ent["MS"].tx # <<>>
  PROVE  WindowLink(Turn("BTS", fromL1(ent["BTS"], Head(ent["MS"].tx))), ent["MS"])
<1> DEFINE b == ent["BTS"]
           m == ent["MS"]
           f == Head(m.tx)
           c == fromL1(b, f)
<1>1. /\ WindowLink(b, m) /\ StationOK(b) /\ sap0["BTS"] /\ "BTS" \in End /\ m.tx \in Seq(Frame)
      /\ b \in Entity
  BY WindowState, LinkTypes
<1>2. f \in Frame /\ f = m.tx[1] /\ Len(m.tx) >= 1
  BY <1>1
<1>3. Up(b) /\ f.type \in Ack => f.nr \in {b.VA, b.VS}
  <2>1. 1 \in 1 .. Len(m.tx)
    BY <1>1, <1>2
  <2> QED  BY <1>1, <1>2, <2>1 DEF WindowLink, Uplink
<1> HIDE DEF b, m, f
<1>4. StationOK(c) /\ StationHears(b, c, f)
  BY <1>1, <1>2, <1>3, StationfromL1
<1>5. c \in Entity
  BY <1>4 DEF StationOK
<1> HIDE DEF c
<1>6. StationInv(Turn("BTS", c)) /\ StationHears(b, Turn("BTS", c), f)
  BY <1>1, <1>4, <1>5, TurnKeeps
<1>7. WindowLink(Turn("BTS", c), m)
  BY <1>1, <1>2, <1>6, StationHearsKeeps
<1> QED  BY <1>7 DEF c, f, b, m

\* Receiving, receiving again and losing a frame keep WindowInv.
LEMMA ReceiveWindowInv ==
  ASSUME SAPI = 0, PromptTimer, LinkInv, WindowInv, NEW e \in End,
         Receive(e) \/ ReceiveRepeated \/ Lose(e)
  PROVE  WindowInv'
<1> DEFINE b == ent["BTS"]
           m == ent["MS"]
           n == Turn("MS", fromL1(m, Head(b.tx)))
           c == Turn("BTS", fromL1(b, Head(m.tx)))
<1>1. /\ ent \in [End -> Entity] /\ "BTS" \in End /\ "MS" \in End /\ WindowLink(b, m)
      /\ b \in Entity /\ m \in Entity /\ sap0' = sap0 /\ \A x \in End : sap0[x]
      /\ e \in {"BTS", "MS"}
  <2>1. ent \in [End -> Entity] /\ "BTS" \in End /\ "MS" \in End /\ WindowLink(b, m)
        /\ \A x \in End : sap0[x]
    BY WindowState
  <2> QED  BY <2>1, LinkTypes DEF Receive, ReceiveRepeated, Lose, End
<1>2. ASSUME NEW x, NEW y, WindowLink(x, y), ent'["BTS"] = x, ent'["MS"] = y
      PROVE  WindowInv'
  BY <1>1, <1>2 DEF WindowInv
<1>3. CASE Receive("MS")
  <2>1. /\ MayReceive("MS") /\ b.tx # <<>>
        /\ ent' = [ent EXCEPT !["BTS"].tx = Tail(@), !["MS"] = n]
    BY <1>3 DEF Receive, Peer
  <2>2. WindowLink(b, n)
    BY <2>1, PhoneReads
  <2>3. ent'["BTS"] = [b EXCEPT !.tx = Tail(@)] /\ ent'["MS"] = n
    BY <1>1, <2>1
  <2> HIDE DEF n, b
  <2>4. WindowLink([b EXCEPT !.tx = Tail(@)], n)
    BY <2>1, <2>2, DownlinkDrops
  <2> QED  BY <1>2, <2>3, <2>4
<1>4. CASE Receive("BTS")
  <2>1. /\ m.tx # <<>>
        /\ ent' = [ent EXCEPT !["MS"].tx = Tail(@), !["BTS"] = c]
    BY <1>4 DEF Receive, Peer
  <2>2. WindowLink(c, m)
    BY <2>1, StationReads
  <2>3. ent'["MS"] = [m EXCEPT !.tx = Tail(@)] /\ ent'["BTS"] = c
    BY <1>1, <2>1
  <2> HIDE DEF c, m
  <2>4. WindowLink(c, [m EXCEPT !.tx = Tail(@)])
    BY <2>1, <2>2, UplinkDrops
  <2> QED  BY <1>2, <2>3, <2>4
<1>5. CASE ReceiveRepeated
  <2>1. /\ MayReceive("MS") /\ b.tx # <<>> /\ ent' = [ent EXCEPT !["MS"] = n]
    BY <1>1, <1>5 DEF ReceiveRepeated
  <2>2. WindowLink(b, n)
    BY <2>1, PhoneReads
  <2>3. ent'["BTS"] = b /\ ent'["MS"] = n
    BY <1>1, <2>1
  <2> QED  BY <1>2, <2>2, <2>3
<1>6. CASE Lose("MS")
  <2>1. m.tx # <<>> /\ ent'["BTS"] = b /\ ent'["MS"] = [m EXCEPT !.tx = Tail(@)]
    BY <1>1, <1>6 DEF Lose
  <2> HIDE DEF b, m
  <2> QED  BY <1>1, <1>2, <2>1, UplinkDrops
<1>7. CASE Lose("BTS")
  <2>1. b.tx # <<>> /\ ent'["MS"] = m /\ ent'["BTS"] = [b EXCEPT !.tx = Tail(@)]
    BY <1>1, <1>7 DEF Lose
  <2> HIDE DEF b, m
  <2> QED  BY <1>1, <1>2, <2>1, DownlinkDrops
<1> QED  BY <1>1, <1>3, <1>4, <1>5, <1>6, <1>7

\* The expiry of T200 and an idle turn of serviceLoop() keep WindowInv.
LEMMA TimerWindowInv ==
  ASSUME SAPI = 0, "MS" \in Standard, LinkInv, WindowInv, NEW e \in End,
         T200Expires(e) \/ IdleTurn(e)
  PROVE  WindowInv'
<1> DEFINE s == ent[e]
           x == T200Expiration(s, Resent(e))
<1>1. /\ PhoneInv(ent["MS"]) /\ StationOK(ent["BTS"]) /\ sap0[e] /\ s \in Entity
      /\ sap0' = sap0
  BY WindowState DEF T200Expires, IdleTurn
<1>2. \E t \in {s, x} : (t = x => s.T200 \/ t = s) /\ ent' = [ent EXCEPT ![e] = Turn(e, t)]
  BY DEF T200Expires, IdleTurn
<1>3. CASE e = "MS"
  <2>1. \A t : t = s \/ (t = x /\ s.T200) => PhoneInv(t) /\ PhoneStep(s, t)
    <3>1. PhoneInv(s) /\ PhoneStep(s, s)
      BY <1>1, <1>3, SaysNothing, PhoneSays
    <3>2. /\ Resent(e) \in Frame /\ Resent(e).type = s.sentFrame.type
          /\ Resent(e).type = "I" => Resent(e).nr = s.VR
      <4>1. s.sentFrame \in Frame /\ s.VR \in SeqNo
        BY <1>1 DEF Entity
      <4> QED  BY <1>3, <4>1 DEF Resent, Frame
    <3>3. s.T200 => PhoneInv(x) /\ PhoneStep(s, x)
      BY <3>1, <3>2, PhoneT200
    <3> QED  BY <3>1, <3>3
  <2>2. PICK t : (t = s \/ (t = x /\ s.T200)) /\ ent' = [ent EXCEPT ![e] = Turn(e, t)]
    BY <1>2
  <2>3. PhoneInv(t) /\ PhoneStep(s, t)
    BY <2>1, <2>2
  <2>4. t \in Entity
    BY <2>3 DEF PhoneInv
  <2>5. PhoneInv(Turn(e, t)) /\ PhoneStep(s, Turn(e, t))
    BY <1>1, <2>3, <2>4, TurnKeeps
  <2> QED  BY <1>1, <1>3, <2>2, <2>5, PhoneMoves
<1>4. CASE e = "BTS"
  <2>1. \A t : t = s \/ (t = x /\ s.T200) => StationOK(t) /\ StationStep(s, t)
    <3>1. StationOK(s) /\ StationStep(s, s)
      BY <1>1, <1>4, SaysNothing, StationSays
    <3>2. Resent(e) = s.sentFrame
      BY <1>4, LinkAssumption DEF Resent
    <3>3. s.T200 => StationOK(x) /\ StationStep(s, x)
      BY <3>1, <3>2, StationT200
    <3> QED  BY <3>1, <3>3
  <2>2. PICK t : (t = s \/ (t = x /\ s.T200)) /\ ent' = [ent EXCEPT ![e] = Turn(e, t)]
    BY <1>2
  <2>3. StationOK(t) /\ StationStep(s, t)
    BY <2>1, <2>2
  <2>4. t \in Entity
    BY <2>3 DEF StationOK
  <2>5. StationInv(Turn(e, t)) /\ StationStep(s, Turn(e, t))
    BY <1>1, <2>3, <2>4, TurnKeeps
  <2> QED  BY <1>1, <1>4, <2>2, <2>5, StationMoves
<1> QED  BY <1>3, <1>4 DEF End

\* Each request of layer 3 keeps WindowInv; in SAP0 the station's never asks for a link.
LEMMA RequestsWindowInv ==
  ASSUME SAPI = 0, LinkInv, WindowInv, NEW e \in End,
         Establish(e) \/ Release(e) \/ ForceRelease(e) \/ HardRelease(e)
  PROVE  WindowInv'
<1> DEFINE s == ent[e]
<1>1. /\ PhoneInv(ent["MS"]) /\ StationInv(ent["BTS"]) /\ sap0' = sap0
  BY WindowState DEF Establish, Release, ForceRelease, HardRelease, Request
<1>2. CASE e = "MS"
  <2>1. ASSUME NEW t, PhoneInv(t), PhoneStep(s, t), ent' = [ent EXCEPT ![e] = t]
        PROVE  WindowInv'
    BY <1>1, <1>2, <2>1, PhoneMoves
  <2>2. CASE Establish(e)
    <3>1. PhoneInv(establishRequest(s)) /\ PhoneStep(s, establishRequest(s))
      BY <1>1, <1>2, <2>2, PhoneRequests DEF Establish
    <3> QED  BY <2>1, <2>2, <3>1 DEF Establish, Request
  <2>3. CASE Release(e)
    <3>1. PhoneInv(releaseRequest(s)) /\ PhoneStep(s, releaseRequest(s))
      BY <1>1, <1>2, <2>3, PhoneRequests DEF Release
    <3> QED  BY <2>1, <2>3, <3>1 DEF Release, Request
  <2>4. CASE ForceRelease(e)
    <3>1. PhoneInv(abnormalRelease(s)) /\ PhoneStep(s, abnormalRelease(s))
      BY <1>1, <1>2, PhoneRequests
    <3> QED  BY <2>1, <2>4, <3>1 DEF ForceRelease, Request
  <2>5. CASE HardRelease(e)
    <3>1. PhoneInv(hardRelease(s)) /\ PhoneStep(s, hardRelease(s))
      BY <1>1, <1>2, PhoneRequests
    <3> QED  BY <2>1, <2>5, <3>1 DEF HardRelease, Request
  <2> QED  BY <2>2, <2>3, <2>4, <2>5
<1>3. CASE e = "BTS"
  <2>1. ~Establish(e)
    BY <1>3 DEF Establish, MayEstablish
  <2>2. \E t \in {releaseRequest(s), abnormalRelease(s), hardRelease(s)} :
          ent' = [ent EXCEPT ![e] = t]
    BY <2>1 DEF Release, ForceRelease, HardRelease, Request
  <2>3. \A t \in {releaseRequest(s), abnormalRelease(s), hardRelease(s)} :
          StationInv(t) /\ StationStep(s, t)
    BY <1>1, <1>3, StationReleases
  <2> QED  BY <1>1, <1>3, <2>2, <2>3, StationMoves
<1> QED  BY <1>2, <1>3 DEF End

\* Handing over a message keeps WindowInv.
LEMMA DataWindowInv ==
  ASSUME SAPI = 0, LinkInv, WindowInv, NEW e \in End, Data(e)
  PROVE  WindowInv'
<1> DEFINE msg == Message[e][sent[e] + 1]
           t == sendMultiframeData(ent[e], msg)
<1>1. msg \in Seq(Segment) /\ msg # <<>>
  <2>1. Message[e] \in Seq(Seq(Segment) \ {<<>>}) /\ sent[e] \in Nat
    BY LinkAssumption DEF LinkInv, TypeOK
  <2>2. sent[e] + 1 \in 1 .. Len(Message[e])
    BY <2>1, LenProperties DEF Data
  <2>3. msg \in Seq(Segment) \ {<<>>}
    BY <2>1, <2>2, ElementOfSeq
  <2> QED  BY <2>3
<1>2. ent' = [ent EXCEPT ![e] = t] /\ sap0' = sap0 /\ ent[e].thread = "idle"
  BY DEF Data
<1> HIDE DEF msg
<1>3. CASE e = "MS"
  <2>1. PhoneInv(t) /\ PhoneStep(ent[e], t)
    BY <1>1, <1>2, <1>3, WindowState, PhoneData
  <2> HIDE DEF t
  <2> QED  BY <1>2, <1>3, <2>1, PhoneMoves
<1>4. CASE e = "BTS"
  <2>1. StationInv(t) /\ StationStep(ent[e], t)
    BY <1>1, <1>2, <1>4, WindowState, StationData
  <2> HIDE DEF t
  <2> QED  BY <1>2, <1>4, <2>1, StationMoves
<1> QED  BY <1>3, <1>4 DEF End

\* The steps of a blocked layer 3 thread keep WindowInv.
LEMMA ThreadWindowInv ==
  ASSUME SAPI = 0, LinkInv, WindowInv, NEW e \in End, ThreadStep(e)
  PROVE  WindowInv'
<1> DEFINE s == ent[e]
           i == [s EXCEPT !.thread = "idle"]
<1>1. /\ PhoneInv(ent["MS"]) /\ StationInv(ent["BTS"]) /\ StationOK(ent["BTS"])
      /\ s.thread = "data" => s.todo # <<>>
      /\ s.l1 = "fresh" => s.thread # "release"
  BY WindowState DEF LinkInv, EndInv, Fresh
<1>2. /\ sap0' = sap0
      /\ \/ s.thread = "establish" /\ ent' = [ent EXCEPT ![e] = awaitEstablish(s)]
         \/ s.thread = "sabm" /\ ent' = [ent EXCEPT ![e] = writeSABM(s)]
         \/ s.thread = "sabmT200" /\ ent' = [ent EXCEPT ![e] = startSABMTimer(s)]
         \/ s.thread = "data" /\ ackWaitOver(s) /\ ent' = [ent EXCEPT ![e] = sendSegment(s)]
         \/ s.thread = "release" /\ ent' = [ent EXCEPT ![e] = sendDISC(s)]
         \/ s.thread = "disc" /\ ackWaitOver(s) /\ ent' = [ent EXCEPT ![e] = i]
  BY DEF ThreadStep, AwaitEstablish, WriteSABM, StartSABMTimer, SendSegment, SendDISC, Released,
         Continue
<1>3. CASE e = "MS"
  <2>1. /\ s.thread = "establish" => PhoneInv(awaitEstablish(s)) /\ PhoneStep(s, awaitEstablish(s))
        /\ s.thread = "sabm" => PhoneInv(writeSABM(s)) /\ PhoneStep(s, writeSABM(s))
        /\ s.thread = "sabmT200" =>
             PhoneInv(startSABMTimer(s)) /\ PhoneStep(s, startSABMTimer(s))
        /\ s.thread = "data" => PhoneInv(sendSegment(s)) /\ PhoneStep(s, sendSegment(s))
        /\ s.thread = "release" => PhoneInv(sendDISC(s)) /\ PhoneStep(s, sendDISC(s))
        /\ s.thread = "disc" /\ ackWaitOver(s) => PhoneInv(i) /\ PhoneStep(s, i)
    BY <1>1, <1>3, PhoneEstablishes, PhoneSegment, PhoneReleases
  <2> HIDE DEF i
  <2>2. PICK t : PhoneInv(t) /\ PhoneStep(s, t) /\ ent' = [ent EXCEPT ![e] = t]
    BY <1>2, <2>1
  <2> QED  BY <1>2, <1>3, <2>2, PhoneMoves
<1>4. CASE e = "BTS"
  <2>1. s.thread \notin {"establish", "sabm", "sabmT200"}
    BY <1>1, <1>4 DEF StationOK
  <2>2. /\ s.thread = "data" /\ ackWaitOver(s) =>
             StationInv(sendSegment(s)) /\ StationStep(s, sendSegment(s))
        /\ s.thread = "release" => StationInv(sendDISC(s)) /\ StationStep(s, sendDISC(s))
        /\ StationInv(i) /\ StationStep(s, i)
    BY <1>1, <1>4, StationSegment, StationReleases
  <2> HIDE DEF i
  <2>3. PICK t : StationInv(t) /\ StationStep(s, t) /\ ent' = [ent EXCEPT ![e] = t]
    BY <1>2, <2>1, <2>2
  <2> QED  BY <1>2, <1>4, <2>3, StationMoves
<1> QED  BY <1>3, <1>4 DEF End

\* A session starts: two ends without a link, which say that they are idle.
LEMMA OpenedLink ==
  ASSUME SAPI = 0, NEW b \in Entity,
         b.thread \notin {"establish", "sabm", "sabmT200"}, b.sentFrame.type # "SABM"
  PROVE  WindowLink(Opened("BTS", b), Opened("MS", NewEntity))
<1>1. ASSUME NEW e \in End, NEW s \in Entity
      PROVE  LET t == Opened(e, s)
             IN  /\ t \in Entity /\ t.state = "LinkReleased" /\ t.thread = s.thread
                 /\ t.l1 = IF e = "BTS" THEN "fresh" ELSE "open"
                 /\ t.sentFrame = s.sentFrame /\ ~t.T200
                 /\ \A k \in 1 .. Len(t.tx) : t.tx[k] \in Idle
  <2> DEFINE c == clearCounters(s)
             o == [c EXCEPT !.state = "LinkReleased", !.l3 = "RELEASE", !.l1 = "fresh",
                            !.tx = <<>>]
             w == sendIdle(o)
             l1 == IF SAPI = 0 /\ e = "BTS" THEN "fresh" ELSE "open"
             u == [w EXCEPT !.l1 = l1]
             t == Opened(e, s)
  <2>1. t \in Entity
    BY <1>1, OpenedType
  <2>2. /\ o \in Entity /\ o.state = "LinkReleased" /\ o.thread = s.thread /\ ~o.T200
        /\ o.sentFrame = s.sentFrame /\ o.tx = <<>>
    <3>1. c \in Entity /\ c.thread = s.thread /\ ~c.T200 /\ c.sentFrame = s.sentFrame
      <4>1. c \in Entity
        BY <1>1, clearCountersType
      <4> QED  BY <1>1, <4>1 DEF clearCounters, Entity
    <3>2. <<>> \in Seq(Frame) /\ "LinkReleased" \in LAPDState
      BY DEF LAPDState
    <3> HIDE DEF c
    <3>3. o \in Entity
      BY <3>1, <3>2 DEF Entity
    <3> QED  BY <3>1, <3>3 DEF Entity
  <2>3. t = [u EXCEPT !.asleep = @ /\ e \notin Standard]
    BY DEF Opened, Sleeps, open
  <2> HIDE DEF o, t
  <2>4. Says(o, w, Idle)
    BY <2>2, IdleFrameType, AnswersSay
  <2> HIDE DEF w
  <2>5. /\ t.state = w.state /\ t.thread = w.thread /\ t.sentFrame = w.sentFrame /\ t.T200 = w.T200
        /\ t.tx = w.tx /\ t.l1 = l1
    BY <2>3, <2>4 DEF Says, Entity
  <2>6. \A k \in 1 .. Len(t.tx) : t.tx[k] \in Idle
    BY <2>2, <2>4, <2>5 DEF Says, Grows
  <2> QED  BY <2>1, <2>2, <2>4, <2>5, <2>6 DEF Says, Kept, t
<1> DEFINE c == Opened("BTS", b)
           m == Opened("MS", NewEntity)
<1>2. /\ c \in Entity /\ c.state = "LinkReleased" /\ c.l1 = "fresh"
      /\ c.thread \notin {"establish", "sabm", "sabmT200"}
      /\ c.sentFrame.type # "SABM" /\ \A k \in 1 .. Len(c.tx) : c.tx[k] \in Idle
  BY <1>1 DEF End
<1>3. /\ m \in Entity /\ m.state = "LinkReleased" /\ m.thread = "idle" /\ m.l1 = "open"
      /\ \A k \in 1 .. Len(m.tx) : m.tx[k] \in Idle
  <2>1. NewEntity \in Entity /\ NewEntity.thread = "idle"
    BY NewEntityType DEF NewEntity
  <2> QED  BY <1>1, <2>1 DEF End
<1> HIDE DEF c, m
<1>4. ~Up(c) /\ ~Up(m) /\ ~Calling(m) /\ New(c) /\ New(m)
  BY <1>2, <1>3 DEF Up, inMultiframe, Calling, New
<1>5. PhoneInv(m) /\ StationInv(c)
  BY <1>2, <1>3, <1>4 DEF PhoneInv, StationInv, StationOK
<1>6. Lacks(c.tx, {"SABM", "UA", "I"}) /\ Lacks(m.tx, Ack \cup {"SABM", "DISC"})
  BY <1>2, <1>3 DEF Lacks, Idle, Ack
<1>7. Beginning(c, m)
  BY <1>4, <1>6 DEF Beginning, Lacks
<1> QED  BY <1>4, <1>5, <1>7 DEF WindowLink, Uplink, Calls, Downlink, c, m

\* WindowInv holds initially.
LEMMA InitWindowInv == ASSUME SAPI = 0, Init PROVE WindowInv
<1>1. NewEntity \in Entity /\ NewEntity.thread = "idle" /\ NewEntity.sentFrame.type # "SABM"
  BY NewEntityType DEF NewEntity, IdleFrame, UFrame
<1>2. WindowLink(Opened("BTS", NewEntity), Opened("MS", NewEntity))
  BY <1>1, OpenedLink
<1> QED  BY <1>2 DEF Init, WindowInv, End

\* Reopening the channel keeps WindowInv.
LEMMA ReopenWindowInv == ASSUME SAPI = 0, LinkInv, WindowInv, Reopen PROVE WindowInv'
<1>1. /\ ent["BTS"] \in Entity /\ ent["BTS"].thread \notin {"establish", "sabm", "sabmT200"}
      /\ ent["BTS"].sentFrame.type # "SABM"
  BY WindowState DEF Reopen, StationOK
<1>2. WindowLink(Opened("BTS", ent["BTS"]), Opened("MS", NewEntity))
  BY <1>1, OpenedLink
<1>3. /\ ent'["BTS"] = Opened("BTS", ent["BTS"]) /\ ent'["MS"] = Opened("MS", NewEntity)
      /\ sap0' = sap0
  BY DEF Reopen, End
<1> QED  BY <1>2, <1>3 DEF WindowInv

\* WindowInv is inductive relative to LinkInv.
LEMMA NextWindowInv ==
  ASSUME SAPI = 0, "MS" \in Standard, PromptTimer, LinkInv, WindowInv, [Next]_vars
  PROVE  WindowInv'
<1>1. ASSUME NEW e \in End, ServiceLoop(e) \/ Lose(e) PROVE WindowInv'
  BY <1>1, ReceiveWindowInv, TimerWindowInv DEF ServiceLoop
<1>2. ASSUME NEW e \in End, Layer3(e) PROVE WindowInv'
  BY <1>2, RequestsWindowInv, DataWindowInv, ThreadWindowInv DEF Layer3
<1>3. ASSUME NEW e \in End, MasterReleases(e) PROVE WindowInv'
  BY <1>3 DEF MasterReleases
<1>4. CASE ReceiveRepeated
  BY <1>4, ReceiveWindowInv DEF End
<1>5. CASE Reopen
  BY <1>5, ReopenWindowInv
<1>6. CASE UNCHANGED vars
  BY <1>6 DEF vars, WindowInv
<1> QED  BY <1>1, <1>2, <1>3, <1>4, <1>5, <1>6 DEF Next

\* WindowInv holds of every reachable state of SAP0 with a standard phone whose thread starts
\* T200 before the answer to its SABM is there: neither a loss, a repetition by the
\* transceiver, a retransmission nor a reset takes the two ends out of step.
THEOREM WindowInvariant ==
  ASSUME SAPI = 0, "MS" \in Standard, PromptTimer
  PROVE  Spec => []WindowInv
<1>1. Init => WindowInv
  BY InitWindowInv
<1>2. LinkInv /\ WindowInv /\ [Next]_vars => WindowInv'
  BY NextWindowInv
<1> QED  BY <1>1, <1>2, LinkInvariant, PTL DEF Spec

\* The station never has two I-frames unacknowledged (k = 1).
THEOREM WindowAlwaysOne ==
  ASSUME SAPI = 0, "MS" \in Standard, PromptTimer
  PROVE  Spec => []WindowOne
<1>1. WindowInv => WindowOne
  BY DEF WindowInv, WindowLink, StationInv, StationOK, WindowOne, Outstanding, Up
<1> QED  BY WindowInvariant, <1>1, PTL

\* An unacknowledged I-frame of the station is always under T200, in a loop that is awake.
THEOREM OutstandingAlwaysTimed ==
  ASSUME SAPI = 0, "MS" \in Standard, PromptTimer
  PROVE  Spec => []OutstandingIsTimed
<1>1. WindowInv => OutstandingIsTimed
  BY DEF WindowInv, WindowLink, StationInv, StationOK, OutstandingIsTimed, Outstanding, Up
<1> QED  BY WindowInvariant, <1>1, PTL
============================================================================
