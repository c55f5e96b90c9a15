----------------------- MODULE LAPDmContentionProofs -----------------------
(***************************************************************************)
(* Proofs about LAPDmContention, for any number of handsets, any payloads, *)
(* whether their checksums differ or not, and any bounds.                  *)
(***************************************************************************)
EXTENDS LAPDmContention, LAPDmEntityProofs

----------------------------------------------------------------------------
(* What the base station does with a frame of a handset *)

\* Frames that repeat no payload: all but the echo of a SABM.
NoEcho == {f \in Frame : f.type = "UA" => f.data = <<>>}

\* The handsets send nothing but SABMs with their identities, I-frames and DISCs.
FromHandset(f) ==
  \/ f.type \in {"I", "DISC"}
  \/ f.type = "SABM" /\ f.pf /\ \E p \in Phone : f.data = <<Identity[p]>>

\* The station stays, or becomes, released.
StaysReleased(s, t, f) ==
  /\ f.type = "SABM" => s.state # "LinkReleased"
  /\ t.state = "LinkReleased"
  /\ t.l1 = "closed" \/ (s.state = "LinkReleased" /\ s.l1 # "closed" /\ t.l1 = "open")
  /\ Grows(s.tx, t.tx, NoEcho)

\* The first SABM: its payload is echoed, its checksum kept.
Contends(s, t, f) ==
  /\ f.type = "SABM" /\ s.state = "LinkReleased" /\ s.l1 # "closed"
  /\ t.state = "ContentionResolution" /\ t.l1 = "open" /\ t.estInProgress /\ t.check = sumOf(f)
  /\ Grows(s.tx, t.tx, {x \in Frame : x.data = f.data})

\* A numbered frame ends the contention.
Ends(s, t, f) ==
  /\ f.type # "SABM" /\ inMultiframe(s)
  /\ t.state = "LinkEstablished" /\ t.l1 = "open" /\ ~t.estInProgress
  /\ Grows(s.tx, t.tx, NoEcho)

\* Another SABM is echoed: one with the checksum of the first, which resolves the contention,
\* or any while the link is still being established.
Echoes(s, t, f) ==
  /\ f.type = "SABM" /\ inMultiframe(s) /\ s.estInProgress
  /\ s.state = "ContentionResolution" => sumOf(f) = s.check
  /\ t.state = "LinkEstablished" /\ t.l1 = "open"
  /\ Grows(s.tx, t.tx, {x \in Frame : x.data = f.data})

Outcome(s, t, f) ==
  \/ t = s /\ (f.type = "SABM" => s.state # "LinkReleased" \/ s.l1 = "closed")
  \/ StaysReleased(s, t, f)
  \/ Contends(s, t, f)
  \/ Ends(s, t, f)
  \/ Echoes(s, t, f)

\* The station as far as the contention goes.
EntityInv(s) ==
  /\ s \in Entity
  /\ s.state \in {"LinkReleased", "ContentionResolution", "LinkEstablished"}
  /\ inMultiframe(s) => s.l1 = "open"
  /\ s.state = "ContentionResolution" => s.estInProgress

\* What the answers of the entity are in these terms.
LEMMA AnswersEcho ==
  /\ Idle \subseteq NoEcho
  /\ \A n : Supervisory(n) \subseteq NoEcho
  BY DEF Idle, Supervisory, NoEcho

\* An I-frame ends the contention; without a link it is ignored.
LEMMA IFrameOutcome ==
  ASSUME NEW s, EntityInv(s), s.l1 = "open", NEW f \in Frame, f.type = "I"
  PROVE  Outcome(s, receiveIFrame(s, f), f)
<1> DEFINE t == receiveIFrame(s, f)
           r == [s EXCEPT !.estInProgress = FALSE]
<1>1. s \in Entity
  BY DEF EntityInv
<1>2. CASE inMultiframe(s)
  <2>1. \E n : Acked(s, t, f.nr, Supervisory(n))
    BY <1>1, <1>2, IFrameAcked
  <2> HIDE DEF t
  <2>2. Ends(s, t, f)
    BY <1>2, <2>1, AnswersEcho, GrowsMore DEF Acked, Ends
  <2> QED  BY <2>2 DEF Outcome, t
<1>3. CASE ~inMultiframe(s)
  <2>1. t = r
    BY <1>3 DEF receiveIFrame
  <2>2. r.tx = s.tx /\ r.state = s.state /\ r.l1 = s.l1
    BY <1>1, ClearsFlag
  <2>3. s.state = "LinkReleased"
    BY <1>3 DEF EntityInv, inMultiframe
  <2>4. Grows(s.tx, t.tx, NoEcho)
    BY <1>1, <2>1, <2>2, SaysNothing DEF Says
  <2> QED  BY <2>1, <2>2, <2>3, <2>4 DEF Outcome, StaysReleased
<1> QED  BY <1>2, <1>3

\* A DISC releases the link.
LEMMA DISCOutcome ==
  ASSUME SAPI = 0, NEW s, EntityInv(s), NEW f \in Frame, f.type = "DISC"
  PROVE  Outcome(s, receiveUFrameDISC(s, f), f)
<1> DEFINE r == [s EXCEPT !.estInProgress = FALSE]
           x == UFrame("UA", f.pf, <<>>)
           ua == writeL1(r, x)
           t == receiveUFrameDISC(s, f)
<1>1. s \in Entity /\ f.pf \in BOOLEAN
  BY DEF EntityInv, Frame
<1>2. r \in Entity /\ r.tx = s.tx /\ r.thread = s.thread /\ r.sentFrame = s.sentFrame
  BY <1>1, ClearsFlag
<1>3. x \in NoEcho /\ x \in Frame
  <2>1. x \in Frame
    BY <1>1, UFrameType, EmptyTypes DEF FrameType
  <2> QED  BY <2>1 DEF NoEcho, UFrame
<1>4. CASE s.state = "LinkReleased"
  <2>1. Closes(s, t, Idle)
    BY <1>1, <1>4, DISCEnds
  <2> QED  BY <2>1, AnswersEcho, GrowsMore DEF Closes, Outcome, StaysReleased
<1>5. CASE s.state # "LinkReleased"
  <2>1. t = clearState(ua)
    BY <1>5 DEF receiveUFrameDISC, EntityInv
  <2> HIDE DEF r, x
  <2>2. Says(r, ua, NoEcho)
    BY <1>2, <1>3, writeL1Says
  <2> HIDE DEF ua, t
  <2>3. Closes(s, t, NoEcho)
    BY <1>1, <1>2, <2>1, <2>2, clearStateCloses DEF Says, Kept
  <2> QED  BY <2>3 DEF Closes, Outcome, StaysReleased, t
<1> QED  BY <1>4, <1>5

\* A UA that echoes f repeats its payload.
LEMMA EchoSays ==
  ASSUME NEW s \in Entity, NEW f \in Frame, f.pf
  PROVE  Says(s, sendUFrameUA(s, f), {x \in Frame : x.data = f.data})
<1> DEFINE x == UFrame("UA", f.pf, f.data)
           A == {y \in Frame : y.data = f.data}
<1>1. x \in Frame /\ x \in A
  <2>1. x \in Frame
    BY UFrameType DEF Frame, FrameType
  <2> QED  BY <2>1 DEF UFrame
<1> HIDE DEF x, A
<1>2. Says(s, writeL1(s, x), A)
  BY <1>1, writeL1Says
<1> QED  BY <1>2 DEF sendUFrameUA, x, A

\* A SABM contends, is echoed, is ignored, or ends the link.
LEMMA SABMOutcome ==
  ASSUME SAPI = 0, NEW s, EntityInv(s), s.l1 = "open",
         NEW f \in Frame, f.type = "SABM", f.pf, f.data # <<>>
  PROVE  Outcome(s, receiveUFrameSABM(s, f), f)
<1> DEFINE c == clearCounters(s)
           o == [[c EXCEPT !.estInProgress = TRUE, !.l3 = "ESTABLISH"]
                   EXCEPT !.state = "ContentionResolution", !.check = sumOf(f), !.got = <<f.data>>]
           up == [s EXCEPT !.state = "LinkEstablished"]
           t == receiveUFrameSABM(s, f)
<1>1. s \in Entity /\ f.data \in Seq(Segment)
  BY DEF EntityInv, Frame
<1>2. CASE s.state = "LinkReleased"
  <2>1. t = sendUFrameUA(o, f)
    BY <1>2 DEF receiveUFrameSABM
  <2>2. o \in Entity
    <3>1. c \in Entity
      BY <1>1, clearCountersType
    <3>2. sumOf(f) \in Nat /\ <<f.data>> \in Seq(Seq(Segment))
      <4>1. f.data[1] \in Segment
        BY <1>1
      <4> QED  BY <1>1, <4>1, EntityAssumption DEF sumOf
    <3> HIDE DEF c
    <3> QED  BY <3>1, <3>2 DEF Entity, LAPDState
  <2>3. /\ o.state = "ContentionResolution" /\ o.estInProgress /\ o.l1 = s.l1 /\ o.check = sumOf(f)
        /\ o.tx = s.tx
    BY <1>1 DEF clearCounters, Entity
  <2> HIDE DEF o
  <2>4. Says(o, t, {x \in Frame : x.data = f.data})
    BY <2>1, <2>2, EchoSays
  <2>5. t.check = o.check
    BY <2>1, <2>2 DEF sendUFrameUA, writeL1, Entity
  <2> HIDE DEF t
  <2>6. Contends(s, t, f)
    BY <1>2, <2>3, <2>4, <2>5 DEF Contends, Says, Kept
  <2> QED  BY <2>6 DEF Outcome, t
<1>3. CASE s.state = "ContentionResolution" /\ sumOf(f) # s.check
  BY <1>3 DEF receiveUFrameSABM, Outcome
<1>4. CASE s.state = "ContentionResolution" /\ sumOf(f) = s.check
  <2>1. t = sendUFrameUA(up, f)
    BY <1>4 DEF receiveUFrameSABM
  <2>2. up \in Entity /\ up.state = "LinkEstablished" /\ up.l1 = s.l1
    BY <1>1 DEF Entity, LAPDState
  <2>3. Says(up, t, {x \in Frame : x.data = f.data}) /\ up.tx = s.tx
    BY <1>1, <2>1, <2>2, EchoSays DEF Entity
  <2> HIDE DEF t, up
  <2>4. Echoes(s, t, f)
    BY <1>4, <2>2, <2>3 DEF Echoes, Says, Kept, EntityInv, inMultiframe
  <2> QED  BY <2>4 DEF Outcome, t
<1>5. CASE s.state = "LinkEstablished" /\ s.estInProgress
  <2>1. t = sendUFrameUA(s, f)
    BY <1>5 DEF receiveUFrameSABM
  <2>2. Says(s, t, {x \in Frame : x.data = f.data})
    BY <1>1, <2>1, EchoSays
  <2> HIDE DEF t
  <2>3. Echoes(s, t, f)
    BY <1>5, <2>2 DEF Echoes, Says, Kept, EntityInv, inMultiframe
  <2> QED  BY <2>3 DEF Outcome, t
<1>6. CASE s.state = "LinkEstablished" /\ ~s.estInProgress
  <2>1. t = abnormalRelease(s)
    BY <1>6 DEF receiveUFrameSABM
  <2>2. Closes(s, t, Idle)
    BY <1>1, <2>1, releasesClose
  <2> HIDE DEF t
  <2> QED  BY <1>6, <2>2, AnswersEcho, GrowsMore DEF Closes, Outcome, StaysReleased, t
<1> QED  BY <1>2, <1>3, <1>4, <1>5, <1>6 DEF EntityInv

\* A frame of a handset has one of these outcomes, on whatever channel it arrives.
LEMMA fromL1Outcome ==
  ASSUME SAPI = 0, NEW s, EntityInv(s), NEW f \in Frame, FromHandset(f)
  PROVE  Outcome(s, fromL1(s, f), f)
<1>1. s \in Entity /\ s.l1 \in {"closed", "fresh", "open"}
  BY DEF EntityInv, Entity
<1>2. ASSUME NEW r, EntityInv(r), r.l1 = "open"
      PROVE  Outcome(r, receiveFrame(r, f), f)
  <2>1. f.type = "SABM" => f.pf /\ f.data # <<>>
    BY DEF FromHandset
  <2>2. f.type \in {"I", "DISC", "SABM"}
    BY DEF FromHandset
  <2> QED  BY <1>2, <2>1, <2>2, IFrameOutcome, DISCOutcome, SABMOutcome DEF receiveFrame
<1>3. CASE s.l1 = "closed"
  BY <1>3 DEF fromL1, Outcome
<1>4. CASE s.l1 = "open"
  BY <1>2, <1>4 DEF fromL1
<1>5. CASE s.l1 = "fresh"
  <2> DEFINE o == [s EXCEPT !.l1 = "open"]
             c == clearCounters(o)
             t == receiveFrame(c, f)
  <2>1. fromL1(s, f) = t
    BY <1>5 DEF fromL1
  <2>2. o \in Entity
    BY <1>1 DEF Entity
  <2>3. c \in Entity
    BY <2>2, clearCountersType
  <2>4. c.state = s.state /\ c.l1 = "open" /\ c.tx = s.tx
    BY <1>1 DEF clearCounters, Entity
  <2> HIDE DEF c
  <2>5. s.state = "LinkReleased"
    BY <1>5 DEF EntityInv, inMultiframe
  <2>6. EntityInv(c) /\ ~inMultiframe(c)
    BY <2>3, <2>4, <2>5 DEF EntityInv, inMultiframe
  <2>7. Outcome(c, t, f)
    BY <1>2, <2>4, <2>6
  <2> HIDE DEF t
  <2>8. t = c /\ (f.type = "SABM" => c.state # "LinkReleased" \/ c.l1 = "closed")
          => StaysReleased(s, t, f)
    <3>1. Grows(s.tx, c.tx, NoEcho)
      BY <1>1, <2>4, SaysNothing DEF Says
    <3> QED  BY <1>5, <2>4, <2>5, <3>1 DEF StaysReleased
  <2>9. StaysReleased(c, t, f) => StaysReleased(s, t, f)
    BY <1>5, <2>4, <2>5 DEF StaysReleased
  <2>10. Contends(c, t, f) => Contends(s, t, f)
    BY <1>5, <2>4, <2>5 DEF Contends
  <2> QED  BY <2>1, <2>6, <2>7, <2>8, <2>9, <2>10 DEF Outcome, Ends, Echoes
<1> QED  BY <1>1, <1>3, <1>4, <1>5

----------------------------------------------------------------------------
(* Who is admitted *)

\* The handsets that an echo among the frames of q names.
Echoed(q) ==
  {p \in Phone : \E i \in 1 .. Len(q) : q[i].type = "UA" /\ q[i].data = <<Identity[p]>>}

\* Frames without an echo name nobody further.
LEMMA EchoesNobody ==
  ASSUME NEW q \in Seq(Frame), NEW r \in Seq(Frame), Grows(q, r, NoEcho)
  PROVE  Echoed(r) \subseteq Echoed(q)
<1> SUFFICES ASSUME NEW p \in Phone,
                    NEW i \in 1 .. Len(r), r[i].type = "UA", r[i].data = <<Identity[p]>>
             PROVE  p \in Echoed(q)
  BY DEF Echoed
<1>1. r[i] \notin NoEcho
  <2>1. <<Identity[p]>> # <<>>
    OBVIOUS
  <2> QED  BY <2>1 DEF NoEcho
<1>2. i \in 1 .. Len(q) /\ r[i] = q[i]
  BY <1>1 DEF Grows
<1> QED  BY <1>2 DEF Echoed

\* Echoes of d name those whose payload is d.
LEMMA EchoesOne ==
  ASSUME NEW q \in Seq(Frame), NEW r \in Seq(Frame), NEW d,
         Grows(q, r, {x \in Frame : x.data = d}), NEW p \in Echoed(r), p \notin Echoed(q)
  PROVE  d = <<Identity[p]>>
<1>1. PICK i \in 1 .. Len(r) : r[i].type = "UA" /\ r[i].data = <<Identity[p]>>
  BY DEF Echoed
<1>2. ~(i \in 1 .. Len(q) /\ r[i] = q[i])
  BY <1>1 DEF Echoed
<1>3. r[i].data = d
  BY <1>2 DEF Grows
<1> QED  BY <1>1, <1>3

\* The handset that was heard first has been heard again, or one with its checksum.
Resolved(h) == \E i \in 2 .. Len(h) : Sum[h[i]] = Sum[h[1]]

\* p called with the checksum of the first, or after the contention was resolved.
Entitled(p, h) ==
  \/ Sum[Identity[p]] = Sum[h[1]]
  \/ \E i \in 2 .. Len(h), j \in 2 .. Len(h) :
       i < j /\ Sum[h[i]] = Sum[h[1]] /\ h[j] = Identity[p]

\* The station, those it admits and what it has heard.
AdmissionInv(s, A, h) ==
  /\ s.state = "LinkReleased" /\ s.l1 # "closed" => h = <<>>
  /\ s.state = "ContentionResolution" => h # <<>> /\ s.check = Sum[h[1]]
  /\ s.state = "LinkEstablished" /\ s.estInProgress => h # <<>> /\ Resolved(h)
  /\ A # {} => h # <<>>
  /\ \A p \in A : Entitled(p, h)

\* What is heard with f.
Hears(s, f, h) == IF s.l1 # "closed" /\ f.type = "SABM" THEN h \o f.data ELSE h

\* The handset that sends a SABM is heard last; what was heard before stays.
LEMMA HeardLast ==
  ASSUME NEW h \in Seq(Segment), NEW q \in Phone
  PROVE  LET k == h \o <<Identity[q]>> IN
         /\ k \in Seq(Segment) /\ k # <<>> /\ Len(k) = Len(h) + 1 /\ k[Len(k)] = Identity[q]
         /\ \A i \in 1 .. Len(h) : k[i] = h[i]
         /\ h = <<>> => k[1] = Identity[q]
         /\ h # <<>> => k[1] = h[1] /\ Len(h) >= 1
         /\ \A p \in Phone : h # <<>> /\ Entitled(p, h) => Entitled(p, k)
         /\ h # <<>> /\ Resolved(h) => Resolved(k) /\ \A p \in Phone : Identity[p] = Identity[q] => Entitled(p, k)
         /\ h # <<>> /\ Sum[Identity[q]] = Sum[h[1]] => Resolved(k)
<1> DEFINE k == h \o <<Identity[q]>>
<1>1. Identity[q] \in Segment
  BY ContentionAssumption
<1>2. /\ k \in Seq(Segment) /\ k # <<>> /\ Len(k) = Len(h) + 1 /\ k[Len(k)] = Identity[q]
      /\ \A i \in 1 .. Len(h) : k[i] = h[i]
      /\ h = <<>> => k[1] = Identity[q]
      /\ h # <<>> => k[1] = h[1] /\ Len(h) >= 1
  BY <1>1
<1>3. Len(h) \in Nat
  OBVIOUS
<1> HIDE DEF k
<1>4. \A p \in Phone : h # <<>> /\ Entitled(p, h) => Entitled(p, k)
  <2> SUFFICES ASSUME NEW p \in Phone, h # <<>>, Entitled(p, h) PROVE Entitled(p, k)
    OBVIOUS
  <2>1. CASE Sum[Identity[p]] = Sum[h[1]]
    BY <1>2, <2>1 DEF Entitled
  <2>2. ASSUME NEW i \in 2 .. Len(h), NEW j \in 2 .. Len(h),
               i < j, Sum[h[i]] = Sum[h[1]], h[j] = Identity[p]
        PROVE  Entitled(p, k)
    <3>1. i \in 2 .. Len(k) /\ j \in 2 .. Len(k) /\ k[i] = h[i] /\ k[j] = h[j] /\ k[1] = h[1]
      BY <1>2, <1>3
    <3> QED  BY <2>2, <3>1 DEF Entitled
  <2> QED  BY <2>1, <2>2 DEF Entitled
<1>5. ASSUME h # <<>>, Resolved(h)
      PROVE  Resolved(k) /\ \A p \in Phone : Identity[p] = Identity[q] => Entitled(p, k)
  <2>1. PICK i \in 2 .. Len(h) : Sum[h[i]] = Sum[h[1]]
    BY <1>5 DEF Resolved
  <2>2. /\ i \in 2 .. Len(k) /\ Len(k) \in 2 .. Len(k) /\ i < Len(k)
        /\ k[i] = h[i] /\ k[1] = h[1]
    BY <1>2, <1>3, <1>5
  <2> QED  BY <1>2, <2>1, <2>2 DEF Resolved, Entitled
<1>6. ASSUME h # <<>>, Sum[Identity[q]] = Sum[h[1]] PROVE Resolved(k)
  <2>1. Len(k) \in 2 .. Len(k)
    BY <1>2, <1>3, <1>6
  <2> QED  BY <1>2, <1>6, <2>1 DEF Resolved
<1> QED  BY <1>2, <1>4, <1>5, <1>6 DEF k

\* A frame of a handset keeps the invariant.
LEMMA OutcomeAdmission ==
  ASSUME NEW s, EntityInv(s), NEW t \in Entity, NEW f \in Frame, FromHandset(f), Outcome(s, t, f),
         NEW C \in SUBSET Phone, NEW h \in Seq(Segment), AdmissionInv(s, C \cup Echoed(s.tx), h)
  PROVE  /\ EntityInv(t) /\ Hears(s, f, h) \in Seq(Segment)
         /\ AdmissionInv(t, C \cup Echoed(t.tx), Hears(s, f, h))
<1> DEFINE A == C \cup Echoed(s.tx)
           B == C \cup Echoed(t.tx)
           k == Hears(s, f, h)
<1>1. s.tx \in Seq(Frame) /\ t.tx \in Seq(Frame) /\ A \subseteq Phone /\ B \subseteq Phone
  BY DEF EntityInv, Entity, Echoed
<1>2. StaysReleased(s, t, f) \/ Ends(s, t, f) => B \subseteq A
  BY <1>1, EchoesNobody DEF StaysReleased, Ends
<1>3. Contends(s, t, f) \/ Echoes(s, t, f) => \A p \in B : p \in A \/ f.data = <<Identity[p]>>
  BY <1>1, EchoesOne DEF Contends, Echoes
<1>4. EntityInv(t)
  BY DEF Outcome, StaysReleased, Contends, Ends, Echoes, EntityInv, inMultiframe
<1>5. CASE s.l1 = "closed" \/ f.type # "SABM"
  <2>1. k = h
    BY <1>5 DEF Hears
  <2>2. ~Contends(s, t, f) /\ ~Echoes(s, t, f)
    BY <1>5 DEF Contends, Echoes, EntityInv
  <2>3. CASE t = s
    BY <1>4, <2>1, <2>3
  <2>4. CASE StaysReleased(s, t, f)
    BY <1>2, <1>4, <2>1, <2>4 DEF StaysReleased, AdmissionInv
  <2>5. CASE Ends(s, t, f)
    BY <1>2, <1>4, <2>1, <2>5 DEF Ends, AdmissionInv
  <2> QED  BY <2>2, <2>3, <2>4, <2>5 DEF Outcome
<1>6. CASE s.l1 # "closed" /\ f.type = "SABM"
  <2>1. PICK q \in Phone : f.data = <<Identity[q]>>
    BY <1>6 DEF FromHandset
  <2>2. k = h \o <<Identity[q]>> /\ sumOf(f) = Sum[Identity[q]]
    BY <1>6, <2>1 DEF Hears, sumOf
  <2>3. \A p \in Phone : f.data = <<Identity[p]>> => Identity[p] = Identity[q]
    BY <2>1
  <2> HIDE DEF A, B, k
  <2>4. /\ k \in Seq(Segment) /\ k # <<>>
        /\ h = <<>> => k[1] = Identity[q]
        /\ h # <<>> => k[1] = h[1]
        /\ \A p \in Phone : h # <<>> /\ Entitled(p, h) => Entitled(p, k)
        /\ h # <<>> /\ Resolved(h)
             => Resolved(k) /\ \A p \in Phone : Identity[p] = Identity[q] => Entitled(p, k)
        /\ h # <<>> /\ Sum[Identity[q]] = Sum[h[1]] => Resolved(k)
    BY <2>2, HeardLast
  <2>5. AdmissionInv(s, A, h)
    BY DEF A
  <2>6. CASE t = s /\ s.state # "LinkReleased"
    <3>1. B = A
      BY <2>6 DEF A, B
    <3> QED  BY <1>1, <1>4, <2>4, <2>5, <2>6, <3>1 DEF AdmissionInv, B, k
  <2>7. CASE StaysReleased(s, t, f)
    <3>1. t.state = "LinkReleased" /\ t.l1 = "closed"
      BY <1>6, <2>7 DEF StaysReleased
    <3> QED  BY <1>1, <1>2, <1>4, <2>4, <2>5, <2>7, <3>1 DEF AdmissionInv, B, k
  <2>8. CASE Contends(s, t, f)
    <3>1. h = <<>> /\ A = {}
      BY <2>5, <2>8 DEF Contends, AdmissionInv
    <3>2. \A p \in B : Entitled(p, k)
      BY <1>1, <1>3, <2>3, <2>4, <2>8, <3>1 DEF Entitled
    <3>3. t.check = Sum[k[1]] /\ t.state = "ContentionResolution"
      BY <2>2, <2>4, <2>8, <3>1 DEF Contends
    <3> QED  BY <1>4, <2>4, <3>2, <3>3 DEF AdmissionInv, B, k
  <2>9. CASE Echoes(s, t, f)
    <3>1. s.state = "ContentionResolution" \/ (s.state = "LinkEstablished" /\ s.estInProgress)
      BY <2>9 DEF Echoes, inMultiframe
    <3>2. h # <<>> /\ Resolved(k)
      BY <2>2, <2>4, <2>5, <2>9, <3>1 DEF Echoes, AdmissionInv
    <3>3. \A p \in Phone : Identity[p] = Identity[q] => Entitled(p, k)
      <4>1. CASE s.state = "ContentionResolution"
        BY <2>2, <2>4, <2>5, <2>9, <4>1 DEF Echoes, AdmissionInv, Entitled
      <4>2. CASE s.state = "LinkEstablished" /\ s.estInProgress
        BY <2>4, <2>5, <4>2 DEF AdmissionInv
      <4> QED  BY <3>1, <4>1, <4>2
    <3>4. \A p \in B : Entitled(p, k)
      BY <1>1, <1>3, <2>3, <2>4, <2>5, <2>9, <3>2, <3>3 DEF AdmissionInv
    <3> QED  BY <1>4, <2>4, <2>9, <3>2, <3>4 DEF Echoes, AdmissionInv, B, k
  <2>10. ~Ends(s, t, f)
    BY <1>6 DEF Ends
  <2> QED  BY <1>6, <2>6, <2>7, <2>8, <2>9, <2>10 DEF Outcome
<1> QED  BY <1>5, <1>6

\* The top of the service loop leaves the link as it is.
LEMMA TopKeeps ==
  ASSUME NEW s \in Entity
  PROVE  LET t == topOfServiceLoop(s, FALSE) IN
         /\ t \in Entity /\ t.state = s.state /\ t.l1 = s.l1 /\ t.check = s.check /\ t.tx = s.tx
         /\ t.estInProgress = s.estInProgress
<1>1. topOfServiceLoop(s, FALSE) \in Entity
  BY topOfServiceLoopType
<1> QED  BY <1>1 DEF topOfServiceLoop, Entity

----------------------------------------------------------------------------
(* The inductive invariant *)

ContentionInv ==
  /\ TypeOK
  /\ EntityInv(ent)
  /\ \A i \in 1 .. Len(uplink) : FromHandset(uplink[i])
  /\ AdmissionInv(ent, Admitted, heard)

\* Whom the invariant is about.
LEMMA AdmittedIs == Admitted = Connected \cup Echoed(ent.tx)
  BY DEF Admitted, Echoed

\* A channel that is opened has no handsets.
LEMMA InitContentionInv == Init => ContentionInv
<1> SUFFICES ASSUME Init PROVE ContentionInv
  OBVIOUS
<1>1. SAPI = 0 /\ MaxFrames \in Nat
  BY ContentionAssumption
<1>2. ent \in Entity
  BY NewEntityType, openType DEF Init
<1>3. ent.state = "LinkReleased" /\ ent.tx = <<IdleFrame>>
  <2>1. ent = writeL1([clearCounters(NewEntity) EXCEPT !.state = "LinkReleased", !.l3 = "RELEASE",
                                    !.l1 = "fresh", !.tx = <<>>], IdleFrame)
    BY <1>1 DEF Init, open, sendIdle
  <2> QED  BY <2>1, EntityAssumption DEF writeL1, clearCounters, NewEntity
<1>4. Connected = {} /\ Echoed(ent.tx) = {}
  BY <1>3 DEF Init, Connected, Echoed, IdleFrame, UFrame
<1>5. TypeOK
  BY <1>1, <1>2 DEF Init, TypeOK
<1> QED
  BY <1>2, <1>3, <1>4, <1>5, AdmittedIs
  DEF Init, ContentionInv, EntityInv, inMultiframe, AdmissionInv

\* Whom a step does not admit, it does not bring into the invariant.
LEMMA Fewer ==
  ASSUME ContentionInv, TypeOK', ent'.state = ent.state, ent'.l1 = ent.l1,
         ent'.check = ent.check, ent'.estInProgress = ent.estInProgress, heard' = heard,
         Admitted' \subseteq Admitted,
         \A i \in 1 .. Len(uplink') : FromHandset(uplink'[i])
  PROVE  ContentionInv'
<1>1. EntityInv(ent')
  BY DEF ContentionInv, EntityInv, TypeOK, inMultiframe
<1>2. AdmissionInv(ent', Admitted', heard')
  BY DEF ContentionInv, AdmissionInv
<1> QED  BY <1>1, <1>2 DEF ContentionInv

\* A handset sends its frame, and may leave the link.
LEMMA SendFewer ==
  ASSUME ContentionInv, NEW p \in Phone, NEW state, NEW f \in Frame, FromHandset(f),
         Send(p, state, f), ent' = ent, heard' = heard, phone' \in [Phone -> {"calling", "connected", "gone"}],
         Connected' \subseteq Connected
  PROVE  ContentionInv' /\ Admitted' \subseteq Admitted
<1>1. MaxFrames \in Nat
  BY ContentionAssumption
<1>2. TypeOK'
  <2>1. uplink' \in Seq(Frame)
    BY DEF ContentionInv, TypeOK, Send
  <2>2. frames' \in [Phone -> 0 .. MaxFrames]
    <3>1. frames[p] + 1 \in 0 .. MaxFrames
      BY <1>1 DEF ContentionInv, TypeOK, Send
    <3> QED  BY <3>1 DEF ContentionInv, TypeOK, Send
  <2> QED  BY <2>1, <2>2 DEF ContentionInv, TypeOK
<1>3. \A i \in 1 .. Len(uplink') : FromHandset(uplink'[i])
  <2> SUFFICES ASSUME NEW i \in 1 .. Len(uplink') PROVE FromHandset(uplink'[i])
    OBVIOUS
  <2>1. uplink \in Seq(Frame) /\ uplink' = Append(uplink, f)
    BY DEF ContentionInv, TypeOK, Send
  <2>2. uplink'[i] = f \/ (i \in 1 .. Len(uplink) /\ uplink'[i] = uplink[i])
    BY <2>1
  <2> QED  BY <2>2 DEF ContentionInv
<1>4. Admitted' \subseteq Admitted
  BY DEF Admitted
<1> QED  BY <1>2, <1>3, <1>4, Fewer

\* What the handsets send.
LEMMA HandsetFrames ==
  ASSUME NEW p \in Phone
  PROVE  LET sabm == UFrame("SABM", TRUE, <<Identity[p]>>)
             i == IFrame(0, 0, FALSE, Identity[p])
             disc == UFrame("DISC", TRUE, <<>>)
         IN  /\ sabm \in Frame /\ FromHandset(sabm)
             /\ i \in Frame /\ FromHandset(i)
             /\ disc \in Frame /\ FromHandset(disc)
<1>1. Identity[p] \in Segment
  BY ContentionAssumption
<1>2. <<Identity[p]>> \in Seq(Segment) /\ {"SABM", "DISC"} \subseteq FrameType
  BY <1>1 DEF FrameType
<1>3. /\ UFrame("SABM", TRUE, <<Identity[p]>>) \in Frame
      /\ IFrame(0, 0, FALSE, Identity[p]) \in Frame
      /\ UFrame("DISC", TRUE, <<>>) \in Frame
  BY <1>1, <1>2, UFrameType, IFrameType, EmptyTypes
<1> QED  BY <1>3 DEF FromHandset, UFrame, IFrame

\* The steps of the handsets.
LEMMA HandsetFewer ==
  ASSUME ContentionInv, NEW p \in Phone, Call(p) \/ Speak(p) \/ HangUp(p)
  PROVE  ContentionInv' /\ Admitted' \subseteq Admitted
<1>1. phone \in [Phone -> {"calling", "connected", "gone"}]
  BY DEF ContentionInv, TypeOK
<1>2. CASE Call(p)
  BY <1>1, <1>2, HandsetFrames, SendFewer DEF Call, Connected
<1>3. CASE Speak(p)
  BY <1>1, <1>3, HandsetFrames, SendFewer DEF Speak, Connected
<1>4. CASE HangUp(p)
  <2>1. phone' \in [Phone -> {"calling", "connected", "gone"}] /\ Connected' \subseteq Connected
    BY <1>1, <1>4 DEF HangUp, Connected
  <2> QED  BY <1>4, <2>1, HandsetFrames, SendFewer DEF HangUp
<1> QED  BY <1>2, <1>3, <1>4

\* A handset that hears an echo was named by it before.
LEMMA DownlinkFewer ==
  ASSUME ContentionInv, Downlink
  PROVE  ContentionInv' /\ Admitted' \subseteq Admitted
<1> DEFINE e == [ent EXCEPT !.tx = Tail(@)]
<1>1. ent \in Entity /\ ent.tx \in Seq(Frame) /\ ent.tx # <<>>
  BY DEF ContentionInv, TypeOK, Entity, Downlink
<1>2. PICK hearing \in SUBSET Phone :
        phone' = [p \in Phone |-> IF p \in hearing THEN Hear(p, Head(ent.tx)) ELSE phone[p]]
  BY DEF Downlink
<1>3. e \in Entity /\ e.tx = Tail(ent.tx) /\ ent' = e
  <2>1. Tail(ent.tx) \in Seq(Frame)
    BY <1>1
  <2> QED  BY <1>1, <2>1 DEF Entity, Downlink
<1>4. /\ e.state = ent.state /\ e.l1 = ent.l1 /\ e.check = ent.check
      /\ e.estInProgress = ent.estInProgress
  BY <1>1 DEF Entity
<1> HIDE DEF e
<1>5. TypeOK'
  <2>1. \A p \in Phone : Hear(p, Head(ent.tx)) \in {"calling", "connected", "gone"}
    BY DEF ContentionInv, TypeOK, Hear
  <2>2. phone' \in [Phone -> {"calling", "connected", "gone"}]
    BY <1>2, <2>1 DEF ContentionInv, TypeOK
  <2> QED  BY <1>3, <2>2 DEF ContentionInv, TypeOK, Downlink
<1>6. Connected' \subseteq Connected \cup Echoed(ent.tx)
  <2> SUFFICES ASSUME NEW p \in Phone, phone'[p] = "connected", phone[p] # "connected"
               PROVE  p \in Echoed(ent.tx)
    BY DEF Connected
  <2>1. Head(ent.tx) = ent.tx[1] /\ 1 \in 1 .. Len(ent.tx)
    BY <1>1
  <2>2. Head(ent.tx).type = "UA" /\ Head(ent.tx).data = <<Identity[p]>>
    BY <1>2 DEF Hear
  <2> QED  BY <2>1, <2>2 DEF Echoed
<1>7. Echoed(ent'.tx) \subseteq Echoed(ent.tx)
  <2> SUFFICES ASSUME NEW p \in Phone, NEW i \in 1 .. Len(Tail(ent.tx)),
                      Tail(ent.tx)[i].type = "UA", Tail(ent.tx)[i].data = <<Identity[p]>>
               PROVE  p \in Echoed(ent.tx)
    BY <1>3 DEF Echoed
  <2>1. Tail(ent.tx)[i] = ent.tx[i + 1] /\ i + 1 \in 1 .. Len(ent.tx)
    BY <1>1
  <2> QED  BY <2>1 DEF Echoed
<1>8. Admitted' \subseteq Admitted
  <2>1. Admitted' = Connected' \cup Echoed(ent'.tx)
    BY DEF Admitted, Echoed
  <2> QED  BY <1>6, <1>7, <2>1, AdmittedIs
<1>9. \A i \in 1 .. Len(uplink') : FromHandset(uplink'[i])
  BY DEF ContentionInv, Downlink
<1> QED  BY <1>3, <1>4, <1>5, <1>8, <1>9, Fewer DEF Downlink

\* The station receives a frame of a handset.
LEMMA ReceiveOutcome ==
  ASSUME ContentionInv, Receive
  PROVE  \E f \in Frame, t \in Entity :
           /\ FromHandset(f) /\ Outcome(ent, t, f) /\ ent' = topOfServiceLoop(t, FALSE)
           /\ heard' = Hears(ent, f, heard)
           /\ uplink' = Tail(uplink) /\ UNCHANGED <<phone, frames>>
<1>1. ent \in Entity /\ uplink \in Seq(Frame) /\ uplink # <<>> /\ EntityInv(ent) /\ SAPI = 0
  BY ContentionAssumption DEF ContentionInv, TypeOK, Receive
<1>2. Head(uplink) \in Frame /\ FromHandset(Head(uplink))
  <2>1. Head(uplink) = uplink[1] /\ 1 \in 1 .. Len(uplink)
    BY <1>1
  <2> QED  BY <1>1, <2>1 DEF ContentionInv
<1>3. fromL1(ent, Head(uplink)) \in Entity
  BY <1>1, <1>2, fromL1Type
<1>4. Outcome(ent, fromL1(ent, Head(uplink)), Head(uplink))
  BY <1>1, <1>2, fromL1Outcome
<1>5. heard' = Hears(ent, Head(uplink), heard)
  BY DEF Receive, Hears
<1> QED  BY <1>2, <1>3, <1>4, <1>5 DEF Receive

\* What is left on the uplink was there.
LEMMA TailInv ==
  ASSUME NEW q \in Seq(Frame), q # <<>>, \A i \in 1 .. Len(q) : FromHandset(q[i])
  PROVE  Tail(q) \in Seq(Frame) /\ \A i \in 1 .. Len(Tail(q)) : FromHandset(Tail(q)[i])
<1>1. \A i \in 1 .. Len(Tail(q)) : i + 1 \in 1 .. Len(q) /\ Tail(q)[i] = q[i + 1]
  OBVIOUS
<1> QED  BY <1>1

\* A frame that the station receives.
LEMMA ReceiveInv ==
  ASSUME ContentionInv, Receive
  PROVE  ContentionInv'
<1>1. PICK f \in Frame, t \in Entity :
        /\ FromHandset(f) /\ Outcome(ent, t, f) /\ ent' = topOfServiceLoop(t, FALSE)
        /\ heard' = Hears(ent, f, heard)
        /\ uplink' = Tail(uplink) /\ UNCHANGED <<phone, frames>>
  BY ReceiveOutcome
<1>2. /\ EntityInv(t) /\ Hears(ent, f, heard) \in Seq(Segment)
      /\ AdmissionInv(t, Connected \cup Echoed(t.tx), Hears(ent, f, heard))
  BY <1>1, AdmittedIs, OutcomeAdmission DEF ContentionInv, TypeOK, Connected
<1>3. /\ ent' \in Entity /\ ent'.state = t.state /\ ent'.l1 = t.l1 /\ ent'.check = t.check
      /\ ent'.tx = t.tx /\ ent'.estInProgress = t.estInProgress
  BY <1>1, TopKeeps
<1>4. EntityInv(ent')
  BY <1>2, <1>3 DEF EntityInv, inMultiframe
<1>5. Admitted' = Connected \cup Echoed(t.tx)
  BY <1>1, <1>3 DEF Admitted, Connected, Echoed
<1>6. AdmissionInv(ent', Admitted', heard')
  BY <1>1, <1>2, <1>3, <1>5 DEF AdmissionInv
<1>7. uplink' \in Seq(Frame) /\ \A i \in 1 .. Len(uplink') : FromHandset(uplink'[i])
  BY <1>1, TailInv DEF ContentionInv, TypeOK, Receive
<1> QED  BY <1>1, <1>2, <1>3, <1>4, <1>6, <1>7 DEF ContentionInv, TypeOK

\* A frame is lost.
LEMMA LoseFewer ==
  ASSUME ContentionInv, Lose
  PROVE  ContentionInv' /\ Admitted' \subseteq Admitted
<1>1. uplink' \in Seq(Frame) /\ \A i \in 1 .. Len(uplink') : FromHandset(uplink'[i])
  BY TailInv DEF ContentionInv, TypeOK, Lose
<1>2. TypeOK' /\ Admitted' = Admitted
  BY <1>1 DEF ContentionInv, TypeOK, Lose, Admitted, Connected
<1> QED  BY <1>1, <1>2, Fewer DEF Lose

\* The channel is closed, and sends nothing more.
LEMMA HardReleaseFewer ==
  ASSUME ContentionInv, HardRelease
  PROVE  ContentionInv' /\ Admitted' \subseteq Admitted
<1>1. ent \in Entity /\ SAPI = 0
  BY ContentionAssumption DEF ContentionInv, TypeOK
<1>2. Closes(ent, ent', Idle)
  BY <1>1, releasesClose DEF HardRelease
<1>3. Grows(ent.tx, ent'.tx, NoEcho) /\ ent.tx \in Seq(Frame) /\ ent'.tx \in Seq(Frame)
  BY <1>1, <1>2, AnswersEcho, GrowsMore DEF Closes, Entity
<1>4. Admitted' \subseteq Admitted
  <2>1. Echoed(ent'.tx) \subseteq Echoed(ent.tx)
    BY <1>3, EchoesNobody
  <2>2. Admitted' = Connected \cup Echoed(ent'.tx)
    BY DEF Admitted, Connected, Echoed, HardRelease
  <2> QED  BY <2>1, <2>2, AdmittedIs
<1> QED
  BY <1>2, <1>4
  DEF ContentionInv, TypeOK, HardRelease, Closes, EntityInv, inMultiframe, AdmissionInv

\* Every step keeps the invariant.
LEMMA NextContentionInv == ContentionInv /\ [Next]_vars => ContentionInv'
<1> SUFFICES ASSUME ContentionInv, [Next]_vars PROVE ContentionInv'
  OBVIOUS
<1>1. ASSUME NEW p \in Phone, Call(p) \/ Speak(p) \/ HangUp(p) PROVE ContentionInv'
  BY <1>1, HandsetFewer
<1>2. CASE Downlink
  BY <1>2, DownlinkFewer
<1>3. CASE Receive
  BY <1>3, ReceiveInv
<1>4. CASE Lose
  BY <1>4, LoseFewer
<1>5. CASE HardRelease
  BY <1>5, HardReleaseFewer
<1>6. CASE UNCHANGED vars
  BY <1>6 DEF vars, ContentionInv, TypeOK, Admitted, Connected
<1> QED  BY <1>1, <1>2, <1>3, <1>4, <1>5, <1>6 DEF Next

\* The invariant holds of every behaviour.
THEOREM ContentionInvariant == Spec => []ContentionInv
<1> QED  BY InitContentionInv, NextContentionInv, PTL DEF Spec

\* TypeOK, in every reachable state.
THEOREM TypeCorrect == Spec => []TypeOK
<1>1. ContentionInv => TypeOK
  BY DEF ContentionInv
<1> QED  BY ContentionInvariant, <1>1, PTL

\* Of handsets with different checksums only those are admitted that have the checksum the
\* station heard first, until it has heard that checksum twice: however the SABMs and their
\* echoes are repeated, lost and interleaved, for any number of handsets and any checksums.
THEOREM OneContender == Spec => []OnlyTheContender
<1>1. ContentionInv => OnlyTheContender
  BY DEF ContentionInv, AdmissionInv, Entitled, OnlyTheContender
<1> QED  BY ContentionInvariant, <1>1, PTL

----------------------------------------------------------------------------
(* No late handset *)

\* Once the establishment is over, no step admits a handset.
LEMMA NobodyLate ==
  ContentionInv /\ [Next]_vars
    => [inMultiframe(ent) /\ ~ent.estInProgress => Admitted' \subseteq Admitted]_vars
<1> SUFFICES ASSUME ContentionInv, Next, inMultiframe(ent), ~ent.estInProgress
             PROVE  Admitted' \subseteq Admitted
  OBVIOUS
<1>1. ASSUME NEW p \in Phone, Call(p) \/ Speak(p) \/ HangUp(p)
      PROVE  Admitted' \subseteq Admitted
  BY <1>1, HandsetFewer
<1>2. CASE Receive
  <2>1. PICK f \in Frame, t \in Entity :
          Outcome(ent, t, f) /\ ent' = topOfServiceLoop(t, FALSE) /\ phone' = phone
    BY <1>2, ReceiveOutcome
  <2>2. t = ent \/ StaysReleased(ent, t, f) \/ Ends(ent, t, f)
    BY <2>1 DEF Outcome, Contends, Echoes, inMultiframe
  <2>3. ent.tx \in Seq(Frame) /\ t.tx \in Seq(Frame)
    BY DEF ContentionInv, TypeOK, Entity
  <2>4. Echoed(t.tx) \subseteq Echoed(ent.tx)
    BY <2>2, <2>3, EchoesNobody DEF StaysReleased, Ends
  <2>5. Admitted' = Connected \cup Echoed(t.tx)
    BY <2>1, TopKeeps DEF Admitted, Connected, Echoed
  <2> QED  BY <2>4, <2>5, AdmittedIs
<1> QED  BY <1>1, <1>2, DownlinkFewer, LoseFewer, HardReleaseFewer DEF Next

\* NoLateHandset: a SABM that comes when the establishment is over admits nobody.
THEOREM NeverLate == Spec => NoLateHandset
<1> QED  BY ContentionInvariant, NobodyLate, PTL DEF Spec, NoLateHandset
============================================================================
