---------------------------- MODULE LAPDmEntity ----------------------------
(***************************************************************************)
(* One data link entity of the Um interface: class L2LAPDm of              *)
(* GSM/GSML2LAPDm.{h,cpp}, for one SAP of one dedicated channel.           *)
(*                                                                         *)
(* The entity is a record with one field per member variable, plus the     *)
(* program counter of the layer 3 thread, which blocks inside              *)
(* writeHighSide().  Every C++ method becomes an operator that takes the   *)
(* record to its new value, so that the calls nest as they do in the code. *)
(* All of them run with mLock held, except the two halves of               *)
(* sendUFrameSABM(), which writeHighSide() calls after unlocking.          *)
(*                                                                         *)
(* An I-frame payload is a Segment; an L3 message is a sequence of them.   *)
(***************************************************************************)
EXTENDS Naturals, Sequences

CONSTANTS
  SAPI,      \* service access point: 0 for signalling, 3 for SMS
  N200,      \* retransmission limit: 23 (SDCCH), 5 (SACCH), 34 (FACCH)
  SeqMod,    \* modulus of the frame numbers: 8 in the code
  Segment,   \* what one frame can carry
  Sum,       \* Sum[d] is BitVector::sum(), the number of ones of a frame with payload d
  TxBound    \* bound: frames between one L2 and the other; a further one is lost

ASSUME EntityAssumption ==
  /\ SAPI \in 0..3
  /\ N200 \in Nat
  /\ SeqMod \in Nat \ {0, 1}
  /\ Sum \in [Segment -> Nat]
  /\ TxBound \in Nat \ {0}

LAPDState == {"LinkReleased", "AwaitingEstablish", "AwaitingRelease",
              "LinkEstablished", "ContentionResolution"}

FrameType == {"SABM", "DISC", "UA", "DM", "UI", "I", "RR", "REJ"}

SeqNo == 0 .. SeqMod - 1

\* cmd is CR() = mC of the sender: the frame is a command, not a response.
Frame == [type : FrameType, pf : BOOLEAN, cmd : BOOLEAN, ns : SeqNo, nr : SeqNo,
          m : BOOLEAN, data : Seq(Segment)]

\* Where the layer 3 thread is: outside L2 (idle); past the unlocked look at mState of an
\* ESTABLISH (establish) or a RELEASE (release); between the unlock of an ESTABLISH and the
\* write of its SABM (sabm) and between that write and the start of T200 (sabmT200); in
\* waitForAck() from sendMultiframeData() (data) or after a DISC (disc).
Thread == {"idle", "establish", "sabm", "sabmT200", "data", "release", "disc"}

Entity == [state : LAPDState, VS : SeqNo, VA : SeqNo, VR : SeqNo, RC : Nat,
           T200 : BOOLEAN, estInProgress : BOOLEAN, discard : BOOLEAN,
           asleep : BOOLEAN,                            \* serviceLoop() waits for a frame alone
           recvBuffer : Seq(Segment), sentFrame : Frame, check : Nat,
           thread : Thread, todo : Seq(Segment),
           tx : Seq(Frame),                             \* handed to L1, not yet received
           l1 : {"closed", "fresh", "open"},            \* receiving side of L1
           l3 : {"ESTABLISH", "RELEASE", "HARDRELEASE"},\* last link primitive given to L3
           got : Seq(Seq(Segment))]                     \* DATA given to L3 since clearCounters

----------------------------------------------------------------------------
(* Frames *)

UFrame(type, pf, d) ==
  [type |-> type, pf |-> pf, cmd |-> type \in {"SABM", "DISC", "UI"},
   ns |-> 0, nr |-> 0, m |-> FALSE, data |-> d]

SFrame(type, pf, nr) ==
  [type |-> type, pf |-> pf, cmd |-> FALSE, ns |-> 0, nr |-> nr, m |-> FALSE, data |-> <<>>]

IFrame(ns, nr, m, seg) ==
  [type |-> "I", pf |-> FALSE, cmd |-> TRUE, ns |-> ns, nr |-> nr, m |-> m, data |-> <<seg>>]

IdleFrame == UFrame("UI", FALSE, <<>>)

\* Mutant: the sequence number does not wrap.
Next8Unwrapped(n) == n + 1

Next8(n) == (n + 1) % SeqMod

----------------------------------------------------------------------------
(* Sending.  writeL1() also carries the primitives RELEASE and HARDRELEASE, *)
(* on which L1 closes its receiver (XCCHL1Encoder::writeHighSide).          *)

writeL1(s, f) == IF Len(s.tx) < TxBound THEN [s EXCEPT !.tx = Append(@, f)] ELSE s

writeL1Ack(s, f) == [writeL1(s, f) EXCEPT !.sentFrame = f, !.T200 = TRUE]

\* SDCCHL2; SACCHL2 and FACCHL2 override it to do nothing.
sendIdle(s) == writeL1(s, IdleFrame)

sendUFrameUA(s, f) == writeL1(s, UFrame("UA", f.pf, f.data))

sendUFrameDM(s, pf) == writeL1(s, UFrame("DM", pf, <<>>))

sendIFrame(s, seg, m) ==
  writeL1Ack([s EXCEPT !.VS = Next8(@)], IFrame(s.VS, s.VR, m, seg))

----------------------------------------------------------------------------
(* State changes *)

\* Mutant: the timer goes on.
clearCountersTimed(s) ==
  [s EXCEPT !.VS = 0, !.VA = 0, !.VR = 0, !.RC = 0, !.recvBuffer = <<>>, !.discard = TRUE,
            !.got = <<>>]

clearCounters(s) ==
  [s EXCEPT !.T200 = FALSE, !.VS = 0, !.VA = 0, !.VR = 0, !.RC = 0,
            !.recvBuffer = <<>>, !.discard = TRUE, !.got = <<>>]

\* Mutant: layer 3 is not told.
releaseLinkSilently(s, releaseType) ==
  [s EXCEPT !.state = "LinkReleased", !.estInProgress = FALSE,
            !.l1 = IF SAPI = 0 THEN "closed" ELSE @]

releaseLink(s, releaseType) ==
  [s EXCEPT !.state = "LinkReleased", !.estInProgress = FALSE, !.l3 = releaseType,
            !.l1 = IF SAPI = 0 THEN "closed" ELSE @]

clearState(s) == releaseLink(clearCounters(s), "RELEASE")

abnormalRelease(s) == clearState(sendUFrameDM(s, TRUE))

unexpectedMessage(s) == abnormalRelease(s)

processAck(s, nr) ==
  IF nr = s.VS THEN [s EXCEPT !.VA = nr, !.RC = 0, !.T200 = FALSE]
               ELSE [s EXCEPT !.VA = nr]

\* Mutant: the buffer is not cleared once its message is delivered.
bufferIFrameDataKept(s, f) ==
  LET whole == s.recvBuffer \o f.data
  IN  [s EXCEPT !.recvBuffer = whole, !.got = IF f.m THEN @ ELSE Append(@, whole)]

bufferIFrameData(s, f) ==
  IF f.m THEN [s EXCEPT !.recvBuffer = @ \o f.data]
         ELSE [s EXCEPT !.recvBuffer = <<>>, !.got = Append(@, s.recvBuffer \o f.data)]

\* Mutant: the timer is not started again.
retransmitUntimed(s, f) == [writeL1(s, f) EXCEPT !.RC = @ + 1]

\* f is mSentFrame as it goes out again.
retransmissionProcedure(s, f) == [writeL1(s, f) EXCEPT !.RC = @ + 1, !.T200 = TRUE]

\* open() restarts the counters and the receiver and empties both FIFOs; it leaves
\* mEstablishmentInProgress and mSentFrame alone, and a thread blocked in waitForAck().
open(s) ==
  LET o == [clearCounters(s) EXCEPT !.state = "LinkReleased", !.l3 = "RELEASE",
                                    !.l1 = "fresh", !.tx = <<>>]
  IN  IF SAPI = 0 THEN sendIdle(o) ELSE o

\* Mutants: past N200 the link is neither retried nor released; the expiry does not end a release.
T200ExpirationGivesUp(s, f) ==
  LET r == [s EXCEPT !.T200 = FALSE] IN
  CASE s.state = "AwaitingRelease" -> releaseLink(r, "RELEASE")
    [] s.state = "LinkReleased"    -> r
    [] OTHER -> IF s.RC > N200 THEN r ELSE retransmissionProcedure(r, f)

T200ExpirationKeepsLink(s, f) ==
  LET r == [s EXCEPT !.T200 = FALSE] IN
  IF s.state \in {"AwaitingRelease", "LinkReleased"} THEN r
  ELSE IF s.RC > N200 THEN abnormalRelease(r) ELSE retransmissionProcedure(r, f)

T200Expiration(s, f) ==
  LET r == [s EXCEPT !.T200 = FALSE] IN
  CASE s.state = "AwaitingRelease" -> releaseLink(r, "RELEASE")
    [] s.state = "LinkReleased"    -> r
    [] OTHER -> IF s.RC > N200 THEN abnormalRelease(r) ELSE retransmissionProcedure(r, f)

----------------------------------------------------------------------------
(* Receiving, one operator per frame type *)

inMultiframe(s) == s.state \in {"ContentionResolution", "LinkEstablished"}

\* The checksum that compares two SABMs; they differ in their payloads alone.
sumOf(f) == IF f.data = <<>> THEN 0 ELSE Sum[f.data[1]]

\* Mutants: the checksum is not compared; an established link echoes whoever calls.
receiveUFrameSABMUnchecked(s, f) ==
  LET cleared == [clearCounters(s) EXCEPT !.estInProgress = TRUE, !.l3 = "ESTABLISH"] IN
  CASE s.state = "LinkReleased" ->
         sendUFrameUA([cleared EXCEPT !.state = "ContentionResolution", !.check = sumOf(f),
                                      !.got = <<f.data>>], f)
    [] s.state = "ContentionResolution" ->
         sendUFrameUA([s EXCEPT !.state = "LinkEstablished"], f)
    [] s.state = "LinkEstablished" ->
         IF s.estInProgress THEN sendUFrameUA(s, f) ELSE abnormalRelease(s)
    [] OTHER -> s

receiveUFrameSABMLate(s, f) ==
  LET cleared == [clearCounters(s) EXCEPT !.estInProgress = TRUE, !.l3 = "ESTABLISH"] IN
  CASE s.state = "LinkReleased" ->
         sendUFrameUA([cleared EXCEPT !.state = "ContentionResolution", !.check = sumOf(f),
                                      !.got = <<f.data>>], f)
    [] s.state = "LinkEstablished" -> sendUFrameUA(s, f)
    [] OTHER -> s

receiveUFrameSABM(s, f) ==
  LET cleared == [clearCounters(s) EXCEPT !.estInProgress = TRUE, !.l3 = "ESTABLISH"] IN
  CASE ~f.pf -> s
    [] f.pf /\ s.state = "LinkReleased" ->
         sendUFrameUA(IF f.data = <<>>
                      THEN [cleared EXCEPT !.state = "LinkEstablished"]
                      ELSE [cleared EXCEPT !.state = "ContentionResolution",
                                           !.check = sumOf(f), !.got = <<f.data>>], f)
    [] f.pf /\ s.state = "ContentionResolution" ->
         IF sumOf(f) # s.check THEN s
         ELSE sendUFrameUA([s EXCEPT !.state = "LinkEstablished"], f)
    [] f.pf /\ s.state = "AwaitingEstablish" -> writeL1(s, UFrame("UA", f.pf, <<>>))
    [] f.pf /\ s.state = "AwaitingRelease" -> sendUFrameDM(s, f.pf)
    [] f.pf /\ s.state = "LinkEstablished" ->
         IF s.estInProgress THEN sendUFrameUA(s, f)
         ELSE IF f.data # <<>> THEN abnormalRelease(s)
         ELSE clearCounters(sendUFrameUA(s, f))

receiveUFrameDISC(s, f) ==
  LET r == [s EXCEPT !.estInProgress = FALSE]
      ua == writeL1(r, UFrame("UA", f.pf, <<>>)) IN
  CASE s.state = "AwaitingEstablish" -> clearState(r)
    [] s.state = "LinkReleased"      -> clearState(sendUFrameDM(r, f.pf))
    [] s.state = "AwaitingRelease"   -> ua
    [] OTHER                         -> clearState(ua)

receiveUFrameUA(s, f) ==
  CASE ~f.pf -> unexpectedMessage(s)
    [] f.pf /\ s.state = "AwaitingEstablish" ->
         [clearCounters(s) EXCEPT !.state = "LinkEstablished", !.l3 = "ESTABLISH"]
    [] f.pf /\ s.state = "AwaitingRelease" -> clearState(s)
    [] f.pf /\ s.state = "LinkEstablished" -> s
    [] OTHER -> unexpectedMessage(s)

receiveUFrameDM(s, f) == IF s.state = "LinkReleased" \/ ~f.pf THEN s ELSE clearState(s)

receiveSFrameRR(s, f) ==
  IF ~inMultiframe(s) THEN s
  ELSE LET e == [s EXCEPT !.state = "LinkEstablished"]
       IN  processAck(IF f.cmd /\ f.pf THEN writeL1(e, SFrame("RR", TRUE, e.VR)) ELSE e, f.nr)

receiveSFrameREJ(s, f) ==
  LET acked == processAck([s EXCEPT !.state = "LinkEstablished"], f.nr)
      reply == IF f.pf THEN writeL1(acked, SFrame("RR", TRUE, acked.VR)) ELSE acked IN
  IF ~inMultiframe(s) THEN sendIdle(s)
  ELSE IF f.pf /\ ~f.cmd THEN unexpectedMessage(acked)
  ELSE sendIdle(sendIdle(reply))

\* Mutant: N(S) is not compared with V(R).
receiveIFrameAnyNS(s, f) ==
  LET acked == processAck([s EXCEPT !.state = "LinkEstablished", !.estInProgress = FALSE], f.nr)
      next == bufferIFrameData([acked EXCEPT !.VR = Next8(@)], f)
  IN  IF inMultiframe(s) THEN writeL1(next, SFrame("RR", f.pf, next.VR)) ELSE s

receiveIFrame(s, f) ==
  LET r == [s EXCEPT !.estInProgress = FALSE]
      acked == processAck([r EXCEPT !.state = "LinkEstablished"], f.nr)
      next == bufferIFrameData([acked EXCEPT !.VR = Next8(@)], f) IN
  IF ~inMultiframe(s) THEN r
  ELSE IF f.ns = s.VR THEN writeL1(next, SFrame("RR", f.pf, next.VR))
  ELSE writeL1(acked, SFrame("REJ", f.pf, acked.VR))

receiveSFrame(s, f) ==
  LET r == [s EXCEPT !.estInProgress = FALSE] IN
  IF f.type = "RR" THEN receiveSFrameRR(r, f) ELSE receiveSFrameREJ(r, f)

receiveFrame(s, f) ==
  CASE f.type = "I"            -> receiveIFrame(s, f)
    [] f.type \in {"RR", "REJ"} -> receiveSFrame(s, f)
    [] f.type = "SABM"         -> receiveUFrameSABM(s, f)
    [] f.type = "DISC"         -> receiveUFrameDISC(s, f)
    [] f.type = "UA"           -> receiveUFrameUA(s, f)
    [] f.type = "DM"           -> receiveUFrameDM(s, f)
    [] f.type = "UI"           -> s

\* L1 drops what arrives on a closed channel, and announces the first good frame
\* with the ESTABLISH primitive, on which L2 clears its counters.
fromL1(s, f) ==
  CASE s.l1 = "closed" -> s
    [] s.l1 = "fresh"  -> receiveFrame(clearCounters([s EXCEPT !.l1 = "open"]), f)
    [] s.l1 = "open"   -> receiveFrame(s, f)

----------------------------------------------------------------------------
(* The layer 3 thread: writeHighSide() by primitive *)

\* Mutant: the wait ends with the link up, acknowledged or not.
ackWaitSkipped(s) == s.state = "LinkReleased" \/ inMultiframe(s)

\* waitForAck() returns.
ackWaitOver(s) ==
  \/ s.state = "LinkReleased"
  \/ inMultiframe(s) /\ s.VS = s.VA

\* One turn of the loop of sendMultiframeData(), from waitForAck() on.
sendSegment(s) ==
  LET sent == sendIFrame([s EXCEPT !.todo = Tail(@)], Head(s.todo), Len(s.todo) > 1) IN
  IF s.discard \/ ~inMultiframe(s) THEN [s EXCEPT !.todo = <<>>, !.thread = "idle"]
  ELSE IF Len(s.todo) = 1 THEN [sent EXCEPT !.thread = "idle"]
  ELSE sent

sendMultiframeData(s, msg) ==
  LET begun == [s EXCEPT !.discard = FALSE, !.todo = msg, !.thread = "data"] IN
  IF s.state = "LinkReleased" THEN abnormalRelease(s)
  ELSE IF ackWaitOver(begun) THEN sendSegment(begun)
  ELSE begun

\* ESTABLISH looks at mState without the lock, locks, unlocks, and sends its SABM in two
\* steps without the lock.
establishRequest(s) ==
  IF s.state = "LinkEstablished" THEN s ELSE [s EXCEPT !.thread = "establish"]

awaitEstablish(s) ==
  [clearCounters(s) EXCEPT !.state = "AwaitingEstablish", !.thread = "sabm"]

writeSABM(s) ==
  LET f == UFrame("SABM", TRUE, <<>>)
  IN  [writeL1(s, f) EXCEPT !.sentFrame = f, !.thread = "sabmT200"]

startSABMTimer(s) == [s EXCEPT !.T200 = TRUE, !.thread = "idle"]

\* RELEASE looks at mState without the lock, waits for the outstanding acknowledgement,
\* sends a DISC and waits until the link is released.
releaseRequest(s) ==
  IF s.state = "LinkReleased" THEN s ELSE [s EXCEPT !.thread = "release"]

mayDisconnect(s) == s.state = "LinkEstablished" => ackWaitOver(s)

sendDISC(s) ==
  writeL1Ack([clearCounters(s) EXCEPT !.estInProgress = FALSE, !.state = "AwaitingRelease",
                                      !.thread = "disc"],
             UFrame("DISC", TRUE, <<>>))

\* Mutant: layer 3 gets a primitive that is no link primitive.
hardReleaseAsError(s) == releaseLink(clearCounters(s), "ERROR")

hardRelease(s) == releaseLink(clearCounters(s), "HARDRELEASE")

\* The top of serviceLoop().  Another SAP follows SAP0 into LinkReleased, and does nothing
\* else.  With no timer and no link the loop waits an hour for a frame; T200 can then be
\* started, but nobody looks at it before a frame comes.
topOfServiceLoop(s, masterReleased) ==
  LET state == IF masterReleased THEN "LinkReleased" ELSE s.state
  IN  [s EXCEPT !.state = state, !.asleep = state = "LinkReleased" /\ ~s.T200]

----------------------------------------------------------------------------
(* The entity as the constructor leaves it *)

NewEntity ==
  [state |-> "LinkReleased", VS |-> 0, VA |-> 0, VR |-> 0, RC |-> 0, T200 |-> FALSE,
   asleep |-> TRUE, estInProgress |-> FALSE, discard |-> TRUE, recvBuffer |-> <<>>, sentFrame |-> IdleFrame,
   check |-> 0, thread |-> "idle", todo |-> <<>>, tx |-> <<>>, l1 |-> "closed",
   l3 |-> "RELEASE", got |-> <<>>]
============================================================================
