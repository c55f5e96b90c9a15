---------------------- MODULE DedicatedChannelsProofs ----------------------
(***************************************************************************)
(* Proofs about DedicatedChannels, for any pools, phones and reserve.      *)
(*                                                                         *)
(* The first half holds whether phones and calls are in time or not: what  *)
(* timers run on a channel that is in use.  The second half is about those *)
(* that are (InTime): no two phones share a channel, and no two calls a    *)
(* TCH.                                                                    *)
(***************************************************************************)
EXTENDS DedicatedChannels, TLAPS

----------------------------------------------------------------------------
(* What opening, closing and a good frame do to the timers of a decoder *)

Timed(d) == \E t \in {"T3101", "T3109", "T3111"} : d[t] # "off"

\* An opened decoder, and a closed one, is a decoder with a timer set.
LEMMA OpenClose ==
  ASSUME NEW d, NEW hard \in BOOLEAN
  PROVE  /\ open(d) \in Decoder /\ Timed(open(d))
         /\ close(hard) \in Decoder /\ Timed(close(hard))
<1>1. open(d) \in Decoder /\ open(d).T3101 # "off"
  BY DEF open, Decoder, Timer
<1>2. close(hard) \in Decoder /\ close(hard).T3111 # "off"
  BY DEF close, Decoder, Timer
<1> QED  BY <1>1, <1>2 DEF Timed

\* A good frame sets T3109, also on a channel that has been closed meanwhile.
LEMMA GoodFrameTimed ==
  ASSUME NEW d \in Decoder
  PROVE  handleGoodFrame(d) \in Decoder /\ Timed(handleGoodFrame(d))
<1>1. handleGoodFrame(d) \in Decoder /\ handleGoodFrame(d).T3109 # "off"
  BY DEF handleGoodFrame, Decoder, Timer
<1> QED  BY <1>1 DEF Timed

\* A timer that expires is still set.
LEMMA ExpiredTimed ==
  ASSUME NEW d \in Decoder, NEW t \in {"T3101", "T3109", "T3111"}
  PROVE  [d EXCEPT ![t] = "expired"] \in Decoder /\ Timed([d EXCEPT ![t] = "expired"])
<1>1. CASE t = "T3101"  BY <1>1 DEF Decoder, Timer, Timed
<1>2. CASE t = "T3109"  BY <1>2 DEF Decoder, Timer, Timed
<1>3. CASE t = "T3111"  BY <1>3 DEF Decoder, Timer, Timed
<1> QED  BY <1>1, <1>2, <1>3

----------------------------------------------------------------------------
(* What the steps have in common *)

\* The decoders: the part of the invariant that NeverStranded is about.
Decoders == l1 \in [Channel -> Decoder] /\ \A c \in Channel : Timed(l1[c])

\* Opening a channel keeps the decoders, the links and what waits for layer 3.
LEMMA OpenKeeps ==
  ASSUME TypeOK, Decoders, NEW c \in Channel, Open(c)
  PROVE  /\ Decoders'
         /\ link' \in [Channel -> Phone \cup {None}]
         /\ estab' \subseteq SDCCH
<1>1. open(l1[c]) \in Decoder /\ Timed(open(l1[c]))
  BY OpenClose
<1>2. Decoders'
  BY <1>1 DEF Decoders, Open
<1> QED  BY <1>2 DEF TypeOK, Open

\* So does closing it.
LEMMA CloseKeeps ==
  ASSUME TypeOK, Decoders, NEW c \in Channel, NEW hard \in BOOLEAN, Close(c, hard)
  PROVE  Decoders' /\ link' \in [Channel -> Phone \cup {None}]
<1>1. close(hard) \in Decoder /\ Timed(close(hard))
  BY OpenClose
<1>2. Decoders'
  BY <1>1 DEF Decoders, Close
<1> QED  BY <1>2 DEF TypeOK, Close

\* So does a timer that expires.
LEMMA ExpiryKeeps ==
  ASSUME Decoders, NEW c \in Channel, NEW t \in {"T3101", "T3109", "T3111"}, Expires(c, t)
  PROVE  Decoders'
<1>1. l1[c] \in Decoder
  BY DEF Decoders
<1>2. [l1[c] EXCEPT ![t] = "expired"] \in Decoder /\ Timed([l1[c] EXCEPT ![t] = "expired"])
  BY <1>1, ExpiredTimed
<1>3. l1' = [l1 EXCEPT ![c] = [l1[c] EXCEPT ![t] = "expired"]]
  BY DEF Expires
<1> QED  BY <1>2, <1>3 DEF Decoders

ThreadState == [pc : {"waiting", "serving"}, tch : {None}]
               \cup [pc : {"starting", "assigning", "late"}, tch : TCH]

PhoneState == [at : Channel, is : {"coming", "linked", "leaving"}]
              \cup [at : {None}, is : {"away"}]

\* TypeOK, with its large conjuncts named.
LEMMA Types ==
  TypeOK <=> /\ l1 \in [Channel -> Decoder]
             /\ frame \in [Channel -> [phone : Phone \cup {None}, SABM : BOOLEAN]]
             /\ link \in [Channel -> Phone \cup {None}]
             /\ estab \subseteq SDCCH
             /\ thread \in [SDCCH -> ThreadState]
             /\ phone \in [Phone -> PhoneState]
             /\ grant \in [phone : Phone, chan : SDCCH] \cup [phone : {None}, chan : {None}]
  BY DEF TypeOK, ThreadState, PhoneState

\* A thread that returns, serves, or goes on with a TCH is a thread.
LEMMA ThreadKeeps ==
  ASSUME TypeOK, NEW c \in SDCCH, NEW pc, NEW tch, Thread(c, pc, tch),
         [pc |-> pc, tch |-> tch] \in ThreadState
  PROVE  thread' \in [SDCCH -> ThreadState]
  BY Types DEF Thread

\* A thread that sets up or assigns a call has a TCH.
LEMMA HasTCH ==
  ASSUME TypeOK, NEW c \in SDCCH, thread[c].pc \in {"starting", "assigning", "late"}
  PROVE  thread[c].tch \in TCH
<1>1. thread[c] \in ThreadState
  BY Types
<1> QED  BY <1>1 DEF ThreadState

----------------------------------------------------------------------------
(* Every step keeps the invariant *)

ChannelInv == TypeOK /\ NeverStranded

\* What TypeOK says of everything but the decoders.
OtherTypes ==
  /\ frame \in [Channel -> [phone : Phone \cup {None}, SABM : BOOLEAN]]
  /\ link \in [Channel -> Phone \cup {None}]
  /\ estab \subseteq SDCCH
  /\ thread \in [SDCCH -> ThreadState]
  /\ phone \in [Phone -> PhoneState]
  /\ grant \in [phone : Phone, chan : SDCCH] \cup [phone : {None}, chan : {None}]

\* The invariant in two parts, in this state and in the next.
LEMMA InvParts == (ChannelInv <=> Decoders /\ OtherTypes) /\ (ChannelInv <=> Decoders /\ OtherTypes)'
<1>1. ChannelInv <=> Decoders /\ OtherTypes
  BY DEF ChannelInv, TypeOK, OtherTypes, ThreadState, PhoneState, NeverStranded, Decoders, Timed
<1>2. (ChannelInv <=> Decoders /\ OtherTypes)'
  BY DEF ChannelInv, TypeOK, OtherTypes, ThreadState, PhoneState, NeverStranded, Decoders, Timed
<1> QED  BY <1>1, <1>2

\* The channels are open when the program starts, and T3101 runs.
LEMMA InitInv == Init => ChannelInv
<1> SUFFICES ASSUME Init PROVE ChannelInv
  OBVIOUS
<1>1. Decoders
  BY DEF Init, Decoders, Decoder, Timer, Timed
<1>2. /\ frame \in [Channel -> [phone : Phone \cup {None}, SABM : BOOLEAN]]
      /\ link \in [Channel -> Phone \cup {None}]
      /\ estab \subseteq SDCCH
  BY DEF Init, NoFrame
<1>3. thread \in [SDCCH -> ThreadState] /\ phone \in [Phone -> PhoneState]
  BY DEF Init, ThreadState, PhoneState
<1>4. grant \in [phone : {None}, chan : {None}]
  BY DEF Init
<1> QED  BY <1>1, <1>2, <1>3, <1>4, InvParts DEF OtherTypes

\* The access grant opens a channel before anybody has it.
LEMMA GrantInv ==
  ASSUME ChannelInv, NEW p \in Phone, AccessGrant(p) \/ SendAssignment
  PROVE  ChannelInv'
<1>1. CASE AccessGrant(p)
  <2>1. PICK c \in SDCCH : Open(c) /\ grant' = [phone |-> p, chan |-> c]
    BY <1>1 DEF AccessGrant, Available
  <2>2. c \in Channel
    BY DEF Channel
  <2>3. Decoders' /\ link' \in [Channel -> Phone \cup {None}] /\ estab' \subseteq SDCCH
    BY <2>1, <2>2, OpenKeeps, InvParts DEF ChannelInv, OtherTypes
  <2>4. UNCHANGED <<frame, thread, phone>>
    BY <1>1 DEF AccessGrant
  <2> QED  BY <2>1, <2>3, <2>4, InvParts DEF OtherTypes
<1>2. CASE SendAssignment
  <2>1. UNCHANGED <<l1, frame, link, estab, thread>>
    BY <1>2 DEF SendAssignment
  <2>2. grant.phone \in Phone /\ grant.chan \in Channel
    BY <1>2, InvParts DEF SendAssignment, Channel, OtherTypes
  <2>3. [at |-> grant.chan, is |-> "coming"] \in PhoneState
    BY <2>2 DEF PhoneState
  <2>4. phone' \in [Phone -> PhoneState]
    BY <1>2, <2>2, <2>3, InvParts DEF SendAssignment, OtherTypes
  <2>5. grant' \in [phone : {None}, chan : {None}]
    BY <1>2 DEF SendAssignment
  <2> QED  BY <2>1, <2>4, <2>5, InvParts DEF Decoders, OtherTypes
<1> QED  BY <1>1, <1>2

\* A phone on a channel is on one of the channels, in one of three states.
LEMMA PhoneIsOn ==
  ASSUME ChannelInv, NEW p \in Phone, phone[p].is \in {"coming", "linked", "leaving"}
  PROVE  /\ phone[p].at \in Channel
         /\ \A s \in {"coming", "linked", "leaving"} : [phone[p] EXCEPT !.is = s] \in PhoneState
<1>1. phone[p] \in PhoneState
  BY InvParts DEF OtherTypes
<1> QED  BY <1>1 DEF PhoneState

\* What the phones do.
LEMMA PhoneInv ==
  ASSUME ChannelInv, NEW p \in Phone, Burst(p) \/ Disconnect(p) \/ Leave(p)
  PROVE  ChannelInv'
<1>1. CASE Burst(p)
  <2>1. UNCHANGED <<l1, link, estab, thread, phone, grant>>
    BY <1>1 DEF Burst
  <2>2. frame' \in [Channel -> [phone : Phone \cup {None}, SABM : BOOLEAN]]
    BY <1>1, InvParts DEF Burst, OtherTypes
  <2> QED  BY <2>1, <2>2, InvParts DEF Decoders, OtherTypes
<1>2. CASE Disconnect(p)
  <2>1. phone[p].at \in Channel /\ [phone[p] EXCEPT !.is = "leaving"] \in PhoneState
    BY <1>2, PhoneIsOn DEF Disconnect
  <2>2. Decoders' /\ link' \in [Channel -> Phone \cup {None}]
    BY <1>2, <2>1, CloseKeeps, InvParts DEF Disconnect, ChannelInv, OtherTypes
  <2>3. phone' \in [Phone -> PhoneState]
    BY <1>2, <2>1, InvParts DEF Disconnect, OtherTypes
  <2>4. UNCHANGED <<frame, estab, thread, grant>>
    BY <1>2 DEF Disconnect
  <2> QED  BY <2>2, <2>3, <2>4, InvParts DEF OtherTypes
<1>3. CASE Leave(p)
  <2>1. UNCHANGED <<l1, frame, link, estab, thread, grant>>
    BY <1>3 DEF Leave
  <2>2. phone' \in [Phone -> PhoneState]
    BY <1>3, InvParts DEF Leave, Away, PhoneState, OtherTypes
  <2> QED  BY <2>1, <2>2, InvParts DEF Decoders, OtherTypes
<1> QED  BY <1>1, <1>2, <1>3

\* A frame that is handled, whatever has happened to the channel since it was accepted.
LEMMA GoodFrameInv ==
  ASSUME ChannelInv, NEW c \in Channel, GoodFrame(c)
  PROVE  ChannelInv'
<1>1. frame[c].phone \in Phone
  BY InvParts DEF GoodFrame, OtherTypes
<1>2. l1[c] \in Decoder /\ l1' = [l1 EXCEPT ![c] = handleGoodFrame(l1[c])]
  BY InvParts DEF GoodFrame, Decoders, OtherTypes
<1>3. Decoders'
  BY <1>2, GoodFrameTimed, InvParts DEF Decoders, OtherTypes
<1>4. frame' \in [Channel -> [phone : Phone \cup {None}, SABM : BOOLEAN]]
  BY InvParts DEF GoodFrame, NoFrame, OtherTypes
<1>5. link' \in [Channel -> Phone \cup {None}] /\ estab' \subseteq SDCCH
  BY <1>1, InvParts DEF GoodFrame, OtherTypes
<1>6. phone' \in [Phone -> PhoneState]
  <2>1. CASE phone[frame[c].phone] = [at |-> c, is |-> "coming"]
    <3>1. [phone[frame[c].phone] EXCEPT !.is = "linked"] \in PhoneState
      BY <2>1 DEF PhoneState
    <3> QED  BY <1>1, <3>1, InvParts DEF GoodFrame, OtherTypes
  <2>2. CASE phone[frame[c].phone] # [at |-> c, is |-> "coming"]
    BY <2>2, InvParts DEF GoodFrame, OtherTypes
  <2> QED  BY <2>1, <2>2
<1>7. UNCHANGED <<thread, grant>>
  BY DEF GoodFrame
<1> QED  BY <1>3, <1>4, <1>5, <1>6, <1>7, InvParts DEF OtherTypes

\* A link that fails is closed: T3111 is set.
LEMMA LinkFailsInv ==
  ASSUME ChannelInv, NEW c \in Channel, LinkFails(c)
  PROVE  ChannelInv'
<1>1. Decoders' /\ link' \in [Channel -> Phone \cup {None}]
  BY CloseKeeps, InvParts DEF LinkFails, ChannelInv, OtherTypes
<1>2. UNCHANGED <<frame, estab, thread, phone, grant>>
  BY DEF LinkFails
<1> QED  BY <1>1, <1>2, InvParts DEF OtherTypes

\* The timers.
LEMMA TimerInv ==
  ASSUME ChannelInv, NEW c \in Channel, T3101Expires(c) \/ T3109Expires(c) \/ T3111Expires(c)
  PROVE  ChannelInv'
<1>1. PICK t \in {"T3101", "T3109", "T3111"} : Expires(c, t)
  BY DEF T3101Expires, T3109Expires, T3111Expires
<1>2. Decoders'
  BY <1>1, ExpiryKeeps, InvParts DEF OtherTypes
<1>3. UNCHANGED <<frame, link, estab, phone, grant>>
  BY <1>1 DEF Expires
<1>4. thread' \in [SDCCH -> ThreadState]
  <2>1. ASSUME NEW d \in SDCCH, thread[d] = [pc |-> "assigning", tch |-> c]
        PROVE  [pc |-> "late", tch |-> c] \in ThreadState
    <3>1. thread[d].pc = "assigning" /\ thread[d].tch = c
      BY <2>1
    <3>2. c \in TCH
      BY <3>1, HasTCH DEF ChannelInv
    <3> QED  BY <3>2 DEF ThreadState
  <2>2. CASE T3101Expires(c)
    BY <2>1, <2>2, InvParts DEF T3101Expires, OtherTypes
  <2>3. CASE UNCHANGED thread
    BY <2>3, InvParts DEF OtherTypes
  <2> QED  BY <2>2, <2>3 DEF T3109Expires, T3111Expires
<1> QED  BY <1>2, <1>3, <1>4, InvParts DEF OtherTypes

\* The threads: one that has a TCH opens it, closes it, or leaves it to T3101.
LEMMA ThreadInv ==
  ASSUME ChannelInv, NEW c \in SDCCH, ThreadStep(c)
  PROVE  ChannelInv'
<1> DEFINE T == thread[c].tch
<1>1. TypeOK /\ Decoders /\ OtherTypes
  BY InvParts DEF ChannelInv
<1>2. SDCCH \subseteq Channel /\ TCH \subseteq Channel
  BY DEF Channel
<1>3. ASSUME thread[c].pc \in {"starting", "assigning", "late"}  PROVE T \in TCH
  BY <1>1, <1>3, HasTCH
<1>4. ASSUME Return(c)  PROVE thread' \in [SDCCH -> ThreadState]
  BY <1>1, <1>4, ThreadKeeps DEF Return, ThreadState
<1>5. CASE Dispatch(c)
  <2>1. thread' \in [SDCCH -> ThreadState]
    BY <1>1, <1>5, ThreadKeeps DEF Dispatch, ThreadState
  <2>2. UNCHANGED <<l1, frame, link, phone, grant>> /\ estab' = estab \ {c}
    BY <1>5 DEF Dispatch
  <2> QED  BY <1>1, <2>1, <2>2, InvParts DEF Decoders, OtherTypes
<1>6. CASE Finish(c) \/ SetupThrows(c)
  <2>1. thread' \in [SDCCH -> ThreadState]
    BY <1>4, <1>6 DEF Finish, SetupThrows
  <2>2. UNCHANGED <<l1, frame, link, phone, grant>> /\ estab' \subseteq estab
    BY <1>6 DEF Finish, SetupThrows
  <2> QED  BY <1>1, <2>1, <2>2, InvParts DEF Decoders, OtherTypes
<1>7. CASE Detach(c) \/ Assigned(c)
  <2>1. Close(c, TRUE) /\ Return(c) /\ UNCHANGED <<frame, estab, phone, grant>>
    BY <1>7 DEF Detach, Assigned
  <2>2. Decoders' /\ link' \in [Channel -> Phone \cup {None}]
    BY <1>1, <1>2, <2>1, CloseKeeps
  <2> QED  BY <1>1, <1>4, <2>1, <2>2, InvParts DEF OtherTypes
<1>8. CASE SetupFails(c)
  <2>1. Close(T, TRUE) /\ Return(c) /\ UNCHANGED <<frame, estab, phone, grant>> /\ T \in TCH
    BY <1>3, <1>8 DEF SetupFails
  <2>2. Decoders' /\ link' \in [Channel -> Phone \cup {None}]
    BY <1>1, <1>2, <2>1, CloseKeeps
  <2> QED  BY <1>1, <1>4, <2>1, <2>2, InvParts DEF OtherTypes
<1>9. CASE StartCall(c)
  <2>1. PICK t \in TCH : Open(t) /\ Thread(c, "starting", t)
    BY <1>9 DEF StartCall, Available
  <2>2. Decoders' /\ link' \in [Channel -> Phone \cup {None}] /\ estab' \subseteq SDCCH
    BY <1>1, <1>2, <2>1, OpenKeeps
  <2>3. thread' \in [SDCCH -> ThreadState]
    BY <1>1, <2>1, ThreadKeeps DEF ThreadState
  <2>4. UNCHANGED <<frame, phone, grant>>
    BY <1>9 DEF StartCall
  <2> QED  BY <1>1, <2>2, <2>3, <2>4, InvParts DEF OtherTypes
<1>10. CASE Assign(c)
  <2>1. /\ Open(T) /\ Thread(c, "assigning", T) /\ UNCHANGED <<frame, phone, grant>>
        /\ T \in TCH
    BY <1>3, <1>10 DEF Assign
  <2>2. Decoders' /\ link' \in [Channel -> Phone \cup {None}] /\ estab' \subseteq SDCCH
    BY <1>1, <1>2, <2>1, OpenKeeps
  <2>3. thread' \in [SDCCH -> ThreadState]
    BY <1>1, <2>1, ThreadKeeps DEF ThreadState
  <2> QED  BY <1>1, <2>1, <2>2, <2>3, InvParts DEF OtherTypes
<1>11. CASE AssignmentFails(c)
  <2>1. Return(c) /\ UNCHANGED <<frame, estab, grant>> /\ T \in TCH
    BY <1>3, <1>11 DEF AssignmentFails, Assigning
  <2>2. CASE UNCHANGED <<l1, link, phone>>
    BY <1>1, <1>4, <2>1, <2>2, InvParts DEF Decoders, OtherTypes
  <2>3. CASE /\ Close(T, FALSE)
             /\ phone' = [p \in Phone |->
                           IF p \in At(T) THEN [phone[p] EXCEPT !.is = "leaving"] ELSE phone[p]]
    <3>1. Decoders' /\ link' \in [Channel -> Phone \cup {None}]
      BY <1>1, <1>2, <2>1, <2>3, CloseKeeps
    <3>2. ASSUME NEW p \in At(T)  PROVE [phone[p] EXCEPT !.is = "leaving"] \in PhoneState
      <4>1. phone[p] \in PhoneState /\ phone[p].at \in Channel
        BY <1>1, <1>2, <2>1 DEF At, OtherTypes
      <4>2. phone[p].at # None
        BY <4>1, ChannelAssumption DEF Channel
      <4> QED  BY <4>1, <4>2 DEF PhoneState
    <3>3. phone' \in [Phone -> PhoneState]
      BY <1>1, <2>3, <3>2 DEF OtherTypes
    <3> QED  BY <1>1, <1>4, <2>1, <3>1, <3>3, InvParts DEF OtherTypes
  <2> QED  BY <1>11, <2>2, <2>3 DEF AssignmentFails
<1> QED  BY <1>5, <1>6, <1>7, <1>8, <1>9, <1>10, <1>11 DEF ThreadStep

\* A phone that is assigned the TCH of a thread is on a channel of the program.
LEMMA MoveInv ==
  ASSUME ChannelInv, NEW c \in SDCCH, Move(c)
  PROVE  ChannelInv'
<1>1. TypeOK /\ OtherTypes
  BY InvParts DEF ChannelInv
<1>2. thread[c].tch \in Channel
  BY <1>1, HasTCH DEF Move, Channel
<1>3. [at |-> thread[c].tch, is |-> "coming"] \in PhoneState
  BY <1>2 DEF PhoneState
<1>4. phone' \in [Phone -> PhoneState]
  BY <1>1, <1>3 DEF Move, OtherTypes
<1>5. UNCHANGED <<l1, frame, link, estab, thread, grant>>
  BY DEF Move
<1> QED  BY <1>4, <1>5, InvParts DEF Decoders, OtherTypes

\* A step that changes nothing.
LEMMA StutterInv == ASSUME ChannelInv, UNCHANGED vars PROVE ChannelInv'
  BY InvParts DEF vars, Decoders, OtherTypes

\* Every reachable state has the invariant, for any pools, phones and reserve, and whatever is
\* assumed of phones and calls.
THEOREM ChannelInvariant == Spec => []ChannelInv
<1>1. ASSUME ChannelInv, Next  PROVE ChannelInv'
  <2>1. CASE SendAssignment
    <3>1. CASE Phone = {}
      BY <1>1, <2>1, <3>1, InvParts DEF SendAssignment, OtherTypes
    <3>2. CASE Phone # {}
      BY <1>1, <2>1, <3>2, GrantInv
    <3> QED  BY <3>1, <3>2
  <2>2. CASE \E p \in Phone : AccessGrant(p) \/ Burst(p) \/ Disconnect(p) \/ Leave(p)
    BY <1>1, <2>2, GrantInv, PhoneInv
  <2>3. CASE \E c \in Channel : GoodFrame(c) \/ LinkFails(c)
    BY <1>1, <2>3, GoodFrameInv, LinkFailsInv
  <2>4. CASE \E c \in Channel : T3101Expires(c) \/ T3109Expires(c) \/ T3111Expires(c)
    BY <1>1, <2>4, TimerInv
  <2>5. CASE \E c \in SDCCH : ThreadStep(c) \/ Move(c)
    BY <1>1, <2>5, ThreadInv, MoveInv
  <2> QED  BY <1>1, <2>1, <2>2, <2>3, <2>4, <2>5 DEF Next
<1> QED  BY <1>1, InitInv, StutterInv, PTL DEF Spec

\* The types of every decoder, link, thread, phone and grant, TypeOK.
THEOREM ChannelTypes == Spec => []TypeOK
<1>1. ChannelInv => TypeOK
  BY DEF ChannelInv
<1> QED  BY <1>1, ChannelInvariant, PTL

\* No channel is ever without a timer that is running or has expired: recyclable() becomes
\* true of every channel that is left alone.
THEOREM AlwaysTimed == Spec => []NeverStranded
<1>1. ChannelInv => NeverStranded
  BY DEF ChannelInv
<1> QED  BY <1>1, ChannelInvariant, PTL

----------------------------------------------------------------------------
(* The inductive invariant of the users that are in time *)

InTime == PromptSetup /\ PromptPhone /\ CertainRelease

Empty(c) == \A p \in Phone : phone[p].at # c

\* The phone that was on c has gone to the TCH, and c waits for the thread.
Moved(c) ==
  /\ l1[c].T3101 = "off" /\ l1[c].T3109 = "running" /\ l1[c].T3111 = "off"
  /\ Empty(c) /\ grant.chan # c

\* The thread of c has t for its call, and may still send a phone there.
Wants(c, t) ==
  /\ thread[c].tch = t
  /\ thread[c].pc = "starting" \/ (thread[c].pc = "assigning" /\ ~Moved(c))

\* t has been opened, and nothing has reached it.
Fresh(t) ==
  /\ l1[t].T3101 = "running" /\ l1[t].T3109 = "off" /\ l1[t].T3111 = "off"
  /\ Empty(t) /\ frame[t] = NoFrame /\ link[t] = None

\* Nobody is on a channel that may be taken, or is about to be sent there, and the decoder of a
\* TCH has handled all that it accepted.
FreeIsEmpty ==
  \A c \in Channel :
    recyclable(l1[c]) => Empty(c) /\ grant.chan # c /\ (c \in TCH => frame[c] = NoFrame)

\* T3111 runs only where everybody is about to leave.
ClosingIsLeft ==
  \A p \in Phone :
    phone[p].at # None /\ l1[phone[p].at].T3111 = "running" => phone[p].is = "leaving"

\* A channel that has been granted is open, and waits for its phone.
GrantedIsEmpty ==
  \A c \in Channel : grant.chan = c => Empty(c) /\ l1[c].T3111 # "running"

\* The decoder of a phone that has a link has only T3109 running.
LinkedIsTimed ==
  \A p \in Phone :
    phone[p].is = "linked" =>
      /\ l1[phone[p].at].T3101 = "off"
      /\ l1[phone[p].at].T3109 = "running"
      /\ l1[phone[p].at].T3111 = "off"

\* A TCH that a thread wants is fresh, and no other thread wants it.
WantedIsFresh == \A c \in SDCCH, t \in TCH : Wants(c, t) => Fresh(t)
OneTaker == \A c, d \in SDCCH, t \in TCH : Wants(c, t) /\ Wants(d, t) => c = d

ExclusionInv ==
  /\ NoSharing
  /\ FreeIsEmpty
  /\ ClosingIsLeft
  /\ GrantedIsEmpty
  /\ LinkedIsTimed
  /\ WantedIsFresh
  /\ OneTaker

----------------------------------------------------------------------------
(* What the types say, and what the parts of a step do *)

\* The parts of the types that every step uses.
Parts ==
  /\ \A p \in Phone :
       /\ phone[p].at \in Channel \cup {None}
       /\ phone[p].at = None <=> phone[p].is = "away"
  /\ grant.chan \in SDCCH \cup {None}
  /\ grant.phone # None => grant.phone \in Phone /\ grant.chan \in SDCCH
  /\ \A c \in SDCCH : thread[c].pc \in {"starting", "assigning", "late"} => thread[c].tch \in TCH

LEMMA PartsLemma == (TypeOK => Parts) /\ (TypeOK => Parts)'
<1>1. TypeOK => Parts
  <2> SUFFICES ASSUME TypeOK PROVE Parts
    OBVIOUS
  <2>1. \A p \in Phone : phone[p] \in PhoneState
    BY Types
  <2>2. \A p \in Phone : /\ phone[p].at \in Channel \cup {None}
                         /\ phone[p].at = None <=> phone[p].is = "away"
    BY <2>1, ChannelAssumption DEF PhoneState, Channel
  <2>3. grant \in [phone : Phone, chan : SDCCH] \cup [phone : {None}, chan : {None}]
    BY Types
  <2>4. \A c \in SDCCH : thread[c].pc \in {"starting", "assigning", "late"} => thread[c].tch \in TCH
    BY HasTCH
  <2> QED BY <2>2, <2>3, <2>4 DEF Parts
<1>2. (TypeOK => Parts)'
  BY <1>1, PTL
<1> QED BY <1>1, <1>2

\* A decoder is recyclable when one of its timers has expired.
LEMMA RecyclableTimer ==
  ASSUME NEW d
  PROVE  recyclable(d) <=> d.T3101 = "expired" \/ d.T3109 = "expired" \/ d.T3111 = "expired"
  BY DEF recyclable

\* Nobody is on the way to, or on, a channel that is cleared.
LEMMA ClearedIsEmpty == \A c : Cleared(c) <=> Empty(c) /\ grant.chan # c
  BY DEF Cleared, At, Empty

\* Open(c) starts T3101 and drops the link, and leaves the other channels alone.
LEMMA OpenEffect ==
  ASSUME TypeOK, NEW c \in Channel, Open(c)
  PROVE  /\ l1'[c].T3101 = "running" /\ l1'[c].T3109 = "off" /\ l1'[c].T3111 = "off"
         /\ ~recyclable(l1'[c])
         /\ link'[c] = None
         /\ \A d \in Channel : d # c => l1'[d] = l1[d] /\ link'[d] = link[d]
<1>1. /\ l1' = [l1 EXCEPT ![c] = open(l1[c])]
      /\ link' = [link EXCEPT ![c] = None]
      /\ l1 \in [Channel -> Decoder]
      /\ link \in [Channel -> Phone \cup {None}]
  BY DEF Open, TypeOK
<1>2. l1'[c] = open(l1[c]) /\ link'[c] = None
  BY <1>1
<1>3. \A d \in Channel : d # c => l1'[d] = l1[d] /\ link'[d] = link[d]
  BY <1>1
<1>4. l1'[c].T3101 = "running" /\ l1'[c].T3109 = "off" /\ l1'[c].T3111 = "off"
  BY <1>2 DEF open
<1>5. ~recyclable(l1'[c])
  BY <1>4, RecyclableTimer
<1> QED BY <1>2, <1>3, <1>4, <1>5

\* Close(c, hard) leaves only T3111, which has expired if the release is hard.
LEMMA CloseEffect ==
  ASSUME TypeOK, NEW c \in Channel, NEW hard \in BOOLEAN, Close(c, hard)
  PROVE  /\ l1'[c].T3101 = "off" /\ l1'[c].T3109 = "off"
         /\ l1'[c].T3111 = IF hard THEN "expired" ELSE "running"
         /\ recyclable(l1'[c]) <=> hard
         /\ \A d \in Channel : d # c => l1'[d] = l1[d] /\ link'[d] = link[d]
<1>1. /\ l1' = [l1 EXCEPT ![c] = close(hard)]
      /\ link' = [link EXCEPT ![c] = None]
      /\ l1 \in [Channel -> Decoder]
      /\ link \in [Channel -> Phone \cup {None}]
  BY DEF Close, TypeOK
<1>2. l1'[c] = close(hard)
  BY <1>1
<1>3. \A d \in Channel : d # c => l1'[d] = l1[d] /\ link'[d] = link[d]
  BY <1>1
<1>4. /\ l1'[c].T3101 = "off" /\ l1'[c].T3109 = "off"
      /\ l1'[c].T3111 = IF hard THEN "expired" ELSE "running"
  BY <1>2 DEF close
<1>5. recyclable(l1'[c]) <=> hard
  BY <1>4, RecyclableTimer
<1> QED BY <1>3, <1>4, <1>5

\* A timer that expires frees its channel, whose decoder has nothing to do.
LEMMA ExpireEffect ==
  ASSUME TypeOK, NEW c \in Channel, NEW t \in {"T3101", "T3109", "T3111"}, Expires(c, t)
  PROVE  /\ l1[c][t] = "running"
         /\ \A d \in Channel : d # c => l1'[d] = l1[d]
         /\ frame[c] = NoFrame
         /\ UNCHANGED <<frame, link, phone, grant>>
  BY DEF Expires, TypeOK

\* A thread that goes on leaves the other threads alone.
LEMMA ThreadEffect ==
  ASSUME TypeOK, NEW c \in SDCCH, NEW pc, NEW tch, Thread(c, pc, tch)
  PROVE  /\ thread'[c].pc = pc /\ thread'[c].tch = tch
         /\ \A d \in SDCCH : d # c => thread'[d] = thread[d]
  BY DEF Thread, TypeOK

\* A step after which no thread wants a TCH that it did not want before, and that leaves the
\* wanted ones fresh.
LEMMA WantedKept ==
  ASSUME WantedIsFresh, OneTaker,
         \A c \in SDCCH, t \in TCH : Wants(c, t)' => Wants(c, t) /\ (Fresh(t) => Fresh(t)')
  PROVE  WantedIsFresh' /\ OneTaker'
  BY DEF WantedIsFresh, OneTaker

----------------------------------------------------------------------------
(* The steps of the access grant and of the phones *)

\* The access grant takes an empty channel, and nobody else is sent there meanwhile.
LEMMA GrantExclusive ==
  ASSUME TypeOK, TypeOK', ExclusionInv, NEW p \in Phone, AccessGrant(p)
  PROVE  ExclusionInv'
<1>1. PICK c \in SDCCH : recyclable(l1[c]) /\ Open(c) /\ grant' = [phone |-> p, chan |-> c]
  BY DEF AccessGrant, Available
<1>2. UNCHANGED <<frame, thread, phone>> /\ grant'.chan = c
  BY <1>1 DEF AccessGrant
<1>3. c \in Channel /\ c \notin TCH /\ SDCCH \subseteq Channel /\ TCH \subseteq Channel
  BY ChannelAssumption DEF Channel
<1>4. /\ l1'[c].T3101 = "running" /\ l1'[c].T3109 = "off" /\ l1'[c].T3111 = "off"
      /\ ~recyclable(l1'[c])
      /\ \A d \in Channel : d # c => l1'[d] = l1[d] /\ link'[d] = link[d]
  BY <1>1, <1>3, OpenEffect
<1>5. Empty(c) /\ grant.chan # c
  BY <1>1, <1>3 DEF ExclusionInv, FreeIsEmpty
<1>6. Parts
  BY PartsLemma
<1>7. NoSharing'
  BY <1>2 DEF ExclusionInv, NoSharing
<1>8. FreeIsEmpty'
  BY <1>2, <1>4 DEF ExclusionInv, FreeIsEmpty, Empty
<1>9. ClosingIsLeft'
  BY <1>2, <1>4, <1>5, <1>6 DEF ExclusionInv, ClosingIsLeft, Empty, Parts
<1>10. GrantedIsEmpty'
  BY <1>2, <1>4, <1>5 DEF GrantedIsEmpty, Empty
<1>11. LinkedIsTimed'
  <2>1. \A q \in Phone : phone[q].is = "linked" => phone[q].at \in Channel /\ phone[q].at # c
    BY <1>5, <1>6 DEF Empty, Parts
  <2> QED BY <1>2, <1>4, <2>1 DEF ExclusionInv, LinkedIsTimed
<1>12. ASSUME NEW d \in SDCCH, Moved(d)  PROVE Moved(d)'
  <2>1. d # c
    BY <1>1, <1>12, RecyclableTimer DEF Moved
  <2> QED BY <1>2, <1>3, <1>4, <1>12, <2>1 DEF Moved, Empty
<1>13. ASSUME NEW d \in SDCCH, NEW t \in TCH, Wants(d, t)'
       PROVE  Wants(d, t) /\ (Fresh(t) => Fresh(t)')
  <2>1. Wants(d, t)
    BY <1>2, <1>12, <1>13 DEF Wants
  <2>2. Fresh(t) => Fresh(t)'
    BY <1>2, <1>3, <1>4 DEF Fresh, Empty
  <2> QED BY <2>1, <2>2
<1>14. WantedIsFresh' /\ OneTaker'
  BY <1>13, WantedKept DEF ExclusionInv
<1> QED BY <1>7, <1>8, <1>9, <1>10, <1>11, <1>14 DEF ExclusionInv

\* The phone that has been granted a channel arrives on it, and nobody is there.
LEMMA SendExclusive ==
  ASSUME TypeOK, TypeOK', ExclusionInv, SendAssignment
  PROVE  ExclusionInv'
<1> DEFINE g == grant.phone
           c == grant.chan
<1>1. g \in Phone /\ c \in SDCCH /\ Parts
  BY PartsLemma DEF Parts, SendAssignment
<1>2. UNCHANGED <<l1, frame, link, estab, thread>> /\ grant'.chan = None
  BY DEF SendAssignment
<1>3. /\ c \in Channel /\ c \notin TCH /\ SDCCH \subseteq Channel /\ TCH \subseteq Channel
      /\ None \notin Channel
  BY <1>1, ChannelAssumption DEF Channel
<1>4. /\ \A q \in Phone : q # g => phone'[q] = phone[q]
      /\ phone'[g] = phone[g] \/ phone'[g] = [at |-> c, is |-> "coming"]
  BY <1>1 DEF SendAssignment, TypeOK
<1>5. \A q \in Phone : \/ phone'[q] = phone[q]
                       \/ q = g /\ phone'[q].at = c /\ phone'[q].is = "coming"
  BY <1>4
<1>6. Empty(c) /\ l1[c].T3111 # "running"
  BY <1>3 DEF ExclusionInv, GrantedIsEmpty
<1> HIDE DEF g, c
<1>7. \A d \in Channel : d # c /\ Empty(d) => Empty(d)'
  BY <1>5 DEF Empty
<1>8. NoSharing'
  BY <1>5, <1>6 DEF ExclusionInv, NoSharing, Empty
<1>9. FreeIsEmpty'
  BY <1>2, <1>3, <1>7 DEF ExclusionInv, FreeIsEmpty, c
<1>10. ClosingIsLeft'
  BY <1>2, <1>5, <1>6 DEF ExclusionInv, ClosingIsLeft
<1>11. GrantedIsEmpty'
  BY <1>2, <1>3 DEF GrantedIsEmpty
<1>12. LinkedIsTimed'
  BY <1>2, <1>5 DEF ExclusionInv, LinkedIsTimed
<1>13. ASSUME NEW d \in SDCCH, Moved(d)  PROVE Moved(d)'
  BY <1>2, <1>3, <1>7, <1>13 DEF Moved, c
<1>14. ASSUME NEW d \in SDCCH, NEW t \in TCH, Wants(d, t)'
       PROVE  Wants(d, t) /\ (Fresh(t) => Fresh(t)')
  <2>1. Wants(d, t)
    BY <1>2, <1>13, <1>14 DEF Wants
  <2>2. Fresh(t) => Fresh(t)'
    BY <1>2, <1>3, <1>7 DEF Fresh
  <2> QED BY <2>1, <2>2
<1>15. WantedIsFresh' /\ OneTaker'
  BY <1>14, WantedKept DEF ExclusionInv
<1> QED BY <1>8, <1>9, <1>10, <1>11, <1>12, <1>15 DEF ExclusionInv

\* A burst is accepted on a channel that is not free, from a phone that is there.
LEMMA BurstExclusive ==
  ASSUME TypeOK, TypeOK', ExclusionInv, NEW p \in Phone, Burst(p)
  PROVE  ExclusionInv'
<1> DEFINE c == phone[p].at
<1>1. UNCHANGED <<l1, link, estab, thread, phone, grant>> /\ ~recyclable(l1[c])
  BY DEF Burst, active
<1>2. \A d \in Channel : d # c => frame'[d] = frame[d]
  BY DEF Burst, TypeOK
<1> HIDE DEF c
<1>3. FreeIsEmpty'
  BY <1>1, <1>2, ChannelAssumption DEF ExclusionInv, FreeIsEmpty, Empty, Channel
<1>4. ASSUME NEW t \in TCH, Fresh(t)  PROVE Fresh(t)'
  <2>1. t # c
    BY <1>4 DEF Fresh, Empty, c
  <2> QED BY <1>1, <1>2, <1>4, <2>1 DEF Fresh, Empty, Channel
<1>5. ASSUME NEW d \in SDCCH, NEW t \in TCH, Wants(d, t)'
      PROVE  Wants(d, t) /\ (Fresh(t) => Fresh(t)')
  BY <1>1, <1>4, <1>5 DEF Wants, Moved, Empty
<1>6. WantedIsFresh' /\ OneTaker'
  BY <1>5, WantedKept DEF ExclusionInv
<1>7. NoSharing' /\ ClosingIsLeft' /\ GrantedIsEmpty' /\ LinkedIsTimed'
  BY <1>1 DEF ExclusionInv, NoSharing, ClosingIsLeft, GrantedIsEmpty, LinkedIsTimed, Empty
<1> QED BY <1>3, <1>6, <1>7 DEF ExclusionInv

\* A phone that goes leaves its channel to itself.
LEMMA LeaveExclusive ==
  ASSUME TypeOK, TypeOK', ExclusionInv, NEW p \in Phone, Leave(p)
  PROVE  ExclusionInv'
<1>1. UNCHANGED <<l1, frame, link, estab, thread, grant>>
  BY DEF Leave
<1>2. \A q \in Phone : phone'[q] = phone[q] \/ (phone'[q].at = None /\ phone'[q].is = "away")
  BY DEF Leave, Away, TypeOK
<1>3. None \notin Channel /\ SDCCH \subseteq Channel /\ TCH \subseteq Channel
  BY ChannelAssumption DEF Channel
<1>4. \A d \in Channel : Empty(d) => Empty(d)'
  BY <1>2, <1>3 DEF Empty
<1>5. NoSharing'
  BY <1>2 DEF ExclusionInv, NoSharing
<1>6. FreeIsEmpty'
  BY <1>1, <1>4 DEF ExclusionInv, FreeIsEmpty
<1>7. ClosingIsLeft'
  BY <1>1, <1>2 DEF ExclusionInv, ClosingIsLeft
<1>8. GrantedIsEmpty'
  BY <1>1, <1>4 DEF ExclusionInv, GrantedIsEmpty
<1>9. LinkedIsTimed'
  BY <1>1, <1>2 DEF ExclusionInv, LinkedIsTimed
<1>10. ASSUME NEW d \in SDCCH, NEW t \in TCH, Wants(d, t)'
       PROVE  Wants(d, t) /\ (Fresh(t) => Fresh(t)')
  <2>1. Moved(d) => Moved(d)'
    BY <1>1, <1>3, <1>4 DEF Moved
  <2>2. Fresh(t) => Fresh(t)'
    BY <1>1, <1>3, <1>4 DEF Fresh
  <2> QED BY <1>1, <1>10, <2>1, <2>2 DEF Wants
<1>11. WantedIsFresh' /\ OneTaker'
  BY <1>10, WantedKept DEF ExclusionInv
<1> QED BY <1>5, <1>6, <1>7, <1>8, <1>9, <1>11 DEF ExclusionInv

\* A phone that disconnects is alone on its channel.
LEMMA DisconnectExclusive ==
  ASSUME TypeOK, TypeOK', ExclusionInv, NEW p \in Phone, Disconnect(p)
  PROVE  ExclusionInv'
<1> DEFINE c == phone[p].at
<1>1. Parts /\ phone[p].is = "linked"
  BY PartsLemma DEF Disconnect
<1>2. c \in Channel /\ None \notin Channel /\ SDCCH \subseteq Channel /\ TCH \subseteq Channel
  BY <1>1, ChannelAssumption DEF Parts, Channel
<1>3. Close(c, FALSE) /\ UNCHANGED <<frame, estab, thread, grant>>
  BY DEF Disconnect
<1>4. /\ l1'[c].T3101 = "off" /\ l1'[c].T3109 = "off" /\ l1'[c].T3111 = "running"
      /\ ~recyclable(l1'[c])
      /\ \A d \in Channel : d # c => l1'[d] = l1[d] /\ link'[d] = link[d]
  BY <1>2, <1>3, CloseEffect
<1>5. /\ \A q \in Phone : q # p => phone'[q] = phone[q]
      /\ phone'[p].at = c /\ phone'[p].is = "leaving"
  BY DEF Disconnect, TypeOK
<1>6. \A q \in Phone : phone[q].at = c => q = p
  BY <1>2 DEF ExclusionInv, NoSharing
<1>7. \A q \in Phone : phone'[q].at = phone[q].at
  BY <1>5
<1> HIDE DEF c
<1>8. ~Empty(c) /\ \A d : Empty(d) <=> Empty(d)'
  BY <1>7 DEF Empty, c
<1>9. NoSharing'
  BY <1>7 DEF ExclusionInv, NoSharing
<1>10. FreeIsEmpty'
  BY <1>3, <1>4, <1>8 DEF ExclusionInv, FreeIsEmpty
<1>11. ClosingIsLeft'
  <2> SUFFICES ASSUME NEW q \in Phone, phone'[q].at # None, l1'[phone'[q].at].T3111 = "running"
               PROVE  phone'[q].is = "leaving"
    BY DEF ClosingIsLeft
  <2>1. CASE q = p
    BY <1>5, <2>1
  <2>2. CASE q # p
    <3>1. phone'[q] = phone[q] /\ phone[q].at # c /\ phone[q].at \in Channel
      BY <1>1, <1>5, <1>6, <2>2 DEF Parts
    <3> QED BY <1>4, <3>1 DEF ExclusionInv, ClosingIsLeft
  <2> QED BY <2>1, <2>2
<1>12. GrantedIsEmpty'
  BY <1>3, <1>4, <1>8 DEF ExclusionInv, GrantedIsEmpty
<1>13. LinkedIsTimed'
  <2> SUFFICES ASSUME NEW q \in Phone, phone'[q].is = "linked"
               PROVE  /\ l1'[phone'[q].at].T3101 = "off"
                      /\ l1'[phone'[q].at].T3109 = "running"
                      /\ l1'[phone'[q].at].T3111 = "off"
    BY DEF LinkedIsTimed
  <2>1. q # p
    BY <1>5
  <2>2. phone'[q] = phone[q] /\ phone[q].at # c /\ phone[q].at \in Channel
    BY <1>1, <1>5, <1>6, <2>1 DEF Parts
  <2> QED BY <1>4, <2>2 DEF ExclusionInv, LinkedIsTimed
<1>14. ASSUME NEW d \in SDCCH, NEW t \in TCH, Wants(d, t)'
       PROVE  Wants(d, t) /\ (Fresh(t) => Fresh(t)')
  <2>1. Moved(d) => Moved(d)'
    BY <1>2, <1>3, <1>4, <1>8 DEF Moved
  <2>2. Fresh(t) => Fresh(t)'
    BY <1>2, <1>3, <1>4, <1>8 DEF Fresh
  <2> QED BY <1>3, <1>14, <2>1, <2>2 DEF Wants
<1>15. WantedIsFresh' /\ OneTaker'
  BY <1>14, WantedKept DEF ExclusionInv
<1> QED BY <1>9, <1>10, <1>11, <1>12, <1>13, <1>15 DEF ExclusionInv

----------------------------------------------------------------------------
(* The steps of the decoder, of its timers and of L2 *)

\* A good frame stops T3101 and starts T3109; T3111 stays as it is, so that a channel that has
\* been closed for its phone to leave is not closed for another.
LEMMA GoodFrameExclusive ==
  ASSUME TypeOK, TypeOK', ExclusionInv, NEW c \in Channel, GoodFrame(c)
  PROVE  ExclusionInv'
<1> DEFINE p == frame[c].phone
<1>1. Parts
  BY PartsLemma
<1>2. None \notin Channel /\ SDCCH \subseteq Channel /\ TCH \subseteq Channel
  BY ChannelAssumption DEF Channel
<1>3. l1 \in [Channel -> Decoder] /\ l1' = [l1 EXCEPT ![c] = handleGoodFrame(l1[c])]
  BY DEF TypeOK, GoodFrame
<1>4. /\ l1'[c].T3101 = "off" /\ l1'[c].T3109 = "running" /\ l1'[c].T3111 = l1[c].T3111
      /\ l1[c].T3111 \in Timer
      /\ \A d \in Channel : d # c => l1'[d] = l1[d]
  <2>1. l1'[c] = handleGoodFrame(l1[c]) /\ l1[c] \in Decoder
    BY <1>3
  <2>2. l1'[c].T3101 = "off" /\ l1'[c].T3109 = "running" /\ l1'[c].T3111 = l1[c].T3111
    BY <2>1 DEF handleGoodFrame, Decoder
  <2> QED BY <1>3, <2>1, <2>2 DEF Decoder
<1>5. recyclable(l1'[c]) => recyclable(l1[c])
  BY <1>4, RecyclableTimer
<1>6. frame'[c] = NoFrame /\ \A d \in Channel : d # c => frame'[d] = frame[d]
  BY DEF GoodFrame, TypeOK
<1>7. \A d \in Channel : d # c => link'[d] = link[d]
  BY DEF GoodFrame, TypeOK
<1>8. UNCHANGED <<thread, grant>> /\ frame[c] # NoFrame
  BY DEF GoodFrame, NoFrame
<1>9. \A q \in Phone : \/ phone'[q] = phone[q]
                       \/ /\ phone[q].at = c /\ phone[q].is = "coming"
                          /\ phone'[q].at = c /\ phone'[q].is = "linked"
  <2>1. CASE phone' = phone
    BY <2>1
  <2>2. CASE phone' = [phone EXCEPT ![p].is = "linked"] /\ phone[p] = [at |-> c, is |-> "coming"]
    BY <2>2 DEF TypeOK
  <2> QED BY <2>1, <2>2 DEF GoodFrame
<1> HIDE DEF p
<1>10. \A q \in Phone : phone'[q].at = phone[q].at
  BY <1>9
<1>11. \A d : Empty(d) <=> Empty(d)'
  BY <1>10 DEF Empty
<1>12. \A d \in Channel : l1'[d].T3111 = l1[d].T3111
  BY <1>4
<1>13. ASSUME NEW q \in Phone, phone[q].at = c, phone[q].is # "leaving"
       PROVE  l1[c].T3111 = "off"
  <2>1. l1[c].T3111 # "running"
    BY <1>2, <1>13 DEF ExclusionInv, ClosingIsLeft
  <2>2. l1[c].T3111 # "expired"
    BY <1>13, RecyclableTimer DEF ExclusionInv, FreeIsEmpty, Empty
  <2> QED BY <1>4, <2>1, <2>2 DEF Timer
<1>14. NoSharing'
  BY <1>10 DEF ExclusionInv, NoSharing
<1>15. FreeIsEmpty'
  <2> SUFFICES ASSUME NEW d \in Channel, recyclable(l1'[d])
               PROVE  Empty(d)' /\ grant'.chan # d /\ (d \in TCH => frame'[d] = NoFrame)
    BY DEF FreeIsEmpty
  <2>1. recyclable(l1[d])
    BY <1>4, <1>5
  <2>2. Empty(d) /\ grant.chan # d /\ (d \in TCH => frame[d] = NoFrame)
    BY <2>1 DEF ExclusionInv, FreeIsEmpty
  <2> QED BY <1>6, <1>8, <1>11, <2>2
<1>16. ClosingIsLeft'
  <2> SUFFICES ASSUME NEW q \in Phone, phone'[q].at # None, l1'[phone'[q].at].T3111 = "running"
               PROVE  phone'[q].is = "leaving"
    BY DEF ClosingIsLeft
  <2>1. phone[q].at \in Channel /\ l1[phone[q].at].T3111 = "running"
    BY <1>1, <1>10, <1>12 DEF Parts
  <2>2. phone[q].is = "leaving"
    BY <1>2, <2>1 DEF ExclusionInv, ClosingIsLeft
  <2> QED BY <1>9, <2>2
<1>17. GrantedIsEmpty'
  BY <1>8, <1>11, <1>12 DEF ExclusionInv, GrantedIsEmpty
<1>18. LinkedIsTimed'
  <2> SUFFICES ASSUME NEW q \in Phone, phone'[q].is = "linked"
               PROVE  /\ l1'[phone'[q].at].T3101 = "off"
                      /\ l1'[phone'[q].at].T3109 = "running"
                      /\ l1'[phone'[q].at].T3111 = "off"
    BY DEF LinkedIsTimed
  <2>1. CASE phone[q].at = c
    <3>1. phone[q].is # "leaving"
      BY <1>9
    <3>2. l1[c].T3111 = "off"
      BY <1>13, <2>1, <3>1
    <3> QED BY <1>4, <1>10, <2>1, <3>2
  <2>2. CASE phone[q].at # c
    <3>1. phone'[q] = phone[q] /\ phone[q].at \in Channel
      BY <1>1, <1>9, <2>2 DEF Parts
    <3> QED BY <1>4, <2>2, <3>1 DEF ExclusionInv, LinkedIsTimed
  <2> QED BY <2>1, <2>2
<1>19. ASSUME NEW d \in SDCCH, NEW t \in TCH, Wants(d, t)'
       PROVE  Wants(d, t) /\ (Fresh(t) => Fresh(t)')
  <2>1. Moved(d) => Moved(d)'
    BY <1>2, <1>4, <1>8, <1>11 DEF Moved
  <2>2. Fresh(t) => t # c
    BY <1>8 DEF Fresh
  <2>3. Fresh(t) => Fresh(t)'
    BY <1>2, <1>4, <1>6, <1>7, <1>11, <2>2 DEF Fresh
  <2> QED BY <1>8, <1>19, <2>1, <2>3 DEF Wants
<1>20. WantedIsFresh' /\ OneTaker'
  BY <1>19, WantedKept DEF ExclusionInv
<1> QED BY <1>14, <1>15, <1>16, <1>17, <1>18, <1>20 DEF ExclusionInv

\* What happens to a channel that is empty, and not granted, concerns nobody but those who want
\* it, or are done with it.
LEMMA EmptyChannelExclusive ==
  ASSUME TypeOK, TypeOK', ExclusionInv, NEW c \in Channel, Empty(c), grant.chan # c,
         \A d \in Channel : d # c => l1'[d] = l1[d] /\ link'[d] = link[d],
         c \in TCH /\ recyclable(l1'[c]) => frame[c] = NoFrame,
         UNCHANGED <<frame, phone, grant>>,
         \A d \in SDCCH, t \in TCH : Wants(d, t)' => Wants(d, t) /\ t # c
  PROVE  ExclusionInv'
<1>1. Parts /\ TCH \subseteq Channel /\ None \notin Channel
  BY PartsLemma, ChannelAssumption DEF Channel
<1>2. NoSharing'
  BY DEF ExclusionInv, NoSharing
<1>3. FreeIsEmpty'
  BY DEF ExclusionInv, FreeIsEmpty, Empty
<1>4. \A q \in Phone : phone[q].at # c
  BY DEF Empty
<1>5. ClosingIsLeft'
  BY <1>1, <1>4 DEF ExclusionInv, ClosingIsLeft, Parts
<1>6. GrantedIsEmpty'
  BY DEF ExclusionInv, GrantedIsEmpty, Empty
<1>7. LinkedIsTimed'
  <2> SUFFICES ASSUME NEW q \in Phone, phone[q].is = "linked"
               PROVE  /\ l1'[phone[q].at].T3101 = "off"
                      /\ l1'[phone[q].at].T3109 = "running"
                      /\ l1'[phone[q].at].T3111 = "off"
    BY DEF LinkedIsTimed
  <2>1. phone[q].at \in Channel /\ phone[q].at # c
    BY <1>1, <1>4 DEF Parts
  <2> QED BY <2>1 DEF ExclusionInv, LinkedIsTimed
<1>8. ASSUME NEW t \in TCH, t # c, Fresh(t)  PROVE Fresh(t)'
  BY <1>1, <1>8 DEF Fresh, Empty
<1>9. WantedIsFresh' /\ OneTaker'
  BY <1>8, WantedKept DEF ExclusionInv
<1> QED BY <1>2, <1>3, <1>5, <1>6, <1>7, <1>9 DEF ExclusionInv

\* A link fails on a channel that its phone has left.
LEMMA LinkFailsExclusive ==
  ASSUME TypeOK, TypeOK', ExclusionInv, InTime, NEW c \in Channel, LinkFails(c)
  PROVE  ExclusionInv'
<1>1. Empty(c) /\ grant.chan # c
  BY ClearedIsEmpty DEF LinkFails, InTime
<1>2. Close(c, FALSE) /\ UNCHANGED <<frame, estab, thread, phone, grant>>
  BY DEF LinkFails
<1>3. ~recyclable(l1'[c]) /\ \A d \in Channel : d # c => l1'[d] = l1[d] /\ link'[d] = link[d]
  BY <1>2, CloseEffect
<1>4. ASSUME NEW d \in SDCCH, NEW t \in TCH, Wants(d, t)'  PROVE Wants(d, t) /\ t # c
  <2>1. ASSUME thread[d].pc = "assigning", Moved(d)  PROVE Moved(d)'
    <3>1. d # c /\ d \in Channel
      BY <2>1 DEF LinkFails, Assigning, Channel
    <3> QED BY <1>2, <1>3, <2>1, <3>1 DEF Moved, Empty
  <2>2. Wants(d, t)
    BY <1>2, <1>4, <2>1 DEF Wants
  <2>3. t # c
    BY <2>2 DEF LinkFails, ExclusionInv, WantedIsFresh, Fresh
  <2> QED BY <2>2, <2>3
<1> QED BY <1>1, <1>2, <1>3, <1>4, EmptyChannelExclusive

\* T3101 expires on a channel that nobody came to: a thread that assigns it is late.
LEMMA T3101Exclusive ==
  ASSUME TypeOK, TypeOK', ExclusionInv, InTime, NEW c \in Channel, T3101Expires(c)
  PROVE  ExclusionInv'
<1>1. Empty(c) /\ grant.chan # c /\ ~Held(c)
  BY ClearedIsEmpty DEF T3101Expires, InTime
<1>2. Expires(c, "T3101")
  BY DEF T3101Expires
<1>3. /\ l1[c].T3101 = "running"
      /\ \A d \in Channel : d # c => l1'[d] = l1[d]
      /\ frame[c] = NoFrame
      /\ UNCHANGED <<frame, link, phone, grant>>
  BY <1>2, ExpireEffect DEF Expires
<1>4. ASSUME NEW d \in SDCCH, NEW t \in TCH, Wants(d, t)'  PROVE Wants(d, t) /\ t # c
  <2>1. thread'[d] = IF thread[d] = [pc |-> "assigning", tch |-> c]
                     THEN [pc |-> "late", tch |-> c] ELSE thread[d]
    BY DEF T3101Expires
  <2>2. thread[d] # [pc |-> "assigning", tch |-> c]
    BY <1>4, <2>1 DEF Wants
  <2>3. thread'[d] = thread[d]
    BY <2>1, <2>2
  <2>4. Moved(d) => Moved(d)'
    BY <1>3 DEF Moved, Empty, Channel
  <2>5. Wants(d, t)
    BY <1>4, <2>3, <2>4 DEF Wants
  <2>6. t # c
    <3>1. SUFFICES ASSUME t = c  PROVE FALSE
      OBVIOUS
    <3>2. thread[d].tch = c /\ thread[d].pc = "assigning"
      BY <1>1, <2>5, <3>1 DEF Wants, Held, Holds
    <3>3. thread[d] \in ThreadState
      BY Types
    <3>4. thread[d] = [pc |-> "assigning", tch |-> c]
      BY <3>2, <3>3 DEF ThreadState
    <3> QED BY <2>2, <3>4
  <2> QED BY <2>5, <2>6
<1> QED BY <1>1, <1>3, <1>4, EmptyChannelExclusive

\* T3109 expires on a channel that its phone has left, and that is not being assigned from.
LEMMA T3109Exclusive ==
  ASSUME TypeOK, TypeOK', ExclusionInv, InTime, NEW c \in Channel, T3109Expires(c)
  PROVE  ExclusionInv'
<1>1. Empty(c) /\ grant.chan # c
  BY ClearedIsEmpty DEF T3109Expires, InTime
<1>2. Expires(c, "T3109") /\ UNCHANGED thread
  BY DEF T3109Expires
<1>3. /\ l1[c].T3109 = "running"
      /\ \A d \in Channel : d # c => l1'[d] = l1[d]
      /\ frame[c] = NoFrame
      /\ UNCHANGED <<frame, link, phone, grant>>
  BY <1>2, ExpireEffect DEF Expires
<1>4. ASSUME NEW d \in SDCCH, NEW t \in TCH, Wants(d, t)'  PROVE Wants(d, t) /\ t # c
  <2>1. ASSUME thread[d].pc = "assigning", Moved(d)  PROVE Moved(d)'
    <3>1. d # c /\ d \in Channel
      BY <2>1 DEF T3109Expires, Assigning, Channel
    <3> QED BY <1>3, <2>1, <3>1 DEF Moved, Empty
  <2>2. Wants(d, t)
    BY <1>2, <1>4, <2>1 DEF Wants
  <2>3. t # c
    BY <1>3, <2>2 DEF ExclusionInv, WantedIsFresh, Fresh
  <2> QED BY <2>2, <2>3
<1> QED BY <1>1, <1>3, <1>4, EmptyChannelExclusive

\* T3111 expires on a channel where everybody was about to leave, and has left.
LEMMA T3111Exclusive ==
  ASSUME TypeOK, TypeOK', ExclusionInv, InTime, NEW c \in Channel, T3111Expires(c)
  PROVE  ExclusionInv'
<1>1. Expires(c, "T3111") /\ UNCHANGED thread
  BY DEF T3111Expires
<1>2. /\ l1[c].T3111 = "running"
      /\ \A d \in Channel : d # c => l1'[d] = l1[d]
      /\ frame[c] = NoFrame
      /\ UNCHANGED <<frame, link, phone, grant>>
  BY <1>1, ExpireEffect DEF Expires
<1>3. Empty(c)
  <2>1. \A p \in At(c) : phone[p].is # "leaving"
    BY DEF T3111Expires, InTime
  <2>2. c # None
    BY ChannelAssumption DEF Channel
  <2> QED BY <1>2, <2>1, <2>2 DEF ExclusionInv, ClosingIsLeft, At, Empty
<1>4. grant.chan # c
  BY <1>2 DEF ExclusionInv, GrantedIsEmpty
<1>5. ASSUME NEW d \in SDCCH, NEW t \in TCH, Wants(d, t)'  PROVE Wants(d, t) /\ t # c
  <2>1. Moved(d) => Moved(d)'
    BY <1>2 DEF Moved, Empty, Channel
  <2>2. Wants(d, t)
    BY <1>1, <1>5, <2>1 DEF Wants
  <2>3. t # c
    BY <1>2, <2>2 DEF ExclusionInv, WantedIsFresh, Fresh
  <2> QED BY <2>2, <2>3
<1> QED BY <1>2, <1>3, <1>4, <1>5, EmptyChannelExclusive

----------------------------------------------------------------------------
(* The steps of the threads *)

\* A thread that only goes on, to a state in which it wants no TCH.
LEMMA QuietThread ==
  ASSUME ExclusionInv, NEW c \in SDCCH, NEW pc \in {"waiting", "serving"}, NEW tch,
         TypeOK, Thread(c, pc, tch), UNCHANGED <<l1, frame, link, phone, grant>>
  PROVE  ExclusionInv'
<1>1. /\ thread'[c].pc = pc
      /\ \A d \in SDCCH : d # c => thread'[d] = thread[d]
  BY ThreadEffect
<1>2. NoSharing' /\ FreeIsEmpty' /\ ClosingIsLeft' /\ GrantedIsEmpty' /\ LinkedIsTimed'
  BY DEF ExclusionInv, NoSharing, FreeIsEmpty, ClosingIsLeft, GrantedIsEmpty, LinkedIsTimed, Empty
<1>3. ASSUME NEW d \in SDCCH, NEW t \in TCH, Wants(d, t)'
      PROVE  Wants(d, t) /\ (Fresh(t) => Fresh(t)')
  <2>1. (Moved(d) => Moved(d)') /\ (Fresh(t) => Fresh(t)')
    BY DEF Moved, Fresh, Empty
  <2>2. d # c
    BY <1>1, <1>3 DEF Wants
  <2> QED BY <1>1, <1>3, <2>1, <2>2 DEF Wants
<1>4. WantedIsFresh' /\ OneTaker'
  BY <1>3, WantedKept DEF ExclusionInv
<1> QED BY <1>2, <1>4 DEF ExclusionInv

\* HARDRELEASE of an SDCCH that has been cleared.
LEMMA HardReleaseExclusive ==
  ASSUME TypeOK, TypeOK', ExclusionInv, NEW c \in SDCCH, Cleared(c), Close(c, TRUE), Return(c),
         UNCHANGED <<frame, estab, phone, grant>>
  PROVE  ExclusionInv'
<1>1. Empty(c) /\ grant.chan # c /\ c \in Channel /\ c \notin TCH
  BY ClearedIsEmpty, ChannelAssumption DEF Channel
<1>2. \A d \in Channel : d # c => l1'[d] = l1[d] /\ link'[d] = link[d]
  BY <1>1, CloseEffect
<1>3. /\ thread'[c].pc = "waiting"
      /\ \A d \in SDCCH : d # c => thread'[d] = thread[d]
  BY ThreadEffect DEF Return
<1>4. ASSUME NEW d \in SDCCH, NEW t \in TCH, Wants(d, t)'  PROVE Wants(d, t) /\ t # c
  <2>1. d # c
    BY <1>3, <1>4 DEF Wants
  <2>2. Moved(d) => Moved(d)'
    BY <1>2, <2>1 DEF Moved, Empty, Channel
  <2> QED BY <1>1, <1>3, <1>4, <2>1, <2>2 DEF Wants
<1> QED BY <1>1, <1>2, <1>4, EmptyChannelExclusive

\* A thread opens a TCH that is empty, and that no other thread wants.
LEMMA TakesTCH ==
  ASSUME TypeOK, TypeOK', ExclusionInv, NEW c \in SDCCH, NEW t \in TCH,
         NEW pc \in {"starting", "assigning"}, Open(t), Thread(c, pc, t),
         Empty(t), frame[t] = NoFrame, \A d \in SDCCH : d # c => ~Wants(d, t),
         UNCHANGED <<frame, phone, grant>>
  PROVE  ExclusionInv'
<1>1. Parts /\ t \in Channel /\ t \notin SDCCH /\ SDCCH \subseteq Channel /\ None \notin Channel
      /\ TCH \subseteq Channel
  BY PartsLemma, ChannelAssumption DEF Channel
<1>2. /\ l1'[t].T3101 = "running" /\ l1'[t].T3109 = "off" /\ l1'[t].T3111 = "off"
      /\ ~recyclable(l1'[t])
      /\ link'[t] = None
      /\ \A d \in Channel : d # t => l1'[d] = l1[d] /\ link'[d] = link[d]
  BY <1>1, OpenEffect
<1>3. /\ thread'[c].pc = pc /\ thread'[c].tch = t
      /\ \A d \in SDCCH : d # c => thread'[d] = thread[d]
  BY ThreadEffect
<1>4. \A q \in Phone : phone[q].at # t
  BY DEF Empty
<1>5. NoSharing' /\ FreeIsEmpty' /\ GrantedIsEmpty'
  BY <1>2 DEF ExclusionInv, NoSharing, FreeIsEmpty, GrantedIsEmpty, Empty
<1>6. ClosingIsLeft'
  BY <1>1, <1>2, <1>4 DEF ExclusionInv, ClosingIsLeft, Parts
<1>7. LinkedIsTimed'
  <2> SUFFICES ASSUME NEW q \in Phone, phone[q].is = "linked"
               PROVE  /\ l1'[phone[q].at].T3101 = "off"
                      /\ l1'[phone[q].at].T3109 = "running"
                      /\ l1'[phone[q].at].T3111 = "off"
    BY DEF LinkedIsTimed
  <2>1. phone[q].at \in Channel /\ phone[q].at # t
    BY <1>1, <1>4 DEF Parts
  <2> QED BY <1>2, <2>1 DEF ExclusionInv, LinkedIsTimed
<1>8. Fresh(t)'
  BY <1>2 DEF Fresh, Empty
<1>9. ASSUME NEW d \in SDCCH, d # c, NEW u \in TCH, Wants(d, u)'  PROVE Wants(d, u) /\ u # t
  <2>1. Moved(d) => Moved(d)'
    BY <1>1, <1>2 DEF Moved, Empty
  <2>2. Wants(d, u)
    BY <1>3, <1>9, <2>1 DEF Wants
  <2> QED BY <1>9, <2>2
<1>10. ASSUME NEW u \in TCH, u # t, Fresh(u)  PROVE Fresh(u)'
  BY <1>1, <1>2, <1>10 DEF Fresh, Empty
<1>11. ASSUME NEW u \in TCH, Wants(c, u)'  PROVE u = t
  BY <1>3, <1>11 DEF Wants
<1>12. WantedIsFresh'
  <2> SUFFICES ASSUME NEW d \in SDCCH, NEW u \in TCH, Wants(d, u)'  PROVE Fresh(u)'
    BY DEF WantedIsFresh
  <2>1. CASE d = c
    BY <1>8, <1>11, <2>1
  <2>2. CASE d # c
    <3>1. Wants(d, u) /\ u # t
      BY <1>9, <2>2
    <3> QED BY <1>10, <3>1 DEF ExclusionInv, WantedIsFresh
  <2> QED BY <2>1, <2>2
<1>13. OneTaker'
  <2> SUFFICES ASSUME NEW d \in SDCCH, NEW e \in SDCCH, NEW u \in TCH, Wants(d, u)', Wants(e, u)'
               PROVE  d = e
    BY DEF OneTaker
  <2>1. CASE u = t
    BY <1>9, <2>1
  <2>2. CASE u # t
    <3>1. d # c /\ e # c
      BY <1>11, <2>2
    <3>2. Wants(d, u) /\ Wants(e, u)
      BY <1>9, <3>1
    <3> QED BY <3>2 DEF ExclusionInv, OneTaker
  <2> QED BY <2>1, <2>2
<1> QED BY <1>5, <1>6, <1>7, <1>12, <1>13 DEF ExclusionInv

\* allocateTCH() takes a TCH that nobody is on; assignTCHF() opens it once more.
LEMMA StartExclusive ==
  ASSUME TypeOK, TypeOK', ExclusionInv, NEW c \in SDCCH, StartCall(c) \/ Assign(c)
  PROVE  ExclusionInv'
<1>1. CASE StartCall(c)
  <2>1. PICK t \in TCH : recyclable(l1[t]) /\ Open(t) /\ Thread(c, "starting", t)
    BY <1>1 DEF StartCall, Available
  <2>2. UNCHANGED <<frame, phone, grant>>
    BY <1>1 DEF StartCall
  <2>3. Empty(t) /\ frame[t] = NoFrame
    BY <2>1 DEF ExclusionInv, FreeIsEmpty, Channel
  <2>4. ~Fresh(t)
    BY <2>1, RecyclableTimer DEF Fresh
  <2>5. \A d \in SDCCH : ~Wants(d, t)
    BY <2>4 DEF ExclusionInv, WantedIsFresh
  <2> QED BY <2>1, <2>2, <2>3, <2>5, TakesTCH
<1>2. CASE Assign(c)
  <2> DEFINE t == thread[c].tch
  <2>1. Open(t) /\ Thread(c, "assigning", t) /\ UNCHANGED <<frame, phone, grant>>
    BY <1>2 DEF Assign
  <2>2. t \in TCH
    BY <1>2, HasTCH DEF Assign
  <2>3. Wants(c, t)
    BY <1>2 DEF Assign, Wants
  <2> HIDE DEF t
  <2>4. Empty(t) /\ frame[t] = NoFrame
    BY <2>2, <2>3 DEF ExclusionInv, WantedIsFresh, Fresh
  <2>5. \A d \in SDCCH : d # c => ~Wants(d, t)
    BY <2>2, <2>3 DEF ExclusionInv, OneTaker
  <2> QED BY <2>1, <2>2, <2>4, <2>5, TakesTCH
<1> QED BY <1>1, <1>2

\* A call that is not set up closes the TCH that it has alone.
LEMMA SetupFailsExclusive ==
  ASSUME TypeOK, TypeOK', ExclusionInv, NEW c \in SDCCH, SetupFails(c)
  PROVE  ExclusionInv'
<1> DEFINE t == thread[c].tch
<1>1. Close(t, TRUE) /\ Return(c) /\ UNCHANGED <<frame, estab, phone, grant>>
  BY DEF SetupFails
<1>2. t \in TCH /\ Wants(c, t)
  BY HasTCH DEF SetupFails, Wants
<1> HIDE DEF t
<1>3. Empty(t) /\ frame[t] = NoFrame
  BY <1>2 DEF ExclusionInv, WantedIsFresh, Fresh
<1>4. Parts /\ t \in Channel /\ t \notin SDCCH /\ None \notin Channel /\ SDCCH \subseteq Channel
  BY <1>2, PartsLemma, ChannelAssumption DEF Channel
<1>5. grant.chan # t
  BY <1>4 DEF Parts
<1>6. \A d \in Channel : d # t => l1'[d] = l1[d] /\ link'[d] = link[d]
  BY <1>1, <1>4, CloseEffect
<1>7. /\ thread'[c].pc = "waiting"
      /\ \A d \in SDCCH : d # c => thread'[d] = thread[d]
  BY <1>1, ThreadEffect DEF Return
<1>8. ASSUME NEW d \in SDCCH, NEW u \in TCH, Wants(d, u)'  PROVE Wants(d, u) /\ u # t
  <2>1. d # c
    BY <1>7, <1>8 DEF Wants
  <2>2. Moved(d) => Moved(d)'
    BY <1>1, <1>4, <1>6 DEF Moved, Empty
  <2>3. Wants(d, u)
    BY <1>7, <1>8, <2>1, <2>2 DEF Wants
  <2> QED BY <1>2, <2>1, <2>3 DEF ExclusionInv, OneTaker
<1> QED BY <1>1, <1>3, <1>4, <1>5, <1>6, <1>8, EmptyChannelExclusive

\* The phone goes to the TCH that its thread has alone, and leaves its SDCCH.
LEMMA MoveExclusive ==
  ASSUME TypeOK, TypeOK', ExclusionInv, InTime, NEW c \in SDCCH, Move(c)
  PROVE  ExclusionInv'
<1> DEFINE t == thread[c].tch
<1>1. /\ thread[c].pc = "assigning"
      /\ UNCHANGED <<l1, frame, link, estab, thread, grant>>
  BY DEF Move, InTime
<1>2. t \in TCH
  BY <1>1, HasTCH
<1>3. PICK p \in Phone : /\ phone[p].at = c /\ phone[p].is = "linked"
                         /\ phone' = [phone EXCEPT ![p] = [at |-> t, is |-> "coming"]]
  BY DEF Move, At
<1>4. /\ phone'[p].at = t /\ phone'[p].is = "coming"
      /\ \A q \in Phone : q # p => phone'[q] = phone[q]
  BY <1>3 DEF TypeOK
<1>5. Wants(c, t)
  BY <1>1, <1>3 DEF Wants, Moved, Empty
<1> HIDE DEF t
<1>6. Fresh(t)
  BY <1>2, <1>5 DEF ExclusionInv, WantedIsFresh
<1>7. /\ Parts /\ c \in Channel /\ t \in Channel /\ t \notin SDCCH /\ None \notin Channel
      /\ SDCCH \subseteq Channel /\ TCH \subseteq Channel
  BY <1>2, PartsLemma, ChannelAssumption DEF Channel
<1>8. Empty(t) /\ ~recyclable(l1[t]) /\ l1[t].T3111 = "off"
  BY <1>6, RecyclableTimer DEF Fresh
<1>9. \A d : d # t /\ Empty(d) => Empty(d)'
  BY <1>4 DEF Empty
<1>10. NoSharing'
  BY <1>4, <1>8 DEF ExclusionInv, NoSharing, Empty
<1>11. FreeIsEmpty'
  BY <1>1, <1>8, <1>9 DEF ExclusionInv, FreeIsEmpty
<1>12. ClosingIsLeft'
  BY <1>1, <1>4, <1>8 DEF ExclusionInv, ClosingIsLeft
<1>13. GrantedIsEmpty'
  BY <1>1, <1>7, <1>9 DEF ExclusionInv, GrantedIsEmpty, Parts
<1>14. LinkedIsTimed'
  BY <1>1, <1>4 DEF ExclusionInv, LinkedIsTimed
<1>15. Moved(c)'
  <2>1. l1[c].T3101 = "off" /\ l1[c].T3109 = "running" /\ l1[c].T3111 = "off"
    BY <1>3 DEF ExclusionInv, LinkedIsTimed
  <2>2. Empty(c)'
    <3>1. \A q \in Phone : q # p => phone[q].at # c
      BY <1>3, <1>7 DEF ExclusionInv, NoSharing
    <3> QED BY <1>4, <1>7, <3>1 DEF Empty
  <2>3. grant.chan # c
    BY <1>3, <1>7 DEF ExclusionInv, GrantedIsEmpty, Empty
  <2> QED BY <1>1, <2>1, <2>2, <2>3 DEF Moved
<1>16. ASSUME NEW d \in SDCCH, NEW u \in TCH, Wants(d, u)'
       PROVE  Wants(d, u) /\ (Fresh(u) => Fresh(u)')
  <2>1. d # c
    BY <1>1, <1>15, <1>16 DEF Wants
  <2>2. Moved(d) => Moved(d)'
    BY <1>1, <1>7, <1>9 DEF Moved
  <2>3. Wants(d, u)
    BY <1>1, <1>16, <2>2 DEF Wants
  <2>4. u # t
    BY <1>2, <1>5, <2>1, <2>3 DEF ExclusionInv, OneTaker
  <2>5. Fresh(u) => Fresh(u)'
    BY <1>1, <1>9, <2>4 DEF Fresh
  <2> QED BY <2>3, <2>5
<1>17. WantedIsFresh' /\ OneTaker'
  BY <1>16, WantedKept DEF ExclusionInv
<1> QED BY <1>10, <1>11, <1>12, <1>13, <1>14, <1>17 DEF ExclusionInv

\* An assignment that fails closes a TCH that has a link, which is not wanted any more, and
\* whose phone leaves.
LEMMA AssignmentFailsExclusive ==
  ASSUME TypeOK, TypeOK', ExclusionInv, NEW c \in SDCCH, AssignmentFails(c)
  PROVE  ExclusionInv'
<1> DEFINE t == thread[c].tch
<1>1. Return(c) /\ UNCHANGED <<frame, estab, grant>>
  BY DEF AssignmentFails
<1>2. t \in TCH
  BY HasTCH DEF AssignmentFails, Assigning
<1>3. CASE UNCHANGED <<l1, link, phone>>
  BY <1>1, <1>3, QuietThread DEF Return
<1>4. CASE /\ link[t] # None
           /\ Close(t, FALSE)
           /\ phone' = [p \in Phone |->
                         IF p \in At(t) THEN [phone[p] EXCEPT !.is = "leaving"] ELSE phone[p]]
  <2>1. /\ \A q \in Phone : phone[q].at # t => phone'[q] = phone[q]
        /\ \A q \in Phone : phone[q].at = t => phone'[q].is = "leaving"
        /\ \A q \in Phone : phone'[q].at = phone[q].at
    <3> SUFFICES ASSUME NEW q \in Phone
                 PROVE  /\ phone[q].at # t => phone'[q] = phone[q]
                        /\ phone[q].at = t => phone'[q].is = "leaving"
                        /\ phone'[q].at = phone[q].at
      OBVIOUS
    <3>1. phone[q] \in PhoneState
      BY Types
    <3> QED BY <1>4, <3>1 DEF At, PhoneState
  <2>2. ~Fresh(t)
    BY <1>4 DEF Fresh
  <2>3. /\ Parts /\ t \in Channel /\ t \notin SDCCH /\ None \notin Channel
        /\ SDCCH \subseteq Channel /\ TCH \subseteq Channel
    BY <1>2, PartsLemma, ChannelAssumption DEF Channel
  <2>4. /\ ~recyclable(l1'[t])
        /\ \A d \in Channel : d # t => l1'[d] = l1[d] /\ link'[d] = link[d]
    BY <1>4, <2>3, CloseEffect
  <2>5. /\ thread'[c].pc = "waiting"
        /\ \A d \in SDCCH : d # c => thread'[d] = thread[d]
    BY <1>1, ThreadEffect DEF Return
  <2> HIDE DEF t
  <2>6. \A d : Empty(d) <=> Empty(d)'
    BY <2>1 DEF Empty
  <2>7. NoSharing'
    BY <2>1 DEF ExclusionInv, NoSharing
  <2>8. FreeIsEmpty'
    BY <1>1, <2>4, <2>6 DEF ExclusionInv, FreeIsEmpty
  <2>9. ClosingIsLeft'
    <3> SUFFICES ASSUME NEW q \in Phone, phone'[q].at # None,
                        l1'[phone'[q].at].T3111 = "running"
                 PROVE  phone'[q].is = "leaving"
      BY DEF ClosingIsLeft
    <3>1. CASE phone[q].at = t
      BY <2>1, <3>1
    <3>2. CASE phone[q].at # t
      <4>1. phone'[q] = phone[q] /\ phone[q].at \in Channel
        BY <2>1, <2>3, <3>2 DEF Parts
      <4> QED BY <2>4, <3>2, <4>1 DEF ExclusionInv, ClosingIsLeft
    <3> QED BY <3>1, <3>2
  <2>10. GrantedIsEmpty'
    BY <1>1, <2>3, <2>4, <2>6 DEF ExclusionInv, GrantedIsEmpty, Parts
  <2>11. LinkedIsTimed'
    <3> SUFFICES ASSUME NEW q \in Phone, phone'[q].is = "linked"
                 PROVE  /\ l1'[phone'[q].at].T3101 = "off"
                        /\ l1'[phone'[q].at].T3109 = "running"
                        /\ l1'[phone'[q].at].T3111 = "off"
      BY DEF LinkedIsTimed
    <3>1. phone[q].at # t
      BY <2>1
    <3>2. phone'[q] = phone[q] /\ phone[q].at \in Channel
      BY <2>1, <2>3, <3>1 DEF Parts
    <3> QED BY <2>4, <3>1, <3>2 DEF ExclusionInv, LinkedIsTimed
  <2>12. ASSUME NEW d \in SDCCH, NEW u \in TCH, Wants(d, u)'
         PROVE  Wants(d, u) /\ (Fresh(u) => Fresh(u)')
    <3>1. d # c
      BY <2>5, <2>12 DEF Wants
    <3>2. Moved(d) => Moved(d)'
      BY <1>1, <2>3, <2>4, <2>6 DEF Moved
    <3>3. Fresh(u) => Fresh(u)'
      BY <1>1, <2>2, <2>3, <2>4, <2>6 DEF Fresh
    <3> QED BY <2>5, <2>12, <3>1, <3>2, <3>3 DEF Wants
  <2>13. WantedIsFresh' /\ OneTaker'
    BY <2>12, WantedKept DEF ExclusionInv
  <2> QED BY <2>7, <2>8, <2>9, <2>10, <2>11, <2>13 DEF ExclusionInv
<1> QED BY <1>3, <1>4 DEF AssignmentFails

\* What the thread of an SDCCH does.
LEMMA ThreadExclusive ==
  ASSUME TypeOK, TypeOK', ExclusionInv, InTime, NEW c \in SDCCH, ThreadStep(c)
  PROVE  ExclusionInv'
<1>1. CASE Dispatch(c)
  BY <1>1, QuietThread DEF Dispatch
<1>2. CASE Finish(c) \/ SetupThrows(c)
  BY <1>2, QuietThread DEF Finish, SetupThrows, Return
<1>3. CASE Detach(c)
  BY <1>3, HardReleaseExclusive DEF Detach, InTime
<1>4. CASE StartCall(c) \/ Assign(c)
  BY <1>4, StartExclusive
<1>5. CASE SetupFails(c)
  BY <1>5, SetupFailsExclusive
<1>6. CASE Assigned(c)
  BY <1>6, HardReleaseExclusive DEF Assigned, InTime
<1>7. CASE AssignmentFails(c)
  BY <1>7, AssignmentFailsExclusive
<1> QED BY <1>1, <1>2, <1>3, <1>4, <1>5, <1>6, <1>7 DEF ThreadStep

----------------------------------------------------------------------------
(* The theorems *)

\* Every channel is open and empty when the program starts.
LEMMA InitExclusive == Init => ExclusionInv
<1> SUFFICES ASSUME Init PROVE ExclusionInv
  OBVIOUS
<1>1. \A c \in Channel : l1[c].T3101 = "running" /\ l1[c].T3109 = "off" /\ l1[c].T3111 = "off"
  BY DEF Init
<1>2. \A c \in Channel : ~recyclable(l1[c])
  BY <1>1, RecyclableTimer
<1>3. \A p \in Phone : phone[p].at = None /\ phone[p].is = "away"
  BY DEF Init
<1>4. \A c \in SDCCH : thread[c].pc = "waiting"
  BY DEF Init
<1>5. NoSharing /\ FreeIsEmpty /\ ClosingIsLeft /\ LinkedIsTimed
  BY <1>2, <1>3 DEF NoSharing, FreeIsEmpty, ClosingIsLeft, LinkedIsTimed
<1>6. GrantedIsEmpty
  BY ChannelAssumption DEF Init, GrantedIsEmpty, Channel
<1>7. WantedIsFresh /\ OneTaker
  BY <1>4 DEF WantedIsFresh, OneTaker, Wants
<1> QED BY <1>5, <1>6, <1>7 DEF ExclusionInv

\* A step that changes nothing.
LEMMA StutterExclusive == ASSUME ExclusionInv, UNCHANGED vars PROVE ExclusionInv'
<1>1. NoSharing' /\ FreeIsEmpty' /\ ClosingIsLeft' /\ GrantedIsEmpty' /\ LinkedIsTimed'
  BY DEF ExclusionInv, NoSharing, FreeIsEmpty, ClosingIsLeft, GrantedIsEmpty, LinkedIsTimed, Empty,
         vars
<1>2. \A c \in SDCCH, t \in TCH : Wants(c, t)' => Wants(c, t) /\ (Fresh(t) => Fresh(t)')
  BY DEF Wants, Moved, Fresh, Empty, vars
<1>3. WantedIsFresh' /\ OneTaker'
  BY <1>2, WantedKept DEF ExclusionInv
<1> QED BY <1>1, <1>3 DEF ExclusionInv

\* The invariant of a cell in which phones and calls are in time, and no channel is released hard
\* under a phone.
THEOREM ChannelExclusion == ASSUME InTime PROVE Spec => []ExclusionInv
<1>1. ASSUME TypeOK, TypeOK', ExclusionInv, Next  PROVE ExclusionInv'
  <2>1. CASE SendAssignment
    BY <1>1, <2>1, SendExclusive
  <2>2. CASE \E p \in Phone : AccessGrant(p) \/ Burst(p) \/ Disconnect(p) \/ Leave(p)
    BY <1>1, <2>2, GrantExclusive, BurstExclusive, DisconnectExclusive, LeaveExclusive
  <2>3. CASE \E c \in Channel : GoodFrame(c) \/ LinkFails(c)
    BY <1>1, <2>3, GoodFrameExclusive, LinkFailsExclusive
  <2>4. CASE \E c \in Channel : T3101Expires(c) \/ T3109Expires(c) \/ T3111Expires(c)
    BY <1>1, <2>4, T3101Exclusive, T3109Exclusive, T3111Exclusive
  <2>5. CASE \E c \in SDCCH : ThreadStep(c) \/ Move(c)
    BY <1>1, <2>5, ThreadExclusive, MoveExclusive
  <2> QED BY <1>1, <2>1, <2>2, <2>3, <2>4, <2>5 DEF Next
<1>2. TypeOK /\ TypeOK' /\ ExclusionInv /\ [Next]_vars => ExclusionInv'
  BY <1>1, StutterExclusive
<1> QED BY <1>2, InitExclusive, ChannelTypes, PTL DEF Spec

\* If phones act in time, a set-up ends within T3101, and HARDRELEASE comes when the channel is
\* clear, two phones are never on one channel: recyclable() is true only of one that is empty.
THEOREM NobodyShares == ASSUME InTime PROVE Spec => []NoSharing
<1>1. ExclusionInv => NoSharing
  BY DEF ExclusionInv
<1> QED BY <1>1, ChannelExclusion, PTL

\* Under the same assumptions the TCH that a thread sets up a call on is its alone, and nobody is
\* there yet: opening it again and releasing it hard disturbs no other call.
THEOREM HeldByOne == ASSUME InTime PROVE Spec => []OneHolder
<1>1. ASSUME ExclusionInv  PROVE OneHolder
  <2> SUFFICES ASSUME NEW c \in SDCCH, NEW t \in TCH, Holds(c, t)
               PROVE  At(t) = {} /\ \A d \in SDCCH : Holds(d, t) => d = c
    BY DEF OneHolder
  <2>1. \A d \in SDCCH : Holds(d, t) => Wants(d, t)
    BY DEF Holds, Wants
  <2>2. Empty(t)
    BY <1>1, <2>1 DEF ExclusionInv, WantedIsFresh, Fresh
  <2>3. At(t) = {}
    BY <2>2 DEF At, Empty
  <2>4. \A d \in SDCCH : Holds(d, t) => d = c
    BY <1>1, <2>1 DEF ExclusionInv, OneTaker
  <2> QED BY <2>3, <2>4
<1>2. ExclusionInv => OneHolder
  BY <1>1
<1> QED BY <1>2, ChannelExclusion, PTL
============================================================================
