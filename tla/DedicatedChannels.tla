------------------------- MODULE DedicatedChannels -------------------------
(***************************************************************************)
(* Who gets a dedicated channel, and when it is free again: the timers of  *)
(* the L1 decoder (GSM/GSML1FEC.cpp), the pools of GSM/GSMConfig.cpp, the  *)
(* access grant (Control/RadioResource.cpp), the thread of each SDCCH      *)
(* (Control/DCCHDispatch.cpp), which may take a TCH beside its SDCCH       *)
(* (Control/CallControl.cpp), and the phones.                              *)
(*                                                                         *)
(* Nobody gives a channel back: a channel is free when one of its timers   *)
(* has expired.  Of L2 this module keeps whose link is up; LAPDm models it.*)
(***************************************************************************)
EXTENDS Naturals, FiniteSets

CONSTANTS
  SDCCH, TCH,    \* the pools
  Phone,
  None,          \* no phone, no channel
  LUR,           \* the phones that ask for a location update
  SDCCHReserve,  \* SDCCHs kept from location updates
  PromptSetup,   \* a call that is set up is confirmed within T3101 (4 s) of its TCH
  PromptPhone,   \* phones act in time: see the guards it appears in
  CertainRelease \* HARDRELEASE comes when the channel has been cleared of activity

ASSUME ChannelAssumption ==
  /\ SDCCH \cap TCH = {}
  /\ None \notin SDCCH \cup TCH \cup Phone
  /\ LUR \subseteq Phone
  /\ SDCCHReserve \in Nat
  /\ PromptSetup \in BOOLEAN
  /\ {PromptPhone, CertainRelease} \subseteq BOOLEAN

Channel == SDCCH \cup TCH

VARIABLES
  l1,      \* the decoder of each channel
  frame,   \* frame[c]: what the decoder of c has accepted and not yet handled
  link,    \* link[c]: the phone whose SAP0 link is up, or None
  estab,   \* SDCCHs with an ESTABLISH primitive in mL3Out
  thread,  \* DCCHDispatcher() of each SDCCH
  phone,   \* where each phone is
  grant    \* AccessGrantResponder(): a channel taken, its assignment not yet sent

vars == <<l1, frame, link, estab, thread, phone, grant>>

Timer == {"off", "running", "expired"}

Decoder == [active : BOOLEAN, T3101 : Timer, T3109 : Timer, T3111 : Timer]

NoFrame == [phone |-> None, SABM |-> FALSE]

\* The type invariant; a thread that sets up a call has a TCH.
TypeOK ==
  /\ l1 \in [Channel -> Decoder]
  /\ frame \in [Channel -> [phone : Phone \cup {None}, SABM : BOOLEAN]]
  /\ link \in [Channel -> Phone \cup {None}]
  /\ estab \subseteq SDCCH
  /\ thread \in [SDCCH -> [pc : {"waiting", "serving"}, tch : {None}]
                          \cup [pc : {"starting", "assigning", "late"}, tch : TCH]]
  /\ phone \in [Phone -> [at : Channel, is : {"coming", "linked", "leaving"}]
                         \cup [at : {None}, is : {"away"}]]
  /\ grant \in [phone : Phone, chan : SDCCH] \cup [phone : {None}, chan : {None}]

----------------------------------------------------------------------------
(* L1Decoder *)

recyclable(d) == "expired" \in {d.T3101, d.T3109, d.T3111}

active(d) == d.active /\ ~recyclable(d)

open(d) == [active |-> TRUE, T3101 |-> "running", T3109 |-> "off", T3111 |-> "off"]

\* Mutants: the channel is recyclable at once, or never.
closeAtOnce(hard) == [active |-> FALSE, T3101 |-> "off", T3109 |-> "off", T3111 |-> "expired"]
closeForGood(hard) ==
  [active |-> FALSE, T3101 |-> "off", T3109 |-> "off", T3111 |-> IF hard THEN "expired" ELSE "off"]

close(hard) ==
  [active |-> FALSE, T3101 |-> "off", T3109 |-> "off",
   T3111 |-> IF hard THEN "expired" ELSE "running"]

handleGoodFrame(d) == [d EXCEPT !.T3109 = "running", !.T3101 = "off"]

Available(pool) == {c \in pool : recyclable(l1[c])}

----------------------------------------------------------------------------
(* Opening and closing a channel, through its layers *)

Init ==
  /\ l1 = [c \in Channel |->
             [active |-> TRUE, T3101 |-> "running", T3109 |-> "off", T3111 |-> "off"]]
  /\ frame = [c \in Channel |-> NoFrame]
  /\ link = [c \in Channel |-> None]
  /\ estab = {}
  /\ thread = [c \in SDCCH |-> [pc |-> "waiting", tch |-> None]]
  /\ phone = [p \in Phone |-> [at |-> None, is |-> "away"]]
  /\ grant = [phone |-> None, chan |-> None]

\* LogicalChannel::open(): L1, L2 and what waits for layer 3.
Open(c) ==
  /\ l1' = [l1 EXCEPT ![c] = open(@)]
  /\ link' = [link EXCEPT ![c] = None]
  /\ estab' = estab \ {c}

\* SAP0 is released: RELEASE, or HARDRELEASE, goes to L1.
Close(c, hard) ==
  /\ l1' = [l1 EXCEPT ![c] = close(hard)]
  /\ link' = [link EXCEPT ![c] = None]

Away == [at |-> None, is |-> "away"]

At(c) == {p \in Phone : phone[p].at = c}

\* Nobody is on c, or on the way to it: what HARDRELEASE is meant for.
Cleared(c) == At(c) = {} /\ grant.chan # c

\* t is the TCH of a call that is being set up on c.
Holds(c, t) == thread[c].pc = "starting" /\ thread[c].tch = t

Held(t) == \E c \in SDCCH : Holds(c, t)

\* The thread of c is in assignTCHF().
Assigning(c) == c \in SDCCH /\ thread[c].pc \in {"assigning", "late"}

----------------------------------------------------------------------------
(* The access grant *)

\* A channel for p: open before the lock of the pools is released.
AccessGrant(p) ==
  /\ grant.phone = None
  /\ phone[p].at = None
  /\ p \in LUR => Cardinality(Available(SDCCH)) > SDCCHReserve
  /\ \E c \in Available(SDCCH) :
       /\ Open(c)
       /\ grant' = [phone |-> p, chan |-> c]
  /\ UNCHANGED <<frame, thread, phone>>

\* 20 frames later; the phone may have stopped listening.
SendAssignment ==
  /\ grant.phone # None
  /\ \/ UNCHANGED phone
     \/ phone' = [phone EXCEPT ![grant.phone] = [at |-> grant.chan, is |-> "coming"]]
  /\ grant' = [phone |-> None, chan |-> None]
  /\ UNCHANGED <<l1, frame, link, estab, thread>>

----------------------------------------------------------------------------
(* The phones, and the decoder of c *)

\* writeLowSideRx() asks active(), and decodes without the lock.
Burst(p) ==
  LET c == phone[p].at IN
  /\ phone[p].is \in {"coming", "linked"}
  /\ frame[c] = NoFrame
  /\ active(l1[c])
  /\ frame' = [frame EXCEPT ![c] = [phone |-> p, SABM |-> phone[p].is = "coming"]]
  /\ UNCHANGED <<l1, link, estab, thread, phone, grant>>

\* handleGoodFrame(), and L2: an SABM of the phone that has the link, or gets it, is answered.
GoodFrame(c) ==
  LET p == frame[c].phone
      establishes == frame[c].SABM /\ link[c] = None IN
  /\ p # None
  /\ frame' = [frame EXCEPT ![c] = NoFrame]
  /\ l1' = [l1 EXCEPT ![c] = handleGoodFrame(@)]
  /\ link' = IF establishes THEN [link EXCEPT ![c] = p] ELSE link
  /\ estab' = IF establishes THEN estab \cup ({c} \cap SDCCH) ELSE estab
  /\ phone' = IF frame[c].SABM /\ link[c] \in {None, p} /\ phone[p] = [at |-> c, is |-> "coming"]
              THEN [phone EXCEPT ![p].is = "linked"] ELSE phone
  /\ UNCHANGED <<thread, grant>>

\* A DISC from the phone, which waits for its UA before it leaves.
Disconnect(p) ==
  LET c == phone[p].at IN
  /\ phone[p].is = "linked"
  /\ link[c] = p
  /\ active(l1[c])
  /\ Close(c, FALSE)
  /\ phone' = [phone EXCEPT ![p].is = "leaving"]
  /\ UNCHANGED <<frame, estab, thread, grant>>

\* The phone goes, in whatever state it is.
Leave(p) ==
  /\ phone[p].at # None
  /\ phone' = [phone EXCEPT ![p] = Away]
  /\ UNCHANGED <<l1, frame, link, estab, thread, grant>>

\* L2 gives up, and closes L1 behind its ERROR.  Prompt phones have gone by then, and
\* assignTCHF() has returned.
LinkFails(c) ==
  /\ ~Assigning(c)
  /\ link[c] # None
  /\ PromptPhone => Cleared(c)
  /\ Close(c, FALSE)
  /\ UNCHANGED <<frame, estab, thread, phone, grant>>

----------------------------------------------------------------------------
(* The timers *)

\* A frame is decoded in less than any of them.
Expires(c, t) ==
  /\ frame[c] = NoFrame
  /\ l1[c][t] = "running"
  /\ l1' = [l1 EXCEPT ![c][t] = "expired"]
  /\ UNCHANGED <<frame, link, estab, phone, grant>>

\* A prompt phone arrives within T3101 of its assignment: a thread that assigns c is late now.
T3101Expires(c) ==
  /\ PromptPhone => Cleared(c)
  /\ PromptSetup => ~Held(c)
  /\ Expires(c, "T3101")
  /\ thread' = [d \in SDCCH |-> IF thread[d] = [pc |-> "assigning", tch |-> c]
                               THEN [pc |-> "late", tch |-> c] ELSE thread[d]]

\* Good frames restart it, and a prompt phone sends them until it leaves.  assignTCHF()
\* takes less than its 30 s.
T3109Expires(c) ==
  /\ ~Assigning(c)
  /\ PromptPhone => Cleared(c)
  /\ Expires(c, "T3109")
  /\ UNCHANGED thread

\* A prompt phone leaves within T3111, two T200, of its DISC.
T3111Expires(c) ==
  /\ PromptPhone => \A p \in At(c) : phone[p].is # "leaving"
  /\ Expires(c, "T3111")
  /\ UNCHANGED thread

----------------------------------------------------------------------------
(* The threads of the channels *)

Thread(c, pc, tch) == thread' = [thread EXCEPT ![c] = [pc |-> pc, tch |-> tch]]

\* Mutant: the TCH is not forgotten.
ReturnWithTCH(c) == Thread(c, "waiting", thread[c].tch)

Return(c) == Thread(c, "waiting", None)

Dispatch(c) ==
  /\ thread[c].pc = "waiting"
  /\ c \in estab
  /\ estab' = estab \ {c}
  /\ Thread(c, "serving", None)
  /\ UNCHANGED <<l1, frame, link, phone, grant>>

\* The controller ends: the phone has been told to leave, has left, or is left alone.  One
\* that outlives its phone may have read the ESTABLISH of the next.
Finish(c) ==
  /\ thread[c].pc = "serving"
  /\ estab' \in {estab, estab \ {c}}
  /\ Return(c)
  /\ UNCHANGED <<l1, frame, link, phone, grant>>

\* IMSIDetachController() does not wait for the phone, which is being switched off: HARDRELEASE.
Detach(c) ==
  /\ thread[c].pc = "serving"
  /\ CertainRelease => Cleared(c)
  /\ Close(c, TRUE)
  /\ Return(c)
  /\ UNCHANGED <<frame, estab, phone, grant>>

\* Mutant: getTCH() leaves it to the caller to open the channel.
StartCallUnopened(c) ==
  /\ thread[c].pc = "serving"
  /\ \E t \in Available(TCH) : Thread(c, "starting", t)
  /\ UNCHANGED <<l1, frame, link, estab, phone, grant>>

\* allocateTCH().
StartCall(c) ==
  /\ thread[c].pc = "serving"
  /\ \E t \in Available(TCH) : Open(t) /\ Thread(c, "starting", t)
  /\ UNCHANGED <<frame, phone, grant>>

\* The call is not confirmed, or is cleared from either side.
SetupFails(c) ==
  /\ thread[c].pc = "starting"
  /\ Close(thread[c].tch, TRUE)
  /\ Return(c)
  /\ UNCHANGED <<frame, estab, phone, grant>>

\* An exception, or a call without a number, leaves the TCH to T3101.
SetupThrows(c) ==
  /\ thread[c].pc = "starting"
  /\ Return(c)
  /\ UNCHANGED <<l1, frame, link, estab, phone, grant>>

\* assignTCHF() opens the TCH once more.
Assign(c) ==
  /\ thread[c].pc = "starting"
  /\ Open(thread[c].tch)
  /\ Thread(c, "assigning", thread[c].tch)
  /\ UNCHANGED <<frame, phone, grant>>

Move(c) ==
  /\ thread[c].pc \in {"assigning", IF PromptPhone THEN "assigning" ELSE "late"}
  /\ \E p \in At(c) :
       /\ phone[p].is = "linked"
       /\ phone' = [phone EXCEPT ![p] = [at |-> thread[c].tch, is |-> "coming"]]
  /\ UNCHANGED <<l1, frame, link, estab, thread, grant>>

\* Nothing came for T3107 and 2 s: taken for a successful assignment, HARDRELEASE.
Assigned(c) ==
  /\ Assigning(c)
  /\ CertainRelease => Cleared(c)
  /\ Close(c, TRUE)
  /\ Return(c)
  /\ UNCHANGED <<frame, estab, phone, grant>>

\* A phone keeps sending on c.  RELEASE makes the phone on the TCH leave; it does nothing to a
\* TCH without a link.
AssignmentFails(c) ==
  LET t == thread[c].tch IN
  /\ Assigning(c)
  /\ At(c) # {}
  /\ \/ /\ link[t] = None
        /\ UNCHANGED <<l1, link, phone>>
     \/ /\ link[t] # None
        /\ Close(t, FALSE)
        /\ phone' = [p \in Phone |->
                      IF p \in At(t) THEN [phone[p] EXCEPT !.is = "leaving"] ELSE phone[p]]
  /\ Return(c)
  /\ UNCHANGED <<frame, estab, grant>>

----------------------------------------------------------------------------

ThreadStep(c) ==
  \/ Dispatch(c)
  \/ Finish(c)
  \/ Detach(c)
  \/ StartCall(c)
  \/ SetupFails(c)
  \/ SetupThrows(c)
  \/ Assign(c)
  \/ Assigned(c)
  \/ AssignmentFails(c)

Next ==
  \/ SendAssignment
  \/ \E p \in Phone : AccessGrant(p) \/ Burst(p) \/ Disconnect(p) \/ Leave(p)
  \/ \E c \in Channel :
       \/ GoodFrame(c)
       \/ LinkFails(c)
       \/ T3101Expires(c)
       \/ T3109Expires(c)
       \/ T3111Expires(c)
  \/ \E c \in SDCCH : ThreadStep(c) \/ Move(c)

Spec == Init /\ [][Next]_vars

----------------------------------------------------------------------------
(* Properties *)

\* A TCH that MTCStarter() or MOCStarter() has taken for its call belongs to no other call:
\* the thread opens it again and hard-releases it without asking whose it is.
OneHolder ==
  \A c \in SDCCH, t \in TCH :
    Holds(c, t) => At(t) = {} /\ \A d \in SDCCH : Holds(d, t) => d = c

\* Two phones are never on one channel: recyclable() is true only of a channel that its phone
\* has left, whichever timer says so, with frames still in the decoder.
NoSharing == \A p, q \in Phone : p # q /\ phone[p].at = phone[q].at => phone[p].at = None

\* A timer of every channel is running, or has expired: whoever loses track of a channel, and
\* in whatever order frames, closing and opening reach it, it becomes recyclable in the end.
NeverStranded == \A c \in Channel : \E t \in {"T3101", "T3109", "T3111"} : l1[c][t] # "off"
============================================================================
