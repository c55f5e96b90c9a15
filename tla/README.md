# TLA+ models of OpenBTS

OpenBTS is a GSM base station whose handsets appear as SIP endpoints. This directory holds
TLA+ models of its control core (`src/openbts/trunk`) and of the message store beside it
(`src/smqueue/trunk`), the TLC configurations that check them on small instances, and proofs,
checked by TLAPS, of nearly all of their safety properties: of the data link and its contention, the
transaction table, dedicated channels, call control, the handover of a call and the message store.
`PROJECT.json` maps every definition to the source lines it stands for and lists, at their
lines, the hazards the properties are aimed at.

- [1. The system](#1-the-system)
- [2. The modules](#2-the-modules)
- [3. The runs, their bounds, the fairness](#3-the-runs-their-bounds-the-fairness)
- [4. The proofs](#4-the-proofs)
- [5. Disagreements between the code and what is said of it](#5-disagreements-between-the-code-and-what-is-said-of-it)
- [6. What is not modelled](#6-what-is-not-modelled)
- [7. Plan](#7-plan)

## 1. The system

Paths are relative to `src/openbts/trunk` unless they start with `src/`.

### Processes and threads

One process, `OpenBTS`, talks to the radio process (`transceiver`) over UDP, to a SIP switch,
to `smqueue` (store and forward of messages) and to `sipauthserve` (subscriber registry).
Inside OpenBTS:

| thread | code | works on |
|---|---|---|
| one per dedicated channel, two when it has a SACCH | `DCCHDispatcher()`, `SACCHLogicalChannel::serviceLoop()` | runs the controller of whatever its phone does, blocking in L2 and SIP reads |
| one per L2 entity (SAP0 and SAP3 of each channel) | `L2LAPDm::serviceLoop()` | frames from L1, T200 |
| one per L1 encoder, and the demultiplexer | `L1Encoder::serviceLoop()`, `TRXManager` | bursts |
| SIP driver | `SIPInterface::drive()` | reads the socket, accepts INVITE and MESSAGE, routes the rest to FIFOs |
| pager | `Pager::serviceLoop()` | repeats pages, gives expired ones up |
| access grant, power manager, CLI, peering, cell broadcast, GPRS | one each | |

They share the transaction table, the pager's list, the map of SIP FIFOs, and the channels
themselves. Each has its own lock; an operation that touches two of them takes the locks one
after the other, never together, and keeps bare `TransactionEntry*` pointers in between.

### Components

**LAPDm data link** (`GSM/GSML2LAPDm.{h,cpp}`). *State*: per SAP a state (released, awaiting
establishment or release, established, contention resolution), V(S), V(A), V(R), the
retransmission counter, T200, the frame to retransmit, the receive buffer, flags
`mEstablishmentInProgress`, `mDiscardIQueue`, `mIdleFrame`. *Operations*: the primitives
ESTABLISH, RELEASE, ERROR, HARDRELEASE, DATA from a layer 3 thread, which block in
`waitForAck()`; SABM, DISC, UA, DM, UI, I, RR, REJ from the service loop; T200; `open()`.
*Interacts* with L1 (frames down; primitives in both directions), with layer 3 (FIFO of frames
and primitives), with SAP0 as `mMaster`. *Hard*: loss, repetition, delay; a blocked writer
against a service loop that resets the state; primitives that unlock half-way; reuse of one
entity for the next phone. *Correct if*: window of one, everything outstanding is timed,
blocked writers return, layer 3 knows the link's state, messages arrive unbroken, once and in
order, one phone's past never meets the next phone.

**L1 channel life cycle** (`GSM/GSML1FEC.cpp`). *State*: receiver active or not, T3101, T3109,
T3111, bad-frame counter. *Operations*: open, close, good frame, bad frame, `recyclable()`. *Hard*:
the timers are the only way back to the pool; frames that were accepted before the channel was
closed and reopened. *Correct if*: a channel is given out again only when its last user is gone,
and every channel is.

**Channel allocation and logical channels** (`GSM/GSMConfig.cpp`, `GSM/GSMLogicalChannel.*`,
`GSM/GSMSAPMux.cpp`). *State*: pools of SDCCHs and TCHs, links between them, transactions
queued for a SACCH. *Operations*: get a channel, open, connect, multiplex SAPs.

**Transaction table** (`Control/TransactionTable.*`). *State*: entries with a GSM state, its
age, a `SIPEngine`, a channel, `mRemoved`. *Operations*: add, remove, some twelve searches,
nearly all of which first delete what looks dead. *Hard*: deletion of an entry that another
thread points to; entries that nobody ends; several entries for one phone or one channel.
*Correct if*: no thread uses a deleted entry; every entry is deleted in the end; a live entry
has its SIP FIFO; one controller per transaction.

**SIP interface** (`SIP/SIPInterface.cpp`). *State*: map from call ID to FIFO. *Operations*:
`checkInvite()` for new and repeated requests; routing; `removeCall()`. *Hard*: repeated
requests while the first is served.

**SIP engine** (`SIP/SIPEngine.cpp`). *State*: SIP state of one dialog, last requests and
responses. *Operations*: about forty, one per message to send or to wait for, called from the
controllers; each wait repeats its message until a Timer ends it. *Hard*: crossing BYEs and
CANCELs, late answers read by the wrong wait.

**Pager** (`Control/RadioResource.cpp`). *State*: list of identities with an expiry and a
transaction ID. *Operations*: `addID()`, `removeID()`, `pageAll()`. *Hard*: expiry against a
paging response; two transactions of one phone.

**Call control** (`Control/CallControl.cpp`). *State*: the GSM and SIP states of the transaction,
its Q.931 timers, where the controller's loop is. *Operations*: set-up in both directions,
assignment of a TCH, the in-call loop, clearing. *Hard*: the move of a transaction from the
SDCCH's thread to the TCH's; set-up and clearing that cross; late answers to a wait that is over.
*Correct if*: no assertion of the SIP engine fails, both sides are cleared when the controller
returns, a call that is being cleared is not set up again, and it ends.

**SMS control** (`Control/SMSControl.cpp`). Delivery on an SDCCH or on the SACCH of a call;
submission by the phone.

**Dispatcher** (`Control/DCCHDispatch.cpp`). Waits for a link, reads the first message, runs the
controller, turns exceptions into releases.

**Handover and peering** (`Control/RadioResource.cpp`, `Peering/`). *State*: the transaction at
each base station, the reference of the handover, what the receiver has heard of the phone.
*Operations*: request, answer, command, access bursts, complete, re-INVITE, indications
that are repeated until acknowledged. *Hard*: datagrams lost, repeated and late; five threads of
two processes; a phone that comes back. *Correct if*: one base station runs the call, and each
side gives up what the other has.

**Mobility management** (`Control/MobilityManagement.cpp`, `TMSITable.cpp`). Location updating,
authentication, TMSIs.

**Access grant and power control** (`Control/RadioResource.cpp`, `GSM/PowerManager.cpp`). Access
bursts are granted a channel or held off (T3122); the attenuation follows the load.

**GPRS** (`GPRS/`, `SGSNGGSN/`). RLC/MAC scheduling, temporary block flows, sessions.

**Radio process** (`Transceiver52M/`, `TransceiverRAD1/`, `TRXManager/`). Bursts in and out. Its
filler table repeats the last burst of a timeslot, which L2 must survive.

**smqueue** (`src/smqueue/trunk/smqueue`). One thread, a list of messages by the time of their next
action, a table of timeouts from state to state, a database that the list is replayed from.
*Operations*: take a datagram, serve the head of the list, match an answer with what was sent,
bounce, register a phone that sends its number to a short code, charge for what was delivered.
*Hard*: a crash between any two steps; answers that are late, or come twice; a message that is
replayed or submitted again under the same tag. *Correct if*: what was accepted is in the backup
until somebody has been told its end, it is charged once, and it ends.

**Beside these**: `src/CommonLibs` (queues, threads, configuration), `src/subscriberRegistry`,
`src/a53`, `src/RRLP`, `src/sqlite3`.

### How they meet

```
   SIP socket --> checkInvite() --> transaction table <-- any search deletes dead entries
                       |                 ^       ^
                       v                 |       |
                     pager  ..page..>  phone     |
                                         |       |
                    SDCCH thread <-------+       |
                 DCCHDispatcher -> MTCStarter / MTSMSController
                       |  assignTCHF                     TCH thread, SACCH thread
                       +------------------------------>  MTCController, queued SMS
   each channel:  L3 thread <-> L2LAPDm (SAP0, SAP3) <-> L1 <-> transceiver <-> phone
```

## 2. The modules

### LAPDm: `LAPDmEntity`, `LAPDm`, `DataLinkService`, `LAPDmContention`

`LAPDmEntity` is one object of class `L2LAPDm` as a record; every C++ method is an operator
from record to record, so that calls nest as in the code (`abnormalRelease` is
`clearState(sendUFrameDM(s, TRUE))`, as its body says). Fields keep the member variables; one
more, `thread`, is where the layer 3 thread is inside `writeHighSide()`, and `todo` the segments
its loop in `sendMultiframeData()` still has. `tx` is what was handed to L1; `l1` L1's receiver;
`l3` and `got` the primitives and messages handed up. Whole turns of the loop that run with the
lock held are one step. The primitives that do not hold it are cut where the code unlocks:
ESTABLISH reads the state (`establishRequest`), locks (`awaitEstablish`), unlocks, writes its
SABM (`writeSABM`) and starts T200 (`startSABMTimer`); RELEASE reads the state
(`releaseRequest`), waits and sends a DISC (`sendDISC`), waits again. `topOfServiceLoop` has two
effects of the loop's head: another SAP follows a released `mMaster`, and the read with a timeout
of an hour when no timer runs (`asleep`).

`LAPDm` joins two entities, base station and phone. The phone of this model is the same entity,
with two differences that the constant `Standard` switches on: a phone that follows GSM 04.06
refreshes N(R) when it retransmits and looks at its timer whenever it runs. The radio path loses
frames (`Lose`), delays them, and repeats the last one (`ReceiveRepeated`). T200 may expire while
an answer is on its way, unless `PatientT200`. `Reopen` gives the channel to the next phone, also while
the layer 3 thread is still blocked in a message, or in the release, of the last one.
`MasterReleases` is SAP0 as SAP3 sees it.

`DataLinkService` is the abstract specification: up, down, offer, deliver. What an end has
received since its link last started is an unbroken run of the messages its peer offered in this
session. `LAPDm` implements it with `up` = the last primitive given to layer 3 is ESTABLISH
(`LinkService`).

`LAPDmContention` puts several handsets on one channel (GSM 04.06 5.4.1.4) before the same
entity. The handsets are external: they do what GSM 04.06 prescribes. `heard` is a history of the
identities in the SABMs that the entity has read, which no guard looks at.

### Mobile-terminated transactions: `MTTransactions`

The SIP thread, the pager, the threads of the channels and the phones around the transaction
table. Each lock the code takes is an action; what a thread read before it unlocked, it keeps in
its local record (`sip`, `thread[c]`). Threads hold entry numbers as the code holds pointers; a
deleted entry stays in `table` with `erased`, because freed memory is read as it was left, and
`NoDanglingUse` says that nobody gets there. `age` is the time since `GSMState()` was last set, in
the three classes that `dead()` tells apart.

Early assignment is modelled (`Control.VEA` off), and `SIP.RFC3428.NoTrying` off: the settings of
the example configuration. `RemovedTransaction` in the SIP thread is caught by nobody
(`SIPInterface.cpp:326` catches `SIPException` alone) and ends the process: the model stops in
`thrown`.

| action | code |
|---|---|
| `Invite`, `Repeated`, `SendTrying`, `Refuse`, `NewTransaction` | `checkInvite()` between its locks |
| `SetPaging`, `ListPage` | `Pager::addID()` |
| `SendPage`, `DropPage` | an iteration of the loops of `pageAll()` |
| `RemovePage`, `answeredPaging`, `Attach` | `PagingResponseHandler()` |
| `BeginSMS`, `EndSMS`, `SMSThrows`, `InCallSMS` | `MTSMSController()`, `deliverSMSToMS()`, the SACCH loop |
| `Congested`, `SendSetup`, `CallConfirmed`, `NotConfirmed` | `MTCStarter()` |
| `Assign`, `StrayFrame`, `AssignAgain`, `HandOff`, `AssignmentFails`; `Move` of the phone | `assignTCHF()`: into its loop, a frame that is dispatched there, round again, and the two ways out |
| `AssignmentComplete`, `Alerting`, `Connect`, `ReceiveACK`, `EndCall`, `Abandon` | `AssignmentCompleteHandler()`, `MTCController()` and the ways out |
| `OtherScan`, `Tick` | searches by the rest of the control layer, time |

The thread of the SDCCH stays in the loop of `assignTCHF()` when the phone has moved: it goes round for
every frame that is still read on the SDCCH, dispatches it (`dispatched`) and sets the channel of
the transaction again, while the thread of the TCH runs the call. So a Call Confirmed, or a
Disconnect, that was left behind may take a call back that is already connected.

### Dedicated channels: `DedicatedChannels`

Nobody gives a dedicated channel back. It is free (`recyclable`) when a timer of its decoder has
expired: T3101 when nobody came (4 s after opening), T3109 when nobody sends (30 s after the last
good frame), T3111 after it was closed, at once after a HARDRELEASE. The module puts together the
decoders (`l1`, with the four fields of `L1Decoder` that matter), the pools, the access grant,
the threads of the SDCCHs and the phones.

| action | code |
|---|---|
| `AccessGrant`, `SendAssignment` | `AccessGrantResponder()` before and after its `sleepFrames(20)` |
| `Burst`, `GoodFrame` | `writeLowSideRx()`: the unlocked `active()` test, and `handleGoodFrame()` with L2 behind it |
| `Disconnect`, `LinkFails`, `Leave` | a DISC, `abnormalRelease()`, a phone that goes without either |
| `T3101Expires`, `T3109Expires`, `T3111Expires` | the timers |
| `Dispatch`, `Finish`, `Detach` | `DCCHDispatcher()` and its controllers; `IMSIDetachController()` |
| `StartCall`, `SetupFails`, `SetupThrows` | `allocateTCH()` and the ways out of `MTCStarter()` and `MOCStarter()` |
| `Assign`, `Move`, `Assigned`, `AssignmentFails` | `assignTCHF()` |

`Open` and `Close` go through the layers as the code does (`LogicalChannel::open()`; RELEASE and
HARDRELEASE down to L1). Of L2 the module keeps whose link is up: `LAPDm` has the rest. A thread is
`late` once T3101 of the TCH it assigns has expired: a phone that is in time has moved by then.
The threads of TCHs, which do not change what is modelled here, are left out.

### Call control: `CallControl`

One transaction with its SIP engine (`tr`), the controller of the channel (`thread`: the loop it
is in, what comes next there, and the wait of the SIP engine it is in, if any), the phone's call
control entity, and the remote party with what is under way from it (`net`, `fifo`). A read that
blocks is an action; what the code sends before the next read belongs to the step. Messages of
the remote party are lost, delayed, reordered and repeated; those of the phone are late, and in
order. Calls from either side are in the one module, because they share the loop of the call, the
clearing and nearly all the engine.

| action | code |
|---|---|
| `Updates`, with `Cleared`, `TimerExpired`, `Dispatched`, `NothingRead` | `updateGSMSignalling()` and `callManagementDispatchGSM()`, at the head of every loop |
| `SetupCleared`, `QuitDefunct`, `Leave`, `Remove` | the tests behind it, and the ways out of the controllers |
| `Confirm`, `AssignStray`, `Assigned`, `AssignmentFails`, `AssignmentLost` | `MTCStarter()`, `assignTCHF()` |
| `AwaitConnect`, `AwaitACK` | `MTCController()` |
| `AwaitRinging`, `AwaitAnswer`, `Answered`, `Acknowledged` | `MOCController()` |
| `updateSIPSignalling`, `CheckTermination`, `RadioFailure` | `pollInCall()`, `callManagementLoop()`, exceptions of the read |
| `WaitReads`, `WaitRepeats`, `WaitEnds` | `MODWaitForBYEOK()` and its siblings, `sendINFOAndWaitForOK()` |
| `forceSIPClearing`, `forceGSMClearing`, `abortCall`, `abortAndRemoveCall` | the functions of these names |

`thread.pc = "crashed"` is a failed assertion of `SIPEngine.cpp`. The repetition of an INVITE and
the deletion of dead entries by other threads are in `MTTransactions`.

### Handover: `Handover`, `CallOwner`

Two base stations, a phone that moves, comes back or is lost, and the datagrams between them.
`old` is the transaction at BS1 with the thread of its channel; `new[r]` the entry that BS2
prepared for the request it gave reference `r`, with the threads that work on it. The SACCH
thread of BS1, its peering thread and its controller, and at BS2 the peering thread, the receiver
of L1 and the dispatcher each have their actions, so that they meet in any order.

| action | code |
|---|---|
| `HandoverDetermination`, `processHandoverResponse`, `Command` | measurement report, peering thread and `pollInCall()` of BS1 |
| `ReadFrame`, `ReceiveBYE`, `AbortOld` | the call goes on, or is cleared, meanwhile |
| `TransferFailed`, `T3103Expires`, `processHandoverComplete`, `processHandoverFailure` | `outboundHandoverTransfer()` and the indications |
| `processHandoverRequest`, `Congestion`, `ChannelExpires`, `EntryExpires` | BS2 prepares, and gives up |
| `SaveHandoverAccess`, `ProcessHandoverAccess`, `AccessTimesOut`, `Abort`, `Aborted` | receiver and dispatcher at BS2, up to Ny1 repetitions |
| `HandoverComplete`, `SendINVITE`, `inboundHandoverCheckForOK` | what is read in place of Handover Complete, and the re-INVITE of the remote party |
| `INVITEAfterAbort`, `Restart` | another message than Handover Complete aborts without a return, so that the re-INVITE follows; its frame is deleted twice, which may end the process |
| `Indicated`, `SendAgain`, `ReadACK`, `GiveUp` | `sendUntilAck()` |

`CallOwner` is the abstract specification: a call is with one base station, on its way, or ended;
it arrives at BS2 only after the remote party has been told to send its media there, does not
come back from BS2, and does not come back to life. The remote party is never told so while a base
station serves the call; it may be when the call is over, or that may end the call, because BS2
sends its re-INVITE also for a handover that it has aborted (`RadioResource.cpp:422-434`). `Handover` implements it (`OwnedCall`) with
the owner read off the controllers of both base stations and the frames of the phone on its way.

### Store and forward: `SMQueue`

The main loop waits (`select`), serves the head of the list (`serve`) or does not run (`down`).
`queue` is the list in its order: `set_state()` sorts an entry in, but `handle_response()` and
new entries do not. `left` is the time until the next action. `backup` is the table of messages,
whose key, the timestamp, names an entry (`row`). `wire` holds the requests that have been sent
and not been answered; what the answer says is chosen when it is read, which may be after the
entry was submitted again, replayed or deleted. `linked` is the one table of the registry that
smqueue writes. The ghosts (`accepted`, `over`, `charged`, `copies`, `excused`) record what the
properties speak of, and no guard reads them.

| action | code |
|---|---|
| `Submit` | `handle_datagram()` of a MESSAGE: into the backup, if the INSERT succeeds (`Originate`, `OriginateText`), into the list, and 202 in any case |
| `ResponseUnknown`, `ResponseInPlace`, `ResponseOK`, `ResponseRefused` | `handle_response()`: no such message; 1xx, 480, 486, 5xx, 3xx, 6xx; 2xx; other 4xx |
| `ServeInvalid`, `ServeSMSC`, `ServeLowFunds`, `ServeOrdinary`, `ServeRegister`, `ServeRegistered` | INITIAL_STATE: `handle_short_code()`, `submitSMS()`, `verify_funds()`, `shortcode_register()` |
| `ServeFromAddress`, `ServeIMSI`, `ServeBounce`, `ServeHostPort` | the lookups, `bounce_message()` |
| `ServeDelivery` | `deliver_msg_datagram()`, and the time until it is tried again |
| `ServeAskedToRegister`, `ServeAwaitingRegister` | `register_handset()` again |
| `ServeDelete` | NO_STATE and DELETE_ME_STATE |
| `Wake`, `Tick` | the time-out of `poll()`, and time |
| `Crash`, `CrashAfterDebit`, `Restart` | the process dies between two steps, or between debit and removal; `get_stored_messages()` |

### MC modules

`MCLAPDm`, `MCLAPDmContention`, `MCMTTransactions`, `MCDedicatedChannels`, `MCCallControl`,
`MCHandover` and `MCSMQueue` hold the instances: messages, requests, payloads and how often each
is used. A `.cfg` picks from them.

## 3. The runs, their bounds, the fairness

| run | question | bounds |
|---|---|---|
| `sap0` | Is the signalling link right over a bad path, with requests from both sides, and for the next phone on the channel? | N200 1, modulus 3, 2 frames in flight, messages of two, one and one segment, one request each side, 2 sessions |
| `sap3` | The link that the network establishes, with the unlocked halves of ESTABLISH, T200 racing an answer, and a phone that establishes it at the same moment | N200 0, modulus 3, 2 frames, one request each side, a message of the network; 400,000 states |
| `live` | Do blocked writers return? | as `sap0`, one session, one message each way |
| `contention` | Which handsets are admitted, of those that call at once? | 3 handsets of 2 frames, two of them with equal checksums, 2 frames on the uplink and 3 on the downlink |
| `mt` | Is the transaction table safe while five kinds of threads use it? | one phone, a call, a message that arrives twice, one SDCCH, one TCH with its SACCH, 1 stray frame in `assignTCHF()` (Call Confirmed, Disconnect, IMSI Detach or another); 4.2 million states |
| `mt_live` | Is every transaction ended, and by one controller? | the same phone, each request once, two SDCCHs, 1 stray frame, a Disconnect |
| `channels` | Does nobody share a channel, and does every channel come back? | 2 phones, one of them for location updates, 2 SDCCHs (symmetric) with 1 in reserve, 1 TCH; 1.2 million states |
| `calls` | Does a call end cleanly, however set-up and clearing cross? | one call of either kind, 2 SIP messages under way, no step of the set-up takes 30 s |
| `handover` | Who runs a call that is handed over while it may be cleared? | 2 handovers prepared by BS2, 1 datagram under way |
| `smqueue` | Is an accepted message kept, charged once, and ended? | an ordinary message and one, in text/plain, that registers its phone, both with a double quote, 2 submissions or crashes in all, 1 request under way, 6 rows |
| `ringing`, `tch_held` | Section 5 | |

**Why the bounds are enough to be interesting.** With a window of one, the frame numbers in play
are V(S), V(A) and an old one: modulus 3 tells them apart, makes wrapping happen after three
segments, and is the smallest that does (`contention` uses 8). N200 of 1 reaches retransmission and
giving up; N200 of 0 gives up at the second expiry. Two frames in flight allow an answer to meet
a retransmission; a third is lost, which a lossy path may do anyway. A message of two segments
reaches reassembly, and being cut in the middle. The second session is what shows state left by
the first. In `mt`, a call and a message of the same phone use one paging entry, the second copy
of the message meets its first in every state, and one SDCCH forces the paging response of the
second transaction to wait. One stray frame is what it takes for two threads to work on the call, at any point
of it. A second one, and the kinds Alerting, Connect and Release Complete, are left to the theorems, which hold
for any number of any kind. In `contention`, the third handset meets each pair of the other two, alike or not, in either order. In `channels`, two phones are what it takes to share a channel, two
SDCCHs let two threads hold the one TCH, and nothing is bounded: phones come and go, and channels
are reused, any number of times. In `calls`, one call is all that the controller of a channel
sees; two messages under way let a late answer meet the next request, a third is lost. In
`handover`, two references are what it takes for an entry to outlive its handover and meet the
next one; a second datagram under way adds nothing that losing the first does not, since all
that matters are sent again. In `smqueue`, two events are a message and its repetition, two messages, or
a message and a crash; the four rows that a submission must find free are the most that one
message takes up with its replies and notices, so that the table never decides what happens. The
times there keep the order that matters (`Short`, `Resend`, `Acked` 1, `Long` 2): answers come
before, at and after each. Every action of every module fires in some passing run.

**Assumptions that the constants state.** `Standard = {"MS"}`: the phone follows GSM 04.06. Without
it, between two ends that repeat as this code does, `SendReturns` fails: a retransmitted I-frame
carries the N(R) it was built with, the receiver believes any N(R), V(A) moves back with T200
stopped, and its writer waits for ever.
`PromptTimer`: the thread in `sendUFrameSABM()` starts T200, two statements after writing the
SABM, before an answer has come over the air; `sap3` does without. `PatientT200` is FALSE
everywhere: T200 (900 ms) is compared with nothing. `Prompt`: no entry ages past 30 s while the
SIP thread holds it, while a controller works on it (a call that is up excepted) or while it
waits for a SACCH in use. `ringing` shows what happens without it: the assumption is a condition
on phones and switch that the code does not enforce. Deadlock is not checked in these: each model
stops once its bounded requests are used up, and a quiet link is a legal end. So it is in
`calls` and `handover`, where the one call ends, and in `smqueue`, where the queue is empty at last.
`DedicatedChannels` has no bounds, and is checked for deadlock.

`Keys = {"MO"}`: keys are pressed in calls that the phone has started. In a call from the remote
party, with `SIP.DTMF.RFC2967`, the answer to an INFO that comes after Timer F is taken for one
to an INVITE that was never sent (`MTDCheckBYE()`, `SIPEngine.cpp:1016`), and the assertion in
`MOCSendACK()` fails: the instance `Keys = {"MT"}` shows it. `Quick`: no step of the set-up takes
30 s; otherwise the transaction is dead, and a controller returns without releasing the phone
(`PhoneReleased` alone needs it). `Quiet`: the phone has sent nothing that BS1 has not read when
it follows the Handover Command; otherwise BS1 takes that frame for the failure of the handover
and goes on with a call that BS2 takes over (`CallControl.cpp:731`). `MaxNet`, `MaxRef`, `MaxWire`,
`MaxEvents` are bounds. `Relayed` are the numbers that the HLR sends to the global relay when it
does not know them: a phone's, and not those of short codes. `Quoted` are the messages with a
double quote in their text, and `Plain` those that come as text/plain (`SMS.MIMEType`), not in hex:
the INSERT of a notice that quotes the text fails for the former, and that of the message itself if it
is both. `insert_new_message()` only logs it. `Strays` are the kinds of frames that a phone may
leave on the SDCCH, and `MaxStrays` bounds them.

`DedicatedChannels` has no clock. What the lengths of its timers rule out is said by guards, each
at its action: a frame is decoded in less than any timer; `assignTCHF()` takes less than T3109 and
than L2 takes to give up. What depends on others has a name. `PromptPhone`: a phone that was given
a channel is heard within T3101, sends until it leaves, and has left before T3111, and before L2
gives up on it. `PromptSetup`: a call is confirmed within T3101 of its TCH; `tch_held` does
without. `CertainRelease`: HARDRELEASE comes "with certainty that is has been cleared of activity",
as `GSML1FEC.cpp:993` asks; neither `assignTCHF()` nor `IMSIDetachController()` makes sure of it.
`NoSharing` and `OneHolder` hold under these three; `NeverStranded` needs none of them. All three
properties are proved (section 4).

**Fairness.** LAPDm: weak fairness of receiving what has arrived, of T200, of an idle turn of the
service loop and of the layer 3 thread's own steps. These are threads of one process and a timer
that the loop looks at. Nothing is assumed of the path (`Lose` may take every frame) nor of the
layer 3 requests. T200 of an entity that is `asleep` is not fair, since the code does not look at
it. MTTransactions: weak fairness of time, of the pager's giving up, of the SIP thread, of a
search of the table by somebody, and of each controller's steps except in a running call: each of
their waits ends by a timeout (T303, T310, Timers, T200), the pager loops, and any activity
searches the table. Phones and requests promise nothing.

CallControl: weak fairness of the controller's thread and of the end of its waits by Timer F;
strong fairness of reading what the phone has sent, of a Q.931 timer, of the loss of the radio
link being noticed, and of time: the loop comes back to each of them with other turns in between,
at which they are not enabled. The remote party and the phone promise nothing. Handover: the same
for its threads and timers; strong fairness of `AbortOld`, because each turn of the loop checks the
timers before it looks at the handover, while answers of BS2 may set the state to and fro. Nothing
is assumed of datagrams. SMQueue: the thread runs, time passes, the process is started again, and
of what is asked again and again some answer comes in time, or one comes late (strong fairness,
for each message, of 200 to it or to a reply about it, of 200 to its REGISTER, and of a 200 to what
is no longer in the queue). This is what the code itself counts on: it repeats a message every
15 s, for 72 hours if need be.

**What the properties say**

- `WindowOne`: never two I-frames of the base station unacknowledged, through resets,
  retransmissions and acknowledgements that come late. This and the next hold for SAP0, towards a
  phone that follows GSM 04.06 and starts its timer in time (`sap0`, and the theorems of section 4).
- `OutstandingIsTimed`: an unacknowledged I-frame has T200 running and a loop that looks at it.
- `Layer3Knows`: layer 3's last primitive agrees with the state, through every way in and out of
  multiframe mode.
- `FreshMeansReleased`: the first frame of a new phone meets a clean link: released, with no timer, no
  half of a message, and a thread that is idle or about to return; one that is still blocked
  in the last phone's message drops the rest of it.
- `LinkService`: `LAPDm` implements `DataLinkService`.
- `SendReturns`, `ReleaseReturns`: `waitForAck()` ends.
- `OnlyTheContender`: whoever is admitted has the checksum of the handset that was heard first, or calls
  after that checksum has been heard a second time. That is when the code takes the contention for
  resolved, and echoes whoever calls, until the link is used. `NoLateHandset`: nobody is admitted
  from then on.
- `NoDanglingUse`: no thread works on a deleted entry, of a message or of a call whose INVITE came
  once. (An INVITE that is repeated after the answer sets a call that is up back to Proceeding,
  which `dead()` takes for one that nobody has answered for 30 s: it is deleted under its controller.
  So is one that a stray frame in `assignTCHF()` has set back while it runs on the TCH, `SetBack`.)
- `HasFIFO`: a live entry has its FIFO, for requests that arrived at most twice. (At the third
  arrival, a removed entry and its successor share the FIFO of their call ID, and the destructor of
  the first deletes it.)
- `AnsweredNotRejected`, `PagedOnceHasNoChannel`: pager, paging response and controllers exclude one
  another, for requests that come once. (One that is repeated while its transaction is on an SDCCH
  is paged for again, and set back to Paging.) `OneController`: two threads have the transaction of
  such a request only while one is in the loop of `assignTCHF()` and the other is that of the
  very TCH that it assigns; never two SDCCHs, two TCHs, a SACCH and another, or the two of an
  assignment before the loop or after it.
- `NoLeak`: every entry is deleted in the end.
- `OneHolder`: a TCH that a call has taken belongs to no other call and to no phone yet.
- `NoSharing`: two phones are never on one channel.
- `NeverStranded`: of every channel a timer is running or has expired. With timers that run, this
  says that every channel comes back, without needing fairness in the run.

- `NoFailedAssertion`: what the SIP engine asserts to have saved, it has, in whatever order BYE,
  CANCEL, their answers, timers and the phone's messages come.
- `PhoneReleased`: when the controller returns the phone has been told to leave its channel, or is gone.
  `RemovedIsCleared`: when it removes the transaction, the call is cleared on both sides: the phone is off
  the channel, and the SIP dialog has ended, or the remote party was busy.
- `NoPhantomCall`: a call that waits for the phone's Connect Acknowledge, or runs, has been answered: no
  rejection, early response or late 200 to something else was taken for the answer. A remote party that
  gave up before it answered (`peer = "ended"`) does not count, one that has hung up since does.
- `ClearingIsFinal`: no message sets up a call again that is being cleared. `HangupEnds`: a call
  that either side leaves ends.
- `OneOwner`, `OneEntry`: two base stations never both run the call, and however often a request is
  repeated there is one channel for it at BS2. `OwnedCall`: `Handover` implements `CallOwner`, whatever is
  read in place of Handover Complete.
- `ClearingEnds`, `InboundEnds`: a call that is cleared during a handover ends; a handover at BS2
  ends, unless the answer to its INVITE is lost, which the code waits for without a limit.
- `AcceptedIsKept`: through crashes, answers and repetitions, a message that was answered 202, or
  a reply or notice about it, has a row in the backup until somebody has been told its end. The
  exception is what `insert_new_message()` could not back up and answers 202 all the same: it is in the
  queue, and nowhere else.
- `FairCharge`: at most one debit for each submission, apart from a crash between the debit and
  the removal. `AcceptedIsTold`: each accepted message comes to an end, of which somebody is told, unless
  it is lost in one of the ways that its comment lists, the crash that meets a failed INSERT among them.

Each has a mutant in `PROJECT.json`: a plausible slip in the code that breaks it.

## 4. The proofs

`LAPDmProofs` proves, for every SAP, N200, modulus above 1, set of segments, messages, number of
sessions and requests, and both kinds of phone:

| theorem | says |
|---|---|
| `LinkInvariant` | `Spec => []LinkInv` |
| `TypeCorrect` | `Spec => []TypeOK` |
| `Layer3AlwaysKnows` | `Spec => []Layer3Knows` |
| `FreshAlwaysReleased` | `Spec => []FreshMeansReleased` |

They rest on `EntityAssumption` and `LinkAssumption` alone, which only give the constants their
types (TLC evaluates both on every run).

*The inductive invariant.* None of the three is inductive. `Layer3Knows` is lost by a step from
a state where a sender is blocked with nothing to send, or where a receiver is fresh before a
state that is not released: neither is reachable. `LinkInv` is `TypeOK` and, for each end:

1. a thread blocked in `sendMultiframeData()` has a segment to send (else `Head(todo)` has no
   meaning and the types are lost);
2. in multiframe mode the last primitive was ESTABLISH;
3. with the link released, and SAP0 up, it was not;
4. a fresh receiver belongs to SAP0 of the base station, on a link that is released, with no timer and
   empty buffers, and its thread is idle or returns without sending: a blocked sender drops the rest.

The clause on SAP0 in 3 is there because another SAP follows a released SAP0 silently.

*The argument.* `LAPDmEntityProofs` has one lemma per method of an entity, in the order in which
methods call one another: that it keeps the type of the entity; the relation `Tells` between an
entity and its value afterwards, in which 2 and 3 are re-established, whatever method it was, and
which composes; and, for the second half and for contention, what the method hands to L1 (`Says`,
`Closes`) and how it takes an acknowledgement (`Acked`). Each action of `Next` then has one step, and
a lemma puts a changed entity back into `ent`. Clause 4 needs a step only for `Reopen`, for the first
frame, which leaves `fresh`, and for actions that a fresh entity may take.

The second half of `LAPDmProofs` is about the window of the base station, on SAP0:

| theorem | says | if |
|---|---|---|
| `WindowInvariant` | `Spec => []WindowInv` | `SAPI = 0`, `"MS" \in Standard`, `PromptTimer` |
| `WindowAlwaysOne` | `Spec => []WindowOne` | the same |
| `OutstandingAlwaysTimed` | `Spec => []OutstandingIsTimed` | the same |

The conditions are those of the run `sap0` (section 3), and TLC finds each needed: a phone that
forgets to look at its timer, or starts it only after the answer, repeats its SABM later, and the
base station takes it for a new link with an I-frame of the old one unacknowledged. N200,
modulus, segments, messages, requests, sessions and `PatientT200` are arbitrary; so is the length of
the path.

*The inductive invariant.* `WindowOne` says nothing of what is in flight, and an acknowledgement
that is in flight decides what V(A) will be. `WindowInv` says how the frames on their way and the
counters of the two ends go together, in the phases of a link: an end that has had no link in this
session (`New`), a phone that calls, a link that is up at either end.

1. `PhoneInv`, `StationInv`: what the thread, the timer and the frame to be repeated go with. The base
   station, if it is up, has V(S) = V(A), or V(S) one further with T200 running, awake, and the
   I-frame V(A) to be repeated.
2. `Beginning`: before there is a link no acknowledgement and no I-frame is in flight. Without this, the
   first acknowledgement of a session may be one of the last.
3. `Uplink`: the acknowledgements on their way to the base station name V(A), then V(S), in this order.
4. `Calls`: a SABM that acknowledgements will follow finds the base station still establishing, so
   that it does not reset the counters which they are about.
5. `Downlink`: V(R) of the phone is V(A) or V(S); of the I-frames on their way to it those that it has had
   come first, then copies of the one that it expects.

*The argument.* What a step may do to the phone is one of four kinds (`PhoneStep`, `PhoneHears`), and to the
base station likewise (`StationStep`, `StationHears`): it sends nothing that counts, it starts, it takes
the frame that it expects, it stops. Each method is shown to be of one of the kinds, and each kind to keep
`WindowLink`; a frame that is lost or repeated does too. So no lemma has both the code of a method and
the whole invariant.

`LAPDmContentionProofs` proves, for any number of handsets, any identities, and whether their
checksums differ or not:

| theorem | says |
|---|---|
| `ContentionInvariant` | `Spec => []ContentionInv` |
| `TypeCorrect` | `Spec => []TypeOK` |
| `OneContender` | `Spec => []OnlyTheContender` |
| `NeverLate` | `Spec => NoLateHandset` |

`OnlyTheContender` speaks of handsets whose echo is still on its way as well as of connected
ones, and is not inductive: it does not say what the station remembers of those it has heard. `ContentionInv` does
(`AdmissionInv`): on a link that is released nobody has been heard; while contention is being resolved the
checksum that is kept, `mContentionCheck`, is that of the first handset heard; and the contention is over
only when that checksum has been heard again (`Resolved`). The frame of a handset has one of
five outcomes for the base station (`Outcome`): nothing, released, contention, the end of it, another
echo. The last is where the test of the checksum (`GSML2LAPDm.cpp:556`) is used: without it an
echo resolves the contention for a handset that is not entitled to it.

`MTTransactionsProofs` proves, for any requests, phones and channels, and any number of arrivals:

| theorem | says | if |
|---|---|---|
| `MTInvariant` | `Spec => []MTInv` | |
| `TypeCorrect` | `Spec => []TypeOK` | |
| `FIFOKept` | `Spec => []HasFIFO` | |
| `GivenToOne` | `Spec => []AnsweredNotRejected` | |
| `PagedOnceHasNone` | `Spec => []PagedOnceHasNoChannel` | |
| `RunByOne` | `Spec => []OneController` | |
| `NoneDangles` | `Spec => []NoDanglingUse` | `Prompt` |

They rest on `MTAssumption`. *The inductive invariant*, `MTInv`, is `TypeOK` and:

1. `Indices`: what the SIP thread, the pager and the queues of the SACCHs remember is in the table.
2. `Places`: what a thread may do follows from its channel; a TCH that is to be assigned belongs to one
   thread, and nobody is there yet.
3. `Messages`: an entry, and a FIFO, is of a request that arrived, and that is not just being read for the
   first time; of a request that came at most twice at most one entry is in the table, and one without a FIFO is removed.
4. `Queues`: a message waits for one SACCH, once.
5. `Kinds`: TCHs are for calls, SACCHs for messages; what the pager has given up is removed.
6. `Life`: where the transaction of a request that came once is, in turn: with the SIP thread or in a queue;
   with the pager, or given up by it; with one controller, or with an SDCCH in the loop of `assignTCHF()` and the TCH
   that it assigns, which is the channel of the entry then. The three properties on
   paging and controllers are parts of this one, and none is inductive without the others.

`Ages` adds, for `NoneDangles`, that what a thread points to is young, or a call that is up and looks
alive, unless the thread of the SDCCH has set it back: what deletes an entry is a search of the table by anybody, so it is not enough
that the threads which hold it behave. *The argument*: each action has a lemma on what it does to the table,
the threads and the queues; every conjunct has lemmas for the classes of steps that it cannot tell
apart (a thread advances, leaves, takes an entry over; the SIP thread goes on; an entry is added, changed,
deleted), and for an action only the class is shown.

`DedicatedChannelsProofs` proves, for any pools, phones and reserve, and whether phones and calls
are in time or not (the three assumptions of section 3 may all be FALSE):

| theorem | says |
|---|---|
| `ChannelInvariant` | `Spec => [](TypeOK /\ NeverStranded)` |
| `ChannelTypes` | `Spec => []TypeOK` |
| `AlwaysTimed` | `Spec => []NeverStranded` |

The conjunction is inductive. `NeverStranded` alone is not: a thread opens and closes
`thread[c].tch`, and it takes the types to know that this is a channel. The argument is one lemma
for each of opening, closing, a good frame and an expiry (each leaves a timer that is not off,
the good frame also on a channel that was closed under it), and one step for each action. It
rests on `ChannelAssumption`, of which it uses that `None` is not a channel.

Its second half goes on from there, if `InTime`, which is the three assumptions of section 3 together:

| theorem | says | if |
|---|---|---|
| `ChannelExclusion` | `Spec => []ExclusionInv` | `InTime` |
| `NobodyShares` | `Spec => []NoSharing` | `InTime` |
| `HeldByOne` | `Spec => []OneHolder` | `InTime` |

*The inductive invariant.* Neither property is inductive: what is taken next is decided by
`recyclable()`, which knows timers and not phones. `ExclusionInv` says what the timers tell of the
phones. `FreeIsEmpty`: a recyclable channel has no phone on it, or on the way to it.
`GrantedIsEmpty`: nor has one that has been granted, which is not being closed. `ClosingIsLeft`: where
T3111 runs, everybody there is about to leave. `LinkedIsTimed`: where a phone has its link only T3109 runs.
`WantedIsFresh` and `OneTaker`: a TCH to which a thread may still send its phone has T3101
running and nobody on it, and no other thread wants it. *May still* is the difficult part: `assignTCHF()` does
not know whether its phone has gone. It has, once the SDCCH is empty with T3109 running, not granted again (`Moved`), and
this lasts until the thread has returned, because an SDCCH that is assigned from is not closed meanwhile.
Each action has a lemma, with one step for each conjunct; those on a channel that is
empty, or that a thread opens, have one in common (`EmptyChannelExclusive`, `TakesTCH`). `InTime` is used by
T3101, T3109, T3111, `LinkFails`, `Move` and the two hard releases, and by no other action. `tch_held` shows
what happens to `OneHolder` without `PromptSetup`.

`CallControlProofs` proves, for any bound on the messages under way:

| theorem | says | if |
|---|---|---|
| `CallInvariant` | `Spec => []CallInv` | `NoKeys` |
| `CallTypes` | `Spec => []TypeOK` | `NoKeys` |
| `NeverFails` | `Spec => []NoFailedAssertion` | `NoKeys` |
| `NeverPhantom` | `Spec => []NoPhantomCall` | `NoKeys` |
| `RemovedAlwaysCleared` | `Spec => []RemovedIsCleared` | `NoKeys` |
| `PhoneAlwaysReleased` | `Spec => []PhoneReleased` | `NoKeys`, `Quick` |
| `ClearingStaysFinal` | `Spec => ClearingIsFinal` | `NoKeys` |

`NoKeys` is `"MT" \notin Keys`, the condition of section 3. *The inductive invariant*, `CallInv`, says
why an assertion cannot fail. `GoodTr`: the SIP state tells what was saved (MTDClearing a BYE, an
active MO call the answer to its INVITE). `GoodThread`: a wait that resends a BYE or a CANCEL has
it saved. `GoodUp`: a Release of the phone comes after a BYE, of one side or the other, since only
then was the phone sent a Disconnect. `GoodNet`: a caller sends no 200 before the call is up, so a 200 that is
read in an active MT call would have to answer a BYE or an INFO, and there is none. `EndInv` adds
to it, for how a call ends, that a thread that leaves has cleared both sides or is about to.

`AnswerInv` is for `NoPhantomCall`. The answer of the remote party is a step long past when the phone's Connect
Acknowledge is read, and it may have been followed by a BYE. So the invariant says of what is read on the way: a 200
to the INVITE is under way only if the remote party has answered (`Talked`), and where a late 200
to another request may be read, or the dialog is active, it has answered or the call is over for the controller.

`FinalInv` is for `ClearingIsFinal`. `callManagementDispatchGSM()` sets the call up at every message of
the set-up, without a look at the state, so that what saves the call is the order in which the phone sends: `Queue` says
that in its queue nothing of the set-up comes after a message that ends it, and that a phone which
may still send one has sent nothing else; `Late`, that once the GSM side is active or being cleared no message of
the set-up is under way (nor, during an assignment, when it is cleared, because the assignment dispatches whatever the state is);
`Placed`, that the controllers set the state themselves only where they have just looked at it. Each operation
of the engine has one lemma, each action of `Next` a step.

`HandoverProofs` proves, for any number of handovers and datagrams, if `Quiet`:

| theorem | says |
|---|---|
| `HandoverInvariant` | `Spec => []HandoverInv` |
| `HandoverTypes` | `Spec => []TypeOK` |
| `NeverTwoOwners` | `Spec => []OneOwner` |
| `NeverTwoEntries` | `Spec => []OneEntry` |
| `HandoverImplementsCallOwner` | `Spec => CallOwner!Spec` |

*The inductive invariant* is about where the phone is. `Parted`: while it is under way, or an entry of
BS2 has heard it, BS1 does not run the call and has nothing of it to read. `NotBack`: a phone that
BS1 may hear again has not been taken over. `Underway`: BS1 waits as long as the phone sends access bursts. `Heard`: at most one entry goes
on, that of the phone. `Told`: once the remote party sends its media to BS2, the phone does not come
back. `OneOwner` follows from `Parted`; `OneEntry` is proved beside `HandoverInv`, from it and from itself. For the
refinement, every step of `Next` is one of `CallOwner` or a stutter: `Leave` is the Handover Command, `Return`
a failed transfer, `Redirect` the re-INVITE, `Arrive` its answer. The re-INVITE after an abort is a `Redirect` too: by `Heard` and `Parted`
the phone has left BS1 then and no entry runs the call, so that the owner is on its way, and is lost by
the release of the channel that goes with it, or there is none.

`SMQueueProofs` proves, for any messages, rows, times and bounds:

| theorem | says |
|---|---|
| `SMQueueInvariant` | `Spec => []SMQueueInv` |
| `TypeCorrect` | `Spec => []TypeOK` |
| `NothingAcceptedIsLost` | `Spec => []AcceptedIsKept` |
| `NobodyPaysTwice` | `Spec => []FairCharge` |

They rest on `SMQueueAssumption`: that there are finitely many rows, at least one, and that no time is
longer than the 6000 s of `NT`, which the table of timeouts keeps. None of the three properties is
inductive: whether a row may be removed depends on which message the row, the entry and the answer that
is read are about, and these are read at different times. *The inductive invariant*, `SMQueueInv`:

1. `RowNames`: a row names one thing, in the queue, in the backup and in what is on its way; no two
   entries share one. So an answer that comes after its entry has been submitted or replayed
   again still speaks of the same message.
2. `NoNoticeOfError`: only a notice or a REGISTER gets into NO_STATE, whose deletion tells nobody.
3. `Kept`: an accepted message has a row whose entry is not about to be deleted, or an entry in the queue,
   not about to be deleted either, whose INSERT failed. `AcceptedIsKept` does not say that the entry stays, and is lost by one deletion.
4. `Paid`: the debits of a message and the names of its copies together are at most its submissions and
   the excused debits, where a copy is a row of the backup or an entry of the queue, which may have no row. So
   each debit takes a copy with it.

*The argument.* The operations on the list have a lemma each (`set_state()`, the front, the tail, removal
and change in place), which say what becomes of the set of entries and that no row gets two places. With them a
step is of one of six kinds: entries go on (`ChangedLemma`), one goes with its row (`GoneLemma`),
one goes on and originates another (`OriginatedLemma`), a message comes (`SubmittedLemma`), the process
dies (`DiesLemma`) or starts (`RestartStep`). Each action has a step of its own that shows which.

**Only model-checked**: the refinement `LinkService`, which needs, beyond `WindowInv`, the same for the
frames of the phone and which segment of which message each frame in flight carries (section 7,
item 3). It cannot hold for every modulus: with `SeqMod` 2 and five messages of the phone TLC finds the base station
repeating its I-frame with the N(R) it first had, and the phone, whose V(S) has wrapped since, taking
that for the acknowledgement of a segment that was lost. From modulus 3 on the phone's next frames are
out of sequence after such an N(R), and the link ends before anything wrong is delivered (checked with
N200 2 to the end). The code's modulus is 8. Only model-checked is also all
liveness (`SendReturns`, `ReleaseReturns`, `NoLeak`, `HangupEnds`, `ClearingEnds`, `InboundEnds`,
`AcceptedIsTold`), which is out of the prover's reach. Every other property of a passing run is a theorem.

## 5. Disagreements between the code and what is said of it

Each is a run that TLC must find violated; `PROJECT.json` quotes the lines.

| run | what happens |
|---|---|
| `ringing` | A phone may ring for T301 = 60 s, but `dead()` gives a transaction in SIP state Proceeding 30 s. |
| `tch_held` | T3101 of a call's TCH (4 s) runs while the phone is still to confirm the call (T303, 10 s): the TCH is given to another call. |

Others that were met while modelling are described as hazards, at their lines, without a run:
an answer to an INFO that is taken for one to an INVITE (`Keys`, section 3); a lost SABM of SAP3 that is not
repeated while the service loop is in an hour-long read; the BYE that BS1 does not send when
T3103 expires, although it says that it clears the call; the message of a phone that has just registered, which
waits 6000 s although it is to be rerun "now"; the head of smqueue's list, which is not the
earliest after a 6xx; the FIFO of a request that arrives a third time, which goes with the first entry's
destructor, and the answered call whose INVITE is repeated, which `dead()` takes for unanswered (section 3:
the conditions of `HasFIFO` and `NoDanglingUse`); the stray frame in `assignTCHF()`, whose loop is there
for phones that repeat their Call Confirmed (`CallControl.cpp:243`), that is dispatched to a call which runs on the
TCH by then, and takes it back or clears it (`SetBack`); the re-INVITE that BS2 sends for a handover it has
aborted, when another message comes in place of Handover Complete; the 202 for a message whose INSERT
failed.

## 6. What is not modelled

`PROJECT.json` lists each component with the reason. In short: codecs and signal processing (pure
functions of one message or burst), CLI, configuration and databases (sequential, I/O), GPRS
(a subsystem as large as the rest, left to the end of the plan), and what section 7 names.

The map covers a small share of the repository's lines, because most of them are not this
program's own logic, or are copies of it: SQLite, which `src/sqlite3`, the feature branches
(`src/openbts/features`) and the tags (`src/*/tags`) each contain, is more than half of everything;
the branches and tags are older or patched copies of `src/openbts/trunk` and `src/smqueue/trunk`;
of what remains most are tables of codes and messages, generated ASN.1 (`src/RRLP`), signal
processing and GPRS.

Within the modelled components:

- LAPDm: UNIT_DATA and handover access bursts pass through without changing the state; frames
  that do not decode are lost frames. The SACCH's and FACCH's overrides of `sendIdle()` do nothing
  where the SDCCH's puts an idle frame in the queue; the model sends it. T3109 and T3111 appear
  only as the condition of `Reopen`; `DedicatedChannels` has them.
- `LAPDmContention`: that an established link echoes the SABM of any handset until the first I- or
  S-frame is in the model, and `OnlyTheContender` says from when on; no property speaks against it.
- `DedicatedChannels`: very early assignment (a TCH straight from the access burst), channels lent
  to GPRS, handover, the T3122 hold-off, the decoder of the SACCH; `Open` is one step, though L1
  is open before L2 is; of two phones whose SABMs meet, the second is not answered (contention is
  the subject of `LAPDmContention`).
- `MTTransactions`: of the frames that `callManagementDispatchGSM()` handles in `assignTCHF()`, Status changes nothing for
  a call that is being set up, and Release answers a Disconnect, which nobody sends on the SDCCH; one RP/CP exchange of a delivery is one wait with three outcomes; in a running
  call only messages and its end occur; undefined behaviour of two threads inside `std::map` at
  once (hazard at `TransactionTable.cpp:1380`) is outside the model.
- `CallControl`: a call that the phone starts begins where its INVITE has been sent (`MOCStarter()`
  before that is one exchange at a time); very early assignment, speech and RTP with the search for
  free ports, messages within a call, handover.
- `Handover`: the choice of a neighbour and its hold-off, the parameters of SIP and RTP that the
  request carries, a second call on the channel of a reservation that has expired; one call.
  After `T3103` the remote party is left in the call, as the code leaves it.
- `SMQueue`: malformed messages, the packing of TPDUs (taken to succeed), other short codes (zap
  among them, which deletes entries and not their rows), the e-mail and HTTP gateways, the save and
  load of the queue as a file. `SCA_AWAIT_REGISTER` and `SCA_RETRY_AFTER_DELAY` are answers that
  `addUser()` never causes. A balance may be too low whenever it is looked at.

## 7. Plan

Done, in the order of importance: the data link that everything rests on, with its abstract
specification, contention and proofs; the transaction table with paging, calls and messages to a
phone; dedicated channels, with their proofs; calls from either side and their clearing, with
proofs; handover, with its abstract specification and the proof that it implements it; the
message store, with proofs; proofs of contention, of the window of the data link and of the
transaction table. What would follow:

1. `DedicatedChannels` onwards: very early assignment and the T3122 hold-off; composition with `LAPDm`,
   so that `Reopen` happens when `recyclable()` says so and not when the link is idle.
2. `MTTransactions` with two phones and a reduced call, for the stale entry that
   `find(chan)` may return.
3. The step-by-step refinement of `DataLinkService` proved, for SAP0, a standard phone, `PromptTimer`
   and `SeqMod` above 2. The invariant to strengthen `WindowInv` with, for each direction, v being the
   receiver's V(R): the I-frames on the air have N(S) v-1, v or v+1, in that order, those with one
   N(S) are alike, and taking those with v, then those with v+1, continues the receiver's run
   (this must survive the death of the sender's link); while the sender's link is up its V(S) is v, v+1
   or, for the phone alone, v+2, and what it has sent of its messages is what the receiver has
   plus the one or two segments in between; of the N(R) on the way to the phone, in the order in which they arrive,
   none can make it send when V(S) is v+2. Then two SAPs on one channel (`LAPDm` twice, SAP0 as
   master).
4. `InterthreadQueue` (wait and signal), then the RLC window of GPRS.
