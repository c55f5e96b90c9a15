--------------------------- MODULE MTTransactions ---------------------------
(***************************************************************************)
(* Mobile-terminated transactions of the control layer: the SIP thread     *)
(* that accepts INVITEs and MESSAGEs (SIP/SIPInterface.cpp), the pager     *)
(* (Control/RadioResource.cpp), the transaction table that all threads     *)
(* share (Control/TransactionTable.cpp), and the controllers that run a    *)
(* call or a short message on the thread of a channel                      *)
(* (Control/CallControl.cpp, Control/SMSControl.cpp), with the phones.     *)
(*                                                                         *)
(* Threads keep bare pointers to the entries of the table, which any       *)
(* search of it deletes once they look dead.  Each lock the code takes is  *)
(* an action.  Calls use early assignment (Control.VEA off).               *)
(***************************************************************************)
EXTENDS Naturals, Sequences, FiniteSets

CONSTANTS
  Mobile,       \* the phones, by IMSI
  Request,      \* what the SIP side asks for, by call ID
  SMS,          \* the requests that are MESSAGEs; the others are INVITEs
  Subscriber,   \* Subscriber[r]: the phone the request is for
  SDCCH, TCH,   \* channels, each with a thread
  None,         \* no channel
  MaxSent,      \* bound: MaxSent[r], how often the request arrives
  Strays,       \* messages that a phone may leave unread on the SDCCH when it changes over
  MaxStrays,    \* bound: how many of them
  Prompt        \* no entry ages past 30 s while a thread sets up a call or delivers a message

\* The SACCH of a TCH, on which a phone in a call gets its messages.
SACCH(t) == <<"SACCH", t>>

ASSUME MTAssumption ==
  /\ Request # {} /\ SMS \subseteq Request
  /\ Subscriber \in [Request -> Mobile]
  /\ SDCCH \cap TCH = {}
  /\ None \notin SDCCH \cup TCH
  /\ {SACCH(t) : t \in TCH} \cap (SDCCH \cup TCH \cup {None}) = {}
  /\ MaxSent \in [Request -> Nat]
  /\ Strays \subseteq {"CallConfirmed", "Alerting", "Connect", "ReleaseComplete", "Disconnect",
                     "IMSIDetach", "Other"}
  /\ MaxStrays \in Nat
  /\ Prompt \in BOOLEAN

Channel == SDCCH \cup TCH \cup {SACCH(t) : t \in TCH}

VARIABLES
  table,    \* TransactionTable::mTable; the position of an entry is its ID
  sipMap,   \* SIPInterface::mSIPMap: the call IDs that have a FIFO
  sip,      \* the SIP thread, in checkInvite()
  pages,    \* Pager::mPageIDs: pages[m] is the ID its paging entry holds, or 0
  thread,   \* the threads of the channels
  queue,    \* mTransactionFIFO of each SACCH
  phone,    \* where each phone is
  heard,    \* phones that heard a page they have not answered
  count     \* count[r]: how often request r has arrived

vars == <<table, sipMap, sip, pages, thread, queue, phone, heard, count>>

GSMState == {"Null", "Paging", "AnsweredPaging", "CallPresent", "MTCConfirmed",
             "CallReceived", "Active", "ReleaseRequest", "SMSDelivering"}
SIPState == {"Null", "Proceeding", "Connecting", "Active", "MODCanceling", "Canceled", "Cleared"}

\* age: time since GSMState() was last set, below 30 s (0), 180 s (1) or above (2).
Entry == [request : Request, gsm : GSMState, sip : SIPState, age : 0..2,
          removed : BOOLEAN,                   \* mRemoved
          erased : BOOLEAN,                    \* deleted: out of the table, its memory freed
          chan : Channel \cup {None}]

ID == DOMAIN table

SIPIdle == [pc |-> "idle", request |-> CHOOSE r \in Request : TRUE, id |-> 0, chan |-> None]
ThreadIdle ==
  [pc |-> "idle", mobile |-> CHOOSE m \in Mobile : TRUE, id |-> 0, tch |-> None, strays |-> 0]

\* The type invariant; a thread past the search for its entry has one.
TypeOK ==
  /\ table \in Seq(Entry)
  /\ sipMap \subseteq Request
  /\ sip \in [pc : {"idle", "invite", "trying", "page", "list", "thrown"},
              request : Request, id : Nat, chan : Channel \cup {None}]
  /\ pages \in [Mobile -> Nat]
  /\ thread \in [Channel -> [pc : {"idle", "response", "answer", "attach", "begin", "deliver",
                                   "confirm", "assign", "assigning", "again", "complete", "alerting",
                                   "connecting", "call"},
                             mobile : Mobile, id : Nat, tch : TCH \cup {None}, strays : Nat]]
  /\ \A c \in Channel : thread[c].id \in
       IF thread[c].pc \in {"idle", "response", "answer", "complete"} THEN {0} ELSE ID
  /\ queue \in [TCH -> Seq(Nat)]
  /\ phone \in [Mobile -> SDCCH \cup TCH \cup {None}]
  /\ heard \subseteq Mobile
  /\ count \in [Request -> Nat]

Init ==
  /\ table = <<>>
  /\ sipMap = {}
  /\ sip = SIPIdle
  /\ pages = [m \in Mobile |-> 0]
  /\ thread = [c \in Channel |-> ThreadIdle]
  /\ queue = [t \in TCH |-> <<>>]
  /\ phone = [m \in Mobile |-> None]
  /\ heard = {}
  /\ count = [r \in Request |-> 0]

----------------------------------------------------------------------------
(* The transaction table *)

\* Mutant: an active call is not spared.
deadOnceOld(e) ==
  \/ e.age >= 1 /\ e.sip \in {"Null", "Proceeding", "Canceled", "Cleared"}
  \/ e.age = 2

\* Mutant: no 180-second tests.
deadYoung(e) == e.age >= 1 /\ e.sip \in {"Null", "Proceeding", "Canceled", "Cleared"}

dead(e) ==
  \/ e.age >= 1 /\ e.sip \in {"Null", "Proceeding", "Canceled", "Cleared"}
  \/ e.age = 2 /\ (e.removed \/ e.gsm # "Active" \/ e.sip # "Active")

deadOrRemoved(e) == e.removed \/ dead(e)

Live(tab) == {i \in DOMAIN tab : ~tab[i].erased /\ ~deadOrRemoved(tab[i])}

\* The first thing nearly every search of the table does.
clearDeadEntries ==
  [i \in ID |-> [table[i] EXCEPT !.erased = @ \/ dead(table[i])]]

\* The destructor of an entry deletes the SIP FIFO of its call ID.
FIFOsKept ==
  sipMap \ {table[i].request : i \in {j \in ID : dead(table[j]) /\ ~table[j].erased}}

Scan ==
  /\ table' = clearDeadEntries
  /\ sipMap' = FIFOsKept

First(S) == IF S = {} THEN 0 ELSE CHOOSE i \in S : \A j \in S : i <= j
Last(S)  == IF S = {} THEN 0 ELSE CHOOSE i \in S : \A j \in S : i >= j

MobileOf(i) == Subscriber[table[i].request]

\* Mutant: a transaction that has a channel is passed over.
findByCallIDUnassigned(r) ==
  First({i \in Live(table) : table[i].request = r /\ table[i].chan = None})

findByCallID(r) == First({i \in Live(table) : table[i].request = r})

\* The channel of the first transaction of m that has one, a TCH or an SDCCH.
findChannel(m) ==
  LET i == First({j \in Live(table) : MobileOf(j) = m /\ table[j].chan \in SDCCH \cup TCH})
  IN  IF i = 0 THEN None ELSE table[i].chan

isBusy(m) ==
  \E i \in Live(table) : /\ MobileOf(i) = m
                         /\ table[i].request \notin SMS
                         /\ table[i].gsm # "Null"

findByChannel(c) == Last({i \in Live(table) : table[i].chan = c})

pagingOf(m) == First({i \in Live(table) : MobileOf(i) = m /\ table[i].gsm = "Paging"})

setGSM(e, state) == [e EXCEPT !.gsm = state, !.age = 0]

remove(e) == [e EXCEPT !.removed = TRUE, !.age = 0]

\* Any other work of the control layer searches the table too.
OtherScan ==
  /\ \E i \in ID : dead(table[i]) /\ ~table[i].erased
  /\ Scan
  /\ UNCHANGED <<sip, pages, thread, queue, phone, heard, count>>

\* The pointers a thread keeps while it works.
ThreadHolds(c, i) == thread[c].id = i
Held(i) == sip.id = i \/ \E c \in Channel : ThreadHolds(c, i)

\* The TCH is in use, and its SACCH served.
Open(t) ==
  \/ thread[t].pc # "idle"
  \/ \E c \in Channel : thread[c].tch = t
  \/ \E m \in Mobile : phone[m] = t

\* A message that waits for a SACCH that is served.
Queued(i) == \E t \in TCH : Open(t) /\ \E n \in DOMAIN queue[t] : queue[t][n] = i

\* Time passes for entry i.
Tick(i) ==
  /\ table[i].age < 2
  /\ ~table[i].erased
  /\ Prompt => /\ sip.id # i
               /\ \A c \in Channel : ThreadHolds(c, i) => thread[c].pc = "call"
               /\ ~Queued(i)
  /\ table' = [table EXCEPT ![i].age = @ + 1]
  /\ UNCHANGED <<sipMap, sip, pages, thread, queue, phone, heard, count>>

----------------------------------------------------------------------------
(* The SIP thread: checkInvite() *)

\* An INVITE or MESSAGE arrives, and findChannel() is called.
Invite(r) ==
  /\ sip.pc = "idle"
  /\ count[r] < MaxSent[r]
  /\ Scan
  /\ sip' = [SIPIdle EXCEPT !.pc = "invite", !.request = r,
               !.chan = LET c == findChannel(Subscriber[r])
                        IN  IF r \in SMS /\ c \in TCH THEN SACCH(c) ELSE None]
  /\ count' = [count EXCEPT ![r] = @ + 1]
  /\ UNCHANGED <<pages, thread, queue, phone, heard>>

Repeated ==
  /\ sip.pc = "invite"
  /\ sip.request \in sipMap
  /\ LET i == findByCallID(sip.request)
     IN  /\ sip' = IF i = 0 THEN SIPIdle ELSE [sip EXCEPT !.pc = "trying", !.id = i]
         /\ table' = clearDeadEntries
         /\ sipMap' = IF i = 0 THEN FIFOsKept \ {sip.request} ELSE FIFOsKept
  /\ UNCHANGED <<pages, thread, queue, phone, heard, count>>

\* No thread but those of the channels catches RemovedTransaction.
Thrown == [SIPIdle EXCEPT !.pc = "thrown"]

SendTrying ==
  /\ sip.pc = "trying"
  /\ IF table[sip.id].removed THEN sip' = Thrown /\ UNCHANGED table
     ELSE /\ sip' = IF sip.chan = None THEN [sip EXCEPT !.pc = "page"] ELSE SIPIdle
          /\ table' = [table EXCEPT ![sip.id].sip = "Proceeding"]
  /\ UNCHANGED <<sipMap, pages, thread, queue, phone, heard, count>>

\* No channel for a new transaction, or the phone is busy with a call.
Refuse ==
  /\ sip.pc = "invite"
  /\ sip.request \notin sipMap
  /\ sip.chan = None
  /\ sip' = SIPIdle
  /\ \/ UNCHANGED <<table, sipMap>>
     \/ isBusy(Subscriber[sip.request]) /\ Scan
  /\ UNCHANGED <<pages, thread, queue, phone, heard, count>>

NewTransaction ==
  LET r == sip.request
      id == Len(table) + 1
      new == [request |-> r, gsm |-> "Null", sip |-> IF r \in SMS THEN "Null" ELSE "Proceeding",
              age |-> 0, removed |-> FALSE, erased |-> FALSE, chan |-> sip.chan] IN
  /\ sip.pc = "invite"
  /\ r \notin sipMap
  /\ \/ /\ sip.chan = None
        /\ ~isBusy(Subscriber[r])
        /\ table' = Append(clearDeadEntries, new)
        /\ sipMap' = FIFOsKept \cup {r}
        /\ sip' = [sip EXCEPT !.pc = "page", !.id = id]
        /\ UNCHANGED queue
     \/ /\ sip.chan # None
        /\ table' = Append(table, new)
        /\ sipMap' = sipMap \cup {r}
        /\ sip' = SIPIdle
        /\ queue' = [queue EXCEPT ![sip.chan[2]] = Append(@, id)]
  /\ UNCHANGED <<pages, thread, phone, heard, count>>

\* Pager::addID() sets the state of the transaction, then locks its list.
SetPaging ==
  /\ sip.pc = "page"
  /\ IF table[sip.id].removed THEN sip' = Thrown /\ UNCHANGED table
     ELSE /\ sip' = [sip EXCEPT !.pc = "list"]
          /\ table' = [table EXCEPT ![sip.id] = setGSM(@, "Paging")]
  /\ UNCHANGED <<sipMap, pages, thread, queue, phone, heard, count>>

\* A phone that is in the list stays there, for the transaction that put it there.
\* The timer T3113 of a transaction that has been removed since is not set.
ListPage ==
  /\ sip.pc = "list"
  /\ \/ /\ pages' = [pages EXCEPT ![Subscriber[sip.request]] = IF @ = 0 THEN sip.id ELSE @]
        /\ sip' = SIPIdle
     \/ table[sip.id].removed /\ sip' = Thrown /\ UNCHANGED pages
  /\ UNCHANGED <<table, sipMap, thread, queue, phone, heard, count>>

----------------------------------------------------------------------------
(* The pager: an iteration of either loop of pageAll() *)

SendPage(m) ==
  /\ pages[m] # 0
  /\ heard' = heard \cup {m}
  /\ UNCHANGED <<table, sipMap, sip, pages, thread, queue, phone, count>>

\* Mutant: the transaction need not be in the Paging state.
removePagingAnyState(e) ==
  IF e.erased \/ e.removed THEN e ELSE remove([e EXCEPT !.sip = "MODCanceling"])

removePaging(e) ==
  IF e.erased \/ e.removed \/ e.gsm # "Paging" THEN e
  ELSE remove([e EXCEPT !.sip = "MODCanceling"])

\* The entry has expired, or its transaction is gone or looks dead.
DropPage(m) ==
  /\ pages[m] # 0
  /\ pages' = [pages EXCEPT ![m] = 0]
  /\ table' = [table EXCEPT ![pages[m]] = removePaging(@)]
  /\ UNCHANGED <<sipMap, sip, thread, queue, phone, heard, count>>

----------------------------------------------------------------------------
(* The phones *)

Answer(m, c) ==
  /\ m \in heard
  /\ phone[m] = None
  /\ thread[c].pc = "idle"
  /\ \A n \in Mobile : phone[n] # c
  /\ heard' = heard \ {m}
  /\ phone' = [phone EXCEPT ![m] = c]
  /\ thread' = [thread EXCEPT ![c] = [ThreadIdle EXCEPT !.pc = "response", !.mobile = m]]
  /\ UNCHANGED <<table, sipMap, sip, pages, queue, count>>

\* The phone leaves its channel; the thread of the channel learns of it later.
LeaveChannel(m) ==
  /\ phone[m] # None
  /\ phone' = [phone EXCEPT ![m] = None]
  /\ UNCHANGED <<table, sipMap, sip, pages, thread, queue, heard, count>>

----------------------------------------------------------------------------
(* The threads of the channels *)

Go(c, pc) == thread' = [thread EXCEPT ![c].pc = pc]

\* The phone of a channel that is released goes back to the CCCH.
Hung(c) == [m \in Mobile |-> IF phone[m] = c THEN None ELSE phone[m]]

\* The thread of c goes back to wait for an ESTABLISH.
Quit(c) ==
  /\ thread' = [thread EXCEPT ![c] = ThreadIdle]
  /\ phone' = Hung(c)

Mine(c) == table[thread[c].id]
Put(c, e) == table' = [table EXCEPT ![thread[c].id] = e]

\* RemovedTransaction leaves the controller: DCCHDispatcher() waits for the next ESTABLISH,
\* with no release; the loop of a SACCH removes the entry once more.
Throw(c) ==
  /\ thread' = [thread EXCEPT ![c] = ThreadIdle]
  /\ IF c \in SDCCH \cup TCH THEN UNCHANGED table ELSE Put(c, remove(Mine(c)))

\* A step of c on its entry.  Memory that was freed is read as it was left.
Step(c, e, pc) ==
  /\ IF Mine(c).removed THEN Throw(c) ELSE Go(c, pc) /\ Put(c, e)
  /\ UNCHANGED <<sipMap, sip, pages, phone, heard, count>>

\* PagingResponseHandler().
RemovePage(c) ==
  /\ thread[c].pc = "response"
  /\ pages' = [pages EXCEPT ![thread[c].mobile] = 0]
  /\ Go(c, "answer")
  /\ UNCHANGED <<table, sipMap, sip, queue, phone, heard, count>>

\* Mutant: the transaction stays in the Paging state.
answeredPagingKept(c) ==
  LET i == pagingOf(thread[c].mobile) IN
  /\ thread[c].pc = "answer"
  /\ sipMap' = FIFOsKept
  /\ table' = clearDeadEntries
  /\ IF i = 0 THEN Quit(c)
     ELSE /\ thread' = [thread EXCEPT ![c].pc = "attach", ![c].id = i]
          /\ UNCHANGED phone
  /\ UNCHANGED <<sip, pages, queue, heard, count>>

answeredPaging(c) ==
  LET i == pagingOf(thread[c].mobile) IN
  /\ thread[c].pc = "answer"
  /\ sipMap' = FIFOsKept
  /\ IF i = 0 THEN Quit(c) /\ table' = clearDeadEntries
     ELSE /\ thread' = [thread EXCEPT ![c].pc = "attach", ![c].id = i]
          /\ table' = [clearDeadEntries EXCEPT ![i] = setGSM(@, "AnsweredPaging")]
          /\ UNCHANGED phone
  /\ UNCHANGED <<sip, pages, queue, heard, count>>

Attach(c) ==
  /\ thread[c].pc = "attach"
  /\ Step(c, [Mine(c) EXCEPT !.chan = c], "begin")
  /\ UNCHANGED queue

IsSMS(c) == Mine(c).request \in SMS

\* MTSMSController(), on an SDCCH or on the SACCH of a call.
BeginSMS(c) ==
  /\ thread[c].pc = "begin"
  /\ IsSMS(c)
  /\ Step(c, setGSM([Mine(c) EXCEPT !.chan = c], "SMSDelivering"), "deliver")
  /\ UNCHANGED queue

\* The phone at the other end of c.
Reached(c, m) == phone[m] = IF c \in SDCCH THEN c ELSE c[2]

\* deliverSMSToMS() returns; the SIP side hears of a success alone.  With the transaction
\* removed, a success is thrown away, which the thread of an SDCCH leaves at that.
EndSMS(c) ==
  /\ thread[c].pc = "deliver"
  /\ \/ /\ ~Mine(c).removed
        /\ \E m \in Mobile : Reached(c, m)
        /\ Put(c, remove([Mine(c) EXCEPT !.sip = "Cleared"]))
     \/ Put(c, remove(Mine(c)))
     \/ Mine(c).removed /\ c \in SDCCH /\ UNCHANGED table
  /\ Quit(c)
  /\ UNCHANGED <<sipMap, sip, pages, queue, heard, count>>

\* Nothing comes from the phone, or nothing of use: an exception without a transaction ID.
SMSThrows(c) ==
  /\ thread[c].pc = "deliver"
  /\ Quit(c)
  /\ UNCHANGED <<table, sipMap, sip, pages, queue, heard, count>>

\* The SACCH of a call takes a message from the SIP side.
InCallSMS(t) ==
  LET c == SACCH(t) IN
  /\ thread[c].pc = "idle"
  /\ Open(t)
  /\ queue[t] # <<>>
  /\ queue' = [queue EXCEPT ![t] = Tail(@)]
  /\ thread' = [thread EXCEPT ![c] = [@ EXCEPT !.pc = "begin", !.id = Head(queue[t])]]
  /\ UNCHANGED <<table, sipMap, sip, pages, phone, heard, count>>

FreeTCH == {t \in TCH : ~Open(t)}

\* MTCStarter(): no TCH, or Setup is sent; open() empties the FIFO of the SACCH.
Congested(c) ==
  /\ thread[c].pc = "begin"
  /\ ~IsSMS(c)
  /\ Quit(c)
  /\ UNCHANGED <<table, sipMap, sip, pages, queue, heard, count>>

SendSetup(c) ==
  /\ thread[c].pc = "begin"
  /\ ~IsSMS(c)
  /\ \E t \in FreeTCH :
       /\ queue' = [queue EXCEPT ![t] = <<>>]
       /\ IF Mine(c).removed THEN Throw(c)
          ELSE /\ thread' = [thread EXCEPT ![c].pc = "confirm", ![c].tch = t]
               /\ Put(c, setGSM(Mine(c), "CallPresent"))
  /\ UNCHANGED <<sipMap, sip, pages, phone, heard, count>>

\* Each turn of the loop repeats the 100 Trying.
CallConfirmed(c) ==
  /\ thread[c].pc = "confirm"
  /\ \E m \in Mobile : phone[m] = c
  /\ Step(c, setGSM([Mine(c) EXCEPT !.sip = "Proceeding"], "MTCConfirmed"), "assign")
  /\ UNCHANGED queue

\* A BYE for a call that is active, 480 for another, unless it is finished.
forceSIPClearing(e) ==
  IF dead(e) \/ e.sip \in {"Canceled", "Cleared"} THEN e
  ELSE [e EXCEPT !.sip = IF @ = "Active" THEN "Cleared" ELSE "Canceled"]

\* abortCall() and abortAndRemoveCall().
aborted(e) == setGSM(forceSIPClearing(e), "Null")
abortedAndRemoved(e) == IF deadOrRemoved(e) THEN e ELSE remove(aborted(e))

\* T303 expires (the call is aborted, the transaction stays), or L2 fails.
NotConfirmed(c) ==
  /\ thread[c].pc = "confirm"
  /\ \/ UNCHANGED table
     \/ ~Mine(c).removed /\ Put(c, aborted(Mine(c)))
  /\ Quit(c)
  /\ UNCHANGED <<sipMap, sip, pages, queue, heard, count>>

\* The SIP side cancels, or, on a TCH, T301 expires or L2 fails.
Abandon(c) ==
  /\ thread[c].pc \in {"confirm", "alerting", "connecting"}
  /\ Put(c, abortedAndRemoved(Mine(c)))
  /\ Quit(c)
  /\ UNCHANGED <<sipMap, sip, pages, queue, heard, count>>

\* assignTCHF() opens the TCH once more.
Assign(c) ==
  /\ thread[c].pc = "assign"
  /\ queue' = [queue EXCEPT ![thread[c].tch] = <<>>]
  /\ Step(c, [Mine(c) EXCEPT !.chan = thread[c].tch], "assigning")

Strayed(c) == thread' = [thread EXCEPT ![c].pc = "again", ![c].strays = @ + 1]

\* What callManagementDispatchGSM() makes of e for a message of the call.
dispatched(e, m) ==
  CASE m = "CallConfirmed"   -> setGSM(e, "MTCConfirmed")
    [] m = "Alerting"        -> setGSM(e, "CallReceived")
    [] m = "Connect"         -> setGSM(e, "Active")
    [] m = "ReleaseComplete" -> setGSM(e, "Null")
    [] m = "Disconnect"      ->
         setGSM([e EXCEPT !.sip = IF @ = "Active" THEN "Cleared" ELSE "Canceled"], "ReleaseRequest")

\* A frame that was left on the SDCCH is dispatched, though the thread of the TCH may run the call
\* by now; one that cannot be parsed, or is of no use, changes nothing.
StrayFrame(c) ==
  /\ thread[c].pc = "assigning"
  /\ thread[c].strays < MaxStrays
  /\ \E m \in Strays :
       \/ m = "Other" /\ Strayed(c) /\ UNCHANGED <<table, phone>>
       \/ /\ m = "IMSIDetach"
          /\ Strayed(c)
          /\ IF Mine(c).removed THEN UNCHANGED table ELSE Put(c, forceSIPClearing(Mine(c)))
          /\ phone' = Hung(c)
       \/ /\ m \notin {"Other", "IMSIDetach"}
          /\ IF Mine(c).removed THEN Throw(c) ELSE Strayed(c) /\ Put(c, dispatched(Mine(c), m))
          /\ UNCHANGED phone
  /\ UNCHANGED <<sipMap, sip, pages, queue, heard, count>>

\* The loop goes on: the channel is set and the Assignment Command sent again.
AssignAgain(c) ==
  /\ thread[c].pc = "again"
  /\ Step(c, [Mine(c) EXCEPT !.chan = thread[c].tch], "assigning")
  /\ UNCHANGED queue

\* The loop has gone on for T3101: both channels are released, and the SIP side is cleared.
AssignmentFails(c) ==
  /\ thread[c].pc = "again"
  /\ IF Mine(c).removed THEN UNCHANGED table
     ELSE Put(c, forceSIPClearing([Mine(c) EXCEPT !.chan = None]))
  /\ thread' = [thread EXCEPT ![c] = ThreadIdle]
  /\ phone' = [m \in Mobile |-> IF phone[m] \in {c, thread[c].tch} THEN None ELSE phone[m]]
  /\ UNCHANGED <<sipMap, sip, pages, queue, heard, count>>

\* Nothing comes on the SDCCH for T3107: taken for success.
HandOff(c) ==
  /\ thread[c].pc = "assigning"
  /\ Quit(c)
  /\ UNCHANGED <<table, sipMap, sip, pages, queue, heard, count>>

\* The phone changes over, and the thread of the TCH gets Assignment Complete.
Move(c) ==
  /\ thread[c].pc \in {"assigning", "again"}
  /\ \E m \in Mobile :
       /\ phone[m] = c
       /\ phone' = [phone EXCEPT ![m] = thread[c].tch]
       /\ thread' = [thread EXCEPT ![thread[c].tch] =
                       [ThreadIdle EXCEPT !.pc = "complete", !.mobile = m]]
  /\ UNCHANGED <<table, sipMap, sip, pages, queue, heard, count>>

\* Mutant: a NULL transaction is not looked for.
AssignmentCompleteUnchecked(t) ==
  /\ thread[t].pc = "complete"
  /\ Scan
  /\ thread' = [thread EXCEPT ![t].pc = "alerting", ![t].id = findByChannel(t)]
  /\ UNCHANGED <<sip, pages, queue, phone, heard, count>>

\* AssignmentCompleteHandler().
AssignmentComplete(t) ==
  LET i == findByChannel(t) IN
  /\ thread[t].pc = "complete"
  /\ Scan
  /\ IF i = 0 THEN Quit(t)
     ELSE thread' = [thread EXCEPT ![t].pc = "alerting", ![t].id = i] /\ UNCHANGED phone
  /\ UNCHANGED <<sip, pages, queue, heard, count>>

\* MTCController(): Alerting, then Connect and the 200 OK, then the ACK.  A message that the
\* thread of the SDCCH has dispatched counts too.
Alerting(t) ==
  /\ thread[t].pc = "alerting"
  /\ \/ /\ \E m \in Mobile : phone[m] = t
        /\ Mine(t).gsm # "CallReceived"
        /\ Step(t, setGSM([Mine(t) EXCEPT !.sip = "Proceeding"], "CallReceived"), "alerting")
     \/ /\ Mine(t).gsm = "CallReceived"
        /\ Mine(t).sip # "Proceeding"
        /\ Step(t, [Mine(t) EXCEPT !.sip = "Proceeding"], "alerting")
  /\ UNCHANGED queue

Connect(t) ==
  /\ thread[t].pc = "alerting"
  /\ \/ /\ \E m \in Mobile : phone[m] = t
        /\ Step(t, setGSM([Mine(t) EXCEPT !.sip = "Connecting"], "Active"), "connecting")
     \/ /\ Mine(t).gsm = "Active"
        /\ Step(t, [Mine(t) EXCEPT !.sip = "Connecting"], "connecting")
  /\ UNCHANGED queue

ReceiveACK(t) ==
  /\ thread[t].pc = "connecting"
  /\ Step(t, [Mine(t) EXCEPT !.sip = "Active"], "call")
  /\ UNCHANGED queue

\* callManagementLoop() ends: the call is cleared, or its entry is found defunct.
EndCall(t) ==
  /\ thread[t].pc = "call"
  /\ IF deadOrRemoved(Mine(t)) THEN UNCHANGED table
     ELSE Put(t, remove(setGSM([Mine(t) EXCEPT !.sip = "Cleared"], "Null")))
  /\ Quit(t)
  /\ UNCHANGED <<sipMap, sip, pages, queue, heard, count>>

----------------------------------------------------------------------------

SIPThread == Repeated \/ SendTrying \/ Refuse \/ NewTransaction \/ SetPaging \/ ListPage

DCCHThread(c) ==
  \/ RemovePage(c)
  \/ answeredPaging(c)
  \/ Attach(c)
  \/ Congested(c)
  \/ SendSetup(c)
  \/ CallConfirmed(c)
  \/ NotConfirmed(c)
  \/ Assign(c)
  \/ StrayFrame(c)
  \/ AssignAgain(c)
  \/ AssignmentFails(c)
  \/ HandOff(c)
  \/ Move(c)

TCHThread(t) ==
  \/ AssignmentComplete(t)
  \/ Alerting(t)
  \/ Connect(t)
  \/ ReceiveACK(t)
  \/ EndCall(t)

AnyThread(c) == BeginSMS(c) \/ EndSMS(c) \/ SMSThrows(c) \/ Abandon(c)

ThreadStep(c) ==
  \/ c \in SDCCH /\ DCCHThread(c)
  \/ c \in TCH /\ TCHThread(c)
  \/ \E t \in TCH : c = SACCH(t) /\ InCallSMS(t)
  \/ AnyThread(c)

\* An exception that the SIP thread does not catch ends the process.
Running == sip.pc # "thrown"

Next ==
  /\ Running
  /\ \/ OtherScan
     \/ \E i \in ID : Tick(i)
     \/ \E r \in Request : Invite(r)
     \/ SIPThread
     \/ \E m \in Mobile : SendPage(m) \/ DropPage(m) \/ LeaveChannel(m)
     \/ \E m \in Mobile, c \in SDCCH : Answer(m, c)
     \/ \E c \in Channel : ThreadStep(c)

Spec == Init /\ [][Next]_vars

\* As many entries as requests arrive, at most.
MaxEntries == Cardinality(UNION {{r} \X (1..MaxSent[r]) : r \in Request})

\* The clock, the pager and the threads go on: each wait of a controller has a timeout, except
\* that for the end of a call.  Requests and phones promise nothing.
FairSpec ==
  /\ Spec
  /\ WF_vars(Running /\ OtherScan)
  /\ WF_vars(Running /\ SIPThread)
  /\ \A i \in 1..MaxEntries : WF_vars(Running /\ i \in ID /\ Tick(i))
  /\ \A m \in Mobile : WF_vars(Running /\ DropPage(m))
  /\ \A c \in Channel : WF_vars(Running /\ thread[c].pc # "call" /\ ThreadStep(c))

----------------------------------------------------------------------------

(* Properties *)

Once(i) == count[table[i].request] = 1

\* A call that runs on, though the thread of the SDCCH has taken its entry out of Active.
SetBack(i) ==
  \E t \in TCH : /\ ThreadHolds(t, i)
                /\ thread[t].pc = "call"
                /\ ~(table[i].gsm = "Active" /\ table[i].sip = "Active")

\* No thread works on an entry that has been deleted: clearDeadEntries(), called by the
\* searches of every thread, spares what the SIP thread and the controllers point to, if
\* they are prompt.  Not so a call whose INVITE is repeated once it has been answered: it is
\* set back to Proceeding, which dead() takes for one that nobody answers.  And not so one that
\* the thread of the SDCCH has set back, in assignTCHF().
NoDanglingUse ==
  \A i \in ID :
    (Once(i) \/ table[i].request \in SMS) /\ Held(i) /\ ~SetBack(i) => ~table[i].erased

\* The SIP messages of a transaction that is live have a FIFO to go to: neither the
\* destructor of another entry nor the search for a repeated request takes it away.  A third
\* arrival, after a second that found the first entry removed and not yet deleted, makes a new
\* entry, whose FIFO goes with the first.
HasFIFO ==
  \A i \in Live(table) : count[table[i].request] <= 2 => table[i].request \in sipMap

\* The thread of an SDCCH is in the loop of assignTCHF() for the TCH t.
Assigning(c, t) == c \in SDCCH /\ thread[c].pc \in {"assigning", "again"} /\ thread[c].tch = t

\* Two threads work on the transaction of a request that came once only in a handover from one
\* to the other: the thread of an SDCCH in the loop of assignTCHF(), which may still dispatch a
\* frame and set the channel, and that of the very TCH that it assigns.  All other pairs of
\* MTCStarter(), MTSMSController() and MTCController() exclude each other, and so do the threads
\* before and after the loop.
OneController ==
  \A c, d \in Channel, i \in ID :
    Once(i) /\ ThreadHolds(c, i) /\ ThreadHolds(d, i) /\ c # d
    => Assigning(c, d) \/ Assigning(d, c)

\* The pager does not refuse (480) a call that a channel has taken: removePaging() and
\* answeredPaging() may come in either order, and one of them alone gets the transaction.
AnsweredNotRejected ==
  \A c \in Channel, i \in ID : Once(i) /\ ThreadHolds(c, i) => table[i].sip # "MODCanceling"

\* A phone is paged for a transaction that has no channel, if the request came once: no step
\* of a controller leaves an entry in the Paging state behind.
PagedOnceHasNoChannel ==
  \A i \in Live(table) : Once(i) /\ table[i].gsm = "Paging" => table[i].chan = None

\* The entry of a call whose phone rings is not deleted: T301 gives the user 60 s to answer
\* (ControlCommon.h:64), and an entry in use is meant not to be dead (TransactionTable.cpp:425).
RingingKept ==
  [][\A t \in TCH :
       thread[t].pc = "alerting" /\ Mine(t).gsm = "CallReceived" /\ ~Mine(t).erased
       => ~table'[thread[t].id].erased]_vars

\* Every entry is deleted in the end, but that of a call that goes on, while the process runs:
\* whatever a controller, an exception or the pager leaves behind, dead() finds it.
NoLeak ==
  \A i \in 1..MaxEntries :
    []<>(\/ ~Running
         \/ i \in ID => \/ table[i].erased
                        \/ \E t \in TCH : ThreadHolds(t, i) /\ thread[t].pc = "call")
============================================================================
