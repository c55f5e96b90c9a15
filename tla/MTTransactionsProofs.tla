------------------------ MODULE MTTransactionsProofs ------------------------
(***************************************************************************)
(* Proofs about MTTransactions, for any requests, phones and channels, and *)
(* any number of arrivals: types, FIFOs, who works on an entry, and, where *)
(* threads are prompt, that nobody works on one that has been deleted.     *)
(***************************************************************************)
EXTENDS MTTransactions, SequenceTheorems, WellFoundedInduction, TLAPS

----------------------------------------------------------------------------
(* The inductive invariant *)

ThreadState ==
  [pc : {"idle", "response", "answer", "attach", "begin", "deliver", "confirm", "assign",
         "assigning", "again", "complete", "alerting", "connecting", "call"},
   mobile : Mobile, id : Nat, tch : TCH \cup {None}, strays : Nat]

SIPThreadState ==
  [pc : {"idle", "invite", "trying", "page", "list", "thrown"},
   request : Request, id : Nat, chan : Channel \cup {None}]

\* The entries that the SIP thread, the pager and the queues name exist.
Indices ==
  /\ IF sip.pc \in {"trying", "page", "list"} THEN sip.id \in ID ELSE sip.id = 0
  /\ sip.chan = None \/ \E t \in TCH : sip.chan = SACCH(t)
  /\ \A m \in Mobile : pages[m] \in ID \cup {0}
  /\ \A t \in TCH : \A n \in DOMAIN queue[t] : queue[t][n] \in ID

SDCCHState == {"idle", "response", "answer", "attach", "begin", "deliver",
               "confirm", "assign", "assigning", "again"}
TCHState == {"idle", "complete", "alerting", "connecting", "call"}
SACCHState == {"idle", "begin", "deliver"}

\* What a thread does depends on its channel.
ThreadPlaces ==
  /\ \A c \in SDCCH : thread[c].pc \in SDCCHState
  /\ \A t \in TCH : thread[t].pc \in TCHState
  /\ \A t \in TCH : thread[SACCH(t)].pc \in SACCHState

\* Only the thread of an SDCCH that sets up a call has a TCH, and has it alone.
TCHPlaces ==
  /\ \A c \in Channel :
       thread[c].tch # None <=> thread[c].pc \in {"confirm", "assign", "assigning", "again"}
  /\ \A c, d \in Channel : thread[c].tch = thread[d].tch /\ thread[c].tch # None => c = d

\* The phone of c has not been assigned its TCH yet.
Unmoved(c) ==
  \/ thread[c].pc \in {"confirm", "assign"}
  \/ thread[c].pc \in {"assigning", "again"} /\ \E m \in Mobile : phone[m] = c

\* There is one phone on an SDCCH, and before it is assigned a TCH nobody is there.
PhonePlaces ==
  /\ \A m, n \in Mobile : phone[m] = phone[n] /\ phone[m] \in SDCCH => m = n
  /\ \A c \in Channel : Unmoved(c) =>
       /\ thread[thread[c].tch].pc = "idle"
       /\ \A m \in Mobile : phone[m] # thread[c].tch

Invited(r) == sip.pc = "invite" /\ sip.request = r

\* A request that has an entry, or a FIFO, has arrived; one that is in checkInvite() once more.
Arrivals ==
  /\ sip.pc = "invite" => count[sip.request] >= 1
  /\ \A i \in ID : count[table[i].request] >= IF Invited(table[i].request) THEN 2 ELSE 1
  /\ \A r \in sipMap : count[r] >= IF Invited(r) THEN 2 ELSE 1
  /\ \A i, j \in ID : Once(i) /\ table[i].request = table[j].request => i = j
  /\ sip.pc = "trying" => ~Once(sip.id)

\* An entry of a request that has come twice at most is alone, and has lost its FIFO only if it
\* was removed when the request came again.
FIFOs ==
  /\ \A i, j \in ID :
       /\ ~table[i].erased /\ ~table[j].erased /\ table[i].request = table[j].request
       /\ count[table[i].request] <= 2
       => i = j
  /\ \A i \in ID :
       ~table[i].erased /\ count[table[i].request] <= 2 /\ table[i].request \notin sipMap =>
         table[i].removed /\ count[table[i].request] = 2 /\ ~Invited(table[i].request)

\* A message waits for one SACCH, once.
Queues ==
  /\ sip.pc = "invite" /\ sip.chan # None => sip.request \in SMS
  /\ \A t \in TCH : \A n \in DOMAIN queue[t] : table[queue[t][n]].request \in SMS
  /\ \A t, u \in TCH : \A n \in DOMAIN queue[t], k \in DOMAIN queue[u] :
       queue[t][n] = queue[u][k] => t = u /\ n = k

Taken(i) == \E c \in Channel : ThreadHolds(c, i)
Waits(i) == \E t \in TCH : \E n \in DOMAIN queue[t] : queue[t][n] = i

\* Where the transaction of a request that came once is, in turn: with the SIP thread, or in a
\* queue; with the pager, or given up by it; with a controller, or the two of an assignment, whose
\* channel is the TCH, or none once the assignment has failed.
Once1(i) == sip.pc = "page" /\ sip.id = i => table[i].gsm = "Null" /\ table[i].chan = None
Once2(i) ==
  \/ sip.pc = "page" /\ sip.id = i
  \/ table[i].gsm = "Paging"
  \/ table[i].sip = "MODCanceling"
  => ~Taken(i) /\ ~Waits(i)
Once3(i) == table[i].gsm = "Paging" => table[i].chan = None
Once4(i) == Waits(i) => ~Taken(i)
Once5(i) ==
  \A c \in Channel : ThreadHolds(c, i) =>
    table[i].chan \in IF thread[c].pc \in {"assigning", "again"} THEN {thread[c].tch}
                      ELSE IF c \in TCH THEN {c, None} ELSE (Channel \cup {None}) \ TCH
Once6(i) ==
  \A c, d \in Channel : ThreadHolds(c, i) /\ ThreadHolds(d, i) /\ c # d =>
    Assigning(c, d) \/ Assigning(d, c)

LifeOf(i) == Once1(i) /\ Once2(i) /\ Once3(i) /\ Once4(i) /\ Once5(i) /\ Once6(i)

Life == \A i \in ID : Once(i) => LifeOf(i)

\* TCHs are for calls, and the pager removes what it cancels.
Kinds ==
  /\ \A i \in ID : table[i].chan \in TCH => table[i].request \notin SMS
  /\ \A c \in Channel :
       thread[c].pc \in {"confirm", "assign", "assigning", "again", "alerting", "connecting",
                        "call"} =>
         table[thread[c].id].request \notin SMS
  /\ \A i \in ID : table[i].sip = "MODCanceling" => table[i].removed
  /\ \A i \in ID : table[i].request \in SMS => table[i].sip \notin {"Connecting", "Active"}

\* If threads are prompt, what they point to is young, but for a call that goes on, which has a
\* controller and looks alive, if the thread of the SDCCH has not set it back.
Spared(i) == Once(i) \/ table[i].request \in SMS
Used(i) ==
  \/ sip.id = i
  \/ Queued(i)
  \/ \E c \in Channel : ThreadHolds(c, i) /\ thread[c].pc # "call"
Answered == {"connecting", "call"}

Young(i) ==
  /\ Held(i) /\ ~SetBack(i) => ~table[i].erased
  /\ Used(i) => table[i].age = 0 /\ ~table[i].erased
CallOf(i) ==
  /\ \A t \in TCH : ThreadHolds(t, i) /\ thread[t].pc = "call" => ~table[i].removed
  /\ table[i].sip \in {"Connecting", "Active"} /\ ~table[i].removed =>
       dead(table[i]) \/ \E t \in TCH : ThreadHolds(t, i) /\ thread[t].pc \in Answered

AgesOf(i) == (Spared(i) => Young(i)) /\ (Once(i) => CallOf(i))

Ages == \A i \in ID : AgesOf(i)

----------------------------------------------------------------------------
(* Entries and tables *)

\* TypeOK, with its large conjuncts named.
LEMMA Types ==
  TypeOK <=> /\ table \in Seq(Entry)
             /\ sipMap \subseteq Request
             /\ sip \in SIPThreadState
             /\ pages \in [Mobile -> Nat]
             /\ thread \in [Channel -> ThreadState]
             /\ \A c \in Channel : thread[c].id \in
                  IF thread[c].pc \in {"idle", "response", "answer", "complete"} THEN {0} ELSE ID
             /\ queue \in [TCH -> Seq(Nat)]
             /\ phone \in [Mobile -> SDCCH \cup TCH \cup {None}]
             /\ heard \subseteq Mobile
             /\ count \in [Request -> Nat]
  BY DEF TypeOK, SIPThreadState, ThreadState

\* There is a request, and a phone; an SDCCH, a TCH and a SACCH are three things.
LEMMA Constants ==
  /\ (CHOOSE r \in Request : TRUE) \in Request
  /\ (CHOOSE m \in Mobile : TRUE) \in Mobile
  /\ SDCCH \subseteq Channel /\ TCH \subseteq Channel /\ None \notin Channel
  /\ \A t \in TCH : SACCH(t) \in Channel /\ SACCH(t) \notin SDCCH /\ SACCH(t) \notin TCH
  /\ SDCCH \cap TCH = {}
<1>1. PICK r \in Request : TRUE
  BY MTAssumption
<1>2. Subscriber[r] \in Mobile
  BY MTAssumption
<1>3. \A t \in TCH : SACCH(t) \in {SACCH(u) : u \in TCH}
  OBVIOUS
<1> QED  BY <1>1, <1>2, <1>3, MTAssumption DEF Channel

\* A thread that has gone back to wait, or to checkInvite(), has the types.
LEMMA Idle ==
  /\ ThreadIdle \in ThreadState
  /\ ThreadIdle.pc = "idle" /\ ThreadIdle.id = 0 /\ ThreadIdle.tch = None
  /\ SIPIdle \in SIPThreadState
  /\ SIPIdle.pc = "idle" /\ SIPIdle.id = 0 /\ SIPIdle.chan = None
  BY Constants DEF ThreadIdle, SIPIdle, ThreadState, SIPThreadState

\* What is in a table, and when a function is one.
LEMMA Tables ==
  ASSUME table \in Seq(Entry)
  PROVE  /\ Len(table) \in Nat /\ ID = 1..Len(table)
         /\ \A i \in ID : table[i] \in Entry
         /\ \A f : f \in [ID -> Entry] => f \in Seq(Entry) /\ DOMAIN f = ID
<1>1. Len(table) \in Nat /\ ID = 1..Len(table) /\ \A i \in ID : table[i] \in Entry
  BY DEF ID
<1>2. ASSUME NEW f \in [ID -> Entry]  PROVE f \in Seq(Entry) /\ DOMAIN f = ID
  BY <1>1, SeqDef
<1> QED  BY <1>1, <1>2

\* One entry is changed.
LEMMA PutEffect ==
  ASSUME table \in Seq(Entry), NEW k \in ID, NEW e \in Entry, table' = [table EXCEPT ![k] = e]
  PROVE  /\ table' \in Seq(Entry) /\ ID' = ID
         /\ table'[k] = e
         /\ \A i \in ID : i # k => table'[i] = table[i]
<1>1. table \in [ID -> Entry]
  BY Tables, SeqDef DEF ID
<1>2. table' \in [ID -> Entry]
  BY <1>1
<1>3. table' \in Seq(Entry) /\ DOMAIN table' = ID
  BY <1>2, Tables
<1> QED  BY <1>1, <1>3 DEF ID

\* A step that leaves the table alone leaves its type and its indices.
LEMMA SameTable ==
  ASSUME TypeOK, UNCHANGED table
  PROVE  table' \in Seq(Entry) /\ ID' = ID
  BY Types DEF ID

swept(i) == [table[i] EXCEPT !.erased = @ \/ dead(table[i])]

\* The table is swept.
LEMMA ScanEffect ==
  ASSUME table \in Seq(Entry)
  PROVE  /\ clearDeadEntries \in Seq(Entry) /\ DOMAIN clearDeadEntries = ID
         /\ \A i \in ID : /\ clearDeadEntries[i] = swept(i)
                          /\ swept(i) \in Entry
                          /\ swept(i).request = table[i].request
                          /\ swept(i).gsm = table[i].gsm
                          /\ swept(i).sip = table[i].sip
                          /\ swept(i).age = table[i].age
                          /\ swept(i).removed = table[i].removed
                          /\ swept(i).erased = (table[i].erased \/ dead(table[i]))
                          /\ swept(i).chan = table[i].chan
<1>1. ASSUME NEW i \in ID
      PROVE  /\ swept(i) \in Entry
             /\ swept(i).request = table[i].request
             /\ swept(i).gsm = table[i].gsm
             /\ swept(i).sip = table[i].sip
             /\ swept(i).age = table[i].age
             /\ swept(i).removed = table[i].removed
             /\ swept(i).erased = (table[i].erased \/ dead(table[i]))
             /\ swept(i).chan = table[i].chan
  <2>1. table[i] \in Entry
    BY Tables
  <2>2. dead(table[i]) \in BOOLEAN
    BY DEF dead
  <2>3. (table[i].erased \/ dead(table[i])) \in BOOLEAN
    OBVIOUS
  <2> QED BY <2>1, <2>3 DEF swept, Entry
<1>2. clearDeadEntries \in [ID -> Entry] /\ \A i \in ID : clearDeadEntries[i] = swept(i)
  BY <1>1 DEF clearDeadEntries, swept
<1> QED  BY <1>1, <1>2, Tables

----------------------------------------------------------------------------
(* What the thread of a channel does to its entry *)

ThreadPC == {"idle", "response", "answer", "attach", "begin", "deliver", "confirm", "assign",
             "assigning", "again", "complete", "alerting", "connecting", "call"}
Loop == {"assigning", "again"}

\* f is e, which the controller in c is done with, for better or worse.
Ended(c, e, f) ==
  /\ f.request = e.request /\ f.erased = e.erased
  /\ e.removed => f.removed
  /\ f.gsm \in {e.gsm, "Null"}
  /\ f.sip \in {e.sip, "Cleared", "Canceled"}
  /\ f.age \in {e.age, 0}
  /\ f.chan # e.chan => f.chan = None /\ thread[c].pc = "again"
  /\ thread[c].pc \in Loop => f.removed = e.removed
  /\ thread[c].pc \in {"connecting", "call"} =>
       dead(f) \/ f.removed \/ f.sip \in {"Cleared", "Canceled"}

\* A step of the thread of c that touches its own entry, at most.
Works(c) ==
  /\ table' \in Seq(Entry) /\ ID' = ID
  /\ \A i \in ID : i # thread[c].id => table'[i] = table[i]
  /\ thread' \in [Channel -> ThreadState]
  /\ \A d \in Channel : d # c => thread'[d] = thread[d]
  /\ queue' \in [TCH -> Seq(Nat)] /\ \A t \in TCH : queue'[t] \in {queue[t], <<>>}
  /\ phone' \in [Mobile -> SDCCH \cup TCH \cup {None}]
  /\ UNCHANGED <<sipMap, sip, pages, heard, count>>

\* The controller ends, and the thread waits.
Leaves(c) ==
  /\ Works(c)
  /\ thread'[c] = ThreadIdle
  /\ \A m \in Mobile : phone'[m] \in {phone[m], None}
  /\ thread[c].id \in ID /\ Ended(c, Mine(c), table'[thread[c].id])

\* It goes on with the entry, which becomes e; only a frame that it does not look into, or that
\* makes the phone leave, is dispatched for a transaction that has been removed.
GoesOn(c, e, pc) ==
  /\ Works(c)
  /\ thread'[c].pc = pc /\ thread'[c].id = thread[c].id
  /\ \/ pc # "confirm" /\ thread'[c].tch = thread[c].tch
     \/ pc = "confirm" /\ thread'[c].tch \in FreeTCH /\ queue'[thread'[c].tch] = <<>>
  /\ \A m \in Mobile : phone'[m] \in {phone[m], None}
  /\ thread[c].id \in ID /\ (~Mine(c).removed \/ pc = "again")
  /\ table'[thread[c].id] = e

\* thread' differs in c alone.
LEMMA ThreadEffect ==
  ASSUME TypeOK, NEW c \in Channel, NEW x \in ThreadState, thread' = [thread EXCEPT ![c] = x]
  PROVE  /\ thread' \in [Channel -> ThreadState]
         /\ thread'[c] = x
         /\ \A d \in Channel : d # c => thread'[d] = thread[d]
  BY Types

\* A change of its pc keeps the type of a thread, and its entry.
LEMMA GoEffect ==
  ASSUME TypeOK, NEW c \in Channel, NEW pc \in ThreadPC, Go(c, pc)
  PROVE  /\ thread' \in [Channel -> ThreadState]
         /\ thread'[c] = [thread[c] EXCEPT !.pc = pc]
         /\ \A d \in Channel : d # c => thread'[d] = thread[d]
<1>1. thread[c] \in ThreadState
  BY Types
<1>2. [thread[c] EXCEPT !.pc = pc] \in ThreadState
  BY <1>1 DEF ThreadState, ThreadPC
<1>3. thread' = [thread EXCEPT ![c] = [thread[c] EXCEPT !.pc = pc]]
  BY DEF Go
<1> QED  BY <1>2, <1>3, ThreadEffect

\* Quit(c) makes the phone of c leave it.
LEMMA QuitEffect ==
  ASSUME TypeOK, NEW c \in Channel, Quit(c)
  PROVE  /\ thread' \in [Channel -> ThreadState]
         /\ thread'[c] = ThreadIdle
         /\ \A d \in Channel : d # c => thread'[d] = thread[d]
         /\ phone' \in [Mobile -> SDCCH \cup TCH \cup {None}]
         /\ \A m \in Mobile : phone'[m] \in {phone[m], None}
<1>1. thread' = [thread EXCEPT ![c] = ThreadIdle] /\ phone' = Hung(c)
  BY DEF Quit
<1>2. \A m \in Mobile : phone'[m] \in {phone[m], None}
  BY <1>1 DEF Hung
<1>3. phone' \in [Mobile -> SDCCH \cup TCH \cup {None}]
  BY <1>1, Types DEF Hung
<1> QED  BY <1>1, <1>2, <1>3, ThreadEffect, Idle

\* Removing an entry ends it.
LEMMA RemoveEffect ==
  ASSUME NEW c \in Channel, NEW e \in Entry, thread[c].pc \notin Loop
  PROVE  remove(e) \in Entry /\ Ended(c, e, remove(e))
<1>1. 0 \in 0..2
  OBVIOUS
<1>2. remove(e) \in Entry
  BY <1>1 DEF remove, Entry
<1>3. /\ remove(e).request = e.request /\ remove(e).erased = e.erased /\ remove(e).removed = TRUE
      /\ remove(e).gsm = e.gsm /\ remove(e).sip = e.sip /\ remove(e).age = 0
      /\ remove(e).chan = e.chan
  BY <1>1 DEF remove, Entry
<1> HIDE DEF remove
<1> QED  BY <1>2, <1>3 DEF Ended

\* An entry that is left as it is, is ended if its thread does not run a call.
LEMMA KeptEffect ==
  ASSUME NEW c \in Channel, NEW e,
         thread[c].pc \in {"connecting", "call"} => dead(e) \/ e.removed
  PROVE  Ended(c, e, e)
<1> HIDE DEF dead
<1> QED BY DEF Ended

\* The thread of c leaves with its entry put away as e.
LEMMA PutAndQuit ==
  ASSUME TypeOK, NEW c \in Channel, thread[c].id \in ID, NEW e \in Entry, Put(c, e), Quit(c),
         Ended(c, Mine(c), e), UNCHANGED <<sipMap, sip, pages, queue, heard, count>>
  PROVE  Leaves(c)
<1>1. /\ table' \in Seq(Entry) /\ ID' = ID
      /\ table'[thread[c].id] = e
      /\ \A i \in ID : i # thread[c].id => table'[i] = table[i]
  BY PutEffect, Types DEF Put
<1>2. queue' \in [TCH -> Seq(Nat)]
  BY Types
<1> QED  BY <1>1, <1>2, QuitEffect DEF Leaves, Works

\* It leaves with its entry as it is.
LEMMA QuitOnly ==
  ASSUME TypeOK, NEW c \in Channel, thread[c].id \in ID, Quit(c),
         thread[c].pc \in {"connecting", "call"} => dead(Mine(c)) \/ Mine(c).removed,
         UNCHANGED <<table, sipMap, sip, pages, queue, heard, count>>
  PROVE  Leaves(c)
<1>1. table' \in Seq(Entry) /\ ID' = ID /\ queue' \in [TCH -> Seq(Nat)]
  BY Types DEF ID
<1>2. Mine(c) \in Entry
  BY Tables, Types DEF Mine
<1>3. Ended(c, Mine(c), Mine(c))
  BY KeptEffect
<1>4. table'[thread[c].id] = Mine(c)
  BY DEF Mine
<1> QED  BY <1>1, <1>3, <1>4, QuitEffect DEF Leaves, Works

\* RemovedTransaction is thrown.
LEMMA ThrowEffect ==
  ASSUME TypeOK, NEW c \in Channel, thread[c].id \in ID, Throw(c), Mine(c).removed,
         thread[c].pc \notin Loop \/ c \in SDCCH,
         UNCHANGED <<sipMap, sip, pages, phone, heard, count>>,
         queue' \in [TCH -> Seq(Nat)], \A t \in TCH : queue'[t] \in {queue[t], <<>>}
  PROVE  Leaves(c)
<1>1. /\ thread' \in [Channel -> ThreadState]
      /\ thread'[c] = ThreadIdle
      /\ \A d \in Channel : d # c => thread'[d] = thread[d]
  BY ThreadEffect, Idle DEF Throw
<1>2. Mine(c) \in Entry
  BY Tables, Types DEF Mine
<1>3. table' \in Seq(Entry) /\ ID' = ID
      /\ (\A i \in ID : i # thread[c].id => table'[i] = table[i])
      /\ Ended(c, Mine(c), table'[thread[c].id])
  <2>1. CASE UNCHANGED table
    <3>1. Ended(c, Mine(c), Mine(c))
      BY KeptEffect
    <3> QED BY <2>1, <3>1, Types DEF Mine, ID
  <2>2. CASE Put(c, remove(Mine(c))) /\ c \notin SDCCH
    <3>1. remove(Mine(c)) \in Entry /\ Ended(c, Mine(c), remove(Mine(c)))
      BY <1>2, <2>2, RemoveEffect
    <3>2. table' = [table EXCEPT ![thread[c].id] = remove(Mine(c))]
      BY <2>2 DEF Put
    <3> HIDE DEF remove
    <3> QED BY <3>1, <3>2, PutEffect, Types
  <2> QED BY <2>1, <2>2 DEF Throw
<1>4. phone' \in [Mobile -> SDCCH \cup TCH \cup {None}] /\ \A m \in Mobile : phone'[m] \in {phone[m], None}
  BY Types
<1> QED  BY <1>1, <1>3, <1>4 DEF Leaves, Works

\* A step goes on with its entry, or throws RemovedTransaction.
LEMMA StepEffect ==
  ASSUME TypeOK, NEW c \in Channel, thread[c].id \in ID, NEW e \in Entry,
         NEW pc \in ThreadPC \ {"confirm"}, thread[c].pc \notin Loop \/ c \in SDCCH,
         Step(c, e, pc),
         queue' \in [TCH -> Seq(Nat)], \A t \in TCH : queue'[t] \in {queue[t], <<>>}
  PROVE  GoesOn(c, e, pc) \/ Leaves(c)
<1>1. UNCHANGED <<sipMap, sip, pages, phone, heard, count>>
  BY DEF Step
<1>2. CASE Mine(c).removed
  BY <1>1, <1>2, ThrowEffect DEF Step
<1>3. CASE ~Mine(c).removed
  <2>1. Go(c, pc) /\ Put(c, e)
    BY <1>3 DEF Step
  <2>2. /\ table' \in Seq(Entry) /\ ID' = ID
        /\ table'[thread[c].id] = e
        /\ \A i \in ID : i # thread[c].id => table'[i] = table[i]
    BY <2>1, PutEffect, Types DEF Put
  <2>3. phone' \in [Mobile -> SDCCH \cup TCH \cup {None}]
    BY <1>1, Types
  <2>4. /\ thread' \in [Channel -> ThreadState]
        /\ thread'[c] = [thread[c] EXCEPT !.pc = pc]
        /\ \A d \in Channel : d # c => thread'[d] = thread[d]
    BY <2>1, GoEffect
  <2>5. thread'[c].pc = pc /\ thread'[c].id = thread[c].id /\ thread'[c].tch = thread[c].tch
    BY <2>4, Types DEF ThreadState
  <2> QED BY <1>1, <1>3, <2>1, <2>2, <2>3, <2>4, <2>5 DEF GoesOn, Works
<1> QED  BY <1>2, <1>3

\* How the entry of the thread of c changes from one state of its controller to the next.
Advanced(c, e, pc) ==
  LET o == Mine(c)  from == thread[c].pc IN
  /\ e.request = o.request /\ e.erased = o.erased /\ e.removed = o.removed
  /\ e.age \in {o.age, 0}
  /\ \/ from = "attach" /\ pc = "begin" /\ c \in SDCCH
        /\ e.chan = c /\ e.gsm = o.gsm /\ e.sip = o.sip
     \/ /\ from = "begin" /\ pc = "deliver" /\ o.request \in SMS
        /\ e.chan = c /\ e.gsm = "SMSDelivering" /\ e.sip = o.sip
     \/ /\ from = "begin" /\ pc = "confirm" /\ c \in SDCCH /\ o.request \notin SMS
        /\ e.chan = o.chan /\ e.gsm = "CallPresent" /\ e.sip = o.sip
     \/ /\ from = "confirm" /\ pc = "assign" /\ c \in SDCCH
        /\ e.chan = o.chan /\ e.gsm = "MTCConfirmed" /\ e.sip = "Proceeding"
     \/ /\ from = "assign" /\ pc = "assigning" /\ c \in SDCCH
        /\ e.chan = thread[c].tch /\ e.gsm = o.gsm /\ e.sip = o.sip
     \/ /\ from = "assigning" /\ pc = "again" /\ c \in SDCCH
        /\ e.chan = o.chan /\ e.gsm \in {o.gsm} \cup (GSMState \ {"Paging"})
        /\ e.sip \in {o.sip, "Cleared", "Canceled"}
     \/ /\ from = "again" /\ pc = "assigning" /\ c \in SDCCH
        /\ e.chan = thread[c].tch /\ e.gsm = o.gsm /\ e.sip = o.sip
     \/ /\ from = "alerting" /\ pc = "alerting" /\ c \in TCH
        /\ e.chan = o.chan /\ e.gsm = "CallReceived" /\ e.sip = "Proceeding"
     \/ /\ from = "alerting" /\ pc = "connecting" /\ c \in TCH
        /\ e.chan = o.chan /\ e.gsm = "Active" /\ e.sip = "Connecting"
     \/ /\ from = "connecting" /\ pc = "call" /\ c \in TCH
        /\ e.chan = o.chan /\ e.gsm = o.gsm /\ e.sip = "Active"

Advances(c) ==
  \E e \in Entry, pc \in ThreadPC : GoesOn(c, e, pc) /\ Advanced(c, e, pc)

\* The thread of c works on an entry.
LEMMA Working ==
  ASSUME TypeOK, NEW c \in Channel,
         thread[c].pc \notin {"idle", "response", "answer", "complete"}
  PROVE  thread[c].id \in ID /\ Mine(c) \in Entry /\ thread[c] \in ThreadState
<1>1. thread[c].id \in ID /\ thread[c] \in ThreadState
  BY Types
<1> QED  BY <1>1, Tables, Types DEF Mine

\* Setting the GSM state of an entry.
LEMMA GSMEffect ==
  ASSUME NEW e \in Entry, NEW g \in GSMState
  PROVE  /\ setGSM(e, g) \in Entry
         /\ setGSM(e, g).request = e.request /\ setGSM(e, g).erased = e.erased
         /\ setGSM(e, g).removed = e.removed /\ setGSM(e, g).age = 0
         /\ setGSM(e, g).gsm = g /\ setGSM(e, g).sip = e.sip /\ setGSM(e, g).chan = e.chan
<1>1. 0 \in 0..2
  OBVIOUS
<1> QED  BY <1>1 DEF setGSM, Entry

\* Setting its SIP state.
LEMMA SIPEffect ==
  ASSUME NEW e \in Entry, NEW x \in SIPState
  PROVE  LET f == [e EXCEPT !.sip = x] IN
         /\ f \in Entry
         /\ f.request = e.request /\ f.erased = e.erased /\ f.removed = e.removed
         /\ f.age = e.age /\ f.gsm = e.gsm /\ f.sip = x /\ f.chan = e.chan
  BY DEF Entry

\* Setting its channel.
LEMMA ChanEffect ==
  ASSUME NEW e \in Entry, NEW x \in Channel \cup {None}
  PROVE  LET f == [e EXCEPT !.chan = x] IN
         /\ f \in Entry
         /\ f.request = e.request /\ f.erased = e.erased /\ f.removed = e.removed
         /\ f.age = e.age /\ f.gsm = e.gsm /\ f.sip = e.sip /\ f.chan = x
  BY DEF Entry

\* A step of a controller that does what Advanced() says.
LEMMA StepAdvances ==
  ASSUME TypeOK, NEW c \in Channel, NEW e \in Entry, NEW pc \in ThreadPC \ {"confirm"},
         thread[c].pc \notin {"idle", "response", "answer", "complete"},
         thread[c].pc \notin Loop \/ c \in SDCCH,
         Step(c, e, pc), Advanced(c, e, pc),
         queue' \in [TCH -> Seq(Nat)], \A t \in TCH : queue'[t] \in {queue[t], <<>>}
  PROVE  Advances(c) \/ Leaves(c)
<1>1. thread[c].id \in ID
  BY Working
<1>2. GoesOn(c, e, pc) \/ Leaves(c)
  BY <1>1, StepEffect
<1> QED  BY <1>2 DEF Advances

\* Attach(c).
LEMMA AttachStep ==
  ASSUME TypeOK, NEW c \in SDCCH, Attach(c)
  PROVE  Advances(c) \/ Leaves(c)
<1>1. thread[c].pc = "attach" /\ c \in Channel
  BY Constants DEF Attach
<1>2. Mine(c) \in Entry
  BY <1>1, Working
<1> DEFINE e == [Mine(c) EXCEPT !.chan = c]
<1>3. /\ e \in Entry
      /\ e.request = Mine(c).request /\ e.erased = Mine(c).erased /\ e.removed = Mine(c).removed
      /\ e.age = Mine(c).age /\ e.gsm = Mine(c).gsm /\ e.sip = Mine(c).sip /\ e.chan = c
  BY <1>1, <1>2, ChanEffect
<1>4. Step(c, e, "begin") /\ UNCHANGED queue
  BY DEF Attach
<1> HIDE DEF e
<1>5. "begin" \in ThreadPC \ {"confirm"}
  BY DEF ThreadPC
<1>6. Advanced(c, e, "begin")
  BY <1>1, <1>3 DEF Advanced
<1> QED  BY <1>1, <1>3, <1>4, <1>5, <1>6, StepAdvances, Types

\* BeginSMS(c).
LEMMA BeginSMSStep ==
  ASSUME TypeOK, NEW c \in Channel, BeginSMS(c)
  PROVE  Advances(c) \/ Leaves(c)
<1>1. thread[c].pc = "begin" /\ Mine(c).request \in SMS
  BY DEF BeginSMS, IsSMS
<1>2. Mine(c) \in Entry
  BY <1>1, Working
<1> DEFINE d == [Mine(c) EXCEPT !.chan = c]
           e == setGSM(d, "SMSDelivering")
<1>3. /\ d \in Entry
      /\ d.request = Mine(c).request /\ d.erased = Mine(c).erased /\ d.removed = Mine(c).removed
      /\ d.sip = Mine(c).sip /\ d.chan = c
  BY <1>2, ChanEffect
<1>4. Step(c, e, "deliver") /\ UNCHANGED queue
  BY DEF BeginSMS
<1> HIDE DEF d
<1>5. /\ e \in Entry
      /\ e.request = d.request /\ e.erased = d.erased /\ e.removed = d.removed
      /\ e.age = 0 /\ e.gsm = "SMSDelivering" /\ e.sip = d.sip /\ e.chan = d.chan
  BY <1>3, GSMEffect DEF GSMState
<1> HIDE DEF e
<1>6. "deliver" \in ThreadPC \ {"confirm"} /\ thread[c].pc \notin Loop
  BY <1>1 DEF ThreadPC, Loop
<1>7. Advanced(c, e, "deliver")
  BY <1>1, <1>3, <1>5 DEF Advanced
<1> QED  BY <1>1, <1>4, <1>5, <1>6, <1>7, StepAdvances, Types

\* CallConfirmed(c).
LEMMA CallConfirmedStep ==
  ASSUME TypeOK, NEW c \in SDCCH, CallConfirmed(c)
  PROVE  Advances(c) \/ Leaves(c)
<1>1. thread[c].pc = "confirm" /\ c \in Channel
  BY Constants DEF CallConfirmed
<1>2. Mine(c) \in Entry
  BY <1>1, Working
<1> DEFINE d == [Mine(c) EXCEPT !.sip = "Proceeding"]
           e == setGSM(d, "MTCConfirmed")
<1>3. /\ d \in Entry
      /\ d.request = Mine(c).request /\ d.erased = Mine(c).erased /\ d.removed = Mine(c).removed
      /\ d.sip = "Proceeding" /\ d.chan = Mine(c).chan
  BY <1>2, SIPEffect DEF SIPState
<1>4. Step(c, e, "assign") /\ UNCHANGED queue
  BY DEF CallConfirmed
<1> HIDE DEF d
<1>5. /\ e \in Entry
      /\ e.request = d.request /\ e.erased = d.erased /\ e.removed = d.removed
      /\ e.age = 0 /\ e.gsm = "MTCConfirmed" /\ e.sip = d.sip /\ e.chan = d.chan
  BY <1>3, GSMEffect DEF GSMState
<1> HIDE DEF e
<1>6. "assign" \in ThreadPC \ {"confirm"}
  BY DEF ThreadPC
<1>7. Advanced(c, e, "assign")
  BY <1>1, <1>3, <1>5 DEF Advanced
<1> QED  BY <1>1, <1>4, <1>5, <1>6, <1>7, StepAdvances, Types

\* Alerting(c).
LEMMA AlertingStep ==
  ASSUME TypeOK, NEW c \in TCH, Alerting(c)
  PROVE  Advances(c) \/ Leaves(c)
<1>1. thread[c].pc = "alerting" /\ c \in Channel
  BY Constants DEF Alerting
<1>2. Mine(c) \in Entry
  BY <1>1, Working
<1> DEFINE d == [Mine(c) EXCEPT !.sip = "Proceeding"]
           e == setGSM(d, "CallReceived")
<1>3. /\ d \in Entry
      /\ d.request = Mine(c).request /\ d.erased = Mine(c).erased /\ d.removed = Mine(c).removed
      /\ d.sip = "Proceeding" /\ d.chan = Mine(c).chan
      /\ d.age = Mine(c).age /\ d.gsm = Mine(c).gsm
  BY <1>2, SIPEffect DEF SIPState
<1>4. /\ UNCHANGED queue
      /\ \/ Step(c, e, "alerting")
         \/ Mine(c).gsm = "CallReceived" /\ Step(c, d, "alerting")
  BY DEF Alerting
<1> HIDE DEF d
<1>5. /\ e \in Entry
      /\ e.request = d.request /\ e.erased = d.erased /\ e.removed = d.removed
      /\ e.age = 0 /\ e.gsm = "CallReceived" /\ e.sip = d.sip /\ e.chan = d.chan
  BY <1>3, GSMEffect DEF GSMState
<1> HIDE DEF e
<1>6. "alerting" \in ThreadPC \ {"confirm"} /\ thread[c].pc \notin Loop
  BY <1>1 DEF ThreadPC, Loop
<1>7. Advanced(c, e, "alerting")
  BY <1>1, <1>3, <1>5 DEF Advanced
<1>8. Mine(c).gsm = "CallReceived" => Advanced(c, d, "alerting")
  BY <1>1, <1>3 DEF Advanced
<1>9. CASE Step(c, e, "alerting")
  BY <1>1, <1>4, <1>5, <1>6, <1>7, <1>9, StepAdvances, Types
<1>10. CASE Mine(c).gsm = "CallReceived" /\ Step(c, d, "alerting")
  BY <1>1, <1>3, <1>4, <1>6, <1>8, <1>10, StepAdvances, Types
<1> QED  BY <1>4, <1>9, <1>10

\* Connect(c).
LEMMA ConnectStep ==
  ASSUME TypeOK, NEW c \in TCH, Connect(c)
  PROVE  Advances(c) \/ Leaves(c)
<1>1. thread[c].pc = "alerting" /\ c \in Channel
  BY Constants DEF Connect
<1>2. Mine(c) \in Entry
  BY <1>1, Working
<1> DEFINE d == [Mine(c) EXCEPT !.sip = "Connecting"]
           e == setGSM(d, "Active")
<1>3. /\ d \in Entry
      /\ d.request = Mine(c).request /\ d.erased = Mine(c).erased /\ d.removed = Mine(c).removed
      /\ d.sip = "Connecting" /\ d.chan = Mine(c).chan
      /\ d.age = Mine(c).age /\ d.gsm = Mine(c).gsm
  BY <1>2, SIPEffect DEF SIPState
<1>4. /\ UNCHANGED queue
      /\ \/ Step(c, e, "connecting")
         \/ Mine(c).gsm = "Active" /\ Step(c, d, "connecting")
  BY DEF Connect
<1> HIDE DEF d
<1>5. /\ e \in Entry
      /\ e.request = d.request /\ e.erased = d.erased /\ e.removed = d.removed
      /\ e.age = 0 /\ e.gsm = "Active" /\ e.sip = d.sip /\ e.chan = d.chan
  BY <1>3, GSMEffect DEF GSMState
<1> HIDE DEF e
<1>6. "connecting" \in ThreadPC \ {"confirm"} /\ thread[c].pc \notin Loop
  BY <1>1 DEF ThreadPC, Loop
<1>7. Advanced(c, e, "connecting")
  BY <1>1, <1>3, <1>5 DEF Advanced
<1>8. Mine(c).gsm = "Active" => Advanced(c, d, "connecting")
  BY <1>1, <1>3 DEF Advanced
<1>9. CASE Step(c, e, "connecting")
  BY <1>1, <1>4, <1>5, <1>6, <1>7, <1>9, StepAdvances, Types
<1>10. CASE Mine(c).gsm = "Active" /\ Step(c, d, "connecting")
  BY <1>1, <1>3, <1>4, <1>6, <1>8, <1>10, StepAdvances, Types
<1> QED  BY <1>4, <1>9, <1>10

\* ReceiveACK(t).
LEMMA ReceiveACKStep ==
  ASSUME TypeOK, NEW c \in TCH, ReceiveACK(c)
  PROVE  Advances(c) \/ Leaves(c)
<1>1. thread[c].pc = "connecting" /\ c \in Channel
  BY Constants DEF ReceiveACK
<1>2. Mine(c) \in Entry
  BY <1>1, Working
<1> DEFINE e == [Mine(c) EXCEPT !.sip = "Active"]
<1>3. /\ e \in Entry
      /\ e.request = Mine(c).request /\ e.erased = Mine(c).erased /\ e.removed = Mine(c).removed
      /\ e.age = Mine(c).age /\ e.gsm = Mine(c).gsm /\ e.sip = "Active"
      /\ e.chan = Mine(c).chan
  BY <1>2, SIPEffect DEF SIPState
<1>4. Step(c, e, "call") /\ UNCHANGED queue
  BY DEF ReceiveACK
<1> HIDE DEF e
<1>5. "call" \in ThreadPC \ {"confirm"} /\ thread[c].pc \notin Loop
  BY <1>1 DEF ThreadPC, Loop
<1>6. Advanced(c, e, "call")
  BY <1>1, <1>3 DEF Advanced
<1> QED  BY <1>1, <1>3, <1>4, <1>5, <1>6, StepAdvances, Types

\* Assign(c): the FIFO of the SACCH is emptied.
LEMMA AssignStep ==
  ASSUME TypeOK, TCHPlaces, NEW c \in SDCCH, Assign(c)
  PROVE  Advances(c) \/ Leaves(c)
<1>1. thread[c].pc = "assign" /\ c \in Channel
  BY Constants DEF Assign
<1>2. Mine(c) \in Entry /\ thread[c].tch \in TCH
  BY <1>1, Working DEF TCHPlaces, ThreadState
<1> DEFINE e == [Mine(c) EXCEPT !.chan = thread[c].tch]
<1>3. /\ e \in Entry
      /\ e.request = Mine(c).request /\ e.erased = Mine(c).erased /\ e.removed = Mine(c).removed
      /\ e.age = Mine(c).age /\ e.gsm = Mine(c).gsm /\ e.sip = Mine(c).sip
      /\ e.chan = thread[c].tch
  BY <1>2, ChanEffect, Constants
<1>4. Step(c, e, "assigning") /\ queue' = [queue EXCEPT ![thread[c].tch] = <<>>]
  BY DEF Assign
<1> HIDE DEF e
<1>5. queue' \in [TCH -> Seq(Nat)] /\ \A t \in TCH : queue'[t] \in {queue[t], <<>>}
  BY <1>2, <1>4, Types
<1>6. "assigning" \in ThreadPC \ {"confirm"}
  BY DEF ThreadPC
<1>7. Advanced(c, e, "assigning")
  BY <1>1, <1>3 DEF Advanced
<1> QED  BY <1>1, <1>3, <1>4, <1>5, <1>6, <1>7, StepAdvances

\* AssignAgain(c).
LEMMA AssignAgainStep ==
  ASSUME TypeOK, TCHPlaces, NEW c \in SDCCH, AssignAgain(c)
  PROVE  Advances(c) \/ Leaves(c)
<1>1. thread[c].pc = "again" /\ c \in Channel
  BY Constants DEF AssignAgain
<1>2. Mine(c) \in Entry /\ thread[c].tch \in TCH
  BY <1>1, Working DEF TCHPlaces, ThreadState
<1> DEFINE e == [Mine(c) EXCEPT !.chan = thread[c].tch]
<1>3. /\ e \in Entry
      /\ e.request = Mine(c).request /\ e.erased = Mine(c).erased /\ e.removed = Mine(c).removed
      /\ e.age = Mine(c).age /\ e.gsm = Mine(c).gsm /\ e.sip = Mine(c).sip
      /\ e.chan = thread[c].tch
  BY <1>2, ChanEffect, Constants
<1>4. Step(c, e, "assigning") /\ UNCHANGED queue
  BY DEF AssignAgain
<1> HIDE DEF e
<1>5. "assigning" \in ThreadPC \ {"confirm"}
  BY DEF ThreadPC
<1>6. Advanced(c, e, "assigning")
  BY <1>1, <1>3 DEF Advanced
<1> QED  BY <1>1, <1>3, <1>4, <1>5, <1>6, StepAdvances, Types

\* The loop of assignTCHF() goes on with the entry, which becomes e.
LEMMA StrayedEffect ==
  ASSUME TypeOK, NEW c \in SDCCH, thread[c].pc = "assigning", Strayed(c), NEW e \in Entry,
         table' = [table EXCEPT ![thread[c].id] = e],
         e.request = Mine(c).request, e.erased = Mine(c).erased, e.removed = Mine(c).removed,
         e.age \in {Mine(c).age, 0}, e.chan = Mine(c).chan,
         e.gsm \in {Mine(c).gsm} \cup (GSMState \ {"Paging"}),
         e.sip \in {Mine(c).sip, "Cleared", "Canceled"},
         phone' \in [Mobile -> SDCCH \cup TCH \cup {None}],
         \A m \in Mobile : phone'[m] \in {phone[m], None},
         UNCHANGED <<sipMap, sip, pages, queue, heard, count>>
  PROVE  Advances(c)
<1>1. c \in Channel /\ thread[c].id \in ID /\ thread[c] \in ThreadState
  BY Constants, Working
<1> DEFINE x == [thread[c] EXCEPT !.pc = "again", !.strays = @ + 1]
<1>2. x \in ThreadState /\ x.pc = "again" /\ x.id = thread[c].id /\ x.tch = thread[c].tch
  <2>1. thread[c].strays + 1 \in Nat
    BY <1>1 DEF ThreadState
  <2> DEFINE n == thread[c].strays + 1
  <2>2. x = [[thread[c] EXCEPT !.pc = "again"] EXCEPT !.strays = n]
    BY <1>1 DEF ThreadState
  <2> HIDE DEF n, x
  <2>3. n \in Nat
    BY <2>1 DEF n
  <2> QED BY <1>1, <2>2, <2>3 DEF ThreadState
<1>3. thread' = [thread EXCEPT ![c] = x]
  BY DEF Strayed
<1> HIDE DEF x
<1>4. /\ thread' \in [Channel -> ThreadState]
      /\ thread'[c] = x
      /\ \A d \in Channel : d # c => thread'[d] = thread[d]
  BY <1>1, <1>2, <1>3, ThreadEffect
<1>5. /\ table' \in Seq(Entry) /\ ID' = ID
      /\ table'[thread[c].id] = e
      /\ \A i \in ID : i # thread[c].id => table'[i] = table[i]
  BY <1>1, PutEffect, Types
<1>6. queue' \in [TCH -> Seq(Nat)]
  BY Types
<1>7. GoesOn(c, e, "again")
  BY <1>1, <1>2, <1>4, <1>5, <1>6 DEF GoesOn, Works
<1>8. Advanced(c, e, "again")
  BY DEF Advanced
<1> QED  BY <1>7, <1>8 DEF Advances, ThreadPC

\* What forceSIPClearing() makes of an entry.
LEMMA ClearEffect ==
  ASSUME NEW e \in Entry
  PROVE  LET f == forceSIPClearing(e) IN
         /\ f \in Entry
         /\ f.request = e.request /\ f.erased = e.erased /\ f.removed = e.removed
         /\ f.age = e.age /\ f.gsm = e.gsm /\ f.chan = e.chan
         /\ f.sip \in {e.sip, "Cleared", "Canceled"}
<1>1. CASE forceSIPClearing(e) = e
  BY <1>1
<1>2. ASSUME NEW x \in {"Cleared", "Canceled"}, forceSIPClearing(e) = [e EXCEPT !.sip = x]
      PROVE  LET f == forceSIPClearing(e) IN
             /\ f \in Entry
             /\ f.request = e.request /\ f.erased = e.erased /\ f.removed = e.removed
             /\ f.age = e.age /\ f.gsm = e.gsm /\ f.chan = e.chan
             /\ f.sip \in {e.sip, "Cleared", "Canceled"}
  <2>1. x \in SIPState
    BY DEF SIPState
  <2> QED BY <1>2, <2>1, SIPEffect
<1>3. \/ forceSIPClearing(e) = e
      \/ forceSIPClearing(e) = [e EXCEPT !.sip = "Cleared"]
      \/ forceSIPClearing(e) = [e EXCEPT !.sip = "Canceled"]
  <2> HIDE DEF dead
  <2> QED BY DEF forceSIPClearing
<1> HIDE DEF forceSIPClearing
<1> QED  BY <1>1, <1>2, <1>3

\* What callManagementDispatchGSM() makes of one.
LEMMA DispatchEffect ==
  ASSUME NEW e \in Entry,
         NEW m \in {"CallConfirmed", "Alerting", "Connect", "ReleaseComplete", "Disconnect"}
  PROVE  LET f == dispatched(e, m) IN
         /\ f \in Entry
         /\ f.request = e.request /\ f.erased = e.erased /\ f.removed = e.removed
         /\ f.age = 0 /\ f.gsm \in GSMState \ {"Paging"} /\ f.chan = e.chan
         /\ f.sip \in {e.sip, "Cleared", "Canceled"}
<1>1. ASSUME NEW d \in Entry, NEW g \in GSMState \ {"Paging"}, dispatched(e, m) = setGSM(d, g),
             d.request = e.request, d.erased = e.erased, d.removed = e.removed, d.chan = e.chan,
             d.sip \in {e.sip, "Cleared", "Canceled"}
      PROVE  LET f == dispatched(e, m) IN
             /\ f \in Entry
             /\ f.request = e.request /\ f.erased = e.erased /\ f.removed = e.removed
             /\ f.age = 0 /\ f.gsm \in GSMState \ {"Paging"} /\ f.chan = e.chan
             /\ f.sip \in {e.sip, "Cleared", "Canceled"}
  <2> HIDE DEF setGSM, dispatched
  <2> QED BY <1>1, GSMEffect
<1>2. CASE m = "Disconnect"
  <2> DEFINE x == IF e.sip = "Active" THEN "Cleared" ELSE "Canceled"
             d == [e EXCEPT !.sip = x]
  <2>1. x \in SIPState /\ x \in {"Cleared", "Canceled"}
    BY DEF SIPState
  <2>2. dispatched(e, m) = setGSM(d, "ReleaseRequest")
    <3> HIDE DEF setGSM
    <3> QED BY <1>2 DEF dispatched
  <2> HIDE DEF x
  <2>3. /\ d \in Entry
        /\ d.request = e.request /\ d.erased = e.erased /\ d.removed = e.removed
        /\ d.sip = x /\ d.chan = e.chan
    BY <2>1, SIPEffect
  <2> HIDE DEF d, setGSM, dispatched
  <2>4. "ReleaseRequest" \in GSMState \ {"Paging"}
    BY DEF GSMState
  <2> QED BY <1>1, <2>1, <2>2, <2>3, <2>4
<1>3. CASE m # "Disconnect"
  <2>1. PICK g \in {"MTCConfirmed", "CallReceived", "Active", "Null"} :
          dispatched(e, m) = setGSM(e, g)
    <3> HIDE DEF setGSM
    <3> QED BY <1>3 DEF dispatched
  <2>2. g \in GSMState \ {"Paging"}
    BY DEF GSMState
  <2> HIDE DEF setGSM, dispatched
  <2> QED BY <1>1, <2>1, <2>2
<1> QED  BY <1>2, <1>3

\* StrayFrame(c).
LEMMA StrayFrameStep ==
  ASSUME TypeOK, NEW c \in SDCCH, StrayFrame(c)
  PROVE  Advances(c) \/ Leaves(c)
<1>1. /\ thread[c].pc = "assigning" /\ c \in Channel
      /\ UNCHANGED <<sipMap, sip, pages, queue, heard, count>>
  BY Constants DEF StrayFrame
<1>2. thread[c].id \in ID /\ Mine(c) \in Entry
  BY <1>1, Working
<1>3. table = [table EXCEPT ![thread[c].id] = Mine(c)]
  <2>1. table \in [ID -> Entry]
    BY Tables, Types, SeqDef DEF ID
  <2> QED BY <1>2, <2>1 DEF Mine
<1>4. phone' = Hung(c) =>
        phone' \in [Mobile -> SDCCH \cup TCH \cup {None}] /\ \A m \in Mobile : phone'[m] \in {phone[m], None}
  BY Types DEF Hung
<1>5. UNCHANGED phone =>
        phone' \in [Mobile -> SDCCH \cup TCH \cup {None}] /\ \A m \in Mobile : phone'[m] \in {phone[m], None}
  BY Types
<1>6. ASSUME Strayed(c), UNCHANGED table, UNCHANGED phone \/ phone' = Hung(c)
      PROVE  Advances(c)
  BY <1>1, <1>2, <1>3, <1>4, <1>5, <1>6, StrayedEffect
<1>7. ASSUME Strayed(c), Put(c, forceSIPClearing(Mine(c))), phone' = Hung(c)
      PROVE  Advances(c)
  <2> DEFINE e == forceSIPClearing(Mine(c))
  <2>1. /\ e \in Entry
        /\ e.request = Mine(c).request /\ e.erased = Mine(c).erased
        /\ e.removed = Mine(c).removed /\ e.age = Mine(c).age /\ e.gsm = Mine(c).gsm
        /\ e.chan = Mine(c).chan /\ e.sip \in {Mine(c).sip, "Cleared", "Canceled"}
    BY <1>2, ClearEffect
  <2>2. table' = [table EXCEPT ![thread[c].id] = e]
    BY <1>7 DEF Put
  <2> HIDE DEF e
  <2> QED BY <1>1, <1>4, <1>7, <2>1, <2>2, StrayedEffect
<1>8. ASSUME NEW m \in Strays, m \notin {"Other", "IMSIDetach"}, Strayed(c),
             Put(c, dispatched(Mine(c), m)), UNCHANGED phone
      PROVE  Advances(c)
  <2> DEFINE e == dispatched(Mine(c), m)
  <2>1. m \in {"CallConfirmed", "Alerting", "Connect", "ReleaseComplete", "Disconnect"}
    BY <1>8, MTAssumption
  <2>2. /\ e \in Entry
        /\ e.request = Mine(c).request /\ e.erased = Mine(c).erased
        /\ e.removed = Mine(c).removed /\ e.age = 0 /\ e.gsm \in GSMState \ {"Paging"}
        /\ e.chan = Mine(c).chan /\ e.sip \in {Mine(c).sip, "Cleared", "Canceled"}
    BY <1>2, <2>1, DispatchEffect
  <2>3. table' = [table EXCEPT ![thread[c].id] = e]
    BY <1>8 DEF Put
  <2> HIDE DEF e
  <2> QED BY <1>1, <1>5, <1>8, <2>2, <2>3, StrayedEffect
<1>9. ASSUME Mine(c).removed, Throw(c), UNCHANGED phone
      PROVE  Leaves(c)
  BY <1>1, <1>2, <1>9, ThrowEffect, Types
<1> QED  BY <1>6, <1>7, <1>8, <1>9 DEF StrayFrame

\* SendSetup(c): a TCH is opened.
LEMMA SendSetupStep ==
  ASSUME TypeOK, NEW c \in SDCCH, SendSetup(c)
  PROVE  Advances(c) \/ Leaves(c)
<1>1. thread[c].pc = "begin" /\ Mine(c).request \notin SMS /\ c \in Channel
  BY Constants DEF SendSetup, IsSMS
<1>2. thread[c].id \in ID /\ Mine(c) \in Entry /\ thread[c] \in ThreadState
  BY <1>1, Working
<1>3. PICK t \in FreeTCH :
        /\ queue' = [queue EXCEPT ![t] = <<>>]
        /\ IF Mine(c).removed THEN Throw(c)
           ELSE /\ thread' = [thread EXCEPT ![c].pc = "confirm", ![c].tch = t]
                /\ Put(c, setGSM(Mine(c), "CallPresent"))
  BY DEF SendSetup
<1>4. t \in TCH
  BY DEF FreeTCH
<1>5. /\ queue' \in [TCH -> Seq(Nat)] /\ queue'[t] = <<>>
      /\ \A u \in TCH : queue'[u] \in {queue[u], <<>>}
  BY <1>3, <1>4, Types
<1>6. UNCHANGED <<sipMap, sip, pages, phone, heard, count>>
  BY DEF SendSetup
<1>7. CASE Mine(c).removed
  BY <1>1, <1>2, <1>3, <1>5, <1>6, <1>7, ThrowEffect
<1>8. CASE ~Mine(c).removed
  <2> DEFINE e == setGSM(Mine(c), "CallPresent")
             x == [thread[c] EXCEPT !.pc = "confirm", !.tch = t]
  <2>1. /\ e \in Entry
        /\ e.request = Mine(c).request /\ e.erased = Mine(c).erased
        /\ e.removed = Mine(c).removed
        /\ e.age = 0 /\ e.gsm = "CallPresent" /\ e.sip = Mine(c).sip /\ e.chan = Mine(c).chan
    BY <1>2, GSMEffect DEF GSMState
  <2>2. thread' = [thread EXCEPT ![c] = x] /\ Put(c, e)
    BY <1>2, <1>3, <1>8 DEF ThreadState
  <2>3. x \in ThreadState /\ x.pc = "confirm" /\ x.id = thread[c].id /\ x.tch = t
    BY <1>2, <1>4 DEF ThreadState
  <2> HIDE DEF e, x
  <2>4. /\ table' \in Seq(Entry) /\ ID' = ID
        /\ table'[thread[c].id] = e
        /\ \A i \in ID : i # thread[c].id => table'[i] = table[i]
    BY <1>2, <2>1, <2>2, PutEffect, Types DEF Put
  <2>5. /\ thread' \in [Channel -> ThreadState]
        /\ thread'[c] = x
        /\ \A d \in Channel : d # c => thread'[d] = thread[d]
    BY <1>1, <2>2, <2>3, ThreadEffect
  <2>6. phone' \in [Mobile -> SDCCH \cup TCH \cup {None}]
    BY <1>6, Types
  <2>7. GoesOn(c, e, "confirm")
    BY <1>2, <1>5, <1>6, <1>8, <2>3, <2>4, <2>5, <2>6 DEF GoesOn, Works
  <2>8. Advanced(c, e, "confirm")
    BY <1>1, <2>1 DEF Advanced
  <2> QED BY <2>1, <2>7, <2>8 DEF Advances, ThreadPC
<1> QED  BY <1>7, <1>8

\* Congested(c) and HandOff(c): the entry stays.
LEMMA CongestedStep ==
  ASSUME TypeOK, NEW c \in SDCCH, Congested(c) \/ HandOff(c)
  PROVE  Leaves(c)
<1>1. thread[c].pc \in {"begin", "assigning"} /\ c \in Channel
  BY Constants DEF Congested, HandOff
<1>2. thread[c].id \in ID
  BY <1>1, Working
<1>3. Quit(c) /\ UNCHANGED <<table, sipMap, sip, pages, queue, heard, count>>
  BY DEF Congested, HandOff
<1> QED  BY <1>1, <1>2, <1>3, QuitOnly

\* SMSThrows(c).
LEMMA SMSThrowsStep ==
  ASSUME TypeOK, NEW c \in Channel, SMSThrows(c)
  PROVE  Leaves(c)
<1>1. thread[c].pc = "deliver"
  BY DEF SMSThrows
<1>2. thread[c].id \in ID
  BY <1>1, Working
<1> QED  BY <1>1, <1>2, QuitOnly DEF SMSThrows

\* EndSMS(c).
LEMMA EndSMSStep ==
  ASSUME TypeOK, NEW c \in Channel, EndSMS(c)
  PROVE  Leaves(c)
<1>1. thread[c].pc = "deliver" /\ Quit(c) /\ UNCHANGED <<sipMap, sip, pages, queue, heard, count>>
  BY DEF EndSMS
<1>2. thread[c].id \in ID /\ Mine(c) \in Entry /\ thread[c].pc \notin Loop
  BY <1>1, Working DEF Loop
<1>3. CASE Put(c, remove([Mine(c) EXCEPT !.sip = "Cleared"]))
  <2> DEFINE d == [Mine(c) EXCEPT !.sip = "Cleared"]
             e == remove(d)
  <2>1. /\ d \in Entry
        /\ d.request = Mine(c).request /\ d.erased = Mine(c).erased
        /\ d.removed = Mine(c).removed /\ d.sip = "Cleared" /\ d.gsm = Mine(c).gsm
        /\ d.chan = Mine(c).chan
    BY <1>2, SIPEffect DEF SIPState
  <2>2. Put(c, e)
    BY <1>3
  <2> HIDE DEF d
  <2>3. e \in Entry /\ Ended(c, d, e)
    BY <1>2, <2>1, RemoveEffect
  <2>4. e.sip = d.sip /\ e.age = 0 /\ e.removed = TRUE
    BY <2>1 DEF remove, Entry
  <2> HIDE DEF e
  <2>5. Ended(c, Mine(c), e)
    BY <1>1, <2>1, <2>3, <2>4 DEF Ended
  <2> QED BY <1>1, <1>2, <2>2, <2>3, <2>5, PutAndQuit
<1>4. CASE Put(c, remove(Mine(c)))
  <2>1. remove(Mine(c)) \in Entry /\ Ended(c, Mine(c), remove(Mine(c)))
    BY <1>1, <1>2, RemoveEffect
  <2> HIDE DEF remove
  <2> QED BY <1>1, <1>2, <1>4, <2>1, PutAndQuit
<1>5. CASE UNCHANGED table
  BY <1>1, <1>2, <1>5, QuitOnly
<1> QED  BY <1>3, <1>4, <1>5 DEF EndSMS

\* What abortCall() makes of an entry.
LEMMA AbortEffect ==
  ASSUME NEW e \in Entry
  PROVE  /\ aborted(e) \in Entry
         /\ aborted(e).request = e.request /\ aborted(e).erased = e.erased
         /\ aborted(e).removed = e.removed /\ aborted(e).age = 0
         /\ aborted(e).gsm = "Null" /\ aborted(e).sip \in {e.sip, "Cleared", "Canceled"}
         /\ aborted(e).chan = e.chan
<1> DEFINE d == forceSIPClearing(e)
<1>1. aborted(e) = setGSM(d, "Null")
  BY DEF aborted
<1>2. /\ d \in Entry
      /\ d.request = e.request /\ d.erased = e.erased
      /\ d.removed = e.removed /\ d.sip \in {e.sip, "Cleared", "Canceled"} /\ d.chan = e.chan
  BY ClearEffect
<1> HIDE DEF d
<1>3. LET f == setGSM(d, "Null") IN
        /\ f \in Entry
        /\ f.request = d.request /\ f.erased = d.erased /\ f.removed = d.removed /\ f.age = 0
        /\ f.gsm = "Null" /\ f.sip = d.sip /\ f.chan = d.chan
  BY <1>2, GSMEffect DEF GSMState
<1> HIDE DEF setGSM, aborted
<1> QED  BY <1>1, <1>2, <1>3

\* NotConfirmed(c).
LEMMA NotConfirmedStep ==
  ASSUME TypeOK, NEW c \in SDCCH, NotConfirmed(c)
  PROVE  Leaves(c)
<1>1. /\ thread[c].pc = "confirm" /\ c \in Channel /\ Quit(c)
      /\ UNCHANGED <<sipMap, sip, pages, queue, heard, count>>
  BY Constants DEF NotConfirmed
<1>2. thread[c].id \in ID /\ Mine(c) \in Entry /\ thread[c].pc \notin Loop
  BY <1>1, Working DEF Loop
<1>3. CASE UNCHANGED table
  BY <1>1, <1>2, <1>3, QuitOnly
<1>4. CASE Put(c, aborted(Mine(c)))
  <2> DEFINE e == aborted(Mine(c))
  <2>1. /\ e \in Entry
        /\ e.request = Mine(c).request /\ e.erased = Mine(c).erased
        /\ e.removed = Mine(c).removed /\ e.age = 0
        /\ e.gsm = "Null" /\ e.sip \in {Mine(c).sip, "Cleared", "Canceled"} /\ e.chan = Mine(c).chan
    BY <1>2, AbortEffect
  <2>2. Put(c, e)
    BY <1>4
  <2> HIDE DEF e
  <2>3. Ended(c, Mine(c), e)
    BY <1>1, <1>2, <2>1 DEF Ended
  <2> QED BY <1>1, <1>2, <2>1, <2>2, <2>3, PutAndQuit
<1> QED  BY <1>3, <1>4 DEF NotConfirmed

\* Abandon(c).
LEMMA AbandonStep ==
  ASSUME TypeOK, NEW c \in Channel, Abandon(c)
  PROVE  Leaves(c)
<1>1. /\ thread[c].pc \in {"confirm", "alerting", "connecting"} /\ Quit(c)
      /\ UNCHANGED <<sipMap, sip, pages, queue, heard, count>>
      /\ Put(c, abortedAndRemoved(Mine(c)))
  BY DEF Abandon
<1>2. thread[c].id \in ID /\ Mine(c) \in Entry /\ thread[c].pc \notin Loop
  BY <1>1, Working DEF Loop
<1>3. CASE deadOrRemoved(Mine(c))
  <2>1. Put(c, Mine(c))
    BY <1>1, <1>3 DEF abortedAndRemoved
  <2>2. Ended(c, Mine(c), Mine(c))
    BY <1>3, KeptEffect DEF deadOrRemoved
  <2> QED BY <1>1, <1>2, <2>1, <2>2, PutAndQuit
<1>4. CASE ~deadOrRemoved(Mine(c))
  <2> DEFINE d == aborted(Mine(c))
             e == remove(d)
  <2>1. /\ d \in Entry
        /\ d.request = Mine(c).request /\ d.erased = Mine(c).erased
        /\ d.removed = Mine(c).removed
        /\ d.gsm = "Null" /\ d.sip \in {Mine(c).sip, "Cleared", "Canceled"} /\ d.chan = Mine(c).chan
    BY <1>2, AbortEffect
  <2>2. Put(c, e)
    BY <1>1, <1>4 DEF abortedAndRemoved
  <2> HIDE DEF d
  <2>3. e \in Entry
    BY <1>2, <2>1, RemoveEffect
  <2>4. /\ e.request = d.request /\ e.erased = d.erased /\ e.removed = TRUE
        /\ e.gsm = d.gsm /\ e.sip = d.sip /\ e.age = 0 /\ e.chan = d.chan
    BY <2>1 DEF remove, Entry
  <2> HIDE DEF e
  <2>5. Ended(c, Mine(c), e)
    BY <1>1, <1>2, <2>1, <2>4 DEF Ended
  <2> QED BY <1>1, <1>2, <2>2, <2>3, <2>5, PutAndQuit
<1> QED  BY <1>3, <1>4

\* AssignmentFails(c): both channels are released.
LEMMA AssignmentFailsStep ==
  ASSUME TypeOK, NEW c \in SDCCH, AssignmentFails(c)
  PROVE  Leaves(c)
<1>1. /\ thread[c].pc = "again" /\ c \in Channel
      /\ UNCHANGED <<sipMap, sip, pages, queue, heard, count>>
      /\ thread' = [thread EXCEPT ![c] = ThreadIdle]
      /\ phone' = [m \in Mobile |-> IF phone[m] \in {c, thread[c].tch} THEN None ELSE phone[m]]
  BY Constants DEF AssignmentFails
<1>2. thread[c].id \in ID /\ Mine(c) \in Entry
  BY <1>1, Working
<1>3. /\ thread' \in [Channel -> ThreadState]
      /\ thread'[c] = ThreadIdle
      /\ \A d \in Channel : d # c => thread'[d] = thread[d]
  BY <1>1, ThreadEffect, Idle
<1>4. /\ phone' \in [Mobile -> SDCCH \cup TCH \cup {None}]
      /\ \A m \in Mobile : phone'[m] \in {phone[m], None}
  BY <1>1, Types
<1>5. queue' \in [TCH -> Seq(Nat)]
  BY <1>1, Types
<1>6. ASSUME NEW e, table' \in Seq(Entry), ID' = ID, table'[thread[c].id] = e,
             \A i \in ID : i # thread[c].id => table'[i] = table[i], Ended(c, Mine(c), e)
      PROVE  Leaves(c)
  BY <1>1, <1>2, <1>3, <1>4, <1>5, <1>6 DEF Leaves, Works
<1>7. CASE Mine(c).removed
  <2>1. UNCHANGED table
    BY <1>7 DEF AssignmentFails
  <2>2. Ended(c, Mine(c), Mine(c))
    BY <1>1, KeptEffect
  <2> QED BY <1>6, <2>1, <2>2, SameTable DEF Mine
<1>8. CASE ~Mine(c).removed
  <2> DEFINE d == [Mine(c) EXCEPT !.chan = None]
             e == forceSIPClearing(d)
  <2>1. /\ d \in Entry
        /\ d.request = Mine(c).request /\ d.erased = Mine(c).erased
        /\ d.removed = Mine(c).removed /\ d.age = Mine(c).age
        /\ d.gsm = Mine(c).gsm /\ d.sip = Mine(c).sip /\ d.chan = None
    BY <1>2, ChanEffect
  <2>2. table' = [table EXCEPT ![thread[c].id] = e]
    BY <1>8 DEF AssignmentFails, Put
  <2> HIDE DEF d
  <2>3. /\ e \in Entry
        /\ e.request = d.request /\ e.erased = d.erased /\ e.removed = d.removed
        /\ e.age = d.age /\ e.gsm = d.gsm /\ e.chan = d.chan
        /\ e.sip \in {d.sip, "Cleared", "Canceled"}
    BY <2>1, ClearEffect
  <2> HIDE DEF e
  <2>4. /\ table' \in Seq(Entry) /\ ID' = ID
        /\ table'[thread[c].id] = e
        /\ \A i \in ID : i # thread[c].id => table'[i] = table[i]
    BY <1>2, <2>2, <2>3, PutEffect, Types
  <2>5. Ended(c, Mine(c), e)
    BY <1>1, <2>1, <2>3 DEF Ended
  <2> QED BY <1>6, <2>4, <2>5
<1> QED  BY <1>7, <1>8

\* EndCall(t).
LEMMA EndCallStep ==
  ASSUME TypeOK, NEW c \in TCH, EndCall(c)
  PROVE  Leaves(c)
<1>1. /\ thread[c].pc = "call" /\ c \in Channel /\ Quit(c)
      /\ UNCHANGED <<sipMap, sip, pages, queue, heard, count>>
  BY Constants DEF EndCall
<1>2. thread[c].id \in ID /\ Mine(c) \in Entry /\ thread[c].pc \notin Loop
  BY <1>1, Working DEF Loop
<1>3. CASE deadOrRemoved(Mine(c))
  BY <1>1, <1>2, <1>3, QuitOnly DEF EndCall, deadOrRemoved
<1>4. CASE ~deadOrRemoved(Mine(c))
  <2> DEFINE d == [Mine(c) EXCEPT !.sip = "Cleared"]
             f == setGSM(d, "Null")
             e == remove(f)
  <2>1. /\ d \in Entry
        /\ d.request = Mine(c).request /\ d.erased = Mine(c).erased
        /\ d.removed = Mine(c).removed /\ d.sip = "Cleared" /\ d.chan = Mine(c).chan
    BY <1>2, SIPEffect DEF SIPState
  <2>2. Put(c, e)
    BY <1>4 DEF EndCall
  <2> HIDE DEF d
  <2>3. /\ f \in Entry
        /\ f.request = d.request /\ f.erased = d.erased /\ f.removed = d.removed
        /\ f.gsm = "Null" /\ f.sip = d.sip /\ f.chan = d.chan
    BY <2>1, GSMEffect DEF GSMState
  <2> HIDE DEF f
  <2>4. e \in Entry
    BY <1>1, <1>2, <2>3, RemoveEffect
  <2>5. /\ e.request = f.request /\ e.erased = f.erased /\ e.removed = TRUE
        /\ e.gsm = f.gsm /\ e.sip = f.sip /\ e.age = 0 /\ e.chan = f.chan
    BY <2>3 DEF remove, Entry
  <2> HIDE DEF e
  <2>6. Ended(c, Mine(c), e)
    BY <1>1, <1>2, <2>1, <2>3, <2>5 DEF Ended
  <2> QED BY <1>1, <1>2, <2>2, <2>4, <2>6, PutAndQuit
<1> QED  BY <1>3, <1>4

\* A step of the thread of a channel is one of a controller that goes on with its entry or
\* leaves it, or one that gives an entry to a thread or a phone to a channel.
LEMMA ThreadSteps ==
  ASSUME TypeOK, TCHPlaces, NEW c \in Channel, ThreadStep(c)
  PROVE  \/ Leaves(c)
         \/ Advances(c)
         \/ c \in SDCCH /\ (RemovePage(c) \/ answeredPaging(c) \/ Move(c))
         \/ c \in TCH /\ AssignmentComplete(c)
         \/ \E t \in TCH : c = SACCH(t) /\ InCallSMS(t)
<1>1. CASE c \in SDCCH /\ DCCHThread(c)
  BY <1>1, AttachStep, CongestedStep, SendSetupStep, CallConfirmedStep, NotConfirmedStep,
     AssignStep, AssignAgainStep, StrayFrameStep, AssignmentFailsStep DEF DCCHThread
<1>2. CASE c \in TCH /\ TCHThread(c)
  BY <1>2, AlertingStep, ConnectStep, ReceiveACKStep, EndCallStep DEF TCHThread
<1>3. CASE AnyThread(c)
  BY <1>3, BeginSMSStep, EndSMSStep, SMSThrowsStep, AbandonStep DEF AnyThread
<1> QED  BY <1>1, <1>2, <1>3 DEF ThreadStep

----------------------------------------------------------------------------
(* Types and indices *)

Unworked == {"idle", "response", "answer", "complete"}

\* The types in the next state, conjunct by conjunct.
LEMMA TypeStep ==
  ASSUME table' \in Seq(Entry), sipMap' \subseteq Request, sip' \in SIPThreadState,
         pages' \in [Mobile -> Nat], thread' \in [Channel -> ThreadState],
         \A c \in Channel : thread'[c].id \in IF thread'[c].pc \in Unworked THEN {0} ELSE ID',
         queue' \in [TCH -> Seq(Nat)], phone' \in [Mobile -> SDCCH \cup TCH \cup {None}],
         heard' \subseteq Mobile, count' \in [Request -> Nat]
  PROVE  TypeOK'
  BY DEF TypeOK, SIPThreadState, ThreadState, Unworked

\* A step that leaves the threads, the phones, the queues and the entries' IDs alone.
LEMMA TypeKept ==
  ASSUME TypeOK, Indices, table' \in Seq(Entry), ID' = ID, sipMap' \subseteq Request,
         sip' \in SIPThreadState, UNCHANGED <<pages, thread, queue, phone>>,
         IF sip'.pc \in {"trying", "page", "list"} THEN sip'.id \in ID ELSE sip'.id = 0,
         sip'.chan = None \/ \E t \in TCH : sip'.chan = SACCH(t),
         heard' \subseteq Mobile, count' \in [Request -> Nat]
  PROVE  TypeOK' /\ Indices'
<1>1. TypeOK'
  BY TypeStep, Types DEF Unworked
<1> QED  BY <1>1 DEF Indices

\* A search of the table leaves its types and indices as they are.
LEMMA ScanTypes ==
  ASSUME TypeOK
  PROVE  FIFOsKept \subseteq sipMap /\ FIFOsKept \subseteq Request
  BY Types DEF FIFOsKept

\* A controller's work between messages renames no entry of the SIP thread or the queues.
LEMMA IndicesKept ==
  ASSUME Indices, NEW c \in Channel, Works(c)
  PROVE  Indices'
  BY DEF Works, Indices

\* A controller that gives its entry up keeps types and indices.
LEMMA TypesLeaves ==
  ASSUME TypeOK, Indices, NEW c \in Channel, Leaves(c)
  PROVE  TypeOK' /\ Indices'
<1>1. Works(c) /\ thread'[c] = ThreadIdle
  BY DEF Leaves
<1>2. \A d \in Channel : thread'[d].id \in IF thread'[d].pc \in Unworked THEN {0} ELSE ID'
  BY <1>1, Types, Idle DEF Works, Unworked
<1>3. TypeOK'
  BY <1>1, <1>2, TypeStep, Types DEF Works
<1> QED  BY <1>1, <1>3, IndicesKept

\* A controller that goes on to its next wait keeps types and indices.
LEMMA TypesAdvances ==
  ASSUME TypeOK, Indices, NEW c \in Channel, Advances(c)
  PROVE  TypeOK' /\ Indices'
<1>1. PICK e \in Entry, pc \in ThreadPC : GoesOn(c, e, pc) /\ Advanced(c, e, pc)
  BY DEF Advances
<1>2. /\ Works(c) /\ thread'[c].pc = pc /\ thread'[c].id = thread[c].id /\ thread[c].id \in ID
      /\ pc \notin Unworked
  BY <1>1 DEF GoesOn, Advanced, Unworked
<1>3. \A d \in Channel : thread'[d].id \in IF thread'[d].pc \in Unworked THEN {0} ELSE ID'
  BY <1>2, Types DEF Works, Unworked
<1>4. TypeOK'
  BY <1>2, <1>3, TypeStep, Types DEF Works
<1> QED  BY <1>2, <1>4, IndicesKept

\* RemovePage(c).
LEMMA TypesRemovePage ==
  ASSUME TypeOK, Indices, NEW c \in Channel, RemovePage(c)
  PROVE  TypeOK' /\ Indices'
<1>1. /\ thread' \in [Channel -> ThreadState]
      /\ thread'[c] = [thread[c] EXCEPT !.pc = "answer"]
      /\ \A d \in Channel : d # c => thread'[d] = thread[d]
  BY GoEffect DEF RemovePage, ThreadPC
<1>2. thread'[c].pc = "answer" /\ thread'[c].id = 0
  BY <1>1, Types DEF RemovePage, ThreadState
<1>3. UNCHANGED <<table, sipMap, sip, queue, phone, heard, count>> /\ table' \in Seq(Entry) /\ ID' = ID
  BY SameTable DEF RemovePage
<1>4. \A d \in Channel : thread'[d].id \in IF thread'[d].pc \in Unworked THEN {0} ELSE ID'
  BY <1>1, <1>2, <1>3, Types DEF Unworked
<1>5. pages' = [pages EXCEPT ![thread[c].mobile] = 0]
  BY DEF RemovePage
<1>6. pages' \in [Mobile -> Nat] /\ \A m \in Mobile : pages'[m] \in {pages[m], 0}
  BY <1>5, Types
<1>7. TypeOK'
  BY <1>1, <1>3, <1>4, <1>6, TypeStep, Types
<1>8. Indices'
  BY <1>3, <1>6 DEF Indices
<1> QED  BY <1>7, <1>8

\* The least and the largest of a set of IDs are in it.
LEMMA Firsts ==
  ASSUME NEW n \in Nat, NEW S \in SUBSET (1..n)
  PROVE  /\ First(S) = 0 => S = {}
         /\ First(S) # 0 => First(S) \in S
         /\ Last(S) = 0 => S = {}
         /\ Last(S) # 0 => Last(S) \in S
<1> DEFINE R == OpToRel(<, Nat)
<1>1. \A T \in SUBSET Nat : T # {} => \E x \in T : \A y \in T : x <= y
  <2>1. SUFFICES ASSUME NEW T \in SUBSET Nat, T # {}
                 PROVE  \E x \in T : \A y \in T : x <= y
    OBVIOUS
  <2>2. IsWellFoundedOn(R, Nat)
    BY NatLessThanWellFounded
  <2>3. \A x, y \in Nat : <<y, x>> \in R <=> y < x
    BY DEF OpToRel
  <2> HIDE DEF R
  <2>4. PICK x \in T : \A y \in T : <<y, x>> \notin R
    BY <2>1, <2>2, WFMin
  <2>5. \A y \in T : ~(y < x)
    BY <2>3, <2>4
  <2>6. ASSUME NEW y \in T  PROVE x <= y
    BY <2>5
  <2> QED BY <2>6
<1>2. CASE S = {}
  BY <1>2 DEF First, Last
<1>3. CASE S # {}
  <2>1. PICK x \in S : \A y \in S : x <= y
    BY <1>1, <1>3
  <2>2. First(S) \in S
    BY <1>3, <2>1 DEF First
  <2> DEFINE T == {k \in Nat : n - k \in S}
  <2>3. PICK i \in S : TRUE
    BY <1>3
  <2>4. n - i \in T
    OBVIOUS
  <2>5. PICK k \in T : \A y \in T : k <= y
    BY <1>1, <2>4
  <2>6. n - k \in S
    OBVIOUS
  <2>7. \A y \in S : n - k >= y
    <3>1. TAKE y \in S
    <3>2. n - y \in T
      OBVIOUS
    <3>3. k <= n - y
      BY <2>5, <3>2
    <3> QED BY <3>3
  <2>8. Last(S) \in S
    BY <1>3, <2>6, <2>7 DEF Last
  <2> QED BY <2>2, <2>8
<1> QED  BY <1>2, <1>3

\* What the searches of the table find.
LEMMA Searches ==
  ASSUME TypeOK
  PROVE  /\ \A r : LET i == findByCallID(r) IN
              IF i = 0 THEN \A j \in Live(table) : table[j].request # r
              ELSE i \in Live(table) /\ table[i].request = r
         /\ \A m : LET i == pagingOf(m) IN
              i # 0 => i \in Live(table) /\ table[i].gsm = "Paging"
         /\ \A c : LET i == findByChannel(c) IN
              i # 0 => i \in Live(table) /\ table[i].chan = c
         /\ \A m : LET c == findChannel(m) IN c \in SDCCH \cup TCH \cup {None}
         /\ Live(table) \subseteq ID
<1>1. Len(table) \in Nat /\ ID = 1..Len(table)
  BY Tables, Types
<1>2. Live(table) \subseteq 1..Len(table)
  BY <1>1 DEF Live, ID
<1>3. ASSUME NEW r
      PROVE  LET i == findByCallID(r) IN
              IF i = 0 THEN \A j \in Live(table) : table[j].request # r
              ELSE i \in Live(table) /\ table[i].request = r
  <2> DEFINE S == {i \in Live(table) : table[i].request = r}
  <2>1. S \in SUBSET (1..Len(table))
    BY <1>2
  <2>2. findByCallID(r) = First(S)
    BY DEF findByCallID
  <2> HIDE DEF S
  <2>3. (First(S) = 0 => S = {}) /\ (First(S) # 0 => First(S) \in S)
    BY <1>1, <2>1, Firsts
  <2> QED BY <2>2, <2>3 DEF S
<1>4. ASSUME NEW m
      PROVE  LET i == pagingOf(m) IN i # 0 => i \in Live(table) /\ table[i].gsm = "Paging"
  <2> DEFINE S == {i \in Live(table) : MobileOf(i) = m /\ table[i].gsm = "Paging"}
  <2>1. S \in SUBSET (1..Len(table))
    BY <1>2
  <2>2. pagingOf(m) = First(S)
    BY DEF pagingOf
  <2> HIDE DEF S
  <2>3. First(S) # 0 => First(S) \in S
    BY <1>1, <2>1, Firsts
  <2> QED BY <2>2, <2>3 DEF S
<1>5. ASSUME NEW c
      PROVE  LET i == findByChannel(c) IN i # 0 => i \in Live(table) /\ table[i].chan = c
  <2> DEFINE S == {i \in Live(table) : table[i].chan = c}
  <2>1. S \in SUBSET (1..Len(table))
    BY <1>2
  <2>2. findByChannel(c) = Last(S)
    BY DEF findByChannel
  <2> HIDE DEF S
  <2>3. Last(S) # 0 => Last(S) \in S
    BY <1>1, <2>1, Firsts
  <2> QED BY <2>2, <2>3 DEF S
<1>6. ASSUME NEW m
      PROVE  findChannel(m) \in SDCCH \cup TCH \cup {None}
  <2> DEFINE S == {j \in Live(table) : MobileOf(j) = m /\ table[j].chan \in SDCCH \cup TCH}
  <2>1. S \in SUBSET (1..Len(table))
    BY <1>2
  <2>2. findChannel(m) = IF First(S) = 0 THEN None ELSE table[First(S)].chan
    BY DEF findChannel
  <2> HIDE DEF S
  <2>3. First(S) # 0 => First(S) \in S
    BY <1>1, <2>1, Firsts
  <2> QED BY <2>2, <2>3 DEF S
<1> QED  BY <1>1, <1>2, <1>3, <1>4, <1>5, <1>6

----------------------------------------------------------------------------
(* What the other steps do *)

\* The table is swept, field by field.
Swept ==
  /\ table' \in Seq(Entry) /\ ID' = ID
  /\ \A i \in ID :
       /\ table'[i].request = table[i].request /\ table'[i].gsm = table[i].gsm
       /\ table'[i].sip = table[i].sip /\ table'[i].age = table[i].age
       /\ table'[i].removed = table[i].removed /\ table'[i].chan = table[i].chan
       /\ table'[i].erased <=> table[i].erased \/ dead(table[i])

\* clearDeadEntries() deletes the dead entries, and touches no other field.
LEMMA SweptEffect ==
  ASSUME TypeOK, table' = clearDeadEntries
  PROVE  Swept
<1>1. table' \in Seq(Entry) /\ ID' = ID
  BY ScanEffect, Types DEF ID
<1> QED  BY <1>1, ScanEffect, Types DEF Swept

\* One entry changes.
LEMMA OtherEntries ==
  ASSUME TypeOK, NEW k \in ID, NEW e \in Entry, table' = [table EXCEPT ![k] = e]
  PROVE  /\ table' \in Seq(Entry) /\ ID' = ID
         /\ table'[k] = e
         /\ \A i \in ID : i # k => table'[i] = table[i]
  BY PutEffect, Types

\* Tick(i).
LEMMA TickEffect ==
  ASSUME TypeOK, NEW k \in ID, Tick(k)
  PROVE  /\ table' \in Seq(Entry) /\ ID' = ID
         /\ \A i \in ID : i # k => table'[i] = table[i]
         /\ table'[k].request = table[k].request /\ table'[k].gsm = table[k].gsm
         /\ table'[k].sip = table[k].sip /\ table'[k].chan = table[k].chan
         /\ table'[k].removed = table[k].removed /\ table'[k].erased = table[k].erased
         /\ table'[k].age = table[k].age + 1
<1> DEFINE e == [table[k] EXCEPT !.age = @ + 1]
<1>1. table[k] \in Entry /\ table[k].age < 2
  BY Tables, Types DEF Tick
<1>2. table[k].age + 1 \in 0..2
  BY <1>1 DEF Entry
<1>3. /\ e \in Entry
      /\ e.request = table[k].request /\ e.gsm = table[k].gsm
      /\ e.sip = table[k].sip /\ e.chan = table[k].chan
      /\ e.removed = table[k].removed /\ e.erased = table[k].erased
      /\ e.age = table[k].age + 1
  BY <1>1, <1>2 DEF Entry
<1>4. table' = [table EXCEPT ![k] = e]
  BY DEF Tick
<1> HIDE DEF e
<1> QED  BY <1>3, <1>4, OtherEntries

\* Invite(r): the channel that is looked for is the SACCH of a call.
LEMMA InviteEffect ==
  ASSUME TypeOK, NEW r \in Request, Invite(r)
  PROVE  /\ Swept /\ sipMap' = FIFOsKept
         /\ sip.pc = "idle"
         /\ sip' \in SIPThreadState
         /\ sip'.pc = "invite" /\ sip'.request = r /\ sip'.id = 0
         /\ sip'.chan # None => r \in SMS /\ \E t \in TCH : sip'.chan = SACCH(t)
         /\ count' \in [Request -> Nat]
         /\ count'[r] = count[r] + 1
         /\ \A q \in Request : q # r => count'[q] = count[q]
         /\ UNCHANGED <<pages, thread, queue, phone, heard>>
<1> DEFINE d == findChannel(Subscriber[r])
           x == IF r \in SMS /\ d \in TCH THEN SACCH(d) ELSE None
<1>1. sip' = [SIPIdle EXCEPT !.pc = "invite", !.request = r, !.chan = x]
  BY DEF Invite
<1>2. x # None => r \in SMS /\ \E t \in TCH : x = SACCH(t)
  OBVIOUS
<1>3. x \in Channel \cup {None}
  BY <1>2, Constants
<1> HIDE DEF x
<1>4. sip' \in SIPThreadState
  BY <1>1, <1>3, Idle DEF SIPThreadState
<1>5. sip'.pc = "invite" /\ sip'.request = r /\ sip'.id = 0 /\ sip'.chan = x
  BY <1>1, Idle DEF SIPThreadState
<1>6. count \in [Request -> Nat] /\ count' = [count EXCEPT ![r] = @ + 1]
  BY Types DEF Invite
<1>7. table' = clearDeadEntries /\ sipMap' = FIFOsKept
  BY DEF Invite, Scan
<1> QED  BY <1>2, <1>4, <1>5, <1>6, <1>7, SweptEffect DEF Invite

\* Repeated: the entry that is found, or none.
LEMMA RepeatedEffect ==
  ASSUME TypeOK, Repeated
  PROVE  /\ Swept /\ sip.pc = "invite" /\ sip.request \in sipMap
         /\ UNCHANGED <<pages, thread, queue, phone, heard, count>>
         /\ \/ /\ sip' = SIPIdle
               /\ sipMap' = FIFOsKept \ {sip.request}
               /\ \A j \in Live(table) : table[j].request # sip.request
            \/ /\ sip' \in SIPThreadState
               /\ sip'.pc = "trying" /\ sip'.request = sip.request /\ sip'.chan = sip.chan
               /\ sip'.id \in Live(table) /\ table[sip'.id].request = sip.request
               /\ sipMap' = FIFOsKept
<1>1. table' = clearDeadEntries /\ sip.pc = "invite" /\ sip.request \in sipMap
  BY DEF Repeated
<1> DEFINE i == findByCallID(sip.request)
<1>2. IF i = 0 THEN \A j \in Live(table) : table[j].request # sip.request
      ELSE i \in Live(table) /\ table[i].request = sip.request
  BY Searches
<1>3. CASE i = 0
  <2>1. sip' = SIPIdle /\ sipMap' = FIFOsKept \ {sip.request}
    BY <1>3 DEF Repeated
  <2> QED BY <1>1, <1>2, <1>3, <2>1, SweptEffect DEF Repeated
<1>4. CASE i # 0
  <2>1. sip' = [sip EXCEPT !.pc = "trying", !.id = i] /\ sipMap' = FIFOsKept
    BY <1>4 DEF Repeated
  <2>2. i \in Nat
    BY <1>2, <1>4, Searches, Tables, Types
  <2> HIDE DEF i
  <2>3. /\ sip' \in SIPThreadState
        /\ sip'.pc = "trying" /\ sip'.request = sip.request /\ sip'.chan = sip.chan
        /\ sip'.id = i
    BY <2>1, <2>2, Types DEF SIPThreadState
  <2> QED BY <1>1, <1>2, <1>4, <2>1, <2>3, SweptEffect DEF Repeated
<1> QED  BY <1>3, <1>4

\* The SIP thread is lost.
LEMMA ThrownEffect ==
  Thrown \in SIPThreadState /\ Thrown.pc = "thrown" /\ Thrown.id = 0 /\ Thrown.chan = None
  BY Idle DEF Thrown, SIPThreadState

\* SendTrying: it goes on to page, is done, or is lost.
LEMMA SendTryingEffect ==
  ASSUME TypeOK, Indices, SendTrying
  PROVE  /\ sip.pc = "trying" /\ sip.id \in ID
         /\ UNCHANGED <<sipMap, pages, thread, queue, phone, heard, count>>
         /\ table' \in Seq(Entry) /\ ID' = ID
         /\ \A i \in ID : i # sip.id => table'[i] = table[i]
         /\ table'[sip.id].request = table[sip.id].request
         /\ table'[sip.id].gsm = table[sip.id].gsm
         /\ table'[sip.id].sip \in {table[sip.id].sip, "Proceeding"}
         /\ table'[sip.id].chan = table[sip.id].chan
         /\ table'[sip.id].removed = table[sip.id].removed
         /\ table'[sip.id].erased = table[sip.id].erased
         /\ table'[sip.id].age = table[sip.id].age
         /\ sip' \in SIPThreadState
         /\ sip'.chan \in {sip.chan, None}
         /\ \/ sip'.pc = "page" /\ sip'.id = sip.id
            \/ sip'.pc \in {"idle", "thrown"} /\ sip'.id = 0
<1>1. /\ sip.pc = "trying" /\ sip.id \in ID
      /\ UNCHANGED <<sipMap, pages, thread, queue, phone, heard, count>>
  BY DEF SendTrying, Indices
<1>2. CASE table[sip.id].removed
  <2>1. sip' = Thrown /\ UNCHANGED table
    BY <1>2 DEF SendTrying
  <2> QED BY <1>1, <2>1, ThrownEffect, SameTable
<1>3. CASE ~table[sip.id].removed
  <2> DEFINE e == [table[sip.id] EXCEPT !.sip = "Proceeding"]
  <2>1. table' = [table EXCEPT ![sip.id] = e]
    BY <1>3 DEF SendTrying
  <2>2. table[sip.id] \in Entry
    BY <1>1, Tables, Types
  <2>3. /\ e \in Entry
        /\ e.request = table[sip.id].request /\ e.erased = table[sip.id].erased
        /\ e.removed = table[sip.id].removed
        /\ e.age = table[sip.id].age /\ e.gsm = table[sip.id].gsm /\ e.sip = "Proceeding"
        /\ e.chan = table[sip.id].chan
    BY <2>2, SIPEffect DEF SIPState
  <2> HIDE DEF e
  <2>4. /\ table' \in Seq(Entry) /\ ID' = ID /\ table'[sip.id] = e
        /\ \A i \in ID : i # sip.id => table'[i] = table[i]
    BY <1>1, <2>1, <2>3, OtherEntries
  <2>5. sip' = IF sip.chan = None THEN [sip EXCEPT !.pc = "page"] ELSE SIPIdle
    BY <1>3 DEF SendTrying
  <2>6. /\ sip' \in SIPThreadState /\ sip'.chan \in {sip.chan, None}
        /\ \/ sip'.pc = "page" /\ sip'.id = sip.id
           \/ sip'.pc = "idle" /\ sip'.id = 0
    BY <2>5, Idle, Types DEF SIPThreadState
  <2> QED BY <1>1, <2>3, <2>4, <2>6
<1> QED  BY <1>2, <1>3

\* Refuse: the SIP thread is done; the table may have been swept.
LEMMA RefuseEffect ==
  ASSUME TypeOK, Refuse
  PROVE  /\ sip.pc = "invite" /\ sip' = SIPIdle
         /\ UNCHANGED <<pages, thread, queue, phone, heard, count>>
         /\ \/ UNCHANGED <<table, sipMap>>
            \/ Swept /\ sipMap' = FIFOsKept
  BY SweptEffect DEF Refuse, Scan

\* An entry k is added.
Added(k) ==
  /\ sip.pc = "invite" /\ sip.request \notin sipMap
  /\ UNCHANGED <<pages, thread, phone, heard, count>>
  /\ k \notin ID /\ k \in Nat /\ k # 0
  /\ table' \in Seq(Entry) /\ ID' = ID \cup {k}
  /\ \A i \in ID :
       /\ table'[i].request = table[i].request /\ table'[i].gsm = table[i].gsm
       /\ table'[i].sip = table[i].sip /\ table'[i].age = table[i].age
       /\ table'[i].removed = table[i].removed /\ table'[i].chan = table[i].chan
  /\ table'[k].request = sip.request /\ table'[k].gsm = "Null"
  /\ table'[k].sip \in {"Null", "Proceeding"} /\ table'[k].age = 0
  /\ ~table'[k].removed /\ ~table'[k].erased /\ table'[k].chan = sip.chan

\* Its phone is to be paged.
NewPaged(k) ==
  /\ Added(k)
  /\ \A i \in ID : table'[i].erased <=> table[i].erased \/ dead(table[i])
  /\ sip.chan = None
  /\ sipMap' = FIFOsKept \cup {sip.request}
  /\ sip' \in SIPThreadState
  /\ sip'.pc = "page" /\ sip'.id = k /\ sip'.chan = None
  /\ UNCHANGED queue

\* It waits for a SACCH.
NewQueued(k) ==
  /\ Added(k)
  /\ \A i \in ID : table'[i].erased = table[i].erased
  /\ sipMap' = sipMap \cup {sip.request}
  /\ sip' = SIPIdle
  /\ \E t \in TCH : /\ sip.chan = SACCH(t)
                    /\ queue' = [queue EXCEPT ![t] = Append(@, k)]

\* NewTransaction, for a phone to page or for a channel in use.
LEMMA NewTransactionEffect ==
  ASSUME TypeOK, Indices, NewTransaction
  PROVE  \E k : NewPaged(k) \/ NewQueued(k)
<1> DEFINE k == Len(table) + 1
           r == sip.request
           new == [request |-> r, gsm |-> "Null",
                   sip |-> IF r \in SMS THEN "Null" ELSE "Proceeding",
                   age |-> 0, removed |-> FALSE, erased |-> FALSE, chan |-> sip.chan]
<1>1. /\ sip.pc = "invite" /\ r \notin sipMap
      /\ UNCHANGED <<pages, thread, phone, heard, count>>
  BY DEF NewTransaction
<1>2. Len(table) \in Nat /\ ID = 1..Len(table)
  BY Tables, Types
<1>3. sip \in SIPThreadState
  BY Types
<1>4. /\ new \in Entry
      /\ new.request = r /\ new.gsm = "Null" /\ new.sip \in {"Null", "Proceeding"}
      /\ new.age = 0 /\ ~new.removed /\ ~new.erased /\ new.chan = sip.chan
  <2>1. 0 \in 0..2
    OBVIOUS
  <2>2. new.sip \in {"Null", "Proceeding"}
    OBVIOUS
  <2> QED BY <1>3, <2>1, <2>2 DEF Entry, SIPThreadState, GSMState, SIPState
<1>5. \/ /\ sip.chan = None
         /\ table' = Append(clearDeadEntries, new)
         /\ sipMap' = FIFOsKept \cup {r}
         /\ sip' = [sip EXCEPT !.pc = "page", !.id = k]
         /\ UNCHANGED queue
      \/ /\ sip.chan # None
         /\ table' = Append(table, new)
         /\ sipMap' = sipMap \cup {r}
         /\ sip' = SIPIdle
         /\ queue' = [queue EXCEPT ![sip.chan[2]] = Append(@, k)]
  BY DEF NewTransaction
<1>6. k \notin ID /\ k \in Nat /\ k # 0
  BY <1>2
<1> HIDE DEF new
<1>7. ASSUME NEW tab \in Seq(Entry), DOMAIN tab = ID, table' = Append(tab, new)
      PROVE  /\ table' \in Seq(Entry) /\ ID' = ID \cup {k}
             /\ table'[k] = new
             /\ \A i \in ID : table'[i] = tab[i]
  <2>1. Len(tab) = Len(table)
    BY <1>2, <1>7
  <2>2. table' \in Seq(Entry) /\ DOMAIN table' = 1..(Len(table) + 1)
    BY <1>2, <1>4, <1>7, <2>1
  <2>3. ID' = ID \cup {k}
    BY <1>2, <2>2 DEF ID
  <2> QED BY <1>2, <1>4, <1>7, <2>1, <2>2, <2>3
<1>8. CASE /\ sip.chan = None
           /\ table' = Append(clearDeadEntries, new)
           /\ sipMap' = FIFOsKept \cup {r}
           /\ sip' = [sip EXCEPT !.pc = "page", !.id = k]
           /\ UNCHANGED queue
  <2>1. /\ table' \in Seq(Entry) /\ ID' = ID \cup {k}
        /\ table'[k] = new
        /\ \A i \in ID : table'[i] = clearDeadEntries[i]
    BY <1>7, <1>8, ScanEffect, Types
  <2> HIDE DEF k
  <2>2. ASSUME NEW i \in ID
        PROVE /\ table'[i].request = table[i].request /\ table'[i].gsm = table[i].gsm
              /\ table'[i].sip = table[i].sip /\ table'[i].age = table[i].age
              /\ table'[i].removed = table[i].removed /\ table'[i].chan = table[i].chan
              /\ table'[i].erased <=> table[i].erased \/ dead(table[i])
    <3>1. table'[i] = swept(i)
      BY <2>1, ScanEffect, Types
    <3> QED BY <3>1, ScanEffect, Types
  <2>3. /\ sip' \in SIPThreadState
        /\ sip'.pc = "page" /\ sip'.id = k /\ sip'.chan = None
    BY <1>3, <1>6, <1>8 DEF SIPThreadState
  <2>4. Added(k)
    BY <1>1, <1>4, <1>6, <2>1, <2>2 DEF Added
  <2>5. NewPaged(k)
    BY <1>8, <2>2, <2>3, <2>4 DEF NewPaged
  <2> QED BY <2>5
<1>9. CASE /\ sip.chan # None
           /\ table' = Append(table, new)
           /\ sipMap' = sipMap \cup {r}
           /\ sip' = SIPIdle
           /\ queue' = [queue EXCEPT ![sip.chan[2]] = Append(@, k)]
  <2>1. /\ table' \in Seq(Entry) /\ ID' = ID \cup {k}
        /\ table'[k] = new
        /\ \A i \in ID : table'[i] = table[i]
    BY <1>7, <1>9, Types DEF ID
  <2> HIDE DEF k
  <2>2. PICK t \in TCH : sip.chan = SACCH(t)
    BY <1>9 DEF Indices
  <2>3. sip.chan[2] = t
    BY <2>2 DEF SACCH
  <2>4. Added(k)
    BY <1>1, <1>4, <1>6, <2>1 DEF Added
  <2>5. NewQueued(k)
    BY <1>9, <2>1, <2>2, <2>3, <2>4 DEF NewQueued
  <2> QED BY <2>5
<1> QED  BY <1>5, <1>8, <1>9

\* SetPaging: the transaction is to be paged, or it is removed and the SIP thread lost.
LEMMA SetPagingEffect ==
  ASSUME TypeOK, Indices, SetPaging
  PROVE  /\ sip.pc = "page" /\ sip.id \in ID
         /\ UNCHANGED <<sipMap, pages, thread, queue, phone, heard, count>>
         /\ sip' \in SIPThreadState /\ sip'.chan \in {sip.chan, None}
         /\ \/ /\ UNCHANGED table /\ sip'.pc = "thrown" /\ sip'.id = 0
            \/ /\ table' \in Seq(Entry) /\ ID' = ID
               /\ \A i \in ID : i # sip.id => table'[i] = table[i]
               /\ table'[sip.id].request = table[sip.id].request
               /\ table'[sip.id].gsm = "Paging" /\ table'[sip.id].age = 0
               /\ table'[sip.id].sip = table[sip.id].sip
               /\ table'[sip.id].chan = table[sip.id].chan
               /\ table'[sip.id].removed = table[sip.id].removed
               /\ table'[sip.id].erased = table[sip.id].erased
               /\ sip'.pc = "list" /\ sip'.id = sip.id
<1>1. /\ sip.pc = "page" /\ sip.id \in ID
      /\ UNCHANGED <<sipMap, pages, thread, queue, phone, heard, count>>
  BY DEF SetPaging, Indices
<1>2. CASE table[sip.id].removed
  <2>1. sip' = Thrown /\ UNCHANGED table
    BY <1>2 DEF SetPaging
  <2> QED BY <1>1, <2>1, ThrownEffect
<1>3. CASE ~table[sip.id].removed
  <2> DEFINE e == setGSM(table[sip.id], "Paging")
  <2>1. table' = [table EXCEPT ![sip.id] = e] /\ sip' = [sip EXCEPT !.pc = "list"]
    BY <1>3 DEF SetPaging
  <2>2. table[sip.id] \in Entry
    BY <1>1, Tables, Types
  <2>3. /\ e \in Entry
        /\ e.request = table[sip.id].request /\ e.erased = table[sip.id].erased
        /\ e.removed = table[sip.id].removed
        /\ e.age = 0 /\ e.gsm = "Paging" /\ e.sip = table[sip.id].sip
        /\ e.chan = table[sip.id].chan
    BY <2>2, GSMEffect DEF GSMState
  <2> HIDE DEF e
  <2>4. /\ table' \in Seq(Entry) /\ ID' = ID /\ table'[sip.id] = e
        /\ \A i \in ID : i # sip.id => table'[i] = table[i]
    BY <1>1, <2>1, <2>3, OtherEntries
  <2>5. sip' \in SIPThreadState /\ sip'.pc = "list" /\ sip'.id = sip.id /\ sip'.chan = sip.chan
    BY <2>1, Types DEF SIPThreadState
  <2> QED BY <1>1, <2>3, <2>4, <2>5
<1> QED  BY <1>2, <1>3

\* ListPage.
LEMMA ListPageEffect ==
  ASSUME TypeOK, Indices, ListPage
  PROVE  /\ sip.pc = "list" /\ sip.id \in ID
         /\ sip' \in SIPThreadState /\ sip'.pc \in {"idle", "thrown"}
         /\ sip'.id = 0 /\ sip'.chan = None
         /\ pages' \in [Mobile -> Nat]
         /\ \A m \in Mobile : pages'[m] \in {pages[m], sip.id}
         /\ UNCHANGED <<table, sipMap, thread, queue, phone, heard, count>>
<1>1. /\ sip.pc = "list" /\ sip.id \in ID /\ sip' \in {SIPIdle, Thrown}
      /\ UNCHANGED <<table, sipMap, thread, queue, phone, heard, count>>
  BY DEF ListPage, Indices
<1>2. /\ \/ UNCHANGED pages
         \/ pages' = [pages EXCEPT ![Subscriber[sip.request]] = IF @ = 0 THEN sip.id ELSE @]
      /\ pages \in [Mobile -> Nat] /\ sip.id \in Nat
  BY Types DEF ListPage, SIPThreadState
<1>3. pages' \in [Mobile -> Nat] /\ \A m \in Mobile : pages'[m] \in {pages[m], sip.id}
  BY <1>2
<1> QED  BY <1>1, <1>3, Idle, ThrownEffect

\* DropPage(m): the transaction is removed if it is still to be paged.
LEMMA DropPageEffect ==
  ASSUME TypeOK, Indices, NEW m \in Mobile, DropPage(m)
  PROVE  /\ UNCHANGED <<sipMap, sip, thread, queue, phone, heard, count>>
         /\ pages' \in [Mobile -> Nat] /\ \A n \in Mobile : pages'[n] \in {pages[n], 0}
         /\ \/ UNCHANGED table
            \/ \E k \in ID :
                 /\ table' \in Seq(Entry) /\ ID' = ID
                 /\ \A i \in ID : i # k => table'[i] = table[i]
                 /\ table[k].gsm = "Paging"
                 /\ table'[k].request = table[k].request
                 /\ table'[k].gsm = "Paging" /\ table'[k].age = 0
                 /\ table'[k].sip = "MODCanceling" /\ table'[k].removed
                 /\ table'[k].chan = table[k].chan
                 /\ table'[k].erased = table[k].erased
<1>1. /\ UNCHANGED <<sipMap, sip, thread, queue, phone, heard, count>>
      /\ pages' = [pages EXCEPT ![m] = 0]
      /\ pages[m] # 0
      /\ table' = [table EXCEPT ![pages[m]] = removePaging(table[pages[m]])]
  BY DEF DropPage
<1>2. pages' \in [Mobile -> Nat] /\ \A n \in Mobile : pages'[n] \in {pages[n], 0}
  BY <1>1, Types
<1> DEFINE k == pages[m]
           o == table[k]
<1>3. k \in ID
  BY <1>1 DEF Indices
<1>4. o \in Entry
  BY <1>3, Tables, Types
<1>5. CASE removePaging(o) = o
  <2>1. table' = [table EXCEPT ![k] = o]
    BY <1>1, <1>5
  <2>2. table \in [ID -> Entry]
    BY Tables, Types, SeqDef DEF ID
  <2>3. table' = table
    BY <1>3, <2>1, <2>2
  <2> QED BY <1>1, <1>2, <2>3
<1>6. CASE removePaging(o) # o
  <2> DEFINE d == [o EXCEPT !.sip = "MODCanceling"]
             e == remove(d)
  <2>1. o.gsm = "Paging" /\ removePaging(o) = e
    BY <1>6 DEF removePaging
  <2>2. /\ d \in Entry
        /\ d.request = o.request /\ d.erased = o.erased
        /\ d.sip = "MODCanceling" /\ d.gsm = o.gsm /\ d.chan = o.chan
    BY <1>4, SIPEffect DEF SIPState
  <2>3. table' = [table EXCEPT ![k] = e]
    BY <1>1, <2>1
  <2> HIDE DEF d
  <2>4. 0 \in 0..2
    OBVIOUS
  <2>5. /\ e \in Entry /\ e.request = d.request /\ e.erased = d.erased /\ e.removed = TRUE
        /\ e.age = 0 /\ e.sip = d.sip /\ e.gsm = d.gsm /\ e.chan = d.chan
    BY <2>2, <2>4 DEF remove, Entry
  <2> HIDE DEF e
  <2>6. /\ table' \in Seq(Entry) /\ ID' = ID /\ table'[k] = e
        /\ \A i \in ID : i # k => table'[i] = table[i]
    BY <1>3, <2>3, <2>5, OtherEntries
  <2> QED BY <1>1, <1>2, <1>3, <2>1, <2>2, <2>5, <2>6
<1> QED  BY <1>5, <1>6

\* Answer(m, c): a thread gets a phone, and no entry.
LEMMA AnswerEffect ==
  ASSUME TypeOK, NEW m \in Mobile, NEW c \in SDCCH, Answer(m, c)
  PROVE  /\ UNCHANGED <<table, sipMap, sip, pages, queue, count>> /\ heard' \subseteq Mobile
         /\ phone' \in [Mobile -> SDCCH \cup TCH \cup {None}]
         /\ phone'[m] = c /\ \A n \in Mobile : n # m => phone'[n] = phone[n]
         /\ phone[m] = None /\ \A n \in Mobile : phone[n] # c
         /\ thread' \in [Channel -> ThreadState]
         /\ thread[c].pc = "idle"
         /\ thread'[c].pc = "response" /\ thread'[c].id = 0 /\ thread'[c].tch = None
         /\ \A d \in Channel : d # c => thread'[d] = thread[d]
<1> DEFINE x == [ThreadIdle EXCEPT !.pc = "response", !.mobile = m]
<1>1. x \in ThreadState /\ x.pc = "response" /\ x.id = 0 /\ x.tch = None
  BY Idle DEF ThreadState
<1>2. thread' = [thread EXCEPT ![c] = x] /\ c \in Channel
  BY Constants DEF Answer
<1> HIDE DEF x
<1>3. /\ thread' \in [Channel -> ThreadState] /\ thread'[c] = x
      /\ \A d \in Channel : d # c => thread'[d] = thread[d]
  BY <1>1, <1>2, ThreadEffect
<1>4. /\ phone' \in [Mobile -> SDCCH \cup TCH \cup {None}]
      /\ phone'[m] = c /\ \A n \in Mobile : n # m => phone'[n] = phone[n]
  BY Types DEF Answer
<1>5. heard' \subseteq Mobile
  BY Types DEF Answer
<1> QED  BY <1>1, <1>3, <1>4, <1>5 DEF Answer

\* The thread of c goes back to wait while the table is swept.
SweptAndQuit(c) ==
  /\ Swept /\ sipMap' = FIFOsKept
  /\ thread' \in [Channel -> ThreadState]
  /\ thread'[c] = ThreadIdle
  /\ \A d \in Channel : d # c => thread'[d] = thread[d]
  /\ phone' \in [Mobile -> SDCCH \cup TCH \cup {None}]
  /\ \A m \in Mobile : phone'[m] \in {phone[m], None}
  /\ UNCHANGED <<sip, pages, queue, heard, count>>

\* It gets the entry i.
Gets(c, i, pc) ==
  /\ i \in ID
  /\ thread[c].id = 0
  /\ thread' \in [Channel -> ThreadState]
  /\ thread'[c].pc = pc /\ thread'[c].id = i /\ thread'[c].tch = thread[c].tch
  /\ \A d \in Channel : d # c => thread'[d] = thread[d]

\* An idle handler that finds its entry becomes its only new controller.
LEMMA GetsEffect ==
  ASSUME TypeOK, NEW c \in Channel, thread[c].pc \in Unworked, NEW i \in ID, NEW pc \in ThreadPC,
         thread' = [thread EXCEPT ![c].pc = pc, ![c].id = i]
  PROVE  Gets(c, i, pc)
<1> DEFINE x == [thread[c] EXCEPT !.pc = pc, !.id = i]
<1>1. thread[c] \in ThreadState /\ i \in Nat /\ thread[c].id = 0
  BY Tables, Types DEF Unworked
<1>2. x \in ThreadState /\ x.pc = pc /\ x.id = i /\ x.tch = thread[c].tch
  BY <1>1 DEF ThreadState, ThreadPC
<1>3. thread' = [thread EXCEPT ![c] = x]
  BY <1>1 DEF ThreadState
<1> HIDE DEF x
<1> QED  BY <1>1, <1>2, <1>3, ThreadEffect DEF Gets

\* The thread of c gets the transaction that its phone was paged for.
Answers(c, i) ==
  /\ table' \in Seq(Entry) /\ ID' = ID
  /\ i \in Live(table) /\ table[i].gsm = "Paging"
  /\ Gets(c, i, "attach")
  /\ \A j \in ID :
       /\ table'[j].request = table[j].request
       /\ table'[j].sip = table[j].sip
       /\ table'[j].removed = table[j].removed /\ table'[j].chan = table[j].chan
       /\ table'[j].erased <=> table[j].erased \/ dead(table[j])
       /\ j # i => table'[j].gsm = table[j].gsm /\ table'[j].age = table[j].age
  /\ table'[i].gsm = "AnsweredPaging" /\ table'[i].age = 0
  /\ sipMap' = FIFOsKept
  /\ UNCHANGED <<sip, pages, queue, phone, heard, count>>

\* A paging response either finds nothing or takes one entry that was found alive.
LEMMA answeredPagingEffect ==
  ASSUME TypeOK, NEW c \in SDCCH, answeredPaging(c)
  PROVE  thread[c].pc = "answer" /\ (SweptAndQuit(c) \/ \E i \in ID : Answers(c, i))
<1>1. /\ thread[c].pc = "answer" /\ c \in Channel /\ sipMap' = FIFOsKept
      /\ UNCHANGED <<sip, pages, queue, heard, count>>
  BY Constants DEF answeredPaging
<1> DEFINE i == pagingOf(thread[c].mobile)
<1>2. CASE i = 0
  <2>1. Quit(c) /\ table' = clearDeadEntries
    BY <1>2 DEF answeredPaging
  <2>2. Swept
    BY <2>1, SweptEffect
  <2> QED BY <1>1, <2>1, <2>2, QuitEffect DEF SweptAndQuit
<1>3. CASE i # 0
  <2>1. i \in Live(table) /\ table[i].gsm = "Paging" /\ i \in ID
    BY <1>3, Searches
  <2>2. /\ thread' = [thread EXCEPT ![c].pc = "attach", ![c].id = i]
        /\ table' = [clearDeadEntries EXCEPT ![i] = setGSM(@, "AnsweredPaging")]
        /\ UNCHANGED phone
    BY <1>3 DEF answeredPaging
  <2> HIDE DEF i
  <2>3. Gets(c, i, "attach")
    BY <1>1, <2>1, <2>2, GetsEffect DEF ThreadPC, Unworked
  <2> DEFINE e == setGSM(swept(i), "AnsweredPaging")
  <2>4. /\ e \in Entry
        /\ e.request = table[i].request
        /\ e.sip = table[i].sip /\ e.removed = table[i].removed /\ e.chan = table[i].chan
        /\ e.erased <=> table[i].erased \/ dead(table[i])
        /\ e.gsm = "AnsweredPaging" /\ e.age = 0
    <3>1. /\ swept(i) \in Entry
          /\ swept(i).request = table[i].request
          /\ swept(i).sip = table[i].sip
          /\ swept(i).removed = table[i].removed
          /\ swept(i).erased = (table[i].erased \/ dead(table[i]))
          /\ swept(i).chan = table[i].chan
      BY <2>1, ScanEffect, Types
    <3> HIDE DEF swept
    <3>2. /\ e \in Entry
          /\ e.request = swept(i).request /\ e.erased = swept(i).erased
          /\ e.removed = swept(i).removed
          /\ e.age = 0 /\ e.gsm = "AnsweredPaging" /\ e.sip = swept(i).sip
          /\ e.chan = swept(i).chan
      BY <3>1, GSMEffect DEF GSMState
    <3> QED BY <3>1, <3>2
  <2>5. clearDeadEntries \in [ID -> Entry] /\ clearDeadEntries[i] = swept(i)
    <3>1. clearDeadEntries \in Seq(Entry) /\ DOMAIN clearDeadEntries = ID
      BY ScanEffect, Types
    <3>2. clearDeadEntries \in [ID -> Entry]
      BY <3>1
    <3> QED BY <2>1, <3>2, ScanEffect, Types
  <2>6. table' = [clearDeadEntries EXCEPT ![i] = e]
    BY <2>1, <2>2, <2>5
  <2> HIDE DEF e
  <2>7. table' \in [ID -> Entry] /\ table'[i] = e
        /\ \A j \in ID : j # i => table'[j] = clearDeadEntries[j]
    BY <2>1, <2>4, <2>5, <2>6
  <2>8. table' \in Seq(Entry) /\ ID' = ID
    BY <2>7, Tables, Types DEF ID
  <2>9. ASSUME NEW j \in ID, j # i
        PROVE  /\ table'[j].request = table[j].request
               /\ table'[j].sip = table[j].sip
               /\ table'[j].removed = table[j].removed /\ table'[j].chan = table[j].chan
               /\ table'[j].erased <=> table[j].erased \/ dead(table[j])
               /\ table'[j].gsm = table[j].gsm /\ table'[j].age = table[j].age
    <3>1. table'[j] = swept(j)
      BY <2>7, <2>9, ScanEffect, Types
    <3> QED BY <3>1, ScanEffect, Types
  <2>10. Answers(c, i)
    BY <1>1, <2>1, <2>2, <2>3, <2>4, <2>7, <2>8, <2>9 DEF Answers
  <2> QED BY <1>1, <2>1, <2>10
<1> QED  BY <1>2, <1>3

\* The thread of a TCH gets the transaction that was left on it.
Completes(t, i) ==
  /\ Swept /\ sipMap' = FIFOsKept
  /\ i \in Live(table) /\ table[i].chan = t
  /\ Gets(t, i, "alerting")
  /\ UNCHANGED <<sip, pages, queue, phone, heard, count>>

\* An assignment complete either finds nothing or takes one entry on its TCH.
LEMMA AssignmentCompleteEffect ==
  ASSUME TypeOK, NEW t \in TCH, AssignmentComplete(t)
  PROVE  thread[t].pc = "complete" /\ (SweptAndQuit(t) \/ \E i \in ID : Completes(t, i))
<1>1. /\ thread[t].pc = "complete" /\ t \in Channel
      /\ table' = clearDeadEntries /\ sipMap' = FIFOsKept
      /\ UNCHANGED <<sip, pages, queue, heard, count>>
  BY Constants DEF AssignmentComplete, Scan
<1>2. Swept
  BY <1>1, SweptEffect
<1> DEFINE i == findByChannel(t)
<1>3. CASE i = 0
  <2>1. Quit(t)
    BY <1>3 DEF AssignmentComplete
  <2> QED BY <1>1, <1>2, <2>1, QuitEffect DEF SweptAndQuit
<1>4. CASE i # 0
  <2>1. i \in Live(table) /\ table[i].chan = t /\ i \in ID
    BY <1>4, Searches
  <2>2. thread' = [thread EXCEPT ![t].pc = "alerting", ![t].id = i] /\ UNCHANGED phone
    BY <1>4 DEF AssignmentComplete
  <2> HIDE DEF i
  <2>3. Gets(t, i, "alerting")
    BY <1>1, <2>1, <2>2, GetsEffect DEF ThreadPC, Unworked
  <2> QED BY <1>1, <1>2, <2>1, <2>2, <2>3 DEF Completes
<1> QED  BY <1>3, <1>4

\* InCallSMS(t): the thread of a SACCH gets the first entry that waits for it.
LEMMA InCallSMSEffect ==
  ASSUME TypeOK, Indices, NEW t \in TCH, InCallSMS(t)
  PROVE  LET c == SACCH(t) IN
         /\ c \in Channel /\ thread[c].pc = "idle" /\ Open(t)
         /\ queue[t] # <<>> /\ queue[t] \in Seq(Nat)
         /\ Gets(c, Head(queue[t]), "begin")
         /\ queue' \in [TCH -> Seq(Nat)]
         /\ queue'[t] = Tail(queue[t])
         /\ \A u \in TCH : u # t => queue'[u] = queue[u]
         /\ UNCHANGED <<table, sipMap, sip, pages, phone, heard, count>>
<1> DEFINE c == SACCH(t)
<1>1. c \in Channel /\ thread[c].pc = "idle" /\ queue[t] # <<>> /\ queue[t] \in Seq(Nat) /\ Open(t)
  BY Constants, Types DEF InCallSMS
<1>2. Head(queue[t]) \in ID
  <2>1. 1 \in DOMAIN queue[t] /\ Head(queue[t]) = queue[t][1]
    BY <1>1
  <2> QED BY <2>1 DEF Indices
<1>3. /\ thread' = [thread EXCEPT ![c] = [thread[c] EXCEPT !.pc = "begin", !.id = Head(queue[t])]]
      /\ queue' = [queue EXCEPT ![t] = Tail(queue[t])]
      /\ UNCHANGED <<table, sipMap, sip, pages, phone, heard, count>>
  BY DEF InCallSMS
<1>4. Tail(queue[t]) \in Seq(Nat)
  BY <1>1
<1>5. /\ queue' \in [TCH -> Seq(Nat)]
      /\ queue'[t] = Tail(queue[t])
      /\ \A u \in TCH : u # t => queue'[u] = queue[u]
  BY <1>3, <1>4, Types
<1> DEFINE x == [thread[c] EXCEPT !.pc = "begin", !.id = Head(queue[t])]
<1>6. thread[c] \in ThreadState /\ Head(queue[t]) \in Nat /\ thread[c].id = 0
  BY <1>1, <1>2, Tables, Types
<1>7. x \in ThreadState /\ x.pc = "begin" /\ x.id = Head(queue[t]) /\ x.tch = thread[c].tch
  BY <1>6 DEF ThreadState
<1>8. thread' = [thread EXCEPT ![c] = x]
  BY <1>3
<1> HIDE DEF x
<1>9. Gets(c, Head(queue[t]), "begin")
  BY <1>1, <1>2, <1>6, <1>7, <1>8, ThreadEffect DEF Gets
<1> QED  BY <1>1, <1>3, <1>5, <1>9

\* Move(c): a phone is assigned the TCH, whose thread takes it up.
LEMMA MoveEffect ==
  ASSUME TypeOK, TCHPlaces, NEW c \in SDCCH, Move(c)
  PROVE  LET t == thread[c].tch IN
         /\ thread[c].pc \in Loop /\ t \in TCH
         /\ UNCHANGED <<table, sipMap, sip, pages, queue, heard, count>>
         /\ thread' \in [Channel -> ThreadState]
         /\ thread'[t].pc = "complete" /\ thread'[t].id = 0 /\ thread'[t].tch = None
         /\ \A d \in Channel : d # t => thread'[d] = thread[d]
         /\ phone' \in [Mobile -> SDCCH \cup TCH \cup {None}]
         /\ \E m \in Mobile : /\ phone[m] = c /\ phone'[m] = t
                              /\ \A n \in Mobile : n # m => phone'[n] = phone[n]
<1>1. /\ thread[c].pc \in Loop /\ c \in Channel
      /\ UNCHANGED <<table, sipMap, sip, pages, queue, heard, count>>
  BY Constants DEF Move, Loop
<1> DEFINE t == thread[c].tch
<1>2. t \in TCH /\ t \in Channel
  BY <1>1, Types, Constants DEF TCHPlaces, ThreadState, Loop
<1>3. PICK m \in Mobile :
        /\ phone[m] = c
        /\ phone' = [phone EXCEPT ![m] = t]
        /\ thread' = [thread EXCEPT ![t] = [ThreadIdle EXCEPT !.pc = "complete", !.mobile = m]]
  BY DEF Move
<1> DEFINE x == [ThreadIdle EXCEPT !.pc = "complete", !.mobile = m]
<1>4. x \in ThreadState /\ x.pc = "complete" /\ x.id = 0 /\ x.tch = None
  BY Idle DEF ThreadState
<1>5. thread' = [thread EXCEPT ![t] = x]
  BY <1>3
<1> HIDE DEF x, t
<1>6. /\ thread' \in [Channel -> ThreadState] /\ thread'[t] = x
      /\ \A d \in Channel : d # t => thread'[d] = thread[d]
  BY <1>2, <1>4, <1>5, ThreadEffect
<1>7. /\ phone' \in [Mobile -> SDCCH \cup TCH \cup {None}] /\ phone'[m] = t
      /\ \A n \in Mobile : n # m => phone'[n] = phone[n]
  BY <1>2, <1>3, Types
<1> QED  BY <1>1, <1>2, <1>3, <1>4, <1>6, <1>7 DEF t

----------------------------------------------------------------------------
(* Types and indices, step by step *)

\* The thread that takes an entry names one; the others name what they did.
LEMMA TypesGets ==
  ASSUME TypeOK, NEW c \in Channel, NEW i, NEW pc, pc \notin Unworked, Gets(c, i, pc), ID' = ID
  PROVE  \A d \in Channel : thread'[d].id \in IF thread'[d].pc \in Unworked THEN {0} ELSE ID'
  BY Types DEF Gets, Unworked

\* A handler that finds nothing keeps types and indices.
LEMMA TypesQuits ==
  ASSUME TypeOK, Indices, NEW c \in Channel, SweptAndQuit(c)
  PROVE  TypeOK' /\ Indices'
<1>1. \A d \in Channel : thread'[d].id \in IF thread'[d].pc \in Unworked THEN {0} ELSE ID'
  BY Types, Idle DEF SweptAndQuit, Swept, Unworked
<1>2. TypeOK'
  BY <1>1, TypeStep, Types, ScanTypes DEF SweptAndQuit, Swept
<1> QED  BY <1>2 DEF Indices, SweptAndQuit, Swept

\* Every step of a channel's thread keeps types and indices.
LEMMA TypesThread ==
  ASSUME TypeOK, Indices, TCHPlaces, NEW c \in Channel, ThreadStep(c)
  PROVE  TypeOK' /\ Indices'
<1>1. CASE Leaves(c)
  BY <1>1, TypesLeaves
<1>2. CASE Advances(c)
  BY <1>2, TypesAdvances
<1>3. CASE RemovePage(c)
  BY <1>3, TypesRemovePage
<1>4. CASE c \in SDCCH /\ answeredPaging(c)
  <2>1. CASE SweptAndQuit(c)
    BY <2>1, TypesQuits
  <2>2. ASSUME NEW i \in ID, Answers(c, i)
        PROVE  TypeOK' /\ Indices'
    <3>1. /\ table' \in Seq(Entry) /\ ID' = ID /\ sipMap' = FIFOsKept /\ Gets(c, i, "attach")
          /\ UNCHANGED <<sip, pages, queue, phone, heard, count>>
      BY <2>2 DEF Answers
    <3>2. \A d \in Channel : thread'[d].id \in IF thread'[d].pc \in Unworked THEN {0} ELSE ID'
      BY <3>1, TypesGets DEF Unworked
    <3>3. thread' \in [Channel -> ThreadState]
      BY <3>1 DEF Gets
    <3>4. TypeOK'
      BY <3>1, <3>2, <3>3, TypeStep, Types, ScanTypes
    <3> QED BY <3>1, <3>4 DEF Indices
  <2> QED BY <1>4, <2>1, <2>2, answeredPagingEffect
<1>5. CASE c \in SDCCH /\ Move(c)
  <2> DEFINE t == thread[c].tch
  <2>1. /\ t \in TCH
        /\ UNCHANGED <<table, sipMap, sip, pages, queue, heard, count>>
        /\ thread' \in [Channel -> ThreadState]
        /\ thread'[t].pc = "complete" /\ thread'[t].id = 0
        /\ \A d \in Channel : d # t => thread'[d] = thread[d]
        /\ phone' \in [Mobile -> SDCCH \cup TCH \cup {None}]
    BY <1>5, MoveEffect
  <2>2. ID' = ID
    BY <2>1, SameTable
  <2>3. \A d \in Channel : thread'[d].id \in IF thread'[d].pc \in Unworked THEN {0} ELSE ID'
    BY <2>1, <2>2, Types DEF Unworked
  <2>4. TypeOK'
    BY <2>1, <2>3, TypeStep, Types
  <2> QED BY <2>1, <2>2, <2>4 DEF Indices
<1>6. CASE c \in TCH /\ AssignmentComplete(c)
  <2>1. CASE SweptAndQuit(c)
    BY <2>1, TypesQuits
  <2>2. ASSUME NEW i \in ID, Completes(c, i)
        PROVE  TypeOK' /\ Indices'
    <3>1. /\ table' \in Seq(Entry) /\ ID' = ID /\ sipMap' = FIFOsKept /\ Gets(c, i, "alerting")
          /\ UNCHANGED <<sip, pages, queue, phone, heard, count>>
      BY <2>2 DEF Completes, Swept
    <3>2. \A d \in Channel : thread'[d].id \in IF thread'[d].pc \in Unworked THEN {0} ELSE ID'
      BY <3>1, TypesGets DEF Unworked
    <3>3. thread' \in [Channel -> ThreadState]
      BY <3>1 DEF Gets
    <3>4. TypeOK'
      BY <3>1, <3>2, <3>3, TypeStep, Types, ScanTypes
    <3> QED BY <3>1, <3>4 DEF Indices
  <2> QED BY <1>6, <2>1, <2>2, AssignmentCompleteEffect
<1>7. ASSUME NEW t \in TCH, c = SACCH(t), InCallSMS(t)
      PROVE  TypeOK' /\ Indices'
  <2>1. /\ queue[t] # <<>> /\ queue[t] \in Seq(Nat)
        /\ Gets(c, Head(queue[t]), "begin")
        /\ queue' \in [TCH -> Seq(Nat)]
        /\ queue'[t] = Tail(queue[t])
        /\ \A u \in TCH : u # t => queue'[u] = queue[u]
        /\ UNCHANGED <<table, sipMap, sip, pages, phone, heard, count>>
    BY <1>7, InCallSMSEffect
  <2>2. ID' = ID
    BY <2>1, SameTable
  <2>3. \A d \in Channel : thread'[d].id \in IF thread'[d].pc \in Unworked THEN {0} ELSE ID'
    BY <2>1, <2>2, TypesGets DEF Unworked
  <2>4. thread' \in [Channel -> ThreadState]
    BY <2>1 DEF Gets
  <2>5. TypeOK'
    BY <2>1, <2>3, <2>4, TypeStep, Types
  <2>6. \A n \in DOMAIN Tail(queue[t]) : n + 1 \in DOMAIN queue[t] /\ Tail(queue[t])[n] = queue[t][n + 1]
    BY <2>1
  <2>7. \A u \in TCH : \A n \in DOMAIN queue'[u] : queue'[u][n] \in ID
    <3>1. SUFFICES ASSUME NEW u \in TCH, NEW n \in DOMAIN queue'[u]
                   PROVE  queue'[u][n] \in ID
      OBVIOUS
    <3>2. CASE u = t
      BY <2>1, <2>6, <3>1, <3>2 DEF Indices
    <3>3. CASE u # t
      BY <2>1, <3>1, <3>3 DEF Indices
    <3> QED BY <3>2, <3>3
  <2> QED BY <2>1, <2>2, <2>5, <2>7 DEF Indices
<1> QED  BY <1>1, <1>2, <1>3, <1>4, <1>5, <1>6, <1>7, ThreadSteps

\* A sweep on its own keeps types and indices.
LEMMA TypesSwept ==
  ASSUME TypeOK, Indices, Swept, UNCHANGED <<sip, pages, thread, queue, phone, heard, count>>,
         sipMap' = FIFOsKept
  PROVE  TypeOK' /\ Indices'
<1>1. IF sip'.pc \in {"trying", "page", "list"} THEN sip'.id \in ID ELSE sip'.id = 0
  BY DEF Indices
<1>2. sip'.chan = None \/ \E t \in TCH : sip'.chan = SACCH(t)
  BY DEF Indices
<1> QED  BY <1>1, <1>2, TypeKept, ScanTypes, Types DEF Swept

\* Every step of the SIP thread and the pager keeps types and indices.
LEMMA TypesSIP ==
  ASSUME TypeOK, Indices, SIPThread
  PROVE  TypeOK' /\ Indices'
<1>1. CASE Repeated
  <2>1. /\ table' \in Seq(Entry) /\ ID' = ID /\ sipMap' \subseteq Request
        /\ UNCHANGED <<pages, thread, queue, phone, heard, count>>
    BY <1>1, RepeatedEffect, ScanTypes DEF Swept
  <2>2. CASE sip' = SIPIdle
    BY <2>1, <2>2, Idle, TypeKept, Types
  <2>3. CASE sip' # SIPIdle
    <3>1. /\ sip' \in SIPThreadState
          /\ sip'.pc = "trying" /\ sip'.chan = sip.chan /\ sip'.id \in ID
      BY <1>1, <2>3, RepeatedEffect, Searches
    <3>2. sip'.chan = None \/ \E t \in TCH : sip'.chan = SACCH(t)
      BY <3>1 DEF Indices
    <3> QED BY <2>1, <3>1, <3>2, TypeKept, Types
  <2> QED BY <2>2, <2>3
<1>2. CASE SendTrying
  <2>1. /\ table' \in Seq(Entry) /\ ID' = ID /\ sip' \in SIPThreadState
        /\ sip'.chan \in {sip.chan, None}
        /\ IF sip'.pc \in {"trying", "page", "list"} THEN sip'.id \in ID ELSE sip'.id = 0
        /\ UNCHANGED <<sipMap, pages, thread, queue, phone, heard, count>>
    BY <1>2, SendTryingEffect
  <2>2. sip'.chan = None \/ \E t \in TCH : sip'.chan = SACCH(t)
    BY <2>1 DEF Indices
  <2> QED BY <2>1, <2>2, TypeKept, Types
<1>3. CASE Refuse
  <2>1. /\ table' \in Seq(Entry) /\ ID' = ID /\ sip' = SIPIdle /\ sipMap' \subseteq Request
        /\ UNCHANGED <<pages, thread, queue, phone, heard, count>>
    BY <1>3, RefuseEffect, SameTable, ScanTypes, Types DEF Swept
  <2> QED BY <2>1, Idle, TypeKept, Types
<1>4. CASE SetPaging
  <2>1. /\ table' \in Seq(Entry) /\ ID' = ID /\ sip' \in SIPThreadState
        /\ sip'.chan \in {sip.chan, None}
        /\ IF sip'.pc \in {"trying", "page", "list"} THEN sip'.id \in ID ELSE sip'.id = 0
        /\ UNCHANGED <<sipMap, pages, thread, queue, phone, heard, count>>
    BY <1>4, SetPagingEffect, SameTable
  <2>2. sip'.chan = None \/ \E t \in TCH : sip'.chan = SACCH(t)
    BY <2>1 DEF Indices
  <2> QED BY <2>1, <2>2, TypeKept, Types
<1>5. CASE ListPage
  <2>1. /\ sip.id \in ID
        /\ sip' \in SIPThreadState /\ sip'.pc \in {"idle", "thrown"}
        /\ sip'.id = 0 /\ sip'.chan = None
        /\ pages' \in [Mobile -> Nat]
        /\ \A m \in Mobile : pages'[m] \in {pages[m], sip.id}
        /\ UNCHANGED <<table, sipMap, thread, queue, phone, heard, count>>
    BY <1>5, ListPageEffect
  <2>2. table' \in Seq(Entry) /\ ID' = ID
    BY <2>1, SameTable
  <2>3. TypeOK'
    BY <2>1, <2>2, Idle, TypeStep, Types DEF Unworked
  <2> QED BY <2>1, <2>2, <2>3, Idle DEF Indices
<1>6. ASSUME NEW k, NewPaged(k) \/ NewQueued(k)
      PROVE  TypeOK' /\ Indices'
  <2>1. /\ table' \in Seq(Entry) /\ ID' = ID \cup {k} /\ k \in Nat
        /\ UNCHANGED <<pages, thread, phone, heard, count>>
    BY <1>6 DEF NewPaged, NewQueued, Added
  <2>2. sipMap' \subseteq Request
    <3>1. sip.request \in Request
      BY Types DEF SIPThreadState
    <3> QED BY <1>6, <3>1, ScanTypes, Types DEF NewPaged, NewQueued
  <2>3. /\ sip' \in SIPThreadState /\ sip'.chan = None
        /\ IF sip'.pc \in {"trying", "page", "list"} THEN sip'.id \in ID' ELSE sip'.id = 0
    BY <1>6, <2>1, Idle DEF NewPaged, NewQueued
  <2>4. queue' \in [TCH -> Seq(Nat)] /\ \A t \in TCH : \A n \in DOMAIN queue'[t] : queue'[t][n] \in ID'
    <3>1. CASE UNCHANGED queue
      BY <2>1, <3>1, Types DEF Indices
    <3>2. ASSUME NEW t \in TCH, queue' = [queue EXCEPT ![t] = Append(queue[t], k)]
          PROVE  queue' \in [TCH -> Seq(Nat)]
                 /\ \A u \in TCH : \A n \in DOMAIN queue'[u] : queue'[u][n] \in ID'
      <4>1. queue[t] \in Seq(Nat) /\ queue \in [TCH -> Seq(Nat)]
        BY Types
      <4>2. Append(queue[t], k) \in Seq(Nat)
        BY <2>1, <4>1
      <4>3. \A n \in DOMAIN Append(queue[t], k) : Append(queue[t], k)[n] \in ID'
        <5>1. \A n \in DOMAIN Append(queue[t], k) :
                \/ n \in DOMAIN queue[t] /\ Append(queue[t], k)[n] = queue[t][n]
                \/ Append(queue[t], k)[n] = k
          BY <2>1, <4>1
        <5> QED BY <2>1, <5>1 DEF Indices
      <4>4. \A u \in TCH : queue'[u] = IF u = t THEN Append(queue[t], k) ELSE queue[u]
        BY <3>2, <4>1
      <4> QED BY <2>1, <3>2, <4>1, <4>2, <4>3, <4>4 DEF Indices
    <3> QED BY <1>6, <3>1, <3>2 DEF NewPaged, NewQueued
  <2>5. TypeOK'
    BY <2>1, <2>2, <2>3, <2>4, TypeStep, Types DEF Unworked
  <2> QED BY <2>1, <2>3, <2>4, <2>5 DEF Indices
<1> QED  BY <1>1, <1>2, <1>3, <1>4, <1>5, <1>6, NewTransactionEffect DEF SIPThread

\* Types and indices are inductive.
LEMMA TypesNext ==
  ASSUME TypeOK, Indices, TCHPlaces, [Next]_vars
  PROVE  TypeOK' /\ Indices'
<1>1. CASE OtherScan
  BY <1>1, SweptEffect, TypesSwept DEF OtherScan, Scan
<1>2. ASSUME NEW i \in ID, Tick(i)
      PROVE  TypeOK' /\ Indices'
  <2>1. table' \in Seq(Entry) /\ ID' = ID
        /\ UNCHANGED <<sipMap, sip, pages, thread, queue, phone, heard, count>>
    BY <1>2, TickEffect DEF Tick
  <2> QED BY <2>1, TypeKept, Types DEF Indices
<1>3. ASSUME NEW r \in Request, Invite(r)
      PROVE  TypeOK' /\ Indices'
  <2>1. /\ Swept /\ sipMap' = FIFOsKept
        /\ sip' \in SIPThreadState
        /\ sip'.pc = "invite" /\ sip'.id = 0
        /\ sip'.chan = None \/ \E t \in TCH : sip'.chan = SACCH(t)
        /\ count' \in [Request -> Nat]
        /\ UNCHANGED <<pages, thread, queue, phone, heard>>
    BY <1>3, InviteEffect
  <2> QED BY <2>1, TypeKept, ScanTypes, Types DEF Swept
<1>4. ASSUME NEW m \in Mobile, SendPage(m)
      PROVE  TypeOK' /\ Indices'
  <2>1. heard' \subseteq Mobile /\ UNCHANGED <<table, sipMap, sip, pages, thread, queue, phone, count>>
    BY <1>4, Types DEF SendPage
  <2> QED BY <2>1, SameTable, TypeKept, Types DEF Indices
<1>5. ASSUME NEW m \in Mobile, DropPage(m)
      PROVE  TypeOK' /\ Indices'
  <2>1. /\ UNCHANGED <<sipMap, sip, thread, queue, phone, heard, count>>
        /\ pages' \in [Mobile -> Nat] /\ \A n \in Mobile : pages'[n] \in {pages[n], 0}
        /\ table' \in Seq(Entry) /\ ID' = ID
    BY <1>5, DropPageEffect, SameTable
  <2>2. TypeOK'
    BY <2>1, TypeStep, Types DEF Unworked
  <2> QED BY <2>1, <2>2 DEF Indices
<1>6. ASSUME NEW m \in Mobile, LeaveChannel(m)
      PROVE  TypeOK' /\ Indices'
  <2>1. /\ phone' \in [Mobile -> SDCCH \cup TCH \cup {None}]
        /\ UNCHANGED <<table, sipMap, sip, pages, thread, queue, heard, count>>
    BY <1>6, Types DEF LeaveChannel
  <2>2. TypeOK'
    BY <2>1, SameTable, TypeStep, Types DEF Unworked
  <2> QED BY <2>1, <2>2, SameTable DEF Indices
<1>7. ASSUME NEW m \in Mobile, NEW c \in SDCCH, Answer(m, c)
      PROVE  TypeOK' /\ Indices'
  <2>1. /\ UNCHANGED <<table, sipMap, sip, pages, queue, count>> /\ heard' \subseteq Mobile
        /\ phone' \in [Mobile -> SDCCH \cup TCH \cup {None}]
        /\ thread' \in [Channel -> ThreadState]
        /\ thread'[c].pc = "response" /\ thread'[c].id = 0
        /\ \A d \in Channel : d # c => thread'[d] = thread[d]
    BY <1>7, AnswerEffect
  <2>2. \A d \in Channel : thread'[d].id \in IF thread'[d].pc \in Unworked THEN {0} ELSE ID'
    BY <2>1, SameTable, Types DEF Unworked
  <2>3. TypeOK'
    BY <2>1, <2>2, SameTable, TypeStep, Types
  <2> QED BY <2>1, <2>3, SameTable DEF Indices
<1>8. CASE UNCHANGED vars
  <2>1. UNCHANGED <<table, sipMap, sip, pages, thread, queue, phone, heard, count>>
    BY <1>8 DEF vars
  <2> QED BY <2>1, SameTable, TypeKept, Types DEF Indices
<1> QED  BY <1>1, <1>2, <1>3, <1>4, <1>5, <1>6, <1>7, <1>8, TypesSIP, TypesThread DEF Next

----------------------------------------------------------------------------
(* Threads, phones and TCHs *)

Places == ThreadPlaces /\ TCHPlaces /\ PhonePlaces

Calling == {"confirm", "assign", "assigning", "again"}

\* Phones leave, and the thread of c, if any, goes back to wait.
LEMMA PlacesLeft ==
  ASSUME TypeOK, Places,
         \A m \in Mobile : phone'[m] \in {phone[m], None},
         \A d \in Channel : thread'[d] \in {thread[d], ThreadIdle}
  PROVE  Places'
<1>1. ThreadPlaces'
  BY Constants, Idle DEF Places, ThreadPlaces, SDCCHState, TCHState, SACCHState
<1>2. ASSUME NEW c \in Channel
      PROVE  thread'[c].tch # None <=> thread'[c].pc \in Calling
  BY Idle DEF Places, TCHPlaces, Calling
<1>3. ASSUME NEW c \in Channel, NEW d \in Channel, thread'[c].tch = thread'[d].tch,
             thread'[c].tch # None
      PROVE  c = d
  BY <1>3, Idle DEF Places, TCHPlaces
<1>4. TCHPlaces'
  BY <1>2, <1>3 DEF TCHPlaces, Calling
<1>5. ASSUME NEW m \in Mobile, NEW n \in Mobile, phone'[m] = phone'[n], phone'[m] \in SDCCH
      PROVE  m = n
  BY <1>5, MTAssumption DEF Places, PhonePlaces
<1>6. ASSUME NEW c \in Channel, Unmoved(c)'
      PROVE  /\ thread'[thread'[c].tch].pc = "idle"
             /\ \A m \in Mobile : phone'[m] # thread'[c].tch
  <2>1. thread'[c].pc \in Calling
    BY <1>6 DEF Unmoved, Calling
  <2>2. thread'[c] = thread[c]
    BY <2>1, Idle DEF Calling
  <2>3. Unmoved(c)
    BY <1>6, <2>2, Constants DEF Unmoved
  <2>4. thread[c].tch \in TCH /\ thread[c].tch \in Channel /\ thread[c].tch # None
    BY <2>1, <2>2, Types, Constants DEF Places, TCHPlaces, ThreadState, Calling
  <2>5. thread[thread[c].tch].pc = "idle" /\ \A m \in Mobile : phone[m] # thread[c].tch
    BY <2>3 DEF Places, PhonePlaces
  <2> QED BY <2>2, <2>4, <2>5, Idle
<1>7. PhonePlaces'
  BY <1>5, <1>6 DEF PhonePlaces
<1> QED  BY <1>1, <1>4, <1>7 DEF Places

\* The thread of c goes from one state to another, and keeps its TCH.
LEMMA PlacesGo ==
  ASSUME TypeOK, Places, NEW c \in Channel,
         \A m \in Mobile : phone'[m] \in {phone[m], None},
         thread'[c].tch = thread[c].tch,
         \A d \in Channel : d # c => thread'[d] = thread[d],
         c \in SDCCH => thread'[c].pc \in SDCCHState,
         c \in TCH => thread'[c].pc \in TCHState /\ thread[c].pc # "idle",
         \A t \in TCH : c = SACCH(t) => thread'[c].pc \in SACCHState,
         thread'[c].pc \in Calling <=> thread[c].pc \in Calling,
         Unmoved(c)' => Unmoved(c)
  PROVE  Places'
<1>1. ThreadPlaces'
  <2>1. \A d \in SDCCH : thread'[d].pc \in SDCCHState
    BY Constants DEF Places, ThreadPlaces
  <2>2. \A d \in TCH : thread'[d].pc \in TCHState
    BY Constants DEF Places, ThreadPlaces
  <2>3. \A t \in TCH : thread'[SACCH(t)].pc \in SACCHState
    BY Constants DEF Places, ThreadPlaces
  <2> QED BY <2>1, <2>2, <2>3 DEF ThreadPlaces
<1>2. \A d \in Channel : thread'[d].tch = thread[d].tch
  OBVIOUS
<1>3. \A d \in Channel : thread'[d].pc \in Calling <=> thread[d].pc \in Calling
  OBVIOUS
<1>4. TCHPlaces'
  BY <1>2, <1>3 DEF Places, TCHPlaces, Calling
<1>5. ASSUME NEW d \in Channel, Unmoved(d)'
      PROVE  /\ thread'[thread'[d].tch].pc = "idle"
             /\ \A m \in Mobile : phone'[m] # thread'[d].tch
  <2>1. thread[d].pc \in Calling /\ thread'[d].pc \in Calling
    BY <1>3, <1>5 DEF Unmoved, Calling
  <2>2. Unmoved(d)
    <3>1. CASE d = c
      BY <1>5, <3>1
    <3>2. CASE d # c
      BY <1>5, <3>2, Constants DEF Unmoved
    <3> QED BY <3>1, <3>2
  <2>3. thread[d].tch \in TCH /\ thread[d].tch \in Channel
    BY <2>1, Types, Constants DEF Places, TCHPlaces, ThreadState, Calling
  <2>4. thread[thread[d].tch].pc = "idle" /\ \A m \in Mobile : phone[m] # thread[d].tch
    BY <2>2 DEF Places, PhonePlaces
  <2>5. thread[d].tch # c
    BY <2>3, <2>4
  <2> QED BY <1>2, <2>3, <2>4, <2>5, Constants
<1>6. PhonePlaces'
  BY <1>5, MTAssumption DEF Places, PhonePlaces
<1> QED  BY <1>1, <1>4, <1>6 DEF Places

\* A controller goes on: SendSetup() takes a TCH that nobody has.
LEMMA PlacesAdvances ==
  ASSUME TypeOK, Places, NEW c \in Channel, Advances(c)
  PROVE  Places'
<1>1. PICK e \in Entry, pc \in ThreadPC : GoesOn(c, e, pc) /\ Advanced(c, e, pc)
  BY DEF Advances
<1>2. /\ thread'[c].pc = pc /\ \A m \in Mobile : phone'[m] \in {phone[m], None}
      /\ \A d \in Channel : d # c => thread'[d] = thread[d]
  BY <1>1 DEF GoesOn, Works
<1>3. CASE pc # "confirm"
  <2>1. thread'[c].tch = thread[c].tch
    BY <1>1, <1>3 DEF GoesOn
  <2>2. /\ c \in SDCCH => pc \in SDCCHState
        /\ c \in TCH => pc \in TCHState /\ thread[c].pc # "idle"
        /\ \A t \in TCH : c = SACCH(t) => pc \in SACCHState
        /\ pc \in Calling <=> thread[c].pc \in Calling
        /\ \/ thread[c].pc \in {"confirm", "assign"}
           \/ pc \notin Calling
           \/ thread[c].pc \in {"assigning", "again"} /\ pc \in {"assigning", "again"}
    BY <1>1, <1>3, Constants
       DEF Advanced, Places, ThreadPlaces, SDCCHState, TCHState, SACCHState, Calling
  <2>3. Unmoved(c)' => Unmoved(c)
    BY <1>2, <2>2, Constants DEF Unmoved, Calling
  <2> QED BY <1>2, <2>1, <2>2, <2>3, PlacesGo
<1>4. CASE pc = "confirm"
  <2> DEFINE t == thread'[c].tch
  <2>1. c \in SDCCH /\ t \in FreeTCH /\ thread[c].pc = "begin"
    BY <1>1, <1>4 DEF GoesOn, Advanced
  <2>2. /\ t \in TCH /\ t \in Channel /\ t # c /\ t # None
        /\ thread[t].pc = "idle"
        /\ \A d \in Channel : thread[d].tch # t
        /\ \A m \in Mobile : phone[m] # t
    BY <2>1, Constants DEF FreeTCH, Open
  <2> HIDE DEF t
  <2>3. thread'[c].tch = t
    BY DEF t
  <2>4. ThreadPlaces'
    BY <1>2, <1>4, <2>1, Constants DEF Places, ThreadPlaces, SDCCHState
  <2>5. \A d \in Channel : thread'[d].tch # None <=> thread'[d].pc \in Calling
    BY <1>2, <1>4, <2>2, <2>3 DEF Places, TCHPlaces, Calling
  <2>6. TCHPlaces'
    BY <1>2, <2>2, <2>3, <2>5 DEF Places, TCHPlaces, Calling
  <2>7. ASSUME NEW d \in Channel, Unmoved(d)'
        PROVE  /\ thread'[thread'[d].tch].pc = "idle"
               /\ \A m \in Mobile : phone'[m] # thread'[d].tch
    <3>1. CASE d = c
      BY <1>2, <2>2, <2>3, <3>1
    <3>2. CASE d # c
      <4>1. Unmoved(d) /\ thread'[d] = thread[d] /\ thread[d].pc \in Calling
        BY <1>2, <2>7, <3>2, Constants DEF Unmoved, Calling
      <4>2. thread[d].tch \in TCH /\ thread[d].tch # c /\ thread[d].tch \in Channel
        BY <2>1, <4>1, Types, Constants DEF Places, TCHPlaces, ThreadState, Calling
      <4>3. thread[thread[d].tch].pc = "idle" /\ \A m \in Mobile : phone[m] # thread[d].tch
        BY <4>1 DEF Places, PhonePlaces
      <4> QED BY <1>2, <4>1, <4>2, <4>3, Constants
    <3> QED BY <3>1, <3>2
  <2>8. PhonePlaces'
    BY <1>2, <2>7, MTAssumption DEF Places, PhonePlaces
  <2> QED BY <2>4, <2>6, <2>8 DEF Places
<1> QED  BY <1>3, <1>4

\* A thread gets an entry.
LEMMA PlacesGets ==
  ASSUME TypeOK, Places, NEW c \in Channel, NEW i, NEW pc, Gets(c, i, pc), UNCHANGED phone,
         \/ c \in SDCCH /\ pc = "attach" /\ thread[c].pc = "answer"
         \/ c \in TCH /\ pc = "alerting" /\ thread[c].pc = "complete"
         \/ pc = "begin" /\ thread[c].pc = "idle" /\ \E t \in TCH : c = SACCH(t)
  PROVE  Places'
<1>1. /\ thread'[c].pc = pc /\ thread'[c].tch = thread[c].tch
      /\ \A d \in Channel : d # c => thread'[d] = thread[d]
  BY DEF Gets
<1>2. /\ c \in SDCCH => pc \in SDCCHState
      /\ c \in TCH => pc \in TCHState /\ thread[c].pc # "idle"
      /\ \A t \in TCH : c = SACCH(t) => pc \in SACCHState
      /\ pc \notin Calling /\ thread[c].pc \notin Calling
  BY Constants DEF SDCCHState, TCHState, SACCHState, Calling
<1>3. ~Unmoved(c)'
  BY <1>1, <1>2 DEF Unmoved, Calling
<1> QED  BY <1>1, <1>2, <1>3, PlacesGo

\* Move(c): the TCH that a phone is assigned is nobody else's.
LEMMA PlacesMove ==
  ASSUME TypeOK, Places, NEW c \in SDCCH, Move(c)
  PROVE  Places'
<1> DEFINE t == thread[c].tch
<1>1. /\ thread[c].pc \in Loop /\ t \in TCH
      /\ thread' \in [Channel -> ThreadState]
      /\ thread'[t].pc = "complete" /\ thread'[t].tch = None
      /\ \A d \in Channel : d # t => thread'[d] = thread[d]
  BY MoveEffect DEF Places
<1>2. PICK m \in Mobile : /\ phone[m] = c /\ phone'[m] = t
                          /\ \A n \in Mobile : n # m => phone'[n] = phone[n]
  BY MoveEffect DEF Places
<1>3. Unmoved(c) /\ c \in Channel /\ t \in Channel /\ t # c /\ t \notin SDCCH /\ t # None
  BY <1>1, <1>2, Constants DEF Unmoved, Loop
<1>4. thread[t].pc = "idle" /\ thread[t].tch = None
  BY <1>3 DEF Places, PhonePlaces, TCHPlaces
<1> HIDE DEF t
<1>5. ThreadPlaces'
  BY <1>1, Constants DEF Places, ThreadPlaces, TCHState
<1>6. \A d \in Channel : thread'[d].tch = thread[d].tch
  BY <1>1, <1>4
<1>7. \A d \in Channel : thread'[d].pc \in Calling <=> thread[d].pc \in Calling
  BY <1>1, <1>4 DEF Calling
<1>8. TCHPlaces'
  BY <1>6, <1>7 DEF Places, TCHPlaces, Calling
<1>9. \A n, k \in Mobile : phone'[n] = phone'[k] /\ phone'[n] \in SDCCH => n = k
  BY <1>2, <1>3 DEF Places, PhonePlaces
<1>10. ASSUME NEW d \in Channel, Unmoved(d)'
       PROVE  /\ thread'[thread'[d].tch].pc = "idle"
              /\ \A n \in Mobile : phone'[n] # thread'[d].tch
  <2>1. thread'[d].pc \in Calling /\ thread[d].pc \in Calling /\ d # t
    BY <1>1, <1>7, <1>10 DEF Unmoved, Calling
  <2>2. d # c
    <3>1. SUFFICES ASSUME d = c  PROVE FALSE
      OBVIOUS
    <3>2. thread'[c].pc \in Loop
      BY <1>1, <1>3
    <3>3. PICK n \in Mobile : phone'[n] = c
      BY <1>10, <3>1, <3>2 DEF Unmoved, Loop
    <3>4. n # m /\ phone[n] = c
      BY <1>2, <1>3, <3>3
    <3> QED BY <1>2, <3>4 DEF Places, PhonePlaces
  <2>3. Unmoved(d)
    <3>1. thread'[d] = thread[d]
      BY <1>1, <2>1
    <3>2. \A n \in Mobile : phone'[n] = d => phone[n] = d
      BY <1>2, <2>1
    <3> QED BY <1>10, <3>1, <3>2 DEF Unmoved
  <2>4. thread[d].tch # t /\ thread[d].tch \in TCH
    BY <1>3, <2>1, <2>2, Types DEF Places, TCHPlaces, t, Calling, ThreadState
  <2>5. thread[thread[d].tch].pc = "idle" /\ \A n \in Mobile : phone[n] # thread[d].tch
    BY <2>3 DEF Places, PhonePlaces
  <2> QED BY <1>1, <1>2, <1>6, <2>4, <2>5, Constants
<1>11. PhonePlaces'
  BY <1>9, <1>10 DEF PhonePlaces
<1> QED  BY <1>5, <1>8, <1>11 DEF Places

\* A phone that answers a page goes to a channel nobody is on.
LEMMA PlacesAnswer ==
  ASSUME TypeOK, Places, NEW m \in Mobile, NEW c \in SDCCH, Answer(m, c)
  PROVE  Places'
<1>1. /\ phone'[m] = c /\ \A n \in Mobile : n # m => phone'[n] = phone[n]
      /\ phone[m] = None /\ \A n \in Mobile : phone[n] # c
      /\ thread[c].pc = "idle"
      /\ thread'[c].pc = "response" /\ thread'[c].tch = None
      /\ \A d \in Channel : d # c => thread'[d] = thread[d]
      /\ c \in Channel /\ c \notin TCH
  BY AnswerEffect, Constants
<1>2. ThreadPlaces'
  BY <1>1, Constants DEF Places, ThreadPlaces, SDCCHState
<1>3. \A d \in Channel : thread'[d].tch # None <=> thread'[d].pc \in Calling
  BY <1>1 DEF Places, TCHPlaces, Calling
<1>4. TCHPlaces'
  BY <1>1, <1>3 DEF Places, TCHPlaces, Calling
<1>5. \A n, k \in Mobile : phone'[n] = phone'[k] /\ phone'[n] \in SDCCH => n = k
  BY <1>1 DEF Places, PhonePlaces
<1>6. ASSUME NEW d \in Channel, Unmoved(d)'
      PROVE  /\ thread'[thread'[d].tch].pc = "idle"
             /\ \A n \in Mobile : phone'[n] # thread'[d].tch
  <2>1. d # c /\ thread'[d] = thread[d] /\ thread[d].pc \in Calling
    BY <1>1, <1>6 DEF Unmoved, Calling
  <2>2. Unmoved(d)
    BY <1>1, <1>6, <2>1 DEF Unmoved
  <2>3. thread[d].tch \in TCH /\ thread[d].tch # c /\ thread[d].tch \in Channel
    BY <1>1, <2>1, Types, Constants DEF Places, TCHPlaces, Calling, ThreadState
  <2>4. thread[thread[d].tch].pc = "idle" /\ \A n \in Mobile : phone[n] # thread[d].tch
    BY <2>2 DEF Places, PhonePlaces
  <2> QED BY <1>1, <2>1, <2>3, <2>4
<1>7. PhonePlaces'
  BY <1>5, <1>6 DEF PhonePlaces
<1> QED  BY <1>2, <1>4, <1>7 DEF Places

\* Each step of a channel's thread keeps where threads and phones are.
LEMMA PlacesThread ==
  ASSUME TypeOK, Indices, Places, NEW c \in Channel, ThreadStep(c)
  PROVE  Places'
<1>1. CASE Leaves(c)
  BY <1>1, PlacesLeft DEF Leaves, Works
<1>2. CASE Advances(c)
  BY <1>2, PlacesAdvances
<1>3. CASE c \in SDCCH /\ RemovePage(c)
  <2>1. /\ thread'[c] = [thread[c] EXCEPT !.pc = "answer"]
        /\ \A d \in Channel : d # c => thread'[d] = thread[d]
        /\ thread[c].pc = "response" /\ UNCHANGED phone
    BY <1>3, GoEffect DEF RemovePage, ThreadPC
  <2>2. thread'[c].pc = "answer" /\ thread'[c].tch = thread[c].tch
    BY <2>1, Types DEF ThreadState
  <2>3. c \notin TCH /\ \A t \in TCH : c # SACCH(t)
    BY <1>3, Constants
  <2>4. "answer" \in SDCCHState /\ thread'[c].pc \notin Calling /\ thread[c].pc \notin Calling
    BY <2>1, <2>2 DEF SDCCHState, Calling
  <2>5. ~Unmoved(c)'
    BY <2>2 DEF Unmoved
  <2> QED BY <2>1, <2>2, <2>3, <2>4, <2>5, PlacesGo
<1>4. CASE c \in SDCCH /\ answeredPaging(c)
  <2>1. CASE SweptAndQuit(c)
    BY <2>1, PlacesLeft DEF SweptAndQuit
  <2>2. ASSUME NEW i \in ID, Answers(c, i), thread[c].pc = "answer"
        PROVE  Places'
    BY <1>4, <2>2, PlacesGets DEF Answers
  <2> QED BY <1>4, <2>1, <2>2, answeredPagingEffect
<1>5. CASE c \in SDCCH /\ Move(c)
  BY <1>5, PlacesMove
<1>6. CASE c \in TCH /\ AssignmentComplete(c)
  <2>1. CASE SweptAndQuit(c)
    BY <2>1, PlacesLeft DEF SweptAndQuit
  <2>2. ASSUME NEW i \in ID, Completes(c, i), thread[c].pc = "complete"
        PROVE  Places'
    BY <1>6, <2>2, PlacesGets DEF Completes
  <2> QED BY <1>6, <2>1, <2>2, AssignmentCompleteEffect
<1>7. ASSUME NEW t \in TCH, c = SACCH(t), InCallSMS(t)
      PROVE  Places'
  BY <1>7, InCallSMSEffect, PlacesGets
<1> QED  BY <1>1, <1>2, <1>3, <1>4, <1>5, <1>6, <1>7, ThreadSteps DEF Places

\* Where threads and phones are is inductive.
LEMMA PlacesNext ==
  ASSUME TypeOK, Indices, Places, [Next]_vars
  PROVE  Places'
<1>1. CASE UNCHANGED <<thread, phone>>
  BY <1>1, PlacesLeft
<1>2. ASSUME NEW m \in Mobile, LeaveChannel(m)
      PROVE  Places'
  <2>1. \A n \in Mobile : phone'[n] \in {phone[n], None}
    BY <1>2, Types DEF LeaveChannel
  <2> QED BY <1>2, <2>1, PlacesLeft DEF LeaveChannel
<1>3. ASSUME NEW m \in Mobile, NEW c \in SDCCH, Answer(m, c)
      PROVE  Places'
  BY <1>3, PlacesAnswer
<1>4. ASSUME NEW c \in Channel, ThreadStep(c)
      PROVE  Places'
  BY <1>4, PlacesThread
<1>5. ASSUME SIPThread
      PROVE  UNCHANGED <<thread, phone>>
  BY <1>5 DEF SIPThread, Repeated, SendTrying, Refuse, NewTransaction, SetPaging, ListPage
<1> QED  BY <1>1, <1>2, <1>3, <1>4, <1>5
         DEF Next, vars, OtherScan, Tick, Invite, SendPage, DropPage

----------------------------------------------------------------------------
(* FIFOs *)

Messages == Arrivals /\ FIFOs

\* The SIP thread is where it was, or is not at the two points that matter.
SIPGoesOn ==
  /\ sip'.pc = "invite" => sip.pc = "invite" /\ sip'.request = sip.request
  /\ sip'.pc = "trying" => sip.pc = "trying" /\ sip'.id = sip.id

\* The entries are swept, and their FIFOs with them, or stay; some may be removed.
Quiet ==
  /\ ID' = ID /\ count' = count /\ SIPGoesOn
  /\ \A i \in ID : /\ table'[i].request = table[i].request
                   /\ table[i].removed => table'[i].removed
  /\ \/ /\ \A i \in ID : table'[i].erased <=> table[i].erased
        /\ sipMap' = sipMap
     \/ /\ \A i \in ID : table'[i].erased <=> table[i].erased \/ dead(table[i])
        /\ sipMap' = FIFOsKept

\* An entry that is alone loses its FIFO as it is deleted, not before.
LEMMA FIFOsOfOthers ==
  ASSUME FIFOs, NEW i \in ID, ~table[i].erased, ~dead(table[i]),
         count[table[i].request] <= 2, table[i].request \in sipMap
  PROVE  table[i].request \in FIFOsKept
<1>1. ASSUME NEW j \in ID, dead(table[j]), ~table[j].erased, table[j].request = table[i].request
      PROVE  FALSE
  BY <1>1 DEF FIFOs
<1> QED  BY <1>1 DEF FIFOsKept

\* A step without an arrival keeps the arrivals and the FIFOs.
LEMMA MessagesQuiet ==
  ASSUME TypeOK, Indices, Messages, Quiet
  PROVE  Messages'
<1>1. \A i \in ID : table'[i].request = table[i].request
  BY DEF Quiet
<1>2. \A i \in ID : Once(i)' <=> Once(i)
  BY <1>1 DEF Quiet, Once
<1>3. \A r : Invited(r)' => Invited(r)
  BY DEF Quiet, SIPGoesOn, Invited
<1>4. sipMap' \subseteq sipMap /\ sipMap' \subseteq Request
  BY ScanTypes, Types DEF Quiet, FIFOsKept
<1>5. Arrivals'
  <2>1. sip'.pc = "invite" => count'[sip'.request] >= 1
    BY DEF Quiet, SIPGoesOn, Messages, Arrivals
  <2>2. ASSUME NEW i \in ID
        PROVE  count'[table'[i].request] >=
                 IF sip'.pc = "invite" /\ sip'.request = table'[i].request THEN 2 ELSE 1
    <3>1. count[table[i].request] \in Nat
      BY Tables, Types DEF Entry
    <3>2. count[table[i].request] >=
            IF sip.pc = "invite" /\ sip.request = table[i].request THEN 2 ELSE 1
      BY DEF Messages, Arrivals, Invited
    <3>3. table'[i].request = table[i].request /\ count' = count
      BY DEF Quiet
    <3>4. sip'.pc = "invite" => sip.pc = "invite" /\ sip'.request = sip.request
      BY DEF Quiet, SIPGoesOn
    <3> QED BY <3>1, <3>2, <3>3, <3>4
  <2>3. ASSUME NEW r \in sipMap'
        PROVE  count'[r] >= IF sip'.pc = "invite" /\ sip'.request = r THEN 2 ELSE 1
    <3>1. r \in sipMap /\ count[r] \in Nat /\ count' = count
      BY <1>4, Types DEF Quiet
    <3>2. count[r] >= IF sip.pc = "invite" /\ sip.request = r THEN 2 ELSE 1
      BY <3>1 DEF Messages, Arrivals, Invited
    <3> QED BY <3>1, <3>2 DEF Quiet, SIPGoesOn
  <2>4. \A i, j \in ID : Once(i)' /\ table'[i].request = table'[j].request => i = j
    BY <1>1, <1>2 DEF Messages, Arrivals
  <2>5. sip'.pc = "trying" => (~Once(sip.id))'
    <3>1. SUFFICES ASSUME sip'.pc = "trying"  PROVE count'[table'[sip'.id].request] # 1
      BY DEF Once
    <3>2. sip.pc = "trying" /\ sip'.id = sip.id
      BY <3>1 DEF Quiet, SIPGoesOn
    <3>3. sip.id \in ID /\ ~Once(sip.id)
      BY <3>2 DEF Indices, Messages, Arrivals
    <3> QED BY <1>1, <3>2, <3>3 DEF Once, Quiet
  <2>6. ID' = ID
    BY DEF Quiet
  <2> QED BY <2>1, <2>2, <2>3, <2>4, <2>5, <2>6 DEF Arrivals, Invited
<1>6. \A i \in ID : ~table'[i].erased => ~table[i].erased
  BY DEF Quiet
<1>7. ASSUME NEW i \in ID, ~table'[i].erased, count'[table'[i].request] <= 2,
             table'[i].request \notin sipMap'
      PROVE  /\ table'[i].removed /\ count'[table'[i].request] = 2
             /\ ~(sip'.pc = "invite" /\ sip'.request = table'[i].request)
  <2>1. /\ table'[i].request = table[i].request /\ count' = count
        /\ table[i].removed => table'[i].removed
    BY DEF Quiet
  <2>2. table[i].request \notin sipMap
    <3>1. SUFFICES ASSUME table[i].request \in sipMap  PROVE FALSE
      OBVIOUS
    <3>2. (table'[i].erased <=> table[i].erased \/ dead(table[i])) /\ sipMap' = FIFOsKept
      BY <1>7, <2>1, <3>1 DEF Quiet
    <3> QED BY <1>7, <2>1, <3>1, <3>2, FIFOsOfOthers DEF Messages
  <2>3. /\ table[i].removed /\ count[table[i].request] = 2
        /\ ~(sip.pc = "invite" /\ sip.request = table[i].request)
    BY <1>6, <1>7, <2>1, <2>2 DEF Messages, FIFOs, Invited
  <2> QED BY <2>1, <2>3 DEF Quiet, SIPGoesOn
<1>8. ASSUME NEW i \in ID, NEW j \in ID, ~table'[i].erased, ~table'[j].erased,
             table'[i].request = table'[j].request, count'[table'[i].request] <= 2
      PROVE  i = j
  BY <1>1, <1>6, <1>8 DEF Quiet, Messages, FIFOs
<1>9. ID' = ID
  BY DEF Quiet
<1>10. FIFOs'
  BY <1>7, <1>8, <1>9 DEF FIFOs, Invited
<1> QED  BY <1>5, <1>10 DEF Messages

\* Most steps are quiet: those that leave the table and the SIP thread alone...
LEMMA QuietSame ==
  ASSUME TypeOK, UNCHANGED <<table, sipMap, count>>, SIPGoesOn
  PROVE  Quiet
  BY SameTable DEF Quiet

\* ... those of a search ...
LEMMA QuietSwept ==
  ASSUME Swept, sipMap' = FIFOsKept, UNCHANGED count, SIPGoesOn
  PROVE  Quiet
  BY DEF Quiet, Swept

\* ... and those that change one entry.
LEMMA QuietPut ==
  ASSUME UNCHANGED <<sipMap, count>>, SIPGoesOn, ID' = ID, NEW k \in ID,
         \A i \in ID : i # k => table'[i] = table[i],
         table'[k].request = table[k].request, table'[k].erased = table[k].erased,
         table[k].removed => table'[k].removed
  PROVE  Quiet
<1>1. \A i \in ID : /\ table'[i].request = table[i].request
                    /\ table[i].removed => table'[i].removed
                    /\ table'[i].erased = table[i].erased
  OBVIOUS
<1>2. \A i \in ID : table'[i].erased <=> table[i].erased
  BY <1>1
<1> QED  BY <1>1, <1>2 DEF Quiet

\* Giving an entry up is no arrival.
LEMMA QuietLeaves ==
  ASSUME NEW c \in Channel, Leaves(c)
  PROVE  Quiet
<1> DEFINE k == thread[c].id
<1>1. /\ k \in ID /\ ID' = ID /\ \A i \in ID : i # k => table'[i] = table[i]
      /\ UNCHANGED <<sipMap, sip, count>>
  BY DEF Leaves, Works
<1>2. /\ table'[k].request = table[k].request /\ table'[k].erased = table[k].erased
      /\ table[k].removed => table'[k].removed
  BY DEF Leaves, Ended, Mine
<1>3. SIPGoesOn
  BY <1>1 DEF SIPGoesOn
<1> HIDE DEF k
<1> QED  BY <1>1, <1>2, <1>3, QuietPut

\* Going on to the next wait is no arrival.
LEMMA QuietAdvances ==
  ASSUME NEW c \in Channel, Advances(c)
  PROVE  Quiet
<1> DEFINE k == thread[c].id
<1>1. PICK e \in Entry, pc \in ThreadPC : GoesOn(c, e, pc) /\ Advanced(c, e, pc)
  BY DEF Advances
<1>2. /\ k \in ID /\ ID' = ID /\ \A i \in ID : i # k => table'[i] = table[i]
      /\ UNCHANGED <<sipMap, sip, count>> /\ table'[k] = e
  BY <1>1 DEF GoesOn, Works
<1>3. e.request = table[k].request /\ e.erased = table[k].erased /\ e.removed = table[k].removed
  BY <1>1 DEF Advanced, Mine
<1>4. SIPGoesOn
  BY <1>2 DEF SIPGoesOn
<1>5. table'[k].request = table[k].request /\ table'[k].erased = table[k].erased
      /\ (table[k].removed => table'[k].removed)
  BY <1>2, <1>3
<1> HIDE DEF k
<1> QED  BY <1>2, <1>4, <1>5, QuietPut

\* No step of a channel's thread is an arrival.
LEMMA QuietThread ==
  ASSUME TypeOK, Indices, Places, NEW c \in Channel, ThreadStep(c)
  PROVE  Quiet
<1>1. CASE UNCHANGED <<table, sipMap, sip, count>>
  BY <1>1, QuietSame DEF SIPGoesOn
<1>2. CASE SweptAndQuit(c)
  BY <1>2, QuietSwept DEF SweptAndQuit, SIPGoesOn
<1>3. CASE c \in SDCCH /\ answeredPaging(c)
  <2>1. ASSUME NEW i \in ID, Answers(c, i)
        PROVE  Quiet
    BY <2>1 DEF Answers, Quiet, SIPGoesOn
  <2> QED BY <1>2, <1>3, <2>1, answeredPagingEffect
<1>4. CASE c \in TCH /\ AssignmentComplete(c)
  <2>1. ASSUME NEW i \in ID, Completes(c, i)
        PROVE  Quiet
    BY <2>1, QuietSwept DEF Completes, SIPGoesOn
  <2> QED BY <1>2, <1>4, <2>1, AssignmentCompleteEffect
<1> QED  BY <1>1, <1>3, <1>4, QuietLeaves, QuietAdvances, ThreadSteps
         DEF RemovePage, Move, InCallSMS, Places

\* The SIP thread's later steps for a request are no arrival.
LEMMA QuietSIP ==
  ASSUME TypeOK, Indices, SendTrying \/ Refuse \/ SetPaging \/ ListPage
  PROVE  Quiet
<1>1. CASE SendTrying
  <2>1. SIPGoesOn
    BY <1>1, SendTryingEffect DEF SIPGoesOn
  <2> QED BY <1>1, <2>1, SendTryingEffect, QuietPut
<1>2. CASE Refuse
  <2>1. SIPGoesOn
    BY <1>2, RefuseEffect, Idle DEF SIPGoesOn
  <2> QED BY <1>2, <2>1, RefuseEffect, QuietSame, QuietSwept
<1>3. CASE SetPaging
  <2>1. SIPGoesOn
    BY <1>3, SetPagingEffect DEF SIPGoesOn
  <2> QED BY <1>3, <2>1, SetPagingEffect, QuietSame, QuietPut
<1>4. CASE ListPage
  <2>1. SIPGoesOn
    BY <1>4, ListPageEffect, Idle DEF SIPGoesOn
  <2> QED BY <1>4, <2>1, ListPageEffect, QuietSame
<1> QED  BY <1>1, <1>2, <1>3, <1>4

\* A request arrives: what it has here is counted twice now.
LEMMA MessagesInvite ==
  ASSUME TypeOK, Indices, Messages, NEW r \in Request, Invite(r)
  PROVE  Messages'
<1>1. /\ Swept /\ sipMap' = FIFOsKept /\ sip.pc = "idle"
      /\ sip'.pc = "invite" /\ sip'.request = r
      /\ count'[r] = count[r] + 1
      /\ \A q \in Request : q # r => count'[q] = count[q]
  BY InviteEffect
<1>2. /\ ID' = ID
      /\ \A i \in ID : /\ table'[i].request = table[i].request
                       /\ table'[i].removed = table[i].removed
                       /\ table'[i].erased <=> table[i].erased \/ dead(table[i])
  BY <1>1 DEF Swept
<1>3. \A q \in Request : count[q] \in Nat
  BY Types
<1>4. \A i \in ID : table[i].request \in Request
  BY Tables, Types DEF Entry
<1>5. /\ \A i \in ID : count[table[i].request] >= 1
      /\ \A q \in sipMap : q \in Request /\ count[q] >= 1
  BY <1>1, Types DEF Messages, Arrivals, Invited
<1>6. Arrivals'
  <2>1. count'[r] >= 1
    BY <1>1, <1>3
  <2>2. \A i \in ID : count'[table[i].request] >= IF r = table[i].request THEN 2 ELSE 1
    BY <1>1, <1>3, <1>4, <1>5
  <2>3. \A q \in sipMap' : count'[q] >= IF r = q THEN 2 ELSE 1
    <3>1. sipMap' \subseteq sipMap
      BY <1>1 DEF FIFOsKept
    <3> QED BY <1>1, <1>3, <1>5, <3>1
  <2>4. \A i \in ID : count'[table[i].request] = 1 => count[table[i].request] = 1
    BY <1>1, <1>3, <1>4, <1>5
  <2>5. \A i, j \in ID : count'[table[i].request] = 1 /\ table[i].request = table[j].request => i = j
    BY <2>4 DEF Messages, Arrivals, Once
  <2> QED BY <1>1, <1>2, <2>1, <2>2, <2>3, <2>5 DEF Arrivals, Invited, Once
<1>7. \A q \in Request : count'[q] <= 2 => count[q] <= 2
  BY <1>1, <1>3
<1>8. ASSUME NEW i \in ID, NEW j \in ID, ~table'[i].erased, ~table'[j].erased,
             table'[i].request = table'[j].request, count'[table'[i].request] <= 2
      PROVE  i = j
  BY <1>2, <1>4, <1>7, <1>8 DEF Messages, FIFOs
<1>9. ASSUME NEW i \in ID, ~table'[i].erased, count'[table'[i].request] <= 2,
             table'[i].request \notin sipMap'
      PROVE  /\ table'[i].removed /\ count'[table'[i].request] = 2 /\ table'[i].request # r
  <2>1. ~table[i].erased /\ ~dead(table[i]) /\ count[table[i].request] <= 2
    BY <1>2, <1>4, <1>7, <1>9
  <2>2. table[i].request \notin sipMap
    BY <1>1, <1>2, <1>9, <2>1, FIFOsOfOthers DEF Messages
  <2>3. table[i].removed /\ count[table[i].request] = 2
    BY <2>1, <2>2 DEF Messages, FIFOs
  <2>4. table[i].request # r
    BY <1>1, <1>2, <1>3, <1>9, <2>3
  <2> QED BY <1>1, <1>2, <1>4, <2>3, <2>4
<1>10. FIFOs'
  BY <1>1, <1>2, <1>8, <1>9 DEF FIFOs, Invited
<1> QED  BY <1>6, <1>10 DEF Messages

\* The request is found to be known: if its entry is not live, its FIFO is dropped, once the
\* entry has been removed.
LEMMA MessagesRepeated ==
  ASSUME TypeOK, Indices, Messages, Repeated
  PROVE  Messages'
<1> DEFINE r == sip.request
<1>1. /\ Swept /\ sip.pc = "invite" /\ r \in sipMap /\ count' = count
      /\ sip'.pc # "invite"
      /\ sipMap' \in {FIFOsKept, FIFOsKept \ {r}}
  BY RepeatedEffect, Idle
<1>2. /\ ID' = ID
      /\ \A i \in ID : /\ table'[i].request = table[i].request
                       /\ table'[i].removed = table[i].removed
                       /\ table'[i].erased <=> table[i].erased \/ dead(table[i])
  BY <1>1 DEF Swept
<1>3. r \in Request /\ count[r] \in Nat /\ count[r] >= 2
  BY <1>1, Types DEF Messages, Arrivals, Invited
<1>4. sip'.pc = "trying" => sip'.id \in ID /\ table[sip'.id].request = r
  BY RepeatedEffect, Idle, Searches
<1>5. Arrivals'
  <2>1. ASSUME NEW i \in ID  PROVE count[table[i].request] >= 1
    <3>1. count[table[i].request] >= IF Invited(table[i].request) THEN 2 ELSE 1
      BY DEF Messages, Arrivals
    <3>2. count[table[i].request] \in Nat
      BY Tables, Types DEF Entry
    <3> QED BY <3>1, <3>2
  <2>2. ASSUME NEW q \in sipMap'  PROVE count[q] >= 1
    <3>1. q \in sipMap
      BY <1>1 DEF FIFOsKept
    <3>2. count[q] >= IF Invited(q) THEN 2 ELSE 1
      BY <3>1 DEF Messages, Arrivals
    <3>3. count[q] \in Nat
      BY <3>1, Types
    <3> QED BY <3>2, <3>3
  <2>3. \A i, j \in ID : count[table[i].request] = 1 /\ table[i].request = table[j].request => i = j
    BY DEF Messages, Arrivals, Once
  <2>4. sip'.pc = "trying" => count'[table'[sip'.id].request] # 1
    BY <1>1, <1>2, <1>3, <1>4
  <2> QED BY <1>1, <1>2, <2>1, <2>2, <2>3, <2>4 DEF Arrivals, Invited, Once
<1>6. ASSUME NEW i \in ID, NEW j \in ID, ~table'[i].erased, ~table'[j].erased,
             table'[i].request = table'[j].request, count'[table'[i].request] <= 2
      PROVE  i = j
  BY <1>1, <1>2, <1>6 DEF Messages, FIFOs
<1>7. ASSUME NEW i \in ID, ~table'[i].erased, count'[table'[i].request] <= 2,
             table'[i].request \notin sipMap'
      PROVE  /\ table'[i].removed /\ count'[table'[i].request] = 2
  <2>1. ~table[i].erased /\ ~dead(table[i]) /\ count[table[i].request] <= 2
    BY <1>1, <1>2, <1>7
  <2>2. CASE table[i].request \notin FIFOsKept
    <3>1. table[i].request \notin sipMap
      BY <2>1, <2>2, FIFOsOfOthers DEF Messages
    <3> QED BY <1>1, <1>2, <2>1, <3>1 DEF Messages, FIFOs
  <2>3. CASE table[i].request \in FIFOsKept
    <3>1. table[i].request = r /\ sipMap' # FIFOsKept
      BY <1>1, <1>2, <1>7, <2>3
    <3>2. i \notin Live(table)
      BY <3>1, RepeatedEffect
    <3>3. table[i].removed
      BY <2>1, <3>2 DEF Live, deadOrRemoved, ID
    <3> QED BY <1>1, <1>2, <1>3, <2>1, <3>1, <3>3
  <2> QED BY <2>2, <2>3
<1>8. FIFOs'
  BY <1>1, <1>2, <1>6, <1>7 DEF FIFOs, Invited
<1> QED  BY <1>5, <1>8 DEF Messages

\* A new entry has its FIFO, and is alone if its request has come twice at most.
LEMMA MessagesNew ==
  ASSUME TypeOK, Indices, Messages, NEW k, NewPaged(k) \/ NewQueued(k)
  PROVE  Messages'
<1> DEFINE r == sip.request
<1>1. /\ sip.pc = "invite" /\ r \notin sipMap /\ count' = count
      /\ k \notin ID /\ ID' = ID \cup {k}
      /\ \A i \in ID : /\ table'[i].request = table[i].request
                       /\ table'[i].removed = table[i].removed
      /\ table'[k].request = r
  BY DEF NewPaged, NewQueued, Added
<1>2. sip'.pc \in {"page", "idle"}
  BY Idle DEF NewPaged, NewQueued
<1>3. /\ FIFOsKept \cup {r} \subseteq sipMap' /\ sipMap' \subseteq sipMap \cup {r}
      /\ \A i \in ID : (table'[i].erased => table[i].erased \/ dead(table[i]))
                       /\ (table[i].erased => table'[i].erased)
      /\ \/ sipMap \subseteq sipMap'
         \/ \A i \in ID : dead(table[i]) => table'[i].erased
  BY DEF NewPaged, NewQueued, FIFOsKept
<1>4. r \in Request /\ count[r] \in Nat /\ count[r] >= 1
  BY <1>1, Types DEF SIPThreadState, Messages, Arrivals
<1>5. \A i \in ID : table[i].request = r => count[r] >= 2
  BY <1>1 DEF Messages, Arrivals, Invited
<1>6. \A i \in ID : table[i].request = r /\ count[r] <= 2 => table[i].erased
  BY <1>1 DEF Messages, FIFOs, Invited
<1>7. Arrivals'
  <2>1. ASSUME NEW i \in ID'  PROVE count[table'[i].request] >= 1
    <3>1. CASE i = k
      BY <1>1, <1>4, <3>1
    <3>2. CASE i \in ID
      <4>1. count[table[i].request] >= IF Invited(table[i].request) THEN 2 ELSE 1
        BY <3>2 DEF Messages, Arrivals
      <4>2. count[table[i].request] \in Nat
        BY <3>2, Tables, Types DEF Entry
      <4> QED BY <1>1, <3>2, <4>1, <4>2
    <3> QED BY <1>1, <3>1, <3>2
  <2>2. ASSUME NEW q \in sipMap'  PROVE count[q] >= 1
    <3>1. CASE q = r
      BY <1>4, <3>1
    <3>2. CASE q \in sipMap
      <4>1. count[q] >= IF Invited(q) THEN 2 ELSE 1
        BY <3>2 DEF Messages, Arrivals
      <4>2. count[q] \in Nat
        BY <3>2, Types
      <4> QED BY <4>1, <4>2
    <3> QED BY <1>3, <3>1, <3>2
  <2>3. ASSUME NEW i \in ID', NEW j \in ID', count[table'[i].request] = 1,
               table'[i].request = table'[j].request
        PROVE  i = j
    <3>1. CASE i \in ID /\ j \in ID
      BY <1>1, <2>3, <3>1 DEF Messages, Arrivals, Once
    <3>2. CASE i = k \/ j = k
      BY <1>1, <1>4, <1>5, <2>3, <3>2
    <3> QED BY <1>1, <3>1, <3>2
  <2> QED BY <1>1, <1>2, <2>1, <2>2, <2>3 DEF Arrivals, Invited, Once
<1>8. ASSUME NEW i \in ID', NEW j \in ID', ~table'[i].erased, ~table'[j].erased,
             table'[i].request = table'[j].request, count'[table'[i].request] <= 2
      PROVE  i = j
  <2>1. CASE i \in ID /\ j \in ID
    BY <1>1, <1>3, <1>8, <2>1 DEF Messages, FIFOs
  <2>2. CASE i = k \/ j = k
    BY <1>1, <1>3, <1>6, <1>8, <2>2
  <2> QED BY <1>1, <2>1, <2>2
<1>9. ASSUME NEW i \in ID', ~table'[i].erased, count'[table'[i].request] <= 2,
             table'[i].request \notin sipMap'
      PROVE  table'[i].removed /\ count'[table'[i].request] = 2
  <2>1. i \in ID /\ table[i].request \notin sipMap'
    BY <1>1, <1>3, <1>9
  <2>2. ~table[i].erased /\ count[table[i].request] <= 2
    BY <1>1, <1>3, <1>9, <2>1
  <2>3. table[i].request \notin sipMap
    <3>1. SUFFICES ASSUME table[i].request \in sipMap  PROVE FALSE
      OBVIOUS
    <3>2. ~dead(table[i])
      BY <1>3, <1>9, <2>1, <3>1
    <3> QED BY <1>3, <2>1, <2>2, <3>1, <3>2, FIFOsOfOthers DEF Messages
  <2>4. table[i].removed /\ count[table[i].request] = 2
    BY <2>1, <2>2, <2>3 DEF Messages, FIFOs
  <2> QED BY <1>1, <2>1, <2>4
<1>10. FIFOs'
  BY <1>2, <1>8, <1>9 DEF FIFOs, Invited
<1> QED  BY <1>7, <1>10 DEF Messages

\* Arrivals and FIFOs are inductive.
LEMMA MessagesNext ==
  ASSUME TypeOK, Indices, Places, Messages, [Next]_vars
  PROVE  Messages'
<1>1. CASE OtherScan
  BY <1>1, SweptEffect, QuietSwept, MessagesQuiet DEF OtherScan, Scan, SIPGoesOn
<1>2. ASSUME NEW i \in ID, Tick(i)
      PROVE  Messages'
  <2>1. UNCHANGED <<sipMap, count>> /\ SIPGoesOn
    BY <1>2 DEF Tick, SIPGoesOn
  <2>2. Quiet
    BY <1>2, <2>1, TickEffect, QuietPut
  <2> QED BY <2>2, MessagesQuiet
<1>3. ASSUME NEW m \in Mobile, DropPage(m)
      PROVE  Messages'
  <2>1. UNCHANGED <<sipMap, count>> /\ SIPGoesOn
    BY <1>3, DropPageEffect DEF SIPGoesOn
  <2>2. CASE UNCHANGED table
    BY <2>1, <2>2, QuietSame, MessagesQuiet
  <2>3. CASE ~ UNCHANGED table
    <3>1. PICK k \in ID :
            /\ ID' = ID
            /\ \A i \in ID : i # k => table'[i] = table[i]
            /\ table'[k].request = table[k].request
            /\ table'[k].removed
            /\ table'[k].erased = table[k].erased
      BY <1>3, <2>3, DropPageEffect
    <3>2. Quiet
      BY <2>1, <3>1, QuietPut
    <3> QED BY <3>2, MessagesQuiet
  <2> QED BY <2>2, <2>3
<1>4. CASE UNCHANGED <<table, sipMap, sip, count>>
  BY <1>4, QuietSame, MessagesQuiet DEF SIPGoesOn
<1>5. CASE SIPThread
  BY <1>5, QuietSIP, MessagesQuiet, MessagesRepeated, MessagesNew, NewTransactionEffect
     DEF SIPThread
<1>6. ASSUME NEW c \in Channel, ThreadStep(c)
      PROVE  Messages'
  BY <1>6, QuietThread, MessagesQuiet
<1>7. ASSUME NEW m \in Mobile, NEW c \in SDCCH, Answer(m, c)
      PROVE  UNCHANGED <<table, sipMap, sip, count>>
  BY <1>7 DEF Answer
<1> QED  BY <1>1, <1>2, <1>3, <1>4, <1>5, <1>6, <1>7, MessagesInvite
         DEF Next, vars, SendPage, LeaveChannel

----------------------------------------------------------------------------
(* Queues and kinds *)

\* What is in the queues stays there, or leaves.
LEMMA QueuesKept ==
  ASSUME TypeOK, Indices, Queues, ID \subseteq ID',
         sip'.pc = "invite" /\ sip'.chan # None => sip'.request \in SMS,
         \A i \in ID : table'[i].request = table[i].request,
         \A t \in TCH : queue'[t] \in {queue[t], <<>>}
  PROVE  Queues'
<1>1. \A t \in TCH : \A n \in DOMAIN queue'[t] : n \in DOMAIN queue[t] /\ queue'[t][n] = queue[t][n]
  OBVIOUS
<1>2. \A t \in TCH : \A n \in DOMAIN queue[t] : queue[t][n] \in ID
  BY DEF Indices
<1> QED  BY <1>1, <1>2 DEF Queues

\* Taking the head of a SACCH's queue leaves the others as they are.
LEMMA QueuesTaken ==
  ASSUME TypeOK, Indices, Queues, NEW t \in TCH, InCallSMS(t)
  PROVE  Queues' /\ \A u \in TCH : \A n \in DOMAIN queue'[u] : queue'[u][n] # Head(queue[t])
<1>1. /\ queue[t] # <<>> /\ queue[t] \in Seq(Nat)
      /\ queue'[t] = Tail(queue[t])
      /\ \A u \in TCH : u # t => queue'[u] = queue[u]
      /\ UNCHANGED <<table, sip>>
  BY InCallSMSEffect
<1>2. /\ 1 \in DOMAIN queue[t] /\ Head(queue[t]) = queue[t][1]
      /\ \A n \in DOMAIN Tail(queue[t]) :
           n \in Nat /\ n + 1 \in DOMAIN queue[t] /\ n + 1 # 1 /\ Tail(queue[t])[n] = queue[t][n + 1]
  BY <1>1
<1>3. \A u \in TCH : \A n \in DOMAIN queue'[u] :
        \E k \in DOMAIN queue[u] : /\ k = IF u = t THEN n + 1 ELSE n
                                   /\ queue'[u][n] = queue[u][k]
                                   /\ u = t => k # 1
  <2>1. SUFFICES ASSUME NEW u \in TCH, NEW n \in DOMAIN queue'[u]
                 PROVE  \E k \in DOMAIN queue[u] : /\ k = IF u = t THEN n + 1 ELSE n
                                                   /\ queue'[u][n] = queue[u][k]
                                                   /\ u = t => k # 1
    OBVIOUS
  <2>2. CASE u = t
    <3>1. n \in DOMAIN Tail(queue[t])
      BY <1>1, <2>1, <2>2
    <3>2. n + 1 \in DOMAIN queue[u] /\ n + 1 # 1 /\ queue'[u][n] = queue[u][n + 1]
      BY <1>1, <1>2, <2>2, <3>1
    <3> QED BY <2>2, <3>2
  <2>3. CASE u # t
    <3>1. n \in DOMAIN queue[u] /\ queue'[u][n] = queue[u][n]
      BY <1>1, <2>1, <2>3
    <3> QED BY <2>3, <3>1
  <2> QED BY <2>2, <2>3
<1>4. ASSUME NEW u \in TCH, NEW n \in DOMAIN queue'[u]
      PROVE  table[queue'[u][n]].request \in SMS /\ queue'[u][n] # Head(queue[t])
  <2>1. PICK k \in DOMAIN queue[u] : queue'[u][n] = queue[u][k] /\ (u = t => k # 1)
    BY <1>3
  <2>2. table[queue[u][k]].request \in SMS
    BY DEF Queues
  <2>3. queue[u][k] = queue[t][1] => u = t /\ k = 1
    BY <1>2 DEF Queues
  <2> QED BY <1>2, <2>1, <2>2, <2>3
<1>5. ASSUME NEW u \in TCH, NEW v \in TCH, NEW n \in DOMAIN queue'[u], NEW l \in DOMAIN queue'[v],
             queue'[u][n] = queue'[v][l]
      PROVE  u = v /\ n = l
  <2>1. PICK k \in DOMAIN queue[u] : k = (IF u = t THEN n + 1 ELSE n) /\ queue'[u][n] = queue[u][k]
    BY <1>3
  <2>2. PICK j \in DOMAIN queue[v] : j = (IF v = t THEN l + 1 ELSE l) /\ queue'[v][l] = queue[v][j]
    BY <1>3
  <2>3. u = v /\ k = j
    <3>1. queue[u][k] = queue[v][j]
      BY <1>5, <2>1, <2>2
    <3> QED BY <3>1 DEF Queues
  <2>4. CASE u = t
    <3>1. n \in DOMAIN Tail(queue[t]) /\ l \in DOMAIN Tail(queue[t])
      BY <1>1, <2>3, <2>4
    <3>2. n \in Nat /\ l \in Nat
      BY <1>2, <3>1
    <3> QED BY <2>1, <2>2, <2>3, <2>4, <3>2
  <2>5. CASE u # t
    BY <2>1, <2>2, <2>3, <2>5
  <2> QED BY <2>4, <2>5
<1>6. Queues'
  BY <1>1, <1>4, <1>5 DEF Queues
<1> QED  BY <1>4, <1>6

\* A message queued for a phone in a call is on one queue, once.
LEMMA QueuesNew ==
  ASSUME TypeOK, Indices, Queues, NEW k, NewPaged(k) \/ NewQueued(k)
  PROVE  Queues'
<1>1. /\ sip.pc = "invite" /\ k \notin ID /\ ID' = ID \cup {k} /\ k \in Nat
      /\ \A i \in ID : table'[i].request = table[i].request
      /\ table'[k].request = sip.request
  BY DEF NewPaged, NewQueued, Added
<1>2. sip'.pc # "invite"
  BY Idle DEF NewPaged, NewQueued
<1>3. CASE UNCHANGED queue
  BY <1>1, <1>2, <1>3, QueuesKept
<1>4. ASSUME NEW t \in TCH, sip.chan = SACCH(t), queue' = [queue EXCEPT ![t] = Append(queue[t], k)]
      PROVE  Queues'
  <2>1. queue \in [TCH -> Seq(Nat)] /\ queue[t] \in Seq(Nat)
    BY Types
  <2>2. queue'[t] = Append(queue[t], k) /\ \A u \in TCH : u # t => queue'[u] = queue[u]
    BY <1>4, <2>1
  <2>3. \A n \in DOMAIN Append(queue[t], k) :
          \/ n \in DOMAIN queue[t] /\ Append(queue[t], k)[n] = queue[t][n]
          \/ n = Len(queue[t]) + 1 /\ Append(queue[t], k)[n] = k
    BY <1>1, <2>1
  <2>4. \A u \in TCH : \A n \in DOMAIN queue'[u] :
          \/ n \in DOMAIN queue[u] /\ queue'[u][n] = queue[u][n]
          \/ u = t /\ n = Len(queue[t]) + 1 /\ queue'[u][n] = k
    BY <2>2, <2>3
  <2>5. \A u \in TCH : \A n \in DOMAIN queue[u] : queue[u][n] \in ID
    BY DEF Indices
  <2>6. sip.request \in SMS
    BY <1>1, <1>4, Constants DEF Queues
  <2>7. \A u \in TCH : \A n \in DOMAIN queue'[u] : table'[queue'[u][n]].request \in SMS
    BY <1>1, <2>4, <2>5, <2>6 DEF Queues
  <2>8. \A u, v \in TCH : \A n \in DOMAIN queue'[u], l \in DOMAIN queue'[v] :
          queue'[u][n] = queue'[v][l] => u = v /\ n = l
    BY <1>1, <2>4, <2>5 DEF Queues
  <2> QED BY <1>2, <2>7, <2>8 DEF Queues
<1> QED  BY <1>3, <1>4 DEF NewPaged, NewQueued

CallStates == {"confirm", "assign", "assigning", "again", "alerting", "connecting", "call"}

\* When a step keeps TCHs for calls.
LEMMA KindsKept ==
  ASSUME TypeOK, Kinds, ID' = ID,
         \A i \in ID :
           /\ table'[i].request = table[i].request
           /\ table'[i].chan \in TCH => table[i].chan \in TCH \/ table[i].request \notin SMS
           /\ table'[i].sip = "MODCanceling" => table'[i].removed
           /\ table[i].request \in SMS => table'[i].sip \notin {"Connecting", "Active"},
         \A c \in Channel :
           thread'[c].pc \in CallStates =>
             \/ thread[c].pc \in CallStates /\ thread'[c].id = thread[c].id
             \/ thread'[c].id \in ID /\ table[thread'[c].id].request \notin SMS
  PROVE  Kinds'
<1>1. \A i \in ID' : table'[i].chan \in TCH => table'[i].request \notin SMS
  BY DEF Kinds
<1>2. \A i \in ID' : table'[i].request \in SMS => table'[i].sip \notin {"Connecting", "Active"}
  OBVIOUS
<1>3. ASSUME NEW c \in Channel, thread'[c].pc \in CallStates
      PROVE  table'[thread'[c].id].request \notin SMS
  <2>1. CASE thread[c].pc \in CallStates /\ thread'[c].id = thread[c].id
    <3>1. thread[c].id \in ID
      BY <2>1, Working DEF CallStates
    <3>2. table[thread[c].id].request \notin SMS
      BY <2>1 DEF Kinds, CallStates
    <3> QED BY <2>1, <3>1, <3>2
  <2>2. CASE thread'[c].id \in ID /\ table[thread'[c].id].request \notin SMS
    BY <2>2
  <2> QED BY <1>3, <2>1, <2>2
<1> QED  BY <1>1, <1>2, <1>3 DEF Kinds, CallStates

\* When it does so as the table is swept, or one entry changes, and no thread starts a call.
LEMMA KindsSame ==
  ASSUME TypeOK, Kinds, ID' = ID,
         \A i \in ID : /\ table'[i].request = table[i].request /\ table'[i].sip = table[i].sip
                       /\ table'[i].removed = table[i].removed /\ table'[i].chan = table[i].chan,
         \A c \in Channel : thread'[c].pc \in CallStates => thread'[c] = thread[c]
  PROVE  Kinds'
<1>1. \A i \in ID : table'[i].sip = "MODCanceling" => table'[i].removed
  BY DEF Kinds
<1>2. \A i \in ID : table[i].request \in SMS => table'[i].sip \notin {"Connecting", "Active"}
  BY DEF Kinds
<1> QED  BY <1>1, <1>2, KindsKept

\* Giving an entry up changes no entry's kind of place.
LEMMA KindsLeaves ==
  ASSUME TypeOK, Kinds, NEW c \in Channel, Leaves(c)
  PROVE  Kinds'
<1> DEFINE k == thread[c].id
<1>1. /\ k \in ID /\ ID' = ID /\ \A i \in ID : i # k => table'[i] = table[i]
      /\ thread'[c] = ThreadIdle /\ \A d \in Channel : d # c => thread'[d] = thread[d]
  BY DEF Leaves, Works
<1>2. /\ table'[k].request = table[k].request
      /\ table'[k].chan \in {table[k].chan, None}
      /\ table'[k].sip \in {table[k].sip, "Cleared", "Canceled"}
      /\ table[k].removed => table'[k].removed
  BY DEF Leaves, Ended, Mine
<1>3. \A i \in ID :
           /\ table'[i].request = table[i].request
           /\ table'[i].chan \in TCH => table[i].chan \in TCH
           /\ table'[i].sip = "MODCanceling" => table'[i].removed
           /\ table[i].request \in SMS => table'[i].sip \notin {"Connecting", "Active"}
  <2>1. SUFFICES ASSUME NEW i \in ID
                 PROVE  /\ table'[i].request = table[i].request
                        /\ table'[i].chan \in TCH => table[i].chan \in TCH
                        /\ table'[i].sip = "MODCanceling" => table'[i].removed
                        /\ table[i].request \in SMS => table'[i].sip \notin {"Connecting", "Active"}
    OBVIOUS
  <2>2. /\ table[i].sip = "MODCanceling" => table[i].removed
        /\ table[i].request \in SMS => table[i].sip \notin {"Connecting", "Active"}
    BY DEF Kinds
  <2> HIDE DEF k
  <2>3. CASE i = k
    BY <1>2, <2>2, <2>3, MTAssumption
  <2>4. CASE i # k
    BY <1>1, <2>2, <2>4
  <2> QED BY <2>3, <2>4
<1>4. \A d \in Channel : thread'[d].pc \in CallStates => thread'[d] = thread[d]
  BY <1>1, Idle DEF CallStates
<1> HIDE DEF k
<1> QED  BY <1>1, <1>3, <1>4, KindsKept

\* Going on to the next wait changes no entry's kind of place.
LEMMA KindsAdvances ==
  ASSUME TypeOK, Places, Kinds, NEW c \in Channel, Advances(c)
  PROVE  Kinds'
<1> DEFINE k == thread[c].id
<1>1. PICK e \in Entry, pc \in ThreadPC : GoesOn(c, e, pc) /\ Advanced(c, e, pc)
  BY DEF Advances
<1>2. /\ k \in ID /\ ID' = ID /\ \A i \in ID : i # k => table'[i] = table[i]
      /\ table'[k] = e
      /\ thread'[c].pc = pc /\ thread'[c].id = k
      /\ \A d \in Channel : d # c => thread'[d] = thread[d]
  BY <1>1 DEF GoesOn, Works, Mine
<1>3. thread[c].pc \in CallStates => table[k].request \notin SMS
  BY DEF Kinds, CallStates
<1>4. pc \in CallStates => table[k].request \notin SMS
  BY <1>1, <1>3 DEF Advanced, CallStates, Mine
<1>5. e.sip = "MODCanceling" => e.removed
  <2>1. e.removed = table[k].removed /\ (e.sip = "MODCanceling" => e.sip = table[k].sip)
    BY <1>1 DEF Advanced, Mine
  <2> QED BY <1>2, <2>1 DEF Kinds
<1>6. /\ e.request = table[k].request
      /\ e.sip \in {"Connecting", "Active"} =>
           e.sip = table[k].sip \/ thread[c].pc \in CallStates
  BY <1>1 DEF Advanced, Mine, CallStates
<1>7. e.chan \in TCH => table[k].chan \in TCH \/ table[k].request \notin SMS
  <2>1. e.chan \in {table[k].chan, c} \/ thread[c].pc \in {"assign", "again"}
    BY <1>1 DEF Advanced, Mine
  <2>2. e.chan = c /\ c \in TCH => e.chan = table[k].chan
    BY <1>1, Constants DEF Advanced, Mine, Places, ThreadPlaces, TCHState
  <2> QED BY <1>3, <2>1, <2>2 DEF CallStates
<1>8. \A i \in ID :
           /\ table'[i].request = table[i].request
           /\ table'[i].chan \in TCH => table[i].chan \in TCH \/ table[i].request \notin SMS
           /\ table'[i].sip = "MODCanceling" => table'[i].removed
           /\ table[i].request \in SMS => table'[i].sip \notin {"Connecting", "Active"}
  <2>1. SUFFICES ASSUME NEW i \in ID
                 PROVE  /\ table'[i].request = table[i].request
                        /\ table'[i].chan \in TCH => table[i].chan \in TCH \/ table[i].request \notin SMS
                        /\ table'[i].sip = "MODCanceling" => table'[i].removed
                        /\ table[i].request \in SMS => table'[i].sip \notin {"Connecting", "Active"}
    OBVIOUS
  <2>2. /\ table[i].sip = "MODCanceling" => table[i].removed
        /\ table[i].request \in SMS => table[i].sip \notin {"Connecting", "Active"}
    BY DEF Kinds
  <2> HIDE DEF k
  <2>3. CASE i = k
    BY <1>2, <1>3, <1>5, <1>6, <1>7, <2>2, <2>3
  <2>4. CASE i # k
    BY <1>2, <2>2, <2>4
  <2> QED BY <2>3, <2>4
<1>9. \A d \in Channel : thread'[d].pc \in CallStates =>
             \/ thread[d].pc \in CallStates /\ thread'[d].id = thread[d].id
             \/ thread'[d].id \in ID /\ table[thread'[d].id].request \notin SMS
  <2> HIDE DEF k
  <2> QED BY <1>2, <1>4
<1> HIDE DEF k
<1> QED  BY <1>2, <1>8, <1>9, KindsKept

\* Each step of a channel's thread keeps messages and calls apart.
LEMMA KindsThread ==
  ASSUME TypeOK, Indices, Places, Kinds, NEW c \in Channel, ThreadStep(c)
  PROVE  Kinds'
<1>1. CASE SweptAndQuit(c)
  <2>1. \A d \in Channel : thread'[d].pc \in CallStates => thread'[d] = thread[d]
    BY <1>1, Idle DEF SweptAndQuit, CallStates
  <2> QED BY <1>1, <2>1, KindsSame DEF SweptAndQuit, Swept
<1>2. CASE c \in SDCCH /\ RemovePage(c)
  <2>1. /\ thread'[c] = [thread[c] EXCEPT !.pc = "answer"]
        /\ \A d \in Channel : d # c => thread'[d] = thread[d]
        /\ UNCHANGED table
    BY <1>2, GoEffect DEF RemovePage, ThreadPC
  <2>2. thread'[c].pc = "answer"
    BY <2>1, Types DEF ThreadState
  <2>3. \A d \in Channel : thread'[d].pc \in CallStates => thread'[d] = thread[d]
    BY <2>1, <2>2 DEF CallStates
  <2> QED BY <2>1, <2>3, SameTable, KindsSame
<1>3. CASE c \in SDCCH /\ answeredPaging(c)
  <2>1. ASSUME NEW i \in ID, Answers(c, i)
        PROVE  Kinds'
    <3>1. /\ ID' = ID
          /\ \A j \in ID : /\ table'[j].request = table[j].request /\ table'[j].sip = table[j].sip
                           /\ table'[j].removed = table[j].removed /\ table'[j].chan = table[j].chan
          /\ thread'[c].pc = "attach" /\ \A d \in Channel : d # c => thread'[d] = thread[d]
      BY <2>1 DEF Answers, Gets
    <3>2. \A d \in Channel : thread'[d].pc \in CallStates => thread'[d] = thread[d]
      BY <3>1 DEF CallStates
    <3> QED BY <3>1, <3>2, KindsSame
  <2> QED BY <1>1, <1>3, <2>1, answeredPagingEffect
<1>4. CASE c \in SDCCH /\ Move(c)
  <2>1. /\ UNCHANGED table
        /\ \A d \in Channel : thread'[d].pc = "complete" \/ thread'[d] = thread[d]
    BY <1>4, MoveEffect DEF Places
  <2>2. \A d \in Channel : thread'[d].pc \in CallStates => thread'[d] = thread[d]
    BY <2>1 DEF CallStates
  <2> QED BY <2>1, <2>2, SameTable, KindsSame
<1>5. CASE c \in TCH /\ AssignmentComplete(c)
  <2>1. ASSUME NEW i \in ID, Completes(c, i)
        PROVE  Kinds'
    <3>1. /\ Swept /\ table[i].chan = c /\ thread'[c].id = i
          /\ \A d \in Channel : d # c => thread'[d] = thread[d]
      BY <2>1 DEF Completes, Gets
    <3>2. table[i].request \notin SMS
      BY <1>5, <3>1 DEF Kinds
    <3>3. \A d \in Channel : thread'[d].pc \in CallStates =>
             \/ thread[d].pc \in CallStates /\ thread'[d].id = thread[d].id
             \/ thread'[d].id \in ID /\ table[thread'[d].id].request \notin SMS
      BY <3>1, <3>2
    <3>4. \A j \in ID :
           /\ table'[j].request = table[j].request
           /\ table'[j].chan = table[j].chan
           /\ table'[j].sip = "MODCanceling" => table'[j].removed
           /\ table[j].request \in SMS => table'[j].sip \notin {"Connecting", "Active"}
      BY <3>1 DEF Swept, Kinds
    <3> QED BY <3>1, <3>3, <3>4, KindsKept DEF Swept
  <2> QED BY <1>1, <1>5, <2>1, AssignmentCompleteEffect
<1>6. ASSUME NEW t \in TCH, c = SACCH(t), InCallSMS(t)
      PROVE  Kinds'
  <2>1. /\ UNCHANGED table /\ thread'[c].pc = "begin"
        /\ \A d \in Channel : d # c => thread'[d] = thread[d]
    BY <1>6, InCallSMSEffect DEF Gets
  <2>2. \A d \in Channel : thread'[d].pc \in CallStates => thread'[d] = thread[d]
    BY <2>1 DEF CallStates
  <2> QED BY <2>1, <2>2, SameTable, KindsSame
<1> QED  BY <1>2, <1>3, <1>4, <1>5, <1>6, KindsLeaves, KindsAdvances, ThreadSteps DEF Places

\* A new entry is where its kind of request belongs.
LEMMA KindsNew ==
  ASSUME TypeOK, Indices, Kinds, NEW k, NewPaged(k) \/ NewQueued(k)
  PROVE  Kinds'
<1>1. /\ ID' = ID \cup {k} /\ k \notin ID /\ UNCHANGED thread
      /\ \A i \in ID :
           /\ table'[i].request = table[i].request /\ table'[i].sip = table[i].sip
           /\ table'[i].removed = table[i].removed /\ table'[i].chan = table[i].chan
      /\ table'[k].sip \in {"Null", "Proceeding"} /\ table'[k].chan = sip.chan
  BY DEF NewPaged, NewQueued, Added
<1>2. sip.chan \notin TCH
  BY Constants, MTAssumption DEF Indices
<1>3. \A i \in ID' : /\ table'[i].chan \in TCH => table'[i].request \notin SMS
                     /\ table'[i].sip = "MODCanceling" => table'[i].removed
                     /\ table'[i].request \in SMS => table'[i].sip \notin {"Connecting", "Active"}
  BY <1>1, <1>2 DEF Kinds
<1>4. ASSUME NEW c \in Channel, thread[c].pc \in CallStates
      PROVE  table'[thread[c].id].request \notin SMS
  <2>1. thread[c].id \in ID
    BY <1>4, Working DEF CallStates
  <2> QED BY <1>1, <1>4, <2>1 DEF Kinds, CallStates
<1> QED  BY <1>1, <1>3, <1>4 DEF Kinds, CallStates

\* A step keeps the requests of the entries.
LEMMA RequestsKept ==
  ASSUME TypeOK, Indices, Places, [Next]_vars
  PROVE  ID \subseteq ID' /\ \A i \in ID : table'[i].request = table[i].request
<1>1. CASE Quiet
  BY <1>1 DEF Quiet
<1>2. CASE UNCHANGED table
  BY <1>2, SameTable
<1>3. ASSUME NEW r \in Request, Invite(r)
      PROVE  Swept
  BY <1>3, InviteEffect
<1>4. CASE Swept
  BY <1>4 DEF Swept
<1>5. ASSUME NEW i \in ID, Tick(i)
      PROVE  Quiet
  <2>1. UNCHANGED <<sipMap, count>> /\ SIPGoesOn
    BY <1>5 DEF Tick, SIPGoesOn
  <2> QED BY <1>5, <2>1, TickEffect, QuietPut
<1>6. ASSUME NEW m \in Mobile, DropPage(m)
      PROVE  ID \subseteq ID' /\ \A i \in ID : table'[i].request = table[i].request
  <2>1. CASE UNCHANGED table
    BY <1>2, <2>1
  <2>2. CASE ~ UNCHANGED table
    BY <1>6, <2>2, DropPageEffect
  <2> QED BY <2>1, <2>2
<1>7. ASSUME SIPThread
      PROVE  ID \subseteq ID' /\ \A i \in ID : table'[i].request = table[i].request
  <2>1. CASE SendTrying \/ Refuse \/ SetPaging \/ ListPage
    BY <1>1, <2>1, QuietSIP
  <2>2. CASE Repeated
    BY <1>4, <2>2, RepeatedEffect
  <2>3. ASSUME NEW k, NewPaged(k) \/ NewQueued(k)
        PROVE  ID \subseteq ID' /\ \A i \in ID : table'[i].request = table[i].request
    BY <2>3 DEF NewPaged, NewQueued, Added
  <2> QED BY <1>7, <2>1, <2>2, <2>3, NewTransactionEffect DEF SIPThread
<1>8. ASSUME NEW c \in Channel, ThreadStep(c)
      PROVE  Quiet
  BY <1>8, QuietThread
<1>9. ASSUME OtherScan
      PROVE  Swept
  BY <1>9, SweptEffect DEF OtherScan, Scan
<1> QED  BY <1>1, <1>2, <1>3, <1>4, <1>5, <1>6, <1>7, <1>8, <1>9
         DEF Next, vars, SendPage, LeaveChannel, Answer

\* What the SACCH queues hold is inductive.
LEMMA QueuesNext ==
  ASSUME TypeOK, Indices, Places, Queues, [Next]_vars
  PROVE  Queues'
<1>1. ID \subseteq ID' /\ \A i \in ID : table'[i].request = table[i].request
  BY RequestsKept
<1>2. CASE UNCHANGED <<sip, queue>>
  <2>1. sip'.pc = "invite" /\ sip'.chan # None => sip'.request \in SMS
    BY <1>2 DEF Queues
  <2> QED BY <1>1, <1>2, <2>1, QueuesKept
<1>3. ASSUME NEW r \in Request, Invite(r)
      PROVE  Queues'
  <2>1. (sip'.chan # None => sip'.request \in SMS) /\ UNCHANGED queue
    BY <1>3, InviteEffect
  <2> QED BY <1>1, <2>1, QueuesKept
<1>4. CASE SIPThread
  <2>1. CASE sip'.pc # "invite" /\ UNCHANGED queue
    BY <1>1, <2>1, QueuesKept
  <2>2. CASE Repeated
    BY <2>1, <2>2, RepeatedEffect, Idle
  <2>3. CASE SendTrying
    BY <2>1, <2>3, SendTryingEffect
  <2>4. CASE Refuse
    BY <2>1, <2>4, RefuseEffect, Idle
  <2>5. CASE SetPaging
    BY <2>1, <2>5, SetPagingEffect
  <2>6. CASE ListPage
    BY <2>1, <2>6, ListPageEffect
  <2> QED BY <1>4, <2>2, <2>3, <2>4, <2>5, <2>6, NewTransactionEffect, QueuesNew DEF SIPThread
<1>5. ASSUME NEW c \in Channel, ThreadStep(c)
      PROVE  Queues'
  <2>1. CASE UNCHANGED sip /\ \A t \in TCH : queue'[t] \in {queue[t], <<>>}
    <3>1. sip'.pc = "invite" /\ sip'.chan # None => sip'.request \in SMS
      BY <2>1 DEF Queues
    <3> QED BY <1>1, <2>1, <3>1, QueuesKept
  <2>2. CASE Leaves(c)
    BY <2>1, <2>2 DEF Leaves, Works
  <2>3. CASE Advances(c)
    BY <2>1, <2>3 DEF Advances, GoesOn, Works
  <2>4. CASE RemovePage(c) \/ answeredPaging(c) \/ Move(c) \/ AssignmentComplete(c)
    BY <1>2, <2>4 DEF RemovePage, answeredPaging, Move, AssignmentComplete
  <2> QED BY <1>5, <2>2, <2>3, <2>4, QueuesTaken, ThreadSteps DEF Places
<1> QED  BY <1>2, <1>3, <1>4, <1>5
         DEF Next, vars, OtherScan, Tick, SendPage, DropPage, LeaveChannel, Answer

\* Messages and calls stay apart.
LEMMA KindsNext ==
  ASSUME TypeOK, Indices, Places, Kinds, [Next]_vars
  PROVE  Kinds'
<1>1. CASE UNCHANGED <<table, thread>>
  <2>1. \A c \in Channel : thread'[c] = thread[c]
    BY <1>1
  <2> QED BY <1>1, <2>1, SameTable, KindsSame
<1>2. CASE Swept /\ UNCHANGED thread
  <2>1. \A c \in Channel : thread'[c] = thread[c]
    BY <1>2
  <2> QED BY <1>2, <2>1, KindsSame DEF Swept
<1>3. ASSUME NEW i \in ID, Tick(i)
      PROVE  Kinds'
  <2>1. \A c \in Channel : thread'[c] = thread[c]
    BY <1>3 DEF Tick
  <2>2. ID' = ID /\ \A j \in ID :
          /\ table'[j].request = table[j].request /\ table'[j].sip = table[j].sip
          /\ table'[j].removed = table[j].removed /\ table'[j].chan = table[j].chan
    BY <1>3, TickEffect
  <2> QED BY <2>1, <2>2, KindsSame
<1>4. ASSUME NEW m \in Mobile, DropPage(m)
      PROVE  Kinds'
  <2>1. UNCHANGED thread
    BY <1>4, DropPageEffect
  <2>2. CASE UNCHANGED table
    BY <1>1, <2>1, <2>2
  <2>3. CASE ~ UNCHANGED table
    <3>1. PICK k \in ID :
            /\ ID' = ID
            /\ \A i \in ID : i # k => table'[i] = table[i]
            /\ table'[k].request = table[k].request /\ table'[k].chan = table[k].chan
            /\ table'[k].sip = "MODCanceling" /\ table'[k].removed
      BY <1>4, <2>3, DropPageEffect
    <3>2. \A i \in ID :
           /\ table'[i].request = table[i].request
           /\ table'[i].chan = table[i].chan
           /\ table'[i].sip = "MODCanceling" => table'[i].removed
           /\ table[i].request \in SMS => table'[i].sip \notin {"Connecting", "Active"}
      BY <3>1 DEF Kinds
    <3> QED BY <2>1, <3>1, <3>2, KindsKept
  <2> QED BY <2>2, <2>3
<1>5. CASE SIPThread
  <2>1. CASE Repeated
    BY <1>2, <2>1, RepeatedEffect
  <2>2. CASE SendTrying
    <3>1. /\ ID' = ID /\ sip.id \in ID /\ UNCHANGED thread
          /\ \A i \in ID : i # sip.id => table'[i] = table[i]
          /\ table'[sip.id].request = table[sip.id].request
          /\ table'[sip.id].sip \in {table[sip.id].sip, "Proceeding"}
          /\ table'[sip.id].chan = table[sip.id].chan
          /\ table'[sip.id].removed = table[sip.id].removed
      BY <2>2, SendTryingEffect
    <3>2. \A i \in ID :
           /\ table'[i].request = table[i].request
           /\ table'[i].chan = table[i].chan
           /\ table'[i].sip \in {table[i].sip, "Proceeding"}
           /\ table'[i].removed = table[i].removed
      BY <3>1
    <3>3. \A i \in ID :
           /\ table'[i].sip = "MODCanceling" => table'[i].removed
           /\ table[i].request \in SMS => table'[i].sip \notin {"Connecting", "Active"}
      BY <3>2 DEF Kinds
    <3> QED BY <3>1, <3>2, <3>3, KindsKept
  <2>3. CASE Refuse
    BY <1>1, <1>2, <2>3, RefuseEffect
  <2>4. CASE SetPaging
    <3>1. CASE UNCHANGED table
      BY <1>1, <2>4, <3>1, SetPagingEffect
    <3>2. CASE ~ UNCHANGED table
      <4>1. /\ ID' = ID /\ sip.id \in ID /\ UNCHANGED thread
            /\ \A i \in ID : i # sip.id => table'[i] = table[i]
            /\ table'[sip.id].request = table[sip.id].request
            /\ table'[sip.id].sip = table[sip.id].sip
            /\ table'[sip.id].chan = table[sip.id].chan
            /\ table'[sip.id].removed = table[sip.id].removed
        BY <2>4, <3>2, SetPagingEffect
      <4>2. \A i \in ID :
              /\ table'[i].request = table[i].request /\ table'[i].sip = table[i].sip
              /\ table'[i].removed = table[i].removed /\ table'[i].chan = table[i].chan
        BY <4>1
      <4> QED BY <4>1, <4>2, KindsSame
    <3> QED BY <3>1, <3>2
  <2>5. CASE ListPage
    BY <1>1, <2>5, ListPageEffect
  <2> QED BY <1>5, <2>1, <2>2, <2>3, <2>4, <2>5, NewTransactionEffect, KindsNew DEF SIPThread
<1>6. ASSUME NEW c \in Channel, ThreadStep(c)
      PROVE  Kinds'
  BY <1>6, KindsThread
<1>7. ASSUME NEW r \in Request, Invite(r)
      PROVE  Kinds'
  BY <1>2, <1>7, InviteEffect
<1>8. ASSUME NEW m \in Mobile, NEW c \in SDCCH, Answer(m, c)
      PROVE  Kinds'
  <2>1. UNCHANGED table /\ \A d \in Channel : thread'[d].pc = "response" \/ thread'[d] = thread[d]
    BY <1>8, AnswerEffect
  <2>2. \A d \in Channel : thread'[d].pc \in CallStates => thread'[d] = thread[d]
    BY <2>1 DEF CallStates
  <2> QED BY <2>1, <2>2, SameTable, KindsSame
<1>9. ASSUME OtherScan
      PROVE  Kinds'
  BY <1>2, <1>9, SweptEffect DEF OtherScan, Scan
<1> QED  BY <1>1, <1>3, <1>4, <1>5, <1>6, <1>7, <1>8, <1>9
         DEF Next, vars, SendPage, LeaveChannel

----------------------------------------------------------------------------
(* The life of a transaction whose request came once *)

\* A thread in the loop of assignTCHF() is that of an SDCCH, and not in it the thread of the TCH.
LEMMA InLoop ==
  ASSUME TypeOK, Places, NEW c \in Channel
  PROVE  /\ thread[c].pc \in Loop => c \in SDCCH /\ c \notin TCH /\ thread[c].tch \in TCH
         /\ c \in TCH => thread[c].pc \notin Loop
         /\ \A d \in Channel : Assigning(c, d) <=> thread[c].pc \in Loop /\ thread[c].tch = d
<1>1. c \in TCH => thread[c].pc \notin Loop
  BY DEF Places, ThreadPlaces, TCHState, Loop
<1>2. ASSUME NEW t \in TCH, c = SACCH(t)  PROVE thread[c].pc \notin Loop
  BY <1>2 DEF Places, ThreadPlaces, SACCHState, Loop
<1>3. c \in SDCCH \cup TCH \/ \E t \in TCH : c = SACCH(t)
  BY DEF Channel
<1>4. thread[c].pc \in Loop => thread[c].tch \in TCH
  BY Types DEF Places, TCHPlaces, ThreadState, Loop
<1>5. thread[c].pc \in Loop => c \in SDCCH /\ c \notin TCH
  BY <1>1, <1>2, <1>3
<1> QED  BY <1>1, <1>4, <1>5 DEF Assigning, Loop

\* No thread or queue names a new place for entry i, which may be ended.
Untouched(i) ==
  /\ table'[i].gsm \in {table[i].gsm, "Null"}
  /\ table'[i].sip \in {table[i].sip, "Cleared", "Canceled"}
  /\ table'[i].chan # table[i].chan =>
       /\ table'[i].chan = None
       /\ \A c \in Channel : thread'[c].id = i => c \in TCH /\ thread'[c].pc \notin Loop
  /\ \A c \in Channel : thread'[c] = thread[c] \/ thread'[c].id # i
  /\ \A t \in TCH : \A n \in DOMAIN queue'[t] : queue'[t][n] = i => Waits(i)
  /\ sip'.pc = "page" /\ sip'.id = i => sip.pc = "page" /\ sip.id = i

\* A step that does not touch an entry keeps its life.
LEMMA LifeKept ==
  ASSUME NEW i \in ID, LifeOf(i), Untouched(i)
  PROVE  LifeOf(i)'
<1>1. Taken(i)' => Taken(i)
  BY DEF Untouched, Taken, ThreadHolds
<1>2. Waits(i)' => Waits(i)
  BY DEF Untouched, Waits
<1>3. Once1(i)'
  BY DEF Untouched, LifeOf, Once1
<1>4. Once2(i)' /\ Once4(i)'
  BY <1>1, <1>2 DEF Untouched, LifeOf, Once2, Once4
<1>5. Once3(i)'
  BY DEF Untouched, LifeOf, Once3
<1>6. ASSUME NEW c \in Channel, ThreadHolds(c, i)'
      PROVE  /\ thread'[c] = thread[c] /\ ThreadHolds(c, i)
             /\ \/ table'[i].chan = table[i].chan
                \/ table'[i].chan = None /\ c \in TCH /\ thread'[c].pc \notin Loop
  BY <1>6 DEF Untouched, ThreadHolds
<1>7. Once5(i)'
  BY <1>6 DEF LifeOf, Once5, Loop
<1>8. Once6(i)'
  BY <1>6 DEF LifeOf, Once6, Assigning
<1> QED  BY <1>3, <1>4, <1>5, <1>7, <1>8 DEF LifeOf

\* An entry that the step does not change.
LEMMA LifeSame ==
  ASSUME TypeOK, Indices, NEW i \in ID, LifeOf(i),
         table'[i].gsm = table[i].gsm, table'[i].sip = table[i].sip, table'[i].chan = table[i].chan,
         \A c \in Channel : thread'[c] = thread[c] \/ thread'[c].id # i,
         \A t \in TCH : queue'[t] \in {queue[t], <<>>},
         sip'.pc = "page" /\ sip'.id = i => sip.pc = "page" /\ sip.id = i
  PROVE  LifeOf(i)'
<1>1. \A t \in TCH : \A n \in DOMAIN queue'[t] : queue'[t][n] = i => Waits(i)
  BY DEF Waits
<1> QED  BY <1>1, LifeKept DEF Untouched

\* 0 is not the ID of an entry.
LEMMA NotZero ==
  ASSUME TypeOK
  PROVE  0 \notin ID /\ \A i \in ID : i \in Nat
  BY Tables, Types

\* Giving an entry up keeps the life of each entry that arrived once.
LEMMA LifeLeaves ==
  ASSUME TypeOK, Indices, Places, NEW c \in Channel, Leaves(c), NEW i \in ID, LifeOf(i)
  PROVE  LifeOf(i)'
<1> DEFINE k == thread[c].id
<1>1. /\ \A j \in ID : j # k => table'[j] = table[j]
      /\ thread'[c] = ThreadIdle /\ \A d \in Channel : d # c => thread'[d] = thread[d]
      /\ \A t \in TCH : queue'[t] \in {queue[t], <<>>}
      /\ UNCHANGED sip
  BY DEF Leaves, Works
<1>2. thread'[c].id # i
  BY <1>1, Idle, NotZero
<1>3. CASE i # k
  BY <1>1, <1>2, <1>3, LifeSame
<1>4. CASE i = k
  <2>1. /\ table'[i].gsm \in {table[i].gsm, "Null"}
        /\ table'[i].sip \in {table[i].sip, "Cleared", "Canceled"}
        /\ table'[i].chan # table[i].chan => table'[i].chan = None /\ thread[c].pc \in Loop
    BY <1>4 DEF Leaves, Ended, Mine, Loop
  <2>2. ASSUME thread[c].pc \in Loop, NEW d \in Channel, thread'[d].id = i
        PROVE  d \in TCH /\ thread'[d].pc \notin Loop
    <3>1. d # c /\ thread[d].id = i /\ thread'[d] = thread[d]
      BY <1>1, <1>2, <2>2
    <3>2. Assigning(c, d) \/ Assigning(d, c)
      BY <1>4, <3>1 DEF LifeOf, Once6, ThreadHolds
    <3>3. d \in TCH
      BY <2>2, <3>2, InLoop
    <3> QED BY <3>1, <3>3, InLoop
  <2>3. \A t \in TCH : \A n \in DOMAIN queue'[t] : queue'[t][n] = i => Waits(i)
    BY <1>1 DEF Waits
  <2>4. Untouched(i)
    BY <1>1, <1>2, <2>1, <2>2, <2>3 DEF Untouched
  <2> QED BY <2>4, LifeKept
<1> QED  BY <1>3, <1>4

\* Going on to the next wait keeps the life of each entry that arrived once.
LEMMA LifeAdvances ==
  ASSUME TypeOK, Indices, Places, NEW c \in Channel, Advances(c), NEW i \in ID, LifeOf(i)
  PROVE  LifeOf(i)'
<1> DEFINE k == thread[c].id
<1>1. PICK e \in Entry, pc \in ThreadPC : GoesOn(c, e, pc) /\ Advanced(c, e, pc)
  BY DEF Advances
<1>2. /\ k \in ID /\ \A j \in ID : j # k => table'[j] = table[j]
      /\ table'[k] = e
      /\ thread'[c].pc = pc /\ thread'[c].id = k
      /\ \A d \in Channel : d # c => thread'[d] = thread[d]
      /\ \A t \in TCH : queue'[t] \in {queue[t], <<>>}
      /\ UNCHANGED sip
  BY <1>1 DEF GoesOn, Works
<1>3. CASE i # k
  BY <1>2, <1>3, LifeSame
<1>4. CASE i = k
  <2>1. Taken(i) /\ ThreadHolds(c, i)
    BY <1>4 DEF Taken, ThreadHolds
  <2>2. /\ ~(sip.pc = "page" /\ sip.id = i) /\ table[i].gsm # "Paging"
        /\ table[i].sip # "MODCanceling" /\ ~Waits(i)
    BY <2>1 DEF LifeOf, Once2, Once4
  <2>3. e.gsm # "Paging" /\ e.sip # "MODCanceling"
    BY <1>1, <1>4, <2>2 DEF Advanced, Mine
  <2>4. ~Waits(i)'
    BY <1>2, <2>2 DEF Waits
  <2>5. Once1(i)' /\ Once2(i)' /\ Once3(i)' /\ Once4(i)'
    BY <1>2, <1>4, <2>2, <2>3, <2>4 DEF Once1, Once2, Once3, Once4
  <2>6. /\ c \in TCH => e.chan = table[i].chan /\ pc \notin Loop
        /\ thread[c].pc \in Loop => pc \in Loop
        /\ pc \in Loop => /\ thread'[c].tch = thread[c].tch
                         /\ \/ e.chan = thread[c].tch
                            \/ thread[c].pc \in Loop /\ e.chan = table[i].chan
        /\ pc \notin Loop => e.chan \in {c, table[i].chan}
    BY <1>1, <1>4, Constants
       DEF Advanced, GoesOn, Mine, Places, ThreadPlaces, TCHState, Loop
  <2>7. ASSUME NEW d \in Channel, NEW f \in Channel, Assigning(d, f)
        PROVE  Assigning(d, f)'
    BY <1>2, <2>6, <2>7 DEF Assigning, Loop
  <2>8. ASSUME NEW d \in Channel
        PROVE  ThreadHolds(d, i)' <=> ThreadHolds(d, i)
    BY <1>2, <1>4 DEF ThreadHolds
  <2>9. ASSUME NEW d \in Channel, ThreadHolds(d, i)
        PROVE  table[i].chan \in IF thread[d].pc \in Loop THEN {thread[d].tch}
                                 ELSE IF d \in TCH THEN {d, None} ELSE (Channel \cup {None}) \ TCH
    BY <2>9 DEF LifeOf, Once5, Loop
  <2>10. e.chan \in IF pc \in Loop THEN {thread'[c].tch}
                    ELSE IF c \in TCH THEN {c, None} ELSE (Channel \cup {None}) \ TCH
    <3>1. CASE c \in TCH
      BY <2>1, <2>6, <2>9, <3>1, InLoop
    <3>2. CASE pc \in Loop
      BY <2>1, <2>6, <2>9, <3>2
    <3>3. CASE c \notin TCH /\ pc \notin Loop
      BY <2>1, <2>6, <2>9, <3>3
    <3> QED BY <3>1, <3>2, <3>3
  <2>11. Once5(i)'
    <3>1. SUFFICES ASSUME NEW d \in Channel, ThreadHolds(d, i)
                   PROVE  table'[i].chan \in IF thread'[d].pc \in Loop THEN {thread'[d].tch}
                      ELSE IF d \in TCH THEN {d, None} ELSE (Channel \cup {None}) \ TCH
      BY <2>8 DEF Once5, Loop
    <3>2. CASE d = c
      BY <1>2, <1>4, <2>10, <3>2
    <3>3. CASE d # c /\ Assigning(d, c)
      <4>1. c \in TCH
        BY <3>3, InLoop
      <4>2. table'[i].chan = table[i].chan /\ thread'[d] = thread[d]
        BY <1>2, <1>4, <2>6, <3>3, <4>1
      <4> QED BY <2>9, <3>1, <4>2
    <3>4. CASE d # c /\ Assigning(c, d)
      <4>1. /\ thread[c].pc \in Loop /\ thread[c].tch = d /\ d \in TCH /\ thread[d].pc \notin Loop
            /\ thread'[d] = thread[d]
        BY <1>2, <3>4, InLoop
      <4>2. e.chan = d
        BY <2>1, <2>6, <2>9, <4>1
      <4> QED BY <1>2, <1>4, <4>1, <4>2
    <3> QED BY <2>1, <3>1, <3>2, <3>3, <3>4 DEF LifeOf, Once6
  <2>12. Once6(i)'
    BY <2>7, <2>8 DEF LifeOf, Once6
  <2> QED BY <2>5, <2>11, <2>12 DEF LifeOf
<1> QED  BY <1>3, <1>4

\* A thread goes back to wait as it sweeps the table.
LEMMA LifeQuits ==
  ASSUME TypeOK, Indices, NEW c \in Channel, SweptAndQuit(c), NEW i \in ID, LifeOf(i)
  PROVE  LifeOf(i)'
<1>1. /\ Swept /\ thread'[c] = ThreadIdle /\ \A d \in Channel : d # c => thread'[d] = thread[d]
      /\ UNCHANGED <<sip, queue>>
  BY DEF SweptAndQuit
<1>2. thread'[c].id # i
  BY <1>1, Idle, NotZero
<1> QED  BY <1>1, <1>2, LifeSame DEF Swept

\* A thread gets the entry that its phone was paged for, which nobody had.
LEMMA LifeAnswers ==
  ASSUME TypeOK, Indices, Kinds, NEW c \in SDCCH, NEW k \in ID, Answers(c, k),
         NEW i \in ID, LifeOf(i)
  PROVE  LifeOf(i)'
<1>1. /\ k \in Live(table) /\ table[k].gsm = "Paging"
      /\ thread'[c].pc = "attach" /\ thread'[c].id = k
      /\ \A d \in Channel : d # c => thread'[d] = thread[d]
      /\ \A j \in ID : /\ table'[j].sip = table[j].sip /\ table'[j].chan = table[j].chan
                       /\ j # k => table'[j].gsm = table[j].gsm
      /\ table'[k].gsm = "AnsweredPaging"
      /\ UNCHANGED <<sip, queue>>
  BY DEF Answers, Gets
<1>2. c \in Channel /\ c \notin TCH
  BY Constants
<1>3. CASE i # k
  BY <1>1, <1>3, LifeSame
<1>4. CASE i = k
  <2>1. ~Taken(i) /\ ~Waits(i) /\ table[i].chan = None
    BY <1>1, <1>4 DEF LifeOf, Once2, Once3
  <2>2. ~(sip.pc = "page" /\ sip.id = i)
    BY <1>1, <1>4 DEF LifeOf, Once1
  <2>3. table[i].sip # "MODCanceling"
    BY <1>1, <1>4 DEF Kinds, Live, deadOrRemoved
  <2>4. ~Waits(i)'
    BY <1>1, <2>1 DEF Waits
  <2>5. ASSUME NEW d \in Channel, ThreadHolds(d, i)'
        PROVE  d = c
    BY <1>1, <2>1, <2>5 DEF Taken, ThreadHolds
  <2>6. Once1(i)' /\ Once2(i)' /\ Once3(i)' /\ Once4(i)'
    BY <1>1, <1>4, <2>2, <2>3, <2>4 DEF Once1, Once2, Once3, Once4
  <2>7. Once5(i)'
    BY <1>1, <1>2, <1>4, <2>1, <2>5, Constants DEF Once5
  <2>8. Once6(i)'
    BY <2>5 DEF Once6
  <2> QED BY <2>6, <2>7, <2>8 DEF LifeOf
<1> QED  BY <1>3, <1>4

\* The thread of a TCH gets the entry left on it: only the SDCCH it came from has it too.
LEMMA LifeCompletes ==
  ASSUME TypeOK, Indices, Places, Queues, Kinds, NEW t \in TCH, NEW k \in ID, Completes(t, k),
         NEW i \in ID, LifeOf(i)
  PROVE  LifeOf(i)'
<1>1. /\ k \in Live(table) /\ table[k].chan = t
      /\ thread'[t].pc = "alerting" /\ thread'[t].id = k /\ thread[t].id = 0
      /\ \A d \in Channel : d # t => thread'[d] = thread[d]
      /\ \A j \in ID : /\ table'[j].sip = table[j].sip /\ table'[j].chan = table[j].chan
                       /\ table'[j].gsm = table[j].gsm
      /\ UNCHANGED <<sip, queue>>
  BY DEF Completes, Gets, Swept
<1>2. t \in Channel /\ t # None
  BY Constants
<1>3. CASE i # k
  BY <1>1, <1>3, LifeSame
<1>4. CASE i = k
  <2>1. table[i].gsm # "Paging" /\ ~(sip.pc = "page" /\ sip.id = i)
    BY <1>1, <1>2, <1>4 DEF LifeOf, Once3, Once1
  <2>2. table[i].sip # "MODCanceling"
    BY <1>1, <1>4 DEF Kinds, Live, deadOrRemoved
  <2>3. table[i].request \notin SMS
    BY <1>1, <1>4 DEF Kinds
  <2>4. ~Waits(i)
    BY <2>3 DEF Waits, Queues
  <2>5. ~Waits(i)'
    BY <1>1, <2>4 DEF Waits
  <2>6. ASSUME NEW d \in Channel, ThreadHolds(d, i)', d # t
        PROVE  ThreadHolds(d, i) /\ Assigning(d, t) /\ thread'[d] = thread[d]
    <3>1. ThreadHolds(d, i) /\ thread'[d] = thread[d]
      BY <1>1, <2>6 DEF ThreadHolds
    <3>2. t \in IF thread[d].pc \in Loop THEN {thread[d].tch}
                ELSE IF d \in TCH THEN {d, None} ELSE (Channel \cup {None}) \ TCH
      BY <1>1, <1>4, <3>1 DEF LifeOf, Once5, Loop
    <3>3. thread[d].pc \in Loop /\ thread[d].tch = t
      BY <1>2, <2>6, <3>2
    <3> QED BY <1>2, <3>1, <3>3, InLoop
  <2>7. Once1(i)' /\ Once2(i)' /\ Once3(i)' /\ Once4(i)'
    BY <1>1, <2>1, <2>2, <2>5 DEF Once1, Once2, Once3, Once4
  <2>8. Once5(i)'
    <3>1. ASSUME NEW d \in Channel, ThreadHolds(d, i)', d # t
          PROVE  table'[i].chan = t /\ thread'[d].pc \in Loop /\ thread'[d].tch = t
      BY <1>1, <1>4, <2>6, <3>1 DEF Assigning, Loop
    <3>2. table'[i].chan = t /\ thread'[t].pc \notin Loop
      BY <1>1, <1>4 DEF Loop
    <3> QED BY <3>1, <3>2 DEF Once5, Loop
  <2>9. Once6(i)'
    <3>1. SUFFICES ASSUME NEW d \in Channel, NEW f \in Channel, ThreadHolds(d, i)',
                          ThreadHolds(f, i)', d # f
                   PROVE  Assigning(d, f)' \/ Assigning(f, d)'
      BY DEF Once6
    <3>2. CASE d = t
      BY <2>6, <3>1, <3>2 DEF Assigning
    <3>3. CASE f = t
      BY <2>6, <3>1, <3>3 DEF Assigning
    <3>4. CASE d # t /\ f # t
      <4>1. Assigning(d, f) \/ Assigning(f, d)
        BY <2>6, <3>1, <3>4 DEF LifeOf, Once6
      <4> QED BY <2>6, <3>1, <3>4, <4>1 DEF Assigning
    <3> QED BY <3>2, <3>3, <3>4
  <2> QED BY <2>7, <2>8, <2>9 DEF LifeOf
<1> QED  BY <1>3, <1>4

\* The thread of a SACCH gets an entry that waited for it.
LEMMA LifeInCall ==
  ASSUME TypeOK, Indices, Queues, Kinds, NEW t \in TCH, InCallSMS(t), NEW i \in ID, LifeOf(i)
  PROVE  LifeOf(i)'
<1> DEFINE c == SACCH(t)
           k == Head(queue[t])
<1>1. /\ c \in Channel /\ queue[t] # <<>> /\ queue[t] \in Seq(Nat)
      /\ Gets(c, k, "begin")
      /\ queue'[t] = Tail(queue[t]) /\ \A u \in TCH : u # t => queue'[u] = queue[u]
      /\ UNCHANGED <<table, sip>>
  BY InCallSMSEffect
<1>2. /\ thread'[c].pc = "begin" /\ thread'[c].id = k
      /\ \A d \in Channel : d # c => thread'[d] = thread[d]
  BY <1>1 DEF Gets
<1>3. 1 \in DOMAIN queue[t] /\ k = queue[t][1]
  BY <1>1
<1>4. \A u \in TCH : \A n \in DOMAIN queue'[u] : queue'[u][n] = i => Waits(i)
  <2>1. SUFFICES ASSUME NEW u \in TCH, NEW n \in DOMAIN queue'[u], queue'[u][n] = i
                 PROVE  Waits(i)
    OBVIOUS
  <2>2. CASE u # t
    BY <1>1, <2>1, <2>2 DEF Waits
  <2>3. CASE u = t
    <3>1. n \in DOMAIN Tail(queue[t])
      BY <1>1, <2>1, <2>3
    <3>2. n + 1 \in DOMAIN queue[t] /\ Tail(queue[t])[n] = queue[t][n + 1]
      BY <1>1, <3>1
    <3> QED BY <1>1, <2>1, <2>3, <3>2 DEF Waits
  <2> QED BY <2>2, <2>3
<1>5. c \notin TCH
  BY Constants
<1> HIDE DEF c, k
<1>6. CASE i # k
  <2>1. Untouched(i)
    BY <1>1, <1>2, <1>4, <1>6 DEF Untouched
  <2> QED BY <2>1, LifeKept
<1>7. CASE i = k
  <2>1. Waits(i)
    BY <1>3, <1>7 DEF Waits
  <2>2. /\ ~(sip.pc = "page" /\ sip.id = i) /\ table[i].gsm # "Paging"
        /\ table[i].sip # "MODCanceling" /\ ~Taken(i)
    BY <2>1 DEF LifeOf, Once2, Once4
  <2>3. ~Waits(i)'
    BY <1>7, QueuesTaken DEF Waits, k
  <2>4. ASSUME NEW d \in Channel, ThreadHolds(d, i)'
        PROVE  d = c
    BY <1>2, <2>2, <2>4 DEF Taken, ThreadHolds
  <2>5. table[i].request \in SMS
    BY <1>3, <1>7 DEF Queues
  <2>6. table[i].chan \in (Channel \cup {None}) \ TCH
    BY <2>5, Tables, Types DEF Kinds, Entry
  <2>7. Once1(i)' /\ Once2(i)' /\ Once3(i)' /\ Once4(i)'
    BY <1>1, <2>2, <2>3 DEF Once1, Once2, Once3, Once4
  <2>8. Once5(i)'
    BY <1>1, <1>2, <1>5, <2>4, <2>6 DEF Once5
  <2>9. Once6(i)'
    BY <2>4 DEF Once6
  <2> QED BY <2>7, <2>8, <2>9 DEF LifeOf
<1> QED  BY <1>6, <1>7

\* A step of the thread of a channel.
LEMMA LifeThread ==
  ASSUME TypeOK, Indices, Places, Queues, Kinds, NEW c \in Channel, ThreadStep(c),
         NEW i \in ID, LifeOf(i)
  PROVE  LifeOf(i)'
<1>1. CASE Leaves(c)
  BY <1>1, LifeLeaves
<1>2. CASE Advances(c)
  BY <1>2, LifeAdvances
<1>3. ASSUME c \in SDCCH, RemovePage(c)
      PROVE  LifeOf(i)'
  <2>1. /\ thread[c] \in ThreadState /\ thread[c].id = 0
        /\ UNCHANGED <<table, sip, queue>>
    BY <1>3, Types DEF RemovePage
  <2>2. thread' = [thread EXCEPT ![c].pc = "answer"]
    BY <1>3 DEF RemovePage, Go
  <2>3. thread'[c].id = 0 /\ \A d \in Channel : d # c => thread'[d] = thread[d]
    BY <2>1, <2>2, Types DEF ThreadState
  <2> QED BY <2>1, <2>3, NotZero, LifeSame
<1>4. ASSUME c \in SDCCH, answeredPaging(c)
      PROVE  LifeOf(i)'
  BY <1>4, answeredPagingEffect, LifeQuits, LifeAnswers
<1>5. ASSUME c \in SDCCH, Move(c)
      PROVE  LifeOf(i)'
  <2>1. /\ UNCHANGED <<table, sip, queue>>
        /\ thread'[thread[c].tch].id = 0
        /\ \A d \in Channel : d # thread[c].tch => thread'[d] = thread[d]
    BY <1>5, MoveEffect DEF Places
  <2> QED BY <2>1, NotZero, LifeSame
<1>6. ASSUME c \in TCH, AssignmentComplete(c)
      PROVE  LifeOf(i)'
  BY <1>6, AssignmentCompleteEffect, LifeQuits, LifeCompletes
<1>7. ASSUME NEW t \in TCH, InCallSMS(t)
      PROVE  LifeOf(i)'
  BY <1>7, LifeInCall
<1> QED  BY <1>1, <1>2, <1>3, <1>4, <1>5, <1>6, <1>7, ThreadSteps DEF Places

\* A new transaction is with the SIP thread, or in one queue; the others are where they were.
LEMMA LifeNew ==
  ASSUME TypeOK, Indices, NEW k, NewPaged(k) \/ NewQueued(k)
  PROVE  /\ \A i \in ID : LifeOf(i) => LifeOf(i)'
         /\ LifeOf(k)'
<1>1. /\ k \notin ID /\ k # 0 /\ UNCHANGED thread
      /\ \A i \in ID : /\ table'[i].gsm = table[i].gsm /\ table'[i].sip = table[i].sip
                       /\ table'[i].chan = table[i].chan
      /\ table'[k].gsm = "Null" /\ table'[k].sip \in {"Null", "Proceeding"}
      /\ table'[k].chan = sip.chan
  BY DEF NewPaged, NewQueued, Added
<1>2. ~Taken(k)
  BY <1>1, Types DEF Taken, ThreadHolds
<1>3. ~Taken(k)'
  BY <1>1, <1>2 DEF Taken, ThreadHolds
<1>4. ~Waits(k)
  BY <1>1 DEF Waits, Indices
<1>5. \A c \in Channel : ~ThreadHolds(c, k)'
  BY <1>3 DEF Taken
<1>6. Once4(k)' /\ Once5(k)' /\ Once6(k)' /\ Once3(k)'
  BY <1>1, <1>3, <1>5 DEF Once3, Once4, Once5, Once6
<1>7. CASE NewPaged(k)
  <2>1. /\ UNCHANGED queue /\ sip'.pc = "page" /\ sip'.id = k /\ sip.chan = None
    BY <1>7 DEF NewPaged
  <2>2. ~Waits(k)'
    BY <1>4, <2>1 DEF Waits
  <2>3. Once1(k)' /\ Once2(k)'
    BY <1>1, <1>3, <2>1, <2>2 DEF Once1, Once2
  <2>4. \A i \in ID : LifeOf(i) => LifeOf(i)'
    BY <1>1, <2>1, LifeSame
  <2> QED BY <1>6, <2>3, <2>4 DEF LifeOf
<1>8. CASE NewQueued(k)
  <2>1. PICK t \in TCH : queue' = [queue EXCEPT ![t] = Append(@, k)]
    BY <1>8 DEF NewQueued
  <2>2. sip'.pc = "idle"
    BY <1>8, Idle DEF NewQueued
  <2>3. Once1(k)' /\ Once2(k)'
    BY <1>1, <2>2 DEF Once1, Once2
  <2>4. \A u \in TCH : \A n \in DOMAIN queue'[u] :
          queue'[u][n] = k \/ (n \in DOMAIN queue[u] /\ queue'[u][n] = queue[u][n])
    <3>1. queue \in [TCH -> Seq(Nat)]
      BY Types
    <3>2. \A u \in TCH : u # t => queue'[u] = queue[u]
      BY <2>1, <3>1
    <3>3. queue'[t] = Append(queue[t], k) /\ queue[t] \in Seq(Nat)
      BY <2>1, <3>1
    <3>4. k \in Nat
      BY <1>8 DEF NewQueued, Added
    <3>5. \A n \in DOMAIN Append(queue[t], k) :
            Append(queue[t], k)[n] = k \/ (n \in DOMAIN queue[t] /\ Append(queue[t], k)[n] = queue[t][n])
      BY <3>3, <3>4
    <3> QED BY <3>2, <3>3, <3>5
  <2>5. ASSUME NEW i \in ID, LifeOf(i)
        PROVE  LifeOf(i)'
    <3>1. \A u \in TCH : \A n \in DOMAIN queue'[u] : queue'[u][n] = i => Waits(i)
      BY <1>1, <2>4 DEF Waits
    <3>2. Untouched(i)
      BY <1>1, <2>2, <3>1 DEF Untouched
    <3> QED BY <2>5, <3>2, LifeKept
  <2> QED BY <1>6, <2>3, <2>5 DEF LifeOf
<1> QED  BY <1>7, <1>8

\* A transaction is to be paged: nobody else has it.
LEMMA LifeSetPaging ==
  ASSUME TypeOK, Indices, SetPaging, NEW i \in ID, LifeOf(i)
  PROVE  LifeOf(i)'
<1>1. sip.pc = "page" /\ UNCHANGED <<thread, queue>>
  BY SetPagingEffect
<1>2. CASE UNCHANGED table /\ sip'.pc = "thrown"
  BY <1>1, <1>2, LifeSame
<1>3. CASE ~(UNCHANGED table /\ sip'.pc = "thrown")
  <2>1. /\ \A j \in ID : j # sip.id => table'[j] = table[j]
        /\ table'[sip.id].gsm = "Paging" /\ table'[sip.id].chan = table[sip.id].chan
        /\ sip'.pc = "list"
    BY <1>3, SetPagingEffect
  <2>2. CASE i # sip.id
    BY <1>1, <2>1, <2>2, LifeSame
  <2>3. CASE i = sip.id
    <3>1. table[i].chan = None /\ ~Taken(i) /\ ~Waits(i)
      BY <1>1, <2>3 DEF LifeOf, Once1, Once2
    <3>2. ~Taken(i)' /\ ~Waits(i)'
      BY <1>1, <3>1 DEF Taken, Waits, ThreadHolds
    <3>3. \A c \in Channel : ~ThreadHolds(c, i)'
      BY <3>2 DEF Taken
    <3> QED BY <2>1, <2>3, <3>1, <3>2, <3>3 DEF LifeOf, Once1, Once2, Once3, Once4, Once5, Once6
  <2> QED BY <2>2, <2>3
<1> QED  BY <1>2, <1>3

\* The pager gives up a transaction: nobody else has it.
LEMMA LifeDropPage ==
  ASSUME TypeOK, Indices, NEW m \in Mobile, DropPage(m), NEW i \in ID, LifeOf(i)
  PROVE  LifeOf(i)'
<1>1. UNCHANGED <<sip, thread, queue>>
  BY DropPageEffect
<1>2. CASE UNCHANGED table
  BY <1>1, <1>2, LifeSame
<1>3. CASE ~ UNCHANGED table
  <2>1. PICK k \in ID :
          /\ \A j \in ID : j # k => table'[j] = table[j]
          /\ table[k].gsm = "Paging" /\ table'[k].gsm = "Paging"
          /\ table'[k].chan = table[k].chan
    BY <1>3, DropPageEffect
  <2>2. CASE i # k
    BY <1>1, <2>1, <2>2, LifeSame
  <2>3. CASE i = k
    <3>1. table[i].chan = None /\ ~Taken(i) /\ ~Waits(i) /\ ~(sip.pc = "page" /\ sip.id = i)
      BY <2>1, <2>3 DEF LifeOf, Once1, Once2, Once3
    <3>2. ~Taken(i)' /\ ~Waits(i)'
      BY <1>1, <3>1 DEF Taken, Waits, ThreadHolds
    <3>3. \A c \in Channel : ~ThreadHolds(c, i)'
      BY <3>2 DEF Taken
    <3> QED BY <1>1, <2>1, <2>3, <3>1, <3>2, <3>3
            DEF LifeOf, Once1, Once2, Once3, Once4, Once5, Once6
  <2> QED BY <2>2, <2>3
<1> QED  BY <1>2, <1>3

\* A request that has come once, once there is an entry for it, had come once before.
LEMMA OnceKept ==
  ASSUME TypeOK, Indices, Places, Messages, [Next]_vars, NEW i \in ID, Once(i)'
  PROVE  Once(i)
<1>1. table'[i].request = table[i].request /\ table[i].request \in Request
  BY RequestsKept, Tables, Types DEF Entry
<1>2. count[table[i].request] \in Nat /\ count[table[i].request] >= 1
  <2>1. count[table[i].request] >= IF Invited(table[i].request) THEN 2 ELSE 1
    BY DEF Messages, Arrivals
  <2>2. count[table[i].request] \in Nat
    BY <1>1, Types
  <2> QED BY <2>1, <2>2
<1>3. CASE UNCHANGED count
  BY <1>1, <1>3 DEF Once
<1>4. ASSUME NEW r \in Request, Invite(r)
      PROVE  Once(i)
  <2>1. count'[r] = count[r] + 1 /\ \A q \in Request : q # r => count'[q] = count[q]
    BY <1>4, InviteEffect
  <2> QED BY <1>1, <1>2, <2>1 DEF Once
<1>5. ASSUME NEW c \in Channel, ThreadStep(c)
      PROVE  Quiet
  BY <1>5, QuietThread
<1>6. CASE SIPThread
  <2>1. CASE SendTrying \/ Refuse \/ SetPaging \/ ListPage
    BY <1>3, <2>1, QuietSIP DEF Quiet
  <2>2. CASE Repeated
    BY <1>3, <2>2 DEF Repeated
  <2>3. CASE NewTransaction
    BY <1>3, <2>3 DEF NewTransaction
  <2> QED BY <1>6, <2>1, <2>2, <2>3 DEF SIPThread
<1> QED  BY <1>3, <1>4, <1>5, <1>6
         DEF Next, vars, OtherScan, Tick, SendPage, DropPage, LeaveChannel, Answer, Quiet

\* Only NewTransaction adds an entry.
LEMMA EntriesKept ==
  ASSUME TypeOK, Indices, Places, [Next]_vars, ~NewTransaction
  PROVE  ID' = ID
<1>1. CASE SendTrying \/ Refuse \/ SetPaging \/ ListPage
  BY <1>1, QuietSIP DEF Quiet
<1>2. CASE Repeated
  BY <1>2, RepeatedEffect DEF Swept
<1>3. ASSUME NEW c \in Channel, ThreadStep(c)
      PROVE  ID' = ID
  BY <1>3, QuietThread DEF Quiet
<1>4. CASE UNCHANGED table
  BY <1>4, SameTable
<1>5. ASSUME NEW j \in ID, Tick(j)
      PROVE  ID' = ID
  BY <1>5, TickEffect
<1>6. ASSUME NEW m \in Mobile, DropPage(m)
      PROVE  ID' = ID
  BY <1>4, <1>6, DropPageEffect
<1>7. ASSUME NEW r \in Request, Invite(r)
      PROVE  ID' = ID
  BY <1>7, InviteEffect DEF Swept
<1>8. ASSUME OtherScan
      PROVE  ID' = ID
  BY <1>8, SweptEffect DEF OtherScan, Scan, Swept
<1> QED BY <1>1, <1>2, <1>3, <1>4, <1>5, <1>6, <1>7, <1>8
        DEF Next, vars, SIPThread, SendPage, LeaveChannel, Answer

\* A request that came once has its transaction where it should be.
LEMMA LifeNext ==
  ASSUME TypeOK, Indices, Places, Messages, Queues, Kinds, Life, [Next]_vars
  PROVE  Life'
<1>1. ASSUME NEW i \in ID, Once(i)'
      PROVE  Once(i) /\ LifeOf(i)
  BY <1>1, OnceKept DEF Life
<1>2. ASSUME NEW i \in ID, LifeOf(i), UNCHANGED <<table, thread, queue, sip>>
      PROVE  LifeOf(i)'
  BY <1>2, LifeSame
<1>3. ASSUME NEW i \in ID, LifeOf(i), Swept, UNCHANGED <<thread, queue>>,
             sip'.pc = "page" => UNCHANGED sip
      PROVE  LifeOf(i)'
  BY <1>3, LifeSame DEF Swept
<1>4. ASSUME NEW i \in ID, LifeOf(i), Once(i), SIPThread, ~NewTransaction
      PROVE  LifeOf(i)'
  <2>1. CASE Repeated
    BY <1>3, <1>4, <2>1, RepeatedEffect, Idle
  <2>2. CASE SendTrying
    <3>1. i # sip.id
      BY <1>4, <2>2, SendTryingEffect DEF Messages, Arrivals
    <3> QED BY <1>4, <2>2, <3>1, SendTryingEffect, LifeSame
  <2>3. CASE Refuse
    <3>1. sip'.pc = "idle" /\ UNCHANGED <<thread, queue>> /\ (UNCHANGED table \/ Swept)
      BY <2>3, RefuseEffect, Idle
    <3> QED BY <1>3, <1>4, <3>1, LifeSame
  <2>4. CASE SetPaging
    BY <1>4, <2>4, LifeSetPaging
  <2>5. CASE ListPage
    BY <1>4, <2>5, ListPageEffect, Idle, LifeSame
  <2> QED BY <1>4, <2>1, <2>2, <2>3, <2>4, <2>5 DEF SIPThread
<1>5. ASSUME NEW i \in ID, LifeOf(i), NEW j \in ID, Tick(j)
      PROVE  LifeOf(i)'
  <2>1. /\ table'[i].gsm = table[i].gsm /\ table'[i].sip = table[i].sip
        /\ table'[i].chan = table[i].chan
    BY <1>5, TickEffect
  <2> QED BY <1>5, <2>1, LifeSame DEF Tick
<1>6. ASSUME NEW i \in ID, LifeOf(i), NEW m \in Mobile, NEW c \in SDCCH, Answer(m, c)
      PROVE  LifeOf(i)'
  BY <1>6, AnswerEffect, NotZero, LifeSame
<1>7. ASSUME NEW i \in ID, LifeOf(i), OtherScan
      PROVE  LifeOf(i)'
  BY <1>3, <1>7, SweptEffect DEF OtherScan, Scan
<1>8. ASSUME NEW i \in ID, LifeOf(i), NEW r \in Request, Invite(r)
      PROVE  LifeOf(i)'
  BY <1>3, <1>8, InviteEffect
<1>9. ASSUME NEW i \in ID, LifeOf(i), Once(i), ~NewTransaction
      PROVE  LifeOf(i)'
  BY <1>2, <1>4, <1>5, <1>6, <1>7, <1>8, <1>9, LifeThread, LifeDropPage
     DEF Next, vars, SendPage, LeaveChannel
<1>10. CASE NewTransaction
  <2>1. PICK k : NewPaged(k) \/ NewQueued(k)
    BY <1>10, NewTransactionEffect
  <2>2. ID' = ID \cup {k}
    BY <2>1 DEF NewPaged, NewQueued, Added
  <2>3. LifeOf(k)' /\ \A i \in ID : LifeOf(i) => LifeOf(i)'
    BY <2>1, LifeNew
  <2> QED BY <1>1, <2>2, <2>3 DEF Life
<1>11. CASE ~NewTransaction
  <2>1. ID' = ID
    BY <1>11, EntriesKept
  <2> QED BY <1>1, <1>9, <1>11, <2>1 DEF Life
<1> QED  BY <1>10, <1>11

----------------------------------------------------------------------------
(* Ages *)

\* A SACCH that comes to be served has nothing waiting for it.
Opens == \A t \in TCH : Open(t)' => Open(t) \/ queue'[t] = <<>>

\* What waits for a SACCH that is served, did so before.
LEMMA QueuedKept ==
  ASSUME TypeOK, Opens, NEW i,
         \A t \in TCH : \A n \in DOMAIN queue'[t] : queue'[t][n] = i =>
           \E k \in DOMAIN queue[t] : queue[t][k] = i
  PROVE  Queued(i)' => Queued(i)
<1>1. SUFFICES ASSUME NEW t \in TCH, Open(t)', NEW n \in DOMAIN queue'[t], queue'[t][n] = i
               PROVE  Queued(i)
  BY DEF Queued
<1>2. queue'[t] # <<>>
  BY <1>1
<1>3. Open(t)
  BY <1>1, <1>2 DEF Opens
<1> QED  BY <1>1, <1>3 DEF Queued

\* No thread takes a TCH, and no phone goes to one, but those that have it.
LEMMA OpensKept ==
  ASSUME \A t \in TCH : thread'[t].pc # "idle" => Open(t),
         \A c \in Channel : thread'[c].tch \in TCH => Open(thread'[c].tch) \/ queue'[thread'[c].tch] = <<>>,
         \A m \in Mobile : phone'[m] \in TCH => Open(phone'[m])
  PROVE  Opens
<1>1. SUFFICES ASSUME NEW t \in TCH, Open(t)'  PROVE Open(t) \/ queue'[t] = <<>>
  BY DEF Opens
<1> QED  BY <1>1 DEF Open

\* A TCH is opened again only when its queue is empty.
LEMMA OpensNext ==
  ASSUME TypeOK, Indices, Places, [Next]_vars
  PROVE  Opens
<1>1. /\ \A t \in TCH : thread[t].pc # "idle" => Open(t)
      /\ \A c \in Channel : thread[c].tch \in TCH => Open(thread[c].tch)
      /\ \A m \in Mobile : phone[m] \in TCH => Open(phone[m])
  BY DEF Open
<1>2. CASE UNCHANGED thread /\ \A m \in Mobile : phone'[m] \in {phone[m], None}
  BY <1>1, <1>2, MTAssumption, OpensKept
<1>3. ASSUME NEW c \in Channel, Leaves(c)
      PROVE  Opens
  <2>1. /\ thread'[c] = ThreadIdle /\ \A d \in Channel : d # c => thread'[d] = thread[d]
        /\ \A m \in Mobile : phone'[m] \in {phone[m], None}
    BY <1>3 DEF Leaves, Works
  <2> QED BY <1>1, <2>1, Idle, Constants, OpensKept
<1>4. ASSUME NEW c \in Channel, Advances(c)
      PROVE  Opens
  <2>1. /\ \A d \in Channel : d # c => thread'[d] = thread[d]
        /\ thread[c].pc # "idle"
        /\ \A m \in Mobile : phone'[m] \in {phone[m], None}
        /\ thread'[c].tch = thread[c].tch \/ queue'[thread'[c].tch] = <<>>
    BY <1>4 DEF Advances, Advanced, GoesOn, Works
  <2> QED BY <1>1, <2>1, Constants, OpensKept
<1>5. ASSUME NEW c \in SDCCH, RemovePage(c)
      PROVE  Opens
  <2>1. /\ c \in Channel /\ c \notin TCH /\ thread[c] \in ThreadState
        /\ UNCHANGED phone /\ thread' = [thread EXCEPT ![c].pc = "answer"]
    BY <1>5, Types, Constants DEF RemovePage, Go
  <2>2. thread'[c].tch = thread[c].tch /\ \A d \in Channel : d # c => thread'[d] = thread[d]
    BY <2>1, Types DEF ThreadState
  <2> QED BY <1>1, <2>1, <2>2, Constants, OpensKept
<1>6. ASSUME NEW c \in Channel, SweptAndQuit(c)
      PROVE  Opens
  <2>1. /\ thread'[c] = ThreadIdle /\ \A d \in Channel : d # c => thread'[d] = thread[d]
        /\ \A m \in Mobile : phone'[m] \in {phone[m], None}
    BY <1>6 DEF SweptAndQuit
  <2> QED BY <1>1, <2>1, Idle, Constants, OpensKept
<1>7. ASSUME NEW c \in Channel, NEW i, NEW pc, Gets(c, i, pc), UNCHANGED phone,
             c \in TCH => thread[c].pc # "idle"
      PROVE  Opens
  <2>1. /\ \A d \in Channel : d # c => thread'[d] = thread[d]
        /\ thread'[c].tch = thread[c].tch
    BY <1>7 DEF Gets
  <2> QED BY <1>1, <1>7, <2>1, Constants, OpensKept
<1>8. ASSUME NEW c \in SDCCH, answeredPaging(c)
      PROVE  Opens
  BY <1>6, <1>7, <1>8, answeredPagingEffect, Constants DEF Answers
<1>9. ASSUME NEW c \in TCH, AssignmentComplete(c)
      PROVE  Opens
  BY <1>6, <1>7, <1>9, AssignmentCompleteEffect, Constants DEF Completes
<1>10. ASSUME NEW t \in TCH, InCallSMS(t)
       PROVE  Opens
  BY <1>7, <1>10, InCallSMSEffect, Constants
<1>11. ASSUME NEW c \in SDCCH, Move(c)
       PROVE  Opens
  <2> DEFINE t == thread[c].tch
  <2>1. /\ t \in TCH /\ thread'[t].tch = None
        /\ \A d \in Channel : d # t => thread'[d] = thread[d]
        /\ \E m \in Mobile : phone'[m] = t /\ \A n \in Mobile : n # m => phone'[n] = phone[n]
    BY <1>11, MoveEffect DEF Places
  <2>2. c \in Channel /\ Open(t)
    BY <2>1, <1>1, Constants
  <2> QED BY <1>1, <2>1, <2>2, Constants, OpensKept
<1>12. ASSUME NEW m \in Mobile, NEW c \in SDCCH, Answer(m, c)
       PROVE  Opens
  <2>1. /\ thread'[c].tch = None /\ c \notin TCH /\ c \in Channel
        /\ \A d \in Channel : d # c => thread'[d] = thread[d]
        /\ phone'[m] = c /\ \A n \in Mobile : n # m => phone'[n] = phone[n]
    BY <1>12, AnswerEffect, Constants
  <2> QED BY <1>1, <2>1, Constants, OpensKept
<1>13. ASSUME NEW c \in Channel, ThreadStep(c)
       PROVE  Opens
  BY <1>3, <1>4, <1>5, <1>8, <1>9, <1>10, <1>11, <1>13, ThreadSteps DEF Places
<1>14. ASSUME NEW m \in Mobile, LeaveChannel(m)
       PROVE  Opens
  <2>1. UNCHANGED thread /\ phone' = [phone EXCEPT ![m] = None]
    BY <1>14 DEF LeaveChannel
  <2>2. \A n \in Mobile : phone'[n] \in {phone[n], None}
    BY <2>1, Types
  <2> QED BY <1>2, <2>1, <2>2
<1>15. CASE UNCHANGED <<thread, phone>>
  BY <1>2, <1>15
<1>16. CASE SIPThread
  BY <1>15, <1>16 DEF SIPThread, Repeated, SendTrying, Refuse, NewTransaction, SetPaging, ListPage
<1> QED  BY <1>12, <1>13, <1>14, <1>15, <1>16
         DEF Next, vars, OtherScan, Tick, Invite, SendPage, DropPage

\* Only the thread of a TCH is in a call.
LEMMA CallsOnTCH ==
  ASSUME Places, NEW c \in Channel, thread[c].pc = "call"
  PROVE  c \in TCH
  BY DEF Channel, Places, ThreadPlaces, SDCCHState, SACCHState

\* What a thread points to, or a SACCH will, does not look dead.
LEMMA NotDead ==
  ASSUME TypeOK, Places, Kinds, NEW i \in ID, AgesOf(i), Spared(i),
         Used(i) \/ (~SetBack(i) /\ \E c \in Channel : ThreadHolds(c, i))
  PROVE  ~dead(table[i])
<1>1. CASE Used(i)
  <2>1. table[i].age = 0
    BY <1>1 DEF AgesOf, Young
  <2> QED BY <2>1 DEF dead
<1>2. CASE ~Used(i)
  <2>1. PICK c \in Channel : ThreadHolds(c, i) /\ thread[c].pc = "call"
    BY <1>2 DEF Used
  <2>2. c \in TCH
    BY <2>1, CallsOnTCH
  <2>3. Once(i)
    BY <2>1 DEF Kinds, Spared, ThreadHolds
  <2>4. table[i].gsm = "Active" /\ table[i].sip = "Active"
    BY <1>2, <2>1, <2>2 DEF SetBack
  <2>5. ~table[i].removed
    BY <2>1, <2>2, <2>3 DEF AgesOf, CallOf
  <2> QED BY <2>4, <2>5 DEF dead
<1> QED  BY <1>1, <1>2

\* Sweeping the table brings nothing to life.
LEMMA SweptDead ==
  ASSUME Swept, NEW i \in ID
  PROVE  dead(table[i]) => dead(table'[i])
  BY DEF Swept, dead

\* A step that gives nobody entry i, and takes it from no call, keeps it young.
LEMMA AgesKept ==
  ASSUME TypeOK, Places, Kinds, NEW i \in ID, AgesOf(i),
         Spared(i)' => Spared(i), Once(i)' => Once(i),
         table'[i].gsm = table[i].gsm, table'[i].sip = table[i].sip,
         table'[i].removed = table[i].removed,
         Used(i)' => table'[i].age \in {table[i].age, 0},
         dead(table[i]) => Used(i) \/ dead(table'[i]),
         table'[i].erased => table[i].erased \/ dead(table[i]),
         \A c \in Channel :
           \/ thread'[c] = thread[c]
           \/ thread'[c].id # i /\ ~(ThreadHolds(c, i) /\ thread[c].pc \in Answered),
         sip'.id = i => sip.id = i,
         Queued(i)' => Queued(i)
  PROVE  AgesOf(i)'
<1>1. \A c \in Channel : ThreadHolds(c, i)' => ThreadHolds(c, i) /\ thread'[c] = thread[c]
  BY DEF ThreadHolds
<1>2. Used(i)' => Used(i)
  BY <1>1 DEF Used
<1>3. Held(i)' => Held(i)
  BY <1>1 DEF Held
<1>4. SetBack(i) => SetBack(i)'
  <2>1. SUFFICES ASSUME SetBack(i)  PROVE SetBack(i)'
    OBVIOUS
  <2>2. PICK t \in TCH : /\ ThreadHolds(t, i) /\ thread[t].pc = "call"
                         /\ ~(table[i].gsm = "Active" /\ table[i].sip = "Active")
    BY <2>1 DEF SetBack
  <2>3. thread'[t] = thread[t]
    BY <2>2, Constants DEF Answered
  <2> QED BY <2>2, <2>3 DEF SetBack, ThreadHolds
<1>5. ASSUME Spared(i)'
      PROVE  Young(i)'
  <2>1. Spared(i) /\ Young(i)
    BY <1>5 DEF AgesOf
  <2>2. ASSUME Held(i)', ~SetBack(i)'
        PROVE  ~table'[i].erased
    <3>1. Held(i) /\ ~SetBack(i)
      BY <1>3, <1>4, <2>2
    <3>2. Used(i) \/ \E c \in Channel : ThreadHolds(c, i)
      BY <3>1 DEF Held, Used
    <3>3. ~dead(table[i])
      BY <2>1, <3>1, <3>2, NotDead
    <3> QED BY <2>1, <3>1, <3>3 DEF Young
  <2>3. ASSUME Used(i)'
        PROVE  table'[i].age = 0 /\ ~table'[i].erased
    <3>1. Used(i)
      BY <1>2, <2>3
    <3>2. ~dead(table[i])
      BY <2>1, <3>1, NotDead
    <3> QED BY <2>1, <2>3, <3>1, <3>2 DEF Young
  <2> QED BY <2>2, <2>3 DEF Young
<1>6. ASSUME Once(i)'
      PROVE  CallOf(i)'
  <2>1. CallOf(i) /\ Once(i) /\ Spared(i)
    BY <1>6 DEF AgesOf, Spared
  <2>2. ASSUME NEW t \in TCH, ThreadHolds(t, i), thread[t].pc \in Answered
        PROVE  thread'[t] = thread[t]
    BY <2>2, Constants
  <2>3. \A t \in TCH : ThreadHolds(t, i)' => ThreadHolds(t, i) /\ thread'[t] = thread[t]
    BY <1>1, Constants
  <2>4. dead(table[i]) => dead(table'[i])
    BY <2>1, NotDead
  <2>5. table'[i].sip \in {"Connecting", "Active"} /\ ~table'[i].removed =>
          dead(table'[i]) \/ \E t \in TCH : ThreadHolds(t, i)' /\ thread'[t].pc \in Answered
    BY <2>1, <2>2, <2>4 DEF CallOf, ThreadHolds
  <2> QED BY <2>1, <2>3, <2>5 DEF CallOf
<1> QED  BY <1>5, <1>6 DEF AgesOf

\* The thread of c leaves its entry, or goes on with it.
LEMMA AgesLeaves ==
  ASSUME TypeOK, Places, Kinds, NEW c \in Channel, Leaves(c), NEW i \in ID, AgesOf(i), Opens,
         Once(i) => LifeOf(i), Spared(i)' => Spared(i), Once(i)' => Once(i)
  PROVE  AgesOf(i)'
<1> DEFINE k == thread[c].id
<1>1. /\ \A j \in ID : j # k => table'[j] = table[j]
      /\ thread'[c] = ThreadIdle /\ \A d \in Channel : d # c => thread'[d] = thread[d]
      /\ \A t \in TCH : queue'[t] \in {queue[t], <<>>}
      /\ UNCHANGED sip
  BY DEF Leaves, Works
<1>2. thread'[c].id # i
  BY <1>1, Idle, NotZero
<1>3. Queued(i)' => Queued(i)
  <2>1. \A t \in TCH : \A n \in DOMAIN queue'[t] : queue'[t][n] = i =>
           \E l \in DOMAIN queue[t] : queue[t][l] = i
    BY <1>1
  <2> QED BY <2>1, QueuedKept
<1>4. CASE i # k
  <2>1. ~ThreadHolds(c, i)
    BY <1>4 DEF ThreadHolds
  <2> QED BY <1>1, <1>2, <1>3, <1>4, <2>1, AgesKept
<1>5. CASE i = k
  <2>1. /\ table'[i].erased = table[i].erased
        /\ table[i].removed => table'[i].removed
        /\ table'[i].sip \in {table[i].sip, "Cleared", "Canceled"}
        /\ table'[i].age \in {table[i].age, 0}
        /\ thread[c].pc \in Loop => table'[i].removed = table[i].removed
        /\ thread[c].pc \in Answered =>
             dead(table'[i]) \/ table'[i].removed \/ table'[i].sip \in {"Cleared", "Canceled"}
    BY <1>5 DEF Leaves, Ended, Mine, Answered
  <2>2. \A d \in Channel : ThreadHolds(d, i)' => ThreadHolds(d, i) /\ thread'[d] = thread[d] /\ d # c
    BY <1>1, <1>2 DEF ThreadHolds
  <2>3. ThreadHolds(c, i)
    BY <1>5 DEF ThreadHolds
  <2>4. Used(i)' => Used(i)
    BY <1>1, <1>3, <2>2 DEF Used
  <2>5. ASSUME Spared(i)'
        PROVE  Young(i)'
    <3>1. Spared(i) /\ Young(i)
      BY <2>5 DEF AgesOf
    <3>2. ASSUME NEW d \in Channel, ThreadHolds(d, i)'
          PROVE  Used(i)
      <4>1. ThreadHolds(d, i) /\ d # c
        BY <2>2, <3>2
      <4>2. CASE thread[c].pc # "call" \/ thread[d].pc # "call"
        BY <2>3, <4>1, <4>2 DEF Used
      <4>3. CASE thread[c].pc = "call" /\ thread[d].pc = "call"
        <5>1. Once(i)
          BY <2>3, <3>1, <4>3 DEF Kinds, Spared, ThreadHolds
        <5>2. Assigning(c, d) \/ Assigning(d, c)
          BY <2>3, <4>1, <5>1 DEF LifeOf, Once6
        <5> QED BY <4>3, <5>2 DEF Assigning
      <4> QED BY <4>2, <4>3
    <3>3. Held(i)' => Used(i)
      BY <1>1, <3>2 DEF Held, Used
    <3> QED BY <2>1, <2>4, <3>1, <3>3 DEF Young
  <2>6. ASSUME Once(i)'
        PROVE  CallOf(i)'
    <3>1. Once(i) /\ CallOf(i) /\ Spared(i)
      BY <2>6 DEF AgesOf, Spared
    <3>2. ASSUME NEW t \in TCH, ThreadHolds(t, i)', thread'[t].pc = "call"
          PROVE  ~table'[i].removed
      <4>1. t \in Channel /\ ThreadHolds(t, i) /\ thread[t].pc = "call" /\ t # c
        BY <2>2, <3>2, Constants
      <4>2. Assigning(c, t) \/ Assigning(t, c)
        BY <2>3, <3>1, <4>1 DEF LifeOf, Once6
      <4>3. thread[c].pc \in Loop
        BY <4>1, <4>2 DEF Assigning, Loop
      <4> QED BY <2>1, <3>1, <4>1, <4>3 DEF CallOf
    <3>3. ASSUME table'[i].sip \in {"Connecting", "Active"}, ~table'[i].removed, ~dead(table'[i])
          PROVE  \E t \in TCH : ThreadHolds(t, i)' /\ thread'[t].pc \in Answered
      <4>1. thread[c].pc \notin Answered
        BY <2>1, <3>3
      <4>2. ~dead(table[i])
        BY <2>3, <3>1, <4>1, NotDead DEF Used, Answered
      <4>3. PICK t \in TCH : ThreadHolds(t, i) /\ thread[t].pc \in Answered
        BY <2>1, <3>1, <3>3, <4>2 DEF CallOf
      <4>4. thread'[t] = thread[t]
        BY <1>1, <4>1, <4>3, Constants
      <4> QED BY <4>3, <4>4 DEF ThreadHolds
    <3> QED BY <3>2, <3>3 DEF CallOf
  <2> QED BY <2>5, <2>6 DEF AgesOf
<1> QED  BY <1>4, <1>5

\* Going on to the next wait keeps an entry young under its controller.
LEMMA AgesAdvances ==
  ASSUME TypeOK, Places, Kinds, NEW c \in Channel, Advances(c), NEW i \in ID, AgesOf(i), Opens,
         Once(i) => LifeOf(i), Spared(i)' => Spared(i), Once(i)' => Once(i)
  PROVE  AgesOf(i)'
<1> DEFINE k == thread[c].id
<1>1. PICK e \in Entry, pc \in ThreadPC : GoesOn(c, e, pc) /\ Advanced(c, e, pc)
  BY DEF Advances
<1>2. /\ k \in ID /\ \A j \in ID : j # k => table'[j] = table[j]
      /\ table'[k] = e /\ (~table[k].removed \/ pc = "again")
      /\ thread'[c].pc = pc /\ thread'[c].id = k
      /\ \A d \in Channel : d # c => thread'[d] = thread[d]
      /\ \A t \in TCH : queue'[t] \in {queue[t], <<>>}
      /\ UNCHANGED sip
  BY <1>1 DEF GoesOn, Works, Mine
<1>3. Queued(i)' => Queued(i)
  <2>1. \A t \in TCH : \A n \in DOMAIN queue'[t] : queue'[t][n] = i =>
           \E l \in DOMAIN queue[t] : queue[t][l] = i
    BY <1>2
  <2> QED BY <2>1, QueuedKept
<1>4. CASE i # k
  <2>1. ~ThreadHolds(c, i)
    BY <1>4 DEF ThreadHolds
  <2> QED BY <1>2, <1>3, <1>4, <2>1, AgesKept
<1>5. CASE i = k
  <2>1. ThreadHolds(c, i) /\ ThreadHolds(c, i)'
    BY <1>2, <1>5 DEF ThreadHolds
  <2>2. \A d \in Channel : ThreadHolds(d, i)' <=> ThreadHolds(d, i)
    BY <1>2, <2>1 DEF ThreadHolds
  <2>3. e.erased = table[i].erased /\ e.age \in {table[i].age, 0} /\ e.removed = table[i].removed
    BY <1>1, <1>2, <1>5 DEF Advanced, Mine
  <2>4. thread[c].pc # "call"
    BY <1>1 DEF Advanced
  <2>5. Used(i)
    BY <2>1, <2>4 DEF Used
  <2>6. ASSUME Spared(i)'
        PROVE  Young(i)'
    BY <1>2, <1>5, <2>3, <2>5, <2>6 DEF AgesOf, Young
  <2>7. ASSUME Once(i)'
        PROVE  CallOf(i)'
    <3>1. Once(i) /\ Spared(i) /\ CallOf(i)
      BY <2>7 DEF AgesOf, Spared
    <3>2. ASSUME NEW t \in TCH, ThreadHolds(t, i)', thread'[t].pc = "call"
          PROVE  ~table'[i].removed
      <4>1. CASE t = c
        BY <1>2, <1>5, <2>3, <3>2, <4>1
      <4>2. CASE t # c
        BY <1>2, <1>5, <2>2, <2>3, <3>1, <3>2, <4>2, Constants DEF CallOf
      <4> QED BY <4>1, <4>2
    <3>3. ASSUME table'[i].sip \in {"Connecting", "Active"}, ~table'[i].removed
          PROVE  \E t \in TCH : ThreadHolds(t, i)' /\ thread'[t].pc \in Answered
      <4>1. CASE pc \in Answered
        <5>1. c \in TCH
          BY <1>1, <4>1 DEF Advanced, Answered
        <5> QED BY <1>2, <2>1, <4>1, <5>1
      <4>2. CASE pc \notin Answered
        <5>1. e.sip = table[i].sip /\ thread[c].pc \notin Answered
          BY <1>1, <1>2, <1>5, <3>3, <4>2 DEF Advanced, Mine, Answered
        <5>2. ~dead(table[i])
          BY <2>5, <3>1, NotDead
        <5>3. PICK t \in TCH : ThreadHolds(t, i) /\ thread[t].pc \in Answered
          BY <1>2, <1>5, <2>3, <3>1, <3>3, <5>1, <5>2 DEF CallOf
        <5>4. t \in Channel /\ thread'[t] = thread[t]
          BY <1>2, <5>1, <5>3, Constants
        <5> QED BY <2>2, <5>3, <5>4
      <4> QED BY <4>1, <4>2
    <3> QED BY <3>2, <3>3 DEF CallOf
  <2> QED BY <2>6, <2>7 DEF AgesOf
<1> QED  BY <1>4, <1>5

\* A thread goes back to wait as it sweeps the table.
LEMMA AgesQuits ==
  ASSUME TypeOK, Places, Kinds, NEW c \in Channel, SweptAndQuit(c), thread[c].pc \notin Answered,
         NEW i \in ID, AgesOf(i), Opens, Spared(i)' => Spared(i), Once(i)' => Once(i)
  PROVE  AgesOf(i)'
<1>1. /\ Swept /\ thread'[c] = ThreadIdle /\ \A d \in Channel : d # c => thread'[d] = thread[d]
      /\ UNCHANGED <<sip, queue>>
  BY DEF SweptAndQuit
<1>2. thread'[c].id # i
  BY <1>1, Idle, NotZero
<1>3. Queued(i)' => Queued(i)
  BY <1>1, QueuedKept
<1>4. dead(table[i]) => dead(table'[i])
  BY <1>1, SweptDead
<1> QED  BY <1>1, <1>2, <1>3, <1>4, AgesKept DEF Swept

\* What a thread gets from the pager is young, and no call is going on.
LEMMA AgesAnswers ==
  ASSUME TypeOK, Places, Kinds, NEW c \in SDCCH, NEW k \in ID, Answers(c, k),
         NEW i \in ID, AgesOf(i), Opens,
         Once(i) => LifeOf(i), Spared(i)' => Spared(i), Once(i)' => Once(i)
  PROVE  AgesOf(i)'
<1>1. /\ k \in Live(table) /\ table[k].gsm = "Paging"
      /\ thread[c].id = 0 /\ thread'[c].pc = "attach" /\ thread'[c].id = k
      /\ \A d \in Channel : d # c => thread'[d] = thread[d]
      /\ \A j \in ID : /\ table'[j].sip = table[j].sip /\ table'[j].removed = table[j].removed
                       /\ table'[j].erased <=> table[j].erased \/ dead(table[j])
                       /\ j # k => table'[j].gsm = table[j].gsm /\ table'[j].age = table[j].age
      /\ table'[k].age = 0
      /\ UNCHANGED <<sip, queue>>
  BY DEF Answers, Gets
<1>2. c \in Channel /\ c \notin TCH /\ ~ThreadHolds(c, i)
  BY <1>1, Constants, NotZero DEF ThreadHolds
<1>3. Queued(i)' => Queued(i)
  BY <1>1, QueuedKept
<1>4. CASE i # k
  <2>1. dead(table[i]) => dead(table'[i])
    BY <1>1, <1>4 DEF dead
  <2> QED BY <1>1, <1>2, <1>3, <1>4, <2>1, AgesKept
<1>5. CASE i = k
  <2>1. ~table'[i].erased /\ ~dead(table[i])
    BY <1>1, <1>5 DEF Live, deadOrRemoved
  <2>2. Young(i)'
    BY <1>1, <1>5, <2>1 DEF Young
  <2>3. ASSUME Once(i)'
        PROVE  CallOf(i)'
    <3>1. CallOf(i) /\ ~Taken(i)
      BY <1>1, <1>5, <2>3 DEF AgesOf, LifeOf, Once2
    <3>2. \A t \in TCH : ~ThreadHolds(t, i)
      BY <3>1, Constants DEF Taken
    <3>3. \A t \in TCH : ~ThreadHolds(t, i)'
      BY <1>1, <1>2, <3>2, Constants DEF ThreadHolds
    <3>4. ~(table'[i].sip \in {"Connecting", "Active"} /\ ~table'[i].removed)
      BY <1>1, <2>1, <3>1, <3>2 DEF CallOf
    <3> QED BY <3>3, <3>4 DEF CallOf
  <2> QED BY <2>2, <2>3 DEF AgesOf
<1> QED  BY <1>4, <1>5

\* The entry that was left on a TCH is found live, hence young.
LEMMA AgesCompletes ==
  ASSUME TypeOK, Places, Kinds, NEW t \in TCH, NEW k \in ID, Completes(t, k),
         thread[t].pc = "complete", NEW i \in ID, AgesOf(i), Opens,
         Once(i) => LifeOf(i), Spared(i)' => Spared(i), Once(i)' => Once(i)
  PROVE  AgesOf(i)'
<1>1. /\ k \in Live(table) /\ table[k].chan = t /\ Swept
      /\ thread[t].id = 0 /\ thread'[t].pc = "alerting" /\ thread'[t].id = k
      /\ \A d \in Channel : d # t => thread'[d] = thread[d]
      /\ UNCHANGED <<sip, queue>>
  BY DEF Completes, Gets
<1>2. t \in Channel /\ ~ThreadHolds(t, i)
  BY <1>1, Constants, NotZero DEF ThreadHolds
<1>3. Queued(i)' => Queued(i)
  BY <1>1, QueuedKept
<1>4. CASE i # k
  <2>1. dead(table[i]) => dead(table'[i])
    BY <1>1, SweptDead
  <2> QED BY <1>1, <1>2, <1>3, <1>4, <2>1, AgesKept DEF Swept
<1>5. CASE i = k
  <2>1. /\ ~table[i].removed /\ ~dead(table[i]) /\ ~table[i].erased
    BY <1>1, <1>5 DEF Live, deadOrRemoved
  <2>2. \A u \in TCH : ThreadHolds(u, i) => thread'[u] = thread[u]
    BY <1>1, <1>2, Constants
  <2>3. /\ table'[i].gsm = table[i].gsm /\ table'[i].sip = table[i].sip
        /\ table'[i].removed = table[i].removed /\ table'[i].age = table[i].age
        /\ ~table'[i].erased
    BY <1>1, <2>1 DEF Swept
  <2>4. ASSUME Spared(i)
        PROVE  table[i].age = 0
    <3>1. Once(i)
      BY <1>1, <1>5, <2>4 DEF Kinds, Spared
    <3>2. ASSUME table[i].sip \in {"Connecting", "Active"}
          PROVE  FALSE
      <4>1. PICK u \in TCH : ThreadHolds(u, i) /\ thread[u].pc \in Answered
        BY <1>5, <2>1, <3>1, <3>2 DEF AgesOf, CallOf
      <4>2. u # t
        BY <1>2, <4>1
      <4>3. /\ u \in Channel /\ thread[u].pc \notin Loop
            /\ u \notin SDCCH
        BY <4>1, Constants DEF Answered, Loop
      <4>4. table[i].chan \in {u, None}
        BY <3>1, <4>1, <4>3 DEF LifeOf, Once5, Loop
      <4>5. t # None
        BY Constants
      <4> QED BY <1>1, <1>5, <4>2, <4>4, <4>5
    <3>3. table[i].sip # "MODCanceling"
      BY <2>1 DEF Kinds
    <3>4. table[i].age \in 0..2 /\ table[i].sip \in SIPState
      BY Tables, Types DEF Entry
    <3>5. ~(table[i].age >= 1)
      BY <2>1, <3>2, <3>3, <3>4 DEF dead, SIPState
    <3> QED BY <3>4, <3>5
  <2>5. Spared(i)' => Young(i)'
    BY <2>3, <2>4 DEF Young
  <2>6. Once(i)' => CallOf(i)'
    <3>1. SUFFICES ASSUME Once(i)'  PROVE CallOf(i)'
      OBVIOUS
    <3>2. CallOf(i)
      BY <3>1 DEF AgesOf
    <3>3. table'[i].sip \in {"Connecting", "Active"} =>
            \E u \in TCH : ThreadHolds(u, i)' /\ thread'[u].pc \in Answered
      BY <2>1, <2>2, <2>3, <3>2 DEF CallOf, ThreadHolds
    <3> QED BY <2>1, <2>3, <3>3 DEF CallOf
  <2> QED BY <2>5, <2>6 DEF AgesOf
<1> QED  BY <1>4, <1>5

\* What a SACCH gets was waiting for it, and young.
LEMMA AgesInCall ==
  ASSUME TypeOK, Indices, Places, Kinds, NEW t \in TCH, InCallSMS(t), NEW i \in ID, AgesOf(i),
         Opens, Spared(i)' => Spared(i), Once(i)' => Once(i)
  PROVE  AgesOf(i)'
<1> DEFINE c == SACCH(t)
           k == Head(queue[t])
<1>1. /\ c \in Channel /\ thread[c].pc = "idle" /\ Open(t)
      /\ queue[t] # <<>> /\ queue[t] \in Seq(Nat)
      /\ Gets(c, k, "begin")
      /\ queue'[t] = Tail(queue[t]) /\ \A u \in TCH : u # t => queue'[u] = queue[u]
      /\ UNCHANGED <<table, sip>>
  BY InCallSMSEffect
<1>2. /\ thread[c].id = 0 /\ thread'[c].pc = "begin" /\ thread'[c].id = k
      /\ \A d \in Channel : d # c => thread'[d] = thread[d]
  BY <1>1 DEF Gets
<1>3. c \notin TCH
  BY Constants
<1>4. Queued(k)
  <2>1. 1 \in DOMAIN queue[t] /\ k = queue[t][1]
    BY <1>1
  <2> QED BY <1>1, <2>1 DEF Queued
<1>5. Queued(i)' => Queued(i)
  <2>1. \A u \in TCH : \A n \in DOMAIN queue'[u] : queue'[u][n] = i =>
           \E l \in DOMAIN queue[u] : queue[u][l] = i
    <3>1. SUFFICES ASSUME NEW u \in TCH, NEW n \in DOMAIN queue'[u], queue'[u][n] = i
                   PROVE  \E l \in DOMAIN queue[u] : queue[u][l] = i
      OBVIOUS
    <3>2. CASE u # t
      BY <1>1, <3>1, <3>2
    <3>3. CASE u = t
      <4>1. n \in DOMAIN Tail(queue[t])
        BY <1>1, <3>1, <3>3
      <4>2. n + 1 \in DOMAIN queue[t] /\ Tail(queue[t])[n] = queue[t][n + 1]
        BY <1>1, <4>1
      <4> QED BY <1>1, <3>1, <3>3, <4>2
    <3> QED BY <3>2, <3>3
  <2> QED BY <2>1, QueuedKept
<1> HIDE DEF c, k
<1>6. \A d \in Channel : ThreadHolds(d, i)' =>
        (ThreadHolds(d, i) /\ thread'[d] = thread[d]) \/ Queued(i)
  BY <1>2, <1>4 DEF ThreadHolds
<1>7. Used(i)' => Used(i)
  BY <1>1, <1>5, <1>6 DEF Used
<1>8. Held(i)' => Held(i) \/ Queued(i)
  BY <1>1, <1>6 DEF Held
<1>9. \A u \in TCH : thread'[u] = thread[u]
  BY <1>2, <1>3, Constants
<1>10. Young(i) => Young(i)'
  <2>1. SetBack(i) => SetBack(i)'
    BY <1>1, <1>9 DEF SetBack, ThreadHolds
  <2>2. Queued(i) => Used(i)
    BY DEF Used
  <2> QED BY <1>1, <1>7, <1>8, <2>1, <2>2 DEF Young
<1>11. CallOf(i) => CallOf(i)'
  BY <1>1, <1>9 DEF CallOf, ThreadHolds
<1> QED  BY <1>10, <1>11 DEF AgesOf

\* A step of the thread of a channel.
LEMMA AgesThread ==
  ASSUME TypeOK, Indices, Places, Kinds, NEW c \in Channel, ThreadStep(c), Opens,
         NEW i \in ID, AgesOf(i),
         Once(i) => LifeOf(i), Spared(i)' => Spared(i), Once(i)' => Once(i)
  PROVE  AgesOf(i)'
<1>1. CASE Leaves(c)
  BY <1>1, AgesLeaves
<1>2. CASE Advances(c)
  BY <1>2, AgesAdvances
<1>3. ASSUME c \in SDCCH, RemovePage(c)
      PROVE  AgesOf(i)'
  <2>1. /\ thread[c] \in ThreadState /\ thread[c].id = 0
        /\ UNCHANGED <<table, sip, queue>>
    BY <1>3, Types DEF RemovePage
  <2>2. thread' = [thread EXCEPT ![c].pc = "answer"]
    BY <1>3 DEF RemovePage, Go
  <2>3. thread'[c].id = 0 /\ \A d \in Channel : d # c => thread'[d] = thread[d]
    BY <2>1, <2>2, Types DEF ThreadState
  <2>4. ~ThreadHolds(c, i) /\ thread'[c].id # i
    BY <2>1, <2>3, NotZero DEF ThreadHolds
  <2>5. Queued(i)' => Queued(i)
    BY <2>1, QueuedKept
  <2> QED BY <2>1, <2>3, <2>4, <2>5, AgesKept
<1>4. ASSUME c \in SDCCH, answeredPaging(c)
      PROVE  AgesOf(i)'
  <2>1. thread[c].pc \notin Answered
    BY <1>4 DEF answeredPaging, Answered
  <2> QED BY <1>4, <2>1, answeredPagingEffect, AgesQuits, AgesAnswers
<1>5. ASSUME c \in SDCCH, Move(c)
      PROVE  AgesOf(i)'
  <2> DEFINE t == thread[c].tch
  <2>1. /\ UNCHANGED <<table, sip, queue>> /\ t \in TCH
        /\ thread'[t].id = 0 /\ thread[c].pc \in Loop
        /\ \A d \in Channel : d # t => thread'[d] = thread[d]
        /\ Unmoved(c)
    BY <1>5, MoveEffect DEF Places, Unmoved, Loop
  <2>2. thread[t].pc = "idle"
    BY <2>1 DEF Places, PhonePlaces
  <2>3. thread'[t].id # i /\ ~(ThreadHolds(t, i) /\ thread[t].pc \in Answered)
    BY <2>1, <2>2, NotZero DEF Answered
  <2>4. Queued(i)' => Queued(i)
    BY <2>1, QueuedKept
  <2> QED BY <2>1, <2>3, <2>4, AgesKept
<1>6. ASSUME c \in TCH, AssignmentComplete(c)
      PROVE  AgesOf(i)'
  <2>1. thread[c].pc = "complete" /\ thread[c].pc \notin Answered
    BY <1>6 DEF AssignmentComplete, Answered
  <2> QED BY <1>6, <2>1, AssignmentCompleteEffect, AgesQuits, AgesCompletes
<1>7. ASSUME NEW t \in TCH, InCallSMS(t)
      PROVE  AgesOf(i)'
  BY <1>7, AgesInCall
<1> QED  BY <1>1, <1>2, <1>3, <1>4, <1>5, <1>6, <1>7, ThreadSteps DEF Places

\* A request arrives once more, and its live entry is found: it is young if it is that of a
\* message.
LEMMA AgesRepeated ==
  ASSUME TypeOK, Indices, Places, Messages, Kinds, Repeated, NEW i \in ID, AgesOf(i), Opens,
         Spared(i)' => Spared(i), Once(i)' => Once(i)
  PROVE  AgesOf(i)'
<1>1. Swept /\ UNCHANGED <<thread, queue, count>> /\ sip.pc = "invite"
  BY RepeatedEffect
<1>2. Queued(i)' => Queued(i)
  BY <1>1, QueuedKept
<1>3. CASE sip'.id # i
  <2>1. dead(table[i]) => dead(table'[i])
    BY <1>1, SweptDead
  <2> QED BY <1>1, <1>2, <1>3, <2>1, AgesKept DEF Swept
<1>4. CASE sip'.id = i
  <2>1. i \in Live(table) /\ table[i].request = sip.request
    BY <1>4, RepeatedEffect, Idle, NotZero
  <2>2. count[table[i].request] >= 2
    BY <1>1, <2>1 DEF Messages, Arrivals, Invited
  <2>3. ~Once(i)
    BY <2>2 DEF Once
  <2>4. ~table[i].removed /\ ~dead(table[i]) /\ ~table[i].erased
    BY <2>1 DEF Live, deadOrRemoved
  <2>5. table'[i].age = table[i].age /\ ~table'[i].erased
    BY <1>1, <2>4 DEF Swept
  <2>6. ASSUME Spared(i)
        PROVE  table[i].age = 0
    <3>1. table[i].sip \notin {"Connecting", "Active"} /\ table[i].sip # "MODCanceling"
      BY <2>3, <2>4, <2>6 DEF Kinds, Spared
    <3>2. table[i].age \in 0..2 /\ table[i].sip \in SIPState
      BY Tables, Types DEF Entry
    <3>3. ~(table[i].age >= 1)
      BY <2>4, <3>1, <3>2 DEF dead, SIPState
    <3> QED BY <3>2, <3>3
  <2>7. Spared(i)' => Young(i)'
    BY <2>5, <2>6 DEF Young
  <2> QED BY <2>3, <2>7 DEF AgesOf
<1> QED  BY <1>3, <1>4

\* A new entry is young; the others are as they were.
LEMMA AgesNew ==
  ASSUME TypeOK, Indices, Places, Kinds, Opens, NEW k, NewPaged(k) \/ NewQueued(k)
  PROVE  /\ \A i \in ID : AgesOf(i) /\ (Spared(i)' => Spared(i)) /\ (Once(i)' => Once(i)) => AgesOf(i)'
         /\ AgesOf(k)'
<1>1. /\ k \notin ID /\ k # 0 /\ UNCHANGED thread
      /\ \A i \in ID : /\ table'[i].gsm = table[i].gsm /\ table'[i].sip = table[i].sip
                       /\ table'[i].age = table[i].age /\ table'[i].removed = table[i].removed
                       /\ table'[i].erased => table[i].erased \/ dead(table[i])
      /\ table'[k].sip \in {"Null", "Proceeding"} /\ table'[k].age = 0 /\ ~table'[k].erased
  BY DEF NewPaged, NewQueued, Added
<1>2. sip'.id \in {0, k}
  BY Idle DEF NewPaged, NewQueued
<1>3. \A t \in TCH : ~ThreadHolds(t, k)'
  <2>1. \A t \in TCH : thread[t].id \in ID \cup {0}
    BY Types, Constants
  <2> QED BY <1>1, <2>1 DEF ThreadHolds
<1>4. AgesOf(k)'
  BY <1>1, <1>3 DEF AgesOf, Young, CallOf
<1>5. ASSUME NEW i \in ID, AgesOf(i), Spared(i)' => Spared(i), Once(i)' => Once(i)
      PROVE  AgesOf(i)'
  <2>1. sip'.id # i /\ i # k
    BY <1>1, <1>2, NotZero
  <2>2. \A u \in TCH : \A n \in DOMAIN queue'[u] : queue'[u][n] = i =>
           \E l \in DOMAIN queue[u] : queue[u][l] = i
    <3>1. CASE NewPaged(k)
      BY <3>1 DEF NewPaged
    <3>2. CASE NewQueued(k)
      <4>1. PICK t \in TCH : queue' = [queue EXCEPT ![t] = Append(@, k)]
        BY <3>2 DEF NewQueued
      <4>2. queue \in [TCH -> Seq(Nat)] /\ k \in Nat
        BY <3>2, Types DEF NewQueued, Added
      <4>3. queue'[t] = Append(queue[t], k) /\ queue[t] \in Seq(Nat)
        BY <4>1, <4>2
      <4>4. \A u \in TCH : u # t => queue'[u] = queue[u]
        BY <4>1, <4>2
      <4>5. \A n \in DOMAIN Append(queue[t], k) :
              Append(queue[t], k)[n] = k \/ (n \in DOMAIN queue[t] /\ Append(queue[t], k)[n] = queue[t][n])
        BY <4>2, <4>3
      <4> QED BY <2>1, <4>3, <4>4, <4>5
    <3> QED BY <3>1, <3>2
  <2>3. Queued(i)' => Queued(i)
    BY <2>2, QueuedKept
  <2>4. dead(table[i]) => dead(table'[i])
    BY <1>1 DEF dead
  <2> QED BY <1>1, <1>5, <2>1, <2>3, <2>4, AgesKept
<1> QED  BY <1>4, <1>5

\* Its age is set back, and nobody else has it.
LEMMA AgesSetPaging ==
  ASSUME TypeOK, Indices, Places, Kinds, SetPaging, NEW i \in ID, AgesOf(i), Opens,
         Once(i) => LifeOf(i), Spared(i)' => Spared(i), Once(i)' => Once(i)
  PROVE  AgesOf(i)'
<1>1. sip.pc = "page" /\ UNCHANGED <<thread, queue>>
  BY SetPagingEffect
<1>2. Queued(i)' => Queued(i)
  BY <1>1, QueuedKept
<1>3. CASE UNCHANGED table /\ sip'.pc = "thrown"
  <2>1. sip'.id = 0 \/ sip'.id = sip.id
    BY SetPagingEffect
  <2> QED BY <1>1, <1>2, <1>3, <2>1, NotZero, AgesKept
<1>4. CASE ~(UNCHANGED table /\ sip'.pc = "thrown")
  <2>1. /\ \A j \in ID : j # sip.id => table'[j] = table[j]
        /\ table'[sip.id].age = 0 /\ table'[sip.id].sip = table[sip.id].sip
        /\ table'[sip.id].removed = table[sip.id].removed
        /\ table'[sip.id].erased = table[sip.id].erased
        /\ sip'.id = sip.id
    BY <1>4, SetPagingEffect
  <2>2. CASE i # sip.id
    BY <1>1, <1>2, <2>1, <2>2, AgesKept
  <2>3. CASE i = sip.id
    <3>1. Used(i) /\ Held(i)
      BY <2>3 DEF Used, Held
    <3>2. Spared(i)' => Young(i)'
      BY <2>1, <2>3, <3>1 DEF AgesOf, Young
    <3>3. ASSUME Once(i)'
          PROVE  CallOf(i)'
      <4>1. CallOf(i) /\ ~Taken(i) /\ ~dead(table[i])
        BY <1>1, <2>3, <3>1, <3>3, NotDead DEF AgesOf, LifeOf, Once2, Spared
      <4>2. \A t \in TCH : ~ThreadHolds(t, i)
        BY <4>1, Constants DEF Taken
      <4>3. \A t \in TCH : ~ThreadHolds(t, i)'
        BY <1>1, <4>2 DEF ThreadHolds
      <4> QED BY <2>1, <2>3, <4>1, <4>2, <4>3 DEF CallOf
    <3> QED BY <3>2, <3>3 DEF AgesOf
  <2> QED BY <2>2, <2>3
<1> QED  BY <1>3, <1>4

\* The pager removes it, and nobody else has it.
LEMMA AgesDropPage ==
  ASSUME TypeOK, Indices, Places, Kinds, NEW m \in Mobile, DropPage(m), NEW i \in ID, AgesOf(i),
         Opens, Once(i) => LifeOf(i), Spared(i)' => Spared(i), Once(i)' => Once(i)
  PROVE  AgesOf(i)'
<1>1. UNCHANGED <<sip, thread, queue, phone>>
  BY DropPageEffect
<1>2. Queued(i)' => Queued(i)
  BY <1>1, QueuedKept
<1>3. CASE UNCHANGED table
  BY <1>1, <1>2, <1>3, AgesKept
<1>4. CASE ~ UNCHANGED table
  <2>1. PICK k \in ID :
          /\ \A j \in ID : j # k => table'[j] = table[j]
          /\ table[k].gsm = "Paging" /\ table'[k].gsm = "Paging"
          /\ table'[k].age = 0 /\ table'[k].removed
          /\ table'[k].erased = table[k].erased
    BY <1>4, DropPageEffect
  <2>2. CASE i # k
    BY <1>1, <1>2, <2>1, <2>2, AgesKept
  <2>3. CASE i = k
    <3>1. /\ Held(i)' => Held(i)
          /\ Used(i)' => Used(i)
      BY <1>1, <1>2 DEF Held, Used, ThreadHolds
    <3>2. SetBack(i) => SetBack(i)'
      BY <1>1, <2>1, <2>3 DEF SetBack, ThreadHolds
    <3>4. Spared(i)' => Young(i)'
      BY <2>1, <2>3, <3>1, <3>2 DEF AgesOf, Young
    <3>3. ASSUME Once(i)'
          PROVE  CallOf(i)'
      <4>1. ~Taken(i)
        BY <2>1, <2>3, <3>3 DEF LifeOf, Once2
      <4>2. \A t \in TCH : ~ThreadHolds(t, i)
        BY <4>1, Constants DEF Taken
      <4>3. \A t \in TCH : ~ThreadHolds(t, i)'
        BY <1>1, <4>2 DEF ThreadHolds
      <4> QED BY <2>1, <2>3, <4>3 DEF CallOf
    <3> QED BY <3>3, <3>4 DEF AgesOf
  <2> QED BY <2>2, <2>3
<1> QED  BY <1>3, <1>4

\* The entry that is sent 100 Trying is of a request that came again.
LEMMA AgesSendTrying ==
  ASSUME TypeOK, Indices, Places, Messages, Kinds, SendTrying, NEW i \in ID, AgesOf(i), Opens,
         Spared(i)' => Spared(i), Once(i)' => Once(i)
  PROVE  AgesOf(i)'
<1>1. /\ sip.pc = "trying" /\ UNCHANGED <<thread, queue>>
      /\ \A j \in ID : j # sip.id => table'[j] = table[j]
      /\ table'[sip.id].age = table[sip.id].age
      /\ table'[sip.id].erased = table[sip.id].erased
      /\ sip'.id \in {0, sip.id}
  BY SendTryingEffect
<1>2. Queued(i)' => Queued(i)
  BY <1>1, QueuedKept
<1>3. CASE i # sip.id
  BY <1>1, <1>2, <1>3, NotZero, AgesKept
<1>4. CASE i = sip.id
  <2>1. ~Once(i)'
    BY <1>1, <1>4 DEF Messages, Arrivals
  <2>2. Used(i) /\ Held(i)
    BY <1>4 DEF Used, Held
  <2>3. Spared(i)' => Young(i)'
    BY <1>1, <1>4, <2>2 DEF AgesOf, Young
  <2> QED BY <2>1, <2>3 DEF AgesOf
<1> QED  BY <1>3, <1>4

\* If threads are prompt, every step keeps what they use young.
LEMMA AgesNext ==
  ASSUME Prompt, TypeOK, Indices, Places, Messages, Kinds, Life, Ages, [Next]_vars
  PROVE  Ages'
<1>1. Opens
  BY OpensNext
<1>2. ID \subseteq ID' /\ \A i \in ID : table'[i].request = table[i].request
  BY RequestsKept
<1>3. ASSUME NEW i \in ID
      PROVE  /\ AgesOf(i) /\ (Once(i) => LifeOf(i))
             /\ Once(i)' => Once(i)
             /\ Spared(i)' => Spared(i)
  <2>1. Once(i)' => Once(i)
    BY OnceKept
  <2> QED BY <1>2, <2>1 DEF Ages, Life, Spared
<1>4. ASSUME NEW i \in ID, UNCHANGED thread, \A t \in TCH : queue'[t] = queue[t],
             UNCHANGED table \/ Swept, sip'.id \in {0, sip.id}
      PROVE  AgesOf(i)'
  <2>1. Queued(i)' => Queued(i)
    BY <1>1, <1>4, QueuedKept
  <2>2. sip'.id = i => sip.id = i
    BY <1>4, NotZero
  <2>3. dead(table[i]) => dead(table'[i])
    BY <1>4, SweptDead
  <2> QED BY <1>3, <1>4, <2>1, <2>2, <2>3, AgesKept DEF Swept
<1>5. ASSUME NEW i \in ID, NEW j \in ID, Tick(j)
      PROVE  AgesOf(i)'
  <2>1. UNCHANGED <<sip, thread, queue, phone>>
    BY <1>5 DEF Tick
  <2>2. Queued(i)' => Queued(i)
    BY <1>1, <2>1, QueuedKept
  <2>3. /\ table'[i].gsm = table[i].gsm /\ table'[i].sip = table[i].sip
        /\ table'[i].removed = table[i].removed /\ table'[i].erased = table[i].erased
        /\ i # j => table'[i].age = table[i].age
        /\ i = j => table'[i].age = table[i].age + 1
    BY <1>5, TickEffect
  <2>4. Used(i)' => Used(i)
    BY <2>1, <2>2 DEF Used, ThreadHolds
  <2>5. Used(i)' => i # j
    BY <1>5, <2>4 DEF Tick, Used
  <2>6. dead(table[i]) => dead(table'[i])
    <3>1. table[i].age \in 0..2 /\ table'[i].age \in {table[i].age, table[i].age + 1}
      BY <2>3, Tables, Types DEF Entry
    <3>2. /\ table[i].age >= 1 => table'[i].age >= 1
          /\ table[i].age = 2 => i # j
      BY <1>5, <3>1 DEF Tick
    <3> QED BY <2>3, <3>2 DEF dead
  <2> QED BY <1>3, <2>1, <2>2, <2>3, <2>5, <2>6, AgesKept
<1>6. ASSUME NEW i \in ID, NEW m \in Mobile, NEW c \in SDCCH, Answer(m, c)
      PROVE  AgesOf(i)'
  <2>1. /\ UNCHANGED <<table, sip, queue>>
        /\ thread'[c].id = 0 /\ thread[c].pc = "idle"
        /\ \A d \in Channel : d # c => thread'[d] = thread[d]
    BY <1>6, AnswerEffect
  <2>2. Queued(i)' => Queued(i)
    BY <1>1, <2>1, QueuedKept
  <2>3. thread'[c].id # i /\ thread[c].pc \notin Answered
    BY <2>1, NotZero DEF Answered
  <2> QED BY <1>3, <2>1, <2>2, <2>3, AgesKept
<1>7. ASSUME NEW i \in ID, SIPThread, ~NewTransaction
      PROVE  AgesOf(i)'
  <2>1. CASE Repeated
    BY <1>1, <1>3, <2>1, AgesRepeated
  <2>2. CASE SendTrying
    BY <1>1, <1>3, <2>2, AgesSendTrying
  <2>3. CASE Refuse
    BY <1>4, <2>3, RefuseEffect, Idle
  <2>4. CASE SetPaging
    BY <1>1, <1>3, <2>4, AgesSetPaging
  <2>5. CASE ListPage
    BY <1>4, <2>5, ListPageEffect, Idle
  <2> QED BY <1>7, <2>1, <2>2, <2>3, <2>4, <2>5 DEF SIPThread
<1>8. ASSUME NEW i \in ID, NEW r \in Request, Invite(r)
      PROVE  AgesOf(i)'
  BY <1>4, <1>8, InviteEffect
<1>9. ASSUME NEW i \in ID, OtherScan
      PROVE  AgesOf(i)'
  BY <1>4, <1>9, SweptEffect DEF OtherScan, Scan
<1>10. ASSUME NEW i \in ID, NEW m \in Mobile, DropPage(m)
       PROVE  AgesOf(i)'
  BY <1>1, <1>3, <1>10, AgesDropPage
<1>11. ASSUME NEW i \in ID, NEW c \in Channel, ThreadStep(c)
       PROVE  AgesOf(i)'
  BY <1>1, <1>3, <1>11, AgesThread
<1>12. ASSUME NEW i \in ID, UNCHANGED <<table, thread, queue, sip>>
       PROVE  AgesOf(i)'
  BY <1>4, <1>12
<1>13. ASSUME NEW i \in ID, ~NewTransaction
       PROVE  AgesOf(i)'
  BY <1>5, <1>6, <1>7, <1>8, <1>9, <1>10, <1>11, <1>12, <1>13
     DEF Next, vars, SendPage, LeaveChannel
<1>14. CASE NewTransaction
  <2>1. PICK k : NewPaged(k) \/ NewQueued(k)
    BY <1>14, NewTransactionEffect
  <2>2. ID' = ID \cup {k}
    BY <2>1 DEF NewPaged, NewQueued, Added
  <2>3. AgesOf(k)' /\ \A i \in ID : AgesOf(i)'
    BY <1>1, <1>3, <2>1, AgesNew
  <2> QED BY <2>2, <2>3 DEF Ages
<1>15. CASE ~NewTransaction
  <2>1. ID' = ID
    BY <1>15, EntriesKept
  <2> QED BY <1>13, <1>15, <2>1 DEF Ages
<1> QED  BY <1>14, <1>15

----------------------------------------------------------------------------
(* Theorems *)

\* The whole of it, but for the ages.
MTInv == TypeOK /\ Indices /\ Places /\ Messages /\ Queues /\ Kinds /\ Life

\* It holds at first ...
LEMMA MTInit == Init => MTInv
<1>1. SUFFICES ASSUME Init  PROVE MTInv
  OBVIOUS
<1>2. /\ table = <<>> /\ sipMap = {} /\ sip = SIPIdle /\ pages = [m \in Mobile |-> 0]
      /\ thread = [c \in Channel |-> ThreadIdle] /\ queue = [t \in TCH |-> <<>>]
      /\ phone = [m \in Mobile |-> None] /\ heard = {} /\ count = [r \in Request |-> 0]
  BY <1>1 DEF Init
<1>3. table \in Seq(Entry) /\ ID = {}
  BY <1>2 DEF ID
<1>4. thread \in [Channel -> ThreadState] /\ queue \in [TCH -> Seq(Nat)]
      /\ phone \in [Mobile -> SDCCH \cup TCH \cup {None}]
  BY <1>2, Idle
<1>5. \A c \in Channel : thread[c].pc = "idle" /\ thread[c].id = 0 /\ thread[c].tch = None
  BY <1>2, Idle
<1>6. TypeOK
  BY <1>2, <1>3, <1>4, <1>5, Idle, Types
<1>7. Indices
  BY <1>2, Idle DEF Indices
<1>8. Places
  <2>1. ThreadPlaces
    BY <1>5, Constants DEF ThreadPlaces, SDCCHState, TCHState, SACCHState
  <2>2. TCHPlaces
    BY <1>5 DEF TCHPlaces
  <2>3. \A c \in Channel : ~Unmoved(c)
    BY <1>5 DEF Unmoved
  <2>4. PhonePlaces
    BY <1>2, <2>3, MTAssumption DEF PhonePlaces
  <2> QED BY <2>1, <2>2, <2>4 DEF Places
<1>9. Messages
  BY <1>2, <1>3, Idle DEF Messages, Arrivals, FIFOs
<1>10. Queues
  BY <1>2, Idle DEF Queues
<1>11. Kinds /\ Life
  BY <1>3, <1>5 DEF Kinds, Life
<1> QED  BY <1>6, <1>7, <1>8, <1>9, <1>10, <1>11 DEF MTInv

\* ... and every step keeps it.
LEMMA MTStep == MTInv /\ [Next]_vars => MTInv'
  BY TypesNext, PlacesNext, MessagesNext, QueuesNext, KindsNext, LifeNext DEF MTInv, Places

\* It always holds.
LEMMA MTInvariant == Spec => []MTInv
  BY MTInit, MTStep, PTL DEF Spec

\* The types, for any requests, phones and channels: a thread that is past the search for its
\* entry has one.
THEOREM TypeCorrect == Spec => []TypeOK
<1>1. MTInv => TypeOK
  BY DEF MTInv
<1> QED  BY <1>1, MTInvariant, PTL

\* The SIP messages of a live transaction have a FIFO, however the table is searched, if its
\* request has come twice at most.
THEOREM FIFOKept == Spec => []HasFIFO
<1>1. MTInv => HasFIFO
  BY DEF MTInv, Messages, FIFOs, HasFIFO, Live, deadOrRemoved, ID
<1> QED  BY <1>1, MTInvariant, PTL

\* removePaging() and answeredPaging(), in whatever order, give the transaction of a request
\* that came once to the pager or to a channel, not to both.
THEOREM GivenToOne == Spec => []AnsweredNotRejected
<1>1. MTInv => AnsweredNotRejected
  BY DEF MTInv, Life, LifeOf, Once2, Taken, AnsweredNotRejected
<1> QED  BY <1>1, MTInvariant, PTL

\* A transaction that is paged for has no channel, if its request came once.
THEOREM PagedOnceHasNone == Spec => []PagedOnceHasNoChannel
<1>1. MTInv => PagedOnceHasNoChannel
  BY DEF MTInv, Life, LifeOf, Once3, Live, PagedOnceHasNoChannel, ID
<1> QED  BY <1>1, MTInvariant, PTL

\* One thread at a time runs the transaction of a request that came once, but in a handover
\* from the loop of assignTCHF() to the very TCH that it assigns, on any number of channels and
\* with any number of requests.
THEOREM RunByOne == Spec => []OneController
<1>1. MTInv => OneController
  BY DEF MTInv, Life, LifeOf, Once6, OneController
<1> QED  BY <1>1, MTInvariant, PTL

\* If no entry ages while a thread sets up a call or delivers a message, no thread works on an
\* entry that has been deleted, for any requests, phones and channels; but for the call that
\* assignTCHF() has set back.
THEOREM NoneDangles == ASSUME Prompt PROVE Spec => []NoDanglingUse
<1>1. Init => Ages
  BY DEF Init, Ages, ID
<1>2. MTInv /\ Ages /\ [Next]_vars => Ages'
  BY AgesNext DEF MTInv
<1>3. Ages => NoDanglingUse
  BY DEF Ages, AgesOf, Spared, Young, NoDanglingUse
<1> QED  BY <1>1, <1>2, <1>3, MTInvariant, PTL DEF Spec
=============================================================================
