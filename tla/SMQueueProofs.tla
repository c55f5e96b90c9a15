---------------------------- MODULE SMQueueProofs ----------------------------
(***************************************************************************)
(* Proofs about SMQueue, for any messages, rows, times and bounds: its     *)
(* types, that an accepted message is kept, and that a phone pays once.    *)
(***************************************************************************)
EXTENDS SMQueue, SequenceTheorems, FiniteSetTheorems, TLAPS

-----------------------------------------------------------------------------
(* The queue as a set of entries, and what the operations make of it       *)

Entries(q) == {q[i] : i \in DOMAIN q}
Rows(q) == {q[i].row : i \in DOMAIN q}

\* No row names two places.
OnePlaceARow(q) == \A i, j \in DOMAIN q : q[i].row = q[j].row => i = j

\* What is left when the entry of row r is taken out.
Others(q, r) == {x \in Entries(q) : x.row # r}

\* An entry goes in before position k: nothing else changes.
LEMMA InsertAtLemma ==
  ASSUME NEW q \in Seq(Entry), NEW e \in Entry, NEW k \in 1..(Len(q) + 1)
  PROVE  /\ InsertAt(q, k, e) \in Seq(Entry)
         /\ Len(InsertAt(q, k, e)) = Len(q) + 1
         /\ \A j \in 1..(Len(q) + 1) :
              InsertAt(q, k, e)[j] = IF j < k THEN q[j] ELSE IF j = k THEN e ELSE q[j - 1]
<1> DEFINE a == SubSeq(q, 1, k - 1)
           b == SubSeq(q, k, Len(q))
<1>0. Len(q) \in Nat /\ q \in [1..Len(q) -> Entry]
  BY LenProperties
<1>1. /\ a \in Seq(Entry)
      /\ Len(a) = k - 1
      /\ \A i \in 1..(k - 1) : a[i] = q[i]
  <2>1. \A i \in 1..(k - 1) : q[i] \in Entry
    BY <1>0
  <2> QED BY <1>0, <2>1, SubSeqProperties, Z3
<1>2. /\ b \in Seq(Entry)
      /\ Len(b) = Len(q) - k + 1
      /\ \A i \in 1..(Len(q) - k + 1) : b[i] = q[k + i - 1]
  <2>1. \A i \in k..Len(q) : q[i] \in Entry
    BY <1>0
  <2> QED BY <1>0, <2>1, SubSeqProperties, Z3
<1>3. <<e>> \in Seq(Entry) /\ Len(<<e>>) = 1 /\ <<e>>[1] = e
  OBVIOUS
<1> DEFINE c == a \o <<e>>
<1>4. /\ c \in Seq(Entry)
      /\ Len(c) = k
      /\ \A i \in 1..k : c[i] = IF i < k THEN q[i] ELSE e
  <2>1. /\ c \in Seq(Entry)
        /\ Len(c) = Len(a) + 1
        /\ \A i \in 1..(Len(a) + 1) : c[i] = IF i <= Len(a) THEN a[i] ELSE <<e>>[i - Len(a)]
    <3> HIDE DEF a
    <3> QED BY <1>1, <1>3, ConcatProperties
  <2> HIDE DEF a, c
  <2> QED BY <1>0, <1>1, <1>3, <2>1
<1>5. InsertAt(q, k, e) = c \o b
  BY DEF InsertAt
<1> HIDE DEF a, b, c
<1>6. /\ c \o b \in Seq(Entry)
      /\ Len(c \o b) = Len(q) + 1
      /\ \A i \in 1..(Len(c) + Len(b)) : (c \o b)[i] = IF i <= Len(c) THEN c[i] ELSE b[i - Len(c)]
  BY <1>0, <1>2, <1>4, ConcatProperties
<1> QED BY <1>0, <1>2, <1>4, <1>5, <1>6

\* An entry is taken out of position i: nothing else changes.
LEMMA RemoveAtLemma ==
  ASSUME NEW q \in Seq(Entry), NEW i \in DOMAIN q
  PROVE  /\ RemoveAt(q, i) \in Seq(Entry)
         /\ Len(RemoveAt(q, i)) = Len(q) - 1
         /\ \A j \in 1..(Len(q) - 1) : RemoveAt(q, i)[j] = IF j < i THEN q[j] ELSE q[j + 1]
<1> DEFINE a == SubSeq(q, 1, i - 1)
           b == SubSeq(q, i + 1, Len(q))
<1>0. Len(q) \in Nat /\ q \in [1..Len(q) -> Entry] /\ i \in 1..Len(q)
  BY LenProperties
<1>1. /\ a \in Seq(Entry)
      /\ Len(a) = i - 1
      /\ \A j \in 1..(i - 1) : a[j] = q[j]
  <2>1. \A j \in 1..(i - 1) : q[j] \in Entry
    BY <1>0
  <2> QED BY <1>0, <2>1, SubSeqProperties, Z3
<1>2. /\ b \in Seq(Entry)
      /\ Len(b) = Len(q) - i
      /\ \A j \in 1..(Len(q) - i) : b[j] = q[i + j]
  <2>1. \A j \in (i + 1)..Len(q) : q[j] \in Entry
    BY <1>0
  <2> QED BY <1>0, <2>1, SubSeqProperties, Z3
<1>3. RemoveAt(q, i) = a \o b
  BY DEF RemoveAt
<1> HIDE DEF a, b
<1>4. /\ a \o b \in Seq(Entry)
      /\ Len(a \o b) = Len(q) - 1
      /\ \A j \in 1..(Len(a) + Len(b)) : (a \o b)[j] = IF j <= Len(a) THEN a[j] ELSE b[j - Len(a)]
  <2>1. /\ a \o b \in Seq(Entry)
        /\ Len(a \o b) = Len(a) + Len(b)
        /\ \A j \in 1..(Len(a) + Len(b)) : (a \o b)[j] = IF j <= Len(a) THEN a[j] ELSE b[j - Len(a)]
    BY <1>1, <1>2, ConcatProperties
  <2> QED BY <1>0, <1>1, <1>2, <2>1
<1>5. ASSUME NEW j \in 1..(Len(q) - 1)
      PROVE  (a \o b)[j] = IF j < i THEN q[j] ELSE q[j + 1]
  <2>0. j \in 1..(Len(a) + Len(b))
    BY <1>0, <1>1, <1>2
  <2>1. CASE j < i
    <3>1. (a \o b)[j] = a[j]
      BY <1>0, <1>1, <1>4, <2>0, <2>1
    <3> QED BY <1>0, <1>1, <2>1, <3>1
  <2>2. CASE j >= i
    <3>0. ~(j <= Len(a))
      BY <1>0, <1>1, <2>2
    <3>1. (a \o b)[j] = b[j - (i - 1)]
      BY <1>1, <1>4, <2>0, <3>0, Zenon
    <3>2. j - (i - 1) \in 1..(Len(q) - i) /\ i + (j - (i - 1)) = j + 1
      BY <1>0, <2>2
    <3>3. b[j - (i - 1)] = q[j + 1]
      BY <1>2, <3>2, Zenon
    <3>4. (IF j < i THEN q[j] ELSE q[j + 1]) = q[j + 1]
      BY <1>0, <2>2
    <3> QED BY <3>1, <3>3, <3>4
  <2>3. j < i \/ j >= i
    BY <1>0
  <2> QED BY <2>1, <2>2, <2>3, Zenon
<1> QED BY <1>3, <1>4, <1>5

\* The entry that is put in is one more in the queue, and has a place of its own if its row is new.
LEMMA InsertedLemma ==
  ASSUME NEW q \in Seq(Entry), NEW e \in Entry, NEW k \in 1..(Len(q) + 1)
  PROVE  /\ Entries(InsertAt(q, k, e)) = Entries(q) \cup {e}
         /\ OnePlaceARow(q) /\ e.row \notin Rows(q) => OnePlaceARow(InsertAt(q, k, e))
<1> DEFINE s == InsertAt(q, k, e)
<1>0. /\ Len(q) \in Nat /\ q \in [1..Len(q) -> Entry] /\ DOMAIN q = 1..Len(q)
      /\ Len(s) = Len(q) + 1 /\ DOMAIN s = 1..(Len(q) + 1)
      /\ \A j \in 1..(Len(q) + 1) : s[j] = IF j < k THEN q[j] ELSE IF j = k THEN e ELSE q[j - 1]
  BY LenProperties, InsertAtLemma
<1> HIDE DEF s
<1>1. Entries(s) \subseteq Entries(q) \cup {e}
  <2> SUFFICES ASSUME NEW j \in 1..(Len(q) + 1) PROVE s[j] \in Entries(q) \cup {e}
    BY <1>0 DEF Entries
  <2>1. CASE j < k
    BY <1>0, <2>1 DEF Entries
  <2>2. CASE j = k
    BY <1>0, <2>2
  <2>3. CASE j > k
    <3>1. s[j] = q[j - 1] /\ j - 1 \in DOMAIN q
      BY <1>0, <2>3
    <3> QED BY <3>1 DEF Entries
  <2> QED BY <2>1, <2>2, <2>3
<1>2. e \in Entries(s)
  <2>1. s[k] = e /\ k \in DOMAIN s
    BY <1>0
  <2> QED BY <2>1 DEF Entries
<1>3. Entries(q) \subseteq Entries(s)
  <2> SUFFICES ASSUME NEW j \in 1..Len(q) PROVE q[j] \in Entries(s)
    BY <1>0 DEF Entries
  <2>1. CASE j < k
    <3>1. s[j] = q[j] /\ j \in DOMAIN s
      BY <1>0, <2>1
    <3> QED BY <3>1 DEF Entries
  <2>2. CASE j >= k
    <3>0. j + 1 \in 1..(Len(q) + 1) /\ ~(j + 1 < k) /\ j + 1 # k /\ (j + 1) - 1 = j
      BY <1>0, <2>2
    <3>1. s[j + 1] = q[j] /\ j + 1 \in DOMAIN s
      BY <1>0, <3>0
    <3> QED BY <3>1 DEF Entries
  <2> QED BY <1>0, <2>1, <2>2
<1>4. ASSUME OnePlaceARow(q), e.row \notin Rows(q), NEW i \in DOMAIN s, NEW j \in DOMAIN s,
             s[i].row = s[j].row
      PROVE  i = j
  <2> DEFINE at(n) == IF n < k THEN n ELSE n - 1
  <2>1. \A n \in DOMAIN s : n # k => at(n) \in DOMAIN q /\ s[n] = q[at(n)]
    BY <1>0
  <2>2. \A n \in DOMAIN q : q[n].row # e.row
    BY <1>4 DEF Rows
  <2>3. s[k] = e
    BY <1>0
  <2>4. CASE i # k /\ j # k
    <3>1. at(i) = at(j)
      BY <1>4, <2>1, <2>4 DEF OnePlaceARow
    <3> QED BY <1>0, <2>4, <3>1
  <2>5. CASE i = k \/ j = k
    <3>1. i = k => j = k
      BY <1>4, <2>1, <2>2, <2>3
    <3>2. j = k => i = k
      BY <1>4, <2>1, <2>2, <2>3
    <3> QED BY <2>5, <3>1, <3>2
  <2> QED BY <2>4, <2>5
<1>5. OnePlaceARow(q) /\ e.row \notin Rows(q) => OnePlaceARow(s)
  BY <1>4 DEF OnePlaceARow
<1> QED BY <1>1, <1>2, <1>3, <1>5 DEF s

\* The rows of the queue are those of its entries.
LEMMA RowsLemma ==
  ASSUME NEW q, NEW r
  PROVE  r \in Rows(q) <=> \E x \in Entries(q) : x.row = r
BY DEF Rows, Entries

\* SMq::set_state(): the entry is in the queue, and nothing else has changed.
LEMMA SetStateLemma ==
  ASSUME NEW q \in Seq(Entry), NEW e \in Entry
  PROVE  /\ set_state(q, e) \in Seq(Entry)
         /\ Entries(set_state(q, e)) = Entries(q) \cup {e}
         /\ OnePlaceARow(q) /\ e.row \notin Rows(q) => OnePlaceARow(set_state(q, e))
<1> DEFINE sooner == {i \in DOMAIN q : \A k \in 1..i : q[k].left < e.left}
<1>1. Len(q) \in Nat /\ DOMAIN q = 1..Len(q)
  BY LenProperties
<1>2. /\ IsFiniteSet(1..Len(q))
      /\ Cardinality(1..Len(q)) = Len(q)
  BY <1>1, FS_Interval
<1>3. sooner \in SUBSET (1..Len(q))
  BY <1>1
<1> HIDE DEF sooner
<1>4. IsFiniteSet(sooner) /\ Cardinality(sooner) <= Len(q)
  BY <1>2, <1>3, FS_Subset
<1>5. Cardinality(sooner) \in Nat
  BY <1>4, FS_CardinalityType
<1>6. Cardinality(sooner) + 1 \in 1..(Len(q) + 1)
  BY <1>1, <1>4, <1>5
<1>7. set_state(q, e) = InsertAt(q, Cardinality(sooner) + 1, e)
  BY DEF set_state, sooner
<1> QED BY <1>6, <1>7, InsertAtLemma, InsertedLemma

\* A new entry at the front.
LEMMA FrontLemma ==
  ASSUME NEW q \in Seq(Entry), NEW e \in Entry
  PROVE  /\ <<e>> \o q \in Seq(Entry)
         /\ Entries(<<e>> \o q) = Entries(q) \cup {e}
         /\ OnePlaceARow(q) /\ e.row \notin Rows(q) => OnePlaceARow(<<e>> \o q)
<1>1. Len(q) \in Nat
  BY LenProperties
<1>2. SubSeq(q, 1, 1 - 1) = <<>>
  BY SubSeqEmpty
<1>3. SubSeq(q, 1, Len(q)) = q
  BY SubSeqFull
<1>4. <<>> \o <<e>> = <<e>>
  <2>1. <<e>> \in Seq(Entry)
    OBVIOUS
  <2> QED BY <2>1, ConcatEmptySeq
<1>5. InsertAt(q, 1, e) = <<e>> \o q
  BY <1>2, <1>3, <1>4 DEF InsertAt
<1>6. 1 \in 1..(Len(q) + 1)
  BY <1>1
<1> DEFINE s == InsertAt(q, 1, e)
<1>7. /\ s \in Seq(Entry)
      /\ Entries(s) = Entries(q) \cup {e}
      /\ OnePlaceARow(q) /\ e.row \notin Rows(q) => OnePlaceARow(s)
  BY <1>6, InsertAtLemma, InsertedLemma
<1>8. s = <<e>> \o q
  BY <1>5
<1> HIDE DEF s
<1> QED BY <1>7, <1>8

\* An entry taken out of a queue in which no row names two places.
LEMMA RemovedLemma ==
  ASSUME NEW q \in Seq(Entry), NEW i \in DOMAIN q, OnePlaceARow(q)
  PROVE  /\ RemoveAt(q, i) \in Seq(Entry)
         /\ Entries(RemoveAt(q, i)) = Others(q, q[i].row)
         /\ OnePlaceARow(RemoveAt(q, i))
<1> DEFINE s == RemoveAt(q, i)
           at(n) == IF n < i THEN n ELSE n + 1
<1>0. /\ Len(q) \in Nat /\ q \in [1..Len(q) -> Entry] /\ DOMAIN q = 1..Len(q)
      /\ s \in Seq(Entry) /\ Len(s) = Len(q) - 1 /\ DOMAIN s = 1..(Len(q) - 1)
      /\ \A j \in 1..(Len(q) - 1) : s[j] = IF j < i THEN q[j] ELSE q[j + 1]
  BY LenProperties, RemoveAtLemma
<1> HIDE DEF s
<1>1. \A n \in DOMAIN s : at(n) \in DOMAIN q /\ at(n) # i /\ s[n] = q[at(n)]
  BY <1>0
<1>2. Entries(s) \subseteq Others(q, q[i].row)
  <2> SUFFICES ASSUME NEW n \in DOMAIN s PROVE s[n] \in Others(q, q[i].row)
    BY DEF Entries
  <2>1. at(n) \in DOMAIN q /\ at(n) # i /\ s[n] = q[at(n)]
    BY <1>1
  <2> HIDE DEF at
  <2>2. q[at(n)].row # q[i].row
    BY <2>1 DEF OnePlaceARow
  <2> QED BY <2>1, <2>2 DEF Others, Entries
<1>3. Others(q, q[i].row) \subseteq Entries(s)
  <2> SUFFICES ASSUME NEW j \in DOMAIN q, q[j].row # q[i].row PROVE q[j] \in Entries(s)
    BY DEF Others, Entries
  <2>0. j # i
    OBVIOUS
  <2>1. CASE j < i
    <3>1. s[j] = q[j] /\ j \in DOMAIN s
      BY <1>0, <2>1
    <3> QED BY <3>1 DEF Entries
  <2>2. CASE j > i
    <3>0. j - 1 \in 1..(Len(q) - 1) /\ ~(j - 1 < i) /\ (j - 1) + 1 = j
      BY <1>0, <2>2
    <3>1. s[j - 1] = q[j] /\ j - 1 \in DOMAIN s
      BY <1>0, <3>0
    <3> QED BY <3>1 DEF Entries
  <2> QED BY <1>0, <2>0, <2>1, <2>2
<1>4. ASSUME NEW j \in DOMAIN s, NEW k \in DOMAIN s, s[j].row = s[k].row
      PROVE  j = k
  <2>1. at(j) = at(k)
    BY <1>1, <1>4 DEF OnePlaceARow
  <2> QED BY <1>0, <2>1
<1>5. OnePlaceARow(s)
  BY <1>4 DEF OnePlaceARow
<1> QED BY <1>0, <1>2, <1>3, <1>5 DEF s

\* The head taken out.
LEMMA TailLemma ==
  ASSUME NEW q \in Seq(Entry), q # <<>>, OnePlaceARow(q)
  PROVE  /\ Head(q) \in Entry
         /\ Head(q) \in Entries(q)
         /\ Tail(q) \in Seq(Entry)
         /\ Entries(Tail(q)) = Others(q, Head(q).row)
         /\ OnePlaceARow(Tail(q))
<1>1. Len(q) \in Nat \ {0} /\ DOMAIN q = 1..Len(q) /\ Head(q) = q[1]
  BY LenProperties, EmptySeq
<1>2. 1 \in DOMAIN q /\ q[1] \in Entry
  BY <1>1, ElementOfSeq
<1>3. RemoveAt(q, 1) = Tail(q)
  <2>1. SubSeq(q, 1, 1 - 1) = <<>>
    BY SubSeqEmpty
  <2>2. SubSeq(q, 1 + 1, Len(q)) = Tail(q)
    BY TailIsSubSeq
  <2>3. <<>> \o Tail(q) = Tail(q)
    BY HeadTailProperties, ConcatEmptySeq
  <2> QED BY <2>1, <2>2, <2>3 DEF RemoveAt
<1>4. /\ RemoveAt(q, 1) \in Seq(Entry)
      /\ Entries(RemoveAt(q, 1)) = Others(q, q[1].row)
      /\ OnePlaceARow(RemoveAt(q, 1))
  BY <1>2, RemovedLemma
<1>5. q[1] \in Entries(q)
  BY <1>2 DEF Entries
<1> QED BY <1>1, <1>2, <1>3, <1>4, <1>5

\* An entry changed where it is, the row excepted.
LEMMA ReplacedLemma ==
  ASSUME NEW q \in Seq(Entry), NEW i \in DOMAIN q, NEW e \in Entry, OnePlaceARow(q),
         e.row = q[i].row
  PROVE  /\ ReplaceAt(q, i, e) \in Seq(Entry)
         /\ Entries(ReplaceAt(q, i, e)) = Others(q, q[i].row) \cup {e}
         /\ OnePlaceARow(ReplaceAt(q, i, e))
         /\ Rows(ReplaceAt(q, i, e)) = Rows(q)
<1> DEFINE s == ReplaceAt(q, i, e)
<1>0. /\ s \in Seq(Entry) /\ DOMAIN s = DOMAIN q
      /\ \A j \in DOMAIN q : s[j] = IF j = i THEN e ELSE q[j]
  BY LenProperties, ExceptSeq DEF ReplaceAt
<1> HIDE DEF s
<1>1. Entries(s) = Others(q, q[i].row) \cup {e}
  BY <1>0 DEF Entries, Others, OnePlaceARow
<1>2. OnePlaceARow(s)
  BY <1>0 DEF OnePlaceARow
<1>3. Rows(s) = Rows(q)
  BY <1>0 DEF Rows
<1> QED BY <1>0, <1>1, <1>2, <1>3 DEF s

-----------------------------------------------------------------------------
(* The inductive invariant                                                 *)

\* The types, and the bounds and the stopped process that the types need.
Types ==
  /\ TypeOK
  /\ IsFiniteSet(backup)
  /\ \A m \in Message : copies[m] <= events /\ excused[m] <= events
  /\ pc = "serve" => queue # <<>>
  /\ pc = "down" => queue = <<>>

SameName(x, y) == x.kind = y.kind /\ x.m = y.m

\* A row names one thing: in the queue, in the backup, and in what is on its way.
RowNames ==
  /\ OnePlaceARow(queue)
  /\ \A b, c \in backup : b.row = c.row => b = c
  /\ \A x \in Entries(queue), b \in backup : x.row = b.row => SameName(x, b)
  /\ \A d \in wire, x \in Entries(queue) : d.tag = <<"own", x.row>> => SameName(d, x)
  /\ \A d \in wire, b \in backup : d.tag = <<"own", b.row>> => SameName(d, b)
  /\ \A d \in wire, m \in Message : d.tag = <<"sms", m>> => d.kind = "sms" /\ d.m = m

\* Only a notice or a REGISTER is given up without a notice.
NoNoticeOfError ==
  \A x \in Entries(queue) : x.state = "NO_STATE" => x.kind \in {"bounce", "REGISTER"}

\* A row of m, or about it, that is not about to go.
HasRow(m) ==
  \E b \in backup :
    /\ b.m = m /\ b.kind # "REGISTER"
    /\ \A x \in Entries(queue) : x.row = b.row => x.state # "DELETE_ME_STATE"
\* An entry of m, or about it, that could not be saved and is not about to go.
HasEntry(m) ==
  \E x \in Entries(queue) : x.m = m /\ Unsavable(x) /\ x.state # "DELETE_ME_STATE"
Kept == \A m \in accepted \ over : HasRow(m) \/ HasEntry(m)

\* What may still be charged for m: the names of its copies, in the backup or in the queue.
Copy(x, m) == x.kind = "sms" /\ x.m = m
Owed(m) ==
  {r \in Row : \/ \E b \in backup : b.row = r /\ Copy(b, m)
               \/ \E x \in Entries(queue) : x.row = r /\ Copy(x, m)}
Paid == \A m \in Message : charged[m] + Cardinality(Owed(m)) <= copies[m] + excused[m]

SMQueueInv == Types /\ RowNames /\ NoNoticeOfError /\ Kept /\ Paid

\* The entries of a queue of entries.
LEMMA EntriesLemma ==
  ASSUME NEW q \in Seq(Entry)
  PROVE  Entries(q) \subseteq Entry
BY LenProperties, ElementOfSeq DEF Entries

\* There are finitely many names.
LEMMA OwedLemma ==
  ASSUME NEW m
  PROVE  IsFiniteSet(Owed(m)) /\ Cardinality(Owed(m)) \in Nat
<1>1. Owed(m) \subseteq Row
  BY DEF Owed
<1> QED BY <1>1, SMQueueAssumption, FS_Subset, FS_CardinalityType

-----------------------------------------------------------------------------
(* Three kinds of step                                                     *)

\* x is what has become of y: it has its name, and is not about to go unless y was.
Continues(x, y) ==
  /\ x.row = y.row /\ SameName(x, y)
  /\ x.state = "DELETE_ME_STATE" => y.state = "DELETE_ME_STATE"
  /\ x.state = "NO_STATE" => x.kind \in {"bounce", "REGISTER"}
Continued(E, F) ==
  /\ \A x \in E : \E y \in F : Continues(x, y)
  /\ \A y \in F : \E x \in E : Continues(x, y)

\* Entries change, and one of them is sent.
LEMMA ChangedLemma ==
  ASSUME SMQueueInv, OnePlaceARow(queue)',
         Continued(Entries(queue'), Entries(queue)),
         backup' = backup,
         \A d \in wire' : d \in wire \/ \E x \in Entries(queue) : d = Sent(x),
         over \subseteq over',
         UNCHANGED <<accepted, charged, copies, excused>>
  PROVE  (RowNames /\ NoNoticeOfError /\ Kept /\ Paid)'
<1> USE DEF SMQueueInv
<1>1. ASSUME NEW x \in Entries(queue')
      PROVE  \E y \in Entries(queue) : Continues(x, y)
  BY DEF Continued
<1>2. ASSUME NEW x \in Entries(queue), NEW y \in Entries(queue), x.row = y.row
      PROVE  x = y
  BY <1>2 DEF RowNames, OnePlaceARow, Entries
<1>3. RowNames'
  <2>1. ASSUME NEW x \in Entries(queue'), NEW b \in backup, x.row = b.row
        PROVE  SameName(x, b)
    BY <1>1, <2>1 DEF RowNames, Continues, SameName
  <2>2. ASSUME NEW d \in wire', NEW x \in Entries(queue'), d.tag = <<"own", x.row>>
        PROVE  SameName(d, x)
    <3>1. PICK y \in Entries(queue) : Continues(x, y)
      BY <1>1
    <3>2. CASE d \in wire
      BY <2>2, <3>1, <3>2 DEF RowNames, Continues, SameName
    <3>3. ASSUME NEW h \in Entries(queue), d = Sent(h)
          PROVE  SameName(d, x)
      <4>1. d.tag = qtag(h) /\ SameName(d, h)
        BY <3>3 DEF Sent, SameName
      <4>2. h.row = y.row
        BY <2>2, <3>1, <4>1 DEF qtag, Continues
      <4> QED BY <1>2, <3>1, <4>1, <4>2 DEF Continues, SameName
    <3> QED BY <3>2, <3>3
  <2>3. ASSUME NEW d \in wire', NEW b \in backup, d.tag = <<"own", b.row>>
        PROVE  SameName(d, b)
    <3>1. CASE d \in wire
      BY <2>3, <3>1 DEF RowNames
    <3>2. ASSUME NEW h \in Entries(queue), d = Sent(h)
          PROVE  SameName(d, b)
      BY <2>3, <3>2 DEF Sent, qtag, SameName, RowNames
    <3> QED BY <3>1, <3>2
  <2>4. ASSUME NEW d \in wire', NEW m \in Message, d.tag = <<"sms", m>>
        PROVE  d.kind = "sms" /\ d.m = m
    <3>1. CASE d \in wire
      BY <2>4, <3>1 DEF RowNames
    <3>2. ASSUME NEW h \in Entries(queue), d = Sent(h)
          PROVE  d.kind = "sms" /\ d.m = m
      BY <2>4, <3>2 DEF Sent, qtag
    <3> QED BY <3>1, <3>2
  <2> QED BY <2>1, <2>2, <2>3, <2>4 DEF RowNames
<1>4. NoNoticeOfError'
  BY <1>1 DEF NoNoticeOfError, Continues
<1>5. Kept'
  <2> SUFFICES ASSUME NEW m \in accepted \ over PROVE HasRow(m)' \/ HasEntry(m)'
    BY DEF Kept
  <2>1. CASE HasRow(m)
    <3>1. PICK b \in backup : /\ b.m = m /\ b.kind # "REGISTER"
                              /\ \A x \in Entries(queue) : x.row = b.row => x.state # "DELETE_ME_STATE"
      BY <2>1 DEF HasRow
    <3>2. \A x \in Entries(queue') : x.row = b.row => x.state # "DELETE_ME_STATE"
      BY <1>1, <3>1 DEF Continues
    <3> QED BY <3>1, <3>2 DEF HasRow
  <2>2. CASE HasEntry(m)
    <3>1. PICK y \in Entries(queue) : y.m = m /\ Unsavable(y) /\ y.state # "DELETE_ME_STATE"
      BY <2>2 DEF HasEntry
    <3>2. PICK x \in Entries(queue') : Continues(x, y)
      BY DEF Continued
    <3> QED BY <2>2, <3>1, <3>2 DEF HasEntry, Continues, SameName, Unsavable
  <2> QED BY <2>1, <2>2 DEF Kept
<1>6. Paid'
  <2>1. \A m \in Message : Owed(m)' = Owed(m)
    BY DEF Continued, Continues, SameName, Owed, Copy
  <2> QED BY <2>1 DEF Paid
<1> QED BY <1>3, <1>4, <1>5, <1>6

\* The entry h goes, with its row: it was about to go, or somebody is told the end of its
\* message.  It may be charged.
LEMMA GoneLemma ==
  ASSUME SMQueueInv, NEW h \in Entries(queue), OnePlaceARow(queue)',
         Continued(Entries(queue'), Others(queue, h.row)),
         backup' = without(h.row),
         wire' \subseteq wire,
         over \subseteq over',
         h.state = "DELETE_ME_STATE" \/ h.kind = "REGISTER" \/ h.m \in over',
         charged' = charged \/ (h.kind = "sms" /\ charged' = [charged EXCEPT ![h.m] = @ + 1]),
         UNCHANGED <<accepted, copies, excused>>
  PROVE  (RowNames /\ NoNoticeOfError /\ Kept /\ Paid)'
<1> USE DEF SMQueueInv
<1>0. backup' \subseteq backup /\ \A b \in backup : b \in backup' <=> b.row # h.row
  BY DEF without
<1>1. ASSUME NEW x \in Entries(queue')
      PROVE  \E y \in Entries(queue) : y.row # h.row /\ Continues(x, y)
  BY DEF Continued, Others
<1>2. RowNames'
  BY <1>0, <1>1 DEF RowNames, Continues, SameName
<1>3. NoNoticeOfError'
  BY <1>1 DEF NoNoticeOfError, Continues
<1>4. Kept'
  <2> SUFFICES ASSUME NEW m \in accepted \ over, m \notin over' PROVE HasRow(m)' \/ HasEntry(m)'
    BY DEF Kept
  <2>0. h.m = m => h.state = "DELETE_ME_STATE" \/ h.kind = "REGISTER"
    OBVIOUS
  <2>1. CASE HasRow(m)
    <3>1. PICK b \in backup : /\ b.m = m /\ b.kind # "REGISTER"
                              /\ \A x \in Entries(queue) : x.row = b.row => x.state # "DELETE_ME_STATE"
      BY <2>1 DEF HasRow
    <3>2. b.row # h.row
      BY <2>0, <3>1 DEF RowNames, SameName
    <3>3. \A x \in Entries(queue') : x.row = b.row => x.state # "DELETE_ME_STATE"
      BY <1>1, <3>1 DEF Continues
    <3> QED BY <1>0, <3>1, <3>2, <3>3 DEF HasRow
  <2>2. CASE HasEntry(m)
    <3>1. PICK y \in Entries(queue) : y.m = m /\ Unsavable(y) /\ y.state # "DELETE_ME_STATE"
      BY <2>2 DEF HasEntry
    <3>2. y.row # h.row
      <4>1. y.kind # "REGISTER"
        BY <3>1 DEF Unsavable
      <4> QED BY <2>0, <3>1, <4>1 DEF RowNames, OnePlaceARow, Entries
    <3>3. PICK x \in Entries(queue') : Continues(x, y)
      BY <3>2 DEF Continued, Others
    <3> QED BY <2>2, <3>1, <3>3 DEF HasEntry, Continues, SameName, Unsavable
  <2> QED BY <2>1, <2>2 DEF Kept
<1>5. Paid'
  <2>2. ASSUME NEW m \in Message
        PROVE  charged'[m] + Cardinality(Owed(m)') <= copies[m] + excused[m]
    <3>0. /\ charged[m] \in Nat /\ copies[m] \in Nat /\ excused[m] \in Nat
          /\ charged[m] + Cardinality(Owed(m)) <= copies[m] + excused[m]
          /\ charged \in [Message -> Nat]
      BY DEF Types, TypeOK, Paid
    <3>1. IsFiniteSet(Owed(m))
      BY OwedLemma
    <3>2. Owed(m)' \subseteq Owed(m)
      BY <1>0, <1>1 DEF Owed, Copy, Continues, SameName
    <3>3. IsFiniteSet(Owed(m)') /\ Cardinality(Owed(m)') <= Cardinality(Owed(m))
      BY <3>1, <3>2, FS_Subset
    <3>4. Cardinality(Owed(m)') \in Nat /\ Cardinality(Owed(m)) \in Nat
      BY <3>1, <3>3, FS_CardinalityType
    <3>5. CASE charged'[m] = charged[m]
      BY <3>0, <3>3, <3>4, <3>5
    <3>6. CASE charged'[m] # charged[m]
      <4>1. h.kind = "sms" /\ h.m = m /\ charged'[m] = charged[m] + 1
        BY <3>0, <3>6
      <4>2. h.row \in Row
        BY EntriesLemma DEF Types, TypeOK, Entry
      <4>3. h.row \in Owed(m) /\ h.row \notin Owed(m)'
        BY <1>0, <1>1, <4>1, <4>2 DEF Owed, Copy, Continues
      <4>4. Cardinality(Owed(m)') # Cardinality(Owed(m))
        BY <3>1, <3>2, <4>3, FS_Subset
      <4> QED BY <3>0, <3>3, <3>4, <4>1, <4>4
    <3> QED BY <3>5, <3>6
  <2> QED BY <2>2 DEF Paid
<1> QED BY <1>2, <1>3, <1>4, <1>5

\* The entry h becomes e, and an entry n is originated, that is about its message if h is about
\* to go; the row of what cannot be saved is missing.
LEMMA OriginatedLemma ==
  ASSUME SMQueueInv, NEW h \in Entries(queue), NEW e, NEW n, OnePlaceARow(queue)',
         Entries(queue') = Others(queue, h.row) \cup {e, n},
         e.row = h.row, SameName(e, h), e.state # "NO_STATE",
         n.row \notin RowsUsed, n.kind # "sms", n.state \notin {"DELETE_ME_STATE", "NO_STATE"},
         wire' \subseteq Forget(wire, n.row),
         \/ backup' = backup \cup {RowOf(n)}
         \/ Unsavable(n) /\ backup' = backup,
         e.state = "DELETE_ME_STATE" => n.m = h.m /\ n.kind # "REGISTER",
         over \subseteq over',
         UNCHANGED <<accepted, charged, copies, excused>>
  PROVE  (RowNames /\ NoNoticeOfError /\ Kept /\ Paid)'
<1> USE DEF SMQueueInv
<1>0. /\ backup \subseteq backup'
      /\ \A b \in backup' : b \in backup \/ b = RowOf(n)
      /\ \A b \in backup : b.row # n.row
      /\ \A x \in Entries(queue) : x.row # n.row
      /\ RowOf(n).row = n.row /\ RowOf(n).kind = n.kind /\ RowOf(n).m = n.m
  BY DEF RowOf, RowsUsed, Entries
<1>1. ASSUME NEW x \in Entries(queue')
      PROVE  \/ x = n
             \/ x = e
             \/ x \in Entries(queue) /\ x.row # h.row
  BY DEF Others
<1>2. \A d \in wire' : d \in wire /\ d.tag # <<"own", n.row>>
  BY DEF Forget
<1>3. RowNames'
  <2>1. \A b, c \in backup' : b.row = c.row => b = c
    BY <1>0 DEF RowNames
  <2>2. ASSUME NEW x \in Entries(queue'), NEW b \in backup', x.row = b.row
        PROVE  SameName(x, b)
    <3>1. CASE x = n
      <4>1. b = RowOf(n)
        BY <1>0, <2>2, <3>1
      <4>2. b.kind = n.kind /\ b.m = n.m
        BY <1>0, <4>1
      <4> QED BY <3>1, <4>2 DEF SameName
    <3>2. CASE x # n
      <4>1. PICK y \in Entries(queue) : x.row = y.row /\ SameName(x, y)
        BY <1>1, <3>2 DEF SameName
      <4>2. b \in backup
        BY <1>0, <2>2, <4>1
      <4>3. SameName(y, b)
        BY <2>2, <4>1, <4>2 DEF RowNames
      <4> QED BY <4>1, <4>3 DEF SameName
    <3> QED BY <3>1, <3>2
  <2>3. ASSUME NEW d \in wire', NEW x \in Entries(queue'), d.tag = <<"own", x.row>>
        PROVE  SameName(d, x)
    <3>1. PICK y \in Entries(queue) : x.row = y.row /\ SameName(x, y)
      BY <1>1, <1>2, <2>3 DEF SameName
    <3> QED BY <1>2, <2>3, <3>1 DEF RowNames, SameName
  <2>4. ASSUME NEW d \in wire', NEW b \in backup', d.tag = <<"own", b.row>>
        PROVE  SameName(d, b)
    BY <1>0, <1>2, <2>4 DEF RowNames
  <2> QED BY <1>2, <2>1, <2>2, <2>3, <2>4 DEF RowNames
<1>4. NoNoticeOfError'
  BY <1>1 DEF NoNoticeOfError
<1>5. Kept'
  <2> SUFFICES ASSUME NEW m \in accepted \ over PROVE HasRow(m)' \/ HasEntry(m)'
    BY DEF Kept
  <2>0. n \in Entries(queue') /\ e \in Entries(queue')
    OBVIOUS
  <2>1. CASE e.state = "DELETE_ME_STATE" /\ h.m = m
    <3>1. CASE backup' = backup \cup {RowOf(n)}
      <4>1. RowOf(n) \in backup'
        BY <3>1
      <4>2. \A x \in Entries(queue') : x.row = RowOf(n).row => x.state # "DELETE_ME_STATE"
        BY <1>0, <1>1
      <4> QED BY <1>0, <2>1, <4>1, <4>2 DEF HasRow
    <3>2. CASE Unsavable(n) /\ backup' = backup
      BY <2>0, <2>1, <3>2 DEF HasEntry
    <3> QED BY <3>1, <3>2
  <2>2. CASE ~(e.state = "DELETE_ME_STATE" /\ h.m = m) /\ HasRow(m)
    <3>1. PICK b \in backup : /\ b.m = m /\ b.kind # "REGISTER"
                              /\ \A x \in Entries(queue) : x.row = b.row => x.state # "DELETE_ME_STATE"
      BY <2>2 DEF HasRow
    <3>2. ASSUME NEW x \in Entries(queue'), x.row = b.row
          PROVE  x.state # "DELETE_ME_STATE"
      BY <1>0, <1>1, <2>2, <3>1, <3>2 DEF RowNames, SameName
    <3> QED BY <1>0, <3>1, <3>2 DEF HasRow
  <2>3. CASE ~(e.state = "DELETE_ME_STATE" /\ h.m = m) /\ HasEntry(m)
    <3>1. PICK y \in Entries(queue) : y.m = m /\ Unsavable(y) /\ y.state # "DELETE_ME_STATE"
      BY <2>3 DEF HasEntry
    <3>2. CASE y.row = h.row
      <4>1. y = h
        BY <3>2 DEF RowNames, OnePlaceARow, Entries
      <4> QED BY <2>0, <2>3, <3>1, <4>1 DEF HasEntry, SameName, Unsavable
    <3>3. CASE y.row # h.row
      BY <2>3, <3>1, <3>3 DEF HasEntry, Others
    <3> QED BY <3>2, <3>3
  <2> QED BY <2>1, <2>2, <2>3 DEF Kept
<1>6. Paid'
  <2> SUFFICES ASSUME NEW m \in Message PROVE Owed(m)' = Owed(m)
    BY DEF Paid
  <2>1. ASSUME NEW r
        PROVE  (\E b \in backup' : b.row = r /\ Copy(b, m)) <=> \E b \in backup : b.row = r /\ Copy(b, m)
    BY <1>0 DEF Copy
  <2>2. \A y \in Entries(queue) : y.row = h.row => y = h
    BY DEF RowNames, OnePlaceARow, Entries
  <2>3. ASSUME NEW r
        PROVE  (\E x \in Entries(queue') : x.row = r /\ Copy(x, m))
               <=> \E x \in Entries(queue) : x.row = r /\ Copy(x, m)
    BY <1>1, <2>2 DEF Copy, SameName, Others
  <2> QED BY <2>1, <2>3 DEF Owed
<1> QED BY <1>3, <1>4, <1>5, <1>6

\* A message is submitted: a new entry, with its row if it can be saved.
LEMMA SubmittedLemma ==
  ASSUME SMQueueInv, NEW m \in Message, NEW n \in Entry, OnePlaceARow(queue)',
         Entries(queue') = Entries(queue) \cup {n},
         n.row \notin RowsUsed, n.kind = "sms", n.m = m, n.state = "INITIAL_STATE",
         wire' \subseteq Forget(wire, n.row),
         \/ backup' = backup \cup {RowOf(n)}
         \/ Unsavable(n) /\ backup' = backup,
         accepted' = accepted \cup {m},
         copies' = [copies EXCEPT ![m] = @ + 1],
         UNCHANGED <<over, charged, excused>>
  PROVE  (RowNames /\ NoNoticeOfError /\ Kept /\ Paid)'
<1> USE DEF SMQueueInv
<1>0. /\ backup \subseteq backup'
      /\ \A b \in backup' : b \in backup \/ b = RowOf(n)
      /\ \A b \in backup : b.row # n.row
      /\ \A x \in Entries(queue) : x.row # n.row
      /\ RowOf(n).row = n.row /\ RowOf(n).kind = n.kind /\ RowOf(n).m = n.m
  BY DEF RowOf, RowsUsed, Entries
<1>1. \A x \in Entries(queue') : x = n \/ x \in Entries(queue)
  OBVIOUS
<1>2. \A d \in wire' : d \in wire /\ d.tag # <<"own", n.row>>
  BY DEF Forget
<1>3. RowNames'
  <2>1. \A b, c \in backup' : b.row = c.row => b = c
    BY <1>0 DEF RowNames
  <2>2. ASSUME NEW x \in Entries(queue'), NEW b \in backup', x.row = b.row
        PROVE  SameName(x, b)
    <3>1. CASE x = n
      <4>1. b = RowOf(n)
        BY <1>0, <2>2, <3>1
      <4>2. b.kind = n.kind /\ b.m = n.m
        BY <1>0, <4>1
      <4> QED BY <3>1, <4>2 DEF SameName
    <3>2. CASE x # n
      BY <1>0, <1>1, <2>2, <3>2 DEF RowNames
    <3> QED BY <3>1, <3>2
  <2>3. ASSUME NEW d \in wire', NEW x \in Entries(queue'), d.tag = <<"own", x.row>>
        PROVE  SameName(d, x)
    BY <1>1, <1>2, <2>3 DEF RowNames
  <2>4. ASSUME NEW d \in wire', NEW b \in backup', d.tag = <<"own", b.row>>
        PROVE  SameName(d, b)
    BY <1>0, <1>2, <2>4 DEF RowNames
  <2> QED BY <1>2, <2>1, <2>2, <2>3, <2>4 DEF RowNames
<1>4. NoNoticeOfError'
  BY <1>1 DEF NoNoticeOfError
<1>5. Kept'
  <2> SUFFICES ASSUME NEW k \in accepted', k \notin over PROVE HasRow(k)' \/ HasEntry(k)'
    BY DEF Kept
  <2>1. CASE k = m
    <3>1. \A x \in Entries(queue') : x.row = RowOf(n).row => x.state # "DELETE_ME_STATE"
      BY <1>0, <1>1
    <3>2. CASE RowOf(n) \in backup'
      BY <1>0, <2>1, <3>1, <3>2 DEF HasRow
    <3>3. CASE Unsavable(n)
      BY <2>1, <3>3 DEF HasEntry
    <3> QED BY <3>2, <3>3
  <2>2. CASE HasRow(k)
    <3>1. PICK b \in backup : /\ b.m = k /\ b.kind # "REGISTER"
                              /\ \A x \in Entries(queue) : x.row = b.row => x.state # "DELETE_ME_STATE"
      BY <2>2 DEF HasRow
    <3>2. \A x \in Entries(queue') : x.row = b.row => x.state # "DELETE_ME_STATE"
      BY <1>0, <1>1, <3>1
    <3> QED BY <1>0, <3>1, <3>2 DEF HasRow
  <2>3. CASE HasEntry(k)
    BY <2>3 DEF HasEntry
  <2> QED BY <2>1, <2>2, <2>3 DEF Kept
<1>6. Paid'
  <2>1. n.row \in Row
    BY DEF Entry
  <2>2. ASSUME NEW k \in Message
        PROVE  charged[k] + Cardinality(Owed(k)') <= copies'[k] + excused[k]
    <3>0. /\ charged[k] \in Nat /\ copies[k] \in Nat /\ excused[k] \in Nat
          /\ charged[k] + Cardinality(Owed(k)) <= copies[k] + excused[k]
          /\ copies \in [Message -> 0..MaxEvents]
      BY DEF Types, TypeOK, Paid
    <3>1. IsFiniteSet(Owed(k))
      BY OwedLemma
    <3>2. Cardinality(Owed(k)) \in Nat
      BY <3>1, FS_CardinalityType
    <3>3. CASE k = m
      <4>1. Owed(k)' = Owed(k) \cup {n.row}
        BY <1>0, <1>1, <2>1, <3>3 DEF Owed, Copy
      <4>2. n.row \notin Owed(k)
        BY <1>0 DEF Owed
      <4>3. Cardinality(Owed(k)') = Cardinality(Owed(k)) + 1
        BY <3>1, <4>1, <4>2, FS_AddElement
      <4>4. copies'[k] = copies[k] + 1
        BY <3>0, <3>3
      <4> QED BY <3>0, <3>2, <4>3, <4>4
    <3>4. CASE k # m
      <4>1. Owed(k)' = Owed(k)
        BY <1>0, <1>1, <3>4 DEF Owed, Copy
      <4>2. copies'[k] = copies[k]
        BY <3>0, <3>4
      <4> QED BY <3>0, <4>1, <4>2
    <3> QED BY <3>3, <3>4
  <2> QED BY <2>2 DEF Paid
<1> QED BY <1>3, <1>4, <1>5, <1>6

-----------------------------------------------------------------------------
(* What the helpers return                                                 *)

LEMMA TimeoutLemma ==
  ASSUME NEW from, NEW to
  PROVE  timeout(from, to) \in 0..Long
<1> DEFINE Times == {0, Short, Resend, Long}
<1>1. Times \subseteq 0..Long
  BY SMQueueAssumption
<1>2. timeout(from, to) \in Times
  <2> HIDE DEF Times
  <2>1. /\ 0 \in Times /\ Short \in Times /\ Resend \in Times /\ Long \in Times
    BY DEF Times
  <2> QED BY <2>1 DEF timeout
<1> QED BY <1>1, <1>2

LEMMA InStateLemma ==
  ASSUME NEW e \in Entry, NEW s \in SMState
  PROVE  /\ InState(e, s) \in Entry
         /\ InState(e, s).row = e.row /\ SameName(InState(e, s), e)
         /\ InState(e, s).state = s
<1>1. timeout(e.state, s) \in -1..Long
  BY TimeoutLemma, SMQueueAssumption
<1> DEFINE t == timeout(e.state, s)
<1> HIDE DEF t
<1>2. InState(e, s) = [e EXCEPT !.state = s, !.left = t]
  BY DEF InState, t
<1> QED BY <1>1, <1>2 DEF Entry, SameName, t

LEMMA NewEntryLemma ==
  ASSUME NEW r \in Row, NEW kind \in Kind, NEW m \in Message, NEW dest \in Dest, NEW s \in SMState
  PROVE  LET n == NewEntry(r, kind, m, dest, s)
         IN  /\ n \in Entry /\ n.row = r /\ n.kind = kind /\ n.m = m
             /\ n.dest = dest /\ n.state = s
BY SMQueueAssumption DEF NewEntry, Entry

LEMMA RowOfLemma ==
  ASSUME NEW e \in Entry
  PROVE  RowOf(e) \in Saved
BY DEF RowOf, Saved, Entry

LEMMA NewRowLemma == TypeOK => NewRow \in Row
<1> SUFFICES ASSUME TypeOK PROVE NewRow \in Row
  OBVIOUS
<1>1. RowsUsed \subseteq Row
  <2>1. \A i \in DOMAIN queue : queue[i].row \in Row
    <3>1. queue \in Seq(Entry)
      BY DEF TypeOK
    <3>2. \A i \in DOMAIN queue : queue[i] \in Entry
      BY <3>1, LenProperties, ElementOfSeq
    <3> QED BY <3>2 DEF Entry
  <2>2. \A b \in backup : b.row \in Row
    BY DEF TypeOK, Saved
  <2> QED BY <2>1, <2>2 DEF RowsUsed
<1>2. \E r \in Row : r \notin RowsUsed \/ RowsUsed = Row
  BY <1>1, SMQueueAssumption
<1> QED BY <1>2 DEF NewRow

\* The notices about e, if any, are new, and about the message of e.
LEMMA NoticesLemma ==
  ASSUME TypeOK, NEW e \in Entry
  PROVE  /\ \A n \in Notices(e) :
              /\ n \in Entry /\ n.kind = "bounce" /\ n.m = e.m
              /\ n.state \notin {"DELETE_ME_STATE", "NO_STATE"}
         /\ Notices(e) = {} => e.kind = "bounce"
<1>1. e.m \in Message /\ e.kind \in Kind
  BY DEF Entry
<1> DEFINE notice(dest, s) == NewEntry(NewRow, "bounce", e.m, dest, s)
<1>2. ASSUME NEW dest \in Dest, NEW s \in SMState
      PROVE  /\ notice(dest, s) \in Entry
             /\ notice(dest, s).kind = "bounce" /\ notice(dest, s).m = e.m
             /\ notice(dest, s).state = s
  <2>1. "bounce" \in Kind
    BY DEF Kind
  <2> QED BY <1>1, <2>1, NewRowLemma, NewEntryLemma
<1> HIDE DEF notice
<1>3. Notices(e) \subseteq
        {notice("IMSI", "REQUEST_DESTINATION_SIPURL"), notice("phone", "REQUEST_DESTINATION_IMSI"),
         notice("code", "REQUEST_DESTINATION_IMSI")}
  BY DEF Notices, notice
<1>4. /\ {"IMSI", "phone", "code"} \subseteq Dest
      /\ {"REQUEST_DESTINATION_SIPURL", "REQUEST_DESTINATION_IMSI"} \subseteq SMState
  BY DEF Dest, SMState
<1>5. \A n \in Notices(e) :
        /\ n \in Entry /\ n.kind = "bounce" /\ n.m = e.m
        /\ n.state \in {"REQUEST_DESTINATION_SIPURL", "REQUEST_DESTINATION_IMSI"}
  BY <1>2, <1>3, <1>4
<1>6. Notices(e) = {} => e.kind = "bounce"
  BY <1>1 DEF Notices, Kind
<1> QED BY <1>5, <1>6

LEMMA SentLemma ==
  ASSUME NEW e \in Entry
  PROVE  Sent(e) \in Request
BY DEF Sent, qtag, Request, Entry

\* The head, and what is behind it.
LEMMA HeadLemma ==
  ASSUME SMQueueInv, queue # <<>>
  PROVE  /\ head \in Entry /\ head \in Entries(queue)
         /\ head.kind \in Kind /\ head.m \in Message /\ head.row \in Row
         /\ head.dest \in Dest /\ head.state \in SMState
         /\ Tail(queue) \in Seq(Entry)
         /\ Entries(Tail(queue)) = Others(queue, head.row)
         /\ OnePlaceARow(Tail(queue))
         /\ head.row \notin Rows(Tail(queue))
<1>1. queue \in Seq(Entry) /\ OnePlaceARow(queue)
  BY DEF SMQueueInv, Types, TypeOK, RowNames
<1>2. /\ head \in Entry /\ head \in Entries(queue) /\ Tail(queue) \in Seq(Entry)
      /\ Entries(Tail(queue)) = Others(queue, head.row) /\ OnePlaceARow(Tail(queue))
  BY <1>1, TailLemma DEF head
<1>3. head.row \notin Rows(Tail(queue))
  BY <1>2, RowsLemma DEF Others
<1> QED BY <1>2, <1>3 DEF Entry

-----------------------------------------------------------------------------
(* The actions                                                             *)

LEMMA LoopLemma ==
  ASSUME NEW q, Loop(q)
  PROVE  /\ queue' = q
         /\ pc' \in {"serve", "select"}
         /\ pc' = "serve" => queue' # <<>>
BY DEF Loop, due

\* Every entry continues itself.
LEMMA SelfLemma ==
  ASSUME NoNoticeOfError, NEW x \in Entries(queue)
  PROVE  Continues(x, x)
BY DEF NoNoticeOfError, Continues, SameName

LEMMA RowsUsedLemma ==
  ASSUME NEW r, r \notin RowsUsed
  PROVE  /\ r \notin Rows(queue)
         /\ \A x \in Entries(queue) : x.row # r
BY DEF RowsUsed, Rows, Entries

\* The head moves on to e.
LEMMA MovesLemma ==
  ASSUME SMQueueInv, pc = "serve", NEW e \in Entry,
         e.row = head.row, SameName(e, head), e.state # "DELETE_ME_STATE",
         e.state = "NO_STATE" => head.kind \in {"bounce", "REGISTER"},
         Loop(set_state(Tail(queue), e)), backup' = backup,
         wire' \in {wire, wire \cup {Sent(head)}},
         UNCHANGED <<linked, ghosts, events>>
  PROVE  SMQueueInv'
<1> DEFINE q == set_state(Tail(queue), e)
<1>0. queue # <<>>
  BY DEF SMQueueInv, Types
<1>1. /\ q \in Seq(Entry) /\ OnePlaceARow(q)
      /\ Entries(q) = Others(queue, head.row) \cup {e}
  BY <1>0, HeadLemma, SetStateLemma
<1>2. queue' = q /\ pc' \in {"serve", "select"} /\ (pc' = "serve" => queue' # <<>>)
  BY LoopLemma
<1> HIDE DEF q
<1>3. Types'
  <2>1. wire' \subseteq Request
    BY <1>0, HeadLemma, SentLemma DEF SMQueueInv, Types, TypeOK
  <2> QED BY <1>1, <1>2, <2>1 DEF SMQueueInv, Types, TypeOK, ghosts
<1>4. Continued(Entries(queue'), Entries(queue))
  <2>1. Continues(e, head)
    BY DEF Continues, SameName
  <2>2. \A x \in Others(queue, head.row) : x \in Entries(queue) /\ Continues(x, x)
    BY SelfLemma DEF SMQueueInv, Others
  <2>3. \A y \in Entries(queue) : y = head \/ y \in Others(queue, head.row)
    BY <1>0, HeadLemma DEF SMQueueInv, RowNames, OnePlaceARow, Entries, Others
  <2> QED BY <1>0, <1>1, <1>2, <2>1, <2>2, <2>3, HeadLemma DEF Continued
<1>5. OnePlaceARow(queue)'
  BY <1>1, <1>2
<1>6. \A d \in wire' : d \in wire \/ \E x \in Entries(queue) : d = Sent(x)
  BY <1>0, HeadLemma
<1>7. over \subseteq over' /\ UNCHANGED <<accepted, charged, copies, excused>>
  BY DEF ghosts
<1>8. (RowNames /\ NoNoticeOfError /\ Kept /\ Paid)'
  BY <1>4, <1>5, <1>6, <1>7, ChangedLemma
<1> QED BY <1>3, <1>8 DEF SMQueueInv

\* The new entry n, and its row, unless its text cannot be stored.
Backs(n) ==
  /\ n.row \notin RowsUsed
  /\ wire' \subseteq Forget(wire, n.row)
  /\ \/ backup' = backup \cup {RowOf(n)}
     \/ Unsavable(n) /\ backup' = backup

LEMMA BacksLemma ==
  ASSUME TypeOK, IsFiniteSet(backup), NEW n \in Entry, Backs(n)
  PROVE  backup' \subseteq Saved /\ IsFiniteSet(backup') /\ wire' \subseteq Request
<1>1. RowOf(n) \in Saved
  BY RowOfLemma
<1>2. IsFiniteSet(backup \cup {RowOf(n)})
  BY FS_AddElement
<1> QED BY <1>1, <1>2 DEF Backs, TypeOK, Forget

\* The head moves on to e, and n is originated.
LEMMA MovesWithLemma ==
  ASSUME SMQueueInv, pc = "serve", NEW e \in Entry, NEW n \in Entry,
         e.row = head.row, SameName(e, head), e.state # "NO_STATE",
         n.kind # "sms", n.state \notin {"DELETE_ME_STATE", "NO_STATE"},
         e.state = "DELETE_ME_STATE" => n.m = head.m /\ n.kind # "REGISTER",
         Backs(n), MovesWith(e, n),
         linked' \subseteq Message, over \subseteq over', over' \subseteq Message,
         UNCHANGED <<accepted, charged, copies, excused, events>>
  PROVE  SMQueueInv'
<1> DEFINE p == <<n>> \o Tail(queue)
           q == set_state(p, e)
<1>0. queue # <<>>
  BY DEF SMQueueInv, Types
<1>1. n.row # head.row /\ n.row \notin Rows(Tail(queue))
  <2>1. \A x \in Entries(queue) : x.row # n.row
    BY RowsUsedLemma DEF Backs
  <2> QED BY <1>0, <2>1, HeadLemma, RowsLemma DEF Others
<1>2. /\ p \in Seq(Entry) /\ OnePlaceARow(p)
      /\ Entries(p) = Others(queue, head.row) \cup {n}
  BY <1>0, <1>1, HeadLemma, FrontLemma
<1> HIDE DEF p
<1>3. e.row \notin Rows(p)
  BY <1>1, <1>2, RowsLemma DEF Others
<1>4. /\ q \in Seq(Entry) /\ OnePlaceARow(q)
      /\ Entries(q) = Others(queue, head.row) \cup {e, n}
  <2>1. /\ q \in Seq(Entry) /\ OnePlaceARow(q)
        /\ Entries(q) = Entries(p) \cup {e}
    BY <1>2, <1>3, SetStateLemma
  <2> HIDE DEF q
  <2> QED BY <1>2, <2>1
<1>5. queue' = q /\ pc' \in {"serve", "select"} /\ (pc' = "serve" => queue' # <<>>)
  BY LoopLemma DEF MovesWith, p
<1> HIDE DEF q
<1>6. Types'
  <2>1. backup' \subseteq Saved /\ IsFiniteSet(backup') /\ wire' \subseteq Request
    BY BacksLemma DEF SMQueueInv, Types
  <2> QED BY <1>4, <1>5, <2>1 DEF SMQueueInv, Types, TypeOK
<1>7. OnePlaceARow(queue)' /\ Entries(queue') = Others(queue, head.row) \cup {e, n}
  BY <1>4, <1>5
<1>8. (RowNames /\ NoNoticeOfError /\ Kept /\ Paid)'
  BY <1>0, <1>7, HeadLemma, OriginatedLemma DEF Backs
<1> QED BY <1>6, <1>8 DEF SMQueueInv

\* A move to state s, and to the destination dest.
LEMMA MovesToLemma ==
  ASSUME SMQueueInv, pc = "serve", NEW s \in SMState \ {"DELETE_ME_STATE"}, NEW dest \in Dest,
         s = "NO_STATE" => head.kind \in {"bounce", "REGISTER"},
         \/ Moves(InState(head, s))
         \/ Moves([InState(head, s) EXCEPT !.dest = dest]),
         UNCHANGED <<linked, ghosts, events>>
  PROVE  SMQueueInv'
<1> DEFINE e == InState(head, s)
           f == [e EXCEPT !.dest = dest]
<1>0. head \in Entry
  BY HeadLemma DEF SMQueueInv, Types
<1>1. e \in Entry /\ e.row = head.row /\ SameName(e, head) /\ e.state = s
  BY <1>0, InStateLemma
<1> HIDE DEF e
<1>2. f \in Entry /\ f.row = head.row /\ SameName(f, head) /\ f.state = s
  BY <1>1 DEF Entry, SameName
<1> HIDE DEF f
<1>3. PICK g \in {e, f} : Moves(g)
  BY DEF e, f
<1>4. g \in Entry /\ g.row = head.row /\ SameName(g, head) /\ g.state = s
  BY <1>1, <1>2
<1> QED BY <1>3, <1>4, MovesLemma DEF Moves

LEMMA ServeMoves ==
  ASSUME SMQueueInv,
         \/ ServeInvalid \/ ServeSMSC \/ ServeOrdinary \/ ServeFromAddress \/ ServeIMSI
         \/ ServeHostPort \/ ServeAskedToRegister
  PROVE  SMQueueInv'
<1>0. /\ \A s \in {"NO_STATE", "INITIAL_STATE", "REQUEST_FROM_ADDRESS_LOOKUP",
                   "REQUEST_DESTINATION_IMSI", "REQUEST_DESTINATION_SIPURL",
                   "REQUEST_MSG_DELIVERY", "AWAITING_REGISTER_HANDSET"} :
           s \in SMState \ {"DELETE_ME_STATE"}
      /\ {"register", "phone", "IMSI"} \subseteq Dest
  BY DEF SMState, Dest
<1>1. CASE ServeInvalid
  BY <1>0, <1>1, MovesToLemma DEF ServeInvalid, Serving
<1>2. CASE ServeSMSC
  BY <1>0, <1>2, MovesToLemma DEF ServeSMSC, Serving
<1>3. CASE ServeOrdinary
  BY <1>0, <1>3, MovesToLemma DEF ServeOrdinary, Serving
<1>4. CASE ServeFromAddress
  BY <1>0, <1>4, MovesToLemma DEF ServeFromAddress, Serving
<1>5. CASE ServeIMSI
  BY <1>0, <1>5, MovesToLemma DEF ServeIMSI, Serving
<1>6. CASE ServeHostPort
  BY <1>0, <1>6, MovesToLemma DEF ServeHostPort, Serving
<1>7. CASE ServeAskedToRegister
  BY <1>0, <1>7, MovesToLemma DEF ServeAskedToRegister, Serving
<1> QED BY <1>1, <1>2, <1>3, <1>4, <1>5, <1>6, <1>7

LEMMA ServeDeliveryStep ==
  ASSUME SMQueueInv, ServeDelivery
  PROVE  SMQueueInv'
<1> DEFINE e == InState(head, "REQUEST_DESTINATION_SIPURL")
<1>1. pc = "serve" /\ queue # <<>>
  BY DEF ServeDelivery, Serving, SMQueueInv, Types
<1>2. "REQUEST_DESTINATION_SIPURL" \in SMState
  BY DEF SMState
<1>3. e \in Entry /\ e.row = head.row /\ SameName(e, head) /\ e.state = "REQUEST_DESTINATION_SIPURL"
  BY <1>1, <1>2, HeadLemma, InStateLemma
<1>4. /\ Loop(set_state(Tail(queue), e)) /\ backup' = backup
      /\ wire' \in {wire, wire \cup {Sent(head)}}
      /\ UNCHANGED <<linked, ghosts, events>>
  BY DEF ServeDelivery
<1> HIDE DEF e
<1> QED BY <1>1, <1>3, <1>4, MovesLemma

\* An answer or a notice about the message of the head, which is done with.
LEMMA RepliesLemma ==
  ASSUME SMQueueInv, pc = "serve", NEW kind \in {"reply", "bounce"}, NEW dest \in Dest,
         Replies(NewEntry(NewRow, kind, head.m, dest, "REQUEST_DESTINATION_SIPURL")),
         linked' \subseteq Message,
         UNCHANGED <<accepted, charged, copies, excused, events>>
  PROVE  SMQueueInv'
<1> DEFINE n == NewEntry(NewRow, kind, head.m, dest, "REQUEST_DESTINATION_SIPURL")
           e == InState(head, "DELETE_ME_STATE")
<1>0. queue # <<>> /\ TypeOK
  BY DEF SMQueueInv, Types
<1>1. /\ kind \in Kind
      /\ {"DELETE_ME_STATE", "REQUEST_DESTINATION_SIPURL"} \subseteq SMState
  BY DEF Kind, SMState
<1>2. n \in Entry /\ n.kind = kind /\ n.m = head.m /\ n.state = "REQUEST_DESTINATION_SIPURL"
  BY <1>0, <1>1, HeadLemma, NewRowLemma, NewEntryLemma
<1>3. e \in Entry /\ e.row = head.row /\ SameName(e, head) /\ e.state = "DELETE_ME_STATE"
  BY <1>0, <1>1, HeadLemma, InStateLemma
<1>4. Backs(n) /\ MovesWith(e, n) /\ over' = over \cup Lost(n)
  BY DEF Replies, Originate, Backs
<1> HIDE DEF n, e
<1>5. over \subseteq over' /\ over' \subseteq Message
  BY <1>0, <1>2, <1>4, HeadLemma DEF Lost, TypeOK
<1> QED BY <1>2, <1>3, <1>4, <1>5, MovesWithLemma

LEMMA ServeReplies ==
  ASSUME SMQueueInv, ServeLowFunds \/ ServeRegistered
  PROVE  SMQueueInv'
<1>0. {"IMSI", "code"} \subseteq Dest /\ linked \subseteq Message
  BY DEF Dest, SMQueueInv, Types, TypeOK
<1>1. CASE ServeLowFunds
  BY <1>0, <1>1, RepliesLemma DEF ServeLowFunds, Serving
<1>2. CASE ServeRegistered
  BY <1>0, <1>2, RepliesLemma DEF ServeRegistered, Serving
<1> QED BY <1>1, <1>2

\* The REGISTER of the phone that sent the head.
LEMMA RegistersLemma ==
  ASSUME SMQueueInv, pc = "serve", NEW s, Registers(s),
         linked' \subseteq Message,
         UNCHANGED <<over, accepted, charged, copies, excused, events>>
  PROVE  SMQueueInv'
<1> DEFINE n == NewEntry(NewRow, "REGISTER", head.m, "HLR", "REQUEST_MSG_DELIVERY")
           t == timeout(s, "ASKED_TO_REGISTER_HANDSET")
           e == [head EXCEPT !.state = "ASKED_TO_REGISTER_HANDSET", !.left = t]
<1>0. queue # <<>> /\ TypeOK
  BY DEF SMQueueInv, Types
<1>1. /\ "REGISTER" \in Kind /\ "HLR" \in Dest
      /\ {"ASKED_TO_REGISTER_HANDSET", "REQUEST_MSG_DELIVERY"} \subseteq SMState
  BY DEF Kind, Dest, SMState
<1>2. n \in Entry /\ n.kind = "REGISTER" /\ n.state = "REQUEST_MSG_DELIVERY"
  BY <1>0, <1>1, HeadLemma, NewRowLemma, NewEntryLemma
<1>3. t \in -1..Long
  BY TimeoutLemma, SMQueueAssumption
<1>4. Originate(n, wire) /\ MovesWith(e, n)
  BY DEF Registers
<1> HIDE DEF n, t
<1>5. e \in Entry /\ e.row = head.row /\ SameName(e, head) /\ e.state = "ASKED_TO_REGISTER_HANDSET"
  BY <1>0, <1>1, <1>3, HeadLemma DEF Entry, SameName
<1>6. Backs(n)
  BY <1>4 DEF Originate, Backs
<1>7. over \subseteq over' /\ over' \subseteq Message
  BY <1>0 DEF TypeOK
<1> HIDE DEF e
<1> QED BY <1>2, <1>4, <1>5, <1>6, <1>7, MovesWithLemma

LEMMA ServeRegisters ==
  ASSUME SMQueueInv, ServeRegister \/ ServeAwaitingRegister
  PROVE  SMQueueInv'
<1>0. linked \subseteq Message /\ "IMSI" \in Dest
  BY DEF Dest, SMQueueInv, Types, TypeOK
<1>1. CASE ServeAwaitingRegister
  BY <1>0, <1>1, RegistersLemma DEF ServeAwaitingRegister, Serving, ghosts
<1>2. CASE ServeRegister
  <2>0. head.m \in Message
    BY HeadLemma, <1>2 DEF ServeRegister, Serving, SMQueueInv, Types
  <2>1. pc = "serve" /\ UNCHANGED <<accepted, charged, copies, excused, events>>
    BY <1>2 DEF ServeRegister, Serving
  <2>2. CASE Registers("INITIAL_STATE") /\ linked' = linked \cup {head.m} /\ UNCHANGED over
    BY <1>0, <2>0, <2>1, <2>2, RegistersLemma
  <2>3. CASE /\ Replies(NewEntry(NewRow, "reply", head.m, "IMSI", "REQUEST_DESTINATION_SIPURL"))
             /\ linked' \in {linked, linked \cup {head.m}}
    BY <1>0, <2>0, <2>1, <2>3, RepliesLemma
  <2> QED BY <1>2, <2>2, <2>3 DEF ServeRegister
<1> QED BY <1>1, <1>2

LEMMA ServeBounceStep ==
  ASSUME SMQueueInv, ServeBounce
  PROVE  SMQueueInv'
<1> DEFINE e == InState(head, "DELETE_ME_STATE")
<1>0. pc = "serve" /\ queue # <<>> /\ TypeOK
  BY DEF SMQueueInv, Types, ServeBounce, Serving
<1>1. {"DELETE_ME_STATE", "NO_STATE"} \subseteq SMState /\ "IMSI" \in Dest
  BY DEF SMState, Dest
<1>2. UNCHANGED <<linked, accepted, charged, copies, excused, events>>
  BY DEF ServeBounce
<1>3. CASE Notices(head) = {} /\ Moves(InState(head, "NO_STATE")) /\ UNCHANGED over
  BY <1>0, <1>1, <1>2, <1>3, HeadLemma, NoticesLemma, MovesToLemma DEF ghosts
<1>4. CASE \E n \in Notices(head) :
             /\ OriginateText(n, wire)
             /\ MovesWith(e, n)
             /\ over' = over \cup Lost(n)
  <2>1. PICK n \in Notices(head) :
               /\ OriginateText(n, wire)
               /\ MovesWith(e, n)
               /\ over' = over \cup Lost(n)
    BY <1>4
  <2>2. /\ n \in Entry /\ n.kind = "bounce" /\ n.m = head.m
        /\ n.state \notin {"DELETE_ME_STATE", "NO_STATE"}
    BY <1>0, HeadLemma, NoticesLemma
  <2>3. e \in Entry /\ e.row = head.row /\ SameName(e, head) /\ e.state = "DELETE_ME_STATE"
    BY <1>0, <1>1, HeadLemma, InStateLemma
  <2>4. Backs(n)
    BY <2>1, <2>2 DEF OriginateText, Backs, Unsavable
  <2>5. over \subseteq over' /\ over' \subseteq Message /\ linked' \subseteq Message
    BY <1>0, <1>2, <2>1, <2>2, HeadLemma DEF Lost, TypeOK
  <2> HIDE DEF e
  <2> QED BY <1>0, <1>2, <2>1, <2>2, <2>3, <2>4, <2>5, MovesWithLemma
<1> QED BY <1>3, <1>4 DEF ServeBounce

LEMMA ServeDeleteStep ==
  ASSUME SMQueueInv, ServeDelete
  PROVE  SMQueueInv'
<1>0. pc = "serve" /\ queue # <<>> /\ TypeOK /\ head.state \in {"NO_STATE", "DELETE_ME_STATE"}
  BY DEF SMQueueInv, Types, ServeDelete, Serving, head
<1>1. /\ queue' = Tail(queue) /\ pc' \in {"serve", "select"} /\ (pc' = "serve" => queue' # <<>>)
      /\ backup' = without(head.row)
      /\ over' = IF head.state = "NO_STATE" /\ head.kind = "bounce" THEN over \cup {head.m} ELSE over
      /\ UNCHANGED <<wire, linked, accepted, charged, copies, excused, events>>
  BY LoopLemma DEF ServeDelete
<1>2. Types'
  <2>1. IsFiniteSet(backup')
    BY <1>1, FS_Subset DEF without, SMQueueInv, Types
  <2>2. backup' \subseteq backup
    BY <1>1 DEF without
  <2>3. over' \subseteq Message
    BY <1>0, <1>1, HeadLemma DEF TypeOK
  <2> QED BY <1>0, <1>1, <2>1, <2>2, <2>3, HeadLemma DEF SMQueueInv, Types, TypeOK
<1>3. Continued(Entries(queue'), Others(queue, head.row))
  <2>1. Entries(queue') = Others(queue, head.row)
    BY <1>0, <1>1, HeadLemma
  <2>2. \A x \in Others(queue, head.row) : Continues(x, x)
    BY SelfLemma DEF SMQueueInv, Others
  <2> QED BY <2>1, <2>2 DEF Continued
<1>4. OnePlaceARow(queue)'
  BY <1>0, <1>1, HeadLemma
<1>5. head.state = "DELETE_ME_STATE" \/ head.kind = "REGISTER" \/ head.m \in over'
  BY <1>0, <1>1, HeadLemma DEF SMQueueInv, NoNoticeOfError
<1>6. (RowNames /\ NoNoticeOfError /\ Kept /\ Paid)'
  BY <1>0, <1>1, <1>3, <1>4, <1>5, HeadLemma, GoneLemma
<1> QED BY <1>2, <1>6 DEF SMQueueInv

\* A step of the main loop that leaves the entries as they are, or changes them in place.
LEMMA InPlaceLemma ==
  ASSUME SMQueueInv, queue' \in Seq(Entry), OnePlaceARow(queue)',
         Continued(Entries(queue'), Entries(queue)),
         pc' \in {"serve", "select"}, pc' = "serve" => queue' # <<>>,
         backup' = backup, wire' \subseteq wire, linked' = linked,
         over \subseteq over', over' \subseteq Message,
         UNCHANGED <<accepted, charged, copies, excused, events>>
  PROVE  SMQueueInv'
<1>1. Types'
  BY DEF SMQueueInv, Types, TypeOK
<1>2. (RowNames /\ NoNoticeOfError /\ Kept /\ Paid)'
  BY ChangedLemma
<1> QED BY <1>1, <1>2 DEF SMQueueInv

\* The queue stays as it is.
LEMMA SameQueueLemma ==
  ASSUME SMQueueInv, queue' = queue
  PROVE  /\ queue' \in Seq(Entry)
         /\ OnePlaceARow(queue)'
         /\ Continued(Entries(queue'), Entries(queue))
<1>1. \A x \in Entries(queue) : Continues(x, x)
  BY SelfLemma DEF SMQueueInv
<1> QED BY <1>1 DEF Continued, SMQueueInv, Types, TypeOK, RowNames

LEMMA WakeStep ==
  ASSUME SMQueueInv, Wake
  PROVE  SMQueueInv'
<1>1. /\ queue # <<>> /\ pc' = "serve"
      /\ UNCHANGED <<queue, backup, wire, linked, ghosts, events>>
  BY DEF Wake, due
<1>2. over' \subseteq Message
  BY <1>1 DEF ghosts, SMQueueInv, Types, TypeOK
<1> QED BY <1>1, <1>2, SameQueueLemma, InPlaceLemma DEF ghosts

\* Entries change in the places they have.
LEMMA PlacesLemma ==
  ASSUME SMQueueInv, NEW q, q \in Seq(Entry), DOMAIN q = DOMAIN queue,
         \A i \in DOMAIN queue : Continues(q[i], queue[i])
  PROVE  /\ OnePlaceARow(q)
         /\ Continued(Entries(q), Entries(queue))
<1>1. OnePlaceARow(q)
  BY DEF SMQueueInv, RowNames, OnePlaceARow, Continues
<1>2. Continued(Entries(q), Entries(queue))
  BY DEF Continued, Entries
<1> QED BY <1>1, <1>2

LEMMA TickStep ==
  ASSUME SMQueueInv, Tick
  PROVE  SMQueueInv'
<1> DEFINE later(e) == [e EXCEPT !.left = IF @ > -1 THEN @ - 1 ELSE @]
<1>0. /\ pc = "select" /\ queue # <<>>
      /\ queue' = [i \in DOMAIN queue |-> later(queue[i])]
      /\ UNCHANGED <<pc, backup, wire, linked, ghosts, events>>
  BY DEF Tick
<1>1. /\ queue \in Seq(Entry) /\ Len(queue) \in Nat /\ DOMAIN queue = 1..Len(queue)
      /\ \A i \in DOMAIN queue : queue[i] \in Entry
  <2>1. queue \in Seq(Entry)
    BY DEF SMQueueInv, Types, TypeOK
  <2> QED BY <2>1, LenProperties, ElementOfSeq
<1>2. ASSUME NEW e \in Entry
      PROVE  /\ later(e) \in Entry
             /\ later(e).row = e.row /\ SameName(later(e), e) /\ later(e).state = e.state
  <2>1. e.left \in -1..Long /\ Long \in Nat
    BY SMQueueAssumption DEF Entry
  <2> DEFINE t == IF e.left > -1 THEN e.left - 1 ELSE e.left
  <2>2. t \in -1..Long
    BY <2>1
  <2>3. later(e) = [e EXCEPT !.left = t]
    OBVIOUS
  <2> HIDE DEF t
  <2> QED BY <2>2, <2>3 DEF Entry, SameName
<1>3. \A i \in DOMAIN queue : Continues(later(queue[i]), queue[i])
  <2> SUFFICES ASSUME NEW i \in DOMAIN queue PROVE Continues(later(queue[i]), queue[i])
    OBVIOUS
  <2>1. Continues(queue[i], queue[i])
    BY SelfLemma DEF SMQueueInv, Entries
  <2>2. /\ later(queue[i]).row = queue[i].row /\ SameName(later(queue[i]), queue[i])
        /\ later(queue[i]).state = queue[i].state
    BY <1>1, <1>2
  <2> HIDE DEF later
  <2> QED BY <2>1, <2>2 DEF Continues, SameName
<1>4. \A i \in DOMAIN queue : later(queue[i]) \in Entry
  BY <1>1, <1>2
<1> HIDE DEF later
<1>5. queue' \in Seq(Entry) /\ DOMAIN queue' = DOMAIN queue
  BY <1>0, <1>1, <1>4
<1>6. \A i \in DOMAIN queue : Continues(queue'[i], queue[i])
  BY <1>0, <1>3
<1>7. OnePlaceARow(queue)' /\ Continued(Entries(queue'), Entries(queue))
  BY <1>5, <1>6, PlacesLemma
<1>8. over' \subseteq Message /\ (pc' = "serve" => queue' # <<>>) /\ pc' = "select"
  BY <1>0 DEF ghosts, SMQueueInv, Types, TypeOK
<1> QED BY <1>0, <1>5, <1>7, <1>8, InPlaceLemma DEF ghosts

LEMMA ResponseUnknownStep ==
  ASSUME SMQueueInv, NEW d \in wire, NEW answer \in Answer, ResponseUnknown(d, answer)
  PROVE  SMQueueInv'
<1>1. /\ queue' = queue /\ pc' \in {"serve", "select"} /\ (pc' = "serve" => queue' # <<>>)
      /\ wire' = wire \ {d}
      /\ over' = IF answer = "ok" THEN over \cup Told(d) ELSE over
      /\ UNCHANGED <<backup, linked, accepted, charged, copies, excused, events>>
  BY LoopLemma DEF ResponseUnknown
<1>2. over \subseteq over' /\ over' \subseteq Message
  <2>1. d.m \in Message /\ over \subseteq Message
    BY DEF SMQueueInv, Types, TypeOK, Request
  <2> QED BY <1>1, <2>1 DEF Told
<1> QED BY <1>1, <1>2, SameQueueLemma, InPlaceLemma

\* The entry in place i.
LEMMA PlaceLemma ==
  ASSUME SMQueueInv, NEW i \in DOMAIN queue
  PROVE  queue \in Seq(Entry) /\ queue[i] \in Entry /\ queue[i] \in Entries(queue)
<1>1. queue \in Seq(Entry)
  BY DEF SMQueueInv, Types, TypeOK
<1> QED BY <1>1, LenProperties, ElementOfSeq DEF Entries

\* The entry in place i becomes e.
LEMMA ChangedAtLemma ==
  ASSUME SMQueueInv, NEW i \in DOMAIN queue, NEW e \in Entry, Continues(e, queue[i])
  PROVE  /\ ReplaceAt(queue, i, e) \in Seq(Entry)
         /\ OnePlaceARow(ReplaceAt(queue, i, e))
         /\ Continued(Entries(ReplaceAt(queue, i, e)), Entries(queue))
<1> DEFINE q == ReplaceAt(queue, i, e)
<1>1. /\ q \in Seq(Entry) /\ DOMAIN q = DOMAIN queue
      /\ \A j \in DOMAIN queue : q[j] = IF j = i THEN e ELSE queue[j]
  BY PlaceLemma, LenProperties, ExceptSeq DEF ReplaceAt
<1> HIDE DEF q
<1>2. \A j \in DOMAIN queue : Continues(queue[j], queue[j])
  BY PlaceLemma, SelfLemma DEF SMQueueInv
<1>3. \A j \in DOMAIN queue : Continues(q[j], queue[j])
  BY <1>1, <1>2
<1>4. OnePlaceARow(q) /\ Continued(Entries(q), Entries(queue))
  BY <1>1, <1>3, PlacesLemma
<1> QED BY <1>1, <1>4 DEF q

LEMMA ResponseInPlaceStep ==
  ASSUME SMQueueInv, NEW d \in wire, NEW answer \in Answer, ResponseInPlace(d, answer)
  PROVE  SMQueueInv'
<1>1. PICK i \in First(queue, d.tag) :
        Loop(ReplaceAt(queue, i,
               IF answer = "later" THEN [queue[i] EXCEPT !.left = Acked]
               ELSE InState(queue[i], "REQUEST_DESTINATION_IMSI")))
  BY DEF ResponseInPlace
<1>2. wire' = wire \ {d} /\ UNCHANGED <<backup, linked, ghosts, events>>
  BY DEF ResponseInPlace
<1>3. i \in DOMAIN queue
  BY DEF First
<1> DEFINE f == [queue[i] EXCEPT !.left = Acked]
           g == InState(queue[i], "REQUEST_DESTINATION_IMSI")
           e == IF answer = "later" THEN f ELSE g
<1>4. queue[i] \in Entry /\ Continues(queue[i], queue[i])
  BY <1>3, PlaceLemma, SelfLemma DEF SMQueueInv
<1>5. f \in Entry /\ Continues(f, queue[i])
  <2>1. Acked \in -1..Long
    BY SMQueueAssumption
  <2>2. f \in Entry /\ f.row = queue[i].row /\ SameName(f, queue[i]) /\ f.state = queue[i].state
    BY <1>4, <2>1 DEF Entry, SameName
  <2> HIDE DEF f
  <2> QED BY <1>4, <2>2 DEF Continues, SameName
<1>6. g \in Entry /\ Continues(g, queue[i])
  <2>1. "REQUEST_DESTINATION_IMSI" \in SMState
    BY DEF SMState
  <2>2. /\ g \in Entry /\ g.row = queue[i].row /\ SameName(g, queue[i])
        /\ g.state = "REQUEST_DESTINATION_IMSI"
    BY <1>4, <2>1, InStateLemma
  <2> HIDE DEF g
  <2> QED BY <2>2 DEF Continues
<1>7. e \in Entry /\ Continues(e, queue[i])
  BY <1>5, <1>6
<1>8. Loop(ReplaceAt(queue, i, e))
  BY <1>1
<1> HIDE DEF e
<1>9. /\ queue' = ReplaceAt(queue, i, e)
      /\ pc' \in {"serve", "select"} /\ (pc' = "serve" => queue' # <<>>)
  BY <1>8, LoopLemma
<1>10. queue' \in Seq(Entry) /\ OnePlaceARow(queue)' /\ Continued(Entries(queue'), Entries(queue))
  BY <1>3, <1>7, <1>9, ChangedAtLemma
<1>11. over' = over /\ over \subseteq Message
  BY <1>2 DEF ghosts, SMQueueInv, Types, TypeOK
<1> QED BY <1>2, <1>9, <1>10, <1>11, InPlaceLemma DEF ghosts

LEMMA ResponseRefusedStep ==
  ASSUME SMQueueInv, NEW d \in wire, ResponseRefused(d)
  PROVE  SMQueueInv'
<1>1. PICK i \in First(queue, d.tag) :
       \/ \E n \in Notices(queue[i]) :
            /\ OriginateText(n, wire \ {d})
            /\ Loop(<<n>> \o ReplaceAt(queue, i, InState(queue[i], "DELETE_ME_STATE")))
            /\ over' = over \cup Lost(n)
       \/ /\ Notices(queue[i]) = {}
          /\ wire' = wire \ {d}
          /\ Loop(ReplaceAt(queue, i, InState(queue[i], "NO_STATE")))
          /\ UNCHANGED <<backup, over>>
  BY DEF ResponseRefused
<1>2. UNCHANGED <<linked, accepted, charged, copies, excused, events>>
  BY DEF ResponseRefused
<1>3. i \in DOMAIN queue
  BY DEF First
<1> DEFINE h == queue[i]
<1>4. h \in Entry /\ h \in Entries(queue) /\ queue \in Seq(Entry) /\ OnePlaceARow(queue)
  BY <1>3, PlaceLemma DEF SMQueueInv, RowNames
<1>5. TypeOK /\ IsFiniteSet(backup) /\ {"DELETE_ME_STATE", "NO_STATE"} \subseteq SMState
  BY DEF SMQueueInv, Types, SMState
<1>6. CASE \E n \in Notices(h) :
            /\ OriginateText(n, wire \ {d})
            /\ Loop(<<n>> \o ReplaceAt(queue, i, InState(h, "DELETE_ME_STATE")))
            /\ over' = over \cup Lost(n)
  <2> DEFINE e == InState(h, "DELETE_ME_STATE")
             p == ReplaceAt(queue, i, e)
  <2>1. PICK n \in Notices(h) :
            /\ OriginateText(n, wire \ {d})
            /\ Loop(<<n>> \o p)
            /\ over' = over \cup Lost(n)
    BY <1>6
  <2>2. /\ n \in Entry /\ n.kind = "bounce" /\ n.m = h.m
        /\ n.state \notin {"DELETE_ME_STATE", "NO_STATE"}
    BY <1>4, <1>5, NoticesLemma
  <2>3. e \in Entry /\ e.row = h.row /\ SameName(e, h) /\ e.state = "DELETE_ME_STATE"
    BY <1>4, <1>5, InStateLemma
  <2>4. Backs(n)
    BY <2>1, <2>2 DEF OriginateText, Backs, Forget, Unsavable
  <2> HIDE DEF e
  <2>5. /\ p \in Seq(Entry) /\ OnePlaceARow(p) /\ Rows(p) = Rows(queue)
        /\ Entries(p) = Others(queue, h.row) \cup {e}
    BY <1>3, <1>4, <2>3, ReplacedLemma
  <2> HIDE DEF p
  <2>6. n.row \notin Rows(p)
    BY <2>4, <2>5, RowsUsedLemma DEF Backs
  <2> DEFINE q == <<n>> \o p
  <2>7. q \in Seq(Entry) /\ OnePlaceARow(q) /\ Entries(q) = Entries(p) \cup {n}
    BY <2>2, <2>5, <2>6, FrontLemma
  <2>8. queue' = q /\ pc' \in {"serve", "select"} /\ (pc' = "serve" => queue' # <<>>)
    BY <2>1, LoopLemma
  <2> HIDE DEF q, h
  <2>9. OnePlaceARow(queue)' /\ Entries(queue') = Others(queue, h.row) \cup {e, n}
    BY <2>5, <2>7, <2>8
  <2>10. over \subseteq over' /\ over' \subseteq Message
    BY <1>4, <1>5, <2>1, <2>2 DEF Lost, TypeOK, Entry
  <2>11. Types'
    <3>1. backup' \subseteq Saved /\ IsFiniteSet(backup') /\ wire' \subseteq Request
      BY <1>5, <2>2, <2>4, BacksLemma
    <3> QED BY <1>2, <2>7, <2>8, <2>10, <3>1 DEF SMQueueInv, Types, TypeOK
  <2>12. (RowNames /\ NoNoticeOfError /\ Kept /\ Paid)'
    BY <1>2, <1>4, <2>2, <2>3, <2>4, <2>9, <2>10, OriginatedLemma DEF Backs
  <2> QED BY <2>11, <2>12 DEF SMQueueInv
<1>7. CASE /\ Notices(h) = {}
           /\ wire' = wire \ {d}
           /\ Loop(ReplaceAt(queue, i, InState(h, "NO_STATE")))
           /\ UNCHANGED <<backup, over>>
  <2> DEFINE e == InState(h, "NO_STATE")
  <2>1. h.kind = "bounce"
    BY <1>4, <1>5, <1>7, NoticesLemma
  <2>2. e \in Entry /\ e.row = h.row /\ SameName(e, h) /\ e.state = "NO_STATE"
    BY <1>4, <1>5, InStateLemma
  <2>3. /\ queue' = ReplaceAt(queue, i, e)
        /\ pc' \in {"serve", "select"} /\ (pc' = "serve" => queue' # <<>>)
    BY <1>7, LoopLemma
  <2> HIDE DEF e
  <2>4. Continues(e, h)
    BY <2>1, <2>2 DEF Continues, SameName
  <2>5. queue' \in Seq(Entry) /\ OnePlaceARow(queue)' /\ Continued(Entries(queue'), Entries(queue))
    BY <1>3, <2>2, <2>3, <2>4, ChangedAtLemma
  <2>6. over' = over /\ over \subseteq Message
    BY <1>5, <1>7 DEF TypeOK
  <2> QED BY <1>2, <1>7, <2>3, <2>5, <2>6, InPlaceLemma
<1> QED BY <1>1, <1>6, <1>7

\* handle_datagram() runs again the message whose REGISTER was answered, in its place.
LEMMA RerunLemma ==
  ASSUME SMQueueInv, NEW m \in Message
  PROVE  /\ Rerun(queue, m) \in Seq(Entry)
         /\ DOMAIN Rerun(queue, m) = DOMAIN queue
         /\ \A i \in DOMAIN queue : Continues(Rerun(queue, m)[i], queue[i])
<1> DEFINE q == Rerun(queue, m)
<1>0. queue \in Seq(Entry) /\ Len(queue) \in Nat /\ DOMAIN queue = 1..Len(queue)
  BY LenProperties DEF SMQueueInv, Types, TypeOK
<1>1. ASSUME NEW i \in DOMAIN queue
      PROVE  q[i] \in Entry /\ Continues(q[i], queue[i])
  <2>1. queue[i] \in Entry /\ Continues(queue[i], queue[i])
    BY PlaceLemma, SelfLemma DEF SMQueueInv
  <2> DEFINE e == InState(queue[i], "INITIAL_STATE")
  <2>2. "INITIAL_STATE" \in SMState
    BY DEF SMState
  <2>3. e \in Entry /\ e.row = queue[i].row /\ SameName(e, queue[i]) /\ e.state = "INITIAL_STATE"
    BY <2>1, <2>2, InStateLemma
  <2>4. q[i] = e \/ q[i] = queue[i]
    BY DEF Rerun
  <2> HIDE DEF e, q
  <2>5. Continues(e, queue[i])
    BY <2>3 DEF Continues
  <2> QED BY <2>1, <2>3, <2>4, <2>5
<1>2. q = [i \in DOMAIN queue |-> q[i]]
  BY DEF Rerun
<1> HIDE DEF q
<1>3. q \in Seq(Entry) /\ DOMAIN q = DOMAIN queue
  BY <1>0, <1>1, <1>2
<1> QED BY <1>1, <1>3 DEF q

\* An answer has the name of the entry that it is for.
LEMMA AnswerLemma ==
  ASSUME SMQueueInv, NEW d \in wire, NEW i \in First(queue, d.tag)
  PROVE  i \in DOMAIN queue /\ SameName(d, queue[i])
<1>1. i \in DOMAIN queue /\ qtag(queue[i]) = d.tag
  BY DEF First
<1>2. queue[i] \in Entry /\ queue[i] \in Entries(queue)
  BY <1>1, PlaceLemma
<1>3. CASE queue[i].kind = "sms"
  <2>1. d.tag = <<"sms", queue[i].m>> /\ queue[i].m \in Message
    BY <1>1, <1>2, <1>3 DEF qtag, Entry
  <2> QED BY <1>1, <1>3, <2>1 DEF SMQueueInv, RowNames, SameName
<1>4. CASE queue[i].kind # "sms"
  <2>1. d.tag = <<"own", queue[i].row>>
    BY <1>1, <1>4 DEF qtag
  <2> QED BY <1>1, <1>2, <2>1 DEF SMQueueInv, RowNames
<1> QED BY <1>3, <1>4

LEMMA ResponseOKStep ==
  ASSUME SMQueueInv, NEW d \in wire, ResponseOK(d)
  PROVE  SMQueueInv'
<1>1. PICK i \in First(queue, d.tag) :
       LET e == queue[i]
           q == IF e.kind = "REGISTER" THEN Rerun(queue, e.m) ELSE queue
       IN  /\ charged' = debited(e)
           /\ Loop(RemoveAt(q, i))
           /\ backup' = without(e.row)
  BY DEF ResponseOK
<1>2. /\ wire' = wire \ {d} /\ over' = over \cup Told(d)
      /\ UNCHANGED <<linked, accepted, copies, excused, events>>
  BY DEF ResponseOK
<1>3. i \in DOMAIN queue /\ SameName(d, queue[i])
  BY AnswerLemma
<1>4. TypeOK /\ IsFiniteSet(backup)
  BY DEF SMQueueInv, Types
<1> DEFINE h == queue[i]
           q == IF h.kind = "REGISTER" THEN Rerun(queue, h.m) ELSE queue
<1>5. h \in Entry /\ h \in Entries(queue) /\ h.m \in Message /\ queue \in Seq(Entry)
  BY <1>3, PlaceLemma DEF Entry
<1>6. /\ q \in Seq(Entry) /\ DOMAIN q = DOMAIN queue
      /\ \A j \in DOMAIN queue : Continues(q[j], queue[j])
  <2>1. \A j \in DOMAIN queue : Continues(queue[j], queue[j])
    BY PlaceLemma, SelfLemma DEF SMQueueInv
  <2>2. CASE h.kind = "REGISTER"
    BY <1>5, <2>2, RerunLemma
  <2>3. CASE h.kind # "REGISTER"
    BY <1>5, <2>1, <2>3
  <2> QED BY <2>2, <2>3
<1>7. charged' = debited(h) /\ Loop(RemoveAt(q, i)) /\ backup' = without(h.row)
  BY <1>1
<1> HIDE DEF q
<1>8. OnePlaceARow(q) /\ Continued(Entries(q), Entries(queue))
  BY <1>6, PlacesLemma
<1> DEFINE s == RemoveAt(q, i)
<1>9. s \in Seq(Entry) /\ OnePlaceARow(s) /\ Entries(s) = Others(q, h.row)
  <2>1. q[i].row = h.row
    BY <1>3, <1>6 DEF Continues
  <2> QED BY <1>3, <1>6, <1>8, <2>1, RemovedLemma
<1>10. queue' = s /\ pc' \in {"serve", "select"} /\ (pc' = "serve" => queue' # <<>>)
  BY <1>7, LoopLemma
<1> HIDE DEF s, h
<1>11. Continued(Entries(queue'), Others(queue, h.row))
  <2>1. Entries(queue') = Others(q, h.row)
    BY <1>9, <1>10
  <2>2. ASSUME NEW x \in Others(q, h.row) PROVE \E y \in Others(queue, h.row) : Continues(x, y)
    BY <1>8 DEF Continued, Continues, Others
  <2>3. ASSUME NEW y \in Others(queue, h.row) PROVE \E x \in Others(q, h.row) : Continues(x, y)
    BY <1>8 DEF Continued, Continues, Others
  <2> QED BY <2>1, <2>2, <2>3 DEF Continued
<1>12. h.kind = "REGISTER" \/ h.m \in over'
  BY <1>2, <1>3 DEF Told, SameName, h
<1>13. over \subseteq over' /\ over' \subseteq Message
  BY <1>2, <1>4 DEF Told, TypeOK, Request
<1>14. charged' = charged \/ (h.kind = "sms" /\ charged' = [charged EXCEPT ![h.m] = @ + 1])
  BY <1>7 DEF debited, Costs
<1>15. Types'
  <2>1. backup' \subseteq backup
    BY <1>7 DEF without
  <2>2. IsFiniteSet(backup')
    BY <1>4, <2>1, FS_Subset
  <2>3. charged' \in [Message -> Nat]
    <3>1. charged \in [Message -> Nat]
      BY <1>4 DEF TypeOK
    <3>2. CASE charged' = [charged EXCEPT ![h.m] = @ + 1]
      BY <1>5, <3>1, <3>2
    <3> QED BY <1>14, <3>1, <3>2
  <2> QED BY <1>2, <1>4, <1>9, <1>10, <1>13, <2>1, <2>2, <2>3 DEF SMQueueInv, Types, TypeOK
<1>16. (RowNames /\ NoNoticeOfError /\ Kept /\ Paid)'
  <2>1. OnePlaceARow(queue)'
    BY <1>9, <1>10
  <2>2. wire' \subseteq wire /\ h \in Entries(queue)
    BY <1>2, <1>5 DEF h
  <2> QED BY <1>2, <1>7, <1>11, <1>12, <1>13, <1>14, <2>1, <2>2, GoneLemma
<1> QED BY <1>15, <1>16 DEF SMQueueInv

LEMMA SubmitStep ==
  ASSUME SMQueueInv, NEW m \in Message, Submit(m)
  PROVE  SMQueueInv'
<1> DEFINE n == NewEntry(NewRow, "sms", m, "SMSC", "INITIAL_STATE")
           q == <<n>> \o queue
<1>0. /\ TypeOK /\ IsFiniteSet(backup) /\ queue \in Seq(Entry) /\ OnePlaceARow(queue)
      /\ \A k \in Message : copies[k] <= events /\ excused[k] <= events
  BY DEF SMQueueInv, Types, TypeOK, RowNames
<1>1. /\ n \in Entry /\ n.kind = "sms" /\ n.m = m /\ n.state = "INITIAL_STATE"
  <2>1. "sms" \in Kind /\ "SMSC" \in Dest /\ "INITIAL_STATE" \in SMState
    BY DEF Kind, Dest, SMState
  <2> QED BY <1>0, <2>1, NewRowLemma, NewEntryLemma
<1>2. /\ events < MaxEvents /\ events' = events + 1
      /\ IF m \in Plain THEN OriginateText(n, wire) ELSE Originate(n, wire)
      /\ Loop(q)
      /\ accepted' = accepted \cup {m}
      /\ copies' = [copies EXCEPT ![m] = @ + 1]
      /\ UNCHANGED <<linked, over, charged, excused>>
  BY DEF Submit
<1> HIDE DEF n
<1>3. /\ n.row \notin RowsUsed /\ wire' = Forget(wire, n.row)
      /\ \/ backup' = backup \cup {RowOf(n)}
         \/ Unsavable(n) /\ backup' = backup
  BY <1>1, <1>2 DEF Originate, OriginateText, Unsavable
<1>4. /\ q \in Seq(Entry) /\ OnePlaceARow(q) /\ Entries(q) = Entries(queue) \cup {n}
  BY <1>0, <1>1, <1>3, RowsUsedLemma, FrontLemma
<1>5. queue' = q /\ pc' \in {"serve", "select"} /\ (pc' = "serve" => queue' # <<>>)
  BY <1>2, LoopLemma
<1> HIDE DEF q
<1>6. Types'
  <2>1. backup' \subseteq Saved /\ IsFiniteSet(backup')
    <3>1. backup \cup {RowOf(n)} \subseteq Saved /\ IsFiniteSet(backup \cup {RowOf(n)})
      BY <1>0, <1>1, RowOfLemma, FS_AddElement DEF TypeOK
    <3> QED BY <1>0, <1>3, <3>1 DEF TypeOK
  <2>2. wire' \subseteq Request
    BY <1>0, <1>3 DEF Forget, TypeOK
  <2>3. events' \in 0..MaxEvents /\ events \in Nat
    BY <1>0, <1>2, SMQueueAssumption DEF TypeOK
  <2>4. \A k \in Message : copies[k] \in 0..MaxEvents /\ excused[k] \in 0..MaxEvents
    BY <1>0 DEF TypeOK
  <2>5. \A k \in Message : copies'[k] = IF k = m THEN copies[k] + 1 ELSE copies[k]
    BY <1>0, <1>2 DEF TypeOK
  <2>6. \A k \in Message : copies'[k] \in 0..MaxEvents /\ copies'[k] <= events'
    <3> SUFFICES ASSUME NEW k \in Message
                 PROVE  copies'[k] \in 0..MaxEvents /\ copies'[k] <= events'
      OBVIOUS
    <3>1. copies[k] \in Nat /\ copies[k] <= events /\ events < MaxEvents /\ events' = events + 1
      BY <1>0, <1>2, <2>4
    <3>2. copies'[k] = copies[k] + 1 \/ copies'[k] = copies[k]
      BY <2>5
    <3>3. MaxEvents \in Nat
      BY SMQueueAssumption
    <3> QED BY <2>3, <3>1, <3>2, <3>3
  <2>7. copies' \in [Message -> 0..MaxEvents]
    <3>1. copies' = [k \in Message |-> copies'[k]]
      BY <1>0, <1>2 DEF TypeOK
    <3> QED BY <2>6, <3>1
  <2>8. \A k \in Message : excused'[k] <= events'
    BY <1>0, <1>2, <2>3, <2>4
  <2> QED BY <1>0, <1>2, <1>4, <1>5, <2>1, <2>2, <2>3, <2>6, <2>7, <2>8 DEF Types, TypeOK
<1>7. (RowNames /\ NoNoticeOfError /\ Kept /\ Paid)'
  <2>1. OnePlaceARow(queue)' /\ Entries(queue') = Entries(queue) \cup {n}
    BY <1>4, <1>5
  <2> QED BY <1>1, <1>2, <1>3, <2>1, SubmittedLemma
<1> QED BY <1>6, <1>7 DEF SMQueueInv

\* The process dies: what is only in the queue is lost.
LEMMA DiesLemma ==
  ASSUME SMQueueInv, Dies, backup' = backup, wire' \subseteq wire,
         over \cup Unsaved \subseteq over', over' \subseteq Message,
         charged' \in [Message -> Nat], excused' \in [Message -> Nat],
         \A m \in Message : \/ charged'[m] = charged[m] /\ excused'[m] = excused[m]
                            \/ charged'[m] = charged[m] + 1 /\ excused'[m] = excused[m] + 1,
         UNCHANGED <<linked, accepted, copies>>
  PROVE  SMQueueInv'
<1>1. events < MaxEvents /\ events' = events + 1 /\ pc' = "down" /\ queue' = <<>>
  BY DEF Dies
<1>2. Entries(queue') = {} /\ OnePlaceARow(queue)'
  BY <1>1 DEF Entries, OnePlaceARow
<1>3. /\ TypeOK /\ events \in Nat /\ MaxEvents \in Nat
      /\ charged \in [Message -> Nat] /\ copies \in [Message -> 0..MaxEvents]
      /\ excused \in [Message -> 0..MaxEvents]
      /\ \A m \in Message : copies[m] <= events /\ excused[m] <= events
  BY SMQueueAssumption DEF SMQueueInv, Types, TypeOK
<1>4. Types'
  <2>1. \A m \in Message : excused'[m] \in 0..MaxEvents /\ excused'[m] <= events'
    <3> SUFFICES ASSUME NEW m \in Message
                 PROVE  excused'[m] \in 0..MaxEvents /\ excused'[m] <= events'
      OBVIOUS
    <3>1. excused[m] \in Nat /\ excused[m] <= events
      BY <1>3
    <3>2. excused'[m] = excused[m] \/ excused'[m] = excused[m] + 1
      OBVIOUS
    <3> QED BY <1>1, <1>3, <3>1, <3>2
  <2>2. \A m \in Message : copies'[m] <= events'
    <3> SUFFICES ASSUME NEW m \in Message PROVE copies'[m] <= events'
      OBVIOUS
    <3>1. copies[m] \in Nat /\ copies[m] <= events /\ copies'[m] = copies[m]
      BY <1>3
    <3> QED BY <1>1, <1>3, <3>1
  <2>3. excused' \in [Message -> 0..MaxEvents] /\ events' \in 0..MaxEvents
    BY <1>1, <1>3, <2>1
  <2>4. queue' \in Seq(Entry)
    BY <1>1
  <2>5. /\ backup' \subseteq Saved /\ wire' \subseteq Request /\ linked' \subseteq Message
        /\ accepted' \subseteq Message /\ copies' \in [Message -> 0..MaxEvents]
        /\ IsFiniteSet(backup')
    BY DEF SMQueueInv, Types, TypeOK
  <2> QED BY <1>1, <2>1, <2>2, <2>3, <2>4, <2>5 DEF Types, TypeOK
<1>5. RowNames'
  BY <1>2 DEF SMQueueInv, RowNames
<1>6. NoNoticeOfError'
  BY <1>2 DEF NoNoticeOfError
<1>7. Kept'
  <2> SUFFICES ASSUME NEW m \in accepted, m \notin over' PROVE HasRow(m)'
    BY DEF Kept
  <2>1. CASE HasRow(m)
    BY <1>2, <2>1 DEF HasRow
  <2>2. CASE HasEntry(m)
    <3>1. PICK i \in DOMAIN queue : queue[i].m = m /\ Unsavable(queue[i])
      BY <2>2 DEF HasEntry, Entries
    <3>2. m \in Message /\ m \notin Unsaved
      BY <1>3 DEF TypeOK
    <3>3. \E b \in backup : b.m = m /\ b.kind # "REGISTER"
      BY <3>1, <3>2 DEF Unsaved
    <3> QED BY <1>2, <3>3 DEF HasRow
  <2> QED BY <2>1, <2>2 DEF SMQueueInv, Kept
<1>8. Paid'
  <2>1. ASSUME NEW m \in Message
        PROVE  charged'[m] + Cardinality(Owed(m)') <= copies'[m] + excused'[m]
    <3>1. Owed(m)' \subseteq Owed(m) /\ IsFiniteSet(Owed(m))
      BY <1>2, OwedLemma DEF Owed
    <3>2. /\ Cardinality(Owed(m)') <= Cardinality(Owed(m))
          /\ Cardinality(Owed(m)') \in Nat /\ Cardinality(Owed(m)) \in Nat
      BY <3>1, FS_Subset, FS_CardinalityType
    <3>3. charged[m] + Cardinality(Owed(m)) <= copies[m] + excused[m] /\ copies'[m] = copies[m]
      BY DEF SMQueueInv, Paid
    <3>4. charged[m] \in Nat /\ copies[m] \in Nat /\ excused[m] \in Nat
      BY <1>3
    <3>5. \/ charged'[m] = charged[m] /\ excused'[m] = excused[m]
          \/ charged'[m] = charged[m] + 1 /\ excused'[m] = excused[m] + 1
      OBVIOUS
    <3> QED BY <3>1, <3>2, <3>3, <3>4, <3>5
  <2> QED BY <2>1 DEF Paid
<1> QED BY <1>4, <1>5, <1>6, <1>7, <1>8 DEF SMQueueInv

LEMMA CrashStep ==
  ASSUME SMQueueInv, Crash
  PROVE  SMQueueInv'
<1>1. /\ Dies /\ over' = over \cup Unsaved
      /\ UNCHANGED <<backup, wire, linked, accepted, charged, copies, excused>>
  BY DEF Crash
<1>2. over' \subseteq Message
  BY <1>1 DEF Unsaved, SMQueueInv, Types, TypeOK
<1>3. charged' \in [Message -> Nat] /\ excused' \in [Message -> Nat]
  BY <1>1 DEF SMQueueInv, Types, TypeOK
<1> QED BY <1>1, <1>2, <1>3, DiesLemma

LEMMA CrashAfterDebitStep ==
  ASSUME SMQueueInv, NEW d \in wire, CrashAfterDebit(d)
  PROVE  SMQueueInv'
<1>1. PICK i \in First(queue, d.tag) :
        /\ Costs(queue[i])
        /\ charged' = debited(queue[i])
        /\ excused' = [excused EXCEPT ![queue[i].m] = @ + 1]
  BY DEF CrashAfterDebit
<1>2. /\ Dies /\ over' = over \cup Unsaved \cup Told(d)
      /\ wire' = wire \ {d}
      /\ UNCHANGED <<backup, linked, accepted, copies>>
  BY DEF CrashAfterDebit
<1> DEFINE k == queue[i].m
<1>3. k \in Message
  BY AnswerLemma, PlaceLemma DEF Entry
<1>4. charged' = [charged EXCEPT ![k] = @ + 1] /\ excused' = [excused EXCEPT ![k] = @ + 1]
  BY <1>1 DEF debited
<1>5. charged \in [Message -> Nat] /\ excused \in [Message -> Nat]
  BY DEF SMQueueInv, Types, TypeOK
<1> HIDE DEF k
<1>6. charged' \in [Message -> Nat] /\ excused' \in [Message -> Nat]
  BY <1>3, <1>4, <1>5
<1>7. \A m \in Message : \/ charged'[m] = charged[m] /\ excused'[m] = excused[m]
                         \/ charged'[m] = charged[m] + 1 /\ excused'[m] = excused[m] + 1
  BY <1>3, <1>4, <1>5
<1>8. over' \subseteq Message
  <2>1. d.m \in Message /\ over \subseteq Message
    BY DEF SMQueueInv, Types, TypeOK, Request
  <2> QED BY <1>2, <2>1 DEF Told, Unsaved
<1> QED BY <1>2, <1>6, <1>7, <1>8, DiesLemma

\* The rows that are left are entries again, each once, in any order.
LEMMA RestartStep ==
  ASSUME SMQueueInv, Restart
  PROVE  SMQueueInv'
<1>0. queue = <<>> /\ pc' = "select" /\ TypeOK /\ IsFiniteSet(backup)
  BY DEF Restart, SMQueueInv, Types
<1>1. PICK old \in SUBSET backup :
       /\ backup' = backup \ old
       /\ over' = over \cup {b.m : b \in {r \in old : r.kind # "REGISTER"}}
       /\ \E s \in SetToSeqs(backup \ old) :
            queue' = [i \in DOMAIN s |->
                        NewEntry(s[i].row, s[i].kind, s[i].m, s[i].dest, "INITIAL_STATE")]
  BY DEF Restart
<1>2. UNCHANGED <<wire, linked, accepted, charged, copies, excused, events>>
  BY DEF Restart
<1>3. backup' \subseteq backup /\ IsFiniteSet(backup') /\ backup' \subseteq Saved
  BY <1>0, <1>1, FS_Subset DEF TypeOK
<1>4. PICK s \in SetToSeqs(backup') :
        queue' = [i \in DOMAIN s |->
                    NewEntry(s[i].row, s[i].kind, s[i].m, s[i].dest, "INITIAL_STATE")]
  BY <1>1
<1> DEFINE N == Cardinality(backup')
<1>5. N \in Nat
  BY <1>3, FS_CardinalityType
<1> HIDE DEF N
<1>6. s \in [1..N -> backup'] /\ \A i, j \in 1..N : s[i] = s[j] => i = j
  BY DEF SetToSeqs, N
<1>7. ASSUME NEW i \in 1..N
      PROVE  /\ queue'[i] \in Entry /\ queue'[i].row = s[i].row
             /\ SameName(queue'[i], s[i]) /\ queue'[i].state = "INITIAL_STATE"
  <2>1. /\ s[i].row \in Row /\ s[i].kind \in Kind /\ s[i].m \in Message /\ s[i].dest \in Dest
        /\ "INITIAL_STATE" \in SMState
    BY <1>3, <1>6 DEF Saved, SMState
  <2> DEFINE e == NewEntry(s[i].row, s[i].kind, s[i].m, s[i].dest, "INITIAL_STATE")
  <2>2. e \in Entry /\ e.row = s[i].row /\ e.kind = s[i].kind /\ e.m = s[i].m
        /\ e.state = "INITIAL_STATE"
    BY <2>1, NewEntryLemma
  <2>3. queue'[i] = e
    BY <1>4, <1>6
  <2> HIDE DEF e
  <2> QED BY <2>2, <2>3 DEF SameName
<1>8. DOMAIN queue' = 1..N /\ queue' = [i \in 1..N |-> queue'[i]]
  BY <1>4, <1>6
<1>9. queue' \in Seq(Entry)
  BY <1>5, <1>7, <1>8
<1>10. ASSUME NEW x \in Entries(queue')
       PROVE  \E b \in backup' : x.row = b.row /\ SameName(x, b) /\ x.state = "INITIAL_STATE"
  BY <1>6, <1>7, <1>8 DEF Entries
<1>11. over \subseteq over' /\ over' \subseteq Message
  <2>1. \A b \in backup : b.m \in Message
    BY <1>0 DEF TypeOK, Saved
  <2> QED BY <1>0, <1>1, <2>1 DEF TypeOK
<1>12. Types'
  BY <1>0, <1>2, <1>3, <1>9, <1>11 DEF SMQueueInv, Types, TypeOK
<1>13. OnePlaceARow(queue)'
  <2> SUFFICES ASSUME NEW i \in 1..N, NEW j \in 1..N, queue'[i].row = queue'[j].row
               PROVE  i = j
    BY <1>8 DEF OnePlaceARow
  <2>1. s[i].row = s[j].row /\ s[i] \in backup /\ s[j] \in backup
    BY <1>3, <1>6, <1>7
  <2>2. s[i] = s[j]
    BY <2>1 DEF SMQueueInv, RowNames
  <2> QED BY <1>6, <2>2
<1>14. RowNames'
  <2>1. ASSUME NEW x \in Entries(queue'), NEW b \in backup', x.row = b.row
        PROVE  SameName(x, b)
    BY <1>3, <1>10, <2>1 DEF SMQueueInv, RowNames
  <2>2. ASSUME NEW d \in wire, NEW x \in Entries(queue'), d.tag = <<"own", x.row>>
        PROVE  SameName(d, x)
    <3>1. PICK b \in backup' : x.row = b.row /\ SameName(x, b)
      BY <1>10
    <3>2. SameName(d, b)
      BY <1>3, <2>2, <3>1 DEF SMQueueInv, RowNames
    <3> QED BY <3>1, <3>2 DEF SameName
  <2> QED BY <1>2, <1>3, <1>13, <2>1, <2>2 DEF SMQueueInv, RowNames
<1>15. NoNoticeOfError'
  BY <1>10 DEF NoNoticeOfError
<1>16. Kept'
  <2> SUFFICES ASSUME NEW m \in accepted, m \notin over' PROVE HasRow(m)'
    BY <1>2 DEF Kept
  <2>1. HasRow(m)
    BY <1>0, <1>11 DEF SMQueueInv, Kept, HasEntry, Entries
  <2>2. PICK b \in backup : b.m = m /\ b.kind # "REGISTER"
    BY <2>1 DEF HasRow
  <2>3. b \in backup'
    BY <1>1, <2>2
  <2>4. \A x \in Entries(queue') : x.state # "DELETE_ME_STATE"
    BY <1>10
  <2> QED BY <2>2, <2>3, <2>4 DEF HasRow
<1>17. Paid'
  <2>1. ASSUME NEW m \in Message
        PROVE  charged'[m] + Cardinality(Owed(m)') <= copies'[m] + excused'[m]
    <3>1. Owed(m)' \subseteq Owed(m) /\ IsFiniteSet(Owed(m))
      BY <1>3, <1>10, OwedLemma DEF Owed, Copy, SameName
    <3>2. Cardinality(Owed(m)') <= Cardinality(Owed(m)) /\ IsFiniteSet(Owed(m)')
      BY <3>1, FS_Subset
    <3>3. Cardinality(Owed(m)') \in Nat /\ Cardinality(Owed(m)) \in Nat
      BY <3>1, <3>2, FS_CardinalityType
    <3>4. /\ charged[m] + Cardinality(Owed(m)) <= copies[m] + excused[m]
          /\ charged[m] \in Nat /\ copies[m] \in Nat /\ excused[m] \in Nat
      BY DEF SMQueueInv, Types, TypeOK, Paid
    <3> QED BY <1>2, <3>2, <3>3, <3>4
  <2> QED BY <2>1 DEF Paid
<1> QED BY <1>12, <1>14, <1>15, <1>16, <1>17 DEF SMQueueInv

-----------------------------------------------------------------------------
(* The theorems                                                            *)

LEMMA InitInv == Init => SMQueueInv
<1> SUFFICES ASSUME Init PROVE SMQueueInv
  OBVIOUS
<1>1. Entries(queue) = {} /\ backup = {} /\ wire = {} /\ accepted = {}
  BY DEF Init, Entries
<1>2. /\ charged \in [Message -> Nat] /\ copies \in [Message -> 0..MaxEvents]
      /\ excused \in [Message -> 0..MaxEvents]
      /\ \A m \in Message : charged[m] = 0 /\ copies[m] = 0 /\ excused[m] = 0
  BY SMQueueAssumption DEF Init
<1>3. Types
  <2>1. IsFiniteSet(backup)
    BY <1>1, FS_EmptySet
  <2>2. queue \in Seq(Entry) /\ events \in 0..MaxEvents /\ events = 0
    BY SMQueueAssumption DEF Init
  <2> QED BY <1>2, <2>1, <2>2 DEF Init, Types, TypeOK
<1>4. RowNames
  BY <1>1 DEF Init, RowNames, OnePlaceARow
<1>5. Kept /\ NoNoticeOfError
  BY <1>1 DEF Kept, NoNoticeOfError
<1>6. Paid
  <2>1. \A m \in Message : Owed(m) = {}
    BY <1>1 DEF Owed
  <2>2. \A m \in Message : Cardinality(Owed(m)) = 0
    BY <2>1, FS_EmptySet
  <2> QED BY <1>2, <2>2 DEF Paid
<1> QED BY <1>3, <1>4, <1>5, <1>6 DEF SMQueueInv

LEMMA NextInv == SMQueueInv /\ [Next]_vars => SMQueueInv'
<1> SUFFICES ASSUME SMQueueInv, [Next]_vars PROVE SMQueueInv'
  OBVIOUS
<1>1. ASSUME NEW m \in Message, Submit(m) PROVE SMQueueInv'
  BY <1>1, SubmitStep
<1>2. ASSUME NEW d \in wire, ReceiveResponse(d) PROVE SMQueueInv'
  <2>1. ASSUME NEW answer \in Answer, ResponseUnknown(d, answer) PROVE SMQueueInv'
    BY <2>1, ResponseUnknownStep
  <2>2. ASSUME NEW answer \in Answer, ResponseInPlace(d, answer) PROVE SMQueueInv'
    BY <2>2, ResponseInPlaceStep
  <2>3. CASE ResponseOK(d)
    BY <2>3, ResponseOKStep
  <2>4. CASE ResponseRefused(d)
    BY <2>4, ResponseRefusedStep
  <2> QED BY <1>2, <2>1, <2>2, <2>3, <2>4 DEF ReceiveResponse
<1>3. ASSUME NEW d \in wire, CrashAfterDebit(d) PROVE SMQueueInv'
  BY <1>3, CrashAfterDebitStep
<1>4. CASE Serve
  BY <1>4, ServeMoves, ServeReplies, ServeRegisters, ServeBounceStep, ServeDeliveryStep,
     ServeDeleteStep DEF Serve
<1>5. CASE Wake
  BY <1>5, WakeStep
<1>6. CASE Tick
  BY <1>6, TickStep
<1>7. CASE Crash
  BY <1>7, CrashStep
<1>8. CASE Restart
  BY <1>8, RestartStep
<1>9. CASE UNCHANGED vars
  <2>1. UNCHANGED <<pc, queue, backup, wire, linked, accepted, over, charged, copies, excused, events>>
    BY <1>9 DEF vars
  <2>2. Types'
    BY <2>1 DEF SMQueueInv, Types, TypeOK
  <2>3. (RowNames /\ NoNoticeOfError /\ Kept /\ Paid)'
    BY <2>1 DEF SMQueueInv, RowNames, NoNoticeOfError, Kept, HasRow, HasEntry, Unsavable, Paid, Owed
  <2> QED BY <2>2, <2>3 DEF SMQueueInv
<1> QED BY <1>1, <1>2, <1>3, <1>4, <1>5, <1>6, <1>7, <1>8, <1>9 DEF Next

\* The types, the agreement of queue, backup and answers on what a row names, and the ledger of
\* kept and paid messages hold in every state: smqueue.cpp, smcommands.cpp and diskbackup.cpp
\* together, whatever the times, and however many messages, rows and crashes there are.
THEOREM SMQueueInvariant == Spec => []SMQueueInv
<1>1. Init => SMQueueInv
  BY InitInv
<1>2. SMQueueInv /\ [Next]_vars => SMQueueInv'
  BY NextInv
<1> QED BY <1>1, <1>2, PTL DEF Spec

\* The queue has entries of the types of short_msg_pending, and the bounds are kept.
THEOREM TypeCorrect == Spec => []TypeOK
<1>1. SMQueueInv => TypeOK
  BY DEF SMQueueInv, Types
<1> QED BY <1>1, SMQueueInvariant, PTL

\* What was answered 202 is kept until somebody is told its end: SQLiteBackup::insert() is called
\* before the answer is sent, and SQLiteBackup::remove() after what takes the place of the entry
\* has a row of its own.  What insert() could not save, for a double quote in its text, and
\* was answered 202 all the same, is kept in the queue, as long as the process lives.
THEOREM NothingAcceptedIsLost == Spec => []AcceptedIsKept
<1>1. SMQueueInv => AcceptedIsKept
  BY DEF SMQueueInv, Kept, HasRow, HasEntry, AcceptedIsKept, Entries
<1> QED BY <1>1, SMQueueInvariant, PTL

\* debit_account() is called once at most for each row of a message, and the row is gone with the
\* debit, unless the process dies between them.
THEOREM NobodyPaysTwice == Spec => []FairCharge
<1>1. SMQueueInv => FairCharge
  <2> SUFFICES ASSUME SMQueueInv, NEW m \in Message
               PROVE  charged[m] <= copies[m] + excused[m]
    BY DEF FairCharge
  <2>1. charged[m] + Cardinality(Owed(m)) <= copies[m] + excused[m]
    BY DEF SMQueueInv, Paid
  <2>2. Cardinality(Owed(m)) \in Nat
    BY OwedLemma
  <2>3. charged[m] \in Nat /\ copies[m] \in Nat /\ excused[m] \in Nat
    BY DEF SMQueueInv, Types, TypeOK
  <2> QED BY <2>1, <2>2, <2>3
<1> QED BY <1>1, SMQueueInvariant, PTL
=============================================================================
