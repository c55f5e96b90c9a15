-------------------------- MODULE DataLinkService --------------------------
(***************************************************************************)
(* What a data link promises the layer 3 of its two ends, as the           *)
(* primitives of L2DL (GSM/GSML2LAPDm.h) and readHighSide() show it:       *)
(* each end is told that the link is up or down; DATA arrives only while   *)
(* it is up; and between two starts of the link, an end receives an        *)
(* unbroken run of the messages the other end has offered in this session, *)
(* each once, in the order in which they were offered.                     *)
(***************************************************************************)
EXTENDS Naturals, Sequences

CONSTANTS
  End,      \* the two ends
  Message   \* Message[e]: the messages e has to send, in order

VARIABLES
  up,       \* up[e]: the last thing e was told is that the link is up
  offered,  \* offered[e]: how many of its messages e has handed over
  base,     \* base[e]: offered[e] when the session started
  got       \* got[e]: what e has received since the link last started

vars == <<up, offered, base, got>>

Init ==
  /\ up = [e \in End |-> FALSE]
  /\ offered = [e \in End |-> 0]
  /\ base = [e \in End |-> 0]
  /\ got = [e \in End |-> <<>>]

Offer(e) ==
  /\ offered[e] < Len(Message[e])
  /\ offered' = [offered EXCEPT ![e] = @ + 1]
  /\ UNCHANGED <<up, base, got>>

\* The link of e goes down, comes up, or starts again, on its own or because e offers a
\* message that it cannot carry.
Start(e) ==
  /\ \E b \in BOOLEAN : up' = [up EXCEPT ![e] = b]
  /\ got' = [got EXCEPT ![e] = <<>>]
  /\ \/ UNCHANGED offered
     \/ offered[e] < Len(Message[e]) /\ offered' = [offered EXCEPT ![e] = @ + 1]
  /\ UNCHANGED base

\* A run of n messages of p, the first of them after message number i.
IsRun(p, i, run) ==
  /\ i + Len(run) <= offered[p]
  /\ run = SubSeq(Message[p], i + 1, i + Len(run))

Deliver(e) ==
  /\ up[e]
  /\ \E p \in End \ {e} : \E n \in base[p] + 1 .. offered[p] :
       LET run == Append(got[e], Message[p][n])
       IN  /\ got' = [got EXCEPT ![e] = run]
           /\ \E i \in base[p] .. offered[p] : IsRun(p, i, run)
  /\ UNCHANGED <<up, offered, base>>

\* Both ends start anew, the link serving another phone.
Reopen ==
  /\ up' = [e \in End |-> FALSE]
  /\ got' = [e \in End |-> <<>>]
  /\ base' = offered
  /\ UNCHANGED offered

Next == Reopen \/ \E e \in End : Offer(e) \/ Start(e) \/ Deliver(e)

Spec == Init /\ [][Next]_vars
============================================================================
