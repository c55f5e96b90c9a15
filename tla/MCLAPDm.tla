------------------------------ MODULE MCLAPDm ------------------------------
(* The layer 3 traffic of each run: messages in one segment or two, and requests. *)
EXTENDS LAPDm

MCSegment == {"b1", "b2", "b3", "m1"}

MCSum == [d \in MCSegment |-> 0]

MCMessage == [BTS |-> <<<<"b1", "b2">>, <<"b3">>>>, MS |-> <<<<"m1">>>>]

MCTwoMessages == [BTS |-> <<<<"b1", "b2">>>>, MS |-> <<<<"m1">>>>]

MCNetworkMessage == [BTS |-> <<<<"b1">>>>, MS |-> <<>>]

MCOneEach == [BTS |-> 1, MS |-> 1]
============================================================================
