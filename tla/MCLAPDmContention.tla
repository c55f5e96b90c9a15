------------------------- MODULE MCLAPDmContention -------------------------
(* Three handsets; the checksums of two of them are equal. *)
EXTENDS LAPDmContention

CONSTANTS p1, p2, p3

MCPhone == {p1, p2, p3}

MCSegment == {"id1", "id2", "id3"}

MCSum == [d \in MCSegment |-> IF d = "id2" THEN 7 ELSE 4]

MCIdentity == [p \in MCPhone |-> CASE p = p1 -> "id1" [] p = p2 -> "id2" [] OTHER -> "id3"]
============================================================================
