--------------------------- MODULE MCEdgeBatcher ---------------------------
(* Instances of EdgeBatcher for TLC. *)
EXTENDS EdgeBatcher

CONSTANTS a, b, c

Sizes == [r \in Recs |-> IF r = a THEN 2 ELSE 1]
Waits == [r \in Recs |-> IF r = b THEN 1 ELSE 3]
=============================================================================
