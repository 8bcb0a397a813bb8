---------------------------- MODULE MCDedupeFold ----------------------------
(* Groups of up to MaxLen of five calls: two keys twice each, and no key. *)
EXTENDS DedupeFold, TLC

CONSTANTS c1, c2, c3, c4, c5, k1, k2

MCKeyOf == (c1 :> k1) @@ (c2 :> k1) @@ (c3 :> k2) @@ (c4 :> k2) @@ (c5 :> None)

(* A value just expired, one that expires at this very millisecond, a live one. *)
MCStored == {[exp |-> e, id |-> "old"] : e \in 0..2}
=============================================================================
