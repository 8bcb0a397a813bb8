------------------------------ MODULE MCQueue ------------------------------
(* Instances of Queue for TLC: who calls, with which dedupe key. *)
EXTENDS QueueInv

CONSTANTS r1, r2, p1, x1, k1

(* Every keyed call carries the same key: the retries of one provider event. *)
OneKey == [c \in Calls |-> k1]

(* r2 carries no key. *)
OneFree == [c \in Calls |-> IF c = r2 THEN None ELSE k1]

(* No queued call's prefetch was read in the very millisecond the window of     *)
(* recent keys now starts at: merge_prefetch/2 trusts such a read whichever     *)
(* side of the window's last write it fell on.                                  *)
NoTie ==
    recent'.since # recent.since \/ (gate /\ ~gate') =>
        \A r \in Queued : pre[r].at # recent'.since
=============================================================================
