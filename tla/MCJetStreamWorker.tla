------------------------- MODULE MCJetStreamWorker -------------------------
(* Instances of JetStreamWorker for TLC. *)
EXTENDS JetStreamWorker

CONSTANTS fat, again, swapped, torn, r1

Fields ==
    [json |-> "object", ill |-> {}, v |-> 1, id |-> "h1", source_id |-> "stripe", tenant_id |-> "acme",
     size |-> 1, dedupe_key |-> Null, replay_id |-> Null, idempotency_key |-> <<>>,
     verification |-> NoVerification, sha |-> Sha256(<<1>>), body |-> NoBody, claim |-> NoRef]

Inlined(id, event) == [Fields EXCEPT !.id = id, !.body = Base64(<<1>>), !.dedupe_key = event]
ByRef(id, event)   == [Fields EXCEPT !.id = id, !.claim = [form |-> "v1", tenant |-> "acme", proof |-> FALSE],
                                     !.dedupe_key = event]

(* `again` and `swapped` report the event of `fat` (the provider retried), the claim   *)
(* of `swapped` holds other bytes, and `torn` is cut off.                             *)
Messages ==
    [h \in Hooks |-> CASE h = fat     -> ByRef("h1", "evt")
                       [] h = again   -> Inlined("h2", "evt")
                       [] h = swapped -> ByRef("h3", "evt")
                       [] OTHER       -> [Fields EXCEPT !.json = "malformed"]]

Stored == [h \in Hooks |-> IF h = swapped THEN <<2>> ELSE <<1>>]
=============================================================================
