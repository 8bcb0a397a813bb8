--------------------------- MODULE MCAmqpWorker ---------------------------
(* Instances of AmqpWorker for TLC. *)
EXTENDS AmqpWorker, TLC

CONSTANTS torn, fat, plain, c1

Fields ==
    [json |-> "object", ill |-> {}, v |-> 1, id |-> "h1", source_id |-> "stripe", tenant_id |-> "acme",
     size |-> 1, dedupe_key |-> "evt", replay_id |-> Null, idempotency_key |-> <<"acme", "stripe", "evt">>,
     verification |-> NoVerification, sha |-> Sha256(<<1>>), body |-> NoBody, claim |-> NoRef]

(* `fat` and `plain` report one event: the provider retried.  `torn` is cut off. *)
Messages ==
    [h \in Hooks |->
       CASE h = fat   -> [Fields EXCEPT !.claim = [form |-> "v1", tenant |-> "acme", proof |-> FALSE]]
         [] h = plain -> [Fields EXCEPT !.id = "h2", !.body = Base64(<<1>>)]
         [] OTHER     -> [Fields EXCEPT !.id = "h3", !.idempotency_key = <<>>, !.json = "malformed"]]

Places == [h \in Hooks |-> CASE h = torn -> 1 [] h = fat -> 2 [] OTHER -> 3]

Stored == [h \in Hooks |-> <<1>>]
=============================================================================
