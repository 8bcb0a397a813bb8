---------------------------- MODULE MCSqsWorker ----------------------------
(* Instances of SqsWorker for TLC. *)
EXTENDS SqsWorker

CONSTANTS fat, nil, torn, stripe, w1, w2

Fields ==
    [json |-> "object", ill |-> {}, v |-> 1, id |-> "h1", source_id |-> "stripe", tenant_id |-> "acme",
     size |-> 1, dedupe_key |-> Null, replay_id |-> Null, idempotency_key |-> <<>>,
     verification |-> NoVerification, sha |-> Sha256(<<1>>), body |-> NoBody, claim |-> NoRef]

(* `torn` is cut off, `nil` is JSON null. *)
Messages ==
    [h \in Hooks |->
       CASE h = fat -> [Fields EXCEPT !.claim = [form |-> "v1", tenant |-> "acme", proof |-> FALSE]]
         [] h = nil -> [Fields EXCEPT !.id = "h3", !.json = "null"]
         [] OTHER   -> [Fields EXCEPT !.id = "h4", !.json = "malformed"]]

Sequence == [g \in Groups |-> <<torn, nil, fat>>]

Stored == [h \in Hooks |-> <<1>>]
=============================================================================
