--------------------------- MODULE MCMessageFlow ---------------------------
(* Instances of MessageFlow for TLC. *)
EXTENDS MessageFlow

Checks ==
    {[provider |-> p, status |-> s, flagged |-> f] :
       p \in {"hmac", "none"}, s \in {"ok", "failed"}, f \in BOOLEAN}

(* A failed check that is let through is flagged. *)
Hooks ==
    {[id |-> "h1", source_id |-> "stripe", tenant_id |-> t, dedupe_key |-> d, replay_id |-> r,
      body |-> b, verification |-> c] :
       t \in {Null, "acme"}, d \in {Null, "", "evt"}, r \in {Null, "r1"},
       b \in {<<>>, <<1>>, <<1, 2, 1>>, <<1, 2, 1, 2>>, <<1, 2, 1, 2, 1, 2>>},
       c \in {k \in Checks : k.flagged = (k.status = "failed")}}

Others == {<<2>>, <<1, 2, 2>>, <<1, 2, 2, 2>>}

(* The usual limits; a raised inline_max_bytes; a limit no message meets. *)
Limits == {[inline_max |-> 5, max_bytes |-> 12], [inline_max |-> 20, max_bytes |-> 12],
           [inline_max |-> 20, max_bytes |-> 5]}

Refs == [form \in {"v1", "v2"} |-> IF form = "v1" THEN 5 ELSE 7]
=============================================================================
