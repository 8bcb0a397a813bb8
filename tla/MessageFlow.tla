---------------------------- MODULE MessageFlow ----------------------------
(***************************************************************************)
(* One hook on its way through a broker: a node encodes its envelope, the     *)
(* message may be damaged in transit, a consumer decodes it, redeems its      *)
(* claim and may hand the decoded message on, serialized, to another one.     *)
(***************************************************************************)
EXTENDS Message, FiniteSets

CONSTANTS
    Envelopes,        \* hooks a node may have accepted
    OtherBytes,       \* bytes that damage, or a wrong object, may show
    Sinks,            \* a sink's inline_max_bytes and max_message_bytes
    BaseBytes,        \* the JSON of the fields before the body form
    DigestBytes,      \* the sha256 field
    RefBytes,         \* the claim and sha256 fields, of a ref of each form
    ClaimFloor,       \* @claim_fields_floor
    MaxDamage,        \* bound on damage in transit
    MaxHops           \* bound on consumers that hand the message on

ASSUME SizesAssumption ==
    /\ Sinks \subseteq [inline_max : Nat \ {0}, max_bytes : Nat \ {0}]
    /\ BaseBytes \in Nat /\ DigestBytes \in Nat /\ ClaimFloor \in Nat
    /\ RefBytes \in [{"v1", "v2"} -> Nat]
ASSUME BoundsAssumption == MaxDamage \in Nat /\ MaxHops \in Nat

VARIABLES
    env,         \* the envelope
    release,     \* the release of the node that encodes it
    sink,        \* the sink it is encoded for
    stage,       \* where the hook is: see Stages
    wire,        \* the message in the broker
    msg,         \* the message the consumer decoded
    stored,      \* bodies checked in
    got,         \* the body the consumer holds
    damage, hops

vars == <<env, release, sink, stage, wire, msg, stored, got, damage, hops>>

-----------------------------------------------------------------------------
(* The node: Ankusa.Sink.Message.encode/4. *)

(* Envelope.idempotency_key/1 *)
EnvelopeKey(e) ==
    IF e.dedupe_key \notin {Null, ""}
      THEN <<TenantOr(e.tenant_id, "default"), e.source_id, e.dedupe_key>>
      ELSE <<e.id>>

(* A variant that ships what the verifier of an unverified source says. *)
VerificationRaw(e) == [status |-> e.verification.status, flagged |-> e.verification.flagged]

(* verification/1: nothing checked a hook whose source verifies nothing, nor    *)
(* one that did not come through ingest.                                       *)
Verification(e) ==
    IF e.verification.provider \in {"none", Null}
      THEN [status |-> "skipped", flagged |-> FALSE]
      ELSE [status |-> e.verification.status, flagged |-> e.verification.flagged]

Base(e) ==
    [json |-> "object", ill |-> {}, v |-> 1, id |-> e.id, source_id |-> e.source_id,
     tenant_id |-> e.tenant_id, size |-> Len(e.body), dedupe_key |-> e.dedupe_key,
     replay_id |-> e.replay_id, idempotency_key |-> EnvelopeKey(e),
     verification |-> Verification(e), sha |-> NoDigest, body |-> NoBody, claim |-> NoRef]

Inline(e) == [Base(e) EXCEPT !.body = Base64(e.body), !.sha = Sha256(e.body)]

Claimed(e, form) ==
    [Base(e) EXCEPT !.claim = [form |-> form, tenant |-> e.tenant_id, proof |-> form = "v2"],
                    !.sha   = Sha256(e.body)]

(* A node that predates the newer fields leaves them out. *)
Written(m) ==
    IF release = "current" THEN m
    ELSE [m EXCEPT !.idempotency_key = <<>>, !.verification = NoVerification,
                   !.sha = IF m.claim = NoRef THEN NoDigest ELSE @]

Base64Bytes(n) == 4 * ((n + 2) \div 3)

InlineBytes(e) == BaseBytes + DigestBytes + Base64Bytes(Len(e.body))

ToClaim(e) ==
    \/ Len(e.body) > sink.inline_max
    \/ Len(e.body) <= sink.max_bytes /\ InlineBytes(e) > sink.max_bytes

Send(m) == stage' = "sent" /\ wire' = Written(m)
Drop    == stage' = "dropped" /\ wire' = wire

EncodeInline ==
    /\ stage = "accepted" /\ ~ToClaim(env)
    /\ IF Len(env.body) > sink.max_bytes THEN Drop ELSE Send(Inline(env))
    /\ UNCHANGED <<env, release, sink, msg, stored, got, damage, hops>>

(* claimed/4: nothing is checked in when no ref could fit; a ref that turns out *)
(* too long leaves an object behind.                                           *)
EncodeClaim ==
    /\ stage = "accepted" /\ ToClaim(env)
    /\ IF BaseBytes + ClaimFloor > sink.max_bytes THEN Drop /\ stored' = stored
       ELSE /\ env.tenant_id # Null
            /\ stored' = stored \cup {env.body}
            /\ \E form \in {"v1", "v2"} :
                 IF BaseBytes + RefBytes[form] > sink.max_bytes THEN Drop ELSE Send(Claimed(env, form))
    /\ UNCHANGED <<env, release, sink, msg, got, damage, hops>>

(* The claim store does not take the body, or the hook has no tenant: the       *)
(* attempt fails and nothing was published.                                     *)
ClaimCheckFails ==
    /\ stage = "accepted" /\ ToClaim(env) /\ BaseBytes + ClaimFloor <= sink.max_bytes
    /\ stage' = "unpublished"
    /\ UNCHANGED <<env, release, sink, wire, msg, stored, got, damage, hops>>

-----------------------------------------------------------------------------
(* What may happen to the bytes between the two. *)
Damaged(m) ==
    {[m EXCEPT !.json = j] : j \in {"malformed", "null", "scalar"}}
      \cup {[m EXCEPT !.ill = @ \cup {k}] : k \in {"id", "received_at", "tenant_id", "headers", "verification"}}
      \cup {[m EXCEPT !.v = n] : n \in {0, 2, 3}}
      \cup {[m EXCEPT !.size = @ + 1], [m EXCEPT !.tenant_id = "globex"], [m EXCEPT !.id = ""]}
      \cup {[m EXCEPT !.sha.form = f] : f \in {"absent", "null", "bad"}}
      \cup {[m EXCEPT !.body.form = f] : f \in {"absent", "bad"}}
      \cup {[m EXCEPT !.body.bytes = b] : b \in OtherBytes}
      \cup {[m EXCEPT !.claim.form = f] : f \in {"absent", "null", "ill", "bad"}}

Damage ==
    /\ stage = "sent" /\ damage < MaxDamage
    /\ wire' \in Damaged(wire) \ {wire}
    /\ damage' = damage + 1
    /\ UNCHANGED <<env, release, sink, stage, msg, stored, got, hops>>

-----------------------------------------------------------------------------
(* The consumer. *)
DecodeMessage ==
    /\ stage = "sent"
    /\ IF Decodes(wire)
         THEN /\ stage' = "decoded" /\ msg' = Decoded(wire)
              /\ got' = IF HasBody(wire) THEN <<wire.body.bytes>> ELSE <<>>
         ELSE stage' = "refused" /\ UNCHANGED <<msg, got>>
    /\ UNCHANGED <<env, release, sink, wire, stored, damage, hops>>

(* What the gateway may answer: the object, another one, or an error. *)
Answers ==
    {[status |-> 200, bytes |-> b] : b \in stored \cup OtherBytes}
      \cup {[status |-> n, bytes |-> <<>>] : n \in {Unanswered, 301, 403, 404, 408, 410, 429, 503}}

RedeemClaim ==
    /\ stage = "decoded" /\ got = <<>>
    /\ \E a \in Answers :
         LET outcome == Redeem(msg.claim, msg.sha, a)
         IN  CASE outcome = "ok"       -> stage' = stage /\ got' = <<a.bytes>>
               [] Retryable(outcome)   -> UNCHANGED <<stage, got>>
               [] OTHER                -> stage' = "unredeemed" /\ got' = got
    /\ UNCHANGED <<env, release, sink, wire, msg, stored, damage, hops>>

(* A consumer hands the decoded message on as JSON. *)
HandOn ==
    /\ stage = "decoded" /\ hops < MaxHops
    /\ stage' = "sent" /\ wire' = Serialize(msg) /\ hops' = hops + 1 /\ got' = <<>>
    /\ UNCHANGED <<env, release, sink, msg, stored, damage>>

Init ==
    /\ env \in Envelopes /\ release \in {"current", "older"} /\ sink \in Sinks
    /\ stage = "accepted" /\ wire = Base(env) /\ msg = Base(env)
    /\ stored = {} /\ got = <<>> /\ damage = 0 /\ hops = 0

Next ==
    \/ EncodeInline \/ EncodeClaim \/ ClaimCheckFails
    \/ Damage
    \/ DecodeMessage \/ RedeemClaim \/ HandOn

Spec == Init /\ [][Next]_vars

-----------------------------------------------------------------------------
Stages == {"accepted", "unpublished", "dropped", "sent", "refused", "decoded", "unredeemed"}

(* The types of the variables. *)
TypeOK ==
    /\ env \in Envelopes /\ release \in {"current", "older"} /\ sink \in Sinks /\ stage \in Stages
    /\ DOMAIN wire = DOMAIN Base(env) /\ DOMAIN msg = DOMAIN Base(env)
    /\ stored \subseteq {env.body} /\ Len(got) <= 1
    /\ damage \in 0..MaxDamage /\ hops \in 0..MaxHops

(* What encode/4 writes, decodeMessage accepts: nothing a node publishes is      *)
(* refused unless it was damaged, and that of a current node survives being      *)
(* serialized and decoded again.                                                 *)
IntactDecodes == damage = 0 /\ (release = "current" \/ hops = 0) => stage # "refused"

(* A consumer never holds other bytes than the node accepted while the message   *)
(* still carries their digest, whatever else was damaged and whatever the gateway *)
(* answered (decodeMessage and verifyIntegrity).                                  *)
NeverCorrupt == msg.sha = Sha256(env.body) /\ got # <<>> => got = <<env.body>>

(* The key a consumer dedupes on is the one Envelope.idempotency_key computes,    *)
(* from a node that ships it and from one that predates the field, however many   *)
(* consumers the message went through.                                            *)
KeyAgrees == stage = "decoded" /\ damage = 0 => IdempotencyKey(msg, FALSE) = EnvelopeKey(env)

(* isTrusted holds only of a hook that a verifier checked at ingest and did not   *)
(* flag; damage and an older node make it fail closed.                            *)
TrustFailsClosed ==
    stage = "decoded" /\ IsTrusted(msg) =>
      env.verification = [provider |-> "hmac", status |-> "ok", flagged |-> FALSE]

(* A decoded message without a body can be redeemed: redeem never refuses its ref *)
(* or digest before asking, and asks for the tenant the message names.            *)
ClaimRedeemable ==
    stage = "decoded" /\ ~HasBody(msg) =>
      Asks(msg.claim, msg.sha) /\ msg.tenant_id \in {Null, ParseClaimRef(msg.claim).tenant}

(* What a consumer may do with a decoded message without another check: trust it if    *)
(* isTrusted says so, redeem its claim if it has no body (decodeMessage).              *)
MessageInv == TypeOK /\ TrustFailsClosed /\ ClaimRedeemable

(* "the object still serializes back to exactly the wire shape": a message that   *)
(* decoded decodes again after it was serialized (message/index.ts).              *)
HandedOnDecodes == hops > 0 /\ damage = 0 => stage # "refused"
=============================================================================
