------------------------------ MODULE Message ------------------------------
(***************************************************************************)
(* The queue message, from both ends: Ankusa.Sink.Message.encode/4 writes it *)
(* and decodeMessage of the TypeScript SDK (message/index.ts) reads it.       *)
(*                                                                          *)
(* A message on the wire is a record.  `json` says what the bytes parse to,   *)
(* `ill` names the keys that hold a value of the wrong JSON type, and the     *)
(* other fields are the values of their keys, Null for an absent or null      *)
(* string.  `sha`, `body` and `claim` keep apart a key that is absent and one *)
(* that is null, because the decoder does.  An idempotency key is the tuple   *)
(* of its parts, <<>> when there is none.                                     *)
(***************************************************************************)
EXTENDS ClaimCheck

Null == "null"

NoBody       == [form |-> "absent", bytes |-> <<>>]
Base64(body) == [form |-> "text", bytes |-> body]

NoVerification == [status |-> Null, flagged |-> FALSE]

MinSupportedVersion == 1
MaxSupportedVersion == 2

-----------------------------------------------------------------------------
(* decodeMessage/1 *)

(* The keys that may be missing or null and are strings otherwise, in the      *)
(* order they are checked.                                                     *)
OptionalKeys ==
    << "tenant_id", "content_type", "dedupe_key", "replay_id", "idempotency_key",
       "traceparent", "tracestate", "instance", "region", "event_type" >>

Rule(fails, code, field) == [fails |-> fails, code |-> code, field |-> field]

IllTyped(raw, key) == Rule(key \in raw.ill, "invalid_field", key)

HasBody(raw)  == raw.body.form \notin {"absent", "null"}
HasClaim(raw) == raw.claim.form \notin {"absent", "null"}

(* decodeVerification/1: an empty status is malformed too. *)
DecodeVerification(raw) == "verification" \in raw.ill \/ raw.verification.status = ""

(* A variant that does not verify an inline body. *)
BodyRulesSized(raw) ==
    << Rule(raw.body.form # "text", "invalid_body_base64", Null),
       Rule(Len(raw.body.bytes) # raw.size, "size_mismatch", Null) >>

BodyRules(raw) ==
    << Rule(raw.body.form # "text", "invalid_body_base64", Null),
       Rule(Len(raw.body.bytes) # raw.size, "size_mismatch", Null),
       Rule(raw.sha.form = "hex" /\ Sha256(raw.body.bytes) # raw.sha, "integrity", Null) >>

(* A variant that knows only the newer refs. *)
ClaimRulesV2(raw) ==
    << Rule(raw.claim.form # "v2", "invalid_field", "claim"),
       Rule(raw.sha.form = "absent", "invalid_field", "sha256"),
       Rule(raw.tenant_id # Null /\ ParseClaimRef(raw.claim).tenant # raw.tenant_id,
            "tenant_mismatch", Null) >>

ClaimRules(raw) ==
    << Rule(~WellFormed(raw.claim), "invalid_field", "claim"),
       Rule(raw.sha.form = "absent", "invalid_field", "sha256"),
       Rule(raw.tenant_id # Null /\ ParseClaimRef(raw.claim).tenant # raw.tenant_id,
            "tenant_mismatch", Null) >>

(* Every rule, in the order decodeMessage applies them. *)
Rules(raw) ==
    << Rule(raw.json = "malformed", "invalid_json", Null),
       Rule(raw.json \in {"null", "scalar"}, "not_an_object", Null),
       Rule("v" \in raw.ill \/ raw.v \notin MinSupportedVersion..MaxSupportedVersion,
            "unsupported_version", Null),
       Rule("id" \in raw.ill \/ raw.id = "", "invalid_field", "id"),
       IllTyped(raw, "source_id"),
       IllTyped(raw, "received_at"),
       Rule("size" \in raw.ill \/ raw.size < 0, "invalid_field", "size") >>
    \o [i \in DOMAIN OptionalKeys |-> IllTyped(raw, OptionalKeys[i])]
    \o << IllTyped(raw, "headers"),
          Rule(raw.sha.form \notin {"absent", "hex"}, "invalid_field", "sha256"),
          Rule(DecodeVerification(raw), "invalid_field", "verification"),
          Rule(HasBody(raw) /\ HasClaim(raw), "ambiguous_body", Null),
          Rule(~HasBody(raw) /\ ~HasClaim(raw), "missing_body", Null) >>
    \o (IF HasBody(raw) THEN BodyRules(raw) ELSE ClaimRules(raw))

Accepted == Rule(FALSE, "ok", Null)

(* The first rule that fails is the error; InvalidMessageError is never         *)
(* retryable.                                                                  *)
Verdict(raw) ==
    LET broken == SelectSeq(Rules(raw), LAMBDA r : r.fails)
    IN  IF broken = <<>> THEN Accepted ELSE Head(broken)

Decodes(raw) == Verdict(raw).code = "ok"

(* The decoded message: what was absent is null, and the inline body is        *)
(* re-encoded.                                                                 *)
Decoded(raw) ==
    [raw EXCEPT !.sha   = IF @.form = "absent" THEN [@ EXCEPT !.form = "null"] ELSE @,
                !.body  = IF HasBody(raw) THEN Base64(@.bytes) ELSE [NoBody EXCEPT !.form = "null"],
                !.claim = IF HasClaim(raw) THEN @ ELSE [NoRef EXCEPT !.form = "null"]]

(* JSON.stringify of a decoded message is the object itself: `body` is not      *)
(* enumerable and every null is written out.                                   *)
Serialize(msg) == msg

-----------------------------------------------------------------------------
(* What a consumer asks of a decoded message. *)

TenantOr(tenant, default) == IF tenant = Null THEN default ELSE tenant

(* A variant that takes the tenant as it is. *)
ComputedKeyBare(msg) ==
    IF msg.dedupe_key \notin {Null, ""}
      THEN <<msg.tenant_id, msg.source_id, msg.dedupe_key>>
      ELSE <<msg.id>>

ComputedKey(msg) ==
    IF msg.dedupe_key \notin {Null, ""}
      THEN <<TenantOr(msg.tenant_id, "default"), msg.source_id, msg.dedupe_key>>
      ELSE <<msg.id>>

IdempotencyKey(msg, includeReplay) ==
    LET key == IF msg.idempotency_key \notin {<<>>, <<"">>} THEN msg.idempotency_key
                                                            ELSE ComputedKey(msg)
    IN  IF includeReplay /\ msg.replay_id # Null THEN key \o <<"#replay", msg.replay_id>> ELSE key

IsTrusted(msg) == msg.verification = [status |-> "ok", flagged |-> FALSE]
=============================================================================
