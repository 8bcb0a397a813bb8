----------------------------- MODULE ClaimCheck -----------------------------
(***************************************************************************)
(* The claim-check client of the TypeScript SDK (claim-check/client.ts): a   *)
(* queue message names a large body by a ref and its sha256, and the consumer *)
(* redeems it at the gateway.                                                 *)
(*                                                                          *)
(* A ref is [form, tenant, proof]: form "v1" or "v2" when it matches that     *)
(* grammar, "bad" when it matches none.  A body is a sequence of bytes, and   *)
(* its digest the record that holds it: two bodies share no digest.  What the *)
(* gateway answers is [status, bytes], status Unanswered when the request     *)
(* failed or timed out.                                                       *)
(***************************************************************************)
EXTENDS Integers, Sequences

NoRef == [form |-> "absent", tenant |-> "null", proof |-> FALSE]

Unanswered == 0

Sha256(bytes) == [form |-> "hex", of |-> bytes]
NoDigest      == [form |-> "absent", of |-> <<>>]

(* parseClaimRef/1: a v2 ref carries its proof to the gateway; a string of     *)
(* neither grammar throws.                                                     *)
WellFormed(ref) == ref.form \in {"v1", "v2"}

ParseClaimRef(ref) == [tenant |-> ref.tenant, proof |-> ref.form = "v2"]

(* fetchBytes: of the 4xx, a 404 is an error of its own, and 408 and 429 are     *)
(* outages like everything that is no 4xx and no 200.                           *)
FetchOutcome(status) ==
    CASE status = 200                               -> "ok"
      [] status = 404                               -> "not_found"
      [] status \in 400..499 \ {404, 408, 429}      -> "rejected"
      [] OTHER                                      -> "unavailable"

(* redeem/2: a malformed ref or digest is refused before any request is made,  *)
(* and the bytes are verified before they are returned.                        *)
Asks(ref, sha) == WellFormed(ref) /\ sha.form = "hex"

VerifyIntegrity(sha, bytes) == IF Sha256(bytes) = sha THEN "ok" ELSE "integrity"

Redeem(ref, sha, answer) ==
    IF ~Asks(ref, sha) THEN "invalid_ref"
    ELSE IF FetchOutcome(answer.status) = "ok" THEN VerifyIntegrity(sha, answer.bytes)
    ELSE FetchOutcome(answer.status)

(* A variant in which no error is worth a retry. *)
RetryableNever(outcome) == FALSE

(* The `retryable` flag of the error classes. *)
Retryable(outcome) == outcome = "unavailable"
=============================================================================
