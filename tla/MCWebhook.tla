----------------------------- MODULE MCWebhook -----------------------------
(* An instance of Webhook for TLC. *)
EXTENDS Webhook

CONSTANTS h1, old, new, typo

(* A provider that signs its own webhooks in the same standard, and a hook without a   *)
(* dedupe key.                                                                       *)
ProviderHeaders == [h \in Hooks |-> {"webhook-id", "webhook-signature", "x-ankusa-dedupe-key", "authorization"}]
HasValues       == [h \in Hooks |-> {"x-ankusa-replay-id"}]
=============================================================================
