-------------------------- MODULE MCWebhookCheckout --------------------------
(***************************************************************************)
(* Model-checking instance of WebhookCheckout, and what the repository     *)
(* says of early webhooks.                                                 *)
(***************************************************************************)
EXTENDS WebhookCheckout

(* "First-writer-wins keyed on sessionId, state machine tolerates out-of-  *)
(* order arrival" of the synchronous answer and the webhook (core/order-   *)
(* result-cache.ts): a page that has received the decision does not stay   *)
(* pending.                                                                *)
OutOfOrderTolerated ==
  state = "pending" /\ lastEventId > 0 /\ log[lastEventId] \in Verdicts
    ~> state # "pending" \/ sse # "open"

=============================================================================
