--------------------------- MODULE HarnessScenarios ---------------------------
(***************************************************************************)
(* The tables the harness runs on: the scenarios of harness/scenarios.ts,  *)
(* what harness/runtime.ts answers for each, and which scenarios an APM is *)
(* eligible for (harness/synthetic-capabilities.ts).                       *)
(***************************************************************************)
EXTENDS Sequences, Naturals

AuthScenario ==
  {"authorize_ok_capture_ok", "authorize_ok_partial_capture",
   "authorize_ok_void", "authorize_ok_auth_expires"}

WebhookScenario ==
  {"webhook_pending_then_complete", "webhook_pending_then_failed",
   "webhook_pending_then_cancelled"}

CapturedScenario ==
  {"sale_ok", "refund_ok", "shipping_address_change", "coupon_applied",
   "merchant_validation"}

DeclinedScenario == {"sale_decline", "single_use_token_retry"}

Scenario ==
  AuthScenario \cup WebhookScenario \cup CapturedScenario \cup DeclinedScenario
    \cup {"sale_timeout", "script_load_failed"}

(* chResponse, and the kind of the webhook a scenario injects.             *)
ChResponse ==
  [s \in Scenario |->
     CASE s \in CapturedScenario -> "CAPTURED"
       [] s \in AuthScenario     -> "AUTHORIZED"
       [] s \in WebhookScenario  -> "PAYER_ACTION_REQUIRED"
       [] s \in DeclinedScenario -> "DECLINED"
       [] s = "sale_timeout"       -> "NETWORK_TIMEOUT"
       [] s = "script_load_failed" -> "SCRIPT_LOAD_FAILED"]

ScenarioWebhook ==
  [s \in WebhookScenario |->
     CASE s = "webhook_pending_then_complete"  -> "CAPTURED"
       [] s = "webhook_pending_then_failed"    -> "DECLINED"
       [] s = "webhook_pending_then_cancelled" -> "CANCELLED"]

(* expectedStates. *)
ExpectedStates ==
  [s \in Scenario |->
     CASE s \in CapturedScenario -> <<"completed">>
       [] s \in DeclinedScenario \cup {"sale_timeout"} -> <<"failed">>
       [] s = "script_load_failed" -> <<"script_load_failed">>
       [] s \in {"authorize_ok_capture_ok", "authorize_ok_partial_capture"}
                                   -> <<"awaiting_merchant_capture", "completed">>
       [] s = "authorize_ok_void"  -> <<"awaiting_merchant_capture", "cancelled">>
       [] s = "authorize_ok_auth_expires"
                                   -> <<"awaiting_merchant_capture", "auth_expired">>
       [] s = "webhook_pending_then_complete"  -> <<"pending", "completed">>
       [] s = "webhook_pending_then_failed"    -> <<"pending", "failed">>
       [] s = "webhook_pending_then_cancelled" -> <<"pending", "cancelled">>]


(* harnessOrderResponse: the status and the state of its answer.  A failed *)
(* script load has no server side and is answered as a decline.            *)
HarnessAnswer(s) ==
  [status |-> IF ChResponse[s] = "NETWORK_TIMEOUT" THEN 504 ELSE 200,
   transactionState |->
     IF ChResponse[s] \in {"NETWORK_TIMEOUT", "SCRIPT_LOAD_FAILED"}
     THEN "DECLINED" ELSE ChResponse[s]]

(* harnessReferenceOpResponse. *)
ReferenceAnswer ==
  [capture |-> "CAPTURED", void |-> "VOIDED", refund |-> "REFUNDED"]

-----------------------------------------------------------------------------
Pattern == {"redirect", "bnpl", "native-wallet", "button-sdk", "qr", "voucher"}

(* PATTERN_DEFAULTS: the flows a pattern supports.                         *)
PatternDefaults ==
  [p \in Pattern |->
     LET held == p \in {"bnpl", "native-wallet", "button-sdk"}
     IN  [separateCapture |-> held, partialCapture |-> held,
          merchantInitiated |-> held, gatewayInitiated |-> TRUE,
          refund |-> TRUE, partialRefund |-> p # "voucher",
          void |-> p \notin {"qr", "voucher"},
          webhook |-> ~held, pollingFallback |-> ~held,
          clientScript |-> held]]

(* scenariosFor, in the order the batch plays them: that of SCENARIOS.     *)
ScenariosFor(p) ==
  LET caps == PatternDefaults[p]
      If(condition, list) == IF condition THEN list ELSE <<>>
  IN  <<"sale_ok", "sale_decline", "sale_timeout", "script_load_failed">>
        \o If(caps.separateCapture,
              <<"authorize_ok_capture_ok", "authorize_ok_partial_capture",
                "authorize_ok_void", "authorize_ok_auth_expires">>)
        \o If(p \in {"redirect", "qr", "voucher"},
              <<"webhook_pending_then_complete", "webhook_pending_then_failed",
                "webhook_pending_then_cancelled">>)
        \o If(caps.refund, <<"refund_ok">>)
        \o If(p \in {"bnpl", "native-wallet", "button-sdk"},
              <<"shipping_address_change", "coupon_applied">>)
        \o If(p = "native-wallet",
              <<"single_use_token_retry", "merchant_validation">>)

=============================================================================
