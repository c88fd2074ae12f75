----------------------------- MODULE MCCheckout -----------------------------
(***************************************************************************)
(* Model-checking instance of Checkout, and the statements the repository  *)
(* makes of a checkout that the code does not keep.                        *)
(***************************************************************************)
EXTENDS CheckoutProperties

AllPatterns == {"native-wallet", "hero", "polled", "redirect"}

(* "Clean up timers, listeners, DOM" (core/types.ts, teardown): a handle   *)
(* that was destroyed polls no more.                                       *)
NoPollingAfterTeardown == ~bus => ~timer

(* "Cancels an auth before settlement. Valid in awaiting_merchant_capture  *)
(* or pending. Throws otherwise." (core/checkout-manager.ts): a payment the*)
(* page reports as completed is never reversed by the page's own void().   *)
CompletedStaysPaid == state = "completed" => payment # "voided"

=============================================================================
