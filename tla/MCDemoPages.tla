------------------------------ MODULE MCDemoPages ------------------------------
(* Model-checking instance of DemoPages.                                   *)
EXTENDS DemoPages

(* One scenario of each way through runActive.                             *)
Representatives ==
  {"sale_ok", "sale_timeout", "script_load_failed", "authorize_ok_capture_ok",
   "authorize_ok_void", "authorize_ok_auth_expires",
   "webhook_pending_then_failed", "webhook_pending_then_cancelled"}

(* Of the catalog: the first, and a market that excludes it or not.        *)
Shelf == <<"applepay", "ideal", "klarna", "paypal", "pix", "venmo">>

=============================================================================
