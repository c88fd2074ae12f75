------------------------ MODULE AdapterStateMachine ------------------------
(***************************************************************************)
(* The vocabulary of one checkout: the states of core/adapter-state-       *)
(* machine.ts, the transitions it accepts, and the lifecycle events that   *)
(* core/adapter-event-emitter.ts announces on entry to each state.         *)
(***************************************************************************)

AdapterState ==
  {"idle", "initializing", "ready", "authorizing", "pending",
   "awaiting_merchant_capture", "capturing", "completed", "failed",
   "cancelled", "auth_expired", "script_load_failed"}

TerminalStates ==
  {"completed", "failed", "cancelled", "auth_expired", "script_load_failed"}

(* Mutants: a late success may revise a cancellation; the row of           *)
(* authorizing has lost its cancellation.                                  *)
LegalTransitionsRevisable ==
  UNION { {"idle"} \X {"initializing"},
          {"initializing"} \X {"ready", "failed", "script_load_failed"},
          {"ready"} \X {"authorizing"},
          {"authorizing", "pending"} \X {"pending", "completed", "failed",
                                         "cancelled"},
          {"cancelled"} \X {"completed"} }

LegalTransitionsNoCancel ==
  UNION { {"idle"} \X {"initializing"},
          {"initializing"} \X {"ready", "failed", "script_load_failed"},
          {"ready"} \X {"authorizing"},
          {"authorizing"} \X {"pending", "completed", "failed"},
          {"pending"} \X {"completed", "failed", "cancelled"} }

LegalTransitions ==
  UNION { {"idle"} \X {"initializing"},
          {"initializing"} \X {"ready", "failed", "script_load_failed"},
          {"ready"} \X {"authorizing"},
          {"authorizing"} \X {"pending", "awaiting_merchant_capture",
                              "completed", "failed", "cancelled"},
          {"pending"} \X {"awaiting_merchant_capture", "completed",
                          "failed", "cancelled"},
          {"awaiting_merchant_capture"} \X {"capturing", "cancelled",
                                            "auth_expired"},
          {"capturing"} \X {"completed", "failed"} }

(* Mutant: a self-transition counts as a transition.                       *)
CanTransitionReentrant(from, to) ==
  from = to \/ <<from, to>> \in LegalTransitions

CanTransition(from, to) == <<from, to>> \in LegalTransitions

-----------------------------------------------------------------------------
(* The events a merchant's page can hear. *)
CheckoutEvent ==
  {"INITIALIZING", "SDK_LOADED", "PAYMENT_METHOD_READY", "PAYMENT_AUTHORIZING",
   "REDIRECT_REQUIRED", "PAYMENT_PENDING", "PAYMENT_AUTHORIZED",
   "PAYMENT_COMPLETED", "PAYMENT_FAILED", "PAYMENT_CANCELLED"}

OutcomeEvents == {"PAYMENT_COMPLETED", "PAYMENT_FAILED", "PAYMENT_CANCELLED"}

(* Mutant: the result goes out before the authorization.                   *)
FirstEventResultFirst(to, redirect) ==
  CASE to = "initializing" -> "INITIALIZING"
    [] to = "ready"        -> "SDK_LOADED"
    [] to = "authorizing"  -> "PAYMENT_AUTHORIZING"
    [] to = "pending"      -> IF redirect THEN "REDIRECT_REQUIRED"
                                          ELSE "PAYMENT_PENDING"
    [] to = "completed"    -> "PAYMENT_COMPLETED"
    [] to = "failed"       -> "PAYMENT_FAILED"
    [] to = "cancelled"    -> "PAYMENT_CANCELLED"

(* What onStateChange emits before its first await: it runs inside the     *)
(* transition.                                                             *)
FirstEvent(to, redirect) ==
  CASE to = "initializing" -> "INITIALIZING"
    [] to = "ready"        -> "SDK_LOADED"
    [] to = "authorizing"  -> "PAYMENT_AUTHORIZING"
    [] to = "pending"      -> IF redirect THEN "REDIRECT_REQUIRED"
                                          ELSE "PAYMENT_PENDING"
    [] to = "completed"    -> "PAYMENT_AUTHORIZED"
    [] to = "failed"       -> "PAYMENT_FAILED"
    [] to = "cancelled"    -> "PAYMENT_CANCELLED"

(* Mutant: the completion has lost its second event.                       *)
LaterEventsNoResult(to, redirect) ==
  CASE to = "ready"                -> {"PAYMENT_METHOD_READY"}
    [] to = "pending" /\ redirect  -> {"PAYMENT_PENDING"}
    [] OTHER                       -> {}

(* What it emits once the merchant's listeners have finished with the      *)
(* first event.                                                            *)
LaterEvents(to, redirect) ==
  CASE to = "ready"                -> {"PAYMENT_METHOD_READY"}
    [] to = "pending" /\ redirect  -> {"PAYMENT_PENDING"}
    [] to = "completed"            -> {"PAYMENT_COMPLETED"}
    [] OTHER                       -> {}

=============================================================================
