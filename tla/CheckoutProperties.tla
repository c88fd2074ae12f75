------------------------- MODULE CheckoutProperties -------------------------
(***************************************************************************)
(* What a checkout handle guarantees to the merchant's page.               *)
(***************************************************************************)
EXTENDS Checkout

TypeOK ==
  /\ pattern \in Patterns
  /\ state \in AdapterState
  /\ subs \in 0..MaxInits
  /\ initsRunning \in 0..MaxInits
  /\ auth \in {"idle", "waiting", "done"}
  /\ reply \in {"none", "pending_authorization", "failed", "authorized",
                "declined", "cancelled"}
  /\ payment \in {"none", "open", "voided"} \cup Decision
  /\ sent \subseteq {"payment.authorized", "payment.succeeded", "payment.failed",
                     "payment.cancelled", "payment.expired"}
  /\ sse \in {"off", "open", "closed"}
  /\ bus \in BOOLEAN
  /\ heard \in [CheckoutEvent -> Nat]
  /\ deferred \in [CheckoutEvent -> Nat]
  /\ timer \in BOOLEAN
  /\ attempts \in 0..(MaxPolls + 1)
  /\ polls \in Nat
  /\ voidCall \in {"none", "sent", "done"}

(* The states in which an event can have been announced.                   *)
AnnouncedIn(e) ==
  CASE e = "INITIALIZING" -> AdapterState \ {"idle"}
    [] e \in {"SDK_LOADED", "PAYMENT_METHOD_READY"} ->
         AdapterState \ {"idle", "initializing"}
    [] e = "PAYMENT_AUTHORIZING" ->
         AdapterState \ {"idle", "initializing", "ready"}
    [] e \in {"REDIRECT_REQUIRED", "PAYMENT_PENDING"} ->
         AdapterState \ {"idle", "initializing", "ready", "authorizing"}
    [] e \in {"PAYMENT_AUTHORIZED", "PAYMENT_COMPLETED"} -> {"completed"}
    [] e = "PAYMENT_FAILED" -> {"failed"}
    [] e = "PAYMENT_CANCELLED" -> {"cancelled"}

(* No event reaches the merchant, now or from an emission still waiting,   *)
(* that the state machine has not earned: whatever races between the       *)
(* synchronous answer, webhooks, polls, void() and a second init(), an     *)
(* outcome event agrees with the final state (adapter-event-emitter.ts     *)
(* emits only from onChange, the single-source rule of ADR-003).           *)
EventsMatchState ==
  \A e \in CheckoutEvent : heard[e] + deferred[e] > 0 => state \in AnnouncedIn(e)

(* Each onChange subscription announces each event at most once, so a      *)
(* handle that is initialised once never announces an event twice, however *)
(* often the provider repeats itself (adapter-state-machine.ts: the self-  *)
(* transition is absorbed).                                                *)
OncePerSubscription ==
  \A e \in CheckoutEvent : heard[e] + deferred[e] <= subs

(* The page is told of a completion only for money the provider approved,  *)
(* even if a void has since reversed it: no late, repeated or foreign      *)
(* answer completes a payment (base-adapter.ts resolveAuthorizeResult and  *)
(* onWebhookEnvelope, qr-base.ts driveTerminal).                           *)
CompletedOnlyIfApproved ==
  state = "completed" => payment \in {"approved", "voided"}

(* PAYMENT_AUTHORIZED goes out before PAYMENT_COMPLETED, also when the     *)
(* emissions of several subscriptions overlap (adapter-event-emitter.ts    *)
(* awaits one emission before the next).                                   *)
AuthorizedBeforeCompleted ==
  heard["PAYMENT_COMPLETED"] <= heard["PAYMENT_AUTHORIZED"]

(* A handle is authorizing only as long as its doAuthorize has not settled *)
(* (a button waits for its click, which may never come), and pending only  *)
(* because the backend answered so: every order status, and every          *)
(* exception, asks for a transition that is legal then, though webhooks,   *)
(* void() and a second init() may have moved the machine meanwhile         *)
(* (base-adapter.ts authorize, resolveAuthorizeResult, fail).              *)
AuthorizeSettles ==
  /\ state = "authorizing" => auth = "waiting"
  /\ state = "pending" => auth = "done" /\ reply = "pending_authorization"

(* The abstract promise: decided once, announced truthfully.               *)
OutcomeOf(s) ==
  IF s \in {"completed", "failed", "cancelled"} THEN s ELSE "undecided"

OutcomeEvent(o) ==
  CASE o = "completed" -> "PAYMENT_COMPLETED"
    [] o = "failed"    -> "PAYMENT_FAILED"
    [] o = "cancelled" -> "PAYMENT_CANCELLED"

Promise ==
  INSTANCE PaymentOutcome WITH
    outcome <- OutcomeOf(state),
    told    <- {o \in {"completed", "failed", "cancelled"} :
                  heard[OutcomeEvent(o)] > 0}

(* The handle implements PaymentOutcome: whichever of the racing parties   *)
(* asks first decides, and no later answer revises it (the precedence rule *)
(* of ADR-003, adapter-state-machine.ts transition).                       *)
ImplementsPromise == Promise!Spec

-----------------------------------------------------------------------------
(* A completed payment is announced as completed unless the merchant tears *)
(* the handle down: a slow listener of PAYMENT_AUTHORIZED only delays it.  *)
CompletionIsTold ==
  state = "completed" ~> (heard["PAYMENT_COMPLETED"] > 0 \/ ~bus)

(* A poll timer stops by itself, whatever the backend answers and even if  *)
(* the handle was torn down before the timer started (the attempt cap of   *)
(* qr-base.ts and ppro-adapter-factory.ts).                                *)
PollingStops == timer ~> ~timer

=============================================================================
