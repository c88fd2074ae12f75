------------------------------ MODULE Checkout ------------------------------
(***************************************************************************)
(* One checkout handle with everything that can move its state machine:    *)
(* the lifecycle of BaseAdapter, the polling of QR and PPRO adapters       *)
(* (adapters/base/qr-base.ts, ppro-adapter-factory.ts) and the merchant's  *)
(* void() of the hero adapters (klarna-adapter.ts, paypal-adapter.ts).     *)
(*                                                                         *)
(* capture() has no action: its transition to capturing is legal only from *)
(* awaiting_merchant_capture, which nothing requests, so every call throws *)
(* before it reaches the network and leaves the handle as it was.          *)
(***************************************************************************)
EXTENDS BaseAdapter

CONSTANT MaxPolls   \* maxPollAttempts: polls before the timer gives up

ASSUME MaxPollsAssumption == MaxPolls \in Nat

VARIABLES
  timer,     \* pollTimer is set
  attempts,  \* ticks of the running timer
  polls,     \* getOrder() calls in flight
  voidCall   \* the merchant's one void(): none, sent, done

polling == <<timer, attempts, polls>>
vars == <<baseVars, polling, voidCall>>

-----------------------------------------------------------------------------
(* doAuthorize of a polled adapter starts the timer before authorize()     *)
(* resolves the result; nothing looks at whether the handle still stands.  *)
AuthorizeResolves(redirect) ==
  /\ AuthorizeReturns(redirect)
  /\ IF pattern = "polled" /\ reply = "pending_authorization" /\ ~timer
     THEN timer' = TRUE /\ attempts' = 0
     ELSE UNCHANGED <<timer, attempts>>
  /\ UNCHANGED <<polls, voidCall>>

(* Mutants: the attempts are not compared with the cap; the cap ends the   *)
(* polling but not the timer.                                              *)
PollTickUncapped ==
  /\ timer
  /\ attempts' = attempts + 1
  /\ polls' = polls + 1
  /\ UNCHANGED <<baseVars, timer, voidCall>>

PollTickNoStop ==
  /\ timer
  /\ attempts' = IF attempts > MaxPolls THEN attempts ELSE attempts + 1
  /\ polls' = IF attempts + 1 > MaxPolls THEN polls ELSE polls + 1
  /\ UNCHANGED <<baseVars, timer, voidCall>>

(* The setInterval callback up to its await.                               *)
PollTick ==
  /\ timer
  /\ attempts' = attempts + 1
  /\ IF attempts + 1 > MaxPolls
     THEN timer' = FALSE /\ UNCHANGED polls
     ELSE polls' = polls + 1 /\ UNCHANGED timer
  /\ UNCHANGED <<baseVars, voidCall>>

(* The answer is an error, or still pending: nothing happens.              *)
PollInconclusive ==
  /\ polls > 0
  /\ polls' = polls - 1
  /\ UNCHANGED <<baseVars, timer, attempts, voidCall>>

(* What a poll can bring once the order is no longer pending: the decision,*)
(* or failed for a wire state that the mapper does not know.               *)
PolledStatus ==
  {"failed"} \cup {StatusFor(decision) : decision \in Decision \cap {payment}}

(* driveTerminal, onPolledTerminal.                                        *)
PollConclusive ==
  /\ polls > 0
  /\ polls' = polls - 1
  /\ timer' = FALSE
  /\ IF state = "pending"
     THEN \E status \in PolledStatus : Transition(Target(status), FALSE, subs)
     ELSE UNCHANGED machine
  /\ UNCHANGED <<pattern, subs, initsRunning, auth, reply, provider, sse, bus,
                 attempts, voidCall>>

-----------------------------------------------------------------------------
(* void() of a hero adapter, once init() has set its context, posts to the *)
(* backend from any state: the order reference comes from adapterOptions.  *)
VoidCall ==
  /\ pattern = "hero" /\ subs > 0
  /\ voidCall = "none"
  /\ voidCall' = "sent"
  /\ UNCHANGED <<baseVars, polling>>

(* Commerce Hub reverses the authorization, perhaps after the call failed. *)
VoidReaches ==
  /\ voidCall # "none"
  /\ payment \in {"open", "approved"}
  /\ payment' = "voided"
  /\ sent' = sent \cup {"payment.cancelled"}
  /\ UNCHANGED <<pattern, machine, subs, initsRunning, auth, reply, sse, bus,
                 polling, voidCall>>

(* The finally of void() runs whether the post succeeded or not.           *)
VoidReturns ==
  /\ voidCall = "sent"
  /\ voidCall' = "done"
  /\ Transition("cancelled", FALSE, subs)
  /\ UNCHANGED <<pattern, subs, initsRunning, auth, reply, provider, sse, bus,
                 polling>>

-----------------------------------------------------------------------------
(* destroy() also runs doTeardown, which clears the poll timer.            *)
Teardown ==
  /\ Destroy
  /\ timer' = FALSE
  /\ UNCHANGED <<attempts, polls, voidCall>>

Init ==
  /\ BaseInit
  /\ timer = FALSE /\ attempts = 0 /\ polls = 0
  /\ voidCall = "none"

Base == BaseStep /\ UNCHANGED <<polling, voidCall>>

Next ==
  \/ Base
  \/ \E redirect \in BOOLEAN : AuthorizeResolves(redirect)
  \/ PollTick \/ PollInconclusive \/ PollConclusive
  \/ VoidCall \/ VoidReaches \/ VoidReturns
  \/ Teardown

Spec == Init /\ [][Next]_vars

(* A merchant's listener settles and a running timer ticks.  Nobody has to *)
(* call anything, and doAuthorize, which may wait for the shopper's click  *)
(* or for a page that fetches without a timeout, need not settle.          *)
Fairness ==
  /\ \A e \in CheckoutEvent : WF_vars(EmitDeferred(e) /\ UNCHANGED <<polling, voidCall>>)
  /\ WF_vars(PollTick)

FairSpec == Spec /\ Fairness

=============================================================================
