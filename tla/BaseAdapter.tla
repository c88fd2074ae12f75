----------------------------- MODULE BaseAdapter -----------------------------
(***************************************************************************)
(* core/base-adapter.ts and the handle of core/checkout-manager.ts: the    *)
(* lifecycle every payment method shares.  Each action is one uninterrupted*)
(* stretch of the browser's event loop: a public call up to its first      *)
(* await, or the continuation of an await to its end.  The payment itself, *)
(* behind the merchant's backend, is the variable payment; what the        *)
(* provider says of it in webhooks is the set sent.                        *)
(*                                                                         *)
(* A checkout announces events to a listener of the merchant's page.  The  *)
(* listener may be slow: the event an emission has still to deliver waits  *)
(* in deferred, and emissions of different transitions overtake each other.*)
(***************************************************************************)
EXTENDS AdapterStateMachine, Naturals

CONSTANTS
  Patterns,   \* the adapter families of this instance
  MaxInits    \* how often the merchant may call init() on one handle

ASSUME PatternsAssumption ==
  Patterns \subseteq {"native-wallet", "hero", "polled", "redirect"}
ASSUME MaxInitsAssumption == MaxInits \in Nat

VARIABLES
  pattern,       \* the family of the adapter behind this handle
  state,         \* AdapterStateMachine._state
  subs,          \* onChange listeners registered, one per init() call
  initsRunning,  \* init() calls past their first await
  auth,          \* the authorize() call: idle, waiting for doAuthorize, done
  reply,         \* the order status the backend answered, none before
  payment,       \* the payment as the provider has it
  sent,          \* webhook kinds the provider has sent for the session
  sse,           \* WebhookListener: off, open, closed
  bus,           \* the merchant's listeners are registered on the EventBus
  heard,         \* how often the merchant heard each event
  deferred       \* emissions that wait for a listener before their next event

machine == <<state, heard, deferred>>
provider == <<payment, sent>>
baseVars == <<pattern, machine, subs, initsRunning, auth, reply, provider,
              sse, bus>>

-----------------------------------------------------------------------------
(* Mutant: the listeners are notified although the transition is refused.  *)
TransitionAlwaysNotifies(to, redirect, n) ==
  /\ state' = IF CanTransition(state, to) THEN to ELSE state
  /\ heard' = IF bus THEN [heard EXCEPT ![FirstEvent(to, redirect)] = @ + n]
                     ELSE heard
  /\ UNCHANGED deferred

(* AdapterStateMachine.transition(to) with n onChange listeners.  A        *)
(* self-transition is a no-op and an illegal one throws: the caller's      *)
(* action says what follows the exception.                                 *)
Transition(to, redirect, n) ==
  IF CanTransition(state, to)
  THEN /\ state' = to
       /\ heard' = IF bus THEN [heard EXCEPT ![FirstEvent(to, redirect)] = @ + n]
                          ELSE heard
       /\ deferred' = [e \in CheckoutEvent |->
                         IF e \in LaterEvents(to, redirect) THEN deferred[e] + n
                                                            ELSE deferred[e]]
  ELSE UNCHANGED machine

(* The listeners of an emission have settled: its next event goes out.     *)
EmitDeferred(e) ==
  /\ deferred[e] > 0
  /\ deferred' = [deferred EXCEPT ![e] = @ - 1]
  /\ heard' = IF bus THEN [heard EXCEPT ![e] = @ + 1] ELSE heard
  /\ UNCHANGED <<pattern, state, subs, initsRunning, auth, reply, provider,
                 sse, bus>>

(* BaseAdapter.fail: drives to failed from the states it lists.            *)
Fail ==
  IF state \in {"idle", "initializing", "authorizing", "pending"}
  THEN Transition("failed", FALSE, subs)
  ELSE UNCHANGED machine

(* createCheckout makes a WebhookListener for all but native wallets.      *)
HasListener == pattern # "native-wallet"

-----------------------------------------------------------------------------
(* init(): the onChange listener is added before anything can throw.  A    *)
(* call during another init is a self-transition and runs on beside it; a  *)
(* call from any later state throws with the listener left behind.         *)
InitCall ==
  /\ subs < MaxInits
  /\ subs' = subs + 1
  /\ initsRunning' = IF state \in {"idle", "initializing"}
                     THEN initsRunning + 1 ELSE initsRunning
  /\ Transition("initializing", FALSE, subs + 1)
  /\ UNCHANGED <<pattern, auth, reply, provider, sse, bus>>

(* loadSDK and doInit settle.  The handle starts the SSE listener only if  *)
(* init did not throw, and a stopped listener stays closed.                *)
InitReturns(loaded) ==
  /\ initsRunning > 0
  /\ initsRunning' = initsRunning - 1
  /\ IF loaded /\ state \in {"initializing", "ready"}
     THEN /\ Transition("ready", FALSE, subs)
          /\ sse' = IF sse = "off" /\ HasListener THEN "open" ELSE sse
     ELSE Fail /\ UNCHANGED sse
  /\ UNCHANGED <<pattern, subs, auth, reply, provider, bus>>

AuthorizeCall ==
  /\ state = "ready"
  /\ Transition("authorizing", FALSE, subs)
  /\ auth' = "waiting"
  /\ UNCHANGED <<pattern, subs, initsRunning, reply, provider, sse, bus>>

(* resolveAuthorizeResult: the state each order status asks for.           *)
Target(status) ==
  CASE status = "pending_authorization" -> "pending"
    [] status \in {"authorized", "captured"} -> "completed"
    [] status = "cancelled" -> "cancelled"
    [] OTHER -> "failed"

AuthorizeReturns(redirect) ==
  /\ auth = "waiting"
  /\ reply # "none"
  /\ auth' = "done"
  /\ Transition(Target(reply), redirect, subs)
  /\ UNCHANGED <<pattern, subs, initsRunning, reply, provider, sse, bus>>

(* Tokenization is refused, the backend answers an error, or the answer is *)
(* lost on the way.                                                        *)
AuthorizeThrows ==
  /\ auth = "waiting"
  /\ auth' = "done"
  /\ Fail
  /\ UNCHANGED <<pattern, subs, initsRunning, reply, provider, sse, bus>>

(* Mutant: an expired session counts as paid.                              *)
VerdictExpiredPaid(kind) ==
  CASE kind \in {"payment.succeeded", "payment.expired"} -> "completed"
    [] kind = "payment.failed"    -> "failed"
    [] kind = "payment.cancelled" -> "cancelled"
    [] OTHER -> "pending"

(* onWebhookEnvelope, forwarded by the listener wireWebhooks has wrapped.  *)
Verdict(kind) ==
  CASE kind = "payment.succeeded" -> "completed"
    [] kind = "payment.failed"    -> "failed"
    [] kind \in {"payment.cancelled", "payment.expired"} -> "cancelled"
    [] OTHER -> "pending"

OnWebhookEnvelope(kind) ==
  /\ sse = "open"
  /\ IF state = "pending" THEN Transition(Verdict(kind), FALSE, subs)
                          ELSE UNCHANGED machine
  /\ UNCHANGED <<pattern, subs, initsRunning, auth, reply, provider, sse, bus>>

(* handle.destroy(): stops the listener and clears the EventBus, which the *)
(* adapter knows only once init() was called; the state machine is left    *)
(* where it is.                                                            *)
Destroy ==
  /\ sse' = "closed"
  /\ bus' = (bus /\ subs = 0)
  /\ UNCHANGED <<pattern, machine, subs, initsRunning, auth, reply, provider>>

-----------------------------------------------------------------------------
(* The world behind POST /v2/orders/:apm.                                  *)
Decision == {"approved", "declined", "cancelled"}

WebhooksFor(decision) ==
  CASE decision = "approved" -> {"payment.succeeded"}
    [] decision = "declined" -> {"payment.failed"}
    [] OTHER                 -> {"payment.cancelled", "payment.expired"}

StatusFor(decision) ==
  CASE decision = "approved" -> "authorized"
    [] decision = "declined" -> "declined"
    [] OTHER                 -> "cancelled"

(* The backend has the order processed, perhaps after the browser has given*)
(* up on the answer.  An order left open is decided later; a wire state    *)
(* the mapper does not know is answered as failed.                         *)
OrderOpened ==
  /\ auth # "idle" /\ payment = "none"
  /\ payment' = "open"
  /\ reply' \in {"pending_authorization", "failed"}
  /\ sent' \in {sent, sent \cup {"payment.authorized"}}
  /\ UNCHANGED <<pattern, machine, subs, initsRunning, auth, sse, bus>>

OrderDecided(decision, kind) ==
  /\ auth # "idle" /\ payment = "none"
  /\ payment' = decision
  /\ reply' = StatusFor(decision)
  /\ sent' = sent \cup {kind}
  /\ UNCHANGED <<pattern, machine, subs, initsRunning, auth, sse, bus>>

ProviderDecides(decision, kind) ==
  /\ payment = "open"
  /\ payment' = decision
  /\ sent' = sent \cup {kind}
  /\ UNCHANGED <<pattern, machine, subs, initsRunning, auth, reply, sse, bus>>

-----------------------------------------------------------------------------
BaseInit ==
  /\ pattern \in Patterns
  /\ state = "idle" /\ subs = 0 /\ initsRunning = 0
  /\ auth = "idle" /\ reply = "none"
  /\ payment = "none" /\ sent = {}
  /\ sse = "off" /\ bus = TRUE
  /\ heard = [e \in CheckoutEvent |-> 0]
  /\ deferred = [e \in CheckoutEvent |-> 0]

(* The steps every family takes; authorize's return is left to each.       *)
BaseStep ==
  \/ InitCall
  \/ \E loaded \in BOOLEAN : InitReturns(loaded)
  \/ AuthorizeCall
  \/ AuthorizeThrows
  \/ \E kind \in sent : OnWebhookEnvelope(kind)
  \/ \E e \in CheckoutEvent : EmitDeferred(e)
  \/ OrderOpened
  \/ \E decision \in Decision : \E kind \in WebhooksFor(decision) :
        OrderDecided(decision, kind) \/ ProviderDecides(decision, kind)

=============================================================================
