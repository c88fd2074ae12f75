-------------------------- MODULE WebhookCheckout --------------------------
(***************************************************************************)
(* A checkout whose payment is decided at a bank: the handle of            *)
(* BaseAdapter at one end, the provider at the other, and between them the *)
(* EventStream fed by POST /v2/webhooks/:provider (routes/webhooks.ts).    *)
(* The adapter does not poll: the webhook is its only way out of pending.  *)
(***************************************************************************)
EXTENDS BaseAdapter, Sequences

CONSTANTS BufferSize, MaxPublished, MaxCuts   \* of EventStream

ASSUME TransportAssumption ==
  BufferSize \in Nat \ {0} /\ MaxPublished \in Nat /\ MaxCuts \in Nat
ASSUME NoPollingAssumption == "polled" \notin Patterns

VARIABLES link, lastEventId, wire, log, buffer, expired, cuts  \* of EventStream

WebhookKind ==
  {"payment.authorized", "payment.succeeded", "payment.failed",
   "payment.cancelled", "payment.expired"}

Stream == INSTANCE EventStream WITH Kinds <- WebhookKind

transport == <<link, lastEventId, wire, log, buffer, expired, cuts>>
wcVars == <<baseVars, transport>>

-----------------------------------------------------------------------------
(* The provider posts a webhook, again if it has missed the 202, and one   *)
(* webhook may overtake another.  The handler publishes each with a new id.*)
Webhook(kind) ==
  /\ kind \in sent
  /\ Stream!Publish(kind)
  /\ UNCHANGED baseVars

(* The listener hands the envelope to the adapter as it arrives.           *)
Receive ==
  /\ Stream!Deliver
  /\ OnWebhookEnvelope(log[Head(wire)])

(* destroy() stops the listener.                                           *)
Leave ==
  /\ Destroy
  /\ Stream!Stop

Transport ==
  /\ Stream!Expire \/ Stream!Connect \/ Stream!Cut \/ Stream!Restart \/ Stream!GiveUp
  /\ UNCHANGED baseVars

(* What BaseAdapter does without its listener.                             *)
Page ==
  /\ \/ InitCall
     \/ \E loaded \in BOOLEAN : InitReturns(loaded)
     \/ AuthorizeCall
     \/ \E redirect \in BOOLEAN : AuthorizeReturns(redirect)
     \/ AuthorizeThrows
     \/ \E e \in CheckoutEvent : EmitDeferred(e)
  /\ UNCHANGED transport

Provider ==
  /\ \/ OrderOpened
     \/ \E decision \in Decision : \E kind \in WebhooksFor(decision) :
           OrderDecided(decision, kind) \/ ProviderDecides(decision, kind)
  /\ UNCHANGED transport

WCInit == BaseInit /\ Stream!TransportInit

WCNext ==
  \/ Page \/ Provider \/ Receive \/ Leave \/ Transport
  \/ \E kind \in WebhookKind : Webhook(kind)

(* The browser reconnects and hands over, the merchant's listeners settle, *)
(* and the provider posts what it has to say at least once.                *)
Fairness ==
  /\ WF_wcVars(Stream!Connect /\ UNCHANGED baseVars)
  /\ WF_wcVars(Receive)
  /\ \A e \in CheckoutEvent : WF_wcVars(EmitDeferred(e) /\ UNCHANGED transport)
  /\ WF_wcVars(\E kind \in WebhookKind \ Stream!Range(log) : Webhook(kind))

WCSpec == WCInit /\ [][WCNext]_wcVars /\ Fairness

-----------------------------------------------------------------------------
Verdicts == {"payment.succeeded", "payment.failed", "payment.cancelled",
             "payment.expired"}

(* A webhook that decides the payment and has not reached the page; one    *)
(* that no connection can bring any more.                                  *)
Ahead(id) == id \in DOMAIN log /\ log[id] \in Verdicts /\ id > lastEventId

Missed(id) ==
  Ahead(id) /\ id \notin Stream!Range(buffer) \cup Stream!Range(wire)

(* A deciding webhook that has yet to reach a pending page makes the page  *)
(* hear of an outcome, however often the connection breaks or the server   *)
(* restarts, unless the buffer loses it, the reconnect is refused or the   *)
(* page goes away (webhook-listener.ts, event-bus.ts, base-adapter.ts      *)
(* onWebhookEnvelope, adapter-event-emitter.ts).                           *)
WebhookSettles ==
  \A id \in 1..MaxPublished :
    state = "pending" /\ sse = "open" /\ Ahead(id)
      ~> \/ \E e \in OutcomeEvents : heard[e] > 0
         \/ Missed(id) \/ sse # "open" \/ link = "dead"

(* Redelivered, replayed and overtaking webhooks never make a listener of  *)
(* the page hear of an outcome a second time, nor of a second outcome, and *)
(* it hears of a payment or a cancellation only if the provider decided so,*)
(* though webhook and answer race (WEBHOOKS.md, single source of truth).   *)
HeardOnce ==
  /\ \A e \in OutcomeEvents : heard[e] + deferred[e] <= subs
  /\ \A e, f \in OutcomeEvents : heard[e] > 0 /\ heard[f] > 0 => e = f
  /\ heard["PAYMENT_COMPLETED"] > 0 => payment = "approved"
  /\ heard["PAYMENT_CANCELLED"] > 0 => payment = "cancelled"

=============================================================================
