------------------------ MODULE WebhookCheckoutProofs ------------------------
(***************************************************************************)
(* A checkout and the stream it hangs on, for any buffer, any number of    *)
(* init() calls, webhooks, cuts and restarts.  Put together, either is     *)
(* still what it is alone: the transport an EventStream, the handle a      *)
(* Checkout.  What is proved of them holds of the whole, and with what only*)
(* the whole knows, that nothing is received that was not sent, it follows *)
(* that the page hears what the provider decided.                          *)
(***************************************************************************)
EXTENDS WebhookCheckout, TLAPS

-----------------------------------------------------------------------------
(* The transport: what EventStream does, but for what the adapter's side   *)
(* makes impossible.                                                       *)
StreamProofs == INSTANCE EventStreamProofs WITH Kinds <- WebhookKind

LEMMA StreamStep == [WCNext]_wcVars => [StreamProofs!Next]_(StreamProofs!streamVars)
<1> SUFFICES ASSUME [WCNext]_wcVars
             PROVE  StreamProofs!Next \/ UNCHANGED <<sse, transport>>
  BY DEF StreamProofs!streamVars, StreamProofs!transport, transport
<1> USE DEF StreamProofs!Next
<1>1. CASE Page
  <2>1. UNCHANGED transport
    BY <1>1 DEF Page
  <2>2. sse' = sse \/ (sse = "off" /\ sse' = "open")
    BY <1>1 DEF Page, InitCall, InitReturns, AuthorizeCall, AuthorizeReturns, AuthorizeThrows,
                EmitDeferred
  <2>3. StreamProofs!Start \/ sse' = sse
    BY <2>1, <2>2 DEF StreamProofs!Start, StreamProofs!transport, transport
  <2> QED BY <2>1, <2>3
<1>2. CASE Provider
  <2>1. UNCHANGED <<sse, transport>>
    BY <1>2 DEF Provider, OrderOpened, OrderDecided, ProviderDecides
  <2> QED BY <2>1
<1>3. CASE Receive
  <2>1. StreamProofs!Deliver
    BY <1>3 DEF Receive, Stream!Deliver, StreamProofs!Deliver
  <2> QED BY <2>1
<1>4. CASE Leave
  <2>1. StreamProofs!Stop
    BY <1>4 DEF Leave, Stream!Stop, StreamProofs!Stop
  <2> QED BY <2>1
<1>5. CASE Transport
  <2>0. \/ Stream!Expire \/ Stream!Connect \/ Stream!Cut \/ Stream!Restart \/ Stream!GiveUp
    BY <1>5, Zenon DEF Transport
  <2>1. CASE Stream!Expire
    BY <2>1 DEF Stream!Expire, StreamProofs!Expire
  <2>2. CASE Stream!Connect
    <3>1. Stream!Unexpired(buffer) = StreamProofs!Unexpired(buffer)
      BY Zenon DEF Stream!Unexpired, StreamProofs!Unexpired, Stream!Cardinality,
                   StreamProofs!Cardinality
    <3>2. \A buf, since : Stream!Replay(buf, since) = StreamProofs!Replay(buf, since)
      BY Zenon DEF Stream!Replay, StreamProofs!Replay
    <3> QED BY <2>2, <3>1, <3>2, Zenon DEF Stream!Connect, StreamProofs!Connect
  <2>3. CASE Stream!Cut
    BY <2>3 DEF Stream!Cut, StreamProofs!Cut
  <2>4. CASE Stream!Restart
    BY <2>4 DEF Stream!Restart, StreamProofs!Restart
  <2>5. CASE Stream!GiveUp
    BY <2>5 DEF Stream!GiveUp, StreamProofs!GiveUp
  <2> QED BY <2>0, <2>1, <2>2, <2>3, <2>4, <2>5
<1>6. ASSUME NEW kind \in WebhookKind, Webhook(kind)
      PROVE  StreamProofs!Publish(kind)
  BY <1>6 DEF Webhook, Stream!Publish, StreamProofs!Publish, Stream!Push, StreamProofs!Push
<1>7. CASE UNCHANGED wcVars
  BY <1>7 DEF wcVars, baseVars
<1> QED BY <1>1, <1>2, <1>3, <1>4, <1>5, <1>6, <1>7 DEF WCNext

(* However the adapter, the provider and the merchant behave, the way of a *)
(* webhook to the page is the one EventStream describes (checkout-manager. *)
(* ts wires the listener, base-adapter.ts starts and stops it).            *)
THEOREM TransportIsStream == WCSpec => StreamProofs!Spec
<1>1. WCInit => StreamProofs!Init
  BY DEF WCInit, BaseInit, Stream!TransportInit, StreamProofs!Init, StreamProofs!TransportInit
<1> QED BY <1>1, StreamStep, PTL DEF WCSpec, StreamProofs!Spec

(* What is proved of the stream holds of the checkout that hangs on it.    *)
THEOREM StreamHolds ==
  WCSpec => []StreamProofs!StreamTypeOK /\ []Stream!InOrderOnce /\ []Stream!Recoverable
<1>1. StreamProofs!Spec => []StreamProofs!StreamTypeOK
  BY StreamProofs!StreamTypeCorrect, TransportAssumption
<1>2. StreamProofs!Spec => []StreamProofs!InOrderOnce
  BY StreamProofs!DeliveredInOrder, TransportAssumption
<1>3. StreamProofs!InOrderOnce => Stream!InOrderOnce
  BY DEF StreamProofs!InOrderOnce, Stream!InOrderOnce, StreamProofs!Increasing,
         Stream!Increasing
<1>4. StreamProofs!Spec => []StreamProofs!Recoverable
  BY StreamProofs!NoGap, TransportAssumption
<1>5. StreamProofs!Recoverable => Stream!Recoverable
  BY DEF StreamProofs!Recoverable, Stream!Recoverable, StreamProofs!Range, Stream!Range
<1> QED BY <1>1, <1>2, <1>3, <1>4, <1>5, TransportIsStream, PTL

-----------------------------------------------------------------------------
(* What the provider has sent, the server logged, the backend answered and *)
(* the machine entered, against what was decided.                          *)
Paid == payment = "approved"
CalledOff == payment = "cancelled"

TruthInv ==
  /\ \A i \in 1..Len(log) : log[i] \in sent
  /\ "payment.succeeded" \in sent => Paid
  /\ "payment.cancelled" \in sent \/ "payment.expired" \in sent => CalledOff
  /\ reply \in {"none", "pending_authorization", "failed", "authorized", "declined",
                "cancelled"}
  /\ reply = "authorized" => Paid
  /\ reply = "cancelled" => CalledOff
  /\ state = "completed" => Paid
  /\ state = "cancelled" => CalledOff

LEMMA MovesTo ==
  ASSUME NEW to, NEW redirect, NEW n, Transition(to, redirect, n)
  PROVE  state' \in {state, to}
BY DEF Transition, machine

LEMMA FailMoves == Fail => state' \in {state, "failed"}
BY MovesTo DEF Fail, machine

(* The machine moves on what it has been told.                             *)
LEMMA TruthOfState ==
  ASSUME TruthInv, UNCHANGED <<log, sent, reply, payment>>, NEW to,
         state' \in {state, to},
         to = "completed" => Paid, to = "cancelled" => CalledOff
  PROVE  TruthInv'
BY DEF TruthInv, Paid, CalledOff

LEMMA PageTruth ==
  ASSUME TruthInv, Page
  PROVE  TruthInv'
<1>0. UNCHANGED <<log, sent, reply, payment>>
  BY DEF Page, transport, InitCall, InitReturns, AuthorizeCall, AuthorizeReturns,
         AuthorizeThrows, EmitDeferred, provider
<1>1. CASE InitCall
  <2>1. Transition("initializing", FALSE, subs + 1)
    BY <1>1, Zenon DEF InitCall
  <2>2. state' \in {state, "initializing"}
    BY <2>1, MovesTo
  <2> QED BY <1>0, <2>2, TruthOfState
<1>2. ASSUME NEW loaded \in BOOLEAN, InitReturns(loaded) PROVE TruthInv'
  <2>1. state' \in {state, "ready"} \/ state' \in {state, "failed"}
    BY <1>2, MovesTo, FailMoves DEF InitReturns
  <2> QED BY <1>0, <2>1, TruthOfState
<1>3. CASE AuthorizeCall
  <2>1. Transition("authorizing", FALSE, subs)
    BY <1>3, Zenon DEF AuthorizeCall
  <2>2. state' \in {state, "authorizing"}
    BY <2>1, MovesTo
  <2> QED BY <1>0, <2>2, TruthOfState
<1>4. ASSUME NEW redirect \in BOOLEAN, AuthorizeReturns(redirect) PROVE TruthInv'
  <2>1. state' \in {state, Target(reply)}
    BY <1>4, MovesTo DEF AuthorizeReturns
  <2>2. /\ Target(reply) = "completed" => Paid
        /\ Target(reply) = "cancelled" => CalledOff
    BY DEF TruthInv, Target
  <2> QED BY <1>0, <2>1, <2>2, TruthOfState
<1>5. CASE AuthorizeThrows
  BY <1>0, <1>5, FailMoves, TruthOfState DEF AuthorizeThrows
<1>6. ASSUME NEW e \in CheckoutEvent, EmitDeferred(e) PROVE TruthInv'
  BY <1>0, <1>6, TruthOfState DEF EmitDeferred
<1> QED BY <1>1, <1>2, <1>3, <1>4, <1>5, <1>6 DEF Page

LEMMA ProviderTruth ==
  ASSUME TruthInv, Provider
  PROVE  TruthInv'
<1>0. UNCHANGED <<log, state>>
  BY DEF Provider, transport, OrderOpened, OrderDecided, ProviderDecides, machine
<1>1. CASE OrderOpened
  BY <1>0, <1>1 DEF OrderOpened, TruthInv, Paid, CalledOff
<1>2. ASSUME NEW decision \in Decision, NEW kind \in WebhooksFor(decision),
             OrderDecided(decision, kind) \/ ProviderDecides(decision, kind)
      PROVE  TruthInv'
  <2>1. /\ payment \in {"none", "open"} /\ payment' = decision /\ sent' = sent \cup {kind}
        /\ reply' \in {reply, StatusFor(decision)}
    BY <1>2 DEF OrderDecided, ProviderDecides
  <2>2. CASE decision = "approved"
    BY <1>0, <2>1, <2>2 DEF TruthInv, Paid, CalledOff, WebhooksFor, StatusFor
  <2>3. CASE decision = "declined"
    BY <1>0, <2>1, <2>3 DEF TruthInv, Paid, CalledOff, WebhooksFor, StatusFor
  <2>4. CASE decision = "cancelled"
    BY <1>0, <2>1, <2>4 DEF TruthInv, Paid, CalledOff, WebhooksFor, StatusFor
  <2> QED BY <2>2, <2>3, <2>4 DEF Decision
<1> QED BY <1>1, <1>2 DEF Provider

(* The envelope that arrives was published, and so it was sent.            *)
LEMMA ReceiveTruth ==
  ASSUME TruthInv, StreamProofs!StreamTypeOK, Receive
  PROVE  TruthInv'
<1> DEFINE kind == log[Head(wire)]
<1>1. /\ wire # <<>> /\ UNCHANGED <<log, sent, reply, payment>>
      /\ state' \in {state, Verdict(kind)}
  BY MovesTo DEF Receive, Stream!Deliver, OnWebhookEnvelope, provider, machine
<1>2. kind \in sent
  <2>1. wire \in Seq(1..Len(log))
    BY DEF StreamProofs!StreamTypeOK
  <2>2. Head(wire) \in 1..Len(log)
    BY <1>1, <2>1
  <2> QED BY <2>2 DEF TruthInv
<1> HIDE DEF kind
<1>3. /\ Verdict(kind) = "completed" => Paid
      /\ Verdict(kind) = "cancelled" => CalledOff
  BY <1>2 DEF TruthInv, Verdict
<1> QED BY <1>1, <1>3 DEF TruthInv, Paid, CalledOff

LEMMA PublishTruth ==
  ASSUME TruthInv, StreamProofs!StreamTypeOK, NEW kind \in WebhookKind, Webhook(kind)
  PROVE  TruthInv'
<1>1. /\ kind \in sent /\ log' = Append(log, kind)
      /\ UNCHANGED <<sent, reply, payment, state>>
  BY DEF Webhook, Stream!Publish, baseVars, provider, machine
<1>2. log \in Seq(WebhookKind)
  BY DEF StreamProofs!StreamTypeOK
<1>3. ASSUME NEW i \in 1..Len(log') PROVE log'[i] \in sent
  <2>1. /\ Len(log') = Len(log) + 1 /\ log'[Len(log) + 1] = kind
        /\ \A j \in 1..Len(log) : log'[j] = log[j]
    BY <1>1, <1>2
  <2>2. Len(log) \in Nat
    BY <1>2
  <2>3. i \in 1..Len(log) \/ i = Len(log) + 1
    BY <2>1, <2>2
  <2> QED BY <1>1, <2>1, <2>3 DEF TruthInv
<1> QED BY <1>1, <1>3 DEF TruthInv, Paid, CalledOff

LEMMA TruthStep == TruthInv /\ StreamProofs!StreamTypeOK /\ [WCNext]_wcVars => TruthInv'
<1> SUFFICES ASSUME TruthInv, StreamProofs!StreamTypeOK, [WCNext]_wcVars PROVE TruthInv'
  OBVIOUS
<1>1. CASE UNCHANGED <<log, sent, reply, payment, state>>
  BY <1>1 DEF TruthInv, Paid, CalledOff
<1>2. CASE Leave
  <2>1. UNCHANGED <<log, sent, reply, payment, state>>
    BY <1>2 DEF Leave, Destroy, Stream!Stop, provider, machine
  <2> QED BY <1>1, <2>1
<1>3. CASE Transport
  <2>1. UNCHANGED <<log, sent, reply, payment, state>>
    BY <1>3 DEF Transport, Stream!Expire, Stream!Connect, Stream!Cut, Stream!Restart,
                Stream!GiveUp, baseVars, provider, machine
  <2> QED BY <1>1, <2>1
<1>4. CASE UNCHANGED wcVars
  <2>1. UNCHANGED <<log, sent, reply, payment, state>>
    BY <1>4 DEF wcVars, baseVars, transport, provider, machine
  <2> QED BY <1>1, <2>1
<1> QED BY <1>2, <1>3, <1>4, PageTruth, ProviderTruth, ReceiveTruth, PublishTruth DEF WCNext

(* A completed checkout was paid and a cancelled one called off, by the    *)
(* answer or by a webhook that came all the way (routes/webhooks.ts,       *)
(* event-bus.ts, webhook-listener.ts, base-adapter.ts).                    *)
THEOREM TruthInvariance == WCSpec => []TruthInv
<1>1. WCInit => TruthInv
  BY DEF WCInit, BaseInit, Stream!TransportInit, TruthInv, Paid, CalledOff
<1> QED BY <1>1, TruthStep, StreamHolds, PTL DEF WCSpec

-----------------------------------------------------------------------------
(* The handle: a Checkout without a poll timer and without void().         *)
Handle ==
  INSTANCE CheckoutProofs WITH
    MaxPolls <- 0, timer <- FALSE, attempts <- 0, polls <- 0, voidCall <- "none"

LEMMA SameTransition ==
  /\ \A to, redirect, n : Transition(to, redirect, n) => Handle!Transition(to, redirect, n)
  /\ Fail => Handle!Fail
BY Zenon DEF Transition, Handle!Transition, CanTransition, Handle!CanTransition,
   LegalTransitions, Handle!LegalTransitions, FirstEvent, Handle!FirstEvent,
   LaterEvents, Handle!LaterEvents, CheckoutEvent, Handle!CheckoutEvent,
   machine, Handle!machine, Fail, Handle!Fail

LEMMA PageIsHandle ==
  ASSUME Page, pattern # "polled"
  PROVE  Handle!Next
<1> USE SameTransition DEF provider, Handle!provider, machine, Handle!machine
<1> SUFFICES \/ Handle!BaseStep
             \/ \E redirect \in BOOLEAN : Handle!AuthorizeResolves(redirect)
  BY DEF Handle!Next, Handle!Base, Handle!polling
<1>1. CASE InitCall
  BY <1>1 DEF InitCall, Handle!InitCall, Handle!BaseStep
<1>2. ASSUME NEW loaded \in BOOLEAN, InitReturns(loaded) PROVE Handle!InitReturns(loaded)
  BY <1>2 DEF InitReturns, Handle!InitReturns, HasListener, Handle!HasListener
<1>3. CASE AuthorizeCall
  BY <1>3 DEF AuthorizeCall, Handle!AuthorizeCall, Handle!BaseStep
<1>4. ASSUME NEW redirect \in BOOLEAN, AuthorizeReturns(redirect)
      PROVE  Handle!AuthorizeResolves(redirect)
  <2>1. Target(reply) = Handle!Target(reply)
    BY Zenon DEF Target, Handle!Target
  <2> QED BY <1>4, <2>1 DEF AuthorizeReturns, Handle!AuthorizeReturns, Handle!AuthorizeResolves
<1>5. CASE AuthorizeThrows
  BY <1>5 DEF AuthorizeThrows, Handle!AuthorizeThrows, Handle!BaseStep
<1>6. ASSUME NEW e \in CheckoutEvent, EmitDeferred(e)
      PROVE  e \in Handle!CheckoutEvent /\ Handle!EmitDeferred(e)
  BY <1>6 DEF EmitDeferred, Handle!EmitDeferred, CheckoutEvent, Handle!CheckoutEvent
<1> QED BY <1>1, <1>2, <1>3, <1>4, <1>5, <1>6 DEF Page, Handle!BaseStep

LEMMA ProviderIsHandle ==
  ASSUME Provider
  PROVE  Handle!Next
<1> USE DEF machine, Handle!machine
<1>1. CASE OrderOpened
  BY <1>1 DEF OrderOpened, Handle!OrderOpened, Handle!BaseStep, Handle!Next, Handle!Base,
              Handle!polling
<1>2. ASSUME NEW decision \in Decision, NEW kind \in WebhooksFor(decision),
             OrderDecided(decision, kind) \/ ProviderDecides(decision, kind)
      PROVE  /\ decision \in Handle!Decision /\ kind \in Handle!WebhooksFor(decision)
             /\ Handle!OrderDecided(decision, kind) \/ Handle!ProviderDecides(decision, kind)
  BY <1>2 DEF OrderDecided, Handle!OrderDecided, ProviderDecides, Handle!ProviderDecides,
              Decision, Handle!Decision, WebhooksFor, Handle!WebhooksFor,
              StatusFor, Handle!StatusFor
<1>3. CASE \E decision \in Decision : \E kind \in WebhooksFor(decision) :
             OrderDecided(decision, kind) \/ ProviderDecides(decision, kind)
  BY <1>2, <1>3 DEF Handle!BaseStep, Handle!Next, Handle!Base, Handle!polling
<1> QED BY <1>1, <1>3 DEF Provider

LEMMA ReceiveIsHandle ==
  ASSUME TruthInv, StreamProofs!StreamTypeOK, Receive
  PROVE  Handle!Next
<1> DEFINE kind == log[Head(wire)]
<1>1. kind \in sent
  <2>1. wire \in Seq(1..Len(log)) /\ wire # <<>>
    BY DEF StreamProofs!StreamTypeOK, Receive, Stream!Deliver
  <2>2. Head(wire) \in 1..Len(log)
    BY <2>1
  <2> QED BY <2>2 DEF TruthInv
<1>2. OnWebhookEnvelope(kind)
  BY DEF Receive
<1> HIDE DEF kind
<1>3. Verdict(kind) = Handle!Verdict(kind)
  BY Zenon DEF Verdict, Handle!Verdict
<1>4. Handle!OnWebhookEnvelope(kind)
  BY <1>2, <1>3, SameTransition
     DEF OnWebhookEnvelope, Handle!OnWebhookEnvelope, machine, Handle!machine, provider,
         Handle!provider
<1> QED BY <1>1, <1>4 DEF Handle!BaseStep, Handle!Next, Handle!Base, Handle!polling

(* Whatever the transport does, the page's side of it is a Checkout.       *)
LEMMA HandleStep ==
  TruthInv /\ StreamProofs!StreamTypeOK /\ pattern \in Patterns /\ [WCNext]_wcVars
    => [Handle!Next]_(Handle!vars)
<1> SUFFICES ASSUME TruthInv, StreamProofs!StreamTypeOK, pattern \in Patterns, [WCNext]_wcVars
             PROVE  [Handle!Next]_(Handle!vars)
  OBVIOUS
<1>1. CASE UNCHANGED baseVars
  BY <1>1 DEF Handle!vars, Handle!baseVars, Handle!polling, baseVars, machine, Handle!machine,
              provider, Handle!provider
<1>2. CASE Leave
  <2>1. Handle!Teardown
    BY <1>2 DEF Leave, Destroy, Handle!Teardown, Handle!Destroy, machine, Handle!machine,
                provider, Handle!provider
  <2> QED BY <2>1 DEF Handle!Next
<1>3. UNCHANGED wcVars \/ Transport \/ (\E kind \in WebhookKind : Webhook(kind))
        => UNCHANGED baseVars
  BY DEF wcVars, Transport, Webhook
<1> QED BY <1>1, <1>2, <1>3, PageIsHandle, ProviderIsHandle, ReceiveIsHandle,
           NoPollingAssumption DEF WCNext

(* A checkout that hangs on the stream does nothing that the checkout on   *)
(* its own does not do (core/base-adapter.ts, core/checkout-manager.ts).   *)
THEOREM HandleIsCheckout == WCSpec => Handle!Spec
<1>1. WCInit => Handle!Init
  BY DEF WCInit, BaseInit, Handle!Init, Handle!BaseInit, CheckoutEvent, Handle!CheckoutEvent
<1>2. WCSpec => [](pattern \in Patterns)
  <2>1. WCInit => pattern \in Patterns
    BY DEF WCInit, BaseInit
  <2>2. pattern \in Patterns /\ [WCNext]_wcVars => (pattern \in Patterns)'
    <3> SUFFICES ASSUME [WCNext]_wcVars PROVE pattern' = pattern
      BY Zenon
    <3>1. Page => pattern' = pattern
      BY Zenon DEF Page, InitCall, InitReturns, AuthorizeCall, AuthorizeReturns,
                   AuthorizeThrows, EmitDeferred
    <3>2. Provider => pattern' = pattern
      BY Zenon DEF Provider, OrderOpened, OrderDecided, ProviderDecides
    <3>3. Receive \/ Leave => pattern' = pattern
      BY Zenon DEF Receive, OnWebhookEnvelope, Leave, Destroy
    <3>4. ASSUME UNCHANGED baseVars PROVE pattern' = pattern
      BY <3>4 DEF baseVars
    <3> QED BY <3>1, <3>2, <3>3, <3>4, Zenon DEF WCNext, wcVars, Transport, Webhook
  <2> QED BY <2>1, <2>2, PTL DEF WCSpec
<1> QED BY <1>1, <1>2, HandleStep, TruthInvariance, StreamHolds, PTL DEF WCSpec, Handle!Spec

(* So it keeps what a Checkout promises, and decides once.                 *)
THEOREM HandleHolds ==
  WCSpec => /\ []Handle!TypeOK /\ []Handle!EventsMatchState /\ []Handle!OncePerSubscription
            /\ []Handle!AuthorizedBeforeCompleted /\ Handle!ImplementsPromise
<1>0. 0 \in Nat
  OBVIOUS
<1>1. Handle!Spec => []Handle!EventsMatchState
  BY <1>0, Handle!EventsTruthful, PatternsAssumption, MaxInitsAssumption
<1>2. Handle!Spec => []Handle!OncePerSubscription
  BY <1>0, Handle!NoEventTwice, PatternsAssumption, MaxInitsAssumption
<1>3. Handle!Spec => []Handle!AuthorizedBeforeCompleted
  BY <1>0, Handle!AuthorizationFirst, PatternsAssumption, MaxInitsAssumption
<1>4. Handle!Spec => Handle!ImplementsPromise
  BY <1>0, Handle!Implements, PatternsAssumption, MaxInitsAssumption
<1>5. Handle!Spec => []Handle!TypeOK
  BY <1>0, Handle!TypeCorrect, PatternsAssumption, MaxInitsAssumption
<1> QED BY <1>1, <1>2, <1>3, <1>4, <1>5, HandleIsCheckout, PTL

(* Redelivered, replayed and overtaking webhooks never make a listener hear*)
(* of an outcome twice, nor of two, nor of a payment or a cancellation the *)
(* provider did not decide (adapter-state-machine.ts, base-adapter.ts      *)
(* onWebhookEnvelope).                                                     *)
THEOREM OutcomeHeardOnce == WCSpec => []HeardOnce
<1>1. Handle!TypeOK /\ Handle!EventsMatchState /\ Handle!OncePerSubscription /\ TruthInv
        => HeardOnce
  <2> SUFFICES ASSUME Handle!TypeOK, Handle!EventsMatchState, Handle!OncePerSubscription,
                      TruthInv
               PROVE  HeardOnce
    OBVIOUS
  <2>1. \A e \in OutcomeEvents :
          /\ e \in Handle!CheckoutEvent /\ heard[e] \in Nat /\ deferred[e] \in Nat
    BY DEF Handle!TypeOK, OutcomeEvents, Handle!CheckoutEvent
  <2>2. ASSUME NEW e \in OutcomeEvents, heard[e] > 0 PROVE state \in Handle!AnnouncedIn(e)
    <3>1. heard[e] + deferred[e] > 0
      BY <2>1, <2>2
    <3> QED BY <2>1, <3>1 DEF Handle!EventsMatchState
  <2>3. /\ heard["PAYMENT_COMPLETED"] > 0 => state = "completed"
        /\ heard["PAYMENT_FAILED"] > 0 => state = "failed"
        /\ heard["PAYMENT_CANCELLED"] > 0 => state = "cancelled"
    BY <2>2 DEF OutcomeEvents, Handle!AnnouncedIn
  <2>4. \A e, f \in OutcomeEvents : heard[e] > 0 /\ heard[f] > 0 => e = f
    BY <2>3 DEF OutcomeEvents
  <2>5. /\ heard["PAYMENT_COMPLETED"] > 0 => payment = "approved"
        /\ heard["PAYMENT_CANCELLED"] > 0 => payment = "cancelled"
    BY <2>3 DEF TruthInv, Paid, CalledOff
  <2>6. \A e \in OutcomeEvents : heard[e] + deferred[e] <= subs
    BY <2>1 DEF Handle!OncePerSubscription
  <2> QED BY <2>4, <2>5, <2>6 DEF HeardOnce
<1> QED BY <1>1, HandleHolds, TruthInvariance, PTL

=============================================================================
