# Verification of apm-checkout-v2

TLA+ models of the checkout SDK, its webhook transport, the calls from the page
to Commerce Hub, the reference server's harness with the v1 server it spawns,
and the demo page, checked with TLC and proved with TLAPS. The code is the
reference: every definition is translated from `src/`, and `PROJECT.json` names
the lines (`map`), the runs, the hazards and the theorems.

## The system

| Part | State | Operations | Talks to |
|---|---|---|---|
| State machine, event emitter, event bus (`core/adapter-state-machine.ts`, `adapter-event-emitter.ts`, `event-bus.ts`) | the state, the `onChange` listeners, emissions waiting for a listener | `transition`, `onStateChange`, `emit`, `clear` | called by everything in an adapter; calls the merchant's page |
| Adapter lifecycle and handle (`core/base-adapter.ts`, `checkout-manager.ts`) | calls of `init` and `authorize` under way, the listener's wiring | `init`, `render`, `authorize`, `capture`, `void`, `destroy`, webhook envelopes | state machine, session client, webhook listener |
| Adapter families (`adapters/base/*`, `ppro-adapter-factory.ts`, hero adapters) | poll timer and attempts, token promises, provider sheets, scripts | `doAuthorize`, polling, `tokenize`, `void` | provider SDKs, session client |
| Session client and mapper (`core/session-client.ts`, `order-result-mapper.ts`) | none | session, authorize, sale, capture, void, refund; wire to `OrderResult` | order and session routes |
| Order and session routes (`routes/orders.ts`, `sessions.ts`, `error-handler.ts`) | none | forward to Commerce Hub, or answer synthetically | Commerce Hub clients, harness |
| Commerce Hub clients (`client.ts`, `orders-client.ts`, `retry.ts`, `circuit-breaker.ts`) | breaker, attempts, deadline | sessions and orders with retries under one request id | Commerce Hub |
| Webhook intake and transport (`routes/webhooks.ts`, `webhooks/event-bus.ts`, `routes/events.ts`, `core/webhook-listener.ts`) | ring buffer per session, connections, `Last-Event-ID` | publish, replay, subscribe, reconnect | base adapter |
| Reference server process and harness (`app.ts`, `shutdown.ts`, `harness/*`, `routes/harness.ts`, `v1-proxy.ts`) | the v1 child, its status, requests handed on | start, ensure v1, forward, inject a webhook, stop | v1 server, demo page |
| v1 server (`test-harness/server.js`) | Zepto tokens in memory and on disk, the test log | sandbox routes, mocks, refresh, clear | provider sandboxes |
| Demo page (`public/assets/*`) | scenario runs, network log, provider scripts, trace console, V1 view | run, batch, load an SDK, play a trace, poll v1 | harness routes, v1 through the proxy |

What is hard: one state machine is asked for an outcome by the synchronous
answer, webhooks, polls, `void()` and a second `init()`, in any order; events
are announced asynchronously while the machine moves on; the handle may be
destroyed at any await; webhooks are redelivered, overtake each other and the
answer to `authorize()`, and travel over connections that break; an attempt
whose answer is lost may have been carried out, and the next may overtake it;
the breaker sees calls that were admitted in an earlier phase of its own;
refresh tokens are accepted once and several requests refresh at a time; the
child process dies, hangs or meets another on its port; on the demo page runs,
scripts, timers and polls overlap and outlive the choice that started them.

What makes the parts correct: an outcome is decided once and announced
truthfully and once (handle); a deciding webhook reaches a page that is still
there, once and in order (transport); what the page is told is what Commerce Hub
did, once (order calls); the breaker opens exactly on the failures it counts and
recovers (clients); a script is loaded once, a ready handle has its SDK, and a
sheet that opens brings `authorize()` to an end (providers); the stored token
stays good, and the status of v1 and the calls through it come to an end
(harness); a run reaches the states its scenario promises, a PASS in the test log
stands for a success a provider answered, and the button and the trace belong to
the payment method that is shown (demo; the status line of the SDK pane does not
always, see below).

## Modules

The checkout handle:

- `AdapterStateMachine`: the states, the transition table, and the events of
  each state, the first one apart from those behind the listeners' awaits.
- `BaseAdapter`: the lifecycle all families share. An action is one
  uninterrupted stretch of the event loop: a public call up to its first await,
  or a continuation to its end. `initsRunning` and `auth` are the awaits under
  way, `subs` the `onChange` subscriptions (each `init()` adds one before it can
  throw), `deferred` the emissions whose first event is with a listener. The
  payment behind the backend is `payment` and `sent`.
- `Checkout`: `BaseAdapter` with polling, `void()` and teardown: everything that
  can move one handle. The family is the variable `pattern`, chosen initially.
- `PaymentOutcome`: the abstract specification, an outcome that is decided once
  and the set of outcomes the merchant was told.
- `CheckoutProperties`, `CheckoutProofs`, `MCCheckout`: properties, theorems,
  model-checking instance.
- `LoadScript`: `loadScript` for one URL of one page. `page` is what
  `querySelector` can find, `script` what the network still owes each call: a
  `<script>` that a timeout took out of the document runs all the same.
- `ProviderSheet`, `ProviderSheetProofs`, `MCProviderSheet`: the handles of one
  page between `init()` and the order. `promise` is the token promise of a
  handle, `auth` where its `authorize()` stands, `sheet` the provider's sheet,
  `widget` PayPal's button. The provider is a variable chosen initially.

Between the page and Commerce Hub:

- `EventStream`, `EventStreamProofs`: ring buffer, SSE route and EventSource of
  one session. Envelopes are numbered in order of publication. A server never
  mixes sessions, so one session is enough.
- `WebhookCheckout`, `WebhookCheckoutProofs`, `MCWebhookCheckout`: a redirect
  checkout composed with `EventStream`: the handle's `sse` is the listener's
  state, `Receive` is `Deliver` together with `onWebhookEnvelope`, `Leave` is
  `destroy()` together with `stop()`.
- `OrderPromise`: the abstract specification of an order operation: carried out
  at most once and as asked; the page told once, of a success only when it was
  had, of a refusal only when it never will be, or left unsure.
- `OrderCalls`, `OrderCallsProofs`: an order operation from `SessionClient`
  through the route and the client with its retries to Commerce Hub and back.
  `call` is the server's side of each call, `told` what its page was told, `net`
  the attempts Commerce Hub may still get, `answered` and `effects` what it has
  answered and carried out, `ledger` its orders. Page and server each may give
  up on a call the other goes on with.
- `CircuitBreaker`, `CircuitBreakerProofs`, `MCCircuitBreaker`: the breaker with
  the retrying calls of both clients. Time stamps are ages that stop growing
  once they exceed what they are compared with. `trial`, `streak` and `outage`
  are history variables.

The harness and the v1 server:

- `HarnessProcess`: the reference server's process and the v1 processes it
  spawns or meets: `ensureRunning`, `waitForHealth`, the exit handler, shutdown,
  `sandbox-call` and the reverse proxy.
- `ZeptoTokens`: the access token, the refresh token on disk, and the grants of
  the provider (`valid`), under overlapping refreshes and bootstraps.
- `V1Harness`, `V1HarnessProofs`: both together. A v1 process that dies takes
  its memory with it and leaves the file.
- `SandboxRoutes`: the routes of v1 that call Klarna, Cash App and PPRO, the
  mocks, and the test log.

The demo page:

- `HarnessScenarios`: the scenario table, the harness's synthetic answers, which
  patterns a scenario is eligible for.
- `ApmMapping`: the table of payment methods and what the catalog keeps of it.
- `LiveTrace`: the network log and the sequence diagram drawn from it.
- `ScenarioRunner`: `runActive`, its capture or void, "run all", the injected
  webhook and its stream. `run` has one record per run; session, order, state
  and timers are shared as `Inspector` shares them.
- `SdkPane`: provider scripts that load while the visitor changes payment
  method, tab or credentials. `TraceConsole`: the filter of the trace console
  and the scripts it plays. `V1View`: activation and polling of "V1 Legacy".
- `DemoPages`, `DemoProofs`, `MCDemoPages`: the page (`app.js`): mode toggle and
  catalog, every pane, and the v1 routes behind it. `visit` is what the visitor
  came for; panes that share no state are not interleaved with each other.

### Choices

- Nine adapters (Google Pay, Affirm, Afterpay, Sezzle, Zip, TabaPay, Venmo,
  PayPal Pay Later, Cash App) call `loadScript` with a bare URL although it takes
  an options object. `url` is then undefined, `cssEscape(url)` throws a
  TypeError, their catch turns it into a `ScriptLoadError`, and `init()` fails
  before anything loads; what they do with a loaded SDK cannot be reached. They
  are the provider `unloadable`.
- A call of `init()` and its call of `loadScript` share an identity, and a page
  holds handles of one provider: handles of two providers share no URL.
- `capture()` of a handle has no action: `capturing` is legal only from
  `awaiting_merchant_capture`, and no code requests that state
  (`base-adapter.ts:196` sends every authorized order to `completed`), so every
  call throws before it reaches the network. `auth_expired` and
  `script_load_failed` are likewise never requested.
- In `Checkout` the backend is any merchant's backend that forwards to Commerce
  Hub. The reference server's own `GET /v2/orders/:orderId` always answers
  PENDING (`orders.ts:329`), which is the model with `PollInconclusive` only. It
  has no route for `cancelOrder`, which is answered 404.
- `PollConclusive` may answer `failed` for a wire state the mapper does not know.
  In `OrderCalls` the mapper is followed as written: REFUNDED and an answer
  without a known state become `failed` on the page, and a 2xx without an order
  id is `failed` too; no property concludes anything from `failed`. `AUTH_FAILED` and
  `SERVER_ERROR` may be told after Commerce Hub has acted: the outcome is
  unknown then, and the properties say so by leaving them out.
- Commerce Hub is external. It answers a request id it has answered before as it
  did then (`docs/SECURITY.md`, Idempotency); `Turned` are the errors that come
  before it looks at the request. A `fetch` of the page has no timeout: a lost
  answer is a network error.
- A webhook may be sent again, and one may overtake another: `sent` is a set.
- Merchants call `authorize()` at most once per handle because the machine never
  returns to `ready`; `void()` is bounded to one call, the second would find the
  same state.
- The refund branch of `runPostAuthStep` belongs to a scenario that never reaches
  it, and a failed script load is answered as a decline (`EndsAsExpected` says
  so). The sandbox actions `cashapp/status`, `cashapp/payment` and `ppro/status`
  are allowed by `harness.ts` but have no POST route in v1 (404).
- Neither `sandbox-call` nor the proxy has a timeout, and v1 may keep a request as
  long as it lives (`Takes`, `V1Answers`). `CallsAnswered` is about what the
  reference server owes by itself: a call that never ends is held by a v1 server
  that lives; it rests on every way of losing the connection, refused, reset or
  broken, being heard as an error. An answer the proxy has begun to pass on and
  that is broken off by a plain close is left open (`v1-proxy.ts:126`: nobody
  listens to the upstream answer). It is the state `open`, and `CallsAnswered`
  excepts it.
- The verdict of the v1 test log is the HTTP status. Klarna answers a rejected
  order and PPRO a failed charge with a success (`declined`, possible on the routes
  `Deciding`), and both are logged PASS (`server.js:361`, `:632`). `LogTellsTruth`
  counts them as such: it says that there is one PASS for each success a provider
  answered, not that every PASS is a payment.
- `line` is the status line of the SDK pane. A load that ends writes its status
  there whatever payment method is shown by then (`inspector.js:645`,
  `StatusInPlace`); `ButtonOfItsApm` is about the button only.
- A timer of the V1 view is named by the activation that set it, so that one that
  is no longer remembered in `pollTimer` could be seen to run on (`OneTimer`).
  Several requests of the view may be outstanding; they are counted (`asking`).
- The button of "run all" is not disabled while a batch runs: `PressAll` is
  unguarded, and batches overlap up to `MaxRuns`.

## Runs

| Run | Instance | Distinct states | Shows |
|---|---|---|---|
| `checkout` | all families, 2 `init()` calls, poll cap 2 | 227,914 | events agree with the state, once per subscription, completion only for approved money, authorization before completion, refinement of `PaymentOutcome`; the handle is authorizing only while `doAuthorize` has not settled; completion is told, polling stops |
| `webhook_checkout` | redirect family, buffer of 1, 2 envelopes, 1 cut | 87,451 | one outcome is heard once; a deciding webhook settles a pending page unless it is lost or the page leaves |
| `event_stream` | buffer of 2, 5 envelopes, 3 cuts | 3,845 | delivery in order and at most once, no gap after a reconnect, arrival |
| `circuit_breaker` | 3 calls, threshold 2, window 2, cooldown 2, 2 attempts | 52,792 | the breaker is neither late nor early, and half-open comes |
| `provider_sheet` | 2 handles, one initialised twice, 2 clicks, all providers | 232,408 | one script at a time; no handle ready without its SDK; a replaced token promise leaves a failed handle; `init()` ends, an open sheet ends `authorize()` |
| `v1_harness` | 1 request, 2 v1 processes, 2 starts, 2 overlapping agreements, 3 grants, 1 fault | 689,102 | the refresh token on disk is good; "starting" ends, a death is reported; a call that never ends is with a v1 server that lives |
| `order_calls` | 2 calls, 2 attempts, two kinds of early errors | 520,117 | refinement of `OrderPromise` (one effect per call among it); a refusal moved nothing; a success did what was asked; calls end |
| `demo_page` | 2 runs, of batches or alone, 8 scenarios, 2 sandbox calls of 4 routes, 2 successes of each, 2 activations, 2 polls, 3 clicks, 3 moves | 294,316 | runs end as their scenario promises; one arrow per request; the test log agrees with what the providers answered; the button and the trace belong to what is shown; no timer outlives the next deactivation; pending, loading and stale status end |
| `checkout_teardown` | polled family | | violation: the timer starts after `destroy()` |
| `checkout_void` | hero family | | violation: a completed payment is voided and stays completed |
| `early_webhook` | redirect family, 1 envelope | | violation: an early webhook is dropped, the page stays pending |
| `slow_outage` | as `circuit_breaker` | | violation: failures at the deadline never open the breaker |

Every property of a passing run has a mutant beside the definition it changes
(`PROJECT.json` "mutants"): TLC finds the property violated when the mutant
stands in for the code. The type invariants are theorems and are not run again.

`order_calls`, `v1_harness` and `demo_page` set `CHECK_DEADLOCK FALSE`: when every
call, run and click of the bounds has been used, nothing is left to do.

### Bounds

Two `init()` calls give every overlap of two subscriptions and two
initialisations; a third adds none of a new kind. A poll cap of 2 gives
overlapping polls, a stale answer and the cap itself. Two envelopes over a ring
of one give overflow, and one cut gives a replay; `event_stream` goes further
with the transport alone: a ring of two, a Last-Event-ID that was shifted out,
three cuts or restarts. Three calls around a threshold of two give a late
failure and a late success beside a trial; window, cooldown and attempts are the
smallest that can be both met and missed. In `provider_sheet` one handle
initialised twice gives a replaced promise, the other handle a script found,
timed out or removed under it; a second click meets a settled promise.

In `order_calls` two calls may be about one order (a capture beside a void, a
second authorization), and two attempts give an attempt carried out with its
answer lost, one overtaken by the next, and one that arrives after the page was
told. In `v1_harness` two starts of the server leave an orphan on the port, two
processes give the race for it, and two agreements over three grants give two
refreshes that overlap, a loser, and a bootstrap beside them; one fault is a lost
answer, a failed write or a crash. In `demo_page` two runs overlap in every way,
batches start runs by themselves, and the eight scenarios of `Representatives` are
one for each way through `runActive`; two sandbox calls overlap on every shape of
route (answered with an amount check, without, with a decision, mocked), and two
successes of a route give one logged while the other is on its way or cleared; two
activations and two polls give double timers and answers that overtake each
other; two payment methods that share a global, one without a script, and three
moves give a load that ends under another pane. The theorems hold without these
bounds.

### Fairness

Every fairness condition is weak. One is about the merchant's code: a listener it
has registered settles (`CompletionIsTold` and `WebhookSettles` are worth nothing
to a merchant whose listener never returns, since later events wait behind it).
None is about a call of the merchant, a click of a visitor, a script that arrives,
a backend or a v1 server that answers, or a webhook that is not lost, but for what
the items on `WebhookCheckout`, `ProviderSheet` and `DemoPages` say.

- `Checkout`: a listener of the merchant settles; a running timer ticks
  (`setInterval`). `doAuthorize` need not settle: a button waits for its click
  (`button-sdk-base.ts:59`), a promise that was replaced is never settled, Apple's
  teardown aborts without settling (`applepay-adapter.ts:290`), and the page's
  fetch has no timeout. `AuthorizeSettles` is therefore an invariant that says what
  holds once it has settled. No webhook and no answer to a poll is assumed.
- `WebhookCheckout`, `EventStream`: an EventSource reconnects and delivers what
  it received (both by the browser); in `WebhookCheckout` the provider posts each
  webhook at least once, and listeners settle as above.
- `ProviderSheet`: timers fire, awaits resume, a sheet or a backend that was
  asked answers. Scripts need not arrive.
- `CircuitBreaker`: time passes, and `config.ts` reads the breaker every second.
  Calls need not end.
- `OrderCalls`: the server's side of a call goes on (`Server(n)`): an attempt
  ends by an answer or the deadline of `retry.ts`, a backoff ends, an answer is
  sent or lost. Commerce Hub need not answer.
- `V1Harness`: the spawner's probes are answered or time out, the exit event of a
  dead child is delivered, and so is what becomes of a connection: a v1 server
  that listens takes the request, one that does not or that dies makes it an error
  (sockets of a dead process are reset). A v1 process need not bind its port, and
  one that has taken a request need not answer it.
- `DemoPages`: the harness answers, timers fire and the stream delivers
  (`RunnerFairness`), polls are sent and answered, and a browser settles what it
  fetches, well or not. A provider need not come to an end with drawing its button
  (`Rendered` has no fairness, and `LoadEnds` excepts it for the status line).

## Proofs

All theorems hold for every value of the constants within their assumptions.

`CheckoutProofs` (any families, `init()` calls, poll cap): the five invariants of
`checkout`, type correctness, and `Implements`, that `Checkout` implements
`PaymentOutcome`. They follow from the inductive invariant `Inv` (`Invariance`).
The checked invariants are not inductive by themselves. `Inv` adds `Counts`
(polls in flight and attempts of a running timer), `Announced` (what an event
that was heard *or still waits* says of the state; only the events of
`LaterEvents` ever wait; an announced or waiting completion is covered by as many
authorizations), and `ApprovalBacked` (a reply `authorized` or a webhook
`payment.succeeded` exists only once the payment was approved). The heart is
`TransitionKeeps`: a transition to a state that some caller requests keeps
`Announced`, because every state whose events have gone out is unreachable
again. `TransitionDecides`, `EmissionTells` and `Stutters` map each step to
`Decide`, `Tell` or a stutter. `NoneLeftAuthorizing` has an invariant of its own
(`Settling`): an answer of the backend is its last, and whatever `authorize()` asks
for when `doAuthorize` settles is legal from authorizing, or the machine has left
authorizing before (`TransitionSettles`).

`WebhookCheckoutProofs` (any buffer, envelopes, cuts, restarts, `init()` calls)
proves the composition by its parts: whatever the handle does, the transport takes
only steps of `EventStream` (`TransportIsStream`), so the theorems about the stream
hold of it (`StreamHolds`: `StreamProofs` is `EventStreamProofs` instantiated with the
webhook kinds); and whatever the transport does, the handle takes only steps of
`Checkout` without a poll timer and without `void()` (`HandleIsCheckout`,
`HandleHolds`). The second direction needs that what is received has been sent,
which only the whole knows: `TruthInv` follows a decision of the provider through
`sent`, the log, the connection and the answer of the backend to the state of the
machine. `HeardOnce` then combines both: an outcome is heard once for each
`init()`, no second outcome is heard, and it is the provider's.

`EventStreamProofs` (any ring, envelopes, cuts, restarts): `InOrderOnce`,
`Recoverable` and, of each step, `SkipsTheLost`: the page passes over an envelope
only when the ring does not hold it any more. `StreamInv`: the ring and the connection each are a run of ids
that ends with the last one published (`UpToDate`), and of a connection that is
up, what the ring holds has arrived or is on its way (`Covered`). The lemmas on
sequences (`Suffix`, `Grown`, `Pushed`) say what dropping, appending and the full
ring do to a run.

`CircuitBreakerProofs` (any calls, attempts, threshold, durations): the breaker is
neither late (`ClosedMeansBelowThreshold`) nor early (`OpensOnStreakOnly`).
`BreakerInv`: the window is sorted by age, and while the breaker is closed it is
the end of the streak of failures since the last success, where all that precedes
it is outside the rolling window (`Tally`). Without it pruning could lose a
failure that counts.

`OrderCallsProofs` (any calls, attempts, early errors): `OneEffectPerCall`,
`RefusalMeansUntouched`, `SuccessMeansDone`, and `KeepsPromise`, that `OrderCalls`
implements `OrderPromise`. `OrdersInv` follows a call through:
everything Commerce Hub has of a call has that call's one id (`OneId`); it has
one answer to an id, and no refusal once it carried the id out (`OneAnswer`); its
answer says what it carried out (`AnswersMean`); what the server is about to tell
is such an answer, or a refusal before anything was sent (`Answering`, `Unsent`),
and so is what the page was told (`Told`). For the refinement each action is an
`Ask`, a `CarryOut`, a `Tell` or a stutter; that a `CarryOut` finds nothing carried
out and no refusal told, and that a `Tell` is covered, comes from `OrdersInv` before
and after the step, and that an `Ask` finds an unused number from `Unused`.

`V1HarnessProofs` (any agreements, grants, faults, processes): `StoredTokenGood`.
`ZeptoInv` adds `InHand`: as long as nothing has failed, a grant that a request
holds and has not kept is valid, and neither on disk, nor in another request's
hands, nor being redeemed. `HarnessInvariance` is about the processes, for any
number of starts, shutdowns and deaths: a server that is down has left no request
and no claim behind, whoever is "starting" is still waited for (the safety half of
`StartingEnds`), a v1 server is met or owned and never both, one has the port, and a
request that is held is with one that lives (`HeldByLive`, the safety half of
`CallsAnswered`).

`ProviderSheetProofs` (any handles, calls, clicks, providers): the three
invariants of the run, type correctness and `NoDeadScript`. Its inductive
invariant adds `LoadingInPage` (who waits for a script of its own has it in the
document, so a second one is not added), `ResolvedHasSdk` (a load that resolved
has seen the global) and `WaitingShows` (while `authorize()` waits the handle is
authorizing or failed, so the `init()` that replaces its promise finds a state
from which it must fail).

`DemoProofs`: `LogTellsTruth` for any finite number of sandbox calls under way and
any routes, and `OneArrowEach`, `OneTimer`, `ButtonOfItsApm`, `EndsAsExpected`,
`PlayedWhole` and `LoadedIsShown` for any runs, loads, clicks and activations.
`LogInv` keeps for each route the balance of verdicts, calls the provider carried
out or decided against (`Done`), those of them not logged yet, losses and clears;
the checked property is its special case between calls. `OneTimer` is inductive
only because `stopPolling` comes first in `startPolling`. `TraceInv`
replaces the cardinality by "two arrows of one request are equal", which every
step keeps; `Notify` is called with many logs, of which only finiteness matters.
`RunsInv` needs that only an authorized scenario comes to `PostAuth`, which is
where the tables enter (`PostAuthAct`). `PaneInv` says of every load, not only of
the one that draws, that mounts still on the page belong to the payment method
shown; it says nothing while another tab is open, and drawing the pane restores it.

`EndsAsExpected` is about the one run that nothing disturbed, and holds because of
where that run stands: `AloneInv` says that all other runs are over and that this
one is opening, ordering, acting, holding an authorization, awaiting its webhook or
ended (`Underway`), each with the timers, injections, log and visited states of that
stage; `PromisedOne` and `PromisedTwo` compare what it ends in with the table of
scenarios. `PlayedWhole` needs what the recursive `Delay` computes: the timers of a
script are due in the order of its events (`DelayGrows`). `ListInv` then says that
the list is a first part of the script and the timers left are those of the rest;
an event that fires extends it by the next. That the scripts of the table are
conversations is proved from the pieces they are put together from (`TalksJoin`,
`ScriptsTalk`). What holds of every prefix of a sequence is proved by its least
counterexample (`Least`, from `WFMin` and the well-foundedness of `<` on `Nat`): the
library's induction theorems take a predicate as a parameter, which no prover used
here can instantiate. `LoadedIsShown` needs of the table that a method is eligible
for the first country and the first currency of its own row (`ChosenIsOffered`).

The assumptions used are the `ASSUME`s of the modules, which TLC evaluates in the
runs. Three are worth naming: `NoPollingAssumption` (the handle of `WebhookCheckout`
is of a family without a timer, as its title says), `TransportAssumption` (a ring of
at least one entry) and, in the two theorems on the test log, that the sandbox
calls under way are finitely many.

Every invariant and every action property of the passing runs is stated by a
theorem. Only model-checked is liveness: the provers used reason neither about
fairness nor about ENABLED.

## Not modelled

- Token cache and order result cache: `client.ts` reads the cache only when a
  `cacheKey` is passed, which no caller in the repository does, and nothing uses
  `order-result-cache.ts`. A model of them would be of code that never runs.
- Authentication, signatures, redaction, validation and the adapter registry:
  pure functions without state in front of what is modelled.
- Configuration, logging, metrics, CORS, rate limits, the HTML rewriting of the
  proxy, Apple's merchant validation, the fields of the SDK registry.
- Of the demo page: catalog, docs, drawings and the capability drawer are text,
  tables and layout; personas and code snippets only change what is shown;
  `trace.js` is not used. The callbacks pane calls handlers in the page itself:
  its one await (`callbacks.js:241`, the payment method is read after it) decides
  only what a log line says. Choosing another payment method while a scenario runs
  is not modelled; `load()` leaves the run's promises to go on.
- `getOrder` of the reference server is a placeholder; a refund builds its own
  body and changes no state of the handle.

### Read but not made into runs

Disagreements between a comment and the code, and other surprises of the code,
that are modelled as the code has them or left out, and that no run is spent on:

- Half-open admits every call that arrives, not one trial
  (`circuit-breaker.ts:70`, against `:7`); the properties of the breaker hold all
  the same.
- A failed order of a wallet is said to leave the handle ready
  (`native-wallet-base.ts:71`, `:84`); `fail()` drives it to `failed` (`:74`).
- Events of one change are announced behind awaits, so PAYMENT_PENDING may be
  heard after the outcome (`adapter-event-emitter.ts:72`); `core/event-bus.ts:2`
  calls itself ordered.
- A shopper who pays twice makes two requests to Commerce Hub: `docs/SECURITY.md:53`
  asks callers to pass one `clientRequestId`, and the routes pass none
  (`orders.ts:127`). `OrderPromise` is about the retries of one call.
- `script_load_failed` is a state of the machine and ADR-003 and
  `tokenization-base.ts:31` let a failed load reach it; nothing requests it.
- The header of `load-script.ts` promises no second load of a URL, which holds
  for what waits and what is in the document, not for fetches already timed out.
- Apple's sheet is told SUCCESS before the order is posted
  (`applepay-adapter.ts:277`).
- `shutdown.ts` is given no hooks, so it drains nothing and leaves the v1 child
  to the next server.
- `server.js:405` answers a capture or a refund CAPTURED or REFUNDED whatever the
  provider said; its verdict in the test log does follow the provider.
- `sdk-loader.js` remembers a failed load for good, and a script loaded with
  other credentials leaves its global to the next one.
- The status, error and URL of a load are written over those of the payment method
  chosen meanwhile (`inspector.js:645` looks `.sdk__status` up again), and the LIVE
  badge stays on after an unload (`inspector.js:658`).
- A rejected order and a failed charge are logged PASS (`server.js:361`, `:632`),
  while the answer to the page says DECLINED (`server.js:344`).
- No request on the way from the page through v1 has a timeout (`v1-proxy.ts:118`,
  `harness.ts:311`, the fetches of `server.js`).
- The spawner's probe waits 500 ms (`v1-spawner.ts:140`): a listener that is slow is
  missed, and the child spawned beside it dies of the port; a status of "failed"
  stays when a child binds its port after the wait is over.
- In `runActive` the webhook of a batch may come to the run that follows; the
  colours of the diagram are copied when a request is first seen, so it may show
  "pending" for one that was answered.
- The trace console's merchant filter may select another payment method without
  saying so.
- The `creds` a sandbox call may carry (`harness.ts:259`) are not read by v1.

Hazards without a property are listed in `PROJECT.json` with the reason; each is
in this list or under Choices, or has no recovery in the code to be held to
(`webhook-listener.ts:75`).

## What could come next

1. Two sessions over one `InMemoryEventBus`, to replace the argument that they do
   not meet.
2. The composition of `OrderCalls` with `Checkout`, so that `reply` comes from the
   calls instead of from a backend that is given.
3. The caches, once a caller passes a key.
