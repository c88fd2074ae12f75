----------------------------- MODULE TraceConsole -----------------------------
(***************************************************************************)
(* The trace console of the demo page (assets/trace-console.js): a filter  *)
(* that picks the payment methods on offer (capabilities-lookup.js), and a *)
(* script per scenario (trace-scenarios.js) that Inspector plays into the  *)
(* console's list, one timer per event (inspector.js).  Who looks at it    *)
(* (the persona) and what an event shows are left out.                     *)
(***************************************************************************)
EXTENDS ApmMapping

CONSTANTS
  Catalog,   \* the payment methods of the catalog, in its order
  MaxClicks  \* bound: choices and presses of "Run scenario"

ASSUME TraceConsoleAssumption ==
  Catalog \in Seq(ApmIds) /\ Catalog # <<>> /\ MaxClicks \in Nat

VARIABLES
  country, currency, captureMode, apmId, scenarioId,  \* state of the console
  plays,  \* each script played: which, the timers still set, and whether it
          \* had the list to itself
  clicks, \* counts what MaxClicks bounds
  rows    \* what the list shows: the events of the last play, and whether
          \* those of an earlier one are among them

consoleState == <<country, currency, captureMode, apmId, scenarioId>>
consoleVars == <<consoleState, plays, clicks, rows>>

-----------------------------------------------------------------------------
(* trace-scenarios.js: who speaks to whom, after how long.                 *)
step(from, to, delayMs) == [from |-> from, to |-> to, delayMs |-> delayMs]

Session ==
  <<step("browser", "merchant", 200), step("merchant", "chCreds", 300),
    step("chCreds", "merchant", 300), step("merchant", "browser", 200)>>

Order(thinking, answering) ==
  <<step("browser", "merchant", thinking), step("merchant", "chOrders", 400),
    step("chOrders", "provider", 500), step("provider", "chOrders", answering),
    step("chOrders", "merchant", 200), step("merchant", "browser", 200)>>

buildSyncSale == Session \o Order(400, 500)
buildAsyncWebhook ==
  Session \o Order(400, 500)
    \o <<step("webhook", "merchant", 2000), step("merchant", "browser", 200)>>
buildMerchantCapture == Session \o Order(400, 400) \o Order(1500, 400)
buildDeclined == Session \o Order(400, 500)

Script ==
  [sync_sale_ok |-> buildSyncSale, async_webhook_ok |-> buildAsyncWebhook,
   merchant_capture_ok |-> buildMerchantCapture, declined |-> buildDeclined]

(* buildScenariosForApm. *)
Offers(id) ==
  {"sync_sale_ok", "declined"}
    \cup {s \in {"async_webhook_ok"} :
             \/ Capabilities(id).webhook
             \/ APM_MAPPING[id].pattern \in {"qr", "voucher"}}
    \cup {s \in {"merchant_capture_ok"} :
             /\ Capabilities(id).merchantInitiated
             /\ Capabilities(id).separateCapture}

-----------------------------------------------------------------------------
(* getEligibleApms: the places in the catalog of the methods on offer.     *)
Eligible(c, x, mode) ==
  {i \in DOMAIN Catalog : EligibleFor(Catalog[i], c, x, mode)}

OnOffer(c, x, mode) == {Catalog[i] : i \in Eligible(c, x, mode)}

uniqueCountries == UNION {Range(APM_MAPPING[id].countries) : id \in Range(Catalog)}
uniqueCurrencies == UNION {Range(APM_MAPPING[id].currencies) : id \in Range(Catalog)}

(* render, after a change to the console's state: it replaces a payment    *)
(* method that is not on offer by the first that is, then a scenario that  *)
(* the method does not have.  Every change ends with it.                   *)
render(c, x, mode, id, scenario) ==
  LET shown == IF id \in OnOffer(c, x, mode) THEN id
               ELSE IF OnOffer(c, x, mode) = {} THEN "none"
               ELSE Catalog[Min(Eligible(c, x, mode))]
  IN  /\ country' = c /\ currency' = x /\ captureMode' = mode
      /\ apmId' = shown
      /\ scenarioId' = IF shown # "none" /\ scenario \in Offers(shown)
                       THEN scenario ELSE "sync_sale_ok"

Choose ==
  /\ clicks < MaxClicks /\ clicks' = clicks + 1
  /\ \/ \E c \in uniqueCountries :
          render(c, currency, captureMode, apmId, scenarioId)
     \/ \E x \in uniqueCurrencies :
          render(country, x, captureMode, apmId, scenarioId)
     \/ \E mode \in {"GATEWAY", "MERCHANT"} :
          render(country, currency, mode, apmId, scenarioId)
     \/ \E id \in OnOffer(country, currency, captureMode) :
          render(country, currency, captureMode, id, scenarioId)
     \/ /\ apmId # "none"
        /\ \E scenario \in Offers(apmId) :
             render(country, currency, captureMode, apmId, scenario)
  /\ UNCHANGED <<plays, rows>>

(* The list is emptied under a script that goes on.                        *)
NoRows == [shown |-> <<>>, mixed |-> FALSE]
Disturbed == [p \in DOMAIN plays |-> [plays[p] EXCEPT !.alone = FALSE]]

Seeded(list, x) == IF list # <<>> /\ x \notin Range(list) THEN Head(list) ELSE x

(* Mutant: the currency stays what it was.                                 *)
resetForApmKeepsCurrency(id) ==
  /\ render(Seeded(APM_MAPPING[id].countries, country), currency, captureMode, id,
            "sync_sale_ok")
  /\ rows' = NoRows /\ plays' = Disturbed
  /\ clicks < MaxClicks /\ clicks' = clicks + 1

(* resetForApm: the payment method comes from the catalog.                 *)
resetForApm(id) ==
  /\ render(Seeded(APM_MAPPING[id].countries, country),
            Seeded(APM_MAPPING[id].currencies, currency), captureMode, id,
            "sync_sale_ok")
  /\ rows' = NoRows /\ plays' = Disturbed
  /\ clicks < MaxClicks /\ clicks' = clicks + 1

-----------------------------------------------------------------------------
(* onRunScenario adds up the delays as it goes along the events.           *)
Delay(script) ==
  LET due[i \in 0..Len(script)] ==
        IF i = 0 THEN 0 ELSE due[i - 1] + script[i].delayMs
  IN  due

(* Mutant: the loop over the events ends one too early.                    *)
TimersButLast(script) ==
  {[event |-> i, due |-> Delay(script)[i]] : i \in 1..Len(script) - 1}

(* One timer for each event, further and further away.                     *)
Timers(script) == {[event |-> i, due |-> Delay(script)[i]] : i \in 1..Len(script)}

Playing == {p \in DOMAIN plays : plays[p].timers # {}}

(* run, and onRunScenario.  The timers of an earlier script stay set.      *)
RunScenario ==
  /\ apmId # "none"
  /\ clicks < MaxClicks /\ clicks' = clicks + 1
  /\ plays' = Append(plays, [scenario |-> scenarioId,
                             timers |-> Timers(Script[scenarioId]),
                             alone |-> Playing = {}])
  /\ rows' = NoRows
  /\ UNCHANGED consoleState

(* A timer fires, none of its script before one that is due earlier:       *)
(* pushRow.                                                                *)
EventFires(p) ==
  \E timer \in plays[p].timers :
    /\ \A other \in plays[p].timers : timer.due <= other.due
    /\ plays' = [plays EXCEPT ![p].timers = @ \ {timer}]
    /\ rows' = IF p = Len(plays) THEN [rows EXCEPT !.shown = Append(@, timer.event)]
               ELSE [rows EXCEPT !.mixed = TRUE]
    /\ UNCHANGED <<consoleState, clicks>>

-----------------------------------------------------------------------------
(* boot selects a payment method of the catalog.                           *)
ConsoleInit(id) ==
  /\ country = Seeded(APM_MAPPING[id].countries, "NL")
  /\ currency = Seeded(APM_MAPPING[id].currencies, "EUR")
  /\ captureMode = "GATEWAY" /\ apmId = id /\ scenarioId = "sync_sale_ok"
  /\ plays = <<>> /\ clicks = 0 /\ rows = NoRows

ConsoleStep == RunScenario \/ \E p \in Playing : EventFires(p)

-----------------------------------------------------------------------------
(* Lanes from left to right: a message to the right is a request.          *)
Lane == [browser |-> 1, merchant |-> 2, chCreds |-> 3, chOrders |-> 4,
         provider |-> 5, webhook |-> 0]

Request(m) == m.from # "webhook" /\ Lane[m.from] < Lane[m.to]

(* Everybody speaks after having been spoken to, but for the webhook, and  *)
(* no request is left unanswered.                                          *)
Conversation(said) ==
  /\ \A i \in 2..Len(said) : said[i].from \in {said[i - 1].to, "webhook"}
  /\ \A i \in 1..Len(said) : Request(said[i]) =>
       \E j \in i + 1..Len(said) :
         said[j].from = said[i].to /\ said[j].to = said[i].from

(* A script that had the console to itself is listed whole when it is      *)
(* over, and tells a conversation (trace-scenarios.js, inspector.js        *)
(* onRunScenario).                                                         *)
PlayedWhole ==
  Playing = {} /\ plays # <<>> /\ Last(plays).alone =>
    LET script == Script[Last(plays).scenario]
        listed == [i \in DOMAIN rows.shown |-> script[rows.shown[i]]]
    IN  ~rows.mixed /\ Len(listed) = Len(script) /\ Conversation(listed)

=============================================================================
