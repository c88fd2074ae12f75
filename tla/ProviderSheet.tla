---------------------------- MODULE ProviderSheet ----------------------------
(***************************************************************************)
(* What a payment method does with its provider's SDK between init() and   *)
(* the order (adapters/base/tokenization-base.ts, button-sdk-base.ts,      *)
(* native-wallet-base.ts): load the script, show a sheet, wait for the     *)
(* token of the buyer's approval, forward it.  The handles of one page use *)
(* one provider:                                                           *)
(*   klarna      the sheet opens in authorize()                            *)
(*   applepay    so, once the merchant's backend has validated it; no SDK  *)
(*   paypal      a button, mounted by render(), opens it at every click;   *)
(*               authorize() waits for the token, before or after          *)
(*   unloadable  the adapters that call loadScript with a bare URL: it     *)
(*               reads url of a string and throws before anything loads    *)
(***************************************************************************)
EXTENDS LoadScript, AdapterStateMachine, Naturals

CONSTANTS
  Handles,     \* checkout handles of the page
  HandleOf,    \* the handle on which each init() call is made; init() calls
               \* and calls of loadScript are one to one
  Providers,   \* the providers of this instance
  MaxClicks    \* how often the buyer clicks the button of each handle

ASSUME HandleOfAssumption == HandleOf \in [Loads -> Handles]
ASSUME ProvidersAssumption ==
  Providers \subseteq {"klarna", "applepay", "paypal", "unloadable"}
ASSUME MaxClicksAssumption == MaxClicks \in [Handles -> Nat]

VARIABLES
  provider,   \* the provider of the handles
  state,      \* AdapterStateMachine._state of each
  promise,    \* the token promise: none, open, token, refused
  auth,       \* authorize(): idle, waiting for the token, for a promise that
              \* was replaced (orphaned), for the order (posting), done, threw
  widget,     \* PayPal's button: none, rendering, shown
  clicks,     \* clicks on it
  sheet,      \* the provider's sheet: closed, preparing, open, aborted
  destroyed   \* destroy() was called

handles == <<provider, state, promise, auth, widget, clicks, sheet, destroyed>>
vars == <<loader, handles>>

-----------------------------------------------------------------------------
(* AdapterStateMachine.transition; an illegal one throws and changes       *)
(* nothing.                                                                *)
Moved(h, to) ==
  [state EXCEPT ![h] = IF CanTransition(@, to) THEN to ELSE @]

(* Mutant: only a failure of init() or authorize() themselves shows.       *)
FailedInitOnly(h) ==
  [state EXCEPT ![h] = IF @ \in {"idle", "initializing"} THEN "failed" ELSE @]

(* BaseAdapter.fail *)
Failed(h) ==
  [state EXCEPT ![h] =
     IF @ \in {"idle", "initializing", "authorizing", "pending"}
     THEN "failed" ELSE @]

-----------------------------------------------------------------------------
(* init() up to its first await.  A call while another runs goes on beside *)
(* it; a call from a later state throws and is left out.                   *)
InitCall(i) ==
  LET h == HandleOf[i]
  IN  /\ state[h] \in {"idle", "initializing"}
      /\ state' = [state EXCEPT ![h] = "initializing"]
      /\ CASE provider \in {"klarna", "paypal"} -> Load(i)
           [] provider = "applepay" ->
                load[i] = "idle" /\ Settled(i, TRUE) /\ UNCHANGED <<page, script, global>>
           [] OTHER ->
                load[i] = "idle" /\ Settled(i, FALSE) /\ UNCHANGED <<page, script, global>>
      /\ UNCHANGED <<provider, promise, auth, widget, clicks, sheet, destroyed>>

(* The rest of init(): a load that failed or a doInit that refuses fails   *)
(* the handle; PayPal's doInit makes the token promise, in place of one    *)
(* that authorize() may be waiting for.                                    *)
InitThrows(i) ==
  /\ load[i] = "rejected" \/ (load[i] = "resolved" /\ provider \in {"klarna", "applepay"})
  /\ load' = [load EXCEPT ![i] = "read"]
  /\ state' = Failed(HandleOf[i])
  /\ UNCHANGED <<page, script, global, provider, promise, auth, widget,
                 clicks, sheet, destroyed>>

InitReturns(i) ==
  LET h == HandleOf[i]
  IN  /\ load[i] = "resolved"
      /\ load' = [load EXCEPT ![i] = "read"]
      /\ IF provider = "paypal"
         THEN /\ promise' = [promise EXCEPT ![h] = "open"]
              /\ auth' = [auth EXCEPT ![h] = IF @ = "waiting" THEN "orphaned" ELSE @]
         ELSE UNCHANGED <<promise, auth>>
      /\ state' = IF state[h] \in {"initializing", "ready"}
                  THEN [state EXCEPT ![h] = "ready"] ELSE Failed(h)
      /\ UNCHANGED <<page, script, global, provider, widget, clicks, sheet,
                     destroyed>>

(* render() mounts PayPal's button.  Left out: a render() beside another,   *)
(* whose button settles the same promise, and Klarna's widget, which holds *)
(* no state.                                                               *)
Render(h) ==
  /\ provider = "paypal" /\ state[h] = "ready" /\ widget[h] = "none"
  /\ widget' = [widget EXCEPT ![h] = "rendering"]
  /\ UNCHANGED <<loader, provider, state, promise, auth, clicks, sheet, destroyed>>

RenderEnds(h, shown) ==
  /\ widget[h] = "rendering"
  /\ widget' = [widget EXCEPT ![h] = IF shown THEN "shown" ELSE "none"]
  /\ UNCHANGED <<loader, provider, state, promise, auth, clicks, sheet, destroyed>>

-----------------------------------------------------------------------------
(* authorize() up to its await; a PayPal promise may be settled already.   *)
AuthorizeCall(h) ==
  /\ state[h] = "ready"
  /\ IF provider = "paypal" /\ promise[h] = "refused"
     THEN /\ state' = [state EXCEPT ![h] = "failed"]
          /\ auth' = [auth EXCEPT ![h] = "threw"]
     ELSE /\ state' = [state EXCEPT ![h] = "authorizing"]
          /\ auth' = [auth EXCEPT ![h] =
                        IF promise[h] = "token" THEN "posting" ELSE "waiting"]
  /\ IF provider = "paypal"
     THEN UNCHANGED <<promise, sheet>>
     ELSE /\ promise' = [promise EXCEPT ![h] = "open"]
          /\ sheet' = [sheet EXCEPT ![h] = IF provider = "applepay"
                                           THEN "preparing" ELSE "open"]
  /\ UNCHANGED <<loader, provider, widget, clicks, destroyed>>

(* Mutant: a refusal settles the promise but authorize() is not told.      *)
SettleUntold(h, outcome) ==
  IF promise[h] # "open" \/ outcome = "refused"
  THEN UNCHANGED <<promise, auth, state>>
  ELSE /\ promise' = [promise EXCEPT ![h] = outcome]
       /\ auth' = [auth EXCEPT ![h] = IF @ = "waiting" THEN "posting" ELSE @]
       /\ UNCHANGED state

(* The first answer settles the token promise.  authorize(), if it waits,  *)
(* goes on to the order or fails the handle.                               *)
Settle(h, outcome) ==
  IF promise[h] # "open"
  THEN UNCHANGED <<promise, auth, state>>
  ELSE /\ promise' = [promise EXCEPT ![h] = outcome]
       /\ IF auth[h] # "waiting"
          THEN UNCHANGED <<auth, state>>
          ELSE IF outcome = "token"
               THEN auth' = [auth EXCEPT ![h] = "posting"] /\ UNCHANGED state
               ELSE auth' = [auth EXCEPT ![h] = "threw"] /\ state' = Failed(h)

(* A click on the button: createOrder asks the backend for an order.  The  *)
(* button outlives the handle's outcome, and destroy().                    *)
Click(h) ==
  /\ widget[h] = "shown" /\ sheet[h] = "closed"
  /\ clicks[h] < MaxClicks[h]
  /\ clicks' = [clicks EXCEPT ![h] = @ + 1]
  /\ sheet' = [sheet EXCEPT ![h] = "preparing"]
  /\ UNCHANGED <<loader, provider, state, promise, auth, widget, destroyed>>

(* The backend has created PayPal's order, or validated Apple's session.   *)
Prepared(h) ==
  /\ sheet[h] = "preparing"
  /\ sheet' = [sheet EXCEPT ![h] = "open"]
  /\ UNCHANGED <<loader, provider, state, promise, auth, widget, clicks, destroyed>>

(* The sheet closes with an answer: Approve is onApprove,                  *)
(* onpaymentauthorized or an approved result; Decline a cancel, an error,  *)
(* a refused result, or a preparation that failed.                         *)
Approve(h) ==
  /\ sheet[h] = "open"
  /\ sheet' = [sheet EXCEPT ![h] = "closed"]
  /\ Settle(h, "token")
  /\ UNCHANGED <<loader, provider, widget, clicks, destroyed>>

Decline(h) ==
  /\ sheet[h] \in {"open", "preparing"}
  /\ sheet' = [sheet EXCEPT ![h] = "closed"]
  /\ Settle(h, "refused")
  /\ UNCHANGED <<loader, provider, widget, clicks, destroyed>>

(* destroy(): Apple's session is aborted, which settles nothing.           *)
Destroy(h) ==
  /\ destroyed' = [destroyed EXCEPT ![h] = TRUE]
  /\ sheet' = [sheet EXCEPT ![h] =
       IF provider # "applepay" THEN @
       ELSE IF @ = "preparing" THEN "aborted" ELSE "closed"]
  /\ UNCHANGED <<loader, provider, state, promise, auth, widget, clicks>>

(* The validation of an aborted session comes back: session.abort() may    *)
(* throw, and then the reject after it is not reached.                     *)
LateValidation(h) ==
  /\ sheet[h] = "aborted"
  /\ sheet' = [sheet EXCEPT ![h] = "closed"]
  /\ Settle(h, "refused") \/ UNCHANGED <<promise, auth, state>>
  /\ UNCHANGED <<loader, provider, widget, clicks, destroyed>>

-----------------------------------------------------------------------------
(* The answer to the order, and what the state machine is asked for.       *)
OrderAnswered(h, to) ==
  /\ auth[h] = "posting"
  /\ auth' = [auth EXCEPT ![h] = "done"]
  /\ state' = Moved(h, to)
  /\ UNCHANGED <<loader, provider, promise, widget, clicks, sheet, destroyed>>

OrderFails(h) ==
  /\ auth[h] = "posting"
  /\ auth' = [auth EXCEPT ![h] = "threw"]
  /\ state' = Failed(h)
  /\ UNCHANGED <<loader, provider, promise, widget, clicks, sheet, destroyed>>

-----------------------------------------------------------------------------
Init ==
  /\ LoaderInit
  /\ provider \in Providers
  /\ state = [h \in Handles |-> "idle"]
  /\ promise = [h \in Handles |-> "none"] /\ auth = [h \in Handles |-> "idle"]
  /\ widget = [h \in Handles |-> "none"] /\ clicks = [h \in Handles |-> 0]
  /\ sheet = [h \in Handles |-> "closed"]
  /\ destroyed = [h \in Handles |-> FALSE]

Outcomes == {"pending", "completed", "failed", "cancelled"}

Next ==
  \/ LoaderStep /\ UNCHANGED handles
  \/ \E i \in Loads : InitCall(i) \/ InitThrows(i) \/ InitReturns(i)
  \/ \E h \in Handles :
       \/ Render(h) \/ \E shown \in BOOLEAN : RenderEnds(h, shown)
       \/ AuthorizeCall(h)
       \/ Click(h) \/ Prepared(h) \/ Approve(h) \/ Decline(h)
       \/ Destroy(h) \/ LateValidation(h)
       \/ \E to \in Outcomes : OrderAnswered(h, to)
       \/ OrderFails(h)

Spec == Init /\ [][Next]_vars

(* Timers fire, awaits resume, and what the buyer or the backend was asked *)
(* is answered.  Nobody has to click or call anything.                     *)
Fairness ==
  /\ \A l \in Loads :
       /\ WF_vars(LoadTimesOut(l) /\ UNCHANGED handles)
       /\ WF_vars(PollEnds(l) /\ UNCHANGED handles)
       /\ WF_vars(InitThrows(l) \/ InitReturns(l))
  /\ \A h \in Handles :
       /\ WF_vars(Prepared(h)) /\ WF_vars(Approve(h) \/ Decline(h))
       /\ WF_vars(OrderFails(h) \/ \E to \in Outcomes : OrderAnswered(h, to))

FairSpec == Spec /\ Fairness

-----------------------------------------------------------------------------
SheetTypeOK ==
  /\ LoaderTypeOK
  /\ provider \in Providers
  /\ state \in [Handles -> AdapterState]
  /\ promise \in [Handles -> {"none", "open", "token", "refused"}]
  /\ auth \in [Handles -> {"idle", "waiting", "orphaned", "posting", "done", "threw"}]
  /\ widget \in [Handles -> {"none", "rendering", "shown"}]
  /\ clicks \in [Handles -> Nat] /\ \A h \in Handles : clicks[h] <= MaxClicks[h]
  /\ sheet \in [Handles -> {"closed", "preparing", "open", "aborted"}]
  /\ destroyed \in [Handles -> BOOLEAN]

(* A handle whose provider needs a script is ready to show a sheet only    *)
(* once the SDK is there, whichever handle's <script> brought it, in       *)
(* whatever order scripts arrive and timers fire (klarna-adapter.ts        *)
(* tokenize, paypal-adapter.ts mountButton).                               *)
ReadyWithSdk ==
  \A h \in Handles :
    provider \in {"klarna", "paypal"} /\ state[h] \in {"ready", "authorizing"}
      => global

(* An overlapping init() may put a new promise in the place of the one that*)
(* authorize() waits for, which then nobody settles: that handle is failed,*)
(* so that the page is not left with a payment that looks under way        *)
(* (button-sdk-base.ts doInit, base-adapter.ts init and fail).             *)
NoOneLeftWaiting ==
  \A h \in Handles : auth[h] = "orphaned" => state[h] = "failed"

(* init() ends: scripts that never arrive, that arrive after their timeout *)
(* and that define nothing are all given up (load-script.ts).              *)
InitEnds ==
  \A l \in Loads : load[l] # "idle" ~> load[l] = "read"

(* A sheet that is up while authorize() waits brings it to an end: the     *)
(* answer is not lost between the callback, the promise and the order.     *)
(* Destroying the handle is the one way out of that promise.               *)
SheetEnds ==
  \A h \in Handles :
    auth[h] = "waiting" /\ sheet[h] # "closed"
      ~> state[h] # "authorizing" \/ destroyed[h]

=============================================================================
