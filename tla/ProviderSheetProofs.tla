------------------------ MODULE ProviderSheetProofs ------------------------
(***************************************************************************)
(* The safety properties of ProviderSheet for every number of handles,     *)
(* init() calls and clicks.  LoaderInv is the loader's own part of the     *)
(* inductive invariant, SheetInv what the handles add.                     *)
(***************************************************************************)
EXTENDS ProviderSheet, TLAPS

(* Who waits for a <script> of its own has it in the document. *)
LoadingInPage == \A l \in Loads : load[l] = "loading" => l \in page

LoaderInv == LoaderTypeOK /\ LoadingInPage /\ OneScript /\ NoDeadScript

(* A load that an SDK-using handle sees resolve has brought the SDK.       *)
ResolvedHasSdk ==
  provider \in {"klarna", "paypal"}
    => \A l \in Loads : load[l] = "resolved" => global

(* While authorize() waits, the handle is authorizing or already failed. *)
WaitingShows ==
  \A h \in Handles : auth[h] = "waiting" => state[h] \in {"authorizing", "failed"}

HandleTypeOK ==
  /\ provider \in Providers
  /\ state \in [Handles -> AdapterState]
  /\ promise \in [Handles -> {"none", "open", "token", "refused"}]
  /\ auth \in [Handles -> {"idle", "waiting", "orphaned", "posting", "done", "threw"}]
  /\ widget \in [Handles -> {"none", "rendering", "shown"}]
  /\ clicks \in [Handles -> Nat] /\ \A h \in Handles : clicks[h] <= MaxClicks[h]
  /\ sheet \in [Handles -> {"closed", "preparing", "open", "aborted"}]
  /\ destroyed \in [Handles -> BOOLEAN]

SheetInv ==
  HandleTypeOK /\ ResolvedHasSdk /\ ReadyWithSdk /\ WaitingShows /\ NoOneLeftWaiting

Inv == LoaderInv /\ SheetInv

-----------------------------------------------------------------------------
(* A call that has settled may change hands without touching the document. *)
LEMMA SettledKeepsLoader ==
  ASSUME LoaderInv, NEW l \in Loads, NEW to \in {"resolved", "rejected", "read"},
         load' = [load EXCEPT ![l] = to], UNCHANGED <<page, script, global>>,
         load[l] # "loading"
  PROVE  LoaderInv'
BY DEF LoaderInv, LoaderTypeOK, LoadingInPage, OneScript, NoDeadScript

(* A new call adds a <script> only to a document without one.              *)
LEMMA LoadKeepsLoader ==
  ASSUME LoaderInv, NEW l \in Loads, Load(l)
  PROVE  LoaderInv'
<1>1. CASE global /\ Settled(l, TRUE) /\ UNCHANGED <<page, script, global>>
  BY <1>1, SettledKeepsLoader DEF Load, Settled
<1>2. CASE /\ ~global /\ page # {} /\ UNCHANGED <<page, script, global>>
           /\ load' = [load EXCEPT ![l] = "polling"]
  BY <1>2 DEF Load, LoaderInv, LoaderTypeOK, LoadingInPage, OneScript, NoDeadScript
<1>3. CASE /\ ~global /\ page = {} /\ UNCHANGED global
           /\ load' = [load EXCEPT ![l] = "loading"]
           /\ script' = [script EXCEPT ![l] = "fetching"] /\ page' = {l}
  BY <1>3 DEF LoaderInv, LoaderTypeOK, LoadingInPage, OneScript, NoDeadScript
<1> QED BY <1>1, <1>2, <1>3 DEF Load

(* Scripts that arrive or fail and timers that fire keep the loader's part.*)
LEMMA StepKeepsLoader ==
  ASSUME LoaderInv, LoaderStep
  PROVE  LoaderInv'
<1> SUFFICES ASSUME NEW l \in Loads,
                    \/ \E defines \in BOOLEAN : ScriptRuns(l, defines)
                    \/ ScriptErrors(l) \/ LoadTimesOut(l) \/ PollEnds(l)
             PROVE  LoaderInv'
  BY DEF LoaderStep
<1>1. ASSUME NEW defines \in BOOLEAN, ScriptRuns(l, defines)
      PROVE  LoaderInv'
  BY <1>1 DEF ScriptRuns, Settled, LoaderInv, LoaderTypeOK, LoadingInPage,
              OneScript, NoDeadScript
<1>2. CASE ScriptErrors(l)
  BY <1>2 DEF ScriptErrors, Settled, LoaderInv, LoaderTypeOK, LoadingInPage,
              OneScript, NoDeadScript
<1>3. CASE LoadTimesOut(l)
  BY <1>3 DEF LoadTimesOut, Settled, LoaderInv, LoaderTypeOK, LoadingInPage,
              OneScript, NoDeadScript
<1>4. CASE PollEnds(l)
  BY <1>4, SettledKeepsLoader DEF PollEnds, Settled
<1> QED BY <1>1, <1>2, <1>3, <1>4

(* Whatever resolves a load has seen the global, which nothing removes.    *)
LEMMA StepKeepsSdk ==
  ASSUME LoaderTypeOK, ResolvedHasSdk, LoaderStep, UNCHANGED provider
  PROVE  ResolvedHasSdk' /\ (global => global')
<1> SUFFICES ASSUME NEW l \in Loads,
                    \/ \E defines \in BOOLEAN : ScriptRuns(l, defines)
                    \/ ScriptErrors(l) \/ LoadTimesOut(l) \/ PollEnds(l)
             PROVE  ResolvedHasSdk' /\ (global => global')
  BY DEF LoaderStep
<1>1. ASSUME NEW defines \in BOOLEAN, ScriptRuns(l, defines)
      PROVE  ResolvedHasSdk' /\ (global => global')
  BY <1>1 DEF ScriptRuns, Settled, ResolvedHasSdk, LoaderTypeOK
<1>2. CASE ScriptErrors(l) \/ LoadTimesOut(l) \/ PollEnds(l)
  BY <1>2 DEF ScriptErrors, LoadTimesOut, PollEnds, Settled, ResolvedHasSdk,
              LoaderTypeOK
<1> QED BY <1>1, <1>2

-----------------------------------------------------------------------------
(* What fail() leaves of one handle's state. *)
LEMMA FailedState ==
  ASSUME state \in [Handles -> AdapterState], NEW h \in Handles,
         state' = Failed(h)
  PROVE  /\ state' \in [Handles -> AdapterState]
         /\ \A g \in Handles : g # h => state'[g] = state[g]
         /\ state'[h] \in {state[h], "failed"}
         /\ state[h] \in {"authorizing", "failed"} => state'[h] = "failed"
BY DEF Failed, AdapterState

(* What an answer to the token promise leaves of one handle. *)
LEMMA SettleKeeps ==
  ASSUME SheetInv, NEW h \in Handles, NEW outcome \in {"token", "refused"},
         Settle(h, outcome)
  PROVE  /\ state' \in [Handles -> AdapterState]
         /\ promise' \in [Handles -> {"none", "open", "token", "refused"}]
         /\ auth' \in [Handles -> {"idle", "waiting", "orphaned", "posting",
                                   "done", "threw"}]
         /\ WaitingShows' /\ NoOneLeftWaiting'
         /\ \A g \in Handles : state'[g] \in {state[g], "failed"}
<1>1. CASE UNCHANGED <<promise, auth, state>>
  BY <1>1 DEF SheetInv, HandleTypeOK, WaitingShows, NoOneLeftWaiting
<1>2. CASE /\ promise' = [promise EXCEPT ![h] = outcome]
           /\ auth' = [auth EXCEPT ![h] = "posting"] /\ UNCHANGED state
  BY <1>2 DEF SheetInv, HandleTypeOK, WaitingShows, NoOneLeftWaiting
<1>3. CASE /\ promise' = [promise EXCEPT ![h] = outcome]
           /\ auth' = [auth EXCEPT ![h] = "threw"] /\ state' = Failed(h)
  <2>1. state \in [Handles -> AdapterState]
    BY DEF SheetInv, HandleTypeOK
  <2>2. /\ state' \in [Handles -> AdapterState]
        /\ \A g \in Handles : g # h => state'[g] = state[g]
        /\ state'[h] \in {state[h], "failed"}
    BY <1>3, <2>1, FailedState
  <2> QED BY <1>3, <2>2 DEF SheetInv, HandleTypeOK, WaitingShows, NoOneLeftWaiting
<1>4. CASE promise' = [promise EXCEPT ![h] = outcome] /\ UNCHANGED <<auth, state>>
  BY <1>4 DEF SheetInv, HandleTypeOK, WaitingShows, NoOneLeftWaiting
<1> QED BY <1>1, <1>2, <1>3, <1>4 DEF Settle

-----------------------------------------------------------------------------
(* The loader runs by itself: no handle changes. *)
LEMMA LoaderAlone ==
  ASSUME Inv, LoaderStep, UNCHANGED handles
  PROVE  Inv'
<1>1. LoaderInv'
  BY StepKeepsLoader DEF Inv
<1>2. ResolvedHasSdk' /\ (global => global')
  BY StepKeepsSdk DEF Inv, LoaderInv, SheetInv, handles
<1>3. HandleTypeOK' /\ ReadyWithSdk' /\ WaitingShows' /\ NoOneLeftWaiting'
  BY <1>2 DEF Inv, SheetInv, HandleTypeOK, ReadyWithSdk, WaitingShows,
              NoOneLeftWaiting, handles
<1> QED BY <1>1, <1>2, <1>3 DEF Inv, SheetInv

(* init() begins: only a handle that nobody waits on moves. *)
LEMMA InitCallInv ==
  ASSUME Inv, NEW i \in Loads, InitCall(i)
  PROVE  Inv'
<1> DEFINE h == HandleOf[i]
<1>h. h \in Handles
  BY HandleOfAssumption
<1>c. \/ provider \in {"klarna", "paypal"} /\ Load(i)
      \/ /\ provider \notin {"klarna", "paypal"}
         /\ load[i] = "idle" /\ UNCHANGED <<page, script, global>>
         /\ Settled(i, TRUE) \/ Settled(i, FALSE)
  BY DEF InitCall
<1>1. LoaderInv'
  <2>1. CASE Load(i)
    BY <2>1, LoadKeepsLoader DEF Inv
  <2>2. CASE /\ load[i] = "idle" /\ UNCHANGED <<page, script, global>>
             /\ Settled(i, TRUE) \/ Settled(i, FALSE)
    BY <2>2, SettledKeepsLoader DEF Inv, Settled
  <2> QED BY <1>c, <2>1, <2>2
<1>2. UNCHANGED <<provider, global>>
  BY <1>c DEF InitCall, Load
<1>3. ResolvedHasSdk'
  BY <1>c, <1>2 DEF Load, Settled, ResolvedHasSdk, Inv, SheetInv, LoaderInv,
                    LoaderTypeOK
<1>4. /\ state[h] \in {"idle", "initializing"}
      /\ state' = [state EXCEPT ![h] = "initializing"]
      /\ UNCHANGED <<provider, promise, auth, widget, clicks, sheet, destroyed>>
  BY DEF InitCall
<1>5. HandleTypeOK' /\ ReadyWithSdk' /\ WaitingShows' /\ NoOneLeftWaiting'
  BY <1>h, <1>2, <1>4 DEF Inv, SheetInv, HandleTypeOK, ReadyWithSdk,
                          WaitingShows, NoOneLeftWaiting, AdapterState
<1> QED BY <1>1, <1>3, <1>5 DEF Inv, SheetInv

(* init() ends: the handle is ready with the SDK, or failed. *)
LEMMA InitEndsInv ==
  ASSUME Inv, NEW i \in Loads, InitThrows(i) \/ InitReturns(i)
  PROVE  Inv'
<1> DEFINE h == HandleOf[i]
<1>h. h \in Handles
  BY HandleOfAssumption
<1>1. /\ load[i] \in {"resolved", "rejected"}
      /\ load' = [load EXCEPT ![i] = "read"]
      /\ UNCHANGED <<page, script, global, provider, widget, clicks, sheet,
                     destroyed>>
  BY DEF InitThrows, InitReturns
<1>2. LoaderInv'
  BY <1>1, SettledKeepsLoader DEF Inv
<1>3. ResolvedHasSdk'
  BY <1>1 DEF Inv, SheetInv, ResolvedHasSdk, LoaderInv, LoaderTypeOK
<1>t. state \in [Handles -> AdapterState]
  BY DEF Inv, SheetInv, HandleTypeOK
<1>4. CASE InitThrows(i)
  <2>1. state' = Failed(h) /\ UNCHANGED <<promise, auth>>
    BY <1>4 DEF InitThrows
  <2>2. /\ state' \in [Handles -> AdapterState]
        /\ \A g \in Handles : g # h => state'[g] = state[g]
        /\ state'[h] \in {state[h], "failed"}
    BY <1>h, <1>t, <2>1, FailedState
  <2>3. HandleTypeOK' /\ ReadyWithSdk' /\ WaitingShows' /\ NoOneLeftWaiting'
    BY <1>1, <2>1, <2>2 DEF Inv, SheetInv, HandleTypeOK, ReadyWithSdk,
                            WaitingShows, NoOneLeftWaiting
  <2> QED BY <1>2, <1>3, <2>3 DEF Inv, SheetInv
<1>5. CASE InitReturns(i) /\ state[h] \in {"initializing", "ready"}
  <2>1. /\ state' = [state EXCEPT ![h] = "ready"]
        /\ load[i] = "resolved"
        /\ auth[h] # "waiting" /\ auth[h] # "orphaned"
    BY <1>h, <1>5 DEF InitReturns, Inv, SheetInv, WaitingShows, NoOneLeftWaiting
  <2>2. promise' \in [Handles -> {"none", "open", "token", "refused"}]
    BY <1>5 DEF InitReturns, Inv, SheetInv, HandleTypeOK
  <2>3. UNCHANGED auth
    BY <1>h, <1>5, <2>1 DEF InitReturns, Inv, SheetInv, HandleTypeOK
  <2>4. HandleTypeOK' /\ WaitingShows' /\ NoOneLeftWaiting'
    BY <1>h, <1>1, <2>1, <2>2, <2>3
    DEF Inv, SheetInv, HandleTypeOK, WaitingShows, NoOneLeftWaiting, AdapterState
  <2>5. ReadyWithSdk'
    BY <1>h, <1>t, <1>1, <2>1 DEF Inv, SheetInv, ResolvedHasSdk, ReadyWithSdk
  <2> QED BY <1>2, <1>3, <2>4, <2>5 DEF Inv, SheetInv
<1>6. CASE InitReturns(i) /\ state[h] \notin {"initializing", "ready"}
  <2>1. state' = Failed(h)
    BY <1>6 DEF InitReturns
  <2>2. /\ state' \in [Handles -> AdapterState]
        /\ \A g \in Handles : g # h => state'[g] = state[g]
        /\ state'[h] \in {state[h], "failed"}
        /\ state[h] \in {"authorizing", "failed"} => state'[h] = "failed"
    BY <1>h, <1>t, <2>1, FailedState
  <2>3. /\ promise' \in [Handles -> {"none", "open", "token", "refused"}]
        /\ \/ UNCHANGED auth
           \/ auth' = [auth EXCEPT ![h] = IF @ = "waiting" THEN "orphaned" ELSE @]
    BY <1>6 DEF InitReturns, Inv, SheetInv, HandleTypeOK
  <2>4. HandleTypeOK' /\ ReadyWithSdk'
    BY <1>h, <1>1, <2>2, <2>3 DEF Inv, SheetInv, HandleTypeOK, ReadyWithSdk
  <2>5. WaitingShows' /\ NoOneLeftWaiting'
    BY <1>h, <2>2, <2>3 DEF Inv, SheetInv, HandleTypeOK, WaitingShows,
                            NoOneLeftWaiting
  <2> QED BY <1>2, <1>3, <2>4, <2>5 DEF Inv, SheetInv
<1> QED BY <1>4, <1>5, <1>6

(* Steps that leave the loader and the state machines alone.               *)
LEMMA QuietInv ==
  ASSUME Inv, UNCHANGED <<loader, provider, state, auth>>, HandleTypeOK'
  PROVE  Inv'
<1>1. LoaderInv'
  BY DEF Inv, LoaderInv, LoaderTypeOK, LoadingInPage, OneScript, NoDeadScript,
         loader
<1>2. ResolvedHasSdk' /\ ReadyWithSdk' /\ WaitingShows' /\ NoOneLeftWaiting'
  BY DEF Inv, SheetInv, ResolvedHasSdk, ReadyWithSdk, WaitingShows,
         NoOneLeftWaiting, loader
<1> QED BY <1>1, <1>2 DEF Inv, SheetInv

(* The button, the sheet before its answer, and destroy(). *)
LEMMA PageInv ==
  ASSUME Inv, NEW h \in Handles,
         \/ Render(h) \/ \E shown \in BOOLEAN : RenderEnds(h, shown)
         \/ Click(h) \/ Prepared(h) \/ Destroy(h)
  PROVE  Inv'
<1>1. UNCHANGED <<loader, provider, state, promise, auth>>
  BY DEF Render, RenderEnds, Click, Prepared, Destroy
<1>2. clicks' \in [Handles -> Nat] /\ \A g \in Handles : clicks'[g] <= MaxClicks[g]
  <2>1. CASE UNCHANGED clicks
    BY <2>1 DEF Inv, SheetInv, HandleTypeOK
  <2>2. CASE clicks[h] < MaxClicks[h] /\ clicks' = [clicks EXCEPT ![h] = @ + 1]
    <3>1. /\ clicks \in [Handles -> Nat]
          /\ \A g \in Handles : clicks[g] <= MaxClicks[g]
          /\ \A g \in Handles : MaxClicks[g] \in Nat
      BY MaxClicksAssumption DEF Inv, SheetInv, HandleTypeOK
    <3>2. clicks[h] \in Nat /\ clicks[h] + 1 \in Nat
      BY <3>1
    <3>3. clicks' \in [Handles -> Nat]
      BY <2>2, <3>1, <3>2
    <3>4. ASSUME NEW g \in Handles PROVE clicks'[g] <= MaxClicks[g]
      <4>1. CASE g = h
        BY <2>2, <3>1, <3>2, <4>1
      <4>2. CASE g # h
        BY <2>2, <3>1, <4>2
      <4> QED BY <4>1, <4>2
    <3> QED BY <3>3, <3>4
  <2> QED BY <2>1, <2>2 DEF Render, RenderEnds, Click, Prepared, Destroy
<1>3. widget' \in [Handles -> {"none", "rendering", "shown"}]
  BY DEF Inv, SheetInv, HandleTypeOK, Render, RenderEnds, Click, Prepared, Destroy
<1>4. sheet' \in [Handles -> {"closed", "preparing", "open", "aborted"}]
  BY DEF Inv, SheetInv, HandleTypeOK, Render, RenderEnds, Click, Prepared, Destroy
<1>5. destroyed' \in [Handles -> BOOLEAN]
  BY DEF Inv, SheetInv, HandleTypeOK, Render, RenderEnds, Click, Prepared, Destroy
<1>6. HandleTypeOK'
  BY <1>1, <1>2, <1>3, <1>4, <1>5 DEF Inv, SheetInv, HandleTypeOK
<1> QED BY <1>1, <1>6, QuietInv

(* authorize(): a ready handle has the SDK, and starts to wait as an       *)
(* authorizing one.                                                        *)
LEMMA AuthorizeInv ==
  ASSUME Inv, NEW h \in Handles, AuthorizeCall(h)
  PROVE  Inv'
<1>1. UNCHANGED <<loader, provider, widget, clicks, destroyed>> /\ state[h] = "ready"
  BY DEF AuthorizeCall
<1>2. /\ promise' \in [Handles -> {"none", "open", "token", "refused"}]
      /\ sheet' \in [Handles -> {"closed", "preparing", "open", "aborted"}]
  BY DEF AuthorizeCall, Inv, SheetInv, HandleTypeOK
<1>3. \/ /\ state' = [state EXCEPT ![h] = "failed"]
         /\ auth' = [auth EXCEPT ![h] = "threw"]
      \/ /\ state' = [state EXCEPT ![h] = "authorizing"]
         /\ \/ auth' = [auth EXCEPT ![h] = "posting"]
            \/ auth' = [auth EXCEPT ![h] = "waiting"]
  BY DEF AuthorizeCall
<1>4. HandleTypeOK' /\ WaitingShows' /\ NoOneLeftWaiting' /\ ReadyWithSdk'
  BY <1>1, <1>2, <1>3 DEF Inv, SheetInv, HandleTypeOK, WaitingShows,
     NoOneLeftWaiting, ReadyWithSdk, AdapterState, loader
<1>5. LoaderInv' /\ ResolvedHasSdk'
  BY <1>1 DEF Inv, SheetInv, LoaderInv, LoaderTypeOK, LoadingInPage, OneScript,
              NoDeadScript, ResolvedHasSdk, loader
<1> QED BY <1>4, <1>5 DEF Inv, SheetInv

(* The sheet's answer. *)
LEMMA AnswerInv ==
  ASSUME Inv, NEW h \in Handles, Approve(h) \/ Decline(h) \/ LateValidation(h)
  PROVE  Inv'
<1>1. /\ UNCHANGED <<loader, provider, widget, clicks, destroyed>>
      /\ sheet' = [sheet EXCEPT ![h] = "closed"]
      /\ \/ Settle(h, "token") \/ Settle(h, "refused")
         \/ UNCHANGED <<promise, auth, state>>
  BY DEF Approve, Decline, LateValidation
<1>2. CASE Settle(h, "token") \/ Settle(h, "refused")
  <2>1. /\ state' \in [Handles -> AdapterState]
        /\ promise' \in [Handles -> {"none", "open", "token", "refused"}]
        /\ auth' \in [Handles -> {"idle", "waiting", "orphaned", "posting",
                                   "done", "threw"}]
        /\ WaitingShows' /\ NoOneLeftWaiting'
        /\ \A g \in Handles : state'[g] \in {state[g], "failed"}
    BY <1>2, SettleKeeps DEF Inv
  <2>2. HandleTypeOK' /\ ReadyWithSdk'
    BY <1>1, <2>1 DEF Inv, SheetInv, HandleTypeOK, ReadyWithSdk, loader
  <2>3. LoaderInv' /\ ResolvedHasSdk'
    BY <1>1 DEF Inv, SheetInv, LoaderInv, LoaderTypeOK, LoadingInPage, OneScript,
                NoDeadScript, ResolvedHasSdk, loader
  <2> QED BY <2>1, <2>2, <2>3 DEF Inv, SheetInv
<1>3. CASE UNCHANGED <<promise, auth, state>>
  <2>1. HandleTypeOK'
    BY <1>1, <1>3 DEF Inv, SheetInv, HandleTypeOK
  <2> QED BY <1>1, <1>3, <2>1, QuietInv
<1> QED BY <1>1, <1>2, <1>3

(* The order's answer ends authorize(). *)
LEMMA OrderInv ==
  ASSUME Inv, NEW h \in Handles,
         OrderFails(h) \/ \E to \in Outcomes : OrderAnswered(h, to)
  PROVE  Inv'
<1>1. /\ UNCHANGED <<loader, provider, promise, widget, clicks, sheet, destroyed>>
      /\ \/ auth' = [auth EXCEPT ![h] = "done"]
         \/ auth' = [auth EXCEPT ![h] = "threw"]
      /\ state' = Failed(h) \/ \E to \in Outcomes : state' = Moved(h, to)
  BY DEF OrderFails, OrderAnswered
<1>t. state \in [Handles -> AdapterState]
  BY DEF Inv, SheetInv, HandleTypeOK
<1>2. /\ state' \in [Handles -> AdapterState]
      /\ \A g \in Handles : g # h => state'[g] = state[g]
      /\ state'[h] \in {state[h], "failed"} \cup Outcomes
  <2>1. CASE state' = Failed(h)
    BY <2>1, <1>t, FailedState
  <2>2. CASE \E to \in Outcomes : state' = Moved(h, to)
    BY <2>2, <1>t DEF Moved, Outcomes, AdapterState
  <2> QED BY <1>1, <2>1, <2>2
<1>3. HandleTypeOK' /\ WaitingShows' /\ NoOneLeftWaiting' /\ ReadyWithSdk'
  BY <1>1, <1>2 DEF Inv, SheetInv, HandleTypeOK, WaitingShows, NoOneLeftWaiting,
     ReadyWithSdk, Outcomes, loader
<1>4. LoaderInv' /\ ResolvedHasSdk'
  BY <1>1 DEF Inv, SheetInv, LoaderInv, LoaderTypeOK, LoadingInPage, OneScript,
              NoDeadScript, ResolvedHasSdk, loader
<1> QED BY <1>3, <1>4 DEF Inv, SheetInv

-----------------------------------------------------------------------------
(* The inductive invariant holds in every reachable state. *)
THEOREM SheetInvariance == Spec => []Inv
<1>1. Init => Inv
  <2> SUFFICES ASSUME Init PROVE Inv
    OBVIOUS
  <2>1. LoaderInv
    BY DEF Init, LoaderInit, LoaderInv, LoaderTypeOK, LoadingInPage, OneScript,
           NoDeadScript
  <2>2. SheetInv
    BY MaxClicksAssumption
    DEF Init, LoaderInit, SheetInv, HandleTypeOK, ResolvedHasSdk, ReadyWithSdk,
        WaitingShows, NoOneLeftWaiting, AdapterState
  <2> QED BY <2>1, <2>2 DEF Inv
<1>2. Inv /\ [Next]_vars => Inv'
  <2> SUFFICES ASSUME Inv, [Next]_vars PROVE Inv'
    OBVIOUS
  <2>1. CASE LoaderStep /\ UNCHANGED handles
    BY <2>1, LoaderAlone
  <2>2. CASE \E i \in Loads : InitCall(i) \/ InitThrows(i) \/ InitReturns(i)
    BY <2>2, InitCallInv, InitEndsInv
  <2>3. ASSUME NEW h \in Handles,
               \/ Render(h) \/ \E shown \in BOOLEAN : RenderEnds(h, shown)
               \/ Click(h) \/ Prepared(h) \/ Destroy(h)
        PROVE  Inv'
    BY <2>3, PageInv
  <2>4. ASSUME NEW h \in Handles, AuthorizeCall(h)
        PROVE  Inv'
    BY <2>4, AuthorizeInv
  <2>5. ASSUME NEW h \in Handles, Approve(h) \/ Decline(h) \/ LateValidation(h)
        PROVE  Inv'
    BY <2>5, AnswerInv
  <2>6. ASSUME NEW h \in Handles,
               OrderFails(h) \/ \E to \in Outcomes : OrderAnswered(h, to)
        PROVE  Inv'
    BY <2>6, OrderInv
  <2>7. CASE UNCHANGED vars
    <3>1. UNCHANGED <<loader, provider, state, promise, auth, widget, clicks,
                      sheet, destroyed>>
      BY <2>7 DEF vars, handles
    <3>2. HandleTypeOK'
      BY <3>1 DEF Inv, SheetInv, HandleTypeOK
    <3> QED BY <3>1, <3>2, QuietInv
  <2> QED BY <2>1, <2>2, <2>3, <2>4, <2>5, <2>6, <2>7 DEF Next
<1> QED BY <1>1, <1>2, PTL DEF Spec

(* Every variable of the page keeps its type. *)
THEOREM SheetTypeCorrect == Spec => []SheetTypeOK
<1>1. Inv => SheetTypeOK
  BY DEF Inv, LoaderInv, SheetInv, HandleTypeOK, SheetTypeOK
<1> QED BY <1>1, SheetInvariance, PTL

(* However many calls overlap, one <script> at most is waited for, and one *)
(* is in the document.                                                     *)
THEOREM ScriptOnce == Spec => []OneScript
<1>1. Inv => OneScript
  BY DEF Inv, LoaderInv
<1> QED BY <1>1, SheetInvariance, PTL

(* No failed or timed-out <script> stays in the document.                  *)
THEOREM DocumentClean == Spec => []NoDeadScript
<1>1. Inv => NoDeadScript
  BY DEF Inv, LoaderInv
<1> QED BY <1>1, SheetInvariance, PTL

(* A ready handle has its provider's SDK.                                  *)
THEOREM SdkBeforeSheet == Spec => []ReadyWithSdk
<1>1. Inv => ReadyWithSdk
  BY DEF Inv, SheetInv
<1> QED BY <1>1, SheetInvariance, PTL

(* A promise that is replaced under authorize() leaves a failed handle.    *)
THEOREM ReplacementFails == Spec => []NoOneLeftWaiting
<1>1. Inv => NoOneLeftWaiting
  BY DEF Inv, SheetInv
<1> QED BY <1>1, SheetInvariance, PTL

=============================================================================
