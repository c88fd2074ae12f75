---------------------------- MODULE ScenarioRunner ----------------------------
(***************************************************************************)
(* The scenario runner of the harness page (assets/inspector.js) against   *)
(* the harness routes: runs of runActive, each a chain of requests, share  *)
(* one Inspector object, its event stream and its timers.  Nothing stops   *)
(* the user from starting a run while another is under way, and "run all"  *)
(* starts the next one 350 ms after the last has answered.                 *)
(*                                                                         *)
(* Run n opens session n and order n.  Time is not measured: a timer fires *)
(* some time after it is set, as the requests it races may take any time.  *)
(***************************************************************************)
EXTENDS HarnessScenarios, LiveTrace, SequencesExt

CONSTANTS
  Scenarios,    \* those the user may run by hand
  BatchPattern, \* the pattern of the APM selected, for "run all"
  MaxRuns,      \* bound: runs
  MaxFailures   \* bound: requests the network loses

ASSUME RunnerAssumption ==
  /\ Scenarios \subseteq Scenario /\ BatchPattern \in Pattern
  /\ MaxRuns \in Nat \ {0} /\ MaxFailures \in Nat

VARIABLES
  run,              \* the runs, in the order they began: scenario, phase,
                    \* whether it lost a request, whether it began alone
  activeSessionId, activeOrderId,   \* of the Inspector, 0 before any
  currentState, visitedStates,
  log,              \* kinds of envelope published to each session
  stream,           \* the session whose stream is open, 0 before any
  delivered,        \* how many of its envelopes it has handed over
  timers,           \* set and not fired: what it will do, for which run
  injecting,        \* webhook-inject requests under way
  batch,            \* each runEligibleBatch: what is left, the run it waits for
  failures          \* counts up to MaxFailures

inspectorVars == <<activeSessionId, activeOrderId, currentState, visitedStates>>
runnerVars == <<run, inspectorVars, log, stream, delivered, timers, injecting,
                batch, failures, traceVars>>

started == Len(run)

Quiet ==
  /\ \A n \in 1..started : run[n].phase = "done"
  /\ timers = {} /\ injecting = {}
  /\ stream > 0 => delivered = Len(log[stream])

Advance(states) ==
  /\ currentState' = Last(states)
  /\ visitedStates' = visitedStates \cup Range(states)

-----------------------------------------------------------------------------
(* runActive up to its first request: everything shown is reset, but the   *)
(* stream of the last session stays open and its timers stay set.          *)
RunActive(s) ==
  /\ started < MaxRuns
  /\ run' = Append(run, [scenario |-> s, phase |-> "session",
                         lost |-> FALSE, alone |-> Quiet])
  /\ currentState' = "initializing"
  /\ visitedStates' = {"idle", "initializing"}
  /\ ResetAndSend(<<started + 1, "session">>)
  /\ UNCHANGED <<activeSessionId, activeOrderId, log, stream, delivered, timers,
                 injecting, failures>>

Press(s) ==
  /\ RunActive(s)
  /\ UNCHANGED batch

(* runEligibleBatch: one scenario, and the next when that one has answered *)
(* and 350 ms are over.  The button is not disabled meanwhile.             *)
Awaits(left) == [left |-> left, awaits |-> started + 1]

PressAll ==
  LET eligible == ScenariosFor(BatchPattern) IN
  /\ RunActive(Head(eligible))
  /\ batch' = batch \cup {Awaits(Tail(eligible))}

BatchNext(b) ==
  /\ b.left # <<>> /\ run[b.awaits].phase = "done"
  /\ RunActive(Head(b.left))
  /\ batch' = (batch \ {b}) \cup {Awaits(Tail(b.left))}

-----------------------------------------------------------------------------
(* The catch of runActive and of the steps after it: PAYMENT_FAILED.       *)
Fails(n, request, lost) ==
  /\ run' = [run EXCEPT ![n].phase = "done", ![n].lost = lost]
  /\ Advance(<<"failed">>)
  /\ Notify(Answered(netlog, <<n, request>>, FALSE))
  /\ UNCHANGED <<activeSessionId, activeOrderId, log, stream, delivered, timers,
                 injecting, batch>>

Lost(n) ==
  /\ run[n].phase \in {"session", "order", "capture", "void"}
  /\ failures < MaxFailures
  /\ failures' = failures + 1
  /\ Fails(n, run[n].phase, TRUE)

(* Mutant: an open stream is left in place.                                *)
SessionReturnsKeepsStream(n) ==
  /\ run[n].phase = "session"
  /\ run' = [run EXCEPT ![n].phase = "order"]
  /\ activeSessionId' = n
  /\ IF stream = 0 THEN stream' = n /\ delivered' = 0 ELSE UNCHANGED <<stream, delivered>>
  /\ Advance(<<"ready", "authorizing">>)
  /\ Notify(Sent(Connected(Answered(netlog, <<n, "session">>, TRUE),
                           <<n, "sse">>), <<n, "order">>))
  /\ UNCHANGED <<activeOrderId, log, timers, injecting, batch, failures>>

(* The session answers: its stream replaces the last, the order is sent.   *)
SessionReturns(n) ==
  /\ run[n].phase = "session"
  /\ run' = [run EXCEPT ![n].phase = "order"]
  /\ activeSessionId' = n
  /\ stream' = n /\ delivered' = 0
  /\ Advance(<<"ready", "authorizing">>)
  /\ Notify(Sent(Connected(Answered(netlog, <<n, "session">>, TRUE),
                           <<n, "sse">>), <<n, "order">>))
  /\ UNCHANGED <<activeOrderId, log, timers, injecting, batch, failures>>

(* The order answers with a state that ends the run.                       *)
Ends(n, states) ==
  /\ run' = [run EXCEPT ![n].phase = "done"]
  /\ Advance(states)
  /\ Notify(Answered(netlog, <<n, "order">>, TRUE))
  /\ UNCHANGED timers

(* runPostAuthStep, the request it sends, and the branch without one.  Its *)
(* refund branch belongs to refund_ok, whose order is answered CAPTURED.   *)
PostAuthRequest ==
  [s \in AuthScenario \ {"authorize_ok_auth_expires"} |->
     IF s = "authorize_ok_void" THEN "void" ELSE "capture"]

PostAuth(n) ==
  LET request == PostAuthRequest[run[n].scenario] IN
  /\ run' = [run EXCEPT ![n].phase = request]
  /\ Advance(IF request = "capture"
             THEN <<"awaiting_merchant_capture", "capturing">>
             ELSE <<"awaiting_merchant_capture">>)
  /\ Notify(Sent(Answered(netlog, <<n, "order">>, TRUE), <<n, request>>))
  /\ UNCHANGED timers

(* The hold that expires, and the webhook that will decide: a timer each.  *)
SetTimer(n, what, states) ==
  /\ run' = [run EXCEPT ![n].phase = "done"]
  /\ timers' = timers \cup {[what |-> what, run |-> n]}
  /\ Advance(states)
  /\ Notify(Answered(netlog, <<n, "order">>, TRUE))

OrderReturns(n) ==
  LET scenario == run[n].scenario
      answer == HarnessAnswer(scenario) IN
  /\ run[n].phase = "order" /\ answer.status = 200
  /\ activeOrderId' = n
  /\ \/ answer.transactionState = "CAPTURED" /\ Ends(n, <<"completed">>)
     \/ answer.transactionState = "DECLINED" /\ Ends(n, <<"failed">>)
     \/ /\ answer.transactionState = "PAYER_ACTION_REQUIRED"
        /\ SetTimer(n, "inject", <<"pending">>)
     \/ /\ answer.transactionState = "AUTHORIZED"
        /\ IF scenario = "authorize_ok_auth_expires"
           THEN SetTimer(n, "expire", <<"awaiting_merchant_capture">>)
           ELSE PostAuth(n)
  /\ UNCHANGED <<activeSessionId, log, stream, delivered, injecting, batch,
                 failures>>

OrderTimesOut(n) ==
  /\ run[n].phase = "order" /\ HarnessAnswer(run[n].scenario).status # 200
  /\ Fails(n, "order", FALSE)
  /\ UNCHANGED failures

(* The capture or the void answers.                                        *)
PostAuthReturns(n) ==
  /\ run[n].phase \in {"capture", "void"}
  /\ run' = [run EXCEPT ![n].phase = "done"]
  /\ Advance(<<IF run[n].phase = "capture" THEN "completed" ELSE "cancelled">>)
  /\ Notify(Answered(netlog, <<n, run[n].phase>>, TRUE))
  /\ UNCHANGED <<activeSessionId, activeOrderId, log, stream, delivered, timers,
                 injecting, batch, failures>>

-----------------------------------------------------------------------------
(* Mutant: CANCELLED is missing and falls to the default.                  *)
KindMapNoCancelled ==
  [CAPTURED |-> "completed", DECLINED |-> "failed", CANCELLED |-> "completed"]

(* The kindMap of injectScenarioWebhook and the switch of onSseEvent.      *)
KindMap ==
  [CAPTURED |-> "completed", DECLINED |-> "failed", CANCELLED |-> "cancelled"]

(* injectScenarioWebhook, delayMs after the order answered: it names the   *)
(* session that is active by then.                                         *)
InjectFires(timer) ==
  /\ timer.what = "inject"
  /\ timers' = timers \ {timer}
  /\ injecting' = injecting \cup {[session |-> activeSessionId, run |-> timer.run]}
  /\ Notify(Sent(netlog, <<timer.run, "inject">>))
  /\ UNCHANGED <<run, inspectorVars, log, stream, delivered, batch,
                 failures>>

(* POST /v2/harness/webhook-inject: published to the session it names.     *)
InjectArrives(i) ==
  /\ log' = [log EXCEPT ![i.session] =
                Append(@, ScenarioWebhook[run[i.run].scenario])]
  /\ injecting' = injecting \ {i}
  /\ Notify(Answered(netlog, <<i.run, "inject">>, TRUE))
  /\ UNCHANGED <<run, inspectorVars, stream, delivered, timers, batch,
                 failures>>

(* Its catch adds a PAYMENT_FAILED event and leaves the state.             *)
InjectLost(i) ==
  /\ failures < MaxFailures
  /\ failures' = failures + 1
  /\ injecting' = injecting \ {i}
  /\ run' = [run EXCEPT ![i.run].lost = TRUE]
  /\ Notify(Answered(netlog, <<i.run, "inject">>, FALSE))
  /\ UNCHANGED <<inspectorVars, log, stream, delivered, timers, batch>>

(* The timer of authorize_ok_auth_expires.                                 *)
ExpireFires(timer) ==
  /\ timer.what = "expire"
  /\ timers' = timers \ {timer}
  /\ Advance(<<"auth_expired">>)
  /\ UNCHANGED <<run, activeSessionId, activeOrderId, log, stream, delivered,
                 injecting, batch, failures, traceVars>>

(* onSseEvent. *)
SseDelivers ==
  /\ stream > 0 /\ delivered < Len(log[stream])
  /\ delivered' = delivered + 1
  /\ Advance(<<KindMap[log[stream][delivered + 1]]>>)
  /\ UNCHANGED <<run, activeSessionId, activeOrderId, log, stream, timers,
                 injecting, batch, failures, traceVars>>

(* The trace console plays a script: it resets the diagram, not the log.   *)
PlayScript ==
  /\ Reset
  /\ UNCHANGED <<run, inspectorVars, log, stream, delivered, timers, injecting,
                 batch, failures>>

-----------------------------------------------------------------------------
RunnerInit ==
  /\ run = <<>>
  /\ activeSessionId = 0 /\ activeOrderId = 0
  /\ currentState = "idle" /\ visitedStates = {"idle"}
  /\ log = [n \in 1..MaxRuns |-> <<>>] /\ stream = 0 /\ delivered = 0
  /\ timers = {} /\ injecting = {}
  /\ batch = {} /\ failures = 0
  /\ TraceInit

Answer(n) ==
  SessionReturns(n) \/ OrderReturns(n) \/ OrderTimesOut(n) \/ PostAuthReturns(n)

RunnerNext ==
  \/ \E s \in Scenarios : Press(s)
  \/ PressAll \/ \E b \in batch : BatchNext(b)
  \/ \E n \in 1..started : Answer(n) \/ Lost(n)
  \/ \E timer \in timers : InjectFires(timer) \/ ExpireFires(timer)
  \/ \E i \in injecting : InjectArrives(i) \/ InjectLost(i)
  \/ SseDelivers \/ PlayScript

(* The server answers or the request fails, timers fire, and the stream    *)
(* hands over what was published.                                          *)
RunnerFairness ==
  /\ \A n \in 1..MaxRuns : WF_runnerVars(n <= started /\ Answer(n))
  /\ WF_runnerVars(\E timer \in timers : InjectFires(timer) \/ ExpireFires(timer))
  /\ WF_runnerVars(\E i \in injecting : InjectArrives(i))
  /\ WF_runnerVars(SseDelivers)

-----------------------------------------------------------------------------
(* A run that no other run overlaps, and that loses no request, ends in    *)
(* the last of the states its scenario promises, having visited them all:  *)
(* the table of scenarios, the answers of the harness and the runner agree *)
(* (scenarios.ts expectedStates, runtime.ts, inspector.js).  A failed      *)
(* script load is answered as a decline.                                   *)
EndsAsExpected ==
  LET latest == run[started] IN
  started > 0 /\ Quiet /\ latest.alone /\ ~latest.lost
      /\ latest.scenario # "script_load_failed"
    => /\ currentState = Last(ExpectedStates[latest.scenario])
       /\ Range(ExpectedStates[latest.scenario]) \subseteq visitedStates

(* A pending state is left again, whichever runs overlap and wherever      *)
(* their webhooks go, unless a webhook is lost (injectScenarioWebhook,     *)
(* connectEvents).                                                         *)
PendingSettles ==
  currentState = "pending"
    ~> currentState # "pending" \/ \E n \in 1..started : run[n].lost

=============================================================================
