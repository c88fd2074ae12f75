--------------------------- MODULE CircuitBreaker ---------------------------
(***************************************************************************)
(* The circuit breaker both Commerce Hub clients share (circuit-breaker.ts)*)
(* around the retries of each call (retry.ts, createSession of client.ts,  *)
(* submit of orders-client.ts).                                            *)
(*                                                                         *)
(* Time stamps are kept as ages, which is all the code compares: an age    *)
(* stops growing once it exceeds what it is compared with.  A call runs    *)
(* from execute() to its result; calls overlap, and a call admitted by a   *)
(* closed breaker may end when the breaker is open or half-open.           *)
(***************************************************************************)
EXTENDS Naturals, Sequences, FiniteSets

CONSTANTS
  Calls,          \* calls that can be under way together
  Threshold,      \* failureThreshold
  Window,         \* rollingWindowMs
  OpenDuration,   \* openDurationMs
  MaxAttempts     \* RetryPolicy.maxAttempts

ASSUME ThresholdAssumption == Threshold \in Nat \ {0}
ASSUME DurationsAssumption == Window \in Nat /\ OpenDuration \in Nat
ASSUME MaxAttemptsAssumption == MaxAttempts \in Nat \ {0}

VARIABLES
  circuit,    \* CircuitBreaker.state
  failures,   \* failureTimestamps, as ages, oldest first
  openFor,    \* age of openedAt
  call,       \* each call: idle, attempting, or in its backoff
  attempt,    \* its attempts so far
  trial,      \* history: the calls a half-open breaker admitted
  streak,     \* history: ages of the failures counted since the last success
  outage      \* history: ages of the calls Commerce Hub failed since then

breaker == <<circuit, failures, openFor>>
vars == <<breaker, call, attempt, trial, streak, outage>>

-----------------------------------------------------------------------------
Older(age) == IF age > Window THEN age ELSE age + 1
AllOlder(s) == [i \in DOMAIN s |-> Older(s[i])]

(* The history keeps as many ages as can matter. *)
Remember(s) ==
  IF Len(s) < Threshold THEN Append(s, 0) ELSE Append(Tail(s), 0)

Recent(s) == Cardinality({i \in DOMAIN s : s[i] <= Window})

Tick ==
  /\ openFor' = IF openFor < OpenDuration THEN openFor + 1 ELSE openFor
  /\ failures' = AllOlder(failures)
  /\ streak' = AllOlder(streak) /\ outage' = AllOlder(outage)
  /\ UNCHANGED <<circuit, call, attempt, trial>>

(* maybeTransitionFromOpen *)
Settled ==
  IF circuit = "open" /\ openFor >= OpenDuration THEN "half-open" ELSE circuit

(* getState: /readyz, and the metrics tick of config.ts every second.      *)
GetState ==
  /\ circuit' = Settled
  /\ UNCHANGED <<failures, openFor, call, attempt, trial, streak, outage>>

(* Mutant: a call turned away restarts the cooldown.                       *)
ExecuteRestartsCooldown(c) ==
  /\ call[c] = "idle"
  /\ circuit' = Settled
  /\ IF Settled = "open"
     THEN openFor' = 0 /\ UNCHANGED <<call, attempt, trial>>
     ELSE /\ call' = [call EXCEPT ![c] = "attempting"]
          /\ attempt' = [attempt EXCEPT ![c] = 1]
          /\ trial' = IF Settled = "half-open" THEN trial \cup {c} ELSE trial
          /\ UNCHANGED openFor
  /\ UNCHANGED <<failures, streak, outage>>

(* execute up to its await: an open breaker throws CircuitOpenError.       *)
Execute(c) ==
  /\ call[c] = "idle"
  /\ circuit' = Settled
  /\ IF Settled = "open"
     THEN UNCHANGED <<call, attempt, trial>>
     ELSE /\ call' = [call EXCEPT ![c] = "attempting"]
          /\ attempt' = [attempt EXCEPT ![c] = 1]
          /\ trial' = IF Settled = "half-open" THEN trial \cup {c} ELSE trial
  /\ UNCHANGED <<failures, openFor, streak, outage>>

Ends(c) ==
  /\ call' = [call EXCEPT ![c] = "idle"]
  /\ attempt' = [attempt EXCEPT ![c] = 0]
  /\ trial' = trial \ {c}

(* Mutant: a success leaves the failure window alone.                      *)
SuccessKeepsWindow ==
  /\ circuit' = IF circuit = "half-open" THEN "closed" ELSE circuit
  /\ UNCHANGED <<failures, openFor>>

(* onSuccess *)
OnSuccess ==
  /\ circuit' = IF circuit = "half-open" THEN "closed" ELSE circuit
  /\ failures' = <<>>
  /\ UNCHANGED openFor

Succeed(c) ==
  /\ call[c] = "attempting"
  /\ OnSuccess /\ Ends(c)
  /\ streak' = <<>> /\ outage' = <<>>

(* A refusal by Commerce Hub (400, 401, 403, 404) or an answer without its *)
(* token or order id is not retried and does not count.                    *)
Refused(c) ==
  /\ call[c] = "attempting"
  /\ Ends(c)
  /\ UNCHANGED <<breaker, streak, outage>>

(* while the oldest is outside the window, shift                           *)
Pruned(s) ==
  LET fresh == {i \in DOMAIN s : s[i] <= Window}
  IN  SubSeq(s, Len(s) - Cardinality(fresh) + 1, Len(s))

(* Mutants: one failure too many is waited for; opening does not clear the *)
(* window.                                                                 *)
FailureLate ==
  LET window == Append(Pruned(failures), 0)
  IN  IF circuit = "half-open"
      THEN circuit' = "open" /\ openFor' = 0 /\ UNCHANGED failures
      ELSE IF Len(window) > Threshold
           THEN circuit' = "open" /\ openFor' = 0 /\ failures' = <<>>
           ELSE failures' = window /\ UNCHANGED <<circuit, openFor>>

FailureNotCleared ==
  LET window == Append(Pruned(failures), 0)
  IN  IF circuit = "half-open"
      THEN circuit' = "open" /\ openFor' = 0 /\ UNCHANGED failures
      ELSE IF Len(window) >= Threshold
           THEN circuit' = "open" /\ openFor' = 0 /\ failures' = window
           ELSE failures' = window /\ UNCHANGED <<circuit, openFor>>

(* onFailure *)
OnFailure ==
  LET window == Append(Pruned(failures), 0)
  IN  IF circuit = "half-open"
      THEN circuit' = "open" /\ openFor' = 0 /\ UNCHANGED failures
      ELSE IF Len(window) >= Threshold
           THEN circuit' = "open" /\ openFor' = 0 /\ failures' = <<>>
           ELSE failures' = window /\ UNCHANGED <<circuit, openFor>>

(* A retryable error (425, 429, 5xx, network) of the last attempt.         *)
Fail(c) ==
  /\ call[c] = "attempting" /\ attempt[c] = MaxAttempts
  /\ OnFailure /\ Ends(c)
  /\ streak' = Remember(streak) /\ outage' = Remember(outage)

(* A retryable error of an earlier one: the call backs off.                *)
BackOff(c) ==
  /\ call[c] = "attempting" /\ attempt[c] < MaxAttempts
  /\ call' = [call EXCEPT ![c] = "backoff"]
  /\ UNCHANGED <<breaker, attempt, trial, streak, outage>>

Retry(c) ==
  /\ call[c] = "backoff"
  /\ call' = [call EXCEPT ![c] = "attempting"]
  /\ attempt' = [attempt EXCEPT ![c] = @ + 1]
  /\ UNCHANGED <<breaker, trial, streak, outage>>

(* The backoff or its end passes the deadline: DeadlineExceededError takes *)
(* the place of the error, and it is not retryable.                        *)
DeadlineExceeded(c) ==
  /\ call[c] = "backoff"
  /\ Ends(c)
  /\ outage' = Remember(outage)
  /\ UNCHANGED <<breaker, streak>>

Reset ==
  /\ circuit' = "closed" /\ failures' = <<>> /\ openFor' = OpenDuration
  /\ streak' = <<>> /\ outage' = <<>>
  /\ UNCHANGED <<call, attempt, trial>>

-----------------------------------------------------------------------------
Init ==
  /\ circuit = "closed" /\ failures = <<>> /\ openFor = OpenDuration
  /\ call = [c \in Calls |-> "idle"] /\ attempt = [c \in Calls |-> 0]
  /\ trial = {} /\ streak = <<>> /\ outage = <<>>

Next ==
  \/ Tick \/ GetState \/ Reset
  \/ \E c \in Calls :
       \/ Execute(c) \/ Succeed(c) \/ Refused(c) \/ Fail(c)
       \/ BackOff(c) \/ Retry(c) \/ DeadlineExceeded(c)

Spec == Init /\ [][Next]_vars

(* Time passes and the metrics are read. *)
FairSpec == Spec /\ WF_vars(Tick) /\ WF_vars(GetState)

-----------------------------------------------------------------------------
TypeOK ==
  /\ circuit \in {"closed", "open", "half-open"}
  /\ failures \in Seq(0..(Window + 1)) /\ Len(failures) < Threshold
  /\ openFor \in 0..OpenDuration
  /\ call \in [Calls -> {"idle", "attempting", "backoff"}]
  /\ attempt \in [Calls -> 0..MaxAttempts]
  /\ trial \subseteq {c \in Calls : call[c] # "idle"}
  /\ streak \in Seq(0..(Window + 1)) /\ Len(streak) <= Threshold
  /\ outage \in Seq(0..(Window + 1)) /\ Len(outage) <= Threshold

(* A closed breaker is never late to open: with calls overlapping, failures*)
(* aging and the window pruned only when the next failure comes, fewer than*)
(* failureThreshold failures since the last success are in the window      *)
(* (circuit-breaker.ts onFailure).                                         *)
ClosedMeansBelowThreshold ==
  circuit = "closed" => Recent(streak) < Threshold

(* It never opens early: without a half-open trial only failureThreshold   *)
(* failures since the last success, all in the window, open it.            *)
OpensOnStreakOnly ==
  [][ circuit = "closed" /\ circuit' = "open" => Recent(streak') >= Threshold ]_vars

(* An open breaker comes to admit a trial.  Calls admitted earlier can fail*)
(* late and restart the cooldown, but they run out (circuit-breaker.ts     *)
(* onFailure, maybeTransitionFromOpen).                                    *)
CooldownEnds == circuit = "open" ~> circuit # "open"

=============================================================================
