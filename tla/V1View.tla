------------------------------- MODULE V1View -------------------------------
(***************************************************************************)
(* The "V1 Legacy" mode of the demo page (public/assets/v1.js), which      *)
(* polls the status of the v1 server and the lines it writes: activate()   *)
(* waits for first answers before it starts the timers, deactivate() may   *)
(* come before that, and answers may overtake each other.                  *)
(***************************************************************************)
EXTENDS SandboxRoutes

CONSTANTS
  Activations,  \* bound: the calls of activate()
  MaxPolls,     \* bound: requests under way
  None          \* no value

VARIABLES
  followed,    \* the poll this instance follows, status or logs: the timers
               \* of the two are alike and have nothing in common
  isActive,
  intervals,   \* the setIntervals that run, each by the activation that set it
  pollTimer,   \* statusTimer or logsTimer: the one that is remembered
  activating,  \* the activations that wait for their first answers
  activated,   \* the activations so far
  spawned,     \* where the spawner stands with the v1 server
  asking,      \* how many requests have no answer yet
  polls,       \* the answers that are under way
  shown        \* what the view shows

viewVars == <<followed, isActive, intervals, pollTimer, activating, activated, spawned,
              asking, polls, shown>>

(* What GET /v2/harness/v1-status comes to on the page: running, starting, *)
(* or not running.                                                         *)
Kind ==
  CASE spawned \in {"running", "unheld"} -> "running"
    [] spawned = "starting" -> "starting"
    [] OTHER -> "failed"

(* A value is a tuple of what is read; the empty one is an error.          *)
Current == IF followed = "status" THEN <<Kind>> ELSE <<lines>>

Send ==
  /\ asking + Cardinality(polls) < MaxPolls
  /\ asking' = asking + 1

-----------------------------------------------------------------------------
(* activate() up to its await.                                             *)
activate(a) ==
  /\ a \notin activated
  /\ isActive' = TRUE
  /\ activated' = activated \cup {a} /\ activating' = activating \cup {a}
  /\ Send
  /\ UNCHANGED <<followed, intervals, pollTimer, spawned, polls, shown>>

(* stopPolling clears the interval that is remembered, and no other.       *)
deactivate ==
  /\ isActive' = FALSE
  /\ intervals' = intervals \ {pollTimer} /\ pollTimer' = None
  /\ UNCHANGED <<followed, activating, activated, spawned, asking, polls, shown>>

(* Mutant: the timers start once, with the first activation.               *)
startPollingFirst(a) ==
  /\ a \in activating
  /\ activating' = activating \ {a}
  /\ IF activated = {a}
     THEN intervals' = {a} /\ pollTimer' = a
     ELSE UNCHANGED <<intervals, pollTimer>>
  /\ UNCHANGED <<followed, isActive, activated, spawned, asking, polls, shown>>

(* Mutant: the intervals are set beside those that run.                    *)
startPollingBeside(a) ==
  /\ a \in activating
  /\ activating' = activating \ {a}
  /\ intervals' = intervals \cup {a} /\ pollTimer' = a
  /\ UNCHANGED <<followed, isActive, activated, spawned, asking, polls, shown>>

(* Promise.allSettled resumes activate(): the timers start, also when      *)
(* deactivate() has been, and replace those of another activation.         *)
startPolling(a) ==
  /\ a \in activating
  /\ activating' = activating \ {a}
  /\ intervals' = (intervals \ {pollTimer}) \cup {a} /\ pollTimer' = a
  /\ UNCHANGED <<followed, isActive, activated, spawned, asking, polls, shown>>

(* A timer fires; the view may have been left.                             *)
Tick ==
  /\ intervals # {} /\ isActive
  /\ Send
  /\ UNCHANGED <<followed, isActive, intervals, pollTimer, activating, activated,
                 spawned, polls, shown>>

(* The reference server reads the state of the moment.                     *)
PollAnswered ==
  /\ asking > 0 /\ asking' = asking - 1
  /\ polls' = polls \cup {Current}
  /\ UNCHANGED <<followed, isActive, intervals, pollTimer, activating, activated,
                 spawned, shown>>

(* fetchJson throws; what is shown then is an error.                       *)
PollLost ==
  /\ asking > 0 /\ asking' = asking - 1
  /\ lost < MaxLost /\ lost' = lost + 1
  /\ polls' = polls \cup {<<>>}
  /\ UNCHANGED <<followed, isActive, intervals, pollTimer, activating, activated,
                 spawned, shown>>
  /\ UNCHANGED <<sandbox, made, declined, testLog, lines, clears>>

(* renderStatus and renderLogs: an answer is shown, whenever it was made.  *)
Render(value) ==
  /\ polls' = polls \ {value}
  /\ shown' = value
  /\ UNCHANGED <<followed, isActive, intervals, pollTimer, activating, activated,
                 spawned, asking>>

(* What the spawner goes through within one life of the reference server   *)
(* (HarnessProcess): a child whose exit is heard during the wait for its   *)
(* health may be "running" after it all the same, and for good, as is a v1 *)
(* server it did not spawn.                                                *)
SpawnerMoves ==
  [from \in {"not-configured", "starting", "running", "exited", "unheld", "failed"} |->
     CASE from = "not-configured" -> {"starting", "unheld"}
       [] from = "starting" -> {"running", "exited", "failed"}
       [] from = "running" -> {"failed"}
       [] from = "exited" -> {"unheld", "failed"}
       [] OTHER -> {}]

Spawned(to) ==
  /\ followed = "status"
  /\ to \in SpawnerMoves[spawned] /\ spawned' = to
  /\ UNCHANGED <<followed, isActive, intervals, pollTimer, activating, activated,
                 asking, polls, shown>>

ViewInit ==
  /\ followed \in {"status", "logs"}
  /\ isActive = FALSE /\ intervals = {} /\ pollTimer = None
  /\ activating = {} /\ activated = {}
  /\ spawned = "not-configured"
  /\ asking = 0 /\ polls = {} /\ shown = None

ViewStep ==
  \/ \E a \in activating : startPolling(a)
  \/ Tick \/ PollAnswered \/ \E value \in polls : Render(value)
  \/ \E to \in SpawnerMoves[spawned] : Spawned(to)

-----------------------------------------------------------------------------
(* However activations overlap, and whether or not deactivate() came while *)
(* one of them still waited, no timer runs but the one the next            *)
(* deactivate() or activate() will stop: a view that is switched to and    *)
(* fro does not come to poll several times over (v1.js startPolling,       *)
(* stopPolling).                                                           *)
OneTimer == intervals \subseteq {pollTimer}

(* A view that stays active comes to show the status or the lines as they  *)
(* are, whatever modes were switched before and whichever answers came     *)
(* late (v1.js startPolling; "auto-refresh 3s").                           *)
ViewCatchesUp == <>[]isActive => <>[](shown = Current)

=============================================================================
