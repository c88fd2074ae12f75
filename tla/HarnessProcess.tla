---------------------------- MODULE HarnessProcess ----------------------------
(***************************************************************************)
(* The process of the reference server in harness mode and the v1 server   *)
(* it spawns: app.ts and observability/shutdown.ts, harness/v1-spawner.ts, *)
(* and the requests routes/harness.ts (sandbox-call) and v1-proxy.ts hand  *)
(* on.  Nothing stops the child when the server goes, so the next server   *)
(* may meet it.                                                            *)
(***************************************************************************)
EXTENDS Naturals, FiniteSets

CONSTANTS
  Requests,  \* requests of the demo pages for the v1 server
  MaxProcs,  \* bound: v1 processes
  MaxBoots   \* bound: starts of the reference server

ASSUME ProcessAssumption == MaxProcs \in Nat /\ MaxBoots \in Nat

VARIABLES
  server,      \* down, up
  boots,       \* counts up to MaxBoots
  ensure,      \* where ensureRunning stands: off, probing, found, waiting, healthy
  status,      \* of the V1Spawner
  isExternal,
  child,       \* the process it holds, 0 for null
  procs,       \* v1 processes so far: booting, listening, dead
  request      \* idle; handed on: forwarded (sandbox-call) or proxied; with a
               \* v1 server: taken, relayed or streaming; cut off by its death:
               \* reset or broken; over (answered, with an error or not, or
               \* cut); or left open

spawner == <<ensure, status, isExternal, child>>
processVars == <<server, boots, spawner, procs, request>>

Held == {"taken", "relayed", "streaming"}
UnderWay == Held \cup {"forwarded", "proxied", "reset", "broken"}

Listening == \E p \in DOMAIN procs : procs[p] = "listening"

-----------------------------------------------------------------------------
(* index.ts and buildApp: ensureRunning probes the port.                   *)
Boot ==
  /\ server = "down" /\ boots < MaxBoots
  /\ server' = "up" /\ boots' = boots + 1
  /\ ensure' = "probing"
  /\ UNCHANGED <<status, isExternal, child, procs, request>>

ProbeAnswered ==
  /\ ensure = "probing" /\ Listening
  /\ ensure' = "found"
  /\ UNCHANGED <<server, boots, status, isExternal, child, procs, request>>

FoundExternal ==
  /\ ensure = "found"
  /\ ensure' = "off" /\ isExternal' = TRUE /\ status' = "running"
  /\ UNCHANGED <<server, boots, child, procs, request>>

(* Nobody answers within 500 ms, though somebody may listen: a child of    *)
(* its own.                                                                *)
Spawn ==
  /\ ensure = "probing" /\ Cardinality(DOMAIN procs) < MaxProcs
  /\ child' = Cardinality(DOMAIN procs) + 1
  /\ procs' = [p \in DOMAIN procs \cup {child'} |->
                 IF p = child' THEN "booting" ELSE procs[p]]
  /\ ensure' = "waiting" /\ status' = "starting"
  /\ UNCHANGED <<server, boots, isExternal, request>>

(* waitForHealth, every 300 ms for 10 s: whoever listens answers.          *)
HealthAnswered ==
  /\ ensure = "waiting" /\ Listening
  /\ ensure' = "healthy"
  /\ UNCHANGED <<server, boots, status, isExternal, child, procs, request>>

Healthy ==
  /\ ensure = "healthy"
  /\ ensure' = "off" /\ status' = "running"
  /\ UNCHANGED <<server, boots, isExternal, child, procs, request>>

(* Mutant: the wait has no deadline.                                       *)
WaitTimesOutNever == FALSE /\ UNCHANGED processVars

WaitTimesOut ==
  /\ ensure = "waiting"
  /\ ensure' = "off" /\ status' = "failed"
  /\ UNCHANGED <<server, boots, isExternal, child, procs, request>>

-----------------------------------------------------------------------------
(* server.js binds the port, or dies of it being taken.                    *)
V1Binds(p) ==
  /\ procs[p] = "booting"
  /\ procs' = [procs EXCEPT ![p] = IF Listening THEN "dead" ELSE "listening"]
  /\ UNCHANGED <<server, boots, spawner, request>>

(* What a v1 server that dies was in the middle of breaks off.             *)
CutOff(phase) ==
  CASE phase \in {"taken", "relayed"} -> "reset"
    [] phase = "streaming" -> "broken"
    [] OTHER -> phase

V1Dies(p) ==
  /\ procs[p] \in {"booting", "listening"}
  /\ procs' = [procs EXCEPT ![p] = "dead"]
  /\ request' = [r \in Requests |->
                   IF procs[p] = "listening" THEN CutOff(request[r]) ELSE request[r]]
  /\ UNCHANGED <<server, boots, spawner>>

(* Mutant: nobody listens to the exit of the child.                        *)
ChildExitUnheard ==
  /\ server = "up" /\ child # 0 /\ procs[child] = "dead"
  /\ child' = 0
  /\ UNCHANGED <<server, boots, ensure, status, isExternal, procs, request>>

(* The exit event. *)
ChildExit ==
  /\ server = "up" /\ child # 0 /\ procs[child] = "dead"
  /\ status' = "failed" /\ child' = 0
  /\ UNCHANGED <<server, boots, ensure, isExternal, procs, request>>

(* SIGTERM or SIGINT: no hooks are given, so the handler exits without     *)
(* waiting for server.close; v1Spawner.stop is never called.               *)
Shutdown ==
  /\ server = "up"
  /\ server' = "down" /\ ensure' = "off" /\ status' = "not-configured"
  /\ isExternal' = FALSE /\ child' = 0
  /\ request' = [r \in Requests |->
                   IF request[r] \in UnderWay THEN "over" ELSE request[r]]
  /\ UNCHANGED <<boots, procs>>

-----------------------------------------------------------------------------
(* POST /v2/harness/sandbox-call/:apm/:action; 503 unless a v1 server runs.*)
SandboxCall(r) ==
  /\ server = "up" /\ request[r] = "idle"
  /\ request' = [request EXCEPT ![r] =
                   IF status = "running" THEN "forwarded" ELSE "over"]
  /\ UNCHANGED <<server, boots, spawner, procs>>

(* A call of a v1 page, through the proxy at /v1-api: whatever the status. *)
ProxyCall(r) ==
  /\ server = "up" /\ request[r] = "idle"
  /\ request' = [request EXCEPT ![r] = "proxied"]
  /\ UNCHANGED <<server, boots, spawner, procs>>

(* A v1 server that listens takes the request, and answers it in its own   *)
(* time: nobody on the way has a timeout.  The proxy passes an answer on   *)
(* as it comes.                                                            *)
Takes(r) ==
  /\ Listening
  /\ \/ request[r] = "forwarded" /\ request' = [request EXCEPT ![r] = "taken"]
     \/ request[r] = "proxied" /\ request' = [request EXCEPT ![r] = "relayed"]
  /\ UNCHANGED <<server, boots, spawner, procs>>

V1Answers(r) ==
  /\ \/ request[r] = "taken" /\ request' = [request EXCEPT ![r] = "over"]
     \/ request[r] = "relayed" /\ request' = [request EXCEPT ![r] = "streaming"]
  /\ UNCHANGED <<server, boots, spawner, procs>>

(* Mutant: only a connection that is refused is caught.                    *)
UpstreamErrorRefused(r) ==
  /\ request[r] \in {"forwarded", "proxied"} /\ ~Listening
  /\ request' = [request EXCEPT ![r] = "over"]
  /\ UNCHANGED <<server, boots, spawner, procs>>

(* The connection is refused, or lost before the answer: 502.              *)
UpstreamError(r) ==
  /\ \/ request[r] \in {"forwarded", "proxied"} /\ ~Listening
     \/ request[r] = "reset"
  /\ request' = [request EXCEPT ![r] = "over"]
  /\ UNCHANGED <<server, boots, spawner, procs>>

StreamEnds(r) ==
  /\ request[r] = "streaming"
  /\ request' = [request EXCEPT ![r] = "over"]
  /\ UNCHANGED <<server, boots, spawner, procs>>

(* A reset is an error of the request, and the proxy destroys its answer;  *)
(* of a plain close only the upstream answer hears, and nobody listens to  *)
(* that one: the answer to the page stays open.                            *)
StreamBreaks(r) ==
  /\ request[r] = "broken"
  /\ \E end \in {"over", "open"} : request' = [request EXCEPT ![r] = end]
  /\ UNCHANGED <<server, boots, spawner, procs>>

ProcessInit ==
  /\ server = "down" /\ boots = 0
  /\ ensure = "off" /\ status = "not-configured" /\ isExternal = FALSE /\ child = 0
  /\ procs = <<>>
  /\ request = [r \in Requests |-> "idle"]

(* What the reference server does about a request by itself, and what it   *)
(* can only wait for.                                                      *)
Forwarding(r) == Takes(r) \/ UpstreamError(r) \/ StreamBreaks(r)
Answering(r) == V1Answers(r) \/ StreamEnds(r)

Spawning ==
  ProbeAnswered \/ FoundExternal \/ Spawn \/ HealthAnswered \/ Healthy
    \/ WaitTimesOut \/ ChildExit

-----------------------------------------------------------------------------
(* The v1 status does not stay "starting", also when the child neither     *)
(* answers nor exits: "wait up to 10s" (v1-spawner.ts waitForHealth).      *)
StartingEnds == status = "starting" ~> status # "starting"

(* A status of "running" does not outlive the child it is about, when no   *)
(* other v1 server serves the port: not for a v1 server met at the start,  *)
(* nor for a child whose exit was heard before the health check it had     *)
(* answered (v1-spawner.ts exit handler).                                  *)
DeathReported ==
  status = "running" /\ child # 0 /\ ~Listening
    ~> \/ status # "running" \/ Listening
       \/ child # 0 /\ procs[child] = "booting"

(* A call of a page that is never answered is with a v1 server that lives  *)
(* on and keeps it: whenever that server dies before its answer, or is not *)
(* there, the call comes to an end (harness.ts sandbox-call, v1-proxy.ts   *)
(* createV1ApiProxy); not so for an answer that is cut off midway, which   *)
(* may be left open.                                                       *)
CallsAnswered ==
  \A r \in Requests :
    <>[](request[r] \in UnderWay) => <>[](request[r] \in Held)

=============================================================================
