------------------------------ MODULE V1Harness ------------------------------
(***************************************************************************)
(* The harness process, the v1 server it spawned or met, and the Zepto     *)
(* tokens that server holds: a v1 process that dies forgets its access     *)
(* token and its requests, and the next one starts from the token file.    *)
(***************************************************************************)
EXTENDS HarnessProcess, ZeptoTokens

v1Vars == <<processVars, zeptoVars>>

(* A route of the v1 server runs while some v1 process listens.            *)
ZeptoStep ==
  /\ \/ \E c \in Calls :
          getZeptoAccessToken(c) \/ Redeem(c) \/ Refuse(c) \/ RefreshReturns(c)
            \/ RefreshFails(c) \/ RefreshLost(c) \/ Answered(c)
     \/ BootstrapCall \/ BootstrapReturns \/ Age
  /\ Listening
  /\ UNCHANGED processVars

Process ==
  /\ \/ Boot \/ Shutdown \/ Spawning
     \/ \E r \in Requests : SandboxCall(r) \/ ProxyCall(r) \/ Forwarding(r)
                             \/ Answering(r)
     \/ \E p \in DOMAIN procs : V1Binds(p)
     \/ \E p \in DOMAIN procs : procs[p] = "booting" /\ V1Dies(p)
  /\ UNCHANGED zeptoVars

(* The serving process dies: a fault for the tokens.                       *)
V1Crash ==
  /\ \E p \in DOMAIN procs : procs[p] = "listening" /\ V1Dies(p)
  /\ faults < MaxFaults /\ faults' = faults + 1
  /\ Forget

V1Init == ProcessInit /\ ZeptoInit

V1Next == Process \/ V1Crash \/ ZeptoStep

(* The spawner's probes and deadlines, the exit event, and the errors of   *)
(* connections come; a v1 process may hang, as it starts or with a request.*)
V1Fairness ==
  /\ WF_v1Vars((ProbeAnswered \/ FoundExternal \/ Spawn \/ HealthAnswered
                  \/ Healthy \/ WaitTimesOut) /\ UNCHANGED zeptoVars)
  /\ WF_v1Vars(ChildExit /\ UNCHANGED zeptoVars)
  /\ \A r \in Requests : WF_v1Vars(Forwarding(r) /\ UNCHANGED zeptoVars)

V1Spec == V1Init /\ [][V1Next]_v1Vars /\ V1Fairness

=============================================================================
