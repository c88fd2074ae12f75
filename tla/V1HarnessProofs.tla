--------------------------- MODULE V1HarnessProofs ---------------------------
(***************************************************************************)
(* The refresh token on disk is good, for any number of requests, grants,  *)
(* faults and v1 processes.                                                *)
(***************************************************************************)
EXTENDS V1Harness, FiniteSetTheorems, TLAPS

Grant == 0..issued

TokensTypeOK ==
  /\ issued \in Nat /\ EnvToken <= issued /\ faults \in Nat
  /\ tokenFile \in Grant /\ zeptoAccessToken \in Grant
  /\ call \in [Calls -> [phase : {"idle", "live", "mock", "refreshing", "granted",
                                  "refused"}, grant : Grant]]
  /\ bootstrap \in [phase : {"idle", "granted"}, grant : Grant]

(* A grant that nobody has kept yet: the provider accepts it, and no other *)
(* request and no store has it.                                            *)
Fresh(grant) ==
  /\ grant \in valid /\ grant # EnvToken /\ grant # tokenFile /\ grant # 0
  /\ \A d \in Calls : call[d].phase = "refreshing" => call[d].grant # grant

InHand ==
  /\ \A c \in Calls : call[c].phase = "granted" =>
       /\ Fresh(call[c].grant)
       /\ \A d \in Calls \ {c} : call[d].phase = "granted" => call[d].grant # call[c].grant
       /\ bootstrap.phase = "granted" => bootstrap.grant # call[c].grant
  /\ bootstrap.phase = "granted" => Fresh(bootstrap.grant)

ZeptoInv == TokensTypeOK /\ (faults = 0 => InHand) /\ StoredTokenGood

USE ZeptoAssumption

-----------------------------------------------------------------------------
LEMMA ZeptoStarts == ZeptoInit => ZeptoInv
BY DEF ZeptoInit, ZeptoInv, TokensTypeOK, Grant, InHand, Phase, StoredTokenGood,
       loadZeptoRefreshToken

(* The type is kept by every step of a v1 server, and by its crash.        *)
LEMMA TypeKept ==
  ASSUME TokensTypeOK, ZeptoStep \/ (Forget /\ faults' = faults + 1)
  PROVE  TokensTypeOK' /\ faults' >= faults
<1> USE DEF TokensTypeOK, Grant, Set, Phase
<1>1. ASSUME NEW c \in Calls, getZeptoAccessToken(c)
      PROVE  TokensTypeOK' /\ faults' >= faults
  BY <1>1 DEF getZeptoAccessToken, loadZeptoRefreshToken, zeptoMemory, provider
<1>2. ASSUME NEW c \in Calls, Redeem(c)
      PROVE  TokensTypeOK' /\ faults' >= faults
  BY <1>2 DEF Redeem, Grants, zeptoMemory
<1>3. ASSUME NEW c \in Calls,
             Refuse(c) \/ RefreshReturns(c) \/ RefreshFails(c) \/ RefreshLost(c)
               \/ Answered(c)
      PROVE  TokensTypeOK' /\ faults' >= faults
  BY <1>3 DEF Refuse, RefreshReturns, RefreshFails, RefreshLost, Answered, Keep,
              zeptoMemory, provider
<1>4. CASE BootstrapCall
  BY <1>4 DEF BootstrapCall, Grants, zeptoMemory
<1>5. CASE BootstrapReturns
  BY <1>5 DEF BootstrapReturns, Keep, provider
<1>6. CASE Age
  BY <1>6 DEF Age, provider
<1>7. CASE Forget /\ faults' = faults + 1
  BY <1>7 DEF Forget, provider
<1> QED BY <1>1, <1>2, <1>3, <1>4, <1>5, <1>6, <1>7 DEF ZeptoStep

-----------------------------------------------------------------------------
(* As long as nothing fails, a grant in hand stays fresh, and the token on *)
(* disk stays good: it is redeemed only by a request that then has a grant *)
(* in hand, and replaced only by such a grant.                             *)
LEMMA TokensKept ==
  ASSUME ZeptoInv, ZeptoStep, faults' = 0
  PROVE  InHand' /\ StoredTokenGood'
<1>1. /\ TokensTypeOK /\ TokensTypeOK' /\ faults = 0 /\ InHand /\ StoredTokenGood
  BY TypeKept DEF ZeptoInv, TokensTypeOK
<1> USE DEF TokensTypeOK, Grant, Set, Phase, InHand, Fresh
<1>2. ASSUME NEW c \in Calls, getZeptoAccessToken(c)
      PROVE  InHand' /\ StoredTokenGood'
  <2>1. InHand'
    BY <1>1, <1>2 DEF getZeptoAccessToken, loadZeptoRefreshToken, zeptoMemory, provider
  <2>2. InFlight' <=> InFlight
    BY <1>1, <1>2 DEF getZeptoAccessToken, InFlight
  <2> QED BY <1>1, <1>2, <2>1, <2>2 DEF getZeptoAccessToken, provider, StoredTokenGood,
                                     loadZeptoRefreshToken
<1>3. ASSUME NEW c \in Calls, Redeem(c)
      PROVE  InHand' /\ StoredTokenGood'
  <2>1. InHand'
    BY <1>1, <1>3 DEF Redeem, Grants, zeptoMemory
  <2>2. InFlight'
    BY <1>1, <1>3 DEF Redeem, InFlight
  <2> QED BY <2>1, <2>2 DEF StoredTokenGood
<1>4. ASSUME NEW c \in Calls, Refuse(c) \/ RefreshFails(c) \/ Answered(c)
      PROVE  InHand' /\ StoredTokenGood'
  <2>1. InHand'
    BY <1>1, <1>4 DEF Refuse, RefreshFails, Answered, zeptoMemory, provider
  <2>2. InFlight' <=> InFlight
    BY <1>1, <1>4 DEF Refuse, RefreshFails, Answered, InFlight
  <2> QED BY <1>1, <1>4, <2>1, <2>2 DEF Refuse, RefreshFails, Answered, provider,
                                     StoredTokenGood, loadZeptoRefreshToken
<1>5. ASSUME NEW c \in Calls, RefreshReturns(c)
      PROVE  InHand' /\ StoredTokenGood'
  <2>1. tokenFile' = call[c].grant
    BY <1>1, <1>5 DEF RefreshReturns, Keep
  <2>2. InHand'
    BY <1>1, <1>5, <2>1 DEF RefreshReturns, Keep, provider
  <2> QED BY <1>1, <1>5, <2>1, <2>2 DEF RefreshReturns, provider, StoredTokenGood,
                                     loadZeptoRefreshToken
<1>6. ASSUME NEW c \in Calls, RefreshLost(c)
      PROVE  FALSE
  BY <1>1, <1>6 DEF RefreshLost
<1>7. CASE BootstrapCall
  <2>1. InHand'
    BY <1>1, <1>7 DEF BootstrapCall, Grants, zeptoMemory
  <2>2. InFlight'
    BY <1>1, <1>7 DEF BootstrapCall, InFlight
  <2> QED BY <2>1, <2>2 DEF StoredTokenGood
<1>8. CASE BootstrapReturns
  <2>1. tokenFile' = bootstrap.grant
    BY <1>1, <1>8 DEF BootstrapReturns, Keep
  <2>2. InHand'
    BY <1>1, <1>8, <2>1 DEF BootstrapReturns, Keep, provider
  <2> QED BY <1>1, <1>8, <2>1, <2>2 DEF BootstrapReturns, provider, StoredTokenGood,
                                     loadZeptoRefreshToken
<1>9. CASE Age
  BY <1>1, <1>9 DEF Age, provider, StoredTokenGood, loadZeptoRefreshToken, InFlight
<1> QED BY <1>2, <1>3, <1>4, <1>5, <1>6, <1>7, <1>8, <1>9 DEF ZeptoStep

-----------------------------------------------------------------------------
LEMMA ZeptoInvariance == V1Spec => []ZeptoInv
<1>1. V1Init => ZeptoInv
  BY ZeptoStarts DEF V1Init
<1>2. ZeptoInv /\ [V1Next]_v1Vars => ZeptoInv'
  <2> SUFFICES ASSUME ZeptoInv, [V1Next]_v1Vars PROVE ZeptoInv'
    OBVIOUS
  <2>1. CASE ZeptoStep
    <3>1. TokensTypeOK' /\ faults' >= faults
      BY <2>1, TypeKept DEF ZeptoInv
    <3>2. faults' # 0 => StoredTokenGood'
      BY DEF StoredTokenGood
    <3> QED BY <2>1, <3>1, <3>2, TokensKept DEF ZeptoInv
  <2>2. CASE V1Crash
    <3>1. TokensTypeOK' /\ faults' # 0
      BY <2>2, TypeKept DEF V1Crash, ZeptoInv, TokensTypeOK
    <3> QED BY <3>1 DEF ZeptoInv, StoredTokenGood
  <2>3. CASE UNCHANGED zeptoVars
    BY <2>3 DEF zeptoVars, zeptoMemory, provider, ZeptoInv, TokensTypeOK, Grant, InHand,
                Fresh, StoredTokenGood, InFlight, loadZeptoRefreshToken
  <2> QED BY <2>1, <2>2, <2>3 DEF V1Next, Process, v1Vars
<1> QED BY <1>1, <1>2, PTL DEF V1Spec

(* Without a fault the refresh token on disk is one the provider accepts,  *)
(* for any number of requests that refresh and bootstrap at the same time  *)
(* (server.js refreshZeptoAccessToken, saveZeptoRefreshToken).                  *)
THEOREM TokenOnDiskGood == V1Spec => []StoredTokenGood
<1>1. ZeptoInv => StoredTokenGood
  BY DEF ZeptoInv
<1> QED BY <1>1, ZeptoInvariance, PTL

-----------------------------------------------------------------------------
(* The reference server and the v1 servers it has spawned or met.          *)
ProcessTypeOK ==
  /\ server \in {"down", "up"} /\ isExternal \in BOOLEAN
  /\ ensure \in {"off", "probing", "found", "waiting", "healthy"}
  /\ status \in {"not-configured", "starting", "running", "failed"}
  /\ \E n \in Nat : procs \in [1..n -> {"booting", "listening", "dead"}]
  /\ request \in [Requests -> UnderWay \cup {"idle", "over", "open"}]

(* A server that is down holds no child and no request of a page.          *)
DownHoldsNothing ==
  server = "down" =>
    /\ ensure = "off" /\ status = "not-configured" /\ ~isExternal /\ child = 0
    /\ \A r \in Requests : request[r] \notin UnderWay

(* A v1 server is either met or a child of this server.                    *)
MetOrOwned ==
  /\ isExternal => ensure = "off" /\ child = 0
  /\ ensure \in {"probing", "found"} => child = 0
  /\ child # 0 => child \in DOMAIN procs

(* A v1 server that starts is waited for, and one has the port.            *)
StartingIsAwaited == status = "starting" => ensure \in {"waiting", "healthy"}

OneServes ==
  \A p, q \in DOMAIN procs : procs[p] = "listening" /\ procs[q] = "listening" => p = q

(* A request that waits for a v1 server waits for one that lives.          *)
HeldByLive == \A r \in Requests : request[r] \in Held => Listening

ProcessInv ==
  /\ ProcessTypeOK /\ DownHoldsNothing /\ MetOrOwned /\ StartingIsAwaited
  /\ OneServes /\ HeldByLive

LEMMA ProcessStarts == ProcessInit => ProcessInv
<1> SUFFICES ASSUME ProcessInit PROVE ProcessInv
  OBVIOUS
<1>1. DOMAIN procs = 1..0 /\ procs = [p \in 1..0 |-> "dead"]
  BY DEF ProcessInit
<1>2. \E n \in Nat : procs \in [1..n -> {"booting", "listening", "dead"}]
  BY <1>1
<1> QED BY <1>1, <1>2 DEF ProcessInit, ProcessInv, ProcessTypeOK, DownHoldsNothing,
           MetOrOwned, StartingIsAwaited, OneServes, UnderWay, HeldByLive, Held

LEMMA SpawnIsNew ==
  ASSUME ProcessInv, Spawn
  PROVE  /\ child' \notin DOMAIN procs
         /\ \A p \in DOMAIN procs : p \in DOMAIN procs' /\ procs'[p] = procs[p]
         /\ child' \in DOMAIN procs' /\ procs'[child'] = "booting"
         /\ \E n \in Nat : procs' \in [1..n -> {"booting", "listening", "dead"}]
<1>1. PICK n \in Nat : procs \in [1..n -> {"booting", "listening", "dead"}]
  BY DEF ProcessInv, ProcessTypeOK
<1>2. Cardinality(DOMAIN procs) = n
  BY <1>1, FS_Interval
<1>3. child' = n + 1 /\ DOMAIN procs \cup {child'} = 1..(n + 1)
  BY <1>1, <1>2 DEF Spawn
<1>4. procs' = [p \in 1..(n + 1) |-> IF p = child' THEN "booting" ELSE procs[p]]
  BY <1>3 DEF Spawn
<1>5. procs' \in [1..(n + 1) -> {"booting", "listening", "dead"}]
  BY <1>1, <1>3, <1>4
<1> QED BY <1>1, <1>3, <1>4, <1>5

LEMMA SpawningKeeps ==
  ASSUME ProcessInv, Spawning \/ Boot \/ Shutdown
  PROVE  ProcessInv'
<1>0. HeldByLive'
  <2>1. /\ \A r \in Requests : request'[r] \in Held => request[r] \in Held
        /\ \A p \in DOMAIN procs : p \in DOMAIN procs' /\ (procs[p] = "listening" => procs'[p] = "listening")
    <3>1. CASE Spawn
      BY <3>1, SpawnIsNew DEF Spawn
    <3>2. CASE Shutdown
      BY <3>2 DEF Shutdown, Held, UnderWay
    <3> QED BY <3>1, <3>2 DEF Spawning, Boot, ProbeAnswered, FoundExternal, HealthAnswered,
                             Healthy, WaitTimesOut, ChildExit
  <2> QED BY <2>1 DEF ProcessInv, HeldByLive, Listening
<1> USE DEF ProcessInv, ProcessTypeOK, DownHoldsNothing, MetOrOwned, StartingIsAwaited,
            OneServes
<1>1. CASE Boot
  BY <1>0, <1>1 DEF Boot
<1>2. CASE Shutdown
  <2>1. ProcessTypeOK'
    BY <1>2 DEF Shutdown
  <2>2. DownHoldsNothing'
    BY <1>2 DEF Shutdown, UnderWay, Held
  <2>3. MetOrOwned' /\ StartingIsAwaited' /\ OneServes'
    BY <1>2 DEF Shutdown
  <2> QED BY <1>0, <2>1, <2>2, <2>3
<1>3. CASE Spawn
  <2>1. /\ DOMAIN procs' = DOMAIN procs \cup {child'}
        /\ \A p \in DOMAIN procs' : procs'[p] = IF p = child' THEN "booting" ELSE procs[p]
    BY <1>3 DEF Spawn
  <2>2. OneServes'
    BY <2>1
  <2> QED BY <1>0, <1>3, <2>1, <2>2, SpawnIsNew DEF Spawn
<1>4. CASE ProbeAnswered \/ FoundExternal
  <2>1. server = "up" /\ child = 0 /\ status # "starting"
    BY <1>4 DEF ProbeAnswered, FoundExternal
  <2>2. /\ UNCHANGED <<server, child, procs, request>>
        /\ \/ ensure' = "found" /\ UNCHANGED <<status, isExternal>>
           \/ ensure' = "off" /\ status' = "running" /\ isExternal' = TRUE
    BY <1>4 DEF ProbeAnswered, FoundExternal
  <2>3. ~isExternal \/ ensure' = "off"
    BY <1>4 DEF ProbeAnswered, FoundExternal
  <2>4. ProcessTypeOK'
    BY <2>1, <2>2
  <2>5. MetOrOwned'
    BY <2>1, <2>2, <2>3
  <2> QED BY <1>0, <2>1, <2>2, <2>4, <2>5
<1>5. CASE HealthAnswered \/ Healthy \/ WaitTimesOut
  BY <1>0, <1>5 DEF HealthAnswered, Healthy, WaitTimesOut
<1>6. CASE ChildExit
  BY <1>0, <1>6 DEF ChildExit
<1> QED BY <1>1, <1>2, <1>3, <1>4, <1>5, <1>6 DEF Spawning

LEMMA RequestsKeep ==
  ASSUME ProcessInv, NEW r \in Requests,
         SandboxCall(r) \/ ProxyCall(r) \/ Forwarding(r) \/ Answering(r)
  PROVE  ProcessInv'
<1>1. /\ UNCHANGED <<server, boots, spawner, procs>>
      /\ \E to \in UnderWay \cup {"idle", "over", "open"} :
           /\ request' = [request EXCEPT ![r] = to]
           /\ to \in Held => Listening \/ request[r] \in Held
      /\ server = "up" \/ request[r] \in UnderWay
  BY DEF SandboxCall, ProxyCall, Forwarding, Answering, Takes, V1Answers, UpstreamError,
         StreamEnds, StreamBreaks, UnderWay, Held
<1>2. server = "up"
  BY <1>1 DEF ProcessInv, ProcessTypeOK, DownHoldsNothing
<1>3. HeldByLive'
  BY <1>1 DEF ProcessInv, ProcessTypeOK, HeldByLive, Listening
<1> QED BY <1>1, <1>2, <1>3 DEF ProcessInv, ProcessTypeOK, DownHoldsNothing, MetOrOwned,
           StartingIsAwaited, OneServes, spawner

LEMMA V1ServersKeep ==
  ASSUME ProcessInv, NEW p \in DOMAIN procs, V1Binds(p) \/ V1Dies(p)
  PROVE  ProcessInv'
<1>1. /\ UNCHANGED <<server, boots, spawner>>
      /\ DOMAIN procs' = DOMAIN procs
      /\ \E n \in Nat : procs' \in [1..n -> {"booting", "listening", "dead"}]
  BY DEF V1Binds, V1Dies, ProcessInv, ProcessTypeOK
<1>2. OneServes'
  BY DEF V1Binds, V1Dies, ProcessInv, ProcessTypeOK, OneServes, Listening
<1>3. \A phase \in UnderWay \cup {"idle", "over", "open"} :
        /\ CutOff(phase) \in UnderWay \cup {"idle", "over", "open"}
        /\ CutOff(phase) \in UnderWay <=> phase \in UnderWay
        /\ CutOff(phase) \notin Held
  BY DEF CutOff, UnderWay, Held
<1>4. /\ request' \in [Requests -> UnderWay \cup {"idle", "over", "open"}]
      /\ \A r \in Requests : request'[r] \in UnderWay => request[r] \in UnderWay
  BY <1>3 DEF V1Binds, V1Dies, ProcessInv, ProcessTypeOK
<1>5. HeldByLive'
  <2>1. CASE V1Binds(p)
    BY <2>1 DEF V1Binds, ProcessInv, ProcessTypeOK, HeldByLive, Listening
  <2>2. CASE V1Dies(p) /\ procs[p] = "listening"
    BY <1>3, <2>2 DEF V1Dies, ProcessInv, ProcessTypeOK, HeldByLive
  <2>3. CASE V1Dies(p) /\ procs[p] # "listening"
    BY <2>3 DEF V1Dies, ProcessInv, ProcessTypeOK, HeldByLive, Listening
  <2> QED BY <2>1, <2>2, <2>3
<1> QED BY <1>1, <1>2, <1>4, <1>5 DEF ProcessInv, ProcessTypeOK, DownHoldsNothing,
           MetOrOwned, StartingIsAwaited, spawner

(* Through any number of starts, shutdowns and crashes: a server that has  *)
(* gone left no request and no claim behind, what it calls starting it is  *)
(* still waiting for, it holds a child or has met a server but never both, *)
(* one v1 server has the port, though a child may be spawned beside one    *)
(* that was slow to answer, and a request that waits for a v1 server waits *)
(* for one that lives (app.ts, shutdown.ts, v1-spawner.ts, v1-proxy.ts).   *)
THEOREM HarnessInvariance == V1Spec => []ProcessInv
<1>1. V1Init => ProcessInv
  BY ProcessStarts DEF V1Init
<1>2. ProcessInv /\ [V1Next]_v1Vars => ProcessInv'
  <2> SUFFICES ASSUME ProcessInv, [V1Next]_v1Vars PROVE ProcessInv'
    OBVIOUS
  <2>1. CASE Process
    BY <2>1, SpawningKeeps, RequestsKeep, V1ServersKeep DEF Process
  <2>2. CASE V1Crash
    BY <2>2, V1ServersKeep DEF V1Crash
  <2>3. CASE UNCHANGED processVars
    BY <2>3 DEF processVars, spawner, ProcessInv, ProcessTypeOK, DownHoldsNothing,
                MetOrOwned, StartingIsAwaited, OneServes, HeldByLive, Listening
  <2> QED BY <2>1, <2>2, <2>3 DEF V1Next, ZeptoStep, v1Vars
<1> QED BY <1>1, <1>2, PTL DEF V1Spec

=============================================================================
