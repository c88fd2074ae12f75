------------------------------ MODULE ZeptoTokens ------------------------------
(***************************************************************************)
(* The OAuth tokens the v1 server keeps for the Zepto sandbox              *)
(* (test-harness/server.js): an access token in memory, and on disk a      *)
(* refresh token the provider accepts once.  Several requests refresh at   *)
(* the same time, an answer may be lost after the provider has rotated the *)
(* token, and the file may not be written.                                 *)
(*                                                                         *)
(* A grant is numbered; its number stands for both of its tokens.          *)
(***************************************************************************)
EXTENDS Naturals

CONSTANTS
  Calls,      \* requests for an agreement
  EnvToken,   \* ZEPTO_REFRESH_TOKEN: the number of its grant, or 0
  MaxGrants,  \* bound: grants of the provider
  MaxFaults   \* bound: lost answers, failed writes and crashes together

ASSUME ZeptoAssumption ==
  EnvToken \in {0, 1} /\ MaxGrants \in Nat \ {0} /\ MaxFaults \in Nat

VARIABLES
  zeptoAccessToken,  \* 0 for none
  age,               \* of the access token: fresh, margin (its last 60 s), expired
  tokenFile,         \* .zepto-tokens.json, 0 for none
  valid,             \* refresh tokens the provider still accepts
  issued,            \* grants so far
  call,              \* what each request does, and the grant it has in hand
  bootstrap,         \* the same of POST /api/zepto/bootstrap
  faults             \* counts up to MaxFaults

zeptoMemory == <<zeptoAccessToken, age>>
provider == <<valid, issued>>
zeptoVars == <<zeptoMemory, tokenFile, provider, call, bootstrap, faults>>

Phase(phase, grant) == [phase |-> phase, grant |-> grant]
Set(c, phase, grant) == call' = [call EXCEPT ![c] = Phase(phase, grant)]

loadZeptoRefreshToken == IF tokenFile # 0 THEN tokenFile ELSE EnvToken

-----------------------------------------------------------------------------
(* POST /api/zepto/agreement up to getZeptoAccessToken.                    *)
getZeptoAccessToken(c) ==
  /\ call[c].phase = "idle"
  /\ IF zeptoAccessToken # 0 /\ age = "fresh"
     THEN Set(c, "live", zeptoAccessToken)
     ELSE IF loadZeptoRefreshToken = 0
     THEN Set(c, "mock", 0)
     ELSE Set(c, "refreshing", loadZeptoRefreshToken)
  /\ UNCHANGED <<zeptoMemory, tokenFile, provider, bootstrap, faults>>

(* The provider: a refresh token is accepted once and replaced.            *)
Grants(spent) ==
  /\ issued < MaxGrants
  /\ issued' = issued + 1
  /\ valid' = (valid \ spent) \cup {issued + 1}

Redeem(c) ==
  /\ call[c].phase = "refreshing" /\ call[c].grant \in valid
  /\ Grants({call[c].grant})
  /\ Set(c, "granted", issued + 1)
  /\ UNCHANGED <<zeptoMemory, tokenFile, bootstrap, faults>>

Refuse(c) ==
  /\ call[c].phase = "refreshing" /\ call[c].grant \notin valid
  /\ Set(c, "refused", call[c].grant)
  /\ UNCHANGED <<zeptoMemory, tokenFile, provider, bootstrap, faults>>

(* Both tokens of a grant are kept; a write that fails is only logged.     *)
Keep(grant) ==
  /\ zeptoAccessToken' = grant /\ age' = "fresh"
  /\ \/ tokenFile' = grant /\ UNCHANGED faults
     \/ UNCHANGED tokenFile /\ faults < MaxFaults /\ faults' = faults + 1

(* Mutant: the rotated refresh token is not kept.                          *)
RefreshReturnsNotRotated(c) ==
  /\ call[c].phase = "granted"
  /\ zeptoAccessToken' = call[c].grant /\ age' = "fresh"
  /\ Set(c, "live", call[c].grant)
  /\ UNCHANGED <<tokenFile, provider, bootstrap, faults>>

RefreshReturns(c) ==
  /\ call[c].phase = "granted"
  /\ Keep(call[c].grant)
  /\ Set(c, "live", call[c].grant)
  /\ UNCHANGED <<provider, bootstrap>>

(* A refused or lost refresh: getZeptoAccessToken answers null, and the    *)
(* agreement is a mock.                                                    *)
RefreshFails(c) ==
  /\ call[c].phase = "refused"
  /\ Set(c, "mock", 0)
  /\ UNCHANGED <<zeptoMemory, tokenFile, provider, bootstrap, faults>>

RefreshLost(c) ==
  /\ call[c].phase \in {"refreshing", "granted"} /\ faults < MaxFaults
  /\ faults' = faults + 1
  /\ Set(c, "mock", 0)
  /\ UNCHANGED <<zeptoMemory, tokenFile, provider, bootstrap>>

-----------------------------------------------------------------------------
(* POST /api/zepto/bootstrap: an authorization code for a first grant.     *)
BootstrapCall ==
  /\ bootstrap.phase = "idle"
  /\ Grants({})
  /\ bootstrap' = Phase("granted", issued + 1)
  /\ UNCHANGED <<zeptoMemory, tokenFile, call, faults>>

BootstrapReturns ==
  /\ bootstrap.phase = "granted"
  /\ Keep(bootstrap.grant)
  /\ bootstrap' = Phase("idle", 0)
  /\ UNCHANGED <<provider, call>>

(* Time passes. *)
Age ==
  /\ zeptoAccessToken # 0 /\ age # "expired"
  /\ age' = IF age = "fresh" THEN "margin" ELSE "expired"
  /\ UNCHANGED <<zeptoAccessToken, tokenFile, provider, call, bootstrap, faults>>

(* The answer to the browser has gone; the next request comes.             *)
Answered(c) ==
  /\ call[c].phase \in {"live", "mock"}
  /\ Set(c, "idle", 0)
  /\ UNCHANGED <<zeptoMemory, tokenFile, provider, bootstrap, faults>>

(* The process is gone: what it held in memory, and what it waited for.    *)
Forget ==
  /\ zeptoAccessToken' = 0 /\ age' = "fresh"
  /\ call' = [c \in Calls |-> Phase("idle", 0)]
  /\ bootstrap' = Phase("idle", 0)
  /\ UNCHANGED <<tokenFile, provider>>

-----------------------------------------------------------------------------
ZeptoInit ==
  /\ zeptoAccessToken = 0 /\ age = "fresh" /\ tokenFile = 0
  /\ valid = {EnvToken} \ {0} /\ issued = EnvToken
  /\ call = [c \in Calls |-> Phase("idle", 0)]
  /\ bootstrap = Phase("idle", 0)
  /\ faults = 0

InFlight ==
  bootstrap.phase = "granted" \/ \E c \in Calls : call[c].phase = "granted"

(* Without a fault the refresh token on disk is one the provider accepts,  *)
(* whichever refreshes and bootstraps overlap and in whichever order their *)
(* answers come: a refused request can be repeated ("Zepto refresh tokens  *)
(* are single-use", server.js refreshZeptoAccessToken).                    *)
StoredTokenGood ==
  faults = 0 /\ ~InFlight /\ loadZeptoRefreshToken # 0
    => loadZeptoRefreshToken \in valid

=============================================================================
