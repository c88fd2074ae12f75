------------------------------ MODULE DemoProofs ------------------------------
(***************************************************************************)
(* What the demo page records and shows is true, for any number of sandbox *)
(* calls, scenario runs, provider scripts and activations of the V1 view.  *)
(***************************************************************************)
EXTENDS DemoPages, FiniteSetTheorems, FunctionTheorems, SequenceTheorems,
        WellFoundedInduction, TLAPS

(* The calls of a route that the provider accepted and that are not logged *)
(* yet.                                                                    *)
Accepted == {"made", "declined"}

Unlogged(route) ==
  {c \in SandboxCalls : sandbox[c].phase \in Accepted /\ sandbox[c].route = route}

Phase == {"idle", "sent", "made", "declined", "refused"}

SandboxTyped ==
  /\ sandbox \in [SandboxCalls -> [route : ProviderRoutes \cup {"none"}, phase : Phase]]
  /\ \A c \in SandboxCalls : sandbox[c].phase # "idle" => sandbox[c].route \in ProviderRoutes
  /\ made \in [ProviderRoutes -> Nat] /\ declined \in [ProviderRoutes -> Nat]
  /\ \A route \in ProviderRoutes \ Deciding : declined[route] = 0
  /\ testLog \in [Steps -> [{"PASS", "FAIL"} -> Nat]]
  /\ lost \in Nat /\ clears \in Nat

(* Everything accepted is logged, still to be logged, lost or cleared.     *)
Balance(pass, unlogged, done, gone, cleared) ==
  /\ pass + unlogged <= done
  /\ cleared = 0 => done <= pass + unlogged + gone

Done(route) == made[route] + declined[route]

Balanced ==
  \A route \in ProviderRoutes :
    Balance(testLog[route].PASS, Cardinality(Unlogged(route)), Done(route), lost, clears)

(* What one step can do to the balance.                                    *)
LEMMA BalanceKept ==
  ASSUME NEW p \in Nat, NEW u \in Nat, NEW m \in Nat, NEW g \in Nat, NEW c \in Nat,
         Balance(p, u, m, g, c)
  PROVE  /\ Balance(p, u, m, g + 1, c)
         /\ Balance(p, u + 1, m + 1, g, c)
         /\ u >= 1 => Balance(p + 1, u - 1, m, g, c) /\ Balance(p, u - 1, m, g + 1, c)
         /\ Balance(0, u, m, g, c + 1)
BY DEF Balance

LogInv == IsFiniteSet(SandboxCalls) /\ SandboxTyped /\ Balanced

-----------------------------------------------------------------------------
LEMMA UnloggedFinite ==
  ASSUME IsFiniteSet(SandboxCalls), NEW route
  PROVE  IsFiniteSet(Unlogged(route)) /\ Cardinality(Unlogged(route)) \in Nat
<1>1. Unlogged(route) \in SUBSET SandboxCalls
  BY DEF Unlogged
<1> QED BY <1>1, FS_Subset, FS_CardinalityType

(* Each entry of a handler adds one to its count.                          *)
LEMMA Logged ==
  ASSUME LogInv, NEW entries, logTest(entries)
  PROVE  /\ testLog' \in [Steps -> [{"PASS", "FAIL"} -> Nat]]
         /\ \A route \in ProviderRoutes :
              testLog'[route].PASS =
                testLog[route].PASS + (IF <<route, "PASS">> \in entries THEN 1 ELSE 0)
<1>1. testLog \in [Steps -> [{"PASS", "FAIL"} -> Nat]]
  BY DEF LogInv, SandboxTyped
<1>2. testLog' = [place \in Steps |->
        [verdict \in {"PASS", "FAIL"} |->
          testLog[place][verdict] + (IF <<place, verdict>> \in entries THEN 1 ELSE 0)]]
  BY DEF logTest
<1>3. ASSUME NEW place \in Steps, NEW verdict \in {"PASS", "FAIL"}
      PROVE  testLog[place][verdict] + (IF <<place, verdict>> \in entries THEN 1 ELSE 0) \in Nat
  <2>1. testLog[place][verdict] \in Nat
    BY <1>1
  <2> QED BY <2>1
<1>4. testLog' \in [Steps -> [{"PASS", "FAIL"} -> Nat]]
  BY <1>2, <1>3
<1>5. \A route \in ProviderRoutes : route \in Steps
  BY DEF Steps
<1>6. ASSUME NEW route \in ProviderRoutes
      PROVE  testLog'[route]["PASS"] =
               testLog[route]["PASS"] + (IF <<route, "PASS">> \in entries THEN 1 ELSE 0)
  BY <1>2, <1>5
<1> QED BY <1>4, <1>6

(* The steps of the log are not those of other handlers.                   *)
LEMMA StepsApart ==
  \A route \in ProviderRoutes : route \notin MockRoutes /\ route \notin AmountSteps
BY DEF ProviderRoutes, MockRoutes, AmountSteps, KlarnaRoutes, CashAppRoutes, PproRoutes,
       LoggedMocks, WalletMocks

(* A call that neither was nor becomes accepted leaves the count.          *)
LEMMA PhaseMoves ==
  ASSUME LogInv, NEW c \in SandboxCalls, NEW route \in ProviderRoutes \cup {"none"},
         NEW phase \in Phase, phase # "idle" => route \in ProviderRoutes,
         Becomes(c, route, phase)
  PROVE  /\ sandbox' \in [SandboxCalls -> [route : ProviderRoutes \cup {"none"}, phase : Phase]]
         /\ \A d \in SandboxCalls :
              sandbox'[d].phase # "idle" => sandbox'[d].route \in ProviderRoutes
         /\ \A r \in ProviderRoutes :
              Unlogged(r)' =
                IF phase \in Accepted /\ route = r
                THEN Unlogged(r) \cup {c} ELSE Unlogged(r) \ {c}
<1>1. /\ sandbox \in [SandboxCalls -> [route : ProviderRoutes \cup {"none"}, phase : Phase]]
      /\ \A d \in SandboxCalls :
           sandbox[d].phase # "idle" => sandbox[d].route \in ProviderRoutes
  BY DEF LogInv, SandboxTyped
<1> DEFINE new == [route |-> route, phase |-> phase]
<1>2. /\ new \in [route : ProviderRoutes \cup {"none"}, phase : Phase]
      /\ new.route = route /\ new.phase = phase
  OBVIOUS
<1>3. sandbox' = [sandbox EXCEPT ![c] = new]
  BY DEF Becomes
<1> HIDE DEF new
<1>4. sandbox' \in [SandboxCalls -> [route : ProviderRoutes \cup {"none"}, phase : Phase]]
  BY <1>1, <1>2, <1>3
<1>5. \A d \in SandboxCalls : sandbox'[d] = IF d = c THEN new ELSE sandbox[d]
  BY <1>1, <1>3
<1>6. \A d \in SandboxCalls :
        sandbox'[d].phase # "idle" => sandbox'[d].route \in ProviderRoutes
  BY <1>1, <1>2, <1>5
<1>7. ASSUME NEW r \in ProviderRoutes
      PROVE  Unlogged(r)' = IF phase \in Accepted /\ route = r
                            THEN Unlogged(r) \cup {c} ELSE Unlogged(r) \ {c}
  BY <1>2, <1>5 DEF Unlogged
<1> QED BY <1>4, <1>6, <1>7

-----------------------------------------------------------------------------
LEMMA SandboxStarts == IsFiniteSet(SandboxCalls) /\ SandboxInit => LogInv
<1> SUFFICES ASSUME IsFiniteSet(SandboxCalls), SandboxInit PROVE LogInv
  OBVIOUS
<1>1. testLog = [place \in Steps |-> [PASS |-> 0, FAIL |-> 0]]
  BY DEF SandboxInit, Empty
<1>2. [PASS |-> 0, FAIL |-> 0] \in [{"PASS", "FAIL"} -> Nat]
  OBVIOUS
<1>3. testLog \in [Steps -> [{"PASS", "FAIL"} -> Nat]]
  BY <1>1, <1>2
<1>4. SandboxTyped
  BY <1>3 DEF SandboxInit, SandboxTyped, Phase
<1>5. ASSUME NEW route \in ProviderRoutes
      PROVE  Balance(testLog[route].PASS, Cardinality(Unlogged(route)), Done(route), lost, clears)
  <2>1. Unlogged(route) = {}
    BY DEF SandboxInit, Unlogged, Accepted
  <2>2. Cardinality(Unlogged(route)) = 0
    BY <2>1, FS_EmptySet
  <2>3. route \in Steps
    BY DEF Steps
  <2> QED BY <1>1, <2>2, <2>3 DEF SandboxInit, Balance, Done
<1> QED BY <1>4, <1>5 DEF LogInv, Balanced

(* Nothing of the log is touched; calls may be lost to the V1 view.        *)
LEMMA LogRests ==
  ASSUME LogInv, UNCHANGED <<sandbox, made, declined, testLog, clears>>,
         lost' \in {lost, lost + 1}
  PROVE  LogInv'
<1>1. lost \in Nat /\ lost' \in Nat /\ clears \in Nat
  BY DEF LogInv, SandboxTyped
<1>2. SandboxTyped'
  BY <1>1 DEF LogInv, SandboxTyped
<1>3. ASSUME NEW route \in ProviderRoutes
      PROVE  Balance(testLog'[route].PASS, Cardinality(Unlogged(route)'), Done(route)', lost', clears')
  <2>1. Unlogged(route)' = Unlogged(route)
    BY DEF Unlogged
  <2> DEFINE p == testLog[route].PASS
             u == Cardinality(Unlogged(route))
             m == Done(route)
  <2>2. p \in Nat /\ u \in Nat /\ m \in Nat
    BY UnloggedFinite DEF LogInv, SandboxTyped, Steps, Done
  <2>3. Balance(p, u, m, lost, clears)
    BY DEF LogInv, Balanced
  <2> HIDE DEF p, u, m
  <2>4. Balance(p, u, m, lost + 1, clears)
    BY <1>1, <2>2, <2>3, BalanceKept
  <2>5. Balance(p, u, m, lost', clears)
    BY <2>3, <2>4
  <2>6. Done(route)' = Done(route)
    BY DEF Done
  <2> QED BY <2>1, <2>5, <2>6 DEF p, u, m
<1> QED BY <1>2, <1>3 DEF LogInv, Balanced

(* The numbers that are in balance.                                        *)
LEMMA Numbers ==
  ASSUME LogInv, NEW route \in ProviderRoutes
  PROVE  /\ testLog[route].PASS \in Nat /\ Cardinality(Unlogged(route)) \in Nat
         /\ made[route] \in Nat /\ declined[route] \in Nat /\ Done(route) \in Nat
         /\ lost \in Nat /\ clears \in Nat
         /\ IsFiniteSet(Unlogged(route))
         /\ Balance(testLog[route].PASS, Cardinality(Unlogged(route)), Done(route),
                    lost, clears)
<1>1. testLog[route].PASS \in Nat
  BY DEF LogInv, SandboxTyped, Steps
<1>2. made[route] \in Nat /\ declined[route] \in Nat /\ Done(route) \in Nat
  BY DEF LogInv, SandboxTyped, Done
<1> QED BY <1>1, <1>2, UnloggedFinite DEF LogInv, SandboxTyped, Balanced

(* A call leaves the unlogged ones, or joins them.                         *)
LEMMA UnloggedCounted ==
  ASSUME LogInv, NEW route \in ProviderRoutes, NEW c \in SandboxCalls
  PROVE  /\ c \in Unlogged(route) =>
              /\ Cardinality(Unlogged(route)) >= 1
              /\ Cardinality(Unlogged(route) \ {c}) = Cardinality(Unlogged(route)) - 1
         /\ c \notin Unlogged(route) =>
              /\ Unlogged(route) \ {c} = Unlogged(route)
              /\ Cardinality(Unlogged(route) \cup {c}) = Cardinality(Unlogged(route)) + 1
<1> DEFINE U == Unlogged(route)
<1>1. IsFiniteSet(U) /\ Cardinality(U) \in Nat
  BY Numbers
<1> HIDE DEF U
<1>2. ASSUME c \in U PROVE Cardinality(U) >= 1 /\ Cardinality(U \ {c}) = Cardinality(U) - 1
  <2>1. Cardinality(U \ {c}) = Cardinality(U) - 1
    BY <1>1, <1>2, FS_RemoveElement
  <2>2. Cardinality(U \ {c}) \in Nat
    BY <1>1, FS_RemoveElement, FS_CardinalityType
  <2> QED BY <1>1, <2>1, <2>2
<1>3. ASSUME c \notin U PROVE U \ {c} = U /\ Cardinality(U \cup {c}) = Cardinality(U) + 1
  BY <1>1, <1>3, FS_AddElement
<1> QED BY <1>2, <1>3 DEF U

(* The handlers.                                                           *)
LEMMA PostKeepsLog ==
  ASSUME LogInv, NEW c \in SandboxCalls, NEW route \in ProviderRoutes,
         Post(c, route) \/ (Refuses(c) /\ route = sandbox[c].route)
  PROVE  LogInv'
<1>1. \E phase \in {"sent", "refused"} : Becomes(c, route, phase)
  BY DEF Post, Refuses
<1>2. PICK phase \in {"sent", "refused"} : Becomes(c, route, phase)
  BY <1>1
<1>3. /\ sandbox[c].phase \notin Accepted
      /\ UNCHANGED <<made, declined, testLog, lost, clears>>
  BY DEF Post, Refuses, Accepted
<1>4. /\ sandbox' \in [SandboxCalls -> [route : ProviderRoutes \cup {"none"}, phase : Phase]]
      /\ \A d \in SandboxCalls :
           sandbox'[d].phase # "idle" => sandbox'[d].route \in ProviderRoutes
      /\ \A r \in ProviderRoutes : Unlogged(r)' = Unlogged(r) \ {c}
  BY <1>2, PhaseMoves DEF Phase, Accepted
<1>5. \A r \in ProviderRoutes : Unlogged(r)' = Unlogged(r)
  BY <1>3, <1>4 DEF Unlogged
<1>6. SandboxTyped'
  BY <1>3, <1>4 DEF LogInv, SandboxTyped
<1>7. Balanced'
  BY <1>3, <1>5 DEF LogInv, Balanced, Done
<1> QED BY <1>6, <1>7 DEF LogInv

LEMMA AcceptedKeepsLog ==
  ASSUME LogInv, NEW c \in SandboxCalls, Carries(c) \/ Declines(c)
  PROVE  LogInv'
<1> DEFINE route == sandbox[c].route
<1>1. /\ sandbox[c].phase = "sent" /\ route \in ProviderRoutes
      /\ \E phase \in Accepted : Becomes(c, route, phase)
      /\ UNCHANGED <<testLog, lost, clears>>
      /\ \/ /\ made' = [made EXCEPT ![route] = made[route] + 1]
            /\ UNCHANGED declined
         \/ /\ declined' = [declined EXCEPT ![route] = declined[route] + 1]
            /\ UNCHANGED made /\ route \in Deciding
  BY DEF Carries, Declines, Accepted, LogInv, SandboxTyped
<1> HIDE DEF route
<1>2. /\ sandbox' \in [SandboxCalls -> [route : ProviderRoutes \cup {"none"}, phase : Phase]]
      /\ \A d \in SandboxCalls :
           sandbox'[d].phase # "idle" => sandbox'[d].route \in ProviderRoutes
      /\ \A r \in ProviderRoutes :
           Unlogged(r)' = IF r = route THEN Unlogged(r) \cup {c} ELSE Unlogged(r) \ {c}
  BY <1>1, PhaseMoves DEF Phase, Accepted
<1>3. \A r \in ProviderRoutes : c \notin Unlogged(r)
  BY <1>1 DEF Unlogged, Accepted
<1>4. /\ made \in [ProviderRoutes -> Nat] /\ declined \in [ProviderRoutes -> Nat]
      /\ \A r \in ProviderRoutes \ Deciding : declined[r] = 0
  BY DEF LogInv, SandboxTyped
<1>5. /\ made' \in [ProviderRoutes -> Nat] /\ declined' \in [ProviderRoutes -> Nat]
      /\ \A r \in ProviderRoutes \ Deciding : declined'[r] = 0
  BY <1>1, <1>4
<1>6. SandboxTyped'
  BY <1>1, <1>2, <1>5 DEF LogInv, SandboxTyped
<1>7. ASSUME NEW r \in ProviderRoutes
      PROVE  Balance(testLog'[r].PASS, Cardinality(Unlogged(r)'), Done(r)', lost', clears')
  <2>1. CASE r = route
    <3>1. Done(r)' = Done(r) + 1
      BY <1>1, <1>4, <2>1 DEF Done
    <3>2. Cardinality(Unlogged(r)') = Cardinality(Unlogged(r)) + 1
      BY <1>2, <1>3, <2>1, UnloggedCounted
    <3>3. Balance(testLog[r].PASS, Cardinality(Unlogged(r)) + 1, Done(r) + 1, lost, clears)
      BY Numbers, BalanceKept
    <3> QED BY <1>1, <3>1, <3>2, <3>3
  <2>2. CASE r # route
    <3>1. Done(r)' = Done(r)
      BY <1>1, <1>4, <2>2 DEF Done
    <3>2. Unlogged(r)' = Unlogged(r)
      BY <1>2, <1>3, <2>2
    <3> QED BY <1>1, <3>1, <3>2, Numbers
  <2> QED BY <2>1, <2>2
<1> QED BY <1>6, <1>7 DEF LogInv, Balanced

(* The end of a handler: entries are logged and the call is idle.          *)
LEMMA EndKeepsLog ==
  ASSUME LogInv, NEW c \in SandboxCalls, NEW entries, logTest(entries), Idle(c),
         UNCHANGED <<made, declined, clears>>,
         \A r \in ProviderRoutes : <<r, "PASS">> \in entries => c \in Unlogged(r),
         \/ /\ lost' = lost
            /\ \A r \in ProviderRoutes : c \in Unlogged(r) => <<r, "PASS">> \in entries
         \/ /\ lost' = lost + 1
            /\ \A r \in ProviderRoutes : <<r, "PASS">> \notin entries
  PROVE  LogInv'
<1>1. /\ testLog' \in [Steps -> [{"PASS", "FAIL"} -> Nat]]
      /\ \A r \in ProviderRoutes :
           testLog'[r].PASS =
             testLog[r].PASS + (IF <<r, "PASS">> \in entries THEN 1 ELSE 0)
  BY Logged
<1>2. /\ sandbox' \in [SandboxCalls -> [route : ProviderRoutes \cup {"none"}, phase : Phase]]
      /\ \A d \in SandboxCalls :
           sandbox'[d].phase # "idle" => sandbox'[d].route \in ProviderRoutes
      /\ \A r \in ProviderRoutes : Unlogged(r)' = Unlogged(r) \ {c}
  BY PhaseMoves DEF Idle, Phase, Accepted
<1>3. lost \in Nat /\ lost' \in Nat
  BY DEF LogInv, SandboxTyped
<1>4. SandboxTyped'
  BY <1>1, <1>2, <1>3 DEF LogInv, SandboxTyped
<1>5. ASSUME NEW r \in ProviderRoutes
      PROVE  Balance(testLog'[r].PASS, Cardinality(Unlogged(r)'), Done(r)', lost', clears')
  <2> DEFINE p == testLog[r].PASS
             u == Cardinality(Unlogged(r))
             m == Done(r)
  <2>1. /\ p \in Nat /\ u \in Nat /\ m \in Nat /\ clears \in Nat
        /\ Balance(p, u, m, lost, clears)
    BY Numbers
  <2>2. Unlogged(r)' = Unlogged(r) \ {c} /\ Done(r)' = m /\ clears' = clears
    BY <1>2 DEF Done
  <2>3. /\ c \in Unlogged(r) => u >= 1 /\ Cardinality(Unlogged(r)') = u - 1
        /\ c \notin Unlogged(r) => Cardinality(Unlogged(r)') = u
    BY <2>2, UnloggedCounted
  <2>4. /\ <<r, "PASS">> \in entries => testLog'[r].PASS = p + 1
        /\ <<r, "PASS">> \notin entries => testLog'[r].PASS = p
    BY <1>1, <2>1
  <2> HIDE DEF p, u, m
  <2>5. /\ Balance(p, u, m, lost + 1, clears)
        /\ u >= 1 => /\ Balance(p + 1, u - 1, m, lost, clears)
                     /\ Balance(p, u - 1, m, lost + 1, clears)
    BY <1>3, <2>1, BalanceKept
  <2>6. CASE <<r, "PASS">> \in entries
    BY <2>2, <2>3, <2>4, <2>5, <2>6
  <2>7. CASE <<r, "PASS">> \notin entries /\ c \in Unlogged(r)
    BY <2>2, <2>3, <2>4, <2>5, <2>7
  <2>8. CASE <<r, "PASS">> \notin entries /\ c \notin Unlogged(r)
    BY <2>1, <2>2, <2>3, <2>4, <2>5, <2>8
  <2> QED BY <2>6, <2>7, <2>8
<1> QED BY <1>4, <1>5 DEF LogInv, Balanced

LEMMA ReturnsKeepsLog ==
  ASSUME LogInv, NEW c \in SandboxCalls, Returns(c)
  PROVE  LogInv'
<1> DEFINE route == sandbox[c].route
           ok == Passes(route, sandbox[c].phase)
<1>1. PICK checked \in AmountCheck(route, ok) :
        logTest({<<route, Verdict(ok)>>} \cup checked)
  BY DEF Returns
<1> DEFINE entries == {<<route, Verdict(ok)>>} \cup checked
<1>2. /\ sandbox[c].phase # "idle"
      /\ Idle(c) /\ UNCHANGED <<made, declined, lost, clears>>
  BY DEF Returns
<1>3. route \in ProviderRoutes
  BY <1>2 DEF LogInv, SandboxTyped
<1>4. \A r \in ProviderRoutes, v \in {"PASS", "FAIL"} : <<r, v>> \notin checked
  BY StepsApart DEF AmountCheck, AmountSteps
<1>5. \A r \in ProviderRoutes : <<r, "PASS">> \in entries <=> r = route /\ ok
  BY <1>4 DEF Verdict
<1>6. \A r \in ProviderRoutes : c \in Unlogged(r) <=> r = route /\ ok
  BY DEF Unlogged, Accepted, Passes
<1>7. logTest(entries)
  BY <1>1
<1> HIDE DEF entries, ok, route
<1> QED BY <1>2, <1>5, <1>6, <1>7, EndKeepsLog

LEMMA ThrowsKeepsLog ==
  ASSUME LogInv, NEW c \in SandboxCalls, Throws(c)
  PROVE  LogInv'
<1> DEFINE entries == {<<sandbox[c].route, "FAIL">>}
<1>1. /\ logTest(entries) /\ Idle(c) /\ UNCHANGED <<made, declined, clears>> /\ lost' = lost + 1
  BY DEF Throws
<1>2. \A r \in ProviderRoutes : <<r, "PASS">> \notin entries
  OBVIOUS
<1> HIDE DEF entries
<1> QED BY <1>1, <1>2, EndKeepsLog

LEMMA MockKeepsLog ==
  ASSUME LogInv, NEW route \in MockRoutes, MockCall(route)
  PROVE  LogInv'
<1>1. PICK verdict \in MockVerdicts(route) : logTest({<<route, verdict>>})
  BY DEF MockCall
<1>2. UNCHANGED <<sandbox, made, declined, lost, clears>>
  BY DEF MockCall
<1>3. /\ testLog' \in [Steps -> [{"PASS", "FAIL"} -> Nat]]
      /\ \A r \in ProviderRoutes :
           testLog'[r].PASS =
             testLog[r].PASS + (IF <<r, "PASS">> \in {<<route, verdict>>} THEN 1 ELSE 0)
  BY <1>1, Logged
<1>4. \A r \in ProviderRoutes : testLog'[r].PASS = testLog[r].PASS
  <2> SUFFICES ASSUME NEW r \in ProviderRoutes PROVE testLog'[r].PASS = testLog[r].PASS
    OBVIOUS
  <2>1. <<r, "PASS">> \notin {<<route, verdict>>}
    BY StepsApart
  <2>2. testLog[r].PASS \in Nat
    BY Numbers
  <2> QED BY <1>3, <2>1, <2>2
<1>5. SandboxTyped'
  BY <1>2, <1>3 DEF LogInv, SandboxTyped
<1>6. Balanced'
  BY <1>2, <1>4 DEF LogInv, Balanced, Unlogged, Done
<1> QED BY <1>5, <1>6 DEF LogInv

LEMMA ClearKeepsLog ==
  ASSUME LogInv, Clear
  PROVE  LogInv'
<1>1. /\ clears' = clears + 1 /\ UNCHANGED <<sandbox, made, declined, lost>>
      /\ testLog' = [place \in Steps |-> [PASS |-> 0, FAIL |-> 0]]
  BY DEF Clear, Empty
<1>2. [PASS |-> 0, FAIL |-> 0] \in [{"PASS", "FAIL"} -> Nat]
  OBVIOUS
<1>3. testLog' \in [Steps -> [{"PASS", "FAIL"} -> Nat]]
  BY <1>1, <1>2
<1>4. SandboxTyped'
  BY <1>1, <1>3 DEF LogInv, SandboxTyped
<1>5. ASSUME NEW r \in ProviderRoutes
      PROVE  Balance(testLog'[r].PASS, Cardinality(Unlogged(r)'), Done(r)', lost', clears')
  <2>1. testLog'[r].PASS = 0
    BY <1>1 DEF Steps
  <2>2. Unlogged(r)' = Unlogged(r)
    BY <1>1 DEF Unlogged
  <2>3. Balance(0, Cardinality(Unlogged(r)), Done(r), lost, clears + 1)
    BY Numbers, BalanceKept
  <2>4. Done(r)' = Done(r)
    BY <1>1 DEF Done
  <2> QED BY <1>1, <2>1, <2>2, <2>3, <2>4
<1> QED BY <1>4, <1>5 DEF LogInv, Balanced

LEMMA SandboxStepKeepsLog ==
  ASSUME LogInv, SandboxStep
  PROVE  LogInv'
<1>1. ASSUME NEW c \in SandboxCalls, Refuses(c) PROVE LogInv'
  <2>1. sandbox[c].route \in ProviderRoutes
    BY <1>1 DEF Refuses, LogInv, SandboxTyped
  <2> QED BY <1>1, <2>1, PostKeepsLog
<1> QED BY <1>1, PostKeepsLog, AcceptedKeepsLog, ReturnsKeepsLog, ThrowsKeepsLog,
           MockKeepsLog, ClearKeepsLog DEF SandboxStep

(* The panes of the page touch the log through the sandbox's steps only;   *)
(* a poll of the V1 view may be lost.                                      *)
LEMMA LogStep == LogInv /\ [DemoNext]_demoVars => LogInv'
<1> SUFFICES ASSUME LogInv, [DemoNext]_demoVars PROVE LogInv'
  OBVIOUS
<1>1. \/ SandboxStep \/ \E route \in MockRoutes : MockCall(route)
      \/ PollLost \/ UNCHANGED sandboxVars
  BY Zenon DEF DemoNext, Toggle, Others, Select, demoVars
<1>2. CASE PollLost
  BY <1>2, LogRests DEF PollLost
<1>3. CASE UNCHANGED sandboxVars
  BY <1>3, LogRests DEF sandboxVars
<1> QED BY <1>1, <1>2, <1>3, SandboxStepKeepsLog, MockKeepsLog

-----------------------------------------------------------------------------
(* The PASS entries of a route and what the provider answered with a       *)
(* success, whatever it decided, stay in balance, for any finite number of *)
(* calls under way and any routes (server.js logTest).                     *)
THEOREM LogInvariance == IsFiniteSet(SandboxCalls) /\ DemoSpec => []LogInv
<1>1. IsFiniteSet(SandboxCalls) /\ DemoInit => LogInv
  BY SandboxStarts DEF DemoInit
<1> QED BY <1>1, LogStep, PTL DEF DemoSpec

(* A PASS stands for a call the provider carried out, or for an order or a *)
(* charge it decided against; and every such answer is there as a PASS     *)
(* unless one was lost or the log cleared (server.js logTest).             *)
THEOREM LogIsTrue == IsFiniteSet(SandboxCalls) /\ DemoSpec => []LogTellsTruth
<1>1. LogInv => LogTellsTruth
  <2> SUFFICES ASSUME LogInv, NEW route \in ProviderRoutes
               PROVE  /\ testLog[route].PASS
                           <= made[route] + (IF route \in Deciding THEN declined[route] ELSE 0)
                      /\ clears = 0
                           /\ (\A c \in SandboxCalls :
                                 sandbox[c].phase \notin {"made", "declined"})
                           => made[route] + declined[route] <= testLog[route].PASS + lost
    BY DEF LogTellsTruth
  <2> DEFINE p == testLog[route].PASS
             u == Cardinality(Unlogged(route))
             m == Done(route)
  <2>1. /\ p \in Nat /\ u \in Nat /\ m \in Nat /\ lost \in Nat
        /\ Balance(p, u, m, lost, clears)
    BY Numbers
  <2>2. (\A c \in SandboxCalls : sandbox[c].phase \notin {"made", "declined"}) => u = 0
    <3>1. (\A c \in SandboxCalls : sandbox[c].phase \notin {"made", "declined"})
            => Unlogged(route) = {}
      BY DEF Unlogged, Accepted
    <3> QED BY <3>1, FS_EmptySet
  <2>3. m = made[route] + declined[route]
    BY DEF Done
  <2>4. m = made[route] + (IF route \in Deciding THEN declined[route] ELSE 0)
    BY <2>3 DEF LogInv, SandboxTyped
  <2> HIDE DEF p, u, m
  <2>5. p <= m /\ (clears = 0 /\ u = 0 => m <= p + lost)
    BY <2>1 DEF Balance
  <2> QED BY <2>2, <2>3, <2>4, <2>5 DEF p
<1> QED BY <1>1, LogInvariance, PTL

-----------------------------------------------------------------------------
(* The sequence diagram: one arrow for each request it has looked at.      *)
TraceInv ==
  /\ IsFiniteSet(DOMAIN netlog) /\ IsFiniteSet(seenNetIds)
  /\ {a.req : a \in arrows} = seenNetIds
  /\ \A a, b \in arrows : a.req = b.req => a = b

(* What any step can do to the log and the diagram.                        *)
TraceStep ==
  \/ \E after : IsFiniteSet(DOMAIN after) /\ Notify(after)
  \/ \E r : ResetAndSend(r)
  \/ Reset
  \/ UNCHANGED traceVars

LEMMA LogStaysFinite ==
  ASSUME NEW after, IsFiniteSet(DOMAIN after), NEW r
  PROVE  /\ IsFiniteSet(DOMAIN Sent(after, r))
         /\ IsFiniteSet(DOMAIN Connected(after, r))
         /\ \A ok \in BOOLEAN : IsFiniteSet(DOMAIN Answered(after, r, ok))
<1>1. IsFiniteSet(DOMAIN after \cup {r})
  BY FS_AddElement
<1>2. DOMAIN Sent(after, r) = DOMAIN after \cup {r}
  BY DEF Sent, Entry
<1>3. DOMAIN Connected(after, r) = DOMAIN after \cup {r}
  BY DEF Connected, Entry
<1>4. \A ok \in BOOLEAN : DOMAIN Answered(after, r, ok) = DOMAIN after
  BY DEF Answered
<1> QED BY <1>1, <1>2, <1>3, <1>4

LEMMA TraceStepKeeps ==
  ASSUME TraceInv, TraceStep
  PROVE  TraceInv'
<1>1. ASSUME NEW after, IsFiniteSet(DOMAIN after), Notify(after) PROVE TraceInv'
  <2> DEFINE new == {[req |-> r, ok |-> after[r]] : r \in DOMAIN after \ seenNetIds}
  <2>1. netlog' = after /\ seenNetIds' = seenNetIds \cup DOMAIN after /\ arrows' = arrows \cup new
    BY <1>1 DEF Notify
  <2>2. IsFiniteSet(seenNetIds')
    BY <1>1, <2>1, FS_Union DEF TraceInv
  <2>3. \A a \in new : /\ a.req \in DOMAIN after /\ a.req \notin seenNetIds
                       /\ a = [req |-> a.req, ok |-> after[a.req]]
    OBVIOUS
  <2>4. ASSUME NEW r \in DOMAIN after \ seenNetIds PROVE \E a \in new : a.req = r
    <3>1. [req |-> r, ok |-> after[r]] \in new
      OBVIOUS
    <3> QED BY <3>1
  <2>5. \A a \in arrows : a.req \in seenNetIds
    BY DEF TraceInv
  <2> HIDE DEF new
  <2>6. {a.req : a \in arrows'} = seenNetIds'
    <3>1. \A a \in arrows' : a.req \in seenNetIds'
      BY <2>1, <2>3, <2>5
    <3>2. ASSUME NEW r \in seenNetIds' PROVE \E a \in arrows' : a.req = r
      <4>1. CASE r \in seenNetIds
        BY <2>1, <4>1 DEF TraceInv
      <4>2. CASE r \notin seenNetIds
        BY <2>1, <2>4, <4>2
      <4> QED BY <4>1, <4>2
    <3> QED BY <3>1, <3>2
  <2>7. \A a, b \in arrows' : a.req = b.req => a = b
    <3> SUFFICES ASSUME NEW a \in arrows', NEW b \in arrows', a.req = b.req PROVE a = b
      OBVIOUS
    <3>1. CASE a \in new /\ b \in new
      BY <2>3, <3>1
    <3>2. CASE a \in arrows /\ b \in arrows
      BY <3>2 DEF TraceInv
    <3> QED BY <2>1, <2>3, <2>5, <3>1, <3>2
  <2> QED BY <1>1, <2>1, <2>2, <2>6, <2>7 DEF TraceInv
<1>2. ASSUME NEW r, ResetAndSend(r) PROVE TraceInv'
  <2>1. netlog' = [q \in {r} |-> "pending"] /\ seenNetIds' = {r}
        /\ arrows' = {[req |-> r, ok |-> "pending"]}
    BY <1>2 DEF ResetAndSend
  <2>2. DOMAIN netlog' = {r} /\ IsFiniteSet({r})
    BY <2>1, FS_Singleton
  <2> QED BY <2>1, <2>2 DEF TraceInv
<1>3. CASE Reset
  BY <1>3, FS_EmptySet DEF Reset, TraceInv
<1>4. CASE UNCHANGED traceVars
  BY <1>4 DEF traceVars, TraceInv
<1> QED BY <1>1, <1>2, <1>3, <1>4 DEF TraceStep

(* The runner notifies the diagram of logs made from the log.              *)
LEMMA RunnerTraces ==
  ASSUME TraceInv, RunnerNext
  PROVE  TraceStep
<1>f. IsFiniteSet(DOMAIN netlog)
  BY DEF TraceInv
<1>1. ASSUME NEW s, RunActive(s) PROVE TraceStep
  BY <1>1, Zenon DEF RunActive, TraceStep
<1>2. ASSUME NEW n, NEW request, NEW lostOne, Fails(n, request, lostOne) PROVE TraceStep
  <2>1. Notify(Answered(netlog, <<n, request>>, FALSE))
    BY <1>2, Zenon DEF Fails
  <2>2. IsFiniteSet(DOMAIN Answered(netlog, <<n, request>>, FALSE))
    BY <1>f, LogStaysFinite
  <2> QED BY <2>1, <2>2 DEF TraceStep
<1>3. ASSUME NEW n, SessionReturns(n) PROVE TraceStep
  <2> DEFINE a == Answered(netlog, <<n, "session">>, TRUE)
             b == Connected(a, <<n, "sse">>)
             d == Sent(b, <<n, "order">>)
  <2>1. Notify(d)
    BY <1>3, Zenon DEF SessionReturns
  <2>2. IsFiniteSet(DOMAIN a)
    BY <1>f, LogStaysFinite
  <2> HIDE DEF a
  <2>3. IsFiniteSet(DOMAIN b)
    BY <2>2, LogStaysFinite
  <2> HIDE DEF b
  <2>4. IsFiniteSet(DOMAIN d)
    BY <2>3, LogStaysFinite
  <2> HIDE DEF d
  <2> QED BY <2>1, <2>4 DEF TraceStep
<1>4. ASSUME NEW n, OrderReturns(n) PROVE TraceStep
  <2> DEFINE a == Answered(netlog, <<n, "order">>, TRUE)
             d == Sent(a, <<n, PostAuthRequest[run[n].scenario]>>)
  <2>1. Notify(a) \/ Notify(d)
    <3>1. \/ Ends(n, <<"completed">>) \/ Ends(n, <<"failed">>)
          \/ SetTimer(n, "inject", <<"pending">>)
          \/ SetTimer(n, "expire", <<"awaiting_merchant_capture">>) \/ PostAuth(n)
      BY <1>4 DEF OrderReturns
    <3>2. ASSUME NEW states, Ends(n, states) PROVE Notify(a)
      BY <3>2, Zenon DEF Ends
    <3>3. ASSUME NEW what, NEW states, SetTimer(n, what, states) PROVE Notify(a)
      BY <3>3, Zenon DEF SetTimer
    <3>4. PostAuth(n) => Notify(d)
      BY Zenon DEF PostAuth
    <3> QED BY <3>1, <3>2, <3>3, <3>4
  <2>2. IsFiniteSet(DOMAIN a)
    BY <1>f, LogStaysFinite
  <2> HIDE DEF a
  <2>3. IsFiniteSet(DOMAIN d)
    BY <2>2, LogStaysFinite
  <2> HIDE DEF d
  <2> QED BY <2>1, <2>2, <2>3 DEF TraceStep
<1>5. ASSUME NEW n, NEW request, NEW ok \in BOOLEAN,
             Notify(Answered(netlog, <<n, request>>, ok))
      PROVE  TraceStep
  <2>1. IsFiniteSet(DOMAIN Answered(netlog, <<n, request>>, ok))
    BY <1>f, LogStaysFinite
  <2> QED BY <1>5, <2>1 DEF TraceStep
<1>6. ASSUME NEW timer, InjectFires(timer) PROVE TraceStep
  <2>1. Notify(Sent(netlog, <<timer.run, "inject">>))
    BY <1>6, Zenon DEF InjectFires
  <2>2. IsFiniteSet(DOMAIN Sent(netlog, <<timer.run, "inject">>))
    BY <1>f, LogStaysFinite
  <2> QED BY <2>1, <2>2 DEF TraceStep
<1>7. CASE PressAll \/ (\E b \in batch : BatchNext(b)) \/ \E s \in Scenarios : Press(s)
  BY <1>1, <1>7, Zenon DEF PressAll, BatchNext, Press
<1>8. ASSUME NEW n, Answer(n) \/ Lost(n) PROVE TraceStep
  <2>1. CASE OrderTimesOut(n)
    BY <1>2, <2>1, Zenon DEF OrderTimesOut
  <2>2. CASE Lost(n)
    BY <1>2, <2>2, Zenon DEF Lost
  <2>3. CASE PostAuthReturns(n)
    <3>1. Notify(Answered(netlog, <<n, run[n].phase>>, TRUE))
      BY <2>3, Zenon DEF PostAuthReturns
    <3> QED BY <1>5, <3>1
  <2> QED BY <1>3, <1>4, <1>8, <2>1, <2>2, <2>3 DEF Answer
<1>9. ASSUME NEW i, InjectArrives(i) \/ InjectLost(i) PROVE TraceStep
  <2>1. \E ok \in BOOLEAN : Notify(Answered(netlog, <<i.run, "inject">>, ok))
    BY <1>9, Zenon DEF InjectArrives, InjectLost
  <2> QED BY <1>5, <2>1
<1>10. CASE SseDelivers \/ PlayScript \/ \E timer \in timers : ExpireFires(timer)
  BY <1>10, Zenon DEF SseDelivers, PlayScript, ExpireFires, TraceStep
<1> QED BY <1>6, <1>7, <1>8, <1>9, <1>10, Zenon DEF RunnerNext

LEMMA DemoTraces == TraceInv /\ [DemoNext]_demoVars => TraceInv'
<1> SUFFICES ASSUME TraceInv, [DemoNext]_demoVars PROVE TraceInv'
  OBVIOUS
<1>1. RunnerNext \/ UNCHANGED runnerVars
  BY Zenon DEF DemoNext, Toggle, Others, Select, demoVars
<1>2. CASE UNCHANGED runnerVars
  BY <1>2, TraceStepKeeps DEF runnerVars, TraceStep
<1> QED BY <1>1, <1>2, RunnerTraces, TraceStepKeeps

(* Each request the diagram has looked at is one arrow, for any number of  *)
(* overlapping runs and resets (live-trace.js ingestNetlog, reset).        *)
THEOREM OneArrowForEach == DemoSpec => []OneArrowEach
<1>1. DemoInit => TraceInv
  BY FS_EmptySet DEF DemoInit, RunnerInit, TraceInit, TraceInv
<1>2. TraceInv => OneArrowEach
  <2> SUFFICES ASSUME TraceInv PROVE OneArrowEach
    OBVIOUS
  <2> DEFINE G == [r \in seenNetIds |-> CHOOSE a \in arrows : a.req = r]
  <2>1. \A r \in seenNetIds : \E a \in arrows : a.req = r
    BY DEF TraceInv
  <2>2. \A r \in seenNetIds : G[r] \in arrows /\ G[r].req = r
    BY <2>1
  <2>3. G \in [seenNetIds -> arrows]
    BY <2>2
  <2> HIDE DEF G
  <2>4. \A q, r \in seenNetIds : G[q] = G[r] => q = r
    BY <2>2
  <2>5. \A a \in arrows : \E r \in seenNetIds : G[r] = a
    BY <2>2 DEF TraceInv
  <2>6. G \in Bijection(seenNetIds, arrows)
    BY <2>3, <2>4, <2>5, Fun_IsBij
  <2>7. ExistsBijection(seenNetIds, arrows)
    BY <2>6 DEF ExistsBijection
  <2>8. Cardinality(arrows) = Cardinality(seenNetIds)
    BY <2>7, FS_Bijection DEF TraceInv
  <2> QED BY <2>8 DEF OneArrowEach, TraceInv
<1> QED BY <1>1, <1>2, DemoTraces, PTL DEF DemoSpec

-----------------------------------------------------------------------------
(* The SDK pane: the mounts of a load that are still on the page belong to *)
(* the payment method that is shown.                                       *)
SdkLoadRecord ==
  [phase : {"idle", "injecting", "rendering", "done"}, apm : All,
   creds : Creds \cup {"none"}, attached : BOOLEAN]

PaneTyped ==
  /\ apm \in All /\ global \in Creds \cup {"none"}
  /\ sdkLoad \in [SdkLoads -> SdkLoadRecord]

PaneInv ==
  /\ PaneTyped
  /\ activeTab = "sdk" => \A l \in SdkLoads : sdkLoad[l].attached => sdkLoad[l].apm = apm
  /\ ButtonOfItsApm

PaneStep ==
  \/ (\E id \in All : load(id)) \/ Visitor \/ Fetched
  \/ \E l \in SdkLoads : Continues(l) \/ \E ok \in BOOLEAN : Rendered(l, ok)

(* The pane is drawn anew, or is not on show.                              *)
LEMMA RerenderedKeepsPane ==
  ASSUME PaneInv, NEW tab, NEW status, Rerendered(tab, status), activeTab' = tab, apm' \in All,
         UNCHANGED global
  PROVE  PaneInv'
<1>1. sdkLoad \in [SdkLoads -> SdkLoadRecord]
  BY DEF PaneInv, PaneTyped
<1>2. CASE tab = "sdk"
  <2>1. mounted' = Nothing /\ sdkLoad' = Detached
    BY <1>2 DEF Rerendered
  <2>2. \A l \in SdkLoads : [sdkLoad[l] EXCEPT !.attached = FALSE] \in SdkLoadRecord
    BY <1>1 DEF SdkLoadRecord
  <2>3. sdkLoad' \in [SdkLoads -> SdkLoadRecord]
    BY <2>1, <2>2 DEF Detached
  <2>4. \A l \in SdkLoads : ~sdkLoad'[l].attached
    BY <1>1, <2>1 DEF Detached, SdkLoadRecord
  <2> QED BY <2>1, <2>3, <2>4 DEF PaneInv, PaneTyped, ButtonOfItsApm, Nothing
<1>3. CASE tab # "sdk"
  BY <1>3 DEF Rerendered, PaneInv, PaneTyped, ButtonOfItsApm
<1> QED BY <1>2, <1>3

(* A load goes on, and writes into the mounts it was given.                *)
LEMMA LoadKeepsPane ==
  ASSUME PaneInv, UNCHANGED <<apm, activeTab, global>>, NEW l \in SdkLoads,
         NEW phase \in {"rendering", "done"}, NEW creds \in Creds \cup {"none"},
         sdkLoad' = [sdkLoad EXCEPT ![l] = [sdkLoad[l] EXCEPT !.phase = phase, !.creds = creds]],
         \/ mounted' = mounted
         \/ /\ sdkLoad[l].attached
            /\ mounted'.kind = "button" => mounted'.apm = sdkLoad[l].apm
  PROVE  PaneInv'
<1> DEFINE new == [sdkLoad[l] EXCEPT !.phase = phase, !.creds = creds]
<1>1. sdkLoad \in [SdkLoads -> SdkLoadRecord]
  BY DEF PaneInv, PaneTyped
<1>2. new \in SdkLoadRecord /\ new.apm = sdkLoad[l].apm /\ new.attached = sdkLoad[l].attached
  BY <1>1 DEF SdkLoadRecord
<1>3. sdkLoad' = [sdkLoad EXCEPT ![l] = new]
  OBVIOUS
<1> HIDE DEF new
<1>4. sdkLoad' \in [SdkLoads -> SdkLoadRecord]
  BY <1>1, <1>2, <1>3
<1>5. \A k \in SdkLoads : /\ sdkLoad'[k].apm = sdkLoad[k].apm
                          /\ sdkLoad'[k].attached = sdkLoad[k].attached
  BY <1>1, <1>2, <1>3
<1> QED BY <1>4, <1>5 DEF PaneInv, PaneTyped, ButtonOfItsApm

LEMMA PaneKeeps ==
  ASSUME PaneInv, PaneStep
  PROVE  PaneInv'
<1>1. ASSUME NEW id \in All, load(id) PROVE PaneInv'
  BY <1>1, RerenderedKeepsPane DEF load
<1>2. ASSUME NEW tab \in Tabs, setTab(tab) PROVE PaneInv'
  BY <1>2, RerenderedKeepsPane DEF setTab, PaneInv, PaneTyped
<1>3. CASE Unload
  BY <1>3, RerenderedKeepsPane DEF Unload, PaneInv, PaneTyped
<1>4. ASSUME NEW l \in SdkLoads, NEW creds \in Creds, Submit(l, creds) PROVE PaneInv'
  <2> DEFINE new == [phase |-> "injecting", apm |-> apm, creds |-> creds, attached |-> TRUE]
  <2>1. sdkLoad \in [SdkLoads -> SdkLoadRecord] /\ apm \in All
    BY DEF PaneInv, PaneTyped
  <2>2. new \in SdkLoadRecord /\ new.apm = apm
    BY <2>1 DEF SdkLoadRecord
  <2>3. /\ sdkLoad' = [sdkLoad EXCEPT ![l] = new] /\ mounted' = Note("loading")
        /\ UNCHANGED <<apm, activeTab, global>>
    BY <1>4 DEF Submit
  <2> HIDE DEF new
  <2>4. sdkLoad' \in [SdkLoads -> SdkLoadRecord]
    BY <2>1, <2>2, <2>3
  <2>5. \A k \in SdkLoads : sdkLoad'[k] = IF k = l THEN new ELSE sdkLoad[k]
    BY <2>1, <2>3
  <2> QED BY <2>2, <2>3, <2>4, <2>5 DEF PaneInv, PaneTyped, ButtonOfItsApm, Note
<1>5. ASSUME NEW l \in SdkLoads, NEW present \in BOOLEAN, Probe(l, present) PROVE PaneInv'
  <2>1. sdkLoad \in [SdkLoads -> SdkLoadRecord]
    BY DEF PaneInv, PaneTyped
  <2>2. /\ sdkLoad' = [sdkLoad EXCEPT ![l].phase = "done"]
        /\ mounted' = IF present THEN Button(apm, "device") ELSE Note("loading")
        /\ UNCHANGED <<apm, activeTab, global>>
    BY <1>5 DEF Probe, Step
  <2>3. sdkLoad' \in [SdkLoads -> SdkLoadRecord]
    BY <2>1, <2>2 DEF SdkLoadRecord
  <2>4. \A k \in SdkLoads : /\ sdkLoad'[k].apm = sdkLoad[k].apm
                            /\ sdkLoad'[k].attached = sdkLoad[k].attached
    BY <2>1, <2>2 DEF SdkLoadRecord
  <2> QED BY <2>2, <2>3, <2>4 DEF PaneInv, PaneTyped, ButtonOfItsApm, Button, Note
<1>6. CASE Fetched
  <2>1. \A url \in Urls : url[2] \in Creds
    BY DEF Urls
  <2> QED BY <1>6, <2>1 DEF Fetched, ScriptRuns, ScriptFails, PaneInv, PaneTyped, ButtonOfItsApm
<1>7. ASSUME NEW l \in SdkLoads, Continues(l) \/ \E ok \in BOOLEAN : Rendered(l, ok)
      PROVE  PaneInv'
  <2>0. sdkLoad \in [SdkLoads -> SdkLoadRecord] /\ global \in Creds \cup {"none"}
    BY DEF PaneInv, PaneTyped
  <2>1. sdkLoad[l].creds \in Creds \cup {"none"}
    BY <2>0 DEF SdkLoadRecord
  <2>2. ASSUME Step(l, "done")
        PROVE  sdkLoad' = [sdkLoad EXCEPT ![l] =
                 [sdkLoad[l] EXCEPT !.phase = "done", !.creds = sdkLoad[l].creds]]
    BY <2>0, <2>2 DEF Step, SdkLoadRecord
  <2>3. CASE InjectFails(l) \/ PollTimesOut(l)
    BY <2>1, <2>2, <2>3, LoadKeepsPane DEF InjectFails, PollTimesOut, LoadOver
  <2>4. CASE Loaded(l)
    <3>1. /\ sdkLoad' = [sdkLoad EXCEPT ![l] =
               [sdkLoad[l] EXCEPT !.phase = "rendering", !.creds = global]]
          /\ Writes(l, Nothing) /\ UNCHANGED <<apm, activeTab, global>>
      BY <2>0, <2>4 DEF Loaded
    <3> QED BY <2>0, <3>1, LoadKeepsPane DEF Writes, Nothing
  <2>5. ASSUME NEW ok \in BOOLEAN, Rendered(l, ok) PROVE PaneInv'
    <3> DEFINE what == IF ok THEN Button(sdkLoad[l].apm, sdkLoad[l].creds) ELSE Note("error")
    <3>1. Writes(l, what) /\ Step(l, "done") /\ UNCHANGED <<apm, activeTab, global>>
      BY <2>5 DEF Rendered
    <3>2. what.kind = "button" => what.apm = sdkLoad[l].apm
      BY DEF Button, Note
    <3> HIDE DEF what
    <3> QED BY <2>1, <2>2, <3>1, <3>2, LoadKeepsPane DEF Writes
  <2> QED BY <1>7, <2>3, <2>4, <2>5 DEF Continues
<1> QED BY <1>1, <1>2, <1>3, <1>4, <1>5, <1>6, <1>7 DEF PaneStep, Visitor

(* A button on the page is of the payment method that is shown, for any    *)
(* number of loads, payment methods and moves (inspector.js mounts).       *)
THEOREM ButtonIsOfItsApm == DemoSpec => []ButtonOfItsApm
<1>1. DemoInit => PaneInv
  <2> SUFFICES ASSUME PaneInit PROVE PaneInv
    BY DEF DemoInit
  <2>1. apm \in All /\ activeTab # "sdk"
    BY SdkPaneAssumption DEF PaneInit, All
  <2> QED BY <2>1 DEF PaneInit, PaneInv, PaneTyped, SdkLoadRecord, ButtonOfItsApm
<1>2. PaneInv /\ [DemoNext]_demoVars => PaneInv'
  <2> SUFFICES ASSUME PaneInv, [DemoNext]_demoVars PROVE PaneInv'
    OBVIOUS
  <2>1. PaneStep \/ UNCHANGED paneVars
    BY Zenon DEF DemoNext, Toggle, Others, Select, PaneStep, demoVars
  <2>2. CASE UNCHANGED paneVars
    BY <2>2 DEF paneVars, PaneInv, PaneTyped, ButtonOfItsApm
  <2> QED BY <2>1, <2>2, PaneKeeps
<1>3. PaneInv => ButtonOfItsApm
  BY DEF PaneInv
<1> QED BY <1>1, <1>2, <1>3, PTL DEF DemoSpec

-----------------------------------------------------------------------------
(* The runs: what one of them does leaves the others as they are.          *)
RunRecord ==
  [scenario : Scenario, lost : BOOLEAN, alone : BOOLEAN,
   phase : {"session", "order", "capture", "void", "done"}]

BatchTyped == batch \in SUBSET [left : Seq(Scenario), awaits : Nat]

RunsInv == run \in Seq(RunRecord) /\ BatchTyped

(* Run n becomes r. *)
Becoming(n, r) == run' = [run EXCEPT ![n] = r] /\ r \in RunRecord

LEMMA Lengthened ==
  ASSUME NEW s \in Seq(Scenario), NEW t \in Seq(Scenario), Len(s) >= 1
  PROVE  s \o t \in Seq(Scenario) /\ Len(s \o t) >= 1
<1>1. s \o t \in Seq(Scenario) /\ Len(s \o t) = Len(s) + Len(t)
  BY ConcatProperties
<1>2. Len(s) \in Nat /\ Len(t) \in Nat
  BY LenProperties
<1>3. Len(s) + Len(t) >= 1
  BY <1>2
<1> QED BY <1>1, <1>3

(* "run all" has scenarios of the table only.                              *)
LEMMA BatchFromTable ==
  ASSUME NEW p
  PROVE  ScenariosFor(p) \in Seq(Scenario) /\ ScenariosFor(p) # <<>>
<1> DEFINE If(condition, list) == IF condition THEN list ELSE <<>>
           b0 == <<"authorize_ok_capture_ok", "authorize_ok_partial_capture",
                   "authorize_ok_void", "authorize_ok_auth_expires">>
           c0 == <<"webhook_pending_then_complete", "webhook_pending_then_failed",
                   "webhook_pending_then_cancelled">>
           e0 == <<"shipping_address_change", "coupon_applied">>
           f0 == <<"single_use_token_retry", "merchant_validation">>
           a == <<"sale_ok", "sale_decline", "sale_timeout", "script_load_failed">>
           b == If(PatternDefaults[p].separateCapture, b0)
           c == If(p \in {"redirect", "qr", "voucher"}, c0)
           d == If(PatternDefaults[p].refund, <<"refund_ok">>)
           e == If(p \in {"bnpl", "native-wallet", "button-sdk"}, e0)
           f == If(p = "native-wallet", f0)
<1> USE DEF Scenario, AuthScenario, WebhookScenario, CapturedScenario, DeclinedScenario
<1>1. a \in Seq(Scenario) /\ Len(a) >= 1
  OBVIOUS
<1>2. b0 \in Seq(Scenario)
  OBVIOUS
<1>3. c0 \in Seq(Scenario)
  OBVIOUS
<1>4. <<"refund_ok">> \in Seq(Scenario) /\ e0 \in Seq(Scenario) /\ f0 \in Seq(Scenario)
  OBVIOUS
<1> HIDE DEF b0, c0, e0, f0, Scenario
<1>5. /\ b \in Seq(Scenario) /\ c \in Seq(Scenario) /\ d \in Seq(Scenario)
      /\ e \in Seq(Scenario) /\ f \in Seq(Scenario)
  BY <1>2, <1>3, <1>4, EmptySeq
<1>6. ScenariosFor(p) = a \o b \o c \o d \o e \o f
  BY DEF ScenariosFor, b0, c0, e0, f0
<1> HIDE DEF a, b, c, d, e, f
<1>7. a \o b \in Seq(Scenario) /\ Len(a \o b) >= 1
  BY <1>1, <1>5, Lengthened
<1>8. a \o b \o c \in Seq(Scenario) /\ Len(a \o b \o c) >= 1
  BY <1>5, <1>7, Lengthened
<1>9. a \o b \o c \o d \in Seq(Scenario) /\ Len(a \o b \o c \o d) >= 1
  BY <1>5, <1>8, Lengthened
<1>10. a \o b \o c \o d \o e \in Seq(Scenario) /\ Len(a \o b \o c \o d \o e) >= 1
  BY <1>5, <1>9, Lengthened
<1>11. a \o b \o c \o d \o e \o f \in Seq(Scenario) /\ Len(a \o b \o c \o d \o e \o f) >= 1
  BY <1>5, <1>10, Lengthened
<1> QED BY <1>6, <1>11, EmptySeq

LEMMA BecomingKeepsRuns ==
  ASSUME RunsInv, NEW n \in 1..started, NEW r, Becoming(n, r), UNCHANGED batch
  PROVE  RunsInv'
<1>1. /\ run' \in Seq(RunRecord) /\ Len(run') = Len(run)
      /\ \A k \in 1..Len(run) : run'[k] = IF k = n THEN r ELSE run[k]
  BY ExceptSeq DEF RunsInv, Becoming, started
<1> QED BY <1>1 DEF RunsInv, BatchTyped, started, Becoming

LEMMA BeginningKeepsRuns ==
  ASSUME RunsInv, NEW s \in Scenario, RunActive(s), BatchTyped'
  PROVE  RunsInv'
<1> DEFINE r == [scenario |-> s, phase |-> "session",
                 lost |-> FALSE, alone |-> Quiet]
<1>1. run' = Append(run, r)
  BY DEF RunActive
<1>2. Quiet \in BOOLEAN
  BY Zenon DEF Quiet
<1>3. r \in RunRecord /\ r.phase = "session"
  BY <1>2 DEF RunRecord
<1> HIDE DEF r
<1>4. /\ run' \in Seq(RunRecord) /\ Len(run') = Len(run) + 1
      /\ \A k \in 1..Len(run) : run'[k] = run[k]
      /\ run'[Len(run) + 1] = r
  BY <1>1, <1>3, AppendProperties DEF RunsInv
<1>5. Len(run) \in Nat
  BY LenProperties DEF RunsInv
<1> QED BY <1>3, <1>4, <1>5 DEF RunsInv, started

(* Only a scenario that is authorized has a capture or a void to come.     *)
LEMMA PostAuthAct ==
  ASSUME NEW s \in Scenario, HarnessAnswer(s).transactionState = "AUTHORIZED",
         s # "authorize_ok_auth_expires"
  PROVE  PostAuthRequest[s] \in {"capture", "void"}
<1>1. ChResponse[s] = "AUTHORIZED"
  BY DEF HarnessAnswer
<1>2. s \in AuthScenario
  BY <1>1 DEF ChResponse, AuthScenario, WebhookScenario, CapturedScenario,
              DeclinedScenario, Scenario
<1> QED BY <1>2 DEF PostAuthRequest

LEMMA RunsKeepRuns ==
  ASSUME RunsInv, RunnerNext
  PROVE  RunsInv'
<1>t. run \in Seq(RunRecord) /\ \A n \in 1..started : run[n] \in RunRecord
  BY DEF RunsInv, started
<1>1. ASSUME NEW s \in Scenarios, Press(s) PROVE RunsInv'
  BY <1>1, BeginningKeepsRuns, RunnerAssumption DEF Press, RunsInv, BatchTyped
<1>0. ASSUME NEW left \in Seq(Scenario)
      PROVE  Awaits(left) \in [left : Seq(Scenario), awaits : Nat]
  BY <1>t, LenProperties DEF Awaits, started
<1>2. CASE PressAll
  <2> DEFINE eligible == ScenariosFor(BatchPattern)
  <2>1. eligible \in Seq(Scenario) /\ eligible # <<>>
    BY BatchFromTable
  <2>2. /\ RunActive(Head(eligible))
        /\ batch' = batch \cup {Awaits(Tail(eligible))}
    BY <1>2 DEF PressAll
  <2> HIDE DEF eligible
  <2>3. Head(eligible) \in Scenario /\ Tail(eligible) \in Seq(Scenario)
    BY <2>1, HeadTailProperties
  <2>4. BatchTyped'
    BY <1>0, <2>2, <2>3 DEF RunsInv, BatchTyped
  <2> QED BY <2>2, <2>3, <2>4, BeginningKeepsRuns
<1>3. ASSUME NEW b \in batch, BatchNext(b) PROVE RunsInv'
  <2>1. b.left \in Seq(Scenario) /\ b.left # <<>>
    BY <1>3 DEF BatchNext, RunsInv, BatchTyped
  <2>2. /\ RunActive(Head(b.left))
        /\ batch' = (batch \ {b}) \cup {Awaits(Tail(b.left))}
    BY <1>3 DEF BatchNext
  <2>3. Head(b.left) \in Scenario /\ Tail(b.left) \in Seq(Scenario)
    BY <2>1, HeadTailProperties
  <2>4. BatchTyped'
    BY <1>0, <2>2, <2>3 DEF RunsInv, BatchTyped
  <2> QED BY <2>2, <2>3, <2>4, BeginningKeepsRuns
<1>4. ASSUME NEW n \in 1..started, NEW phase \in {"order", "done"}, NEW miss \in BOOLEAN,
             run' = [run EXCEPT ![n] = [run[n] EXCEPT !.phase = phase, !.lost = miss]],
             UNCHANGED batch
      PROVE  RunsInv'
  <2> DEFINE r == [run[n] EXCEPT !.phase = phase, !.lost = miss]
  <2>1. r \in RunRecord /\ r.phase = phase
    BY <1>t DEF RunRecord
  <2> HIDE DEF r
  <2>2. Becoming(n, r)
    BY <1>4, <2>1 DEF Becoming, r
  <2> QED BY <1>4, <2>2, BecomingKeepsRuns
<1>5. ASSUME NEW n \in 1..started, NEW phase \in {"order", "done"},
             run' = [run EXCEPT ![n].phase = phase], UNCHANGED batch
      PROVE  RunsInv'
  <2>1. /\ run[n].lost \in BOOLEAN
        /\ [run[n] EXCEPT !.phase = phase]
             = [run[n] EXCEPT !.phase = phase, !.lost = run[n].lost]
    BY <1>t DEF RunRecord
  <2>2. run' = [run EXCEPT ![n] = [run[n] EXCEPT !.phase = phase, !.lost = run[n].lost]]
    BY <1>5, <2>1
  <2> QED BY <1>4, <1>5, <2>1, <2>2
<1>6. ASSUME NEW n \in 1..started, NEW request, NEW miss \in BOOLEAN, Fails(n, request, miss)
      PROVE  RunsInv'
  <2>1. run' = [run EXCEPT ![n] = [run[n] EXCEPT !.phase = "done", !.lost = miss]]
        /\ UNCHANGED batch
    BY <1>6, <1>t DEF Fails
  <2> QED BY <1>4, <2>1
<1>7. ASSUME NEW n \in 1..started, OrderReturns(n) PROVE RunsInv'
  <2>1. UNCHANGED batch
    BY <1>7, Zenon DEF OrderReturns
  <2>2. \/ \E states : Ends(n, states)
        \/ \E what, states : SetTimer(n, what, states)
        \/ /\ HarnessAnswer(run[n].scenario).transactionState = "AUTHORIZED"
           /\ run[n].scenario # "authorize_ok_auth_expires" /\ PostAuth(n)
    <3>1. \/ Ends(n, <<"completed">>) \/ Ends(n, <<"failed">>)
          \/ SetTimer(n, "inject", <<"pending">>)
          \/ SetTimer(n, "expire", <<"awaiting_merchant_capture">>)
          \/ /\ HarnessAnswer(run[n].scenario).transactionState = "AUTHORIZED"
             /\ run[n].scenario # "authorize_ok_auth_expires" /\ PostAuth(n)
      BY <1>7 DEF OrderReturns
    <3> QED BY <3>1, Zenon
  <2>3. ASSUME NEW states, Ends(n, states) PROVE RunsInv'
    <3>1. run' = [run EXCEPT ![n].phase = "done"]
      BY <2>3, Zenon DEF Ends
    <3> QED BY <1>5, <2>1, <3>1
  <2>4. ASSUME NEW what, NEW states, SetTimer(n, what, states) PROVE RunsInv'
    <3>1. run' = [run EXCEPT ![n].phase = "done"]
      BY <2>4, Zenon DEF SetTimer
    <3> QED BY <1>5, <2>1, <3>1
  <2>5. ASSUME HarnessAnswer(run[n].scenario).transactionState = "AUTHORIZED",
               run[n].scenario # "authorize_ok_auth_expires", PostAuth(n)
        PROVE  RunsInv'
    <3> DEFINE request == PostAuthRequest[run[n].scenario]
               r == [run[n] EXCEPT !.phase = request]
    <3>1. run[n].scenario \in Scenario
      BY <1>t DEF RunRecord
    <3>2. request \in {"capture", "void"}
      BY <2>5, <3>1, PostAuthAct
    <3>3. run' = [run EXCEPT ![n].phase = request]
      BY <2>5, Zenon DEF PostAuth
    <3> HIDE DEF request
    <3>4. run[n] \in RunRecord
      BY <1>t
    <3>5. r \in RunRecord
      BY <3>2, <3>4 DEF RunRecord
    <3>6. run' = [run EXCEPT ![n] = r]
      BY <3>3
    <3> HIDE DEF r
    <3>7. Becoming(n, r)
      BY <3>5, <3>6 DEF Becoming
    <3> QED BY <2>1, <3>7, BecomingKeepsRuns
  <2> QED BY <2>2, <2>3, <2>4, <2>5
<1>8. ASSUME NEW i, InjectLost(i) PROVE RunsInv'
  <2>1. run' = [run EXCEPT ![i.run].lost = TRUE] /\ UNCHANGED batch
    BY <1>8 DEF InjectLost
  <2>2. CASE i.run \in 1..started
    <3> DEFINE r == [run[i.run] EXCEPT !.lost = TRUE]
    <3>1. r \in RunRecord
      BY <1>t, <2>2 DEF RunRecord
    <3>2. run' = [run EXCEPT ![i.run] = r]
      BY <2>1
    <3> HIDE DEF r
    <3>3. Becoming(i.run, r)
      BY <2>2, <3>1, <3>2 DEF Becoming, RunsInv
    <3> QED BY <2>1, <2>2, <3>3, BecomingKeepsRuns
  <2>3. CASE i.run \notin 1..started
    <3>1. DOMAIN run = 1..started /\ run = [k \in DOMAIN run |-> run[k]]
      BY <1>t, LenProperties DEF started
    <3>2. run' = run
      BY <2>1, <2>3, <3>1
    <3> QED BY <2>1, <3>2 DEF RunsInv, BatchTyped, started
  <2> QED BY <2>2, <2>3
<1>9. ASSUME NEW n \in 1..started, Answer(n) \/ Lost(n) PROVE RunsInv'
  <2>1. CASE SessionReturns(n)
    <3>1. run' = [run EXCEPT ![n].phase = "order"] /\ UNCHANGED batch
      BY <2>1, Zenon DEF SessionReturns
    <3> QED BY <1>5, <3>1
  <2>2. CASE OrderTimesOut(n)
    BY <1>6, <2>2 DEF OrderTimesOut
  <2>3. CASE PostAuthReturns(n)
    <3>1. run' = [run EXCEPT ![n].phase = "done"] /\ UNCHANGED batch
      BY <2>3, Zenon DEF PostAuthReturns
    <3> QED BY <1>5, <3>1
  <2>4. CASE Lost(n)
    BY <1>6, <2>4 DEF Lost
  <2> QED BY <1>7, <1>9, <2>1, <2>2, <2>3, <2>4 DEF Answer
<1>10. CASE UNCHANGED <<run, batch>>
  BY <1>10 DEF RunsInv, BatchTyped, started
<1>11. ASSUME \/ \E timer \in timers : InjectFires(timer) \/ ExpireFires(timer)
              \/ \E i \in injecting : InjectArrives(i)
              \/ SseDelivers \/ PlayScript
       PROVE  UNCHANGED <<run, batch>>
  BY <1>11, Zenon DEF InjectFires, ExpireFires, InjectArrives, SseDelivers, PlayScript
<1> QED BY <1>1, <1>2, <1>3, <1>8, <1>9, <1>10, <1>11, Zenon DEF RunnerNext

-----------------------------------------------------------------------------
(* A run that began alone and lost nothing, step by step: what is under    *)
(* way is its own, and what it has shown is on its way to what its scenario*)
(* promises.                                                               *)
Latest == run[started]
Alone == started > 0 /\ Latest.alone /\ ~Latest.lost

Unsent == timers = {} /\ injecting = {}
OwnStream == stream = started /\ activeSessionId = started

Opening ==
  /\ Latest.phase = "session" /\ Unsent /\ log[started] = <<>> /\ stream # started
  /\ stream > 0 => delivered = Len(log[stream])

Ordering ==
  /\ Latest.phase = "order" /\ Unsent /\ OwnStream
  /\ log[started] = <<>> /\ delivered = 0

Acting ==
  /\ Latest.scenario \in AuthScenario \ {"authorize_ok_auth_expires"}
  /\ Latest.phase = PostAuthRequest[Latest.scenario]
  /\ Unsent /\ OwnStream /\ log[started] = <<>> /\ delivered = 0
  /\ "awaiting_merchant_capture" \in visitedStates

Holding ==
  /\ Latest.phase = "done" /\ Latest.scenario = "authorize_ok_auth_expires"
  /\ timers = {[what |-> "expire", run |-> started]} /\ injecting = {}
  /\ OwnStream /\ log[started] = <<>> /\ delivered = 0
  /\ "awaiting_merchant_capture" \in visitedStates

(* The webhook: to be sent, on its way to the server, on its way back.     *)
Webhook == log[started] = <<ScenarioWebhook[Latest.scenario]>>

Awaiting ==
  /\ Latest.phase = "done" /\ Latest.scenario \in WebhookScenario
  /\ OwnStream /\ delivered = 0 /\ "pending" \in visitedStates
  /\ \/ /\ timers = {[what |-> "inject", run |-> started]} /\ injecting = {}
        /\ log[started] = <<>>
     \/ /\ timers = {} /\ injecting = {[session |-> started, run |-> started]}
        /\ log[started] = <<>>
     \/ Unsent /\ Webhook

Promised ==
  Latest.scenario # "script_load_failed" =>
    /\ currentState = Last(ExpectedStates[Latest.scenario])
    /\ Range(ExpectedStates[Latest.scenario]) \subseteq visitedStates

Ended ==
  /\ Latest.phase = "done" /\ Unsent /\ OwnStream
  /\ delivered = Len(log[started]) /\ Promised

Underway == Opening \/ Ordering \/ Acting \/ Holding \/ Awaiting \/ Ended

RestDone == \A k \in 1..started : k # started => run[k].phase = "done"

(* What a run leaves behind comes after its answers, and names what exists.*)
RunShape ==
  /\ DOMAIN log = 1..MaxRuns /\ started <= MaxRuns
  /\ activeSessionId \in 0..started /\ stream \in 0..started
  /\ \A i \in injecting : i.session \in 0..started
  /\ \A t \in timers \cup injecting : t.run \in 1..started /\ run[t.run].phase = "done"
  /\ \A k \in 1..started : run[k].lost => run[k].phase = "done"
  /\ \A k \in 1..MaxRuns : k > started => log[k] = <<>>

AloneInv == RunsInv /\ RunShape /\ (Alone => RestDone /\ Underway)

(* Run n, which has not ended, goes on to another phase.                   *)
Moves(n, phase) ==
  /\ n \in 1..started /\ run[n].phase # "done"
  /\ started' = started
  /\ \A k \in 1..started :
       /\ run'[k].scenario = run[k].scenario
       /\ run'[k].alone = run[k].alone
       /\ run'[k].lost = run[k].lost
       /\ run'[k].phase = IF k = n THEN phase ELSE run[k].phase

-----------------------------------------------------------------------------
(* What the tables promise of each kind of scenario.                       *)
LEMMA PromisedOne ==
  ASSUME NEW s \in Scenario, NEW x,
         \/ s \in CapturedScenario /\ x = "completed"
         \/ s \in DeclinedScenario \cup {"sale_timeout"} /\ x = "failed"
  PROVE  Last(ExpectedStates[s]) = x /\ Range(ExpectedStates[s]) = {x}
<1>1. ExpectedStates[s] = <<x>>
  BY DEF ExpectedStates, Scenario, AuthScenario, WebhookScenario, CapturedScenario,
         DeclinedScenario
<1> QED BY <1>1 DEF Last, Range

LEMMA PromisedTwo ==
  ASSUME NEW s \in Scenario, NEW x, NEW y,
         \/ /\ s \in AuthScenario \ {"authorize_ok_auth_expires"}
            /\ x = "awaiting_merchant_capture"
            /\ y = IF PostAuthRequest[s] = "capture" THEN "completed" ELSE "cancelled"
         \/ /\ s = "authorize_ok_auth_expires"
            /\ x = "awaiting_merchant_capture" /\ y = "auth_expired"
         \/ s \in WebhookScenario /\ x = "pending" /\ y = KindMap[ScenarioWebhook[s]]
  PROVE  Last(ExpectedStates[s]) = y /\ Range(ExpectedStates[s]) = {x, y}
<1>1. ExpectedStates[s] = <<x, y>>
  BY DEF ExpectedStates, Scenario, AuthScenario, WebhookScenario, CapturedScenario,
         DeclinedScenario, PostAuthRequest, KindMap, ScenarioWebhook
<1> QED BY <1>1 DEF Last, Range

(* What the harness answers tells the scenarios apart.                     *)
LEMMA AnswerTells ==
  ASSUME NEW s \in Scenario
  PROVE  /\ HarnessAnswer(s).status # 200 => s = "sale_timeout"
         /\ HarnessAnswer(s).status = 200 =>
              /\ HarnessAnswer(s).transactionState = "CAPTURED" => s \in CapturedScenario
              /\ HarnessAnswer(s).transactionState = "DECLINED"
                   => s \in DeclinedScenario \cup {"script_load_failed"}
              /\ HarnessAnswer(s).transactionState = "PAYER_ACTION_REQUIRED"
                   => s \in WebhookScenario
              /\ HarnessAnswer(s).transactionState = "AUTHORIZED" => s \in AuthScenario
BY DEF HarnessAnswer, ChResponse, Scenario, AuthScenario, WebhookScenario,
       CapturedScenario, DeclinedScenario

LEMMA AdvanceOne ==
  ASSUME NEW x, Advance(<<x>>)
  PROVE  currentState' = x /\ visitedStates' = visitedStates \cup {x}
BY DEF Advance, Last, Range

LEMMA AdvanceTwo ==
  ASSUME NEW x, NEW y, Advance(<<x, y>>)
  PROVE  currentState' = y /\ visitedStates' = visitedStates \cup {x, y}
BY DEF Advance, Last, Range

-----------------------------------------------------------------------------
LEMMA Moved ==
  ASSUME RunsInv, NEW n \in 1..started, run[n].phase # "done", NEW phase,
         \/ run' = [run EXCEPT ![n].phase = phase]
         \/ run' = [run EXCEPT ![n].phase = phase, ![n].lost = run[n].lost]
  PROVE  Moves(n, phase)
<1>t. run \in Seq(RunRecord) /\ \A k \in 1..started : run[k] \in RunRecord
  BY DEF RunsInv, started
<1> DEFINE a == [run[n] EXCEPT !.phase = phase]
           b == [run[n] EXCEPT !.phase = phase, !.lost = run[n].lost]
<1>1. DOMAIN run = 1..started /\ started = Len(run) /\ n \in DOMAIN run
  BY <1>t, LenProperties DEF started
<1>2. run[n] \in RunRecord
  BY <1>t
<1>3. ASSUME NEW r \in {a, b}
      PROVE  /\ r.scenario = run[n].scenario /\ r.alone = run[n].alone
             /\ r.lost = run[n].lost /\ r.phase = phase
  BY <1>2, <1>3 DEF RunRecord
<1>4. PICK r \in {a, b} : run' = [run EXCEPT ![n] = r]
  BY <1>1
<1>5. DOMAIN run' = DOMAIN run /\ \A k \in DOMAIN run : run'[k] = IF k = n THEN r ELSE run[k]
  BY <1>4
<1>6. started' = started
  <2>1. run' \in Seq({run'[k] : k \in 1..started}) /\ DOMAIN run' = 1..started
    <3>1. run' = [k \in 1..started |-> run'[k]]
      BY <1>1, <1>4
    <3>2. started \in Nat
      BY <1>t, LenProperties DEF started
    <3> QED BY <3>1, <3>2
  <2> QED BY <2>1, <1>1, <1>t, LenProperties DEF started
<1> HIDE DEF a, b
<1> QED BY <1>1, <1>3, <1>4, <1>5, <1>6 DEF Moves

LEMMA MovedOn ==
  ASSUME RunsInv, NEW n \in 1..started, run[n].phase # "done", NEW phase,
         run' = [run EXCEPT ![n].phase = phase]
  PROVE  Moves(n, phase)
BY Moved, Zenon

LEMMA MovesKeepShape ==
  ASSUME RunsInv, RunShape, NEW n, NEW phase, Moves(n, phase),
         UNCHANGED <<log, injecting>>,
         activeSessionId' \in {activeSessionId, n}, stream' \in {stream, n},
         \/ timers' = timers
         \/ phase = "done" /\ \E what : timers' = timers \cup {[what |-> what, run |-> n]}
  PROVE  RunShape'
<1>1. started \in Nat
  BY LenProperties DEF RunsInv, started
<1>2. /\ n \in 1..started /\ run[n].phase # "done" /\ started' = started
      /\ \A k \in 1..started : /\ run'[k].lost = run[k].lost
                               /\ run'[k].phase = IF k = n THEN phase ELSE run[k].phase
  BY DEF Moves
<1>3. activeSessionId' \in 0..started' /\ stream' \in 0..started'
  BY <1>1, <1>2 DEF RunShape
<1>4. ASSUME NEW t \in timers' \cup injecting'
      PROVE  t.run \in 1..started' /\ run'[t.run].phase = "done"
  <2>1. CASE t \in timers \cup injecting
    BY <1>2, <2>1 DEF RunShape
  <2>2. CASE phase = "done" /\ t.run = n
    BY <1>2, <2>2
  <2> QED BY <2>1, <2>2
<1>5. \A k \in 1..started' : run'[k].lost => run'[k].phase = "done"
  BY <1>2 DEF RunShape
<1> QED BY <1>2, <1>3, <1>4, <1>5 DEF RunShape

(* A run that goes on alone is the latest one.                             *)
LEMMA MovesKeepAlone ==
  ASSUME AloneInv, RunsInv', RunShape', NEW n, NEW phase, Moves(n, phase),
         Alone /\ n = started => Underway'
  PROVE  AloneInv'
<1>1. /\ n \in 1..started /\ run[n].phase # "done" /\ started' = started
      /\ \A k \in 1..started : /\ run'[k].lost = run[k].lost /\ run'[k].alone = run[k].alone
                               /\ run'[k].phase = IF k = n THEN phase ELSE run[k].phase
  BY DEF Moves
<1>2. started \in 1..started
  BY <1>1, LenProperties DEF RunsInv, started, AloneInv
<1>3. ASSUME Alone' PROVE RestDone' /\ Underway'
  <2>1. Alone
    BY <1>1, <1>2, <1>3 DEF Alone, Latest
  <2>2. RestDone
    BY <2>1 DEF AloneInv
  <2>3. n = started
    BY <1>1, <2>2 DEF RestDone
  <2>4. RestDone'
    BY <1>1, <2>2, <2>3 DEF RestDone
  <2> QED BY <2>1, <2>3, <2>4
<1> QED BY <1>3 DEF AloneInv

-----------------------------------------------------------------------------
(* The runs by themselves: which steps take a run from phase to phase.     *)
LEMMA BeginsAlone ==
  ASSUME AloneInv, RunsInv', NEW s, RunActive(s)
  PROVE  AloneInv'
<1> DEFINE r == [scenario |-> s, phase |-> "session",
                 lost |-> FALSE, alone |-> Quiet]
<1>1. /\ run' = Append(run, r) /\ started < MaxRuns
      /\ UNCHANGED <<activeSessionId, log, stream, delivered, timers, injecting>>
  BY DEF RunActive
<1>2. r.phase = "session" /\ r.alone = Quiet /\ r.lost = FALSE
  OBVIOUS
<1>3. run \in Seq(RunRecord) /\ run' \in Seq(RunRecord)
  BY DEF AloneInv, RunsInv
<1> HIDE DEF r
<1>4. run \in Seq({run[k] : k \in 1..started} \cup {r})
  BY <1>3, LenProperties DEF started
<1>5. /\ started' = started + 1 /\ started \in Nat
      /\ \A k \in 1..started : run'[k] = run[k]
      /\ run'[started + 1] = r
  BY <1>1, <1>4, AppendProperties, LenProperties DEF started
<1>6. RunShape'
  <2>1. MaxRuns \in Nat
    BY RunnerAssumption
  <2>2. DOMAIN log' = 1..MaxRuns /\ started' <= MaxRuns
    BY <1>1, <1>5, <2>1 DEF AloneInv, RunShape
  <2>3. activeSessionId' \in 0..started' /\ stream' \in 0..started'
    BY <1>1, <1>5 DEF AloneInv, RunShape
  <2>4. \A i \in injecting' : i.session \in 0..started'
    BY <1>1, <1>5 DEF AloneInv, RunShape
  <2>5. ASSUME NEW t \in timers' \cup injecting'
        PROVE  t.run \in 1..started' /\ run'[t.run].phase = "done"
    <3>1. t.run \in 1..started /\ run[t.run].phase = "done"
      BY <1>1 DEF AloneInv, RunShape
    <3> QED BY <1>5, <3>1
  <2>6. ASSUME NEW k \in 1..started', run'[k].lost PROVE run'[k].phase = "done"
    <3>1. CASE k \in 1..started
      BY <1>5, <2>6, <3>1 DEF AloneInv, RunShape
    <3>2. CASE k = started + 1
      BY <1>2, <1>5, <2>6, <3>2
    <3> QED BY <1>5, <3>1, <3>2
  <2>7. \A k \in 1..MaxRuns : k > started' => log'[k] = <<>>
    BY <1>1, <1>5, <2>1 DEF AloneInv, RunShape
  <2> QED BY <2>2, <2>3, <2>4, <2>5, <2>6, <2>7 DEF RunShape
<1>7. ASSUME Alone' PROVE RestDone' /\ Underway'
  <2>1. Latest' = r
    BY <1>5 DEF Latest
  <2>2. Quiet
    BY <1>2, <1>7, <2>1 DEF Alone
  <2>3. RestDone'
    BY <1>5, <2>2 DEF Quiet, RestDone
  <2>4. Unsent' /\ (stream' > 0 => delivered' = Len(log'[stream']))
    BY <1>1, <2>2 DEF Quiet, Unsent
  <2>5. stream' # started'
    BY <1>1, <1>5 DEF AloneInv, RunShape
  <2>6. log'[started'] = <<>>
    <3>1. started' \in 1..MaxRuns /\ started' > started
      BY <1>1, <1>5, RunnerAssumption
    <3> QED BY <1>1, <3>1 DEF AloneInv, RunShape
  <2> QED BY <1>2, <2>1, <2>3, <2>4, <2>5, <2>6 DEF Underway, Opening
<1> QED BY <1>6, <1>7 DEF AloneInv

(* Which stage a run that goes on is in.                                   *)
LEMMA StageOfPhase ==
  ASSUME AloneInv, Alone
  PROVE  /\ Latest.scenario \in Scenario
         /\ Latest.phase = "session" => Opening
         /\ Latest.phase = "order" => Ordering
         /\ Latest.phase \in {"capture", "void"} => Acting
<1>1. started \in 1..started /\ Latest \in RunRecord
  <2>1. started \in Nat /\ run \in Seq(RunRecord)
    BY LenProperties DEF AloneInv, RunsInv, started
  <2>2. started > 0
    BY DEF Alone
  <2>3. started \in 1..started
    BY <2>1, <2>2
  <2> QED BY <2>1, <2>3 DEF Latest, started
<1>2. Underway
  BY DEF AloneInv
<1>3. Acting => Latest.phase \in {"capture", "void"}
  BY DEF Acting, PostAuthRequest
<1> QED BY <1>1, <1>2, <1>3
        DEF Underway, Opening, Ordering, Holding, Awaiting, Ended, RunRecord

LEMMA SessionKeepsAlone ==
  ASSUME AloneInv, RunsInv', NEW n \in 1..started, SessionReturns(n)
  PROVE  AloneInv'
<1>1. /\ run[n].phase = "session" /\ run' = [run EXCEPT ![n].phase = "order"]
      /\ activeSessionId' = n /\ stream' = n /\ delivered' = 0
      /\ UNCHANGED <<log, timers, injecting>>
  BY Zenon DEF SessionReturns
<1>2. Moves(n, "order")
  BY <1>1, Moved DEF AloneInv
<1>3. RunShape'
  BY <1>1, <1>2, MovesKeepShape DEF AloneInv
<1>4. ASSUME Alone, n = started PROVE Underway'
  <2>1. Opening
    BY <1>1, <1>4, StageOfPhase DEF Latest
  <2>2. started' = started /\ run'[started].phase = "order"
    BY <1>2, <1>4 DEF Moves
  <2>3. Ordering'
    BY <1>1, <1>4, <2>1, <2>2 DEF Opening, Ordering, Unsent, OwnStream, Latest
  <2> QED BY <2>3 DEF Underway
<1> QED BY <1>2, <1>3, <1>4, MovesKeepAlone

(* An order that is answered with a state that ends the run.               *)
LEMMA EndingKeepsAlone ==
  ASSUME AloneInv, RunsInv', NEW n \in 1..started, Moves(n, "done"),
         UNCHANGED <<activeSessionId, log, stream, delivered, timers, injecting>>,
         Alone /\ n = started =>
           \/ /\ Latest.phase = "order"
              /\ \E x : /\ Advance(<<x>>)
                        /\ Latest.scenario # "script_load_failed" =>
                             \/ Latest.scenario \in CapturedScenario /\ x = "completed"
                             \/ /\ Latest.scenario \in DeclinedScenario \cup {"sale_timeout"}
                                /\ x = "failed"
           \/ /\ Latest.phase \in {"capture", "void"}
              /\ Advance(<<IF Latest.phase = "capture" THEN "completed" ELSE "cancelled">>)
  PROVE  AloneInv'
<1>1. RunShape'
  BY MovesKeepShape DEF AloneInv
<1>2. ASSUME Alone, n = started PROVE Underway'
  <2>1. /\ started' = started /\ Latest'.phase = "done"
        /\ Latest'.scenario = Latest.scenario
    BY <1>2 DEF Moves, Latest
  <2>2. Latest.scenario \in Scenario /\ (Ordering \/ Acting)
    BY <1>2, StageOfPhase
  <2>3. Unsent' /\ OwnStream' /\ delivered' = Len(log'[started'])
    BY <2>1, <2>2 DEF Ordering, Acting, Unsent, OwnStream
  <2>4. CASE Latest.phase = "order"
    <3>1. PICK x : /\ Advance(<<x>>)
                   /\ Latest.scenario # "script_load_failed" =>
                        \/ Latest.scenario \in CapturedScenario /\ x = "completed"
                        \/ /\ Latest.scenario \in DeclinedScenario \cup {"sale_timeout"}
                           /\ x = "failed"
      BY <1>2, <2>4
    <3>2. currentState' = x /\ x \in visitedStates'
      BY <3>1, AdvanceOne
    <3>3. Promised'
      BY <2>1, <2>2, <3>1, <3>2, PromisedOne DEF Promised
    <3> QED BY <2>1, <2>3, <3>3 DEF Underway, Ended
  <2>5. CASE Latest.phase \in {"capture", "void"}
    <3> DEFINE x == IF Latest.phase = "capture" THEN "completed" ELSE "cancelled"
    <3>1. Acting /\ Latest.phase \notin {"order"}
      BY <1>2, <2>5, StageOfPhase
    <3>2. Advance(<<x>>)
      BY <1>2, <2>5
    <3>3. currentState' = x /\ visitedStates' = visitedStates \cup {x}
      BY <3>2, AdvanceOne
    <3>4. /\ Last(ExpectedStates[Latest.scenario]) = x
          /\ Range(ExpectedStates[Latest.scenario]) = {"awaiting_merchant_capture", x}
      BY <2>2, <3>1, PromisedTwo DEF Acting
    <3>5. Promised'
      BY <2>1, <3>1, <3>3, <3>4 DEF Promised, Acting
    <3> QED BY <2>1, <2>3, <3>5 DEF Underway, Ended
  <2> QED BY <1>2, <2>4, <2>5
<1> QED BY <1>1, <1>2, MovesKeepAlone

LEMMA TimingKeepsAlone ==
  ASSUME AloneInv, RunsInv', NEW n \in 1..started, run[n].phase = "order",
         NEW what, NEW x, SetTimer(n, what, <<x>>), UNCHANGED batch,
         UNCHANGED <<log, stream, delivered, injecting, activeSessionId>>,
         \/ what = "inject" /\ x = "pending" /\ run[n].scenario \in WebhookScenario
         \/ /\ what = "expire" /\ x = "awaiting_merchant_capture"
            /\ run[n].scenario = "authorize_ok_auth_expires"
  PROVE  AloneInv'
<1>1. /\ run' = [run EXCEPT ![n].phase = "done"]
      /\ timers' = timers \cup {[what |-> what, run |-> n]} /\ Advance(<<x>>)
  BY Zenon DEF SetTimer
<1>2. Moves(n, "done")
  BY <1>1, Moved DEF AloneInv
<1>3. RunShape'
  BY <1>1, <1>2, MovesKeepShape DEF AloneInv
<1>4. ASSUME Alone, n = started PROVE Underway'
  <2>1. Ordering
    BY <1>4, StageOfPhase DEF Latest
  <2>2. /\ started' = started /\ Latest'.phase = "done"
        /\ Latest'.scenario = Latest.scenario
    BY <1>2, <1>4 DEF Moves, Latest
  <2>3. x \in visitedStates'
    BY <1>1, AdvanceOne
  <2>4. /\ timers' = {[what |-> what, run |-> started']} /\ injecting' = {}
        /\ OwnStream' /\ log'[started'] = <<>> /\ delivered' = 0
    BY <1>1, <1>4, <2>1, <2>2 DEF Ordering, Unsent, OwnStream
  <2>5. Holding' \/ Awaiting'
    BY <1>4, <2>2, <2>3, <2>4 DEF Holding, Awaiting, Latest
  <2> QED BY <2>5 DEF Underway
<1> QED BY <1>2, <1>3, <1>4, MovesKeepAlone

LEMMA PostAuthKeepsAlone ==
  ASSUME AloneInv, RunsInv', NEW n \in 1..started, run[n].phase = "order",
         PostAuth(n), UNCHANGED <<log, stream, delivered, injecting, activeSessionId>>,
         run[n].scenario \in AuthScenario \ {"authorize_ok_auth_expires"}
  PROVE  AloneInv'
<1> DEFINE request == PostAuthRequest[run[n].scenario]
<1>1. /\ run' = [run EXCEPT ![n].phase = request]
      /\ UNCHANGED timers
      /\ Advance(IF request = "capture" THEN <<"awaiting_merchant_capture", "capturing">>
                 ELSE <<"awaiting_merchant_capture">>)
  BY Zenon DEF PostAuth
<1>p. request = PostAuthRequest[run[n].scenario]
  OBVIOUS
<1> HIDE DEF request
<1>2. Moves(n, request)
  BY <1>1, Moved DEF AloneInv
<1>3. RunShape'
  BY <1>1, <1>2, MovesKeepShape DEF AloneInv
<1>4. ASSUME Alone, n = started PROVE Underway'
  <2>1. Ordering
    BY <1>4, StageOfPhase DEF Latest
  <2>2. /\ started' = started /\ Latest'.phase = request
        /\ Latest'.scenario = run[n].scenario
    BY <1>2, <1>4 DEF Moves, Latest
  <2>3. "awaiting_merchant_capture" \in visitedStates'
    <3>1. CASE request = "capture"
      BY <1>1, <3>1, AdvanceTwo
    <3>2. CASE request # "capture"
      BY <1>1, <3>2, AdvanceOne
    <3> QED BY <3>1, <3>2
  <2>4. Unsent' /\ OwnStream' /\ log'[started'] = <<>> /\ delivered' = 0
    BY <1>1, <2>1, <2>2 DEF Ordering, Unsent, OwnStream
  <2>5. Acting'
    BY <1>p, <2>2, <2>3, <2>4 DEF Acting
  <2> QED BY <2>5 DEF Underway
<1> QED BY <1>2, <1>3, <1>4, MovesKeepAlone

LEMMA OrderKeepsAlone ==
  ASSUME AloneInv, RunsInv', NEW n \in 1..started, OrderReturns(n)
  PROVE  AloneInv'
<1> DEFINE s == run[n].scenario
           t == HarnessAnswer(s).transactionState
<1>a. run[n].phase = "order" /\ HarnessAnswer(s).status = 200
  BY Zenon DEF OrderReturns
<1>b. UNCHANGED <<activeSessionId, log, stream, delivered, injecting, batch>>
  BY Zenon DEF OrderReturns
<1>1. \/ t = "CAPTURED" /\ Ends(n, <<"completed">>)
      \/ t = "DECLINED" /\ Ends(n, <<"failed">>)
      \/ t = "PAYER_ACTION_REQUIRED" /\ SetTimer(n, "inject", <<"pending">>)
      \/ t = "AUTHORIZED" /\ IF s = "authorize_ok_auth_expires"
                             THEN SetTimer(n, "expire", <<"awaiting_merchant_capture">>)
                             ELSE PostAuth(n)
  BY Zenon DEF OrderReturns
<1>2. s \in Scenario
  <2>1. run[n] \in RunRecord
    BY DEF AloneInv, RunsInv, started
  <2> QED BY <2>1 DEF RunRecord
<1>3. /\ t = "CAPTURED" => s \in CapturedScenario
      /\ t = "DECLINED" => s \in DeclinedScenario \cup {"script_load_failed"}
      /\ t = "PAYER_ACTION_REQUIRED" => s \in WebhookScenario
      /\ t = "AUTHORIZED" => s \in AuthScenario
  BY <1>a, <1>2, AnswerTells
<1>4. ASSUME NEW x, Ends(n, <<x>>),
             \/ t = "CAPTURED" /\ x = "completed"
             \/ t = "DECLINED" /\ x = "failed"
      PROVE  AloneInv'
  <2>1. run' = [run EXCEPT ![n].phase = "done"] /\ Advance(<<x>>) /\ UNCHANGED timers
    BY <1>4, Zenon DEF Ends
  <2>2. Moves(n, "done")
    <3>1. RunsInv /\ run[n].phase # "done"
      BY <1>a DEF AloneInv
    <3> QED BY <2>1, <3>1, MovedOn
  <2>3. s # "script_load_failed" =>
          \/ s \in CapturedScenario /\ x = "completed"
          \/ s \in DeclinedScenario \cup {"sale_timeout"} /\ x = "failed"
    BY <1>3, <1>4
  <2>4. n = started => Latest.scenario = s /\ Latest.phase = "order"
    BY <1>a DEF Latest
  <2> HIDE DEF s, t
  <2>5. n = started =>
          /\ Latest.phase = "order"
          /\ \E y : /\ Advance(<<y>>)
                    /\ Latest.scenario # "script_load_failed" =>
                         \/ Latest.scenario \in CapturedScenario /\ y = "completed"
                         \/ /\ Latest.scenario \in DeclinedScenario \cup {"sale_timeout"}
                            /\ y = "failed"
    BY <2>1, <2>3, <2>4
  <2> QED BY <1>b, <2>1, <2>2, <2>5, EndingKeepsAlone
<1>5. ASSUME t = "AUTHORIZED", s # "authorize_ok_auth_expires", PostAuth(n) PROVE AloneInv'
  BY <1>a, <1>b, <1>3, <1>5, PostAuthKeepsAlone
<1>6. ASSUME NEW what, NEW x, SetTimer(n, what, <<x>>),
             \/ what = "inject" /\ x = "pending" /\ s \in WebhookScenario
             \/ /\ what = "expire" /\ x = "awaiting_merchant_capture"
                /\ s = "authorize_ok_auth_expires"
      PROVE  AloneInv'
  BY <1>a, <1>b, <1>6, TimingKeepsAlone
<1> HIDE DEF s, t
<1>7. CASE t = "AUTHORIZED" /\ s = "authorize_ok_auth_expires"
           /\ SetTimer(n, "expire", <<"awaiting_merchant_capture">>)
  BY <1>6, <1>7
<1>8. CASE t = "PAYER_ACTION_REQUIRED" /\ SetTimer(n, "inject", <<"pending">>)
  BY <1>3, <1>6, <1>8
<1>9. CASE s = "authorize_ok_auth_expires"
  BY <1>1, <1>4, <1>7, <1>8, <1>9, Zenon
<1>10. CASE s # "authorize_ok_auth_expires"
  BY <1>1, <1>4, <1>5, <1>8, <1>10, Zenon
<1> QED BY <1>9, <1>10

LEMMA TimeOutKeepsAlone ==
  ASSUME AloneInv, RunsInv', NEW n \in 1..started, OrderTimesOut(n)
  PROVE  AloneInv'
<1>1. /\ run[n].phase = "order" /\ HarnessAnswer(run[n].scenario).status # 200
      /\ run' = [run EXCEPT ![n].phase = "done", ![n].lost = FALSE]
      /\ Advance(<<"failed">>)
      /\ UNCHANGED <<activeSessionId, log, stream, delivered, timers, injecting>>
  BY Zenon DEF OrderTimesOut, Fails
<1>2. run[n] \in RunRecord
  BY DEF AloneInv, RunsInv, started
<1>3. run[n].lost = FALSE
  BY <1>1, <1>2 DEF AloneInv, RunShape, RunRecord
<1>4. Moves(n, "done")
  BY <1>1, <1>3, Moved DEF AloneInv
<1>5. run[n].scenario = "sale_timeout"
  BY <1>1, <1>2, AnswerTells DEF RunRecord
<1> QED BY <1>1, <1>4, <1>5, EndingKeepsAlone DEF Latest

LEMMA PostAuthReturnKeepsAlone ==
  ASSUME AloneInv, RunsInv', NEW n \in 1..started, PostAuthReturns(n)
  PROVE  AloneInv'
<1>1. /\ run[n].phase \in {"capture", "void"}
      /\ run' = [run EXCEPT ![n].phase = "done"]
      /\ Advance(<<IF run[n].phase = "capture" THEN "completed" ELSE "cancelled">>)
      /\ UNCHANGED <<activeSessionId, log, stream, delivered, timers, injecting>>
  BY Zenon DEF PostAuthReturns
<1>2. Moves(n, "done")
  BY <1>1, Moved DEF AloneInv
<1> QED BY <1>1, <1>2, EndingKeepsAlone DEF Latest

(* A run that loses a request is promised nothing.                         *)
LEMMA LosingKeepsAlone ==
  ASSUME AloneInv, RunsInv', NEW n \in 1..started, NEW r,
         run' = [run EXCEPT ![n] = r], r.phase = "done", r.lost = TRUE,
         UNCHANGED <<log, activeSessionId, stream, timers>>, injecting' \subseteq injecting,
         Alone => n = started
  PROVE  AloneInv'
<1>1. run \in Seq(RunRecord) /\ run' \in Seq(RunRecord)
  BY DEF AloneInv, RunsInv
<1>2. /\ DOMAIN run = 1..started /\ DOMAIN run' = 1..started'
      /\ started \in Nat /\ started' \in Nat
  BY <1>1, LenProperties DEF started
<1>3. /\ DOMAIN run' = DOMAIN run
      /\ \A k \in DOMAIN run : run'[k] = IF k = n THEN r ELSE run[k]
  OBVIOUS
<1>4. started' = started
  <2>1. DOMAIN run' = 1..started
    BY <1>2, <1>3
  <2>2. started \in Nat /\ run' \in Seq(RunRecord) /\ started' = Len(run')
    BY <1>1, <1>2 DEF started
  <2> HIDE DEF started
  <2> QED BY <2>1, <2>2, LenProperties
<1>5. RunShape'
  <2>1. ASSUME NEW t \in timers' \cup injecting'
        PROVE  t.run \in 1..started' /\ run'[t.run].phase = "done"
    <3>1. t.run \in 1..started /\ run[t.run].phase = "done"
      BY DEF AloneInv, RunShape
    <3> QED BY <1>2, <1>3, <1>4, <3>1
  <2>2. \A k \in 1..started' : run'[k].lost => run'[k].phase = "done"
    BY <1>2, <1>3, <1>4 DEF AloneInv, RunShape
  <2> QED BY <1>4, <2>1, <2>2 DEF AloneInv, RunShape
<1>6. ~Alone'
  <2>1. CASE n = started
    BY <1>2, <1>3, <1>4, <2>1 DEF Alone, Latest
  <2>2. CASE n # started
    <3>1. started > 0 /\ Latest' = Latest
      BY <1>2, <1>3, <1>4, <2>2 DEF Latest
    <3> QED BY <1>4, <2>2, <3>1 DEF Alone
  <2> QED BY <2>1, <2>2
<1> QED BY <1>5, <1>6 DEF AloneInv

LEMMA LostKeepsAlone ==
  ASSUME AloneInv, RunsInv', NEW n \in 1..started, Lost(n)
  PROVE  AloneInv'
<1> DEFINE r == [run[n] EXCEPT !.phase = "done", !.lost = TRUE]
<1>1. /\ run[n].phase # "done"
      /\ run' = [run EXCEPT ![n].phase = "done", ![n].lost = TRUE]
      /\ UNCHANGED <<log, activeSessionId, stream, timers, injecting>>
  BY DEF Lost, Fails
<1>2. run[n] \in RunRecord /\ DOMAIN run = 1..started
  BY LenProperties DEF AloneInv, RunsInv, started
<1>3. r.phase = "done" /\ r.lost = TRUE
  BY <1>2 DEF RunRecord
<1>4. run' = [run EXCEPT ![n] = r]
  BY <1>1, <1>2
<1>5. Alone => n = started
  BY <1>1 DEF AloneInv, RestDone
<1> HIDE DEF r
<1> QED BY <1>1, <1>3, <1>4, <1>5, LosingKeepsAlone

(* What is out of a run that is alone, and what may still reach the page.  *)
LEMMA StageOfRest ==
  ASSUME AloneInv, Alone
  PROVE  /\ timers # {} => Holding \/ Awaiting
         /\ injecting # {} => Awaiting
         /\ stream > 0 /\ delivered < Len(log[stream]) => Awaiting /\ Webhook /\ Unsent
<1>1. Underway
  BY DEF AloneInv
<1>2. timers # {} => Holding \/ Awaiting
  BY <1>1 DEF Underway, Opening, Ordering, Acting, Ended, Unsent
<1>3. injecting # {} => Awaiting
  BY <1>1 DEF Underway, Opening, Ordering, Acting, Holding, Ended, Unsent
<1>4. ASSUME stream > 0, delivered < Len(log[stream]) PROVE Awaiting /\ Webhook /\ Unsent
  <2>1. ~Opening
    BY <1>4 DEF Opening
  <2>2. Len(<<>>) = 0
    OBVIOUS
  <2>3. ~Ordering /\ ~Acting /\ ~Holding
    BY <1>4, <2>2 DEF Ordering, Acting, Holding, OwnStream
  <2>4. ~Ended
    BY <1>4 DEF Ended, OwnStream
  <2>5. Awaiting
    BY <1>1, <2>1, <2>3, <2>4 DEF Underway
  <2> QED BY <1>4, <2>2, <2>5 DEF Awaiting, OwnStream
<1> QED BY <1>2, <1>3, <1>4

LEMMA InjectLostKeepsAlone ==
  ASSUME AloneInv, RunsInv', NEW i \in injecting, InjectLost(i)
  PROVE  AloneInv'
<1> DEFINE n == i.run
           r == [run[n] EXCEPT !.lost = TRUE]
<1>1. /\ run' = [run EXCEPT ![n].lost = TRUE] /\ injecting' \subseteq injecting
      /\ UNCHANGED <<log, activeSessionId, stream, timers>>
  BY DEF InjectLost, inspectorVars
<1>2. n \in 1..started /\ run[n].phase = "done"
  BY DEF AloneInv, RunShape
<1>3. run[n] \in RunRecord /\ DOMAIN run = 1..started
  BY <1>2, LenProperties DEF AloneInv, RunsInv, started
<1>4. r.phase = "done" /\ r.lost = TRUE
  BY <1>2, <1>3 DEF RunRecord
<1>5. run' = [run EXCEPT ![n] = r]
  BY <1>1, <1>2, <1>3
<1>6. Alone => n = started
  BY StageOfRest DEF Awaiting, Unsent
<1> HIDE DEF r, n
<1> QED BY <1>1, <1>2, <1>4, <1>5, <1>6, LosingKeepsAlone

-----------------------------------------------------------------------------
(* What follows the answers: run and session are those they were.          *)
LEMMA RestKeepsAlone ==
  ASSUME AloneInv, RunsInv', UNCHANGED <<run, activeSessionId, stream>>,
         DOMAIN log' = DOMAIN log, \A k \in 1..MaxRuns : k > started => log'[k] = log[k],
         \A i \in injecting' : /\ i.session \in 0..started
                               /\ i.run \in 1..started /\ run[i.run].phase = "done",
         timers' \subseteq timers,
         Alone => Underway'
  PROVE  AloneInv'
<1>1. started' = started /\ Latest' = Latest
  BY DEF started, Latest
<1>2. Alone' <=> Alone
  BY <1>1 DEF Alone
<1>3. RunShape'
  BY <1>1 DEF AloneInv, RunShape
<1>4. RestDone' <=> RestDone
  BY <1>1 DEF RestDone
<1> QED BY <1>2, <1>3, <1>4 DEF AloneInv

LEMMA InjectFiresKeepsAlone ==
  ASSUME AloneInv, RunsInv', NEW timer \in timers, InjectFires(timer)
  PROVE  AloneInv'
<1> DEFINE new == [session |-> activeSessionId, run |-> timer.run]
<1>1. /\ timer.what = "inject" /\ timers' = timers \ {timer}
      /\ injecting' = injecting \cup {new}
      /\ UNCHANGED <<run, activeSessionId, currentState, visitedStates, log, stream, delivered>>
  BY DEF InjectFires, inspectorVars
<1>2. new.session = activeSessionId /\ new.run = timer.run
  OBVIOUS
<1>3. ASSUME NEW i \in injecting'
      PROVE  i.session \in 0..started /\ i.run \in 1..started /\ run[i.run].phase = "done"
  BY <1>1, <1>2, <1>3 DEF AloneInv, RunShape
<1>4. ASSUME Alone PROVE Underway'
  <2>1. Awaiting /\ timer = [what |-> "inject", run |-> started]
    BY <1>1, <1>4, StageOfRest DEF Holding, Awaiting, Unsent
  <2>2. timers = {timer} /\ injecting = {} /\ log[started] = <<>>
    BY <2>1 DEF Awaiting, Unsent
  <2>3. timers' = {} /\ injecting' = {[session |-> started, run |-> started]}
    BY <1>1, <2>1, <2>2 DEF Awaiting, OwnStream
  <2>4. Awaiting'
    BY <1>1, <2>1, <2>2, <2>3 DEF Awaiting, OwnStream, started, Latest
  <2> QED BY <2>4 DEF Underway
<1> HIDE DEF new
<1> QED BY <1>1, <1>3, <1>4, RestKeepsAlone

LEMMA InjectArrivesKeepsAlone ==
  ASSUME AloneInv, RunsInv', NEW i \in injecting, InjectArrives(i)
  PROVE  AloneInv'
<1> DEFINE kind == ScenarioWebhook[run[i.run].scenario]
<1>1. /\ log' = [log EXCEPT ![i.session] = Append(@, kind)]
      /\ injecting' = injecting \ {i}
      /\ UNCHANGED <<run, activeSessionId, currentState, visitedStates, stream, delivered, timers>>
  BY DEF InjectArrives, inspectorVars
<1>2. i.session \in 0..started /\ DOMAIN log = 1..MaxRuns
  BY DEF AloneInv, RunShape
<1>3. started \in Nat
  BY LenProperties DEF AloneInv, RunsInv, started
<1>k. kind = ScenarioWebhook[run[i.run].scenario]
  OBVIOUS
<1> HIDE DEF kind
<1>4. /\ DOMAIN log' = DOMAIN log
      /\ \A k \in 1..MaxRuns : k > started => log'[k] = log[k]
  BY <1>1, <1>2, <1>3
<1>5. \A j \in injecting' : /\ j.session \in 0..started
                            /\ j.run \in 1..started /\ run[j.run].phase = "done"
  BY <1>1 DEF AloneInv, RunShape
<1>6. ASSUME Alone PROVE Underway'
  <2>1. /\ Awaiting /\ i = [session |-> started, run |-> started]
        /\ timers = {} /\ injecting = {i} /\ log[started] = <<>>
    BY <1>6, StageOfRest DEF Awaiting, Unsent
  <2>2. started \in DOMAIN log
    BY <1>2, <1>3, <1>6 DEF Alone, AloneInv, RunShape
  <2>3. kind = ScenarioWebhook[Latest.scenario]
    BY <1>k, <2>1 DEF Latest
  <2>4. log'[started] = Append(<<>>, kind)
    BY <1>1, <2>1, <2>2
  <2>5. log'[started] = <<kind>>
    BY <2>4
  <2>6. /\ started' = started /\ Latest' = Latest /\ timers' = {} /\ injecting' = {}
    BY <1>1, <2>1 DEF started, Latest
  <2>7. Awaiting'
    BY <1>1, <2>1, <2>3, <2>5, <2>6 DEF Awaiting, OwnStream, Unsent, Webhook
  <2> QED BY <2>7 DEF Underway
<1> QED BY <1>1, <1>4, <1>5, <1>6, RestKeepsAlone

LEMMA ExpireKeepsAlone ==
  ASSUME AloneInv, RunsInv', NEW timer \in timers, ExpireFires(timer)
  PROVE  AloneInv'
<1>1. /\ timer.what = "expire" /\ timers' = timers \ {timer} /\ Advance(<<"auth_expired">>)
      /\ UNCHANGED <<run, activeSessionId, log, stream, delivered, injecting>>
  BY Zenon DEF ExpireFires
<1>2. \A i \in injecting' : /\ i.session \in 0..started
                            /\ i.run \in 1..started /\ run[i.run].phase = "done"
  BY <1>1 DEF AloneInv, RunShape
<1>3. ASSUME Alone PROVE Underway'
  <2>1. Holding /\ timers = {timer}
    BY <1>1, <1>3, StageOfRest DEF Holding, Awaiting, Unsent
  <2>2. started' = started /\ Latest' = Latest
    BY <1>1 DEF started, Latest
  <2>3. Unsent' /\ OwnStream' /\ delivered' = Len(log'[started'])
    BY <1>1, <2>1, <2>2 DEF Holding, Unsent, OwnStream
  <2>4. currentState' = "auth_expired" /\ visitedStates' = visitedStates \cup {"auth_expired"}
    BY <1>1, AdvanceOne
  <2>5. Latest.scenario = "authorize_ok_auth_expires" /\ Latest.scenario \in Scenario
    BY <1>3, <2>1, StageOfPhase DEF Holding
  <2>6. /\ Last(ExpectedStates[Latest.scenario]) = "auth_expired"
        /\ Range(ExpectedStates[Latest.scenario])
             = {"awaiting_merchant_capture", "auth_expired"}
    BY <2>5, PromisedTwo
  <2>7. Promised'
    BY <2>1, <2>2, <2>4, <2>6 DEF Holding, Promised
  <2> QED BY <2>1, <2>2, <2>3, <2>7 DEF Holding, Underway, Ended
<1> QED BY <1>1, <1>2, <1>3, RestKeepsAlone

LEMMA SseKeepsAlone ==
  ASSUME AloneInv, RunsInv', SseDelivers
  PROVE  AloneInv'
<1>1. /\ stream > 0 /\ delivered < Len(log[stream]) /\ delivered' = delivered + 1
      /\ Advance(<<KindMap[log[stream][delivered + 1]]>>)
      /\ UNCHANGED <<run, activeSessionId, log, stream, injecting, timers>>
  BY Zenon DEF SseDelivers
<1>2. \A i \in injecting' : /\ i.session \in 0..started
                            /\ i.run \in 1..started /\ run[i.run].phase = "done"
  BY <1>1 DEF AloneInv, RunShape
<1>3. ASSUME Alone PROVE Underway'
  <2> DEFINE kind == ScenarioWebhook[Latest.scenario]
             x == KindMap[kind]
  <2>1. /\ Awaiting /\ Unsent /\ delivered = 0 /\ stream = started
        /\ log[started] = <<kind>>
    BY <1>1, <1>3, StageOfRest DEF Awaiting, OwnStream, Webhook
  <2>2. started' = started /\ Latest' = Latest
    BY <1>1 DEF started, Latest
  <2> HIDE DEF kind
  <2>3. /\ delivered' = 1 /\ log[stream][delivered + 1] = kind
        /\ Len(log[started]) = 1
    BY <1>1, <2>1
  <2>4. Unsent' /\ OwnStream' /\ delivered' = Len(log'[started'])
    BY <1>1, <2>1, <2>2, <2>3 DEF Awaiting, Unsent, OwnStream
  <2>5. currentState' = x /\ visitedStates' = visitedStates \cup {x}
    BY <1>1, <2>3, AdvanceOne
  <2>6. Latest.scenario \in WebhookScenario /\ Latest.scenario \in Scenario
    BY <1>3, <2>1, StageOfPhase DEF Awaiting
  <2>7. /\ Last(ExpectedStates[Latest.scenario]) = x
        /\ Range(ExpectedStates[Latest.scenario]) = {"pending", x}
    BY <2>6, PromisedTwo DEF kind
  <2>8. Promised'
    BY <2>1, <2>2, <2>5, <2>7 DEF Awaiting, Promised
  <2> QED BY <2>1, <2>2, <2>4, <2>8 DEF Awaiting, Underway, Ended
<1> QED BY <1>1, <1>2, <1>3, RestKeepsAlone

(* Nothing of the runs is touched.                                         *)
LEMMA AloneRests ==
  ASSUME AloneInv, UNCHANGED <<run, inspectorVars, log, stream, delivered, timers,
                               injecting, batch>>
  PROVE  AloneInv'
<1>1. UNCHANGED <<activeSessionId, currentState, visitedStates>>
  BY DEF inspectorVars
<1>2. RunsInv'
  BY DEF AloneInv, RunsInv, BatchTyped, started
<1>3. \A i \in injecting' : /\ i.session \in 0..started
                            /\ i.run \in 1..started /\ run[i.run].phase = "done"
  BY DEF AloneInv, RunShape
<1>4. ASSUME Alone PROVE Underway'
  <2>1. Underway
    BY <1>4 DEF AloneInv
  <2> QED BY <1>1, <2>1, Zenon DEF Underway, Opening, Ordering, Acting, Holding, Awaiting, Ended,
               Promised, Unsent, OwnStream, Webhook, Latest, started
<1> QED BY <1>1, <1>2, <1>3, <1>4, RestKeepsAlone

LEMMA RunsKeepAlone == AloneInv /\ RunnerNext => AloneInv'
<1> SUFFICES ASSUME AloneInv, RunnerNext PROVE AloneInv'
  OBVIOUS
<1>r. RunsInv'
  BY RunsKeepRuns DEF AloneInv
<1>1. CASE PressAll \/ (\E b \in batch : BatchNext(b)) \/ \E s \in Scenarios : Press(s)
  <2>1. \E s : RunActive(s)
    BY <1>1, Zenon DEF PressAll, BatchNext, Press
  <2> QED BY <1>r, <2>1, BeginsAlone
<1>2. ASSUME NEW n \in 1..started, Answer(n) \/ Lost(n) PROVE AloneInv'
  BY <1>r, <1>2, SessionKeepsAlone, OrderKeepsAlone, TimeOutKeepsAlone,
     PostAuthReturnKeepsAlone, LostKeepsAlone DEF Answer
<1>3. ASSUME NEW timer \in timers, InjectFires(timer) \/ ExpireFires(timer) PROVE AloneInv'
  BY <1>r, <1>3, InjectFiresKeepsAlone, ExpireKeepsAlone
<1>4. ASSUME NEW i \in injecting, InjectArrives(i) \/ InjectLost(i) PROVE AloneInv'
  BY <1>r, <1>4, InjectArrivesKeepsAlone, InjectLostKeepsAlone
<1>5. CASE SseDelivers
  BY <1>r, <1>5, SseKeepsAlone
<1>6. CASE PlayScript
  BY <1>6, AloneRests DEF PlayScript
<1> QED BY <1>1, <1>2, <1>3, <1>4, <1>5, <1>6, Zenon DEF RunnerNext

(* A run that no other overlaps and that loses no request ends in the last *)
(* of the states its scenario promises, having visited them all, whatever  *)
(* ran before it: for any number of runs, batches and failures             *)
(* (scenarios.ts expectedStates, runtime.ts, inspector.js).                *)
THEOREM RunsEndAsExpected == DemoSpec => []EndsAsExpected
<1>1. DemoInit => AloneInv
  <2> SUFFICES ASSUME RunnerInit PROVE AloneInv
    BY DEF DemoInit
  <2>1. RunsInv /\ started = 0
    BY EmptySeq DEF RunnerInit, RunsInv, BatchTyped, started
  <2>2. RunShape
    BY <2>1, RunnerAssumption DEF RunnerInit, RunShape
  <2> QED BY <2>1, <2>2 DEF AloneInv, Alone
<1>2. AloneInv /\ [DemoNext]_demoVars => AloneInv'
  <2> SUFFICES ASSUME AloneInv, [DemoNext]_demoVars PROVE AloneInv'
    OBVIOUS
  <2>1. RunnerNext \/ UNCHANGED runnerVars
    BY Zenon DEF DemoNext, Toggle, Others, Select, demoVars
  <2>2. CASE UNCHANGED runnerVars
    BY <2>2, AloneRests DEF runnerVars
  <2> QED BY <2>1, <2>2, RunsKeepAlone
<1>3. AloneInv => EndsAsExpected
  <2> SUFFICES ASSUME AloneInv, started > 0, Quiet, Latest.alone, ~Latest.lost,
                      Latest.scenario # "script_load_failed"
               PROVE  /\ currentState = Last(ExpectedStates[Latest.scenario])
                      /\ Range(ExpectedStates[Latest.scenario]) \subseteq visitedStates
    BY DEF EndsAsExpected, Latest
  <2>1. Underway /\ started \in 1..started
    BY LenProperties DEF AloneInv, Alone, RunsInv, started
  <2>2. Latest.phase = "done"
    BY <2>1 DEF Quiet, Latest
  <2>3. ~Awaiting
    <3>1. Len(<<ScenarioWebhook[Latest.scenario]>>) # 0
      OBVIOUS
    <3> QED BY <2>1, <3>1 DEF Awaiting, Quiet, OwnStream, Webhook
  <2>4. ~Opening /\ ~Ordering /\ ~Holding
    BY <2>2 DEF Opening, Ordering, Holding, Quiet
  <2>5. ~Acting
    BY <2>2 DEF Acting, PostAuthRequest
  <2> QED BY <2>1, <2>3, <2>4, <2>5 DEF Underway, Ended, Promised
<1> QED BY <1>1, <1>2, <1>3, PTL DEF DemoSpec

-----------------------------------------------------------------------------
(* At most one timer of the V1 view runs, and it is the one that will be   *)
(* stopped, for any number of activations that overlap (v1.js startPolling,*)
(* stopPolling).                                                           *)
THEOREM OneTimerRuns == DemoSpec => []OneTimer
<1>1. DemoInit => OneTimer
  BY DEF DemoInit, ViewInit, OneTimer
<1>2. OneTimer /\ [DemoNext]_demoVars => OneTimer'
  <2> SUFFICES ASSUME OneTimer, [DemoNext]_demoVars PROVE OneTimer'
    OBVIOUS
  <2>1. \/ \E a \in Activations : activate(a)
        \/ deactivate \/ ViewStep \/ PollLost \/ UNCHANGED viewVars
    BY Zenon DEF DemoNext, Toggle, Others, Select, demoVars
  <2>2. ASSUME NEW a \in activating, startPolling(a) PROVE OneTimer'
    BY <2>2 DEF startPolling, OneTimer
  <2>3. CASE deactivate
    BY <2>3 DEF deactivate, OneTimer
  <2>4. ASSUME UNCHANGED <<intervals, pollTimer>> PROVE OneTimer'
    BY <2>4 DEF OneTimer
  <2>5. \/ \E a \in activating : startPolling(a)
        \/ deactivate \/ UNCHANGED <<intervals, pollTimer>>
    BY <2>1, Zenon DEF activate, ViewStep, Tick, PollAnswered, Render, Spawned, PollLost,
                       viewVars
  <2> QED BY <2>2, <2>3, <2>4, <2>5
<1> QED BY <1>1, <1>2, PTL DEF DemoSpec

-----------------------------------------------------------------------------
(* Induction, as the least number that is an exception.                    *)
LEMMA Least ==
  ASSUME NEW T \in SUBSET Nat, T # {}
  PROVE  \E n \in T : \A m \in T : n <= m
<1>1. PICK n \in T : \A m \in T : ~ (<<m, n>> \in OpToRel(<, Nat))
  BY NatLessThanWellFounded, WFMin
<1>2. ASSUME NEW m \in T PROVE n <= m
  <2>1. ~ (<<m, n>> \in OpToRel(<, Nat))
    BY <1>1
  <2>2. m \in Nat /\ n \in Nat
    OBVIOUS
  <2>3. ~(m < n)
    BY <2>1, <2>2 DEF OpToRel
  <2> QED BY <2>2, <2>3
<1> QED BY <1>2

(* A running sum, as Delay defines it: there is one, it is of naturals, and*)
(* it grows with every positive summand.                                   *)
Sums(d, w, n) == d = [i \in 0..n |-> IF i = 0 THEN 0 ELSE d[i - 1] + w[i]]

LEMMA SumsExist ==
  ASSUME NEW N \in Nat, NEW w \in [1..N -> Nat]
  PROVE  \E d : Sums(d, w, N)
<1> DEFINE T == {n \in 0..N : ~ \E d : Sums(d, w, n)}
<1>1. SUFFICES ASSUME ~ \E d : Sums(d, w, N) PROVE FALSE
  OBVIOUS
<1>2. N \in T
  BY <1>1
<1>3. PICK n \in T : \A m \in T : n <= m
  <2>1. T \in SUBSET Nat
    OBVIOUS
  <2> HIDE DEF T
  <2> QED BY <1>2, <2>1, Least
<1>4. n \in 0..N /\ ~ \E d : Sums(d, w, n)
  OBVIOUS
<1>5. CASE n = 0
  <2>1. Sums([i \in 0..0 |-> 0], w, 0)
    BY DEF Sums
  <2> QED BY <1>4, <1>5, <2>1
<1>6. CASE n # 0
  <2>1. n - 1 \in 0..N /\ ~ (n <= n - 1)
    BY <1>4, <1>6
  <2>2. PICK d : Sums(d, w, n - 1)
    BY <1>3, <2>1
  <2> DEFINE e == [i \in 0..n |-> IF i = n THEN d[n - 1] + w[n] ELSE d[i]]
  <2>4. ASSUME NEW i \in 0..n
        PROVE  e[i] = IF i = 0 THEN 0 ELSE e[i - 1] + w[i]
    <3>1. CASE i = n
      BY <1>4, <1>6, <3>1
    <3>2. CASE i # n
      <4>1. i \in 0..(n - 1) /\ (i # 0 => i - 1 \in 0..(n - 1))
        BY <1>4, <1>6, <3>2
      <4>2. d[i] = IF i = 0 THEN 0 ELSE d[i - 1] + w[i]
        BY <2>2, <4>1 DEF Sums
      <4> QED BY <1>4, <1>6, <3>2, <4>1, <4>2
    <3> QED BY <3>1, <3>2
  <2>3. e = [i \in 0..n |-> e[i]]
    OBVIOUS
  <2> HIDE DEF e
  <2>5. Sums(e, w, n)
    BY <2>3, <2>4 DEF Sums
  <2> QED BY <1>4, <2>5
<1> QED BY <1>5, <1>6

LEMMA SumsAreNat ==
  ASSUME NEW N \in Nat, NEW w \in [1..N -> Nat], NEW d, Sums(d, w, N)
  PROVE  d \in [0..N -> Nat]
<1> DEFINE T == {n \in 0..N : d[n] \notin Nat}
<1>1. /\ \A n \in 0..N : d[n] = IF n = 0 THEN 0 ELSE d[n - 1] + w[n]
      /\ d = [n \in 0..N |-> d[n]]
  BY DEF Sums
<1>2. ASSUME T # {} PROVE FALSE
  <2>1. PICK n \in T : \A m \in T : n <= m
    <3>1. T \in SUBSET Nat
      OBVIOUS
    <3> HIDE DEF T
    <3> QED BY <1>2, <3>1, Least
  <2>2. n \in 0..N /\ d[n] \notin Nat
    OBVIOUS
  <2>3. n # 0
    BY <1>1, <2>2
  <2>4. n - 1 \in 0..N /\ ~ (n <= n - 1) /\ n \in 1..N
    BY <2>2, <2>3
  <2>5. d[n - 1] \in Nat
    BY <2>1, <2>4
  <2>6. w[n] \in Nat /\ d[n] = d[n - 1] + w[n]
    BY <1>1, <2>2, <2>3, <2>4
  <2> QED BY <2>2, <2>5, <2>6
<1>3. \A n \in 0..N : d[n] \in Nat
  BY <1>2
<1> QED BY <1>1, <1>3

LEMMA DelayAdds ==
  ASSUME NEW script, Len(script) \in Nat,
         \A i \in 1..Len(script) : script[i].delayMs \in Nat \ {0}
  PROVE  /\ Delay(script) \in [0..Len(script) -> Nat]
         /\ \A i \in 1..Len(script) : Delay(script)[i - 1] < Delay(script)[i]
<1> DEFINE N == Len(script)
           w == [i \in 1..N |-> script[i].delayMs]
<1>1. w \in [1..N -> Nat]
  OBVIOUS
<1>2. PICK d : Sums(d, w, N)
  BY <1>1, SumsExist
<1>3. ASSUME NEW f
      PROVE  Sums(f, w, N) <=>
               f = [i \in 0..N |-> IF i = 0 THEN 0 ELSE f[i - 1] + script[i].delayMs]
  <2>1. \A i \in 0..N : i # 0 => w[i] = script[i].delayMs
    OBVIOUS
  <2>2. [i \in 0..N |-> IF i = 0 THEN 0 ELSE f[i - 1] + w[i]] =
          [i \in 0..N |-> IF i = 0 THEN 0 ELSE f[i - 1] + script[i].delayMs]
    BY <2>1
  <2> QED BY <2>2, Zenon DEF Sums
<1>4. Delay(script) = CHOOSE f :
        f = [i \in 0..N |-> IF i = 0 THEN 0 ELSE f[i - 1] + script[i].delayMs]
  BY Zenon DEF Delay
<1>5. Sums(Delay(script), w, N)
  BY <1>2, <1>3, <1>4, Zenon
<1>6. Delay(script) \in [0..N -> Nat]
  BY <1>1, <1>5, SumsAreNat
<1>7. ASSUME NEW i \in 1..N PROVE Delay(script)[i - 1] < Delay(script)[i]
  <2>1. i \in 0..N /\ i # 0 /\ i - 1 \in 0..N /\ w[i] \in Nat \ {0}
    OBVIOUS
  <2> HIDE DEF w
  <2>2. Delay(script)[i] = Delay(script)[i - 1] + w[i]
    BY <1>5, <2>1 DEF Sums
  <2>3. Delay(script)[i - 1] \in Nat
    BY <1>6, <2>1
  <2> QED BY <2>1, <2>2, <2>3
<1> QED BY <1>6, <1>7

LEMMA DelayGrows ==
  ASSUME NEW N \in Nat, NEW d \in [0..N -> Nat],
         \A i \in 1..N : d[i - 1] < d[i],
         NEW i \in 0..N, NEW j \in 0..N, i < j
  PROVE  d[i] < d[j]
<1> DEFINE T == {n \in i + 1..N : ~(d[i] < d[n])}
<1>1. SUFFICES ASSUME ~(d[i] < d[j]) PROVE FALSE
  OBVIOUS
<1>2. j \in T /\ T \in SUBSET Nat
  BY <1>1
<1>3. PICK n \in T : \A m \in T : n <= m
  <2> HIDE DEF T
  <2> QED BY <1>2, Least
<1>4. n \in i + 1..N /\ ~(d[i] < d[n]) /\ n \in 1..N
  OBVIOUS
<1>5. d[n - 1] < d[n] /\ d[n] \in Nat /\ d[n - 1] \in Nat /\ d[i] \in Nat
  BY <1>4
<1>6. n # i + 1
  <2>1. n = i + 1 => n - 1 = i
    OBVIOUS
  <2> QED BY <1>4, <1>5, <2>1
<1>7. n - 1 \in i + 1..N /\ ~ (n <= n - 1)
  BY <1>4, <1>6
<1>8. d[i] < d[n - 1]
  BY <1>3, <1>7
<1> QED BY <1>4, <1>5, <1>8

-----------------------------------------------------------------------------
(* What is said in a script. *)
Message == [from : DOMAIN Lane, to : DOMAIN Lane, delayMs : Nat \ {0}]

(* A conversation that ends in the browser.                                *)
Talk(said) ==
  /\ said \in Seq(Message) /\ said # <<>> /\ Conversation(said)
  /\ said[1].from \in {"browser", "webhook"} /\ said[Len(said)].to = "browser"

LEMMA TalksJoin ==
  ASSUME NEW a, NEW b, Talk(a), Talk(b)
  PROVE  Talk(a \o b)
<1> DEFINE s == a \o b
           m == Len(a)
           n == Len(b)
<1>1. /\ a \in Seq(Message) /\ b \in Seq(Message) /\ a # <<>> /\ b # <<>>
      /\ Conversation(a) /\ Conversation(b)
      /\ a[m].to = "browser" /\ b[n].to = "browser"
      /\ a[1].from \in {"browser", "webhook"} /\ b[1].from \in {"browser", "webhook"}
  BY DEF Talk
<1>2. /\ s \in Seq(Message) /\ Len(s) = m + n
      /\ \A i \in 1..m : s[i] = a[i]
      /\ \A i \in 1..m + n : i > m => s[i] = b[i - m]
  BY <1>1, ConcatProperties
<1>3. m \in Nat \ {0} /\ n \in Nat \ {0}
  BY <1>1, EmptySeq, LenProperties
<1>4. /\ \A i \in 2..m : a[i].from \in {a[i - 1].to, "webhook"}
      /\ \A i \in 2..n : b[i].from \in {b[i - 1].to, "webhook"}
      /\ \A i \in 1..m : Request(a[i]) =>
           \E j \in i + 1..m : a[j].from = a[i].to /\ a[j].to = a[i].from
      /\ \A i \in 1..n : Request(b[i]) =>
           \E j \in i + 1..n : b[j].from = b[i].to /\ b[j].to = b[i].from
  BY <1>1 DEF Conversation
<1> HIDE DEF s, m, n
<1>5. ASSUME NEW i \in 2..Len(s) PROVE s[i].from \in {s[i - 1].to, "webhook"}
  <2>1. CASE i <= m
    <3>1. i \in 2..m /\ i \in 1..m /\ i - 1 \in 1..m
      BY <1>2, <1>3, <2>1
    <3> QED BY <1>2, <1>4, <3>1
  <2>2. CASE i = m + 1
    <3>1. /\ s[i - 1] = a[m] /\ s[i] = b[1]
      BY <1>2, <1>3, <2>2
    <3> QED BY <1>1, <3>1 DEF m
  <2>3. CASE i > m + 1
    <3>1. /\ i - m \in 2..n /\ (i - m) - 1 = (i - 1) - m
          /\ i \in 1..m + n /\ i > m /\ i - 1 \in 1..m + n /\ i - 1 > m
      <4>1. Len(s) = m + n
        BY <1>2
      <4> QED BY <1>3, <2>3, <4>1
    <3>2. s[i] = b[i - m] /\ s[i - 1] = b[(i - m) - 1]
      BY <1>2, <3>1
    <3> QED BY <1>4, <3>1, <3>2
  <2> QED BY <1>2, <1>3, <2>1, <2>2, <2>3
<1>6. ASSUME NEW i \in 1..Len(s), Request(s[i])
      PROVE  \E j \in i + 1..Len(s) : s[j].from = s[i].to /\ s[j].to = s[i].from
  <2>1. CASE i <= m
    <3>1. i \in 1..m /\ s[i] = a[i]
      BY <1>2, <2>1
    <3>2. PICK j \in i + 1..m : a[j].from = a[i].to /\ a[j].to = a[i].from
      BY <1>4, <1>6, <3>1
    <3>3. j \in 1..m /\ j \in i + 1..Len(s)
      BY <1>2, <1>3, <3>1
    <3> QED BY <1>2, <3>1, <3>2, <3>3
  <2>2. CASE i > m
    <3>1. i - m \in 1..n /\ s[i] = b[i - m]
      BY <1>2, <1>3, <2>2
    <3>2. PICK j \in (i - m) + 1..n : b[j].from = b[i - m].to /\ b[j].to = b[i - m].from
      BY <1>4, <1>6, <3>1
    <3>3. j + m \in i + 1..Len(s) /\ s[j + m] = b[j]
      BY <1>2, <1>3, <2>2, <3>1
    <3> QED BY <3>1, <3>2, <3>3
  <2> QED BY <1>2, <1>3, <2>1, <2>2
<1>7. s # <<>> /\ s[1].from \in {"browser", "webhook"} /\ s[Len(s)].to = "browser"
  <2>1. s[1] = a[1] /\ s[Len(s)] = b[n] /\ Len(s) # 0
    BY <1>2, <1>3
  <2> QED BY <1>1, <1>2, <2>1, EmptySeq DEF n
<1> QED BY <1>1, <1>2, <1>5, <1>6, <1>7 DEF Talk, Conversation, s

LEMMA SessionTalks == Talk(Session)
<1>1. Session \in Seq(Message)
  BY DEF Session, Message, step, Lane
<1>2. /\ Len(Session) = 4
      /\ Session[1] = step("browser", "merchant", 200)
      /\ Session[2] = step("merchant", "chCreds", 300)
      /\ Session[3] = step("chCreds", "merchant", 300)
      /\ Session[4] = step("merchant", "browser", 200)
  BY DEF Session
<1> HIDE DEF Session
<1>3. Conversation(Session)
  BY <1>2 DEF Conversation, Request, step, Lane
<1>4. Session # <<>>
  BY <1>2, EmptySeq
<1>5. Session[1].from \in {"browser", "webhook"} /\ Session[Len(Session)].to = "browser"
  BY <1>2 DEF step
<1> QED BY <1>1, <1>3, <1>4, <1>5 DEF Talk

LEMMA OrderTalks ==
  ASSUME NEW thinking \in Nat \ {0}, NEW answering \in Nat \ {0}
  PROVE  Talk(Order(thinking, answering))
<1> DEFINE s == Order(thinking, answering)
<1>1. s \in Seq(Message)
  BY DEF Order, Message, step, Lane
<1>2. /\ Len(s) = 6
      /\ s[1] = step("browser", "merchant", thinking)
      /\ s[2] = step("merchant", "chOrders", 400)
      /\ s[3] = step("chOrders", "provider", 500)
      /\ s[4] = step("provider", "chOrders", answering)
      /\ s[5] = step("chOrders", "merchant", 200)
      /\ s[6] = step("merchant", "browser", 200)
  BY DEF Order
<1> HIDE DEF s
<1>3. Conversation(s)
  BY <1>2 DEF Conversation, Request, step, Lane
<1>4. s # <<>>
  <2>1. Len(s) # 0 /\ Len(<<>>) = 0
    BY <1>2
  <2> QED BY <2>1, Zenon
<1>5. s[1].from \in {"browser", "webhook"} /\ s[Len(s)].to = "browser"
  BY <1>2 DEF step
<1>6. Talk(s)
  BY <1>1, <1>3, <1>4, <1>5 DEF Talk
<1> QED BY <1>6 DEF s

WebhookTells == <<step("webhook", "merchant", 2000), step("merchant", "browser", 200)>>

LEMMA WebhookTalks == Talk(WebhookTells)
<1>1. WebhookTells \in Seq(Message)
  BY DEF WebhookTells, Message, step, Lane
<1>2. /\ Len(WebhookTells) = 2
      /\ WebhookTells[1] = step("webhook", "merchant", 2000)
      /\ WebhookTells[2] = step("merchant", "browser", 200)
  BY DEF WebhookTells
<1> HIDE DEF WebhookTells
<1>3. Conversation(WebhookTells)
  BY <1>2 DEF Conversation, Request, step, Lane
<1>4. WebhookTells # <<>>
  BY <1>2, EmptySeq
<1>5. WebhookTells[1].from \in {"browser", "webhook"} /\ WebhookTells[Len(WebhookTells)].to = "browser"
  BY <1>2 DEF step
<1> QED BY <1>1, <1>3, <1>4, <1>5 DEF Talk

(* Every script of trace-scenarios.js is one. *)
LEMMA ScriptsTalk == \A id \in DOMAIN Script : Talk(Script[id])
<1>1. /\ Talk(Order(400, 500)) /\ Talk(Order(400, 400)) /\ Talk(Order(1500, 400))
  BY OrderTalks
<1>2. /\ Talk(buildSyncSale) /\ Talk(buildDeclined)
  BY <1>1, SessionTalks, TalksJoin DEF buildSyncSale, buildDeclined
<1>3. Talk(buildAsyncWebhook)
  BY <1>1, SessionTalks, WebhookTalks, TalksJoin DEF buildAsyncWebhook, WebhookTells
<1>4. Talk(buildMerchantCapture)
  BY <1>1, SessionTalks, TalksJoin DEF buildMerchantCapture
<1> QED BY <1>2, <1>3, <1>4 DEF Script

-----------------------------------------------------------------------------
Play ==
  [scenario : DOMAIN Script, timers : SUBSET [event : Nat, due : Nat], alone : BOOLEAN]

LastPlay == plays[Len(plays)]

(* The list shows the first k events of the script that had it to itself,  *)
(* and the timers of the others are set.                                   *)
Listed(k) ==
  /\ ~rows.mixed /\ Len(rows.shown) = k
  /\ \A i \in 1..k : rows.shown[i] = i
  /\ LastPlay.timers = {t \in Timers(Script[LastPlay.scenario]) : t.event > k}

ListInv ==
  /\ scenarioId \in DOMAIN Script /\ plays \in Seq(Play)
  /\ rows \in [shown : Seq(Nat), mixed : BOOLEAN]
  /\ plays # <<>> /\ LastPlay.alone =>
       /\ \A p \in 1..Len(plays) : p # Len(plays) => plays[p].timers = {}
       /\ \E k \in 0..Len(Script[LastPlay.scenario]) : Listed(k)

-----------------------------------------------------------------------------
(* The timers of a script, in the order they are due.                      *)
LEMMA TimersOfScript ==
  ASSUME NEW id \in DOMAIN Script
  PROVE  /\ Len(Script[id]) \in Nat /\ Script[id] \in Seq(Message)
         /\ Timers(Script[id]) \subseteq [event : Nat \ {0}, due : Nat]
         /\ \A i \in 1..Len(Script[id]) :
              \E t \in Timers(Script[id]) : t.event = i
         /\ \A t \in Timers(Script[id]) : t.event \in 1..Len(Script[id])
         /\ \A t, u \in Timers(Script[id]) :
              /\ t.event < u.event => t.due < u.due
              /\ t.event = u.event => t = u
<1> DEFINE s == Script[id]
           n == Len(s)
           d == Delay(s)
<1>1. s \in Seq(Message) /\ n \in Nat
  BY ScriptsTalk, LenProperties DEF Talk
<1>2. \A i \in 1..n : s[i].delayMs \in Nat \ {0}
  <2>1. \A i \in 1..n : s[i] \in Message
    BY <1>1, ElementOfSeq
  <2> QED BY <2>1 DEF Message
<1>3. d \in [0..n -> Nat] /\ \A i \in 1..n : d[i - 1] < d[i]
  BY <1>1, <1>2, DelayAdds
<1>4. Timers(s) = {[event |-> i, due |-> d[i]] : i \in 1..n}
  BY DEF Timers
<1> HIDE DEF s, n, d
<1>5. ASSUME NEW i \in 1..n, NEW j \in 1..n, i < j PROVE d[i] < d[j]
  <2>1. i \in 0..n /\ j \in 0..n
    BY <1>1
  <2> QED BY <1>1, <1>3, <1>5, <2>1, DelayGrows
<1>6. \A i \in 1..n : d[i] \in Nat
  BY <1>1, <1>3
<1>7. Timers(s) \subseteq [event : Nat \ {0}, due : Nat]
  BY <1>1, <1>4, <1>6
<1>8. ASSUME NEW i \in 1..n PROVE \E t \in Timers(s) : t.event = i
  <2>1. [event |-> i, due |-> d[i]] \in Timers(s)
    BY <1>4
  <2> QED BY <2>1
<1>9. \A t \in Timers(s) : t.event \in 1..n /\ t = [event |-> t.event, due |-> d[t.event]]
  BY <1>4
<1>10. \A t, u \in Timers(s) : /\ t.event < u.event => t.due < u.due
                               /\ t.event = u.event => t = u
  BY <1>5, <1>9
<1> QED BY <1>1, <1>7, <1>8, <1>9, <1>10 DEF s, n

(* A script starts in an empty list.                                       *)
LEMMA PlayBegins ==
  ASSUME ListInv, RunScenario
  PROVE  ListInv'
<1> DEFINE new == [scenario |-> scenarioId, timers |-> Timers(Script[scenarioId]),
                   alone |-> Playing = {}]
<1>1. /\ plays \in Seq(Play) /\ scenarioId \in DOMAIN Script /\ scenarioId' = scenarioId
      /\ plays' = Append(plays, new) /\ rows' = NoRows
  BY DEF ListInv, RunScenario, consoleState
<1>2. new \in Play
  BY <1>1, TimersOfScript DEF Play
<1>3. new.scenario = scenarioId /\ new.timers = Timers(Script[scenarioId])
      /\ (new.alone => Playing = {})
  OBVIOUS
<1> HIDE DEF new
<1>4. /\ plays' \in Seq(Play) /\ Len(plays') = Len(plays) + 1 /\ Len(plays) \in Nat
      /\ plays'[Len(plays) + 1] = new
      /\ \A p \in 1..Len(plays) : plays'[p] = plays[p]
  BY <1>1, <1>2, AppendProperties, LenProperties
<1>5. ASSUME new.alone, NEW p \in 1..Len(plays'), p # Len(plays')
      PROVE  plays'[p].timers = {}
  <2>1. p \in 1..Len(plays)
    BY <1>4, <1>5
  <2>2. DOMAIN plays = 1..Len(plays)
    BY <1>1, LenProperties
  <2> QED BY <1>3, <1>4, <1>5, <2>1, <2>2 DEF Playing
<1>6. rows'.shown = <<>> /\ rows'.mixed = FALSE
  BY <1>1 DEF NoRows
<1>7. Listed(0)'
  <2>1. LastPlay' = new
    BY <1>4 DEF LastPlay
  <2>2. LastPlay'.timers = {t \in Timers(Script[LastPlay'.scenario]) : t.event > 0}
    <3>1. \A t \in Timers(Script[scenarioId]) : t.event \in Nat \ {0}
      BY <1>1, TimersOfScript
    <3> QED BY <1>3, <2>1, <3>1
  <2> QED BY <1>6, <2>2 DEF Listed, LastPlay
<1>8. 0 \in 0..Len(Script[LastPlay'.scenario])
  <2>1. LastPlay' = new
    BY <1>4 DEF LastPlay
  <2> QED BY <1>1, <1>3, <2>1, TimersOfScript
<1>9. rows' \in [shown : Seq(Nat), mixed : BOOLEAN]
  BY <1>1, EmptySeq DEF NoRows
<1>10. LastPlay' = new
  BY <1>4 DEF LastPlay
<1>11. LastPlay'.alone =>
         /\ \A p \in 1..Len(plays') : p # Len(plays') => plays'[p].timers = {}
         /\ \E k \in 0..Len(Script[LastPlay'.scenario]) : Listed(k)'
  BY <1>5, <1>7, <1>8, <1>10
<1> QED BY <1>1, <1>4, <1>9, <1>11 DEF ListInv

(* The timers of a script that is alone go off in its order.               *)
LEMMA EventKeepsList ==
  ASSUME ListInv, NEW p \in Playing, EventFires(p)
  PROVE  ListInv'
<1>1. PICK timer \in plays[p].timers :
        /\ \A other \in plays[p].timers : timer.due <= other.due
        /\ plays' = [plays EXCEPT ![p].timers = @ \ {timer}]
        /\ rows' = IF p = Len(plays) THEN [rows EXCEPT !.shown = Append(@, timer.event)]
                   ELSE [rows EXCEPT !.mixed = TRUE]
        /\ scenarioId' = scenarioId
  BY DEF EventFires, consoleState
<1>2. /\ plays \in Seq(Play) /\ DOMAIN plays = 1..Len(plays) /\ Len(plays) \in Nat
      /\ p \in 1..Len(plays) /\ plays[p].timers # {}
      /\ rows \in [shown : Seq(Nat), mixed : BOOLEAN]
  BY LenProperties DEF ListInv, Playing
<1> DEFINE r == [plays[p] EXCEPT !.timers = @ \ {timer}]
<1>3. plays[p] \in Play /\ plays[p].timers \subseteq [event : Nat, due : Nat]
  <2>1. plays[p] \in Play
    BY <1>2, ElementOfSeq
  <2> QED BY <2>1 DEF Play
<1>4. /\ r \in Play /\ r.timers = plays[p].timers \ {timer}
      /\ r.scenario = plays[p].scenario /\ r.alone = plays[p].alone
  BY <1>3 DEF Play
<1>5. plays' = [plays EXCEPT ![p] = r]
  BY <1>1
<1> HIDE DEF r
<1>6. /\ plays' \in Seq(Play) /\ Len(plays') = Len(plays) /\ plays'[p] = r
      /\ \A q \in 1..Len(plays) : q # p => plays'[q] = plays[q]
  BY <1>2, <1>4, <1>5, ExceptSeq
<1>7. timer.event \in Nat
  BY <1>1, <1>3
<1>8. rows' \in [shown : Seq(Nat), mixed : BOOLEAN]
  <2>1. Append(rows.shown, timer.event) \in Seq(Nat)
    BY <1>2, <1>7, AppendProperties
  <2> QED BY <1>1, <1>2, <2>1
<1>9. ASSUME LastPlay'.alone
      PROVE  /\ \A q \in 1..Len(plays') : q # Len(plays') => plays'[q].timers = {}
             /\ \E k \in 0..Len(Script[LastPlay'.scenario]) : Listed(k)'
  <2>1. LastPlay.alone /\ LastPlay'.scenario = LastPlay.scenario /\ plays # <<>>
    BY <1>2, <1>4, <1>6, <1>9, EmptySeq DEF LastPlay
  <2>2. \A q \in 1..Len(plays) : q # Len(plays) => plays[q].timers = {}
    BY <2>1 DEF ListInv
  <2> DEFINE id == LastPlay.scenario
             n == Len(Script[id])
  <2>3. PICK k \in 0..n : Listed(k)
    BY <2>1 DEF ListInv
  <2>4. p = Len(plays) /\ plays[p] = LastPlay
    BY <1>2, <2>2 DEF LastPlay
  <2>5. id \in DOMAIN Script
    BY <1>3, <2>4 DEF Play
  <2>6. /\ Len(rows.shown) = k /\ ~rows.mixed
        /\ \A i \in 1..k : rows.shown[i] = i
        /\ plays[p].timers = {t \in Timers(Script[id]) : t.event > k}
    BY <2>3, <2>4 DEF Listed
  <2>7. /\ n \in Nat
        /\ Timers(Script[id]) \subseteq [event : Nat \ {0}, due : Nat]
        /\ \A i \in 1..n : \E t \in Timers(Script[id]) : t.event = i
        /\ \A t \in Timers(Script[id]) : t.event \in 1..n
        /\ \A t, u \in Timers(Script[id]) :
             /\ t.event < u.event => t.due < u.due
             /\ t.event = u.event => t = u
    BY <2>5, TimersOfScript
  <2> HIDE DEF n, id
  <2>8. timer \in Timers(Script[id]) /\ timer.event > k /\ timer.event \in 1..n
    BY <1>1, <2>6, <2>7
  <2>9. timer.event = k + 1
    <3>1. k + 1 \in 1..n
      BY <2>7, <2>8
    <3>2. PICK t \in Timers(Script[id]) : t.event = k + 1
      BY <2>7, <3>1
    <3>3. timer.due <= t.due /\ timer.due \in Nat /\ t.due \in Nat
      BY <1>1, <2>6, <2>7, <2>8, <3>2
    <3>4. ~(t.event < timer.event)
      BY <2>7, <2>8, <3>3
    <3> QED BY <2>8, <3>2, <3>4
  <2>10. k + 1 \in 0..n
    BY <2>7, <2>8, <2>9
  <2>11. r.timers = {t \in Timers(Script[id]) : t.event > k + 1}
    <3>1. \A t \in Timers(Script[id]) : t.event \in Nat /\ (t.event = k + 1 <=> t = timer)
      BY <2>7, <2>8, <2>9
    <3>2. \A t \in Timers(Script[id]) : t.event > k /\ t # timer <=> t.event > k + 1
      BY <3>1
    <3> QED BY <1>4, <2>6, <3>2
  <2>12. /\ rows'.mixed = rows.mixed /\ Len(rows'.shown) = k + 1
         /\ \A i \in 1..k + 1 : rows'.shown[i] = i
    <3>1. rows'.mixed = rows.mixed /\ rows'.shown = Append(rows.shown, timer.event)
      BY <1>1, <1>2, <2>4
    <3>2. /\ Len(rows'.shown) = k + 1 /\ rows'.shown[k + 1] = k + 1
          /\ \A i \in 1..k : rows'.shown[i] = i
      BY <1>2, <1>7, <2>6, <2>9, <3>1, AppendProperties
    <3> QED BY <3>1, <3>2
  <2>13. LastPlay' = r
    BY <1>6, <2>4 DEF LastPlay
  <2>14. Listed(k + 1)'
    <3>1. LastPlay'.timers = {t \in Timers(Script[LastPlay'.scenario]) : t.event > k + 1}
      BY <2>1, <2>11, <2>13 DEF id
    <3> QED BY <2>6, <2>12, <3>1 DEF Listed, LastPlay
  <2>15. \A q \in 1..Len(plays') : q # Len(plays') => plays'[q].timers = {}
    BY <1>6, <2>2, <2>4
  <2> QED BY <2>1, <2>10, <2>14, <2>15 DEF n, id
<1>10. scenarioId' \in DOMAIN Script
  BY <1>1 DEF ListInv
<1> QED BY <1>6, <1>8, <1>9, <1>10 DEF ListInv

(* Every change to the console ends with a scenario there is.              *)
LEMMA RenderOffers ==
  ASSUME NEW c, NEW x, NEW m, NEW id, NEW scenario, render(c, x, m, id, scenario)
  PROVE  scenarioId' \in DOMAIN Script
BY DEF render, Offers, Script

(* The list is emptied under the scripts that play, and none has it to     *)
(* itself any more.                                                        *)
LEMMA ResetKeepsList ==
  ASSUME ListInv, NEW id, resetForApm(id)
  PROVE  ListInv'
<1>1. /\ scenarioId' \in DOMAIN Script
      /\ rows' = NoRows /\ plays' = Disturbed
  BY RenderOffers DEF resetForApm
<1>2. plays \in Seq(Play) /\ DOMAIN plays = 1..Len(plays) /\ Len(plays) \in Nat
  BY LenProperties DEF ListInv
<1>3. \A p \in 1..Len(plays) : [plays[p] EXCEPT !.alone = FALSE] \in Play
  <2>1. \A p \in 1..Len(plays) : plays[p] \in Play
    BY <1>2, ElementOfSeq
  <2> QED BY <2>1 DEF Play
<1>4. plays' = [p \in 1..Len(plays) |-> [plays[p] EXCEPT !.alone = FALSE]]
  BY <1>1, <1>2 DEF Disturbed
<1>5. plays' \in Seq(Play) /\ Len(plays') = Len(plays)
  BY <1>2, <1>3, <1>4
<1>6. plays' # <<>> => ~LastPlay'.alone
  <2>1. plays' # <<>> => Len(plays) \in 1..Len(plays)
    BY <1>2, <1>5, EmptySeq
  <2>2. \A p \in 1..Len(plays) : ~plays'[p].alone
    <3>1. \A p \in 1..Len(plays) : plays[p] \in Play
      BY <1>2, ElementOfSeq
    <3> QED BY <1>4, <3>1 DEF Play
  <2> QED BY <1>5, <2>1, <2>2 DEF LastPlay
<1>7. rows' \in [shown : Seq(Nat), mixed : BOOLEAN]
  BY <1>1, EmptySeq DEF NoRows
<1> QED BY <1>1, <1>5, <1>6, <1>7 DEF ListInv

LEMMA ListRests ==
  ASSUME ListInv, UNCHANGED <<plays, rows>>, scenarioId' \in DOMAIN Script
  PROVE  ListInv'
BY DEF ListInv, Listed, LastPlay

(* A script that had the console to itself is listed whole, and it is a    *)
(* conversation, for any catalog and any number of clicks                  *)
(* (trace-scenarios.js, inspector.js onRunScenario).                       *)
THEOREM ScriptsPlayWhole == DemoSpec => []PlayedWhole
<1>1. DemoInit => ListInv
  BY EmptySeq DEF DemoInit, ConsoleInit, ListInv, NoRows, Script
<1>2. ListInv /\ [DemoNext]_demoVars => ListInv'
  <2> SUFFICES ASSUME ListInv, [DemoNext]_demoVars PROVE ListInv'
    OBVIOUS
  <2>1. \/ \E id \in All : resetForApm(id)
        \/ Choose \/ RunScenario \/ \E p \in Playing : EventFires(p)
        \/ UNCHANGED consoleVars
    BY Zenon DEF DemoNext, Toggle, Others, Select, ConsoleStep, demoVars
  <2>2. CASE Choose
    <3>1. scenarioId' \in DOMAIN Script /\ UNCHANGED <<plays, rows>>
      BY <2>2, RenderOffers DEF Choose
    <3> QED BY <3>1, ListRests
  <2>3. CASE UNCHANGED consoleVars
    <3>1. scenarioId' \in DOMAIN Script /\ UNCHANGED <<plays, rows>>
      BY <2>3 DEF consoleVars, consoleState, ListInv
    <3> QED BY <3>1, ListRests
  <2> QED BY <2>1, <2>2, <2>3, ResetKeepsList, PlayBegins, EventKeepsList
<1>3. ListInv => PlayedWhole
  <2> DEFINE id == Last(plays).scenario
             script == Script[id]
             listed == [i \in DOMAIN rows.shown |-> script[rows.shown[i]]]
  <2> SUFFICES ASSUME ListInv, Playing = {}, plays # <<>>, Last(plays).alone
               PROVE  ~rows.mixed /\ Len(listed) = Len(script) /\ Conversation(listed)
    BY DEF PlayedWhole
  <2>1. /\ plays \in Seq(Play) /\ Len(plays) \in Nat \ {0} /\ DOMAIN plays = 1..Len(plays)
        /\ Last(plays) = LastPlay
    BY LenProperties, EmptySeq DEF ListInv, Last, LastPlay
  <2>2. LastPlay \in Play /\ LastPlay.timers = {}
    BY <2>1, ElementOfSeq DEF LastPlay, Playing
  <2>3. PICK k \in 0..Len(script) : Listed(k)
    BY <2>1 DEF ListInv
  <2>4. id \in DOMAIN Script
    BY <2>1, <2>2 DEF Play
  <2>5. /\ script \in Seq(Message) /\ Len(script) \in Nat /\ Talk(script)
        /\ \A i \in 1..Len(script) : \E t \in Timers(script) : t.event = i
    BY <2>4, TimersOfScript, ScriptsTalk
  <2>6. k = Len(script)
    <3>1. \A t \in Timers(script) : ~(t.event > k)
      BY <2>1, <2>2, <2>3 DEF Listed
    <3>2. k # Len(script) => Len(script) \in 1..Len(script) /\ Len(script) > k
      BY <2>5
    <3> QED BY <2>5, <3>1, <3>2
  <2>7. /\ rows.shown \in Seq(Nat) /\ DOMAIN rows.shown = 1..Len(script)
        /\ \A i \in 1..Len(script) : rows.shown[i] = i
    BY <2>3, <2>6, LenProperties DEF Listed, ListInv
  <2>8. listed = [i \in 1..Len(script) |-> script[i]]
    BY <2>7
  <2>9. script = [i \in 1..Len(script) |-> script[i]]
    BY <2>5, LenProperties
  <2>10. listed = script
    BY <2>8, <2>9
  <2> HIDE DEF listed, script
  <2> QED BY <2>3, <2>5, <2>10 DEF Listed, Talk
<1> QED BY <1>1, <1>2, <1>3, PTL DEF DemoSpec

-----------------------------------------------------------------------------
(* What a filter needs of a list of the table: its head is one of it.      *)
HasHead(list) == list # <<>> => Head(list) \in Range(list)

LEMMA Heads ==
  /\ HasHead(<<>>)
  /\ \A a : HasHead(<<a>>)
  /\ \A a, b : HasHead(<<a, b>>)
  /\ \A a, b, c : HasHead(<<a, b, c>>)
  /\ \A a, b, c, d : HasHead(<<a, b, c, d>>)
  /\ \A a, b, c, d, e : HasHead(<<a, b, c, d, e>>)
  /\ \A a, b, c, d, e, f : HasHead(<<a, b, c, d, e, f>>)
  /\ \A a, b, c, d, e, f, g : HasHead(<<a, b, c, d, e, f, g>>)
  /\ \A a, b, c, d, e, f, g, h : HasHead(<<a, b, c, d, e, f, g, h>>)
  /\ \A a, b, c, d, e, f, g, h, i : HasHead(<<a, b, c, d, e, f, g, h, i>>)
  /\ \A a, b, c, d, e, f, g, h, i, j : HasHead(<<a, b, c, d, e, f, g, h, i, j>>)
  /\ \A a, b, c, d, e, f, g, h, i, j, k : HasHead(<<a, b, c, d, e, f, g, h, i, j, k>>)
  /\ \A a, b, c, d, e, f, g, h, i, j, k, l, m, n, o, p :
       HasHead(<<a, b, c, d, e, f, g, h, i, j, k, l, m, n, o, p>>)
BY DEF HasHead, Range

FineRow(row) ==
  row.pattern \in Pattern /\ HasHead(row.currencies) /\ HasHead(row.countries)

LEMMA DirectFine ==
  ASSUME NEW id, NEW p \in Pattern, NEW currencies, NEW countries,
         HasHead(currencies), HasHead(countries)
  PROVE  FineRow(Direct(id, p, currencies, countries))
BY DEF Direct, FineRow

LEMMA DirectRows == \A row \in DIRECT_METHODS : FineRow(row)
<1>1. {"native-wallet", "button-sdk", "bnpl", "redirect", "qr"} \subseteq Pattern
  BY DEF Pattern
<1>2. ASSUME NEW row \in DIRECT_METHODS PROVE FineRow(row)
  BY <1>1, DirectFine, Heads DEF DIRECT_METHODS
<1> QED BY <1>2

LEMMA PproRows == \A row \in PPRO_METHODS : FineRow(row)
<1>1. {"redirect", "qr", "voucher"} \subseteq Pattern
  BY DEF Pattern
<1>2. ASSUME NEW row \in PPRO_METHODS PROVE FineRow(row)
  BY <1>1, DirectFine, Heads DEF PPRO_METHODS, Redirect, Qr, Voucher
<1> QED BY <1>2

(* Seeding with a list that does not have the choice takes one that it has.*)
LEMMA SeededSold ==
  ASSUME NEW list, NEW x, HasHead(list)
  PROVE  Sold(list, Seeded(list, x))
BY DEF HasHead, Sold, Seeded

LEMMA ChosenIsOffered ==
  ASSUME NEW id \in Range(Catalog), resetForApm(id), captureMode = "GATEWAY"
  PROVE  apmId' = id
<1> DEFINE c == Seeded(APM_MAPPING[id].countries, country)
           x == Seeded(APM_MAPPING[id].currencies, currency)
<1>1. PICK i \in DOMAIN Catalog : Catalog[i] = id
  BY DEF Range
<1>2. id \in ApmIds
  BY <1>1, TraceConsoleAssumption, LenProperties
<1>3. FineRow(APM_MAPPING[id])
  BY <1>2, DirectRows, PproRows DEF APM_MAPPING, ApmIds
<1>4. EligibleFor(id, c, x, "GATEWAY")
  <2>1. Sold(APM_MAPPING[id].countries, c) /\ Sold(APM_MAPPING[id].currencies, x)
    BY <1>3, SeededSold DEF FineRow
  <2>2. Capabilities(id).gatewayInitiated
    BY <1>3 DEF Capabilities, PatternDefaults, FineRow
  <2> HIDE DEF c, x
  <2> QED BY <2>1, <2>2 DEF EligibleFor
<1> HIDE DEF c, x
<1>5. id \in OnOffer(c, x, "GATEWAY")
  BY <1>1, <1>4 DEF OnOffer, Eligible
<1>6. render(c, x, captureMode, id, "sync_sale_ok")
  BY Zenon DEF resetForApm, c, x
<1> QED BY <1>5, <1>6 DEF render

(* A payment method chosen in the catalog is the one the console shows,    *)
(* for any catalog (trace-console.js resetForApm, render).                 *)
THEOREM ChosenIsShown == DemoSpec => LoadedIsShown
<1> DEFINE Shows == apm' # apm /\ captureMode = "GATEWAY" => apmId' = apm'
<1>1. [DemoNext]_demoVars => [Shows]_demoVars
  <2> SUFFICES ASSUME [DemoNext]_demoVars, apm' # apm, captureMode = "GATEWAY"
               PROVE  apmId' = apm'
    OBVIOUS
  <2>1. \/ \E id \in All : load(id) /\ resetForApm(id)
        \/ Visitor \/ Fetched
        \/ \E l \in SdkLoads : Continues(l) \/ \E ok \in BOOLEAN : Rendered(l, ok)
        \/ UNCHANGED paneVars
    BY Zenon DEF DemoNext, Toggle, Others, Select, demoVars
  <2>2. CASE \/ Visitor \/ Fetched
             \/ \E l \in SdkLoads : Continues(l) \/ \E ok \in BOOLEAN : Rendered(l, ok)
             \/ UNCHANGED paneVars
    <3>1. apm' = apm
      BY <2>2, Zenon DEF Visitor, Fetched, Continues, paneVars, setTab, Submit, Probe, Unload,
                          ScriptRuns, ScriptFails, InjectFails, PollTimesOut, Loaded, Rendered
    <3> QED BY <3>1
  <2>3. ASSUME NEW id \in All, load(id), resetForApm(id) PROVE apmId' = apm'
    BY <2>3, ChosenIsOffered, DemoAssumption DEF load
  <2> QED BY <2>1, <2>2, <2>3
<1> QED BY <1>1, PTL DEF DemoSpec, LoadedIsShown

=============================================================================
