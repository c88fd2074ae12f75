---------------------------- MODULE SandboxRoutes ----------------------------
(***************************************************************************)
(* The sandbox routes of the v1 server (test-harness/server.js) that call  *)
(* a real provider, and the test log they keep: a call is answered, lost   *)
(* on the way there or on the way back, the log is cleared at any time.    *)
(* The mock routes answer by themselves.                                   *)
(***************************************************************************)
EXTENDS Naturals, FiniteSets

CONSTANTS
  SandboxCalls,  \* the calls under way at the same time
  Used,          \* the routes of this instance
  MaxMade,       \* bound: calls of one route the provider accepts
  MaxLost,       \* bound: answers that are lost
  MaxClears,     \* bound: clears of the log
  MaxLines       \* bound: lines on the console

VARIABLES
  sandbox,   \* each call: its route, and idle, sent, or what the provider
             \* did of it: made, declined, refused
  made,      \* what the providers have carried out, by route
  declined,  \* what they have accepted and decided against, by route
  testLog,   \* entries by step and verdict
  lines,     \* lines the server has written to its console
  lost, clears

sandboxVars == <<sandbox, made, declined, testLog, lines, lost, clears>>

-----------------------------------------------------------------------------
(* The steps the routes log.  Klarna and Cash App log the amount as well.  *)
KlarnaRoutes == {"session-create", "place-order", "capture", "refund"}
CashAppRoutes == {"customer-request"}
PproRoutes == {"charge"}

(* Those whose answer carries a decision: fraud_status, failureMessage.    *)
Deciding == {"place-order", "charge"}

LoggedMocks == {"afterpay-checkout", "afterpay-capture", "merchant-validation"}
WalletMocks == {"alipayplus-pay", "wechatpay-order", "grabpay-charge"}

ProviderRoutes == (KlarnaRoutes \cup CashAppRoutes \cup PproRoutes) \cap Used
MockRoutes == (LoggedMocks \cup WalletMocks) \cap Used
AmountSteps == {"amount-request", "amount-response", "amount-transform"}
Steps == ProviderRoutes \cup MockRoutes \cup AmountSteps

ASSUME SandboxAssumption ==
  /\ Used \subseteq KlarnaRoutes \cup CashAppRoutes \cup PproRoutes
                      \cup LoggedMocks \cup WalletMocks
  /\ {MaxMade, MaxLost, MaxClears, MaxLines} \subseteq Nat

Empty == [step \in Steps |-> [PASS |-> 0, FAIL |-> 0]]

(* logTest, for each of the entries a handler writes.                      *)
logTest(entries) ==
  /\ testLog' = [step \in Steps |->
       [verdict \in {"PASS", "FAIL"} |->
          testLog[step][verdict] + (IF <<step, verdict>> \in entries THEN 1 ELSE 0)]]
  /\ lines + Cardinality(entries) <= MaxLines
  /\ lines' = lines + Cardinality(entries)

Verdict(ok) == IF ok THEN "PASS" ELSE "FAIL"

(* What may be logged about the amount beside the verdict on the call: a   *)
(* session without an amount fails its check, an order may name none.      *)
AmountCheck(route, ok) ==
  CASE route = "session-create" ->
         {{<<"amount-request", verdict>>} : verdict \in {"PASS", "FAIL"}}
    [] route = "place-order" /\ ok -> {{}, {<<"amount-response", "PASS">>}}
    [] route = "customer-request" ->
         {{<<"amount-transform", verdict>>} : verdict \in {Verdict(ok), "FAIL"}}
    [] OTHER -> {{}}

Becomes(c, route, phase) ==
  sandbox' = [sandbox EXCEPT ![c] = [route |-> route, phase |-> phase]]

Idle(c) == Becomes(c, "none", "idle")

-----------------------------------------------------------------------------
Room(route) == made[route] + declined[route] < MaxMade

(* A handler up to its fetch.  The handler of PPRO may refuse the body     *)
(* before, which leaves no trace.                                          *)
Post(c, route) ==
  /\ sandbox[c].phase = "idle" /\ Room(route)
  /\ Becomes(c, route, "sent")
  /\ UNCHANGED <<made, declined, testLog, lines, lost, clears>>

(* The provider: an order needs a session, a capture an order, a refund a  *)
(* capture.  It may refuse any of them, and may take an order or a charge  *)
(* and answer that it is rejected or has failed.                           *)
Accepts(route) ==
  CASE route = "place-order" -> made["session-create"] > 0
    [] route = "capture" -> made["place-order"] > 0
    [] route = "refund" -> made["capture"] > 0
    [] OTHER -> TRUE

Carries(c) ==
  /\ sandbox[c].phase = "sent" /\ Accepts(sandbox[c].route) /\ Room(sandbox[c].route)
  /\ made' = [made EXCEPT ![sandbox[c].route] = @ + 1]
  /\ Becomes(c, sandbox[c].route, "made")
  /\ UNCHANGED <<declined, testLog, lines, lost, clears>>

Declines(c) ==
  /\ sandbox[c].phase = "sent" /\ Accepts(sandbox[c].route) /\ Room(sandbox[c].route)
  /\ sandbox[c].route \in Deciding
  /\ declined' = [declined EXCEPT ![sandbox[c].route] = @ + 1]
  /\ Becomes(c, sandbox[c].route, "declined")
  /\ UNCHANGED <<made, testLog, lines, lost, clears>>

Refuses(c) ==
  /\ sandbox[c].phase = "sent"
  /\ Becomes(c, sandbox[c].route, "refused")
  /\ UNCHANGED <<made, declined, testLog, lines, lost, clears>>

(* Mutant: the verdict is on the answer to the page, which says CAPTURED   *)
(* or REFUNDED whatever the provider said.                                 *)
PassesAnswered(route, phase) == phase \in {"made", "declined"} \/ route \in {"capture", "refund"}

(* The HTTP status the handler takes for a success: 200 of a session, any  *)
(* 2xx of an order, 201 or 204 of a capture or refund, 200 or 201 of a     *)
(* charge, whatever the body says.                                         *)
Passes(route, phase) == phase \in {"made", "declined"}

(* The rest of the handler: verdict, amount check, answer.                 *)
Returns(c) ==
  LET call == sandbox[c]
      ok == Passes(call.route, call.phase)
  IN  /\ call.phase \in {"made", "declined", "refused"}
      /\ \E checked \in AmountCheck(call.route, ok) :
           logTest({<<call.route, Verdict(ok)>>} \cup checked)
      /\ Idle(c)
      /\ UNCHANGED <<made, declined, lost, clears>>

(* The fetch throws, or the body of the answer cannot be read: FAIL and a  *)
(* 500, also for a call that was carried out.                              *)
Throws(c) ==
  /\ sandbox[c].phase # "idle"
  /\ lost < MaxLost /\ lost' = lost + 1
  /\ logTest({<<sandbox[c].route, "FAIL">>})
  /\ Idle(c)
  /\ UNCHANGED <<made, declined, clears>>

MockVerdicts(route) ==
  IF route = "merchant-validation" THEN {"PASS", "FAIL"} ELSE {"PASS"}

(* A mock answers a success it has made up and logs it as one.  Apple's    *)
(* merchant validation asks nobody either, but needs its certificate.      *)
MockCall(route) ==
  /\ \E verdict \in MockVerdicts(route) : logTest({<<route, verdict>>})
  /\ UNCHANGED <<sandbox, made, declined, lost, clears>>

(* GET /api/test-log/clear; the console keeps its lines.                   *)
Clear ==
  /\ clears < MaxClears /\ clears' = clears + 1
  /\ testLog' = Empty
  /\ UNCHANGED <<sandbox, made, declined, lines, lost>>

-----------------------------------------------------------------------------
SandboxInit ==
  /\ sandbox = [c \in SandboxCalls |-> [route |-> "none", phase |-> "idle"]]
  /\ made = [route \in ProviderRoutes |-> 0] /\ declined = made
  /\ testLog = Empty /\ lines = 0 /\ lost = 0 /\ clears = 0

SandboxStep ==
  \/ \E c \in SandboxCalls :
       \/ \E route \in ProviderRoutes : Post(c, route)
       \/ Carries(c) \/ Declines(c) \/ Refuses(c) \/ Returns(c) \/ Throws(c)
  \/ \E route \in MockRoutes : MockCall(route)
  \/ Clear

(* A PASS of a session, a request, a capture or a refund stands for one    *)
(* call that the provider carried out; a PASS of an order or a charge only *)
(* for one it answered with a success, as a rejected order and a failed    *)
(* charge are logged PASS too.  And as long as nothing was cleared or      *)
(* lost, every such answer is there as a PASS (server.js logTest):         *)
(* overlapping calls, repeated ones and a clear in between do not upset    *)
(* the count.                                                              *)
LogTellsTruth ==
  \A route \in ProviderRoutes :
    /\ testLog[route].PASS
         <= made[route] + (IF route \in Deciding THEN declined[route] ELSE 0)
    /\ clears = 0
         /\ (\A c \in SandboxCalls : sandbox[c].phase \notin {"made", "declined"})
         => made[route] + declined[route] <= testLog[route].PASS + lost

=============================================================================
