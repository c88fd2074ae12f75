------------------------------ MODULE OrderCalls ------------------------------
(***************************************************************************)
(* An order operation from the page to Commerce Hub and back: SessionClient*)
(* of the SDK (session-client.ts, order-result-mapper.ts), the routes of   *)
(* the reference server (routes/orders.ts, sessions.ts, error-handler.ts)  *)
(* and the clients behind them (orders-client.ts, client.ts, retry.ts).    *)
(*                                                                         *)
(* Calls are numbered in the order the page makes them; several are under  *)
(* way together.  The page may lose a call that the server goes on with,   *)
(* and the server may lose an attempt that Commerce Hub goes on with.      *)
(* Commerce Hub is external: it answers a request id it has answered before*)
(* as it did then (docs/SECURITY.md, Idempotency).  The breaker is another *)
(* module's subject (CircuitBreaker): here it may refuse any call.         *)
(***************************************************************************)
EXTENDS Naturals

CONSTANTS
  MaxCalls,     \* bound: calls the page makes
  MaxAttempts,  \* RetryPolicy.maxAttempts
  Turned        \* errors of Commerce Hub that precede a look at the request

ASSUME OrderCallsAssumption ==
  /\ MaxCalls \in Nat \ {0} /\ MaxAttempts \in Nat \ {0}
  /\ Turned \subseteq {"AUTH_FAILED", "FORBIDDEN", "TOO_EARLY", "RATE_LIMITED",
                       "SERVER_ERROR"}

VARIABLES
  started,  \* calls made so far
  call,     \* each on the server: its operation, the call that opened the order
            \* it is about, where it stands, its attempts, what it came to
  told,     \* what the page has been told of each
  net,      \* requests on their way to Commerce Hub
  answered, \* Commerce Hub: its answer to each Client-Request-Id
  ledger,   \* Commerce Hub: the transaction that each call opened
  effects   \* history: what Commerce Hub has carried out, for which request

hub == <<answered, ledger, effects>>
ordersVars == <<started, call, told, net, hub>>

Call == 1..MaxCalls
Opening == {"authorize", "sale"}
Secondary == {"capture", "void", "refund"}
Operation == Opening \cup Secondary \cup {"session"}

-----------------------------------------------------------------------------
(* CommerceHubError.retryable *)
Retryable == {"NETWORK_ERROR", "TOO_EARLY", "RATE_LIMITED", "SERVER_ERROR"}

ErrorCode ==
  Retryable \cup {"VALIDATION_ERROR", "AUTH_FAILED", "FORBIDDEN", "NOT_FOUND",
                  "DEADLINE_EXCEEDED", "CIRCUIT_OPEN"}

TransactionState ==
  {"AUTHORIZED", "CAPTURED", "PENDING", "DECLINED", "VOIDED", "REFUNDED", "SESSION"}

(* A 2xx answer without an orderId or an accessToken is an error with the  *)
(* status of the answer, 200: the page receives a body without a state.    *)
Answer == TransactionState \cup ErrorCode \cup {"MISSING_ID"}

(* The error handler's status (err.status, or mapCodeToStatus) as          *)
(* SessionClient reads it (mapHttpStatus).                                 *)
PageError(code) ==
  CASE code \in {"VALIDATION_ERROR", "NOT_FOUND"} -> code
    [] code \in {"AUTH_FAILED", "FORBIDDEN"} -> "AUTH_FAILED"
    [] code \in {"TOO_EARLY", "RATE_LIMITED"} -> "UNKNOWN"
    [] OTHER -> "SERVER_ERROR"

(* Mutant: the case of a decline falls through to the one above it.        *)
MapStatusDeclinedPaid(transactionState) ==
  CASE transactionState = "AUTHORIZED" -> "authorized"
    [] transactionState \in {"CAPTURED", "DECLINED"} -> "captured"
    [] transactionState = "PENDING" -> "pending_authorization"
    [] transactionState = "VOIDED" -> "cancelled"
    [] OTHER -> "failed"

(* mapStatus: a state it does not know, or none, is a failure.             *)
MapStatus(transactionState) ==
  CASE transactionState = "AUTHORIZED" -> "authorized"
    [] transactionState = "CAPTURED" -> "captured"
    [] transactionState = "PENDING" -> "pending_authorization"
    [] transactionState = "DECLINED" -> "declined"
    [] transactionState = "VOIDED" -> "cancelled"
    [] OTHER -> "failed"

(* request and mapOrderResult; the answer to POST /v2/sessions is not      *)
(* mapped.                                                                 *)
ToPage(op, answer) ==
  IF answer \in ErrorCode THEN PageError(answer)
  ELSE IF op = "session" THEN IF answer = "SESSION" THEN "session" ELSE "no_token"
  ELSE MapStatus(answer)

(* Mutant: a capture is sent without its flag, as an authorization is.     *)
WireFieldsUnflagged(op) ==
  [captureFlag |-> op = "sale", reversal |-> op = "void",
   intent |-> op, referenced |-> op \in Secondary]

(* The fields that tell the operations apart on the wire: intentToWire-    *)
(* Fields with the bodies of authorize, sale, capture, void and refund.    *)
WireFields(op) ==
  [captureFlag |-> op \in {"sale", "capture"}, reversal |-> op = "void",
   intent |-> op, referenced |-> op \in Secondary]

(* Commerce Hub, external: how it tells them apart (types/ch-orders.ts).   *)
Reads(f) ==
  CASE f.intent = "session" -> "session"
    [] f.intent # "session" /\ ~f.referenced ->
         IF f.captureFlag THEN "sale" ELSE "authorize"
    [] f.referenced /\ f.reversal -> "void"
    [] f.referenced /\ ~f.reversal ->
         IF f.captureFlag THEN "capture" ELSE "refund"

-----------------------------------------------------------------------------
Moves(n, stage) == call' = [call EXCEPT ![n].stage = stage]
Comes(n, answer) ==
  call' = [call EXCEPT ![n].stage = "answering", ![n].answer = answer]

(* Mutant: every attempt has an id of its own.                             *)
ClientRequestIdFresh(n, attempt) == <<n, attempt>>

(* submit and createSession draw one id for all attempts of the call.      *)
ClientRequestId(n, attempt) == <<n, 1>>

Request(n, attempt) == [call |-> n, id |-> ClientRequestId(n, attempt)]

(* A method of SessionClient, up to its await.  The page names an order by *)
(* the transactionId of an answer it has had.                              *)
Known == {m \in 1..started :
            /\ call[m].op \in Opening
            /\ told[m] \in {"authorized", "captured", "pending_authorization"}}

PageCalls(op, order) ==
  /\ started < MaxCalls
  /\ started' = started + 1
  /\ call' = [call EXCEPT ![started + 1] =
                [op |-> op, order |-> order, stage |-> "received",
                 attempts |-> 0, answer |-> "none"]]
  /\ told' = [told EXCEPT ![started + 1] = "waiting"]
  /\ UNCHANGED <<net, hub>>

OpensSession == PageCalls("session", started + 1)
Opens(op) == op \in Opening /\ PageCalls(op, started + 1)
Names(op, order) == op \in Secondary /\ order \in Known /\ PageCalls(op, order)

(* The route or the client misses a field, or the APM is unknown.          *)
Incomplete(n) ==
  /\ call[n].stage = "received" /\ call[n].op # "session"
  /\ Comes(n, "VALIDATION_ERROR")
  /\ UNCHANGED <<started, told, net, hub>>

IncompleteSession(n) ==
  /\ call[n].stage = "received" /\ call[n].op = "session"
  /\ Comes(n, "VALIDATION_ERROR")
  /\ UNCHANGED <<started, told, net, hub>>

CircuitOpen(n) ==
  /\ call[n].stage = "received"
  /\ Comes(n, "CIRCUIT_OPEN")
  /\ UNCHANGED <<started, told, net, hub>>

(* Mutant: a retry is not counted.                                         *)
RetryUncounted(n) ==
  /\ call[n].stage \in {"received", "backoff"}
  /\ call' = [call EXCEPT ![n].stage = "waiting", ![n].attempts = 1]
  /\ net' = net \cup {Request(n, 1)}
  /\ UNCHANGED <<started, told, hub>>

(* The first attempt, or the next one after its backoff.                   *)
Attempt(n) ==
  /\ call[n].stage \in {"received", "backoff"}
  /\ call' = [call EXCEPT ![n].stage = "waiting", ![n].attempts = @ + 1]
  /\ net' = net \cup {Request(n, call[n].attempts + 1)}
  /\ UNCHANGED <<started, told, hub>>

(* The end of an attempt: withRetry takes an error that is worth it, and   *)
(* not the last one, to its backoff.                                       *)
AttemptEnds(n, answer) ==
  IF answer \in Retryable /\ call[n].attempts < MaxAttempts
  THEN Moves(n, "backoff") ELSE Comes(n, answer)

(* fetch throws; what it sent may still be on its way.                     *)
ConnectionBreaks(n) ==
  /\ call[n].stage = "waiting"
  /\ AttemptEnds(n, "NETWORK_ERROR")
  /\ UNCHANGED <<started, told, net, hub>>

(* The end of the backoff would be past the deadline.                      *)
DeadlineExceeded(n) ==
  /\ call[n].stage = "backoff"
  /\ Comes(n, "DEADLINE_EXCEEDED")
  /\ UNCHANGED <<started, told, net, hub>>

AnswerReturns(n) ==
  /\ call[n].stage = "waiting"
  /\ \E a \in answered :
       /\ a.id = ClientRequestId(n, call[n].attempts)
       /\ AttemptEnds(n, a.answer)
  /\ UNCHANGED <<started, told, net, hub>>

(* The route answers; the page may have lost the call meanwhile.           *)
Respond(n) ==
  /\ call[n].stage = "answering"
  /\ call' = [call EXCEPT ![n].stage = "done", ![n].attempts = 0, ![n].answer = "none"]
  /\ told' = IF told[n] = "waiting"
             THEN [told EXCEPT ![n] = ToPage(call[n].op, call[n].answer)] ELSE told
  /\ UNCHANGED <<started, net, hub>>

PageLoses(n) ==
  /\ told[n] = "waiting"
  /\ told' = [told EXCEPT ![n] = "NETWORK_ERROR"]
  /\ UNCHANGED <<started, call, net, hub>>

-----------------------------------------------------------------------------
(* Commerce Hub, external.  It does not look at the request: credentials,  *)
(* rate limits, its own failures.                                          *)
HubTurnsAway(n) ==
  /\ call[n].stage = "waiting"
  /\ Request(n, call[n].attempts) \in net
  /\ net' = net \ {Request(n, call[n].attempts)}
  /\ \E code \in Turned : AttemptEnds(n, code)
  /\ UNCHANGED <<started, told, hub>>

(* It looks at the request: an id it knows has its answer.                 *)
Decides(m, op, answer) ==
  \/ /\ op = "session"
     /\ answer \in {"SESSION", "MISSING_ID"}
     /\ UNCHANGED ledger
  \/ /\ op = "authorize"
     /\ \/ answer \in {"AUTHORIZED", "MISSING_ID"} /\ ledger' = [ledger EXCEPT ![m.call] = "held"]
        \/ answer = "PENDING" /\ ledger' = [ledger EXCEPT ![m.call] = "holding"]
  \/ /\ op = "sale"
     /\ \/ answer \in {"CAPTURED", "MISSING_ID"} /\ ledger' = [ledger EXCEPT ![m.call] = "captured"]
        \/ answer = "PENDING" /\ ledger' = [ledger EXCEPT ![m.call] = "capturing"]
  \/ LET order == call[m.call].order IN
     \/ /\ op = "capture" /\ ledger[order] = "held" /\ answer \in {"CAPTURED", "MISSING_ID"}
        /\ ledger' = [ledger EXCEPT ![order] = "captured"]
     \/ /\ op = "void" /\ ledger[order] = "held" /\ answer \in {"VOIDED", "MISSING_ID"}
        /\ ledger' = [ledger EXCEPT ![order] = "voided"]
     \/ /\ op = "refund" /\ ledger[order] = "captured" /\ answer \in {"REFUNDED", "MISSING_ID"}
        /\ ledger' = [ledger EXCEPT ![order] = "refunded"]

HubCarriesOut(m, answer) ==
  LET op == Reads(WireFields(call[m.call].op)) IN
  /\ Decides(m, op, answer)
  /\ answered' = answered \cup {[id |-> m.id, answer |-> answer]}
  /\ effects' = effects \cup {[call |-> m.call, id |-> m.id, op |-> op]}

(* A payment declined, an operation the order does not allow, an order it  *)
(* does not find.                                                          *)
HubRefuses(m) ==
  /\ \E answer \in {"VALIDATION_ERROR", "NOT_FOUND", "DECLINED"} :
       /\ answer = "DECLINED" => call[m.call].op # "session"
       /\ answered' = answered \cup {[id |-> m.id, answer |-> answer]}
  /\ UNCHANGED <<ledger, effects>>

HubReceives(m) ==
  /\ m \in net
  /\ net' = net \ {m}
  /\ IF \E a \in answered : a.id = m.id
     THEN UNCHANGED hub
     ELSE HubRefuses(m) \/ \E answer \in Answer : HubCarriesOut(m, answer)
  /\ UNCHANGED <<started, call, told>>

(* The provider decides a pending order; the page hears of it by webhook.  *)
ProviderDecides(n) ==
  /\ \/ ledger[n] = "holding" /\ \E l \in {"held", "none"} : ledger' = [ledger EXCEPT ![n] = l]
     \/ ledger[n] = "capturing" /\ \E l \in {"captured", "none"} : ledger' = [ledger EXCEPT ![n] = l]
  /\ UNCHANGED <<started, call, told, net, answered, effects>>

-----------------------------------------------------------------------------
NoCall == [op |-> "none", order |-> 0, stage |-> "none", attempts |-> 0, answer |-> "none"]

OrdersInit ==
  /\ started = 0 /\ call = [n \in Call |-> NoCall] /\ told = [n \in Call |-> "nothing"]
  /\ net = {} /\ answered = {} /\ effects = {}
  /\ ledger = [n \in Call |-> "none"]

(* What the server does of itself for call n, and what becomes of a fetch. *)
Server(n) ==
  \/ Incomplete(n) \/ IncompleteSession(n) \/ CircuitOpen(n) \/ Attempt(n) \/ DeadlineExceeded(n)
  \/ ConnectionBreaks(n) \/ AnswerReturns(n) \/ HubTurnsAway(n) \/ Respond(n)

OrdersNext ==
  \/ OpensSession
  \/ \E op \in Operation : Opens(op) \/ \E order \in Call : Names(op, order)
  \/ \E n \in Call : Server(n) \/ PageLoses(n) \/ ProviderDecides(n)
  \/ \E m \in net : HubReceives(m)

(* The server goes on with a call, and a fetch ends, if only by the time   *)
(* limits of the HTTP client (undici).                                     *)
OrdersSpec ==
  /\ OrdersInit /\ [][OrdersNext]_ordersVars
  /\ \A n \in Call : WF_ordersVars(Server(n))

-----------------------------------------------------------------------------
OrdersTypeOK ==
  /\ started \in 0..MaxCalls
  /\ call \in [Call -> [op : Operation \cup {"none"}, order : 0..MaxCalls,
                        stage : {"none", "received", "waiting", "backoff",
                                 "answering", "done"},
                        attempts : 0..MaxAttempts, answer : Answer \cup {"none"}]]
  /\ told \in [Call -> {"nothing", "waiting", "session", "no_token", "authorized",
                        "captured", "pending_authorization", "declined", "cancelled",
                        "failed", "VALIDATION_ERROR", "NOT_FOUND", "AUTH_FAILED",
                        "UNKNOWN", "SERVER_ERROR", "NETWORK_ERROR"}]
  /\ net \subseteq [call : Call, id : Call \X Nat]
  /\ answered \subseteq [id : Call \X Nat, answer : Answer]
  /\ ledger \in [Call -> {"none", "holding", "held", "capturing", "captured",
                          "voided", "refunded"}]
  /\ effects \subseteq [call : Call, id : Call \X Nat, op : Operation]

(* However often a call is retried, and whichever of its attempts arrive,  *)
(* Commerce Hub carries it out once (orders-client.ts submit, client.ts    *)
(* createSession: one Client-Request-Id per call).                         *)
OneEffectPerCall ==
  \A e, f \in effects : e.call = f.call => e = f

(* A page that is told of a refusal or a decline has moved no money: not   *)
(* by an earlier attempt whose answer was lost, and not by one that is     *)
(* still on its way (error-handler.ts, session-client.ts mapHttpStatus,    *)
(* order-result-mapper.ts).                                                *)
RefusalMeansUntouched ==
  \A n \in Call : told[n] \in {"VALIDATION_ERROR", "NOT_FOUND", "declined"}
                    => \A e \in effects : e.call # n

(* Commerce Hub has carried out call n, as the operation it is.            *)
Carried(n, ops) == \E e \in effects : e.call = n /\ e.op = call[n].op /\ e.op \in ops

(* A page that is told of a success has had exactly what it asked for: the *)
(* fields on the wire made Commerce Hub carry out that operation and no    *)
(* other (intent.ts, orders-client.ts, order-result-mapper.ts mapStatus).  *)
SuccessMeansDone ==
  \A n \in Call :
    /\ told[n] = "authorized" => Carried(n, {"authorize"})
    /\ told[n] = "captured" => Carried(n, {"sale", "capture"})
    /\ told[n] = "cancelled" => Carried(n, {"void"})
    /\ told[n] = "session" => Carried(n, {"session"})

(* The abstract promise: what was asked, carried out, and told.            *)
CarriedOut(n) ==
  LET mine == {e \in effects : e.call = n} IN
  IF mine = {} THEN "no"
  ELSE IF \E e \in mine : mine = {e} /\ e.op = call[n].op THEN "as asked" ELSE "otherwise"

Confirmed ==
  [authorized |-> {"authorize"}, captured |-> {"sale", "capture"},
   cancelled |-> {"void"}, session |-> {"session"}]

Hears(answer) ==
  CASE answer \in {"nothing", "waiting"} -> "nothing"
    [] answer \in DOMAIN Confirmed -> answer
    [] answer \in {"VALIDATION_ERROR", "NOT_FOUND", "declined"} -> "refused"
    [] OTHER -> "unsure"

Promise ==
  INSTANCE OrderPromise WITH
    asked <- [n \in Call |-> call[n].op],
    done  <- [n \in Call |-> CarriedOut(n)],
    told  <- [n \in Call |-> Hears(told[n])]

(* A call is carried out at most once, however often it is retried and     *)
(* whichever attempts arrive; the page is told once, of a success that was *)
(* had or a refusal that is final; one it is told nothing certain of may   *)
(* still be carried out (orders-client.ts submit: one Client-Request-Id    *)
(* per call, session-client.ts, order-result-mapper.ts).                   *)
ImplementsOrderPromise == Promise!Spec

(* A call of the page comes to an end, however Commerce Hub and the        *)
(* connections behave (retry.ts).                                          *)
CallSettles == \A n \in Call : told[n] = "waiting" ~> told[n] # "waiting"

=============================================================================
