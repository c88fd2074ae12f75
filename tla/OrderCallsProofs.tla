--------------------------- MODULE OrderCallsProofs ---------------------------
(***************************************************************************)
(* What a page may conclude from the answer to an order call, for any      *)
(* number of calls and attempts and any errors of Commerce Hub that come   *)
(* before a look at the request.                                           *)
(***************************************************************************)
EXTENDS OrderCalls, TLAPS

Id(n) == ClientRequestId(n, 1)

CallRecord ==
  [op : Operation \cup {"none"}, order : 0..MaxCalls,
   stage : {"none", "received", "waiting", "backoff", "answering", "done"},
   attempts : 0..MaxAttempts, answer : Answer \cup {"none"}]

Refusal == {"VALIDATION_ERROR", "NOT_FOUND", "DECLINED"}

AnsweredAs(n, answers) == \E a \in answered : a.id = Id(n) /\ a.answer \in answers

(* Commerce Hub has had, or may yet have, a request of call n.             *)
Sent(n) == (\E m \in net : m.call = n) \/ AnsweredAs(n, Answer)

-----------------------------------------------------------------------------
(* A call is numbered when it is made, and its attempts are counted.       *)
Numbered ==
  \A n \in Call :
    /\ call[n].stage = "none" <=> n > started
    /\ n <= started => call[n].op \in Operation
    /\ call[n].stage = "received" => call[n].attempts = 0
    /\ call[n].stage = "backoff" => call[n].attempts < MaxAttempts
    /\ call[n].stage = "answering" => call[n].answer # "none"

(* Whatever Commerce Hub has of a call has the one id of that call.        *)
OneId ==
  /\ \A m \in net : m.id = Id(m.call)
  /\ \A e \in effects : e.id = Id(e.call)
  /\ \A a \in answered : \E n \in Call : a.id = Id(n)

(* Commerce Hub has one answer to an id, no refusal once it has carried out*)
(* a request of that id, and it carries out what the page asked for.       *)
OneAnswer ==
  /\ \A a, b \in answered : a.id = b.id => a = b
  /\ \A e \in effects :
       /\ \E a \in answered : a.id = e.id /\ a.answer \notin Refusal
       /\ e.op = call[e.call].op

(* Its answer says what it has carried out.                                *)
AnswersMean ==
  \A n \in Call :
    /\ AnsweredAs(n, {"AUTHORIZED"}) => Carried(n, {"authorize"})
    /\ AnsweredAs(n, {"CAPTURED"}) => Carried(n, {"sale", "capture"})
    /\ AnsweredAs(n, {"VOIDED"}) => Carried(n, {"void"})
    /\ AnsweredAs(n, {"SESSION"}) => Carried(n, {"session"})

(* Nothing is sent for a call before its first attempt.                    *)
Unsent == \A n \in Call : call[n].stage \in {"none", "received"} => ~Sent(n)

(* An answer of the server, but for errors nobody concludes anything from, *)
(* is the answer of Commerce Hub, or a refusal before anything is sent.    *)
Grounded(n, answer) ==
  answer \in {"AUTHORIZED", "CAPTURED", "VOIDED", "SESSION"} \cup Refusal
    => \/ AnsweredAs(n, {answer})
       \/ answer = "VALIDATION_ERROR" /\ ~Sent(n)

Answering ==
  \A n \in Call : call[n].stage = "answering" => Grounded(n, call[n].answer)

(* So is a refusal the page was told.                                      *)
Told ==
  \A n \in Call :
    /\ told[n] \notin {"nothing", "waiting", "NETWORK_ERROR"} => call[n].stage = "done"
    /\ told[n] \in {"VALIDATION_ERROR", "NOT_FOUND", "declined"}
         => AnsweredAs(n, Refusal) \/ ~Sent(n)

OrdersInv ==
  /\ OrdersTypeOK /\ Numbered /\ OneId /\ OneEffectPerCall /\ OneAnswer
  /\ AnswersMean /\ Unsent /\ Answering /\ Told /\ SuccessMeansDone

USE OrderCallsAssumption DEF Call

-----------------------------------------------------------------------------
(* All attempts of a call share its id, and no two calls have the same.    *)
LEMMA Ids ==
  ASSUME NEW n \in Call
  PROVE  /\ \A k : Request(n, k) = [call |-> n, id |-> Id(n)]
         /\ \A k : ClientRequestId(n, k) = Id(n)
         /\ \A m \in Call : Id(m) = Id(n) => m = n
         /\ Id(n) \in Call \X Nat
BY DEF Request, Id, ClientRequestId

(* The fields on the wire tell every operation apart.                      *)
LEMMA WireTells == \A op \in Operation : Reads(WireFields(op)) = op
BY DEF Reads, WireFields, Operation, Opening, Secondary

LEMMA CodesAreAnswers ==
  /\ "none" \notin Answer
  /\ {"VALIDATION_ERROR", "CIRCUIT_OPEN", "NETWORK_ERROR", "DEADLINE_EXCEEDED"} \subseteq Answer
  /\ Turned \subseteq Answer
  /\ \A n \in Call :
       \A code \in Turned \cup {"CIRCUIT_OPEN", "NETWORK_ERROR", "DEADLINE_EXCEEDED"} :
         Grounded(n, code)
BY DEF Answer, ErrorCode, TransactionState, Retryable, Grounded, Refusal

LEMMA OrdersStart == OrdersInit => OrdersInv
<1> SUFFICES ASSUME OrdersInit PROVE OrdersInv
  OBVIOUS
<1>1. OrdersTypeOK
  BY DEF OrdersInit, OrdersTypeOK, NoCall
<1> QED BY <1>1 DEF OrdersInit, NoCall, OrdersInv, Numbered, OneId, OneEffectPerCall, OneAnswer,
           AnswersMean, Unsent, Answering, Told, SuccessMeansDone, AnsweredAs, Sent

-----------------------------------------------------------------------------
(* A step of the server that only moves a call, for want of an attempt or  *)
(* at the end of one.                                                      *)
LEMMA MovingKeeps ==
  ASSUME OrdersInv, NEW n \in Call, net' \subseteq net, UNCHANGED <<started, told, hub>>,
         call[n].stage \in {"received", "waiting", "backoff"},
         \/ Moves(n, "backoff") /\ call[n].attempts < MaxAttempts
         \/ \E answer \in Answer : Grounded(n, answer) /\ Comes(n, answer)
  PROVE  OrdersInv'
<1>1. OrdersTypeOK'
  <2>1. call \in [Call -> CallRecord]
    BY DEF OrdersInv, OrdersTypeOK, CallRecord
  <2>2. call' \in [Call -> CallRecord]
    <3>1. CASE Moves(n, "backoff")
      BY <2>1, <3>1 DEF Moves, CallRecord
    <3>2. ASSUME NEW answer \in Answer, Comes(n, answer) PROVE call' \in [Call -> CallRecord]
      <4> DEFINE moved == [call EXCEPT ![n].stage = "answering"]
      <4>1. moved \in [Call -> CallRecord]
        BY <2>1 DEF CallRecord
      <4>2. call' = [moved EXCEPT ![n].answer = answer]
        BY <3>2 DEF Comes
      <4> HIDE DEF moved
      <4> QED BY <4>1, <4>2 DEF CallRecord
    <3> QED BY <3>1, <3>2
  <2> QED BY <2>2 DEF OrdersInv, OrdersTypeOK, CallRecord, hub
<1>2. /\ \A m \in Call : /\ call'[m].op = call[m].op /\ call'[m].attempts = call[m].attempts
                         /\ m # n => call'[m] = call[m]
      /\ call'[n].stage \in {"backoff", "answering"}
      /\ call'[n].stage = "backoff" => call[n].attempts < MaxAttempts
      /\ call'[n].stage = "answering"
           => call'[n].answer \in Answer /\ Grounded(n, call'[n].answer)
  <2>1. call \in [Call -> CallRecord]
    BY DEF OrdersInv, OrdersTypeOK, CallRecord
  <2>2. CASE Moves(n, "backoff") /\ call[n].attempts < MaxAttempts
    BY <2>1, <2>2 DEF Moves, CallRecord
  <2>3. ASSUME NEW answer \in Answer, Grounded(n, answer), Comes(n, answer)
        PROVE  /\ \A m \in Call : /\ call'[m].op = call[m].op
                                  /\ call'[m].attempts = call[m].attempts
                                  /\ m # n => call'[m] = call[m]
               /\ call'[n].stage = "answering" /\ call'[n].answer = answer
    <3> DEFINE moved == [call EXCEPT ![n].stage = "answering"]
    <3>1. /\ moved \in [Call -> CallRecord] /\ moved[n].stage = "answering"
          /\ \A m \in Call : /\ moved[m].op = call[m].op
                             /\ moved[m].attempts = call[m].attempts
                             /\ m # n => moved[m] = call[m]
      BY <2>1 DEF CallRecord
    <3>2. call' = [moved EXCEPT ![n].answer = answer]
      BY <2>3 DEF Comes
    <3> HIDE DEF moved
    <3>3. /\ call'[n].stage = moved[n].stage /\ call'[n].answer = answer
          /\ \A m \in Call : /\ call'[m].op = moved[m].op
                             /\ call'[m].attempts = moved[m].attempts
                             /\ m # n => call'[m] = moved[m]
      BY <3>1, <3>2 DEF CallRecord
    <3> QED BY <3>1, <3>3
  <2> QED BY <2>2, <2>3
<1>3. Numbered'
  BY <1>2, CodesAreAnswers DEF OrdersInv, Numbered
<1>4. OneId' /\ OneEffectPerCall'
  BY DEF OrdersInv, OneId, OneEffectPerCall, hub
<1>5. OneAnswer'
  BY <1>2 DEF OrdersInv, OrdersTypeOK, OneAnswer, hub
<1>6. \A m \in Call : /\ \A answers : AnsweredAs(m, answers)' <=> AnsweredAs(m, answers)
                      /\ Sent(m)' => Sent(m)
                      /\ \A ops : Carried(m, ops)' <=> Carried(m, ops)
  BY <1>2 DEF AnsweredAs, Sent, Carried, hub
<1>7. AnswersMean' /\ SuccessMeansDone'
  BY <1>6 DEF OrdersInv, AnswersMean, SuccessMeansDone
<1>8. Unsent'
  BY <1>2, <1>6 DEF OrdersInv, Unsent
<1>9. Answering'
  <2>1. \A m \in Call : \A answer : Grounded(m, answer) => Grounded(m, answer)'
    BY <1>6 DEF Grounded
  <2> QED BY <1>2, <2>1 DEF OrdersInv, Answering
<1>10. Told'
  BY <1>2, <1>6 DEF OrdersInv, Told
<1> QED BY <1>1, <1>3, <1>4, <1>5, <1>7, <1>8, <1>9, <1>10 DEF OrdersInv

(* Whatever ends an attempt keeps the invariant.                           *)
LEMMA EndingKeeps ==
  ASSUME OrdersInv, NEW n \in Call, call[n].stage = "waiting", net' \subseteq net,
         UNCHANGED <<started, told, hub>>,
         NEW answer \in Answer, Grounded(n, answer), AttemptEnds(n, answer)
  PROVE  OrdersInv'
<1>1. call[n].attempts \in Nat
  BY DEF OrdersInv, OrdersTypeOK
<1> QED BY <1>1, MovingKeeps DEF AttemptEnds

(* Refused before an attempt, or at the end of one.                        *)
LEMMA ServerKeeps ==
  ASSUME OrdersInv, NEW n \in Call,
         \/ Incomplete(n) \/ IncompleteSession(n) \/ CircuitOpen(n) \/ DeadlineExceeded(n)
         \/ ConnectionBreaks(n) \/ AnswerReturns(n) \/ HubTurnsAway(n)
  PROVE  OrdersInv'
<1>1. CASE Incomplete(n) \/ IncompleteSession(n)
  <2>1. Grounded(n, "VALIDATION_ERROR")
    BY <1>1 DEF Incomplete, IncompleteSession, OrdersInv, Unsent, Grounded
  <2> QED BY <1>1, <2>1, CodesAreAnswers, MovingKeeps DEF Incomplete, IncompleteSession
<1>2. CASE CircuitOpen(n) \/ DeadlineExceeded(n)
  BY <1>2, CodesAreAnswers, MovingKeeps DEF CircuitOpen, DeadlineExceeded
<1>3. CASE ConnectionBreaks(n)
  BY <1>3, CodesAreAnswers, EndingKeeps DEF ConnectionBreaks
<1>4. CASE HubTurnsAway(n)
  BY <1>4, CodesAreAnswers, EndingKeeps DEF HubTurnsAway
<1>5. CASE AnswerReturns(n)
  <2>1. PICK a \in answered : a.id = Id(n) /\ AttemptEnds(n, a.answer)
    BY <1>5, Ids DEF AnswerReturns
  <2>2. a.answer \in Answer
    BY DEF OrdersInv, OrdersTypeOK
  <2>3. Grounded(n, a.answer)
    BY <2>1 DEF Grounded, AnsweredAs
  <2> QED BY <1>5, <2>1, <2>2, <2>3, EndingKeeps DEF AnswerReturns
<1> QED BY <1>1, <1>2, <1>3, <1>4, <1>5

-----------------------------------------------------------------------------
(* What does not change for the calls that Commerce Hub hears nothing new  *)
(* of.                                                                     *)
LEMMA HubSame ==
  ASSUME UNCHANGED hub, \A m \in Call : call[m].stage # "none" => call'[m].op = call[m].op,
         \A e \in effects : e.call \in Call /\ call[e.call].stage # "none"
  PROVE  \A m \in Call :
           /\ \A answers : AnsweredAs(m, answers)' <=> AnsweredAs(m, answers)
           /\ \A ops : Carried(m, ops) => Carried(m, ops)'
BY DEF hub, AnsweredAs, Carried

LEMMA EffectsOfSent ==
  ASSUME OrdersInv, NEW e \in effects
  PROVE  /\ e.call \in Call /\ call[e.call].stage \notin {"none", "received"}
         /\ AnsweredAs(e.call, Answer \ Refusal)
<1>1. e.call \in Call /\ e.id = Id(e.call)
  BY DEF OrdersInv, OrdersTypeOK, OneId
<1>2. PICK a \in answered : a.id = e.id /\ a.answer \notin Refusal
  BY DEF OrdersInv, OneAnswer
<1>3. a.answer \in Answer
  BY DEF OrdersInv, OrdersTypeOK
<1>4. AnsweredAs(e.call, Answer \ Refusal) /\ Sent(e.call)
  BY <1>1, <1>2, <1>3 DEF AnsweredAs, Sent
<1> QED BY <1>1, <1>4 DEF OrdersInv, Unsent

LEMMA PageCallsKeeps ==
  ASSUME OrdersInv, NEW op \in Operation, NEW order \in 1..MaxCalls, PageCalls(op, order)
  PROVE  OrdersInv'
<1> DEFINE n == started + 1
<1>1. n \in Call /\ started \in Nat /\ call[n].stage = "none"
  BY DEF PageCalls, OrdersInv, OrdersTypeOK, Numbered
<1>2. OrdersTypeOK'
  <2> DEFINE made == [op |-> op, order |-> order, stage |-> "received", attempts |-> 0,
                      answer |-> "none"]
  <2>1. made \in CallRecord
    BY DEF CallRecord
  <2>2. call' = [call EXCEPT ![n] = made] /\ started' = n /\ n \in 0..MaxCalls
    BY <1>1 DEF PageCalls
  <2>3. told' = [told EXCEPT ![n] = "waiting"] /\ UNCHANGED <<net, hub>>
    BY DEF PageCalls
  <2> HIDE DEF made, n
  <2>4. call' \in [Call -> CallRecord]
    BY <2>1, <2>2 DEF OrdersInv, OrdersTypeOK, CallRecord
  <2> QED BY <2>2, <2>3, <2>4 DEF OrdersInv, OrdersTypeOK, CallRecord, hub
<1>3. /\ \A m \in Call : m # n => call'[m] = call[m] /\ told'[m] = told[m]
      /\ call'[n].stage = "received" /\ call'[n].op = op /\ call'[n].attempts = 0
      /\ told'[n] = "waiting"
  BY <1>1 DEF PageCalls, OrdersInv, OrdersTypeOK
<1>4. Numbered'
  BY <1>1, <1>3 DEF PageCalls, OrdersInv, OrdersTypeOK, Numbered
<1>5. \A e \in effects : e.call \in Call /\ call[e.call].stage # "none"
  BY EffectsOfSent
<1>6. OneId' /\ OneEffectPerCall'
  BY DEF PageCalls, OrdersInv, OneId, OneEffectPerCall, hub
<1>7. OneAnswer'
  BY <1>1, <1>3, <1>5 DEF PageCalls, OrdersInv, OneAnswer, hub
<1>8. UNCHANGED <<net, hub>>
  BY DEF PageCalls
<1>9. \A m \in Call : /\ \A answers : AnsweredAs(m, answers)' <=> AnsweredAs(m, answers)
                      /\ \A ops : Carried(m, ops) => Carried(m, ops)'
                      /\ Sent(m)' <=> Sent(m)
  <2>1. \A m \in Call : call[m].stage # "none" => call'[m].op = call[m].op
    BY <1>1, <1>3
  <2>2. \A m \in Call : /\ \A answers : AnsweredAs(m, answers)' <=> AnsweredAs(m, answers)
                        /\ \A ops : Carried(m, ops) => Carried(m, ops)'
    BY <1>5, <1>8, <2>1, HubSame
  <2> QED BY <2>2, <1>8 DEF Sent
<1> HIDE DEF n
<1>10. AnswersMean' /\ Unsent'
  BY <1>1, <1>3, <1>9 DEF OrdersInv, AnswersMean, Unsent
<1>11. Answering'
  BY <1>3, <1>9 DEF OrdersInv, Answering, Grounded
<1>12. Told' /\ SuccessMeansDone'
  BY <1>3, <1>9 DEF OrdersInv, Told, SuccessMeansDone
<1> QED BY <1>2, <1>4, <1>6, <1>7, <1>10, <1>11, <1>12 DEF OrdersInv

LEMMA AttemptKeeps ==
  ASSUME OrdersInv, NEW n \in Call, Attempt(n)
  PROVE  OrdersInv'
<1>1. /\ call[n] \in CallRecord /\ call \in [Call -> CallRecord]
      /\ call[n].stage \in {"received", "backoff"} /\ call[n].attempts < MaxAttempts
  BY DEF Attempt, OrdersInv, OrdersTypeOK, Numbered, CallRecord
<1>2. net' = net \cup {[call |-> n, id |-> Id(n)]} /\ UNCHANGED <<started, told, hub>>
  BY Ids DEF Attempt
<1>3. /\ \A m \in Call : call'[m].op = call[m].op /\ (m # n => call'[m] = call[m])
      /\ call'[n].stage = "waiting"
  BY <1>1 DEF Attempt
<1>4. OrdersTypeOK'
  <2>1. call' \in [Call -> CallRecord]
    <3> DEFINE moved == [call EXCEPT ![n].stage = "waiting"]
    <3>1. moved \in [Call -> CallRecord] /\ moved[n].attempts + 1 \in 0..MaxAttempts
      BY <1>1 DEF CallRecord
    <3>2. call' = [moved EXCEPT ![n].attempts = moved[n].attempts + 1]
      BY <1>1 DEF Attempt
    <3> HIDE DEF moved
    <3> QED BY <3>1, <3>2 DEF CallRecord
  <2>2. [call |-> n, id |-> Id(n)] \in [call : Call, id : Call \X Nat]
    BY Ids
  <2> QED BY <1>2, <2>1, <2>2 DEF OrdersInv, OrdersTypeOK, CallRecord, hub
<1>5. Numbered'
  BY <1>2, <1>3, <1>1 DEF OrdersInv, Numbered
<1>6. OneId' /\ OneEffectPerCall'
  BY <1>2 DEF OrdersInv, OneId, OneEffectPerCall, hub
<1>7. OneAnswer'
  BY <1>2, <1>3 DEF OrdersInv, OrdersTypeOK, OneAnswer, hub
<1>8. \A m \in Call : /\ \A answers : AnsweredAs(m, answers)' <=> AnsweredAs(m, answers)
                      /\ m # n => (Sent(m)' => Sent(m))
                      /\ \A ops : Carried(m, ops) <=> Carried(m, ops)'
  BY <1>2, <1>3 DEF AnsweredAs, Sent, Carried, hub
<1>9. AnswersMean' /\ SuccessMeansDone'
  BY <1>2, <1>8 DEF OrdersInv, AnswersMean, SuccessMeansDone
<1>10. Unsent'
  BY <1>3, <1>8 DEF OrdersInv, Unsent
<1>11. Answering'
  <2>1. \A m \in Call \ {n} : \A answer : Grounded(m, answer) => Grounded(m, answer)'
    BY <1>8 DEF Grounded
  <2> QED BY <1>3, <2>1 DEF OrdersInv, Answering
<1>12. Told'
  BY <1>1, <1>2, <1>3, <1>8 DEF OrdersInv, Told
<1> QED BY <1>4, <1>5, <1>6, <1>7, <1>9, <1>10, <1>11, <1>12 DEF OrdersInv

-----------------------------------------------------------------------------
(* The translations on the way to the page invent nothing.                 *)
LEMMA ToPageTells ==
  ASSUME NEW op \in Operation, NEW answer \in Answer
  PROVE  LET t == ToPage(op, answer) IN
         /\ t \in {"session", "no_token", "authorized", "captured",
                   "pending_authorization", "declined", "cancelled", "failed",
                   "VALIDATION_ERROR", "NOT_FOUND", "AUTH_FAILED", "UNKNOWN",
                   "SERVER_ERROR"}
         /\ t = "authorized" => answer = "AUTHORIZED"
         /\ t = "captured" => answer = "CAPTURED"
         /\ t = "cancelled" => answer = "VOIDED"
         /\ t = "session" => answer = "SESSION"
         /\ t \in {"VALIDATION_ERROR", "NOT_FOUND", "declined"} => answer \in Refusal
BY DEF ToPage, PageError, MapStatus, Answer, ErrorCode, TransactionState, Retryable, Refusal

LEMMA PageHears ==
  ASSUME OrdersInv, NEW n \in Call, Respond(n) \/ PageLoses(n)
  PROVE  OrdersInv'
<1>1. call[n].answer \in Answer \cup {"none"} /\ call[n].op \in Operation \cup {"none"}
  BY DEF OrdersInv, OrdersTypeOK
<1>2. /\ UNCHANGED <<started, net, hub>>
      /\ \A m \in Call : /\ call'[m].op = call[m].op
                         /\ m # n => call'[m] = call[m] /\ told'[m] = told[m]
      /\ Respond(n) => call'[n].stage = "done"
      /\ PageLoses(n) => call' = call /\ told'[n] = "NETWORK_ERROR"
  BY DEF Respond, PageLoses, OrdersInv, OrdersTypeOK
<1>3. \A m \in Call : /\ \A answers : AnsweredAs(m, answers)' <=> AnsweredAs(m, answers)
                      /\ Sent(m)' <=> Sent(m)
                      /\ \A ops : Carried(m, ops) <=> Carried(m, ops)'
  BY <1>2 DEF AnsweredAs, Sent, Carried, hub
<1>4. OneId' /\ OneEffectPerCall'
  BY <1>2 DEF OrdersInv, OneId, OneEffectPerCall, hub
<1>5. OneAnswer'
  BY <1>2 DEF OrdersInv, OrdersTypeOK, OneAnswer, hub
<1>6. AnswersMean'
  BY <1>3 DEF OrdersInv, AnswersMean
<1>7. CASE PageLoses(n)
  <2>1. told' \in [Call -> {"nothing", "waiting", "session", "no_token", "authorized",
                            "captured", "pending_authorization", "declined",
                            "cancelled", "failed", "VALIDATION_ERROR", "NOT_FOUND",
                            "AUTH_FAILED", "UNKNOWN", "SERVER_ERROR", "NETWORK_ERROR"}]
    BY <1>7 DEF PageLoses, OrdersInv, OrdersTypeOK
  <2>2. OrdersTypeOK'
    BY <1>7, <1>2, <2>1 DEF OrdersInv, OrdersTypeOK, hub
  <2>3. Numbered' /\ Unsent'
    BY <1>7, <1>2, <1>3 DEF OrdersInv, Numbered, Unsent
  <2>4. Answering'
    BY <1>7, <1>2, <1>3 DEF OrdersInv, Answering, Grounded
  <2>5. Told' /\ SuccessMeansDone'
    BY <1>7, <1>2, <1>3 DEF OrdersInv, Told, SuccessMeansDone
  <2> QED BY <1>4, <1>5, <1>6, <2>2, <2>3, <2>4, <2>5 DEF OrdersInv
<1>8. CASE Respond(n)
  <2> DEFINE t == ToPage(call[n].op, call[n].answer)
  <2>1. /\ call[n].stage = "answering" /\ call[n].op \in Operation
        /\ call[n].answer \in Answer /\ Grounded(n, call[n].answer)
    BY <1>8, <1>1 DEF Respond, OrdersInv, OrdersTypeOK, Numbered, Answering
  <2>2. /\ t \in {"session", "no_token", "authorized", "captured",
                  "pending_authorization", "declined", "cancelled", "failed",
                  "VALIDATION_ERROR", "NOT_FOUND", "AUTH_FAILED", "UNKNOWN",
                  "SERVER_ERROR"}
        /\ t = "authorized" => call[n].answer = "AUTHORIZED"
        /\ t = "captured" => call[n].answer = "CAPTURED"
        /\ t = "cancelled" => call[n].answer = "VOIDED"
        /\ t = "session" => call[n].answer = "SESSION"
        /\ t \in {"VALIDATION_ERROR", "NOT_FOUND", "declined"} => call[n].answer \in Refusal
    BY <2>1, ToPageTells
  <2>3. told' = IF told[n] = "waiting" THEN [told EXCEPT ![n] = t] ELSE told
    BY <1>8 DEF Respond
  <2> HIDE DEF t
  <2>4. told' \in [Call -> {"nothing", "waiting", "session", "no_token", "authorized",
                            "captured", "pending_authorization", "declined",
                            "cancelled", "failed", "VALIDATION_ERROR", "NOT_FOUND",
                            "AUTH_FAILED", "UNKNOWN", "SERVER_ERROR", "NETWORK_ERROR"}]
    BY <2>2, <2>3 DEF OrdersInv, OrdersTypeOK
  <2>5. call' \in [Call -> CallRecord]
    <3> DEFINE stepOne == [call EXCEPT ![n].stage = "done"]
               stepTwo == [stepOne EXCEPT ![n].attempts = 0]
    <3>0. call \in [Call -> CallRecord]
      BY DEF OrdersInv, OrdersTypeOK, CallRecord
    <3>1. stepOne \in [Call -> CallRecord]
      BY <3>0 DEF CallRecord
    <3>2. call' = [stepTwo EXCEPT ![n].answer = "none"]
      BY <1>8 DEF Respond
    <3> HIDE DEF stepOne
    <3>3. stepTwo \in [Call -> CallRecord]
      BY <3>1 DEF CallRecord
    <3> HIDE DEF stepTwo
    <3> QED BY <3>2, <3>3 DEF CallRecord
  <2>6. OrdersTypeOK'
    BY <1>2, <2>4, <2>5 DEF OrdersInv, OrdersTypeOK, CallRecord, hub
  <2>7. Numbered' /\ Unsent'
    BY <1>8, <1>2, <1>3, <2>1 DEF OrdersInv, Numbered, Unsent
  <2>8. Answering'
    <3>1. \A m \in Call : \A answer : Grounded(m, answer) => Grounded(m, answer)'
      BY <1>3 DEF Grounded
    <3> QED BY <1>8, <1>2, <3>1 DEF OrdersInv, Answering
  <2>9. told[n] = "waiting" /\ t \in {"VALIDATION_ERROR", "NOT_FOUND", "declined"}
          => AnsweredAs(n, Refusal) \/ ~Sent(n)
    BY <2>1, <2>2 DEF Grounded, AnsweredAs
  <2>10. Told'
    BY <1>8, <1>2, <1>3, <2>3, <2>9 DEF OrdersInv, OrdersTypeOK, Told
  <2>11. /\ t = "authorized" => Carried(n, {"authorize"})
         /\ t = "captured" => Carried(n, {"sale", "capture"})
         /\ t = "cancelled" => Carried(n, {"void"})
         /\ t = "session" => Carried(n, {"session"})
    BY <2>1, <2>2 DEF Grounded, Refusal, OrdersInv, AnswersMean
  <2>12. SuccessMeansDone'
    BY <1>2, <1>3, <2>3, <2>11 DEF OrdersInv, OrdersTypeOK, SuccessMeansDone
  <2> QED BY <1>4, <1>5, <1>6, <2>6, <2>7, <2>8, <2>10, <2>12 DEF OrdersInv
<1> QED BY <1>7, <1>8

-----------------------------------------------------------------------------
(* What Commerce Hub carries out is what the page asked for, and its answer*)
(* says so.                                                                *)
LEMMA DecidesTells ==
  ASSUME NEW m, NEW op, NEW answer, Decides(m, op, answer)
  PROVE  /\ answer \in Answer \ Refusal
         /\ answer = "AUTHORIZED" => op = "authorize"
         /\ answer = "CAPTURED" => op \in {"sale", "capture"}
         /\ answer = "VOIDED" => op = "void"
         /\ answer = "SESSION" => op = "session"
BY DEF Decides, Answer, TransactionState, Refusal

LEMMA LedgerKept ==
  ASSUME OrdersTypeOK, NEW m, NEW op, NEW answer, Decides(m, op, answer)
  PROVE  ledger' \in [Call -> {"none", "holding", "held", "capturing", "captured",
                               "voided", "refunded"}]
<1>1. \/ ledger' = ledger
      \/ \E k : \E l \in {"none", "holding", "held", "capturing", "captured", "voided",
                         "refunded"} : ledger' = [ledger EXCEPT ![k] = l]
  BY Zenon DEF Decides
<1> QED BY <1>1 DEF OrdersTypeOK

(* The first answer to an id, with at most the effect it tells of.         *)
LEMMA AnswerKeeps ==
  ASSUME OrdersInv, NEW m \in net, NEW answer \in Answer,
         \A a \in answered : a.id # m.id,
         answered' = answered \cup {[id |-> m.id, answer |-> answer]},
         \/ answer \in Refusal /\ effects' = effects
         \/ /\ answer \notin Refusal
            /\ effects' = effects \cup {[call |-> m.call, id |-> m.id, op |-> call[m.call].op]}
            /\ answer = "AUTHORIZED" => call[m.call].op = "authorize"
            /\ answer = "CAPTURED" => call[m.call].op \in {"sale", "capture"}
            /\ answer = "VOIDED" => call[m.call].op = "void"
            /\ answer = "SESSION" => call[m.call].op = "session",
         net' = net \ {m}, UNCHANGED <<started, call, told>>,
         ledger' \in [Call -> {"none", "holding", "held", "capturing", "captured",
                               "voided", "refunded"}]
  PROVE  OrdersInv'
<1> DEFINE n == m.call
           new == [id |-> m.id, answer |-> answer]
<1>1. n \in Call /\ m.id = Id(n) /\ m.id \in Call \X Nat /\ Sent(n)
  BY DEF OrdersInv, OrdersTypeOK, OneId, Sent
<1>2. call[n].op \in Operation
  BY <1>1 DEF OrdersInv, OrdersTypeOK, Unsent, Numbered
<1>3. \A e \in effects : e.call # n
  BY <1>1, EffectsOfSent DEF AnsweredAs
<1>4. OrdersTypeOK'
  <2>1. new \in [id : Call \X Nat, answer : Answer]
    BY <1>1
  <2>2. effects' \subseteq [call : Call, id : Call \X Nat, op : Operation]
    BY <1>1, <1>2 DEF OrdersInv, OrdersTypeOK
  <2> QED BY <2>1, <2>2 DEF OrdersInv, OrdersTypeOK
<1>5. Numbered'
  BY DEF OrdersInv, Numbered
<1>6. OneId'
  BY <1>1 DEF OrdersInv, OneId
<1>7. OneEffectPerCall'
  BY <1>3 DEF OrdersInv, OneEffectPerCall
<1>8. OneAnswer'
  <2>1. \A a, b \in answered' : a.id = b.id => a = b
    BY DEF OrdersInv, OneAnswer
  <2>2. \A e \in effects : /\ \E a \in answered' : a.id = e.id /\ a.answer \notin Refusal
                           /\ e.op = call[e.call].op
    BY DEF OrdersInv, OneAnswer
  <2>3. \A e \in effects' \ effects :
          e.id = m.id /\ e.op = call[e.call].op /\ answer \notin Refusal
    OBVIOUS
  <2>4. new \in answered' /\ new.id = m.id /\ new.answer = answer
    OBVIOUS
  <2>5. call' = call
    OBVIOUS
  <2> HIDE DEF new
  <2>6. \A e \in effects' : /\ \E a \in answered' : a.id = e.id /\ a.answer \notin Refusal
                            /\ e.op = call[e.call].op
    BY <2>2, <2>3, <2>4
  <2> QED BY <2>1, <2>5, <2>6 DEF OneAnswer
<1>9. \A k \in Call \ {n} : /\ \A answers : AnsweredAs(k, answers)' <=> AnsweredAs(k, answers)
                            /\ Sent(k)' => Sent(k)
  <2>1. \A k \in Call \ {n} : \A answers : AnsweredAs(k, answers)' <=> AnsweredAs(k, answers)
    <3>1. \A k \in Call \ {n} : Id(k) # new.id
      BY <1>1, Ids
    <3>2. \A k \in Call : Id(k)' = Id(k)
      BY DEF Id, ClientRequestId
    <3>3. answered' = answered \cup {new}
      OBVIOUS
    <3> HIDE DEF new
    <3> QED BY <3>1, <3>2, <3>3 DEF AnsweredAs
  <2> QED BY <2>1 DEF Sent
<1>10. \A k \in Call : \A ops : Carried(k, ops) => Carried(k, ops)'
  BY DEF Carried
<1>11. \A answers : AnsweredAs(n, answers)' => answer \in answers
  BY <1>1 DEF AnsweredAs
<1>12. answer \notin Refusal =>
         \A ops : call[n].op \in ops => Carried(n, ops)'
  <2> SUFFICES ASSUME answer \notin Refusal
               PROVE  \A ops : call[n].op \in ops => Carried(n, ops)'
    OBVIOUS
  <2> DEFINE effect == [call |-> n, id |-> m.id, op |-> call[n].op]
  <2>1. effect \in effects' /\ effect.call = n /\ effect.op = call[n].op /\ call' = call
    OBVIOUS
  <2> HIDE DEF effect
  <2> QED BY <2>1 DEF Carried
<1> HIDE DEF n
<1>13. AnswersMean'
  BY <1>9, <1>10, <1>11, <1>12 DEF OrdersInv, AnswersMean, n, Refusal
<1>14. Unsent'
  BY <1>1, <1>9 DEF OrdersInv, Unsent
<1>15. ~AnsweredAs(n, Answer)
  BY <1>1 DEF AnsweredAs, n
<1>16. Answering'
  <2>1. \A k \in Call \ {n} : \A x : Grounded(k, x) => Grounded(k, x)'
    BY <1>9 DEF Grounded
  <2>2. \A x \in Answer : Grounded(n, x) => Grounded(n, x)'
    BY <1>1, <1>15 DEF Grounded, AnsweredAs
  <2>3. \A k \in Call : call[k].stage = "answering" => call[k].answer \in Answer
    BY DEF OrdersInv, OrdersTypeOK, Numbered
  <2> QED BY <2>1, <2>2, <2>3 DEF OrdersInv, Answering
<1>17. Told'
  <2>1. ~AnsweredAs(n, Refusal)
    BY <1>15 DEF AnsweredAs, OrdersInv, OrdersTypeOK
  <2> QED BY <1>1, <1>9, <2>1 DEF OrdersInv, Told
<1>18. SuccessMeansDone'
  BY <1>10 DEF OrdersInv, SuccessMeansDone
<1> QED BY <1>4, <1>5, <1>6, <1>7, <1>8, <1>13, <1>14, <1>16, <1>17, <1>18 DEF OrdersInv

LEMMA HubKeeps ==
  ASSUME OrdersInv, NEW m \in net, HubReceives(m)
  PROVE  OrdersInv'
<1>1. CASE \E a \in answered : a.id = m.id
  <2>1. net' \subseteq net /\ UNCHANGED <<started, call, told, answered, ledger, effects>>
    BY <1>1 DEF HubReceives, hub
  <2>2. OrdersTypeOK' /\ Numbered'
    BY <2>1 DEF OrdersInv, OrdersTypeOK, Numbered
  <2>3. OneId' /\ OneEffectPerCall' /\ OneAnswer'
    BY <2>1 DEF OrdersInv, OneId, OneEffectPerCall, OneAnswer
  <2>4. \A k \in Call : /\ \A answers : AnsweredAs(k, answers)' <=> AnsweredAs(k, answers)
                        /\ Sent(k)' => Sent(k)
                        /\ \A ops : Carried(k, ops) <=> Carried(k, ops)'
    BY <2>1 DEF AnsweredAs, Sent, Carried
  <2>5. AnswersMean' /\ SuccessMeansDone'
    BY <2>1, <2>4 DEF OrdersInv, AnswersMean, SuccessMeansDone
  <2>6. Unsent' /\ Told'
    BY <2>1, <2>4 DEF OrdersInv, Unsent, Told
  <2>7. Answering'
    BY <2>1, <2>4 DEF OrdersInv, Answering, Grounded
  <2> QED BY <2>2, <2>3, <2>5, <2>6, <2>7 DEF OrdersInv
<1>2. CASE (\A a \in answered : a.id # m.id) /\ HubRefuses(m)
  <2>1. PICK answer \in Refusal : answered' = answered \cup {[id |-> m.id, answer |-> answer]}
    BY <1>2 DEF HubRefuses, Refusal
  <2>2. answer \in Answer
    BY DEF Refusal, Answer, TransactionState, ErrorCode
  <2>3. ledger' \in [Call -> {"none", "holding", "held", "capturing", "captured",
                              "voided", "refunded"}]
    BY <1>2 DEF HubRefuses, OrdersInv, OrdersTypeOK
  <2> QED BY <1>2, <2>1, <2>2, <2>3, AnswerKeeps DEF HubReceives, HubRefuses
<1>3. ASSUME \A a \in answered : a.id # m.id, NEW answer \in Answer, HubCarriesOut(m, answer)
      PROVE  OrdersInv'
  <2>1. m.call \in Call /\ call[m.call].op \in Operation
    BY DEF OrdersInv, OrdersTypeOK, Unsent, Sent, Numbered
  <2>2. Reads(WireFields(call[m.call].op)) = call[m.call].op
    BY <2>1, WireTells
  <2>3. Decides(m, call[m.call].op, answer)
    BY <1>3, <2>2 DEF HubCarriesOut
  <2>4. effects' = effects \cup {[call |-> m.call, id |-> m.id, op |-> call[m.call].op]}
    BY <1>3, <2>2 DEF HubCarriesOut
  <2>5. answered' = answered \cup {[id |-> m.id, answer |-> answer]}
    BY <1>3 DEF HubCarriesOut
  <2>6. net' = net \ {m} /\ UNCHANGED <<started, call, told>>
    BY DEF HubReceives
  <2>7. OrdersTypeOK
    BY DEF OrdersInv
  <2>8. ledger' \in [Call -> {"none", "holding", "held", "capturing", "captured",
                              "voided", "refunded"}]
    BY <2>3, <2>7, LedgerKept
  <2> HIDE DEF Call
  <2> QED BY <1>3, <2>3, <2>4, <2>5, <2>6, <2>8, DecidesTells, AnswerKeeps
<1> QED BY <1>1, <1>2, <1>3 DEF HubReceives

LEMMA ProviderKeeps ==
  ASSUME OrdersInv, NEW n \in Call, ProviderDecides(n)
  PROVE  OrdersInv'
<1>1. UNCHANGED <<started, call, told, net, answered, effects>>
  BY DEF ProviderDecides
<1>2. OrdersTypeOK'
  BY <1>1 DEF ProviderDecides, OrdersInv, OrdersTypeOK
<1> QED BY <1>1, <1>2 DEF OrdersInv, Numbered, OneId, OneEffectPerCall, OneAnswer,
           AnswersMean, Unsent, Answering, Grounded, Told, SuccessMeansDone, AnsweredAs,
           Sent, Carried

-----------------------------------------------------------------------------
(* The inductive invariant.                                                *)
THEOREM OrdersInvariance == OrdersSpec => []OrdersInv
<1>1. OrdersInv /\ [OrdersNext]_ordersVars => OrdersInv'
  <2> SUFFICES ASSUME OrdersInv, [OrdersNext]_ordersVars PROVE OrdersInv'
    OBVIOUS
  <2>1. CASE OpensSession \/ \E op \in Operation : Opens(op)
    <3>1. started \in Nat
      BY DEF OrdersInv, OrdersTypeOK
    <3>2. PICK op \in Operation : PageCalls(op, started + 1)
      BY <2>1 DEF OpensSession, Opens, Operation
    <3>3. started + 1 \in 1..MaxCalls
      BY <3>1, <3>2 DEF PageCalls
    <3> QED BY <3>2, <3>3, PageCallsKeeps
  <2>2. ASSUME NEW op \in Operation, NEW order \in Call, Names(op, order)
        PROVE  OrdersInv'
    BY <2>2, PageCallsKeeps DEF Names
  <2>3. ASSUME NEW n \in Call, Server(n)
        PROVE  OrdersInv'
    BY <2>3, ServerKeeps, AttemptKeeps, PageHears DEF Server
  <2>4. ASSUME NEW n \in Call, PageLoses(n) \/ ProviderDecides(n)
        PROVE  OrdersInv'
    BY <2>4, PageHears, ProviderKeeps
  <2>5. ASSUME NEW m \in net, HubReceives(m)
        PROVE  OrdersInv'
    BY <2>5, HubKeeps
  <2>6. CASE UNCHANGED ordersVars
    BY <2>6 DEF ordersVars, hub, OrdersInv, OrdersTypeOK, Numbered, OneId,
                OneEffectPerCall, OneAnswer, AnswersMean, Unsent, Answering, Grounded,
                Told, SuccessMeansDone, AnsweredAs, Sent, Carried
  <2> QED BY <2>1, <2>2, <2>3, <2>4, <2>5, <2>6 DEF OrdersNext
<1> QED BY <1>1, OrdersStart, PTL DEF OrdersSpec

(* Types of the calls, of Commerce Hub and of what the page was told.      *)
THEOREM OrdersTypeCorrect == OrdersSpec => []OrdersTypeOK
<1>1. OrdersInv => OrdersTypeOK
  BY DEF OrdersInv
<1> QED BY <1>1, OrdersInvariance, PTL

(* A call is carried out once, for any number of attempts                  *)
(* (orders-client.ts submit, client.ts createSession).                     *)
THEOREM CarriedOutOnce == OrdersSpec => []OneEffectPerCall
<1>1. OrdersInv => OneEffectPerCall
  BY DEF OrdersInv
<1> QED BY <1>1, OrdersInvariance, PTL

LEMMA RefusedUntouched == OrdersInv => RefusalMeansUntouched
<1> SUFFICES ASSUME OrdersInv, NEW n \in Call,
                    told[n] \in {"VALIDATION_ERROR", "NOT_FOUND", "declined"},
                    NEW e \in effects, e.call = n
             PROVE  FALSE
  BY DEF RefusalMeansUntouched
<1>1. AnsweredAs(n, Answer \ Refusal)
  BY EffectsOfSent
<1>2. Sent(n)
  BY <1>1 DEF Sent, AnsweredAs
<1>3. AnsweredAs(n, Refusal)
  BY <1>2 DEF OrdersInv, Told
<1> QED BY <1>1, <1>3 DEF AnsweredAs, OrdersInv, OneAnswer

(* A page told of a refusal has moved no money, also not by an attempt     *)
(* whose answer was lost (session-client.ts, error-handler.ts).            *)
THEOREM RefusalIsFinal == OrdersSpec => []RefusalMeansUntouched
BY OrdersInvariance, RefusedUntouched, PTL

(* A page told of a success has had what it asked for (intent.ts,          *)
(* order-result-mapper.ts).                                                *)
THEOREM SuccessIsTrue == OrdersSpec => []SuccessMeansDone
<1>1. OrdersInv => SuccessMeansDone
  BY DEF OrdersInv
<1> QED BY <1>1, OrdersInvariance, PTL

-----------------------------------------------------------------------------
(* A number the page has not used says nothing yet.                        *)
Unused == \A n \in Call : n > started => call[n] = NoCall /\ told[n] = "nothing"

LEMMA UnusedStep == OrdersInv /\ Unused /\ [OrdersNext]_ordersVars => Unused'
<1> SUFFICES ASSUME OrdersInv, Unused, [OrdersNext]_ordersVars PROVE Unused'
  OBVIOUS
<1>1. started \in Nat
  BY DEF OrdersInv, OrdersTypeOK
<1>2. ASSUME NEW op, NEW order, PageCalls(op, order) PROVE Unused'
  <2>1. /\ started' = started + 1
        /\ \A n \in Call : n # started + 1 => call'[n] = call[n] /\ told'[n] = told[n]
    BY <1>2 DEF PageCalls, OrdersInv, OrdersTypeOK
  <2> QED BY <1>1, <2>1 DEF Unused
<1>3. ASSUME NEW n \in Call, Server(n) \/ PageLoses(n) PROVE Unused'
  <2>1. started' = started /\ n <= started
    BY <1>1, <1>3 DEF Server, PageLoses, Unused, NoCall, Incomplete, IncompleteSession,
       CircuitOpen, Attempt, DeadlineExceeded, ConnectionBreaks, AnswerReturns,
       HubTurnsAway, Respond
  <2>2. \A m \in Call : m # n => call'[m] = call[m] /\ told'[m] = told[m]
    BY <1>3 DEF Server, PageLoses, Incomplete, IncompleteSession, CircuitOpen, Attempt,
       DeadlineExceeded, ConnectionBreaks, AnswerReturns, HubTurnsAway, Respond,
       AttemptEnds, Moves, Comes, OrdersInv, OrdersTypeOK
  <2> QED BY <1>1, <2>1, <2>2 DEF Unused
<1>4. CASE UNCHANGED <<started, call, told>>
  BY <1>4 DEF Unused
<1>5. OrdersNext =>
        \/ \E op, order : PageCalls(op, order)
        \/ \E n \in Call : Server(n) \/ PageLoses(n)
        \/ UNCHANGED <<started, call, told>>
  BY Zenon DEF OrdersNext, OpensSession, Opens, Names, ProviderDecides, HubReceives
<1>6. UNCHANGED ordersVars => UNCHANGED <<started, call, told>>
  BY DEF ordersVars
<1> QED BY <1>2, <1>3, <1>4, <1>5, <1>6

-----------------------------------------------------------------------------
(* The refinement of OrderPromise: what a step does to the number it is    *)
(* about.                                                                  *)
SameEffects(n) == {e \in effects' : e.call = n} = {e \in effects : e.call = n}

LEMMA CarriedOutSame ==
  ASSUME NEW n \in Call, SameEffects(n), call'[n].op = call[n].op \/ CarriedOut(n) = "no"
  PROVE  CarriedOut(n)' = CarriedOut(n)
BY DEF SameEffects, CarriedOut

EffectsCounted ==
  \A n \in Call :
    /\ CarriedOut(n) = "no" <=> \A e \in effects : e.call # n
    /\ CarriedOut(n) = "as asked" <=> \E e \in effects : e.call = n

LEMMA CarriedOutIs == OrdersInv => EffectsCounted
<1> SUFFICES ASSUME OrdersInv, NEW n \in Call
             PROVE  /\ CarriedOut(n) = "no" <=> \A e \in effects : e.call # n
                    /\ CarriedOut(n) = "as asked" <=> \E e \in effects : e.call = n
  BY DEF EffectsCounted
<1>1. ASSUME NEW e \in effects, e.call = n
      PROVE  {f \in effects : f.call = n} = {e} /\ e.op = call[n].op
  BY <1>1 DEF OrdersInv, OneEffectPerCall, OneAnswer
<1> QED BY <1>1 DEF CarriedOut

(* What the server does to a call before it answers the page changes       *)
(* nothing the promise speaks of.                                          *)
LEMMA StepIsSilent ==
  ASSUME UNCHANGED <<told, effects>>, \A n \in Call : call'[n].op = call[n].op
  PROVE  UNCHANGED Promise!vars
<1>1. \A n \in Call : CarriedOut(n)' = CarriedOut(n)
  BY CarriedOutSame DEF SameEffects
<1> QED BY <1>1 DEF Promise!vars

(* What the page hears, and of what.                                       *)
LEMMA HearsOnce ==
  /\ \A t : Hears(t) = "nothing" <=> t \in {"nothing", "waiting"}
  /\ \A t : Hears(t) \in {"nothing", "refused", "unsure"} \cup DOMAIN Confirmed
  /\ \A t : Hears(t) \in DOMAIN Confirmed => t = Hears(t)
  /\ \A t : Hears(t) = "refused" <=> t \in {"VALIDATION_ERROR", "NOT_FOUND", "declined"}
BY DEF Hears, Confirmed

LEMMA CallIsAsked ==
  ASSUME OrdersInv, Unused, NEW op \in Operation, NEW order, PageCalls(op, order)
  PROVE  Promise!Next
<1>0. started + 1 \in Call /\ started \in Nat
  BY DEF PageCalls, OrdersInv, OrdersTypeOK
<1> SUFFICES ASSUME NEW n \in Call, n = started + 1
             PROVE  Promise!Next
  BY <1>0
<1>1. n > started
  BY <1>0
<1>2. call[n].op = "none" /\ told[n] = "nothing"
  BY <1>1 DEF Unused, NoCall
<1>3. /\ \A m \in Call : m # n => call'[m] = call[m] /\ told'[m] = told[m]
      /\ call'[n].op = op /\ told'[n] = "waiting" /\ effects' = effects
  BY <1>1 DEF PageCalls, hub, OrdersInv, OrdersTypeOK
<1>4. \A e \in effects : e.call # n
  <2>1. call[n].stage = "none"
    BY <1>1 DEF Unused, NoCall
  <2> QED BY <2>1, EffectsOfSent
<1>5. CarriedOut(n) = "no"
  BY <1>1, <1>4, CarriedOutIs DEF EffectsCounted
<1>6. \A m \in Call : CarriedOut(m)' = CarriedOut(m)
  BY <1>3, <1>5, CarriedOutSame DEF SameEffects
<1>7. \A m \in Call : Hears(told'[m]) = Hears(told[m])
  <2>1. Hears("nothing") = Hears("waiting")
    BY HearsOnce
  <2> QED BY <1>2, <1>3, <2>1
<1>8. Promise!Ask(n)
  <2>1. [m \in Call |-> call[m].op]' = [[m \in Call |-> call[m].op] EXCEPT ![n] = op]
    BY <1>3
  <2>2. /\ [m \in Call |-> CarriedOut(m)]' = [m \in Call |-> CarriedOut(m)]
        /\ [m \in Call |-> Hears(told[m])]' = [m \in Call |-> Hears(told[m])]
    BY <1>6, <1>7
  <2> QED BY <1>1, <1>2, <2>1, <2>2 DEF Promise!Ask
<1> QED BY <1>8 DEF Promise!Next

LEMMA PageIsTold ==
  ASSUME OrdersInv, OrdersInv', Unused, NEW n \in Call, Respond(n) \/ PageLoses(n)
  PROVE  [Promise!Next]_(Promise!vars)
<1>1. /\ \A m \in Call : call'[m].op = call[m].op /\ (m # n => told'[m] = told[m])
      /\ effects' = effects
  BY DEF Respond, PageLoses, hub, OrdersInv, OrdersTypeOK
<1>2. CASE told[n] # "waiting"
  <2>1. told' = told
    BY <1>2 DEF Respond, PageLoses
  <2> QED BY <1>1, <2>1, StepIsSilent
<1>3. CASE told[n] = "waiting"
  <2> DEFINE what == Hears(told'[n])
  <2>1. what # "nothing"
    <3>1. told'[n] \notin {"nothing", "waiting"}
      <4>1. CASE PageLoses(n)
        BY <4>1 DEF PageLoses, OrdersInv, OrdersTypeOK
      <4>2. CASE Respond(n)
        <5>1. call[n].answer \in Answer /\ call[n].op \in Operation
          BY <4>2 DEF Respond, OrdersInv, OrdersTypeOK, Numbered
        <5>2. told'[n] = ToPage(call[n].op, call[n].answer)
          BY <1>3, <4>2 DEF Respond, OrdersInv, OrdersTypeOK
        <5>3. ToPage(call[n].op, call[n].answer) \notin {"nothing", "waiting"}
          BY <5>1, ToPageTells
        <5> QED BY <5>2, <5>3
      <4> QED BY <4>1, <4>2
    <3> QED BY <3>1, HearsOnce
  <2>2. \A m \in Call : CarriedOut(m)' = CarriedOut(m)
    BY <1>1, CarriedOutSame DEF SameEffects
  <2>3. what = "refused" => CarriedOut(n) = "no"
    <3>1. RefusalMeansUntouched'
      BY RefusedUntouched, PTL
    <3>2. what = "refused" => \A e \in effects : e.call # n
      BY <1>1, <3>1, HearsOnce DEF RefusalMeansUntouched
    <3> QED BY <3>2, CarriedOutIs DEF EffectsCounted
  <2>4. what \in DOMAIN Confirmed =>
          CarriedOut(n) = "as asked" /\ call[n].op \in Confirmed[what]
    <3>1. SuccessMeansDone'
      BY DEF OrdersInv
    <3>2. what \in DOMAIN Confirmed => what = told'[n]
      BY HearsOnce
    <3>3. what \in DOMAIN Confirmed =>
            \E e \in effects' : e.call = n /\ e.op = call'[n].op /\ e.op \in Confirmed[what]
      BY <3>1, <3>2 DEF SuccessMeansDone, Carried, Confirmed
    <3> HIDE DEF what
    <3>4. what \in DOMAIN Confirmed =>
            (\E e \in effects : e.call = n) /\ call[n].op \in Confirmed[what]
      BY <1>1, <3>3
    <3> QED BY <3>4, CarriedOutIs DEF EffectsCounted
  <2>5. call[n].op # "none"
    <3>1. n <= started
      BY <1>3 DEF Unused, OrdersInv, OrdersTypeOK
    <3> QED BY <3>1 DEF OrdersInv, Numbered, Operation, Opening, Secondary
  <2>6. what \in {"unsure", "refused"} \cup DOMAIN Confirmed /\ Hears(told[n]) = "nothing"
    BY <1>3, <2>1, HearsOnce
  <2>7. [m \in Call |-> Hears(told[m])]'
          = [[m \in Call |-> Hears(told[m])] EXCEPT ![n] = what]
    BY <1>1
  <2>8. /\ [m \in Call |-> call[m].op]' = [m \in Call |-> call[m].op]
        /\ [m \in Call |-> CarriedOut(m)]' = [m \in Call |-> CarriedOut(m)]
    BY <1>1, <2>2
  <2> HIDE DEF what
  <2>9. Promise!Tell(n)
    BY <2>3, <2>4, <2>5, <2>6, <2>7, <2>8 DEF Promise!Tell
  <2> QED BY <2>9 DEF Promise!Next
<1> QED BY <1>2, <1>3

LEMMA HubIsHeard ==
  ASSUME OrdersInv, OrdersInv', NEW m \in net, HubReceives(m)
  PROVE  [Promise!Next]_(Promise!vars)
<1>1. UNCHANGED <<started, call, told>>
  BY DEF HubReceives
<1>2. CASE effects' = effects
  BY <1>1, <1>2, StepIsSilent
<1>3. CASE effects' # effects
  <2> DEFINE n == m.call
  <2>1. n \in Call /\ Sent(n) /\ call[n].op \in Operation
    <3>1. n \in Call /\ Sent(n)
      BY DEF OrdersInv, OrdersTypeOK, Sent
    <3> HIDE DEF n
    <3> QED BY <3>1 DEF OrdersInv, OrdersTypeOK, Unsent, Numbered
  <2>2. ~AnsweredAs(n, Answer)
    BY <1>3, Ids DEF HubReceives, hub, HubRefuses, AnsweredAs, OrdersInv, OneId
  <2>3. \A e \in effects : e.call # n
    BY <2>2, EffectsOfSent DEF AnsweredAs
  <2>4. PICK id, op : effects' = effects \cup {[call |-> n, id |-> id, op |-> op]}
    BY <1>3, Zenon DEF HubReceives, HubRefuses, HubCarriesOut, hub
  <2>5. /\ \E e \in effects' : e.call = n
        /\ \A k \in Call \ {n} : SameEffects(k)
    <3> DEFINE effect == [call |-> n, id |-> id, op |-> op]
    <3>1. effect.call = n /\ effects' = effects \cup {effect}
      BY <2>4
    <3> HIDE DEF effect
    <3> QED BY <3>1 DEF SameEffects
  <2>6. CarriedOut(n) = "no" /\ CarriedOut(n)' = "as asked"
    <3>1. EffectsCounted'
      BY CarriedOutIs, PTL
    <3> HIDE DEF n
    <3> QED BY <2>1, <2>3, <2>5, <3>1, CarriedOutIs DEF EffectsCounted
  <2>7. \A k \in Call \ {n} : CarriedOut(k)' = CarriedOut(k)
    BY <1>1, <2>5, CarriedOutSame
  <2>8. Hears(told[n]) # "refused"
    <3>1. ~AnsweredAs(n, Refusal)
      BY <2>2 DEF OrdersInv, OrdersTypeOK, AnsweredAs
    <3> HIDE DEF n
    <3> QED BY <2>1, <3>1, HearsOnce DEF OrdersInv, Told
  <2>9. [k \in Call |-> CarriedOut(k)]'
          = [[k \in Call |-> CarriedOut(k)] EXCEPT ![n] = "as asked"]
    BY <2>1, <2>6, <2>7
  <2>10. call[n].op # "none"
    BY <2>1 DEF Operation, Opening, Secondary
  <2> HIDE DEF n
  <2>11. Promise!CarryOut(n)
    BY <1>1, <2>1, <2>6, <2>8, <2>9, <2>10 DEF Promise!CarryOut
  <2> QED BY <2>1, <2>11 DEF Promise!Next
<1> QED BY <1>2, <1>3

(* The way of an order operation keeps its promise: each step of it is one *)
(* of OrderPromise, or none (session-client.ts, orders.ts, orders-client.ts*)
(* submit, client.ts createSession).                                       *)
THEOREM KeepsPromise == OrdersSpec => ImplementsOrderPromise
<1>1. OrdersInit => Promise!Init
  <2>1. OrdersInit => Unused /\ effects = {} /\ \A n \in Call : call[n].op = "none"
    BY DEF OrdersInit, Unused, NoCall
  <2>2. ASSUME OrdersInit, NEW n \in Call
        PROVE  call[n].op = "none" /\ CarriedOut(n) = "no" /\ Hears(told[n]) = "nothing"
    BY <2>1, <2>2, HearsOnce DEF OrdersInit, CarriedOut
  <2> QED BY <2>2 DEF Promise!Init
<1>2. OrdersInit => Unused
  BY DEF OrdersInit, Unused
<1>3. OrdersInv /\ OrdersInv' /\ Unused /\ [OrdersNext]_ordersVars
        => [Promise!Next]_(Promise!vars)
  <2> SUFFICES ASSUME OrdersInv, OrdersInv', Unused, [OrdersNext]_ordersVars
               PROVE  [Promise!Next]_(Promise!vars)
    OBVIOUS
  <2>1. ASSUME NEW op \in Operation, NEW order, PageCalls(op, order)
        PROVE  Promise!Next
    BY <2>1, CallIsAsked
  <2>2. ASSUME NEW n \in Call, Server(n) \/ PageLoses(n) \/ ProviderDecides(n)
        PROVE  [Promise!Next]_(Promise!vars)
    <3>1. CASE Respond(n) \/ PageLoses(n)
      BY <3>1, PageIsTold
    <3>2. CASE ~(Respond(n) \/ PageLoses(n))
      <4>1. /\ UNCHANGED <<told, effects>>
            /\ \A k \in Call : call'[k].op = call[k].op
        <5>1. \/ \E stage : Moves(n, stage)
              \/ \E answer : Comes(n, answer)
              \/ Attempt(n)
              \/ UNCHANGED call
          BY <2>2, <3>2, Zenon DEF Server, Incomplete, IncompleteSession, CircuitOpen,
             DeadlineExceeded, ConnectionBreaks, AnswerReturns, HubTurnsAway, AttemptEnds,
             ProviderDecides
        <5>2. call \in [Call -> CallRecord]
          BY DEF OrdersInv, OrdersTypeOK, CallRecord
        <5>3. \A k \in Call : call'[k].op = call[k].op
          <6> SUFFICES ASSUME NEW k \in Call PROVE call'[k].op = call[k].op
            OBVIOUS
          <6>0. call[k] \in CallRecord
            BY <5>2
          <6>1. ASSUME NEW stage, Moves(n, stage) PROVE call'[k].op = call[k].op
            BY <5>2, <6>0, <6>1 DEF Moves, CallRecord
          <6>2. ASSUME NEW answer, Comes(n, answer) PROVE call'[k].op = call[k].op
            BY <5>2, <6>0, <6>2 DEF Comes, CallRecord
          <6>3. CASE Attempt(n)
            BY <5>2, <6>0, <6>3 DEF Attempt, CallRecord
          <6> QED BY <5>1, <6>1, <6>2, <6>3
        <5>4. UNCHANGED <<told, effects>>
          BY <2>2, <3>2 DEF Server, Incomplete, IncompleteSession, CircuitOpen, Attempt,
             DeadlineExceeded, ConnectionBreaks, AnswerReturns, HubTurnsAway, hub,
             ProviderDecides
        <5> QED BY <5>3, <5>4
      <4> QED BY <4>1, StepIsSilent
    <3> QED BY <3>1, <3>2
  <2>3. ASSUME NEW m \in net, HubReceives(m) PROVE [Promise!Next]_(Promise!vars)
    BY <2>3, HubIsHeard
  <2>4. CASE UNCHANGED ordersVars
    BY <2>4, StepIsSilent DEF ordersVars, hub
  <2>5. OrdersNext =>
          \/ \E op \in Operation : \E order : PageCalls(op, order)
          \/ \E n \in Call : Server(n) \/ PageLoses(n) \/ ProviderDecides(n)
          \/ \E m \in net : HubReceives(m)
    <3>1. OpensSession => \E op \in Operation : \E order : PageCalls(op, order)
      BY DEF OpensSession, Operation
    <3>2. \A op \in Operation : Opens(op) \/ (\E order \in Call : Names(op, order))
            => \E o : PageCalls(op, o)
      BY Zenon DEF Opens, Names
    <3> QED BY <3>1, <3>2, Zenon DEF OrdersNext
  <2> QED BY <2>1, <2>2, <2>3, <2>4, <2>5
<1> QED BY <1>1, <1>2, <1>3, UnusedStep, OrdersInvariance, PTL
        DEF OrdersSpec, ImplementsOrderPromise, Promise!Spec

=============================================================================
