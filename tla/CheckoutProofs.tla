--------------------------- MODULE CheckoutProofs ---------------------------
(***************************************************************************)
(* The safety properties of CheckoutProperties for every choice of the     *)
(* constants, and the refinement of PaymentOutcome.                        *)
(*                                                                         *)
(* Inv is the conjunction of the properties with what they rest on: what   *)
(* is deferred, how the two events of a completion are counted, and which  *)
(* statement of the backend stands for an approval.                        *)
(***************************************************************************)
EXTENDS CheckoutProperties, TLAPS

Counts ==
  /\ initsRunning <= subs
  /\ timer => attempts <= MaxPolls

(* Only these events ever wait for a listener. *)
Deferrable ==
  \A e \in CheckoutEvent : deferred[e] > 0 =>
    e \in {"PAYMENT_METHOD_READY", "PAYMENT_PENDING", "PAYMENT_COMPLETED"}

(* While the page listens, every authorization heard has its completion    *)
(* heard or waiting.                                                       *)
CompletionFollows ==
  /\ bus => heard["PAYMENT_COMPLETED"] + deferred["PAYMENT_COMPLETED"]
              = heard["PAYMENT_AUTHORIZED"]
  /\ AuthorizedBeforeCompleted

(* Nothing that reports an approval exists before the approval.            *)
ApprovalBacked ==
  /\ reply = "authorized" => payment \in {"approved", "voided"}
  /\ "payment.succeeded" \in sent => payment \in {"approved", "voided"}
  /\ CompletedOnlyIfApproved

(* What concerns the events alone. *)
Announced ==
  /\ EventsMatchState
  /\ OncePerSubscription
  /\ Deferrable
  /\ CompletionFollows

Inv == TypeOK /\ Counts /\ Announced /\ ApprovalBacked

-----------------------------------------------------------------------------
(* The states anything asks the machine to enter. *)
Requested ==
  {"initializing", "ready", "authorizing", "pending",
   "completed", "failed", "cancelled"}

(* What a legal transition finds and leaves: its own events were announced *)
(* nowhere before, and everything announced before still may be.           *)
LEMMA TransitionEvents ==
  ASSUME NEW from, NEW to \in Requested, NEW redirect \in BOOLEAN,
         CanTransition(from, to)
  PROVE  /\ FirstEvent(to, redirect) \in CheckoutEvent
         /\ to \in AnnouncedIn(FirstEvent(to, redirect))
         /\ from \notin AnnouncedIn(FirstEvent(to, redirect))
         /\ FirstEvent(to, redirect) \notin LaterEvents(to, redirect)
         /\ FirstEvent(to, redirect) # "PAYMENT_COMPLETED"
         /\ \A e \in LaterEvents(to, redirect) :
              /\ to \in AnnouncedIn(e) /\ from \notin AnnouncedIn(e)
              /\ e \in {"PAYMENT_METHOD_READY", "PAYMENT_PENDING",
                        "PAYMENT_COMPLETED"}
         /\ \A e \in CheckoutEvent :
              from \in AnnouncedIn(e) => to \in AnnouncedIn(e)
         /\ FirstEvent(to, redirect) = "PAYMENT_AUTHORIZED"
              <=> "PAYMENT_COMPLETED" \in LaterEvents(to, redirect)
         /\ from \notin TerminalStates
<1> USE DEF CanTransition, LegalTransitions, Requested, CheckoutEvent,
        TerminalStates, AdapterState, FirstEvent, LaterEvents, AnnouncedIn
<1>1. CASE to = "initializing"  BY <1>1
<1>2. CASE to = "ready"         BY <1>2
<1>3. CASE to = "authorizing"   BY <1>3
<1>4. CASE to = "pending"
  <2>1. CASE redirect   BY <1>4, <2>1
  <2>2. CASE ~redirect  BY <1>4, <2>2
  <2> QED BY <2>1, <2>2
<1>5. CASE to = "completed"     BY <1>5
<1>6. CASE to = "failed"        BY <1>6
<1>7. CASE to = "cancelled"     BY <1>7
<1> QED BY <1>1, <1>2, <1>3, <1>4, <1>5, <1>6, <1>7

(* A step that leaves the machine alone, tears down or subscribes.         *)
LEMMA AnnouncedStays ==
  ASSUME TypeOK, Announced, UNCHANGED machine, bus' => bus,
         subs' \in Nat, subs <= subs'
  PROVE  Announced'
<1>t. /\ subs \in Nat
      /\ heard \in [CheckoutEvent -> Nat]
      /\ deferred \in [CheckoutEvent -> Nat]
  BY MaxInitsAssumption DEF TypeOK
<1>1. EventsMatchState' /\ Deferrable' /\ CompletionFollows'
  BY DEF machine, Announced, EventsMatchState, Deferrable, CompletionFollows,
         AuthorizedBeforeCompleted
<1>2. OncePerSubscription'
  BY <1>t DEF machine, Announced, OncePerSubscription
<1> QED BY <1>1, <1>2 DEF Announced

(* Whoever asks for a transition, for at most as many listeners as are     *)
(* subscribed, what is announced stays in order.                           *)
LEMMA TransitionKeeps ==
  ASSUME TypeOK, Announced, NEW to \in Requested, NEW redirect \in BOOLEAN,
         NEW n \in Nat, n <= subs', subs' \in Nat, subs <= subs', bus' = bus,
         Transition(to, redirect, n)
  PROVE  /\ state' \in AdapterState
         /\ heard' \in [CheckoutEvent -> Nat]
         /\ deferred' \in [CheckoutEvent -> Nat]
         /\ Announced'
         /\ state' = "completed" => state = "completed" \/ to = "completed"
<1> DEFINE first == FirstEvent(to, redirect)
           later == LaterEvents(to, redirect)
<1>t. /\ state \in AdapterState /\ subs \in Nat /\ bus \in BOOLEAN
      /\ heard \in [CheckoutEvent -> Nat]
      /\ deferred \in [CheckoutEvent -> Nat]
  BY MaxInitsAssumption DEF TypeOK
<1>c. /\ "PAYMENT_COMPLETED" \in CheckoutEvent
      /\ "PAYMENT_AUTHORIZED" \in CheckoutEvent
  BY DEF CheckoutEvent
<1>1. CASE ~CanTransition(state, to)
  <2>1. UNCHANGED machine
    BY <1>1 DEF Transition
  <2>2. Announced'
    BY <2>1, AnnouncedStays
  <2> QED BY <2>1, <2>2, <1>t DEF machine
<1>2. CASE CanTransition(state, to)
  <2>1. /\ state' = to
        /\ heard' = IF bus THEN [heard EXCEPT ![first] = @ + n] ELSE heard
        /\ deferred' = [e \in CheckoutEvent |->
                           IF e \in later THEN deferred[e] + n ELSE deferred[e]]
    BY <1>2 DEF Transition
  <2>2. /\ first \in CheckoutEvent
        /\ to \in AnnouncedIn(first) /\ state \notin AnnouncedIn(first)
        /\ first \notin later /\ first # "PAYMENT_COMPLETED"
        /\ \A e \in later :
             /\ to \in AnnouncedIn(e) /\ state \notin AnnouncedIn(e)
             /\ e \in {"PAYMENT_METHOD_READY", "PAYMENT_PENDING",
                       "PAYMENT_COMPLETED"}
        /\ \A e \in CheckoutEvent :
             state \in AnnouncedIn(e) => to \in AnnouncedIn(e)
        /\ first = "PAYMENT_AUTHORIZED" <=> "PAYMENT_COMPLETED" \in later
    BY <1>2, TransitionEvents
  <2> HIDE DEF first, later
  <2>3. /\ heard' \in [CheckoutEvent -> Nat]
        /\ deferred' \in [CheckoutEvent -> Nat]
    BY <2>1, <2>2, <1>t
  <2>4. \A e \in CheckoutEvent :
          /\ heard'[e] = IF bus /\ e = first THEN heard[e] + n ELSE heard[e]
          /\ deferred'[e] = IF e \in later THEN deferred[e] + n ELSE deferred[e]
    BY <2>1, <2>2, <1>t
  <2>5. \A e \in CheckoutEvent :
          e = first \/ e \in later => heard[e] = 0 /\ deferred[e] = 0
    BY <2>2, <1>t DEF Announced, EventsMatchState
  <2>6. EventsMatchState'
    BY <2>1, <2>2, <2>4, <2>5, <1>t DEF Announced, EventsMatchState
  <2>7. OncePerSubscription'
    BY <2>2, <2>4, <2>5, <1>t DEF Announced, OncePerSubscription
  <2>8. Deferrable'
    BY <2>2, <2>4, <1>t DEF Announced, Deferrable
  <2>9. CompletionFollows'
    BY <2>2, <2>4, <2>5, <1>t, <1>c
       DEF Announced, CompletionFollows, AuthorizedBeforeCompleted
  <2>10. state' \in AdapterState
    BY <2>1 DEF Requested, AdapterState
  <2> QED BY <2>1, <2>3, <2>6, <2>7, <2>8, <2>9, <2>10 DEF Announced
<1> QED BY <1>1, <1>2

(* An emission goes on to its next event. *)
LEMMA EmissionKeeps ==
  ASSUME Inv, NEW e \in CheckoutEvent, EmitDeferred(e)
  PROVE  /\ heard' \in [CheckoutEvent -> Nat]
         /\ deferred' \in [CheckoutEvent -> Nat]
         /\ Announced'
<1>t. /\ subs \in Nat /\ bus \in BOOLEAN
      /\ heard \in [CheckoutEvent -> Nat]
      /\ deferred \in [CheckoutEvent -> Nat]
  BY MaxInitsAssumption DEF Inv, TypeOK
<1>c. /\ "PAYMENT_COMPLETED" \in CheckoutEvent
      /\ "PAYMENT_AUTHORIZED" \in CheckoutEvent
  BY DEF CheckoutEvent
<1>1. /\ deferred[e] > 0
      /\ deferred' = [deferred EXCEPT ![e] = @ - 1]
      /\ heard' = IF bus THEN [heard EXCEPT ![e] = @ + 1] ELSE heard
      /\ state' = state /\ subs' = subs /\ bus' = bus
  BY DEF EmitDeferred
<1>2. /\ heard' \in [CheckoutEvent -> Nat]
      /\ deferred' \in [CheckoutEvent -> Nat]
  BY <1>1, <1>t
<1>3. \A f \in CheckoutEvent :
        /\ heard'[f] = IF bus /\ f = e THEN heard[f] + 1 ELSE heard[f]
        /\ deferred'[f] = IF f = e THEN deferred[f] - 1 ELSE deferred[f]
  BY <1>1, <1>t
<1>4. EventsMatchState'
  BY <1>1, <1>3, <1>t DEF Inv, Announced, EventsMatchState
<1>5. OncePerSubscription'
  BY <1>1, <1>3, <1>t DEF Inv, Announced, OncePerSubscription
<1>6. Deferrable'
  BY <1>1, <1>3, <1>t DEF Inv, Announced, Deferrable
<1>7. e # "PAYMENT_AUTHORIZED"
  BY <1>1 DEF Inv, Announced, Deferrable
<1>8. CompletionFollows'
  BY <1>1, <1>3, <1>7, <1>t, <1>c
     DEF Inv, Announced, CompletionFollows, AuthorizedBeforeCompleted
<1> QED BY <1>2, <1>4, <1>5, <1>6, <1>8 DEF Announced

-----------------------------------------------------------------------------
(* A new handle satisfies Inv. *)
LEMMA InitInv == Init => Inv
<1> SUFFICES ASSUME Init PROVE Inv
  OBVIOUS
<1> USE MaxInitsAssumption, MaxPollsAssumption DEF Init, BaseInit
<1>1. TypeOK
  <2>1. /\ subs \in 0..MaxInits /\ initsRunning \in 0..MaxInits
        /\ attempts \in 0..(MaxPolls + 1) /\ polls \in Nat
        /\ heard \in [CheckoutEvent -> Nat]
        /\ deferred \in [CheckoutEvent -> Nat]
        /\ state \in AdapterState
    BY DEF AdapterState
  <2>2. bus \in BOOLEAN /\ timer \in BOOLEAN
    BY Zenon
  <2> QED BY <2>1, <2>2 DEF TypeOK
<1>2. Counts /\ ApprovalBacked
  BY DEF Counts, ApprovalBacked, CompletedOnlyIfApproved
<1>3. Announced
  BY DEF Announced, EventsMatchState, OncePerSubscription, Deferrable,
         CompletionFollows, AuthorizedBeforeCompleted, CheckoutEvent
<1> QED BY <1>1, <1>2, <1>3 DEF Inv

(* An exception on the way fails the payment or finds it already settled.  *)
LEMMA FailKeeps ==
  ASSUME Inv, Fail, UNCHANGED <<subs, bus>>
  PROVE  /\ state' \in AdapterState
         /\ heard' \in [CheckoutEvent -> Nat]
         /\ deferred' \in [CheckoutEvent -> Nat]
         /\ Announced'
         /\ state' = "completed" => state = "completed"
<1>1. TypeOK /\ Announced /\ subs' \in Nat /\ subs <= subs' /\ subs \in Nat
  BY MaxInitsAssumption DEF Inv, TypeOK
<1>2. CASE Transition("failed", FALSE, subs)
  BY <1>1, <1>2, TransitionKeeps DEF Requested
<1>3. CASE UNCHANGED machine
  BY <1>1, <1>3, AnnouncedStays DEF machine, TypeOK
<1> QED BY <1>2, <1>3 DEF Fail

(* The calls and returns of init() and authorize(), and the emissions that  *)
(* follow them, keep Inv.                                                  *)
LEMMA LifecycleInv ==
  ASSUME Inv, UNCHANGED <<polling, voidCall>>,
         \/ InitCall \/ \E loaded \in BOOLEAN : InitReturns(loaded)
         \/ AuthorizeCall \/ AuthorizeThrows
  PROVE  Inv'
<1> USE MaxInitsAssumption, MaxPollsAssumption
<1>t. TypeOK /\ Announced /\ subs \in Nat /\ subs <= subs /\ bus = bus
  BY DEF Inv, TypeOK
<1>1. CASE InitCall
  <2>1. /\ state' \in AdapterState
        /\ heard' \in [CheckoutEvent -> Nat]
        /\ deferred' \in [CheckoutEvent -> Nat]
        /\ Announced'
        /\ state' = "completed" => state = "completed"
    <3> DEFINE n == subs + 1
    <3>1. subs' = n /\ bus' = bus /\ Transition("initializing", FALSE, n)
      BY <1>1, Zenon DEF InitCall
    <3>2. n \in Nat /\ n <= subs' /\ subs' \in Nat /\ subs <= subs'
      BY <3>1, <1>t
    <3> HIDE DEF n
    <3> QED BY <1>t, <3>1, <3>2, TransitionKeeps DEF Requested
  <2>2. TypeOK' /\ Counts'
    BY <1>1, <2>1 DEF Inv, TypeOK, Counts, InitCall, provider, polling
  <2>3. ApprovalBacked'
    BY <1>1, <2>1 DEF Inv, ApprovalBacked, CompletedOnlyIfApproved, InitCall, provider
  <2> QED BY <2>1, <2>2, <2>3 DEF Inv
<1>2. ASSUME NEW loaded \in BOOLEAN, InitReturns(loaded) PROVE Inv'
  <2>1. /\ state' \in AdapterState
        /\ heard' \in [CheckoutEvent -> Nat]
        /\ deferred' \in [CheckoutEvent -> Nat]
        /\ Announced'
        /\ state' = "completed" => state = "completed"
    <3>1. subs' = subs /\ bus' = bus
      BY <1>2 DEF InitReturns
    <3>2. CASE Transition("ready", FALSE, subs)
      BY <1>t, <3>1, <3>2, TransitionKeeps DEF Requested
    <3>3. CASE Fail
      BY <3>1, <3>3, FailKeeps
    <3> QED BY <1>2, <3>2, <3>3 DEF InitReturns
  <2>2. sse' \in {"off", "open", "closed"}
    BY <1>2, <1>t DEF InitReturns, TypeOK
  <2>3. TypeOK' /\ Counts'
    BY <1>2, <2>1, <2>2 DEF Inv, TypeOK, Counts, InitReturns, provider, polling
  <2>4. ApprovalBacked'
    BY <1>2, <2>1 DEF Inv, ApprovalBacked, CompletedOnlyIfApproved, InitReturns, provider
  <2> QED BY <2>1, <2>3, <2>4 DEF Inv
<1>3. CASE AuthorizeCall
  <2>1. /\ state' \in AdapterState
        /\ heard' \in [CheckoutEvent -> Nat]
        /\ deferred' \in [CheckoutEvent -> Nat]
        /\ Announced'
        /\ state' = "completed" => state = "completed"
    <3>1. subs' = subs /\ bus' = bus /\ Transition("authorizing", FALSE, subs)
      BY <1>3 DEF AuthorizeCall
    <3> QED BY <1>t, <3>1, TransitionKeeps DEF Requested
  <2>2. TypeOK' /\ Counts'
    BY <1>3, <2>1 DEF Inv, TypeOK, Counts, AuthorizeCall, provider, polling
  <2>3. ApprovalBacked'
    BY <1>3, <2>1 DEF Inv, ApprovalBacked, CompletedOnlyIfApproved, AuthorizeCall, provider
  <2> QED BY <2>1, <2>2, <2>3 DEF Inv
<1>4. CASE AuthorizeThrows
  <2>1. /\ state' \in AdapterState
        /\ heard' \in [CheckoutEvent -> Nat]
        /\ deferred' \in [CheckoutEvent -> Nat]
        /\ Announced'
        /\ state' = "completed" => state = "completed"
    BY <1>4, FailKeeps DEF AuthorizeThrows
  <2>2. TypeOK' /\ Counts'
    BY <1>4, <2>1 DEF Inv, TypeOK, Counts, AuthorizeThrows, provider, polling
  <2>3. ApprovalBacked'
    BY <1>4, <2>1 DEF Inv, ApprovalBacked, CompletedOnlyIfApproved, AuthorizeThrows, provider
  <2> QED BY <2>1, <2>2, <2>3 DEF Inv
<1> QED BY <1>1, <1>2, <1>3, <1>4

(* Only an approval completes: the three answers that can.                 *)
LEMMA AnswerInv ==
  ASSUME Inv,
         \/ \E redirect \in BOOLEAN : AuthorizeResolves(redirect)
         \/ /\ \E kind \in sent : OnWebhookEnvelope(kind)
            /\ UNCHANGED <<polling, voidCall>>
         \/ PollConclusive
  PROVE  Inv'
<1> USE MaxInitsAssumption, MaxPollsAssumption
<1>t. TypeOK /\ Announced /\ subs \in Nat /\ subs <= subs
  BY DEF Inv, TypeOK
<1>1. ASSUME NEW redirect \in BOOLEAN, AuthorizeResolves(redirect) PROVE Inv'
  <2>1. /\ Transition(Target(reply), redirect, subs)
        /\ reply # "none" /\ UNCHANGED <<subs, bus>>
    BY <1>1 DEF AuthorizeResolves, AuthorizeReturns
  <2>2. /\ Target(reply) \in Requested
        /\ Target(reply) = "completed" => reply = "authorized"
    BY <2>1, <1>t DEF Target, Requested, TypeOK
  <2>3. /\ state' \in AdapterState
        /\ heard' \in [CheckoutEvent -> Nat]
        /\ deferred' \in [CheckoutEvent -> Nat]
        /\ Announced'
        /\ state' = "completed" => state = "completed" \/ reply = "authorized"
    <3> DEFINE to == Target(reply)
    <3>1. to \in Requested /\ Transition(to, redirect, subs)
      BY <2>1, <2>2
    <3>2. to = "completed" => reply = "authorized"
      BY <2>2
    <3> HIDE DEF to
    <3> QED BY <1>t, <2>1, <3>1, <3>2, TransitionKeeps
  <2>4. /\ timer' \in BOOLEAN /\ attempts' \in 0..(MaxPolls + 1)
        /\ timer' => attempts' <= MaxPolls
    <3>1. timer \in BOOLEAN /\ attempts \in 0..(MaxPolls + 1)
      BY <1>t DEF TypeOK
    <3>2. timer => attempts <= MaxPolls
      BY DEF Inv, Counts
    <3>3. CASE timer' = TRUE /\ attempts' = 0
      BY <3>3
    <3>4. CASE timer' = timer /\ attempts' = attempts
      BY <3>1, <3>2, <3>4
    <3> QED BY <1>1, <3>3, <3>4, Zenon DEF AuthorizeResolves
  <2>5. TypeOK' /\ Counts'
    BY <1>1, <2>3, <2>4
       DEF Inv, TypeOK, Counts, AuthorizeResolves, AuthorizeReturns, provider
  <2>6. ApprovalBacked'
    BY <1>1, <2>3 DEF Inv, ApprovalBacked, CompletedOnlyIfApproved,
                      AuthorizeResolves, AuthorizeReturns, provider
  <2> QED BY <2>3, <2>5, <2>6 DEF Inv
<1>2. ASSUME NEW kind \in sent, OnWebhookEnvelope(kind),
             UNCHANGED <<polling, voidCall>>
      PROVE  Inv'
  <2>1. /\ UNCHANGED <<subs, bus>>
        /\ Transition(Verdict(kind), FALSE, subs) \/ UNCHANGED machine
    BY <1>2 DEF OnWebhookEnvelope
  <2>2. /\ Verdict(kind) \in Requested
        /\ Verdict(kind) = "completed" => kind = "payment.succeeded"
    BY <1>2, <1>t DEF Verdict, Requested, TypeOK
  <2>3. /\ state' \in AdapterState
        /\ heard' \in [CheckoutEvent -> Nat]
        /\ deferred' \in [CheckoutEvent -> Nat]
        /\ Announced'
        /\ state' = "completed" => state = "completed" \/ kind = "payment.succeeded"
    <3>1. CASE Transition(Verdict(kind), FALSE, subs)
      BY <1>t, <2>1, <2>2, <3>1, TransitionKeeps
    <3>2. CASE UNCHANGED machine
      BY <1>t, <2>1, <3>2, AnnouncedStays DEF machine, TypeOK
    <3> QED BY <2>1, <3>1, <3>2
  <2>4. TypeOK' /\ Counts'
    BY <1>2, <2>3
       DEF Inv, TypeOK, Counts, OnWebhookEnvelope, provider, polling
  <2>5. ApprovalBacked'
    BY <1>2, <2>3 DEF Inv, ApprovalBacked, CompletedOnlyIfApproved,
                      OnWebhookEnvelope, provider
  <2> QED BY <2>3, <2>4, <2>5 DEF Inv
<1>3. CASE PollConclusive
  <2>1. /\ UNCHANGED <<subs, bus>>
        /\ \/ \E status \in PolledStatus : Transition(Target(status), FALSE, subs)
           \/ UNCHANGED machine
    BY <1>3 DEF PollConclusive
  <2>2. ASSUME NEW status \in PolledStatus
        PROVE  /\ Target(status) \in Requested
               /\ Target(status) = "completed" => payment = "approved"
    BY <2>2 DEF PolledStatus, Target, StatusFor, Requested, Decision
  <2>3. /\ state' \in AdapterState
        /\ heard' \in [CheckoutEvent -> Nat]
        /\ deferred' \in [CheckoutEvent -> Nat]
        /\ Announced'
        /\ state' = "completed" => state = "completed" \/ payment = "approved"
    <3>1. ASSUME NEW status \in PolledStatus,
                 Transition(Target(status), FALSE, subs)
          PROVE  <2>3
      BY <1>t, <2>1, <2>2, <3>1, TransitionKeeps
    <3>2. CASE UNCHANGED machine
      BY <1>t, <2>1, <3>2, AnnouncedStays DEF machine, TypeOK
    <3> QED BY <2>1, <3>1, <3>2
  <2>4. ~timer' /\ timer' \in BOOLEAN
    BY <1>3, Zenon DEF PollConclusive
  <2>6. TypeOK' /\ Counts'
    BY <1>3, <2>3, <2>4 DEF Inv, TypeOK, Counts, PollConclusive, provider
  <2>5. ApprovalBacked'
    BY <1>3, <2>3 DEF Inv, ApprovalBacked, CompletedOnlyIfApproved,
                      PollConclusive, provider
  <2> QED BY <2>3, <2>5, <2>6 DEF Inv
<1> QED BY <1>1, <1>2, <1>3

(* An approval is reported only with the payment it reports, and a payment *)
(* that was approved stays so or is voided.                                *)
LEMMA ProviderInv ==
  ASSUME Inv,
         \/ /\ \/ OrderOpened
               \/ \E decision \in Decision : \E kind \in WebhooksFor(decision) :
                     OrderDecided(decision, kind) \/ ProviderDecides(decision, kind)
            /\ UNCHANGED <<polling, voidCall>>
         \/ VoidReaches
  PROVE  Inv'
<1> USE MaxInitsAssumption, MaxPollsAssumption
<1>t. TypeOK /\ Announced /\ subs \in Nat /\ subs <= subs
  BY DEF Inv, TypeOK
<1>1. CASE OrderOpened /\ UNCHANGED <<polling, voidCall>>
  <2>1. Announced'
    BY <1>1, <1>t, AnnouncedStays DEF OrderOpened
  <2>2. TypeOK' /\ Counts'
    BY <1>1 DEF Inv, TypeOK, Counts, OrderOpened, machine, polling, Decision
  <2>3. ApprovalBacked'
    BY <1>1, <1>t DEF Inv, ApprovalBacked, CompletedOnlyIfApproved, OrderOpened,
                      machine
  <2> QED BY <2>1, <2>2, <2>3 DEF Inv
<1>2. ASSUME NEW decision \in Decision, NEW kind \in WebhooksFor(decision),
             OrderDecided(decision, kind) \/ ProviderDecides(decision, kind),
             UNCHANGED <<polling, voidCall>>
      PROVE  Inv'
  <2>1. Announced'
    BY <1>2, <1>t, AnnouncedStays DEF OrderDecided, ProviderDecides
  <2>2. /\ StatusFor(decision) \in {"authorized", "declined", "cancelled"}
        /\ StatusFor(decision) = "authorized" => decision = "approved"
    BY DEF StatusFor, Decision
  <2>3. /\ kind \in {"payment.succeeded", "payment.failed",
                     "payment.cancelled", "payment.expired"}
        /\ kind = "payment.succeeded" => decision = "approved"
    BY DEF WebhooksFor, Decision
  <2>4. /\ payment' = decision /\ sent' = sent \cup {kind}
        /\ reply' \in {reply, StatusFor(decision)}
        /\ payment \in {"none", "open"}
    BY <1>2, <1>t DEF OrderDecided, ProviderDecides, TypeOK
  <2>5. reply' = reply \/ reply' = StatusFor(decision)
    BY <2>4
  <2>6. TypeOK' /\ Counts'
    BY <1>2, <2>2, <2>3, <2>4
       DEF Inv, TypeOK, Counts, OrderDecided, ProviderDecides, machine, polling
  <2>7. ApprovalBacked'
    BY <1>2, <2>2, <2>3, <2>4, <2>5
       DEF Inv, ApprovalBacked, CompletedOnlyIfApproved, OrderDecided,
           ProviderDecides, machine
  <2> QED BY <2>1, <2>6, <2>7 DEF Inv
<1>3. CASE VoidReaches
  <2>1. Announced'
    BY <1>3, <1>t, AnnouncedStays DEF VoidReaches
  <2>2. TypeOK' /\ Counts'
    BY <1>3 DEF Inv, TypeOK, Counts, VoidReaches, machine, polling
  <2>3. ApprovalBacked'
    BY <1>3, <1>t DEF Inv, ApprovalBacked, CompletedOnlyIfApproved, VoidReaches,
                      machine
  <2> QED BY <2>1, <2>2, <2>3 DEF Inv
<1> QED BY <1>1, <1>2, <1>3

(* Polling, void() and destroy() touch the machine through transitions to  *)
(* other outcomes only.                                                    *)
LEMMA HandleInv ==
  ASSUME Inv,
         \/ /\ \E e \in CheckoutEvent : EmitDeferred(e)
            /\ UNCHANGED <<polling, voidCall>>
         \/ PollTick \/ PollInconclusive \/ VoidCall \/ VoidReturns \/ Teardown
  PROVE  Inv'
<1> USE MaxInitsAssumption, MaxPollsAssumption
<1>t. TypeOK /\ Announced /\ subs \in Nat /\ subs <= subs
  BY DEF Inv, TypeOK
<1>1. ASSUME NEW e \in CheckoutEvent, EmitDeferred(e), UNCHANGED <<polling, voidCall>>
      PROVE  Inv'
  <2>1. /\ heard' \in [CheckoutEvent -> Nat]
        /\ deferred' \in [CheckoutEvent -> Nat]
        /\ Announced'
    BY <1>1, EmissionKeeps
  <2>2. TypeOK' /\ Counts'
    BY <1>1, <2>1 DEF Inv, TypeOK, Counts, EmitDeferred, polling, provider
  <2>3. ApprovalBacked'
    BY <1>1 DEF Inv, ApprovalBacked, CompletedOnlyIfApproved, EmitDeferred,
                provider
  <2> QED BY <2>1, <2>2, <2>3 DEF Inv
<1>2. CASE PollTick
  <2>1. UNCHANGED <<pattern, machine, subs, initsRunning, auth, reply, payment,
                    sent, sse, bus, voidCall>>
    BY <1>2 DEF PollTick, baseVars, provider
  <2>2. Announced' /\ ApprovalBacked'
    BY <2>1, <1>t, AnnouncedStays
       DEF Inv, ApprovalBacked, CompletedOnlyIfApproved, machine
  <2>3. /\ timer' \in BOOLEAN /\ attempts' \in 0..(MaxPolls + 1)
        /\ polls' \in Nat
        /\ timer' => attempts' <= MaxPolls
    <3>1. /\ timer /\ attempts' = attempts + 1
          /\ attempts \in 0..MaxPolls /\ polls \in Nat
      BY <1>2 DEF PollTick, Inv, TypeOK, Counts
    <3>2. CASE /\ attempts + 1 > MaxPolls /\ timer' = FALSE /\ polls' = polls
      <4>1. ~timer' /\ timer' \in BOOLEAN
        BY <3>2, Zenon
      <4> QED BY <3>1, <3>2, <4>1
    <3>3. CASE /\ ~(attempts + 1 > MaxPolls) /\ polls' = polls + 1
               /\ timer' = timer
      BY <3>1, <3>3
    <3> QED BY <1>2, <3>2, <3>3, Zenon DEF PollTick
  <2>4. TypeOK'
    BY <2>1, <2>3 DEF Inv, TypeOK, machine
  <2>5. Counts'
    BY <2>1, <2>3 DEF Inv, Counts
  <2> QED BY <2>2, <2>4, <2>5 DEF Inv
<1>3. CASE PollInconclusive \/ VoidCall
  <2>1. UNCHANGED <<baseVars, timer, attempts>>
    BY <1>3 DEF PollInconclusive, VoidCall, polling
  <2>2. Announced' /\ ApprovalBacked'
    BY <2>1, <1>t, AnnouncedStays
       DEF baseVars, Inv, ApprovalBacked, CompletedOnlyIfApproved, provider, machine
  <2>3. TypeOK' /\ Counts'
    BY <1>3, <2>1 DEF Inv, TypeOK, Counts, PollInconclusive, VoidCall, baseVars,
                      provider, machine, polling
  <2> QED BY <2>2, <2>3 DEF Inv
<1>4. CASE VoidReturns
  <2>1. /\ state' \in AdapterState
        /\ heard' \in [CheckoutEvent -> Nat]
        /\ deferred' \in [CheckoutEvent -> Nat]
        /\ Announced'
        /\ state' = "completed" => state = "completed"
    <3>1. /\ subs' = subs /\ bus' = bus /\ Transition("cancelled", FALSE, subs)
      BY <1>4 DEF VoidReturns
    <3> QED BY <1>t, <3>1, TransitionKeeps DEF Requested
  <2>2. TypeOK' /\ Counts'
    BY <1>4, <2>1 DEF Inv, TypeOK, Counts, VoidReturns, provider, polling
  <2>3. ApprovalBacked'
    BY <1>4, <2>1 DEF Inv, ApprovalBacked, CompletedOnlyIfApproved, VoidReturns,
                      provider
  <2> QED BY <2>1, <2>2, <2>3 DEF Inv
<1>5. CASE Teardown
  <2>1. UNCHANGED <<machine, subs>> /\ bus' = (bus /\ subs = 0) /\ timer' = FALSE
    BY <1>5, Zenon DEF Teardown, Destroy
  <2>2. Announced'
    BY <2>1, <1>t, AnnouncedStays
  <2>3. bus' \in BOOLEAN /\ timer' \in BOOLEAN /\ ~timer'
    BY <2>1, Zenon
  <2>4. TypeOK' /\ Counts'
    BY <1>5, <2>3 DEF Inv, TypeOK, Counts, Teardown, Destroy, provider, machine
  <2>5. ApprovalBacked'
    BY <1>5 DEF Inv, ApprovalBacked, CompletedOnlyIfApproved, Teardown, Destroy,
                provider, machine
  <2> QED BY <2>2, <2>4, <2>5 DEF Inv
<1> QED BY <1>1, <1>2, <1>3, <1>4, <1>5

(* Inv is inductive. *)
LEMMA StepInv == Inv /\ [Next]_vars => Inv'
<1> SUFFICES ASSUME Inv, [Next]_vars PROVE Inv'
  OBVIOUS
<1>1. CASE Base
  BY <1>1, LifecycleInv, AnswerInv, ProviderInv, HandleInv DEF Base, BaseStep
<1>2. CASE \E redirect \in BOOLEAN : AuthorizeResolves(redirect)
  BY <1>2, AnswerInv
<1>3. CASE PollTick \/ PollInconclusive \/ VoidCall \/ VoidReturns \/ Teardown
  BY <1>3, HandleInv
<1>4. CASE PollConclusive
  BY <1>4, AnswerInv
<1>5. CASE VoidReaches
  BY <1>5, ProviderInv
<1>6. CASE UNCHANGED vars
  <2>1. UNCHANGED <<pattern, machine, subs, initsRunning, auth, reply, payment,
                    sent, sse, bus, timer, attempts, polls, voidCall>>
    BY <1>6 DEF vars, baseVars, provider, polling
  <2>2. Announced'
    <3>1. TypeOK /\ Announced /\ subs' \in Nat /\ subs <= subs'
      BY <2>1, MaxInitsAssumption DEF Inv, TypeOK
    <3> QED BY <2>1, <3>1, AnnouncedStays
  <2>3. TypeOK' /\ Counts' /\ ApprovalBacked'
    BY <2>1 DEF Inv, TypeOK, Counts, ApprovalBacked, CompletedOnlyIfApproved, machine
  <2> QED BY <2>2, <2>3 DEF Inv
<1> QED BY <1>1, <1>2, <1>3, <1>4, <1>5, <1>6 DEF Next

(* Inv is inductive, for any adapter families, any number of init() calls  *)
(* and any cap on the polls.                                               *)
THEOREM Invariance == Spec => []Inv
<1> QED BY InitInv, StepInv, PTL DEF Spec

(* Every variable keeps its type (core/adapter-state-machine.ts only ever  *)
(* stores a state of its table, base-adapter.ts).                          *)
THEOREM TypeCorrect == Spec => []TypeOK
<1>1. Inv => TypeOK
  BY DEF Inv
<1> QED BY <1>1, Invariance, PTL

(* No event contradicts the state machine (core/adapter-event-emitter.ts). *)
THEOREM EventsTruthful == Spec => []EventsMatchState
<1>1. Inv => EventsMatchState
  BY DEF Inv, Announced
<1> QED BY <1>1, Invariance, PTL

(* No subscription announces an event twice (core/adapter-state-machine.ts *)
(* absorbs self-transitions).                                              *)
THEOREM NoEventTwice == Spec => []OncePerSubscription
<1>1. Inv => OncePerSubscription
  BY DEF Inv, Announced
<1> QED BY <1>1, Invariance, PTL

(* No page reports a completion the provider has not approved (core/base-  *)
(* adapter.ts, adapters/base/qr-base.ts).                                  *)
THEOREM NoFalseCompletion == Spec => []CompletedOnlyIfApproved
<1>1. Inv => CompletedOnlyIfApproved
  BY DEF Inv, ApprovalBacked
<1> QED BY <1>1, Invariance, PTL

(* PAYMENT_AUTHORIZED precedes PAYMENT_COMPLETED (core/adapter-event-      *)
(* emitter.ts).                                                            *)
THEOREM AuthorizationFirst == Spec => []AuthorizedBeforeCompleted
<1>1. Inv => AuthorizedBeforeCompleted
  BY DEF Inv, Announced, CompletionFollows
<1> QED BY <1>1, Invariance, PTL

-----------------------------------------------------------------------------
(* What authorize() leaves behind; an answer of the backend is its last.   *)
Settling ==
  /\ AuthorizeSettles
  /\ reply # "none" => payment # "none"

(* A transition to another state than these two leaves neither behind that *)
(* was not there; an order status always finds one that is legal.          *)
LEMMA TransitionSettles ==
  ASSUME NEW to \in Requested, NEW redirect, NEW n, Transition(to, redirect, n)
  PROVE  /\ state' = state \/ state' = to
         /\ state = "authorizing" /\ to \in {"pending", "completed", "failed", "cancelled"}
              => state' = to
BY DEF Transition, CanTransition, LegalTransitions, machine

LEMMA SettlingKeeps ==
  ASSUME TypeOK, Settling, [Next]_vars
  PROVE  Settling'
<1> USE DEF Settling, AuthorizeSettles
<1>1. CASE InitCall \/ \E loaded \in BOOLEAN : InitReturns(loaded)
  <2>1. /\ \/ Transition("initializing", FALSE, subs + 1)
           \/ Transition("ready", FALSE, subs)
           \/ Fail
        /\ UNCHANGED <<auth, reply, payment>>
    BY <1>1 DEF InitCall, InitReturns, provider
  <2>2. state' \in {state, "initializing", "ready", "failed"}
    BY <2>1, TransitionSettles DEF Fail, machine, Requested
  <2> QED BY <2>1, <2>2
<1>2. CASE AuthorizeCall
  <2>1. Transition("authorizing", FALSE, subs) /\ state = "ready" /\ auth' = "waiting"
        /\ UNCHANGED <<reply, payment>>
    BY <1>2 DEF AuthorizeCall, provider
  <2>2. state' \in {"ready", "authorizing"}
    BY <2>1, TransitionSettles DEF Requested
  <2> QED BY <2>1, <2>2
<1>3. CASE AuthorizeThrows
  <2>1. auth' = "done" /\ UNCHANGED <<reply, payment>> /\ Fail /\ auth = "waiting"
    BY <1>3 DEF AuthorizeThrows, provider
  <2>2. state' # "authorizing" /\ state' # "pending"
    BY <2>1, TransitionSettles DEF Fail, machine, Requested
  <2> QED BY <2>1, <2>2
<1>4. ASSUME NEW redirect \in BOOLEAN, AuthorizeResolves(redirect)
      PROVE  Settling'
  <2>1. /\ auth = "waiting" /\ auth' = "done" /\ UNCHANGED <<reply, payment>>
        /\ Transition(Target(reply), redirect, subs)
    BY <1>4 DEF AuthorizeResolves, AuthorizeReturns, provider
  <2>2. /\ Target(reply) \in {"pending", "completed", "failed", "cancelled"}
        /\ Target(reply) = "pending" => reply = "pending_authorization"
    BY DEF Target
  <2>3. /\ state' = state \/ state' = Target(reply)
        /\ state = "authorizing" => state' = Target(reply)
    BY <2>1, <2>2, TransitionSettles DEF Requested
  <2> QED BY <2>1, <2>2, <2>3
<1>5. CASE \/ \E kind \in sent : OnWebhookEnvelope(kind)
           \/ PollConclusive \/ VoidReturns
  <2>1. UNCHANGED <<auth, reply, payment>>
    BY <1>5 DEF OnWebhookEnvelope, PollConclusive, VoidReturns, provider
  <2>2. ASSUME NEW kind \in sent, OnWebhookEnvelope(kind)
        PROVE  state' = state \/ state' \in {"completed", "failed", "cancelled"}
    <3>1. UNCHANGED machine \/ (Transition(Verdict(kind), FALSE, subs) /\ state = "pending")
      BY <2>2, Zenon DEF OnWebhookEnvelope
    <3>2. Verdict(kind) \in {"completed", "failed", "cancelled", "pending"}
      BY DEF Verdict
    <3> QED BY <3>1, <3>2, TransitionSettles DEF machine, Requested
  <2>3. ASSUME PollConclusive
        PROVE  state' = state \/ state' \in {"completed", "failed", "cancelled"}
    <3>1. \/ UNCHANGED machine
          \/ \E status \in PolledStatus : Transition(Target(status), FALSE, subs)
      BY <2>3 DEF PollConclusive
    <3>2. \A status \in PolledStatus : Target(status) \in {"completed", "failed", "cancelled"}
      BY DEF PolledStatus, Target, StatusFor, Decision
    <3> QED BY <3>1, <3>2, TransitionSettles DEF machine, Requested
  <2>4. ASSUME VoidReturns
        PROVE  state' = state \/ state' \in {"completed", "failed", "cancelled"}
    <3>1. Transition("cancelled", FALSE, subs)
      BY <2>4, Zenon DEF VoidReturns
    <3> QED BY <3>1, TransitionSettles DEF Requested
  <2>5. state' = state \/ state' \in {"completed", "failed", "cancelled"}
    BY <1>5, <2>2, <2>3, <2>4
  <2> QED BY <2>1, <2>5
<1>6. CASE \/ OrderOpened
           \/ \E decision \in Decision : \E kind \in WebhooksFor(decision) :
                 OrderDecided(decision, kind) \/ ProviderDecides(decision, kind)
           \/ VoidReaches
  <2>1. /\ UNCHANGED <<state, auth>> /\ payment' # "none"
        /\ payment = "none" \/ reply' = reply
    BY <1>6 DEF OrderOpened, OrderDecided, ProviderDecides, VoidReaches, machine, Decision
  <2> QED BY <2>1
<1>7. CASE \/ \E e \in CheckoutEvent : EmitDeferred(e)
           \/ PollTick \/ PollInconclusive \/ VoidCall \/ Teardown \/ UNCHANGED vars
  <2>1. UNCHANGED <<state, auth, reply, payment>>
    BY <1>7 DEF EmitDeferred, PollTick, PollInconclusive, VoidCall, Teardown, Destroy,
                vars, baseVars, machine, provider
  <2> QED BY <2>1
<1> QED BY <1>1, <1>2, <1>3, <1>4, <1>5, <1>6, <1>7 DEF Next, Base, BaseStep

(* A handle is authorizing only while its doAuthorize has not settled, and *)
(* pending only on an answer of the backend (core/base-adapter.ts          *)
(* authorize, resolveAuthorizeResult).                                     *)
THEOREM NoneLeftAuthorizing == Spec => []AuthorizeSettles
<1>1. Init => Settling
  BY DEF Init, BaseInit, Settling, AuthorizeSettles
<1>2. TypeOK /\ Settling /\ [Next]_vars => Settling'
  BY SettlingKeeps
<1>3. Settling => AuthorizeSettles
  BY DEF Settling
<1> QED BY <1>1, <1>2, <1>3, TypeCorrect, PTL DEF Spec

-----------------------------------------------------------------------------
(* The refinement of PaymentOutcome. *)
Told == {o \in {"completed", "failed", "cancelled"} : heard[OutcomeEvent(o)] > 0}

(* An outcome that was told is the outcome. *)
LEMMA ToldIsOutcome ==
  ASSUME Inv
  PROVE  Told \subseteq {OutcomeOf(state)}
<1>1. /\ heard \in [CheckoutEvent -> Nat] /\ deferred \in [CheckoutEvent -> Nat]
      /\ \A e \in CheckoutEvent : heard[e] > 0 => state \in AnnouncedIn(e)
  BY DEF Inv, TypeOK, Announced, EventsMatchState
<1>2. /\ heard["PAYMENT_COMPLETED"] > 0 => state = "completed"
      /\ heard["PAYMENT_FAILED"] > 0 => state = "failed"
      /\ heard["PAYMENT_CANCELLED"] > 0 => state = "cancelled"
  BY <1>1 DEF AnnouncedIn, CheckoutEvent
<1> QED BY <1>2 DEF Told, OutcomeEvent, OutcomeOf

(* A step that keeps the state and what the page heard of outcomes.        *)
LEMMA Stutters ==
  ASSUME state' = state, heard' = heard
  PROVE  UNCHANGED Promise!vars
BY DEF Promise!vars

(* A transition to an outcome decides it, any other is invisible.          *)
LEMMA TransitionDecides ==
  ASSUME Inv, NEW to \in Requested, NEW redirect \in BOOLEAN, NEW n \in Nat,
         Transition(to, redirect, n)
  PROVE  [Promise!Next]_(Promise!vars)
<1>1. CASE ~CanTransition(state, to)
  <2>1. UNCHANGED machine
    BY <1>1 DEF Transition
  <2> QED BY <2>1, Stutters DEF machine
<1>2. CASE CanTransition(state, to)
  <2> DEFINE first == FirstEvent(to, redirect)
  <2>1. /\ state' = to
        /\ heard' = IF bus THEN [heard EXCEPT ![first] = @ + n] ELSE heard
    BY <1>2 DEF Transition
  <2>2. first \in CheckoutEvent /\ state \notin TerminalStates
    BY <1>2, TransitionEvents
  <2>3. heard \in [CheckoutEvent -> Nat] /\ state \in AdapterState
    BY DEF Inv, TypeOK
  <2>4. OutcomeOf(state) = "undecided"
    BY <2>2 DEF OutcomeOf, TerminalStates
  <2>5. Told = {}
    BY <2>4, ToldIsOutcome DEF Told
  <2>6. \A e \in CheckoutEvent : e # first => heard'[e] = heard[e]
    BY <2>1, <2>3
  <2>7. \A o \in {"completed", "failed", "cancelled"} :
          OutcomeEvent(o) \in CheckoutEvent
    BY DEF OutcomeEvent, CheckoutEvent
  <2>8. \A o \in Told' : OutcomeEvent(o) = first
    BY <2>5, <2>6, <2>7 DEF Told
  <2>9. CASE to \in {"completed", "failed", "cancelled"}
    <3>1. \A o \in {"completed", "failed", "cancelled"} :
            OutcomeEvent(o) = first => o = to /\ o # "completed"
      BY <2>9 DEF OutcomeEvent, FirstEvent
    <3>2. Told' = {} \/ (Told' = {to} /\ to # "completed")
      BY <2>8, <3>1 DEF Told
    <3>3. OutcomeOf(state)' = to
      BY <2>1, <2>9 DEF OutcomeOf
    <3>4. Promise!Decide(to)
      BY <2>4, <2>5, <3>2, <3>3 DEF Promise!Decide, Told
    <3> QED BY <2>9, <3>4 DEF Promise!Next, Promise!Outcome
  <2>10. CASE to \notin {"completed", "failed", "cancelled"}
    <3>1. \A o \in {"completed", "failed", "cancelled"} : OutcomeEvent(o) # first
      BY <2>10 DEF OutcomeEvent, FirstEvent, Requested
    <3>2. Told' = {}
      BY <2>8, <3>1 DEF Told
    <3>3. OutcomeOf(state)' = "undecided"
      BY <2>1, <2>10 DEF OutcomeOf
    <3> QED BY <2>4, <2>5, <3>2, <3>3 DEF Promise!vars, Told
  <2> QED BY <2>9, <2>10
<1> QED BY <1>1, <1>2

(* What an emission still has to say of an outcome is its completion.      *)
LEMMA EmissionTells ==
  ASSUME Inv, NEW e \in CheckoutEvent, EmitDeferred(e)
  PROVE  [Promise!Next]_(Promise!vars)
<1>1. /\ deferred[e] > 0 /\ state' = state
      /\ heard' = IF bus THEN [heard EXCEPT ![e] = @ + 1] ELSE heard
      /\ heard \in [CheckoutEvent -> Nat] /\ deferred \in [CheckoutEvent -> Nat]
  BY DEF EmitDeferred, Inv, TypeOK
<1>2. CASE ~bus
  BY <1>1, <1>2, Stutters
<1>3. CASE bus /\ e = "PAYMENT_COMPLETED"
  <2>1. state = "completed"
    BY <1>1, <1>3 DEF Inv, Announced, EventsMatchState, AnnouncedIn
  <2>2. Told \subseteq {"completed"}
    BY <2>1, ToldIsOutcome DEF OutcomeOf
  <2>3. \A o \in {"completed", "failed", "cancelled"} :
          heard'[OutcomeEvent(o)] = IF o = "completed" THEN heard[OutcomeEvent(o)] + 1
                                                       ELSE heard[OutcomeEvent(o)]
    BY <1>1, <1>3 DEF OutcomeEvent, CheckoutEvent
  <2>4. heard[OutcomeEvent("completed")] \in Nat
    BY <1>1 DEF OutcomeEvent, CheckoutEvent
  <2>5. Told' = {"completed"}
    BY <2>2, <2>3, <2>4 DEF Told
  <2>6. OutcomeOf(state) = "completed" /\ OutcomeOf(state)' = "completed"
    BY <2>1, <1>1 DEF OutcomeOf
  <2>7. Promise!Tell
    BY <2>5, <2>6 DEF Promise!Tell, Told
  <2> QED BY <2>7 DEF Promise!Next
<1>4. CASE e # "PAYMENT_COMPLETED"
  <2>1. e \in {"PAYMENT_METHOD_READY", "PAYMENT_PENDING"}
    BY <1>1, <1>4 DEF Inv, Announced, Deferrable
  <2>2. \A o \in {"completed", "failed", "cancelled"} :
          heard'[OutcomeEvent(o)] = heard[OutcomeEvent(o)]
    BY <1>1, <2>1 DEF OutcomeEvent, CheckoutEvent
  <2>3. Told' = Told
    BY <2>2 DEF Told
  <2> QED BY <1>1, <2>3 DEF Promise!vars, Told
<1> QED BY <1>2, <1>3, <1>4

(* Every step of the checkout is a step of PaymentOutcome or stutters.     *)
LEMMA StepImplements == Inv /\ [Next]_vars => [Promise!Next]_(Promise!vars)
<1> SUFFICES ASSUME Inv, [Next]_vars PROVE [Promise!Next]_(Promise!vars)
  OBVIOUS
<1>t. subs \in Nat /\ subs + 1 \in Nat
  BY MaxInitsAssumption DEF Inv, TypeOK
<1>f. Fail => [Promise!Next]_(Promise!vars)
  BY <1>t, TransitionDecides, Stutters DEF Fail, Requested, machine
<1>1. CASE InitCall
  <2>1. PICK n \in Nat : Transition("initializing", FALSE, n)
    BY <1>1, <1>t, Zenon DEF InitCall
  <2> QED BY <2>1, TransitionDecides DEF Requested
<1>2. ASSUME NEW loaded \in BOOLEAN, InitReturns(loaded)
      PROVE  [Promise!Next]_(Promise!vars)
  <2>1. Transition("ready", FALSE, subs) \/ Fail
    BY <1>2 DEF InitReturns
  <2> QED BY <2>1, <1>t, <1>f, TransitionDecides DEF Requested
<1>3. CASE AuthorizeCall
  <2>1. Transition("authorizing", FALSE, subs)
    BY <1>3 DEF AuthorizeCall
  <2> QED BY <2>1, <1>t, TransitionDecides DEF Requested
<1>4. CASE AuthorizeThrows
  BY <1>4, <1>f DEF AuthorizeThrows
<1>5. ASSUME NEW kind \in sent, OnWebhookEnvelope(kind)
      PROVE  [Promise!Next]_(Promise!vars)
  <2>1. Transition(Verdict(kind), FALSE, subs) \/ UNCHANGED machine
    BY <1>5 DEF OnWebhookEnvelope
  <2>2. Verdict(kind) \in Requested
    BY DEF Verdict, Requested
  <2> QED BY <2>1, <2>2, <1>t, TransitionDecides, Stutters DEF machine
<1>6. CASE \E e \in CheckoutEvent : EmitDeferred(e)
  BY <1>6, EmissionTells
<1>7. CASE \/ OrderOpened \/ VoidReaches
           \/ \E decision \in Decision : \E kind \in WebhooksFor(decision) :
                 OrderDecided(decision, kind) \/ ProviderDecides(decision, kind)
  <2>1. UNCHANGED machine
    BY <1>7 DEF OrderOpened, VoidReaches, OrderDecided, ProviderDecides
  <2> QED BY <2>1, Stutters DEF machine
<1>8. ASSUME NEW redirect \in BOOLEAN, AuthorizeResolves(redirect)
      PROVE  [Promise!Next]_(Promise!vars)
  <2>1. Transition(Target(reply), redirect, subs)
    BY <1>8 DEF AuthorizeResolves, AuthorizeReturns
  <2>2. Target(reply) \in Requested
    BY DEF Target, Requested
  <2> QED BY <2>1, <2>2, <1>t, TransitionDecides
<1>9. CASE PollConclusive
  <2>1. \/ \E status \in PolledStatus : Transition(Target(status), FALSE, subs)
        \/ UNCHANGED machine
    BY <1>9 DEF PollConclusive
  <2>2. \A status \in PolledStatus : Target(status) \in Requested
    BY DEF Target, Requested
  <2> QED BY <2>1, <2>2, <1>t, TransitionDecides, Stutters DEF machine
<1>10. CASE VoidReturns
  <2>1. Transition("cancelled", FALSE, subs)
    BY <1>10 DEF VoidReturns
  <2> QED BY <2>1, <1>t, TransitionDecides DEF Requested
<1>11. CASE PollTick \/ PollInconclusive \/ VoidCall \/ Teardown \/ UNCHANGED vars
  <2>1. UNCHANGED machine
    BY <1>11 DEF PollTick, PollInconclusive, VoidCall, Teardown, Destroy, vars,
                 baseVars
  <2> QED BY <2>1, Stutters DEF machine
<1> QED BY <1>1, <1>2, <1>3, <1>4, <1>5, <1>6, <1>7, <1>8, <1>9, <1>10, <1>11
        DEF Next, Base, BaseStep

(* A checkout implements PaymentOutcome: the outcome is decided once, by   *)
(* whoever comes first, and the page is told of it and of no other (ADR-   *)
(* 003; core/adapter-state-machine.ts transition).                         *)
THEOREM Implements == Spec => ImplementsPromise
<1>1. Init => Promise!Init
  <2> SUFFICES ASSUME Init PROVE Promise!Init
    OBVIOUS
  <2>1. state = "idle" /\ heard = [e \in CheckoutEvent |-> 0]
    BY DEF Init, BaseInit
  <2>2. OutcomeOf(state) = "undecided"
    BY <2>1 DEF OutcomeOf
  <2>3. Told = {}
    BY <2>1 DEF Told, OutcomeEvent, CheckoutEvent
  <2> QED BY <2>2, <2>3 DEF Promise!Init, Told
<1> QED BY <1>1, StepImplements, Invariance, PTL DEF Spec, ImplementsPromise, Promise!Spec

=============================================================================
