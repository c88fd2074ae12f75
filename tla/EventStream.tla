---------------------------- MODULE EventStream ----------------------------
(***************************************************************************)
(* The way of a webhook envelope from the reference server to the page:    *)
(* the ring buffer of webhooks/event-bus.ts, the SSE route routes/events.ts*)
(* and the EventSource of core/webhook-listener.ts, for one session.       *)
(*                                                                         *)
(* The id of an envelope is its place in log, the order of publication.    *)
(* A connection is a queue: a broken one takes what it carries with it, and*)
(* the listener the server may still hold for it writes to nobody.         *)
(***************************************************************************)
EXTENDS Sequences, FiniteSets, Functions

CONSTANTS
  Kinds,         \* kinds of envelope
  BufferSize,    \* entries of the ring buffer
  MaxPublished,  \* bound: envelopes of the session
  MaxCuts        \* bound: broken connections and server restarts together

ASSUME BufferSizeAssumption == BufferSize \in Nat \ {0}
ASSUME StreamBoundsAssumption == MaxPublished \in Nat /\ MaxCuts \in Nat

VARIABLES
  sse,          \* WebhookListener: off, open (it has a source), closed
  link,         \* its EventSource: down, up, dead (it will not retry)
  lastEventId,  \* the id the EventSource has received last, 0 before any
  wire,         \* ids the connection carries to the browser
  log,          \* the kinds published, in order
  buffer,       \* ids in the ring buffer, oldest first
  expired,      \* ids up to this one have outlived ttlMs
  cuts          \* counts up to MaxCuts

transport == <<link, lastEventId, wire, log, buffer, expired, cuts>>
streamVars == <<sse, transport>>

-----------------------------------------------------------------------------
(* Mutant: the ring is measured before the push.                           *)
PushLate(buf, id) ==
  IF Len(buf) > BufferSize THEN Append(Tail(buf), id) ELSE Append(buf, id)

(* buf.push, and shift when the ring is full.                              *)
Push(buf, id) ==
  IF Len(buf) = BufferSize THEN Append(Tail(buf), id) ELSE Append(buf, id)

(* publish: into the buffer, then to the session's listener.               *)
Publish(kind) ==
  /\ Len(log) < MaxPublished
  /\ log' = Append(log, kind)
  /\ buffer' = Push(buffer, Len(log) + 1)
  /\ wire' = IF link = "up" THEN Append(wire, Len(log) + 1) ELSE wire
  /\ UNCHANGED <<sse, link, lastEventId, expired, cuts>>

(* Time passes: entries expire in the order they came.  replay drops them. *)
Expire ==
  /\ expired < Len(log)
  /\ expired' = expired + 1
  /\ UNCHANGED <<sse, link, lastEventId, wire, log, buffer, cuts>>

Unexpired(buf) ==
  SubSeq(buf, Cardinality({i \in DOMAIN buf : buf[i] <= expired}) + 1, Len(buf))

(* Mutants: the envelope after the last one is skipped; the Last-Event-ID  *)
(* is ignored.                                                             *)
ReplaySkipsOne(buf, since) ==
  LET at == {i \in DOMAIN buf : buf[i] = since}
      idx == IF at = {} THEN 0 ELSE (CHOOSE i \in at : TRUE) + 1
  IN  SubSeq(buf, idx + 1, Len(buf))

ReplayEverything(buf, since) == buf

(* replay: what follows the given id, or everything if it is not found.    *)
Replay(buf, since) ==
  LET at == {i \in DOMAIN buf : buf[i] = since}
      idx == IF at = {} THEN 0 ELSE CHOOSE i \in at : TRUE
  IN  SubSeq(buf, idx + 1, Len(buf))

-----------------------------------------------------------------------------
(* Mutant: a new connection only hears of what comes.                      *)
ConnectWithoutReplay ==
  /\ sse = "open" /\ link = "down"
  /\ link' = "up"
  /\ wire' = <<>>
  /\ UNCHANGED <<sse, lastEventId, log, buffer, expired, cuts>>

(* The route replays and subscribes without giving way to another request. *)
Connect ==
  /\ sse = "open" /\ link = "down"
  /\ link' = "up"
  /\ buffer' = Unexpired(buffer)
  /\ wire' = Replay(Unexpired(buffer), lastEventId)
  /\ UNCHANGED <<sse, lastEventId, log, expired, cuts>>

(* source.onmessage: the browser keeps the id it will reconnect with.      *)
Deliver ==
  /\ link = "up" /\ wire # <<>>
  /\ lastEventId' = Head(wire)
  /\ wire' = Tail(wire)
  /\ UNCHANGED <<sse, link, log, buffer, expired, cuts>>

(* The network breaks the connection; the EventSource will reconnect.      *)
Cut ==
  /\ link = "up" /\ cuts < MaxCuts
  /\ link' = "down" /\ wire' = <<>> /\ cuts' = cuts + 1
  /\ UNCHANGED <<sse, lastEventId, log, buffer, expired>>

(* The server restarts: its buffers and listeners are gone.                *)
Restart ==
  /\ cuts < MaxCuts
  /\ link' = IF link = "up" THEN "down" ELSE link
  /\ wire' = <<>> /\ buffer' = <<>> /\ cuts' = cuts + 1
  /\ UNCHANGED <<sse, lastEventId, log, expired>>

(* A reconnect is answered with anything but a stream: the EventSource     *)
(* closes for good.  The listener calls onError, which the handle does not *)
(* set, and keeps its source.                                              *)
GiveUp ==
  /\ sse = "open" /\ link = "down"
  /\ link' = "dead"
  /\ UNCHANGED <<sse, lastEventId, wire, log, buffer, expired, cuts>>

(* start(), stop(). *)
Start ==
  /\ sse = "off"
  /\ sse' = "open"
  /\ UNCHANGED transport

Stop ==
  /\ sse' = "closed"
  /\ link' = "down" /\ wire' = <<>>
  /\ UNCHANGED <<lastEventId, log, buffer, expired, cuts>>

-----------------------------------------------------------------------------
TransportInit ==
  /\ link = "down" /\ lastEventId = 0 /\ wire = <<>>
  /\ log = <<>> /\ buffer = <<>> /\ expired = 0 /\ cuts = 0

Init == sse = "off" /\ TransportInit

Next ==
  \/ Start \/ Stop
  \/ \E kind \in Kinds : Publish(kind)
  \/ Expire \/ Connect \/ Deliver \/ Cut \/ Restart \/ GiveUp

Spec == Init /\ [][Next]_streamVars

(* The EventSource reconnects by itself and hands over what it receives.   *)
FairSpec == Spec /\ WF_streamVars(Connect) /\ WF_streamVars(Deliver)

-----------------------------------------------------------------------------
StreamTypeOK ==
  /\ sse \in {"off", "open", "closed"} /\ link \in {"down", "up", "dead"}
  /\ lastEventId \in 0..Len(log)
  /\ wire \in Seq(1..Len(log))
  /\ log \in Seq(Kinds) /\ Len(log) <= MaxPublished
  /\ buffer \in Seq(1..Len(log)) /\ Len(buffer) <= BufferSize
  /\ expired \in 0..Len(log)
  /\ cuts \in 0..MaxCuts

Increasing(s) == \A i, j \in DOMAIN s : i < j => s[i] < s[j]

(* The page receives every envelope at most once and in the order of       *)
(* publication: what is on its way is newer than what has arrived, across  *)
(* reconnects, restarts and a Last-Event-ID the buffer has forgotten       *)
(* (event-bus.ts replay, events.ts).                                       *)
InOrderOnce ==
  /\ Increasing(wire)
  /\ \A i \in DOMAIN wire : wire[i] > lastEventId

(* While the page is connected, every envelope the server could replay has *)
(* arrived or is on its way: replaying and subscribing leaves no gap that  *)
(* only another reconnect would close (events.ts).                         *)
Recoverable ==
  link = "up" => \A id \in Range(buffer) : id <= lastEventId \/ id \in Range(wire)

(* An envelope published while the page listens arrives, unless the ring   *)
(* buffer lost it to overflow, expiry or a restart while the page was cut  *)
(* off, or the page left (webhook-listener.ts, "replays any missed         *)
(* events").                                                               *)
Gone(id) == id \notin Range(buffer) \cup Range(wire)

Arrives ==
  \A id \in 1..MaxPublished :
    Len(log) >= id ~> \/ lastEventId >= id \/ Gone(id)
                      \/ sse # "open" \/ link = "dead"

=============================================================================
