------------------------------- MODULE LiveTrace -------------------------------
(***************************************************************************)
(* The network log of the harness page (assets/api.js) and the sequence    *)
(* diagram drawn from it (assets/live-trace.js).  A request is an entry of *)
(* the log that send() changes in place; the diagram copies an entry into  *)
(* an arrow the first time it sees it.                                     *)
(***************************************************************************)
EXTENDS FiniteSets

VARIABLES
  netlog,      \* request |-> pending, ok or err
  seenNetIds,  \* requests the diagram has looked at
  arrows       \* its arrows: the request, and the outcome copied from it

traceVars == <<netlog, seenNetIds, arrows>>

(* ingestNetlog, called back by notifyNet after the log has become log.    *)
Notify(log) ==
  /\ netlog' = log
  /\ seenNetIds' = seenNetIds \cup DOMAIN log
  /\ arrows' = arrows \cup
       {[req |-> r, ok |-> log[r]] : r \in DOMAIN log \ seenNetIds}

Entry(log, r, outcome) ==
  [q \in DOMAIN log \cup {r} |-> IF q = r THEN outcome ELSE log[q]]

(* send: a new entry; and the same entry when the answer is in.  An entry  *)
(* that clearNetlog dropped is changed where nobody looks.                 *)
Sent(log, r) == Entry(log, r, "pending")

Answered(log, r, ok) ==
  IF r \in DOMAIN log THEN [log EXCEPT ![r] = IF ok THEN "ok" ELSE "err"] ELSE log

(* connectEvents logs the stream as an answered request.                   *)
Connected(log, r) == Entry(log, r, "ok")

(* Mutant: reset forgets the arrows only.                                  *)
ResetArrows ==
  /\ arrows' = {}
  /\ UNCHANGED <<netlog, seenNetIds>>

(* reset. *)
Reset ==
  /\ arrows' = {} /\ seenNetIds' = {}
  /\ UNCHANGED netlog

(* reset, clearNetlog and the first request of a run.                      *)
ResetAndSend(r) ==
  /\ netlog' = [q \in {r} |-> "pending"]
  /\ seenNetIds' = {r}
  /\ arrows' = {[req |-> r, ok |-> "pending"]}

TraceInit == netlog = <<>> /\ seenNetIds = {} /\ arrows = {}

-----------------------------------------------------------------------------
(* What the diagram has looked at it shows, each request as one arrow,     *)
(* although reset and clearNetlog come apart (live-trace.js seenNetIds).   *)
OneArrowEach ==
  /\ {a.req : a \in arrows} = seenNetIds
  /\ Cardinality(arrows) = Cardinality(seenNetIds)

=============================================================================
