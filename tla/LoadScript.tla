----------------------------- MODULE LoadScript -----------------------------
(***************************************************************************)
(* core/load-script.ts: the loader of provider SDKs, for one URL of one    *)
(* page.  Calls share the document: who finds a <script> of the URL waits  *)
(* for the global it is to define instead of adding another.  A <script>   *)
(* that was taken out of the document after a timeout still runs when it   *)
(* arrives.                                                                *)
(***************************************************************************)
CONSTANT Loads   \* the calls of loadScript

VARIABLES
  page,     \* the calls whose <script> is in the document
  script,   \* the <script> of each call: none, fetching, ran, failed
  load,     \* each call: idle, loading its own <script>, polling, settled as
            \* resolved or rejected, and read by its caller
  global    \* the provider's object is on window

loader == <<page, script, load, global>>

Settled(l, ok) == load' = [load EXCEPT ![l] = IF ok THEN "resolved" ELSE "rejected"]

-----------------------------------------------------------------------------
(* Mutants: a <script> in the document counts as loaded; it is not looked  *)
(* for.                                                                    *)
LoadFoundIsLoaded(l) ==
  /\ load[l] = "idle"
  /\ IF global \/ page # {}
     THEN Settled(l, TRUE) /\ UNCHANGED <<page, script>>
     ELSE /\ load' = [load EXCEPT ![l] = "loading"]
          /\ script' = [script EXCEPT ![l] = "fetching"]
          /\ page' = page \cup {l}
  /\ UNCHANGED global

LoadAgain(l) ==
  /\ load[l] = "idle"
  /\ IF global
     THEN Settled(l, TRUE) /\ UNCHANGED <<page, script>>
     ELSE /\ load' = [load EXCEPT ![l] = "loading"]
          /\ script' = [script EXCEPT ![l] = "fetching"]
          /\ page' = page \cup {l}
  /\ UNCHANGED global

Load(l) ==
  /\ load[l] = "idle"
  /\ \/ global /\ Settled(l, TRUE) /\ UNCHANGED <<page, script>>
     \/ /\ ~global /\ page # {}
        /\ load' = [load EXCEPT ![l] = "polling"]
        /\ UNCHANGED <<page, script>>
     \/ /\ ~global /\ page = {}
        /\ load' = [load EXCEPT ![l] = "loading"]
        /\ script' = [script EXCEPT ![l] = "fetching"]
        /\ page' = {l}
  /\ UNCHANGED global

(* Mutant: a global check that fails after the load event settles nothing. *)
ScriptRunsUnsettled(l, defines) ==
  /\ script[l] = "fetching"
  /\ script' = [script EXCEPT ![l] = "ran"]
  /\ global' = (global \/ defines)
  /\ IF load[l] = "loading" /\ global' THEN Settled(l, TRUE) ELSE UNCHANGED load
  /\ UNCHANGED page

(* The script runs and its load event follows: the global check decides.   *)
(* The <script> stays whether it defined the global or not.                *)
ScriptRuns(l, defines) ==
  /\ script[l] = "fetching"
  /\ script' = [script EXCEPT ![l] = "ran"]
  /\ global' = (global \/ defines)
  /\ IF load[l] = "loading" THEN Settled(l, global') ELSE UNCHANGED load
  /\ UNCHANGED page

(* Mutant: the <script> of a failed fetch stays.                           *)
ScriptErrorsKept(l) ==
  /\ script[l] = "fetching"
  /\ script' = [script EXCEPT ![l] = "failed"]
  /\ IF load[l] = "loading" THEN Settled(l, FALSE) ELSE UNCHANGED load
  /\ UNCHANGED <<page, global>>

ScriptErrors(l) ==
  /\ script[l] = "fetching"
  /\ script' = [script EXCEPT ![l] = "failed"]
  /\ page' = page \ {l}
  /\ IF load[l] = "loading" THEN Settled(l, FALSE) ELSE UNCHANGED load
  /\ UNCHANGED global

LoadTimesOut(l) ==
  /\ load[l] = "loading"
  /\ page' = page \ {l}
  /\ Settled(l, FALSE)
  /\ UNCHANGED <<script, global>>

(* Mutant: who polls never gives up.                                       *)
PollSeesOnly(l) ==
  /\ load[l] = "polling" /\ global
  /\ Settled(l, TRUE)
  /\ UNCHANGED <<page, script, global>>

(* waitForGlobal: the next look finds the global, or time is up.           *)
PollEnds(l) ==
  /\ load[l] = "polling"
  /\ Settled(l, global)
  /\ UNCHANGED <<page, script, global>>

LoaderInit ==
  /\ page = {} /\ global \in BOOLEAN
  /\ script = [l \in Loads |-> "none"] /\ load = [l \in Loads |-> "idle"]

LoaderStep ==
  \E l \in Loads :
    \/ \E defines \in BOOLEAN : ScriptRuns(l, defines)
    \/ ScriptErrors(l) \/ LoadTimesOut(l) \/ PollEnds(l)

-----------------------------------------------------------------------------
LoaderTypeOK ==
  /\ page \subseteq Loads
  /\ script \in [Loads -> {"none", "fetching", "ran", "failed"}]
  /\ load \in [Loads -> {"idle", "loading", "polling", "resolved", "rejected",
                         "read"}]
  /\ global \in BOOLEAN
  /\ \A l \in Loads : load[l] = "loading" => script[l] = "fetching"

(* "Idempotent script injection" (core/load-script.ts): however calls,     *)
(* timeouts and late arrivals interleave, no two calls wait for a <script> *)
(* of their own and the document never holds two.                          *)
OneScript ==
  /\ \A l, m \in Loads : load[l] = "loading" /\ load[m] = "loading" => l = m
  /\ \A l, m \in page : l = m

(* A <script> that failed or timed out is out of the document, so that it  *)
(* cannot hold up the next call: what is left is arriving or has run.      *)
NoDeadScript ==
  \A l \in page : load[l] = "loading" \/ script[l] = "ran"

=============================================================================
