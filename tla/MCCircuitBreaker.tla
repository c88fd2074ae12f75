--------------------------- MODULE MCCircuitBreaker ---------------------------
(***************************************************************************)
(* Model-checking instance of CircuitBreaker, and what its documentation   *)
(* says beyond the code.                                                   *)
(***************************************************************************)
EXTENDS CircuitBreaker

(* "open after 5 consecutive failures within a 10-second window" (circuit- *)
(* breaker.ts): calls that Commerce Hub failed, whichever error the caller *)
(* gets to see.                                                            *)
OutageOpens == circuit = "closed" => Recent(outage) < Threshold

=============================================================================
