--------------------------- MODULE PaymentOutcome ---------------------------
(***************************************************************************)
(* What a checkout promises its merchant, whatever the payment method: the *)
(* outcome of a payment is decided at most once, is never revised, and the *)
(* merchant is told of that outcome and of no other.  A merchant that has  *)
(* torn the checkout down may be told nothing.                             *)
(***************************************************************************)
VARIABLES outcome, told

vars == <<outcome, told>>

Outcome == {"completed", "failed", "cancelled"}

Init == outcome = "undecided" /\ told = {}

(* A failure or a cancellation is announced as it is decided, a completion *)
(* one event later.                                                        *)
Decide(o) ==
  /\ outcome = "undecided"
  /\ outcome' = o
  /\ \/ told' = told
     \/ told' = {o} /\ o # "completed"

Tell ==
  /\ outcome = "completed"
  /\ told' = {outcome}
  /\ UNCHANGED outcome

Next == Tell \/ \E o \in Outcome : Decide(o)

Spec == Init /\ [][Next]_vars

=============================================================================
