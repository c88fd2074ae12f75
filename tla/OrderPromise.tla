---------------------------- MODULE OrderPromise ----------------------------
(***************************************************************************)
(* What the way of an order operation promises the page that asks for it:  *)
(* it is carried out at most once and only as what was asked; the page is  *)
(* told once, of a success only when it has been carried out, of a refusal *)
(* only when it never will be.  A page may also be left unsure, and then   *)
(* the operation may still be carried out.                                 *)
(***************************************************************************)
CONSTANTS
  Call,       \* operations asked for
  Operation,  \* what they ask
  Confirmed   \* answers of a success, with what each confirms

VARIABLES asked, done, told

vars == <<asked, done, told>>

Init ==
  /\ asked = [n \in Call |-> "none"]
  /\ done = [n \in Call |-> "no"]
  /\ told = [n \in Call |-> "nothing"]

Ask(n) ==
  /\ asked[n] = "none"
  /\ \E op \in Operation : asked' = [asked EXCEPT ![n] = op]
  /\ UNCHANGED <<done, told>>

CarryOut(n) ==
  /\ asked[n] # "none" /\ done[n] = "no" /\ told[n] # "refused"
  /\ done' = [done EXCEPT ![n] = "as asked"]
  /\ UNCHANGED <<asked, told>>

Tell(n) ==
  /\ asked[n] # "none" /\ told[n] = "nothing"
  /\ \E what \in {"unsure", "refused"} \cup DOMAIN Confirmed :
       /\ what = "refused" => done[n] = "no"
       /\ what \in DOMAIN Confirmed
            => done[n] = "as asked" /\ asked[n] \in Confirmed[what]
       /\ told' = [told EXCEPT ![n] = what]
  /\ UNCHANGED <<asked, done>>

Next == \E n \in Call : Ask(n) \/ CarryOut(n) \/ Tell(n)

Spec == Init /\ [][Next]_vars

=============================================================================
