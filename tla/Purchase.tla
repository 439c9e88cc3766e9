------------------------------ MODULE Purchase ------------------------------
(***************************************************************************)
(* What the checkout promises for one order, whatever way it is paid:      *)
(* it is paid for at most once, delivery comes with the payment, money is  *)
(* returned only after it was taken, and an order that is closed can still *)
(* be paid only while the provider holds a payment open for it.            *)
(***************************************************************************)
CONSTANT Order

VARIABLES
    stage,      \* [Order -> Stages]
    delivered   \* the orders whose item the buyer has

Stages == {"none", "open", "held", "settled", "returned", "closed", "closedHeld"}

Move(o, from, to) == stage[o] \in from /\ stage' = [stage EXCEPT ![o] = to]

Init ==
    /\ stage = [o \in Order |-> "none"]
    /\ delivered = {}

Open(o) == Move(o, {"none"}, "open") /\ delivered' \in {delivered, delivered \cup {o}}

\* The provider opens a payment.
Hold(o) == Move(o, {"open"}, "held") /\ UNCHANGED delivered

\* The provider takes the money; the buyer has the item in the same step.
Settle(o) ==
    /\ Move(o, {"open", "held", "closedHeld"}, "settled")
    /\ o \in delivered'
    /\ delivered \subseteq delivered'

\* The buyer cancels; a payment the provider holds stays open.
Cancel(o) ==
    /\ Move(o, {"open"}, "closed") \/ Move(o, {"held"}, "closedHeld")
    /\ UNCHANGED delivered

\* The provider gives up the payment it holds, or returns the one it took.
Release(o) == Move(o, {"held", "closedHeld"}, "closed") /\ UNCHANGED delivered
Return(o)  == Move(o, {"settled"}, "returned") /\ UNCHANGED delivered

\* The buyer gets the item in another way: nothing is ever taken back.
Deliver == delivered \subseteq delivered' /\ delivered' \subseteq Order /\ UNCHANGED stage

Next ==
    \/ \E o \in Order : Open(o) \/ Hold(o) \/ Settle(o) \/ Cancel(o)
                         \/ Release(o) \/ Return(o)
    \/ Deliver

Spec == Init /\ [][Next]_<<stage, delivered>>

=============================================================================
