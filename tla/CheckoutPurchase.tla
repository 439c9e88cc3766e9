-------------------------- MODULE CheckoutPurchase --------------------------
(***************************************************************************)
(* Checkout, one request at a time, implements Purchase: the mapping reads *)
(* an order's stage from its status and from the transactions that name it.*)
(***************************************************************************)
EXTENDS Checkout

HeldOpen(o) == \E t \in Txn : txn[t].order = o /\ txn[t].state = "created"

StageOf(o) ==
    CASE order[o].status = "absent"     -> "none"
      [] order[o].status = "pending"    -> "open"
      [] order[o].status = "processing" -> "held"
      [] order[o].status = "paid"       -> "settled"
      [] order[o].status = "refunded"   -> "returned"
      [] order[o].status = "cancelled"  -> IF HeldOpen(o) THEN "closedHeld"
                                                          ELSE "closed"

stageOf == [o \in Order |-> StageOf(o)]

deliveredOrders == {o \in Order :
    /\ order[o].status # "absent"
    /\ {order[o].buyer} \X Entitlement(order[o].item) \subseteq enrolled}

P == INSTANCE Purchase WITH stage <- stageOf, delivered <- deliveredOrders

\* README, "order-then-pay flow": every order lives the life Purchase allows,
\* paid at most once, delivered when paid and refunded only after it was paid.
ImplementsPurchase == P!Spec

=============================================================================
