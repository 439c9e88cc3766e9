----------------------------- MODULE MCCheckout -----------------------------
(***************************************************************************)
(* Instances of Checkout for TLC: one course and, where a run wants one, a *)
(* program that requires it.                                               *)
(***************************************************************************)
EXTENDS CheckoutPurchase, TLC

CONSTANTS course, program

MCRequired == [g \in Program |-> {course}]
MCPrice    == [i \in Item |-> 3]
MCCourseOf == [p \in Promo |-> course]
MCDiscount == [p \in Promo |-> 1]

\* Ids, buyers, codes and request slots are interchangeable.
Symmetry ==
    UNION {Permutations(S) : S \in {Req, Buyer, Order, PaymeTxn, Receipt, Promo}}

=============================================================================
