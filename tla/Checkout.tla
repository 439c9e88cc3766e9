------------------------------ MODULE Checkout ------------------------------
(***************************************************************************)
(* Orders, Payme transactions, promocode reservations and the entitlement  *)
(* a paid order grants: app/services/payment_service.py with the parts of  *)
(* promocode_service, enrollment_service and program_service it calls.     *)
(*                                                                         *)
(* A handler is one request r that runs in its own database session.  It   *)
(* first loads rows (session.get, select), may await the payment provider, *)
(* and then writes what it computed from the rows it LOADED.  PostgreSQL   *)
(* runs at READ COMMITTED and no row carries a version, so between a load  *)
(* and a write any other request may commit.  Each load, await and commit  *)
(* is one step; a request that is refused on load leaves no trace and is a *)
(* stuttering step.  The session is created with autoflush=False and       *)
(* expire_on_commit=False, and an UPDATE is emitted only for a column      *)
(* whose value differs from the one that was loaded.                       *)
(***************************************************************************)
EXTENDS Naturals, FiniteSets

CONSTANTS
    Req,       \* request slots: how many handlers may be in flight at once
    Buyer,     \* users that place orders
    Course,    \* courses on sale
    Program,   \* programs on sale
    Required,  \* [Program -> SUBSET Course]: the required courses of a program
    Price,     \* [Course \cup Program -> Nat]: effective_price_cents, price_cents
    Order,     \* ids of order rows (bounds how many are ever inserted)
    PaymeTxn,  \* transaction ids Payme uses on the merchant callback
    Receipt,   \* receipt ids Payme's receipts.create returns for card payments
    Promo,     \* ids of promocode rows
    CourseOf,  \* [Promo -> Course]: Promocode.course_id
    Discount,  \* [Promo -> Nat]: compute_discount_cents of the code
    MaxUses,   \* Promocode.max_uses
    None       \* SQL NULL / Python None

Item == Course \cup Program
Txn  == PaymeTxn \cup Receipt

ASSUME ConstantsOK ==
    /\ Required \in [Program -> SUBSET Course]
    /\ Price \in [Item -> Nat \ {0}]
    /\ CourseOf \in [Promo -> Course]
    /\ Discount \in [Promo -> Nat]
    /\ \A p \in Promo : Discount[p] < Price[CourseOf[p]]
    /\ MaxUses \in Nat \ {0}
    /\ Course \cap Program = {}
    /\ PaymeTxn \cap Receipt = {}
    /\ None \notin Buyer \cup Item \cup Order \cup Txn \cup Promo

VARIABLES
    order,      \* [Order -> OrderRow]: table orders
    txn,        \* [Txn -> TxnRow]: table transactions, by provider_txn_id
    promo,      \* [Promo -> PromoRow]: table promocodes
    enrolled,   \* SUBSET (Buyer \X Item): tables enrollments, program_enrollments
    published,  \* SUBSET Item: rows whose status is PUBLISHED
    req         \* [Req -> Request]: the requests in flight, with what they loaded

db   == <<order, txn, promo, enrolled, published>>
vars == <<order, txn, promo, enrolled, published, req>>

-----------------------------------------------------------------------------
(* Rows and requests. *)

OrderStatus == {"pending", "processing", "paid", "cancelled", "refunded"}
TxnState    == {"created", "performed", "cancelled", "reversed"}

OrderRow == [buyer  : Buyer \cup {None},
             item   : Item \cup {None},
             status : OrderStatus \cup {"absent"},
             promo  : Promo \cup {None},
             amount : Nat]

\* performed: perform_time is set.
TxnRow == [order : Order \cup {None},
           state : TxnState \cup {"absent"},
           amount : Nat,
           performed : BOOLEAN]

\* usable: is_active and not expired; dead: revoked or past expires_at.
PromoRow == [state : {"absent", "usable", "dead", "deleted"}, uses : Nat]

NoOrder == [buyer |-> None, item |-> None, status |-> "absent",
            promo |-> None, amount |-> 0]
NoTxn   == [order |-> None, state |-> "absent", amount |-> 0,
            performed |-> FALSE]
NoPromo == [state |-> "absent", uses |-> 0]

\* at: the step a request takes next.
Stage == {"idle", "create.promo", "create.write", "cancel.write",
          "card.charge", "card.flush", "merchant.create", "perform.flush",
          "merchant.cancel", "granting", "revoke.write"}

Request == [at    : Stage,
            oid   : Order \cup {None},     \* the order row the request works on
            row   : OrderRow,              \* that row as it was loaded
            tid   : Txn \cup {None},       \* the transaction it works on
            state : TxnState \cup {"absent"}, \* that row's state as loaded
            promo : Promo \cup {None},     \* the code the buyer or the instructor named
            used  : BOOLEAN,               \* revoke: uses_count > 0 as loaded
            has   : SUBSET Item]           \* grant: the buyer's enrollments as loaded

Idle == [at |-> "idle", oid |-> None, row |-> NoOrder, tid |-> None,
         state |-> "absent", promo |-> None, used |-> FALSE, has |-> {}]

TypeOK ==
    /\ order \in [Order -> OrderRow]
    /\ txn \in [Txn -> TxnRow]
    /\ promo \in [Promo -> PromoRow]
    /\ enrolled \subseteq Buyer \X Item
    /\ published \subseteq Item
    /\ req \in [Req -> Request]

Init ==
    /\ order = [o \in Order |-> NoOrder]
    /\ txn = [t \in Txn |-> NoTxn]
    /\ promo = [p \in Promo |-> NoPromo]
    /\ enrolled = {}
    /\ published = Item
    /\ req = [r \in Req |-> Idle]

Begin(r, q) == req[r] = Idle /\ req' = [req EXCEPT ![r] = q]
Finish(r)   == req' = [req EXCEPT ![r] = Idle]

\* A request that has flushed its UPDATE of an order row holds the row lock
\* until it commits: another request's UPDATE of the row waits.
Locked(o) == \E r \in Req : req[r].at = "granting" /\ req[r].oid = o

-----------------------------------------------------------------------------
(* Promocode reservations: conditional UPDATEs of one row. *)

Redeemable(p) == promo[p].state = "usable" /\ promo[p].uses < MaxUses

Reserved(P, p) == IF p = None THEN P ELSE [P EXCEPT ![p].uses = @ + 1]

\* Mutant: the guard uses_count > 0 is dropped.
ReleasedUnguarded(P, p) ==
    IF p # None THEN [P EXCEPT ![p].uses = @ - 1] ELSE P

\* Mutant: the guard is off by one.
ReleasedOffByOne(P, p) ==
    IF p # None /\ P[p].uses > 1 THEN [P EXCEPT ![p].uses = @ - 1] ELSE P

Released(P, p) ==
    IF p # None /\ P[p].uses > 0 THEN [P EXCEPT ![p].uses = @ - 1] ELSE P

Amount(i, p) == IF p = None THEN Price[i] ELSE Price[i] - Discount[p]

-----------------------------------------------------------------------------
(* create_order *)

\* Mutant: the lookup of an order to re-use asks for PROCESSING.
HeldOrders(b, i) == {o \in Order : /\ order[o].buyer = b
                                   /\ order[o].item = i
                                   /\ order[o].status = "processing"}

PendingOrders(b, i) == {o \in Order : /\ order[o].buyer = b
                                      /\ order[o].item = i
                                      /\ order[o].status = "pending"}

\* The published item and the buyer's pending order for it are read; two
\* pending orders make scalar_one_or_none raise.
CreateOrder(r, b, i, p) ==
    /\ i \in published
    /\ p = None \/ i \in Course
    /\ LET start == [Idle EXCEPT !.at = IF p = None THEN "create.write"
                                                    ELSE "create.promo",
                                 !.promo = p]
       IN  \/ /\ PendingOrders(b, i) = {}
              /\ Begin(r, [start EXCEPT !.row.buyer = b, !.row.item = i])
           \/ \E o \in Order :
                /\ PendingOrders(b, i) = {o}
                /\ Begin(r, [start EXCEPT !.oid = o, !.row = order[o]])
    /\ UNCHANGED db

\* find_active_promocode_for_course: refuses an unknown, foreign, revoked,
\* expired or exhausted code before anything is written.
FindPromo(r) ==
    /\ req[r].at = "create.promo"
    /\ IF CourseOf[req[r].promo] = req[r].row.item /\ Redeemable(req[r].promo)
       THEN req' = [req EXCEPT ![r].at = "create.write"]
       ELSE Finish(r)
    /\ UNCHANGED db

\* Mutant: uses_count < max_uses is left to find_active_promocode_for_course.
CanReserveUnlimited(p) == p # None => promo[p].state = "usable"

CanReserve(p) == p # None => Redeemable(p)

\* No pending order was found: reserve the code and insert the order.  (Bound:
\* a request that finds all of Order in use ends like an aborted one.)
InsertOrder(r) ==
    LET q      == req[r]
        unused == {o \in Order : order[o].status = "absent"}
    IN
    /\ q.at = "create.write"
    /\ q.oid = None
    /\ \/ /\ CanReserve(q.promo)
          /\ promo' = Reserved(promo, q.promo)
          /\ \E o \in unused :
                order' = [order EXCEPT ![o] =
                    [q.row EXCEPT !.status = "pending", !.promo = q.promo,
                                  !.amount = Amount(q.row.item, q.promo)]]
       \/ /\ ~CanReserve(q.promo) \/ unused = {}
          /\ UNCHANGED <<order, promo>>
    /\ Finish(r)
    /\ UNCHANGED <<txn, enrolled, published>>

\* A pending order was found: with the same code it is returned untouched,
\* otherwise its reservation is swapped.  The status is not read again.
SwapPromo(r) ==
    LET q == req[r] IN
    /\ q.at = "create.write"
    /\ q.oid # None
    /\ IF q.row.promo # q.promo /\ CanReserve(q.promo)
       THEN /\ ~Locked(q.oid)
            /\ promo' = Reserved(Released(promo, q.row.promo), q.promo)
            /\ order' = [order EXCEPT
                    ![q.oid].promo = q.promo,
                    ![q.oid].amount = Amount(q.row.item, q.promo)]
       ELSE UNCHANGED <<order, promo>>
    /\ Finish(r)
    /\ UNCHANGED <<txn, enrolled, published>>

-----------------------------------------------------------------------------
(* cancel_order *)

\* Mutant: an order that has been paid can be cancelled too.
CancellableUnlessClosed(o) == order[o].status \in {"pending", "processing", "paid"}

Cancellable(o) == order[o].status \in {"pending", "processing"}

CancelOrder(r, o) ==
    /\ Cancellable(o)
    /\ Begin(r, [Idle EXCEPT !.at = "cancel.write", !.oid = o, !.row = order[o]])
    /\ UNCHANGED db

CancelOrderWrite(r) ==
    LET q == req[r] IN
    /\ q.at = "cancel.write"
    /\ ~Locked(q.oid)
    /\ promo' = Released(promo, q.row.promo)
    /\ order' = [order EXCEPT ![q.oid].status = "cancelled"]
    /\ Finish(r)
    /\ UNCHANGED <<txn, enrolled, published>>

-----------------------------------------------------------------------------
(* pay_with_card *)

\* Mutant: an order whose payment Payme holds open still awaits payment.
AwaitsPaymentOrHeld(o) == order[o].status \in {"pending", "processing"}

AwaitsPayment(o) == order[o].status = "pending"

PayWithCard(r, o) ==
    /\ AwaitsPayment(o)
    /\ Begin(r, [Idle EXCEPT !.at = "card.charge", !.oid = o, !.row = order[o]])
    /\ UNCHANGED db

\* receipts.create and receipts.pay: the provider answers with a receipt id of
\* its own and has taken the loaded amount.  (Bound: a request that finds all
\* of Receipt in use ends as if the provider had refused.)
ChargeCard(r) ==
    LET unused == {t \in Receipt : /\ txn[t].state = "absent"
                                   /\ \A s \in Req : req[s].tid # t}
    IN
    /\ req[r].at = "card.charge"
    /\ \/ \E t \in unused :
             req' = [req EXCEPT ![r].at = "card.flush", ![r].tid = t]
       \/ unused = {} /\ Finish(r)
    /\ UNCHANGED db

-----------------------------------------------------------------------------
(* Payme merchant callback *)

\* Mutant: the transaction is recorded with the price before the discount.
ListPrice(row) == Price[row.item]

\* The amount a transaction is recorded with: the loaded order's.
Charged(row) == row.amount

\* Mutant: no unique constraint on provider_txn_id.
RecordableAlways(t) == TRUE

\* uq_transactions_provider_txn_id refuses a second row with the same id.
Recordable(t) == txn[t].state = "absent"

\* CreateTransaction, an unknown id: the amount is compared with the loaded
\* order's, so the transaction carries that amount.
CreateTransaction(r, t, o) ==
    /\ AwaitsPayment(o)
    /\ txn[t].state = "absent"
    /\ Begin(r, [Idle EXCEPT !.at = "merchant.create", !.oid = o,
                             !.row = order[o], !.tid = t])
    /\ UNCHANGED db

CreateTransactionWrite(r) ==
    LET q == req[r] IN
    /\ q.at = "merchant.create"
    /\ ~Locked(q.oid)
    /\ IF Recordable(q.tid)
       THEN /\ txn' = [txn EXCEPT ![q.tid] =
                  [order |-> q.oid, state |-> "created",
                   amount |-> Charged(q.row), performed |-> FALSE]]
            /\ order' = [order EXCEPT ![q.oid].status = "processing"]
       ELSE UNCHANGED <<txn, order>>
    /\ Finish(r)
    /\ UNCHANGED <<promo, enrolled, published>>

\* The transaction and its order are loaded together.
LoadTransaction(r, t, at) ==
    LET o == txn[t].order IN
    /\ Begin(r, [Idle EXCEPT !.at = at, !.oid = o, !.row = order[o],
                             !.tid = t, !.state = txn[t].state])
    /\ UNCHANGED db

\* Mutant: a transaction Payme has cancelled can still be performed.
PerformCancelled(r, t) ==
    /\ txn[t].state \in {"created", "cancelled"}
    /\ LoadTransaction(r, t, "perform.flush")

PerformTransaction(r, t) ==
    /\ txn[t].state = "created"
    /\ LoadTransaction(r, t, "perform.flush")

CancelTransaction(r, t) ==
    /\ txn[t].state \in {"created", "performed"}
    /\ LoadTransaction(r, t, "merchant.cancel")

\* Mutant: a transaction that was only created is refunded.
IsRefundWhenOpen(state) == state \in {"created", "performed"}

IsRefund(state) == state = "performed"

\* Mutant: a cancelled payment gives the order back to its buyer.
StatusReopened(state) == IF IsRefund(state) THEN "refunded" ELSE "pending"

StatusAfterCancel(state) == IF IsRefund(state) THEN "refunded" ELSE "cancelled"

\* A performed transaction is reversed and its order refunded; a created one
\* is cancelled and its order's reservation released.
CancelTransactionWrite(r) ==
    LET q      == req[r]
        refund == IsRefund(q.state)
        status == StatusAfterCancel(q.state)
    IN
    /\ q.at = "merchant.cancel"
    /\ ~Locked(q.oid)
    /\ txn' = [txn EXCEPT ![q.tid].state = IF refund THEN "reversed"
                                                     ELSE "cancelled"]
    /\ promo' = IF refund THEN promo ELSE Released(promo, q.row.promo)
    /\ order' = IF q.row.status = status
                THEN order
                ELSE [order EXCEPT ![q.oid].status = status]
    /\ Finish(r)
    /\ UNCHANGED <<enrolled, published>>

-----------------------------------------------------------------------------
(* _grant_entitlement, on behalf of pay_with_card and PerformTransaction *)

HasOf(b) == {i \in Item : <<b, i>> \in enrolled}

\* What an item entitles to: itself and, of a program, the required courses.
Entitlement(i) == {i} \cup (IF i \in Program THEN Required[i] ELSE {})

\* Mutant: a program is granted without its courses.
GrantedAlone(i, has) == {i} \ has

\* Mutant: enrollments the buyer already has are inserted again.
GrantedAgain(i, has) == Entitlement(i)

\* The rows enroll / enroll_in_program inserts for a buyer seen with has.
Granted(i, has) == IF i \in has THEN {} ELSE Entitlement(i) \ has

\* The order and transaction are flushed; the grant reads the item and the
\* buyer's enrollments.  An item that is no longer published raises and the
\* session rolls back.
GrantFlush(r) ==
    /\ req[r].at \in {"card.flush", "perform.flush"}
    /\ ~Locked(req[r].oid)
    /\ IF req[r].row.item \in published
       THEN req' = [req EXCEPT ![r].at = "granting",
                               ![r].has = HasOf(req[r].row.buyer)]
       ELSE Finish(r)
    /\ UNCHANGED db

\* Transaction, order and enrollments commit together, or the unique
\* constraint on an enrollment another request inserted rolls all back.
GrantCommit(r) ==
    LET q     == req[r]
        grant == {q.row.buyer} \X Granted(q.row.item, q.has)
    IN
    /\ q.at = "granting"
    /\ IF grant \cap enrolled = {}
       THEN /\ enrolled' = enrolled \cup grant
            /\ txn' = [txn EXCEPT ![q.tid] =
                  IF q.state = "absent"
                  THEN [order |-> q.oid, state |-> "performed",
                        amount |-> Charged(q.row), performed |-> TRUE]
                  ELSE [@ EXCEPT !.state = "performed", !.performed = TRUE]]
            /\ order' = IF q.row.status = "paid"
                        THEN order
                        ELSE [order EXCEPT ![q.oid].status = "paid"]
       ELSE UNCHANGED <<enrolled, txn, order>>
    /\ Finish(r)
    /\ UNCHANGED <<promo, published>>

-----------------------------------------------------------------------------
(* Promocode administration *)

CreatePromocode(p) ==
    /\ promo[p].state = "absent"
    /\ promo' = [promo EXCEPT ![p] = [state |-> "usable", uses |-> 0]]
    /\ UNCHANGED <<order, txn, enrolled, published, req>>

RevokePromocode(r, p) ==
    /\ promo[p].state \in {"usable", "dead"}
    /\ Begin(r, [Idle EXCEPT !.at = "revoke.write", !.promo = p,
                             !.used = promo[p].uses > 0])
    /\ UNCHANGED db

\* A code seen in use is deactivated, one seen unused is deleted, and the
\* foreign key of the orders that hold it is set to NULL.
RevokePromocodeWrite(r) ==
    LET p       == req[r].promo
        holders == {o \in Order : order[o].promo = p}
    IN
    /\ req[r].at = "revoke.write"
    /\ \/ /\ promo[p].state = "deleted"
          /\ UNCHANGED <<promo, order>>
       \/ /\ promo[p].state # "deleted"
          /\ req[r].used
          /\ promo' = [promo EXCEPT ![p].state = "dead"]
          /\ UNCHANGED order
       \/ /\ promo[p].state # "deleted"
          /\ ~req[r].used
          /\ \A o \in holders : ~Locked(o)
          /\ promo' = [promo EXCEPT ![p] = [state |-> "deleted", uses |-> 0]]
          /\ order' = [o \in Order |-> IF o \in holders
                                       THEN [order[o] EXCEPT !.promo = None]
                                       ELSE order[o]]
    /\ Finish(r)
    /\ UNCHANGED <<txn, enrolled, published>>

\* The clock passes expires_at.
ExpirePromocode(p) ==
    /\ promo[p].state = "usable"
    /\ promo' = [promo EXCEPT ![p].state = "dead"]
    /\ UNCHANGED <<order, txn, enrolled, published, req>>

-----------------------------------------------------------------------------
(* The rest of the application, as far as checkout depends on it *)

\* POST /me/enrollments and /programs/{id}/enroll.
Enroll(b, i) ==
    /\ i \in published
    /\ enrolled' = enrolled \cup ({b} \X Granted(i, HasOf(b)))
    /\ UNCHANGED <<order, txn, promo, published, req>>

\* An instructor or an administrator publishes or withdraws an item.
SetPublished(i) ==
    /\ published' = IF i \in published THEN published \ {i}
                                       ELSE published \cup {i}
    /\ UNCHANGED <<order, txn, promo, enrolled, req>>

\* The process dies, the client disconnects or the provider call raises: the
\* session is closed without a commit.
Abort(r) ==
    /\ req[r] # Idle
    /\ Finish(r)
    /\ UNCHANGED db

-----------------------------------------------------------------------------
Arrive(r) ==
    \/ \E b \in Buyer, i \in Item, p \in Promo \cup {None} : CreateOrder(r, b, i, p)
    \/ \E o \in Order : CancelOrder(r, o) \/ PayWithCard(r, o)
    \/ \E t \in PaymeTxn, o \in Order : CreateTransaction(r, t, o)
    \/ \E t \in Txn : PerformTransaction(r, t) \/ CancelTransaction(r, t)
    \/ \E p \in Promo : RevokePromocode(r, p)

Continue(r) ==
    \/ FindPromo(r) \/ InsertOrder(r) \/ SwapPromo(r)
    \/ CancelOrderWrite(r)
    \/ ChargeCard(r)
    \/ CreateTransactionWrite(r) \/ CancelTransactionWrite(r)
    \/ GrantFlush(r) \/ GrantCommit(r)
    \/ RevokePromocodeWrite(r)

Environment ==
    \/ \E p \in Promo : CreatePromocode(p) \/ ExpirePromocode(p)
    \/ \E b \in Buyer, i \in Item : Enroll(b, i)
    \/ \E i \in Item : SetPublished(i)

Next ==
    \/ \E r \in Req : Arrive(r) \/ Continue(r) \/ Abort(r)
    \/ Environment

Spec == Init /\ [][Next]_vars

\* The event loop resumes every handler and PostgreSQL queues lock waiters, so
\* a request in flight that can go on again and again does go on.  Payme
\* repeats PerformTransaction until it is answered with a final state.
FairSpec ==
    /\ Spec
    /\ \A r \in Req : SF_vars(Continue(r))
    /\ \A t \in PaymeTxn : SF_vars(\E r \in Req : PerformTransaction(r, t))

-----------------------------------------------------------------------------
(* What holds however many requests are in flight *)

Performed(o) == {t \in Txn : txn[t].order = o /\ txn[t].performed}

\* Promocode: CHECK (uses_count >= 0 AND uses_count <= max_uses), and a deleted
\* code holds no reservation, although release and try_reserve never lock the
\* row between the read and the write of create_order.
UsesWithinMax ==
    \A p \in Promo : /\ promo[p].uses \in 0 .. MaxUses
                     /\ promo[p].state \in {"absent", "deleted"} => promo[p].uses = 0

\* OrderStatus.PAID, "confirmed; entitlement granted": the buyer of a paid
\* order is enrolled in its item, and in every required course of a program,
\* also when enrollments, cancellations and withdrawals race with the payment.
PaidIsEntitled ==
    \A o \in Order : order[o].status = "paid" =>
        LET b == order[o].buyer
            i == order[o].item
        IN  {b} \X Entitlement(i) \subseteq enrolled

\* Money stands behind a paid or refunded order: one of its transactions has
\* been performed, whatever races with PerformTransaction and pay_with_card.
PaidWasPerformed ==
    \A o \in Order : order[o].status \in {"paid", "refunded"} => Performed(o) # {}

\* A pending order, which create_order may still re-price and re-use, has no
\* transaction: the insert of a transaction always moves its order on.
PendingIsUncharged ==
    \A t \in Txn : txn[t].order # None => order[txn[t].order].status # "pending"

\* uq_transactions_provider_txn_id: retried and concurrent merchant calls never
\* re-bind a transaction to another order or amount, never un-perform it and
\* never re-open it.
TransactionFixed ==
    [][\A t \in Txn : txn[t].state # "absent" =>
         /\ txn'[t].order = txn[t].order
         /\ txn'[t].amount = txn[t].amount
         /\ txn[t].performed => txn'[t].performed
         /\ txn'[t].state = "created" => txn[t].state = "created"]_vars

\* A transaction Payme has opened is settled by Payme's retries, although
\* attempts collide with other enrollments, payments and cancellations,
\* provided the item stays published and, from some time on, handlers end only
\* as their own code ends them.
RetriesSettle ==
    <>[](published = Item) /\ <>[][\A r \in Req : Abort(r) => Continue(r)]_vars
        => \A t \in PaymeTxn : txn[t].state = "created" ~> txn[t].state # "created"

-----------------------------------------------------------------------------
(* What the handlers promise when requests do not overlap *)

\* The two tables agree: a transaction's state fixes its order's status, but
\* for the order its buyer cancelled while the transaction was open.
TablesAgree ==
    \A t \in Txn : txn[t].order # None =>
        order[txn[t].order].status \in
            CASE txn[t].state = "created"   -> {"processing", "cancelled"}
              [] txn[t].state = "performed" -> {"paid"}
              [] txn[t].state = "cancelled" -> {"cancelled"}
              [] txn[t].state = "reversed"  -> {"refunded"}

\* The money of an order is recorded as taken at most once, through whatever
\* receipts and merchant calls it is attempted, repeated, cancelled and refunded:
\* pay_with_card and CreateTransaction take only an order that awaits payment.
PaidOnce == \A o \in Order : \A t, u \in Performed(o) : t = u

\* create_order re-uses the pending order of the buyer's item.
OnePendingOrder ==
    \A o, n \in Order :
        /\ order[o].status = "pending" /\ order[n].status = "pending"
        /\ order[o].buyer = order[n].buyer /\ order[o].item = order[n].item
        => o = n

\* models/payment.py: amount_cents is what Payme charges.
ChargedIsAmount ==
    \A t \in Txn : txn[t].order # None => txn[t].amount = order[txn[t].order].amount

\* The live orders that carry a code.
Holders(p) == {o \in Order : /\ order[o].promo = p
                             /\ order[o].status \notin {"absent", "cancelled"}}

\* No reservation leaks: every use of a code is held by a live order.
NoLeakedReservation ==
    \A p \in Promo : promo[p].uses <= Cardinality(Holders(p))

-----------------------------------------------------------------------------
(* What the documentation says and the handlers do not keep *)

\* models/promocode.py: single-use.  At most MaxUses orders are paid with a
\* code's discount.
SingleUse ==
    \A p \in Promo :
        Cardinality({o \in Order : order[o].promo = p /\ order[o].status = "paid"})
            <= MaxUses

=============================================================================
