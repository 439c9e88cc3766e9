--------------------------- MODULE CheckoutProofs ---------------------------
(***************************************************************************)
(* The properties of Checkout, proved for every value of the constants.    *)
(*                                                                         *)
(* However many requests are in flight: the inductive invariant IInv says  *)
(* what a request may rely on although the rows it loaded may be stale:    *)
(* the identity columns of its order, the order its transaction names, the *)
(* enrollments it saw, and that nobody else writes the receipt the         *)
(* provider gave it.                                                       *)
(*                                                                         *)
(* One request at a time: SeqInv adds that what the request loaded is      *)
(* still what is there, and the books that are then kept; from it follows  *)
(* that Checkout implements Purchase.                                      *)
(***************************************************************************)
EXTENDS CheckoutPurchase, FiniteSetTheorems, TLAPS

CardStages  == {"card.charge", "card.flush"}
TxnStages   == {"perform.flush", "merchant.cancel"}
OrderStages == CardStages \cup TxnStages
                 \cup {"cancel.write", "merchant.create", "granting"}

\* What is left of the order row a request loaded: its buyer and its item.
LoadedOrder(q) ==
    q.oid # None =>
        /\ q.oid \in Order
        /\ order[q.oid].status # "absent"
        /\ q.row.buyer = order[q.oid].buyer
        /\ q.row.item = order[q.oid].item

\* What is left of the transaction row a merchant call loaded.
LoadedTxn(q) ==
    /\ q.at \in TxnStages \/ (q.at = "granting" /\ q.state # "absent") =>
         /\ q.tid \in Txn
         /\ txn[q.tid].order = q.oid
         /\ q.state \in {"created", "performed"}
         /\ q.state = "performed" => txn[q.tid].performed
         /\ q.at \in {"perform.flush", "granting"} => q.state = "created"
    /\ q.at = "merchant.create" => q.tid \in PaymeTxn

\* The request owns a receipt it has yet to record.
OwnsReceipt(q) == q.at = "card.flush" \/ (q.at = "granting" /\ q.state = "absent")

\* A card payment was begun on a pending order and owns its receipt.
LoadedCard(q) ==
    /\ q.at \in CardStages => q.state = "absent"
    /\ q.at \in CardStages \/ OwnsReceipt(q) => q.row.status = "pending"
    /\ OwnsReceipt(q) =>
         /\ q.tid \in Receipt
         /\ txn[q.tid].state = "absent"

\* What the request knows of the code and of the enrollments it has read.
LoadedRest(q) ==
    /\ q.at \in {"create.promo", "create.write"} =>
         /\ q.row.buyer \in Buyer
         /\ q.row.item \in Item
    /\ q.at \in {"create.promo", "revoke.write"} => q.promo # None
    /\ q.at = "create.write" /\ q.promo # None => CourseOf[q.promo] = q.row.item
    /\ q.at \in OrderStages => q.oid # None
    /\ q.at = "granting" => q.has \subseteq HasOf(q.row.buyer)

RequestOK(q) == LoadedOrder(q) /\ LoadedTxn(q) /\ LoadedCard(q) /\ LoadedRest(q)

RequestsOK == \A r \in Req : RequestOK(req[r])

OneOwner == \A r, s \in Req :
    OwnsReceipt(req[r]) /\ OwnsReceipt(req[s]) /\ req[r].tid = req[s].tid => r = s

OrdersOK ==
    \A o \in Order : order[o].status # "absent" =>
        order[o].buyer \in Buyer /\ order[o].item \in Item

TxnsOK ==
    \A t \in Txn :
        /\ txn[t].state = "absent" <=> txn[t].order = None
        /\ txn[t].state = "performed" => txn[t].performed
        /\ txn[t].order # None =>
             order[txn[t].order].status \notin {"absent", "pending"}

\* Whoever is enrolled in a program is enrolled in its required courses.
EnrolledClosed ==
    \A b \in Buyer, g \in Program :
        <<b, g>> \in enrolled => {b} \X Required[g] \subseteq enrolled

IInv == /\ TypeOK /\ RequestsOK /\ OneOwner /\ OrdersOK /\ TxnsOK
        /\ EnrolledClosed /\ UsesWithinMax /\ PaidIsEntitled /\ PaidWasPerformed

-----------------------------------------------------------------------------
(* Idle requests, and steps that change nothing but one request *)

\* What no step takes back, whatever it writes.
Stable ==
    /\ \A o \in Order : order[o].status # "absent" =>
         /\ order'[o].status # "absent"
         /\ order'[o].buyer = order[o].buyer
         /\ order'[o].item = order[o].item
    /\ \A t \in Txn : txn[t].state # "absent" =>
         /\ txn'[t].order = txn[t].order
         /\ txn'[t].amount = txn[t].amount
         /\ txn[t].performed => txn'[t].performed
         /\ txn'[t].state # "absent"
         /\ txn'[t].state = "created" => txn[t].state = "created"
    /\ enrolled \subseteq enrolled'

\* An idle request is well typed and relies on nothing.
LEMMA IdleOK == Idle \in Request /\ RequestOK(Idle) /\ ~OwnsReceipt(Idle)
  BY DEF Idle, Request, Stage, OrderRow, NoOrder, RequestOK, LoadedOrder, LoadedTxn,
         LoadedCard, LoadedRest, OwnsReceipt, CardStages, TxnStages, OrderStages

\* A request keeps what it relies on when others write rows, as long as they
\* do not record the receipt it owns.
LEMMA RequestKept ==
  ASSUME NEW q \in Request, RequestOK(q), TxnsOK, Stable,
         OwnsReceipt(q) => txn'[q.tid].state = "absent"
  PROVE  RequestOK(q)'
  <1>1. LoadedOrder(q)'
    BY DEF RequestOK, LoadedOrder, Stable
  <1>2. LoadedTxn(q)'
    <2>1. q.oid \in Order \/ q.oid = None
      BY DEF Request
    <2>2. ASSUME q.at \in TxnStages \/ (q.at = "granting" /\ q.state # "absent")
          PROVE  txn[q.tid].state # "absent"
      <3>1. q.tid \in Txn /\ txn[q.tid].order = q.oid /\ q.oid # None
        BY <2>2 DEF RequestOK, LoadedTxn, LoadedRest, TxnStages, OrderStages
      <3>2. QED  BY <3>1 DEF TxnsOK
    <2>3. QED  BY <2>2 DEF RequestOK, LoadedTxn, Stable
  <1>3. LoadedCard(q)'
    BY DEF RequestOK, LoadedCard, OwnsReceipt
  <1>4. LoadedRest(q)'
    BY DEF RequestOK, LoadedRest, Stable, HasOf
  <1>5. QED  BY <1>1, <1>2, <1>3, <1>4 DEF RequestOK

\* A step that leaves the database alone and gives one request a new state
\* keeps the invariant if that state relies on what is true.
LEMMA RequestStep ==
  ASSUME IInv, UNCHANGED db, NEW r \in Req, NEW q \in Request, RequestOK(q),
         req' = [req EXCEPT ![r] = q],
         \A s \in Req \ {r} : ~(OwnsReceipt(q) /\ OwnsReceipt(req[s]) /\ q.tid = req[s].tid)
  PROVE  IInv'
  <1>1. TypeOK'
    BY DEF IInv, TypeOK, db
  <1>2. \A s \in Req : req'[s] = IF s = r THEN q ELSE req[s]
    BY DEF IInv, TypeOK
  <1>3. RequestsOK'
    <2>1. \A s \in Req : RequestOK(req'[s])
      BY <1>2 DEF IInv, RequestsOK
    <2>2. ASSUME NEW x, RequestOK(x)
          PROVE  RequestOK(x)'
      BY <2>2 DEF db, RequestOK, LoadedOrder, LoadedTxn, LoadedCard, LoadedRest, HasOf
    <2>3. QED  BY <2>1, <2>2 DEF RequestsOK
  <1>4. OneOwner'
    BY <1>2 DEF IInv, OneOwner
  <1>5. /\ OrdersOK' /\ TxnsOK' /\ EnrolledClosed' /\ UsesWithinMax'
        /\ PaidIsEntitled' /\ PaidWasPerformed'
    BY DEF IInv, db, OrdersOK, TxnsOK, EnrolledClosed, UsesWithinMax, PaidIsEntitled,
           PaidWasPerformed, Performed
  <1>6. QED  BY <1>1, <1>3, <1>4, <1>5 DEF IInv

-----------------------------------------------------------------------------
(* Requests arrive: they load rows and write nothing *)

\* An idle request that begins by loading what is there keeps the invariant.
LEMMA BeginStep ==
  ASSUME IInv, UNCHANGED db, NEW r \in Req, NEW q \in Request, RequestOK(q),
         ~OwnsReceipt(q), Begin(r, q)
  PROVE  IInv'
  BY RequestStep DEF Begin

\* The loads a handler begins with keep the invariant and take nothing back.
LEMMA ArriveStep ==
  ASSUME IInv, NEW r \in Req, Arrive(r)
  PROVE  IInv'
  <1> USE DEF IInv, TypeOK, RequestsOK
  <1>1. CASE \E b \in Buyer, i \in Item, p \in Promo \cup {None} : CreateOrder(r, b, i, p)
    <2>1. PICK b \in Buyer, i \in Item, p \in Promo \cup {None} : CreateOrder(r, b, i, p)
      BY <1>1
    <2> DEFINE at == IF p = None THEN "create.write" ELSE "create.promo"
               new == [Idle EXCEPT !.at = at, !.promo = p,
                                   !.row = [NoOrder EXCEPT !.buyer = b, !.item = i]]
               old(o) == [Idle EXCEPT !.at = at, !.promo = p, !.oid = o, !.row = order[o]]
    <2>2. /\ UNCHANGED db
          /\ \/ Begin(r, new)
             \/ \E o \in Order : /\ order[o].status = "pending"
                                 /\ order[o].buyer = b /\ order[o].item = i
                                 /\ Begin(r, old(o))
      <3>1. CASE PendingOrders(b, i) = {}
        BY <2>1, <3>1, ZenonT(60) DEF CreateOrder, Idle, NoOrder
      <3>2. ASSUME NEW o \in Order, PendingOrders(b, i) = {o}
            PROVE  /\ order[o].status = "pending"
                   /\ order[o].buyer = b /\ order[o].item = i
        BY <3>2 DEF PendingOrders
      <3>3. QED  BY <2>1, <3>1, <3>2 DEF CreateOrder, Idle
    <2>3. new \in Request /\ RequestOK(new) /\ ~OwnsReceipt(new)
      <3>1. new \in Request
        BY ZenonT(60) DEF Idle, NoOrder, OrderRow, Request, Stage
      <3>2. QED
        BY <3>1, ZenonT(60) DEF Idle, NoOrder, RequestOK, LoadedOrder, LoadedTxn, LoadedCard, LoadedRest,
           OwnsReceipt, CardStages, TxnStages, OrderStages
    <2>4. ASSUME NEW o \in Order, order[o].status = "pending",
                 order[o].buyer = b, order[o].item = i
          PROVE  old(o) \in Request /\ RequestOK(old(o)) /\ ~OwnsReceipt(old(o))
      <3>1. old(o) \in Request
        BY DEF Idle, Request, Stage
      <3>2. LoadedOrder(old(o)) /\ ~OwnsReceipt(old(o))
        BY <2>4 DEF Idle, LoadedOrder, OwnsReceipt
      <3>3. LoadedTxn(old(o)) /\ LoadedCard(old(o)) /\ LoadedRest(old(o))
        BY <2>4 DEF Idle, LoadedTxn, LoadedCard, LoadedRest, OwnsReceipt,
           CardStages, TxnStages, OrderStages
      <3>4. QED  BY <3>1, <3>2, <3>3 DEF RequestOK
    <2>5. QED  BY <2>2, <2>3, <2>4, BeginStep
  <1>2. CASE \E o \in Order : CancelOrder(r, o) \/ PayWithCard(r, o)
    <2>1. PICK o \in Order : CancelOrder(r, o) \/ PayWithCard(r, o)
      BY <1>2
    <2> DEFINE q(at) == [Idle EXCEPT !.at = at, !.oid = o, !.row = order[o]]
    <2>2. CASE CancelOrder(r, o)
      <3>1. order[o].status # "absent"
        BY <2>2 DEF CancelOrder, Cancellable
      <3>2. q("cancel.write") \in Request
        BY DEF Idle, Request, Stage
      <3>3. RequestOK(q("cancel.write")) /\ ~OwnsReceipt(q("cancel.write"))
        BY <2>2, <3>1, ConstantsOK DEF CancelOrder, Cancellable, Idle, RequestOK, LoadedOrder, LoadedTxn,
             LoadedCard, LoadedRest, OwnsReceipt, CardStages, TxnStages, OrderStages
      <3>4. QED  BY <2>2, <3>2, <3>3, BeginStep DEF CancelOrder
    <2>3. CASE PayWithCard(r, o)
      <3>1. order[o].status # "absent"
        BY <2>3 DEF PayWithCard, AwaitsPayment
      <3>2. q("card.charge") \in Request
        BY DEF Idle, Request, Stage
      <3>3. RequestOK(q("card.charge")) /\ ~OwnsReceipt(q("card.charge"))
        BY <2>3, <3>1, ConstantsOK DEF PayWithCard, AwaitsPayment, Idle, RequestOK, LoadedOrder, LoadedTxn,
             LoadedCard, LoadedRest, OwnsReceipt, CardStages, TxnStages, OrderStages
      <3>4. QED  BY <2>3, <3>2, <3>3, BeginStep DEF PayWithCard
    <2>4. QED  BY <2>1, <2>2, <2>3
  <1>3. CASE \E t \in PaymeTxn, o \in Order : CreateTransaction(r, t, o)
    <2>1. PICK t \in PaymeTxn, o \in Order : CreateTransaction(r, t, o)
      BY <1>3
    <2> DEFINE q == [Idle EXCEPT !.at = "merchant.create", !.oid = o,
                                 !.row = order[o], !.tid = t]
    <2>2. t \in Txn
      BY DEF Txn
    <2>3. q \in Request
      BY <2>2 DEF Idle, Request, Stage
    <2>4. RequestOK(q) /\ ~OwnsReceipt(q)
      BY <2>1, ConstantsOK DEF CreateTransaction, AwaitsPayment, Idle, RequestOK, LoadedOrder, LoadedTxn,
           LoadedCard, LoadedRest, OwnsReceipt, CardStages, TxnStages, OrderStages
    <2>5. QED  BY <2>1, <2>3, <2>4, BeginStep DEF CreateTransaction
  <1>4. CASE \E t \in Txn : PerformTransaction(r, t) \/ CancelTransaction(r, t)
    <2>1. PICK t \in Txn : PerformTransaction(r, t) \/ CancelTransaction(r, t)
      BY <1>4
    <2>2. /\ txn[t].state \in {"created", "performed"}
          /\ txn[t].order \in Order
          /\ order[txn[t].order].status # "absent"
      BY <2>1 DEF PerformTransaction, CancelTransaction, TxnsOK, TxnRow
    <2> DEFINE q(at) == [Idle EXCEPT !.at = at, !.oid = txn[t].order,
                             !.row = order[txn[t].order], !.tid = t, !.state = txn[t].state]
    <2>3. CASE PerformTransaction(r, t)
      <3>1. txn[t].state = "created"
        BY <2>3 DEF PerformTransaction
      <3>2. q("perform.flush") \in Request
        BY <2>2 DEF Idle, Request, Stage, TxnState
      <3>3. LoadedTxn(q("perform.flush"))
        BY <2>2, <3>1 DEF Idle, LoadedTxn, TxnStages
      <3>4. RequestOK(q("perform.flush")) /\ ~OwnsReceipt(q("perform.flush"))
        BY <2>2, <3>3, ConstantsOK DEF Idle, RequestOK, LoadedOrder, LoadedCard, LoadedRest,
             OwnsReceipt, CardStages, TxnStages, OrderStages
      <3>5. QED  BY <2>3, <3>2, <3>4, BeginStep DEF PerformTransaction, LoadTransaction
    <2>4. CASE CancelTransaction(r, t)
      <3>1. txn[t].state = "performed" => txn[t].performed
        BY DEF TxnsOK
      <3>2. q("merchant.cancel") \in Request
        BY <2>2 DEF Idle, Request, Stage, TxnState
      <3>3. LoadedTxn(q("merchant.cancel"))
        BY <2>2, <3>1 DEF Idle, LoadedTxn, TxnStages
      <3>4. RequestOK(q("merchant.cancel")) /\ ~OwnsReceipt(q("merchant.cancel"))
        BY <2>2, <3>3, ConstantsOK DEF Idle, RequestOK, LoadedOrder, LoadedCard, LoadedRest,
             OwnsReceipt, CardStages, TxnStages, OrderStages
      <3>5. QED  BY <2>4, <3>2, <3>4, BeginStep DEF CancelTransaction, LoadTransaction
    <2>5. QED  BY <2>1, <2>3, <2>4
  <1>5. CASE \E p \in Promo : RevokePromocode(r, p)
    <2>1. PICK p \in Promo : RevokePromocode(r, p)
      BY <1>5
    <2> DEFINE q == [Idle EXCEPT !.at = "revoke.write", !.promo = p,
                                 !.used = promo[p].uses > 0]
    <2>2. (promo[p].uses > 0) \in BOOLEAN
      OBVIOUS
    <2>3. q \in Request
      BY <2>2, IdleOK DEF Idle, Request, Stage
    <2>4. RequestOK(q) /\ ~OwnsReceipt(q)
      BY ConstantsOK DEF Idle, RequestOK, LoadedOrder, LoadedTxn, LoadedCard, LoadedRest,
           OwnsReceipt, CardStages, TxnStages, OrderStages
    <2>5. QED  BY <2>1, <2>3, <2>4, BeginStep DEF RevokePromocode
  <1>6. QED  BY <1>1, <1>2, <1>3, <1>4, <1>5 DEF Arrive


-----------------------------------------------------------------------------
(* Requests in flight: steps that write no row *)

\* A request that ends without having written keeps the invariant.
LEMMA EndStep ==
  ASSUME IInv, NEW r \in Req, Finish(r), UNCHANGED db
  PROVE  IInv'
  BY IdleOK, RequestStep DEF Finish

\* Looking the code up, charging the card, flushing the payment and losing the
\* session change one request; a charge takes a receipt nobody else owns.
LEMMA QuietStep ==
  ASSUME IInv, NEW r \in Req,
         FindPromo(r) \/ ChargeCard(r) \/ GrantFlush(r) \/ Abort(r)
  PROVE  IInv' /\ UNCHANGED db
  <1>1. TypeOK /\ req[r] \in Request /\ RequestOK(req[r]) /\ OneOwner
    BY DEF IInv, TypeOK, RequestsOK
  <1>2. UNCHANGED db
    BY DEF FindPromo, ChargeCard, GrantFlush, Abort
  <1>3. ASSUME Finish(r)
        PROVE  IInv'
    BY <1>2, <1>3, EndStep
  <1>4. CASE FindPromo(r) /\ ~Finish(r)
    <2> DEFINE q == [req[r] EXCEPT !.at = "create.write"]
    <2>1. /\ req[r].at = "create.promo"
          /\ CourseOf[req[r].promo] = req[r].row.item
          /\ req' = [req EXCEPT ![r] = q]
      BY <1>4 DEF FindPromo
    <2>2. q \in Request
      BY <1>1 DEF Request, Stage
    <2>3. RequestOK(q) /\ ~OwnsReceipt(q)
      BY <1>1, <2>1 DEF Request, RequestOK, LoadedOrder, LoadedTxn, LoadedCard, LoadedRest,
           OwnsReceipt, CardStages, TxnStages, OrderStages
    <2>4. QED  BY <1>2, <2>1, <2>2, <2>3, RequestStep
  <1>5. CASE ChargeCard(r) /\ ~Finish(r)
    <2>1. PICK t \in Receipt :
            /\ txn[t].state = "absent"
            /\ \A s \in Req : req[s].tid # t
            /\ req' = [req EXCEPT ![r].at = "card.flush", ![r].tid = t]
      BY <1>5 DEF ChargeCard
    <2> DEFINE q == [req[r] EXCEPT !.at = "card.flush", !.tid = t]
    <2>2. req[r].at = "card.charge" /\ req' = [req EXCEPT ![r] = q]
      BY <1>5, <2>1 DEF ChargeCard
    <2>3. q \in Request
      BY <1>1 DEF Request, Stage, Txn
    <2>4. RequestOK(q)
      BY <1>1, <2>1, <2>2 DEF Request, RequestOK, LoadedOrder, LoadedTxn, LoadedCard,
           LoadedRest, OwnsReceipt, CardStages, TxnStages, OrderStages
    <2>5. \A s \in Req \ {r} : q.tid # req[s].tid
      BY <1>1, <2>1 DEF Request
    <2>6. QED  BY <1>2, <2>2, <2>3, <2>4, <2>5, RequestStep
  <1>6. CASE GrantFlush(r) /\ ~Finish(r)
    <2> DEFINE q == [req[r] EXCEPT !.at = "granting", !.has = HasOf(req[r].row.buyer)]
    <2>1. req[r].at \in {"card.flush", "perform.flush"} /\ req' = [req EXCEPT ![r] = q]
      BY <1>6 DEF GrantFlush
    <2>2. q \in Request
      BY <1>1 DEF TypeOK, Request, Stage, HasOf
    <2>3. RequestOK(q)
      BY <1>1, <2>1 DEF Request, RequestOK, LoadedOrder, LoadedTxn, LoadedCard, LoadedRest,
           OwnsReceipt, CardStages, TxnStages, OrderStages
    <2>4. OwnsReceipt(q) => OwnsReceipt(req[r])
      BY <1>1, <2>1 DEF Request, RequestOK, LoadedTxn, OwnsReceipt, TxnStages
    <2>5. \A s \in Req \ {r} :
            ~(OwnsReceipt(q) /\ OwnsReceipt(req[s]) /\ q.tid = req[s].tid)
      BY <1>1, <2>4 DEF OneOwner, Request
    <2>6. QED  BY <1>2, <2>1, <2>2, <2>3, <2>5, RequestStep
  <1>7. QED  BY <1>2, <1>3, <1>4, <1>5, <1>6 DEF Abort


-----------------------------------------------------------------------------
(* Steps that write rows *)

\* The end of a request leaves the others with what they rely on, if the rows
\* it wrote changed only as Stable allows and are not receipts others own.
LEMMA FinishStep ==
  ASSUME IInv, NEW r \in Req, Finish(r), Stable,
         \A s \in Req \ {r} : OwnsReceipt(req[s]) => txn'[req[s].tid].state = "absent"
  PROVE  req' \in [Req -> Request] /\ RequestsOK' /\ OneOwner'
  <1>1. \A s \in Req : req[s] \in Request /\ RequestOK(req[s])
    BY DEF IInv, TypeOK, RequestsOK
  <1>2. \A s \in Req : req'[s] = IF s = r THEN Idle ELSE req[s]
    BY DEF IInv, TypeOK, Finish
  <1>3. \A s \in Req \ {r} : RequestOK(req[s])'
    <2>1. \A q \in Request :
            /\ RequestOK(q)
            /\ OwnsReceipt(q) => txn'[q.tid].state = "absent"
            => RequestOK(q)'
      BY RequestKept DEF IInv
    <2>2. TAKE s \in Req \ {r}
    <2>3. PICK q \in Request : q = req[s]
      BY <1>1
    <2>4. req'[s] = q
      BY <1>2, <2>3
    <2>5. RequestOK(q)'
      BY <1>1, <2>1, <2>3
    <2>6. QED  BY <2>4, <2>5
  <1>4. RequestOK(Idle)'
    BY IdleOK, RequestKept DEF IInv
  <1>5. QED
    BY <1>1, <1>2, <1>3, <1>4, IdleOK DEF IInv, TypeOK, Finish, RequestsOK, OneOwner


\* An order that was paid stays entitled and paid for: an enrollment is never
\* taken back and a payment stays made.
LEMMA EntitledKept ==
  ASSUME IInv, Stable, NEW o \in Order, order[o].status = "paid"
  PROVE  {order'[o].buyer} \X Entitlement(order'[o].item) \subseteq enrolled'
  <1>1. order'[o].buyer = order[o].buyer /\ order'[o].item = order[o].item
    BY DEF Stable
  <1>2. {order[o].buyer} \X Entitlement(order[o].item) \subseteq enrolled
    BY DEF IInv, PaidIsEntitled
  <1>3. QED  BY <1>1, <1>2 DEF Stable

\* An order one of whose transactions was performed stays such an order.
LEMMA PerformedKept ==
  ASSUME IInv, Stable, NEW o \in Order, Performed(o) # {}
  PROVE  Performed(o)' # {}
  <1>1. PICK t \in Txn : txn[t].order = o /\ txn[t].performed
    BY DEF Performed
  <1>2. txn[t].state # "absent"
    BY <1>1, ConstantsOK DEF IInv, TxnsOK
  <1>3. txn'[t].order = o /\ txn'[t].performed
    BY <1>1, <1>2 DEF Stable
  <1>4. QED  BY <1>3 DEF Performed

\* A step that pays no order need only say where a refund comes from.
LEMMA PaidKept ==
  ASSUME IInv, Stable,
         \A o \in Order : order'[o].status = "paid" => order[o].status = "paid",
         \A o \in Order : order'[o].status = "refunded" =>
            order[o].status = "refunded" \/ Performed(o) # {}
  PROVE  PaidIsEntitled' /\ PaidWasPerformed'
  <1>1. PaidIsEntitled'
    BY EntitledKept DEF PaidIsEntitled, Entitlement
  <1>2. \A o \in Order : order'[o].status \in {"paid", "refunded"} => Performed(o) # {}
    BY DEF IInv, PaidWasPerformed
  <1>3. PaidWasPerformed'
    BY <1>2, PerformedKept DEF PaidWasPerformed
  <1>4. QED  BY <1>1, <1>3

\* Enrolling a buyer in what an item grants beyond enrollments already made
\* gives the buyer all of it, and keeps programs together with their courses.
LEMMA GrantedEnrolls ==
  ASSUME TypeOK, EnrolledClosed, NEW b \in Buyer, NEW i \in Item, NEW has,
         has \subseteq HasOf(b),
         enrolled' = enrolled \cup ({b} \X Granted(i, has))
  PROVE  /\ enrolled' \subseteq Buyer \X Item
         /\ EnrolledClosed'
         /\ {b} \X Entitlement(i) \subseteq enrolled'
  <1>1. \A j \in has : <<b, j>> \in enrolled
    BY DEF HasOf
  <1>2. Granted(i, has) \subseteq Item
    BY ConstantsOK DEF Granted, Entitlement, Item
  <1>3. enrolled' \subseteq Buyer \X Item
    BY <1>2 DEF TypeOK
  <1>4. \A j \in Entitlement(i) : <<b, j>> \in enrolled'
    <2>1. CASE i \in has
      BY <1>1, <2>1 DEF Entitlement, EnrolledClosed
    <2>2. CASE i \notin has
      BY <1>1, <2>2 DEF Granted, Entitlement
    <2>3. QED  BY <2>1, <2>2
  <1>5. ASSUME NEW c \in Buyer, NEW g \in Program, <<c, g>> \in enrolled'
        PROVE  {c} \X Required[g] \subseteq enrolled'
    <2>1. CASE <<c, g>> \in enrolled
      BY <2>1 DEF EnrolledClosed
    <2>2. CASE <<c, g>> \notin enrolled
      <3>1. c = b /\ g \in Granted(i, has)
        BY <1>5, <2>2
      <3>2. g = i
        BY <3>1, ConstantsOK DEF Granted, Entitlement
      <3>3. \A j \in Required[g] : j \in Entitlement(i)
        BY <3>2 DEF Entitlement
      <3>4. QED  BY <1>4, <3>1, <3>3
    <2>3. QED  BY <2>1, <2>2
  <1>6. QED  BY <1>3, <1>4, <1>5 DEF EnrolledClosed

\* The two updates of a code's counter keep it within its bounds.
WithinMax(C) ==
    \A p \in Promo : /\ C[p].uses \in 0 .. MaxUses
                     /\ C[p].state \in {"absent", "deleted"} => C[p].uses = 0

\* try_reserve stays below max_uses and touches no other code.
LEMMA ReservedWithin ==
  ASSUME NEW C \in [Promo -> PromoRow], WithinMax(C), NEW p \in Promo \cup {None},
         p # None => C[p].state = "usable" /\ C[p].uses < MaxUses
  PROVE  Reserved(C, p) \in [Promo -> PromoRow] /\ WithinMax(Reserved(C, p))
  BY ConstantsOK DEF Reserved, WithinMax, PromoRow

\* release keeps the counter within its bounds, whatever it was read as.
LEMMA ReleasedWithin ==
  ASSUME NEW C \in [Promo -> PromoRow], WithinMax(C), NEW p \in Promo \cup {None}
  PROVE  /\ Released(C, p) \in [Promo -> PromoRow]
         /\ WithinMax(Released(C, p))
         /\ \A o \in Promo \ {p} : Released(C, p)[o] = C[o]
  BY ConstantsOK DEF Released, WithinMax, PromoRow

\* The amount of an order is a natural number: a discount is less than the
\* price of the code's course.
LEMMA AmountNat ==
  ASSUME NEW i \in Item, NEW p \in Promo \cup {None}, p # None => CourseOf[p] = i
  PROVE  Amount(i, p) \in Nat
  <1>1. Price[i] \in Nat
    BY ConstantsOK
  <1>2. CASE p = None
    BY <1>1, <1>2 DEF Amount
  <1>3. CASE p # None
    <2>1. p \in Promo /\ Discount[p] \in Nat /\ Discount[p] < Price[i]
      BY <1>3, ConstantsOK
    <2>2. Price[i] - Discount[p] \in Nat
      BY <1>1, <2>1
    <2>3. QED  BY <1>3, <2>2 DEF Amount
  <1>4. QED  BY <1>2, <1>3


\* create_order's insert keeps the invariant: a fresh pending order.
LEMMA InsertOrderStep ==
  ASSUME IInv, NEW r \in Req, InsertOrder(r)
  PROVE  IInv' /\ Stable
  <1> DEFINE q == req[r]
  <1>1. /\ q \in Request /\ RequestOK(q) /\ q.at = "create.write" /\ TypeOK
        /\ Finish(r) /\ UNCHANGED <<txn, enrolled, published>>
    BY DEF IInv, TypeOK, RequestsOK, InsertOrder
  <1>2. CASE UNCHANGED <<order, promo>>
    BY <1>1, <1>2, EndStep DEF Stable, db
  <1>3. CASE ~UNCHANGED <<order, promo>>
    <2> DEFINE row == [q.row EXCEPT !.status = "pending", !.promo = q.promo,
                                    !.amount = Amount(q.row.item, q.promo)]
    <2>1. PICK o \in Order :
            /\ order[o].status = "absent"
            /\ CanReserve(q.promo)
            /\ promo' = Reserved(promo, q.promo)
            /\ order' = [order EXCEPT ![o] = row]
      BY <1>1, <1>3 DEF InsertOrder
    <2>2. /\ q.row \in OrderRow /\ q.row.buyer \in Buyer /\ q.row.item \in Item
          /\ q.promo \in Promo \cup {None}
          /\ q.promo # None => CourseOf[q.promo] = q.row.item
      BY <1>1 DEF Request, RequestOK, LoadedRest
    <2>3. row \in OrderRow /\ row.status = "pending" /\ row.buyer \in Buyer /\ row.item \in Item
      BY <2>2, AmountNat DEF OrderRow, OrderStatus
    <2>4. \A n \in Order : order'[n] = IF n = o THEN row ELSE order[n]
      BY <1>1, <2>1 DEF TypeOK
    <2>5. Stable
      BY <1>1, <2>1, <2>4 DEF Stable, IInv, TxnsOK, TypeOK
    <2>6. req' \in [Req -> Request] /\ RequestsOK' /\ OneOwner'
      <3>1. \A s \in Req \ {r} : OwnsReceipt(req[s]) => txn'[req[s].tid].state = "absent"
        BY <1>1 DEF IInv, RequestsOK, RequestOK, LoadedCard
      <3>2. QED  BY <1>1, <2>5, <3>1, FinishStep
    <2>7. promo' \in [Promo -> PromoRow] /\ UsesWithinMax'
      BY <1>1, <2>1, <2>2, ReservedWithin
         DEF IInv, TypeOK, CanReserve, Redeemable, UsesWithinMax, WithinMax
    <2>8. TypeOK'
      BY <1>1, <2>1, <2>3, <2>6, <2>7 DEF TypeOK
    <2>9. OrdersOK' /\ TxnsOK' /\ EnrolledClosed'
      BY <1>1, <2>1, <2>3, <2>4 DEF IInv, TypeOK, TxnRow, OrdersOK, TxnsOK, EnrolledClosed
    <2>10. PaidIsEntitled' /\ PaidWasPerformed'
      BY <2>3, <2>4, <2>5, PaidKept
    <2>11. QED  BY <2>5, <2>6, <2>7, <2>8, <2>9, <2>10 DEF IInv
  <1>4. QED  BY <1>2, <1>3

\* create_order's swap of the code keeps the invariant on a stale order row.
LEMMA SwapPromoStep ==
  ASSUME IInv, NEW r \in Req, SwapPromo(r)
  PROVE  IInv' /\ Stable
  <1> DEFINE q == req[r]
  <1>1. /\ q \in Request /\ RequestOK(q) /\ q.at = "create.write" /\ TypeOK
        /\ q.oid # None /\ Finish(r) /\ UNCHANGED <<txn, enrolled, published>>
    BY DEF IInv, TypeOK, RequestsOK, SwapPromo
  <1>2. CASE UNCHANGED <<order, promo>>
    BY <1>1, <1>2, EndStep DEF Stable, db
  <1>3. CASE ~UNCHANGED <<order, promo>>
    <2> DEFINE C == Released(promo, q.row.promo)
               row == [order[q.oid] EXCEPT !.promo = q.promo,
                                           !.amount = Amount(q.row.item, q.promo)]
    <2>1. /\ CanReserve(q.promo)
          /\ q.promo # q.row.promo
          /\ promo' = Reserved(C, q.promo)
          /\ order' = [order EXCEPT ![q.oid].promo = q.promo,
                                    ![q.oid].amount = Amount(q.row.item, q.promo)]
      BY <1>3 DEF SwapPromo
    <2>2. /\ q.oid \in Order
          /\ q.row.item \in Item
          /\ q.promo \in Promo \cup {None}
          /\ q.row.promo \in Promo \cup {None}
          /\ q.promo # None => CourseOf[q.promo] = q.row.item
      BY <1>1 DEF Request, OrderRow, RequestOK, LoadedOrder, LoadedRest
    <2>3. order[q.oid] \in OrderRow
      BY <1>1, <2>2 DEF TypeOK
    <2>4. row \in OrderRow /\ \A f \in {"buyer", "item", "status"} : row[f] = order[q.oid][f]
      BY <2>2, <2>3, AmountNat DEF OrderRow
    <2>5. \A n \in Order : order'[n] = IF n = q.oid THEN row ELSE order[n]
      BY <1>1, <2>1, <2>2, <2>3 DEF TypeOK, OrderRow
    <2>6. \A n \in Order : /\ order'[n] \in OrderRow
                           /\ order'[n].status = order[n].status
                           /\ order'[n].buyer = order[n].buyer
                           /\ order'[n].item = order[n].item
      BY <1>1, <2>4, <2>5 DEF TypeOK
    <2>7. Stable
      BY <1>1, <2>6 DEF Stable
    <2>8. req' \in [Req -> Request] /\ RequestsOK' /\ OneOwner'
      <3>1. \A s \in Req \ {r} : OwnsReceipt(req[s]) => txn'[req[s].tid].state = "absent"
        BY <1>1 DEF IInv, RequestsOK, RequestOK, LoadedCard
      <3>2. QED  BY <1>1, <2>7, <3>1, FinishStep
    <2>9. promo' \in [Promo -> PromoRow] /\ UsesWithinMax'
      <3>1. promo \in [Promo -> PromoRow] /\ WithinMax(promo)
        BY <1>1 DEF IInv, TypeOK, UsesWithinMax, WithinMax
      <3>2. /\ C \in [Promo -> PromoRow] /\ WithinMax(C)
            /\ \A p \in Promo \ {q.row.promo} : C[p] = promo[p]
        BY <2>2, <3>1, ReleasedWithin
      <3>3. q.promo # None => C[q.promo].state = "usable" /\ C[q.promo].uses < MaxUses
        BY <2>1, <2>2, <3>2 DEF CanReserve, Redeemable
      <3>4. Reserved(C, q.promo) \in [Promo -> PromoRow] /\ WithinMax(Reserved(C, q.promo))
        BY <2>2, <3>2, <3>3, ReservedWithin
      <3>5. QED  BY <2>1, <3>4 DEF UsesWithinMax, WithinMax
    <2>10. order' \in [Order -> OrderRow]
      BY <1>1, <2>1, <2>6 DEF TypeOK
    <2>11. TypeOK'
      BY <1>1, <2>8, <2>9, <2>10 DEF TypeOK
    <2>12. OrdersOK' /\ TxnsOK' /\ EnrolledClosed'
      BY <1>1, <2>6 DEF IInv, TypeOK, TxnRow, OrdersOK, TxnsOK, EnrolledClosed
    <2>13. PaidIsEntitled' /\ PaidWasPerformed'
      BY <2>6, <2>7, PaidKept
    <2>14. QED  BY <2>7, <2>8, <2>9, <2>11, <2>12, <2>13 DEF IInv
  <1>4. QED  BY <1>2, <1>3


\* cancel_order's unconditional write keeps the invariant.
LEMMA CancelOrderWriteStep ==
  ASSUME IInv, NEW r \in Req, CancelOrderWrite(r)
  PROVE  IInv' /\ Stable
  <1> DEFINE q == req[r]
             row == [order[q.oid] EXCEPT !.status = "cancelled"]
  <1>1. /\ q \in Request /\ RequestOK(q) /\ q.at = "cancel.write" /\ TypeOK
        /\ Finish(r) /\ UNCHANGED <<txn, enrolled, published>>
        /\ promo' = Released(promo, q.row.promo)
        /\ order' = [order EXCEPT ![q.oid].status = "cancelled"]
    BY DEF IInv, TypeOK, RequestsOK, CancelOrderWrite
  <1>2. q.oid \in Order /\ q.row.promo \in Promo \cup {None}
    BY <1>1 DEF Request, OrderRow, OrderStages, RequestOK, LoadedOrder, LoadedRest
  <1>3. row \in OrderRow /\ row.status = "cancelled"
          /\ row.buyer = order[q.oid].buyer /\ row.item = order[q.oid].item
    <2>1. order[q.oid] \in OrderRow
      BY <1>1, <1>2 DEF TypeOK
    <2>2. QED  BY <2>1 DEF OrderRow, OrderStatus
  <1>4. \A n \in Order : order'[n] = IF n = q.oid THEN row ELSE order[n]
    BY <1>1, <1>2 DEF TypeOK
  <1>5. Stable
    BY <1>1, <1>3, <1>4 DEF Stable
  <1>6. req' \in [Req -> Request] /\ RequestsOK' /\ OneOwner'
    <2>1. \A s \in Req \ {r} : OwnsReceipt(req[s]) => txn'[req[s].tid].state = "absent"
      BY <1>1 DEF IInv, RequestsOK, RequestOK, LoadedCard
    <2>2. QED  BY <1>1, <1>5, <2>1, FinishStep
  <1>7. promo' \in [Promo -> PromoRow] /\ UsesWithinMax'
    <2>1. promo \in [Promo -> PromoRow] /\ WithinMax(promo)
      BY <1>1 DEF IInv, TypeOK, UsesWithinMax, WithinMax
    <2>2. QED  BY <1>1, <1>2, <2>1, ReleasedWithin DEF UsesWithinMax, WithinMax
  <1>8. TypeOK'
    BY <1>1, <1>3, <1>6, <1>7 DEF TypeOK
  <1>9. OrdersOK' /\ TxnsOK' /\ EnrolledClosed'
    <2>1. order[q.oid].status # "absent"
      BY <1>1, <1>2, ConstantsOK DEF RequestOK, LoadedOrder
    <2>2. QED  BY <1>1, <1>3, <1>4, <2>1
                  DEF IInv, TypeOK, TxnRow, OrdersOK, TxnsOK, EnrolledClosed
  <1>10. PaidIsEntitled' /\ PaidWasPerformed'
    BY <1>3, <1>4, <1>5, PaidKept
  <1>11. QED  BY <1>5, <1>6, <1>7, <1>8, <1>9, <1>10 DEF IInv

\* _create_transaction's insert and its PROCESSING keep the invariant.
LEMMA CreateTransactionWriteStep ==
  ASSUME IInv, NEW r \in Req, CreateTransactionWrite(r)
  PROVE  IInv' /\ Stable
  <1> DEFINE q == req[r]
  <1>1. /\ q \in Request /\ RequestOK(q) /\ q.at = "merchant.create" /\ TypeOK
        /\ Finish(r) /\ UNCHANGED <<promo, enrolled, published>>
    BY DEF IInv, TypeOK, RequestsOK, CreateTransactionWrite
  <1>2. CASE txn[q.tid].state # "absent"
    BY <1>1, <1>2, EndStep DEF CreateTransactionWrite, Recordable, Stable, db
  <1>3. CASE txn[q.tid].state = "absent"
    <2> DEFINE row == [order[q.oid] EXCEPT !.status = "processing"]
               new == [order |-> q.oid, state |-> "created",
                       amount |-> q.row.amount, performed |-> FALSE]
    <2>1. /\ txn' = [txn EXCEPT ![q.tid] = new]
          /\ order' = [order EXCEPT ![q.oid].status = "processing"]
      BY <1>3 DEF CreateTransactionWrite, Recordable, Charged
    <2>2. q.oid \in Order /\ q.tid \in PaymeTxn /\ q.tid \in Txn /\ q.row.amount \in Nat
      BY <1>1 DEF Request, OrderRow, OrderStages, RequestOK, LoadedOrder, LoadedTxn, LoadedRest, Txn
    <2>3. order[q.oid].status # "absent"
      BY <1>1, <2>2, ConstantsOK DEF RequestOK, LoadedOrder
    <2>4. row \in OrderRow /\ row.status = "processing"
            /\ row.buyer = order[q.oid].buyer /\ row.item = order[q.oid].item
      <3>1. order[q.oid] \in OrderRow
        BY <1>1, <2>2 DEF TypeOK
      <3>2. QED  BY <3>1 DEF OrderRow, OrderStatus
    <2>5. \A n \in Order : order'[n] = IF n = q.oid THEN row ELSE order[n]
      BY <1>1, <2>1, <2>2 DEF TypeOK
    <2>6. \A t \in Txn : txn'[t] = IF t = q.tid THEN new ELSE txn[t]
      BY <1>1, <2>1, <2>2 DEF TypeOK
    <2>7. Stable
      BY <1>1, <1>3, <2>4, <2>5, <2>6 DEF Stable
    <2>8. req' \in [Req -> Request] /\ RequestsOK' /\ OneOwner'
      <3>1. \A s \in Req \ {r} : OwnsReceipt(req[s]) =>
              req[s].tid \in Receipt /\ txn[req[s].tid].state = "absent"
        BY DEF IInv, RequestsOK, RequestOK, LoadedCard
      <3>2. \A t \in Receipt : txn'[t] = txn[t]
        BY <2>2, <2>6, ConstantsOK DEF Txn
      <3>3. QED  BY <1>1, <2>7, <3>1, <3>2, FinishStep
    <2>9. TypeOK'
      <3>1. new \in TxnRow
        BY <2>2 DEF TxnRow, TxnState
      <3>2. QED  BY <1>1, <2>1, <2>4, <2>8, <3>1 DEF TypeOK
    <2>10. OrdersOK' /\ EnrolledClosed' /\ UsesWithinMax'
      BY <1>1, <2>3, <2>4, <2>5 DEF IInv, OrdersOK, EnrolledClosed, UsesWithinMax
    <2>11. TxnsOK'
      <3>1. q.oid # None
        BY <2>2, ConstantsOK
      <3>2. ASSUME NEW t \in Txn
            PROVE  /\ txn'[t].state = "absent" <=> txn'[t].order = None
                   /\ txn'[t].state = "performed" => txn'[t].performed
        BY <2>6, <3>1 DEF IInv, TxnsOK
      <3>3. ASSUME NEW t \in Txn, txn'[t].order # None
            PROVE  order'[txn'[t].order].status \notin {"absent", "pending"}
        <4>1. CASE t = q.tid
          <5>1. txn'[t].order = q.oid
            BY <2>6, <4>1
          <5>2. order'[q.oid].status = "processing"
            BY <2>2, <2>4, <2>5
          <5>3. QED  BY <5>1, <5>2
        <4>2. CASE t # q.tid
          <5>1. txn'[t] = txn[t] /\ txn[t].order \in Order
            BY <1>1, <2>6, <3>3, <4>2 DEF TypeOK, TxnRow
          <5>2. order[txn[t].order].status \notin {"absent", "pending"}
            BY <3>3, <5>1 DEF IInv, TxnsOK
          <5>3. QED  BY <2>4, <2>5, <5>1, <5>2
        <4>3. QED  BY <4>1, <4>2
      <3>4. QED  BY <3>2, <3>3 DEF TxnsOK
    <2>12. PaidIsEntitled' /\ PaidWasPerformed'
      BY <2>4, <2>5, <2>7, PaidKept
    <2>13. QED  BY <2>7, <2>8, <2>9, <2>10, <2>11, <2>12 DEF IInv
  <1>4. QED  BY <1>2, <1>3

\* _cancel_transaction's reversal, refund or release keep the invariant.
LEMMA CancelTransactionWriteStep ==
  ASSUME IInv, NEW r \in Req, CancelTransactionWrite(r)
  PROVE  IInv' /\ Stable
  <1> DEFINE q      == req[r]
             refund == q.state = "performed"
             status == IF refund THEN "refunded" ELSE "cancelled"
             final  == IF refund THEN "reversed" ELSE "cancelled"
  <1>1. /\ q \in Request /\ RequestOK(q) /\ q.at = "merchant.cancel" /\ TypeOK
        /\ Finish(r) /\ UNCHANGED <<enrolled, published>>
        /\ txn' = [txn EXCEPT ![q.tid].state = final]
        /\ promo' = IF refund THEN promo ELSE Released(promo, q.row.promo)
        /\ order' = IF q.row.status = status THEN order
                    ELSE [order EXCEPT ![q.oid].status = status]
    BY DEF IInv, TypeOK, RequestsOK, CancelTransactionWrite, IsRefund, StatusAfterCancel
  <1>2. /\ q.oid \in Order /\ q.tid \in Txn /\ q.row.promo \in Promo \cup {None}
        /\ txn[q.tid].order = q.oid
        /\ refund => txn[q.tid].performed
    BY <1>1 DEF Request, OrderRow, TxnStages, OrderStages, RequestOK, LoadedOrder, LoadedTxn,
           LoadedRest
  <1>3. order[q.oid].status \notin {"absent", "pending"} /\ txn[q.tid].state # "absent"
    BY <1>1, <1>2, ConstantsOK DEF IInv, TxnsOK
  <1>4. \A n \in Order :
          /\ order'[n] \in OrderRow
          /\ order'[n].buyer = order[n].buyer /\ order'[n].item = order[n].item
          /\ order'[n].status = order[n].status \/ (n = q.oid /\ order'[n].status = status)
    BY <1>1, <1>2 DEF TypeOK, OrderRow, OrderStatus
  <1>5. \A t \in Txn : /\ txn'[t] \in TxnRow
                      /\ txn'[t].order = txn[t].order
                      /\ txn'[t].amount = txn[t].amount
                      /\ txn'[t].performed = txn[t].performed
                      /\ txn'[t].state = IF t = q.tid THEN final ELSE txn[t].state
    BY <1>1, <1>2 DEF TypeOK, TxnRow, TxnState
  <1>6. Stable
    <2>1. \A n \in Order : order[n].status # "absent" =>
            /\ order'[n].status # "absent"
            /\ order'[n].buyer = order[n].buyer
            /\ order'[n].item = order[n].item
      BY <1>4
    <2>2. \A t \in Txn : txn[t].state # "absent" =>
            /\ txn'[t].order = txn[t].order
            /\ txn'[t].amount = txn[t].amount
            /\ txn[t].performed => txn'[t].performed
            /\ txn'[t].state # "absent"
            /\ txn'[t].state = "created" => txn[t].state = "created"
      BY <1>5
    <2>3. QED  BY <1>1, <2>1, <2>2 DEF Stable
  <1>7. req' \in [Req -> Request] /\ RequestsOK' /\ OneOwner'
    <2>1. \A s \in Req \ {r} : OwnsReceipt(req[s]) => txn'[req[s].tid].state = "absent"
      <3>1. \A s \in Req \ {r} : OwnsReceipt(req[s]) =>
              req[s].tid \in Txn /\ txn[req[s].tid].state = "absent"
        BY DEF IInv, RequestsOK, RequestOK, LoadedCard, Txn
      <3>2. QED  BY <1>3, <1>5, <3>1
    <2>2. QED  BY <1>1, <1>6, <2>1, FinishStep
  <1>8. promo' \in [Promo -> PromoRow] /\ UsesWithinMax'
    <2>1. promo \in [Promo -> PromoRow] /\ WithinMax(promo)
      BY <1>1 DEF IInv, TypeOK, UsesWithinMax, WithinMax
    <2>2. QED  BY <1>1, <1>2, <2>1, ReleasedWithin DEF UsesWithinMax, WithinMax
  <1>9. TypeOK'
    <2>1. order' \in [Order -> OrderRow] /\ txn' \in [Txn -> TxnRow]
      BY <1>1, <1>4, <1>5 DEF TypeOK
    <2>2. QED  BY <1>1, <1>7, <1>8, <2>1 DEF TypeOK
  <1>10. OrdersOK' /\ EnrolledClosed'
    BY <1>1, <1>3, <1>4 DEF IInv, OrdersOK, EnrolledClosed
  <1>11. TxnsOK'
    <2>1. ASSUME NEW t \in Txn
          PROVE  /\ txn'[t].state = "absent" <=> txn'[t].order = None
                 /\ txn'[t].state = "performed" => txn'[t].performed
      BY <1>1, <1>3, <1>5 DEF IInv, TxnsOK
    <2>2. ASSUME NEW t \in Txn, txn'[t].order # None
          PROVE  order'[txn'[t].order].status \notin {"absent", "pending"}
      <3>1. txn'[t].order = txn[t].order /\ txn[t].order \in Order
        BY <1>1, <1>5, <2>2 DEF TypeOK, TxnRow
      <3>2. order[txn[t].order].status \notin {"absent", "pending"}
        BY <2>2, <3>1 DEF IInv, TxnsOK
      <3>3. QED  BY <1>4, <3>1, <3>2
    <2>3. QED  BY <2>1, <2>2 DEF TxnsOK
  <1>12. PaidIsEntitled' /\ PaidWasPerformed'
    <2>1. refund => Performed(q.oid) # {}
      BY <1>2 DEF Performed
    <2>2. QED  BY <1>4, <1>6, <2>1, PaidKept
  <1>13. QED  BY <1>6, <1>7, <1>8, <1>9, <1>10, <1>11, <1>12 DEF IInv


\* A payment that commits enrolls the buyer in everything the item grants: in
\* what the request inserts, and in what it saw and nobody takes back.
LEMMA GrantCommitStep ==
  ASSUME IInv, NEW r \in Req, GrantCommit(r)
  PROVE  IInv' /\ Stable
  <1> DEFINE q     == req[r]
             b     == q.row.buyer
             i     == q.row.item
             grant == {b} \X Granted(i, q.has)
  <1>1. /\ q \in Request /\ RequestOK(q) /\ q.at = "granting" /\ TypeOK
        /\ Finish(r) /\ UNCHANGED <<promo, published>>
    BY DEF IInv, TypeOK, RequestsOK, GrantCommit
  <1>2. CASE grant \cap enrolled # {}
    BY <1>1, <1>2, EndStep DEF GrantCommit, Stable, db
  <1>3. CASE grant \cap enrolled = {}
    <2> DEFINE new == IF q.state = "absent"
                      THEN [order |-> q.oid, state |-> "performed",
                            amount |-> q.row.amount, performed |-> TRUE]
                      ELSE [txn[q.tid] EXCEPT !.state = "performed", !.performed = TRUE]
    <2>1. /\ enrolled' = enrolled \cup grant
          /\ txn' = [txn EXCEPT ![q.tid] = new]
          /\ order' = IF q.row.status = "paid" THEN order
                      ELSE [order EXCEPT ![q.oid].status = "paid"]
      BY <1>1, <1>3 DEF GrantCommit, Charged, TypeOK
    <2>2. q.oid \in Order /\ q.oid # None /\ order[q.oid].status # "absent"
            /\ b = order[q.oid].buyer /\ i = order[q.oid].item
      BY <1>1, ConstantsOK DEF Request, OrderStages, RequestOK, LoadedOrder, LoadedRest
    <2>3. b \in Buyer /\ i \in Item
      BY <2>2 DEF IInv, OrdersOK
    <2>4. q.tid \in Txn /\ q.row.amount \in Nat
      BY <1>1 DEF Request, OrderRow, RequestOK, LoadedTxn, LoadedCard, OwnsReceipt, Txn
    <2>5. \/ q.state = "absent" /\ txn[q.tid].state = "absent"
          \/ q.state = "created" /\ txn[q.tid].order = q.oid /\ txn[q.tid].state # "absent"
      BY <1>1, <2>2, <2>4 DEF RequestOK, LoadedTxn, LoadedCard, OwnsReceipt, IInv, TxnsOK
    <2>6. txn[q.tid] \in TxnRow
      BY <1>1, <2>4 DEF TypeOK
    <2>7. /\ new \in TxnRow /\ new.order = q.oid /\ new.state = "performed" /\ new.performed
          /\ q.state # "absent" => new.amount = txn[q.tid].amount
      BY <2>2, <2>4, <2>5, <2>6 DEF TxnRow, TxnState
    <2>8. \A t \in Txn : txn'[t] = IF t = q.tid THEN new ELSE txn[t]
      BY <1>1, <2>1 DEF TypeOK
    <2> HIDE DEF new
    <2>9. \A n \in Order :
            /\ order'[n] \in OrderRow
            /\ order'[n].buyer = order[n].buyer /\ order'[n].item = order[n].item
            /\ order'[n].status = order[n].status \/ (n = q.oid /\ order'[n].status = "paid")
      BY <1>1, <2>1, <2>2 DEF TypeOK, OrderRow, OrderStatus
    <2>10. Stable
      <3>1. \A n \in Order : order[n].status # "absent" =>
              /\ order'[n].status # "absent"
              /\ order'[n].buyer = order[n].buyer
              /\ order'[n].item = order[n].item
        BY <2>9
      <3>2. ASSUME NEW t \in Txn, txn[t].state # "absent"
            PROVE  /\ txn'[t].order = txn[t].order
                   /\ txn'[t].amount = txn[t].amount
                   /\ txn[t].performed => txn'[t].performed
                   /\ txn'[t].state # "absent"
                   /\ txn'[t].state = "created" => txn[t].state = "created"
        <4>1. CASE t = q.tid
          BY <2>5, <2>7, <2>8, <3>2, <4>1
        <4>2. CASE t # q.tid
          BY <2>8, <3>2, <4>2
        <4>3. QED  BY <4>1, <4>2
      <3>3. enrolled \subseteq enrolled'
        BY <2>1
      <3>4. QED  BY <3>1, <3>2, <3>3 DEF Stable
    <2>11. req' \in [Req -> Request] /\ RequestsOK' /\ OneOwner'
      <3>1. \A s \in Req \ {r} : OwnsReceipt(req[s]) => txn'[req[s].tid].state = "absent"
        <4>1. ASSUME NEW s \in Req \ {r}, OwnsReceipt(req[s])
              PROVE  txn'[req[s].tid].state = "absent"
          <5>1. req[s].tid \in Txn /\ txn[req[s].tid].state = "absent"
            BY <4>1 DEF IInv, RequestsOK, RequestOK, LoadedCard, Txn
          <5>2. req[s].tid # q.tid
            <6>1. CASE q.state = "absent"
              BY <1>1, <4>1, <6>1 DEF IInv, OneOwner, OwnsReceipt
            <6>2. CASE q.state # "absent"
              BY <2>5, <5>1, <6>2
            <6>3. QED  BY <6>1, <6>2
          <5>3. QED  BY <2>8, <5>1, <5>2
        <4>2. QED  BY <4>1
      <3>2. QED  BY <1>1, <2>10, <3>1, FinishStep
    <2>12. /\ enrolled' \subseteq Buyer \X Item
           /\ EnrolledClosed'
           /\ {b} \X Entitlement(i) \subseteq enrolled'
      <3>1. q.has \subseteq HasOf(b)
        BY <1>1 DEF RequestOK, LoadedRest
      <3>2. QED  BY <1>1, <2>1, <2>3, <3>1, GrantedEnrolls DEF IInv
    <2>13. TypeOK'
      <3>1. txn' \in [Txn -> TxnRow] /\ order' \in [Order -> OrderRow]
        BY <1>1, <2>1, <2>7, <2>9 DEF TypeOK
      <3>2. QED  BY <1>1, <2>11, <2>12, <3>1 DEF TypeOK
    <2>14. OrdersOK' /\ UsesWithinMax'
      BY <1>1, <2>2, <2>9 DEF IInv, OrdersOK, UsesWithinMax
    <2>15. TxnsOK'
      <3>1. ASSUME NEW t \in Txn
            PROVE  /\ txn'[t].state = "absent" <=> txn'[t].order = None
                   /\ txn'[t].state = "performed" => txn'[t].performed
        BY <2>2, <2>7, <2>8 DEF IInv, TxnsOK
      <3>2. ASSUME NEW t \in Txn, txn'[t].order # None
            PROVE  order'[txn'[t].order].status \notin {"absent", "pending"}
        <4>1. CASE t = q.tid
          <5>1. q.state = "absent" => order'[q.oid].status = "paid"
            BY <1>1, <2>1, <2>2 DEF TypeOK, OrderRow, RequestOK, LoadedCard, OwnsReceipt
          <5>2. q.state # "absent" => order[q.oid].status \notin {"absent", "pending"}
            BY <2>2, <2>4, <2>5 DEF IInv, TxnsOK
          <5>3. QED  BY <2>2, <2>7, <2>8, <2>9, <4>1, <5>1, <5>2
        <4>2. CASE t # q.tid
          <5>1. txn'[t] = txn[t] /\ txn[t].order \in Order
            BY <1>1, <2>8, <3>2, <4>2 DEF TypeOK, TxnRow
          <5>2. order[txn[t].order].status \notin {"absent", "pending"}
            BY <3>2, <5>1 DEF IInv, TxnsOK
          <5>3. QED  BY <2>9, <5>1, <5>2
        <4>3. QED  BY <4>1, <4>2
      <3>3. QED  BY <3>1, <3>2 DEF TxnsOK
    <2>16. PaidIsEntitled'
      <3>1. ASSUME NEW o \in Order, order'[o].status = "paid"
            PROVE  {order'[o].buyer} \X Entitlement(order'[o].item) \subseteq enrolled'
        <4>1. CASE order[o].status = "paid"
          BY <2>10, <4>1, EntitledKept
        <4>2. CASE order[o].status # "paid"
          BY <2>2, <2>9, <2>12, <3>1, <4>2
        <4>3. QED  BY <4>1, <4>2
      <3>2. QED  BY <3>1 DEF PaidIsEntitled, Entitlement
    <2>17. PaidWasPerformed'
      <3>1. ASSUME NEW o \in Order, order'[o].status \in {"paid", "refunded"}
            PROVE  Performed(o)' # {}
        <4>1. CASE order[o].status \in {"paid", "refunded"}
          BY <2>10, <4>1, PerformedKept DEF IInv, PaidWasPerformed
        <4>2. CASE order[o].status \notin {"paid", "refunded"}
          BY <2>4, <2>7, <2>8, <2>9, <3>1, <4>2 DEF Performed
        <4>3. QED  BY <4>1, <4>2
      <3>2. QED  BY <3>1 DEF PaidWasPerformed
    <2>18. QED  BY <2>10, <2>11, <2>12, <2>13, <2>14, <2>15, <2>16, <2>17 DEF IInv
  <1>4. QED  BY <1>2, <1>3


\* revoke_promocode's delete or deactivation keeps the invariant.
LEMMA RevokePromocodeWriteStep ==
  ASSUME IInv, NEW r \in Req, RevokePromocodeWrite(r)
  PROVE  IInv' /\ Stable
  <1> DEFINE p == req[r].promo
  <1>1. /\ req[r] \in Request /\ RequestOK(req[r]) /\ req[r].at = "revoke.write" /\ TypeOK
        /\ Finish(r) /\ UNCHANGED <<txn, enrolled, published>>
    BY DEF IInv, TypeOK, RequestsOK, RevokePromocodeWrite
  <1>2. p \in Promo
    BY <1>1 DEF Request, RequestOK, LoadedRest
  <1>3. \A n \in Order :
          /\ order'[n] \in OrderRow
          /\ order'[n].buyer = order[n].buyer /\ order'[n].item = order[n].item
          /\ order'[n].status = order[n].status
    BY <1>1 DEF TypeOK, OrderRow, RevokePromocodeWrite
  <1>4. order' \in [Order -> OrderRow]
    BY <1>1, <1>3 DEF TypeOK, RevokePromocodeWrite
  <1>5. Stable
    BY <1>1, <1>3 DEF Stable
  <1>6. req' \in [Req -> Request] /\ RequestsOK' /\ OneOwner'
    <2>1. \A s \in Req \ {r} : OwnsReceipt(req[s]) => txn'[req[s].tid].state = "absent"
      BY <1>1 DEF IInv, RequestsOK, RequestOK, LoadedCard
    <2>2. QED  BY <1>1, <1>5, <2>1, FinishStep
  <1>7. promo' \in [Promo -> PromoRow] /\ UsesWithinMax'
    <2> DEFINE row == promo'[p]
    <2>1. promo \in [Promo -> PromoRow] /\ UsesWithinMax
      BY <1>1 DEF IInv, TypeOK
    <2>2. CASE UNCHANGED promo
      BY <2>1, <2>2 DEF UsesWithinMax
    <2>3. ASSUME promo[p].state # "deleted", promo' = [promo EXCEPT ![p].state = "dead"]
          PROVE  promo' \in [Promo -> PromoRow] /\ UsesWithinMax'
      <3>1. row = [promo[p] EXCEPT !.state = "dead"]
              /\ \A n \in Promo \ {p} : promo'[n] = promo[n]
        BY <1>2, <2>1, <2>3
      <3>2. row \in PromoRow /\ row.uses = promo[p].uses /\ row.state = "dead"
        BY <1>2, <2>1, <3>1 DEF PromoRow
      <3>3. promo' \in [Promo -> PromoRow]
        BY <1>2, <2>1, <2>3, <3>1, <3>2
      <3>4. QED  BY <1>2, <2>1, <3>1, <3>2, <3>3 DEF UsesWithinMax
    <2>4. ASSUME promo' = [promo EXCEPT ![p] = [state |-> "deleted", uses |-> 0]]
          PROVE  promo' \in [Promo -> PromoRow] /\ UsesWithinMax'
      <3>1. row = [state |-> "deleted", uses |-> 0]
              /\ \A n \in Promo \ {p} : promo'[n] = promo[n]
        BY <1>2, <2>1, <2>4
      <3>2. row \in PromoRow /\ row.uses = 0 /\ 0 \in 0 .. MaxUses
        BY <3>1, ConstantsOK DEF PromoRow, ConstantsOK
      <3>3. promo' \in [Promo -> PromoRow]
        BY <1>2, <2>1, <2>4, <3>1, <3>2
      <3>4. QED  BY <1>2, <2>1, <3>1, <3>2, <3>3 DEF UsesWithinMax
    <2>5. QED  BY <2>2, <2>3, <2>4 DEF RevokePromocodeWrite
  <1>8. TypeOK'
    BY <1>1, <1>4, <1>6, <1>7 DEF TypeOK
  <1>9. OrdersOK' /\ EnrolledClosed'
    BY <1>1, <1>3 DEF IInv, OrdersOK, EnrolledClosed
  <1>10. TxnsOK'
    BY <1>1, <1>3 DEF IInv, TypeOK, TxnRow, TxnsOK
  <1>11. PaidIsEntitled' /\ PaidWasPerformed'
    BY <1>3, <1>5, PaidKept
  <1>12. QED  BY <1>5, <1>6, <1>7, <1>8, <1>9, <1>10, <1>11 DEF IInv

-----------------------------------------------------------------------------
(* Steps of the rest of the application *)

\* Issue, expiry, free enrollment and publication keep the invariant.
LEMMA EnvironmentStep ==
  ASSUME IInv, Environment
  PROVE  IInv' /\ Stable
  <1>1. TypeOK /\ UNCHANGED <<order, txn, req>>
    BY DEF IInv, Environment, CreatePromocode, ExpirePromocode, Enroll, SetPublished
  <1>2. /\ enrolled' \subseteq Buyer \X Item /\ enrolled \subseteq enrolled'
        /\ EnrolledClosed'
    <2>1. CASE UNCHANGED enrolled
      BY <1>1, <2>1 DEF IInv, TypeOK, EnrolledClosed
    <2>2. CASE ~UNCHANGED enrolled
      <3>1. PICK b \in Buyer, i \in Item :
              enrolled' = enrolled \cup ({b} \X Granted(i, HasOf(b)))
        BY <2>2 DEF Environment, CreatePromocode, ExpirePromocode, Enroll, SetPublished
      <3>2. QED  BY <1>1, <3>1, GrantedEnrolls DEF IInv
    <2>3. QED  BY <2>1, <2>2
  <1>3. Stable
    BY <1>1, <1>2 DEF Stable
  <1>4. promo' \in [Promo -> PromoRow] /\ UsesWithinMax'
    <2>1. /\ promo \in [Promo -> PromoRow]
          /\ \A p \in Promo : promo[p].uses \in 0 .. MaxUses
          /\ \A p \in Promo : promo[p].state \in {"absent", "deleted"} => promo[p].uses = 0
      BY DEF IInv, TypeOK, UsesWithinMax
    <2>2. CASE \E p \in Promo : CreatePromocode(p)
      BY <2>1, <2>2, ConstantsOK DEF CreatePromocode, PromoRow, UsesWithinMax
    <2>3. CASE \E p \in Promo : ExpirePromocode(p)
      BY <2>1, <2>3 DEF ExpirePromocode, PromoRow, UsesWithinMax
    <2>4. CASE UNCHANGED promo
      BY <2>1, <2>4 DEF UsesWithinMax
    <2>5. QED  BY <2>2, <2>3, <2>4 DEF Environment, Enroll, SetPublished
  <1>5. published' \subseteq Item
    BY <1>1 DEF TypeOK, Environment, CreatePromocode, ExpirePromocode, Enroll, SetPublished
  <1>6. RequestsOK'
    <2>1. ASSUME NEW r \in Req
          PROVE  RequestOK(req[r])'
      <3>1. PICK q \in Request : q = req[r] /\ RequestOK(q)
        BY <1>1 DEF IInv, TypeOK, RequestsOK
      <3>2. OwnsReceipt(q) => txn'[q.tid].state = "absent"
        BY <1>1, <3>1 DEF RequestOK, LoadedCard
      <3>3. RequestOK(q)'
        BY <1>3, <3>1, <3>2, RequestKept DEF IInv
      <3>4. QED  BY <1>1, <3>1, <3>3
    <2>2. QED  BY <2>1 DEF RequestsOK
  <1>7. TypeOK'
    BY <1>1, <1>2, <1>4, <1>5 DEF TypeOK
  <1>8. OneOwner' /\ OrdersOK' /\ TxnsOK'
    BY <1>1 DEF IInv, OneOwner, OrdersOK, TxnsOK
  <1>9. PaidIsEntitled' /\ PaidWasPerformed'
    BY <1>1, <1>3, PaidKept
  <1>10. QED  BY <1>2, <1>3, <1>4, <1>6, <1>7, <1>8, <1>9 DEF IInv

-----------------------------------------------------------------------------
(* The theorems *)

\* The empty database with no request in flight satisfies the invariant.
LEMMA InitIInv == Init => IInv
  <1> SUFFICES ASSUME Init
               PROVE  IInv
    OBVIOUS
  <1>1. /\ NoOrder \in OrderRow /\ NoOrder.status = "absent"
        /\ NoTxn \in TxnRow /\ NoTxn.state = "absent" /\ NoTxn.order = None
        /\ NoPromo \in PromoRow /\ NoPromo.state = "absent" /\ NoPromo.uses = 0
    BY DEF NoOrder, OrderRow, NoTxn, TxnRow, NoPromo, PromoRow
  <1>2. TypeOK
    BY <1>1, IdleOK DEF Init, TypeOK
  <1>3. RequestsOK /\ OneOwner
    BY IdleOK DEF Init, RequestsOK, OneOwner
  <1>4. OrdersOK /\ TxnsOK /\ EnrolledClosed /\ UsesWithinMax
    BY <1>1, ConstantsOK DEF Init, OrdersOK, TxnsOK, EnrolledClosed, UsesWithinMax
  <1>5. PaidIsEntitled /\ PaidWasPerformed
    BY <1>1 DEF Init, PaidIsEntitled, PaidWasPerformed
  <1>6. QED  BY <1>2, <1>3, <1>4, <1>5 DEF IInv

\* Every step keeps the invariant and takes back nothing Stable protects.
LEMMA NextIInv == IInv /\ [Next]_vars => IInv' /\ Stable
  <1> SUFFICES ASSUME IInv, [Next]_vars
               PROVE  IInv' /\ Stable
    OBVIOUS
  <1>1. ASSUME UNCHANGED db
        PROVE  Stable
    BY <1>1 DEF Stable, db
  <1>2. CASE \E r \in Req : Arrive(r)
    <2>1. UNCHANGED db
      BY <1>2 DEF Arrive, CreateOrder, CancelOrder, PayWithCard, CreateTransaction,
         PerformTransaction, CancelTransaction, LoadTransaction, RevokePromocode
    <2>2. QED  BY <1>1, <1>2, <2>1, ArriveStep
  <1>3. CASE \E r \in Req : Continue(r)
    BY <1>1, <1>3, QuietStep, InsertOrderStep, SwapPromoStep, CancelOrderWriteStep,
       CreateTransactionWriteStep, CancelTransactionWriteStep, GrantCommitStep,
       RevokePromocodeWriteStep DEF Continue
  <1>4. CASE \E r \in Req : Abort(r)
    BY <1>1, <1>4, QuietStep
  <1>5. CASE Environment
    BY <1>5, EnvironmentStep
  <1>6. CASE UNCHANGED vars
    <2>1. UNCHANGED db
      BY <1>6 DEF vars, db
    <2>2. IInv'
      BY <1>6 DEF vars, IInv, TypeOK, RequestsOK, RequestOK, LoadedOrder, LoadedTxn,
         LoadedCard, LoadedRest, OneOwner, OrdersOK, TxnsOK, EnrolledClosed, UsesWithinMax,
         PaidIsEntitled, PaidWasPerformed, Performed, HasOf
    <2>3. QED  BY <1>1, <2>1, <2>2
  <1>7. QED  BY <1>2, <1>3, <1>4, <1>5, <1>6 DEF Next

\* The inductive invariant holds throughout: whatever a request loaded, it may
\* rely on what IInv says is left of it.
THEOREM Invariance == Spec => []IInv
  <1>1. Init => IInv
    BY InitIInv
  <1>2. IInv /\ [Next]_vars => IInv'
    BY NextIInv
  <1>3. QED  BY <1>1, <1>2, PTL DEF Spec

\* Rows and requests keep their types: no counter of a code goes below zero.
THEOREM TypeCorrect == Spec => []TypeOK
  <1>1. IInv => TypeOK
    BY DEF IInv
  <1>2. QED  BY <1>1, Invariance, PTL

\* try_reserve and release keep every code within CHECK (uses_count >= 0 AND
\* uses_count <= max_uses), for any number of overlapping requests.
THEOREM CodesWithinMax == Spec => []UsesWithinMax
  <1>1. IInv => UsesWithinMax
    BY DEF IInv
  <1>2. QED  BY <1>1, Invariance, PTL

\* _grant_entitlement: whoever has paid is enrolled, in every required course.
THEOREM PaidOrdersAreEntitled == Spec => []PaidIsEntitled
  <1>1. IInv => PaidIsEntitled
    BY DEF IInv
  <1>2. QED  BY <1>1, Invariance, PTL

\* An order is paid or refunded only after one of its transactions performed.
THEOREM PaidOrdersWerePerformed == Spec => []PaidWasPerformed
  <1>1. IInv => PaidWasPerformed
    BY DEF IInv
  <1>2. QED  BY <1>1, Invariance, PTL

\* The order a transaction names has left PENDING and never comes back to it.
THEOREM PendingOrdersAreUncharged == Spec => []PendingIsUncharged
  <1>1. IInv => PendingIsUncharged
    BY DEF IInv, TxnsOK, PendingIsUncharged
  <1>2. QED  BY <1>1, Invariance, PTL

\* A recorded transaction keeps its order, its amount and its having been
\* performed, and is never opened again.
THEOREM TransactionsAreFixed == Spec => TransactionFixed
  <1>1. IInv /\ [Next]_vars =>
          [\A t \in Txn : txn[t].state # "absent" =>
             /\ txn'[t].order = txn[t].order
             /\ txn'[t].amount = txn[t].amount
             /\ txn[t].performed => txn'[t].performed
             /\ txn'[t].state = "created" => txn[t].state = "created"]_vars
    BY NextIInv DEF Stable
  <1>2. QED  BY <1>1, Invariance, PTL DEF Spec, TransactionFixed

-----------------------------------------------------------------------------
(* One request at a time *)

\* The service runs one handler to its end before it starts the next one.
OneAtATime == \A r, s \in Req : r = s

\* What a request that runs alone loaded is still what is there: nothing else
\* writes an order, a transaction or the uses of a code.
Current(q) ==
    /\ q.oid # None => q.row = order[q.oid]
    /\ q.at \in {"create.promo", "create.write"} =>
         IF q.oid = None THEN PendingOrders(q.row.buyer, q.row.item) = {}
                         ELSE q.row.status = "pending"
    /\ q.at = "cancel.write" => q.row.status \in {"pending", "processing"}
    /\ q.at = "merchant.create" => q.row.status = "pending"
    /\ q.at \in TxnStages \/ (q.at = "granting" /\ q.state # "absent") =>
         q.state = txn[q.tid].state
    /\ q.at = "revoke.write" => (q.used <=> promo[q.promo].uses > 0)

RequestsCurrent == \A r \in Req : Current(req[r])

\* An order whose payment is held open has the transaction that holds it.
ProcessingIsHeld == \A o \in Order : order[o].status = "processing" => HeldOpen(o)

Inserted == {o \in Order : order[o].status # "absent"}

\* An order that awaits payment has no transaction, and nothing lets one wait
\* again, so a second one is never opened.
OneTransactionPerOrder ==
    \A t, u \in Txn : txn[t].order # None /\ txn[t].order = txn[u].order => t = u

Books == /\ ProcessingIsHeld /\ IsFiniteSet(Inserted)
         /\ TablesAgree /\ OneTransactionPerOrder /\ OnePendingOrder
         /\ ChargedIsAmount /\ NoLeakedReservation

SeqInv == RequestsCurrent /\ Books

\* A request that ends leaves none that could rely on anything.
LEMMA AloneEnds ==
  ASSUME OneAtATime, TypeOK, NEW r \in Req, Finish(r)
  PROVE  RequestsCurrent'
  <1>1. \A s \in Req : req'[s] = Idle
    BY DEF OneAtATime, TypeOK, Finish
  <1>2. Current(Idle)'
    BY DEF Current, Idle, TxnStages
  <1>3. QED  BY <1>1, <1>2 DEF RequestsCurrent

\* A request that goes on alone relies on what its new state says.
LEMMA AloneGoesOn ==
  ASSUME OneAtATime, TypeOK, NEW r \in Req, NEW q, Current(q)',
         req' = [req EXCEPT ![r] = q]
  PROVE  RequestsCurrent'
  <1>1. \A s \in Req : req'[s] = q
    BY DEF OneAtATime, TypeOK
  <1>2. QED  BY <1>1 DEF RequestsCurrent

\* Steps that write no order, no transaction and no use of a code keep the books.
LEMMA BooksKept ==
  ASSUME Books, UNCHANGED <<order, txn>>,
         \A p \in Promo : promo'[p].uses = promo[p].uses
  PROVE  Books'
  <1>1. /\ ProcessingIsHeld' /\ TablesAgree' /\ OneTransactionPerOrder'
        /\ OnePendingOrder' /\ ChargedIsAmount'
    BY DEF Books, ProcessingIsHeld, HeldOpen, TablesAgree, OneTransactionPerOrder,
       OnePendingOrder, ChargedIsAmount
  <1>2. Inserted' = Inserted /\ \A p \in Promo : Holders(p)' = Holders(p)
    BY DEF Inserted, Holders
  <1>3. NoLeakedReservation'
    BY <1>2 DEF Books, NoLeakedReservation
  <1>4. QED  BY <1>1, <1>2, <1>3 DEF Books

\* What a handler that runs alone loads is what is there.
LEMMA ArriveCurrent ==
  ASSUME OneAtATime, IInv, SeqInv, NEW r \in Req, Arrive(r)
  PROVE  SeqInv'
  <1>1. TypeOK /\ UNCHANGED db
    BY DEF IInv, Arrive, CreateOrder, CancelOrder, PayWithCard, CreateTransaction,
       PerformTransaction, CancelTransaction, LoadTransaction, RevokePromocode
  <1>2. Books'
    BY <1>1, BooksKept DEF SeqInv, db
  <1>3. ASSUME NEW q, Current(q), Begin(r, q)
        PROVE  SeqInv'
    <2>1. Current(q)'
      BY <1>1, <1>3 DEF Current, db, PendingOrders
    <2>2. RequestsCurrent'
      BY <1>1, <1>3, <2>1, AloneGoesOn DEF Begin
    <2>3. QED  BY <1>2, <2>2 DEF SeqInv
  <1>4. CASE \E b \in Buyer, i \in Item, p \in Promo \cup {None} : CreateOrder(r, b, i, p)
    <2>1. PICK b \in Buyer, i \in Item, p \in Promo \cup {None} : CreateOrder(r, b, i, p)
      BY <1>4
    <2> DEFINE at == IF p = None THEN "create.write" ELSE "create.promo"
               new == [Idle EXCEPT !.at = at, !.promo = p,
                                   !.row = [NoOrder EXCEPT !.buyer = b, !.item = i]]
               old(o) == [Idle EXCEPT !.at = at, !.promo = p, !.oid = o, !.row = order[o]]
    <2>2. CASE PendingOrders(b, i) = {}
      <3>1. Begin(r, new)
        BY <2>1, <2>2, ZenonT(60) DEF CreateOrder, Idle, NoOrder
      <3>2. /\ new.oid = None /\ new.row.buyer = b /\ new.row.item = i
            /\ new.at \in {"create.promo", "create.write"}
        BY DEF Idle, NoOrder
      <3>3. Current(new)
        BY <2>2, <3>2 DEF Current, TxnStages
      <3>4. QED  BY <1>3, <3>1, <3>3
    <2>3. CASE PendingOrders(b, i) # {}
      <3>1. PICK o \in Order : PendingOrders(b, i) = {o} /\ Begin(r, old(o))
        BY <2>1, <2>3 DEF CreateOrder, Idle
      <3>2. order[o].status = "pending"
        BY <3>1 DEF PendingOrders
      <3>3. /\ old(o).oid = o /\ old(o).row = order[o]
            /\ old(o).at \in {"create.promo", "create.write"}
        BY DEF Idle
      <3>4. Current(old(o))
        BY <3>2, <3>3, ConstantsOK DEF Current, TxnStages
      <3>5. QED  BY <1>3, <3>1, <3>4
    <2>4. QED  BY <2>2, <2>3
  <1>5. CASE \E o \in Order : CancelOrder(r, o) \/ PayWithCard(r, o)
    <2>1. PICK o \in Order : CancelOrder(r, o) \/ PayWithCard(r, o)
      BY <1>5
    <2> DEFINE q(at) == [Idle EXCEPT !.at = at, !.oid = o, !.row = order[o]]
    <2>2. CASE CancelOrder(r, o)
      <3>1. Current(q("cancel.write"))
        BY <2>2 DEF CancelOrder, Cancellable, Current, Idle, TxnStages
      <3>2. QED  BY <1>3, <2>2, <3>1 DEF CancelOrder
    <2>3. CASE PayWithCard(r, o)
      <3>1. Current(q("card.charge"))
        BY DEF Current, Idle, TxnStages
      <3>2. QED  BY <1>3, <2>3, <3>1 DEF PayWithCard
    <2>4. QED  BY <2>1, <2>2, <2>3
  <1>6. CASE \E t \in PaymeTxn, o \in Order : CreateTransaction(r, t, o)
    <2>1. PICK t \in PaymeTxn, o \in Order : CreateTransaction(r, t, o)
      BY <1>6
    <2> DEFINE q == [Idle EXCEPT !.at = "merchant.create", !.oid = o,
                                 !.row = order[o], !.tid = t]
    <2>2. Current(q)
      BY <2>1 DEF CreateTransaction, AwaitsPayment, Current, Idle, TxnStages
    <2>3. QED  BY <1>3, <2>1, <2>2 DEF CreateTransaction
  <1>7. CASE \E t \in Txn : PerformTransaction(r, t) \/ CancelTransaction(r, t)
    <2>1. PICK t \in Txn, at \in TxnStages : LoadTransaction(r, t, at)
      BY <1>7 DEF PerformTransaction, CancelTransaction, TxnStages
    <2> DEFINE q == [Idle EXCEPT !.at = at, !.oid = txn[t].order,
                                 !.row = order[txn[t].order], !.tid = t,
                                 !.state = txn[t].state]
    <2>2. Current(q)
      BY DEF Current, Idle, TxnStages
    <2>3. QED  BY <1>3, <2>1, <2>2 DEF LoadTransaction
  <1>8. CASE \E p \in Promo : RevokePromocode(r, p)
    <2>1. PICK p \in Promo : RevokePromocode(r, p)
      BY <1>8
    <2> DEFINE q == [Idle EXCEPT !.at = "revoke.write", !.promo = p,
                                 !.used = promo[p].uses > 0]
    <2>2. q.at = "revoke.write" /\ q.promo = p /\ q.oid = None /\ (q.used <=> promo[p].uses > 0)
      BY DEF Idle
    <2>3. Current(q)
      BY <2>2 DEF Current, TxnStages
    <2>4. QED  BY <1>3, <2>1, <2>3 DEF RevokePromocode
  <1>9. QED  BY <1>4, <1>5, <1>6, <1>7, <1>8 DEF Arrive

\* Steps of the request that write no row leave what it loaded as it is.
LEMMA QuietCurrent ==
  ASSUME OneAtATime, IInv, SeqInv, NEW r \in Req,
         FindPromo(r) \/ ChargeCard(r) \/ GrantFlush(r) \/ Abort(r)
  PROVE  SeqInv'
  <1>1. TypeOK /\ req[r] \in Request /\ RequestOK(req[r]) /\ Current(req[r])
    BY DEF IInv, SeqInv, TypeOK, RequestsOK, RequestsCurrent
  <1>2. UNCHANGED db
    BY DEF FindPromo, ChargeCard, GrantFlush, Abort
  <1>3. Books'
    BY <1>2, BooksKept DEF SeqInv, db
  <1>4. ASSUME NEW q, Current(q), req' = [req EXCEPT ![r] = q]
        PROVE  RequestsCurrent'
    <2>1. Current(q)'
      BY <1>2, <1>4 DEF Current, db, PendingOrders
    <2>2. QED  BY <1>1, <1>4, <2>1, AloneGoesOn
  <1>5. CASE Finish(r)
    BY <1>1, <1>3, <1>5, AloneEnds DEF SeqInv
  <1>6. CASE FindPromo(r) /\ ~Finish(r)
    <2> DEFINE q == [req[r] EXCEPT !.at = "create.write"]
    <2>1. req[r].at = "create.promo" /\ req' = [req EXCEPT ![r] = q]
      BY <1>6 DEF FindPromo
    <2>2. Current(q)
      BY <1>1, <2>1 DEF Current, Request, TxnStages
    <2>3. QED  BY <1>3, <1>4, <2>1, <2>2 DEF SeqInv
  <1>7. CASE ChargeCard(r) /\ ~Finish(r)
    <2>1. PICK t \in Receipt :
            req' = [req EXCEPT ![r] = [req[r] EXCEPT !.at = "card.flush", !.tid = t]]
      BY <1>7 DEF ChargeCard
    <2> DEFINE q == [req[r] EXCEPT !.at = "card.flush", !.tid = t]
    <2>2. Current(q)
      BY <1>1 DEF Current, Request, TxnStages
    <2>3. QED  BY <1>3, <1>4, <2>1, <2>2 DEF SeqInv
  <1>8. CASE GrantFlush(r) /\ ~Finish(r)
    <2> DEFINE q == [req[r] EXCEPT !.at = "granting", !.has = HasOf(req[r].row.buyer)]
    <2>1. req[r].at \in {"card.flush", "perform.flush"} /\ req' = [req EXCEPT ![r] = q]
      BY <1>8 DEF GrantFlush
    <2>2. Current(q)
      BY <1>1, <2>1 DEF Current, Request, RequestOK, LoadedCard, CardStages, TxnStages
    <2>3. QED  BY <1>3, <1>4, <2>1, <2>2 DEF SeqInv
  <1>9. QED  BY <1>5, <1>6, <1>7, <1>8 DEF Abort

\* The rest of the application writes nothing a request of the checkout loads.
LEMMA EnvironmentCurrent ==
  ASSUME IInv, SeqInv, Environment
  PROVE  SeqInv'
  <1>1. UNCHANGED <<order, txn, req>>
    BY DEF Environment, CreatePromocode, ExpirePromocode, Enroll, SetPublished
  <1>2. \A p \in Promo : promo'[p].uses = promo[p].uses
    BY DEF IInv, TypeOK, UsesWithinMax, PromoRow, Environment, CreatePromocode, ExpirePromocode,
       Enroll, SetPublished
  <1>3. Books'
    BY <1>1, <1>2, BooksKept DEF SeqInv
  <1>4. RequestsCurrent'
    <2>1. ASSUME NEW r \in Req
          PROVE  Current(req[r])'
      <3>1. PICK q \in Request : q = req[r] /\ Current(q) /\ RequestOK(q)
        BY DEF IInv, SeqInv, TypeOK, RequestsOK, RequestsCurrent
      <3>2. q.at = "revoke.write" => q.promo \in Promo
        BY <3>1 DEF RequestOK, LoadedRest, Request
      <3>3. Current(q)'
        BY <1>1, <1>2, <3>1, <3>2 DEF Current, PendingOrders
      <3>4. req'[r] = q
        BY <1>1, <3>1
      <3>5. QED  BY <3>3, <3>4
    <2>2. QED  BY <2>1 DEF RequestsCurrent
  <1>5. QED  BY <1>3, <1>4 DEF SeqInv

\* What TablesAgree admits, clause by clause.
Admits(state, status) ==
    /\ state = "created" => status \in {"processing", "cancelled"}
    /\ state = "performed" => status = "paid"
    /\ state = "cancelled" => status = "cancelled"
    /\ state = "reversed" => status = "refunded"

\* On the states a row can have the clauses say what TablesAgree says.
LEMMA AdmitsByClause ==
  ASSUME NEW state \in TxnState, NEW status
  PROVE  status \in (CASE state = "created"   -> {"processing", "cancelled"}
                       [] state = "performed" -> {"paid"}
                       [] state = "cancelled" -> {"cancelled"}
                       [] state = "reversed"  -> {"refunded"})
         <=> Admits(state, status)
  <1>1. CASE state = "created"
    BY <1>1 DEF Admits
  <1>2. CASE state = "performed"
    BY <1>2 DEF Admits
  <1>3. CASE state = "cancelled"
    BY <1>3 DEF Admits
  <1>4. CASE state = "reversed"
    BY <1>4 DEF Admits
  <1>5. QED  BY <1>1, <1>2, <1>3, <1>4 DEF TxnState

\* A transaction that is recorded agrees with its order.
LEMMA TxnOfOrder ==
  ASSUME IInv, Books, NEW t \in Txn, txn[t].order # None
  PROVE  /\ txn[t].state \in TxnState /\ txn[t].order \in Order
         /\ Admits(txn[t].state, order[txn[t].order].status)
         /\ txn[t].amount = order[txn[t].order].amount
         /\ \A u \in Txn : txn[u].order = txn[t].order => u = t
  <1>1. txn[t].state \in TxnState /\ txn[t].order \in Order
    BY DEF IInv, TypeOK, TxnsOK, TxnRow
  <1>2. order[txn[t].order].status \in
          (CASE txn[t].state = "created"   -> {"processing", "cancelled"}
             [] txn[t].state = "performed" -> {"paid"}
             [] txn[t].state = "cancelled" -> {"cancelled"}
             [] txn[t].state = "reversed"  -> {"refunded"})
    BY DEF Books, TablesAgree
  <1>3. Admits(txn[t].state, order[txn[t].order].status)
    BY <1>1, <1>2, AdmitsByClause, Zenon
  <1>4. QED  BY <1>1, <1>3 DEF Books, ChargedIsAmount, OneTransactionPerOrder

\* A code's uses stay within its live orders when one order changes, if a
\* release accounts for an order that leaves and an order accounts for a use
\* that is added.
LEMMA HoldersStep ==
  ASSUME NEW o \in Order, NEW p \in Promo,
         \A n \in Order \ {o} : order'[n] = order[n],
         IsFiniteSet(Inserted), promo[p].uses \in Nat,
         promo[p].uses <= Cardinality(Holders(p)),
         \/ promo'[p].uses = promo[p].uses /\ (o \in Holders(p) => o \in Holders(p)')
         \/ promo'[p].uses = promo[p].uses - 1
         \/ promo'[p].uses = promo[p].uses + 1 /\ o \notin Holders(p) /\ o \in Holders(p)'
         \/ promo'[p].uses = 0
  PROVE  promo'[p].uses <= Cardinality(Holders(p)')
  <1> DEFINE H == Holders(p)
             G == Holders(p)'
             K == H \ {o}
  <1>1. IsFiniteSet(Inserted \cup {o})
    BY FS_AddElement
  <1>2. H \subseteq Inserted \cup {o} /\ G \subseteq Inserted \cup {o}
    BY DEF Holders, Inserted
  <1>3. IsFiniteSet(H) /\ IsFiniteSet(G)
    BY <1>1, <1>2, FS_Subset
  <1>4. Cardinality(H) \in Nat /\ Cardinality(G) \in Nat
    BY <1>3, FS_CardinalityType
  <1>5. K = G \ {o}
    BY DEF Holders
  <1>6. Cardinality(K) = IF o \in H THEN Cardinality(H) - 1 ELSE Cardinality(H)
    BY <1>3, FS_RemoveElement
  <1>7. Cardinality(K) = IF o \in G THEN Cardinality(G) - 1 ELSE Cardinality(G)
    BY <1>3, <1>5, FS_RemoveElement
  <1> HIDE DEF H, G, K
  <1>8. promo'[p].uses <= Cardinality(G)
    BY <1>4, <1>6, <1>7 DEF H, G
  <1>9. QED  BY <1>8 DEF G

\* When a step changes one order and the transactions that name it, the books
\* need only be checked for that order and for the codes.
LEMMA BooksStep ==
  ASSUME IInv, IInv', Stable, Books, NEW o \in Order,
         \A n \in Order \ {o} : order'[n] = order[n],
         \A t \in Txn : txn'[t] = txn[t] \/ txn'[t].order = o,
         \A t \in Txn : txn'[t].order = o =>
            /\ Admits(txn'[t].state, order'[o].status)
            /\ txn'[t].amount = order'[o].amount,
         \A t, u \in Txn : txn'[t].order = o /\ txn'[u].order = o => t = u,
         order'[o].status = "processing" => HeldOpen(o)',
         order'[o].status = "pending" =>
            /\ order[o].status = "pending" => /\ order'[o].buyer = order[o].buyer
                                              /\ order'[o].item = order[o].item
            /\ order[o].status # "pending" =>
                 PendingOrders(order'[o].buyer, order'[o].item) = {},
         \A p \in Promo :
            \/ promo'[p].uses = promo[p].uses /\ (o \in Holders(p) => o \in Holders(p)')
            \/ promo'[p].uses = promo[p].uses - 1
            \/ promo'[p].uses = promo[p].uses + 1 /\ o \notin Holders(p) /\ o \in Holders(p)'
            \/ promo'[p].uses = 0
  PROVE  Books'
  <1>1. TypeOK /\ TxnsOK /\ TypeOK' /\ TxnsOK'
    BY DEF IInv
  <1>2. \A t \in Txn : txn'[t].order # None => txn'[t].order \in Order
    BY <1>1 DEF TypeOK, TxnRow
  <1>3. ProcessingIsHeld'
    <2>1. ASSUME NEW n \in Order \ {o}, order'[n].status = "processing"
          PROVE  \E t \in Txn : txn'[t].order = n /\ txn'[t].state = "created"
      <3>1. PICK t \in Txn : txn[t].order = n /\ txn[t].state = "created"
        BY <2>1 DEF Books, ProcessingIsHeld, HeldOpen
      <3>2. txn[t].state # "absent" /\ txn'[t].order # o
        BY <3>1 DEF Stable
      <3>3. txn'[t] = txn[t]
        BY <3>2
      <3>4. QED  BY <3>1, <3>3
    <2>2. QED  BY <2>1 DEF ProcessingIsHeld, HeldOpen
  <1>4. IsFiniteSet(Inserted)'
    <2>1. IsFiniteSet(Inserted \cup {o}) /\ Inserted' \subseteq Inserted \cup {o}
      BY FS_AddElement DEF Books, Inserted
    <2>2. QED  BY <2>1, FS_Subset
  <1>5. TablesAgree'
    <2>1. \A t \in Txn : /\ txn[t].order # None => txn[t].state \in TxnState
                         /\ txn'[t].order # None => txn'[t].state \in TxnState
      BY <1>1 DEF TypeOK, TxnsOK, TxnRow
    <2>2. \A t \in Txn : txn[t].order # None =>
            Admits(txn[t].state, order[txn[t].order].status)
      BY TxnOfOrder
    <2>3. \A t \in Txn : txn'[t].order # None =>
            Admits(txn'[t].state, order'[txn'[t].order].status)
      BY <1>2, <2>2
    <2>4. QED  BY <2>1, <2>3, AdmitsByClause DEF TablesAgree
  <1>6. OneTransactionPerOrder'
    BY <1>2 DEF Books, OneTransactionPerOrder
  <1>7. OnePendingOrder'
    BY DEF Books, OnePendingOrder, PendingOrders
  <1>8. ChargedIsAmount'
    BY <1>2 DEF Books, ChargedIsAmount
  <1>9. NoLeakedReservation'
    BY <1>1, HoldersStep DEF Books, NoLeakedReservation, TypeOK, PromoRow
  <1>10. QED  BY <1>3, <1>4, <1>5, <1>6, <1>7, <1>8, <1>9 DEF Books

-----------------------------------------------------------------------------
(* The purchase each order goes through *)

\* The stage an order is in, read clause by clause.
LEMMA StageRead ==
  ASSUME NEW o \in Order
  PROVE  /\ order[o].status = "absent" => stageOf[o] = "none"
         /\ order[o].status = "pending" => stageOf[o] = "open"
         /\ order[o].status = "processing" => stageOf[o] = "held"
         /\ order[o].status = "paid" => stageOf[o] = "settled"
         /\ order[o].status = "refunded" => stageOf[o] = "returned"
         /\ order[o].status = "cancelled" /\ HeldOpen(o) => stageOf[o] = "closedHeld"
         /\ order[o].status = "cancelled" /\ ~HeldOpen(o) => stageOf[o] = "closed"
         /\ order'[o].status = "absent" => stageOf'[o] = "none"
         /\ order'[o].status = "pending" => stageOf'[o] = "open"
         /\ order'[o].status = "processing" => stageOf'[o] = "held"
         /\ order'[o].status = "paid" => stageOf'[o] = "settled"
         /\ order'[o].status = "refunded" => stageOf'[o] = "returned"
         /\ order'[o].status = "cancelled" /\ HeldOpen(o)' => stageOf'[o] = "closedHeld"
         /\ order'[o].status = "cancelled" /\ ~HeldOpen(o)' => stageOf'[o] = "closed"
  BY DEF stageOf, StageOf

\* Where the rows of an order and its transactions are as they were, so is its
\* stage; delivered items stay delivered.
LEMMA PurchaseKept ==
  ASSUME IInv, Stable, NEW S \in SUBSET Order,
         \A n \in S : order'[n].status = order[n].status,
         \A t \in Txn : txn'[t] = txn[t] \/ txn'[t].order \notin S
  PROVE  /\ \A n \in S : stageOf'[n] = stageOf[n]
         /\ deliveredOrders \subseteq deliveredOrders' /\ deliveredOrders' \subseteq Order
         /\ enrolled' = enrolled =>
              \A n \in Order : order[n].status # "absent" /\ n \in deliveredOrders'
                                 => n \in deliveredOrders
  <1>1. \A n \in S : HeldOpen(n)' <=> HeldOpen(n)
    <2>1. \A t \in Txn : txn[t].order # None => txn'[t].order = txn[t].order
      BY DEF Stable, IInv, TxnsOK
    <2>2. \A n \in S : n # None
      BY ConstantsOK
    <2>3. \A n \in S, t \in Txn : txn'[t].order = n \/ txn[t].order = n => txn'[t] = txn[t]
      BY <2>1, <2>2
    <2>4. QED  BY <2>3 DEF HeldOpen
  <1>2. \A n \in S : stageOf'[n] = stageOf[n]
    BY <1>1, StageRead DEF IInv, TypeOK, OrderRow, OrderStatus
  <1>3. deliveredOrders \subseteq deliveredOrders' /\ deliveredOrders' \subseteq Order
    BY DEF deliveredOrders, Stable, Entitlement
  <1>4. ASSUME enrolled' = enrolled, NEW n \in Order,
               order[n].status # "absent", n \in deliveredOrders'
        PROVE  n \in deliveredOrders
    BY <1>4 DEF deliveredOrders, Stable, Entitlement
  <1>5. QED  BY <1>2, <1>3, <1>4

\* A step that leaves every order's status and every transaction alone delivers
\* or does nothing.
LEMMA PurchaseStays ==
  ASSUME IInv, Stable, UNCHANGED txn,
         \A n \in Order : order'[n].status = order[n].status
  PROVE  [P!Next]_<<stageOf, deliveredOrders>>
  <1>1. /\ \A n \in Order : stageOf'[n] = stageOf[n]
        /\ deliveredOrders \subseteq deliveredOrders' /\ deliveredOrders' \subseteq Order
    BY PurchaseKept
  <1>2. stageOf' = stageOf
    BY <1>1 DEF stageOf
  <1>3. P!Deliver
    BY <1>1, <1>2 DEF P!Deliver
  <1>4. QED  BY <1>3 DEF P!Next

\* A step that changes one order's row, and transactions of that order only,
\* moves that order from its stage to its next one.
LEMMA PurchaseMoves ==
  ASSUME IInv, Stable, NEW o \in Order,
         \A n \in Order \ {o} : order'[n] = order[n],
         \A t \in Txn : txn'[t] = txn[t] \/ txn'[t].order = o
  PROVE  /\ stageOf' = [stageOf EXCEPT ![o] = stageOf'[o]]
         /\ deliveredOrders \subseteq deliveredOrders' /\ deliveredOrders' \subseteq Order
         /\ enrolled' = enrolled => deliveredOrders' \subseteq deliveredOrders \cup {o}
         /\ enrolled' = enrolled /\ order[o].status # "absent" => UNCHANGED deliveredOrders
  <1> DEFINE S == Order \ {o}
  <1>1. /\ \A n \in S : stageOf'[n] = stageOf[n]
        /\ deliveredOrders \subseteq deliveredOrders' /\ deliveredOrders' \subseteq Order
        /\ enrolled' = enrolled =>
              \A n \in Order : order[n].status # "absent" /\ n \in deliveredOrders'
                                 => n \in deliveredOrders
    <2>1. \A t \in Txn : txn'[t] = txn[t] \/ txn'[t].order \notin S
      OBVIOUS
    <2>2. QED  BY <2>1, PurchaseKept
  <1>2. /\ stageOf = [n \in Order |-> stageOf[n]]
        /\ stageOf' = [n \in Order |-> stageOf'[n]]
    BY DEF stageOf
  <1>3. stageOf' = [stageOf EXCEPT ![o] = stageOf'[o]]
    BY <1>1, <1>2
  <1>4. \A n \in S : n \in deliveredOrders' => order[n].status # "absent"
    BY DEF deliveredOrders
  <1>5. QED  BY <1>1, <1>3, <1>4

-----------------------------------------------------------------------------
(* The handlers' writes, one request at a time *)

PStep == [P!Next]_<<stageOf, deliveredOrders>>

\* create_order inserts the buyer's only pending order of the item.
LEMMA InsertOrderAlone ==
  ASSUME OneAtATime, IInv, SeqInv, NEW r \in Req, InsertOrder(r)
  PROVE  SeqInv' /\ PStep
  <1> DEFINE q == req[r]
  <1>1. /\ IInv' /\ Stable /\ TypeOK /\ Books /\ Current(q) /\ q \in Request /\ RequestOK(q)
        /\ Finish(r) /\ UNCHANGED <<txn, enrolled, published>> /\ RequestsCurrent'
        /\ q.at = "create.write" /\ q.oid = None
    BY InsertOrderStep, AloneEnds
       DEF IInv, SeqInv, TypeOK, RequestsOK, RequestsCurrent, InsertOrder
  <1>2. CASE UNCHANGED <<order, promo>>
    BY <1>1, <1>2, BooksKept, PurchaseStays DEF SeqInv, PStep
  <1>3. CASE ~UNCHANGED <<order, promo>>
    <2>1. PICK o \in Order :
            /\ order[o].status = "absent"
            /\ order' = [order EXCEPT ![o] =
                  [q.row EXCEPT !.status = "pending", !.promo = q.promo,
                                !.amount = Amount(q.row.item, q.promo)]]
      BY <1>3 DEF InsertOrder
    <2>2. promo' = Reserved(promo, q.promo)
      BY <1>3 DEF InsertOrder
    <2>3. /\ \A n \in Order \ {o} : order'[n] = order[n]
          /\ order'[o].status = "pending" /\ order'[o].promo = q.promo
          /\ order'[o].buyer = q.row.buyer /\ order'[o].item = q.row.item
      BY <1>1, <2>1 DEF TypeOK, Request, OrderRow
    <2>4. PendingOrders(q.row.buyer, q.row.item) = {}
      BY <1>1 DEF Current
    <2>5. \A t \in Txn : txn'[t] = txn[t] /\ txn[t].order # o
      <3>1. \A t \in Txn : txn[t].order # None => order[txn[t].order].status # "absent"
        BY DEF IInv, TxnsOK
      <3>2. QED  BY <1>1, <2>1, <3>1, ConstantsOK
    <2>6. \A p \in Promo :
            \/ promo'[p].uses = promo[p].uses /\ (o \in Holders(p) => o \in Holders(p)')
            \/ promo'[p].uses = promo[p].uses + 1 /\ o \notin Holders(p) /\ o \in Holders(p)'
      <3>1. TAKE p \in Promo
      <3>2. o \notin Holders(p)
        BY <2>1 DEF Holders
      <3>3. q.promo = p => o \in Holders(p)'
        BY <2>3 DEF Holders
      <3>4. CASE q.promo = p
        BY <1>1, <2>2, <3>2, <3>3, <3>4, ConstantsOK DEF Reserved, TypeOK, PromoRow
      <3>5. CASE q.promo # p
        BY <1>1, <2>2, <3>2, <3>5 DEF Reserved, TypeOK, PromoRow
      <3>6. QED  BY <3>4, <3>5
    <2>7. Books'
      BY <1>1, <2>1, <2>3, <2>4, <2>5, <2>6, BooksStep
    <2>8. PStep
      <3>1. stageOf[o] = "none" /\ stageOf'[o] = "open"
        BY <2>1, <2>3, StageRead
      <3>2. /\ stageOf' = [stageOf EXCEPT ![o] = stageOf'[o]]
            /\ deliveredOrders \subseteq deliveredOrders'
            /\ deliveredOrders' \subseteq deliveredOrders \cup {o}
        BY <1>1, <2>3, <2>5, PurchaseMoves
      <3>3. P!Open(o)
        BY <3>1, <3>2 DEF P!Open, P!Move
      <3>4. QED  BY <3>3 DEF PStep, P!Next
    <2>9. QED  BY <1>1, <2>7, <2>8 DEF SeqInv
  <1>4. QED  BY <1>2, <1>3

\* create_order moves the reservation of the pending order it re-uses.
LEMMA SwapPromoAlone ==
  ASSUME OneAtATime, IInv, SeqInv, NEW r \in Req, SwapPromo(r)
  PROVE  SeqInv' /\ PStep
  <1> DEFINE q == req[r]
  <1>1. /\ IInv' /\ Stable /\ TypeOK /\ Books /\ Current(q) /\ q \in Request /\ RequestOK(q)
        /\ Finish(r) /\ UNCHANGED <<txn, enrolled, published>> /\ RequestsCurrent'
        /\ q.at = "create.write" /\ q.oid # None
    BY SwapPromoStep, AloneEnds
       DEF IInv, SeqInv, TypeOK, RequestsOK, RequestsCurrent, SwapPromo
  <1>2. CASE UNCHANGED <<order, promo>>
    BY <1>1, <1>2, BooksKept, PurchaseStays DEF SeqInv, PStep
  <1>3. CASE ~UNCHANGED <<order, promo>>
    <2>1. /\ q.row.promo # q.promo
          /\ promo' = Reserved(Released(promo, q.row.promo), q.promo)
          /\ order' = [order EXCEPT ![q.oid].promo = q.promo,
                                    ![q.oid].amount = Amount(q.row.item, q.promo)]
      BY <1>3 DEF SwapPromo
    <2>2. PICK o \in Order : o = q.oid /\ q.row = order[o] /\ order[o].status = "pending"
      BY <1>1 DEF Request, Current
    <2>3. /\ \A n \in Order \ {o} : order'[n] = order[n]
          /\ order'[o].status = "pending" /\ order'[o].promo = q.promo
          /\ order'[o].buyer = order[o].buyer /\ order'[o].item = order[o].item
      BY <1>1, <2>1, <2>2 DEF TypeOK, OrderRow
    <2>4. \A t \in Txn : txn'[t] = txn[t] /\ txn[t].order # o
      BY <1>1, <2>2 DEF IInv, TxnsOK
    <2>5. \A p \in Promo :
            \/ promo'[p].uses = promo[p].uses /\ (o \in Holders(p) => o \in Holders(p)')
            \/ promo'[p].uses = promo[p].uses - 1
            \/ promo'[p].uses = promo[p].uses + 1 /\ o \notin Holders(p) /\ o \in Holders(p)'
            \/ promo'[p].uses = 0
      <3>1. TAKE p \in Promo
      <3> DEFINE old == Released(promo, q.row.promo)
      <3>2. old \in [Promo -> PromoRow]
        BY <1>1, ReleasedWithin DEF IInv, TypeOK, UsesWithinMax, WithinMax, OrderRow, Request
      <3>3. q.row.promo = p => old[p].uses = promo[p].uses - 1 \/ old[p].uses = 0
        BY <1>1, ConstantsOK DEF Released, TypeOK, PromoRow
      <3>4. q.row.promo # p => old[p].uses = promo[p].uses
        BY <1>1 DEF Released, TypeOK, PromoRow
      <3> HIDE DEF old
      <3>5. /\ q.promo = p => promo'[p].uses = old[p].uses + 1
            /\ q.promo # p => promo'[p].uses = old[p].uses
        BY <2>1, <3>2, ConstantsOK DEF Reserved, PromoRow, old
      <3>6. /\ o \in Holders(p) <=> q.row.promo = p
            /\ o \in Holders(p)' <=> q.promo = p
        BY <2>2, <2>3 DEF Holders
      <3>7. QED  BY <2>1, <3>3, <3>4, <3>5, <3>6
    <2>6. Books'
      BY <1>1, <2>2, <2>3, <2>4, <2>5, BooksStep
    <2>7. PStep
      BY <1>1, <2>2, <2>3, PurchaseStays DEF PStep
    <2>8. QED  BY <1>1, <2>6, <2>7 DEF SeqInv
  <1>4. QED  BY <1>2, <1>3

\* cancel_order closes an order; the payment that is open for it stays open.
LEMMA CancelOrderWriteAlone ==
  ASSUME OneAtATime, IInv, SeqInv, NEW r \in Req, CancelOrderWrite(r)
  PROVE  SeqInv' /\ PStep
  <1> DEFINE q == req[r]
  <1>1. /\ IInv' /\ Stable /\ TypeOK /\ Books /\ Current(q) /\ q \in Request /\ RequestOK(q)
        /\ Finish(r) /\ UNCHANGED <<txn, enrolled, published>> /\ RequestsCurrent'
        /\ q.at = "cancel.write" /\ promo' = Released(promo, q.row.promo)
        /\ order' = [order EXCEPT ![q.oid].status = "cancelled"]
    BY CancelOrderWriteStep, AloneEnds
       DEF IInv, SeqInv, TypeOK, RequestsOK, RequestsCurrent, CancelOrderWrite
  <1>2. PICK o \in Order : /\ o = q.oid /\ q.row = order[o]
                           /\ order[o].status \in {"pending", "processing"}
    BY <1>1 DEF Request, RequestOK, LoadedRest, OrderStages, Current
  <1>3. /\ \A n \in Order \ {o} : order'[n] = order[n]
        /\ order'[o] = [order[o] EXCEPT !.status = "cancelled"]
    BY <1>1, <1>2 DEF TypeOK
  <1>4. /\ order'[o].status = "cancelled" /\ order'[o].promo = order[o].promo
        /\ order'[o].amount = order[o].amount
    BY <1>1, <1>2, <1>3 DEF TypeOK, OrderRow
  <1>5. \A t \in Txn : txn[t].order = o =>
          /\ order[o].status = "processing"
          /\ txn[t].state = "created"
          /\ txn[t].amount = order[o].amount
    <2>1. TAKE t \in Txn
    <2>2. HAVE txn[t].order = o
    <2>3. order[o].status # "pending" /\ o # None
      BY <1>1, <2>2, ConstantsOK DEF IInv, TxnsOK
    <2>4. QED  BY <1>1, <1>2, <2>2, <2>3, TxnOfOrder DEF Admits, TxnState
  <1>6. \A p \in Promo :
          \/ promo'[p].uses = promo[p].uses /\ (o \in Holders(p) => o \in Holders(p)')
          \/ promo'[p].uses = promo[p].uses - 1
          \/ promo'[p].uses = 0
    <2>1. TAKE p \in Promo
    <2>2. CASE q.row.promo = p
      BY <1>1, <2>2, ConstantsOK DEF Released, TypeOK, PromoRow
    <2>3. CASE q.row.promo # p
      BY <1>1, <1>2, <2>3 DEF Released, TypeOK, PromoRow, Holders
    <2>4. QED  BY <2>2, <2>3
  <1>7. Books'
    <2>1. \A t, u \in Txn : txn[t].order = o /\ txn[u].order = o => t = u
      BY <1>1, <1>2, ConstantsOK DEF Books, OneTransactionPerOrder
    <2>2. \A t \in Txn : txn'[t] = txn[t]
      BY <1>1
    <2>3. \A t \in Txn : txn'[t].order = o =>
            Admits(txn'[t].state, order'[o].status) /\ txn'[t].amount = order'[o].amount
      BY <1>4, <1>5, <2>2 DEF Admits
    <2>4. QED  BY <1>1, <1>2, <1>3, <1>4, <1>6, <2>1, <2>2, <2>3, BooksStep
  <1>8. PStep
    <2>1. HeldOpen(o)' <=> HeldOpen(o)
      BY <1>1 DEF HeldOpen
    <2>2. HeldOpen(o) <=> order[o].status = "processing"
      BY <1>1, <1>2, <1>5 DEF Books, ProcessingIsHeld, HeldOpen
    <2>3. \/ stageOf[o] = "open" /\ stageOf'[o] = "closed"
          \/ stageOf[o] = "held" /\ stageOf'[o] = "closedHeld"
      BY <1>2, <1>4, <2>1, <2>2, StageRead
    <2>4. stageOf' = [stageOf EXCEPT ![o] = stageOf'[o]] /\ UNCHANGED deliveredOrders
      BY <1>1, <1>2, <1>3, PurchaseMoves
    <2>5. P!Cancel(o)
      BY <2>3, <2>4 DEF P!Cancel, P!Move
    <2>6. QED  BY <1>2, <2>5 DEF PStep, P!Next
  <1>9. QED  BY <1>1, <1>7, <1>8 DEF SeqInv

\* CreateTransaction opens the only payment of a pending order.
LEMMA CreateTransactionWriteAlone ==
  ASSUME OneAtATime, IInv, SeqInv, NEW r \in Req, CreateTransactionWrite(r)
  PROVE  SeqInv' /\ PStep
  <1> DEFINE q == req[r]
  <1>1. /\ IInv' /\ Stable /\ TypeOK /\ Books /\ Current(q) /\ q \in Request /\ RequestOK(q)
        /\ Finish(r) /\ UNCHANGED <<promo, enrolled, published>> /\ RequestsCurrent'
        /\ q.at = "merchant.create"
    BY CreateTransactionWriteStep, AloneEnds
       DEF IInv, SeqInv, TypeOK, RequestsOK, RequestsCurrent, CreateTransactionWrite
  <1>2. CASE UNCHANGED <<order, txn>>
    BY <1>1, <1>2, BooksKept, PurchaseStays DEF SeqInv, PStep
  <1>3. CASE ~UNCHANGED <<order, txn>>
    <2>1. PICK o \in Order : o = q.oid /\ q.row = order[o] /\ order[o].status = "pending"
      BY <1>1 DEF Request, RequestOK, LoadedRest, OrderStages, Current
    <2>2. PICK c \in Txn : c = q.tid
      BY <1>1 DEF RequestOK, LoadedTxn, Txn
    <2>3. /\ txn[c].state = "absent"
          /\ txn' = [txn EXCEPT ![c] = [order |-> o, state |-> "created",
                                        amount |-> order[o].amount, performed |-> FALSE]]
          /\ order' = [order EXCEPT ![o].status = "processing"]
      BY <1>3, <2>1, <2>2 DEF CreateTransactionWrite, Recordable, Charged
    <2>4. /\ \A n \in Order \ {o} : order'[n] = order[n]
          /\ order'[o] = [order[o] EXCEPT !.status = "processing"]
      BY <1>1, <2>1, <2>3 DEF TypeOK
    <2>5. /\ order'[o].status = "processing" /\ order'[o].promo = order[o].promo
          /\ order'[o].amount = order[o].amount
      BY <1>1, <2>1, <2>4 DEF TypeOK, OrderRow
    <2>6. /\ \A t \in Txn \ {c} : txn'[t] = txn[t]
          /\ txn'[c].order = o /\ txn'[c].state = "created"
          /\ txn'[c].amount = order[o].amount
      BY <1>1, <2>2, <2>3 DEF TypeOK
    <2>7. \A t \in Txn : txn[t].order # o
      BY <1>1, <2>1, ConstantsOK DEF IInv, TxnsOK
    <2>8. \A t \in Txn : txn'[t].order = o => t = c
      BY <2>6, <2>7
    <2>9. HeldOpen(o)'
      BY <2>2, <2>6 DEF HeldOpen
    <2>10. \A p \in Promo : promo'[p].uses = promo[p].uses /\ (o \in Holders(p) => o \in Holders(p)')
      BY <1>1, <2>5 DEF Holders
    <2>11. Books'
      <3>1. \A t \in Txn : txn'[t] = txn[t] \/ txn'[t].order = o
        BY <2>6
      <3>2. \A t \in Txn : txn'[t].order = o =>
              Admits(txn'[t].state, order'[o].status) /\ txn'[t].amount = order'[o].amount
        BY <2>5, <2>6, <2>8 DEF Admits
      <3>3. \A t, u \in Txn : txn'[t].order = o /\ txn'[u].order = o => t = u
        BY <2>8
      <3>4. QED  BY <1>1, <2>1, <2>4, <2>5, <2>9, <2>10, <3>1, <3>2, <3>3, BooksStep
    <2>12. PStep
      <3>1. stageOf[o] = "open" /\ stageOf'[o] = "held"
        BY <2>1, <2>5, StageRead
      <3>2. stageOf' = [stageOf EXCEPT ![o] = stageOf'[o]] /\ UNCHANGED deliveredOrders
        BY <1>1, <2>1, <2>4, <2>6, PurchaseMoves
      <3>3. P!Hold(o)
        BY <3>1, <3>2 DEF P!Hold, P!Move
      <3>4. QED  BY <2>1, <3>3 DEF PStep, P!Next
    <2>13. QED  BY <1>1, <2>11, <2>12 DEF SeqInv
  <1>4. QED  BY <1>2, <1>3

\* CancelTransaction gives up the payment that is open, or returns the one made.
LEMMA CancelTransactionWriteAlone ==
  ASSUME OneAtATime, IInv, SeqInv, NEW r \in Req, CancelTransactionWrite(r)
  PROVE  SeqInv' /\ PStep
  <1> DEFINE q == req[r]
  <1>1. /\ IInv' /\ Stable /\ TypeOK /\ Books /\ Current(q) /\ q \in Request /\ RequestOK(q)
        /\ Finish(r) /\ UNCHANGED <<enrolled, published>> /\ RequestsCurrent'
        /\ q.at = "merchant.cancel"
    BY CancelTransactionWriteStep, AloneEnds
       DEF IInv, SeqInv, TypeOK, RequestsOK, RequestsCurrent, CancelTransactionWrite
  <1>2. PICK o \in Order : o = q.oid /\ q.row = order[o]
    BY <1>1 DEF Request, RequestOK, LoadedRest, TxnStages, OrderStages, Current
  <1>3. PICK c \in Txn : /\ c = q.tid /\ txn[c].order = o /\ q.state = txn[c].state
                         /\ txn[c].state \in {"created", "performed"}
    BY <1>1, <1>2 DEF RequestOK, LoadedTxn, TxnStages, Current
  <1>4. /\ Admits(txn[c].state, order[o].status) /\ txn[c].amount = order[o].amount
        /\ \A t \in Txn : txn[t].order = o => t = c
    BY <1>1, <1>2, <1>3, ConstantsOK, TxnOfOrder
  <1> DEFINE refund == txn[c].state = "performed"
             status == IF refund THEN "refunded" ELSE "cancelled"
             state  == IF refund THEN "reversed" ELSE "cancelled"
  <1>5. /\ txn' = [txn EXCEPT ![c].state = state]
        /\ promo' = IF refund THEN promo ELSE Released(promo, order[o].promo)
        /\ order' = IF order[o].status = status THEN order
                    ELSE [order EXCEPT ![o].status = status]
    BY <1>2, <1>3 DEF CancelTransactionWrite, IsRefund, StatusAfterCancel
  <1>6. /\ \A n \in Order \ {o} : order'[n] = order[n]
        /\ order'[o].status = status /\ order'[o].promo = order[o].promo
        /\ order'[o].amount = order[o].amount
    BY <1>1, <1>2, <1>5 DEF TypeOK, OrderRow
  <1>7. /\ \A t \in Txn \ {c} : txn'[t] = txn[t]
        /\ txn'[c].order = o /\ txn'[c].state = state
        /\ txn'[c].amount = order[o].amount
    BY <1>1, <1>3, <1>4, <1>5 DEF TypeOK, TxnRow
  <1>8. \A t \in Txn : txn'[t].order = o => t = c
    BY <1>4, <1>7
  <1>9. \A p \in Promo :
          \/ promo'[p].uses = promo[p].uses /\ (o \in Holders(p) => o \in Holders(p)')
          \/ promo'[p].uses = promo[p].uses - 1
          \/ promo'[p].uses = 0
    <2>1. TAKE p \in Promo
    <2>2. CASE refund
      <3>1. o \in Holders(p) => o \in Holders(p)'
        BY <1>6, <2>2 DEF Holders
      <3>2. QED  BY <1>5, <2>2, <3>1
    <2>3. CASE ~refund /\ order[o].promo = p
      BY <1>1, <1>5, <2>3, ConstantsOK DEF Released, TypeOK, PromoRow
    <2>4. CASE ~refund /\ order[o].promo # p
      <3>1. o \notin Holders(p)
        BY <2>4 DEF Holders
      <3>2. QED  BY <1>1, <1>5, <2>4, <3>1 DEF Released, TypeOK, PromoRow
    <2>5. QED  BY <2>2, <2>3, <2>4
  <1>10. Books'
    <2>1. \A t \in Txn : txn'[t] = txn[t] \/ txn'[t].order = o
      BY <1>7
    <2>2. \A t \in Txn : txn'[t].order = o =>
            Admits(txn'[t].state, order'[o].status) /\ txn'[t].amount = order'[o].amount
      BY <1>6, <1>7, <1>8 DEF Admits
    <2>3. \A t, u \in Txn : txn'[t].order = o /\ txn'[u].order = o => t = u
      BY <1>8
    <2>4. order'[o].status # "processing" /\ order'[o].status # "pending"
      BY <1>6
    <2>5. QED  BY <1>1, <1>6, <1>9, <2>1, <2>2, <2>3, <2>4, BooksStep
  <1>11. PStep
    <2>1. HeldOpen(o) <=> ~refund
      BY <1>3, <1>4 DEF HeldOpen
    <2>2. ~HeldOpen(o)'
      BY <1>7, <1>8 DEF HeldOpen
    <2>3. stageOf' = [stageOf EXCEPT ![o] = stageOf'[o]] /\ UNCHANGED deliveredOrders
      <3>1. order[o].status # "absent"
        BY <1>1, <1>2, ConstantsOK DEF RequestOK, LoadedOrder
      <3>2. QED  BY <1>1, <1>6, <1>7, <3>1, PurchaseMoves
    <2>4. CASE refund
      <3>1. stageOf[o] = "settled" /\ stageOf'[o] = "returned"
        BY <1>4, <1>6, <2>4, StageRead DEF Admits
      <3>2. P!Return(o)
        BY <2>3, <3>1 DEF P!Return, P!Move
      <3>3. QED  BY <3>2 DEF PStep, P!Next
    <2>5. CASE ~refund
      <3>1. stageOf[o] \in {"held", "closedHeld"} /\ stageOf'[o] = "closed"
        BY <1>3, <1>4, <1>6, <2>1, <2>2, <2>5, StageRead DEF Admits
      <3>2. P!Release(o)
        BY <2>3, <3>1 DEF P!Release, P!Move
      <3>3. QED  BY <3>2 DEF PStep, P!Next
    <2>6. QED  BY <2>4, <2>5
  <1>12. QED  BY <1>1, <1>10, <1>11 DEF SeqInv

\* The commit of a payment settles its order and delivers in the same step.
LEMMA GrantCommitAlone ==
  ASSUME OneAtATime, IInv, SeqInv, NEW r \in Req, GrantCommit(r)
  PROVE  SeqInv' /\ PStep
  <1> DEFINE q == req[r]
  <1>1. /\ IInv' /\ Stable /\ TypeOK /\ Books /\ Current(q) /\ q \in Request /\ RequestOK(q)
        /\ Finish(r) /\ UNCHANGED <<promo, published>> /\ RequestsCurrent'
        /\ q.at = "granting"
    BY GrantCommitStep, AloneEnds
       DEF IInv, SeqInv, TypeOK, RequestsOK, RequestsCurrent, GrantCommit
  <1>2. CASE UNCHANGED <<enrolled, order, txn>>
    BY <1>1, <1>2, BooksKept, PurchaseStays DEF SeqInv, PStep
  <1>3. CASE ~UNCHANGED <<enrolled, order, txn>>
    <2>1. PICK o \in Order : o = q.oid /\ q.row = order[o] /\ order[o].status # "absent"
      BY <1>1 DEF Request, RequestOK, LoadedRest, LoadedOrder, OrderStages, Current
    <2>2. PICK c \in Txn : c = q.tid
      BY <1>1 DEF RequestOK, LoadedTxn, LoadedCard, OwnsReceipt, Txn
    <2>3. \/ /\ q.state = "absent" /\ txn[c].state = "absent" /\ order[o].status = "pending"
             /\ \A t \in Txn : txn[t].order # o
          \/ /\ q.state = "created" /\ txn[c].state = "created" /\ txn[c].order = o
             /\ order[o].status \in {"processing", "cancelled"}
             /\ txn[c].amount = order[o].amount
             /\ \A t \in Txn : txn[t].order = o => t = c
      <3>1. CASE q.state = "absent"
        <4>1. txn[c].state = "absent" /\ order[o].status = "pending"
          BY <1>1, <2>1, <2>2, <3>1 DEF RequestOK, LoadedCard, OwnsReceipt
        <4>2. \A t \in Txn : txn[t].order # o
          BY <1>1, <2>1, <4>1, ConstantsOK DEF IInv, TxnsOK
        <4>3. QED  BY <3>1, <4>1, <4>2
      <3>2. CASE q.state # "absent"
        <4>1. q.state = "created" /\ txn[c].state = "created" /\ txn[c].order = o
          BY <1>1, <2>1, <2>2, <3>2 DEF RequestOK, LoadedTxn, Current
        <4>2. QED  BY <1>1, <2>1, <4>1, ConstantsOK, TxnOfOrder DEF Admits
      <3>3. QED  BY <3>1, <3>2
    <2>4. /\ txn' = [txn EXCEPT ![c] =
                IF q.state = "absent"
                THEN [order |-> o, state |-> "performed",
                      amount |-> order[o].amount, performed |-> TRUE]
                ELSE [txn[c] EXCEPT !.state = "performed", !.performed = TRUE]]
          /\ order' = [order EXCEPT ![o].status = "paid"]
      BY <1>3, <2>1, <2>2, <2>3 DEF GrantCommit, Charged
    <2>5. /\ \A n \in Order \ {o} : order'[n] = order[n]
          /\ order'[o] = [order[o] EXCEPT !.status = "paid"]
      BY <1>1, <2>1, <2>4 DEF TypeOK
    <2>6. /\ order'[o].status = "paid" /\ order'[o].promo = order[o].promo
          /\ order'[o].amount = order[o].amount
      BY <1>1, <2>1, <2>5 DEF TypeOK, OrderRow
    <2>7. /\ \A t \in Txn \ {c} : txn'[t] = txn[t]
          /\ txn'[c].order = o /\ txn'[c].state = "performed"
          /\ txn'[c].amount = order[o].amount
      BY <1>1, <2>2, <2>3, <2>4 DEF TypeOK, TxnRow
    <2>8. \A t \in Txn : txn'[t].order = o => t = c
      BY <2>3, <2>7
    <2>9. Books'
      <3>1. \A t \in Txn : txn'[t] = txn[t] \/ txn'[t].order = o
        BY <2>7
      <3>2. \A t \in Txn : txn'[t].order = o =>
              Admits(txn'[t].state, order'[o].status) /\ txn'[t].amount = order'[o].amount
        BY <2>6, <2>7, <2>8 DEF Admits
      <3>3. \A t, u \in Txn : txn'[t].order = o /\ txn'[u].order = o => t = u
        BY <2>8
      <3>4. \A p \in Promo : promo'[p].uses = promo[p].uses /\ (o \in Holders(p) => o \in Holders(p)')
        BY <1>1, <2>6 DEF Holders
      <3>5. QED  BY <1>1, <2>5, <2>6, <3>1, <3>2, <3>3, <3>4, BooksStep
    <2>10. PStep
      <3>1. HeldOpen(o) <=> q.state = "created"
        BY <2>3 DEF HeldOpen
      <3>2. stageOf[o] \in {"open", "held", "closedHeld"} /\ stageOf'[o] = "settled"
        BY <2>3, <2>6, <3>1, StageRead
      <3>3. /\ stageOf' = [stageOf EXCEPT ![o] = stageOf'[o]]
            /\ deliveredOrders \subseteq deliveredOrders'
        BY <1>1, <2>5, <2>7, PurchaseMoves
      <3>4. o \in deliveredOrders'
        BY <1>1, <2>6 DEF IInv, PaidIsEntitled, deliveredOrders, Entitlement
      <3>5. P!Settle(o)
        BY <3>2, <3>3, <3>4 DEF P!Settle, P!Move
      <3>6. QED  BY <3>5 DEF PStep, P!Next
    <2>11. QED  BY <1>1, <2>9, <2>10 DEF SeqInv
  <1>4. QED  BY <1>2, <1>3

\* revoke_promocode deletes only a code no use of which is left.
LEMMA RevokePromocodeWriteAlone ==
  ASSUME OneAtATime, IInv, SeqInv, NEW r \in Req, RevokePromocodeWrite(r)
  PROVE  SeqInv' /\ PStep
  <1> DEFINE q == req[r]
  <1>1. /\ IInv' /\ Stable /\ TypeOK /\ Books /\ Current(q) /\ q \in Request /\ RequestOK(q)
        /\ Finish(r) /\ UNCHANGED <<txn, enrolled, published>> /\ RequestsCurrent'
        /\ q.at = "revoke.write"
    BY RevokePromocodeWriteStep, AloneEnds
       DEF IInv, SeqInv, TypeOK, RequestsOK, RequestsCurrent, RevokePromocodeWrite
  <1>2. PICK p \in Promo : p = q.promo /\ (q.used <=> promo[p].uses > 0)
    BY <1>1 DEF Request, RequestOK, LoadedRest, Current
  <1>3. \A n \in Order : /\ order'[n].buyer = order[n].buyer /\ order'[n].item = order[n].item
                         /\ order'[n].status = order[n].status
                         /\ order'[n].amount = order[n].amount
                         /\ order[n].promo # p => order'[n].promo = order[n].promo
    BY <1>1, <1>2 DEF TypeOK, OrderRow, RevokePromocodeWrite
  <1>4. \A n \in Promo : promo'[n].uses = promo[n].uses
    BY <1>1, <1>2 DEF TypeOK, PromoRow, RevokePromocodeWrite
  <1>5. /\ ProcessingIsHeld' /\ TablesAgree' /\ OneTransactionPerOrder'
        /\ OnePendingOrder' /\ ChargedIsAmount'
    <2>1. \A t \in Txn : txn[t].order # None => txn[t].order \in Order
      BY <1>1 DEF TypeOK, TxnRow
    <2>2. TablesAgree'
      BY <1>1, <1>3, <2>1 DEF Books, TablesAgree
    <2>3. QED  BY <1>1, <1>3, <2>1, <2>2 DEF Books, ProcessingIsHeld, HeldOpen,
                    OneTransactionPerOrder, OnePendingOrder, ChargedIsAmount
  <1>6. IsFiniteSet(Inserted)'
    <2>1. Inserted' = Inserted
      BY <1>3 DEF Inserted
    <2>2. QED  BY <1>1, <2>1 DEF Books
  <1>7. NoLeakedReservation'
    <2>1. ASSUME NEW n \in Promo
          PROVE  promo'[n].uses <= Cardinality(Holders(n)')
      <3>1. promo[n].uses <= Cardinality(Holders(n)) /\ promo[n].uses \in Nat
        BY <1>1 DEF Books, NoLeakedReservation, TypeOK, PromoRow
      <3>2. IsFiniteSet(Holders(n)') /\ Cardinality(Holders(n)') \in Nat
        <4>1. Holders(n)' \subseteq Inserted'
          BY DEF Holders, Inserted
        <4>2. QED  BY <1>6, <4>1, FS_Subset, FS_CardinalityType
      <3>3. CASE promo[n].uses = 0
        BY <1>4, <3>2, <3>3
      <3>4. CASE promo[n].uses # 0
        <4>1. order' = order \/ n # p
          BY <1>2, <3>1, <3>4 DEF RevokePromocodeWrite
        <4>2. Holders(n) \subseteq Holders(n)'
          BY <1>3, <4>1 DEF Holders
        <4>3. Cardinality(Holders(n)) <= Cardinality(Holders(n)')
          BY <3>2, <4>2, FS_Subset
        <4>4. IsFiniteSet(Holders(n)) /\ Cardinality(Holders(n)) \in Nat
          BY <3>2, <4>2, FS_Subset, FS_CardinalityType
        <4>5. QED  BY <1>4, <3>1, <3>2, <4>3, <4>4
      <3>5. QED  BY <3>3, <3>4
    <2>2. QED  BY <2>1 DEF NoLeakedReservation
  <1>8. PStep
    BY <1>1, <1>3, PurchaseStays DEF PStep
  <1>9. QED  BY <1>1, <1>5, <1>6, <1>7, <1>8 DEF SeqInv, Books

-----------------------------------------------------------------------------
(* The theorems about handlers that do not overlap *)

\* The empty tables are in order, and map to orders nobody has placed.
LEMMA InitSeqInv == Init => SeqInv /\ P!Init
  <1> SUFFICES ASSUME Init
               PROVE  SeqInv /\ P!Init
    OBVIOUS
  <1>1. /\ \A o \in Order : order[o].status = "absent"
        /\ \A t \in Txn : txn[t].order = None /\ txn[t].state = "absent"
        /\ \A p \in Promo : promo[p].uses = 0
        /\ \A r \in Req : req[r] = Idle
    BY DEF Init, NoOrder, NoTxn, NoPromo
  <1>2. RequestsCurrent
    BY <1>1 DEF RequestsCurrent, Current, Idle, TxnStages
  <1>3. Inserted = {} /\ \A p \in Promo : Holders(p) = {}
    BY <1>1 DEF Inserted, Holders
  <1>4. IsFiniteSet(Inserted) /\ NoLeakedReservation
    BY <1>1, <1>3, FS_EmptySet DEF NoLeakedReservation
  <1>5. /\ ProcessingIsHeld /\ TablesAgree /\ OneTransactionPerOrder
        /\ OnePendingOrder /\ ChargedIsAmount
    BY <1>1 DEF ProcessingIsHeld, TablesAgree, OneTransactionPerOrder, OnePendingOrder,
       ChargedIsAmount
  <1>6. P!Init
    <2>1. \A o \in Order : stageOf[o] = "none"
      BY <1>1, StageRead
    <2>2. stageOf = [o \in Order |-> "none"]
      BY <2>1 DEF stageOf
    <2>3. deliveredOrders = {}
      BY <1>1 DEF deliveredOrders
    <2>4. QED  BY <2>2, <2>3 DEF P!Init
  <1>7. QED  BY <1>2, <1>4, <1>5, <1>6 DEF SeqInv, Books

\* Every step of handlers that do not overlap keeps the books and is a step of
\* the purchase, or none.
LEMMA NextSeqInv == OneAtATime /\ IInv /\ SeqInv /\ [Next]_vars => SeqInv' /\ PStep
  <1> SUFFICES ASSUME OneAtATime, IInv, SeqInv, [Next]_vars
               PROVE  SeqInv' /\ PStep
    OBVIOUS
  <1>1. Stable
    BY NextIInv
  <1>2. ASSUME UNCHANGED db
        PROVE  PStep
    BY <1>1, <1>2, PurchaseStays DEF db, PStep
  <1>3. CASE \E r \in Req : Arrive(r)
    <2>1. UNCHANGED db
      BY <1>3 DEF Arrive, CreateOrder, CancelOrder, PayWithCard, CreateTransaction,
         PerformTransaction, CancelTransaction, LoadTransaction, RevokePromocode
    <2>2. QED  BY <1>2, <1>3, <2>1, ArriveCurrent
  <1>4. CASE \E r \in Req : Continue(r)
    <2>1. PICK r \in Req : Continue(r)
      BY <1>4
    <2>2. CASE FindPromo(r) \/ ChargeCard(r) \/ GrantFlush(r)
      BY <1>2, <2>2, QuietCurrent, QuietStep
    <2>3. CASE ~(FindPromo(r) \/ ChargeCard(r) \/ GrantFlush(r))
      BY <2>1, <2>3, InsertOrderAlone, SwapPromoAlone, CancelOrderWriteAlone,
         CreateTransactionWriteAlone, CancelTransactionWriteAlone, GrantCommitAlone,
         RevokePromocodeWriteAlone DEF Continue
    <2>4. QED  BY <2>2, <2>3
  <1>5. CASE \E r \in Req : Abort(r)
    BY <1>2, <1>5, QuietCurrent, QuietStep
  <1>6. CASE Environment
    <2>1. UNCHANGED <<order, txn>>
      BY <1>6 DEF Environment, CreatePromocode, ExpirePromocode, Enroll, SetPublished
    <2>2. QED  BY <1>1, <1>6, <2>1, EnvironmentCurrent, PurchaseStays DEF PStep
  <1>7. CASE UNCHANGED vars
    <2>1. UNCHANGED db /\ UNCHANGED req
      BY <1>7 DEF vars, db
    <2>2. RequestsCurrent'
      BY <2>1 DEF db, SeqInv, RequestsCurrent, Current, PendingOrders
    <2>3. QED  BY <1>2, <2>1, <2>2, BooksKept DEF db, SeqInv
  <1>8. QED  BY <1>3, <1>4, <1>5, <1>6, <1>7 DEF Next

\* Handlers that do not overlap keep the strengthened invariant.
THEOREM AloneInvariance ==
  ASSUME OneAtATime
  PROVE  Spec => []SeqInv
  <1>1. Init => SeqInv
    BY InitSeqInv
  <1>2. IInv /\ SeqInv /\ [Next]_vars => SeqInv'
    BY NextSeqInv
  <1>3. QED  BY <1>1, <1>2, Invariance, PTL DEF Spec

\* cancel_order, perform, cancel and refund keep a transaction's state and its
\* order's status in step, when handlers do not overlap.
THEOREM TablesAgreeAlone ==
  ASSUME OneAtATime
  PROVE  Spec => []TablesAgree
  <1>1. SeqInv => TablesAgree
    BY DEF SeqInv, Books
  <1>2. QED  BY <1>1, AloneInvariance, PTL

\* pay_with_card, CreateTransaction, PerformTransaction: the money of an order is
\* taken at most once, when handlers do not overlap.
THEOREM OrdersArePaidOnce ==
  ASSUME OneAtATime
  PROVE  Spec => []PaidOnce
  <1>1. SeqInv => OneTransactionPerOrder
    BY DEF SeqInv, Books
  <1>2. OneTransactionPerOrder => PaidOnce
    BY ConstantsOK DEF OneTransactionPerOrder, PaidOnce, Performed
  <1>3. QED  BY <1>1, <1>2, AloneInvariance, PTL

\* create_order never leaves a buyer two pending orders of an item, when
\* handlers do not overlap.
THEOREM PendingOrdersAreSingle ==
  ASSUME OneAtATime
  PROVE  Spec => []OnePendingOrder
  <1>1. SeqInv => OnePendingOrder
    BY DEF SeqInv, Books
  <1>2. QED  BY <1>1, AloneInvariance, PTL

\* What is charged is the order's amount, when handlers do not overlap.
THEOREM ChargesMatchOrders ==
  ASSUME OneAtATime
  PROVE  Spec => []ChargedIsAmount
  <1>1. SeqInv => ChargedIsAmount
    BY DEF SeqInv, Books
  <1>2. QED  BY <1>1, AloneInvariance, PTL

\* Every use of a code is held by a live order, when handlers do not overlap.
THEOREM ReservationsDoNotLeak ==
  ASSUME OneAtATime
  PROVE  Spec => []NoLeakedReservation
  <1>1. SeqInv => NoLeakedReservation
    BY DEF SeqInv, Books
  <1>2. QED  BY <1>1, AloneInvariance, PTL

\* Checkout implements Purchase when handlers do not overlap: every commit is
\* one step in the life Purchase allows an order, or none.
THEOREM CheckoutImplementsPurchase ==
  ASSUME OneAtATime
  PROVE  Spec => ImplementsPurchase
  <1>1. Init => P!Init
    BY InitSeqInv
  <1>2. IInv /\ SeqInv /\ [Next]_vars => [P!Next]_<<stageOf, deliveredOrders>>
    BY NextSeqInv DEF PStep
  <1>3. QED  BY <1>1, <1>2, Invariance, AloneInvariance, PTL DEF Spec, ImplementsPurchase, P!Spec

=============================================================================
