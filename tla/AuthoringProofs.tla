--------------------------- MODULE AuthoringProofs ----------------------------
(***************************************************************************)
(* What has been sold stays, every stored aggregate heals and a reorder    *)
(* lands, for any number of rows and of calls in flight.  The aggregates   *)
(* are proved from what a call that no other has overtaken knows: what it  *)
(* loaded is what is stored, and what it counted is what it will leave.    *)
(* The tree needs the locks too, which keep apart the rows of two calls    *)
(* that have both counted.  A reorder lands by what is ahead of it: the    *)
(* positions that its UPDATEs still ask for are free when they are asked.  *)
(***************************************************************************)
EXTENDS MCAuthoring, Numbers, Sequences, TLAPS

-----------------------------------------------------------------------------
(* Catalog *)

Sold == Cardinality(Published \cap Course)

\* A call in flight is about a product; one that recounts and was not overtaken
\* has loaded what is stored and counted what is there.
CallOK(q) ==
    /\ q.at # "idle" => q.the \in Product
    /\ q.recounts /\ q.alone => q.seen = counted /\ q.new = Sold

CallsOK == \A r \in Req : CallOK(act[r])

IInv == TypeOK /\ CallsOK /\ SoldStays /\ CountHeals

LEMMA IdleOK == Idle \in Act /\ CallOK(Idle) /\ ~Idle.recounts /\ Idle.at = "idle"
  <1>1. Cardinality(Course) \in Nat
    BY CatalogConstants, FS_CardinalityType
  <1>2. QED  BY <1>1 DEF Idle, Act, Status, CallOK

LEMMA CountOK == Sold \in 0 .. Cardinality(Course)
  <1>1. Published \cap Course \subseteq Course
    OBVIOUS
  <1>2. QED  BY <1>1, CatalogConstants, FS_Subset, FS_CardinalityType DEF Sold

LEMMA InitIInv == Init => IInv
  <1> SUFFICES ASSUME Init PROVE IInv
    OBVIOUS
  <1>1. 0 \in 0 .. Cardinality(Course)
    BY CatalogConstants, FS_CardinalityType
  <1>2. QED
    BY <1>1, IdleOK DEF Init, IInv, TypeOK, CallsOK, SoldStays, CountHeals, Existing

\* A call that goes on or ends and changes no row.
LEMMA CallStep ==
  ASSUME IInv, NEW r \in Req, NEW q \in Act, CallOK(q), UNCHANGED db,
         act' = [act EXCEPT ![r] = q]
  PROVE  IInv'
  <1>1. TypeOK' /\ SoldStays' /\ CountHeals'
    BY DEF IInv, TypeOK, SoldStays, CountHeals, db, shop, Existing, Published
  <1>2. \A s \in Req : act'[s] = IF s = r THEN q ELSE act[s]
    BY DEF IInv, TypeOK
  <1>3. Sold' = Sold /\ counted' = counted
    BY DEF Sold, db, Published
  <1>4. CallsOK'
    BY <1>2, <1>3 DEF IInv, CallsOK, CallOK
  <1>5. QED  BY <1>1, <1>4 DEF IInv

LEMMA FinishStep ==
  ASSUME IInv, NEW r \in Req, Finish(r), UNCHANGED db
  PROVE  IInv'
  BY IdleOK, CallStep DEF Finish

\* A step that publishes and recounts nothing.
LEMMA ShopStep ==
  ASSUME IInv, UNCHANGED <<counted, recount>>, Published' = Published,
         SoldStays', TypeOK', act' = act \/ \E r \in Req : Finish(r)
  PROVE  IInv'
  <1>1. Sold' = Sold
    BY DEF Sold
  <1>2. \A s \in Req : act'[s] = act[s] \/ act'[s] = Idle
    BY DEF IInv, TypeOK, Finish
  <1>3. CallsOK'
    BY <1>1, <1>2, IdleOK DEF IInv, CallsOK, CallOK
  <1>4. CountHeals'
    BY <1>1 DEF IInv, CountHeals, Sold
  <1>5. QED  BY <1>3, <1>4 DEF IInv

\* A commit that overtakes the open calls, but for what it leaves of its own.
LEMMA OvertakingStep ==
  ASSUME IInv, NEW r \in Req, act' = [Overtaken EXCEPT ![r] = Idle],
         status' \in [Product -> Status \cup {None}], ready' \subseteq Course,
         counted' \in 0 .. Cardinality(Course), enrolled' \subseteq Product,
         UNCHANGED ordered, linked' \subseteq Course \X Program,
         recount' \in {"none", "repeated"},
         SoldStays', CountHeals'
  PROVE  IInv'
  <1>1. \A s \in Req : act'[s] = IF s = r THEN Idle
                                 ELSE [act[s] EXCEPT !.alone = ~act[s].recounts]
    BY DEF Overtaken
  <1>2. \A s \in Req :
            /\ act'[s] \in Act /\ ~(act'[s].recounts /\ act'[s].alone)
            /\ act'[s].at # "idle" => act'[s].the \in Product
    <2> SUFFICES ASSUME NEW s \in Req
                 PROVE  /\ act'[s] \in Act /\ ~(act'[s].recounts /\ act'[s].alone)
                        /\ act'[s].at # "idle" => act'[s].the \in Product
      OBVIOUS
    <2>1. CASE s = r
      BY <1>1, <2>1, IdleOK
    <2>2. CASE s # r
      <3> DEFINE alone == ~act[s].recounts
      <3>1. act'[s] = [act[s] EXCEPT !.alone = alone]
        BY <1>1, <2>2
      <3>2. act[s] \in Act /\ CallOK(act[s])
        BY DEF IInv, TypeOK, CallsOK
      <3>3. alone \in BOOLEAN /\ (alone <=> ~act[s].recounts)
        OBVIOUS
      <3> HIDE DEF alone
      <3>4. act'[s] \in Act
        BY <3>1, <3>2, <3>3 DEF Act
      <3>5. /\ act'[s].alone = alone /\ act'[s].recounts = act[s].recounts
            /\ act'[s].at = act[s].at /\ act'[s].the = act[s].the
        BY <3>1, <3>2 DEF Act
      <3>6. QED  BY <3>2, <3>3, <3>4, <3>5 DEF CallOK
    <2>3. QED  BY <2>1, <2>2
  <1>3. act' \in [Req -> Act]
    BY <1>2 DEF Overtaken
  <1>4. TypeOK'
    BY <1>3 DEF IInv, TypeOK
  <1>5. CallsOK'
    BY <1>2 DEF CallsOK, CallOK
  <1>6. QED  BY <1>4, <1>5 DEF IInv

\* The commit of a status.
LEMMA StatusStep ==
  ASSUME IInv, NEW r \in Req, CommitStatus(r)
  PROVE  IInv'
  <1> DEFINE q == act[r]
  <1>1. q \in Act /\ q.the \in Product /\ CallOK(q) /\ q.at = "status"
    BY DEF IInv, TypeOK, CallsOK, CallOK, CommitStatus
  <1>2. CASE q.the \notin Existing /\ q.to # q.was
    BY <1>2, FinishStep DEF CommitStatus, Reject
  <1>3. CASE ~(q.the \notin Existing /\ q.to # q.was)
    <2>1. /\ status' = [status EXCEPT ![q.the] = Written(status[q.the], q.was, q.to)]
          /\ counted' = Written(counted, q.seen, q.new)
          /\ recount' = Recount(q)
          /\ act' = [Overtaken EXCEPT ![r] = Idle]
          /\ UNCHANGED <<ready, shop>>
      BY <1>3 DEF CommitStatus
    <2>2. \A x \in Product : status'[x] = IF x = q.the THEN Written(status[x], q.was, q.to)
                                          ELSE status[x]
      BY <2>1 DEF IInv, TypeOK
    <2>3. status' \in [Product -> Status \cup {None}]
      BY <1>1, <2>1 DEF IInv, TypeOK, Written, Act
    <2>4. SoldStays'
      <3>1. Existing \subseteq Existing'
        BY <1>1, <1>3, <2>2, CatalogConstants DEF Existing, Written, Act
      <3>2. QED  BY <2>1, <3>1 DEF IInv, SoldStays, shop
    <2>5. CountHeals'
      <3> SUFFICES ASSUME recount' = "repeated" PROVE counted' = Sold'
        BY DEF CountHeals, Sold
      <3>1. q.recounts /\ q.alone /\ q.was = q.to
        BY <2>1 DEF Recount
      <3>2. status' = status
        BY <2>1, <3>1 DEF IInv, TypeOK, Written
      <3>3. Sold' = Sold
        BY <3>2 DEF Sold, Published
      <3>4. q.seen = counted /\ q.new = Sold
        BY <1>1, <3>1 DEF CallOK
      <3>5. QED  BY <2>1, <3>3, <3>4 DEF Written
    <2>6. counted' \in 0 .. Cardinality(Course)
      BY <1>1, <2>1 DEF IInv, TypeOK, Written, Act
    <2>7. recount' \in {"none", "repeated"}
      BY <2>1 DEF Recount
    <2>8. QED
      BY <2>1, <2>3, <2>4, <2>5, <2>6, <2>7, OvertakingStep DEF IInv, TypeOK, shop
  <1>4. QED  BY <1>2, <1>3

\* The DELETE, which an order makes fail.
LEMMA DeleteStep ==
  ASSUME IInv, NEW r \in Req, DeleteRow(r)
  PROVE  IInv'
  <1> DEFINE x == act[r].the
  <1>1. x \in Product
    BY DEF IInv, CallsOK, CallOK, DeleteRow
  <1>2. CASE Restricted(x)
    BY <1>2, FinishStep DEF DeleteRow, Reject
  <1>3. CASE ~Restricted(x)
    <2>1. /\ status' = [status EXCEPT ![x] = None]
          /\ ready' = ready \ {x} /\ enrolled' = enrolled \ {x}
          /\ linked' = {l \in linked : l[2] # x}
          /\ recount' = "none"
          /\ act' = [Overtaken EXCEPT ![r] = Idle]
          /\ UNCHANGED <<counted, ordered>>
      BY <1>3 DEF DeleteRow
    <2>2. status' \in [Product -> Status \cup {None}]
      BY <2>1 DEF IInv, TypeOK
    <2>3. Existing \ {x} \subseteq Existing'
      BY <2>1 DEF IInv, TypeOK, Existing
    <2>4. SoldStays'
      BY <1>3, <2>1, <2>3 DEF IInv, SoldStays, Restricted
    <2>5. CountHeals'
      BY <2>1 DEF CountHeals
    <2>6. QED  BY <2>1, <2>2, <2>4, <2>5, OvertakingStep DEF IInv, TypeOK
  <1>4. QED  BY <1>2, <1>3

\* An order or an enrollment is inserted if its product is still there.
LEMMA InsertStep ==
  ASSUME IInv, NEW r \in Req, Insert(r)
  PROVE  IInv'
  <1> DEFINE q == act[r]
  <1>1. q.the \in Product
    BY DEF IInv, CallsOK, CallOK, Insert
  <1>2. CASE q.the \notin Existing
    BY <1>2, FinishStep DEF Insert, Reject
  <1>3. CASE q.the \in Existing
    <2>1. /\ Finish(r)
          /\ ordered' = ordered \cup (IF q.at = "order" THEN {q.the} ELSE {})
          /\ enrolled' \subseteq enrolled \cup {q.the} \cup Course
          /\ UNCHANGED <<status, ready, counted, linked, recount>>
      BY <1>3 DEF Insert
    <2>2. Existing' = Existing /\ Published' = Published
      BY <2>1 DEF Existing, Published
    <2>3. SoldStays'
      BY <1>3, <2>1, <2>2 DEF IInv, SoldStays
    <2>4. TypeOK'
      BY <1>1, <2>1, IdleOK DEF IInv, TypeOK, Finish, Product
    <2>5. QED  BY <2>1, <2>2, <2>3, <2>4, ShopStep
  <1>4. QED  BY <1>2, <1>3

LEMMA HandlerStep ==
  ASSUME IInv, NEW r \in Req, Handle(r)
  PROVE  IInv'
  <1>1. ASSUME NEW x \in Product, NEW new \in Status, NEW recounts \in BOOLEAN,
               SetStatus(r, x, new, recounts)
        PROVE  IInv'
    <2> DEFINE q == [Idle EXCEPT !.at = "status", !.the = x, !.was = status[x],
                        !.to = new, !.recounts = recounts, !.seen = counted,
                        !.new = IF recounts THEN PublishedCourses(x) ELSE counted]
    <2>1. PublishedCourses(x) = Sold /\ Sold \in 0 .. Cardinality(Course)
      BY CountOK DEF PublishedCourses, Sold
    <2>2. status[x] \in Status /\ counted \in 0 .. Cardinality(Course)
      BY <1>1 DEF SetStatus, Existing, IInv, TypeOK
    <2>3. /\ q.the = x /\ q.seen = counted
          /\ (q.recounts <=> recounts)
          /\ recounts => q.new = Sold
      BY <2>1 DEF Idle
    <2>4. q \in Act
      BY <2>1, <2>2 DEF Act, Idle
    <2>5. CallOK(q)
      <3> HIDE DEF q
      <3>1. QED  BY <2>3 DEF CallOK
    <2>6. act' = [act EXCEPT ![r] = q] /\ UNCHANGED db
      BY <1>1 DEF SetStatus, Begin
    <2> HIDE DEF q
    <2>7. QED  BY <2>4, <2>5, <2>6, CallStep
  <1>2. ASSUME NEW x \in Product, NEW at \in {"checked", "order", "enroll"},
               Begin(r, [Idle EXCEPT !.at = at, !.the = x])
        PROVE  IInv'
    <2> DEFINE q == [Idle EXCEPT !.at = at, !.the = x]
    <2>1. q \in Act /\ CallOK(q)
      BY IdleOK DEF Idle, Act, CallOK
    <2>2. act' = [act EXCEPT ![r] = q] /\ UNCHANGED db
      BY <1>2 DEF Begin
    <2> HIDE DEF q
    <2>3. QED  BY <2>1, <2>2, CallStep
  <1>3. CASE LoadDependents(r)
    <2> DEFINE q == [act[r] EXCEPT !.at = "loaded"]
    <2>1. act[r] \in Act /\ CallOK(act[r]) /\ act[r].at = "checked"
      BY <1>3 DEF IInv, TypeOK, CallsOK, LoadDependents
    <2>2. q \in Act /\ CallOK(q)
      BY <2>1 DEF Act, CallOK
    <2>3. CASE act' = [act EXCEPT ![r].at = "loaded"] /\ UNCHANGED db
      <3>1. act' = [act EXCEPT ![r] = q]
        BY <2>3
      <3> HIDE DEF q
      <3>2. QED  BY <2>2, <2>3, <3>1, CallStep
    <2>4. QED  BY <1>3, <2>3, FinishStep DEF LoadDependents, Reject
  <1>4. CASE \E x \in Product : Delete(r, x) \/ Order(r, x) \/ Enroll(r, x)
    BY <1>2, <1>4 DEF Delete, Order, Enroll
  <1>5. CASE CommitStatus(r)
    BY <1>5, StatusStep
  <1>6. CASE DeleteRow(r)
    BY <1>6, DeleteStep
  <1>7. CASE Insert(r)
    BY <1>7, InsertStep
  <1>8. QED  BY <1>1, <1>3, <1>4, <1>5, <1>6, <1>7 DEF Handle

LEMMA NextIInv == IInv /\ [Next]_vars => IInv'
  <1> SUFFICES ASSUME IInv, [Next]_vars PROVE IInv'
    OBVIOUS
  <1>1. CASE UNCHANGED vars
    BY <1>1, ShopStep
       DEF vars, db, shop, IInv, TypeOK, SoldStays, Existing, Published
  <1>2. ASSUME NEW r \in Req, Handle(r)
        PROVE  IInv'
    BY <1>2, HandlerStep
  <1>3. ASSUME NEW x \in Product, Create(x)
        PROVE  IInv'
    <2>1. /\ status' = [status EXCEPT ![x] = "hidden"] /\ x \notin Existing
          /\ UNCHANGED <<ready, counted, shop, act, recount>>
      BY <1>3 DEF Create
    <2>2. TypeOK'
      BY <2>1 DEF IInv, TypeOK, Status, shop
    <2>3. Existing \subseteq Existing' /\ Published' = Published
      <3>1. status[x] = None /\ None # "hidden" /\ None # "published"
        BY <2>1, CatalogConstants DEF Existing, Status
      <3>2. \A y \in Product : status'[y] = IF y = x THEN "hidden" ELSE status[y]
        BY <2>1 DEF IInv, TypeOK
      <3>3. QED  BY <3>1, <3>2 DEF Existing, Published
    <2>4. SoldStays'
      BY <2>1, <2>3 DEF IInv, SoldStays, shop
    <2>5. QED  BY <2>1, <2>2, <2>3, <2>4, ShopStep
  <1>4. ASSUME NEW x \in Product, Edit(x)
        PROVE  IInv'
    BY <1>4, ShopStep DEF Edit, IInv, TypeOK, SoldStays, Existing, Published, shop
  <1>5. ASSUME NEW x \in enrolled, DeleteEnrollment(x)
        PROVE  IInv'
    BY <1>5, ShopStep DEF DeleteEnrollment, IInv, TypeOK, SoldStays, Existing, Published
  <1>6. ASSUME NEW c \in Course, NEW p \in Program, ChangeLink(c, p)
        PROVE  IInv'
    BY <1>6, ShopStep DEF ChangeLink, IInv, TypeOK, SoldStays, Existing, Published
  <1>7. QED  BY <1>1, <1>2, <1>3, <1>4, <1>5, <1>6 DEF Next

\* The invariant holds in every reachable state.
THEOREM Invariance == Spec => []IInv
  BY InitIInv, NextIInv, PTL DEF Spec

\* Rows and calls keep their types.
THEOREM TypeCorrect == Spec => []TypeOK
  <1>1. IInv => TypeOK
    BY DEF IInv
  <1>2. QED  BY Invariance, <1>1, PTL

\* What an order refers to is not deleted, for any number of products and
\* calls, whenever the order came in between the checks and the DELETE.
THEOREM SoldProductsStay == Spec => []SoldStays
  <1>1. IInv => SoldStays
    BY DEF IInv
  <1>2. QED  BY Invariance, <1>1, PTL

\* A status call that repeats a status, and that no other overtakes, leaves
\* courses_count equal to the published courses, for any number of them.
THEOREM RepeatedStatusHeals == Spec => []CountHeals
  <1>1. IInv => CountHeals
    BY DEF IInv
  <1>2. QED  BY Invariance, <1>1, PTL

-----------------------------------------------------------------------------
(* ProgramProgress *)

LEMMA ProgressCardinality == \A X : P!Cardinality(X) = Cardinality(X)
  BY DEF P!Cardinality, Cardinality

LEMMA ChaptersAreFinite ==
  ASSUME NEW X \in SUBSET Chapter
  PROVE  IsFiniteSet(X) /\ Cardinality(X) \in Nat /\ (Cardinality(X) = 0 <=> X = {})
  <1>1. IsFiniteSet(Chapter)
    BY PartsHaveConstants DEF P!ProgressConstants, P!IsFiniteSet, IsFiniteSet
  <1>2. QED  BY <1>1, FS_Subset, FS_CardinalityType, FS_EmptySet

\* round(count / total * 100) is a percentage.
LEMMA PercentOK ==
  ASSUME NEW c \in Nat, NEW t \in Nat, t # 0, c <= t
  PROVE  P!Percent(c, t) \in 0 .. 100
  <1>1. PICK n \in Nat : n = 200 * c + t
    OBVIOUS
  <1>2. PICK d \in Nat : d = 2 * t
    OBVIOUS
  <1>3. d # 0 /\ 100 * d + t >= n /\ t < d
    BY <1>1, <1>2
  <1> DEFINE whole == n \div d
             rest  == n % d
  <1>4. whole \in Nat /\ rest \in Nat /\ n = whole * d + rest
    BY <1>3
  <1> HIDE DEF whole, rest
  <1>5. whole <= 100
    <2> SUFFICES ASSUME whole >= 101
                 PROVE  FALSE
      BY <1>4
    <2>1. whole * d >= 101 * d
      BY <1>4
    <2>2. whole * d < 101 * d
      BY <1>3, <1>4
    <2>3. whole * d \in Int /\ 101 * d \in Int
      BY <1>4
    <2>4. QED  BY <2>1, <2>2, <2>3
  <1>6. P!Percent(c, t) = whole
    BY <1>1, <1>2 DEF P!Percent, whole
  <1>7. QED  BY <1>4, <1>5, <1>6

\* What a listing knows as long as nothing has changed under its feet.
ListingOK(q) ==
    q.alone => /\ q.at # "idle" => q.loaded = stored
               /\ q.at \in {"selected", "counted"} => q.courses = links
               /\ q.at = "counted" => q.new = P!Computed(q)

ProgressInv ==
    /\ P!TypeOK
    /\ P!ProgressHeals
    /\ \A r \in Req : ListingOK(listing[r])

LEMMA ComputedOK ==
  ASSUME P!TypeOK, NEW q \in P!Request
  PROVE  P!Computed(q) \in P!Progress
  <1> DEFINE t == Cardinality(q.courses)
             c == Cardinality(done \cap q.courses)
  <1>1. q.courses \in SUBSET Chapter /\ (q.loaded.completed \in BOOLEAN)
    BY DEF P!Request, P!Progress
  <1>2. /\ IsFiniteSet(q.courses) /\ t \in Nat /\ c \in Nat
    BY <1>1, ChaptersAreFinite
  <1>3. c <= t
    BY <1>2, FS_Subset
  <1>4. t # 0 => P!Percent(c, t) \in 0 .. 100
    <2> HIDE DEF c, t
    <2>1. QED  BY <1>2, <1>3, PercentOK
  <1>5. P!Computed(q) = IF t = 0
                        THEN [percent |-> 0, completed |-> q.loaded.completed]
                        ELSE [percent |-> P!Percent(c, t),
                              completed |-> q.loaded.completed \/ P!Finishes(c, t)]
    BY ProgressCardinality DEF P!Computed
  <1> HIDE DEF c, t
  <1>6. QED  BY <1>1, <1>4, <1>5 DEF P!Progress

LEMMA ListingIdleOK == /\ P!Idle \in P!Request /\ P!Idle.at = "idle"
                       /\ P!NotBegun \in P!Progress
  BY DEF P!Idle, P!Request, P!NotBegun, P!Progress

LEMMA ProgressInit == P!Init => ProgressInv
  <1> SUFFICES ASSUME P!Init
               PROVE  ProgressInv
    OBVIOUS
  <1>1. P!TypeOK
    BY ListingIdleOK DEF P!Init, P!TypeOK
  <1>2. \A r \in Req : ListingOK(listing[r])
    BY ListingIdleOK DEF P!Init, ListingOK
  <1>3. P!ProgressHeals
    BY DEF P!Init, P!ProgressHeals
  <1>4. QED  BY <1>1, <1>2, <1>3 DEF ProgressInv

\* A listing goes on, and commits nothing.
LEMMA ListingStep ==
  ASSUME ProgressInv, NEW r \in Req, NEW q \in P!Request, ListingOK(q),
         listing' = [listing EXCEPT ![r] = q],
         UNCHANGED links, UNCHANGED done, UNCHANGED stored, UNCHANGED settled
  PROVE  ProgressInv'
  <1>1. listing' \in [Req -> P!Request]
    BY DEF ProgressInv, P!TypeOK
  <1>2. \A s \in Req : ListingOK(listing'[s])
    BY DEF ProgressInv, P!TypeOK
  <1>3. (\A s \in Req : ListingOK(listing[s]))'
    BY <1>2 DEF ListingOK, P!Computed
  <1>4. QED  BY <1>1, <1>3 DEF ProgressInv, P!TypeOK, P!ProgressHeals

LEMMA ListingProgress ==
  ASSUME ProgressInv, NEW r \in Req,
         P!LoadEnrollment(r) \/ P!SelectCourses(r) \/ P!CountCompleted(r) \/ P!Abort(r)
  PROVE  ProgressInv'
  <1>0. listing[r] \in P!Request /\ ListingOK(listing[r])
    BY DEF ProgressInv, P!TypeOK
  <1>1. CASE P!LoadEnrollment(r)
    <2>1. PICK q : q = [listing[r] EXCEPT !.at = "loaded", !.loaded = stored]
      OBVIOUS
    <2>2. q \in P!Request /\ q.at = "loaded" /\ q.loaded = stored
      BY <1>0, <2>1 DEF P!Request, ProgressInv, P!TypeOK
    <2>3. ListingOK(q)
      BY <2>2 DEF ListingOK
    <2>4. QED  BY <1>1, <2>1, <2>2, <2>3, ListingStep DEF P!LoadEnrollment
  <1>2. CASE P!SelectCourses(r)
    <2>1. PICK q : q = [listing[r] EXCEPT !.at = "selected", !.courses = links]
      OBVIOUS
    <2>2. /\ q \in P!Request /\ q.at = "selected" /\ q.loaded = listing[r].loaded
          /\ (q.alone <=> listing[r].alone) /\ q.courses = links
      BY <1>0, <2>1 DEF P!Request, ProgressInv, P!TypeOK
    <2>3. ListingOK(q)
      BY <1>0, <1>2, <2>2 DEF ListingOK, P!SelectCourses
    <2>4. QED  BY <1>2, <2>1, <2>2, <2>3, ListingStep DEF P!SelectCourses
  <1>3. CASE P!CountCompleted(r)
    <2>1. PICK q : q = [listing[r] EXCEPT !.at = "counted", !.new = P!Computed(listing[r])]
      OBVIOUS
    <2>2. P!Computed(listing[r]) \in P!Progress
      BY <1>0, ComputedOK DEF ProgressInv
    <2>3. /\ q \in P!Request /\ q.at = "counted" /\ q.loaded = listing[r].loaded
          /\ (q.alone <=> listing[r].alone) /\ q.courses = listing[r].courses
          /\ q.new = P!Computed(listing[r])
      BY <1>0, <2>1, <2>2 DEF P!Request
    <2>4. P!Computed(q) = P!Computed(listing[r])
      BY <2>3 DEF P!Computed
    <2>5. ListingOK(q)
      BY <1>0, <1>3, <2>3, <2>4 DEF ListingOK, P!CountCompleted
    <2>6. QED  BY <1>3, <2>1, <2>3, <2>5, ListingStep DEF P!CountCompleted
  <1>4. CASE P!Abort(r)
    <2>1. ListingOK(P!Idle)
      BY ListingIdleOK DEF ListingOK
    <2>2. QED  BY <1>4, <2>1, ListingIdleOK, ListingStep DEF P!Abort
  <1>5. QED  BY <1>1, <1>2, <1>3, <1>4

\* What a listing that nothing disturbed commits is what it has computed.
LEMMA ListingCommit ==
  ASSUME ProgressInv, NEW r \in Req, P!Commit(r)
  PROVE  ProgressInv'
  <1>1. PICK q : q = listing[r]
    OBVIOUS
  <1>2. /\ q \in P!Request /\ ListingOK(q) /\ q.at = "counted"
        /\ stored' = [f \in {"percent", "completed"} |->
                         P!Changed(stored[f], q.loaded[f], q.new[f])]
        /\ settled' = q.alone /\ links' = links /\ done' = done
        /\ listing' = [s \in Req |-> IF s = r \/ listing[s] = P!Idle THEN P!Idle
                                     ELSE [listing[s] EXCEPT !.alone = FALSE]]
    BY <1>1 DEF ProgressInv, P!TypeOK, P!Commit
  <1>3. /\ stored \in P!Progress /\ q.loaded \in P!Progress /\ q.new \in P!Progress
        /\ (q.alone \in BOOLEAN) /\ q.courses \in SUBSET Chapter
    BY <1>2 DEF ProgressInv, P!TypeOK, P!Request
  <1>4. stored' \in P!Progress
    <2>1. \A f \in {"percent", "completed"} :
             P!Changed(stored[f], q.loaded[f], q.new[f]) \in {stored[f], q.new[f]}
      BY DEF P!Changed
    <2>2. stored' = [percent   |-> stored'["percent"], completed |-> stored'["completed"]]
      BY <1>2
    <2>3. /\ stored'["percent"] \in {stored.percent, q.new.percent}
          /\ stored'["completed"] \in {stored.completed, q.new.completed}
      BY <1>2, <2>1
    <2>4. /\ stored.percent \in 0 .. 100 /\ q.new.percent \in 0 .. 100
          /\ stored.completed \in BOOLEAN /\ q.new.completed \in BOOLEAN
      BY <1>3 DEF P!Progress
    <2>5. stored'["percent"] \in 0 .. 100 /\ stored'["completed"] \in BOOLEAN
      BY <2>3, <2>4, Zenon
    <2>6. QED  BY <2>2, <2>5 DEF P!Progress
  <1>5. \A s \in Req : /\ listing'[s] \in P!Request
                       /\ listing'[s].at # "idle" => ~listing'[s].alone
    <2> SUFFICES ASSUME NEW s \in Req
                 PROVE  /\ listing'[s] \in P!Request
                        /\ listing'[s].at # "idle" => ~listing'[s].alone
      OBVIOUS
    <2>1. listing[s] \in P!Request
      BY DEF ProgressInv, P!TypeOK
    <2>2. CASE s = r \/ listing[s] = P!Idle
      BY <1>2, <2>2, ListingIdleOK
    <2>3. CASE ~(s = r \/ listing[s] = P!Idle)
      <3>1. listing'[s] = [listing[s] EXCEPT !.alone = FALSE]
        BY <1>2, <2>3
      <3>2. QED  BY <2>1, <3>1 DEF P!Request
    <2>4. QED  BY <2>2, <2>3
  <1>6. listing' \in [Req -> P!Request]
    BY <1>2, <1>5
  <1>7. (\A s \in Req : ListingOK(listing[s]))'
    BY <1>5 DEF ListingOK
  <1>8. P!ProgressHeals'
    <2> SUFFICES ASSUME q.alone, links # {}
                 PROVE  /\ stored'.percent = P!Percent(Cardinality(done \cap links),
                                                       Cardinality(links))
                        /\ links \subseteq done => stored'.completed
      BY <1>2, ProgressCardinality DEF P!ProgressHeals
    <2>1. q.loaded = stored /\ q.courses = links /\ q.new = P!Computed(q)
      BY <1>2 DEF ListingOK
    <2>2. Cardinality(links) \in Nat /\ Cardinality(links) # 0
      BY <1>3, <2>1, ChaptersAreFinite
    <2>3. q.new = [percent |-> P!Percent(Cardinality(done \cap links), Cardinality(links)),
                   completed |-> q.loaded.completed
                       \/ P!Finishes(Cardinality(done \cap links), Cardinality(links))]
      BY <2>1, <2>2, ProgressCardinality DEF P!Computed
    <2>4. /\ stored'["percent"] = P!Changed(stored.percent, q.loaded.percent, q.new.percent)
          /\ stored'["completed"]
                = P!Changed(stored.completed, q.loaded.completed, q.new.completed)
      BY <1>2
    <2>5. \A a, b : P!Changed(a, a, b) = b
      BY DEF P!Changed
    <2>6. stored'["percent"] = q.new.percent /\ stored'["completed"] = q.new.completed
      BY <2>1, <2>4, <2>5
    <2>7. links \subseteq done => q.new.completed
      <3> SUFFICES ASSUME links \subseteq done
                   PROVE  q.new.completed
        OBVIOUS
      <3>1. done \cap links = links
        OBVIOUS
      <3>2. P!Finishes(Cardinality(done \cap links), Cardinality(links))
        BY <2>2, <3>1 DEF P!Finishes
      <3> DEFINE ends == q.loaded.completed
                           \/ P!Finishes(Cardinality(done \cap links), Cardinality(links))
      <3>3. ends
        BY <3>2
      <3>4. ends \in BOOLEAN
        OBVIOUS
      <3>5. q.new = [percent |-> P!Percent(Cardinality(done \cap links), Cardinality(links)),
                     completed |-> ends]
        BY <2>3
      <3> HIDE DEF ends
      <3>6. q.new.completed <=> ends
        BY <3>4, <3>5
      <3>7. QED  BY <3>3, <3>6
    <2>8. q.new.percent = P!Percent(Cardinality(done \cap links), Cardinality(links))
      BY <2>3
    <2>9. QED  BY <2>6, <2>7, <2>8
  <1>9. QED  BY <1>2, <1>3, <1>4, <1>6, <1>7, <1>8 DEF ProgressInv, P!TypeOK

LEMMA AuthorStep ==
  ASSUME ProgressInv, NEW c \in Chapter, P!Author(c)
  PROVE  ProgressInv'
  <1>1. /\ P!Disturb /\ links' \subseteq Chapter /\ done' \subseteq Chapter
    BY DEF P!Author, P!LinkCourse, P!UnlinkCourse, P!CompleteCourse, P!ReopenCourse,
           ProgressInv, P!TypeOK
  <1>2. /\ settled' = FALSE /\ stored' = stored
        /\ listing' = [r \in Req |-> [listing[r] EXCEPT !.alone =
                                        @ /\ listing[r].at \in {"idle", "loaded"}]]
    BY <1>1 DEF P!Disturb
  <1>3. \A r \in Req : (listing[r] \in P!Request /\ ListingOK(listing[r]))'
    <2> SUFFICES ASSUME NEW r \in Req
                 PROVE  (listing[r] \in P!Request /\ ListingOK(listing[r]))'
      OBVIOUS
    <2>1. listing[r] \in P!Request /\ ListingOK(listing[r])
      BY DEF ProgressInv, P!TypeOK
    <2> DEFINE still == listing[r].alone /\ listing[r].at \in {"idle", "loaded"}
    <2>2. PICK q : q = [listing[r] EXCEPT !.alone = still]
      OBVIOUS
    <2>3. listing'[r] = q
      BY <1>2, <2>2
    <2>4. still \in BOOLEAN
      OBVIOUS
    <2>5. /\ q \in P!Request /\ q.at = listing[r].at /\ (q.alone <=> still)
          /\ q.loaded = listing[r].loaded
      <3> HIDE DEF still
      <3>1. QED  BY <2>1, <2>2, <2>4 DEF P!Request
    <2>6. q.alone => q.at \in {"idle", "loaded"} /\ (q.at # "idle" => q.loaded = stored')
      BY <1>2, <2>1, <2>5 DEF ListingOK
    <2>7. QED  BY <2>3, <2>5, <2>6 DEF ListingOK
  <1>4. listing' \in [Req -> P!Request]
    BY <1>2, <1>3
  <1>5. P!TypeOK'
    BY <1>1, <1>2, <1>4 DEF ProgressInv, P!TypeOK
  <1>6. P!ProgressHeals'
    BY <1>2 DEF P!ProgressHeals
  <1>7. (\A r \in Req : ListingOK(listing[r]))'
    BY <1>3
  <1>8. QED  BY <1>5, <1>6, <1>7 DEF ProgressInv

LEMMA ProgressNextInv == ProgressInv /\ P!Next => ProgressInv'
  BY ListingProgress, ListingCommit, AuthorStep DEF P!Next, P!Handle

LEMMA ProgressStutter == ProgressInv /\ UNCHANGED progressVars => ProgressInv'
  BY DEF progressVars, ProgressInv, P!TypeOK, P!ProgressHeals, ListingOK, P!Computed

-----------------------------------------------------------------------------
(* Reviews *)

LEMMA ReviewsCardinality == \A X : V!Cardinality(X) = Cardinality(X)
  BY DEF V!Cardinality, Cardinality

LEMMA ReviewsFacts ==
  /\ IsFiniteSet(User) /\ Rating \subseteq 1 .. 5 /\ None \notin Rating
  /\ Cardinality(User) \in Nat
  BY PartsHaveConstants, FS_CardinalityType DEF V!ReviewsConstants, V!IsFiniteSet, IsFiniteSet

\* The average of ratings is one, and they are no more than the learners.
LEMMA RatedOK ==
  ASSUME NEW rows \in [User -> Rating \cup {None}]
  PROVE  V!Rated(rows) \in V!Aggregate
  <1> DEFINE R == V!Reviewers(rows)
             n == Cardinality(R)
             s == SumOver(rows, R)
  <1>1. R \in SUBSET User /\ \A u \in R : rows[u] \in Rating
    BY DEF V!Reviewers
  <1>2. IsFiniteSet(R) /\ n \in Nat /\ n <= Cardinality(User)
    BY <1>1, ReviewsFacts, FS_Subset, FS_CardinalityType
  <1>3. \A u \in R : rows[u] \in Nat /\ rows[u] <= 5
    <2>1. \A x \in Rating : x \in Nat /\ x <= 5
      BY ReviewsFacts
    <2>2. QED  BY <1>1, <2>1
  <1>4. s \in Nat /\ s <= 5 * n
    <2> HIDE DEF R
    <2>1. QED  BY <1>2, <1>3, SumIsNumber, SumIsBounded
  <1>5. V!Average(rows) = IF n = 0 THEN 0 ELSE (200 * s + n) \div (2 * n)
    BY ReviewsCardinality
       DEF V!Average, V!MapThenSumSet, V!MapThenFoldSet, SumOver, SumOn, SumStep, Picked
  <1> HIDE DEF R, n, s
  <1>6. V!Average(rows) \in 0 .. 500
    <2>1. CASE n = 0
      BY <1>5, <2>1
    <2>2. CASE n # 0
      <3>1. PICK x \in Nat : x = 200 * s + n
        BY <1>2, <1>4
      <3>2. PICK d \in Nat : d = 2 * n
        BY <1>2
      <3>3. d # 0 /\ x <= 500 * d + n /\ n < d
        BY <1>2, <1>4, <2>2, <3>1, <3>2
      <3> DEFINE whole == x \div d
                 rest  == x % d
      <3>4. whole \in Nat /\ rest \in Nat /\ x = whole * d + rest
        BY <3>3
      <3> HIDE DEF whole, rest
      <3>5. whole <= 500
        <4> SUFFICES ASSUME whole >= 501
                     PROVE  FALSE
          BY <3>4
        <4>1. whole * d >= 501 * d
          BY <3>4
        <4>2. whole * d < 501 * d
          BY <1>2, <3>3, <3>4
        <4>3. whole * d \in Int /\ 501 * d \in Int
          BY <3>4
        <4>4. QED  BY <4>1, <4>2, <4>3
      <3>6. V!Average(rows) = whole
        BY <1>5, <2>2, <3>1, <3>2 DEF whole
      <3>7. QED  BY <3>4, <3>5, <3>6
    <2>3. QED  BY <2>1, <2>2
  <1>7. n \in 0 .. Cardinality(User)
    BY <1>2, ReviewsFacts
  <1>8. V!Cardinality(V!Reviewers(rows)) = n /\ V!Cardinality(User) = Cardinality(User)
    BY ReviewsCardinality DEF n, R
  <1>9. QED  BY <1>6, <1>7, <1>8 DEF V!Rated, V!Aggregate

\* A call that has counted, and that nothing has overtaken, has counted what
\* its commit leaves.
AskOK(q) ==
    /\ q.at # "idle" => q.user \in User
    /\ q.at = "counted" /\ q.alone => q.sum = V!Rated(V!Flushed(q))

ReviewsInv ==
    /\ V!TypeOK
    /\ V!RatingHeals
    /\ \A r \in Req : AskOK(asked[r])

LEMMA NothingOK == V!Nothing \in V!Aggregate
  BY ReviewsFacts, ReviewsCardinality DEF V!Nothing, V!Aggregate

LEMMA AskIdleOK == V!Idle \in V!Ask /\ V!Idle.at = "idle"
  BY NothingOK DEF V!Idle, V!Ask

LEMMA FlushedOK ==
  ASSUME V!TypeOK, NEW q \in V!Ask, q.user \in User
  PROVE  V!Flushed(q) \in [User -> Rating \cup {None}]
  BY DEF V!Flushed, V!TypeOK, V!Ask

LEMMA ReviewsInit == V!Init => ReviewsInv
  <1> SUFFICES ASSUME V!Init
               PROVE  ReviewsInv
    OBVIOUS
  <1>1. V!TypeOK
    BY AskIdleOK, NothingOK DEF V!Init, V!TypeOK
  <1>2. V!Reviewers(review) = {}
    BY DEF V!Init, V!Reviewers
  <1>3. V!Rated(review) = V!Nothing
    BY <1>2, FS_EmptySet, ReviewsCardinality DEF V!Rated, V!Average, V!Nothing
  <1>4. V!RatingHeals
    BY <1>3 DEF V!Init, V!RatingHeals
  <1>5. \A r \in Req : AskOK(asked[r])
    BY AskIdleOK DEF V!Init, AskOK
  <1>6. QED  BY <1>1, <1>4, <1>5 DEF ReviewsInv

\* A call goes on, and commits nothing.
LEMMA AskStep ==
  ASSUME ReviewsInv, NEW r \in Req, NEW q \in V!Ask, AskOK(q),
         asked' = [asked EXCEPT ![r] = q],
         learners' \subseteq User, UNCHANGED review, UNCHANGED shown, UNCHANGED steady
  PROVE  ReviewsInv'
  <1>1. asked' \in [Req -> V!Ask] /\ \A s \in Req : AskOK(asked'[s])
    BY DEF ReviewsInv, V!TypeOK
  <1>2. (\A s \in Req : AskOK(asked[s]))'
    BY <1>1 DEF AskOK, V!Flushed
  <1>3. QED  BY <1>1, <1>2 DEF ReviewsInv, V!TypeOK, V!RatingHeals

LEMMA LeaveStep ==
  ASSUME ReviewsInv, NEW r \in Req, V!Leave(r)
  PROVE  ReviewsInv'
  <1>1. AskOK(V!Idle)
    BY AskIdleOK DEF AskOK
  <1>2. learners' \subseteq User
    BY DEF V!Leave, V!table, ReviewsInv, V!TypeOK
  <1>3. QED  BY <1>1, <1>2, AskIdleOK, AskStep DEF V!Leave, V!table

LEMMA ReadStep ==
  ASSUME ReviewsInv, NEW r \in Req, NEW op \in {"create", "update", "delete"},
         NEW u \in User, NEW n \in Rating \cup {None}, V!Read(r, op, u, n)
  PROVE  ReviewsInv'
  <1>1. PICK q : q = [V!Idle EXCEPT !.at = "read", !.op = op, !.user = u, !.rating = n]
    OBVIOUS
  <1>2. q \in V!Ask /\ q.at = "read" /\ q.user = u
    BY <1>1, NothingOK DEF V!Idle, V!Ask
  <1>3. AskOK(q)
    BY <1>2 DEF AskOK
  <1>4. learners' \subseteq User
    BY DEF V!Read, V!table, ReviewsInv, V!TypeOK
  <1>5. QED  BY <1>1, <1>2, <1>3, <1>4, AskStep DEF V!Read, V!table

LEMMA FlushStep ==
  ASSUME ReviewsInv, NEW r \in Req, V!Flush(r)
  PROVE  ReviewsInv'
  <1>1. CASE V!Leave(r)
    BY <1>1, LeaveStep
  <1>2. CASE /\ asked' = [asked EXCEPT ![r].at = "counted", ![r].sum = V!RatedBy(asked[r])]
             /\ UNCHANGED V!table
    <2>1. asked[r] \in V!Ask /\ AskOK(asked[r]) /\ asked[r].at = "read"
      BY DEF ReviewsInv, V!TypeOK, V!Flush
    <2>2. V!RatedBy(asked[r]) \in V!Aggregate
      BY <2>1, FlushedOK, RatedOK DEF V!RatedBy, AskOK, ReviewsInv
    <2>3. PICK q : q = [asked[r] EXCEPT !.at = "counted", !.sum = V!RatedBy(asked[r])]
      OBVIOUS
    <2>4. /\ q \in V!Ask /\ q.at = "counted" /\ q.user = asked[r].user /\ q.op = asked[r].op
          /\ q.rating = asked[r].rating /\ q.sum = V!RatedBy(asked[r])
      BY <2>1, <2>2, <2>3 DEF V!Ask
    <2>5. V!Flushed(q) = V!Flushed(asked[r])
      BY <2>4 DEF V!Flushed
    <2>6. AskOK(q)
      BY <2>1, <2>4, <2>5 DEF AskOK, V!RatedBy
    <2>7. learners' \subseteq User
      BY <1>2 DEF V!table, ReviewsInv, V!TypeOK
    <2>8. QED  BY <1>2, <2>3, <2>4, <2>6, <2>7, AskStep DEF V!table
  <1>3. QED  BY <1>1, <1>2 DEF V!Flush

\* Whoever has counted is overtaken by a commit.
LEMMA OvertakenOK ==
  ASSUME NEW q \in V!Ask
  PROVE  /\ V!Overtaken(q) \in V!Ask
         /\ V!Overtaken(q).at = q.at /\ V!Overtaken(q).user = q.user
         /\ V!Overtaken(q).at = "counted" => ~V!Overtaken(q).alone
  <1> DEFINE alone == q.at # "counted"
  <1>1. alone \in BOOLEAN /\ V!Overtaken(q) = [q EXCEPT !.alone = alone]
    BY DEF V!Overtaken
  <1>2. q.at = "counted" => ~alone
    OBVIOUS
  <1> HIDE DEF alone
  <1>3. /\ V!Overtaken(q) \in V!Ask
        /\ V!Overtaken(q).at = q.at /\ V!Overtaken(q).user = q.user
        /\ V!Overtaken(q).alone <=> alone
    BY <1>1 DEF V!Ask
  <1>4. QED  BY <1>2, <1>3

LEMMA CommitStep ==
  ASSUME ReviewsInv, NEW r \in Req, V!Commit(r)
  PROVE  ReviewsInv'
  <1>1. PICK q : q = asked[r]
    OBVIOUS
  <1>2. /\ q \in V!Ask /\ AskOK(q) /\ q.at = "counted"
        /\ review' = V!Flushed(q) /\ shown' = q.sum /\ steady' = q.alone
        /\ learners' = learners
        /\ asked' = [s \in Req |-> IF s = r THEN V!Idle ELSE V!Overtaken(asked[s])]
    BY <1>1 DEF ReviewsInv, V!TypeOK, V!Commit
  <1>3. \A s \in Req : /\ asked'[s] \in V!Ask
                       /\ asked'[s].at # "idle" => asked'[s].user \in User
                       /\ asked'[s].at = "counted" => ~asked'[s].alone
    BY <1>2, AskIdleOK, OvertakenOK DEF ReviewsInv, V!TypeOK, AskOK
  <1>4. asked' \in [Req -> V!Ask]
    BY <1>2, <1>3
  <1>5. review' \in [User -> Rating \cup {None}] /\ shown' \in V!Aggregate
           /\ steady' \in BOOLEAN
    BY <1>2, FlushedOK DEF AskOK, ReviewsInv, V!Ask
  <1>6. V!TypeOK'
    BY <1>2, <1>4, <1>5 DEF ReviewsInv, V!TypeOK
  <1>7. (\A s \in Req : AskOK(asked[s]))'
    BY <1>3 DEF AskOK
  <1>8. V!RatingHeals'
    BY <1>2 DEF AskOK, V!RatingHeals
  <1>9. QED  BY <1>6, <1>7, <1>8 DEF ReviewsInv

\* The admin's deletion overtakes like a commit.
LEMMA ModerateStep ==
  ASSUME ReviewsInv, NEW u \in User, V!ModerateReview(u)
  PROVE  ReviewsInv'
  <1>1. /\ review' = [review EXCEPT ![u] = None] /\ steady' = FALSE
        /\ learners' = learners /\ shown' = shown
        /\ asked' = [s \in Req |-> V!Overtaken(asked[s])]
    BY DEF V!ModerateReview
  <1>2. \A s \in Req : /\ asked'[s] \in V!Ask
                       /\ asked'[s].at # "idle" => asked'[s].user \in User
                       /\ asked'[s].at = "counted" => ~asked'[s].alone
    BY <1>1, OvertakenOK DEF ReviewsInv, V!TypeOK, AskOK
  <1>3. asked' \in [Req -> V!Ask] /\ review' \in [User -> Rating \cup {None}]
    BY <1>1, <1>2 DEF ReviewsInv, V!TypeOK
  <1>4. V!TypeOK' /\ V!RatingHeals'
    BY <1>1, <1>3 DEF ReviewsInv, V!TypeOK, V!RatingHeals
  <1>5. (\A s \in Req : AskOK(asked[s]))'
    BY <1>2 DEF AskOK
  <1>6. QED  BY <1>4, <1>5 DEF ReviewsInv

LEMMA EnrollStep ==
  ASSUME ReviewsInv, learners' \subseteq User,
         review' = review, shown' = shown, asked' = asked, steady' = steady
  PROVE  ReviewsInv'
  BY DEF ReviewsInv, V!TypeOK, V!RatingHeals, AskOK, V!Flushed

LEMMA ReviewsNextInv == ReviewsInv /\ V!Next => ReviewsInv'
  <1> SUFFICES ASSUME ReviewsInv, V!Next
               PROVE  ReviewsInv'
    OBVIOUS
  <1>1. ASSUME NEW r \in Req, V!Handle(r)
        PROVE  ReviewsInv'
    BY <1>1, ReadStep, FlushStep, CommitStep, LeaveStep
       DEF V!Handle, V!CreateReview, V!UpdateMyReview, V!DeleteMyReview, V!Abort
  <1>2. ASSUME NEW u \in User, V!Enroll(u) \/ V!DeleteEnrollment(u)
        PROVE  ReviewsInv'
    <2>1. learners' \subseteq User
      BY <1>2 DEF V!Enroll, V!DeleteEnrollment, ReviewsInv, V!TypeOK
    <2>2. QED  BY <1>2, <2>1, EnrollStep DEF V!Enroll, V!DeleteEnrollment
  <1>3. QED  BY <1>1, <1>2, ModerateStep DEF V!Next

LEMMA ReviewsStutter == ReviewsInv /\ UNCHANGED reviewVars => ReviewsInv'
  <1> SUFFICES ASSUME ReviewsInv, UNCHANGED reviewVars
               PROVE  ReviewsInv'
    OBVIOUS
  <1>1. /\ learners' = learners /\ review' = review /\ shown' = shown
        /\ asked' = asked /\ steady' = steady
    BY DEF reviewVars
  <1>2. QED  BY <1>1, EnrollStep DEF ReviewsInv, V!TypeOK

-----------------------------------------------------------------------------
(* CourseTree *)

LEMMA TreeCardinality == \A X : T!Cardinality(X) = Cardinality(X)
  BY DEF T!Cardinality, Cardinality

LEMMA TreeFacts ==
  /\ IsFiniteSet(Lesson) /\ Cardinality(Lesson) \in Nat
  /\ Seconds \subseteq Nat /\ None \notin T!Row
  BY PartsHaveConstants, FS_CardinalityType DEF T!TreeConstants, T!IsFiniteSet, IsFiniteSet

\* The columns counted from any lessons fit.
LEMMA RecountOK ==
  ASSUME NEW rows \in [Lesson -> T!Row \cup {None}]
  PROVE  T!Recount(rows) \in T!Columns
  <1> DEFINE R == T!Lessons(rows)
             f == [x \in R |-> rows[x].seconds]
             n == Cardinality(R)
             s == SumOver(f, R)
  <1>1. R \in SUBSET Lesson /\ \A x \in R : rows[x] \in T!Row
    BY DEF T!Lessons
  <1>2. IsFiniteSet(R) /\ n \in 0 .. Cardinality(Lesson)
    BY <1>1, TreeFacts, FS_Subset, FS_CardinalityType
  <1>3. \A x \in R : f[x] \in Nat
    BY <1>1, TreeFacts DEF T!Row
  <1>4. s \in Nat
    <2> HIDE DEF R, f
    <2>1. QED  BY <1>2, <1>3, SumIsNumber
  <1>5. T!MapThenSumSet(LAMBDA x : rows[x].seconds, R) = s
    <2> DEFINE Step(g, K) == IF K = {} THEN 0
                             ELSE rows[Picked(K)].seconds + g[K \ {Picked(K)}]
    <2>1. T!MapThenSumSet(LAMBDA x : rows[x].seconds, R)
             = (CHOOSE g : g = [K \in SUBSET R |-> Step(g, K)])[R]
      BY DEF T!MapThenSumSet, T!MapThenFoldSet, Picked
    <2>2. \A g : \A K \in SUBSET R : Step(g, K) = SumStep(f, g, K)
      <3> SUFFICES ASSUME NEW g, NEW K \in SUBSET R, K # {}
                   PROVE  Step(g, K) = SumStep(f, g, K)
        BY DEF SumStep
      <3>1. Picked(K) \in R
        BY DEF Picked
      <3>2. f[Picked(K)] = rows[Picked(K)].seconds
        BY <3>1
      <3>3. QED  BY <3>2 DEF SumStep
    <2> HIDE DEF f, R, Step
    <2>3. \A g : [K \in SUBSET R |-> Step(g, K)] = [K \in SUBSET R |-> SumStep(f, g, K)]
      BY <2>2
    <2>4. (CHOOSE g : g = [K \in SUBSET R |-> Step(g, K)])
             = (CHOOSE g : g = [K \in SUBSET R |-> SumStep(f, g, K)])
      BY <2>3
    <2>5. QED  BY <2>1, <2>4 DEF SumOver, SumOn
  <1> HIDE DEF s
  <1>6. s \div 60 \in Nat
    BY <1>4
  <1>7. T!Recount(rows) = [lectures |-> n, minutes |-> s \div 60]
    BY <1>5, TreeCardinality DEF T!Recount
  <1> HIDE DEF n, R
  <1>8. QED  BY <1>2, <1>6, <1>7, TreeCardinality DEF T!Columns

-----------------------------------------------------------------------------

\* The locks of two open transactions exclude each other.
Apart(p, q) ==
    \A x \in T!Locks(p) \cap T!Locks(q) : x \notin Lesson /\ x \notin {p.the, q.the}

\* What a call is about, what it knows as long as nothing was committed beside
\* it, and what its locks keep in place.
TreeCallOK(q) == q.at # "idle" =>
    /\ q.the \in (IF q.op = "delete_section" THEN Section ELSE Lesson)
    /\ q.op \in {"create", "update"} => q.row \in T!Row
    /\ q.alone => q.seen = [lectures |-> lectures, minutes |-> minutes]
    /\ q.at = "counted" /\ q.alone => q.new = T!CountedBy(q)
    /\ q.at = "counted" /\ q.op = "update" => lesson[q.the] # None

TreeInv ==
    /\ T!TypeOK
    /\ T!AggregatesHeal
    /\ \A r \in Req : TreeCallOK(call[r])
    /\ \A r, s \in Req : r # s /\ call[r].at = "counted" /\ call[s].at = "counted"
                            => Apart(call[r], call[s])

LEMMA TreeCalls ==
  ASSUME TreeInv, NEW r \in Req
  PROVE  call[r] \in T!Call /\ TreeCallOK(call[r])
  BY DEF TreeInv, T!TypeOK

LEMMA TreeIdleOK ==
  /\ T!Idle \in T!Call /\ T!Idle.at = "idle" /\ T!Zero \in T!Columns
  /\ \A q \in T!Call : q.at = "idle" => TreeCallOK(q)
  <1>1. T!Zero \in T!Columns
    BY TreeFacts, TreeCardinality DEF T!Zero, T!Columns
  <1>2. QED  BY <1>1 DEF T!Idle, T!Call, TreeCallOK

LEMMA TreeInit == T!Init => TreeInv
  <1> SUFFICES ASSUME T!Init
               PROVE  TreeInv
    OBVIOUS
  <1>1. T!TypeOK
    BY TreeIdleOK, TreeFacts, TreeCardinality DEF T!Init, T!TypeOK
  <1>2. \A r \in Req : call[r].at = "idle" /\ TreeCallOK(call[r])
    BY TreeIdleOK DEF T!Init
  <1>3. T!AggregatesHeal
    <2>1. T!Lessons(lesson) = {}
      BY DEF T!Lessons, T!Init
    <2>2. T!MapThenSumSet(LAMBDA l : lesson[l].seconds, {}) = 0
      <3> DEFINE Step(g, K) == IF K = {} THEN 0
                               ELSE lesson[Picked(K)].seconds + g[K \ {Picked(K)}]
                 it == [K \in SUBSET {} |-> 0]
      <3>1. T!MapThenSumSet(LAMBDA l : lesson[l].seconds, {})
               = (CHOOSE g : g = [K \in SUBSET {} |-> Step(g, K)])[{}]
        BY DEF T!MapThenSumSet, T!MapThenFoldSet, Picked
      <3>2. it = [K \in SUBSET {} |-> Step(it, K)]
        OBVIOUS
      <3> HIDE DEF it
      <3>3. (CHOOSE g : g = [K \in SUBSET {} |-> Step(g, K)])
               = [K \in SUBSET {} |-> Step(CHOOSE g : g = [K2 \in SUBSET {} |-> Step(g, K2)], K)]
        BY <3>2
      <3>4. QED  BY <3>1, <3>3
    <2>3. T!Recount(lesson) = [lectures |-> 0, minutes |-> 0]
      BY <2>1, <2>2, FS_EmptySet, TreeCardinality DEF T!Recount
    <2>4. QED  BY <2>3 DEF T!Init, T!AggregatesHeal
  <1>4. QED  BY <1>1, <1>2, <1>3 DEF TreeInv

\* A call goes on, or ends, and commits nothing.
LEMMA CallingStep ==
  ASSUME TreeInv, NEW r \in Req, NEW q \in T!Call, TreeCallOK(q),
         call' = [call EXCEPT ![r] = q],
         sections' \subseteq Section, UNCHANGED lesson, UNCHANGED lectures,
         UNCHANGED minutes, UNCHANGED healed,
         q.at = "counted" => \A s \in Req \ {r} :
                                call[s].at = "counted" => Apart(q, call[s])
  PROVE  TreeInv'
  <1>1. \A s \in Req : call'[s] = IF s = r THEN q ELSE call[s]
    BY DEF TreeInv, T!TypeOK
  <1>2. \A s \in Req : call'[s] \in T!Call /\ TreeCallOK(call'[s])
    BY <1>1, TreeCalls
  <1>3. call' \in [Req -> T!Call]
    BY <1>2 DEF TreeInv, T!TypeOK
  <1>4. (\A s \in Req : TreeCallOK(call[s]))'
    BY <1>2 DEF TreeCallOK, T!CountedBy, T!Seen, T!Under
  <1>5. \A p, s : Apart(p, s) <=> Apart(s, p)
    BY DEF Apart
  <1>6. \A p, s \in Req : p # s /\ call'[p].at = "counted" /\ call'[s].at = "counted"
                             => Apart(call'[p], call'[s])
    <2> SUFFICES ASSUME NEW p \in Req, NEW s \in Req, p # s,
                        call'[p].at = "counted", call'[s].at = "counted"
                 PROVE  Apart(call'[p], call'[s])
      OBVIOUS
    <2>1. CASE p = r
      BY <1>1, <2>1
    <2>2. CASE s = r
      BY <1>1, <1>5, <2>2
    <2>3. CASE p # r /\ s # r
      BY <1>1, <2>3 DEF TreeInv
    <2>4. QED  BY <2>1, <2>2, <2>3
  <1>7. (\A p, s \in Req : p # s /\ call[p].at = "counted" /\ call[s].at = "counted"
                              => Apart(call[p], call[s]))'
    <2> SUFFICES ASSUME NEW p \in Req, NEW s \in Req, p # s,
                        call'[p].at = "counted", call'[s].at = "counted"
                 PROVE  Apart(call[p], call[s])'
      OBVIOUS
    <2>1. PICK a, b : a = call'[p] /\ b = call'[s]
      OBVIOUS
    <2>2. Apart(a, b)
      BY <1>6, <2>1
    <2>3. QED  BY <2>1, <2>2 DEF Apart, T!Locks, T!Under, T!Lessons
  <1>8. T!TypeOK' /\ T!AggregatesHeal'
    BY <1>3 DEF TreeInv, T!TypeOK, T!AggregatesHeal
  <1>9. QED  BY <1>4, <1>7, <1>8 DEF TreeInv

LEMMA RollbackStep ==
  ASSUME TreeInv, NEW r \in Req, T!Rollback(r)
  PROVE  TreeInv'
  <1>1. sections' \subseteq Section
    BY DEF T!Rollback, T!db, TreeInv, T!TypeOK
  <1>2. QED  BY <1>1, TreeIdleOK, CallingStep DEF T!Rollback, T!db

LEMMA LoadStep ==
  ASSUME TreeInv, NEW r \in Req, NEW op \in {"create", "update", "delete", "delete_section"},
         NEW the \in (IF op = "delete_section" THEN Section ELSE Lesson),
         NEW row \in T!Row \cup {None}, op \in {"create", "update"} => row \in T!Row,
         T!Load(r, op, the, row)
  PROVE  TreeInv'
  <1> DEFINE seen == [lectures |-> lectures, minutes |-> minutes]
  <1>1. PICK q : q = [T!Idle EXCEPT !.at = "loaded", !.op = op, !.the = the, !.row = row,
                                    !.seen = seen]
    OBVIOUS
  <1>2. seen \in T!Columns
    BY DEF TreeInv, T!TypeOK, T!Columns
  <1>3. call' = [call EXCEPT ![r] = q] /\ UNCHANGED T!db
    BY <1>1 DEF T!Load
  <1>4. q.seen = seen
    BY <1>1 DEF T!Idle
  <1> HIDE DEF seen
  <1>5. /\ q \in T!Call /\ q.at = "loaded" /\ q.op = op /\ q.the = the /\ q.row = row
    BY <1>1, <1>2, TreeIdleOK DEF T!Idle, T!Call
  <1>6. TreeCallOK(q)
    BY <1>4, <1>5 DEF TreeCallOK, seen
  <1>7. sections' \subseteq Section
    BY <1>3 DEF T!db, TreeInv, T!TypeOK
  <1>8. QED  BY <1>3, <1>5, <1>6, <1>7, CallingStep DEF T!db

\* What a transaction finds is a table of lessons.
LEMMA SeenOK ==
  ASSUME T!TypeOK, NEW q \in T!Call, q.at # "idle", TreeCallOK(q),
         q.op = "update" => lesson[q.the] # None
  PROVE  T!Seen(q) \in [Lesson -> T!Row \cup {None}]
  <1>1. lesson \in [Lesson -> T!Row \cup {None}]
    BY DEF T!TypeOK
  <1>2. CASE q.op = "create"
    BY <1>1, <1>2 DEF T!Seen, TreeCallOK
  <1>3. CASE q.op = "update"
    <2>1. q.the \in Lesson /\ q.row \in T!Row /\ lesson[q.the] \in T!Row
      BY <1>1, <1>3 DEF TreeCallOK
    <2>2. PICK row : row = [lesson[q.the] EXCEPT !.seconds = q.row.seconds]
      OBVIOUS
    <2>3. row \in T!Row
      BY <2>1, <2>2 DEF T!Row
    <2>4. T!Seen(q) = [lesson EXCEPT ![q.the] = row]
      BY <1>3, <2>2 DEF T!Seen
    <2>5. QED  BY <1>1, <2>3, <2>4
  <1>4. CASE q.op = "delete"
    BY <1>1, <1>4 DEF T!Seen
  <1>5. CASE q.op = "delete_section"
    BY <1>1, <1>5 DEF T!Seen
  <1>6. QED  BY <1>2, <1>3, <1>4, <1>5 DEF T!Call

LEMMA TreeFlush ==
  ASSUME TreeInv, NEW r \in Req, T!Flush(r)
  PROVE  TreeInv'
  <1>1. CASE T!Fails(call[r])
    BY <1>1, RollbackStep DEF T!Flush
  <1>2. CASE ~T!Fails(call[r])
    <2>1. PICK p : p = call[r]
      OBVIOUS
    <2>2. /\ p \in T!Call /\ TreeCallOK(p) /\ p.at = "loaded" /\ ~T!Waits(r)
          /\ p.op = "update" => lesson[p.the] # None
          /\ UNCHANGED T!db
          /\ call' = [call EXCEPT ![r].at = "counted", ![r].new = T!CountedBy(p)]
      BY <1>2, <2>1, TreeCalls DEF T!Flush, T!Fails
    <2>3. T!Seen(p) \in [Lesson -> T!Row \cup {None}]
      BY <2>2, SeenOK DEF TreeInv
    <2>4. T!CountedBy(p) \in T!Columns
      BY <2>3, RecountOK DEF T!CountedBy
    <2>5. PICK new : new = T!CountedBy(p)
      OBVIOUS
    <2>6. PICK q : q = [p EXCEPT !.at = "counted", !.new = new]
      OBVIOUS
    <2>7. /\ q \in T!Call /\ q.at = "counted" /\ q.new = new /\ q.op = p.op
          /\ q.the = p.the /\ q.row = p.row /\ q.seen = p.seen /\ (q.alone <=> p.alone)
      BY <2>2, <2>4, <2>5, <2>6 DEF T!Call
    <2>8. T!Seen(q) = T!Seen(p) /\ T!Locks(q) = T!Locks(p)
      BY <2>7 DEF T!Seen, T!Locks
    <2>9. T!CountedBy(q) = new
      BY <2>5, <2>8 DEF T!CountedBy
    <2>10. TreeCallOK(q)
      BY <2>2, <2>7, <2>9 DEF TreeCallOK
    <2>11. call' = [call EXCEPT ![r] = q]
      BY <2>1, <2>2, <2>5, <2>6 DEF TreeInv, T!TypeOK
    <2>12. \A s \in Req \ {r} : call[s].at = "counted" => Apart(q, call[s])
      BY <2>1, <2>2, <2>7, <2>8 DEF T!Waits, Apart
    <2>13. sections' \subseteq Section
      BY <2>2 DEF T!db, TreeInv, T!TypeOK
    <2>14. QED  BY <2>2, <2>7, <2>10, <2>11, <2>12, <2>13, CallingStep DEF T!db
  <1>3. QED  BY <1>1, <1>2

\* Who has counted keeps its locks while another commits: the lesson it
\* updates, and no lesson under the section it deletes but those it locked.
LEMMA LocksHold ==
  ASSUME TreeInv, NEW r \in Req, call[r].at = "counted", lesson' = T!Seen(call[r]),
         NEW s \in Req, s # r, call[s].at = "counted",
         NEW q, q.op = call[s].op, q.the = call[s].the, q.row = call[s].row
  PROVE  /\ T!Locks(q)' \subseteq T!Locks(call[s])
         /\ q.op = "update" => lesson'[q.the] # None
  <1>1. PICK c : c = call[r]
    OBVIOUS
  <1>2. PICK p : p = call[s]
    OBVIOUS
  <1>3. /\ c \in T!Call /\ TreeCallOK(c) /\ c.at = "counted" /\ lesson' = T!Seen(c)
        /\ p \in T!Call /\ TreeCallOK(p) /\ p.at = "counted"
        /\ q.op = p.op /\ q.the = p.the /\ q.row = p.row
    BY <1>1, <1>2, TreeCalls
  <1>4. Apart(c, p)
    BY <1>1, <1>2, <1>3 DEF TreeInv
  <1>5. /\ lesson \in [Lesson -> T!Row \cup {None}]
        /\ lesson' \in [Lesson -> T!Row \cup {None}]
    BY <1>3, SeenOK DEF TreeInv, T!TypeOK, TreeCallOK
  <1>6. ASSUME q.op = "update"
        PROVE  lesson'[q.the] # None
    <2>1. q.the \in Lesson /\ lesson[q.the] # None /\ q.the \in T!Locks(p)
      BY <1>3, <1>6 DEF TreeCallOK, T!Locks
    <2>2. q.the \notin T!Locks(c)
      BY <1>4, <2>1 DEF Apart
    <2>3. c.op \in {"create", "update", "delete", "delete_section"}
      BY <1>3 DEF T!Call
    <2>4. CASE c.op \in {"create", "update", "delete"}
      <3>1. c.the # q.the
        BY <2>2, <2>4 DEF T!Locks
      <3>2. lesson'[q.the] = lesson[q.the]
        BY <1>3, <1>5, <2>1, <2>4, <3>1 DEF T!Seen
      <3>3. QED  BY <2>1, <3>2
    <2>5. CASE c.op = "delete_section"
      <3>1. q.the \notin T!Under(c.the)
        BY <2>2, <2>5 DEF T!Locks
      <3>2. lesson'[q.the] = lesson[q.the]
        BY <1>3, <2>1, <2>5, <3>1 DEF T!Seen
      <3>3. QED  BY <2>1, <3>2
    <2>6. QED  BY <2>3, <2>4, <2>5
  <1>7. ASSUME q.op = "delete_section", NEW l \in T!Under(q.the)'
        PROVE  l \in T!Under(p.the)
    <2>1. l \in Lesson /\ lesson'[l] # None /\ lesson'[l].section = p.the
      BY <1>3, <1>7 DEF T!Under, T!Lessons
    <2>2. p.the \in T!Locks(p)
      BY <1>3, <1>7 DEF T!Locks
    <2>3. p.the \notin T!Locks(c)
      BY <1>4, <2>2 DEF Apart
    <2>4. CASE c.op = "create"
      <3>1. c.row.section # p.the
        BY <2>3, <2>4 DEF T!Locks
      <3>2. lesson' = [lesson EXCEPT ![c.the] = c.row]
        BY <1>3, <2>4 DEF T!Seen
      <3>3. l # c.the
        BY <1>5, <2>1, <3>1, <3>2
      <3>4. lesson'[l] = lesson[l]
        BY <1>5, <2>1, <3>2, <3>3
      <3>5. QED  BY <2>1, <3>4 DEF T!Under, T!Lessons
    <2>5. CASE c.op = "update"
      <3>1. lesson' = [lesson EXCEPT ![c.the].seconds = c.row.seconds]
        BY <1>3, <2>5 DEF T!Seen
      <3>2. c.the \in Lesson /\ lesson[c.the] \in T!Row
        BY <1>3, <1>5, <2>5 DEF TreeCallOK
      <3>3. PICK row : row = [lesson[c.the] EXCEPT !.seconds = c.row.seconds]
        OBVIOUS
      <3>4. row.section = lesson[c.the].section
        BY <3>2, <3>3 DEF T!Row
      <3>5. lesson' = [lesson EXCEPT ![c.the] = row]
        BY <3>1, <3>3
      <3>6. lesson[l] # None /\ lesson[l].section = p.the
        BY <1>5, <2>1, <3>2, <3>4, <3>5, TreeFacts
      <3>7. QED  BY <2>1, <3>6 DEF T!Under, T!Lessons
    <2>6. CASE c.op = "delete"
      <3>1. lesson' = [lesson EXCEPT ![c.the] = None]
        BY <1>3, <2>6 DEF T!Seen
      <3>2. lesson'[l] = lesson[l]
        BY <1>5, <2>1, <3>1
      <3>3. QED  BY <2>1, <3>2 DEF T!Under, T!Lessons
    <2>7. CASE c.op = "delete_section"
      <3>1. lesson'[l] = IF l \in T!Under(c.the) THEN None ELSE lesson[l]
        BY <1>3, <2>1, <2>7 DEF T!Seen
      <3>2. lesson'[l] = lesson[l]
        BY <2>1, <3>1
      <3>3. QED  BY <2>1, <3>2 DEF T!Under, T!Lessons
    <2>8. QED  BY <1>3, <2>4, <2>5, <2>6, <2>7 DEF T!Call
  <1>8. T!Locks(q)' \subseteq T!Locks(p)
    <2>1. CASE q.op # "delete_section"
      BY <1>3, <2>1 DEF T!Locks, T!Call
    <2>2. CASE q.op = "delete_section"
      <3>1. T!Locks(q)' = {q.the} \cup T!Under(q.the)'
        BY <2>2 DEF T!Locks
      <3>2. T!Locks(p) = {p.the} \cup T!Under(p.the)
        BY <1>3, <2>2 DEF T!Locks
      <3>3. QED  BY <1>3, <1>7, <2>2, <3>1, <3>2
    <2>3. QED  BY <2>1, <2>2
  <1>9. QED  BY <1>2, <1>6, <1>8

LEMMA TreeCommit ==
  ASSUME TreeInv, NEW r \in Req, T!Commit(r)
  PROVE  TreeInv'
  <1>1. PICK c : c = call[r]
    OBVIOUS
  <1>2. /\ c \in T!Call /\ TreeCallOK(c) /\ c.at = "counted"
        /\ lesson' = T!Seen(c)
        /\ sections' = IF c.op = "delete_section" THEN sections \ {c.the} ELSE sections
        /\ lectures' = T!Written(lectures, c.seen.lectures, c.new.lectures)
        /\ minutes' = T!Written(minutes, c.seen.minutes, c.new.minutes)
        /\ healed' = c.alone
        /\ call' = [s \in Req |-> IF s = r \/ call[s] = T!Idle THEN T!Idle
                                  ELSE [call[s] EXCEPT !.alone = FALSE]]
    BY <1>1, TreeCalls DEF T!Commit
  <1>3. lesson' \in [Lesson -> T!Row \cup {None}]
    BY <1>2, SeenOK DEF TreeInv, TreeCallOK
  <1>4. lectures' \in 0 .. Cardinality(Lesson) /\ minutes' \in Nat
    BY <1>2, TreeCardinality DEF TreeInv, T!TypeOK, T!Call, T!Columns, T!Written
  <1>5. T!AggregatesHeal'
    <2> SUFFICES ASSUME c.alone
                 PROVE  T!Recount(lesson') = [lectures |-> lectures', minutes |-> minutes']
      BY <1>2 DEF T!AggregatesHeal
    <2>1. c.seen = [lectures |-> lectures, minutes |-> minutes] /\ c.new = T!CountedBy(c)
      BY <1>2 DEF TreeCallOK
    <2>2. lectures' = c.new.lectures /\ minutes' = c.new.minutes
      BY <1>2, <2>1 DEF T!Written
    <2>3. c.new = [lectures |-> c.new.lectures, minutes |-> c.new.minutes]
      BY <1>2 DEF T!Call, T!Columns
    <2>4. T!Recount(lesson') = c.new
      BY <1>2, <2>1 DEF T!CountedBy
    <2>5. QED  BY <2>2, <2>3, <2>4
  <1>6. ASSUME NEW s \in Req
        PROVE  /\ call'[s] \in T!Call
               /\ call'[s].at = "idle" \/
                    /\ s # r /\ call'[s].at = call[s].at /\ call'[s].op = call[s].op
                    /\ call'[s].the = call[s].the /\ call'[s].row = call[s].row
                    /\ ~call'[s].alone
    <2>1. CASE s = r \/ call[s] = T!Idle
      BY <1>2, <2>1, TreeIdleOK
    <2>2. CASE ~(s = r \/ call[s] = T!Idle)
      <3>1. call'[s] = [call[s] EXCEPT !.alone = FALSE] /\ call[s] \in T!Call
        BY <1>2, <2>2, TreeCalls
      <3>2. PICK p : p = call[s]
        OBVIOUS
      <3>3. QED  BY <2>2, <3>1, <3>2 DEF T!Call
    <2>3. QED  BY <2>1, <2>2
  <1>7. \A s \in Req : call'[s].at = "counted" =>
          /\ s # r /\ call[s].at = "counted"
          /\ \A q : q = call'[s] =>
                /\ T!Locks(q)' \subseteq T!Locks(call[s])
                /\ q.op = "update" => lesson'[q.the] # None
    <2> SUFFICES ASSUME NEW s \in Req, call'[s].at = "counted"
                 PROVE  /\ s # r /\ call[s].at = "counted"
                        /\ \A q : q = call'[s] =>
                              /\ T!Locks(q)' \subseteq T!Locks(call[s])
                              /\ q.op = "update" => lesson'[q.the] # None
      OBVIOUS
    <2>1. /\ s # r /\ call[s].at = "counted" /\ call'[s].op = call[s].op
          /\ call'[s].the = call[s].the /\ call'[s].row = call[s].row
      BY <1>6
    <2>2. call[r].at = "counted" /\ lesson' = T!Seen(call[r])
      BY <1>1, <1>2
    <2>3. QED  BY <2>1, <2>2, LocksHold
  <1>8. call' \in [Req -> T!Call]
    BY <1>2, <1>6
  <1>9. T!TypeOK'
    BY <1>2, <1>3, <1>4, <1>8, TreeCardinality DEF TreeInv, T!TypeOK
  <1>10. (\A s \in Req : TreeCallOK(call[s]))'
    <2> SUFFICES ASSUME NEW s \in Req
                 PROVE  TreeCallOK(call[s])'
      OBVIOUS
    <2>1. PICK q : q = call'[s]
      OBVIOUS
    <2>2. q.at = "counted" /\ q.op = "update" => lesson'[q.the] # None
      BY <1>7, <2>1
    <2>3. q.at # "idle" => /\ TreeCallOK(call[s]) /\ ~q.alone /\ q.at = call[s].at
                           /\ q.op = call[s].op /\ q.the = call[s].the /\ q.row = call[s].row
      BY <1>6, <2>1, TreeCalls
    <2>4. QED  BY <2>1, <2>2, <2>3 DEF TreeCallOK
  <1>11. (\A p, s \in Req : p # s /\ call[p].at = "counted" /\ call[s].at = "counted"
                               => Apart(call[p], call[s]))'
    <2> SUFFICES ASSUME NEW p \in Req, NEW s \in Req, p # s,
                        call'[p].at = "counted", call'[s].at = "counted"
                 PROVE  Apart(call[p], call[s])'
      OBVIOUS
    <2>1. PICK a, b : a = call'[p] /\ b = call'[s]
      OBVIOUS
    <2>2. /\ T!Locks(a)' \subseteq T!Locks(call[p]) /\ T!Locks(b)' \subseteq T!Locks(call[s])
          /\ a.the = call[p].the /\ b.the = call[s].the
      BY <1>6, <1>7, <2>1
    <2>3. Apart(call[p], call[s])
      BY <1>7 DEF TreeInv
    <2>4. \A x \in T!Locks(a)' \cap T!Locks(b)' : x \notin Lesson /\ x \notin {a.the, b.the}
      BY <2>2, <2>3 DEF Apart
    <2>5. QED  BY <2>1, <2>4 DEF Apart, T!Locks, T!Under, T!Lessons
  <1>12. QED  BY <1>5, <1>9, <1>10, <1>11 DEF TreeInv

\* Nothing but the sections changes.
LEMMA TreeQuiet ==
  ASSUME TreeInv, sections' \subseteq Section, lesson' = lesson, lectures' = lectures,
         minutes' = minutes, call' = call, healed' = healed
  PROVE  TreeInv'
  <1>1. T!TypeOK' /\ T!AggregatesHeal'
    BY DEF TreeInv, T!TypeOK, T!AggregatesHeal
  <1>2. (\A r \in Req : TreeCallOK(call[r]))'
    BY DEF TreeInv, TreeCallOK, T!CountedBy, T!Seen, T!Under, T!Lessons
  <1>3. (\A r, s \in Req : r # s /\ call[r].at = "counted" /\ call[s].at = "counted"
                              => Apart(call[r], call[s]))'
    BY DEF TreeInv, Apart, T!Locks, T!Under, T!Lessons
  <1>4. QED  BY <1>1, <1>2, <1>3 DEF TreeInv

LEMMA TreeNextInv == TreeInv /\ T!Next => TreeInv'
  <1> SUFFICES ASSUME TreeInv, T!Next
               PROVE  TreeInv'
    OBVIOUS
  <1>1. ASSUME NEW r \in Req, NEW l \in Lesson, NEW row \in T!Row, T!CreateLesson(r, l, row)
        PROVE  TreeInv'
    BY <1>1, LoadStep DEF T!CreateLesson
  <1>2. ASSUME NEW r \in Req, NEW l \in Lesson, NEW n \in Seconds, T!UpdateLesson(r, l, n)
        PROVE  TreeInv'
    <2>1. PICK row : row = [lesson[l] EXCEPT !.seconds = n]
      OBVIOUS
    <2>2. lesson[l] \in T!Row
      BY <1>2 DEF T!UpdateLesson, TreeInv, T!TypeOK
    <2>3. row \in T!Row
      BY <1>2, <2>1, <2>2 DEF T!Row
    <2>4. QED  BY <1>2, <2>1, <2>3, LoadStep DEF T!UpdateLesson
  <1>3. ASSUME NEW r \in Req, NEW l \in Lesson, T!DeleteLesson(r, l)
        PROVE  TreeInv'
    BY <1>3, LoadStep DEF T!DeleteLesson
  <1>4. ASSUME NEW r \in Req, NEW s \in Section, T!DeleteSection(r, s)
        PROVE  TreeInv'
    BY <1>4, LoadStep DEF T!DeleteSection
  <1>5. ASSUME NEW r \in Req, T!Handle(r)
        PROVE  TreeInv'
    BY <1>1, <1>2, <1>3, <1>4, <1>5, TreeFlush, TreeCommit, RollbackStep
       DEF T!Handle, T!Abort
  <1>6. ASSUME NEW s \in Section, T!CreateSection(s)
        PROVE  TreeInv'
    <2>1. sections' \subseteq Section
      BY <1>6 DEF T!CreateSection, TreeInv, T!TypeOK
    <2>2. QED  BY <1>6, <2>1, TreeQuiet DEF T!CreateSection
  <1>7. QED  BY <1>5, <1>6 DEF T!Next

LEMMA TreeStutter == TreeInv /\ UNCHANGED treeVars => TreeInv'
  <1> SUFFICES ASSUME TreeInv, UNCHANGED treeVars
               PROVE  TreeInv'
    OBVIOUS
  <1>1. /\ sections' = sections /\ lesson' = lesson /\ lectures' = lectures
        /\ minutes' = minutes /\ call' = call /\ healed' = healed
    BY DEF treeVars
  <1>2. QED  BY <1>1, TreeQuiet DEF TreeInv, T!TypeOK

-----------------------------------------------------------------------------
(* Ordering *)

LEMMA OrderFacts ==
  /\ RowCount \in Nat /\ MaxOrder \in Nat /\ None \notin O!Position
  /\ O!Row = 1 .. RowCount /\ O!Position = 0 .. MaxOrder
  /\ O!Staged = {-1} \cup MaxOrder + 1 .. MaxOrder + RowCount
  /\ O!Position \cap O!Staged = {}
  /\ \A X : O!Cardinality(X) = Cardinality(X)
  <1>1. RowCount \in Nat /\ MaxOrder \in Nat /\ None \notin Int
    BY PartsHaveConstants DEF O!OrderingConstants
  <1>2. O!Position \cap O!Staged = {} /\ None \notin O!Position
    BY <1>1 DEF O!Position, O!Staged
  <1>3. \A X : O!Cardinality(X) = Cardinality(X)
    BY DEF O!Cardinality, Cardinality
  <1>4. QED  BY <1>1, <1>2, <1>3 DEF O!Row, O!Position, O!Staged

\* The rows in key order: each once.
LEMMA KeyOrder ==
  ASSUME NEW S \in SUBSET O!Row, NEW K, K = O!InKeyOrder(S)
  PROVE  \E n \in Nat : /\ K \in [1 .. n -> S]
                        /\ \A j, k \in 1 .. n : K[j] = K[k] => j = k
                        /\ \A x \in S : \E k \in 1 .. n : K[k] = x
  <1> DEFINE n == Cardinality(S)
             UpTo(x) == {y \in S : y <= x}
             f == [x \in S |-> Cardinality(UpTo(x))]
  <1>1. IsFiniteSet(S) /\ n \in Nat /\ S \subseteq Int
    <2>1. IsFiniteSet(1 .. RowCount)
      BY OrderFacts, FS_Interval
    <2>2. S \in SUBSET (1 .. RowCount) /\ RowCount \in Nat
      BY OrderFacts
    <2>3. IsFiniteSet(S)
      BY <2>1, <2>2, FS_Subset
    <2>4. QED  BY <2>2, <2>3, FS_CardinalityType
  <1>2. \A x \in S : /\ UpTo(x) \in SUBSET S /\ x \in UpTo(x)
                     /\ IsFiniteSet(UpTo(x)) /\ Cardinality(UpTo(x)) \in 1 .. n
    <2> SUFFICES ASSUME NEW x \in S
                 PROVE  /\ UpTo(x) \in SUBSET S /\ x \in UpTo(x)
                        /\ IsFiniteSet(UpTo(x)) /\ Cardinality(UpTo(x)) \in 1 .. n
      OBVIOUS
    <2>1. UpTo(x) \in SUBSET S /\ x \in UpTo(x)
      BY <1>1
    <2> HIDE DEF UpTo
    <2>2. /\ IsFiniteSet(UpTo(x)) /\ Cardinality(UpTo(x)) <= n
          /\ Cardinality(UpTo(x)) \in Nat
      BY <1>1, <2>1, FS_Subset, FS_CardinalityType
    <2>3. Cardinality(UpTo(x)) # 0
      BY <2>1, <2>2, FS_EmptySet
    <2>4. QED  BY <1>1, <2>1, <2>2, <2>3
  <1>3. \A x, z \in S : x < z => Cardinality(UpTo(x)) # Cardinality(UpTo(z))
    <2> SUFFICES ASSUME NEW x \in S, NEW z \in S, x < z,
                        Cardinality(UpTo(x)) = Cardinality(UpTo(z))
                 PROVE  FALSE
      OBVIOUS
    <2>1. UpTo(x) \in SUBSET UpTo(z) /\ z \notin UpTo(x)
      <3>1. x \in Int /\ z \in Int /\ \A y \in S : y \in Int
        BY <1>1
      <3>2. \A y \in S : y <= x => y <= z
        BY <3>1
      <3>3. ~(z <= x)
        BY <3>1
      <3>4. QED  BY <3>2, <3>3
    <2>2. IsFiniteSet(UpTo(z)) /\ z \in UpTo(z)
      BY <1>2
    <2> HIDE DEF UpTo
    <2>3. UpTo(x) = UpTo(z)
      BY <2>1, <2>2, FS_Subset
    <2>4. QED  BY <2>1, <2>2, <2>3
  <1>4. f \in [S -> 1 .. n]
    BY <1>2
  <1>5. \A x, z \in S : f[x] = f[z] => x = z
    BY <1>1, <1>3
  <1>6. \A k \in 1 .. n : \E x \in S : f[x] = k
    <2>1. f \in Injection(S, 1 .. n)
      BY <1>4, <1>5 DEF Injection, IsInjective
    <2>2. IsFiniteSet(1 .. n) /\ Cardinality(1 .. n) = n
      BY <1>1, FS_Interval
    <2> HIDE DEF f
    <2>3. f \in Surjection(S, 1 .. n)
      <3> DEFINE T1 == 1 .. n
      <3>1. IsFiniteSet(T1) /\ Cardinality(S) = Cardinality(T1)
        BY <2>2
      <3>2. f \in Injection(S, T1)
        BY <2>1
      <3> HIDE DEF T1
      <3>3. f \in Surjection(S, T1)
        BY <1>1, <3>1, <3>2, FS_Injection
      <3>4. QED  BY <3>3 DEF T1
    <2>4. QED  BY <2>3 DEF Surjection
  <1>7. K = [k \in 1 .. n |-> CHOOSE x \in S : Cardinality(UpTo(x)) = k]
    BY DEF O!InKeyOrder, O!Cardinality, Cardinality
  <1>8. \A k \in 1 .. n : K[k] \in S /\ f[K[k]] = k
    <2> SUFFICES ASSUME NEW k \in 1 .. n
                 PROVE  K[k] \in S /\ f[K[k]] = k
      OBVIOUS
    <2>1. \E x \in S : Cardinality(UpTo(x)) = k
      BY <1>6
    <2>2. K[k] = CHOOSE x \in S : Cardinality(UpTo(x)) = k
      BY <1>7
    <2> HIDE DEF UpTo
    <2>3. K[k] \in S /\ Cardinality(UpTo(K[k])) = k
      BY <2>1, <2>2
    <2>4. QED  BY <2>3
  <1>9. K \in [1 .. n -> S]
    BY <1>7, <1>8
  <1>10. \A j, k \in 1 .. n : K[j] = K[k] => j = k
    BY <1>8
  <1>11. \A x \in S : \E k \in 1 .. n : K[k] = x
    <2> HIDE DEF f
    <2>1. QED  BY <1>4, <1>5, <1>8
  <1> HIDE DEF n
  <1>12. QED  BY <1>1, <1>9, <1>10, <1>11

-----------------------------------------------------------------------------

\* From the j-th UPDATE on, one gives row y a position that is committed.
PlacedFrom(todo, j, y) ==
    \E k \in j .. Len(todo) : todo[k].row = y /\ todo[k].to \in O!Position

\* The UPDATEs ahead meet no position taken: they are of the container's rows,
\* to positions that differ, the staged ones first; none goes where another
\* row was put, and a row is placed when all others have been updated before.
Clear(todo, written, rows) ==
    /\ \A j \in 1 .. Len(todo) : todo[j].row \in rows
    /\ \A j, k \in 1 .. Len(todo) : j < k =>
          /\ todo[j].to # todo[k].to
          /\ todo[j].to \in O!Position => todo[k].to \in O!Position
    /\ \A j \in 1 .. Len(todo) : \A y \in DOMAIN written \ {todo[j].row} :
          written[y] # todo[j].to
    /\ \A j \in 1 .. Len(todo) : todo[j].to \in O!Position =>
          \A y \in rows \ {todo[j].row} :
             y \in DOMAIN written \/ \E i \in 1 .. j - 1 : todo[i].row = y

\* A transaction has updated rows that are there, and leaves none at a staged
\* position; a reorder of all rows that nothing interfered with is clear.
ReorderOK(q) ==
    /\ DOMAIN q.written \subseteq O!Rows
    /\ \A y \in DOMAIN q.written :
          q.written[y] \in O!Position \/ PlacedFrom(q.todo, 1, y)
    /\ \A j \in 1 .. Len(q.todo) : PlacedFrom(q.todo, j, q.todo[j].row)
    /\ q.todo # <<>> /\ q.listed = O!Rows /\ q.distinct /\ q.alone
          => Clear(q.todo, q.written, O!Rows)

OrderInv ==
    /\ order \in [O!Row -> O!Position \cup {None}]
    /\ req \in [Req -> O!Request]
    /\ \A r \in Req : ReorderOK(req[r])

\* The fields of a request, one by one.
LEMMA RequestFields ==
  ASSUME NEW q \in O!Request
  PROVE  /\ q.at \in {"idle", "insert", "write"} /\ q.order \in O!Position
         /\ q.listed \in SUBSET O!Row /\ q.todo \in Seq(O!Write)
         /\ DOMAIN q.written \subseteq O!Row
         /\ \A y \in DOMAIN q.written : q.written[y] \in O!Position \cup O!Staged
         /\ q.written = [y \in DOMAIN q.written |-> q.written[y]]
         /\ q.distinct \in BOOLEAN /\ q.alone \in BOOLEAN
  <1>1. PICK S \in SUBSET O!Row : q.written \in [S -> O!Position \cup O!Staged]
    BY DEF O!Request
  <1>2. QED  BY <1>1 DEF O!Request

LEMMA NoRequest ==
  /\ O!Idle \in O!Request
  /\ O!Idle.todo = <<>> /\ O!Idle.written = <<>> /\ ReorderOK(O!Idle)
  <1>1. <<>> \in [{} -> O!Position \cup O!Staged] /\ <<>> \in Seq(O!Write)
    OBVIOUS
  <1>2. <<>> \in UNION {[S -> O!Position \cup O!Staged] : S \in SUBSET O!Row}
    BY <1>1
  <1>3. 0 \in O!Position
    BY OrderFacts
  <1>4. /\ O!Idle.todo = <<>> /\ O!Idle.written = <<>>
    BY DEF O!Idle
  <1>5. ReorderOK(O!Idle)
    BY <1>1, <1>4 DEF ReorderOK
  <1>6. O!Idle \in O!Request
    BY <1>1, <1>2, <1>3 DEF O!Idle, O!Request
  <1>7. QED  BY <1>4, <1>5, <1>6

\* What the invariant is for.
LEMMA OrderInvHolds == OrderInv => O!TypeOK /\ O!ReorderLands /\ O!NoRowStaged
  <1> SUFFICES ASSUME OrderInv
               PROVE  O!TypeOK /\ O!ReorderLands /\ O!NoRowStaged
    OBVIOUS
  <1>1. ASSUME NEW r \in Req
        PROVE  /\ req[r].at \in {"idle", "insert", "write"}
               /\ O!Range(req[r].todo) \subseteq O!Write
               /\ DOMAIN req[r].written \subseteq O!Rows
    <2>1. req[r] \in O!Request /\ ReorderOK(req[r])
      BY DEF OrderInv
    <2>2. req[r].todo \in Seq(O!Write)
      BY <2>1, RequestFields
    <2>3. O!Range(req[r].todo) \subseteq O!Write
      BY <2>2 DEF O!Range
    <2>4. QED  BY <2>1, <2>3, RequestFields DEF ReorderOK
  <1>2. O!TypeOK
    BY <1>1 DEF OrderInv, O!TypeOK
  <1>3. O!NoRowStaged
    BY DEF OrderInv, O!NoRowStaged, O!Rows
  <1>4. ASSUME NEW r \in Req, req[r].todo # <<>>, req[r].listed = O!Rows,
               req[r].distinct, req[r].alone
        PROVE  ~O!Refused(req[r])
    <2>1. PICK q : q = req[r]
      OBVIOUS
    <2>2. /\ q \in O!Request /\ q.todo # <<>> /\ Clear(q.todo, q.written, O!Rows)
          /\ DOMAIN q.written \subseteq O!Rows
      BY <1>4, <2>1 DEF OrderInv, ReorderOK
    <2>3. PICK w : w = Head(q.todo)
      OBVIOUS
    <2>4. q.todo \in Seq(O!Write) /\ 1 \in 1 .. Len(q.todo) /\ w = q.todo[1] /\ w \in O!Write
      <3>1. q.todo \in Seq(O!Write)
        BY <2>2, RequestFields
      <3>2. QED  BY <2>2, <2>3, <3>1
    <2>5. /\ w.row \in O!Rows
          /\ \A y \in DOMAIN q.written \ {w.row} : q.written[y] # w.to
          /\ w.to \in O!Position => \A y \in O!Rows \ {w.row} : y \in DOMAIN q.written
      <3>1. \A i : i \notin 1 .. 1 - 1
        OBVIOUS
      <3>2. QED  BY <2>2, <2>4, <3>1 DEF Clear
    <2>6. \A y \in O!Rows : order[y] \in O!Position
      BY DEF OrderInv, O!Rows
    <2>7. ASSUME NEW y \in O!Rows \ {w.row}
          PROVE  O!Found(y, q.written) # w.to
      <3>1. CASE y \in DOMAIN q.written
        BY <2>5, <3>1 DEF O!Found
      <3>2. CASE y \notin DOMAIN q.written
        BY <2>5, <2>6, <3>2 DEF O!Found
      <3>3. QED  BY <3>1, <3>2
    <2>8. ~O!Refused(q)
      BY <2>3, <2>5, <2>7 DEF O!Refused, O!Taken
    <2>9. QED  BY <2>1, <2>8
  <1>5. O!ReorderLands
    BY <1>4 DEF O!ReorderLands
  <1>6. QED  BY <1>2, <1>3, <1>5

LEMMA OrderInit == O!Init => OrderInv
  BY NoRequest DEF O!Init, OrderInv

\* The ghost aside, a step of another leaves a request as it is.
LEMMA NoticedOK ==
  ASSUME OrderInv, NEW s \in Req, DOMAIN req[s].written \subseteq O!Rows',
         NEW q, q = O!Noticed[s]
  PROVE  q \in O!Request /\ ReorderOK(q)'
  <1>1. PICK p : p = req[s]
    OBVIOUS
  <1>2. p \in O!Request /\ ReorderOK(p) /\ DOMAIN p.written \subseteq O!Rows'
    BY <1>1 DEF OrderInv
  <1>3. CASE p = O!Idle
    <2>1. q = O!Idle
      BY <1>1, <1>3 DEF O!Noticed
    <2>2. q.todo = <<>> /\ q.written = <<>> /\ DOMAIN <<>> = {} /\ Len(<<>>) = 0
      BY <2>1, NoRequest
    <2>3. QED  BY <2>1, <2>2, NoRequest DEF ReorderOK
  <1>4. CASE p # O!Idle
    <2>1. q = [p EXCEPT !.alone = FALSE]
      BY <1>1, <1>4 DEF O!Noticed
    <2>2. /\ q \in O!Request /\ q.todo = p.todo /\ q.written = p.written /\ ~q.alone
      BY <1>2, <2>1 DEF O!Request
    <2>3. QED  BY <1>2, <2>2 DEF ReorderOK, PlacedFrom
  <1>5. QED  BY <1>3, <1>4

LEMMA QuietStep ==
  ASSUME OrderInv, order' \in [O!Row -> O!Position \cup {None}], req' = O!Noticed,
         \A s \in Req : DOMAIN req[s].written \subseteq O!Rows'
  PROVE  OrderInv'
  <1>1. \A s \in Req : \A q : q = req'[s] => q \in O!Request /\ ReorderOK(q)'
    BY NoticedOK
  <1>2. req' \in [Req -> O!Request]
    BY <1>1 DEF O!Noticed
  <1>3. (\A s \in Req : ReorderOK(req[s]))'
    BY <1>1 DEF ReorderOK
  <1>4. QED  BY <1>2, <1>3 DEF OrderInv

LEMMA SetStep ==
  ASSUME OrderInv, NEW r \in Req, NEW p \in O!Request, ReorderOK(p)',
         order' \in [O!Row -> O!Position \cup {None}],
         req' = [O!Noticed EXCEPT ![r] = p],
         \A s \in Req \ {r} : DOMAIN req[s].written \subseteq O!Rows'
  PROVE  OrderInv'
  <1>1. \A s \in Req : \A q : q = req'[s] => q \in O!Request /\ ReorderOK(q)'
    <2> SUFFICES ASSUME NEW s \in Req, NEW q, q = req'[s]
                 PROVE  q \in O!Request /\ ReorderOK(q)'
      OBVIOUS
    <2>1. CASE s = r
      <3>1. q = p
        BY <2>1 DEF O!Noticed
      <3>2. QED  BY <3>1
    <2>2. CASE s # r
      <3>1. q = O!Noticed[s]
        BY <2>2 DEF O!Noticed
      <3>2. QED  BY <2>2, <3>1, NoticedOK
    <2>3. QED  BY <2>1, <2>2
  <1>2. req' \in [Req -> O!Request]
    BY <1>1 DEF O!Noticed
  <1>3. (\A s \in Req : ReorderOK(req[s]))'
    BY <1>1 DEF ReorderOK
  <1>4. QED  BY <1>2, <1>3 DEF OrderInv

LEMMA RequestEnds ==
  ASSUME OrderInv, NEW r \in Req, O!Finish(r),
         order' \in [O!Row -> O!Position \cup {None}],
         \A s \in Req \ {r} : DOMAIN req[s].written \subseteq O!Rows'
  PROVE  OrderInv'
  <1>1. ReorderOK(O!Idle)'
    <2>1. DOMAIN <<>> = {} /\ Len(<<>>) = 0
      OBVIOUS
    <2>2. QED  BY <2>1, NoRequest DEF ReorderOK
  <1>2. QED  BY <1>1, NoRequest, SetStep DEF O!Finish

LEMMA BeginStep ==
  ASSUME OrderInv, NEW r \in Req, NEW q \in O!Request, ReorderOK(q), O!Begin(r, q),
         order' = order, \A a \in BOOLEAN : ReorderOK([q EXCEPT !.alone = a])
  PROVE  OrderInv'
  <1>1. PICK a \in BOOLEAN : a <=> \A s \in Req : req[s] = O!Idle
    OBVIOUS
  <1>2. PICK p : p = [q EXCEPT !.alone = a]
    OBVIOUS
  <1>3. req' = [O!Noticed EXCEPT ![r] = p]
    BY <1>1, <1>2 DEF O!Begin
  <1>4. p \in O!Request
    BY <1>2 DEF O!Request
  <1>5. ReorderOK(p)'
    <2>1. ReorderOK(p)
      BY <1>2
    <2>2. O!Rows' = O!Rows
      BY DEF O!Rows
    <2>3. QED  BY <2>1, <2>2 DEF ReorderOK
  <1>6. \A s \in Req : DOMAIN req[s].written \subseteq O!Rows'
    BY DEF OrderInv, ReorderOK, O!Rows
  <1>7. QED  BY <1>3, <1>4, <1>5, <1>6, SetStep DEF OrderInv

LEMMA CreateStep ==
  ASSUME OrderInv, NEW r \in Req, O!Create(r)
  PROVE  OrderInv'
  <1>1. PICK n \in O!Position :
          O!Begin(r, [O!Idle EXCEPT !.at = "insert", !.order = n]) /\ order' = order
    BY DEF O!Create
  <1>2. PICK q : q = [O!Idle EXCEPT !.at = "insert", !.order = n]
    OBVIOUS
  <1>3. q \in O!Request /\ q.todo = <<>> /\ q.written = <<>>
    BY <1>2, NoRequest DEF O!Request
  <1>4. \A p : p.todo = <<>> /\ p.written = <<>> => ReorderOK(p)
    <2>1. DOMAIN <<>> = {} /\ Len(<<>>) = 0
      OBVIOUS
    <2>2. QED  BY <2>1 DEF ReorderOK
  <1>5. \A a \in BOOLEAN : ReorderOK([q EXCEPT !.alone = a])
    <2> SUFFICES ASSUME NEW a \in BOOLEAN
                 PROVE  ReorderOK([q EXCEPT !.alone = a])
      OBVIOUS
    <2>1. PICK p : p = [q EXCEPT !.alone = a]
      OBVIOUS
    <2>2. p.todo = <<>> /\ p.written = <<>>
      BY <1>3, <2>1 DEF O!Request
    <2>3. QED  BY <1>4, <2>1, <2>2
  <1>6. ReorderOK(q)
    BY <1>3, <1>4
  <1>7. O!Begin(r, q)
    BY <1>1, <1>2
  <1>8. QED  BY <1>1, <1>3, <1>5, <1>6, <1>7, BeginStep

\* The rows that are updated by a transaction stay.
LEMMA WrittenStay ==
  ASSUME OrderInv, NEW s \in Req
  PROVE  DOMAIN req[s].written \subseteq O!Rows
  BY DEF OrderInv, ReorderOK

LEMMA RowInserted ==
  ASSUME OrderInv, NEW r \in Req, O!CreateWrite(r)
  PROVE  OrderInv'
  <1>1. req[r].order \in O!Position
    BY RequestFields DEF OrderInv
  <1>2. /\ order' \in [O!Row -> O!Position \cup {None}]
        /\ O!Rows \subseteq O!Rows' /\ O!Finish(r)
    BY <1>1, OrderFacts DEF OrderInv, O!CreateWrite, O!Rows
  <1>3. QED  BY <1>2, WrittenStay, RequestEnds

LEMMA UpdateStep ==
  ASSUME OrderInv, NEW x \in O!Row, NEW n \in O!Position, O!Update(x, n)
  PROVE  OrderInv'
  <1>1. /\ order' \in [O!Row -> O!Position \cup {None}]
        /\ O!Rows \subseteq O!Rows' /\ req' = O!Noticed
    BY OrderFacts DEF OrderInv, O!Update, O!Rows
  <1>2. QED  BY <1>1, WrittenStay, QuietStep

LEMMA RowDeleted ==
  ASSUME OrderInv, NEW x \in O!Row, O!Delete(x)
  PROVE  OrderInv'
  <1>1. /\ order' \in [O!Row -> O!Position \cup {None}]
        /\ O!Rows \ {x} \subseteq O!Rows' /\ req' = O!Noticed
    BY DEF OrderInv, O!Delete, O!Rows
  <1>2. \A s \in Req : x \notin DOMAIN req[s].written
    BY DEF O!Delete, O!Awaited
  <1>3. QED  BY <1>1, <1>2, WrittenStay, QuietStep

LEMMA AbortStep ==
  ASSUME OrderInv, NEW r \in Req, O!Abort(r)
  PROVE  OrderInv'
  <1>1. order' = order /\ O!Finish(r) /\ O!Rows' = O!Rows
    BY DEF O!Abort, O!Rows
  <1>2. QED  BY <1>1, WrittenStay, RequestEnds DEF OrderInv

\* Nothing staged is left when the last UPDATE is done.
LEMMA ReorderCommits ==
  ASSUME OrderInv, NEW r \in Req, O!Commit(r)
  PROVE  OrderInv'
  <1>1. PICK q : q = req[r]
    OBVIOUS
  <1>2. /\ q \in O!Request /\ ReorderOK(q) /\ q.todo = <<>> /\ O!Finish(r)
        /\ order' = [x \in O!Row |-> O!Found(x, q.written)]
    BY <1>1 DEF O!Commit, O!Committable, OrderInv
  <1>3. \A y \in DOMAIN q.written : q.written[y] \in O!Position
    <2>1. Len(<<>>) = 0
      OBVIOUS
    <2>2. QED  BY <1>2, <2>1 DEF ReorderOK, PlacedFrom
  <1>4. order' \in [O!Row -> O!Position \cup {None}]
    BY <1>2, <1>3 DEF O!Found, OrderInv
  <1>5. O!Rows \subseteq O!Rows'
    BY <1>2, <1>3, OrderFacts DEF O!Found, O!Rows
  <1>6. QED  BY <1>2, <1>4, <1>5, WrittenStay, RequestEnds

LEMMA OrderStutter == OrderInv /\ UNCHANGED orderVars => OrderInv'
  BY DEF OrderInv, orderVars, ReorderOK, PlacedFrom, Clear, O!Rows

\* What is left of a list of UPDATEs.
LEMMA TailFacts ==
  ASSUME NEW todo \in Seq(O!Write), todo # <<>>, NEW after, after = Tail(todo)
  PROVE  /\ Len(todo) \in Nat /\ Len(todo) >= 1 /\ Head(todo) = todo[1]
         /\ todo[1] \in O!Write
         /\ after \in Seq(O!Write) /\ Len(after) = Len(todo) - 1
         /\ \A j \in 1 .. Len(after) : j + 1 \in 1 .. Len(todo) /\ after[j] = todo[j + 1]
  OBVIOUS

LEMMA ClearTail ==
  ASSUME NEW todo \in Seq(O!Write), todo # <<>>, NEW written, NEW rows,
         Clear(todo, written, rows), NEW over, over = O!Overlaid(written, todo[1]),
         NEW after, after = Tail(todo)
  PROVE  Clear(after, over, rows)
  <1>1. PICK n \in Nat : n = Len(after)
    BY TailFacts
  <1>2. /\ Len(todo) = n + 1 /\ Len(after) = n
        /\ \A j \in 1 .. n : j + 1 \in 1 .. n + 1 /\ after[j] = todo[j + 1]
    BY <1>1, TailFacts
  <1>3. PICK w : w = todo[1]
    OBVIOUS
  <1>4. over = [x \in DOMAIN written \cup {w.row} |->
                   IF x = w.row THEN w.to ELSE written[x]]
    BY <1>3 DEF O!Overlaid
  <1>5. \A j \in 1 .. n : after[j].row \in rows
    BY <1>2 DEF Clear
  <1>6. \A j, k \in 1 .. n : j < k =>
          /\ after[j].to # after[k].to
          /\ after[j].to \in O!Position => after[k].to \in O!Position
    <2> SUFFICES ASSUME NEW j \in 1 .. n, NEW k \in 1 .. n, j < k
                 PROVE  /\ after[j].to # after[k].to
                        /\ after[j].to \in O!Position => after[k].to \in O!Position
      OBVIOUS
    <2>1. j + 1 \in 1 .. n + 1 /\ k + 1 \in 1 .. n + 1 /\ j + 1 < k + 1
      OBVIOUS
    <2>2. /\ todo[j + 1].to # todo[k + 1].to
          /\ todo[j + 1].to \in O!Position => todo[k + 1].to \in O!Position
      BY <1>2, <2>1 DEF Clear
    <2>3. QED  BY <1>2, <2>2
  <1>7. ASSUME NEW j \in 1 .. n, NEW y \in DOMAIN over \ {after[j].row}
        PROVE  over[y] # after[j].to
    <2>1. after[j] = todo[j + 1] /\ j + 1 \in 1 .. n + 1
      BY <1>2
    <2>2. CASE y = w.row
      <3>1. 1 \in 1 .. n + 1 /\ 1 < j + 1
        BY <1>7
      <3>2. todo[1].to # todo[j + 1].to
        BY <1>2, <2>1, <3>1 DEF Clear
      <3>3. over[y] = w.to
        BY <1>4, <2>2
      <3>4. QED  BY <1>3, <2>1, <3>2, <3>3
    <2>3. CASE y # w.row
      <3>1. y \in DOMAIN written \ {todo[j + 1].row} /\ over[y] = written[y]
        BY <1>4, <1>7, <2>1, <2>3
      <3>2. QED  BY <1>2, <2>1, <3>1 DEF Clear
    <2>4. QED  BY <2>2, <2>3
  <1>8. ASSUME NEW j \in 1 .. n, after[j].to \in O!Position, NEW y \in rows \ {after[j].row}
        PROVE  y \in DOMAIN over \/ \E i \in 1 .. j - 1 : after[i].row = y
    <2>1. after[j] = todo[j + 1] /\ j + 1 \in 1 .. n + 1
      BY <1>2
    <2> SUFFICES ASSUME y \notin DOMAIN written, y # w.row
                 PROVE  \E i \in 1 .. j - 1 : after[i].row = y
      BY <1>4
    <2>2. PICK i \in 1 .. (j + 1) - 1 : todo[i].row = y
      BY <1>2, <1>8, <2>1 DEF Clear
    <2>3. i # 1
      BY <1>3, <2>2
    <2>4. i - 1 \in 1 .. j - 1 /\ i - 1 \in 1 .. n /\ (i - 1) + 1 = i
      BY <1>8, <2>2, <2>3
    <2>5. after[i - 1] = todo[i]
      BY <1>2, <2>4
    <2>6. QED  BY <2>2, <2>4, <2>5
  <1>9. QED  BY <1>2, <1>5, <1>6, <1>7, <1>8 DEF Clear

\* A row that is staged now is placed later, one that is placed now needs it no more.
LEMMA PlacedTail ==
  ASSUME NEW todo \in Seq(O!Write), todo # <<>>, NEW after, after = Tail(todo),
         NEW j \in Nat \ {0}, NEW y,
         PlacedFrom(todo, j + 1, y)
  PROVE  PlacedFrom(after, j, y)
  <1>1. PICK k \in j + 1 .. Len(todo) : todo[k].row = y /\ todo[k].to \in O!Position
    BY DEF PlacedFrom
  <1>2. Len(todo) \in Nat /\ Len(after) = Len(todo) - 1
    BY TailFacts
  <1>3. k - 1 \in 1 .. Len(after) /\ k - 1 \in j .. Len(after) /\ (k - 1) + 1 = k
    BY <1>1, <1>2
  <1>4. after[k - 1] = todo[k]
    BY <1>3, TailFacts
  <1>5. QED  BY <1>1, <1>3, <1>4 DEF PlacedFrom

LEMMA WriteStep ==
  ASSUME OrderInv, NEW r \in Req, O!WriteRow(r)
  PROVE  OrderInv'
  <1>1. PICK q : q = req[r]
    OBVIOUS
  <1>2. q \in O!Request /\ ReorderOK(q) /\ q.todo # <<>> /\ order' = order
    BY <1>1 DEF OrderInv, O!WriteRow
  <1>3. PICK todo, written, w : todo = q.todo /\ written = q.written /\ w = Head(todo)
    OBVIOUS
  <1>4. todo \in Seq(O!Write) /\ todo # <<>>
    BY <1>2, <1>3, RequestFields
  <1>5. PICK after : after = Tail(todo)
    OBVIOUS
  <1>6. /\ Len(todo) \in Nat /\ Len(todo) >= 1 /\ w = todo[1] /\ w \in O!Write
        /\ after \in Seq(O!Write) /\ Len(after) = Len(todo) - 1
        /\ \A j \in 1 .. Len(after) : j + 1 \in 1 .. Len(todo) /\ after[j] = todo[j + 1]
    BY <1>3, <1>4, <1>5, TailFacts
  <1>7. PICK over : over = O!Overlaid(written, w)
    OBVIOUS
  <1>8. over = [x \in DOMAIN written \cup {w.row} |->
                   IF x = w.row THEN w.to ELSE written[x]]
    BY <1>7 DEF O!Overlaid
  <1>9. O!Rows' = O!Rows /\ \A s \in Req : DOMAIN req[s].written \subseteq O!Rows'
    <2>1. O!Rows' = O!Rows
      BY <1>2 DEF O!Rows
    <2>2. QED  BY <2>1, WrittenStay
  <1>10. CASE O!Refused(q)
    <2>1. O!Finish(r)
      BY <1>1, <1>10 DEF O!WriteRow
    <2>2. QED  BY <1>2, <1>9, <2>1, RequestEnds DEF OrderInv
  <1>11. CASE ~O!Refused(q)
    <2>1. PICK p : p = [q EXCEPT !.todo = after, !.written = over]
      OBVIOUS
    <2>2. req' = [O!Noticed EXCEPT ![r] = p]
      BY <1>1, <1>3, <1>5, <1>7, <1>11, <2>1 DEF O!WriteRow
    <2>3. w.row \in O!Row /\ w.row \in O!Rows /\ w.to \in O!Position \cup O!Staged
      <3>1. w.row \in O!Rows
        BY <1>3, <1>11 DEF O!Refused
      <3>2. QED  BY <1>6, <3>1 DEF O!Write
    <2>4. over \in UNION {[S -> O!Position \cup O!Staged] : S \in SUBSET O!Row}
      <3>1. DOMAIN written \cup {w.row} \in SUBSET O!Row
        BY <1>2, <1>3, <2>3, RequestFields
      <3>2. over \in [DOMAIN written \cup {w.row} -> O!Position \cup O!Staged]
        BY <1>2, <1>3, <1>8, <2>3, RequestFields
      <3>3. QED  BY <3>1, <3>2
    <2>5. /\ p \in O!Request /\ p.todo = after /\ p.written = over /\ p.listed = q.listed
          /\ (p.distinct <=> q.distinct) /\ (p.alone <=> q.alone)
      BY <1>2, <1>6, <2>1, <2>4 DEF O!Request
    <2>6. DOMAIN over \subseteq O!Rows
      BY <1>2, <1>3, <1>8, <2>3 DEF ReorderOK
    <2>7. ASSUME NEW j \in 1 .. Len(after)
          PROVE  PlacedFrom(after, j, after[j].row)
      <3>1. PlacedFrom(todo, j + 1, todo[j + 1].row)
        BY <1>2, <1>3, <1>6 DEF ReorderOK
      <3>2. j \in Nat \ {0} /\ after[j] = todo[j + 1]
        BY <1>6
      <3>3. QED  BY <1>4, <1>5, <3>1, <3>2, PlacedTail
    <2>8. ASSUME NEW y \in DOMAIN over, over[y] \notin O!Position
          PROVE  PlacedFrom(after, 1, y)
      <3>1. PlacedFrom(todo, 1, y)
        <4>1. CASE y = w.row
          <5>1. 1 \in 1 .. Len(todo)
            BY <1>6
          <5>2. QED  BY <1>2, <1>3, <1>6, <4>1, <5>1 DEF ReorderOK
        <4>2. CASE y # w.row
          BY <1>2, <1>3, <1>8, <2>8, <4>2 DEF ReorderOK
        <4>3. QED  BY <4>1, <4>2
      <3>2. PICK k \in 1 .. Len(todo) : todo[k].row = y /\ todo[k].to \in O!Position
        BY <3>1 DEF PlacedFrom
      <3>3. k # 1
        BY <1>6, <1>8, <2>8, <3>2
      <3>4. k \in 1 + 1 .. Len(todo)
        BY <1>6, <3>2, <3>3
      <3>5. PICK j \in Nat \ {0} : j = 1
        OBVIOUS
      <3>6. PlacedFrom(todo, j + 1, y)
        BY <3>2, <3>4, <3>5 DEF PlacedFrom
      <3>7. QED  BY <1>4, <1>5, <3>5, <3>6, PlacedTail
    <2>9. ASSUME after # <<>>, q.listed = O!Rows, q.distinct, q.alone
          PROVE  Clear(after, over, O!Rows)
      <3>1. Clear(todo, written, O!Rows)
        BY <1>2, <1>3, <2>9 DEF ReorderOK
      <3>2. over = O!Overlaid(written, todo[1])
        BY <1>6, <1>7
      <3>3. QED  BY <1>4, <1>5, <3>1, <3>2, ClearTail
    <2>10. ReorderOK(p)
      BY <2>5, <2>6, <2>7, <2>8, <2>9 DEF ReorderOK
    <2>11. ReorderOK(p)'
      BY <1>9, <2>10 DEF ReorderOK
    <2>12. QED  BY <1>2, <1>9, <2>2, <2>5, <2>11, SetStep DEF OrderInv
  <1>12. QED  BY <1>10, <1>11

\* The list a reorder asks for: each row once.
LEMMA ListFacts ==
  ASSUME NEW list \in O!Lists
  PROVE  \E m \in 0 .. RowCount :
            /\ list \in [1 .. m -> O!Row]
            /\ O!Range(list) = {list[k] : k \in 1 .. m} /\ O!Range(list) \in SUBSET O!Row
            /\ \A j, k \in 1 .. m : list[j] = list[k] => j = k
  <1>1. PICK m \in 0 .. RowCount : list \in [1 .. m -> O!Row]
    BY DEF O!Lists, O!SeqOf
  <1>2. \A j, k \in 1 .. m : list[j] = list[k] => j = k
    BY <1>1 DEF O!Lists, O!IsInjective
  <1>3. O!Range(list) = {list[k] : k \in 1 .. m}
    BY <1>1 DEF O!Range
  <1>4. QED  BY <1>1, <1>2, <1>3

\* A reorder stages every row of S, each at a position of its own, and then
\* places them.
Planned(todo, S, target, n, K, away) ==
    /\ K \in [1 .. n -> S] /\ away \in [S -> O!Staged]
    /\ \A j, k \in 1 .. n : K[j] = K[k] => j = k
    /\ \A x \in S : \E k \in 1 .. n : K[k] = x
    /\ \A x, z \in S : away[x] = away[z] => x = z
    /\ todo \in Seq(O!Write) /\ Len(todo) = n + n
    /\ \A k \in 1 .. n : /\ todo[k].row = K[k] /\ todo[k].to = away[K[k]]
                         /\ todo[n + k].row = K[k] /\ todo[n + k].to = target[K[k]]

LEMMA ReorderWrites ==
  ASSUME Staging = "apart", NEW list \in O!Lists, NEW target \in [O!Row -> O!Position],
         NEW S, S = O!Range(list),
         NEW todo, todo = O!Stage(list) \o O!Place(list, target)
  PROVE  \E n \in Nat : \E K, away : Planned(todo, S, target, n, K, away)
  <1>2. PICK m \in 0 .. RowCount :
            /\ list \in [1 .. m -> O!Row]
            /\ S = {list[k] : k \in 1 .. m} /\ S \in SUBSET O!Row
            /\ \A j, k \in 1 .. m : list[j] = list[k] => j = k
    BY ListFacts
  <1>1. S \in SUBSET O!Row
    BY <1>2
  <1>3. PICK K : K = O!InKeyOrder(S)
    OBVIOUS
  <1>4. PICK n \in Nat : /\ K \in [1 .. n -> S]
                         /\ \A j, k \in 1 .. n : K[j] = K[k] => j = k
                         /\ \A x \in S : \E k \in 1 .. n : K[k] = x
    BY <1>1, <1>3, KeyOrder
  <1>5. PICK at : at = [x \in S |-> CHOOSE k \in DOMAIN list : list[k] = x]
    OBVIOUS
  <1>6. \A x \in S : at[x] \in 1 .. m /\ list[at[x]] = x
    BY <1>2, <1>5
  <1>7. PICK away : away = [x \in S |-> MaxOrder + at[x]]
    OBVIOUS
  <1>8. \A x \in S : away[x] \in O!Staged
    <2> SUFFICES ASSUME NEW x \in S
                 PROVE  away[x] \in O!Staged
      OBVIOUS
    <2>1. away[x] = MaxOrder + at[x] /\ at[x] \in 1 .. m
      BY <1>6, <1>7
    <2>2. at[x] \in 1 .. RowCount
      BY <1>2, <2>1, OrderFacts
    <2>3. away[x] \in MaxOrder + 1 .. MaxOrder + RowCount
      BY <2>1, <2>2, OrderFacts
    <2>4. QED  BY <2>3, OrderFacts
  <1>9. \A x, z \in S : away[x] = away[z] => x = z
    <2> SUFFICES ASSUME NEW x \in S, NEW z \in S, away[x] = away[z]
                 PROVE  x = z
      OBVIOUS
    <2>1. at[x] \in Int /\ at[z] \in Int /\ MaxOrder + at[x] = MaxOrder + at[z]
      BY <1>6, <1>7
    <2>2. at[x] = at[z]
      BY <2>1, OrderFacts
    <2>3. QED  BY <1>6, <2>2
  <1>10. PICK stage : stage = [k \in 1 .. n |-> [row |-> K[k], to |-> away[K[k]]]]
    OBVIOUS
  <1>11. PICK place : place = [k \in 1 .. n |-> [row |-> K[k], to |-> target[K[k]]]]
    OBVIOUS
  <1>12. O!Stage(list) = stage
    <2>1. O!Stage(list) = [k \in DOMAIN K |-> [row |-> K[k],
                              to |-> MaxOrder + CHOOSE j \in DOMAIN list : list[j] = K[k]]]
      BY <1>3 DEF O!Stage, O!Writes
    <2>2. \A k \in 1 .. n :
             away[K[k]] = MaxOrder + CHOOSE j \in DOMAIN list : list[j] = K[k]
      BY <1>4, <1>5, <1>7
    <2>3. DOMAIN K = 1 .. n
      BY <1>4
    <2>4. QED  BY <1>10, <2>1, <2>2, <2>3
  <1>13. O!Place(list, target) = place
    <2>1. O!Place(list, target) = [k \in DOMAIN K |-> [row |-> K[k], to |-> target[K[k]]]]
      BY <1>3 DEF O!Place, O!Writes
    <2>2. DOMAIN K = 1 .. n
      BY <1>4
    <2>3. QED  BY <1>11, <2>1, <2>2
  <1>14. \A k \in 1 .. n : K[k] \in O!Row /\ target[K[k]] \in O!Position
                           /\ away[K[k]] \in O!Staged
    BY <1>2, <1>4, <1>8
  <1>15. stage \in Seq(O!Write) /\ Len(stage) = n
    <2>1. \A k \in 1 .. n : stage[k] \in O!Write
      BY <1>10, <1>14 DEF O!Write
    <2>2. stage \in [1 .. n -> O!Write]
      BY <1>10, <2>1
    <2>3. QED  BY <1>4, <2>2
  <1>16. place \in Seq(O!Write) /\ Len(place) = n
    <2>1. \A k \in 1 .. n : place[k] \in O!Write
      BY <1>11, <1>14 DEF O!Write
    <2>2. place \in [1 .. n -> O!Write]
      BY <1>11, <2>1
    <2>3. QED  BY <1>4, <2>2
  <1>17. /\ todo \in Seq(O!Write) /\ Len(todo) = n + n
         /\ \A k \in 1 .. n : todo[k] = stage[k] /\ todo[n + k] = place[k]
    <2>1. todo = stage \o place
      BY <1>12, <1>13
    <2>2. todo \in Seq(O!Write) /\ Len(todo) = n + n
      <3>1. \A a, b \in Seq(O!Write) : a \o b \in Seq(O!Write) /\ Len(a \o b) = Len(a) + Len(b)
        OBVIOUS
      <3>2. QED  BY <1>15, <1>16, <2>1, <3>1
    <2>3. ASSUME NEW k \in 1 .. n
          PROVE  todo[k] = stage[k] /\ todo[n + k] = place[k]
      <3>1. /\ k \in 1 .. Len(stage) + Len(place) /\ k <= Len(stage)
            /\ n + k \in 1 .. Len(stage) + Len(place) /\ ~(n + k <= Len(stage))
            /\ (n + k) - Len(stage) = k
        BY <1>15, <1>16
      <3>2. QED  BY <1>15, <1>16, <2>1, <3>1
    <2>4. QED  BY <2>2, <2>3
  <1>18. ASSUME NEW k \in 1 .. n
         PROVE  /\ todo[k].row = K[k] /\ todo[k].to = away[K[k]]
                /\ todo[n + k].row = K[k] /\ todo[n + k].to = target[K[k]]
    <2>1. /\ todo[k] = [row |-> K[k], to |-> away[K[k]]]
          /\ todo[n + k] = [row |-> K[k], to |-> target[K[k]]]
      BY <1>10, <1>11, <1>17
    <2>2. QED  BY <2>1
  <1>19. away \in [S -> O!Staged]
    BY <1>7, <1>8
  <1>20. Planned(todo, S, target, n, K, away)
    BY <1>4, <1>9, <1>17, <1>18, <1>19 DEF Planned
  <1>21. QED  BY <1>4, <1>20

LEMMA ReorderStep ==
  ASSUME Staging = "apart", OrderInv, NEW r \in Req, NEW list \in O!Lists,
         NEW target \in [O!Row -> O!Position], O!Reorder(r, list, target)
  PROVE  OrderInv'
  <1>1. PICK S, todo : S = O!Range(list) /\ todo = O!Stage(list) \o O!Place(list, target)
    OBVIOUS
  <1>2. PICK distinct \in BOOLEAN :
           distinct <=> \A x, y \in S : target[x] = target[y] => x = y
    OBVIOUS
  <1>3. PICK q : q = [O!Idle EXCEPT !.at = "write", !.listed = S, !.todo = todo,
                                    !.distinct = distinct]
    OBVIOUS
  <1>4. /\ S \subseteq O!Rows /\ S \in SUBSET O!Row /\ order' = order
        /\ O!Begin(r, q)
    BY <1>1, <1>2, <1>3 DEF O!Reorder, O!Rows
  <1>5. PICK n \in Nat : \E K, away : Planned(todo, S, target, n, K, away)
    BY <1>1, ReorderWrites
  <1>6. PICK K, away : Planned(todo, S, target, n, K, away)
    BY <1>5
  <1>7. /\ K \in [1 .. n -> S] /\ away \in [S -> O!Staged]
        /\ \A j, k \in 1 .. n : K[j] = K[k] => j = k
        /\ \A x \in S : \E k \in 1 .. n : K[k] = x
        /\ \A x, z \in S : away[x] = away[z] => x = z
    BY <1>6 DEF Planned
  <1>8. todo \in Seq(O!Write) /\ Len(todo) = n + n
    BY <1>6 DEF Planned
  <1>9. \A k \in 1 .. n : /\ todo[k].row = K[k] /\ todo[k].to = away[K[k]]
                          /\ todo[n + k].row = K[k] /\ todo[n + k].to = target[K[k]]
    BY <1>6 DEF Planned
  <1>10. /\ q \in O!Request /\ q.todo = todo /\ q.written = <<>> /\ q.listed = S
        /\ (q.distinct <=> distinct)
    <2>1. S \in SUBSET O!Row
      BY <1>4
    <2>2. QED  BY <1>2, <1>3, <1>8, <2>1, NoRequest DEF O!Request
  <1>11. \A j \in 1 .. n + n : j \in 1 .. n \/ \E k \in 1 .. n : j = n + k
    <2> SUFFICES ASSUME NEW j \in 1 .. n + n, j \notin 1 .. n
                 PROVE  \E k \in 1 .. n : j = n + k
      OBVIOUS
    <2>1. j - n \in 1 .. n /\ j = n + (j - n)
      OBVIOUS
    <2>2. QED  BY <2>1
  <1>12. \A k \in 1 .. n : /\ K[k] \in S /\ away[K[k]] \in O!Staged
                          /\ target[K[k]] \in O!Position /\ k \in 1 .. n + n
                          /\ n + k \in 1 .. n + n
    BY <1>4, <1>7
  <1>13. ASSUME NEW j \in 1 .. Len(todo)
        PROVE  PlacedFrom(todo, j, todo[j].row)
    <2>1. PICK k \in 1 .. n : j = k \/ j = n + k
      BY <1>11, <1>13, <1>8
    <2>2. /\ todo[j].row = K[k] /\ todo[n + k].row = K[k]
          /\ todo[n + k].to \in O!Position
      BY <1>12, <1>9, <2>1
    <2>3. n + k \in j .. Len(todo)
      BY <1>8, <2>1
    <2>4. QED  BY <2>2, <2>3 DEF PlacedFrom
  <1>14. ASSUME distinct, S = O!Rows
         PROVE  Clear(todo, <<>>, O!Rows)
    <2>1. \A j \in 1 .. n + n : todo[j].row \in O!Rows
      <3>1. \A k \in 1 .. n : todo[k].row \in O!Rows /\ todo[n + k].row \in O!Rows
        BY <1>12, <1>14, <1>9
      <3>2. QED  BY <1>11, <3>1
    <2>2. ASSUME NEW j \in 1 .. n + n, NEW k \in 1 .. n + n, j < k
          PROVE  /\ todo[j].to # todo[k].to
                 /\ todo[j].to \in O!Position => todo[k].to \in O!Position
      <3>1. CASE j \in 1 .. n /\ k \in 1 .. n
        <4>1. j # k
          BY <2>2
        <4>2. K[j] # K[k]
          BY <1>7, <3>1, <4>1
        <4>3. away[K[j]] # away[K[k]]
          BY <1>12, <1>7, <3>1, <4>2
        <4>4. todo[j].to = away[K[j]] /\ todo[k].to = away[K[k]]
          BY <1>9, <3>1
        <4>5. away[K[j]] \notin O!Position
          BY <1>12, <3>1, OrderFacts
        <4>6. QED  BY <4>3, <4>4, <4>5
      <3>2. ASSUME j \in 1 .. n, NEW i \in 1 .. n, k = n + i
            PROVE  /\ todo[j].to # todo[k].to
                   /\ todo[j].to \in O!Position => todo[k].to \in O!Position
        <4>1. todo[j].to = away[K[j]] /\ todo[k].to = target[K[i]]
          BY <1>9, <3>2
        <4>2. away[K[j]] \in O!Staged /\ target[K[i]] \in O!Position
          BY <1>12, <3>2
        <4>3. QED  BY <4>1, <4>2, OrderFacts
      <3>3. ASSUME NEW h \in 1 .. n, j = n + h, NEW i \in 1 .. n, k = n + i
            PROVE  /\ todo[j].to # todo[k].to
                   /\ todo[j].to \in O!Position => todo[k].to \in O!Position
        <4>1. h # i
          BY <2>2, <3>3
        <4>2. K[h] # K[i]
          BY <1>7, <4>1
        <4>3. target[K[h]] # target[K[i]]
          BY <1>2, <1>12, <1>14, <4>2
        <4>4. QED  BY <1>12, <1>9, <3>3, <4>3
      <3>4. ASSUME NEW h \in 1 .. n, j = n + h, k \in 1 .. n
            PROVE  FALSE
        BY <2>2, <3>4
      <3>5. QED  BY <1>11, <3>1, <3>2, <3>3, <3>4
    <2>3. ASSUME NEW j \in 1 .. n + n, todo[j].to \in O!Position,
                 NEW y \in O!Rows \ {todo[j].row}
          PROVE  \E i \in 1 .. j - 1 : todo[i].row = y
      <3>1. j \notin 1 .. n
        BY <1>12, <1>9, <2>3, OrderFacts
      <3>2. PICK k \in 1 .. n : K[k] = y
        BY <1>14, <1>7
      <3>3. k \in 1 .. j - 1
        BY <3>1
      <3>4. QED  BY <1>9, <3>2, <3>3
    <2>4. DOMAIN <<>> = {}
      OBVIOUS
    <2>5. QED  BY <1>8, <2>1, <2>2, <2>3, <2>4 DEF Clear
  <1>15. ASSUME NEW p, p.todo = todo, p.written = <<>>, p.listed = S,
                p.distinct <=> distinct
         PROVE  ReorderOK(p)
    <2>1. DOMAIN <<>> = {}
      OBVIOUS
    <2>2. QED  BY <1>13, <1>14, <1>15, <2>1 DEF ReorderOK
  <1>16. ASSUME NEW a \in BOOLEAN
         PROVE  ReorderOK([q EXCEPT !.alone = a])
    <2>1. PICK p : p = [q EXCEPT !.alone = a]
      OBVIOUS
    <2>2. /\ p.todo = todo /\ p.written = <<>> /\ p.listed = S /\ (p.distinct <=> distinct)
      BY <1>10, <2>1 DEF O!Request
    <2>3. QED  BY <1>15, <2>1, <2>2
  <1>17. ReorderOK(q)
    BY <1>10, <1>15
  <1>18. QED  BY <1>4, <1>10, <1>16, <1>17, BeginStep

LEMMA OrderNextInv == Staging = "apart" => (OrderInv /\ O!Next => OrderInv')
  <1> SUFFICES ASSUME Staging = "apart", OrderInv, O!Next
               PROVE  OrderInv'
    OBVIOUS
  <1>1. ASSUME NEW r \in Req, O!Handle(r)
        PROVE  OrderInv'
    BY <1>1, CreateStep, RowInserted, ReorderStep, WriteStep, ReorderCommits, AbortStep
       DEF O!Handle
  <1>2. QED  BY <1>1, RowDeleted, UpdateStep DEF O!Next

-----------------------------------------------------------------------------
(* MCAuthoring *)

PartsInv ==
    /\ part \in {"order", "tree", "reviews", "catalog", "progress"}
    /\ IInv /\ ProgressInv /\ ReviewsInv /\ TreeInv

\* Each step is one of one part, and leaves the others as they are.
LEMMA OnePart ==
  ASSUME [MCNext]_all
  PROVE  /\ part' = part
         /\ [Next]_vars
         /\ O!Next \/ UNCHANGED orderVars
         /\ T!Next \/ UNCHANGED treeVars
         /\ V!Next \/ UNCHANGED reviewVars
         /\ P!Next \/ UNCHANGED progressVars
  <1>1. CASE MCNext
    BY <1>1 DEF MCNext
  <1>2. CASE UNCHANGED all
    BY <1>2 DEF all
  <1>3. QED  BY <1>1, <1>2

LEMMA PartsStart == MCInit => PartsInv
  BY PartsHaveConstants, InitIInv, ProgressInit, ReviewsInit, TreeInit DEF MCInit, PartsInv

LEMMA PartsGoOn == PartsInv /\ [MCNext]_all => PartsInv'
  <1> SUFFICES ASSUME PartsInv, [MCNext]_all
               PROVE  PartsInv'
    OBVIOUS
  <1>1. IInv'
    BY OnePart, NextIInv DEF PartsInv
  <1>2. ProgressInv'
    BY OnePart, ProgressNextInv, ProgressStutter DEF PartsInv
  <1>3. ReviewsInv'
    BY OnePart, ReviewsNextInv, ReviewsStutter DEF PartsInv
  <1>4. TreeInv'
    BY OnePart, TreeNextInv, TreeStutter DEF PartsInv
  <1>5. QED  BY OnePart, <1>1, <1>2, <1>3, <1>4 DEF PartsInv

\* A change that no other overlaps leaves every stored aggregate equal to what
\* the rows give, for any number of rows and of calls in flight: the course's
\* counters (_recompute_course_aggregates), its rating (_recompute_rating), the
\* instructor's count (courses_count) and the progress in a program.
THEOREM StoredAggregatesHeal == MCSpec => []AggregatesHeal
  <1>1. PartsInv => AggregatesHeal
    <2> SUFFICES ASSUME PartsInv
                 PROVE  AggregatesHeal
      OBVIOUS
    <2>1. TypeOK /\ CountHeals
      BY DEF PartsInv, IInv
    <2>2. P!TypeOK /\ P!ProgressHeals
      BY DEF PartsInv, ProgressInv
    <2>3. V!TypeOK /\ V!RatingHeals
      BY DEF PartsInv, ReviewsInv
    <2>4. T!TypeOK /\ T!AggregatesHeal
      BY DEF PartsInv, TreeInv
    <2>5. QED  BY <2>1, <2>2, <2>3, <2>4 DEF PartsInv, AggregatesHeal
  <1>2. QED  BY PartsStart, PartsGoOn, <1>1, PTL DEF MCSpec

\* A reorder of all rows to distinct positions, that nothing interferes with,
\* meets no UPDATE that the unique constraint refuses, and no staged position
\* is ever committed: for any number of rows, positions and calls, when each
\* row is staged at a position of its own (reorder_sections, reorder_lessons).
THEOREM ReordersAlwaysLand ==
  ASSUME Staging = "apart"
  PROVE  MCSpec => []ReordersLand
  <1>1. MCInit => OrderInv
    BY OrderInit DEF MCInit
  <1>2. OrderInv /\ [MCNext]_all => OrderInv'
    BY OnePart, OrderNextInv, OrderStutter
  <1>3. OrderInv => ReordersLand
    BY OrderInvHolds DEF ReordersLand
  <1>4. QED  BY <1>1, <1>2, <1>3, PTL DEF MCSpec

=============================================================================
