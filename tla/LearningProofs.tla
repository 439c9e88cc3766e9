--------------------------- MODULE LearningProofs ---------------------------
(***************************************************************************)
(* Lesson completion, the cards on file and the rate limiter, for any      *)
(* number of lessons, cards, calls and overlapping requests, and any limit.*)
(*                                                                         *)
(* A completed enrollment has a certificate.  A request may complete the   *)
(* enrollment on the strength of a completion it loaded and that has been  *)
(* undone since; the invariant therefore speaks of what each request in    *)
(* flight believes.                                                        *)
(*                                                                         *)
(* The card last added as the default is a default, and another one is too *)
(* only if their additions overlapped.  An UPDATE demotes what it saw when *)
(* it started, so the invariant says of an addition under way that every   *)
(* default card its UPDATE did not see was committed beside it.            *)
(*                                                                         *)
(* A window of the limiter admits as many calls as the limit says.  A call *)
(* that the sorted set no longer holds has left the window of every call   *)
(* that is not late, and the key outlives the calls it holds.              *)
(***************************************************************************)
EXTENDS MCLearning, FiniteSetTheorems, TLAPS

\* A request in flight is about a lesson; a completion it has loaded was
\* certified, and one it is about to write is certified already or comes with
\* its certificate.
BeliefCertified(q) ==
    /\ q.at # "idle" => q.lesson \in Lesson
    /\ q.enrollment.completed => certificates > 0
    /\ q.at = "commit" /\ Finishes(q.count, q.total) /\ ~q.enrollment.completed
         /\ Recomputes(q) => q.issue \/ certificates > 0

BeliefsCertified == \A r \in Req : BeliefCertified(req[r])

IInv == TypeOK /\ CompletedIsCertified /\ BeliefsCertified

\* An idle request is well typed and believes nothing.
LEMMA IdleOK == Idle \in Request /\ BeliefCertified(Idle)
  BY DEF Idle, Request, Stage, Kind, Want, Enrollment, ProgressRow, BeliefCertified

\* What is counted is a number.
LEMMA CountsAreNat ==
  ASSUME NEW S \in SUBSET Lesson
  PROVE  Cardinality(S) \in Nat
  BY LearningConstants, FS_Subset, FS_CardinalityType DEF LearningConstants

\* A step that changes one request and no row keeps the invariant if what the
\* request now believes is certified.
LEMMA RequestStep ==
  ASSUME IInv, UNCHANGED db, NEW r \in Req, NEW q \in Request, BeliefCertified(q),
         req' = [req EXCEPT ![r] = q]
  PROVE  IInv'
  <1>1. TypeOK' /\ CompletedIsCertified'
    BY DEF IInv, TypeOK, CompletedIsCertified, db
  <1>2. \A s \in Req : req'[s] = IF s = r THEN q ELSE req[s]
    BY DEF IInv, TypeOK
  <1>3. BeliefsCertified'
    BY <1>2 DEF IInv, BeliefsCertified, BeliefCertified, db, Finishes, Recomputes, Written
  <1>4. QED  BY <1>1, <1>3 DEF IInv

\* A request that ends without having written keeps the invariant.
LEMMA EndStep ==
  ASSUME IInv, UNCHANGED db, NEW r \in Req, Finish(r)
  PROVE  IInv'
  BY IdleOK, RequestStep DEF Finish

\* A request that goes on without changing what it believes and without
\* reaching its commit keeps the invariant.
LEMMA GoOnStep ==
  ASSUME IInv, UNCHANGED db, NEW r \in Req, NEW q \in Request,
         q.enrollment = req[r].enrollment \/ q.enrollment = enrollment,
         q.lesson \in Lesson,
         q.at # "commit" \/ ~Recomputes(q),
         req' = [req EXCEPT ![r] = q]
  PROVE  IInv'
  <1>1. q.enrollment.completed => certificates > 0
    BY DEF IInv, CompletedIsCertified, BeliefsCertified, BeliefCertified
  <1>2. BeliefCertified(q)
    BY <1>1 DEF BeliefCertified
  <1>3. QED  BY <1>2, RequestStep

\* The commit writes a completion only together with its certificate.
LEMMA CommitStep ==
  ASSUME IInv, NEW r \in Req, Commit(r)
  PROVE  IInv'
  <1> DEFINE q       == req[r]
             percent == Percent(q.count, q.total)
  <1>1. q \in Request /\ q.at = "commit" /\ BeliefCertified(q) /\ Finish(r)
    BY DEF IInv, TypeOK, BeliefsCertified, Commit
  <1>2. CASE UNCHANGED db
    BY <1>1, <1>2, EndStep
  <1>3. CASE ~UNCHANGED db
    <2> HIDE DEF percent
    <2>1. /\ progress' = IF Written(q) = "none" THEN progress
                         ELSE [progress EXCEPT ![q.lesson] = Written(q)]
          /\ certificates' = certificates + IF q.issue THEN 1 ELSE 0
          /\ enrollment' =
               IF ~Recomputes(q) THEN enrollment
               ELSE [percent |-> Changed(enrollment.percent, q.enrollment.percent, percent),
                     completed |-> Changed(enrollment.completed, q.enrollment.completed,
                                           Finishes(q.count, q.total))]
          /\ lesson' = lesson
          /\ Recomputes(q) => percent \in 0 .. 100
      BY <1>3 DEF Commit, InRange, percent
    <2>2. progress' \in [Lesson -> ProgressRow]
      BY <2>1 DEF IInv, TypeOK, Written, ProgressRow
    <2>3. certificates' \in Nat /\ certificates' >= certificates
            /\ (q.issue => certificates' > 0)
      BY <1>1, <2>1 DEF IInv, TypeOK, Request
    <2>4. enrollment' \in Enrollment
      <3>1. CASE ~Recomputes(q)
        BY <2>1, <3>1 DEF IInv, TypeOK
      <3>2. CASE Recomputes(q)
        <4>1. Finishes(q.count, q.total) \in BOOLEAN
          BY DEF Finishes
        <4>2. q.enrollment \in Enrollment /\ enrollment \in Enrollment
          BY <1>1 DEF IInv, TypeOK, Request
        <4>3. Changed(enrollment.percent, q.enrollment.percent, percent) \in 0 .. 100
          BY <2>1, <3>2, <4>2 DEF Changed, Enrollment
        <4>4. Changed(enrollment.completed, q.enrollment.completed,
                      Finishes(q.count, q.total)) \in BOOLEAN
          BY <4>1, <4>2 DEF Changed, Enrollment
        <4>5. QED  BY <2>1, <3>2, <4>3, <4>4 DEF Enrollment
      <3>3. QED  BY <3>1, <3>2
    <2>5. req' \in [Req -> Request] /\ \A s \in Req : req'[s] = IF s = r THEN Idle ELSE req[s]
      BY <1>1, IdleOK DEF IInv, TypeOK, Finish
    <2>6. CompletedIsCertified'
      <3>1. ASSUME enrollment'.completed
            PROVE  certificates' > 0
        <4>1. CASE enrollment.completed
          BY <2>3, <4>1 DEF IInv, TypeOK, CompletedIsCertified
        <4>2. CASE ~enrollment.completed
          <5>1. Recomputes(q) /\ Finishes(q.count, q.total) /\ ~q.enrollment.completed
            BY <1>1, <2>1, <3>1, <4>2 DEF Changed, Finishes, Request, Enrollment
          <5>2. q.issue \/ certificates > 0
            BY <1>1, <5>1 DEF BeliefCertified
          <5>3. QED  BY <2>3, <5>2 DEF IInv, TypeOK
        <4>3. QED  BY <4>1, <4>2
      <3>2. QED  BY <3>1 DEF CompletedIsCertified
    <2>7. BeliefsCertified'
      <3>1. ASSUME NEW s \in Req
            PROVE  BeliefCertified(req[s])'
        <4>1. BeliefCertified(req[s]) /\ BeliefCertified(Idle)
          BY IdleOK DEF IInv, BeliefsCertified
        <4>2. certificates > 0 => certificates' > 0
          BY <2>3 DEF IInv, TypeOK
        <4>3. CASE s = r
          BY <2>5, <4>1, <4>2, <4>3 DEF BeliefCertified, Idle
        <4>4. CASE s # r
          BY <2>5, <4>1, <4>2, <4>4 DEF BeliefCertified, Finishes, Recomputes, Written
        <4>5. QED  BY <4>3, <4>4
      <3>2. QED  BY <3>1 DEF BeliefsCertified
    <2>8. QED  BY <2>1, <2>2, <2>3, <2>4, <2>5, <2>6, <2>7 DEF IInv, TypeOK
  <1>4. QED  BY <1>2, <1>3

\* Lessons come and go without touching enrollment or certificates.
LEMMA AuthoringStep ==
  ASSUME IInv, NEW r \in Req, NEW l \in Lesson, CreateLesson(r, l) \/ DeleteLesson(r, l)
  PROVE  IInv'
  <1>1. TypeOK'
    BY DEF IInv, TypeOK, CreateLesson, DeleteLesson, LessonState, ProgressRow
  <1>2. CompletedIsCertified' /\ BeliefsCertified'
    BY DEF IInv, CreateLesson, DeleteLesson, CompletedIsCertified, BeliefsCertified,
           BeliefCertified, Finishes, Recomputes, Written
  <1>3. QED  BY <1>1, <1>2 DEF IInv

\* The steps between a call and its commit.
LEMMA HandlerStep ==
  ASSUME IInv, NEW r \in Req,
         \/ \E l \in Lesson, w \in Want, k \in Kind : Call(r, k, l, w)
         \/ LoadProgress(r) \/ LockEnrollment(r) \/ Flush(r)
         \/ CountLessons(r) \/ CountCompleted(r) \/ Certify(r)
  PROVE  IInv'
  <1>0. /\ req[r] \in Request /\ BeliefCertified(req[r])
        /\ req[r].at # "idle" => req[r].lesson \in Lesson
        /\ req \in [Req -> Request]
        /\ enrollment \in Enrollment
        /\ progress \in [Lesson -> ProgressRow]
    BY DEF IInv, TypeOK, BeliefsCertified, BeliefCertified
  <1>1. ASSUME NEW l \in Lesson, NEW w \in Want, NEW k \in Kind, Call(r, k, l, w)
        PROVE  IInv'
    <2> DEFINE q == [Idle EXCEPT !.at = "progress", !.kind = k, !.lesson = l,
                                 !.want = w, !.enrollment = enrollment]
    <2>1. /\ q \in Request
          /\ q.enrollment = enrollment /\ q.at # "commit" /\ q.lesson \in Lesson
      BY <1>0, IdleOK DEF Request, Stage, Idle
    <2>2. UNCHANGED db /\ req' = [req EXCEPT ![r] = q]
      BY <1>1 DEF Call
    <2>3. QED  BY <2>1, <2>2, GoOnStep
  <1>2. CASE LoadProgress(r)
    <2> DEFINE at == IF req[r].kind = "update" THEN "lock" ELSE "flush"
               q  == [req[r] EXCEPT !.row = progress[req[r].lesson], !.at = at]
    <2>1. UNCHANGED db /\ req[r].at = "progress" /\ req' = [req EXCEPT ![r] = q]
      BY <1>0, <1>2 DEF LoadProgress
    <2>2. at \in Stage /\ at # "commit"
      BY DEF Stage
    <2>3. progress[req[r].lesson] \in ProgressRow
      BY <1>0, <2>1
    <2>4. /\ q \in Request /\ q.at # "commit"
          /\ q.enrollment = req[r].enrollment /\ q.lesson = req[r].lesson
      <3> HIDE DEF at
      <3>1. QED  BY <1>0, <2>2, <2>3 DEF Request
    <2>5. QED  BY <1>0, <2>1, <2>4, GoOnStep
  <1>3. CASE LockEnrollment(r)
    <2> DEFINE q == [req[r] EXCEPT !.at = "flush"]
    <2>1. UNCHANGED db /\ req[r].at = "lock" /\ req' = [req EXCEPT ![r] = q]
      BY <1>0, <1>3 DEF LockEnrollment
    <2>2. /\ q \in Request /\ q.at # "commit"
          /\ q.enrollment = req[r].enrollment /\ q.lesson = req[r].lesson
      BY <1>0 DEF Request, Stage
    <2>3. QED  BY <1>0, <2>1, <2>2, GoOnStep
  <1>4. CASE Flush(r)
    <2> DEFINE next == IF Recomputes(req[r]) THEN "total" ELSE "commit"
               q    == [req[r] EXCEPT !.at = next]
    <2>1. CASE UNCHANGED db /\ Finish(r)
      BY <2>1, EndStep
    <2>2. CASE UNCHANGED db /\ req[r].at = "flush" /\ req' = [req EXCEPT ![r] = q]
      <3>1. next \in Stage /\ (next = "commit" => ~Recomputes(req[r]))
        BY DEF Stage
      <3>2. /\ q \in Request /\ q.at = next
            /\ q.enrollment = req[r].enrollment /\ q.lesson = req[r].lesson
            /\ q.kind = req[r].kind /\ q.row = req[r].row /\ q.want = req[r].want
        <4> HIDE DEF next
        <4>1. QED  BY <1>0, <3>1 DEF Request
      <3>3. Recomputes(q) = Recomputes(req[r])
        BY <3>2 DEF Recomputes, Written
      <3>4. q.at # "commit" \/ ~Recomputes(q)
        <4> HIDE DEF next, q
        <4>1. QED  BY <3>1, <3>2, <3>3
      <3>5. q.lesson \in Lesson
        BY <1>0, <2>2, <3>2
      <3>6. QED
        <4> HIDE DEF q
        <4>1. QED  BY <2>2, <3>2, <3>4, <3>5, GoOnStep
    <2>3. QED  BY <1>4, <2>1, <2>2 DEF Flush
  <1>5. CASE CountLessons(r)
    <2> DEFINE q == [req[r] EXCEPT !.total = Cardinality(Live), !.at = "completed"]
    <2>1. UNCHANGED db /\ req[r].at = "total" /\ req' = [req EXCEPT ![r] = q]
      BY <1>0, <1>5 DEF CountLessons
    <2>2. Cardinality(Live) \in Nat
      BY CountsAreNat DEF Live
    <2>3. /\ q \in Request /\ q.at # "commit"
          /\ q.enrollment = req[r].enrollment /\ q.lesson = req[r].lesson
      BY <1>0, <2>2 DEF Request, Stage
    <2>4. QED  BY <1>0, <2>1, <2>3, GoOnStep
  <1>6. CASE CountCompleted(r)
    <2> DEFINE count == Cardinality({l \in Lesson : Seen(req[r], l) = "done"})
               at    == IF Certifies(req[r], count) THEN "certify" ELSE "commit"
               q     == [req[r] EXCEPT !.count = count, !.at = at]
    <2>1. UNCHANGED db /\ req[r].at = "completed" /\ req' = [req EXCEPT ![r] = q]
      BY <1>0, <1>6 DEF CountCompleted
    <2>2. count \in Nat
      BY CountsAreNat
    <2>3. at \in Stage /\ (at = "commit" => ~Certifies(req[r], count))
      BY DEF Stage
    <2> HIDE DEF count, at
    <2>4. /\ q \in Request /\ q.at = at
          /\ q.at # "idle" => q.lesson \in Lesson
          /\ q.enrollment = req[r].enrollment /\ q.lesson = req[r].lesson
          /\ q.total = req[r].total /\ q.count = count
      BY <1>0, <2>1, <2>2, <2>3 DEF Request
    <2>5. q.at = "commit" /\ Finishes(q.count, q.total) => q.enrollment.completed
      BY <2>3, <2>4 DEF Certifies
    <2>6. BeliefCertified(q)
      BY <1>0, <2>1, <2>4, <2>5 DEF BeliefCertified
    <2>7. QED
      <3> HIDE DEF q
      <3>1. QED  BY <2>1, <2>4, <2>6, RequestStep
  <1>7. CASE Certify(r)
    <2> DEFINE q == [req[r] EXCEPT !.issue = NoneIssued, !.at = "commit"]
    <2>1. UNCHANGED db /\ req[r].at = "certify" /\ req' = [req EXCEPT ![r] = q]
      BY <1>0, <1>7 DEF Certify
    <2>2. /\ q \in Request /\ q.issue = NoneIssued
          /\ q.enrollment = req[r].enrollment /\ q.lesson = req[r].lesson
      BY <1>0 DEF Request, Stage, NoneIssued
    <2>3. q.issue \/ certificates > 0
      <3> HIDE DEF q
      <3>1. CASE certificates = 0
        BY <2>2, <3>1 DEF NoneIssued
      <3>2. CASE certificates # 0
        BY <3>2 DEF IInv, TypeOK
      <3>3. QED  BY <3>1, <3>2
    <2>4. BeliefCertified(q)
      BY <1>0, <2>1, <2>2, <2>3 DEF BeliefCertified
    <2>5. QED
      <3> HIDE DEF q
      <3>1. QED  BY <2>1, <2>2, <2>4, RequestStep
  <1>8. QED  BY <1>1, <1>2, <1>3, <1>4, <1>5, <1>6, <1>7

\* Nothing is believed at the start.
LEMMA InitIInv == Init => IInv
  <1> SUFFICES ASSUME Init PROVE IInv
    OBVIOUS
  <1>1. TypeOK
    BY IdleOK DEF Init, TypeOK, LessonState, ProgressRow, Enrollment
  <1>2. CompletedIsCertified /\ BeliefsCertified
    BY IdleOK DEF Init, CompletedIsCertified, BeliefsCertified
  <1>3. QED  BY <1>1, <1>2 DEF IInv

\* Every step keeps the invariant.
LEMMA NextIInv == IInv /\ [Next]_vars => IInv'
  <1> SUFFICES ASSUME IInv, [Next]_vars PROVE IInv'
    OBVIOUS
  <1>1. CASE UNCHANGED vars
    BY <1>1 DEF vars, IInv, TypeOK, CompletedIsCertified, BeliefsCertified,
                BeliefCertified, Finishes, Recomputes, Written
  <1>2. ASSUME NEW r \in Req, NEW l \in Lesson, NEW w \in Want, NEW k \in Kind,
               Call(r, k, l, w)
        PROVE  IInv'
    BY <1>2, HandlerStep
  <1>3. ASSUME NEW r \in Req, Continue(r)
        PROVE  IInv'
    <2>1. CASE LoadProgress(r) \/ LockEnrollment(r) \/ Flush(r)
               \/ CountLessons(r) \/ CountCompleted(r) \/ Certify(r)
      BY <2>1, HandlerStep
    <2>2. CASE Commit(r)
      BY <2>2, CommitStep
    <2>3. ASSUME NEW s \in Req, BreakDeadlock(r, s)
          PROVE  IInv'
      <3>1. UNCHANGED db /\ (Finish(r) \/ Finish(s))
        BY <2>3 DEF BreakDeadlock
      <3>2. QED  BY <3>1, EndStep
    <2>4. QED  BY <1>3, <2>1, <2>2, <2>3 DEF Continue
  <1>4. ASSUME NEW r \in Req, Abort(r)
        PROVE  IInv'
    <2>1. UNCHANGED db /\ Finish(r)
      BY <1>4 DEF Abort
    <2>2. QED  BY <2>1, EndStep
  <1>5. ASSUME NEW r \in Req, NEW l \in Lesson, CreateLesson(r, l) \/ DeleteLesson(r, l)
        PROVE  IInv'
    BY <1>5, AuthoringStep
  <1>6. QED  BY <1>1, <1>2, <1>3, <1>4, <1>5 DEF Next

\* The invariant holds in every reachable state.
THEOREM Invariance == Spec => []IInv
  BY InitIInv, NextIInv, PTL DEF Spec

\* Rows and requests keep their types: in particular the percentage stored is
\* one the column's CHECK admits, for any number of lessons.
THEOREM TypeCorrect == Spec => []TypeOK
  <1>1. IInv => TypeOK
    BY DEF IInv
  <1>2. QED  BY Invariance, <1>1, PTL

\* A completed enrollment has a certificate, for any number of lessons and
\* requests, whichever of them overlap and whatever they loaded before.
THEOREM CompletionsAreCertified == Spec => []CompletedIsCertified
  <1>1. IInv => CompletedIsCertified
    BY DEF IInv
  <1>2. QED  BY Invariance, <1>1, PTL

-----------------------------------------------------------------------------
(* The cards on file *)

\* A call has its card; an addition has the rows it will demote and the default
\* cards that it will miss.
CardOK(q) ==
    /\ q.seen \subseteq C!Rows
    /\ q.at # "idle" => q.token \in Token
    /\ q.at \in {"verify", "remove"} => q.token \in C!Rows
    /\ q.at = "insert" /\ ~q.default => q.seen = {}
    /\ q.at \in {"demote", "wait"} => q.default
    /\ q.at \in {"wait", "insert"} /\ q.default => C!Default \ q.seen \subseteq q.met

CardInv ==
    /\ C!TypeOK /\ C!OneDefault
    /\ \A r \in Req : CardOK(cardReq[r])

LEMMA CardIdleOK ==
  /\ C!Idle \in C!Request /\ CardOK(C!Idle)
  BY DEF C!Idle, C!Request, CardOK

LEMMA CardInitIInv ==
  ASSUME C!CardsConstants, C!Init
  PROVE  CardInv
  BY CardIdleOK DEF C!Init, CardInv, C!TypeOK, C!OneDefault, C!Default, C!Rows, C!CardsConstants

\* A step of the call r that leaves every card in place and as much of a default
\* as it was.
LEMMA CardCallStep ==
  ASSUME C!CardsConstants, CardInv, NEW r \in Req, NEW q \in C!Request, CardOK(q),
         cardReq' = [cardReq EXCEPT ![r] = q], card' \in [Token -> C!Row \cup {None}],
         C!Rows' = C!Rows, C!Default' = C!Default, UNCHANGED <<newest, crossed>>
  PROVE  CardInv'
  <1>1. cardReq' \in [Req -> C!Request]
    BY DEF CardInv, C!TypeOK
  <1>2. ASSUME NEW s \in Req
        PROVE  CardOK(cardReq[s])'
    <2> DEFINE p == cardReq'[s]
    <2>1. CardOK(p)
      BY DEF CardInv, C!TypeOK
    <2> HIDE DEF p
    <2>2. CardOK(p) => /\ p.seen \subseteq C!Rows'
                       /\ p.at # "idle" => p.token \in Token
                       /\ p.at \in {"verify", "remove"} => p.token \in C!Rows'
                       /\ p.at = "insert" /\ ~p.default => p.seen = {}
                       /\ p.at \in {"demote", "wait"} => p.default
                       /\ p.at \in {"wait", "insert"} /\ p.default =>
                             C!Default' \ p.seen \subseteq p.met
      BY DEF CardOK
    <2>3. QED  BY <2>1, <2>2 DEF CardOK, p
  <1>3. QED  BY <1>1, <1>2 DEF CardInv, C!TypeOK, C!OneDefault

\* A step of the call r that leaves the table alone.
LEMMA CardReadStep ==
  ASSUME C!CardsConstants, CardInv, NEW r \in Req, NEW q \in C!Request, CardOK(q),
         cardReq' = [cardReq EXCEPT ![r] = q], UNCHANGED C!table
  PROVE  CardInv'
  <1>1. UNCHANGED <<card, newest, crossed>>
    BY DEF C!table
  <1>2. C!Rows' = C!Rows /\ C!Default' = C!Default
    BY <1>1 DEF C!Rows, C!Default
  <1>3. card' \in [Token -> C!Row \cup {None}]
    BY <1>1 DEF CardInv, C!TypeOK
  <1>4. QED  BY <1>1, <1>2, <1>3, CardCallStep

-----------------------------------------------------------------------------
(* create_payment_method *)

LEMMA CardCreateStep ==
  ASSUME C!CardsConstants, CardInv, NEW r \in Req, NEW t \in Token,
         NEW default \in BOOLEAN, NEW verified \in BOOLEAN,
         C!CreatePaymentMethod(r, t, default, verified)
  PROVE  CardInv'
  <1> DEFINE q == [C!Idle EXCEPT !.at = IF default THEN "demote" ELSE "insert",
                               !.token = t, !.default = default, !.verified = verified]
  <1>1. /\ q \in C!Request /\ q.seen = {} /\ q.token = t
        /\ q.at = IF default THEN "demote" ELSE "insert"
        /\ q.default <=> default
    BY DEF C!Idle, C!Request
  <1>2. cardReq' = [cardReq EXCEPT ![r] = q] /\ UNCHANGED C!table
    BY DEF C!CreatePaymentMethod, C!Begin
  <1> HIDE DEF q
  <1>3. CardOK(q)
    BY <1>1 DEF CardOK
  <1>4. QED  BY <1>1, <1>2, <1>3, CardReadStep

LEMMA CardStartStep ==
  ASSUME C!CardsConstants, CardInv, NEW r \in Req, C!StartDemotion(r)
  PROVE  CardInv'
  <1> DEFINE q == [cardReq[r] EXCEPT !.at = "wait", !.seen = C!Rows]
  <1>1. cardReq[r] \in C!Request /\ CardOK(cardReq[r]) /\ cardReq[r].at = "demote"
    BY DEF CardInv, C!TypeOK, C!StartDemotion
  <1>2. q \in C!Request /\ q.seen = C!Rows /\ q.at = "wait" /\ (q.default <=> cardReq[r].default)
        /\ q.token = cardReq[r].token
    BY <1>1 DEF C!Request, C!Rows
  <1>3. cardReq' = [cardReq EXCEPT ![r] = q] /\ UNCHANGED C!table
    BY <1>1 DEF C!StartDemotion, CardInv, C!TypeOK
  <1>4. cardReq[r].default
    BY <1>1 DEF CardOK
  <1> HIDE DEF q
  <1>5. CardOK(q)
    BY <1>1, <1>2, <1>4 DEF CardOK, C!Default
  <1>6. QED  BY <1>2, <1>3, <1>5, CardReadStep

LEMMA CardLockStep ==
  ASSUME C!CardsConstants, CardInv, NEW r \in Req, C!LockRows(r)
  PROVE  CardInv'
  <1> DEFINE q == [cardReq[r] EXCEPT !.at = "insert"]
  <1>1. cardReq[r] \in C!Request /\ CardOK(cardReq[r]) /\ cardReq[r].at = "wait"
    BY DEF CardInv, C!TypeOK, C!LockRows
  <1>2. /\ q \in C!Request /\ q.seen = cardReq[r].seen /\ q.met = cardReq[r].met /\ q.at = "insert"
        /\ q.token = cardReq[r].token
        /\ q.default <=> cardReq[r].default
    BY <1>1 DEF C!Request
  <1>3. cardReq' = [cardReq EXCEPT ![r] = q] /\ UNCHANGED C!table
    BY <1>1 DEF C!LockRows, CardInv, C!TypeOK
  <1> HIDE DEF q
  <1>4. CardOK(q)
    BY <1>1, <1>2 DEF CardOK
  <1>5. QED  BY <1>2, <1>3, <1>4, CardReadStep

\* A call that ends without writing.
LEMMA CardFinishStep ==
  ASSUME C!CardsConstants, CardInv, NEW r \in Req, C!Finish(r), UNCHANGED C!table
  PROVE  CardInv'
  BY CardIdleOK, CardReadStep DEF C!Finish

\* The card that is inserted becomes the one default, but for those it missed.
LEMMA CardInsertStep ==
  ASSUME C!CardsConstants, CardInv, NEW r \in Req, C!InsertCard(r), cardReq[r].token \notin C!Rows
  PROVE  CardInv'
  <1> DEFINE q == cardReq[r]
             row == [default |-> q.default, verified |-> q.verified, revoked |-> FALSE]
             stored == [card EXCEPT ![q.token] = row]
  <1>1. q \in C!Request /\ CardOK(q) /\ q.at = "insert" /\ q.token \in Token \cup {None}
    BY DEF CardInv, C!TypeOK, C!InsertCard, C!Request
  <1>2. /\ card' = [t \in Token |->
              IF t \in C!Demoted(q) THEN [stored[t] EXCEPT !.default = FALSE] ELSE stored[t]]
        /\ newest' = IF q.default THEN q.token ELSE newest
        /\ crossed' = crossed \cup {{q.token, t} : t \in q.met}
        /\ cardReq' = [s \in Req |->
              IF s = r THEN C!Idle
              ELSE IF q.default THEN C!Missed(cardReq[s], q.token) ELSE cardReq[s]]
    BY DEF C!InsertCard
  <1>3. row \in C!Row /\ (row.default <=> q.default)
    BY <1>1 DEF C!Row, C!Request
  <1>4. /\ q.token \in Token /\ C!Demoted(q) = q.seen /\ q.seen \subseteq C!Rows
        /\ q.token \notin q.seen /\ C!Rows \subseteq Token
    BY <1>1 DEF C!Demoted, CardOK, C!Rows
  <1> HIDE DEF row
  <1>5. \A t \in Token : /\ t = q.token => card'[t] = row
                         /\ t \in q.seen => card'[t] = [card[t] EXCEPT !.default = FALSE]
                         /\ t \notin q.seen \cup {q.token} => card'[t] = card[t]
    <2>1. card \in [Token -> C!Row \cup {None}]
      BY DEF CardInv, C!TypeOK
    <2>2. \A t \in Token : stored[t] = IF t = q.token THEN row ELSE card[t]
      BY <2>1
    <2> HIDE DEF stored
    <2>3. QED  BY <1>2, <1>4, <2>2
  <1>6. \A t \in q.seen : card'[t] \in C!Row /\ ~card'[t].default
    <2> SUFFICES ASSUME NEW t \in q.seen
                 PROVE  card'[t] \in C!Row /\ ~card'[t].default
      OBVIOUS
    <2>1. card[t] \in C!Row /\ card'[t] = [card[t] EXCEPT !.default = FALSE]
      BY <1>4, <1>5 DEF CardInv, C!TypeOK, C!Rows
    <2>2. QED  BY <2>1 DEF C!Row
  <1>7. card' \in [Token -> C!Row \cup {None}]
    <2>1. ASSUME NEW t \in Token
          PROVE  card'[t] \in C!Row \cup {None}
      <3>1. card[t] \in C!Row \cup {None}
        BY DEF CardInv, C!TypeOK
      <3>2. QED  BY <1>3, <1>5, <1>6, <3>1
    <2>2. QED  BY <1>2, <2>1
  <1>8. C!Rows' = C!Rows \cup {q.token}
    <2> SUFFICES ASSUME NEW t \in Token
                 PROVE  card'[t] # None <=> card[t] # None \/ t = q.token
      BY <1>4 DEF C!Rows
    <2>1. CASE t = q.token
      BY <1>3, <1>5, <2>1 DEF C!CardsConstants
    <2>2. CASE t \in q.seen
      BY <1>4, <1>6, <2>2 DEF C!Rows, C!CardsConstants
    <2>3. CASE t \notin q.seen \cup {q.token}
      BY <1>5, <2>3
    <2>4. QED  BY <2>1, <2>2, <2>3
  <1>9. C!Default' = (C!Default \ q.seen) \cup (IF q.default THEN {q.token} ELSE {})
    <2> SUFFICES ASSUME NEW t \in Token
                 PROVE  t \in C!Default' <=>
                            t \in C!Default \ q.seen \/ (q.default /\ t = q.token)
      BY <1>4, <1>8 DEF C!Default, C!Rows
    <2>1. t \in C!Default' <=> t \in C!Rows' /\ card'[t].default
      BY DEF C!Default
    <2>2. t \in C!Default <=> t \in C!Rows /\ card[t].default
      BY DEF C!Default
    <2>3. CASE t = q.token
      BY <1>3, <1>5, <1>8, <2>1, <2>2, <2>3
    <2>4. CASE t \in q.seen
      BY <1>4, <1>6, <2>1, <2>2, <2>4
    <2>5. CASE t \notin q.seen \cup {q.token}
      BY <1>5, <1>8, <2>1, <2>2, <2>5
    <2>6. QED  BY <2>3, <2>4, <2>5
  <1>10. q.default => C!Default \ q.seen \subseteq q.met
    BY <1>1 DEF CardOK
  <1>11. ~q.default => q.seen = {}
    BY <1>1 DEF CardOK
  <1>12. ASSUME NEW s \in Req
         PROVE  cardReq'[s] \in C!Request /\ CardOK(cardReq[s])'
    <2>1. CASE s = r
      BY <1>2, <2>1, CardIdleOK DEF CardOK, C!Idle
    <2>2. CASE s # r /\ cardReq'[s] = cardReq[s] /\ (q.default => cardReq[s].at \notin {"wait", "insert"} \/ ~cardReq[s].default)
      <3> DEFINE p == cardReq[s]
      <3>1. p \in C!Request /\ CardOK(p)
        BY DEF CardInv, C!TypeOK
      <3>2. CardOK(p) => CardOK(p)'
        BY <1>8, <1>9, <2>2 DEF CardOK
      <3>3. QED  BY <2>2, <3>1, <3>2
    <2>3. CASE s # r /\ q.default /\ cardReq[s].at \in {"wait", "insert"} /\ cardReq[s].default
      <3> DEFINE p == [cardReq[s] EXCEPT !.met = @ \cup {q.token}]
      <3>1. cardReq[s] \in C!Request /\ CardOK(cardReq[s])
        BY DEF CardInv, C!TypeOK
      <3>2. cardReq'[s] = p
        BY <1>2, <2>3 DEF C!Missed
      <3>3. /\ p \in C!Request /\ p.met = cardReq[s].met \cup {q.token} /\ p.seen = cardReq[s].seen
            /\ p.at = cardReq[s].at /\ (p.default <=> cardReq[s].default) /\ p.token = cardReq[s].token
        BY <1>4, <3>1 DEF C!Request
      <3> HIDE DEF p
      <3>4. /\ p.seen \subseteq C!Rows'
            /\ p.at # "idle" => p.token \in Token
            /\ p.at \in {"verify", "remove"} => p.token \in C!Rows'
            /\ p.at = "insert" /\ ~p.default => p.seen = {}
            /\ p.at \in {"demote", "wait"} => p.default
            /\ p.at \in {"wait", "insert"} /\ p.default => C!Default' \ p.seen \subseteq p.met
        BY <1>8, <1>9, <2>3, <3>1, <3>3 DEF CardOK
      <3>5. QED  BY <3>2, <3>3, <3>4 DEF CardOK
    <2>4. QED  BY <1>2, <2>1, <2>2, <2>3 DEF C!Missed
  <1>13. C!TypeOK'
    <2>1. cardReq' \in [Req -> C!Request]
      BY <1>2, <1>12
    <2>2. newest' \in Token \cup {None} /\ crossed' \subseteq {{t, u} : t, u \in Token}
      BY <1>1, <1>2, <1>4 DEF CardInv, C!TypeOK, C!Request
    <2>3. QED  BY <1>7, <2>1, <2>2 DEF C!TypeOK
  <1>14. newest' \in C!Default' \cup {None}
    BY <1>2, <1>9, <1>11 DEF CardInv, C!OneDefault
  <1>15. ASSUME NEW t \in C!Default', NEW u \in C!Default', t # u
         PROVE  {t, u} \in crossed'
    <2>1. CASE t \in C!Default /\ u \in C!Default
      BY <1>2, <1>15, <2>1 DEF CardInv, C!OneDefault
    <2>2. CASE q.default /\ t = q.token /\ u \in C!Default \ q.seen
      BY <1>2, <1>10, <2>2
    <2>3. CASE q.default /\ u = q.token /\ t \in C!Default \ q.seen
      <3>1. {q.token, t} \in crossed'
        BY <1>2, <1>10, <2>3
      <3>2. {t, u} = {q.token, t}
        BY <2>3
      <3>3. QED  BY <3>1, <3>2
    <2>4. QED  BY <1>9, <1>15, <2>1, <2>2, <2>3
  <1>16. QED  BY <1>12, <1>13, <1>14, <1>15 DEF CardInv, C!OneDefault

-----------------------------------------------------------------------------
(* Verification and removal *)

\* A write to a card on file that leaves its mark as the default alone.
LEMMA CardMarkStep ==
  ASSUME C!CardsConstants, CardInv, NEW r \in Req, NEW t \in Token, NEW row \in C!Row,
         t \in C!Rows, row.default <=> card[t].default,
         card' = [card EXCEPT ![t] = row], C!Finish(r), UNCHANGED <<newest, crossed>>
  PROVE  CardInv'
  <1>1. card' \in [Token -> C!Row \cup {None}] /\ card'[t] = row
    BY DEF CardInv, C!TypeOK
  <1>2. \A u \in Token \ {t} : card'[u] = card[u]
    BY DEF CardInv, C!TypeOK
  <1>3. C!Rows' = C!Rows
    BY <1>1, <1>2 DEF C!Rows, C!CardsConstants
  <1>4. C!Default' = C!Default
    BY <1>1, <1>2, <1>3 DEF C!Default, C!Rows
  <1>5. QED  BY <1>1, <1>3, <1>4, CardIdleOK, CardCallStep DEF C!Finish

LEMMA CardConfirmStep ==
  ASSUME C!CardsConstants, CardInv, NEW r \in Req, NEW t \in Token, C!ConfirmCardVerification(r, t)
  PROVE  CardInv'
  <1> DEFINE q == [C!Idle EXCEPT !.at = "verify", !.token = t]
  <1>1. /\ q \in C!Request /\ q.seen = {} /\ q.at = "verify" /\ q.token = t
    BY DEF C!Idle, C!Request
  <1>2. cardReq' = [cardReq EXCEPT ![r] = q] /\ UNCHANGED C!table /\ t \in C!Rows
    BY DEF C!ConfirmCardVerification, C!Begin, C!OnFile
  <1> HIDE DEF q
  <1>3. CardOK(q)
    BY <1>1, <1>2 DEF CardOK
  <1>4. QED  BY <1>1, <1>2, <1>3, CardReadStep

LEMMA CardDeleteStep ==
  ASSUME C!CardsConstants, CardInv, NEW r \in Req, NEW t \in Token, C!DeletePaymentMethod(r, t)
  PROVE  CardInv'
  <1> DEFINE q == [C!Idle EXCEPT !.at = "remove", !.token = t]
  <1>1. /\ q \in C!Request /\ q.seen = {} /\ q.at = "remove" /\ q.token = t
    BY DEF C!Idle, C!Request
  <1>2. cardReq' = [cardReq EXCEPT ![r] = q] /\ UNCHANGED C!table /\ t \in C!Rows
    BY DEF C!DeletePaymentMethod, C!Begin, C!OnFile
  <1> HIDE DEF q
  <1>3. CardOK(q)
    BY <1>1, <1>2 DEF CardOK
  <1>4. QED  BY <1>1, <1>2, <1>3, CardReadStep

LEMMA CardVerifiedStep ==
  ASSUME C!CardsConstants, CardInv, NEW r \in Req, C!MarkVerified(r)
  PROVE  CardInv'
  <1> DEFINE t   == cardReq[r].token
             row == [card[t] EXCEPT !.verified = TRUE]
  <1>1. t \in C!Rows /\ t \in Token /\ card[t] \in C!Row
    BY DEF C!MarkVerified, CardInv, C!TypeOK, CardOK, C!Rows
  <1>2. row \in C!Row /\ (row.default <=> card[t].default)
    BY <1>1 DEF C!Row
  <1>3. card' = [card EXCEPT ![t] = row] /\ C!Finish(r) /\ UNCHANGED <<newest, crossed>>
    BY <1>1 DEF C!MarkVerified, CardInv, C!TypeOK
  <1> HIDE DEF t, row
  <1>4. QED  BY <1>1, <1>2, <1>3, CardMarkStep

LEMMA CardRevokedStep ==
  ASSUME C!CardsConstants, CardInv, NEW r \in Req, C!MarkRevoked(r)
  PROVE  CardInv'
  <1> DEFINE t   == cardReq[r].token
             row == [card[t] EXCEPT !.revoked = TRUE]
  <1>1. t \in C!Rows /\ t \in Token /\ card[t] \in C!Row
    BY DEF C!MarkRevoked, CardInv, C!TypeOK, CardOK, C!Rows
  <1>2. row \in C!Row /\ (row.default <=> card[t].default)
    BY <1>1 DEF C!Row
  <1>3. card' = [card EXCEPT ![t] = row] /\ C!Finish(r) /\ UNCHANGED <<newest, crossed>>
    BY <1>1 DEF C!MarkRevoked, CardInv, C!TypeOK
  <1> HIDE DEF t, row
  <1>4. QED  BY <1>1, <1>2, <1>3, CardMarkStep

-----------------------------------------------------------------------------
LEMMA CardNextIInv ==
  ASSUME C!CardsConstants, CardInv, [C!Next]_(C!vars)
  PROVE  CardInv'
  <1>1. CASE UNCHANGED C!vars
    BY <1>1 DEF C!vars, C!table, CardInv, C!TypeOK, C!OneDefault, CardOK, C!Default, C!Rows
  <1>2. ASSUME NEW r \in Req, C!Handle(r)
        PROVE  CardInv'
    <2>1. ASSUME NEW t \in Token, NEW default \in BOOLEAN, NEW verified \in BOOLEAN,
                 C!CreatePaymentMethod(r, t, default, verified)
          PROVE  CardInv'
      BY <2>1, CardCreateStep
    <2>2. ASSUME NEW t \in Token, C!ConfirmCardVerification(r, t)
          PROVE  CardInv'
      BY <2>2, CardConfirmStep
    <2>3. ASSUME NEW t \in Token, C!DeletePaymentMethod(r, t)
          PROVE  CardInv'
      BY <2>3, CardDeleteStep
    <2>4. CASE C!StartDemotion(r)
      BY <2>4, CardStartStep
    <2>5. CASE C!LockRows(r)
      BY <2>5, CardLockStep
    <2>6. CASE C!InsertCard(r)
      <3>1. CASE cardReq[r].token \in C!Rows
        BY <2>6, <3>1, CardFinishStep DEF C!InsertCard
      <3>2. CASE cardReq[r].token \notin C!Rows
        BY <2>6, <3>2, CardInsertStep
      <3>3. QED  BY <3>1, <3>2
    <2>7. CASE C!MarkVerified(r)
      BY <2>7, CardVerifiedStep
    <2>8. CASE C!MarkRevoked(r)
      BY <2>8, CardRevokedStep
    <2>9. CASE C!Abort(r)
      BY <2>9, CardFinishStep DEF C!Abort
    <2>10. QED
      BY <1>2, <2>1, <2>2, <2>3, <2>4, <2>5, <2>6, <2>7, <2>8, <2>9 DEF C!Handle
  <1>3. QED  BY <1>1, <1>2 DEF C!Next

\* The invariant holds in every reachable state.
LEMMA CardInvariance == ASSUME C!CardsConstants PROVE C!Spec => []CardInv
  <1>1. C!Init => CardInv
    BY CardInitIInv
  <1>2. CardInv /\ [C!Next]_(C!vars) => CardInv'
    BY CardNextIInv
  <1>3. QED  BY <1>1, <1>2, PTL DEF C!Spec

-----------------------------------------------------------------------------
(* The rate limiter *)

LEMMA SameCardinality == \A S : L!Cardinality(S) = Cardinality(S)
  BY DEF L!Cardinality, Cardinality

\* A counted call was made before now and the key outlives its window; if the
\* sorted set has dropped it, the window has passed, by the clock or for a call
\* counted since.
CallCounted(n) ==
    /\ n <= clock /\ n + Window + 1 <= expires
    /\ n \notin bucket => n + Window + 1 <= clock \/ \E m \in called : n + Window <= m

LimitInv ==
    /\ L!TypeOK /\ L!LimitHolds /\ L!RefusalIsEarned
    /\ \A n \in called : CallCounted(n)
    /\ \A r \in Req : open[r] # None => open[r] <= clock

\* Sets of instants are finite.
LEMMA TimesAreFinite ==
  ASSUME NEW S \in SUBSET L!Time
  PROVE  IsFiniteSet(S) /\ Cardinality(S) \in Nat
  <1>1. IsFiniteSet(0 .. MaxTime)
    BY LimitHasConstants, FS_Interval DEF L!RateLimitConstants
  <1>2. IsFiniteSet(S)
    BY <1>1, FS_Subset DEF L!Time
  <1>3. QED  BY <1>2, FS_CardinalityType

LEMMA LimitInitInv == L!Init => LimitInv
  <1> SUFFICES ASSUME L!Init
               PROVE  LimitInv
    OBVIOUS
  <1>1. L!TypeOK
    BY LimitHasConstants DEF L!Init, L!TypeOK, L!Time, L!RateLimitConstants
  <1>2. \A now : L!Recent({}, now) = {}
    BY DEF L!Recent
  <1>3. L!LimitHolds
    BY <1>2, LimitHasConstants, SameCardinality, FS_EmptySet
       DEF L!Init, L!LimitHolds, L!RateLimitConstants
  <1>4. QED
    BY <1>1, <1>3 DEF L!Init, LimitInv, L!RefusalIsEarned

\* The counts are untouched while the clock ticks and calls begin.
LEMMA TickStep ==
  ASSUME LimitInv, L!Tick
  PROVE  LimitInv'
  <1>1. L!TypeOK'
    BY LimitHasConstants DEF LimitInv, L!Tick, L!TypeOK, L!Time, L!RateLimitConstants
  <1>2. clock \in Nat /\ clock' = clock + 1 /\ called \subseteq Nat
    BY DEF LimitInv, L!Tick, L!TypeOK, L!Time
  <1>3. \A r \in Req : open[r] # None => open[r] \in Nat
    BY DEF LimitInv, L!TypeOK, L!Time
  <1>4. (\A n \in called : CallCounted(n))'
    <2> SUFFICES ASSUME NEW n \in called
                 PROVE  CallCounted(n)'
      BY DEF L!Tick
    <2>1. QED
      BY <1>2, LimitHasConstants DEF LimitInv, L!Tick, CallCounted, L!RateLimitConstants
  <1>5. QED
    BY <1>1, <1>2, <1>3, <1>4
       DEF LimitInv, L!Tick, L!LimitHolds, L!RefusalIsEarned, L!Recent, L!Time

LEMMA OpenStep ==
  ASSUME LimitInv, NEW r \in Req, NEW q \in L!Time \cup {None}, q # None => q <= clock,
         open' = [open EXCEPT ![r] = q],
         UNCHANGED <<clock, bucket, expires, called, admitted, refused>>
  PROVE  LimitInv'
  BY DEF LimitInv, L!TypeOK, L!LimitHolds, L!RefusalIsEarned, L!Recent, CallCounted, L!Time

-----------------------------------------------------------------------------
(* The pipeline reaches Redis *)

\* The set after the commands, and what it means of the calls it has dropped.
LEMMA ExecuteCounts ==
  ASSUME LimitInv, NEW now \in L!Time, now <= clock, L!Execute(now), UNCHANGED clock
  PROVE  /\ bucket' \subseteq called' /\ called' \subseteq L!Time
         /\ expires' \in 0 .. MaxTime + Window + 1
         /\ \A n \in called' : CallCounted(n)'
  <1>1. /\ bucket \subseteq called /\ called \subseteq L!Time /\ clock \in L!Time
        /\ bucket' = L!Kept(now) \cup {now} /\ called' = called \cup {now}
        /\ expires' = clock + Window + 1 /\ clock' = clock
        /\ Window \in Nat /\ MaxTime \in Nat
    BY LimitHasConstants DEF LimitInv, L!TypeOK, L!Execute, L!RateLimitConstants
  <1>2. L!Kept(now) \subseteq bucket
    BY DEF L!Kept
  <1>3. expires' \in 0 .. MaxTime + Window + 1
    BY <1>1 DEF L!Time
  <1>4. ASSUME NEW n \in called'
        PROVE  CallCounted(n)'
    <2>1. n \in Nat /\ clock \in Nat /\ now \in Nat /\ expires \in Nat
      BY <1>1 DEF L!Time, LimitInv, L!TypeOK
    <2>2. n <= clock /\ n + Window + 1 <= expires'
      BY <1>1, <2>1 DEF LimitInv, CallCounted
    <2>3. CASE n \in bucket'
      BY <1>1, <2>2, <2>3 DEF CallCounted
    <2>4. CASE n \in called \ bucket
      <3>1. CallCounted(n)
        BY <2>4 DEF LimitInv
      <3>2. QED  BY <1>1, <2>2, <2>4, <3>1 DEF CallCounted
    <2>5. CASE n \in bucket /\ n \notin bucket'
      <3>1. n + Window + 1 <= expires
        BY <1>1, <2>5 DEF LimitInv, CallCounted
      <3>2. clock >= expires \/ ~(n + Window > now)
        BY <1>1, <2>5 DEF L!Kept
      <3>3. n + Window + 1 <= clock \/ n + Window <= now
        BY <1>1, <2>1, <3>1, <3>2
      <3>4. QED  BY <1>1, <2>2, <3>3 DEF CallCounted
    <2>6. QED  BY <1>1, <2>3, <2>4, <2>5
  <1>5. QED  BY <1>1, <1>2, <1>3, <1>4

\* A refusal stays earned: the calls counted only grow.
LEMMA RefusalsStayEarned ==
  ASSUME LimitInv, called \subseteq called', called' \subseteq L!Time,
         NEW now \in refused
  PROVE  Cardinality(L!Recent(called', now)) > Limit
  <1>1. /\ L!Recent(called, now) \subseteq L!Recent(called', now)
        /\ L!Recent(called', now) \subseteq L!Time
    BY DEF L!Recent
  <1>2. Cardinality(L!Recent(called, now)) > Limit
    BY SameCardinality DEF LimitInv, L!RefusalIsEarned
  <1>3. /\ IsFiniteSet(L!Recent(called', now))
        /\ Cardinality(L!Recent(called', now)) \in Nat
        /\ Cardinality(L!Recent(called, now)) \in Nat
    BY <1>1, TimesAreFinite
  <1>4. Cardinality(L!Recent(called, now)) <= Cardinality(L!Recent(called', now))
    BY <1>1, <1>3, FS_Subset
  <1>5. QED
    BY <1>2, <1>3, <1>4, LimitHasConstants DEF L!RateLimitConstants

\* What a call that is not late counts is its window, and no less than the calls
\* let through in it.
LEMMA KeptIsRecent ==
  ASSUME LimitInv, NEW now \in L!Time, now <= clock, ~L!Late(now)
  PROVE  /\ L!Kept(now) \subseteq L!Recent(called, now)
         /\ L!Recent(called, now) \subseteq L!Kept(now)
  <1>1. /\ bucket \subseteq called /\ called \subseteq L!Time /\ clock \in L!Time
        /\ expires \in Nat /\ Window \in Nat /\ MaxTime \in Nat
    BY LimitHasConstants DEF LimitInv, L!TypeOK, L!RateLimitConstants
  <1>2. clock <= now + 1 /\ \A n \in called : n <= now
    BY <1>1 DEF L!Late, L!Time
  <1>3. L!Kept(now) \subseteq L!Recent(called, now)
    BY <1>1, <1>2 DEF L!Kept, L!Recent
  <1>4. ASSUME NEW n \in L!Recent(called, now)
        PROVE  n \in L!Kept(now)
    <2>1. n \in called /\ n \in Nat /\ n + Window > now /\ now \in Nat /\ clock \in Nat
      BY <1>1 DEF L!Recent, L!Time
    <2>2. CallCounted(n)
      BY <2>1 DEF LimitInv
    <2>3. clock < expires
      BY <1>1, <1>2, <2>1, <2>2 DEF CallCounted
    <2>4. ~(n + Window + 1 <= clock)
      BY <1>1, <1>2, <2>1
    <2>5. ~ \E m \in called : n + Window <= m
      BY <1>1, <1>2, <2>1 DEF L!Time
    <2>6. n \in bucket
      BY <2>2, <2>4, <2>5 DEF CallCounted
    <2>7. QED  BY <1>1, <2>1, <2>3, <2>6 DEF L!Kept
  <1>5. QED  BY <1>3, <1>4

LEMMA RefusalIsCounted ==
  ASSUME LimitInv, NEW now \in L!Time, now <= clock, L!Execute(now), ~L!Late(now),
         L!Count(now) > Limit
  PROVE  Cardinality(L!Recent(called', now)) > Limit
  <1>1. /\ L!Kept(now) \subseteq L!Recent(called, now) /\ called \subseteq L!Time
        /\ called' = called \cup {now} /\ Window \in Nat \ {0} /\ Limit \in Nat
    BY KeptIsRecent, LimitHasConstants DEF LimitInv, L!TypeOK, L!Execute, L!RateLimitConstants
  <1>2. L!Recent(called, now) \cup {now} \subseteq L!Recent(called', now)
    BY <1>1 DEF L!Recent, L!Time
  <1>3. L!Recent(called', now) \subseteq L!Time
    BY <1>1 DEF L!Recent
  <1> DEFINE K == L!Kept(now) \cup {now}
             R == L!Recent(called', now)
  <1>4. K \subseteq R
    BY <1>1, <1>2
  <1>5. Cardinality(K) > Limit
    BY SameCardinality DEF L!Count
  <1>6. IsFiniteSet(R) /\ Cardinality(R) \in Nat /\ Cardinality(K) \in Nat
    BY <1>3, <1>4, TimesAreFinite
  <1> HIDE DEF K, R
  <1>7. Cardinality(K) <= Cardinality(R)
    BY <1>4, <1>6, FS_Subset
  <1>8. Cardinality(R) > Limit
    BY <1>1, <1>5, <1>6, <1>7
  <1>9. QED  BY <1>8 DEF R

LEMMA AdmissionIsCounted ==
  ASSUME LimitInv, NEW now \in L!Time, now <= clock, ~L!Late(now),
         ~(L!Count(now) > Limit), NEW w \in L!Time
  PROVE  Cardinality(L!Recent(admitted \cup {now}, w)) <= Limit
  <1>1. /\ admitted \subseteq called /\ called \subseteq L!Time
        /\ Window \in Nat \ {0} /\ Limit \in Nat /\ clock \in L!Time
    BY LimitHasConstants DEF LimitInv, L!TypeOK, L!RateLimitConstants
  <1>2. CASE w < now
    <2>1. L!Recent(admitted \cup {now}, w) = L!Recent(admitted, w)
      BY <1>1, <1>2 DEF L!Recent, L!Time
    <2>2. QED  BY <2>1, SameCardinality DEF LimitInv, L!LimitHolds
  <1>3. CASE now <= w
    <2> DEFINE K == L!Kept(now) \cup {now}
               R == L!Recent(admitted \cup {now}, w)
    <2>1. L!Kept(now) \subseteq called /\ L!Recent(called, now) \subseteq L!Kept(now)
      BY KeptIsRecent DEF LimitInv, L!TypeOK, L!Kept
    <2>2. \A n \in called : n <= now
      BY <1>1 DEF L!Late, L!Time
    <2>3. ASSUME NEW n \in R, n # now
          PROVE  n \in L!Recent(called, now)
      <3>1. n \in admitted /\ n + Window > w
        BY <2>3 DEF L!Recent
      <3>2. n \in called /\ n \in Nat /\ w \in Nat /\ now \in Nat
        BY <1>1, <3>1 DEF L!Time
      <3>3. n <= now /\ n + Window > now
        BY <1>1, <1>3, <2>2, <3>1, <3>2
      <3>4. QED  BY <3>2, <3>3 DEF L!Recent
    <2>4. R \subseteq K /\ K \subseteq L!Time
      BY <1>1, <2>1, <2>3
    <2>5. L!Count(now) = Cardinality(K)
      BY SameCardinality DEF L!Count
    <2> HIDE DEF K, R
    <2>6. IsFiniteSet(K) /\ Cardinality(K) \in Nat /\ Cardinality(R) \in Nat
      BY <2>4, TimesAreFinite
    <2>7. Cardinality(R) <= Cardinality(K)
      BY <2>4, <2>6, FS_Subset
    <2>8. Cardinality(R) <= Limit
      BY <1>1, <2>5, <2>6, <2>7
    <2>9. QED  BY <2>8 DEF R
  <1>4. QED  BY <1>1, <1>2, <1>3 DEF L!Time

\* A step that executes the pipeline keeps the invariant if what it lets through
\* fits the limit and what it refuses exceeds it.
LEMMA ExecuteStep ==
  ASSUME LimitInv, NEW r \in Req, open[r] # None, L!Execute(open[r]),
         open' = [open EXCEPT ![r] = None], UNCHANGED clock,
         admitted' \in SUBSET called', refused' \in SUBSET called',
         \A w \in L!Time : Cardinality(L!Recent(admitted', w)) <= Limit,
         \A n \in refused' : n \in refused \/ Cardinality(L!Recent(called', n)) > Limit
  PROVE  LimitInv'
  <1>1. open[r] \in L!Time /\ open[r] <= clock
    BY DEF LimitInv, L!TypeOK
  <1>2. /\ bucket' \subseteq called' /\ called' \subseteq L!Time
        /\ expires' \in 0 .. MaxTime + Window + 1
        /\ \A n \in called' : CallCounted(n)'
    BY <1>1, ExecuteCounts
  <1>3. open' \in [Req -> L!Time \cup {None}]
    BY DEF LimitInv, L!TypeOK
  <1>4. L!TypeOK'
    BY <1>2, <1>3 DEF LimitInv, L!TypeOK, L!Time
  <1>5. called \subseteq called'
    BY DEF L!Execute
  <1>6. L!RefusalIsEarned'
    BY <1>2, <1>5, RefusalsStayEarned, SameCardinality DEF L!RefusalIsEarned, L!Recent
  <1>7. L!LimitHolds'
    BY SameCardinality DEF L!LimitHolds, L!Recent, L!Time
  <1>8. (\A s \in Req : open[s] # None => open[s] <= clock)'
    BY DEF LimitInv, L!TypeOK
  <1>9. QED  BY <1>2, <1>4, <1>6, <1>7, <1>8 DEF LimitInv

LEMMA CheckStep ==
  ASSUME LimitInv, NEW r \in Req, L!CheckLimit(r)
  PROVE  LimitInv'
  <1> DEFINE now == open[r]
  <1>1. /\ now # None /\ L!Execute(now) /\ UNCHANGED clock
        /\ open' = [open EXCEPT ![r] = None]
        /\ IF L!Late(now) THEN UNCHANGED <<admitted, refused>>
           ELSE IF L!Count(now) > Limit
                THEN refused' = refused \cup {now} /\ UNCHANGED admitted
                ELSE admitted' = admitted \cup {now} /\ UNCHANGED refused
    BY DEF L!CheckLimit, L!Answer
  <1>2. now \in L!Time /\ now <= clock
    BY <1>1 DEF LimitInv, L!TypeOK
  <1>3. called' = called \cup {now} /\ admitted \subseteq called /\ refused \subseteq called
    BY <1>1 DEF L!Execute, LimitInv, L!TypeOK
  <1>4. \A w \in L!Time : Cardinality(L!Recent(admitted, w)) <= Limit
    BY SameCardinality DEF LimitInv, L!LimitHolds
  <1>5. CASE L!Late(now)
    BY <1>1, <1>3, <1>4, <1>5, ExecuteStep
  <1>6. CASE ~L!Late(now) /\ L!Count(now) > Limit
    <2>1. Cardinality(L!Recent(called', now)) > Limit
      BY <1>1, <1>2, <1>6, RefusalIsCounted
    <2>2. QED  BY <1>1, <1>3, <1>4, <1>6, <2>1, ExecuteStep
  <1>7. CASE ~L!Late(now) /\ ~(L!Count(now) > Limit)
    <2>1. \A w \in L!Time : Cardinality(L!Recent(admitted \cup {now}, w)) <= Limit
      BY <1>2, <1>7, AdmissionIsCounted
    <2>2. QED  BY <1>1, <1>3, <1>7, <2>1, ExecuteStep
  <1>8. QED  BY <1>5, <1>6, <1>7

LEMMA FailStep ==
  ASSUME LimitInv, NEW r \in Req, L!FailOpen(r)
  PROVE  LimitInv'
  <1>1. /\ open[r] # None /\ open' = [open EXCEPT ![r] = None]
        /\ UNCHANGED <<clock, admitted, refused>>
    BY DEF L!FailOpen, L!Answer
  <1>2. CASE UNCHANGED <<bucket, expires, called>>
    BY <1>1, <1>2, OpenStep
  <1>3. CASE L!Execute(open[r])
    <2>1. admitted \subseteq called' /\ refused \subseteq called'
      BY <1>3 DEF L!Execute, LimitInv, L!TypeOK
    <2>2. \A w \in L!Time : Cardinality(L!Recent(admitted, w)) <= Limit
      BY SameCardinality DEF LimitInv, L!LimitHolds
    <2>3. QED  BY <1>1, <1>3, <2>1, <2>2, ExecuteStep
  <1>4. QED  BY <1>2, <1>3 DEF L!FailOpen

LEMMA LimitNextInv == LimitInv /\ [L!Next]_limitVars => LimitInv'
  <1> SUFFICES ASSUME LimitInv, [L!Next]_limitVars
               PROVE  LimitInv'
    OBVIOUS
  <1>1. CASE UNCHANGED limitVars
    BY <1>1 DEF limitVars, LimitInv, L!TypeOK, L!LimitHolds, L!RefusalIsEarned, L!Recent,
                CallCounted, L!Time
  <1>2. CASE L!Tick
    BY <1>2, TickStep
  <1>3. ASSUME NEW r \in Req, L!Call(r)
        PROVE  LimitInv'
    <2>1. clock \in L!Time /\ clock <= clock
      BY DEF LimitInv, L!TypeOK, L!Time
    <2>2. QED  BY <1>3, <2>1, OpenStep DEF L!Call
  <1>4. ASSUME NEW r \in Req, L!CheckLimit(r)
        PROVE  LimitInv'
    BY <1>4, CheckStep
  <1>5. ASSUME NEW r \in Req, L!FailOpen(r)
        PROVE  LimitInv'
    BY <1>5, FailStep
  <1>6. QED  BY <1>1, <1>2, <1>3, <1>4, <1>5 DEF L!Next

-----------------------------------------------------------------------------
(* The three of them together *)

\* A behaviour that is one of the cards or of the limiter keeps their invariant,
\* and the others leave it alone.
MCInv == (part = "cards" => CardInv) /\ (part = "limit" => LimitInv)

LEMMA MCInvariance == MCSpec => []MCInv
  <1>1. MCInit => MCInv
    BY CardsHaveConstants, CardInitIInv, LimitInitInv DEF MCInit, MCInv
  <1>2. MCInv /\ [MCNext]_all => MCInv'
    <2> SUFFICES ASSUME MCInv, [MCNext]_all
                 PROVE  MCInv'
      OBVIOUS
    <2>1. part' = part
      BY DEF MCNext, all
    <2>2. ASSUME part = "cards"
          PROVE  CardInv'
      <3>1. CardInv
        BY <2>2 DEF MCInv
      <3>2. [C!Next]_(C!vars)
        BY <2>2 DEF MCNext, all, cardVars, C!vars, C!table
      <3>3. QED  BY <3>1, <3>2, CardsHaveConstants, CardNextIInv
    <2>3. ASSUME part = "limit"
          PROVE  LimitInv'
      <3>1. LimitInv
        BY <2>3 DEF MCInv
      <3>2. [L!Next]_limitVars
        BY <2>3 DEF MCNext, all
      <3>3. QED  BY <3>1, <3>2, LimitNextInv
    <2>4. QED  BY <2>1, <2>2, <2>3 DEF MCInv
  <1>3. QED  BY <1>1, <1>2, PTL DEF MCSpec

\* create_payment_method: the card last added as the default is a default card, and
\* there is another one only if the two additions overlapped.
THEOREM UserHasOneDefault == MCSpec => []DefaultIsOne
  <1>1. MCInv => DefaultIsOne
    BY DEF MCInv, DefaultIsOne, CardInv
  <1>2. QED  BY <1>1, MCInvariance, PTL

\* RateLimitMiddleware: in no window are more calls let through than the limit, of
\* those that reach Redis on time and in order, and none is refused before the
\* limit is used up, for any limit, window and number of calls in flight.
THEOREM LimitIsExact == MCSpec => []WindowHolds
  <1>1. MCInv => WindowHolds
    BY DEF MCInv, WindowHolds, LimitInv
  <1>2. QED  BY <1>1, MCInvariance, PTL

=============================================================================
