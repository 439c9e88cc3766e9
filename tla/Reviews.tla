------------------------------ MODULE Reviews -------------------------------
(***************************************************************************)
(* The reviews of one course and the rating counted from them              *)
(* (app/api/v1/courses.py), with the admin's moderation                    *)
(* (app/api/v1/admin.py).                                                  *)
(*                                                                         *)
(* A call is one READ COMMITTED transaction: it reads the learner's        *)
(* review, flushes its change (the unique constraint on course and user    *)
(* makes an insert wait for another one's), takes the average and the      *)
(* count it sees then, and writes them with one UPDATE of the course.      *)
(***************************************************************************)
EXTENDS Naturals, FiniteSets, FiniteSetsExt

CONSTANTS
    Req,     \* request slots
    User,    \* learners
    Rating,  \* ratings, a subset of 1 .. 5
    None

VARIABLES
    enrolled,  \* the learners enrolled in the course
    review,    \* [User -> committed rating, or None]
    shown,     \* courses.rating_avg, in hundredths, and ratings_count
    asked,     \* [Req -> Ask]
    steady     \* ghost: nothing was committed beside the last learner's change

table == <<enrolled, review, shown, steady>>
vars  == <<enrolled, review, shown, asked, steady>>

\* What the theorem assumes of the constants: the CHECK of the rating.
ReviewsConstants ==
    IsFiniteSet(User) /\ Rating \subseteq 1 .. 5 /\ None \notin Rating

Aggregate == [avg : 0 .. 500, count : 0 .. Cardinality(User)]

\* alone: ghost, nothing was committed since it counted.
Ask == [at : {"idle", "read", "counted"}, op : {"create", "update", "delete"},
        user : User \cup {None}, rating : Rating \cup {None},
        sum : Aggregate, alone : BOOLEAN]

Nothing == [avg |-> 0, count |-> 0]

Idle == [at |-> "idle", op |-> "create", user |-> None, rating |-> None,
         sum |-> Nothing, alone |-> TRUE]

Init ==
    /\ enrolled = {}
    /\ review = [u \in User |-> None]
    /\ shown = Nothing
    /\ asked = [r \in Req |-> Idle]
    /\ steady = TRUE

Reviewers(rows) == {u \in User : rows[u] # None}

\* round(avg, 2) of the SQL average; the tie cannot occur with so few reviews.
Average(rows) ==
    LET n == Cardinality(Reviewers(rows))
        s == MapThenSumSet(LAMBDA u : rows[u], Reviewers(rows))
    IN IF n = 0 THEN 0 ELSE (200 * s + n) \div (2 * n)

\* _recompute_course_rating: what it selects
Rated(rows) == [avg |-> Average(rows), count |-> Cardinality(Reviewers(rows))]

-----------------------------------------------------------------------------
(* The transaction *)

Read(r, op, u, n) ==
    /\ asked[r] = Idle
    /\ asked' = [asked EXCEPT ![r] = [Idle EXCEPT !.at = "read", !.op = op,
                                          !.user = u, !.rating = n]]
    /\ UNCHANGED table

Leave(r) ==
    /\ asked' = [asked EXCEPT ![r] = Idle]
    /\ UNCHANGED table

\* The row of the learner, as the transaction of q has flushed it.
Flushed(q) ==
    [review EXCEPT ![q.user] = IF q.op = "delete" THEN None
                               ELSE IF q.rating = None THEN @ ELSE q.rating]

\* Another transaction holds the learner's review.
Held(r) == \E s \in Req \ {r} :
              asked[s].at = "counted" /\ asked[s].user = asked[r].user

\* uq_review_course_user; StaleDataError.  A DELETE without its row passes.
Violates(q) == \/ q.op = "create" /\ review[q.user] # None
               \/ q.op = "update" /\ review[q.user] = None

RatedBy(q) == Rated(Flushed(q))

Flush(r) ==
    LET q == asked[r] IN
    /\ q.at = "read" /\ ~Held(r)
    /\ IF Violates(q)
       THEN Leave(r)
       ELSE /\ asked' = [asked EXCEPT ![r].at = "counted", ![r].sum = RatedBy(q)]
            /\ UNCHANGED table

\* What another commit makes of an open transaction.
Overtaken(q) == [q EXCEPT !.alone = (q.at # "counted")]

\* The UPDATE of the course and the commit.
Commit(r) ==
    LET q == asked[r] IN
    /\ q.at = "counted"
    /\ review' = Flushed(q)
    /\ shown' = q.sum
    /\ steady' = q.alone
    /\ asked' = [s \in Req |-> IF s = r THEN Idle ELSE Overtaken(asked[s])]
    /\ UNCHANGED enrolled

-----------------------------------------------------------------------------
(* The calls *)

\* Enrolment, and the admin's delete_enrollment, which leaves the review.
Enroll(u) ==
    /\ u \notin enrolled
    /\ enrolled' = enrolled \cup {u}
    /\ UNCHANGED <<review, shown, asked, steady>>

DeleteEnrollment(u) ==
    /\ u \in enrolled
    /\ enrolled' = enrolled \ {u}
    /\ UNCHANGED <<review, shown, asked, steady>>

CreateReview(r, u, n) ==
    /\ u \in enrolled /\ review[u] = None
    /\ Read(r, "create", u, n)

\* A comment alone leaves the rating.
UpdateMyReview(r, u, n) ==
    /\ review[u] # None
    /\ Read(r, "update", u, n)

DeleteMyReview(r, u) ==
    /\ review[u] # None
    /\ Read(r, "delete", u, None)

\* delete_review of the admin: the course keeps its rating.
ModerateReview(u) ==
    /\ review[u] # None
    /\ \A s \in Req : ~(asked[s].at = "counted" /\ asked[s].user = u)
    /\ review' = [review EXCEPT ![u] = None]
    /\ steady' = FALSE
    /\ asked' = [s \in Req |-> Overtaken(asked[s])]
    /\ UNCHANGED <<enrolled, shown>>

\* A request cancelled by its client.
Abort(r) == asked[r] # Idle /\ Leave(r)

-----------------------------------------------------------------------------
Handle(r) ==
    \/ \E u \in User :
          \/ \E n \in Rating : CreateReview(r, u, n)
          \/ \E n \in Rating \cup {None} : UpdateMyReview(r, u, n)
          \/ DeleteMyReview(r, u)
    \/ Flush(r) \/ Commit(r) \/ Abort(r)

Next ==
    \/ \E r \in Req : Handle(r)
    \/ \E u \in User : Enroll(u) \/ DeleteEnrollment(u) \/ ModerateReview(u)

Spec == Init /\ [][Next]_vars

-----------------------------------------------------------------------------
(* Properties *)

TypeOK ==
    /\ enrolled \subseteq User
    /\ review \in [User -> Rating \cup {None}]
    /\ shown \in Aggregate
    /\ asked \in [Req -> Ask]
    /\ steady \in BOOLEAN

\* _recompute_course_rating: a learner's change, after whose count nothing else
\* was committed before it, leaves the shown rating equal to the reviews,
\* whatever moderation and overlapping changes had left there.
RatingHeals == steady => shown = Rated(review)

=============================================================================
