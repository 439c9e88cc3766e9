------------------------------ MODULE Practice ------------------------------
(***************************************************************************)
(* The practice pack of one course: app/services/practice_service.py as    *)
(* the routers of app/api/v1/practice.py call it.                          *)
(*                                                                         *)
(* Author calls check, then insert; a learner's attempt is graded from the *)
(* items as loaded, then inserted.  Anything may commit in between.  Left  *)
(* out: texts, ownership, and whether the course is published and the      *)
(* learner enrolled, which only decide who may call.                       *)
(***************************************************************************)
EXTENDS Naturals, FiniteSets, Sequences, Functions

CONSTANTS
    Req,       \* request slots
    Quiz,      \* ids of quiz rows (bounds how many are ever created)
    Item,      \* ids of item rows
    Data,      \* the payloads an author may send: records [type, key]
    Response,  \* the responses a learner may send: records [type, pairs]
    Points,    \* the points of an item
    MaxItems,  \* MAX_ITEMS_PER_QUIZ
    MaxOrder,  \* bound on the order of quizzes and items
    MaxAnswers,\* bound on the answers of an attempt
    None

VARIABLES
    pack,     \* BOOLEAN: the row of practice_packs exists
    quiz,     \* [Quiz -> QuizRow]
    item,     \* [Item -> ItemRow]
    attempt,  \* the row of practice_attempts inserted last, or NoAttempt
    req       \* [Req -> Request]

db   == <<pack, quiz, item, attempt>>
vars == <<pack, quiz, item, attempt, req>>

Order == 0 .. MaxOrder

QuizRow == [state : {"absent", "live", "deleted"}, order : Order,
            is_published : BOOLEAN]

NoQuiz == [state |-> "absent", order |-> 0, is_published |-> FALSE]

\* data.key: the ids of the pairs, or the id of the one correct option.
ItemRow == [quiz : Quiz \cup {None}, order : Order, points : Points, data : Data]

NoItem == [quiz |-> None, order |-> 0, points |-> CHOOSE p \in Points : TRUE,
           data |-> CHOOSE d \in Data : TRUE]

\* deserved is a ghost: how many items were answered exactly.
Attempt == [score_percent : Nat, correct_count : Nat, total_count : Nat,
            deserved : Nat]

NoAttempt == [score_percent |-> 0, correct_count |-> 0, total_count |-> 0,
              deserved |-> 0]

\* What the theorem assumes of the constants: one option of an item is correct,
\* and an answer is a list of pairs.
PracticeConstants ==
    /\ IsFiniteSet(Req) /\ IsFiniteSet(Item) /\ None \notin Quiz
    /\ Points \subseteq Nat /\ Points # {}
    /\ MaxItems \in Nat \ {0} /\ MaxOrder \in Nat /\ MaxAnswers \in Nat
    /\ Data # {}
    /\ \A d \in Data : /\ d.type \in {"mcq", "matching"} /\ IsFiniteSet(d.key)
                       /\ d.type = "mcq" => Cardinality(d.key) = 1
    /\ \A a \in Response :
          /\ a.pairs \in Seq(Range(a.pairs))
          /\ \A k \in DOMAIN a.pairs : /\ a.pairs[k] = <<a.pairs[k][1], a.pairs[k][2]>>
                                       /\ a.type = "mcq" => a.pairs[k][1] = a.pairs[k][2]

Request == [at : {"idle", "pack", "quiz", "item", "graded"},
            quiz : Quiz \cup {None}, order : Order, outcome : Attempt]

Idle == [at |-> "idle", quiz |-> None, order |-> 0, outcome |-> NoAttempt]

Init ==
    /\ pack = FALSE
    /\ quiz = [z \in Quiz |-> NoQuiz]
    /\ item = [i \in Item |-> NoItem]
    /\ attempt = NoAttempt
    /\ req = [r \in Req |-> Idle]

Begin(r, q) == req[r] = Idle /\ req' = [req EXCEPT ![r] = q]
Finish(r)   == req' = [req EXCEPT ![r] = Idle]

LiveQuizzes == {z \in Quiz : quiz[z].state = "live"}
ItemsOf(z)  == {i \in Item : item[i].quiz = z}
QuizOrders  == {quiz[z].order : z \in LiveQuizzes}
ItemOrders(z) == {item[i].order : i \in ItemsOf(z)}

-----------------------------------------------------------------------------
(* Authoring *)

\* get_or_create_pack finds no row, and inserts one.
CreatePack(r) ==
    /\ ~pack
    /\ Begin(r, [Idle EXCEPT !.at = "pack"])
    /\ UNCHANGED db

\* A second row for the course violates the unique constraint.
CreatePackWrite(r) ==
    /\ req[r].at = "pack"
    /\ pack' = TRUE
    /\ Finish(r)
    /\ UNCHANGED <<quiz, item, attempt>>

\* create_quiz, once there is a pack, at the order the author gives or at the end
\* (max(order) + 1, one of these).
CreateQuiz(r) ==
    /\ pack
    /\ \E n \in Order : Begin(r, [Idle EXCEPT !.at = "quiz", !.order = n])
    /\ UNCHANGED db

CreateQuizWrite(r) ==
    LET new == {z \in Quiz : quiz[z].state = "absent"}
        may == IF req[r].order \in QuizOrders THEN {} ELSE new
    IN
    /\ req[r].at = "quiz"
    /\ \/ \E z \in may, b \in BOOLEAN :
              quiz' = [quiz EXCEPT ![z] =
                          [state |-> "live", order |-> req[r].order, is_published |-> b]]
       \/ may = {} /\ UNCHANGED quiz
    /\ Finish(r)
    /\ UNCHANGED <<pack, item, attempt>>

UpdateQuiz(z, n, published) ==
    /\ z \in LiveQuizzes
    /\ n = quiz[z].order \/ n \notin QuizOrders
    /\ quiz' = [quiz EXCEPT ![z].order = n, ![z].is_published = published]
    /\ UNCHANGED <<pack, item, attempt, req>>

\* The items and attempts are deleted with it.
DeleteQuiz(z) ==
    /\ z \in LiveQuizzes
    /\ quiz' = [quiz EXCEPT ![z] = [NoQuiz EXCEPT !.state = "deleted"]]
    /\ item' = [i \in Item |-> IF item[i].quiz = z THEN NoItem ELSE item[i]]
    /\ UNCHANGED <<pack, attempt, req>>

RoomLeft(z) == Cardinality(ItemsOf(z)) < MaxItems

\* add_item: at the end, or at the order the author gives.
AddItem(r, z) ==
    /\ z \in LiveQuizzes
    /\ RoomLeft(z)
    /\ \E n \in Order :
           Begin(r, [Idle EXCEPT !.at = "item", !.quiz = z, !.order = n])
    /\ UNCHANGED db

\* The unique constraint or the foreign key may refuse it.
AddItemWrite(r) ==
    LET q   == req[r]
        may == IF q.quiz \in LiveQuizzes /\ q.order \notin ItemOrders(q.quiz)
               THEN {i \in Item : item[i].quiz = None} ELSE {}
    IN
    /\ q.at = "item"
    /\ \/ \E i \in may, p \in Points, d \in Data :
              item' = [item EXCEPT ![i] =
                          [quiz |-> q.quiz, order |-> q.order, points |-> p, data |-> d]]
       \/ may = {} /\ UNCHANGED item
    /\ Finish(r)
    /\ UNCHANGED <<pack, quiz, attempt>>

\* update_item replaces the payload.
UpdateItem(i, n, p, d) ==
    /\ item[i].quiz # None
    /\ n = item[i].order \/ n \notin ItemOrders(item[i].quiz)
    /\ item' = [item EXCEPT ![i] = [@ EXCEPT !.order = n, !.points = p, !.data = d]]
    /\ UNCHANGED <<pack, quiz, attempt, req>>

DeleteItem(i) ==
    /\ item[i].quiz # None
    /\ item' = [item EXCEPT ![i] = NoItem]
    /\ UNCHANGED <<pack, quiz, attempt, req>>

-----------------------------------------------------------------------------
(* Grading *)

\* Mutant: a pair may be submitted twice.
GradeMatchingTwice(key, pairs) ==
    /\ Len(pairs) = Cardinality(key)
    /\ \A k \in DOMAIN pairs : pairs[k][1] = pairs[k][2] /\ pairs[k][1] \in key

\* _grade_matching: as many pairs as expected, each of one id with itself, none
\* foreign, none seen before.
GradeMatching(key, pairs) ==
    /\ Len(pairs) = Cardinality(key)
    /\ \A k \in DOMAIN pairs :
          /\ pairs[k][1] = pairs[k][2]
          /\ pairs[k][1] \in key
          /\ \A j \in 1 .. k - 1 : pairs[j][1] # pairs[k][1]

\* _grade_mcq: the option is the correct one.  Here option x is the pair <<x, x>>.
GradeMcq(key, pairs) == Len(pairs) = 1 /\ pairs[1][1] \in key

\* A response in the form of the other type has no option_id, or no pairs.
IsCorrect(data, response) ==
    /\ data.type = response.type
    /\ \/ data.type = "mcq" /\ GradeMcq(data.key, response.pairs)
       \/ data.type = "matching" /\ GradeMatching(data.key, response.pairs)

\* What an exact answer is: each expected id, paired with itself, and nothing else.
IsExact(data, response) ==
    /\ data.type = response.type
    /\ Range(response.pairs) = {<<k, k>> : k \in data.key}
    /\ Len(response.pairs) = Cardinality(data.key)

\* round(awarded / total * 100), half to even.
ScorePercent(awarded, total) ==
    LET whole == (100 * awarded) \div total
        twice == 2 * ((100 * awarded) % total)
    IN  IF twice < total \/ (twice = total /\ whole % 2 = 0) THEN whole ELSE whole + 1

AnsweredOnce(answers) ==
    \A k \in DOMAIN answers : \A j \in 1 .. k - 1 : answers[j].item # answers[k].item

Outcome(z, answers) ==
    LET right   == {k \in DOMAIN answers :
                        IsCorrect(item[answers[k].item].data, answers[k].response)}
        exact   == {k \in DOMAIN answers :
                        IsExact(item[answers[k].item].data, answers[k].response)}
        awarded == SumFunctionOnSet([k \in DOMAIN answers |-> item[answers[k].item].points],
                                    right)
        total   == SumFunctionOnSet([i \in Item |-> item[i].points], ItemsOf(z))
    IN  [score_percent |-> ScorePercent(awarded, IF total = 0 THEN 1 ELSE total),
         correct_count |-> Cardinality(right),
         total_count   |-> Cardinality(ItemsOf(z)),
         deserved      |-> Cardinality({answers[k].item : k \in exact})]

\* submit_attempt: a published quiz with items; one answer to an item at most,
\* and none to an item of another quiz.  It is graded as soon as it is loaded.
SubmitAttempt(r, z, answers) ==
    /\ req[r] = Idle /\ z \in LiveQuizzes /\ quiz[z].is_published
    /\ ItemsOf(z) # {}
    /\ \A k \in DOMAIN answers : answers[k].item \in ItemsOf(z)
    /\ AnsweredOnce(answers)
    /\ Begin(r, [Idle EXCEPT !.at = "graded", !.quiz = z, !.outcome = Outcome(z, answers)])
    /\ UNCHANGED db

\* The row is inserted; its quiz may be gone, and the score has a CHECK.
SubmitAttemptWrite(r) ==
    LET q == req[r] IN
    /\ q.at = "graded"
    /\ attempt' = IF q.quiz \in LiveQuizzes /\ q.outcome.score_percent <= 100
                  THEN q.outcome ELSE attempt
    /\ Finish(r)
    /\ UNCHANGED <<pack, quiz, item>>

Abort(r) ==
    /\ req[r] # Idle
    /\ Finish(r)
    /\ UNCHANGED db

-----------------------------------------------------------------------------
Answers == UNION {[1 .. n -> [item : Item, response : Response]] : n \in 1 .. MaxAnswers}

Author(r) ==
    \/ CreatePack(r) \/ CreatePackWrite(r)
    \/ CreateQuiz(r) \/ CreateQuizWrite(r)
    \/ \E z \in Quiz : AddItem(r, z)
    \/ AddItemWrite(r)

Edit ==
    \/ \E z \in Quiz : DeleteQuiz(z)
    \/ \E z \in Quiz, n \in Order, b \in BOOLEAN : UpdateQuiz(z, n, b)
    \/ \E i \in Item : DeleteItem(i)
    \/ \E i \in Item, n \in Order, p \in Points, d \in Data : UpdateItem(i, n, p, d)

Learn(r) ==
    \/ \E z \in Quiz, answers \in Answers : SubmitAttempt(r, z, answers)
    \/ SubmitAttemptWrite(r)

Next == (\E r \in Req : Author(r) \/ Learn(r) \/ Abort(r)) \/ Edit

Spec == Init /\ [][Next]_vars

-----------------------------------------------------------------------------
(* Properties *)

TypeOK ==
    /\ pack \in BOOLEAN
    /\ quiz \in [Quiz -> QuizRow]
    /\ item \in [Item -> ItemRow]
    /\ attempt \in Attempt
    /\ req \in [Req -> Request]

\* "Each quiz holds up to 50 items": the items are counted before the insert, so
\* calls that overlap exceed the limit, but by no more than were in flight.
ItemsNearLimit ==
    \A z \in LiveQuizzes : Cardinality(ItemsOf(z)) <= MaxItems + Cardinality(Req) - 1

\* An attempt counts exactly the items that were answered exactly ("nothing
\* missing or extra"), each once, and its score fits the CHECK of its column
\* (a score that does not fit would make the insert fail).
MarksAreDeserved ==
    /\ attempt.correct_count = attempt.deserved
    /\ attempt.correct_count <= attempt.total_count
    /\ \A r \in Req : req[r].outcome.score_percent <= 100

=============================================================================
