------------------------------ MODULE Attempts ------------------------------
(***************************************************************************)
(* One assessment: its questions, and the learners' attempts and grades.   *)
(* app/services/assessment_service.py, add_question to _grade_answer.      *)
(*                                                                         *)
(* submit_assessment loads the assessment with its questions, counts the   *)
(* learner's attempts, and inserts; add_question chooses an order and      *)
(* inserts.  Anything may commit between these steps, and only the     *)
(* database's constraints are checked again when the insert commits.       *)
(***************************************************************************)
EXTENDS Naturals, FiniteSets, Sequences, Functions

CONSTANTS
    Req,          \* request slots
    Learner,      \* the enrolled users
    Question,     \* ids of question rows (bounds how many are ever created)
    Option,       \* the options of a question
    Points,       \* the points an author may give a question
    PassPercent,  \* Assessment.pass_percent
    MaxAttempts,  \* Assessment.max_attempts
    MaxOrder,     \* bound on Question.order
    None

VARIABLES
    question,    \* [Question -> QuestionRow]
    submission,  \* [Learner -> Seq of rows]: assessment_submissions as inserted
    req          \* [Req -> Request]

db   == <<question, submission>>
vars == <<question, submission, req>>

\* key: the options marked is_correct, or the expected short answers.
QuestionRow == [state : {"absent", "live", "deleted"}, order : Nat, points : Nat,
                key : SUBSET Option]

NoQuestion == [state |-> "absent", order |-> 0, points |-> 0, key |-> {}]

\* reached: the answer rows hold pass_percent of the points that were asked.
Submission == [attempt_number : Nat \ {0}, score_percent : 0 .. 100,
               passed : BOOLEAN, reached : BOOLEAN]

Asked == UNION {[S -> [points : Points, key : SUBSET Option]] : S \in SUBSET Question}

Request == [at    : {"idle", "question", "count", "submit"},
            order : Nat,                       \* of the question to add
            user  : Learner \cup {None},
            asked : Asked,                     \* the questions as loaded
            prior : Nat]                       \* attempts counted

\* What the theorem assumes of the constants: the CHECKs of their columns.
AttemptsConstants ==
    /\ IsFiniteSet(Req) /\ IsFiniteSet(Question) /\ None \notin Learner
    /\ Points \subseteq Nat /\ PassPercent \in 0 .. 100
    /\ MaxAttempts \in Nat \ {0} /\ MaxOrder \in Nat

Idle == [at |-> "idle", order |-> 0, user |-> None,
         asked |-> <<>>, prior |-> 0]

Init ==
    /\ question = [q \in Question |-> NoQuestion]
    /\ submission = [u \in Learner |-> <<>>]
    /\ req = [r \in Req |-> Idle]

Begin(r, q) == req[r] = Idle /\ req' = [req EXCEPT ![r] = q]
Finish(r)   == req' = [req EXCEPT ![r] = Idle]

-----------------------------------------------------------------------------
(* Authoring *)

Live   == {q \in Question : question[q].state = "live"}
Orders == {question[q].order : q \in Live}

\* The order the author gives, or coalesce(max(order), -1) + 1: one of these.
AddQuestion(r) ==
    /\ \E n \in 0 .. MaxOrder : Begin(r, [Idle EXCEPT !.at = "question", !.order = n])
    /\ UNCHANGED db

OrderFree(n) == n \notin Orders

AddQuestionWrite(r) ==
    LET new == {q \in Question : question[q].state = "absent"} IN
    /\ req[r].at = "question"
    /\ \/ \E q \in new, p \in Points, k \in SUBSET Option :
            /\ OrderFree(req[r].order)
            /\ question' = [question EXCEPT ![q] =
                    [state |-> "live", order |-> req[r].order, points |-> p, key |-> k]]
       \/ (new = {} \/ ~OrderFree(req[r].order)) /\ UNCHANGED question
    /\ Finish(r)
    /\ UNCHANGED submission

\* The columns are written and the options replaced as a whole; nothing asks
\* that one of them is correct.
UpdateQuestion(q, n, p, k) ==
    /\ question[q].state = "live"
    /\ n = question[q].order \/ OrderFree(n)
    /\ question' = [question EXCEPT ![q].order = n, ![q].points = p, ![q].key = k]
    /\ UNCHANGED <<submission, req>>

\* The answers given to it are deleted with it; submissions keep their score.
DeleteQuestion(q) ==
    /\ question[q].state = "live"
    /\ question' = [question EXCEPT ![q] = [NoQuestion EXCEPT !.state = "deleted"]]
    /\ UNCHANGED <<submission, req>>

-----------------------------------------------------------------------------
(* Attempts *)

\* get_assessment_for_student found it (SectionQuizzes!Visible); nothing asks
\* again whether it is visible.
Submit(r, u) ==
    /\ Begin(r, [Idle EXCEPT !.at = "count", !.user = u,
                    !.asked = [q \in Live |-> [points |-> question[q].points,
                                               key |-> question[q].key]]])
    /\ UNCHANGED db

\* Mutant: the attempt is refused only beyond the limit.
AttemptsLeftLate(n) == n <= MaxAttempts

AttemptsLeft(n) == n < MaxAttempts

CountAttempts(r) ==
    LET n == Len(submission[req[r].user]) IN
    /\ req[r].at = "count"
    /\ IF AttemptsLeft(n)
       THEN req' = [req EXCEPT ![r].at = "submit", ![r].prior = n]
       ELSE Finish(r)
    /\ UNCHANGED db

\* _grade_answer: the chosen options are exactly the correct ones, and there is
\* a correct one.
Correct(q, chosen) == chosen = q.key /\ q.key # {}

\* int(round(awarded / total * 100)), half to even.
ScorePercent(awarded, total) ==
    LET whole == (100 * awarded) \div total
        twice == 2 * ((100 * awarded) % total)
    IN  IF total = 0 THEN 0
        ELSE IF twice < total \/ (twice = total /\ whole % 2 = 0)
        THEN whole ELSE whole + 1

\* Mutant: the rounded score is compared.
PassesRounded(awarded, total) == {ScorePercent(awarded, total) >= PassPercent}

\* raw_percent >= pass_percent, which is 0 of 0.  The division and the product
\* round in floating point (57 / 100 * 100 < 57), so on the bar itself the
\* comparison may fail, unless nothing or everything was awarded.
Passes(awarded, total) ==
    IF 100 * awarded = PassPercent * total /\ awarded \notin {0, total}
    THEN BOOLEAN
    ELSE {100 * awarded >= PassPercent * total /\ (total = 0 => PassPercent = 0)}

\* attempt_number = int(prior_count) + 1
AttemptNumber(r) == req[r].prior + 1

\* answer: the options chosen for each answered question.  An answer to a
\* question that was not loaded refuses the submission, and one to a question
\* deleted since then violates its foreign key.
SubmitWrite(r, answer) ==
    LET asked   == req[r].asked
        worth   == [q \in DOMAIN asked |-> asked[q].points]
        right   == {q \in DOMAIN answer \cap DOMAIN asked : Correct(asked[q], answer[q])}
        awarded == SumFunctionOnSet(worth, right)
        total   == SumFunction(worth)
    IN
    /\ req[r].at = "submit"
    /\ IF DOMAIN answer \subseteq DOMAIN asked \cap Live
       THEN \E pass \in Passes(awarded, total) :
              submission' = [submission EXCEPT ![req[r].user] = Append(@,
                [attempt_number |-> AttemptNumber(r),
                 score_percent |-> ScorePercent(awarded, total),
                 passed |-> pass,
                 reached |-> 100 * awarded >= PassPercent * total])]
       ELSE UNCHANGED submission
    /\ Finish(r)
    /\ UNCHANGED question

Abort(r) ==
    /\ req[r] # Idle
    /\ Finish(r)
    /\ UNCHANGED db

-----------------------------------------------------------------------------
Answers == UNION {[D -> SUBSET Option] : D \in SUBSET Question}

Handle(r) ==
    \/ AddQuestion(r) \/ AddQuestionWrite(r)
    \/ \E u \in Learner : Submit(r, u)
    \/ CountAttempts(r)
    \/ \E answer \in Answers : SubmitWrite(r, answer)
    \/ Abort(r)

Next ==
    \/ \E r \in Req : Handle(r)
    \/ \E q \in Question, n \in 0 .. MaxOrder, p \in Points,
          k \in SUBSET Option : UpdateQuestion(q, n, p, k)
    \/ \E q \in Question : DeleteQuestion(q)

Spec == Init /\ [][Next]_vars

-----------------------------------------------------------------------------
(* Properties *)

Rows(u) == {submission[u][i] : i \in DOMAIN submission[u]}

TypeOK ==
    /\ question \in [Question -> QuestionRow]
    /\ \A u \in Learner : Rows(u) \subseteq Submission
    /\ req \in [Req -> Request]

\* max_attempts: attempts that overlap are counted before either is inserted,
\* so there may be more, but only by the attempts that were then in flight.
AttemptsNearLimit ==
    \A u \in Learner : Len(submission[u]) <= MaxAttempts + Cardinality(Req) - 1

\* submit_assessment, "so a 69.5% score doesn't round up past a 70% threshold":
\* who passes has the share of the points of the questions that were asked, and
\* is shown at least the percentage that was required.
PassIsEarned ==
    \A u \in Learner : \A s \in Rows(u) :
        s.passed => s.reached /\ s.score_percent >= PassPercent

=============================================================================
