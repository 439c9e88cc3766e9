--------------------------- MODULE SectionQuizzes ---------------------------
(***************************************************************************)
(* The assessments of one course and the gate they are to its sections: a  *)
(* section quiz must be passed before any lesson of a later section plays. *)
(* app/services/assessment_service.py without questions and grading, which *)
(* are module Attempts; here an attempt passes or fails.                   *)
(*                                                                         *)
(* A handler is a request r: it loads rows, checks them, and writes what   *)
(* it computed from the rows it LOADED; anything may commit in between.  A *)
(* refused request leaves no trace.                                        *)
(* Ownership checks are left out: the one instructor owns the course, and  *)
(* it is published (withdrawn, it shows no quiz and nothing is gated).     *)
(***************************************************************************)
EXTENDS Naturals, FiniteSets

CONSTANTS
    Req,         \* request slots
    Assessment,  \* ids of assessment rows (bounds how many are ever created)
    Section,     \* ids of the course's sections
    SectionOrder,\* [Section -> Nat]: CourseSection.order
    Learner,     \* the enrolled users
    Created,     \* the rows create_assessment is asked for
    Change,      \* the payloads of update_assessment: records of the set fields
    None

VARIABLES
    section,     \* SUBSET Section: table course_sections
    assessment,  \* [Assessment -> AssessmentRow]
    passed,      \* SUBSET (Assessment \X Learner): who has a submission that passed
    req          \* [Req -> Request]

db   == <<section, assessment, passed>>
vars == <<section, assessment, passed, req>>

Status == {"draft", "published", "archived"}

AssessmentRow == [status : Status \cup {"absent", "deleted"},
                  section : Section \cup {None},
                  is_section_quiz : BOOLEAN]

NoAssessment == [status |-> "absent", section |-> None,
                 is_section_quiz |-> FALSE]

Request == [at   : {"idle", "create", "update"},
            aid  : Assessment \cup {None},
            row  : AssessmentRow,      \* as loaded, or to be inserted
            data : Change]             \* the fields the call sets

ASSUME QuizzesConstants ==
    /\ None \notin Assessment \cup Section
    /\ Created \subseteq AssessmentRow
    /\ \E d \in Change : DOMAIN d = {}
    /\ \A d \in Change :
          /\ "status" \in DOMAIN d => d.status \in Status
          /\ "section" \in DOMAIN d => d.section \in Section \cup {None}
          /\ "is_section_quiz" \in DOMAIN d => d.is_section_quiz \in BOOLEAN

NoChange == CHOOSE d \in Change : DOMAIN d = {}

Idle == [at |-> "idle", aid |-> None, row |-> NoAssessment, data |-> NoChange]

Init ==
    /\ section = Section
    /\ assessment = [a \in Assessment |-> NoAssessment]
    /\ passed = {}
    /\ req = [r \in Req |-> Idle]

Begin(r, q) == req[r] = Idle /\ req' = [req EXCEPT ![r] = q]
Finish(r)   == req' = [req EXCEPT ![r] = Idle]

Exists(a)    == assessment[a].status \in Status
SectionIds   == section \cup {None}
QuizzesOf(s) == {a \in Assessment : /\ Exists(a)
                                    /\ assessment[a].is_section_quiz
                                    /\ assessment[a].section = s}

-----------------------------------------------------------------------------
(* Authoring *)

\* _ensure_section_quiz_unique, after the check that a quiz has a section.
MayBeQuiz(row, others) ==
    row.is_section_quiz => row.section # None /\ others \cap QuizzesOf(row.section) = {}

CreateAssessment(r, row) ==
    /\ row.section \in SectionIds
    /\ MayBeQuiz(row, Assessment)
    /\ Begin(r, [Idle EXCEPT !.at = "create", !.row = row])
    /\ UNCHANGED db

\* Mutant: the migration creates no index.
AlwaysAdmissible(a, row) == TRUE

\* Partial unique index on section_id where is_section_quiz.
Admissible(a, row) ==
    row.is_section_quiz /\ row.section # None => QuizzesOf(row.section) \subseteq {a}

\* The row is inserted unless the index or the foreign key refuses it.
CreateWrite(r) ==
    LET row == req[r].row
        new == {a \in Assessment : assessment[a].status = "absent"}
        may == {a \in new : Admissible(a, row) /\ row.section \in SectionIds}
    IN
    /\ req[r].at = "create"
    /\ \/ \E a \in may : assessment' = [assessment EXCEPT ![a] = row]
       \/ may = {} /\ UNCHANGED assessment
    /\ Finish(r)
    /\ UNCHANGED <<section, passed>>

\* Clearing section_id without a word on is_section_quiz demotes the quiz.
Demotes(d) == /\ "section" \in DOMAIN d /\ d.section = None
              /\ "is_section_quiz" \notin DOMAIN d

New(row, d) ==
    [f \in DOMAIN row |-> CASE f \in DOMAIN d -> d[f]
                            [] f = "is_section_quiz" /\ Demotes(d) -> FALSE
                            [] OTHER -> row[f]]

\* The new section belongs to the course, a quiz has a section without one,
\* and publishing needs a question, which module Attempts knows of.
MayUpdate(a, d, hasQuestions) ==
    LET new == New(assessment[a], d) IN
    /\ "section" \in DOMAIN d => d.section \in SectionIds
    /\ MayBeQuiz(new, Assessment \ {a})
    /\ new.status = "published" /\ assessment[a].status # "published" => hasQuestions

UpdateAssessment(r, a, d, hasQuestions) ==
    /\ Exists(a)
    /\ MayUpdate(a, d, hasQuestions)
    /\ Begin(r, [Idle EXCEPT !.at = "update", !.aid = a, !.row = assessment[a],
                             !.data = d])
    /\ UNCHANGED db

\* A column is updated if its new value differs from the loaded one.
UpdateWrite(r) ==
    LET q   == req[r]
        new == New(q.row, q.data)
        row == [f \in DOMAIN q.row |-> IF new[f] = q.row[f]
                                       THEN assessment[q.aid][f] ELSE new[f]]
    IN
    /\ q.at = "update"
    /\ IF Exists(q.aid) /\ Admissible(q.aid, row) /\ row.section \in SectionIds
       THEN assessment' = [assessment EXCEPT ![q.aid] = row]
       ELSE UNCHANGED assessment
    /\ Finish(r)
    /\ UNCHANGED <<section, passed>>

\* The submissions are deleted with their assessment.
DeleteAssessment(a) ==
    /\ Exists(a)
    /\ assessment' = [assessment EXCEPT ![a] = [NoAssessment EXCEPT !.status = "deleted"]]
    /\ passed' = passed \ ({a} \X Learner)
    /\ UNCHANGED <<section, req>>

\* delete_section, or an administrator's: assessments.section_id is set to NULL,
\* is_section_quiz stays.
DeleteSection(s) ==
    /\ s \in section
    /\ section' = section \ {s}
    /\ assessment' = [a \in Assessment |->
            IF assessment[a].section = s THEN [assessment[a] EXCEPT !.section = None]
                                         ELSE assessment[a]]
    /\ UNCHANGED <<passed, req>>

-----------------------------------------------------------------------------
(* Learners *)

\* The status column hides an assessment only once it is archived.
Visible(a) == assessment[a].status \in {"draft", "published"}

\* Every attempt keeps a row of its own.
Submit(u, a, pass) ==
    /\ Visible(a)
    /\ passed' = IF pass THEN passed \cup {<<a, u>>} ELSE passed
    /\ UNCHANGED <<section, assessment, req>>

Passed(a, u) == <<a, u>> \in passed

\* Mutant: a quiz gates the section it belongs to as well.
PriorQuizzesToo(s) ==
    {a \in Assessment : /\ assessment[a].is_section_quiz /\ Visible(a)
                        /\ assessment[a].section \in section
                        /\ SectionOrder[assessment[a].section] <= SectionOrder[s]}

\* assert_prior_section_quizzes_passed, first query.
PriorQuizzes(s) ==
    {a \in Assessment : /\ assessment[a].is_section_quiz /\ Visible(a)
                        /\ assessment[a].section \in section
                        /\ SectionOrder[assessment[a].section] < SectionOrder[s]}

\* assert_prior_section_quizzes_passed: lessons of section s play for u.
Opened(s, u) == \A a \in PriorQuizzes(s) : Passed(a, u)

\* get_section_quiz_status (and, for "required", get_section_quiz_for_student).
QuizStatus(s, u) ==
    LET quiz == {a \in QuizzesOf(s) : Visible(a)}
    IN  [required |-> quiz # {},
         passed   |-> \E a \in quiz : <<a, u>> \in passed]

Abort(r) ==
    /\ req[r] # Idle
    /\ Finish(r)
    /\ UNCHANGED db

-----------------------------------------------------------------------------
Handle(r) ==
    \/ \E row \in Created : CreateAssessment(r, row)
    \/ \E a \in Assessment, d \in Change, b \in BOOLEAN : UpdateAssessment(r, a, d, b)
    \/ CreateWrite(r) \/ UpdateWrite(r)
    \/ Abort(r)

Next ==
    \/ \E r \in Req : Handle(r)
    \/ \E a \in Assessment : DeleteAssessment(a)
    \/ \E s \in Section : DeleteSection(s)
    \/ \E u \in Learner, a \in Assessment, p \in BOOLEAN : Submit(u, a, p)

Spec == Init /\ [][Next]_vars

-----------------------------------------------------------------------------
(* Properties *)

TypeOK ==
    /\ section \subseteq Section
    /\ assessment \in [Assessment -> AssessmentRow]
    /\ passed \subseteq Assessment \X Learner
    /\ req \in [Req -> Request]

\* A section has one quiz, so that the learner's lookup (scalar_one_or_none)
\* never raises, although each author checks before the other inserts, and a
\* quiz may be moved, demoted or promoted meanwhile.
OneQuizPerSection == \A s \in Section : Cardinality(QuizzesOf(s)) <= 1

\* The gate (assert_prior_section_quizzes_passed) lets a learner into a section
\* exactly when the status call reports every earlier section's quiz as passed
\* or not required: the button the UI enables never leads to a refusal.
StatusAgreesWithGate ==
    \A s \in section, u \in Learner :
        Opened(s, u) <=>
            \A t \in section :
                SectionOrder[t] < SectionOrder[s] /\ QuizStatus(t, u).required
                    => QuizStatus(t, u).passed

=============================================================================
