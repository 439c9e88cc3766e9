------------------------------ MODULE Learning ------------------------------
(***************************************************************************)
(* One learner's enrollment in one course: the rows of lesson_progress,    *)
(* the progress and completion stored in the enrollment, and the           *)
(* certificate.  app/services/enrollment_service.py, with the segment      *)
(* endpoint of app/api/v1/streaming.py, which completes lessons too.       *)
(*                                                                         *)
(* Two handlers write these rows.  The progress call ("update") flushes    *)
(* its enrollment first, so it holds that row while it counts; the segment *)
(* fetch ("fetch") counts first and updates the enrollment when it         *)
(* commits.  Each SELECT is a step, because at READ COMMITTED each sees    *)
(* what has been committed by then; the flushed writes of a request are    *)
(* its own until it commits.  A column is updated only if its new value    *)
(* differs from the loaded one.                                            *)
(*                                                                         *)
(* Left out: the section-quiz gate (a refused call is a stuttering step),  *)
(* watched seconds, the segment watermark, and daily_activity.             *)
(***************************************************************************)
EXTENDS Naturals, FiniteSets

CONSTANTS
    Req,      \* request slots
    Lesson,   \* ids of lesson rows (bounds how many are ever created)
    Editable, \* the lessons an instructor creates or deletes meanwhile
    Wants     \* [{"update", "fetch"} -> SUBSET Want]: the calls the client makes

\* What a call does to completed_at: sets it, clears it, leaves it alone.
Want == {"done", "open", "keep"}
Kind == {"update", "fetch"}

ASSUME LearningConstants ==
    /\ Editable \subseteq Lesson
    /\ Wants \in [Kind -> SUBSET Want]
    /\ "open" \notin Wants["fetch"]
    /\ IsFiniteSet(Lesson)

VARIABLES
    lesson,      \* [Lesson -> LessonState]: the course's lesson rows
    progress,    \* [Lesson -> ProgressRow]: lesson_progress of the enrollment
    enrollment,  \* progress_percent, and whether completed_at is set
    certificates,\* how many certificates name the learner and the course
    req          \* [Req -> Request]

vars == <<lesson, progress, enrollment, certificates, req>>
db   == <<lesson, progress, enrollment, certificates>>

LessonState == {"absent", "live", "deleted"}
ProgressRow == {"absent", "open", "done"}
Enrollment  == [percent : 0 .. 100, completed : BOOLEAN]

Stage == {"idle", "progress", "lock", "flush", "total", "completed", "certify",
          "commit"}

Request == [at : Stage,
            kind : Kind,
            lesson : Lesson \cup {"none"},
            want : Want,
            enrollment : Enrollment,   \* as loaded
            row : ProgressRow,         \* as loaded
            total : Nat,               \* lessons counted
            count : Nat,               \* completed lessons counted
            issue : BOOLEAN]           \* a certificate is inserted

Idle == [at |-> "idle", kind |-> "update", lesson |-> "none", want |-> "keep",
         enrollment |-> [percent |-> 0, completed |-> FALSE],
         row |-> "absent", total |-> 0, count |-> 0, issue |-> FALSE]

Init ==
    /\ lesson = [l \in Lesson |-> IF l \in Editable THEN "absent" ELSE "live"]
    /\ progress = [l \in Lesson |-> "absent"]
    /\ enrollment = [percent |-> 0, completed |-> FALSE]
    /\ certificates = 0
    /\ req = [r \in Req |-> Idle]

Finish(r) == req' = [req EXCEPT ![r] = Idle]

\* int(round(count / total * 100)), which rounds half to even (in exact
\* arithmetic: in floating point a tie such as 23 of 40 can go either way).
Percent(count, total) ==
    LET whole == (100 * count) \div total
        twice == 2 * ((100 * count) % total)
    IN  IF total = 0 THEN 0
        ELSE IF twice < total \/ (twice = total /\ whole % 2 = 0)
        THEN whole ELSE whole + 1

Live         == {l \in Lesson : lesson[l] = "live"}
Counted      == {"total", "completed", "certify", "commit"}

\* What the flush leaves in the progress row: nothing if no column changes.
Written(q) ==
    CASE q.row = "absent"                    -> IF q.want = "done" THEN "done" ELSE "open"
      [] q.row = "open" /\ q.want = "done"   -> "done"
      [] q.row = "done" /\ q.want = "open"   -> "open"
      [] OTHER                               -> "none"

\* Mutant: a progress call recomputes only if it completes the lesson.
RecomputesOnCompletion(q) == Written(q) = "done"

\* A fetch recomputes the enrollment only if it has just completed the lesson.
Recomputes(q) == q.kind = "update" \/ Written(q) = "done"

\* Mutant: the enrollment row is not held while its lessons are counted.
HoldsEarly(q) == q.kind = "update" /\ q.at = "flush"

\* Row locks.  A progress call holds the enrollment from its flush on; a fetch
\* always writes last_segment_at, so it holds its progress row.
HoldsEnrollment(q) == q.kind = "update" /\ q.at \in Counted \cup {"flush"}

HoldsRow(q, l) ==
    /\ q.at \in Counted
    /\ q.lesson = l
    /\ q.kind = "fetch" \/ Written(q) # "none"

EnrollmentFree(r) == \A s \in Req \ {r} : ~HoldsEnrollment(req[s])
RowFree(r, l)     == \A s \in Req \ {r} : ~HoldsRow(req[s], l)

-----------------------------------------------------------------------------
(* update_lesson_progress and lesson_hls_segment *)

\* The enrollment is loaded; the lesson belongs to its course.
Call(r, kind, l, want) ==
    /\ req[r] = Idle
    /\ want \in Wants[kind]
    /\ lesson[l] = "live"
    /\ req' = [req EXCEPT ![r] = [Idle EXCEPT !.at = "progress", !.kind = kind,
                 !.lesson = l, !.want = want, !.enrollment = enrollment]]
    /\ UNCHANGED db

LoadProgress(r) ==
    /\ req[r].at = "progress"
    /\ req' = [req EXCEPT ![r].row = progress[req[r].lesson],
                          ![r].at = IF req[r].kind = "update" THEN "lock" ELSE "flush"]
    /\ UNCHANGED db

\* The flush begins with UPDATE enrollments (last_lesson_id, last_accessed_at).
LockEnrollment(r) ==
    /\ req[r].at = "lock"
    /\ EnrollmentFree(r)
    /\ req' = [req EXCEPT ![r].at = "flush"]
    /\ UNCHANGED db

\* The progress row is inserted or updated.  The unique constraint refuses a
\* second row; a deleted lesson refuses an insert and has no row to update.
Flush(r) ==
    LET q    == req[r]
        gone == lesson[q.lesson] = "deleted"
        next == IF Recomputes(q) THEN "total" ELSE "commit"
    IN
    /\ q.at = "flush"
    /\ RowFree(r, q.lesson)
    /\ \/ /\ ~gone \/ (q.kind = "update" /\ Written(q) = "none")
          /\ q.row = "absent" => progress[q.lesson] = "absent"
          /\ req' = [req EXCEPT ![r].at = next]
       \/ /\ gone \/ (q.row = "absent" /\ progress[q.lesson] # "absent")
          /\ Finish(r)
    /\ UNCHANGED db

CountLessons(r) ==
    /\ req[r].at = "total"
    /\ req' = [req EXCEPT ![r].total = Cardinality(Live), ![r].at = "completed"]
    /\ UNCHANGED db

\* The rows a request sees: the committed ones and its own write.
Seen(q, l) == IF l = q.lesson /\ Written(q) # "none" THEN Written(q) ELSE progress[l]

\* Mutant: the enrollment is complete when more lessons than it has are done.
FinishesLate(count, total) == total # 0 /\ count > total

Finishes(count, total) == total # 0 /\ count >= total

\* Mutant: the percentage stored before the recomputation decides.
CertifiesLoaded(q, count) == q.enrollment.percent = 100 /\ ~q.enrollment.completed

\* completed_at is set and _ensure_certificate called only on the transition.
Certifies(q, count) == Finishes(count, q.total) /\ ~q.enrollment.completed

CountCompleted(r) ==
    LET q     == req[r]
        count == Cardinality({l \in Lesson : Seen(q, l) = "done"})
    IN
    /\ q.at = "completed"
    /\ req' = [req EXCEPT ![r].count = count,
                          ![r].at = IF Certifies(q, count) THEN "certify" ELSE "commit"]
    /\ UNCHANGED db

\* Mutant: every completion issues a certificate.
AlwaysIssue == TRUE

NoneIssued == certificates = 0

\* _ensure_certificate: the certificate is inserted unless one is found.
Certify(r) ==
    /\ req[r].at = "certify"
    /\ req' = [req EXCEPT ![r].issue = NoneIssued, ![r].at = "commit"]
    /\ UNCHANGED db

\* A column of the stored row takes the new value if that is not the loaded one.
Changed(stored, loaded, new) == IF new = loaded THEN stored ELSE new

\* Mutant: CHECK progress_percent BETWEEN 0 AND 100 is missing.
AnyPercent(percent) == TRUE

InRange(percent) == percent \in 0 .. 100

\* The enrollment is updated and everything becomes visible.  A fetch waits
\* here for a progress call that holds the enrollment.  A count of more lessons
\* than were there a statement earlier violates the CHECK on the percentage.
Commit(r) ==
    LET q       == req[r]
        percent == Percent(q.count, q.total)
    IN
    /\ q.at = "commit"
    /\ Recomputes(q) => EnrollmentFree(r)
    /\ IF Recomputes(q) /\ ~InRange(percent)
       THEN UNCHANGED db
       ELSE /\ progress' = IF Written(q) = "none" THEN progress
                           ELSE [progress EXCEPT ![q.lesson] = Written(q)]
            /\ certificates' = certificates + IF q.issue THEN 1 ELSE 0
            /\ enrollment' =
                 IF ~Recomputes(q) THEN enrollment
                 ELSE [percent |-> Changed(enrollment.percent, q.enrollment.percent, percent),
                       completed |-> Changed(enrollment.completed, q.enrollment.completed,
                                             Finishes(q.count, q.total))]
            /\ UNCHANGED lesson
    /\ Finish(r)

\* A progress call that holds the enrollment waits for the row of a fetch that
\* waits for the enrollment: PostgreSQL ends one of the two.
BreakDeadlock(r, s) ==
    /\ req[r].at = "flush" /\ req[r].kind = "update"
    /\ req[s].at = "commit" /\ req[s].kind = "fetch" /\ Recomputes(req[s])
    /\ HoldsRow(req[s], req[r].lesson)
    /\ Finish(r) \/ Finish(s)
    /\ UNCHANGED db

Abort(r) ==
    /\ req[r] # Idle
    /\ Finish(r)
    /\ UNCHANGED db

-----------------------------------------------------------------------------
(* Authoring: a handler too, but one whose steps do not matter here *)

CreateLesson(r, l) ==
    /\ req[r] = Idle
    /\ lesson[l] = "absent"
    /\ lesson' = [lesson EXCEPT ![l] = "live"]
    /\ UNCHANGED <<progress, enrollment, certificates, req>>

\* The progress rows of the lesson are deleted with it; a request that has
\* written such a row, or points last_lesson_id at the lesson, makes it wait.
DeleteLesson(r, l) ==
    /\ req[r] = Idle
    /\ l \in Editable
    /\ lesson[l] = "live"
    /\ \A s \in Req : req[s].lesson = l => req[s].at \notin Counted
    /\ lesson' = [lesson EXCEPT ![l] = "deleted"]
    /\ progress' = [progress EXCEPT ![l] = "absent"]
    /\ UNCHANGED <<enrollment, certificates, req>>

-----------------------------------------------------------------------------
Continue(r) ==
    \/ LoadProgress(r) \/ LockEnrollment(r) \/ Flush(r)
    \/ CountLessons(r) \/ CountCompleted(r) \/ Certify(r) \/ Commit(r)
    \/ \E s \in Req : BreakDeadlock(r, s)

Next ==
    \E r \in Req :
        \/ \E l \in Lesson, w \in Want, k \in Kind : Call(r, k, l, w)
        \/ Continue(r)
        \/ Abort(r)
        \/ \E l \in Lesson : CreateLesson(r, l) \/ DeleteLesson(r, l)

Spec == Init /\ [][Next]_vars

\* The event loop resumes handlers, PostgreSQL serves lock waiters, and the
\* player keeps reporting its position while a lesson is open.
Fairness ==
    /\ \A r \in Req : SF_vars(Continue(r))
    /\ SF_vars(\E r \in Req, l \in Lesson : Call(r, "update", l, "keep"))

FairSpec == Spec /\ Fairness

-----------------------------------------------------------------------------
(* Properties *)

TypeOK ==
    /\ lesson \in [Lesson -> LessonState]
    /\ progress \in [Lesson -> ProgressRow]
    /\ enrollment \in Enrollment
    /\ certificates \in Nat
    /\ req \in [Req -> Request]

Quiet    == \A r \in Req : req[r] = Idle
Done     == {l \in Lesson : progress[l] = "done"}
Finished == Live # {} /\ Live \subseteq Done

\* A completed enrollment has a certificate, although the completion may have
\* been written by a request that knew neither: _ensure_certificate is called
\* on a transition the request only believes in.
CompletedIsCertified == enrollment.completed => certificates > 0

\* get_certificate_for_course expects at most one row.
OneCertificate == certificates <= 1

\* Once no request is in flight the enrollment tells what its lessons tell.
AgreesWhenQuiet ==
    Quiet => enrollment = [percent |-> Percent(Cardinality(Done), Cardinality(Live)),
                           completed |-> Finished]

\* Whatever was missed before, a progress call that begins after the last
\* change puts progress and completion right.
RecomputeAgrees ==
    \A r \in Req :
        Commit(r) /\ Recomputes(req[r])
          => enrollment' = [percent |-> Percent(Cardinality(Done'), Cardinality(Live)),
                            completed |-> Finished']

\* A learner whose lessons stay done, and who keeps the player open, ends up
\* with a completed enrollment and a certificate, whatever raced before.
CompletionArrives ==
    <>[](Finished /\ \A r \in Req : req[r].want # "open")
      /\ <>[][\A r \in Req : Abort(r) => Continue(r)]_vars
        => <>[](enrollment.completed /\ certificates > 0)

=============================================================================
