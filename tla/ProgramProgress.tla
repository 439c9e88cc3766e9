-------------------------- MODULE ProgramProgress ---------------------------
(***************************************************************************)
(* The progress of one learner in one program, which is computed when the  *)
(* learner lists their programs (app/services/program_service.py).         *)
(*                                                                         *)
(* A listing is one READ COMMITTED transaction: it loads the program       *)
(* enrollment, selects the courses of the program, counts the learner's    *)
(* completed enrollments in them, and writes the columns that differ from  *)
(* what it loaded.                                                         *)
(***************************************************************************)
EXTENDS Naturals, FiniteSets

CONSTANTS
    Req,     \* request slots
    Course   \* courses

VARIABLES
    linked,  \* the courses of the program, required or not
    done,    \* the courses whose enrollment has completed_at
    stored,  \* progress_percent, and whether completed_at is set
    req,     \* [Req -> Request]
    steady   \* ghost: nothing has changed beside or since the last listing

vars == <<linked, done, stored, req, steady>>

\* What the theorem assumes of the constants.
ProgressConstants == IsFiniteSet(Course)

Progress == [percent : 0 .. 100, completed : BOOLEAN]
NotBegun == [percent |-> 0, completed |-> FALSE]

\* alone: ghost, nothing has changed under its feet.
Request == [at : {"idle", "loaded", "selected", "counted"}, loaded : Progress,
            courses : SUBSET Course, new : Progress, alone : BOOLEAN]

Idle == [at |-> "idle", loaded |-> NotBegun, courses |-> {}, new |-> NotBegun,
         alone |-> TRUE]

Init ==
    /\ linked = {} /\ done = {}
    /\ stored = NotBegun
    /\ req = [r \in Req |-> Idle]
    /\ steady = TRUE

-----------------------------------------------------------------------------
(* list_my_program_enrollments *)

LoadEnrollment(r) ==
    /\ req[r] = Idle
    /\ req' = [req EXCEPT ![r].at = "loaded", ![r].loaded = stored]
    /\ UNCHANGED <<linked, done, stored, steady>>

SelectCourses(r) ==
    /\ req[r].at = "loaded"
    /\ req' = [req EXCEPT ![r].at = "selected", ![r].courses = linked]
    /\ UNCHANGED <<linked, done, stored, steady>>

\* int(round(count / total * 100)); no tie with fewer than eight courses.
Percent(count, total) == (200 * count + total) \div (2 * total)

\* Mutant: the program is complete when more courses than it has are done.
FinishesLate(count, total) == count > total

Finishes(count, total) == count >= total

\* An empty program returns early, and completed_at is never taken back.
Computed(q) ==
    LET total == Cardinality(q.courses)
        count == Cardinality(done \cap q.courses)
    IN IF total = 0
       THEN [percent |-> 0, completed |-> q.loaded.completed]
       ELSE [percent |-> Percent(count, total),
             completed |-> q.loaded.completed \/ Finishes(count, total)]

CountCompleted(r) ==
    /\ req[r].at = "selected"
    /\ req' = [req EXCEPT ![r].at = "counted", ![r].new = Computed(req[r])]
    /\ UNCHANGED <<linked, done, stored, steady>>

Changed(old, loaded, new) == IF new = loaded THEN old ELSE new

Commit(r) ==
    LET q == req[r] IN
    /\ q.at = "counted"
    /\ stored' = [f \in {"percent", "completed"} |->
                     Changed(stored[f], q.loaded[f], q.new[f])]
    /\ steady' = q.alone
    /\ req' = [s \in Req |->
          IF s = r \/ req[s] = Idle THEN Idle ELSE [req[s] EXCEPT !.alone = FALSE]]
    /\ UNCHANGED <<linked, done>>

Abort(r) ==
    /\ req[r] # Idle
    /\ req' = [req EXCEPT ![r] = Idle]
    /\ UNCHANGED <<linked, done, stored, steady>>

-----------------------------------------------------------------------------
(* What changes meanwhile *)

\* Ghosts: whoever has selected the courses has missed it.
Disturb ==
    /\ steady' = FALSE
    /\ req' = [r \in Req |-> [req[r] EXCEPT !.alone = @ /\ req[r].at \in {"idle", "loaded"}]]
    /\ UNCHANGED stored

\* add_course_to_program, remove_course_from_program
LinkCourse(c) == c \notin linked /\ linked' = linked \cup {c} /\ UNCHANGED done /\ Disturb

UnlinkCourse(c) == c \in linked /\ linked' = linked \ {c} /\ UNCHANGED done /\ Disturb

\* The course's own progress is recomputed, with or without completed_at.
CompleteCourse(c) == c \notin done /\ done' = done \cup {c} /\ UNCHANGED linked /\ Disturb

ReopenCourse(c) == c \in done /\ done' = done \ {c} /\ UNCHANGED linked /\ Disturb

-----------------------------------------------------------------------------
Handle(r) ==
    LoadEnrollment(r) \/ SelectCourses(r) \/ CountCompleted(r) \/ Commit(r) \/ Abort(r)

Author(c) == LinkCourse(c) \/ UnlinkCourse(c) \/ CompleteCourse(c) \/ ReopenCourse(c)

Next == (\E r \in Req : Handle(r)) \/ \E c \in Course : Author(c)

Spec == Init /\ [][Next]_vars

-----------------------------------------------------------------------------
(* Properties *)

TypeOK ==
    /\ linked \subseteq Course /\ done \subseteq Course
    /\ stored \in Progress
    /\ req \in [Req -> Request]
    /\ steady \in BOOLEAN

\* "Refresh aggregate progress on the fly so the response is current": a listing
\* during which nothing changed leaves the progress of the courses as they are,
\* whatever overlapping listings had left, and a finished program completed.
ProgressHeals ==
    steady /\ linked # {} =>
        /\ stored.percent = Percent(Cardinality(done \cap linked), Cardinality(linked))
        /\ linked \subseteq done => stored.completed

=============================================================================
