------------------------------ MODULE Catalog -------------------------------
(***************************************************************************)
(* The courses of one instructor and the programs they belong to: their    *)
(* publication (app/services/instructor_service.py, app/api/v1/admin.py),  *)
(* and their deletion beside learners who order and enrol.                 *)
(*                                                                         *)
(* A call is one READ COMMITTED transaction of a few statements.  The      *)
(* session has autoflush off, so a query sees no change that was not       *)
(* flushed, and writes a column only when it is not as it was loaded.      *)
(* Deleting a row, SQLAlchemy loads the rows that refer to it and sets     *)
(* their key to NULL, which those of this schema do not take; the DELETE   *)
(* then meets the foreign keys: RESTRICT from orders and program links,    *)
(* CASCADE from enrolments.                                                *)
(***************************************************************************)
EXTENDS Naturals, FiniteSets

CONSTANTS
    Req,      \* request slots
    Course,   \* courses of the instructor
    Program,  \* programs
    None

VARIABLES
    status,    \* [Product -> publication status, None where there is no row]
    ready,     \* the courses with a lesson and a description
    counted,   \* instructors.courses_count
    enrolled,  \* the products a learner is enrolled in
    ordered,   \* the products an order refers to, whatever its status
    linked,    \* <<course, program>>: rows of program_courses
    act,       \* [Req -> Act]
    recount    \* ghost: "repeated" after a recount, alone, that left the status as it was

shop == <<enrolled, ordered, linked>>
db   == <<status, ready, counted, shop, recount>>
vars == <<db, act>>

Product == Course \cup Program

\* "hidden" stands for DRAFT and ARCHIVED, which nothing here tells apart.
Status == {"hidden", "published"}

\* was, seen: status and courses_count as loaded.  alone: ghost, no status was
\* committed since.
Act == [at : {"idle", "status", "checked", "loaded", "order", "enroll"},
        the : Product \cup {None}, was : Status, to : Status, recounts : BOOLEAN,
        seen : 0 .. Cardinality(Course), new : 0 .. Cardinality(Course),
        alone : BOOLEAN]

ASSUME CatalogConstants ==
    /\ IsFiniteSet(Course)
    /\ None \notin Product \cup Status

Idle == [at |-> "idle", the |-> None, was |-> "hidden", to |-> "hidden",
         recounts |-> FALSE, seen |-> 0, new |-> 0, alone |-> TRUE]

Init ==
    /\ status = [x \in Product |-> None]
    /\ ready = {} /\ counted = 0
    /\ enrolled = {} /\ ordered = {} /\ linked = {}
    /\ act = [r \in Req |-> Idle]
    /\ recount = "none"

Existing  == {x \in Product : status[x] # None}
Published == {x \in Product : status[x] = "published"}

Begin(r, a) ==
    /\ act[r] = Idle
    /\ act' = [act EXCEPT ![r] = a]
    /\ UNCHANGED db

Finish(r) == act' = [act EXCEPT ![r] = Idle]

Reject(r) == Finish(r) /\ UNCHANGED db

-----------------------------------------------------------------------------
(* Creation and publication *)

\* create_course, create_program
Create(x) ==
    /\ x \notin Existing
    /\ \A r \in Req : act[r].the # x
    /\ status' = [status EXCEPT ![x] = "hidden"]
    /\ UNCHANGED <<ready, counted, shop, act, recount>>

\* A course gets its first lesson and a description, or loses one of them.
Edit(x) ==
    /\ x \in Existing \cap Course
    /\ ready' = IF x \in ready THEN ready \ {x} ELSE ready \cup {x}
    /\ UNCHANGED <<status, counted, shop, act, recount>>

\* _recompute_instructor_courses: the new status of x is not flushed yet.
PublishedCourses(x) == Cardinality(Published \cap Course)

\* set_course_status of the instructor, which recounts, and of the admin, who
\* needs no readiness and sets programs too.
SetStatus(r, x, new, recounts) ==
    /\ x \in Existing
    /\ recounts => x \in Course
    /\ recounts /\ new = "published" => x \in ready
    /\ Begin(r, [Idle EXCEPT !.at = "status", !.the = x, !.was = status[x],
                    !.to = new, !.recounts = recounts, !.seen = counted,
                    !.new = IF recounts THEN PublishedCourses(x) ELSE counted])

Written(old, seen, new) == IF new # seen THEN new ELSE old

\* What another's commit of a status makes of the open calls.
Overtaken == [s \in Req |-> [act[s] EXCEPT !.alone = ~act[s].recounts]]

Recount(q) == IF q.recounts /\ q.alone /\ q.was = q.to THEN "repeated" ELSE "none"

\* The row was deleted meanwhile: StaleDataError.
CommitStatus(r) ==
    LET q == act[r] IN
    /\ q.at = "status"
    /\ IF q.the \notin Existing /\ q.to # q.was
       THEN Reject(r)
       ELSE /\ status' = [status EXCEPT ![q.the] = Written(@, q.was, q.to)]
            /\ counted' = Written(counted, q.seen, q.new)
            /\ recount' = Recount(q)
            /\ act' = [Overtaken EXCEPT ![r] = Idle]
            /\ UNCHANGED <<ready, shop>>

-----------------------------------------------------------------------------
(* Deletion *)

\* delete_course, delete_program
Delete(r, x) ==
    /\ x \in Existing
    /\ x \in Course => x \notin enrolled
    /\ Begin(r, [Idle EXCEPT !.at = "checked", !.the = x])

\* The rows whose key would be set to NULL make the flush fail.
LoadDependents(r) ==
    LET x == act[r].the IN
    /\ act[r].at = "checked"
    /\ IF x \in enrolled \/ \E p \in Program : <<x, p>> \in linked
       THEN Reject(r)
       ELSE act' = [act EXCEPT ![r].at = "loaded"] /\ UNCHANGED db

\* Mutant: orders.course_id and orders.program_id cascade.
RestrictedByLinks(x) == \E p \in Program : <<x, p>> \in linked

\* ondelete="RESTRICT"
Restricted(x) == x \in ordered \/ \E p \in Program : <<x, p>> \in linked

\* The DELETE; without its row it is a warning.
DeleteRow(r) ==
    LET x == act[r].the IN
    /\ act[r].at = "loaded"
    /\ IF Restricted(x)
       THEN Reject(r)
       ELSE /\ status' = [status EXCEPT ![x] = None]
            /\ ready' = ready \ {x}
            /\ enrolled' = enrolled \ {x}
            /\ linked' = {l \in linked : l[2] # x}
            /\ recount' = "none"
            /\ act' = [Overtaken EXCEPT ![r] = Idle]
            /\ UNCHANGED <<counted, ordered>>

-----------------------------------------------------------------------------
(* Learners and program links *)

\* checkout
Order(r, x) ==
    x \in Published /\ Begin(r, [Idle EXCEPT !.at = "order", !.the = x])

\* enroll, enroll_in_program
Enroll(r, x) ==
    x \in Published /\ Begin(r, [Idle EXCEPT !.at = "enroll", !.the = x])

\* The INSERT; what it refers to must still be there.
Insert(r) ==
    LET q == act[r] IN
    /\ q.at \in {"order", "enroll"}
    /\ IF q.the \in Existing
       THEN /\ Finish(r)
            /\ ordered' = ordered \cup (IF q.at = "order" THEN {q.the} ELSE {})
            /\ enrolled' = enrolled \cup
                  IF q.at # "enroll" THEN {}
                  ELSE {q.the} \cup {c \in Course : <<c, q.the>> \in linked}
            /\ UNCHANGED <<status, ready, counted, linked, recount>>
       ELSE Reject(r)

\* add_course_to_program, remove_course_from_program
ChangeLink(c, p) ==
    /\ {c, p} \subseteq Existing
    /\ linked' = IF <<c, p>> \in linked THEN linked \ {<<c, p>>}
                                       ELSE linked \cup {<<c, p>>}
    /\ UNCHANGED <<status, ready, counted, enrolled, ordered, act, recount>>

\* delete_enrollment
DeleteEnrollment(x) ==
    /\ enrolled' = enrolled \ {x}
    /\ UNCHANGED <<status, ready, counted, ordered, linked, act, recount>>

-----------------------------------------------------------------------------
Handle(r) ==
    \/ \E x \in Product :
          \/ \E new \in Status, recounts \in BOOLEAN : SetStatus(r, x, new, recounts)
          \/ Delete(r, x) \/ Order(r, x) \/ Enroll(r, x)
    \/ CommitStatus(r) \/ LoadDependents(r) \/ DeleteRow(r) \/ Insert(r)

Next ==
    \/ \E r \in Req : Handle(r)
    \/ \E x \in Product : Create(x) \/ Edit(x)
    \/ \E x \in enrolled : DeleteEnrollment(x)
    \/ \E c \in Course, p \in Program : ChangeLink(c, p)

Spec == Init /\ [][Next]_vars

-----------------------------------------------------------------------------
(* Properties *)

TypeOK ==
    /\ status \in [Product -> Status \cup {None}]
    /\ ready \subseteq Course /\ counted \in 0 .. Cardinality(Course)
    /\ enrolled \subseteq Product /\ ordered \subseteq Product
    /\ linked \subseteq Course \X Program
    /\ act \in [Req -> Act]
    /\ recount \in {"none", "repeated"}

\* What an order was placed for is not deleted, whenever the order came in
\* between the checks of delete_course or delete_program and their DELETE.
SoldStays == ordered \subseteq Existing

\* set_course_status: repeated, with no other status committed beside it, it
\* leaves courses_count equal to the published courses, whatever the admin's
\* changes and deletions, which do not recount, had left there.
CountHeals == recount = "repeated" => counted = Cardinality(Published \cap Course)

=============================================================================
