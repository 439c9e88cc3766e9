----------------------------- MODULE CourseTree -----------------------------
(***************************************************************************)
(* The sections and lessons of one course, and the columns counted from    *)
(* them, lectures_count and duration_minutes                               *)
(* (app/services/instructor_service.py).                                   *)
(*                                                                         *)
(* A call is one READ COMMITTED transaction.  It loads the course with its *)
(* row, flushes the change, counts what it sees then, and commits.  SQL-   *)
(* Alchemy writes a column only when its value differs from the loaded     *)
(* one, and autoflush is off: a count sees no change that was not flushed. *)
(***************************************************************************)
EXTENDS Naturals, FiniteSets, FiniteSetsExt

CONSTANTS
    Req,      \* request slots
    Section,  \* primary keys of sections
    Lesson,   \* primary keys of lessons
    Seconds,  \* durations of a lesson
    None

VARIABLES
    sections,  \* the committed sections
    lesson,    \* [Lesson -> committed row, or None]
    lectures,  \* courses.lectures_count
    minutes,   \* courses.duration_minutes
    call,      \* [Req -> Call]
    healed     \* ghost: nothing was committed beside the last change

db   == <<sections, lesson, lectures, minutes, healed>>
vars == <<sections, lesson, lectures, minutes, call, healed>>

Row == [section : Section, seconds : Seconds]

\* What the theorem assumes of the constants.
TreeConstants ==
    /\ IsFiniteSet(Lesson) /\ Seconds \subseteq Nat
    /\ None \notin Row

Columns == [lectures : 0 .. Cardinality(Lesson), minutes : Nat]

\* the: the lesson or section changed.  seen, new: the course's columns as
\* loaded and as counted.  alone: ghost, nothing was committed since it loaded.
Call == [at : {"idle", "loaded", "counted"},
         op : {"create", "update", "delete", "delete_section"},
         the : Lesson \cup Section \cup {None}, row : Row \cup {None},
         seen : Columns, new : Columns, alone : BOOLEAN]

Zero == [lectures |-> 0, minutes |-> 0]

Idle == [at |-> "idle", op |-> "update", the |-> None, row |-> None,
         seen |-> Zero, new |-> Zero, alone |-> TRUE]

Init ==
    /\ sections = {}
    /\ lesson = [l \in Lesson |-> None]
    /\ lectures = 0 /\ minutes = 0
    /\ call = [r \in Req |-> Idle]
    /\ healed = TRUE

-----------------------------------------------------------------------------
(* The transaction *)

Load(r, op, the, row) ==
    /\ call[r] = Idle
    /\ call' = [call EXCEPT ![r] = [Idle EXCEPT !.at = "loaded", !.op = op,
                    !.the = the, !.row = row,
                    !.seen = [lectures |-> lectures, minutes |-> minutes]]]
    /\ UNCHANGED db

Rollback(r) ==
    /\ call' = [call EXCEPT ![r] = Idle]
    /\ UNCHANGED db

Lessons(rows) == {l \in Lesson : rows[l] # None}

Under(s) == {l \in Lessons(lesson) : lesson[l].section = s}

\* What the transaction of q finds in the lessons table once it has flushed.
Seen(q) ==
    CASE q.op = "create" -> [lesson EXCEPT ![q.the] = q.row]
      [] q.op = "update" -> [lesson EXCEPT ![q.the].seconds = q.row.seconds]
      [] q.op = "delete" -> [lesson EXCEPT ![q.the] = None]
      [] q.op = "delete_section" ->
            [l \in Lesson |-> IF l \in Under(q.the) THEN None ELSE lesson[l]]

\* The rows a flush locks, and the section an insert refers to.
Locks(q) ==
    CASE q.op = "create"         -> {q.the, q.row.section}
      [] q.op \in {"update", "delete"} -> {q.the}
      [] q.op = "delete_section" -> {q.the} \cup Under(q.the)

\* Two inserts under one section only refer to it, and do not exclude each other.
Waits(r) ==
    \E s \in Req \ {r} :
        /\ call[s].at = "counted"
        /\ \E x \in Locks(call[r]) \cap Locks(call[s]) :
              x \in Lesson \/ x \in {call[r].the, call[s].the}

\* An insert without its section violates the foreign key, an UPDATE without
\* its row is a StaleDataError; a DELETE without its row is a warning.
Fails(q) == \/ q.op = "create" /\ q.row.section \notin sections
            \/ q.op = "update" /\ lesson[q.the] = None

\* _recompute_course_aggregates
Recount(rows) ==
    [lectures |-> Cardinality(Lessons(rows)),
     minutes  |-> MapThenSumSet(LAMBDA l : rows[l].seconds, Lessons(rows)) \div 60]

\* Mutant: the aggregates are counted before the change is flushed.
CountedFirst(q) == Recount(lesson)

CountedBy(q) == Recount(Seen(q))

Flush(r) ==
    LET q == call[r] IN
    /\ q.at = "loaded" /\ ~Waits(r)
    /\ IF Fails(q)
       THEN Rollback(r)
       ELSE /\ call' = [call EXCEPT ![r].at = "counted", ![r].new = CountedBy(q)]
            /\ UNCHANGED db

\* Only a column that is not as it was loaded is written.
Written(old, seen, new) == IF new # seen THEN new ELSE old

Commit(r) ==
    LET q == call[r] IN
    /\ q.at = "counted"
    /\ lesson' = Seen(q)
    /\ sections' = IF q.op = "delete_section" THEN sections \ {q.the} ELSE sections
    /\ lectures' = Written(lectures, q.seen.lectures, q.new.lectures)
    /\ minutes' = Written(minutes, q.seen.minutes, q.new.minutes)
    /\ healed' = q.alone
    /\ call' = [s \in Req |-> IF s = r \/ call[s] = Idle THEN Idle
                                           ELSE [call[s] EXCEPT !.alone = FALSE]]

-----------------------------------------------------------------------------
(* The calls *)

\* A key is a new one: no open call refers to it.
New(x) == \A r \in Req :
    x # call[r].the /\ (call[r].row # None => x # call[r].row.section)

CreateSection(s) ==
    /\ s \notin sections /\ New(s)
    /\ sections' = sections \cup {s}
    /\ UNCHANGED <<lesson, lectures, minutes, call, healed>>

CreateLesson(r, l, row) ==
    /\ row.section \in sections
    /\ lesson[l] = None /\ New(l)
    /\ Load(r, "create", l, row)

\* update_lesson; set_lesson_video, with the duration of the uploaded file.  The
\* columns nothing is counted from are left out.
UpdateLesson(r, l, seconds) ==
    /\ lesson[l] # None
    /\ Load(r, "update", l, [lesson[l] EXCEPT !.seconds = seconds])

DeleteLesson(r, l) ==
    /\ lesson[l] # None
    /\ Load(r, "delete", l, None)

DeleteSection(r, s) ==
    /\ s \in sections
    /\ Load(r, "delete_section", s, None)

\* A request cancelled by its client.
Abort(r) == call[r] # Idle /\ Rollback(r)

-----------------------------------------------------------------------------
Handle(r) ==
    \/ \E l \in Lesson :
          \/ \E row \in Row : CreateLesson(r, l, row)
          \/ \E n \in Seconds : UpdateLesson(r, l, n)
          \/ DeleteLesson(r, l)
    \/ \E s \in Section : DeleteSection(r, s)
    \/ Flush(r) \/ Commit(r) \/ Abort(r)

Next ==
    \/ \E r \in Req : Handle(r)
    \/ \E s \in Section : CreateSection(s)

Spec == Init /\ [][Next]_vars

-----------------------------------------------------------------------------
(* Properties *)

TypeOK ==
    /\ sections \subseteq Section
    /\ lesson \in [Lesson -> Row \cup {None}]
    /\ lectures \in 0 .. Cardinality(Lesson) /\ minutes \in Nat
    /\ call \in [Req -> Call]

\* _recompute_course_aggregates: a change that nothing was committed beside
\* leaves the counters equal to what the tree holds, however far off earlier
\* overlapping changes had left them.
AggregatesHeal ==
    healed => Recount(lesson) = [lectures |-> lectures, minutes |-> minutes]

=============================================================================
