------------------------------ MODULE Ordering ------------------------------
(***************************************************************************)
(* The positions of the rows of one container under a unique constraint:   *)
(* sections of a course and lessons of a section                           *)
(* (app/services/instructor_service.py, Staging = "apart"), courses of a   *)
(* program (app/api/v1/admin.py, Staging = "together").                    *)
(*                                                                         *)
(* A reorder is a sequence of single-row UPDATEs in one transaction, and   *)
(* PostgreSQL checks the constraint at each.  Until the transaction ends,  *)
(* an updated row is locked, and its old and new positions stay taken for  *)
(* the others: who needs one of them waits.                                *)
(***************************************************************************)
EXTENDS Naturals, Integers, FiniteSets, Sequences, SequencesExt, TLC

CONSTANTS
    Req,       \* request slots
    RowCount,  \* bound on the rows; 1 .. RowCount are the primary keys
    MaxOrder,  \* bound on the positions a caller asks for
    Staging,   \* "apart": a staged value for each row, "together": all at -1
    None

VARIABLES
    order,  \* [Row -> committed position, None where there is no row]
    req     \* [Req -> Request]

vars == <<order, req>>

Row      == 1 .. RowCount
Position == 0 .. MaxOrder

\* What the theorem assumes of the constants.
OrderingConstants == RowCount \in Nat /\ MaxOrder \in Nat /\ None \notin Int

\* 10_000 + offset; -1
Staged == {-1} \cup MaxOrder + 1 .. MaxOrder + RowCount

Write == [row : Row, to : Position \cup Staged]

\* written: the rows its transaction has updated.  distinct, alone: ghosts, it
\* asks for distinct positions, and no other call has run since it began.
Request == [at : {"idle", "insert", "write"}, order : Position,
            listed : SUBSET Row, todo : Seq(Write),
            written : UNION {[S -> Position \cup Staged] : S \in SUBSET Row},
            distinct : BOOLEAN, alone : BOOLEAN]

Idle == [at |-> "idle", order |-> 0, listed |-> {}, todo |-> <<>>,
         written |-> <<>>, distinct |-> TRUE, alone |-> TRUE]

Init ==
    /\ order = [x \in Row |-> None]
    /\ req = [r \in Req |-> Idle]

Rows == {x \in Row : order[x] # None}

Noticed == [s \in Req |-> IF req[s] = Idle THEN Idle
                                           ELSE [req[s] EXCEPT !.alone = FALSE]]

Begin(r, q) ==
    /\ req[r] = Idle
    /\ req' = [Noticed EXCEPT ![r] = [q EXCEPT !.alone = \A s \in Req : req[s] = Idle]]

Finish(r) == req' = [Noticed EXCEPT ![r] = Idle]

-----------------------------------------------------------------------------
(* The unique constraint *)

\* The open transactions that row x at position n has to wait for.
Awaited(x, n, others) ==
    {s \in others : LET w == req[s].written IN
        x \in DOMAIN w \/ \E y \in DOMAIN w : n \in {order[y], w[y]}}

\* What a transaction finds in row y.
Found(y, written) == IF y \in DOMAIN written THEN written[y] ELSE order[y]

Taken(x, n, written) == \E y \in Rows \ {x} : Found(y, written) = n

-----------------------------------------------------------------------------
(* One row *)

\* create_section, create_lesson, add_course_to_program: at the position the
\* caller gives, or at max(order) + 1, which is one of these.
Create(r) ==
    /\ \E n \in Position : Begin(r, [Idle EXCEPT !.at = "insert", !.order = n])
    /\ UNCHANGED order

CreateWrite(r) ==
    LET n == req[r].order IN
    /\ req[r].at = "insert"
    /\ \/ \E x \in Row \ Rows :
             /\ Awaited(x, n, Req) = {}
             /\ order' = IF Taken(x, n, <<>>) THEN order ELSE [order EXCEPT ![x] = n]
       \/ Rows = Row /\ UNCHANGED order
    /\ Finish(r)

\* update_section, update_lesson, update_program_course
Update(x, n) ==
    /\ x \in Rows
    /\ Awaited(x, n, Req) = {} /\ ~Taken(x, n, <<>>)
    /\ order' = [order EXCEPT ![x] = n]
    /\ req' = Noticed

\* delete_section, delete_lesson, remove_course_from_program
Delete(x) ==
    /\ x \in Rows
    /\ Awaited(x, order[x], Req) = {}
    /\ order' = [order EXCEPT ![x] = None]
    /\ req' = Noticed

-----------------------------------------------------------------------------
(* Reordering *)

\* A flush updates the rows it has by primary key.
InKeyOrder(S) ==
    [k \in 1 .. Cardinality(S) |-> CHOOSE x \in S : Cardinality({y \in S : y <= x}) = k]

Writes(rows, To(_)) == [k \in DOMAIN rows |-> [row |-> rows[k], to |-> To(rows[k])]]

\* Mutant: the rows are written straight away.
StageNothing(list) == <<>>

\* by_id[sid].order = 10_000 + offset, flushed; or order = -1, for every row.
Stage(list) ==
    IF Staging = "apart"
    THEN Writes(InKeyOrder(Range(list)),
                LAMBDA x : MaxOrder + CHOOSE k \in DOMAIN list : list[k] = x)
    ELSE Writes(InKeyOrder(Rows), LAMBDA x : -1)

\* The flushed new positions are in key order, the program's in the caller's.
Place(list, target) ==
    Writes(IF Staging = "apart" THEN InKeyOrder(Range(list)) ELSE list,
           LAMBDA x : target[x])

\* reorder_sections, reorder_lessons, reorder_program_courses
Reorder(r, list, target) ==
    /\ list # <<>> /\ Range(list) \subseteq Rows
    /\ Begin(r, [Idle EXCEPT !.at = "write", !.listed = Range(list),
                    !.todo = Stage(list) \o Place(list, target),
                    !.distinct = \A x, y \in Range(list) : target[x] = target[y] => x = y])
    /\ UNCHANGED order

\* The rows a transaction has updated, and to what, once w is done.
Overlaid(written, w) ==
    [x \in DOMAIN written \cup {w.row} |-> IF x = w.row THEN w.to ELSE written[x]]

Refused(q) == \/ Head(q.todo).row \notin Rows
              \/ Taken(Head(q.todo).row, Head(q.todo).to, q.written)

\* One UPDATE; if it matches no row or violates the constraint, all is undone.
WriteRow(r) ==
    LET q == req[r]
        w == Head(q.todo)
    IN
    /\ q.at = "write" /\ q.todo # <<>>
    /\ Awaited(w.row, w.to, Req \ {r}) = {}
    /\ IF Refused(q)
       THEN Finish(r)
       ELSE req' = [Noticed EXCEPT ![r] =
                [q EXCEPT !.todo = Tail(@), !.written = Overlaid(@, w)]]
    /\ UNCHANGED order

\* Mutant: the staged positions are committed, not flushed.
CommitsStaged(q) == \A x \in q.listed : x \in DOMAIN q.written

\* The transaction has no UPDATE left.
Committable(q) == q.todo = <<>>

Commit(r) ==
    /\ req[r].at = "write" /\ Committable(req[r])
    /\ order' = [x \in Row |-> Found(x, req[r].written)]
    /\ Finish(r)

\* A cancelled request, or the victim of a deadlock.
Abort(r) ==
    /\ req[r] # Idle
    /\ Finish(r)
    /\ UNCHANGED order

-----------------------------------------------------------------------------
Lists == {list \in SeqOf(Row, RowCount) : IsInjective(list)}

Handle(r) ==
    \/ Create(r) \/ CreateWrite(r)
    \/ \E list \in Lists, target \in [Row -> Position] :
          (\A x \in Row \ Range(list) : target[x] = 0) /\ Reorder(r, list, target)
    \/ WriteRow(r) \/ Commit(r) \/ Abort(r)

Next ==
    \/ \E r \in Req : Handle(r)
    \/ \E x \in Row : Delete(x) \/ \E n \in Position : Update(x, n)

Spec == Init /\ [][Next]_vars

-----------------------------------------------------------------------------
(* Properties *)

TypeOK ==
    /\ order \in [Row -> Position \cup Staged \cup {None}]
    /\ \A r \in Req :
          /\ req[r].at \in {"idle", "insert", "write"}
          /\ Range(req[r].todo) \subseteq Write
          /\ DOMAIN req[r].written \subseteq Rows

\* "Stage to large temp values to avoid unique(course_id, order) collisions
\* mid-update", "Drop conflicts upfront by parking everyone at -1": a reorder of
\* all rows to distinct positions, that no other call interferes with, succeeds.
ReorderLands ==
    \A r \in Req : LET q == req[r] IN
        q.todo # <<>> /\ q.listed = Rows /\ q.distinct /\ q.alone => ~Refused(q)

\* Staged positions stay inside the transaction: no reader, and no max(order)
\* of a later create, ever finds one, wherever a reorder breaks off.
NoRowStaged == \A x \in Rows : order[x] \in Position

=============================================================================
