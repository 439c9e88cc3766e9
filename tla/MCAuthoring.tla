---------------------------- MODULE MCAuthoring ----------------------------
(***************************************************************************)
(* Instances of Ordering, CourseTree, Reviews, Catalog and ProgramProgress *)
(* for TLC.  They share no state here, so a behaviour is one of one of     *)
(* them.                                                                   *)
(***************************************************************************)
EXTENDS Catalog, TLC

CONSTANTS RowCount, MaxOrder, Staging, Section, Lesson, Seconds, User, Rating,
          Chapter,  \* the courses of a program
          Parts

VARIABLES part,
    order, req,
    sections, lesson, lectures, minutes, call, healed,
    learners, review, shown, asked, steady,
    links, done, stored, listing, settled

O == INSTANCE Ordering
T == INSTANCE CourseTree
V == INSTANCE Reviews WITH enrolled <- learners
P == INSTANCE ProgramProgress WITH
        Course <- Chapter, linked <- links, req <- listing, steady <- settled

ASSUME PartsHaveConstants ==
    /\ O!OrderingConstants /\ T!TreeConstants
    /\ V!ReviewsConstants /\ P!ProgressConstants
    /\ Parts \subseteq {"order", "tree", "reviews", "catalog", "progress"}

orderVars  == <<order, req>>
treeVars   == <<sections, lesson, lectures, minutes, call, healed>>
reviewVars == <<learners, review, shown, asked, steady>>
progressVars == <<links, done, stored, listing, settled>>

all == <<part, vars, orderVars, treeVars, reviewVars, progressVars>>

MCInit == Init /\ O!Init /\ T!Init /\ V!Init /\ P!Init /\ part \in Parts

MCNext ==
    /\ UNCHANGED part
    /\ \/ part = "catalog" /\ Next /\ UNCHANGED <<orderVars, treeVars, reviewVars, progressVars>>
       \/ part = "order" /\ O!Next /\ UNCHANGED <<vars, treeVars, reviewVars, progressVars>>
       \/ part = "tree" /\ T!Next /\ UNCHANGED <<vars, orderVars, reviewVars, progressVars>>
       \/ part = "reviews" /\ V!Next /\ UNCHANGED <<vars, orderVars, treeVars, progressVars>>
       \/ part = "progress" /\ P!Next /\ UNCHANGED <<vars, orderVars, treeVars, reviewVars>>

MCSpec == MCInit /\ [][MCNext]_all

Symmetry == Permutations(Req) \cup Permutations(Lesson) \cup Permutations(Section)

\* Ordering: the types, a reorder succeeds, and no staged position stays.
ReordersLand == part = "order" => O!TypeOK /\ O!ReorderLands /\ O!NoRowStaged

\* Every stored aggregate heals: the course's counters, its rating, the
\* instructor's count, and the progress in a program.
AggregatesHeal ==
    CASE part = "order" -> TRUE
      [] part = "tree" -> T!TypeOK /\ T!AggregatesHeal
      [] part = "reviews" -> V!TypeOK /\ V!RatingHeals
      [] part = "catalog" -> TypeOK /\ CountHeals
      [] part = "progress" -> P!TypeOK /\ P!ProgressHeals

=============================================================================
