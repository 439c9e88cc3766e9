--------------------------- MODULE MCAssessments ---------------------------
(***************************************************************************)
(* Instances of SectionQuizzes, Attempts and Practice for TLC.  They share  *)
(* no state here, so a behaviour is one of one of them.                    *)
(***************************************************************************)
EXTENDS SectionQuizzes, Sequences, TLC

CONSTANTS s1, s2,
          Option, Points, PassPercent, MaxAttempts, MaxOrder,
          Quiz, Item, MaxItems, ItemPoints, ItemOrder, Data, Response, MaxAnswers,
          Parts

VARIABLES part, question, submission, sitting, pack, quiz, item, attempt, visit

A == INSTANCE Attempts WITH req <- sitting, Question <- Assessment

\* An option, and a pair to match.
MCData == {[type |-> "mcq", key |-> {1}], [type |-> "matching", key |-> {1, 2}]}

\* An option, a full match and a repeated pair.
MCResponse == {[type |-> "mcq", pairs |-> << <<1, 1>> >>],
               [type |-> "matching", pairs |-> << <<1, 1>>, <<2, 2>> >>],
               [type |-> "matching", pairs |-> << <<1, 1>>, <<1, 1>> >>]}

P == INSTANCE Practice WITH req <- visit, Points <- ItemPoints, MaxOrder <- ItemOrder

ASSUME AttemptsHaveConstants == A!AttemptsConstants

ASSUME PracticeHasConstants == P!PracticeConstants

attemptsVars == <<question, submission, sitting>>
practiceVars == <<pack, quiz, item, attempt, visit>>

all == <<vars, attemptsVars, practiceVars, part>>

MCInit == Init /\ A!Init /\ P!Init /\ part \in Parts

MCNext ==
    /\ UNCHANGED part
    /\ \/ part = "quizzes" /\ Next /\ UNCHANGED <<attemptsVars, practiceVars>>
       \/ part = "attempts" /\ A!Next /\ UNCHANGED <<vars, practiceVars>>
       \/ part = "practice" /\ P!Next /\ UNCHANGED <<vars, attemptsVars>>

MCSpec == MCInit /\ [][MCNext]_all

\* One section after the other.
MCOrder == (s1 :> 0) @@ (s2 :> 1)

\* What the authoring screens send.
MCChange == {<<>>,
             [status |-> "published", section |-> None],
             [status |-> "archived"],
             [section |-> s1, is_section_quiz |-> TRUE]}

\* A quiz of the first section, or an assessment of the course.
MCCreated == {[status |-> "draft", section |-> s1, is_section_quiz |-> TRUE],
              [status |-> "draft", section |-> None, is_section_quiz |-> FALSE]}

\* Attempts and Practice: the types, and a limit that is checked before the
\* insert is exceeded only by what was in flight.
LimitsNearlyHold ==
    /\ part = "attempts" => A!TypeOK /\ A!AttemptsNearLimit
    /\ part = "practice" => P!TypeOK /\ P!ItemsNearLimit

\* Attempts: a submission passed only if its answers reached the share asked for.
PassIsEarned == part = "attempts" => A!PassIsEarned

\* Practice: marks are for exact answers, each once.
MarksAreDeserved == part = "practice" => P!MarksAreDeserved

Symmetry == UNION {Permutations(S) : S \in {Req, Assessment}}

=============================================================================
