------------------------- MODULE AssessmentsProofs -------------------------
(***************************************************************************)
(* SectionQuizzes, Attempts and Practice, for any number of calls at once. *)
(* A section has one quiz: each author's check is made on rows that may    *)
(* have changed since, so what saves it is the index, whatever a handler   *)
(* has seen.  With it, the status call and the gate, two different queries,*)
(* agree.  Attempts and items are counted before they are inserted; the    *)
(* rows and the calls still to insert theirs share the room there was.  A  *)
(* grade is a sum over part of what the total sums over, and so a          *)
(* percentage, whatever has changed since the questions were loaded.       *)
(***************************************************************************)
EXTENDS MCAssessments, Numbers, TLAPS

-----------------------------------------------------------------------------
(* SectionQuizzes *)

\* Two quizzes of one section are one.
QuizzesAgree ==
    \A s \in Section : \A a, b \in QuizzesOf(s) : a = b

\* What a call is about to write belongs to an assessment.
UpdatesKnown == \A r \in Req : req[r].at = "update" => req[r].aid \in Assessment

IInv == TypeOK /\ QuizzesAgree /\ UpdatesKnown

LEMMA NoChangeOK == NoChange \in Change /\ DOMAIN NoChange = {}
  BY QuizzesConstants DEF NoChange

LEMMA NoAssessmentOK == NoAssessment \in AssessmentRow /\ NoAssessment.status \notin Status
  BY DEF NoAssessment, AssessmentRow, Status

LEMMA IdleOK == Idle \in Request /\ Idle.at = "idle"
  BY NoChangeOK, NoAssessmentOK DEF Idle, Request

LEMMA RowFields ==
  ASSUME NEW row \in AssessmentRow
  PROVE  DOMAIN row = {"status", "section", "is_section_quiz"}
  BY DEF AssessmentRow

\* The fields a payload sets, over those of a row, make a row.
LEMMA NewOK ==
  ASSUME NEW row \in AssessmentRow, NEW d \in Change
  PROVE  New(row, d) \in AssessmentRow
  <1>1. \A f \in {"status", "section", "is_section_quiz"} :
            New(row, d)[f] = IF f \in DOMAIN d THEN d[f]
                             ELSE IF f = "is_section_quiz" /\ Demotes(d) THEN FALSE
                             ELSE row[f]
    BY RowFields DEF New, Demotes
  <1>2. DOMAIN New(row, d) = {"status", "section", "is_section_quiz"}
    BY RowFields DEF New
  <1>3. New(row, d) = [f \in {"status", "section", "is_section_quiz"} |-> New(row, d)[f]]
    BY RowFields DEF New
  <1>4. QED
    BY <1>1, <1>2, <1>3, QuizzesConstants DEF AssessmentRow, Status

LEMMA InitIInv == Init => IInv
  BY IdleOK, NoAssessmentOK
     DEF Init, IInv, TypeOK, QuizzesAgree, UpdatesKnown, QuizzesOf, Exists

\* A step after which no assessment has become a quiz of a section it was not.
LEMMA FewerQuizzes ==
  ASSUME QuizzesAgree, \A s \in Section : QuizzesOf(s)' \subseteq QuizzesOf(s)
  PROVE  QuizzesAgree'
  BY DEF QuizzesAgree

\* A row that the index admits is written.
LEMMA WriteRow ==
  ASSUME TypeOK, QuizzesAgree, NEW a \in Assessment, NEW row \in AssessmentRow,
         Admissible(a, row), assessment' = [assessment EXCEPT ![a] = row]
  PROVE  QuizzesAgree' /\ assessment' \in [Assessment -> AssessmentRow]
  <1>1. \A b \in Assessment : assessment'[b] = IF b = a THEN row ELSE assessment[b]
    BY DEF TypeOK
  <1>2. assessment' \in [Assessment -> AssessmentRow]
    BY DEF TypeOK
  <1>3. ASSUME NEW s \in Section, NEW b \in QuizzesOf(s)', NEW c \in QuizzesOf(s)'
        PROVE  b = c
    <2>1. /\ b \in Assessment /\ c \in Assessment
          /\ b # a => b \in QuizzesOf(s)
          /\ c # a => c \in QuizzesOf(s)
      BY <1>1 DEF QuizzesOf, Exists
    <2>2. CASE a \notin {b, c}
      BY <2>1, <2>2 DEF QuizzesAgree
    <2>3. CASE a \in {b, c}
      <3>1. row.is_section_quiz /\ row.section = s
        BY <1>1, <2>3 DEF QuizzesOf
      <3>2. QuizzesOf(s) \subseteq {a}
        BY <3>1, QuizzesConstants DEF Admissible
      <3>3. QED  BY <2>1, <2>3, <3>2
    <2>4. QED  BY <2>2, <2>3
  <1>4. QED  BY <1>2, <1>3 DEF QuizzesAgree

\* A request that goes on or ends, and leaves the rows alone.
LEMMA RequestStep ==
  ASSUME IInv, NEW r \in Req, NEW q \in Request, UNCHANGED db,
         q.at = "update" => q.aid \in Assessment, req' = [req EXCEPT ![r] = q]
  PROVE  IInv'
  <1>1. TypeOK' /\ UpdatesKnown'
    BY DEF IInv, TypeOK, UpdatesKnown, db
  <1>2. \A s \in Section : QuizzesOf(s)' = QuizzesOf(s)
    BY DEF db, QuizzesOf, Exists
  <1>3. QED  BY <1>1, <1>2, FewerQuizzes DEF IInv

\* A request that ends with a write.
LEMMA FinishStep ==
  ASSUME IInv, NEW r \in Req, Finish(r), UNCHANGED <<section, passed>>,
         assessment' \in [Assessment -> AssessmentRow], QuizzesAgree'
  PROVE  IInv'
  BY IdleOK DEF IInv, TypeOK, UpdatesKnown, Finish

LEMMA CreateStep ==
  ASSUME IInv, NEW r \in Req, CreateWrite(r)
  PROVE  IInv'
  <1>1. req[r].row \in AssessmentRow
    BY DEF IInv, TypeOK, Request
  <1>2. CASE UNCHANGED assessment
    <2>1. \A s \in Section : QuizzesOf(s)' = QuizzesOf(s)
      BY <1>2 DEF QuizzesOf, Exists
    <2>2. QED  BY <1>2, <2>1, FewerQuizzes, FinishStep DEF IInv, TypeOK, CreateWrite
  <1>3. ASSUME NEW a \in Assessment, Admissible(a, req[r].row),
               assessment' = [assessment EXCEPT ![a] = req[r].row]
        PROVE  IInv'
    BY <1>1, <1>3, WriteRow, FinishStep DEF IInv, CreateWrite
  <1>4. QED  BY <1>2, <1>3 DEF CreateWrite

LEMMA UpdateStep ==
  ASSUME IInv, NEW r \in Req, UpdateWrite(r)
  PROVE  IInv'
  <1> DEFINE q   == req[r]
             new == New(q.row, q.data)
             row == [f \in DOMAIN q.row |-> IF new[f] = q.row[f]
                                            THEN assessment[q.aid][f] ELSE new[f]]
  <1>1. q.aid \in Assessment /\ q.row \in AssessmentRow /\ q.data \in Change
    BY DEF IInv, TypeOK, UpdatesKnown, Request, UpdateWrite
  <1>2. new \in AssessmentRow /\ assessment[q.aid] \in AssessmentRow
    BY <1>1, NewOK DEF IInv, TypeOK
  <1>3. row \in AssessmentRow
    <2> HIDE DEF new
    <2>1. QED  BY <1>1, <1>2, RowFields DEF AssessmentRow, Status
  <1>4. CASE UNCHANGED assessment
    <2>1. \A s \in Section : QuizzesOf(s)' = QuizzesOf(s)
      BY <1>4 DEF QuizzesOf, Exists
    <2>2. QED  BY <1>4, <2>1, FewerQuizzes, FinishStep DEF IInv, TypeOK, UpdateWrite
  <1>5. CASE Admissible(q.aid, row) /\ assessment' = [assessment EXCEPT ![q.aid] = row]
    <2> HIDE DEF row
    <2>1. QuizzesAgree' /\ assessment' \in [Assessment -> AssessmentRow]
      BY <1>1, <1>3, <1>5, WriteRow DEF IInv
    <2>2. QED  BY <2>1, FinishStep DEF UpdateWrite
  <1>6. QED  BY <1>4, <1>5 DEF UpdateWrite

\* Deletions take quizzes away; a section's leaves its quiz without a section.
LEMMA DeletionStep ==
  ASSUME IInv, (\E a \in Assessment : DeleteAssessment(a))
                 \/ (\E s \in Section : DeleteSection(s))
  PROVE  IInv'
  <1>1. ASSUME NEW a \in Assessment, DeleteAssessment(a)
        PROVE  IInv'
    <2> DEFINE gone == [NoAssessment EXCEPT !.status = "deleted"]
    <2>1. gone \in AssessmentRow /\ gone.status \notin Status
      BY DEF NoAssessment, AssessmentRow, Status
    <2> HIDE DEF gone
    <2>2. assessment' = [assessment EXCEPT ![a] = gone]
      BY <1>1 DEF DeleteAssessment, gone
    <2>3. \A b \in Assessment : assessment'[b] = IF b = a THEN gone ELSE assessment[b]
      BY <2>2 DEF IInv, TypeOK
    <2>4. \A s \in Section : QuizzesOf(s)' \subseteq QuizzesOf(s)
      BY <2>1, <2>3 DEF QuizzesOf, Exists
    <2>5. TypeOK' /\ UpdatesKnown'
      BY <1>1, <2>1, <2>2 DEF IInv, TypeOK, UpdatesKnown, DeleteAssessment
    <2>6. QED  BY <2>4, <2>5, FewerQuizzes DEF IInv
  <1>2. ASSUME NEW t \in Section, DeleteSection(t)
        PROVE  IInv'
    <2>1. \A a \in Assessment :
              /\ assessment[a] \in AssessmentRow
              /\ assessment'[a] = IF assessment[a].section = t
                                  THEN [assessment[a] EXCEPT !.section = None]
                                  ELSE assessment[a]
      BY <1>2 DEF IInv, TypeOK, DeleteSection
    <2>2. \A a \in Assessment :
              /\ assessment'[a] \in AssessmentRow
              /\ assessment'[a].status = assessment[a].status
              /\ (assessment'[a].is_section_quiz <=> assessment[a].is_section_quiz)
              /\ assessment'[a].section \in {assessment[a].section, None}
      <3> SUFFICES ASSUME NEW a \in Assessment
                   PROVE  /\ assessment'[a] \in AssessmentRow
                          /\ assessment'[a].status = assessment[a].status
                          /\ (assessment'[a].is_section_quiz <=> assessment[a].is_section_quiz)
                          /\ assessment'[a].section \in {assessment[a].section, None}
        OBVIOUS
      <3>1. CASE assessment[a].section = t
        <4>1. assessment'[a] = [assessment[a] EXCEPT !.section = None]
          BY <2>1, <3>1
        <4>2. QED  BY <2>1, <4>1 DEF AssessmentRow
      <3>2. CASE assessment[a].section # t
        <4>1. assessment'[a] = assessment[a]
          BY <2>1, <3>2
        <4>2. QED  BY <2>1, <4>1
      <3>3. QED  BY <3>1, <3>2
    <2>3. \A s \in Section : QuizzesOf(s)' \subseteq QuizzesOf(s)
      BY <2>2, QuizzesConstants DEF QuizzesOf, Exists
    <2>4. assessment' \in [Assessment -> AssessmentRow]
      BY <1>2, <2>2 DEF DeleteSection
    <2>5. TypeOK' /\ UpdatesKnown'
      BY <1>2, <2>4 DEF IInv, TypeOK, UpdatesKnown, DeleteSection
    <2>6. QED  BY <2>3, <2>5, FewerQuizzes DEF IInv
  <1>3. QED  BY <1>1, <1>2

LEMMA NextIInv == IInv /\ [Next]_vars => IInv'
  <1> SUFFICES ASSUME IInv, [Next]_vars PROVE IInv'
    OBVIOUS
  <1>1. CASE UNCHANGED vars
    BY <1>1 DEF vars, IInv, TypeOK, QuizzesAgree, UpdatesKnown, QuizzesOf, Exists
  <1>2. ASSUME NEW r \in Req, Handle(r)
        PROVE  IInv'
    <2>1. ASSUME NEW row \in Created, CreateAssessment(r, row)
          PROVE  IInv'
      <3> DEFINE q == [Idle EXCEPT !.at = "create", !.row = row]
      <3>1. q \in Request /\ q.at = "create"
        BY IdleOK, QuizzesConstants DEF Idle, Request
      <3>2. req' = [req EXCEPT ![r] = q] /\ UNCHANGED db
        BY <2>1 DEF CreateAssessment, Begin
      <3>3. QED  BY <3>1, <3>2, RequestStep
    <2>2. ASSUME NEW a \in Assessment, NEW d \in Change, NEW b \in BOOLEAN,
                 UpdateAssessment(r, a, d, b)
          PROVE  IInv'
      <3> DEFINE q == [Idle EXCEPT !.at = "update", !.aid = a, !.row = assessment[a],
                                   !.data = d]
      <3>1. q \in Request /\ q.aid \in Assessment
        BY IdleOK DEF Idle, Request, IInv, TypeOK
      <3>2. req' = [req EXCEPT ![r] = q] /\ UNCHANGED db
        BY <2>2 DEF UpdateAssessment, Begin
      <3>3. QED  BY <3>1, <3>2, RequestStep
    <2>3. CASE CreateWrite(r)
      BY <2>3, CreateStep
    <2>4. CASE UpdateWrite(r)
      BY <2>4, UpdateStep
    <2>5. CASE Abort(r)
      BY <2>5, IdleOK, RequestStep DEF Abort, Finish
    <2>6. QED  BY <1>2, <2>1, <2>2, <2>3, <2>4, <2>5 DEF Handle
  <1>3. ASSUME NEW u \in Learner, NEW a \in Assessment, NEW p \in BOOLEAN, Submit(u, a, p)
        PROVE  IInv'
    <2>1. TypeOK' /\ UpdatesKnown'
      BY <1>3 DEF IInv, TypeOK, UpdatesKnown, Submit
    <2>2. \A s \in Section : QuizzesOf(s)' = QuizzesOf(s)
      BY <1>3 DEF Submit, QuizzesOf, Exists
    <2>3. QED  BY <2>1, <2>2, FewerQuizzes DEF IInv
  <1>4. QED  BY <1>1, <1>2, <1>3, DeletionStep DEF Next

\* The invariant holds in every reachable state.
THEOREM Invariance == Spec => []IInv
  BY InitIInv, NextIInv, PTL DEF Spec

\* Rows and requests keep their types.
THEOREM TypeCorrect == Spec => []TypeOK
  <1>1. IInv => TypeOK
    BY DEF IInv
  <1>2. QED  BY Invariance, <1>1, PTL

\* A section has one quiz, for any number of sections, assessments and authors:
\* the learner's scalar_one_or_none never meets two rows.
THEOREM SectionsHaveOneQuiz == Spec => []OneQuizPerSection
  <1>1. IInv => OneQuizPerSection
    <2> SUFFICES ASSUME IInv, NEW s \in Section
                 PROVE  Cardinality(QuizzesOf(s)) <= 1
      BY DEF OneQuizPerSection
    <2>1. CASE QuizzesOf(s) = {}
      BY <2>1, FS_EmptySet
    <2>2. ASSUME NEW a \in QuizzesOf(s)
          PROVE  Cardinality(QuizzesOf(s)) <= 1
      <3>1. \A b \in QuizzesOf(s) : b = a
        BY <2>2 DEF IInv, QuizzesAgree
      <3>2. QuizzesOf(s) = {a}
        BY <2>2, <3>1
      <3>3. Cardinality({a}) = 1
        BY FS_Singleton
      <3>4. QED  BY <3>2, <3>3
    <2>3. QED  BY <2>1, <2>2
  <1>2. QED  BY Invariance, <1>1, PTL

\* The gate lets a learner into a section exactly when the status call says so,
\* for any number of sections, assessments, authors and learners.
THEOREM StatusIsTheGate == Spec => []StatusAgreesWithGate
  <1>1. IInv => StatusAgreesWithGate
    <2> SUFFICES ASSUME IInv, NEW s \in section, NEW u \in Learner
                 PROVE  Opened(s, u) <=>
                            \A t \in section :
                                SectionOrder[t] < SectionOrder[s] /\ QuizStatus(t, u).required
                                    => QuizStatus(t, u).passed
      BY DEF StatusAgreesWithGate
    <2> DEFINE Shown(t) == {a \in QuizzesOf(t) : Visible(a)}
    <2>1. \A t \in section : /\ (QuizStatus(t, u).required <=> Shown(t) # {})
                             /\ (QuizStatus(t, u).passed <=> \E a \in Shown(t) : Passed(a, u))
      BY DEF QuizStatus, Passed
    <2>2. \A t \in section : \A a, b \in Shown(t) : a = b
      BY DEF IInv, TypeOK, QuizzesAgree
    <2>3. \A a : a \in PriorQuizzes(s) <=>
              \E t \in section : a \in Shown(t) /\ SectionOrder[t] < SectionOrder[s]
      BY DEF PriorQuizzes, QuizzesOf, Exists, Visible, Status
    <2>4. QED  BY <2>1, <2>2, <2>3 DEF Opened
  <1>2. QED  BY Invariance, <1>1, PTL

-----------------------------------------------------------------------------
(* Attempts *)

\* A sum of the community modules.
LEMMA AttemptSumIsFold ==
  \A f, T : A!SumFunctionOnSet(f, T) = SumOver(f, T)
  BY DEF A!SumFunctionOnSet, A!FoldFunctionOnSet, A!MapThenFoldSet, SumOver, SumOn, SumStep,
         Picked

LEMMA AttemptConstants ==
  /\ IsFiniteSet(Req) /\ IsFiniteSet(Assessment) /\ None \notin Learner
  /\ Points \subseteq Nat /\ PassPercent \in 0 .. 100
  /\ MaxAttempts \in Nat \ {0} /\ MaxOrder \in Nat
  /\ Cardinality(Req) \in Nat
  BY AttemptsHaveConstants, FS_CardinalityType DEF A!AttemptsConstants, A!IsFiniteSet, IsFiniteSet

LEMMA AttemptCardinality == \A T : A!Cardinality(T) = Cardinality(T)
  BY DEF A!Cardinality, Cardinality

\* The submissions of u that have been counted and not yet inserted.
Pending(u) == {r \in Req : sitting[r].at = "submit" /\ sitting[r].user = u}

\* What the stage of a call needs.
SittingOK(q) ==
    /\ q.at = "question" => q.order <= MaxOrder
    /\ q.at \in {"count", "submit"} => q.user \in Learner

QuestionsOK ==
    \A q \in A!Live : question[q].order <= MaxOrder /\ question[q].points \in Points

\* Each attempt in flight was counted below the limit.
RoomForPending ==
    \A u \in Learner :
        Len(submission[u]) + Cardinality(Pending(u)) <= MaxAttempts + Cardinality(Req) - 1

AttemptInv ==
    /\ question \in [Assessment -> A!QuestionRow]
    /\ submission \in [Learner -> Seq(A!Submission)]
    /\ sitting \in [Req -> A!Request]
    /\ QuestionsOK /\ RoomForPending
    /\ \A r \in Req : SittingOK(sitting[r])
    /\ A!PassIsEarned

LEMMA PendingIsFinite ==
  ASSUME NEW T \in SUBSET Req
  PROVE  IsFiniteSet(T) /\ Cardinality(T) \in Nat /\ Cardinality(T) <= Cardinality(Req)
  BY AttemptConstants, FS_Subset, FS_CardinalityType

LEMMA SittingIdleOK == A!Idle \in A!Request /\ SittingOK(A!Idle) /\ A!Idle.at = "idle"
  <1>1. <<>> \in A!Asked
    BY DEF A!Asked
  <1>2. QED  BY <1>1 DEF A!Idle, A!Request, SittingOK

\* Awarded is part of the total; whoever passes has the share asked for.
LEMMA GradeFacts ==
  ASSUME NEW asked \in A!Asked, NEW right \in SUBSET DOMAIN asked
  PROVE  LET worth   == [q \in DOMAIN asked |-> asked[q].points]
             awarded == A!SumFunctionOnSet(worth, right)
             total   == A!SumFunction(worth)
         IN  /\ A!ScorePercent(awarded, total) \in 0 .. 100
             /\ \A pass \in A!Passes(awarded, total) :
                  /\ pass \in BOOLEAN
                  /\ pass => /\ 100 * awarded >= PassPercent * total
                             /\ A!ScorePercent(awarded, total) >= PassPercent
  <1> DEFINE worth   == [q \in DOMAIN asked |-> asked[q].points]
             awarded == SumOver(worth, right)
             total   == SumOver(worth, DOMAIN asked)
             h       == [q \in right |-> q]
  <1>1. /\ DOMAIN asked \in SUBSET Assessment
        /\ \A q \in DOMAIN asked : asked[q].points \in Points
    BY DEF A!Asked
  <1>2. IsFiniteSet(DOMAIN asked) /\ IsFiniteSet(right)
    BY <1>1, AttemptConstants, FS_Subset
  <1>3. \A q \in DOMAIN asked : worth[q] \in Nat
    BY <1>1, AttemptConstants
  <1>4. /\ A!SumFunctionOnSet(worth, right) = awarded
        /\ A!SumFunction(worth) = total
    BY AttemptSumIsFold DEF A!SumFunction, A!FoldFunction, A!SumFunctionOnSet
  <1>5. awarded \in Nat /\ total \in Nat /\ awarded <= total
    <2>1. /\ h \in [right -> DOMAIN asked]
          /\ \A q \in right : worth[q] \in Nat /\ worth[h[q]] = worth[q]
          /\ \A j, k \in right : h[j] = h[k] => j = k
      BY <1>3
    <2> HIDE DEF worth, h
    <2>2. SumOver(worth, right) <= SumOver(worth, DOMAIN asked)
      BY <1>2, <1>3, <2>1, SumOfPart
    <2>3. SumOver(worth, right) \in Nat /\ SumOver(worth, DOMAIN asked) \in Nat
      BY <1>2, <1>3, <2>1, SumIsNumber
    <2>4. QED  BY <2>2, <2>3
  <1> HIDE DEF worth, awarded, total
  <1>6. /\ PassPercent \in Nat /\ PassPercent <= 100
    BY AttemptConstants
  <1>7. A!ScorePercent(awarded, total) = IF total = 0 THEN 0 ELSE Rounded(awarded, total)
    BY DEF A!ScorePercent, Rounded
  <1>8. A!ScorePercent(awarded, total) \in 0 .. 100
    <2>1. CASE total = 0
      BY <1>7, <2>1
    <2>2. CASE total # 0
      <3>1. Rounded(awarded, total) \in Nat /\ Rounded(awarded, total) <= 100
        BY <1>5, <2>2, RoundedBounds
      <3>2. QED  BY <1>7, <2>2, <3>1
    <2>3. QED  BY <2>1, <2>2
  <1>9. ASSUME NEW pass \in A!Passes(awarded, total)
        PROVE  /\ pass \in BOOLEAN
               /\ pass => 100 * awarded >= PassPercent * total
               /\ pass => (total = 0 => PassPercent = 0)
    <2>1. CASE 100 * awarded = PassPercent * total /\ awarded \notin {0, total}
      <3>1. A!Passes(awarded, total) = BOOLEAN
        BY <2>1 DEF A!Passes
      <3>2. pass \in BOOLEAN
        BY <1>9, <3>1
      <3>3. 100 * awarded >= PassPercent * total /\ total # 0
        BY <1>5, <1>6, <2>1
      <3>4. QED  BY <3>2, <3>3
    <2>2. CASE ~(100 * awarded = PassPercent * total /\ awarded \notin {0, total})
      <3> DEFINE high == 100 * awarded >= PassPercent * total /\ (total = 0 => PassPercent = 0)
      <3>1. A!Passes(awarded, total) = {high}
        BY <2>2 DEF A!Passes
      <3>2. pass = high
        BY <1>9, <3>1
      <3>3. QED  BY <3>2
    <2>3. QED  BY <2>1, <2>2
  <1>10. ASSUME NEW pass \in A!Passes(awarded, total), pass
         PROVE  A!ScorePercent(awarded, total) >= PassPercent
    <2>1. CASE total = 0
      <3>1. PassPercent = 0
        BY <1>9, <1>10, <2>1
      <3>2. QED  BY <1>7, <2>1, <3>1
    <2>2. CASE total # 0
      <3>1. 100 * awarded >= PassPercent * total
        BY <1>9, <1>10
      <3>2. Rounded(awarded, total) >= PassPercent
        BY <1>5, <1>6, <2>2, <3>1, RoundedBounds
      <3>3. QED  BY <1>7, <2>2, <3>2
    <2>3. QED  BY <2>1, <2>2
  <1>11. QED  BY <1>4, <1>8, <1>9, <1>10 DEF worth

-----------------------------------------------------------------------------

LEMMA AttemptInit == A!Init => AttemptInv
  <1> SUFFICES ASSUME A!Init
               PROVE  AttemptInv
    OBVIOUS
  <1>1. A!NoQuestion \in A!QuestionRow /\ A!NoQuestion.state = "absent"
    BY DEF A!NoQuestion, A!QuestionRow
  <1>2. /\ question \in [Assessment -> A!QuestionRow]
        /\ \A q \in Assessment : question[q].state = "absent"
    BY <1>1 DEF A!Init
  <1>3. \A u \in Learner : submission[u] = <<>>
    BY DEF A!Init
  <1>4. /\ submission \in [Learner -> Seq(A!Submission)]
        /\ \A u \in Learner : Len(submission[u]) = 0 /\ A!Rows(u) = {}
    BY <1>3 DEF A!Init, A!Rows
  <1>5. /\ sitting \in [Req -> A!Request]
        /\ \A r \in Req : SittingOK(sitting[r]) /\ sitting[r].at = "idle"
    BY SittingIdleOK DEF A!Init
  <1>6. QuestionsOK
    BY <1>2 DEF QuestionsOK, A!Live
  <1>7. RoomForPending
    <2> SUFFICES ASSUME NEW u \in Learner
                 PROVE  Len(submission[u]) + Cardinality(Pending(u))
                           <= MaxAttempts + Cardinality(Req) - 1
      BY DEF RoomForPending
    <2>1. Pending(u) = {}
      BY <1>5 DEF Pending
    <2>2. QED  BY <1>4, <2>1, AttemptConstants, FS_EmptySet
  <1>8. A!PassIsEarned
    BY <1>4 DEF A!PassIsEarned
  <1>9. QED  BY <1>2, <1>4, <1>5, <1>6, <1>7, <1>8 DEF AttemptInv

\* A call that goes on, but not to the insert of an attempt.
LEMMA SittingStep ==
  ASSUME AttemptInv, NEW r \in Req, NEW q \in A!Request, SittingOK(q), q.at # "submit",
         sitting' = [sitting EXCEPT ![r] = q], UNCHANGED submission,
         question' \in [Assessment -> A!QuestionRow], QuestionsOK'
  PROVE  AttemptInv'
  <1>1. sitting' \in [Req -> A!Request] /\ \A p \in Req : SittingOK(sitting'[p])
    BY DEF AttemptInv
  <1>2. RoomForPending'
    <2> SUFFICES ASSUME NEW u \in Learner
                 PROVE  Len(submission'[u]) + Cardinality(Pending(u)')
                           <= MaxAttempts + Cardinality(Req) - 1
      BY DEF RoomForPending
    <2>1. Pending(u)' \subseteq Pending(u) /\ Pending(u) \subseteq Req
      BY DEF Pending, AttemptInv
    <2> DEFINE now  == Pending(u)
               then == Pending(u)'
    <2> HIDE DEF now, then
    <2>2. then \subseteq now /\ now \subseteq Req
      BY <2>1 DEF now, then
    <2>3. /\ Cardinality(then) \in Nat /\ Cardinality(now) \in Nat
          /\ Cardinality(then) <= Cardinality(now)
      BY <2>2, AttemptConstants, FS_Subset, FS_CardinalityType
    <2>4. Len(submission[u]) + Cardinality(now) <= MaxAttempts + Cardinality(Req) - 1
      BY DEF AttemptInv, RoomForPending, now
    <2>5. Len(submission[u]) \in Nat /\ submission'[u] = submission[u]
      BY DEF AttemptInv
    <2>6. Len(submission[u]) + Cardinality(then) <= MaxAttempts + Cardinality(Req) - 1
      BY <2>3, <2>4, <2>5, AttemptConstants
    <2>7. QED  BY <2>5, <2>6 DEF then
  <1>3. A!PassIsEarned'
    BY DEF AttemptInv, A!PassIsEarned, A!Rows
  <1>4. QED  BY <1>1, <1>2, <1>3 DEF AttemptInv

LEMMA FinishSitting ==
  ASSUME AttemptInv, NEW r \in Req, A!Finish(r), UNCHANGED submission,
         question' \in [Assessment -> A!QuestionRow], QuestionsOK'
  PROVE  AttemptInv'
  BY SittingStep, SittingIdleOK DEF A!Finish

LEMMA QuestionsStay ==
  ASSUME AttemptInv, UNCHANGED question
  PROVE  question' \in [Assessment -> A!QuestionRow] /\ QuestionsOK'
  BY DEF AttemptInv, QuestionsOK, A!Live

\* One question's row is written.
LEMMA QuestionWrite ==
  ASSUME AttemptInv, NEW q \in Assessment, NEW row \in A!QuestionRow,
         row.state = "live" => row.order <= MaxOrder /\ row.points \in Points,
         question' = [question EXCEPT ![q] = row]
  PROVE  question' \in [Assessment -> A!QuestionRow] /\ QuestionsOK'
  BY DEF AttemptInv, QuestionsOK, A!Live

LEMMA AttemptRowsOK ==
  ASSUME NEW n \in Nat \ {0}, NEW score \in 0 .. 100, NEW pass \in BOOLEAN,
         NEW share \in BOOLEAN
  PROVE  [attempt_number |-> n, score_percent |-> score, passed |-> pass,
          reached |-> share] \in A!Submission
  BY DEF A!Submission

LEMMA AddQuestionOK ==
  ASSUME AttemptInv, NEW r \in Req, A!AddQuestion(r)
  PROVE  AttemptInv'
  <1>1. PICK n \in 0 .. MaxOrder :
           A!Begin(r, [A!Idle EXCEPT !.at = "question", !.order = n])
    BY DEF A!AddQuestion
  <1> DEFINE q == [A!Idle EXCEPT !.at = "question", !.order = n]
  <1>2. n \in Nat /\ n <= MaxOrder
    BY <1>1, AttemptConstants
  <1>3. q \in A!Request /\ SittingOK(q) /\ q.at # "submit"
    BY <1>2, SittingIdleOK DEF A!Request, SittingOK
  <1>4. sitting' = [sitting EXCEPT ![r] = q] /\ UNCHANGED question /\ UNCHANGED submission
    BY <1>1 DEF A!AddQuestion, A!Begin, A!db
  <1> HIDE DEF q
  <1>5. QED  BY <1>3, <1>4, QuestionsStay, SittingStep

LEMMA AddQuestionWriteOK ==
  ASSUME AttemptInv, NEW r \in Req, A!AddQuestionWrite(r)
  PROVE  AttemptInv'
  <1>1. question' \in [Assessment -> A!QuestionRow] /\ QuestionsOK'
    <2>1. CASE UNCHANGED question
      BY <2>1, QuestionsStay
    <2>2. CASE \E q \in Assessment, p \in Points, k \in SUBSET Option :
                  question' = [question EXCEPT ![q] =
                     [state |-> "live", order |-> sitting[r].order, points |-> p, key |-> k]]
      <3>1. PICK q \in Assessment, p \in Points, k \in SUBSET Option :
                  question' = [question EXCEPT ![q] =
                     [state |-> "live", order |-> sitting[r].order, points |-> p, key |-> k]]
        BY <2>2
      <3> DEFINE row == [state |-> "live", order |-> sitting[r].order, points |-> p, key |-> k]
      <3>2. sitting[r].order \in Nat /\ sitting[r].order <= MaxOrder /\ p \in Nat
        BY AttemptConstants DEF A!AddQuestionWrite, AttemptInv, A!Request, SittingOK
      <3>3. row \in A!QuestionRow /\ row.order <= MaxOrder /\ row.points \in Points
        BY <3>2 DEF A!QuestionRow
      <3>4. question' = [question EXCEPT ![q] = row]
        BY <3>1
      <3> HIDE DEF row
      <3>5. QED  BY <3>3, <3>4, QuestionWrite
    <2>3. QED  BY <2>1, <2>2 DEF A!AddQuestionWrite
  <1>2. QED  BY <1>1, FinishSitting DEF A!AddQuestionWrite

LEMMA UpdateQuestionOK ==
  ASSUME AttemptInv, NEW q \in Assessment, NEW n \in 0 .. MaxOrder, NEW p \in Points,
         NEW k \in SUBSET Option, A!UpdateQuestion(q, n, p, k)
  PROVE  AttemptInv'
  <1> DEFINE row == [question[q] EXCEPT !.order = n, !.points = p, !.key = k]
  <1>1. n \in Nat /\ n <= MaxOrder /\ p \in Nat
    BY AttemptConstants
  <1>2. row \in A!QuestionRow /\ row.order <= MaxOrder /\ row.points \in Points
    BY <1>1 DEF AttemptInv, A!QuestionRow
  <1>3. question' = [question EXCEPT ![q] = row]
    BY DEF A!UpdateQuestion, AttemptInv
  <1>4. UNCHANGED submission /\ UNCHANGED sitting
    BY DEF A!UpdateQuestion
  <1> HIDE DEF row
  <1>5. question' \in [Assessment -> A!QuestionRow] /\ QuestionsOK'
    BY <1>2, <1>3, QuestionWrite
  <1>6. QED
    BY <1>4, <1>5
       DEF AttemptInv, RoomForPending, Pending, A!PassIsEarned, A!Rows

LEMMA DeleteQuestionOK ==
  ASSUME AttemptInv, NEW q \in Assessment, A!DeleteQuestion(q)
  PROVE  AttemptInv'
  <1> DEFINE row == [A!NoQuestion EXCEPT !.state = "deleted"]
  <1>1. row \in A!QuestionRow /\ row.state # "live"
    BY DEF A!NoQuestion, A!QuestionRow
  <1>2. /\ question' = [question EXCEPT ![q] = row]
        /\ UNCHANGED submission /\ UNCHANGED sitting
    BY DEF A!DeleteQuestion
  <1> HIDE DEF row
  <1>3. question' \in [Assessment -> A!QuestionRow] /\ QuestionsOK'
    BY <1>1, <1>2, QuestionWrite
  <1>4. QED
    BY <1>2, <1>3
       DEF AttemptInv, RoomForPending, Pending, A!PassIsEarned, A!Rows

LEMMA SubmitOK ==
  ASSUME AttemptInv, NEW r \in Req, NEW u \in Learner, A!Submit(r, u)
  PROVE  AttemptInv'
  <1> DEFINE asked == [q \in A!Live |-> [points |-> question[q].points,
                                         key |-> question[q].key]]
             call  == [A!Idle EXCEPT !.at = "count", !.user = u, !.asked = asked]
  <1>1. A!Live \in SUBSET Assessment
    BY DEF A!Live
  <1>2. asked \in [A!Live -> [points : Points, key : SUBSET Option]]
    BY DEF A!Live, AttemptInv, QuestionsOK, A!QuestionRow
  <1>3. asked \in A!Asked
    BY <1>1, <1>2 DEF A!Asked
  <1>4. sitting' = [sitting EXCEPT ![r] = call] /\ UNCHANGED question /\ UNCHANGED submission
    BY DEF A!Submit, A!Begin, A!db
  <1> HIDE DEF asked
  <1>5. call \in A!Request /\ SittingOK(call) /\ call.at # "submit"
    BY <1>3, SittingIdleOK DEF A!Request, SittingOK, A!Idle
  <1> HIDE DEF call
  <1>6. QED  BY <1>4, <1>5, QuestionsStay, SittingStep

\* An attempt that is counted below the limit leaves room for all in flight.
LEMMA CountAttemptsOK ==
  ASSUME AttemptInv, NEW r \in Req, A!CountAttempts(r)
  PROVE  AttemptInv'
  <1> DEFINE u    == sitting[r].user
             n    == Len(submission[u])
             call == [sitting[r] EXCEPT !.at = "submit", !.prior = n]
  <1>1. UNCHANGED question /\ UNCHANGED submission /\ sitting[r].at = "count"
    BY DEF A!CountAttempts, A!db
  <1>2. u \in Learner /\ n \in Nat /\ sitting[r] \in A!Request
    BY <1>1 DEF AttemptInv, SittingOK
  <1>3. CASE n < MaxAttempts
    <2>1. sitting' = [sitting EXCEPT ![r] = call]
      BY <1>3 DEF A!CountAttempts, A!AttemptsLeft, AttemptInv
    <2>2. call \in A!Request /\ call.user = u /\ call.at = "submit"
      BY <1>2 DEF A!Request
    <2> HIDE DEF call
    <2>3. sitting' \in [Req -> A!Request] /\ \A p \in Req : SittingOK(sitting'[p])
      BY <1>2, <2>1, <2>2 DEF AttemptInv, SittingOK
    <2>4. RoomForPending'
      <3> SUFFICES ASSUME NEW v \in Learner
                   PROVE  Len(submission'[v]) + Cardinality(Pending(v)')
                             <= MaxAttempts + Cardinality(Req) - 1
        BY DEF RoomForPending
      <3>1. CASE v = u
        <4>1. Pending(v)' \subseteq Req
          BY DEF Pending
        <4> DEFINE then == Pending(v)'
        <4>2. Cardinality(then) \in Nat /\ Cardinality(then) <= Cardinality(Req)
          BY <4>1, PendingIsFinite
        <4>3. Len(submission'[v]) = n
          BY <1>1, <3>1
        <4> HIDE DEF n, then
        <4>4. n + Cardinality(then) <= MaxAttempts + Cardinality(Req) - 1
          BY <1>2, <1>3, <4>2, AttemptConstants
        <4>5. QED  BY <4>3, <4>4 DEF then
      <3>2. CASE v # u
        <4>1. Pending(v)' = Pending(v)
          BY <1>1, <2>1, <2>2, <3>2 DEF Pending, AttemptInv
        <4>2. QED  BY <1>1, <4>1 DEF AttemptInv, RoomForPending
      <3>3. QED  BY <3>1, <3>2
    <2>5. A!PassIsEarned'
      BY <1>1 DEF AttemptInv, A!PassIsEarned, A!Rows
    <2>6. QED  BY <1>1, <2>3, <2>4, <2>5, QuestionsStay DEF AttemptInv
  <1>4. CASE ~(n < MaxAttempts)
    BY <1>1, <1>4, QuestionsStay, FinishSitting DEF A!CountAttempts, A!AttemptsLeft
  <1>5. QED  BY <1>3, <1>4

\* One more row, and one call fewer in flight.
LEMMA SubmitWriteOK ==
  ASSUME AttemptInv, NEW r \in Req, NEW answer, A!SubmitWrite(r, answer)
  PROVE  AttemptInv'
  <1>0. PICK u : u = sitting[r].user
    OBVIOUS
  <1> DEFINE asked   == sitting[r].asked
             worth   == [q \in DOMAIN asked |-> asked[q].points]
             right   == {q \in DOMAIN answer \cap DOMAIN asked : A!Correct(asked[q], answer[q])}
             awarded == A!SumFunctionOnSet(worth, right)
             total   == A!SumFunction(worth)
             score   == A!ScorePercent(awarded, total)
             share   == 100 * awarded >= PassPercent * total
             Row(pass) == [attempt_number |-> A!AttemptNumber(r), score_percent |-> score,
                           passed |-> pass, reached |-> share]
  <1>1. /\ UNCHANGED question /\ sitting[r].at = "submit"
        /\ sitting' = [sitting EXCEPT ![r] = A!Idle]
    BY DEF A!SubmitWrite, A!Finish
  <1>2. /\ u = sitting[r].user /\ u \in Learner /\ asked \in A!Asked /\ A!AttemptNumber(r) \in Nat \ {0}
        /\ submission[u] \in Seq(A!Submission)
    BY <1>0, <1>1 DEF AttemptInv, SittingOK, A!Request, A!AttemptNumber
  <1>3. right \in SUBSET DOMAIN asked
    OBVIOUS
  <1>4. CASE UNCHANGED submission
    BY <1>1, <1>4, QuestionsStay, FinishSitting DEF A!Finish
  <1>5. CASE \E pass \in A!Passes(awarded, total) :
                submission' = [submission EXCEPT ![u] = Append(@, Row(pass))]
    <2>1. PICK pass \in A!Passes(awarded, total) :
                  submission' = [submission EXCEPT ![u] = Append(@, Row(pass))]
      BY <1>5
    <2>2. /\ score \in 0 .. 100
          /\ pass \in BOOLEAN
          /\ pass => share /\ score >= PassPercent
      BY <1>2, <1>3, GradeFacts
    <2> HIDE DEF score
    <2>3. share \in BOOLEAN
      OBVIOUS
    <2> DEFINE row == Row(pass)
    <2>4. row \in A!Submission
      <3> HIDE DEF share
      <3>1. QED  BY <1>2, <2>2, <2>3, AttemptRowsOK
    <2>5. row.passed => row.reached /\ row.score_percent >= PassPercent
      BY <2>2
    <2>6. submission' = [submission EXCEPT ![u] = Append(submission[u], row)]
      BY <2>1
    <2> HIDE DEF row
    <2>7. /\ submission'[u] = Append(submission[u], row)
          /\ \A v \in Learner : v # u => submission'[v] = submission[v]
          /\ submission' \in [Learner -> Seq(A!Submission)]
      BY <1>2, <2>4, <2>6 DEF AttemptInv
    <2>8. /\ Len(submission'[u]) = Len(submission[u]) + 1
          /\ A!Rows(u)' \subseteq A!Rows(u) \cup {row}
      BY <1>2, <2>4, <2>7 DEF A!Rows
    <2>9. sitting' \in [Req -> A!Request] /\ \A p \in Req : SittingOK(sitting'[p])
      BY <1>1, SittingIdleOK DEF AttemptInv
    <2>10. RoomForPending'
      <3> SUFFICES ASSUME NEW v \in Learner
                   PROVE  Len(submission'[v]) + Cardinality(Pending(v)')
                             <= MaxAttempts + Cardinality(Req) - 1
        BY DEF RoomForPending
      <3>1. Len(submission[v]) + Cardinality(Pending(v)) <= MaxAttempts + Cardinality(Req) - 1
        BY DEF AttemptInv, RoomForPending
      <3>2. CASE v = u
        <4>1. r \in Pending(u) /\ Pending(u) \in SUBSET Req
          BY <1>1, <1>2 DEF Pending
        <4>2. Pending(u)' = Pending(u) \ {r}
          BY <1>1, SittingIdleOK DEF Pending, AttemptInv
        <4> DEFINE now == Pending(u)
        <4>3. IsFiniteSet(now) /\ Cardinality(now) \in Nat
          BY <4>1, PendingIsFinite
        <4>4. r \in now
          BY <4>1
        <4> HIDE DEF now
        <4>5. Cardinality(now \ {r}) = Cardinality(now) - 1
          BY <4>3, <4>4, FS_RemoveElement
        <4>6. Len(submission[u]) \in Nat
          BY <1>2
        <4>7. Len(submission[u]) + 1 + (Cardinality(now) - 1)
                 <= MaxAttempts + Cardinality(Req) - 1
          BY <3>1, <3>2, <4>3, <4>6, AttemptConstants DEF now
        <4>8. QED  BY <2>8, <3>2, <4>2, <4>5, <4>7 DEF now
      <3>3. CASE v # u
        <4>1. Pending(v)' = Pending(v)
          BY <1>1, <1>2, <3>3, SittingIdleOK DEF Pending, AttemptInv
        <4>2. QED  BY <2>7, <3>1, <3>3, <4>1
      <3>4. QED  BY <3>2, <3>3
    <2>11. A!PassIsEarned'
      <3> SUFFICES ASSUME NEW v \in Learner, NEW s \in A!Rows(v)', s.passed
                   PROVE  s.reached /\ s.score_percent >= PassPercent
        BY DEF A!PassIsEarned
      <3>1. \A t \in A!Rows(v) : t.passed => t.reached /\ t.score_percent >= PassPercent
        BY DEF AttemptInv, A!PassIsEarned
      <3>2. CASE v = u
        BY <2>5, <2>8, <3>1, <3>2
      <3>3. CASE v # u
        BY <2>7, <3>1, <3>3 DEF A!Rows
      <3>4. QED  BY <3>2, <3>3
    <2>12. QED  BY <1>1, <2>7, <2>9, <2>10, <2>11, QuestionsStay DEF AttemptInv
  <1>6. QED  BY <1>0, <1>4, <1>5 DEF A!SubmitWrite

LEMMA AttemptNextInv == AttemptInv /\ A!Next => AttemptInv'
  <1> SUFFICES ASSUME AttemptInv, A!Next
               PROVE  AttemptInv'
    OBVIOUS
  <1>1. CASE \E r \in Req : A!Handle(r)
    <2>1. PICK r \in Req : A!Handle(r)
      BY <1>1
    <2>2. CASE A!AddQuestion(r)
      BY <2>2, AddQuestionOK
    <2>3. CASE A!AddQuestionWrite(r)
      BY <2>3, AddQuestionWriteOK
    <2>4. CASE \E u \in Learner : A!Submit(r, u)
      BY <2>4, SubmitOK
    <2>5. CASE A!CountAttempts(r)
      BY <2>5, CountAttemptsOK
    <2>6. CASE \E answer \in A!Answers : A!SubmitWrite(r, answer)
      BY <2>6, SubmitWriteOK
    <2>7. CASE A!Abort(r)
      BY <2>7, QuestionsStay, FinishSitting DEF A!Abort, A!db
    <2>8. QED  BY <2>1, <2>2, <2>3, <2>4, <2>5, <2>6, <2>7 DEF A!Handle
  <1>2. CASE \E q \in Assessment, n \in 0 .. MaxOrder, p \in Points,
                k \in SUBSET Option : A!UpdateQuestion(q, n, p, k)
    BY <1>2, UpdateQuestionOK
  <1>3. CASE \E q \in Assessment : A!DeleteQuestion(q)
    BY <1>3, DeleteQuestionOK
  <1>4. QED  BY <1>1, <1>2, <1>3 DEF A!Next

LEMMA AttemptStutter == AttemptInv /\ UNCHANGED attemptsVars => AttemptInv'
  <1> SUFFICES ASSUME AttemptInv, UNCHANGED attemptsVars
               PROVE  AttemptInv'
    OBVIOUS
  <1>1. /\ question' = question /\ submission' = submission /\ sitting' = sitting
    BY DEF attemptsVars
  <1>2. QED
    BY <1>1, QuestionsStay
       DEF AttemptInv, RoomForPending, Pending, A!PassIsEarned, A!Rows

\* What the runs check of it.
LEMMA AttemptFacts == AttemptInv => A!TypeOK /\ A!AttemptsNearLimit /\ A!PassIsEarned
  <1> SUFFICES ASSUME AttemptInv
               PROVE  A!TypeOK /\ A!AttemptsNearLimit /\ A!PassIsEarned
    OBVIOUS
  <1>1. A!TypeOK
    BY DEF AttemptInv, A!TypeOK, A!Rows
  <1>2. A!AttemptsNearLimit
    <2> SUFFICES ASSUME NEW u \in Learner
                 PROVE  Len(submission[u]) <= MaxAttempts + Cardinality(Req) - 1
      BY AttemptCardinality DEF A!AttemptsNearLimit
    <2>1. Cardinality(Pending(u)) \in Nat
      BY PendingIsFinite DEF Pending
    <2>2. Len(submission[u]) \in Nat
      BY DEF AttemptInv
    <2>3. Len(submission[u]) + Cardinality(Pending(u)) <= MaxAttempts + Cardinality(Req) - 1
      BY DEF AttemptInv, RoomForPending
    <2>4. QED  BY <2>1, <2>2, <2>3, AttemptConstants
  <1>3. QED  BY <1>1, <1>2 DEF AttemptInv

-----------------------------------------------------------------------------
(* Practice *)

LEMMA PracticeSumIsFold ==
  \A f, T : P!SumFunctionOnSet(f, T) = SumOver(f, T)
  BY DEF P!SumFunctionOnSet, P!FoldFunctionOnSet, P!MapThenFoldSet, SumOver, SumOn, SumStep,
         Picked

LEMMA PracticeCardinality == \A T : P!Cardinality(T) = Cardinality(T)
  BY DEF P!Cardinality, Cardinality

LEMMA PracticeConstants ==
  /\ IsFiniteSet(Req) /\ IsFiniteSet(Item) /\ None \notin Quiz
  /\ ItemPoints \subseteq Nat /\ ItemPoints # {} /\ Data # {}
  /\ MaxItems \in Nat \ {0} /\ ItemOrder \in Nat /\ MaxAnswers \in Nat
  /\ Cardinality(Req) \in Nat
  BY PracticeHasConstants, FS_CardinalityType
     DEF P!PracticeConstants, P!IsFiniteSet, IsFiniteSet

LEMMA DataFacts ==
  ASSUME NEW d \in Data
  PROVE  /\ d.type \in {"mcq", "matching"} /\ IsFiniteSet(d.key)
         /\ Cardinality(d.key) \in Nat
         /\ d.type = "mcq" => Cardinality(d.key) = 1
  BY PracticeHasConstants, FS_CardinalityType
     DEF P!PracticeConstants, P!IsFiniteSet, IsFiniteSet, P!Cardinality, Cardinality

LEMMA ResponseFacts ==
  ASSUME NEW a \in Response
  PROVE  /\ Len(a.pairs) \in Nat /\ DOMAIN a.pairs = 1 .. Len(a.pairs)
         /\ \A k \in DOMAIN a.pairs :
               /\ a.pairs[k] = <<a.pairs[k][1], a.pairs[k][2]>>
               /\ a.type = "mcq" => a.pairs[k][1] = a.pairs[k][2]
  <1>1. a.pairs \in Seq(P!Range(a.pairs))
    BY PracticeHasConstants DEF P!PracticeConstants
  <1>2. \A k \in DOMAIN a.pairs : /\ a.pairs[k] = <<a.pairs[k][1], a.pairs[k][2]>>
                                  /\ a.type = "mcq" => a.pairs[k][1] = a.pairs[k][2]
    BY PracticeHasConstants DEF P!PracticeConstants
  <1>3. Len(a.pairs) \in Nat /\ DOMAIN a.pairs = 1 .. Len(a.pairs)
    BY <1>1
  <1>4. QED  BY <1>2, <1>3

\* _grade_matching counts the pairs and refuses foreign and repeated ones: with
\* as many pairs as there are ids, none is missing.
LEMMA MatchingIsExact ==
  ASSUME NEW key, IsFiniteSet(key), NEW n \in Nat, n = Cardinality(key),
         NEW pairs, DOMAIN pairs = 1 .. n, Len(pairs) = n,
         \A k \in 1 .. n : pairs[k] = <<pairs[k][1], pairs[k][2]>>
  PROVE  P!GradeMatching(key, pairs) <=> P!Range(pairs) = {<<k, k>> : k \in key}
  <1> DEFINE ids == [k \in 1 .. n |-> pairs[k][1]]
             D   == {<<k, k>> : k \in key}
  <1>1. IsFiniteSet(1 .. n) /\ Cardinality(1 .. n) = n
    BY FS_Interval
  <1>2. ASSUME P!GradeMatching(key, pairs)
        PROVE  P!Range(pairs) = D
    <2>1. \A k \in 1 .. n : /\ pairs[k][1] = pairs[k][2] /\ pairs[k][1] \in key
                            /\ \A j \in 1 .. k - 1 : pairs[j][1] # pairs[k][1]
      BY <1>2 DEF P!GradeMatching
    <2>2. \A j, k \in 1 .. n : ids[j] = ids[k] => j = k
      <3> SUFFICES ASSUME NEW j \in 1 .. n, NEW k \in 1 .. n, ids[j] = ids[k], j # k
                   PROVE  FALSE
        OBVIOUS
      <3>1. j \in 1 .. k - 1 \/ k \in 1 .. j - 1
        OBVIOUS
      <3>2. pairs[j][1] = pairs[k][1]
        OBVIOUS
      <3>3. QED  BY <2>1, <3>1, <3>2
    <2>3. ids \in Injection(1 .. n, key)
      BY <2>1, <2>2 DEF Injection, IsInjective
    <2>4. ids \in Surjection(1 .. n, key)
      <3> HIDE DEF ids
      <3>1. QED  BY <1>1, <2>3, FS_Injection
    <2>5. \A x \in key : \E k \in 1 .. n : pairs[k][1] = x
      BY <2>4 DEF Surjection
    <2>6. \A k \in 1 .. n : pairs[k] = <<pairs[k][1], pairs[k][1]>>
      BY <2>1
    <2>7. \A k \in 1 .. n : pairs[k] \in D
      BY <2>1, <2>6
    <2>8. \A y \in D : \E k \in 1 .. n : pairs[k] = y
      BY <2>5, <2>6
    <2> HIDE DEF D
    <2>9. QED  BY <2>7, <2>8 DEF P!Range
  <1>3. ASSUME P!Range(pairs) = D
        PROVE  P!GradeMatching(key, pairs)
    <2>1. \A k \in 1 .. n : \E x \in key : pairs[k] = <<x, x>>
      BY <1>3 DEF P!Range
    <2>2. \A k \in 1 .. n : pairs[k][1] = pairs[k][2] /\ pairs[k][1] \in key
      BY <2>1
    <2>3. \A x \in key : \E k \in 1 .. n : pairs[k] = <<x, x>>
      BY <1>3 DEF P!Range
    <2>4. ids \in Surjection(1 .. n, key)
      BY <2>2, <2>3 DEF Surjection
    <2>5. ids \in Injection(1 .. n, key)
      <3> HIDE DEF ids
      <3>1. QED  BY <1>1, <2>4, FS_SurjSameCardinalityImpliesInj
    <2>6. \A k \in 1 .. n : \A j \in 1 .. k - 1 : pairs[j][1] # pairs[k][1]
      <3> SUFFICES ASSUME NEW k \in 1 .. n, NEW j \in 1 .. k - 1, pairs[j][1] = pairs[k][1]
                   PROVE  FALSE
        OBVIOUS
      <3>1. j \in 1 .. n /\ j # k
        OBVIOUS
      <3>2. ids[j] = ids[k]
        BY <3>1
      <3>3. QED  BY <2>5, <3>1, <3>2 DEF Injection, IsInjective
    <2>7. QED  BY <2>2, <2>6, PracticeCardinality DEF P!GradeMatching
  <1>4. QED  BY <1>2, <1>3

\* What the graders accept is exactly an exact answer.
LEMMA CorrectIsExact ==
  ASSUME NEW d \in Data, NEW a \in Response
  PROVE  P!IsCorrect(d, a) <=> P!IsExact(d, a)
  <1> DEFINE pairs == a.pairs
             key   == d.key
             n     == Len(pairs)
  <1>1. /\ n \in Nat /\ DOMAIN pairs = 1 .. n
        /\ \A k \in 1 .. n : /\ pairs[k] = <<pairs[k][1], pairs[k][2]>>
                             /\ a.type = "mcq" => pairs[k][1] = pairs[k][2]
    BY ResponseFacts
  <1>2. /\ d.type \in {"mcq", "matching"} /\ IsFiniteSet(key)
        /\ d.type = "mcq" => Cardinality(key) = 1
    BY DataFacts
  <1>3. CASE d.type # a.type
    BY <1>3 DEF P!IsCorrect, P!IsExact
  <1>4. CASE d.type = a.type /\ d.type = "mcq"
    <2>1. PICK x : key = {x}
      BY <1>2, <1>4, FS_Singleton
    <2>2. {<<k, k>> : k \in key} = {<<x, x>>}
      BY <2>1
    <2>3. P!IsCorrect(d, a) <=> n = 1 /\ pairs[1][1] = x
      BY <1>4, <2>1 DEF P!IsCorrect, P!GradeMcq
    <2>4. P!IsExact(d, a) <=> P!Range(pairs) = {<<x, x>>} /\ n = 1
      BY <1>2, <1>4, <2>2, PracticeCardinality DEF P!IsExact
    <2>5. ASSUME n = 1
          PROVE  pairs[1][1] = x <=> P!Range(pairs) = {<<x, x>>}
      <3>1. DOMAIN pairs = {1} /\ 1 \in 1 .. n
        BY <1>1, <2>5
      <3>2. P!Range(pairs) = {pairs[1]}
        BY <3>1 DEF P!Range
      <3>3. pairs[1] = <<pairs[1][1], pairs[1][1]>>
        BY <1>1, <1>4, <3>1
      <3>4. QED  BY <3>2, <3>3
    <2>6. QED  BY <2>3, <2>4, <2>5
  <1>5. CASE d.type = a.type /\ d.type = "matching"
    <2>1. P!IsCorrect(d, a) <=> P!GradeMatching(key, pairs)
      BY <1>5 DEF P!IsCorrect
    <2>2. P!IsExact(d, a) <=> P!Range(pairs) = {<<k, k>> : k \in key} /\ n = Cardinality(key)
      BY <1>5, PracticeCardinality DEF P!IsExact
    <2>3. P!GradeMatching(key, pairs) => n = Cardinality(key)
      BY PracticeCardinality DEF P!GradeMatching
    <2>4. ASSUME n = Cardinality(key)
          PROVE  P!GradeMatching(key, pairs) <=> P!Range(pairs) = {<<k, k>> : k \in key}
      <3> HIDE DEF pairs, key
      <3>1. QED  BY <1>1, <1>2, <2>4, MatchingIsExact
    <2>5. QED  BY <2>1, <2>2, <2>3, <2>4
  <1>6. QED  BY <1>2, <1>3, <1>4, <1>5

\* Marks that are deserved: what the pack keeps of an attempt.
Deserved(o) ==
    /\ o \in P!Attempt
    /\ o.correct_count = o.deserved /\ o.correct_count <= o.total_count
    /\ o.score_percent <= 100

LEMMA NoAttemptOK == Deserved(P!NoAttempt)
  BY DEF Deserved, P!NoAttempt, P!Attempt

\* Answers to different items of a quiz: what they earn is part of its total.
LEMMA OutcomeIsDeserved ==
  ASSUME P!TypeOK, NEW z \in Quiz, NEW answers \in P!Answers,
         \A k \in DOMAIN answers : answers[k].item \in P!ItemsOf(z),
         P!AnsweredOnce(answers)
  PROVE  Deserved(P!Outcome(z, answers))
  <1> DEFINE data(k) == item[answers[k].item].data
             right   == {k \in DOMAIN answers : P!IsCorrect(data(k), answers[k].response)}
             exact   == {k \in DOMAIN answers : P!IsExact(data(k), answers[k].response)}
             items   == P!ItemsOf(z)
             given   == {answers[k].item : k \in right}
             f       == [k \in DOMAIN answers |-> item[answers[k].item].points]
             g       == [i \in Item |-> item[i].points]
             h       == [k \in right |-> answers[k].item]
             awarded == P!SumFunctionOnSet(f, right)
             total   == P!SumFunctionOnSet(g, items)
             base    == IF total = 0 THEN 1 ELSE total
  <1>1. PICK n \in 1 .. MaxAnswers : answers \in [1 .. n -> [item : Item, response : Response]]
    BY DEF P!Answers
  <1>2. /\ DOMAIN answers = 1 .. n /\ n \in Nat
        /\ \A k \in DOMAIN answers : /\ answers[k].item \in Item
                                     /\ answers[k].response \in Response
    BY <1>1, PracticeConstants
  <1>3. /\ items \in SUBSET Item
        /\ \A i \in Item : item[i].points \in Nat /\ item[i].data \in Data
    BY PracticeConstants DEF P!TypeOK, P!ItemRow, P!ItemsOf
  <1>4. /\ IsFiniteSet(1 .. n) /\ right \in SUBSET (1 .. n)
        /\ IsFiniteSet(right) /\ IsFiniteSet(items)
    <2>1. IsFiniteSet(1 .. n)
      BY <1>2, FS_Interval
    <2>2. right \in SUBSET (1 .. n)
      BY <1>2
    <2>3. IsFiniteSet(right)
      BY <2>1, <2>2, FS_Subset
    <2>4. IsFiniteSet(items)
      BY <1>3, PracticeConstants, FS_Subset
    <2>5. QED  BY <2>1, <2>2, <2>3, <2>4
  <1>5. exact = right
    <2>1. \A k \in DOMAIN answers :
             P!IsCorrect(data(k), answers[k].response) <=> P!IsExact(data(k), answers[k].response)
      BY <1>2, <1>3, CorrectIsExact
    <2>2. QED  BY <2>1
  <1>6. \A j, k \in right : answers[j].item = answers[k].item => j = k
    <2> SUFFICES ASSUME NEW j \in right, NEW k \in right, answers[j].item = answers[k].item,
                        j # k
                 PROVE  FALSE
      OBVIOUS
    <2>1. j \in 1 .. n /\ k \in 1 .. n
      BY <1>4
    <2>2. j \in 1 .. k - 1 \/ k \in 1 .. j - 1
      BY <1>2, <2>1
    <2>3. QED  BY <1>2, <2>1, <2>2 DEF P!AnsweredOnce
  <1>7. given \in SUBSET items
    OBVIOUS
  <1>8. Cardinality(given) = Cardinality(right) /\ Cardinality(right) <= Cardinality(items)
    <2>1. h \in Surjection(right, given)
      BY DEF Surjection
    <2>2. h \in Injection(right, given)
      BY <1>6 DEF Injection, IsInjective
    <2> HIDE DEF h, given, right, items
    <2>3. Cardinality(given) = Cardinality(right)
      BY <1>4, <2>1, <2>2, FS_Surjection
    <2>4. Cardinality(given) <= Cardinality(items)
      BY <1>4, <1>7, FS_Subset
    <2>5. QED  BY <2>3, <2>4
  <1>9. awarded \in Nat /\ total \in Nat /\ awarded <= total
    <2>1. awarded = SumOver(f, right) /\ total = SumOver(g, items)
      BY PracticeSumIsFold
    <2>2. /\ h \in [right -> items]
          /\ \A k \in right : f[k] \in Nat /\ g[h[k]] = f[k]
          /\ \A j, k \in right : h[j] = h[k] => j = k
          /\ \A i \in items : g[i] \in Nat
      BY <1>2, <1>3, <1>6
    <2> HIDE DEF f, g, h, right, items
    <2>3. SumOver(f, right) <= SumOver(g, items)
      BY <1>4, <2>2, SumOfPart
    <2>4. SumOver(f, right) \in Nat /\ SumOver(g, items) \in Nat
      BY <1>4, <2>2, SumIsNumber
    <2>5. QED  BY <2>1, <2>3, <2>4
  <1>10. /\ Cardinality(right) \in Nat /\ Cardinality(items) \in Nat
    BY <1>4, FS_CardinalityType
  <1>11. P!Outcome(z, answers) = [score_percent |-> P!ScorePercent(awarded, base),
                                  correct_count |-> Cardinality(right),
                                  total_count   |-> Cardinality(items),
                                  deserved      |-> Cardinality(given)]
    BY <1>5, PracticeCardinality DEF P!Outcome
  <1> HIDE DEF awarded, total, right, items, given, exact
  <1>12. P!ScorePercent(awarded, base) \in Nat /\ P!ScorePercent(awarded, base) <= 100
    <2>1. P!ScorePercent(awarded, base) = Rounded(awarded, base)
      BY DEF P!ScorePercent, Rounded
    <2>2. base \in Nat /\ base # 0 /\ awarded <= base
      BY <1>9
    <2> HIDE DEF base
    <2>3. QED  BY <1>9, <2>1, <2>2, RoundedBounds
  <1> HIDE DEF base
  <1>13. QED  BY <1>8, <1>10, <1>11, <1>12 DEF Deserved, P!Attempt

-----------------------------------------------------------------------------

\* The items that were counted into quiz z and are not yet inserted.
Adding(z) == {r \in Req : visit[r].at = "item" /\ visit[r].quiz = z}

RoomForItems ==
    \A z \in Quiz : Cardinality(P!ItemsOf(z)) + Cardinality(Adding(z))
                       <= MaxItems + Cardinality(Req) - 1

PracticeInv ==
    /\ P!TypeOK
    /\ RoomForItems
    /\ Deserved(attempt)
    /\ \A r \in Req : Deserved(visit[r].outcome)

LEMMA VisitIdleOK == /\ P!Idle \in P!Request /\ P!Idle.at = "idle"
                     /\ P!Idle.outcome = P!NoAttempt /\ Deserved(P!Idle.outcome)
  <1>1. P!Idle.outcome = P!NoAttempt
    BY DEF P!Idle
  <1>2. 0 \in P!Order /\ P!NoAttempt \in P!Attempt
    BY PracticeConstants, NoAttemptOK DEF P!Order, Deserved
  <1>3. QED  BY <1>1, <1>2, NoAttemptOK DEF P!Idle, P!Request

LEMMA NoItemOK == P!NoItem \in P!ItemRow /\ P!NoItem.quiz = None
  <1>1. 0 \in P!Order /\ (CHOOSE p \in ItemPoints : TRUE) \in ItemPoints
           /\ (CHOOSE d \in Data : TRUE) \in Data
    BY PracticeConstants DEF P!Order
  <1>2. QED  BY <1>1 DEF P!NoItem, P!ItemRow

LEMMA NoQuizOK == P!NoQuiz \in P!QuizRow /\ P!NoQuiz.state = "absent"
  BY PracticeConstants DEF P!NoQuiz, P!QuizRow, P!Order

LEMMA ItemsAreFinite ==
  ASSUME NEW T \in SUBSET Item
  PROVE  IsFiniteSet(T) /\ Cardinality(T) \in Nat
  BY PracticeConstants, FS_Subset, FS_CardinalityType

LEMMA AddingIsFinite ==
  ASSUME NEW T \in SUBSET Req
  PROVE  IsFiniteSet(T) /\ Cardinality(T) \in Nat /\ Cardinality(T) <= Cardinality(Req)
  BY PracticeConstants, FS_Subset, FS_CardinalityType

LEMMA PracticeInit == P!Init => PracticeInv
  <1> SUFFICES ASSUME P!Init
               PROVE  PracticeInv
    OBVIOUS
  <1>1. P!TypeOK
    BY NoItemOK, NoQuizOK, NoAttemptOK, VisitIdleOK DEF P!Init, P!TypeOK, Deserved
  <1>2. /\ \A i \in Item : item[i].quiz = None
        /\ \A r \in Req : visit[r].at = "idle" /\ Deserved(visit[r].outcome)
        /\ Deserved(attempt)
    BY NoItemOK, NoAttemptOK, VisitIdleOK DEF P!Init
  <1>3. RoomForItems
    <2> SUFFICES ASSUME NEW z \in Quiz
                 PROVE  Cardinality(P!ItemsOf(z)) + Cardinality(Adding(z))
                           <= MaxItems + Cardinality(Req) - 1
      BY DEF RoomForItems
    <2>1. P!ItemsOf(z) = {} /\ Adding(z) = {}
      BY <1>2, PracticeConstants DEF P!ItemsOf, Adding
    <2>2. QED  BY <2>1, PracticeConstants, FS_EmptySet
  <1>4. QED  BY <1>1, <1>2, <1>3 DEF PracticeInv

\* Nothing is added to a quiz, and nobody starts to add.
LEMMA RoomStays ==
  ASSUME PracticeInv,
         \A z \in Quiz : /\ P!ItemsOf(z)' \subseteq P!ItemsOf(z)
                         /\ Adding(z)' \subseteq Adding(z)
  PROVE  RoomForItems'
  <1> SUFFICES ASSUME NEW z \in Quiz
               PROVE  Cardinality(P!ItemsOf(z)') + Cardinality(Adding(z)')
                         <= MaxItems + Cardinality(Req) - 1
    BY DEF RoomForItems
  <1> DEFINE a == P!ItemsOf(z)
             b == P!ItemsOf(z)'
             c == Adding(z)
             d == Adding(z)'
  <1>1. a \subseteq Item /\ b \subseteq a /\ c \subseteq Req /\ d \subseteq c
    BY DEF P!ItemsOf, Adding
  <1>2. Cardinality(a) + Cardinality(c) <= MaxItems + Cardinality(Req) - 1
    BY DEF PracticeInv, RoomForItems
  <1> HIDE DEF a, b, c, d
  <1>3. /\ IsFiniteSet(a) /\ Cardinality(a) \in Nat
        /\ IsFiniteSet(c) /\ Cardinality(c) \in Nat
    BY <1>1, ItemsAreFinite, AddingIsFinite
  <1>4. /\ Cardinality(b) \in Nat /\ Cardinality(b) <= Cardinality(a)
        /\ Cardinality(d) \in Nat /\ Cardinality(d) <= Cardinality(c)
    BY <1>1, <1>3, FS_Subset, FS_CardinalityType
  <1>5. Cardinality(b) + Cardinality(d) <= MaxItems + Cardinality(Req) - 1
    BY <1>2, <1>3, <1>4, PracticeConstants
  <1>6. QED  BY <1>5 DEF b, d

\* A call goes on, but not to the insert of an item.
LEMMA VisitStep ==
  ASSUME PracticeInv, NEW r \in Req, NEW q \in P!Request, q.at # "item",
         Deserved(q.outcome), visit' = [visit EXCEPT ![r] = q],
         pack' \in BOOLEAN, quiz' \in [Quiz -> P!QuizRow], UNCHANGED item,
         Deserved(attempt)'
  PROVE  PracticeInv'
  <1>1. visit' \in [Req -> P!Request] /\ \A p \in Req : Deserved(visit'[p].outcome)
    BY DEF PracticeInv, P!TypeOK
  <1>2. \A z \in Quiz : P!ItemsOf(z)' \subseteq P!ItemsOf(z) /\ Adding(z)' \subseteq Adding(z)
    BY DEF P!ItemsOf, Adding, PracticeInv, P!TypeOK
  <1>3. RoomForItems'
    BY <1>2, RoomStays
  <1>4. P!TypeOK'
    BY <1>1 DEF PracticeInv, P!TypeOK, Deserved
  <1>5. (\A p \in Req : Deserved(visit[p].outcome))'
    BY <1>1
  <1>6. QED  BY <1>3, <1>4, <1>5 DEF PracticeInv

LEMMA FinishVisit ==
  ASSUME PracticeInv, NEW r \in Req, P!Finish(r),
         pack' \in BOOLEAN, quiz' \in [Quiz -> P!QuizRow], UNCHANGED item,
         Deserved(attempt)'
  PROVE  PracticeInv'
  BY VisitStep, VisitIdleOK DEF P!Finish

LEMMA PackStays ==
  ASSUME PracticeInv
  PROVE  /\ UNCHANGED pack => pack' \in BOOLEAN
         /\ UNCHANGED quiz => quiz' \in [Quiz -> P!QuizRow]
         /\ UNCHANGED attempt => Deserved(attempt)'
  BY DEF PracticeInv, P!TypeOK, Deserved

LEMMA PackOK ==
  ASSUME PracticeInv, NEW r \in Req, P!CreatePack(r) \/ P!CreatePackWrite(r)
  PROVE  PracticeInv'
  <1>1. CASE P!CreatePack(r)
    <2> DEFINE q == [P!Idle EXCEPT !.at = "pack"]
    <2>1. /\ visit' = [visit EXCEPT ![r] = q]
          /\ UNCHANGED pack /\ UNCHANGED quiz /\ UNCHANGED item /\ UNCHANGED attempt
      BY <1>1 DEF P!CreatePack, P!Begin, P!db
    <2>2. q \in P!Request /\ q.at # "item" /\ Deserved(q.outcome)
      BY VisitIdleOK DEF P!Request
    <2> HIDE DEF q
    <2>3. QED  BY <2>1, <2>2, PackStays, VisitStep
  <1>2. CASE P!CreatePackWrite(r)
    <2>1. /\ P!Finish(r) /\ pack' \in BOOLEAN
          /\ UNCHANGED quiz /\ UNCHANGED item /\ UNCHANGED attempt
      BY <1>2 DEF P!CreatePackWrite
    <2>2. QED  BY <2>1, PackStays, FinishVisit
  <1>3. QED  BY <1>1, <1>2

LEMMA CreateQuizOK ==
  ASSUME PracticeInv, NEW r \in Req, P!CreateQuiz(r)
  PROVE  PracticeInv'
  <1>1. PICK n \in P!Order : P!Begin(r, [P!Idle EXCEPT !.at = "quiz", !.order = n])
    BY DEF P!CreateQuiz
  <1> DEFINE q == [P!Idle EXCEPT !.at = "quiz", !.order = n]
  <1>2. /\ visit' = [visit EXCEPT ![r] = q]
        /\ UNCHANGED pack /\ UNCHANGED quiz /\ UNCHANGED item /\ UNCHANGED attempt
    BY <1>1 DEF P!CreateQuiz, P!Begin, P!db
  <1>3. q \in P!Request /\ q.at # "item" /\ Deserved(q.outcome)
    BY VisitIdleOK DEF P!Request
  <1> HIDE DEF q
  <1>4. QED  BY <1>2, <1>3, PackStays, VisitStep

LEMMA CreateQuizWriteOK ==
  ASSUME PracticeInv, NEW r \in Req, P!CreateQuizWrite(r)
  PROVE  PracticeInv'
  <1>1. /\ P!Finish(r) /\ UNCHANGED pack /\ UNCHANGED item /\ UNCHANGED attempt
    BY DEF P!CreateQuizWrite
  <1>2. quiz' \in [Quiz -> P!QuizRow]
    <2>1. CASE UNCHANGED quiz
      BY <2>1, PackStays
    <2>2. CASE \E z \in Quiz, b \in BOOLEAN : quiz' = [quiz EXCEPT ![z] =
                  [state |-> "live", order |-> visit[r].order, is_published |-> b]]
      <3>1. PICK z \in Quiz, b \in BOOLEAN : quiz' = [quiz EXCEPT ![z] =
                  [state |-> "live", order |-> visit[r].order, is_published |-> b]]
        BY <2>2
      <3>2. visit[r].order \in P!Order
        BY DEF PracticeInv, P!TypeOK, P!Request
      <3>3. [state |-> "live", order |-> visit[r].order, is_published |-> b] \in P!QuizRow
        BY <3>2 DEF P!QuizRow
      <3>4. QED  BY <3>1, <3>3 DEF PracticeInv, P!TypeOK
    <2>3. QED  BY <2>1, <2>2 DEF P!CreateQuizWrite
  <1>3. QED  BY <1>1, <1>2, PackStays, FinishVisit

\* Edits leave every call where it is.
LEMMA UpdateQuizOK ==
  ASSUME PracticeInv, NEW z \in Quiz, NEW n \in P!Order, NEW b \in BOOLEAN,
         P!UpdateQuiz(z, n, b)
  PROVE  PracticeInv'
  <1>1. /\ quiz' = [quiz EXCEPT ![z].order = n, ![z].is_published = b]
        /\ UNCHANGED pack /\ UNCHANGED item /\ UNCHANGED attempt /\ UNCHANGED visit
    BY DEF P!UpdateQuiz
  <1>2. quiz' \in [Quiz -> P!QuizRow]
    BY <1>1 DEF PracticeInv, P!TypeOK, P!QuizRow
  <1>3. RoomForItems'
    BY <1>1, RoomStays DEF P!ItemsOf, Adding
  <1>4. QED  BY <1>1, <1>2, <1>3 DEF PracticeInv, P!TypeOK, Deserved

LEMMA DeleteQuizOK ==
  ASSUME PracticeInv, NEW z \in Quiz, P!DeleteQuiz(z)
  PROVE  PracticeInv'
  <1>1. /\ quiz' = [quiz EXCEPT ![z] = [P!NoQuiz EXCEPT !.state = "deleted"]]
        /\ item' = [i \in Item |-> IF item[i].quiz = z THEN P!NoItem ELSE item[i]]
        /\ UNCHANGED pack /\ UNCHANGED attempt /\ UNCHANGED visit
    BY DEF P!DeleteQuiz
  <1>2. [P!NoQuiz EXCEPT !.state = "deleted"] \in P!QuizRow
    BY NoQuizOK DEF P!QuizRow
  <1>3. quiz' \in [Quiz -> P!QuizRow] /\ item' \in [Item -> P!ItemRow]
    BY <1>1, <1>2, NoItemOK DEF PracticeInv, P!TypeOK
  <1>4. \A w \in Quiz : P!ItemsOf(w)' \subseteq P!ItemsOf(w) /\ Adding(w)' \subseteq Adding(w)
    BY <1>1, NoItemOK, PracticeConstants DEF P!ItemsOf, Adding
  <1>5. RoomForItems'
    BY <1>4, RoomStays
  <1>6. QED  BY <1>1, <1>3, <1>5 DEF PracticeInv, P!TypeOK, Deserved

\* One item that is not of another quiz than before.
LEMMA ItemEdit ==
  ASSUME PracticeInv, NEW i \in Item, NEW row \in P!ItemRow,
         row.quiz \in {item[i].quiz, None},
         item' = [item EXCEPT ![i] = row],
         UNCHANGED pack, UNCHANGED quiz, UNCHANGED attempt, UNCHANGED visit
  PROVE  PracticeInv'
  <1>1. item' \in [Item -> P!ItemRow]
    BY DEF PracticeInv, P!TypeOK
  <1>2. \A w \in Quiz : P!ItemsOf(w)' \subseteq P!ItemsOf(w) /\ Adding(w)' \subseteq Adding(w)
    BY PracticeConstants DEF P!ItemsOf, Adding, PracticeInv, P!TypeOK
  <1>3. RoomForItems'
    BY <1>2, RoomStays
  <1>4. QED  BY <1>1, <1>3 DEF PracticeInv, P!TypeOK, Deserved

LEMMA UpdateItemOK ==
  ASSUME PracticeInv, NEW i \in Item, NEW n \in P!Order, NEW p \in ItemPoints, NEW d \in Data,
         P!UpdateItem(i, n, p, d)
  PROVE  PracticeInv'
  <1> DEFINE row == [item[i] EXCEPT !.order = n, !.points = p, !.data = d]
  <1>1. row \in P!ItemRow /\ row.quiz = item[i].quiz
    BY DEF PracticeInv, P!TypeOK, P!ItemRow
  <1>2. /\ item' = [item EXCEPT ![i] = row]
        /\ UNCHANGED pack /\ UNCHANGED quiz /\ UNCHANGED attempt /\ UNCHANGED visit
    BY DEF P!UpdateItem, PracticeInv, P!TypeOK
  <1> HIDE DEF row
  <1>3. QED  BY <1>1, <1>2, ItemEdit

LEMMA DeleteItemOK ==
  ASSUME PracticeInv, NEW i \in Item, P!DeleteItem(i)
  PROVE  PracticeInv'
  BY NoItemOK, ItemEdit DEF P!DeleteItem

\* add_item counts below the limit, and so leaves room for all in flight.
LEMMA AddItemOK ==
  ASSUME PracticeInv, NEW r \in Req, NEW z \in Quiz, P!AddItem(r, z)
  PROVE  PracticeInv'
  <1>1. PICK n \in P!Order : P!Begin(r, [P!Idle EXCEPT !.at = "item", !.quiz = z, !.order = n])
    BY DEF P!AddItem
  <1> DEFINE q == [P!Idle EXCEPT !.at = "item", !.quiz = z, !.order = n]
  <1>2. /\ visit' = [visit EXCEPT ![r] = q]
        /\ UNCHANGED pack /\ UNCHANGED quiz /\ UNCHANGED item /\ UNCHANGED attempt
    BY <1>1 DEF P!AddItem, P!Begin, P!db
  <1>3. q \in P!Request /\ q.quiz = z /\ Deserved(q.outcome)
    BY VisitIdleOK DEF P!Request
  <1> HIDE DEF q
  <1>4. visit' \in [Req -> P!Request] /\ \A p \in Req : Deserved(visit'[p].outcome)
    BY <1>2, <1>3 DEF PracticeInv, P!TypeOK
  <1>5. RoomForItems'
    <2> SUFFICES ASSUME NEW w \in Quiz
                 PROVE  Cardinality(P!ItemsOf(w)') + Cardinality(Adding(w)')
                           <= MaxItems + Cardinality(Req) - 1
      BY DEF RoomForItems
    <2>1. P!ItemsOf(w)' = P!ItemsOf(w)
      BY <1>2 DEF P!ItemsOf
    <2>2. CASE w = z
      <3> DEFINE a == P!ItemsOf(w)
                 d == Adding(w)'
      <3>1. d \in SUBSET Req /\ a \in SUBSET Item
        BY DEF Adding, P!ItemsOf
      <3>2. Cardinality(a) < MaxItems
        BY <2>2, PracticeCardinality DEF P!AddItem, P!RoomLeft
      <3> HIDE DEF a, d
      <3>3. Cardinality(d) \in Nat /\ Cardinality(d) <= Cardinality(Req)
        BY <3>1, AddingIsFinite
      <3>4. Cardinality(a) \in Nat
        BY <3>1, ItemsAreFinite
      <3>5. Cardinality(a) + Cardinality(d) <= MaxItems + Cardinality(Req) - 1
        BY <3>2, <3>3, <3>4, PracticeConstants
      <3>6. QED  BY <2>1, <3>5 DEF a, d
    <2>3. CASE w # z
      <3>1. Adding(w)' \subseteq Adding(w) /\ Adding(w) \subseteq Adding(w)'
        BY <1>2, <1>3, <2>3, VisitIdleOK, <1>1 DEF Adding, PracticeInv, P!TypeOK, P!Begin
      <3>2. Adding(w)' = Adding(w)
        BY <3>1
      <3>3. QED  BY <2>1, <3>2 DEF PracticeInv, RoomForItems
    <2>4. QED  BY <2>2, <2>3
  <1>6. QED  BY <1>2, <1>4, <1>5 DEF PracticeInv, P!TypeOK, Deserved

\* One more item, and one call fewer in flight.
LEMMA AddItemWriteOK ==
  ASSUME PracticeInv, NEW r \in Req, P!AddItemWrite(r)
  PROVE  PracticeInv'
  <1> DEFINE z    == visit[r].quiz
             n    == visit[r].order
             live == z \in P!LiveQuizzes /\ n \notin P!ItemOrders(z)
  <1>1. /\ visit[r].at = "item" /\ visit' = [visit EXCEPT ![r] = P!Idle]
        /\ UNCHANGED pack /\ UNCHANGED quiz /\ UNCHANGED attempt
    BY DEF P!AddItemWrite, P!Finish
  <1>2. CASE UNCHANGED item
    BY <1>1, <1>2, PackStays, FinishVisit DEF P!Finish
  <1>3. CASE \E i \in Item, p \in ItemPoints, d \in Data :
                /\ live /\ item[i].quiz = None
                /\ item' = [item EXCEPT ![i] =
                               [quiz |-> z, order |-> n, points |-> p, data |-> d]]
    <2>1. PICK i \in Item, p \in ItemPoints, d \in Data :
                /\ live /\ item[i].quiz = None
                /\ item' = [item EXCEPT ![i] =
                               [quiz |-> z, order |-> n, points |-> p, data |-> d]]
      BY <1>3
    <2>2. z \in Quiz /\ n \in P!Order
      BY <2>1 DEF P!LiveQuizzes, PracticeInv, P!TypeOK, P!Request
    <2>3. PICK row \in P!ItemRow : row = [quiz |-> z, order |-> n, points |-> p, data |-> d]
      BY <2>2 DEF P!ItemRow
    <2>4. /\ item' = [item EXCEPT ![i] = row] /\ row.quiz = z
          /\ item' \in [Item -> P!ItemRow]
      BY <2>1, <2>3 DEF PracticeInv, P!TypeOK
    <2>5. visit' \in [Req -> P!Request] /\ \A p2 \in Req : Deserved(visit'[p2].outcome)
      BY <1>1, VisitIdleOK DEF PracticeInv, P!TypeOK
    <2>6. RoomForItems'
      <3> SUFFICES ASSUME NEW w \in Quiz
                   PROVE  Cardinality(P!ItemsOf(w)') + Cardinality(Adding(w)')
                             <= MaxItems + Cardinality(Req) - 1
        BY DEF RoomForItems
      <3>1. Cardinality(P!ItemsOf(w)) + Cardinality(Adding(w)) <= MaxItems + Cardinality(Req) - 1
        BY DEF PracticeInv, RoomForItems
      <3>2. CASE w = z
        <4>1. /\ P!ItemsOf(w)' = P!ItemsOf(w) \cup {i} /\ i \notin P!ItemsOf(w)
              /\ P!ItemsOf(w) \in SUBSET Item
          BY <2>1, <2>2, <2>4, <3>2, PracticeConstants DEF P!ItemsOf, PracticeInv, P!TypeOK
        <4>2. /\ Adding(w)' = Adding(w) \ {r} /\ r \in Adding(w) /\ Adding(w) \in SUBSET Req
          BY <1>1, <3>2, VisitIdleOK DEF Adding, PracticeInv, P!TypeOK
        <4> DEFINE a == P!ItemsOf(w)
                   c == Adding(w)
        <4>3. i \notin a /\ a \in SUBSET Item /\ r \in c /\ c \in SUBSET Req
          BY <4>1, <4>2
        <4> HIDE DEF a, c
        <4>4. /\ IsFiniteSet(a) /\ Cardinality(a) \in Nat
              /\ IsFiniteSet(c) /\ Cardinality(c) \in Nat
          BY <4>3, ItemsAreFinite, AddingIsFinite
        <4>5. Cardinality(a \cup {i}) = Cardinality(a) + 1
          BY <4>3, <4>4, FS_AddElement
        <4>6. Cardinality(c \ {r}) = Cardinality(c) - 1
          BY <4>3, <4>4, FS_RemoveElement
        <4>7. Cardinality(a \cup {i}) + Cardinality(c \ {r})
                 = Cardinality(a) + Cardinality(c)
          BY <4>4, <4>5, <4>6
        <4>8. P!ItemsOf(w)' = a \cup {i} /\ Adding(w)' = c \ {r}
          BY <4>1, <4>2 DEF a, c
        <4>9. QED  BY <3>1, <4>7, <4>8 DEF a, c
      <3>3. CASE w # z
        <4>1. P!ItemsOf(w)' = P!ItemsOf(w)
          BY <2>1, <2>4, <3>3, PracticeConstants DEF P!ItemsOf, PracticeInv, P!TypeOK
        <4>2. Adding(w)' = Adding(w)
          BY <1>1, <3>3, VisitIdleOK DEF Adding, PracticeInv, P!TypeOK
        <4>3. QED  BY <3>1, <4>1, <4>2
      <3>4. QED  BY <3>2, <3>3
    <2>7. QED  BY <1>1, <2>4, <2>5, <2>6 DEF PracticeInv, P!TypeOK, Deserved
  <1>4. UNCHANGED item \/ \E i \in (IF live THEN {j \in Item : item[j].quiz = None} ELSE {}),
                                p \in ItemPoints, d \in Data :
              item' = [item EXCEPT ![i] =
                          [quiz |-> z, order |-> n, points |-> p, data |-> d]]
    BY DEF P!AddItemWrite
  <1>5. QED  BY <1>2, <1>3, <1>4

LEMMA SubmitAttemptOK ==
  ASSUME PracticeInv, NEW r \in Req, NEW z \in Quiz, NEW answers \in P!Answers,
         P!SubmitAttempt(r, z, answers)
  PROVE  PracticeInv'
  <1> DEFINE out == P!Outcome(z, answers)
             q   == [P!Idle EXCEPT !.at = "graded", !.quiz = z, !.outcome = out]
  <1>1. Deserved(out)
    BY OutcomeIsDeserved DEF PracticeInv, P!SubmitAttempt
  <1>2. /\ visit' = [visit EXCEPT ![r] = q]
        /\ UNCHANGED pack /\ UNCHANGED quiz /\ UNCHANGED item /\ UNCHANGED attempt
    BY DEF P!SubmitAttempt, P!Begin, P!db
  <1> HIDE DEF out
  <1>3. q \in P!Request /\ q.at # "item" /\ q.outcome = out
    BY <1>1, VisitIdleOK DEF P!Request, P!Idle, Deserved
  <1> HIDE DEF q
  <1>4. QED  BY <1>1, <1>2, <1>3, PackStays, VisitStep

LEMMA SubmitAttemptWriteOK ==
  ASSUME PracticeInv, NEW r \in Req, P!SubmitAttemptWrite(r)
  PROVE  PracticeInv'
  <1>1. /\ P!Finish(r) /\ UNCHANGED pack /\ UNCHANGED quiz /\ UNCHANGED item
        /\ attempt' \in {visit[r].outcome, attempt}
    BY DEF P!SubmitAttemptWrite
  <1>2. Deserved(visit[r].outcome) /\ Deserved(attempt)
    BY DEF PracticeInv
  <1>3. Deserved(attempt')
    BY <1>1, <1>2
  <1>4. Deserved(attempt)'
    BY <1>3
  <1>5. QED  BY <1>1, <1>4, PackStays, FinishVisit

LEMMA PracticeNextInv == PracticeInv /\ P!Next => PracticeInv'
  <1> SUFFICES ASSUME PracticeInv, P!Next
               PROVE  PracticeInv'
    OBVIOUS
  <1>1. ASSUME NEW r \in Req, P!Author(r)
        PROVE  PracticeInv'
    BY <1>1, PackOK, CreateQuizOK, CreateQuizWriteOK, AddItemOK, AddItemWriteOK DEF P!Author
  <1>2. ASSUME NEW r \in Req, P!Learn(r)
        PROVE  PracticeInv'
    BY <1>2, SubmitAttemptOK, SubmitAttemptWriteOK DEF P!Learn
  <1>3. ASSUME NEW r \in Req, P!Abort(r)
        PROVE  PracticeInv'
    BY <1>3, PackStays, FinishVisit DEF P!Abort, P!db
  <1>4. ASSUME P!Edit
        PROVE  PracticeInv'
    BY <1>4, DeleteQuizOK, UpdateQuizOK, DeleteItemOK, UpdateItemOK DEF P!Edit
  <1>5. QED  BY <1>1, <1>2, <1>3, <1>4 DEF P!Next

LEMMA PracticeStutter == PracticeInv /\ UNCHANGED practiceVars => PracticeInv'
  <1> SUFFICES ASSUME PracticeInv, UNCHANGED practiceVars
               PROVE  PracticeInv'
    OBVIOUS
  <1>1. /\ pack' = pack /\ quiz' = quiz /\ item' = item /\ attempt' = attempt
        /\ visit' = visit
    BY DEF practiceVars
  <1>2. RoomForItems'
    BY <1>1, RoomStays DEF P!ItemsOf, Adding
  <1>3. QED  BY <1>1, <1>2 DEF PracticeInv, P!TypeOK, Deserved

\* What the runs check of it.
LEMMA PracticeFacts == PracticeInv => P!TypeOK /\ P!ItemsNearLimit /\ P!MarksAreDeserved
  <1> SUFFICES ASSUME PracticeInv
               PROVE  P!TypeOK /\ P!ItemsNearLimit /\ P!MarksAreDeserved
    OBVIOUS
  <1>1. P!ItemsNearLimit
    <2> SUFFICES ASSUME NEW z \in P!LiveQuizzes
                 PROVE  Cardinality(P!ItemsOf(z)) <= MaxItems + Cardinality(Req) - 1
      BY PracticeCardinality DEF P!ItemsNearLimit
    <2>1. z \in Quiz
      BY DEF P!LiveQuizzes
    <2>2. Adding(z) \in SUBSET Req /\ P!ItemsOf(z) \in SUBSET Item
      BY DEF Adding, P!ItemsOf
    <2>3. Cardinality(Adding(z)) \in Nat /\ Cardinality(P!ItemsOf(z)) \in Nat
      BY <2>2, AddingIsFinite, ItemsAreFinite
    <2>4. Cardinality(P!ItemsOf(z)) + Cardinality(Adding(z)) <= MaxItems + Cardinality(Req) - 1
      BY <2>1 DEF PracticeInv, RoomForItems
    <2>5. QED  BY <2>3, <2>4, PracticeConstants
  <1>2. P!MarksAreDeserved
    BY DEF PracticeInv, Deserved, P!MarksAreDeserved
  <1>3. QED  BY <1>1, <1>2 DEF PracticeInv

-----------------------------------------------------------------------------
(* The behaviours of MCSpec are those of one part. *)

PartsInv == /\ part = "attempts" => AttemptInv
            /\ part = "practice" => PracticeInv

LEMMA PartsInvariance == MCSpec => []PartsInv
  <1>1. MCInit => PartsInv
    BY AttemptInit, PracticeInit DEF MCInit, PartsInv
  <1>2. PartsInv /\ [MCNext]_all => PartsInv'
    <2> SUFFICES ASSUME PartsInv, [MCNext]_all
                 PROVE  PartsInv'
      OBVIOUS
    <2>1. CASE UNCHANGED all
      <3>1. UNCHANGED part /\ UNCHANGED attemptsVars /\ UNCHANGED practiceVars
        BY <2>1 DEF all
      <3>2. QED  BY <3>1, AttemptStutter, PracticeStutter DEF PartsInv
    <2>2. CASE MCNext
      <3>1. CASE part = "attempts"
        BY <2>2, <3>1, AttemptNextInv DEF MCNext, PartsInv
      <3>2. CASE part = "practice"
        BY <2>2, <3>2, PracticeNextInv DEF MCNext, PartsInv
      <3>3. CASE part \notin {"attempts", "practice"}
        BY <2>2, <3>3 DEF MCNext, PartsInv
      <3>4. QED  BY <3>1, <3>2, <3>3
    <2>3. QED  BY <2>1, <2>2
  <1>3. QED  BY <1>1, <1>2, PTL DEF MCSpec

\* submit_assessment counts the attempts, and add_item the items, before they
\* insert: the limit is exceeded by less than the number of calls in flight.
THEOREM LimitsAreNearlyKept == MCSpec => []LimitsNearlyHold
  <1>1. PartsInv => LimitsNearlyHold
    BY AttemptFacts, PracticeFacts DEF PartsInv, LimitsNearlyHold
  <1>2. QED  BY PartsInvariance, <1>1, PTL

\* submit_assessment compares the raw percentage of the questions it loaded,
\* with floating-point rounding on the bar itself: whoever passes reached the
\* share asked for, and is shown at least the percentage required.
THEOREM PassesAreEarned == MCSpec => []PassIsEarned
  <1>1. PartsInv => PassIsEarned
    BY AttemptFacts DEF PartsInv, PassIsEarned
  <1>2. QED  BY PartsInvariance, <1>1, PTL

\* submit_attempt counts what _grade_mcq and _grade_matching accept: that is
\* exactly the exact answers, each once, and the score never exceeds 100.
THEOREM PracticeMarksAreDeserved == MCSpec => []MarksAreDeserved
  <1>1. PartsInv => MarksAreDeserved
    BY PracticeFacts DEF PartsInv, MarksAreDeserved
  <1>2. QED  BY PartsInvariance, <1>1, PTL

=============================================================================
