SPECIFICATION MCSpec
CONSTANTS
    Req = {r1, r2}
    s1 = s1
    s2 = s2
    Section = {s1, s2}
    SectionOrder <- MCOrder
    Learner = {u1}
    Created <- MCCreated
    Change <- MCChange
    Assessment = {q1, q2}
    Option = {o1}
    Points = {1, 2}
    PassPercent = 67
    MaxAttempts = 1
    MaxOrder = 1
    Quiz = {z1}
    Item = {i1, i2, i3}
    MaxItems = 1
    ItemPoints = {1}
    ItemOrder = 2
    Data <- MCData
    Response <- MCResponse
    MaxAnswers = 2
    Parts = {"quizzes", "attempts", "practice"}
    None = None
SYMMETRY Symmetry
INVARIANTS
    OneQuizPerSection
    StatusAgreesWithGate
    LimitsNearlyHold
    PassIsEarned
    MarksAreDeserved
