SPECIFICATION MCSpec
CONSTANTS
    Req = {r1, r2}
    Lesson = {l1, l2}
    Editable = {l2}
    Wants <- AllCalls
    Token = {t1, t2}
    None = None
    Limit = 2
    Window = 3
    MaxTime = 5
    Parts = {"learning", "cards", "limit"}
SYMMETRY Symmetry
INVARIANTS
    TypeOK
    CompletedIsCertified
    DefaultIsOne
    WindowHolds
