SPECIFICATION MCSpec
CHECK_DEADLOCK FALSE
CONSTANTS
    Req = {r1}
    Lesson = {l1}
    Editable = {}
    Wants <- AllCalls
    Player = {r1}
    Count = 4
    Duration <- ShortEnd
    Lookahead = 1
    MaxRate = 2
    TicksPerSecond = 2
    MaxCredit = 7
    MaxGap = 8
    MaxElapsed = 12
    Never = Never
    Task = {t1, t2}
    MaxUpload = 3
    Length <- MCLength
    Key = {k1, k2}
    Kek = {e1, e2}
    None = None
    Parts = {"gate"}
PROPERTY
    PlaybackReachesEnd
