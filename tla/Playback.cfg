SPECIFICATION MCSpec
CHECK_DEADLOCK FALSE
CONSTANTS
    Req = {r1, r2}
    Lesson = {l1, l2, l3}
    Editable = {l3}
    Wants <- AllCalls
    Player = {r1}
    Count = 4
    Duration <- StreamCopy
    Lookahead = 1
    MaxRate = 2
    TicksPerSecond = 2
    MaxCredit = 4
    MaxGap = 6
    MaxElapsed = 12
    Never = Never
    Task = {t1, t2}
    MaxUpload = 3
    Length <- MCLength
    Key = {k1, k2}
    Kek = {e1, e2}
    None = None
    Parts = {"alone", "updates", "forward", "gate", "packaging"}
INVARIANTS
    UpdatesAgree
    CertificateIsOne
    WatchedLongEnough
    Decryptable
    ReadyIsWhole
PROPERTIES
    RecomputedIsRight
    ForwardCompletes
    PlaybackReachesEnd
    PackagingSettles
