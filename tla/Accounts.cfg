SPECIFICATION MCSpec
CONSTANTS
    Req = {r1, r2}
    Token = {t1, t2, t3}
    ResetToken = {k1}
    Contact = {a1, a2}
    Identity = {i1, i2}
    User = {u1, u2}
    Parts = {"sessions", "phone", "signup"}
    None = None
SYMMETRY Symmetry
INVARIANTS
    EndedSessionsStayEnded
    OneHeir
    LiveCodeIsOne
    PasswordIsRedeemed
    ConflictsResolved
