SPECIFICATION MCSpec
CONSTANTS
    Req = {r1}
    Token = {t1, t2}
    ResetToken = {k1}
    Contact = {a1}
    Identity = {i1}
    User = {u1}
    Parts = {"sessions"}
    None = None
PROPERTY PasswordChangeEndsSessions
