SPECIFICATION MCSpec
CONSTANTS
    Req = {r1}
    RowCount = 2
    MaxOrder = 2
    Staging = "together"
    None = None
    Section = {s1}
    Lesson = {l1}
    Seconds = {30}
    User = {u1}
    Rating = {1}
    Course = {c1}
    Program = {p1}
    Chapter = {h1, h2}
    Parts = {"order"}
INVARIANT ReordersLand
