SPECIFICATION MCSpec
CONSTANTS
    Req = {r1, r2}
    RowCount = 2
    MaxOrder = 2
    Staging = "apart"
    None = None
    Section = {s1, s2}
    Lesson = {l1, l2}
    Seconds = {30, 90}
    User = {u1, u2}
    Rating = {1, 5}
    Course = {c1}
    Program = {p1}
    Chapter = {h1, h2}
    Parts = {"order", "tree", "reviews", "catalog", "progress"}
SYMMETRY Symmetry
INVARIANTS
    ReordersLand
    AggregatesHeal
    SoldStays
