SPECIFICATION Spec
CONSTANTS
    Req = {r1, r2}
    Buyer = {b1}
    course = course
    program = program
    Course = {course}
    Program = {program}
    Order = {o1}
    PaymeTxn = {t1, t2}
    Receipt = {k1}
    Promo = {p1}
    MaxUses = 1
    None = None
    Required <- MCRequired
    Price <- MCPrice
    CourseOf <- MCCourseOf
    Discount <- MCDiscount
SYMMETRY Symmetry
INVARIANTS
    TypeOK
    PaidWasPerformed
    PendingIsUncharged
    UsesWithinMax
    PaidIsEntitled
PROPERTY
    TransactionFixed
