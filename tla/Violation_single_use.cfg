SPECIFICATION Spec
CONSTANTS
    Req = {r1}
    Buyer = {b1, b2}
    course = course
    program = program
    Course = {course}
    Program = {}
    Order = {o1, o2}
    PaymeTxn = {t1}
    Receipt = {k1}
    Promo = {p1}
    MaxUses = 1
    None = None
    Required <- MCRequired
    Price <- MCPrice
    CourseOf <- MCCourseOf
    Discount <- MCDiscount
SYMMETRY Symmetry
INVARIANT
    SingleUse
