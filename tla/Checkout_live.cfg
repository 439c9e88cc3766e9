SPECIFICATION FairSpec
CONSTANTS
    Req = {r1, r2}
    Buyer = {b1}
    course = course
    program = program
    Course = {course}
    Program = {}
    Order = {o1}
    PaymeTxn = {t1}
    Receipt = {}
    Promo = {p1}
    MaxUses = 1
    None = None
    Required <- MCRequired
    Price <- MCPrice
    CourseOf <- MCCourseOf
    Discount <- MCDiscount
PROPERTY RetriesSettle
