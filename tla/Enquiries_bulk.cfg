CONSTANTS
    m1 = m1  m2 = m2  p1 = p1  p2 = p2  p3 = p3  p4 = p4
    Messages = {m1}
    Requests = {p1, p2}
    None = None
SPECIFICATION Spec
SYMMETRY Symmetry
INVARIANTS FollowUpsClosedWithThem
CHECK_DEADLOCK FALSE
