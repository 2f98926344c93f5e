CONSTANTS
    p1 = p1  p2 = p2  p3 = p3
    Requests = {p1, p2, p3}
    Prices = {0, 1, 2}
    Original = Original
    AnyRevision = AnyRevision
SPECIFICATION Spec
SYMMETRY Symmetry
INVARIANTS TypeOK PaidWhenSettled
PROPERTIES IssuedForGood ChangedAsShown
CHECK_DEADLOCK FALSE
