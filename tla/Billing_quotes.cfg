CONSTANTS
    p1 = p1  p2 = p2  p3 = p3
    Requests = {p1, p2}
    Prices = {1, 2}
    Original = Original
    AnyRevision = AnyRevision
SPECIFICATION Spec
SYMMETRY Symmetry
INVARIANTS QuoteIsOneList
CHECK_DEADLOCK FALSE
