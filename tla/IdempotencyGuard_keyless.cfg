CONSTANTS
    p1 = p1  p2 = p2  p3 = p3  p4 = p4
    b1 = b1  b2 = b2
    Requests = {p1, p2, p3, p4}
    Bodies = {b1}
    Retention = 2
    MaxTime = 1
    Faults = FALSE
    NoRecord = NoRecord
SPECIFICATION Spec
SYMMETRY Symmetry
INVARIANTS AtMostOncePerKey
CHECK_DEADLOCK FALSE
