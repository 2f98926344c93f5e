CONSTANTS
    p1 = p1  p2 = p2  p3 = p3  p4 = p4
    b1 = b1  b2 = b2
    Requests = {p1, p2, p3}
    Bodies = {b1, b2}
    Retention = 1
    MaxTime = 2
    Faults = TRUE
    NoRecord = NoRecord
SPECIFICATION Spec
SYMMETRY Symmetry
INVARIANTS TypeOK WorkedOncePerRetention RetriesAreAnswered
CHECK_DEADLOCK FALSE
