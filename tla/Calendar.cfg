CONSTANTS
    old = old  new = new   p1 = p1  p2 = p2  p3 = p3
    Existing = {old}
    Ids = {new}
    Requests = {p1, p2, p3}
    None = None
    MaxChanges = 3
SPECIFICATION Spec
SYMMETRY Symmetry
INVARIANTS TypeOK OnceAndAsReviewed CopyKeepsUp
CHECK_DEADLOCK FALSE
