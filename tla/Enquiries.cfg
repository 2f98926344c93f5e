CONSTANTS
    m1 = m1  m2 = m2  p1 = p1  p2 = p2  p3 = p3  p4 = p4
    Messages = {m1, m2}
    Requests = {p1, p2, p3, p4}
    None = None
SPECIFICATION Spec
SYMMETRY Symmetry
INVARIANTS TypeOK ListedAsDecided OnePerExtraction
CHECK_DEADLOCK FALSE
