CONSTANTS
    p1 = p1  p2 = p2  p3 = p3
    c1 = c1  c2 = c2  c3 = c3  c4 = c4
    x1 = x1  x2 = x2  l1 = l1
    Requests = {p1, p2, p3}
    Clients = {c1, c2, c3, c4}
    Founders = {c1, c2}
    Records = {x1, x2}
    Leads = {l1}
    Nobody = Nobody
    AnyRevision = AnyRevision
SPECIFICATION Spec
SYMMETRY Symmetry
INVARIANTS TypeOK NoneNeededIsDeleted ConvertedOnce
PROPERTIES DeletionIsAsPreviewed
CHECK_DEADLOCK FALSE
