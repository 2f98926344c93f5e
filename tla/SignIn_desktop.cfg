CONSTANTS
    u1 = u1  u2 = u2  p1 = p1  p2 = p2  p3 = p3  p4 = p4
    link = link  pc = pc  g1 = g1  g2 = g2  g3 = g3
    Users = {u1, u2}
    Requests = {p1, p2, p3, p4}
    Resets = {link}
    Pairings = {pc}
    Grants = {g1, g2, g3}
    None = None
    MaxVersion = 3
SPECIFICATION Spec
SYMMETRY Symmetry
INVARIANTS ChangedPasswordRevokes
CHECK_DEADLOCK FALSE
