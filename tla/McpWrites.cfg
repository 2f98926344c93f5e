CONSTANTS
    c1 = c1  c2 = c2  c3 = c3
    k1 = k1  a1 = a1  a2 = a2
    r1 = r1  r2 = r2
    Calls = {c1, c2, c3}
    DirectKeys = {k1}
    Args = {a1, a2}
    Reviews = {r1}
    Retention = 1
    MaxTime = 2
    MaxRevision = 1
    Nothing = Nothing
SPECIFICATION McpSpec
SYMMETRY Symmetry
INVARIANTS McpTypeOK SavedOnceAsPreviewed ToldTheTruth
PROPERTIES NoUnsafeStep
CHECK_DEADLOCK FALSE
