CONSTANTS
    m1 = m1  m2 = m2  s1 = s1  c1 = c1
    Messages = {m1}
    Servers = {s1}
    Callers = {c1}
    Nothing = Nothing
    MaxChanges = 3
    MaxFailures = 1
SPECIFICATION FairMirrorSpec
INVARIANTS MirrorTypeOK CaughtUp
PROPERTY EventuallyMirrored
CHECK_DEADLOCK FALSE
