CONSTANTS
    p1 = p1  p2 = p2
    r1 = r1  r2 = r2  r3 = r3  r4 = r4
    message = message  proposal = proposal
    Reviews = {r1, r2}
    Requests = {p1, p2}
    Types = {message, proposal}
    StandaloneTypes = {proposal}
    Legacy = {}
    Lifetime = 1
    MaxTime = 1
    NoReview = NoReview
    AnyReview = AnyReview
SPECIFICATION Spec
INVARIANTS NeverSideBySide
CHECK_DEADLOCK FALSE
