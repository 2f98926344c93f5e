CONSTANTS
    p1 = p1  p2 = p2
    r1 = r1  r2 = r2  r3 = r3  r4 = r4
    message = message  proposal = proposal
    Reviews = {r1, r2, r3, r4}
    Requests = {p1, p2}
    Types = {message, proposal}
    StandaloneTypes = {proposal}
    Legacy = {r1, r2}
    Lifetime = 2
    MaxTime = 2
    NoReview = NoReview
    AnyReview = AnyReview
SPECIFICATION Spec
SYMMETRY Symmetry2
INVARIANTS TypeOK OneWaitingPerQueue ExecutedAtMostOnce WithdrawnNeverRuns NotClaimedLate ToldTheTruth LastPreparedStandsAlone
PROPERTIES LifeLine ImplementsOneShotApproval
CHECK_DEADLOCK FALSE
