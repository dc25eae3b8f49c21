CONSTANTS
    c1 = c1
    c2 = c2
    c3 = c3
    Callers = {c1, c2, c3}
    Threshold = 3
    Attempts = 2
    OpenFor = 2
SPECIFICATION Spec
INVARIANTS TypeOK ClosedBelowThreshold
PROPERTIES HalfOpenResolves SettlesClosed
