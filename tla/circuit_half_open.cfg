CONSTANTS
    c1 = c1
    c2 = c2
    c3 = c3
    Callers = {c1, c2, c3}
    Threshold = 5
    Attempts = 4
    OpenFor = 30
SYMMETRY AnyOrder
SPECIFICATION Spec
INVARIANT HalfOpenAllowsOneRequest
