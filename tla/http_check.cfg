CONSTANTS
    u1 = u1
    u2 = u2
    u3 = u3
    Urls = {u1, u2, u3}
    MaxRedirects = 1
SPECIFICATION Spec
INVARIANTS UpIsFinal2xxOr3xx SameVerdict
SYMMETRY Addresses
