SPECIFICATION Spec
CONSTANTS
    c1 = c1
    c2 = c2
    s1 = s1
    None = None
    Conns = {c1, c2}
    Sessions = {s1}
    MaxSends = 4
INVARIANT OkMeansRecognised
CHECK_DEADLOCK FALSE
