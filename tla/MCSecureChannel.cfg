SPECIFICATION Spec
CONSTANTS
    c1 = c1
    c2 = c2
    s1 = s1
    s2 = s2
    None = None
    Conns = {c1, c2}
    Sessions = {s1, s2}
    MaxSends = 5
SYMMETRY Symmetry
INVARIANTS
    TypeOK
    ProcessedOnce
    FinishedIsComplete
    UndisturbedIsNeverRefused
\* The phone may have used all its connections and messages.
CHECK_DEADLOCK FALSE
