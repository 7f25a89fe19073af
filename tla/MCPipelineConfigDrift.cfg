\* Two concurrent PUTs of the configuration.
CONSTANTS
    Pipelines = {p0, p1, p2}
    Initial = p0
    Conns = {c1}
    Puts = {u1, u2}
    None = None
SPECIFICATION Spec
SYMMETRY Symmetry
INVARIANTS
    SavedIsActive
CHECK_DEADLOCK FALSE
