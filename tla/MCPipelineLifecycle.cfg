\* Three pipelines, two requests, two concurrent PUTs, shutdown included.
CONSTANTS
    Pipelines = {p0, p1, p2}
    Initial = p0
    Conns = {c1, c2}
    Puts = {u1, u2}
    None = None
SPECIFICATION FairSpec
INVARIANTS
    TypeOK
    NoUseAfterDestroy
    RefsExact
    ShutdownOnce
    ReplacedIsTracked
PROPERTIES
    ReplacedIsClosed
    ImplementsLease
\* After Exit the process is gone.
CHECK_DEADLOCK FALSE
