\* One recording is enough.
CONSTANTS
    Conns = {c1}
    TraceLimit = 1
    BufferLimit = 2
SPECIFICATION Spec
CHECK_DEADLOCK FALSE
INVARIANTS
    RecognisedIsInserted
