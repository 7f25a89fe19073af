\* Two handlers that compete for one trace, and a buffer of two messages.
CONSTANTS
    Conns = {c1, c2}
    TraceLimit = 1
    BufferLimit = 2
SPECIFICATION FairSpec
\* The process has exited.
CHECK_DEADLOCK FALSE
INVARIANTS
    TypeOK
    QueuedWhenAnswered
    
    OverIsCompleted
    RegisteredIsServed
PROPERTIES
    HandlersEnd
