\* Three frames: the fake runtime answers two of them with a partial.
CONSTANT MaxFrames = 3
SPECIFICATION FairSpec
\* The call is over, or the runtime has died before it.
CHECK_DEADLOCK FALSE
INVARIANTS
    TypeOK
    ResultIsTheRuntimes
    FailureHasCause

    
