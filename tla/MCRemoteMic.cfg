\* Two recordings that do not overlap, and two chunks.
CONSTANTS
    MaxPresses = 2
    MaxChunks = 2
    MaxDrains = 2
SPECIFICATION FairSpec
CONSTRAINT NoOverlap
\* The button has been pressed as often as it may.
CHECK_DEADLOCK FALSE
INVARIANTS
    TypeOK
    StopCountsFrames
    MicIsClosed
PROPERTIES
    RecordingEnds
