CONSTANTS
    Lines <- SomeLines
    MaxLine = 5
    Chunk = 3
    InSize = 8
    OutSize = 5
    MaxSent = 4
SPECIFICATION FairSpec
INVARIANTS
    BuffersHold
    OnlyLongLinesOverflow
PROPERTY ImplementsLineStream
CHECK_DEADLOCK FALSE
