SPECIFICATION Spec
CONSTANTS
    Sessions <- WellFormed
    MaxChunk = 7
INVARIANTS
    TypeOK
    HandledAsReceived
    BufferIsUnfinished
CHECK_DEADLOCK FALSE
