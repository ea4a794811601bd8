SPECIFICATION FairSpec
CONSTANTS
    Total = 3
    MaxRetries = 1
    PipeRoom = 1
INVARIANTS
    RepliesInOrder
    NoReplyLost
PROPERTIES
    RequestAnswered
CHECK_DEADLOCK FALSE
