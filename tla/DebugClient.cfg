SPECIFICATION Spec
CONSTANTS
    HeaderPieces = 4
    BodyPieces = 3
    MaxHeaderReads = 2
    MaxReads = 4
    MaxSent = 2
INVARIANTS
    FirstMessageWhole
PROPERTIES
    ToolEnds
CHECK_DEADLOCK FALSE
