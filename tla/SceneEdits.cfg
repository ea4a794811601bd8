SPECIFICATION Spec
CONSTANTS
    Initial <- MCInitial
    Fresh <- MCFresh
    Paths <- MCPaths
    Requests <- MCRequests
    Root = "Root"
    Viewport = "viewport"
    Nil = "nil"
    MaxSteps = 3
INVARIANTS
    SavedUnlessCarried
PROPERTY
    OthersUntouched
CHECK_DEADLOCK FALSE
