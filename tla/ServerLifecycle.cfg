SPECIFICATION FairSpec
CONSTANTS
    Conns = {c1, c2}
    MaxPolls = 2
    MayFail = TRUE
INVARIANTS
    TypeOK
    PanelServerAlive
    DispatchHasNode
PROPERTIES
    NodeJoinsTree
    BacklogServed
CHECK_DEADLOCK FALSE
