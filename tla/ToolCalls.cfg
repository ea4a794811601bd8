SPECIFICATION FairSpec
CONSTANTS
    c1 = c1
    c2 = c2
    Clients = {c1, c2}
    Tools = {direct, main}
    MainTools = {main}
    UnknownTool = unknown
    Methods = {"notification", "garbage", "badBytes", "light", "lightError", "badParams"}
    Outcomes <- ResultsAndAnError
    MaxRequests <- TwoAndOne
    MaxPanelSteps = 1
    MaxLogEntries = 2
INVARIANTS
    SwitchRespected
    CountsMatchRuns
    LogIsNewestWindow
PROPERTIES
    ReplyTellsOutcome
    EveryCallAnswered
CHECK_DEADLOCK FALSE
