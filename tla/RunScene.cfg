SPECIFICATION Spec
CONSTANTS
    Calls = {"c1", "c2"}
    Output <- MCOutput
    DefaultPath = "screenshot.png"
    Helped = {"c1", "c2"}
    MaxPolls = 2
    MaxUser = 1
INVARIANTS
    HelperAgrees
    OwnScreenshot
PROPERTIES
    CallReturns
    StopsWhatItStarted
CHECK_DEADLOCK FALSE
