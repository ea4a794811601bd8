SPECIFICATION Spec
CONSTANTS
    Files <- SavedFiles
    Settings <- SomeSettings
    Autoloads <- SomeAutoloads
    Plugins <- SomePlugins
    Values = {"v1", "v2"}
    MaxEdits = 3
INVARIANTS
    KeysOnce
PROPERTIES
    EditsAreExact
CHECK_DEADLOCK FALSE
