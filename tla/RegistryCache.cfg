CONSTANTS
    None = None
    Calls = {c1, c2}
    Wanted <- MCWanted
    Directories <- MCDirectories
    Rows <- MCRows
    HasLocal = TRUE
    HasKey = TRUE
    MaxEdits = 1
    MaxClears = 1
SPECIFICATION RegistrySpec
SYMMETRY Symmetric
CHECK_DEADLOCK FALSE
INVARIANTS
    RegistryTypeOK
    CallersGetWhatTheyAskFor
    FallbacksAreTold
    ClearForgets
