SPECIFICATION DrainSpec
CONSTANTS
    Pkg <- DrainPkgs
    Names <- DrainNames
    UserNames = {"top"}
    Regions = {"r0"}
    MAX_WATCH = 5
    SLOT_HANDLE_MAX = 3
    RP_SLOTS_MAX = 10
    SlotsMax = 1
    UseUserLoadPath = FALSE
    IsZynqMP = TRUE
    MayFail = TRUE
    NULL = NULL
PROPERTIES
    Drained
