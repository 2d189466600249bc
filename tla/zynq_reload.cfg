SPECIFICATION Spec
CONSTANTS
    Pkg <- PlPkgs
    Names <- PlNames
    UserNames = {"top"}
    Regions = {"r0"}
    MAX_WATCH = 4
    SLOT_HANDLE_MAX = 3
    RP_SLOTS_MAX = 10
    SlotsMax = 2
    UseUserLoadPath = TRUE
    IsZynqMP = FALSE
    MayFail = FALSE
    NULL = NULL
PROPERTIES
    BaseLoadsOnDemand
