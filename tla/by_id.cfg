SPECIFICATION Spec
CONSTANTS
    Pkg <- RpuPkgs
    Names <- RpuNames
    UserNames = {"fir"}
    Regions = {"r0"}
    MAX_WATCH = 4
    SLOT_HANDLE_MAX = 3
    RP_SLOTS_MAX = 10
    SlotsMax = 2
    UseUserLoadPath = FALSE
    IsZynqMP = TRUE
    MayFail = FALSE
    NULL = NULL
PROPERTIES
    ByIdTakesItsSlot
