SPECIFICATION Spec
CONSTANTS
    Pkg <- PlPkgs
    Names <- PlNames
    UserNames = {"fir"}
    Regions = {"r0"}
    MAX_WATCH = 6
    SLOT_HANDLE_MAX = 3
    RP_SLOTS_MAX = 10
    SlotsMax = 2
    UseUserLoadPath = FALSE
    IsZynqMP = FALSE
    MayFail = TRUE
    NULL = NULL
INVARIANTS
    TypeOK HandleTable ActiveCounts PartialAccounting RegionOwner
PROPERTIES
    BaseStable
