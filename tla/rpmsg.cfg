SPECIFICATION Spec
CONSTANTS
    c1 = c1  c2 = c2
    Slots = {0, 1}
    Chans = {c1, c2}
    Settings <- AllSettings
    NULL = NULL
INVARIANTS TypeOK OwnDevices EndpointOfChannel
PROPERTY ListCurrent
CHECK_DEADLOCK FALSE
