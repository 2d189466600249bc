SPECIFICATION FairSpec
CONSTANTS
    x = x  y = y  v = v  w = w
    Bufs = {x, y}
    Vas = {v, w}
    PAGE = 2
    Setups <- AllSetups
    NULL = NULL
INVARIANTS TypeOK TransferReachesBuffer RefsCountChannels LinkedIsMapped MappingsReal AddressFound
PROPERTIES WaitMeansDone CallReturns
CHECK_DEADLOCK FALSE
