SPECIFICATION FairSpec
CONSTANTS
    p = p  q = q
    Clients = {p, q}
    MaxConns = 2
    Hosts <- AllHosts
    NULL = NULL
INVARIANTS TypeOK NeverRefused SuccessMeansDone StaleIdWarned
PROPERTIES CallsReturn GoneIsClosed
