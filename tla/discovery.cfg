SPECIFICATION FairSpec
CONSTANTS
    b1 = b1  a1 = a1  s1 = s1  s2 = s2  a2 = a2  t1 = t1  b2 = b2  r1 = r1  q0 = q0  q1 = q1
    Dirs = {b1, a1, s1, s2, a2, t1, b2, r1, q0, q1}
    Root = Root
    Kind <- TreeKind
    Children <- TreeChildren
    SlotIndex <- TreeIndex
    Shell <- TreeShell
    NumRpu = 2
    RP_SLOTS_MAX = 2
    Sites <- AllSites
    NULL = NULL
INVARIANTS TypeOK NothingMissed NothingExtra NoDuplicates CleanIdsCurrent SlotCountCurrent WatchesResolved
PROPERTY ListingConverges
