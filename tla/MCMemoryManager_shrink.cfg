CONSTANTS
    MemBlock = 1
    PageWords = 8
    MinGrab = 2
    AddrWords = 128
    InitPages = 1
    MaxPages = 2
    InitialHeapBase = 2
    InitialHeapWords = 4
    HeapSlots = 3
    SeesSbrkFailure = TRUE
    h1 = h1
    h2 = h2
    h3 = h3
    Handles = {h1, h2}
    Requests = {1, 3, 5}
    Stale = stale
    Foreign = foreign
    ForeignRequests = {}
    ClientOps = {"malloc", "shrink"}

SPECIFICATION Spec


PROPERTIES
    NullMeansNoRoom

CHECK_DEADLOCK FALSE
