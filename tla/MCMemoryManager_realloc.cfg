CONSTANTS
    MemBlock = 2
    PageWords = 8
    MinGrab = 2
    AddrWords = 128
    InitPages = 1
    MaxPages = 3
    InitialHeapBase = 2
    InitialHeapWords = 4
    HeapSlots = 3
    SeesSbrkFailure = FALSE
    h1 = h1
    h2 = h2
    h3 = h3
    Handles = {h1, h2, h3}
    Requests = {2, 3, 7}
    Stale = stale
    Foreign = foreign
    ForeignRequests = {3, 7}
    ClientOps = {"malloc", "calloc", "grow", "shrink"}

SPECIFICATION Spec

INVARIANTS
    DataIntact
    HeadersTile

PROPERTIES
    AllocatorSpec

CHECK_DEADLOCK FALSE
