CONSTANTS
    MemBlock = 1
    PageWords = 4
    MinGrab = 2
    AddrWords = 128
    InitPages = 2
    MaxPages = 4
    InitialHeapBase = 2
    InitialHeapWords = 4
    HeapSlots = 3
    SeesSbrkFailure = TRUE
    h1 = h1
    h2 = h2
    h3 = h3
    Handles = {h1, h2, h3}
    Requests = {0, 1, 3, 5}
    Stale = stale
    Foreign = foreign
    ForeignRequests = {3}
    ClientOps = {"malloc", "calloc", "free"}

SPECIFICATION Spec

INVARIANTS
    TypeOK
    DataIntact
    HeadersTile
    SlotsSuffice
    OnlyCompleteHeapsSearched

PROPERTIES
    NullMeansNoRoom
    CallsReturn
    AllocatorSpec

CHECK_DEADLOCK FALSE
