CONSTANTS
    PageSize = 16
    AddrPages = 8
    MaxPages = 6
    InitPages = 2
    HeapBases <- MCHeapBases
    Requests <- MCRequests
    Counts <- MCCounts

SPECIFICATION Spec

INVARIANTS
    TypeOK
    LiveRegionsApart
    LiveRegionsBacked
    PageCountExact
    NoOverGrowth

PROPERTY AllocatorSpec

CHECK_DEADLOCK FALSE
