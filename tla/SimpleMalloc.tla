---------------------------- MODULE SimpleMalloc ----------------------------
(***************************************************************************)
(* libraries/wasmlib/simple_malloc.cpp: dsmalloc, the bump allocator every *)
(* contract is linked with unless -use-freeing-malloc is given.            *)
(*                                                                         *)
(* Addresses are bytes.  The width of size_t is kept: addresses wrap at    *)
(* AddrSpace, which is 2^32 = 65536 pages of 2^16 bytes in the real build. *)
(***************************************************************************)
EXTENDS Integers, FiniteSets

CONSTANTS
    PageSize,   \* wasm_page_size, 2^16 in the code
    AddrPages,  \* number of pages a size_t can address, 2^16 in the code
    MaxPages,   \* pages the host grants an instance at most
    InitPages,  \* pages of the instance when the constructor runs
    HeapBases,  \* heap bases the linker may have written at address 0
    Requests,   \* sizes the client asks for
    Counts      \* element counts the client gives to calloc

Alignment == 8

AddrSpace == AddrPages * PageSize

Wrap(n) == n % AddrSpace

(* Mutant of align: the sum is computed in a wider type. *)
alignWide(ptr) == ((ptr + Alignment - 1) \div Alignment) * Alignment

(* (ptr + align_amt-1) & ~(align_amt-1), in the width of size_t *)
align(ptr) == (Wrap(ptr + Alignment - 1) \div Alignment) * Alignment

(* A page is a whole number of aligned units. *)
ASSUME PageAssumption ==
    PageSize \in Nat \ {0} /\ PageSize % Alignment = 0

ASSUME SizesAssumption ==
    /\ AddrPages \in Nat \ {0}
    /\ InitPages \in 1..MaxPages
    /\ Requests \subseteq 0..(AddrSpace - 1)
    /\ Counts \subseteq Nat

(* The linker places the heap base above the static data and inside the    *)
(* initial memory, possibly at its very end.                               *)
ASSUME HeapBaseAssumption ==
    HeapBases \subseteq 1..(InitPages * PageSize)

(* The host's limit leaves the last two pages of the address space unused. *)
(* With one page more the rounding up of last_ptr can wrap to 0 while the  *)
(* host still grants the pages asked for; with two fewer it never can.     *)
ASSUME HostLimitAssumption ==
    MaxPages \in 1..(AddrPages - 2)

VARIABLES
    heap,       \* first byte of the heap
    last_ptr,   \* next byte to hand out
    next_page,  \* dsmalloc's own count of the pages of the instance
    pages,      \* pages the host has really granted
    live,       \* regions the client holds
    aborted     \* wasm::check stopped the contract

vars == <<heap, last_ptr, next_page, pages, live, aborted>>

(* Mutant of Init: the pages of the instance are not read. *)
InitNoPages ==
    /\ \E base \in HeapBases : heap = align(base)
    /\ last_ptr = heap
    /\ pages = InitPages
    /\ next_page = 0
    /\ live = {}
    /\ aborted = FALSE

(* dsmalloc::dsmalloc *)
Init ==
    /\ \E base \in HeapBases : heap = align(base)
    /\ last_ptr = heap
    /\ pages = InitPages
    /\ next_page = pages
    /\ live = {}
    /\ aborted = FALSE

-----------------------------------------------------------------------------
(* dsmalloc::operator() for a size other than 0 *)

(* Mutant of BumpedPtr: rounded down. *)
BumpedDown(sz) == (Wrap(last_ptr + sz) \div Alignment) * Alignment

BumpedPtr(sz) == align(Wrap(last_ptr + sz))

(* the page count is one short: (next_page << 16) <= last_ptr *)
OneShort(sz) ==
    Wrap((next_page + sz \div PageSize) * PageSize) <= BumpedPtr(sz)

(* Mutants of pages_to_alloc: without the extra page, and always with it. *)
pagesWithoutExtra(sz) == sz \div PageSize
pagesWithExtra(sz) == sz \div PageSize + 1

pages_to_alloc(sz) == sz \div PageSize + (IF OneShort(sz) THEN 1 ELSE 0)

(* __builtin_wasm_grow_memory(n) # -1 *)
CanGrow(n) == pages + n <= MaxPages

(* The call: it moves last_ptr and next_page before it knows whether the   *)
(* host grants the pages, and hands the client the old last_ptr in         *)
(* exchange for the regions in "back".                                     *)
Bump(sz, back) ==
    /\ sz > 0
    /\ last_ptr' = BumpedPtr(sz)
    /\ next_page' = next_page + pages_to_alloc(sz)
    /\ \/ /\ CanGrow(pages_to_alloc(sz))
          /\ pages' = pages + pages_to_alloc(sz)
          /\ live' = (live \ back) \union {[ptr |-> last_ptr, size |-> sz]}
          /\ UNCHANGED aborted
       \/ /\ ~CanGrow(pages_to_alloc(sz))
          /\ aborted' = TRUE
          /\ UNCHANGED <<pages, live>>
    /\ UNCHANGED heap

(* A request of 0 bytes returns NULL and changes nothing in the allocator. *)
NullResult(sz, back) ==
    /\ sz = 0
    /\ live' = live \ back
    /\ UNCHANGED <<heap, last_ptr, next_page, pages, aborted>>

-----------------------------------------------------------------------------
(* The C interface *)

malloc(size) == ~aborted /\ (Bump(size, {}) \/ NullResult(size, {}))

(* count*size is computed in the width of size_t *)
calloc(count, size) ==
    LET bytes == Wrap(count * size) IN
    ~aborted /\ (Bump(bytes, {}) \/ NullResult(bytes, {}))

(* realloc does not look at the old region: the client gets a new one and  *)
(* treats the old one, if it passed one, as given back.                    *)
realloc(old, size) ==
    ~aborted /\ (Bump(size, old) \/ NullResult(size, old))

(* free does nothing: only the client's view changes *)
free(r) ==
    /\ ~aborted
    /\ live' = live \ {r}
    /\ UNCHANGED <<heap, last_ptr, next_page, pages, aborted>>

Next ==
    \/ \E size \in Requests : malloc(size)
    \/ \E count \in Counts, size \in Requests : calloc(count, size)
    \/ \E size \in Requests, old \in {{}} \union {{r} : r \in live} :
           realloc(old, size)
    \/ \E r \in live : free(r)

Spec == Init /\ [][Next]_vars

-----------------------------------------------------------------------------
(* Properties *)

Region == [ptr : 0..(AddrSpace - 1), size : 1..(AddrSpace - 1)]

TypeOK ==
    /\ heap \in 0..(AddrSpace - 1)
    /\ last_ptr \in 0..(AddrSpace - 1)
    /\ next_page \in Nat
    /\ pages \in InitPages..MaxPages
    /\ live \subseteq Region
    /\ aborted \in BOOLEAN

Apart(r, s) == r.ptr + r.size <= s.ptr \/ s.ptr + s.size <= r.ptr

(* Two regions the client holds never share a byte, although last_ptr wraps  *)
(* when a large request is added to it (simple_malloc.cpp:40-41): whenever   *)
(* it would wrap, the host must refuse the pages.                            *)
LiveRegionsApart ==
    \A r, s \in live : r # s => Apart(r, s)

(* Every region handed out lies above the heap base and inside memory the    *)
(* host has granted: adding sz >> 16 pages and at most one more is enough    *)
(* (simple_malloc.cpp:43-48).                                                *)
LiveRegionsBacked ==
    \A r \in live : heap <= r.ptr /\ r.ptr + r.size <= pages * PageSize

(* The page count dsmalloc keeps for itself never drifts from the host's     *)
(* (it reads CURRENT_MEMORY once, simple_malloc.cpp:33).                     *)
PageCountExact == ~aborted => next_page = pages

(* Memory is not grown ahead of need: what lies above last_ptr is at most    *)
(* one page, or what was there when the contract started.                    *)
InitialSlack == InitPages * PageSize - heap

NoOverGrowth ==
    \/ aborted
    \/ pages * PageSize - last_ptr <= PageSize
    \/ pages * PageSize - last_ptr <= InitialSlack

(* dsmalloc implements the abstract allocator: no call ever hands out NULL   *)
(* for a region or one that touches a region still held.                     *)
Promise == INSTANCE Allocator WITH Low <- 1, High <- AddrSpace,
                                   live <- live, down <- aborted

AllocatorSpec == Promise!Init /\ [][Promise!Next]_<<live, aborted>>
=============================================================================
