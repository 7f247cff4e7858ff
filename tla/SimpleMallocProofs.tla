------------------------- MODULE SimpleMallocProofs -------------------------
(***************************************************************************)
(* Proofs about dsmalloc, for every page size, host limit, heap base and   *)
(* set of requests.                                                        *)
(***************************************************************************)
EXTENDS SimpleMalloc, TLAPS

(* Below the end of the address space nothing wraps. *)
LEMMA WrapBelow ==
    ASSUME NEW n \in Nat, n < AddrSpace, AddrSpace \in Nat
    PROVE  Wrap(n) = n
  <1> DEFINE A == AddrSpace
  <1>1. A \in Nat /\ n < A /\ n \in Nat
    OBVIOUS
  <1>2. \A a \in Nat, m \in Nat : m < a => m % a = m
    OBVIOUS
  <1>3. n % A = n
    BY <1>1, <1>2
  <1> QED
    BY <1>3 DEF Wrap

LEMMA AddrSpaceType ==
    /\ PageSize \in Nat \ {0}
    /\ AddrPages \in Nat \ {0}
    /\ AddrSpace \in Nat
    /\ MaxPages \in Nat
    /\ MaxPages * PageSize + 2 * PageSize <= AddrSpace
    /\ PageSize >= Alignment
  <1>1. /\ PageSize \in Nat \ {0} /\ AddrPages \in Nat \ {0}
        /\ MaxPages \in Nat /\ MaxPages + 2 <= AddrPages
    BY PageAssumption, SizesAssumption, HostLimitAssumption
  <1>2. AddrSpace \in Nat
    BY <1>1 DEF AddrSpace
  <1>3. \A m, a, p \in Nat : m + 2 <= a => m * p + 2 * p <= a * p
    <2> SUFFICES ASSUME NEW m \in Nat, NEW a \in Nat, NEW p \in Nat, m + 2 <= a
                 PROVE  m * p + 2 * p <= a * p
      OBVIOUS
    <2>1. PICK d \in Nat : a = m + 2 + d
      <3>1. a - m - 2 \in Nat /\ a = m + 2 + (a - m - 2)
        OBVIOUS
      <3> QED
        BY <3>1
    <2>2. a * p = m * p + 2 * p + d * p
      BY <2>1
    <2>3. d * p \in Nat /\ m * p \in Nat
      OBVIOUS
    <2> QED
      BY <2>2, <2>3
  <1>4. MaxPages * PageSize + 2 * PageSize <= AddrSpace
    BY <1>1, <1>3 DEF AddrSpace
  <1>5. PageSize >= Alignment
    BY PageAssumption DEF Alignment
  <1> QED
    BY <1>1, <1>2, <1>4, <1>5

(* Rounding up to the alignment, where it does not wrap. *)
LEMMA AlignBelow ==
    ASSUME NEW n \in Nat, n + Alignment <= AddrSpace
    PROVE  /\ align(n) \in Nat
           /\ n <= align(n) /\ align(n) < n + Alignment
           /\ align(n) % Alignment = 0
           /\ \A m \in Nat : m % Alignment = 0 /\ n <= m => align(n) <= m
  <1>1. n + 7 \in Nat /\ n + 7 < AddrSpace /\ AddrSpace \in Nat
    BY AddrSpaceType DEF Alignment
  <1>2. Wrap(n + 7) = n + 7
    BY <1>1, WrapBelow
  <1>3. align(n) = ((n + 7) \div 8) * 8
    BY <1>2 DEF align, Alignment
  <1> QED
    BY <1>3 DEF Alignment

LEMMA PageMultipleAligned ==
    ASSUME NEW n \in Nat
    PROVE  n * PageSize \in Nat /\ (n * PageSize) % Alignment = 0
  <1>1. PageSize \in Nat /\ PageSize % 8 = 0
    BY PageAssumption DEF Alignment
  <1>2. PICK k \in Nat : PageSize = 8 * k
    <2>1. PageSize \div 8 \in Nat /\ PageSize = 8 * (PageSize \div 8)
      BY <1>1
    <2> QED
      BY <2>1
  <1>3. n * PageSize = 8 * (n * k)
    BY <1>2
  <1>4. \A m \in Nat : (8 * m) % 8 = 0
    OBVIOUS
  <1>5. n * k \in Nat /\ n * PageSize \in Nat
    BY <1>1
  <1>6. (8 * (n * k)) % 8 = 0
    BY <1>4, <1>5, Zenon
  <1> QED
    BY <1>3, <1>5, <1>6 DEF Alignment

(* What one successful call of dsmalloc::operator() does to last_ptr when    *)
(* the host grants the pages it asks for.                                    *)
LEMMA BumpLemma ==
    ASSUME last_ptr \in Nat, last_ptr % Alignment = 0,
           pages \in Nat, next_page = pages, last_ptr <= pages * PageSize,
           NEW sz \in Nat \ {0}, CanGrow(pages_to_alloc(sz))
    PROVE  /\ pages_to_alloc(sz) \in Nat
           /\ BumpedPtr(sz) \in Nat
           /\ BumpedPtr(sz) % Alignment = 0
           /\ last_ptr + sz <= BumpedPtr(sz)
           /\ BumpedPtr(sz) <= (pages + pages_to_alloc(sz)) * PageSize
           /\ \/ (pages + pages_to_alloc(sz)) * PageSize - BumpedPtr(sz) <= PageSize
              \/ (pages + pages_to_alloc(sz)) * PageSize - BumpedPtr(sz)
                    <= pages * PageSize - last_ptr
  <1> DEFINE q == sz \div PageSize
             P == PageSize
             top == (pages + q) * P
             end == last_ptr + sz
             up == BumpedPtr(sz)
  <1>1. P \in Nat \ {0} /\ AddrSpace \in Nat /\ MaxPages \in Nat
    BY AddrSpaceType
  <1>2. q \in Nat /\ q * P <= sz /\ sz < q * P + P
    <2>1. \A a \in Nat, b \in Nat \ {0} :
             /\ a \div b \in Nat
             /\ (a \div b) * b <= a
             /\ a < (a \div b) * b + b
      OBVIOUS
    <2> QED
      BY <1>1, <2>1
  <1>3. top \in Nat /\ top = pages * P + q * P /\ pages * P \in Nat /\ q * P \in Nat
    BY <1>1, <1>2
  <1>4. pages + q <= MaxPages
    BY <1>1, <1>2 DEF CanGrow, pages_to_alloc
  <1>5. top <= MaxPages * P
    <2>1. \A a, b, c \in Nat : a <= b => a * c <= b * c
      OBVIOUS
    <2> QED
      BY <1>1, <1>2, <1>4, <2>1
  <1>6. end \in Nat /\ end < top + P
    BY <1>1, <1>2, <1>3
  <1>7. end + Alignment <= AddrSpace /\ top < AddrSpace
    BY <1>1, <1>3, <1>5, <1>6, AddrSpaceType, MaxPages * P \in Nat DEF Alignment
  <1>8. Wrap(end) = end /\ Wrap(top) = top
    BY <1>1, <1>3, <1>6, <1>7, WrapBelow DEF Alignment
  <1>9. up = align(end)
    BY <1>8 DEF BumpedPtr
  <1>10. /\ up \in Nat /\ end <= up /\ up % Alignment = 0
         /\ \A m \in Nat : m % Alignment = 0 /\ end <= m => up <= m
    BY <1>6, <1>7, <1>9, AlignBelow
  <1>11. OneShort(sz) <=> top <= up
    BY <1>8 DEF OneShort
  <1>12. CASE OneShort(sz)
    <2>1. pages_to_alloc(sz) = q + 1
      BY <1>2, <1>12 DEF pages_to_alloc
    <2>2. (pages + (q + 1)) * P = top + P
      BY <1>1, <1>2
    <2>3. top + P = (pages + q + 1) * PageSize
      BY <1>1, <1>2
    <2>4. (top + P) % Alignment = 0 /\ top + P \in Nat
      BY <2>3, <1>2, PageMultipleAligned, pages + q + 1 \in Nat
    <2>5. up <= top + P
      BY <1>6, <1>10, <2>4
    <2> QED
      BY <1>1, <1>2, <1>3, <1>10, <1>11, <1>12, <2>1, <2>2, <2>5
  <1>13. CASE ~OneShort(sz)
    <2>1. pages_to_alloc(sz) = q
      BY <1>2, <1>13 DEF pages_to_alloc
    <2>2. up < top
      BY <1>3, <1>10, <1>11, <1>13
    <2> QED
      BY <1>1, <1>2, <1>3, <1>10, <2>1, <2>2
  <1> QED
    BY <1>12, <1>13

-----------------------------------------------------------------------------
(* The inductive invariant.  Beyond the properties it says where the next    *)
(* region will start: aligned, above everything handed out, and not beyond   *)
(* the memory the host has granted.  Nothing is said of last_ptr once the    *)
(* contract is stopped: the failed call has already moved it.                *)
FrontierInv ==
    ~aborted =>
        /\ last_ptr % Alignment = 0
        /\ heap <= last_ptr
        /\ last_ptr <= pages * PageSize
        /\ \A r \in live : r.ptr + r.size <= last_ptr

IInv ==
    /\ TypeOK
    /\ 0 < heap
    /\ FrontierInv
    /\ LiveRegionsApart
    /\ LiveRegionsBacked
    /\ PageCountExact
    /\ NoOverGrowth

LEMMA InitIInv == Init => IInv
  <1> SUFFICES ASSUME Init PROVE IInv
    OBVIOUS
  <1>1. PICK base \in HeapBases : heap = align(base)
    BY DEF Init
  <1>2. InitPages \in Nat \ {0} /\ InitPages <= MaxPages /\ MaxPages \in Nat
    BY SizesAssumption, AddrSpaceType
  <1>3. /\ InitPages * PageSize \in Nat
        /\ (InitPages * PageSize) % Alignment = 0
    BY <1>2, PageMultipleAligned
  <1>4. InitPages * PageSize <= MaxPages * PageSize /\ MaxPages * PageSize \in Nat
    <2>1. \A a, b, c \in Nat : a <= b => a * c <= b * c /\ b * c \in Nat
      OBVIOUS
    <2> QED
      BY <1>2, <2>1, AddrSpaceType
  <1>5. base \in Nat /\ 0 < base /\ base <= InitPages * PageSize
    BY <1>3, HeapBaseAssumption
  <1>6. base + Alignment <= AddrSpace
    BY <1>3, <1>4, <1>5, AddrSpaceType DEF Alignment
  <1>7. /\ heap \in Nat /\ 0 < heap /\ heap % Alignment = 0
        /\ heap <= InitPages * PageSize
    BY <1>1, <1>3, <1>5, <1>6, AlignBelow
  <1>8. heap < AddrSpace
    BY <1>3, <1>4, <1>7, AddrSpaceType
  <1>9. TypeOK
    <2>1. heap \in 0..(AddrSpace - 1) /\ last_ptr \in 0..(AddrSpace - 1)
      BY <1>7, <1>8, AddrSpaceType DEF Init
    <2>2. next_page \in Nat /\ pages \in InitPages..MaxPages
      BY <1>2 DEF Init
    <2>3. live \subseteq Region /\ aborted \in BOOLEAN
      BY DEF Init
    <2> QED
      BY <2>1, <2>2, <2>3 DEF TypeOK
  <1>10. FrontierInv
    BY <1>7 DEF Init, FrontierInv
  <1>11. LiveRegionsApart /\ LiveRegionsBacked /\ PageCountExact
    BY DEF Init, LiveRegionsApart, LiveRegionsBacked, PageCountExact
  <1>12. NoOverGrowth
    BY <1>3, <1>7 DEF Init, NoOverGrowth, InitialSlack
  <1> QED
    BY <1>7, <1>9, <1>10, <1>11, <1>12 DEF IInv

(* The client gives regions back: nothing else moves. *)
LEMMA ReturnStep ==
    ASSUME IInv, live' \subseteq live,
           UNCHANGED <<heap, last_ptr, next_page, pages, aborted>>
    PROVE  IInv'
  <1>1. TypeOK' /\ (0 < heap)'
    BY DEF IInv, TypeOK
  <1>2. FrontierInv'
    BY DEF IInv, FrontierInv
  <1>3. LiveRegionsApart' /\ LiveRegionsBacked'
    BY DEF IInv, LiveRegionsApart, LiveRegionsBacked
  <1>4. PageCountExact' /\ NoOverGrowth'
    BY DEF IInv, PageCountExact, NoOverGrowth, InitialSlack
  <1> QED
    BY <1>1, <1>2, <1>3, <1>4 DEF IInv

(* A call of dsmalloc::operator(), granted or refused. *)
LEMMA BumpStep ==
    ASSUME IInv, ~aborted, NEW sz \in 0..(AddrSpace - 1),
           NEW back, Bump(sz, back)
    PROVE  IInv'
  <1> DEFINE new == [ptr |-> last_ptr, size |-> sz]
             n == pages_to_alloc(sz)
  <1>1. /\ last_ptr \in Nat /\ pages \in Nat /\ heap \in Nat /\ next_page = pages
        /\ AddrSpace \in Nat /\ MaxPages \in Nat /\ PageSize \in Nat
        /\ sz \in Nat \ {0} /\ sz < AddrSpace
        /\ InitPages \in Nat /\ InitPages <= pages /\ pages <= MaxPages
    BY AddrSpaceType, SizesAssumption DEF IInv, TypeOK, PageCountExact, Bump
  <1>2. CASE CanGrow(n)
    <2>1. /\ n \in Nat
          /\ BumpedPtr(sz) \in Nat
          /\ BumpedPtr(sz) % Alignment = 0
          /\ last_ptr + sz <= BumpedPtr(sz)
          /\ BumpedPtr(sz) <= (pages + n) * PageSize
          /\ \/ (pages + n) * PageSize - BumpedPtr(sz) <= PageSize
             \/ (pages + n) * PageSize - BumpedPtr(sz)
                   <= pages * PageSize - last_ptr
      BY <1>1, <1>2, BumpLemma DEF IInv, FrontierInv
    <2>2. /\ last_ptr' = BumpedPtr(sz)
          /\ pages' = pages + n /\ next_page' = pages + n
          /\ live' = (live \ back) \union {new}
          /\ aborted' = FALSE /\ heap' = heap
      BY <1>1, <1>2 DEF Bump, IInv, TypeOK
    <2>3. pages' \in Nat /\ pages' <= MaxPages
      BY <1>1, <1>2, <2>1, <2>2 DEF CanGrow
    <2>4. /\ pages * PageSize \in Nat /\ pages' * PageSize \in Nat
          /\ pages * PageSize <= pages' * PageSize
          /\ pages' * PageSize <= MaxPages * PageSize
          /\ MaxPages * PageSize \in Nat
      <3>1. \A a, b, c \in Nat : a <= b => a * c <= b * c /\ b * c \in Nat /\ a * c \in Nat
        OBVIOUS
      <3>2. pages <= pages'
        BY <1>1, <2>1, <2>2
      <3> QED
        BY <1>1, <2>3, <3>1, <3>2
    <2>5. BumpedPtr(sz) < AddrSpace
      BY <2>1, <2>2, <2>4, AddrSpaceType
    <2>6. new \in Region
      BY <1>1, <2>1, <2>5 DEF Region
    <2>7. TypeOK'
      <3>1. (heap \in 0..(AddrSpace - 1))' /\ (last_ptr \in 0..(AddrSpace - 1))'
        BY <1>1, <2>1, <2>2, <2>5 DEF IInv, TypeOK
      <3>2. next_page' \in Nat /\ pages' \in InitPages..MaxPages
        BY <1>1, <2>1, <2>2, <2>3
      <3>3. live' \subseteq Region /\ aborted' \in BOOLEAN
        BY <2>2, <2>6 DEF IInv, TypeOK
      <3> QED
        BY <3>1, <3>2, <3>3 DEF TypeOK
    <2>8. \A r \in live : /\ r.ptr \in Int /\ r.size \in Int
                          /\ r.ptr + r.size <= last_ptr
                          /\ heap <= r.ptr
      BY DEF IInv, TypeOK, Region, FrontierInv, LiveRegionsBacked
    <2>9. FrontierInv'
      <3>1. \A r \in live' : r.ptr + r.size <= last_ptr'
        BY <1>1, <2>1, <2>2, <2>8
      <3>2. heap' <= last_ptr'
        BY <1>1, <2>1, <2>2 DEF IInv, FrontierInv
      <3> QED
        BY <2>1, <2>2, <3>1, <3>2 DEF FrontierInv
    <2>10. LiveRegionsApart'
      BY <1>1, <2>2, <2>8 DEF IInv, LiveRegionsApart, Apart
    <2>11. LiveRegionsBacked'
      <3>1. \A r \in live' : r.ptr + r.size <= BumpedPtr(sz) /\ heap <= r.ptr
        BY <1>1, <2>1, <2>2, <2>8 DEF IInv, FrontierInv
      <3>2. \A r \in live' : r.ptr \in Int /\ r.size \in Int
        BY <1>1, <2>2, <2>8
      <3> QED
        BY <2>1, <2>2, <2>4, <3>1, <3>2 DEF LiveRegionsBacked
    <2>12. PageCountExact'
      BY <2>2 DEF PageCountExact
    <2>13. NoOverGrowth'
      <3>1. InitialSlack' = InitialSlack /\ InitialSlack \in Int
        <4>1. InitPages * PageSize \in Nat
          BY <1>1
        <4> QED
          BY <1>1, <2>2, <4>1 DEF InitialSlack
      <3>2. pages' * PageSize = (pages + n) * PageSize
        BY <2>2
      <3> QED
        BY <1>1, <2>1, <2>2, <2>4, <3>1, <3>2 DEF IInv, NoOverGrowth
    <2> QED
      BY <2>2, <2>7, <2>9, <2>10, <2>11, <2>12, <2>13 DEF IInv
  <1>3. CASE ~CanGrow(n)
    <2>1. aborted' = TRUE /\ UNCHANGED <<heap, pages, live>>
      BY <1>3 DEF Bump
    <2>2. last_ptr' \in 0..(AddrSpace - 1) /\ next_page' \in Nat
      <3>1. AddrSpace > 0
        BY <1>1
      <3>2. \A a \in Nat \ {0}, x \in Nat :
               x % a \in 0..(a - 1)
        OBVIOUS
      <3>3. \A x \in Nat : (x \div 8) * 8 \in Nat /\ (x \div 8) * 8 <= x
        OBVIOUS
      <3>4. \A x \in Nat : Wrap(x) \in 0..(AddrSpace - 1)
        BY <1>1, <3>1, <3>2 DEF Wrap
      <3>5. \A x \in Nat : align(x) \in 0..(AddrSpace - 1)
        BY <1>1, <3>3, <3>4 DEF align, Alignment
      <3>6. BumpedPtr(sz) \in 0..(AddrSpace - 1)
        BY <1>1, <3>4, <3>5 DEF BumpedPtr
      <3>7. sz \div PageSize \in Nat
        BY <1>1, AddrSpaceType
      <3>8. pages_to_alloc(sz) \in Nat
        BY <3>7 DEF pages_to_alloc
      <3> QED
        BY <1>1, <3>6, <3>8 DEF Bump
    <2>3. TypeOK' /\ (0 < heap)'
      BY <2>1, <2>2 DEF IInv, TypeOK
    <2>4. FrontierInv' /\ PageCountExact' /\ NoOverGrowth'
      BY <2>1 DEF FrontierInv, PageCountExact, NoOverGrowth
    <2>5. LiveRegionsApart' /\ LiveRegionsBacked'
      BY <2>1 DEF IInv, LiveRegionsApart, LiveRegionsBacked
    <2> QED
      BY <2>3, <2>4, <2>5 DEF IInv
  <1> QED
    BY <1>2, <1>3

LEMMA NextIInv == IInv /\ [Next]_vars => IInv'
  <1> SUFFICES ASSUME IInv, [Next]_vars PROVE IInv'
    OBVIOUS
  <1>1. ASSUME NEW sz \in 0..(AddrSpace - 1), NEW back, ~aborted,
               Bump(sz, back) \/ NullResult(sz, back)
        PROVE  IInv'
    <2>1. CASE Bump(sz, back)
      BY <1>1, <2>1, BumpStep
    <2>2. CASE NullResult(sz, back)
      BY <2>2, ReturnStep DEF NullResult
    <2> QED
      BY <1>1, <2>1, <2>2
  <1>2. ASSUME NEW size \in Requests, malloc(size) PROVE IInv'
    BY <1>1, <1>2, SizesAssumption DEF malloc
  <1>3. ASSUME NEW count \in Counts, NEW size \in Requests, calloc(count, size)
        PROVE  IInv'
    <2>1. count \in Nat /\ size \in Nat /\ AddrSpace \in Nat \ {0}
      BY SizesAssumption, AddrSpaceType
    <2>2. count * size \in Nat
      BY <2>1
    <2>3. \A a \in Nat \ {0}, x \in Nat : x % a \in 0..(a - 1)
      OBVIOUS
    <2>4. Wrap(count * size) \in 0..(AddrSpace - 1)
      BY <2>1, <2>2, <2>3 DEF Wrap
    <2> QED
      BY <1>1, <1>3, <2>4 DEF calloc
  <1>4. ASSUME NEW size \in Requests, NEW old, realloc(old, size) PROVE IInv'
    BY <1>1, <1>4, SizesAssumption DEF realloc
  <1>5. ASSUME NEW r \in live, free(r) PROVE IInv'
    BY <1>5, ReturnStep DEF free
  <1>6. CASE UNCHANGED vars
    BY <1>6, ReturnStep DEF vars
  <1> QED
    BY <1>2, <1>3, <1>4, <1>5, <1>6 DEF Next

(* The strengthened invariant holds in every reachable state. *)
THEOREM Invariance == Spec => []IInv
  BY InitIInv, NextIInv, PTL DEF Spec

(* dsmalloc's variables keep their types: last_ptr stays an address of the   *)
(* machine and the memory stays within the host's limit.                     *)
THEOREM TypeCorrect == Spec => []TypeOK
  <1>1. IInv => TypeOK
    BY DEF IInv
  <1> QED
    BY <1>1, Invariance, PTL

(* No two regions a client holds ever share a byte, for every host limit     *)
(* that leaves the last two pages of the address space unused.               *)
THEOREM RegionsNeverOverlap == Spec => []LiveRegionsApart
  <1>1. IInv => LiveRegionsApart
    BY DEF IInv
  <1> QED
    BY <1>1, Invariance, PTL

(* Every region a client holds is backed by memory the host has granted.     *)
THEOREM RegionsAreBacked == Spec => []LiveRegionsBacked
  <1>1. IInv => LiveRegionsBacked
    BY DEF IInv
  <1> QED
    BY <1>1, Invariance, PTL

(* The page count dsmalloc read once and keeps for itself is the host's      *)
(* (simple_malloc.cpp:33, 46).                                               *)
THEOREM PagesTracked == Spec => []PageCountExact
  <1>1. IInv => PageCountExact
    BY DEF IInv
  <1> QED
    BY <1>1, Invariance, PTL

(* Memory is never grown by more than a page ahead of need                   *)
(* (simple_malloc.cpp:43-48).                                                *)
THEOREM GrowthIsExact == Spec => []NoOverGrowth
  <1>1. IInv => NoOverGrowth
    BY DEF IInv
  <1> QED
    BY <1>1, Invariance, PTL

-----------------------------------------------------------------------------
(* Refinement: every step of dsmalloc is a step of the abstract allocator or *)
(* leaves the client's view alone.                                           *)

LEMMA BumpImplements ==
    ASSUME IInv, IInv', ~aborted, NEW sz \in 0..(AddrSpace - 1), NEW back,
           Bump(sz, back), back = {} \/ \E r \in live : back = {r}
    PROVE  Promise!Next
  <1> DEFINE new == [ptr |-> last_ptr, size |-> sz]
  <1>1. CASE CanGrow(pages_to_alloc(sz))
    <2>1. live' = (live \ back) \union {new} /\ aborted' = aborted
      BY <1>1 DEF Bump
    <2>2. new \in live' /\ new.ptr = last_ptr /\ new.size = sz
      BY <2>1
    <2>3. /\ last_ptr \in Nat /\ sz \in Nat /\ sz > 0 /\ 1 <= last_ptr
          /\ AddrSpace \in Nat
      BY AddrSpaceType DEF Bump, IInv, TypeOK, FrontierInv
    <2>4. new.ptr + new.size <= AddrSpace
      <3>1. new.ptr + new.size <= last_ptr'
        BY <2>1, <2>2 DEF IInv, FrontierInv, TypeOK
      <3>2. last_ptr' \in Nat /\ last_ptr' < AddrSpace
        BY <2>3 DEF IInv, TypeOK
      <3> QED
        BY <2>2, <2>3, <3>1, <3>2
    <2>5. Promise!IsRegion(new)
      BY <2>2, <2>3, <2>4 DEF Promise!IsRegion
    <2>6. \A s \in live : Promise!Apart(new, s)
      BY <2>2, <2>3 DEF IInv, FrontierInv, Promise!Apart
    <2>7. CASE back = {}
      <3>1. live' = live \union {new}
        BY <2>1, <2>7
      <3>2. Promise!Acquire
        BY <2>1, <2>2, <2>5, <2>6, <3>1 DEF Promise!Acquire
      <3> QED
        BY <3>2 DEF Promise!Next
    <2>8. CASE \E r \in live : back = {r}
      <3>1. PICK r \in live : back = {r}
        BY <2>8
      <3>2. Promise!Move
        BY <2>1, <2>2, <2>5, <2>6, <3>1 DEF Promise!Move
      <3> QED
        BY <3>2 DEF Promise!Next
    <2> QED
      BY <2>7, <2>8
  <1>2. CASE ~CanGrow(pages_to_alloc(sz))
    <2>1. Promise!Stop
      BY <1>2 DEF Bump, Promise!Stop
    <2> QED
      BY <2>1 DEF Promise!Next
  <1> QED
    BY <1>1, <1>2

LEMMA NullImplements ==
    ASSUME ~aborted, NEW sz, NEW back, NullResult(sz, back),
           back = {} \/ \E r \in live : back = {r}
    PROVE  [Promise!Next]_<<live, aborted>>
  <1>1. CASE back = {}
    BY <1>1 DEF NullResult
  <1>2. CASE \E r \in live : back = {r}
    BY <1>2 DEF NullResult, Promise!Next, Promise!Release
  <1> QED
    BY <1>1, <1>2

LEMMA StepImplements ==
    IInv /\ IInv' /\ [Next]_vars => [Promise!Next]_<<live, aborted>>
  <1> SUFFICES ASSUME IInv, IInv', [Next]_vars
               PROVE  [Promise!Next]_<<live, aborted>>
    OBVIOUS
  <1>1. ASSUME NEW sz \in 0..(AddrSpace - 1), NEW back, ~aborted,
               Bump(sz, back) \/ NullResult(sz, back),
               back = {} \/ \E r \in live : back = {r}
        PROVE  [Promise!Next]_<<live, aborted>>
    BY <1>1, BumpImplements, NullImplements
  <1>2. ASSUME NEW size \in Requests, malloc(size)
        PROVE  [Promise!Next]_<<live, aborted>>
    BY <1>1, <1>2, SizesAssumption DEF malloc
  <1>3. ASSUME NEW count \in Counts, NEW size \in Requests, calloc(count, size)
        PROVE  [Promise!Next]_<<live, aborted>>
    <2>1. count \in Nat /\ size \in Nat /\ AddrSpace \in Nat \ {0}
      BY SizesAssumption, AddrSpaceType
    <2>2. count * size \in Nat
      BY <2>1
    <2>3. \A a \in Nat \ {0}, x \in Nat : x % a \in 0..(a - 1)
      OBVIOUS
    <2>4. Wrap(count * size) \in 0..(AddrSpace - 1)
      BY <2>1, <2>2, <2>3 DEF Wrap
    <2> QED
      BY <1>1, <1>3, <2>4 DEF calloc
  <1>4. ASSUME NEW size \in Requests,
               NEW old \in {{}} \union {{r} : r \in live}, realloc(old, size)
        PROVE  [Promise!Next]_<<live, aborted>>
    BY <1>1, <1>4, SizesAssumption DEF realloc
  <1>5. ASSUME NEW r \in live, free(r)
        PROVE  [Promise!Next]_<<live, aborted>>
    BY <1>5 DEF free, Promise!Next, Promise!Release
  <1>6. CASE UNCHANGED vars
    BY <1>6 DEF vars
  <1> QED
    BY <1>2, <1>3, <1>4, <1>5, <1>6 DEF Next

(* dsmalloc implements the abstract allocator.                               *)
THEOREM Refinement == Spec => AllocatorSpec
  <1>1. Init => Promise!Init
    BY DEF Init, Promise!Init
  <1> QED
    BY <1>1, StepImplements, Invariance, PTL DEF Spec, AllocatorSpec
=============================================================================
