---------------------------- MODULE MemoryManager ----------------------------
(***************************************************************************)
(* libraries/wasmlib/malloc.cpp: sbrk and memory_manager, the "freeing"    *)
(* malloc linked with -use-freeing-malloc and always in native builds.     *)
(*                                                                         *)
(* Addresses and sizes are counted in words of _size_marker bytes (4 on    *)
(* wasm32, 8 natively), so that a buffer's header is one word.  A word of  *)
(* memory holds a header, or the mark of whoever wrote it last: the client *)
(* fills every region it is handed with its own handle, and data nobody    *)
(* needs any more counts as Stale.  Memory is zero at first, and a zero    *)
(* word read as a header is a free buffer of size 0.                       *)
(* A call runs to its end before the next one starts; its loops take one   *)
(* step per iteration.                                                     *)
(***************************************************************************)
EXTENDS Integers, FiniteSets, FiniteSetsExt

CONSTANTS
    MemBlock,         \* _mem_block in words: 2 on wasm32, 1 natively
    PageWords,        \* words of a wasm page
    MinGrab,          \* the 1KiB of next_active_heap, in words
    AddrWords,        \* words a size_t can address
    InitPages,        \* pages of the instance when the contract starts
    MaxPages,         \* pages the host grants at most
    InitialHeapBase,  \* address of _initial_heap, inside the static data
    InitialHeapWords, \* _initial_heap_size
    HeapSlots,        \* _heaps_size
    SeesSbrkFailure,  \* reinterpret_cast<int64_t>(p) == -1 can hold: true with
                      \* 64-bit pointers, false where 32-bit ones are widened
    Handles,          \* places where the client keeps a pointer
    Requests,         \* sizes the client asks for
    Stale,            \* what is left of data in memory that was given back
    Foreign,          \* mark of memory taken by a caller of sbrk outside this file
    ForeignRequests,  \* sizes such a caller asks for
    ClientOps         \* the calls this client makes

Ops == {"malloc", "calloc", "free", "grow", "shrink"}

ASSUME LayoutAssumption ==
    /\ MemBlock \in Nat \ {0} /\ HeapSlots \in Nat \ {0}
    /\ PageWords \in Nat \ {0} /\ PageWords % MemBlock = 0
    /\ MinGrab \in 1..PageWords
    /\ InitPages \in 1..MaxPages /\ MaxPages \in Nat
    /\ InitialHeapBase \in Nat \ {0} /\ InitialHeapBase % MemBlock = 0
    /\ InitialHeapWords \in Nat \ {0} /\ InitialHeapWords % MemBlock = 0
    /\ InitialHeapBase + InitialHeapWords < InitPages * PageWords
    /\ SeesSbrkFailure \in BOOLEAN
    /\ ClientOps \subseteq Ops

(* Requests stay below the sizes at which size_t arithmetic wraps or the     *)
(* size meets the flag bit of the header.                                    *)
ASSUME RequestAssumption ==
    /\ AddrWords \in Nat /\ 2 * MaxPages * PageWords < AddrWords
    /\ Requests \subseteq 0..(AddrWords \div 2 - MemBlock)
    /\ ForeignRequests \subseteq 1..(AddrWords \div 2)

VARIABLES
    cells,              \* memory, word by word
    heaps,              \* _available_heaps: base (0 is nullptr), size, offset
    heaps_actual_size, active_heap, active_free_heap,
    sbrk_words,         \* sbrk_bytes; 0 until sbrk is initialized
    pages,              \* pages granted by the host
    held,               \* the client's view: handle -> region, or NoRegion
    foreign,            \* words held by the outside caller of sbrk
    phase,              \* "idle", "bump" or "freed": where the call stands
    call,               \* arguments of the call in progress
    scan,               \* buffer looked at by malloc_from_freed, 0 at a heap's start
    end_free_heap,
    status              \* "running", or how the contract was stopped

heapVars == <<heaps, heaps_actual_size, active_heap, active_free_heap>>
hostVars == <<sbrk_words, pages, foreign>>
vars == <<cells, heapVars, hostVars, held, phase, call, scan, end_free_heap, status>>

Null == 0
NoRegion == [ptr |-> Null, size |-> 0]
Header(size, alloc) == [size |-> size, alloc |-> alloc]
Zero == Header(0, FALSE)
NoCall == [op |-> "none", handle |-> "none", req |-> 0, size |-> 0, orig |-> 0]

(* What reinterpret_cast<void*>(-1) addresses: the last byte, never mapped. *)
NoMem == -1

Words == 0..(MaxPages * PageWords - 1)
Mapped(a) == a \in 0..(pages * PageWords - 1)
Wrap(n) == n % AddrWords

Init ==
    /\ cells = [a \in Words |-> Zero]
    /\ heaps = [i \in 0..(HeapSlots - 1) |-> [base |-> Null, size |-> 0, offset |-> 0]]
    /\ heaps_actual_size = 0 /\ active_heap = 0 /\ active_free_heap = 0
    /\ sbrk_words = 0 /\ pages = InitPages /\ foreign = {}
    /\ held = [h \in Handles |-> NoRegion]
    /\ phase = "idle" /\ call = NoCall /\ scan = 0 /\ end_free_heap = 0
    /\ status = "running"

-----------------------------------------------------------------------------
(* sbrk *)

brk == IF sbrk_words = 0 THEN pages * PageWords ELSE sbrk_words

RoundToBlock(n) == n + ((-n) % MemBlock)

num_desired_pages(n) == (brk + RoundToBlock(n) + PageWords - 1) \div PageWords

(* Mutant of SbrkGranted: one page too many. *)
SbrkGrantedOneMore(n) ==
    n < AddrWords \div 2 /\ num_desired_pages(n) <= MaxPages + 1

(* num_bytes <= INT32_MAX, and grow_memory succeeds where it is called *)
SbrkGranted(n) ==
    n < AddrWords \div 2 /\ num_desired_pages(n) <= MaxPages

Sbrk(n) ==
    /\ sbrk_words' = brk + RoundToBlock(n)
    /\ pages' = Max({pages, num_desired_pages(n)})

-----------------------------------------------------------------------------
(* class memory and class buffer_ptr *)

adjust_to_mem_block(size) == Wrap(size + ((-Wrap(size + 1)) % MemBlock))

(* Mutant of HeapEnd: it points at the last word. *)
HeapLast(i) == heaps[i].base + heaps[i].size - 1

HeapEnd(i) == heaps[i].base + heaps[i].size
is_init(i) == heaps[i].base # Null
is_in_heap(i, p) == heaps[i].base + 1 <= p /\ p < HeapEnd(i)

(* the heap the loops of free and realloc stop at; empty if there is none *)
HeapOf(p) ==
    {i \in 0..(heaps_actual_size - 1) :
        /\ is_in_heap(i, p)
        /\ \A j \in 0..i : is_init(j)
        /\ \A j \in 0..(i - 1) : ~is_in_heap(j, p)}

used_up_size(i, size) == Wrap(heaps[i].offset + size + 1)

MarkFree(mem, p) == [mem EXCEPT ![p - 1].alloc = FALSE]

FreeIn(mem, p) == IF HeapOf(p) = {} THEN mem ELSE MarkFree(mem, p)

(* Mutant of possible_size: free neighbours are not merged. *)
possible_unmerged(mem, p, size, needed, end) == size

(* The size merge_contiguous reaches by walking over free neighbours; each   *)
(* round of the loop takes in a word at least.  walk[n] has one member, the  *)
(* size after n rounds.                                                      *)
possible_size(mem, p, size, needed, end) ==
    LET onward(s) ==
            IF s < needed /\ p + s < end /\ ~mem[p + s].alloc
            THEN s + mem[p + s].size + 1
            ELSE s
        walk[n \in 0..(end - p)] ==
            IF n = 0 THEN {size} ELSE {onward(s) : s \in walk[n - 1]}
    IN  CHOOSE s \in walk[end - p] : TRUE

(* Mutant of Combined: the header of the rest is not counted. *)
CombinedOffByOne(mem, p, possible, needed) ==
    LET sized == [mem EXCEPT ![p - 1].size = Min({possible, needed})]
    IN  IF possible > needed
        THEN [sized EXCEPT ![p + needed] = Header(possible - needed, FALSE)]
        ELSE sized

(* the memory after combining up to "needed" words, the rest left free *)
Combined(mem, p, possible, needed) ==
    LET sized == [mem EXCEPT ![p - 1].size = Min({possible, needed})]
    IN  IF possible > needed
        THEN [sized EXCEPT ![p + needed] = Header(possible - needed - 1, FALSE)]
        ELSE sized

(* cleanup_remaining: the unallocated rest becomes one free buffer *)
NeedsCleanup(i) == heaps[i].offset # heaps[i].size
Remainder(i) == heaps[i].base + heaps[i].offset
(* Mutant of Cleaned: the header of the rest is not counted. *)
CleanedOffByOne(i) ==
    IF NeedsCleanup(i)
    THEN [cells EXCEPT ![Remainder(i)] =
              Header(heaps[i].size - heaps[i].offset, FALSE)]
    ELSE cells

Cleaned(i) ==
    IF NeedsCleanup(i)
    THEN [cells EXCEPT ![Remainder(i)] =
              Header(heaps[i].size - heaps[i].offset - 1, FALSE)]
    ELSE cells

-----------------------------------------------------------------------------
(* How calls start and end *)

Stop(how) ==
    /\ status' = how
    /\ phase' = "idle" /\ call' = NoCall /\ scan' = 0
    /\ UNCHANGED <<cells, heapVars, hostVars, held, end_free_heap>>

(* the client writes its mark into the words it has just been given *)
Fill(mem, h, from, to) == [a \in Words |-> IF a \in from..to THEN h ELSE mem[a]]

(* the client gives up what it holds at h, beyond its first n words *)
Retire(mem, h, n) ==
    Fill(mem, Stale, held[h].ptr + n, held[h].ptr + held[h].size - 1)

(* Mutant of MovedInto: realloc forgets to copy. *)
NotMoved(mem, p) == mem

(* memcpy of the old buffer into the new one, then free of the old one *)
MovedInto(mem, p) ==
    LET old == held[call.handle].ptr
        n == Min({call.size, call.orig})
        copied == [a \in Words |-> IF a \in p..(p + n - 1) THEN mem[old + (a - p)]
                                                            ELSE mem[a]]
    IN  IF call.op = "realloc" /\ n > 0 
        THEN FreeIn(Retire(copied, call.handle, 0), old)
        ELSE mem

(* The call returns p # nullptr; mem is memory with p's header written. *)
Return(mem, p) ==
    LET h == call.handle
        kept == IF call.op = "realloc" THEN held[h].size ELSE 0
    IN  /\ cells' = Fill(MovedInto(mem, p), h, p + kept, p + call.req - 1)
        /\ held' = [held EXCEPT ![h] = [ptr |-> p, size |-> call.req]]
        /\ phase' = "idle" /\ call' = NoCall /\ scan' = 0
        /\ UNCHANGED <<end_free_heap, status>>

(* The call returns nullptr.  calloc then clears count*size bytes at 0. *)
ReturnNull(mem) ==
    /\ cells' = mem
    /\ status' = IF call.op = "calloc" THEN "null write" ELSE status
    /\ phase' = "idle" /\ call' = NoCall /\ scan' = 0
    /\ UNCHANGED <<held, end_free_heap>>

(* memory_manager::malloc up to its loop *)
BeginMalloc(op, h, req, orig) ==
    LET actual == IF heaps_actual_size = 0 THEN HeapSlots ELSE heaps_actual_size
        first == active_heap = 0 /\ ~is_init(0)
    IN  /\ heaps_actual_size' = actual
        /\ heaps' = IF first THEN [heaps EXCEPT ![0].base = InitialHeapBase,
                                                ![0].size = InitialHeapWords]
                             ELSE heaps
        /\ phase' = IF active_heap < actual THEN "bump" ELSE "freed"
        /\ end_free_heap' = active_free_heap
        /\ scan' = 0
        /\ call' = [op |-> op, handle |-> h, req |-> req,
                    size |-> adjust_to_mem_block(req), orig |-> orig]
        /\ UNCHANGED <<cells, active_heap, active_free_heap, hostVars, held, status>>

Idle == status = "running" /\ phase = "idle"

malloc(h, req) ==
    /\ Idle /\ "malloc" \in ClientOps /\ held[h] = NoRegion
    /\ req # 0
    /\ BeginMalloc("malloc", h, req, 0)

(* req is count*size; for 0 neither malloc nor memset does anything *)
calloc(h, req) ==
    /\ Idle /\ "calloc" \in ClientOps /\ held[h] = NoRegion
    /\ req # 0
    /\ BeginMalloc("calloc", h, req, 0)

free(h) ==
    /\ Idle /\ "free" \in ClientOps /\ held[h] # NoRegion
    /\ cells' = FreeIn(Retire(cells, h, 0), held[h].ptr)
    /\ held' = [held EXCEPT ![h] = NoRegion]
    /\ UNCHANGED <<heapVars, hostVars, phase, call, scan, end_free_heap, status>>

-----------------------------------------------------------------------------
(* memory_manager::malloc: the loop over the active heap *)

Bumping == status = "running" /\ phase = "bump"

(* memory::malloc succeeds *)
BumpHit ==
    LET i == active_heap
        a == heaps[i].base + heaps[i].offset
    IN  /\ Bumping
        /\ used_up_size(i, call.size) <= heaps[i].size
        /\ \/ /\ Mapped(a)
              /\ heaps' = [heaps EXCEPT ![i].offset = used_up_size(i, call.size)]
              /\ Return([cells EXCEPT ![a] = Header(call.size, TRUE)], a + 1)
              /\ UNCHANGED <<heaps_actual_size, active_heap, active_free_heap, hostVars>>
           \/ ~Mapped(a) /\ Stop("trap")

BumpMiss == Bumping /\ used_up_size(active_heap, call.size) > heaps[active_heap].size

(* up to the end of the page, or of the next one *)
heap_adj ==
    IF brk % PageWords <= PageWords - MinGrab
    THEN PageWords - (brk % PageWords)
    ELSE 2 * PageWords - (brk % (2 * PageWords))

(* what next_active_heap takes for the start of the new memory *)
new_memory_start == IF SbrkGranted(heap_adj) THEN brk ELSE NoMem

HostAnswers ==
    IF SbrkGranted(heap_adj)
    THEN Sbrk(heap_adj)
    ELSE sbrk_words' = brk /\ UNCHANGED pages

(* Mutant of ExpandHeap: new memory is taken to be contiguous. *)
ExpandAlways ==
    /\ BumpMiss
    /\ HostAnswers
    /\ heaps' = [heaps EXCEPT ![active_heap].size = @ + heap_adj]
    /\ UNCHANGED <<cells, heaps_actual_size, active_heap, active_free_heap,
                   foreign, held, phase, call, scan, end_free_heap, status>>

(* next_active_heap: the new memory continues the active heap *)
ExpandHeap ==
    /\ BumpMiss
    /\ HeapEnd(active_heap) = new_memory_start
    /\ HostAnswers
    /\ heaps' = [heaps EXCEPT ![active_heap].size = @ + heap_adj]
    /\ UNCHANGED <<cells, heaps_actual_size, active_heap, active_free_heap,
                   foreign, held, phase, call, scan, end_free_heap, status>>

(* Mutant of SbrkFails: the rest of the heap is not cleaned up. *)
SbrkFailsUnclean ==
    /\ BumpMiss
    /\ new_memory_start = NoMem /\ SeesSbrkFailure
    /\ HostAnswers
    /\ active_heap' = active_heap + 1
    /\ heaps_actual_size' = active_heap + 1
    /\ phase' = "freed"
    /\ UNCHANGED <<cells, heaps, active_free_heap, foreign, held, call, scan,
                   end_free_heap, status>>

(* next_active_heap: sbrk failed and the failure is seen *)
SbrkFails ==
    /\ BumpMiss
    /\ new_memory_start = NoMem /\ SeesSbrkFailure
    /\ HostAnswers
    /\ cells' = Cleaned(active_heap)
    /\ heaps' = [heaps EXCEPT ![active_heap].offset = heaps[active_heap].size]
    /\ active_heap' = active_heap + 1
    /\ heaps_actual_size' = active_heap + 1
    /\ phase' = "freed"
    /\ UNCHANGED <<active_free_heap, foreign, held, call, scan, end_free_heap, status>>

(* next_active_heap: a new slot, also when a failure of sbrk is not seen *)
NextHeap ==
    LET i == active_heap IN
    /\ BumpMiss
    /\ new_memory_start # NoMem \/ ~SeesSbrkFailure
    /\ HeapEnd(i) # new_memory_start
    /\ \/ /\ NeedsCleanup(i) => Mapped(Remainder(i))
          /\ i + 1 < HeapSlots
          /\ HostAnswers
          /\ cells' = Cleaned(i)
          /\ heaps' = [heaps EXCEPT ![i].offset = heaps[i].size,
                                    ![i + 1].base = new_memory_start,
                                    ![i + 1].size = heap_adj]
          /\ active_heap' = i + 1
          /\ UNCHANGED <<heaps_actual_size, active_free_heap, foreign, held,
                         phase, call, scan, end_free_heap, status>>
       \/ NeedsCleanup(i) /\ ~Mapped(Remainder(i)) /\ Stop("trap")
       \/ i + 1 >= HeapSlots /\ Stop("slot overrun")

-----------------------------------------------------------------------------
(* memory_manager::malloc: the loop over the freed buffers *)

(* the buffer malloc_from_freed looks at *)
current == IF scan = 0 THEN heaps[active_free_heap].base + 1 ELSE scan

Scanning == status = "running" /\ phase = "freed"

(* wasm::check at the start of malloc_from_freed *)
HeapComplete == heaps[active_free_heap].offset = heaps[active_free_heap].size

Reached ==
    IF cells[current - 1].alloc
    THEN 0
    ELSE possible_size(cells, current, cells[current - 1].size, call.size,
                       HeapEnd(active_free_heap))

Merged ==
    IF cells[current - 1].alloc
    THEN cells
    ELSE Combined(cells, current, Reached, call.size)

(* Mutant of ReuseFreed: the buffer is not marked as allocated. *)
ReuseUnmarked ==
    /\ Reached >= call.size
    /\ Return(Merged, current)
    /\ UNCHANGED <<heapVars, hostVars>>

(* enough contiguous free memory *)
ReuseFreed ==
    /\ Reached >= call.size
    /\ Return([Merged EXCEPT ![current - 1].alloc = TRUE], current)
    /\ UNCHANGED <<heapVars, hostVars>>

next_ptr == current + Merged[current - 1].size + 1

(* Mutant of ScanOn: the walk does not advance. *)
ScanStays ==
    /\ Reached < call.size /\ next_ptr < HeapEnd(active_free_heap)
    /\ cells' = Merged
    /\ scan' = current
    /\ UNCHANGED <<heapVars, hostVars, held, phase, call, end_free_heap, status>>

(* not enough: the next buffer of this heap *)
ScanOn ==
    /\ Reached < call.size /\ next_ptr < HeapEnd(active_free_heap)
    /\ cells' = Merged
    /\ scan' = next_ptr
    /\ UNCHANGED <<heapVars, hostVars, held, phase, call, end_free_heap, status>>

(* ... or the next heap, or the end of the search *)
ScanNextHeap ==
    LET following == IF active_free_heap + 1 = heaps_actual_size
                     THEN 0 ELSE active_free_heap + 1
    IN  /\ Reached < call.size /\ next_ptr >= HeapEnd(active_free_heap)
        /\ active_free_heap' = following
        /\ \/ /\ following # end_free_heap
              /\ cells' = Merged
              /\ scan' = 0
              /\ UNCHANGED <<held, phase, call, end_free_heap, status>>
           \/ following = end_free_heap /\ ReturnNull(Merged)
        /\ UNCHANGED <<heaps, heaps_actual_size, active_heap, hostVars>>

SearchFreed ==
    /\ Scanning
    /\ IF scan = 0 /\ ~HeapComplete
       THEN Stop("check failed")
       ELSE ReuseFreed \/ ScanOn \/ ScanNextHeap

-----------------------------------------------------------------------------
(* memory_manager::realloc *)

(* Mutant of InPlace: _offset is not moved. *)
InPlaceOffsetKept(h, req, mem, i, offset) ==
    /\ cells' = Fill(Retire(mem, h, req), h, held[h].ptr + held[h].size, held[h].ptr + req - 1)
    /\ held' = [held EXCEPT ![h].size = req]
    /\ UNCHANGED <<heapVars, hostVars, phase, call, scan, end_free_heap, status>>

(* realloc_in_place returns ptr: memory becomes mem, the heap i's offset     *)
(* becomes offset, and the client fills the words it has gained.             *)
InPlace(h, req, mem, i, offset) ==
    /\ cells' = Fill(Retire(mem, h, req), h, held[h].ptr + held[h].size, held[h].ptr + req - 1)
    /\ heaps' = [heaps EXCEPT ![i].offset = offset]
    /\ held' = [held EXCEPT ![h].size = req]
    /\ UNCHANGED <<heaps_actual_size, active_heap, active_free_heap, hostVars,
                   phase, call, scan, end_free_heap, status>>

ReallocInHeap(h, req, i) ==
    LET p == held[h].ptr
        end == HeapEnd(i)
        size == adjust_to_mem_block(req)
        found == cells[p - 1].size
        orig == IF p + found > end THEN 0 ELSE found  \* 0: ptr is not valid
        last == p + orig = heaps[i].base + heaps[i].offset
        fits == p + found <= end /\ p + size <= end
        possible == possible_size(cells, p, orig, size, end)
    IN  \/ ~fits /\ BeginMalloc("realloc", h, req, orig)
        \/ /\ fits /\ orig > size
           /\ InPlace(h, req, [cells EXCEPT ![p + size] = Header(orig - size, FALSE)],
                      i, heaps[i].offset)
        \/ /\ fits /\ orig <= size /\ last
           /\ InPlace(h, req, [cells EXCEPT ![p - 1].size = size],
                      i, heaps[i].offset + size - orig)
        \/ /\ fits /\ orig = size /\ ~last
           /\ InPlace(h, req, cells, i, heaps[i].offset)
        \/ /\ fits /\ orig < size /\ ~last /\ possible >= size
           /\ InPlace(h, req, Combined(cells, p, possible, size), i, heaps[i].offset)
        \/ /\ fits /\ orig < size /\ ~last /\ possible < size
           /\ BeginMalloc("realloc", h, req, orig)

(* what a client uses realloc for *)
ResizeOp(h, req) ==
    CASE req = 0 -> "free"
      [] req # 0 /\ req > held[h].size -> "grow"
      [] req # 0 /\ req <= held[h].size -> "shrink"

realloc(h, req) ==
    /\ Idle
    /\ ResizeOp(h, req) \in ClientOps
    /\ \/ /\ req = 0
          /\ cells' = IF held[h] = NoRegion THEN cells
                      ELSE FreeIn(Retire(cells, h, 0), held[h].ptr)
          /\ held' = [held EXCEPT ![h] = NoRegion]
          /\ UNCHANGED <<heapVars, hostVars, phase, call, scan, end_free_heap, status>>
       \/ /\ req # 0 /\ HeapOf(held[h].ptr) = {}
          /\ BeginMalloc("realloc", h, req, 0)
       \/ \E i \in HeapOf(held[h].ptr) : req # 0 /\ ReallocInHeap(h, req, i)

(* sbrk called from outside this file; the caller keeps what it gets *)
ForeignSbrk(n) ==
    /\ Idle
    /\ SbrkGranted(n)
    /\ Sbrk(n)
    /\ foreign' = foreign \union (brk..(brk + n - 1))
    /\ cells' = Fill(cells, Foreign, brk, brk + n - 1)
    /\ UNCHANGED <<heapVars, held, phase, call, scan, end_free_heap, status>>

CallStep ==
    \/ BumpHit \/ ExpandHeap \/ SbrkFails \/ NextHeap
    \/ SearchFreed

Next ==
    \/ \E h \in Handles, req \in Requests :
           malloc(h, req) \/ calloc(h, req) \/ realloc(h, req)
    \/ \E h \in Handles : free(h)
    \/ \E n \in ForeignRequests : ForeignSbrk(n)
    \/ CallStep

(* A call that has started runs on: nothing else runs in the contract.       *)
Spec == Init /\ [][Next]_vars /\ WF_vars(CallStep)

-----------------------------------------------------------------------------
(* Properties *)

TypeOK ==
    /\ \A a \in Words : cells[a] \in Handles \union {Foreign, Stale}
                        \/ (cells[a].size \in Nat /\ cells[a].alloc \in BOOLEAN)
    /\ \A i \in 0..(HeapSlots - 1) :
           /\ heaps[i].base \in Words \union {NoMem}
           /\ heaps[i].offset \in 0..heaps[i].size
    /\ heaps_actual_size \in 0..HeapSlots
    /\ active_heap \in 0..HeapSlots /\ active_free_heap \in 0..(HeapSlots - 1)
    /\ pages \in InitPages..MaxPages /\ foreign \subseteq Words
    /\ \A h \in Handles : held[h] = NoRegion \/ held[h].ptr \in Words
    /\ phase \in {"idle", "bump", "freed"}
    /\ status \in {"running", "trap", "null write", "slot overrun", "check failed"}

(* What a client wrote into its region stays there, through other calls,     *)
(* through reuse of freed memory and through the copy realloc makes          *)
(* (malloc.cpp:203-211): no header and no other region is ever put on it,    *)
(* and memory taken by other callers of sbrk is left alone.                  *)
DataIntact ==
    /\ \A h \in Handles : \A a \in held[h].ptr..(held[h].ptr + held[h].size - 1) :
           cells[a] = h
    /\ \A a \in foreign : cells[a] = Foreign

(* The buffers of a heap tile it exactly up to _offset: the walks of         *)
(* malloc_from_freed and merge_contiguous step from header to header         *)
(* (malloc.cpp:413-420, 472-480).                                            *)
HeadersTile ==
    \A i \in {j \in 0..(HeapSlots - 1) : heaps[j].base \in Words \ {Null}} :
        LET limit == heaps[i].base + heaps[i].offset
            following(a) == IF a < limit THEN a + cells[a].size + 1 ELSE a
            header[n \in 0..heaps[i].offset] ==
                IF n = 0 THEN {heaps[i].base} ELSE {following(a) : a \in header[n - 1]}
        IN  header[heaps[i].offset] = {limit}

(* The check of malloc_from_freed never fails (malloc.cpp:291): a heap is    *)
(* searched for freed memory only after all of it was handed out once.       *)
OnlyCompleteHeapsSearched == status # "check failed"

(* Two heaps are enough (malloc.cpp:514-515) "if sbrk is not called outside  *)
(* of this file", since every sbrk after the first extends the heap that the *)
(* one before it gave; only outside callers can use the slots up.            *)
SlotsSuffice ==
    foreign = {} =>
        /\ status # "slot overrun"
        /\ \A i \in DOMAIN heaps : i >= 2 => ~is_init(i)

(* A failure of sbrk is handled (malloc.cpp:96-102): "ensure that any        *)
(* remaining unallocated memory gets cleaned up", and freed memory is used.  *)
SbrkFailureHandled == status # "trap"

(* A block of size words and its header fit between the client's regions.    *)
Occupied(h) ==
    IF held[h] = NoRegion THEN {}
    ELSE (held[h].ptr - 1)..(held[h].ptr + adjust_to_mem_block(held[h].size) - 1)

RoomFor(size) ==
    \E i \in 0..(heaps_actual_size - 1) :
        \E k \in 0..((heaps[i].size - size - 1) \div MemBlock) :
            LET a == heaps[i].base + k * MemBlock IN
            \A h \in Handles : (a..(a + size)) \cap Occupied(h) = {}

(* malloc gives up only when no heap has room between the regions the client *)
(* still holds: what was freed is found again, however it was split and      *)
(* merged before (malloc.cpp:154-171, 465-497).                              *)
NullMeansNoRoom ==
    [][(phase = "freed" /\ phase' = "idle" /\ held' = held) => ~RoomFor(call.size)]_vars

(* Every call returns or stops the contract: the loops over heaps and        *)
(* buffers end (malloc.cpp:144-152, 158-168, 294-308).                       *)
CallsReturn == (phase # "idle") ~> (phase = "idle")

(* memory_manager implements the abstract allocator. *)
Promise == INSTANCE Allocator WITH
    Low <- 1, High <- MaxPages * PageWords,
    live <- {held[h] : h \in Handles} \ {NoRegion}, down <- status # "running"

AllocatorSpec == Promise!Spec
=============================================================================
