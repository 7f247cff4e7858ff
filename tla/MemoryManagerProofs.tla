------------------------ MODULE MemoryManagerProofs ------------------------
(***************************************************************************)
(* Proofs about memory_manager and sbrk, for every size of pages, heaps    *)
(* and requests, with and without other callers of sbrk, wherever          *)
(* the host's limit is, and for clients that do not grow a region with     *)
(* realloc: after a free, growing in place overwrites other regions.       *)
(* The last part, on the slots for heaps, holds for every client.          *)
(***************************************************************************)
EXTENDS MemoryManager, Induction

(* The client never asks realloc for more than it has.                      *)
NoGrow == "grow" \notin ClientOps

Slots == 0..(HeapSlots - 1)

Headers == [size : Nat, alloc : BOOLEAN]

Marks == Handles \union {Foreign, Stale}

-----------------------------------------------------------------------------
(* The inductive invariant.  It is stated of memory mem, heaps hps and       *)
(* regions hld, since an action goes through several of them.                *)

Real(hps) == {i \in Slots : hps[i].base > 0}
Limit(hps, i) == hps[i].base + hps[i].offset
EndOf(hps, i) == hps[i].base + hps[i].size

(* Heaps lie one after the other, up to the break. *)
HeapsOK(hps, top) ==
    /\ hps \in [Slots -> [base : Nat \union {NoMem}, size : Nat, offset : Nat]]
    /\ \A i \in Slots : hps[i].offset <= hps[i].size
    /\ \A i \in Slots : hps[i].base = Null => hps[i].size = 0
    /\ \A i \in Real(hps) : hps[i].size > 0 /\ EndOf(hps, i) <= top
    /\ \A i, j \in Real(hps) : i < j => EndOf(hps, i) <= hps[j].base

(* A word of memory is data or a header.                                    *)
MemOK(mem) ==
    /\ mem = [a \in Words |-> mem[a]]
    /\ \A a \in Words : mem[a] \in Marks \/ mem[a] \in Headers

(* S are the places of the headers: those of a heap tile it up to its offset.*)
Tiled(mem, hps, S) ==
    /\ S \subseteq Words
    /\ \A a \in S : mem[a] \in Headers
    /\ \A a \in S : \E i \in Real(hps) : hps[i].base <= a /\ a < Limit(hps, i)
    /\ \A i \in Real(hps) : hps[i].offset > 0 => hps[i].base \in S
    /\ \A i \in Real(hps), a \in S : hps[i].base <= a /\ a < Limit(hps, i) =>
          /\ a + mem[a].size + 1 <= Limit(hps, i)
          /\ a + mem[a].size + 1 < Limit(hps, i) => a + mem[a].size + 1 \in S
    /\ \A a, b \in S : a < b => a + mem[a].size + 1 <= b

(* Each region is in an allocated buffer of its own, and holds its data. *)
Owns(mem, hld, S, h) ==
    /\ hld[h].size \in Requests \ {0} /\ hld[h].ptr - 1 \in S
    /\ mem[hld[h].ptr - 1].alloc
    /\ adjust_to_mem_block(hld[h].size) <= mem[hld[h].ptr - 1].size
    /\ \A a \in hld[h].ptr..(hld[h].ptr + hld[h].size - 1) : mem[a] = h

(* No two handles share a region.                                           *)
Owned(mem, hld, S) ==
    /\ hld \in [Handles -> [ptr : Nat, size : Nat]]
    /\ \A h \in Handles : hld[h] # NoRegion => Owns(mem, hld, S, h)
    /\ \A g, h \in Handles :
          hld[g] # NoRegion /\ hld[h] # NoRegion /\ hld[g].ptr = hld[h].ptr => g = h

(* Memory of other callers of sbrk is outside the heaps. *)
ForeignOK(mem, hps, F) ==
    /\ F \subseteq Words
    /\ \A a \in F :
          mem[a] = Foreign /\ \A i \in Real(hps) : a < hps[i].base \/ EndOf(hps, i) <= a

(* What an action keeps true of memory at each point of the call            *)
Good(mem, hps, S, hld, F) ==
    MemOK(mem) /\ Tiled(mem, hps, S) /\ Owned(mem, hld, S) /\ ForeignOK(mem, hps, F)

(* The break lies between the initial memory and the mapped pages.          *)
Host ==
    /\ pages \in InitPages..MaxPages /\ sbrk_words \in Nat
    /\ brk \in (InitPages * PageWords)..(pages * PageWords)
    /\ foreign \subseteq (InitPages * PageWords)..(brk - 1)

(* Heaps are used one after the other, each to its end before the next. *)
Stage ==
    /\ heaps_actual_size \in 0..HeapSlots /\ active_heap \in 0..heaps_actual_size
    /\ active_heap < heaps_actual_size => heaps_actual_size = HeapSlots
    /\ \A i \in Slots : is_init(i) <=> i <= active_heap /\ i < heaps_actual_size
    /\ \A i \in Slots : i < active_heap =>
          heaps[i].base > 0 /\ heaps[i].offset = heaps[i].size
    /\ \A i \in Slots : heaps[i].base = NoMem =>
          /\ i = active_heap /\ heaps[i].offset = 0 /\ heaps[i].size > 0 /\ ~SeesSbrkFailure
          /\ status = "running" => phase = "bump" /\ ~SbrkGranted(heap_adj)
    /\ active_free_heap \in Slots
    /\ active_free_heap # 0 =>
          active_heap = heaps_actual_size /\ active_free_heap < heaps_actual_size

(* What is known during a call of malloc or calloc                          *)
Calling ==
    /\ status \in {"running", "trap", "null write", "slot overrun"}
    /\ phase \in {"idle", "bump", "freed"}
    /\ status # "running" => phase = "idle"
    /\ phase = "bump" => active_heap < heaps_actual_size /\ scan = 0
    /\ phase = "freed" => active_heap = heaps_actual_size /\ heaps_actual_size > 0
    /\ phase # "idle" =>
          /\ call.op \in {"malloc", "calloc"} /\ call.handle \in Handles
          /\ held[call.handle] = NoRegion
          /\ call.req \in Requests \ {0} /\ call.size = adjust_to_mem_block(call.req)

(* The buffer that is looked at has its header in S. *)
Scanned(S) ==
    phase = "freed" /\ scan # 0 =>
        /\ scan \in Nat /\ scan - 1 \in S
        /\ heaps[active_free_heap].base < scan /\ scan <= EndOf(heaps, active_free_heap)

(* The inductive invariant                                                  *)
IInv ==
    /\ Host /\ HeapsOK(heaps, brk) /\ Stage /\ Calling
    /\ \E S \in SUBSET Words : Good(cells, heaps, S, held, foreign) /\ Scanned(S)

-----------------------------------------------------------------------------
(* Sizes *)

(* The assumptions on the constants, in the form the proofs use             *)
LEMMA Constants ==
    /\ MemBlock \in Nat \ {0} /\ HeapSlots \in Nat \ {0} /\ PageWords \in Nat \ {0}
    /\ MinGrab \in Nat \ {0} /\ MinGrab <= PageWords
    /\ InitPages \in Nat \ {0} /\ MaxPages \in Nat /\ InitPages <= MaxPages
    /\ InitialHeapBase \in Nat \ {0} /\ InitialHeapWords \in Nat \ {0}
    /\ InitPages * PageWords \in Nat \ {0} /\ MaxPages * PageWords \in Nat
    /\ InitPages * PageWords <= MaxPages * PageWords
    /\ InitialHeapBase + InitialHeapWords < InitPages * PageWords
    /\ AddrWords \in Nat \ {0} /\ 2 * (MaxPages * PageWords) < AddrWords
    /\ \A r \in Requests : r \in Nat /\ r + MemBlock <= AddrWords \div 2
    /\ \A n \in ForeignRequests : n \in Nat \ {0}
  <1>1. /\ MemBlock \in Nat \ {0} /\ HeapSlots \in Nat \ {0} /\ PageWords \in Nat \ {0}
        /\ MinGrab \in Nat \ {0} /\ MinGrab <= PageWords
        /\ InitPages \in Nat \ {0} /\ MaxPages \in Nat /\ InitPages <= MaxPages
        /\ InitialHeapBase \in Nat \ {0} /\ InitialHeapWords \in Nat \ {0}
        /\ InitialHeapBase + InitialHeapWords < InitPages * PageWords
    BY LayoutAssumption
  <1>2. InitPages * PageWords \in Nat \ {0} /\ MaxPages * PageWords \in Nat
    BY <1>1
  <1>3. InitPages * PageWords <= MaxPages * PageWords
    BY <1>1, TimesMonotone
  <1>4. 2 * MaxPages * PageWords = 2 * (MaxPages * PageWords)
    BY <1>1
  <1>5. AddrWords \in Nat /\ 2 * (MaxPages * PageWords) < AddrWords
    BY <1>4, RequestAssumption
  <1>6. AddrWords \in Nat \ {0}
    BY <1>2, <1>5
  <1>7. \A r \in Requests : r \in Nat /\ r + MemBlock <= AddrWords \div 2
    BY <1>1, <1>5, RequestAssumption
  <1>8. \A n \in ForeignRequests : n \in Nat \ {0}
    BY RequestAssumption
  <1> QED
    BY <1>1, <1>2, <1>3, <1>5, <1>6, <1>7, <1>8

(* The extrema the model takes of sets of two                               *)
LEMMA MaxOfTwo ==
    ASSUME NEW a \in Int, NEW b \in Int
    PROVE  Max({a, b}) = IF a >= b THEN a ELSE b
  BY DEF Max

LEMMA MinOfTwo ==
    ASSUME NEW a \in Int, NEW b \in Int
    PROVE  Min({a, b}) = IF a <= b THEN a ELSE b
  BY DEF Min

(* Rounding up to pages covers the words asked for.                         *)
LEMMA PagesFor ==
    ASSUME NEW X \in Nat, NEW P \in Nat \ {0}
    PROVE  (X + P - 1) \div P \in Int /\ X <= ((X + P - 1) \div P) * P
  <1>1. PICK y \in Int : y = X + P - 1
    OBVIOUS
  <1>2. PICK q : q = y \div P
    OBVIOUS
  <1>3. y = P * q + (y % P) /\ y % P \in 0 .. (P - 1) /\ q \in Int
    BY <1>2, EuclideanDivision, ModRange
  <1>4. P * q = q * P /\ q * P \in Int
    BY <1>3
  <1>5. X <= q * P
    BY <1>1, <1>3, <1>4
  <1> QED
    BY <1>1, <1>2, <1>3, <1>5

(* Nothing wraps below the size of the address space.                       *)
LEMMA WrapBelow ==
    ASSUME NEW n \in Nat, n < AddrWords
    PROVE  Wrap(n) = n
  BY Constants, ModBelow DEF Wrap

(* Rounding a number up to a multiple of the block *)
Up(n) == n + ((-n) % MemBlock)

(* Rounding up to blocks adds less than a block ...                         *)
LEMMA UpFacts ==
    ASSUME NEW n \in Nat
    PROVE  Up(n) \in Nat /\ n <= Up(n) /\ Up(n) <= n + MemBlock - 1
  <1>1. (-n) % MemBlock \in 0 .. (MemBlock - 1)
    BY Constants, ModRange
  <1> QED
    BY <1>1, Constants DEF Up

(* ... and keeps the order.                                                 *)
LEMMA UpMonotone ==
    ASSUME NEW m \in Nat, NEW n \in Nat, m <= n
    PROVE  Up(m) <= Up(n)
  <1> DEFINE M == MemBlock
             x == -m
             y == -n
  <1>1. M \in Nat \ {0} /\ x \in Int /\ y \in Int /\ y <= x
    BY Constants
  <1>2. /\ x = M * (x \div M) + (x % M) /\ y = M * (y \div M) + (y % M)
        /\ x % M \in 0 .. (M - 1) /\ y % M \in 0 .. (M - 1)
        /\ x \div M \in Int /\ y \div M \in Int
    BY <1>1, EuclideanDivision, ModRange
  <1> DEFINE p == x \div M
             q == y \div M
             r == x % M
             s == y % M
  <1>3. Up(m) = r - x /\ Up(n) = s - y
    BY <1>1, <1>2 DEF Up
  <1> HIDE DEF M, x, y, p, q, r, s
  <1>4. x = M * p + r /\ y = M * q + s /\ r \in 0 .. (M - 1) /\ s \in 0 .. (M - 1)
        /\ p \in Int /\ q \in Int
    BY <1>2 DEF p, q, r, s
  <1>5. M * p \in Int /\ M * q \in Int
    BY <1>1, <1>4
  <1>6. q <= p
    <2> SUFFICES ASSUME p + 1 <= q PROVE FALSE
      BY <1>4
    <2>1. M * (p + 1) <= M * q
      BY <1>1, <1>4, TimesMonotone
    <2>2. M * (p + 1) = M * p + M
      BY <1>1, <1>4
    <2> QED
      BY <1>1, <1>4, <1>5, <2>1, <2>2
  <1>7. M * q <= M * p
    BY <1>1, <1>4, <1>6, TimesMonotone
  <1> QED
    BY <1>1, <1>3, <1>4, <1>5, <1>7

(* adjust_to_mem_block returns at least what was asked, without a wrap.     *)
LEMMA Adjusted ==
    ASSUME NEW r \in Requests
    PROVE  /\ adjust_to_mem_block(r) \in Nat /\ r <= adjust_to_mem_block(r)
           /\ adjust_to_mem_block(r) + 1 <= AddrWords \div 2
           /\ adjust_to_mem_block(r) = Up(r + 1) - 1
  <1>1. r \in Nat /\ r + MemBlock <= AddrWords \div 2 /\ MemBlock \in Nat \ {0} /\ AddrWords \in Nat \ {0}
    BY Constants
  <1>2. r + 1 \in Nat /\ r + 1 < AddrWords
    BY <1>1
  <1>3. Wrap(r + 1) = r + 1
    BY <1>2, WrapBelow
  <1>4. Up(r + 1) \in Nat /\ r + 1 <= Up(r + 1) /\ Up(r + 1) <= r + MemBlock
    BY <1>1, <1>2, UpFacts
  <1> DEFINE x == r + ((-(r + 1)) % MemBlock)
  <1>5. x = Up(r + 1) - 1
    BY <1>1, Constants, ModRange DEF Up
  <1>6. x \in Nat /\ x < AddrWords
    BY <1>1, <1>4, <1>5
  <1>7. adjust_to_mem_block(r) = Wrap(x)
    BY <1>3 DEF adjust_to_mem_block
  <1>8. adjust_to_mem_block(r) = x
    <2> HIDE DEF x
    <2> QED
      BY <1>6, <1>7, WrapBelow
  <1> HIDE DEF x
  <1> QED
    BY <1>1, <1>4, <1>5, <1>6, <1>8

(* A smaller request is not adjusted to a larger size.                      *)
LEMMA AdjustedMonotone ==
    ASSUME NEW r \in Requests, NEW s \in Requests, r <= s
    PROVE  adjust_to_mem_block(r) <= adjust_to_mem_block(s)
  <1>1. r + 1 \in Nat /\ s + 1 \in Nat /\ r + 1 <= s + 1
    BY Constants
  <1>2. Up(r + 1) <= Up(s + 1)
    BY <1>1, UpMonotone
  <1>3. Up(r + 1) \in Nat /\ Up(s + 1) \in Nat
    BY <1>1, UpFacts
  <1> QED
    BY <1>2, <1>3, Adjusted

(* A buffer fits a heap exactly if it does without wrapping around. *)
LEMMA UsedUp ==
    ASSUME NEW i, NEW r \in Requests, heaps[i].offset \in Nat,
           heaps[i].offset <= MaxPages * PageWords
    PROVE  used_up_size(i, adjust_to_mem_block(r)) = heaps[i].offset + adjust_to_mem_block(r) + 1
  <1>1. /\ adjust_to_mem_block(r) \in Nat /\ adjust_to_mem_block(r) + 1 <= AddrWords \div 2
    BY Adjusted
  <1>2. AddrWords \in Nat \ {0} /\ 2 * (MaxPages * PageWords) < AddrWords /\ MaxPages * PageWords \in Nat
    BY Constants
  <1> DEFINE x == heaps[i].offset + adjust_to_mem_block(r) + 1
             W == MaxPages * PageWords
  <1> HIDE DEF W
  <1>3. x \in Nat /\ x < AddrWords
    BY <1>1, <1>2 DEF W
  <1>4. Wrap(x) = x
    <2> HIDE DEF x
    <2> QED
      BY <1>3, WrapBelow
  <1> QED
    BY <1>4 DEF used_up_size

-----------------------------------------------------------------------------
(* sbrk *)

(* next_active_heap always asks sbrk for something.                         *)
LEMMA HeapAdj ==
    ASSUME Host
    PROVE  heap_adj \in Nat \ {0}
  <1>1. brk \in Int /\ PageWords \in Nat \ {0} /\ 2 * PageWords \in Nat \ {0}
    <2>1. pages * PageWords \in Int /\ InitPages * PageWords \in Int
      BY Constants DEF Host
    <2> QED
      BY <2>1, Constants DEF Host
  <1>2. brk % PageWords \in 0 .. (PageWords - 1) /\ brk % (2 * PageWords) \in 0 .. (2 * PageWords - 1)
    BY <1>1, ModRange
  <1> QED
    BY <1>1, <1>2 DEF heap_adj

(* After sbrk the break is where it should be, and backed by pages. *)
LEMMA SbrkStep ==
    ASSUME Host, NEW n \in Nat, n > 0, SbrkGranted(n), Sbrk(n)
    PROVE  /\ pages' \in InitPages..MaxPages /\ sbrk_words' \in Nat
           /\ brk' = brk + RoundToBlock(n)
           /\ brk' \in (InitPages * PageWords)..(pages' * PageWords)
           /\ brk + n <= brk' /\ pages' * PageWords <= MaxPages * PageWords
           /\ brk \in Nat
  <1> DEFINE P == PageWords
             X == brk + RoundToBlock(n)
             D == num_desired_pages(n)
             I == InitPages * PageWords
  <1>1. P \in Nat \ {0} /\ I \in Nat \ {0} /\ pages \in Nat /\ MaxPages \in Nat /\ InitPages \in Nat
    BY Constants DEF Host
  <1>2. pages * P \in Nat
    BY <1>1
  <1>3. brk \in Nat /\ I <= brk
    <2> HIDE DEF I
    <2>1. brk \in I .. (pages * P)
      BY DEF Host, I
    <2> QED
      BY <1>1, <1>2, <2>1
  <1>4. RoundToBlock(n) = Up(n)
    BY DEF RoundToBlock, Up
  <1>5. RoundToBlock(n) \in Nat /\ n <= RoundToBlock(n)
    BY <1>4, UpFacts
  <1>6. X \in Nat /\ I <= X /\ X > 0 /\ brk + n <= X
    <2> HIDE DEF I
    <2> QED
      BY <1>1, <1>3, <1>5
  <1>7. sbrk_words' = X
    BY DEF Sbrk
  <1>8. brk' = X
    BY <1>6, <1>7 DEF brk
  <1>9. D = (X + P - 1) \div P
    BY DEF num_desired_pages
  <1> HIDE DEF X, D, I, P
  <1>10. D \in Int /\ X <= D * P
    BY <1>1, <1>6, <1>9, PagesFor
  <1>11. D <= MaxPages
    BY DEF SbrkGranted, D
  <1>12. pages' = Max({pages, D})
    BY DEF Sbrk, D
  <1>13. pages' \in {pages, D} /\ pages <= pages' /\ D <= pages'
    BY <1>1, <1>10, <1>12, MaxOfTwo
  <1>14. pages' \in InitPages..MaxPages
    <2>1. pages \in InitPages..MaxPages
      BY DEF Host
    <2> QED
      BY <1>1, <1>10, <1>11, <1>13, <2>1
  <1>15. PICK q : q = pages'
    OBVIOUS
  <1>16. q \in Int /\ MaxPages \in Int /\ D <= q /\ q <= MaxPages /\ P \in Nat
    BY <1>1, <1>13, <1>14, <1>15
  <1>17. D * P <= q * P /\ q * P <= MaxPages * P /\ D * P \in Int /\ q * P \in Int
    BY <1>10, <1>16, TimesMonotone
  <1>18. X \in I .. (q * P)
    BY <1>1, <1>6, <1>10, <1>17
  <1> QED
    BY <1>3, <1>6, <1>7, <1>8, <1>14, <1>15, <1>17, <1>18 DEF X, P, I

-----------------------------------------------------------------------------
(* Heaps, headers and regions *)

(* The end of the memory the host grants. *)
Top == MaxPages * PageWords

LEMMA TopFacts ==
    Top \in Nat \ {0} /\ Words = 0..(Top - 1)
  <1>1. InitPages * PageWords \in Nat \ {0} /\ MaxPages * PageWords \in Nat
        /\ InitPages * PageWords <= MaxPages * PageWords
    BY Constants
  <1> DEFINE x == InitPages * PageWords
             y == MaxPages * PageWords
  <1> HIDE DEF x, y
  <1>2. x \in Nat \ {0} /\ y \in Nat /\ x <= y /\ Top = y /\ Words = 0..(y - 1)
    BY <1>1 DEF x, y, Top, Words
  <1> QED
    BY <1>2

(* The bounds of a heap that has memory                                     *)
LEMMA RealHeap ==
    ASSUME NEW hps, NEW top \in Nat, top <= Top, HeapsOK(hps, top), NEW i \in Real(hps)
    PROVE  /\ hps[i].base \in Nat \ {0} /\ hps[i].size \in Nat \ {0}
           /\ hps[i].offset \in 0..hps[i].size
           /\ Limit(hps, i) \in Nat /\ EndOf(hps, i) \in Nat
           /\ hps[i].base <= Limit(hps, i) /\ Limit(hps, i) <= EndOf(hps, i)
           /\ EndOf(hps, i) <= top /\ EndOf(hps, i) <= Top /\ i \in Slots
  BY TopFacts, Constants DEF HeapsOK, Real, Limit, EndOf, NoMem

(* A buffer lies in one heap, below its offset. *)
LEMMA BlockIn ==
    ASSUME NEW hps, NEW top \in Nat, top <= Top, HeapsOK(hps, top),
           NEW mem, NEW S, Tiled(mem, hps, S), NEW a \in S
    PROVE  /\ a \in Words /\ a \in Nat /\ mem[a].size \in Nat /\ mem[a] \in Headers
           /\ a + mem[a].size < top /\ a + mem[a].size < Top
           /\ \E i \in Real(hps) :
                 /\ hps[i].base <= a /\ a < Limit(hps, i)
                 /\ a + mem[a].size + 1 <= Limit(hps, i)
                 /\ a + mem[a].size + 1 <= EndOf(hps, i)
  <1>1. a \in Words /\ a \in Nat /\ mem[a] \in Headers /\ mem[a].size \in Nat
    BY TopFacts DEF Tiled, Headers
  <1>2. PICK i \in Real(hps) : hps[i].base <= a /\ a < Limit(hps, i)
    BY DEF Tiled
  <1>3. a + mem[a].size + 1 <= Limit(hps, i)
    BY <1>2 DEF Tiled
  <1>4. /\ Limit(hps, i) \in Nat /\ EndOf(hps, i) \in Nat
        /\ Limit(hps, i) <= EndOf(hps, i) /\ EndOf(hps, i) <= top
    BY RealHeap
  <1>5. a + mem[a].size + 1 <= EndOf(hps, i)
    BY <1>1, <1>3, <1>4
  <1>6. a + mem[a].size < top /\ a + mem[a].size < Top
    BY <1>1, <1>4, <1>5, TopFacts
  <1> QED
    BY <1>1, <1>2, <1>3, <1>5, <1>6

(* Only the sizes in the headers matter to the tiling. *)
LEMMA TiledSame ==
    ASSUME NEW mem, NEW mem2, NEW hps, NEW S, Tiled(mem, hps, S),
           \A a \in S : mem2[a] \in Headers /\ mem2[a].size = mem[a].size
    PROVE  Tiled(mem2, hps, S)
  BY DEF Tiled

(* A region lies in its buffer. *)
LEMMA RegionIn ==
    ASSUME NEW hps, NEW top \in Nat, top <= Top, HeapsOK(hps, top),
           NEW mem, NEW S, Tiled(mem, hps, S), NEW hld, Owned(mem, hld, S),
           NEW h \in Handles, hld[h] # NoRegion
    PROVE  /\ hld[h].ptr - 1 \in S /\ hld[h].ptr \in Nat \ {0}
           /\ hld[h].size \in Nat \ {0} /\ hld[h].size \in Requests
           /\ hld[h].size <= mem[hld[h].ptr - 1].size
           /\ adjust_to_mem_block(hld[h].size) <= mem[hld[h].ptr - 1].size
           /\ mem[hld[h].ptr - 1].size \in Nat
           /\ hld[h].ptr + mem[hld[h].ptr - 1].size <= top
           /\ hld[h].ptr + mem[hld[h].ptr - 1].size <= Top
           /\ hld[h] = [ptr |-> hld[h].ptr, size |-> hld[h].size]
  <1>1. Owns(mem, hld, S, h) /\ hld[h] \in [ptr : Nat, size : Nat]
    BY DEF Owned
  <1>2. hld[h].size \in Requests /\ hld[h].size # 0 /\ hld[h].ptr - 1 \in S
        /\ adjust_to_mem_block(hld[h].size) <= mem[hld[h].ptr - 1].size
    BY <1>1 DEF Owns
  <1>3. /\ hld[h].ptr - 1 \in Nat /\ mem[hld[h].ptr - 1].size \in Nat
        /\ (hld[h].ptr - 1) + mem[hld[h].ptr - 1].size < top
        /\ (hld[h].ptr - 1) + mem[hld[h].ptr - 1].size < Top
    BY <1>2, BlockIn
  <1>4. adjust_to_mem_block(hld[h].size) \in Nat /\ hld[h].size <= adjust_to_mem_block(hld[h].size)
    BY <1>2, Adjusted
  <1>5. hld[h].size \in Nat /\ hld[h].ptr \in Nat /\ hld[h] = [ptr |-> hld[h].ptr, size |-> hld[h].size]
    BY <1>1
  <1>6. PICK p \in Nat, n \in Nat, f \in Nat, x \in Nat :
            /\ p = hld[h].ptr /\ n = hld[h].size /\ f = mem[p - 1].size
            /\ x = adjust_to_mem_block(n)
    BY <1>3, <1>4, <1>5
  <1>7. p - 1 \in Nat /\ n # 0 /\ x <= f /\ n <= x /\ (p - 1) + f < top /\ (p - 1) + f < Top
    BY <1>2, <1>3, <1>4, <1>6
  <1>8. p \in Nat \ {0} /\ n \in Nat \ {0} /\ n <= f /\ p + f <= top /\ p + f <= Top
    BY <1>7, TopFacts
  <1> QED
    BY <1>2, <1>5, <1>6, <1>7, <1>8

(* mem2 is mem but for the buffer at a0, whose size stays. *)
OnlyBlock(mem, mem2, a0) ==
    /\ mem2[a0] \in Headers /\ mem2[a0].size = mem[a0].size
    /\ \A b \in Words : (b < a0 \/ a0 + mem[a0].size < b) => mem2[b] = mem[b]

(* Writes inside one buffer disturb no other buffer.                        *)
LEMMA OnlyBlockKeeps ==
    ASSUME NEW hps, NEW top \in Nat, top <= Top, HeapsOK(hps, top),
           NEW mem, NEW S, NEW hld, NEW F, Good(mem, hps, S, hld, F),
           NEW a0 \in S, NEW mem2, OnlyBlock(mem, mem2, a0)
    PROVE  /\ Tiled(mem2, hps, S) /\ ForeignOK(mem2, hps, F)
           /\ \A g \in Handles : hld[g] # NoRegion /\ hld[g].ptr # a0 + 1 =>
                 Owns(mem2, hld, S, g)
  <1>1. Tiled(mem, hps, S) /\ Owned(mem, hld, S) /\ ForeignOK(mem, hps, F)
    BY DEF Good
  <1>2. a0 \in Nat /\ mem[a0].size \in Nat /\ a0 + mem[a0].size < Top
    BY <1>1, BlockIn
  <1>3. ASSUME NEW a \in S, a # a0
        PROVE  /\ mem2[a] = mem[a] /\ mem2[a] \in Headers
               /\ a0 + mem[a0].size < a \/ a + mem[a].size < a0
    <2>1. a \in Words /\ a \in Nat /\ mem[a] \in Headers /\ mem[a].size \in Nat
      BY <1>1, BlockIn
    <2>2. a0 < a => a0 + mem[a0].size + 1 <= a
      BY <1>1 DEF Tiled
    <2>3. a < a0 => a + mem[a].size + 1 <= a0
      BY <1>1 DEF Tiled
    <2>4. a0 + mem[a0].size < a \/ a + mem[a].size < a0
      BY <1>2, <1>3, <2>1, <2>2, <2>3
    <2>5. a < a0 \/ a0 + mem[a0].size < a
      BY <1>2, <2>1, <2>4
    <2>6. mem2[a] = mem[a]
      BY <2>1, <2>5 DEF OnlyBlock
    <2> QED
      BY <2>1, <2>4, <2>6
  <1>4. Tiled(mem2, hps, S)
    <2>1. \A a \in S : mem2[a] \in Headers /\ mem2[a].size = mem[a].size
      BY <1>3 DEF OnlyBlock
    <2> QED
      BY <1>1, <2>1, TiledSame
  <1>5. ForeignOK(mem2, hps, F)
    <2>1. PICK i \in Real(hps) : hps[i].base <= a0 /\ a0 + mem[a0].size + 1 <= EndOf(hps, i)
      BY <1>1, BlockIn
    <2>2. hps[i].base \in Nat /\ EndOf(hps, i) \in Nat
      BY RealHeap
    <2>3. ASSUME NEW a \in F PROVE mem2[a] = mem[a]
      <3>1. a \in Words /\ a \in Nat /\ (a < hps[i].base \/ EndOf(hps, i) <= a)
        BY <1>1, TopFacts DEF ForeignOK
      <3>2. a < a0 \/ a0 + mem[a0].size < a
        BY <1>2, <2>1, <2>2, <3>1
      <3> QED
        BY <3>1, <3>2 DEF OnlyBlock
    <2> QED
      BY <1>1, <2>3 DEF ForeignOK
  <1>6. ASSUME NEW g \in Handles, hld[g] # NoRegion, hld[g].ptr # a0 + 1
        PROVE  Owns(mem2, hld, S, g)
    <2> DEFINE p == hld[g].ptr
    <2>1. /\ p - 1 \in S /\ p \in Nat \ {0} /\ hld[g].size \in Nat /\ hld[g].size <= mem[p - 1].size
          /\ mem[p - 1].size \in Nat /\ p + mem[p - 1].size <= Top
      BY <1>1, <1>6, RegionIn
    <2>2. p - 1 # a0
      <3>1. p \in Nat /\ a0 \in Nat /\ p # a0 + 1
        BY <1>2, <1>6, <2>1
      <3> HIDE DEF p
      <3> QED
        BY <3>1
    <2>3. /\ mem2[p - 1] = mem[p - 1]
          /\ a0 + mem[a0].size < p - 1 \/ (p - 1) + mem[p - 1].size < a0
      BY <1>3, <2>1, <2>2
    <2>4. ASSUME NEW a \in p..(p + hld[g].size - 1) PROVE mem2[a] = mem[a]
      <3>1. a \in Nat /\ p <= a /\ a < p + mem[p - 1].size
        BY <2>1
      <3>2. a \in Words
        BY <2>1, <3>1, TopFacts
      <3>3. a < a0 \/ a0 + mem[a0].size < a
        BY <1>2, <2>1, <2>3, <3>1
      <3> QED
        BY <3>2, <3>3 DEF OnlyBlock
    <2>5. Owns(mem, hld, S, g)
      BY <1>1, <1>6 DEF Owned
    <2> QED
      BY <2>3, <2>4, <2>5 DEF Owns
  <1> QED
    BY <1>4, <1>5, <1>6

(* The buffer at a0 belongs to nobody but h, and h then holds r. *)
LEMMA OneBlock ==
    ASSUME NEW hps, NEW top \in Nat, top <= Top, HeapsOK(hps, top),
           NEW mem, NEW S, NEW hld, NEW F, Good(mem, hps, S, hld, F),
           NEW a0 \in S, NEW mem2, OnlyBlock(mem, mem2, a0), MemOK(mem2),
           NEW h \in Handles, hld[h] = NoRegion \/ hld[h].ptr = a0 + 1,
           \A g \in Handles : hld[g] # NoRegion /\ hld[g].ptr = a0 + 1 => g = h,
           NEW r, r = NoRegion \/
               /\ r \in [ptr : Nat, size : Nat] /\ r.ptr = a0 + 1
               /\ r.size \in Requests \ {0} /\ mem2[a0].alloc
               /\ adjust_to_mem_block(r.size) <= mem[a0].size
               /\ \A a \in r.ptr..(r.ptr + r.size - 1) : mem2[a] = h
    PROVE  Good(mem2, hps, S, [hld EXCEPT ![h] = r], F)
  <1> DEFINE hld2 == [hld EXCEPT ![h] = r]
  <1>1. Tiled(mem, hps, S) /\ Owned(mem, hld, S)
    BY DEF Good
  <1>2. /\ Tiled(mem2, hps, S) /\ ForeignOK(mem2, hps, F)
        /\ \A g \in Handles : hld[g] # NoRegion /\ hld[g].ptr # a0 + 1 => Owns(mem2, hld, S, g)
    BY OnlyBlockKeeps
  <1>3. a0 \in Nat /\ mem2[a0].size = mem[a0].size
    BY <1>1, BlockIn DEF OnlyBlock
  <1>4. hld \in [Handles -> [ptr : Nat, size : Nat]]
    BY <1>1 DEF Owned
  <1>5. NoRegion \in [ptr : Nat, size : Nat]
    BY DEF NoRegion, Null
  <1>6. hld2 \in [Handles -> [ptr : Nat, size : Nat]] /\ hld2[h] = r
        /\ \A g \in Handles : g # h => hld2[g] = hld[g]
    BY <1>4, <1>5
  <1> HIDE DEF hld2
  <1>7. ASSUME NEW g \in Handles, hld2[g] # NoRegion
        PROVE  Owns(mem2, hld2, S, g) /\ (g # h => hld2[g].ptr # a0 + 1)
    <2>1. CASE g = h
      <3>1. /\ r.ptr - 1 = a0 /\ r.size \in Requests \ {0} /\ mem2[a0].alloc
            /\ adjust_to_mem_block(r.size) <= mem2[a0].size
            /\ \A a \in r.ptr..(r.ptr + r.size - 1) : mem2[a] = h
        BY <1>3, <1>6, <1>7, <2>1
      <3> QED
        BY <1>6, <2>1, <3>1 DEF Owns
    <2>2. CASE g # h
      <3>1. hld[g] # NoRegion /\ hld2[g] = hld[g]
        BY <1>6, <1>7, <2>2
      <3>2. hld[g].ptr # a0 + 1
        BY <2>2, <3>1
      <3>3. Owns(mem2, hld, S, g)
        BY <1>2, <3>1, <3>2
      <3> QED
        BY <3>1, <3>2, <3>3 DEF Owns
    <2> QED
      BY <2>1, <2>2
  <1>8. ASSUME NEW g \in Handles, NEW k \in Handles, hld2[g] # NoRegion, hld2[k] # NoRegion,
               hld2[g].ptr = hld2[k].ptr
        PROVE  g = k
    <2>1. CASE g # h /\ k # h
      BY <1>1, <1>6, <1>8, <2>1 DEF Owned
    <2>2. hld2[h] # NoRegion => hld2[h].ptr = a0 + 1
      BY <1>6
    <2> QED
      BY <1>7, <1>8, <2>1, <2>2
  <1>9. Owned(mem2, hld2, S)
    BY <1>6, <1>7, <1>8 DEF Owned
  <1> QED
    BY <1>2, <1>9 DEF Good, hld2

(* Heaps are apart. *)
LEMMA HeapOrder ==
    ASSUME NEW hps, NEW top \in Nat, top <= Top, HeapsOK(hps, top),
           NEW i \in Real(hps), NEW j \in Real(hps), NEW b \in Nat, NEW c \in Nat,
           hps[i].base <= b, b < EndOf(hps, i), hps[j].base <= c, c < EndOf(hps, j), b <= c
    PROVE  i = j \/ EndOf(hps, i) <= hps[j].base
  <1>1. i \in Int /\ j \in Int
    BY RealHeap, Constants DEF Slots
  <1>2. CASE j < i
    <2>1. EndOf(hps, j) <= hps[i].base
      BY <1>2 DEF HeapsOK
    <2>2. EndOf(hps, j) \in Nat /\ hps[i].base \in Nat
      BY RealHeap
    <2> QED
      BY <2>1, <2>2
  <1>3. CASE i < j
    BY <1>3 DEF HeapsOK
  <1> QED
    BY <1>1, <1>2, <1>3

(* The offset of heap i becomes x. *)
OffsetAt(hps, i, x) == [hps EXCEPT ![i].offset = x]

(* Moving one offset leaves every other heap as it is.                      *)
LEMMA OffsetMoved ==
    ASSUME NEW hps, NEW top \in Nat, top <= Top, HeapsOK(hps, top),
           NEW i \in Real(hps), NEW x \in Nat, x <= hps[i].size,
           NEW hps2, hps2 = OffsetAt(hps, i, x)
    PROVE  /\ HeapsOK(hps2, top) /\ Real(hps2) = Real(hps)
           /\ \A j \in Slots : /\ hps2[j].base = hps[j].base /\ hps2[j].size = hps[j].size
                               /\ EndOf(hps2, j) = EndOf(hps, j)
           /\ \A j \in Slots : j # i => hps2[j] = hps[j] /\ Limit(hps2, j) = Limit(hps, j)
           /\ hps2[i].offset = x /\ Limit(hps2, i) = hps[i].base + x
  <1>1. i \in Slots /\ hps \in [Slots -> [base : Nat \union {NoMem}, size : Nat, offset : Nat]]
    BY DEF HeapsOK, Real
  <1>2. hps2 \in [Slots -> [base : Nat \union {NoMem}, size : Nat, offset : Nat]]
    BY <1>1 DEF OffsetAt
  <1>3. \A j \in Slots : hps2[j].base = hps[j].base /\ hps2[j].size = hps[j].size
    BY <1>1 DEF OffsetAt
  <1>4. \A j \in Slots : j # i => hps2[j] = hps[j]
    BY <1>1 DEF OffsetAt
  <1>5. hps2[i].offset = x
    BY <1>1 DEF OffsetAt
  <1>6. Real(hps2) = Real(hps)
    BY <1>3 DEF Real
  <1>7. \A j \in Slots : EndOf(hps2, j) = EndOf(hps, j)
    BY <1>3 DEF EndOf
  <1>8. \A j \in Real(hps) : j \in Slots
    BY DEF Real
  <1>9. \A j \in Slots : hps2[j].offset <= hps2[j].size
    <2> TAKE j \in Slots
    <2>1. CASE j = i
      BY <1>3, <1>5, <2>1
    <2>2. CASE j # i
      BY <1>4, <2>2 DEF HeapsOK
    <2> QED
      BY <2>1, <2>2
  <1>10. HeapsOK(hps2, top)
    <2>1. \A j \in Slots : hps2[j].base = Null => hps2[j].size = 0
      BY <1>3 DEF HeapsOK
    <2>2. \A j \in Real(hps2) : hps2[j].size > 0 /\ EndOf(hps2, j) <= top
      BY <1>3, <1>6, <1>7, <1>8 DEF HeapsOK
    <2>3. ASSUME NEW j \in Real(hps2), NEW k \in Real(hps2), j < k
          PROVE  EndOf(hps2, j) <= hps2[k].base
      <3>1. j \in Real(hps) /\ k \in Real(hps) /\ j \in Slots /\ k \in Slots
        BY <1>6, <1>8
      <3>2. EndOf(hps, j) <= hps[k].base
        BY <2>3, <3>1 DEF HeapsOK
      <3> QED
        BY <1>3, <1>7, <3>1, <3>2
    <2> QED
      BY <1>2, <1>9, <2>1, <2>2, <2>3 DEF HeapsOK
  <1> QED
    BY <1>1, <1>3, <1>4, <1>5, <1>6, <1>7, <1>10 DEF Limit

(* A buffer with header hd is put behind the last one of heap i. *)
BlockAdded(mem, hps, i, hd, mem2, hps2) ==
    /\ hd \in Headers /\ hps[i].offset + hd.size + 1 <= hps[i].size
    /\ mem2 = [mem EXCEPT ![Limit(hps, i)] = hd]
    /\ hps2 = OffsetAt(hps, i, hps[i].offset + hd.size + 1)

(* A header written at the offset of a heap extends its tiling.             *)
LEMMA AddBlock ==
    ASSUME NEW hps, NEW top \in Nat, top <= Top, HeapsOK(hps, top),
           NEW mem, NEW S, NEW hld, NEW F, Good(mem, hps, S, hld, F),
           NEW i \in Real(hps), NEW hd, NEW mem2, NEW hps2,
           BlockAdded(mem, hps, i, hd, mem2, hps2),
           NEW a0, a0 = Limit(hps, i)
    PROVE  /\ HeapsOK(hps2, top) /\ Good(mem2, hps2, S \union {a0}, hld, F)
           /\ a0 \in Words /\ mem2[a0] = hd
           /\ \A g \in Handles : hld[g] # NoRegion => hld[g].ptr # a0 + 1
  <1>a. PICK s : s = hd.size
    OBVIOUS
  <1>b. s \in Nat /\ hd \in Headers /\ hps[i].offset \in Nat
    BY <1>a, RealHeap DEF BlockAdded, Headers
  <1>c. PICK x : x = hps[i].offset + s + 1
    OBVIOUS
  <1>d. /\ hps2 = OffsetAt(hps, i, x) /\ x \in Nat /\ x <= hps[i].size
        /\ mem2 = [mem EXCEPT ![a0] = hd]
    BY <1>a, <1>b, <1>c DEF BlockAdded
  <1> DEFINE B == hps[i].base
             E == EndOf(hps, i)
             S2 == S \union {a0}
  <1>1. MemOK(mem) /\ Tiled(mem, hps, S) /\ Owned(mem, hld, S) /\ ForeignOK(mem, hps, F)
    BY DEF Good
  <1>2. /\ B \in Nat \ {0} /\ E \in Nat /\ E <= Top /\ hps[i].offset \in Nat /\ i \in Slots
        /\ a0 \in Nat /\ B <= a0 /\ x \in Nat /\ x <= hps[i].size
    BY <1>b, <1>c, <1>d, RealHeap
  <1>3. B + x = a0 + s + 1 /\ a0 + s + 1 <= E /\ a0 = B + hps[i].offset
    BY <1>b, <1>2, <1>b, <1>c, RealHeap DEF Limit, EndOf
  <1>4. /\ HeapsOK(hps2, top) /\ Real(hps2) = Real(hps)
        /\ \A j \in Slots : /\ hps2[j].base = hps[j].base /\ hps2[j].size = hps[j].size
                            /\ EndOf(hps2, j) = EndOf(hps, j)
        /\ \A j \in Slots : j # i => hps2[j] = hps[j] /\ Limit(hps2, j) = Limit(hps, j)
        /\ hps2[i].offset = x /\ Limit(hps2, i) = B + x
    BY <1>b, <1>2, <1>d, OffsetMoved
  <1>5. Limit(hps2, i) = a0 + s + 1
    BY <1>3, <1>4
  <1>6. a0 \in Words
    BY <1>b, <1>2, <1>3, TopFacts
  <1>7. /\ mem2[a0] = hd /\ hd \in Headers /\ hd.size = s
        /\ \A b \in Words : b # a0 => mem2[b] = mem[b]
        /\ mem2 = [a \in Words |-> mem2[a]]
    BY <1>1, <1>6, <1>a, <1>b, <1>d DEF MemOK
  <1> HIDE DEF B, E, S2
  <1>8. MemOK(mem2)
    BY <1>1, <1>7 DEF MemOK
  <1>9. ASSUME NEW b \in S
        PROVE  /\ b \in Words /\ b \in Nat /\ b # a0 /\ mem2[b] = mem[b] /\ mem[b].size \in Nat
               /\ mem[b] \in Headers
               /\ b < a0 => b + mem[b].size + 1 <= a0
               /\ a0 < b => a0 + s + 1 <= b
               /\ \E k \in Real(hps) : /\ hps[k].base <= b /\ b < Limit(hps, k) 
                                       /\ b + mem[b].size + 1 <= Limit(hps, k)
    <2>1. /\ b \in Nat /\ b \in Words /\ mem[b] \in Headers /\ mem[b].size \in Nat
      BY <1>1, BlockIn
    <2>2. PICK k \in Real(hps) : /\ hps[k].base <= b /\ b < Limit(hps, k) 
                                 /\ b + mem[b].size + 1 <= Limit(hps, k)
      BY <1>1, BlockIn
    <2>3. /\ Limit(hps, k) \in Nat /\ EndOf(hps, k) \in Nat /\ hps[k].base \in Nat
          /\ Limit(hps, k) <= EndOf(hps, k)
      BY RealHeap
    <2>4. CASE k = i
      <3>1. b < a0 /\ b + mem[b].size + 1 <= a0
        BY <2>2, <2>4
      <3>2. b # a0 /\ ~(a0 < b)
        BY <1>b, <1>2, <2>1, <3>1
      <3> QED
        BY <1>7, <2>1, <2>2, <3>1, <3>2
    <2>5. CASE k # i
      <3>0. b < EndOf(hps, k) /\ a0 < E
        BY <1>b, <1>2, <1>3, <2>1, <2>2, <2>3
      <3>1. b <= a0 => EndOf(hps, k) <= B
        BY <1>b, <1>2, <2>1, <2>2, <2>5, <3>0, HeapOrder DEF B, E
      <3>2. a0 <= b => E <= hps[k].base
        BY <1>b, <1>2, <2>1, <2>2, <2>5, <3>0, HeapOrder DEF B, E
      <3>3. b # a0
        BY <1>b, <1>2, <2>1, <2>2, <2>3, <3>0, <3>1
      <3>4. b < a0 => b + mem[b].size + 1 <= a0
        BY <1>b, <1>2, <2>1, <2>2, <2>3, <3>1
      <3>5. a0 < b => a0 + s + 1 <= b
        BY <1>b, <1>2, <1>3, <2>1, <2>2, <2>3, <3>2
      <3> QED
        BY <1>7, <2>1, <2>2, <3>3, <3>4, <3>5
    <2> QED
      BY <2>4, <2>5
  <1>10. Tiled(mem2, hps2, S2)
    <2>1. S2 \subseteq Words /\ \A b \in S2 : mem2[b] \in Headers
      BY <1>6, <1>7, <1>9 DEF S2
    <2>2. ASSUME NEW b \in S2
          PROVE  \E k \in Real(hps2) : hps2[k].base <= b /\ b < Limit(hps2, k)
      <3>1. CASE b = a0
        <4>1. hps2[i].base <= b /\ b < Limit(hps2, i)
          BY <1>b, <1>2, <1>4, <1>5, <3>1 DEF B
        <4> QED
          BY <1>4, <4>1
      <3>2. CASE b \in S
        <4>1. PICK k \in Real(hps) : hps[k].base <= b /\ b < Limit(hps, k)
          BY <1>9, <3>2
        <4>2. k \in Slots
          BY <4>1, RealHeap
        <4>3. b < Limit(hps2, k)
          <5>1. CASE k = i
            BY <1>b, <1>2, <1>5, <1>9, <3>2, <4>1, <5>1
          <5>2. CASE k # i
            BY <1>4, <4>1, <4>2, <5>2
          <5> QED
            BY <5>1, <5>2
        <4> QED
          BY <1>4, <4>1, <4>2, <4>3
      <3> QED
        BY <3>1, <3>2 DEF S2
    <2>3. ASSUME NEW j \in Real(hps2), hps2[j].offset > 0
          PROVE  hps2[j].base \in S2
      <3>1. j \in Real(hps) /\ j \in Slots
        BY <1>4, RealHeap
      <3>2. CASE j = i /\ hps[i].offset = 0
        BY <1>b, <1>2, <1>3, <1>4, <3>1, <3>2 DEF S2, B
      <3>3. CASE j # i \/ hps[i].offset # 0
        <4>1. hps[j].offset > 0
          BY <1>b, <1>2, <1>4, <2>3, <3>1, <3>3
        <4> QED
          BY <1>1, <1>4, <3>1, <4>1 DEF Tiled, S2
      <3> QED
        BY <3>2, <3>3
    <2>4. ASSUME NEW j \in Real(hps2), NEW b \in S2, hps2[j].base <= b, b < Limit(hps2, j)
          PROVE  /\ b + mem2[b].size + 1 <= Limit(hps2, j)
                 /\ b + mem2[b].size + 1 < Limit(hps2, j) => b + mem2[b].size + 1 \in S2
      <3>1. j \in Real(hps) /\ j \in Slots
        BY <1>4, RealHeap
      <3>2. /\ hps[j].base \in Nat /\ Limit(hps2, j) \in Nat /\ EndOf(hps, j) \in Nat
            /\ Limit(hps2, j) <= EndOf(hps, j) /\ hps[j].base <= b
        <4>1. /\ hps2[j].base \in Nat /\ Limit(hps2, j) \in Nat /\ EndOf(hps2, j) \in Nat
              /\ Limit(hps2, j) <= EndOf(hps2, j)
          BY <1>4, RealHeap
        <4>2. hps2[j].base = hps[j].base /\ EndOf(hps2, j) = EndOf(hps, j)
          BY <1>4, <3>1
        <4> QED
          BY <2>4, <4>1, <4>2
      <3>3. CASE b = a0
        <4>1. j = i
          <5>1. a0 < E /\ a0 < EndOf(hps, j)
            BY <1>b, <1>2, <1>3, <2>4, <3>2, <3>3
          <5>2. j = i \/ EndOf(hps, j) <= B
            BY <1>b, <1>2, <3>1, <3>2, <3>3, <5>1, HeapOrder DEF B, E
          <5> QED
            BY <1>b, <1>2, <3>2, <5>1, <5>2
        <4> QED
          BY <1>b, <1>2, <1>5, <1>7, <3>3, <4>1
      <3>4. CASE b \in S
        <4>0. b \in Nat /\ mem2[b] = mem[b] /\ mem[b].size \in Nat
          BY <1>9, <3>4
        <4>1. PICK k \in Real(hps) : hps[k].base <= b /\ b < Limit(hps, k)
          BY <1>9, <3>4
        <4>2. /\ Limit(hps, k) \in Nat /\ EndOf(hps, k) \in Nat /\ hps[k].base \in Nat
              /\ Limit(hps, k) <= EndOf(hps, k)
          BY RealHeap
        <4>3. b < EndOf(hps, k) /\ b < EndOf(hps, j)
          BY <2>4, <3>2, <4>0, <4>1, <4>2
        <4>4. j = k
          <5>1. j = k \/ EndOf(hps, j) <= hps[k].base
            BY <3>1, <3>2, <4>0, <4>1, <4>3, HeapOrder
          <5> QED
            BY <3>2, <4>0, <4>1, <4>2, <4>3, <5>1
        <4>5. /\ b + mem[b].size + 1 <= Limit(hps, j)
              /\ b + mem[b].size + 1 < Limit(hps, j) => b + mem[b].size + 1 \in S
          BY <1>1, <3>1, <3>4, <4>1, <4>4 DEF Tiled
        <4>6. CASE j # i
          BY <1>4, <3>1, <4>0, <4>5, <4>6 DEF S2
        <4>7. CASE j = i
          <5>1. b + mem[b].size + 1 <= a0
            BY <4>5, <4>7
          <5>2. b + mem[b].size + 1 <= Limit(hps2, j)
            BY <1>b, <1>2, <1>5, <4>0, <4>7, <5>1
          <5>3. b + mem[b].size + 1 = a0 \/ b + mem[b].size + 1 < a0
            BY <1>b, <1>2, <4>0, <5>1
          <5> QED
            BY <4>0, <4>5, <4>7, <5>2, <5>3 DEF S2
        <4> QED
          BY <4>6, <4>7
      <3> QED
        BY <3>3, <3>4 DEF S2
    <2>5. ASSUME NEW b \in S2, NEW c \in S2, b < c PROVE b + mem2[b].size + 1 <= c
      <3>1. CASE b \in S /\ c \in S
        BY <1>1, <1>9, <2>5, <3>1 DEF Tiled
      <3>2. CASE b = a0 /\ c \in S
        BY <1>7, <1>9, <2>5, <3>2
      <3>3. CASE b \in S /\ c = a0
        BY <1>9, <2>5, <3>3
      <3>4. ~(b = a0 /\ c = a0)
        BY <1>b, <1>2, <2>5
      <3> QED
        BY <3>1, <3>2, <3>3, <3>4 DEF S2
    <2> QED
      BY <2>1, <2>2, <2>3, <2>4, <2>5 DEF Tiled
  <1>11. ASSUME NEW g \in Handles, hld[g] # NoRegion
         PROVE  hld[g].ptr # a0 + 1 /\ Owns(mem2, hld, S2, g)
    <2>1. PICK p : p = hld[g].ptr
      OBVIOUS
    <2>2. PICK n : n = hld[g].size
      OBVIOUS
    <2>3. /\ p - 1 \in S /\ p \in Nat \ {0} /\ n \in Nat /\ n <= mem[p - 1].size
          /\ mem[p - 1].size \in Nat /\ p + mem[p - 1].size <= Top
      BY <1>1, <1>11, <2>1, <2>2, RegionIn
    <2>4. /\ p - 1 # a0 /\ mem2[p - 1] = mem[p - 1]
          /\ p - 1 < a0 => (p - 1) + mem[p - 1].size + 1 <= a0
      BY <1>9, <2>3
    <2>5. ASSUME NEW a \in p..(p + n - 1) PROVE mem2[a] = mem[a]
      <3>1. a \in Nat /\ p <= a /\ a < p + mem[p - 1].size
        BY <2>3
      <3>2. a # a0
        BY <1>b, <1>2, <2>3, <2>4, <3>1
      <3>3. a \in Words
        BY <2>3, <3>1, TopFacts
      <3> QED
        BY <1>7, <3>2, <3>3
    <2>6. Owns(mem, hld, S, g)
      BY <1>1, <1>11 DEF Owned
    <2>7. Owns(mem2, hld, S2, g)
      BY <2>1, <2>2, <2>4, <2>5, <2>6 DEF Owns, S2
    <2>8. p # a0 + 1
      BY <1>b, <1>2, <2>3, <2>4
    <2> QED
      BY <2>1, <2>7, <2>8
  <1>12. Owned(mem2, hld, S2)
    BY <1>1, <1>11 DEF Owned
  <1>13. ForeignOK(mem2, hps2, F)
    <2>1. ASSUME NEW a \in F PROVE a # a0
      <3>1. a < B \/ E <= a
        BY <1>1 DEF ForeignOK, B, E
      <3> QED
        BY <1>b, <1>2, <1>3, <3>1
    <2>2. \A j \in Real(hps) : j \in Slots
      BY RealHeap
    <2> QED
      BY <1>1, <1>4, <1>7, <2>1, <2>2 DEF ForeignOK
  <1> QED
    BY <1>4, <1>6, <1>7, <1>8, <1>10, <1>11, <1>12, <1>13 DEF Good, S2

(* More of the memory belongs to heaps. *)
LEMMA MoreHeap ==
    ASSUME NEW hps, NEW hps2, NEW mem, NEW S, NEW hld, NEW F, Good(mem, hps, S, hld, F),
           Real(hps) \subseteq Real(hps2),
           \A i \in Real(hps) : hps2[i].base = hps[i].base /\ hps2[i].offset = hps[i].offset,
           \A i \in Real(hps2) : hps2[i].base \in Nat,
           \A i \in Real(hps2) : i \notin Real(hps) => hps2[i].offset = 0,
           \A a \in F, i \in Real(hps2) : a < hps2[i].base \/ EndOf(hps2, i) <= a
    PROVE  Good(mem, hps2, S, hld, F)
  <1>1. Tiled(mem, hps, S)
    BY DEF Good
  <1>2. \A i \in Real(hps) : Limit(hps2, i) = Limit(hps, i)
    BY DEF Limit
  <1>3. \A i \in Real(hps2) : i \notin Real(hps) => Limit(hps2, i) = hps2[i].base
    BY DEF Limit
  <1>4. Tiled(mem, hps2, S)
    <2>1. S \subseteq Words /\ \A a \in S : mem[a] \in Headers
      BY <1>1 DEF Tiled
    <2>2. \A a \in S : \E i \in Real(hps2) : hps2[i].base <= a /\ a < Limit(hps2, i)
      <3> TAKE a \in S
      <3>1. PICK i \in Real(hps) : hps[i].base <= a /\ a < Limit(hps, i)
        BY <1>1 DEF Tiled
      <3> QED
        BY <1>2, <3>1
    <2>3. \A i \in Real(hps2) : hps2[i].offset > 0 => hps2[i].base \in S
      BY <1>1 DEF Tiled
    <2>4. ASSUME NEW i \in Real(hps2), NEW a \in S, hps2[i].base <= a, a < Limit(hps2, i)
          PROVE  /\ a + mem[a].size + 1 <= Limit(hps2, i)
                 /\ a + mem[a].size + 1 < Limit(hps2, i) => a + mem[a].size + 1 \in S
      <3>1. CASE i \in Real(hps)
        BY <1>1, <1>2, <2>4, <3>1 DEF Tiled
      <3>2. CASE i \notin Real(hps)
        <4>1. a \in Nat /\ hps2[i].base \in Nat /\ Limit(hps2, i) = hps2[i].base
          BY <1>3, <2>1, <3>2, TopFacts
        <4> QED
          BY <2>4, <4>1
      <3> QED
        BY <3>1, <3>2
    <2>5. \A a, b \in S : a < b => a + mem[a].size + 1 <= b
      BY <1>1 DEF Tiled
    <2> QED
      BY <2>1, <2>2, <2>3, <2>4, <2>5 DEF Tiled
  <1>5. ForeignOK(mem, hps2, F)
    BY DEF Good, ForeignOK
  <1> QED
    BY <1>4, <1>5 DEF Good

(* The size of heap i becomes n. *)
SizeAt(hps, i, n) == [hps EXCEPT ![i].size = n]

(* The last heap may take the words that follow it.                         *)
LEMMA HeapGrows ==
    ASSUME NEW hps, NEW top \in Nat, top <= Top, HeapsOK(hps, top),
           NEW mem, NEW S, NEW hld, NEW F, Good(mem, hps, S, hld, F),
           NEW i \in Real(hps), \A j \in Real(hps) : j <= i, EndOf(hps, i) = top,
           NEW n \in Nat, NEW top2 \in Nat, top + n <= top2,
           \A a \in F : a < top,
           NEW hps2, hps2 = SizeAt(hps, i, hps[i].size + n)
    PROVE  HeapsOK(hps2, top2) /\ Good(mem, hps2, S, hld, F)
  <1>1. i \in Slots /\ hps \in [Slots -> [base : Nat \union {NoMem}, size : Nat, offset : Nat]]
    BY DEF HeapsOK, Real
  <1>2. /\ hps[i].base \in Nat \ {0} /\ hps[i].size \in Nat \ {0} /\ hps[i].offset \in 0..hps[i].size
        /\ hps[i].base + hps[i].size = top
    BY RealHeap DEF EndOf
  <1>3. hps2 \in [Slots -> [base : Nat \union {NoMem}, size : Nat, offset : Nat]]
    BY <1>1, <1>2 DEF SizeAt
  <1>4. \A j \in Slots : hps2[j].base = hps[j].base /\ hps2[j].offset = hps[j].offset
    BY <1>1 DEF SizeAt
  <1>5. \A j \in Slots : j # i => hps2[j] = hps[j] /\ EndOf(hps2, j) = EndOf(hps, j)
    BY <1>1 DEF SizeAt, EndOf
  <1>6. hps2[i].size = hps[i].size + n
    BY <1>1 DEF SizeAt
  <1>7. EndOf(hps2, i) = top + n
    BY <1>1, <1>2, <1>4, <1>6 DEF EndOf
  <1>8. Real(hps2) = Real(hps)
    BY <1>4 DEF Real
  <1>9. \A j \in Real(hps) : j \in Slots /\ j \in Int /\ i \in Int
    BY Constants, <1>1 DEF Real, Slots
  <1>10. HeapsOK(hps2, top2)
    <2>1. \A j \in Slots : hps2[j].offset <= hps2[j].size
      <3> TAKE j \in Slots
      <3>1. CASE j = i
        BY <1>2, <1>4, <1>6, <3>1
      <3>2. CASE j # i
        BY <1>5, <3>2 DEF HeapsOK
      <3> QED
        BY <3>1, <3>2
    <2>2. \A j \in Slots : hps2[j].base = Null => hps2[j].size = 0
      <3> TAKE j \in Slots
      <3>1. CASE j = i
        BY <1>2, <1>4, <3>1 DEF Null
      <3>2. CASE j # i
        BY <1>5, <3>2 DEF HeapsOK
      <3> QED
        BY <3>1, <3>2
    <2>3. \A j \in Real(hps2) : hps2[j].size > 0 /\ EndOf(hps2, j) <= top2
      <3> TAKE j \in Real(hps2)
      <3>1. CASE j = i
        BY <1>2, <1>6, <1>7, <3>1
      <3>2. CASE j # i
        <4>1. j \in Real(hps) /\ j \in Slots
          BY <1>8, <1>9
        <4>2. hps[j].size > 0 /\ EndOf(hps, j) <= top /\ EndOf(hps, j) \in Nat
          BY <4>1, RealHeap
        <4>3. EndOf(hps, j) <= top2
          BY <4>2
        <4> QED
          BY <1>5, <3>2, <4>1, <4>2, <4>3
      <3> QED
        BY <3>1, <3>2
    <2>4. ASSUME NEW j \in Real(hps2), NEW k \in Real(hps2), j < k
          PROVE  EndOf(hps2, j) <= hps2[k].base
      <3>1. j \in Real(hps) /\ k \in Real(hps) /\ j \in Slots /\ k \in Slots
        BY <1>8, <1>9
      <3>2. j # i
        BY <1>9, <2>4, <3>1
      <3>3. EndOf(hps, j) <= hps[k].base
        BY <2>4, <3>1 DEF HeapsOK
      <3> QED
        BY <1>4, <1>5, <3>1, <3>2, <3>3
    <2> QED
      BY <1>3, <2>1, <2>2, <2>3, <2>4 DEF HeapsOK
  <1>11. ForeignOK(mem, hps, F)
    BY DEF Good
  <1>12. ASSUME NEW a \in F, NEW j \in Real(hps2)
         PROVE  a < hps2[j].base \/ EndOf(hps2, j) <= a
    <2>1. j \in Real(hps) /\ j \in Slots
      BY <1>8, <1>9
    <2>2. a < hps[j].base \/ EndOf(hps, j) <= a
      BY <1>11, <2>1 DEF ForeignOK
    <2>3. CASE j = i
      <3>1. a \in Nat /\ a < top
        BY <1>11, TopFacts DEF ForeignOK
      <3>2. a < hps[i].base
        BY <2>2, <2>3, <3>1
      <3> QED
        BY <1>1, <1>4, <2>3, <3>2
    <2>4. CASE j # i
      BY <1>4, <1>5, <2>1, <2>2, <2>4
    <2> QED
      BY <2>3, <2>4
  <1>13. \A j \in Real(hps2) : hps2[j].base \in Nat
    BY <1>10, <1>8, <1>4, <1>9, RealHeap
  <1>14. Good(mem, hps2, S, hld, F)
    BY <1>4, <1>8, <1>9, <1>12, <1>13, MoreHeap
  <1> QED
    BY <1>10, <1>14

(* Slot j gets the n words from b on; b is NoMem where a failure of sbrk is  *)
(* not seen.                                                                 *)
HeapAt(hps, j, b, n) == [hps EXCEPT ![j].base = b, ![j].size = n]

(* A slot may take words beyond all heaps.                                  *)
LEMMA HeapNew ==
    ASSUME NEW hps, NEW top \in Nat, top <= Top, HeapsOK(hps, top),
           NEW mem, NEW S, NEW hld, NEW F, Good(mem, hps, S, hld, F),
           NEW j \in Slots, hps[j].base = Null, \A k \in Real(hps) : k < j,
           NEW n \in Nat \ {0}, NEW top2 \in Nat, top <= top2, NEW b,
           \/ b = NoMem
           \/ /\ b \in Nat \ {0} /\ b + n <= top2
              /\ \A k \in Real(hps) : EndOf(hps, k) <= b
              /\ \A a \in F : a < b \/ b + n <= a,
           NEW hps2, hps2 = HeapAt(hps, j, b, n)
    PROVE  /\ HeapsOK(hps2, top2) /\ Good(mem, hps2, S, hld, F)
           /\ hps2[j].base = b /\ hps2[j].offset = 0 /\ hps2[j].size = n
           /\ \A k \in Slots : k # j => hps2[k] = hps[k]
  <1>1. hps \in [Slots -> [base : Nat \union {NoMem}, size : Nat, offset : Nat]]
    BY DEF HeapsOK
  <1>2. hps[j].offset = 0
    BY <1>1 DEF HeapsOK
  <1>3. hps2 \in [Slots -> [base : Nat \union {NoMem}, size : Nat, offset : Nat]]
    BY <1>1 DEF HeapAt
  <1>4. hps2[j].base = b /\ hps2[j].size = n /\ hps2[j].offset = 0
    BY <1>1, <1>2 DEF HeapAt
  <1>5. \A k \in Slots : k # j => hps2[k] = hps[k] /\ EndOf(hps2, k) = EndOf(hps, k)
    BY <1>1 DEF HeapAt, EndOf
  <1>6. j \notin Real(hps) /\ \A k \in Slots : k \in Int
    BY Constants DEF Real, Null, Slots
  <1>7. \A k \in Real(hps2) : k \in Slots /\ (k # j => k \in Real(hps))
    BY <1>5 DEF Real
  <1>8. \A k \in Real(hps) : k \in Slots /\ k # j /\ k \in Real(hps2)
    BY <1>5, <1>6 DEF Real
  <1>9. j \in Real(hps2) => /\ b \in Nat \ {0} /\ b + n <= top2 /\ EndOf(hps2, j) = b + n
                            /\ \A k \in Real(hps) : EndOf(hps, k) <= b
                            /\ \A a \in F : a < b \/ b + n <= a
    BY <1>4 DEF Real, NoMem, EndOf
  <1>10. HeapsOK(hps2, top2)
    <2>1. \A k \in Slots : hps2[k].offset <= hps2[k].size /\ (hps2[k].base = Null => hps2[k].size = 0)
      <3> TAKE k \in Slots
      <3>1. CASE k = j
        BY <1>4, <3>1 DEF NoMem, Null
      <3>2. CASE k # j
        BY <1>5, <3>2 DEF HeapsOK
      <3> QED
        BY <3>1, <3>2
    <2>2. ASSUME NEW k \in Real(hps2) PROVE hps2[k].size > 0 /\ EndOf(hps2, k) <= top2
      <3>1. CASE k = j
        BY <1>4, <1>9, <3>1
      <3>2. CASE k # j
        <4>1. k \in Real(hps) /\ k \in Slots
          BY <1>7, <3>2
        <4>2. hps[k].size > 0 /\ EndOf(hps, k) <= top /\ EndOf(hps, k) \in Nat
          BY <4>1, RealHeap
        <4>3. EndOf(hps, k) <= top2
          BY <4>2
        <4> QED
          BY <1>5, <3>2, <4>1, <4>2, <4>3
      <3> QED
        BY <3>1, <3>2
    <2>3. ASSUME NEW k \in Real(hps2), NEW l \in Real(hps2), k < l
          PROVE  EndOf(hps2, k) <= hps2[l].base
      <3>0. k \in Int /\ l \in Int /\ j \in Int
        BY <1>6, <1>7
      <3>1. CASE l = j
        <4>1. k # j
          BY <2>3, <3>0, <3>1
        <4>2. EndOf(hps, k) <= b /\ k \in Slots
          BY <1>7, <1>9, <3>1, <4>1
        <4> QED
          BY <1>4, <1>5, <3>1, <4>1, <4>2
      <3>2. CASE l # j
        <4>1. l \in Real(hps) /\ l \in Slots /\ l < j
          BY <1>7, <3>2
        <4>2. k # j
          BY <2>3, <3>0, <4>1
        <4>3. k \in Real(hps) /\ k \in Slots
          BY <1>7, <4>2
        <4>4. EndOf(hps, k) <= hps[l].base
          BY <2>3, <4>1, <4>3 DEF HeapsOK
        <4> QED
          BY <1>5, <3>2, <4>1, <4>2, <4>3, <4>4
      <3> QED
        BY <3>1, <3>2
    <2> QED
      BY <1>3, <2>1, <2>2, <2>3 DEF HeapsOK
  <1>11. ASSUME NEW a \in F, NEW k \in Real(hps2)
         PROVE  a < hps2[k].base \/ EndOf(hps2, k) <= a
    <2>1. CASE k = j
      BY <1>4, <1>9, <2>1
    <2>2. CASE k # j
      <3>1. k \in Real(hps) /\ k \in Slots
        BY <1>7, <2>2
      <3> QED
        BY <1>5, <2>2, <3>1 DEF Good, ForeignOK
    <2> QED
      BY <2>1, <2>2
  <1>12. \A k \in Real(hps2) : hps2[k].base \in Nat
    <2> TAKE k \in Real(hps2)
    <2>1. CASE k = j
      BY <1>4, <1>9, <2>1
    <2>2. CASE k # j
      <3>1. k \in Real(hps) /\ hps2[k] = hps[k]
        BY <1>5, <1>7, <2>2
      <3> QED
        BY <3>1, RealHeap
    <2> QED
      BY <2>1, <2>2
  <1>13. Real(hps) \subseteq Real(hps2)
    BY <1>8
  <1>14. \A k \in Real(hps) : hps2[k].base = hps[k].base /\ hps2[k].offset = hps[k].offset
    BY <1>5, <1>8
  <1>15. \A k \in Real(hps2) : k \notin Real(hps) => hps2[k].offset = 0
    BY <1>4, <1>7
  <1>16. Good(mem, hps2, S, hld, F)
    BY <1>11, <1>12, <1>13, <1>14, <1>15, MoreHeap
  <1> QED
    BY <1>4, <1>5, <1>10, <1>16

(* Another caller of sbrk gets the n words above the break. *)
LEMMA ForeignTaken ==
    ASSUME NEW hps, NEW top \in Nat, top <= Top, HeapsOK(hps, top),
           NEW mem, NEW S, NEW hld, NEW F, Good(mem, hps, S, hld, F),
           NEW n \in Nat, top + n <= Top,
           NEW mem2, mem2 = Fill(mem, Foreign, top, top + n - 1)
    PROVE  Good(mem2, hps, S, hld, F \union (top..(top + n - 1)))
  <1>1. MemOK(mem) /\ Tiled(mem, hps, S) /\ Owned(mem, hld, S) /\ ForeignOK(mem, hps, F)
    BY DEF Good
  <1>2. /\ \A a \in Words : a < top => mem2[a] = mem[a]
        /\ \A a \in Words : mem2[a] = Foreign \/ mem2[a] = mem[a]
        /\ \A a \in top..(top + n - 1) : mem2[a] = Foreign /\ a \in Words
        /\ mem2 = [a \in Words |-> mem2[a]]
    BY TopFacts DEF Fill
  <1>3. MemOK(mem2)
    BY <1>1, <1>2 DEF MemOK, Marks
  <1>4. \A a \in S : mem2[a] = mem[a]
    <2> TAKE a \in S
    <2>1. a \in Words /\ a \in Nat /\ mem[a].size \in Nat /\ a + mem[a].size < top
      BY <1>1, BlockIn
    <2> QED
      BY <1>2, <2>1
  <1>5. Tiled(mem2, hps, S)
    <2>1. \A a \in S : mem[a] \in Headers
      BY <1>1 DEF Tiled
    <2> QED
      BY <1>1, <1>4, <2>1, TiledSame
  <1>6. ASSUME NEW g \in Handles, hld[g] # NoRegion
        PROVE  Owns(mem2, hld, S, g)
    <2>1. PICK p : p = hld[g].ptr
      OBVIOUS
    <2>2. PICK k : k = hld[g].size
      OBVIOUS
    <2>3. /\ p - 1 \in S /\ p \in Nat \ {0} /\ k \in Nat /\ k <= mem[p - 1].size
          /\ mem[p - 1].size \in Nat /\ p + mem[p - 1].size <= top
      BY <1>1, <1>6, <2>1, <2>2, RegionIn
    <2>4. ASSUME NEW a \in p..(p + k - 1) PROVE mem2[a] = mem[a]
      <3>1. a \in Nat /\ a < top
        BY <2>3
      <3>2. a \in Words
        BY <3>1, TopFacts
      <3> QED
        BY <1>2, <3>1, <3>2
    <2>5. Owns(mem, hld, S, g)
      BY <1>1, <1>6 DEF Owned
    <2> QED
      BY <1>4, <2>1, <2>2, <2>3, <2>4, <2>5 DEF Owns
  <1>7. Owned(mem2, hld, S)
    BY <1>1, <1>6 DEF Owned
  <1>8. ASSUME NEW a \in F \union (top..(top + n - 1))
        PROVE  /\ mem2[a] = Foreign /\ a \in Words
               /\ \A i \in Real(hps) : a < hps[i].base \/ EndOf(hps, i) <= a
    <2>1. CASE a \in F
      BY <1>1, <1>2, <2>1 DEF ForeignOK
    <2>2. CASE a \in top..(top + n - 1)
      <3>1. \A i \in Real(hps) : EndOf(hps, i) <= top /\ EndOf(hps, i) \in Nat
        BY RealHeap
      <3>2. \A i \in Real(hps) : EndOf(hps, i) <= a
        BY <2>2, <3>1
      <3> QED
        BY <1>2, <2>2, <3>2
    <2> QED
      BY <2>1, <2>2
  <1>9. ForeignOK(mem2, hps, F \union (top..(top + n - 1)))
    BY <1>8 DEF ForeignOK
  <1> QED
    BY <1>3, <1>5, <1>7, <1>9 DEF Good

-----------------------------------------------------------------------------
(* merge_contiguous *)

(* From the free buffer before p, in heap i, free buffers have been passed   *)
(* up to p + w.                                                              *)
Walked(mem, hps, S, i, p, w) ==
    /\ w \in Nat /\ mem[p - 1].size <= w /\ p + w <= EndOf(hps, i)
    /\ p + w < EndOf(hps, i) => p + w \in S
    /\ \A b \in S : p <= b /\ b < p + w => ~mem[b].alloc

(* The headers once the buffers up to p + w are one of m words and a rest. *)
Joined(S, p, w, m) ==
    {b \in S : b < p \/ p + w <= b} \union (IF m < w THEN {p + m} ELSE {})

Smaller(a, b) == IF a <= b THEN a ELSE b

(* mem2 is mem with the w words after p joined, and cut at needed.          *)
JoinedMem(mem, mem2, p, w, needed, m) ==
    /\ m \in Nat /\ m <= w /\ m <= needed /\ MemOK(mem2)
    /\ mem2[p - 1] \in Headers /\ mem2[p - 1].size = m /\ ~mem2[p - 1].alloc
    /\ m < w => p + m \in Words /\ mem2[p + m] = Header(w - m - 1, FALSE)
    /\ \A a \in Words : a # p - 1 /\ (m < w => a # p + m) => mem2[a] = mem[a]

(* Combined joins as JoinedMem says.                                        *)
LEMMA CombinedIs ==
    ASSUME NEW mem, MemOK(mem), NEW p \in Nat \ {0}, NEW w \in Nat, NEW needed \in Nat,
           p - 1 \in Words, p + w <= Top, mem[p - 1] \in Headers, ~mem[p - 1].alloc,
           NEW m, m = Smaller(w, needed),
           NEW mem2, mem2 = Combined(mem, p, w, needed)
    PROVE  JoinedMem(mem, mem2, p, w, needed, m)
  <1>1. m \in Nat /\ m <= w /\ m <= needed /\ Min({w, needed}) = m /\ (m < w <=> w > needed)
        /\ (w > needed => m = needed)
    BY MinOfTwo DEF Smaller
  <1> DEFINE sized == [mem EXCEPT ![p - 1].size = m]
  <1>2. mem2 = IF m < w THEN [sized EXCEPT ![p + m] = Header(w - m - 1, FALSE)] ELSE sized
    BY <1>1 DEF Combined
  <1>3. mem = [a \in Words |-> mem[a]] /\ \A a \in Words : mem[a] \in Marks \/ mem[a] \in Headers
    BY DEF MemOK
  <1>4. /\ sized = [a \in Words |-> sized[a]] /\ sized[p - 1] \in Headers
        /\ sized[p - 1].size = m /\ ~sized[p - 1].alloc
        /\ \A a \in Words : a # p - 1 => sized[a] = mem[a]
    BY <1>1, <1>3 DEF Headers
  <1> HIDE DEF sized
  <1>5. m < w => p + m \in Words /\ p + m # p - 1 /\ Header(w - m - 1, FALSE) \in Headers
    BY <1>1, TopFacts DEF Header, Headers
  <1>6. CASE m < w
    <2>1. /\ mem2 = [a \in Words |-> mem2[a]] /\ mem2[p + m] = Header(w - m - 1, FALSE)
          /\ \A a \in Words : a # p + m => mem2[a] = sized[a]
      BY <1>2, <1>4, <1>5, <1>6
    <2>2. MemOK(mem2)
      BY <1>3, <1>4, <1>5, <1>6, <2>1 DEF MemOK
    <2>3. mem2[p - 1] = sized[p - 1]
      BY <1>5, <1>6, <2>1
    <2> QED
      BY <1>1, <1>4, <1>5, <1>6, <2>1, <2>2, <2>3 DEF JoinedMem
  <1>7. CASE ~(m < w)
    <2>1. mem2 = sized
      BY <1>2, <1>7
    <2>2. MemOK(mem2)
      BY <1>3, <1>4, <2>1 DEF MemOK
    <2> QED
      BY <1>1, <1>4, <1>7, <2>1, <2>2 DEF JoinedMem
  <1> QED
    BY <1>6, <1>7

(* Free buffers that follow each other become one, and a rest. *)
LEMMA Joining ==
    ASSUME NEW hps, NEW top \in Nat, top <= Top, HeapsOK(hps, top),
           NEW mem, NEW S, NEW hld, NEW F, Good(mem, hps, S, hld, F),
           NEW i \in Real(hps), hps[i].offset = hps[i].size,
           NEW p \in Nat \ {0}, p - 1 \in S, hps[i].base <= p - 1,
           ~mem[p - 1].alloc, NEW w, Walked(mem, hps, S, i, p, w), NEW needed \in Nat,
           NEW m, m = Smaller(w, needed),
           NEW mem2, mem2 = Combined(mem, p, w, needed)
    PROVE  /\ Good(mem2, hps, Joined(S, p, w, m), hld, F)
           /\ p - 1 \in Joined(S, p, w, m)
           /\ mem2[p - 1].size = m /\ m \in Nat /\ p + m <= EndOf(hps, i)
           /\ p + m < EndOf(hps, i) => p + m \in Joined(S, p, w, m)
           /\ \A g \in Handles : hld[g] # NoRegion => hld[g].ptr # p
  <1> DEFINE S2 == Joined(S, p, w, m)
             B == hps[i].base
             E == EndOf(hps, i)
  <1>1. MemOK(mem) /\ Tiled(mem, hps, S) /\ Owned(mem, hld, S) /\ ForeignOK(mem, hps, F)
    BY DEF Good
  <1>2. /\ B \in Nat \ {0} /\ E \in Nat /\ E <= Top /\ Limit(hps, i) = E /\ i \in Slots
        /\ B <= p - 1 /\ B < E
    BY RealHeap DEF Limit, EndOf
  <1>3. /\ w \in Nat /\ mem[p - 1].size <= w /\ p + w <= E
        /\ (p + w < E => p + w \in S)
        /\ \A b \in S : p <= b /\ b < p + w => ~mem[b].alloc
    BY DEF Walked
  <1>4. p - 1 \in Words /\ mem[p - 1] \in Headers /\ mem[p - 1].size \in Nat
    BY <1>1, BlockIn
  <1>5. p + w <= Top
    BY <1>2, <1>3, TopFacts
  <1>6. /\ m \in Nat /\ m <= w /\ m <= needed /\ MemOK(mem2)
        /\ mem2[p - 1] \in Headers /\ mem2[p - 1].size = m /\ ~mem2[p - 1].alloc
        /\ m < w => p + m \in Words /\ mem2[p + m] = Header(w - m - 1, FALSE)
        /\ \A a \in Words : a # p - 1 /\ (m < w => a # p + m) => mem2[a] = mem[a]
    <2>1. JoinedMem(mem, mem2, p, w, needed, m)
      BY <1>1, <1>3, <1>4, <1>5, CombinedIs
    <2> QED
      BY <2>1 DEF JoinedMem
  <1>7. m < w => /\ mem2[p + m] \in Headers /\ mem2[p + m].size = w - m - 1
                 /\ p + m + mem2[p + m].size + 1 = p + w
    <2> SUFFICES ASSUME m < w
                 PROVE  /\ mem2[p + m] \in Headers /\ mem2[p + m].size = w - m - 1
                        /\ p + m + mem2[p + m].size + 1 = p + w
      OBVIOUS
    <2>1. w \in Nat /\ m \in Nat /\ w - m - 1 \in Nat
      <3>1. w \in Nat /\ m \in Nat
        BY <1>3, <1>6
      <3> QED
        BY <3>1
    <2>2. mem2[p + m] \in Headers /\ mem2[p + m].size = w - m - 1
      <3>1. mem2[p + m] = Header(w - m - 1, FALSE)
        BY <1>6
      <3> QED
        BY <2>1, <3>1 DEF Header, Headers
    <2> QED
      BY <2>1, <2>2
  <1> HIDE DEF B, E, S2
  (* The three kinds of headers. *)
  <1>8. ASSUME NEW b \in S2
        PROVE  \/ b = p - 1
               \/ m < w /\ b = p + m
               \/ b \in S /\ (b < p - 1 \/ p + w <= b)
    <2>1. (b \in S /\ (b < p \/ p + w <= b)) \/ (m < w /\ b = p + m)
      BY DEF S2, Joined
    <2>2. b \in S => b \in Nat
      BY <1>1, BlockIn
    <2> QED
      BY <2>1, <2>2
  <1>9. p - 1 \in S2 /\ (m < w => p + m \in S2) /\ (p + w < E => p + w \in S2)
    BY <1>3 DEF S2, Joined
  <1>10. ASSUME NEW b \in S, b < p - 1 \/ p + w <= b
         PROVE  /\ b \in Words /\ b \in Nat /\ mem2[b] = mem[b] /\ mem[b] \in Headers /\ mem[b].size \in Nat
                /\ b \in S2 /\ (b < p - 1 => b + mem[b].size + 1 <= p - 1)
    <2>1. b \in Words /\ b \in Nat /\ mem[b] \in Headers /\ mem[b].size \in Nat
      BY <1>1, BlockIn
    <2>2. b # p - 1 /\ (m < w => b # p + m) /\ (b < p \/ p + w <= b)
      BY <1>3, <1>6, <1>10, <2>1
    <2>3. b < p - 1 => b + mem[b].size + 1 <= p - 1
      BY <1>1 DEF Tiled
    <2>4. b \in S2
      BY <2>2 DEF S2, Joined
    <2> QED
      BY <1>6, <2>1, <2>2, <2>3, <2>4
  <1>11. p + m <= E /\ (p + m < E => p + m \in S2)
    <2>1. CASE m < w
      BY <1>2, <1>3, <1>6, <1>9, <2>1
    <2>2. CASE m = w
      BY <1>3, <1>9, <2>2
    <2> QED
      BY <1>3, <1>6, <2>1, <2>2
  <1>12. ASSUME NEW k \in Real(hps), NEW b \in Nat, hps[k].base <= b, b < Limit(hps, k),
                p - 1 <= b, b < p + w
         PROVE  k = i
    <2>1. /\ hps[k].base \in Nat /\ EndOf(hps, k) \in Nat /\ Limit(hps, k) \in Nat
          /\ Limit(hps, k) <= EndOf(hps, k)
      BY RealHeap
    <2>2. b < EndOf(hps, k) /\ B <= b /\ b < E
      BY <1>2, <1>3, <1>12, <2>1
    <2>3. k = i \/ EndOf(hps, k) <= B
      BY <1>12, <2>2, HeapOrder DEF B, E
    <2> QED
      BY <1>2, <2>1, <2>2, <2>3
  <1>13. Tiled(mem2, hps, S2)
    <2>1. S2 \subseteq Words /\ \A b \in S2 : mem2[b] \in Headers
      BY <1>4, <1>6, <1>7, <1>8, <1>10
    <2>2. ASSUME NEW b \in S2
          PROVE  \E k \in Real(hps) : hps[k].base <= b /\ b < Limit(hps, k)
      <3>1. CASE b \in S
        BY <1>1, <3>1 DEF Tiled
      <3>2. CASE m < w /\ b = p + m
        <4>1. hps[i].base <= b /\ b < Limit(hps, i)
          BY <1>2, <1>3, <1>6, <3>2 DEF B
        <4> QED
          BY <4>1
      <3> QED
        BY <1>8, <3>1, <3>2
    <2>3. ASSUME NEW k \in Real(hps), hps[k].offset > 0 PROVE hps[k].base \in S2
      <3>1. hps[k].base \in S /\ hps[k].base \in Nat /\ hps[k].size \in Nat \ {0}
        BY <1>1, <2>3, RealHeap DEF Tiled
      <3>2. hps[k].base < Limit(hps, k)
        BY <2>3, <3>1, RealHeap DEF Limit
      <3>3. CASE p <= hps[k].base /\ hps[k].base < p + w
        <4>1. k = i
          BY <1>12, <3>1, <3>2, <3>3
        <4> QED
          BY <1>2, <3>3, <4>1 DEF B
      <3>4. CASE hps[k].base < p \/ p + w <= hps[k].base
        BY <3>1, <3>4 DEF S2, Joined
      <3> QED
        BY <1>3, <3>1, <3>3, <3>4
    <2>4. ASSUME NEW k \in Real(hps), NEW b \in S2, hps[k].base <= b, b < Limit(hps, k)
          PROVE  /\ b + mem2[b].size + 1 <= Limit(hps, k)
                 /\ b + mem2[b].size + 1 < Limit(hps, k) => b + mem2[b].size + 1 \in S2
      <3>0. b \in Nat
        BY <2>1, TopFacts
      <3>1. CASE b = p - 1
        <4>1. k = i
          BY <1>3, <1>12, <2>4, <3>0, <3>1
        <4>2. b + mem2[b].size + 1 = p + m
          BY <1>6, <3>1
        <4> QED
          BY <1>2, <1>11, <4>1, <4>2
      <3>2. CASE m < w /\ b = p + m
        <4>1. p - 1 <= b /\ b < p + w
          BY <1>3, <1>6, <3>2
        <4>2. k = i
          BY <1>12, <2>4, <3>0, <4>1
        <4>3. b + mem2[b].size + 1 = p + w
          BY <1>7, <3>2
        <4> QED
          BY <1>2, <1>3, <1>9, <4>2, <4>3
      <3>3. CASE b \in S /\ (b < p - 1 \/ p + w <= b)
        <4>1. PICK n : n = b + mem[b].size + 1
          OBVIOUS
        <4>2. mem2[b] = mem[b] /\ n \in Nat /\ b < n /\ (b < p - 1 => n <= p - 1)
          BY <1>10, <3>0, <3>3, <4>1
        <4>3. n <= Limit(hps, k) /\ (n < Limit(hps, k) => n \in S)
          BY <1>1, <2>4, <3>3, <4>1 DEF Tiled
        <4>4. n < p \/ p + w <= n
          BY <1>3, <3>0, <3>3, <4>2
        <4>5. n \in S => n \in S2
          BY <4>4 DEF S2, Joined
        <4> QED
          BY <4>1, <4>2, <4>3, <4>5
      <3> QED
        BY <1>8, <3>1, <3>2, <3>3
    <2>5. ASSUME NEW b \in S2, NEW c \in S2, b < c PROVE b + mem2[b].size + 1 <= c
      <3>0. b \in Nat /\ c \in Nat
        BY <2>1, TopFacts
      <3>1. CASE b = p - 1
        <4>1. b + mem2[b].size + 1 = p + m
          BY <1>6, <3>1
        <4>2. (m < w /\ c = p + m) \/ p + w <= c
          BY <1>8, <2>5, <3>0, <3>1
        <4> QED
          BY <1>3, <1>6, <3>0, <4>1, <4>2
      <3>2. CASE m < w /\ b = p + m
        <4>1. b + mem2[b].size + 1 = p + w
          BY <1>7, <3>2
        <4>2. p + w <= c
          BY <1>6, <1>8, <2>5, <3>0, <3>2
        <4> QED
          BY <4>1, <4>2
      <3>3. CASE b \in S /\ (b < p - 1 \/ p + w <= b)
        <4>1. mem2[b] = mem[b] /\ mem[b].size \in Nat /\ (b < p - 1 => b + mem[b].size + 1 <= p - 1)
          BY <1>10, <3>3
        <4>2. CASE c \in S
          <5>1. b + mem[b].size + 1 <= c
            BY <1>1, <2>5, <3>3, <4>2 DEF Tiled
          <5> QED
            BY <4>1, <5>1
        <4>3. CASE m < w /\ c = p + m
          <5>1. b < p - 1
            BY <1>3, <1>6, <2>5, <3>0, <3>3, <4>3
          <5>2. b + mem[b].size + 1 <= p - 1
            BY <4>1, <5>1
          <5>3. b + mem[b].size + 1 <= c
            BY <1>6, <3>0, <4>1, <4>3, <5>2
          <5> QED
            BY <4>1, <5>3
        <4> QED
          BY <1>8, <4>2, <4>3
      <3> QED
        BY <1>8, <3>1, <3>2, <3>3
    <2> QED
      BY <2>1, <2>2, <2>3, <2>4, <2>5 DEF Tiled
  <1>14. ASSUME NEW g \in Handles, hld[g] # NoRegion
         PROVE  hld[g].ptr # p /\ Owns(mem2, hld, S2, g)
    <2>1. PICK q : q = hld[g].ptr
      OBVIOUS
    <2>2. PICK n : n = hld[g].size
      OBVIOUS
    <2>3. /\ q - 1 \in S /\ q \in Nat \ {0} /\ n \in Nat /\ n <= mem[q - 1].size
          /\ mem[q - 1].size \in Nat /\ q + mem[q - 1].size <= Top
      BY <1>1, <1>14, <2>1, <2>2, RegionIn
    <2>4. Owns(mem, hld, S, g)
      BY <1>1, <1>14 DEF Owned
    <2>5. mem[q - 1].alloc
      BY <2>1, <2>4 DEF Owns
    <2>6. q - 1 # p - 1 /\ ~(p <= q - 1 /\ q - 1 < p + w)
      BY <1>3, <2>3, <2>5
    <2>7. q # p /\ (q - 1 < p - 1 \/ p + w <= q - 1)
      BY <1>3, <2>3, <2>6
    <2>8. /\ mem2[q - 1] = mem[q - 1] /\ q - 1 \in S2
          /\ (q - 1 < p - 1 => (q - 1) + mem[q - 1].size + 1 <= p - 1)
      BY <1>10, <2>3, <2>7
    <2>9. ASSUME NEW a \in q..(q + n - 1) PROVE mem2[a] = mem[a]
      <3>1. a \in Nat /\ q <= a /\ a < q + mem[q - 1].size
        BY <2>3
      <3>2. a # p - 1 /\ (m < w => a # p + m)
        <4>1. CASE q - 1 < p - 1
          <5>1. a < p - 1
            BY <1>3, <2>3, <2>8, <3>1, <4>1
          <5> QED
            BY <1>3, <1>6, <3>1, <5>1
        <4>2. CASE p + w <= q - 1
          <5>1. p + w < a
            BY <1>3, <2>3, <3>1, <4>2
          <5> QED
            BY <1>3, <1>6, <3>1, <5>1
        <4> QED
          BY <2>7, <4>1, <4>2
      <3>3. a \in Words
        BY <2>3, <3>1, TopFacts
      <3> QED
        BY <1>6, <3>2, <3>3
    <2>10. Owns(mem2, hld, S2, g)
      BY <2>1, <2>2, <2>4, <2>8, <2>9 DEF Owns
    <2> QED
      BY <2>1, <2>7, <2>10
  <1>15. Owned(mem2, hld, S2)
    BY <1>1, <1>14 DEF Owned
  <1>16. ForeignOK(mem2, hps, F)
    <2>1. ASSUME NEW a \in F PROVE mem2[a] = mem[a]
      <3>1. a \in Words /\ a \in Nat /\ (a < B \/ E <= a)
        BY <1>1, TopFacts DEF ForeignOK, B, E
      <3>2. a # p - 1 /\ (m < w => a # p + m)
        BY <1>2, <1>3, <1>6, <3>1
      <3> QED
        BY <1>6, <3>1, <3>2
    <2> QED
      BY <1>1, <2>1 DEF ForeignOK
  <1>17. Good(mem2, hps, S2, hld, F)
    BY <1>6, <1>13, <1>15, <1>16 DEF Good
  <1> QED
    BY <1>6, <1>9, <1>11, <1>14, <1>17 DEF S2, E

(* One round of merge_contiguous, and the table of its rounds *)
Onward(mem, p, needed, end, s) ==
    IF s < needed /\ p + s < end /\ ~mem[p + s].alloc THEN s + mem[p + s].size + 1 ELSE s

(* The rounds of the loop of possible_size                                  *)
Rounds(g, mem, p, size, needed, end) ==
    g = [n \in 0..(end - p) |->
            IF n = 0 THEN {size} ELSE {Onward(mem, p, needed, end, s) : s \in g[n - 1]}]

(* There is nothing more to merge. *)
MergeEnds(mem, p, needed, end, w) ==
    needed <= w \/ end <= p + w \/ mem[p + w].alloc

(* A round of possible_size goes from header to header, or stays.           *)
LEMMA OnwardWalks ==
    ASSUME NEW hps, NEW top \in Nat, top <= Top, HeapsOK(hps, top),
           NEW mem, NEW S, Tiled(mem, hps, S),
           NEW i \in Real(hps), hps[i].offset = hps[i].size,
           NEW p \in Nat \ {0}, p - 1 \in S, hps[i].base <= p - 1, NEW needed \in Nat,
           NEW w, Walked(mem, hps, S, i, p, w),
           NEW v, v = Onward(mem, p, needed, EndOf(hps, i), w)
    PROVE  /\ Walked(mem, hps, S, i, p, v)
           /\ MergeEnds(mem, p, needed, EndOf(hps, i), w) => v = w
           /\ ~MergeEnds(mem, p, needed, EndOf(hps, i), w) => v >= w + 1
  <1> DEFINE E == EndOf(hps, i)
             q == p + w
  <1>1. E \in Nat /\ Limit(hps, i) = E /\ hps[i].base \in Nat
    BY RealHeap DEF Limit, EndOf
  <1>2. /\ w \in Nat /\ mem[p - 1].size <= w /\ q <= E /\ (q < E => q \in S)
        /\ \A b \in S : p <= b /\ b < q => ~mem[b].alloc
    BY DEF Walked
  <1>3. CASE MergeEnds(mem, p, needed, E, w)
    <2>1. ~(w < needed /\ q < E /\ ~mem[q].alloc)
      BY <1>1, <1>2, <1>3 DEF MergeEnds
    <2>2. v = w
      BY <2>1 DEF Onward
    <2> QED
      BY <1>3, <2>2
  <1>4. CASE ~MergeEnds(mem, p, needed, E, w)
    <2>1. w < needed /\ q < E /\ ~mem[q].alloc
      BY <1>1, <1>2, <1>4 DEF MergeEnds
    <2>2. q \in S /\ q \in Nat /\ mem[q].size \in Nat
      BY <1>2, <2>1, BlockIn
    <2>3. v = w + mem[q].size + 1
      BY <2>1 DEF Onward
    <2>4. v \in Nat /\ v >= w + 1 /\ p + v = q + mem[q].size + 1
      BY <1>2, <2>2, <2>3
    <2>5. /\ q + mem[q].size + 1 <= E
          /\ q + mem[q].size + 1 < E => q + mem[q].size + 1 \in S
      <3>1. hps[i].base <= q /\ q < Limit(hps, i)
        BY <1>1, <1>2, <2>1
      <3> QED
        BY <1>1, <2>2, <3>1 DEF Tiled
    <2>6. ASSUME NEW b \in S, p <= b, b < p + v PROVE ~mem[b].alloc
      <3>1. b \in Nat
        BY BlockIn
      <3>2. CASE b < q
        BY <1>2, <2>6, <3>2
      <3>3. CASE b = q
        BY <2>1, <3>3
      <3>4. CASE q < b
        <4>1. q + mem[q].size + 1 <= b
          BY <2>2, <3>4 DEF Tiled
        <4> QED
          BY <2>2, <2>4, <2>6, <3>1, <4>1
      <3> QED
        BY <2>2, <3>1, <3>2, <3>3, <3>4
    <2>7. mem[p - 1].size <= v
      <3>1. mem[p - 1].size \in Nat
        BY BlockIn
      <3> QED
        BY <1>2, <2>2, <2>3, <3>1
    <2>8. Walked(mem, hps, S, i, p, v)
      BY <2>4, <2>5, <2>6, <2>7 DEF Walked
    <2> QED
      BY <1>4, <2>4, <2>8
  <1> QED
    BY <1>3, <1>4

(* The size merge_contiguous reaches *)
LEMMA PossibleSize ==
    ASSUME NEW hps, NEW top \in Nat, top <= Top, HeapsOK(hps, top),
           NEW mem, NEW S, Tiled(mem, hps, S),
           NEW i \in Real(hps), hps[i].offset = hps[i].size,
           NEW p \in Nat \ {0}, p - 1 \in S, hps[i].base <= p - 1, p <= EndOf(hps, i),
           NEW needed \in Nat,
           NEW w, w = possible_size(mem, p, mem[p - 1].size, needed, EndOf(hps, i))
    PROVE  Walked(mem, hps, S, i, p, w) /\ MergeEnds(mem, p, needed, EndOf(hps, i), w)
  <1> DEFINE E == EndOf(hps, i)
             k == E - p
             size == mem[p - 1].size
             D == [n \in 0..k |-> {v \in Nat :
                     Walked(mem, hps, S, i, p, v) /\ (MergeEnds(mem, p, needed, E, v) \/ n <= v)}]
             step == [s \in Nat |-> Onward(mem, p, needed, E, s)]
             walk == CHOOSE g : Rounds(g, mem, p, size, needed, E)
  <1>1. E \in Nat /\ Limit(hps, i) = E /\ hps[i].base \in Nat /\ k \in Nat
    BY RealHeap DEF Limit, EndOf
  <1>2. p - 1 \in Nat /\ size \in Nat
    BY BlockIn
  <1>3. size \in D[0]
    <2>1. p - 1 < Limit(hps, i)
      BY <1>1
    <2>2. (p - 1) + size + 1 <= E /\ ((p - 1) + size + 1 < E => (p - 1) + size + 1 \in S)
      BY <1>1, <2>1 DEF Tiled
    <2>3. (p - 1) + size + 1 = p + size
      BY <1>2
    <2>4. ASSUME NEW b \in S, p <= b, b < p + size PROVE FALSE
      <3>1. b \in Nat
        BY BlockIn
      <3>2. p - 1 < b
        BY <2>4, <3>1
      <3>3. (p - 1) + size + 1 <= b
        BY <3>2 DEF Tiled
      <3> HIDE DEF size
      <3> QED
        BY <1>2, <2>3, <2>4, <3>1, <3>3
    <2>5. p + size <= E /\ (p + size < E => p + size \in S)
      BY <2>2, <2>3
    <2>6. size <= size
      BY <1>2
    <2>7. Walked(mem, hps, S, i, p, size)
      BY <1>2, <2>4, <2>5, <2>6 DEF Walked
    <2> QED
      BY <1>1, <1>2, <2>7
  <1>4. ASSUME NEW n \in 1..k, NEW v \in D[n - 1]
        PROVE  Onward(mem, p, needed, E, v) \in D[n] /\ v \in Nat
    <2>1. PICK u : u = Onward(mem, p, needed, E, v)
      OBVIOUS
    <2>2. n - 1 \in 0..k /\ n \in 0..k
      BY <1>1
    <2>3. v \in Nat /\ Walked(mem, hps, S, i, p, v) /\ (MergeEnds(mem, p, needed, E, v) \/ n - 1 <= v)
      BY <2>2
    <2>4. /\ Walked(mem, hps, S, i, p, u)
          /\ MergeEnds(mem, p, needed, E, v) => u = v
          /\ ~MergeEnds(mem, p, needed, E, v) => u >= v + 1
      BY <2>1, <2>3, OnwardWalks
    <2>5. u \in Nat
      BY <2>4 DEF Walked
    <2>6. MergeEnds(mem, p, needed, E, u) \/ n <= u
      BY <1>1, <2>3, <2>4, <2>5
    <2> QED
      BY <2>1, <2>2, <2>3, <2>4, <2>5, <2>6
  <1>5. w = CHOOSE s \in walk[k] : TRUE
    BY DEF possible_size, Rounds, Onward
  <1> HIDE DEF D, size, k, E
  <1>6. \E g : Rounds(g, mem, p, size, needed, E)
    <2>1. PICK g : Iterates(g, size, step, k)
      <3> HIDE DEF step
      <3> QED
        BY <1>1, IterationExists
    <2>2. g[0] = {size} /\ \A n \in 1..k : g[n] = {step[x] : x \in g[n - 1]}
      <3>1. g = [n \in 0..k |-> IF n = 0 THEN {size} ELSE {step[x] : x \in g[n - 1]}]
        BY <2>1 DEF Iterates
      <3> HIDE DEF step
      <3>2. 0 \in 0..k /\ \A n \in 1..k : n \in 0..k /\ n # 0
        BY <1>1
      <3> QED
        BY <3>1, <3>2
    <2>3. ASSUME NEW n \in 1..k, NEW x \in D[n - 1], g[n - 1] = {x}
          PROVE  g[n] = {Onward(mem, p, needed, E, x)}
      <3>1. g[n] = {step[y] : y \in {x}}
        BY <2>2, <2>3
      <3>2. step[x] = Onward(mem, p, needed, E, x)
        BY <1>4
      <3> QED
        BY <3>1, <3>2
    <2>4. \A n \in 0..k : InRound(g, D, n)
      <3>1. InRound(g, D, 0)
        BY <1>3, <2>2 DEF InRound
      <3>2. \A n \in 1..k : InRound(g, D, n - 1) => InRound(g, D, n)
        BY <1>4, <2>3 DEF InRound
      <3> QED
        BY <1>1, <3>1, <3>2, LoopInvariance
    <2>5. ASSUME NEW n \in 0..k
          PROVE  g[n] = IF n = 0 THEN {size} ELSE {Onward(mem, p, needed, E, s) : s \in g[n - 1]}
      <3>1. CASE n = 0
        BY <2>2, <3>1
      <3>2. CASE n # 0
        <4>1. n \in 1..k /\ n - 1 \in 0..k
          BY <1>1, <3>2
        <4>2. PICK x \in D[n - 1] : g[n - 1] = {x}
          BY <2>4, <4>1 DEF InRound
        <4>3. g[n] = {Onward(mem, p, needed, E, x)}
          BY <2>3, <4>1, <4>2
        <4> QED
          BY <3>2, <4>2, <4>3
      <3> QED
        BY <3>1, <3>2
    <2>6. g = [n \in 0..k |-> IF n = 0 THEN {size} ELSE {Onward(mem, p, needed, E, s) : s \in g[n - 1]}]
      <3>1. g = [n \in 0..k |-> g[n]]
        BY <2>1 DEF Iterates
      <3> QED
        BY <2>5, <3>1
    <2> QED
      BY <2>6 DEF Rounds, k
  <1>7. Rounds(walk, mem, p, size, needed, E)
    BY <1>6
  <1> HIDE DEF walk
  <1>8. /\ walk[0] = {size}
        /\ \A n \in 1..k : walk[n] = {Onward(mem, p, needed, E, s) : s \in walk[n - 1]}
    <2>1. walk = [n \in 0..k |-> IF n = 0 THEN {size}
                                 ELSE {Onward(mem, p, needed, E, s) : s \in walk[n - 1]}]
      BY <1>7 DEF Rounds, k
    <2>2. 0 \in 0..k /\ \A n \in 1..k : n \in 0..k /\ n # 0
      BY <1>1
    <2> QED
      BY <2>1, <2>2
  <1>9. \A n \in 0..k : InRound(walk, D, n)
    <2>1. InRound(walk, D, 0)
      BY <1>3, <1>8 DEF InRound
    <2>2. ASSUME NEW n \in 1..k, NEW x \in D[n - 1], walk[n - 1] = {x}
          PROVE  \E y \in D[n] : walk[n] = {y}
      <3>1. walk[n] = {Onward(mem, p, needed, E, s) : s \in {x}}
        BY <1>8, <2>2
      <3>2. walk[n] = {Onward(mem, p, needed, E, x)}
        BY <3>1
      <3> QED
        BY <1>4, <3>2
    <2>3. \A n \in 1..k : InRound(walk, D, n - 1) => InRound(walk, D, n)
      BY <2>2 DEF InRound
    <2> QED
      BY <1>1, <2>1, <2>3, LoopInvariance
  <1>10. PICK x \in D[k] : walk[k] = {x}
    BY <1>1, <1>9 DEF InRound
  <1>11. w = x
    BY <1>5, <1>10
  <1>12. x \in Nat /\ Walked(mem, hps, S, i, p, x) /\ (MergeEnds(mem, p, needed, E, x) \/ k <= x)
    BY <1>1, <1>10 DEF D
  <1>13. k <= x => MergeEnds(mem, p, needed, E, x)
    BY <1>1, <1>12 DEF MergeEnds, k
  <1> QED
    BY <1>11, <1>12, <1>13 DEF E

-----------------------------------------------------------------------------
(* Steps *)

(* The bounds of the break                                                  *)
LEMMA BrkFacts ==
    ASSUME Host
    PROVE  brk \in Nat \ {0} /\ brk <= Top /\ InitPages * PageWords <= brk
  <1>1. InitPages * PageWords \in Nat \ {0} /\ MaxPages \in Nat /\ PageWords \in Nat
    BY Constants
  <1>2. pages \in Nat /\ pages <= MaxPages /\ brk \in (InitPages * PageWords)..(pages * PageWords)
    BY Constants DEF Host
  <1>3. pages * PageWords <= MaxPages * PageWords
    BY <1>1, <1>2, TimesMonotone
  <1> DEFINE x == InitPages * PageWords
             y == pages * PageWords
  <1>4. y \in Nat /\ x \in Nat \ {0}
    BY <1>1, <1>2
  <1>5. y <= Top /\ brk \in x..y
    BY <1>2, <1>3 DEF Top
  <1> HIDE DEF x, y
  <1>6. brk \in Nat \ {0} /\ brk <= Top /\ x <= brk
    BY <1>4, <1>5, TopFacts
  <1> QED
    BY <1>6 DEF x

(* The call of sbrk in next_active_heap, granted or not. *)
LEMMA HostStep ==
    ASSUME Host, HostAnswers, foreign' = foreign
    PROVE  /\ Host' /\ brk' \in Nat /\ brk' <= Top /\ brk <= brk'
           /\ SbrkGranted(heap_adj) => brk + heap_adj <= brk'
           /\ ~SbrkGranted(heap_adj) => brk' = brk
  <1>1. brk \in Nat \ {0} /\ brk <= Top
    BY BrkFacts
  <1>2. heap_adj \in Nat \ {0}
    BY HeapAdj
  <1>3. CASE SbrkGranted(heap_adj)
    <2>1. PICK n \in Nat \ {0} : n = heap_adj
      BY <1>2
    <2>2. SbrkGranted(n) /\ Sbrk(n)
      BY <1>3, <2>1 DEF HostAnswers
    <2>3. /\ pages' \in InitPages..MaxPages /\ sbrk_words' \in Nat
          /\ brk' \in (InitPages * PageWords)..(pages' * PageWords)
          /\ brk + n <= brk' /\ brk' = brk + RoundToBlock(n)
      BY <2>1, <2>2, SbrkStep
    <2>4. RoundToBlock(n) \in Nat
      BY <2>1, UpFacts DEF RoundToBlock, Up
    <2>5. brk' \in Nat
      BY <1>1, <2>3, <2>4
    <2>6. foreign' \subseteq (InitPages * PageWords)..(brk' - 1)
      <3>1. foreign \subseteq (InitPages * PageWords)..(brk - 1)
        BY DEF Host
      <3>2. PICK u : u = InitPages * PageWords
        OBVIOUS
      <3>3. u \in Nat /\ foreign \subseteq u..(brk - 1)
        BY <3>1, <3>2, Constants
      <3>4. brk \in Nat /\ brk' \in Nat /\ brk <= brk'
        <4>1. brk' = brk + RoundToBlock(n)
          BY <2>3
        <4> QED
          BY <1>1, <2>4, <4>1
      <3>5. foreign \subseteq u..(brk' - 1)
        <4>1. PICK b \in Nat, c \in Nat : b = brk /\ c = brk' /\ b <= c
          BY <3>4
        <4>2. u \in Nat /\ b <= c
          BY <3>3, <4>1
        <4>3. u..(b - 1) \subseteq u..(c - 1)
          BY <4>2
        <4> QED
          BY <3>3, <4>1, <4>3
      <3> QED
        BY <3>2, <3>5
    <2>7. Host'
      BY <2>3, <2>6 DEF Host
    <2>8. brk' <= Top
      <3>1. pages' \in Nat /\ pages' <= MaxPages /\ MaxPages \in Nat /\ PageWords \in Nat
        <4>1. pages' \in InitPages..MaxPages /\ InitPages \in Nat /\ MaxPages \in Nat
          BY <2>3, Constants
        <4> QED
          BY <4>1, Constants
      <3>2. PICK q \in Nat : q = pages'
        BY <3>1
      <3>3. q * PageWords <= MaxPages * PageWords /\ q * PageWords \in Nat
        <4>1. q <= MaxPages /\ q \in Int /\ MaxPages \in Int /\ PageWords \in Nat
          BY <3>1, <3>2
        <4> QED
          BY <4>1, TimesMonotone
      <3>4. brk' <= q * PageWords
        <4>1. PICK u : u = InitPages * PageWords
          OBVIOUS
        <4>2. PICK v : v = q * PageWords
          OBVIOUS
        <4>3. u \in Nat /\ v \in Nat /\ brk' \in u..v
          BY <2>3, <3>2, <3>3, <4>1, <4>2, Constants
        <4>4. brk' <= v
          BY <4>3
        <4> QED
          BY <4>2, <4>4
      <3> QED
        BY <2>5, <3>3, <3>4, TopFacts DEF Top
    <2> QED
      BY <1>1, <1>3, <2>1, <2>3, <2>5, <2>7, <2>8
  <1>4. CASE ~SbrkGranted(heap_adj)
    <2>1. sbrk_words' = brk /\ pages' = pages
      BY <1>4 DEF HostAnswers
    <2>2. brk' = brk
      BY <1>1, <2>1 DEF brk
    <2>3. Host'
      BY <1>1, <2>1, <2>2 DEF Host
    <2> QED
      BY <1>1, <1>4, <2>2, <2>3
  <1> QED
    BY <1>3, <1>4

(* What the host and the heaps are does not depend on the call. *)
LEMMA HostKept ==
    ASSUME Host, UNCHANGED hostVars
    PROVE  Host' /\ brk' = brk
  BY DEF Host, hostVars, brk

(* A step that ends the contract                                            *)
LEMMA StopKeeps ==
    ASSUME IInv, NEW how \in {"trap", "null write", "slot overrun"}, Stop(how)
    PROVE  IInv'
  <1>1. PICK S \in SUBSET Words : Good(cells, heaps, S, held, foreign)
    BY DEF IInv
  <1>2. /\ UNCHANGED hostVars /\ foreign' = foreign /\ cells' = cells /\ heaps' = heaps /\ held' = held
        /\ heaps_actual_size' = heaps_actual_size /\ active_heap' = active_heap
        /\ active_free_heap' = active_free_heap
        /\ status' = how /\ phase' = "idle"
    BY DEF Stop, heapVars, hostVars
  <1>3. Host' /\ brk' = brk
    BY <1>2, HostKept DEF IInv
  <1>4. HeapsOK(heaps, brk)'
    BY <1>2, <1>3 DEF IInv
  <1>5. Stage'
    BY <1>2 DEF IInv, Stage, is_init
  <1>6. Calling'
    BY <1>2 DEF IInv, Calling
  <1>7. Good(cells', heaps', S, held', foreign') /\ Scanned(S)'
    BY <1>1, <1>2 DEF Scanned
  <1> QED
    BY <1>3, <1>4, <1>5, <1>6, <1>7 DEF IInv

(* Outside of malloc's first loop every heap in use is real. *)
LEMMA NoLostHeap ==
    ASSUME HeapsOK(heaps, brk), Stage, status = "running", phase # "bump", NEW i \in Slots
    PROVE  heaps[i].base # NoMem /\ (i \in Real(heaps) <=> is_init(i))
  <1>1. heaps[i].base # NoMem
    BY DEF Stage
  <1>2. heaps[i].base \in Nat
    BY <1>1 DEF HeapsOK
  <1> QED
    BY <1>1, <1>2 DEF Real, is_init, Null

(* malloc and calloc, up to the loop *)
LEMMA BeginKeeps ==
    ASSUME IInv, Idle, NEW op \in {"malloc", "calloc"}, NEW h \in Handles, held[h] = NoRegion,
           NEW req \in Requests \ {0}, BeginMalloc(op, h, req, 0)
    PROVE  IInv'
  <1>1. PICK S \in SUBSET Words : Good(cells, heaps, S, held, foreign)
    BY DEF IInv
  <1>2. Host /\ HeapsOK(heaps, brk) /\ Stage /\ Calling
    BY DEF IInv
  <1>3. /\ UNCHANGED hostVars /\ foreign' = foreign /\ cells' = cells /\ held' = held
        /\ active_heap' = active_heap /\ active_free_heap' = active_free_heap
        /\ status' = status /\ scan' = 0
        /\ call' = [op |-> op, handle |-> h, req |-> req,
                    size |-> adjust_to_mem_block(req), orig |-> 0]
    BY DEF BeginMalloc, hostVars
  <1>4. Host' /\ brk' = brk
    BY <1>2, <1>3, HostKept
  <1>5. brk \in Nat \ {0} /\ brk <= Top /\ InitPages * PageWords <= brk
    BY <1>2, BrkFacts
  <1>6. \A i \in Slots : heaps[i].base # NoMem /\ (i \in Real(heaps) <=> is_init(i))
    BY <1>2, NoLostHeap DEF Idle
  <1>7. 0 \in Slots /\ HeapSlots \in Nat \ {0} /\ Slots = 0..(HeapSlots - 1)
    BY Constants DEF Slots
  <1>8. status = "running" /\ status' = "running"
    BY <1>3 DEF Idle
  <1>9. CASE heaps_actual_size = 0
    <2>1. active_heap = 0 /\ \A i \in Slots : ~is_init(i)
      BY <1>7, <1>9, <1>2 DEF Stage
    <2>2. active_free_heap = 0
      BY <1>2, <1>7, <1>9, <2>1 DEF Stage
    <2>3. heaps_actual_size' = HeapSlots /\ heaps' = HeapAt(heaps, 0, InitialHeapBase, InitialHeapWords)
          /\ phase' = "bump"
      BY <1>7, <1>9, <2>1 DEF BeginMalloc, HeapAt
    <2>4. Real(heaps) = {}
      BY <1>6, <2>1 DEF Real
    <2>5. heaps[0].base = Null
      BY <1>7, <2>1 DEF is_init
    <2>6. /\ InitialHeapBase \in Nat \ {0} /\ InitialHeapWords \in Nat \ {0}
          /\ InitialHeapBase + InitialHeapWords < InitPages * PageWords
          /\ InitPages * PageWords \in Nat
      BY Constants
    <2>7. InitialHeapBase + InitialHeapWords <= brk
      <3>1. PICK u \in Nat : u = InitPages * PageWords
        BY <2>6
      <3> QED
        BY <1>5, <2>6, <3>1
    <2>8. \A a \in foreign : InitialHeapBase + InitialHeapWords <= a
      <3>1. PICK u \in Nat : u = InitPages * PageWords
        BY <2>6
      <3>2. foreign \subseteq u..(brk - 1)
        BY <1>2, <3>1 DEF Host
      <3> QED
        BY <1>5, <2>6, <3>1, <3>2
    <2>9. /\ HeapsOK(heaps', brk) /\ Good(cells, heaps', S, held, foreign)
          /\ heaps'[0].base = InitialHeapBase
          /\ \A k \in Slots : k # 0 => heaps'[k] = heaps[k]
      BY <1>1, <1>2, <1>5, <1>7, <2>3, <2>4, <2>5, <2>6, <2>7, <2>8, HeapNew
    <2>10. HeapsOK(heaps, brk)'
      BY <1>4, <2>9
    <2>11. \A i \in Slots : is_init(i)' <=> i = 0
      BY <2>1, <2>6, <2>9 DEF is_init, Null
    <2>12. \A i \in Slots : heaps'[i].base # NoMem
      BY <1>6, <2>6, <2>9 DEF NoMem
    <2>13. Stage'
      BY <1>3, <1>7, <2>1, <2>2, <2>3, <2>11, <2>12 DEF Stage
    <2>14. Calling'
      BY <1>3, <1>7, <1>8, <2>1, <2>3 DEF Calling
    <2>15. Good(cells', heaps', S, held', foreign') /\ Scanned(S)'
      BY <1>3, <2>3, <2>9 DEF Scanned
    <2> QED
      BY <1>4, <2>10, <2>13, <2>14, <2>15 DEF IInv
  <1>10. CASE heaps_actual_size # 0
    <2>1. is_init(0)
      BY <1>2, <1>7, <1>10 DEF Stage
    <2>2. heaps_actual_size' = heaps_actual_size /\ heaps' = heaps
          /\ phase' = IF active_heap < heaps_actual_size THEN "bump" ELSE "freed"
      BY <1>10, <2>1 DEF BeginMalloc
    <2>3. HeapsOK(heaps, brk)'
      BY <1>2, <1>4, <2>2
    <2>4. Stage'
      BY <1>2, <1>3, <1>6, <2>2 DEF Stage, is_init
    <2>5. heaps_actual_size \in Nat /\ active_heap \in 0..heaps_actual_size
      BY <1>2, Constants DEF Stage
    <2>6. phase' = "freed" => active_heap = heaps_actual_size /\ heaps_actual_size > 0
      BY <1>10, <2>2, <2>5
    <2>7. phase' = "bump" => active_heap < heaps_actual_size
      BY <2>2
    <2>8. Calling'
      BY <1>3, <1>8, <2>2, <2>6, <2>7 DEF Calling
    <2>9. Good(cells', heaps', S, held', foreign') /\ Scanned(S)'
      BY <1>1, <1>3, <2>2 DEF Scanned
    <2> QED
      BY <1>4, <2>3, <2>4, <2>8, <2>9 DEF IInv
  <1> QED
    BY <1>9, <1>10

(* Writing into a buffer *)
LEMMA FillInBlock ==
    ASSUME NEW hps, NEW top \in Nat, top <= Top, HeapsOK(hps, top),
           NEW mem, NEW S, MemOK(mem), Tiled(mem, hps, S),
           NEW p \in Nat \ {0}, p - 1 \in S, NEW mark \in Marks,
           NEW from \in Nat, NEW to \in Int, p <= from, to < p + mem[p - 1].size,
           NEW mem2, mem2 = Fill(mem, mark, from, to)
    PROVE  /\ OnlyBlock(mem, mem2, p - 1) /\ MemOK(mem2)
           /\ mem2[p - 1] = mem[p - 1]
           /\ \A a \in from..to : mem2[a] = mark
           /\ \A a \in Words : a \notin from..to => mem2[a] = mem[a]
  <1>1. /\ p - 1 \in Words /\ mem[p - 1] \in Headers /\ mem[p - 1].size \in Nat
        /\ (p - 1) + mem[p - 1].size < Top
    BY BlockIn
  <1>2. /\ mem2 = [a \in Words |-> mem2[a]]
        /\ \A a \in Words : mem2[a] = IF a \in from..to THEN mark ELSE mem[a]
    BY DEF Fill
  <1>3. \A a \in from..to : a \in Words
    BY <1>1, TopFacts
  <1>4. MemOK(mem2)
    BY <1>2 DEF MemOK
  <1>5. mem2[p - 1] = mem[p - 1]
    BY <1>1, <1>2
  <1>6. ASSUME NEW b \in Words, b < p - 1 \/ (p - 1) + mem[p - 1].size < b
        PROVE  mem2[b] = mem[b]
    <2>1. b \in Nat
      BY TopFacts
    <2>2. b \notin from..to
      BY <1>1, <1>6, <2>1
    <2> QED
      BY <1>2, <2>2
  <1>7. OnlyBlock(mem, mem2, p - 1)
    BY <1>1, <1>5, <1>6 DEF OnlyBlock
  <1> QED
    BY <1>2, <1>3, <1>4, <1>5, <1>7

(* The pointer is returned and the client writes into its new region. *)
LEMMA Handed ==
    ASSUME Calling, phase # "idle", NEW hps, NEW top \in Nat, top <= Top, HeapsOK(hps, top),
           NEW mem, NEW S, NEW F, Good(mem, hps, S, held, F),
           NEW p \in Nat \ {0}, p - 1 \in S, mem[p - 1].alloc, call.size <= mem[p - 1].size,
           \A g \in Handles : held[g] # NoRegion => held[g].ptr # p,
           Return(mem, p)
    PROVE  Good(cells', hps, S, held', F)
  <1>1. /\ call.op # "realloc" /\ call.handle \in Handles /\ held[call.handle] = NoRegion
        /\ call.req \in Requests \ {0} /\ call.size = adjust_to_mem_block(call.req)
    BY DEF Calling
  <1>2. PICK h \in Handles : h = call.handle
    BY <1>1
  <1>3. PICK n : n = call.req
    OBVIOUS
  <1>4. /\ adjust_to_mem_block(n) \in Nat /\ n <= adjust_to_mem_block(n) /\ n \in Nat \ {0}
        /\ n \in Requests \ {0}
    BY <1>1, <1>3, Adjusted, Constants
  <1>5. cells' = Fill(mem, h, p, p + n - 1)
    <2>1. MovedInto(mem, p) = mem
      BY <1>1 DEF MovedInto
    <2>2. p + 0 = p
      OBVIOUS
    <2> QED
      BY <1>1, <1>2, <1>3, <2>1, <2>2 DEF Return
  <1>6. held' = [held EXCEPT ![h] = [ptr |-> p, size |-> n]]
    BY <1>2, <1>3 DEF Return
  <1>7. MemOK(mem) /\ Tiled(mem, hps, S)
    BY DEF Good
  <1>8. mem[p - 1].size \in Nat /\ adjust_to_mem_block(n) <= mem[p - 1].size
    BY <1>1, <1>3, <1>7, BlockIn
  <1>9. p + n - 1 < p + mem[p - 1].size /\ p + n - 1 \in Int
    BY <1>4, <1>8
  <1>10. h \in Marks
    BY DEF Marks
  <1>11. PICK mem2 : mem2 = cells'
    OBVIOUS
  <1>12. PICK to \in Int : to = p + n - 1
    BY <1>9
  <1>13. mem2 = Fill(mem, h, p, to) /\ to < p + mem[p - 1].size
    BY <1>5, <1>9, <1>11, <1>12
  <1>14. /\ OnlyBlock(mem, mem2, p - 1) /\ MemOK(mem2) /\ mem2[p - 1] = mem[p - 1]
         /\ \A a \in p..to : mem2[a] = h
    BY <1>7, <1>10, <1>13, FillInBlock
  <1>15. PICK r : r = [ptr |-> p, size |-> n]
    OBVIOUS
  <1>16. /\ r \in [ptr : Nat, size : Nat] /\ r.ptr = (p - 1) + 1 /\ r.size = n
         /\ r.ptr = p
    BY <1>4, <1>15
  <1>17. /\ r.size \in Requests \ {0} /\ mem2[p - 1].alloc
         /\ adjust_to_mem_block(r.size) <= mem[p - 1].size
         /\ \A a \in r.ptr..(r.ptr + r.size - 1) : mem2[a] = h
    BY <1>4, <1>8, <1>12, <1>14, <1>16
  <1>18. /\ held[h] = NoRegion
         /\ \A g \in Handles : held[g] # NoRegion /\ held[g].ptr = (p - 1) + 1 => g = h
    BY <1>1, <1>2
  <1>19. Good(mem2, hps, S, [held EXCEPT ![h] = r], F)
    BY <1>14, <1>16, <1>17, <1>18, OneBlock
  <1> QED
    BY <1>6, <1>11, <1>15, <1>19

(* cleanup_remaining *)
LEMMA CleanedUp ==
    ASSUME NEW top \in Nat, top <= Top, HeapsOK(heaps, top),
           NEW S, Good(cells, heaps, S, held, foreign), NEW i \in Real(heaps),
           NEW hps2, hps2 = OffsetAt(heaps, i, heaps[i].size)
    PROVE  /\ HeapsOK(hps2, top)
           /\ \E S2 : Good(Cleaned(i), hps2, S2, held, foreign)
  <1>1. heaps[i].offset \in 0..heaps[i].size /\ heaps[i].size \in Nat /\ i \in Slots
    BY RealHeap
  <1>2. CASE heaps[i].offset = heaps[i].size
    <2>1. Cleaned(i) = cells
      BY <1>2 DEF Cleaned, NeedsCleanup
    <2>2. heaps \in [Slots -> [base : Nat \union {NoMem}, size : Nat, offset : Nat]]
      BY DEF HeapsOK
    <2>3. hps2 = heaps
      BY <1>1, <1>2, <2>2 DEF OffsetAt
    <2> QED
      BY <2>1, <2>3
  <1>3. CASE heaps[i].offset # heaps[i].size
    <2>1. PICK s : s = heaps[i].size - heaps[i].offset - 1
      OBVIOUS
    <2>2. s \in Nat /\ heaps[i].offset + s + 1 = heaps[i].size
      BY <1>1, <1>3, <2>1
    <2>3. PICK a0 : a0 = Limit(heaps, i)
      OBVIOUS
    <2>4. PICK mem2 : mem2 = Cleaned(i)
      OBVIOUS
    <2>5. PICK hd : hd = Header(s, FALSE)
      OBVIOUS
    <2>6. hd \in Headers /\ hd.size = s
      BY <2>2, <2>5 DEF Header, Headers
    <2>7. BlockAdded(cells, heaps, i, hd, mem2, hps2)
      <3>1. mem2 = [cells EXCEPT ![Limit(heaps, i)] = hd]
        BY <1>3, <2>1, <2>4, <2>5 DEF Cleaned, NeedsCleanup, Remainder, Limit
      <3>2. heaps[i].offset + hd.size + 1 = heaps[i].size
        BY <2>2, <2>6
      <3>3. heaps[i].size <= heaps[i].size
        BY <1>1
      <3> QED
        BY <2>6, <3>1, <3>2, <3>3 DEF BlockAdded
    <2>9. HeapsOK(hps2, top) /\ Good(mem2, hps2, S \union {a0}, held, foreign)
      BY <2>3, <2>7, AddBlock
    <2> QED
      BY <2>4, <2>9
  <1> QED
    BY <1>2, <1>3

LEMMA TiledWords ==
    ASSUME NEW mem, NEW hps, NEW S, NEW hld, NEW F, Good(mem, hps, S, hld, F)
    PROVE  S \in SUBSET Words
  BY DEF Good, Tiled

(* memory::malloc *)
LEMMA BumpHitKeeps ==
    ASSUME IInv, BumpHit
    PROVE  IInv'
  <1>1. PICK S \in SUBSET Words : Good(cells, heaps, S, held, foreign)
    BY DEF IInv
  <1>2. Host /\ HeapsOK(heaps, brk) /\ Stage /\ Calling
    BY DEF IInv
  <1>3. status = "running" /\ phase = "bump"
    BY DEF BumpHit, Bumping
  <1>4. PICK i : i = active_heap
    OBVIOUS
  <1>5. i < heaps_actual_size /\ i \in Slots /\ is_init(i)
    <2>1. active_heap < heaps_actual_size /\ heaps_actual_size \in 0..HeapSlots
          /\ active_heap \in 0..heaps_actual_size
      BY <1>2, <1>3 DEF Stage, Calling
    <2>2. i \in Slots
      BY <1>4, <2>1, Constants DEF Slots
    <2> QED
      BY <1>2, <1>4, <2>1, <2>2 DEF Stage
  <1>6. PICK a : a = heaps[i].base + heaps[i].offset
    OBVIOUS
  <1>7. CASE Stop("trap")
    BY <1>7, StopKeeps
  <1>8. CASE ~Stop("trap")
    <2>1. /\ Mapped(a) /\ used_up_size(i, call.size) <= heaps[i].size
          /\ heaps' = [heaps EXCEPT ![i].offset = used_up_size(i, call.size)]
          /\ Return([cells EXCEPT ![a] = Header(call.size, TRUE)], a + 1)
          /\ UNCHANGED <<heaps_actual_size, active_heap, active_free_heap, hostVars>>
      BY <1>4, <1>6, <1>8 DEF BumpHit
    <2>2. heaps[i] \in [base : Nat \union {NoMem}, size : Nat, offset : Nat]
      BY <1>2, <1>5 DEF HeapsOK
    <2>3. heaps[i].base # NoMem
      <3> SUFFICES ASSUME heaps[i].base = NoMem PROVE FALSE
        OBVIOUS
      <3>1. heaps[i].offset = 0
        BY <1>2, <1>5 DEF Stage
      <3>2. a = -1
        BY <1>6, <3>1 DEF NoMem
      <3> QED
        BY <2>1, <3>2 DEF Mapped
    <2>4. i \in Real(heaps)
      BY <1>5, <2>2, <2>3 DEF Real, is_init, Null
    <2>5. brk \in Nat \ {0} /\ brk <= Top
      BY <1>2, BrkFacts
    <2>6. /\ heaps[i].offset \in 0..heaps[i].size /\ heaps[i].size \in Nat
          /\ heaps[i].base \in Nat \ {0} /\ EndOf(heaps, i) <= Top /\ a = Limit(heaps, i)
      BY <1>2, <1>6, <2>4, <2>5, RealHeap DEF Limit
    <2>7. heaps[i].offset \in Nat /\ heaps[i].offset <= MaxPages * PageWords
      <3>1. heaps[i].offset \in Nat /\ heaps[i].offset <= Top
        BY <2>6, TopFacts DEF EndOf
      <3> QED
        BY <3>1 DEF Top
    <2>8. call.req \in Requests /\ call.size = adjust_to_mem_block(call.req)
      BY <1>2, <1>3 DEF Calling
    <2>9. PICK s : s = call.size
      OBVIOUS
    <2>10. s \in Nat
      BY <2>8, <2>9, Adjusted
    <2>11. used_up_size(i, call.size) = heaps[i].offset + s + 1
      BY <2>7, <2>8, <2>9, UsedUp
    <2>12. heaps[i].offset + s + 1 <= heaps[i].size
      BY <2>1, <2>11
    <2>13. PICK hps2 : hps2 = heaps'
      OBVIOUS
    <2>14. PICK hd : hd = Header(s, TRUE)
      OBVIOUS
    <2>15. PICK mem2 : mem2 = [cells EXCEPT ![a] = hd]
      OBVIOUS
    <2>33. hd \in Headers /\ hd.size = s
      BY <2>10, <2>14 DEF Header, Headers
    <2>34. BlockAdded(cells, heaps, i, hd, mem2, hps2)
      BY <2>1, <2>6, <2>11, <2>12, <2>13, <2>15, <2>33 DEF BlockAdded, OffsetAt
    <2>16. /\ HeapsOK(hps2, brk) /\ Good(mem2, hps2, S \union {a}, held, foreign)
           /\ a \in Words /\ mem2[a] = hd
           /\ \A g \in Handles : held[g] # NoRegion => held[g].ptr # a + 1
      <3>1. PICK t \in Nat : t = brk
        BY <2>5
      <3>2. HeapsOK(heaps, t) /\ t <= Top /\ a = Limit(heaps, i)
        BY <1>2, <2>5, <2>6, <3>1
      <3> QED
        BY <1>1, <2>4, <2>34, <3>1, <3>2, AddBlock
    <2>17. PICK p : p = a + 1
      OBVIOUS
    <2>18. p \in Nat \ {0} /\ p - 1 = a
      BY <2>16, <2>17, TopFacts
    <2>19. mem2[p - 1].alloc /\ mem2[p - 1].size = s /\ s <= s
      BY <2>10, <2>14, <2>16, <2>18 DEF Header
    <2>20. Return(mem2, p)
      BY <2>1, <2>9, <2>14, <2>15, <2>17
    <2>21. Good(cells', hps2, S \union {a}, held', foreign)
      BY <1>2, <1>3, <2>5, <2>9, <2>16, <2>17, <2>18, <2>19, <2>20, Handed
    <2>22. Host' /\ brk' = brk /\ foreign' = foreign
      BY <1>2, <2>1, HostKept DEF hostVars
    <2>23. HeapsOK(heaps, brk)' /\ Good(cells', heaps', S \union {a}, held', foreign')
      BY <2>13, <2>16, <2>21, <2>22
    <2>24. phase' = "idle" /\ status' = status
      BY <2>20 DEF Return
    <2>25. Calling'
      BY <1>2, <2>24 DEF Calling
    <2>26. /\ heaps_actual_size' = heaps_actual_size /\ active_heap' = active_heap
           /\ active_free_heap' = active_free_heap
      BY <2>1
    <2>27. /\ \A j \in Slots : heaps'[j].base = heaps[j].base
           /\ \A j \in Slots : j # i => heaps'[j] = heaps[j]
      BY <1>2, <2>1 DEF HeapsOK
    <2>28. \A j \in Slots : heaps[j].base # NoMem
      BY <1>2, <1>4, <2>3 DEF Stage
    <2>29. \A j \in Slots : j < active_heap => j # i
      BY <1>4, <1>5, Constants DEF Slots
    <2>30. Stage'
      BY <1>2, <2>26, <2>27, <2>28, <2>29 DEF Stage, is_init
    <2>31. Scanned(S \union {a})'
      BY <2>24 DEF Scanned
    <2>32. S \union {a} \in SUBSET Words
      BY <2>16
    <2> QED
      BY <2>22, <2>23, <2>25, <2>30, <2>31, <2>32 DEF IInv
  <1> QED
    BY <1>7, <1>8

(* The heap malloc's first loop works in *)
LEMMA ActiveHeap ==
    ASSUME HeapsOK(heaps, brk), Stage, Calling, Bumping, NEW i, i = active_heap
    PROVE  /\ i \in Slots /\ i \in Nat /\ i < heaps_actual_size /\ heaps_actual_size = HeapSlots
           /\ heaps[i].base = NoMem \/ i \in Real(heaps)
           /\ heaps[i].base = NoMem =>
                 heaps[i].offset = 0 /\ heaps[i].size > 0 /\ ~SeesSbrkFailure /\ ~SbrkGranted(heap_adj)
           /\ \A j \in Real(heaps) : j <= i
           /\ \A j \in Slots : j # i => heaps[j].base # NoMem
           /\ active_free_heap = 0 /\ scan = 0
  <1>1. /\ status = "running" /\ phase = "bump" /\ active_heap < heaps_actual_size /\ scan = 0
        /\ heaps_actual_size \in 0..HeapSlots /\ active_heap \in 0..heaps_actual_size
    BY DEF Bumping, Stage, Calling
  <1>2. i \in Slots /\ i \in Nat /\ i < heaps_actual_size
    BY <1>1, Constants DEF Slots
  <1>3. heaps[i].base \in Nat \union {NoMem} /\ is_init(i)
    BY <1>1, <1>2 DEF HeapsOK, Stage
  <1>4. heaps[i].base = NoMem \/ i \in Real(heaps)
    BY <1>2, <1>3 DEF Real, is_init, Null
  <1>5. \A j \in Real(heaps) : j <= i
    <2> TAKE j \in Real(heaps)
    <2>1. j \in Slots /\ is_init(j)
      BY DEF Real, is_init, Null, HeapsOK
    <2> QED
      BY <2>1 DEF Stage
  <1> QED
    BY <1>1, <1>2, <1>4, <1>5 DEF Stage

(* A host that did not grant the memory would not grant it now. *)
LEMMA GrantedAgain ==
    ASSUME brk' = brk
    PROVE  SbrkGranted(heap_adj)' <=> SbrkGranted(heap_adj)
  BY DEF SbrkGranted, heap_adj, num_desired_pages, RoundToBlock

(* next_active_heap, one lemma for each of its outcomes                     *)
LEMMA ExpandHeapKeeps ==
    ASSUME IInv, ExpandHeap
    PROVE  IInv'
  <1>1. PICK S \in SUBSET Words : Good(cells, heaps, S, held, foreign)
    BY DEF IInv
  <1>2. Host /\ HeapsOK(heaps, brk) /\ Stage /\ Calling
    BY DEF IInv
  <1>3. PICK i : i = active_heap
    OBVIOUS
  <1>4. Bumping
    BY DEF ExpandHeap, BumpMiss
  <1>5. /\ i \in Slots /\ i \in Nat /\ i < heaps_actual_size
        /\ heaps[i].base = NoMem \/ i \in Real(heaps)
        /\ heaps[i].base = NoMem =>
              heaps[i].offset = 0 /\ heaps[i].size > 0 /\ ~SeesSbrkFailure /\ ~SbrkGranted(heap_adj)
        /\ \A j \in Real(heaps) : j <= i
        /\ \A j \in Slots : j # i => heaps[j].base # NoMem
    BY <1>2, <1>3, <1>4, ActiveHeap
  <1>6. /\ EndOf(heaps, i) = new_memory_start /\ HostAnswers
        /\ heaps' = SizeAt(heaps, i, heaps[i].size + heap_adj)
        /\ UNCHANGED <<cells, heaps_actual_size, active_heap, active_free_heap,
                       foreign, held, phase, call, scan, end_free_heap, status>>
    BY <1>3 DEF ExpandHeap, HeapEnd, EndOf, SizeAt
  <1>7. heaps[i].size \in Nat
    BY <1>2, <1>5 DEF HeapsOK
  <1>8. i \in Real(heaps)
    <2> SUFFICES ASSUME heaps[i].base = NoMem PROVE FALSE
      BY <1>5
    <2>1. new_memory_start = NoMem /\ heaps[i].size > 0
      BY <1>5 DEF new_memory_start
    <2> QED
      BY <1>6, <1>7, <2>1 DEF EndOf, NoMem
  <1>9. brk \in Nat \ {0} /\ brk <= Top /\ heap_adj \in Nat \ {0}
    BY <1>2, BrkFacts, HeapAdj
  <1>10. EndOf(heaps, i) \in Nat
    BY <1>2, <1>8, <1>9, RealHeap
  <1>11. SbrkGranted(heap_adj) /\ EndOf(heaps, i) = brk
    BY <1>6, <1>10 DEF new_memory_start, NoMem
  <1>12. /\ Host' /\ brk' \in Nat /\ brk' <= Top /\ brk + heap_adj <= brk'
    BY <1>2, <1>6, <1>11, HostStep
  <1>13. \A a \in foreign : a < brk
    <2>1. PICK u \in Nat : u = InitPages * PageWords
      BY Constants
    <2>2. foreign \subseteq u..(brk - 1)
      BY <1>2, <2>1 DEF Host
    <2> QED
      BY <1>9, <2>2
  <1>14. PICK t \in Nat, n \in Nat, t2 \in Nat : t = brk /\ n = heap_adj /\ t2 = brk'
    BY <1>9, <1>12
  <1>15. PICK hps2 : hps2 = heaps'
    OBVIOUS
  <1>16. /\ HeapsOK(heaps, t) /\ t <= Top /\ EndOf(heaps, i) = t /\ t + n <= t2
         /\ \A a \in foreign : a < t
         /\ hps2 = SizeAt(heaps, i, heaps[i].size + n)
    BY <1>2, <1>6, <1>9, <1>11, <1>12, <1>13, <1>14, <1>15
  <1>17. HeapsOK(hps2, t2) /\ Good(cells, hps2, S, held, foreign)
    BY <1>1, <1>5, <1>8, <1>14, <1>16, HeapGrows
  <1>18. HeapsOK(heaps, brk)' /\ Good(cells', heaps', S, held', foreign')
    BY <1>6, <1>14, <1>15, <1>17
  <1>19. \A j \in Slots : heaps'[j].base = heaps[j].base /\ (j # i => heaps'[j] = heaps[j])
    BY <1>2, <1>6 DEF HeapsOK, SizeAt
  <1>20. \A j \in Slots : heaps[j].base # NoMem
    BY <1>5, <1>8 DEF Real, NoMem
  <1>21. \A j \in Slots : j < active_heap => j # i
    BY <1>3, <1>5, Constants DEF Slots
  <1>22. Stage'
    BY <1>2, <1>6, <1>19, <1>20, <1>21 DEF Stage, is_init
  <1>23. Calling'
    BY <1>2, <1>6 DEF Calling
  <1>24. Scanned(S)'
    BY <1>4, <1>6 DEF Scanned, Bumping
  <1> QED
    BY <1>12, <1>18, <1>22, <1>23, <1>24 DEF IInv

LEMMA SbrkFailsKeeps ==
    ASSUME IInv, SbrkFails
    PROVE  IInv'
  <1>1. PICK S \in SUBSET Words : Good(cells, heaps, S, held, foreign)
    BY DEF IInv
  <1>2. Host /\ HeapsOK(heaps, brk) /\ Stage /\ Calling
    BY DEF IInv
  <1>3. PICK i : i = active_heap
    OBVIOUS
  <1>4. Bumping
    BY DEF SbrkFails, BumpMiss
  <1>5. /\ i \in Slots /\ i \in Nat /\ i < heaps_actual_size /\ heaps_actual_size = HeapSlots
        /\ heaps[i].base = NoMem \/ i \in Real(heaps)
        /\ heaps[i].base = NoMem => ~SeesSbrkFailure
        /\ \A j \in Real(heaps) : j <= i
        /\ \A j \in Slots : j # i => heaps[j].base # NoMem
        /\ active_free_heap = 0 /\ scan = 0
    BY <1>2, <1>3, <1>4, ActiveHeap
  <1>6. /\ new_memory_start = NoMem /\ SeesSbrkFailure /\ HostAnswers
        /\ cells' = Cleaned(i) /\ heaps' = OffsetAt(heaps, i, heaps[i].size)
        /\ active_heap' = i + 1 /\ heaps_actual_size' = i + 1 /\ phase' = "freed"
        /\ UNCHANGED <<active_free_heap, foreign, held, call, scan, end_free_heap, status>>
    BY <1>3 DEF SbrkFails, OffsetAt
  <1>7. i \in Real(heaps)
    BY <1>5, <1>6
  <1>8. brk \in Nat \ {0} /\ brk <= Top
    BY <1>2, BrkFacts
  <1>9. ~SbrkGranted(heap_adj)
    BY <1>6, <1>8 DEF new_memory_start, NoMem
  <1>10. Host' /\ brk' = brk
    BY <1>2, <1>6, <1>9, HostStep
  <1>11. PICK hps2 : hps2 = heaps'
    OBVIOUS
  <1>12. PICK t \in Nat : t = brk
    BY <1>8
  <1>13. HeapsOK(hps2, t) /\ \E S2 : Good(Cleaned(i), hps2, S2, held, foreign)
    <2>1. HeapsOK(heaps, t) /\ t <= Top /\ hps2 = OffsetAt(heaps, i, heaps[i].size)
      BY <1>2, <1>6, <1>8, <1>11, <1>12
    <2> QED
      BY <1>1, <1>7, <1>12, <2>1, CleanedUp
  <1>14. PICK S2 : Good(cells', heaps', S2, held', foreign')
    BY <1>6, <1>11, <1>13
  <1>15. S2 \in SUBSET Words
    BY <1>14, TiledWords
  <1>16. HeapsOK(heaps, brk)'
    BY <1>10, <1>11, <1>12, <1>13
  <1>17. /\ \A j \in Slots : heaps'[j].base = heaps[j].base /\ (j # i => heaps'[j] = heaps[j])
         /\ heaps'[i].offset = heaps'[i].size
    BY <1>2, <1>5, <1>6 DEF HeapsOK, OffsetAt
  <1>18. \A j \in Slots : heaps[j].base # NoMem
    BY <1>5, <1>7 DEF Real, NoMem
  <1>19. \A j \in Slots : j \in Nat /\ (j <= i <=> j < i + 1) /\ (j < i + 1 => j = i \/ j < i)
    BY <1>5, Constants DEF Slots
  <1>20. i + 1 \in 0..HeapSlots /\ i + 1 \in 0..(i + 1) /\ ~(i + 1 < i + 1) /\ i + 1 > 0
    BY <1>5, Constants
  <1>21. Stage'
    <2>1. \A j \in Slots : is_init(j)' <=> j <= i + 1 /\ j < i + 1
      <3> TAKE j \in Slots
      <3>1. is_init(j)' <=> is_init(j)
        BY <1>17 DEF is_init
      <3>2. is_init(j) <=> j <= i
        <4>1. is_init(j) <=> j <= active_heap /\ j < heaps_actual_size
          BY <1>2 DEF Stage
        <4> QED
          BY <1>3, <1>5, <1>19, <4>1, Constants DEF Slots
      <3> QED
        BY <1>5, <1>19, <3>1, <3>2
    <2>2. ASSUME NEW j \in Slots, j < i + 1 PROVE heaps'[j].base > 0 /\ heaps'[j].offset = heaps'[j].size
      <3>1. CASE j = i
        BY <1>7, <1>17, <3>1 DEF Real
      <3>2. CASE j < i
        <4>1. j # i
          BY <1>5, <1>19, <3>2
        <4> QED
          BY <1>2, <1>3, <1>17, <3>2, <4>1 DEF Stage
      <3> QED
        BY <1>19, <2>2, <3>1, <3>2
    <2>3. \A j \in Slots : heaps'[j].base # NoMem
      BY <1>17, <1>18
    <2>4. active_free_heap' = 0 /\ 0 \in Slots
      BY <1>5, <1>6, Constants DEF Slots
    <2> QED
      BY <1>6, <1>20, <2>1, <2>2, <2>3, <2>4 DEF Stage
  <1>22. Calling'
    <2>1. status = "running" /\ phase = "bump"
      BY <1>4 DEF Bumping
    <2> QED
      BY <1>2, <1>6, <1>20, <2>1 DEF Calling
  <1>23. Scanned(S2)'
    BY <1>5, <1>6 DEF Scanned
  <1> QED
    BY <1>10, <1>14, <1>15, <1>16, <1>21, <1>22, <1>23 DEF IInv

LEMMA NextHeapKeeps ==
    ASSUME IInv, NextHeap
    PROVE  IInv'
  <1>1. PICK S \in SUBSET Words : Good(cells, heaps, S, held, foreign)
    BY DEF IInv
  <1>2. Host /\ HeapsOK(heaps, brk) /\ Stage /\ Calling
    BY DEF IInv
  <1>3. PICK i : i = active_heap
    OBVIOUS
  <1>4. Bumping
    BY DEF NextHeap, BumpMiss
  <1>5. /\ i \in Slots /\ i \in Nat /\ i < heaps_actual_size /\ heaps_actual_size = HeapSlots
        /\ heaps[i].base = NoMem \/ i \in Real(heaps)
        /\ heaps[i].base = NoMem => heaps[i].offset = 0 /\ heaps[i].size > 0
        /\ \A j \in Real(heaps) : j <= i
        /\ \A j \in Slots : j # i => heaps[j].base # NoMem
        /\ active_free_heap = 0 /\ scan = 0
    BY <1>2, <1>3, <1>4, ActiveHeap
  <1>6. CASE Stop("trap") \/ Stop("slot overrun")
    BY <1>6, StopKeeps
  <1>7. CASE ~(Stop("trap") \/ Stop("slot overrun"))
    <2> DEFINE j == i + 1
               hps1 == OffsetAt(heaps, i, heaps[i].size)
    <2>1. /\ new_memory_start # NoMem \/ ~SeesSbrkFailure
          /\ NeedsCleanup(i) => Mapped(Remainder(i))
          /\ j < HeapSlots /\ HostAnswers /\ cells' = Cleaned(i)
          /\ heaps' = [heaps EXCEPT ![i].offset = heaps[i].size,
                                    ![j].base = new_memory_start, ![j].size = heap_adj]
          /\ active_heap' = j
          /\ UNCHANGED <<heaps_actual_size, active_free_heap, foreign, held,
                         phase, call, scan, end_free_heap, status>>
      BY <1>3, <1>7 DEF NextHeap
    <2>2. i \in Real(heaps)
      <3> SUFFICES ASSUME heaps[i].base = NoMem PROVE FALSE
        BY <1>5
      <3>1. NeedsCleanup(i) /\ Remainder(i) = -1
        BY <1>5 DEF NeedsCleanup, Remainder, NoMem
      <3> QED
        BY <2>1, <3>1 DEF Mapped
    <2>3. brk \in Nat \ {0} /\ brk <= Top /\ heap_adj \in Nat \ {0}
      BY <1>2, BrkFacts, HeapAdj
    <2>4. /\ Host' /\ brk' \in Nat /\ brk <= brk'
          /\ SbrkGranted(heap_adj) => brk + heap_adj <= brk'
          /\ ~SbrkGranted(heap_adj) => brk' = brk
      BY <1>2, <2>1, HostStep
    <2>5. PICK t \in Nat, n \in Nat \ {0}, t2 \in Nat : t = brk /\ n = heap_adj /\ t2 = brk'
      BY <2>3, <2>4
    <2>6. PICK b : b = new_memory_start
      OBVIOUS
    <2>7. HeapsOK(heaps, t) /\ t <= Top /\ t <= t2 /\ t > 0
      BY <1>2, <2>3, <2>4, <2>5
    <2>8. HeapsOK(hps1, t) /\ \E S2 : Good(Cleaned(i), hps1, S2, held, foreign)
      BY <1>1, <2>2, <2>7, CleanedUp
    <2>9. PICK S2 : Good(cells', hps1, S2, held, foreign)
      BY <2>1, <2>8
    <2>10. j \in Slots /\ j # i /\ j \in Nat /\ \A k \in Slots : k \in Nat
      BY <1>5, <2>1, Constants DEF Slots
    <2>11. heaps[j].base = Null
      <3>1. ~(j <= active_heap)
        BY <1>3, <1>5, <2>10
      <3>2. ~is_init(j)
        BY <1>2, <2>10, <3>1 DEF Stage
      <3> QED
        BY <3>2 DEF is_init
    <2>12. /\ \A k \in Slots : /\ hps1[k].base = heaps[k].base /\ hps1[k].size = heaps[k].size
                               /\ EndOf(hps1, k) = EndOf(heaps, k)
           /\ \A k \in Slots : k # i => hps1[k] = heaps[k]
           /\ hps1[i].offset = heaps[i].size /\ Real(hps1) = Real(heaps)
      <3>1. heaps[i].size \in Nat /\ heaps[i].size <= heaps[i].size
        BY <2>2, <2>7, RealHeap
      <3> QED
        BY <2>2, <2>7, <3>1, OffsetMoved
    <2>13. heaps' = HeapAt(hps1, j, b, n)
      <3>1. heaps \in [Slots -> [base : Nat \union {NoMem}, size : Nat, offset : Nat]]
        BY <1>2 DEF HeapsOK
      <3> QED
        BY <1>5, <2>1, <2>5, <2>6, <2>10, <3>1 DEF HeapAt, OffsetAt
    <2>14. \A a \in foreign : a < t
      <3>1. PICK u \in Nat : u = InitPages * PageWords
        BY Constants
      <3>2. foreign \subseteq u..(t - 1)
        BY <1>2, <2>5, <3>1 DEF Host
      <3> QED
        BY <3>2
    <2> HIDE DEF hps1
    <2>15. \/ b = NoMem
           \/ /\ b \in Nat \ {0} /\ b + n <= t2
              /\ \A k \in Real(hps1) : EndOf(hps1, k) <= b
              /\ \A a \in foreign : a < b \/ b + n <= a
      <3>1. CASE ~SbrkGranted(heap_adj)
        BY <2>6, <3>1 DEF new_memory_start
      <3>2. CASE SbrkGranted(heap_adj)
        <4>1. b = t /\ t + n <= t2
          BY <2>4, <2>5, <2>6, <3>2 DEF new_memory_start
        <4>2. \A k \in Real(hps1) : EndOf(hps1, k) <= t
          BY <2>7, <2>8, RealHeap
        <4> QED
          BY <2>7, <2>14, <4>1, <4>2
      <3> QED
        BY <3>1, <3>2
    <2>16. hps1[j].base = Null /\ \A k \in Real(hps1) : k < j
      <3>1. ASSUME NEW k \in Real(heaps) PROVE k < j
        <4>1. k \in Nat /\ k <= i
          BY <1>5, <2>10 DEF Real
        <4> QED
          BY <1>5, <4>1
      <3> QED
        BY <2>10, <2>11, <2>12, <3>1
    <2>17. PICK hps2 : hps2 = heaps'
      OBVIOUS
    <2>18. hps2 = HeapAt(hps1, j, b, n)
      BY <2>13, <2>17
    <2>19. PICK mem : mem = cells'
      OBVIOUS
    <2>20. /\ HeapsOK(hps2, t2) /\ Good(mem, hps2, S2, held, foreign)
           /\ hps2[j].base = b /\ hps2[j].offset = 0 /\ hps2[j].size = n
           /\ \A k \in Slots : k # j => hps2[k] = hps1[k]
      <3>1. Good(mem, hps1, S2, held, foreign)
        BY <2>9, <2>19
      <3> HIDE DEF j
      <3> QED
        BY <2>7, <2>8, <2>10, <2>15, <2>16, <2>18, <3>1, HeapNew
    <2>21. HeapsOK(heaps, brk)' /\ Good(cells', heaps', S2, held', foreign')
      BY <2>1, <2>5, <2>17, <2>19, <2>20
    <2>22. S2 \in SUBSET Words
      BY <2>21, TiledWords
    <2>23. b # Null
      BY <2>15 DEF NoMem, Null
    <2>24. \A k \in Slots : k # j => /\ heaps'[k].base = heaps[k].base
                                     /\ heaps'[k].size = heaps[k].size
                                     /\ heaps'[k].offset = hps1[k].offset
      BY <2>12, <2>17, <2>20
    <2>25. Stage'
      <3>1. \A k \in Slots : is_init(k)' <=> k <= j /\ k < HeapSlots
        <4> TAKE k \in Slots
        <4>1. k < HeapSlots /\ k \in Nat
          BY Constants DEF Slots
        <4>2. CASE k = j
          BY <2>10, <2>17, <2>20, <2>23, <4>1, <4>2 DEF is_init
        <4>3. CASE k # j
          <5>1. is_init(k)' <=> is_init(k)
            BY <2>24, <4>3 DEF is_init
          <5>2. is_init(k) <=> k <= i
            BY <1>2, <1>3, <1>5, <4>1 DEF Stage
          <5> QED
            BY <1>5, <4>1, <4>3, <5>1, <5>2
        <4> QED
          BY <4>2, <4>3
      <3>2. ASSUME NEW k \in Slots, k < j PROVE heaps'[k].base > 0 /\ heaps'[k].offset = heaps'[k].size
        <4>1. k # j /\ (k = i \/ k < i)
          <5>1. k \in Nat /\ i \in Nat
            BY <1>5, <2>10
          <5> QED
            BY <3>2, <5>1
        <4>2. CASE k = i
          BY <2>2, <2>12, <2>24, <4>1, <4>2 DEF Real
        <4>3. CASE k < i
          <5>1. k # i
            BY <1>5, <2>10, <4>3
          <5>2. heaps[k].base > 0 /\ heaps[k].offset = heaps[k].size
            BY <1>2, <1>3, <4>3 DEF Stage
          <5> QED
            BY <2>12, <2>24, <4>1, <5>1, <5>2
        <4> QED
          BY <4>1, <4>2, <4>3
      <3>3. ASSUME NEW k \in Slots, heaps'[k].base = NoMem
            PROVE  /\ k = j /\ heaps'[k].offset = 0 /\ heaps'[k].size > 0 /\ ~SeesSbrkFailure
                   /\ status' = "running" => phase' = "bump" /\ ~SbrkGranted(heap_adj)'
        <4>1. k = j
          BY <1>5, <2>2, <2>24, <3>3 DEF Real, NoMem
        <4>2. b = NoMem
          BY <2>17, <2>20, <3>3, <4>1
        <4>3. ~SbrkGranted(heap_adj)
          BY <2>3, <2>6, <4>2 DEF new_memory_start, NoMem
        <4>4. ~SbrkGranted(heap_adj)'
          BY <2>4, <4>3, GrantedAgain
        <4>5. phase' = "bump" /\ ~SeesSbrkFailure
          BY <1>4, <2>1, <2>6, <4>2 DEF Bumping
        <4> QED
          BY <2>17, <2>20, <4>1, <4>4, <4>5
      <3>4. /\ heaps_actual_size' = HeapSlots /\ active_heap' = j /\ active_free_heap' = 0
            /\ 0 \in Slots /\ HeapSlots \in 0..HeapSlots /\ j \in 0..HeapSlots
        BY <1>5, <2>1, <2>10, Constants DEF Slots
      <3> QED
        BY <3>1, <3>2, <3>3, <3>4 DEF Stage
    <2>26. Calling'
      BY <1>2, <1>4, <1>5, <2>1 DEF Calling, Bumping
    <2>27. Scanned(S2)'
      BY <1>4, <2>1 DEF Scanned, Bumping
    <2> QED
      BY <2>4, <2>21, <2>22, <2>25, <2>26, <2>27 DEF IInv
  <1> QED
    BY <1>6, <1>7

-----------------------------------------------------------------------------
(* free and realloc *)

(* A call that only changes memory and what the client holds. *)
LEMMA ClientKeeps ==
    ASSUME IInv, Idle, NEW S, Good(cells', heaps, S, held', foreign),
           UNCHANGED <<heapVars, hostVars, phase, call, scan, end_free_heap, status>>
    PROVE  IInv'
  <1>1. Host /\ HeapsOK(heaps, brk) /\ Stage /\ Calling
    BY DEF IInv
  <1>2. /\ UNCHANGED hostVars /\ foreign' = foreign /\ heaps' = heaps
        /\ heaps_actual_size' = heaps_actual_size /\ active_heap' = active_heap
        /\ active_free_heap' = active_free_heap /\ phase' = phase /\ status' = status
        /\ phase = "idle" /\ status = "running"
    BY DEF heapVars, hostVars, Idle
  <1>3. Host' /\ brk' = brk
    BY <1>1, <1>2, HostKept
  <1>4. HeapsOK(heaps, brk)'
    BY <1>1, <1>2, <1>3
  <1>5. Stage'
    BY <1>1, <1>2 DEF Stage, is_init
  <1>6. Calling'
    BY <1>1, <1>2 DEF Calling
  <1>7. Good(cells', heaps', S, held', foreign') /\ Scanned(S)'
    BY <1>2 DEF Scanned
  <1>8. S \in SUBSET Words
    BY TiledWords
  <1> QED
    BY <1>3, <1>4, <1>5, <1>6, <1>7, <1>8 DEF IInv

(* free and realloc                                                         *)
LEMMA Freed ==
    ASSUME NEW top \in Nat, top <= Top, HeapsOK(heaps, top),
           NEW S, Good(cells, heaps, S, held, foreign), NEW h \in Handles, held[h] # NoRegion,
           NEW mem2, mem2 = FreeIn(Retire(cells, h, 0), held[h].ptr)
    PROVE  Good(mem2, heaps, S, [held EXCEPT ![h] = NoRegion], foreign)
  <1>1. MemOK(cells) /\ Tiled(cells, heaps, S) /\ Owned(cells, held, S)
    BY DEF Good
  <1>2. PICK p : p = held[h].ptr
    OBVIOUS
  <1>3. PICK n : n = held[h].size
    OBVIOUS
  <1>4. /\ p - 1 \in S /\ p \in Nat \ {0} /\ n \in Nat \ {0} /\ n <= cells[p - 1].size
        /\ cells[p - 1].size \in Nat
    BY <1>1, <1>2, <1>3, RegionIn
  <1>5. p - 1 \in Words /\ cells[p - 1] \in Headers
    BY <1>1, <1>4, BlockIn
  <1>6. PICK mem1 : mem1 = Retire(cells, h, 0)
    OBVIOUS
  <1>7. mem1 = Fill(cells, Stale, p, p + n - 1)
    <2>1. p + 0 = p
      BY <1>4
    <2> QED
      BY <1>2, <1>3, <1>6, <2>1 DEF Retire
  <1>8. PICK to \in Int : to = p + n - 1
    BY <1>4
  <1>9. to < p + cells[p - 1].size /\ Stale \in Marks /\ p <= p
    BY <1>4, <1>8 DEF Marks
  <1>10. OnlyBlock(cells, mem1, p - 1) /\ MemOK(mem1) /\ mem1[p - 1] = cells[p - 1]
    BY <1>1, <1>4, <1>7, <1>8, <1>9, FillInBlock
  <1>11. OnlyBlock(cells, mem2, p - 1) /\ MemOK(mem2)
    <2>1. CASE mem2 = mem1
      BY <1>10, <2>1
    <2>2. CASE mem2 = [mem1 EXCEPT ![p - 1].alloc = FALSE]
      <3>1. mem1 = [a \in Words |-> mem1[a]] /\ mem1[p - 1] \in Headers
        BY <1>5, <1>10 DEF MemOK
      <3>2. /\ mem2 = [a \in Words |-> mem2[a]] /\ mem2[p - 1] \in Headers
            /\ mem2[p - 1].size = cells[p - 1].size
            /\ \A b \in Words : b # p - 1 => mem2[b] = mem1[b]
        <4>1. mem2[p - 1] = [mem1[p - 1] EXCEPT !.alloc = FALSE]
          BY <1>5, <2>2, <3>1
        <4>2. /\ mem2 = [a \in Words |-> mem2[a]]
              /\ \A b \in Words : b # p - 1 => mem2[b] = mem1[b]
          BY <2>2, <3>1
        <4> QED
          BY <1>10, <3>1, <4>1, <4>2 DEF Headers
      <3>3. MemOK(mem2)
        BY <1>10, <3>2 DEF MemOK
      <3>4. ASSUME NEW b \in Words, b < p - 1 \/ (p - 1) + cells[p - 1].size < b
            PROVE  mem2[b] = cells[b]
        <4>1. b \in Nat /\ b # p - 1
          BY <1>4, <3>4, TopFacts
        <4> QED
          BY <1>10, <3>2, <3>4, <4>1 DEF OnlyBlock
      <3> QED
        BY <3>2, <3>3, <3>4 DEF OnlyBlock
    <2> QED
      BY <1>2, <1>6, <2>1, <2>2 DEF FreeIn, MarkFree
  <1>12. /\ held[h].ptr = (p - 1) + 1
         /\ \A g \in Handles : held[g] # NoRegion /\ held[g].ptr = (p - 1) + 1 => g = h
    <2>1. (p - 1) + 1 = p
      BY <1>4
    <2> QED
      BY <1>1, <1>2, <2>1 DEF Owned
  <1>13. PICK r : r = NoRegion
    OBVIOUS
  <1>14. Good(mem2, heaps, S, [held EXCEPT ![h] = r], foreign)
    BY <1>4, <1>11, <1>12, <1>13, OneBlock
  <1> QED
    BY <1>13, <1>14

LEMMA FreeKeeps ==
    ASSUME IInv, NEW h \in Handles, free(h)
    PROVE  IInv'
  <1>1. PICK S \in SUBSET Words : Good(cells, heaps, S, held, foreign)
    BY DEF IInv
  <1>2. PICK t \in Nat : t <= Top /\ HeapsOK(heaps, t)
    BY BrkFacts DEF IInv
  <1>3. PICK mem2 : mem2 = cells'
    OBVIOUS
  <1>4. Good(mem2, heaps, S, [held EXCEPT ![h] = NoRegion], foreign)
    BY <1>1, <1>2, <1>3, Freed DEF free
  <1>5. Good(cells', heaps, S, held', foreign)
    BY <1>3, <1>4 DEF free
  <1> QED
    BY <1>5, ClientKeeps DEF free

(* sbrk called from outside *)
LEMMA ForeignSbrkKeeps ==
    ASSUME IInv, NEW n \in ForeignRequests, ForeignSbrk(n)
    PROVE  IInv'
  <1>1. PICK S \in SUBSET Words : Good(cells, heaps, S, held, foreign)
    BY DEF IInv
  <1>2. Host /\ HeapsOK(heaps, brk) /\ Stage /\ Calling
    BY DEF IInv
  <1>3. /\ status = "running" /\ phase = "idle" /\ SbrkGranted(n) /\ Sbrk(n)
        /\ heaps' = heaps /\ held' = held /\ phase' = phase /\ status' = status /\ call' = call
        /\ heaps_actual_size' = heaps_actual_size /\ active_heap' = active_heap
        /\ active_free_heap' = active_free_heap
        /\ foreign' = foreign \union (brk..(brk + n - 1))
        /\ cells' = Fill(cells, Foreign, brk, brk + n - 1)
    BY DEF ForeignSbrk, Idle, heapVars
  <1>4. n \in Nat \ {0} /\ brk \in Nat \ {0} /\ brk <= Top
    BY <1>2, Constants, BrkFacts
  <1>5. /\ pages' \in InitPages..MaxPages /\ sbrk_words' \in Nat
        /\ brk' \in (InitPages * PageWords)..(pages' * PageWords)
        /\ brk + n <= brk' /\ pages' * PageWords <= MaxPages * PageWords
    BY <1>2, <1>3, <1>4, SbrkStep
  <1>6. PICK u \in Nat, v \in Int : u = InitPages * PageWords /\ v = pages' * PageWords
    <2>1. pages' \in Int /\ PageWords \in Int /\ InitPages * PageWords \in Nat
      BY <1>5, Constants
    <2>2. pages' * PageWords \in Int
      BY <2>1
    <2> QED
      BY <2>1, <2>2
  <1>7. PICK t \in Nat, t2 \in Nat : t = brk /\ t2 = brk' /\ u <= t2 /\ t2 <= v /\ t > 0
    <2>1. brk' \in u..v
      BY <1>5, <1>6
    <2> QED
      BY <1>4, <1>6, <2>1
  <1>8. t + n <= t2 /\ v <= Top /\ t <= Top /\ t2 <= Top /\ u <= t
    BY <1>2, <1>4, <1>5, <1>6, <1>7, TopFacts, BrkFacts DEF Top
  <1>9. Host'
    <2>1. foreign \subseteq u..(t - 1)
      BY <1>2, <1>6, <1>7 DEF Host
    <2>2. foreign \union (t..(t + n - 1)) \subseteq u..(t2 - 1)
      BY <1>4, <1>8, <2>1
    <2>3. foreign' \subseteq (InitPages * PageWords)..(brk' - 1)
      BY <1>3, <1>6, <1>7, <2>2
    <2> QED
      BY <1>5, <2>3 DEF Host
  <1>10. HeapsOK(heaps, t2)
    <2>1. HeapsOK(heaps, t)
      BY <1>2, <1>7
    <2>2. \A i \in Real(heaps) : EndOf(heaps, i) \in Nat /\ EndOf(heaps, i) <= t
      BY <1>8, <2>1, RealHeap
    <2>3. \A i \in Real(heaps) : EndOf(heaps, i) <= t2
      BY <1>4, <1>8, <2>2
    <2> QED
      BY <2>1, <2>3 DEF HeapsOK
  <1>11. PICK mem2 : mem2 = cells'
    OBVIOUS
  <1>12. Good(mem2, heaps, S, held, foreign \union (t..(t + n - 1)))
    <2>1. HeapsOK(heaps, t) /\ t + n <= Top /\ mem2 = Fill(cells, Foreign, t, t + n - 1)
      BY <1>2, <1>3, <1>4, <1>7, <1>8, <1>11, TopFacts
    <2> QED
      BY <1>1, <1>4, <1>8, <2>1, ForeignTaken
  <1>13. Good(cells', heaps', S, held', foreign') /\ HeapsOK(heaps, brk)'
    BY <1>3, <1>7, <1>10, <1>11, <1>12
  <1>14. Stage'
    <2>1. \A i \in Slots : heaps[i].base # NoMem
      BY <1>2, <1>3, NoLostHeap
    <2> QED
      BY <1>2, <1>3, <2>1 DEF Stage, is_init
  <1>15. Calling' /\ Scanned(S)'
    BY <1>2, <1>3 DEF Calling, Scanned
  <1> QED
    BY <1>1, <1>9, <1>13, <1>14, <1>15 DEF IInv

(* The loops of free and realloc find the heap of a region. *)
LEMMA FoundHeap ==
    ASSUME IInv, Idle, NEW S, Good(cells, heaps, S, held, foreign),
           NEW h \in Handles, held[h] # NoRegion, NEW p, p = held[h].ptr
    PROVE  /\ HeapOf(p) # {}
           /\ \A i \in HeapOf(p) : i \in Real(heaps) /\ p + cells[p - 1].size <= HeapEnd(i)
  <1>1. Host /\ HeapsOK(heaps, brk) /\ Stage
    BY DEF IInv
  <1>2. status = "running" /\ phase # "bump" /\ Tiled(cells, heaps, S) /\ Owned(cells, held, S)
    BY DEF Good, Idle
  <1>3. PICK t \in Nat : t = brk /\ t <= Top /\ HeapsOK(heaps, t)
    BY <1>1, BrkFacts
  <1>4. PICK f : f = cells[p - 1].size
    OBVIOUS
  <1>5. p - 1 \in S /\ p \in Nat \ {0} /\ f \in Nat \ {0}
    <2>1. /\ p - 1 \in S /\ p \in Nat \ {0} /\ f \in Nat
          /\ held[h].size \in Nat \ {0} /\ held[h].size <= f
      BY <1>2, <1>3, <1>4, RegionIn
    <2> QED
      BY <2>1
  <1>6. PICK k \in Real(heaps) : /\ heaps[k].base <= p - 1
                                 /\ (p - 1) + f + 1 <= EndOf(heaps, k)
    BY <1>2, <1>3, <1>4, <1>5, BlockIn
  <1>7. /\ heaps[k].base \in Nat \ {0} /\ EndOf(heaps, k) \in Nat /\ k \in Slots
        /\ \A j \in Real(heaps) : /\ heaps[j].base \in Nat \ {0} /\ EndOf(heaps, j) \in Nat
                                  /\ EndOf(heaps, j) = HeapEnd(j)
    BY <1>3, RealHeap DEF EndOf, HeapEnd
  <1>8. \A j \in Slots : j \in Nat /\ (j \in Real(heaps) <=> is_init(j))
    BY <1>1, <1>2, NoLostHeap, Constants DEF Slots
  <1>9. /\ heaps_actual_size \in Nat /\ heaps_actual_size <= HeapSlots
        /\ active_heap \in Nat /\ k \in Nat /\ k <= active_heap /\ k < heaps_actual_size
        /\ HeapSlots \in Nat
    <2>1. k <= active_heap /\ k < heaps_actual_size
      BY <1>1, <1>7, <1>8 DEF Stage
    <2>2. heaps_actual_size \in 0..HeapSlots /\ active_heap \in 0..heaps_actual_size
      BY <1>1 DEF Stage
    <2> QED
      BY <1>7, <1>8, <2>1, <2>2, Constants
  <1>10. 0..(heaps_actual_size - 1) \subseteq Slots /\ k \in 0..(heaps_actual_size - 1)
    BY <1>9 DEF Slots
  <1>11. is_in_heap(k, p)
    BY <1>5, <1>6, <1>7 DEF is_in_heap
  <1>12. ASSUME NEW j \in 0..k PROVE is_init(j)
    <2>1. j \in Slots /\ j <= active_heap /\ j < heaps_actual_size
      BY <1>9, <1>10, <1>12
    <2> QED
      BY <1>1, <2>1 DEF Stage
  <1>13. ASSUME NEW j \in 0..(k - 1) PROVE ~is_in_heap(j, p)
    <2>1. j \in Slots /\ j < k /\ j \in 0..k
      BY <1>9, <1>10, <1>13
    <2>2. j \in Real(heaps)
      BY <1>8, <1>12, <2>1
    <2>3. EndOf(heaps, j) <= heaps[k].base
      BY <1>3, <2>1, <2>2 DEF HeapsOK
    <2> QED
      BY <1>5, <1>6, <1>7, <2>2, <2>3 DEF is_in_heap
  <1>14. k \in HeapOf(p)
    BY <1>10, <1>11, <1>12, <1>13 DEF HeapOf
  <1>15. ASSUME NEW i \in HeapOf(p) PROVE i = k
    <2>1. i \in 0..(heaps_actual_size - 1) /\ is_in_heap(i, p) /\ \A j \in 0..i : is_init(j)
      BY <1>15 DEF HeapOf
    <2>2. i \in Slots /\ is_init(i)
      <3>1. i \in 0..i
        BY <1>9, <2>1
      <3> QED
        BY <1>10, <2>1, <3>1
    <2>3. i \in Real(heaps)
      BY <1>8, <2>2
    <2>4. heaps[i].base <= p /\ p < EndOf(heaps, i)
      BY <1>5, <1>7, <2>1, <2>3 DEF is_in_heap
    <2>5. heaps[k].base <= p /\ p < EndOf(heaps, k) /\ p <= p
      BY <1>5, <1>6, <1>7
    <2>6. i = k \/ EndOf(heaps, i) <= heaps[k].base
      BY <1>3, <1>5, <2>3, <2>4, <2>5, HeapOrder
    <2> QED
      BY <1>5, <1>6, <1>7, <2>3, <2>4, <2>6
  <1>16. p + f <= HeapEnd(k)
    BY <1>5, <1>6, <1>7
  <1> QED
    BY <1>4, <1>14, <1>15, <1>16

(* A region becomes smaller in place, in memory where only the first word    *)
(* beyond its new buffer may have changed.                                   *)
LEMMA Shrunk ==
    ASSUME NEW top \in Nat, top <= Top, HeapsOK(heaps, top),
           NEW S, Good(cells, heaps, S, held, foreign), NEW h \in Handles, held[h] # NoRegion,
           NEW req \in Requests \ {0}, req <= held[h].size,
           NEW p, p = held[h].ptr, NEW s, s = adjust_to_mem_block(req),
           NEW mem1, MemOK(mem1), \A a \in Words : a # p + s => mem1[a] = cells[a],
           s < cells[p - 1].size \/ mem1 = cells,
           NEW mem2, mem2 = Fill(Retire(mem1, h, req), h, p + held[h].size, p + req - 1)
    PROVE  Good(mem2, heaps, S, [held EXCEPT ![h].size = req], foreign)
  <1>1. MemOK(cells) /\ Tiled(cells, heaps, S) /\ Owned(cells, held, S)
    BY DEF Good
  <1>2. PICK n : n = held[h].size
    OBVIOUS
  <1>3. PICK f : f = cells[p - 1].size
    OBVIOUS
  <1>4. /\ p - 1 \in S /\ p \in Nat \ {0} /\ n \in Nat \ {0} /\ n <= f /\ f \in Nat
        /\ adjust_to_mem_block(n) <= f /\ p + f <= Top /\ n \in Requests
        /\ held[h] = [ptr |-> p, size |-> n]
    BY <1>1, <1>2, <1>3, RegionIn
  <1>5. req \in Nat \ {0} /\ req <= n /\ s \in Nat /\ req <= s /\ s <= f
    <2>1. req \in Nat \ {0} /\ s \in Nat /\ req <= s /\ adjust_to_mem_block(n) \in Nat
      BY <1>4, Adjusted, Constants
    <2>2. s <= adjust_to_mem_block(n)
      BY <1>2, <1>4, AdjustedMonotone
    <2> QED
      BY <1>2, <1>4, <2>1, <2>2
  <1>6. p - 1 \in Words /\ cells[p - 1] \in Headers
    BY <1>1, <1>4, BlockIn
  <1>7. PICK mem3 : mem3 = Retire(mem1, h, req)
    OBVIOUS
  <1>8. mem3 = [a \in Words |-> IF a \in (p + req)..(p + n - 1) THEN Stale ELSE mem1[a]]
    BY <1>2, <1>7 DEF Retire, Fill
  <1>9. mem2 = [a \in Words |-> IF a \in (p + n)..(p + req - 1) THEN h ELSE mem3[a]]
    BY <1>2, <1>7 DEF Fill
  <1>10. \A a \in Words : mem2[a] = IF a \in (p + req)..(p + n - 1) THEN Stale ELSE mem1[a]
    <2> TAKE a \in Words
    <2>1. a \notin (p + n)..(p + req - 1)
      BY <1>4, <1>5
    <2> QED
      BY <1>8, <1>9, <2>1
  <1>11. MemOK(mem2)
    <2>1. mem2 = [a \in Words |-> mem2[a]]
      BY <1>9
    <2>2. \A a \in Words : mem1[a] \in Marks \/ mem1[a] \in Headers
      BY DEF MemOK
    <2>3. \A a \in Words : mem2[a] = Stale \/ mem2[a] = mem1[a]
      BY <1>10
    <2>4. \A a \in Words : mem2[a] \in Marks \/ mem2[a] \in Headers
      BY <2>2, <2>3 DEF Marks
    <2> QED
      BY <2>1, <2>4 DEF MemOK
  <1>12. \A a \in Words : a < p + s => mem1[a] = cells[a]
    <2> TAKE a \in Words
    <2> HAVE a < p + s
    <2>1. a \in Nat
      BY TopFacts
    <2>2. p + s \in Nat
      BY <1>4, <1>5
    <2>3. a # p + s
      BY <2>1, <2>2
    <2> QED
      BY <2>3
  <1>13. mem2[p - 1] = cells[p - 1]
    <2>1. p - 1 \notin (p + req)..(p + n - 1) /\ p - 1 < p + s
      BY <1>4, <1>5
    <2> QED
      BY <1>6, <1>10, <1>12, <2>1
  <1>14. ASSUME NEW b \in Words, b < p - 1 \/ (p - 1) + f < b
         PROVE  mem2[b] = cells[b]
    <2>1. b \in Nat
      BY TopFacts
    <2>2. b \notin (p + req)..(p + n - 1)
      BY <1>4, <1>5, <1>14, <2>1
    <2>3. mem1[b] = cells[b]
      <3>1. CASE mem1 = cells
        BY <3>1
      <3>2. CASE s < f
        <4>1. b # p + s
          BY <1>4, <1>5, <1>14, <2>1, <3>2
        <4> QED
          BY <4>1
      <3> QED
        BY <1>3, <3>1, <3>2
    <2> QED
      BY <1>10, <2>2, <2>3
  <1>15. OnlyBlock(cells, mem2, p - 1)
    BY <1>3, <1>6, <1>13, <1>14 DEF OnlyBlock
  <1>16. PICK r : r = [ptr |-> p, size |-> req]
    OBVIOUS
  <1>17. \A a \in p..(p + req - 1) : mem2[a] = h
    <2> TAKE a \in p..(p + req - 1)
    <2>1. a \in Nat /\ p <= a /\ a < p + req
      BY <1>4, <1>5
    <2>a. a < p + s /\ a \notin (p + req)..(p + n - 1) /\ a \in p..(p + n - 1)
      BY <1>4, <1>5, <2>1
    <2>b. a < p + f
      BY <1>4, <1>5, <2>1
    <2>e. p + f \in Nat /\ p + f <= Top /\ Top \in Nat
      BY <1>4, TopFacts
    <2>c. a <= Top - 1
      BY <2>1, <2>b, <2>e
    <2>d. a \in 0..(Top - 1)
      BY <2>1, <2>c, TopFacts
    <2>2. a \in Words
      BY <2>d, TopFacts
    <2>3. cells[a] = h
      BY <1>1, <1>2, <2>a DEF Owned, Owns
    <2> QED
      BY <1>10, <1>12, <2>a, <2>2, <2>3
  <1>18. /\ r \in [ptr : Nat, size : Nat] /\ r.ptr = (p - 1) + 1 /\ r.size = req /\ r.ptr = p
         /\ r.size \in Requests \ {0} /\ mem2[p - 1].alloc
         /\ adjust_to_mem_block(r.size) <= cells[p - 1].size
         /\ held[h].ptr = (p - 1) + 1
    <2>1. cells[p - 1].alloc
      BY <1>1 DEF Owned, Owns
    <2> QED
      BY <1>3, <1>4, <1>5, <1>13, <1>16, <2>1
  <1>19. \A g \in Handles : held[g] # NoRegion /\ held[g].ptr = (p - 1) + 1 => g = h
    <2>1. (p - 1) + 1 = p
      BY <1>4
    <2> QED
      BY <1>1, <2>1 DEF Owned
  <1>20. \A a \in r.ptr..(r.ptr + r.size - 1) : mem2[a] = h
    BY <1>17, <1>18
  <1>21. Good(mem2, heaps, S, [held EXCEPT ![h] = r], foreign)
    BY <1>4, <1>11, <1>15, <1>18, <1>19, <1>20, OneBlock
  <1>22. [held EXCEPT ![h].size = req] = [held EXCEPT ![h] = r]
    <2>1. held \in [Handles -> [ptr : Nat, size : Nat]]
      BY <1>1 DEF Owned
    <2>2. [held[h] EXCEPT !.size = req] = r
      BY <1>4, <1>16
    <2> QED
      BY <2>1, <2>2
  <1> QED
    BY <1>21, <1>22

LEMMA ReallocKeeps ==
    ASSUME NoGrow, IInv, NEW h \in Handles, NEW req \in Requests, realloc(h, req)
    PROVE  IInv'
  <1>1. PICK S \in SUBSET Words : Good(cells, heaps, S, held, foreign)
    BY DEF IInv
  <1>2. PICK t \in Nat : t <= Top /\ HeapsOK(heaps, t)
    BY BrkFacts DEF IInv
  <1>3. Idle /\ MemOK(cells) /\ Tiled(cells, heaps, S) /\ Owned(cells, held, S)
    BY <1>1 DEF realloc, Good
  <1>4. held[h] \in [ptr : Nat, size : Nat] /\ held \in [Handles -> [ptr : Nat, size : Nat]]
    BY <1>3 DEF Owned
  <1>5. CASE req = 0
    <2>1. /\ cells' = IF held[h] = NoRegion THEN cells ELSE FreeIn(Retire(cells, h, 0), held[h].ptr)
          /\ held' = [held EXCEPT ![h] = NoRegion]
          /\ UNCHANGED <<heapVars, hostVars, phase, call, scan, end_free_heap, status>>
      BY <1>5 DEF realloc
    <2>2. PICK mem2 : mem2 = cells'
      OBVIOUS
    <2>3. Good(mem2, heaps, S, [held EXCEPT ![h] = NoRegion], foreign)
      <3>1. CASE held[h] = NoRegion
        <4>1. [held EXCEPT ![h] = NoRegion] = held
          BY <1>4, <3>1
        <4> QED
          BY <1>1, <2>1, <2>2, <3>1, <4>1
      <3>2. CASE held[h] # NoRegion
        BY <1>1, <1>2, <2>1, <2>2, <3>2, Freed
      <3> QED
        BY <3>1, <3>2
    <2>4. Good(cells', heaps, S, held', foreign)
      BY <2>1, <2>2, <2>3
    <2> QED
      BY <1>3, <2>1, <2>4, ClientKeeps
  <1>6. CASE req # 0
    <2>1. req <= held[h].size /\ req \in Nat \ {0}
      <3>1. req \in Nat \ {0} /\ held[h].size \in Nat
        BY <1>4, <1>6, Constants
      <3>2. ~(req > held[h].size)
        <4> SUFFICES ASSUME req > held[h].size PROVE FALSE
          OBVIOUS
        <4>1. ResizeOp(h, req) = "grow"
          BY <1>6, <3>1 DEF ResizeOp
        <4> QED
          BY <4>1 DEF realloc, NoGrow
      <3> QED
        BY <3>1, <3>2
    <2>2. held[h] # NoRegion
      BY <1>4, <2>1 DEF NoRegion
    <2>3. PICK p, s, f : p = held[h].ptr /\ s = adjust_to_mem_block(req) /\ f = cells[p - 1].size
      OBVIOUS
    <2>4. HeapOf(p) # {} /\ \A i \in HeapOf(p) : i \in Real(heaps) /\ p + f <= HeapEnd(i)
      BY <1>1, <1>3, <2>2, <2>3, FoundHeap
    <2>5. PICK i \in HeapOf(p) : ReallocInHeap(h, req, i)
      BY <1>6, <2>3, <2>4 DEF realloc
    <2>6. i \in Real(heaps) /\ p + f <= HeapEnd(i) /\ HeapEnd(i) \in Nat
      BY <1>2, <2>4, <2>5, RealHeap DEF EndOf, HeapEnd
    <2>7. /\ p - 1 \in S /\ p \in Nat \ {0} /\ f \in Nat /\ s \in Nat /\ s <= f
          /\ p + f <= Top /\ p - 1 \in Words /\ cells[p - 1] \in Headers
      <3>1. /\ p - 1 \in S /\ p \in Nat \ {0} /\ f \in Nat /\ held[h].size \in Requests
            /\ adjust_to_mem_block(held[h].size) <= f /\ p + f <= Top
        BY <1>2, <1>3, <2>2, <2>3, RegionIn
      <3>2. s \in Nat /\ adjust_to_mem_block(held[h].size) \in Nat
        BY <2>3, <3>1, Adjusted
      <3>3. s <= adjust_to_mem_block(held[h].size)
        BY <2>1, <2>3, <3>1, AdjustedMonotone
      <3>4. p - 1 \in Words /\ cells[p - 1] \in Headers
        BY <1>2, <1>3, <3>1, BlockIn
      <3> QED
        BY <3>1, <3>2, <3>3, <3>4
    <2>8. ~(p + f > HeapEnd(i)) /\ p + s <= HeapEnd(i)
      BY <2>6, <2>7
    <2>9. \/ s < f /\ InPlace(h, req, [cells EXCEPT ![p + s] = Header(f - s, FALSE)],
                              i, heaps[i].offset)
          \/ s = f /\ InPlace(h, req, [cells EXCEPT ![p - 1].size = s],
                              i, heaps[i].offset + s - f)
          \/ s = f /\ InPlace(h, req, cells, i, heaps[i].offset)
      <3>1. p + f <= HeapEnd(i) /\ s <= f
        BY <2>6, <2>7
      <3>2. ~(f < s) /\ (f > s => s < f) /\ (f <= s => s = f)
        BY <2>7
      <3> QED
        BY <2>3, <2>5, <2>8, <3>1, <3>2 DEF ReallocInHeap
    <2>10. cells = [a \in Words |-> cells[a]] /\ heaps[i].offset \in Nat
           /\ \A a \in Words : cells[a] \in Marks \/ cells[a] \in Headers
      BY <1>2, <1>3, <2>6, RealHeap DEF MemOK
    <2>11. PICK mem1 : /\ InPlace(h, req, mem1, i, heaps[i].offset) /\ MemOK(mem1)
                       /\ \A a \in Words : a # p + s => mem1[a] = cells[a]
                       /\ s < f \/ mem1 = cells
      <3>1. CASE s < f
        <4>1. PICK mem1 : mem1 = [cells EXCEPT ![p + s] = Header(f - s, FALSE)]
          OBVIOUS
        <4>2. p + s \in Words /\ Header(f - s, FALSE) \in Headers
          BY <2>7, <3>1, TopFacts DEF Header, Headers
        <4>3. /\ mem1 = [a \in Words |-> mem1[a]] /\ mem1[p + s] \in Headers
              /\ \A a \in Words : a # p + s => mem1[a] = cells[a]
          BY <2>10, <4>1, <4>2
        <4>4. MemOK(mem1)
          BY <2>10, <4>3 DEF MemOK
        <4>5. s # f
          BY <2>7, <3>1
        <4>6. InPlace(h, req, mem1, i, heaps[i].offset)
          BY <2>9, <4>1, <4>5
        <4> QED
          BY <3>1, <4>3, <4>4, <4>6
      <3>2. CASE s = f
        <4>1. [cells EXCEPT ![p - 1].size = s] = cells
          <5>1. [cells[p - 1] EXCEPT !.size = s] = cells[p - 1]
            BY <2>3, <2>7, <3>2 DEF Headers
          <5> QED
            BY <2>10, <5>1
        <4>2. heaps[i].offset + s - f = heaps[i].offset
          BY <2>7, <2>10, <3>2
        <4> QED
          BY <1>3, <2>7, <2>9, <3>2, <4>1, <4>2
      <3> QED
        BY <2>7, <3>1, <3>2
    <2>12. /\ cells' = Fill(Retire(mem1, h, req), h, p + held[h].size, p + req - 1)
           /\ heaps' = [heaps EXCEPT ![i].offset = heaps[i].offset]
           /\ held' = [held EXCEPT ![h].size = req]
           /\ UNCHANGED <<heaps_actual_size, active_heap, active_free_heap, hostVars,
                          phase, call, scan, end_free_heap, status>>
      BY <2>3, <2>11 DEF InPlace
    <2>13. heaps' = heaps
      <3>1. heaps \in [Slots -> [base : Nat \union {NoMem}, size : Nat, offset : Nat]] /\ i \in Slots
        BY <1>2, <2>6 DEF HeapsOK, Real
      <3> QED
        BY <2>12, <3>1
    <2>14. PICK mem2 : mem2 = cells'
      OBVIOUS
    <2>15. Good(mem2, heaps, S, [held EXCEPT ![h].size = req], foreign)
      BY <1>1, <1>2, <1>6, <2>1, <2>2, <2>3, <2>11, <2>12, <2>14, Shrunk
    <2>16. Good(cells', heaps, S, held', foreign)
      BY <2>12, <2>14, <2>15
    <2> QED
      BY <1>3, <2>12, <2>13, <2>16, ClientKeeps DEF heapVars
  <1> QED
    BY <1>5, <1>6

-----------------------------------------------------------------------------
(* malloc_from_freed *)

(* A heap that is searched was handed out to its end, and the buffer looked  *)
(* at is one of its buffers.                                                 *)
LEMMA FreedHeap ==
    ASSUME IInv, Scanning, NEW S, Good(cells, heaps, S, held, foreign), Scanned(S),
           NEW g, g = active_free_heap
    PROVE  /\ g \in Real(heaps) /\ heaps[g].offset = heaps[g].size /\ HeapComplete
           /\ g \in Nat /\ g < heaps_actual_size
           /\ current \in Nat \ {0} /\ current - 1 \in S
           /\ heaps[g].base <= current - 1 /\ current <= EndOf(heaps, g)
           /\ heaps[g].base \in Nat
  <1>1. Host /\ HeapsOK(heaps, brk) /\ Stage /\ Calling /\ status = "running" /\ phase = "freed"
    BY DEF IInv, Scanning
  <1>2. PICK t \in Nat : t <= Top /\ HeapsOK(heaps, t)
    BY <1>1, BrkFacts
  <1>3. /\ active_heap = heaps_actual_size /\ heaps_actual_size > 0 /\ heaps_actual_size \in 0..HeapSlots
        /\ g \in Slots /\ (g # 0 => g < heaps_actual_size)
    BY <1>1 DEF Stage, Calling
  <1>4. g \in Nat /\ g < heaps_actual_size
    BY <1>3, Constants DEF Slots
  <1>5. heaps[g].base > 0 /\ heaps[g].offset = heaps[g].size
    BY <1>1, <1>3, <1>4 DEF Stage
  <1>6. g \in Real(heaps)
    BY <1>3, <1>5 DEF Real
  <1>7. HeapComplete
    BY <1>5 DEF HeapComplete
  <1>8. heaps[g].base \in Nat \ {0} /\ heaps[g].size \in Nat \ {0} /\ EndOf(heaps, g) = heaps[g].base + heaps[g].size
    BY <1>2, <1>6, RealHeap DEF EndOf
  <1>9. CASE scan = 0
    <2>1. current = heaps[g].base + 1
      BY <1>9 DEF current
    <2>2. heaps[g].base \in S
      BY <1>5, <1>6, <1>8 DEF Good, Tiled
    <2>3. current \in Nat \ {0} /\ current - 1 = heaps[g].base
      BY <1>8, <2>1
    <2> QED
      BY <1>4, <1>5, <1>6, <1>7, <1>8, <2>1, <2>2, <2>3
  <1>10. CASE scan # 0
    <2>1. /\ current = scan /\ scan \in Nat /\ scan - 1 \in S
          /\ heaps[g].base < scan /\ scan <= EndOf(heaps, g)
      BY <1>1, <1>10 DEF Scanned, current
    <2> QED
      BY <1>4, <1>5, <1>6, <1>7, <1>8, <1>10, <2>1
  <1> QED
    BY <1>9, <1>10

(* Merging keeps memory in order, and what is returned belongs to nobody.   *)
LEMMA MergedFacts ==
    ASSUME IInv, Scanning, NEW S, Good(cells, heaps, S, held, foreign), Scanned(S),
           NEW g, g = active_free_heap, NEW p, p = current, NEW mem, mem = Merged
    PROVE  \E S2 :
               /\ Good(mem, heaps, S2, held, foreign) /\ p - 1 \in S2
               /\ mem[p - 1] \in Headers /\ mem[p - 1].size \in Nat
               /\ p + mem[p - 1].size < EndOf(heaps, g) => p + mem[p - 1].size \in S2
               /\ Reached >= call.size =>
                     /\ mem[p - 1].size = call.size
                     /\ \A k \in Handles : held[k] # NoRegion => held[k].ptr # p
  <1>1. /\ g \in Real(heaps) /\ heaps[g].offset = heaps[g].size
        /\ p \in Nat \ {0} /\ p - 1 \in S
        /\ heaps[g].base <= p - 1 /\ p <= EndOf(heaps, g)
    BY FreedHeap
  <1>2. PICK t \in Nat : t <= Top /\ HeapsOK(heaps, t)
    BY BrkFacts DEF IInv
  <1>3. Tiled(cells, heaps, S) /\ Owned(cells, held, S)
    BY DEF Good
  <1>4. PICK c \in Nat : c = call.size /\ c > 0
    <2>1. call.req \in Requests \ {0} /\ call.size = adjust_to_mem_block(call.req)
      BY DEF IInv, Calling, Scanning
    <2>2. call.req \in Nat \ {0} /\ call.size \in Nat /\ call.req <= call.size
      BY <2>1, Adjusted, Constants
    <2> QED
      BY <2>2
  <1>5. cells[p - 1] \in Headers /\ cells[p - 1].size \in Nat /\ p - 1 \in Nat
    BY <1>1, <1>2, <1>3, BlockIn
  <1>6. CASE cells[p - 1].alloc
    <2>1. mem = cells /\ Reached = 0
      BY <1>6 DEF Merged, Reached
    <2>2. Limit(heaps, g) = EndOf(heaps, g) /\ EndOf(heaps, g) \in Nat
      BY <1>1, <1>2, RealHeap DEF Limit, EndOf
    <2>3. p - 1 < EndOf(heaps, g)
      BY <1>1, <2>2
    <2>4. (p - 1) + cells[p - 1].size + 1 < EndOf(heaps, g) => (p - 1) + cells[p - 1].size + 1 \in S
      BY <1>1, <1>3, <2>2, <2>3 DEF Tiled
    <2>5. (p - 1) + cells[p - 1].size + 1 = p + cells[p - 1].size
      BY <1>1, <1>5
    <2>6. ~(Reached >= call.size)
      BY <1>4, <2>1
    <2> QED
      BY <1>1, <1>5, <2>1, <2>4, <2>5, <2>6
  <1>7. CASE ~cells[p - 1].alloc
    <2>1. PICK w : w = Reached
      OBVIOUS
    <2>2. HeapEnd(g) = EndOf(heaps, g)
      BY DEF HeapEnd, EndOf
    <2>3. w = possible_size(cells, p, cells[p - 1].size, c, EndOf(heaps, g))
      BY <1>4, <1>7, <2>1, <2>2 DEF Reached
    <2>4. mem = Combined(cells, p, w, c)
      BY <1>4, <1>7, <2>1 DEF Merged
    <2>5. Walked(cells, heaps, S, g, p, w)
      BY <1>1, <1>2, <1>3, <2>3, PossibleSize
    <2>6. PICK m : m = Smaller(w, c)
      OBVIOUS
    <2>7. PICK S2 : S2 = Joined(S, p, w, m)
      OBVIOUS
    <2>8. /\ Good(mem, heaps, S2, held, foreign) /\ p - 1 \in S2
          /\ mem[p - 1].size = m /\ m \in Nat
          /\ p + m < EndOf(heaps, g) => p + m \in S2
          /\ \A k \in Handles : held[k] # NoRegion => held[k].ptr # p
      BY <1>1, <1>2, <1>7, <2>4, <2>5, <2>6, <2>7, Joining
    <2>9. mem[p - 1] \in Headers
      BY <2>8 DEF Good, Tiled
    <2>10. w \in Nat
      BY <2>5 DEF Walked
    <2>11. w >= c => m = c
      BY <2>6, <2>10 DEF Smaller
    <2> QED
      BY <1>4, <2>1, <2>8, <2>9, <2>11
  <1> QED
    BY <1>6, <1>7

(* The buffer found is marked as allocated before it is returned. *)
LEMMA MarkedAllocated ==
    ASSUME NEW top \in Nat, top <= Top, HeapsOK(heaps, top),
           NEW mem, NEW S, Good(mem, heaps, S, held, foreign),
           NEW p \in Nat \ {0}, p - 1 \in S,
           \A k \in Handles : held[k] # NoRegion => held[k].ptr # p,
           NEW mem2, mem2 = [mem EXCEPT ![p - 1].alloc = TRUE]
    PROVE  /\ Good(mem2, heaps, S, held, foreign)
           /\ mem2[p - 1].alloc /\ mem2[p - 1].size = mem[p - 1].size
  <1>1. MemOK(mem) /\ Tiled(mem, heaps, S) /\ Owned(mem, held, S)
    BY DEF Good
  <1>2. p - 1 \in Words /\ mem[p - 1] \in Headers /\ mem[p - 1].size \in Nat
    BY <1>1, BlockIn
  <1>3. mem = [a \in Words |-> mem[a]]
    BY <1>1 DEF MemOK
  <1>4. /\ mem2 = [a \in Words |-> mem2[a]] /\ mem2[p - 1] \in Headers
        /\ mem2[p - 1].size = mem[p - 1].size /\ mem2[p - 1].alloc
        /\ \A b \in Words : b # p - 1 => mem2[b] = mem[b]
    BY <1>2, <1>3 DEF Headers
  <1>5. MemOK(mem2)
    BY <1>1, <1>4 DEF MemOK
  <1>6. OnlyBlock(mem, mem2, p - 1)
    <2>1. ASSUME NEW b \in Words, b < p - 1 \/ (p - 1) + mem[p - 1].size < b
          PROVE  mem2[b] = mem[b]
      <3>1. b \in Nat
        BY TopFacts
      <3>2. b # p - 1
        BY <1>2, <2>1, <3>1
      <3> QED
        BY <1>4, <3>2
    <2> QED
      BY <1>4, <2>1 DEF OnlyBlock
  <1>7. /\ Tiled(mem2, heaps, S) /\ ForeignOK(mem2, heaps, foreign)
        /\ \A k \in Handles : held[k] # NoRegion /\ held[k].ptr # (p - 1) + 1 => Owns(mem2, held, S, k)
    BY <1>6, OnlyBlockKeeps
  <1>8. (p - 1) + 1 = p
    OBVIOUS
  <1>9. Owned(mem2, held, S)
    BY <1>1, <1>7, <1>8 DEF Owned
  <1> QED
    BY <1>4, <1>5, <1>7, <1>9 DEF Good

(* What a step of the search leaves to be shown. *)
LEMMA ScanKeeps ==
    ASSUME IInv, Scanning, NEW S, Good(cells', heaps, S, held', foreign), Scanned(S)',
           UNCHANGED <<heaps, heaps_actual_size, active_heap, hostVars>>,
           active_free_heap' \in Slots,
           active_free_heap' # 0 => active_free_heap' < heaps_actual_size,
           status' \in {"running", "null write"},
           \/ phase' = "idle"
           \/ UNCHANGED <<held, phase, call, status>>
    PROVE  IInv'
  <1>1. Host /\ HeapsOK(heaps, brk) /\ Stage /\ Calling /\ status = "running" /\ phase = "freed"
    BY DEF IInv, Scanning
  <1>2. Host' /\ brk' = brk /\ foreign' = foreign
    BY <1>1, HostKept DEF hostVars
  <1>3. HeapsOK(heaps, brk)'
    BY <1>1, <1>2
  <1>4. Stage'
    <2>1. \A i \in Slots : heaps[i].base # NoMem
      BY <1>1, NoLostHeap
    <2>2. active_heap = heaps_actual_size
      BY <1>1 DEF Calling
    <2> QED
      BY <1>1, <2>1, <2>2 DEF Stage, is_init
  <1>5. Calling'
    BY <1>1 DEF Calling
  <1>6. S \in SUBSET Words /\ Good(cells', heaps', S, held', foreign')
    BY <1>2, TiledWords
  <1> QED
    BY <1>2, <1>3, <1>4, <1>5, <1>6 DEF IInv

(* malloc_from_freed                                                        *)
LEMMA SearchFreedKeeps ==
    ASSUME IInv, SearchFreed
    PROVE  IInv'
  <1>1. PICK S \in SUBSET Words : Good(cells, heaps, S, held, foreign) /\ Scanned(S)
    BY DEF IInv
  <1>2. Scanning /\ Calling /\ Stage /\ phase = "freed" /\ status = "running"
    BY DEF SearchFreed, IInv, Scanning
  <1>3. PICK t \in Nat : t <= Top /\ HeapsOK(heaps, t)
    BY BrkFacts DEF IInv
  <1>4. PICK g, p, mem : g = active_free_heap /\ p = current /\ mem = Merged
    OBVIOUS
  <1>5. /\ g \in Real(heaps) /\ HeapComplete /\ g \in Nat /\ g < heaps_actual_size
        /\ p \in Nat \ {0} /\ heaps[g].base <= p - 1 /\ heaps[g].base \in Nat
    BY <1>1, <1>2, <1>4, FreedHeap
  <1>6. PICK S2 :
               /\ Good(mem, heaps, S2, held, foreign) /\ p - 1 \in S2
               /\ mem[p - 1] \in Headers /\ mem[p - 1].size \in Nat
               /\ p + mem[p - 1].size < EndOf(heaps, g) => p + mem[p - 1].size \in S2
               /\ Reached >= call.size =>
                     /\ mem[p - 1].size = call.size
                     /\ \A k \in Handles : held[k] # NoRegion => held[k].ptr # p
    BY <1>1, <1>2, <1>4, MergedFacts
  <1>7. ReuseFreed \/ ScanOn \/ ScanNextHeap
    BY <1>5 DEF SearchFreed
  <1>8. HeapEnd(g) = EndOf(heaps, g) /\ EndOf(heaps, g) \in Nat
    BY <1>3, <1>5, RealHeap DEF HeapEnd, EndOf
  <1>9. /\ active_free_heap \in Slots
        /\ active_free_heap # 0 => active_free_heap < heaps_actual_size
    BY <1>2 DEF Stage
  <1>10. CASE ReuseFreed
    <2>1. PICK mem2 : mem2 = [mem EXCEPT ![p - 1].alloc = TRUE]
      OBVIOUS
    <2>2. /\ Return(mem2, p) /\ UNCHANGED <<heapVars, hostVars>> /\ mem[p - 1].size = call.size
          /\ \A k \in Handles : held[k] # NoRegion => held[k].ptr # p
      BY <1>4, <1>6, <1>10, <2>1 DEF ReuseFreed
    <2>3. /\ Good(mem2, heaps, S2, held, foreign)
          /\ mem2[p - 1].alloc /\ mem2[p - 1].size = mem[p - 1].size
      <3>1. Good(mem, heaps, S2, held, foreign) /\ p - 1 \in S2 /\ p \in Nat \ {0}
        BY <1>5, <1>6
      <3>2. \A k \in Handles : held[k] # NoRegion => held[k].ptr # p
        BY <2>2
      <3> QED
        BY <1>3, <2>1, <3>1, <3>2, MarkedAllocated
    <2>4. call.size <= mem2[p - 1].size
      BY <1>6, <2>2, <2>3
    <2>5. Good(cells', heaps, S2, held', foreign)
      BY <1>2, <1>3, <1>5, <1>6, <2>2, <2>3, <2>4, Handed
    <2>6. phase' = "idle" /\ status' = status
      BY <2>2 DEF Return
    <2>7. /\ UNCHANGED <<heaps, heaps_actual_size, active_heap, hostVars>>
          /\ active_free_heap' = active_free_heap
      BY <2>2 DEF heapVars
    <2>8. Scanned(S2)'
      BY <2>6 DEF Scanned
    <2> QED
      BY <1>2, <1>9, <2>5, <2>6, <2>7, <2>8, ScanKeeps
  <1>11. CASE ScanOn
    <2>1. /\ next_ptr < HeapEnd(g) /\ cells' = mem /\ scan' = next_ptr
          /\ UNCHANGED <<heapVars, hostVars, held, phase, call, end_free_heap, status>>
      BY <1>4, <1>11 DEF ScanOn
    <2>2. PICK q \in Nat : q = p + mem[p - 1].size
      BY <1>5, <1>6
    <2>3. next_ptr = q + 1
      BY <1>4, <2>2 DEF next_ptr
    <2>4. scan' = q + 1 /\ q + 1 < EndOf(heaps, g) /\ q \in S2
      BY <1>6, <1>8, <2>1, <2>2, <2>3
    <2>5. heaps[g].base < q + 1
      BY <1>5, <1>6, <2>2
    <2>6. /\ UNCHANGED <<heaps, heaps_actual_size, active_heap, hostVars>>
          /\ active_free_heap' = active_free_heap
          /\ UNCHANGED <<held, phase, call, status>>
      BY <2>1 DEF heapVars
    <2>7. (q + 1) - 1 = q /\ q + 1 \in Nat /\ q + 1 <= EndOf(heaps, g)
      BY <1>8, <2>4
    <2>8. Scanned(S2)'
      <3>1. scan' \in Nat /\ scan' - 1 \in S2
        BY <2>4, <2>7
      <3>2. heaps[g].base < scan' /\ scan' <= EndOf(heaps, g)
        BY <2>4, <2>5, <2>7
      <3> QED
        BY <1>4, <2>6, <3>1, <3>2 DEF Scanned
    <2>9. Good(cells', heaps, S2, held', foreign)
      BY <1>6, <2>1, <2>6
    <2> QED
      BY <1>2, <1>9, <2>6, <2>8, <2>9, ScanKeeps
  <1>12. CASE ScanNextHeap
    <2>1. PICK f : f = IF g + 1 = heaps_actual_size THEN 0 ELSE g + 1
      OBVIOUS
    <2>2. /\ active_free_heap' = f
          /\ UNCHANGED <<heaps, heaps_actual_size, active_heap, hostVars>>
          /\ \/ cells' = mem /\ scan' = 0 /\ UNCHANGED <<held, phase, call, status>>
             \/ ReturnNull(mem)
      BY <1>4, <1>12, <2>1 DEF ScanNextHeap
    <2>3. f \in Slots /\ (f # 0 => f < heaps_actual_size)
      <3>1. heaps_actual_size \in 0..HeapSlots
        BY <1>2 DEF Stage
      <3> QED
        BY <1>5, <2>1, <3>1, Constants DEF Slots
    <2>4. CASE cells' = mem /\ scan' = 0 /\ UNCHANGED <<held, phase, call, status>>
      <3>1. Good(cells', heaps, S2, held', foreign) /\ Scanned(S2)'
        BY <1>6, <2>4 DEF Scanned
      <3> QED
        BY <1>2, <2>2, <2>3, <2>4, <3>1, ScanKeeps
    <2>5. CASE ReturnNull(mem)
      <3>1. cells' = mem /\ phase' = "idle" /\ held' = held /\ status' \in {"running", "null write"}
        BY <1>2, <2>5 DEF ReturnNull
      <3>2. Good(cells', heaps, S2, held', foreign) /\ Scanned(S2)'
        BY <1>6, <3>1 DEF Scanned
      <3> QED
        BY <1>2, <2>2, <2>3, <3>1, <3>2, ScanKeeps
    <2> QED
      BY <2>2, <2>4, <2>5
  <1> QED
    BY <1>7, <1>10, <1>11, <1>12

-----------------------------------------------------------------------------
(* The invariant holds *)

(* The invariant holds initially, and every step keeps it.                  *)
LEMMA InitHolds ==
    ASSUME Init
    PROVE  IInv
  <1>1. 0 \in Slots /\ InitPages \in InitPages..MaxPages
    BY Constants DEF Slots
  <1>2. Host
    <2>1. pages = InitPages /\ sbrk_words = 0 /\ foreign = {}
      BY DEF Init
    <2>2. PICK u \in Nat : u = InitPages * PageWords
      BY Constants
    <2>3. brk = u /\ pages * PageWords = u
      BY <2>1, <2>2 DEF brk
    <2>4. u \in u..u
      OBVIOUS
    <2> QED
      BY <1>1, <2>1, <2>2, <2>3, <2>4 DEF Host
  <1>3. /\ heaps = [i \in Slots |-> [base |-> Null, size |-> 0, offset |-> 0]]
        /\ \A i \in Slots : heaps[i].base = 0 /\ heaps[i].size = 0 /\ heaps[i].offset = 0
        /\ Real(heaps) = {}
    BY DEF Init, Slots, Null, Real
  <1>4. HeapsOK(heaps, brk)
    <2>1. heaps \in [Slots -> [base : Nat \union {NoMem}, size : Nat, offset : Nat]]
      BY <1>3 DEF Null
    <2> QED
      BY <1>3, <2>1 DEF HeapsOK
  <1>5. Stage
    <2>1. /\ heaps_actual_size = 0 /\ active_heap = 0 /\ active_free_heap = 0
          /\ 0 \in 0..HeapSlots /\ 0 \in 0..0
      BY Constants DEF Init
    <2>2. \A i \in Slots : ~is_init(i) /\ ~(i < 0) /\ heaps[i].base # NoMem
      BY <1>3, Constants DEF is_init, Null, NoMem, Slots
    <2> QED
      BY <1>1, <2>1, <2>2 DEF Stage
  <1>6. Calling
    BY DEF Init, Calling
  <1>7. MemOK(cells)
    BY DEF Init, MemOK, Zero, Header, Headers
  <1>8. Tiled(cells, heaps, {})
    BY <1>3 DEF Tiled
  <1>9. Owned(cells, held, {})
    BY DEF Init, Owned, NoRegion, Null
  <1>10. ForeignOK(cells, heaps, foreign)
    BY DEF Init, ForeignOK
  <1>11. Good(cells, heaps, {}, held, foreign) /\ Scanned({})
    BY <1>7, <1>8, <1>9, <1>10 DEF Good, Scanned, Init
  <1> QED
    BY <1>2, <1>4, <1>5, <1>6, <1>11 DEF IInv

LEMMA StepKeeps ==
    ASSUME NoGrow, IInv, [Next]_vars
    PROVE  IInv'
  <1>1. ASSUME NEW h \in Handles, NEW req \in Requests, malloc(h, req) PROVE IInv'
    <2>1. Idle /\ held[h] = NoRegion /\ req \in Requests \ {0} /\ BeginMalloc("malloc", h, req, 0)
      BY <1>1 DEF malloc
    <2> QED
      BY <2>1, BeginKeeps
  <1>2. ASSUME NEW h \in Handles, NEW req \in Requests, calloc(h, req) PROVE IInv'
    <2>1. Idle /\ held[h] = NoRegion /\ req \in Requests \ {0} /\ BeginMalloc("calloc", h, req, 0)
      BY <1>2 DEF calloc
    <2> QED
      BY <2>1, BeginKeeps
  <1>3. CASE UNCHANGED vars
    <2>1. /\ UNCHANGED <<heapVars, hostVars, cells, held, phase, call, scan, end_free_heap, status>>
          /\ heaps' = heaps /\ foreign' = foreign /\ cells' = cells /\ held' = held
          /\ heaps_actual_size' = heaps_actual_size /\ active_heap' = active_heap
          /\ active_free_heap' = active_free_heap /\ phase' = phase /\ status' = status
          /\ call' = call /\ scan' = scan
      BY <1>3 DEF vars, heapVars, hostVars
    <2>2. Host' /\ brk' = brk
      BY <2>1, HostKept DEF IInv
    <2>3. HeapsOK(heaps, brk)'
      BY <2>1, <2>2 DEF IInv
    <2>4. Stage'
      <3>1. SbrkGranted(heap_adj)' <=> SbrkGranted(heap_adj)
        BY <2>2, GrantedAgain
      <3> QED
        BY <2>1, <3>1 DEF IInv, Stage, is_init
    <2>5. Calling'
      BY <2>1 DEF IInv, Calling
    <2>6. PICK S \in SUBSET Words : Good(cells, heaps, S, held, foreign) /\ Scanned(S)
      BY DEF IInv
    <2>7. Good(cells, heaps, S, held, foreign)' /\ Scanned(S)'
      BY <2>1, <2>6 DEF Scanned
    <2> QED
      BY <2>2, <2>3, <2>4, <2>5, <2>7 DEF IInv
  <1>4. ASSUME Next PROVE IInv'
    BY <1>1, <1>2, <1>4, ReallocKeeps, FreeKeeps, ForeignSbrkKeeps, BumpHitKeeps,
       ExpandHeapKeeps, SbrkFailsKeeps, NextHeapKeeps, SearchFreedKeeps DEF Next, CallStep
  <1> QED
    BY <1>3, <1>4

(* Every state of a contract whose client does not grow regions in place     *)
(* satisfies the invariant: heaps in order below the break, headers that     *)
(* tile them, regions in buffers of their own, calls that are where the      *)
(* loops of memory_manager::malloc and malloc_from_freed expect them.        *)
THEOREM Invariance ==
    ASSUME NoGrow
    PROVE  Spec => []IInv
  <1>1. Init => IInv
    BY InitHolds
  <1>2. IInv /\ [Next]_vars => IInv'
    BY StepKeeps
  <1> QED
    BY <1>1, <1>2, PTL DEF Spec

-----------------------------------------------------------------------------
(* What the invariant says of the properties *)

(* The state of every client that does not grow regions has its types. *)
THEOREM Types ==
    ASSUME NoGrow
    PROVE  Spec => []TypeOK
  <1>1. IInv => TypeOK
    <2> SUFFICES ASSUME IInv PROVE TypeOK
      OBVIOUS
    <2>1. PICK S \in SUBSET Words : Good(cells, heaps, S, held, foreign)
      BY DEF IInv
    <2>2. Host /\ HeapsOK(heaps, brk) /\ Stage /\ Calling
      BY DEF IInv
    <2>3. PICK t \in Nat : t <= Top /\ HeapsOK(heaps, t)
      BY <2>2, BrkFacts
    <2>4. /\ MemOK(cells) /\ Tiled(cells, heaps, S) /\ Owned(cells, held, S)
          /\ ForeignOK(cells, heaps, foreign)
      BY <2>1 DEF Good
    <2>5. \A a \in Words : cells[a] \in Handles \union {Foreign, Stale}
                           \/ (cells[a].size \in Nat /\ cells[a].alloc \in BOOLEAN)
      <3>1. \A a \in Words : cells[a] \in Marks \/ cells[a] \in Headers
        BY <2>4 DEF MemOK
      <3> QED
        BY <3>1 DEF Marks, Headers
    <2>6. ASSUME NEW i \in Slots
          PROVE  heaps[i].base \in Words \union {NoMem} /\ heaps[i].offset \in 0..heaps[i].size
      <3>1. /\ heaps[i].base \in Nat \union {NoMem} /\ heaps[i].offset \in Nat
            /\ heaps[i].size \in Nat /\ heaps[i].offset <= heaps[i].size
        BY <2>3 DEF HeapsOK
      <3>2. CASE i \in Real(heaps)
        <4>1. /\ heaps[i].base \in Nat \ {0} /\ heaps[i].size \in Nat \ {0}
              /\ heaps[i].base + heaps[i].size <= Top
          BY <2>3, <3>2, RealHeap DEF EndOf
        <4>2. heaps[i].base \in Words
          BY <4>1, TopFacts
        <4> QED
          BY <3>1, <4>2
      <3>3. CASE i \notin Real(heaps)
        <4>1. heaps[i].base = 0 \/ heaps[i].base = NoMem
          BY <3>1, <3>3 DEF Real
        <4> QED
          BY <3>1, <4>1, TopFacts
      <3> QED
        BY <3>2, <3>3
    <2>7. /\ heaps_actual_size \in 0..HeapSlots
          /\ active_heap \in 0..HeapSlots /\ active_free_heap \in Slots
      <3>1. /\ heaps_actual_size \in 0..HeapSlots
            /\ active_heap \in 0..heaps_actual_size /\ active_free_heap \in Slots
        BY <2>2 DEF Stage
      <3> QED
        BY <3>1, Constants
    <2>8. pages \in InitPages..MaxPages /\ foreign \subseteq Words
      BY <2>2, <2>4 DEF Host, ForeignOK
    <2>9. ASSUME NEW h \in Handles PROVE held[h] = NoRegion \/ held[h].ptr \in Words
      <3> SUFFICES ASSUME held[h] # NoRegion PROVE held[h].ptr \in Words
        OBVIOUS
      <3>1. PICK p, n, f : p = held[h].ptr /\ n = held[h].size /\ f = cells[p - 1].size
        OBVIOUS
      <3>2. p \in Nat \ {0} /\ n \in Nat \ {0} /\ n <= f /\ f \in Nat /\ p + f <= Top
        BY <2>3, <2>4, <3>1, RegionIn
      <3>3. p \in Words
        BY <3>2, TopFacts
      <3> QED
        BY <3>1, <3>3
    <2>10. /\ phase \in {"idle", "bump", "freed"}
           /\ status \in {"running", "trap", "null write", "slot overrun", "check failed"}
      BY <2>2 DEF Calling
    <2> QED
      BY <2>5, <2>6, <2>7, <2>8, <2>9, <2>10 DEF TypeOK, Slots
  <1> QED
    BY <1>1, Invariance, PTL

(* Of the memory a client holds, and of the memory other callers of sbrk     *)
(* hold, no word is ever overwritten by the allocator: neither by a header   *)
(* that malloc, realloc, merge_contiguous or cleanup_remaining writes nor by *)
(* handing the word out again.                                               *)
THEOREM DataKept ==
    ASSUME NoGrow
    PROVE  Spec => []DataIntact
  <1>1. IInv => DataIntact
    <2> SUFFICES ASSUME IInv PROVE DataIntact
      OBVIOUS
    <2>1. PICK S \in SUBSET Words : Good(cells, heaps, S, held, foreign)
      BY DEF IInv
    <2>2. Owned(cells, held, S) /\ ForeignOK(cells, heaps, foreign)
      BY <2>1 DEF Good
    <2>3. ASSUME NEW h \in Handles, NEW a \in held[h].ptr..(held[h].ptr + held[h].size - 1)
          PROVE  cells[a] = h
      <3>1. held[h] # NoRegion
        BY <2>3 DEF NoRegion, Null
      <3> QED
        BY <2>2, <2>3, <3>1 DEF Owned, Owns
    <2> QED
      BY <2>2, <2>3 DEF DataIntact, ForeignOK
  <1> QED
    BY <1>1, Invariance, PTL

(* malloc_from_freed never finds a heap that was not handed out to its end:  *)
(* next_active_heap leaves a heap only after cleanup_remaining, and          *)
(* _active_free_heap stays below the heaps left.                             *)
THEOREM CompleteHeaps ==
    ASSUME NoGrow
    PROVE  Spec => []OnlyCompleteHeapsSearched
  <1>1. IInv => OnlyCompleteHeapsSearched
    BY DEF IInv, Calling, OnlyCompleteHeapsSearched
  <1> QED
    BY <1>1, Invariance, PTL

(* The walk from header to header, one round per word of the heap *)
Following(mem, limit, a) == IF a < limit THEN a + mem[a].size + 1 ELSE a

(* The table HeadersTile collects its headers with                          *)
HeaderTable(g, mem, base, offset) ==
    g = [n \in 0..offset |->
            IF n = 0 THEN {base} ELSE {Following(mem, base + offset, a) : a \in g[n - 1]}]

(* Where headers tile a heap, the walk ends at its offset. *)
LEMMA WalkEnds ==
    ASSUME NEW hps, NEW top \in Nat, top <= Top, HeapsOK(hps, top),
           NEW mem, NEW S, Tiled(mem, hps, S), NEW i \in Real(hps),
           NEW B, B = hps[i].base, NEW k, k = hps[i].offset,
           NEW walk, (\E g : HeaderTable(g, mem, B, k)) => HeaderTable(walk, mem, B, k)
    PROVE  walk[k] = {B + k}
  <1> DEFINE L == B + k
             D == [n \in 0..k |-> {a \in Nat : (a = L \/ (a \in S /\ B <= a /\ a < L)) /\ (a = L \/ B + n <= a)}]
             step == [a \in Nat |-> Following(mem, L, a)]
  <1>1. B \in Nat /\ k \in Nat /\ L \in Nat /\ Limit(hps, i) = L
    BY RealHeap DEF Limit
  <1>2. B \in D[0]
    <2>1. k > 0 => B \in S
      BY DEF Tiled
    <2>2. B = L \/ (B \in S /\ B <= B /\ B < L)
      BY <1>1, <2>1
    <2>3. B = L \/ B + 0 <= B
      BY <1>1
    <2> HIDE DEF L
    <2> QED
      BY <1>1, <2>2, <2>3
  <1>3. ASSUME NEW n \in 1..k, NEW a \in D[n - 1]
        PROVE  Following(mem, L, a) \in D[n] /\ a \in Nat
    <2>1. PICK u : u = Following(mem, L, a)
      OBVIOUS
    <2>2. n - 1 \in 0..k /\ n \in 0..k
      BY <1>1
    <2>3. a \in Nat /\ (a = L \/ (a \in S /\ B <= a /\ a < L)) /\ (a = L \/ B + (n - 1) <= a)
      BY <2>2
    <2> HIDE DEF L
    <2>4. CASE a = L
      <3>1. u = L
        BY <1>1, <2>1, <2>4 DEF Following
      <3> QED
        BY <1>1, <2>1, <2>2, <2>3, <3>1
    <2>5. CASE a # L
      <3>1. a \in S /\ B <= a /\ a < L /\ B + (n - 1) <= a
        BY <2>3, <2>5
      <3>2. PICK z : z = mem[a].size
        OBVIOUS
      <3>3. z \in Nat
        BY <3>1, <3>2, BlockIn
      <3>4. u = a + z + 1
        BY <2>1, <3>1, <3>2 DEF Following
      <3>5. a + z + 1 <= L /\ (a + z + 1 < L => a + z + 1 \in S)
        BY <1>1, <3>1, <3>2 DEF Tiled
      <3>6. u \in Nat /\ u <= L /\ (u < L => u \in S) /\ B <= u /\ B + n <= u
        BY <1>1, <2>2, <2>3, <3>1, <3>3, <3>4, <3>5
      <3>7. u = L \/ u < L
        BY <1>1, <3>6
      <3> QED
        BY <1>1, <2>1, <2>2, <2>3, <3>6, <3>7
    <2> QED
      BY <2>4, <2>5
  <1> HIDE DEF D
  <1>4. \E g : HeaderTable(g, mem, B, k)
    <2>1. PICK g : Iterates(g, B, step, k)
      <3> HIDE DEF step
      <3> QED
        BY <1>1, IterationExists
    <2>2. g[0] = {B} /\ \A n \in 1..k : g[n] = {step[x] : x \in g[n - 1]}
      <3>1. g = [n \in 0..k |-> IF n = 0 THEN {B} ELSE {step[x] : x \in g[n - 1]}]
        BY <2>1 DEF Iterates
      <3> HIDE DEF step
      <3>2. 0 \in 0..k /\ \A n \in 1..k : n \in 0..k /\ n # 0
        BY <1>1
      <3> QED
        BY <3>1, <3>2
    <2>3. ASSUME NEW n \in 1..k, NEW x \in D[n - 1], g[n - 1] = {x}
          PROVE  g[n] = {Following(mem, L, x)}
      <3>1. g[n] = {step[y] : y \in {x}}
        BY <2>2, <2>3
      <3>2. step[x] = Following(mem, L, x)
        BY <1>3
      <3> QED
        BY <3>1, <3>2
    <2>4. \A n \in 0..k : InRound(g, D, n)
      <3>1. InRound(g, D, 0)
        BY <1>2, <2>2 DEF InRound
      <3>2. \A n \in 1..k : InRound(g, D, n - 1) => InRound(g, D, n)
        BY <1>3, <2>3 DEF InRound
      <3> QED
        BY <1>1, <3>1, <3>2, LoopInvariance
    <2>5. ASSUME NEW n \in 0..k
          PROVE  g[n] = IF n = 0 THEN {B} ELSE {Following(mem, L, a) : a \in g[n - 1]}
      <3>1. CASE n = 0
        BY <2>2, <3>1
      <3>2. CASE n # 0
        <4>1. n \in 1..k /\ n - 1 \in 0..k
          BY <1>1, <3>2
        <4>2. PICK x \in D[n - 1] : g[n - 1] = {x}
          BY <2>4, <4>1 DEF InRound
        <4>3. g[n] = {Following(mem, L, x)}
          BY <2>3, <4>1, <4>2
        <4> QED
          BY <3>2, <4>2, <4>3
      <3> QED
        BY <3>1, <3>2
    <2>6. g = [n \in 0..k |-> IF n = 0 THEN {B} ELSE {Following(mem, L, a) : a \in g[n - 1]}]
      <3>1. g = [n \in 0..k |-> g[n]]
        BY <2>1 DEF Iterates
      <3> QED
        BY <2>5, <3>1
    <2> QED
      BY <2>6 DEF HeaderTable
  <1>5. HeaderTable(walk, mem, B, k)
    BY <1>4
  <1>6. walk[0] = {B} /\ \A n \in 1..k : walk[n] = {Following(mem, L, a) : a \in walk[n - 1]}
    <2>1. walk = [n \in 0..k |-> IF n = 0 THEN {B} ELSE {Following(mem, L, a) : a \in walk[n - 1]}]
      BY <1>5 DEF HeaderTable
    <2>2. 0 \in 0..k /\ \A n \in 1..k : n \in 0..k /\ n # 0
      BY <1>1
    <2> QED
      BY <2>1, <2>2
  <1>7. \A n \in 0..k : InRound(walk, D, n)
    <2>1. InRound(walk, D, 0)
      BY <1>2, <1>6 DEF InRound
    <2>2. ASSUME NEW n \in 1..k, NEW x \in D[n - 1], walk[n - 1] = {x}
          PROVE  \E y \in D[n] : walk[n] = {y}
      <3>1. walk[n] = {Following(mem, L, a) : a \in {x}}
        BY <1>6, <2>2
      <3>2. walk[n] = {Following(mem, L, x)}
        BY <3>1
      <3> QED
        BY <1>3, <3>2
    <2>3. \A n \in 1..k : InRound(walk, D, n - 1) => InRound(walk, D, n)
      BY <2>2 DEF InRound
    <2> QED
      BY <1>1, <2>1, <2>3, LoopInvariance
  <1>8. PICK x \in D[k] : walk[k] = {x}
    <2>1. k \in 0..k
      BY <1>1
    <2> QED
      BY <1>7, <2>1 DEF InRound
  <1>9. x = L
    <2>1. (x = L \/ (x \in S /\ B <= x /\ x < L)) /\ (x = L \/ B + k <= x) /\ x \in Nat
      BY <1>1, <1>8 DEF D
    <2> QED
      BY <1>1, <2>1
  <1> QED
    BY <1>8, <1>9

(* The buffers of each heap tile it exactly up to its offset, so that every  *)
(* walk of malloc_from_freed and merge_contiguous goes from header to header *)
(* and ends where the heap does.                                             *)
THEOREM Tiling ==
    ASSUME NoGrow
    PROVE  Spec => []HeadersTile
  <1>1. IInv => HeadersTile
    <2> SUFFICES ASSUME IInv PROVE HeadersTile
      OBVIOUS
    <2>1. PICK S \in SUBSET Words : Good(cells, heaps, S, held, foreign)
      BY DEF IInv
    <2>2. PICK t \in Nat : t <= Top /\ HeapsOK(heaps, t)
      BY BrkFacts DEF IInv
    <2>3. Tiled(cells, heaps, S)
      BY <2>1 DEF Good
    <2>4. ASSUME NEW i \in Slots, heaps[i].base \in Words \ {Null}
          PROVE  (CHOOSE g : HeaderTable(g, cells, heaps[i].base, heaps[i].offset))[heaps[i].offset]
                    = {heaps[i].base + heaps[i].offset}
      <3>1. i \in Real(heaps)
        BY <2>4, TopFacts DEF Real, Null
      <3>2. PICK B, k : B = heaps[i].base /\ k = heaps[i].offset
        OBVIOUS
      <3>3. PICK walk : walk = CHOOSE g : HeaderTable(g, cells, heaps[i].base, heaps[i].offset)
        OBVIOUS
      <3>4. (\E g : HeaderTable(g, cells, B, k)) => HeaderTable(walk, cells, B, k)
        BY <3>2, <3>3
      <3>5. walk[k] = {B + k}
        BY <2>2, <2>3, <3>1, <3>2, <3>4, WalkEnds
      <3> QED
        BY <3>2, <3>3, <3>5
    <2> QED
      BY <2>4 DEF HeadersTile, HeaderTable, Following, Slots
  <1> QED
    BY <1>1, Invariance, PTL

-----------------------------------------------------------------------------
(* memory_manager implements Allocator *)

(* The regions the abstract allocator sees                                  *)
Live(hld) == {hld[h] : h \in Handles} \ {NoRegion}

(* The regions of two handles are in memory, and apart. *)
LEMMA RegionsApart ==
    ASSUME NEW hps, NEW top \in Nat, top <= Top, HeapsOK(hps, top),
           NEW mem, NEW S, NEW hld, NEW F, Good(mem, hps, S, hld, F),
           NEW h \in Handles, hld[h] # NoRegion, NEW r, r = hld[h]
    PROVE  /\ Promise!IsRegion(r)
           /\ \A g \in Handles : g # h /\ hld[g] # NoRegion => hld[g] # r /\ Promise!Apart(r, hld[g])
  <1>1. Tiled(mem, hps, S) /\ Owned(mem, hld, S)
    BY DEF Good
  <1>2. PICK p, n, f : p = hld[h].ptr /\ n = hld[h].size /\ f = mem[p - 1].size
    OBVIOUS
  <1>3. /\ p - 1 \in S /\ p \in Nat \ {0} /\ n \in Nat \ {0} /\ n <= f /\ f \in Nat
        /\ p + f <= Top /\ r.ptr = p /\ r.size = n
    BY <1>1, <1>2, RegionIn
  <1>4. Promise!IsRegion(r)
    <2>1. p + n <= Top
      BY <1>3, TopFacts
    <2> QED
      BY <1>3, <2>1 DEF Promise!IsRegion, Top
  <1>5. ASSUME NEW g \in Handles, g # h, hld[g] # NoRegion
        PROVE  hld[g] # r /\ Promise!Apart(r, hld[g])
    <2>1. PICK q, m, e : q = hld[g].ptr /\ m = hld[g].size /\ e = mem[q - 1].size
      OBVIOUS
    <2>2. q - 1 \in S /\ q \in Nat \ {0} /\ m \in Nat \ {0} /\ m <= e /\ e \in Nat
      BY <1>1, <1>5, <2>1, RegionIn
    <2>3. p # q
      BY <1>1, <1>2, <1>5, <2>1 DEF Owned
    <2>4. p - 1 < q - 1 \/ q - 1 < p - 1
      BY <1>3, <2>2, <2>3
    <2>5. /\ p - 1 < q - 1 => (p - 1) + f + 1 <= q - 1
          /\ q - 1 < p - 1 => (q - 1) + e + 1 <= p - 1
      BY <1>1, <1>2, <1>3, <2>1, <2>2 DEF Tiled
    <2>6. p + n <= q \/ q + m <= p
      BY <1>3, <2>2, <2>4, <2>5
    <2> QED
      BY <1>2, <1>3, <2>1, <2>3, <2>6 DEF Promise!Apart
  <1> QED
    BY <1>4, <1>5

(* One handle gets, gives up or exchanges a region. *)
LEMMA HeldChanges ==
    ASSUME IInv, IInv', NEW h \in Handles, NEW r, held' = [held EXCEPT ![h] = r],
           held[h] # NoRegion \/ r # NoRegion, status = "running", status' = "running"
    PROVE  Promise!Next
  <1>1. PICK S, S2 : /\ Good(cells, heaps, S, held, foreign)
                     /\ Good(cells', heaps', S2, held', foreign')
    BY DEF IInv
  <1>2. PICK t \in Nat : t <= Top /\ HeapsOK(heaps, t)
    BY BrkFacts DEF IInv
  <1>3. PICK mem2, hps2, hld2, F2 : mem2 = cells' /\ hps2 = heaps' /\ hld2 = held' /\ F2 = foreign'
    OBVIOUS
  <1>4. PICK t2 \in Nat : t2 <= Top /\ HeapsOK(hps2, t2)
    <2>1. Host' /\ HeapsOK(heaps, brk)'
      BY DEF IInv
    <2>2. brk' \in Nat /\ brk' <= Top
      <3>1. (Host => brk \in Nat \ {0} /\ brk <= Top)'
        BY BrkFacts, PTL
      <3> QED
        BY <2>1, <3>1 DEF Top
    <2> QED
      BY <1>3, <2>1, <2>2
  <1>5. Good(mem2, hps2, S2, hld2, F2)
    BY <1>1, <1>3
  <1>6. held \in [Handles -> [ptr : Nat, size : Nat]]
    BY <1>1 DEF Good, Owned
  <1>7. /\ hld2 = [held EXCEPT ![h] = r] /\ hld2[h] = r
        /\ \A g \in Handles : g # h => hld2[g] = held[g]
    BY <1>3, <1>6
  <1>8. held[h] # NoRegion => \A g \in Handles : g # h /\ held[g] # NoRegion => held[g] # held[h]
    BY <1>1, <1>2, RegionsApart
  <1>9. r # NoRegion =>
          /\ Promise!IsRegion(r)
          /\ \A g \in Handles : g # h /\ held[g] # NoRegion => held[g] # r /\ Promise!Apart(r, held[g])
    <2> HAVE r # NoRegion
    <2>1. hld2[h] # NoRegion /\ r = hld2[h]
      BY <1>7
    <2>2. /\ Promise!IsRegion(r)
          /\ \A g \in Handles :
                g # h /\ hld2[g] # NoRegion => hld2[g] # r /\ Promise!Apart(r, hld2[g])
      BY <1>4, <1>5, <2>1, RegionsApart
    <2> QED
      BY <1>7, <2>2
  <1>10. /\ held[h] = NoRegion /\ r # NoRegion => Live(hld2) = Live(held) \union {r}
         /\ r = NoRegion => Live(hld2) = Live(held) \ {held[h]}
         /\ held[h] # NoRegion /\ r # NoRegion =>
               /\ held[h] \in Live(held) /\ Live(hld2) = (Live(held) \ {held[h]}) \union {r}
    <2>1. ASSUME NEW x
          PROVE  x \in Live(hld2) <=> x # NoRegion /\ (x = r \/ \E g \in Handles : g # h /\ x = held[g])
      BY <1>7 DEF Live
    <2>2. ASSUME NEW x
          PROVE  x \in Live(held) <=> x # NoRegion /\ (x = held[h] \/ \E g \in Handles : g # h /\ x = held[g])
      BY DEF Live
    <2>3. ASSUME held[h] = NoRegion, r # NoRegion PROVE Live(hld2) = Live(held) \union {r}
      BY <2>1, <2>2, <2>3
    <2>4. ASSUME r = NoRegion PROVE Live(hld2) = Live(held) \ {held[h]}
      BY <1>8, <2>1, <2>2, <2>4
    <2>5. ASSUME held[h] # NoRegion, r # NoRegion
          PROVE  held[h] \in Live(held) /\ Live(hld2) = (Live(held) \ {held[h]}) \union {r}
      BY <1>8, <2>1, <2>2, <2>5
    <2> QED
      BY <2>3, <2>4, <2>5
  <1>11. \A s \in Live(held) : s # held[h] => \E g \in Handles : g # h /\ s = held[g] /\ held[g] # NoRegion
    BY DEF Live
  <1>12. Live(held)' = Live(hld2)
    BY <1>3 DEF Live
  <1>13. (status # "running") = FALSE /\ (status' # "running") = FALSE
    OBVIOUS
  <1>14. CASE held[h] = NoRegion
    <2>1. r # NoRegion /\ r \in Live(hld2) /\ Live(hld2) = Live(held) \union {r}
      <3>1. r # NoRegion
        BY <1>14
      <3> QED
        BY <1>10, <1>14, <3>1
    <2>2. \A s \in Live(held) : Promise!Apart(r, s)
      <3>1. \A s \in Live(held) : s # held[h]
        BY <1>14 DEF Live
      <3> QED
        BY <1>9, <1>11, <2>1, <3>1
    <2>3. Promise!IsRegion(r)
      BY <1>9, <2>1
    <2>4. Promise!Acquire
      BY <1>12, <1>13, <2>1, <2>2, <2>3 DEF Promise!Acquire, Live
    <2> QED
      BY <1>13, <2>4 DEF Promise!Next
  <1>15. CASE held[h] # NoRegion /\ r = NoRegion
    <2>1. held[h] \in Live(held) /\ Live(hld2) = Live(held) \ {held[h]}
      BY <1>10, <1>15 DEF Live
    <2>2. Promise!Release
      BY <1>12, <1>13, <2>1 DEF Promise!Release, Live
    <2> QED
      BY <1>13, <2>2 DEF Promise!Next
  <1>16. CASE held[h] # NoRegion /\ r # NoRegion
    <2>1. /\ held[h] \in Live(held) /\ Live(hld2) = (Live(held) \ {held[h]}) \union {r}
          /\ r \in Live(hld2)
      BY <1>10, <1>16
    <2>2. \A s \in Live(held) \ {held[h]} : Promise!Apart(r, s)
      BY <1>9, <1>11, <1>16
    <2>3. Promise!IsRegion(r)
      BY <1>9, <1>16
    <2>4. Promise!Move
      BY <1>12, <1>13, <2>1, <2>2, <2>3 DEF Promise!Move, Live
    <2> QED
      BY <1>13, <2>4 DEF Promise!Next
  <1> QED
    BY <1>14, <1>15, <1>16

(* Steps that the abstract allocator does not see, and its last one         *)
LEMMA Stutters ==
    ASSUME held' = held, status' = status
    PROVE  UNCHANGED Promise!vars
  BY DEF Promise!vars

LEMMA Stops ==
    ASSUME held' = held, status = "running", status' # "running"
    PROVE  Promise!Next
  <1>1. (status # "running") = FALSE /\ (status' # "running") = TRUE
    OBVIOUS
  <1>2. Promise!Stop
    BY <1>1 DEF Promise!Stop
  <1> QED
    BY <1>1, <1>2 DEF Promise!Next

(* A call that returns a pointer hands out a new region. *)
LEMMA Returns ==
    ASSUME IInv, IInv', phase # "idle", status = "running", NEW mem, NEW p, Return(mem, p)
    PROVE  Promise!Next
  <1>1. call.handle \in Handles /\ call.req # 0
    BY DEF IInv, Calling
  <1>a. PICK h \in Handles : h = call.handle
    BY <1>1
  <1>2. PICK r : r = [ptr |-> p, size |-> call.req]
    OBVIOUS
  <1>3. held' = [held EXCEPT ![h] = r] /\ r # NoRegion /\ status' = "running"
    <2>1. r.size # NoRegion.size
      BY <1>1, <1>2 DEF NoRegion
    <2> QED
      BY <1>a, <1>2, <2>1 DEF Return
  <1> QED
    BY <1>3, HeldChanges

LEMMA ImplementsStep ==
    ASSUME IInv, IInv', [Next]_vars
    PROVE  [Promise!Next]_Promise!vars
  <1> DEFINE Goal == [Promise!Next]_Promise!vars
  <1>1. CASE UNCHANGED vars
    BY <1>1, Stutters DEF vars
  <1>2. ASSUME NEW op, NEW h, NEW req, NEW orig, BeginMalloc(op, h, req, orig) PROVE Goal
    BY <1>2, Stutters DEF BeginMalloc
  <1>3. ASSUME NEW how, status = "running", how # "running", Stop(how) PROVE Goal
    BY <1>3, Stops DEF Stop
  <1>4. ASSUME NEW h \in Handles, Idle, held' = [held EXCEPT ![h] = NoRegion], status' = status PROVE Goal
    <2>1. CASE held[h] = NoRegion
      <3>1. held \in [Handles -> [ptr : Nat, size : Nat]]
        BY DEF IInv, Good, Owned
      <3>2. held' = held
        BY <1>4, <2>1, <3>1
      <3> QED
        BY <1>4, <3>2, Stutters
    <2>2. CASE held[h] # NoRegion
      <3>1. PICK r : r = NoRegion
        OBVIOUS
      <3>2. held' = [held EXCEPT ![h] = r] /\ status = "running" /\ status' = "running"
        BY <1>4, <3>1 DEF Idle
      <3> QED
        BY <2>2, <3>2, HeldChanges
    <2> QED
      BY <2>1, <2>2
  <1>5. ASSUME NEW h \in Handles, NEW req \in Requests, req # 0, Idle, NEW mem, NEW i, NEW offset,
               InPlace(h, req, mem, i, offset)
        PROVE  Goal
    <2>1. held \in [Handles -> [ptr : Nat, size : Nat]]
      BY DEF IInv, Good, Owned
    <2>2. PICK r : r = [held[h] EXCEPT !.size = req]
      OBVIOUS
    <2>3. r.size = req /\ r # NoRegion
      <3>1. held[h] \in [ptr : Nat, size : Nat]
        BY <2>1
      <3>2. r.size = req
        BY <2>2, <3>1
      <3> QED
        BY <1>5, <3>2 DEF NoRegion
    <2>4. held' = [held EXCEPT ![h] = r]
      BY <1>5, <2>2 DEF InPlace
    <2>5. status = "running" /\ status' = "running"
      BY <1>5 DEF InPlace, Idle
    <2> QED
      BY <2>3, <2>4, <2>5, HeldChanges
  <1>6. ASSUME NEW h \in Handles, NEW req \in Requests, realloc(h, req) PROVE Goal
    <2>1. Idle
      BY <1>6 DEF realloc
    <2>2. CASE /\ held' = [held EXCEPT ![h] = NoRegion]
               /\ UNCHANGED <<heapVars, hostVars, phase, call, scan, end_free_heap, status>>
      BY <1>4, <2>1, <2>2
    <2>3. CASE BeginMalloc("realloc", h, req, 0)
      BY <1>2, <2>3
    <2>4. ASSUME NEW i, req # 0, ReallocInHeap(h, req, i) PROVE Goal
      <3>1. \/ \E orig : BeginMalloc("realloc", h, req, orig)
            \/ \E mem, offset : InPlace(h, req, mem, i, offset)
        BY <2>4 DEF ReallocInHeap
      <3> QED
        BY <1>2, <1>5, <2>1, <2>4, <3>1
    <2> QED
      BY <1>6, <2>2, <2>3, <2>4 DEF realloc
  <1>7. ASSUME NEW h \in Handles, NEW req \in Requests, malloc(h, req) \/ calloc(h, req) PROVE Goal
    BY <1>2, <1>7 DEF malloc, calloc
  <1>8. ASSUME NEW h \in Handles, free(h) PROVE Goal
    BY <1>4, <1>8 DEF free
  <1>9. ASSUME NEW n \in ForeignRequests, ForeignSbrk(n) PROVE Goal
    BY <1>9, Stutters DEF ForeignSbrk
  <1>10. ASSUME BumpHit PROVE Goal
    <2>1. status = "running" /\ phase # "idle"
      BY <1>10 DEF BumpHit, Bumping
    <2>2. (\E mem, p : Return(mem, p)) \/ Stop("trap")
      BY <1>10 DEF BumpHit
    <2> QED
      BY <1>3, <2>1, <2>2, Returns
  <1>11. ASSUME ExpandHeap \/ SbrkFails PROVE Goal
    BY <1>11, Stutters DEF ExpandHeap, SbrkFails
  <1>12. ASSUME NextHeap PROVE Goal
    <2>1. status = "running"
      BY <1>12 DEF NextHeap, BumpMiss, Bumping
    <2>2. (held' = held /\ status' = status) \/ Stop("trap") \/ Stop("slot overrun")
      BY <1>12 DEF NextHeap
    <2> QED
      BY <1>3, <2>1, <2>2, Stutters
  <1>13. ASSUME SearchFreed PROVE Goal
    <2>1. status = "running" /\ phase # "idle"
      BY <1>13 DEF SearchFreed, Scanning
    <2>2. Stop("check failed") \/ ReuseFreed \/ ScanOn \/ ScanNextHeap
      BY <1>13 DEF SearchFreed
    <2>3. CASE ReuseFreed
      BY <2>1, <2>3, Returns DEF ReuseFreed
    <2>4. CASE ScanOn
      BY <2>4, Stutters DEF ScanOn
    <2>5. CASE ScanNextHeap
      <3>1. (held' = held /\ status' = status) \/ ReturnNull(Merged)
        BY <2>5 DEF ScanNextHeap
      <3>2. ASSUME ReturnNull(Merged) PROVE Goal
        <4>1. held' = held /\ status' \in {status, "null write"}
          BY <3>2 DEF ReturnNull
        <4> QED
          BY <2>1, <4>1, Stutters, Stops
      <3> QED
        BY <3>1, <3>2, Stutters
    <2> QED
      BY <1>3, <2>1, <2>2, <2>3, <2>4, <2>5
  <1> HIDE DEF Goal
  <1>14. ASSUME Next PROVE Goal
    BY <1>6, <1>7, <1>8, <1>9, <1>10, <1>11, <1>12, <1>13, <1>14 DEF Next, CallStep
  <1> QED
    BY <1>1, <1>14 DEF Goal

(* memory_manager implements the abstract allocator: whatever malloc,        *)
(* calloc, free and realloc do inside, what the client sees is regions that  *)
(* are acquired, released and exchanged and never overlap, until the         *)
(* contract is stopped.                                                      *)
THEOREM ImplementsAllocator ==
    ASSUME NoGrow
    PROVE  Spec => AllocatorSpec
  <1>1. Init => Promise!Init
    <2> SUFFICES ASSUME Init PROVE Promise!Init
      OBVIOUS
    <2>1. {held[h] : h \in Handles} \ {NoRegion} = {} /\ (status # "running") = FALSE
      BY DEF Init
    <2> QED
      BY <2>1 DEF Promise!Init
  <1>2. IInv /\ IInv' /\ [Next]_vars => [Promise!Next]_Promise!vars
    BY ImplementsStep
  <1> QED
    BY <1>1, <1>2, Invariance, PTL DEF Spec, AllocatorSpec, Promise!Spec

-----------------------------------------------------------------------------
(* How many heaps there are.  This part holds for every client.              *)

(* Multiples of the block size: what keeps the break where a heap ends      *)
Multiple(n) == \E k \in Int : n = MemBlock * k

LEMMA MultipleMod ==
    ASSUME NEW n \in Int, Multiple(n)
    PROVE  n % MemBlock = 0
  <1>1. PICK M \in Nat \ {0} : M = MemBlock
    BY Constants
  <1>2. PICK k \in Int : n = M * k
    BY <1>1 DEF Multiple
  <1>3. PICK q, r : q = n \div M /\ r = n % M
    OBVIOUS
  <1>4. n = M * q + r /\ r \in 0 .. (M - 1) /\ q \in Int
    BY <1>3, EuclideanDivision, ModRange
  <1>5. PICK d \in Int : d = k - q
    BY <1>4
  <1>6. M * d = M * k - M * q /\ M * k \in Int /\ M * q \in Int /\ M * d \in Int
    BY <1>4, <1>5
  <1>7. r = M * d
    BY <1>2, <1>4, <1>6
  <1>8. ~(d >= 1)
    <2> SUFFICES ASSUME 1 <= d PROVE FALSE
      OBVIOUS
    <2>1. M * 1 <= M * d
      BY TimesMonotone
    <2> QED
      BY <1>4, <1>6, <1>7, <2>1
  <1>9. ~(d <= -1)
    <2> SUFFICES ASSUME d <= -1 PROVE FALSE
      OBVIOUS
    <2>1. M * d <= M * (-1)
      BY TimesMonotone
    <2> QED
      BY <1>4, <1>6, <1>7, <2>1
  <1>10. d = 0
    BY <1>8, <1>9
  <1> QED
    BY <1>1, <1>3, <1>7, <1>10

LEMMA MultipleSums ==
    ASSUME NEW m \in Int, NEW n \in Int, Multiple(m), Multiple(n), NEW k \in Int
    PROVE  Multiple(m + n) /\ Multiple(m - n) /\ Multiple(k * m)
  <1>1. PICK M \in Int : M = MemBlock
    BY Constants
  <1>2. PICK a \in Int, b \in Int : m = M * a /\ n = M * b
    BY <1>1 DEF Multiple
  <1>3. m + n = M * (a + b) /\ m - n = M * (a - b) /\ k * m = M * (k * a)
    BY <1>2
  <1>4. a + b \in Int /\ a - b \in Int /\ k * a \in Int
    OBVIOUS
  <1> QED
    BY <1>1, <1>3, <1>4 DEF Multiple

LEMMA MultipleOfBlock ==
    ASSUME NEW n \in Int, n % MemBlock = 0
    PROVE  Multiple(n)
  <1>1. n = MemBlock * (n \div MemBlock) + (n % MemBlock) /\ n \div MemBlock \in Int
    BY Constants, EuclideanDivision
  <1>2. PICK M \in Int, q \in Int : M = MemBlock /\ q = n \div MemBlock /\ n = M * q + 0
    BY <1>1, Constants
  <1>3. n = M * q
    BY <1>2
  <1> QED
    BY <1>2, <1>3 DEF Multiple

(* Pages are whole blocks, so sbrk is asked for whole blocks. *)
LEMMA AdjIsBlocks ==
    ASSUME Host, Multiple(brk)
    PROVE  RoundToBlock(heap_adj) = heap_adj /\ Multiple(heap_adj)
  <1>1. PICK P \in Nat \ {0} : P = PageWords
    BY Constants
  <1>2. Multiple(P)
    BY <1>1, MultipleOfBlock, LayoutAssumption
  <1>3. PICK b \in Nat : b = brk
    BY BrkFacts
  <1>4. ASSUME NEW D \in Nat \ {0}, Multiple(D) PROVE Multiple(D - (b % D)) /\ b % D \in Int
    <2>1. PICK q, r : q = b \div D /\ r = b % D
      OBVIOUS
    <2>2. b = D * q + r /\ r \in 0 .. (D - 1) /\ q \in Int
      BY <2>1, EuclideanDivision, ModRange
    <2>3. D * q = q * D /\ q * D \in Int
      BY <2>2
    <2>4. r = b - q * D
      BY <2>2, <2>3
    <2>5. Multiple(q * D)
      BY <1>4, <2>2, MultipleSums
    <2>6. Multiple(b - q * D)
      BY <1>3, <2>3, <2>5, MultipleSums
    <2>7. Multiple(D - r)
      BY <1>4, <2>2, <2>4, <2>6, MultipleSums
    <2> QED
      BY <2>1, <2>2, <2>7
  <1>5. 2 * P \in Nat \ {0} /\ Multiple(2 * P)
    BY <1>2, MultipleSums
  <1>6. Multiple(P - (b % P)) /\ Multiple(2 * P - (b % (2 * P)))
    <2>1. Multiple(P - (b % P))
      BY <1>2, <1>4
    <2>2. PICK D : D = 2 * P
      OBVIOUS
    <2>3. Multiple(D - (b % D))
      BY <1>4, <1>5, <2>2
    <2> QED
      BY <2>1, <2>2, <2>3
  <1>7. Multiple(heap_adj)
    BY <1>1, <1>3, <1>6 DEF heap_adj
  <1>8. PICK n \in Nat : n = heap_adj
    BY HeapAdj
  <1>9. Multiple(0 - n) /\ 0 - n = -n
    <2>1. Multiple(0)
      BY Constants DEF Multiple
    <2> QED
      BY <1>7, <1>8, <2>1, MultipleSums
  <1>10. (-n) % MemBlock = 0
    BY <1>9, MultipleMod
  <1> QED
    BY <1>7, <1>8, <1>10 DEF RoundToBlock

(* hps2 has the heaps of hps, whatever their offsets. *)
SameSpans(hps2, hps) ==
    hps2 = [i \in Slots |-> [base |-> hps[i].base, size |-> hps[i].size, offset |-> hps2[i].offset]]

(* What SameSpans says, slot by slot                                        *)
LEMMA SpansFacts ==
    ASSUME NEW hps, NEW hps2, SameSpans(hps2, hps)
    PROVE  /\ \A i \in Slots : hps2[i].base = hps[i].base /\ hps2[i].size = hps[i].size
           /\ SameSpans(hps2, hps2)
  <1>1. ASSUME NEW i \in Slots
        PROVE  /\ hps2[i].base = hps[i].base /\ hps2[i].size = hps[i].size
               /\ hps2[i] = [base |-> hps2[i].base, size |-> hps2[i].size, offset |-> hps2[i].offset]
    <2>1. PICK x : x = hps2[i].offset
      OBVIOUS
    <2>2. hps2[i] = [base |-> hps[i].base, size |-> hps[i].size, offset |-> x]
      BY <2>1 DEF SameSpans
    <2> QED
      BY <2>2
  <1>2. hps2 = [i \in Slots |-> hps2[i]]
    BY DEF SameSpans
  <1> QED
    BY <1>1, <1>2 DEF SameSpans

(* The first heap ends before the break, and the second one at the break.    *)
TwoHeaps ==
    /\ Host /\ Multiple(brk)
    /\ SameSpans(heaps, heaps)
    /\ heaps_actual_size \in 0..HeapSlots /\ active_heap \in 0..heaps_actual_size
    /\ heaps_actual_size = 0 => heaps[0].base = Null
    /\ heaps_actual_size > 0 =>
          heaps[0].base = InitialHeapBase /\ heaps[0].size = InitialHeapWords
    /\ phase = "bump" => active_heap < heaps_actual_size
    /\ active_heap < heaps_actual_size => active_heap <= 1 /\ heaps_actual_size = HeapSlots
    /\ active_heap = 1 /\ 1 < heaps_actual_size =>
          heaps[1].base \in Nat /\ heaps[1].size \in Nat /\ HeapEnd(1) = brk
    /\ \A i \in Slots : i >= 2 => heaps[i].base = Null
    /\ status # "slot overrun"

(* Other callers of sbrk move the break: then nothing is claimed.           *)
SInv == foreign = {} => TwoHeaps

LEMMA FirstSlots ==
    ASSUME NEW n \in 0..HeapSlots
    PROVE  0 \in Slots /\ (1 < n => 1 \in Slots)
  BY Constants DEF Slots

(* Steps that leave the heaps and the break alone, offsets excepted *)
LEMMA TwoHeapsKept ==
    ASSUME TwoHeaps, UNCHANGED hostVars,
           heaps_actual_size' = heaps_actual_size, active_heap' = active_heap,
           SameSpans(heaps', heaps),
           phase' = "bump" => phase = "bump",
           status' # "slot overrun"
    PROVE  TwoHeaps'
  <1>1. Host /\ Host' /\ brk' = brk
    BY HostKept DEF TwoHeaps
  <1>2. Multiple(brk)'
    BY <1>1 DEF TwoHeaps, Multiple
  <1>a. PICK hps2 : hps2 = heaps'
    OBVIOUS
  <1>b. SameSpans(hps2, heaps)
    BY <1>a
  <1>c. /\ \A i \in Slots : hps2[i].base = heaps[i].base /\ hps2[i].size = heaps[i].size
        /\ SameSpans(hps2, hps2)
    BY <1>b, SpansFacts
  <1>3. \A i \in Slots : heaps'[i].base = heaps[i].base /\ heaps'[i].size = heaps[i].size
    BY <1>a, <1>c
  <1>4. SameSpans(heaps', heaps')
    BY <1>a, <1>c
  <1>5. 0 \in Slots /\ (1 < heaps_actual_size => 1 \in Slots)
    BY FirstSlots DEF TwoHeaps
  <1>6. HeapEnd(1)' = heaps'[1].base + heaps'[1].size /\ HeapEnd(1) = heaps[1].base + heaps[1].size
    BY DEF HeapEnd
  <1>7. /\ heaps_actual_size' \in 0..HeapSlots /\ active_heap' \in 0..heaps_actual_size'
        /\ heaps_actual_size' = 0 => heaps'[0].base = Null
        /\ heaps_actual_size' > 0 =>
              heaps'[0].base = InitialHeapBase /\ heaps'[0].size = InitialHeapWords
        /\ phase' = "bump" => active_heap' < heaps_actual_size'
        /\ active_heap' < heaps_actual_size' => active_heap' <= 1 /\ heaps_actual_size' = HeapSlots
        /\ \A i \in Slots : i >= 2 => heaps'[i].base = Null
    BY <1>3, <1>5 DEF TwoHeaps
  <1>8. active_heap' = 1 /\ 1 < heaps_actual_size' =>
          heaps'[1].base \in Nat /\ heaps'[1].size \in Nat /\ HeapEnd(1)' = brk'
    BY <1>1, <1>3, <1>5, <1>6 DEF TwoHeaps
  <1> QED
    BY <1>1, <1>2, <1>4, <1>7, <1>8 DEF TwoHeaps

(* An offset is no part of the span of a heap.                              *)
LEMMA OffsetOnly ==
    ASSUME NEW hps, SameSpans(hps, hps), NEW i, NEW x, NEW hps2, hps2 = [hps EXCEPT ![i].offset = x]
    PROVE  SameSpans(hps2, hps)
  <1>1. hps = [k \in Slots |-> hps[k]]
    BY DEF SameSpans
  <1>2. ASSUME NEW k \in Slots
        PROVE  hps2[k] = [base |-> hps[k].base, size |-> hps[k].size, offset |-> hps2[k].offset]
    <2>1. hps[k] = [base |-> hps[k].base, size |-> hps[k].size, offset |-> hps[k].offset]
      BY DEF SameSpans
    <2>2. hps2[k] = IF k = i THEN [hps[k] EXCEPT !.offset = x] ELSE hps[k]
      BY <1>1
    <2>3. PICK b, s, o : hps[k] = [base |-> b, size |-> s, offset |-> o]
      BY <2>1
    <2> QED
      BY <2>2, <2>3
  <1>3. hps2 = [k \in Slots |-> hps2[k]]
    BY <1>1
  <1> QED
    BY <1>2, <1>3 DEF SameSpans

(* BeginMalloc sets up the first heap *)
LEMMA TwoHeapsBegin ==
    ASSUME TwoHeaps, status = "running", NEW op, NEW h, NEW req, NEW orig, BeginMalloc(op, h, req, orig)
    PROVE  TwoHeaps'
  <1>1. /\ UNCHANGED hostVars /\ active_heap' = active_heap /\ status' = status
        /\ heaps_actual_size' = IF heaps_actual_size = 0 THEN HeapSlots ELSE heaps_actual_size
        /\ phase' = "bump" => active_heap' < heaps_actual_size'
    BY DEF BeginMalloc
  <1>2. 0 \in Slots /\ HeapSlots \in Nat \ {0} /\ InitialHeapBase # Null
    BY Constants DEF Slots, Null
  <1>3. CASE heaps_actual_size = 0
    <2>1. active_heap = 0 /\ heaps[0].base = Null /\ heaps_actual_size' = HeapSlots
      BY <1>1, <1>3 DEF TwoHeaps
    <2>2. heaps' = [heaps EXCEPT ![0].base = InitialHeapBase, ![0].size = InitialHeapWords]
      BY <2>1 DEF BeginMalloc, is_init
    <2>3. PICK hps, hps2, b, s, o :
             /\ hps = heaps /\ hps2 = heaps' /\ hps = [k \in Slots |-> hps[k]]
             /\ hps[0] = [base |-> b, size |-> s, offset |-> o]
      <3>1. SameSpans(heaps, heaps)
        BY DEF TwoHeaps
      <3>2. heaps = [k \in Slots |-> heaps[k]]
        BY <3>1 DEF SameSpans
      <3>3. heaps[0] = [base |-> heaps[0].base, size |-> heaps[0].size, offset |-> heaps[0].offset]
        BY <1>2, <3>1 DEF SameSpans
      <3> QED
        BY <3>2, <3>3
    <2>4. hps2 = [hps EXCEPT ![0].base = InitialHeapBase, ![0].size = InitialHeapWords]
      BY <2>2, <2>3
    <2>5. /\ hps2[0] = [base |-> InitialHeapBase, size |-> InitialHeapWords, offset |-> o]
          /\ \A k \in Slots : k # 0 => hps2[k] = hps[k]
          /\ hps2 = [k \in Slots |-> hps2[k]]
      <3>1. PICK hps1 : hps1 = [hps EXCEPT ![0].base = InitialHeapBase]
        OBVIOUS
      <3>2. /\ hps1[0] = [base |-> InitialHeapBase, size |-> s, offset |-> o]
            /\ \A k \in Slots : k # 0 => hps1[k] = hps[k]
            /\ hps1 = [k \in Slots |-> hps1[k]]
        <4>1. hps1[0] = [hps[0] EXCEPT !.base = InitialHeapBase]
          BY <1>2, <2>3, <3>1
        <4>2. \A k \in Slots : k # 0 => hps1[k] = hps[k]
          BY <2>3, <3>1
        <4>3. hps1 = [k \in Slots |-> hps1[k]]
          BY <2>3, <3>1
        <4> QED
          BY <2>3, <4>1, <4>2, <4>3
      <3>3. hps2 = [hps1 EXCEPT ![0].size = InitialHeapWords]
        BY <2>4, <3>1
      <3>4. hps2[0] = [hps1[0] EXCEPT !.size = InitialHeapWords]
        BY <1>2, <3>2, <3>3
      <3>5. \A k \in Slots : k # 0 => hps2[k] = hps1[k]
        BY <3>2, <3>3
      <3>6. hps2 = [k \in Slots |-> hps2[k]]
        BY <3>2, <3>3
      <3> QED
        BY <3>2, <3>4, <3>5, <3>6
    <2>6. SameSpans(heaps', heaps')
      <3>1. ASSUME NEW k \in Slots
            PROVE  hps2[k] = [base |-> hps2[k].base, size |-> hps2[k].size, offset |-> hps2[k].offset]
        <4>1. CASE k = 0
          BY <2>5, <4>1
        <4>2. CASE k # 0
          <5>1. hps[k] = [base |-> hps[k].base, size |-> hps[k].size, offset |-> hps[k].offset]
            BY <2>3 DEF TwoHeaps, SameSpans
          <5> QED
            BY <2>5, <4>2, <5>1
        <4> QED
          BY <4>1, <4>2
      <3> QED
        BY <2>3, <2>5, <3>1 DEF SameSpans
    <2>7. Host' /\ Multiple(brk)'
      BY <1>1, HostKept DEF TwoHeaps, Multiple
    <2>8. /\ heaps'[0].base = InitialHeapBase /\ heaps'[0].size = InitialHeapWords
          /\ \A k \in Slots : k >= 2 => heaps'[k].base = Null
      <3>1. \A k \in Slots : k >= 2 => k # 0
        BY Constants DEF Slots
      <3> QED
        BY <2>3, <2>5, <3>1 DEF TwoHeaps
    <2>9. /\ heaps_actual_size' \in 0..HeapSlots /\ active_heap' \in 0..heaps_actual_size'
          /\ active_heap' = 0 /\ heaps_actual_size' # 0 /\ heaps_actual_size' = HeapSlots
      BY <1>1, <1>2, <2>1
    <2> QED
      BY <1>1, <2>6, <2>7, <2>8, <2>9 DEF TwoHeaps
  <1>4. CASE heaps_actual_size # 0
    <2>1. heaps_actual_size' = heaps_actual_size /\ heaps[0].base = InitialHeapBase
      BY <1>1, <1>4, Constants DEF TwoHeaps
    <2>2. heaps' = heaps
      BY <1>2, <2>1 DEF BeginMalloc, is_init
    <2>3. Host' /\ brk' = brk /\ Multiple(brk)'
      BY <1>1, HostKept DEF TwoHeaps, Multiple
    <2>4. HeapEnd(1)' = HeapEnd(1)
      BY <2>2 DEF HeapEnd
    <2> QED
      BY <1>1, <2>1, <2>2, <2>3, <2>4 DEF TwoHeaps
  <1> QED
    BY <1>3, <1>4

(* What sbrk grants starts at the break and ends at the new one.            *)
LEMMA HostGrows ==
    ASSUME TwoHeaps, HostAnswers, foreign' = foreign
    PROVE  /\ Host' /\ Multiple(brk)' /\ brk \in Nat \ {0} /\ brk' \in Nat
           /\ heap_adj \in Nat \ {0}
           /\ SbrkGranted(heap_adj) => brk' = brk + heap_adj
           /\ InitPages * PageWords <= brk
  <1>1. Host /\ Multiple(brk)
    BY DEF TwoHeaps
  <1>2. Host' /\ brk' \in Nat /\ (~SbrkGranted(heap_adj) => brk' = brk)
    BY <1>1, HostStep
  <1>3. brk \in Nat \ {0} /\ heap_adj \in Nat \ {0} /\ InitPages * PageWords <= brk
    BY <1>1, BrkFacts, HeapAdj
  <1>4. RoundToBlock(heap_adj) = heap_adj /\ Multiple(heap_adj)
    BY <1>1, AdjIsBlocks
  <1>5. SbrkGranted(heap_adj) => brk' = brk + heap_adj
    <2> HAVE SbrkGranted(heap_adj)
    <2>1. PICK n \in Nat : n = heap_adj /\ n > 0
      BY <1>3
    <2>2. SbrkGranted(n) /\ Sbrk(n)
      BY <2>1 DEF HostAnswers
    <2>3. brk' = brk + RoundToBlock(n)
      BY <1>1, <2>1, <2>2, SbrkStep
    <2> QED
      BY <1>4, <2>1, <2>3
  <1>6. Multiple(brk')
    <2>1. CASE SbrkGranted(heap_adj)
      <3>1. PICK b \in Int, n \in Int : b = brk /\ n = heap_adj /\ brk' = b + n
        BY <1>3, <1>5, <2>1
      <3>2. Multiple(b + n)
        BY <1>1, <1>4, <3>1, MultipleSums
      <3> QED
        BY <3>1, <3>2
    <2>2. CASE ~SbrkGranted(heap_adj)
      BY <1>1, <1>2, <2>2
    <2> QED
      BY <2>1, <2>2
  <1> QED
    BY <1>2, <1>3, <1>5, <1>6 DEF Multiple

(* Where the active heap ends while it is being used *)
LEMMA ActiveEnds ==
    ASSUME TwoHeaps, Bumping
    PROVE  /\ active_heap \in {0, 1} /\ active_heap < heaps_actual_size
           /\ heaps_actual_size \in 1..HeapSlots
           /\ active_heap = 0 => HeapEnd(0) \in Nat /\ HeapEnd(0) < brk
           /\ active_heap = 1 => /\ heaps[1].base \in Nat /\ heaps[1].size \in Nat
                                 /\ HeapEnd(1) = brk /\ 1 \in Slots
           /\ heaps[0].base = InitialHeapBase /\ heaps[0].size = InitialHeapWords
  <1>1. Host /\ active_heap < heaps_actual_size /\ active_heap <= 1
        /\ heaps_actual_size \in 0..HeapSlots /\ active_heap \in 0..heaps_actual_size
    BY DEF TwoHeaps, Bumping
  <1>2. active_heap \in {0, 1} /\ heaps_actual_size > 0 /\ heaps_actual_size \in 1..HeapSlots
    BY <1>1, Constants
  <1>3. heaps[0].base = InitialHeapBase /\ heaps[0].size = InitialHeapWords
    BY <1>2 DEF TwoHeaps
  <1>4. HeapEnd(0) \in Nat /\ HeapEnd(0) < brk
    <2>1. PICK x \in Nat : x = InitialHeapBase + InitialHeapWords
      BY Constants
    <2>2. PICK u \in Nat, b \in Nat : u = InitPages * PageWords /\ b = brk /\ u <= b /\ x < u
      BY <1>1, <2>1, Constants, BrkFacts
    <2>3. HeapEnd(0) = x
      BY <1>3, <2>1 DEF HeapEnd
    <2> QED
      BY <2>2, <2>3
  <1>5. active_heap = 1 => heaps[1].base \in Nat /\ heaps[1].size \in Nat /\ HeapEnd(1) = brk
    BY <1>1 DEF TwoHeaps
  <1>6. active_heap = 1 => 1 \in Slots
    BY <1>1, FirstSlots
  <1> QED
    BY <1>1, <1>2, <1>3, <1>4, <1>5, <1>6

(* One lemma for each outcome of next_active_heap                           *)
LEMMA TwoHeapsExpand ==
    ASSUME TwoHeaps, ExpandHeap
    PROVE  TwoHeaps'
  <1>1. /\ Bumping /\ HeapEnd(active_heap) = new_memory_start /\ HostAnswers /\ foreign' = foreign
        /\ heaps' = [heaps EXCEPT ![active_heap].size = @ + heap_adj]
        /\ heaps_actual_size' = heaps_actual_size /\ active_heap' = active_heap
        /\ phase' = phase /\ status' = status
    BY DEF ExpandHeap, BumpMiss
  <1>2. /\ Host' /\ Multiple(brk)' /\ brk \in Nat \ {0} /\ heap_adj \in Nat \ {0}
        /\ SbrkGranted(heap_adj) => brk' = brk + heap_adj
    BY <1>1, HostGrows
  <1>3. new_memory_start = brk \/ new_memory_start = -1
    BY DEF new_memory_start, NoMem
  <1>4. active_heap = 1 /\ heaps[1].base \in Nat /\ heaps[1].size \in Nat /\ HeapEnd(1) = brk /\ 1 \in Slots
    BY <1>1, <1>2, <1>3, ActiveEnds
  <1>5. SbrkGranted(heap_adj)
    BY <1>1, <1>2, <1>4 DEF new_memory_start, NoMem
  <1>6. PICK hps, hps2, b, s, o, n :
            /\ hps = heaps /\ hps2 = heaps' /\ n = heap_adj /\ b = heaps[1].base /\ s = heaps[1].size
            /\ hps = [k \in Slots |-> hps[k]] /\ hps[1] = [base |-> b, size |-> s, offset |-> o]
    <2>1. SameSpans(heaps, heaps)
      BY DEF TwoHeaps
    <2>2. heaps = [k \in Slots |-> heaps[k]]
      BY <2>1 DEF SameSpans
    <2>3. heaps[1] = [base |-> heaps[1].base, size |-> heaps[1].size, offset |-> heaps[1].offset]
      BY <1>4, <2>1 DEF SameSpans
    <2> QED
      BY <2>2, <2>3
  <1>7. hps2 = [hps EXCEPT ![1].size = @ + n]
    BY <1>1, <1>4, <1>6
  <1>8. hps2[1] = [hps[1] EXCEPT !.size = hps[1].size + n]
    BY <1>4, <1>6, <1>7
  <1>9. hps2[1] = [base |-> b, size |-> s + n, offset |-> o]
    <2>1. hps[1] = [base |-> b, size |-> s, offset |-> o]
      BY <1>6
    <2>2. hps[1].size = s
      BY <2>1
    <2>3. PICK y : y = s + n
      OBVIOUS
    <2>4. hps2[1] = [hps[1] EXCEPT !.size = y]
      BY <1>8, <2>2, <2>3
    <2>5. hps2[1] = [base |-> b, size |-> y, offset |-> o]
      BY <2>1, <2>4
    <2> QED
      BY <2>3, <2>5
  <1>10. (\A k \in Slots : k # 1 => hps2[k] = hps[k]) /\ hps2 = [k \in Slots |-> hps2[k]]
    BY <1>6, <1>7
  <1>11. SameSpans(hps2, hps2)
    <2>1. ASSUME NEW k \in Slots
          PROVE  hps2[k] = [base |-> hps2[k].base, size |-> hps2[k].size, offset |-> hps2[k].offset]
      <3>1. CASE k = 1
        BY <1>9, <3>1
      <3>2. CASE k # 1
        <4>1. hps[k] = [base |-> hps[k].base, size |-> hps[k].size, offset |-> hps[k].offset]
          BY <1>6 DEF TwoHeaps, SameSpans
        <4> QED
          BY <1>10, <3>2, <4>1
      <3> QED
        BY <3>1, <3>2
    <2> QED
      BY <1>10, <2>1 DEF SameSpans
  <1>12. SameSpans(heaps', heaps')
    BY <1>6, <1>11
  <1>13. heaps'[1].base = b /\ heaps'[1].size = s + n /\ b \in Nat /\ s \in Nat /\ n \in Nat
    BY <1>2, <1>4, <1>6, <1>9
  <1>14. HeapEnd(1)' = brk'
    <2>1. HeapEnd(1)' = b + (s + n) /\ b + s = brk /\ brk' = brk + n
      <3>1. HeapEnd(1)' = heaps'[1].base + heaps'[1].size /\ HeapEnd(1) = heaps[1].base + heaps[1].size
        BY DEF HeapEnd
      <3> QED
        BY <1>2, <1>4, <1>5, <1>6, <1>13, <3>1
    <2> QED
      BY <1>2, <1>13, <2>1
  <1>15. \A k \in Slots : k # 1 => heaps'[k] = heaps[k]
    BY <1>6, <1>10
  <1>16. /\ heaps'[0] = heaps[0]
         /\ \A k \in Slots : k >= 2 => heaps'[k].base = Null
    <2>1. 0 \in Slots /\ 0 # 1 /\ \A k \in Slots : k >= 2 => k # 1
      BY Constants DEF Slots
    <2>2. \A k \in Slots : k >= 2 => heaps[k].base = Null
      BY DEF TwoHeaps
    <2> QED
      BY <1>15, <2>1, <2>2
  <1>17. s + n \in Nat
    BY <1>13
  <1> QED
    BY <1>1, <1>2, <1>12, <1>13, <1>14, <1>16, <1>17 DEF TwoHeaps

LEMMA TwoHeapsFail ==
    ASSUME TwoHeaps, SbrkFails
    PROVE  TwoHeaps'
  <1>1. /\ Bumping /\ HostAnswers /\ foreign' = foreign /\ phase' = "freed" /\ status' = status
        /\ heaps' = [heaps EXCEPT ![active_heap].offset = heaps[active_heap].size]
        /\ active_heap' = active_heap + 1 /\ heaps_actual_size' = active_heap + 1
    BY DEF SbrkFails, BumpMiss
  <1>2. Host' /\ Multiple(brk)'
    BY <1>1, HostGrows
  <1>3. /\ active_heap \in {0, 1} /\ active_heap < heaps_actual_size /\ heaps_actual_size \in 1..HeapSlots
        /\ heaps[0].base = InitialHeapBase /\ heaps[0].size = InitialHeapWords
    BY <1>1, ActiveEnds
  <1>4. PICK hps, hps2, i, x : hps = heaps /\ hps2 = heaps' /\ i = active_heap /\ x = heaps[active_heap].size
    OBVIOUS
  <1>5. SameSpans(hps2, hps)
    BY <1>1, <1>4, OffsetOnly DEF TwoHeaps
  <1>6. /\ \A k \in Slots : heaps'[k].base = heaps[k].base /\ heaps'[k].size = heaps[k].size
        /\ SameSpans(heaps', heaps')
    BY <1>4, <1>5, SpansFacts
  <1>7. /\ heaps_actual_size' \in 0..HeapSlots /\ active_heap' \in 0..heaps_actual_size'
        /\ heaps_actual_size' # 0 /\ ~(active_heap' < heaps_actual_size')
        /\ ~(active_heap' = 1 /\ 1 < heaps_actual_size')
    BY <1>1, <1>3, Constants
  <1>8. heaps'[0].base = InitialHeapBase /\ heaps'[0].size = InitialHeapWords
    BY <1>3, <1>6, Constants DEF Slots
  <1>9. \A k \in Slots : k >= 2 => heaps'[k].base = Null
    BY <1>6 DEF TwoHeaps
  <1>10. phase' # "bump" /\ status' # "slot overrun"
    BY <1>1 DEF TwoHeaps
  <1> QED
    BY <1>2, <1>6, <1>7, <1>8, <1>9, <1>10 DEF TwoHeaps

LEMMA TwoHeapsStop ==
    ASSUME TwoHeaps, NEW how, how # "slot overrun", Stop(how)
    PROVE  TwoHeaps'
  <1>1. /\ UNCHANGED hostVars /\ heaps' = heaps /\ heaps_actual_size' = heaps_actual_size
        /\ active_heap' = active_heap /\ phase' = "idle" /\ status' = how
    BY DEF Stop, heapVars
  <1>2. SameSpans(heaps', heaps)
    BY <1>1 DEF TwoHeaps
  <1> QED
    BY <1>1, <1>2, TwoHeapsKept

LEMMA TwoHeapsNext ==
    ASSUME SeesSbrkFailure, HeapSlots > 1, TwoHeaps, NextHeap
    PROVE  TwoHeaps'
  <1>1. Bumping /\ new_memory_start # NoMem /\ HeapEnd(active_heap) # new_memory_start
    BY DEF NextHeap, BumpMiss
  <1>2. SbrkGranted(heap_adj) /\ new_memory_start = brk
    BY <1>1 DEF new_memory_start
  <1>3. /\ active_heap \in {0, 1} /\ active_heap < heaps_actual_size /\ heaps_actual_size \in 1..HeapSlots
        /\ active_heap = 1 => HeapEnd(1) = brk
        /\ heaps[0].base = InitialHeapBase /\ heaps[0].size = InitialHeapWords
    BY <1>1, ActiveEnds
  <1>4. active_heap = 0
    BY <1>1, <1>2, <1>3
  <1>5. 0 \in Slots /\ 1 \in Slots /\ 0 # 1 /\ ~(0 + 1 >= HeapSlots) /\ 0 + 1 = 1
    BY Constants DEF Slots
  <1>6. CASE Stop("trap")
    BY <1>6, TwoHeapsStop
  <1>7. CASE ~Stop("trap")
    <2>1. /\ HostAnswers /\ foreign' = foreign
          /\ heaps' = [heaps EXCEPT ![0].offset = heaps[0].size,
                                    ![1].base = brk, ![1].size = heap_adj]
          /\ active_heap' = 1 /\ heaps_actual_size' = heaps_actual_size
          /\ phase' = phase /\ status' = status
      BY <1>2, <1>4, <1>5, <1>7 DEF NextHeap
    <2>2. /\ Host' /\ Multiple(brk)' /\ brk \in Nat \ {0} /\ heap_adj \in Nat \ {0}
          /\ brk' = brk + heap_adj
      BY <1>2, <2>1, HostGrows
    <2>3. PICK hps, hps1, hps2, n, b, x :
             /\ hps = heaps /\ hps2 = heaps' /\ n = heap_adj /\ b = brk /\ x = heaps[0].size
             /\ hps1 = [hps EXCEPT ![0].offset = x]
      OBVIOUS
    <2>4. SameSpans(hps, hps) /\ SameSpans(hps1, hps)
      BY <2>3, OffsetOnly DEF TwoHeaps
    <2>5. /\ \A k \in Slots : hps1[k].base = hps[k].base /\ hps1[k].size = hps[k].size
          /\ SameSpans(hps1, hps1)
      BY <2>4, SpansFacts
    <2>6. hps1 = [k \in Slots |-> hps1[k]]
      BY <2>5 DEF SameSpans
    <2>7. hps2 = [hps1 EXCEPT ![1].base = b, ![1].size = n]
      BY <2>1, <2>3
    <2>8. PICK c, s, o : hps1[1] = [base |-> c, size |-> s, offset |-> o]
      <3>1. hps1[1] = [base |-> hps1[1].base, size |-> hps1[1].size, offset |-> hps1[1].offset]
        BY <1>5, <2>5 DEF SameSpans
      <3> QED
        BY <3>1
    <2>9. PICK hps3 : hps3 = [hps1 EXCEPT ![1].base = b]
      OBVIOUS
    <2>10. /\ hps3[1] = [base |-> b, size |-> s, offset |-> o]
           /\ \A k \in Slots : k # 1 => hps3[k] = hps1[k]
           /\ hps3 = [k \in Slots |-> hps3[k]]
      <3>1. hps3[1] = [hps1[1] EXCEPT !.base = b]
        BY <1>5, <2>6, <2>9
      <3>2. \A k \in Slots : k # 1 => hps3[k] = hps1[k]
        BY <2>6, <2>9
      <3>3. hps3 = [k \in Slots |-> hps3[k]]
        BY <2>6, <2>9
      <3> QED
        BY <2>8, <3>1, <3>2, <3>3
    <2>11. hps2 = [hps3 EXCEPT ![1].size = n]
      BY <2>7, <2>9
    <2>12. /\ hps2[1] = [base |-> b, size |-> n, offset |-> o]
           /\ \A k \in Slots : k # 1 => hps2[k] = hps1[k]
           /\ hps2 = [k \in Slots |-> hps2[k]]
      <3>1. hps2[1] = [hps3[1] EXCEPT !.size = n]
        BY <1>5, <2>10, <2>11
      <3>2. \A k \in Slots : k # 1 => hps2[k] = hps3[k]
        BY <2>10, <2>11
      <3>3. hps2 = [k \in Slots |-> hps2[k]]
        BY <2>10, <2>11
      <3> QED
        BY <2>10, <3>1, <3>2, <3>3
    <2>13. SameSpans(hps2, hps2)
      <3>1. ASSUME NEW k \in Slots
            PROVE  hps2[k] = [base |-> hps2[k].base, size |-> hps2[k].size, offset |-> hps2[k].offset]
        <4>1. CASE k = 1
          BY <2>12, <4>1
        <4>2. CASE k # 1
          <5>1. hps1[k] = [base |-> hps1[k].base, size |-> hps1[k].size, offset |-> hps1[k].offset]
            BY <2>5 DEF SameSpans
          <5> QED
            BY <2>12, <4>2, <5>1
        <4> QED
          BY <4>1, <4>2
      <3> QED
        BY <2>12, <3>1 DEF SameSpans
    <2>14. SameSpans(heaps', heaps')
      BY <2>3, <2>13
    <2>15. \A k \in Slots : k # 1 => heaps'[k].base = heaps[k].base /\ heaps'[k].size = heaps[k].size
      BY <2>3, <2>5, <2>12
    <2>16. heaps'[1].base = b /\ heaps'[1].size = n /\ b \in Nat /\ n \in Nat
      BY <2>2, <2>3, <2>12
    <2>17. HeapEnd(1)' = brk'
      <3>1. HeapEnd(1)' = heaps'[1].base + heaps'[1].size
        BY DEF HeapEnd
      <3> QED
        BY <2>2, <2>3, <2>16, <3>1
    <2>18. /\ heaps'[0].base = InitialHeapBase /\ heaps'[0].size = InitialHeapWords
           /\ \A k \in Slots : k >= 2 => heaps'[k].base = Null
      <3>1. \A k \in Slots : k >= 2 => k # 1
        BY Constants DEF Slots
      <3>2. \A k \in Slots : k >= 2 => heaps[k].base = Null
        BY DEF TwoHeaps
      <3> QED
        BY <1>3, <1>5, <2>15, <3>1, <3>2
    <2>19. /\ heaps_actual_size' \in 0..HeapSlots /\ heaps_actual_size' # 0
           /\ active_heap' \in 0..heaps_actual_size' /\ active_heap' <= 1
           /\ active_heap' < heaps_actual_size' /\ heaps_actual_size' = HeapSlots
      <3>1. heaps_actual_size = HeapSlots
        BY <1>3 DEF TwoHeaps
      <3> QED
        BY <1>3, <1>5, <2>1, <3>1, Constants
    <2>20. status' # "slot overrun"
      BY <2>1 DEF TwoHeaps
    <2> QED
      BY <2>2, <2>14, <2>16, <2>17, <2>18, <2>19, <2>20 DEF TwoHeaps
  <1> QED
    BY <1>6, <1>7

(* Every step keeps SInv.                                                   *)
LEMMA TwoHeapsStep ==
    ASSUME SeesSbrkFailure, HeapSlots > 1, SInv, [Next]_vars
    PROVE  SInv'
  <1> SUFFICES ASSUME foreign' = {} PROVE TwoHeaps'
    BY DEF SInv
  <1>1. foreign = {}
    <2>1. \A op, h, req, orig : BeginMalloc(op, h, req, orig) => foreign' = foreign
      BY DEF BeginMalloc, hostVars
    <2>2. \A h, req, mem, i, offset : InPlace(h, req, mem, i, offset) => foreign' = foreign
      BY DEF InPlace, hostVars
    <2>3. \A w : Stop(w) => foreign' = foreign
      BY DEF Stop, hostVars
    <2>4. \A h, req : malloc(h, req) \/ calloc(h, req) => foreign' = foreign
      BY <2>1 DEF malloc, calloc
    <2>5. ASSUME NEW h, NEW req, realloc(h, req) PROVE foreign' = foreign
      <3>1. \A i : ReallocInHeap(h, req, i) => foreign' = foreign
        BY <2>1, <2>2 DEF ReallocInHeap
      <3> QED
        BY <2>1, <2>5, <3>1 DEF realloc, hostVars
    <2>6. \A h : free(h) => foreign' = foreign
      BY DEF free, hostVars
    <2>7. \A n : ForeignSbrk(n) => foreign \subseteq foreign'
      BY DEF ForeignSbrk
    <2>8. BumpHit => foreign' = foreign
      BY <2>3 DEF BumpHit, hostVars
    <2>9. ExpandHeap \/ SbrkFails => foreign' = foreign
      BY DEF ExpandHeap, SbrkFails
    <2>10. NextHeap => foreign' = foreign
      BY <2>3 DEF NextHeap
    <2>11. SearchFreed => foreign' = foreign
      BY <2>3 DEF SearchFreed, ReuseFreed, ScanOn, ScanNextHeap, hostVars
    <2>12. UNCHANGED vars => foreign' = foreign
      BY DEF vars, hostVars
    <2> QED
      BY <2>4, <2>5, <2>6, <2>7, <2>8, <2>9, <2>10, <2>11, <2>12 DEF Next, CallStep
  <1>2. TwoHeaps
    BY <1>1 DEF SInv
  <1>3. status # "slot overrun" /\ SameSpans(heaps, heaps)
    BY <1>2 DEF TwoHeaps
  <1>4. ASSUME UNCHANGED <<heaps, heaps_actual_size, active_heap, hostVars>>,
               phase' = "bump" => phase = "bump", status' # "slot overrun"
        PROVE  TwoHeaps'
    <2>1. SameSpans(heaps', heaps)
      BY <1>3, <1>4
    <2> QED
      BY <1>2, <1>4, <2>1, TwoHeapsKept
  <1>5. CASE UNCHANGED vars
    BY <1>3, <1>4, <1>5 DEF vars, heapVars
  <1>6. ASSUME NEW op, NEW h, NEW req, NEW orig, Idle, BeginMalloc(op, h, req, orig) PROVE TwoHeaps'
    BY <1>2, <1>6, TwoHeapsBegin DEF Idle
  <1>7. ASSUME NEW h, NEW req, NEW mem, NEW i, NEW offset, InPlace(h, req, mem, i, offset) PROVE TwoHeaps'
    <2>1. /\ heaps' = [heaps EXCEPT ![i].offset = offset] /\ UNCHANGED hostVars
          /\ heaps_actual_size' = heaps_actual_size /\ active_heap' = active_heap
          /\ phase' = phase /\ status' = status
      BY <1>7 DEF InPlace
    <2>2. PICK hps2 : hps2 = heaps'
      OBVIOUS
    <2>3. SameSpans(hps2, heaps)
      BY <1>3, <2>1, <2>2, OffsetOnly
    <2> QED
      BY <1>2, <1>3, <2>1, <2>2, <2>3, TwoHeapsKept
  <1>8. ASSUME NEW h \in Handles, NEW req \in Requests, malloc(h, req) \/ calloc(h, req) PROVE TwoHeaps'
    BY <1>6, <1>8 DEF malloc, calloc
  <1>9. ASSUME NEW h \in Handles, NEW req \in Requests, realloc(h, req) PROVE TwoHeaps'
    <2>1. Idle
      BY <1>9 DEF realloc
    <2>2. CASE UNCHANGED <<heapVars, hostVars, phase, call, scan, end_free_heap, status>>
      BY <1>3, <1>4, <2>2 DEF heapVars
    <2>3. CASE BeginMalloc("realloc", h, req, 0)
      BY <1>6, <2>1, <2>3
    <2>4. ASSUME NEW i, ReallocInHeap(h, req, i) PROVE TwoHeaps'
      <3>1. \/ \E orig : BeginMalloc("realloc", h, req, orig)
            \/ \E mem, offset : InPlace(h, req, mem, i, offset)
        BY <2>4 DEF ReallocInHeap
      <3> QED
        BY <1>6, <1>7, <2>1, <3>1
    <2> QED
      BY <1>9, <2>2, <2>3, <2>4 DEF realloc
  <1>10. ASSUME NEW h \in Handles, free(h) PROVE TwoHeaps'
    BY <1>3, <1>4, <1>10 DEF free, heapVars
  <1>11. ASSUME NEW n \in ForeignRequests, ForeignSbrk(n) PROVE TwoHeaps'
    <2>1. brk \in Nat
      BY <1>2, BrkFacts DEF TwoHeaps
    <2>2. n \in Nat \ {0}
      BY Constants
    <2>3. PICK b \in Nat : b = brk
      BY <2>1
    <2>4. foreign' = foreign \union (b..(b + n - 1))
      BY <1>11, <2>3 DEF ForeignSbrk
    <2>5. b \in b..(b + n - 1)
      BY <2>2
    <2>6. b \in foreign'
      BY <2>4, <2>5
    <2> QED
      BY <2>6
  <1>12. CASE BumpHit
    <2>1. CASE Stop("trap")
      BY <1>2, <2>1, TwoHeapsStop
    <2>2. CASE ~Stop("trap")
      <3>1. PICK i, x, mem, p :
               /\ heaps' = [heaps EXCEPT ![i].offset = x] /\ UNCHANGED hostVars
               /\ heaps_actual_size' = heaps_actual_size /\ active_heap' = active_heap
               /\ Return(mem, p)
        BY <1>12, <2>2 DEF BumpHit
      <3>2. phase' = "idle" /\ status' = status
        BY <3>1 DEF Return
      <3>3. PICK hps2 : hps2 = heaps'
        OBVIOUS
      <3>4. SameSpans(hps2, heaps)
        BY <1>3, <3>1, <3>3, OffsetOnly
      <3> QED
        BY <1>2, <1>3, <3>1, <3>2, <3>3, <3>4, TwoHeapsKept
    <2> QED
      BY <2>1, <2>2
  <1>13. CASE ExpandHeap
    BY <1>2, <1>13, TwoHeapsExpand
  <1>14. CASE SbrkFails
    BY <1>2, <1>14, TwoHeapsFail
  <1>15. CASE NextHeap
    BY <1>2, <1>15, TwoHeapsNext
  <1>16. CASE SearchFreed
    <2>1. Stop("check failed") \/ ReuseFreed \/ ScanOn \/ ScanNextHeap
      BY <1>16 DEF SearchFreed
    <2>2. CASE Stop("check failed")
      BY <1>2, <2>2, TwoHeapsStop
    <2>3. CASE ReuseFreed
      BY <1>3, <1>4, <2>3 DEF ReuseFreed, Return, heapVars
    <2>4. CASE ScanOn
      BY <1>3, <1>4, <2>4 DEF ScanOn, heapVars
    <2>5. CASE ScanNextHeap
      BY <1>3, <1>4, <2>5 DEF ScanNextHeap, ReturnNull
    <2> QED
      BY <2>1, <2>2, <2>3, <2>4, <2>5
  <1> QED
    BY <1>5, <1>8, <1>9, <1>10, <1>11, <1>12, <1>13, <1>14, <1>15, <1>16 DEF Next, CallStep

(* Where a failure of sbrk is seen, and nobody outside malloc.cpp calls      *)
(* sbrk, next_active_heap opens one heap beyond the initial one and extends  *)
(* it from then on: the slots never run out, whatever the client does.       *)
THEOREM TwoSlots ==
    ASSUME SeesSbrkFailure, HeapSlots > 1
    PROVE  Spec => []SlotsSuffice
  <1>1. Init => SInv
    <2> SUFFICES ASSUME Init PROVE TwoHeaps
      BY DEF SInv
    <2>1. Host
      BY InitHolds DEF IInv
    <2>2. Multiple(brk)
      <3>1. Multiple(PageWords) /\ PageWords \in Int
        BY MultipleOfBlock, LayoutAssumption
      <3>2. Multiple(InitPages * PageWords)
        BY <3>1, MultipleSums, Constants
      <3>3. brk = InitPages * PageWords
        BY DEF Init, brk
      <3> QED
        BY <3>2, <3>3
    <2>3. /\ heaps = [i \in Slots |-> [base |-> Null, size |-> 0, offset |-> 0]]
          /\ heaps_actual_size = 0 /\ active_heap = 0 /\ phase = "idle" /\ status = "running"
      BY DEF Init, Slots
    <2>4. SameSpans(heaps, heaps)
      BY <2>3 DEF SameSpans
    <2>5. 0 \in Slots /\ 0 \in 0..HeapSlots /\ 0 \in 0..0
      BY Constants DEF Slots
    <2> QED
      BY <2>1, <2>2, <2>3, <2>4, <2>5 DEF TwoHeaps
  <1>2. SInv /\ [Next]_vars => SInv'
    BY TwoHeapsStep
  <1>3. SInv => SlotsSuffice
    <2> SUFFICES ASSUME TwoHeaps
                 PROVE  status # "slot overrun" /\ \A i \in DOMAIN heaps : i >= 2 => ~is_init(i)
      BY DEF SInv, SlotsSuffice
    <2>1. DOMAIN heaps = Slots
      BY DEF TwoHeaps, SameSpans
    <2> QED
      BY <2>1 DEF TwoHeaps, is_init
  <1> QED
    BY <1>1, <1>2, <1>3, PTL DEF Spec
=============================================================================
