------------------------------ MODULE Allocator ------------------------------
(***************************************************************************)
(* What every memory allocator linked into a contract promises its client: *)
(* the regions handed out and not yet given back lie in [Low, High) and    *)
(* never overlap.  Both allocators of libraries/wasmlib implement this:    *)
(* dsmalloc (SimpleMalloc) and memory_manager (MemoryManager).             *)
(*                                                                         *)
(* Addresses and sizes are counted in the unit of the implementing module. *)
(***************************************************************************)
EXTENDS Integers

CONSTANTS
    Low,    \* first address the allocator may hand out
    High    \* end of the address space

VARIABLES
    live,   \* regions the client holds, records with fields ptr and size
    down    \* the contract was stopped by a failed allocation

(* A region is one uninterrupted run of addresses. *)
IsRegion(r) ==
    /\ r.ptr \in Int /\ r.size \in Int
    /\ r.size > 0
    /\ Low <= r.ptr
    /\ r.ptr + r.size <= High

Apart(r, s) == r.ptr + r.size <= s.ptr \/ s.ptr + s.size <= r.ptr

Init == live = {} /\ down = FALSE

(* A new region: nowhere near the ones the client still holds. *)
Acquire ==
    \E r \in live' :
        /\ IsRegion(r)
        /\ \A s \in live : Apart(r, s)
        /\ live' = live \union {r}
        /\ UNCHANGED down

Release ==
    \E r \in live : live' = live \ {r} /\ UNCHANGED down

(* One region is exchanged for another, which may cover the same place. *)
Move ==
    \E r \in live, s \in live' :
        /\ IsRegion(s)
        /\ \A t \in live \ {r} : Apart(s, t)
        /\ live' = (live \ {r}) \union {s}
        /\ UNCHANGED down

Stop == ~down /\ down' = TRUE /\ UNCHANGED live

Next == ~down /\ (Acquire \/ Release \/ Move \/ Stop)

vars == <<live, down>>

Spec == Init /\ [][Next]_vars
=============================================================================
