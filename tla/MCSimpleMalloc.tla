--------------------------- MODULE MCSimpleMalloc ---------------------------
(* dsmalloc on a machine of 8 pages of 16 bytes. *)
EXTENDS SimpleMalloc

(* small sizes, sizes around one and two pages, and sizes whose addition to  *)
(* last_ptr wraps                                                            *)
MCRequests == {0, 9, 17, 40, 125}

MCCounts == {3}

MCHeapBases == {5, 32}
=============================================================================
