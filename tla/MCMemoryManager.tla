--------------------------- MODULE MCMemoryManager ---------------------------
(* memory_manager on a machine with pages of 8 words. *)
EXTENDS MemoryManager

CONSTANTS h1, h2, h3
=============================================================================
