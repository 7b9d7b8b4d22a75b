--------------------------- MODULE MCSharedMemory ---------------------------
(* An instance of SharedMemory for TLC. *)
EXTENDS SharedMemory, TLC

Interchangeable == Permutations(Memories) \union Permutations(Planes)
=============================================================================
