------------------------------- MODULE MCVnfs -------------------------------
(* Model checking dpfs_nfs: symmetry sets for the safety runs.  Requests,   *)
(* chunks and threads are only compared for equality.                      *)
EXTENDS Vnfs, TLC

RequestsAndChunks  == Permutations(Requests) \cup Permutations(Chunks)
RequestsAndThreads == Permutations(Requests) \cup Permutations(Threads)
                        \cup Permutations(Chunks)
=============================================================================
