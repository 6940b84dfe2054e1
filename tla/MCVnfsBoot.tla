----------------------------- MODULE MCVnfsBoot -----------------------------
EXTENDS VnfsBoot, TLC
RequestsAndChunks == Permutations(Requests) \cup Permutations(Chunks)
=============================================================================
