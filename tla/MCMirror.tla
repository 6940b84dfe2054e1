------------------------------ MODULE MCMirror ------------------------------
(* Mirror for TLC: threads, names and the ordinary inode numbers are interchangeable. *)
EXTENDS Mirror, TLC

(* Every number in one chain: the walks of all threads meet. *)
MCHash == [i \in Inos |-> 0]

Interchangeable == Permutations(Threads) \cup Permutations(Names) \cup Permutations(Inos \ Foreign)
=============================================================================
