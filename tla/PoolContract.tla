---------------------------- MODULE PoolContract ----------------------------
(***************************************************************************)
(* What the users of the memory pool of lib/mpool.h rely on: mpool_alloc   *)
(* hands out a chunk that nobody holds, and mpool_free makes the chunk     *)
(* available again.  A pool does not lose, invent or share chunks.         *)
(***************************************************************************)
EXTENDS Naturals

CONSTANT Chunks

VARIABLES avail,    \* chunks in the pool
          held      \* how often a chunk is handed out at the moment

Init == /\ avail \in SUBSET Chunks
        /\ held = [c \in Chunks |-> 0]

Alloc(c) == /\ c \in avail /\ held[c] = 0
            /\ avail' = avail \ {c}
            /\ held' = [held EXCEPT ![c] = 1]

Free(c) == /\ c \notin avail /\ held[c] = 1
           /\ avail' = avail \cup {c}
           /\ held' = [held EXCEPT ![c] = 0]

Next == \E c \in Chunks : Alloc(c) \/ Free(c)

Spec == Init /\ [][Next]_<<avail, held>>
=============================================================================
