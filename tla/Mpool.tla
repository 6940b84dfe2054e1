------------------------------- MODULE Mpool -------------------------------
(***************************************************************************)
(* The memory pool of lib/mpool.c: a ck_ring of pointers to free chunks.   *)
(* mpool_alloc dequeues, mpool_free enqueues, and neither takes a lock, so *)
(* the loads and stores of the two sides interleave.  c_head and p_tail    *)
(* are kept modulo the size of the ring: the ring is never more than one   *)
(* short of full, so that equal positions mean equal counters.             *)
(***************************************************************************)
EXTENDS Naturals

CONSTANTS Size,         \* the argument chunks of mpool_init, and of ck_ring_init
          Consumers,    \* threads that call mpool_alloc
          Producers,    \* threads that call mpool_free
          None

ASSUME MpoolAssumption == Size \in Nat /\ Size >= 4

Chunks == 1..Size
Slots == 0..(Size - 1)

VARIABLES buffer, c_head, p_tail,
          cons,         \* call of mpool_alloc a consumer is in
          prod,         \* call of mpool_free a producer is in
          held          \* how often a chunk is handed out at the moment

ringVars == <<buffer, c_head, p_tail>>
poolVars == <<ringVars, cons, prod, held>>

NoCall == [pc |-> "idle", at |-> 0, e |-> None]

(* Mutant: the position does not wrap around. *)
IncNoMask(k) == k + 1

Inc(k) == IF k = Size - 1 THEN 0 ELSE k + 1

(* mpool_init frees all Size chunks into a ring that holds Size - 1: the last *)
(* enqueue fails, its result is not looked at, and that chunk is never seen.  *)
PoolInit == /\ buffer = [k \in Slots |-> IF k < Size - 1 THEN k + 1 ELSE None]
            /\ c_head = 0 /\ p_tail = Size - 1
            /\ cons = [t \in Consumers |-> NoCall]
            /\ prod = [t \in Producers |-> NoCall]
            /\ held = [c \in Chunks |-> 0]

-----------------------------------------------------------------------------
(* mpool_alloc: ck_ring_dequeue_spsc. *)

(* It returns NULL. *)
AllocEmpty(t) == /\ cons[t].pc = "idle"
                 /\ c_head = p_tail
                 /\ UNCHANGED poolVars

(* Mutant: an empty ring is not noticed. *)
AllocCheckNot(t) == /\ cons[t].pc = "idle"
                 /\ cons' = [cons EXCEPT ![t] = [pc |-> "load", at |-> c_head, e |-> None]]
                 /\ UNCHANGED <<ringVars, prod, held>>

AllocCheck(t) == /\ cons[t].pc = "idle"
                 /\ c_head # p_tail
                 /\ cons' = [cons EXCEPT ![t] = [pc |-> "load", at |-> c_head, e |-> None]]
                 /\ UNCHANGED <<ringVars, prod, held>>

AllocLoad(t) == /\ cons[t].pc = "load"
                /\ cons' = [cons EXCEPT ![t].pc = "publish", ![t].e = buffer[cons[t].at]]
                /\ UNCHANGED <<ringVars, prod, held>>

AllocPublish(t) == /\ cons[t].pc = "publish"
                   /\ c_head' = Inc(cons[t].at)
                   /\ held' = [held EXCEPT ![cons[t].e] = @ + 1]
                   /\ cons' = [cons EXCEPT ![t] = NoCall]
                   /\ UNCHANGED <<buffer, p_tail, prod>>

(* mpool_free: ck_ring_enqueue_spsc; when the ring is full the chunk is lost, *)
(* as the result is not looked at.                                            *)

FreeCheck(t, c) == /\ prod[t].pc = "idle"
                   /\ IF Inc(p_tail) = c_head
                        THEN /\ held' = [held EXCEPT ![c] = @ - 1]
                             /\ UNCHANGED prod
                        ELSE /\ prod' = [prod EXCEPT ![t] = [pc |-> "store", at |-> p_tail, e |-> c]]
                             /\ UNCHANGED held
                   /\ UNCHANGED <<ringVars, cons>>

FreeStore(t) == /\ prod[t].pc = "store"
                /\ buffer' = [buffer EXCEPT ![prod[t].at] = prod[t].e]
                /\ prod' = [prod EXCEPT ![t].pc = "publish"]
                /\ UNCHANGED <<c_head, p_tail, cons, held>>

FreePublish(t) == /\ prod[t].pc = "publish"
                  /\ p_tail' = Inc(prod[t].at)
                  /\ held' = [held EXCEPT ![prod[t].e] = @ - 1]
                  /\ prod' = [prod EXCEPT ![t] = NoCall]
                  /\ UNCHANGED <<buffer, c_head, cons>>

-----------------------------------------------------------------------------
(* Users of the pool free a chunk they hold, and free it once. *)
MayFree(c) == held[c] = 1 /\ \A t \in Producers : prod[t].e # c

PoolNext == \/ \E t \in Consumers : AllocEmpty(t) \/ AllocCheck(t) \/ AllocLoad(t) \/ AllocPublish(t)
            \/ \E t \in Producers : \/ \E c \in Chunks : MayFree(c) /\ FreeCheck(t, c)
                                    \/ FreeStore(t) \/ FreePublish(t)

MpoolSpec == PoolInit /\ [][PoolNext]_poolVars

(* The slots between the two positions, and what they hold. *)
Window == IF c_head <= p_tail THEN {k \in Slots : c_head <= k /\ k < p_tail}
                              ELSE {k \in Slots : c_head <= k \/ k < p_tail}
InRing == {buffer[k] : k \in Window}

Contract == INSTANCE PoolContract WITH Chunks <- Chunks, avail <- InRing, held <- held

(* With one thread that allocates and one that frees, at whatever point each is interrupted,     *)
(* the ring keeps the contract of the pool: no chunk is handed out twice, lost or overwritten.   *)
PoolSpec == Contract!Spec
=============================================================================
