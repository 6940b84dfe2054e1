--------------------------- MODULE MirrorIoProofs ---------------------------
(***************************************************************************)
(* Asynchronous I/O of the mirror file systems and the pool it is built    *)
(* on.  First the ring of lib/mpool.c by itself (module Mpool): it keeps   *)
(* the contract of the pool, for any size, as long as one thread allocates *)
(* and one thread frees.  Then, with one polling thread and one completion *)
(* thread on a pool, the I/O: for any size of the pool and any requests, a *)
(* chunk has one owner, a request is completed once, and the pool's        *)
(* contract is kept.                                                       *)
(***************************************************************************)
EXTENDS MirrorIo, FiniteSetTheorems, TLAPS

-----------------------------------------------------------------------------
(* The ring of the pool *)

(* mpool.h: "specialized for Single-Producer Single-Consumer". *)
Spsc == /\ \A s, t \in Consumers : s = t
        /\ \A s, t \in Producers : s = t

(* The chunks that mpool_init got into the ring. *)
Usable == 1..(Size - 1)

PoolTypeOK == /\ buffer \in [Slots -> Chunks \cup {None}]
              /\ c_head \in Slots /\ p_tail \in Slots
              /\ cons \in [Consumers -> [pc : {"idle", "load", "publish"}, at : Slots,
                                         e : Chunks \cup {None}]]
              /\ prod \in [Producers -> [pc : {"idle", "store", "publish"}, at : Slots,
                                         e : Chunks \cup {None}]]
              /\ held \in [Chunks -> 0..1]

(* The ring holds different chunks, none of them handed out. *)
RingOK == /\ \A k \in Window : buffer[k] \in Usable /\ held[buffer[k]] = 0
          /\ \A j, k \in Window : buffer[j] = buffer[k] => j = k
          /\ held[Size] = 0

(* What a consumer in mpool_alloc has seen is still so. *)
ConsOK == \A t \in Consumers :
  cons[t].pc # "idle" => /\ cons[t].at = c_head /\ c_head # p_tail
                         /\ cons[t].pc = "publish" => cons[t].e = buffer[c_head]

(* What a producer in mpool_free has seen is still so. *)
ProdOK == \A t \in Producers :
  prod[t].pc # "idle" => /\ prod[t].at = p_tail /\ Inc(p_tail) # c_head
                         /\ prod[t].e \in Usable /\ held[prod[t].e] = 1
                         /\ prod[t].pc = "publish" => buffer[p_tail] = prod[t].e

PoolIInv == PoolTypeOK /\ RingOK /\ ConsOK /\ ProdOK

-----------------------------------------------------------------------------
(* Positions of the ring. *)

LEMMA IncType == ASSUME NEW k \in Slots PROVE Inc(k) \in Slots
  BY MpoolAssumption DEF Slots, Inc

LEMMA IncInjective == ASSUME NEW j \in Slots, NEW k \in Slots, j # k PROVE Inc(j) # Inc(k)
  BY MpoolAssumption DEF Slots, Inc

(* The tail is not in the window; the head is, unless the ring is empty. *)
LEMMA WindowEnds ==
  ASSUME c_head \in Slots, p_tail \in Slots
  PROVE  /\ Window \subseteq Slots /\ p_tail \notin Window
         /\ c_head # p_tail => c_head \in Window
  BY MpoolAssumption DEF Slots, Window

(* The window when the ring is full. *)
LEMMA WindowFull ==
  ASSUME c_head \in Slots, p_tail \in Slots, Inc(p_tail) = c_head
  PROVE  Window = Slots \ {p_tail}
  BY MpoolAssumption DEF Slots, Window, Inc

(* Publishing a new head takes the old one out of the window. *)
LEMMA WindowTaken ==
  ASSUME c_head \in Slots, p_tail \in Slots, c_head # p_tail,
         c_head' = Inc(c_head), p_tail' = p_tail
  PROVE  Window' = Window \ {c_head}
  BY MpoolAssumption DEF Slots, Window, Inc

(* Publishing a new tail takes the old one into the window. *)
LEMMA WindowAdded ==
  ASSUME c_head \in Slots, p_tail \in Slots, Inc(p_tail) # c_head,
         p_tail' = Inc(p_tail), c_head' = c_head
  PROVE  Window' = Window \cup {p_tail}
  BY MpoolAssumption DEF Slots, Window, Inc

(* The ring is not full while a usable chunk is out of it: the slots of a   *)
(* full ring are one more than the chunks that could be in them.            *)
LEMMA NotFull ==
  ASSUME PoolTypeOK, RingOK, NEW c \in Usable, held[c] = 1
  PROVE  Inc(p_tail) # c_head
<1>. SUFFICES ASSUME Inc(p_tail) = c_head PROVE FALSE
  OBVIOUS
<1>. DEFINE f == [k \in Slots \ {p_tail} |-> buffer[k]]
<1>1. Size \in Nat /\ Size >= 4 /\ c_head \in Slots /\ p_tail \in Slots
  BY MpoolAssumption DEF PoolTypeOK
<1>2. Window = Slots \ {p_tail}
  BY <1>1, WindowFull
<1>3. IsFiniteSet(Slots) /\ Cardinality(Slots) = Size
  BY <1>1, FS_Interval DEF Slots
<1>4. IsFiniteSet(Slots \ {p_tail}) /\ Cardinality(Slots \ {p_tail}) = Size - 1
  BY <1>1, <1>3, FS_RemoveElement
<1>5. IsFiniteSet(Usable) /\ Cardinality(Usable) = Size - 1
  BY <1>1, FS_Interval DEF Usable
<1>6. IsFiniteSet(Usable \ {c}) /\ Cardinality(Usable \ {c}) = Size - 2
  BY <1>1, <1>5, FS_RemoveElement
<1>7. f \in [Slots \ {p_tail} -> Usable \ {c}]
  BY <1>2 DEF RingOK
<1>8. \E j, k \in Slots \ {p_tail} : j # k /\ f[j] = f[k]
  <2>. HIDE DEF f
  <2>1. Cardinality(Usable \ {c}) < Cardinality(Slots \ {p_tail})
    BY <1>1, <1>4, <1>6
  <2>. QED
    BY <1>4, <1>6, <1>7, <2>1, FS_PigeonHole
<1>. QED
  BY <1>2, <1>8 DEF RingOK

-----------------------------------------------------------------------------
LEMMA InitHolds == ASSUME PoolInit PROVE PoolIInv
<1>1. Size \in Nat /\ Size >= 4
  BY MpoolAssumption
<1>2. c_head = 0 /\ p_tail = Size - 1 /\ buffer = [k \in Slots |-> IF k < Size - 1 THEN k + 1 ELSE None]
  BY DEF PoolInit
<1>3. PoolTypeOK
  <2>1. buffer \in [Slots -> Chunks \cup {None}]
    BY <1>1, <1>2 DEF Slots, Chunks
  <2>2. c_head \in Slots /\ p_tail \in Slots /\ 0 \in Slots
    BY <1>1, <1>2 DEF Slots
  <2>. QED
    BY <2>1, <2>2 DEF PoolTypeOK, PoolInit, NoCall
<1>4. Window = 0..(Size - 2)
  <2>1. Window = {k \in Slots : c_head <= k /\ k < p_tail}
    BY <1>1, <1>2 DEF Window
  <2>. QED
    BY <1>1, <1>2, <2>1 DEF Slots
<1>5. \A k \in Window : buffer[k] = k + 1 /\ k + 1 \in Usable /\ k + 1 \in Chunks
  BY <1>1, <1>2, <1>4 DEF Slots, Usable, Chunks
<1>6. held[Size] = 0 /\ \A c \in Chunks : held[c] = 0
  BY <1>1 DEF PoolInit, Chunks
<1>7. RingOK
  <2>1. \A k \in Window : buffer[k] \in Usable /\ held[buffer[k]] = 0
    BY <1>5, <1>6
  <2>2. \A j, k \in Window : buffer[j] = buffer[k] => j = k
    BY <1>1, <1>4, <1>5
  <2>. QED
    BY <1>6, <2>1, <2>2 DEF RingOK
<1>8. ConsOK /\ ProdOK
  BY DEF PoolInit, ConsOK, ProdOK, NoCall
<1>. QED
  BY <1>3, <1>7, <1>8 DEF PoolIInv

LEMMA PoolStarts == ASSUME PoolInit PROVE Contract!Init
<1>1. InRing \subseteq Chunks
  BY InitHolds, MpoolAssumption DEF PoolIInv, RingOK, InRing, Usable, Chunks
<1>. QED
  BY <1>1 DEF PoolInit, Contract!Init

(* mpool_alloc looks and loads: nothing of the ring changes. *)
LEMMA AllocLooks ==
  ASSUME Spsc, PoolIInv, NEW t \in Consumers, AllocCheck(t) \/ AllocLoad(t)
  PROVE  PoolIInv' /\ UNCHANGED <<InRing, held>>
<1>. USE DEF PoolIInv
<1>1. UNCHANGED <<buffer, c_head, p_tail, prod, held>>
  BY DEF AllocCheck, AllocLoad, ringVars
<1>2. Window' = Window /\ InRing' = InRing /\ RingOK' /\ ProdOK'
  BY <1>1 DEF Window, InRing, RingOK, ProdOK
<1>3. PoolTypeOK'
  BY <1>1 DEF AllocCheck, AllocLoad, PoolTypeOK
<1>4. ConsOK'
  <2>1. CASE AllocCheck(t)
    BY <1>1, <2>1 DEF AllocCheck, ConsOK, PoolTypeOK, Spsc
  <2>2. CASE AllocLoad(t)
    BY <1>1, <2>2 DEF AllocLoad, ConsOK, PoolTypeOK, Spsc
  <2>. QED
    BY <2>1, <2>2
<1>. QED
  BY <1>1, <1>2, <1>3, <1>4

(* mpool_alloc hands out the chunk at the head. *)
LEMMA AllocHandsOut ==
  ASSUME Spsc, PoolIInv, NEW t \in Consumers, AllocPublish(t)
  PROVE  PoolIInv' /\ \E c \in Chunks : Contract!Alloc(c)
<1>. DEFINE c == buffer[c_head]
<1>1. /\ c_head \in Slots /\ p_tail \in Slots /\ c_head # p_tail /\ Size \in Nat /\ Size >= 4
      /\ cons[t].at = c_head /\ cons[t].e = c
  BY MpoolAssumption DEF PoolIInv, PoolTypeOK, ConsOK, AllocPublish
<1>2. /\ c_head' = Inc(c_head) /\ p_tail' = p_tail /\ buffer' = buffer /\ prod' = prod
      /\ held' = [held EXCEPT ![c] = @ + 1]
      /\ cons' = [cons EXCEPT ![t] = NoCall]
  BY <1>1 DEF AllocPublish
<1>3. Window' = Window \ {c_head} /\ c_head \in Window
  BY <1>1, <1>2, WindowTaken, WindowEnds
<1>4. c \in Usable /\ c \in Chunks /\ held[c] = 0 /\ c # Size
  BY <1>1, <1>3 DEF PoolIInv, RingOK, Usable, Chunks
<1>5. held' = [held EXCEPT ![c] = 1] /\ held' \in [Chunks -> 0..1]
  BY <1>2, <1>4 DEF PoolIInv, PoolTypeOK
<1>. HIDE DEF c
<1>6. PoolTypeOK'
  <2>1. c_head' \in Slots /\ p_tail' \in Slots
    BY <1>1, <1>2, IncType
  <2>2. 0 \in Slots
    BY <1>1 DEF Slots
  <2>. QED
    BY <1>2, <1>5, <2>1, <2>2 DEF PoolIInv, PoolTypeOK, NoCall
<1>7. \A k \in Window' : k \in Window /\ buffer[k] # c
  BY <1>3 DEF PoolIInv, RingOK, c
<1>8. RingOK'
  <2>1. \A k \in Window' : buffer[k] \in Chunks
    BY <1>1, <1>7 DEF PoolIInv, RingOK, Usable, Chunks
  <2>2. \A k \in Window' : buffer'[k] \in Usable /\ held'[buffer'[k]] = 0
    BY <1>2, <1>5, <1>7, <2>1 DEF PoolIInv, RingOK, PoolTypeOK
  <2>3. held'[Size] = 0
    BY <1>1, <1>4, <1>5 DEF PoolIInv, RingOK, PoolTypeOK, Chunks
  <2>. QED
    BY <1>2, <1>7, <2>2, <2>3 DEF PoolIInv, RingOK
<1>9. ConsOK'
  BY <1>2 DEF PoolIInv, PoolTypeOK, ConsOK, Spsc, NoCall
<1>10. ProdOK'
  <2>1. Inc(p_tail) # Inc(c_head)
    BY <1>1, IncInjective
  <2>2. \A s \in Producers : prod[s].pc # "idle" => held'[prod[s].e] = 1
    BY <1>1, <1>5 DEF PoolIInv, PoolTypeOK, ProdOK, Usable, Chunks
  <2>. QED
    BY <1>2, <2>1, <2>2 DEF PoolIInv, ProdOK, Inc
<1>11. InRing' = InRing \ {c} /\ c \in InRing
  BY <1>2, <1>3, <1>7 DEF InRing, c
<1>12. Contract!Alloc(c)
  BY <1>4, <1>5, <1>11 DEF Contract!Alloc
<1>. QED
  BY <1>4, <1>6, <1>8, <1>9, <1>10, <1>12 DEF PoolIInv

(* mpool_free looks at the ring and finds room. *)
LEMMA FreeLooks ==
  ASSUME Spsc, PoolIInv, NEW t \in Producers, NEW c \in Chunks, MayFree(c), FreeCheck(t, c)
  PROVE  PoolIInv' /\ UNCHANGED <<InRing, held>>
<1>0. held[c] = 1 /\ c \in Usable
  BY MpoolAssumption DEF MayFree, PoolIInv, RingOK, Chunks, Usable
<1>1. Inc(p_tail) # c_head
  BY <1>0, NotFull DEF PoolIInv
<1>2. /\ prod' = [prod EXCEPT ![t] = [pc |-> "store", at |-> p_tail, e |-> c]]
      /\ UNCHANGED <<buffer, c_head, p_tail, cons, held>>
  BY <1>1 DEF FreeCheck, ringVars
<1>3. Window' = Window /\ InRing' = InRing /\ RingOK' /\ ConsOK'
  BY <1>2 DEF Window, InRing, PoolIInv, RingOK, ConsOK
<1>4. PoolTypeOK'
  BY <1>2 DEF PoolIInv, PoolTypeOK
<1>5. ProdOK'
  <2>1. \A s \in Producers : prod'[s] = [pc |-> "store", at |-> p_tail, e |-> c]
    BY <1>2 DEF PoolIInv, PoolTypeOK, Spsc
  <2>2. Inc(p_tail') # c_head'
    BY <1>1, <1>2
  <2>. QED
    BY <1>0, <1>2, <2>1, <2>2 DEF ProdOK
<1>. QED
  BY <1>2, <1>3, <1>4, <1>5 DEF PoolIInv

(* mpool_free stores the pointer in the slot behind the window. *)
LEMMA FreeStores ==
  ASSUME Spsc, PoolIInv, NEW t \in Producers, FreeStore(t)
  PROVE  PoolIInv' /\ UNCHANGED <<InRing, held>>
<1>1. /\ prod[t].at = p_tail /\ prod[t].e \in Usable /\ Inc(p_tail) # c_head /\ held[prod[t].e] = 1
      /\ c_head \in Slots /\ p_tail \in Slots
  BY DEF PoolIInv, PoolTypeOK, ProdOK, FreeStore
<1>2. /\ buffer' = [buffer EXCEPT ![p_tail] = prod[t].e]
      /\ prod' = [prod EXCEPT ![t].pc = "publish"]
      /\ UNCHANGED <<c_head, p_tail, cons, held>>
  BY <1>1 DEF FreeStore
<1>3. Window' = Window
  BY <1>2 DEF Window
<1>4. \A k \in Window : buffer'[k] = buffer[k]
  BY <1>1, <1>2, WindowEnds DEF PoolIInv, PoolTypeOK
<1>5. InRing' = InRing
  BY <1>3, <1>4 DEF InRing
<1>6. RingOK'
  BY <1>2, <1>3, <1>4 DEF PoolIInv, RingOK
<1>7. PoolTypeOK'
  BY <1>1, <1>2 DEF PoolIInv, PoolTypeOK
<1>8. ConsOK'
  BY <1>1, <1>2, <1>4, WindowEnds DEF PoolIInv, ConsOK
<1>9. ProdOK'
  <2>1. \A s \in Producers : s = t
    BY DEF Spsc
  <2>2. buffer'[p_tail] = prod[t].e
    BY <1>1, <1>2 DEF PoolIInv, PoolTypeOK
  <2>3. prod'[t].at = p_tail /\ prod'[t].e = prod[t].e
    BY <1>1, <1>2 DEF PoolIInv, PoolTypeOK
  <2>4. Inc(p_tail') # c_head'
    BY <1>1, <1>2
  <2>. QED
    BY <1>1, <1>2, <2>1, <2>2, <2>3, <2>4 DEF ProdOK
<1>. QED
  BY <1>2, <1>5, <1>6, <1>7, <1>8, <1>9 DEF PoolIInv

(* mpool_free publishes the slot: the chunk is available again. *)
LEMMA FreeGivesBack ==
  ASSUME Spsc, PoolIInv, NEW t \in Producers, FreePublish(t)
  PROVE  PoolIInv' /\ \E c \in Chunks : Contract!Free(c)
<1>. DEFINE c == prod[t].e
<1>1. /\ prod[t].at = p_tail /\ c \in Usable /\ Inc(p_tail) # c_head /\ held[c] = 1
      /\ buffer[p_tail] = c /\ c_head \in Slots /\ p_tail \in Slots
      /\ Size \in Nat /\ Size >= 4
  BY MpoolAssumption DEF PoolIInv, PoolTypeOK, ProdOK, FreePublish
<1>2. /\ p_tail' = Inc(p_tail) /\ held' = [held EXCEPT ![c] = @ - 1]
      /\ prod' = [prod EXCEPT ![t] = NoCall]
      /\ UNCHANGED <<buffer, c_head, cons>>
  BY <1>1 DEF FreePublish
<1>3. Window' = Window \cup {p_tail} /\ p_tail \notin Window
  BY <1>1, <1>2, WindowAdded, WindowEnds
<1>4. c \in Chunks /\ c # Size
  BY <1>1 DEF Usable, Chunks
<1>. HIDE DEF c
<1>5. held' = [held EXCEPT ![c] = 0] /\ held' \in [Chunks -> 0..1]
  BY <1>1, <1>2, <1>4 DEF PoolIInv, PoolTypeOK
<1>6. \A k \in Window : buffer[k] # c /\ buffer[k] \in Chunks
  BY <1>1 DEF PoolIInv, RingOK, Usable, Chunks
<1>7. PoolTypeOK'
  <2>1. c_head' \in Slots /\ p_tail' \in Slots
    BY <1>1, <1>2, IncType
  <2>2. 0 \in Slots
    BY <1>1 DEF Slots
  <2>. QED
    BY <1>2, <1>5, <2>1, <2>2 DEF PoolIInv, PoolTypeOK, NoCall
<1>8. RingOK'
  <2>1. \A k \in Window' : buffer'[k] \in Usable
    BY <1>1, <1>2, <1>3 DEF PoolIInv, RingOK
  <2>2. \A k \in Window' : held'[buffer'[k]] = 0
    BY <1>1, <1>2, <1>3, <1>4, <1>5, <1>6 DEF PoolIInv, RingOK, PoolTypeOK
  <2>3. held'[Size] = 0
    BY <1>1, <1>4, <1>5 DEF PoolIInv, RingOK, PoolTypeOK, Chunks
  <2>4. \A j, k \in Window' : buffer'[j] = buffer'[k] => j = k
    BY <1>1, <1>2, <1>3, <1>6 DEF PoolIInv, RingOK
  <2>. QED
    BY <2>1, <2>2, <2>3, <2>4 DEF RingOK
<1>9. ConsOK'
  BY <1>1, <1>2 DEF PoolIInv, ConsOK
<1>10. ProdOK'
  BY <1>2 DEF PoolIInv, PoolTypeOK, ProdOK, Spsc, NoCall
<1>11. InRing' = InRing \cup {c} /\ c \notin InRing
  BY <1>1, <1>2, <1>3, <1>6 DEF InRing
<1>12. Contract!Free(c)
  BY <1>1, <1>5, <1>11 DEF Contract!Free
<1>. QED
  BY <1>4, <1>7, <1>8, <1>9, <1>10, <1>12 DEF PoolIInv

-----------------------------------------------------------------------------
(* Every step keeps the invariant, and is a step of the contract or none.   *)
LEMMA StepsKeep ==
  ASSUME Spsc, PoolIInv, [PoolNext]_poolVars
  PROVE  PoolIInv' /\ [Contract!Next]_<<InRing, held>>
<1>1. CASE UNCHANGED poolVars
  <2>1. UNCHANGED <<buffer, c_head, p_tail, cons, prod, held>>
    BY <1>1 DEF poolVars, ringVars
  <2>2. Window' = Window /\ InRing' = InRing
    BY <2>1 DEF Window, InRing
  <2>. QED
    BY <2>1, <2>2 DEF PoolIInv, PoolTypeOK, RingOK, ConsOK, ProdOK
<1>2. ASSUME NEW t \in Consumers, AllocEmpty(t) PROVE UNCHANGED poolVars
  BY <1>2 DEF AllocEmpty
<1>3. ASSUME NEW t \in Consumers, AllocCheck(t) \/ AllocLoad(t)
      PROVE  PoolIInv' /\ UNCHANGED <<InRing, held>>
  BY <1>3, AllocLooks
<1>4. ASSUME NEW t \in Consumers, AllocPublish(t)
      PROVE  PoolIInv' /\ Contract!Next
  BY <1>4, AllocHandsOut DEF Contract!Next
<1>5. ASSUME NEW t \in Producers, NEW c \in Chunks, MayFree(c), FreeCheck(t, c)
      PROVE  PoolIInv' /\ UNCHANGED <<InRing, held>>
  BY <1>5, FreeLooks
<1>6. ASSUME NEW t \in Producers, FreeStore(t)
      PROVE  PoolIInv' /\ UNCHANGED <<InRing, held>>
  BY <1>6, FreeStores
<1>7. ASSUME NEW t \in Producers, FreePublish(t)
      PROVE  PoolIInv' /\ Contract!Next
  BY <1>7, FreeGivesBack DEF Contract!Next
<1>. QED
  BY <1>1, <1>2, <1>3, <1>4, <1>5, <1>6, <1>7 DEF PoolNext

(* The inductive invariant of the ring: what each side of mpool_alloc and  *)
(* mpool_free has read of the other stays true until it publishes.         *)
THEOREM PoolInvariance == ASSUME Spsc PROVE MpoolSpec => []PoolIInv
<1>1. PoolInit => PoolIInv
  BY InitHolds
<1>2. PoolIInv /\ [PoolNext]_poolVars => PoolIInv'
  BY StepsKeep
<1>. QED
  BY <1>1, <1>2, PTL DEF MpoolSpec

(* With one thread that allocates and one that frees, mpool_alloc and      *)
(* mpool_free hand out, take back and never lose, share or overwrite a     *)
(* chunk, for every size of the pool.                                      *)
THEOREM KeepsPoolContract == ASSUME Spsc PROVE MpoolSpec => PoolSpec
<1>1. PoolInit => Contract!Init
  BY PoolStarts
<1>2. PoolIInv /\ [PoolNext]_poolVars => [Contract!Next]_<<InRing, held>>
  BY StepsKeep
<1>. QED
  BY <1>1, <1>2, PoolInvariance, PTL DEF MpoolSpec, PoolSpec, Contract!Spec

-----------------------------------------------------------------------------
(* The I/O on the pool: the inductive invariant *)

(* Entries that are prepared or in the kernel. *)
Live == sq \cup io

PollerStates == [pc : {"idle", "alloc", "submit", "handled", "deferred"},
                 req : Requests \cup {None}, chunk : Chunks \cup {None}]

IoTypes ==
  /\ handler \in [Requests -> {"queued", "running", "handled", "deferred"}]
  /\ completions \in [Requests -> 0..2]
  /\ poller \in [Pollers -> PollerStates]
  /\ ctx \in [Chunks -> Requests \cup {None}]
  /\ sq \subseteq Entry /\ io \subseteq Entry
  /\ reaper \in [pc : {"idle", "again", "free", "freeing", "stopped"}, req : {None},
                 chunk : Chunks \cup {None}]
  /\ fault \in [Requests -> {None, "submit", "event"}]

(* Nothing was started for a request. *)
Untouched(r) == completions[r] = 0 /\ \A e \in Live : e.req # r

(* The submit of a request failed, and its handler answers or answered it. *)
GivenUp(r) == \/ handler[r] = "handled"
              \/ \E p \in Pollers : poller[p].pc = "handled" /\ poller[p].req = r

PollersOK == \A p \in Pollers :
  /\ poller[p].pc # "idle" => poller[p].req \in Requests /\ handler[poller[p].req] = "running"
  /\ poller[p].pc \in {"alloc", "submit"} => Untouched(poller[p].req)
  /\ poller[p].pc = "submit" => /\ poller[p].chunk \in Chunks /\ held[poller[p].chunk] = 1
                                /\ ctx[poller[p].chunk] = poller[p].req
                                /\ reaper.chunk # poller[p].chunk

RequestsOK == \A r \in Requests :
  /\ handler[r] = "queued" => Untouched(r)
  /\ GivenUp(r) => fault[r] = "submit"
  /\ completions[r] = 2 => fault[r] = "event"

LiveOK ==
  /\ \A e \in Live : /\ held[e.chunk] = 1 /\ ctx[e.chunk] = e.req /\ completions[e.req] = 0
                     /\ reaper.chunk # e.chunk
                     /\ backend = "aio" => ~GivenUp(e.req)
  /\ \A e, f \in Live : e.req = f.req => e = f
  /\ sq \cap io = {}

ReaperOK ==
  /\ reaper.chunk # None <=> reaper.pc \in {"again", "free", "freeing"}
  /\ reaper.chunk # None => held[reaper.chunk] = 1 /\ ctx[reaper.chunk] \in Requests
  /\ reaper.pc = "again" => /\ completions[ctx[reaper.chunk]] = 1
                            /\ fault[ctx[reaper.chunk]] = "event"
  /\ \A q \in Producers :
       IF reaper.pc = "freeing" THEN prod[q].pc # "idle" /\ prod[q].e = reaper.chunk
                                ELSE prod[q] = NoCall

(* Who holds a chunk, other than the one of a failed submit of aio. *)
Owned(c) == \/ \E p \in Pollers : poller[p].chunk = c /\ poller[p].pc = "submit"
            \/ \E e \in Live : e.chunk = c
            \/ reaper.chunk = c
LeftBehind(c) == backend = "aio" /\ ctx[c] \in Requests /\ GivenUp(ctx[c])
HeldOK == \A c \in Chunks : held[c] = 1 => Owned(c) \/ LeftBehind(c)

IoIInv == PoolIInv /\ IoTypes /\ PollersOK /\ RequestsOK /\ LiveOK /\ ReaperOK /\ HeldOK

-----------------------------------------------------------------------------
LEMMA IoInitHolds == ASSUME Init PROVE IoIInv
<1>1. PoolIInv
  BY InitHolds DEF Init
<1>2. Live = {} /\ reaper = AtRest /\ \A p \in Pollers : poller[p] = AtRest
  BY DEF Init, Live
<1>3. IoTypes
  BY DEF Init, IoTypes, AtRest, PollerStates
<1>4. PollersOK /\ RequestsOK /\ LiveOK
  BY <1>2 DEF Init, PollersOK, RequestsOK, LiveOK, AtRest, GivenUp, Untouched
<1>5. ReaperOK
  BY <1>2 DEF Init, PoolInit, ReaperOK, AtRest
<1>6. HeldOK
  BY DEF Init, PoolInit, HeldOK
<1>. QED
  BY <1>1, <1>3, <1>4, <1>5, <1>6 DEF IoIInv

(* What the completion thread may free: the pool's users free what they hold, once. *)
LEMMA ReaperMayFree ==
  ASSUME IoIInv, reaper.pc = "free"
  PROVE  reaper.chunk \in Chunks /\ MayFree(reaper.chunk)
<1>1. reaper.chunk \in Chunks /\ held[reaper.chunk] = 1 /\ reaper.chunk # None
  BY DEF IoIInv, IoTypes, ReaperOK
<1>2. \A q \in Producers : prod[q].e = None
  BY DEF IoIInv, ReaperOK, NoCall
<1>. QED
  BY <1>1, <1>2 DEF MayFree

(* Every step is a step of the pool's users, or leaves the pool alone. *)
LEMMA PoolSteps ==
  ASSUME IoIInv, [Next]_ioVars
  PROVE  [PoolNext]_poolVars
<1>1. ASSUME NEW p \in Pollers, AllocNull(p) \/ AllocStep(p) \/ AllocDone(p) PROVE PoolNext
  BY <1>1 DEF AllocNull, AllocStep, AllocDone, PoolNext, Pollers
<1>2. ASSUME NEW q \in Producers, FreeStep(q) PROVE PoolNext
  BY <1>2, ReaperMayFree DEF FreeStep, PoolNext
<1>3. ASSUME UNCHANGED ioVars PROVE UNCHANGED poolVars
  BY <1>3 DEF ioVars
<1>4. ASSUME NEW p \in Pollers, NEW r \in Requests, Deliver(p, r) PROVE UNCHANGED poolVars
  BY <1>4 DEF Deliver
<1>5. ASSUME NEW p \in Pollers, UringSubmit(p) \/ AioSubmit(p) \/ Return(p) PROVE UNCHANGED poolVars
  BY <1>5 DEF UringSubmit, AioSubmit, Return
<1>6. ASSUME NEW e \in Entry, UringReap(e) \/ AioReap(e) PROVE UNCHANGED poolVars
  BY <1>6 DEF UringReap, AioReap
<1>7. ASSUME AioAgain \/ UringStops PROVE UNCHANGED poolVars
  BY <1>7 DEF AioAgain, UringStops
<1>. QED
  BY <1>1, <1>2, <1>3, <1>4, <1>5, <1>6, <1>7 DEF Next, PollerStep, ReaperStep

(* The parts of the invariant that are not about the ring. *)
UsersOK == IoTypes /\ PollersOK /\ RequestsOK /\ LiveOK /\ ReaperOK /\ HeldOK

(* With one polling thread, what one of its steps makes of it. *)
LEMMA OnePoller ==
  ASSUME Spsc, IoTypes, NEW p \in Pollers, NEW s, poller' = [poller EXCEPT ![p] = s]
  PROVE  poller'[p] = s /\ poller[p] \in PollerStates /\ \A q \in Pollers : q = p
  BY DEF Spsc, Pollers, IoTypes

LEMMA DeliverKeeps ==
  ASSUME Spsc, IoIInv, NEW p \in Pollers, NEW r \in Requests, Deliver(p, r)
  PROVE  UsersOK'
<1>. DEFINE s == [AtRest EXCEPT !.pc = "alloc", !.req = r]
<1>1. UNCHANGED <<held, prod, backend, completions, ctx, sq, io, reaper, fault>> /\ Live' = Live
  BY DEF Deliver, poolVars, Live
<1>2. handler[r] = "queued" /\ handler' = [handler EXCEPT ![r] = "running"] /\ poller[p].pc = "idle"
  BY DEF Deliver
<1>3. poller' = [poller EXCEPT ![p] = s] /\ s \in PollerStates
  <2>1. AtRest \in PollerStates
    BY DEF AtRest, PollerStates
  <2>. QED
    BY <2>1 DEF Deliver, PollerStates
<1>. HIDE DEF s
<1>4. s.pc = "alloc" /\ s.req = r /\ poller'[p] = s /\ poller[p] \in PollerStates /\ \A q \in Pollers : q = p
  BY <1>3, OnePoller DEF IoIInv, s, AtRest
<1>5. \A t \in Requests : (Untouched(t)' <=> Untouched(t)) /\ (GivenUp(t)' <=> GivenUp(t))
  BY <1>1, <1>2, <1>4 DEF Untouched, GivenUp, IoIInv, IoTypes
<1>6. IoTypes'
  BY <1>1, <1>2, <1>3 DEF IoIInv, IoTypes
<1>7. PollersOK'
  BY <1>1, <1>2, <1>4, <1>5, <1>6 DEF IoIInv, IoTypes, PollersOK, RequestsOK
<1>8. RequestsOK'
  BY <1>1, <1>2, <1>5 DEF IoIInv, IoTypes, RequestsOK
<1>9. LiveOK'
  BY <1>1, <1>5 DEF IoIInv, IoTypes, LiveOK, Live, Entry
<1>10. ReaperOK'
  BY <1>1 DEF IoIInv, ReaperOK
<1>11. HeldOK'
  BY <1>1, <1>2, <1>4, <1>5 DEF IoIInv, HeldOK, Owned, LeftBehind
<1>. QED
  BY <1>6, <1>7, <1>8, <1>9, <1>10, <1>11 DEF UsersOK

(* mpool_alloc looks, or finds nothing. *)
LEMMA AllocKeeps ==
  ASSUME IoIInv, NEW p \in Pollers, AllocNull(p) \/ AllocStep(p)
  PROVE  UsersOK'
<1>1. UNCHANGED <<held, prod, backend, handler, completions, poller, ctx, sq, io, reaper, fault>>
  BY DEF AllocNull, AllocStep, AllocEmpty, AllocCheck, AllocLoad, poolVars, ringVars
<1>2. Live' = Live /\ \A t \in Requests : (Untouched(t)' <=> Untouched(t)) /\ (GivenUp(t)' <=> GivenUp(t))
  BY <1>1 DEF Live, Untouched, GivenUp
<1>. QED
  BY <1>1, <1>2 DEF UsersOK, IoIInv, IoTypes, PollersOK, RequestsOK, LiveOK, ReaperOK, HeldOK,
                    Owned, LeftBehind, Live, Entry

(* The chunk that mpool_alloc hands out is nobody's. *)
LEMMA AllocGets ==
  ASSUME PoolIInv, NEW p \in Consumers, AllocPublish(p)
  PROVE  cons[p].e \in Chunks /\ held[cons[p].e] = 0 /\ held' = [held EXCEPT ![cons[p].e] = 1]
<1>1. c_head \in Window /\ cons[p].e = buffer[c_head]
  BY WindowEnds DEF PoolIInv, PoolTypeOK, ConsOK, AllocPublish
<1>2. cons[p].e \in Usable /\ held[cons[p].e] = 0
  BY <1>1 DEF PoolIInv, RingOK
<1>3. cons[p].e \in Chunks
  BY <1>2, MpoolAssumption DEF Usable, Chunks
<1>. QED
  BY <1>2, <1>3 DEF AllocPublish, PoolIInv, PoolTypeOK

LEMMA AllocDoneKeeps ==
  ASSUME Spsc, IoIInv, NEW p \in Pollers, AllocDone(p)
  PROVE  UsersOK'
<1>. DEFINE r == poller[p].req
            s == [poller[p] EXCEPT !.pc = "submit", !.chunk = cons[p].e]
<1>1. UNCHANGED <<prod, backend, handler, completions, sq, io, reaper, fault>> /\ Live' = Live
  BY DEF AllocDone, AllocPublish, Live
<1>2. cons[p].e \in Chunks /\ held[cons[p].e] = 0 /\ held' = [held EXCEPT ![cons[p].e] = 1]
  BY AllocGets DEF AllocDone, IoIInv, Pollers
<1>3. poller[p].pc = "alloc" /\ r \in Requests /\ Untouched(r) /\ handler[r] = "running"
  BY DEF AllocDone, IoIInv, PollersOK
<1>4. poller' = [poller EXCEPT ![p] = s] /\ s \in PollerStates
  <2>1. poller[p] \in PollerStates
    BY DEF IoIInv, IoTypes
  <2>. QED
    BY <1>2, <2>1 DEF AllocDone, IoIInv, IoTypes, PollerStates
<1>. HIDE DEF s
<1>5. s.pc = "submit" /\ s.req = r /\ s.chunk = cons[p].e /\ poller'[p] = s /\ poller[p] \in PollerStates /\ \A q \in Pollers : q = p
  BY <1>4, OnePoller DEF IoIInv, IoTypes, PollerStates, s
<1>6. ctx' = [ctx EXCEPT ![cons[p].e] = r]
  BY DEF AllocDone
<1>7. PICK c \in Chunks : c = cons[p].e
  BY <1>2
<1>. HIDE DEF r
<1>8. \A t \in Requests : (Untouched(t)' <=> Untouched(t)) /\ (GivenUp(t)' <=> GivenUp(t))
  BY <1>1, <1>3, <1>5 DEF Untouched, GivenUp
<1>9. \A d \in Chunks : held[d] = 1 => d # c /\ held'[d] = 1 /\ ctx'[d] = ctx[d]
  BY <1>2, <1>6, <1>7 DEF IoIInv, IoTypes, PoolIInv, PoolTypeOK
<1>10. held'[c] = 1 /\ ctx'[c] = r
  BY <1>2, <1>6, <1>7 DEF IoIInv, IoTypes, PoolIInv, PoolTypeOK
<1>11. reaper.chunk # c
  BY <1>2, <1>7, IoAssumption DEF IoIInv, ReaperOK
<1>12. IoTypes'
  BY <1>1, <1>3, <1>4, <1>6 DEF IoIInv, IoTypes
<1>13. PollersOK'
  BY <1>1, <1>3, <1>5, <1>7, <1>8, <1>10, <1>11 DEF PollersOK
<1>14. RequestsOK'
  BY <1>1, <1>8 DEF IoIInv, RequestsOK
<1>15. LiveOK'
  <2>1. \A e \in Live : e.chunk \in Chunks /\ e.req \in Requests
    BY DEF IoIInv, IoTypes, Live, Entry
  <2>. QED
    BY <1>1, <1>8, <1>9, <2>1 DEF IoIInv, LiveOK
<1>16. ReaperOK'
  <2>1. reaper.chunk # None => reaper.chunk \in Chunks
    BY DEF IoIInv, IoTypes
  <2>2. ReaperOK
    BY DEF IoIInv
  <2>3. reaper.chunk # None => held'[reaper.chunk] = 1 /\ ctx'[reaper.chunk] = ctx[reaper.chunk]
    BY <1>9, <2>1, <2>2 DEF ReaperOK
  <2>. QED
    BY <1>1, <2>2, <2>3 DEF ReaperOK
<1>17. HeldOK'
  <2>1. Owned(c)'
    BY <1>5, <1>7 DEF Owned
  <2>2. ASSUME NEW d \in Chunks, d # c, held'[d] = 1
        PROVE  Owned(d)' \/ LeftBehind(d)'
    <3>1. held[d] = 1
      BY <1>2, <1>7, <2>2 DEF IoIInv, PoolIInv, PoolTypeOK
    <3>2. ctx'[d] = ctx[d]
      BY <1>9, <3>1
    <3>3. Owned(d) => Owned(d)'
      BY <1>1, <1>3, <1>5 DEF Owned
    <3>4. LeftBehind(d) => LeftBehind(d)'
      BY <1>1, <1>3, <1>5, <3>2 DEF LeftBehind, GivenUp
    <3>. QED
      BY <3>1, <3>3, <3>4 DEF IoIInv, HeldOK
  <2>. QED
    BY <2>1, <2>2 DEF HeldOK
<1>. QED
  BY <1>12, <1>13, <1>14, <1>15, <1>16, <1>17 DEF UsersOK

(* A submit of poller p: the entries new are added, and the handler will return x. *)
Submits(p, new, x) ==
  /\ poller[p].pc = "submit"
  /\ poller' = [poller EXCEPT ![p].pc = x]
  /\ x = "deferred" \/ (x = "handled" /\ fault' = [fault EXCEPT ![poller[p].req] = "submit"])
  /\ x = "deferred" => fault' = fault
  /\ Live' = Live \cup new /\ new \subseteq {Prepared(p)}
  /\ new = {} => backend = "aio" /\ x = "handled"
  /\ backend = "aio" /\ new # {} => x = "deferred"
  /\ UNCHANGED <<held, prod, backend, handler, completions, ctx, reaper>>

LEMMA SubmitSorts ==
  ASSUME IoIInv, NEW p \in Pollers, UringSubmit(p) \/ AioSubmit(p)
  PROVE  /\ sq' \subseteq Entry /\ io' \subseteq Entry /\ sq' \cap io' = {}
         /\ \E new, x : Submits(p, new, x)
<1>1. Prepared(p) \in Entry
  BY DEF IoIInv, PollersOK, UringSubmit, AioSubmit, Prepared, Entry
<1>2. sq' \subseteq Entry /\ io' \subseteq Entry /\ sq' \cap io' = {}
  <2>1. Prepared(p) \notin sq \cup io
    BY DEF UringSubmit, AioSubmit, IoIInv, PollersOK, Untouched, Live, Prepared
  <2>. QED
    BY <1>1, <2>1 DEF UringSubmit, AioSubmit, IoIInv, IoTypes, LiveOK
<1>3. CASE UringSubmit(p)
  <2>1. Submits(p, {Prepared(p)}, "deferred") \/ Submits(p, {Prepared(p)}, "handled")
    BY <1>3 DEF UringSubmit, SubmitFails, Submits, Live, poolVars
  <2>. QED
    BY <1>2, <2>1
<1>4. CASE AioSubmit(p)
  <2>1. Submits(p, {Prepared(p)}, "deferred") \/ Submits(p, {}, "handled")
    BY <1>4 DEF AioSubmit, SubmitFails, Submits, Live, poolVars
  <2>. QED
    BY <1>2, <2>1
<1>. QED
  BY <1>3, <1>4

LEMMA SubmitKeeps ==
  ASSUME Spsc, IoIInv, NEW p \in Pollers, UringSubmit(p) \/ AioSubmit(p)
  PROVE  UsersOK'
<1>1. PICK new, x : Submits(p, new, x)
  BY SubmitSorts
<1>2. sq' \subseteq Entry /\ io' \subseteq Entry /\ sq' \cap io' = {}
  BY SubmitSorts
<1>. DEFINE s == [poller[p] EXCEPT !.pc = x]
<1>3. UNCHANGED <<held, prod, backend, handler, completions, ctx, reaper>>
  BY <1>1 DEF Submits
<1>4. PICK r \in Requests, c \in Chunks :
        /\ r = poller[p].req /\ handler[r] = "running" /\ Untouched(r)
        /\ c = poller[p].chunk /\ reaper.chunk # c /\ held[c] = 1 /\ ctx[c] = r
        /\ x \in {"handled", "deferred"}
  BY <1>1 DEF Submits, IoIInv, PollersOK
<1>5. poller' = [poller EXCEPT ![p] = s] /\ s \in PollerStates
  BY <1>1, <1>4 DEF Submits, IoIInv, IoTypes, PollerStates
<1>. HIDE DEF s
<1>6. s.pc = x /\ s.req = r /\ poller'[p] = s /\ poller[p] \in PollerStates /\ \A q \in Pollers : q = p
  BY <1>4, <1>5, OnePoller DEF IoIInv, IoTypes, PollerStates, s
<1>7. \A e \in new : e.req = r /\ e.chunk = c
  BY <1>1, <1>4 DEF Submits, Prepared
<1>8. Live' = Live \cup new /\ \A e, f \in new : e = f
  BY <1>1 DEF Submits
<1>9. \A t \in Requests : t # r => (Untouched(t)' <=> Untouched(t)) /\ (GivenUp(t)' <=> GivenUp(t))
  BY <1>3, <1>4, <1>6, <1>7, <1>8 DEF Untouched, GivenUp
<1>10. GivenUp(r)' <=> x = "handled"
  BY <1>3, <1>4, <1>6 DEF GivenUp
<1>11. fault' \in [Requests -> {None, "submit", "event"}] /\ (x = "handled" => fault'[r] = "submit")
       /\ \A t \in Requests : t # r => fault'[t] = fault[t]
  BY <1>1, <1>4 DEF Submits, IoIInv, IoTypes
<1>12. IoTypes'
  BY <1>2, <1>3, <1>5, <1>11 DEF IoIInv, IoTypes
<1>13. PollersOK'
  BY <1>3, <1>4, <1>6 DEF PollersOK
<1>14. RequestsOK'
  <2>1. completions[r] = 0 /\ handler[r] # "queued"
    BY <1>4 DEF Untouched
  <2>. QED
    BY <1>3, <1>9, <1>10, <1>11, <2>1 DEF IoIInv, RequestsOK
<1>15. LiveOK'
  <2>1. \A e \in Live : e.req \in Requests /\ e.req # r
    BY <1>4 DEF IoIInv, IoTypes, Live, Entry, Untouched
  <2>2. completions[r] = 0
    BY <1>4 DEF Untouched
  <2>3. ASSUME NEW e \in Live
        PROVE  /\ held'[e.chunk] = 1 /\ ctx'[e.chunk] = e.req /\ completions'[e.req] = 0
               /\ reaper'.chunk # e.chunk /\ (backend' = "aio" => ~GivenUp(e.req)')
    <3>1. GivenUp(e.req)' <=> GivenUp(e.req)
      BY <1>9, <2>1
    <3>. QED
      BY <1>3, <3>1 DEF IoIInv, LiveOK
  <2>4. ASSUME NEW e \in new
        PROVE  /\ held'[e.chunk] = 1 /\ ctx'[e.chunk] = e.req /\ completions'[e.req] = 0
               /\ reaper'.chunk # e.chunk /\ (backend' = "aio" => ~GivenUp(e.req)')
    <3>1. backend = "aio" => x = "deferred"
      BY <1>1, <2>4 DEF Submits
    <3>2. GivenUp(e.req)' <=> x = "handled"
      BY <1>7, <1>10
    <3>. QED
      BY <1>3, <1>4, <1>7, <2>2, <3>1, <3>2
  <2>5. \A e, f \in Live' : e.req = f.req => e = f
    BY <1>7, <1>8, <2>1 DEF IoIInv, LiveOK
  <2>. QED
    BY <1>2, <1>8, <2>3, <2>4, <2>5 DEF LiveOK
<1>16. ReaperOK'
  <2>1. ReaperOK /\ reaper \in [pc : {"idle", "again", "free", "freeing", "stopped"}, req : {None},
                 chunk : Chunks \cup {None}]
    BY DEF IoIInv, IoTypes
  <2>2. reaper.pc = "again" => ctx[reaper.chunk] # r /\ ctx[reaper.chunk] \in Requests
    BY <1>4, <2>1 DEF ReaperOK, Untouched
  <2>. QED
    BY <1>3, <1>11, <2>1, <2>2 DEF ReaperOK
<1>17. HeldOK'
  <2>1. ASSUME NEW d \in Chunks, d # c, held[d] = 1
        PROVE  Owned(d)' \/ LeftBehind(d)'
    <3>1. Owned(d) => Owned(d)'
      BY <1>3, <1>4, <1>6, <1>8, <2>1 DEF Owned
    <3>2. ASSUME LeftBehind(d) PROVE LeftBehind(d)'
      <4>1. PICK t \in Requests : t = ctx[d] /\ GivenUp(t)
        BY <3>2 DEF LeftBehind
      <4>2. t # r
        BY <1>1, <1>4, <1>6, <4>1 DEF GivenUp, Submits
      <4>3. GivenUp(t)'
        BY <1>9, <4>1, <4>2
      <4>. QED
        BY <1>3, <3>2, <4>1, <4>3 DEF LeftBehind, GivenUp
    <3>. QED
      BY <2>1, <3>1, <3>2 DEF IoIInv, HeldOK
  <2>2. new # {} => Owned(c)'
    BY <1>7, <1>8 DEF Owned
  <2>3. new = {} => LeftBehind(c)'
    <3>1. new = {} => backend = "aio" /\ x = "handled"
      BY <1>1 DEF Submits
    <3>2. LeftBehind(c)' <=> backend' = "aio" /\ r \in Requests /\ GivenUp(r)'
      BY <1>3, <1>4 DEF LeftBehind, GivenUp
    <3>. QED
      BY <1>3, <1>4, <1>10, <3>1, <3>2
  <2>. QED
    BY <1>3, <2>1, <2>2, <2>3 DEF HeldOK
<1>. QED
  BY <1>12, <1>13, <1>14, <1>15, <1>16, <1>17 DEF UsersOK

LEMMA ReturnKeeps ==
  ASSUME Spsc, IoIInv, NEW p \in Pollers, Return(p)
  PROVE  UsersOK'
<1>1. UNCHANGED <<held, prod, backend, completions, ctx, sq, io, reaper, fault>> /\ Live' = Live
  BY DEF Return, poolVars, Live
<1>2. PICK r \in Requests, x \in {"handled", "deferred"} :
        r = poller[p].req /\ x = poller[p].pc /\ handler[r] = "running"
  BY DEF Return, IoIInv, PollersOK
<1>3. handler' = [handler EXCEPT ![r] = x] /\ poller' = [poller EXCEPT ![p] = AtRest]
  BY <1>2 DEF Return
<1>4. AtRest.pc = "idle" /\ AtRest.req = None /\ AtRest \in PollerStates
  BY DEF AtRest, PollerStates
<1>5. poller'[p] = AtRest /\ poller[p] \in PollerStates /\ \A q \in Pollers : q = p
  BY <1>3, OnePoller DEF IoIInv
<1>6. handler'[r] = x /\ \A t \in Requests : t # r => handler'[t] = handler[t]
  BY <1>2, <1>3 DEF IoIInv, IoTypes
<1>7. \A t \in Requests : (Untouched(t)' <=> Untouched(t)) /\ (GivenUp(t)' <=> GivenUp(t))
  <2>1. \A t \in Requests : Untouched(t)' <=> Untouched(t)
    BY <1>1 DEF Untouched
  <2>2. GivenUp(r)' <=> GivenUp(r)
    BY <1>2, <1>4, <1>5, <1>6 DEF GivenUp
  <2>3. ASSUME NEW t \in Requests, t # r PROVE GivenUp(t)' <=> GivenUp(t)
    BY <1>2, <1>4, <1>5, <1>6, <2>3 DEF GivenUp
  <2>. QED
    BY <2>1, <2>2, <2>3
<1>8. IoTypes'
  BY <1>1, <1>2, <1>3, <1>4 DEF IoIInv, IoTypes
<1>9. PollersOK'
  BY <1>4, <1>5 DEF PollersOK
<1>10. RequestsOK'
  BY <1>1, <1>2, <1>6, <1>7 DEF IoIInv, RequestsOK
<1>11. LiveOK'
  BY <1>1, <1>7 DEF IoIInv, IoTypes, LiveOK, Live, Entry
<1>12. ReaperOK'
  BY <1>1 DEF IoIInv, ReaperOK
<1>13. HeldOK'
  <2>1. ASSUME NEW d \in Chunks, Owned(d) PROVE Owned(d)'
    BY <1>1, <1>2, <1>4, <1>5, <2>1 DEF Owned
  <2>2. ASSUME NEW d \in Chunks, LeftBehind(d) PROVE LeftBehind(d)'
    <3>1. ctx'[d] = ctx[d] /\ ctx[d] \in Requests
      BY <1>1, <2>2 DEF LeftBehind
    <3>2. PICK t \in Requests : t = ctx[d]
      BY <3>1
    <3>3. GivenUp(t)'
      BY <1>7, <2>2, <3>2 DEF LeftBehind
    <3>. QED
      BY <1>1, <2>2, <3>1, <3>2, <3>3 DEF LeftBehind, GivenUp
  <2>. QED
    BY <1>1, <2>1, <2>2 DEF IoIInv, HeldOK
<1>. QED
  BY <1>8, <1>9, <1>10, <1>11, <1>12, <1>13 DEF UsersOK

(* The completion thread takes entry e, and completes its request; y is what it does next. *)
Reaps(e, y) ==
  /\ reaper.pc = "idle" /\ e \in io /\ io' = io \ {e} /\ sq' = sq
  /\ completions' = [completions EXCEPT ![ctx[e.chunk]] = @ + 1]
  /\ reaper' = [AtRest EXCEPT !.pc = y, !.chunk = e.chunk]
  /\ \/ y = "free" /\ fault' = fault
     \/ y = "again" /\ backend = "aio" /\ fault' = [fault EXCEPT ![e.req] = "event"]
  /\ UNCHANGED <<held, prod, backend, handler, poller, ctx>>

LEMMA ReapKeeps ==
  ASSUME IoIInv, NEW e \in Entry, UringReap(e) \/ AioReap(e)
  PROVE  UsersOK'
<1>1. PICK y : Reaps(e, y)
  <2>1. Reaps(e, "free") \/ Reaps(e, "again")
    BY DEF UringReap, AioReap, Complete, Reaps, poolVars
  <2>. QED
    BY <2>1
<1>2. PICK r \in Requests, c \in Chunks : r = e.req /\ c = e.chunk
  BY DEF Entry
<1>3. UNCHANGED <<held, prod, backend, handler, poller, ctx>>
  BY <1>1 DEF Reaps
<1>4. e \in Live /\ e \notin sq /\ Live' = Live \ {e} /\ y \in {"free", "again"}
  BY <1>1 DEF Reaps, Live, IoIInv, LiveOK
<1>5. held[c] = 1 /\ ctx[c] = r /\ completions[r] = 0 /\ (backend = "aio" => ~GivenUp(r))
  BY <1>2, <1>4 DEF IoIInv, LiveOK
<1>6. /\ completions' = [completions EXCEPT ![r] = 1]
      /\ completions'[r] = 1 /\ \A t \in Requests : t # r => completions'[t] = completions[t]
  BY <1>1, <1>2, <1>5 DEF Reaps, IoIInv, IoTypes
<1>7. reaper'.pc = y /\ reaper'.chunk = c /\ reaper'.req = None /\ reaper.pc = "idle"
  BY <1>1, <1>2 DEF Reaps, AtRest
<1>8. reaper' \in [pc : {"idle", "again", "free", "freeing", "stopped"}, req : {None},
                   chunk : Chunks \cup {None}]
  BY <1>1, <1>2, <1>4 DEF Reaps, AtRest
<1>9. /\ fault' \in [Requests -> {None, "submit", "event"}] /\ (y = "again" => fault'[r] = "event")
      /\ y = "again" => backend = "aio"
      /\ \A t \in Requests : (t # r \/ y = "free") => fault'[t] = fault[t]
  BY <1>1, <1>2 DEF Reaps, IoIInv, IoTypes
<1>10. \A f \in Live' : f \in Live /\ f.req # r /\ f.chunk # c /\ f.req \in Requests
  BY <1>2, <1>4, <1>5 DEF IoIInv, IoTypes, LiveOK, Live, Entry
<1>11. \A t \in Requests : (Untouched(t) => t # r) /\ (t # r => (Untouched(t)' <=> Untouched(t)))
  BY <1>2, <1>4, <1>6 DEF Untouched
<1>12. \A t \in Requests : GivenUp(t)' <=> GivenUp(t)
  BY <1>3 DEF GivenUp
<1>13. IoTypes'
  <2>1. completions' \in [Requests -> 0..2]
    BY <1>6 DEF IoIInv, IoTypes
  <2>2. io' \subseteq Entry /\ sq' \subseteq Entry
    BY <1>1 DEF Reaps, IoIInv, IoTypes
  <2>. QED
    BY <1>3, <1>8, <1>9, <2>1, <2>2 DEF IoIInv, IoTypes
<1>14. PollersOK'
  <2>1. ASSUME NEW p \in Pollers, poller[p].pc \in {"alloc", "submit"}
        PROVE  poller[p].req \in Requests /\ Untouched(poller[p].req)
    BY <2>1 DEF IoIInv, PollersOK
  <2>2. ASSUME NEW p \in Pollers, poller[p].pc \in {"alloc", "submit"} PROVE Untouched(poller[p].req)'
    <3>1. PICK t \in Requests : t = poller[p].req /\ Untouched(t)
      BY <2>1, <2>2
    <3>2. Untouched(t)'
      BY <1>11, <3>1
    <3>. QED
      BY <1>3, <3>1, <3>2 DEF Untouched
  <2>3. ASSUME NEW p \in Pollers, poller[p].pc = "submit" PROVE poller[p].chunk # c
    BY <1>5, <1>11, <2>1, <2>3 DEF IoIInv, PollersOK
  <2>. QED
    BY <1>3, <1>7, <2>2, <2>3 DEF IoIInv, PollersOK
<1>15. RequestsOK'
  <2>1. ASSUME NEW t \in Requests, handler'[t] = "queued" PROVE Untouched(t)'
    BY <1>3, <1>11, <2>1 DEF IoIInv, RequestsOK
  <2>2. ASSUME NEW t \in Requests, GivenUp(t)' PROVE fault'[t] = "submit"
    BY <1>4, <1>5, <1>9, <1>12, <2>2 DEF IoIInv, RequestsOK
  <2>3. ASSUME NEW t \in Requests, completions'[t] = 2 PROVE fault'[t] = "event"
    BY <1>6, <1>9, <2>3 DEF IoIInv, RequestsOK
  <2>. QED
    BY <2>1, <2>2, <2>3 DEF RequestsOK
<1>16. LiveOK'
  <2>1. ASSUME NEW f \in Live'
        PROVE  /\ held'[f.chunk] = 1 /\ ctx'[f.chunk] = f.req /\ completions'[f.req] = 0
               /\ reaper'.chunk # f.chunk /\ (backend' = "aio" => ~GivenUp(f.req)')
    <3>1. GivenUp(f.req)' <=> GivenUp(f.req)
      BY <1>3 DEF GivenUp
    <3>. QED
      BY <1>3, <1>6, <1>7, <1>10, <3>1 DEF IoIInv, LiveOK
  <2>2. \A f, g \in Live' : f.req = g.req => f = g
    BY <1>10 DEF IoIInv, LiveOK
  <2>3. sq' \cap io' = {}
    BY <1>1 DEF Reaps, IoIInv, LiveOK
  <2>. QED
    BY <2>1, <2>2, <2>3 DEF LiveOK
<1>17. ReaperOK'
  BY <1>1, <1>2, <1>3, <1>4, <1>5, <1>6, <1>7, <1>9, IoAssumption DEF IoIInv, ReaperOK
<1>18. HeldOK'
  <2>1. ASSUME NEW d \in Chunks, d # c, Owned(d) PROVE Owned(d)'
    <3>1. reaper.chunk # d
      BY <1>7, IoAssumption DEF IoIInv, ReaperOK
    <3>. QED
      BY <1>2, <1>3, <1>4, <2>1, <3>1 DEF Owned
  <2>2. ASSUME NEW d \in Chunks, LeftBehind(d) PROVE LeftBehind(d)'
    BY <1>3, <2>2 DEF LeftBehind, GivenUp
  <2>3. Owned(c)'
    BY <1>7 DEF Owned
  <2>. QED
    BY <1>3, <2>1, <2>2, <2>3 DEF IoIInv, HeldOK
<1>. QED
  BY <1>13, <1>14, <1>15, <1>16, <1>17, <1>18 DEF UsersOK

(* Steps of the completion thread that leave its entries alone. *)
LEMMA QuietReaper ==
  ASSUME IoIInv, UNCHANGED <<backend, handler, poller, ctx, sq, io, fault>>
  PROVE  /\ Live' = Live
         /\ \A t : GivenUp(t)' <=> GivenUp(t)
         /\ \A c \in Chunks : LeftBehind(c) => LeftBehind(c)'
         /\ \A c \in Chunks : Owned(c) /\ reaper.chunk # c => Owned(c)'
         /\ \A e \in Live : e.req \in Requests /\ e.chunk \in Chunks
  BY DEF Live, GivenUp, LeftBehind, Owned, IoIInv, IoTypes, Entry

LEMMA AgainKeeps ==
  ASSUME IoIInv, AioAgain
  PROVE  UsersOK'
<1>1. UNCHANGED <<held, prod, backend, handler, poller, ctx, sq, io, fault>>
  BY DEF AioAgain, poolVars
<1>2. PICK c \in Chunks, r \in Requests :
        /\ c = reaper.chunk /\ r = ctx[c] /\ reaper.pc = "again" /\ held[c] = 1
        /\ completions[r] = 1 /\ fault[r] = "event"
  BY DEF AioAgain, IoIInv, ReaperOK, IoTypes
<1>3. /\ completions' = [completions EXCEPT ![r] = 2]
      /\ completions'[r] = 2 /\ \A t \in Requests : t # r => completions'[t] = completions[t]
  BY <1>2 DEF AioAgain, Complete, IoIInv, IoTypes
<1>4. reaper'.pc = "free" /\ reaper'.chunk = c
  BY <1>2 DEF AioAgain, IoIInv, IoTypes
<1>5. Live' = Live /\ \A t \in Requests : GivenUp(t)' <=> GivenUp(t)
  BY <1>1, QuietReaper
<1>6. \A t \in Requests : Untouched(t) => Untouched(t)'
  BY <1>2, <1>3, <1>5 DEF Untouched
<1>7. IoTypes'
  BY <1>1, <1>3 DEF AioAgain, IoIInv, IoTypes
<1>8. PollersOK'
  <2>1. ASSUME NEW p \in Pollers, poller[p].pc \in {"alloc", "submit"} PROVE Untouched(poller[p].req)'
    <3>1. PICK t \in Requests : t = poller[p].req /\ Untouched(t)
      BY <2>1 DEF IoIInv, PollersOK
    <3>. QED
      BY <1>1, <1>6, <3>1 DEF Untouched
  <2>. QED
    BY <1>1, <1>2, <1>4, <2>1 DEF IoIInv, PollersOK
<1>9. RequestsOK'
  BY <1>1, <1>2, <1>3, <1>5, <1>6 DEF IoIInv, RequestsOK
<1>10. LiveOK'
  <2>1. \A e \in Live : e.req \in Requests /\ completions[e.req] = 0
    BY <1>1, QuietReaper DEF IoIInv, LiveOK
  <2>2. \A e \in Live : e.req # r /\ completions'[e.req] = 0 /\ (GivenUp(e.req)' <=> GivenUp(e.req))
    BY <1>2, <1>3, <1>5, <2>1
  <2>. QED
    BY <1>1, <1>2, <1>4, <1>5, <2>2 DEF IoIInv, LiveOK
<1>11. ReaperOK'
  BY <1>1, <1>2, <1>4, IoAssumption DEF IoIInv, ReaperOK
<1>12. HeldOK'
  <2>1. Owned(c)'
    BY <1>4 DEF Owned
  <2>. QED
    BY <1>1, <1>2, <2>1, QuietReaper DEF IoIInv, HeldOK
<1>. QED
  BY <1>7, <1>8, <1>9, <1>10, <1>11, <1>12 DEF UsersOK

LEMMA StopKeeps ==
  ASSUME IoIInv, UringStops
  PROVE  UsersOK'
<1>1. UNCHANGED <<held, prod, backend, handler, completions, poller, ctx, sq, io, fault>>
  BY DEF UringStops, poolVars
<1>2. reaper'.pc = "stopped" /\ reaper'.chunk = None /\ reaper.pc = "idle" /\ reaper.chunk = None
  BY DEF UringStops, AtRest, IoIInv, ReaperOK
<1>3. Live' = Live /\ \A t : (GivenUp(t)' <=> GivenUp(t)) /\ (Untouched(t)' <=> Untouched(t))
  BY <1>1, QuietReaper DEF Untouched
<1>4. IoTypes'
  BY <1>1 DEF UringStops, AtRest, IoIInv, IoTypes
<1>5. PollersOK' /\ RequestsOK' /\ LiveOK' /\ ReaperOK'
  BY <1>1, <1>2, <1>3 DEF IoIInv, PollersOK, RequestsOK, LiveOK, ReaperOK
<1>6. HeldOK'
  BY <1>1, <1>2, QuietReaper, IoAssumption DEF IoIInv, HeldOK
<1>. QED
  BY <1>4, <1>5, <1>6 DEF UsersOK

(* mpool_free: the call begins with room in the ring, the chunk stays the      *)
(* completion thread's while it is in the call, and is nobody's afterwards.    *)
LEMMA FreeKeeps ==
  ASSUME Spsc, IoIInv, NEW q \in Producers, FreeStep(q)
  PROVE  UsersOK'
<1>1. UNCHANGED <<backend, handler, completions, poller, ctx, sq, io, fault>>
  BY DEF FreeStep
<1>2. PICK c \in Chunks : c = reaper.chunk /\ held[c] = 1 /\ c # None /\ ctx[c] \in Requests
  BY DEF FreeStep, IoIInv, ReaperOK, IoTypes
<1>3. Live' = Live /\ \A t : (GivenUp(t)' <=> GivenUp(t)) /\ (Untouched(t)' <=> Untouched(t))
  BY <1>1, QuietReaper DEF Untouched
<1>4. \A s \in Producers : s = q
  BY DEF Spsc
<1>5. prod \in [Producers -> [pc : {"idle", "store", "publish"}, at : Slots, e : Chunks \cup {None}]]
  BY DEF IoIInv, PoolIInv, PoolTypeOK
<1>6. ASSUME held' = held, reaper'.chunk = c, reaper'.pc = "freeing", prod'[q].pc # "idle", prod'[q].e = c,
             reaper' \in [pc : {"idle", "again", "free", "freeing", "stopped"}, req : {None},
                          chunk : Chunks \cup {None}]
      PROVE  UsersOK'
  <2>1. IoTypes'
    BY <1>1, <1>6 DEF IoIInv, IoTypes
  <2>2. PollersOK' /\ RequestsOK' /\ LiveOK'
    BY <1>1, <1>2, <1>3, <1>6 DEF IoIInv, PollersOK, RequestsOK, LiveOK
  <2>3. ReaperOK'
    BY <1>1, <1>2, <1>4, <1>6 DEF ReaperOK
  <2>4. Owned(c)'
    BY <1>6 DEF Owned
  <2>5. HeldOK'
    BY <1>1, <1>2, <1>6, <2>4, QuietReaper DEF IoIInv, HeldOK
  <2>. QED
    BY <2>1, <2>2, <2>3, <2>5 DEF UsersOK
<1>7. CASE reaper.pc = "free" /\ FreeCheck(q, reaper.chunk)
           /\ reaper' = IF prod'[q] = NoCall THEN AtRest ELSE [reaper EXCEPT !.pc = "freeing"]
  <2>1. c \in Usable
    BY <1>2, MpoolAssumption DEF IoIInv, PoolIInv, RingOK, Chunks, Usable
  <2>2. Inc(p_tail) # c_head
    BY <1>2, <2>1, NotFull DEF IoIInv, PoolIInv
  <2>3. prod' = [prod EXCEPT ![q] = [pc |-> "store", at |-> p_tail, e |-> c]] /\ held' = held
    BY <1>2, <1>7, <2>2 DEF FreeCheck
  <2>4. prod'[q].pc = "store" /\ prod'[q].e = c
    BY <1>5, <2>3
  <2>5. reaper' = [reaper EXCEPT !.pc = "freeing"]
    BY <1>7, <2>4 DEF NoCall
  <2>6. /\ reaper'.chunk = c /\ reaper'.pc = "freeing"
        /\ reaper' \in [pc : {"idle", "again", "free", "freeing", "stopped"}, req : {None},
                         chunk : Chunks \cup {None}]
    BY <1>2, <2>5 DEF IoIInv, IoTypes
  <2>. QED
    BY <1>6, <2>3, <2>4, <2>6
<1>8. CASE reaper.pc = "freeing" /\ FreeStore(q) /\ UNCHANGED reaper
  <2>1. prod[q].e = c
    BY <1>2, <1>8 DEF IoIInv, ReaperOK
  <2>2. prod' = [prod EXCEPT ![q].pc = "publish"] /\ held' = held
    BY <1>8 DEF FreeStore
  <2>3. prod'[q].pc = "publish" /\ prod'[q].e = c
    BY <1>5, <2>1, <2>2
  <2>. QED
    BY <1>2, <1>6, <1>8, <2>2, <2>3 DEF IoIInv, IoTypes
<1>9. CASE reaper.pc = "freeing" /\ FreePublish(q) /\ reaper' = AtRest
  <2>1. prod[q].e = c
    BY <1>2, <1>9 DEF IoIInv, ReaperOK
  <2>2. prod' = [prod EXCEPT ![q] = NoCall] /\ held' = [held EXCEPT ![c] = 0]
    <3>1. prod' = [prod EXCEPT ![q] = NoCall] /\ held' = [held EXCEPT ![c] = held[c] - 1]
      BY <1>9, <2>1 DEF FreePublish
    <3>. QED
      BY <1>2, <3>1
  <2>3. prod'[q] = NoCall /\ held'[c] = 0 /\ \A d \in Chunks : d # c => held'[d] = held[d]
    BY <1>2, <1>5, <2>2 DEF IoIInv, PoolIInv, PoolTypeOK
  <2>4. reaper'.chunk = None /\ reaper'.pc = "idle"
    BY <1>9 DEF AtRest
  <2>5. IoTypes'
    BY <1>1, <1>9 DEF IoIInv, IoTypes, AtRest
  <2>6. PollersOK'
    <3>1. ASSUME NEW p \in Pollers, poller[p].pc = "submit"
          PROVE  held'[poller[p].chunk] = 1 /\ reaper'.chunk # poller[p].chunk
      <4>1. poller[p].chunk \in Chunks /\ poller[p].chunk # c /\ held[poller[p].chunk] = 1
        BY <1>2, <3>1 DEF IoIInv, PollersOK
      <4>. QED
        BY <2>3, <2>4, <4>1, IoAssumption
    <3>. QED
      BY <1>1, <1>3, <3>1 DEF IoIInv, PollersOK
  <2>7. RequestsOK'
    BY <1>1, <1>3 DEF IoIInv, RequestsOK
  <2>8. LiveOK'
    <3>1. ASSUME NEW e \in Live PROVE held'[e.chunk] = 1 /\ reaper'.chunk # e.chunk
      <4>1. e.chunk \in Chunks /\ e.chunk # c /\ held[e.chunk] = 1
        BY <1>1, <1>2, <3>1, QuietReaper DEF IoIInv, LiveOK
      <4>. QED
        BY <2>3, <2>4, <4>1, IoAssumption
    <3>. QED
      BY <1>1, <1>3, <3>1 DEF IoIInv, LiveOK
  <2>9. ReaperOK'
    BY <1>4, <2>3, <2>4 DEF ReaperOK
  <2>10. HeldOK'
    BY <1>1, <1>2, <2>3, QuietReaper DEF IoIInv, HeldOK
  <2>. QED
    BY <2>5, <2>6, <2>7, <2>8, <2>9, <2>10 DEF UsersOK
<1>. QED
  BY <1>7, <1>8, <1>9 DEF FreeStep

-----------------------------------------------------------------------------
LEMMA IoStepsKeep ==
  ASSUME Spsc, IoIInv, [Next]_ioVars
  PROVE  IoIInv' /\ [Contract!Next]_<<InRing, held>>
<1>1. PoolIInv' /\ [Contract!Next]_<<InRing, held>>
  BY PoolSteps, StepsKeep DEF IoIInv
<1>2. CASE UNCHANGED ioVars
  <2>1. UNCHANGED <<held, prod, backend, handler, completions, poller, ctx, sq, io, reaper, fault>>
    BY <1>2 DEF ioVars, poolVars
  <2>. QED
    BY <1>1, <2>1 DEF IoIInv, IoTypes, PollersOK, RequestsOK, LiveOK, ReaperOK, HeldOK, Owned,
                      LeftBehind, GivenUp, Untouched, Live
<1>3. CASE Next
  <2>1. UsersOK'
    BY <1>3, DeliverKeeps, AllocKeeps, AllocDoneKeeps, SubmitKeeps, ReturnKeeps, ReapKeeps,
       AgainKeeps, FreeKeeps, StopKeeps DEF Next, PollerStep, ReaperStep
  <2>. QED
    BY <1>1, <2>1 DEF IoIInv, UsersOK
<1>. QED
  BY <1>1, <1>2, <1>3

(* The inductive invariant of handlers, entries and the completion thread on  *)
(* one pool: each chunk that is out of the ring is one party's.               *)
THEOREM IoInvariance == ASSUME Spsc PROVE Spec => []IoIInv
<1>1. Init => IoIInv
  BY IoInitHolds
<1>2. IoIInv /\ [Next]_ioVars => IoIInv'
  BY IoStepsKeep
<1>. QED
  BY <1>1, <1>2, PTL DEF Spec

(* Chunks, positions of the ring, contexts and entries stay in range. *)
THEOREM IoTypeCorrect == ASSUME Spsc PROVE Spec => []IoTypeOK
<1>1. IoIInv => IoTypeOK
  BY DEF IoIInv, IoTypes, IoTypeOK, PoolIInv, PoolTypeOK
<1>. QED
  BY <1>1, IoInvariance, PTL

(* A request is completed at most once, and not at all when its handler       *)
(* answered it, but for a failed submit of uring and a failed event of aio.   *)
THEOREM CompletesOnce == ASSUME Spsc PROVE Spec => []OnceUnlessFault
<1>1. IoIInv => OnceUnlessFault
  <2>1. ASSUME IoIInv, NEW r \in Requests, fault[r] # "event" PROVE completions[r] <= 1
    <3>1. completions[r] \in 0..2 /\ completions[r] # 2
      BY <2>1 DEF IoIInv, IoTypes, RequestsOK
    <3>. QED
      BY <3>1
  <2>2. ASSUME IoIInv, NEW r \in Requests, handler[r] = "handled" PROVE fault[r] = "submit"
    BY <2>2 DEF IoIInv, RequestsOK, GivenUp
  <2>3. ASSUME IoIInv, NEW e \in sq \cup io PROVE ctx[e.chunk] = e.req
    BY <2>3 DEF IoIInv, LiveOK, Live
  <2>. QED
    BY <2>1, <2>2, <2>3 DEF OnceUnlessFault
<1>. QED
  BY <1>1, IoInvariance, PTL

(* The counts that make up the owners of a chunk. *)
LEMMA OneOrNone ==
  ASSUME NEW S, \A x, y \in S : x = y
  PROVE  Cardinality(S) = IF S = {} THEN 0 ELSE 1
<1>1. CASE S = {}
  BY <1>1, FS_EmptySet
<1>2. CASE S # {}
  <2>1. PICK x : S = {x}
    BY <1>2
  <2>. QED
    BY <2>1, FS_Singleton
<1>. QED
  BY <1>1, <1>2

(* A chunk that is handed out has exactly one owner: a handler, an I/O or the *)
(* completion thread, but for the one that a failed io_submit leaves behind.  *)
THEOREM ChunksAreAccounted == ASSUME Spsc PROVE Spec => []ChunksAccounted
<1>1. ASSUME IoIInv PROVE ChunksAccounted
  <2>. SUFFICES ASSUME NEW c \in Chunks
       PROVE  /\ held[c] = 1 => \/ Owners(c) = 1
                                \/ backend = "aio" /\ Owners(c) = 0 /\ fault[ctx[c]] = "submit"
              /\ held[c] = 0 => Owners(c) = 0
    BY DEF ChunksAccounted
  <2>. DEFINE P == {p \in Pollers : poller[p].chunk = c /\ poller[p].pc = "submit"}
              E == {e \in sq \cup io : e.chunk = c}
  <2>1. \A p, q \in P : p = q
    BY DEF Spsc, Pollers
  <2>2. \A e, f \in E : e = f
    BY <1>1 DEF IoIInv, LiveOK, Live
  <2>3. /\ Cardinality(P) = IF P = {} THEN 0 ELSE 1
        /\ Cardinality(E) = IF E = {} THEN 0 ELSE 1
    BY <2>1, <2>2, OneOrNone
  <2>4. Owners(c) = Cardinality(P) + Cardinality(E) + (IF reaper.chunk = c THEN 1 ELSE 0)
    BY DEF Owners
  <2>5. P # {} => held[c] = 1 /\ E = {} /\ reaper.chunk # c
    BY <1>1 DEF IoIInv, PollersOK, LiveOK, Live, Untouched
  <2>6. E # {} => held[c] = 1 /\ reaper.chunk # c
    BY <1>1 DEF IoIInv, LiveOK, Live
  <2>7. reaper.chunk = c => held[c] = 1
    BY <1>1, IoAssumption DEF IoIInv, ReaperOK
  <2>8. held[c] = 1 => P # {} \/ E # {} \/ reaper.chunk = c \/ LeftBehind(c)
    BY <1>1 DEF IoIInv, HeldOK, Owned, Live
  <2>9. LeftBehind(c) => backend = "aio" /\ fault[ctx[c]] = "submit"
    BY <1>1 DEF IoIInv, RequestsOK, LeftBehind
  <2>. HIDE DEF P, E
  <2>. QED
    BY <2>3, <2>4, <2>5, <2>6, <2>7, <2>8, <2>9
<1>. QED
  BY <1>1, IoInvariance, PTL

(* Handlers and the completion thread use the pool within its contract.       *)
THEOREM IoKeepsPoolContract == ASSUME Spsc PROVE Spec => PoolSpec
<1>1. Init => Contract!Init
  BY PoolStarts DEF Init
<1>2. IoIInv /\ [Next]_ioVars => [Contract!Next]_<<InRing, held>>
  BY IoStepsKeep
<1>. QED
  BY <1>1, <1>2, IoInvariance, PTL DEF Spec, PoolSpec, Contract!Spec
=============================================================================
