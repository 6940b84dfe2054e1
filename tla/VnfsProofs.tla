----------------------------- MODULE VnfsProofs -----------------------------
(***************************************************************************)
(* Theorems about dpfs_nfs (module Vnfs), for any number of threads,       *)
(* requests, chunks, slots and files.                                      *)
(*                                                                         *)
(* The invariants that the runs check are not inductive.  What makes them  *)
(* so is who holds what: every step of a request is taken by its current   *)
(* holder (the handler, then libnfs, then the callback), the holder's      *)
(* chunk carries the request's completion context and its slot, and no two *)
(* holders share a chunk, a slot or a request.                             *)
(***************************************************************************)
EXTENDS Vnfs, FiniteSetTheorems, TLAPS

(* The handler of thread t has a request it has not sent yet. *)
Before   == {"entry", "count", "alloc", "scan", "claim", "send", "free"}
WithCb   == {"scan", "claim", "send", "free"}
Calling  == CallbackPcs \ {"idle"}
CallingCb == Calling \ {"complete"}

(* The request the callback on thread t answers: it is in the chunk until  *)
(* the callback copies it to its stack.                                    *)
Copied == {"freeing", "complete"}
Serving(t) == IF nfs[t].pc \in Copied THEN nfs[t].ctx
              ELSE cbdata[t][nfs[t].cb].ctx

(* What the stacks of handlers and callbacks hold. *)
Stacks ==
  \A t \in Threads :
    /\ vq[t].pc # "idle" => /\ vq[t].r \in Requests /\ vq[t].op \in AllOps
                            /\ vq[t].file \in Files
    /\ vq[t].pc \in WithCb => vq[t].cb \in Chunks
    /\ vq[t].pc \in {"claim", "send"} => vq[t].pos \in Slots
    /\ nfs[t].pc \in Calling => nfs[t].cb \in Chunks
    /\ nfs[t].pc \in Calling => Serving(t) \in Requests

(* A chunk is held once. *)
ChunksHeld ==
  \A t \in Threads :
    /\ vq[t].pc \in WithCb => vq[t].cb \notin pool[t]
    /\ nfs[t].pc \in CallingCb => nfs[t].cb \notin pool[t]
    /\ vq[t].pc \in WithCb /\ nfs[t].pc \in CallingCb => vq[t].cb # nfs[t].cb
    /\ \A r \in Requests : Held(r) /\ wire[r].t = t =>
         /\ wire[r].cb \notin pool[t]
         /\ vq[t].pc \in WithCb => wire[r].cb # vq[t].cb
         /\ nfs[t].pc \in CallingCb => wire[r].cb # nfs[t].cb
         /\ \A q \in Requests : Held(q) /\ wire[q].t = t /\ q # r
              => wire[q].cb # wire[r].cb

(* A request has one holder, and its chunk carries its context and, from   *)
(* the claim on, its slot.                                                 *)
HeldByHandler ==
  \A t \in Threads : vq[t].pc # "idle" =>
    /\ handler[vq[t].r] = "running"
    /\ \A u \in Threads : vq[u].pc # "idle" /\ vq[u].r = vq[t].r => u = t
    /\ vq[t].pc \in Before =>
         /\ completions[vq[t].r] = 0
         /\ ~Held(vq[t].r)
         /\ \A u \in Threads : nfs[u].pc \in Calling => Serving(u) # vq[t].r
    /\ vq[t].pc \in WithCb => cbdata[t][vq[t].cb].ctx = vq[t].r
    /\ vq[t].pc = "send" => cbdata[t][vq[t].cb].slotid = vq[t].pos

HeldByLibnfs ==
  \A r \in Requests : Held(r) =>
    /\ handler[r] \in {"running", "deferred"} /\ completions[r] = 0
    /\ cbdata[wire[r].t][wire[r].cb].ctx = r
    /\ cbdata[wire[r].t][wire[r].cb].slotid = wire[r].slot
    /\ \A u \in Threads : nfs[u].pc \in Calling => Serving(u) # r

HeldByCallback ==
  \A t \in Threads : nfs[t].pc \in Calling =>
    /\ handler[Serving(t)] \in {"running", "deferred"}
    /\ completions[Serving(t)] = 0
    /\ nfs[t].pc = "slot" => cbdata[t][nfs[t].cb].slotid \in Slots
    /\ \A u \in Threads : nfs[u].pc \in Calling /\ Serving(u) = Serving(t)
         => u = t

RequestsHeld ==
  /\ \A r \in Requests : handler[r] = "queued" => completions[r] = 0
  /\ HeldByHandler /\ HeldByLibnfs /\ HeldByCallback

(* A slot that was claimed and not leaked has one holder. *)
HandlerSlot(t) ==
  /\ vq[t].pc = "claim" => ~in_use[t][vq[t].pos]
  /\ vq[t].pc = "send" => in_use[t][vq[t].pos]

CalledSlot(t) ==
  nfs[t].pc = "slot" =>
    /\ in_use[t][cbdata[t][nfs[t].cb].slotid]
    /\ vq[t].pc = "send" => cbdata[t][nfs[t].cb].slotid # vq[t].pos

CompoundSlot(t, r) ==
  Held(r) /\ wire[r].t = t =>
    /\ in_use[t][wire[r].slot]
    /\ vq[t].pc = "send" => wire[r].slot # vq[t].pos
    /\ nfs[t].pc = "slot" => wire[r].slot # cbdata[t][nfs[t].cb].slotid
    /\ \A q \in Requests : Held(q) /\ wire[q].t = t /\ q # r
         => wire[q].slot # wire[r].slot

SlotsHeldOn(t) == /\ HandlerSlot(t) /\ CalledSlot(t)
                  /\ \A r \in Requests : CompoundSlot(t, r)

SlotsHeld == \A t \in Threads : SlotsHeldOn(t)

(* The sequence id of a slot on which no compound was lost. *)
SequenceIdOf(t, s) ==
  /\ ~in_use[t][s] => seqid[t][s] = srvSeq[t][s]
  /\ vq[t].pc = "send" /\ vq[t].pos = s
       => seqid[t][s] = srvSeq[t][s] /\ vq[t].seq = seqid[t][s] + 1
  /\ nfs[t].pc = "slot" /\ cbdata[t][nfs[t].cb].slotid = s
       => seqid[t][s] = srvSeq[t][s]
  /\ \A r \in Requests : Held(r) /\ wire[r].t = t /\ wire[r].slot = s =>
       /\ wire[r].seq = seqid[t][s]
       /\ seqid[t][s] = srvSeq[t][s] + (IF wire[r].st = "sent" THEN 1 ELSE 0)

SequenceIds == \A t \in Threads : \A s \in Slots \ lost[t] : SequenceIdOf(t, s)

(* The callbacks on file f that will give the host a handle. *)
OpeningBy(t, f) ==
  /\ nfs[t].op = "open"
  /\ \/ nfs[t].pc \in {"openfh", "openst"}
     \/ nfs[t].pc \in {"free", "freeing", "complete"} /\ nfs[t].ok
  /\ f = IF nfs[t].pc \in Copied THEN nfs[t].file ELSE cbdata[t][nfs[t].cb].i
Opening(f) == {t \in Threads : OpeningBy(t, f)}

(* nopen also counts the handles that are on their way to the host. *)
OpensCounted ==
  \A f \in Files :
    nopen[f] >= handles[f] + Cardinality(Releasing(f)) + Cardinality(Opening(f))

(* File handles of the files that a lookup told the host, or is about to   *)
(* tell; the host knows the root without a lookup.                         *)
ToldFileHasFh == \A f \in known \ {Root} : fh[f] \in {"len", "set"}
RootHasFh     == fh[Root] \in {"len", "set"}

FhStored ==
  /\ ToldFileHasFh
  /\ \A r \in Requests :
       Held(r) /\ wire[r].op = "lookup" /\ wire[r].st = "ok" => wire[r].obj \in Files
  /\ \A t \in Threads :
       /\ nfs[t].pc \in {"slot", "effect"} /\ nfs[t].op = "lookup" /\ nfs[t].st = "ok"
            => nfs[t].obj \in Files
       /\ nfs[t].pc = "effect" => nfs[t].st = "ok"
       /\ nfs[t].pc \in {"openfh", "openst"} => nfs[t].op = "open"
       /\ nfs[t].pc \in {"clone", "bytes"} =>
            nfs[t].op = "lookup" /\ nfs[t].obj \in Files /\ fh[nfs[t].obj] # "absent"
       /\ nfs[t].op = "lookup" /\ nfs[t].pc \in {"free", "freeing", "complete"} /\ nfs[t].ok
            => nfs[t].obj \in Files /\ fh[nfs[t].obj] \in {"len", "set"}
       /\ nfs[t].pc \in {"slot", "effect"} => ~nfs[t].ok

(* A release that has yet to decrement nopen finds it positive. *)
ReleaseCounted == \A t \in Threads : Running(t, "release") => nopen[vq[t].file] >= 1

-----------------------------------------------------------------------------
(* What an assignment to one field of a stack, a chunk or a compound does. *)

VqMoved(t, pc, c, i, n) ==
  /\ vq' \in [Threads -> Poller]
  /\ vq'[t].pc = pc /\ vq'[t].r = vq[t].r /\ vq'[t].op = vq[t].op
  /\ vq'[t].file = vq[t].file
  /\ vq'[t].cb = c /\ vq'[t].pos = i /\ vq'[t].seq = n
  /\ \A u \in Threads \ {t} : vq'[u] = vq[u]

VqIdle(t) == /\ vq' \in [Threads -> Poller]
             /\ vq'[t].pc = "idle"
             /\ \A u \in Threads \ {t} : vq'[u] = vq[u]

NfsMoved(t, pc, ok, ctx, file) ==
  /\ nfs' \in [Threads -> Callback]
  /\ nfs'[t].pc = pc /\ nfs'[t].ok = ok /\ nfs'[t].ctx = ctx
  /\ nfs'[t].file = file /\ nfs'[t].cb = nfs[t].cb /\ nfs'[t].op = nfs[t].op
  /\ nfs'[t].st = nfs[t].st /\ nfs'[t].obj = nfs[t].obj
  /\ nfs'[t].new = nfs[t].new
  /\ \A u \in Threads \ {t} : nfs'[u] = nfs[u]

(* A poller that only changes its pc keeps the rest of its stack, and the  *)
(* other pollers theirs.                                                   *)
LEMMA MovePc ==
  ASSUME vq \in [Threads -> Poller], NEW t \in Threads, NEW x \in PollerPcs,
         vq' = [vq EXCEPT ![t].pc = x]
  PROVE  VqMoved(t, x, vq[t].cb, vq[t].pos, vq[t].seq)
  BY DEF Poller, VqMoved

(* mpool_alloc gives a poller its chunk and starts the slot scan. *)
LEMMA MoveCb ==
  ASSUME vq \in [Threads -> Poller], NEW t \in Threads, NEW x \in PollerPcs,
         NEW c \in Chunks, NEW i \in 0 .. NSlots,
         vq' = [vq EXCEPT ![t] = [@ EXCEPT !.pc = x, !.cb = c, !.pos = i]]
  PROVE  VqMoved(t, x, c, i, vq[t].seq)
  BY DEF Poller, VqMoved

(* Claiming a slot gives a poller its sequence id. *)
LEMMA MoveSeq ==
  ASSUME vq \in [Threads -> Poller], NEW t \in Threads, NEW x \in PollerPcs,
         NEW n \in Nat, vq' = [vq EXCEPT ![t] = [@ EXCEPT !.pc = x, !.seq = n]]
  PROVE  VqMoved(t, x, vq[t].cb, vq[t].pos, n)
  BY DEF Poller, VqMoved

(* A poller that scans on only changes its index. *)
LEMMA MovePos ==
  ASSUME vq \in [Threads -> Poller], NEW t \in Threads, NEW i \in 0 .. NSlots,
         vq' = [vq EXCEPT ![t].pos = i]
  PROVE  VqMoved(t, vq[t].pc, vq[t].cb, i, vq[t].seq)
  BY DEF Poller, VqMoved

(* A handler that returned leaves an idle poller. *)
LEMMA MoveIdle ==
  ASSUME vq \in [Threads -> Poller], NEW t \in Threads,
         vq' = [vq EXCEPT ![t] = IdlePoller]
  PROVE  VqIdle(t)
  BY VnfsAssumption DEF Poller, PollerPcs, IdlePoller, VqIdle

(* A callback that only changes its pc keeps the rest of its stack. *)
LEMMA CallPc ==
  ASSUME nfs \in [Threads -> Callback], NEW t \in Threads, NEW x \in CallbackPcs,
         nfs' = [nfs EXCEPT ![t].pc = x]
  PROVE  NfsMoved(t, x, nfs[t].ok, nfs[t].ctx, nfs[t].file)
  BY DEF Callback, NfsMoved

(* A callback that has its result keeps the rest of its stack. *)
LEMMA CallOk ==
  ASSUME nfs \in [Threads -> Callback], NEW t \in Threads, NEW x \in CallbackPcs,
         NEW b \in BOOLEAN,
         nfs' = [nfs EXCEPT ![t] = [@ EXCEPT !.pc = x, !.ok = b]]
  PROVE  NfsMoved(t, x, b, nfs[t].ctx, nfs[t].file)
  BY DEF Callback, NfsMoved

(* A callback that read its completion context keeps the rest of its       *)
(* stack.                                                                  *)
LEMMA CallCtx ==
  ASSUME nfs \in [Threads -> Callback], NEW t \in Threads, NEW x \in CallbackPcs,
         NEW r \in Requests \cup {None}, NEW f \in Files \cup {None},
         nfs' = [nfs EXCEPT ![t] = [@ EXCEPT !.pc = x, !.ctx = r, !.file = f]]
  PROVE  NfsMoved(t, x, nfs[t].ok, r, f)
  BY ZenonT(60) DEF Callback, NfsMoved

(* A callback that returned leaves an idle service thread. *)
LEMMA CallIdle ==
  ASSUME nfs \in [Threads -> Callback], NEW t \in Threads,
         nfs' = [nfs EXCEPT ![t] = IdleCallback]
  PROVE  /\ nfs' \in [Threads -> Callback]
         /\ nfs'[t].pc = "idle" /\ nfs'[t].op = None
         /\ \A u \in Threads \ {t} : nfs'[u] = nfs[u]
  BY DEF Callback, CallbackPcs, IdleCallback

(* Writing one cb_data chunk leaves all others alone. *)
LEMMA ChunkNew ==
  ASSUME cbdata \in [Threads -> [Chunks -> CbData]], NEW t \in Threads,
         NEW c \in Chunks, NEW d \in CbData, cbdata' = [cbdata EXCEPT ![t][c] = d]
  PROVE  /\ cbdata' \in [Threads -> [Chunks -> CbData]]
         /\ cbdata'[t][c] = d
         /\ \A u \in Threads, e \in Chunks :
              u # t \/ e # c => cbdata'[u][e] = cbdata[u][e]
  OBVIOUS

(* An answer changes the state and the object of its compound only. *)
LEMMA PduAnswer ==
  ASSUME wire \in [Requests -> Pdu \cup {None}], NEW r \in Requests, wire[r] # None,
         NEW x \in PduStates, NEW g \in Files \cup {None},
         \/ wire' = [wire EXCEPT ![r] = [@ EXCEPT !.st = x, !.obj = g]]
         \/ wire' = [wire EXCEPT ![r].st = x] /\ g = wire[r].obj
  PROVE  /\ wire' \in [Requests -> Pdu \cup {None}]
         /\ wire'[r] # None /\ wire'[r].st = x /\ wire'[r].obj = g
         /\ wire'[r].t = wire[r].t /\ wire'[r].cb = wire[r].cb
         /\ wire'[r].slot = wire[r].slot /\ wire'[r].seq = wire[r].seq
         /\ wire'[r].op = wire[r].op
         /\ \A q \in Requests \ {r} : wire'[q] = wire[q]
<1>1. wire[r] \in Pdu
  OBVIOUS
<1>2. CASE wire' = [wire EXCEPT ![r] = [@ EXCEPT !.st = x, !.obj = g]]
  BY <1>1, <1>2, NoPduAssumption DEF Pdu
<1>3. CASE wire' = [wire EXCEPT ![r].st = x] /\ g = wire[r].obj
  BY <1>1, <1>3, NoPduAssumption DEF Pdu
<1>. QED
  BY <1>2, <1>3
-----------------------------------------------------------------------------
(* Who holds what, preserved by every step.  Chunks and requests have one  *)
(* holder whoever else takes slots of the session, and so also while the   *)
(* connections are being set up (VnfsBootProofs); slots and sequence ids   *)
(* are safe because only the poller of the session takes slots.            *)

Owned   == TypeOK /\ Stacks /\ ChunksHeld /\ RequestsHeld
Holding == Owned /\ SlotsHeld /\ SequenceIds

(* Together with file handles and opens: all that does not need the slots. *)
Ownership == Owned /\ FhStored /\ OpensCounted

(* A request handed to an idle poller holds nothing yet. *)
LEMMA DeliverHolding ==
  ASSUME Owned, NEW t \in Threads, NEW r \in Requests, NEW op \in Ops,
         NEW f \in Files, Deliver(t, r, op, f)
  PROVE  Owned' /\ (Holding => Holding')
<1>1. /\ vq' \in [Threads -> Poller]
      /\ vq'[t].pc = "entry" /\ vq'[t].r = r /\ vq'[t].op = op /\ vq'[t].file = f
      /\ \A u \in Threads \ {t} : vq'[u] = vq[u]
  BY VnfsAssumption DEF Deliver, Owned, TypeOK, Poller, PollerPcs
<1>2. /\ vq[t].pc = "idle" /\ handler[r] = "queued"
      /\ handler' \in [Requests -> {"queued", "running", "handled", "deferred"}]
      /\ handler'[r] = "running"
      /\ \A q \in Requests \ {r} : handler'[q] = handler[q]
      /\ handles' \in [Files -> Nat]
  BY DEF Deliver, Owned, TypeOK
<1>3. UNCHANGED <<completions, pool, torn, cbdata, in_use, seqid, wire, nfs, fh,
                  nopen, fh_open, open_stateid, srvSeq, srvOpens, lost, known>>
  BY DEF Deliver, slotVars, inodeVars, openVars, poolVars, serverVars
<1>4. TypeOK'
  BY <1>1, <1>2, <1>3 DEF Owned, TypeOK
<1>5. \A u \in Threads : Serving(u)' = Serving(u)
  BY <1>3 DEF Serving, Copied
<1>6. Stacks'
  BY <1>1, <1>2, <1>3, <1>5, VnfsAssumption DEF Owned, Stacks, WithCb
<1>7. ChunksHeld'
  BY <1>1, <1>3 DEF Owned, ChunksHeld, WithCb, Held
<1>8. RequestsHeld'
  <2>1. /\ \A u \in Threads : vq[u].pc # "idle" => vq[u].r # r
        /\ ~Held(r) /\ completions[r] = 0
        /\ \A u \in Threads : nfs[u].pc \in Calling => Serving(u) # r
    BY <1>2 DEF Owned, RequestsHeld, HeldByHandler, HeldByLibnfs, HeldByCallback
  <2>2. HeldByHandler'
    BY <1>1, <1>2, <1>3, <1>5, <2>1
    DEF Owned, Stacks, RequestsHeld, HeldByHandler, WithCb, Held
  <2>3. HeldByLibnfs'
    BY <1>2, <1>3, <1>5, <2>1 DEF Owned, RequestsHeld, HeldByLibnfs, Held
  <2>4. HeldByCallback'
    BY <1>2, <1>3, <1>5, <2>1 DEF Owned, Stacks, RequestsHeld, HeldByCallback
  <2>. QED
    BY <1>2, <1>3, <2>2, <2>3, <2>4 DEF RequestsHeld, Owned
<1>9. Holding => SlotsHeld'
  BY <1>1, <1>3 DEF Holding, SlotsHeld, SlotsHeldOn, HandlerSlot, CalledSlot,
     CompoundSlot, Held
<1>10. Holding => SequenceIds'
  BY <1>1, <1>3 DEF Holding, SequenceIds, SequenceIdOf, Held
<1>. QED
  BY <1>4, <1>6, <1>7, <1>8, <1>9, <1>10 DEF Owned, Holding


(* The handler goes on without sending: vopen, vopen_count, release and    *)
(* the slot scan.                                                          *)
LEMMA GoesHolding ==
  ASSUME Owned, TypeOK', NEW t \in Threads, NEW x, NEW i,
         VqMoved(t, x, vq[t].cb, i, vq[t].seq),
         \/ vq[t].pc \in {"entry", "count"} /\ x \in {"count", "alloc"}
         \/ vq[t].pc = "scan" /\ x = "scan"
         \/ vq[t].pc = "scan" /\ x = "claim" /\ i \in Slots /\ ~in_use[t][i],
         UNCHANGED <<handler, completions, pool, torn, cbdata, in_use, seqid, wire, nfs,
                     srvSeq, lost>>
  PROVE  Owned' /\ (Holding => Holding')
<1>1. \A u \in Threads : Serving(u)' = Serving(u)
  BY DEF Serving, Copied
<1>2. Stacks'
  BY <1>1 DEF Owned, Stacks, WithCb, VqMoved
<1>3. ChunksHeld'
  BY DEF Owned, ChunksHeld, WithCb, Held, VqMoved
<1>4. RequestsHeld'
  <2>1. HeldByHandler'
    BY <1>1 DEF Owned, Stacks, RequestsHeld, HeldByHandler, WithCb, Before, Held,
       VqMoved
  <2>2. HeldByLibnfs'
    BY <1>1 DEF Owned, RequestsHeld, HeldByLibnfs, Held
  <2>3. HeldByCallback'
    BY <1>1 DEF Owned, RequestsHeld, HeldByCallback
  <2>. QED
    BY <2>1, <2>2, <2>3 DEF Owned, RequestsHeld
<1>5. Holding => SlotsHeld'
  <2> SUFFICES ASSUME Holding, NEW u \in Threads PROVE SlotsHeldOn(u)'
    BY DEF SlotsHeld
  <2>1. SlotsHeldOn(u)
    BY DEF Holding, SlotsHeld
  <2>2. vq'[u].pc = "send" => vq[u].pc = "send" /\ vq'[u] = vq[u]
    BY DEF VqMoved
  <2>3. HandlerSlot(u)'
    BY <2>1, <2>2 DEF SlotsHeldOn, HandlerSlot, VqMoved
  <2>4. CalledSlot(u)'
    BY <2>1, <2>2 DEF SlotsHeldOn, CalledSlot
  <2>5. ASSUME NEW r \in Requests PROVE CompoundSlot(u, r)'
    BY <2>1, <2>2 DEF SlotsHeldOn, CompoundSlot, Held
  <2>. QED
    BY <2>3, <2>4, <2>5 DEF SlotsHeldOn
<1>6. Holding => SequenceIds'
  BY DEF Holding, SequenceIds, SequenceIdOf, Held, VqMoved
<1>. QED
  BY <1>2, <1>3, <1>4, <1>5, <1>6 DEF Owned, Holding

(* The handler returns 0, giving back the chunk if it has one; the slot it *)
(* may have claimed is held by nobody from then on.                        *)
LEMMA ReturnHolding ==
  ASSUME Owned, TypeOK', NEW t \in Threads, VqIdle(t), vq[t].pc \in Before,
         handler'[vq[t].r] = "handled",
         \A q \in Requests \ {vq[t].r} : handler'[q] = handler[q],
         \A u \in Threads : pool'[u] \subseteq pool[u] \cup
           (IF u = t /\ vq[t].pc \in WithCb THEN {vq[t].cb} ELSE {}),
         UNCHANGED <<completions, cbdata, in_use, seqid, wire, nfs, srvSeq, lost>>
  PROVE  Owned' /\ (Holding => Holding')
<1>1. \A u \in Threads : Serving(u)' = Serving(u)
  BY DEF Serving, Copied
<1>2. Stacks'
  BY <1>1 DEF Owned, Stacks, WithCb, VqIdle
<1>3. ChunksHeld'
  BY DEF Owned, ChunksHeld, WithCb, CallingCb, Held, VqIdle
<1>4. RequestsHeld'
  <2>1. /\ vq[t].r \in Requests /\ completions[vq[t].r] = 0 /\ ~Held(vq[t].r)
        /\ \A u \in Threads : nfs[u].pc \in Calling => Serving(u) # vq[t].r
        /\ \A u \in Threads \ {t} : vq[u].pc # "idle" => vq[u].r # vq[t].r
    BY DEF Owned, Stacks, RequestsHeld, HeldByHandler, Before
  <2>2. HeldByHandler'
    BY <1>1, <2>1 DEF Owned, Stacks, RequestsHeld, HeldByHandler, WithCb, Before,
       Held, VqIdle
  <2>3. HeldByLibnfs'
    BY <1>1, <2>1 DEF Owned, RequestsHeld, HeldByLibnfs, Held
  <2>4. HeldByCallback'
    BY <1>1, <2>1 DEF Owned, Stacks, RequestsHeld, HeldByCallback
  <2>. QED
    BY <2>1, <2>2, <2>3, <2>4 DEF Owned, RequestsHeld
<1>5. Holding => SlotsHeld'
  BY DEF Holding, SlotsHeld, SlotsHeldOn, HandlerSlot, CalledSlot, CompoundSlot, Held,
     VqIdle
<1>6. Holding => SequenceIds'
  BY DEF Holding, SequenceIds, SequenceIdOf, SlotsHeld, SlotsHeldOn, HandlerSlot,
     CalledSlot, CompoundSlot, Held, VqIdle
<1>. QED
  BY <1>2, <1>3, <1>4, <1>5, <1>6 DEF Owned, Holding


(* mpool_alloc moves a chunk from the pool to the poller, or answers       *)
(* ENOMEM.                                                                 *)
LEMMA AllocHolding ==
  ASSUME Owned, PoolsIntact, NEW t \in Threads, vq[t].pc \in {"entry", "alloc"}, AllocCbData(t)
  PROVE  Owned' /\ (Holding => Holding')
<1>1. CASE /\ ReturnHandled(t)
           /\ UNCHANGED <<pool, torn, cbdata, slotVars, wire, nfs, inodeVars, serverVars,
                          hostVars>>
  <2>1. VqIdle(t)
    BY <1>1, MoveIdle DEF ReturnHandled, Owned, TypeOK
  <2>2. /\ vq[t].r \in Requests
        /\ handler' \in [Requests -> {"queued", "running", "handled", "deferred"}]
        /\ handler'[vq[t].r] = "handled"
        /\ \A q \in Requests \ {vq[t].r} : handler'[q] = handler[q]
    BY <1>1 DEF ReturnHandled, Owned, TypeOK, Stacks
  <2>3. UNCHANGED <<completions, pool, torn, cbdata, in_use, seqid, wire, nfs, fh, nopen,
                    fh_open, open_stateid, srvSeq, srvOpens, lost, known, handles>>
    BY <1>1 DEF ReturnHandled, slotVars, inodeVars, openVars, poolVars, serverVars, hostVars
  <2>4. TypeOK'
    BY <2>1, <2>2, <2>3 DEF VqIdle, Owned, TypeOK
  <2>. QED
    BY <2>1, <2>2, <2>3, <2>4, ReturnHolding DEF Before
<1>2. ASSUME NEW c \in pool[t],
             pool' = [pool EXCEPT ![t] = @ \ {c}],
             cbdata' = [cbdata EXCEPT ![t][c] =
                          [@ EXCEPT !.ctx = vq[t].r, !.i = vq[t].file]],
             vq' = [vq EXCEPT ![t] = [@ EXCEPT !.pc = "scan", !.cb = c, !.pos = 0]],
             UNCHANGED <<halVars, torn, slotVars, wire, nfs, inodeVars, serverVars, hostVars>>
      PROVE  Owned' /\ (Holding => Holding')
  <2>1. c \in Chunks /\ vq[t].r \in Requests /\ vq[t].file \in Files
    BY DEF Owned, TypeOK, Stacks
  <2>2. VqMoved(t, "scan", c, 0, vq[t].seq)
    <3>1. "scan" \in PollerPcs /\ 0 \in 0 .. NSlots
      BY VnfsAssumption DEF PollerPcs
    <3>. QED
      BY <1>2, <2>1, <3>1, MoveCb DEF Owned, TypeOK
  <2>3. /\ cbdata' \in [Threads -> [Chunks -> CbData]]
        /\ cbdata'[t][c].ctx = vq[t].r
        /\ \A u \in Threads, e \in Chunks :
             u # t \/ e # c => cbdata'[u][e] = cbdata[u][e]
    <3> DEFINE d == [cbdata[t][c] EXCEPT !.ctx = vq[t].r, !.i = vq[t].file]
    <3>0. cbdata[t][c] \in CbData
      BY <2>1 DEF Owned, TypeOK
    <3>1. d \in CbData /\ d.ctx = vq[t].r
      BY <2>1, <3>0 DEF CbData
    <3>2. cbdata' = [cbdata EXCEPT ![t][c] = d]
      BY <1>2
    <3> HIDE DEF d
    <3>. QED
      BY <2>1, <3>1, <3>2, ChunkNew DEF Owned, TypeOK
  <2>4. /\ pool' \in [Threads -> SUBSET Chunks]
        /\ c \in pool[t] /\ c \notin pool'[t]
        /\ \A u \in Threads : pool'[u] \subseteq pool[u]
    BY <1>2 DEF Owned, TypeOK
  <2>5. UNCHANGED <<handler, completions, torn, in_use, seqid, wire, nfs, fh, nopen,
                    fh_open, open_stateid, srvSeq, srvOpens, lost, known, handles>>
    BY <1>2 DEF halVars, slotVars, inodeVars, openVars, poolVars, serverVars, hostVars
  <2>6. TypeOK'
    BY <2>2, <2>3, <2>4, <2>5 DEF VqMoved, Owned, TypeOK
  <2>7. /\ \A u \in Threads \ {t} : vq[u].pc \in WithCb =>
             cbdata'[u][vq[u].cb] = cbdata[u][vq[u].cb]
        /\ \A u \in Threads : nfs[u].pc \in CallingCb =>
             cbdata'[u][nfs[u].cb] = cbdata[u][nfs[u].cb]
        /\ \A r \in Requests : Held(r) =>
             cbdata'[wire[r].t][wire[r].cb] = cbdata[wire[r].t][wire[r].cb]
    <3>1. \A u \in Threads \ {t} : vq[u].pc \in WithCb =>
            cbdata'[u][vq[u].cb] = cbdata[u][vq[u].cb]
      BY <2>3 DEF Owned, Stacks
    <3>2. \A u \in Threads : nfs[u].pc \in CallingCb =>
            cbdata'[u][nfs[u].cb] = cbdata[u][nfs[u].cb]
      BY <2>3, <2>4 DEF Owned, Stacks, ChunksHeld, CallingCb
    <3>3. \A r \in Requests : Held(r) => /\ wire[r].t \in Threads /\ wire[r].cb \in Chunks
                                        /\ wire[r].cb \notin pool[wire[r].t]
      BY DEF Owned, TypeOK, Pdu, Held, ChunksHeld
    <3>4. \A r \in Requests : Held(r) =>
            cbdata'[wire[r].t][wire[r].cb] = cbdata[wire[r].t][wire[r].cb]
      BY <2>3, <2>4, <3>3
    <3>. QED
      BY <3>1, <3>2, <3>4
  <2>8. \A u \in Threads : nfs[u].pc \in Calling => Serving(u)' = Serving(u)
    BY <2>5, <2>7 DEF Serving, Copied, CallingCb, Calling
  <2>9. Stacks'
    BY <2>1, <2>2, <2>5, <2>8 DEF Owned, Stacks, WithCb, VqMoved
  <2>10. ChunksHeld'
    BY <2>2, <2>4, <2>5 DEF Owned, ChunksHeld, WithCb, Held, VqMoved
  <2>11. RequestsHeld'
    <3>0. /\ handler[vq[t].r] = "running" /\ completions[vq[t].r] = 0 /\ ~Held(vq[t].r)
          /\ \A u \in Threads : nfs[u].pc \in Calling => Serving(u) # vq[t].r
          /\ \A u \in Threads \ {t} : vq[u].pc # "idle" => vq[u].r # vq[t].r
      BY DEF Owned, RequestsHeld, HeldByHandler, Before
    <3>1. HeldByHandler'
      <4> SUFFICES ASSUME NEW u \in Threads, vq'[u].pc # "idle"
                   PROVE  /\ handler'[vq'[u].r] = "running"
                          /\ \A w \in Threads : vq'[w].pc # "idle" /\ vq'[w].r = vq'[u].r
                               => w = u
                          /\ vq'[u].pc \in Before =>
                               /\ completions'[vq'[u].r] = 0
                               /\ ~Held(vq[u].r)'
                               /\ \A w \in Threads : nfs'[w].pc \in Calling
                                    => Serving(w)' # vq'[u].r
                          /\ vq'[u].pc \in WithCb => cbdata'[u][vq'[u].cb].ctx = vq'[u].r
                          /\ vq'[u].pc = "send" => cbdata'[u][vq'[u].cb].slotid = vq'[u].pos
        BY DEF HeldByHandler
      <4>1. CASE u = t
        BY <2>2, <2>3, <2>5, <2>8, <3>0, <4>1 DEF Held, VqMoved
      <4>2. CASE u # t
        BY <2>2, <2>5, <2>7, <2>8, <3>0, <4>2
        DEF Owned, RequestsHeld, HeldByHandler, Held, VqMoved, WithCb
      <4>. QED
        BY <4>1, <4>2
    <3>2. HeldByLibnfs'
      BY <2>5, <2>7, <2>8 DEF Owned, RequestsHeld, HeldByLibnfs, Held
    <3>3. HeldByCallback'
      BY <2>5, <2>7, <2>8 DEF Owned, RequestsHeld, HeldByCallback, CallingCb
    <3>. QED
      BY <2>5, <3>1, <3>2, <3>3 DEF Owned, RequestsHeld
  <2>12. Holding => SlotsHeld'
    <3> SUFFICES ASSUME Holding, NEW u \in Threads PROVE SlotsHeldOn(u)'
      BY DEF SlotsHeld
    <3>1. SlotsHeldOn(u)
      BY DEF Holding, SlotsHeld
    <3>2. vq'[u].pc \in {"claim", "send"} => u # t /\ vq'[u] = vq[u]
      BY <2>2 DEF VqMoved
    <3>3. HandlerSlot(u)'
      BY <2>5, <2>7, <3>1, <3>2 DEF SlotsHeldOn, HandlerSlot, WithCb
    <3>4. CalledSlot(u)'
      BY <2>5, <2>7, <3>1, <3>2 DEF SlotsHeldOn, CalledSlot, CallingCb, Calling, CallbackPcs
    <3>5. ASSUME NEW r \in Requests PROVE CompoundSlot(u, r)'
      BY <2>5, <2>7, <3>1, <3>2
      DEF SlotsHeldOn, CompoundSlot, Held, CallingCb, Calling, CallbackPcs
    <3>. QED
      BY <3>3, <3>4, <3>5 DEF SlotsHeldOn
  <2>13. Holding => SequenceIds'
    BY <2>2, <2>5, <2>7
    DEF Holding, SequenceIds, SequenceIdOf, Held, VqMoved, CallingCb, Calling, CallbackPcs
  <2>. QED
    BY <2>6, <2>9, <2>10, <2>11, <2>12, <2>13 DEF Owned, Holding
<1>3. Allocable(t) = pool[t] /\ t \notin torn
  BY DEF Allocable, PoolsIntact
<1>. QED
  BY <1>1, <1>2, <1>3 DEF AllocCbData


(* The slot scan takes nothing, and finds a slot that stays free until it  *)
(* is claimed: only the poller of the thread claims.                       *)
LEMMA ScanHolding ==
  ASSUME Owned, NEW t \in Threads, ScanSlot(t)
  PROVE  Owned' /\ (Holding => Holding')
<1>0. vq[t].pc = "scan"
  BY DEF ScanSlot
<1>1. UNCHANGED <<handler, completions, pool, torn, cbdata, in_use, seqid, wire, nfs, fh,
                  nopen, fh_open, open_stateid, srvSeq, srvOpens, lost, known, handles>>
  BY DEF ScanSlot, halVars, slotVars, inodeVars, openVars, poolVars, serverVars, hostVars
<1>2. vq \in [Threads -> Poller] /\ vq[t].pos \in 0 .. NSlots
  BY DEF Owned, TypeOK, Poller
<1>3. PICK x \in {"scan", "claim"}, i \in 0 .. NSlots :
        /\ VqMoved(t, x, vq[t].cb, i, vq[t].seq)
        /\ x = "claim" => i \in Slots /\ ~in_use[t][i]
  <2>1. CASE vq[t].pos = NSlots /\ vq' = [vq EXCEPT ![t].pos = 0]
    <3>1. 0 \in 0 .. NSlots
      BY VnfsAssumption
    <3>2. VqMoved(t, "scan", vq[t].cb, 0, vq[t].seq)
      BY <1>0, <1>2, <2>1, <3>1, MovePos
    <3>. QED
      BY <3>1, <3>2
  <2>2. CASE vq[t].pos # NSlots /\ vq' = [vq EXCEPT ![t].pos = @ + 1]
    <3>1. vq[t].pos + 1 \in 0 .. NSlots
      BY <1>2, <2>2, VnfsAssumption
    <3>2. VqMoved(t, "scan", vq[t].cb, vq[t].pos + 1, vq[t].seq)
      BY <1>0, <1>2, <2>2, <3>1, MovePos
    <3>. QED
      BY <3>1, <3>2
  <2>3. CASE /\ vq[t].pos # NSlots /\ ~in_use[t][vq[t].pos]
             /\ vq' = [vq EXCEPT ![t].pc = "claim"]
    <3>1. vq[t].pos \in Slots /\ "claim" \in PollerPcs
      BY <1>2, <2>3, VnfsAssumption DEF Slots, PollerPcs
    <3>. QED
      BY <1>2, <2>3, <3>1, MovePc
  <2>. QED
    BY <2>1, <2>2, <2>3 DEF ScanSlot
<1>4. TypeOK'
  BY <1>1, <1>3 DEF Owned, TypeOK, VqMoved
<1>. QED
  BY <1>1, <1>3, <1>4, GoesHolding DEF ScanSlot

(* vopen before its mpool_alloc holds nothing. *)
LEMMA OpenHolding ==
  ASSUME Owned, NEW t \in Threads, vopen(t) \/ vopen_count(t)
  PROVE  Owned' /\ (Holding => Holding')
<1>1. /\ UNCHANGED <<completions, pool, torn, cbdata, in_use, seqid, wire, nfs, fh,
                     fh_open, open_stateid, srvSeq, srvOpens, lost, known, handles>>
      /\ vq[t].pc \in {"entry", "count"}
  BY DEF vopen, vopen_count, ReturnHandled, halVars, slotVars, inodeVars, openVars, poolVars,
         serverVars, hostVars, Running
<1>2. nopen' \in [Files -> Nat]
  BY DEF vopen, vopen_count, inodeVars, openVars, poolVars, Owned, TypeOK
<1>3. CASE ReturnHandled(t)
  <2>1. VqIdle(t)
    BY <1>3, MoveIdle DEF ReturnHandled, Owned, TypeOK
  <2>2. /\ handler' \in [Requests -> {"queued", "running", "handled", "deferred"}]
        /\ handler'[vq[t].r] = "handled"
        /\ \A q \in Requests \ {vq[t].r} : handler'[q] = handler[q]
    BY <1>1, <1>3 DEF ReturnHandled, Owned, TypeOK, Stacks
  <2>3. TypeOK'
    BY <1>1, <1>2, <2>1, <2>2 DEF VqIdle, Owned, TypeOK
  <2>. QED
    BY <1>1, <2>1, <2>2, <2>3, ReturnHolding DEF Before
<1>4. CASE UNCHANGED handler /\ \E x \in {"count", "alloc"} : Goto(t, x)
  <2>1. PICK x \in {"count", "alloc"} : Goto(t, x)
    BY <1>4
  <2>2. x \in PollerPcs
    BY DEF PollerPcs
  <2>3. VqMoved(t, x, vq[t].cb, vq[t].pos, vq[t].seq)
    BY <2>1, <2>2, MovePc DEF Goto, Owned, TypeOK
  <2>4. TypeOK'
    BY <1>1, <1>2, <1>4, <2>3 DEF VqMoved, Owned, TypeOK
  <2>. QED
    BY <1>1, <1>4, <2>3, <2>4, GoesHolding
<1>. QED
  BY <1>3, <1>4 DEF vopen, vopen_count, halVars

(* release before its mpool_alloc holds nothing, and nopen does not        *)
(* underflow.                                                              *)
LEMMA ReleaseHolding ==
  ASSUME Owned, ReleaseCounted, NEW t \in Threads, release(t)
  PROVE  Owned' /\ (Holding => Holding')
<1>1. /\ UNCHANGED <<completions, pool, torn, cbdata, in_use, seqid, wire, nfs, fh,
                     fh_open, open_stateid, srvSeq, srvOpens, lost, known, handles>>
      /\ vq[t].pc = "entry"
  BY DEF release, ReturnHandled, halVars, poolVars, slotVars, serverVars, hostVars, Running
<1>2. nopen' \in [Files -> Nat]
  <2>1. nopen[vq[t].file] >= 1
    BY DEF release, ReleaseCounted
  <2>2. nopen \in [Files -> Nat] /\ vq[t].file \in Files
    BY <1>1 DEF Owned, TypeOK, Stacks
  <2>3. nopen' = [nopen EXCEPT ![vq[t].file] = nopen[vq[t].file] - 1]
    BY DEF release
  <2>. QED
    BY <2>1, <2>2, <2>3
<1>3. CASE ReturnHandled(t)
  <2>1. VqIdle(t)
    BY <1>3, MoveIdle DEF ReturnHandled, Owned, TypeOK
  <2>2. /\ handler' \in [Requests -> {"queued", "running", "handled", "deferred"}]
        /\ handler'[vq[t].r] = "handled"
        /\ \A q \in Requests \ {vq[t].r} : handler'[q] = handler[q]
    BY <1>1, <1>3 DEF ReturnHandled, Owned, TypeOK, Stacks
  <2>3. TypeOK'
    BY <1>1, <1>2, <2>1, <2>2 DEF VqIdle, Owned, TypeOK
  <2>. QED
    BY <1>1, <2>1, <2>2, <2>3, ReturnHolding DEF Before
<1>4. CASE UNCHANGED handler /\ Goto(t, "alloc")
  <2>1. VqMoved(t, "alloc", vq[t].cb, vq[t].pos, vq[t].seq)
    BY <1>4, MovePc DEF Goto, Owned, TypeOK, PollerPcs
  <2>2. TypeOK'
    BY <1>1, <1>2, <1>4, <2>1 DEF VqMoved, Owned, TypeOK
  <2>. QED
    BY <1>1, <1>4, <2>1, <2>2, GoesHolding
<1>. QED
  BY <1>3, <1>4 DEF release, halVars

(* A handler that returns EWOULDBLOCK has handed on all it held. *)
LEMMA DeferHolding ==
  ASSUME Owned, NEW t \in Threads, ReturnDeferred(t)
  PROVE  Owned' /\ (Holding => Holding')
<1>1. /\ vq[t].pc = "return" /\ vq[t].r \in Requests
      /\ handler' \in [Requests -> {"queued", "running", "handled", "deferred"}]
      /\ handler'[vq[t].r] = "deferred"
      /\ \A q \in Requests \ {vq[t].r} : handler'[q] = handler[q]
  BY DEF ReturnDeferred, Owned, TypeOK, Stacks
<1>2. VqIdle(t)
  BY MoveIdle DEF ReturnDeferred, Owned, TypeOK
<1>3. UNCHANGED <<completions, pool, torn, cbdata, in_use, seqid, wire, nfs, fh, nopen,
                  fh_open, open_stateid, srvSeq, srvOpens, lost, known, handles>>
  BY DEF ReturnDeferred, slotVars, inodeVars, openVars, poolVars, serverVars, hostVars
<1>4. TypeOK'
  BY <1>1, <1>2, <1>3 DEF VqIdle, Owned, TypeOK
<1>5. \A u \in Threads : Serving(u)' = Serving(u)
  BY <1>3 DEF Serving, Copied
<1>6. Stacks'
  BY <1>2, <1>3, <1>5 DEF Owned, Stacks, WithCb, VqIdle
<1>7. ChunksHeld'
  BY <1>2, <1>3 DEF Owned, ChunksHeld, WithCb, CallingCb, Held, VqIdle
<1>8. RequestsHeld'
  <2>1. HeldByHandler'
    BY <1>1, <1>2, <1>3, <1>5
    DEF Owned, Stacks, RequestsHeld, HeldByHandler, Held, VqIdle
  <2>2. HeldByLibnfs'
    BY <1>1, <1>3, <1>5 DEF Owned, RequestsHeld, HeldByLibnfs, Held
  <2>3. HeldByCallback'
    BY <1>1, <1>3, <1>5 DEF Owned, Stacks, RequestsHeld, HeldByCallback
  <2>. QED
    BY <1>1, <1>3, <2>1, <2>2, <2>3 DEF Owned, RequestsHeld
<1>9. Holding => SlotsHeld'
  BY <1>2, <1>3 DEF Holding, SlotsHeld, SlotsHeldOn, HandlerSlot, CalledSlot,
     CompoundSlot, Held, VqIdle
<1>10. Holding => SequenceIds'
  BY <1>2, <1>3 DEF Holding, SequenceIds, SequenceIdOf, Held, VqIdle
<1>. QED
  BY <1>4, <1>6, <1>7, <1>8, <1>9, <1>10 DEF Owned, Holding


(* The slot is marked: nobody else holds it, since it was free and only    *)
(* this handler takes slots of the session.                                *)
LEMMA ClaimHolding ==
  ASSUME Owned, NEW t \in Threads, ClaimSlot(t)
  PROVE  Owned' /\ (Holding => Holding')
<1> DEFINE s == vq[t].pos
           c == vq[t].cb
<1>1. /\ vq[t].pc = "claim" /\ s \in Slots /\ c \in Chunks
      /\ seqid[t][s] \in Nat
  BY DEF ClaimSlot, Owned, Stacks, WithCb, TypeOK
<1>2. VqMoved(t, "send", c, s, seqid[t][s] + 1)
  <2>1. "send" \in PollerPcs /\ seqid[t][s] + 1 \in Nat
    BY <1>1 DEF PollerPcs
  <2>. QED
    BY <2>1, MoveSeq DEF ClaimSlot, Owned, TypeOK
<1>3. /\ cbdata' \in [Threads -> [Chunks -> CbData]]
      /\ cbdata'[t][c].slotid = s /\ cbdata'[t][c].ctx = cbdata[t][c].ctx
      /\ \A u \in Threads, d \in Chunks :
           u # t \/ d # c => cbdata'[u][d] = cbdata[u][d]
  <2>1. cbdata \in [Threads -> [Chunks -> CbData]] /\ s \in Slots /\ c \in Chunks
    BY <1>1 DEF Owned, TypeOK
  <2> DEFINE e == [cbdata[t][c] EXCEPT !.slotid = s]
  <2>2. e \in CbData /\ e.slotid = s /\ e.ctx = cbdata[t][c].ctx
    <3>1. ASSUME NEW d \in CbData, NEW i \in Slots, NEW g, g = [d EXCEPT !.slotid = i]
          PROVE  g \in CbData /\ g.slotid = i /\ g.ctx = d.ctx
      BY <3>1 DEF CbData
    <3>2. cbdata[t][c] \in CbData
      BY <2>1
    <3> HIDE DEF s, c
    <3>. QED
      BY <2>1, <3>1, <3>2
  <2>3. cbdata' = [cbdata EXCEPT ![t][c] = e]
    BY DEF ClaimSlot
  <2> HIDE DEF s, c, e
  <2>. QED
    BY <2>1, <2>2, <2>3, ChunkNew
<1>4. /\ in_use' \in [Threads -> [Slots -> BOOLEAN]] /\ in_use'[t][s]
      /\ \A u \in Threads, i \in Slots : u # t \/ i # s => in_use'[u][i] = in_use[u][i]
  BY <1>1 DEF ClaimSlot, Owned, TypeOK
<1>5. UNCHANGED <<handler, completions, pool, torn, seqid, wire, nfs, fh, nopen, fh_open,
                  open_stateid, srvSeq, srvOpens, lost, known, handles>>
  BY DEF ClaimSlot, halVars, inodeVars, openVars, poolVars, serverVars, hostVars
<1>6. TypeOK'
  BY <1>2, <1>3, <1>4, <1>5 DEF VqMoved, Owned, TypeOK
<1> HIDE DEF s, c
<1>7. /\ \A u \in Threads \ {t} : vq[u].pc \in WithCb =>
           cbdata'[u][vq[u].cb] = cbdata[u][vq[u].cb]
      /\ \A u \in Threads : nfs[u].pc \in CallingCb =>
           cbdata'[u][nfs[u].cb] = cbdata[u][nfs[u].cb]
      /\ \A r \in Requests : Held(r) =>
           cbdata'[wire[r].t][wire[r].cb] = cbdata[wire[r].t][wire[r].cb]
  <2>1. \A u \in Threads \ {t} : vq[u].pc \in WithCb =>
          cbdata'[u][vq[u].cb] = cbdata[u][vq[u].cb]
    BY <1>3 DEF Owned, Stacks
  <2>2. \A u \in Threads : nfs[u].pc \in CallingCb =>
          cbdata'[u][nfs[u].cb] = cbdata[u][nfs[u].cb]
    BY <1>1, <1>3 DEF Owned, Stacks, ChunksHeld, CallingCb, WithCb, c
  <2>3. \A r \in Requests : Held(r) =>
          /\ wire[r].t \in Threads /\ wire[r].cb \in Chunks
          /\ wire[r].t = t => wire[r].cb # c
    BY <1>1 DEF Owned, TypeOK, Pdu, Held, ChunksHeld, WithCb, c
  <2>4. \A r \in Requests : Held(r) =>
          cbdata'[wire[r].t][wire[r].cb] = cbdata[wire[r].t][wire[r].cb]
    <3> SUFFICES ASSUME NEW r \in Requests, Held(r)
                 PROVE  cbdata'[wire[r].t][wire[r].cb] = cbdata[wire[r].t][wire[r].cb]
      OBVIOUS
    <3>1. wire[r].t \in Threads /\ wire[r].cb \in Chunks
      BY <2>3
    <3>2. wire[r].t # t \/ wire[r].cb # c
      BY <2>3
    <3>. QED
      BY <1>3, <3>1, <3>2
  <2>. QED
    BY <2>1, <2>2, <2>4
<1>8. \A u \in Threads : nfs[u].pc \in Calling => Serving(u)' = Serving(u)
  BY <1>5, <1>7 DEF Serving, Copied, CallingCb, Calling
<1>9. /\ \A r \in Requests : Held(r) => wire[r].t \in Threads /\ wire[r].slot \in Slots
      /\ \A u \in Threads : nfs[u].pc = "slot" => cbdata[u][nfs[u].cb].slotid \in Slots
  BY DEF Owned, TypeOK, Pdu, Held, RequestsHeld, HeldByCallback, Calling, CallbackPcs
<1>10. Stacks'
  BY <1>1, <1>2, <1>5, <1>8 DEF Owned, Stacks, WithCb, VqMoved, s, c
<1>11. ChunksHeld'
  BY <1>1, <1>2, <1>5 DEF Owned, ChunksHeld, WithCb, Held, VqMoved, c
<1>12. RequestsHeld'
  <2>1. HeldByHandler'
    BY <1>1, <1>2, <1>3, <1>5, <1>7, <1>8
    DEF Owned, RequestsHeld, HeldByHandler, WithCb, Before, Held, VqMoved, c
  <2>2. HeldByLibnfs'
    BY <1>5, <1>7, <1>8 DEF Owned, RequestsHeld, HeldByLibnfs, Held
  <2>3. HeldByCallback'
    BY <1>5, <1>7, <1>8 DEF Owned, RequestsHeld, HeldByCallback, CallingCb
  <2>. QED
    BY <1>5, <2>1, <2>2, <2>3 DEF Owned, RequestsHeld
<1>13. Holding => SlotsHeld'
  <2> HAVE Holding
  <2>0. ~in_use[t][s]
    BY <1>1 DEF Holding, SlotsHeld, SlotsHeldOn, HandlerSlot, s
  <2>1. \A u \in Threads : nfs[u].pc = "slot" => nfs[u].pc \in CallingCb
    BY DEF CallingCb, Calling, CallbackPcs
  <2>2. \A r \in Requests : Held(r) /\ wire[r].t = t => wire[r].slot # s
    BY <1>1, <1>9, <2>0 DEF Holding, SlotsHeld, SlotsHeldOn, HandlerSlot, CalledSlot, CompoundSlot
  <2>3. nfs[t].pc = "slot" => cbdata[t][nfs[t].cb].slotid # s
    BY <1>1, <2>0 DEF Holding, SlotsHeld, SlotsHeldOn, HandlerSlot, CalledSlot, CompoundSlot
  <2>4. SlotsHeldOn(t)'
    <3>1. SlotsHeldOn(t)
      BY DEF Holding, SlotsHeld
    <3>2. /\ vq'[t].pc = "send" /\ vq'[t].pos = s /\ vq'[t].cb = c
          /\ nfs'[t] = nfs[t] /\ wire' = wire
      BY <1>2, <1>5 DEF VqMoved
    <3>3. \A i \in Slots : in_use[t][i] => in_use'[t][i]
      BY <1>4
    <3>4. cbdata'[t][c].slotid = s /\ in_use'[t][s]
      BY <1>3, <1>4
    <3>. QED
      BY <3>1, <3>2, <3>3, <3>4, <1>7, <1>9, <2>1, <2>2, <2>3 DEF SlotsHeldOn,
         HandlerSlot, CalledSlot, CompoundSlot, Held
  <2>5. ASSUME NEW u \in Threads \ {t} PROVE SlotsHeldOn(u)'
    <3>1. SlotsHeldOn(u)
      BY DEF Holding, SlotsHeld
    <3>2. vq'[u] = vq[u] /\ nfs'[u] = nfs[u] /\ wire' = wire
      BY <1>2, <1>5 DEF VqMoved
    <3>3. \A i \in Slots : in_use'[u][i] = in_use[u][i]
      BY <1>4
    <3>4. vq[u].pc \in {"claim", "send"} => vq[u].pos \in Slots
      BY DEF Owned, Stacks
    <3>. QED
      BY <3>1, <3>2, <3>3, <3>4, <1>7, <1>9, <2>1 DEF SlotsHeldOn, HandlerSlot,
         CalledSlot, CompoundSlot, Held, WithCb
  <2>. QED
    BY <2>4, <2>5 DEF SlotsHeld
<1>14. Holding => SequenceIds'
  <2> HAVE Holding
  <2>0. ~in_use[t][s]
    BY <1>1 DEF Holding, SlotsHeld, SlotsHeldOn, HandlerSlot, s
  <2>1. \A u \in Threads : nfs[u].pc = "slot" => nfs[u].pc \in CallingCb
    BY DEF CallingCb, Calling, CallbackPcs
  <2>. QED
    BY <1>1, <1>2, <1>4, <1>5, <1>7, <2>0, <2>1
    DEF Holding, SequenceIds, SequenceIdOf, Held, VqMoved
<1>. QED
  BY <1>6, <1>10, <1>11, <1>12, <1>13, <1>14 DEF Owned, Holding


(* The compound takes over the handler's request, chunk and slot; on an    *)
(* error the chunk goes back and the slot is left behind.                  *)
LEMMA SendHolding ==
  ASSUME Owned, NEW t \in Threads, SendCompound(t)
  PROVE  Owned' /\ (Holding => Holding')
<1> DEFINE s == vq[t].pos
           c == vq[t].cb
           n == vq[t].seq
           r == vq[t].r
<1>1. /\ vq[t].pc = "send" /\ s \in Slots /\ c \in Chunks /\ n \in Nat
      /\ r \in Requests /\ vq[t].op \in AllOps /\ vq[t].file \in Files
  BY DEF SendCompound, Owned, Stacks, WithCb, TypeOK, Poller
<1>2. /\ seqid' \in [Threads -> [Slots -> Nat]] /\ seqid'[t][s] = n
      /\ \A u \in Threads, i \in Slots : u # t \/ i # s => seqid'[u][i] = seqid[u][i]
  BY <1>1 DEF SendCompound, Owned, TypeOK
<1>3. UNCHANGED <<handler, completions, pool, torn, cbdata, in_use, nfs, fh, nopen, fh_open,
                  open_stateid, srvSeq, srvOpens, lost, known, handles>>
  BY DEF SendCompound, halVars, inodeVars, openVars, poolVars, serverVars, hostVars
<1>4. \A u \in Threads : Serving(u)' = Serving(u)
  BY <1>3 DEF Serving, Copied
<1>5. ASSUME NEW high \in 0 .. NSlots, wire' = [wire EXCEPT ![r] = Compound(t, high)],
             Goto(t, "return")
      PROVE  Owned' /\ (Holding => Holding')
  <2>1. VqMoved(t, "return", c, s, n)
    BY <1>5, MovePc DEF Goto, Owned, TypeOK, PollerPcs
  <2>2. /\ wire' \in [Requests -> Pdu \cup {None}]
        /\ wire'[r] # None /\ wire'[r].st = "sent" /\ wire'[r].t = t
        /\ wire'[r].cb = c /\ wire'[r].slot = s /\ wire'[r].seq = n
        /\ \A q \in Requests \ {r} : wire'[q] = wire[q]
    <3> DEFINE m == Compound(t, high)
    <3>1. fh_open[vq[t].file] \in BOOLEAN /\ open_stateid[vq[t].file] \in Requests \cup {None}
      BY <1>1 DEF Owned, TypeOK
    <3>2. /\ m \in Pdu /\ m.st = "sent" /\ m.t = t /\ m.cb = c /\ m.slot = s /\ m.seq = n
      BY <1>1, <3>1 DEF Compound, Pdu, PduStates
    <3> HIDE DEF m
    <3>. QED
      BY <1>1, <1>5, <3>2, NoPduAssumption DEF m, Owned, TypeOK
  <2>3. UNCHANGED <<handler, pool>>
    BY <1>3
  <2>4. TypeOK'
    BY <1>2, <1>3, <2>1, <2>2, <2>3 DEF VqMoved, Owned, TypeOK
  <2>5. /\ cbdata[t][c].ctx = r /\ cbdata[t][c].slotid = s
        /\ c \notin pool[t] /\ handler[r] = "running" /\ completions[r] = 0
        /\ ~Held(r) /\ \A u \in Threads : nfs[u].pc \in Calling => Serving(u) # r
        /\ \A u \in Threads \ {t} : vq[u].pc # "idle" => vq[u].r # r
    BY <1>1 DEF Owned, ChunksHeld, RequestsHeld, HeldByHandler, WithCb, Before
  <2>6. Stacks'
    BY <1>1, <1>3, <1>4, <2>1 DEF Owned, Stacks, WithCb, VqMoved
  <2>7. ChunksHeld'
    BY <1>1, <1>3, <2>1, <2>2, <2>3, <2>5 DEF Owned, ChunksHeld, WithCb, Held, VqMoved
  <2>8. RequestsHeld'
    <3>1. HeldByHandler'
      BY <1>1, <1>3, <1>4, <2>1, <2>2, <2>3, <2>5
      DEF Owned, Stacks, RequestsHeld, HeldByHandler, WithCb, Before, Held, VqMoved
    <3>2. HeldByLibnfs'
      BY <1>3, <1>4, <2>2, <2>3, <2>5 DEF Owned, RequestsHeld, HeldByLibnfs, Held
    <3>3. HeldByCallback'
      BY <1>3, <1>4, <2>3 DEF Owned, RequestsHeld, HeldByCallback
    <3>. QED
      BY <1>3, <2>3, <3>1, <3>2, <3>3 DEF Owned, RequestsHeld
  <2>9. Holding => SlotsHeld'
    <3> SUFFICES ASSUME Holding, NEW u \in Threads
                 PROVE  SlotsHeldOn(u)'
      BY DEF SlotsHeld
    <3>1. SlotsHeldOn(u)
      BY DEF Holding, SlotsHeld
    <3>2. vq'[u].pc \in {"claim", "send"} => u # t /\ vq'[u] = vq[u]
      BY <2>1 DEF VqMoved
    <3>0. SlotsHeldOn(t) /\ vq[t].pc = "send" /\ vq[t].pos = s /\ in_use[t][s]
      BY <1>1 DEF Holding, SlotsHeld, SlotsHeldOn, HandlerSlot
    <3>4. HandlerSlot(u)'
      BY <1>3, <3>1, <3>2 DEF SlotsHeldOn, HandlerSlot
    <3>5. CalledSlot(u)'
      BY <1>3, <3>1, <3>2 DEF SlotsHeldOn, CalledSlot
    <3>6. ASSUME NEW q \in Requests, Held(q)', wire'[q].t = u
          PROVE  CompoundSlot(u, q)'
      <4>1. \A p \in Requests \ {r} : Held(p)' => Held(p) /\ wire'[p] = wire[p]
        BY <2>2 DEF Held
      <4>2. \A p \in Requests \ {r} : Held(p)' /\ wire'[p].t = t => wire[p].slot # s
        BY <3>0, <4>1 DEF SlotsHeldOn, CompoundSlot
      <4>3. CASE q = r
        <5>1. u = t /\ vq'[t].pc = "return" /\ wire'[r].slot = s /\ wire'[r].cb = c
          BY <2>1, <2>2, <3>6, <4>3 DEF VqMoved
        <5>2. nfs[t].pc = "slot" => cbdata[t][nfs[t].cb].slotid # s
          BY <3>0 DEF SlotsHeldOn, CalledSlot
        <5>. QED
          BY <1>3, <3>0, <4>1, <4>2, <4>3, <5>1, <5>2 DEF CompoundSlot
      <4>4. CASE q # r
        BY <1>3, <2>2, <3>1, <3>2, <3>6, <4>1, <4>2, <4>4 DEF SlotsHeldOn, CompoundSlot
      <4>. QED
        BY <4>3, <4>4
    <3>. QED
      BY <3>4, <3>5, <3>6 DEF SlotsHeldOn, CompoundSlot
  <2>10. Holding => SequenceIds'
    <3> HAVE Holding
    <3>1. \A q \in Requests : Held(q) /\ wire[q].t = t => wire[q].slot # s
      BY <1>1 DEF Holding, SlotsHeld, SlotsHeldOn, HandlerSlot, CalledSlot, CompoundSlot
    <3>2. nfs[t].pc = "slot" => cbdata[t][nfs[t].cb].slotid # s
      BY <1>1 DEF Holding, SlotsHeld, SlotsHeldOn, HandlerSlot, CalledSlot, CompoundSlot
    <3>4. in_use[t][s]
      BY <1>1 DEF Holding, SlotsHeld, SlotsHeldOn, HandlerSlot
    <3>3. s \notin lost[t] => srvSeq[t][s] = seqid[t][s] /\ n = seqid[t][s] + 1
      BY <1>1 DEF Holding, SequenceIds, SequenceIdOf
    <3>5. SUFFICES ASSUME NEW u \in Threads, NEW i \in Slots \ lost[u]
                   PROVE  SequenceIdOf(u, i)'
      BY <1>3 DEF SequenceIds
    <3>6. SequenceIdOf(u, i)
      BY DEF Holding, SequenceIds
    <3>7. \A q \in Requests : Held(q)' => q = r \/ (Held(q) /\ wire'[q] = wire[q])
      BY <2>2 DEF Held
    <3>8. vq'[u].pc = "send" => u # t /\ vq'[u] = vq[u]
      BY <2>1 DEF VqMoved
    <3>9. CASE u = t /\ i = s
      <4>1. \A q \in Requests : Held(q)' /\ wire'[q].t = t /\ wire'[q].slot = s => q = r
        BY <3>1, <3>7
      <4>. QED
        BY <1>1, <1>2, <1>3, <2>2, <3>2, <3>3, <3>4, <3>5, <3>8, <3>9, <4>1 DEF SequenceIdOf
    <3>10. CASE u # t \/ i # s
      <4>1. wire'[r].t = t /\ wire'[r].slot = s
        BY <2>2
      <4>2. seqid'[u][i] = seqid[u][i]
        BY <1>2, <3>10
      <4>. QED
        BY <1>3, <3>6, <3>7, <3>8, <3>10, <4>1, <4>2 DEF SequenceIdOf
    <3>. QED
      BY <3>9, <3>10
  <2>. QED
    BY <2>4, <2>6, <2>7, <2>8, <2>9, <2>10 DEF Owned, Holding
<1>6. CASE Goto(t, "free") /\ UNCHANGED wire
  <2>1. VqMoved(t, "free", c, s, n)
    BY <1>6, MovePc DEF Goto, Owned, TypeOK, PollerPcs
  <2>2. TypeOK'
    BY <1>2, <1>3, <1>6, <2>1 DEF VqMoved, Owned, TypeOK
  <2>3. \A u \in Threads : vq'[u].pc \in {"claim", "send"} => u # t /\ vq'[u] = vq[u]
    BY <2>1 DEF VqMoved
  <2>4. Stacks'
    BY <1>1, <1>3, <1>4, <2>1 DEF Owned, Stacks, WithCb, VqMoved
  <2>5. ChunksHeld'
    BY <1>1, <1>3, <1>6, <2>1 DEF Owned, ChunksHeld, WithCb, Held, VqMoved
  <2>6. RequestsHeld'
    <3>1. HeldByHandler'
      BY <1>1, <1>3, <1>4, <1>6, <2>1
      DEF Owned, Stacks, RequestsHeld, HeldByHandler, WithCb, Before, Held, VqMoved
    <3>2. HeldByLibnfs' /\ HeldByCallback'
      BY <1>3, <1>4, <1>6 DEF Owned, RequestsHeld, HeldByLibnfs, HeldByCallback, Held
    <3>. QED
      BY <1>3, <3>1, <3>2 DEF Owned, RequestsHeld
  <2>7. Holding => SlotsHeld'
    BY <1>3, <1>6, <2>3 DEF Holding, SlotsHeld, SlotsHeldOn, HandlerSlot, CalledSlot,
       CompoundSlot, Held
  <2>8. Holding => SequenceIds'
    <3> HAVE Holding
    <3>1. \A q \in Requests : Held(q) /\ wire[q].t = t => wire[q].slot # s
      BY <1>1 DEF Holding, SlotsHeld, SlotsHeldOn, CompoundSlot
    <3>2. nfs[t].pc = "slot" => cbdata[t][nfs[t].cb].slotid # s
      BY <1>1 DEF Holding, SlotsHeld, SlotsHeldOn, CalledSlot
    <3>3. in_use[t][s]
      BY <1>1 DEF Holding, SlotsHeld, SlotsHeldOn, HandlerSlot
    <3>. QED
      BY <1>2, <1>3, <1>6, <2>3, <3>1, <3>2, <3>3
      DEF Holding, SequenceIds, SequenceIdOf, Held
  <2>. QED
    BY <2>2, <2>4, <2>5, <2>6, <2>7, <2>8 DEF Owned, Holding
<1>7. HighestSlots(t) \subseteq 0 .. NSlots
  BY VnfsAssumption DEF HighestSlots, SlotsInUse, Slots
<1>. QED
  BY <1>5, <1>6, <1>7 DEF SendCompound

(* The chunk of an unsent compound goes back to the pool. *)
LEMMA FreeUnsentHolding ==
  ASSUME Owned, NEW t \in Threads, FreeUnsent(t)
  PROVE  Owned' /\ (Holding => Holding')
<1>1. vq[t].pc = "free" /\ vq[t].r \in Requests /\ vq[t].cb \in Chunks
  BY DEF FreeUnsent, Owned, Stacks, WithCb
<1>2. VqIdle(t)
  BY MoveIdle DEF FreeUnsent, ReturnHandled, Owned, TypeOK
<1>3. /\ handler' \in [Requests -> {"queued", "running", "handled", "deferred"}]
      /\ handler'[vq[t].r] = "handled"
      /\ \A q \in Requests \ {vq[t].r} : handler'[q] = handler[q]
  BY <1>1 DEF FreeUnsent, ReturnHandled, Owned, TypeOK
<1>4. /\ pool' \in [Threads -> SUBSET Chunks] /\ torn' \in SUBSET Threads
      /\ \A u \in Threads : pool'[u] \subseteq pool[u] \cup
           (IF u = t /\ vq[t].pc \in WithCb THEN {vq[t].cb} ELSE {})
  BY <1>1 DEF FreeUnsent, Publish, Owned, TypeOK, WithCb
<1>5. UNCHANGED <<completions, cbdata, in_use, seqid, wire, nfs, fh, nopen, fh_open,
                  open_stateid, srvSeq, srvOpens, lost, known, handles>>
  BY DEF FreeUnsent, ReturnHandled, slotVars, inodeVars, openVars, serverVars, hostVars
<1>6. TypeOK'
  BY <1>2, <1>3, <1>4, <1>5 DEF VqIdle, Owned, TypeOK
<1>. QED
  BY <1>1, <1>2, <1>3, <1>4, <1>5, <1>6, ReturnHolding DEF Before

(* The server answers or libnfs gives up: only the slot's sequence id and  *)
(* the compound's status change.                                           *)
Answers(r) ==
  /\ wire'[r] # None /\ wire'[r].st # "sent"
  /\ wire'[r].t = wire[r].t /\ wire'[r].cb = wire[r].cb
  /\ wire'[r].slot = wire[r].slot /\ wire'[r].seq = wire[r].seq
  /\ \A q \in Requests \ {r} : wire'[q] = wire[q]

(* Whoever answers a compound, server or libnfs, leaves its chunk and slot *)
(* with it.                                                                *)
LEMMA AnswerHolding ==
  ASSUME Owned, TypeOK', NEW r \in Requests, wire[r] # None, Answers(r),
         \A u \in Threads, i \in Slots :
           u # wire[r].t \/ i # wire[r].slot => srvSeq'[u][i] = srvSeq[u][i],
         \A u \in Threads : lost[u] \subseteq lost'[u],
         Holding /\ wire[r].slot \notin lost'[wire[r].t] =>
           srvSeq'[wire[r].t][wire[r].slot] = srvSeq[wire[r].t][wire[r].slot]
             + (IF wire[r].st = "sent" THEN 1 ELSE 0),
         UNCHANGED <<handler, completions, vq, pool, torn, cbdata, in_use, seqid, nfs>>
  PROVE  Owned' /\ (Holding => Holding')
<1> DEFINE t == wire[r].t
           s == wire[r].slot
<1>1. t \in Threads /\ s \in Slots /\ srvSeq[t][s] \in Nat
  <2>1. wire[r] \in Pdu
    BY DEF Owned, TypeOK
  <2>2. t \in Threads /\ s \in Slots
    BY <2>1 DEF Pdu
  <2>. QED
    BY <2>2 DEF Owned, TypeOK
<1> HIDE DEF t, s
<1>2. \A u \in Threads : Serving(u)' = Serving(u)
  BY DEF Serving, Copied
<1>3. /\ \A q \in Requests : Held(q)' <=> Held(q)
      /\ \A q \in Requests : /\ wire'[q].t = wire[q].t /\ wire'[q].cb = wire[q].cb
                             /\ wire'[q].slot = wire[q].slot /\ wire'[q].seq = wire[q].seq
  BY DEF Held, Answers
<1>4. Stacks'
  BY <1>2 DEF Owned, Stacks
<1>5. ChunksHeld'
  BY <1>3 DEF Owned, ChunksHeld
<1>6. RequestsHeld'
  BY <1>2, <1>3 DEF Owned, RequestsHeld, HeldByHandler, HeldByLibnfs,
     HeldByCallback, Stacks, Before
<1>7. Holding => SlotsHeld'
  BY <1>3 DEF Holding, SlotsHeld, SlotsHeldOn, HandlerSlot, CalledSlot, CompoundSlot
<1>8. Holding => SequenceIds'
  <2> HAVE Holding
  <2>1. /\ Held(r) /\ in_use[t][s]
        /\ \A q \in Requests : Held(q) /\ wire[q].t = t /\ q # r => wire[q].slot # s
        /\ vq[t].pc = "send" => vq[t].pos # s
        /\ nfs[t].pc = "slot" => cbdata[t][nfs[t].cb].slotid # s
    BY <1>1 DEF Holding, SlotsHeld, SlotsHeldOn, HandlerSlot, CalledSlot, CompoundSlot,
       Held, t, s
  <2> SUFFICES ASSUME NEW u \in Threads, NEW i \in Slots \ lost'[u]
               PROVE  SequenceIdOf(u, i)'
    BY DEF SequenceIds
  <2>2. i \in Slots \ lost[u] /\ SequenceIdOf(u, i)
    BY DEF Holding, SequenceIds
  <2>3. CASE u # t \/ i # s
    <3>1. srvSeq'[u][i] = srvSeq[u][i]
      BY <2>2, <2>3 DEF t, s
    <3>2. \A q \in Requests : Held(q) /\ wire[q].t = u /\ wire[q].slot = i
            => wire'[q] = wire[q]
      BY <2>3 DEF Answers, t, s
    <3>. QED
      BY <1>3, <2>2, <3>1, <3>2 DEF SequenceIdOf
  <2>4. CASE u = t /\ i = s
    <3>1. /\ wire[r].seq = seqid[t][s]
          /\ seqid[t][s] = srvSeq[t][s] + (IF wire[r].st = "sent" THEN 1 ELSE 0)
      BY <2>1, <2>2, <2>4 DEF SequenceIdOf, t, s
    <3>2. srvSeq'[t][s] = seqid[t][s] /\ seqid[t][s] \in Nat
      BY <1>1, <2>4, <3>1 DEF t, s
    <3>3. \A q \in Requests : Held(q) /\ wire[q].t = t /\ wire[q].slot = s => q = r
      BY <2>1
    <3>4. wire'[r].st # "sent"
      BY DEF Answers
    <3>. QED
      BY <1>3, <2>1, <2>4, <3>1, <3>2, <3>3, <3>4 DEF SequenceIdOf
  <2>. QED
    BY <2>3, <2>4
<1>. QED
  BY <1>4, <1>5, <1>6, <1>7, <1>8 DEF Owned, Holding

(* A compound that the RPC layer gives up on keeps its chunk and slot. *)
LEMMA RpcFailHolding ==
  ASSUME Owned, NEW r \in Requests, RpcFail(r)
  PROVE  Owned' /\ (Holding => Holding')
<1> DEFINE t == wire[r].t
           s == wire[r].slot
<1>1. wire[r] # None /\ wire \in [Requests -> Pdu \cup {None}]
  BY DEF RpcFail, Owned, TypeOK
<1>2. t \in Threads /\ s \in Slots /\ wire[r].obj \in Files \cup {None}
  BY <1>1 DEF Pdu
<1>3. wire' \in [Requests -> Pdu \cup {None}] /\ Answers(r)
  <2>1. wire' = [wire EXCEPT ![r].st = "rpcerr"]
    BY DEF RpcFail
  <2>2. "rpcerr" \in PduStates
    BY DEF PduStates
  <2>. QED
    BY <1>1, <1>2, <2>1, <2>2, PduAnswer, ZenonT(60) DEF Answers
<1>4. UNCHANGED <<handler, completions, vq, pool, torn, cbdata, in_use, seqid, nfs, fh,
                  nopen, fh_open, open_stateid, srvSeq, srvOpens, known, handles>>
  BY DEF RpcFail, ClientUnchanged, halVars, slotVars, inodeVars, openVars, poolVars, hostVars
<1>5. /\ lost' \in [Threads -> SUBSET Slots]
      /\ \A u \in Threads : lost[u] \subseteq lost'[u]
      /\ wire[r].st = "sent" => s \in lost'[t]
  <2>1. lost \in [Threads -> SUBSET Slots]
    BY DEF Owned, TypeOK
  <2>2. lost' = IF wire[r].st = "sent" THEN [lost EXCEPT ![t] = @ \cup {s}] ELSE lost
    BY DEF RpcFail
  <2> HIDE DEF s, t
  <2>. QED
    BY <1>2, <2>1, <2>2
<1>6. TypeOK'
  BY <1>3, <1>4, <1>5 DEF Owned, TypeOK
<1>7. s \notin lost'[t] => srvSeq'[t][s] = srvSeq[t][s] + (IF wire[r].st = "sent" THEN 1 ELSE 0)
  <2>1. srvSeq[t][s] \in Nat
    BY <1>2 DEF Owned, TypeOK
  <2>. QED
    BY <1>4, <1>5, <2>1
<1>. QED
  BY <1>1, <1>3, <1>4, <1>5, <1>6, <1>7, AnswerHolding

(* Serve executes the compound of a slot on which nothing was lost. *)
LEMMA ServeHolding ==
  ASSUME Owned, NEW r \in Requests, Serve(r)
  PROVE  Owned' /\ (Holding => Holding')
<1> DEFINE t == wire[r].t
           s == wire[r].slot
<1>1. wire[r] # None /\ wire[r].st = "sent" /\ wire \in [Requests -> Pdu \cup {None}]
  BY DEF Serve, Owned, TypeOK
<1>2. t \in Threads /\ s \in Slots /\ wire[r].obj \in Files \cup {None}
  BY <1>1 DEF Pdu
<1>3. wire' \in [Requests -> Pdu \cup {None}] /\ Answers(r)
  <2>1. "ok" \in PduStates /\ "nfserr" \in PduStates
    BY DEF PduStates
  <2>2. \/ \E g \in (IF wire[r].op = "lookup" THEN Files \ {Root} ELSE {None}) :
             wire' = [wire EXCEPT ![r] = [@ EXCEPT !.st = "ok", !.obj = g]]
        \/ wire' = [wire EXCEPT ![r].st = "nfserr"]
    BY DEF Serve
  <2>3. ASSUME NEW g \in Files \cup {None},
               wire' = [wire EXCEPT ![r] = [@ EXCEPT !.st = "ok", !.obj = g]]
        PROVE  wire' \in [Requests -> Pdu \cup {None}] /\ Answers(r)
    BY <1>1, <2>1, <2>3, PduAnswer, ZenonT(60) DEF Answers
  <2>4. CASE wire' = [wire EXCEPT ![r].st = "nfserr"]
    BY <1>1, <1>2, <2>1, <2>4, PduAnswer, ZenonT(60) DEF Answers
  <2>. QED
    BY <2>2, <2>3, <2>4
<1>4. UNCHANGED <<handler, completions, vq, pool, torn, cbdata, in_use, seqid, nfs, fh,
                  nopen, fh_open, open_stateid, lost, known, handles>>
  BY DEF Serve, ClientUnchanged, halVars, slotVars, inodeVars, openVars, poolVars, hostVars
<1>5. srvOpens' \in [Files -> SUBSET Requests]
  <2>1. srvOpens \in [Files -> SUBSET Requests]
    BY DEF Owned, TypeOK
  <2>2. \/ UNCHANGED srvOpens
        \/ srvOpens' = [srvOpens EXCEPT ![wire[r].file] = @ \cup {r}]
        \/ srvOpens' = [srvOpens EXCEPT ![wire[r].file] = @ \ {wire[r].stateid}]
    BY DEF Serve
  <2>. QED
    BY <2>1, <2>2
<1>6. /\ srvSeq' \in [Threads -> [Slots -> Nat]]
      /\ \A u \in Threads, i \in Slots : u # t \/ i # s => srvSeq'[u][i] = srvSeq[u][i]
      /\ Holding /\ s \notin lost[t] => srvSeq'[t][s] = srvSeq[t][s] + 1
  <2>1. srvSeq \in [Threads -> [Slots -> Nat]]
    BY DEF Owned, TypeOK
  <2>2. srvSeq' = IF wire[r].seq = srvSeq[t][s] + 1
                  THEN [srvSeq EXCEPT ![t][s] = srvSeq[t][s] + 1] ELSE srvSeq
    BY DEF Serve
  <2>3. Holding /\ s \notin lost[t] => wire[r].seq = srvSeq[t][s] + 1
    BY <1>1, <1>2 DEF Holding, SequenceIds, SequenceIdOf, Held
  <2> HIDE DEF s, t
  <2>. QED
    BY <1>2, <2>1, <2>2, <2>3
<1>7. TypeOK'
  BY <1>3, <1>4, <1>5, <1>6 DEF Owned, TypeOK
<1>. QED
  BY <1>1, <1>3, <1>4, <1>6, <1>7, AnswerHolding


(* The callback takes over from the compound that is answered. *)
LEMMA StartHolding ==
  ASSUME Owned, NEW t \in Threads, CallbackStart(t)
  PROVE  Owned' /\ (Holding => Holding')
<1>1. PICK r \in Requests :
        /\ wire[r] # None /\ wire[r].t = t /\ wire[r].st # "sent"
        /\ nfs' = [nfs EXCEPT ![t] =
                    [pc |-> "slot", cb |-> wire[r].cb, op |-> wire[r].op,
                     st |-> wire[r].st, obj |-> wire[r].obj,
                     new |-> IF wire[r].op = "open" THEN r ELSE None,
                     ctx |-> None, file |-> None, ok |-> FALSE]]
        /\ wire' = [wire EXCEPT ![r] = None]
  BY DEF CallbackStart
<1>2. UNCHANGED <<handler, completions, vq, pool, torn, cbdata, in_use, seqid, fh, nopen,
                  fh_open, open_stateid, srvSeq, srvOpens, lost, known, handles>>
  BY DEF CallbackStart, halVars, slotVars, inodeVars, openVars, poolVars, serverVars, hostVars
<1>3. /\ nfs' \in [Threads -> Callback]
      /\ nfs'[t].pc = "slot" /\ nfs'[t].cb = wire[r].cb
      /\ \A u \in Threads \ {t} : nfs'[u] = nfs[u]
  <2>1. /\ wire[r].cb \in Chunks /\ wire[r].op \in AllOps /\ wire[r].st \in PduStates
        /\ wire[r].obj \in Files \cup {None}
    <3>1. wire[r] \in Pdu
      BY <1>1 DEF Owned, TypeOK
    <3>. QED
      BY <3>1 DEF Pdu
  <2> DEFINE n == [pc |-> "slot", cb |-> wire[r].cb, op |-> wire[r].op,
                   st |-> wire[r].st, obj |-> wire[r].obj,
                   new |-> IF wire[r].op = "open" THEN r ELSE None,
                   ctx |-> None, file |-> None, ok |-> FALSE]
  <2>2. n \in Callback /\ n.pc = "slot" /\ n.cb = wire[r].cb
    BY <2>1 DEF Callback, CallbackPcs
  <2> HIDE DEF n
  <2>3. nfs' = [nfs EXCEPT ![t] = n]
    BY <1>1 DEF n
  <2>. QED
    BY <2>2, <2>3 DEF Owned, TypeOK
<1>4. /\ wire' \in [Requests -> Pdu \cup {None}]
      /\ wire'[r] = None /\ \A q \in Requests \ {r} : wire'[q] = wire[q]
  BY <1>1 DEF Owned, TypeOK
<1>5. TypeOK'
  BY <1>2, <1>3, <1>4 DEF Owned, TypeOK
<1>6. nfs[t].pc = "idle"
  BY DEF CallbackStart
<1>7. /\ wire[r].cb \in Chunks /\ wire[r].slot \in Slots /\ Held(r)
      /\ wire[r].cb \notin pool[t] /\ cbdata[t][wire[r].cb].ctx = r
      /\ cbdata[t][wire[r].cb].slotid = wire[r].slot
      /\ handler[r] \in {"running", "deferred"} /\ completions[r] = 0
      /\ \A u \in Threads : vq[u].pc \in Before => vq[u].r # r
      /\ \A u \in Threads : nfs[u].pc \in Calling => Serving(u) # r
  <2>1. wire[r].cb \in Chunks /\ wire[r].slot \in Slots
    BY <1>1 DEF Owned, TypeOK, Pdu
  <2>. QED
    BY <1>1, <2>1 DEF Owned, Stacks, ChunksHeld, RequestsHeld, HeldByHandler,
       HeldByLibnfs, Held, Before
<1>8. /\ Serving(t)' = r
      /\ \A u \in Threads \ {t} : Serving(u)' = Serving(u)
  BY <1>2, <1>3, <1>7 DEF Serving, Copied
<1>9. Stacks'
  BY <1>2, <1>3, <1>7, <1>8 DEF Owned, Stacks
<1>10. ChunksHeld'
  BY <1>1, <1>2, <1>3, <1>4, <1>7 DEF Owned, ChunksHeld, Held
<1>11. RequestsHeld'
  <2>1. HeldByHandler'
    <3> SUFFICES ASSUME NEW u \in Threads, vq[u].pc # "idle"
                 PROVE  /\ handler[vq[u].r] = "running"
                        /\ \A w \in Threads : vq[w].pc # "idle" /\ vq[w].r = vq[u].r => w = u
                        /\ vq[u].pc \in Before =>
                             /\ completions[vq[u].r] = 0
                             /\ wire'[vq[u].r] = None
                             /\ \A w \in Threads : nfs'[w].pc \in Calling
                                  => Serving(w)' # vq[u].r
                        /\ vq[u].pc \in WithCb => cbdata[u][vq[u].cb].ctx = vq[u].r
                        /\ vq[u].pc = "send" => cbdata[u][vq[u].cb].slotid = vq[u].pos
      BY <1>2 DEF HeldByHandler, Held
    <3>1. vq[u].r \in Requests
      BY DEF Owned, Stacks
    <3>. QED
      BY <1>3, <1>4, <1>7, <1>8, <3>1 DEF Owned, RequestsHeld, HeldByHandler, Held
  <2>2. HeldByLibnfs'
    BY <1>2, <1>3, <1>4, <1>7, <1>8 DEF Owned, RequestsHeld, HeldByLibnfs, Held
  <2>3. HeldByCallback'
    BY <1>2, <1>3, <1>7, <1>8 DEF Owned, RequestsHeld, HeldByCallback, Calling,
       CallbackPcs
  <2>. QED
    BY <1>2, <2>1, <2>2, <2>3 DEF Owned, RequestsHeld
<1>12. Holding => SlotsHeld'
  <2> HAVE Holding
  <2>1. ASSUME NEW u \in Threads \ {t} PROVE SlotsHeldOn(u)'
    <3>1. SlotsHeldOn(u) /\ nfs'[u] = nfs[u]
      BY <1>3, <2>1 DEF Holding, SlotsHeld
    <3>2. \A q \in Requests : Held(q)' => Held(q) /\ wire'[q] = wire[q]
      BY <1>4 DEF Held
    <3>3. HandlerSlot(u)'
      BY <1>2, <3>1 DEF SlotsHeldOn, HandlerSlot
    <3>4. CalledSlot(u)'
      BY <1>2, <3>1 DEF SlotsHeldOn, CalledSlot
    <3>5. ASSUME NEW q \in Requests PROVE CompoundSlot(u, q)'
      BY <1>2, <3>1, <3>2 DEF SlotsHeldOn, CompoundSlot
    <3>. QED
      BY <3>3, <3>4, <3>5 DEF SlotsHeldOn
  <2>2. \A q \in Requests \ {r} : Held(q) /\ wire[q].t = t => wire[q].slot # wire[r].slot
    BY <1>1, <1>7 DEF Holding, SlotsHeld, SlotsHeldOn, HandlerSlot, CalledSlot, CompoundSlot
  <2>3. /\ SlotsHeldOn(t) /\ cbdata' = cbdata /\ vq' = vq /\ in_use' = in_use
        /\ in_use[t][wire[r].slot]
        /\ vq[t].pc = "send" => wire[r].slot # vq[t].pos
    BY <1>1, <1>2, <1>7 DEF Holding, SlotsHeld, SlotsHeldOn, CompoundSlot
  <2>4. SlotsHeldOn(t)'
    <3>2. \A q \in Requests : Held(q)' => q # r /\ Held(q) /\ wire'[q] = wire[q]
      BY <1>4 DEF Held
    <3>3. HandlerSlot(t)'
      BY <2>3 DEF SlotsHeldOn, HandlerSlot
    <3>4. CalledSlot(t)'
      BY <1>3, <1>7, <2>3 DEF CalledSlot
    <3>5. ASSUME NEW q \in Requests PROVE CompoundSlot(t, q)'
      BY <1>3, <1>7, <2>2, <2>3, <3>2 DEF SlotsHeldOn, CompoundSlot
    <3>. QED
      BY <3>3, <3>4, <3>5 DEF SlotsHeldOn
  <2>. QED
    BY <2>1, <2>4 DEF SlotsHeld
<1>13. Holding => SequenceIds'
  <2> HAVE Holding
  <2>1. wire[r].slot \notin lost[t] => seqid[t][wire[r].slot] = srvSeq[t][wire[r].slot]
    BY <1>1, <1>7 DEF Holding, Owned, SequenceIds, SequenceIdOf, TypeOK
  <2>. QED
    BY <1>1, <1>2, <1>3, <1>4, <1>7, <2>1 DEF Holding, SequenceIds, SequenceIdOf, Held
<1>. QED
  BY <1>5, <1>9, <1>10, <1>11, <1>12, <1>13 DEF Owned, Holding

(* The callback goes on, freeing its slot at the first step. *)
LEMMA CallHolding ==
  ASSUME Owned, TypeOK', NEW t \in Threads, NEW x \in CallingCb \ {"slot", "freeing"}, NEW b,
         nfs[t].pc \in CallingCb \ {"freeing"}, NfsMoved(t, x, b, nfs[t].ctx, nfs[t].file),
         \A u \in Threads, s \in Slots :
           IF u = t /\ nfs[t].pc = "slot" /\ s = cbdata[t][nfs[t].cb].slotid
           THEN ~in_use'[u][s] ELSE in_use'[u][s] = in_use[u][s],
         UNCHANGED <<handler, completions, vq, pool, torn, cbdata, seqid, wire, srvSeq, lost>>
  PROVE  Owned' /\ (Holding => Holding')
<1>1. /\ x # "slot" /\ x \notin Copied /\ x \in Calling
      /\ nfs[t].pc \notin Copied /\ nfs[t].pc \in Calling
  BY DEF CallingCb, Calling, Copied
<1>2. \A u \in Threads : Serving(u)' = Serving(u)
  BY <1>1 DEF Serving, Copied, NfsMoved
<1>3. \A u \in Threads : nfs'[u].cb = nfs[u].cb
                         /\ (nfs'[u].pc \in Calling => nfs[u].pc \in Calling)
                         /\ (nfs'[u].pc \in CallingCb => nfs[u].pc \in CallingCb)
                         /\ (nfs'[u].pc = "slot" => nfs[u].pc = "slot" /\ u # t)
  BY <1>1 DEF NfsMoved
<1>4. /\ \A r \in Requests : Held(r) => wire[r].slot \in Slots
      /\ \A u \in Threads : nfs[u].pc = "slot" => cbdata[u][nfs[u].cb].slotid \in Slots
  BY DEF Owned, TypeOK, Pdu, Held, RequestsHeld, HeldByCallback, Calling, CallbackPcs
<1>5. Stacks'
  BY <1>2, <1>3 DEF Owned, Stacks
<1>6. ChunksHeld'
  BY <1>3 DEF Owned, ChunksHeld, Held
<1>7. RequestsHeld'
  BY <1>2, <1>3 DEF Owned, RequestsHeld, HeldByHandler, HeldByLibnfs, HeldByCallback,
     Held
<1>8. Holding => SlotsHeld'
  <2> SUFFICES ASSUME Holding, NEW u \in Threads PROVE SlotsHeldOn(u)'
    BY DEF SlotsHeld
  <2>1. /\ SlotsHeldOn(u) /\ wire' = wire /\ vq' = vq /\ cbdata' = cbdata
        /\ vq[u].pc \in {"claim", "send"} => vq[u].pos \in Slots
    BY DEF Holding, Owned, Stacks, SlotsHeld
  <2>2. CASE u = t
    BY <1>3, <1>4, <2>1, <2>2 DEF SlotsHeldOn, HandlerSlot, CalledSlot, CompoundSlot, Held
  <2>3. CASE u # t
    <3>1. \A s \in Slots : in_use'[u][s] = in_use[u][s]
      BY <2>3
    <3>. QED
      BY <1>3, <1>4, <2>1, <3>1 DEF SlotsHeldOn, HandlerSlot, CalledSlot, CompoundSlot, Held
  <2>. QED
    BY <2>2, <2>3
<1>9. Holding => SequenceIds'
  <2> SUFFICES ASSUME Holding, NEW u \in Threads, NEW s \in Slots \ lost[u]
               PROVE  SequenceIdOf(u, s)'
    BY DEF SequenceIds
  <2>1. SequenceIdOf(u, s)
    BY DEF Holding, SequenceIds
  <2>. QED
    BY <1>3, <2>1 DEF SequenceIdOf, Held
<1>. QED
  BY <1>5, <1>6, <1>7, <1>8, <1>9 DEF Owned, Holding


(* A callback frees the slot of its own compound and no other. *)
LEMMA SlotHolding ==
  ASSUME Owned, NEW t \in Threads, CallbackSlot(t)
  PROVE  Owned' /\ (Holding => Holding')
<1> DEFINE s == cbdata[t][nfs[t].cb].slotid
           x == IF nfs[t].st = "ok" THEN "effect" ELSE "free"
<1>1. nfs[t].pc = "slot" /\ s \in Slots
  BY DEF CallbackSlot, Owned, RequestsHeld, HeldByCallback, Calling, CallbackPcs
<1>2. x \in CallingCb \ {"slot", "freeing"} /\ nfs[t].pc \in CallingCb \ {"freeing"}
  BY <1>1 DEF CallingCb, Calling, CallbackPcs
<1>3. NfsMoved(t, x, nfs[t].ok, nfs[t].ctx, nfs[t].file)
  BY <1>2, CallPc DEF CallbackSlot, Owned, TypeOK, CallingCb, Calling
<1>4. UNCHANGED <<handler, completions, vq, pool, torn, cbdata, seqid, wire, fh, nopen,
                  fh_open, open_stateid, srvSeq, srvOpens, lost, known, handles>>
  BY DEF CallbackSlot, halVars, inodeVars, openVars, poolVars, serverVars, hostVars
<1>5. /\ in_use' \in [Threads -> [Slots -> BOOLEAN]] /\ ~in_use'[t][s]
      /\ \A u \in Threads, i \in Slots : u # t \/ i # s => in_use'[u][i] = in_use[u][i]
  <2>1. in_use \in [Threads -> [Slots -> BOOLEAN]]
    BY DEF Owned, TypeOK
  <2>2. in_use' = [in_use EXCEPT ![t][s] = FALSE]
    BY DEF CallbackSlot
  <2> HIDE DEF s
  <2>. QED
    BY <1>1, <2>1, <2>2
<1>6. TypeOK'
  BY <1>3, <1>4, <1>5 DEF NfsMoved, Owned, TypeOK
<1>. QED
  BY <1>1, <1>2, <1>3, <1>4, <1>5, <1>6, CallHolding

(* What a callback does to the inode once the reply is known to be good. *)
Effects(t) ==
  \/ lookup_cb(t) \/ CloneFh(t) \/ CloneFhBytes(t) \/ getattr_cb(t) \/ statfs_cb(t)
  \/ vread_cb(t) \/ vwrite_cb(t) \/ vfsync_cb(t) \/ vopen_cb(t) \/ StoreFhOpen(t)
  \/ StoreStateid(t) \/ release_cb(t)

(* The effect of a callback touches its own stack and the inode only. *)
LEMMA EffectMove ==
  ASSUME TypeOK, NEW t \in Threads, Effects(t)
  PROVE  /\ nfs[t].pc \in {"effect", "clone", "bytes", "openfh", "openst"}
         /\ \E x \in {"clone", "bytes", "openfh", "openst", "free"}, b \in BOOLEAN :
              NfsMoved(t, x, b, nfs[t].ctx, nfs[t].file)
         /\ UNCHANGED <<halVars, vq, pool, torn, cbdata, slotVars, wire, serverVars, hostVars>>
<1>1. nfs \in [Threads -> Callback]
  BY DEF TypeOK
<1>2. nfs[t].ok \in BOOLEAN
  BY <1>1 DEF Callback
<1>3. \A x \in {"clone", "bytes", "openfh", "openst"} :
        nfs' = [nfs EXCEPT ![t].pc = x] => NfsMoved(t, x, nfs[t].ok, nfs[t].ctx, nfs[t].file)
  <2>1. {"clone", "bytes", "openfh", "openst"} \subseteq CallbackPcs
    BY DEF CallbackPcs
  <2>. QED
    BY <1>1, <2>1, CallPc
<1>4. \A b \in BOOLEAN : Finish(t, b) => NfsMoved(t, "free", b, nfs[t].ctx, nfs[t].file)
  <2>1. "free" \in CallbackPcs
    BY DEF CallbackPcs
  <2>. QED
    BY <1>1, <2>1, CallOk DEF Finish
<1>5. nfs[t].pc \in {"effect", "clone", "bytes", "openfh", "openst"}
  BY DEF Effects, lookup_cb, CloneFh, CloneFhBytes, getattr_cb, statfs_cb, vread_cb,
     vwrite_cb, vfsync_cb, vopen_cb, StoreFhOpen, StoreStateid, release_cb, Effect
<1>6. UNCHANGED <<halVars, vq, pool, torn, cbdata, slotVars, wire, serverVars, hostVars>>
  BY DEF Effects, lookup_cb, CloneFh, CloneFhBytes, getattr_cb, statfs_cb, vread_cb,
     vwrite_cb, vfsync_cb, vopen_cb, StoreFhOpen, StoreStateid, release_cb, AttrCb,
     DataCb, SameButInode, poolVars
<1>7. \/ \E x \in {"clone", "bytes", "openfh", "openst"} : nfs' = [nfs EXCEPT ![t].pc = x]
      \/ \E b \in BOOLEAN : Finish(t, b)
  BY DEF Effects, lookup_cb, CloneFh, CloneFhBytes, getattr_cb, statfs_cb, vread_cb,
     vwrite_cb, vfsync_cb, vopen_cb, StoreFhOpen, StoreStateid, release_cb, AttrCb, DataCb
<1>. QED
  BY <1>2, <1>3, <1>4, <1>5, <1>6, <1>7


(* The effect of a callback moves no chunk and no slot. *)
LEMMA EffectHolding ==
  ASSUME Owned, NEW t \in Threads, Effects(t)
  PROVE  Owned' /\ (Holding => Holding')
<1>1. /\ nfs[t].pc \in {"effect", "clone", "bytes", "openfh", "openst"}
      /\ UNCHANGED <<handler, completions, vq, pool, torn, cbdata, in_use, seqid, wire,
                     srvSeq, srvOpens, lost, known, handles>>
  BY EffectMove DEF Owned, halVars, slotVars, serverVars, hostVars
<1>2. PICK x \in {"clone", "bytes", "openfh", "openst", "free"}, b \in BOOLEAN :
        NfsMoved(t, x, b, nfs[t].ctx, nfs[t].file)
  BY EffectMove DEF Owned
<1>3. fh' \in [Files -> {"absent", "none", "len", "set"}]
  <2>1. \/ UNCHANGED fh
        \/ \E v \in {"none", "len", "set"} : fh' = [fh EXCEPT ![nfs[t].obj] = v]
    BY DEF Effects, lookup_cb, CloneFh, CloneFhBytes, getattr_cb, statfs_cb, vread_cb,
       vwrite_cb, vfsync_cb, vopen_cb, StoreFhOpen, StoreStateid, release_cb, AttrCb,
       DataCb, inodeVars
  <2>. QED
    BY <2>1 DEF Owned, TypeOK
<1>4. nopen' \in [Files -> Nat]
  <2>1. \/ UNCHANGED nopen
        \/ nopen' = [nopen EXCEPT ![cbdata[t][nfs[t].cb].i] = @ + 1]
    BY DEF Effects, lookup_cb, CloneFh, CloneFhBytes, getattr_cb, statfs_cb, vread_cb,
       vwrite_cb, vfsync_cb, vopen_cb, StoreFhOpen, StoreStateid, release_cb, AttrCb,
       DataCb, inodeVars, openVars, poolVars
  <2>. QED
    BY <2>1 DEF Owned, TypeOK
<1>5. fh_open' \in [Files -> BOOLEAN]
  <2>1. \/ UNCHANGED fh_open
        \/ \E v \in BOOLEAN : fh_open' = [fh_open EXCEPT ![cbdata[t][nfs[t].cb].i] = v]
    BY DEF Effects, lookup_cb, CloneFh, CloneFhBytes, getattr_cb, statfs_cb, vread_cb,
       vwrite_cb, vfsync_cb, vopen_cb, StoreFhOpen, StoreStateid, release_cb, AttrCb,
       DataCb, inodeVars, openVars, poolVars
  <2>. QED
    BY <2>1 DEF Owned, TypeOK
<1>6. open_stateid' \in [Files -> Requests \cup {None}]
  <2>1. \/ UNCHANGED open_stateid
        \/ open_stateid' = [open_stateid EXCEPT ![cbdata[t][nfs[t].cb].i] = nfs[t].new]
    BY DEF Effects, lookup_cb, CloneFh, CloneFhBytes, getattr_cb, statfs_cb, vread_cb,
       vwrite_cb, vfsync_cb, vopen_cb, StoreFhOpen, StoreStateid, release_cb, AttrCb,
       DataCb, inodeVars, openVars, poolVars
  <2>2. nfs[t].new \in Requests \cup {None}
    BY DEF Owned, TypeOK, Callback
  <2>. QED
    BY <2>1, <2>2 DEF Owned, TypeOK
<1>7. TypeOK'
  BY <1>1, <1>2, <1>3, <1>4, <1>5, <1>6 DEF NfsMoved, Owned, TypeOK
<1>8. /\ nfs[t].pc \in CallingCb \ {"freeing"} /\ nfs[t].pc # "slot"
      /\ x \in CallingCb \ {"slot", "freeing"}
  BY <1>1 DEF CallingCb, Calling, CallbackPcs
<1>. QED
  BY <1>1, <1>2, <1>7, <1>8, CallHolding

(* The request's context leaves the chunk before the chunk is free. *)
LEMMA FreeHolding ==
  ASSUME Owned, NEW t \in Threads, CallbackFree(t) \/ CallbackFreed(t)
  PROVE  Owned' /\ (Holding => Holding')
<1> DEFINE c == nfs[t].cb
<1>1. nfs[t].pc \in {"free", "freeing"} /\ c \in Chunks
  BY DEF CallbackFree, CallbackFreed, Owned, Stacks, Calling, CallbackPcs
<1>2. PICK x \in Copied :
        /\ NfsMoved(t, x, nfs[t].ok, Serving(t), nfs'[t].file)
        /\ pool' = IF x = "complete" THEN [pool EXCEPT ![t] = @ \cup {c}] ELSE pool
  <2>0. Copied \subseteq CallbackPcs /\ nfs \in [Threads -> Callback]
    BY DEF Copied, CallbackPcs, Owned, TypeOK
  <2>1. CASE CallbackFree(t)
    <3>1. cbdata[t][c].ctx \in Requests \cup {None} /\ cbdata[t][c].i \in Files \cup {None}
      BY <1>1 DEF Owned, TypeOK, CbData
    <3>2. "freeing" \in Copied /\ Serving(t) = cbdata[t][c].ctx
      BY <2>1 DEF CallbackFree, Copied, Serving
    <3>3. NfsMoved(t, "freeing", nfs[t].ok, cbdata[t][c].ctx, cbdata[t][c].i)
      BY <2>0, <2>1, <3>1, <3>2, CallCtx DEF CallbackFree
    <3>4. nfs'[t].file = cbdata[t][c].i
      BY <3>3 DEF NfsMoved
    <3>. QED
      BY <2>1, <3>2, <3>3, <3>4 DEF CallbackFree, poolVars
  <2>2. CASE CallbackFreed(t)
    <3>1. "complete" \in Copied /\ Serving(t) = nfs[t].ctx
      BY <2>2 DEF CallbackFreed, Copied, Serving
    <3>2. NfsMoved(t, "complete", nfs[t].ok, nfs[t].ctx, nfs[t].file)
      BY <2>0, <2>2, <3>1, CallPc DEF CallbackFreed
    <3>3. nfs'[t].file = nfs[t].file
      BY <3>2 DEF NfsMoved
    <3>. QED
      BY <2>2, <3>1, <3>2, <3>3 DEF CallbackFreed, Publish
  <2>. QED
    BY <2>1, <2>2
<1>3. UNCHANGED <<handler, completions, vq, cbdata, in_use, seqid, wire, fh, nopen,
                  fh_open, open_stateid, srvSeq, srvOpens, lost, known, handles>>
  BY DEF CallbackFree, CallbackFreed, halVars, slotVars, inodeVars, openVars, serverVars,
     hostVars
<1>4. /\ pool' \in [Threads -> SUBSET Chunks] /\ torn' \in SUBSET Threads
      /\ pool'[t] \subseteq pool[t] \cup (IF x = "complete" THEN {c} ELSE {})
      /\ \A u \in Threads \ {t} : pool'[u] = pool[u]
  <2>1. torn' \in SUBSET Threads
    BY DEF CallbackFree, CallbackFreed, Publish, poolVars, Owned, TypeOK
  <2>. QED
    BY <1>1, <1>2, <2>1 DEF Owned, TypeOK
<1>5. TypeOK'
  BY <1>2, <1>3, <1>4 DEF NfsMoved, Owned, TypeOK
<1>6. \A u \in Threads : Serving(u)' = Serving(u)
  BY <1>2, <1>3 DEF Serving, NfsMoved
<1>7. /\ x \in Calling /\ nfs[t].pc \in CallingCb /\ nfs[t].pc \in Calling
      /\ x \in CallingCb => x # "complete"
  BY <1>1 DEF Calling, CallingCb, CallbackPcs, Copied
<1>8. Stacks'
  BY <1>1, <1>2, <1>3, <1>6, <1>7 DEF Owned, Stacks, NfsMoved
<1>9. ChunksHeld'
  <2>1. /\ vq[t].pc \in WithCb => vq[t].cb # c
        /\ \A r \in Requests : Held(r) /\ wire[r].t = t => wire[r].cb # c
        /\ c \notin pool[t]
    BY <1>1, <1>7 DEF Owned, ChunksHeld
  <2>. QED
    BY <1>2, <1>3, <1>4, <1>7, <2>1 DEF Owned, ChunksHeld, Held, NfsMoved
<1>10. \A u \in Threads : /\ nfs'[u].cb = nfs[u].cb
                          /\ nfs'[u].pc = "slot" => nfs[u].pc = "slot"
  BY <1>2 DEF NfsMoved, Copied
<1>11. RequestsHeld'
  <2>1. \A u \in Threads : nfs'[u].pc \in Calling <=> nfs[u].pc \in Calling
    BY <1>1, <1>2, <1>7 DEF NfsMoved
  <2>. QED
    BY <1>3, <1>6, <1>10, <2>1
    DEF Owned, RequestsHeld, HeldByHandler, HeldByLibnfs, HeldByCallback, Held
<1>12. Holding => SlotsHeld'
  BY <1>3, <1>10 DEF Holding, SlotsHeld, SlotsHeldOn, HandlerSlot, CalledSlot,
     CompoundSlot, Held
<1>13. Holding => SequenceIds'
  BY <1>3, <1>10 DEF Holding, SequenceIds, SequenceIdOf, Held
<1>. QED
  BY <1>5, <1>8, <1>9, <1>11, <1>12, <1>13 DEF Owned, Holding

(* The answer: the callback was the only holder of its request. *)
LEMMA CompleteHolding ==
  ASSUME Owned, FhStored, NEW t \in Threads, CallbackComplete(t)
  PROVE  Owned' /\ (Holding => Holding')
<1> DEFINE r == nfs[t].ctx
<1>1. nfs[t].pc = "complete" /\ Serving(t) = r /\ r \in Requests
  BY DEF CallbackComplete, Serving, Copied, Owned, Stacks, Calling, CallbackPcs
<1>2. /\ nfs' \in [Threads -> Callback] /\ nfs'[t].pc = "idle"
      /\ \A u \in Threads \ {t} : nfs'[u] = nfs[u]
  BY CallIdle DEF CallbackComplete, Owned, TypeOK
<1>3. UNCHANGED <<handler, vq, pool, torn, cbdata, in_use, seqid, wire, fh, nopen,
                  fh_open, open_stateid, srvSeq, srvOpens, lost>>
  BY DEF CallbackComplete, slotVars, inodeVars, openVars, poolVars, serverVars
<1>4. /\ completions' \in [Requests -> Nat]
      /\ \A q \in Requests \ {r} : completions'[q] = completions[q]
  BY <1>1 DEF CallbackComplete, Owned, TypeOK
<1>5. handles' \in [Files -> Nat]
  <2>1. UNCHANGED handles \/ handles' = [handles EXCEPT ![nfs[t].file] = @ + 1]
    BY DEF CallbackComplete
  <2>2. handles \in [Files -> Nat]
    BY DEF Owned, TypeOK
  <2>. QED
    BY <2>1, <2>2
<1>6. known' \in SUBSET Files
  <2>1. nfs[t].op = "lookup" /\ nfs[t].ok => nfs[t].obj \in Files
    BY <1>1 DEF FhStored
  <2>. QED
    BY <2>1 DEF CallbackComplete, Owned, TypeOK
<1>7. TypeOK'
  BY <1>2, <1>3, <1>4, <1>5, <1>6 DEF Owned, TypeOK
<1>8. "idle" \notin Calling /\ "idle" \notin CallingCb /\ nfs[t].pc \in Calling
  BY <1>1 DEF Calling, CallingCb, CallbackPcs
<1>9. \A u \in Threads : nfs'[u].pc \in Calling =>
        u # t /\ nfs[u].pc \in Calling /\ Serving(u)' = Serving(u)
  BY <1>2, <1>3, <1>8 DEF Serving, Copied
<1>10. Stacks'
  BY <1>2, <1>3, <1>8, <1>9 DEF Owned, Stacks
<1>11. ChunksHeld'
  BY <1>2, <1>3, <1>8 DEF Owned, ChunksHeld, Held
<1>12. RequestsHeld'
  <2>1. /\ \A u \in Threads : vq[u].pc \in Before => vq[u].r # r
        /\ ~Held(r)
        /\ \A u \in Threads \ {t} : nfs[u].pc \in Calling => Serving(u) # r
        /\ handler[r] # "queued"
    BY <1>1, <1>8
    DEF Owned, RequestsHeld, HeldByHandler, HeldByLibnfs, HeldByCallback, Before
  <2>2. \A q \in Requests : handler'[q] = "queued" => completions'[q] = 0
    BY <1>3, <1>4, <2>1 DEF Owned, RequestsHeld
  <2>3. HeldByHandler'
    <3>1. \A u \in Threads : vq[u].pc # "idle" => vq[u].r \in Requests
      BY DEF Owned, Stacks
    <3>. QED
      BY <1>3, <1>4, <1>9, <2>1, <3>1 DEF Owned, RequestsHeld, HeldByHandler, Held
  <2>4. HeldByLibnfs'
    BY <1>3, <1>4, <1>9, <2>1 DEF Owned, RequestsHeld, HeldByLibnfs, Held
  <2>5. HeldByCallback'
    <3>1. \A u \in Threads : nfs[u].pc \in Calling => Serving(u) \in Requests
      BY DEF Owned, Stacks
    <3>. QED
      BY <1>2, <1>3, <1>4, <1>9, <2>1, <3>1 DEF Owned, RequestsHeld, HeldByCallback
  <2>. QED
    BY <2>2, <2>3, <2>4, <2>5 DEF RequestsHeld
<1>13. \A u \in Threads : nfs'[u].pc = "slot" => u # t /\ nfs'[u] = nfs[u]
  BY <1>2
<1>14. Holding => SlotsHeld'
  BY <1>3, <1>13 DEF Holding, SlotsHeld, SlotsHeldOn, HandlerSlot, CalledSlot,
     CompoundSlot, Held
<1>15. Holding => SequenceIds'
  BY <1>3, <1>13 DEF Holding, SequenceIds, SequenceIdOf, Held
<1>. QED
  BY <1>7, <1>10, <1>11, <1>12, <1>14, <1>15 DEF Owned, Holding

(* Nothing is held at first. *)
LEMMA HoldingInit ==
  ASSUME NEW handle \in [Files -> {"absent", "none", "len", "set"}], InitWith(handle)
  PROVE  Holding /\ Ownership
<1> USE VnfsAssumption
<1> DEFINE none == [ctx |-> None, slotid |-> None, i |-> None]
<1>1. /\ \A t \in Threads : vq[t] = IdlePoller /\ nfs[t] = IdleCallback
      /\ \A r \in Requests : ~Held(r)
      /\ \A t \in Threads, s \in Slots : in_use[t][s] = FALSE /\ seqid[t][s] = 0
                                         /\ srvSeq[t][s] = 0
      /\ \A r \in Requests : completions[r] = 0
  BY DEF InitWith, Held
<1>2. \A t \in Threads : vq[t].pc = "idle" /\ nfs[t].pc = "idle" /\ nfs[t].op = None
  BY <1>1 DEF IdlePoller, IdleCallback
<1>3. TypeOK
  <2>1. IdlePoller \in Poller
    BY DEF IdlePoller, Poller, PollerPcs
  <2>2. IdleCallback \in Callback
    BY DEF IdleCallback, Callback, CallbackPcs
  <2>3. none \in CbData
    BY DEF CbData
  <2>4. cbdata \in [Threads -> [Chunks -> CbData]]
    BY <2>3 DEF InitWith
  <2>5. vq \in [Threads -> Poller] /\ nfs \in [Threads -> Callback]
    BY <2>1, <2>2 DEF InitWith
  <2>6. fh \in [Files -> {"absent", "none", "len", "set"}]
    BY DEF InitWith
  <2>. QED
    BY <2>4, <2>5, <2>6 DEF InitWith, TypeOK
<1>4. "idle" \notin Calling /\ "idle" \notin CallingCb /\ "idle" \notin WithCb
  BY DEF Calling, CallingCb, CallbackPcs, WithCb
<1>5. Stacks /\ ChunksHeld /\ RequestsHeld
  BY <1>1, <1>2, <1>4 DEF Stacks, ChunksHeld, RequestsHeld, HeldByHandler, HeldByLibnfs,
     HeldByCallback
<1>6. SlotsHeld /\ SequenceIds
  BY <1>1, <1>2 DEF SlotsHeld, SlotsHeldOn, HandlerSlot, CalledSlot, CompoundSlot,
     SequenceIds, SequenceIdOf
<1>7. FhStored
  BY <1>1, <1>2 DEF FhStored, ToldFileHasFh, InitWith
<1>8. OpensCounted
  <2>1. \A f \in Files : Releasing(f) = {} /\ Opening(f) = {}
    BY <1>2 DEF Releasing, Running, Opening, OpeningBy, Copied
  <2>2. \A f \in Files : nopen[f] = 0 /\ handles[f] = 0
    BY DEF InitWith
  <2>. QED
    BY <2>1, <2>2, FS_EmptySet DEF OpensCounted
<1>. QED
  BY <1>3, <1>5, <1>6, <1>7, <1>8 DEF Owned, Holding, Ownership

-----------------------------------------------------------------------------
(* File handles *)

(* What leaves inodes, compounds and callbacks alone keeps the file        *)
(* handles.                                                                *)
LEMMA FhUnchanged ==
  ASSUME FhStored, UNCHANGED <<known, fh, wire, nfs>>
  PROVE  FhStored'
  BY DEF FhStored, ToldFileHasFh, Held

(* A file handle is never taken back, and what a lookup's callback waits   *)
(* for is there when it answers.                                           *)
LEMMA EffectFh ==
  ASSUME Owned, FhStored, NEW t \in Threads, Effects(t)
  PROVE  FhStored'
<1>1. UNCHANGED <<known, wire>>
  BY EffectMove DEF Owned, hostVars
<1>2. PICK x \in {"clone", "bytes", "openfh", "openst", "free"}, b \in BOOLEAN :
        NfsMoved(t, x, b, nfs[t].ctx, nfs[t].file)
  BY EffectMove DEF Owned
<1>3. fh \in [Files -> {"absent", "none", "len", "set"}]
  BY DEF Owned, TypeOK
<1>4. /\ \A y \in {"clone", "bytes", "openfh", "openst"} :
           nfs' = [nfs EXCEPT ![t].pc = y] => x = y
      /\ \A c \in BOOLEAN : Finish(t, c) => x = "free" /\ b = c
  <2>1. nfs \in [Threads -> Callback]
    BY DEF Owned, TypeOK
  <2>2. {"clone", "bytes", "openfh", "openst", "free"} \subseteq CallbackPcs
    BY DEF CallbackPcs
  <2>3. \A y \in {"clone", "bytes", "openfh", "openst"} :
          nfs' = [nfs EXCEPT ![t].pc = y] => nfs'[t].pc = y
    BY <2>1, <2>2, CallPc DEF NfsMoved
  <2>4. \A c \in BOOLEAN : Finish(t, c) => nfs'[t].pc = "free" /\ nfs'[t].ok = c
    <3> TAKE c \in BOOLEAN
    <3> HAVE Finish(t, c)
    <3>1. nfs' = [nfs EXCEPT ![t] = [@ EXCEPT !.pc = "free", !.ok = c]]
      BY DEF Finish
    <3>2. NfsMoved(t, "free", c, nfs[t].ctx, nfs[t].file)
      BY <2>1, <2>2, <3>1, CallOk
    <3>. QED
      BY <3>2 DEF NfsMoved
  <2>. QED
    BY <1>2, <2>3, <2>4 DEF NfsMoved
<1>5. SUFFICES /\ \A f \in Files : /\ fh[f] # "absent" => fh'[f] # "absent"
                                   /\ fh[f] \in {"len", "set"} => fh'[f] \in {"len", "set"}
               /\ x \in {"clone", "bytes"} =>
                    /\ nfs[t].op = "lookup" /\ nfs[t].obj \in Files
                    /\ fh'[nfs[t].obj] # "absent"
               /\ x \in {"openfh", "openst"} => nfs[t].op = "open"
               /\ nfs[t].op = "lookup" /\ x = "free" /\ b =>
                    nfs[t].obj \in Files /\ fh'[nfs[t].obj] \in {"len", "set"}
  <2>1. \A f \in known : f \in Files
    BY DEF Owned, TypeOK
  <2>2. ToldFileHasFh'
    BY <1>1, <1>5, <2>1 DEF FhStored, ToldFileHasFh
  <2>3. x \notin {"slot", "effect", "freeing", "complete"}
    BY <1>2
  <2>. QED
    BY <1>1, <1>2, <1>5, <2>2, <2>3 DEF FhStored, NfsMoved, Held
<1>6. CASE lookup_cb(t)
  BY <1>2, <1>3, <1>4, <1>6 DEF lookup_cb, Effect, InTable, FhStored
<1>7. CASE CloneFh(t)
  BY <1>2, <1>3, <1>4, <1>7, ZenonT(60) DEF CloneFh, FhStored
<1>8. CASE CloneFhBytes(t)
  BY <1>2, <1>3, <1>4, <1>8 DEF CloneFhBytes, FhStored
<1>9. CASE getattr_cb(t) \/ statfs_cb(t) \/ vread_cb(t) \/ vwrite_cb(t) \/ vfsync_cb(t)
           \/ release_cb(t)
  BY <1>2, <1>3, <1>4, <1>9 DEF getattr_cb, statfs_cb, vread_cb, vwrite_cb, vfsync_cb,
     release_cb, AttrCb, DataCb, Effect, inodeVars
<1>10. CASE vopen_cb(t) \/ StoreFhOpen(t) \/ StoreStateid(t)
  BY <1>2, <1>3, <1>4, <1>10 DEF vopen_cb, StoreFhOpen, StoreStateid, Effect, FhStored
<1>. QED
  BY <1>6, <1>7, <1>8, <1>9, <1>10 DEF Effects

(* A compound that is sent names no object yet. *)
LEMMA SendFh ==
  ASSUME Owned, FhStored, NEW t \in Threads, SendCompound(t)
  PROVE  FhStored'
<1>1. UNCHANGED <<known, fh, nfs>>
  BY DEF SendCompound, inodeVars, hostVars
<1>2. \/ UNCHANGED wire
      \/ \E high : wire' = [wire EXCEPT ![vq[t].r] = Compound(t, high)]
  BY DEF SendCompound
<1>3. CASE UNCHANGED wire
  BY <1>1, <1>3, FhUnchanged
<1>4. CASE \E high : wire' = [wire EXCEPT ![vq[t].r] = Compound(t, high)]
  <2>1. \A high : Compound(t, high).st = "sent"
    BY DEF Compound
  <2>2. \A q \in Requests : wire'[q] = wire[q] \/ wire'[q].st = "sent"
    BY <1>4, <2>1 DEF Owned, TypeOK
  <2>. QED
    BY <1>1, <2>2 DEF FhStored, ToldFileHasFh, Held
<1>. QED
  BY <1>2, <1>3, <1>4

(* A successful LOOKUP names the object that its callback will insert. *)
LEMMA ServeFh ==
  ASSUME Owned, FhStored, NEW r \in Requests, Serve(r) \/ RpcFail(r)
  PROVE  FhStored'
<1>1. wire[r] # None /\ wire \in [Requests -> Pdu \cup {None}]
  BY DEF Serve, RpcFail, Owned, TypeOK
<1>5. UNCHANGED <<known, fh, nfs>>
  BY DEF Serve, RpcFail, ClientUnchanged, inodeVars, hostVars
<1>2. wire[r].obj \in Files \cup {None}
  BY <1>1 DEF Pdu
<1>3. {"ok", "nfserr", "rpcerr"} \subseteq PduStates
  BY DEF PduStates
<1> DEFINE Found == /\ \A q \in Requests \ {r} : wire'[q] = wire[q]
                    /\ wire'[r].op = "lookup" /\ wire'[r].st = "ok" => wire'[r].obj \in Files
<1>4. Found
  <2>1. \/ \E g \in (IF wire[r].op = "lookup" THEN Files \ {Root} ELSE {None}) :
             wire' = [wire EXCEPT ![r] = [@ EXCEPT !.st = "ok", !.obj = g]]
        \/ \E x \in {"nfserr", "rpcerr"} : wire' = [wire EXCEPT ![r].st = x]
    BY DEF Serve, RpcFail
  <2>2. ASSUME NEW g \in Files \cup {None},
               wire' = [wire EXCEPT ![r] = [@ EXCEPT !.st = "ok", !.obj = g]]
        PROVE  (wire[r].op = "lookup" => g \in Files) => Found
    <3>0. wire[r] \in Pdu
      BY <1>1
    <3>1. /\ wire'[r].obj = g /\ wire'[r].op = wire[r].op
          /\ \A q \in Requests \ {r} : wire'[q] = wire[q]
      BY <1>1, <2>2, <3>0 DEF Pdu
    <3>. QED
      BY <3>1
  <2>3. ASSUME NEW x \in {"nfserr", "rpcerr"}, wire' = [wire EXCEPT ![r].st = x]
        PROVE  Found
    <3>1. wire'[r].st = x /\ \A q \in Requests \ {r} : wire'[q] = wire[q]
      BY <1>1, <1>2, <1>3, <2>3, PduAnswer, ZenonT(60)
    <3>. QED
      BY <3>1
  <2>4. \A g \in (IF wire[r].op = "lookup" THEN Files \ {Root} ELSE {None}) :
          g \in Files \cup {None} /\ (wire[r].op = "lookup" => g \in Files)
    OBVIOUS
  <2> HIDE DEF Found
  <2>. QED
    BY <2>1, <2>2, <2>3, <2>4
<1>. QED
  BY <1>1, <1>4, <1>5 DEF FhStored, ToldFileHasFh, Held

(* A callback takes over the object of its compound. *)
LEMMA StartFh ==
  ASSUME Owned, FhStored, NEW t \in Threads, CallbackStart(t)
  PROVE  FhStored'
<1>1. UNCHANGED <<known, fh>>
  BY DEF CallbackStart, inodeVars, hostVars
<1>2. PICK r \in Requests :
        /\ wire[r] # None /\ wire[r].t = t /\ wire[r].st # "sent"
        /\ nfs' = [nfs EXCEPT ![t] =
                    [pc |-> "slot", cb |-> wire[r].cb, op |-> wire[r].op,
                     st |-> wire[r].st, obj |-> wire[r].obj,
                     new |-> IF wire[r].op = "open" THEN r ELSE None,
                     ctx |-> None, file |-> None, ok |-> FALSE]]
        /\ wire' = [wire EXCEPT ![r] = None]
  BY DEF CallbackStart
<1>3. \A q \in Requests : wire'[q] = None \/ wire'[q] = wire[q]
  BY <1>2 DEF Owned, TypeOK
<1>4. /\ nfs'[t].pc = "slot" /\ nfs'[t].op = wire[r].op /\ nfs'[t].st = wire[r].st
      /\ nfs'[t].obj = wire[r].obj /\ ~nfs'[t].ok
      /\ \A u \in Threads \ {t} : nfs'[u] = nfs[u]
  BY <1>2 DEF Owned, TypeOK
<1>. QED
  BY <1>1, <1>2, <1>3, <1>4 DEF FhStored, ToldFileHasFh, Held

(* Freeing the slot or the chunk leaves the file handles alone. *)
LEMMA SlotFreeFh ==
  ASSUME Owned, FhStored, NEW t \in Threads, CallbackSlot(t) \/ CallbackFree(t) \/ CallbackFreed(t)
  PROVE  FhStored'
<1>1. UNCHANGED <<known, fh, wire>>
  BY DEF CallbackSlot, CallbackFree, CallbackFreed, inodeVars, hostVars
<1>2. nfs \in [Threads -> Callback]
  BY DEF Owned, TypeOK
<1>3. CASE CallbackSlot(t)
  <2>1. nfs[t].pc = "slot"
    BY <1>3 DEF CallbackSlot
  <2>2. /\ \A u \in Threads \ {t} : nfs'[u] = nfs[u]
        /\ nfs'[t].pc = IF nfs[t].st = "ok" THEN "effect" ELSE "free"
        /\ nfs'[t].st = nfs[t].st /\ nfs'[t].op = nfs[t].op /\ nfs'[t].obj = nfs[t].obj
        /\ nfs'[t].ok = nfs[t].ok
    BY <1>2, <1>3 DEF CallbackSlot, Callback
  <2>. QED
    BY <1>1, <2>1, <2>2 DEF FhStored, ToldFileHasFh, Held
<1>4. CASE CallbackFree(t) \/ CallbackFreed(t)
  <2>1. nfs[t].pc \in {"free", "freeing"}
    BY <1>4 DEF CallbackFree, CallbackFreed
  <2>2. /\ \A u \in Threads \ {t} : nfs'[u] = nfs[u]
        /\ nfs'[t].pc \in {"freeing", "complete"}
        /\ nfs'[t].op = nfs[t].op /\ nfs'[t].obj = nfs[t].obj
        /\ nfs'[t].ok = nfs[t].ok
    <3>1. CASE CallbackFree(t)
      BY <1>2, <3>1 DEF CallbackFree, Callback
    <3>2. CASE CallbackFreed(t)
      BY <1>2, <3>2 DEF CallbackFreed, Callback
    <3>. QED
      BY <1>4, <3>1, <3>2
  <2>. QED
    BY <1>1, <2>1, <2>2 DEF FhStored, ToldFileHasFh, Held
<1>. QED
  BY <1>3, <1>4

(* The host learns of a nodeid whose file handle is stored. *)
LEMMA CompleteFh ==
  ASSUME Owned, FhStored, NEW t \in Threads, CallbackComplete(t)
  PROVE  FhStored'
<1>1. UNCHANGED <<fh, wire>> /\ nfs[t].pc = "complete"
  BY DEF CallbackComplete, inodeVars
<1>2. known' = IF nfs[t].op = "lookup" /\ nfs[t].ok THEN known \cup {nfs[t].obj} ELSE known
  BY DEF CallbackComplete
<1>3. /\ nfs'[t].pc = "idle" /\ nfs'[t].op = None
      /\ \A u \in Threads \ {t} : nfs'[u] = nfs[u]
  BY CallIdle DEF CallbackComplete, Owned, TypeOK
<1>4. ToldFileHasFh'
  BY <1>1, <1>2 DEF FhStored, ToldFileHasFh
<1>. QED
  BY <1>1, <1>3, <1>4 DEF FhStored, Held

-----------------------------------------------------------------------------
(* Counting opens *)

(* One more thread adds at most one. *)
LEMMA CountUp ==
  ASSUME NEW A, NEW B, A \subseteq Threads, B \subseteq Threads, NEW t \in Threads,
         B \subseteq A \cup {t}
  PROVE  /\ Cardinality(A) \in Nat /\ Cardinality(B) \in Nat
         /\ Cardinality(B) <= Cardinality(A) + 1
<1>1. IsFiniteSet(A) /\ IsFiniteSet(B)
  BY VnfsAssumption, FS_Subset
<1>2. /\ IsFiniteSet(A \cup {t})
      /\ Cardinality(A \cup {t}) = Cardinality(A) \/ Cardinality(A \cup {t}) = Cardinality(A) + 1
  BY <1>1, FS_AddElement
<1>3. Cardinality(B) <= Cardinality(A \cup {t})
  BY <1>2, FS_Subset
<1>4. Cardinality(A) \in Nat /\ Cardinality(B) \in Nat
  BY <1>1, FS_CardinalityType
<1>. QED
  BY <1>2, <1>3, <1>4

(* Fewer threads do not add. *)
LEMMA CountSame ==
  ASSUME NEW A, NEW B, A \subseteq Threads, B \subseteq A
  PROVE  /\ Cardinality(A) \in Nat /\ Cardinality(B) \in Nat
         /\ Cardinality(B) <= Cardinality(A)
<1>1. IsFiniteSet(A)
  BY VnfsAssumption, FS_Subset
<1>2. IsFiniteSet(B) /\ Cardinality(B) <= Cardinality(A)
  BY <1>1, FS_Subset
<1>. QED
  BY <1>1, <1>2, FS_CardinalityType

(* A thread that leaves takes one away. *)
LEMMA CountDown ==
  ASSUME NEW A, NEW B, A \subseteq Threads, NEW t \in A, B \subseteq A \ {t}
  PROVE  /\ Cardinality(A) \in Nat /\ Cardinality(B) \in Nat
         /\ Cardinality(B) + 1 <= Cardinality(A)
<1>1. IsFiniteSet(A)
  BY VnfsAssumption, FS_Subset
<1>2. IsFiniteSet(A \ {t}) /\ Cardinality(A \ {t}) = Cardinality(A) - 1
  BY <1>1, FS_RemoveElement
<1>3. IsFiniteSet(B) /\ Cardinality(B) <= Cardinality(A \ {t})
  BY <1>2, FS_Subset
<1>4. Cardinality(A) \in Nat /\ Cardinality(B) \in Nat
  BY <1>1, <1>3, FS_CardinalityType
<1>. QED
  BY <1>2, <1>3, <1>4

(* The handle that is being released is counted in nopen. *)
LEMMA ReleaseIsCounted ==
  ASSUME TypeOK, Stacks, OpensCounted
  PROVE  ReleaseCounted
<1>1. SUFFICES ASSUME NEW t \in Threads, Running(t, "release")
               PROVE  nopen[vq[t].file] >= 1
  BY DEF ReleaseCounted
<1> DEFINE f == vq[t].file
<1>2. f \in Files /\ t \in Releasing(f)
  BY <1>1 DEF Stacks, Running, Releasing
<1>3. Cardinality(Releasing(f)) >= 1
  <2> DEFINE others == Releasing(f) \ {t}
  <2>1. Releasing(f) \subseteq Threads
    BY DEF Releasing
  <2>2. /\ Cardinality(Releasing(f)) \in Nat /\ Cardinality(others) \in Nat
        /\ Cardinality(others) + 1 <= Cardinality(Releasing(f))
    BY <1>2, <2>1, CountDown
  <2>. QED
    BY <2>2
<1>4. Cardinality(Releasing(f)) \in Nat /\ Cardinality(Opening(f)) \in Nat
  BY CountSame DEF Releasing, Opening
<1>5. nopen[f] >= handles[f] + Cardinality(Releasing(f)) + Cardinality(Opening(f))
  BY <1>2 DEF OpensCounted
<1>6. nopen[f] \in Nat /\ handles[f] \in Nat
  BY <1>2 DEF TypeOK
<1>. QED
  BY <1>3, <1>4, <1>5, <1>6

(* A file on which no release or open begins or ends stays counted. *)
SameCount(f) ==
  /\ nopen'[f] >= nopen[f] /\ handles'[f] <= handles[f]
  /\ Releasing(f)' \subseteq Releasing(f) /\ Opening(f)' \subseteq Opening(f)

(* The count of one file survives a step that only lowers what it has to   *)
(* cover.                                                                  *)
LEMMA CountKept ==
  ASSUME TypeOK, TypeOK', NEW f \in Files, SameCount(f),
         nopen[f] >= handles[f] + Cardinality(Releasing(f)) + Cardinality(Opening(f))
  PROVE  (nopen[f] >= handles[f] + Cardinality(Releasing(f)) + Cardinality(Opening(f)))'
<1> DEFINE R == Releasing(f)
           O == Opening(f)
<1>1. R \subseteq Threads /\ O \subseteq Threads
  BY DEF Releasing, Opening
<1>2. Cardinality(R') <= Cardinality(R) /\ Cardinality(R) \in Nat /\ Cardinality(R') \in Nat
  BY <1>1, CountSame DEF SameCount
<1>3. Cardinality(O') <= Cardinality(O) /\ Cardinality(O) \in Nat /\ Cardinality(O') \in Nat
  BY <1>1, CountSame DEF SameCount
<1>4. nopen[f] \in Nat /\ nopen'[f] \in Nat /\ handles[f] \in Nat /\ handles'[f] \in Nat
  BY DEF TypeOK
<1>5. nopen'[f] >= nopen[f] /\ handles'[f] <= handles[f]
  BY DEF SameCount
<1> HIDE DEF R, O
<1>6. nopen[f] >= handles[f] + Cardinality(R) + Cardinality(O)
  BY DEF R, O
<1>7. nopen'[f] >= handles'[f] + Cardinality(R') + Cardinality(O')
  BY <1>2, <1>3, <1>4, <1>5, <1>6
<1>. QED
  BY <1>7 DEF R, O

(* A handler step that neither enters nor leaves a release. *)
LEMMA HandlerCount ==
  ASSUME Owned, TypeOK', OpensCounted, NEW t \in Threads,
         ~Running(t, "release")',
         \A u \in Threads \ {t} : vq'[u] = vq[u],
         \A f \in Files : nopen'[f] >= nopen[f],
         \A u \in Threads : nfs[u].pc \in CallingCb =>
           cbdata'[u][nfs[u].cb].i = cbdata[u][nfs[u].cb].i,
         UNCHANGED <<nfs, handles>>
  PROVE  OpensCounted'
<1>1. SUFFICES ASSUME NEW f \in Files PROVE SameCount(f)
  BY <1>1, CountKept DEF OpensCounted, Owned
<1>2. Releasing(f)' \subseteq Releasing(f)
  BY DEF Releasing, Running
<1>3. Opening(f)' \subseteq Opening(f)
  <2>1. {"openfh", "openst", "free"} \subseteq CallingCb
    BY DEF CallingCb, Calling, CallbackPcs
  <2>2. \A u \in Threads : OpeningBy(u, f)' => OpeningBy(u, f)
    BY <2>1 DEF OpeningBy, Copied
  <2>. QED
    BY <2>2 DEF Opening
<1>4. nopen'[f] >= nopen[f] /\ handles'[f] <= handles[f]
  BY DEF Owned, TypeOK
<1>. QED
  BY <1>2, <1>3, <1>4 DEF SameCount

(* A callback step that does not begin or end an open. *)
LEMMA CallbackCount ==
  ASSUME Owned, TypeOK', OpensCounted, NEW t \in Threads,
         \A f \in Files : nopen'[f] >= nopen[f] /\ handles'[f] <= handles[f],
         \A u \in Threads \ {t} : nfs'[u] = nfs[u],
         \A f \in Files : OpeningBy(t, f)' => OpeningBy(t, f),
         UNCHANGED <<vq, cbdata>>
  PROVE  OpensCounted'
<1>1. SUFFICES ASSUME NEW f \in Files PROVE SameCount(f)
  BY <1>1, CountKept DEF OpensCounted, Owned
<1>2. Releasing(f)' \subseteq Releasing(f)
  BY DEF Releasing, Running
<1>3. Opening(f)' \subseteq Opening(f)
  <2>1. \A u \in Threads \ {t} : OpeningBy(u, f)' => OpeningBy(u, f)
    BY DEF OpeningBy, Copied
  <2>. QED
    BY <2>1 DEF Opening
<1>. QED
  BY <1>2, <1>3 DEF SameCount

(* The host gives up a handle when it asks for its release. *)
LEMMA DeliverCount ==
  ASSUME Owned, TypeOK', OpensCounted, NEW t \in Threads, NEW r \in Requests,
         NEW op \in Ops, NEW f \in Files, Deliver(t, r, op, f)
  PROVE  OpensCounted'
<1>1. /\ vq'[t].pc = "entry" /\ vq'[t].op = op /\ vq'[t].file = f
      /\ \A u \in Threads \ {t} : vq'[u] = vq[u]
  BY VnfsAssumption DEF Deliver, Owned, TypeOK
<1>2. UNCHANGED <<nfs, cbdata, nopen>>
  BY DEF Deliver, inodeVars, openVars, poolVars
<1>3. \A g \in Files : Opening(g)' = Opening(g)
  BY <1>2 DEF Opening, OpeningBy, Copied
<1>4. CASE op # "release"
  <2>1. UNCHANGED handles /\ ~Running(t, "release")'
    BY <1>1, <1>4 DEF Deliver, Running
  <2>2. \A g \in Files : nopen'[g] >= nopen[g]
    BY <1>2 DEF Owned, TypeOK
  <2>. QED
    BY <1>1, <1>2, <2>1, <2>2, HandlerCount
<1>5. CASE op = "release"
  <2>1. /\ handles[f] > 0 /\ handles'[f] = handles[f] - 1
        /\ \A g \in Files \ {f} : handles'[g] = handles[g]
    BY <1>5 DEF Deliver, Owned, TypeOK
  <2>2. SUFFICES ASSUME NEW g \in Files
                 PROVE (nopen[g] >= handles[g] + Cardinality(Releasing(g)) + Cardinality(Opening(g)))'
    BY DEF OpensCounted
  <2>3. nopen[g] >= handles[g] + Cardinality(Releasing(g)) + Cardinality(Opening(g))
    BY DEF OpensCounted
  <2>4. CASE g # f
    <3>1. Releasing(g)' \subseteq Releasing(g)
      BY <1>1, <2>4 DEF Releasing, Running
    <3>2. SameCount(g)
      BY <1>2, <1>3, <2>1, <2>4, <3>1 DEF SameCount, Owned, TypeOK
    <3>. QED
      BY <2>3, <3>2, CountKept DEF Owned, Holding
  <2>5. CASE g = f
    <3> DEFINE R == Releasing(g)
               O == Opening(g)
    <3>1. R' \subseteq R \cup {t} /\ R \subseteq Threads /\ R' \subseteq Threads
      BY <1>1 DEF Releasing, Running
    <3>2. Cardinality(R') <= Cardinality(R) + 1 /\ Cardinality(R) \in Nat /\ Cardinality(R') \in Nat
      BY <3>1, CountUp
    <3>3. O \subseteq Threads /\ O' = O
      BY <1>3 DEF Opening
    <3>4. Cardinality(O) \in Nat
      BY <3>3, CountSame
    <3>5. nopen'[g] = nopen[g] /\ nopen[g] \in Nat /\ handles[g] \in Nat
      BY <1>2 DEF Owned, TypeOK
    <3> HIDE DEF R, O
    <3>6. nopen'[g] >= handles'[g] + Cardinality(R') + Cardinality(O')
      <4>1. nopen[g] >= handles[g] + Cardinality(R) + Cardinality(O)
        BY <2>3 DEF R, O
      <4>2. handles'[g] = handles[g] - 1
        BY <2>1, <2>5
      <4>3. Cardinality(O') = Cardinality(O)
        BY <3>3
      <4>. QED
        BY <3>2, <3>4, <3>5, <4>1, <4>2, <4>3
    <3>. QED
      BY <3>6 DEF R, O
  <2>. QED
    BY <2>4, <2>5
<1>. QED
  BY <1>4, <1>5

(* release takes its own count off nopen. *)
LEMMA ReleaseCount ==
  ASSUME Owned, TypeOK', OpensCounted, NEW t \in Threads, release(t)
  PROVE  OpensCounted'
<1> DEFINE f == vq[t].file
<1>1. f \in Files /\ t \in Releasing(f) /\ Running(t, "release")
  BY DEF release, Running, Releasing, Owned, Stacks
<1>2. ~Running(t, "release")' /\ \A u \in Threads \ {t} : vq'[u] = vq[u]
  <2>1. vq \in [Threads -> Poller]
    BY DEF Owned, TypeOK
  <2>2. CASE ReturnHandled(t)
    BY <2>1, <2>2, MoveIdle DEF ReturnHandled, VqIdle, Running
  <2>3. CASE Goto(t, "alloc")
    <3>1. "alloc" \in PollerPcs
      BY DEF PollerPcs
    <3>. QED
      BY <2>1, <2>3, <3>1, MovePc DEF Goto, VqMoved, Running
  <2>. QED
    BY <2>2, <2>3 DEF release
<1>3. UNCHANGED <<nfs, cbdata, handles>>
  BY DEF release, hostVars
<1>4. \A g \in Files : Opening(g)' = Opening(g)
  BY <1>3 DEF Opening, OpeningBy, Copied
<1>5. nopen'[f] = nopen[f] - 1 /\ \A g \in Files \ {f} : nopen'[g] = nopen[g]
  BY <1>1 DEF release, Owned, TypeOK
<1>6. SUFFICES ASSUME NEW g \in Files
               PROVE (nopen[g] >= handles[g] + Cardinality(Releasing(g)) + Cardinality(Opening(g)))'
  BY DEF OpensCounted
<1>7. nopen[g] >= handles[g] + Cardinality(Releasing(g)) + Cardinality(Opening(g))
  BY DEF OpensCounted
<1>8. Releasing(g)' \subseteq Releasing(g) \ {t}
  BY <1>2 DEF Releasing, Running
<1>9. CASE g # f
  <2>1. SameCount(g)
    BY <1>3, <1>4, <1>5, <1>8, <1>9 DEF SameCount, Owned, TypeOK
  <2>. QED
    BY <1>7, <2>1, CountKept DEF Owned, Holding
<1>10. CASE g = f
  <2> DEFINE R == Releasing(g)
             O == Opening(g)
  <2>1. R \subseteq Threads /\ t \in R /\ R' \subseteq R \ {t}
    BY <1>1, <1>8, <1>10 DEF Releasing
  <2>2. Cardinality(R') + 1 <= Cardinality(R) /\ Cardinality(R) \in Nat /\ Cardinality(R') \in Nat
    BY <2>1, CountDown, ZenonT(60)
  <2>3. O \subseteq Threads /\ O' = O
    BY <1>4 DEF Opening
  <2>4. Cardinality(O) \in Nat
    BY <2>3, CountSame
  <2>5. nopen[g] \in Nat /\ handles[g] \in Nat /\ handles'[g] = handles[g]
        /\ nopen'[g] = nopen[g] - 1
    BY <1>3, <1>5, <1>10 DEF Owned, TypeOK
  <2> HIDE DEF R, O
  <2>6. nopen'[g] >= handles'[g] + Cardinality(R') + Cardinality(O')
    <3>1. nopen[g] >= handles[g] + Cardinality(R) + Cardinality(O)
      BY <1>7 DEF R, O
    <3>2. Cardinality(O') = Cardinality(O)
      BY <2>3
    <3>. QED
      BY <2>2, <2>4, <2>5, <3>1, <3>2
  <2>. QED
    BY <2>6 DEF R, O
<1>. QED
  BY <1>9, <1>10

(* vopen_cb counts the handle that the host is about to get. *)
LEMMA OpenCbCount ==
  ASSUME Owned, TypeOK', OpensCounted, NEW t \in Threads, vopen_cb(t)
  PROVE  OpensCounted'
<1> DEFINE f == cbdata[t][nfs[t].cb].i
<1>1. /\ nfs[t].pc = "effect" /\ nfs'[t].pc = "openfh" /\ nfs'[t].cb = nfs[t].cb
      /\ \A u \in Threads \ {t} : nfs'[u] = nfs[u]
  <2>1. nfs \in [Threads -> Callback] /\ "openfh" \in CallbackPcs
    BY DEF Owned, TypeOK, CallbackPcs
  <2>. QED
    BY <2>1, CallPc DEF vopen_cb, Effect, NfsMoved
<1>2. UNCHANGED <<vq, cbdata, handles>>
  BY DEF vopen_cb, SameButInode, hostVars
<1>3. \A g \in Files : nopen'[g] = IF g = f THEN nopen[g] + 1 ELSE nopen[g]
  BY DEF vopen_cb, Owned, TypeOK
<1>4. SUFFICES ASSUME NEW g \in Files
               PROVE (nopen[g] >= handles[g] + Cardinality(Releasing(g)) + Cardinality(Opening(g)))'
  BY DEF OpensCounted
<1>5. nopen[g] >= handles[g] + Cardinality(Releasing(g)) + Cardinality(Opening(g))
  BY DEF OpensCounted
<1>6. Releasing(g)' = Releasing(g)
  BY <1>2 DEF Releasing, Running
<1>7. \A u \in Threads \ {t} : OpeningBy(u, g)' => OpeningBy(u, g)
  BY <1>1, <1>2 DEF OpeningBy, Copied
<1>8. CASE g # f
  <2>1. ~OpeningBy(t, g)'
    BY <1>1, <1>2, <1>8 DEF OpeningBy, Copied
  <2>2. Opening(g)' \subseteq Opening(g)
    BY <1>7, <2>1 DEF Opening
  <2>3. SameCount(g)
    BY <1>2, <1>3, <1>6, <1>8, <2>2 DEF SameCount, Owned, TypeOK
  <2>. QED
    BY <1>5, <2>3, CountKept DEF Owned, Holding
<1>9. CASE g = f
  <2> DEFINE R == Releasing(g)
             O == Opening(g)
  <2>1. O \subseteq Threads /\ O' \subseteq Threads /\ O' \subseteq O \cup {t}
    BY <1>7 DEF Opening
  <2>2. Cardinality(O') <= Cardinality(O) + 1 /\ Cardinality(O) \in Nat /\ Cardinality(O') \in Nat
    BY <2>1, CountUp
  <2>3. R \subseteq Threads /\ R' = R
    BY <1>6 DEF Releasing
  <2>4. Cardinality(R) \in Nat
    BY <2>3, CountSame
  <2>5. nopen[g] \in Nat /\ handles[g] \in Nat /\ handles'[g] = handles[g]
        /\ nopen'[g] = nopen[g] + 1
    BY <1>2, <1>3, <1>9 DEF Owned, TypeOK
  <2> HIDE DEF R, O
  <2>6. nopen'[g] >= handles'[g] + Cardinality(R') + Cardinality(O')
    <3>1. nopen[g] >= handles[g] + Cardinality(R) + Cardinality(O)
      BY <1>5 DEF R, O
    <3>2. Cardinality(R') = Cardinality(R)
      BY <2>3
    <3>. QED
      BY <2>2, <2>4, <2>5, <3>1, <3>2
  <2>. QED
    BY <2>6 DEF R, O
<1>. QED
  BY <1>8, <1>9

(* The host gets the handle that vopen_cb counted. *)
LEMMA CompleteCount ==
  ASSUME Owned, TypeOK', OpensCounted, NEW t \in Threads, CallbackComplete(t)
  PROVE  OpensCounted'
<1> DEFINE f == nfs[t].file
           Opened == nfs[t].op = "open" /\ nfs[t].ok
<1>1. /\ nfs[t].pc = "complete" /\ nfs'[t].op = None /\ nfs'[t].pc = "idle"
      /\ \A u \in Threads \ {t} : nfs'[u] = nfs[u]
  BY CallIdle DEF CallbackComplete, Owned, TypeOK
<1>2. UNCHANGED <<vq, cbdata, nopen>>
  BY DEF CallbackComplete, inodeVars, openVars, poolVars
<1>3. handles' = IF Opened THEN [handles EXCEPT ![f] = @ + 1] ELSE handles
  BY DEF CallbackComplete
<1>4. \A g \in Files : ~OpeningBy(t, g)'
  BY <1>1 DEF OpeningBy, Copied
<1>5. SUFFICES ASSUME NEW g \in Files
               PROVE (nopen[g] >= handles[g] + Cardinality(Releasing(g)) + Cardinality(Opening(g)))'
  BY DEF OpensCounted
<1>6. nopen[g] >= handles[g] + Cardinality(Releasing(g)) + Cardinality(Opening(g))
  BY DEF OpensCounted
<1>7. Releasing(g)' = Releasing(g)
  BY <1>2 DEF Releasing, Running
<1>8. Opening(g)' \subseteq Opening(g) \ {t}
  <2>1. \A u \in Threads \ {t} : OpeningBy(u, g)' => OpeningBy(u, g)
    BY <1>1, <1>2 DEF OpeningBy, Copied
  <2>. QED
    BY <1>4, <2>1 DEF Opening
<1>9. handles \in [Files -> Nat]
  BY DEF Owned, TypeOK
<1>10. CASE ~(Opened /\ g = f)
  <2>1. handles'[g] = handles[g]
    BY <1>3, <1>9, <1>10
  <2>2. SameCount(g)
    BY <1>2, <1>7, <1>8, <2>1 DEF SameCount, Owned, TypeOK
  <2>. QED
    BY <1>6, <2>2, CountKept DEF Owned, Holding
<1>11. CASE Opened /\ g = f
  <2> DEFINE R == Releasing(g)
             O == Opening(g)
  <2>1. O \subseteq Threads /\ t \in O /\ O' \subseteq O \ {t}
    BY <1>1, <1>8, <1>11 DEF Opening, OpeningBy, Copied
  <2>2. Cardinality(O') + 1 <= Cardinality(O) /\ Cardinality(O) \in Nat /\ Cardinality(O') \in Nat
    BY <2>1, CountDown, ZenonT(60)
  <2>3. R \subseteq Threads /\ R' = R
    BY <1>7 DEF Releasing
  <2>4. Cardinality(R) \in Nat
    BY <2>3, CountSame
  <2>5. nopen[g] \in Nat /\ handles[g] \in Nat /\ handles'[g] = handles[g] + 1
        /\ nopen'[g] = nopen[g]
    <3>1. nopen[g] \in Nat /\ handles[g] \in Nat
      BY DEF Owned, TypeOK
    <3>. QED
      BY <1>2, <1>3, <1>9, <1>11, <3>1
  <2> HIDE DEF R, O
  <2>6. nopen'[g] >= handles'[g] + Cardinality(R') + Cardinality(O')
    <3>1. nopen[g] >= handles[g] + Cardinality(R) + Cardinality(O)
      BY <1>6 DEF R, O
    <3>2. Cardinality(R') = Cardinality(R)
      BY <2>3
    <3>. QED
      BY <2>2, <2>4, <2>5, <3>1, <3>2
  <2>. QED
    BY <2>6 DEF R, O
<1>. QED
  BY <1>10, <1>11

(* Only vopen_cb counts, and it counts before it succeeds. *)
LEMMA EffectCount ==
  ASSUME Owned, FhStored, TypeOK', OpensCounted, NEW t \in Threads, Effects(t)
  PROVE  OpensCounted'
<1>1. CASE vopen_cb(t)
  BY <1>1, OpenCbCount
<1>2. CASE ~vopen_cb(t)
  <2>1. UNCHANGED <<vq, cbdata, handles>>
    BY EffectMove DEF Owned, hostVars
  <2>2. UNCHANGED nopen
    BY <1>2 DEF Effects, lookup_cb, CloneFh, CloneFhBytes, getattr_cb, statfs_cb, vread_cb,
       vwrite_cb, vfsync_cb, StoreFhOpen, StoreStateid, release_cb, AttrCb, DataCb,
       inodeVars, openVars, poolVars
  <2>3. PICK x \in {"clone", "bytes", "openfh", "openst", "free"}, b \in BOOLEAN :
          NfsMoved(t, x, b, nfs[t].ctx, nfs[t].file)
    BY EffectMove DEF Owned
  <2>4. nfs[t].op = "open" =>
          \/ release_cb(t) \/ StoreFhOpen(t) \/ StoreStateid(t)
          \/ x = "free" /\ ~b
          \/ x \notin {"openfh", "openst", "free"}
    BY <1>2 DEF Effects, lookup_cb, CloneFh, CloneFhBytes, getattr_cb, statfs_cb, vread_cb,
       vwrite_cb, vfsync_cb, Effect, FhStored
  <2>5. nfs[t].op = "open" /\ x \in {"openfh", "openst", "free"} /\ (x = "free" => b) =>
          nfs[t].pc \in {"openfh", "openst"}
    BY <2>4 DEF StoreFhOpen, StoreStateid, release_cb, Effect
  <2>6. \A f \in Files : OpeningBy(t, f)' => OpeningBy(t, f)
    BY <2>1, <2>3, <2>5 DEF OpeningBy, Copied, NfsMoved
  <2>7. \A f \in Files : nopen'[f] >= nopen[f] /\ handles'[f] <= handles[f]
    BY <2>1, <2>2 DEF Owned, TypeOK
  <2>. QED
    BY <2>1, <2>3, <2>6, <2>7, CallbackCount DEF NfsMoved
<1>. QED
  BY <1>1, <1>2

(* A callback that starts has counted nothing. *)
LEMMA StartCount ==
  ASSUME Owned, TypeOK', OpensCounted, NEW t \in Threads, CallbackStart(t)
  PROVE  OpensCounted'
<1>1. UNCHANGED <<vq, cbdata, handles, nopen>>
  BY DEF CallbackStart, inodeVars, openVars, poolVars, hostVars
<1>2. nfs'[t].pc = "slot" /\ \A u \in Threads \ {t} : nfs'[u] = nfs[u]
  BY DEF CallbackStart, Owned, TypeOK
<1>3. \A f \in Files : ~OpeningBy(t, f)'
  BY <1>2 DEF OpeningBy, Copied
<1>4. \A f \in Files : nopen'[f] >= nopen[f] /\ handles'[f] <= handles[f]
  BY <1>1 DEF Owned, TypeOK
<1>. QED
  BY <1>1, <1>2, <1>3, <1>4, CallbackCount

(* Freeing the slot or the chunk does not change what is counted. *)
LEMMA SlotFreeCount ==
  ASSUME Owned, FhStored, TypeOK', OpensCounted, NEW t \in Threads,
         CallbackSlot(t) \/ CallbackFree(t) \/ CallbackFreed(t)
  PROVE  OpensCounted'
<1>1. UNCHANGED <<vq, cbdata, handles, nopen>>
  BY DEF CallbackSlot, CallbackFree, CallbackFreed, inodeVars, openVars, poolVars, hostVars
<1>2. nfs \in [Threads -> Callback]
  BY DEF Owned, TypeOK
<1>3. \A f \in Files : nopen'[f] >= nopen[f] /\ handles'[f] <= handles[f]
  BY <1>1 DEF Owned, TypeOK
<1>4. CASE CallbackSlot(t)
  <2>1. /\ nfs[t].pc = "slot" /\ ~nfs[t].ok
        /\ nfs'[t].pc \in {"effect", "free"} /\ nfs'[t].ok = nfs[t].ok
        /\ \A u \in Threads \ {t} : nfs'[u] = nfs[u]
    BY <1>2, <1>4 DEF CallbackSlot, Callback, FhStored
  <2>2. \A f \in Files : ~OpeningBy(t, f)'
    BY <2>1 DEF OpeningBy, Copied
  <2>. QED
    BY <1>1, <1>3, <2>1, <2>2, CallbackCount
<1>5. CASE CallbackFree(t)
  <2>1. /\ nfs[t].pc = "free"
        /\ nfs'[t].pc = "freeing" /\ nfs'[t].ok = nfs[t].ok /\ nfs'[t].op = nfs[t].op
        /\ nfs'[t].file = cbdata[t][nfs[t].cb].i
        /\ \A u \in Threads \ {t} : nfs'[u] = nfs[u]
    BY <1>2, <1>5 DEF CallbackFree, Callback
  <2>2. \A f \in Files : OpeningBy(t, f)' => OpeningBy(t, f)
    BY <1>1, <2>1 DEF OpeningBy, Copied
  <2>. QED
    BY <1>1, <1>3, <2>1, <2>2, CallbackCount
<1>6. CASE CallbackFreed(t)
  <2>1. /\ nfs[t].pc = "freeing"
        /\ nfs'[t].pc = "complete" /\ nfs'[t].ok = nfs[t].ok /\ nfs'[t].op = nfs[t].op
        /\ nfs'[t].file = nfs[t].file
        /\ \A u \in Threads \ {t} : nfs'[u] = nfs[u]
    BY <1>2, <1>6 DEF CallbackFreed, Callback
  <2>2. \A f \in Files : OpeningBy(t, f)' => OpeningBy(t, f)
    BY <1>1, <2>1 DEF OpeningBy, Copied
  <2>. QED
    BY <1>1, <1>3, <2>1, <2>2, CallbackCount
<1>. QED
  BY <1>4, <1>5, <1>6

-----------------------------------------------------------------------------
(* The inductive invariant *)

Sound == Ownership /\ Holding /\ RootHasFh

(* Nothing is claimed once two mpool_free of one pool overlapped. *)
IInv == PoolsIntact => Sound

(* Every step of a service thread preserves the invariant. *)
LEMMA ServiceStep ==
  ASSUME Ownership, NEW t \in Threads, Service(t)
  PROVE  Ownership' /\ (Holding => Holding')
<1>0. Owned /\ FhStored /\ OpensCounted
  BY DEF Ownership
<1>1. CASE CallbackStart(t)
  <2>1. Owned' /\ (Holding => Holding')
    BY <1>0, <1>1, StartHolding
  <2>. QED
    BY <1>0, <1>1, <2>1, StartFh, StartCount DEF Ownership, Owned
<1>2. CASE CallbackSlot(t) \/ CallbackFree(t) \/ CallbackFreed(t)
  <2>1. Owned' /\ (Holding => Holding')
    BY <1>0, <1>2, SlotHolding, FreeHolding
  <2>. QED
    BY <1>0, <1>2, <2>1, SlotFreeFh, SlotFreeCount DEF Ownership, Owned
<1>3. CASE Effects(t)
  <2>1. Owned' /\ (Holding => Holding')
    BY <1>0, <1>3, EffectHolding
  <2>. QED
    BY <1>0, <1>3, <2>1, EffectFh, EffectCount DEF Ownership, Owned
<1>4. CASE CallbackComplete(t)
  <2>1. Owned' /\ (Holding => Holding')
    BY <1>0, <1>4, CompleteHolding
  <2>. QED
    BY <1>0, <1>4, <2>1, CompleteFh, CompleteCount DEF Ownership, Owned
<1>. QED
  BY <1>1, <1>2, <1>3, <1>4 DEF Service, CallbackStep, Effects

(* Every step of the server or of the RPC layer preserves the invariant. *)
LEMMA ServerStep ==
  ASSUME Ownership, NEW r \in Requests, Serve(r) \/ RpcFail(r)
  PROVE  Ownership' /\ (Holding => Holding')
<1>0. Owned /\ FhStored /\ OpensCounted
  BY DEF Ownership
<1>1. Owned' /\ (Holding => Holding')
  BY <1>0, ServeHolding, RpcFailHolding
<1>2. FhStored'
  BY <1>0, ServeFh
<1>3. UNCHANGED <<vq, cbdata, nfs, nopen, handles>>
  BY DEF Serve, RpcFail, ClientUnchanged, inodeVars, openVars, poolVars, hostVars
<1>4. OpensCounted'
  BY <1>0, <1>3 DEF OpensCounted, Releasing, Running, Opening, OpeningBy, Copied
<1>. QED
  BY <1>1, <1>2, <1>4 DEF Ownership

(* No step of a poller thread takes a file handle back. *)
LEMMA VirtioFh ==
  ASSUME Owned, FhStored, NEW t \in Threads, Virtio(t)
  PROVE  FhStored'
<1>1. CASE SendCompound(t)
  BY <1>1, SendFh
<1>2. CASE ~SendCompound(t)
  <2>1. UNCHANGED <<known, fh, wire, nfs>>
    BY <1>2 DEF Virtio, Deliver, lookup, getattr, statfs, vread, vwrite, vfsync, vopen,
       vopen_count, release, AllocOpenRelease, AllocCbData, ScanSlot, ClaimSlot,
       FreeUnsent, ReturnDeferred, hostVars, inodeVars
  <2>. QED
    BY <2>1, FhUnchanged
<1>. QED
  BY <1>1, <1>2

(* mpool_alloc does not change what is counted. *)
LEMMA AllocCount ==
  ASSUME Owned, PoolsIntact, TypeOK', OpensCounted, NEW t \in Threads, AllocCbData(t)
  PROVE  OpensCounted'
<1>1. UNCHANGED <<nfs, handles, nopen>>
  BY DEF AllocCbData, inodeVars, openVars, poolVars, hostVars
<1>2. \A f \in Files : nopen'[f] >= nopen[f]
  BY <1>1 DEF Owned, TypeOK
<1>3. vq \in [Threads -> Poller]
  BY DEF Owned, TypeOK
<1>4. CASE ReturnHandled(t) /\ UNCHANGED cbdata
  <2>1. vq'[t].pc = "idle" /\ \A u \in Threads \ {t} : vq'[u] = vq[u]
    BY <1>3, <1>4, MoveIdle DEF ReturnHandled, VqIdle
  <2>2. ~Running(t, "release")'
    BY <2>1 DEF Running
  <2>. QED
    BY <1>1, <1>2, <1>4, <2>1, <2>2, HandlerCount
<1>5. ASSUME NEW c \in pool[t],
             cbdata' = [cbdata EXCEPT ![t][c] = [@ EXCEPT !.ctx = vq[t].r,
                                                          !.i = vq[t].file]],
             vq' = [vq EXCEPT ![t] = [@ EXCEPT !.pc = "scan", !.cb = c, !.pos = 0]]
      PROVE  OpensCounted'
  <2>1. c \in Chunks /\ "scan" \in PollerPcs /\ 0 \in 0 .. NSlots
    BY VnfsAssumption DEF Owned, TypeOK, PollerPcs
  <2>2. vq'[t].pc = "scan" /\ \A u \in Threads \ {t} : vq'[u] = vq[u]
    BY <1>3, <1>5, <2>1, MoveCb DEF VqMoved
  <2>3. ~Running(t, "release")'
    BY <2>2 DEF Running
  <2>4. \A u \in Threads : nfs[u].pc \in CallingCb =>
          cbdata'[u][nfs[u].cb].i = cbdata[u][nfs[u].cb].i
    <3>1. nfs[t].pc \in CallingCb => nfs[t].cb # c
      BY DEF Owned, ChunksHeld
    <3>2. cbdata \in [Threads -> [Chunks -> CbData]]
      BY DEF Owned, TypeOK
    <3> DEFINE d == [cbdata[t][c] EXCEPT !.ctx = vq[t].r, !.i = vq[t].file]
    <3>0. cbdata' = [cbdata EXCEPT ![t][c] = d]
      BY <1>5
    <3> HIDE DEF d
    <3>3. \A u \in Threads, e \in Chunks : u # t \/ e # c => cbdata'[u][e] = cbdata[u][e]
      BY <2>1, <3>0, <3>2
    <3>4. \A u \in Threads : nfs[u].pc \in CallingCb => nfs[u].cb \in Chunks
      BY DEF Owned, Stacks, CallingCb
    <3>. QED
      BY <3>1, <3>3, <3>4
  <2>. QED
    BY <1>1, <1>2, <2>2, <2>3, <2>4, HandlerCount
<1>6. Allocable(t) = pool[t]
  BY DEF Allocable, PoolsIntact
<1>. QED
  BY <1>4, <1>5, <1>6 DEF AllocCbData

(* The steps of a handler that is past its release and holds no new chunk. *)
LEMMA MoveCount ==
  ASSUME Owned, TypeOK', OpensCounted, NEW t \in Threads,
         vopen(t) \/ vopen_count(t) \/ ScanSlot(t) \/ ClaimSlot(t) \/ SendCompound(t)
           \/ FreeUnsent(t) \/ ReturnDeferred(t)
  PROVE  OpensCounted'
<1>1. UNCHANGED <<nfs, handles>>
  BY DEF vopen, vopen_count, ScanSlot, ClaimSlot, SendCompound, FreeUnsent,
     ReturnDeferred, hostVars
<1>2. \A f \in Files : nopen'[f] >= nopen[f]
  <2>1. UNCHANGED nopen \/ nopen' = [nopen EXCEPT ![vq[t].file] = @ + 1]
    BY DEF vopen, vopen_count, ScanSlot, ClaimSlot, SendCompound, FreeUnsent,
     ReturnDeferred, inodeVars,
       openVars
  <2>2. nopen \in [Files -> Nat]
    BY DEF Owned, TypeOK
  <2>. QED
    BY <2>1, <2>2
<1>4. \A u \in Threads : nfs[u].pc \in CallingCb =>
        cbdata'[u][nfs[u].cb].i = cbdata[u][nfs[u].cb].i
  <2>1. CASE UNCHANGED cbdata
    BY <2>1
  <2>2. CASE ClaimSlot(t)
    <3>1. vq[t].pc \in WithCb /\ vq[t].cb \in Chunks
      BY <2>2 DEF ClaimSlot, WithCb, Owned, Stacks
    <3>2. \A u \in Threads : nfs[u].pc \in CallingCb =>
            nfs[u].cb \in Chunks /\ (u # t \/ nfs[u].cb # vq[t].cb)
      BY <3>1 DEF Owned, Stacks, ChunksHeld, CallingCb
    <3>3. cbdata \in [Threads -> [Chunks -> CbData]]
      BY DEF Owned, TypeOK
    <3> DEFINE c == vq[t].cb
               d == [cbdata[t][c] EXCEPT !.slotid = vq[t].pos]
    <3>4. cbdata' = [cbdata EXCEPT ![t][c] = d]
      BY <2>2 DEF ClaimSlot
    <3> HIDE DEF d, c
    <3>5. \A u \in Threads, e \in Chunks : u # t \/ e # c => cbdata'[u][e] = cbdata[u][e]
      BY <3>3, <3>4
    <3>. QED
      BY <3>2, <3>5 DEF c
  <2>. QED
    BY <2>1, <2>2 DEF vopen, vopen_count, ScanSlot, SendCompound, FreeUnsent,
     ReturnDeferred
<1>5. \A u \in Threads \ {t} : vq'[u] = vq[u]
  BY DEF vopen, vopen_count, ScanSlot, ClaimSlot, SendCompound, FreeUnsent,
     ReturnDeferred,
     ReturnHandled,
     Goto, Owned, TypeOK
<1>6. ~Running(t, "release")'
  <2>1. vq \in [Threads -> Poller]
    BY DEF Owned, TypeOK
  <2>2. CASE \E x \in {"count", "alloc", "claim", "free", "return"} : vq' = [vq EXCEPT ![t].pc = x]
    BY <2>1, <2>2 DEF Running, Poller
  <2>3. CASE vq' = [vq EXCEPT ![t] = IdlePoller]
    BY <2>1, <2>3 DEF Running, IdlePoller
  <2>4. CASE ScanSlot(t) /\ vq'[t].pc = "scan"
    BY <2>4 DEF Running
  <2>5. CASE ClaimSlot(t)
    BY <2>1, <2>5 DEF ClaimSlot, Running, Poller
  <2>6. ScanSlot(t) => \/ \E x \in {"count", "alloc", "claim", "free", "return"} :
                            vq' = [vq EXCEPT ![t].pc = x]
                       \/ vq'[t].pc = "scan"
    BY <2>1 DEF ScanSlot, Poller
  <2>7. ~ScanSlot(t) /\ ~ClaimSlot(t) =>
          \/ \E x \in {"count", "alloc", "claim", "free", "return"} : vq' = [vq EXCEPT ![t].pc = x]
          \/ vq' = [vq EXCEPT ![t] = IdlePoller]
    BY DEF vopen, vopen_count, SendCompound, FreeUnsent,
     ReturnDeferred, ReturnHandled, Goto
  <2>. QED
    BY <2>2, <2>3, <2>4, <2>5, <2>6, <2>7
<1>. QED
  BY <1>1, <1>2, <1>4, <1>5, <1>6, HandlerCount

(* Every step of a poller thread preserves the invariant. *)
LEMMA VirtioStep ==
  ASSUME Ownership, PoolsIntact, NEW t \in Threads, Virtio(t)
  PROVE  Ownership' /\ (Holding => Holding')
<1>0. Owned /\ FhStored /\ OpensCounted /\ ReleaseCounted
  BY ReleaseIsCounted DEF Ownership, Owned
<1>1. FhStored'
  BY <1>0, VirtioFh
<1>2. ASSUME NEW r \in Requests, NEW op \in Ops, NEW f \in Files, Deliver(t, r, op, f)
      PROVE  Ownership' /\ (Holding => Holding')
  <2>1. Owned' /\ (Holding => Holding')
    BY <1>0, <1>2, DeliverHolding
  <2>2. OpensCounted'
    BY <1>0, <1>2, <2>1, DeliverCount DEF Owned
  <2>. QED
    BY <1>1, <2>1, <2>2 DEF Ownership
<1>3. CASE vq[t].pc \in {"entry", "alloc"} /\ AllocCbData(t)
  <2>1. Owned' /\ (Holding => Holding')
    BY <1>0, <1>3, AllocHolding
  <2>2. OpensCounted'
    BY <1>0, <1>3, <2>1, AllocCount DEF Owned
  <2>. QED
    BY <1>1, <2>1, <2>2 DEF Ownership
<1>4. CASE release(t)
  <2>1. Owned' /\ (Holding => Holding')
    BY <1>0, <1>4, ReleaseHolding
  <2>2. OpensCounted'
    BY <1>0, <1>4, <2>1, ReleaseCount DEF Owned
  <2>. QED
    BY <1>1, <2>1, <2>2 DEF Ownership
<1>5. CASE vopen(t) \/ vopen_count(t) \/ ScanSlot(t) \/ ClaimSlot(t) \/ SendCompound(t)
             \/ FreeUnsent(t) \/ ReturnDeferred(t)
  <2>1. Owned' /\ (Holding => Holding')
    BY <1>0, <1>5, OpenHolding, ScanHolding, ClaimHolding, SendHolding,
       FreeUnsentHolding, DeferHolding
  <2>2. OpensCounted'
    BY <1>0, <1>5, <2>1, MoveCount DEF Owned
  <2>. QED
    BY <1>1, <2>1, <2>2 DEF Ownership
<1>6. \/ \E r \in Requests, op \in Ops, f \in Files : Deliver(t, r, op, f)
      \/ vq[t].pc \in {"entry", "alloc"} /\ AllocCbData(t)
      \/ release(t)
      \/ vopen(t) \/ vopen_count(t) \/ ScanSlot(t) \/ ClaimSlot(t) \/ SendCompound(t)
           \/ FreeUnsent(t) \/ ReturnDeferred(t)
  BY DEF Virtio, lookup, getattr, statfs, vread, vwrite, vfsync, AllocOpenRelease, Running
<1>. QED
  BY <1>2, <1>3, <1>4, <1>5, <1>6

(* What leaves requests, chunks and opens alone, and takes no file handle  *)
(* back, preserves who holds what.                                         *)
LEMMA OwnershipKept ==
  ASSUME Ownership, TypeOK', \A f \in Files : fh'[f] \in {fh[f], "set"},
         UNCHANGED <<handler, completions, vq, pool, torn, cbdata, wire, nfs, nopen, known,
                     handles>>
  PROVE  Ownership'
<1>1. \A t \in Threads : Serving(t)' = Serving(t)
  BY DEF Serving, Copied
<1>2. Stacks' /\ ChunksHeld'
  BY <1>1 DEF Ownership, Owned, Stacks, ChunksHeld, Held
<1>3. HeldByHandler'
  BY <1>1 DEF Ownership, Owned, RequestsHeld, HeldByHandler, Held
<1>4. HeldByLibnfs' /\ HeldByCallback'
  BY <1>1 DEF Ownership, Owned, RequestsHeld, HeldByLibnfs, HeldByCallback, Held
<1>5. RequestsHeld'
  BY <1>3, <1>4 DEF Ownership, Owned, RequestsHeld
<1>6. FhStored'
  <2>1. \A f \in known : f \in Files
    BY DEF Ownership, Owned, TypeOK
  <2>. QED
    BY <2>1 DEF Ownership, FhStored, ToldFileHasFh, Held
<1>7. OpensCounted'
  BY DEF Ownership, OpensCounted, Releasing, Running, Opening, OpeningBy, Copied
<1>. QED
  BY <1>2, <1>5, <1>6, <1>7 DEF Ownership, Owned

(* No step of dpfs_nfs takes an inode out of the table or a file handle    *)
(* back.                                                                   *)
LEMMA FhKept ==
  ASSUME TypeOK, Next, NEW f \in Files
  PROVE  /\ fh[f] # "absent" => fh'[f] # "absent"
         /\ fh[f] \in {"len", "set"} => fh'[f] \in {"len", "set"}
<1>1. fh \in [Files -> {"absent", "none", "len", "set"}]
  BY DEF TypeOK
<1>2. ASSUME NEW t \in Threads, Effects(t)
      PROVE  \/ UNCHANGED fh
             \/ fh[nfs[t].obj] = "absent" /\ fh' = [fh EXCEPT ![nfs[t].obj] = "none"]
             \/ fh' = [fh EXCEPT ![nfs[t].obj] = "len"]
             \/ fh' = [fh EXCEPT ![nfs[t].obj] = "set"]
  BY <1>2 DEF Effects, lookup_cb, CloneFh, CloneFhBytes, getattr_cb, statfs_cb, vread_cb,
     vwrite_cb, vfsync_cb, vopen_cb, StoreFhOpen, StoreStateid, release_cb, AttrCb,
     DataCb, inodeVars, InTable
<1>3. CASE \E t \in Threads : Effects(t)
  BY <1>1, <1>2, <1>3
<1>4. CASE ~\E t \in Threads : Effects(t)
  <2>1. UNCHANGED fh
    <3>1. ASSUME NEW t \in Threads, Virtio(t) PROVE UNCHANGED fh
      BY <3>1 DEF Virtio, Deliver, lookup, getattr, statfs, vread, vwrite, vfsync, vopen,
         vopen_count, release, AllocOpenRelease, AllocCbData, ScanSlot, ClaimSlot,
         SendCompound, FreeUnsent, ReturnDeferred, inodeVars
    <3>2. ASSUME NEW t \in Threads, Service(t) PROVE UNCHANGED fh
      BY <1>4, <3>2 DEF Service, CallbackStep, Effects, CallbackStart, CallbackSlot,
         CallbackFree, CallbackFreed, CallbackComplete, inodeVars
    <3>3. ASSUME NEW r \in Requests, Serve(r) \/ RpcFail(r) PROVE UNCHANGED fh
      BY <3>3 DEF Serve, RpcFail, ClientUnchanged, inodeVars
    <3>. QED
      BY <3>1, <3>2, <3>3 DEF Next
  <2>. QED
    BY <2>1
<1>. QED
  BY <1>3, <1>4

(* Every step of dpfs_nfs preserves who holds what. *)
LEMMA NextStep ==
  ASSUME Ownership, PoolsIntact, Next
  PROVE  Ownership' /\ (Holding => Holding')
  BY VirtioStep, ServiceStep, ServerStep DEF Next

(* An overlap is remembered. *)
LEMMA TornStays ==
  ASSUME Next
  PROVE  torn \subseteq torn'
<1>1. ASSUME NEW t \in Threads, Virtio(t) PROVE torn \subseteq torn'
  BY <1>1 DEF Virtio, Deliver, lookup, getattr, statfs, vread, vwrite, vfsync, vopen,
     vopen_count, release, AllocOpenRelease, AllocCbData, ScanSlot, ClaimSlot,
     SendCompound, FreeUnsent, ReturnDeferred, Publish, poolVars
<1>2. ASSUME NEW t \in Threads, Service(t) PROVE torn \subseteq torn'
  BY <1>2 DEF Service, CallbackStart, CallbackStep, CallbackSlot, CallbackFree,
     CallbackFreed, CallbackComplete, lookup_cb, CloneFh, CloneFhBytes, getattr_cb,
     statfs_cb, vread_cb, vwrite_cb, vfsync_cb, vopen_cb, StoreFhOpen, StoreStateid,
     release_cb, AttrCb, DataCb, SameButInode, Publish, poolVars
<1>3. ASSUME NEW r \in Requests, Serve(r) \/ RpcFail(r) PROVE torn \subseteq torn'
  BY <1>3 DEF Serve, RpcFail, ClientUnchanged, poolVars
<1>. QED
  BY <1>1, <1>2, <1>3 DEF Next

(* Stuttering preserves the invariant. *)
LEMMA StutterStep ==
  ASSUME Sound, UNCHANGED vars
  PROVE  Sound'
<1>1. UNCHANGED <<handler, completions, vq, pool, torn, cbdata, in_use, seqid, wire, nfs, fh,
                  nopen, fh_open, open_stateid, srvSeq, srvOpens, lost, known, handles>>
  BY DEF vars, halVars, slotVars, inodeVars, openVars, poolVars, serverVars, hostVars
<1>2. TypeOK'
  BY <1>1 DEF Sound, Holding, Owned, TypeOK
<1>3. Ownership'
  BY <1>1, <1>2, OwnershipKept DEF Sound
<1>4. SlotsHeld'
  <2>1. \A t \in Threads : HandlerSlot(t)' /\ CalledSlot(t)'
    BY <1>1 DEF Sound, Holding, SlotsHeld, SlotsHeldOn, HandlerSlot, CalledSlot
  <2>2. \A t \in Threads, r \in Requests : CompoundSlot(t, r)'
    BY <1>1 DEF Sound, Holding, SlotsHeld, SlotsHeldOn, CompoundSlot, Held
  <2>. QED
    BY <2>1, <2>2 DEF SlotsHeld, SlotsHeldOn
<1>5. SequenceIds'
  BY <1>1 DEF Sound, Holding, SequenceIds, SequenceIdOf, Held
<1>. QED
  BY <1>1, <1>3, <1>4, <1>5 DEF Sound, Ownership, Holding, RootHasFh

(* The inductive invariant holds in every state of dpfs_nfs. *)
THEOREM Invariance == Spec => []IInv
<1>1. Init => IInv
  <2> DEFINE handle == [f \in Files |-> IF f = Root THEN "set" ELSE "absent"]
  <2>1. handle \in [Files -> {"absent", "none", "len", "set"}]
    OBVIOUS
  <2>2. Init => InitWith(handle) /\ RootHasFh
    BY VnfsAssumption DEF Init, InitWith, RootHasFh
  <2> HIDE DEF handle
  <2>. QED
    BY <2>1, <2>2, HoldingInit DEF IInv, Sound
<1>2. IInv /\ [Next]_vars => IInv'
  <2>1. ASSUME IInv, Next, PoolsIntact' PROVE Sound'
    <3>0. Sound /\ PoolsIntact
      BY <2>1, TornStays DEF IInv, PoolsIntact
    <3>1. Ownership' /\ Holding'
      BY <2>1, <3>0, NextStep DEF Sound
    <3>2. RootHasFh'
      BY <2>1, <3>0, FhKept, VnfsAssumption DEF Sound, Holding, Owned, RootHasFh
    <3>. QED
      BY <3>1, <3>2 DEF Sound
  <2>2. ASSUME IInv, UNCHANGED vars, PoolsIntact' PROVE Sound'
    <3>1. PoolsIntact
      BY <2>2 DEF vars, poolVars, PoolsIntact
    <3>. QED
      BY <2>2, <3>1, StutterStep DEF IInv
  <2>. QED
    BY <2>1, <2>2 DEF IInv
<1>. QED
  BY <1>1, <1>2, PTL DEF Spec

-----------------------------------------------------------------------------
(* What the runs check, for any number of threads, requests and files *)

(* The types hold: in particular nopen, an atomic_uint_fast32_t, is never  *)
(* decremented below zero, and no callback runs without its cb_data.       *)
THEOREM TypeCorrect == Spec => [](PoolsIntact => TypeOK)
<1>1. IInv => (PoolsIntact => TypeOK)
  BY DEF IInv, Sound, Holding, Owned
<1>. QED
  BY <1>1, Invariance, PTL

(* Two outstanding compounds of a session never share a slot.              *)
THEOREM SlotsAreExclusive == Spec => []SlotExclusive
<1>1. IInv => SlotExclusive
  <2>1. SUFFICES ASSUME Sound, NEW q \in Requests, NEW r \in Requests, Held(q), Held(r),
                        q # r, wire[q].t = wire[r].t
                 PROVE  wire[q].slot # wire[r].slot
    BY DEF IInv, SlotExclusive
  <2>2. wire[r].t \in Threads
    BY <2>1 DEF Sound, Holding, Owned, TypeOK, Held, Pdu
  <2>. QED
    BY <2>1, <2>2 DEF Sound, Holding, SlotsHeld, SlotsHeldOn, HandlerSlot, CalledSlot,
       CompoundSlot
<1>. QED
  BY <1>1, Invariance, PTL

(* Every compound the server gets carries the sequence id it expects, on   *)
(* all slots but those the RPC layer lost a compound on.                   *)
THEOREM SequencesAreInOrder == Spec => []SequenceInOrder
<1>1. IInv => SequenceInOrder
  <2>1. SUFFICES ASSUME Sound, NEW r \in Requests, Held(r), wire[r].st = "sent",
                        wire[r].slot \notin lost[wire[r].t]
                 PROVE  wire[r].seq = srvSeq[wire[r].t][wire[r].slot] + 1
    BY DEF IInv, SequenceInOrder
  <2>2. wire[r].t \in Threads /\ wire[r].slot \in Slots
    BY <2>1 DEF Sound, Holding, Owned, TypeOK, Held, Pdu
  <2>3. SequenceIdOf(wire[r].t, wire[r].slot)
    BY <2>1, <2>2 DEF Sound, Holding, SequenceIds
  <2>. QED
    BY <2>1, <2>3 DEF SequenceIdOf
<1>. QED
  BY <1>1, Invariance, PTL

(* Held chunks are held once. *)
LEMMA ChunksAreExclusive ==
  ASSUME Owned
  PROVE  CbDataExclusive
<1>1. SUFFICES ASSUME NEW t \in Threads, NEW c \in Chunks
               PROVE  /\ PollerHolds(t, c) => c \notin pool[t] /\ ~ServiceHolds(t, c)
                      /\ ServiceHolds(t, c) => c \notin pool[t]
                      /\ \A r \in Requests : WireHolds(t, c, r) =>
                           /\ c \notin pool[t] /\ ~PollerHolds(t, c) /\ ~ServiceHolds(t, c)
                           /\ \A q \in Requests : WireHolds(t, c, q) => q = r
  BY DEF CbDataExclusive
<1>2. ServiceHolds(t, c) => nfs[t].pc \in CallingCb
  BY DEF ServiceHolds, CallingCb, Calling, Owned, TypeOK, Callback
<1>. QED
  BY <1>2 DEF Owned, ChunksHeld, PollerHolds, ServiceHolds, WireHolds, WithCb

(* A cb_data chunk has one owner, from mpool_alloc to mpool_free.          *)
THEOREM CbDataIsExclusive == Spec => []CbDataExclusive
<1>1. IInv => CbDataExclusive
  BY ChunksAreExclusive DEF IInv, Sound, Holding, CbDataExclusive
<1>. QED
  BY <1>1, Invariance, PTL

(* Every nodeid that a lookup told the host has an inode with a handle.    *)
THEOREM KnownFilesHaveFh == Spec => []KnownFileHasFh
<1>1. IInv => KnownFileHasFh
  BY DEF IInv, Sound, Ownership, FhStored, ToldFileHasFh, RootHasFh, KnownFileHasFh
<1>. QED
  BY <1>1, Invariance, PTL

(* nopen is at least the number of handles the host holds.                 *)
THEOREM NopenIsEnough == Spec => []NopenCoversHandles
<1>1. IInv => NopenCoversHandles
  <2>1. SUFFICES ASSUME Sound, NEW f \in Files
                 PROVE  nopen[f] >= handles[f] + Cardinality(Releasing(f))
    BY DEF IInv, NopenCoversHandles
  <2>2. Cardinality(Releasing(f)) \in Nat /\ Cardinality(Opening(f)) \in Nat
    BY CountSame DEF Releasing, Opening
  <2>3. nopen[f] \in Nat /\ handles[f] \in Nat
    BY <2>1 DEF Sound, Holding, Owned, TypeOK
  <2>. QED
    BY <2>1, <2>2, <2>3 DEF Sound, Ownership, OpensCounted
<1>. QED
  BY <1>1, Invariance, PTL

(* The contract of the HAL: every step of dpfs_nfs is one of the contract  *)
(* or leaves the HAL's view of the requests alone.                         *)
LEMMA HalStep ==
  ASSUME Owned, Next
  PROVE  Hal!Next \/ UNCHANGED <<handler, completions>>
<1>1. ASSUME NEW t \in Threads, ReturnHandled(t), vq[t].pc \in Before
      PROVE  Hal!Next
  <2>1. vq[t].r \in Requests /\ handler[vq[t].r] = "running" /\ completions[vq[t].r] = 0
    BY <1>1 DEF Owned, Stacks, RequestsHeld, HeldByHandler, Before
  <2>2. Hal!ReturnHandled(vq[t].r)
    BY <1>1, <2>1 DEF ReturnHandled, Hal!ReturnHandled
  <2>. QED
    BY <2>1, <2>2 DEF Hal!Next
<1>2. ASSUME NEW t \in Threads, ReturnDeferred(t)
      PROVE  Hal!Next
  <2>1. vq[t].r \in Requests /\ handler[vq[t].r] = "running"
    BY <1>2 DEF ReturnDeferred, Owned, Stacks, RequestsHeld, HeldByHandler
  <2>2. Hal!ReturnDeferred(vq[t].r)
    BY <1>2, <2>1 DEF ReturnDeferred, Hal!ReturnDeferred
  <2>. QED
    BY <2>1, <2>2 DEF Hal!Next
<1>3. ASSUME NEW t \in Threads, CallbackComplete(t)
      PROVE  Hal!Next
  <2>1. nfs[t].pc = "complete" /\ nfs[t].pc \in Calling
    BY <1>3 DEF CallbackComplete, Calling, CallbackPcs
  <2>2. /\ nfs[t].ctx \in Requests /\ completions[nfs[t].ctx] = 0
        /\ handler[nfs[t].ctx] \in {"running", "deferred"}
    BY <2>1 DEF Owned, Stacks, RequestsHeld, HeldByCallback, Serving, Copied
  <2>3. Hal!AsyncComplete(nfs[t].ctx)
    BY <1>3, <2>2 DEF CallbackComplete, Hal!AsyncComplete
  <2>. QED
    BY <2>2, <2>3 DEF Hal!Next
<1>4. ASSUME NEW t \in Threads, NEW r \in Requests, NEW op \in Ops, NEW f \in Files,
             Deliver(t, r, op, f)
      PROVE  Hal!Next
  BY <1>4 DEF Deliver, Hal!Deliver, Hal!Next
<1>5. ASSUME NEW t \in Threads, Virtio(t), ~ReturnDeferred(t),
             ~\E r \in Requests, op \in Ops, f \in Files : Deliver(t, r, op, f)
      PROVE  \/ ReturnHandled(t) /\ vq[t].pc \in Before
             \/ UNCHANGED <<handler, completions>>
  <2>1. ASSUME AllocCbData(t)
        PROVE  ReturnHandled(t) \/ UNCHANGED <<handler, completions>>
    BY <2>1 DEF AllocCbData, halVars
  <2>2. CASE \/ lookup(t) \/ getattr(t) \/ statfs(t) \/ vread(t) \/ vwrite(t)
             \/ vfsync(t) \/ AllocOpenRelease(t)
    <3>1. AllocCbData(t) /\ vq[t].pc \in {"entry", "alloc"}
      BY <2>2 DEF lookup, getattr, statfs, vread, vwrite, vfsync, AllocOpenRelease, Running
    <3>. QED
      BY <2>1, <3>1 DEF Before
  <2>3. CASE vopen(t) \/ release(t) \/ FreeUnsent(t)
    BY <2>3 DEF vopen, release, FreeUnsent, Running, Before, halVars
  <2>4. CASE vopen_count(t) \/ ScanSlot(t) \/ ClaimSlot(t) \/ SendCompound(t)
    BY <2>4 DEF vopen_count, ScanSlot, ClaimSlot, SendCompound, halVars
  <2>. QED
    BY <1>5, <2>2, <2>3, <2>4 DEF Virtio
<1>6. ASSUME NEW t \in Threads, Service(t), ~CallbackComplete(t)
      PROVE  UNCHANGED <<handler, completions>>
  BY <1>6 DEF Service, CallbackStart, CallbackStep, CallbackSlot, CallbackFree,
     CallbackFreed, lookup_cb,
     CloneFh, CloneFhBytes, getattr_cb, statfs_cb, vread_cb, vwrite_cb, vfsync_cb, vopen_cb,
     StoreFhOpen, StoreStateid, release_cb, AttrCb, DataCb, SameButInode, halVars
<1>7. ASSUME NEW r \in Requests, Serve(r) \/ RpcFail(r)
      PROVE  UNCHANGED <<handler, completions>>
  BY <1>7 DEF Serve, RpcFail, ClientUnchanged, halVars
<1>. QED
  BY <1>1, <1>2, <1>3, <1>4, <1>5, <1>6, <1>7 DEF Next

(* dpfs_nfs implements the contract of the HAL: whatever the interleaving  *)
(* of pollers and service threads, no request is both handled and          *)
(* completed, and none is completed twice.                                 *)
THEOREM KeepsHalContract == Spec => HalSpec
<1>1. Init => Hal!Init
  BY DEF Init, InitWith, Hal!Init
<1>2. IInv /\ [Next]_vars => [PoolsIntact => Hal!Next]_halVars
  <2>1. UNCHANGED vars => UNCHANGED halVars
    BY DEF vars
  <2>2. ASSUME IInv, Next, PoolsIntact PROVE Hal!Next \/ UNCHANGED halVars
    BY <2>2, HalStep DEF halVars, IInv, Sound, Holding
  <2>. QED
    BY <2>1, <2>2
<1>. QED
  BY <1>1, <1>2, Invariance, PTL DEF Spec, HalSpec
=============================================================================
