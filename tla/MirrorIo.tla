------------------------------ MODULE MirrorIo ------------------------------
(***************************************************************************)
(* Asynchronous I/O of the two mirror file systems: a handler on a polling *)
(* thread takes a cb_data chunk from the pool, submits the I/O and returns *)
(* EWOULDBLOCK; a completion thread takes the event, completes the request *)
(* of the chunk and frees the chunk.                                       *)
(*                                                                         *)
(* dpfs_uring (getattr, fsync, read, write) has a ring, a pool and a       *)
(* completion thread per polling thread, so one of each is modelled;       *)
(* dpfs_aio (read, write) has one context, pool and completion thread for  *)
(* all polling threads.  The pool is the ring of Mpool, step by step.      *)
(***************************************************************************)
EXTENDS Mpool, FiniteSets

CONSTANTS Requests, Backends

ASSUME IoAssumption == None \notin Chunks

VARIABLES backend,
          handler, completions,   \* of HalContract
          poller,                 \* the handler a polling thread is in
          ctx,                    \* completion_context in a chunk of cb_data
          sq,                     \* uring: entries prepared and not yet submitted
          io,                     \* I/O in the kernel
          reaper,                 \* the completion thread
          fault,                  \* what went wrong with a request, for the properties
          ended                   \* NULL was dereferenced

ioVars == <<poolVars, backend, handler, completions, poller, ctx, sq, io, reaper, fault, ended>>

Pollers == Consumers
Entry == [chunk : Chunks, req : Requests]   \* an I/O: cb_data, and the request's buffers
AtRest == [pc |-> "idle", req |-> None, chunk |-> None]

(* Chunks, positions of the ring and contexts stay in range while handlers and the completion     *)
(* thread work on the ring at the same time.                                                      *)
IoTypeOK == /\ held \in [Chunks -> 0..1]
            /\ c_head \in Slots /\ p_tail \in Slots
            /\ ctx \in [Chunks -> Requests \cup {None}]
            /\ sq \subseteq Entry /\ io \subseteq Entry
            /\ completions \in [Requests -> 0..2]

Init == /\ PoolInit
        /\ backend \in Backends
        /\ handler = [r \in Requests |-> "queued"]
        /\ completions = [r \in Requests |-> 0]
        /\ poller = [p \in Pollers |-> AtRest]
        /\ ctx = [c \in Chunks |-> None]
        /\ sq = {} /\ io = {}
        /\ reaper = AtRest
        /\ fault = [r \in Requests |-> None]
        /\ ended = FALSE

-----------------------------------------------------------------------------
(* The handler. *)

Deliver(p, r) ==
  /\ ~ended /\ poller[p].pc = "idle" /\ handler[r] = "queued"
  /\ handler' = [handler EXCEPT ![r] = "running"]
  /\ poller' = [poller EXCEPT ![p] = [AtRest EXCEPT !.pc = "alloc", !.req = r]]
  /\ UNCHANGED <<poolVars, backend, completions, ctx, sq, io, reaper, fault, ended>>

(* The pool is empty; the result of mpool_alloc is used unchecked. *)
AllocNull(p) ==
  /\ ~ended /\ poller[p].pc = "alloc" /\ AllocEmpty(p)
  /\ ended' = TRUE
  /\ UNCHANGED <<backend, handler, completions, poller, ctx, sq, io, reaper, fault>>

AllocStep(p) ==
  /\ ~ended /\ poller[p].pc = "alloc" /\ (AllocCheck(p) \/ AllocLoad(p))
  /\ UNCHANGED <<backend, handler, completions, poller, ctx, sq, io, reaper, fault, ended>>

(* A chunk, filled in for the request. *)
AllocDone(p) ==
  /\ ~ended /\ poller[p].pc = "alloc" /\ AllocPublish(p)
  /\ poller' = [poller EXCEPT ![p].pc = "submit", ![p].chunk = cons[p].e]
  /\ ctx' = [ctx EXCEPT ![cons[p].e] = poller[p].req]
  /\ UNCHANGED <<backend, handler, completions, sq, io, reaper, fault, ended>>

Prepared(p) == [chunk |-> poller[p].chunk, req |-> poller[p].req]
SubmitFails(p) == /\ poller' = [poller EXCEPT ![p].pc = "handled"]
                  /\ fault' = [fault EXCEPT ![poller[p].req] = "submit"]

(* io_uring_get_sqe, io_uring_submit.  A submit that fails answers the request *)
(* and leaves the entry in the submission queue, for the next submit to take.  *)
(* io_uring_get_sqe always finds an entry: a ring has 512, its pool 256 chunks. *)
UringSubmit(p) ==
  /\ ~ended /\ backend = "uring" /\ poller[p].pc = "submit"
  /\ \/ /\ io' = io \cup sq \cup {Prepared(p)}
        /\ sq' = {}
        /\ poller' = [poller EXCEPT ![p].pc = "deferred"]
        /\ UNCHANGED fault
     \/ /\ sq' = sq \cup {Prepared(p)}
        /\ SubmitFails(p)
        /\ UNCHANGED io
  /\ UNCHANGED <<poolVars, backend, handler, completions, ctx, reaper, ended>>

(* io_submit.  When it fails the chunk is not given back. *)
AioSubmit(p) ==
  /\ ~ended /\ backend = "aio" /\ poller[p].pc = "submit"
  /\ \/ /\ io' = io \cup {Prepared(p)}
        /\ poller' = [poller EXCEPT ![p].pc = "deferred"]
        /\ UNCHANGED fault
     \/ /\ SubmitFails(p)
        /\ UNCHANGED io
  /\ UNCHANGED <<poolVars, backend, handler, completions, ctx, sq, reaper, ended>>

(* The handler returns 0 or EWOULDBLOCK. *)
Return(p) ==
  /\ ~ended /\ poller[p].pc \in {"handled", "deferred"}
  /\ handler' = [handler EXCEPT ![poller[p].req] = poller[p].pc]
  /\ poller' = [poller EXCEPT ![p] = AtRest]
  /\ UNCHANGED <<poolVars, backend, completions, ctx, sq, io, reaper, fault, ended>>

-----------------------------------------------------------------------------
(* The completion thread. *)

Complete(c) == completions' = [completions EXCEPT ![ctx[c]] = @ + 1]

(* Mutant: fuser_mirror_generic_cb does not return after it completed a failed I/O. *)
UringReapNoReturn(e) ==
  /\ ~ended /\ backend = "uring" /\ reaper.pc = "idle" /\ e \in io
  /\ io' = io \ {e}
  /\ \E n \in 1..2 : completions' = [completions EXCEPT ![ctx[e.chunk]] = @ + n]
  /\ reaper' = [AtRest EXCEPT !.pc = "free", !.chunk = e.chunk]
  /\ UNCHANGED <<poolVars, backend, handler, poller, ctx, sq, fault, ended>>

(* Mutant: mpool_free is forgotten. *)
UringReapKeeps(e) ==
  /\ ~ended /\ backend = "uring" /\ reaper.pc = "idle" /\ e \in io
  /\ io' = io \ {e}
  /\ Complete(e.chunk)
  /\ UNCHANGED <<poolVars, backend, reaper, handler, poller, ctx, sq, fault, ended>>

(* fuser_io_blocking_thread, fuser_io_poll_thread: the callback of the chunk. *)
UringReap(e) ==
  /\ ~ended /\ backend = "uring" /\ reaper.pc = "idle" /\ e \in io
  /\ io' = io \ {e}
  /\ Complete(e.chunk)
  /\ reaper' = [AtRest EXCEPT !.pc = "free", !.chunk = e.chunk]
  /\ UNCHANGED <<poolVars, backend, handler, poller, ctx, sq, fault, ended>>

(* Waiting for events failed: the thread returns. *)
UringStops ==
  /\ ~ended /\ backend = "uring" /\ reaper.pc = "idle"
  /\ reaper' = [AtRest EXCEPT !.pc = "stopped"]
  /\ UNCHANGED <<poolVars, backend, handler, completions, poller, ctx, sq, io, fault, ended>>

(* Mutant: a failed event is only reported. *)
AioReapSilent(e) ==
  /\ ~ended /\ backend = "aio" /\ reaper.pc = "idle" /\ e \in io
  /\ io' = io \ {e}
  /\ \/ /\ reaper' = [AtRest EXCEPT !.pc = "free", !.chunk = e.chunk]
        /\ Complete(e.chunk)
        /\ UNCHANGED fault
     \/ /\ reaper' = [AtRest EXCEPT !.pc = "free", !.chunk = e.chunk]
        /\ UNCHANGED <<fault, completions>>
  /\ UNCHANGED <<poolVars, backend, handler, poller, ctx, sq, ended>>

(* An event of aio; res = -1 completes the request and goes on. *)
AioReap(e) ==
  /\ ~ended /\ backend = "aio" /\ reaper.pc = "idle" /\ e \in io
  /\ io' = io \ {e}
  /\ Complete(e.chunk)
  /\ \/ reaper' = [AtRest EXCEPT !.pc = "free", !.chunk = e.chunk] /\ UNCHANGED fault
     \/ /\ reaper' = [AtRest EXCEPT !.pc = "again", !.chunk = e.chunk]
        /\ fault' = [fault EXCEPT ![e.req] = "event"]
  /\ UNCHANGED <<poolVars, backend, handler, poller, ctx, sq, ended>>

AioAgain ==
  /\ ~ended /\ reaper.pc = "again"
  /\ Complete(reaper.chunk)
  /\ reaper' = [reaper EXCEPT !.pc = "free"]
  /\ UNCHANGED <<poolVars, backend, handler, poller, ctx, sq, io, fault, ended>>

(* mpool_free by the one producer. *)
FreeStep(q) ==
  /\ ~ended /\ reaper.pc \in {"free", "freeing"}
  /\ \/ /\ reaper.pc = "free" /\ FreeCheck(q, reaper.chunk)
        /\ reaper' = IF prod'[q] = NoCall THEN AtRest ELSE [reaper EXCEPT !.pc = "freeing"]
     \/ reaper.pc = "freeing" /\ FreeStore(q) /\ UNCHANGED reaper
     \/ reaper.pc = "freeing" /\ FreePublish(q) /\ reaper' = AtRest
  /\ UNCHANGED <<backend, handler, completions, poller, ctx, sq, io, fault, ended>>

-----------------------------------------------------------------------------
PollerStep(p) == \/ AllocNull(p) \/ AllocStep(p) \/ AllocDone(p)
                 \/ UringSubmit(p) \/ AioSubmit(p) \/ Return(p)
ReaperStep == \/ \E e \in Entry : UringReap(e) \/ AioReap(e)
              \/ AioAgain
              \/ \E q \in Producers : FreeStep(q)

Next == \/ \E p \in Pollers : \/ \E r \in Requests : Deliver(p, r)
                              \/ PollerStep(p)
        \/ ReaperStep
        \/ UringStops

(* Polling threads and the completion thread run; the kernel finishes I/O. *)
Spec == Init /\ [][Next]_ioVars
FairSpec == /\ Spec
            /\ \A p \in Pollers : WF_ioVars(PollerStep(p))
            /\ WF_ioVars(ReaperStep)

-----------------------------------------------------------------------------
(* A request is completed at most once, and not at all when its handler answered it, unless its   *)
(* submit failed (the entry that stays behind in the ring of uring) or its event failed (the      *)
(* completion of aio that is followed by a second one); an I/O completes the request whose        *)
(* buffers it used, although chunks are reused while events of earlier I/O are still to come.     *)
OnceUnlessFault ==
  /\ \A r \in Requests :
       /\ fault[r] # "event" => completions[r] <= 1
       /\ fault[r] # "submit" /\ handler[r] = "handled" => completions[r] = 0
  /\ \A e \in sq \cup io : ctx[e.chunk] = e.req

(* A chunk that is handed out belongs to a handler, to an I/O, or to the completion thread; only  *)
(* a failed io_submit of aio leaves one behind.  So a pool runs dry, and the next handler reads   *)
(* through NULL, only under that many requests in progress or failed.                             *)
Owners(c) == Cardinality({p \in Pollers : poller[p].chunk = c /\ poller[p].pc = "submit"})
             + Cardinality({e \in sq \cup io : e.chunk = c})
             + (IF reaper.chunk = c THEN 1 ELSE 0)
ChunksAccounted == \A c \in Chunks :
  /\ held[c] = 1 => \/ Owners(c) = 1
                    \/ backend = "aio" /\ Owners(c) = 0 /\ fault[ctx[c]] = "submit"
  /\ held[c] = 0 => Owners(c) = 0

(* A request that returned EWOULDBLOCK is completed, unless the completion thread of uring        *)
(* stopped or the process died of an empty pool.                                                  *)
DeferredAreCompleted == \A r \in Requests :
  handler[r] = "deferred" ~> (completions[r] > 0 \/ reaper.pc = "stopped" \/ ended)
=============================================================================
