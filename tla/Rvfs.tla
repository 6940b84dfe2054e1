-------------------------------- MODULE Rvfs --------------------------------
(***************************************************************************)
(* Remote virtio-fs: dpfs_rvfs/dpu.cpp forwards the requests of its HAL    *)
(* over eRPC, dpfs_hal/src/rvfs.cpp is the HAL of the remote file system.  *)
(*                                                                         *)
(* On the DPU the handler fills an rpc_msg, enqueues it and only then      *)
(* stores the completion context in it; response_func, called from the     *)
(* eRPC event loop, completes what the message says and puts the message   *)
(* up for reuse.  With two_threads the event loop has a thread of its own, *)
(* and with mock devices in its configuration the HAL has a second thread  *)
(* that calls the handler.  The messages up for reuse are in a queue for   *)
(* one producer and one consumer: pop loads the read index and later       *)
(* stores it.                                                              *)
(* On the remote side messages are reused from a std::vector, whose length *)
(* an operation loads and later stores; a file system that completes from  *)
(* threads of its own pushes to it while others push and the event loop    *)
(* pops.  A completion reads the length of the response from the first     *)
(* output iovec of its message, also for a FORGET, which has none: in a    *)
(* new message that is a NULL pointer, and the process dies.               *)
(*                                                                         *)
(* eRPC delivers every request and every response once, in any order.      *)
(***************************************************************************)
EXTENDS Naturals, Sequences, FiniteSets, SequencesExt

CONSTANTS Requests, None,
          Forgets,                \* requests without output iovecs
          QueueDepth,             \* requests the device has in flight at once
          MaxMsgs                 \* bound: messages each side allocates

ASSUME RvfsAssumption == /\ None \notin Requests /\ MaxMsgs \in Nat
                         /\ Forgets \subseteq Requests

VARIABLES twoThreads,             \* the option two_threads of the DPU
          mock,                   \* its HAL has mock devices, and a thread for them
          remoteAsync,            \* the remote file system returns EWOULDBLOCK
          handler, completions,   \* of HalContract, on the DPU
          hal,                    \* fuse_handler, on the threads of the HAL
          avail, rd,              \* what was pushed to rpc_state.avail, its read index
          nmsg, context,          \* messages, their completion_context
          loop,                   \* response_func
          wire, replies,          \* RPCs on their way
          data,                   \* whose response was copied to a request's out_iov
          vec, len, nrmsg, reqh,  \* hal->avail: its array and length; messages, their reqh
          rloop,                  \* req_handler
          work,                   \* messages the remote file system still works on
          filled,                 \* messages that have had output iovecs
          dead,                   \* the remote process
          early, doubled, torn    \* for the properties: the three races

dpuVars == <<handler, completions, hal, avail, rd, nmsg, context, loop, data>>
remoteVars == <<vec, len, nrmsg, reqh, rloop, work, filled, dead, torn>>
races == <<early, doubled>>
modes == <<twoThreads, mock, remoteAsync>>
rvfsVars == <<modes, dpuVars, wire, replies, remoteVars, races>>

Msgs == 1..MaxMsgs
HalThreads == {"poller", "mock"}
AtRest == [pc |-> "idle", req |-> None, msg |-> None]
HalAtRest == [pc |-> "idle", req |-> None, msg |-> None, at |-> 0]

Init == /\ twoThreads \in BOOLEAN /\ mock \in BOOLEAN /\ remoteAsync \in BOOLEAN
        /\ handler = [r \in Requests |-> "queued"]
        /\ completions = [r \in Requests |-> 0]
        /\ hal = [h \in HalThreads |-> HalAtRest] /\ loop = AtRest /\ rloop = AtRest
        /\ avail = <<>> /\ rd = 0 /\ nmsg = 0 /\ context = [m \in Msgs |-> None]
        /\ wire = {} /\ replies = {}
        /\ data = [r \in Requests |-> None]
        /\ vec = [i \in Msgs |-> None] /\ len = 0 /\ nrmsg = 0 /\ reqh = [m \in Msgs |-> None]
        /\ work = {} /\ filled = {} /\ dead = FALSE
        /\ early = FALSE /\ doubled = FALSE /\ torn = FALSE

-----------------------------------------------------------------------------
(* The DPU: fuse_handler on a thread of the HAL. *)

InFlight == {r \in Requests : handler[r] # "queued" /\ completions[r] = 0}

(* The messages up for reuse. *)
Available == {avail[i] : i \in (rd + 1)..Len(avail)}

(* The thread that polls also runs the event loop, unless two_threads. *)
MayHandle(h) == IF h = "mock" THEN mock ELSE twoThreads \/ loop.pc = "idle"

(* avail.pop loads the read index and takes the message there, or a new rpc_msg ... *)
Deliver(h, r) ==
  /\ handler[r] = "queued" /\ Cardinality(InFlight) < QueueDepth
  /\ hal[h].pc = "idle" /\ MayHandle(h)
  /\ handler' = [handler EXCEPT ![r] = "running"]
  /\ \/ /\ rd < Len(avail)
        /\ hal' = [hal EXCEPT ![h] = [pc |-> "pop", req |-> r, msg |-> avail[rd + 1], at |-> rd]]
        /\ UNCHANGED nmsg
     \/ /\ rd = Len(avail) /\ nmsg < MaxMsgs
        /\ nmsg' = nmsg + 1
        /\ hal' = [hal EXCEPT ![h] = [pc |-> "enqueue", req |-> r, msg |-> nmsg + 1, at |-> rd]]
  /\ UNCHANGED <<modes, completions, avail, rd, context, loop, data, wire, replies, remoteVars,
                 races>>

(* Another thread has loaded the same index. *)
Doubles(h) == \/ rd # hal[h].at
              \/ \E g \in HalThreads \ {h} : hal[g].pc = "pop"

(* Mutant: the message is not taken from the queue. *)
PopPeeks(h) ==
  /\ hal[h].pc = "pop"
  /\ rd' = hal[h].at
  /\ doubled' = (doubled \/ Doubles(h))
  /\ hal' = [hal EXCEPT ![h].pc = "enqueue"]
  /\ UNCHANGED <<modes, handler, completions, avail, nmsg, context, loop, data, wire, replies,
                 remoteVars, early>>

(* ... and pop stores the next index. *)
PopMsg(h) ==
  /\ hal[h].pc = "pop"
  /\ rd' = hal[h].at + 1
  /\ doubled' = (doubled \/ Doubles(h))
  /\ hal' = [hal EXCEPT ![h].pc = "enqueue"]
  /\ UNCHANGED <<modes, handler, completions, avail, nmsg, context, loop, data, wire, replies,
                 remoteVars, early>>

EnqueueRequest(h) ==
  /\ hal[h].pc = "enqueue"
  /\ wire' = wire \cup {[msg |-> hal[h].msg, req |-> hal[h].req]}
  /\ hal' = [hal EXCEPT ![h].pc = "context"]
  /\ UNCHANGED <<modes, handler, completions, avail, rd, nmsg, context, loop, data, replies,
                 remoteVars, races>>

(* completion_context and out_iov are stored after the request was enqueued; EWOULDBLOCK. *)
StoreContext(h) ==
  /\ hal[h].pc = "context"
  /\ context' = [context EXCEPT ![hal[h].msg] = hal[h].req]
  /\ handler' = [handler EXCEPT ![hal[h].req] = "deferred"]
  /\ hal' = [hal EXCEPT ![h] = HalAtRest]
  /\ UNCHANGED <<modes, completions, avail, rd, nmsg, loop, data, wire, replies, remoteVars, races>>

(* response_func: copy the response to the out_iov of the message, complete ... *)
ResponseFunc(e) ==
  /\ loop.pc = "idle" /\ (twoThreads \/ hal["poller"].pc = "idle")
  /\ context[e.msg] # None
  /\ replies' = replies \ {e}
  /\ data' = [data EXCEPT ![context[e.msg]] = e.req]
  /\ completions' = [completions EXCEPT ![context[e.msg]] = @ + 1]
  /\ loop' = [pc |-> "push", req |-> None, msg |-> e.msg]
  /\ early' = (early \/ \E h \in HalThreads : hal[h].pc = "context" /\ hal[h].msg = e.msg)
  /\ UNCHANGED <<modes, handler, hal, avail, rd, nmsg, context, wire, remoteVars, doubled>>

(* ... a new message has no context yet: completing it ends the process. *)
ResponseNull(e) ==
  /\ loop.pc = "idle" /\ (twoThreads \/ hal["poller"].pc = "idle")
  /\ context[e.msg] = None
  /\ replies' = replies \ {e}
  /\ hal' = [h \in HalThreads |-> [HalAtRest EXCEPT !.pc = "ended"]]
  /\ loop' = [AtRest EXCEPT !.pc = "ended"]
  /\ early' = TRUE
  /\ UNCHANGED <<modes, handler, completions, avail, rd, nmsg, context, data, wire, remoteVars,
                 doubled>>

(* ... and avail.push. *)
PushMsg ==
  /\ loop.pc = "push"
  /\ avail' = Append(avail, loop.msg)
  /\ loop' = AtRest
  /\ UNCHANGED <<modes, handler, completions, hal, rd, nmsg, context, data, wire, replies,
                 remoteVars, races>>

-----------------------------------------------------------------------------
(* The remote side: req_handler in the event loop. *)

(* avail.empty() and avail.back(), or a new rpc_msg ... *)
RemoteTake(e) ==
  /\ rloop.pc = "idle"
  /\ wire' = wire \ {e}
  /\ IF len > 0
       THEN rloop' = [pc |-> "pop", req |-> e, msg |-> vec[len], len |-> len] /\ UNCHANGED nrmsg
       ELSE /\ nrmsg < MaxMsgs
            /\ nrmsg' = nrmsg + 1
            /\ rloop' = [pc |-> "handle", req |-> e, msg |-> nrmsg + 1, len |-> 0]
  /\ UNCHANGED <<modes, dpuVars, replies, vec, len, reqh, work, filled, dead, torn, races>>

(* ... and pop_back(). *)
RemotePop ==
  /\ rloop.pc = "pop"
  /\ len' = rloop.len - 1
  /\ torn' = (torn \/ len # rloop.len \/ vec[len] # rloop.msg)
  /\ rloop' = [rloop EXCEPT !.pc = "handle"]
  /\ UNCHANGED <<modes, dpuVars, wire, replies, vec, nrmsg, reqh, work, filled, dead, races>>

(* The output iovecs of a request go to the message; those of an earlier one stay in it. *)
Fill(m, e) == filled' = IF e.req \in Forgets THEN filled ELSE filled \cup {m}

(* There is memory, of this request or of an earlier one, where the header is read. *)
HasHeader(m, e) == e.req \in Forgets => m \in filled

(* Mutant: only what returned 0 is answered. *)
RemoteHandleSilent ==
  /\ rloop.pc = "handle"
  /\ reqh' = [reqh EXCEPT ![rloop.msg] = rloop.req] /\ Fill(rloop.msg, rloop.req)
  /\ rloop' = AtRest
  /\ IF remoteAsync
       THEN /\ work' = work \cup {[msg |-> rloop.msg, pc |-> "respond", len |-> 0]}
            /\ UNCHANGED <<replies, vec, len>>
       ELSE /\ HasHeader(rloop.msg, rloop.req)
            /\ UNCHANGED replies
            /\ vec' = [vec EXCEPT ![len + 1] = rloop.msg] /\ len' = len + 1
            /\ UNCHANGED work
  /\ UNCHANGED <<modes, dpuVars, wire, nrmsg, dead, torn, races>>

(* Mutant: the message is up for reuse when its request is deferred. *)
RemoteHandlePushes ==
  /\ rloop.pc = "handle"
  /\ reqh' = [reqh EXCEPT ![rloop.msg] = rloop.req] /\ Fill(rloop.msg, rloop.req)
  /\ rloop' = AtRest
  /\ IF remoteAsync
       THEN /\ work' = work \cup {[msg |-> rloop.msg, pc |-> "respond", len |-> 0]}
            /\ vec' = [vec EXCEPT ![len + 1] = rloop.msg] /\ len' = len + 1
            /\ UNCHANGED replies
       ELSE /\ HasHeader(rloop.msg, rloop.req)
            /\ replies' = replies \cup {rloop.req}
            /\ vec' = [vec EXCEPT ![len + 1] = rloop.msg] /\ len' = len + 1
            /\ UNCHANGED work
  /\ UNCHANGED <<modes, dpuVars, wire, nrmsg, dead, torn, races>>

(* The request handler of the file system; a result other than EWOULDBLOCK completes.  Where *)
(* the file system also completes elsewhere, the steps of that completion are those of work.  *)
RemoteHandle ==
  /\ rloop.pc = "handle"
  /\ reqh' = [reqh EXCEPT ![rloop.msg] = rloop.req] /\ Fill(rloop.msg, rloop.req)
  /\ rloop' = AtRest
  /\ IF remoteAsync
       THEN /\ work' = work \cup {[msg |-> rloop.msg, pc |-> "respond", len |-> 0]}
            /\ UNCHANGED <<replies, vec, len>>
       ELSE /\ HasHeader(rloop.msg, rloop.req)
            /\ replies' = replies \cup {rloop.req}
            /\ vec' = [vec EXCEPT ![len + 1] = rloop.msg] /\ len' = len + 1
            /\ UNCHANGED work
  /\ UNCHANGED <<modes, dpuVars, wire, nrmsg, dead, torn, races>>

(* The header of a FORGET is read through NULL or a pointer to what an earlier request left: the *)
(* process may die, and must if the message is new.                                              *)
Dies(e) ==
  /\ e.req \in Forgets
  /\ dead' = TRUE
  /\ UNCHANGED <<modes, dpuVars, wire, replies, vec, len, nrmsg, reqh, rloop, work, filled, torn,
                 races>>

RemoteHandleDies == rloop.pc = "handle" /\ ~remoteAsync /\ Dies(rloop.req)

RemoteRespondDies(w) == w.pc = "respond" /\ Dies(reqh[w.msg])

(* dpfs_hal_async_complete on a thread of the file system: enqueue_response ... *)
RemoteRespond(w) ==
  /\ w.pc = "respond" /\ HasHeader(w.msg, reqh[w.msg])
  /\ replies' = replies \cup {reqh[w.msg]}
  /\ work' = (work \ {w}) \cup {[w EXCEPT !.pc = "push"]}
  /\ UNCHANGED <<modes, dpuVars, wire, vec, len, nrmsg, reqh, rloop, filled, dead, torn, races>>

(* ... and avail.push_back: load the length ... *)
RemotePush(w) ==
  /\ w.pc = "push" /\ len < MaxMsgs
  /\ work' = (work \ {w}) \cup {[w EXCEPT !.pc = "grow", !.len = len]}
  /\ UNCHANGED <<modes, dpuVars, wire, replies, vec, len, nrmsg, reqh, rloop, filled, dead, torn,
                 races>>

(* ... and store the message and the new length. *)
RemoteGrow(w) ==
  /\ w.pc = "grow"
  /\ vec' = [vec EXCEPT ![w.len + 1] = w.msg]
  /\ len' = w.len + 1
  /\ torn' = (torn \/ len # w.len \/ \E v \in work \ {w} : v.pc = "grow")
  /\ work' = work \ {w}
  /\ UNCHANGED <<modes, dpuVars, wire, replies, nrmsg, reqh, rloop, filled, dead, races>>

-----------------------------------------------------------------------------
HalStep(h) == PopMsg(h) \/ EnqueueRequest(h) \/ StoreContext(h)
LoopStep == (\E e \in replies : ResponseFunc(e) \/ ResponseNull(e)) \/ PushMsg
RemoteStep == /\ ~dead
              /\ \/ \E e \in wire : RemoteTake(e)
                 \/ RemotePop \/ RemoteHandle \/ RemoteHandleDies
WorkStep(w) == /\ ~dead
               /\ RemoteRespond(w) \/ RemoteRespondDies(w) \/ RemotePush(w) \/ RemoteGrow(w)

Next == \/ \E h \in HalThreads : HalStep(h) \/ \E r \in Requests : Deliver(h, r)
        \/ LoopStep \/ RemoteStep
        \/ \E w \in work : WorkStep(w)

Spec == Init /\ [][Next]_rvfsVars
(* The threads run, eRPC delivers, and the remote file system completes. *)
FairSpec == /\ Spec
            /\ \A h \in HalThreads : WF_rvfsVars(HalStep(h))
            /\ WF_rvfsVars(LoopStep) /\ WF_rvfsVars(RemoteStep)
            /\ \A m \in Msgs : WF_rvfsVars(\E w \in work : w.msg = m /\ WorkStep(w))

-----------------------------------------------------------------------------
(* No race was lost that the configuration allows: on the DPU a response overtook the store of     *)
(* its context (needs two_threads or mock devices), or both threads of the HAL popped the same    *)
(* message (needs mock devices); on the remote side two operations on the vector overlapped       *)
(* (needs a file system that completes from its own threads).                                     *)
NoRace == /\ twoThreads \/ mock => ~early
          /\ mock => ~doubled
          /\ remoteAsync => ~torn

(* A request gets its own response, and once, although messages and contexts are reused: always   *)
(* with one thread on each side, and otherwise unless one of the races of dpu.cpp and rvfs.cpp    *)
(* was lost.                                                                                      *)
OwnResponseOnce ==
  NoRace => \A r \in Requests : /\ completions[r] <= 1
                                 /\ completions[r] = 1 => data[r] = r

(* A message carries one request at a time on each side, and is never both in use and up for      *)
(* reuse, unless one of the races was lost.                                                       *)
MsgsExclusive ==
  NoRace => /\ \A d, e \in wire \cup replies : d.msg = e.msg => d = e
            /\ \A e \in wire \cup replies : e.msg \notin Available
            /\ \A i, j \in (rd + 1)..Len(avail) : avail[i] = avail[j] => i = j
            /\ \A w \in work : \A i \in 1..len : vec[i] # w.msg
            /\ \A i, j \in 1..len : vec[i] = vec[j] => i = j

(* Every request that was forwarded is completed, unless one of the races was lost, or the remote *)
(* process died of a FORGET (dpfs_hal_async_complete).                                            *)
ForwardedAreCompleted == \A r \in Requests :
  handler[r] = "deferred" ~> (completions[r] > 0 \/ ~NoRace \/ dead)
=============================================================================
