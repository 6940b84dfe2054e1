-------------------------------- MODULE Vnfs --------------------------------
(***************************************************************************)
(* dpfs_nfs once its connections are up: the FUSE handlers of              *)
(* dpfs_nfs/dpfs_nfs.c, which run on a Virtio poller thread of the HAL,    *)
(* and their callbacks, which run on the libnfs service thread of the      *)
(* connection.  Poller thread t owns connection t, its NFS 4.1 session     *)
(* with NSlots slots and the cb_data pool p[t]; the inode table is shared  *)
(* by all threads.                                                         *)
(*                                                                         *)
(* One step is what a thread does between two accesses to state that       *)
(* another thread writes.  libnfs, the NFS server and the host are         *)
(* modelled from how this code uses them.  Attribute, name and data        *)
(* contents, reply lengths and the nlookup counter, which nothing reads,   *)
(* are left out, and so are create and setattr, which                      *)
(* dpfs_nfs_assign_ops does not install.                                   *)
(***************************************************************************)
EXTENDS Naturals, FiniteSets

CONSTANTS Threads,         \* HAL polling threads, one NFS connection each
          Requests,        \* FUSE requests of the host (bounds a behaviour)
          Chunks,          \* cb_data chunks in the pool of one thread
          NSlots,          \* ca_maxrequests of a session
          Files,           \* nodeids (NFS fileids)
          Root,            \* FUSE_ROOT_ID
          Ops,             \* the operations the host uses
          None

AllOps == {"lookup", "getattr", "statfs", "open", "release",
           "read", "write", "fsync"}

ASSUME VnfsAssumption == /\ NSlots \in Nat \ {0}
                         /\ IsFiniteSet(Threads)
                         /\ Root \in Files
                         /\ Ops \subseteq AllOps
                         /\ None \notin Requests \cup Chunks \cup Files

Slots == 0 .. NSlots - 1

VARIABLES
  handler, completions,    \* the HAL's view of a request (HalContract)
  vq,                      \* poller threads: the running handler
  pool,                    \* cb_data chunks that are in vnfs->p[t]
  torn,                    \* threads in whose pool two frees overlapped (history)
  cbdata,                  \* contents of the chunks
  in_use, seqid,           \* struct vnfs_slot, per session
  wire,                    \* compounds libnfs holds, with their reply
  nfs,                     \* service threads: the running callback
  fh,                      \* inode.fh of the inodes in the table
  nopen, fh_open, open_stateid,
  srvSeq, srvOpens,        \* the server: executed seqid, live open stateids
  lost,                    \* slots a compound was lost on (history)
  known, handles           \* the host: nodeids it knows, its open handles

halVars    == <<handler, completions>>
slotVars   == <<in_use, seqid>>
openVars   == <<nopen, fh_open, open_stateid>>
inodeVars  == <<fh, openVars>>
serverVars == <<srvSeq, srvOpens, lost>>
hostVars   == <<known, handles>>
poolVars   == <<pool, torn>>
vars == <<halVars, vq, poolVars, cbdata, slotVars, wire, nfs, inodeVars,
          serverVars, hostVars>>

-----------------------------------------------------------------------------
(* Types *)

PollerPcs   == {"idle", "entry", "count", "alloc", "scan", "claim", "send",
                "free", "return"}
CallbackPcs == {"idle", "slot", "effect", "clone", "bytes", "openfh",
                "openst", "free", "freeing", "complete"}
PduStates   == {"sent", "ok", "nfserr", "rpcerr"}

(* A handler's stack: its request, its chunk, the index of the slot scan   *)
(* (then its slot) and the sequence id it got.                             *)
Poller == [pc : PollerPcs, r : Requests \cup {None},
           op : AllOps \cup {None}, file : Files \cup {None},
           cb : Chunks \cup {None}, pos : 0 .. NSlots, seq : Nat]
IdlePoller == [pc |-> "idle", r |-> None, op |-> None, file |-> None,
               cb |-> None, pos |-> 0, seq |-> 0]

(* A compound: the callback's private_data, SEQUENCE and what follows.     *)
(* obj is the file a LOOKUP reply names.                                   *)
Pdu == [st : PduStates, t : Threads, cb : Chunks, slot : Slots, seq : Nat,
        high : 0 .. NSlots, op : AllOps, file : Files, fh_open : BOOLEAN,
        stateid : Requests \cup {None}, obj : Files \cup {None}]

ASSUME NoPduAssumption == None \notin Pdu

(* A callback's stack.  new is the stateid of an OPEN reply.               *)
Callback == [pc : CallbackPcs, cb : Chunks \cup {None},
             op : AllOps \cup {None}, st : PduStates \cup {None},
             obj : Files \cup {None}, new : Requests \cup {None},
             ctx : Requests \cup {None}, file : Files \cup {None},
             ok : BOOLEAN]
IdleCallback == [pc |-> "idle", cb |-> None, op |-> None, st |-> None,
                 obj |-> None, new |-> None, ctx |-> None, file |-> None,
                 ok |-> FALSE]

CbData == [ctx : Requests \cup {None}, slotid : Slots \cup {None},
           i : Files \cup {None}]

TypeOK ==
  /\ handler \in [Requests -> {"queued", "running", "handled", "deferred"}]
  /\ completions \in [Requests -> Nat]
  /\ vq \in [Threads -> Poller]
  /\ pool \in [Threads -> SUBSET Chunks]
  /\ torn \in SUBSET Threads
  /\ cbdata \in [Threads -> [Chunks -> CbData]]
  /\ in_use \in [Threads -> [Slots -> BOOLEAN]]
  /\ seqid \in [Threads -> [Slots -> Nat]]
  /\ wire \in [Requests -> Pdu \cup {None}]
  /\ nfs \in [Threads -> Callback]
  /\ fh \in [Files -> {"absent", "none", "len", "set"}]
  /\ nopen \in [Files -> Nat]
  /\ fh_open \in [Files -> BOOLEAN]
  /\ open_stateid \in [Files -> Requests \cup {None}]
  /\ srvSeq \in [Threads -> [Slots -> Nat]]
  /\ srvOpens \in [Files -> SUBSET Requests]
  /\ lost \in [Threads -> SUBSET Slots]
  /\ known \in SUBSET Files
  /\ handles \in [Files -> Nat]

-----------------------------------------------------------------------------
(* Nothing requested yet, with the given file handles in the inode table. *)
InitWith(handle) ==
  /\ handler = [r \in Requests |-> "queued"]
  /\ completions = [r \in Requests |-> 0]
  /\ vq = [t \in Threads |-> IdlePoller]
  /\ pool = [t \in Threads |-> Chunks]
  /\ torn = {}
  /\ cbdata = [t \in Threads |->
                 [c \in Chunks |-> [ctx |-> None, slotid |-> None, i |-> None]]]
  /\ in_use = [t \in Threads |-> [s \in Slots |-> FALSE]]
  /\ seqid = [t \in Threads |-> [s \in Slots |-> 0]]
  /\ wire = [r \in Requests |-> None]
  /\ nfs = [t \in Threads |-> IdleCallback]
  /\ fh = handle
  /\ nopen = [f \in Files |-> 0]
  /\ fh_open = [f \in Files |-> FALSE]
  /\ open_stateid = [f \in Files |-> None]
  /\ srvSeq = [t \in Threads |-> [s \in Slots |-> 0]]
  /\ srvOpens = [f \in Files |-> {}]
  /\ lost = [t \in Threads |-> {}]
  /\ known = {Root}
  /\ handles = [f \in Files |-> 0]

(* After vnfs_conn_up of every connection: sessions are negotiated and the *)
(* root inode has its file handle.                                         *)
Init == InitWith([f \in Files |-> IF f = Root THEN "set" ELSE "absent"])

-----------------------------------------------------------------------------
(* The poller thread *)

InTable(f) == fh[f] # "absent"                       \* inode_table_get # NULL

Goto(t, pc) == vq' = [vq EXCEPT ![t].pc = pc]

(* The handler fills in out_hdr and returns 0. *)
ReturnHandled(t) ==
  /\ handler' = [handler EXCEPT ![vq[t].r] = "handled"]
  /\ vq' = [vq EXCEPT ![t] = IdlePoller]
  /\ UNCHANGED completions

(* What the host may ask for: reads, writes and releases come with one of  *)
(* its open handles, and a release gives the handle up; the root is a      *)
(* directory, which is not opened.  Any nodeid may come with the others: a *)
(* host can outlive the DPFS process that told it the nodeid.              *)
Deliver(t, r, op, f) ==
  /\ vq[t].pc = "idle" /\ handler[r] = "queued"
  /\ op \in Ops
  /\ op = "statfs" => f = Root
  /\ op = "open" => f # Root
  /\ op \in {"read", "write", "release"} => handles[f] > 0
  /\ handler' = [handler EXCEPT ![r] = "running"]
  /\ vq' = [vq EXCEPT ![t] = [pc |-> "entry", r |-> r, op |-> op, file |-> f,
                               cb |-> None, pos |-> 0, seq |-> 0]]
  /\ handles' = IF op = "release" THEN [handles EXCEPT ![f] = @ - 1]
                ELSE handles
  /\ UNCHANGED <<completions, poolVars, cbdata, slotVars, wire, nfs, inodeVars,
                 serverVars, known>>

(* What mpool_alloc may return.  Once two mpool_free overlapped, the       *)
(* positions and the entries of the ring are off: chunks are missing, or   *)
(* the ring holds chunks that are handed out.                              *)
Allocable(t) == IF t \in torn THEN Chunks ELSE pool[t]

(* Mutant: the result of mpool_alloc is not checked. *)
AllocCbDataUnchecked(t) ==
  /\ \E c \in IF pool[t] = {} THEN {None} ELSE Allocable(t) :
       /\ pool' = [pool EXCEPT ![t] = @ \ {c}]
       /\ cbdata' = IF c = None THEN cbdata
                    ELSE [cbdata EXCEPT ![t][c] = [@ EXCEPT
                            !.ctx = vq[t].r, !.i = vq[t].file]]
       /\ vq' = [vq EXCEPT ![t] = [@ EXCEPT !.pc = "scan", !.cb = c,
                                                 !.pos = 0]]
  /\ UNCHANGED <<halVars, torn, slotVars, wire, nfs, inodeVars, serverVars,
                 hostVars>>

(* mpool_alloc of the cb_data; an empty pool is answered with ENOMEM.  The *)
(* slotid of the chunk's last use stays until ClaimSlot.                   *)
AllocCbData(t) ==
  /\ \/ /\ pool[t] = {} \/ t \in torn
        /\ ReturnHandled(t)
        /\ UNCHANGED <<pool, cbdata>>
     \/ \E c \in Allocable(t) :
          /\ pool' = [pool EXCEPT ![t] = @ \ {c}]
          /\ cbdata' = [cbdata EXCEPT ![t][c] =
                          [@ EXCEPT !.ctx = vq[t].r, !.i = vq[t].file]]
          /\ vq' = [vq EXCEPT ![t] = [@ EXCEPT !.pc = "scan", !.cb = c,
                                                 !.pos = 0]]
          /\ UNCHANGED halVars
  /\ UNCHANGED <<torn, slotVars, wire, nfs, inodeVars, serverVars, hostVars>>

Running(t, op) == vq[t].pc = "entry" /\ vq[t].op = op

lookup(t)  == Running(t, "lookup")  /\ AllocCbData(t)
getattr(t) == Running(t, "getattr") /\ AllocCbData(t)
statfs(t)  == Running(t, "statfs")  /\ AllocCbData(t)
vread(t)   == Running(t, "read")    /\ AllocCbData(t)
vwrite(t)  == Running(t, "write")   /\ AllocCbData(t)
vfsync(t)  == Running(t, "fsync")   /\ AllocCbData(t)

(* vopen counts an already opened file here, and then goes on to send the  *)
(* OPEN all the same.                                                      *)
vopen(t) ==
  /\ Running(t, "open")
  /\ \/ /\ ~InTable(vq[t].file)
        /\ ReturnHandled(t)
     \/ /\ InTable(vq[t].file)
        /\ Goto(t, IF nopen[vq[t].file] > 0 THEN "count" ELSE "alloc")
        /\ UNCHANGED halVars
  /\ UNCHANGED <<poolVars, cbdata, slotVars, wire, nfs, inodeVars, serverVars,
                 hostVars>>

vopen_count(t) ==
  /\ vq[t].pc = "count"
  /\ nopen' = [nopen EXCEPT ![vq[t].file] = @ + 1]
  /\ Goto(t, "alloc")
  /\ UNCHANGED <<halVars, poolVars, cbdata, slotVars, wire, nfs, fh, fh_open,
                 open_stateid, serverVars, hostVars>>

(* atomic_fetch_sub of nopen; only the last release goes on to CLOSE. *)
release(t) ==
  /\ Running(t, "release")
  /\ nopen' = [nopen EXCEPT ![vq[t].file] = @ - 1]
  /\ \/ /\ nopen[vq[t].file] > 1
        /\ ReturnHandled(t)
     \/ /\ nopen[vq[t].file] <= 1
        /\ Goto(t, "alloc")
        /\ UNCHANGED halVars
  /\ UNCHANGED <<poolVars, cbdata, slotVars, wire, nfs, fh, fh_open,
                 open_stateid, serverVars, hostVars>>

AllocOpenRelease(t) == vq[t].pc = "alloc" /\ AllocCbData(t)

(* vnfs4_op_sequence looks for a free slot, one slot at a time, and starts *)
(* over after usleep when it found none.                                   *)
ScanSlot(t) ==
  /\ vq[t].pc = "scan"
  /\ vq' = IF vq[t].pos = NSlots THEN [vq EXCEPT ![t].pos = 0]
           ELSE IF in_use[t][vq[t].pos] THEN [vq EXCEPT ![t].pos = @ + 1]
           ELSE [vq EXCEPT ![t].pc = "claim"]
  /\ UNCHANGED <<halVars, poolVars, cbdata, slotVars, wire, nfs, inodeVars,
                 serverVars, hostVars>>

(* Mutant: the slot found free is not marked. *)
ClaimSlotUnmarked(t) ==
  /\ vq[t].pc = "claim"
  /\ cbdata' = [cbdata EXCEPT ![t][vq[t].cb].slotid = vq[t].pos]
  /\ vq' = [vq EXCEPT ![t] = [@ EXCEPT !.pc = "send",
                                       !.seq = seqid[t][vq[t].pos] + 1]]
  /\ UNCHANGED <<halVars, poolVars, slotVars, wire, nfs, inodeVars, serverVars,
                 hostVars>>

(* in_use is set and the seqid read; SendCompound stores it incremented.   *)
ClaimSlot(t) ==
  /\ vq[t].pc = "claim"
  /\ in_use' = [in_use EXCEPT ![t][vq[t].pos] = TRUE]
  /\ cbdata' = [cbdata EXCEPT ![t][vq[t].cb].slotid = vq[t].pos]
  /\ vq' = [vq EXCEPT ![t] = [@ EXCEPT !.pc = "send",
                                       !.seq = seqid[t][vq[t].pos] + 1]]
  /\ UNCHANGED <<halVars, poolVars, seqid, wire, nfs, inodeVars, serverVars,
                 hostVars>>

(* The loop that is meant to find the highest slot in use runs downwards   *)
(* and does not stop, so it leaves the lowest one in sa_highest_slotid,    *)
(* and whatever was there when it sees no slot in use.  It starts at       *)
(* slots[nslots], past the array, which matters only when no slot is in    *)
(* use: what lies there may then be taken for a slot in use.               *)
SlotsInUse(t) == {s \in Slots : in_use[t][s]}
HighestSlots(t) == IF SlotsInUse(t) = {} THEN 0 .. NSlots
                   ELSE {s \in SlotsInUse(t) : \A u \in SlotsInUse(t) : s <= u}

(* The file handle a handler puts in PUTFH; lookup, getattr, fsync, read   *)
(* and write check their nodeid only here, vopen and release did earlier,  *)
(* statfs takes the root.                                                  *)
PutfhOk(t) == \/ vq[t].op \in {"open", "release", "statfs"}
              \/ InTable(vq[t].file)

Compound(t, high) ==
  LET v == vq[t] IN
  [st |-> "sent", t |-> t, cb |-> v.cb, slot |-> v.pos,
   seq |-> v.seq, high |-> high, op |-> v.op,
   file |-> v.file, fh_open |-> fh_open[v.file],
   stateid |-> IF v.op \in {"read", "write", "release"}
               THEN open_stateid[v.file] ELSE None,
   obj |-> None]

(* Mutant: the error path gives the slot back, but not its sequence id. *)
SendCompoundFreesSlot(t) ==
  /\ vq[t].pc = "send"
  /\ \/ /\ PutfhOk(t)
        /\ \E high \in HighestSlots(t) :
             wire' = [wire EXCEPT ![vq[t].r] = Compound(t, high)]
        /\ Goto(t, "return")
        /\ UNCHANGED in_use
     \/ /\ in_use' = [in_use EXCEPT ![t][vq[t].pos] = FALSE]
        /\ Goto(t, "free")
        /\ UNCHANGED wire
  /\ seqid' = [seqid EXCEPT ![t][vq[t].pos] = vq[t].seq]
  /\ UNCHANGED <<halVars, poolVars, cbdata, nfs, inodeVars, serverVars,
                 hostVars>>

(* Mutant: the handler frees the cb_data once the compound is queued. *)
SendCompoundFreesCbData(t) ==
  /\ vq[t].pc = "send"
  /\ vq[t].op = "statfs" => InTable(Root)
  /\ PutfhOk(t)
  /\ \E high \in HighestSlots(t) :
       wire' = [wire EXCEPT ![vq[t].r] = Compound(t, high)]
  /\ Goto(t, "return")
  /\ pool' = [pool EXCEPT ![t] = @ \cup {vq[t].cb}]
  /\ seqid' = [seqid EXCEPT ![t][vq[t].pos] = vq[t].seq]
  /\ UNCHANGED <<halVars, torn, cbdata, in_use, nfs, inodeVars, serverVars,
                 hostVars>>

(* PUTFH and rpc_nfs4_compound_async.  An unknown nodeid and a failure of  *)
(* libnfs to queue the compound lead to mpool_free of the cb_data; the     *)
(* slot stays in use and its seqid incremented.                            *)
SendCompound(t) ==
  /\ vq[t].pc = "send"
  /\ vq[t].op = "statfs" => InTable(Root)       \* dereferenced unchecked
  /\ \/ /\ PutfhOk(t)
        /\ \E high \in HighestSlots(t) :
             wire' = [wire EXCEPT ![vq[t].r] = Compound(t, high)]
        /\ Goto(t, "return")
     \/ Goto(t, "free") /\ UNCHANGED wire
  /\ seqid' = [seqid EXCEPT ![t][vq[t].pos] = vq[t].seq]
  /\ UNCHANGED <<halVars, poolVars, cbdata, in_use, nfs, inodeVars,
                 serverVars, hostVars>>

(* mpool_free is an SPSC enqueue: it reads p_tail, which the steps to      *)
(* "free" of a poller and to "freeing" of a service thread end with, then  *)
(* stores the chunk at it and publishes p_tail + 1.  When both threads of  *)
(* a connection have read the same p_tail they write the same entry, and   *)
(* one of the chunks is lost; a slow one may also set p_tail back.         *)
Publish(t, c, overlap) ==
  /\ pool' = [pool EXCEPT ![t] = @ \cup {c}]
  /\ torn' = IF overlap THEN torn \cup {t} ELSE torn

(* The end of mpool_free on the poller; then the handler returns 0 with an *)
(* error.                                                                  *)
FreeUnsent(t) ==
  /\ vq[t].pc = "free"
  /\ Publish(t, vq[t].cb, nfs[t].pc = "freeing")
  /\ ReturnHandled(t)
  /\ UNCHANGED <<cbdata, slotVars, wire, nfs, inodeVars, serverVars, hostVars>>

(* return EWOULDBLOCK *)
ReturnDeferred(t) ==
  /\ vq[t].pc = "return"
  /\ handler' = [handler EXCEPT ![vq[t].r] = "deferred"]
  /\ vq' = [vq EXCEPT ![t] = IdlePoller]
  /\ UNCHANGED <<completions, poolVars, cbdata, slotVars, wire, nfs, inodeVars,
                 serverVars, hostVars>>

Virtio(t) == \/ \E r \in Requests, op \in Ops, f \in Files : Deliver(t, r, op, f)
             \/ lookup(t) \/ getattr(t) \/ statfs(t) \/ vread(t) \/ vwrite(t)
             \/ vfsync(t) \/ vopen(t) \/ vopen_count(t) \/ release(t)
             \/ AllocOpenRelease(t) \/ ScanSlot(t) \/ ClaimSlot(t)
             \/ SendCompound(t) \/ FreeUnsent(t) \/ ReturnDeferred(t)

-----------------------------------------------------------------------------
(* The NFS server and libnfs *)

ClientUnchanged == UNCHANGED <<halVars, vq, poolVars, cbdata, slotVars, nfs,
                             inodeVars, hostVars>>

(* The server executes a compound whose SEQUENCE is the next of its slot   *)
(* and refuses any other.  OPEN makes a stateid of its own (each OPEN      *)
(* comes with a new open owner); CLOSE, READ and WRITE need the file       *)
(* handle of an open and a live stateid, though READ and WRITE also take   *)
(* the anonymous (zero) one.                                               *)
Serve(r) ==
  /\ wire[r] # None /\ wire[r].st = "sent"
  /\ LET m == wire[r]
         inOrder == m.seq = srvSeq[m.t][m.slot] + 1
         live == m.stateid \in srvOpens[m.file]
         granted == CASE m.op = "release" -> m.fh_open /\ live
                      [] m.op \in {"read", "write"} ->
                           m.fh_open /\ (live \/ m.stateid = None)
                      [] OTHER -> TRUE
         found == IF m.op = "lookup" THEN Files \ {Root} ELSE {None}
     IN \/ /\ inOrder /\ granted
           /\ \E g \in found :
                wire' = [wire EXCEPT ![r] = [@ EXCEPT !.st = "ok", !.obj = g]]
           /\ srvSeq' = [srvSeq EXCEPT ![m.t][m.slot] = @ + 1]
           /\ srvOpens' =
                CASE m.op = "open" -> [srvOpens EXCEPT ![m.file] = @ \cup {r}]
                  [] m.op = "release" ->
                       [srvOpens EXCEPT ![m.file] = @ \ {m.stateid}]
                  [] OTHER -> srvOpens
        \/ /\ wire' = [wire EXCEPT ![r].st = "nfserr"]
           /\ srvSeq' = IF inOrder
                        THEN [srvSeq EXCEPT ![m.t][m.slot] = @ + 1]
                        ELSE srvSeq
           /\ UNCHANGED srvOpens
  /\ UNCHANGED lost
  /\ ClientUnchanged

(* libnfs gives up on a compound, before or after the server executed it. *)
RpcFail(r) ==
  /\ wire[r] # None /\ wire[r].st \in {"sent", "ok", "nfserr"}
  /\ wire' = [wire EXCEPT ![r].st = "rpcerr"]
  /\ lost' = IF wire[r].st = "sent"
             THEN [lost EXCEPT ![wire[r].t] = @ \cup {wire[r].slot}]
             ELSE lost
  /\ UNCHANGED <<srvSeq, srvOpens>>
  /\ ClientUnchanged

-----------------------------------------------------------------------------
(* The service thread *)

(* libnfs calls the callback of an answered compound, in any order. *)
CallbackStart(t) ==
  /\ nfs[t].pc = "idle"
  /\ \E r \in Requests :
       /\ wire[r] # None /\ wire[r].t = t /\ wire[r].st # "sent"
       /\ nfs' = [nfs EXCEPT ![t] =
                    [pc |-> "slot", cb |-> wire[r].cb, op |-> wire[r].op,
                     st |-> wire[r].st, obj |-> wire[r].obj,
                     new |-> IF wire[r].op = "open" THEN r ELSE None,
                     ctx |-> None, file |-> None, ok |-> FALSE]]
       /\ wire' = [wire EXCEPT ![r] = None]
  /\ UNCHANGED <<halVars, vq, poolVars, cbdata, slotVars, inodeVars, serverVars,
                 hostVars>>

(* Every callback first frees the slot, then looks at the RPC status and   *)
(* the NFS status.                                                         *)
CallbackSlot(t) ==
  /\ nfs[t].pc = "slot"
  /\ in_use' = [in_use EXCEPT ![t][cbdata[t][nfs[t].cb].slotid] = FALSE]
  /\ nfs' = [nfs EXCEPT ![t].pc = IF nfs[t].st = "ok" THEN "effect"
                                  ELSE "free"]
  /\ UNCHANGED <<halVars, vq, poolVars, cbdata, seqid, wire, inodeVars,
                 serverVars, hostVars>>

Effect(t, op) == nfs[t].pc = "effect" /\ nfs[t].op = op

Finish(t, ok) ==
  nfs' = [nfs EXCEPT ![t] = [@ EXCEPT !.pc = "free", !.ok = ok]]

SameButInode == UNCHANGED <<halVars, vq, poolVars, cbdata, slotVars, wire,
                            serverVars, hostVars>>

(* Mutant: only the lookup that inserts the inode waits for its handle. *)
lookup_cbNoWait(t) ==
  /\ Effect(t, "lookup")
  /\ IF InTable(nfs[t].obj) THEN Finish(t, TRUE) /\ UNCHANGED fh
     ELSE /\ fh' = [fh EXCEPT ![nfs[t].obj] = "none"]
          /\ nfs' = [nfs EXCEPT ![t].pc = "clone"]
  /\ UNCHANGED openVars
  /\ SameButInode

(* lookup_cb inserts the inode, or fails on the attributes or on memory;   *)
(* the file handle is copied when the inode has none yet, len before the   *)
(* bytes.                                                                  *)
lookup_cb(t) ==
  /\ Effect(t, "lookup")
  /\ \/ /\ fh' = IF InTable(nfs[t].obj) THEN fh
                 ELSE [fh EXCEPT ![nfs[t].obj] = "none"]
        /\ nfs' = [nfs EXCEPT ![t].pc = "clone"]
     \/ Finish(t, FALSE) /\ UNCHANGED fh
  /\ UNCHANGED openVars
  /\ SameButInode

CloneFh(t) ==
  /\ nfs[t].pc = "clone"
  /\ \/ /\ fh[nfs[t].obj] # "none"
        /\ Finish(t, TRUE)
        /\ UNCHANGED fh
     \/ /\ fh[nfs[t].obj] = "none"
        /\ fh' = [fh EXCEPT ![nfs[t].obj] = "len"]
        /\ nfs' = [nfs EXCEPT ![t].pc = "bytes"]
     \/ /\ fh[nfs[t].obj] = "none"
        /\ Finish(t, FALSE)                          \* longer than NFS4_FHSIZE
        /\ UNCHANGED fh
  /\ UNCHANGED openVars
  /\ SameButInode

CloneFhBytes(t) ==
  /\ nfs[t].pc = "bytes"
  /\ fh' = [fh EXCEPT ![nfs[t].obj] = "set"]
  /\ Finish(t, TRUE)
  /\ UNCHANGED openVars
  /\ SameButInode

(* getattr_cb and statfs_cb fail when the attributes do not parse. *)
AttrCb(t) == /\ \E ok \in BOOLEAN : Finish(t, ok)
             /\ UNCHANGED inodeVars
             /\ SameButInode
getattr_cb(t) == Effect(t, "getattr") /\ AttrCb(t)
statfs_cb(t)  == Effect(t, "statfs")  /\ AttrCb(t)

(* vread_cb, vwrite_cb and vfsync_cb only pass the result on. *)
DataCb(t) == Finish(t, TRUE) /\ UNCHANGED inodeVars /\ SameButInode
vread_cb(t)  == Effect(t, "read")  /\ DataCb(t)
vwrite_cb(t) == Effect(t, "write") /\ DataCb(t)
vfsync_cb(t) == Effect(t, "fsync") /\ DataCb(t)

(* Mutant: the callback leaves counting to vopen when the file is open. *)
vopen_cbCountsFirst(t) ==
  /\ Effect(t, "open")
  /\ nopen' = [nopen EXCEPT ![cbdata[t][nfs[t].cb].i] = IF @ > 0 THEN @ ELSE 1]
  /\ nfs' = [nfs EXCEPT ![t].pc = "openfh"]
  /\ UNCHANGED <<fh, fh_open, open_stateid>>
  /\ SameButInode

(* vopen_cb: nopen, then fh_open, then open_stateid.  A file handle that   *)
(* is too long, or a server that asks for OPEN_CONFIRM, is an error after  *)
(* nopen was incremented.                                                  *)
vopen_cb(t) ==
  /\ Effect(t, "open")
  /\ nopen' = [nopen EXCEPT ![cbdata[t][nfs[t].cb].i] = @ + 1]
  /\ nfs' = [nfs EXCEPT ![t].pc = "openfh"]
  /\ UNCHANGED <<fh, fh_open, open_stateid>>
  /\ SameButInode

StoreFhOpen(t) ==
  /\ nfs[t].pc = "openfh"
  /\ \/ Finish(t, FALSE) /\ UNCHANGED fh_open
     \/ /\ fh_open' = [fh_open EXCEPT ![cbdata[t][nfs[t].cb].i] = TRUE]
        /\ nfs' = [nfs EXCEPT ![t].pc = "openst"]
  /\ UNCHANGED <<fh, nopen, open_stateid>>
  /\ SameButInode

StoreStateid(t) ==
  /\ nfs[t].pc = "openst"
  /\ \/ Finish(t, FALSE) /\ UNCHANGED open_stateid
     \/ /\ open_stateid' = [open_stateid EXCEPT
                              ![cbdata[t][nfs[t].cb].i] = nfs[t].new]
        /\ Finish(t, TRUE)
  /\ UNCHANGED <<fh, nopen, fh_open>>
  /\ SameButInode

release_cb(t) ==
  /\ Effect(t, "release")
  /\ fh_open' = [fh_open EXCEPT ![cbdata[t][nfs[t].cb].i] = FALSE]
  /\ Finish(t, TRUE)
  /\ UNCHANGED <<fh, nopen, open_stateid>>
  /\ SameButInode

(* ret: completion_context is copied out of the chunk before mpool_free,   *)
(* which gives the chunk back to the poller, is called.                    *)
CallbackFree(t) ==
  /\ nfs[t].pc = "free"
  /\ nfs' = [nfs EXCEPT ![t] = [@ EXCEPT !.pc = "freeing",
                                         !.ctx = cbdata[t][nfs[t].cb].ctx,
                                         !.file = cbdata[t][nfs[t].cb].i]]
  /\ UNCHANGED <<halVars, vq, poolVars, cbdata, slotVars, wire, inodeVars,
                 serverVars, hostVars>>

(* Mutant: a callback with a failed RPC returns without completing. *)
CallbackFreedSilent(t) ==
  /\ nfs[t].pc = "freeing"
  /\ Publish(t, nfs[t].cb, vq[t].pc = "free")
  /\ nfs' = [nfs EXCEPT ![t] = IF nfs[t].st = "rpcerr" THEN IdleCallback
                               ELSE [@ EXCEPT !.pc = "complete"]]
  /\ UNCHANGED <<halVars, vq, cbdata, slotVars, wire, inodeVars, serverVars,
                 hostVars>>

(* The end of mpool_free on the service thread. *)
CallbackFreed(t) ==
  /\ nfs[t].pc = "freeing"
  /\ Publish(t, nfs[t].cb, vq[t].pc = "free")
  /\ nfs' = [nfs EXCEPT ![t].pc = "complete"]
  /\ UNCHANGED <<halVars, vq, cbdata, slotVars, wire, inodeVars, serverVars,
                 hostVars>>

(* Mutant: the completion context is read after mpool_free. *)
CallbackCompleteLate(t) ==
  /\ nfs[t].pc = "complete"
  /\ completions' = [completions EXCEPT ![cbdata[t][nfs[t].cb].ctx] = @ + 1]
  /\ nfs' = [nfs EXCEPT ![t] = IdleCallback]
  /\ UNCHANGED <<handler, vq, poolVars, cbdata, slotVars, wire, inodeVars,
                 serverVars, hostVars>>

(* dpfs_hal_async_complete: the host sees the answer. *)
CallbackComplete(t) ==
  LET n == nfs[t] IN
  /\ n.pc = "complete"
  /\ completions' = [completions EXCEPT ![n.ctx] = @ + 1]
  /\ known' = IF n.op = "lookup" /\ n.ok THEN known \cup {n.obj} ELSE known
  /\ handles' = IF n.op = "open" /\ n.ok
                THEN [handles EXCEPT ![n.file] = @ + 1] ELSE handles
  /\ nfs' = [nfs EXCEPT ![t] = IdleCallback]
  /\ UNCHANGED <<handler, vq, poolVars, cbdata, slotVars, wire, inodeVars,
                 serverVars>>

CallbackStep(t) ==
  \/ CallbackSlot(t) \/ lookup_cb(t) \/ CloneFh(t) \/ CloneFhBytes(t)
  \/ getattr_cb(t) \/ statfs_cb(t) \/ vread_cb(t) \/ vwrite_cb(t)
  \/ vfsync_cb(t) \/ vopen_cb(t) \/ StoreFhOpen(t) \/ StoreStateid(t)
  \/ release_cb(t) \/ CallbackFree(t) \/ CallbackFreed(t)
  \/ CallbackComplete(t)

Service(t) == CallbackStart(t) \/ CallbackStep(t)

-----------------------------------------------------------------------------
Next == \/ \E t \in Threads : Virtio(t) \/ Service(t)
        \/ \E r \in Requests : Serve(r) \/ RpcFail(r)

Spec == Init /\ [][Next]_vars

(* Threads that can run do run: the poller spins without blocking, the     *)
(* service thread polls its socket, and libnfs answers or fails every      *)
(* compound it holds.  The host owes no further request.                   *)
Fairness ==
  /\ \A t \in Threads :
       /\ WF_vars(lookup(t) \/ getattr(t) \/ statfs(t) \/ vread(t)
                  \/ vwrite(t) \/ vfsync(t) \/ vopen(t) \/ vopen_count(t)
                  \/ release(t) \/ AllocOpenRelease(t) \/ ScanSlot(t)
                  \/ ClaimSlot(t) \/ SendCompound(t) \/ FreeUnsent(t)
                  \/ ReturnDeferred(t))
       /\ WF_vars(Service(t))
  /\ \A r \in Requests : WF_vars(Serve(r) \/ RpcFail(r))

FairSpec == Spec /\ Fairness

-----------------------------------------------------------------------------
(* Properties *)

Held(r) == wire[r] # None

(* In dpfs_nfs both the poller (a handler that fails) and the service      *)
(* thread (every callback) call mpool_free on p[t], a ring for one         *)
(* producer.  Once two of these calls overlapped, chunks are shared or     *)
(* lost and nothing below is promised; until then all of it is.            *)
PoolsIntact == torn = {}

(* No two compounds that are outstanding on one session occupy the same    *)
(* slot, though the service thread frees slots while the poller scans for  *)
(* one (vnfs4_op_sequence, the callbacks' in_use = false).                 *)
SlotExclusive ==
  PoolsIntact =>
    \A q, r \in Requests :
      Held(q) /\ Held(r) /\ q # r /\ wire[q].t = wire[r].t
        => wire[q].slot # wire[r].slot

(* A compound reaches the server with the sequence id that the slot        *)
(* expects next, unless an earlier compound of the slot was lost by the    *)
(* RPC layer: an incremented seqid that was never sent is never followed   *)
(* by another request on that slot.                                        *)
SequenceInOrder ==
  PoolsIntact =>
    \A r \in Requests :
      Held(r) /\ wire[r].st = "sent" /\ wire[r].slot \notin lost[wire[r].t]
        => wire[r].seq = srvSeq[wire[r].t][wire[r].slot] + 1

(* A cb_data chunk is in the pool, with the poller, with one outstanding   *)
(* compound or with the running callback, and nowhere else: a callback     *)
(* never reads the cb_data of another request (mpool_alloc, mpool_free),   *)
(* as long as no two mpool_free of one pool overlapped.                    *)
PollerHolds(t, c)  == /\ vq[t].cb = c
                      /\ vq[t].pc \in {"scan", "claim", "send", "free"}
ServiceHolds(t, c) == nfs[t].cb = c /\ nfs[t].pc \notin {"idle", "complete"}
WireHolds(t, c, r) == Held(r) /\ wire[r].t = t /\ wire[r].cb = c

CbDataExclusive ==
  PoolsIntact =>
    \A t \in Threads, c \in Chunks :
      /\ PollerHolds(t, c) => c \notin pool[t] /\ ~ServiceHolds(t, c)
      /\ ServiceHolds(t, c) => c \notin pool[t]
      /\ \A r \in Requests :
           WireHolds(t, c, r) =>
             /\ c \notin pool[t] /\ ~PollerHolds(t, c) /\ ~ServiceHolds(t, c)
             /\ \A q \in Requests : WireHolds(t, c, q) => q = r

(* dpfs_nfs keeps the contract of the HAL as long as its pools are intact: *)
(* a handler that returned 0 is never completed, one that returned         *)
(* EWOULDBLOCK is completed at most once, and with its own completion      *)
(* context.                                                                *)
Hal == INSTANCE HalContract
HalSpec == Hal!Init /\ [][PoolsIntact => Hal!Next]_halVars

(* inode.nopen counts at least the handles the host still holds, so that   *)
(* release neither underflows it nor sends a CLOSE while some other handle *)
(* is still counted (vopen, vopen_cb, release).                            *)
Releasing(f) == {t \in Threads : Running(t, "release") /\ vq[t].file = f}
NopenCoversHandles ==
  PoolsIntact =>
    \A f \in Files : nopen[f] >= handles[f] + Cardinality(Releasing(f))

(* A nodeid the host was told by a lookup has an inode whose file handle   *)
(* was stored, or is just being copied by a lookup of another connection   *)
(* that has set len, whichever of them inserted the inode (lookup_cb).     *)
KnownFileHasFh == PoolsIntact => \A f \in known : fh[f] \in {"len", "set"}

(* A slot nobody will ever free: in use, but not by the poller, by an      *)
(* outstanding compound or by a callback that has yet to free it.          *)
Leaked(t, s) ==
  /\ in_use[t][s]
  /\ ~(vq[t].pc = "send" /\ vq[t].pos = s)
  /\ ~(nfs[t].pc = "slot" /\ cbdata[t][nfs[t].cb].slotid = s)
  /\ \A r \in Requests : Held(r) /\ wire[r].t = t => wire[r].slot # s

(* Every request that reaches a handler is answered, or the session of its *)
(* thread has leaked all its slots, or two frees of cb_data overlapped.    *)
AnsweredUnlessLeaked ==
  \A r \in Requests :
    handler[r] = "running"
      ~> \/ Hal!Answered(r)
         \/ ~PoolsIntact
         \/ \E t \in Threads : vq[t].r = r /\ \A s \in Slots : Leaked(t, s)

(* Nothing is being handled, sent or called back. *)
Quiet == /\ \A t \in Threads : vq[t].pc = "idle" /\ nfs[t].pc = "idle"
         /\ \A r \in Requests : ~Held(r)

(* The behaviours in which every compound is sent and no callback fails. *)
Healthy == /\ \A r \in Requests : Held(r) => wire[r].st \in {"sent", "ok"}
           /\ \A t \in Threads :
                /\ vq[t].pc # "free"
                /\ nfs[t].pc \in {"free", "freeing", "complete"} => nfs[t].ok
HealthySpec == Init /\ [][Next /\ Healthy']_vars

=============================================================================
