# DPFS in TLA+

DPFS runs virtio-fs file systems on a DPU. The host's kernel puts FUSE requests
on virtqueues; the DPU polls them through NVIDIA SNAP, a low-level FUSE layer
decodes them, and a file system implementation answers them, usually
asynchronously, from another thread. This directory models the parts of DPFS
whose correctness depends on the order of events: the HAL's threads and
devices, the FUSE session, the NFS file system with its two threads per
connection, the mirror file systems over io_uring and libaio, the file system
that forwards requests to a remote host, and the one that keeps its files in
RAMCloud. Paths below are relative to the root of the repository.

## Inventory

| Component | State | Operations | Interacts with |
|---|---|---|---|
| HAL, SNAP front end (`dpfs_hal/src/snap.c`) | devices with `suspending` and `poll_counter`, the SNAP controllers, `keep_running`, the threads and their device windows | `dpfs_hal_new`, `dpfs_hal_loop`, the polling threads, the mock thread, `signal_handler`, `dpfs_hal_async_complete`, `dpfs_hal_destroy` | calls the request handler of the layer above on a polling thread; is called back from any thread with completions |
| HAL contract (`dpfs_hal/include/dpfs/hal.h`) | per request: where its handler is, how often it was completed | deliver, return 0, return `EWOULDBLOCK`, `async_complete` | between the HAL and every file system |
| Low-level FUSE (`dpfs_fuse/dpfs_fuse.cpp`) | a `fuse_session` per device: `got_init`, `init_done`, `got_destroy`, capabilities, buffer limits | INIT, DESTROY and a handler per opcode; register and unregister a device | called by the HAL, calls the operations of the file system |
| NFS request path (`dpfs_nfs/dpfs_nfs.c`) | per thread: a connection with its session slots (`in_use`, `seqid`) and a pool of `cb_data`; shared: inodes with `fh`, `nopen`, `fh_open`, `open_stateid` | lookup, getattr, statfs, open, release, read, write, fsync and their callbacks | handlers on the HAL's poller, callbacks on libnfs' service thread; both touch slots, pool and inodes |
| NFS connection setup (`dpfs_nfs/vnfs_connect.c`) | `conn_cntr`, the state of each connection, `session.slots` | EXCHANGE_ID, CREATE_SESSION, LOOKUP of the export, RECLAIM_COMPLETE, `vnfs_conn_up` | one chain of callbacks on the service threads, while the poller may already serve requests |
| NFS inode table (`dpfs_nfs/inode.c`), encoding (`nfs_v4.c`) | hash chains; none | get, insert; encode | used by the request path from both threads |
| Memory pool (`lib/mpool.c`) | a `ck_ring` of free chunks, its head and tail | `mpool_alloc`, `mpool_free` | meant for one thread that allocates and one that frees, without a lock; the mirrors free from the completion thread, dpfs_nfs from the service thread and, on errors, from the poller as well |
| Mirror inodes (`dpfs_uring`, `dpfs_aio`: `mirror_impl.c`, `fuser.c`) | a table of inodes with `nlookup`, `nopen`, a descriptor and a lock each; the table lock | lookup, forget, create, mknod, open, release, unlink, setattr, readdirplus, rename, destroy (of these dpfs_aio has lookup, open, release) | handlers of all devices on their polling threads |
| Mirror I/O (the same files) | the submission ring or aio context, a pool of `cb_data` | getattr and fsync (dpfs_uring), read, write | a handler submits, a completion thread answers and frees |
| Remote virtio-fs (`dpfs_rvfs/dpu.cpp`, `dpfs_hal/src/rvfs.cpp`) | messages up for reuse on both sides, a context per message | forward a request, handle it remotely, respond | eRPC between the two; HAL thread, event loop, and the threads of the remote file system |
| RAMCloud file system (`dpfs_kv/main.cpp`) | an inode and a data table keyed by the name; RPCs under way; an enumerator per open directory | lookup, getattr, read, write asynchronously; setattr, mknod, unlink, readdir in the handler | a poll thread completes RPCs |
| Command lines, template, CPU latency, timers, `list_emulation_managers` | - | - | start-up and measurement |

What is hard here:

* *Two threads per connection.* A handler writes the `cb_data` chunk and the
  slot that its callback reads, and the callback can run, and even complete the
  request, before the handler has returned `EWOULDBLOCK`.
* *Shared state without locks.* `in_use`, the pool and the inodes are read and
  written by several threads; correctness rests on who may write what, and on
  the order of the writes. The pool is a ring for one producer, and dpfs_nfs has
  two.
* *Locks in two orders, and between them nothing.* The mirror's lookup releases
  the table before it locks the inode it found, and elsewhere holds the table
  while it locks one.
* *Reuse.* Chunks, messages, descriptors and nodeids are used again while an
  earlier user's event, response or request may still be on its way.
* *Read, modify, write* over a network, with the steps of two requests mixed.
* *Failure in the middle.* Handlers can fail after they took a chunk and a slot;
  libnfs can give up on a compound before or after the server executed it.
* *Exactly one answer* per request, whichever of these happens.
* *Remounts.* A FUSE session outlives the mount that negotiated it.
* *Shutdown.* Devices may only be destroyed when suspended and drained, and the
  suspension needs the very loop that is about to end.

`PROJECT.json` lists the hazards one by one, at the line where each bites.

## The modules

```
HalContract        what a file system owes the HAL
   ^ implemented by
   |  Vnfs         dpfs_nfs with its connections up   <- VnfsProofs, MCVnfs
   |     ^ extended by
   |  VnfsBoot     the handshake and early requests   <- VnfsBootProofs, MCVnfsBoot
   |  Kv           files in two RAMCloud tables       <- KvProofs, MCKv
   |     | extends
   |  FuseIov      a reply buffer made of iovecs
PoolContract       what the users of mpool rely on
   ^ implemented by
Mpool              the ring, load by load             <- MirrorIoProofs
   ^ extended by
MirrorIo           I/O of dpfs_uring and dpfs_aio     <- MirrorIoProofs
Mirror             inodes of dpfs_uring               <- MirrorProofs, MCMirror
Rvfs               both ends of remote virtio-fs      <- RvfsProofs
HalSnap            devices, threads, shutdown         <- HalSnapProofs
FuseSession        sessions, INIT, dispatch           <- FuseSessionProofs, MCFuseSession
```

**HalContract** is the abstract specification: for a request, `Deliver`, then
`ReturnHandled` (only if nobody completed it) or `ReturnDeferred`, and at most
one `AsyncComplete`, which may come before the return.

**Vnfs.** One step is what a thread does between two accesses to state that
another thread writes.

| Code | Model |
|---|---|
| the handler running on poller thread `t` | `vq[t]`: program counter, request, chunk, scan index, sequence id |
| the callback running on service thread `t` | `nfs[t]` |
| `vnfs->p[t]` and the chunks | `pool`, `cbdata`; `torn`: the pools on which two `mpool_free` overlapped |
| `struct vnfs_slot` | `in_use`, `seqid` |
| a compound that libnfs holds | `wire[r]` |
| `inode.fh` | `fh`: `absent` (no inode), `none`, `len` (length stored, bytes not), `set` |
| `nopen`, `fh_open`, `open_stateid` | the same names, per file |
| handlers `lookup` ... `vfsync` | the actions of those names up to the allocation; `vopen_count` is the increment of `nopen` of an open file |
| `vnfs4_op_sequence` | `ScanSlot`, `ClaimSlot`, and `HighestSlots` for its last loop |
| PUTFH, `rpc_nfs4_compound_async` and the error paths after them | `SendCompound`, `FreeUnsent` |
| the callbacks | `CallbackSlot`, one action per callback, `CallbackFree`, `CallbackFreed`, `CallbackComplete` |

The pool is a set of chunks, which is what `Mpool` is proved to implement with
one thread that allocates and one that frees. `mpool_free`, however, is called by
two threads: an enqueue reads the tail of the ring, stores the chunk there and
publishes the next tail. Here it is two steps, the read (the last thing in the
step to `free` of the handler, or `freeing` of the callback) and the rest
(`Publish`). When both threads are between the two, a chunk is lost or the tail is
set back over entries that were handed out: the pool is `torn`, and from then on
`mpool_alloc` may return any chunk, or none (`Allocable`). The properties are
promises up to that point (`PoolsIntact`); what breaks first after it is under
*Findings*. A chunk that two operations use is then read as the same structure,
although its fields differ from operation to operation.

The loop at the end of `vnfs4_op_sequence` starts at `slots[nslots]`, past the
array. `HighestSlots` lets the out-of-bounds read find anything, which shows only
when no slot is in use, since the loop leaves the lowest it finds.

External: the NFS server (`Serve`: executes a compound whose sequence id is the
slot's next, may refuse any), the RPC layer (`RpcFail`: gives up before or after
execution; `CallbackStart`: replies in any order) and the host (`Deliver`).
The host reads, writes and releases only with a handle it holds and does not
open the root, which is a directory; it may use any nodeid with lookup,
getattr, fsync and open, since it can outlive a DPFS process. Contents of
files, names and attributes are abstracted.

**VnfsBoot** adds the handshake: `stage` is where it is, at connection
`conn_cntr`. Its callbacks and those of the requests exclude each other on one
service thread (`OnService`, `Busy`); its two compounds that need a slot scan
and claim it as a handler does. A poller that scans while `nslots` is set and
`slots` is not, and a statfs before the root inode exists, end the process
(`Crash`); so the run shows what holds up to such an end.

**HalSnap** is the life of the process: `dpfs_hal_new` device by device with
its failure, the creation of the threads with its failures (the cancelling loop
that never ends included), the poll loop (test, I/O, handler, mmio, suspend),
`pthread_join` and `dpfs_hal_destroy`. External: the SNAP controller, which
calls the handler for queued requests and, once asked to suspend, is suspended
by a progress call when nothing is in flight.

**FuseSession** has a session per device. `fuse_ll_init` is INIT with the
version and iovec checks, the negotiation of capabilities and limits
(`Negotiated`), the init of the file system, which may fail or ask for more
(`FsInit`), and the reply (`InitReply`). `fuse_handle_req` is every other
request, with any number of iovecs and with opcodes out of range (`OutOfRange`):
`Result` is the outcome of its checks and of those of the handler, in their order.
It tests `in_iovcnt` twice and `out_iovcnt` never (`dpfs_fuse.cpp:1814`), so
handlers that write a header without asking for an output iovec (`Unasked`) may
end the process. Sizes are in pages, the buffer header being one.

**PoolContract** and **Mpool.** The contract is a set of available chunks and
who holds what. `Mpool` is `ck_ring_dequeue_spsc` and `ck_ring_enqueue_spsc` as
`mpool_alloc` and `mpool_free` use them: each first compares the positions
(`AllocCheck`, `FreeCheck`), then loads or stores a slot, then publishes its
position, and the other side may run between any two. `mpool_init` frees
all `Size` chunks into a ring that holds one less; the last enqueue fails
unnoticed. The mapping takes the slots between head and tail as available.

**MirrorIo** puts the ring under its users. A handler allocates, fills the
chunk (`AllocDone`), submits (`UringSubmit`, `AioSubmit`, or `SubmitFails`) and
returns; the completion thread takes an event (`UringReap`, `AioReap`),
completes and frees, each of these calls step by step. What the code does on
errors is kept: a failed `io_uring_submit` answers, and the entry stays in the
ring and keeps its chunk; a failed `io_submit` answers and keeps the chunk; a failed
aio event completes, and completes again (`AioAgain`); a failed wait ends the
thread of uring (`UringStops`); an empty pool is read through NULL (`ended`).
dpfs_uring has 512 entries for 256 chunks, so `io_uring_get_sqe` never fails and
is not modelled as failing.

**Mirror** has a request per polling thread (`th[t]`), `f->m` and `i->m` as
`fm` and `im`, the descriptor table of the process (`fds`, numbers are reused)
and the directory below (`link`). A step is what runs between two lock
operations or two accesses to fields that others write without the lock.

| Code | Model |
|---|---|
| `do_lookup` | `LkOpen`, `LkTable` (open, table lock, getsert), then `LkKnown` after the table was unlocked, or `LkNew` while it is locked |
| `forget_one` | `FgCount`, `FgErase`, `FgFree`, `FgTest` |
| `fuser_mirror_unlink` | lookup, `UlRelease`, `UlClose`, `UlUnlinkat` |
| create, mknod, mkdir, symlink | `CrOpen` or `MkNode`, lookup, `CrCount` |
| readdir with plus | `RdLock`, a lookup per entry, `RdEntry` |
| open, setattr, release | `UseRead`, `OpOpen`, `OpCount`; `SaApply`; `RlCount`, `RlClose` |
| rename | `Rename` |
| destroy, `inode_table_clear` | per chain `DsBucket`, per inode `DsClose` and `DsFree`, at last `DsClear` |

Addresses are never given out twice, so that the use of a freed inode is
visible; it ends the behaviour with `ended = "freed"`. One such access needs no
race: after `inode_table_erase` freed its inode `forget_one` tests `i->nlookup`
again (`FgTest`). It finds the zero that was left there and goes on, or, if the
block is in use again, anything else, and then unlocks a lock that is not its own
(`ended = "reread"`). `table` is what is linked in the chains and `alive` what is
not freed; they differ while DESTROY runs, which takes no lock, closes and frees
an inode while it is in its chain, and clears the chain last. A walk along a chain
(`Walked`) that comes upon a freed inode ends the behaviour too. The hosts are external
and obey the FUSE protocol: they forget what they looked up, and use what
they hold.

**Rvfs** has `fuse_handler` in four steps (load the read index of the queue of
messages, store it, enqueue the request, store the context), `response_func` in
two, the remote `req_handler` and `dpfs_hal_async_complete`. The `std::vector` of
the remote side is an array and a length that are loaded and stored separately.
The handler runs on the polling thread, and with mock devices also on the mock
thread that `dpfs_hal_new` is told to start (`dpu.cpp:241`). `twoThreads`, `mock`
and `remoteAsync` are chosen in `Init`. A request without output iovecs
(`Forgets`) is completed through the `iov_base` that a message has in their place:
NULL in a new one, so the remote process dies, and what an earlier request left
in a reused one (`HasHeader`), so that it may (`RemoteHandleDies`,
`RemoteRespondDies`). External: eRPC delivers everything once, in any order, and
its calls from two threads of the DPU are taken to be atomic; the queue is
`boost::lockfree::spsc_queue`, which allows one consumer.

**Kv** has the two tables, a record per request (`op`), the RPCs under way and
the poll thread. The objects of the asynchronous operations send their RPC in
the constructor of their base class; a response that is handled while that runs
calls `completed()` of the base, and nobody answers (`CompletedEarly`). Between
the return of the base constructor (`BaseDone`) and the initialisation of the
members `completed()` is that of the class and works on members that hold
anything: the behaviour ends (`CompletedUninitialised`), except for the outcome in
which the response of a write is only forgotten. `AsyncWriteOp` has two RPCs; the
second to finish writes the
inode back (`Done`, `Finish`). Contents are abstracted to their length. `fs` is
what the tables would hold if each request took effect when it was answered.
`FuseIov` is `struct iov`: the iovecs of a reply, each given by where it ends in
it. `ReaddirCopy` is a round of the copy loop of `iov_write_buf`, in which the
source is not advanced at an iovec boundary, and `ReaddirCopied` its end. As
committed `dpfs_kv/main.cpp` does not compile (`main` uses the undeclared
`config_path` and `conf_path`); the handlers are modelled as written.

## What the runs check

| Run | Instance | Shows |
|---|---|---|
| `vnfs_requests` | 1 thread, 3 requests, 2 chunks, 2 slots | Slots are exclusive, sequence ids arrive in order, chunks have one owner and the HAL's contract is kept, with callbacks running while the poller goes on, until two frees overlap |
| `vnfs_opens` | 2 threads, 3 requests, 2 chunks, a shared file | `nopen` covers the handles of the host, and a nodeid that was handed out has a file handle (stored, or being copied by another connection's lookup), over all interleavings of lookups, opens and releases on two connections, until two frees overlap |
| `vnfs_progress` | 1 thread, 1 slot, 2 chunks, 3 requests, fair | Every request is answered unless all slots of its session have leaked or two frees overlapped |
| `vnfs_open_count` | 1 thread, 3 requests, nothing fails | **Violated**: `nopen` counts a reopening twice |
| `vnfs_boot` | 2 connections, 2 requests, 2 chunks | Connections come up in order and complete; requests during the handshake keep the chunk discipline and the contract, until two frees overlap |
| `vnfs_boot_slot` | the same | **Violated**: a request and the handshake share a slot |
| `hal_loop` | 3 devices, 1 mock, 2 threads, fair | One poller per device; destroyed devices are drained; the loop returns after a signal |
| `fuse_session` | 1 device, 3 kernels | The INIT reply is sound over remounts, INIT is done once, nothing is served before it, limits only shrink |
| `mirror` | 2 devices, 2 names, 3 inode numbers (one refused), 2 descriptors, 4 requests | Lookup and open counts are exact on every path; descriptors in the table name their files until a DESTROY comes upon inodes; inodes are lost, freed ones used, and threads stuck only through the races named under *Findings* |
| `mirror_io` | 1 polling and 1 completion thread, ring of 4, 4 requests, both backends, fair | The ring keeps the contract of the pool; chunks are accounted for; a request is completed once, by the I/O on its own buffers, unless its submit or event failed; deferred requests are completed |
| `rvfs` | 3 requests, one a FORGET, 2 in flight, all eight thread configurations, fair | Every request gets its own response once and messages are exclusive, unless one of three races was lost that the configuration allows; forwarded requests are completed, unless one was or the remote process died of the FORGET |
| `kv` | 2 requests on a file by 2 pollers with failing RPCs; a directory of 3 files read through 4 shapes of buffer; fair | The tables are exact where requests do not overlap; the HAL's contract is kept; deferred requests are completed unless a response came before its object was complete; entries within an iovec are intact and the copy loop stays in the iovecs; a listing loses exactly the entries at which a reply was full |

Bounds. Requests bound a behaviour of `Vnfs`: three are enough for one to hold
the only slot, one to wait for it and one to be queued behind, or for a lookup,
an open and a release of the same file. Two slots are the least with a choice,
two chunks with three requests the least at which the pool both is shared and
runs empty, and two requests on one thread the least at which a failing handler
frees beside a callback. A file besides the root suffices, since files do not interact. Three
devices on two threads have a remainder, the case the windows get wrong if
anything does. `MmioEvery` (10000 in the code) is 1: the counter still has to be
counted up before it fires. Sessions of `FuseSession` are independent, so one
device suffices; the three kernels differ in MAX_PAGES and in what the file
system asks for, and one minor is below, one above the version checks. `Mirror`:
four requests of two devices suffice for a lookup against the forget of the last
reference, for an unlink that releases an inode while it is recycled, and for a
descriptor number to be closed and taken again; the third inode number is one
`do_lookup` refuses; two descriptors suffice for an inode beside an open file, and
for `open` to fail (three were checked once: 3.8 million states, same result); of
two hash buckets one has all inodes, so that chains have two, and one is empty.
`MirrorIo`: with a ring of 4 three chunks are usable, which
four requests use up, and the positions wrap around. `Rvfs`: two messages in
flight and a third request reuse every message, and the FORGET comes before, among
or after the others. `Kv`: the steps of two requests
on a file mix in every way; the buffers are too small for one entry,
exact, split inside an entry and with an empty iovec, and large enough for two.
In `kv` the three workloads (changes of a file, reads of a file, listing) are
explored side by side. Requests, chunks and threads are only compared for
equality, which makes the symmetry of the safety runs sound; the liveness runs
use none. `CHECK_DEADLOCK FALSE`: requests are bounded, and the process ends.

Fairness. `Vnfs`: weak fairness of the running handler (the poller spins), of
the service thread (it polls its socket), and of libnfs, which answers or fails
each compound; the host owes no request. `HalSnap`: weak fairness of the main
thread and of each polling thread, and every deferred request is completed,
which is what the contract asks and what `AnsweredUnlessLeaked` is about; no
signal need come. `MirrorIo`: the polling and the completion thread run (both
spin or block in the kernel) and the kernel finishes every I/O. `Rvfs`: the
threads run, eRPC delivers, and the remote file system completes what it
deferred. `Kv`: the pollers and `ramcloud_poll` run and RAMCloud answers, if
only with an error. `Mirror` has no fairness: `SomeThreadRuns` asks in every
state whether the threads block each other.

## Findings

Two runs show the code against its own comments.

1. *Reopening* (`vnfs_open_count`). `vopen` says "If the file is already opened,
   then just return", but does not return: `nopen` grows by two, the stateid of
   the first open is replaced, and no CLOSE is ever sent.
2. *Two claimers of a slot* (`vnfs_boot_slot`). The comment in
   `vnfs4_op_sequence` that only the Virtq thread claims slots does not hold
   during the handshake.

The others are excepted, by name, in the properties that hold otherwise, or
are facts of the model that need no run:

* *dpfs_nfs.* A handler that fails after it took its slot frees the chunk but
  not the slot (the exception of `AnsweredUnlessLeaked`); once all are leaked the
  poller waits for ever (`dpfs_nfs.c:331`). `mpool.c:14` and `21` call the pool
  thread-safe, but it has one producer's enqueue, and both the poller
  (`dpfs_nfs.c:1391`, `1406`, `1517`) and the service thread (`1353`, `1456`) free
  into it: overlapping frees lose a chunk or hand one out twice (`torn`). Without
  that exception TLC finds `CbDataExclusive` violated with three requests,
  `HalSpec` (a request completed twice) with four, and
  `SlotExclusive` with five. `vnfs4_op_sequence` reads `slots[nslots]` (335).
  `release_cb` may clear `fh_open` of a
  file that was opened again in between (line 500).
* *HAL.* Mock devices are destroyed without being suspended (`snap.c:152`,
  `164`). The mock thread never sets its thread id and shares 0 with a polling
  thread (line 160), and so its session and pool.
* *FUSE.* `FUSE_PARALLEL_DIROPS`, wanted by default, is never in the reply
  (`dpfs_fuse.cpp:557`). An entry that crosses an iovec boundary has its
  beginning repeated (line 299). `fuse_handle_req` asks twice for an input iovec
  and never for an output one (1814).
* *Mirror.* A lookup counts on an inode that a forget is about to free
  (`mirror_impl.c:258`: `raced`). `do_lookup` returns ENOMEM with the table locked
  (242). It locks an inode while it holds the table; the comment at 267-270 that
  nobody else can hold that lock is true of new inodes only, and with a recycled
  one two threads can wait for each other (`CycleOnRecycled`). Every last forget
  reads its inode after it freed it (67: `reread`). DESTROY of one device closes
  and frees the inodes of the others, without a lock and before they are out of
  the table (125, `fuser.c:46`: `cleared`). `open` and `setattr` use a
  descriptor number they read without the lock (593), which may name another file
  by then.
* *Mirror I/O.* A failed submit of uring leaves its entry in the ring, and the
  next submit sends it although its request was answered, and it is answered
  again. A failed aio event is completed
  twice. All pollers of dpfs_aio share one pool; with two consumers, or with two
  producers, TLC finds `PoolSpec` violated. An aio result other than -1 that
  is an error is answered as a success.
* *Rvfs.* A FORGET has no output iovec, and its completion dereferences NULL or a
  stale pointer in the remote process (`rvfs.cpp:244`: `dead`). With `two_threads`,
  or on the mock thread, a response may be handled before its context is stored
  (`dpu.cpp:124`: `early`); the mock thread is a second consumer of a queue for one
  (`dpu.cpp:89`, `241`: `doubled`); a remote file system with threads of its own
  races on the vector (`rvfs.cpp:248`: `torn`).
* *Kv.* Besides responses before the object is complete, forgotten or handled with
  uninitialised members (`main.cpp:225`-`229`): overlapping writes, setattrs
  and unlinks of a file leave a size that does not fit the data, or bring back
  an inode (243); the entry at which a READDIR reply is full is never listed,
  and going back to the start of a directory does not go back in the enumerator
  (611). A write over several iovecs copies each to the start of the buffer
  (195), and a successful lookup answers with uninitialised timeouts; contents
  and attributes are not modelled, so no property speaks of these two.

## What is proved

The theorems hold for all values of the constants that satisfy the assumptions
`VnfsAssumption` (at least one slot, finitely many threads, the root is a file,
`None` is none of the other values), `BootAssumption` (threads are numbered from
0, as `conn_cntr` counts them), `NoPduAssumption` (`None` is no compound),
`HalSnapAssumption` (the configurations `dpfs_hal_new` accepts),
`MpoolAssumption` (`ck_ring` has at least four entries), `FuseAssumption` (a
queue has room; kernels offer flags of the protocol, send numbers as minor
version and readahead, and use the opcodes of the handler table or one out of
range; a file system
asks for capabilities the library knows), `IoAssumption`, `RvfsAssumption` and
`KvAssumption` (`None` is no chunk or request; the number of messages in flight
is a number, forgets are requests; a directory is finite), `IovecsAssumption` (the iovecs of a reply
follow each other, and a dirent has a length) and `MirrorAssumption` (refused
inode numbers are inode numbers, the bounds on descriptors and requests are
numbers, the hash of an inode number is a bucket, `None` is no thread, inode number or number).

**VnfsProofs** proves `TypeCorrect`, `SlotsAreExclusive`, `SequencesAreInOrder`,
`CbDataIsExclusive`, `KnownFilesHaveFh`, `NopenIsEnough` and the refinement
`KeepsHalContract`, all for as long as no two `mpool_free` of one pool overlapped
(`PoolsIntact`; a torn pool stays torn, `TornStays`). So the proof says that this is
the one way in which chunks, and with them slots, completions and counts, can get
mixed up. None of these is inductive: that a slot is not shared
depends on who is between taking and freeing it. The inductive invariant is
`IInv`, which is `Sound` while the pools are intact; `Invariance` proves it, and its
parts say who holds what, a handler and a callback inside `mpool_free` included. They come in two
halves, since only one of them holds while the connections are set up:
`Ownership`, which does not mention slots, is inductive by itself; `Holding` adds
`SlotsHeld` and `SequenceIds` to the ownership of chunks and requests (`Owned`).
Each step is proved once, for both (`NextStep`).

* `Stacks`: which fields of a running handler or callback are set at which
  program counter;
* `ChunksHeld`: a chunk that a handler, a compound or a callback holds is not
  in the pool, and it has one holder;
* `RequestsHeld`: a request has one holder at a time, and the chunk that the
  holder has names it as its completion context; the holder is what allows the
  one completion;
* `SlotsHeld`: a slot that is held is `in_use`, by one holder; the slot the
  poller found free stays free until it is claimed, as the service thread only
  frees;
* `SequenceIds`: on a slot on which nothing was lost, the stored `seqid` and the
  executed one agree, or differ by the compound that is on its way; the ids of
  leaked slots are exempt because they are never used again;
* `FhStored`: the inode of a callback past the insertion, and every nodeid the
  host knows, have what the callback stored;
* `OpensCounted`: `nopen` is at least the handles of the host, plus the opens
  whose callback counted and whose answer is not out, plus the running
  releases.

For the refinement every step of `Next` is shown to be a step of `HalContract`
or to leave its variables alone, from `RequestsHeld` (`HalStep`).

**VnfsBootProofs** proves, for any number of connections, `BootTypeCorrect`,
`ConnectionsEstablishedInOrder`, `BootCbDataIsExclusive` and the refinement
`BootKeepsHalContract`: what holds from the start of dpfs_nfs on, whatever the
host asks for meanwhile. What `vnfs_boot_slot` refutes, that a slot has one user,
is false here, and with it `SlotsHeld` and `SequenceIds`; the proof shows that
nothing else depends on them. `BootIInv` (`BootInvariance`) is `Ownership`, with
how far the handshake is: `UpTo`, the connections before `conn_cntr` are
ESTABLISHED, with a session, and those from it on are not; `Made`, each stage
has what the stages before it made, the root inode, a session, a slot; again while
the pools are intact. A step of
the handshake writes slots, the server's sequence ids and the handle of the
root, so it keeps `Ownership` (`HandshakeOwns`); a step of a request is a step of
`Vnfs`, so `NextStep` is used again, and file handles it stored do not go away
(`FhKept`), which is what `UpTo` needs of it.

**HalSnapProofs** proves `TypeCorrect`, `OnePollerPerDevice` (the windows are
disjoint for every number of devices and threads), `EveryDeviceHasAPoller` (and
leave none out) and `DestroyIsDrained`. Its `IInv` adds to the types: the main
thread's index is in range (`MainIndex`), a thread is within its window
(`Placed`), a device whose handler runs has room in its queue and is not
suspending or suspended (`Handling`), a suspended device has nothing in flight
(`Drained`), and a thread that ended uncancelled saw all devices suspended,
which nothing undoes (`Ended`).

**MirrorIoProofs** begins with the pool by itself (`Mpool`). It proves, under
`Spsc` (at most one thread allocates and at most one frees, as `mpool.h` says),
that the ring implements `PoolContract` for every size: `KeepsPoolContract`.
That the chunk at the head is free and still there when the consumer publishes
depends on what the producer may do meanwhile, so `PoolIInv` (`PoolInvariance`)
says, besides the types: the slots between head and tail hold different chunks
that nobody holds (`RingOK`); what a consumer has read is still so (`ConsOK`),
and what a producer has seen too (`ProdOK`). An enqueue never finds the ring
full (`NotFull`), which is why no freed chunk is lost: a full ring has as many
slots as there are usable chunks, one of which is the one being freed; this is
the pigeonhole theorem of the library. The wrap-around is in `WindowTaken` and
`WindowAdded`.

Then it puts the users of the ring on top of `PoolIInv`, still under `Spsc`:
`CompletesOnce`, `ChunksAreAccounted`, `IoTypeCorrect`, and
`IoKeepsPoolContract`, that the handlers and the completion thread stay within
what the contract allows its users. `IoIInv` says of each chunk that is out of
the ring whose it is: that of a handler before its submit (`PollersOK`), of an
entry that is prepared or in the kernel (`LiveOK`), or of the completion thread
(`ReaperOK`), and `HeldOK` that it is one of these or the chunk a failed
`io_submit` leaves behind. A request is completed once because its entry exists
once and only while nobody completed it; `RequestsOK` ties the exceptions to the
failed submit or event. Each step is shown to be a step of the ring's users or
to leave the ring alone (`PoolSteps`), so nothing about the ring is proved
again.

**MirrorProofs** proves `TypeCorrect`, `CountsAreExact`, `NodeidsStayAlive`,
`EndsByRaceOnly` and `FdsNameFiles` for any number of threads, names, inode
numbers, descriptors and requests. `IInv` (`Invariance`) has these parts:

* `ThreadsOK`: which fields of a request are set at which point (`RequestOK`),
  which locks it holds there (`LocksOK`), and that its host has files open only
  of nodeids it holds a lookup on (`HostOK`);
* `LookupsOK` and `OpensOK`: the counts of an inode are the cardinalities of the
  sets `References` and `OpenFiles`. A step changes the part of one thread, so
  three lemmas about unions of disjoint columns (`PairsGrow`, `PairsShrink`,
  `PairsSame`) carry every count. That `forget_one` never exits is a consequence:
  a thread does not owe more than was counted (`CountedAll`);
* `TableOK`: until a DESTROY comes upon inodes, the inodes in the chains are those
  that are not freed, and no DESTROY has one in its hands;
* `AliveOK`: until a race is lost or a DESTROY comes upon inodes, whatever a
  thread holds or owes a lookup on is in the table, and an inode whose count is
  zero while it is being erased has one thread that erases it;
* `BudgetOK`: a request allocates at most one inode, so addresses do not run out;
* `FdsOK`: `Owned` is the set of who will close which number (an inode, a lookup
  that has not found its inode, a request with a file of its own, an open file)
  with the files the number may name; until a DESTROY comes upon inodes a number has
  one owner and is open. That an
  inode's number names its file is not inductive without it, as it depends on no
  other thread closing the number.

A step is proved through `QuietStep`, if it leaves the inodes alone, or
`ChangesStep`, which ask only what the step does to its own thread and inode; an
access to a freed inode is dealt with once, in `FreedStep`.

**FuseSessionProofs** proves `TypeCorrect`, `InitRepliesAreSound`,
`InitIsDoneOnce`, `ServedOnlyAfterInit` and the action property
`LimitsOnlyShrink`. The soundness of a reply rests on lemmas about the operators
of the negotiation (`BufsizeBounds`, `CapableOffered`, `NegotiatedSound`) for any
session a previous mount may have left; `Started` is the strengthening: a session
without INIT has initialised nothing, and one that is ready has a file system
whose init was called.

**RvfsProofs** proves `ResponsesAreOwn` and `MessagesAreExclusive` in every
configuration as long as no race was lost, and `OneThreadEachIsSafe`: with one
thread on the DPU, no mock devices and a remote file system that completes in its handler there
is none to lose. `IInv` is a claim about states without a lost race: an RPC is in
exactly one of the wire, the replies, the remote loop and the workers
(`PlacesOK`); it has the context of its request, or the handler is about to
store it (`TransitOK`); a message that is up for reuse, is being pushed, or is in
the hand of a handler carries none (`AvailOK`, `LoopOK`, `HalOK`), and the two
threads of the HAL have different ones (`HalsApart`); the vector of
the remote side holds each message once and none that works (`VecOK`, `WorkOK`).

**KvProofs** proves `QuietFilesAreExact`, `ListingLosesOnlyTheCut`,
`DirentsAreIntact` and the refinement `KeepsHalContract`. `KvIInv` follows the
three parts of the file system. `AnswersOK`: a request has an operation exactly
from its delivery to its answer, its RPCs belong to it, and of the two
completions of a write each is done or forgotten once (up to a completion on
uninitialised members, which ends the behaviour), so that the poll thread
finishes it once (`WriteOK`, `PollOK`). `FilesOK`: on a file on which nothing
overlapped and no write or unlink failed there is at most one operation that
changes it, and `Progress` says how far both tables are, for every point of
`fuse_setattr`, `fuse_unlink` and `AsyncWriteOp`. `DirOK` has two parts.
`ListingOK`: what the enumerator has still to give was not given, and `off` is
the number of entries given plus one. `ReplyOK`: the position in the iovecs is
where the reply ends, plus what was copied of an entry; an entry that lies in
one iovec is copied in one round, since the loop is then in that very iovec
(past empty ones); a round leaves what lies before its position alone
(`RoundCopies`). That the loop never runs out of iovecs, which the comment in
`iov_write_buf` assumes, is `CopyStaysInside`. The loop is an action, a round a
step, so no induction over data is needed. A step of a request is proved through
four lemmas (`RequestStep`, `WorkStep`, `AnswerStep`, `QuietFile`) that deal
with everything the step does not concern.

Only model-checked: the liveness properties `AnsweredUnlessLeaked`,
`LoopReturns`, `DeferredAreCompleted` and `ForwardedAreCompleted`, and
`SomeThreadRuns`, which asks for `ENABLED`; these are out of the prover's reach.
`SomeThreadRuns` is also the one property that is about a given number of
threads: with more than two, longer cycles of locks than `CycleOnRecycled` names
have not been looked at. Every other invariant, action property and refinement
that a passing run checks is a theorem.

## What is not modelled, and what comes next

Next would be `SomeThreadRuns` for any number of threads, with the guards of
the steps spelled out instead of `ENABLED`, and the chains of the inode table of
dpfs_nfs.

Left out for good: the command lines and the empty template, CPU latency,
timers and debug output, `list_emulation_managers`, the experiments and the
vendored code. None keeps state that the rest depends on. Within the modelled
components:

* `dpfs_nfs`: `create` and `setattr`, which `dpfs_nfs_assign_ops` does not
  install; the chains, removal and erasure of the inode table; the encoding.
* HAL: `dpfs_hal_poll_io` and `dpfs_hal_poll_mmio`, other than as the threads of
  `Rvfs`.
* `dpfs_fuse`: the marshalling of arguments and replies other than directory
  entries.
* Mirror: statfs, flush, flock, fallocate, opendir, rmdir and plain readdir,
  which use a descriptor and change no inode; hard links made in the source
  directory. Of the inode code dpfs_aio installs lookup, open and release only,
  line by line those of dpfs_uring, so they are not modelled twice; without
  FORGET, UNLINK and DESTROY its inodes stay, and of the faults of `Mirror` only
  the table lock lost on ENOMEM can happen there.
* `dpfs_rvfs`: sizes of messages and the failure of eRPC sessions, which the
  code does not handle; races inside eRPC when the mock thread calls it beside the
  event loop.
* `dpfs_kv`: contents, attributes other than the size and one that stands for
  the rest, and collisions of name hashes, which the code does not handle.

## Running

`tlc -config <run>.cfg <module>` with the module that `PROJECT.json` names for
the run; `tlapm <module>.tla` for each of the proof modules (`VnfsProofs` and
`MirrorProofs` take some minutes, `KvProofs` two or three, the others less). The
longest runs are `mirror`, `kv` and `rvfs`, two to four minutes each.
