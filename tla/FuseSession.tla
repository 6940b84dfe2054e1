---------------------------- MODULE FuseSession ----------------------------
(***************************************************************************)
(* The FUSE layer, dpfs_fuse/dpfs_fuse.cpp, between the HAL and a file     *)
(* system: one fuse_session per virtio-fs device, the INIT negotiation     *)
(* with the kernel of the host, DESTROY, and the dispatch of every other   *)
(* request to the operations of the file system.                           *)
(*                                                                         *)
(* A device is polled by one thread (module HalSnap) and its session is    *)
(* used by that thread only, so the handler of a request is one step.      *)
(* Sizes are counted in pages: FUSE_BUFFER_HEADER_SIZE is one page.        *)
(* The marshalling of requests and replies is left out; so are             *)
(* proto_minor, which picks the size of reply structures, and the          *)
(* congestion threshold, which is derived from a constant.                 *)
(***************************************************************************)
EXTENDS Naturals

CONSTANTS Devices,
          QueueDepth,      \* requests in flight on a device
          Offers,          \* what kernels offer: sets of INIT flags
          Minors,          \* protocol minors of the kernels
          Readaheads,      \* max_readahead of the kernels
          Opcodes,         \* requests they send besides INIT and DESTROY
          FsOps,           \* operations the file system implements
          FsAsks           \* capabilities its init may ask for, as sets

Understood ==
  {"ASYNC_READ", "POSIX_LOCKS", "ATOMIC_O_TRUNC", "EXPORT_SUPPORT", "DONT_MASK",
   "FLOCK_LOCKS", "AUTO_INVAL_DATA", "READDIRPLUS", "READDIRPLUS_AUTO",
   "ASYNC_DIO", "WRITEBACK_CACHE", "NO_OPEN_SUPPORT", "PARALLEL_DIROPS",
   "POSIX_ACL", "HANDLE_KILLPRIV", "CACHE_SYMLINKS", "NO_OPENDIR_SUPPORT",
   "EXPLICIT_INVAL_DATA"}
Caps  == Understood \cup {"IOCTL_DIR"}
Flags == Understood \cup {"MAX_PAGES", "BIG_WRITES"}

FUSE_MAX_MAX_PAGES == 256
FUSE_DEFAULT_MAX_PAGES_PER_REQ == 32
FUSE_MIN_READ_BUFFER == 2
UINT_MAX_PAGES == 1048575               \* UINT_MAX / getpagesize()

VARIABLES alive,           \* the process has not met an uncaught exception
          reg,             \* what the HAL did with the device
          has_se,          \* f_ll->se has the device
          se,              \* struct fuse_session of the device
          fs,              \* the file system, as init and destroy left it
          inits,           \* successful inits of it since the last destroy
          deferred,        \* operations that returned EWOULDBLOCK
          answer,          \* result of the last request of the device
          reply            \* the last INIT reply: its offer and its contents

vars == <<alive, reg, has_se, se, fs, inits, deferred, answer, reply>>

Results == {"none", "EINVAL", "EISCONN", "EPROTO", "EBUSY", "ENOSYS", "ok", "fs",
            "fs_error"}

NewSession == [got_init |-> FALSE, got_destroy |-> FALSE, init_done |-> FALSE,
               capable |-> {}, want |-> {}, bufsize |-> FUSE_MAX_MAX_PAGES + 1,
               max_write |-> UINT_MAX_PAGES, max_readahead |-> UINT_MAX_PAGES]

NoReply == [offer |-> {}, minor |-> 0, readahead |-> 0, flags |-> {},
            max_write |-> 0, max_readahead |-> 0]

TypeOK ==
  /\ alive \in BOOLEAN
  /\ reg \in [Devices -> {"no", "yes", "gone"}]
  /\ has_se \in [Devices -> BOOLEAN]
  /\ se \in [Devices -> [got_init : BOOLEAN, got_destroy : BOOLEAN,
                         init_done : BOOLEAN, capable : SUBSET Caps,
                         want : SUBSET Caps,
                         bufsize : FUSE_MIN_READ_BUFFER .. FUSE_MAX_MAX_PAGES + 1,
                         max_write : Nat \ {0}, max_readahead : Nat]]
  /\ fs \in [Devices -> {"new", "up", "failed", "down"}]
  /\ inits \in [Devices -> 0 .. 2]
  /\ deferred \in [Devices -> 0 .. QueueDepth]
  /\ answer \in [Devices -> Results]
  /\ \A d \in Devices : reply[d].flags \in SUBSET Flags

Init ==
  /\ alive = TRUE
  /\ reg = [d \in Devices |-> "no"]
  /\ has_se = [d \in Devices |-> FALSE]
  /\ se = [d \in Devices |-> NewSession]
  /\ fs = [d \in Devices |-> "new"]
  /\ inits = [d \in Devices |-> 0]
  /\ deferred = [d \in Devices |-> 0]
  /\ answer = [d \in Devices |-> "none"]
  /\ reply = [d \in Devices |-> NoReply]

-----------------------------------------------------------------------------
(* Registration, by dpfs_hal_new and dpfs_hal_destroy *)

(* Without memory for the session the device is registered without one.    *)
register_dpfs_device(d) ==
  /\ alive /\ reg[d] = "no"
  /\ reg' = [reg EXCEPT ![d] = "yes"]
  /\ \/ has_se' = [has_se EXCEPT ![d] = TRUE]
     \/ UNCHANGED has_se
  /\ UNCHANGED <<alive, se, fs, inits, deferred, answer, reply>>

(* The HAL has drained the device (HalSnap!DestroyedDrained).  at() throws *)
(* when there is no session.                                               *)
unregister_dpfs_device(d) ==
  /\ alive /\ reg[d] = "yes" /\ deferred[d] = 0
  /\ IF has_se[d]
     THEN /\ has_se' = [has_se EXCEPT ![d] = FALSE]
          /\ reg' = [reg EXCEPT ![d] = "gone"]
          /\ UNCHANGED alive
     ELSE /\ alive' = FALSE
          /\ UNCHANGED <<has_se, reg>>
  /\ UNCHANGED <<se, fs, inits, deferred, answer, reply>>

Polled(d) == alive /\ reg[d] = "yes"

(* f_ll->se.at(device_id) without a session: the process terminates. *)
NoSession(d) ==
  /\ Polled(d) /\ ~has_se[d]
  /\ alive' = FALSE
  /\ UNCHANGED <<reg, has_se, se, fs, inits, deferred, answer, reply>>

Answers(d, res) == answer' = [answer EXCEPT ![d] = res]

-----------------------------------------------------------------------------
(* INIT *)

MinOf(a, b) == IF a <= b THEN a ELSE b

Capable(offer, minor) ==
  (IF minor >= 6 THEN offer \cap Understood ELSE {})
    \cup (IF minor >= 18 THEN {"IOCTL_DIR"} ELSE {})

(* LL_SET_DEFAULT *)
Defaults == {"ASYNC_READ", "PARALLEL_DIROPS", "HANDLE_KILLPRIV", "ASYNC_DIO",
             "IOCTL_DIR", "ATOMIC_O_TRUNC", "FLOCK_LOCKS", "READDIRPLUS",
             "READDIRPLUS_AUTO"}

(* Mutant: the header is added again with every INIT. *)
BufsizeAgain(s, offer, minor) == s.bufsize + 1

Bufsize(s, offer, minor) ==
  LET limit == FUSE_DEFAULT_MAX_PAGES_PER_REQ + 1
      size == IF minor >= 6 /\ "MAX_PAGES" \notin offer
              THEN MinOf(s.bufsize, limit) ELSE s.bufsize
  IN IF size < FUSE_MIN_READ_BUFFER THEN FUSE_MIN_READ_BUFFER ELSE size

(* Mutant: the answer of the kernel replaces the limit of earlier ones. *)
ReadaheadReplaced(s, minor, readahead) == IF minor >= 6 THEN readahead ELSE 0

Readahead(s, minor, readahead) ==
  IF minor >= 6 THEN MinOf(readahead, s.max_readahead) ELSE 0

(* The session as fuse_ll_init sets it up before it calls the init of the  *)
(* file system.  Nothing ever resets got_destroy, or init_done.            *)
Negotiated(s, offer, minor, readahead) ==
  LET capable == Capable(offer, minor)
      bufsize == Bufsize(s, offer, minor)
  IN [s EXCEPT !.got_init = TRUE,
               !.capable = capable,
               !.want = capable \cap Defaults,
               !.bufsize = bufsize,
               !.max_write = MinOf(@, bufsize - 1),
               !.max_readahead = Readahead(s, minor, readahead)]

(* The capabilities that have a flag in the reply. *)
Echoed == {"ASYNC_READ", "POSIX_LOCKS", "ATOMIC_O_TRUNC", "EXPORT_SUPPORT",
           "DONT_MASK", "FLOCK_LOCKS", "AUTO_INVAL_DATA", "READDIRPLUS",
           "READDIRPLUS_AUTO", "ASYNC_DIO", "WRITEBACK_CACHE", "POSIX_ACL",
           "CACHE_SYMLINKS", "EXPLICIT_INVAL_DATA"}

InitReply(s, offer, minor, readahead) ==
  [offer |-> offer, minor |-> minor, readahead |-> readahead,
   flags |-> (s.want \cap Echoed) \cup {"BIG_WRITES"} \cup (offer \cap {"MAX_PAGES"}),
   max_write |-> s.max_write, max_readahead |-> s.max_readahead]

(* Mutant: the capabilities are not compared. *)
FsInitUnchecked(d, s, offer, minor, readahead) ==
  \E asks \in FsAsks :
    LET t == [s EXCEPT !.init_done = TRUE, !.want = @ \cup asks]
    IN /\ fs' = [fs EXCEPT ![d] = "up"]
       /\ inits' = [inits EXCEPT ![d] = MinOf(@ + 1, 2)]
       /\ se' = [se EXCEPT ![d] = t]
       /\ reply' = [reply EXCEPT ![d] = InitReply(t, offer, minor, readahead)]
       /\ Answers(d, "ok")

(* The init of the file system succeeds and wants more, or fails. *)
FsInit(d, s, offer, minor, readahead) ==
  \/ \E asks \in FsAsks :
       LET t == [s EXCEPT !.init_done = TRUE, !.want = @ \cup asks]
       IN /\ fs' = [fs EXCEPT ![d] = "up"]
          /\ inits' = [inits EXCEPT ![d] = MinOf(@ + 1, 2)]
          /\ IF t.want \subseteq t.capable
             THEN /\ se' = [se EXCEPT ![d] = t]
                  /\ reply' = [reply EXCEPT ![d] =
                                 InitReply(t, offer, minor, readahead)]
                  /\ Answers(d, "ok")
             ELSE /\ se' = [se EXCEPT ![d] = [t EXCEPT !.got_destroy = TRUE]]
                  /\ Answers(d, "EPROTO")
                  /\ UNCHANGED reply
  \/ /\ fs' = [fs EXCEPT ![d] = "failed"]
     /\ se' = [se EXCEPT ![d] = [s EXCEPT !.got_destroy = TRUE]]
     /\ Answers(d, "fs_error")
     /\ UNCHANGED <<inits, reply>>

(* Mutant: a connected session is not refused. *)
ConnectedNever(s) == FALSE

Connected(s) == s.got_init /\ ~s.got_destroy

(* Major 7; with an older major the answer is EPROTO, with a newer one the *)
(* version, so that the kernel tries again.                                *)
fuse_ll_init(d) ==
  /\ Polled(d) /\ has_se[d]
  /\ \/ /\ Answers(d, "EINVAL")                 \* number of iovecs
        /\ UNCHANGED <<se, fs, inits, reply>>
     \/ /\ Connected(se[d])
        /\ Answers(d, "EISCONN")
        /\ UNCHANGED <<se, fs, inits, reply>>
     \/ /\ ~Connected(se[d])
        /\ \E res \in {"EPROTO", "ok"} : Answers(d, res)
        /\ se' = [se EXCEPT ![d] = [@ EXCEPT !.capable = {}, !.want = {}]]
        /\ UNCHANGED <<fs, inits, reply>>
     \/ /\ ~Connected(se[d])
        /\ \E offer \in Offers, minor \in Minors, readahead \in Readaheads :
             FsInit(d, Negotiated(se[d], offer, minor, readahead),
                    offer, minor, readahead)
  /\ UNCHANGED <<alive, reg, has_se, deferred>>

fuse_ll_destroy(d) ==
  /\ Polled(d) /\ has_se[d]
  /\ \/ /\ Answers(d, "EINVAL")
        /\ UNCHANGED <<se, fs, inits>>
     \/ /\ se' = [se EXCEPT ![d].got_destroy = TRUE]
        /\ fs' = [fs EXCEPT ![d] = "down"]
        /\ inits' = [inits EXCEPT ![d] = 0]
        /\ Answers(d, "ok")
  /\ UNCHANGED <<alive, reg, has_se, deferred, reply>>

-----------------------------------------------------------------------------
(* The other requests *)

NodeOps   == {"LOOKUP", "SETATTR", "CREATE"}
MakeOps   == {"MKNOD", "MKDIR", "SYMLINK"}
LockOps   == {"SETLK", "SETLKW"}
SyncOps   == {"RELEASE", "FSYNC", "FSYNCDIR"}
RenameOps == {"RENAME", "RENAME2"}
ListOps   == {"READDIR", "READDIRPLUS"}
DataOps   == {"READ", "WRITE"}
Forgets   == {"FORGET", "BATCH_FORGET"}

TwoInTwoOut == NodeOps \cup MakeOps \cup {"GETATTR", "OPENDIR", "OPEN"}
TwoInOneOut == LockOps \cup SyncOps \cup RenameOps
                 \cup {"FLUSH", "RELEASEDIR", "RMDIR", "UNLINK", "FALLOCATE"}
Mapped      == TwoInTwoOut \cup TwoInOneOut \cup Forgets \cup ListOps
                 \cup DataOps \cup {"STATFS"}
(* READLINK is mapped but only a stub; the others map to fuse_unknown. *)
Unknown     == {"READLINK", "GETLK", "LSEEK"}
(* 0, or more than DPFS_FUSE_MAX_OPCODE. *)
OutOfRange  == {"INVALID"}

ASSUME FuseAssumption == /\ QueueDepth \in Nat \ {0}
                         /\ Offers \in SUBSET SUBSET Flags
                         /\ Minors \in SUBSET Nat
                         /\ Readaheads \in SUBSET Nat
                         /\ Opcodes \in SUBSET (Mapped \cup Unknown \cup OutOfRange)
                         /\ FsAsks \in SUBSET SUBSET Caps

(* The iovecs a handler accepts.  READDIR asks for one of the two only.    *)
Accepted(op, in, out) ==
  \/ op \in TwoInTwoOut /\ in = 2 /\ out = 2
  \/ op \in TwoInOneOut /\ in = 2 /\ out = 1
  \/ op \in Forgets /\ in = 1 /\ out = 0
  \/ op = "STATFS" /\ in = 1 /\ out = 2
  \/ op \in ListOps /\ (in > 1 \/ out > 1)
  \/ op = "READ" /\ in = 2 /\ out >= 2
  \/ op = "WRITE" /\ in >= 2 /\ out = 2

(* The operation of the file system a handler calls. *)
OpOf(op) == CASE op \in LockOps -> "FLOCK"
              [] op = "RENAME2" -> "RENAME"
              [] op = "READDIRPLUS" -> "READDIR"
              [] OTHER -> op

(* Mutant: requests are not refused while the file system is not ready. *)
ResultUnready(d, op, in, out, sized, flock) ==
  IF in < 1 \/ op \in OutOfRange THEN "EINVAL"
  ELSE IF op \in Unknown THEN "ENOSYS"
  ELSE IF ~Accepted(op, in, out) THEN "EINVAL"
  ELSE IF OpOf(op) \notin FsOps THEN "ENOSYS" ELSE "fs"

(* sized: the iovecs are as long as the read or the write says; flock: the *)
(* lock is one of flock(2).  fuse_handle_req itself asks for an input      *)
(* iovec (twice, and never for an output) and for an opcode in range.      *)
Result(d, op, in, out, sized, flock) ==
  IF in < 1 \/ op \in OutOfRange THEN "EINVAL"
  ELSE IF op \in Unknown THEN "ENOSYS"
  ELSE IF ~Accepted(op, in, out) THEN "EINVAL"
  ELSE IF op \in Forgets THEN IF op \in FsOps THEN "fs" ELSE "ok"
  ELSE IF ~se[d].init_done THEN "EBUSY"
  ELSE IF OpOf(op) = "FLOCK" /\ ~flock THEN "ENOSYS"
  ELSE IF OpOf(op) \notin FsOps THEN "ENOSYS"
  ELSE IF op \in DataOps /\ ~sized THEN "EINVAL"
  ELSE "fs"

(* Handlers that fill in the first output iovec without asking for one. *)
Unasked(op, in, out) ==
  /\ in >= 1 /\ out = 0
  /\ op \in Unknown \/ (op \in ListOps /\ in > 1)

(* fuse_handle_req.  The kernel forgets only what it has looked up.  A     *)
(* header written where no iovec is may end the process, or go unnoticed.  *)
fuse_handle_req(d, op) ==
  /\ Polled(d) /\ has_se[d] /\ deferred[d] < QueueDepth
  /\ op \in Forgets => fs[d] # "new"
  /\ \E in \in 0 .. 3, out \in 0 .. 3, sized \in BOOLEAN, flock \in BOOLEAN :
       \/ /\ Unasked(op, in, out)
          /\ alive' = FALSE
          /\ UNCHANGED <<answer, deferred>>
       \/ LET res == Result(d, op, in, out, sized, flock)
          IN /\ Answers(d, res)
             /\ \/ UNCHANGED deferred                 \* fully handled
                \/ /\ res = "fs" /\ op \notin Forgets \* EWOULDBLOCK
                   /\ deferred' = [deferred EXCEPT ![d] = @ + 1]
             /\ UNCHANGED alive
  /\ UNCHANGED <<reg, has_se, se, fs, inits, reply>>

(* The file system completes an operation it deferred. *)
FsCompletes(d) ==
  /\ alive /\ deferred[d] > 0
  /\ deferred' = [deferred EXCEPT ![d] = @ - 1]
  /\ UNCHANGED <<alive, reg, has_se, se, fs, inits, answer, reply>>

Next == \E d \in Devices :
          \/ register_dpfs_device(d) \/ unregister_dpfs_device(d) \/ NoSession(d)
          \/ fuse_ll_init(d) \/ fuse_ll_destroy(d)
          \/ \E op \in Opcodes : fuse_handle_req(d, op)
          \/ FsCompletes(d)

Spec == Init /\ [][Next]_vars

-----------------------------------------------------------------------------
(* Properties *)

(* fuse_ll_init never answers with a flag the kernel did not offer, nor    *)
(* with a write larger than its buffer, or than the 32 pages of a kernel   *)
(* without MAX_PAGES, whatever the file system asked for and whatever      *)
(* earlier mounts left in the session.                                     *)
InitReplySound ==
  \A d \in Devices :
    LET r == reply[d]
    IN r # NoReply =>
         /\ r.flags \subseteq r.offer \cup {"BIG_WRITES"}
         /\ r.max_write <= FUSE_MAX_MAX_PAGES
         /\ r.minor >= 6 /\ "MAX_PAGES" \notin r.offer =>
              r.max_write <= FUSE_DEFAULT_MAX_PAGES_PER_REQ

(* A session lives as long as its device: over remounts its limits only    *)
(* shrink, so that no kernel is ever given more than it can take.          *)
LimitsNeverGrow ==
  [][\A d \in Devices : /\ se'[d].bufsize <= se[d].bufsize
                        /\ se'[d].max_write <= se[d].max_write
                        /\ se'[d].max_readahead <= se[d].max_readahead]_vars

(* Until the first DESTROY (or failed INIT) of its device the file system  *)
(* is initialised once only: a second INIT is answered EISCONN.            *)
InitOnce == \A d \in Devices : ~se[d].got_destroy => inits[d] <= 1

(* No operation of the file system is called, or in flight, before its     *)
(* init has been called for the device.                                    *)
ServedAfterInit ==
  \A d \in Devices : deferred[d] > 0 \/ answer[d] = "fs" => fs[d] # "new"

=============================================================================
