------------------------------- MODULE Mirror -------------------------------
(***************************************************************************)
(* The inode table of the mirror file system, dpfs_uring/mirror_impl.c and *)
(* dpfs_uring/fuser.c: lookups, forgets, opens and unlinks of several      *)
(* devices on one struct fuser.  The HAL polls every device from one       *)
(* thread, so a thread runs one request of its host at a time; requests of *)
(* different threads meet at the table lock f->m, at the inode locks i->m, *)
(* and at the fields that are read without either.                         *)
(*                                                                         *)
(* A nodeid is the address of a struct inode.  Addresses are numbered in   *)
(* the order of inode_new and not used again, so an access to a freed      *)
(* inode is seen for what it is; it ends the behaviour.  An inode is       *)
(* inserted at the head of its chain, so a chain is in the order of        *)
(* falling addresses.  A file has one name (st_nlink is 1) and the root is *)
(* the only directory; generation numbers and attributes are left out.     *)
(***************************************************************************)
EXTENDS Naturals, FiniteSets

CONSTANTS Threads,        \* the polling threads, each with the host of its device
          Names, Inos,    \* of the source directory
          Foreign,        \* inode numbers do_lookup refuses: mount points, number 1
          Ops,            \* the operations the hosts use
          Cached,         \* f->timeout is not 0
          NBuckets, Hash, \* INODE_TABLE_SIZE, inode_table_hash
          NFds,           \* descriptors the process may have open (RLIMIT_NOFILE)
          MaxRequests,    \* bound: requests the hosts send in all
          None

ASSUME MirrorAssumption == /\ Foreign \subseteq Inos
                           /\ Cached \in BOOLEAN
                           /\ NFds \in Nat /\ MaxRequests \in Nat
                           /\ NBuckets \in Nat /\ Hash \in [Inos -> 0..(NBuckets - 1)]
                           /\ None \notin Threads \cup Inos \cup Nat

Addrs == 1..MaxRequests   \* a request allocates at most one inode
Fds == 1..NFds
Released == 0             \* the value -ENOENT of inode.fd
Root == 0                 \* the address of f->root

VARIABLES link,           \* source directory: the inode number behind a name
          fds,            \* descriptor table: the file a descriptor refers to
          table,          \* addresses of the inodes in the chains of f->inodes
          alive,          \* addresses of the inodes that are not freed
          nalloc,         \* calls of inode_new so far
          inode,          \* contents of the struct inode at an address
          fm, im,         \* who holds f->m and the i->m
          th,             \* the request a thread works on
          refs, handles,  \* per host: lookups and open files it holds
          sent,           \* requests sent so far
          raced,          \* a lookup counted on an inode with no reference left
          cleared,        \* a DESTROY came upon inodes
          ended           \* how the process ended: "no", "exit", "freed", "reread"

mirrorVars == <<link, fds, table, alive, nalloc, inode, fm, im, th, refs, handles, sent,
                raced, cleared, ended>>
hostVars == <<refs, handles>>
flagVars == <<sent, raced, cleared, ended>>

InodeRec == [ino : Inos \cup {None}, fd : Fds \cup {Released, None},
             nlookup : Nat, nopen : Nat]
NoRequest == [pc |-> "idle", op |-> None, name |-> None, nd |-> None, ino |-> None,
              fd |-> None, fh |-> None, cnt |-> 0, next |-> None]

TypeOK == /\ link \in [Names -> Inos \cup {None}]
          /\ fds \in [Fds -> Inos \cup {None}]
          /\ nalloc \in 0..MaxRequests /\ table \subseteq 1..nalloc /\ alive \subseteq 1..nalloc
          /\ inode \in [Addrs -> InodeRec]
          /\ fm \in Threads \cup {None}
          /\ im \in [Addrs \cup {Root} -> Threads \cup {None}]
          /\ \A t \in Threads : /\ th[t].nd \in Addrs \cup {None}
                                /\ th[t].fd \in Fds \cup {Released, None}
                                /\ refs[t] \in [Addrs -> Nat]
                                /\ handles[t] \subseteq [nd : Addrs, fh : Fds]

Init == /\ link \in [Names -> Inos \cup {None}]
        /\ \A m, n \in Names : link[m] = link[n] /\ link[m] # None => m = n
        /\ fds = [n \in Fds |-> None]
        /\ table = {} /\ alive = {} /\ nalloc = 0
        /\ inode = [a \in Addrs |-> [ino |-> None, fd |-> None, nlookup |-> 0, nopen |-> 0]]
        /\ fm = None /\ im = [a \in Addrs \cup {Root} |-> None]
        /\ th = [t \in Threads |-> NoRequest]
        /\ refs = [t \in Threads |-> [a \in Addrs |-> 0]]
        /\ handles = [t \in Threads |-> {}]
        /\ sent = 0 /\ raced = FALSE /\ cleared = FALSE /\ ended = "no"

-----------------------------------------------------------------------------
(* Descriptors: open takes the lowest free number, close frees it. *)
FreeFds == {n \in Fds : fds[n] = None}
NewFd == CHOOSE n \in FreeFds : \A m \in FreeFds : n <= m
Closed(n) == IF n \in Fds THEN [fds EXCEPT ![n] = None] ELSE fds
InUse(i) == (\E n \in Names : link[n] = i) \/ (\E n \in Fds : fds[n] = i)

At(t, label) == ended = "no" /\ th[t].pc = label
Goto(t, label) == th' = [th EXCEPT ![t].pc = label]
Idle(t) == th' = [th EXCEPT ![t] = NoRequest]

(* The lock of the directory that readdir holds across do_lookup. *)
UnlockedDir(t) == IF th[t].op = "readdirplus" THEN [im EXCEPT ![Root] = None] ELSE im

(* An access through a pointer to a freed inode. *)
Freed(a) == a \notin alive
TouchFreed(t) == /\ ended' = "freed"
                 /\ UNCHANGED <<link, fds, table, alive, nalloc, inode, fm, im, th, hostVars,
                                sent, raced, cleared>>

-----------------------------------------------------------------------------
(* What a host may ask for.  It uses nodeids it holds a lookup on, closes the *)
(* files it opened, and forgets a nodeid when it has no open file of it.      *)
Send(t, rec) == /\ ended = "no" /\ th[t].pc = "idle" /\ sent < MaxRequests
                /\ rec.op \in Ops
                /\ th' = [th EXCEPT ![t] = rec]
                /\ sent' = sent + 1
                /\ UNCHANGED <<link, fds, table, alive, nalloc, inode, fm, im, raced, cleared, ended>>

(* fuser_mirror_lookup and the calls that are do_lookup after a system call. *)
SendByName(t) == /\ \E op \in {"lookup", "unlink", "create", "mknod", "readdirplus"}, n \in Names :
                      Send(t, [NoRequest EXCEPT !.op = op, !.name = n,
                               !.pc = CASE op = "create" -> "cr_open"
                                        [] op = "mknod" -> "mk_node"
                                        [] op = "readdirplus" -> "rd_lock"
                                        [] op = "unlink" /\ Cached -> "ul_unlinkat"
                                        [] OTHER -> "lk_open"])
                 /\ UNCHANGED hostVars

(* open, and the calls that use the descriptor of an inode: setattr, statfs, opendir. *)
SendByNode(t) == /\ \E op \in {"open", "setattr"}, a \in Addrs :
                      /\ refs[t][a] > 0
                      /\ Send(t, [NoRequest EXCEPT !.op = op, !.nd = a, !.pc = "use_read"])
                 /\ UNCHANGED hostVars

SendForget(t) == \E a \in Addrs :
                   /\ refs[t][a] > 0
                   /\ \A h \in handles[t] : h.nd # a
                   /\ Send(t, [NoRequest EXCEPT !.op = "forget", !.nd = a, !.pc = "fg_count",
                               !.cnt = refs[t][a]])
                   /\ refs' = [refs EXCEPT ![t][a] = 0]
                   /\ UNCHANGED handles

SendRelease(t) == \E h \in handles[t] :
                    /\ Send(t, [NoRequest EXCEPT !.op = "release", !.nd = h.nd, !.pc = "rl_count",
                                !.fh = h.fh])
                    /\ handles' = [handles EXCEPT ![t] = @ \ {h}]
                    /\ UNCHANGED refs

(* The host unmounts: it has closed and forgotten everything. *)
SendDestroy(t) == /\ handles[t] = {} /\ \A a \in Addrs : refs[t][a] = 0
                  /\ Send(t, [NoRequest EXCEPT !.op = "destroy", !.pc = "ds_bucket"])
                  /\ UNCHANGED hostVars

-----------------------------------------------------------------------------
(* do_lookup. *)

(* What the callers make of a reference: a nodeid for the host, or their own use. *)
AfterLookup(t, a) ==
  /\ th' = [th EXCEPT ![t] = CASE @.op = "unlink" -> [@ EXCEPT !.pc = "ul_release", !.fd = None]
                               [] @.op = "create" -> [@ EXCEPT !.pc = "cr_count", !.fd = None]
                               [] @.op = "readdirplus" -> [@ EXCEPT !.pc = "rd_entry", !.fd = None]
                               [] OTHER -> NoRequest]
  /\ refs' = IF th[t].op \in {"lookup", "mknod"} THEN [refs EXCEPT ![t][a] = @ + 1] ELSE refs

(* An error return; the descriptor that create has opened stays open. *)
LookupFails(t) == /\ Idle(t) /\ im' = UnlockedDir(t)

(* openat(O_PATH) and fstatat: newfd; refused files leave it open. *)
LkOpen(t) ==
  /\ At(t, "lk_open")
  /\ LET i == link[th[t].name] IN
       \/ LookupFails(t) /\ UNCHANGED fds
       \/ /\ i # None /\ FreeFds # {}
          /\ fds' = [fds EXCEPT ![NewFd] = i]
          /\ \/ i \in Foreign /\ LookupFails(t)
             \/ /\ i \notin Foreign
                /\ th' = [th EXCEPT ![t].pc = "lk_table", ![t].fd = NewFd, ![t].ino = i]
                /\ UNCHANGED im
  /\ UNCHANGED <<link, table, alive, nalloc, inode, fm, hostVars, flagVars>>

(* The chain of a number, and what a walk for the number comes by in it. *)
Chain(b) == {a \in table : Hash[inode[a].ino] = b}
Known(i) == {a \in table : inode[a].ino = i}
Walked(i) == {a \in Chain(Hash[i]) : \A k \in Known(i) : k <= a}

(* inode_table_getsert under f->m: the inode with that number, or a new one. *)
LkTable(t) ==
  /\ At(t, "lk_table") /\ fm = None
  /\ LET i == th[t].ino IN
       \/ (\E a \in Walked(i) : Freed(a)) /\ TouchFreed(t)
       \/ /\ Walked(i) \subseteq alive
          /\ \/ \E a \in Known(i) :
                  /\ th' = [th EXCEPT ![t].nd = a,
                                      ![t].pc = IF inode[a].fd \in Fds THEN "lk_known" ELSE "lk_new"]
                  /\ fm' = IF inode[a].fd \in Fds THEN None ELSE t
                  /\ UNCHANGED <<table, alive, nalloc, inode, im>>
             \/ /\ Known(i) = {}
                /\ nalloc' = nalloc + 1
                /\ table' = table \cup {nalloc + 1}
                /\ alive' = alive \cup {nalloc + 1}
                /\ inode' = [inode EXCEPT ![nalloc + 1] = [ino |-> i, fd |-> None, nlookup |-> 0, nopen |-> 0]]
                /\ th' = [th EXCEPT ![t].nd = nalloc + 1, ![t].pc = "lk_new"]
                /\ fm' = t
                /\ UNCHANGED im
             \/ (* inode_new fails: ENOMEM, and f->m stays locked. *)
                /\ Known(i) = {} /\ "enomem" \in Ops
                /\ fm' = t
                /\ LookupFails(t)
                /\ UNCHANGED <<table, alive, nalloc, inode>>
          /\ UNCHANGED <<link, fds, hostVars, flagVars>>

(* Mutant: nlookup++ is forgotten on a known inode. *)
LkKnownUncounted(t) ==
  LET a == th[t].nd IN
  /\ At(t, "lk_known")
  /\ \/ Freed(a) /\ TouchFreed(t)
     \/ /\ ~Freed(a) /\ im[a] = None
        /\ raced' = (raced \/ inode[a].nlookup = 0)
        /\ UNCHANGED inode
        /\ fds' = Closed(th[t].fd)
        /\ AfterLookup(t, a)
        /\ UNCHANGED <<link, table, alive, nalloc, fm, im, handles, sent, cleared, ended>>

(* The inode is known: f->m is free again, the inode lock not yet taken. *)
LkKnown(t) ==
  LET a == th[t].nd IN
  /\ At(t, "lk_known")
  /\ \/ Freed(a) /\ TouchFreed(t)
     \/ /\ ~Freed(a) /\ im[a] = None
        /\ raced' = (raced \/ inode[a].nlookup = 0)
        /\ inode' = [inode EXCEPT ![a].nlookup = @ + 1]
        /\ fds' = Closed(th[t].fd)
        /\ AfterLookup(t, a)
        /\ UNCHANGED <<link, table, alive, nalloc, fm, im, handles, sent, cleared, ended>>

(* Mutant: a recycled inode starts with one lookup. *)
LkNewResets(t) ==
  LET a == th[t].nd IN
  /\ At(t, "lk_new")
  /\ \/ Freed(a) /\ TouchFreed(t)
     \/ /\ ~Freed(a) /\ im[a] = None
        /\ inode' = [inode EXCEPT ![a].nlookup = 1, ![a].fd = th[t].fd]
        /\ fm' = None
        /\ AfterLookup(t, a)
        /\ UNCHANGED <<link, fds, table, alive, nalloc, im, handles, flagVars>>

(* A new or a recycled inode: the inode lock is taken while f->m is held. *)
LkNew(t) ==
  LET a == th[t].nd IN
  /\ At(t, "lk_new")
  /\ \/ Freed(a) /\ TouchFreed(t)
     \/ /\ ~Freed(a) /\ im[a] = None
        /\ inode' = [inode EXCEPT ![a].nlookup = @ + 1, ![a].fd = th[t].fd]
        /\ fm' = None
        /\ AfterLookup(t, a)
        /\ UNCHANGED <<link, fds, table, alive, nalloc, im, handles, flagVars>>

-----------------------------------------------------------------------------
(* forget_one. *)

AfterForget(t) == CASE th[t].op = "unlink" -> Goto(t, "ul_unlinkat") /\ UNCHANGED im
                    [] th[t].op = "readdirplus" -> Idle(t) /\ im' = UnlockedDir(t)
                    [] OTHER -> Idle(t) /\ UNCHANGED im

FgCount(t) ==
  LET a == th[t].nd IN
  /\ At(t, "fg_count")
  /\ \/ Freed(a) /\ TouchFreed(t)
     \/ /\ ~Freed(a) /\ im[a] = None
        /\ UNCHANGED <<link, fds, table, alive, nalloc, fm, hostVars, sent, raced, cleared>>
        /\ \/ /\ th[t].cnt > inode[a].nlookup
              /\ ended' = "exit"
              /\ UNCHANGED <<inode, im, th>>
           \/ /\ th[t].cnt <= inode[a].nlookup
              /\ inode' = [inode EXCEPT ![a].nlookup = @ - th[t].cnt]
              /\ IF inode[a].nlookup = th[t].cnt
                   THEN im' = [im EXCEPT ![a] = t] /\ Goto(t, "fg_erase")
                   ELSE AfterForget(t)
              /\ UNCHANGED ended

(* No reference is left: take f->m, let go of the inode ... *)
FgErase(t) ==
  LET a == th[t].nd IN
  /\ At(t, "fg_erase") /\ fm = None
  /\ \/ Freed(a) /\ TouchFreed(t)
     \/ /\ ~Freed(a)
        /\ fm' = t
        /\ im' = [im EXCEPT ![a] = None]
        /\ Goto(t, "fg_free")
        /\ UNCHANGED <<link, fds, table, alive, nalloc, inode, hostVars, flagVars>>

(* ... and inode_table_erase by its number: inode_destroy of the inode that the walk finds. *)
FgFree(t) ==
  LET a == th[t].nd
      i == inode[a].ino IN
  /\ At(t, "fg_free")
  /\ \/ (Freed(a) \/ \E b \in Walked(i) : Freed(b)) /\ TouchFreed(t)
     \/ /\ ~Freed(a) /\ Walked(i) \subseteq alive
        /\ \/ \E b \in Known(i) : /\ table' = table \ {b} /\ alive' = alive \ {b}
                                 /\ fds' = Closed(inode[b].fd)
           \/ Known(i) = {} /\ UNCHANGED <<table, alive, fds>>
        /\ fm' = None
        /\ Goto(t, "fg_test")
        /\ UNCHANGED <<link, nalloc, inode, im, hostVars, flagVars>>

(* The test of i->nlookup that follows reads the block that was just freed.  It finds the 0 left   *)
(* there, or, if the block is in use again, anything: then a lock that is not the thread's is     *)
(* unlocked, and the behaviour ends.                                                              *)
FgTest(t) ==
  LET a == th[t].nd IN
  /\ At(t, "fg_test")
  /\ \/ /\ Freed(a) \/ inode[a].nlookup = 0
        /\ AfterForget(t)
        /\ UNCHANGED <<link, fds, table, alive, nalloc, inode, fm, hostVars, flagVars>>
     \/ /\ Freed(a) \/ inode[a].nlookup # 0
        /\ ended' = "reread"
        /\ UNCHANGED <<link, fds, table, alive, nalloc, inode, fm, im, th, hostVars, sent, raced, cleared>>

-----------------------------------------------------------------------------
(* unlink. *)

UlRelease(t) ==
  LET a == th[t].nd IN
  /\ At(t, "ul_release")
  /\ \/ Freed(a) /\ TouchFreed(t)
     \/ /\ ~Freed(a) /\ im[a] = None
        /\ IF inode[a].fd \in Fds /\ inode[a].nopen = 0
             THEN im' = [im EXCEPT ![a] = t] /\ Goto(t, "ul_close")
             ELSE th' = [th EXCEPT ![t].pc = "fg_count", ![t].cnt = 1] /\ UNCHANGED im
        /\ UNCHANGED <<link, fds, table, alive, nalloc, inode, fm, hostVars, flagVars>>

(* Mutant: the number stays in the inode after close. *)
UlCloseKeepsFd(t) ==
  LET a == th[t].nd IN
  /\ At(t, "ul_close") /\ fm = None
  /\ \/ Freed(a) /\ TouchFreed(t)
     \/ /\ ~Freed(a)
        /\ fds' = Closed(inode[a].fd)
        /\ UNCHANGED inode
        /\ im' = [im EXCEPT ![a] = None]
        /\ th' = [th EXCEPT ![t].pc = "fg_count", ![t].cnt = 1]
        /\ UNCHANGED <<link, table, alive, nalloc, fm, hostVars, flagVars>>

(* Mutant: the inode stays locked. *)
UlCloseLocked(t) ==
  LET a == th[t].nd IN
  /\ At(t, "ul_close") /\ fm = None
  /\ \/ Freed(a) /\ TouchFreed(t)
     \/ /\ ~Freed(a)
        /\ fds' = Closed(inode[a].fd)
        /\ inode' = [inode EXCEPT ![a].fd = Released]
        /\ UNCHANGED im
        /\ th' = [th EXCEPT ![t].pc = "fg_count", ![t].cnt = 1]
        /\ UNCHANGED <<link, table, alive, nalloc, fm, hostVars, flagVars>>

(* The descriptor is released before the last unlink; the inode is kept. *)
UlClose(t) ==
  LET a == th[t].nd IN
  /\ At(t, "ul_close") /\ fm = None
  /\ \/ Freed(a) /\ TouchFreed(t)
     \/ /\ ~Freed(a)
        /\ fds' = Closed(inode[a].fd)
        /\ inode' = [inode EXCEPT ![a].fd = Released]
        /\ im' = [im EXCEPT ![a] = None]
        /\ th' = [th EXCEPT ![t].pc = "fg_count", ![t].cnt = 1]
        /\ UNCHANGED <<link, table, alive, nalloc, fm, hostVars, flagVars>>

(* unlinkat, which may fail after the descriptor was released. *)
UlUnlinkat(t) ==
  /\ At(t, "ul_unlinkat")
  /\ link' = [link EXCEPT ![th[t].name] = None] \/ UNCHANGED link
  /\ Idle(t)
  /\ UNCHANGED <<fds, table, alive, nalloc, inode, fm, im, hostVars, flagVars>>

-----------------------------------------------------------------------------
(* open, release, create and what else reads i->fd without the lock. *)

(* ino_to_inodeptr refuses an inode without a descriptor. *)
UseRead(t) ==
  LET a == th[t].nd IN
  /\ At(t, "use_read")
  /\ \/ Freed(a) /\ TouchFreed(t)
     \/ /\ ~Freed(a)
        /\ IF inode[a].fd = None THEN Idle(t)
                                 ELSE th' = [th EXCEPT ![t].fd = inode[a].fd, ![t].pc = "use_fd"]
        /\ UNCHANGED <<link, fds, table, alive, nalloc, inode, fm, im, hostVars, flagVars>>

(* open of /proc/self/fd/N: a handle of the file that the number names by now. *)
OpOpen(t) ==
  LET n == th[t].fd IN
  /\ At(t, "use_fd") /\ th[t].op = "open"
  /\ \/ Idle(t) /\ UNCHANGED fds
     \/ /\ n \in Fds /\ fds[n] # None /\ FreeFds # {}
        /\ fds' = [fds EXCEPT ![NewFd] = fds[n]]
        /\ th' = [th EXCEPT ![t].fh = NewFd, ![t].pc = "op_count"]
  /\ UNCHANGED <<link, table, alive, nalloc, inode, fm, im, hostVars, flagVars>>

(* The system calls of setattr on the number; then i->fd is read again. *)
SaApply(t) ==
  LET a == th[t].nd IN
  /\ At(t, "use_fd") /\ th[t].op = "setattr"
  /\ \/ Freed(a) /\ TouchFreed(t)
     \/ /\ ~Freed(a)
        /\ Idle(t)
        /\ UNCHANGED <<link, fds, table, alive, nalloc, inode, fm, im, hostVars, flagVars>>

(* Mutant: nopen++ is forgotten. *)
CountOpenNot(t) ==
  LET a == th[t].nd IN
  \/ Freed(a) /\ TouchFreed(t)
  \/ /\ ~Freed(a) /\ im[a] = None
     /\ UNCHANGED inode
     /\ handles' = [handles EXCEPT ![t] = @ \cup {[nd |-> a, fh |-> th[t].fh]}]
     /\ refs' = IF th[t].op = "create" THEN [refs EXCEPT ![t][a] = @ + 1] ELSE refs
     /\ Idle(t)
     /\ UNCHANGED <<link, fds, table, alive, nalloc, fm, im, flagVars>>

CountOpen(t) ==
  LET a == th[t].nd IN
  \/ Freed(a) /\ TouchFreed(t)
  \/ /\ ~Freed(a) /\ im[a] = None
     /\ inode' = [inode EXCEPT ![a].nopen = @ + 1]
     /\ handles' = [handles EXCEPT ![t] = @ \cup {[nd |-> a, fh |-> th[t].fh]}]
     /\ refs' = IF th[t].op = "create" THEN [refs EXCEPT ![t][a] = @ + 1] ELSE refs
     /\ Idle(t)
     /\ UNCHANGED <<link, fds, table, alive, nalloc, fm, im, flagVars>>
OpCount(t) == At(t, "op_count") /\ CountOpen(t)
CrCount(t) == At(t, "cr_count") /\ CountOpen(t)

RlCount(t) ==
  LET a == th[t].nd IN
  /\ At(t, "rl_count")
  /\ \/ Freed(a) /\ TouchFreed(t)
     \/ /\ ~Freed(a) /\ im[a] = None
        /\ inode' = [inode EXCEPT ![a].nopen = @ - 1]
        /\ Goto(t, "rl_close")
        /\ UNCHANGED <<link, fds, table, alive, nalloc, fm, im, hostVars, flagVars>>
RlClose(t) == /\ At(t, "rl_close")
              /\ fds' = Closed(th[t].fh)
              /\ Idle(t)
              /\ UNCHANGED <<link, table, alive, nalloc, inode, fm, im, hostVars, flagVars>>

(* The source file system makes a file under a number that is not in use. *)
Makes(n) == IF link[n] # None THEN link' = link
            ELSE \E i \in Inos : ~InUse(i) /\ link' = [link EXCEPT ![n] = i]
CrOpen(t) ==
  /\ At(t, "cr_open")
  /\ \/ Idle(t) /\ UNCHANGED <<link, fds>>
     \/ /\ FreeFds # {} /\ Makes(th[t].name)
        /\ fds' = [fds EXCEPT ![NewFd] = link'[th[t].name]]
        /\ th' = [th EXCEPT ![t].fh = NewFd, ![t].pc = "lk_open"]
  /\ UNCHANGED <<table, alive, nalloc, inode, fm, im, hostVars, flagVars>>

(* make_something: mknod, mkdir and symlink fail on a name that exists. *)
MkNode(t) ==
  /\ At(t, "mk_node")
  /\ \/ Idle(t) /\ UNCHANGED link
     \/ link[th[t].name] = None /\ Makes(th[t].name) /\ Goto(t, "lk_open")
  /\ UNCHANGED <<fds, table, alive, nalloc, inode, fm, im, hostVars, flagVars>>

(* readdir with attributes, an entry at a time: the lock of the directory is held *)
(* over do_lookup, and over forget_one when the entry does not fit in the reply.  *)
RdLock(t) == /\ At(t, "rd_lock") /\ im[Root] = None
             /\ im' = [im EXCEPT ![Root] = t]
             /\ Goto(t, "lk_open")
             /\ UNCHANGED <<link, fds, table, alive, nalloc, inode, fm, hostVars, flagVars>>
(* Mutant: an entry that does not fit is not forgotten. *)
RdEntryKeeps(t) ==
  /\ At(t, "rd_entry")
  /\ \/ (* added to the reply *)
        /\ refs' = [refs EXCEPT ![t][th[t].nd] = @ + 1]
        /\ Idle(t) /\ im' = UnlockedDir(t)
     \/ (* buffer full *)
        /\ Idle(t) /\ im' = UnlockedDir(t)
        /\ UNCHANGED refs
  /\ UNCHANGED <<link, fds, table, alive, nalloc, inode, fm, handles, flagVars>>

RdEntry(t) ==
  /\ At(t, "rd_entry")
  /\ \/ (* added to the reply *)
        /\ refs' = [refs EXCEPT ![t][th[t].nd] = @ + 1]
        /\ Idle(t) /\ im' = UnlockedDir(t)
     \/ (* buffer full *)
        /\ th' = [th EXCEPT ![t].pc = "fg_count", ![t].cnt = 1]
        /\ UNCHANGED <<refs, im>>
  /\ UNCHANGED <<link, fds, table, alive, nalloc, inode, fm, handles, flagVars>>

(* fuser_mirror_rename of a name in the root. *)
Rename(t, m, n) ==
  /\ ended = "no" /\ th[t].pc = "idle" /\ sent < MaxRequests /\ "rename" \in Ops
  /\ link[m] # None /\ m # n
  /\ link' = [link EXCEPT ![n] = link[m], ![m] = None]
  /\ sent' = sent + 1
  /\ UNCHANGED <<fds, table, alive, nalloc, inode, fm, im, th, hostVars, raced, cleared, ended>>

(* fuser_mirror_destroy: inode_table_clear, without a lock, of every device's inodes, bucket by *)
(* bucket.  next is the head of the chain ...                                                   *)
Below(S, a) == {b \in S : b < a}
IsHead(S, n) == IF S = {} THEN n = None ELSE n \in S /\ \A b \in S : b <= n

DsBucket(t) ==
  /\ At(t, "ds_bucket")
  /\ IF th[t].cnt < NBuckets
       THEN /\ \E n \in Addrs \cup {None} :
                 /\ IsHead(Chain(th[t].cnt), n)
                 /\ th' = [th EXCEPT ![t].pc = "ds_inode", ![t].next = n]
            /\ cleared' = (cleared \/ Chain(th[t].cnt) # {})
       ELSE Idle(t) /\ UNCHANGED cleared
  /\ UNCHANGED <<link, fds, table, alive, nalloc, inode, fm, im, hostVars, sent, raced, ended>>

(* ... then for each inode: read its next, and close its descriptor ... *)
DsClose(t) ==
  LET a == th[t].next IN
  /\ At(t, "ds_inode") /\ a # None
  /\ \/ Freed(a) /\ TouchFreed(t)
     \/ /\ ~Freed(a)
        /\ \E n \in Addrs \cup {None} :
             /\ IsHead(Below(Chain(th[t].cnt), a), n)
             /\ th' = [th EXCEPT ![t].pc = "ds_free", ![t].nd = a, ![t].next = n]
        /\ fds' = Closed(inode[a].fd)
        /\ UNCHANGED <<link, table, alive, nalloc, inode, fm, im, hostVars, flagVars>>

(* ... and free it, while it is in the chain still ... *)
DsFree(t) ==
  LET a == th[t].nd IN
  /\ At(t, "ds_free")
  /\ \/ Freed(a) /\ TouchFreed(t)
     \/ /\ ~Freed(a)
        /\ alive' = alive \ {a}
        /\ Goto(t, "ds_inode")
        /\ UNCHANGED <<link, fds, table, nalloc, inode, fm, im, hostVars, flagVars>>

(* ... at last t->array[i] = NULL: what was inserted meanwhile is lost, and not freed. *)
DsClear(t) ==
  LET gone == Chain(th[t].cnt) IN
  /\ At(t, "ds_inode") /\ th[t].next = None
  /\ table' = table \ gone
  /\ cleared' = (cleared \/ gone # {})
  /\ th' = [th EXCEPT ![t].pc = "ds_bucket", ![t].cnt = @ + 1]
  /\ UNCHANGED <<link, fds, alive, nalloc, inode, fm, im, hostVars, sent, raced, ended>>

-----------------------------------------------------------------------------
Host(t) == \/ SendByName(t) \/ SendByNode(t) \/ SendForget(t) \/ SendRelease(t)
           \/ SendDestroy(t)
           \/ \E m, n \in Names : Rename(t, m, n)

Step(t) == \/ LkOpen(t) \/ LkTable(t) \/ LkKnown(t) \/ LkNew(t)
           \/ FgCount(t) \/ FgErase(t) \/ FgFree(t) \/ FgTest(t)
           \/ UlRelease(t) \/ UlClose(t) \/ UlUnlinkat(t)
           \/ UseRead(t) \/ OpOpen(t) \/ SaApply(t) \/ OpCount(t) \/ CrCount(t)
           \/ RlCount(t) \/ RlClose(t) \/ CrOpen(t) \/ MkNode(t)
           \/ RdLock(t) \/ RdEntry(t)
           \/ DsBucket(t) \/ DsClose(t) \/ DsFree(t) \/ DsClear(t)

Next == \E t \in Threads : Host(t) \/ Step(t)

Spec == Init /\ [][Next]_mirrorVars

-----------------------------------------------------------------------------
(* References a thread holds for itself, or has still to give back, on a. *)
Owed(t, a) == IF th[t].nd # a THEN 0
              ELSE CASE th[t].pc \in {"ul_release", "ul_close", "cr_count", "rd_entry"} -> 1
                     [] th[t].pc = "fg_count" -> th[t].cnt
                     [] OTHER -> 0
Holds(t, a) == refs[t][a] + Owed(t, a)
Pairs(s) == UNION {{t} \X s[t] : t \in Threads}
References(a) == Pairs([t \in Threads |-> 1..Holds(t, a)])

(* The files of a that a host has open, and the one whose count its release has still to take. *)
Opened(t, a) == {h \in [nd : {a}, fh : Fds] :
                   \/ h \in handles[t]
                   \/ th[t].pc = "rl_count" /\ th[t].nd = h.nd /\ th[t].fh = h.fh}
OpenFiles(a) == Pairs([t \in Threads |-> Opened(t, a)])

(* The lookup count of an inode that is not freed is exactly the lookups that the hosts hold on   *)
(* it and those that requests in progress hold or have to give back, and its open count the      *)
(* files the hosts have open: on every path of do_lookup, forget_one, unlink, create and         *)
(* readdir.  Also while a DESTROY frees inodes and after it no lookup is miscounted, and no open *)
(* file uncounted (two open files may then have the same number: the sets here take them as one).*)
CountsExact ==
  ended = "no" => \A a \in alive :
    /\ inode[a].nlookup = Cardinality(References(a))
    /\ inode[a].nopen >= Cardinality(OpenFiles(a))
    /\ ~cleared => inode[a].nopen = Cardinality(OpenFiles(a))

(* A nodeid that a host holds a lookup on is an inode in the table, and not freed, as long as no *)
(* lookup counted on an inode whose last reference a forget had just taken (the window of        *)
(* do_lookup between its two locks) and no DESTROY of another device came upon inodes.           *)
NodeidsAlive == ~raced /\ ~cleared =>
  \A t \in Threads, a \in Addrs : refs[t][a] > 0 => a \in table /\ a \in alive

(* No forget takes more lookups from an inode than were counted (exit in forget_one), and the    *)
(* first freed inode a thread comes upon is the one it looked up in that window, unless inodes   *)
(* were lost to such a lookup or to a DESTROY before; or it is the one that forget_one itself    *)
(* has just freed, and reads again ("reread").                                                   *)
EndsOnlyByRace ==
  /\ ended # "exit"
  /\ ended = "freed" => \/ raced \/ cleared
                         \/ \E t \in Threads : th[t].pc = "lk_known" /\ th[t].nd \notin alive

(* The descriptor of an inode in the table names the file of the inode, and the descriptor of    *)
(* an open file is open, although descriptors are closed and their numbers taken again by other  *)
(* threads: so a number that open or setattr read without a lock names another file only when    *)
(* the inode has let go of it since.  Only a DESTROY that comes upon inodes ends this: it closes *)
(* the descriptors of inodes that are still in the table.                                        *)
FdsNameTheirFiles ==
  ended = "no" /\ ~cleared =>
    /\ \A a \in table : inode[a].fd \in Fds => fds[inode[a].fd] = inode[a].ino
    /\ \A t \in Threads : \A h \in handles[t] : fds[h.fh] # None

WaitsFm(t) == th[t].pc \in {"fg_erase", "ul_close"}
LockCycle(t, u) == /\ ended = "no" /\ t # u
                   /\ th[t].pc = "lk_new" /\ fm = t
                   /\ WaitsFm(u) /\ th[u].nd = th[t].nd

(* do_lookup returned ENOMEM with f->m locked. *)
TableLockLost == \E t \in Threads : fm = t /\ th[t].pc \notin {"lk_new", "fg_free"}

(* do_lookup takes an inode lock while it holds f->m, against the order of the others. *)
CycleOnRecycled == \E t, u \in Threads : LockCycle(t, u) /\ inode[th[t].nd].fd = Released

(* As long as a request is in progress some thread can take a step, unless do_lookup returned    *)
(* ENOMEM with f->m locked, or two threads wait for each other on an inode that an unlink        *)
(* released and do_lookup recycles (its comment says that "no other thread has access to the     *)
(* inode mutex", which holds for new inodes only): no other order of the inode locks, f->m and   *)
(* the lock of the directory in readdir blocks the threads.                                      *)
SomeThreadRuns == /\ ended = "no" /\ ~TableLockLost /\ ~CycleOnRecycled
                  /\ \E t \in Threads : th[t].pc # "idle"
                  => \E t \in Threads : ENABLED Step(t)
=============================================================================
