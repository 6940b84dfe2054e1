--------------------------------- MODULE Kv ---------------------------------
(***************************************************************************)
(* dpfs_kv/main.cpp: a flat file system in two tables of RAMCloud, inode   *)
(* and data, both keyed by the hash of the file name.                      *)
(*                                                                         *)
(* lookup, getattr, read and write send RPCs and return EWOULDBLOCK; the   *)
(* ramcloud_poll thread runs completed() of an RPC when its response is    *)
(* in.  An RPC is sent by the constructor of its base class.  While that   *)
(* runs completed() is the one of the base class, and a response that is   *)
(* in is forgotten; from its return until the members are initialised      *)
(* completed() is the one of the class and uses members that are not: what *)
(* follows is undefined, and behaviours end there, unless the response is  *)
(* only forgotten.  setattr, mknod, unlink wait for their RPCs in the      *)
(* handler.  RAMCloud applies an RPC atomically or fails it without effect *)
(* (external).                                                             *)
(*                                                                         *)
(* Several guests may share the tables, so requests on a file overlap in   *)
(* any way.  Hashes of different names are taken to be different.          *)
(***************************************************************************)
EXTENDS FuseIov, SequencesExt

CONSTANTS Files, None,
          Requests,          \* numbers, in the order of delivery
          Sizes,             \* lengths of a write or a truncation
          NPollers,          \* polling threads of the HAL
          Workloads,         \* what the guests do: operations, and the files they are on
          DirentLen(_, _),   \* padded length of the entry of a file, plain or plus
          Iovecs             \* reply buffers of READDIR: where each iovec ends

ASSUME KvAssumption == None \notin Requests /\ IsFiniteSet(Files)

ASSUME IovecsAssumption ==
  /\ \A f \in Files, plus \in BOOLEAN : DirentLen(f, plus) \in Nat
  /\ \A ends \in Iovecs : /\ ends \in Seq(Nat)
                          /\ \A i, j \in 1 .. Len(ends) : i <= j => ends[i] <= ends[j]

VARIABLES workload,
          inode, data,             \* the tables
          handler, completions,    \* of HalContract
          op,                      \* the request's operation
          rpc,                     \* asynchronous RPCs
          poll,                    \* write whose finish() the poll thread is in
          early,                   \* requests a completion of which was forgotten
          ended,                   \* a completion ran on uninitialised members
          fs, mixed,               \* for the properties: the files after the answered
                                   \* requests, and the files where requests overlapped
          dir,                     \* an open directory: its enumerator, and its listing
          iov, copy                \* struct iov of a reply, and iov_write_buf in it

tables == <<inode, data>>
halVars == <<handler, completions>>
ghosts == <<early, fs, mixed>>
dirVars == <<dir, iov, copy>>
kvVars == <<workload, tables, halVars, op, rpc, poll, ghosts, ended, dirVars>>

Mutations == {"mknod", "unlink", "setattr", "write"}
NoOp == [kind |-> None, file |-> None, size |-> None, pc |-> "none", err |-> FALSE,
         firstDone |-> FALSE, inode |-> None, left |-> {}]
NewInode == [size |-> 0, mode |-> "new"]
Closed == [pc |-> "closed", todo |-> <<>>, plus |-> FALSE, off |-> 0, from |-> 0,
           listed |-> <<>>, cut |-> {}, passed |-> {}]
NoCopy == [ent |-> None, rem |-> 0]

(* A file that is not there, one that is empty, and one that was written. *)
FirstFiles == {[inode |-> None, data |-> None], [inode |-> NewInode, data |-> None]}
              \cup {[inode |-> [size |-> s, mode |-> "new"], data |-> s] : s \in Sizes}

Init == /\ workload \in Workloads
        /\ fs \in [Files -> FirstFiles]
        /\ \A f \in Files \ workload.files : fs[f].inode = None
        /\ inode = [f \in Files |-> fs[f].inode]
        /\ data = [f \in Files |-> fs[f].data]
        /\ handler = [r \in Requests |-> "queued"]
        /\ completions = [r \in Requests |-> 0]
        /\ op = [r \in Requests |-> NoOp]
        /\ rpc = {} /\ poll = None
        /\ early = {} /\ ended = FALSE /\ mixed = {}
        /\ dir = Closed /\ iov = iov_init(<<>>) /\ copy = NoCopy

-----------------------------------------------------------------------------
Answered(r) == handler[r] = "handled" \/ completions[r] > 0
InProgress(r) == handler[r] # "queued" /\ ~Answered(r)
Overlaps(f) == \E r \in Requests : InProgress(r) /\ op[r].file = f /\ op[r].kind \in Mutations

(* What an operation is to do to a file, in one step. *)
Effect(o, file) ==
  CASE o.kind = "mknod"   -> [file EXCEPT !.inode = NewInode]
    [] o.kind = "unlink"  -> [inode |-> None, data |-> None]
    [] o.kind = "setattr" /\ file.inode # None ->
         [file EXCEPT !.inode = IF o.size = None THEN [@ EXCEPT !.mode = "set"]
                                                 ELSE [@ EXCEPT !.size = o.size]]
    [] o.kind = "write" /\ file.inode # None ->
         [inode |-> [file.inode EXCEPT !.size = o.size], data |-> o.size]
    [] OTHER -> file

(* Bookkeeping for the properties when r is answered.  A write or unlink that failed may have *)
(* changed one table; the others that fail have no effect.                                    *)
Account(r, err) ==
  LET f == op[r].file IN
    /\ fs' = IF err THEN fs ELSE [fs EXCEPT ![f] = Effect(op[r], @)]
    /\ mixed' = IF err /\ op[r].kind \in {"write", "unlink"} THEN mixed \cup {f} ELSE mixed

(* The handler returns 0. *)
Return(r, err) == /\ handler' = [handler EXCEPT ![r] = "handled"]
                  /\ op' = [op EXCEPT ![r] = NoOp]
                  /\ Account(r, err)

(* dpfs_hal_async_complete *)
Complete(r, err) == /\ completions' = [completions EXCEPT ![r] = @ + 1]
                    /\ op' = [op EXCEPT ![r] = NoOp]
                    /\ Account(r, err)

At(r, pc) == op[r].pc = pc /\ handler[r] = "running"

(* A polling thread hands a request to its handler. *)
Deliver(r, kind, f, s) ==
  /\ kind \in workload.ops /\ f \in workload.files
  /\ handler[r] = "queued" /\ \A q \in Requests : q < r => handler[q] # "queued"
  /\ Cardinality({q \in Requests : handler[q] = "running"}) < NPollers
  /\ kind = "write" => s # None
  /\ kind \notin {"write", "setattr"} => s = None
  /\ handler' = [handler EXCEPT ![r] = "running"]
  /\ op' = [op EXCEPT ![r] = [NoOp EXCEPT !.kind = kind, !.file = f, !.size = s, !.pc = "start",
                                          !.left = {"inode", "data"}]]
  /\ mixed' = IF kind \in Mutations /\ Overlaps(f) THEN mixed \cup {f} ELSE mixed
  /\ UNCHANGED <<workload, tables, completions, rpc, poll, early, fs, dirVars>>

-----------------------------------------------------------------------------
(* Handlers that wait for their RPCs. *)

(* A name or a mode that is not a regular file is refused; then one write to the inode table. *)
Mknod(r) ==
  /\ At(r, "start") /\ op[r].kind = "mknod"
  /\ \/ inode' = [inode EXCEPT ![op[r].file] = NewInode] /\ Return(r, FALSE)
     \/ UNCHANGED inode /\ Return(r, TRUE)
  /\ UNCHANGED <<workload, data, completions, rpc, poll, early, dirVars>>

SetattrRead(r) ==
  /\ At(r, "start") /\ op[r].kind = "setattr"
  /\ \/ /\ inode[op[r].file] # None
        /\ op' = [op EXCEPT ![r].inode = inode[op[r].file], ![r].pc = "write"]
        /\ UNCHANGED <<handler, fs, mixed>>
     \/ Return(r, TRUE)   \* ENOENT, EIO
  /\ UNCHANGED <<workload, tables, completions, rpc, poll, early, dirVars>>

(* The inode that was read, with what valid names replaced. *)
SetattrWrite(r) ==
  /\ At(r, "write") /\ op[r].kind = "setattr"
  /\ \/ /\ inode' = [inode EXCEPT ![op[r].file] =
                       IF op[r].size = None THEN [op[r].inode EXCEPT !.mode = "set"]
                                            ELSE [op[r].inode EXCEPT !.size = op[r].size]]
        /\ Return(r, FALSE)
     \/ UNCHANGED inode /\ Return(r, TRUE)
  /\ UNCHANGED <<workload, data, completions, rpc, poll, early, dirVars>>

(* Two removals under way at once; the handler waits for both, and fails if one does. *)
UnlinkRemove(r, t) ==
  /\ At(r, "start") /\ op[r].kind = "unlink" /\ t \in op[r].left
  /\ \E ok \in BOOLEAN :
       /\ inode' = IF ok /\ t = "inode" THEN [inode EXCEPT ![op[r].file] = None] ELSE inode
       /\ data' = IF ok /\ t = "data" THEN [data EXCEPT ![op[r].file] = None] ELSE data
       /\ op' = [op EXCEPT ![r].left = @ \ {t}, ![r].err = @ \/ ~ok]
  /\ UNCHANGED <<workload, halVars, rpc, poll, ghosts, dirVars>>

UnlinkReturn(r) ==
  /\ At(r, "start") /\ op[r].kind = "unlink" /\ op[r].left = {}
  /\ Return(r, op[r].err)
  /\ UNCHANGED <<workload, tables, completions, rpc, poll, early, dirVars>>

-----------------------------------------------------------------------------
(* Handlers that return EWOULDBLOCK. *)

Rpc(r, t, wr) == [req |-> r, table |-> t, write |-> wr, st |-> "sent", val |-> None]

(* lookup, getattr: AsyncLookupOp, AsyncGetAttrOp; read: AsyncReadOp. *)
ReadSend(r) ==
  /\ At(r, "start") /\ op[r].kind \in {"getattr", "read"}
  /\ rpc' = rpc \cup {Rpc(r, IF op[r].kind = "read" THEN "data" ELSE "inode", FALSE)}
  /\ op' = [op EXCEPT ![r].pc = "base"]
  /\ UNCHANGED <<workload, tables, halVars, poll, ghosts, dirVars>>

(* The root directory is answered without an RPC; a write with an offset is refused. *)
AnswerAtOnce(r) ==
  /\ At(r, "start") /\ op[r].kind \in {"getattr", "write"}
  /\ handler' = [handler EXCEPT ![r] = "handled"]
  /\ op' = [op EXCEPT ![r] = NoOp]
  /\ UNCHANGED <<workload, tables, completions, rpc, poll, ghosts, dirVars>>

(* AsyncWriteOp: its base WriteRpc sends the data ... *)
WriteSend(r) ==
  /\ At(r, "start") /\ op[r].kind = "write"
  /\ rpc' = rpc \cup {Rpc(r, "data", TRUE)}
  /\ op' = [op EXCEPT ![r].pc = "base"]
  /\ UNCHANGED <<workload, tables, halVars, poll, ghosts, dirVars>>

(* The constructor of the base class returns. *)
BaseDone(r) ==
  /\ At(r, "base") \/ At(r, "member")
  /\ op' = [op EXCEPT ![r].pc = IF @ = "base" THEN "init" ELSE "member_init"]
  /\ UNCHANGED <<workload, tables, halVars, rpc, poll, ghosts, dirVars>>

(* ... and its member asyncGetAttr, after firstDone, the read of the inode. *)
WriteGetAttr(r) ==
  /\ At(r, "init") /\ op[r].kind = "write"
  /\ rpc' = rpc \cup {Rpc(r, "inode", FALSE)}
  /\ op' = [op EXCEPT ![r].pc = "member"]
  /\ UNCHANGED <<workload, tables, halVars, poll, ghosts, dirVars>>

(* The object is constructed. *)
Constructed(r) ==
  /\ \/ At(r, "init") /\ op[r].kind # "write"
     \/ At(r, "member_init")
  /\ op' = [op EXCEPT ![r].pc = "constructed"]
  /\ UNCHANGED <<workload, tables, halVars, rpc, poll, ghosts, dirVars>>

(* Mutant: the handler returns 0 while its RPCs are under way. *)
ReturnZero(r) ==
  /\ handler[r] = "running" /\ (op[r].pc = "constructed" \/ completions[r] > 0)
  /\ handler' = [handler EXCEPT ![r] = "handled"]
  /\ UNCHANGED <<workload, tables, completions, op, rpc, poll, ghosts, dirVars>>

ReturnDeferred(r) ==
  /\ handler[r] = "running" /\ (op[r].pc = "constructed" \/ completions[r] > 0)
  /\ handler' = [handler EXCEPT ![r] = "deferred"]
  /\ UNCHANGED <<workload, tables, completions, op, rpc, poll, ghosts, dirVars>>

(* RAMCloud applies an RPC, or fails it. *)
Apply(x) ==
  /\ x.st = "sent"
  /\ LET f == op[x.req].file IN
       \/ /\ x.write
          /\ data' = [data EXCEPT ![f] = op[x.req].size]
          /\ rpc' = (rpc \ {x}) \cup {[x EXCEPT !.st = "ok"]}
       \/ /\ ~x.write
          /\ rpc' = (rpc \ {x}) \cup {[x EXCEPT !.st = "ok", !.val =
                       IF x.table = "inode" THEN inode[f] ELSE data[f]]}
          /\ UNCHANGED data
       \/ /\ rpc' = (rpc \ {x}) \cup {[x EXCEPT !.st = "failed"]}
          /\ UNCHANGED data
  /\ UNCHANGED <<workload, inode, halVars, op, poll, ghosts, dirVars>>

-----------------------------------------------------------------------------
(* ramcloud_poll *)

(* completed() is still the one of the base class ... *)
InBase(x) == \/ op[x.req].pc = "base"
             \/ op[x.req].pc = "member" /\ x.table = "inode"
(* ... or already that of the class, whose members are not yet initialised. *)
Uninitialised(x) == \/ op[x.req].pc = "init"
                    \/ op[x.req].pc = "member_init" /\ x.table = "inode"
Ready(x) == x.st # "sent" /\ ~InBase(x) /\ ~Uninitialised(x)

(* done(0) of a write may find its firstDone false, and the constructor sets it to false again. *)
CompletedEarly(x) ==
  /\ poll = None /\ x.st # "sent"
  /\ InBase(x) \/ (Uninitialised(x) /\ x.write /\ x.st = "ok")
  /\ rpc' = rpc \ {x}
  /\ early' = early \cup {x.req}
  /\ UNCHANGED <<workload, tables, halVars, op, poll, fs, mixed, dirVars>>

(* Any out_hdr, completion_context, writeOp or firstDone. *)
CompletedUninitialised(x) ==
  /\ poll = None /\ x.st # "sent" /\ Uninitialised(x)
  /\ ended' = TRUE
  /\ UNCHANGED <<workload, tables, halVars, op, rpc, poll, ghosts, dirVars>>

CompletedRead(x) ==
  /\ poll = None /\ Ready(x) /\ op[x.req].kind # "write"
  /\ rpc' = rpc \ {x}
  /\ Complete(x.req, x.st = "failed")
  /\ UNCHANGED <<workload, tables, handler, poll, early, dirVars>>

(* AsyncWriteOp::done: the second one finishes. *)
Done(r, err, read) ==
  /\ op' = [op EXCEPT ![r].err = @ \/ err, ![r].inode = IF read # None THEN read ELSE @,
                      ![r].firstDone = TRUE]
  /\ poll' = IF op[r].firstDone THEN r ELSE None

(* Mutant: a failed RPC is only reported. *)
CompletedWriteSkips(x) ==
  /\ poll = None /\ Ready(x) /\ op[x.req].kind = "write"
  /\ rpc' = rpc \ {x}
  /\ IF x.st = "failed" THEN UNCHANGED <<op, poll>> ELSE Done(x.req, x.st = "failed" \/ (~x.write /\ x.val = None), x.val)
  /\ UNCHANGED <<workload, tables, halVars, ghosts, dirVars>>

(* completed() of AsyncWriteOp and of its AsyncGetAttr. *)
CompletedWrite(x) ==
  /\ poll = None /\ Ready(x) /\ op[x.req].kind = "write"
  /\ rpc' = rpc \ {x}
  /\ Done(x.req, x.st = "failed" \/ (~x.write /\ x.val = None), x.val)
  /\ UNCHANGED <<workload, tables, halVars, ghosts, dirVars>>

(* Mutant: a file never gets shorter. *)
FinishGrows(r) ==
  /\ poll = r
  /\ LET o == op[r] IN
       \/ /\ ~o.err
          /\ inode' = IF o.inode.size >= o.size THEN inode
                      ELSE [inode EXCEPT ![o.file] = [o.inode EXCEPT !.size = o.size]]
          /\ Complete(r, FALSE)
       \/ /\ ~o.err => o.inode.size # o.size
          /\ UNCHANGED inode
          /\ Complete(r, TRUE)
  /\ poll' = None
  /\ UNCHANGED <<workload, data, handler, rpc, early, dirVars>>

(* AsyncWriteOp::finish: the inode that was read goes back with the new size. *)
Finish(r) ==
  /\ poll = r
  /\ LET o == op[r] IN
       \/ /\ ~o.err
          /\ inode' = IF o.inode.size = o.size THEN inode
                      ELSE [inode EXCEPT ![o.file] = [o.inode EXCEPT !.size = o.size]]
          /\ Complete(r, FALSE)
       \/ /\ ~o.err => o.inode.size # o.size
          /\ UNCHANGED inode
          /\ Complete(r, TRUE)
  /\ poll' = None
  /\ UNCHANGED <<workload, data, handler, rpc, early, dirVars>>

-----------------------------------------------------------------------------
(* Directories: a TableEnumerator over the inode table. *)

Opendir ==
  /\ "readdir" \in workload.ops /\ dir.pc = "closed"
  /\ \E s \in SetToSeqs({f \in Files : inode[f] # None}) :
       dir' = [Closed EXCEPT !.pc = "open", !.todo = s]
  /\ UNCHANGED <<workload, tables, halVars, op, rpc, poll, ghosts, iov, copy>>

(* Mutant: the offset is that of the last entry. *)
ReaddirSame(ends, plus) ==
  /\ dir.pc = "open"
  /\ dir' = [dir EXCEPT !.pc = "reading", !.plus = plus, !.from = Len(dir.listed),
                        !.off = IF dir.listed = <<>> THEN 0 ELSE Last(dir.listed).off]
  /\ iov' = iov_init(ends)
  /\ UNCHANGED <<workload, tables, halVars, op, rpc, poll, ghosts, copy>>

(* in_read->offset is the off of the last entry the guest has. *)
Readdir(ends, plus) ==
  /\ dir.pc = "open"
  /\ dir' = [dir EXCEPT !.pc = "reading", !.plus = plus, !.from = Len(dir.listed),
                        !.off = 1 + IF dir.listed = <<>> THEN 0 ELSE Last(dir.listed).off]
  /\ iov' = iov_init(ends)
  /\ UNCHANGED <<workload, tables, halVars, op, rpc, poll, ghosts, copy>>

(* nextKeyAndData, fuse_add_direntry(_plus): the entry, or the buffer is full. *)
ReaddirEntry ==
  /\ dir.pc = "reading" /\ dir.todo # <<>>
  /\ LET e == Head(dir.todo)
         len == DirentLen(e, dir.plus)
     IN \/ /\ Fits(iov, len)
           /\ dir' = [dir EXCEPT !.todo = Tail(@), !.pc = "copying"]
           /\ copy' = [ent |-> [file |-> e, off |-> dir.off, len |-> len, at |-> Written(iov)],
                       rem |-> len]
        \/ /\ ~Fits(iov, len)
           /\ dir' = [dir EXCEPT !.todo = Tail(@), !.pc = "full", !.cut = @ \cup {e},
                                 !.passed = @ \cup {e}]
           /\ UNCHANGED copy
  /\ UNCHANGED <<workload, tables, halVars, op, rpc, poll, ghosts, iov>>

(* A round of the loop of iov_write_buf ... *)
ReaddirCopy ==
  /\ dir.pc = "copying" /\ copy.rem # 0
  /\ iov' = CopyRound(iov, copy.ent.file, copy.rem)
  /\ copy' = [copy EXCEPT !.rem = @ - to_cpy(iov, @)]
  /\ UNCHANGED <<workload, tables, halVars, op, rpc, poll, ghosts, dir>>

(* ... and its end. *)
ReaddirCopied ==
  /\ dir.pc = "copying" /\ copy.rem = 0
  /\ iov' = [iov EXCEPT !.unused = @ - copy.ent.len]
  /\ dir' = [dir EXCEPT !.pc = "reading", !.off = @ + 1, !.listed = Append(@, copy.ent),
                        !.passed = @ \cup {copy.ent.file}]
  /\ copy' = NoCopy
  /\ UNCHANGED <<workload, tables, halVars, op, rpc, poll, ghosts>>

(* The guest reads on until a reply is empty. *)
ReaddirReturn ==
  /\ dir.pc = "full" \/ (dir.pc = "reading" /\ dir.todo = <<>>)
  /\ dir' = [dir EXCEPT !.pc = IF Written(iov) = 0 THEN "end" ELSE "open"]
  /\ UNCHANGED <<workload, tables, halVars, op, rpc, poll, ghosts, iov, copy>>

Releasedir ==
  /\ dir.pc \in {"open", "end"}
  /\ dir' = Closed /\ iov' = iov_init(<<>>)
  /\ UNCHANGED <<workload, tables, halVars, op, rpc, poll, ghosts, copy>>

-----------------------------------------------------------------------------
Goes == ~ended /\ UNCHANGED ended
HandlerStep(r) == /\ Goes
                  /\ \/ Mknod(r) \/ SetattrRead(r) \/ SetattrWrite(r)
                     \/ \E t \in {"inode", "data"} : UnlinkRemove(r, t)
                     \/ UnlinkReturn(r)
                     \/ AnswerAtOnce(r) \/ ReadSend(r) \/ WriteSend(r) \/ BaseDone(r)
                     \/ WriteGetAttr(r) \/ Constructed(r) \/ ReturnDeferred(r)
PollStep == \/ /\ Goes
               /\ \/ \E x \in rpc : CompletedEarly(x) \/ CompletedRead(x) \/ CompletedWrite(x)
                  \/ \E r \in Requests : Finish(r)
            \/ ~ended /\ \E x \in rpc : CompletedUninitialised(x)
ApplyStep(r) == Goes /\ \E x \in rpc : x.req = r /\ Apply(x)
DirStep == /\ Goes
           /\ \/ Opendir \/ ReaddirEntry \/ ReaddirCopy \/ ReaddirCopied \/ ReaddirReturn
              \/ Releasedir
              \/ \E ends \in Iovecs, plus \in BOOLEAN : Readdir(ends, plus)

Next == \/ /\ Goes
           /\ \E r \in Requests, f \in Files, s \in Sizes \cup {None},
                 k \in Mutations \cup {"getattr", "read"} : Deliver(r, k, f, s)
        \/ \E r \in Requests : HandlerStep(r) \/ ApplyStep(r)
        \/ PollStep \/ DirStep

Spec == Init /\ [][Next]_kvVars
(* The polling threads and ramcloud_poll run, and RAMCloud answers. *)
FairSpec == /\ Spec
            /\ \A r \in Requests : WF_kvVars(HandlerStep(r)) /\ WF_kvVars(ApplyStep(r))
            /\ WF_kvVars(PollStep)

-----------------------------------------------------------------------------
(* As long as the requests that change a file do not overlap and no write or unlink failed, the   *)
(* two tables hold what the answered requests wrote: the steps of write, setattr and unlink       *)
(* leave no inode without its size, no file half removed and none brought back.                   *)
QuietFilesExact == \A f \in Files :
  f \notin mixed /\ ~Overlaps(f) => /\ inode[f] = fs[f].inode
                                    /\ data[f] = fs[f].data

(* hal.h: one answer to a request, although a write has two completions.                          *)
Hal == INSTANCE HalContract
HalSpec == Hal!Spec

(* Every deferred request is completed, unless a response came before its object was constructed: *)
(* it was forgotten, or its completion ran on members that were not yet initialised.              *)
DeferredAreCompleted == \A r \in Requests :
  handler[r] = "deferred" ~> (completions[r] > 0 \/ r \in early \/ ended)

(* The reply of readdir is as long as its header says, every entry that lies in one iovec is      *)
(* intact (iov_write_buf repeats the beginning of one that crosses into the next), and the copy   *)
(* loop never leaves the iovecs: "we can assume that the iov is big enough during the copy loop". *)
DirentsIntact ==
  /\ \A i \in (dir.from + 1) .. Len(dir.listed) :
       LET e == dir.listed[i] IN
         /\ e.at + e.len <= Written(iov)
         /\ InOneIovec(iov, e.at, e.len) => Holds(iov, e.at, e.file, e.len)
  /\ copy.rem # 0 => iov.idx \in 1 .. Len(iov.ends)

(* Over all replies a guest is given every entry the enumerator passed once, with offsets that    *)
(* count from 1, except for the entries at which a reply was full: these are lost.                *)
ListingLosesOnlyCut ==
  /\ \A i \in DOMAIN dir.listed : dir.listed[i].off = i
  /\ \A i, j \in DOMAIN dir.listed : dir.listed[i].file = dir.listed[j].file => i = j
  /\ dir.passed = {dir.listed[i].file : i \in DOMAIN dir.listed} \cup dir.cut
=============================================================================
